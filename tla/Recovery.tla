------------------------------ MODULE Recovery ------------------------------
(***************************************************************************)
(* One node that appends blocks, stops at any point and starts again:      *)
(* finalizeAppend (consensus/consensus_state.go), SaveBlock                *)
(* (store/store.go), ApplyBlock (state/execution.go), the write-ahead log  *)
(* (consensus/wal.go), and what NewNode and OnStart do to recover          *)
(* (consensus/replay.go).                                                  *)
(*                                                                         *)
(* A crash ends the process.  What was handed to the operating system      *)
(* survives it; the buffer of the log and all memory are lost.  The chain  *)
(* starts at height 1.  Which messages a height needs is left open: an     *)
(* input is a message of a peer or a timeout, and one of them completes    *)
(* the commits of the height.                                              *)
(***************************************************************************)
EXTENDS Integers, Sequences

CONSTANTS MaxHeight,    \* bound: the heights that are decided
          Ids,          \* the inputs and own messages of a height
          MaxLog,       \* bound on the entries of the log
          MaxCrashes,   \* bound on the crashes
          Durable,      \* may the application keep what it commits?
          UpdateHeights \* where a durable application changes validators

ASSUME RecoveryAssumption ==
    /\ MaxHeight \in Nat /\ MaxLog \in Nat /\ MaxCrashes \in Nat
    /\ Durable \subseteq BOOLEAN

VARIABLES wal,          \* entries of the log, in order
          inFile,       \* how many of them have left the buffer
          store,        \* block store: height, and the heights with all parts
          stateDB,      \* the state saved last
          responses,    \* SaveABCIResponses: did EndBlock change validators?
          ran,          \* the blocks the application committed, in order
          mem,          \* the state in memory
          result,       \* the responses of the block being applied
          offered,      \* the height of kvstore's ValUpdates, 0 for none
          handled,      \* the messages of this height handled since Start
          pc,           \* the next step of the node
          mode,         \* who runs finalizeAppend or ApplyBlock
          promised,     \* history: what the node's own messages rest on
          committed,    \* history: the last height an application committed
          crashes,      \* history: number of crashes
          durable       \* does the application keep what it commits?

disk == <<wal, inFile, store, stateDB, responses>>
vars == <<disk, ran, mem, result, offered, handled, pc, mode, promised, committed, crashes, durable>>

Heights == 1..MaxHeight
Height == mem.height + 1        \* the height the node works on
Genesis == [height |-> 0, vals |-> {}, hash |-> <<>>]

Message == [kind : {"input", "own", "last"}, height : Heights, id : Ids]
EndHeight(h) == [kind |-> "end", height |-> h]
Torn == [kind |-> "torn"]       \* a record of which only a part was written
Record == Message \cup {EndHeight(h) : h \in 0..MaxHeight} \cup {Torn}

(***************************************************************************)
(* Decode reads up to the first torn record: after it the records are no   *)
(* longer aligned.                                                         *)
(***************************************************************************)
Readable ==
    SubSeq(wal, 1, CHOOSE n \in 0..Len(wal) :
                      /\ \A i \in 1..n : wal[i] # Torn
                      /\ n = Len(wal) \/ wal[n + 1] = Torn)

IsTorn == \E i \in DOMAIN wal : wal[i] = Torn

(* SearchForEndHeight *)
Marked(h) == \E i \in DOMAIN Readable : Readable[i] = EndHeight(h)

(* The records behind the marker of height h. *)
After(h) ==
    LET i == CHOOSE j \in DOMAIN Readable : Readable[j] = EndHeight(h)
    IN  SubSeq(Readable, i + 1, Len(Readable))

Init ==
    /\ wal = <<>> /\ inFile = 0
    /\ store = [height |-> 0, parts |-> {}]
    /\ stateDB = Genesis /\ responses = <<>>
    /\ ran = <<>> /\ mem = Genesis /\ result = FALSE /\ offered = 0
    /\ handled = {} /\ pc = "down" /\ mode = "consensus"
    /\ promised = [height |-> 0, msgs |-> {}] /\ committed = 0 /\ crashes = 0
    /\ durable \in Durable

-----------------------------------------------------------------------------
(* receiveRoutine: one message, written to the log before it is handled.   *)

Write(e) == wal' = Append(wal, e) /\ UNCHANGED inFile

WriteSync(e) == wal' = Append(wal, e) /\ inFile' = Len(wal) + 1

CanReceive == pc = "running" /\ Height <= MaxHeight /\ Len(wal) < MaxLog

ReceiveInput(id) ==
    LET m == [kind |-> "input", height |-> Height, id |-> id]
    IN  /\ CanReceive
        /\ Write(m)
        /\ handled' = handled \cup {m}
        /\ UNCHANGED <<store, stateDB, responses, ran, mem, result, offered,
                       pc, mode, promised, committed, crashes, durable>>

(* Mutant of ReceiveOwn: the log is not flushed. *)
ReceiveOwnUnsynced(id) ==
    LET m == [kind |-> "own", height |-> Height, id |-> id]
    IN  /\ CanReceive
        /\ Write(m)
        /\ handled' = handled \cup {m}
        /\ promised' = [height |-> Height, msgs |->
              handled' \cup IF promised.height = Height THEN promised.msgs ELSE {}]
        /\ UNCHANGED <<store, stateDB, responses, ran, mem, result, offered,
                       pc, mode, committed, crashes, durable>>

(* A vote or proposal of the node itself.  Once it is handled the gossip   *)
(* routines send it, so from now on the node stands by what led to it.     *)
ReceiveOwn(id) ==
    LET m == [kind |-> "own", height |-> Height, id |-> id]
    IN  /\ CanReceive
        /\ WriteSync(m)
        /\ handled' = handled \cup {m}
        /\ promised' = [height |-> Height, msgs |->
              handled' \cup IF promised.height = Height THEN promised.msgs ELSE {}]
        /\ UNCHANGED <<store, stateDB, responses, ran, mem, result, offered,
                       pc, mode, committed, crashes, durable>>

(* The input with which the height is decided: finalizeAppend runs. *)
ReceiveLast(id) ==
    LET m == [kind |-> "last", height |-> Height, id |-> id]
    IN  /\ CanReceive
        /\ Write(m)
        /\ handled' = handled \cup {m}
        /\ pc' = "saveBlock" /\ mode' = "consensus"
        /\ UNCHANGED <<store, stateDB, responses, ran, mem, result, offered,
                       promised, committed, crashes, durable>>

(* processFlushTicks *)
FlushTick ==
    /\ pc = "running"
    /\ inFile' = Len(wal)
    /\ UNCHANGED <<wal, store, stateDB, responses, ran, mem, result, offered,
                   handled, pc, mode, promised, committed, crashes, durable>>

(* The trust evaluation sends on ValUpdateChan for the current height. *)
OfferUpdate ==
    /\ pc \in {"running", "saveBlock", "saveBlockState", "endHeight", "exec"}
    /\ mode \in {"consensus", "catchup"} /\ ~durable /\ Height <= MaxHeight
    /\ offered' = Height
    /\ UNCHANGED <<disk, ran, mem, result, handled, pc, mode, promised, committed, crashes, durable>>

-----------------------------------------------------------------------------
(* finalizeAppend and ApplyBlock, one write at a time.                     *)

(* Mutant of SaveBlock: the height is written before the parts. *)
SaveBlockHeightFirst ==
    /\ pc = "saveBlock"
    /\ store' = [store EXCEPT !.height = Height]
    /\ pc' = "saveBlockState"
    /\ UNCHANGED <<wal, inFile, stateDB, responses, ran, mem, result, offered,
                   handled, mode, promised, committed, crashes, durable>>

(* SaveBlock up to the seen commit; not for a block that is stored already. *)
SaveBlock ==
    /\ pc = "saveBlock"
    /\ store' = IF store.height < Height
                THEN [store EXCEPT !.parts = @ \cup {Height}] ELSE store
    /\ pc' = "saveBlockState"
    /\ UNCHANGED <<wal, inFile, stateDB, responses, ran, mem, result, offered,
                   handled, mode, promised, committed, crashes, durable>>

(* Mutant of SaveBlockState: the new height stays in memory. *)
SaveBlockStateNot ==
    /\ pc = "saveBlockState"
    /\ store' = store
    /\ pc' = "endHeight"
    /\ UNCHANGED <<wal, inFile, stateDB, responses, ran, mem, result, offered,
                   handled, mode, promised, committed, crashes, durable>>

(* saveState of the block store *)
SaveBlockState ==
    /\ pc = "saveBlockState"
    /\ store' = IF store.height < Height
                THEN [store EXCEPT !.height = Height] ELSE store
    /\ pc' = "endHeight"
    /\ UNCHANGED <<wal, inFile, stateDB, responses, ran, mem, result, offered,
                   handled, mode, promised, committed, crashes, durable>>

WriteEndHeight ==
    /\ pc = "endHeight"
    /\ WriteSync(EndHeight(Height))
    /\ pc' = "exec"
    /\ UNCHANGED <<store, stateDB, responses, ran, mem, result, offered,
                   handled, mode, promised, committed, crashes, durable>>

(* What EndBlock of the application answers. *)
EndBlock(h) ==
    IF durable THEN h \in UpdateHeights ELSE offered = h

(* execBlockOnProxyApp; the mock application answers what was saved. *)
ExecBlock ==
    /\ pc = "exec"
    /\ IF mode = "mock"
       THEN result' = responses[Height] /\ UNCHANGED offered
       ELSE result' = EndBlock(Height) /\ offered' = 0
    /\ pc' = "saveResponses"
    /\ UNCHANGED <<disk, ran, mem, handled, mode, promised, committed, crashes, durable>>

SaveABCIResponses ==
    /\ pc = "saveResponses"
    /\ responses' = [h \in DOMAIN responses \cup {Height} |->
                      IF h = Height THEN result ELSE responses[h]]
    /\ pc' = "commit"
    /\ UNCHANGED <<wal, inFile, store, stateDB, ran, mem, result, offered,
                   handled, mode, promised, committed, crashes, durable>>

(* updateState, then Commit of the application, which gives the app hash. *)
Commit ==
    /\ pc = "commit"
    /\ ran' = IF mode = "mock" THEN ran ELSE Append(ran, Height)
    /\ mem' = [height |-> Height,
               vals   |-> mem.vals \cup IF result THEN {Height} ELSE {},
               hash   |-> ran']
    /\ pc' = "saveState"
    /\ committed' = Height
    /\ UNCHANGED <<disk, result, offered, handled, mode, promised, crashes, durable>>

(* Save of the state store, and updateToState.  In the handshake the log   *)
(* is opened next; in the replay of the log its other records are read.    *)
SaveState ==
    /\ pc = "saveState"
    /\ stateDB' = mem
    /\ handled' = {}
    /\ pc' = CASE mode \in {"handshake", "mock"} -> "openWAL"
               [] mode = "catchup" /\ IsTorn     -> "repair"
               [] OTHER                          -> "running"
    /\ UNCHANGED <<wal, inFile, store, responses, ran, mem, result, offered,
                   mode, promised, committed, crashes, durable>>

-----------------------------------------------------------------------------
(* Crash and recovery.                                                     *)

Crash ==
    /\ pc # "down" /\ crashes < MaxCrashes
    /\ crashes' = crashes + 1
    /\ \E n \in inFile..Len(wal) :
          \/ /\ wal' = SubSeq(wal, 1, n)
             /\ inFile' = n
          \/ /\ n < Len(wal)
             /\ wal' = Append(SubSeq(wal, 1, n), Torn)
             /\ inFile' = n + 1
    /\ ran' = IF durable THEN ran ELSE <<>>
    /\ mem' = Genesis /\ result' = FALSE /\ offered' = 0 /\ handled' = {}
    /\ pc' = "down" /\ mode' = "consensus"
    /\ UNCHANGED <<store, stateDB, responses, promised, committed, durable>>

(* NewNode: LoadFromDBOrGenesisDoc, then doHandshake. *)
Start ==
    /\ pc = "down"
    /\ mem' = stateDB
    /\ pc' = "handshake"
    /\ UNCHANGED <<disk, ran, result, offered, handled, mode, promised, committed, crashes, durable>>

(* replayBlocks: ExecBlock of the next block the application lacks, up to  *)
(* the height of the state.                                                *)
ReplayBlocks ==
    /\ pc = "handshake" /\ Len(ran) < mem.height
    /\ ran' = Append(ran, Len(ran) + 1)
    /\ UNCHANGED <<disk, mem, result, offered, handled, pc, mode, promised, committed, crashes, durable>>

(* Mutant of ReplayLast: the application is asked to run the block again. *)
ReplayLastReal ==
    /\ pc = "handshake" /\ Len(ran) >= mem.height
    /\ store.height = mem.height + 1
    /\ mode' = "handshake"
    /\ pc' = "exec"
    /\ UNCHANGED <<disk, ran, mem, result, offered, handled, promised, committed, crashes, durable>>

(* replayBlock: the block was stored but its state was not saved.  If the  *)
(* application has committed it, the mock application stands in.           *)
ReplayLast ==
    /\ pc = "handshake" /\ Len(ran) >= mem.height
    /\ store.height = mem.height + 1
    /\ mode' = IF Len(ran) = store.height THEN "mock" ELSE "handshake"
    /\ pc' = "exec"
    /\ UNCHANGED <<disk, ran, mem, result, offered, handled, promised, committed, crashes, durable>>

(* Mutant of Synced: the block store is not looked at. *)
SyncedUnchecked ==
    /\ pc = "handshake" /\ Len(ran) = mem.height
    /\ pc' = "openWAL"
    /\ UNCHANGED <<disk, ran, mem, result, offered, handled, mode, promised, committed, crashes, durable>>

(* Store, state and application are at one height. *)
Synced ==
    /\ pc = "handshake" /\ Len(ran) = mem.height /\ store.height = mem.height
    /\ pc' = "openWAL"
    /\ UNCHANGED <<disk, ran, mem, result, offered, handled, mode, promised, committed, crashes, durable>>

(* loadWalFile; OnStart of the log marks a new one. *)
OpenWAL ==
    /\ pc = "openWAL"
    /\ IF wal = <<>> THEN WriteSync(EndHeight(0)) ELSE UNCHANGED <<wal, inFile>>
    /\ pc' = "catchup" /\ mode' = "consensus"
    /\ UNCHANGED <<store, stateDB, responses, ran, mem, result, offered,
                   handled, promised, committed, crashes, durable>>

(* catchupReplay of the log behind the marker of the height before.  The   *)
(* message that decides the height runs finalizeAppend.  Without the       *)
(* marker OnStart goes on with nothing replayed.                           *)
CatchupReplay ==
    LET log == After(Height - 1)
        lastAt == {i \in DOMAIN log : log[i].kind = "last"}
        upTo == IF lastAt = {} THEN Len(log)
                ELSE CHOOSE i \in lastAt : \A j \in lastAt : i <= j
    IN  /\ pc = "catchup"
        /\ IF Marked(Height) \/ ~Marked(Height - 1)
           THEN pc' = "running" /\ UNCHANGED <<handled, mode>>
           ELSE /\ handled' = handled \cup {log[i] : i \in 1..upTo}
                /\ mode' = "catchup"
                /\ pc' = CASE lastAt # {} -> "saveBlock"
                           [] lastAt = {} /\ IsTorn -> "repair"
                           [] OTHER -> "running"
        /\ UNCHANGED <<disk, ran, mem, result, offered, promised, committed, crashes, durable>>

(* Mutant of Repair: the torn record is kept. *)
RepairNothing ==
    /\ pc = "repair"
    /\ pc' = "catchup"
    /\ UNCHANGED <<disk, ran, mem, result, offered, handled, mode, promised, committed, crashes, durable>>

(* repairWalFile keeps what can be decoded; OnStart then replays again. *)
Repair ==
    /\ pc = "repair"
    /\ wal' = Readable /\ inFile' = Len(Readable)
    /\ pc' = "catchup"
    /\ UNCHANGED <<store, stateDB, responses, ran, mem, result, offered,
                   handled, mode, promised, committed, crashes, durable>>

(* What the node does by itself once it is started. *)
NodeStep ==
    \/ SaveBlock \/ SaveBlockState \/ WriteEndHeight
    \/ ExecBlock \/ SaveABCIResponses \/ Commit \/ SaveState
    \/ Start \/ ReplayBlocks \/ ReplayLast \/ Synced
    \/ OpenWAL \/ CatchupReplay \/ Repair

Next ==
    \/ NodeStep
    \/ \E id \in Ids : ReceiveInput(id) \/ ReceiveOwn(id) \/ ReceiveLast(id)
    \/ FlushTick \/ OfferUpdate \/ Crash

Spec == Init /\ [][Next]_vars

(* Nothing in these steps waits for another party, and Start is repeated   *)
(* by whoever runs the node.                                               *)
FairSpec == Spec /\ WF_vars(NodeStep)

-----------------------------------------------------------------------------

State == [height : 0..MaxHeight, vals : SUBSET Heights, hash : Seq(Nat)]

Steps == {"down", "handshake", "openWAL", "catchup", "repair", "running",
          "saveBlock", "saveBlockState", "endHeight",
          "exec", "saveResponses", "commit", "saveState"}

(* Every variable has its type. *)
TypeOK ==
    /\ wal \in Seq(Record)
    /\ inFile \in 0..Len(wal)
    /\ store \in [height : 0..MaxHeight, parts : SUBSET Heights]
    /\ stateDB \in State /\ mem \in State
    /\ DOMAIN responses \subseteq Heights
    /\ \A h \in DOMAIN responses : responses[h] \in BOOLEAN
    /\ ran \in Seq(Heights)
    /\ result \in BOOLEAN /\ offered \in 0..MaxHeight
    /\ handled \subseteq Message
    /\ pc \in Steps /\ mode \in {"consensus", "catchup", "handshake", "mock"}
    /\ promised \in [height : 0..MaxHeight, msgs : SUBSET Message]
    /\ committed \in 0..MaxHeight /\ crashes \in 0..MaxCrashes /\ durable \in Durable

(* Whatever was interrupted, what is on disk is a case that ReplayBlocks   *)
(* can handle: the block store is level with the state or one ahead, the   *)
(* application is not ahead of the store, the responses the mock           *)
(* application needs were saved, and no assertion on the app hash fails.   *)
Resumable ==
    /\ store.height \in {stateDB.height, stateDB.height + 1}
    /\ Len(ran) <= store.height
    /\ Len(ran) > stateDB.height => store.height \in DOMAIN responses
    /\ pc = "handshake" /\ Len(ran) = mem.height => ran = mem.hash

(* A block the block store counts can be loaded (LoadBlock in the          *)
(* handshake and in gossip): its parts were written before its height.     *)
StoredBlocksComplete == \A h \in 1..store.height : h \in store.parts

(* The application commits every block once and in order, across any       *)
(* number of crashes (the mock application is there "because we don't want *)
(* to call Reply() twice for the same block").                             *)
BlocksRunOnce == ran = [i \in 1..Len(ran) |-> i]

(* A node that runs consensus has store, state and application at the      *)
(* same height, and its state is the saved one.                            *)
RunsInSync ==
    pc \in {"openWAL", "catchup", "repair", "running"} =>
       /\ mem = stateDB /\ store.height = mem.height /\ ran = mem.hash

(* What catchupReplay is for: with the marker of the last height in the    *)
(* log, a node in consensus has handled everything its own messages of     *)
(* this height rest on, be it before or after a crash.                     *)
ReplayRecovers ==
    (pc = "running" /\ promised.height = Height /\ Marked(Height - 1))
       => promised.msgs \subseteq handled

(* The same without a condition on the marker: the comment in              *)
(* finalizeAppend has it that a crash before the marker is written is      *)
(* recovered from in the handshake.                                        *)
PromisesKept ==
    (pc = "running" /\ promised.height = Height) => promised.msgs \subseteq handled

(* Once an application that keeps its data has committed a block, the      *)
(* saved responses of the block stay what they are: with them the state is *)
(* completed "in case we crash after app.Reply and before s.Save()"        *)
(* (SaveABCIResponses).                                                    *)
ResponsesStand ==
    [][\A h \in DOMAIN responses : durable /\ h <= committed =>
          h \in DOMAIN responses' /\ responses'[h] = responses[h]]_vars

(* Once crashes cease, the node gets back to consensus. *)
Recovers == pc # "running" ~> pc = "running"

(* The inductive strengthening of Resumable, BlocksRunOnce and RunsInSync. *)

(* The hash of a state stands for the blocks up to its height. *)
Blocks(n) == [i \in 1..n |-> i]

HashesFit ==
    /\ stateDB.height \in Nat /\ stateDB.hash = Blocks(stateDB.height)
    /\ mem.height \in Nat /\ mem.hash = Blocks(mem.height)
    /\ Len(ran) \in Nat /\ ran = Blocks(Len(ran))

(* Where state, store and application are while the process runs. *)
Levels ==
    /\ pc \in Steps
    /\ pc \notin {"down", "saveState"} => mem = stateDB
    /\ pc \in {"openWAL", "catchup", "repair", "running", "saveBlock", "saveBlockState"} =>
          store.height = mem.height /\ Len(ran) = mem.height
    /\ pc \in {"endHeight", "exec", "saveResponses", "commit"} =>
          store.height = Height
    /\ pc \in {"saveBlock", "saveBlockState", "endHeight"} => mode \in {"consensus", "catchup"}
    /\ pc \in {"endHeight", "exec", "saveResponses", "commit"} =>
          Len(ran) = IF mode = "mock" THEN Height ELSE mem.height
    /\ pc = "commit" => Height \in DOMAIN responses
    /\ pc = "saveState" =>
          /\ mem.height = stateDB.height + 1 /\ store.height = mem.height
          /\ Len(ran) = mem.height /\ mem.height \in DOMAIN responses

OnDisk ==
    /\ store.height \in {stateDB.height, stateDB.height + 1}
    /\ Len(ran) <= store.height
    /\ Len(ran) > stateDB.height => store.height \in DOMAIN responses

IInv == HashesFit /\ Levels /\ OnDisk

-----------------------------------------------------------------------------
(* The inductive strengthening of StoredBlocksComplete and ResponsesStand. *)

StoreFilled ==
    /\ StoredBlocksComplete
    /\ pc = "saveBlockState" => Height \in store.parts

(* A durable application has committed what the node saw it commit, and    *)
(* the mock application answers what was saved.                            *)
AnswersKept ==
    /\ durable => committed = Len(ran) /\ stateDB.height <= Len(ran)
    /\ pc = "saveResponses" /\ mode = "mock" =>
          Height \in DOMAIN responses /\ result = responses[Height]

(***************************************************************************)
(* The inductive strengthening of ReplayRecovers, on the log itself.       *)
(***************************************************************************)

(* The records up to i can be decoded. *)
Clear(i) == \A k \in 1..i : wal[k] # Torn

(* The marker of height h is where Decode finds it. *)
MarkerAt(i, h) == i \in DOMAIN wal /\ Clear(i) /\ wal[i] = EndHeight(h)

(* A log that was begun is not lost, and its first record is whole. *)
LogBegun ==
    /\ wal # <<>> => inFile >= 1 /\ wal[1] # Torn
    /\ wal = <<>> => promised.height = 0
    /\ pc \in {"catchup", "repair", "running"} => mode \in {"consensus", "catchup"}
    /\ pc \notin {"down", "handshake", "openWAL"} /\ mode \in {"consensus", "catchup"} =>
          wal # <<>>

(* The last height whose marker may be in the log. *)
Newest == IF pc = "endHeight" THEN mem.height ELSE store.height

(* What comes behind a marker is of a later height. *)
MarkersInOrder ==
    \A i \in DOMAIN wal : wal[i].kind = "end" =>
       /\ wal[i].height <= Newest
       /\ \A j \in DOMAIN wal : i < j /\ wal[j] # Torn => wal[i].height < wal[j].height

InOrder == LogBegun /\ MarkersInOrder

(* A node in consensus works behind a torn record only if the marker it    *)
(* started from was missing.                                               *)
TornIsBehind ==
    (/\ pc \in {"running", "saveBlock", "saveBlockState", "endHeight",
                "exec", "saveResponses", "commit", "saveState"}
     /\ mode = "consensus" \/ pc = "running"
     /\ IsTorn) => \A i \in DOMAIN wal : \A h \in 0..MaxHeight :
                      MarkerAt(i, h) => h < stateDB.height

(* What the node promised is in the file. *)
PromisesLogged ==
    /\ promised.height <= stateDB.height + 1
    /\ promised.height = stateDB.height + 1 =>
          \A i \in DOMAIN wal : MarkerAt(i, stateDB.height) =>
             \A m \in promised.msgs : \E j \in (i + 1)..inFile : Clear(j) /\ wal[j] = m

(* What the node has handled is in the log. *)
HandledLogged ==
    /\ pc \in {"down", "handshake", "openWAL"} => handled = {}
    /\ pc \in {"catchup", "repair", "running"} =>
          \A i \in DOMAIN wal : MarkerAt(i, mem.height) =>
             \A m \in handled : \E j \in (i + 1)..Len(wal) : Clear(j) /\ wal[j] = m
    /\ pc = "running" /\ promised.height = Height =>
          \A i \in DOMAIN wal : MarkerAt(i, mem.height) => promised.msgs \subseteq handled

InBounds ==
    pc \in {"saveBlock", "saveBlockState", "endHeight", "exec", "saveResponses", "commit"}
       => Height <= MaxHeight

LogInv ==
    /\ TypeOK /\ InBounds /\ InOrder
    /\ TornIsBehind /\ PromisesLogged /\ HandledLogged
=============================================================================
