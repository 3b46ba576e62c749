--------------------------- MODULE RecoveryProofs ---------------------------
(***************************************************************************)
(* A node can be restarted after a crash at any point, for any number of   *)
(* heights, crashes and log records, and with either kind of application.  *)
(*                                                                         *)
(* The invariant to carry along is the relation of the four heights (saved *)
(* state, state in memory, block store, application) at every step of      *)
(* finalizeAppend, ApplyBlock and the handshake (IInv).  For the replay of *)
(* the log it is joined by what the log holds (LogInv): records in order,  *)
(* and behind the marker of the last height all that the node has handled, *)
(* in the file all that it has promised, unless a torn record hides them.  *)
(***************************************************************************)
EXTENDS Recovery, WellFoundedInduction, TLAPS

(* The application's record grows by the block it commits. *)
LEMMA BlocksAppend ==
    ASSUME NEW n \in Nat
    PROVE  /\ Append(Blocks(n), n + 1) = Blocks(n + 1)
           /\ Len(Blocks(n)) = n
<1>1. Blocks(n) \in Seq(Nat) /\ Len(Blocks(n)) = n
  BY DEF Blocks
<1>2. Append(Blocks(n), n + 1) = Blocks(n + 1)
  BY <1>1 DEF Blocks
<1>. QED  BY <1>1, <1>2

(* The chain of height 0 is empty. *)
LEMMA BlocksEmpty == Blocks(0) = <<>> /\ Len(<<>>) = 0
  BY DEF Blocks

(* What is on disk before the first start. *)
LEMMA InitIInv == Init => IInv
  BY BlocksEmpty DEF Init, IInv, HashesFit, Levels, OnDisk, Genesis, Steps, Height

(* Handling messages, the log, and an offer leave the four heights alone. *)
LEMMA ReceivePreserves ==
    ASSUME IInv,
           \/ \E id \in Ids : ReceiveInput(id) \/ ReceiveOwn(id) \/ ReceiveLast(id)
           \/ FlushTick \/ OfferUpdate
    PROVE  IInv'
<1>1. /\ UNCHANGED <<ran, mem, stateDB, store, responses>>
      /\ \/ UNCHANGED <<pc, mode>>
         \/ pc = "running" /\ pc' = "saveBlock" /\ mode' = "consensus"
  BY Zenon DEF ReceiveInput, ReceiveOwn, ReceiveLast, FlushTick, OfferUpdate, CanReceive, disk
<1>2. HashesFit' /\ OnDisk'
  BY <1>1 DEF IInv, HashesFit, OnDisk
<1>3. Levels'
  BY <1>1 DEF IInv, Levels, Steps, Height
<1>. QED  BY <1>2, <1>3 DEF IInv

(* finalizeAppend and ApplyBlock, one write at a time. *)
LEMMA AppendPreserves ==
    ASSUME IInv,
           \/ SaveBlock \/ SaveBlockState \/ WriteEndHeight
           \/ ExecBlock \/ SaveABCIResponses \/ SaveState
    PROVE  IInv'
<1> USE DEF IInv
<1>1. CASE SaveBlock
  <2>1. store'.height = store.height
    BY <1>1 DEF SaveBlock
  <2>. QED  BY <1>1, <2>1 DEF SaveBlock, HashesFit, Levels, OnDisk, Steps, Height
<1>2. CASE SaveBlockState
  <2>1. store.height = mem.height /\ mem.height \in Nat
    BY <1>2 DEF SaveBlockState, Levels, HashesFit
  <2>2. store' = [store EXCEPT !.height = Height]
    BY <1>2, <2>1 DEF SaveBlockState, Height
  <2>. QED  BY <1>2, <2>1, <2>2 DEF SaveBlockState, HashesFit, Levels, OnDisk, Steps, Height
<1>3. CASE WriteEndHeight
  BY <1>3 DEF WriteEndHeight, HashesFit, Levels, OnDisk, Steps, Height
<1>4. CASE ExecBlock
  BY <1>4 DEF ExecBlock, disk, HashesFit, Levels, OnDisk, Steps, Height
<1>5. CASE SaveABCIResponses
  <2>1. DOMAIN responses' = DOMAIN responses \cup {Height}
    BY <1>5 DEF SaveABCIResponses
  <2>. QED  BY <1>5, <2>1 DEF SaveABCIResponses, HashesFit, Levels, OnDisk, Steps, Height
<1>6. CASE SaveState
  <2>1. pc' \in {"openWAL", "repair", "running"}
    BY <1>6 DEF SaveState
  <2>. QED  BY <1>6, <2>1 DEF SaveState, HashesFit, Levels, OnDisk, Steps, Height
<1>. QED  BY <1>1, <1>2, <1>3, <1>4, <1>5, <1>6

(* The application commits the block, unless the mock stands in for it. *)
LEMMA CommitPreserves ==
    ASSUME IInv, Commit
    PROVE  IInv'
<1> USE DEF IInv
<1>1. /\ mem.height \in Nat /\ mem = stateDB /\ store.height = Height
      /\ ran = Blocks(Len(ran)) /\ Height \in DOMAIN responses
      /\ Len(ran) = IF mode = "mock" THEN Height ELSE mem.height
  BY DEF Commit, Levels, HashesFit
<1>2. ran' = Blocks(Height) /\ Len(ran') = Height
  <2>1. CASE mode = "mock"
    BY <1>1, <2>1 DEF Commit
  <2>2. CASE mode # "mock"
    <3>1. ran = Blocks(mem.height) /\ ran' = Append(ran, mem.height + 1)
      BY <1>1, <2>2 DEF Commit, Height
    <3>2. ran' = Blocks(mem.height + 1)
      BY <1>1, <3>1, BlocksAppend, Zenon
    <3>3. Len(Blocks(mem.height + 1)) = mem.height + 1
      BY <1>1, mem.height + 1 \in Nat, BlocksAppend, Zenon
    <3>. QED  BY <3>2, <3>3 DEF Height
  <2>. QED  BY <2>1, <2>2
<1>3. mem'.height = Height /\ mem'.hash = Blocks(Height)
  BY <1>2 DEF Commit
<1>4. HashesFit' /\ OnDisk'
  BY <1>1, <1>2, <1>3 DEF Commit, disk, HashesFit, OnDisk, Height
<1>5. Levels'
  BY <1>1, <1>2, <1>3 DEF Commit, disk, Levels, Steps, Height
<1>. QED  BY <1>4, <1>5

(* The end of the process: memory goes, and with it kvstore. *)
LEMMA CrashPreserves ==
    ASSUME IInv, Crash
    PROVE  IInv'
<1> USE DEF IInv
<1>1. /\ ran' = ran \/ ran' = <<>>
      /\ mem' = Genesis /\ pc' = "down"
      /\ UNCHANGED <<store, stateDB, responses>>
  BY DEF Crash
<1>2. HashesFit'
  BY <1>1, BlocksEmpty DEF HashesFit, Genesis
<1>3. Len(ran') \in Nat /\ Len(ran') <= Len(ran)
  BY <1>1, BlocksEmpty DEF HashesFit
<1>4. OnDisk'
  BY <1>1, <1>3 DEF OnDisk, HashesFit
<1>5. Levels'
  BY <1>1 DEF Levels, Steps
<1>. QED  BY <1>2, <1>4, <1>5

(* Start, handshake and replay of the log. *)
LEMMA StartPreserves ==
    ASSUME IInv,
           \/ Start \/ ReplayBlocks \/ ReplayLast \/ Synced
           \/ OpenWAL \/ CatchupReplay \/ Repair
    PROVE  IInv'
<1> USE DEF IInv
<1>1. CASE Start
  BY <1>1 DEF Start, disk, HashesFit, Levels, OnDisk, Steps, Height
<1>2. CASE ReplayBlocks
  <2>1. Len(ran) \in Nat /\ ran = Blocks(Len(ran)) /\ Len(ran) < mem.height
    BY <1>2 DEF ReplayBlocks, HashesFit
  <2>2. ran' = Blocks(Len(ran) + 1)
    <3>1. ran' = Append(Blocks(Len(ran)), Len(ran) + 1)
      BY <1>2, <2>1 DEF ReplayBlocks
    <3>. QED  BY <2>1, <3>1, BlocksAppend, Zenon
  <2>3. Len(ran') = Len(ran) + 1
    BY <2>1, <2>2, Len(ran) + 1 \in Nat, BlocksAppend
  <2>. QED  BY <1>2, <2>1, <2>2, <2>3 DEF ReplayBlocks, disk, HashesFit, Levels, OnDisk, Steps
<1>3. CASE ReplayLast
  <2>1. Len(ran) = mem.height \/ Len(ran) = Height
    BY <1>3 DEF ReplayLast, HashesFit, Levels, OnDisk, Height
  <2>. QED  BY <1>3, <2>1 DEF ReplayLast, disk, HashesFit, Levels, OnDisk, Steps, Height
<1>4. CASE Synced
  BY <1>4 DEF Synced, disk, HashesFit, Levels, OnDisk, Steps, Height
<1>5. CASE OpenWAL
  BY <1>5 DEF OpenWAL, HashesFit, Levels, OnDisk, Steps, Height
<1>6. CASE CatchupReplay
  <2>1. /\ pc = "catchup"
        /\ UNCHANGED <<ran, mem, stateDB, store, responses>>
        /\ \/ pc' \in {"repair", "running"}
           \/ pc' = "saveBlock" /\ mode' = "catchup"
    BY <1>6 DEF CatchupReplay, disk
  <2>. QED  BY <2>1 DEF HashesFit, Levels, OnDisk, Steps, Height
<1>7. CASE Repair
  BY <1>7 DEF Repair, HashesFit, Levels, OnDisk, Steps, Height
<1>. QED  BY <1>1, <1>2, <1>3, <1>4, <1>5, <1>6, <1>7

(* The relation of the heights holds at every point of every run. *)
THEOREM RecoveryInvariant == Spec => []IInv
<1>1. IInv /\ [Next]_vars => IInv'
  <2> SUFFICES ASSUME IInv, [Next]_vars PROVE IInv'
    OBVIOUS
  <2>1. CASE UNCHANGED vars
    BY <2>1 DEF vars, disk, IInv, HashesFit, Levels, OnDisk, Height
  <2>2. CASE Next
    BY <2>2, ReceivePreserves, AppendPreserves, CommitPreserves, CrashPreserves,
       StartPreserves DEF Next, NodeStep
  <2>. QED  BY <2>1, <2>2
<1>. QED  BY <1>1, InitIInv, PTL DEF Spec

(* Whatever was interrupted, ReplayBlocks has a case for what is on disk,  *)
(* and none of its assertions fails.                                       *)
THEOREM RecoveryResumable == Spec => []Resumable
<1>1. IInv => Resumable
  BY DEF IInv, HashesFit, Levels, OnDisk, Resumable
<1>. QED  BY <1>1, RecoveryInvariant, PTL

(* No application commits a block twice or out of order. *)
THEOREM RecoveryRunsOnce == Spec => []BlocksRunOnce
<1>1. IInv => BlocksRunOnce
  BY DEF IInv, HashesFit, Blocks, BlocksRunOnce
<1>. QED  BY <1>1, RecoveryInvariant, PTL

(* Consensus starts, and goes on, with state, store and application level. *)
THEOREM RecoveryInSync == Spec => []RunsInSync
<1>1. IInv => RunsInSync
  BY DEF IInv, HashesFit, Levels, RunsInSync
<1>. QED  BY <1>1, RecoveryInvariant, PTL

-----------------------------------------------------------------------------
(* The records of the log.                                                 *)

(* The kinds of record. *)
LEMMA RecordFacts ==
    ASSUME NEW e \in Record
    PROVE  /\ e = Torn \/ e \in Message \/ \E h \in 0..MaxHeight : e = EndHeight(h)
           /\ e = Torn <=> e.kind = "torn"
           /\ e.kind = "end" => \E h \in 0..MaxHeight : e = EndHeight(h) /\ e.height = h
           /\ e # Torn => e.height \in Nat
           /\ e \in Message => e.kind \in {"input", "own", "last"} /\ e.height \in Heights
           /\ e.kind \notin {"torn", "end"} => e \in Message
<1>0. MaxHeight \in Nat
  BY RecoveryAssumption
<1>1. CASE e = Torn
  BY <1>1 DEF Torn, Message
<1>2. CASE e \in Message
  <2>1. e.kind \in {"input", "own", "last"} /\ e.height \in Heights /\ e.height \in Nat
    BY <1>0, <1>2 DEF Message, Heights
  <2>2. e # Torn
    BY <2>1 DEF Torn
  <2>. QED  BY <1>2, <2>1, <2>2
<1>3. ASSUME NEW h \in 0..MaxHeight, e = EndHeight(h)
      PROVE  e.kind = "end" /\ e.height = h /\ h \in Nat /\ e # Torn /\ e \notin Message
  BY <1>0, <1>3 DEF EndHeight, Torn, Message
<1>4. e = Torn \/ e \in Message \/ \E h \in 0..MaxHeight : e = EndHeight(h)
  BY DEF Record
<1>. QED  BY <1>1, <1>2, <1>3, <1>4

(* Markers are told apart by their height, and are not torn. *)
LEMMA MarkerFacts ==
    ASSUME NEW h, NEW g
    PROVE  /\ EndHeight(h).kind = "end" /\ EndHeight(h).height = h /\ EndHeight(h) # Torn
           /\ EndHeight(h) = EndHeight(g) => h = g
           /\ EndHeight(h) \notin Message
  BY DEF EndHeight, Torn, Message

(* A torn record makes all that follow unreadable. *)
LEMMA ClearFacts ==
    ASSUME wal \in Seq(Record)
    PROVE  /\ \A i \in DOMAIN wal : \A k \in 1..i : Clear(i) => Clear(k) /\ wal[k] # Torn
           /\ ~IsTorn <=> Clear(Len(wal))
           /\ ~IsTorn => \A i \in DOMAIN wal : Clear(i)
  BY DEF Clear, IsTorn

(* A record is written behind the others. *)
LEMMA WriteFacts ==
    ASSUME wal \in Seq(Record), NEW e \in Record, wal' = Append(wal, e)
    PROVE  /\ wal' \in Seq(Record) /\ Len(wal') = Len(wal) + 1 /\ wal' # <<>>
           /\ DOMAIN wal' = 1..(Len(wal) + 1) /\ DOMAIN wal = 1..Len(wal)
           /\ wal'[Len(wal) + 1] = e
           /\ \A i \in DOMAIN wal : wal'[i] = wal[i] /\ (Clear(i)' <=> Clear(i))
           /\ \A k : k = Len(wal) + 1 => (Clear(k)' <=> ~IsTorn /\ e # Torn)
           /\ e # Torn => (IsTorn' <=> IsTorn)
<1>0. Len(wal) \in Nat
  OBVIOUS
<1>1. /\ wal' \in Seq(Record) /\ Len(wal') = Len(wal) + 1 /\ wal' # <<>>
      /\ DOMAIN wal' = 1..(Len(wal) + 1) /\ DOMAIN wal = 1..Len(wal)
      /\ wal'[Len(wal) + 1] = e
  OBVIOUS
<1>2. \A i \in 1..Len(wal) : wal'[i] = wal[i]
  OBVIOUS
<1>3. \A i \in 1..Len(wal) : Clear(i)' <=> Clear(i)
  BY <1>0, <1>2 DEF Clear
<1>4. \A k : k = Len(wal) + 1 => (Clear(k)' <=> ~IsTorn /\ e # Torn)
  BY <1>0, <1>1, <1>2 DEF Clear, IsTorn
<1>5. e # Torn => (IsTorn' <=> IsTorn)
  BY <1>0, <1>1, <1>2 DEF IsTorn
<1>. QED  BY <1>1, <1>2, <1>3, <1>4, <1>5

(* A crash keeps what is in the file, and perhaps more of the buffer, the  *)
(* last record of it torn.                                                 *)
LEMMA CrashFacts ==
    ASSUME TypeOK, Crash
    PROVE  \E n \in inFile..Len(wal) :
              /\ wal' \in Seq(Record) /\ inFile' = Len(wal') /\ n <= Len(wal') /\ Len(wal') <= n + 1
              /\ Len(wal') > n => wal'[n + 1] = Torn
              /\ \A i \in 1..n : wal'[i] = wal[i] /\ (Clear(i)' <=> Clear(i))
              /\ wal = <<>> => wal' = <<>>
<1>0. wal \in Seq(Record) /\ Len(wal) \in Nat /\ inFile \in 0..Len(wal) /\ Torn \in Record
  BY DEF TypeOK, Record
<1>1. PICK n \in inFile..Len(wal) :
         \/ wal' = SubSeq(wal, 1, n) /\ inFile' = n
         \/ /\ n < Len(wal)
            /\ wal' = Append(SubSeq(wal, 1, n), Torn)
            /\ inFile' = n + 1
  BY DEF Crash
<1>2. n \in Nat /\ n <= Len(wal)
  BY <1>0, <1>1
<1> DEFINE s == SubSeq(wal, 1, n)
<1>3. s \in Seq(Record) /\ Len(s) = n /\ \A i \in 1..n : s[i] = wal[i]
  BY <1>0, <1>2
<1> HIDE DEF s
<1>4. CASE wal' = s /\ inFile' = n
  <2>1. \A i \in 1..n : wal'[i] = wal[i] /\ (Clear(i)' <=> Clear(i))
    BY <1>2, <1>3, <1>4 DEF Clear
  <2>2. wal = <<>> => wal' = <<>>
    <3>1. wal = <<>> => n = 0
      BY <1>0, <1>2
    <3>. QED  BY <1>3, <1>4, <3>1
  <2>3. n <= n /\ n <= n + 1 /\ ~(n > n)
    BY <1>2
  <2>. QED  BY <1>3, <1>4, <2>1, <2>2, <2>3
<1>5. CASE n < Len(wal) /\ wal' = Append(s, Torn) /\ inFile' = n + 1
  <2>1. wal' \in Seq(Record) /\ Len(wal') = n + 1 /\ wal'[n + 1] = Torn
        /\ \A i \in 1..n : wal'[i] = s[i]
    BY <1>0, <1>2, <1>3, <1>5
  <2>2. \A i \in 1..n : wal'[i] = wal[i] /\ (Clear(i)' <=> Clear(i))
    BY <1>2, <1>3, <2>1 DEF Clear
  <2>3. wal # <<>> /\ n <= n + 1 /\ n + 1 <= n + 1
    BY <1>0, <1>2, <1>5
  <2>. QED  BY <1>5, <2>1, <2>2, <2>3
<1>. QED  BY <1>1, <1>4, <1>5 DEF s

-----------------------------------------------------------------------------
(* What Decode, SearchForEndHeight and catchupReplay find in the log.      *)

(* A set of heights or positions has a smallest element. *)
LEMMA Smallest ==
    ASSUME NEW T \in SUBSET Nat, T # {}
    PROVE  \E n \in T : \A m \in T : n <= m
<1>1. PICK n \in T : \A m \in T : ~(<<m, n>> \in OpToRel(<, Nat))
  BY NatLessThanWellFounded, WFMin, Zenon
<1>2. \A m \in T : ~(m < n)
  BY <1>1, Zenon DEF OpToRel
<1>3. \A m \in T : n <= m
  BY <1>2
<1>. QED  BY <1>3

(* Decode reads the records up to the first torn one. *)
LEMMA ReadableFacts ==
    ASSUME wal \in Seq(Record)
    PROVE  /\ Readable \in Seq(Record) /\ Len(Readable) \in 0..Len(wal)
           /\ \A i \in 1..Len(Readable) : Readable[i] = wal[i] /\ wal[i] # Torn
           /\ \A i \in DOMAIN wal : Clear(i) <=> i <= Len(Readable)
           /\ IsTorn <=> Len(Readable) # Len(wal)
<1> DEFINE P(n) == /\ \A i \in 1..n : wal[i] # Torn
                   /\ n = Len(wal) \/ wal[n + 1] = Torn
           T == {i \in DOMAIN wal : wal[i] = Torn}
<1>0. Len(wal) \in Nat /\ DOMAIN wal = 1..Len(wal)
  OBVIOUS
<1>1. \E n \in 0..Len(wal) : P(n)
  <2>1. CASE T = {}
    <3>1. P(Len(wal)) /\ Len(wal) \in 0..Len(wal)
      BY <1>0, <2>1
    <3> HIDE DEF P
    <3>. QED  BY <3>1
  <2>2. CASE T # {}
    <3>1. PICK n \in T : \A m \in T : n <= m
      <4>1. T \in SUBSET Nat
        BY <1>0
      <4> HIDE DEF T
      <4>. QED  BY <2>2, <4>1, Smallest
    <3>2. n - 1 \in 0..Len(wal) /\ P(n - 1)
      BY <1>0, <3>1
    <3>. QED  BY <3>2
  <2>. QED  BY <2>1, <2>2
<1>2. PICK n \in 0..Len(wal) : P(n) /\ Readable = SubSeq(wal, 1, n)
  BY <1>1, Zenon DEF Readable
<1> HIDE DEF T, P
<1>3. n \in Nat /\ n <= Len(wal)
  BY <1>0, <1>2
<1>9. /\ \A i \in 1..n : wal[i] # Torn
      /\ n = Len(wal) \/ wal[n + 1] = Torn
  BY <1>2 DEF P
<1>4. /\ Readable \in Seq(Record) /\ Len(Readable) = n
      /\ \A i \in 1..n : Readable[i] = wal[i]
  BY <1>0, <1>2, <1>3
<1>5. \A i \in 1..Len(wal) : i <= n => Clear(i)
  <2>1. \A i \in 1..Len(wal) : i <= n => 1..i \subseteq 1..n
    BY <1>0, <1>3
  <2>. QED  BY <1>9, <2>1 DEF Clear
<1>6. \A i \in 1..Len(wal) : ~(i <= n) => ~Clear(i)
  <2>1. \A m, k \in Nat : \A i \in 1..m : ~(i <= k) => k + 1 \in 1..i /\ (k <= m => k # m)
    OBVIOUS
  <2>2. \A i \in 1..Len(wal) : ~(i <= n) => n + 1 \in 1..i /\ n # Len(wal)
    BY <1>0, <1>3, <2>1, Zenon
  <2>. QED  BY <1>9, <2>2 DEF Clear
<1>7. n = Len(wal) => ~IsTorn
  BY <1>0, <1>9, Zenon DEF IsTorn
<1>8. n # Len(wal) => IsTorn
  <2>1. \A m, k \in Nat : k <= m /\ k # m => k + 1 \in 1..m
    BY SMTT(30)
  <2>2. n # Len(wal) => n + 1 \in 1..Len(wal)
    BY <1>0, <1>3, <2>1, Zenon
  <2>. QED  BY <1>0, <1>9, <2>2, Zenon DEF IsTorn
<1>10. n \in 0..Len(wal) /\ \A i \in 1..n : Readable[i] = wal[i] /\ wal[i] # Torn
  BY <1>2, <1>4, <1>9
<1>. QED  BY <1>0, <1>4, <1>5, <1>6, <1>7, <1>8, <1>10, Zenon

(* SearchForEndHeight finds the markers that no torn record hides. *)
LEMMA MarkedFacts ==
    ASSUME wal \in Seq(Record), NEW h
    PROVE  Marked(h) <=> \E i \in DOMAIN wal : MarkerAt(i, h)
<1>1. DOMAIN Readable = 1..Len(Readable) /\ DOMAIN wal = 1..Len(wal) /\ Len(wal) \in Nat
  BY ReadableFacts
<1>2. /\ Len(Readable) \in 0..Len(wal)
      /\ \A i \in 1..Len(Readable) : Readable[i] = wal[i]
      /\ \A i \in DOMAIN wal : Clear(i) <=> i <= Len(Readable)
  BY ReadableFacts
<1>3. \A i : i \in DOMAIN Readable <=> i \in DOMAIN wal /\ Clear(i)
  BY <1>1, <1>2
<1>. QED  BY <1>1, <1>2, <1>3 DEF Marked, MarkerAt

(* The end of a sequence. *)
LEMMA SuffixFacts ==
    ASSUME NEW R, NEW s \in Seq(R), NEW i \in 1..Len(s)
    PROVE  /\ SubSeq(s, i + 1, Len(s)) \in Seq(R)
           /\ Len(SubSeq(s, i + 1, Len(s))) = Len(s) - i
           /\ \A k \in 1..(Len(s) - i) : SubSeq(s, i + 1, Len(s))[k] = s[i + k]
<1>1. Len(s) \in Nat /\ i \in Nat /\ i <= Len(s)
  OBVIOUS
<1>2. CASE i = Len(s)
  BY <1>1, <1>2
<1>3. CASE i # Len(s)
  BY <1>1, <1>3
<1>. QED  BY <1>2, <1>3

(* The records behind a marker are those catchupReplay reads. *)
LEMMA AfterFacts ==
    ASSUME TypeOK, InOrder, NEW i \in DOMAIN wal, NEW h \in Nat, MarkerAt(i, h)
    PROVE  /\ After(h) \in Seq(Record) /\ i <= Len(Readable)
           /\ Len(After(h)) = Len(Readable) - i
           /\ \A k \in 1..Len(After(h)) : /\ i + k \in DOMAIN wal /\ Clear(i + k)
                                          /\ After(h)[k] = wal[i + k]
<1>0. /\ wal \in Seq(Record) /\ Len(wal) \in Nat /\ DOMAIN wal = 1..Len(wal)
      /\ DOMAIN Readable = 1..Len(Readable)
  BY ReadableFacts, SMTT(30) DEF TypeOK
<1>5. /\ Readable \in Seq(Record) /\ Len(Readable) \in 0..Len(wal)
      /\ \A k \in 1..Len(Readable) : Readable[k] = wal[k] /\ wal[k] # Torn
      /\ \A k \in DOMAIN wal : Clear(k) <=> k <= Len(Readable)
  BY <1>0, ReadableFacts, Zenon
<1>1. i \in DOMAIN Readable /\ Readable[i] = EndHeight(h)
  BY <1>0, <1>5 DEF MarkerAt
<1>2. \A j \in DOMAIN Readable : Readable[j] = EndHeight(h) => j = i
  <2> SUFFICES ASSUME NEW j \in DOMAIN Readable, Readable[j] = EndHeight(h), j # i
               PROVE  FALSE
    OBVIOUS
  <2>1. j \in DOMAIN wal /\ wal[j] = EndHeight(h) /\ wal[i] = EndHeight(h)
    BY <1>0, <1>1, <1>5
  <2>2. ~(i < j) /\ ~(j < i)
    BY <2>1, MarkerFacts DEF InOrder, MarkersInOrder, Newest
  <2>. QED  BY <1>0, <2>1, <2>2
<1>3. (CHOOSE j \in DOMAIN Readable : Readable[j] = EndHeight(h)) = i
  BY <1>1, <1>2
<1>4. After(h) = SubSeq(Readable, i + 1, Len(Readable))
  BY <1>3, Zenon DEF After
<1>6. /\ After(h) \in Seq(Record) /\ Len(After(h)) = Len(Readable) - i
      /\ \A k \in 1..Len(After(h)) : After(h)[k] = Readable[i + k]
  BY <1>1, <1>4, <1>5, SuffixFacts, SMTT(30)
<1>7. \A k \in 1..Len(After(h)) : i + k \in 1..Len(Readable)
  BY <1>0, <1>5, <1>6
<1>. QED  BY <1>0, <1>5, <1>6, <1>7

(* The marker of the height that is being decided is not in the log yet. *)
LEMMA NotMarkedYet ==
    ASSUME TypeOK, InOrder, IInv, pc = "catchup"
    PROVE  \A i \in DOMAIN wal : ~MarkerAt(i, Height)
<1>1. store.height = mem.height /\ mem.height \in Nat
  BY DEF IInv, Levels, HashesFit
<1> SUFFICES ASSUME NEW i \in DOMAIN wal, wal[i] = EndHeight(Height) PROVE FALSE
  BY DEF MarkerAt
<1>2. Height <= mem.height
  BY <1>1, MarkerFacts DEF InOrder, MarkersInOrder, Newest
<1>. QED  BY <1>1, <1>2 DEF Height

(* What catchupReplay makes of the log. *)
LEMMA ReplayFacts ==
    ASSUME TypeOK, InOrder, IInv, CatchupReplay
    PROVE  \/ /\ \A i \in DOMAIN wal : ~MarkerAt(i, mem.height)
              /\ pc' = "running" /\ UNCHANGED <<handled, mode>>
           \/ \E i \in DOMAIN wal :
                /\ MarkerAt(i, mem.height) /\ mode' = "catchup"
                /\ handled \subseteq handled' /\ handled' \subseteq Message
                /\ \A m \in handled' \ handled :
                      \E j \in (i + 1)..Len(wal) : Clear(j) /\ wal[j] = m
                /\ pc' \in {"saveBlock", "repair", "running"}
                /\ pc' = "saveBlock" => Height <= MaxHeight
                /\ pc' # "saveBlock" =>
                      \A j \in (i + 1)..Len(wal) : Clear(j) => wal[j] \in handled'
                /\ pc' = "running" => ~IsTorn
<1> DEFINE log == After(Height - 1)
           lastAt == {i \in DOMAIN log : log[i].kind = "last"}
           upTo == IF lastAt = {} THEN Len(log)
                   ELSE CHOOSE i \in lastAt : \A j \in lastAt : i <= j
<1>0. /\ wal \in Seq(Record) /\ Len(wal) \in Nat /\ DOMAIN wal = 1..Len(wal)
      /\ handled \subseteq Message /\ mem.height \in Nat /\ mem.height <= MaxHeight
      /\ MaxHeight \in Nat
  BY RecoveryAssumption DEF TypeOK, State
<1>1. Height - 1 = mem.height
  BY <1>0 DEF Height
<1>2. ~Marked(Height)
  BY <1>0, NotMarkedYet, MarkedFacts DEF CatchupReplay
<1>3. CASE ~Marked(mem.height)
  <2>1. \A i \in DOMAIN wal : ~MarkerAt(i, mem.height)
    BY <1>0, <1>3, MarkedFacts
  <2>. QED  BY <1>1, <1>3, <2>1 DEF CatchupReplay
<1>4. CASE Marked(mem.height)
  <2>1. PICK i \in DOMAIN wal : MarkerAt(i, mem.height)
    BY <1>0, <1>4, MarkedFacts
  <2>2. /\ handled' = handled \cup {log[k] : k \in 1..upTo}
        /\ mode' = "catchup"
        /\ pc' = CASE lastAt # {} -> "saveBlock"
                   [] lastAt = {} /\ IsTorn -> "repair"
                   [] OTHER -> "running"
    BY <1>1, <1>2, <1>4, Zenon DEF CatchupReplay
  <2>3. /\ log \in Seq(Record) /\ i <= Len(Readable)
        /\ Len(log) = Len(Readable) - i
        /\ \A k \in 1..Len(log) : i + k \in DOMAIN wal /\ Clear(i + k) /\ log[k] = wal[i + k]
    BY <1>0, <1>1, <2>1, AfterFacts
  <2>4. /\ Len(Readable) \in Nat /\ Len(Readable) <= Len(wal)
        /\ \A j \in DOMAIN wal : Clear(j) => j <= Len(Readable)
    BY <1>0, ReadableFacts
  <2> HIDE DEF log
  <2>5. upTo \in 0..Len(log)
    <3>0. Len(log) \in Nat /\ DOMAIN log = 1..Len(log) /\ lastAt \in SUBSET Nat
      BY <2>3
    <3>1. CASE lastAt = {}
      BY <3>0, <3>1
    <3>2. CASE lastAt # {}
      <4>1. \E x \in lastAt : \A y \in lastAt : x <= y
        BY <3>0, <3>2, Smallest, Zenon
      <4>2. upTo \in lastAt
        BY <3>2, <4>1
      <4>. QED  BY <3>0, <4>2
    <3>. QED  BY <3>1, <3>2
  <2>6. ASSUME NEW k \in 1..Len(log)
        PROVE  log[k] \in Message /\ mem.height < log[k].height
    <3>1. i \in DOMAIN wal /\ wal[i] = EndHeight(mem.height) /\ i < i + k /\ Clear(i + k)
          /\ i + k \in DOMAIN wal
      BY <1>0, <2>1, <2>3 DEF MarkerAt
    <3>2. wal[i + k] # Torn
      BY <1>0, <3>1 DEF Clear
    <3>3. mem.height < wal[i + k].height
      BY <3>1, <3>2, MarkerFacts DEF InOrder, MarkersInOrder, Newest
    <3>4. wal[i + k].kind = "end" => wal[i + k].height <= mem.height
      BY <3>1 DEF InOrder, MarkersInOrder, Newest, IInv, Levels, CatchupReplay
    <3>5. wal[i + k] \in Record
      BY <1>0, <3>1
    <3>6. wal[i + k].kind # "end" /\ wal[i + k].kind # "torn"
      <4>1. wal[i + k].height \in Nat
        BY <3>2, <3>5, RecordFacts
      <4>. QED  BY <1>0, <3>2, <3>3, <3>4, <3>5, <4>1, RecordFacts
    <3>7. wal[i + k] \in Message
      BY <3>5, <3>6, RecordFacts
    <3>. QED  BY <2>3, <3>3, <3>7
  <2>7. handled \subseteq handled' /\ handled' \subseteq Message
    <3>1. \A k \in 1..upTo : k \in 1..Len(log)
      BY <2>3, <2>5
    <3> HIDE DEF upTo
    <3>. QED  BY <1>0, <2>2, <2>6, <3>1
  <2>8. \A m \in handled' \ handled : \E j \in (i + 1)..Len(wal) : Clear(j) /\ wal[j] = m
    <3> SUFFICES ASSUME NEW m \in handled' \ handled
                 PROVE  \E j \in (i + 1)..Len(wal) : Clear(j) /\ wal[j] = m
      OBVIOUS
    <3>1. PICK k \in 1..upTo : m = log[k]
      BY <2>2, Zenon
    <3>2. k \in 1..Len(log)
      BY <2>3, <2>5, <3>1
    <3>3. i + k \in (i + 1)..Len(wal)
      BY <1>0, <2>3, <3>2
    <3>. QED  BY <2>3, <3>1, <3>2, <3>3
  <2>9. pc' \in {"saveBlock", "repair", "running"} /\ (pc' = "running" => ~IsTorn)
    BY <2>2
  <2>10. pc' = "saveBlock" => Height <= MaxHeight
    <3>1. pc' = "saveBlock" => lastAt # {}
      BY <2>2
    <3>2. \A k \in lastAt : k \in 1..Len(log)
      BY <2>3
    <3>3. \A k \in 1..Len(log) : log[k].height \in 1..MaxHeight /\ mem.height < log[k].height
      BY <2>6 DEF Message, Heights
    <3>. QED  BY <1>0, <3>1, <3>2, <3>3 DEF Height
  <2>11. pc' # "saveBlock" =>
            \A j \in (i + 1)..Len(wal) : Clear(j) => wal[j] \in handled'
    <3> SUFFICES ASSUME pc' # "saveBlock", NEW j \in (i + 1)..Len(wal), Clear(j)
                 PROVE  wal[j] \in handled'
      OBVIOUS
    <3>1. lastAt = {} /\ upTo = Len(log)
      BY <2>2
    <3>2. j \in DOMAIN wal /\ i \in Nat /\ j \in Nat /\ i < j
      BY <1>0
    <3>3. j - i \in 1..Len(log) /\ i + (j - i) = j
      BY <2>3, <2>4, <3>2
    <3>. QED  BY <2>2, <2>3, <3>1, <3>3
  <2>. QED  BY <2>1, <2>2, <2>7, <2>8, <2>9, <2>10, <2>11, Zenon
<1>. QED  BY <1>3, <1>4

-----------------------------------------------------------------------------
(* Every variable keeps its type.                                          *)

(* The numbers of a state. *)
LEMMA Bounds ==
    ASSUME TypeOK
    PROVE  /\ MaxHeight \in Nat /\ MaxCrashes \in Nat
           /\ mem.height \in Nat /\ mem.height <= MaxHeight /\ Height = mem.height + 1
           /\ Height \in Nat /\ (Height <= MaxHeight => Height \in Heights)
           /\ stateDB.height \in Nat /\ stateDB.height <= MaxHeight
           /\ store.height \in Nat /\ store.height <= MaxHeight
           /\ Len(wal) \in Nat /\ inFile \in Nat /\ inFile <= Len(wal)
           /\ DOMAIN wal = 1..Len(wal)
           /\ Len(ran) \in Nat /\ promised.height \in Nat /\ crashes \in Nat
  BY RecoveryAssumption, SMTT(30) DEF TypeOK, State, Height, Heights

(* A message that is received fits into the log. *)
LEMMA ReceiveTypes ==
    ASSUME TypeOK, InBounds, NEW id \in Ids,
           ReceiveInput(id) \/ ReceiveOwn(id) \/ ReceiveLast(id)
    PROVE  /\ TypeOK' /\ InBounds'
           /\ \E kind \in {"input", "own", "last"} :
                 LET m == [kind |-> kind, height |-> Height, id |-> id]
                 IN  m \in Message /\ m \in Record /\ wal' = Append(wal, m)
                     /\ handled' = handled \cup {m}
           /\ pc = "running" /\ Height \in Heights
           /\ UNCHANGED <<mem, store, stateDB>>
           /\ inFile' \in {inFile, Len(wal) + 1}
<1> USE DEF CanReceive, Write, WriteSync
<1>0. /\ pc = "running" /\ Height <= MaxHeight /\ Height \in Heights
      /\ UNCHANGED <<store, stateDB, responses, ran, mem, result, offered, committed, crashes, durable>>
  BY Bounds DEF ReceiveInput, ReceiveOwn, ReceiveLast
<1>1. PICK kind \in {"input", "own", "last"} :
         LET m == [kind |-> kind, height |-> Height, id |-> id]
         IN  wal' = Append(wal, m) /\ handled' = handled \cup {m}
  BY DEF ReceiveInput, ReceiveOwn, ReceiveLast
<1> DEFINE m == [kind |-> kind, height |-> Height, id |-> id]
<1>2. m \in Message /\ m \in Record
  BY <1>0 DEF Message, Record
<1> HIDE DEF m
<1>3. wal' = Append(wal, m) /\ handled' = handled \cup {m}
  BY <1>1 DEF m
<1>4. wal' \in Seq(Record) /\ Len(wal') = Len(wal) + 1
  BY <1>2, <1>3 DEF TypeOK
<1>5. handled' \subseteq Message
  BY <1>2, <1>3 DEF TypeOK
<1>6. inFile' \in {inFile, Len(wal) + 1}
  BY DEF ReceiveInput, ReceiveOwn, ReceiveLast
<1>7. inFile' \in 0..Len(wal')
  BY <1>4, <1>6, Bounds, SMTT(30)
<1>8. promised' \in [height : 0..MaxHeight, msgs : SUBSET Message]
  <2>1. CASE ReceiveOwn(id)
    <3>1. promised.msgs \subseteq Message /\ Height \in 0..MaxHeight
      BY <1>0, Bounds DEF TypeOK
    <3>. QED  BY <1>5, <2>1, <3>1 DEF ReceiveOwn
  <2>2. CASE ReceiveInput(id) \/ ReceiveLast(id)
    BY <2>2 DEF ReceiveInput, ReceiveLast, TypeOK
  <2>. QED  BY <2>1, <2>2
<1>9. /\ pc' \in {"running", "saveBlock"} /\ mode' \in {mode, "consensus"}
  BY <1>0 DEF ReceiveInput, ReceiveOwn, ReceiveLast
<1>10. InBounds'
  BY <1>0, <1>9 DEF InBounds, Height
<1>11. TypeOK'
  BY <1>0, <1>4, <1>5, <1>7, <1>8, <1>9 DEF TypeOK, Steps
<1>. QED  BY <1>0, <1>1, <1>2, <1>6, <1>10, <1>11 DEF m

(* The writes of finalizeAppend and ApplyBlock. *)
LEMMA AppendTypes ==
    ASSUME TypeOK, InBounds, IInv,
           \/ SaveBlock \/ SaveBlockState \/ WriteEndHeight
           \/ ExecBlock \/ SaveABCIResponses \/ Commit \/ SaveState
    PROVE  TypeOK' /\ InBounds'
<1> USE Bounds DEF Height
<1>1. CASE SaveBlock
  <2>1. store' \in [height : 0..MaxHeight, parts : SUBSET Heights]
    BY <1>1, Zenon DEF SaveBlock, TypeOK, InBounds
  <2>. QED  BY <1>1, <2>1, Zenon DEF SaveBlock, TypeOK, InBounds, Steps
<1>2. CASE SaveBlockState
  <2>1. store' \in [height : 0..MaxHeight, parts : SUBSET Heights]
    <3>1. Height \in 0..MaxHeight
      BY <1>2 DEF SaveBlockState, InBounds
    <3>2. store \in [height : 0..MaxHeight, parts : SUBSET Heights]
      BY DEF TypeOK
    <3>3. store' = [store EXCEPT !.height = Height] \/ store' = store
      BY <1>2 DEF SaveBlockState
    <3>. QED  BY <3>1, <3>2, <3>3
  <2>. QED  BY <1>2, <2>1, Zenon DEF SaveBlockState, TypeOK, InBounds, Steps
<1>3. CASE WriteEndHeight
  <2>1. EndHeight(Height) \in Record
    BY <1>3 DEF WriteEndHeight, InBounds, Record
  <2>2. wal' \in Seq(Record) /\ inFile' \in 0..Len(wal')
    <3>1. wal' = Append(wal, EndHeight(Height)) /\ inFile' = Len(wal) + 1
      BY <1>3 DEF WriteEndHeight, WriteSync
    <3>2. wal \in Seq(Record)
      BY DEF TypeOK
    <3>. QED  BY <2>1, <3>1, <3>2, WriteFacts
  <2>. QED  BY <1>3, <2>2, Zenon DEF WriteEndHeight, TypeOK, InBounds, Steps
<1>4. CASE ExecBlock
  <2>1. mode = "mock" => Height \in DOMAIN responses
    BY <1>4, SMTT(30) DEF ExecBlock, IInv, Levels, OnDisk
  <2>2. result' \in BOOLEAN
    <3>1. EndBlock(Height) \in BOOLEAN
      <4>1. (Height \in UpdateHeights) \in BOOLEAN /\ (offered = Height) \in BOOLEAN
        OBVIOUS
      <4>. QED  BY <4>1, Zenon DEF EndBlock
    <3>2. mode = "mock" => responses[Height] \in BOOLEAN
      BY <2>1 DEF TypeOK
    <3>. QED  BY <1>4, <3>1, <3>2 DEF ExecBlock
  <2>3. offered' \in 0..MaxHeight
    BY <1>4, SMTT(30) DEF ExecBlock, TypeOK
  <2>. QED  BY <1>4, <2>2, <2>3, Zenon DEF ExecBlock, disk, TypeOK, InBounds, Steps
<1>5. CASE SaveABCIResponses
  <2>1. Height \in Heights /\ result \in BOOLEAN
    BY <1>5, Zenon DEF SaveABCIResponses, InBounds, TypeOK
  <2>2. DOMAIN responses' \subseteq Heights
    BY <1>5, <2>1, Zenon DEF SaveABCIResponses, TypeOK
  <2>3. \A h \in DOMAIN responses' : responses'[h] \in BOOLEAN
    BY <1>5, <2>1, Zenon DEF SaveABCIResponses, TypeOK
  <2>. QED  BY <1>5, <2>2, <2>3, Zenon DEF SaveABCIResponses, TypeOK, InBounds, Steps
<1>6. CASE Commit
  <2>1. Height \in Heights
    BY <1>6, Zenon DEF Commit, InBounds
  <2>2. ran' \in Seq(Heights)
    BY <1>6, <2>1 DEF Commit, TypeOK
  <2>3. Seq(Heights) \subseteq Seq(Nat)
    BY SMTT(30) DEF Heights
  <2>4. mem' \in State
    BY <1>6, <2>1, <2>2, <2>3, SMTT(30) DEF Commit, TypeOK, State, Heights
  <2>. QED  BY <1>6, <2>1, <2>2, <2>4, SMTT(30) DEF Commit, disk, TypeOK, InBounds, Steps, Heights
<1>7. CASE SaveState
  <2>1. pc' \in {"openWAL", "repair", "running"}
    BY <1>7 DEF SaveState
  <2>. QED  BY <1>7, <2>1, Zenon DEF SaveState, TypeOK, InBounds, Steps
<1>. QED  BY <1>1, <1>2, <1>3, <1>4, <1>5, <1>6, <1>7

(* What the process leaves behind when it ends. *)
LEMMA CrashTypes ==
    ASSUME TypeOK, Crash
    PROVE  TypeOK' /\ InBounds'
<1>1. wal' \in Seq(Record) /\ inFile' = Len(wal')
  BY CrashFacts
<1>2. inFile' \in 0..Len(wal')
  BY <1>1
<1>3. ran' \in Seq(Heights)
  BY DEF Crash, TypeOK
<1>4. mem' \in State
  BY Bounds DEF Crash, Genesis, State
<1>5. crashes' \in 0..MaxCrashes
  BY Bounds, SMTT(30) DEF Crash
<1>6. pc' = "down" /\ mode' = "consensus" /\ handled' = {} /\ result' = FALSE /\ offered' = 0
  BY DEF Crash
<1>7. offered' \in 0..MaxHeight
  BY <1>6, RecoveryAssumption
<1>8. InBounds'
  BY <1>6 DEF InBounds
<1>. QED  BY <1>1, <1>2, <1>3, <1>4, <1>5, <1>6, <1>7, <1>8, Zenon DEF Crash, TypeOK, Steps

(* The start of the process and the replay of blocks and log. *)
LEMMA StartTypes ==
    ASSUME TypeOK, InBounds, InOrder, IInv,
           \/ Start \/ ReplayBlocks \/ ReplayLast \/ Synced
           \/ OpenWAL \/ CatchupReplay \/ Repair \/ FlushTick \/ OfferUpdate
    PROVE  TypeOK' /\ InBounds'
<1> USE Bounds DEF Height
<1>1. CASE Start
  BY <1>1, Zenon DEF Start, disk, TypeOK, InBounds, Steps
<1>2. CASE ReplayBlocks
  <2>1. Len(ran) + 1 \in Heights
    BY <1>2 DEF ReplayBlocks, Heights
  <2>2. ran' \in Seq(Heights)
    BY <1>2, <2>1 DEF ReplayBlocks, TypeOK
  <2>. QED  BY <1>2, <2>2, Zenon DEF ReplayBlocks, disk, TypeOK, InBounds, Steps
<1>3. CASE ReplayLast
  BY <1>3, Zenon DEF ReplayLast, disk, TypeOK, InBounds, Steps
<1>4. CASE Synced
  BY <1>4, Zenon DEF Synced, disk, TypeOK, InBounds, Steps
<1>5. CASE OpenWAL
  <2>1. wal' \in Seq(Record) /\ inFile' \in 0..Len(wal')
    <3>1. EndHeight(0) \in Record /\ wal \in Seq(Record)
      <4>1. 0 \in 0..MaxHeight
        BY RecoveryAssumption
      <4>. QED  BY <4>1, Zenon DEF Record, TypeOK
    <3>2. CASE wal = <<>>
      <4>1. wal' = Append(wal, EndHeight(0)) /\ inFile' = Len(wal) + 1
        BY <1>5, <3>2 DEF OpenWAL, WriteSync
      <4>. QED  BY <3>1, <4>1, WriteFacts
    <3>3. CASE wal # <<>>
      BY <1>5, <3>3 DEF OpenWAL, TypeOK
    <3>. QED  BY <3>2, <3>3
  <2>. QED  BY <1>5, <2>1, Zenon DEF OpenWAL, TypeOK, InBounds, Steps
<1>6. CASE CatchupReplay
  <2>1. /\ pc' \in {"saveBlock", "repair", "running"} /\ mode' \in {"catchup", mode}
        /\ handled' \subseteq Message /\ (pc' = "saveBlock" => Height <= MaxHeight)
    BY <1>6, ReplayFacts, Zenon DEF TypeOK
  <2>2. UNCHANGED <<disk, ran, mem, result, offered, promised, committed, crashes, durable>>
    BY <1>6 DEF CatchupReplay
  <2>. QED  BY <2>1, <2>2, Zenon DEF disk, TypeOK, InBounds, Steps
<1>7. CASE Repair
  <2>1. Readable \in Seq(Record) /\ Len(Readable) \in Nat
    BY ReadableFacts DEF TypeOK
  <2>2. wal' \in Seq(Record) /\ inFile' \in 0..Len(wal')
    BY <1>7, <2>1, SMTT(30) DEF Repair
  <2>. QED  BY <1>7, <2>2, Zenon DEF Repair, TypeOK, InBounds, Steps
<1>8. CASE FlushTick
  BY <1>8, SMTT(30) DEF FlushTick, TypeOK, InBounds, Steps
<1>9. CASE OfferUpdate
  BY <1>9, SMTT(30) DEF OfferUpdate, disk, TypeOK, InBounds, Steps
<1>. QED  BY <1>1, <1>2, <1>3, <1>4, <1>5, <1>6, <1>7, <1>8, <1>9

-----------------------------------------------------------------------------
(* The order of the log.                                                   *)

(* The last marker may be of the height of the store, or one less. *)
LEMMA NewestFacts ==
    ASSUME TypeOK, IInv
    PROVE  /\ Newest \in Nat /\ Newest <= store.height
           /\ pc = "endHeight" => Newest = mem.height /\ store.height = Height
           /\ pc # "endHeight" => Newest = store.height
           /\ pc = "running" => Newest = mem.height
<1>1. pc = "endHeight" => store.height = Height
  BY DEF IInv, Levels
<1>2. pc = "running" => store.height = mem.height
  BY DEF IInv, Levels
<1>. QED  BY <1>1, <1>2, Bounds, SMTT(30) DEF Newest

(* Steps that leave the log alone leave its order alone. *)
LEMMA QuietOrder ==
    ASSUME TypeOK, InOrder, wal' = wal, Newest' = Newest
    PROVE  MarkersInOrder'
  BY DEF InOrder, MarkersInOrder

(* A shorter log is in order, with or without a torn record at its end. *)
LEMMA CutOrder ==
    ASSUME TypeOK, InOrder, wal' \in Seq(Record), NEW n \in 0..Len(wal),
           n <= Len(wal'), Len(wal') <= n + 1,
           Len(wal') > n => wal'[n + 1] = Torn,
           \A i \in 1..n : wal'[i] = wal[i],
           Newest \in Nat, Newest' \in Nat, Newest <= Newest'
    PROVE  MarkersInOrder'
<1>0. Len(wal) \in Nat /\ DOMAIN wal = 1..Len(wal) /\ DOMAIN wal' = 1..Len(wal') /\ Len(wal') \in Nat
  BY DEF TypeOK
<1>1. ASSUME NEW i \in DOMAIN wal', wal'[i] # Torn
      PROVE  i \in DOMAIN wal /\ i \in 1..n /\ wal'[i] = wal[i]
  <2>1. i \in 1..n
    BY <1>0, <1>1
  <2>. QED  BY <1>0, <2>1
<1> SUFFICES ASSUME NEW i \in DOMAIN wal', wal'[i].kind = "end"
             PROVE  /\ wal'[i].height <= Newest'
                    /\ \A j \in DOMAIN wal' :
                          i < j /\ wal'[j] # Torn => wal'[i].height < wal'[j].height
  BY DEF MarkersInOrder
<1>2. wal'[i] # Torn
  BY DEF Torn
<1>3. wal[i].kind = "end" /\ wal[i] = wal'[i] /\ i \in DOMAIN wal
  BY <1>1, <1>2
<1>4. wal[i].height \in Nat
  <2>1. wal[i] \in Record
    BY <1>3 DEF TypeOK
  <2>. QED  BY <1>2, <1>3, <2>1, RecordFacts
<1>5. wal'[i].height <= Newest'
  <2>1. wal[i].height <= Newest
    BY <1>3 DEF InOrder, MarkersInOrder
  <2>. QED  BY <1>3, <1>4, <2>1
<1>6. \A j \in DOMAIN wal' : i < j /\ wal'[j] # Torn => wal'[i].height < wal'[j].height
  BY <1>1, <1>3 DEF InOrder, MarkersInOrder
<1>. QED  BY <1>5, <1>6

(* A record of a height that has no marker yet is written in order. *)
LEMMA WriteOrder ==
    ASSUME TypeOK, InOrder, NEW e \in Record, wal' = Append(wal, e), e # Torn,
           Newest \in Nat, Newest' \in Nat, Newest <= Newest',
           e.kind = "end" => e.height <= Newest',
           wal # <<>> => Newest < e.height
    PROVE  MarkersInOrder'
<1>0. wal \in Seq(Record) /\ Len(wal) \in Nat
  BY SMTT(30) DEF TypeOK
<1>1. /\ DOMAIN wal' = 1..(Len(wal) + 1) /\ DOMAIN wal = 1..Len(wal)
      /\ wal'[Len(wal) + 1] = e
      /\ \A i \in DOMAIN wal : wal'[i] = wal[i]
  BY <1>0, WriteFacts
<1>2. \A i \in DOMAIN wal' : i \in DOMAIN wal \/ i = Len(wal) + 1
  BY <1>0, <1>1
<1> SUFFICES ASSUME NEW i \in DOMAIN wal', wal'[i].kind = "end"
             PROVE  /\ wal'[i].height <= Newest'
                    /\ \A j \in DOMAIN wal' :
                          i < j /\ wal'[j] # Torn => wal'[i].height < wal'[j].height
  BY DEF MarkersInOrder
<1>3. CASE i = Len(wal) + 1
  <2>1. \A j \in DOMAIN wal' : ~(i < j)
    BY <1>0, <1>1, <1>3
  <2>. QED  BY <1>1, <1>3, <2>1
<1>4. CASE i \in DOMAIN wal
  <2>1. wal'[i] = wal[i] /\ wal[i].height <= Newest /\ wal[i] # Torn /\ wal # <<>>
    BY <1>1, <1>4 DEF InOrder, MarkersInOrder, Torn
  <2>2. wal[i].height \in Nat
    <3>1. wal[i] \in Record
      BY <1>0, <1>4
    <3>. QED  BY <2>1, <3>1, RecordFacts
  <2>3. wal'[i].height <= Newest'
    BY <2>1, <2>2
  <2>4. e.height \in Nat
    BY RecordFacts
  <2>5. wal[i].height < e.height
    BY <2>1, <2>2, <2>4
  <2>6. \A j \in DOMAIN wal : i < j /\ wal[j] # Torn => wal[i].height < wal[j].height
    BY <1>1, <1>4, <2>1 DEF InOrder, MarkersInOrder
  <2>7. ASSUME NEW j \in DOMAIN wal', i < j, wal'[j] # Torn
        PROVE  wal'[i].height < wal'[j].height
    BY <1>1, <1>2, <2>1, <2>5, <2>6, <2>7
  <2>. QED  BY <2>3, <2>7
<1>. QED  BY <1>2, <1>3, <1>4

(* finalizeAppend and ApplyBlock write the log in order. *)
LEMMA AppendOrder ==
    ASSUME TypeOK, InBounds, InOrder, IInv, TypeOK', IInv',
           \/ SaveBlock \/ SaveBlockState \/ WriteEndHeight
           \/ ExecBlock \/ SaveABCIResponses \/ Commit \/ SaveState
    PROVE  InOrder'
<1>1. CASE WriteEndHeight
  <2>0. /\ pc = "endHeight" /\ pc' = "exec" /\ UNCHANGED <<mem, store, promised, mode>>
        /\ wal' = Append(wal, EndHeight(Height)) /\ inFile' = Len(wal) + 1
    BY <1>1 DEF WriteEndHeight, WriteSync
  <2>1. /\ Newest = mem.height /\ Newest' = store.height /\ store.height = Height
        /\ Newest \in Nat /\ Newest' \in Nat /\ Newest < Height
    BY <2>0, NewestFacts, Bounds, SMTT(30) DEF Newest
  <2>2. EndHeight(Height) \in Record /\ EndHeight(Height) # Torn /\ wal \in Seq(Record)
    BY <2>0, Bounds, MarkerFacts DEF InBounds, Record, TypeOK
  <2>3. MarkersInOrder'
    <3>1. Newest <= Newest' /\ EndHeight(Height).height = Height /\ Height <= Newest'
      BY <2>1, MarkerFacts, SMTT(30)
    <3>. QED  BY <2>0, <2>1, <2>2, <3>1, WriteOrder
  <2>4. wal # <<>> /\ wal[1] # Torn
    BY <2>0 DEF IInv, Levels, InOrder, LogBegun
  <2>5. wal' # <<>> /\ wal'[1] # Torn /\ inFile' >= 1
    <3>1. 1 \in DOMAIN wal
      BY <2>2, <2>4
    <3>2. wal'[1] = wal[1] /\ wal' # <<>>
      BY <2>0, <2>2, <3>1, WriteFacts
    <3>. QED  BY <2>0, <2>2, <2>4, <3>2
  <2>. QED  BY <2>0, <2>3, <2>5 DEF InOrder, LogBegun
<1>2. CASE SaveBlock \/ SaveBlockState \/ ExecBlock \/ SaveABCIResponses \/ Commit \/ SaveState
  <2>1. UNCHANGED <<wal, inFile, promised, mode>>
    BY <1>2 DEF SaveBlock, SaveBlockState, ExecBlock, SaveABCIResponses, Commit, SaveState, disk
  <2>2. Newest' = Newest
    <3>1. CASE SaveBlock
      BY <3>1 DEF SaveBlock, Newest, TypeOK
    <3>2. CASE SaveBlockState
      BY <3>2 DEF SaveBlockState, Newest, IInv, Levels
    <3>3. CASE ExecBlock \/ SaveABCIResponses \/ Commit \/ SaveState
      <4>1. store' = store /\ pc # "endHeight" /\ pc' # "endHeight"
        BY <3>3 DEF ExecBlock, SaveABCIResponses, Commit, SaveState, disk
      <4>. QED  BY <4>1 DEF Newest
    <3>. QED  BY <1>2, <3>1, <3>2, <3>3
  <2>3. /\ pc \notin {"down", "handshake", "openWAL"}
        /\ pc' \in {"catchup", "repair", "running"} => mode \in {"consensus", "catchup"}
    <3>1. CASE SaveState
      BY <3>1 DEF SaveState, TypeOK
    <3>2. CASE ~SaveState
      BY <1>2, <3>2 DEF SaveBlock, SaveBlockState, ExecBlock, SaveABCIResponses, Commit
    <3>. QED  BY <3>1, <3>2
  <2>4. LogBegun'
    BY <2>1, <2>3 DEF InOrder, LogBegun
  <2>. QED  BY <2>1, <2>2, <2>4, QuietOrder DEF InOrder
<1>. QED  BY <1>1, <1>2

(* So does the handling of messages. *)
LEMMA ReceiveOrder ==
    ASSUME TypeOK, InBounds, InOrder, IInv, IInv',
           \E id \in Ids : ReceiveInput(id) \/ ReceiveOwn(id) \/ ReceiveLast(id)
    PROVE  InOrder'
<1>1. PICK id \in Ids : ReceiveInput(id) \/ ReceiveOwn(id) \/ ReceiveLast(id)
  BY Zenon
<1>2. PICK kind \in {"input", "own", "last"} :
         LET m == [kind |-> kind, height |-> Height, id |-> id]
         IN  m \in Message /\ m \in Record /\ wal' = Append(wal, m)
  BY <1>1, ReceiveTypes
<1> DEFINE m == [kind |-> kind, height |-> Height, id |-> id]
<1>3. m.kind # "end" /\ m.kind # "torn" /\ m.height = Height
  BY Zenon
<1> HIDE DEF m
<1>4. m \in Record /\ wal' = Append(wal, m) /\ m # Torn
  BY <1>2, <1>3 DEF m, Torn
<1>5. /\ pc = "running" /\ UNCHANGED <<mem, store>>
      /\ inFile' \in {inFile, Len(wal) + 1}
      /\ pc' \in {"running", "saveBlock"} /\ mode' \in {mode, "consensus"}
  <2>1. pc' \in {"running", "saveBlock"} /\ mode' \in {mode, "consensus"}
    BY <1>1, Zenon DEF ReceiveInput, ReceiveOwn, ReceiveLast, CanReceive
  <2>. QED  BY <1>1, <2>1, ReceiveTypes, Zenon
<1>6. Newest' = Newest /\ Newest \in Nat /\ Newest < Height
  BY <1>5, NewestFacts, Bounds, SMTT(30) DEF Newest
<1>7. MarkersInOrder'
  <2>1. Newest <= Newest' /\ Newest' \in Nat
    BY <1>6
  <2>. QED  BY <1>3, <1>4, <1>6, <2>1, WriteOrder
<1>8. wal # <<>> /\ wal[1] # Torn /\ inFile >= 1
  BY <1>5 DEF InOrder, LogBegun
<1>9. wal' # <<>> /\ wal'[1] # Torn /\ inFile' >= 1
  <2>0. wal \in Seq(Record)
    BY DEF TypeOK
  <2>1. 1 \in DOMAIN wal
    BY <1>8, <2>0
  <2>2. wal'[1] = wal[1] /\ wal' # <<>>
    BY <1>4, <2>0, <2>1, WriteFacts
  <2>3. inFile' >= 1
    BY <1>5, <1>8, Bounds
  <2>. QED  BY <1>8, <2>2, <2>3
<1>10. mode' \in {"consensus", "catchup"}
  BY <1>5 DEF InOrder, LogBegun
<1>. QED  BY <1>5, <1>7, <1>9, <1>10 DEF InOrder, LogBegun

(* What a crash leaves of the log is in order. *)
LEMMA CrashOrder ==
    ASSUME TypeOK, InOrder, IInv, TypeOK', IInv', Crash
    PROVE  InOrder'
<1>1. PICK n \in inFile..Len(wal) :
              /\ wal' \in Seq(Record) /\ inFile' = Len(wal') /\ n <= Len(wal') /\ Len(wal') <= n + 1
              /\ Len(wal') > n => wal'[n + 1] = Torn
              /\ \A i \in 1..n : wal'[i] = wal[i]
              /\ wal = <<>> => wal' = <<>>
  BY CrashFacts
<1>2. pc' = "down" /\ store' = store /\ promised' = promised
  BY DEF Crash
<1>3. n \in 0..Len(wal) /\ inFile <= n
  BY <1>1, Bounds, SMTT(30)
<1>4. MarkersInOrder'
  <2>1. Newest \in Nat /\ Newest' \in Nat /\ Newest <= Newest'
    BY <1>2, NewestFacts, Bounds DEF Newest
  <2>. QED  BY <1>1, <1>3, <2>1, CutOrder, Zenon
<1>5. wal # <<>> => inFile' >= 1 /\ wal'[1] # Torn /\ wal' # <<>>
  <2> SUFFICES ASSUME wal # <<>> PROVE inFile' >= 1 /\ wal'[1] # Torn /\ wal' # <<>>
    OBVIOUS
  <2>1. inFile >= 1 /\ wal[1] # Torn
    BY DEF InOrder, LogBegun
  <2>2. n >= 1 /\ Len(wal') \in Nat /\ 1 \in 1..n /\ Len(wal') >= 1
    BY <1>1, <1>3, <2>1, Bounds
  <2>3. wal'[1] = wal[1]
    BY <1>1, <2>2
  <2>. QED  BY <1>1, <2>1, <2>2, <2>3
<1>6. LogBegun'
  BY <1>1, <1>2, <1>5 DEF InOrder, LogBegun
<1>. QED  BY <1>4, <1>6 DEF InOrder

(* The start of the process keeps the order, a repair included. *)
LEMMA StartOrder ==
    ASSUME TypeOK, InBounds, InOrder, IInv, TypeOK', IInv',
           \/ Start \/ ReplayBlocks \/ ReplayLast \/ Synced
           \/ OpenWAL \/ CatchupReplay \/ Repair \/ FlushTick \/ OfferUpdate
    PROVE  InOrder'
<1>0. wal \in Seq(Record)
  BY DEF TypeOK
<1>1. CASE Start \/ ReplayBlocks \/ ReplayLast \/ Synced \/ CatchupReplay \/ FlushTick \/ OfferUpdate
  <2>1. wal' = wal /\ inFile' \in {inFile, Len(wal)} /\ UNCHANGED <<promised, store>>
    BY <1>1 DEF Start, ReplayBlocks, ReplayLast, Synced, CatchupReplay, FlushTick, OfferUpdate, disk
  <2>2. Newest' = Newest
    <3>1. CASE OfferUpdate
      BY <3>1 DEF OfferUpdate, disk, Newest
    <3>2. CASE CatchupReplay
      <4>1. pc = "catchup" /\ pc' \in {"running", "saveBlock", "repair"}
        BY <3>2, ReplayFacts DEF CatchupReplay
      <4>. QED  BY <2>1, <4>1 DEF Newest
    <3>3. CASE Start \/ ReplayBlocks \/ ReplayLast \/ Synced \/ FlushTick
      <4>1. pc # "endHeight" /\ pc' # "endHeight"
        BY <3>3 DEF Start, ReplayBlocks, ReplayLast, Synced, FlushTick
      <4>. QED  BY <2>1, <4>1, Zenon DEF Newest
    <3>. QED  BY <1>1, <3>1, <3>2, <3>3
  <2>3. wal # <<>> => inFile' >= 1
    <3>1. wal # <<>> => inFile >= 1 /\ inFile <= Len(wal)
      BY Bounds DEF InOrder, LogBegun
    <3>. QED  BY <2>1, <3>1, Bounds, SMTT(30)
  <2>4. /\ pc' \in {"catchup", "repair", "running"} => mode' \in {"consensus", "catchup"}
        /\ pc' \notin {"down", "handshake", "openWAL"} /\ mode' \in {"consensus", "catchup"} =>
              wal # <<>>
    <3>1. CASE Start \/ ReplayBlocks \/ ReplayLast \/ Synced
      BY <3>1 DEF Start, ReplayBlocks, ReplayLast, Synced
    <3>2. CASE CatchupReplay
      <4>1. mode' \in {mode, "catchup"} /\ pc = "catchup"
        BY <3>2, ReplayFacts DEF CatchupReplay
      <4>. QED  BY <4>1 DEF InOrder, LogBegun
    <3>3. CASE FlushTick \/ OfferUpdate
      <4>1. UNCHANGED <<pc, mode>>
        BY <3>3 DEF FlushTick, OfferUpdate
      <4>. QED  BY <4>1 DEF InOrder, LogBegun
    <3>. QED  BY <1>1, <3>1, <3>2, <3>3, Zenon
  <2>5. LogBegun'
    BY <2>1, <2>3, <2>4 DEF InOrder, LogBegun
  <2>. QED  BY <2>1, <2>2, <2>5, QuietOrder DEF InOrder
<1>2. CASE OpenWAL
  <2>0. pc = "openWAL" /\ pc' = "catchup" /\ mode' = "consensus" /\ UNCHANGED <<store, promised>>
    BY <1>2 DEF OpenWAL
  <2>1. Newest' = Newest /\ Newest \in Nat /\ Newest <= Newest'
    BY <2>0, NewestFacts DEF Newest
  <2>2. CASE wal = <<>>
    <3>1. wal' = Append(wal, EndHeight(0)) /\ inFile' = Len(wal) + 1 /\ Len(wal) = 0
      BY <1>2, <2>2 DEF OpenWAL, WriteSync
    <3>2. EndHeight(0) \in Record /\ EndHeight(0) # Torn /\ EndHeight(0).height = 0
      <4>1. 0 \in 0..MaxHeight
        BY RecoveryAssumption
      <4>. QED  BY <4>1, MarkerFacts DEF Record
    <3>3. MarkersInOrder'
      BY <2>1, <2>2, <3>1, <3>2, WriteOrder, SMTT(30)
    <3>4. wal' # <<>> /\ wal'[1] # Torn /\ inFile' >= 1
      BY <1>0, <3>1, <3>2, WriteFacts
    <3>. QED  BY <2>0, <3>3, <3>4 DEF InOrder, LogBegun
  <2>3. CASE wal # <<>>
    <3>1. UNCHANGED <<wal, inFile>>
      BY <1>2, <2>3, Zenon DEF OpenWAL
    <3>. QED  BY <2>0, <2>1, <2>3, <3>1, QuietOrder DEF InOrder, LogBegun
  <2>. QED  BY <2>2, <2>3
<1>3. CASE Repair
  <2>0. /\ pc = "repair" /\ pc' = "catchup" /\ UNCHANGED <<store, promised, mode>>
        /\ wal' = Readable /\ inFile' = Len(wal')
    BY <1>3 DEF Repair
  <2>1. Newest' = Newest /\ Newest \in Nat /\ Newest <= Newest'
    BY <2>0, NewestFacts DEF Newest
  <2> DEFINE n == Len(Readable)
  <2>2. /\ Readable \in Seq(Record) /\ n \in 0..Len(wal) /\ n \in Nat
        /\ \A i \in 1..n : Readable[i] = wal[i]
        /\ \A i \in DOMAIN wal : Clear(i) <=> i <= n
    BY <1>0, ReadableFacts
  <2>3. Len(wal') = n
    BY <2>0, Zenon
  <2> HIDE DEF n
  <2>4. MarkersInOrder'
    <3>1. n <= Len(wal') /\ Len(wal') <= n + 1 /\ ~(Len(wal') > n)
      BY <2>2, <2>3
    <3>. QED  BY <2>0, <2>1, <2>2, <3>1, CutOrder
  <2>5. wal # <<>> /\ wal[1] # Torn /\ mode \in {"consensus", "catchup"}
    BY <2>0 DEF InOrder, LogBegun
  <2>6. 1 \in DOMAIN wal
    BY <1>0, <2>5
  <2>7. Clear(1)
    BY <2>5 DEF Clear
  <2>8. n >= 1 /\ 1 \in 1..n
    BY <2>2, <2>6, <2>7
  <2>9. wal' # <<>> /\ wal'[1] # Torn /\ inFile' >= 1
    BY <2>0, <2>2, <2>3, <2>5, <2>8
  <2>. QED  BY <2>0, <2>4, <2>5, <2>9, Zenon DEF InOrder, LogBegun
<1>. QED  BY <1>1, <1>2, <1>3

-----------------------------------------------------------------------------
(* Promised and handled messages are in the log.                           *)

(* Of one height there is one marker. *)
LEMMA MarkerUnique ==
    ASSUME TypeOK, InOrder, NEW h \in Nat, NEW i \in DOMAIN wal, NEW j \in DOMAIN wal,
           MarkerAt(i, h), MarkerAt(j, h)
    PROVE  i = j
<1>1. wal[i] = EndHeight(h) /\ wal[j] = EndHeight(h) /\ i \in Nat /\ j \in Nat
  BY Bounds, SMTT(30) DEF MarkerAt
<1>2. ~(i < j) /\ ~(j < i)
  BY <1>1, MarkerFacts, SMTT(30) DEF InOrder, MarkersInOrder
<1>. QED  BY <1>1, <1>2

(* Markers that were found are still found when a record is written. *)
LEMMA WriteMarkers ==
    ASSUME wal \in Seq(Record), NEW e \in Record, e # Torn, wal' = Append(wal, e)
    PROVE  /\ \A i \in DOMAIN wal' : \A h : MarkerAt(i, h)' =>
                 \/ i \in DOMAIN wal /\ MarkerAt(i, h)
                 \/ i = Len(wal) + 1 /\ e = EndHeight(h) /\ ~IsTorn
           /\ IsTorn' <=> IsTorn
           /\ \A j \in DOMAIN wal : Clear(j) => Clear(j)' /\ wal'[j] = wal[j]
           /\ ~IsTorn => \A k : k = Len(wal) + 1 => Clear(k)' /\ wal'[k] = e
<1>1. /\ DOMAIN wal' = 1..(Len(wal) + 1) /\ DOMAIN wal = 1..Len(wal)
      /\ wal'[Len(wal) + 1] = e
      /\ \A i \in DOMAIN wal : wal'[i] = wal[i] /\ (Clear(i)' <=> Clear(i))
      /\ \A k : k = Len(wal) + 1 => (Clear(k)' <=> ~IsTorn /\ e # Torn)
      /\ IsTorn' <=> IsTorn
  BY WriteFacts
<1>2. \A i \in DOMAIN wal' : i \in DOMAIN wal \/ i = Len(wal) + 1
  BY <1>1, SMTT(30)
<1>. QED  BY <1>1, <1>2 DEF MarkerAt

(* A log that is cut off shows no other markers. *)
LEMMA CutMarkers ==
    ASSUME wal \in Seq(Record), wal' \in Seq(Record), NEW n \in 0..Len(wal),
           n <= Len(wal'), Len(wal') <= n + 1,
           Len(wal') > n => wal'[n + 1] = Torn,
           \A i \in 1..n : wal'[i] = wal[i] /\ (Clear(i)' <=> Clear(i))
    PROVE  /\ \A i \in DOMAIN wal' : \A h : MarkerAt(i, h)' =>
                 i \in DOMAIN wal /\ MarkerAt(i, h)
           /\ \A j \in 1..n : j \in DOMAIN wal' /\ (Clear(j) => Clear(j)' /\ wal'[j] = wal[j])
<1>0. /\ Len(wal) \in Nat /\ DOMAIN wal = 1..Len(wal) /\ n \in Nat /\ n <= Len(wal)
      /\ DOMAIN wal' = 1..Len(wal') /\ Len(wal') \in Nat
  OBVIOUS
<1>1. \A i \in DOMAIN wal' : i \in 1..n \/ (i = n + 1 /\ wal'[i] = Torn)
  BY <1>0
<1>2. \A j \in 1..n : j \in DOMAIN wal /\ j \in DOMAIN wal'
  BY <1>0
<1>3. \A i \in DOMAIN wal' : \A h : MarkerAt(i, h)' => i \in DOMAIN wal /\ MarkerAt(i, h)
  BY <1>1, <1>2, MarkerFacts, Zenon DEF MarkerAt
<1>. QED  BY <1>2, <1>3

(* Steps that touch neither the log nor what was promised. *)
LEMMA QuietPromises ==
    ASSUME TypeOK, PromisesLogged, wal' = wal, inFile' \in {inFile, Len(wal)},
           UNCHANGED <<promised, stateDB>>
    PROVE  PromisesLogged'
<1>1. \A i \in DOMAIN wal : \A j \in (i + 1)..inFile : j \in (i + 1)..inFile'
  BY Bounds, SMTT(30)
<1>2. \A j : Clear(j)' <=> Clear(j)
  BY DEF Clear
<1>3. \A i : MarkerAt(i, stateDB.height)' <=> MarkerAt(i, stateDB.height)
  BY <1>2 DEF MarkerAt
<1>. QED  BY <1>1, <1>2, <1>3 DEF PromisesLogged

(* What was promised stays in the log when the records in the file stay    *)
(* where they are and no new marker is read.                               *)
LEMMA PromisesMove ==
    ASSUME PromisesLogged, UNCHANGED <<promised, stateDB>>,
           \A i \in DOMAIN wal' : MarkerAt(i, stateDB.height)' =>
              i \in DOMAIN wal /\ MarkerAt(i, stateDB.height),
           \A i \in DOMAIN wal : \A j \in (i + 1)..inFile :
              Clear(j) => j \in (i + 1)..inFile' /\ Clear(j)' /\ wal'[j] = wal[j]
    PROVE  PromisesLogged'
<1>1. promised'.height <= stateDB'.height + 1
  BY Zenon DEF PromisesLogged
<1>2. ASSUME promised'.height = stateDB'.height + 1, NEW i \in DOMAIN wal',
             MarkerAt(i, stateDB.height)', NEW m \in promised'.msgs
      PROVE  \E j \in (i + 1)..inFile' : Clear(j)' /\ wal'[j] = m
  <2>1. i \in DOMAIN wal /\ MarkerAt(i, stateDB.height)
    BY <1>2, Zenon
  <2>2. PICK j \in (i + 1)..inFile : Clear(j) /\ wal[j] = m
    BY <1>2, <2>1 DEF PromisesLogged
  <2>. QED  BY <2>1, <2>2, Zenon
<1>. QED  BY <1>1, <1>2, Zenon DEF PromisesLogged

(* A message that is handled is in the log; one of the node itself is in   *)
(* the file with all that was handled before it.                           *)
LEMMA ReceiveLogged ==
    ASSUME LogInv, IInv, NEW id \in Ids,
           ReceiveInput(id) \/ ReceiveOwn(id) \/ ReceiveLast(id)
    PROVE  TornIsBehind' /\ PromisesLogged' /\ HandledLogged'
<1> USE DEF LogInv
<1>1. PICK kind \in {"input", "own", "last"} :
         LET e == [kind |-> kind, height |-> Height, id |-> id]
         IN  e \in Message /\ e \in Record /\ wal' = Append(wal, e) /\ handled' = handled \cup {e}
  BY ReceiveTypes
<1> DEFINE e == [kind |-> kind, height |-> Height, id |-> id]
<1>2. e \in Message /\ e \in Record /\ wal' = Append(wal, e) /\ handled' = handled \cup {e}
  BY <1>1, Zenon
<1> HIDE DEF e
<1>3. e # Torn /\ \A h : e # EndHeight(h)
  BY <1>2, MarkerFacts DEF Torn, Message
<1>4. /\ pc = "running" /\ UNCHANGED <<mem, store, stateDB>> /\ Height' = Height
      /\ inFile' \in {inFile, Len(wal) + 1}
      /\ pc' \in {"running", "saveBlock"}
  <2>1. pc' \in {"running", "saveBlock"}
    BY Zenon DEF ReceiveInput, ReceiveOwn, ReceiveLast, CanReceive
  <2>. QED  BY <2>1, ReceiveTypes, ZenonT(30) DEF Height
<1>5. mem = stateDB
  BY <1>4 DEF IInv, Levels
<1>6. wal \in Seq(Record) /\ Len(wal) \in Nat /\ DOMAIN wal = 1..Len(wal) /\ Len(wal') = Len(wal) + 1
  BY <1>2, WriteFacts DEF TypeOK
<1>7. /\ \A i \in DOMAIN wal' : \A h : MarkerAt(i, h)' => i \in DOMAIN wal /\ MarkerAt(i, h)
      /\ IsTorn' <=> IsTorn
      /\ \A j \in DOMAIN wal : Clear(j) => Clear(j)' /\ wal'[j] = wal[j]
      /\ ~IsTorn => \A k : k = Len(wal) + 1 => Clear(k)' /\ wal'[k] = e
  BY <1>2, <1>3, <1>6, WriteMarkers, Zenon
<1>8. \A i \in DOMAIN wal : MarkerAt(i, mem.height) => ~IsTorn
  <2>1. mem.height \in 0..MaxHeight /\ mem.height \in Nat
    BY Bounds, SMTT(30)
  <2>. QED  BY <1>4, <1>5, <2>1 DEF TornIsBehind
<1>9. TornIsBehind'
  BY <1>4, <1>7, Zenon DEF TornIsBehind
<1>10. ASSUME NEW i \in DOMAIN wal, MarkerAt(i, mem.height), NEW m \in handled'
       PROVE  \E j \in (i + 1)..(Len(wal) + 1) : Clear(j)' /\ wal'[j] = m
  <2>1. CASE m = e
    <3>1. Len(wal) + 1 \in (i + 1)..(Len(wal) + 1)
      BY <1>6, SMTT(30)
    <3>. QED  BY <1>7, <1>8, <1>10, <2>1, <3>1, Zenon
  <2>2. CASE m \in handled
    <3>1. PICK j \in (i + 1)..Len(wal) : Clear(j) /\ wal[j] = m
      BY <1>4, <1>10, <2>2 DEF HandledLogged
    <3>2. j \in DOMAIN wal /\ j \in (i + 1)..(Len(wal) + 1)
      BY <1>6, <3>1, SMTT(30)
    <3>. QED  BY <1>7, <3>1, <3>2, Zenon
  <2>. QED  BY <1>2, <1>10, <2>1, <2>2, ZenonT(30)
<1>11. ASSUME NEW i \in DOMAIN wal, MarkerAt(i, mem.height), promised.height = Height
       PROVE  /\ \A m \in promised.msgs : \E j \in (i + 1)..inFile : Clear(j)' /\ wal'[j] = m
              /\ promised.msgs \subseteq handled
  <2>1. promised.height = stateDB.height + 1
    BY <1>5, <1>11 DEF Height
  <2>2. \A j \in (i + 1)..inFile : j \in DOMAIN wal
    BY Bounds, SMTT(30)
  <2>3. \A m \in promised.msgs : \E j \in (i + 1)..inFile : Clear(j) /\ wal[j] = m
    BY <1>5, <1>11, <2>1, Zenon DEF PromisesLogged
  <2>4. promised.msgs \subseteq handled
    BY <1>4, <1>11, Zenon DEF HandledLogged
  <2>. QED  BY <1>7, <2>2, <2>3, <2>4
<1>12. ASSUME NEW i \in DOMAIN wal', MarkerAt(i, mem.height)'
       PROVE  i \in DOMAIN wal /\ MarkerAt(i, mem.height)
  BY <1>4, <1>7, <1>12
<1>13. ASSUME NEW i \in DOMAIN wal', MarkerAt(i, mem.height)', NEW m \in handled'
       PROVE  \E j \in (i + 1)..Len(wal') : Clear(j)' /\ wal'[j] = m
  BY <1>6, <1>10, <1>12, <1>13
<1>14. CASE ReceiveOwn(id)
  <2>1. /\ promised'.height = Height
        /\ promised'.msgs = handled' \cup IF promised.height = Height THEN promised.msgs ELSE {}
        /\ inFile' = Len(wal')
    BY <1>6, <1>14, Zenon DEF ReceiveOwn, WriteSync
  <2>2. \A i \in DOMAIN wal : MarkerAt(i, mem.height) => promised'.msgs = handled'
    BY <1>2, <1>11, <2>1, Zenon
  <2>3. PromisesLogged'
    <3>1. promised'.height <= stateDB'.height + 1
      BY <1>4, <1>5, <2>1, Bounds, SMTT(30)
    <3>2. ASSUME NEW i \in DOMAIN wal', MarkerAt(i, stateDB.height)', NEW m \in promised'.msgs
          PROVE  \E j \in (i + 1)..inFile' : Clear(j)' /\ wal'[j] = m
      <4>1. MarkerAt(i, mem.height)'
        BY <1>4, <1>5, <3>2, Zenon
      <4>2. m \in handled'
        BY <1>12, <2>2, <3>2, <4>1
      <4>. QED  BY <1>13, <2>1, <4>1, <4>2, ZenonT(30)
    <3>. QED  BY <3>1, <3>2, ZenonT(30) DEF PromisesLogged
  <2>4. \A i \in DOMAIN wal' : MarkerAt(i, mem.height)' => promised'.msgs \subseteq handled'
    BY <1>12, <2>2, Zenon
  <2>5. HandledLogged'
    BY <1>4, <1>13, <2>4, Zenon DEF HandledLogged
  <2>. QED  BY <1>9, <2>3, <2>5, Zenon
<1>15. CASE ReceiveInput(id) \/ ReceiveLast(id)
  <2>1. promised' = promised /\ inFile' = inFile
    BY <1>15, Zenon DEF ReceiveInput, ReceiveLast, Write
  <2>2. PromisesLogged'
    <3>1. \A i \in DOMAIN wal' : MarkerAt(i, stateDB.height)' =>
             i \in DOMAIN wal /\ MarkerAt(i, stateDB.height)
      BY <1>4, <1>5, <1>12, Zenon
    <3>2. \A i \in DOMAIN wal : \A j \in (i + 1)..inFile :
             Clear(j) => j \in (i + 1)..inFile' /\ Clear(j)' /\ wal'[j] = wal[j]
      <4>1. \A i \in DOMAIN wal : \A j \in (i + 1)..inFile : j \in DOMAIN wal
        BY Bounds, SMTT(30)
      <4>. QED  BY <1>7, <2>1, <4>1, Zenon
    <3>. QED  BY <1>4, <2>1, <3>1, <3>2, PromisesMove, Zenon
  <2>3. promised.height = Height =>
           \A i \in DOMAIN wal' : MarkerAt(i, mem.height)' => promised'.msgs \subseteq handled'
    BY <1>2, <1>11, <1>12, <2>1, Zenon
  <2>4. HandledLogged'
    BY <1>4, <1>13, <2>1, <2>3, Zenon DEF HandledLogged
  <2>. QED  BY <1>9, <2>2, <2>4
<1>. QED  BY <1>14, <1>15, Zenon

(* The block that is appended takes what was promised for its height with  *)
(* it.                                                                     *)
LEMMA AppendLogged ==
    ASSUME LogInv, IInv,
           \/ SaveBlock \/ SaveBlockState \/ WriteEndHeight
           \/ ExecBlock \/ SaveABCIResponses \/ Commit \/ SaveState
    PROVE  TornIsBehind' /\ PromisesLogged' /\ HandledLogged'
<1> USE DEF LogInv
<1>1. CASE SaveBlock \/ SaveBlockState \/ ExecBlock \/ SaveABCIResponses \/ Commit
  <2>1. /\ UNCHANGED <<wal, inFile, promised, stateDB, mode>>
        /\ pc \in {"saveBlock", "saveBlockState", "exec", "saveResponses", "commit"}
        /\ pc' \in {"saveBlockState", "endHeight", "saveResponses", "commit", "saveState"}
    BY <1>1 DEF SaveBlock, SaveBlockState, ExecBlock, SaveABCIResponses, Commit, disk
  <2>2. TornIsBehind'
    <3>1. IsTorn' = IsTorn /\ \A i, h : MarkerAt(i, h)' = MarkerAt(i, h)
      BY <2>1 DEF IsTorn, MarkerAt, Clear
    <3>. QED  BY <2>1, <3>1 DEF TornIsBehind
  <2>3. PromisesLogged'
    BY <2>1, QuietPromises, Zenon
  <2>4. HandledLogged'
    BY <2>1 DEF HandledLogged
  <2>. QED  BY <2>2, <2>3, <2>4
<1>2. CASE WriteEndHeight
  <2>1. /\ pc = "endHeight" /\ pc' = "exec" /\ UNCHANGED <<mem, mode, stateDB, promised>>
        /\ wal' = Append(wal, EndHeight(Height)) /\ inFile' = Len(wal) + 1
    BY <1>2 DEF WriteEndHeight, WriteSync
  <2>2. EndHeight(Height) \in Record /\ EndHeight(Height) # Torn
    BY <2>1, Bounds, MarkerFacts, SMTT(30) DEF InBounds, Record
  <2>3. mem = stateDB
    BY <2>1 DEF IInv, Levels
  <2>4. EndHeight(Height) # EndHeight(stateDB.height)
    BY <2>3, Bounds, MarkerFacts, SMTT(30)
  <2>5. wal \in Seq(Record) /\ Len(wal') = Len(wal) + 1
    BY <2>1, <2>2, WriteFacts, Zenon DEF TypeOK
  <2>6. /\ \A i \in DOMAIN wal' : \A h : MarkerAt(i, h)' =>
              \/ i \in DOMAIN wal /\ MarkerAt(i, h)
              \/ EndHeight(Height) = EndHeight(h) /\ ~IsTorn
        /\ IsTorn' <=> IsTorn
        /\ \A j \in DOMAIN wal : Clear(j) => Clear(j)' /\ wal'[j] = wal[j]
    BY <2>1, <2>2, <2>5, WriteMarkers, Zenon
  <2>7. TornIsBehind'
    BY <2>1, <2>6, ZenonT(30) DEF TornIsBehind
  <2>8. PromisesLogged'
    <3>1. \A i \in DOMAIN wal : \A j \in (i + 1)..inFile : j \in DOMAIN wal /\ j \in (i + 1)..inFile'
      BY <2>1, Bounds, SMTT(30)
    <3>2. \A i \in DOMAIN wal' : MarkerAt(i, stateDB.height)' =>
             i \in DOMAIN wal /\ MarkerAt(i, stateDB.height)
      BY <2>1, <2>4, <2>6, Zenon
    <3>. QED  BY <2>1, <2>6, <3>1, <3>2 DEF PromisesLogged
  <2>9. HandledLogged'
    BY <2>1 DEF HandledLogged
  <2>. QED  BY <2>7, <2>8, <2>9
<1>3. CASE SaveState
  <2>1. /\ pc = "saveState" /\ UNCHANGED <<wal, inFile, promised, mem, mode>>
        /\ stateDB' = mem /\ handled' = {}
        /\ pc' \in {"openWAL", "repair", "running"}
        /\ pc' = "running" /\ IsTorn => mode = "consensus"
    <3>1. pc' = "running" /\ IsTorn => mode = "consensus"
      BY <1>3 DEF SaveState, TypeOK
    <3>2. pc' \in {"openWAL", "repair", "running"}
      BY <1>3, Zenon DEF SaveState
    <3>. QED  BY <1>3, <3>1, <3>2 DEF SaveState
  <2>2. mem.height = stateDB.height + 1 /\ promised.height <= stateDB.height + 1
    BY <2>1 DEF IInv, Levels, PromisesLogged
  <2>3. promised.height <= mem.height /\ promised.height # mem.height + 1
    BY <2>2, Bounds, SMTT(30)
  <2>4. TornIsBehind'
    <3>1. IsTorn' = IsTorn /\ \A i, h : MarkerAt(i, h)' = MarkerAt(i, h)
      BY <2>1 DEF IsTorn, MarkerAt, Clear
    <3>2. \A h \in 0..MaxHeight : h < stateDB.height => h < mem.height
      BY <2>2, Bounds, SMTT(30)
    <3>. QED  BY <2>1, <3>1, <3>2 DEF TornIsBehind
  <2>5. PromisesLogged'
    <3>1. promised.height <= mem.height + 1
      BY <2>3, Bounds, SMTT(30)
    <3>. QED  BY <2>1, <2>3, <3>1 DEF PromisesLogged
  <2>6. HandledLogged'
    BY <2>1, <2>3 DEF HandledLogged, Height
  <2>. QED  BY <2>4, <2>5, <2>6
<1>. QED  BY <1>1, <1>2, <1>3

(* What was promised survives a crash: it was in the file. *)
LEMMA CrashLogged ==
    ASSUME LogInv, Crash
    PROVE  TornIsBehind' /\ PromisesLogged' /\ HandledLogged'
<1> USE DEF LogInv
<1>1. PICK n \in inFile..Len(wal) :
              /\ wal' \in Seq(Record) /\ inFile' = Len(wal') /\ n <= Len(wal') /\ Len(wal') <= n + 1
              /\ Len(wal') > n => wal'[n + 1] = Torn
              /\ \A i \in 1..n : wal'[i] = wal[i] /\ (Clear(i)' <=> Clear(i))
  BY CrashFacts
<1>2. pc' = "down" /\ handled' = {} /\ UNCHANGED <<stateDB, promised>>
  BY Zenon DEF Crash
<1>3. n \in 0..Len(wal) /\ n \in Nat /\ inFile <= n /\ wal \in Seq(Record)
  BY <1>1, Bounds, SMTT(30) DEF TypeOK
<1>4. /\ \A i \in DOMAIN wal' : \A h : MarkerAt(i, h)' => i \in DOMAIN wal /\ MarkerAt(i, h)
      /\ \A j \in 1..n : j \in DOMAIN wal' /\ (Clear(j) => Clear(j)' /\ wal'[j] = wal[j])
  BY <1>1, <1>3, CutMarkers, Zenon
<1>5. \A i \in DOMAIN wal : \A j \in (i + 1)..inFile : j \in 1..n /\ j \in (i + 1)..inFile'
  <2>1. Len(wal') \in Nat
    BY <1>1
  <2>. QED  BY <1>1, <1>3, <2>1, Bounds, SMTT(30)
<1>6. \A i \in DOMAIN wal' : MarkerAt(i, stateDB.height)' =>
         i \in DOMAIN wal /\ MarkerAt(i, stateDB.height)
  BY <1>2, <1>4, Zenon
<1>7. PromisesLogged'
  <2>1. \A i \in DOMAIN wal : \A j \in (i + 1)..inFile :
           Clear(j) => j \in (i + 1)..inFile' /\ Clear(j)' /\ wal'[j] = wal[j]
    BY <1>4, <1>5, Zenon
  <2>. QED  BY <1>2, <1>6, <2>1, PromisesMove, Zenon
<1>8. TornIsBehind' /\ HandledLogged'
  BY <1>2 DEF TornIsBehind, HandledLogged
<1>. QED  BY <1>7, <1>8

(* The replay of the log handles all that was promised. *)
LEMMA ReplayLogged ==
    ASSUME LogInv, IInv, CatchupReplay
    PROVE  TornIsBehind' /\ PromisesLogged' /\ HandledLogged'
<1> USE DEF LogInv
<1>1. pc = "catchup" /\ UNCHANGED <<wal, inFile, promised, stateDB, mem, store>>
  BY DEF CatchupReplay, disk
<1>2. mem = stateDB /\ store.height = mem.height
  BY <1>1 DEF IInv, Levels
<1>3. IsTorn' = IsTorn /\ \A i, h : MarkerAt(i, h)' = MarkerAt(i, h)
  BY <1>1 DEF IsTorn, MarkerAt, Clear
<1>4. /\ \A j : Clear(j)' = Clear(j)
      /\ \A i : MarkerAt(i, mem.height)' = MarkerAt(i, mem.height)
      /\ Height' = Height
  BY <1>1 DEF MarkerAt, Clear, Height
<1>5. PromisesLogged'
  BY <1>1, QuietPromises
<1>6. CASE /\ \A i \in DOMAIN wal : ~MarkerAt(i, mem.height)
           /\ pc' = "running" /\ UNCHANGED <<handled, mode>>
  <2>1. HandledLogged'
    BY <1>1, <1>4, <1>6 DEF HandledLogged
  <2>2. ASSUME NEW i \in DOMAIN wal, NEW h \in 0..MaxHeight, MarkerAt(i, h)
        PROVE  h < stateDB.height
    <3>1. h # mem.height
      BY <1>6, <2>2, Zenon
    <3>2. h <= Newest
      BY <2>2, MarkerFacts DEF MarkerAt, InOrder, MarkersInOrder
    <3>3. Newest = mem.height
      BY <1>1, <1>2, Zenon DEF Newest
    <3>. QED  BY <1>2, <3>1, <3>2, <3>3, Bounds, SMTT(30)
  <2>3. TornIsBehind'
    BY <1>1, <1>3, <2>2 DEF TornIsBehind
  <2>. QED  BY <1>5, <2>1, <2>3, Zenon
<1>7. CASE ~(/\ \A i \in DOMAIN wal : ~MarkerAt(i, mem.height)
             /\ pc' = "running" /\ UNCHANGED <<handled, mode>>)
  <2>1. PICK i \in DOMAIN wal :
                /\ MarkerAt(i, mem.height) /\ mode' = "catchup"
                /\ handled \subseteq handled'
                /\ \A m \in handled' \ handled :
                      \E j \in (i + 1)..Len(wal) : Clear(j) /\ wal[j] = m
                /\ pc' \in {"saveBlock", "repair", "running"}
                /\ pc' # "saveBlock" =>
                      \A j \in (i + 1)..Len(wal) : Clear(j) => wal[j] \in handled'
                /\ pc' = "running" => ~IsTorn
    BY <1>7, ReplayFacts, Zenon
  <2>2. \A k \in DOMAIN wal : MarkerAt(k, mem.height) => k = i
    BY <2>1, Bounds, MarkerUnique, Zenon
  <2>3. TornIsBehind'
    BY <1>3, <2>1, Zenon DEF TornIsBehind
  <2>4. \A m \in handled' : \E j \in (i + 1)..Len(wal) : Clear(j) /\ wal[j] = m
    BY <1>1, <2>1, Zenon DEF HandledLogged
  <2>5. pc' = "running" /\ promised.height = Height => promised.msgs \subseteq handled'
    <3> SUFFICES ASSUME pc' = "running", promised.height = Height, NEW m \in promised.msgs
                 PROVE  m \in handled'
      OBVIOUS
    <3>1. promised.height = stateDB.height + 1
      BY <1>2, Zenon DEF Height
    <3>2. PICK j \in (i + 1)..inFile : Clear(j) /\ wal[j] = m
      BY <1>2, <2>1, <3>1, Zenon DEF PromisesLogged
    <3>3. j \in (i + 1)..Len(wal)
      BY <3>2, Bounds, SMTT(30)
    <3>. QED  BY <2>1, <3>2, <3>3
  <2>6. HandledLogged'
    BY <1>1, <1>4, <2>1, <2>2, <2>4, <2>5, Zenon DEF HandledLogged
  <2>. QED  BY <1>5, <2>3, <2>6, Zenon
<1>. QED  BY <1>6, <1>7

(* The other steps of a start lose nothing. *)
LEMMA StartLogged ==
    ASSUME LogInv, IInv,
           \/ Start \/ ReplayBlocks \/ ReplayLast \/ Synced
           \/ OpenWAL \/ Repair \/ FlushTick \/ OfferUpdate
    PROVE  TornIsBehind' /\ PromisesLogged' /\ HandledLogged'
<1> USE DEF LogInv
<1>0. wal \in Seq(Record)
  BY DEF TypeOK
<1>1. CASE Start \/ ReplayBlocks \/ ReplayLast \/ Synced
  <2>1. /\ UNCHANGED <<wal, inFile, promised, stateDB, handled>>
        /\ pc \in {"down", "handshake"}
        /\ pc' \in {"handshake", "openWAL", "exec"}
        /\ pc' = "exec" => mode' # "consensus"
    BY <1>1, Zenon DEF Start, ReplayBlocks, ReplayLast, Synced, disk
  <2>2. TornIsBehind' /\ HandledLogged'
    BY <2>1, Zenon DEF TornIsBehind, HandledLogged
  <2>. QED  BY <2>1, <2>2, QuietPromises, Zenon
<1>2. CASE FlushTick \/ OfferUpdate
  <2>1. /\ UNCHANGED <<wal, promised, stateDB, mem, handled, pc, mode>>
        /\ inFile' \in {inFile, Len(wal)}
    BY <1>2, Zenon DEF FlushTick, OfferUpdate, disk
  <2>2. /\ IsTorn' = IsTorn /\ \A i, h : MarkerAt(i, h)' = MarkerAt(i, h)
        /\ \A j : Clear(j)' = Clear(j)
        /\ \A i : MarkerAt(i, mem.height)' = MarkerAt(i, mem.height)
        /\ Height' = Height
    BY <2>1, Zenon DEF IsTorn, MarkerAt, Clear, Height
  <2>3. TornIsBehind'
    BY <2>1, <2>2, ZenonT(30) DEF TornIsBehind
  <2>4. HandledLogged'
    BY <2>1, <2>2 DEF HandledLogged
  <2>. QED  BY <2>1, <2>3, <2>4, QuietPromises, Zenon
<1>3. CASE OpenWAL
  <2>1. /\ UNCHANGED <<promised, stateDB, handled, mem>> /\ pc = "openWAL" /\ pc' = "catchup"
        /\ wal # <<>> => UNCHANGED <<wal, inFile>>
    BY <1>3, Zenon DEF OpenWAL
  <2>2. TornIsBehind' /\ HandledLogged'
    BY <2>1, Zenon DEF TornIsBehind, HandledLogged
  <2>3. CASE wal = <<>>
    <3>1. promised.height = 0 /\ stateDB.height \in Nat
      BY <2>3, Bounds DEF InOrder, LogBegun
    <3>2. promised.height <= stateDB.height + 1 /\ promised.height # stateDB.height + 1
      BY <3>1
    <3>. QED  BY <2>1, <2>2, <3>2, Zenon DEF PromisesLogged
  <2>4. CASE wal # <<>>
    BY <2>1, <2>2, <2>4, QuietPromises
  <2>. QED  BY <2>3, <2>4, Zenon
<1>4. CASE Repair
  <2>1. /\ pc = "repair" /\ pc' = "catchup" /\ UNCHANGED <<promised, stateDB, handled, mem>>
        /\ wal' = Readable /\ inFile' = Len(wal')
    BY <1>4, Zenon DEF Repair
  <2> DEFINE n == Len(Readable)
  <2>2. /\ Readable \in Seq(Record) /\ n \in 0..Len(wal) /\ n \in Nat
        /\ \A i \in 1..n : Readable[i] = wal[i] /\ wal[i] # Torn
        /\ \A i \in DOMAIN wal : Clear(i) <=> i <= n
    BY <1>0, ReadableFacts
  <2>3. Len(wal') = n
    BY <2>1, Zenon
  <2> HIDE DEF n
  <2>4. \A i \in 1..n : Clear(i)' /\ Clear(i)
    <3>1. \A i \in 1..n : 1..i \subseteq 1..n
      BY <2>2, SMTT(30)
    <3>. QED  BY <2>1, <2>2, <3>1, Zenon DEF Clear
  <2>5. /\ \A i \in DOMAIN wal' : \A h : MarkerAt(i, h)' => i \in DOMAIN wal /\ MarkerAt(i, h)
        /\ \A j \in 1..n : j \in DOMAIN wal' /\ (Clear(j) => Clear(j)' /\ wal'[j] = wal[j])
    <3>1. n <= Len(wal') /\ Len(wal') <= n + 1 /\ ~(Len(wal') > n)
      BY <2>2, <2>3, SMTT(30)
    <3>. QED  BY <1>0, <2>1, <2>2, <2>4, <3>1, CutMarkers, Zenon
  <2>6. \A i \in DOMAIN wal : \A j \in (i + 1)..Len(wal) :
           Clear(j) => j \in 1..n /\ j \in (i + 1)..n
    <3>1. \A i \in DOMAIN wal : \A j \in (i + 1)..Len(wal) : i \in Nat /\ j \in DOMAIN wal
      BY Bounds, SMTT(30)
    <3>2. \A i \in Nat : \A j \in (i + 1)..Len(wal) : j <= n => j \in 1..n /\ j \in (i + 1)..n
      BY <2>2, Bounds, SMTT(30)
    <3>. QED  BY <2>2, <3>1, <3>2, Zenon
  <2>7. \A i \in DOMAIN wal : \A j \in (i + 1)..inFile : j \in (i + 1)..Len(wal)
    BY Bounds, SMTT(30)
  <2>8. PromisesLogged'
    <3>1. \A i \in DOMAIN wal' : MarkerAt(i, stateDB.height)' =>
             i \in DOMAIN wal /\ MarkerAt(i, stateDB.height)
      BY <2>1, <2>5, Zenon
    <3>2. \A i \in DOMAIN wal : \A j \in (i + 1)..inFile :
             Clear(j) => j \in (i + 1)..inFile' /\ Clear(j)' /\ wal'[j] = wal[j]
      BY <2>1, <2>3, <2>5, <2>6, <2>7, Zenon
    <3>. QED  BY <2>1, <3>1, <3>2, PromisesMove, Zenon
  <2>9. HandledLogged'
    <3>1. ASSUME NEW i \in DOMAIN wal', MarkerAt(i, mem.height)', NEW m \in handled'
          PROVE  \E j \in (i + 1)..Len(wal') : Clear(j)' /\ wal'[j] = m
      <4>1. i \in DOMAIN wal /\ MarkerAt(i, mem.height)
        BY <2>1, <2>5, <3>1, Zenon
      <4>2. PICK j \in (i + 1)..Len(wal) : Clear(j) /\ wal[j] = m
        BY <2>1, <3>1, <4>1 DEF HandledLogged
      <4>3. j \in 1..n /\ j \in (i + 1)..n
        BY <2>6, <4>1, <4>2
      <4>. QED  BY <2>3, <2>5, <4>2, <4>3, Zenon
    <3>. QED  BY <2>1, <3>1 DEF HandledLogged
  <2>10. TornIsBehind'
    BY <2>1 DEF TornIsBehind
  <2>. QED  BY <2>8, <2>9, <2>10, Zenon
<1>. QED  BY <1>1, <1>2, <1>3, <1>4, Zenon

(* The log before the first start. *)
LEMMA InitLog == Init => LogInv
<1> SUFFICES ASSUME Init PROVE LogInv
  OBVIOUS
<1>1. wal = <<>> /\ Len(wal) = 0 /\ DOMAIN wal = {} /\ wal \in Seq(Record) /\ inFile = 0
  BY SMTT(30) DEF Init
<1>2. TypeOK
  <2>1. Genesis \in State
    BY RecoveryAssumption, SMTT(30) DEF Genesis, State
  <2>2. store \in [height : 0..MaxHeight, parts : SUBSET Heights]
    BY RecoveryAssumption, SMTT(30) DEF Init
  <2>3. promised \in [height : 0..MaxHeight, msgs : SUBSET Message]
    BY RecoveryAssumption, SMTT(30) DEF Init
  <2>4. offered \in 0..MaxHeight /\ committed \in 0..MaxHeight /\ crashes \in 0..MaxCrashes
    BY RecoveryAssumption DEF Init
  <2>5. DOMAIN responses = {} /\ ran \in Seq(Heights)
    BY DEF Init
  <2>6. inFile \in 0..Len(wal)
    BY <1>1, SMTT(30)
  <2>. QED  BY <1>1, <2>1, <2>2, <2>3, <2>4, <2>5, <2>6, Zenon DEF Init, TypeOK, Steps
<1>3. InBounds /\ InOrder /\ TornIsBehind /\ HandledLogged
  BY <1>1, Zenon DEF Init, InBounds, InOrder, LogBegun, MarkersInOrder, TornIsBehind, HandledLogged
<1>4. PromisesLogged
  BY <1>1 DEF Init, PromisesLogged, Genesis
<1>. QED  BY <1>2, <1>3, <1>4 DEF LogInv

(* Every step keeps types, order and promises. *)
LEMMA NextLog ==
    ASSUME LogInv, IInv, [Next]_vars
    PROVE  LogInv' /\ IInv'
<1>1. CASE UNCHANGED vars
  <2>1. LogInv'
    <3>1. UNCHANGED <<wal, inFile, store, stateDB, responses, ran, mem, result, offered,
                      handled, pc, mode, promised, committed, crashes, durable>>
      BY <1>1, Zenon DEF vars, disk
    <3>2. TypeOK' /\ InBounds'
      BY <3>1, Zenon DEF LogInv, TypeOK, InBounds, Height
    <3>3. InOrder'
      BY <3>1, Zenon DEF LogInv, InOrder, LogBegun, MarkersInOrder, Newest
    <3>4. TornIsBehind'
      BY <3>1 DEF LogInv, TornIsBehind, IsTorn, MarkerAt, Clear
    <3>5. PromisesLogged'
      BY <3>1, QuietPromises, Zenon DEF LogInv
    <3>6. HandledLogged'
      BY <3>1, SMTT(30) DEF LogInv, HandledLogged, MarkerAt, Clear, Height
    <3>. QED  BY <3>2, <3>3, <3>4, <3>5, <3>6 DEF LogInv
  <2>2. IInv'
    BY <1>1 DEF vars, disk, IInv, HashesFit, Levels, OnDisk, Height
  <2>. QED  BY <2>1, <2>2
<1>2. CASE \E id \in Ids : ReceiveInput(id) \/ ReceiveOwn(id) \/ ReceiveLast(id)
  <2>1. IInv'
    BY <1>2, ReceivePreserves, Zenon
  <2>2. TypeOK' /\ InBounds' /\ TornIsBehind' /\ PromisesLogged' /\ HandledLogged'
    BY <1>2, ReceiveTypes, ReceiveLogged, Zenon DEF LogInv
  <2>3. InOrder'
    BY <1>2, <2>1, ReceiveOrder DEF LogInv
  <2>. QED  BY <2>1, <2>2, <2>3 DEF LogInv
<1>3. CASE \/ SaveBlock \/ SaveBlockState \/ WriteEndHeight
           \/ ExecBlock \/ SaveABCIResponses \/ Commit \/ SaveState
  <2>1. IInv'
    BY <1>3, AppendPreserves, CommitPreserves
  <2>2. TypeOK' /\ InBounds'
    BY <1>3, AppendTypes DEF LogInv
  <2>3. TornIsBehind' /\ PromisesLogged' /\ HandledLogged'
    BY <1>3, AppendLogged
  <2>4. InOrder'
    BY <1>3, <2>1, <2>2, AppendOrder DEF LogInv
  <2>. QED  BY <2>1, <2>2, <2>3, <2>4 DEF LogInv
<1>4. CASE Crash
  <2>1. IInv'
    BY <1>4, CrashPreserves
  <2>2. TypeOK' /\ InBounds'
    BY <1>4, CrashTypes DEF LogInv
  <2>3. TornIsBehind' /\ PromisesLogged' /\ HandledLogged'
    BY <1>4, CrashLogged
  <2>4. InOrder'
    BY <1>4, <2>1, <2>2, CrashOrder DEF LogInv
  <2>. QED  BY <2>1, <2>2, <2>3, <2>4 DEF LogInv
<1>5. CASE \/ Start \/ ReplayBlocks \/ ReplayLast \/ Synced
           \/ OpenWAL \/ CatchupReplay \/ Repair \/ FlushTick \/ OfferUpdate
  <2>1. IInv'
    BY <1>5, StartPreserves, ReceivePreserves
  <2>2. TypeOK' /\ InBounds'
    BY <1>5, StartTypes DEF LogInv
  <2>3. TornIsBehind' /\ PromisesLogged' /\ HandledLogged'
    BY <1>5, ReplayLogged, StartLogged
  <2>4. InOrder'
    BY <1>5, <2>1, <2>2, StartOrder DEF LogInv
  <2>. QED  BY <2>1, <2>2, <2>3, <2>4 DEF LogInv
<1>. QED  BY <1>1, <1>2, <1>3, <1>4, <1>5 DEF Next, NodeStep

(* The log holds, behind the marker of the last height, all that the node  *)
(* has promised, at every point of every run.                              *)
THEOREM LogInvariant == Spec => [](LogInv /\ IInv)
<1>1. Init => LogInv /\ IInv
  BY InitLog, InitIInv
<1>2. (LogInv /\ IInv) /\ [Next]_vars => (LogInv /\ IInv)'
  BY NextLog
<1>. QED  BY <1>1, <1>2, PTL DEF Spec

(* Every variable has its type. *)
THEOREM RecoveryTypes == Spec => []TypeOK
<1>1. LogInv => TypeOK
  BY Zenon DEF LogInv
<1>. QED  BY <1>1, LogInvariant, PTL

(* catchupReplay does what it is for: a node in consensus that found the   *)
(* marker has handled what its own messages rest on.                       *)
THEOREM RecoveryReplays == Spec => []ReplayRecovers
<1>1. LogInv => ReplayRecovers
  <2> SUFFICES ASSUME LogInv, pc = "running", promised.height = Height, Marked(Height - 1)
               PROVE  promised.msgs \subseteq handled
    BY DEF ReplayRecovers
  <2>1. Height - 1 = mem.height
    BY Bounds, SMTT(30) DEF LogInv
  <2>2. PICK i \in DOMAIN wal : MarkerAt(i, mem.height)
    <3>1. wal \in Seq(Record)
      BY DEF LogInv, TypeOK
    <3>. QED  BY <2>1, <3>1, MarkedFacts
  <2>. QED  BY <2>2, Zenon DEF LogInv, HandledLogged
<1>. QED  BY <1>1, LogInvariant, PTL

-----------------------------------------------------------------------------
(* Blocks and responses on disk.                                           *)

(* The parts of a block are written before the height is. *)
LEMMA NextStore ==
    ASSUME TypeOK, IInv, StoreFilled, [Next]_vars
    PROVE  StoreFilled'
<1>1. CASE SaveBlock
  <2>1. /\ pc = "saveBlock" /\ pc' = "saveBlockState" /\ mem' = mem
        /\ store.height = mem.height /\ store.height < Height
    BY <1>1, Bounds DEF SaveBlock, IInv, Levels
  <2>2. store' = [store EXCEPT !.parts = @ \cup {Height}]
    BY <1>1, <2>1 DEF SaveBlock
  <2>3. store'.height = store.height /\ store'.parts = store.parts \cup {Height}
    BY <2>2, Zenon DEF TypeOK
  <2>. QED  BY <2>1, <2>3 DEF StoreFilled, StoredBlocksComplete, Height
<1>2. CASE SaveBlockState
  <2>1. /\ pc' = "endHeight" /\ store.height = mem.height /\ store.height < Height
        /\ Height \in store.parts
    BY <1>2, Bounds DEF SaveBlockState, IInv, Levels, StoreFilled
  <2>2. store' = [store EXCEPT !.height = Height]
    BY <1>2, <2>1 DEF SaveBlockState
  <2>3. store'.height = Height /\ store'.parts = store.parts
    BY <2>2, Zenon DEF TypeOK
  <2>4. \A h \in 1..Height : h \in 1..store.height \/ h = Height
    BY <2>1, Bounds, SMTT(30)
  <2>. QED  BY <2>1, <2>3, <2>4 DEF StoreFilled, StoredBlocksComplete
<1>3. CASE Next /\ ~SaveBlock /\ ~SaveBlockState
  <2>1. store' = store /\ (pc' = "saveBlockState" => UNCHANGED <<pc, mem>>)
    BY <1>3, Zenon DEF Next, NodeStep, WriteEndHeight, ExecBlock, SaveABCIResponses, Commit, SaveState,
       Start, ReplayBlocks, ReplayLast, Synced, OpenWAL, CatchupReplay, Repair,
       ReceiveInput, ReceiveOwn, ReceiveLast, CanReceive, FlushTick, OfferUpdate, Crash, disk
  <2>. QED  BY <2>1, Zenon DEF StoreFilled, StoredBlocksComplete, Height
<1>4. CASE UNCHANGED vars
  BY <1>4, Zenon DEF vars, disk, StoreFilled, StoredBlocksComplete, Height
<1>. QED  BY <1>1, <1>2, <1>3, <1>4

(* A durable application is level with what the node saw it commit. *)
LEMMA NextAnswers ==
    ASSUME TypeOK, IInv, IInv', AnswersKept, [Next]_vars
    PROVE  AnswersKept'
<1>1. CASE Commit
  <2>1. pc' = "saveState" /\ committed' = Height /\ mem'.height = Height /\ stateDB' = stateDB
        /\ pc = "commit"
    BY <1>1, Zenon DEF Commit, disk
  <2>2. Len(ran') = mem'.height
    BY <2>1, Zenon DEF IInv, Levels
  <2>3. stateDB.height <= Height
    BY <2>1, Bounds DEF IInv, Levels
  <2>. QED  BY <2>1, <2>2, <2>3 DEF AnswersKept
<1>2. CASE SaveState
  <2>1. pc' # "saveResponses" /\ UNCHANGED <<durable, committed, ran>> /\ stateDB' = mem
    BY <1>2 DEF SaveState
  <2>2. Len(ran) = mem.height /\ mem.height <= mem.height
    BY <1>2, Bounds DEF SaveState, IInv, Levels
  <2>. QED  BY <2>1, <2>2 DEF AnswersKept
<1>3. CASE Crash
  <2>1. /\ pc' = "down" /\ UNCHANGED <<durable, committed, stateDB>> /\ (durable => ran' = ran)
    BY <1>3, Zenon DEF Crash
  <2>. QED  BY <2>1 DEF AnswersKept
<1>4. CASE ReplayBlocks
  <2>1. Len(ran) < stateDB.height
    BY <1>4, Zenon DEF ReplayBlocks, IInv, Levels
  <2>2. ~durable
    BY <2>1, Bounds, SMTT(30) DEF AnswersKept
  <2>. QED  BY <1>4, <2>2, Zenon DEF ReplayBlocks, AnswersKept
<1>5. CASE ExecBlock
  <2>1. mode = "mock" => Height \in DOMAIN responses
    BY <1>5, Bounds DEF ExecBlock, IInv, Levels, OnDisk
  <2>. QED  BY <1>5, <2>1, Zenon DEF ExecBlock, disk, AnswersKept, Height
<1>6. CASE Next /\ ~Commit /\ ~SaveState /\ ~Crash /\ ~ReplayBlocks /\ ~ExecBlock
  <2>1. UNCHANGED <<durable, committed, ran, stateDB>>
        /\ (pc' = "saveResponses" => UNCHANGED <<pc, mode, mem, responses, result>>)
    BY <1>6, Zenon DEF Next, NodeStep, SaveBlock, SaveBlockState, WriteEndHeight, SaveABCIResponses,
       Start, ReplayLast, Synced, OpenWAL, CatchupReplay, Repair,
       ReceiveInput, ReceiveOwn, ReceiveLast, CanReceive, FlushTick, OfferUpdate, disk
  <2>. QED  BY <2>1, Zenon DEF AnswersKept, Height
<1>7. CASE UNCHANGED vars
  BY <1>7, Zenon DEF vars, disk, AnswersKept, Height
<1>. QED  BY <1>1, <1>2, <1>3, <1>4, <1>5, <1>6, <1>7

(* A step writes the responses of a block the application has committed    *)
(* only as they are.                                                       *)
LEMMA StepStands ==
    ASSUME TypeOK, IInv, AnswersKept, [Next]_vars
    PROVE  \A h \in DOMAIN responses : durable /\ h <= committed =>
              h \in DOMAIN responses' /\ responses'[h] = responses[h]
<1>1. CASE SaveABCIResponses
  <2> SUFFICES ASSUME NEW h \in DOMAIN responses, durable, h <= committed
               PROVE  h \in DOMAIN responses' /\ responses'[h] = responses[h]
    BY Zenon
  <2>1. responses' = [g \in DOMAIN responses \cup {Height} |->
                        IF g = Height THEN result ELSE responses[g]]
    BY <1>1, Zenon DEF SaveABCIResponses
  <2>2. h = Height => result = responses[h]
    <3> SUFFICES ASSUME h = Height PROVE result = responses[h]
      OBVIOUS
    <3>1. Height <= Len(ran)
      BY Zenon DEF AnswersKept
    <3>2. mode = "mock"
      BY <1>1, <3>1, Bounds DEF SaveABCIResponses, IInv, Levels
    <3>. QED  BY <1>1, <3>2 DEF SaveABCIResponses, AnswersKept
  <2>. QED  BY <2>1, <2>2
<1>2. CASE Next /\ ~SaveABCIResponses
  <2>1. responses' = responses
    BY <1>2, Zenon
       DEF Next, NodeStep, SaveBlock, SaveBlockState, WriteEndHeight, ExecBlock, Commit, SaveState,
           Start, ReplayBlocks, ReplayLast, Synced, OpenWAL, CatchupReplay, Repair,
           ReceiveInput, ReceiveOwn, ReceiveLast, FlushTick, OfferUpdate, Crash, disk
  <2>. QED  BY <2>1, Zenon
<1>3. CASE UNCHANGED vars
  BY <1>3 DEF vars, disk
<1>. QED  BY <1>1, <1>2, <1>3

(* What SaveBlock and SaveABCIResponses have written fits, at every point. *)
THEOREM DiskInvariant == Spec => [](LogInv /\ IInv /\ StoreFilled /\ AnswersKept)
<1> DEFINE Inv == LogInv /\ IInv /\ StoreFilled /\ AnswersKept
<1>1. Init => Inv
  <2>1. Init => StoreFilled /\ AnswersKept
    BY BlocksEmpty DEF Init, StoreFilled, StoredBlocksComplete, AnswersKept, Genesis
  <2>. QED  BY <2>1, InitLog, InitIInv, Zenon
<1>2. Inv /\ [Next]_vars => Inv'
  <2> SUFFICES ASSUME Inv, [Next]_vars PROVE Inv'
    OBVIOUS
  <2>1. TypeOK
    BY DEF LogInv
  <2>2. LogInv' /\ IInv'
    BY NextLog
  <2>3. StoreFilled'
    BY <2>1, NextStore
  <2>4. AnswersKept'
    BY <2>1, <2>2, NextAnswers
  <2>. QED  BY <2>2, <2>3, <2>4
<1>. QED  BY <1>1, <1>2, PTL DEF Spec

(* Every block the store counts can be loaded. *)
THEOREM RecoveryBlocksComplete == Spec => []StoredBlocksComplete
<1>1. StoreFilled => StoredBlocksComplete
  BY DEF StoreFilled
<1>. QED  BY <1>1, DiskInvariant, PTL

(* Responses the state may still be completed with are not changed.        *)
THEOREM RecoveryResponsesStand == Spec => ResponsesStand
<1> DEFINE Kept == \A h \in DOMAIN responses : durable /\ h <= committed =>
                      h \in DOMAIN responses' /\ responses'[h] = responses[h]
<1>1. (LogInv /\ IInv /\ StoreFilled /\ AnswersKept) /\ [Next]_vars => [Kept]_vars
  <2> SUFFICES ASSUME LogInv, IInv, AnswersKept, [Next]_vars PROVE Kept
    OBVIOUS
  <2>1. TypeOK
    BY DEF LogInv
  <2>. QED  BY <2>1, StepStands
<1>2. Spec => [][Kept]_vars
  <2> HIDE DEF Kept
  <2>. QED  BY <1>1, DiskInvariant, PTL DEF Spec
<1>. QED  BY <1>2 DEF ResponsesStand

=============================================================================
