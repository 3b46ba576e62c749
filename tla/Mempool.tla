------------------------------ MODULE Mempool ------------------------------
(***************************************************************************)
(* The mempool (mempool/clist_mempool.go) with the goroutines that use it: *)
(* checkers, which run CheckTx for a peer or for a client; the consensus   *)
(* goroutine, which runs Update under the write lock and takes             *)
(* notifications from txsAvailable; and one broadcastTxRoutine             *)
(* (mempool/reactor.go) per peer, which walks the list under no lock.      *)
(*                                                                         *)
(* The application is reached through the local client, so a response is   *)
(* handled by the goroutine that asked.  A transaction is a model value;   *)
(* its size is what the limits see of it.  Flush has no caller.  The       *)
(* mempool's own log is written and never read, and is left out.           *)
(***************************************************************************)
EXTENDS Integers, FiniteSets, SequencesExt, FiniteSetsExt

CONSTANTS Txs, TxSize,     \* the transactions and the bytes of each
          Peers,           \* peers that are sent transactions
          Configs          \* config.MempoolConfig as the nodes have it (Size,
                           \* MaxTxsBytes, MaxTxBytes, CacheSize, Recheck,
                           \* Broadcast), with the bounds of each: Checkers
                           \* that may be in CheckTx at once, the Senders they
                           \* act for (peers, or a client), Adds to the list,
                           \* Heights committed, transactions in a Block

VARIABLES mem,        \* [txs, txsMap, txsBytes, cache], and history: evicted
          height,
          notified,   \* notifiedTxsAvailable
          txsAvailable,        \* values in the channel, at most one
          config,     \* the configuration of this node
          update,     \* Update's recheck: [e, cursor, end], e = Nil outside it
          chk,        \* per checker: [pc, tx, sender]
          cast,       \* per peer, its broadcast routine: [pc, next]
          peerHeight, \* the height the peer told us, -1 before it has a state
          sent,       \* history: what was sent to a peer
          panicked

vars == <<mem, height, notified, txsAvailable, config, update, chk, cast,
          peerHeight, sent, panicked>>

L == INSTANCE CList
Nil == L!Nil

Value(e) == mem.txs.elems[e].Value
InPool(m, t) == \E e \in L!Live(m.txs) : m.txs.elems[e].Value.tx = t

(* mapTxCache: least recently used first. *)
Push(m, t) ==
    IF Contains(m.cache, t)
    THEN [m EXCEPT !.cache = Append(Remove(@, t), t)]
    ELSE IF Len(m.cache) >= config.CacheSize
    THEN [m EXCEPT !.cache = Append(Tail(@), t), !.evicted = @ \cup {Head(m.cache)}]
    ELSE [m EXCEPT !.cache = Append(@, t)]

CacheRemove(m, t) == [m EXCEPT !.cache = Remove(@, t)]

(* Mutant of addTx: the bytes are not counted. *)
AddUncounted(m, v) ==
    [m EXCEPT !.txs = L!PushBack(@, v), !.txsMap[v.tx] = Len(m.txs.elems) + 1]

addTx(m, v) ==
    [m EXCEPT !.txs = L!PushBack(@, v),
              !.txsMap[v.tx] = Len(m.txs.elems) + 1,
              !.txsBytes = @ + TxSize[v.tx]]

removeTx(m, t, e) ==
    CacheRemove([m EXCEPT !.txs = L!DetachPrev(L!Remove(@, e), e),
                          !.txsMap[t] = Nil,
                          !.txsBytes = @ - TxSize[t]], t)

(* Mutant of isFull: the count is compared one too late. *)
FullLate(t) ==
    \/ mem.txs.len > config.Size
    \/ TxSize[t] + mem.txsBytes > config.MaxTxsBytes

isFull(t) ==
    \/ mem.txs.len >= config.Size
    \/ TxSize[t] + mem.txsBytes > config.MaxTxsBytes

Init ==
    /\ mem = [txs |-> L!New, txsMap |-> [t \in Txs |-> Nil], txsBytes |-> 0,
              cache |-> <<>>, evicted |-> {}]
    /\ height = 0 /\ notified = FALSE /\ txsAvailable = 0
    /\ config \in Configs
    /\ update = [e |-> Nil, cursor |-> Nil, end |-> Nil]
    /\ chk = [c \in config.Checkers |-> [pc |-> "idle"]]
    /\ cast = [p \in Peers |-> [pc |-> IF config.Broadcast THEN "pick" ELSE "quit",
                               next |-> Nil]]
    /\ peerHeight = [p \in Peers |-> -1]
    /\ sent = [p \in Peers |-> {}] /\ panicked = FALSE

(*************************** CheckTx and its callback **********************)
ReadLocked == {c \in config.Checkers : chk[c].pc # "idle"}
Goto(c, pc) == chk' = [chk EXCEPT ![c].pc = pc]
Return(c) == chk' = [chk EXCEPT ![c] = [pc |-> "idle"]]

(* CheckTx up to its early returns: the pool is full, the transaction is too
   large, or the pre-check, here the same limit, refuses it. *)
CheckTx(c, t, s) ==
    /\ chk[c].pc = "idle" /\ update.e = Nil
    /\ ~isFull(t) /\ TxSize[t] <= config.MaxTxBytes
    /\ Len(mem.txs.elems) + Cardinality(ReadLocked) < config.Adds
    /\ chk' = [chk EXCEPT ![c] = [pc |-> "push", tx |-> t, sender |-> s]]
    /\ UNCHANGED <<mem, height, notified, txsAvailable, config, update, cast,
                   peerHeight, sent, panicked>>

(* cache.Push: a transaction seen before is only noted as known to the
   sender, if it is still in the pool. *)
PushCache(c) ==
    LET t == chk[c].tx
        e == mem.txsMap[t] IN
    /\ chk[c].pc = "push"
    /\ IF Contains(mem.cache, t)
       THEN /\ mem' = IF e = Nil THEN Push(mem, t)
                      ELSE [Push(mem, t) EXCEPT !.txs.elems[e].Value.senders =
                                                    @ \cup {chk[c].sender}]
            /\ Return(c)
       ELSE mem' = Push(mem, t) /\ Goto(c, "cb")
    /\ UNCHANGED <<height, notified, txsAvailable, config, update, cast,
                   peerHeight, sent, panicked>>

(* The application's answer, globalCb (which returns unless a recheck is on)
   and reqResCb with resCbFirstTime up to the second isFull. *)
ResCbFirstTime(c, ok) ==
    LET t == chk[c].tx IN
    /\ chk[c].pc = "cb"
    /\ panicked' = (panicked \/ update.cursor # Nil)
    /\ IF ok /\ ~isFull(t)
       THEN Goto(c, "add") /\ UNCHANGED mem
       ELSE mem' = CacheRemove(mem, t) /\ Return(c)
    /\ UNCHANGED <<height, notified, txsAvailable, config, update, cast,
                   peerHeight, sent>>

AddTx(c) ==
    /\ chk[c].pc = "add"
    /\ mem' = addTx(mem, [tx |-> chk[c].tx, height |-> height,
                          senders |-> {chk[c].sender}])
    /\ Goto(c, "notify")
    /\ UNCHANGED <<height, notified, txsAvailable, config, update, cast,
                   peerHeight, sent, panicked>>

(* notifyTxsAvailable: the flag is read, and set, under no lock. *)
ReadNotified(c) ==
    /\ chk[c].pc = "notify"
    /\ panicked' = (panicked \/ mem.txs.len = 0)
    /\ IF notified THEN Return(c) ELSE Goto(c, "send")
    /\ UNCHANGED <<mem, height, notified, txsAvailable, config, update, cast,
                   peerHeight, sent>>

SendNotice(c) ==
    /\ chk[c].pc = "send"
    /\ notified' = TRUE /\ txsAvailable' = 1
    /\ Return(c)
    /\ UNCHANGED <<mem, height, config, update, cast, peerHeight, sent,
                   panicked>>

(********************************* Update **********************************)
(* notifyTxsAvailable by the goroutine that holds the write lock. *)
notifyTxsAvailable(m) ==
    /\ panicked' = (panicked \/ m.txs.len = 0 \/ m.txs.panic)
    /\ notified' = TRUE /\ txsAvailable' = 1

CommitTx(m, x) ==
    LET t == x[1]
        seen == IF x[2] THEN Push(m, t) ELSE CacheRemove(m, t) IN
    IF m.txsMap[t] # Nil THEN removeTx(seen, t, m.txsMap[t]) ELSE seen

Blocks == UNION {[1..n -> Txs \X BOOLEAN] : n \in 0..config.Block}

(* BlockExecutor.Commit takes the write lock when no checker has the read lock. *)
Lock == ReadLocked = {} /\ update.e = Nil

(* Update, from BlockExecutor.Commit.  A block is a sequence of transactions with "DeliverTx said OK". *)
Update(block) ==
    LET m == FoldLeft(CommitTx, mem, block) IN
    /\ Lock /\ height < config.Heights
    /\ height' = height + 1
    /\ mem' = m
    /\ IF m.txs.len = 0
       THEN notified' = FALSE /\ UNCHANGED <<txsAvailable, update, panicked>>
       ELSE IF config.Recheck
       THEN /\ notified' = FALSE
            /\ update' = [e |-> m.txs.head, cursor |-> m.txs.head, end |-> m.txs.tail]
            /\ UNCHANGED <<txsAvailable, panicked>>
       ELSE notifyTxsAvailable(m) /\ UNCHANGED update
    /\ UNCHANGED <<config, chk, cast, peerHeight, sent>>

(* Mutant of Recheck: the end of the recheck is not announced. *)
RecheckSilently(ok) ==
    LET e == update.e
        m == IF ok THEN mem ELSE removeTx(mem, Value(e).tx, update.cursor)
        next == m.txs.elems[e].next IN
    /\ e # Nil
    /\ mem' = m
    /\ update' = [update EXCEPT !.e = next, !.cursor = IF @ = update.end THEN Nil ELSE next]
    /\ UNCHANGED <<height, notified, txsAvailable, config, chk, cast,
                   peerHeight, sent, panicked>>

(* One turn of recheckTxs's loop, with globalCb and resCbRecheck inside it. *)
Recheck(ok) ==
    LET e == update.e
        c == update.cursor
        bad == c # Nil /\ Value(e).tx # Value(c).tx
        m == IF c = Nil \/ ok THEN mem ELSE removeTx(mem, Value(e).tx, c)
        cursor == IF c = Nil \/ c = update.end THEN Nil ELSE m.txs.elems[c].next IN
    /\ e # Nil
    /\ mem' = m
    /\ update' = [update EXCEPT !.e = m.txs.elems[e].next, !.cursor = cursor]
    /\ IF c # Nil /\ cursor = Nil /\ m.txs.len > 0
       THEN notifyTxsAvailable(m)
       ELSE panicked' = (panicked \/ bad) /\ UNCHANGED <<notified, txsAvailable>>
    /\ UNCHANGED <<height, config, chk, cast, peerHeight, sent>>

(* The consensus goroutine takes the notification. *)
TakeTxsAvailable ==
    /\ txsAvailable = 1 /\ txsAvailable' = 0
    /\ UNCHANGED <<mem, height, notified, config, update, chk, cast,
                   peerHeight, sent, panicked>>

(*************************** broadcastTxRoutine ****************************)
Cast(p, pc, next) == cast' = [cast EXCEPT ![p] = [pc |-> pc, next |-> next]]

PickFront(p) ==
    /\ cast[p].pc = "pick" /\ mem.txs.waitClosed /\ mem.txs.head # Nil
    /\ Cast(p, "send", mem.txs.head)
    /\ UNCHANGED <<mem, height, notified, txsAvailable, config, update, chk,
                   peerHeight, sent, panicked>>

(* A peer may lag one block behind the height the transaction was added at;
   a peer that sent the transaction is not sent it.  A Send that fails is
   tried again. *)
SendTx(p) ==
    LET v == Value(cast[p].next) IN
    /\ cast[p].pc = "send"
    /\ peerHeight[p] >= 0 /\ peerHeight[p] >= v.height - 1
    /\ sent' = [sent EXCEPT ![p] = @ \cup ({v.tx} \ {t \in Txs : p \in v.senders})]
    /\ Cast(p, "wait", cast[p].next)
    /\ UNCHANGED <<mem, height, notified, txsAvailable, config, update, chk,
                   peerHeight, panicked>>

(* <-next.NextWaitChan() *)
WaitNext(p) ==
    /\ cast[p].pc = "wait" /\ mem.txs.elems[cast[p].next].nextClosed
    /\ Cast(p, "next", cast[p].next)
    /\ UNCHANGED <<mem, height, notified, txsAvailable, config, update, chk,
                   peerHeight, sent, panicked>>

(* next = next.Next() *)
GoNext(p) ==
    LET n == mem.txs.elems[cast[p].next].next IN
    /\ cast[p].pc = "next"
    /\ Cast(p, IF n = Nil THEN "pick" ELSE "send", n)
    /\ UNCHANGED <<mem, height, notified, txsAvailable, config, update, chk,
                   peerHeight, sent, panicked>>

PeerQuits(p) ==
    /\ cast[p].pc # "quit"
    /\ Cast(p, "quit", Nil)
    /\ UNCHANGED <<mem, height, notified, txsAvailable, config, update, chk,
                   peerHeight, sent, panicked>>

(* The consensus reactor learns the peer's height; external to this module. *)
PeerAdvances(p) ==
    /\ cast[p].pc # "quit" /\ peerHeight[p] < height
    /\ peerHeight' = [peerHeight EXCEPT ![p] = @ + 1]
    /\ UNCHANGED <<mem, height, notified, txsAvailable, config, update, chk,
                   cast, sent, panicked>>

Check(c) == PushCache(c) \/ (\E ok \in BOOLEAN : ResCbFirstTime(c, ok))
            \/ AddTx(c) \/ ReadNotified(c) \/ SendNotice(c)
Broadcast(p) == PickFront(p) \/ SendTx(p) \/ WaitNext(p) \/ GoNext(p)

Next ==
    \/ \E c \in config.Checkers : Check(c) \/ (\E t \in Txs, s \in config.Senders : CheckTx(c, t, s))
    \/ \E block \in Blocks : Update(block)
    \/ \E ok \in BOOLEAN : Recheck(ok)
    \/ TakeTxsAvailable
    \/ \E p \in Peers : Broadcast(p) \/ PeerQuits(p) \/ PeerAdvances(p)

Fairness ==
    /\ WF_vars(\E ok \in BOOLEAN : Recheck(ok))
    /\ WF_vars(\E c \in config.Checkers : Check(c))
    /\ \A p \in Peers : WF_vars(Broadcast(p)) /\ WF_vars(PeerAdvances(p))

Spec == Init /\ [][Next]_vars /\ Fairness

(******************************* Properties ********************************)
(* The list, the index and the byte counter agree: what the counter says is
   what the list holds, an index entry points at an element in the list, and
   a transaction in the list that the cache never forgot has its entry.  No
   goroutine panics over them: the list is asked to remove only what it holds
   and closes no channel twice, notifyTxsAvailable sees a non-empty pool, and
   a recheck's answers arrive in the order of its requests. *)
PoolIsConsistent ==
    LET live == L!Live(mem.txs) IN
    /\ ~panicked /\ ~mem.txs.panic
    /\ ToSet(L!From(mem.txs, mem.txs.head)) = live
    /\ mem.txs.len = Cardinality(live)
    /\ mem.txsBytes = MapThenSumSet(LAMBDA e : TxSize[Value(e).tx], live)
    /\ \A t \in Txs : mem.txsMap[t] # Nil =>
           mem.txsMap[t] \in live /\ Value(mem.txsMap[t]).tx = t
    /\ \A e \in live : mem.txsMap[Value(e).tx] = e \/ Value(e).tx \in mem.evicted

(* The limits can be overrun only by the checkers that were past the second
   isFull together: the pool never holds more than config.Size transactions plus one
   for every other goroutine in CheckTx. *)
OverrunIsBounded ==
    /\ mem.txs.len <= config.Size + Cardinality(config.Checkers) - 1
    /\ mem.txsBytes <= config.MaxTxsBytes + (Cardinality(config.Checkers) - 1) * config.MaxTxBytes

(* A pool that holds transactions has told consensus so since the last block:
   no order of CheckTx, Update and recheck loses the notification. *)
AvailabilityIsTold ==
    mem.txs.len > 0 /\ update.e = Nil
        /\ (\A c \in config.Checkers : chk[c].pc \notin {"notify", "send"})
    => notified

Awaits(p, t) ==
    /\ InPool(mem, t) /\ t \notin sent[p] /\ cast[p].pc # "quit"
    /\ \A e \in L!Live(mem.txs) : Value(e).tx = t => p \notin Value(e).senders

(* Every transaction in the pool is sent to every running peer that did not
   send it itself, or leaves the pool: no order of additions and removals
   makes a broadcast routine wait on a removed element or pass one over.
   Additions are finitely many, so in the end no transaction is awaited. *)
BroadcastReaches == (\E p \in Peers, t \in Txs : Awaits(p, t)) ~> (\A p \in Peers, t \in Txs : ~Awaits(p, t))
=============================================================================
