------------------------------- MODULE MCNode -------------------------------
(***************************************************************************)
(* Four parts of one node that keep their own state, for TLC: a behaviour  *)
(* is one of the signer, of the timeout ticker, of the mempool, or of the  *)
(* trust evaluation with the application's validator updates.              *)
(***************************************************************************)
EXTENDS PrivValidator, FiniteSets, TLC

CONSTANTS a, b, p, q, rpc, self, None

VARIABLES
    part,                   \* which of the modules the behaviour is of
    \* Ticker
    place, blocked, scheduled, replayed, tickerPhase, tickChan, tockChan, ti, timer,
    senders,
    \* Mempool
    mem, height, notified, txsAvailable, config, update, chk, cast, peerHeight,
    sent, panicked,
    \* Trust
    trustHeight, noticed, entries, collect, byzantines, whistling, trustAsked, notices,
    evals, sending, valUpdates, endBlock, response, validators, evaluated, used, steady,
    trustPanicked

tickerVars == <<place, blocked, scheduled, replayed, tickerPhase, tickChan, tockChan, ti,
                timer, senders>>
mempoolVars == <<mem, height, notified, txsAvailable, config, update, chk, cast,
                 peerHeight, sent, panicked>>
evaluationVars == <<trustHeight, noticed, entries, collect, byzantines, whistling,
                    trustAsked, notices, evals, sending, valUpdates, endBlock, response,
                    validators, evaluated, used, steady, trustPanicked>>

Ticker == INSTANCE Ticker WITH
    MaxPlace <- 4, TickTockBufferSize <- 2, Records <- 2, phase <- tickerPhase

----------------------------------------------------------------------------
(* Two checkers on a pool and a cache that hold one transaction, without   *)
(* broadcast; and one checker with a broadcast routine, with the list three*)
(* elements long or with a recheck.                                        *)

Limits(size, bytes, cache) ==
    [Size |-> size, MaxTxsBytes |-> bytes, MaxTxBytes |-> 2, CacheSize |-> cache, Block |-> 1]

Configs ==
    {Limits(1, 3, 1) @@
     [Recheck |-> r, Broadcast |-> FALSE, Checkers |-> {1, 2}, Senders |-> {rpc},
      Adds |-> 3, Heights |-> 2] : r \in BOOLEAN}
    \cup
    {Limits(2, 4, 2) @@
     [Recheck |-> FALSE, Broadcast |-> TRUE, Checkers |-> {1}, Senders |-> {rpc},
      Adds |-> 3, Heights |-> 2],
     Limits(2, 4, 2) @@
     [Recheck |-> TRUE, Broadcast |-> TRUE, Checkers |-> {1}, Senders |-> {rpc, p},
      Adds |-> 2, Heights |-> 1]}

Mempool == INSTANCE Mempool WITH
    Txs <- {a, b}, TxSize <- (a :> 1) @@ (b :> 2), Peers <- {p}

(* Two evaluations at two heights, with peers that may connect again. *)
Trust == INSTANCE Trust WITH
    Self <- self, Peers <- {p, q}, MaxHeight <- 2, MaxNotices <- 2, MaxConnections <- 2,
    height <- trustHeight, asked <- trustAsked, panicked <- trustPanicked

----------------------------------------------------------------------------
(* The parts that a behaviour is not about stay in an initial state. *)
MCInit ==
    /\ part \in {"signer", "ticker", "mempool", "trust"}
    /\ Init /\ Ticker!Init /\ Mempool!Init /\ Trust!Init
    /\ part # "mempool" => config = CHOOSE c \in Configs : ~c.Broadcast

MCNext ==
    \/ part = "signer" /\ Next
           /\ UNCHANGED <<part, tickerVars, mempoolVars, evaluationVars>>
    \/ part = "ticker" /\ Ticker!Next
           /\ UNCHANGED <<part, vars, mempoolVars, evaluationVars>>
    \/ part = "mempool" /\ Mempool!Next
           /\ UNCHANGED <<part, vars, tickerVars, evaluationVars>>
    \/ part = "trust" /\ Trust!Next
           /\ UNCHANGED <<part, vars, tickerVars, mempoolVars>>

(* The fairness of Ticker and Mempool, each in its own behaviours. *)
MCFairness ==
    /\ WF_tickerVars(part = "ticker" /\ Ticker!Unblock)
    /\ WF_tickerVars(part = "ticker" /\ Ticker!ReplayRecord)
    /\ WF_tickerVars(part = "ticker" /\ Ticker!StartRoutines)
    /\ WF_tickerVars(part = "ticker" /\ Ticker!ReceiveTimeout)
    /\ WF_tickerVars(part = "ticker" /\ Ticker!Tick)
    /\ WF_tickerVars(part = "ticker" /\ Ticker!Expire)
    /\ WF_tickerVars(part = "ticker" /\ Ticker!TimedOut)
    /\ \A t \in Ticker!Places : WF_tickerVars(part = "ticker" /\ Ticker!Tock(t))
    /\ WF_mempoolVars(part = "mempool" /\ \E ok \in BOOLEAN : Mempool!Recheck(ok))
    /\ WF_mempoolVars(part = "mempool" /\ \E c \in config.Checkers : Mempool!Check(c))
    /\ WF_mempoolVars(part = "mempool" /\ Mempool!Broadcast(p))
    /\ WF_mempoolVars(part = "mempool" /\ Mempool!PeerAdvances(p))

MCSpec ==
    /\ MCInit
    /\ [][MCNext]_<<part, vars, tickerVars, mempoolVars, evaluationVars>>
    /\ MCFairness

----------------------------------------------------------------------------
(* The latest timeout that consensus scheduled is never forgotten, and     *)
(* every place it waits at is left (Ticker).                               *)
LatestIsPending == part = "ticker" => Ticker!LatestIsPending
TimeoutsMove == Ticker!TimeoutsMove

(* Mempool: the list, the index and the byte counter agree; the limits are *)
(* overrun by as many transactions as there are other checkers; consensus  *)
(* is told of a pool with transactions; every transaction reaches every    *)
(* peer.                                                                   *)
PoolIsConsistent == part = "mempool" => Mempool!PoolIsConsistent
OverrunIsBounded == part = "mempool" => Mempool!OverrunIsBounded
AvailabilityIsTold == part = "mempool" => Mempool!AvailabilityIsTold
BroadcastReaches == Mempool!BroadcastReaches

(* Trust: while the byzantines found stay the lowest, the powers sum to the*)
(* total; the updates of an evaluation are used once.                      *)
SteadyKeepsTotal == part = "trust" => Trust!SteadyKeepsTotal
UpdatesAreUsedOnce == part = "trust" => Trust!UpdatesAreUsedOnce
=============================================================================
