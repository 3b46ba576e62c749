------------------------------- MODULE Ticker -------------------------------
(***************************************************************************)
(* The timeout ticker (consensus/ticker.go) between the consensus          *)
(* goroutine, which schedules timeouts and handles those that fire, and    *)
(* its own goroutine, timeoutRoutine, which holds the only timer.  State's *)
(* OnStart replays the log first and starts the ticker afterwards.         *)
(*                                                                         *)
(* The places of a height, round and step at which a timeout can be        *)
(* scheduled are numbered 1, 2, ... in their order; the code compares them *)
(* in no other way.  Durations are left out: a set timer fires at any time.*)
(***************************************************************************)
EXTENDS Integers, Sequences, FiniteSets

CONSTANTS MaxPlace,             \* bound: the places the node passes
          TickTockBufferSize,   \* capacity of tickChan and of tockChan
          Records               \* bound: records of the log that are replayed

VARIABLES place,        \* where the consensus state machine is
          blocked,      \* the timeout it cannot send because tickChan is full
          scheduled,    \* history: the latest place scheduled
          replayed,     \* records replayed so far
          phase,        \* "replay", then "running"
          tickChan, tockChan,
          ti,           \* timeoutRoutine's last accepted timeout
          timer,        \* "stopped", "set" or "fired" (a value in timer.C)
          senders       \* goroutines that wait to send on tockChan

vars == <<place, blocked, scheduled, replayed, phase, tickChan, tockChan, ti,
          timer, senders>>

Places == 1..MaxPlace
Free == 0

Init ==
    /\ place = 1 /\ blocked = Free /\ scheduled = 0
    /\ replayed = 0 /\ phase = "replay"
    /\ tickChan = <<>> /\ tockChan = <<>>
    /\ ti = 0 /\ timer = "stopped" /\ senders = {}

(* ScheduleTimeout: the send waits while the channel is full. *)
ScheduleTimeout(t) ==
    /\ scheduled' = IF t > scheduled THEN t ELSE scheduled
    /\ IF Len(tickChan) < TickTockBufferSize
       THEN tickChan' = Append(tickChan, t) /\ blocked' = Free
       ELSE blocked' = t /\ UNCHANGED tickChan

(* The waiting send goes through. *)
Unblock ==
    /\ blocked # Free /\ Len(tickChan) < TickTockBufferSize
    /\ tickChan' = Append(tickChan, blocked)
    /\ blocked' = Free
    /\ UNCHANGED <<place, scheduled, replayed, phase, tockChan, ti, timer, senders>>

(* A handler moves the node on to place p and schedules its timeout, if    *)
(* the step has one.                                                       *)
Handle(p) ==
    /\ place' = p
    /\ \/ ScheduleTimeout(p)
       \/ UNCHANGED <<scheduled, tickChan, blocked>>

(* catchupReplay: a record is read and handled; it may change nothing. *)
ReplayRecord ==
    /\ phase = "replay" /\ blocked = Free /\ replayed < Records
    /\ replayed' = replayed + 1
    /\ \/ \E p \in place + 1..MaxPlace : Handle(p)
       \/ UNCHANGED <<place, scheduled, tickChan, blocked>>
    /\ UNCHANGED <<phase, tockChan, ti, timer, senders>>

(* The end of the log: OnStart starts timeoutRoutine and receiveRoutine,   *)
(* then scheduleRound0 schedules the first place of the height.            *)
StartRoutines ==
    /\ phase = "replay" /\ blocked = Free
    /\ phase' = "running"
    /\ ScheduleTimeout(1)
    /\ UNCHANGED <<place, replayed, tockChan, ti, timer, senders>>

(* receiveRoutine: a message moves the node on. *)
ReceiveMsg ==
    /\ phase = "running" /\ blocked = Free
    /\ \E p \in place + 1..MaxPlace : Handle(p)
    /\ UNCHANGED <<replayed, phase, tockChan, ti, timer, senders>>

(* handleTxsAvailable in RoundStepNewHeight schedules the timeout of the   *)
(* next step; the mempool notifies once in a height.                       *)
ReceiveTxsAvailable ==
    /\ phase = "running" /\ blocked = Free /\ place = 1 /\ scheduled <= 1
    /\ ScheduleTimeout(2)
    /\ UNCHANGED <<place, replayed, phase, tockChan, ti, timer, senders>>

(* receiveRoutine: handleTimeout ignores what the node has passed; any     *)
(* other timeout moves it on, past the end of the model at the last place. *)
ReceiveTimeout ==
    /\ phase = "running" /\ blocked = Free /\ tockChan # <<>>
    /\ tockChan' = Tail(tockChan)
    /\ IF Head(tockChan) < place
       THEN UNCHANGED <<place, scheduled, tickChan, blocked>>
       ELSE IF Head(tockChan) = MaxPlace
       THEN place' = MaxPlace + 1 /\ UNCHANGED <<scheduled, tickChan, blocked>>
       ELSE Handle(Head(tockChan) + 1)
    /\ UNCHANGED <<replayed, phase, ti, timer, senders>>

(* Mutant of Tick: a timeout is also replaced by one of an earlier place. *)
TickAny ==
    /\ phase = "running" /\ tickChan # <<>>
    /\ tickChan' = Tail(tickChan)
    /\ ti' = Head(tickChan) /\ timer' = "set"
    /\ UNCHANGED <<place, blocked, scheduled, replayed, phase, tockChan, senders>>

(* Mutant of Tick: the timer is stopped but not set again. *)
TickStops ==
    /\ phase = "running" /\ tickChan # <<>>
    /\ tickChan' = Tail(tickChan)
    /\ IF Head(tickChan) <= ti
       THEN UNCHANGED <<ti, timer>>
       ELSE ti' = Head(tickChan) /\ timer' = "stopped"
    /\ UNCHANGED <<place, blocked, scheduled, replayed, phase, tockChan, senders>>

(* timeoutRoutine: a tick that is not later than the last one is dropped;  *)
(* any other stops the timer, empties timer.C and sets it again.           *)
Tick ==
    /\ phase = "running" /\ tickChan # <<>>
    /\ tickChan' = Tail(tickChan)
    /\ IF Head(tickChan) <= ti
       THEN UNCHANGED <<ti, timer>>
       ELSE ti' = Head(tickChan) /\ timer' = "set"
    /\ UNCHANGED <<place, blocked, scheduled, replayed, phase, tockChan, senders>>

(* The timer runs out. *)
Expire ==
    /\ timer = "set"
    /\ timer' = "fired"
    /\ UNCHANGED <<place, blocked, scheduled, replayed, phase, tickChan,
                   tockChan, ti, senders>>

(* timeoutRoutine: <-timer.C starts a goroutine that sends ti. *)
TimedOut ==
    /\ phase = "running" /\ timer = "fired"
    /\ timer' = "stopped"
    /\ senders' = senders \cup {ti}
    /\ UNCHANGED <<place, blocked, scheduled, replayed, phase, tickChan, tockChan, ti>>

(* Such a goroutine sends; several of them do so in any order. *)
Tock(t) ==
    /\ t \in senders /\ Len(tockChan) < TickTockBufferSize
    /\ senders' = senders \ {t}
    /\ tockChan' = Append(tockChan, t)
    /\ UNCHANGED <<place, blocked, scheduled, replayed, phase, tickChan, ti, timer>>

Next ==
    \/ Unblock \/ ReplayRecord \/ StartRoutines \/ ReceiveMsg
    \/ ReceiveTxsAvailable \/ ReceiveTimeout
    \/ Tick \/ Expire \/ TimedOut
    \/ \E t \in Places : Tock(t)

(* Goroutines that can go on do, and a timer that is set runs out.  No     *)
(* message need arrive.                                                    *)
Fairness ==
    /\ WF_vars(Unblock) /\ WF_vars(ReplayRecord) /\ WF_vars(StartRoutines)
    /\ WF_vars(ReceiveTimeout)
    /\ WF_vars(Tick) /\ WF_vars(Expire) /\ WF_vars(TimedOut)
    /\ \A t \in Places : WF_vars(Tock(t))

Spec == Init /\ [][Next]_vars /\ Fairness

-----------------------------------------------------------------------------

(* The latest timeout that was scheduled is somewhere on its way (waiting  *)
(* to be sent, in a channel, in the timer) unless the node is past it:     *)
(* neither an earlier timeout nor a race of timer and reset swallows it.   *)
LatestIsPending ==
    scheduled >= place =>
       \/ blocked = scheduled
       \/ \E i \in DOMAIN tickChan : tickChan[i] = scheduled
       \/ ti = scheduled /\ timer # "stopped"
       \/ scheduled \in senders
       \/ \E i \in DOMAIN tockChan : tockChan[i] = scheduled

(* A node that has scheduled a timeout leaves the place, be it that no     *)
(* message arrives any more.                                               *)
TimeoutsMove ==
    place <= scheduled ~> place > scheduled

(* The replay of the log comes to an end and consensus starts. *)
ReplayEnds == <>(phase = "running")
=============================================================================
