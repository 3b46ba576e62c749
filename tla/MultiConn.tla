------------------------------ MODULE MultiConn ------------------------------
(***************************************************************************)
(* One direction of a connection between two nodes: the channels, the      *)
(* sendRoutine and the ping timer of gossip/connection.go at one end with  *)
(* the ThrottleTimer of libs/timer, and the recvRoutine at the other.      *)
(*                                                                         *)
(* A message is a sequence of payloads, each as large as a packet can take.*)
(* Packets of several channels are mixed on the wire in the order of the   *)
(* channels' recent traffic and priorities, and wait in the write buffer   *)
(* until the throttle timer or a ping flushes it.                          *)
(***************************************************************************)
EXTENDS Integers, Sequences, FiniteSets

CONSTANTS
    Priority,       \* ChannelDescriptor.Priority of the channels 1, 2, ...
    QueueCapacity,  \* ChannelDescriptor.SendQueueCapacity
    RecvCapacity,   \* ChannelDescriptor.RecvMessageCapacity, in packets
    Instances,      \* what may happen on a connection: the messages given to
                    \* it and their lengths in packets, the ticks of pingTicker,
                    \* and whether the other end has gone without closing it
    NumBatch        \* numBatchPacketMsgs

VARIABLES
    sendQueue, sending, recentlySent,   \* Channel, at the sending end
    sendSignal,     \* the channel of that name, of capacity one
    callers,        \* calls of Send that have queued and not yet signalled
    pc, batch,      \* sendRoutine, and the packets left in its batch
    isSet, timer,   \* ThrottleTimer
    bufConnWriter, wire,
    recving, received,                  \* Channel, at the receiving end
    accepted,       \* the messages for which Send has returned true
    pings, pongTimer, pongTimeoutCh, pongs,
    inst,           \* one of Instances
    isRunning

connVars == <<sendQueue, sending, recentlySent, sendSignal, callers, pc, batch,
              isSet, timer, bufConnWriter, wire, recving, received, accepted,
              pings, pongTimer, pongTimeoutCh, pongs, inst, isRunning>>
channelVars == <<sendQueue, sending, recentlySent, accepted>>
timerVars == <<isSet, timer>>
recvVars == <<recving, received>>
pingVars == <<pings, pongTimer, pongTimeoutCh, pongs>>

Channels == DOMAIN Priority
Ping == [channel |-> 0, data |-> <<>>, eof |-> TRUE]

Init ==
    /\ sendQueue = [c \in Channels |-> <<>>]
    /\ sending = [c \in Channels |-> <<>>]
    /\ recentlySent = [c \in Channels |-> 0]
    /\ sendSignal = FALSE /\ callers = 0
    /\ pc = "select" /\ batch = 0
    /\ isSet = FALSE /\ timer = "off"
    /\ bufConnWriter = <<>> /\ wire = <<>>
    /\ recving = [c \in Channels |-> <<>>]
    /\ received = [c \in Channels |-> <<>>]
    /\ accepted = [c \in Channels |-> <<>>]
    /\ pings = 0 /\ pongTimer = FALSE /\ pongTimeoutCh = "empty" /\ pongs = 0
    /\ inst \in Instances
    /\ isRunning = TRUE

----------------------------------------------------------------------------
(* Send and TrySend: the message is queued if there is room, and then the  *)
(* sendRoutine is woken.  Without room the call changes nothing.           *)

NumAccepted == LET Count[n \in 0..Len(Priority)] ==
                       IF n = 0 THEN 0 ELSE Len(accepted[n]) + Count[n - 1]
               IN Count[Len(Priority)]

sendBytes(c, length) ==
    LET m == [i \in 1..length |-> <<NumAccepted + 1, i>>]
    IN /\ isRunning /\ NumAccepted < inst.messages
       /\ Len(sendQueue[c]) < QueueCapacity
       /\ sendQueue' = [sendQueue EXCEPT ![c] = Append(@, m)]
       /\ accepted' = [accepted EXCEPT ![c] = Append(@, m)]
       /\ callers' = callers + 1
       /\ UNCHANGED <<sending, recentlySent, sendSignal, pc, batch, timerVars, bufConnWriter,
                      wire, recvVars, pingVars, inst, isRunning>>

Signal ==
    /\ callers > 0
    /\ callers' = callers - 1
    /\ sendSignal' = TRUE
    /\ UNCHANGED <<channelVars, pc, batch, timerVars, bufConnWriter, wire, recvVars,
                   pingVars, inst, isRunning>>

----------------------------------------------------------------------------
(* sendRoutine *)

(* The routine waits in its select.  Once the service has stopped it ends. *)
Selecting == pc = "select" /\ isRunning

flush ==
    /\ wire' = wire \o bufConnWriter
    /\ bufConnWriter' = <<>>

(* Mutant of fireRoutine: a timer that finds nobody waiting is not set     *)
(* again.                                                                  *)
fireOnce ==
    /\ timer = "running" /\ isRunning
    /\ IF pc = "select" THEN timer' = "fired" /\ pc' = "flush"
       ELSE timer' = "off" /\ UNCHANGED pc
    /\ UNCHANGED <<channelVars, sendSignal, callers, batch, isSet, bufConnWriter, wire,
                   recvVars, pingVars, inst, isRunning>>

(* ThrottleTimer.fireRoutine.  It has the timer's mutex from here until    *)
(* unsetTimer; if sendRoutine is not in its select the timer is set again. *)
fireRoutine ==
    /\ timer = "running" /\ isRunning
    /\ IF pc = "select" THEN timer' = "fired" /\ pc' = "flush"
       ELSE UNCHANGED <<timer, pc>>
    /\ UNCHANGED <<channelVars, sendSignal, callers, batch, isSet, bufConnWriter, wire,
                   recvVars, pingVars, inst, isRunning>>

unsetTimer ==
    /\ timer = "fired"
    /\ isSet' = FALSE /\ timer' = "off"
    /\ UNCHANGED <<channelVars, sendSignal, callers, pc, batch, bufConnWriter, wire,
                   recvVars, pingVars, inst, isRunning>>

Flush ==
    /\ pc = "flush"
    /\ flush
    /\ pc' = "select"
    /\ UNCHANGED <<channelVars, sendSignal, callers, batch, timerVars, recvVars,
                   pingVars, inst, isRunning>>

(* Multiplicative decay of recentlySent by 0.8, rounded down. *)
updateStats ==
    /\ Selecting
    /\ recentlySent' = [c \in Channels |-> (recentlySent[c] * 8) \div 10]
    /\ UNCHANGED <<sendQueue, sending, accepted, sendSignal, callers, pc, batch, timerVars,
                   bufConnWriter, wire, recvVars, pingVars, inst, isRunning>>

sendSomePacketMsgs ==
    /\ Selecting /\ sendSignal
    /\ sendSignal' = FALSE
    /\ pc' = "send" /\ batch' = NumBatch
    /\ UNCHANGED <<channelVars, callers, timerVars, bufConnWriter, wire, recvVars,
                   pingVars, inst, isRunning>>

(* isSendPending, called for every channel, takes the next message of the  *)
(* queue when the last one is out.                                         *)
Pulled(c) == IF sending[c] = <<>> /\ sendQueue[c] # <<>> THEN Head(sendQueue[c]) ELSE sending[c]
Unpulled(c) == IF sending[c] = <<>> /\ sendQueue[c] # <<>> THEN Tail(sendQueue[c]) ELSE sendQueue[c]

Pending == {c \in Channels : Pulled(c) # <<>>}

(* The channel with the least recentlySent for its priority, the first of  *)
(* several.                                                                *)
leastChannel ==
    CHOOSE c \in Pending : \A d \in Pending \ {c} :
        LET mine == recentlySent[c] * Priority[d]
            other == recentlySent[d] * Priority[c]
        IN mine < other \/ (mine = other /\ c < d)

(* nextPacketMsg of the channel. *)
nextPacketMsg(c) ==
    [channel |-> c, data |-> <<Head(Pulled(c))>>, eof |-> Len(Pulled(c)) = 1]

(* sendPacketMsg: one packet goes into the write buffer, or there is none  *)
(* and the routine returns to its select.                                  *)
sendPacketMsg ==
    /\ pc = "send"
    /\ sendQueue' = [c \in Channels |-> Unpulled(c)]
    /\ IF Pending = {}
       THEN /\ pc' = "select" /\ batch' = 0
            /\ UNCHANGED <<sending, recentlySent, bufConnWriter>>
       ELSE LET least == leastChannel
            IN /\ bufConnWriter' = Append(bufConnWriter, nextPacketMsg(least))
               /\ sending' = [c \in Channels |-> IF c = least THEN Tail(Pulled(c)) ELSE Pulled(c)]
               /\ recentlySent' = [recentlySent EXCEPT ![least] = @ + 1]
               /\ pc' = "set"
               /\ UNCHANGED batch
    /\ UNCHANGED <<accepted, sendSignal, callers, timerVars, wire, recvVars, pingVars,
                   inst, isRunning>>

(* ThrottleTimer.Set, which waits for the mutex, and the next packet of the*)
(* batch; at the end of a batch the routine wakes itself again.            *)
Set ==
    /\ pc = "set" /\ timer # "fired"
    /\ isSet' = TRUE
    /\ timer' = IF isSet THEN timer ELSE "running"
    /\ batch' = batch - 1
    /\ IF batch = 1 THEN pc' = "select" /\ sendSignal' = TRUE
       ELSE pc' = "send" /\ UNCHANGED sendSignal
    /\ UNCHANGED <<channelVars, callers, bufConnWriter, wire, recvVars, pingVars,
                   inst, isRunning>>

----------------------------------------------------------------------------
(* Pings.  PongTimeout is less than PingInterval, so the timer of the last *)
(* ping has fired or been stopped at the next tick.                        *)

pingTick ==
    /\ Selecting /\ pings < inst.pings /\ ~pongTimer
    /\ wire' = wire \o Append(bufConnWriter, Ping)
    /\ bufConnWriter' = <<>>
    /\ pings' = pings + 1 /\ pongTimer' = TRUE
    /\ UNCHANGED <<channelVars, sendSignal, callers, pc, batch, timerVars, recvVars,
                   pongTimeoutCh, pongs, inst, isRunning>>

Push(v) == pongTimeoutCh' = IF pongTimeoutCh = "empty" THEN v ELSE pongTimeoutCh

(* The function of time.AfterFunc. *)
pongTimeout ==
    /\ pongTimer
    /\ pongTimer' = FALSE
    /\ Push("timeout")
    /\ UNCHANGED <<channelVars, sendSignal, callers, pc, batch, timerVars, bufConnWriter,
                   wire, recvVars, pings, pongs, inst, isRunning>>

(* recvRoutine, at the end that sent the ping, is given the pong. *)
receivePong ==
    /\ pongs > 0
    /\ pongs' = pongs - 1
    /\ Push("pong")
    /\ UNCHANGED <<channelVars, sendSignal, callers, pc, batch, timerVars, bufConnWriter,
                   wire, recvVars, pings, pongTimer, inst, isRunning>>

(* The select's case of pongTimeoutCh: stopForError after a timeout, and   *)
(* otherwise stopPongTimer, which is a step of its own: the timer may fire *)
(* before it.                                                              *)
pongCase ==
    /\ Selecting /\ pongTimeoutCh # "empty"
    /\ pongTimeoutCh' = "empty"
    /\ IF pongTimeoutCh = "timeout" THEN isRunning' = FALSE /\ UNCHANGED pc
       ELSE pc' = "stopPongTimer" /\ UNCHANGED isRunning
    /\ UNCHANGED <<channelVars, sendSignal, callers, batch, timerVars, bufConnWriter,
                   wire, recvVars, pings, pongTimer, pongs, inst>>

stopPongTimer ==
    /\ pc = "stopPongTimer"
    /\ pc' = "select" /\ pongTimer' = FALSE
    /\ UNCHANGED <<channelVars, sendSignal, callers, batch, timerVars, bufConnWriter,
                   wire, recvVars, pings, pongTimeoutCh, pongs, inst, isRunning>>

----------------------------------------------------------------------------
(* recvRoutine of the other end *)

(* Mutant of recvPacketMsg: the buffer is not emptied after a message. *)
recvKeeps(p) ==
    LET c == p.channel
        got == recving[c] \o p.data
    IN /\ recving' = [recving EXCEPT ![c] = got]
       /\ received' = IF p.eof THEN [received EXCEPT ![c] = Append(@, got)] ELSE received
       /\ UNCHANGED isRunning

(* recvPacketMsg: a message too long for the channel ends the connection,  *)
(* the last packet completes a message.                                    *)
recvPacketMsg(p) ==
    LET c == p.channel
        got == recving[c] \o p.data
    IN IF Len(got) > RecvCapacity
       THEN isRunning' = FALSE /\ UNCHANGED recvVars
       ELSE /\ recving' = [recving EXCEPT ![c] = IF p.eof THEN <<>> ELSE got]
            /\ received' = IF p.eof THEN [received EXCEPT ![c] = Append(@, got)] ELSE received
            /\ UNCHANGED isRunning

recvRoutine ==
    /\ isRunning /\ ~inst.silent /\ wire # <<>>
    /\ wire' = Tail(wire)
    /\ IF Head(wire) = Ping
       THEN pongs' = pongs + 1 /\ UNCHANGED <<recvVars, isRunning>>
       ELSE recvPacketMsg(Head(wire)) /\ UNCHANGED pongs
    /\ UNCHANGED <<channelVars, sendSignal, callers, pc, batch, timerVars, bufConnWriter,
                   pings, pongTimer, pongTimeoutCh, inst>>

----------------------------------------------------------------------------
sendRoutine ==
    \/ Flush \/ sendSomePacketMsgs \/ sendPacketMsg \/ Set
    \/ pongCase \/ stopPongTimer

Next ==
    \/ \E c \in Channels, length \in inst.lengths : sendBytes(c, length)
    \/ Signal \/ sendRoutine \/ updateStats
    \/ fireRoutine \/ unsetTimer
    \/ pingTick \/ pongTimeout \/ receivePong
    \/ recvRoutine

Spec == Init /\ [][Next]_connVars

(* Goroutines run, timers fire and tickers tick, and the other end reads   *)
(* what is on the wire unless it has gone silent.  Go's select takes a case*)
(* that stays ready in the end, so the cases of sendRoutine are fair one by*)
(* one; nothing is assumed of updateStats, nor of the callers of Send.     *)
FairSpec ==
    /\ Spec
    /\ WF_connVars(Signal) /\ WF_connVars(fireRoutine) /\ WF_connVars(unsetTimer)
    /\ WF_connVars(Flush \/ sendPacketMsg \/ Set \/ stopPongTimer)
    /\ WF_connVars(sendSomePacketMsgs) /\ WF_connVars(pongCase)
    /\ WF_connVars(pingTick) /\ WF_connVars(pongTimeout) /\ WF_connVars(receivePong)
    /\ WF_connVars(recvRoutine)

----------------------------------------------------------------------------
(* Each channel delivers the messages it took, whole and in their order,   *)
(* whatever packets of other channels come between theirs (nextPacketMsg,  *)
(* recvPacketMsg).                                                         *)
DeliversInOrder ==
    \A c \in Channels : \E n \in 0..Len(accepted[c]) : received[c] = SubSeq(accepted[c], 1, n)

(* A message that Send has taken arrives, unless the connection stops: no  *)
(* wake-up of sendRoutine is lost between Send and the batches, and no     *)
(* packet stays in the write buffer because Set found the throttle timer   *)
(* set while it was firing.                                                *)
AcceptedArrives ==
    accepted # received ~> (accepted = received \/ ~isRunning)
=============================================================================
