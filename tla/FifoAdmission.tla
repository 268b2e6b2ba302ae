---------------------------- MODULE FifoAdmission ----------------------------
(***************************************************************************)
(* What the admission scheduler of serve mode promises, without tickets,   *)
(* condition variables or wake-ups: one holder of the model at a time, a   *)
(* bounded first-in first-out queue in front of it, a stop after which     *)
(* nobody is admitted, and refusals only for those two reasons.            *)
(* ServeScheduler implements it.                                           *)
(***************************************************************************)
EXTENDS Naturals, Sequences

CONSTANTS Threads, MaxWaiting

VARIABLES queue,    \* the requests waiting, first come first
          holding,  \* the requests that have the model
          stopped,
          refused   \* why each thread was last turned away: "no", "full", "shutdown"

fifoVars == <<queue, holding, stopped, refused>>

Waiting(t) == \E i \in 1 .. Len(queue) : queue[i] = t
Involved(t) == t \in holding \/ Waiting(t)

Init ==
    /\ queue = <<>> /\ holding = {} /\ stopped = FALSE
    /\ refused = [t \in Threads |-> "no"]

TurnsAway(t, reason) == refused' = [refused EXCEPT ![t] = reason]

\* A request that finds nobody in front of it gets the model at once; behind
\* others it queues, if there is room.
Arrive(t) ==
    /\ ~stopped /\ ~Involved(t)
    /\ IF holding = {} /\ queue = <<>>
       THEN holding' = {t} /\ queue' = queue
       ELSE /\ Len(queue) < MaxWaiting
            /\ queue' = Append(queue, t) /\ holding' = holding
    /\ TurnsAway(t, "no")
    /\ UNCHANGED stopped

\* A request is turned away behind a full queue, or because of the stop.
Refuse(t) ==
    /\ ~Involved(t)
    /\ \/ stopped /\ TurnsAway(t, "shutdown")
       \/ /\ ~stopped /\ (holding # {} \/ queue # <<>>) /\ Len(queue) >= MaxWaiting
          /\ TurnsAway(t, "full")
    /\ UNCHANGED <<queue, holding, stopped>>

Serve ==
    /\ ~stopped /\ holding = {} /\ queue # <<>>
    /\ holding' = {Head(queue)} /\ queue' = Tail(queue)
    /\ UNCHANGED <<stopped, refused>>

Finish ==
    /\ holding # {}
    /\ holding' = {}
    /\ UNCHANGED <<queue, stopped, refused>>

Stop == stopped' = TRUE /\ UNCHANGED <<queue, holding, refused>>

\* After the stop the requests leave the queue, in any order.
Dismiss(t) ==
    /\ stopped
    /\ \E i \in 1 .. Len(queue) :
        /\ queue[i] = t
        /\ queue' = SubSeq(queue, 1, i - 1) \o SubSeq(queue, i + 1, Len(queue))
    /\ TurnsAway(t, "shutdown")
    /\ UNCHANGED <<holding, stopped>>

Next ==
    \/ \E t \in Threads : Arrive(t) \/ Refuse(t)
    \/ Serve
    \/ Finish
    \/ Stop
    \/ \E t \in Threads : Dismiss(t)

Spec == Init /\ [][Next]_fifoVars
=============================================================================
