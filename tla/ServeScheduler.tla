--------------------------- MODULE ServeScheduler ---------------------------
(***************************************************************************)
(* ServeScheduler of src/qwen36b.c: tickets behind a mutex and a condition *)
(* variable.  A connection thread acquires the model before it touches it  *)
(* and releases it afterwards; POST /v1/shutdown stops the scheduler.      *)
(*                                                                         *)
(* Each critical section is one action.  A thread inside pthread_cond_wait *)
(* is "asleep"; a broadcast, or a spurious wake-up, makes it "woken", and  *)
(* when it has the mutex again it rechecks its condition.                  *)
(***************************************************************************)
EXTENDS Naturals, FiniteSets

CONSTANTS
    Threads,     \* connection threads
    MaxWaiting,  \* scheduler->max_waiting (--serve's queue size)
    MaxTickets   \* bound of the model: tickets handed out (2^64 in the code)

ASSUME SchedulerAssumption ==
    /\ IsFiniteSet(Threads)
    /\ MaxWaiting \in Nat
    /\ MaxTickets \in Nat

VARIABLES
    next_ticket, serving_ticket, active, waiting, stopping,  \* the struct
    at,      \* where thread t is: outside, in the queue, or what it was told
    ticket   \* the local of serve_scheduler_acquire

schedVars == <<next_ticket, serving_ticket, active, waiting, stopping, at, ticket>>

Places == {"out", "asleep", "woken", "admitted", "full", "shutdown"}
Queued == {t \in Threads : at[t] \in {"asleep", "woken"}}
Admitted == {t \in Threads : at[t] = "admitted"}

SchedInit ==
    /\ next_ticket = 0 /\ serving_ticket = 0
    /\ active = FALSE /\ waiting = 0 /\ stopping = FALSE
    /\ at = [t \in Threads |-> "out"]
    /\ ticket = [t \in Threads |-> 0]

\* Fault: the loop looks at the holder only, not at the turn.
MustWaitForHolder(n) == active

\* The test of the wait loop, once for a new ticket and once per wake-up.
MustWait(n) == active \/ n # serving_ticket

\* Fault: the place of the caller itself is counted.
QueueFullWithCaller == (active \/ waiting > 0) /\ waiting + 1 >= MaxWaiting
QueueFull == (active \/ waiting > 0) /\ waiting >= MaxWaiting

\* serve_scheduler_acquire up to its first wait, or to its return.
Acquire(t) ==
    /\ at[t] \in {"out", "full", "shutdown"}
    /\ IF stopping
       THEN /\ at' = [at EXCEPT ![t] = "shutdown"]
            /\ UNCHANGED <<next_ticket, serving_ticket, active, waiting, ticket>>
       ELSE IF QueueFull
       THEN /\ at' = [at EXCEPT ![t] = "full"]
            /\ UNCHANGED <<next_ticket, serving_ticket, active, waiting, ticket>>
       ELSE /\ next_ticket < MaxTickets
            /\ next_ticket' = next_ticket + 1
            /\ ticket' = [ticket EXCEPT ![t] = next_ticket]
            /\ IF MustWait(next_ticket)
               THEN /\ at' = [at EXCEPT ![t] = "asleep"]
                    /\ waiting' = waiting + 1
                    /\ UNCHANGED <<active, serving_ticket>>
               ELSE /\ at' = [at EXCEPT ![t] = "admitted"]
                    /\ active' = TRUE /\ serving_ticket' = serving_ticket + 1
                    /\ UNCHANGED waiting
    /\ UNCHANGED stopping

\* A woken thread has the mutex again: the rest of serve_scheduler_acquire.
Recheck(t) ==
    /\ at[t] = "woken"
    /\ IF stopping
       THEN /\ at' = [at EXCEPT ![t] = "shutdown"]
            /\ waiting' = waiting - 1
            /\ UNCHANGED <<active, serving_ticket>>
       ELSE IF MustWait(ticket[t])
       THEN /\ at' = [at EXCEPT ![t] = "asleep"]
            /\ UNCHANGED <<active, serving_ticket, waiting>>
       ELSE /\ at' = [at EXCEPT ![t] = "admitted"]
            /\ waiting' = waiting - 1
            /\ active' = TRUE /\ serving_ticket' = serving_ticket + 1
    /\ UNCHANGED <<next_ticket, stopping, ticket>>

\* Fault: pthread_cond_signal, which wakes one waiter of its own choice.
WakeOne(where) ==
    LET asleep == {t \in Threads : where[t] = "asleep"}
        woken == CHOOSE t \in Threads : asleep # {} => t \in asleep
    IN  IF asleep = {} THEN where ELSE [where EXCEPT ![woken] = "woken"]

\* pthread_cond_broadcast, given where the threads are otherwise.
WakeAll(where) ==
    [t \in Threads |-> IF where[t] = "asleep" THEN "woken" ELSE where[t]]

\* serve_scheduler_release.
Release(t) ==
    /\ at[t] = "admitted"
    /\ active' = FALSE
    /\ at' = WakeAll([at EXCEPT ![t] = "out"])
    /\ UNCHANGED <<next_ticket, serving_ticket, waiting, stopping, ticket>>

\* The critical section of POST /v1/shutdown.
Stop ==
    /\ stopping' = TRUE
    /\ at' = WakeAll(at)
    /\ UNCHANGED <<next_ticket, serving_ticket, active, waiting, ticket>>

\* pthread_cond_wait may return without a broadcast.
SpuriousWake(t) ==
    /\ at[t] = "asleep"
    /\ at' = [at EXCEPT ![t] = "woken"]
    /\ UNCHANGED <<next_ticket, serving_ticket, active, waiting, stopping, ticket>>

SchedNext ==
    \/ \E t \in Threads : Acquire(t) \/ Recheck(t) \/ Release(t) \/ SpuriousWake(t)
    \/ Stop

SchedSpec == SchedInit /\ [][SchedNext]_schedVars

\* Woken threads get the mutex, and whoever has the model gives it back.  The second
\* is owed by the handlers, not by the scheduler: SamosaServe shows when they pay it,
\* and that one whose client stops reading does not.  Nothing is assumed of arrivals,
\* shutdown or spurious wake-ups.
SchedFairness == \A t \in Threads : WF_schedVars(Recheck(t)) /\ WF_schedVars(Release(t))
SchedFairSpec == SchedSpec /\ SchedFairness

-----------------------------------------------------------------------------
(* Properties.                                                             *)

\* Every variable keeps its type.
SchedTypeOK ==
    /\ next_ticket \in 0 .. MaxTickets /\ serving_ticket \in 0 .. MaxTickets
    /\ active \in BOOLEAN /\ stopping \in BOOLEAN
    /\ waiting \in Nat
    /\ at \in [Threads -> Places]
    /\ ticket \in [Threads -> Nat]

\* One turn at a time: the active flag says whether somebody has the model, and
\* never two have it.
OneAtATime ==
    /\ active <=> Admitted # {}
    /\ \A s, t \in Admitted : s = t

\* The counter the queue bound and /healthz read counts the threads that wait,
\* and stays within the bound.
QueueBounded == waiting = Cardinality(Queued) /\ waiting <= MaxWaiting

\* The waiting threads hold exactly the tickets that are still to be served, one
\* each: no ticket is skipped, so the queue cannot stall on a missing one.
TicketsAreTheQueue ==
    ~stopping =>
        /\ {ticket[t] : t \in Queued} = serving_ticket .. next_ticket - 1
        /\ \A s, t \in Queued : ticket[s] = ticket[t] => s = t

\* The thread whose turn it is is never left asleep while the model is free, and
\* nobody is left asleep once the scheduler stops.
NoLostWakeup ==
    /\ ~active /\ ~stopping =>
            \A t \in Queued : ticket[t] = serving_ticket => at[t] = "woken"
    /\ stopping => \A t \in Threads : at[t] # "asleep"

\* The elements of S by their keys: each comes after those whose keys are smaller.
Before(S, key, t) == {s \in S : key[s] < key[t]}

Ordered(S, key) ==
    [i \in 1 .. Cardinality(S) |->
        CHOOSE t \in S : Cardinality(Before(S, key, t)) = i - 1]

\* What acquire last told each thread, if it was a refusal.
Refused == [t \in Threads |-> IF at[t] \in {"full", "shutdown"} THEN at[t] ELSE "no"]

Fifo == INSTANCE FifoAdmission
            WITH queue <- Ordered(Queued, ticket), holding <- Admitted,
                 stopped <- stopping, refused <- Refused

\* The scheduler is a bounded first-in first-out admission: threads get the
\* model one at a time, in the order in which they took their tickets, a request
\* is refused for a full queue only behind one and for the stop only after it, and
\* nobody gets in after the stop.
ImplementsFifo == Fifo!Spec

\* If every holder gives the model back, every request that queued is admitted or told
\* that the server stops.
QueuedIsAnswered ==
    \A t \in Threads : t \in Queued ~> at[t] \in {"admitted", "shutdown"}
=============================================================================
