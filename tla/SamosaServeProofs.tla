------------------------- MODULE SamosaServeProofs --------------------------
(***************************************************************************)
(* Proofs about SamosaServe and the two modules it is composed of, for any *)
(* clients, conversations, connections and limits.  First the scheduler and*)
(* the arithmetic of the context policy by themselves; then every step of  *)
(* the server is shown to be a step of the scheduler or to leave it alone, *)
(* so that what holds of the scheduler holds inside the server; last the   *)
(* handlers, which rely on it.                                             *)
(***************************************************************************)
EXTENDS SamosaServe, Sequences, FiniteSetTheorems, TLAPS

-----------------------------------------------------------------------------
(***************************************************************************)
(* The scheduler, for any set of threads and any queue size.               *)
(***************************************************************************)

\* The tickets still to be served are one per waiting thread, and as many as
\* the counter says; with the wake-up condition this is inductive.
TicketCount == ~stopping => /\ serving_ticket <= next_ticket
                            /\ waiting = next_ticket - serving_ticket

SchedInv == /\ SchedTypeOK /\ OneAtATime /\ QueueBounded /\ TicketsAreTheQueue
            /\ NoLostWakeup /\ TicketCount

\* The initial state: nobody waits.
LEMMA SchedInitInv == SchedInit => SchedInv
<1> SUFFICES ASSUME SchedInit PROVE SchedInv
  OBVIOUS
<1>1. Queued = {} /\ Admitted = {}
  BY DEF SchedInit, Queued, Admitted
<1>2. SchedTypeOK
  <2>1. 0 \in 0 .. MaxTickets
    BY SchedulerAssumption
  <2>2. at \in [Threads -> Places]
    BY DEF SchedInit, Places
  <2>3. ticket \in [Threads -> Nat]
    BY DEF SchedInit
  <2> QED
    BY <2>1, <2>2, <2>3 DEF SchedInit, SchedTypeOK
<1>3. OneAtATime
  BY <1>1 DEF SchedInit, OneAtATime
<1>4. QueueBounded
  BY <1>1, FS_EmptySet, SchedulerAssumption DEF SchedInit, QueueBounded
<1>5. TicketsAreTheQueue /\ NoLostWakeup /\ TicketCount
  BY <1>1 DEF SchedInit, TicketsAreTheQueue, NoLostWakeup, TicketCount
<1> QED
  BY <1>2, <1>3, <1>4, <1>5 DEF SchedInv

\* The queue as a finite set that gains or loses one thread.
LEMMA QueueCount ==
    ASSUME SchedTypeOK, NEW t \in Threads
    PROVE  /\ Cardinality(Queued) \in Nat
           /\ t \notin Queued => Cardinality(Queued \cup {t}) = Cardinality(Queued) + 1
           /\ t \in Queued => /\ Cardinality(Queued \ {t}) = Cardinality(Queued) - 1
                              /\ Cardinality(Queued) > 0
<1>1. IsFiniteSet(Queued)
  BY FS_Subset, SchedulerAssumption DEF Queued
<1>2. Cardinality(Queued) \in Nat
  BY <1>1, FS_CardinalityType
<1>3. t \notin Queued => Cardinality(Queued \cup {t}) = Cardinality(Queued) + 1
  BY <1>1, FS_AddElement
<1>4. ASSUME t \in Queued
      PROVE  /\ Cardinality(Queued \ {t}) = Cardinality(Queued) - 1
             /\ Cardinality(Queued) > 0
  <2>1. Cardinality(Queued \ {t}) = Cardinality(Queued) - 1
    BY <1>1, <1>4, FS_RemoveElement
  <2>2. Cardinality(Queued \ {t}) \in Nat
    BY <1>1, FS_RemoveElement, FS_CardinalityType
  <2> QED
    BY <1>2, <2>1, <2>2
<1> QED
  BY <1>2, <1>3, <1>4

\* A broadcast moves no thread into or out of the queue.
LEMMA WakeAllPlaces ==
    ASSUME NEW where \in [Threads -> Places]
    PROVE  /\ WakeAll(where) \in [Threads -> Places]
           /\ \A t \in Threads :
                /\ WakeAll(where)[t] # "asleep"
                /\ WakeAll(where)[t] = "admitted" <=> where[t] = "admitted"
                /\ WakeAll(where)[t] \in {"asleep", "woken"}
                        <=> where[t] \in {"asleep", "woken"}
  BY DEF WakeAll, Places

\* A request is refused, queued with the next ticket, or admitted at once when
\* nobody waits.
LEMMA AcquireInv == ASSUME SchedInv, NEW t \in Threads, Acquire(t) PROVE SchedInv'
<1> USE DEF SchedInv
<1>1. /\ at \in [Threads -> Places] /\ next_ticket \in Nat /\ serving_ticket \in Nat
      /\ waiting \in Nat /\ t \notin Queued /\ t \notin Admitted
      /\ active \in BOOLEAN /\ stopping \in BOOLEAN
      /\ ticket \in [Threads -> Nat] /\ UNCHANGED stopping
  BY SchedulerAssumption DEF Acquire, SchedTypeOK, Queued, Admitted
<1>2. CASE /\ at' = [at EXCEPT ![t] = "shutdown"] \/ at' = [at EXCEPT ![t] = "full"]
           /\ UNCHANGED <<next_ticket, serving_ticket, active, waiting, ticket>>
  <2>1. Queued' = Queued /\ Admitted' = Admitted /\ at' \in [Threads -> Places]
    BY <1>1, <1>2 DEF Queued, Admitted, Places
  <2>2. \A s \in Threads : s # t => at'[s] = at[s]
    BY <1>1, <1>2
  <2>3. SchedTypeOK' /\ OneAtATime' /\ QueueBounded' /\ TicketCount'
    BY <1>1, <1>2, <2>1 DEF SchedTypeOK, OneAtATime, QueueBounded, TicketCount
  <2>4. TicketsAreTheQueue'
    BY <1>1, <1>2, <2>1 DEF TicketsAreTheQueue
  <2>5. NoLostWakeup'
    BY <1>1, <1>2, <2>1, <2>2 DEF NoLostWakeup, Queued
  <2> QED
    BY <2>3, <2>4, <2>5
<1>3. CASE /\ ~stopping /\ ~QueueFull /\ MustWait(next_ticket)
           /\ next_ticket < MaxTickets
           /\ next_ticket' = next_ticket + 1
           /\ ticket' = [ticket EXCEPT ![t] = next_ticket]
           /\ at' = [at EXCEPT ![t] = "asleep"]
           /\ waiting' = waiting + 1
           /\ UNCHANGED <<active, serving_ticket>>
  <2>1. Queued' = Queued \cup {t} /\ Admitted' = Admitted /\ at' \in [Threads -> Places]
    BY <1>1, <1>3 DEF Queued, Admitted, Places
  <2>2. \A s \in Threads : s # t => at'[s] = at[s] /\ ticket'[s] = ticket[s]
    BY <1>1, <1>3
  <2>3. ticket'[t] = next_ticket /\ at'[t] = "asleep"
    BY <1>1, <1>3
  <2>4. SchedTypeOK' /\ OneAtATime' /\ TicketCount'
    BY <1>1, <1>3, <2>1, SchedulerAssumption
       DEF SchedTypeOK, OneAtATime, TicketCount, Places
  <2>5. waiting < MaxWaiting
    BY <1>1, <1>3, SchedulerAssumption DEF QueueFull, MustWait, TicketCount
  <2>6. QueueBounded'
    BY <1>1, <1>3, <2>1, <2>5, QueueCount, SchedulerAssumption DEF QueueBounded
  <2>7. {ticket[s] : s \in Queued} = serving_ticket .. next_ticket - 1
    BY <1>3 DEF TicketsAreTheQueue
  <2>8. {ticket'[s] : s \in Queued'} = {ticket[s] : s \in Queued} \cup {next_ticket}
    BY <1>1, <2>1, <2>2, <2>3 DEF Queued
  <2>9. \A s \in Queued : ticket[s] # next_ticket
    BY <1>1, <2>7
  <2>10. TicketsAreTheQueue'
    <3>0. (serving_ticket .. next_ticket - 1) \cup {next_ticket}
            = serving_ticket .. (next_ticket + 1) - 1
      BY <1>1, <1>3 DEF TicketCount
    <3>1. {ticket'[s] : s \in Queued'} = serving_ticket .. (next_ticket + 1) - 1
      BY <2>7, <2>8, <3>0
    <3>2. \A r, s \in Queued' : ticket'[r] = ticket'[s] => r = s
      BY <1>1, <1>3, <2>1, <2>2, <2>3, <2>9 DEF TicketsAreTheQueue, Queued
    <3> QED
      BY <1>3, <3>1, <3>2 DEF TicketsAreTheQueue
  <2>11. NoLostWakeup'
    BY <1>1, <1>3, <2>1, <2>2, <2>3 DEF NoLostWakeup, MustWait, Queued
  <2> QED
    BY <2>4, <2>6, <2>10, <2>11
<1>4. CASE /\ ~stopping /\ ~MustWait(next_ticket)
           /\ next_ticket < MaxTickets
           /\ next_ticket' = next_ticket + 1
           /\ ticket' = [ticket EXCEPT ![t] = next_ticket]
           /\ at' = [at EXCEPT ![t] = "admitted"]
           /\ active' = TRUE /\ serving_ticket' = serving_ticket + 1
           /\ UNCHANGED waiting
  <2>1. Queued' = Queued /\ Admitted' = Admitted \cup {t} /\ at' \in [Threads -> Places]
    BY <1>1, <1>4 DEF Queued, Admitted, Places
  <2>2. ~active /\ next_ticket = serving_ticket /\ Admitted = {}
    BY <1>4 DEF MustWait, OneAtATime
  <2>3. Queued = {}
    BY <1>1, <1>4, <2>2 DEF TicketsAreTheQueue
  <2>4. SchedTypeOK' /\ OneAtATime' /\ TicketCount'
    BY <1>1, <1>4, <2>1, <2>2, SchedulerAssumption
       DEF SchedTypeOK, OneAtATime, TicketCount, Places
  <2>5. QueueBounded'
    BY <1>4, <2>1 DEF QueueBounded
  <2>6. TicketsAreTheQueue'
    BY <1>1, <1>4, <2>1, <2>2, <2>3 DEF TicketsAreTheQueue
  <2>7. NoLostWakeup'
    BY <1>1, <1>4, <2>1, <2>3 DEF NoLostWakeup, Queued
  <2> QED
    BY <2>4, <2>5, <2>6, <2>7
<1> QED
  BY <1>2, <1>3, <1>4 DEF Acquire

\* A woken thread leaves the queue only with the lowest ticket or at a stop.
LEMMA RecheckInv == ASSUME SchedInv, NEW t \in Threads, Recheck(t) PROVE SchedInv'
<1> USE DEF SchedInv
<1>1. /\ at \in [Threads -> Places] /\ next_ticket \in Nat /\ serving_ticket \in Nat
      /\ next_ticket \in 0 .. MaxTickets
      /\ waiting \in Nat /\ t \in Queued /\ t \notin Admitted
      /\ active \in BOOLEAN /\ stopping \in BOOLEAN
      /\ ticket \in [Threads -> Nat]
      /\ UNCHANGED <<next_ticket, stopping, ticket>>
  BY SchedulerAssumption DEF Recheck, SchedTypeOK, Queued, Admitted
<1>2. /\ waiting \in Nat /\ waiting = Cardinality(Queued) /\ waiting <= MaxWaiting
      /\ Cardinality(Queued \ {t}) = waiting - 1 /\ waiting > 0
  BY <1>1, QueueCount DEF QueueBounded
<1>3. CASE /\ stopping
           /\ at' = [at EXCEPT ![t] = "shutdown"]
           /\ waiting' = waiting - 1
           /\ UNCHANGED <<active, serving_ticket>>
  <2>1. Queued' = Queued \ {t} /\ Admitted' = Admitted /\ at' \in [Threads -> Places]
    BY <1>1, <1>3 DEF Queued, Admitted, Places
  <2>2. \A s \in Threads : at'[s] # "asleep"
    BY <1>1, <1>3 DEF NoLostWakeup
  <2>3. SchedTypeOK' /\ OneAtATime' /\ QueueBounded' /\ TicketCount'
    BY <1>1, <1>2, <1>3, <2>1, SchedulerAssumption
       DEF SchedTypeOK, OneAtATime, QueueBounded, TicketCount
  <2>4. TicketsAreTheQueue' /\ NoLostWakeup'
    BY <1>1, <1>3, <2>2 DEF TicketsAreTheQueue, NoLostWakeup
  <2> QED
    BY <2>3, <2>4
<1>4. CASE /\ ~stopping /\ MustWait(ticket[t])
           /\ at' = [at EXCEPT ![t] = "asleep"]
           /\ UNCHANGED <<active, serving_ticket, waiting>>
  <2>1. Queued' = Queued /\ Admitted' = Admitted /\ at' \in [Threads -> Places]
    BY <1>1, <1>4 DEF Queued, Admitted, Places
  <2>2. \A s \in Threads : s # t => at'[s] = at[s]
    BY <1>1, <1>4
  <2>3. SchedTypeOK' /\ OneAtATime' /\ QueueBounded' /\ TicketCount'
    BY <1>1, <1>4, <2>1
       DEF SchedTypeOK, OneAtATime, QueueBounded, TicketCount
  <2>4. TicketsAreTheQueue'
    BY <1>1, <1>4, <2>1 DEF TicketsAreTheQueue
  <2>5. NoLostWakeup'
    BY <1>1, <1>4, <2>1, <2>2 DEF NoLostWakeup, MustWait
  <2> QED
    BY <2>3, <2>4, <2>5
<1>5. CASE /\ ~stopping /\ ~MustWait(ticket[t])
           /\ at' = [at EXCEPT ![t] = "admitted"]
           /\ waiting' = waiting - 1
           /\ active' = TRUE /\ serving_ticket' = serving_ticket + 1
  <2>1. /\ Queued' = Queued \ {t} /\ Admitted' = Admitted \cup {t}
        /\ at' \in [Threads -> Places]
    BY <1>1, <1>5 DEF Queued, Admitted, Places
  <2>2. ~active /\ ticket[t] = serving_ticket /\ Admitted = {}
    BY <1>5 DEF MustWait, OneAtATime
  <2>3. {ticket[s] : s \in Queued} = serving_ticket .. next_ticket - 1
    BY <1>5 DEF TicketsAreTheQueue
  <2>4. \A r, s \in Queued : ticket[r] = ticket[s] => r = s
    BY <1>5 DEF TicketsAreTheQueue
  <2>5. serving_ticket + 1 <= next_ticket /\ waiting = next_ticket - serving_ticket
    BY <1>1, <1>2, <1>5 DEF TicketCount
  <2>6. {ticket[s] : s \in Queued \ {t}} = (serving_ticket .. next_ticket - 1) \ {serving_ticket}
    <3>1. \A s \in Queued \ {t} : ticket[s] # serving_ticket
      BY <1>1, <2>2, <2>4
    <3>2. \A s \in Queued \ {t} : ticket[s] \in serving_ticket .. next_ticket - 1
      BY <2>3
    <3>3. ASSUME NEW n \in (serving_ticket .. next_ticket - 1) \ {serving_ticket}
          PROVE  \E s \in Queued \ {t} : ticket[s] = n
      <4>1. PICK s \in Queued : ticket[s] = n
        BY <2>3
      <4> QED
        BY <2>2, <4>1
    <3> QED
      BY <3>1, <3>2, <3>3
  <2>7. (serving_ticket .. next_ticket - 1) \ {serving_ticket}
          = serving_ticket + 1 .. next_ticket - 1
    BY <1>1
  <2>8. TicketsAreTheQueue'
    BY <1>1, <1>5, <2>1, <2>4, <2>6, <2>7 DEF TicketsAreTheQueue
  <2>9. SchedTypeOK'
    BY <1>1, <1>2, <1>5, <2>1, <2>5, SchedulerAssumption DEF SchedTypeOK
  <2>10. OneAtATime' /\ QueueBounded' /\ TicketCount'
    BY <1>1, <1>2, <1>5, <2>1, <2>2, <2>5, SchedulerAssumption
       DEF OneAtATime, QueueBounded, TicketCount
  <2>11. NoLostWakeup'
    BY <1>1, <1>5 DEF NoLostWakeup
  <2> QED
    BY <2>8, <2>9, <2>10, <2>11
<1> QED
  BY <1>3, <1>4, <1>5 DEF Recheck

\* The turn ends, the model is free and every waiter is woken.
LEMMA ReleaseInv == ASSUME SchedInv, NEW t \in Threads, Release(t) PROVE SchedInv'
<1> USE DEF SchedInv
<1> DEFINE left == [at EXCEPT ![t] = "out"]
<1>1. /\ at \in [Threads -> Places] /\ at[t] = "admitted" /\ active \in BOOLEAN
      /\ UNCHANGED <<next_ticket, serving_ticket, waiting, stopping, ticket>>
      /\ active' = FALSE /\ at' = WakeAll(left)
  BY DEF Release, SchedTypeOK
<1>2. left \in [Threads -> Places] /\ left[t] = "out"
  BY <1>1 DEF Places
<1>3. \A s \in Threads : s # t => left[s] = at[s]
  BY <1>1
<1> HIDE DEF left
<1>4. Admitted = {t}
  BY <1>1 DEF OneAtATime, Admitted
<1>5. /\ at' \in [Threads -> Places]
      /\ \A s \in Threads : /\ at'[s] # "asleep"
                            /\ at'[s] = "admitted" <=> left[s] = "admitted"
                            /\ at'[s] \in {"asleep", "woken"} <=> left[s] \in {"asleep", "woken"}
  BY <1>1, <1>2, WakeAllPlaces
<1>6. Queued' = Queued
  BY <1>1, <1>2, <1>3, <1>5 DEF Queued
<1>7. Admitted' = {}
  BY <1>2, <1>3, <1>4, <1>5 DEF Admitted
<1>8. SchedTypeOK' /\ OneAtATime' /\ QueueBounded' /\ TicketCount'
  BY <1>1, <1>5, <1>6, <1>7
     DEF SchedTypeOK, OneAtATime, QueueBounded, TicketCount
<1>9. TicketsAreTheQueue'
  BY <1>1, <1>6 DEF TicketsAreTheQueue
<1>10. NoLostWakeup'
  BY <1>5, <1>6 DEF NoLostWakeup, Queued
<1> QED
  BY <1>8, <1>9, <1>10

\* A stop wakes everybody and changes no place otherwise.
LEMMA StopInv == ASSUME SchedInv, Stop PROVE SchedInv'
<1> USE DEF SchedInv
<1>1. /\ at \in [Threads -> Places]
      /\ UNCHANGED <<next_ticket, serving_ticket, active, waiting, ticket>>
      /\ stopping' = TRUE /\ at' = WakeAll(at)
  BY DEF Stop, SchedTypeOK
<1>2. /\ at' \in [Threads -> Places]
      /\ \A s \in Threads : /\ at'[s] # "asleep"
                            /\ at'[s] = "admitted" <=> at[s] = "admitted"
                            /\ at'[s] \in {"asleep", "woken"} <=> at[s] \in {"asleep", "woken"}
  BY <1>1, WakeAllPlaces
<1>3. Queued' = Queued /\ Admitted' = Admitted
  BY <1>2 DEF Queued, Admitted
<1>4. SchedTypeOK' /\ OneAtATime' /\ QueueBounded'
  BY <1>1, <1>2, <1>3 DEF SchedTypeOK, OneAtATime, QueueBounded
<1>5. TicketsAreTheQueue' /\ TicketCount' /\ NoLostWakeup'
  BY <1>1, <1>2 DEF TicketsAreTheQueue, TicketCount, NoLostWakeup
<1> QED
  BY <1>4, <1>5

\* A spurious wake-up only makes one more thread recheck.
LEMMA SpuriousWakeInv == ASSUME SchedInv, NEW t \in Threads, SpuriousWake(t) PROVE SchedInv'
<1> USE DEF SchedInv
<1>1. /\ at \in [Threads -> Places] /\ at[t] = "asleep" /\ at' = [at EXCEPT ![t] = "woken"]
      /\ UNCHANGED <<next_ticket, serving_ticket, active, waiting, stopping, ticket>>
  BY DEF SpuriousWake, SchedTypeOK
<1>2. at'[t] = "woken" /\ \A s \in Threads : s # t => at'[s] = at[s]
  BY <1>1
<1>3. Queued' = Queued /\ Admitted' = Admitted /\ at' \in [Threads -> Places]
  BY <1>1, <1>2 DEF Queued, Admitted, Places
<1>4. SchedTypeOK' /\ OneAtATime' /\ QueueBounded' /\ TicketCount'
  BY <1>1, <1>3 DEF SchedTypeOK, OneAtATime, QueueBounded, TicketCount
<1>5. TicketsAreTheQueue'
  BY <1>1, <1>3 DEF TicketsAreTheQueue
<1>6. NoLostWakeup'
  BY <1>1, <1>2, <1>3 DEF NoLostWakeup
<1> QED
  BY <1>4, <1>5, <1>6

\* The invariant is inductive: one step per action.
LEMMA SchedNextInv == SchedInv /\ [SchedNext]_schedVars => SchedInv'
<1> SUFFICES ASSUME SchedInv, [SchedNext]_schedVars PROVE SchedInv'
  OBVIOUS
<1>1. ASSUME NEW t \in Threads, Acquire(t) PROVE SchedInv'
  BY <1>1, AcquireInv
<1>2. ASSUME NEW t \in Threads, Recheck(t) PROVE SchedInv'
  BY <1>2, RecheckInv
<1>3. ASSUME NEW t \in Threads, Release(t) PROVE SchedInv'
  BY <1>3, ReleaseInv
<1>4. ASSUME NEW t \in Threads, SpuriousWake(t) PROVE SchedInv'
  BY <1>4, SpuriousWakeInv
<1>5. CASE Stop
  BY <1>5, StopInv
<1>6. CASE UNCHANGED schedVars
  BY <1>6 DEF schedVars, SchedInv, SchedTypeOK, OneAtATime, QueueBounded,
              TicketsAreTheQueue, NoLostWakeup, TicketCount, Queued, Admitted
<1> QED
  BY <1>1, <1>2, <1>3, <1>4, <1>5, <1>6 DEF SchedNext

\* What all the theorems below follow from.
LEMMA SchedAlways == SchedSpec => []SchedInv
  BY SchedInitInv, SchedNextInv, PTL DEF SchedSpec

\* Every variable keeps its type, with tickets below the bound of the model.
THEOREM SchedulerTypes == SchedSpec => []SchedTypeOK
  BY SchedAlways, PTL DEF SchedInv

\* Turns are serialised: never two threads hold the model, and the active flag
\* says whether one does.
THEOREM MutualExclusion == SchedSpec => []OneAtATime
  BY SchedAlways, PTL DEF SchedInv

\* The queue never outgrows max_waiting, and the counter is exact.
THEOREM QueueBound == SchedSpec => []QueueBounded
  BY SchedAlways, PTL DEF SchedInv

\* No ticket between the one served and the next one is missing or held twice.
THEOREM NoTicketSkipped == SchedSpec => []TicketsAreTheQueue
  BY SchedAlways, PTL DEF SchedInv

\* A free model never leaves the thread whose turn it is asleep, and a stop
\* leaves nobody asleep.
THEOREM NoWakeupLost == SchedSpec => []NoLostWakeup
  BY SchedAlways, PTL DEF SchedInv

-----------------------------------------------------------------------------
(* Listing a finite set by distinct keys.                                  *)

Keyed(S, key) ==
    /\ IsFiniteSet(S)
    /\ \A t \in S : key[t] \in Nat
    /\ \A s, t \in S : key[s] = key[t] => s = t

Rank(S, key, t) == Cardinality(Before(S, key, t))

\* Ranks count from 0, and grow with the keys.
LEMMA RankGrows ==
    ASSUME NEW S, NEW key, Keyed(S, key)
    PROVE  /\ Cardinality(S) \in Nat
           /\ \A t \in S : Rank(S, key, t) \in 0 .. Cardinality(S) - 1
           /\ \A s \in S, t \in S : key[s] < key[t] => Rank(S, key, s) < Rank(S, key, t)
<1>1. IsFiniteSet(S) /\ Cardinality(S) \in Nat
  BY FS_CardinalityType DEF Keyed
<1>2. ASSUME NEW s \in S, NEW T, T \subseteq S, Before(S, key, s) \subseteq T, s \in T
      PROVE  /\ Rank(S, key, s) \in Nat /\ Cardinality(T) \in Nat
             /\ Rank(S, key, s) + 1 <= Cardinality(T)
  <2> DEFINE B == Before(S, key, s)
  <2>1. B \subseteq S /\ s \notin B
    BY DEF Before, Keyed
  <2>2. IsFiniteSet(T) /\ IsFiniteSet(B)
    BY <1>1, <1>2, <2>1, FS_Subset
  <2>3. Cardinality(B \cup {s}) = Cardinality(B) + 1
    BY <2>1, <2>2, FS_AddElement
  <2>4. B \cup {s} \subseteq T
    BY <1>2
  <2>5. Cardinality(B \cup {s}) <= Cardinality(T)
    BY <2>2, <2>4, FS_Subset
  <2>6. Cardinality(B) \in Nat /\ Cardinality(T) \in Nat
    BY <2>2, FS_CardinalityType
  <2> QED
    BY <2>3, <2>5, <2>6 DEF Rank
<1>3. ASSUME NEW t \in S PROVE Rank(S, key, t) \in 0 .. Cardinality(S) - 1
  <2>1. Before(S, key, t) \subseteq S
    BY DEF Before
  <2>2. Rank(S, key, t) \in Nat /\ Rank(S, key, t) + 1 <= Cardinality(S)
    BY <1>2, <2>1
  <2> QED
    BY <1>1, <2>2
<1>4. ASSUME NEW s \in S, NEW t \in S, key[s] < key[t]
      PROVE  Rank(S, key, s) < Rank(S, key, t)
  <2>1. \A r \in S : key[r] \in Nat
    BY DEF Keyed
  <2>2. Before(S, key, t) \subseteq S /\ s \in Before(S, key, t)
    BY <1>4 DEF Before
  <2>3. Before(S, key, s) \subseteq Before(S, key, t)
    BY <1>4, <2>1 DEF Before
  <2>4. Rank(S, key, s) + 1 <= Rank(S, key, t)
    BY <1>2, <2>2, <2>3 DEF Rank
  <2> QED
    BY <1>3, <2>4
<1> QED
  BY <1>1, <1>3, <1>4

\* So each number below the size is the rank of exactly one element.
LEMMA RankIsBijection ==
    ASSUME NEW S, NEW key, Keyed(S, key)
    PROVE  /\ \A s \in S, t \in S : Rank(S, key, s) = Rank(S, key, t) => s = t
           /\ \A i \in 0 .. Cardinality(S) - 1 : \E t \in S : Rank(S, key, t) = i
<1> DEFINE n == Cardinality(S)
           f == [t \in S |-> Rank(S, key, t)]
<1>1. n \in Nat /\ IsFiniteSet(S)
  BY RankGrows DEF Keyed
<1>2. ASSUME NEW s \in S, NEW t \in S, Rank(S, key, s) = Rank(S, key, t)
      PROVE  s = t
  <2>1. key[s] \in Nat /\ key[t] \in Nat /\ (key[s] = key[t] => s = t)
    BY DEF Keyed
  <2>2. Rank(S, key, s) \in Int /\ Rank(S, key, t) \in Int
    BY <1>1, RankGrows
  <2>3. ~(key[s] < key[t]) /\ ~(key[t] < key[s])
    BY <1>2, <2>2, RankGrows
  <2> QED
    BY <2>1, <2>3
<1>3. f \in [S -> 0 .. n - 1]
  BY RankGrows
<1>4. f \in Injection(S, 0 .. n - 1)
  <2>1. \A s \in S, t \in S : f[s] = f[t] => s = t
    BY <1>2
  <2> HIDE DEF f
  <2>2. DOMAIN f = S
    BY <1>3
  <2> QED
    BY <1>3, <2>1, <2>2 DEF Injection, IsInjective
<1>5. IsFiniteSet(0 .. n - 1) /\ Cardinality(0 .. n - 1) = n
  <2>1. 0 \in Int /\ n - 1 \in Int
    BY <1>1
  <2>2. IsFiniteSet(0 .. n - 1) /\ Cardinality(0 .. n - 1) = IF 0 > n - 1 THEN 0 ELSE (n - 1) - 0 + 1
    BY <2>1, FS_Interval
  <2> QED
    BY <1>1, <2>2
<1>6. f \in Surjection(S, 0 .. n - 1)
  <2> HIDE DEF f
  <2> QED
    BY <1>1, <1>4, <1>5, FS_Injection
<1>7. \A i \in 0 .. n - 1 : \E t \in S : f[t] = i
  <2> HIDE DEF f
  <2> QED
    BY <1>6 DEF Surjection
<1> QED
  BY <1>2, <1>7

\* The list has every element at its rank.
LEMMA OrderedByRank ==
    ASSUME NEW S, NEW key, Keyed(S, key)
    PROVE  /\ Ordered(S, key) \in Seq(S)
           /\ Len(Ordered(S, key)) = Cardinality(S) /\ Cardinality(S) \in Nat
           /\ \A i \in 1 .. Cardinality(S) :
                /\ Ordered(S, key)[i] \in S
                /\ Rank(S, key, Ordered(S, key)[i]) = i - 1
           /\ \A t \in S : /\ Rank(S, key, t) + 1 \in 1 .. Cardinality(S)
                           /\ Ordered(S, key)[Rank(S, key, t) + 1] = t
<1> DEFINE n == Cardinality(S)
           place(i) == CHOOSE t \in S : Rank(S, key, t) = i - 1
           f == [i \in 1 .. n |-> place(i)]
<1>1. n \in Nat
  BY RankGrows
<1>2. Ordered(S, key) = f
  BY DEF Ordered, Rank
<1>3. ASSUME NEW i \in 1 .. n PROVE place(i) \in S /\ Rank(S, key, place(i)) = i - 1
  <2>1. i - 1 \in 0 .. n - 1
    BY <1>1
  <2>2. \E t \in S : Rank(S, key, t) = i - 1
    BY <2>1, RankIsBijection
  <2> QED
    BY <2>2
<1> HIDE DEF place
<1>4. f \in Seq(S) /\ Len(f) = n /\ \A i \in 1 .. n : f[i] = place(i)
  BY <1>1, <1>3
<1>5. ASSUME NEW t \in S
      PROVE  Rank(S, key, t) + 1 \in 1 .. n /\ place(Rank(S, key, t) + 1) = t
  <2>1. Rank(S, key, t) \in 0 .. n - 1
    BY RankGrows
  <2>2. Rank(S, key, t) + 1 \in 1 .. n /\ (Rank(S, key, t) + 1) - 1 = Rank(S, key, t)
    BY <1>1, <2>1
  <2>3. /\ place(Rank(S, key, t) + 1) \in S
        /\ Rank(S, key, place(Rank(S, key, t) + 1)) = Rank(S, key, t)
    BY <1>3, <2>2
  <2> QED
    BY <2>2, <2>3, RankIsBijection
<1> QED
  BY <1>1, <1>2, <1>3, <1>4, <1>5

\* Only the keys of its elements matter to a list.
LEMMA OrderedSame ==
    ASSUME NEW S, NEW key, NEW other, \A t \in S : other[t] = key[t]
    PROVE  Ordered(S, other) = Ordered(S, key)
<1> DEFINE old(i) == CHOOSE t \in S : Cardinality(Before(S, key, t)) = i - 1
           new(i) == CHOOSE t \in S : Cardinality(Before(S, other, t)) = i - 1
<1>1. \A t \in S : Before(S, other, t) = Before(S, key, t)
  BY DEF Before
<1>2. ASSUME NEW i \in 1 .. Cardinality(S) PROVE old(i) = new(i)
  BY <1>1
<1>3. /\ Ordered(S, key) = [i \in 1 .. Cardinality(S) |-> old(i)]
      /\ Ordered(S, other) = [i \in 1 .. Cardinality(S) |-> new(i)]
  BY DEF Ordered
<1> HIDE DEF old, new
<1> QED
  BY <1>2, <1>3

\* t comes to S with the greatest key.
Follows(t, S, key, other) ==
    /\ t \notin S /\ other[t] \in Nat
    /\ \A s \in S : other[s] = key[s] /\ key[s] < other[t]

\* r is q with t at its end.
Appends(r, q, t) == r = Append(q, t)

\* It is the last of the new list.
LEMMA OrderedAppend ==
    ASSUME NEW S, NEW key, Keyed(S, key), NEW t, NEW other, Follows(t, S, key, other)
    PROVE  /\ Keyed(S \cup {t}, other)
           /\ Appends(Ordered(S \cup {t}, other), Ordered(S, key), t)
<1> DEFINE T == S \cup {t}
           n == Cardinality(S)
           q == Ordered(S, key)
           r == Ordered(T, other)
<1>0. /\ t \notin S /\ other[t] \in Nat
      /\ \A s \in S : other[s] = key[s] /\ key[s] < other[t]
  BY DEF Follows
<1>1. IsFiniteSet(S) /\ n \in Nat
  BY RankGrows DEF Keyed
<1>2. IsFiniteSet(T) /\ Cardinality(T) = n + 1
  BY <1>0, <1>1, FS_AddElement
<1>3. Keyed(T, other)
  BY <1>0, <1>2 DEF Keyed
<1>4. ASSUME NEW s \in S PROVE Rank(T, other, s) = Rank(S, key, s)
  <2>1. Before(T, other, s) = Before(S, key, s)
    BY <1>0 DEF Before, Keyed
  <2> QED
    BY <2>1 DEF Rank
<1>5. Rank(T, other, t) = n
  <2>1. Before(T, other, t) = S
    BY <1>0 DEF Before, Keyed
  <2> QED
    BY <2>1 DEF Rank
<1>6. /\ q \in Seq(S) /\ Len(q) = n
      /\ \A i \in 1 .. n : q[i] \in S /\ Rank(S, key, q[i]) = i - 1
  BY OrderedByRank
<1>7. /\ r \in Seq(T) /\ Len(r) = n + 1
      /\ \A s \in T : r[Rank(T, other, s) + 1] = s
  BY <1>2, <1>3, OrderedByRank
<1> HIDE DEF q, r
<1>8. \A i \in 1 .. n : r[i] = q[i]
  <2> TAKE i \in 1 .. n
  <2>1. q[i] \in S /\ Rank(T, other, q[i]) = i - 1
    BY <1>4, <1>6
  <2>2. r[(i - 1) + 1] = q[i]
    BY <1>7, <2>1
  <2> QED
    BY <2>2
<1>9. r[n + 1] = t
  BY <1>5, <1>7
<1> HIDE DEF T, n
<1>10. q \in Seq(T) /\ t \in T
  BY <1>6 DEF T
<1>11. Append(q, t) \in Seq(T) /\ Len(Append(q, t)) = n + 1
  BY <1>6, <1>10
<1>12. \A i \in 1 .. n + 1 : Append(q, t)[i] = IF i = n + 1 THEN t ELSE q[i]
  BY <1>1, <1>6, <1>10
<1>13. \A i \in 1 .. n + 1 : r[i] = Append(q, t)[i]
  <2> TAKE i \in 1 .. n + 1
  <2>1. CASE i = n + 1
    BY <1>9, <1>12, <2>1
  <2>2. CASE i # n + 1
    <3>1. i \in 1 .. n
      BY <1>1, <2>2
    <3>2. r[i] = q[i]
      BY <1>8, <3>1
    <3> QED
      BY <1>12, <2>2, <3>2
  <2> QED
    BY <2>1, <2>2
<1>14. r = Append(q, t)
  BY <1>7, <1>11, <1>13
<1> QED
  BY <1>3, <1>14 DEF Appends, q, r, T

\* Who leaves is at its rank; those behind move up.
LEMMA OrderedRemove ==
    ASSUME NEW S, NEW key, Keyed(S, key), NEW t \in S
    PROVE  LET i == Rank(S, key, t) + 1
               q == Ordered(S, key)
           IN  /\ Keyed(S \ {t}, key)
               /\ i \in 1 .. Len(q) /\ q[i] = t
               /\ Ordered(S \ {t}, key) = SubSeq(q, 1, i - 1) \o SubSeq(q, i + 1, Len(q))
<1> DEFINE T == S \ {t}
           n == Cardinality(S)
           i == Rank(S, key, t) + 1
           q == Ordered(S, key)
           r == Ordered(T, key)
           c == SubSeq(q, 1, i - 1) \o SubSeq(q, i + 1, Len(q))
<1>1. IsFiniteSet(S) /\ n \in Nat
  BY RankGrows DEF Keyed
<1>2. IsFiniteSet(T) /\ Cardinality(T) = n - 1
  BY <1>1, FS_RemoveElement
<1>3. Keyed(T, key)
  BY <1>2 DEF Keyed
<1>4. /\ q \in Seq(S) /\ Len(q) = n
      /\ \A j \in 1 .. n : q[j] \in S /\ Rank(S, key, q[j]) = j - 1
      /\ i \in 1 .. n /\ q[i] = t
  BY OrderedByRank
<1>5. /\ r \in Seq(T) /\ Len(r) = n - 1
      /\ \A s \in T : r[Rank(T, key, s) + 1] = s
  BY <1>2, <1>3, OrderedByRank
<1>6. ASSUME NEW s \in T
      PROVE  /\ Rank(S, key, s) < i - 1 => Rank(T, key, s) = Rank(S, key, s)
             /\ Rank(S, key, s) > i - 1 => Rank(T, key, s) = Rank(S, key, s) - 1
  <2>1. Before(T, key, s) = Before(S, key, s) \ {t}
    BY DEF Before
  <2>2. IsFiniteSet(Before(S, key, s))
    BY <1>1, FS_Subset DEF Before
  <2>3. Rank(T, key, s) = IF t \in Before(S, key, s) THEN Rank(S, key, s) - 1
                          ELSE Rank(S, key, s)
    BY <2>1, <2>2, FS_RemoveElement DEF Rank
  <2>4. /\ s \in S /\ key[s] \in Nat /\ key[t] \in Nat /\ key[s] # key[t]
        /\ Rank(S, key, s) \in Int /\ Rank(S, key, t) \in Int
    BY <1>1, RankGrows DEF Keyed
  <2>5. CASE key[s] < key[t]
    <3>1. t \notin Before(S, key, s)
      BY <2>4, <2>5 DEF Before
    <3>2. Rank(S, key, s) < Rank(S, key, t)
      BY <2>4, <2>5, RankGrows
    <3> QED
      BY <2>3, <2>4, <3>1, <3>2
  <2>6. CASE key[t] < key[s]
    <3>1. t \in Before(S, key, s)
      BY <2>6 DEF Before
    <3>2. Rank(S, key, t) < Rank(S, key, s)
      BY <2>4, <2>6, RankGrows
    <3> QED
      BY <2>3, <2>4, <3>1, <3>2
  <2> QED
    BY <2>4, <2>5, <2>6
<1> HIDE DEF q, r, i, T, n
<1>7. \A j \in 1 .. n : j # i => q[j] \in T
  <2> TAKE j \in 1 .. n
  <2> HAVE j # i
  <2>1. Rank(S, key, q[j]) = j - 1 /\ q[j] \in S
    BY <1>4
  <2>2. Rank(S, key, t) = i - 1
    <3>1. Rank(S, key, t) \in Int
      BY <1>1, RankGrows DEF n
    <3> QED
      BY <3>1 DEF i
  <2>3. i \in Int /\ j \in Int
    BY <1>1, <1>4
  <2>4. q[j] # t
    BY <2>1, <2>2, <2>3
  <2> QED
    BY <2>1, <2>4 DEF T
<1>8. \A j \in 1 .. n - 1 : r[j] = IF j < i THEN q[j] ELSE q[j + 1]
  <2> TAKE j \in 1 .. n - 1
  <2>1. i \in Int /\ n \in Int /\ j \in Int
    BY <1>1, <1>4
  <2>2. CASE j < i
    <3>1. j \in 1 .. n /\ q[j] \in T /\ Rank(S, key, q[j]) = j - 1
      BY <1>4, <1>7, <2>1, <2>2
    <3>2. Rank(T, key, q[j]) = j - 1
      BY <1>6, <2>1, <2>2, <3>1
    <3>3. r[(j - 1) + 1] = q[j]
      BY <1>5, <3>1, <3>2
    <3> QED
      BY <2>1, <2>2, <3>3
  <2>3. CASE ~(j < i)
    <3>1. j + 1 \in 1 .. n /\ j + 1 # i
      BY <2>1, <2>3
    <3>2. q[j + 1] \in T /\ Rank(S, key, q[j + 1]) = j
      BY <1>4, <1>7, <2>1, <3>1
    <3>3. Rank(T, key, q[j + 1]) = j - 1
      BY <1>6, <2>1, <2>3, <3>2
    <3>4. r[(j - 1) + 1] = q[j + 1]
      BY <1>5, <3>2, <3>3
    <3> QED
      BY <2>1, <2>3, <3>4
  <2> QED
    BY <2>2, <2>3
<1>9. /\ c \in Seq(S) /\ Len(c) = n - 1
      /\ \A j \in 1 .. n - 1 : c[j] = IF j < i THEN q[j] ELSE q[j + 1]
  <2> DEFINE a == SubSeq(q, 1, i - 1)
             b == SubSeq(q, i + 1, Len(q))
  <2>1. i \in Nat /\ n \in Nat /\ 1 <= i /\ i <= n
    BY <1>1, <1>4
  <2>2. /\ a \in Seq(S) /\ Len(a) = i - 1
        /\ \A j \in 1 .. i - 1 : a[j] = q[j]
    BY <1>4, <2>1
  <2>3. /\ b \in Seq(S) /\ Len(b) = n - i
        /\ \A j \in 1 .. n - i : b[j] = q[i + j]
    BY <1>4, <2>1
  <2> HIDE DEF a, b
  <2>4. c = a \o b
    BY DEF a, b
  <2>5. a \o b \in Seq(S) /\ Len(a \o b) = n - 1
    <3>1. a \o b \in Seq(S) /\ Len(a \o b) = Len(a) + Len(b)
      BY <2>2, <2>3
    <3>2. Len(a) = i - 1 /\ Len(b) = n - i
      BY <2>2, <2>3
    <3> HIDE DEF a, b
    <3> QED
      BY <2>1, <3>1, <3>2
  <2>6. \A j \in 1 .. n - 1 : (a \o b)[j] = IF j <= i - 1 THEN a[j] ELSE b[j - (i - 1)]
    BY <2>1, <2>2, <2>3
  <2>7. \A j \in 1 .. n - 1 : (a \o b)[j] = IF j < i THEN q[j] ELSE q[j + 1]
    <3> TAKE j \in 1 .. n - 1
    <3>1. CASE j < i
      BY <2>1, <2>2, <2>6, <3>1
    <3>2. CASE ~(j < i)
      <4>1. j - (i - 1) \in 1 .. n - i /\ i + (j - (i - 1)) = j + 1
        BY <2>1, <3>2
      <4>2. b[j - (i - 1)] = q[j + 1]
        BY <2>3, <4>1
      <4>3. (a \o b)[j] = b[j - (i - 1)]
        <5>1. ~(j <= i - 1)
          BY <2>1, <3>2
        <5> QED
          BY <2>6, <5>1
      <4> QED
        BY <3>2, <4>2, <4>3
    <3> QED
      BY <3>1, <3>2
  <2> QED
    BY <2>4, <2>5, <2>7
<1> HIDE DEF c
<1>10. r \in Seq(S)
  BY <1>5 DEF T
<1>11. r = c
  BY <1>5, <1>8, <1>9, <1>10
<1> QED
  BY <1>3, <1>4, <1>11 DEF c, q, r, i, T, n

-----------------------------------------------------------------------------
(* The scheduler implements FifoAdmission.                                 *)

\* Tickets of waiting threads are distinct and already handed out, also after a
\* stop, when threads leave in any order and TicketsAreTheQueue is void.
QueueInv ==
    /\ \A t \in Queued : ticket[t] < next_ticket
    /\ \A s, t \in Queued : ticket[s] = ticket[t] => s = t

LEMMA QueueIsKeyed ==
    ASSUME SchedInv, QueueInv
    PROVE  /\ Keyed(Queued, ticket)
           /\ Ordered(Queued, ticket) \in Seq(Queued)
           /\ Len(Ordered(Queued, ticket)) = waiting /\ waiting \in Nat
<1>1. Keyed(Queued, ticket)
  <2>1. IsFiniteSet(Queued)
    BY FS_Subset, SchedulerAssumption DEF Queued
  <2>2. \A t \in Queued : ticket[t] \in Nat
    BY DEF SchedInv, SchedTypeOK, Queued
  <2> QED
    BY <2>1, <2>2 DEF Keyed, QueueInv
<1>2. Cardinality(Queued) = waiting /\ waiting \in Nat
  BY DEF SchedInv, SchedTypeOK, QueueBounded
<1> QED
  BY <1>1, <1>2, OrderedByRank

\* What each step does to those who wait and those who have the model.
LEMMA AcquireEffect ==
    ASSUME SchedInv, QueueInv, NEW t \in Threads, Acquire(t)
    PROVE  /\ stopping' = stopping /\ t \notin Queued /\ t \notin Admitted
           /\ \/ /\ UNCHANGED <<Queued, Admitted, ticket, next_ticket>>
                 /\ \/ stopping /\ Refused' = [Refused EXCEPT ![t] = "shutdown"]
                    \/ ~stopping /\ QueueFull /\ Refused' = [Refused EXCEPT ![t] = "full"]
              \/ /\ ~stopping /\ ~QueueFull /\ MustWait(next_ticket)
                 /\ Queued' = Queued \cup {t} /\ Admitted' = Admitted
                 /\ ticket' = [ticket EXCEPT ![t] = next_ticket]
                 /\ next_ticket' = next_ticket + 1
                 /\ Refused' = [Refused EXCEPT ![t] = "no"]
              \/ /\ ~stopping /\ ~MustWait(next_ticket)
                 /\ Queued' = Queued /\ Admitted' = Admitted \cup {t}
                 /\ ticket' = [ticket EXCEPT ![t] = next_ticket]
                 /\ next_ticket' = next_ticket + 1
                 /\ Refused' = [Refused EXCEPT ![t] = "no"]
<1>1. at \in [Threads -> Places] /\ t \notin Queued /\ t \notin Admitted
  BY DEF SchedInv, SchedTypeOK, Acquire, Queued, Admitted
<1>2. CASE /\ \/ stopping /\ at' = [at EXCEPT ![t] = "shutdown"]
              \/ ~stopping /\ QueueFull /\ at' = [at EXCEPT ![t] = "full"]
           /\ UNCHANGED <<next_ticket, serving_ticket, active, waiting, ticket>>
  <2>1. Queued' = Queued /\ Admitted' = Admitted
    BY <1>1, <1>2 DEF Queued, Admitted
  <2>2. Refused' = [Refused EXCEPT ![t] = at'[t]]
    BY <1>1, <1>2 DEF Refused
  <2> QED
    BY <1>1, <1>2, <2>1, <2>2 DEF Acquire
<1>3. CASE /\ ~stopping /\ ~QueueFull /\ MustWait(next_ticket)
           /\ next_ticket' = next_ticket + 1
           /\ ticket' = [ticket EXCEPT ![t] = next_ticket]
           /\ at' = [at EXCEPT ![t] = "asleep"]
  <2>1. Queued' = Queued \cup {t} /\ Admitted' = Admitted
    BY <1>1, <1>3 DEF Queued, Admitted
  <2>2. Refused' = [Refused EXCEPT ![t] = "no"]
    BY <1>1, <1>3 DEF Refused
  <2> QED
    BY <1>1, <1>3, <2>1, <2>2 DEF Acquire
<1>4. CASE /\ ~stopping /\ ~MustWait(next_ticket)
           /\ next_ticket' = next_ticket + 1
           /\ ticket' = [ticket EXCEPT ![t] = next_ticket]
           /\ at' = [at EXCEPT ![t] = "admitted"]
  <2>1. Queued' = Queued /\ Admitted' = Admitted \cup {t}
    BY <1>1, <1>4 DEF Queued, Admitted
  <2>2. Refused' = [Refused EXCEPT ![t] = "no"]
    BY <1>1, <1>4 DEF Refused
  <2> QED
    BY <1>1, <1>4, <2>1, <2>2 DEF Acquire
<1> QED
  BY <1>2, <1>3, <1>4 DEF Acquire

LEMMA RecheckEffect ==
    ASSUME SchedInv, QueueInv, NEW t \in Threads, Recheck(t)
    PROVE  /\ UNCHANGED <<stopping, next_ticket, ticket>> /\ t \in Queued
           /\ \/ /\ stopping /\ Queued' = Queued \ {t} /\ Admitted' = Admitted
                 /\ Refused' = [Refused EXCEPT ![t] = "shutdown"]
              \/ UNCHANGED <<Queued, Admitted, Refused>>
              \/ /\ ~stopping /\ ~MustWait(ticket[t])
                 /\ Queued' = Queued \ {t} /\ Admitted' = Admitted \cup {t}
                 /\ UNCHANGED Refused
<1>1. at \in [Threads -> Places] /\ t \in Queued /\ at[t] = "woken"
  BY DEF SchedInv, SchedTypeOK, Recheck, Queued
<1>2. CASE stopping /\ at' = [at EXCEPT ![t] = "shutdown"]
  <2>1. Queued' = Queued \ {t} /\ Admitted' = Admitted
    BY <1>1, <1>2 DEF Queued, Admitted
  <2>2. Refused' = [Refused EXCEPT ![t] = "shutdown"]
    BY <1>1, <1>2 DEF Refused
  <2> QED
    BY <1>1, <1>2, <2>1, <2>2 DEF Recheck
<1>3. CASE at' = [at EXCEPT ![t] = "asleep"]
  <2>1. Queued' = Queued /\ Admitted' = Admitted /\ Refused' = Refused
    BY <1>1, <1>3 DEF Queued, Admitted, Refused
  <2> QED
    BY <1>1, <2>1 DEF Recheck
<1>4. CASE ~stopping /\ ~MustWait(ticket[t]) /\ at' = [at EXCEPT ![t] = "admitted"]
  <2>1. Queued' = Queued \ {t} /\ Admitted' = Admitted \cup {t} /\ Refused' = Refused
    BY <1>1, <1>4 DEF Queued, Admitted, Refused
  <2> QED
    BY <1>1, <1>4, <2>1 DEF Recheck
<1> QED
  BY <1>2, <1>3, <1>4 DEF Recheck

LEMMA WakingEffect ==
    ASSUME SchedInv, NEW t \in Threads
    PROVE  /\ Release(t) => /\ UNCHANGED <<stopping, next_ticket, ticket, Queued, Refused>>
                            /\ t \in Admitted /\ Admitted' = {}
           /\ Stop => /\ stopping' = TRUE
                      /\ UNCHANGED <<next_ticket, ticket, Queued, Admitted, Refused>>
           /\ SpuriousWake(t) =>
                UNCHANGED <<stopping, next_ticket, ticket, Queued, Admitted, Refused>>
<1>1. at \in [Threads -> Places]
  BY DEF SchedInv, SchedTypeOK
<1>2. ASSUME Release(t)
      PROVE  /\ UNCHANGED <<stopping, next_ticket, ticket, Queued, Refused>>
             /\ t \in Admitted /\ Admitted' = {}
  <2> DEFINE where == [at EXCEPT ![t] = "out"]
  <2>1. where \in [Threads -> Places]
    BY <1>1 DEF Places
  <2>2. at[t] = "admitted" /\ at' = WakeAll(where)
    BY <1>2 DEF Release
  <2>3. \A s \in Threads : where[s] = IF s = t THEN "out" ELSE at[s]
    BY <1>1
  <2> HIDE DEF where
  <2>4. Queued' = Queued
    BY <2>1, <2>2, <2>3, WakeAllPlaces DEF Queued
  <2>5. Admitted' = Admitted \ {t} /\ t \in Admitted
    BY <2>1, <2>2, <2>3, WakeAllPlaces DEF Admitted
  <2>6. Refused' = Refused
    <3>1. \A s \in Threads : /\ at'[s] \in {"full", "shutdown"} <=> at[s] \in {"full", "shutdown"}
                             /\ at[s] \in {"full", "shutdown"} => at'[s] = at[s]
      BY <2>2, <2>3 DEF WakeAll
    <3> QED
      BY <3>1 DEF Refused
  <2> QED
    BY <1>2, <2>4, <2>5, <2>6 DEF Release, SchedInv, OneAtATime
<1>3. ASSUME Stop
      PROVE  stopping' = TRUE /\ UNCHANGED <<next_ticket, ticket, Queued, Admitted, Refused>>
  <2>1. at' = WakeAll(at)
    BY <1>3 DEF Stop
  <2>2. Queued' = Queued /\ Admitted' = Admitted
    BY <1>1, <2>1, WakeAllPlaces DEF Queued, Admitted
  <2>3. Refused' = Refused
    <3>1. \A s \in Threads : at'[s] = IF at[s] = "asleep" THEN "woken" ELSE at[s]
      BY <2>1 DEF WakeAll
    <3> QED
      BY <3>1 DEF Refused
  <2> QED
    BY <1>3, <2>2, <2>3 DEF Stop
<1>4. ASSUME SpuriousWake(t)
      PROVE  UNCHANGED <<stopping, next_ticket, ticket, Queued, Admitted, Refused>>
  BY <1>1, <1>4 DEF SpuriousWake, Queued, Admitted, Refused
<1> QED
  BY <1>2, <1>3, <1>4

LEMMA QueueInvInit == SchedInit => QueueInv
BY DEF SchedInit, QueueInv, Queued

LEMMA QueueInvNext ==
    ASSUME SchedInv, QueueInv, [SchedNext]_schedVars
    PROVE  QueueInv'
<1>1. /\ ticket \in [Threads -> Nat] /\ next_ticket \in Nat /\ Queued \subseteq Threads
      /\ \A s \in Queued : ticket[s] < next_ticket
      /\ \A r, s \in Queued : ticket[r] = ticket[s] => r = s
  BY SchedulerAssumption DEF SchedInv, SchedTypeOK, QueueInv, Queued
<1>2. CASE Queued' \subseteq Queued /\ UNCHANGED <<ticket, next_ticket>>
  BY <1>1, <1>2 DEF QueueInv
<1>3. ASSUME NEW t \in Threads, t \notin Queued, Queued' \subseteq Queued \cup {t},
             ticket' = [ticket EXCEPT ![t] = next_ticket], next_ticket' = next_ticket + 1
      PROVE  QueueInv'
  <2>1. \A s \in Queued : ticket'[s] = ticket[s]
    BY <1>1, <1>3
  <2>2. ticket'[t] = next_ticket
    BY <1>1, <1>3
  <2>3. \A s \in Queued' : s \in Queued \/ s = t
    BY <1>3
  <2>4. \A s \in Queued : ticket[s] \in Nat
    BY <1>1
  <2>5. \A s \in Queued' : ticket'[s] < next_ticket'
    BY <1>1, <1>3, <2>1, <2>2, <2>3, <2>4
  <2>6. \A r, s \in Queued' : ticket'[r] = ticket'[s] => r = s
    BY <1>1, <1>3, <2>1, <2>2, <2>3, <2>4
  <2> QED
    BY <2>5, <2>6 DEF QueueInv
<1>4. CASE UNCHANGED schedVars
  BY <1>2, <1>4 DEF schedVars, Queued
<1>5. ASSUME NEW t \in Threads, Acquire(t) PROVE QueueInv'
  BY <1>2, <1>3, <1>5, AcquireEffect
<1>6. ASSUME NEW t \in Threads, Recheck(t) PROVE QueueInv'
  BY <1>2, <1>6, RecheckEffect
<1>7. ASSUME NEW t \in Threads, Release(t) \/ SpuriousWake(t) PROVE QueueInv'
  BY <1>2, <1>7, WakingEffect
<1>8. CASE Stop
  <2>1. CASE Threads = {}
    BY <1>8, <2>1 DEF Stop, QueueInv, Queued
  <2>2. CASE Threads # {}
    BY <1>2, <1>8, <2>2, WakingEffect
  <2> QED
    BY <2>1, <2>2
<1> QED
  BY <1>4, <1>5, <1>6, <1>7, <1>8 DEF SchedNext

\* Each step is a step of FifoAdmission, or changes nothing of what it sees.
LEMMA AcquireArrives ==
    ASSUME SchedInv, QueueInv, NEW t \in Threads, Acquire(t)
    PROVE  [Fifo!Next]_(Fifo!fifoVars)
<1> DEFINE q == Ordered(Queued, ticket)
<1>1. /\ stopping' = stopping /\ t \notin Queued /\ t \notin Admitted
      /\ \/ /\ UNCHANGED <<Queued, Admitted, ticket, next_ticket>>
            /\ \/ stopping /\ Refused' = [Refused EXCEPT ![t] = "shutdown"]
               \/ ~stopping /\ QueueFull /\ Refused' = [Refused EXCEPT ![t] = "full"]
         \/ /\ ~stopping /\ ~QueueFull /\ MustWait(next_ticket)
            /\ Queued' = Queued \cup {t} /\ Admitted' = Admitted
            /\ ticket' = [ticket EXCEPT ![t] = next_ticket]
            /\ next_ticket' = next_ticket + 1
            /\ Refused' = [Refused EXCEPT ![t] = "no"]
         \/ /\ ~stopping /\ ~MustWait(next_ticket)
            /\ Queued' = Queued /\ Admitted' = Admitted \cup {t}
            /\ ticket' = [ticket EXCEPT ![t] = next_ticket]
            /\ next_ticket' = next_ticket + 1
            /\ Refused' = [Refused EXCEPT ![t] = "no"]
  BY AcquireEffect
<1>2. /\ Keyed(Queued, ticket) /\ q \in Seq(Queued) /\ Len(q) = waiting /\ waiting \in Nat
  BY QueueIsKeyed
<1>3. /\ ticket \in [Threads -> Nat] /\ next_ticket \in Nat /\ serving_ticket \in Nat
      /\ Queued \subseteq Threads /\ active \in BOOLEAN
  BY SchedulerAssumption DEF SchedInv, SchedTypeOK, Queued
<1>5. ~Fifo!Involved(t)
  <2>1. \A i \in 1 .. Len(q) : q[i] # t
    BY <1>1, <1>2
  <2> QED
    BY <1>1, <2>1 DEF Fifo!Involved, Fifo!Waiting
<1>4. CASE /\ UNCHANGED <<Queued, Admitted, ticket, next_ticket>>
           /\ \/ stopping /\ Refused' = [Refused EXCEPT ![t] = "shutdown"]
              \/ ~stopping /\ QueueFull /\ Refused' = [Refused EXCEPT ![t] = "full"]
  <2>1. QueueFull => (Admitted # {} \/ q # <<>>) /\ Len(q) >= MaxWaiting
    <3>1. active => Admitted # {}
      BY DEF SchedInv, OneAtATime
    <3>2. q = <<>> => Len(q) = 0
      OBVIOUS
    <3> HIDE DEF q
    <3> QED
      BY <1>2, <3>1, <3>2 DEF QueueFull
  <2>2. Ordered(Queued', ticket') = q
    BY <1>4
  <2>3. Fifo!Refuse(t)
    BY <1>1, <1>4, <1>5, <2>1, <2>2 DEF Fifo!Refuse, Fifo!TurnsAway
  <2> QED
    BY <2>3 DEF Fifo!Next
<1>6. CASE /\ ~stopping /\ ~QueueFull /\ MustWait(next_ticket)
           /\ Queued' = Queued \cup {t} /\ Admitted' = Admitted
           /\ ticket' = [ticket EXCEPT ![t] = next_ticket]
           /\ Refused' = [Refused EXCEPT ![t] = "no"]
  <2>1. Ordered(Queued', ticket') = Append(q, t)
    <3>1. \A s \in Queued : ticket'[s] = ticket[s] /\ ticket[s] < ticket'[t]
      BY <1>1, <1>3, <1>6 DEF QueueInv
    <3>2. ticket'[t] \in Nat
      BY <1>3, <1>6
    <3>3. Follows(t, Queued, ticket, ticket')
      BY <1>1, <3>1, <3>2 DEF Follows
    <3>4. Appends(Ordered(Queued \cup {t}, ticket'), Ordered(Queued, ticket), t)
      BY <1>2, <3>3, OrderedAppend
    <3> QED
      BY <1>6, <3>4 DEF Appends
  <2>2. ~(Admitted = {} /\ q = <<>>) /\ Len(q) < MaxWaiting
    <3>1. active \/ waiting > 0
      BY <1>3, <1>6 DEF MustWait, SchedInv, TicketCount
    <3>2. waiting < MaxWaiting
      BY <1>2, <1>6, <3>1, SchedulerAssumption DEF QueueFull
    <3>3. active => Admitted # {}
      BY DEF SchedInv, OneAtATime
    <3>4. q = <<>> => Len(q) = 0
      OBVIOUS
    <3> HIDE DEF q
    <3> QED
      BY <1>2, <3>1, <3>2, <3>3, <3>4
  <2>3. Fifo!Arrive(t)
    BY <1>1, <1>5, <1>6, <2>1, <2>2 DEF Fifo!Arrive, Fifo!TurnsAway
  <2> QED
    BY <2>3 DEF Fifo!Next
<1>7. CASE /\ ~stopping /\ ~MustWait(next_ticket)
           /\ Queued' = Queued /\ Admitted' = Admitted \cup {t}
           /\ ticket' = [ticket EXCEPT ![t] = next_ticket]
           /\ Refused' = [Refused EXCEPT ![t] = "no"]
  <2>1. ~active /\ next_ticket = serving_ticket
    BY <1>7 DEF MustWait
  <2>2. Admitted = {}
    BY <2>1 DEF SchedInv, OneAtATime
  <2>3. waiting = 0
    BY <1>3, <1>7, <2>1 DEF SchedInv, TicketCount
  <2>4. q = <<>>
    <3> HIDE DEF q
    <3> QED
      BY <1>2, <2>3
  <2>5. Ordered(Queued', ticket') = q
    <3>1. \A s \in Queued : ticket'[s] = ticket[s]
      BY <1>1, <1>3, <1>7
    <3> QED
      BY <1>7, <3>1, OrderedSame
  <2>6. Admitted' = {t}
    BY <1>7, <2>2
  <2> HIDE DEF q
  <2>7. Fifo!Arrive(t)
    BY <1>1, <1>5, <1>7, <2>2, <2>4, <2>5, <2>6 DEF Fifo!Arrive, Fifo!TurnsAway, q
  <2> QED
    BY <2>7 DEF Fifo!Next
<1> QED
  BY <1>1, <1>4, <1>6, <1>7

LEMMA RecheckServes ==
    ASSUME SchedInv, QueueInv, NEW t \in Threads, Recheck(t)
    PROVE  [Fifo!Next]_(Fifo!fifoVars)
<1> DEFINE q == Ordered(Queued, ticket)
           i == Rank(Queued, ticket, t) + 1
<1>1. /\ UNCHANGED <<stopping, next_ticket, ticket>> /\ t \in Queued
      /\ \/ /\ stopping /\ Queued' = Queued \ {t} /\ Admitted' = Admitted
            /\ Refused' = [Refused EXCEPT ![t] = "shutdown"]
         \/ UNCHANGED <<Queued, Admitted, Refused>>
         \/ /\ ~stopping /\ ~MustWait(ticket[t])
            /\ Queued' = Queued \ {t} /\ Admitted' = Admitted \cup {t}
            /\ UNCHANGED Refused
  BY RecheckEffect
<1>2. CASE UNCHANGED <<Queued, Admitted, Refused>>
  BY <1>1, <1>2 DEF Fifo!fifoVars
<1>3. Keyed(Queued, ticket) /\ q \in Seq(Queued)
  BY QueueIsKeyed
<1>4. /\ i \in 1 .. Len(q) /\ q[i] = t
      /\ Ordered(Queued \ {t}, ticket) = SubSeq(q, 1, i - 1) \o SubSeq(q, i + 1, Len(q))
  BY <1>1, <1>3, OrderedRemove
<1>5. CASE /\ stopping /\ Queued' = Queued \ {t} /\ Admitted' = Admitted
           /\ Refused' = [Refused EXCEPT ![t] = "shutdown"]
  <2>1. Ordered(Queued', ticket') = SubSeq(q, 1, i - 1) \o SubSeq(q, i + 1, Len(q))
    BY <1>1, <1>4, <1>5
  <2> HIDE DEF i
  <2>2. Fifo!Dismiss(t)
    BY <1>1, <1>4, <1>5, <2>1 DEF Fifo!Dismiss, Fifo!TurnsAway
  <2> QED
    BY <2>2 DEF Fifo!Next
<1>6. CASE /\ ~stopping /\ ~MustWait(ticket[t])
           /\ Queued' = Queued \ {t} /\ Admitted' = Admitted \cup {t}
           /\ UNCHANGED Refused
  <2>1. ~active /\ ticket[t] = serving_ticket
    BY <1>6 DEF MustWait
  <2>2. Admitted = {} /\ Admitted' = {t}
    BY <1>6, <2>1 DEF SchedInv, OneAtATime
  <2>3. Before(Queued, ticket, t) = {}
    <3>1. \A s \in Queued : ticket[s] \in serving_ticket .. next_ticket - 1
      BY <1>6 DEF SchedInv, TicketsAreTheQueue
    <3>2. serving_ticket \in Int /\ next_ticket \in Int
      BY SchedulerAssumption DEF SchedInv, SchedTypeOK
    <3> QED
      BY <2>1, <3>1, <3>2 DEF Before
  <2>4. i = 1
    BY <2>3, FS_EmptySet DEF Rank
  <2>5. Ordered(Queued', ticket') = SubSeq(q, 1, 0) \o SubSeq(q, 2, Len(q))
    <3>1. i - 1 = 0 /\ i + 1 = 2
      BY <2>4
    <3>2. Ordered(Queued', ticket') = Ordered(Queued \ {t}, ticket)
      BY <1>1, <1>6
    <3> HIDE DEF q, i
    <3> QED
      BY <1>4, <3>1, <3>2
  <2> HIDE DEF q, i
  <2>6. Len(q) \in Nat /\ Len(q) >= 1 /\ q # <<>>
    BY <1>3, <1>4, <2>4
  <2>7. Head(q) = t
    BY <1>3, <1>4, <2>4, <2>6
  <2>8. SubSeq(q, 1, 0) \o SubSeq(q, 2, Len(q)) = Tail(q)
    BY <1>3, <2>6
  <2>9. Fifo!Serve
    BY <1>1, <1>6, <2>2, <2>5, <2>6, <2>7, <2>8 DEF Fifo!Serve, q
  <2> QED
    BY <2>9 DEF Fifo!Next
<1> QED
  BY <1>1, <1>2, <1>5, <1>6

LEMMA SchedStepIsFifoStep ==
    ASSUME SchedInv, QueueInv, [SchedNext]_schedVars
    PROVE  [Fifo!Next]_(Fifo!fifoVars)
<1>1. ASSUME NEW t \in Threads, Release(t) PROVE Fifo!Finish
  BY <1>1, WakingEffect DEF Fifo!Finish
<1>2. ASSUME NEW t \in Threads, SpuriousWake(t) PROVE UNCHANGED Fifo!fifoVars
  BY <1>2, WakingEffect DEF Fifo!fifoVars
<1>3. CASE Stop
  <2>1. UNCHANGED <<ticket, Queued, Admitted, Refused>> /\ stopping' = TRUE
    <3>1. CASE Threads = {}
      BY <1>3, <3>1 DEF Stop, Queued, Admitted, Refused
    <3>2. CASE Threads # {}
      BY <1>3, <3>2, WakingEffect
    <3> QED
      BY <3>1, <3>2
  <2>2. Fifo!Stop
    BY <2>1 DEF Fifo!Stop
  <2> QED
    BY <2>2 DEF Fifo!Next
<1>4. CASE UNCHANGED schedVars
  BY <1>4 DEF schedVars, Fifo!fifoVars, Queued, Admitted, Refused
<1> QED
  BY <1>1, <1>2, <1>3, <1>4, AcquireArrives, RecheckServes DEF SchedNext, Fifo!Next

\* The scheduler of serve mode is a bounded first-in first-out admission: a
\* request gets the model alone and in the order of its ticket, whichever thread
\* pthread_cond_broadcast wakes first, is refused only for the reason it is told, and
\* nobody gets the model after a stop.
THEOREM SchedulerIsFifo == SchedSpec => ImplementsFifo
<1>1. SchedInit => Fifo!Init
  <2> SUFFICES ASSUME SchedInit PROVE Fifo!Init
    OBVIOUS
  <2>1. SchedInv /\ QueueInv
    BY SchedInitInv, QueueInvInit
  <2>2. waiting = 0 /\ Admitted = {} /\ stopping = FALSE
    BY DEF SchedInit, Admitted
  <2>3. Ordered(Queued, ticket) = <<>>
    BY <2>1, <2>2, QueueIsKeyed
  <2>4. Refused = [t \in Threads |-> "no"]
    BY DEF SchedInit, Refused
  <2> QED
    BY <2>2, <2>3, <2>4 DEF Fifo!Init
<1>2. QueueInv /\ SchedInv /\ [SchedNext]_schedVars => QueueInv'
  BY QueueInvNext
<1>3. QueueInv /\ SchedInv /\ [SchedNext]_schedVars => [Fifo!Next]_(Fifo!fifoVars)
  BY SchedStepIsFifoStep
<1> QED
  BY <1>1, <1>2, <1>3, SchedAlways, QueueInvInit, PTL DEF SchedSpec, ImplementsFifo, Fifo!Spec

-----------------------------------------------------------------------------
(***************************************************************************)
(* The context policy, for every limit, length and percentage.             *)
(***************************************************************************)

\* C's division by 100 (context_limit and compaction thresholds).
LEMMA LimitDivision ==
    ASSUME NEW n \in Nat
    PROVE  /\ n \div 100 \in Nat
           /\ 100 * (n \div 100) <= n /\ n < 100 * (n \div 100) + 100
  BY SMT

-----------------------------------------------------------------------------
(* FitsIn: the three guarded comparisons are the sum, without its overflow. *)

\* context_fits answers the question its callers ask: do the conversation, the
\* new tokens and the answer fit together?
THEOREM FitsIsTheSum ==
    ASSUME NEW limit \in Nat, NEW existing \in Nat, NEW extra \in Nat,
           NEW generated \in Nat
    PROVE  FitsIn(limit, existing, extra, generated)
               <=> existing + extra + generated <= limit
  BY SMT DEF FitsIn

\* Each difference context_fits computes is an int when it is computed, for all
\* ints: the tests before it guard it.  (Adding up the three would overflow.)
THEOREM FitsNeverOverflows ==
    ASSUME NEW limit \in Int32, NEW existing \in Int32, NEW extra \in Int32,
           NEW generated \in Int32,
           existing >= 0, extra >= 0, generated >= 0, existing <= limit
    PROVE  /\ limit - existing \in Int32
           /\ extra <= limit - existing => limit - existing - extra \in Int32
<1>1. IntMax \in Nat
  BY SMT DEF IntMax
<1>2. \A n \in Int : n \in Int32 <=> - IntMax - 1 <= n /\ n <= IntMax
  BY <1>1, SMT DEF Int32
<1>3. limit \in Int /\ existing \in Int /\ extra \in Int
  BY <1>1, SMT DEF Int32
<1>. QED
  BY <1>1, <1>2, <1>3, SMT

-----------------------------------------------------------------------------
(* Compaction.                                                             *)

\* The threshold is the percentage rounded up: a projected length reaches it
\* exactly when it reaches that share of the limit.
THEOREM ThresholdIsTheShare ==
    ASSUME NEW limit \in Nat, NEW percent \in 1 .. 100, NEW projected \in Nat
    PROVE  projected >= Threshold(limit, percent)
               <=> 100 * projected >= limit * percent
<1>. DEFINE n == limit * percent + 99
            q == n \div 100
<1>1. n \in Nat /\ limit * percent \in Nat
  BY SMT
<1>2. q \in Nat /\ 100 * q <= n /\ n < 100 * q + 100
  BY <1>1, LimitDivision
<1>. HIDE DEF q
<1>3. DEFINE share == limit * percent
<1>. HIDE DEF share
<1>4. share \in Nat /\ n = share + 99
  BY <1>1 DEF share
<1>. HIDE DEF n
<1>5. projected >= q <=> 100 * projected >= share
  BY <1>2, <1>4, SMT
<1>6. q = Threshold(limit, percent)
  BY DEF q, n, Threshold
<1>. QED
  BY <1>5, <1>6 DEF share

\* A turn that is refused for its length is never refused before compaction had
\* its chance, unless the conversation itself is too short to gain by it: when
\* it does not fit, it has passed every threshold.
THEOREM RefusedTurnIsCandidate ==
    ASSUME NEW limit \in Nat, limit >= 2, NEW percent \in 1 .. 100,
           NEW existing \in Nat, NEW extra \in Nat, NEW generated \in Nat,
           existing >= 2, existing >= limit \div 4,
           ~ FitsIn(limit, existing, extra, generated)
    PROVE  ShouldCompact(existing, extra, generated, limit, percent)
<1>. DEFINE projected == existing + extra + generated
<1>1. projected \in Nat /\ projected > limit
  BY FitsIsTheSum, SMT
<1>2. 100 * projected >= limit * percent
  <2>1. limit * percent <= limit * 100
    BY SMT
  <2>. QED
    BY <1>1, <2>1, SMT
<1>3. projected >= Threshold(limit, percent)
  BY <1>1, <1>2, ThresholdIsTheShare
<1>. QED
  BY <1>3, SMT DEF ShouldCompact

\* compact_session finds room for a summary exactly when 256 tokens remain, and
\* then the summary it asks for fits in the limit with what precedes it.
THEOREM SummaryFits ==
    ASSUME NEW limit \in Nat, NEW before \in Nat, NEW extra \in Nat
    PROVE  /\ CanSummarize(limit, before, extra)
                  <=> extra > 0 /\ before + extra + 256 <= limit
           /\ CanSummarize(limit, before, extra)
                  => FitsIn(limit, before, extra, SummaryTokens(limit, before, extra))
<1>. DEFINE part == limit \div 24
<1>1. part \in Nat
  BY SMT
<1>. HIDE DEF part
<1>2. DEFINE tokens == Lesser(2048, Greater(512, part))
<1>3. tokens \in 512 .. 2048
  BY <1>1, SMT DEF Lesser, Greater
<1>4. SummaryTokens(limit, before, extra) = Lesser(limit - before - extra, tokens)
  BY DEF SummaryTokens, part
<1>. HIDE DEF tokens
<1>5. CanSummarize(limit, before, extra)
          <=> extra > 0 /\ Lesser(limit - before - extra, tokens) >= 256
  BY <1>4 DEF CanSummarize
<1>6. Lesser(limit - before - extra, tokens)
          = IF limit - before - extra <= tokens THEN limit - before - extra ELSE tokens
  BY DEF Lesser
<1>7. CanSummarize(limit, before, extra) <=> extra > 0 /\ before + extra + 256 <= limit
  BY <1>3, <1>5, <1>6, SMT
<1>8. ASSUME CanSummarize(limit, before, extra)
      PROVE  FitsIn(limit, before, extra, SummaryTokens(limit, before, extra))
  <2>1. limit - before - extra \in Nat
    BY <1>7, <1>8, SMT
  <2>2. SummaryTokens(limit, before, extra) \in 0 .. limit - before - extra
    BY <1>3, <1>4, <1>6, <2>1, SMT
  <2>. QED
    BY <2>1, <2>2, SMT DEF FitsIn
<1>. QED
  BY <1>7, <1>8

\* While a conversation is below the highest threshold the settings accept (90
\* percent), it can be compacted, provided a tenth of the limit holds the
\* instruction and the shortest summary.  Beyond, compaction may have no room.
THEOREM BelowThresholdCanSummarize ==
    ASSUME NEW limit \in Nat, NEW percent \in 1 .. 90, NEW before \in Nat,
           NEW extra \in Nat, extra > 0, 10 * (extra + 256) <= limit,
           before < Threshold(limit, percent)
    PROVE  CanSummarize(limit, before, extra)
<1>1. 100 * before < limit * percent
  <2>1. limit * percent \in Nat /\ limit * percent + 99 \in Nat
    BY SMT
  <2>2. Threshold(limit, percent) \in Nat
    BY <2>1, LimitDivision DEF Threshold
  <2>3. ~ (before >= Threshold(limit, percent))
    BY <2>2, SMT
  <2>4. ~ (100 * before >= limit * percent)
    <3>1. percent \in 1 .. 100
      BY SMT
    <3>. QED
      BY <2>3, <3>1, ThresholdIsTheShare
  <2>. QED
    BY <2>1, <2>4, SMT
<1>2. limit * percent <= limit * 90
  BY SMT
<1>3. before + extra + 256 <= limit
  BY <1>1, <1>2, SMT
<1>. QED
  BY <1>3, SummaryFits

-----------------------------------------------------------------------------
(* The limit at start-up.                                                  *)

\* Whatever the host and the options, the limit the server starts with is one
\* the model can hold: what SamosaServe assumes of FirstLimit.
THEOREM LimitIsTheModels ==
    ASSUME NEW model_limit \in Nat, model_limit >= 2, NEW auto \in BOOLEAN,
           NEW requested \in Int, NEW memory \in Nat,
           Configurable(auto, requested, model_limit)
    PROVE  ConfiguredLimit(auto, requested, memory, model_limit) \in 2 .. model_limit
  BY SMT DEF Configurable, ConfiguredLimit, AutoLimit, Lesser

\* A host with more memory is never given a shorter context by context_auto_limit,
\* also where a tier is longer than the model's own limit.
THEOREM MoreMemoryLongerLimit ==
    ASSUME NEW model_limit \in Nat, NEW memory \in Nat, NEW more \in Nat,
           memory <= more
    PROVE  AutoLimit(memory, model_limit) <= AutoLimit(more, model_limit)
  BY SMT DEF AutoLimit, Lesser

\* C's test a > max / b, the usual guard of a product.
LEMMA Quotient ==
    ASSUME NEW m \in Nat, NEW b \in Nat, b > 0, NEW a \in Nat, a <= m \div b
    PROVE  a * b <= m
<1>. DEFINE q == m \div b
<1>1. q \in Int /\ b * q <= m
  BY SMT
<1>. HIDE DEF q
<1>2. a <= q
  BY DEF q
<1>3. a * b <= q * b
  BY <1>1, <1>2, SMT
<1>. QED
  BY <1>1, <1>3, SMT

\* The guards of model_kv_bytes_per_token are enough: when it returns a size, it
\* is the product, and no product on the way to it wrapped around.
THEOREM KvBytesNeverWrap ==
    ASSUME NEW full \in Nat, NEW heads \in Nat, NEW dim \in Nat, NEW word \in Nat,
           KvBytesPerToken(full, heads, dim, word) # 0
    PROVE  /\ KvBytesPerToken(full, heads, dim, word) = full * heads * dim * 8
           /\ full * heads <= word /\ full * heads * dim <= word
           /\ full * heads * dim * 8 <= word
<1>1. /\ full # 0 /\ heads # 0 /\ dim # 0
      /\ ~ (full > word \div heads) /\ ~ (full * heads > word \div dim)
      /\ ~ (full * heads * dim > word \div 8)
      /\ KvBytesPerToken(full, heads, dim, word) = full * heads * dim * 8
  BY DEF KvBytesPerToken
<1>2. full * heads \in Nat /\ full * heads * dim \in Nat
  BY SMT
<1>3. full * heads <= word
  <2>1. word \div heads \in Int /\ full <= word \div heads
    BY <1>1, SMT
  <2>. QED
    BY <1>1, <2>1, Quotient, SMT
<1>4. full * heads * dim <= word
  <2>. DEFINE rows == full * heads
  <2>1. rows \in Nat
    BY <1>2
  <2>. HIDE DEF rows
  <2>2. word \div dim \in Int /\ ~ (rows > word \div dim)
    BY <1>1, SMT DEF rows
  <2>3. rows * dim <= word
    BY <1>1, <2>1, <2>2, Quotient, SMT
  <2>. QED
    BY <2>3 DEF rows
<1>5. full * heads * dim * 8 <= word
  <2>. DEFINE floats == full * heads * dim
  <2>1. floats \in Nat /\ ~ (floats > word \div 8)
    BY <1>1, <1>2
  <2>. HIDE DEF floats
  <2>2. floats * 8 <= word
    BY <2>1, SMT
  <2>. QED
    BY <2>2 DEF floats
<1>. QED
  BY <1>1, <1>3, <1>4, <1>5

-----------------------------------------------------------------------------
(***************************************************************************)
(* The server.                                                             *)
(***************************************************************************)

\* Steps of the server that leave the scheduler alone.
LEMMA QuietSteps ==
    ASSUME NEW t \in Threads,
           \/ ParseMessages(t) \/ CheckTurn(t) \/ HandlePosted(t) \/ Remeasure(t)
           \/ StartCompact(t) \/ EndSummary(t) \/ RecheckContext(t)
           \/ ChangeSettings(t) \/ BeginTurn(t) \/ EndPrefill(t) \/ EndTurn(t)
           \/ DisposeImage(t) \/ RaiseCancel(t) \/ CloseListener(t) \/ Disconnect(t)
    PROVE  UNCHANGED schedVars
  BY DEF ParseMessages, CheckTurn, HandlePosted, Remeasure, StartCompact, EndSummary,
         RecheckContext, ChangeSettings, BeginTurn, EndPrefill, EndTurn, DisposeImage,
         RaiseCancel, CloseListener, Disconnect

\* Each step of the server is a step of its scheduler or leaves the scheduler alone.
LEMMA ServeStepIsSchedStep == [Next]_serveVars => [SchedNext]_schedVars
<1> SUFFICES ASSUME [Next]_serveVars PROVE [SchedNext]_schedVars
  OBVIOUS
<1>1. ASSUME NEW t \in Threads, NEW r \in Requests, Connect(t, r) PROVE UNCHANGED schedVars
  BY <1>1 DEF Connect
<1>2. ASSUME NEW t \in Threads, Handler(t) PROVE [SchedNext]_schedVars
  <2>1. CASE Enter(t)
    BY <2>1 DEF Enter, SchedNext
  <2>2. CASE GiveBack(t)
    BY <2>2 DEF GiveBack, ReturnsModel, SchedNext
  <2>3. CASE StopScheduler(t)
    BY <2>3 DEF StopScheduler, SchedNext
  <2> QED
    BY <1>2, <2>1, <2>2, <2>3, QuietSteps DEF Handler
<1>3. ASSUME NEW t \in Threads, WakeUp(t) PROVE SchedNext
  BY <1>3 DEF WakeUp, SchedNext
<1>4. CASE \/ Main \/ Accept \/ AcceptFails \/ SignalCancels \/ SignalStops
           \/ \E t \in Threads : Client(t)
  BY <1>4 DEF Client, Main, Count, StopAccepting, ConnectFails, Drain, Accept, AcceptFails, SignalCancels,
           SignalStops
<1>5. CASE UNCHANGED serveVars
  BY <1>5 DEF serveVars
<1> QED
  BY <1>1, <1>2, <1>3, <1>4, <1>5 DEF Next, Main

\* Serve mode uses the scheduler only through its operations: whatever the
\* handlers do, it behaves as ServeScheduler says.
THEOREM ServeUsesScheduler == Spec => SchedSpec
<1>1. Init => SchedInit
  BY DEF Init
<1> QED
  BY <1>1, ServeStepIsSchedStep, PTL DEF Spec, SchedSpec

\* Handlers get the model in the order in which they asked for it, one at a time, and none
\* after a stop, wherever their turns, refusals, cancels and early returns give it back.
THEOREM HandlersAreServedInOrder == Spec => ImplementsFifo
  BY ServeUsesScheduler, SchedulerIsFifo

\* Where a handler is agrees with where the scheduler has its thread.
InStep ==
    /\ phase \in [Threads -> Phases]
    /\ HandlersReturnModel
    /\ \A t \in Threads : phase[t] = "queued" <=> at[t] \in {"asleep", "woken"}

\* One handler moves on without the scheduler, between two phases that both
\* have the model or that both neither have it nor wait for it.
LEMMA QuietMove ==
    ASSUME InStep, NEW t \in Threads, NEW place \in Phases, UNCHANGED schedVars,
           Goto(t, place), phase[t] # "queued", place # "queued",
           phase[t] \in Holding <=> place \in Holding
    PROVE  InStep'
<1>1. /\ phase' \in [Threads -> Phases] /\ phase'[t] = place
      /\ \A s \in Threads : s # t => phase'[s] = phase[s]
  BY DEF Goto, InStep
<1>2. at' = at
  BY DEF schedVars
<1> QED
  BY <1>1, <1>2 DEF InStep, HandlersReturnModel, Holding

\* Every step keeps a handler's phase in agreement with the scheduler's view of it.
LEMMA InStepNext == SchedTypeOK /\ InStep /\ [Next]_serveVars => InStep'
<1> SUFFICES ASSUME SchedTypeOK, InStep, [Next]_serveVars PROVE InStep'
  OBVIOUS
<1>0. phase \in [Threads -> Phases] /\ at \in [Threads -> Places]
  BY DEF InStep, SchedTypeOK
<1>1. ASSUME NEW t \in Threads, NEW r \in Requests, Connect(t, r) PROVE InStep'
  BY <1>1, QuietMove DEF Connect, Holding, Phases
<1>2. ASSUME NEW t \in Threads, Handler(t) PROVE InStep'
  <2>1. CASE Enter(t)
    <3>1. /\ at' \in [Threads -> Places] /\ \A s \in Threads : s # t => at'[s] = at[s]
          /\ at'[t] \in {"asleep", "admitted", "full", "shutdown"}
      BY <1>0, <2>1 DEF Enter, Acquire, Recheck, Places
    <3>2. /\ phase' = [phase EXCEPT ![t] = AfterAcquire(at'[t])]
          /\ phase[t] \in {"acquire", "queued"}
      BY <2>1 DEF Enter, Goto
    <3>3. /\ phase' \in [Threads -> Phases] /\ \A s \in Threads : s # t => phase'[s] = phase[s]
          /\ phase'[t] = AfterAcquire(at'[t])
      BY <1>0, <3>1, <3>2 DEF AfterAcquire, Phases
    <3> QED
      BY <3>1, <3>3 DEF InStep, HandlersReturnModel, Holding, AfterAcquire
  <2>2. CASE GiveBack(t)
    <3> DEFINE left == [at EXCEPT ![t] = "out"]
               next == IF phase[t] = "leave" THEN "dispose" ELSE "close"
    <3>1. at' = WakeAll(left) /\ phase[t] \in {"leave", "hand_back"}
      BY <2>2 DEF GiveBack, ReturnsModel, Release
    <3>2. left \in [Threads -> Places] /\ left[t] = "out"
      BY <1>0 DEF Places
    <3>3. \A s \in Threads : s # t => left[s] = at[s]
      BY <1>0
    <3>4. /\ phase' \in [Threads -> Phases] /\ \A s \in Threads : s # t => phase'[s] = phase[s]
          /\ phase'[t] \in {"dispose", "close"}
      BY <1>0, <2>2 DEF GiveBack, Goto, Phases
    <3> HIDE DEF left
    <3>5. \A s \in Threads :
            /\ at'[s] = "admitted" <=> left[s] = "admitted"
            /\ at'[s] \in {"asleep", "woken"} <=> left[s] \in {"asleep", "woken"}
      BY <3>1, <3>2, WakeAllPlaces
    <3> QED
      BY <3>2, <3>3, <3>4, <3>5 DEF InStep, HandlersReturnModel, Holding
  <2>3. CASE StopScheduler(t)
    <3>1. at' = WakeAll(at) /\ phase[t] = "stop"
      BY <2>3 DEF StopScheduler, Stop
    <3>2. /\ phase' \in [Threads -> Phases] /\ \A s \in Threads : s # t => phase'[s] = phase[s]
          /\ phase'[t] = "close_listener"
      BY <1>0, <2>3 DEF StopScheduler, Goto, Phases
    <3>3. \A s \in Threads :
            /\ at'[s] = "admitted" <=> at[s] = "admitted"
            /\ at'[s] \in {"asleep", "woken"} <=> at[s] \in {"asleep", "woken"}
      BY <1>0, <3>1, WakeAllPlaces
    <3> QED
      BY <3>1, <3>2, <3>3 DEF InStep, HandlersReturnModel, Holding
  <2>4. CASE ParseMessages(t) \/ CheckTurn(t) \/ HandlePosted(t)
    BY <2>4, QuietMove
       DEF ParseMessages, CheckTurn, HandlePosted, FirstPhase, Phases, Holding
  <2>5. CASE Remeasure(t) \/ StartCompact(t)
    BY <2>5, QuietMove DEF Remeasure, StartCompact, StartSummary, Phases, Holding
  <2>6. CASE EndSummary(t) \/ RecheckContext(t) \/ ChangeSettings(t)
    BY <2>6, QuietMove DEF EndSummary, RecheckContext, ChangeSettings, Phases, Holding
  <2>7. CASE BeginTurn(t) \/ EndPrefill(t) \/ EndTurn(t)
    BY <2>7, QuietMove DEF BeginTurn, EndPrefill, EndTurn, Phases, Holding
  <2>8. CASE DisposeImage(t) \/ RaiseCancel(t) \/ CloseListener(t) \/ Disconnect(t)
    BY <2>8, QuietMove
       DEF DisposeImage, RaiseCancel, CloseListener, Disconnect, Phases, Holding
  <2> QED
    BY <1>2, <2>1, <2>2, <2>3, <2>4, <2>5, <2>6, <2>7, <2>8 DEF Handler
<1>3. ASSUME NEW t \in Threads, WakeUp(t) PROVE InStep'
  <2>1. /\ phase' = phase /\ at'[t] = "woken" /\ at[t] = "asleep"
        /\ \A s \in Threads : s # t => at'[s] = at[s]
    BY <1>0, <1>3 DEF WakeUp, SpuriousWake
  <2> QED
    BY <2>1 DEF InStep, HandlersReturnModel
<1>4. CASE \/ Main \/ Accept \/ AcceptFails \/ SignalCancels \/ SignalStops
           \/ \E t \in Threads : Client(t)
  <2>1. phase' = phase /\ at' = at
    BY <1>4 DEF Client, Main, Count, StopAccepting, ConnectFails, Drain, Accept, AcceptFails, SignalCancels,
           SignalStops, schedVars
  <2> QED
    BY <2>1 DEF InStep, HandlersReturnModel
<1>5. CASE UNCHANGED serveVars
  <2>1. phase' = phase /\ at' = at
    BY <1>5 DEF serveVars, schedVars
  <2> QED
    BY <2>1 DEF InStep, HandlersReturnModel
<1> QED
  BY <1>1, <1>2, <1>3, <1>4, <1>5 DEF Next, Main

\* At the start every handler is at rest on both sides.
LEMMA InStepInit == Init => InStep
  BY DEF Init, SchedInit, InStep, HandlersReturnModel, Phases, Holding

\* The scheduler's invariant and InStep hold together.
LEMMA InStepAlways == Spec => [](SchedInv /\ InStep)
<1>1. Init => SchedInv /\ InStep
  BY InStepInit, SchedInitInv DEF Init
<1>2. (SchedInv /\ InStep) /\ [Next]_serveVars => (SchedInv /\ InStep)'
  BY InStepNext, ServeStepIsSchedStep, SchedNextInv DEF SchedInv
<1> QED
  BY <1>1, <1>2, PTL DEF Spec

\* No path of a handler keeps the model, or works on it without admission.
THEOREM ModelReturned == Spec => []HandlersReturnModel
  BY InStepAlways, PTL DEF InStep

\* Two handlers never hold the model at once.
LEMMA Serial == SchedInv /\ InStep => TurnsAreSerial
  BY DEF SchedInv, InStep, HandlersReturnModel, OneAtATime, Admitted, TurnsAreSerial

\* Work on the model and on the saved conversations is serial.
THEOREM WorkIsSerial == Spec => []TurnsAreSerial
  BY InStepAlways, Serial, PTL

-----------------------------------------------------------------------------
(* What the handlers keep to, given that they work one at a time.          *)

\* A handler works from the snapshot that is still on disk, and the turn it is
\* about to run, or runs, fits the limit in force.
WorkOK(t) ==
    /\ phase[t] = "summarize" =>
           /\ request[t].conversation \in Conversations
           /\ base[t] = session[request[t].conversation]
           /\ base[t] # NoSession
           /\ Asks(t, "chat") => resume[t]
    /\ phase[t] \in {"recheck", "ready"} =>
           Asks(t, "chat") /\ resume[t] = HasSnapshot(t)
    /\ phase[t] = "ready" => TurnFitsContext(t)
    /\ phase[t] \in {"prefill", "decode"} =>
           /\ Asks(t, "chat")
           /\ request[t].conversation \in Conversations =>
                  base[t] = session[request[t].conversation]
           /\ ContextFits(BaseLength(t), request[t].extra, request[t].max_tokens)

WorkPhases == {"summarize", "recheck", "ready", "prefill", "decode"}

StoreInv == ServeTypeOK /\ NoTurnLost /\ \A t \in Threads : WorkOK(t)

\* The fields of a chat and of a settings request.
LEMMA RequestFields ==
    ASSUME NEW r \in RequestType
    PROVE  /\ r.op = "chat" => /\ r.conversation \in Conversations \cup {NoConversation}
                               /\ r.extra \in Nat \ {0} /\ r.max_tokens \in Nat \ {0}
           /\ r.op = "settings" => /\ r.limit \in Nat /\ r.auto \in BOOLEAN
                                   /\ r.threshold \in 50 .. 90
  BY DEF RequestType

\* A snapshot is not the mark of a missing one.
LEMMA SnapshotIsSession == \A s \in Snapshots : s # NoSession
<1>1. Snapshots \subseteq [len : Nat, turns : Nat]
  BY ServeAssumption DEF Snapshots
<1> QED
  BY <1>1, ServeAssumption

\* A step that touches neither the settings nor the snapshots, and no handler
\* that is at work, disturbs nobody's work.
LEMMA Bystanders ==
    ASSUME NoTurnLost, \A s \in Threads : WorkOK(s),
           UNCHANGED <<base, settingsVars, storeVars>>,
           \A s \in Threads : phase'[s] \in WorkPhases =>
                /\ phase'[s] = phase[s]
                /\ request'[s] = request[s] /\ resume'[s] = resume[s]
    PROVE  NoTurnLost' /\ \A s \in Threads : WorkOK(s)'
<1>1. /\ base' = base /\ context_limit' = context_limit
      /\ session' = session /\ saved' = saved
  BY DEF settingsVars, storeVars
<1>2. NoTurnLost'
  BY <1>1 DEF NoTurnLost
<1>3. ASSUME NEW s \in Threads PROVE WorkOK(s)'
  <2>1. CASE phase'[s] \notin WorkPhases
    BY <2>1 DEF WorkOK, WorkPhases
  <2>2. CASE phase'[s] \in WorkPhases
    <3>1. phase'[s] = phase[s] /\ request'[s] = request[s] /\ resume'[s] = resume[s]
      BY <2>2
    <3> QED
      BY <1>1, <3>1 DEF WorkOK, HasSnapshot, TurnFitsContext, ContextFits, FitsIn, Existing,
                        BaseLength, Asks
  <2> QED
    BY <2>1, <2>2
<1> QED
  BY <1>2, <1>3

\* A step of the handler that has the model: only its own work is to be checked.
LEMMA OwnWork ==
    ASSUME SchedInv, InStep, NEW t \in Threads, NEW place, Goto(t, place),
           phase[t] \in Holding, WorkOK(t)'
    PROVE  \A s \in Threads : WorkOK(s)'
<1>1. \A s \in Threads : s # t => phase[s] \notin Holding
  BY Serial DEF TurnsAreSerial
<1>2. \A s \in Threads : s # t => phase'[s] \notin Holding
  BY <1>1 DEF Goto, InStep
<1>3. \A s \in Threads : s # t => WorkOK(s)'
  BY <1>2 DEF WorkOK, Holding
<1> QED
  BY <1>3

\* The steps that only pass by.
LEMMA PassingSteps ==
    ASSUME StoreInv, InStep, NEW t \in Threads,
           \/ ParseMessages(t) \/ CheckTurn(t) \/ HandlePosted(t) \/ Enter(t)
           \/ GiveBack(t) \/ DisposeImage(t) \/ RaiseCancel(t) \/ StopScheduler(t)
           \/ CloseListener(t) \/ Disconnect(t) \/ WakeUp(t)
    PROVE  NoTurnLost' /\ \A s \in Threads : WorkOK(s)'
<1>0. phase \in [Threads -> Phases] /\ request \in [Threads -> RequestType]
      /\ resume \in [Threads -> BOOLEAN]
  BY DEF StoreInv, ServeTypeOK
<1>1. UNCHANGED <<base, settingsVars, storeVars>> /\ request' = request
  BY DEF ParseMessages, CheckTurn, HandlePosted, Enter, GiveBack, DisposeImage,
         RaiseCancel, StopScheduler, CloseListener, Disconnect, WakeUp, localVars
<1>2. \A s \in Threads : s # t => phase'[s] = phase[s] /\ resume'[s] = resume[s]
  BY <1>0 DEF ParseMessages, CheckTurn, HandlePosted, Enter, GiveBack, DisposeImage,
         RaiseCancel, StopScheduler, CloseListener, Disconnect, WakeUp, localVars, Goto
<1>3. CASE ParseMessages(t) \/ CheckTurn(t) \/ HandlePosted(t) \/ Enter(t)
           \/ GiveBack(t) \/ DisposeImage(t) \/ RaiseCancel(t) \/ StopScheduler(t)
           \/ CloseListener(t) \/ Disconnect(t)
  <2>1. phase'[t] \notin WorkPhases
    BY <1>0, <1>3
       DEF ParseMessages, CheckTurn, HandlePosted, FirstPhase, Enter, AfterAcquire,
           GiveBack, DisposeImage, RaiseCancel, StopScheduler, CloseListener,
           Disconnect, Goto, WorkPhases
  <2> QED
    BY <1>1, <1>2, <2>1, Bystanders DEF StoreInv
<1>4. CASE WakeUp(t)
  <2>1. phase' = phase /\ resume' = resume
    BY <1>4 DEF WakeUp, localVars
  <2> QED
    BY <1>1, <2>1, Bystanders DEF StoreInv
<1> QED
  BY <1>3, <1>4

\* The steps that read the snapshot and decide what to do.
LEMMA DecidingSteps ==
    ASSUME StoreInv, SchedInv, InStep, NEW t \in Threads,
           Remeasure(t) \/ StartCompact(t) \/ RecheckContext(t) \/ ChangeSettings(t)
    PROVE  NoTurnLost' /\ \A s \in Threads : WorkOK(s)'
<1>0. /\ phase \in [Threads -> Phases] /\ request[t] \in RequestType
      /\ resume \in [Threads -> BOOLEAN]
      /\ base \in [Threads -> Snapshots \cup {NoSession}]
      /\ WorkOK(t) /\ NoTurnLost
  BY DEF StoreInv, ServeTypeOK
<1>1. UNCHANGED storeVars /\ request' = request /\ phase[t] \in Holding
  BY DEF Remeasure, StartCompact, RecheckContext, ChangeSettings, localVars, Holding
<1>2. NoTurnLost' /\ session' = session
  BY <1>0, <1>1 DEF storeVars, NoTurnLost
<1>3. WorkOK(t)' /\ \E place : Goto(t, place)
  <2>1. CASE Remeasure(t)
    <3>1. resume'[t] = HasSnapshot(t) /\ Asks(t, "chat") /\ UNCHANGED settingsVars
      BY <1>0, <2>1 DEF Remeasure, Refreshed
    <3>2. CASE AutoCandidate(t) /\ StartSummary(t)
      <4>1. phase'[t] = "summarize" /\ base'[t] = session[request[t].conversation]
        BY <1>0, <3>2 DEF StartSummary, Goto
      <4>2. HasSnapshot(t)
        BY <3>2 DEF AutoCandidate
      <4> QED
        BY <1>1, <1>2, <3>1, <3>2, <4>1, <4>2 DEF WorkOK, HasSnapshot, StartSummary, Asks
    <3>3. CASE AdmittedFits(t) /\ Goto(t, "ready")
      <4>1. phase'[t] = "ready" /\ TurnFitsContext(t)
        BY <1>0, <3>3 DEF Goto, AdmittedFits
      <4>2. TurnFitsContext(t)' /\ HasSnapshot(t)' = HasSnapshot(t)
        BY <1>1, <1>2, <3>1, <4>1
           DEF TurnFitsContext, ContextFits, FitsIn, Existing, HasSnapshot, settingsVars
      <4> QED
        BY <1>1, <3>1, <3>3, <4>1, <4>2 DEF WorkOK, Asks
    <3>4. CASE Goto(t, "hand_back")
      <4>1. phase'[t] = "hand_back"
        BY <1>0, <3>4 DEF Goto
      <4> QED
        BY <3>4, <4>1 DEF WorkOK
    <3> QED
      BY <2>1, <3>2, <3>3, <3>4 DEF Remeasure
  <2>2. CASE StartCompact(t)
    <3>1. CASE HasSnapshot(t) /\ StartSummary(t)
      <4>1. phase'[t] = "summarize" /\ base'[t] = session[request[t].conversation]
        BY <1>0, <3>1 DEF StartSummary, Goto
      <4> QED
        BY <1>1, <1>2, <2>2, <3>1, <4>1
           DEF WorkOK, HasSnapshot, StartSummary, StartCompact, Asks
    <3>2. CASE Goto(t, "hand_back")
      <4>1. phase'[t] = "hand_back"
        BY <1>0, <3>2 DEF Goto
      <4> QED
        BY <3>2, <4>1 DEF WorkOK
    <3> QED
      BY <2>2, <3>1, <3>2 DEF StartCompact
  <2>3. CASE RecheckContext(t)
    <3>1. UNCHANGED <<localVars, settingsVars>> /\ phase[t] = "recheck"
      BY <2>3 DEF RecheckContext
    <3>2. CASE AdmittedFits(t) /\ Goto(t, "ready")
      <4>1. phase'[t] = "ready" /\ TurnFitsContext(t)
        BY <1>0, <3>2 DEF Goto, AdmittedFits
      <4>2. TurnFitsContext(t)' /\ HasSnapshot(t)' = HasSnapshot(t)
        BY <1>1, <1>2, <3>1, <4>1
           DEF TurnFitsContext, ContextFits, FitsIn, Existing, HasSnapshot, settingsVars
      <4> QED
        BY <1>0, <3>1, <3>2, <4>1, <4>2 DEF WorkOK, Asks, localVars
    <3>3. CASE Goto(t, "hand_back")
      <4>1. phase'[t] = "hand_back"
        BY <1>0, <3>3 DEF Goto
      <4> QED
        BY <3>3, <4>1 DEF WorkOK
    <3> QED
      BY <2>3, <3>2, <3>3 DEF RecheckContext
  <2>4. CASE ChangeSettings(t)
    <3>1. phase'[t] = "hand_back" /\ Goto(t, "hand_back")
      BY <1>0, <2>4 DEF ChangeSettings, Goto
    <3> QED
      BY <3>1 DEF WorkOK
  <2> QED
    BY <2>1, <2>2, <2>3, <2>4
<1> QED
  BY <1>1, <1>2, <1>3, OwnWork

\* A compaction keeps the turns its snapshot remembers.
LEMMA SummaryStep ==
    ASSUME StoreInv, SchedInv, InStep, NEW t \in Threads, EndSummary(t)
    PROVE  /\ NoTurnLost' /\ \A s \in Threads : WorkOK(s)'
           /\ session' \in [Conversations -> Snapshots \cup {NoSession}]
<1> DEFINE c == request[t].conversation
<1>0. /\ phase \in [Threads -> Phases] /\ base[t] \in Snapshots /\ c \in Conversations
      /\ session \in [Conversations -> Snapshots \cup {NoSession}]
      /\ session[c] = base[t] /\ phase[t] = "summarize" /\ phase[t] \in Holding
      /\ resume' = resume /\ request' = request /\ base' = base /\ saved' = saved
      /\ UNCHANGED settingsVars /\ NoTurnLost
  BY DEF StoreInv, ServeTypeOK, WorkOK, EndSummary, localVars, Holding
<1> HIDE DEF c
<1>1. CASE Goto(t, "hand_back") /\ UNCHANGED session
  <2>1. phase'[t] = "hand_back" /\ session' = session
    BY <1>0, <1>1 DEF Goto
  <2>2. WorkOK(t)'
    BY <2>1 DEF WorkOK
  <2> QED
    BY <1>0, <1>1, <2>1, <2>2, OwnWork DEF NoTurnLost
<1>2. CASE /\ \E after \in 2 .. base[t].len - 1 :
                session' = [session EXCEPT ![c] = [base[t] EXCEPT !.len = after]]
           /\ Goto(t, IF Asks(t, "chat") THEN "recheck" ELSE "hand_back")
  <2>1. PICK after \in 2 .. base[t].len - 1 :
            session' = [session EXCEPT ![c] = [base[t] EXCEPT !.len = after]]
    BY <1>2
  <2>2. base[t].len \in 2 .. ModelLimit /\ base[t].turns \in Nat /\ ModelLimit \in Nat
    BY <1>0, ServeAssumption DEF Snapshots
  <2>3. after \in 2 .. ModelLimit
    BY <2>1, <2>2
  <2>4. /\ [base[t] EXCEPT !.len = after] \in Snapshots
        /\ [base[t] EXCEPT !.len = after].turns = base[t].turns
    BY <1>0, <2>2, <2>3 DEF Snapshots
  <2>5. session'[c] = [base[t] EXCEPT !.len = after]
    BY <1>0, <2>1
  <2>6. \A d \in Conversations : d # c => session'[d] = session[d]
    BY <1>0, <2>1
  <2>7. session' \in [Conversations -> Snapshots \cup {NoSession}]
    BY <1>0, <2>1, <2>4
  <2>8. session'[c] # NoSession /\ session[c] # NoSession
    BY <1>0, <2>4, <2>5, SnapshotIsSession
  <2>9. NoTurnLost'
    BY <1>0, <2>4, <2>5, <2>6, <2>8 DEF NoTurnLost
  <2>10. phase'[t] = IF Asks(t, "chat") THEN "recheck" ELSE "hand_back"
    BY <1>0, <1>2 DEF Goto
  <2>11. Asks(t, "chat") => resume[t]
    BY <1>0 DEF StoreInv, WorkOK
  <2>12. WorkOK(t)'
    BY <1>0, <2>8, <2>10, <2>11 DEF WorkOK, HasSnapshot, Asks, c
  <2> QED
    BY <1>0, <1>2, <2>7, <2>9, <2>12, OwnWork
<1> QED
  BY <1>1, <1>2 DEF EndSummary, c

\* A turn starts from the snapshot of its conversation, within the limit.
LEMMA BeginSteps ==
    ASSUME StoreInv, SchedInv, InStep, NEW t \in Threads, BeginTurn(t) \/ EndPrefill(t)
    PROVE  /\ NoTurnLost' /\ \A s \in Threads : WorkOK(s)'
           /\ base' \in [Threads -> Snapshots \cup {NoSession}]
<1>0. /\ phase \in [Threads -> Phases] /\ request[t] \in RequestType
      /\ base \in [Threads -> Snapshots \cup {NoSession}]
      /\ session \in [Conversations -> Snapshots \cup {NoSession}]
      /\ WorkOK(t) /\ NoTurnLost
  BY DEF StoreInv, ServeTypeOK
<1>1. /\ UNCHANGED <<storeVars, settingsVars>> /\ request' = request /\ resume' = resume
      /\ phase[t] \in Holding
  BY DEF BeginTurn, EndPrefill, localVars, Holding
<1>2. /\ NoTurnLost' /\ session' = session /\ context_limit' = context_limit
  BY <1>0, <1>1 DEF storeVars, settingsVars, NoTurnLost
<1>3. CASE BeginTurn(t) /\ Goto(t, "leave") /\ UNCHANGED base
  <2>1. phase'[t] = "leave"
    BY <1>0, <1>3 DEF Goto
  <2>2. WorkOK(t)'
    BY <2>1 DEF WorkOK
  <2> QED
    BY <1>0, <1>1, <1>2, <1>3, <2>2, OwnWork
<1>4. CASE /\ BeginTurn(t)
           /\ ContextFits(IF resume[t] THEN Existing(t) ELSE 0,
                          request[t].extra, request[t].max_tokens)
           /\ base' = [base EXCEPT ![t] = IF resume[t]
                           THEN session[request[t].conversation] ELSE NoSession]
           /\ Goto(t, "prefill")
  <2> DEFINE c == request[t].conversation
  <2>1. Asks(t, "chat") /\ resume[t] = HasSnapshot(t)
    BY <1>0, <1>4 DEF BeginTurn, WorkOK
  <2>2. c \in Conversations \cup {NoConversation}
    BY <1>0, <2>1, RequestFields DEF Asks
  <2>3. base'[t] = IF resume[t] THEN session[c] ELSE NoSession
    BY <1>0, <1>4
  <2>4. c \in Conversations => base'[t] = session[c]
    BY <2>1, <2>3 DEF HasSnapshot
  <2>5. base' \in [Threads -> Snapshots \cup {NoSession}]
    BY <1>0, <1>4, <2>1 DEF HasSnapshot
  <2>6. BaseLength(t)' = IF resume[t] THEN Existing(t) ELSE 0
    BY <2>1, <2>3 DEF BaseLength, Existing, HasSnapshot
  <2>7. phase'[t] = "prefill"
    BY <1>0, <1>4 DEF Goto
  <2>8. ContextFits(BaseLength(t), request[t].extra, request[t].max_tokens)'
    BY <1>1, <1>2, <1>4, <2>6 DEF ContextFits, FitsIn
  <2>9. WorkOK(t)'
    BY <1>1, <1>2, <2>1, <2>4, <2>7, <2>8 DEF WorkOK, Asks
  <2> QED
    BY <1>1, <1>2, <1>4, <2>5, <2>9, OwnWork
<1>5. CASE EndPrefill(t)
  <2>1. phase[t] = "prefill" /\ phase'[t] = "decode" /\ base' = base /\ Goto(t, "decode")
    BY <1>0, <1>5 DEF EndPrefill, Goto, localVars
  <2>2. WorkOK(t)'
    BY <1>0, <1>1, <1>2, <2>1 DEF WorkOK, Asks, BaseLength, ContextFits, FitsIn
  <2> QED
    BY <1>0, <1>1, <1>2, <2>1, <2>2, OwnWork
<1> QED
  BY <1>3, <1>4, <1>5 DEF BeginTurn

\* A saved turn extends the snapshot it started from by one turn.
LEMMA SavedTurn ==
    ASSUME StoreInv, NEW t \in Threads, phase[t] = "decode",
           NEW n \in 1 .. request[t].max_tokens, SaveTurn(t, n)
    PROVE  /\ NoTurnLost'
           /\ session' \in [Conversations -> Snapshots \cup {NoSession}]
           /\ saved' \in [Conversations -> Nat]
<1> DEFINE c == request[t].conversation
           new == [len |-> BaseLength(t) + request[t].extra + n,
                   turns |-> BaseTurns(t) + 1]
<1>1. /\ request[t] \in RequestType /\ base[t] \in Snapshots \cup {NoSession}
      /\ session \in [Conversations -> Snapshots \cup {NoSession}]
      /\ saved \in [Conversations -> Nat] /\ context_limit \in 2 .. ModelLimit
      /\ WorkOK(t) /\ NoTurnLost
  BY DEF StoreInv, ServeTypeOK
<1>2. /\ c \in Conversations \cup {NoConversation}
      /\ request[t].extra \in Nat \ {0} /\ request[t].max_tokens \in Nat \ {0}
      /\ ContextFits(BaseLength(t), request[t].extra, request[t].max_tokens)
      /\ c \in Conversations => base[t] = session[c]
  BY <1>1, RequestFields DEF WorkOK, Asks
<1>3. BaseLength(t) \in Nat /\ BaseTurns(t) \in Nat
  BY <1>1, ServeAssumption DEF BaseLength, BaseTurns, Snapshots
<1>4. new.len \in 2 .. ModelLimit
  BY <1>1, <1>2, <1>3, ServeAssumption DEF ContextFits, FitsIn
<1>5. new \in Snapshots /\ new.turns = BaseTurns(t) + 1
  BY <1>3, <1>4 DEF Snapshots
<1> HIDE DEF new
<1>6. CASE c = NoConversation
  <2>1. UNCHANGED storeVars
    BY <1>6 DEF SaveTurn
  <2> QED
    BY <1>1, <2>1 DEF storeVars, NoTurnLost
<1>7. CASE c # NoConversation
  <2>1. session' = [session EXCEPT ![c] = new] /\ saved' = [saved EXCEPT ![c] = @ + 1]
    BY <1>7 DEF SaveTurn, new
  <2>2. c \in Conversations
    BY <1>2, <1>7
  <2>3. session'[c] = new /\ saved'[c] = saved[c] + 1
    BY <1>1, <2>1, <2>2
  <2>4. \A d \in Conversations : d # c => session'[d] = session[d] /\ saved'[d] = saved[d]
    BY <1>1, <2>1
  <2>5. saved[c] = BaseTurns(t)
    BY <1>1, <1>2, <2>2 DEF NoTurnLost, BaseTurns
  <2>6. session'[c] # NoSession
    BY <1>5, <2>3, SnapshotIsSession
  <2>7. NoTurnLost'
    BY <1>1, <1>5, <2>3, <2>4, <2>5, <2>6 DEF NoTurnLost
  <2>8. session' \in [Conversations -> Snapshots \cup {NoSession}]
    BY <1>1, <1>5, <2>1
  <2>9. saved' \in [Conversations -> Nat]
    BY <1>1, <2>1, <2>2
  <2> QED
    BY <2>7, <2>8, <2>9
<1> QED
  BY <1>6, <1>7

\* Ending a turn leaves the stored sessions in order, saved or not.
LEMMA EndStep ==
    ASSUME StoreInv, SchedInv, InStep, NEW t \in Threads, EndTurn(t)
    PROVE  /\ NoTurnLost' /\ \A s \in Threads : WorkOK(s)'
           /\ session' \in [Conversations -> Snapshots \cup {NoSession}]
           /\ saved' \in [Conversations -> Nat]
<1>1. phase[t] = "decode" /\ phase[t] \in Holding /\ Goto(t, "leave")
  BY DEF EndTurn, Holding
<1>2. phase'[t] = "leave"
  BY <1>1 DEF Goto, InStep
<1>3. WorkOK(t)'
  BY <1>2 DEF WorkOK
<1>4. \A s \in Threads : WorkOK(s)'
  BY <1>1, <1>3, OwnWork
<1>5. CASE \E n \in 1 .. request[t].max_tokens : SaveTurn(t, n)
  BY <1>1, <1>4, <1>5, SavedTurn
<1>6. CASE UNCHANGED storeVars
  BY <1>4, <1>6 DEF StoreInv, ServeTypeOK, storeVars, NoTurnLost
<1> QED
  BY <1>5, <1>6 DEF EndTurn, TurnCompletes, TurnCancelled, TurnNotSaved

\* What a step leaves of the types besides those of the scheduler, the phases
\* and the snapshots.
RestTypes ==
    /\ server \in {"accepting", "counting", "starting", "draining", "waiting", "exited"}
    /\ clean \in BOOLEAN /\ http_stopping \in BOOLEAN
    /\ signal \in {"none", "cancelled", "handled"}
    /\ accepted \in 0 .. MaxConnections /\ active_connections \in Int
    /\ blocked \subseteq DeafClients
    /\ request \in [Threads -> RequestType]
    /\ resume \in [Threads -> BOOLEAN]
    /\ cancel \in BOOLEAN /\ pixels \in Threads \cup {NoThread}
    /\ context_limit \in 2 .. ModelLimit
    /\ auto_compact \in BOOLEAN /\ compact_threshold_percent \in 50 .. 90
    /\ asked \in [Threads -> BOOLEAN]

DataTypes ==
    /\ base \in [Threads -> Snapshots \cup {NoSession}]
    /\ session \in [Conversations -> Snapshots \cup {NoSession}]
    /\ saved \in [Conversations -> Nat]

\* Raising the flag keeps its types.
LEMMA SetCancelTypes ==
    ASSUME asked \in [Threads -> BOOLEAN], phase \in [Threads -> Phases], SetCancel
    PROVE  cancel' \in BOOLEAN /\ asked' \in [Threads -> BOOLEAN]
<1>1. \A t \in Threads : (asked[t] \/ UnderWay(t)) \in BOOLEAN
  BY DEF UnderWay
<1> QED
  BY <1>1 DEF SetCancel

\* The steps of a handler outside its turn keep the server well typed.
LEMMA HandlerRestTypes ==
    ASSUME RestTypes, phase \in [Threads -> Phases], NEW t \in Threads,
           Handler(t) \/ WakeUp(t)
    PROVE  RestTypes'
<1> USE DEF RestTypes, serverVars, connectionVars, localVars, settingsVars
<1>0. HasSnapshot(t) \in BOOLEAN
  BY DEF HasSnapshot
<1>1. CASE ParseMessages(t)
  BY <1>1 DEF ParseMessages
<1>2. CASE CheckTurn(t)
  BY <1>0, <1>2 DEF CheckTurn
<1>3. CASE HandlePosted(t) \/ Enter(t) \/ WakeUp(t) \/ GiveBack(t) \/ StopScheduler(t)
           \/ Disconnect(t) \/ EndPrefill(t) \/ EndSummary(t) \/ RecheckContext(t)
  BY <1>3 DEF HandlePosted, Enter, WakeUp, GiveBack, StopScheduler, Disconnect,
              EndPrefill, EndSummary, RecheckContext
<1>4. CASE Remeasure(t)
  BY <1>0, <1>4 DEF Remeasure, Refreshed, StartSummary
<1>5. CASE StartCompact(t)
  BY <1>5 DEF StartCompact, StartSummary
<1>6. CASE ChangeSettings(t)
  <2>1. request[t].op = "settings" /\ request[t] \in RequestType
    BY <1>6 DEF ChangeSettings, Asks
  <2>2. request[t].auto \in BOOLEAN /\ request[t].threshold \in 50 .. 90
    BY <2>1, RequestFields
  <2> QED
    BY <1>6, <2>2 DEF ChangeSettings
<1>7. CASE BeginTurn(t)
  BY <1>7 DEF BeginTurn, ClearedFlag
<1>8. CASE EndTurn(t)
  BY <1>8, SetCancelTypes DEF EndTurn, TurnCompletes, TurnCancelled, TurnNotSaved
<1>9. CASE DisposeImage(t)
  BY <1>9 DEF DisposeImage
<1>10. CASE RaiseCancel(t)
  BY <1>10, SetCancelTypes DEF RaiseCancel
<1>11. CASE CloseListener(t)
  BY <1>11 DEF CloseListener
<1> QED
  BY <1>1, <1>2, <1>3, <1>4, <1>5, <1>6, <1>7, <1>8, <1>9, <1>10, <1>11 DEF Handler

\* Connections, the accept loop and the signal handler pass everybody's work by.
LEMMA OutsideSteps ==
    ASSUME StoreInv, InStep,
           \/ \E t \in Threads, r \in Requests : Connect(t, r)
           \/ Main \/ Accept \/ AcceptFails \/ SignalCancels \/ SignalStops
           \/ \E t \in Threads : Client(t)
    PROVE  RestTypes' /\ DataTypes' /\ NoTurnLost' /\ \A s \in Threads : WorkOK(s)'
<1>0. /\ RestTypes /\ DataTypes /\ phase \in [Threads -> Phases]
  BY DEF StoreInv, ServeTypeOK, RestTypes, DataTypes
<1>1. ASSUME NEW t \in Threads, NEW r \in Requests, Connect(t, r)
      PROVE  RestTypes' /\ DataTypes' /\ NoTurnLost' /\ \A s \in Threads : WorkOK(s)'
  <2>1. /\ UNCHANGED <<base, settingsVars, storeVars>> /\ resume' = resume
        /\ request' = [request EXCEPT ![t] = r] /\ phase' = [phase EXCEPT ![t] = "handle"]
    BY <1>1 DEF Connect, Goto
  <2>2. /\ phase'[t] = "handle"
        /\ \A s \in Threads : s # t => phase'[s] = phase[s] /\ request'[s] = request[s]
    BY <1>0, <2>1 DEF RestTypes
  <2>3. NoTurnLost' /\ \A s \in Threads : WorkOK(s)'
    BY <2>1, <2>2, Bystanders DEF StoreInv, WorkPhases
  <2>4. accepted' \in 0 .. MaxConnections
    BY <1>0, <1>1, ServeAssumption DEF Connect, RestTypes, connectionVars
  <2>5. request' \in [Threads -> RequestType]
    BY <1>0, <2>1, ServeAssumption DEF RestTypes
  <2>6. RestTypes'
    BY <1>0, <1>1, <2>1, <2>4, <2>5 DEF RestTypes, Connect, settingsVars, connectionVars
  <2> QED
    BY <1>0, <2>1, <2>3, <2>6 DEF DataTypes, storeVars
<1>2. CASE \/ Main \/ Accept \/ AcceptFails \/ SignalCancels \/ SignalStops
           \/ \E t \in Threads : Client(t)
  <2>1. /\ UNCHANGED <<base, settingsVars, storeVars>>
        /\ phase' = phase /\ request' = request /\ resume' = resume
    BY <1>2 DEF Client, Main, Count, StopAccepting, ConnectFails, Drain, Accept, AcceptFails,
           SignalCancels, SignalStops, localVars
  <2>2. NoTurnLost' /\ \A s \in Threads : WorkOK(s)'
    BY <2>1, Bystanders DEF StoreInv
  <2>3. ASSUME SignalCancels PROVE RestTypes'
    BY <1>0, <2>1, <2>3, SetCancelTypes DEF SignalCancels, RestTypes, settingsVars, connectionVars
  <2>4. ASSUME Main \/ AcceptFails \/ SignalStops
        PROVE  RestTypes'
    <3>1. CASE Count
      BY <1>0, <2>1, <3>1 DEF Count, RestTypes, settingsVars
    <3>2. CASE ConnectFails
      <4>1. \/ active_connections' = active_connections - 1
            \/ active_connections' = active_connections
        BY <3>2 DEF ConnectFails
      <4> QED
        BY <1>0, <2>1, <3>2, <4>1 DEF ConnectFails, RestTypes, settingsVars
    <3>3. CASE StopAccepting
      BY <1>0, <2>1, <3>3 DEF StopAccepting, RestTypes, settingsVars, connectionVars
    <3>4. CASE Drain
      BY <1>0, <2>1, <3>4 DEF Drain, RestTypes, settingsVars, connectionVars
    <3>5. CASE AcceptFails
      BY <1>0, <2>1, <3>5 DEF AcceptFails, RestTypes, settingsVars, connectionVars
    <3>6. CASE SignalStops
      BY <1>0, <2>1, <3>6 DEF SignalStops, RestTypes, settingsVars, connectionVars
    <3> QED
      BY <2>4, <3>1, <3>2, <3>3, <3>4, <3>5, <3>6 DEF Main
  <2>5. ASSUME Accept PROVE RestTypes'
    <3>1. accepted' \in 0 .. MaxConnections /\ server' = "counting"
      BY <1>0, <2>5, ServeAssumption DEF Accept, RestTypes
    <3> QED
      BY <1>0, <2>1, <2>5, <3>1 DEF Accept, RestTypes, settingsVars
  <2>6. ASSUME NEW t \in Threads, Client(t) PROVE RestTypes'
    BY <1>0, <2>1, <2>6
       DEF Client, ClientStopsReading, ClientReadsOn, RestTypes, settingsVars
  <2>7. DataTypes'
    BY <1>0, <2>1 DEF DataTypes, storeVars
  <2> QED
    BY <1>2, <2>2, <2>3, <2>4, <2>5, <2>6, <2>7
<1> QED
  BY <1>1, <1>2

\* Every step of the server keeps the stored sessions and the work under way in order.
LEMMA StoreNext ==
    StoreInv /\ SchedInv /\ InStep /\ SchedInv' /\ InStep' /\ [Next]_serveVars
        => StoreInv'
<1> SUFFICES ASSUME StoreInv, SchedInv, InStep, SchedInv', InStep', [Next]_serveVars
             PROVE  StoreInv'
  OBVIOUS
<1>0. RestTypes /\ DataTypes /\ phase \in [Threads -> Phases]
  BY DEF StoreInv, ServeTypeOK, RestTypes, DataTypes
<1>1. SUFFICES RestTypes' /\ DataTypes' /\ NoTurnLost' /\ \A s \in Threads : WorkOK(s)'
  BY DEF StoreInv, ServeTypeOK, RestTypes, DataTypes, SchedInv, InStep
<1>2. ASSUME NEW t \in Threads, Handler(t) \/ WakeUp(t)
      PROVE  RestTypes' /\ DataTypes' /\ NoTurnLost' /\ \A s \in Threads : WorkOK(s)'
  <2>1. RestTypes'
    BY <1>0, <1>2, HandlerRestTypes
  <2>2. CASE \/ ParseMessages(t) \/ CheckTurn(t) \/ HandlePosted(t) \/ Enter(t)
             \/ GiveBack(t) \/ DisposeImage(t) \/ RaiseCancel(t) \/ StopScheduler(t)
             \/ CloseListener(t) \/ Disconnect(t) \/ WakeUp(t)
    <3>1. UNCHANGED <<base, storeVars>>
      BY <2>2 DEF ParseMessages, CheckTurn, HandlePosted, Enter, GiveBack, DisposeImage,
                  RaiseCancel, StopScheduler, CloseListener, Disconnect, WakeUp, localVars
    <3> QED
      BY <1>0, <2>1, <2>2, <3>1, PassingSteps DEF DataTypes, storeVars
  <2>3. CASE Remeasure(t) \/ StartCompact(t) \/ RecheckContext(t) \/ ChangeSettings(t)
    <3>1. \/ base' = base
          \/ /\ HasSnapshot(t)
             /\ base' = [base EXCEPT ![t] = session[request[t].conversation]]
      BY <2>3 DEF Remeasure, StartCompact, RecheckContext, ChangeSettings, StartSummary,
                  AutoCandidate, localVars
    <3>2. DataTypes'
      BY <1>0, <2>3, <3>1 DEF Remeasure, StartCompact, RecheckContext, ChangeSettings,
                              DataTypes, storeVars, HasSnapshot
    <3> QED
      BY <2>1, <2>3, <3>2, DecidingSteps
  <2>4. CASE EndSummary(t)
    BY <1>0, <2>1, <2>4, SummaryStep DEF EndSummary, DataTypes, localVars
  <2>5. CASE BeginTurn(t) \/ EndPrefill(t)
    <3>1. UNCHANGED storeVars
      BY <2>5 DEF BeginTurn, EndPrefill
    <3> QED
      BY <1>0, <2>1, <2>5, <3>1, BeginSteps DEF DataTypes, storeVars
  <2>6. CASE EndTurn(t)
    BY <1>0, <2>1, <2>6, EndStep DEF EndTurn, DataTypes, localVars
  <2> QED
    BY <1>2, <2>2, <2>3, <2>4, <2>5, <2>6 DEF Handler
<1>3. CASE UNCHANGED serveVars
  <2>1. /\ UNCHANGED <<base, settingsVars, storeVars>>
        /\ phase' = phase /\ request' = request /\ resume' = resume
        /\ UNCHANGED <<serverVars, cancel, pixels, asked>>
    BY <1>3 DEF serveVars, localVars
  <2>2. NoTurnLost' /\ \A s \in Threads : WorkOK(s)'
    BY <2>1, Bystanders DEF StoreInv
  <2> QED
    BY <1>0, <2>1, <2>2
    DEF RestTypes, DataTypes, serverVars, connectionVars, settingsVars, storeVars
<1> QED
  BY <1>2, <1>3, OutsideSteps DEF Next, Main

\* A server that has served nothing has no session, and no work under way.
LEMMA StoreInit == Init => StoreInv
<1> SUFFICES ASSUME Init PROVE StoreInv
  OBVIOUS
<1>1. [op |-> "cancel"] \in RequestType
  BY DEF RequestType
<1>2. SchedTypeOK /\ InStep
  BY SchedInitInv, InStepInit DEF Init, SchedInv
<1>3. ServeTypeOK
  <2>1. /\ request \in [Threads -> RequestType] /\ resume \in [Threads -> BOOLEAN]
        /\ base \in [Threads -> Snapshots \cup {NoSession}]
        /\ asked \in [Threads -> BOOLEAN]
        /\ session \in [Conversations -> Snapshots \cup {NoSession}]
        /\ saved \in [Conversations -> Nat]
    BY <1>1 DEF Init
  <2>2. accepted \in 0 .. MaxConnections /\ context_limit \in 2 .. ModelLimit
    BY ServeAssumption DEF Init
  <2>3. auto_compact \in BOOLEAN /\ compact_threshold_percent \in 50 .. 90
    BY DEF Init
  <2>4. active_connections \in Int /\ blocked \subseteq DeafClients
    BY DEF Init
  <2> QED
    BY <1>2, <2>1, <2>2, <2>3, <2>4 DEF Init, ServeTypeOK, InStep
<1>4. NoTurnLost
  BY DEF Init, NoTurnLost
<1>5. \A t \in Threads : WorkOK(t)
  BY DEF Init, WorkOK
<1> QED
  BY <1>3, <1>4, <1>5 DEF StoreInv

\* The invariant of the store holds throughout.
LEMMA StoreAlways == Spec => []StoreInv
<1>1. StoreInv /\ (SchedInv /\ InStep) /\ (SchedInv /\ InStep)' /\ [Next]_serveVars
          => StoreInv'
  BY StoreNext
<1> QED
  BY <1>1, StoreInit, InStepAlways, PTL DEF Spec

\* Every variable of the server keeps its type: no snapshot outgrows the model.
THEOREM ServerTypes == Spec => []ServeTypeOK
  BY StoreAlways, PTL DEF StoreInv

\* No saved turn is overwritten by one that started from an older snapshot,
\* whatever was queued for the same conversation meanwhile.
THEOREM TurnsAreKept == Spec => []NoTurnLost
  BY StoreAlways, PTL DEF StoreInv

\* A turn about to run, or running, fits the context limit in force.
THEOREM LimitKept == Spec => []TurnKeepsToLimit
<1>1. StoreInv => TurnKeepsToLimit
  BY DEF StoreInv, WorkOK, TurnKeepsToLimit
<1> QED
  BY <1>1, StoreAlways, PTL

-----------------------------------------------------------------------------
(* The cancel flag, which any connection may raise.                        *)

\* A step that leaves the flag alone brings nobody's work under way.
LEMMA FlagQuiet ==
    ASSUME CancelIsForThisTurn, UNCHANGED <<cancel, asked>>,
           \A s \in Threads : UnderWay(s)' => UnderWay(s)
    PROVE  CancelIsForThisTurn'
  BY DEF CancelIsForThisTurn

\* A cancel is meant for the work that is under way.
LEMMA FlagRaised ==
    ASSUME asked \in [Threads -> BOOLEAN], SetCancel,
           \A s \in Threads : UnderWay(s)' => UnderWay(s)
    PROVE  CancelIsForThisTurn'
<1>1. \A s \in Threads : asked'[s] = (asked[s] \/ UnderWay(s))
  BY DEF SetCancel
<1>2. cancel' = TRUE
  BY DEF SetCancel
<1> QED
  BY <1>1, <1>2 DEF CancelIsForThisTurn

\* The handler that has the model clears the flag for itself alone.
LEMMA FlagCleared ==
    ASSUME SchedInv, InStep, NEW t \in Threads, NEW place, Goto(t, place),
           phase[t] \in Holding, asked \in [Threads -> BOOLEAN],
           cancel' = FALSE, asked' = [asked EXCEPT ![t] = FALSE]
    PROVE  CancelIsForThisTurn'
<1>1. asked'[t] = FALSE
  OBVIOUS
<1>2. \A s \in Threads : s # t => phase'[s] \notin Holding
  BY Serial DEF TurnsAreSerial, Goto, InStep
<1>3. \A s \in Threads : s # t => ~UnderWay(s)'
  BY <1>2 DEF UnderWay, Holding
<1> QED
  BY <1>1, <1>3 DEF CancelIsForThisTurn

\* Every step keeps a raised flag traceable to a cancel the running turn was sent.
LEMMA FlagNext ==
    CancelIsForThisTurn /\ StoreInv /\ SchedInv /\ InStep /\ [Next]_serveVars
        => CancelIsForThisTurn'
<1> SUFFICES ASSUME CancelIsForThisTurn, StoreInv, SchedInv, InStep, [Next]_serveVars
             PROVE  CancelIsForThisTurn'
  OBVIOUS
<1>0. asked \in [Threads -> BOOLEAN] /\ phase \in [Threads -> Phases]
  BY DEF StoreInv, ServeTypeOK
<1>1. ASSUME NEW t \in Threads, NEW r \in Requests, Connect(t, r)
      PROVE  CancelIsForThisTurn'
  BY <1>0, <1>1, FlagQuiet DEF Connect, Goto, UnderWay
<1>2. ASSUME NEW t \in Threads, Handler(t) PROVE CancelIsForThisTurn'
  <2>1. ASSUME NEW place, Goto(t, place), place \notin {"summarize", "prefill", "decode"}
        PROVE  \A s \in Threads : UnderWay(s)' => UnderWay(s)
    BY <1>0, <2>1 DEF Goto, UnderWay
  <2>2. CASE ParseMessages(t) \/ CheckTurn(t) \/ HandlePosted(t) \/ Enter(t)
    BY <2>1, <2>2, FlagQuiet
       DEF ParseMessages, CheckTurn, HandlePosted, FirstPhase, Enter, AfterAcquire
  <2>3. CASE EndSummary(t) \/ RecheckContext(t) \/ ChangeSettings(t)
    BY <2>1, <2>3, FlagQuiet DEF EndSummary, RecheckContext, ChangeSettings
  <2>4. CASE EndPrefill(t)
    BY <1>0, <2>4, FlagQuiet DEF EndPrefill, Goto, UnderWay
  <2>5. CASE GiveBack(t) \/ DisposeImage(t) \/ StopScheduler(t) \/ CloseListener(t)
             \/ Disconnect(t)
    BY <2>1, <2>5, FlagQuiet
       DEF GiveBack, DisposeImage, StopScheduler, CloseListener, Disconnect
  <2>6. CASE RaiseCancel(t)
    BY <1>0, <2>1, <2>6, FlagRaised DEF RaiseCancel
  <2>7. CASE EndTurn(t)
    BY <1>0, <2>1, <2>7, FlagQuiet, FlagRaised
       DEF EndTurn, TurnCompletes, TurnCancelled, TurnNotSaved
  <2>8. CASE BeginTurn(t)
    BY <1>0, <2>8, FlagCleared DEF BeginTurn, ClearedFlag, Holding
  <2>9. CASE Remeasure(t) \/ StartCompact(t)
    <3>1. CASE StartSummary(t)
      BY <1>0, <2>9, <3>1, FlagCleared DEF Remeasure, StartCompact, StartSummary, Holding
    <3>2. CASE \/ Goto(t, "ready") /\ UNCHANGED <<cancel, asked>>
               \/ Goto(t, "hand_back") /\ UNCHANGED <<cancel, asked>>
      BY <2>1, <3>2, FlagQuiet
    <3> QED
      BY <2>9, <3>1, <3>2 DEF Remeasure, StartCompact
  <2> QED
    BY <1>2, <2>2, <2>3, <2>4, <2>5, <2>6, <2>7, <2>8, <2>9 DEF Handler
<1>3. ASSUME NEW t \in Threads, WakeUp(t) PROVE CancelIsForThisTurn'
  BY <1>3, FlagQuiet DEF WakeUp, UnderWay
<1>4. CASE Main \/ Accept \/ AcceptFails \/ SignalStops \/ \E t \in Threads : Client(t)
  BY <1>4, FlagQuiet DEF Client, Main, Count, StopAccepting, ConnectFails, Drain, Accept, AcceptFails,
       SignalStops, UnderWay
<1>5. CASE SignalCancels
  BY <1>0, <1>5, FlagRaised DEF SignalCancels, UnderWay
<1>6. CASE UNCHANGED serveVars
  BY <1>6, FlagQuiet DEF serveVars, UnderWay
<1> QED
  BY <1>1, <1>2, <1>3, <1>4, <1>5, <1>6 DEF Next, Main

\* A running turn or compaction sees the cancel flag exactly when a cancel was
\* asked since it began.
THEOREM CancelReachesItsTurn == Spec => []CancelIsForThisTurn
<1>1. Init => CancelIsForThisTurn
  BY DEF Init, CancelIsForThisTurn, UnderWay
<1>2. CancelIsForThisTurn /\ StoreInv /\ (SchedInv /\ InStep) /\ [Next]_serveVars
          => CancelIsForThisTurn'
  BY FlagNext
<1> QED
  BY <1>1, <1>2, StoreAlways, InStepAlways, PTL DEF Spec

-----------------------------------------------------------------------------
(* The connections, which are counted by one thread and uncounted by many. *)

Connections == {t \in Threads : phase[t] # "none"}

\* The count is the threads there are, and the one about to be started; once the run has
\* ended well there is none.
CountInv ==
    /\ active_connections = Cardinality(Connections) + (IF server = "starting" THEN 1 ELSE 0)
    /\ clean => server = "exited" /\ Connections = {}

\* A connection more, and a connection less.
LEMMA ConnectionCount ==
    /\ IsFiniteSet(Connections) /\ Cardinality(Connections) \in Nat
    /\ Cardinality(Connections) = 0 => Connections = {}
    /\ \A t \in Threads :
           /\ t \notin Connections =>
                  Cardinality(Connections \cup {t}) = Cardinality(Connections) + 1
           /\ t \in Connections =>
                  Cardinality(Connections \ {t}) = Cardinality(Connections) - 1
<1>1. IsFiniteSet(Connections)
  BY FS_Subset, SchedulerAssumption DEF Connections
<1> QED
  BY <1>1, FS_CardinalityType, FS_EmptySet, FS_AddElement, FS_RemoveElement

\* Every step of a handler but the last leaves its connection where it was.
LEMMA HandlerStays ==
    ASSUME phase \in [Threads -> Phases], NEW t \in Threads, Handler(t), ~Disconnect(t)
    PROVE  /\ UNCHANGED <<server, clean, active_connections>>
           /\ Connections' = Connections
<1>1. \E place \in Phases \ {"none"} : Goto(t, place) /\ phase[t] # "none"
  <2>1. CASE ParseMessages(t) \/ CheckTurn(t) \/ HandlePosted(t) \/ Enter(t)
    BY <2>1 DEF ParseMessages, CheckTurn, HandlePosted, FirstPhase, Enter, AfterAcquire, Phases
  <2>2. CASE Remeasure(t) \/ StartCompact(t) \/ EndSummary(t) \/ RecheckContext(t)
    BY <2>2 DEF Remeasure, StartCompact, StartSummary, EndSummary, RecheckContext, Phases
  <2>3. CASE ChangeSettings(t) \/ BeginTurn(t) \/ EndPrefill(t) \/ EndTurn(t)
    BY <2>3 DEF ChangeSettings, BeginTurn, EndPrefill, EndTurn, Phases
  <2>4. CASE GiveBack(t) \/ DisposeImage(t) \/ RaiseCancel(t) \/ StopScheduler(t)
             \/ CloseListener(t)
    BY <2>4 DEF GiveBack, DisposeImage, RaiseCancel, StopScheduler, CloseListener, Phases
  <2> QED
    BY <2>1, <2>2, <2>3, <2>4 DEF Handler
<1>2. Connections' = Connections
  BY <1>1 DEF Goto, Connections
<1>3. UNCHANGED <<server, clean, active_connections>>
  BY DEF Handler, ParseMessages, CheckTurn, HandlePosted, Enter, Remeasure, StartCompact,
         EndSummary, RecheckContext, ChangeSettings, BeginTurn, EndPrefill, EndTurn, GiveBack,
         DisposeImage, RaiseCancel, StopScheduler, CloseListener, serverVars, connectionVars
<1> QED
  BY <1>2, <1>3

\* Every step keeps the count true, the failures to start a connection included.
LEMMA CountNext ==
    CountInv /\ InStep /\ [Next]_serveVars => CountInv'
<1> SUFFICES ASSUME CountInv, InStep, [Next]_serveVars PROVE CountInv'
  OBVIOUS
<1>0. /\ phase \in [Threads -> Phases] /\ Connections \subseteq Threads
      /\ Cardinality(Connections) \in Nat
  BY ConnectionCount DEF InStep, Connections
<1>1. ASSUME NEW t \in Threads, NEW r \in Requests, Connect(t, r) PROVE CountInv'
  <2>1. Connections' = Connections \cup {t} /\ t \notin Connections
    BY <1>0, <1>1 DEF Connect, Goto, Connections
  <2> QED
    BY <1>0, <1>1, <2>1, ConnectionCount DEF Connect, CountInv, connectionVars
<1>2. ASSUME NEW t \in Threads, Disconnect(t), server # "exited" PROVE CountInv'
  <2>1. Connections' = Connections \ {t} /\ t \in Connections
    BY <1>0, <1>2 DEF Disconnect, Goto, Connections
  <2>2. clean' = clean /\ ~clean
    BY <1>2 DEF Disconnect, CountInv
  <2>3. server' = "starting" <=> server = "starting"
    BY <1>2 DEF Disconnect
  <2> QED
    BY <1>0, <1>2, <2>1, <2>2, <2>3, ConnectionCount DEF Disconnect, CountInv
<1>3. ASSUME NEW t \in Threads, Handler(t) PROVE CountInv'
  BY <1>0, <1>2, <1>3, HandlerStays DEF Handler, CountInv
<1>4. CASE UNCHANGED <<phase, server, clean, active_connections>>
  BY <1>4 DEF CountInv, Connections
<1>5. CASE Count \/ ConnectFails
  <2>1. Connections' = Connections
    BY <1>5 DEF Count, ConnectFails, Connections
  <2> QED
    BY <1>0, <1>5, <2>1 DEF Count, ConnectFails, Counted, CountInv
<1>6. CASE StopAccepting \/ Accept \/ AcceptFails
  <2>1. Connections' = Connections
    BY <1>6 DEF StopAccepting, Accept, AcceptFails, Connections
  <2> QED
    BY <1>6, <2>1 DEF StopAccepting, Accept, AcceptFails, connectionVars, CountInv
<1>7. CASE Drain
  <2>1. Connections' = Connections /\ active_connections' = active_connections
    BY <1>7 DEF Drain, Connections, connectionVars
  <2>2. active_connections = Cardinality(Connections) /\ server = "draining" /\ ~clean
    BY <1>0, <1>7 DEF Drain, CountInv
  <2> QED
    BY <1>0, <1>7, <2>1, <2>2, ConnectionCount DEF Drain, CountInv
<1>8. CASE SignalCancels \/ SignalStops \/ (\E t \in Threads : Client(t) \/ WakeUp(t))
           \/ UNCHANGED serveVars
  BY <1>4, <1>8 DEF SignalCancels, SignalStops, Client, WakeUp, serveVars, serverVars,
                    connectionVars
<1> QED
  BY <1>1, <1>3, <1>5, <1>6, <1>7, <1>8 DEF Next, Main

\* The count that the drain waits for is that of the connections whose handlers have not ended,
\* and of the one that is being started, whichever starts failed before.
THEOREM ConnectionsCounted == Spec => []CountInv
<1>1. Init => CountInv
  <2> SUFFICES ASSUME Init PROVE CountInv
    OBVIOUS
  <2>1. Connections = {}
    BY DEF Init, Connections
  <2> QED
    BY <2>1, FS_EmptySet DEF Init, CountInv
<1>2. CountInv /\ (SchedInv /\ InStep) /\ [Next]_serveVars => CountInv'
  BY CountNext
<1> QED
  BY <1>1, <1>2, InStepAlways, PTL DEF Spec

\* A server that ends its run well has served every connection it accepted: the count that
\* its drain waits for is never less than the connections there are.
THEOREM CleanExit == Spec => []CleanExitIsDrained
<1>1. CountInv /\ SchedInv /\ InStep => CleanExitIsDrained
  BY DEF CountInv, Connections, InStep, HandlersReturnModel, Holding, CleanExitIsDrained
<1> QED
  BY <1>1, ConnectionsCounted, InStepAlways, PTL
=============================================================================
