------------------------- MODULE ExpertCacheProofs --------------------------
(***************************************************************************)
(* Proofs about ExpertCache, for every value of its constants: types, the  *)
(* books and what they count, the room promise and the budget, who owns a  *)
(* handle, and in which order entries leave.  The last part is about the   *)
(* engine that uses the cache, ExpertStreaming: its steps are steps of the *)
(* cache, and no buffer or expert gets lost between the two.               *)
(***************************************************************************)
EXTENDS ExpertStreaming, RangeSumTheorems, SequenceTheorems, FiniteSetTheorems

\* A charge is at least the size it stands for.
LEMMA ChargeNat == ASSUME NEW n \in Nat \ {0} PROVE Charge(n) \in Nat \ {0}
<1>1. n % Alignment \in 0 .. Alignment - 1
  BY CacheAssumption
<1> QED
  BY <1>1, CacheAssumption DEF Charge

\* Halving the stamps and counting on stays within the clock's word.
LEMMA NextClockType ==
    ASSUME clock \in 0 .. MaxClock
    PROVE  NextClock \in 1 .. MaxClock
  BY CacheAssumption DEF NextClock, ClockFull, Halve

\* Halving every clock of the table leaves every entry well typed.
LEMMA RescaledType ==
    ASSUME entries \in [Slots -> Entry]
    PROVE  Rescaled \in [Slots -> Entry]
<1>1. ASSUME NEW x \in 0 .. MaxClock PROVE Halve(x) \in 0 .. MaxClock
  BY CacheAssumption DEF Halve
<1>2. ASSUME NEW s \in Slots
      PROVE [entries[s] EXCEPT !.last_access = Halve(@),
                               !.admission_order = Halve(@)] \in Entry
  BY <1>1 DEF Entry
<1> QED
  BY <1>2 DEF Rescaled

\* A slot that release has zeroed is a well typed entry.
LEMMA EmptyEntryType == EmptyEntry \in Entry
  BY CacheAssumption DEF EmptyEntry, Entry

-----------------------------------------------------------------------------
(* Types.                                                                  *)

\* Adding to one value of a layer's counter keeps the counters integers.
LEMMA CounterType ==
    ASSUME NEW f \in [Layers -> Int], NEW l, NEW d \in Int
    PROVE  /\ [f EXCEPT ![l] = @ - d] \in [Layers -> Int]
           /\ [f EXCEPT ![l] = @ + d] \in [Layers -> Int]
<1>1. ASSUME NEW x \in Layers
      PROVE  [f EXCEPT ![l] = @ - d][x] \in Int /\ [f EXCEPT ![l] = @ + d][x] \in Int
  <2>1. CASE x = l
    BY <2>1
  <2>2. CASE x # l
    BY <2>2
  <2> QED
    BY <2>1, <2>2
<1> QED
  BY <1>1

\* Releasing a residual leaves the table and the counters well typed.
LEMMA ReleaseResidualType ==
    ASSUME ResidentType, NEW s \in Slots, ReleaseResidual(s)
    PROVE  ResidentType'
<1> DEFINE l == entries[s].key.layer
           c == entries[s].residual_charge
<1>1. entries[s] \in Entry
  BY DEF ResidentType
<1>2. c \in Int
  BY <1>1 DEF Entry
<1>3. entries' \in [Slots -> Entry]
  BY <1>1 DEF ResidentType, ReleaseResidual, Entry
<1>4. /\ layer_residual_bytes' = [layer_residual_bytes EXCEPT ![l] = @ - c]
      /\ layer_residual_entries' = [layer_residual_entries EXCEPT ![l] = @ - 1]
  BY DEF ReleaseResidual
<1>5. /\ layer_residual_bytes \in [Layers -> Int]
      /\ layer_residual_entries \in [Layers -> Int]
      /\ 1 \in Int
  BY DEF ResidentType
<1> HIDE DEF l, c
<1>6. /\ layer_residual_bytes' \in [Layers -> Int]
      /\ layer_residual_entries' \in [Layers -> Int]
  BY <1>2, <1>4, <1>5, CounterType, Zenon
<1> QED
  BY <1>2, <1>3, <1>6 DEF ResidentType, ReleaseResidual, c

\* Releasing a base leaves the table and the counters well typed.
LEMMA ReleaseBaseType ==
    ASSUME ResidentType, NEW s \in Slots, ReleaseBase(s)
    PROVE  ResidentType'
<1> DEFINE l == entries[s].key.layer
           b == entries[s].base_charge
           r == entries[s].residual_charge
           n == IF s \in HasResidual THEN 1 ELSE 0
<1>1. entries[s] \in Entry
  BY DEF ResidentType
<1>2. b \in Int /\ r \in Int /\ n \in Int /\ 1 \in Int
  BY <1>1 DEF Entry
<1>3. entries' \in [Slots -> Entry]
  BY EmptyEntryType DEF ResidentType, ReleaseBase
<1>4. /\ layer_base_bytes' = [layer_base_bytes EXCEPT ![l] = @ - b]
      /\ layer_base_entries' = [layer_base_entries EXCEPT ![l] = @ - 1]
      /\ layer_residual_bytes' = [layer_residual_bytes EXCEPT ![l] = @ - r]
      /\ layer_residual_entries' = [layer_residual_entries EXCEPT ![l] = @ - n]
  BY DEF ReleaseBase
<1>5. /\ layer_base_bytes \in [Layers -> Int]
      /\ layer_base_entries \in [Layers -> Int]
      /\ layer_residual_bytes \in [Layers -> Int]
      /\ layer_residual_entries \in [Layers -> Int]
  BY DEF ResidentType
<1> HIDE DEF l, b, r, n
<1>6. /\ layer_base_bytes' \in [Layers -> Int]
      /\ layer_base_entries' \in [Layers -> Int]
      /\ layer_residual_bytes' \in [Layers -> Int]
      /\ layer_residual_entries' \in [Layers -> Int]
  BY <1>2, <1>4, <1>5, CounterType, Zenon
<1> QED
  BY <1>2, <1>3, <1>6 DEF ResidentType, ReleaseBase, b, r

\* Handing an answer back leaves the call record well typed.
LEMMA ReturnType ==
    ASSUME NEW status \in Statuses, Return(status)
    PROVE  CallType'
<1>1. NoPlan \in [victims : SUBSET Slots, base_bytes : [Layers -> Int],
                  base_entries : [Layers -> Int], freed : Int]
  BY DEF NoPlan
<1>2. NoSchedule \in [steps : Seq(PlanStep), freed : Int] /\ Unmarked \in SUBSET Slots
  BY DEF NoSchedule, Unmarked
<1>3. Idle(status) \in [phase : {"idle"}, status : Statuses]
  BY DEF Idle
<1> QED
  BY <1>1, <1>2, <1>3 DEF CallType, Return

-----------------------------------------------------------------------------
(* Sums.                                                                   *)

\* Free entries are zeroed, used ones have a key, and no plane, no charge.
EntriesOK ==
    \A s \in Slots :
        /\ entries[s].base = NoPayload => entries[s] = EmptyEntry
        /\ entries[s].base # NoPayload => entries[s].key \in Keys
        /\ entries[s].residual = NoPayload => entries[s].residual_charge = 0

\* Two entries hold the same planes (their recency may differ).
SamePlanes(e, f) ==
    /\ e.key = f.key
    /\ e.base = f.base /\ e.base_charge = f.base_charge
    /\ e.residual = f.residual /\ e.residual_charge = f.residual_charge

\* What a well typed entry contributes to each counter is a number.
LEMMA ContributionType ==
    ASSUME entries \in [Slots -> Entry], NEW L
    PROVE  /\ BaseCharges(L) \in [Slots -> Nat]
           /\ ResidualCharges(L) \in [Slots -> Nat]
           /\ BaseMarks(L) \in [Slots -> Nat]
           /\ ResidualMarks(L) \in [Slots -> Nat]
  BY DEF BaseCharges, ResidualCharges, BaseMarks, ResidualMarks, Entry

\* A step that changes the planes of one slot only changes every sum by the
\* change of that slot's contribution.
LEMMA OneSlotChanges ==
    ASSUME entries \in [Slots -> Entry], entries' \in [Slots -> Entry],
           NEW s \in Slots, NEW L,
           \A t \in Slots \ {s} : SamePlanes(entries[t], entries'[t])
    PROVE  /\ SlotTotal(BaseCharges(L)') =
                SlotTotal(BaseCharges(L)) - BaseCharges(L)[s] + BaseCharges(L)'[s]
           /\ SlotTotal(ResidualCharges(L)') =
                SlotTotal(ResidualCharges(L)) - ResidualCharges(L)[s]
                                              + ResidualCharges(L)'[s]
           /\ SlotTotal(BaseMarks(L)') =
                SlotTotal(BaseMarks(L)) - BaseMarks(L)[s] + BaseMarks(L)'[s]
           /\ SlotTotal(ResidualMarks(L)') =
                SlotTotal(ResidualMarks(L)) - ResidualMarks(L)[s]
                                            + ResidualMarks(L)'[s]
<1>1. MaxEntries \in Nat /\ Slots = 1 .. MaxEntries
  BY CacheAssumption DEF Slots
<1>2. \A t \in Slots \ {s} :
        /\ CountsIn(t, L)' <=> CountsIn(t, L)
        /\ (t \in HasResidual)' <=> (t \in HasResidual)
        /\ entries'[t].base_charge = entries[t].base_charge
        /\ entries'[t].residual_charge = entries[t].residual_charge
  BY DEF CountsIn, HasResidual, Occupied, SamePlanes
<1>3. /\ BaseCharges(L) \in [Slots -> Int] /\ BaseCharges(L)' \in [Slots -> Int]
      /\ ResidualCharges(L) \in [Slots -> Int] /\ ResidualCharges(L)' \in [Slots -> Int]
      /\ BaseMarks(L) \in [Slots -> Int] /\ BaseMarks(L)' \in [Slots -> Int]
      /\ ResidualMarks(L) \in [Slots -> Int] /\ ResidualMarks(L)' \in [Slots -> Int]
  BY DEF BaseCharges, ResidualCharges, BaseMarks, ResidualMarks, Entry
<1>4. \A t \in Slots : t # s =>
        /\ BaseCharges(L)'[t] = BaseCharges(L)[t]
        /\ ResidualCharges(L)'[t] = ResidualCharges(L)[t]
        /\ BaseMarks(L)'[t] = BaseMarks(L)[t]
        /\ ResidualMarks(L)'[t] = ResidualMarks(L)[t]
  BY <1>2 DEF BaseCharges, ResidualCharges, BaseMarks, ResidualMarks
<1> QED
  BY <1>1, <1>3, <1>4, TotalUpdate DEF SlotTotal

\* The totals over the slots are integers in every well typed state.
LEMMA SumsInt ==
    ASSUME entries \in [Slots -> Entry], NEW L
    PROVE  /\ SlotTotal(BaseCharges(L)) \in Nat
           /\ SlotTotal(ResidualCharges(L)) \in Nat
           /\ SlotTotal(BaseMarks(L)) \in Nat
           /\ SlotTotal(ResidualMarks(L)) \in Nat
<1>1. MaxEntries \in Nat /\ Slots = 1 .. MaxEntries
  BY CacheAssumption DEF Slots
<1>2. \A f \in [Slots -> Nat] : f \in [Slots -> Int]
  OBVIOUS
<1>3. \A f \in [Slots -> Nat] : SlotTotal(f) \in Nat
  BY <1>1, <1>2, TotalNat, TotalInt DEF SlotTotal
<1> QED
  BY <1>3, ContributionType

\* A step changes the planes of slot s of layer l only, and the counters by
\* what the contributions of the slot change.
BooksStep(s, l, db, dr, dn, dm) ==
    /\ \A t \in Slots \ {s} : SamePlanes(entries[t], entries'[t])
    /\ \A L : /\ BaseCharges(L)'[s] =
                        BaseCharges(L)[s] + (IF l \in L THEN db ELSE 0)
              /\ ResidualCharges(L)'[s] =
                        ResidualCharges(L)[s] + (IF l \in L THEN dr ELSE 0)
              /\ BaseMarks(L)'[s] =
                        BaseMarks(L)[s] + (IF l \in L THEN dn ELSE 0)
              /\ ResidualMarks(L)'[s] =
                        ResidualMarks(L)[s] + (IF l \in L THEN dm ELSE 0)
    /\ payload_bytes' = payload_bytes + db + dr
    /\ base_bytes' = base_bytes + db
    /\ residual_bytes' = residual_bytes + dr
    /\ entry_count' = entry_count + dn
    /\ \A m \in Layers :
          /\ layer_base_bytes'[m] = layer_base_bytes[m] + (IF m = l THEN db ELSE 0)
          /\ layer_residual_bytes'[m] =
                layer_residual_bytes[m] + (IF m = l THEN dr ELSE 0)
          /\ layer_base_entries'[m] =
                layer_base_entries[m] + (IF m = l THEN dn ELSE 0)
          /\ layer_residual_entries'[m] =
                layer_residual_entries[m] + (IF m = l THEN dm ELSE 0)

\* Changing one slot moves each counter by the difference of that slot's contributions:
\* the step every admission and every release is an instance of.
LEMMA AccountingStep ==
    ASSUME ResidentType, ResidentType', Accounting,
           NEW s \in Slots, NEW l \in Layers,
           NEW db \in Int, NEW dr \in Int, NEW dn \in Int, NEW dm \in Int,
           BooksStep(s, l, db, dr, dn, dm)
    PROVE  Accounting'
<1> USE DEF BooksStep
<1>1. \A L :
        /\ SlotTotal(BaseCharges(L)') =
                SlotTotal(BaseCharges(L)) + (IF l \in L THEN db ELSE 0)
        /\ SlotTotal(ResidualCharges(L)') =
                SlotTotal(ResidualCharges(L)) + (IF l \in L THEN dr ELSE 0)
        /\ SlotTotal(BaseMarks(L)') =
                SlotTotal(BaseMarks(L)) + (IF l \in L THEN dn ELSE 0)
        /\ SlotTotal(ResidualMarks(L)') =
                SlotTotal(ResidualMarks(L)) + (IF l \in L THEN dm ELSE 0)
  <2>1. SUFFICES ASSUME NEW L
        PROVE  /\ SlotTotal(BaseCharges(L)') =
                    SlotTotal(BaseCharges(L)) + (IF l \in L THEN db ELSE 0)
               /\ SlotTotal(ResidualCharges(L)') =
                    SlotTotal(ResidualCharges(L)) + (IF l \in L THEN dr ELSE 0)
               /\ SlotTotal(BaseMarks(L)') =
                    SlotTotal(BaseMarks(L)) + (IF l \in L THEN dn ELSE 0)
               /\ SlotTotal(ResidualMarks(L)') =
                    SlotTotal(ResidualMarks(L)) + (IF l \in L THEN dm ELSE 0)
    OBVIOUS
  <2>2. /\ BaseCharges(L)[s] \in Int /\ ResidualCharges(L)[s] \in Int
        /\ BaseMarks(L)[s] \in Int /\ ResidualMarks(L)[s] \in Int
    BY ContributionType DEF ResidentType
  <2>3. /\ (IF l \in L THEN db ELSE 0) \in Int /\ (IF l \in L THEN dr ELSE 0) \in Int
        /\ (IF l \in L THEN dn ELSE 0) \in Int /\ (IF l \in L THEN dm ELSE 0) \in Int
    OBVIOUS
  <2> QED
    BY <2>2, <2>3, OneSlotChanges, SumsInt DEF ResidentType
<1>3. \A m \in Layers : l \in {m} <=> m = l
  OBVIOUS
<1>4. /\ payload_bytes' = base_bytes' + residual_bytes'
      /\ base_bytes' = SlotTotal(BaseCharges(Layers)')
      /\ residual_bytes' = SlotTotal(ResidualCharges(Layers)')
      /\ entry_count' = SlotTotal(BaseMarks(Layers)')
  BY <1>1 DEF Accounting, ResidentType
<1>5. ASSUME NEW m \in Layers
      PROVE  /\ layer_base_bytes'[m] = SlotTotal(BaseCharges({m})')
             /\ layer_residual_bytes'[m] = SlotTotal(ResidualCharges({m})')
             /\ layer_base_entries'[m] = SlotTotal(BaseMarks({m})')
             /\ layer_residual_entries'[m] = SlotTotal(ResidualMarks({m})')
  <2>1. /\ layer_base_bytes[m] = SlotTotal(BaseCharges({m}))
        /\ layer_residual_bytes[m] = SlotTotal(ResidualCharges({m}))
        /\ layer_base_entries[m] = SlotTotal(BaseMarks({m}))
        /\ layer_residual_entries[m] = SlotTotal(ResidualMarks({m}))
    BY DEF Accounting
  <2> QED
    BY <1>1, <1>3, <2>1
<1> QED
  BY <1>4, <1>5 DEF Accounting, SlotTotal, BaseCharges, ResidualCharges,
                    BaseMarks, ResidualMarks

\* Releasing a residual takes exactly its charge out of the books.
LEMMA ReleaseResidualAccounting ==
    ASSUME ResidentType, EntriesOK, Accounting,
           NEW s \in HasResidual, ReleaseResidual(s)
    PROVE  Accounting'
<1> DEFINE l == entries[s].key.layer
           c == entries[s].residual_charge
           db == 0  dr == -c  dn == 0  dm == -1
<1>1. s \in Slots /\ s \in Occupied /\ entries[s] \in Entry /\ l \in Layers /\ c \in Nat
  BY DEF HasResidual, Occupied, EntriesOK, Keys, ResidentType, Entry
<1>2. ResidentType'
  BY ReleaseResidualType, <1>1
<1>3. /\ \A t \in Slots \ {s} : entries'[t] = entries[t]
      /\ entries'[s].key = entries[s].key /\ entries'[s].base = entries[s].base
      /\ entries'[s].base_charge = entries[s].base_charge
      /\ entries'[s].residual = NoPayload /\ entries'[s].residual_charge = 0
  BY <1>1 DEF ReleaseResidual, ResidentType, Entry
<1>4. \A t \in Slots \ {s} : SamePlanes(entries[t], entries'[t])
  BY <1>3 DEF SamePlanes
<1>5. \A L : /\ BaseCharges(L)'[s] = BaseCharges(L)[s]
             /\ ResidualCharges(L)'[s] =
                    ResidualCharges(L)[s] + (IF l \in L THEN -c ELSE 0)
             /\ BaseMarks(L)'[s] = BaseMarks(L)[s]
             /\ ResidualMarks(L)'[s] =
                    ResidualMarks(L)[s] + (IF l \in L THEN -1 ELSE 0)
             /\ BaseCharges(L)[s] \in Int /\ BaseMarks(L)[s] \in Int
  BY <1>1, <1>3 DEF BaseCharges, BaseMarks, ResidualCharges, ResidualMarks,
                    CountsIn, Occupied, HasResidual, Entry
<1>6. BooksStep(s, l, 0, -c, 0, -1)
  BY <1>1, <1>4, <1>5 DEF BooksStep, ReleaseResidual, ResidentType
<1>7. -c \in Int /\ 0 \in Int /\ -1 \in Int
  BY <1>1
<1> HIDE DEF l, c
<1> QED
  BY <1>1, <1>2, <1>6, <1>7, AccountingStep

\* Releasing a base takes exactly the charges of the base and of its residual out.
LEMMA ReleaseBaseAccounting ==
    ASSUME ResidentType, EntriesOK, Accounting,
           NEW s \in Occupied, ReleaseBase(s)
    PROVE  Accounting'
<1> DEFINE l == entries[s].key.layer
           b == entries[s].base_charge
           r == entries[s].residual_charge
           n == IF s \in HasResidual THEN 1 ELSE 0
<1>1. s \in Slots /\ entries[s] \in Entry /\ l \in Layers /\ b \in Nat /\ r \in Nat
  BY DEF Occupied, EntriesOK, Keys, ResidentType, Entry
<1>2. ResidentType'
  BY ReleaseBaseType, <1>1
<1>3. /\ \A t \in Slots \ {s} : entries'[t] = entries[t]
      /\ entries'[s].base = NoPayload
  BY <1>1 DEF ReleaseBase, ResidentType, EmptyEntry
<1>4. \A t \in Slots \ {s} : SamePlanes(entries[t], entries'[t])
  BY <1>3 DEF SamePlanes
<1>5. \A L : /\ BaseCharges(L)'[s] = 0 /\ ResidualCharges(L)'[s] = 0
             /\ BaseMarks(L)'[s] = 0 /\ ResidualMarks(L)'[s] = 0
             /\ BaseCharges(L)[s] = (IF l \in L THEN b ELSE 0)
             /\ ResidualCharges(L)[s] = (IF l \in L THEN r ELSE 0)
             /\ BaseMarks(L)[s] = (IF l \in L THEN 1 ELSE 0)
             /\ ResidualMarks(L)[s] = (IF l \in L THEN n ELSE 0)
  BY <1>1, <1>3 DEF BaseCharges, BaseMarks, ResidualCharges, ResidualMarks,
                    CountsIn, Occupied
<1>6. n \in Int
  OBVIOUS
<1> HIDE DEF n
<1>7. BooksStep(s, l, -b, -r, -1, -n)
  BY <1>1, <1>4, <1>5, <1>6 DEF BooksStep, ReleaseBase, ResidentType, n
<1>8. -b \in Int /\ -r \in Int /\ -1 \in Int /\ -n \in Int
  BY <1>1, <1>6
<1> HIDE DEF l, b, r
<1> QED
  BY <1>1, <1>2, <1>7, <1>8, AccountingStep

\* Nothing the counters count changes.
LEMMA SameBooks ==
    ASSUME entries \in [Slots -> Entry], entries' \in [Slots -> Entry], Accounting,
           \A t \in Slots : SamePlanes(entries[t], entries'[t]),
           UNCHANGED <<layerVars, byteVars, entry_count>>
    PROVE  Accounting'
<1>1. \A t \in Slots : /\ t \in Occupied <=> t \in Occupied'
                       /\ t \in HasResidual <=> t \in HasResidual'
  BY DEF SamePlanes, Occupied, HasResidual
<1>2. \A L : /\ BaseCharges(L)' = BaseCharges(L)
             /\ ResidualCharges(L)' = ResidualCharges(L)
             /\ BaseMarks(L)' = BaseMarks(L)
             /\ ResidualMarks(L)' = ResidualMarks(L)
  BY <1>1 DEF SamePlanes, BaseCharges, ResidualCharges, BaseMarks, ResidualMarks,
              CountsIn
<1> QED
  BY <1>2 DEF Accounting, layerVars, byteVars, SlotTotal

\* Rescaling the stamps leaves the planes alone.
LEMMA RescaledPlanes ==
    ASSUME entries \in [Slots -> Entry]
    PROVE  \A t \in Slots : SamePlanes(entries[t], Rescaled[t])
  BY DEF Rescaled, SamePlanes, Entry

-----------------------------------------------------------------------------
(* Type correctness.                                                       *)

PlanType == [victims : SUBSET Slots, base_bytes : [Layers -> Int],
             base_entries : [Layers -> Int], freed : Int]

\* Starting an admission gives the call its locals and a plan of the cache.
LEMMA StartAdmissionType ==
    ASSUME TypeOK, NEW op \in {"insert", "promote"}, NEW k \in Keys,
           NEW p \in Payloads, NEW n \in Sizes, NEW s \in Slots \cup {NoSlot},
           StartAdmission(Admission(op, k, p, Charge(n), s))
    PROVE  CallType'
<1> DEFINE adm == Admission(op, k, p, Charge(n), s)
<1>1. Charge(n) \in Nat \ {0}
  BY ChargeNat, CacheAssumption
<1>2. RequiredReclaim(Charge(n)) \in Nat
  BY <1>1, CacheAssumption DEF TypeOK, ResidentType, RequiredReclaim
<1>3. adm \in AdmissionCalls /\ [adm EXCEPT !.phase = "make_room"] \in AdmissionCalls
  BY <1>1, <1>2 DEF Admission, AdmissionCalls, TypeOK, ResidentType
<1>4. [NoPlan EXCEPT !.victims = plan.victims] \in PlanType /\ FreshPlan \in PlanType
  <2>1. plan.victims \in SUBSET Slots
    BY DEF TypeOK, CallType
  <2>2. NoPlan \in PlanType
    BY DEF NoPlan, PlanType
  <2>3. FreshPlan \in PlanType
    BY <2>1 DEF FreshPlan, PlanType, TypeOK, ResidentType
  <2> QED
    BY <2>1, <2>2, <2>3 DEF PlanType
<1>5. NoSchedule \in [steps : Seq(PlanStep), freed : Int]
  BY DEF NoSchedule
<1>6. CASE Return("NO_SPACE")
  BY <1>6, ReturnType DEF Statuses
<1>7. CASE schedule' = NoSchedule /\ call' \in AdmissionCalls /\ plan' \in PlanType
  BY <1>5, <1>7 DEF CallType, PlanType
<1> HIDE DEF adm
<1> QED
  BY <1>3, <1>4, <1>6, <1>7 DEF StartAdmission, adm

\* Filling a slot with the admitted base keeps the types.
LEMMA PlaceType ==
    ASSUME TypeOK, call \in AdmissionCalls, NEW s \in Slots, Place(s)
    PROVE  ResidentType'
<1> DEFINE l == call.key.layer
           c == call.charge
<1>1. /\ call.key \in Keys /\ call.payload \in Payloads /\ c \in Nat
      /\ c \in Int /\ 1 \in Int
  BY DEF AdmissionCalls
<1>2. NextClock \in 0 .. MaxClock
  BY NextClockType DEF TypeOK, ResidentType
<1>3. [EmptyEntry EXCEPT !.key = call.key, !.base = call.payload,
                         !.base_charge = c, !.last_access = NextClock,
                         !.admission_order = NextClock] \in Entry
  BY <1>1, <1>2, EmptyEntryType DEF Entry, EmptyEntry
<1>4. entries' \in [Slots -> Entry]
  BY <1>3, RescaledType DEF Place, TypeOK, ResidentType
<1>5. /\ layer_base_bytes' = [layer_base_bytes EXCEPT ![l] = @ + c]
      /\ layer_base_entries' = [layer_base_entries EXCEPT ![l] = @ + 1]
      /\ layer_base_bytes \in [Layers -> Int]
      /\ layer_base_entries \in [Layers -> Int]
  BY DEF Place, TypeOK, ResidentType
<1> HIDE DEF l, c
<1>6. /\ layer_base_bytes' \in [Layers -> Int]
      /\ layer_base_entries' \in [Layers -> Int]
  BY <1>1, <1>5, CounterType, Zenon
<1> QED
  BY <1>1, <1>2, <1>4, <1>6 DEF Place, Peak, TypeOK, ResidentType, c

\* Giving an entry its residual plane keeps the types.
LEMMA PromoteType ==
    ASSUME TypeOK, call \in AdmissionCalls, CommitPromote
    PROVE  ResidentType'
<1> DEFINE s == call.protected
           l == call.key.layer
           c == call.charge
<1>1. /\ call.payload \in Payloads /\ c \in Nat /\ c \in Int /\ 1 \in Int
  BY DEF AdmissionCalls
<1>2. entries' \in [Slots -> Entry]
  <2>1. entries \in [Slots -> Entry]
    BY DEF TypeOK, ResidentType
  <2>2. ASSUME NEW e \in Entry
        PROVE  [e EXCEPT !.residual = call.payload, !.residual_charge = c] \in Entry
    BY <1>1 DEF Entry
  <2>3. entries' = [entries EXCEPT ![s] =
                [entries[s] EXCEPT !.residual = call.payload, !.residual_charge = c]]
    BY <2>1 DEF CommitPromote
  <2>4. CASE s \in Slots
    BY <2>1, <2>2, <2>3, <2>4
  <2>5. CASE s \notin Slots
    BY <2>1, <2>3, <2>5
  <2> QED
    BY <2>4, <2>5
<1>3. /\ layer_residual_bytes' = [layer_residual_bytes EXCEPT ![l] = @ + c]
      /\ layer_residual_entries' = [layer_residual_entries EXCEPT ![l] = @ + 1]
      /\ layer_residual_bytes \in [Layers -> Int]
      /\ layer_residual_entries \in [Layers -> Int]
  BY DEF CommitPromote, TypeOK, ResidentType
<1> HIDE DEF l, c
<1>4. /\ layer_residual_bytes' \in [Layers -> Int]
      /\ layer_residual_entries' \in [Layers -> Int]
  BY <1>1, <1>3, CounterType, Zenon
<1> QED
  BY <1>1, <1>2, <1>4 DEF CommitPromote, Peak, TypeOK, ResidentType, c

\* The plan grows by one victim and the schedule by one step.
LEMMA PlanVictimType ==
    ASSUME TypeOK, call \in AdmissionCalls, PlanVictim
    PROVE  CallType'
<1>1. PICK s \in Slots :
        /\ plan' = [plan EXCEPT !.victims = @ \cup {s},
                      !.base_bytes[entries[s].key.layer] = @ - entries[s].base_charge,
                      !.base_entries[entries[s].key.layer] = @ - 1,
                      !.freed = @ + entries[s].base_charge]
        /\ schedule' = [steps |-> Append(schedule.steps,
                                [victim |-> s, base_bytes |-> plan.base_bytes,
                                 base_entries |-> plan.base_entries,
                                 freed |-> plan.freed]),
                        freed |-> plan'.freed]
  BY DEF PlanVictim
<1> DEFINE l == entries[s].key.layer
           c == entries[s].base_charge
<1>2. plan \in PlanType /\ c \in Int /\ 1 \in Int
  BY DEF TypeOK, CallType, ResidentType, PlanType, Entry
<1>3. /\ plan'.victims = plan.victims \cup {s}
      /\ plan'.base_bytes = [plan.base_bytes EXCEPT ![l] = @ - c]
      /\ plan'.base_entries = [plan.base_entries EXCEPT ![l] = @ - 1]
      /\ plan'.freed = plan.freed + c
      /\ plan' = [victims |-> plan'.victims, base_bytes |-> plan'.base_bytes,
                  base_entries |-> plan'.base_entries, freed |-> plan'.freed]
  BY <1>1, <1>2 DEF PlanType
<1> HIDE DEF l, c
<1>4. plan'.base_bytes \in [Layers -> Int] /\ plan'.base_entries \in [Layers -> Int]
  <2>1. plan.base_bytes \in [Layers -> Int] /\ plan.base_entries \in [Layers -> Int]
    BY <1>2 DEF PlanType
  <2>2. /\ [plan.base_bytes EXCEPT ![l] = @ - c] \in [Layers -> Int]
        /\ [plan.base_entries EXCEPT ![l] = @ - 1] \in [Layers -> Int]
    BY <2>1, <1>2, CounterType
  <2> QED
    BY <2>2, <1>3
<1>5. plan' \in PlanType
  BY <1>2, <1>3, <1>4 DEF PlanType
<1>6. [victim |-> s, base_bytes |-> plan.base_bytes,
       base_entries |-> plan.base_entries, freed |-> plan.freed] \in PlanStep
  BY <1>2 DEF PlanStep, PlanType
<1>7. schedule' \in [steps : Seq(PlanStep), freed : Int]
  BY <1>1, <1>5, <1>6, AppendProperties DEF TypeOK, CallType, PlanType
<1> QED
  BY <1>5, <1>7 DEF PlanVictim, TypeOK, CallType, PlanType

\* A cache fresh from expert_cache_init is well typed.
LEMMA InitType == Init => TypeOK
<1> SUFFICES ASSUME Init PROVE TypeOK
  OBVIOUS
<1>1. entries \in [Slots -> Entry]
  BY EmptyEntryType DEF Init
<1>2. ResidentType
  BY <1>1, CacheAssumption DEF Init, ResidentType
<1>3. CallType
  BY DEF Init, CallType, Idle, Statuses, NoPlan, NoSchedule
<1> QED
  BY <1>2, <1>3 DEF TypeOK

\* Every step of the cache keeps the types.
LEMMA TypeStep == TypeOK /\ [Next]_vars => TypeOK'
<1> SUFFICES ASSUME TypeOK, [Next]_vars PROVE TypeOK'
  OBVIOUS
<1> USE DEF TypeOK
<1> DEFINE Same == UNCHANGED <<residentVars, peak_payload_bytes, clock>>
<1>a. ASSUME Same PROVE ResidentType'
  BY <1>a DEF residentVars, layerVars, byteVars, ResidentType
<1>b. ASSUME UNCHANGED <<call, plan, schedule>> PROVE CallType'
  BY <1>b DEF CallType
<1>c. ASSUME NEW k \in Keys, NEW s \in Holding(k) PROVE s \in Slots
  BY DEF Holding, Occupied
<1>d. call.phase \in {"plan", "make_room"} => call \in AdmissionCalls
  BY DEF CallType
<1>1. ASSUME NEW k \in Keys, Get(k) PROVE TypeOK'
  <2>1. PICK s \in Slots :
            entries' = [Rescaled EXCEPT ![s].last_access = NextClock,
                                        ![s].hot = @ \/ Policy = "2Q"]
    BY <1>1, <1>c DEF Get
  <2>2. Rescaled \in [Slots -> Entry] /\ NextClock \in 0 .. MaxClock
    BY RescaledType, NextClockType DEF ResidentType
  <2>3. entries' \in [Slots -> Entry]
    <3>1. ASSUME NEW e \in Entry
          PROVE  [e EXCEPT !.last_access = NextClock,
                           !.hot = @ \/ Policy = "2Q"] \in Entry
      BY <2>2 DEF Entry
    <3>2. entries' = [Rescaled EXCEPT ![s] =
                        [Rescaled[s] EXCEPT !.last_access = NextClock,
                                            !.hot = @ \/ Policy = "2Q"]]
      BY <2>1, <2>2
    <3> QED
      BY <2>2, <3>1, <3>2
  <2>4. ResidentType'
    BY <1>1, <2>2, <2>3 DEF Get, ResidentType, layerVars, byteVars
  <2> QED
    BY <1>1, <2>4, ReturnType DEF Get, Statuses
<1>2. ASSUME NEW k \in Keys, NEW p \in Payloads, NEW n \in Sizes, InsertBase(k, p, n)
      PROVE  TypeOK'
  <2>1. CASE Return("EXISTS")
    BY <1>2, <2>1, <1>a, ReturnType DEF InsertBase, Statuses
  <2>2. CASE StartAdmission(Admission("insert", k, p, Charge(n), NoSlot))
    <3>1. NoSlot \in Slots \cup {NoSlot} /\ "insert" \in {"insert", "promote"}
      OBVIOUS
    <3> QED
      BY <1>2, <2>2, <3>1, <1>a, StartAdmissionType DEF InsertBase
  <2> QED
    BY <1>2, <2>1, <2>2 DEF InsertBase
<1>3. ASSUME NEW k \in Keys, NEW p \in Payloads, NEW n \in Sizes, Promote(k, p, n)
      PROVE  TypeOK'
  <2>1. CASE \E status \in Statuses : Return(status)
    BY <1>3, <2>1, <1>a, ReturnType DEF Promote
  <2>2. CASE \E s \in Holding(k) : StartAdmission(Admission("promote", k, p, Charge(n), s))
    <3>1. PICK s \in Slots : StartAdmission(Admission("promote", k, p, Charge(n), s))
      BY <2>2, <1>c
    <3>2. s \in Slots \cup {NoSlot} /\ "promote" \in {"insert", "promote"}
      OBVIOUS
    <3> QED
      BY <1>3, <3>1, <3>2, <1>a, StartAdmissionType DEF Promote
  <2> QED
    BY <1>3, <2>1, <2>2 DEF Promote, Statuses
<1>4. CASE PlanVictim
  BY <1>4, <1>a, <1>d, PlanVictimType DEF PlanVictim
<1>5. CASE PlanFails
  BY <1>5, <1>a, ReturnType DEF PlanFails, Statuses
<1>6. CASE PlanSucceeds
  <2>1. call' \in AdmissionCalls
    BY <1>6, <1>d DEF PlanSucceeds, AdmissionCalls
  <2>2. plan' \in PlanType
    BY <1>6 DEF PlanSucceeds, NoPlan, PlanType
  <2> QED
    BY <1>6, <2>1, <2>2, <1>a DEF PlanSucceeds, CallType, PlanType
<1>7. CASE MakeRoomDemote
  BY <1>7, <1>b, ReleaseResidualType DEF MakeRoomDemote
<1>8. CASE MakeRoomEvict
  <2>1. ResidentType'
    BY <1>8, ReleaseBaseType DEF MakeRoomEvict
  <2>2. schedule' \in [steps : Seq(PlanStep), freed : Int]
    <3>1. schedule \in [steps : Seq(PlanStep), freed : Int]
      BY DEF CallType
    <3>2. schedule.steps # <<>> => Tail(schedule.steps) \in Seq(PlanStep)
      BY <3>1, HeadTailProperties
    <3> QED
      BY <1>8, <3>1, <3>2 DEF MakeRoomEvict
  <2> QED
    BY <1>8, <2>1, <2>2 DEF MakeRoomEvict, CallType
<1>9. CASE CommitInsert
  <2>1. call \in AdmissionCalls
    BY <1>9, <1>d DEF CommitInsert, RoomMade
  <2>2. CASE Return("CORRUPT") /\ Same
    BY <2>2, <1>a, ReturnType DEF Statuses
  <2>3. CASE Return("OK") /\ \E s \in Slots : Place(s)
    BY <2>1, <2>3, PlaceType, ReturnType DEF Statuses
  <2> QED
    BY <1>9, <2>2, <2>3 DEF CommitInsert
<1>10. CASE CommitPromote
  <2>1. call \in AdmissionCalls
    BY <1>10, <1>d DEF CommitPromote, RoomMade
  <2> QED
    BY <1>10, <2>1, PromoteType, ReturnType DEF CommitPromote, Statuses
<1>11. ASSUME NEW k \in Keys, Remove(k) PROVE TypeOK'
  BY <1>11, <1>c, ReleaseBaseType, ReturnType DEF Remove, Statuses
<1>12. ASSUME NEW level \in {"WARN", "CRITICAL"}, NEW target \in Targets,
              ApplyPressure(level, target)
       PROVE  TypeOK'
  BY <1>12, <1>a DEF ApplyPressure, CallType
<1>13. CASE PressureDemote
  BY <1>13, <1>b, ReleaseResidualType DEF PressureDemote
<1>14. CASE PressureEvict
  BY <1>14, <1>b, ReleaseBaseType DEF PressureEvict
<1>15. CASE PressureReturns
  BY <1>15, <1>a, ReturnType DEF PressureReturns, Statuses
<1>16. CASE Destroy
  BY <1>16, <1>a DEF Destroy, CallType
<1>17. CASE DestroyRelease
  BY <1>17, <1>b, ReleaseBaseType DEF DestroyRelease, Occupied
<1>18. CASE DestroyReturns
  BY <1>18, <1>a DEF DestroyReturns, CallType
<1>19. CASE UNCHANGED vars
  BY <1>19, <1>a, <1>b DEF vars, residentVars
<1> QED
  BY <1>1, <1>2, <1>3, <1>4, <1>5, <1>6, <1>7, <1>8, <1>9, <1>10, <1>11, <1>12,
     <1>13, <1>14, <1>15, <1>16, <1>17, <1>18, <1>19 DEF Next

\* Every variable keeps its type, whatever the sizes, floors, policy and
\* budget, and no clock stamp outgrows the clock.
THEOREM TypeCorrect == Spec => []TypeOK
<1>1. Init => TypeOK
  BY InitType
<1>2. TypeOK /\ [Next]_vars => TypeOK'
  BY TypeStep
<1> QED
  BY <1>1, <1>2, PTL DEF Spec

-----------------------------------------------------------------------------
(* The counters.                                                           *)

\* What an admission that passed the checks knows of the cache it found: its
\* charge fits the budget, its payload is not held, the key of an insertion
\* is not resident, and a promoted entry stays, without a residual plane.
AdmissionOK ==
    call.phase \in {"plan", "make_room"} =>
        /\ call \in AdmissionCalls
        /\ call.charge > 0 /\ call.charge <= Budget
        /\ ~PayloadInUse(call.payload)
        /\ call.op = "insert" => Holding(call.key) = {} /\ call.protected = NoSlot
        /\ call.op = "promote" => /\ call.protected \in Occupied \ HasResidual
                                  /\ entries[call.protected].key = call.key

\* Placing a base in a free slot puts exactly its charge in the books.
LEMMA PlaceAccounting ==
    ASSUME TypeOK, ResidentType', EntriesOK, Accounting, call \in AdmissionCalls,
           NEW s \in Slots \ Occupied, Place(s)
    PROVE  Accounting'
<1> DEFINE l == call.key.layer
           c == call.charge
<1>1. /\ l \in Layers /\ c \in Nat /\ call.payload \in Payloads
      /\ call.payload # NoPayload
  BY CacheAssumption DEF AdmissionCalls, Keys
<1>2. ResidentType
  BY DEF TypeOK
<1>3. Rescaled \in [Slots -> Entry]
  BY <1>2, RescaledType DEF ResidentType
<1>4. /\ \A t \in Slots \ {s} : entries'[t] = Rescaled[t]
      /\ entries'[s].key = call.key /\ entries'[s].base = call.payload
      /\ entries'[s].base_charge = c
      /\ entries'[s].residual = NoPayload /\ entries'[s].residual_charge = 0
  BY <1>3 DEF Place, EmptyEntry
<1>5. \A t \in Slots \ {s} : SamePlanes(entries[t], entries'[t])
  BY <1>2, <1>4, RescaledPlanes DEF ResidentType
<1>6. \A L : /\ BaseCharges(L)[s] = 0 /\ ResidualCharges(L)[s] = 0
             /\ BaseMarks(L)[s] = 0 /\ ResidualMarks(L)[s] = 0
             /\ BaseCharges(L)'[s] = (IF l \in L THEN c ELSE 0)
             /\ ResidualCharges(L)'[s] = 0
             /\ BaseMarks(L)'[s] = (IF l \in L THEN 1 ELSE 0)
             /\ ResidualMarks(L)'[s] = 0
  BY <1>1, <1>4 DEF BaseCharges, BaseMarks, ResidualCharges, ResidualMarks,
                    CountsIn, Occupied, HasResidual
<1>7. BooksStep(s, l, c, 0, 1, 0)
  <2>1. /\ layer_base_bytes' = [layer_base_bytes EXCEPT ![l] = @ + c]
        /\ layer_base_entries' = [layer_base_entries EXCEPT ![l] = @ + 1]
        /\ UNCHANGED <<residual_bytes, layer_residual_bytes, layer_residual_entries>>
        /\ payload_bytes' = payload_bytes + c /\ base_bytes' = base_bytes + c
        /\ entry_count' = entry_count + 1
    BY DEF Place
  <2> HIDE DEF l, c
  <2> QED
    BY <1>1, <1>2, <1>5, <1>6, <2>1 DEF BooksStep, ResidentType
<1>8. c \in Int /\ 0 \in Int /\ 1 \in Int
  BY <1>1
<1> HIDE DEF l, c
<1> QED
  BY <1>1, <1>2, <1>7, <1>8, AccountingStep

\* Promoting an entry puts exactly its residual's charge in the books.
LEMMA PromoteAccounting ==
    ASSUME TypeOK, ResidentType', EntriesOK, Accounting, call \in AdmissionCalls,
           call.protected \in Occupied \ HasResidual,
           entries[call.protected].key = call.key, CommitPromote
    PROVE  Accounting'
<1> DEFINE s == call.protected
           l == call.key.layer
           c == call.charge
<1>1. /\ l \in Layers /\ c \in Nat /\ call.payload \in Payloads
      /\ call.payload # NoPayload
  BY CacheAssumption DEF AdmissionCalls, Keys
<1>2. ResidentType /\ s \in Slots /\ entries[s] \in Entry
  BY DEF TypeOK, ResidentType, Occupied
<1>3. /\ \A t \in Slots \ {s} : entries'[t] = entries[t]
      /\ entries'[s].key = call.key /\ entries'[s].base = entries[s].base
      /\ entries'[s].base_charge = entries[s].base_charge
      /\ entries'[s].residual = call.payload /\ entries'[s].residual_charge = c
  BY <1>2 DEF CommitPromote, ResidentType, Entry
<1>4. \A t \in Slots \ {s} : SamePlanes(entries[t], entries'[t])
  BY <1>3 DEF SamePlanes
<1>5. entries[s].residual = NoPayload /\ entries[s].residual_charge = 0
  BY <1>2 DEF EntriesOK, HasResidual
<1>6. \A L : /\ BaseCharges(L)'[s] = BaseCharges(L)[s]
             /\ BaseMarks(L)'[s] = BaseMarks(L)[s]
             /\ BaseCharges(L)[s] \in Int /\ BaseMarks(L)[s] \in Int
             /\ ResidualCharges(L)[s] = 0 /\ ResidualMarks(L)[s] = 0
             /\ ResidualCharges(L)'[s] = (IF l \in L THEN c ELSE 0)
             /\ ResidualMarks(L)'[s] = (IF l \in L THEN 1 ELSE 0)
  BY <1>1, <1>2, <1>3, <1>5 DEF BaseCharges, BaseMarks, ResidualCharges,
        ResidualMarks, CountsIn, Occupied, HasResidual, Entry
<1>7. BooksStep(s, l, 0, c, 0, 1)
  <2>1. /\ layer_residual_bytes' = [layer_residual_bytes EXCEPT ![l] = @ + c]
        /\ layer_residual_entries' = [layer_residual_entries EXCEPT ![l] = @ + 1]
        /\ UNCHANGED <<base_bytes, layer_base_bytes, layer_base_entries, entry_count>>
        /\ payload_bytes' = payload_bytes + c /\ residual_bytes' = residual_bytes + c
    BY DEF CommitPromote
  <2> HIDE DEF s, l, c
  <2> QED
    BY <1>1, <1>2, <1>4, <1>6, <2>1 DEF BooksStep, ResidentType
<1>8. c \in Int /\ 0 \in Int /\ 1 \in Int
  BY <1>1
<1> HIDE DEF s, l, c
<1> QED
  BY <1>1, <1>2, <1>7, <1>8, AccountingStep

\* Free entries stay zeroed and used ones keep a key.
LEMMA EntriesStep ==
    TypeOK /\ EntriesOK /\ AdmissionOK /\ [Next]_vars => EntriesOK'
<1> SUFFICES ASSUME TypeOK, EntriesOK, AdmissionOK, [Next]_vars PROVE EntriesOK'
  OBVIOUS
<1>1. entries \in [Slots -> Entry]
  BY DEF TypeOK, ResidentType
<1>2. \A s \in Slots : entries[s] \in Entry
  BY <1>1
<1>3. ASSUME NEW s \in HasResidual, ReleaseResidual(s) PROVE EntriesOK'
  <2>1. s \in Slots /\ entries[s].base # NoPayload
    BY DEF HasResidual, Occupied
  <2>2. /\ \A t \in Slots \ {s} : entries'[t] = entries[t]
        /\ entries'[s].base = entries[s].base /\ entries'[s].key = entries[s].key
        /\ entries'[s].residual_charge = 0
    BY <1>1, <1>2, <1>3, <2>1 DEF ReleaseResidual, Entry
  <2>3. ASSUME NEW t \in Slots
        PROVE  /\ entries'[t].base = NoPayload => entries'[t] = EmptyEntry
               /\ entries'[t].base # NoPayload => entries'[t].key \in Keys
               /\ entries'[t].residual = NoPayload => entries'[t].residual_charge = 0
    BY <2>1, <2>2 DEF EntriesOK
  <2> QED
    BY <2>3 DEF EntriesOK
<1>4. ASSUME NEW s \in Slots, ReleaseBase(s) PROVE EntriesOK'
  BY <1>1, <1>4 DEF ReleaseBase, EntriesOK, EmptyEntry
<1>5. ASSUME UNCHANGED entries PROVE EntriesOK'
  BY <1>5 DEF EntriesOK
<1>6. /\ Rescaled \in [Slots -> Entry]
      /\ \A s \in Slots : SamePlanes(entries[s], Rescaled[s])
      /\ \A s \in Slots : entries[s].base = NoPayload => Rescaled[s] = entries[s]
  BY <1>1, RescaledType, RescaledPlanes DEF Rescaled, Occupied
<1>7. ASSUME NEW k \in Keys, Get(k) PROVE EntriesOK'
  <2>1. PICK s \in Occupied :
            entries' = [Rescaled EXCEPT ![s].last_access = NextClock,
                                        ![s].hot = @ \/ Policy = "2Q"]
    BY <1>7 DEF Get, Holding
  <2>2. s \in Slots /\ entries[s].base # NoPayload
    BY DEF Occupied
  <2>3. /\ \A t \in Slots \ {s} : entries'[t] = Rescaled[t]
        /\ SamePlanes(Rescaled[s], entries'[s])
    BY <1>6, <2>1, <2>2 DEF SamePlanes, Entry
  <2> QED
    BY <1>6, <2>2, <2>3 DEF EntriesOK, SamePlanes
<1>8. CASE CommitInsert
  <2>1. CASE UNCHANGED entries
    BY <2>1, <1>5
  <2>2. CASE \E s \in Slots : Place(s)
    <3>1. PICK s \in Slots : Place(s)
      BY <2>2
    <3>2. /\ call.key \in Keys /\ call.payload # NoPayload
      BY <1>8, CacheAssumption DEF CommitInsert, RoomMade, AdmissionOK, AdmissionCalls
    <3>3. /\ \A t \in Slots \ {s} : entries'[t] = Rescaled[t]
          /\ entries'[s].key = call.key /\ entries'[s].base = call.payload
          /\ entries'[s].residual_charge = 0
      BY <1>6, <3>1 DEF Place, EmptyEntry
    <3> QED
      BY <1>6, <3>2, <3>3 DEF EntriesOK, SamePlanes
  <2> QED
    BY <1>8, <2>1, <2>2 DEF CommitInsert, residentVars
<1>9. CASE CommitPromote
  <2>1. /\ call.protected \in Slots /\ entries[call.protected].base # NoPayload
        /\ call.payload # NoPayload
    BY <1>9, CacheAssumption DEF CommitPromote, RoomMade, AdmissionOK,
                                AdmissionCalls, Occupied
  <2>2. /\ \A t \in Slots \ {call.protected} : entries'[t] = entries[t]
        /\ entries'[call.protected].base = entries[call.protected].base
        /\ entries'[call.protected].key = entries[call.protected].key
        /\ entries'[call.protected].residual = call.payload
    BY <1>1, <1>9, <2>1 DEF CommitPromote, Entry
  <2> QED
    BY <2>1, <2>2 DEF EntriesOK
<1>10. ASSUME NEW k \in Keys, Remove(k) PROVE EntriesOK'
  BY <1>10, <1>4 DEF Remove, Holding, Occupied
<1>11. CASE MakeRoomDemote \/ PressureDemote
  BY <1>11, <1>3 DEF MakeRoomDemote, PressureDemote, First
<1>12. CASE MakeRoomEvict \/ PressureEvict \/ DestroyRelease
  BY <1>12, <1>4 DEF MakeRoomEvict, PressureEvict, DestroyRelease, Occupied
<1> QED
  BY <1>5, <1>7, <1>8, <1>9, <1>10, <1>11, <1>12
     DEF Next, vars, residentVars, InsertBase, Promote, PlanVictim, PlanFails,
         PlanSucceeds, ApplyPressure, PressureReturns, Destroy, DestroyReturns

\* An admission that starts has passed the checks of its call.
LEMMA StartAdmissionOK ==
    ASSUME TypeOK, NEW op \in {"insert", "promote"}, NEW k \in Keys,
           NEW p \in Payloads, NEW n \in Sizes, NEW s \in Slots \cup {NoSlot},
           StartAdmission(Admission(op, k, p, Charge(n), s)),
           UNCHANGED entries, ~PayloadInUse(p),
           op = "insert" => Holding(k) = {} /\ s = NoSlot,
           op = "promote" => s \in Occupied \ HasResidual /\ entries[s].key = k
    PROVE  AdmissionOK'
<1>1. Charge(n) \in Nat /\ Charge(n) > 0
  BY ChargeNat, CacheAssumption
<1>2. CallType'
  BY StartAdmissionType
<1>3. CASE Charge(n) > Budget
  BY <1>3 DEF StartAdmission, Admission, Return, Idle, AdmissionOK
<1>4. CASE ~(Charge(n) > Budget)
  <2>1. /\ call'.phase \in {"plan", "make_room"}
        /\ call'.op = op /\ call'.key = k /\ call'.payload = p
        /\ call'.charge = Charge(n) /\ call'.protected = s
    BY <1>4 DEF StartAdmission, Admission
  <2>2. call' \in AdmissionCalls
    BY <1>2, <2>1 DEF CallType
  <2>3. Charge(n) <= Budget
    BY <1>1, <1>4, CacheAssumption
  <2>4. /\ PayloadInUse(p)' <=> PayloadInUse(p)
        /\ Holding(k)' = Holding(k) /\ Occupied' = Occupied
        /\ HasResidual' = HasResidual
    BY DEF PayloadInUse, Holding, Occupied, HasResidual
  <2>5. (PayloadInUse(call.payload))' <=> PayloadInUse(p)'
    BY <2>1 DEF PayloadInUse
  <2>6. (Holding(call.key))' = Holding(k)'
    BY <2>1 DEF Holding
  <2> QED
    BY <1>1, <2>1, <2>2, <2>3, <2>4, <2>5, <2>6 DEF AdmissionOK
<1> QED
  BY <1>3, <1>4

\* Releasing a plane that is not the promoted entry's base leaves the rest of
\* the call's knowledge true.
LEMMA ReleaseKeepsAdmission ==
    ASSUME TypeOK, AdmissionOK, UNCHANGED call, NEW s \in Slots,
           \/ s \in HasResidual /\ ReleaseResidual(s)
           \/ s # call.protected /\ ReleaseBase(s)
    PROVE  AdmissionOK'
<1> SUFFICES ASSUME call.phase \in {"plan", "make_room"} PROVE AdmissionOK'
  BY DEF AdmissionOK
<1>1. call \in AdmissionCalls /\ call.payload \in Payloads /\ call.payload # NoPayload
  BY CacheAssumption DEF AdmissionOK, AdmissionCalls
<1>2. entries \in [Slots -> Entry]
  BY DEF TypeOK, ResidentType
<1>3. /\ \A t \in Slots \ {s} : entries'[t] = entries[t]
      /\ \/ /\ entries'[s].base = entries[s].base /\ entries'[s].key = entries[s].key
            /\ entries'[s].residual = NoPayload /\ s \in HasResidual
         \/ /\ entries'[s].base = NoPayload /\ s # call.protected
            /\ entries'[s].residual = NoPayload
  BY <1>2 DEF ReleaseResidual, ReleaseBase, EmptyEntry, Entry
<1>4. /\ Occupied' \subseteq Occupied
      /\ \A t \in Occupied' : /\ entries'[t].key = entries[t].key
                              /\ entries'[t].base = entries[t].base
                              /\ entries'[t].residual \in {entries[t].residual, NoPayload}
  BY <1>3 DEF Occupied
<1>5. ~PayloadInUse(call.payload)'
  BY <1>1, <1>4 DEF PayloadInUse, AdmissionOK
<1>6. Holding(call.key)' \subseteq Holding(call.key)
  BY <1>4 DEF Holding
<1>7. ASSUME call.op = "promote" PROVE call.protected \in Occupied' \ HasResidual'
  <2>1. call.protected \in Occupied \ HasResidual
    BY <1>7 DEF AdmissionOK
  <2>2. call.protected # s
    BY <1>3, <2>1
  <2> QED
    BY <1>3, <2>1, <2>2 DEF Occupied, HasResidual
<1>8. call.op = "promote" => entries'[call.protected].key = call.key
  BY <1>4, <1>7 DEF AdmissionOK
<1>9. (PayloadInUse(call.payload))' <=> PayloadInUse(call.payload)'
  OBVIOUS
<1> QED
  BY <1>1, <1>5, <1>6, <1>7, <1>8 DEF AdmissionOK

\* The admission facts survive every step that changes the call or the table.
LEMMA AdmissionStep ==
    TypeOK /\ EntriesOK /\ AdmissionOK /\ [Next]_vars => AdmissionOK'
<1> SUFFICES ASSUME TypeOK, EntriesOK, AdmissionOK, [Next]_vars PROVE AdmissionOK'
  OBVIOUS
<1>1. ASSUME NEW status, Return(status) PROVE AdmissionOK'
  BY <1>1 DEF Return, Idle, AdmissionOK
<1>2. ASSUME UNCHANGED <<call, entries>> PROVE AdmissionOK'
  BY <1>2 DEF AdmissionOK, PayloadInUse, Holding, Occupied, HasResidual
<1>3. ASSUME call'.phase \notin {"plan", "make_room"} PROVE AdmissionOK'
  BY <1>3 DEF AdmissionOK
<1>4. ASSUME NEW k \in Keys, NEW p \in Payloads, NEW n \in Sizes, InsertBase(k, p, n)
      PROVE  AdmissionOK'
  <2>1. CASE Return("EXISTS")
    BY <2>1, <1>1
  <2>2. CASE /\ Holding(k) = {} /\ ~PayloadInUse(p)
             /\ StartAdmission(Admission("insert", k, p, Charge(n), NoSlot))
    <3>1. NoSlot \in Slots \cup {NoSlot} /\ UNCHANGED entries
      BY <1>4 DEF InsertBase, residentVars
    <3> QED
      BY <2>2, <3>1, StartAdmissionOK
  <2> QED
    BY <1>4, <2>1, <2>2 DEF InsertBase
<1>5. ASSUME NEW k \in Keys, NEW p \in Payloads, NEW n \in Sizes, Promote(k, p, n)
      PROVE  AdmissionOK'
  <2>1. CASE \E status : Return(status)
    BY <2>1, <1>1
  <2>2. CASE /\ Holding(k) \cap HasResidual = {} /\ ~PayloadInUse(p)
             /\ \E s \in Holding(k) :
                    StartAdmission(Admission("promote", k, p, Charge(n), s))
    <3>1. PICK s \in Holding(k) :
                StartAdmission(Admission("promote", k, p, Charge(n), s))
      BY <2>2
    <3>2. /\ s \in Slots \cup {NoSlot} /\ s \in Occupied \ HasResidual
          /\ entries[s].key = k /\ UNCHANGED entries
      BY <1>5, <2>2 DEF Promote, residentVars, Holding, Occupied
    <3> QED
      BY <2>2, <3>1, <3>2, StartAdmissionOK
  <2> QED
    BY <1>5, <2>1, <2>2 DEF Promote
<1>6. CASE PlanSucceeds
  <2>1. /\ UNCHANGED entries /\ call \in AdmissionCalls
        /\ call' = [call EXCEPT !.phase = "make_room"]
    BY <1>6 DEF PlanSucceeds, residentVars, AdmissionOK
  <2>2. /\ call' \in AdmissionCalls /\ call'.op = call.op /\ call'.key = call.key
        /\ call'.payload = call.payload /\ call'.charge = call.charge
        /\ call'.protected = call.protected
    BY <2>1 DEF AdmissionCalls
  <2> QED
    BY <1>6, <2>1, <2>2
       DEF PlanSucceeds, AdmissionOK, PayloadInUse, Holding, Occupied, HasResidual
<1>7. CASE MakeRoomDemote \/ PressureDemote
  BY <1>7, ReleaseKeepsAdmission DEF MakeRoomDemote, PressureDemote, First
<1>8. CASE MakeRoomEvict
  BY <1>8, ReleaseKeepsAdmission DEF MakeRoomEvict, First, EvictableBases
<1>9. CASE PressureEvict \/ DestroyRelease
  BY <1>9, <1>3 DEF PressureEvict, DestroyRelease
<1>10. ASSUME \/ \E k \in Keys : Get(k) \/ Remove(k)
              \/ PlanFails \/ CommitInsert \/ CommitPromote \/ PressureReturns
       PROVE  AdmissionOK'
  BY <1>10, <1>1 DEF Get, Remove, PlanFails, CommitInsert, CommitPromote,
                     PressureReturns
<1>11. ASSUME \/ \E level \in {"WARN", "CRITICAL"}, target \in Targets :
                    ApplyPressure(level, target)
              \/ Destroy \/ DestroyReturns
       PROVE  AdmissionOK'
  BY <1>11, <1>3 DEF ApplyPressure, Destroy, DestroyReturns
<1>12. CASE PlanVictim \/ UNCHANGED vars
  BY <1>12, <1>2 DEF PlanVictim, vars, residentVars
<1> QED
  BY <1>4, <1>5, <1>6, <1>7, <1>8, <1>9, <1>10, <1>11, <1>12 DEF Next

\* Every step of the cache preserves the accounting.
LEMMA AccountingNext ==
    TypeOK /\ TypeOK' /\ EntriesOK /\ AdmissionOK /\ Accounting /\ [Next]_vars
        => Accounting'
<1> SUFFICES ASSUME TypeOK, TypeOK', EntriesOK, AdmissionOK, Accounting, [Next]_vars
             PROVE  Accounting'
  OBVIOUS
<1>1. ResidentType /\ ResidentType' /\ entries \in [Slots -> Entry]
      /\ entries' \in [Slots -> Entry]
  BY DEF TypeOK, ResidentType
<1>2. ASSUME UNCHANGED residentVars PROVE Accounting'
  <2>1. /\ UNCHANGED entries /\ UNCHANGED <<layerVars, byteVars, entry_count>>
        /\ \A t \in Slots : SamePlanes(entries[t], entries'[t])
    BY <1>2 DEF residentVars, SamePlanes
  <2> QED
    BY <1>1, <2>1, SameBooks
<1>3. ASSUME NEW k \in Keys, Get(k) PROVE Accounting'
  <2>1. PICK s \in Slots :
            entries' = [Rescaled EXCEPT ![s].last_access = NextClock,
                                        ![s].hot = @ \/ Policy = "2Q"]
    BY <1>3 DEF Get, Holding, Occupied
  <2>2. \A t \in Slots : SamePlanes(entries[t], entries'[t])
    BY <1>1, <2>1, RescaledType, RescaledPlanes DEF SamePlanes, Entry
  <2> QED
    BY <1>1, <1>3, <2>2, SameBooks DEF Get
<1>4. CASE MakeRoomDemote \/ PressureDemote
  BY <1>1, <1>4, ReleaseResidualAccounting DEF MakeRoomDemote, PressureDemote, First
<1>5. CASE MakeRoomEvict \/ PressureEvict \/ DestroyRelease
  BY <1>1, <1>5, ReleaseBaseAccounting
     DEF MakeRoomEvict, PressureEvict, DestroyRelease, First, EvictableBases
<1>6. ASSUME NEW k \in Keys, Remove(k) PROVE Accounting'
  BY <1>1, <1>6, ReleaseBaseAccounting DEF Remove, Holding
<1>7. CASE CommitInsert
  BY <1>1, <1>2, <1>7, PlaceAccounting DEF CommitInsert, RoomMade, AdmissionOK
<1>8. CASE CommitPromote
  BY <1>1, <1>8, PromoteAccounting DEF CommitPromote, RoomMade, AdmissionOK
<1> QED
  BY <1>2, <1>3, <1>4, <1>5, <1>6, <1>7, <1>8
     DEF Next, vars, residentVars, InsertBase, Promote, PlanVictim, PlanFails,
         PlanSucceeds, ApplyPressure, PressureReturns, Destroy, DestroyReturns

\* The marks of a plan are gone when it is made: the loops that evict find none.
MarksOK == call.phase # "plan" => plan.victims = {}

\* Every call leaves the entries unmarked.
LEMMA MarksStep == TypeOK /\ AdmissionOK /\ MarksOK /\ [Next]_vars => MarksOK'
<1> SUFFICES ASSUME TypeOK, AdmissionOK, MarksOK, [Next]_vars PROVE MarksOK'
  OBVIOUS
<1>1. NoPlan.victims = {} /\ NoPlan \in PlanType /\ plan \in PlanType
  BY DEF NoPlan, PlanType, TypeOK, CallType
<1>2. ASSUME NEW status, Return(status) PROVE MarksOK'
  BY <1>1, <1>2 DEF Return, Unmarked, MarksOK, PlanType
<1>3. ASSUME NEW adm, adm.phase = "plan", call.phase = "idle", StartAdmission(adm)
      PROVE  MarksOK'
  <2>1. CASE call' = adm
    BY <1>3, <2>1 DEF MarksOK
  <2>2. CASE plan' = [NoPlan EXCEPT !.victims = plan.victims]
    BY <1>1, <1>3, <2>2 DEF MarksOK, PlanType
  <2> QED
    BY <1>2, <1>3, <2>1, <2>2 DEF StartAdmission
<1>4. ASSUME NEW k \in Keys, NEW p \in Payloads, NEW n \in Sizes,
             InsertBase(k, p, n) \/ Promote(k, p, n)
      PROVE  MarksOK'
  <2>1. \A op, s : Admission(op, k, p, Charge(n), s).phase = "plan"
    BY DEF Admission
  <2> QED
    BY <1>2, <1>3, <1>4, <2>1 DEF InsertBase, Promote
<1>5. CASE PlanVictim \/ PlanSucceeds
  BY <1>1, <1>5 DEF PlanVictim, PlanSucceeds, MarksOK
<1>6. CASE \/ MakeRoomDemote \/ MakeRoomEvict \/ PressureDemote \/ PressureEvict
           \/ Destroy \/ DestroyRelease \/ DestroyReturns \/ UNCHANGED vars
           \/ \E level \in {"WARN", "CRITICAL"}, target \in Targets :
                 ApplyPressure(level, target)
  BY <1>6 DEF MakeRoomDemote, MakeRoomEvict, PressureDemote, PressureEvict, Destroy,
     DestroyRelease, DestroyReturns, ApplyPressure, vars, MarksOK
<1>7. CASE \/ \E k \in Keys : Get(k) \/ Remove(k)
           \/ PlanFails \/ CommitInsert \/ CommitPromote \/ PressureReturns
  BY <1>2, <1>7 DEF Get, Remove, PlanFails, CommitInsert, CommitPromote, PressureReturns
<1> QED
  BY <1>4, <1>5, <1>6, <1>7 DEF Next

BooksInv == TypeOK /\ EntriesOK /\ AdmissionOK /\ MarksOK /\ Accounting

\* The invariant of the books holds of a new cache.
LEMMA BooksInit == Init => BooksInv
<1> SUFFICES ASSUME Init PROVE BooksInv
  OBVIOUS
<1>1. TypeOK
  BY InitType
<1>2. EntriesOK /\ AdmissionOK /\ Occupied = {}
  BY DEF Init, EntriesOK, EmptyEntry, AdmissionOK, Idle, Occupied
<1>5. MarksOK
  BY DEF Init, MarksOK, NoPlan
<1>3. \A L : /\ SlotTotal(BaseCharges(L)) = 0 /\ SlotTotal(ResidualCharges(L)) = 0
             /\ SlotTotal(BaseMarks(L)) = 0 /\ SlotTotal(ResidualMarks(L)) = 0
  <2>1. MaxEntries \in Nat /\ Slots = 1 .. MaxEntries
    BY CacheAssumption DEF Slots
  <2>2. \A L : /\ BaseCharges(L) = [s \in Slots |-> 0]
               /\ ResidualCharges(L) = [s \in Slots |-> 0]
               /\ BaseMarks(L) = [s \in Slots |-> 0]
               /\ ResidualMarks(L) = [s \in Slots |-> 0]
    BY <1>2 DEF BaseCharges, ResidualCharges, BaseMarks, ResidualMarks, CountsIn
  <2>3. SlotTotal([s \in Slots |-> 0]) = 0
    BY <2>1, TotalZero DEF SlotTotal
  <2> QED
    BY <2>2, <2>3
<1>4. Accounting
  BY <1>3 DEF Init, Accounting
<1> QED
  BY <1>1, <1>2, <1>4, <1>5 DEF BooksInv

\* Every step of the cache preserves the invariant of the books.
LEMMA BooksNext == BooksInv /\ [Next]_vars => BooksInv'
  BY TypeStep, EntriesStep, AdmissionStep, MarksStep, AccountingNext DEF BooksInv

\* Every counter the cache decides by is the sum it stands for, in every state
\* between two releases, whatever the sizes, floors, policy and budget.
THEOREM AccountingCorrect == Spec => []Accounting
<1>1. BooksInv => Accounting
  BY DEF BooksInv
<1> QED
  BY <1>1, BooksInit, BooksNext, PTL DEF Spec

-----------------------------------------------------------------------------
(***************************************************************************)
(* The room promise and the budget.  can_make_room only predicts: the      *)
(* argument is that make_room then releases exactly the bases that were    *)
(* planned, in the same order.  The history variable "schedule" holds what *)
(* is left of the plan.                                                    *)
(***************************************************************************)

\* The layer and the charge of the i-th base still to be evicted.
LayerOf(i)  == entries[schedule.steps[i].victim].key.layer
ChargeOf(i) == entries[schedule.steps[i].victim].base_charge
PlannedSteps == Len(schedule.steps)

\* The bases the plan could choose from when it chose its i-th victim.
Choice(i) ==
    {s \in Occupied \ {call.protected} :
        /\ \A j \in 1 .. i - 1 : schedule.steps[j].victim # s
        /\ FloorAllows(s, schedule.steps[i].base_bytes,
                          schedule.steps[i].base_entries)}

\* The layer totals and the bytes freed after the i-th victim.
AfterStep(i, totals, counts, freed) ==
    /\ totals = [schedule.steps[i].base_bytes EXCEPT ![LayerOf(i)] = @ - ChargeOf(i)]
    /\ counts = [schedule.steps[i].base_entries EXCEPT ![LayerOf(i)] = @ - 1]
    /\ freed = schedule.steps[i].freed + ChargeOf(i)

\* The schedule starts from the totals of the cache and every step follows
\* from the one before it.
ScheduleOK ==
    call.phase \in {"plan", "make_room"} =>
        /\ \A i \in 1 .. PlannedSteps : First(schedule.steps[i].victim, Choice(i))
        /\ \A i \in 1 .. PlannedSteps - 1 :
                AfterStep(i, schedule.steps[i + 1].base_bytes,
                             schedule.steps[i + 1].base_entries,
                             schedule.steps[i + 1].freed)
        /\ PlannedSteps > 0 =>
                /\ schedule.steps[1].base_bytes = layer_base_bytes
                /\ schedule.steps[1].base_entries = layer_base_entries
                /\ schedule.freed = schedule.steps[PlannedSteps].freed
                                        + ChargeOf(PlannedSteps)

\* The plan being made has taken the steps of the schedule.
PlanOK ==
    call.phase = "plan" =>
        /\ plan.victims = {schedule.steps[i].victim : i \in 1 .. PlannedSteps}
        /\ IF PlannedSteps = 0
           THEN /\ plan.base_bytes = layer_base_bytes
                /\ plan.base_entries = layer_base_entries
                /\ plan.freed = residual_bytes
           ELSE /\ AfterStep(PlannedSteps, plan.base_bytes, plan.base_entries,
                             plan.freed)
                /\ schedule.steps[1].freed = residual_bytes
        /\ plan.freed >= residual_bytes
        /\ call.needed = RequiredReclaim(call.charge)

\* Bytes of the bases the schedule still has to evict.
Scheduled == IF PlannedSteps = 0 THEN 0
             ELSE schedule.freed - schedule.steps[1].freed

\* Once the scheduled bases and every residual plane have left, the plane
\* fits, and an insertion has a free entry.
RoomOK ==
    call.phase = "make_room" =>
        /\ base_bytes - Scheduled + call.charge <= Budget
        /\ call.op = "insert" => PlannedSteps > 0 \/ entry_count < MaxEntries

-----------------------------------------------------------------------------
\* The policy's order has one first element.
LEMMA FirstUnique ==
    ASSUME entries \in [Slots -> Entry], NEW S \in SUBSET Slots,
           NEW s, NEW t, First(s, S), First(t, S)
    PROVE  s = t
<1> SUFFICES ASSUME s # t PROVE FALSE
  OBVIOUS
<1>1. /\ s \in Slots /\ t \in Slots /\ s \in Int /\ t \in Int
      /\ Precedes(entries[s], s, entries[t], t)
      /\ Precedes(entries[t], t, entries[s], s)
  BY CacheAssumption DEF First, Slots
<1>2. /\ entries[s].last_access \in Int /\ entries[t].last_access \in Int
      /\ entries[s].admission_order \in Int /\ entries[t].admission_order \in Int
      /\ entries[s].hot \in BOOLEAN /\ entries[t].hot \in BOOLEAN
  BY <1>1, CacheAssumption DEF Entry
<1> QED
  BY <1>1, <1>2 DEF Precedes

\* Entries of the policy: what FloorAllows and Precedes look at.
SameRank(e, f) ==
    /\ e.key = f.key /\ e.base_charge = f.base_charge
    /\ e.last_access = f.last_access /\ e.admission_order = f.admission_order
    /\ e.hot = f.hot

\* If no candidate of S changes a field the order reads, the slot that was first of S
\* still is.
LEMMA FirstSame ==
    ASSUME NEW S \in SUBSET Slots, NEW s,
           \A t \in S : SameRank(entries[t], entries'[t]), First(s, S)
    PROVE  s \in S /\ \A t \in S \ {s} : Precedes(entries'[s], s, entries'[t], t)
<1>1. s \in S /\ \A t \in S \ {s} : Precedes(entries[s], s, entries[t], t)
  BY DEF First
<1>2. ASSUME NEW t \in S \ {s} PROVE Precedes(entries'[s], s, entries'[t], t)
  <2>1. SameRank(entries[s], entries'[s]) /\ SameRank(entries[t], entries'[t])
    BY <1>1
  <2>2. Precedes(entries[s], s, entries[t], t)
    BY <1>1
  <2> QED
    BY <2>1, <2>2 DEF Precedes, SameRank
<1> QED
  BY <1>1, <1>2

\* A step that leaves the ranks of the entries, the layer totals and the
\* schedule alone leaves the schedule right.
LEMMA ScheduleStays ==
    ASSUME TypeOK, ScheduleOK, call.phase \in {"plan", "make_room"},
           UNCHANGED <<schedule, layer_base_bytes, layer_base_entries>>,
           call'.protected = call.protected, Occupied' = Occupied,
           \A t \in Occupied : SameRank(entries[t], entries'[t])
    PROVE  ScheduleOK'
<1> DEFINE sq == schedule.steps
<1>0. PICK n \in Nat : n = PlannedSteps
  BY DEF PlannedSteps, TypeOK, CallType
<1>1. \A i \in 1 .. n : Choice(i)' = Choice(i)
  BY DEF Choice, SameRank, FloorAllows
<1>2. \A i \in 1 .. n : /\ First(sq[i].victim, Choice(i))
                        /\ sq[i].victim \in Occupied
                        /\ Choice(i) \in SUBSET Slots /\ Choice(i) \subseteq Occupied
  BY <1>0 DEF ScheduleOK, First, Choice, Occupied
<1>3. \A i \in 1 .. n : /\ LayerOf(i)' = LayerOf(i) /\ ChargeOf(i)' = ChargeOf(i)
  BY <1>2 DEF LayerOf, ChargeOf, SameRank
<1>4. ASSUME NEW i \in 1 .. n PROVE First(sq[i].victim, Choice(i))'
  BY <1>1, <1>2, FirstSame DEF First
<1>5. PlannedSteps' = n /\ sq' = sq /\ schedule'.freed = schedule.freed
  BY <1>0 DEF PlannedSteps
<1>8. \A i \in 1 .. n - 1 :
          /\ i \in 1 .. n
          /\ AfterStep(i, sq[i + 1].base_bytes, sq[i + 1].base_entries, sq[i + 1].freed)
  BY <1>0 DEF ScheduleOK
<1>9. \A i \in 1 .. n - 1 :
          AfterStep(i, sq[i + 1].base_bytes, sq[i + 1].base_entries, sq[i + 1].freed)'
  BY <1>3, <1>5, <1>8 DEF AfterStep
<1>10. n > 0 => /\ sq[1].base_bytes = layer_base_bytes
                /\ sq[1].base_entries = layer_base_entries
                /\ schedule.freed = sq[n].freed + ChargeOf(n) /\ n \in 1 .. n
  BY <1>0 DEF ScheduleOK
<1>11. n > 0 => /\ sq[1].base_bytes = layer_base_bytes'
                /\ sq[1].base_entries = layer_base_entries'
                /\ schedule.freed = sq[n].freed + ChargeOf(n)'
  BY <1>3, <1>10
<1> QED
  BY <1>4, <1>5, <1>9, <1>11 DEF ScheduleOK

\* The plan's next victim becomes the schedule's last step.
LEMMA ScheduleGrows ==
    ASSUME TypeOK, TypeOK', AdmissionOK, ScheduleOK, PlanOK, PlanVictim
    PROVE  ScheduleOK' /\ PlanOK'
<1> DEFINE sq == schedule.steps
<1>0. PICK n \in Nat : n = PlannedSteps
  BY DEF PlannedSteps, TypeOK, CallType
<1>1. PICK s \in Slots :
        /\ First(s, PlannableBases(call.protected))
        /\ plan' = [plan EXCEPT !.victims = @ \cup {s},
                      !.base_bytes[entries[s].key.layer] = @ - entries[s].base_charge,
                      !.base_entries[entries[s].key.layer] = @ - 1,
                      !.freed = @ + entries[s].base_charge]
        /\ schedule' = [steps |-> Append(sq,
                                [victim |-> s, base_bytes |-> plan.base_bytes,
                                 base_entries |-> plan.base_entries,
                                 freed |-> plan.freed]),
                        freed |-> plan'.freed]
  BY DEF PlanVictim
<1>2. /\ call.phase = "plan" /\ call' = call /\ entries' = entries
      /\ layer_base_bytes' = layer_base_bytes
      /\ layer_base_entries' = layer_base_entries
      /\ payload_bytes' = payload_bytes /\ residual_bytes' = residual_bytes
  BY DEF PlanVictim, residentVars, layerVars, byteVars
<1>3. /\ sq \in Seq(PlanStep) /\ n \in Nat /\ n = Len(sq)
      /\ plan \in PlanType /\ entries[s] \in Entry
  BY <1>0 DEF TypeOK, CallType, ResidentType, PlanType, PlannedSteps
<1>4. /\ PlannedSteps' = n + 1
      /\ \A i \in 1 .. n : schedule'.steps[i] = sq[i]
      /\ schedule'.steps[n + 1].victim = s
      /\ schedule'.steps[n + 1].base_bytes = plan.base_bytes
      /\ schedule'.steps[n + 1].base_entries = plan.base_entries
      /\ schedule'.steps[n + 1].freed = plan.freed
      /\ schedule'.freed = plan'.freed
  BY <1>1, <1>3 DEF PlannedSteps
<1>5. /\ plan'.victims = plan.victims \cup {s}
      /\ plan'.base_bytes = [plan.base_bytes EXCEPT ![entries[s].key.layer] =
                                @ - entries[s].base_charge]
      /\ plan'.base_entries = [plan.base_entries EXCEPT ![entries[s].key.layer] = @ - 1]
      /\ plan'.freed = plan.freed + entries[s].base_charge
  BY <1>1, <1>3 DEF PlanType
<1>6. /\ plan.victims = {sq[i].victim : i \in 1 .. n}
      /\ plan.freed >= residual_bytes
      /\ call.needed = RequiredReclaim(call.charge)
      /\ n = 0 => /\ plan.base_bytes = layer_base_bytes
                  /\ plan.base_entries = layer_base_entries
                  /\ plan.freed = residual_bytes
      /\ n # 0 => /\ AfterStep(n, plan.base_bytes, plan.base_entries, plan.freed)
                  /\ sq[1].freed = residual_bytes
  BY <1>0, <1>2 DEF PlanOK
<1>7. Occupied' = Occupied
  BY <1>2 DEF Occupied
<1>8. \A i \in 1 .. n : Choice(i)' = Choice(i)
  <2>1. SUFFICES ASSUME NEW i \in 1 .. n PROVE Choice(i)' = Choice(i)
    OBVIOUS
  <2>2. /\ schedule'.steps[i] = sq[i]
        /\ \A j \in 1 .. i - 1 : schedule'.steps[j] = sq[j]
    BY <1>3, <1>4
  <2> QED
    BY <1>2, <1>7, <2>2 DEF Choice, FloorAllows
<1>9. Choice(n + 1)' = PlannableBases(call.protected)
  BY <1>2, <1>3, <1>4, <1>6, <1>7 DEF Choice, FloorAllows, PlannableBases
<1>10. ASSUME NEW i \in 1 .. n + 1
       PROVE  First(schedule.steps[i].victim, Choice(i))'
  <2>1. CASE i = n + 1
    BY <1>1, <1>2, <1>4, <1>9, <2>1 DEF First
  <2>2. CASE i # n + 1
    <3>1. i \in 1 .. n /\ First(sq[i].victim, Choice(i))
      BY <1>0, <1>2, <1>3, <2>2 DEF ScheduleOK
    <3> QED
      BY <1>2, <1>4, <1>8, <3>1 DEF First
  <2> QED
    BY <2>1, <2>2
<1>11. \A i \in 1 .. n : LayerOf(i)' = LayerOf(i) /\ ChargeOf(i)' = ChargeOf(i)
  BY <1>2, <1>4 DEF LayerOf, ChargeOf
<1>12. /\ LayerOf(n + 1)' = entries[s].key.layer
       /\ ChargeOf(n + 1)' = entries[s].base_charge
  BY <1>2, <1>4 DEF LayerOf, ChargeOf
<1>13. ASSUME NEW i \in 1 .. n
       PROVE  AfterStep(i, schedule.steps[i + 1].base_bytes,
                           schedule.steps[i + 1].base_entries,
                           schedule.steps[i + 1].freed)'
  <2>1. CASE i = n
    BY <1>4, <1>6, <1>11, <2>1 DEF AfterStep
  <2>2. CASE i # n
    <3>1. i \in 1 .. n - 1 /\ i + 1 \in 1 .. n
      BY <1>3, <2>2
    <3>2. AfterStep(i, sq[i + 1].base_bytes, sq[i + 1].base_entries, sq[i + 1].freed)
      BY <1>0, <1>2, <3>1 DEF ScheduleOK
    <3> QED
      BY <1>4, <1>11, <3>1, <3>2 DEF AfterStep
  <2> QED
    BY <2>1, <2>2
<1>14. /\ schedule'.steps[1].base_bytes = layer_base_bytes
       /\ schedule'.steps[1].base_entries = layer_base_entries
       /\ schedule'.steps[1].freed = residual_bytes
  <2>1. CASE n = 0
    BY <1>4, <1>6, <2>1
  <2>2. CASE n # 0
    <3>1. 1 \in 1 .. n
      BY <1>3, <2>2
    <3> QED
      BY <1>0, <1>2, <1>3, <1>4, <1>6, <2>2, <3>1 DEF ScheduleOK
  <2> QED
    BY <2>1, <2>2
<1>15. schedule'.freed = schedule'.steps[n + 1].freed + ChargeOf(n + 1)'
  BY <1>4, <1>5, <1>12
<1> HIDE DEF sq
<1>16. ScheduleOK'
  <2>1. (n + 1) - 1 = n
    BY <1>3
  <2> QED
    BY <1>2, <1>4, <1>10, <1>13, <1>14, <1>15, <2>1 DEF ScheduleOK
<1>17. plan'.victims = {schedule'.steps[i].victim : i \in 1 .. n + 1}
  <2>1. \A i \in 1 .. n + 1 : i \in 1 .. n \/ i = n + 1
    BY <1>3
  <2>2. \A i \in 1 .. n : i \in 1 .. n + 1
    BY <1>3
  <2>3. n + 1 \in 1 .. n + 1
    BY <1>3
  <2> QED
    BY <1>4, <1>5, <1>6, <2>1, <2>2, <2>3
<1>18. plan'.freed >= residual_bytes
  <2>1. plan.freed \in Int /\ residual_bytes \in Int /\ entries[s].base_charge \in Nat
    BY <1>3 DEF PlanType, Entry, TypeOK, ResidentType
  <2> QED
    BY <1>5, <1>6, <2>1
<1>19. AfterStep(PlannedSteps, plan.base_bytes, plan.base_entries, plan.freed)'
  BY <1>4, <1>5, <1>12 DEF AfterStep
<1>20. PlannedSteps' # 0
  BY <1>3, <1>4
<1>21. RequiredReclaim(call.charge)' = RequiredReclaim(call.charge)
  BY <1>2 DEF RequiredReclaim
<1> QED
  BY <1>2, <1>4, <1>6, <1>14, <1>16, <1>17, <1>18, <1>19, <1>20, <1>21 DEF PlanOK

\* entry_count counts occupied slots, and a full count means a full cache.
LEMMA CountWithinSlots ==
    ASSUME entries \in [Slots -> Entry], EntriesOK, Accounting
    PROVE  /\ entry_count <= MaxEntries
           /\ entry_count < MaxEntries => Occupied # Slots
<1> DEFINE f == BaseMarks(Layers)
           ones == [i \in Slots |-> 1]
<1>1. MaxEntries \in Nat /\ Slots = 1 .. MaxEntries
  BY CacheAssumption DEF Slots
<1>2. f \in [1 .. MaxEntries -> Int] /\ ones \in [1 .. MaxEntries -> Int]
  BY <1>1, ContributionType DEF BaseMarks
<1>3. \A i \in 1 .. MaxEntries : f[i] <= ones[i]
  BY <1>1 DEF BaseMarks
<1>4. Total(MaxEntries, ones) = MaxEntries
  <2>1. PartialSums(MaxEntries, ones, [i \in 0 .. MaxEntries |-> i])
    BY <1>1 DEF PartialSums
  <2> QED
    BY <1>1, <1>2, <2>1, TotalIsLast
<1>5. Total(MaxEntries, f) <= Total(MaxEntries, ones)
  BY <1>1, <1>2, <1>3, TotalMonotone
<1>6. entry_count = Total(MaxEntries, f)
  BY DEF Accounting, SlotTotal
<1>7. ASSUME Occupied = Slots PROVE entry_count = MaxEntries
  <2>1. f = ones
    BY <1>7 DEF BaseMarks, CountsIn, EntriesOK, Keys, Occupied
  <2> QED
    BY <1>4, <1>6, <2>1
<1> HIDE DEF f, ones
<1> QED
  BY <1>1, <1>4, <1>5, <1>6, <1>7

\* make_room evicts the base the plan took first, and the rest of the
\* schedule is a schedule of what is left.
LEMMA ScheduleShrinks ==
    ASSUME TypeOK, TypeOK', EntriesOK, Accounting, AdmissionOK, MarksOK, ScheduleOK,
           RoomOK, PlannedSteps > 0, MakeRoomEvict
    PROVE  ScheduleOK' /\ RoomOK'
<1> DEFINE sq == schedule.steps
<1>0. PICK n \in Nat : n = PlannedSteps
  BY DEF PlannedSteps, TypeOK, CallType
<1>1. PICK s \in Slots : /\ First(s, EvictableBases(call.protected))
                        /\ ReleaseBase(s)
  BY DEF MakeRoomEvict
<1>2. /\ call.phase = "make_room" /\ call' = call /\ n > 0
      /\ schedule' = [schedule EXCEPT !.steps = IF @ = <<>> THEN @ ELSE Tail(@)]
      /\ HasResidual = {}
  BY <1>0 DEF MakeRoomEvict
<1>3. /\ sq \in Seq(PlanStep) /\ n = Len(sq) /\ sq # <<>> /\ 1 \in 1 .. n
      /\ entries \in [Slots -> Entry] /\ entries[s] \in Entry
      /\ schedule \in [steps : Seq(PlanStep), freed : Int]
  <2>1. sq \in Seq(PlanStep) /\ schedule \in [steps : Seq(PlanStep), freed : Int]
    BY DEF TypeOK, CallType
  <2>2. n = Len(sq) /\ Len(sq) > 0
    BY <1>0, <1>2 DEF PlannedSteps
  <2>3. sq # <<>>
    BY <2>1, <2>2
  <2>4. entries \in [Slots -> Entry] /\ entries[s] \in Entry /\ 1 \in 1 .. n
    BY <1>2 DEF TypeOK, ResidentType
  <2> QED
    BY <2>1, <2>2, <2>3, <2>4
<1>4. /\ \A i \in 1 .. n : First(sq[i].victim, Choice(i))
      /\ \A i \in 1 .. n - 1 :
            AfterStep(i, sq[i + 1].base_bytes, sq[i + 1].base_entries, sq[i + 1].freed)
      /\ sq[1].base_bytes = layer_base_bytes
      /\ sq[1].base_entries = layer_base_entries
      /\ schedule.freed = sq[n].freed + ChargeOf(n)
  BY <1>0, <1>2 DEF ScheduleOK
<1>5. s = sq[1].victim
  <2>1. Choice(1) = EvictableBases(call.protected)
    BY <1>2, <1>4 DEF Choice, EvictableBases, FloorAllows, MarksOK
  <2>2. EvictableBases(call.protected) \in SUBSET Slots
    BY DEF EvictableBases, Occupied
  <2> QED
    BY <1>1, <1>3, <1>4, <2>1, <2>2, FirstUnique
<1>6. /\ PlannedSteps' = n - 1
      /\ \A i \in 1 .. n - 1 : schedule'.steps[i] = sq[i + 1]
      /\ schedule'.freed = schedule.freed
  BY <1>2, <1>3 DEF PlannedSteps
<1>7. /\ \A t \in Slots \ {s} : entries'[t] = entries[t]
      /\ Occupied' = Occupied \ {s}
  BY <1>1, <1>3 DEF ReleaseBase, Occupied, EmptyEntry
<1>8. ASSUME NEW i \in 1 .. n - 1
      PROVE  /\ sq[i + 1].victim \in Slots \ {s}
             /\ Choice(i)' = Choice(i + 1)
             /\ \A t \in Choice(i + 1) : t \in Slots \ {s}
             /\ First(sq[i + 1].victim, Choice(i + 1))
             /\ schedule'.steps[i] = sq[i + 1]
  <2>1. i + 1 \in 1 .. n /\ i \in 1 .. n /\ i + 1 - 1 = i
    BY <1>3
  <2>2. First(sq[i + 1].victim, Choice(i + 1))
    BY <1>4, <2>1
  <2>3. \A t \in Choice(i + 1) :
            /\ t \in Slots \ {s} /\ t \in Occupied
            /\ \A j \in 1 .. i : sq[j].victim # t
    BY <1>5, <2>1 DEF Choice, Occupied
  <2>4. \A t : /\ \A j \in 1 .. i - 1 : schedule'.steps[j].victim # t
               /\ t # s
               => \A j \in 1 .. i : sq[j].victim # t
    <3>1. SUFFICES ASSUME NEW t, NEW j \in 1 .. i, t # s,
                          \A h \in 1 .. i - 1 : schedule'.steps[h].victim # t
                   PROVE  sq[j].victim # t
      OBVIOUS
    <3>2. CASE j = 1
      BY <1>5, <3>1, <3>2
    <3>3. CASE j # 1
      <4>1. PICK h \in 1 .. i - 1 : h + 1 = j
        <5>1. j - 1 \in 1 .. i - 1 /\ (j - 1) + 1 = j
          BY <3>3, <2>1
        <5> QED
          BY <5>1
      <4>2. h \in 1 .. n - 1
        BY <2>1
      <4> QED
        BY <1>6, <3>1, <4>1, <4>2
    <3> QED
      BY <3>2, <3>3
  <2>5. \A h \in 1 .. i - 1 : h \in 1 .. n - 1 /\ h + 1 \in 1 .. i
    BY <2>1
  <2>6. \A t : (\A j \in 1 .. i : sq[j].victim # t)
               => \A h \in 1 .. i - 1 : schedule'.steps[h].victim # t
    BY <1>6, <2>5
  <2>7. schedule'.steps[i] = sq[i + 1]
    BY <1>6
  <2>8. Choice(i + 1) =
            {t \in Occupied \ {call.protected} :
                /\ \A j \in 1 .. i : sq[j].victim # t
                /\ FloorAllows(t, sq[i + 1].base_bytes, sq[i + 1].base_entries)}
    BY <2>1 DEF Choice
  <2>9. Choice(i)' = Choice(i + 1)
    <3>1. ASSUME NEW t PROVE t \in Choice(i)' <=> t \in Choice(i + 1)
      <4>1. t \in Choice(i)' <=>
                /\ t \in Occupied \ {s} /\ t # call.protected
                /\ \A j \in 1 .. i - 1 : schedule'.steps[j].victim # t
                /\ FloorAllows(t, schedule.steps[i].base_bytes,
                                  schedule.steps[i].base_entries)'
        BY <1>2, <1>7 DEF Choice
      <4>2. t \in Occupied \ {s} =>
              (FloorAllows(t, schedule.steps[i].base_bytes,
                              schedule.steps[i].base_entries)'
               <=> FloorAllows(t, sq[i + 1].base_bytes, sq[i + 1].base_entries))
        BY <1>7, <2>7 DEF FloorAllows, Occupied
      <4> QED
        BY <2>3, <2>4, <2>6, <2>8, <4>1, <4>2
    <3> QED
      BY <3>1
  <2> QED
    BY <2>2, <2>3, <2>7, <2>9 DEF First
<1>9. \A i \in 1 .. n - 1 : /\ LayerOf(i)' = LayerOf(i + 1)
                            /\ ChargeOf(i)' = ChargeOf(i + 1)
  BY <1>7, <1>8 DEF LayerOf, ChargeOf
<1>10. LayerOf(1) = entries[s].key.layer /\ ChargeOf(1) = entries[s].base_charge
  BY <1>5 DEF LayerOf, ChargeOf
<1>11. ASSUME NEW i \in 1 .. n - 1
       PROVE  First(schedule.steps[i].victim, Choice(i))'
  BY <1>7, <1>8 DEF First
<1>12. ASSUME NEW i \in 1 .. (n - 1) - 1
       PROVE  AfterStep(i, schedule.steps[i + 1].base_bytes,
                           schedule.steps[i + 1].base_entries,
                           schedule.steps[i + 1].freed)'
  <2>1. i \in 1 .. n - 1 /\ i + 1 \in 1 .. n - 1
    BY <1>3
  <2>2. AfterStep(i + 1, sq[(i + 1) + 1].base_bytes, sq[(i + 1) + 1].base_entries,
                  sq[(i + 1) + 1].freed)
    BY <1>4, <2>1
  <2>3. schedule'.steps[i] = sq[i + 1] /\ schedule'.steps[i + 1] = sq[(i + 1) + 1]
    BY <1>6, <2>1
  <2> QED
    BY <1>9, <2>1, <2>2, <2>3 DEF AfterStep
<1>13. ASSUME n > 1
       PROVE  /\ schedule'.steps[1].base_bytes = layer_base_bytes'
              /\ schedule'.steps[1].base_entries = layer_base_entries'
              /\ schedule'.steps[1].freed = sq[1].freed + entries[s].base_charge
              /\ schedule'.freed = schedule'.steps[n - 1].freed + ChargeOf(n - 1)'
  <2>1. 1 \in 1 .. n - 1 /\ n - 1 \in 1 .. n - 1 /\ (n - 1) + 1 = n
    BY <1>3, <1>13
  <2>2. AfterStep(1, sq[1 + 1].base_bytes, sq[1 + 1].base_entries, sq[1 + 1].freed)
    BY <1>4, <2>1
  <2>3. schedule'.steps[1] = sq[1 + 1] /\ schedule'.steps[n - 1] = sq[n]
    BY <1>6, <2>1
  <2>4. ChargeOf(n - 1)' = ChargeOf(n)
    BY <1>9, <2>1
  <2> QED
    BY <1>1, <1>4, <1>6, <1>10, <2>2, <2>3, <2>4 DEF AfterStep, ReleaseBase
<1>14. ScheduleOK'
  <2>1. n - 1 > 0 => n > 1
    OBVIOUS
  <2> HIDE DEF sq
  <2> QED
    BY <1>2, <1>6, <1>11, <1>12, <1>13, <2>1 DEF ScheduleOK
<1>15. RoomOK'
  <2>1. /\ base_bytes' = base_bytes - entries[s].base_charge
        /\ entry_count' = entry_count - 1
    BY <1>1 DEF ReleaseBase
  <2>2. /\ base_bytes \in Int /\ entries[s].base_charge \in Int
        /\ entry_count \in Int /\ schedule.freed \in Int
        /\ sq[1].freed \in Int /\ sq[n].freed \in Int
        /\ call.charge \in Int
    <3>1. sq[1] \in PlanStep /\ sq[n] \in PlanStep
      BY <1>3
    <3>2. call.charge \in Int
      BY <1>2 DEF AdmissionOK, AdmissionCalls
    <3>3. sq[1].freed \in Int /\ sq[n].freed \in Int
      BY <3>1 DEF PlanStep
    <3>4. schedule.freed \in Int
      BY <1>3
    <3>5. base_bytes \in Int /\ entry_count \in Int /\ entries[s].base_charge \in Int
      BY <1>3 DEF TypeOK, ResidentType, Entry
    <3> QED
      BY <3>2, <3>3, <3>4, <3>5
  <2>3. base_bytes - (schedule.freed - sq[1].freed) + call.charge <= Budget
    BY <1>0, <1>2 DEF RoomOK, Scheduled
  <2>4. (base_bytes - Scheduled + call.charge)' <= Budget
    <3>1. CASE n = 1
      <4>1. schedule.freed - sq[1].freed = entries[s].base_charge
        BY <1>4, <1>10, <2>2, <3>1
      <4>2. Scheduled' = 0
        BY <1>6, <3>1 DEF Scheduled
      <4> QED
        BY <1>2, <2>1, <2>2, <2>3, <4>1, <4>2
    <3>2. CASE n > 1
      <4>1. Scheduled' = schedule.freed - (sq[1].freed + entries[s].base_charge)
        BY <1>6, <1>13, <3>2 DEF Scheduled
      <4>2. (base_bytes - Scheduled + call.charge)' =
                base_bytes' - Scheduled' + call.charge
        BY <1>2
      <4> HIDE DEF sq
      <4> QED
        BY <2>1, <2>2, <2>3, <4>1, <4>2
    <3> QED
      BY <1>2, <3>1, <3>2
  <2>5. entry_count' < MaxEntries
    <3>1. entry_count <= MaxEntries
      BY <1>3, CountWithinSlots
    <3> QED
      BY <2>1, <2>2, <3>1, CacheAssumption
  <2> QED
    BY <2>4, <2>5 DEF RoomOK
<1> QED
  BY <1>14, <1>15

\* As long as room is missing there is something make_room may release.
LEMMA RoomIsThere ==
    ASSUME TypeOK, EntriesOK, Accounting, AdmissionOK, MarksOK, ScheduleOK, RoomOK,
           call.phase = "make_room", Short, HasResidual = {}
    PROVE  PlannedSteps > 0 /\ EvictableBases(call.protected) # {}
<1>1. residual_bytes = 0
  <2>1. MaxEntries \in Nat /\ Slots = 1 .. MaxEntries
    BY CacheAssumption DEF Slots
  <2>2. ResidualCharges(Layers) \in [1 .. MaxEntries -> Int]
    BY <2>1, ContributionType DEF TypeOK, ResidentType
  <2>3. \A s \in 1 .. MaxEntries : ResidualCharges(Layers)[s] = 0
    BY <2>1 DEF ResidualCharges, CountsIn, HasResidual, EntriesOK
  <2> QED
    BY <2>1, <2>2, <2>3, TotalZero DEF Accounting, SlotTotal
<1>2. /\ payload_bytes \in Int /\ base_bytes \in Int /\ residual_bytes \in Int
      /\ call.charge \in Int /\ Budget \in Int /\ PlannedSteps \in Nat
      /\ entry_count \in Int
  BY CacheAssumption DEF TypeOK, ResidentType, CallType, AdmissionOK,
                         AdmissionCalls, PlannedSteps
<1>3. payload_bytes = base_bytes
  BY <1>1, <1>2 DEF Accounting
<1>4. PlannedSteps > 0
  <2>1. SUFFICES ASSUME PlannedSteps = 0 PROVE FALSE
    BY <1>2
  <2>2. Scheduled = 0
    BY <2>1 DEF Scheduled
  <2>3. base_bytes - 0 + call.charge <= Budget
    BY <2>2 DEF RoomOK
  <2>4. RequiredReclaim(call.charge) = 0
    BY <1>2, <1>3, <2>3 DEF RequiredReclaim
  <2>5. call.op = "insert" => entry_count < MaxEntries
    BY <2>1 DEF RoomOK
  <2> QED
    BY <1>2, <2>4, <2>5, CacheAssumption DEF Short, NeedsSlot
<1>5. First(schedule.steps[1].victim, Choice(1))
  BY <1>2, <1>4 DEF ScheduleOK
<1>6. Choice(1) \subseteq EvictableBases(call.protected)
  <2>1. /\ schedule.steps[1].base_bytes = layer_base_bytes
        /\ schedule.steps[1].base_entries = layer_base_entries
    BY <1>4 DEF ScheduleOK
  <2> QED
    BY <2>1 DEF Choice, EvictableBases, MarksOK
<1> QED
  BY <1>4, <1>5, <1>6 DEF First

\* What the plane of a finished make_room finds: room in the budget, and for
\* an insertion a free entry.
LEMMA RoomWasMade ==
    ASSUME TypeOK, EntriesOK, Accounting, AdmissionOK, MarksOK, ScheduleOK, RoomOK,
           RoomMade
    PROVE  /\ payload_bytes + call.charge <= Budget
           /\ call.op = "insert" => Occupied # Slots
<1>1. ~Short
  BY RoomIsThere DEF RoomMade
<1>2. /\ payload_bytes \in Int /\ call.charge \in Int /\ Budget \in Int
      /\ entry_count \in Int /\ entries \in [Slots -> Entry]
  BY CacheAssumption DEF TypeOK, ResidentType, RoomMade, AdmissionOK, AdmissionCalls
<1>3. payload_bytes + call.charge <= Budget
  BY <1>1, <1>2 DEF Short, RequiredReclaim
<1>4. call.op = "insert" => entry_count < MaxEntries
  BY <1>1, <1>2, CacheAssumption DEF Short, NeedsSlot
<1> QED
  BY <1>2, <1>3, <1>4, CountWithinSlots

\* Starting an admission: nothing is scheduled, and either the plan starts from
\* the totals of the cache or dropping the residual planes makes the room.
LEMMA AdmissionStarts ==
    ASSUME TypeOK, TypeOK', EntriesOK, Accounting, plan.victims = {},
           NEW op \in {"insert", "promote"}, NEW k \in Keys,
           NEW p \in Payloads, NEW n \in Sizes, NEW s \in Slots \cup {NoSlot},
           StartAdmission(Admission(op, k, p, Charge(n), s)),
           UNCHANGED residentVars
    PROVE  ScheduleOK' /\ PlanOK' /\ RoomOK'
<1> DEFINE adm == Admission(op, k, p, Charge(n), s)
           c == Charge(n)
<1>1. c \in Nat /\ c > 0 /\ adm.charge = c /\ adm.op = op
      /\ adm.needed = RequiredReclaim(c) /\ adm.phase = "plan"
      /\ [adm EXCEPT !.phase = "make_room"].op = op
      /\ [adm EXCEPT !.phase = "make_room"].charge = c
      /\ [adm EXCEPT !.phase = "make_room"].phase = "make_room"
  BY ChargeNat, CacheAssumption DEF Admission
<1>2. /\ payload_bytes \in Int /\ base_bytes \in Int /\ residual_bytes \in Nat
      /\ payload_bytes = base_bytes + residual_bytes
      /\ Budget \in Int /\ entry_count \in Int
  <2>1. residual_bytes >= 0
    BY SumsInt DEF Accounting, TypeOK, ResidentType
  <2> QED
    BY <2>1, CacheAssumption DEF TypeOK, ResidentType, Accounting
<1>3. /\ payload_bytes' = payload_bytes /\ base_bytes' = base_bytes
      /\ residual_bytes' = residual_bytes /\ entry_count' = entry_count
      /\ layer_base_bytes' = layer_base_bytes
      /\ layer_base_entries' = layer_base_entries
  BY DEF residentVars, layerVars, byteVars
<1> HIDE DEF adm, c
<1>4. CASE c > Budget
  BY <1>1, <1>4 DEF StartAdmission, Return, Idle, ScheduleOK, PlanOK, RoomOK, adm
<1>5. CASE ~(c > Budget)
  <2>1. schedule' = NoSchedule /\ PlannedSteps' = 0
    BY <1>1, <1>5 DEF StartAdmission, NoSchedule, PlannedSteps, adm, c
  <2>2. ScheduleOK'
    BY <2>1 DEF ScheduleOK
  <2>3. CASE \/ op = "insert" /\ entry_count >= MaxEntries
             \/ residual_bytes < RequiredReclaim(c)
    <3>1. call' = adm /\ plan' = FreshPlan
      BY <1>1, <1>5, <2>3 DEF StartAdmission, adm
    <3>2. RequiredReclaim(call.charge)' = RequiredReclaim(c)
      BY <1>1, <1>3, <3>1 DEF RequiredReclaim
    <3>3. plan'.victims = {schedule'.steps[i].victim : i \in 1 .. PlannedSteps'}
      BY <2>1, <3>1 DEF FreshPlan
    <3> QED
      BY <1>1, <1>2, <1>3, <2>1, <2>2, <3>1, <3>2, <3>3 DEF PlanOK, RoomOK, FreshPlan
  <2>4. CASE /\ ~(op = "insert" /\ entry_count >= MaxEntries)
             /\ ~(residual_bytes < RequiredReclaim(c))
    <3>1. call' = [adm EXCEPT !.phase = "make_room"]
      BY <1>1, <1>5, <2>4 DEF StartAdmission, adm
    <3>2. /\ call'.phase = "make_room" /\ call'.charge = c /\ call'.op = op
      BY <1>1, <3>1
    <3>3. base_bytes + c <= Budget
      BY <1>1, <1>2, <1>5, <2>4 DEF RequiredReclaim
    <3>4. Scheduled' = 0
      BY <2>1 DEF Scheduled
    <3>5. base_bytes' - Scheduled' + call'.charge <= Budget
      BY <1>1, <1>2, <1>3, <3>2, <3>3, <3>4
    <3>6. op = "insert" => entry_count < MaxEntries
      BY <1>2, <2>4, CacheAssumption
    <3> QED
      BY <1>3, <2>2, <3>2, <3>5, <3>6 DEF PlanOK, RoomOK
  <2> QED
    BY <2>3, <2>4
<1> QED
  BY <1>4, <1>5

-----------------------------------------------------------------------------
\* The inductive invariant: the books, the schedule, and the budget.
PromiseInv == BooksInv /\ ScheduleOK /\ PlanOK /\ RoomOK /\ WithinBudget

\* A new cache has an empty schedule, an empty plan and no promise outstanding.
LEMMA PromiseInit == Init => PromiseInv
<1> SUFFICES ASSUME Init PROVE PromiseInv
  OBVIOUS
<1>1. BooksInv
  BY BooksInit
<1>2. call.phase = "idle"
  BY DEF Init, Idle
<1>3. ScheduleOK /\ PlanOK /\ RoomOK
  BY <1>2 DEF ScheduleOK, PlanOK, RoomOK
<1>4. WithinBudget
  BY CacheAssumption DEF Init, WithinBudget
<1> QED
  BY <1>1, <1>3, <1>4 DEF PromiseInv

\* Releasing planes only shrinks the payload, and placing one that fits keeps
\* the payload and its recorded peak within the budget.
LEMMA BudgetStep == PromiseInv /\ BooksInv' /\ [Next]_vars => WithinBudget'
<1> SUFFICES ASSUME PromiseInv, [Next]_vars PROVE WithinBudget'
  OBVIOUS
<1>1. /\ TypeOK /\ EntriesOK /\ Accounting /\ AdmissionOK /\ MarksOK /\ ScheduleOK
      /\ RoomOK /\ WithinBudget
  BY DEF PromiseInv, BooksInv
<1>2. /\ payload_bytes \in Int /\ peak_payload_bytes \in Int /\ Budget \in Int
      /\ payload_bytes <= peak_payload_bytes /\ peak_payload_bytes <= Budget
  BY <1>1, CacheAssumption DEF TypeOK, ResidentType, WithinBudget
<1>3. \A s \in Slots : /\ entries[s].base_charge \in Nat
                       /\ entries[s].residual_charge \in Nat
  BY <1>1 DEF TypeOK, ResidentType, Entry
<1>4. ASSUME NEW s \in Slots, ReleaseResidual(s) \/ ReleaseBase(s)
      PROVE  WithinBudget'
  BY <1>2, <1>3, <1>4 DEF ReleaseResidual, ReleaseBase, WithinBudget
<1>5. ASSUME UNCHANGED <<payload_bytes, peak_payload_bytes>> PROVE WithinBudget'
  BY <1>1, <1>5 DEF WithinBudget
<1>6. ASSUME RoomMade, payload_bytes' = payload_bytes + call.charge,
             peak_payload_bytes' = Peak(payload_bytes + call.charge)
      PROVE  WithinBudget'
  <2>1. payload_bytes + call.charge <= Budget
    BY <1>1, <1>6, RoomWasMade
  <2>2. call.charge \in Int
    BY <1>1, <1>6 DEF RoomMade, AdmissionOK, AdmissionCalls
  <2> QED
    BY <1>2, <1>6, <2>1, <2>2 DEF Peak, WithinBudget
<1>7. CASE CommitInsert
  BY <1>5, <1>6, <1>7 DEF CommitInsert, Place, residentVars, byteVars
<1>8. CASE CommitPromote
  BY <1>6, <1>8 DEF CommitPromote
<1>9. CASE \/ MakeRoomDemote \/ MakeRoomEvict \/ PressureDemote \/ PressureEvict
           \/ DestroyRelease \/ \E k \in Keys : Remove(k)
  BY <1>4, <1>9 DEF MakeRoomDemote, MakeRoomEvict, PressureDemote, PressureEvict,
                    DestroyRelease, Remove, Holding, Occupied
<1> QED
  BY <1>5, <1>7, <1>8, <1>9
     DEF Next, vars, residentVars, byteVars, Get, InsertBase, Promote, PlanVictim,
         PlanFails, PlanSucceeds, ApplyPressure, PressureReturns, Destroy,
         DestroyReturns

\* Each step that takes entries out of the schedule keeps the rest of it resident.
LEMMA ScheduleStep ==
    PromiseInv /\ BooksInv' /\ [Next]_vars => ScheduleOK' /\ PlanOK' /\ RoomOK'
<1> SUFFICES ASSUME PromiseInv, BooksInv', [Next]_vars
             PROVE  ScheduleOK' /\ PlanOK' /\ RoomOK'
  OBVIOUS
<1> DEFINE Goal == ScheduleOK' /\ PlanOK' /\ RoomOK'
<1>1. /\ TypeOK /\ EntriesOK /\ Accounting /\ AdmissionOK /\ MarksOK
      /\ TypeOK' /\ ScheduleOK /\ PlanOK /\ RoomOK
  BY DEF PromiseInv, BooksInv
<1>2. ASSUME call'.phase \notin {"plan", "make_room"} PROVE Goal
  BY <1>2 DEF ScheduleOK, PlanOK, RoomOK
<1>3. ASSUME NEW status, Return(status) PROVE Goal
  BY <1>2, <1>3 DEF Return, Idle
<1>4. ASSUME NEW k \in Keys, NEW p \in Payloads, NEW n \in Sizes, InsertBase(k, p, n)
      PROVE  Goal
  <2>1. CASE Return("EXISTS")
    BY <2>1, <1>3
  <2>2. CASE StartAdmission(Admission("insert", k, p, Charge(n), NoSlot))
    <3>1. NoSlot \in Slots \cup {NoSlot} /\ UNCHANGED residentVars /\ plan.victims = {}
      BY <1>1, <1>4 DEF InsertBase, MarksOK
    <3> QED
      BY <1>1, <2>2, <3>1, AdmissionStarts
  <2> QED
    BY <1>4, <2>1, <2>2 DEF InsertBase
<1>5. ASSUME NEW k \in Keys, NEW p \in Payloads, NEW n \in Sizes, Promote(k, p, n)
      PROVE  Goal
  <2>1. CASE \E status : Return(status)
    BY <2>1, <1>3
  <2>2. CASE \E s \in Slots : StartAdmission(Admission("promote", k, p, Charge(n), s))
    <3>1. PICK s \in Slots \cup {NoSlot} :
                StartAdmission(Admission("promote", k, p, Charge(n), s))
      BY <2>2
    <3>2. UNCHANGED residentVars /\ plan.victims = {}
      BY <1>1, <1>5 DEF Promote, MarksOK
    <3> QED
      BY <1>1, <3>1, <3>2, AdmissionStarts
  <2> QED
    BY <1>5, <2>1, <2>2 DEF Promote, Holding, Occupied
<1>6. CASE PlanVictim
  <2>1. ScheduleOK' /\ PlanOK'
    BY <1>1, <1>6, ScheduleGrows
  <2>2. RoomOK'
    BY <1>6 DEF PlanVictim, RoomOK
  <2> QED
    BY <2>1, <2>2
<1>7. CASE PlanSucceeds
  <2>1. /\ call.phase = "plan" /\ PlanCovers /\ schedule' = schedule
        /\ call \in AdmissionCalls /\ call.charge > 0 /\ call.charge <= Budget
        /\ call' = [call EXCEPT !.phase = "make_room"]
        /\ UNCHANGED residentVars
    BY <1>1, <1>7 DEF PlanSucceeds, AdmissionOK
  <2>2. /\ call'.phase = "make_room" /\ call'.op = call.op
        /\ call'.charge = call.charge /\ call'.protected = call.protected
    BY <2>1 DEF AdmissionCalls
  <2>3. /\ UNCHANGED <<schedule, layer_base_bytes, layer_base_entries>>
        /\ UNCHANGED <<base_bytes, entry_count>>
        /\ Occupied' = Occupied
        /\ \A t \in Occupied : SameRank(entries[t], entries'[t])
    BY <2>1 DEF residentVars, layerVars, byteVars, Occupied, SameRank
  <2>4. ScheduleOK'
    BY <1>1, <2>1, <2>2, <2>3, ScheduleStays
  <2>5. /\ plan.freed >= call.needed /\ plan.freed >= residual_bytes
        /\ call.op = "insert" => plan.victims # {}
        /\ plan.victims = {schedule.steps[i].victim : i \in 1 .. PlannedSteps}
        /\ call.needed = RequiredReclaim(call.charge)
        /\ PlannedSteps = 0 => plan.freed = residual_bytes
        /\ PlannedSteps # 0 =>
                /\ plan.freed = schedule.freed
                /\ schedule.steps[1].freed = residual_bytes
    BY <1>1, <2>1 DEF PlanOK, PlanCovers, NeedsSlot, ScheduleOK, AfterStep,
                      PlannedSteps, TypeOK, CallType
  <2>6. /\ payload_bytes \in Int /\ base_bytes \in Int /\ residual_bytes \in Nat
        /\ payload_bytes = base_bytes + residual_bytes /\ Budget \in Int
        /\ call.charge \in Int /\ plan.freed \in Int /\ PlannedSteps \in Nat
    <3>1. residual_bytes \in Nat
      BY <1>1, SumsInt DEF Accounting, TypeOK, ResidentType
    <3>2. call.charge \in Int
      BY <2>1 DEF AdmissionCalls
    <3>3. PlannedSteps \in Nat
      BY <1>1 DEF PlannedSteps, TypeOK, CallType
    <3>4. plan.freed \in Int
      BY <1>1 DEF TypeOK, CallType
    <3> QED
      BY <1>1, <3>1, <3>2, <3>3, <3>4, CacheAssumption
         DEF TypeOK, ResidentType, Accounting
  <2>7. base_bytes - (plan.freed - residual_bytes) + call.charge <= Budget
    BY <2>5, <2>6 DEF RequiredReclaim
  <2>8. Scheduled = plan.freed - residual_bytes
    BY <2>5, <2>6 DEF Scheduled
  <2>9. Scheduled' = Scheduled /\ PlannedSteps' = PlannedSteps
    BY <2>1 DEF Scheduled, PlannedSteps
  <2>10. call.op = "insert" => PlannedSteps > 0
    BY <2>5, <2>6
  <2>11. RoomOK'
    BY <2>2, <2>3, <2>7, <2>8, <2>9, <2>10 DEF RoomOK
  <2> QED
    BY <2>2, <2>4, <2>11 DEF PlanOK
<1>8. CASE MakeRoomDemote
  <2>1. PICK s \in HasResidual : ReleaseResidual(s)
    BY <1>8 DEF MakeRoomDemote, First
  <2>2. /\ call.phase = "make_room" /\ call' = call /\ schedule' = schedule
        /\ UNCHANGED <<layer_base_bytes, layer_base_entries, base_bytes, entry_count>>
    BY <1>8, <2>1 DEF MakeRoomDemote, ReleaseResidual
  <2>3. /\ s \in Slots /\ \A t \in Slots : SameRank(entries[t], entries'[t])
        /\ \A t \in Slots : entries'[t].base = entries[t].base
    BY <1>1, <2>1 DEF ReleaseResidual, SameRank, HasResidual, Occupied, TypeOK,
                      ResidentType, Entry
  <2>4. Occupied' = Occupied /\ \A t \in Occupied : SameRank(entries[t], entries'[t])
    BY <2>3 DEF Occupied
  <2>5. ScheduleOK'
    BY <1>1, <2>2, <2>4, ScheduleStays
  <2> QED
    BY <1>1, <2>2, <2>5 DEF PlanOK, RoomOK, Scheduled, PlannedSteps
<1>9. CASE MakeRoomEvict
  <2>1. PlannedSteps > 0
    BY <1>1, <1>9, RoomIsThere DEF MakeRoomEvict
  <2>2. ScheduleOK' /\ RoomOK'
    BY <1>1, <1>9, <2>1, ScheduleShrinks
  <2>3. PlanOK'
    BY <1>9 DEF MakeRoomEvict, PlanOK
  <2> QED
    BY <2>2, <2>3
<1>10. ASSUME \/ \E k \in Keys : Get(k) \/ Remove(k)
              \/ PlanFails \/ CommitInsert \/ CommitPromote \/ PressureReturns
       PROVE  Goal
  BY <1>10, <1>3 DEF Get, Remove, PlanFails, CommitInsert, CommitPromote,
                     PressureReturns
<1>11. ASSUME \/ \E level \in {"WARN", "CRITICAL"}, target \in Targets :
                    ApplyPressure(level, target)
              \/ Destroy \/ DestroyReturns
              \/ PressureDemote \/ PressureEvict \/ DestroyRelease
       PROVE  Goal
  BY <1>11, <1>2 DEF ApplyPressure, Destroy, DestroyReturns, PressureDemote,
                     PressureEvict, DestroyRelease
<1>12. CASE UNCHANGED vars
  <2>1. /\ UNCHANGED <<schedule, call, plan, entry_count, base_bytes, residual_bytes>>
        /\ UNCHANGED <<payload_bytes, layer_base_bytes, layer_base_entries, entries>>
    BY <1>12 DEF vars, layerVars, byteVars
  <2>2. ScheduleOK'
    <3>1. CASE call.phase \in {"plan", "make_room"}
      BY <1>1, <2>1, <3>1, ScheduleStays DEF Occupied, SameRank
    <3>2. CASE call.phase \notin {"plan", "make_room"}
      BY <2>1, <3>2 DEF ScheduleOK
    <3> QED
      BY <3>1, <3>2
  <2> QED
    BY <1>1, <2>1, <2>2 DEF PlanOK, RoomOK, Scheduled, PlannedSteps, AfterStep,
                            LayerOf, ChargeOf, RequiredReclaim
<1> QED
  BY <1>4, <1>5, <1>6, <1>7, <1>8, <1>9, <1>10, <1>11, <1>12 DEF Next

\* Every step of the cache preserves the plan, the schedule and the room promise.
LEMMA PromiseNext == PromiseInv /\ [Next]_vars => PromiseInv'
  BY BooksNext, BudgetStep, ScheduleStep DEF PromiseInv

\* The payload and its recorded peak never outgrow the budget, whatever the
\* sizes, floors, alignment and policy: make_room's break without room is
\* never followed by an admission.
THEOREM BudgetKept == Spec => []WithinBudget
<1>1. PromiseInv => WithinBudget
  BY DEF PromiseInv
<1> QED
  BY <1>1, PromiseInit, PromiseNext, PTL DEF Spec

\* No admission returns "CORRUPT": a free slot is found whenever one is needed.
NeverCorrupt == call.phase = "idle" => call.status # "CORRUPT"

\* No step of a call ends in the CORRUPT answer.
LEMMA NeverCorruptStep == PromiseInv /\ NeverCorrupt /\ [Next]_vars => NeverCorrupt'
<1> SUFFICES ASSUME PromiseInv, NeverCorrupt, [Next]_vars PROVE NeverCorrupt'
  OBVIOUS
<1>1. ASSUME NEW status \in Statuses \ {"CORRUPT"}, Return(status) PROVE NeverCorrupt'
  BY <1>1 DEF Return, Idle, NeverCorrupt
<1>2. ASSUME call'.phase # "idle" PROVE NeverCorrupt'
  BY <1>2 DEF NeverCorrupt
<1>3. ASSUME UNCHANGED call PROVE NeverCorrupt'
  BY <1>3 DEF NeverCorrupt
<1>4. ASSUME NEW op \in {"insert", "promote"}, NEW k, NEW p, NEW c, NEW s,
             StartAdmission(Admission(op, k, p, c, s))
      PROVE  NeverCorrupt'
  <2>1. /\ Admission(op, k, p, c, s).phase = "plan"
        /\ [Admission(op, k, p, c, s) EXCEPT !.phase = "make_room"].phase = "make_room"
    BY DEF Admission
  <2>2. \/ Return("NO_SPACE") \/ call' = Admission(op, k, p, c, s)
        \/ call' = [Admission(op, k, p, c, s) EXCEPT !.phase = "make_room"]
    BY <1>4 DEF StartAdmission
  <2> QED
    BY <1>1, <1>2, <2>1, <2>2 DEF Statuses
<1>5. ASSUME NEW k \in Keys, NEW p \in Payloads, NEW n \in Sizes,
             InsertBase(k, p, n) \/ Promote(k, p, n)
      PROVE  NeverCorrupt'
  BY <1>1, <1>4, <1>5 DEF InsertBase, Promote, Statuses
<1>6. CASE CommitInsert
  <2>1. Occupied # Slots
    BY <1>6, RoomWasMade DEF CommitInsert, PromiseInv, BooksInv
  <2> QED
    BY <1>1, <1>6, <2>1 DEF CommitInsert, Statuses
<1>7. CASE PlanSucceeds
  <2>1. call \in AdmissionCalls
    BY <1>7 DEF PlanSucceeds, PromiseInv, BooksInv, AdmissionOK
  <2>2. call'.phase = "make_room"
    BY <1>7, <2>1 DEF PlanSucceeds, AdmissionCalls
  <2> QED
    BY <1>2, <2>2
<1>8. ASSUME \/ \E k \in Keys : Get(k) \/ Remove(k)
             \/ PlanFails \/ CommitPromote \/ PressureReturns
      PROVE  NeverCorrupt'
  BY <1>1, <1>8 DEF Get, Remove, PlanFails, CommitPromote, PressureReturns, Statuses
<1>9. ASSUME \/ \E level \in {"WARN", "CRITICAL"}, target \in Targets :
                    ApplyPressure(level, target)
             \/ Destroy \/ DestroyReturns
      PROVE  NeverCorrupt'
  BY <1>2, <1>9 DEF ApplyPressure, Destroy, DestroyReturns
<1>10. CASE \/ PlanVictim \/ MakeRoomDemote \/ MakeRoomEvict \/ PressureDemote
            \/ PressureEvict \/ DestroyRelease \/ UNCHANGED vars
  BY <1>3, <1>10 DEF PlanVictim, MakeRoomDemote, MakeRoomEvict, PressureDemote,
                     PressureEvict, DestroyRelease, vars
<1> QED
  BY <1>5, <1>6, <1>7, <1>8, <1>9, <1>10 DEF Next

\* What can_make_room promised, make_room delivers: it never runs dry while
\* room is missing, and an insertion never ends in the "CORRUPT" branch that
\* the code keeps for a cache without a free slot.
THEOREM RoomPromise == Spec => []RoomPromiseKept
<1>1. Init => NeverCorrupt
  BY DEF Init, Idle, NeverCorrupt
<1>2. PromiseInv /\ NeverCorrupt => RoomPromiseKept
  BY RoomIsThere DEF PromiseInv, BooksInv, NeverCorrupt, RoomPromiseKept
<1> QED
  BY <1>1, <1>2, PromiseInit, PromiseNext, NeverCorruptStep, PTL DEF Spec

-----------------------------------------------------------------------------
(* Handles and keys.                                                       *)

\* The handles of slot s.
Held(s) == {entries[s].base, entries[s].residual} \ {NoPayload}

\* No two planes have the same handle.
PlanesApart ==
    /\ \A s, t \in Slots : entries[s].base = entries[t].base => s = t \/ entries[s].base = NoPayload
    /\ \A s, t \in Slots :
           entries[s].residual = entries[t].residual => s = t \/ entries[s].residual = NoPayload
    /\ \A s, t \in Slots : entries[s].base = entries[t].residual => entries[s].base = NoPayload

KeysApart == \A s, t \in Occupied : entries[s].key = entries[t].key => s = t

OwnedInv == lent = UNION {Held(s) : s \in Slots} /\ PlanesApart /\ KeysApart

\* The property in terms of slots instead of planes.
LEMMA OwnedSays == OwnedInv => HandlesOwnedOnce
<1> SUFFICES ASSUME OwnedInv PROVE HandlesOwnedOnce
  OBVIOUS
<1> DEFINE planes == Slots \X {"base", "residual"}
           held(x) == IF x[2] = "base" THEN entries[x[1]].base ELSE entries[x[1]].residual
<1>1. \A s \in Slots : /\ <<s, "base">> \in planes /\ held(<<s, "base">>) = entries[s].base
                       /\ <<s, "residual">> \in planes /\ held(<<s, "residual">>) = entries[s].residual
  OBVIOUS
<1>2. \A x \in planes : \E s \in Slots :
          \/ x = <<s, "base">> /\ held(x) = entries[s].base
          \/ x = <<s, "residual">> /\ held(x) = entries[s].residual
  OBVIOUS
<1> HIDE DEF planes, held
<1>3. lent = {held(x) : x \in planes} \ {NoPayload}
  <2>1. \A p : p \in lent <=> \E s \in Slots : p \in {entries[s].base, entries[s].residual} \ {NoPayload}
    BY DEF OwnedInv, Held
  <2>2. ASSUME NEW p \in lent PROVE p \in {held(x) : x \in planes} \ {NoPayload}
    <3>1. PICK s \in Slots : p \in {entries[s].base, entries[s].residual} /\ p # NoPayload
      BY <2>1
    <3>2. PICK x \in planes : p = held(x)
      <4>1. CASE p = entries[s].base
        BY <1>1, <4>1
      <4>2. CASE p = entries[s].residual
        BY <1>1, <4>2
      <4> QED
        BY <3>1, <4>1, <4>2
    <3> QED
      BY <3>1, <3>2
  <2>3. ASSUME NEW x \in planes, held(x) # NoPayload PROVE held(x) \in lent
    BY <1>2, <2>1, <2>3
  <2> QED
    BY <2>2, <2>3
<1>4. ASSUME NEW x \in planes, NEW y \in planes, held(x) = held(y)
      PROVE  x = y \/ held(x) = NoPayload
  <2>1. PICK s \in Slots : \/ x = <<s, "base">> /\ held(x) = entries[s].base
                           \/ x = <<s, "residual">> /\ held(x) = entries[s].residual
    BY <1>2
  <2>2. PICK t \in Slots : \/ y = <<t, "base">> /\ held(y) = entries[t].base
                           \/ y = <<t, "residual">> /\ held(y) = entries[t].residual
    BY <1>2
  <2> QED
    BY <1>4, <2>1, <2>2 DEF OwnedInv, PlanesApart
<1> QED
  BY <1>3, <1>4 DEF HandlesOwnedOnce, OwnedInv, KeysApart, planes, held

\* A step that changes one slot, whose handles are new or were its own.
LEMMA OneSlotOwned ==
    ASSUME EntriesOK, OwnedInv, NEW s \in Slots,
           \A t \in Slots \ {s} : SamePlanes(entries[t], entries'[t]),
           lent' = (lent \ Held(s)) \cup Held(s)',
           entries'[s].base = entries[s].base \/ entries'[s].base \notin lent,
           entries'[s].residual = entries[s].residual \/ entries'[s].residual \notin lent,
           entries'[s].base = entries'[s].residual => entries'[s].base = NoPayload,
           s \in Occupied' => \A t \in Occupied \ {s} : entries[t].key # entries'[s].key
    PROVE  OwnedInv'
<1>1. \A t \in Slots \ {s} : /\ entries'[t].base = entries[t].base /\ entries'[t].key = entries[t].key
                             /\ entries'[t].residual = entries[t].residual
  BY DEF SamePlanes
<1>2. \A t \in Slots : (entries[t].base = NoPayload \/ entries[t].base \in lent)
                       /\ (entries[t].residual = NoPayload \/ entries[t].residual \in lent)
  BY DEF OwnedInv, Held
<1>3. PlanesApart'
  BY <1>1, <1>2 DEF OwnedInv, PlanesApart
<1>4. KeysApart'
  BY <1>1 DEF OwnedInv, KeysApart, Occupied
<1>5. lent' = (UNION {Held(t) : t \in Slots})'
  <2>1. \A t \in Slots \ {s} : Held(t)' = Held(t)
    BY <1>1 DEF Held
  <2>2. \A t \in Slots \ {s} : Held(t) \cap Held(s) = {}
    BY DEF OwnedInv, PlanesApart, Held
  <2>3. lent \ Held(s) = UNION {Held(t) : t \in Slots \ {s}}
    BY <2>2 DEF OwnedInv
  <2>4. (UNION {Held(t) : t \in Slots})' = UNION {Held(t)' : t \in Slots}
    BY DEF Held
  <2>5. UNION {Held(t)' : t \in Slots} = (UNION {Held(t) : t \in Slots \ {s}}) \cup Held(s)'
    BY <2>1
  <2> QED
    BY <2>3, <2>4, <2>5
<1> QED
  BY <1>3, <1>4, <1>5 DEF OwnedInv

\* Every step hands over, keeps or gives back whole planes.
LEMMA OwnedStep == BooksInv /\ OwnedInv /\ [Next]_vars => OwnedInv'
<1> SUFFICES ASSUME BooksInv, OwnedInv, [Next]_vars PROVE OwnedInv'
  OBVIOUS
<1>1. TypeOK /\ EntriesOK /\ AdmissionOK /\ entries \in [Slots -> Entry]
      /\ \A s \in Slots : entries[s] \in Entry
  BY DEF BooksInv, TypeOK, ResidentType
<1>2. ASSUME lent' = lent, \A t \in Slots : SamePlanes(entries[t], entries'[t]) PROVE OwnedInv'
  <2>1. \A t \in Slots : /\ entries'[t].base = entries[t].base /\ entries'[t].key = entries[t].key
                         /\ entries'[t].residual = entries[t].residual
    BY <1>2 DEF SamePlanes
  <2>2. Occupied' = Occupied /\ \A t \in Slots : Held(t)' = Held(t)
    BY <2>1 DEF Occupied, Held
  <2>3. (UNION {Held(t) : t \in Slots})' = UNION {Held(t)' : t \in Slots}
    BY DEF Held
  <2>4. UNION {Held(t)' : t \in Slots} = UNION {Held(t) : t \in Slots}
    BY <2>2
  <2>5. PlanesApart'
    BY <2>1 DEF OwnedInv, PlanesApart
  <2>6. KeysApart'
    BY <2>1, <2>2 DEF OwnedInv, KeysApart, Occupied
  <2> QED
    BY <1>2, <2>3, <2>4, <2>5, <2>6 DEF OwnedInv
<1>3. ASSUME UNCHANGED <<entries, lent>> PROVE OwnedInv'
  BY <1>2, <1>3 DEF SamePlanes
<1>4. NoPayload \notin lent /\ NoPayload \notin Payloads
  BY CacheAssumption DEF OwnedInv, Held
<1>5. ASSUME NEW s \in Slots, s \in HasResidual, ReleaseResidual(s) PROVE OwnedInv'
  <2>1. /\ \A t \in Slots \ {s} : entries'[t] = entries[t]
        /\ entries'[s].base = entries[s].base /\ entries'[s].key = entries[s].key
        /\ entries'[s].residual = NoPayload
    BY <1>1, <1>5 DEF ReleaseResidual, Entry
  <2>2. entries[s].base # NoPayload /\ entries[s].base # entries[s].residual
    BY <1>5 DEF OwnedInv, PlanesApart, HasResidual, Occupied
  <2>3. lent' = (lent \ Held(s)) \cup Held(s)'
    <3>1. Held(s)' = {entries[s].base}
      BY <2>1, <2>2 DEF Held
    <3>2. entries[s].base \in lent /\ lent' = lent \ {entries[s].residual}
      BY <1>5, <2>2 DEF OwnedInv, Held, ReleaseResidual
    <3> QED
      BY <1>4, <2>2, <3>1, <3>2 DEF Held
  <2>4. \A t \in Slots \ {s} : SamePlanes(entries[t], entries'[t])
    BY <2>1 DEF SamePlanes
  <2>5. s \in Occupied /\ \A t \in Occupied \ {s} : entries[t].key # entries'[s].key
    BY <1>5, <2>1 DEF OwnedInv, KeysApart, HasResidual
  <2> QED
    BY <1>1, <1>4, <2>1, <2>2, <2>3, <2>4, <2>5, OneSlotOwned
<1>6. ASSUME NEW s \in Slots, ReleaseBase(s) PROVE OwnedInv'
  <2>1. /\ \A t \in Slots \ {s} : entries'[t] = entries[t]
        /\ entries'[s].base = NoPayload /\ entries'[s].residual = NoPayload
    BY <1>1, <1>6 DEF ReleaseBase, EmptyEntry
  <2>2. lent' = (lent \ Held(s)) \cup Held(s)'
    <3>1. Held(s)' = {}
      BY <2>1 DEF Held
    <3>2. lent' = lent \ {entries[s].base, entries[s].residual}
      BY <1>6 DEF ReleaseBase
    <3> QED
      BY <1>4, <3>1, <3>2 DEF Held
  <2>3. \A t \in Slots \ {s} : SamePlanes(entries[t], entries'[t])
    BY <2>1 DEF SamePlanes
  <2>4. s \notin Occupied'
    BY <2>1 DEF Occupied
  <2> QED
    BY <1>1, <1>4, <2>1, <2>2, <2>3, <2>4, OneSlotOwned
<1>7. /\ Rescaled \in [Slots -> Entry]
      /\ \A s \in Slots : SamePlanes(entries[s], Rescaled[s])
  BY <1>1, RescaledType, RescaledPlanes
<1>8. ASSUME NEW k \in Keys, Get(k) PROVE OwnedInv'
  <2>1. PICK s \in Slots :
            entries' = [Rescaled EXCEPT ![s].last_access = NextClock,
                                        ![s].hot = @ \/ Policy = "2Q"]
    BY <1>8 DEF Get, Holding, Occupied
  <2>2. \A t \in Slots : SamePlanes(entries[t], entries'[t])
    BY <1>7, <2>1 DEF SamePlanes, Entry
  <2> QED
    BY <1>2, <1>8, <2>2 DEF Get
\* The handle that an admission brings is held by nobody.
<1>9. ASSUME call.phase \in {"plan", "make_room"}
      PROVE  /\ call.payload \in Payloads /\ call.payload # NoPayload /\ call.payload \notin lent
  <2>1. call.payload \in Payloads /\ ~PayloadInUse(call.payload)
    BY <1>1, <1>9 DEF AdmissionOK, AdmissionCalls
  <2>2. \A t \in Slots \ Occupied : entries[t].base = NoPayload /\ entries[t].residual = NoPayload
    BY <1>1 DEF EntriesOK, Occupied, EmptyEntry
  <2> QED
    BY <1>4, <2>1, <2>2 DEF OwnedInv, Held, PayloadInUse, Occupied
<1>10. CASE CommitInsert
  <2>1. CASE UNCHANGED <<entries, lent>>
    BY <2>1, <1>3
  <2>2. CASE \E s \in Slots \ Occupied : Place(s)
    <3>1. PICK s \in Slots \ Occupied : Place(s)
      BY <2>2
    <3>2. /\ \A t \in Slots \ {s} : entries'[t] = Rescaled[t]
          /\ entries'[s].key = call.key /\ entries'[s].base = call.payload
          /\ entries'[s].residual = NoPayload /\ lent' = lent \cup {call.payload}
      BY <1>7, <3>1 DEF Place, EmptyEntry
    <3>3. call.payload # NoPayload /\ call.payload \notin lent /\ Holding(call.key) = {}
      BY <1>1, <1>9, <1>10 DEF CommitInsert, RoomMade, AdmissionOK
    <3>4. entries[s].base = NoPayload /\ entries[s].residual = NoPayload
      BY <1>1, <3>1 DEF EntriesOK, Occupied, EmptyEntry
    <3>5. lent' = (lent \ Held(s)) \cup Held(s)'
      BY <3>2, <3>3, <3>4 DEF Held
    <3>6. \A t \in Slots \ {s} : SamePlanes(entries[t], entries'[t])
      BY <1>7, <3>2
    <3>7. \A t \in Occupied \ {s} : entries[t].key # entries'[s].key
      BY <3>2, <3>3 DEF Holding
    <3> QED
      BY <1>1, <3>2, <3>3, <3>4, <3>5, <3>6, <3>7, OneSlotOwned
  <2> QED
    BY <1>10, <2>1, <2>2 DEF CommitInsert, residentVars
<1>11. CASE CommitPromote
  <2> PICK s \in Slots : s = call.protected
    BY <1>1, <1>11 DEF CommitPromote, RoomMade, AdmissionOK, Occupied
  <2>1. /\ s \in Occupied \ HasResidual
        /\ call.payload # NoPayload /\ call.payload \notin lent
    BY <1>1, <1>9, <1>11 DEF CommitPromote, RoomMade, AdmissionOK, Occupied
  <2>2. /\ \A t \in Slots \ {s} : entries'[t] = entries[t]
        /\ entries'[s].base = entries[s].base /\ entries'[s].key = entries[s].key
        /\ entries'[s].residual = call.payload /\ lent' = lent \cup {call.payload}
    BY <1>1, <1>11, <2>1 DEF CommitPromote, Entry
  <2>3. entries[s].base \in lent /\ entries[s].base # NoPayload /\ entries[s].residual = NoPayload
    BY <2>1 DEF OwnedInv, Held, Occupied, HasResidual
  <2>4. lent' = (lent \ Held(s)) \cup Held(s)'
    BY <2>1, <2>2, <2>3 DEF Held
  <2>5. \A t \in Slots \ {s} : SamePlanes(entries[t], entries'[t])
    BY <2>2 DEF SamePlanes
  <2>6. \A t \in Occupied \ {s} : entries[t].key # entries'[s].key
    BY <2>1, <2>2 DEF OwnedInv, KeysApart
  <2> QED
    BY <1>1, <2>1, <2>2, <2>3, <2>4, <2>5, <2>6, OneSlotOwned
<1>12. ASSUME NEW k \in Keys, Remove(k) PROVE OwnedInv'
  BY <1>6, <1>12 DEF Remove, Holding, Occupied
<1>13. CASE MakeRoomDemote \/ PressureDemote
  BY <1>5, <1>13 DEF MakeRoomDemote, PressureDemote, First
<1>14. CASE MakeRoomEvict \/ PressureEvict \/ DestroyRelease
  BY <1>6, <1>14 DEF MakeRoomEvict, PressureEvict, DestroyRelease, Occupied
<1> QED
  BY <1>3, <1>8, <1>10, <1>11, <1>12, <1>13, <1>14
     DEF Next, vars, residentVars, InsertBase, Promote, PlanVictim, PlanFails,
         PlanSucceeds, ApplyPressure, PressureReturns, Destroy, DestroyReturns

\* A new cache owns nothing.
LEMMA OwnedInit == Init => OwnedInv
<1> SUFFICES ASSUME Init PROVE OwnedInv
  OBVIOUS
<1>1. lent = {} /\ \A s \in Slots : entries[s].base = NoPayload /\ entries[s].residual = NoPayload
  BY DEF Init, EmptyEntry
<1>2. Occupied = {} /\ \A s \in Slots : Held(s) = {}
  BY <1>1 DEF Occupied, Held
<1> QED
  BY <1>1, <1>2 DEF OwnedInv, PlanesApart, KeysApart

\* No handle is returned twice, leaked or shared, and no key has two entries, whatever the callers
\* admit, remove or squeeze out.
THEOREM HandlesOwned == Spec => []HandlesOwnedOnce
  BY OwnedInit, BooksInit, BooksNext, OwnedStep, OwnedSays, PTL DEF Spec

-----------------------------------------------------------------------------
(* What a step may not do: floors and recency.                             *)

\* A layer above its floors stays above them while the cache evicts on its own account.
THEOREM FloorsHold == Spec => FloorsKept
<1>1. ASSUME BooksInv, [Next]_vars, call.phase \in {"plan", "make_room", "pressure"},
             NEW l \in Layers, AboveFloor(l)
      PROVE  AboveFloor(l)'
  <2> DEFINE totals == layer_base_bytes
             counts == layer_base_entries
  <2>1. /\ totals \in [Layers -> Int] /\ counts \in [Layers -> Int]
        /\ entries \in [Slots -> Entry] /\ EntriesOK /\ AdmissionOK
        /\ totals[l] \in Int /\ counts[l] \in Int
        /\ MinBaseBytes[l] \in Nat /\ MinBaseEntries[l] \in Nat
    BY <1>1, CacheAssumption DEF BooksInv, TypeOK, ResidentType
  <2>2. AboveFloor(l) <=> counts[l] >= MinBaseEntries[l] /\ totals[l] >= MinBaseBytes[l]
    BY DEF AboveFloor
  <2>3. AboveFloor(l)' <=> counts'[l] >= MinBaseEntries[l] /\ totals'[l] >= MinBaseBytes[l]
    BY DEF AboveFloor
  <2> HIDE DEF totals, counts
  <2>4. ASSUME NEW protected, NEW s \in EvictableBases(protected), ReleaseBase(s) PROVE AboveFloor(l)'
    <3>1. PICK m \in Layers : m = entries[s].key.layer
      BY <2>1, <2>4 DEF EvictableBases, EntriesOK, Occupied, Keys
    <3>2. PICK c \in Nat : c = entries[s].base_charge
      BY <2>1, <2>4 DEF EvictableBases, Occupied, Entry
    <3>3. /\ totals' = [totals EXCEPT ![m] = @ - c] /\ counts' = [counts EXCEPT ![m] = @ - 1]
      BY <2>4, <3>1, <3>2 DEF ReleaseBase, totals, counts
    <3>4. counts[m] - 1 >= MinBaseEntries[m] /\ totals[m] - c >= MinBaseBytes[m]
      BY <2>4, <3>1, <3>2 DEF EvictableBases, FloorAllows, totals, counts
    <3> QED
      BY <1>1, <2>1, <2>2, <2>3, <3>3, <3>4
  <2>5. CASE UNCHANGED <<layer_base_bytes, layer_base_entries>>
    BY <1>1, <2>2, <2>3, <2>5 DEF totals, counts
  <2>6. ASSUME NEW s \in Slots, Place(s), call \in AdmissionCalls PROVE AboveFloor(l)'
    <3>1. PICK m \in Layers, c \in Nat : m = call.key.layer /\ c = call.charge
      BY <2>6 DEF AdmissionCalls, Keys
    <3>2. /\ totals' = [totals EXCEPT ![m] = @ + c] /\ counts' = [counts EXCEPT ![m] = @ + 1]
      BY <2>6, <3>1 DEF Place, totals, counts
    <3> QED
      BY <1>1, <2>1, <2>2, <2>3, <3>1, <3>2
  <2>7. CASE MakeRoomEvict \/ PressureEvict
    BY <2>4, <2>7 DEF MakeRoomEvict, PressureEvict, First
  <2>8. CASE CommitInsert
    BY <2>1, <2>5, <2>6, <2>8 DEF CommitInsert, RoomMade, AdmissionOK, residentVars, layerVars
  <2>9. CASE PlanVictim \/ PlanFails \/ PlanSucceeds \/ MakeRoomDemote \/ CommitPromote
             \/ PressureDemote \/ PressureReturns \/ UNCHANGED vars
    BY <2>5, <2>9 DEF PlanVictim, PlanFails, PlanSucceeds, MakeRoomDemote, CommitPromote,
       PressureDemote, PressureReturns, ReleaseResidual, vars, residentVars, layerVars
  <2> QED
    BY <1>1, <2>7, <2>8, <2>9 DEF Next, Get, InsertBase, Promote, Remove, ApplyPressure,
       Destroy, DestroyRelease, DestroyReturns
<1>2. BooksInv /\ [Next]_vars =>
        [call.phase \in {"plan", "make_room", "pressure"} =>
           \A l \in Layers : AboveFloor(l) => AboveFloor(l)']_vars
  BY <1>1
<1> QED
  BY <1>2, BooksInit, BooksNext, PTL DEF Spec, FloorsKept

\* No entry is newer than the clock, neither by its use nor by its admission.
Stamped == \A s \in Slots : /\ entries[s].last_access <= clock
                            /\ entries[s].admission_order <= clock

\* What a rescaling, or none, makes of the stamps: the order is kept, and all are behind the clock.
LEMMA RescaledOrder ==
    ASSUME TypeOK, EntriesOK, Stamped
    PROVE  /\ \A a \in Occupied, b \in Occupied :
                 entries[a].last_access < entries[b].last_access =>
                     Rescaled[a].last_access <= Rescaled[b].last_access
           /\ \A a \in Occupied : Rescaled[a].last_access < NextClock
           /\ \A a \in Slots : Rescaled[a].last_access <= NextClock
           /\ \A a \in Occupied, b \in Occupied :
                 entries[a].admission_order < entries[b].admission_order =>
                     Rescaled[a].admission_order <= Rescaled[b].admission_order
           /\ \A a \in Occupied : Rescaled[a].admission_order < NextClock
           /\ \A a \in Slots : Rescaled[a].admission_order <= NextClock
           /\ Rescaled \in [Slots -> Entry] /\ NextClock \in Nat
<1>1. /\ entries \in [Slots -> Entry] /\ clock \in Nat /\ MaxClock \in Nat
      /\ Rescaled \in [Slots -> Entry] /\ NextClock \in Nat
  BY RescaledType, NextClockType, CacheAssumption DEF TypeOK, ResidentType
<1>2. \A a \in Slots : /\ entries[a].last_access \in Nat /\ entries[a].last_access <= clock
                       /\ entries[a].admission_order \in Nat
                       /\ entries[a].admission_order <= clock
  BY <1>1 DEF Stamped, Entry
<1>3. \A x \in Nat, y \in Nat : /\ Halve(x) \in Nat
                                /\ x <= y => Halve(x) <= Halve(y)
  BY DEF Halve
<1>4. \A a \in Slots \ Occupied : /\ Rescaled[a] = entries[a] /\ entries[a].last_access = 0
                                  /\ entries[a].admission_order = 0
  BY DEF Rescaled, EntriesOK, Occupied, EmptyEntry
<1>5. CASE ~ClockFull
  <2>1. Rescaled = entries /\ NextClock = clock + 1
    BY <1>5 DEF Rescaled, NextClock
  <2>2. \A a \in Slots : /\ entries[a].last_access < clock + 1
                         /\ entries[a].admission_order < clock + 1
    BY <1>1, <1>2
  <2> QED
    BY <1>1, <1>2, <2>1, <2>2 DEF Occupied
<1>6. CASE ClockFull
  <2>1. NextClock = Halve(clock) + 1
    BY <1>6 DEF NextClock
  <2>2. ASSUME NEW a \in Occupied
        PROVE  /\ Rescaled[a].last_access = Halve(entries[a].last_access)
               /\ Rescaled[a].admission_order = Halve(entries[a].admission_order)
    <3>1. a \in Slots /\ entries[a] \in Entry
      BY <1>1 DEF Occupied
    <3>2. Rescaled[a] = [entries[a] EXCEPT !.last_access = Halve(@), !.admission_order = Halve(@)]
      BY <1>6, <3>1 DEF Rescaled
    <3> QED
      BY <3>1, <3>2 DEF Entry
  <2>3. \A a \in Occupied : a \in Slots
    BY DEF Occupied
  <2>4. \A a \in Occupied : /\ Rescaled[a].last_access \in Nat
                            /\ Rescaled[a].last_access <= Halve(clock)
                            /\ Rescaled[a].admission_order \in Nat
                            /\ Rescaled[a].admission_order <= Halve(clock)
    BY <1>1, <1>2, <1>3, <2>2, <2>3
  <2>5. \A a \in Occupied : /\ Rescaled[a].last_access < NextClock
                            /\ Rescaled[a].admission_order < NextClock
    BY <1>1, <1>3, <2>1, <2>4
  <2>6. \A a \in Slots : /\ Rescaled[a].last_access <= NextClock
                         /\ Rescaled[a].admission_order <= NextClock
    <3>1. \A a \in Slots \ Occupied : /\ Rescaled[a].last_access <= NextClock
                                      /\ Rescaled[a].admission_order <= NextClock
      BY <1>1, <1>4
    <3>2. \A a \in Occupied : /\ Rescaled[a].last_access <= NextClock
                              /\ Rescaled[a].admission_order <= NextClock
      BY <1>1, <2>4, <2>5
    <3> QED
      BY <3>1, <3>2
  <2>7. ASSUME NEW a \in Occupied, NEW b \in Occupied, entries[a].last_access < entries[b].last_access
        PROVE  Rescaled[a].last_access <= Rescaled[b].last_access
    BY <1>2, <1>3, <2>2, <2>3, <2>7
  <2>8. ASSUME NEW a \in Occupied, NEW b \in Occupied,
               entries[a].admission_order < entries[b].admission_order
        PROVE  Rescaled[a].admission_order <= Rescaled[b].admission_order
    BY <1>2, <1>3, <2>2, <2>3, <2>8
  <2> QED
    BY <1>1, <2>5, <2>6, <2>7, <2>8
<1> QED
  BY <1>5, <1>6

\* Slot m becomes the newest, or none does, and the others keep their order.
Moves(m) ==
    LET others == (Occupied \cap Occupied') \ {m}
    IN  /\ \A a, b \in others :
              entries[a].last_access < entries[b].last_access =>
                  entries'[a].last_access <= entries'[b].last_access
        /\ m # NoSlot => \A a \in others : entries'[a].last_access < entries'[m].last_access

\* Stamping one slot with the next clock value, after the others were rescaled if need be: an
\* entry that is used keeps its place in the order of admission, one that is admitted is its last.
LEMMA StampStep ==
    ASSUME TypeOK, EntriesOK, Stamped, NEW s \in Slots, clock' = NextClock,
           \A t \in Slots \ {s} : entries'[t] = Rescaled[t],
           entries'[s].last_access = NextClock,
           \/ s \in Occupied /\ entries'[s].admission_order = Rescaled[s].admission_order
           \/ s \notin Occupied /\ entries'[s].admission_order = NextClock
    PROVE  Stamped' /\ Moves(s) /\ AgeOrderKept
<1>1. \A a \in Slots : entries'[a].admission_order <= NextClock
  BY RescaledOrder
<1>2. Stamped'
  BY <1>1, RescaledOrder DEF Stamped
<1>3. \A a \in Occupied \ {s} : a \in Slots \ {s}
  BY DEF Occupied
<1>4. Moves(s)
  BY <1>3, RescaledOrder DEF Moves
<1>5. \A a \in Occupied : entries'[a].admission_order = Rescaled[a].admission_order
  BY <1>3
<1>6. \A b \in Occupied' \ Occupied : b = s
  <2> SUFFICES ASSUME NEW b \in Slots \ Occupied, b # s PROVE b \notin Occupied'
    BY DEF Occupied
  <2> QED
    BY DEF Occupied, Rescaled
<1>7. AgeOrderKept
  <2>1. \A a \in Occupied, b \in Occupied :
            entries[a].admission_order < entries[b].admission_order =>
                entries'[a].admission_order <= entries'[b].admission_order
    BY <1>5, RescaledOrder
  <2>2. \A a \in Occupied, b \in Occupied' \ Occupied :
            entries'[a].admission_order < entries'[b].admission_order
    BY <1>5, <1>6, RescaledOrder
  <2> QED
    BY <2>1, <2>2 DEF AgeOrderKept
<1> QED
  BY <1>2, <1>4, <1>7

\* Releasing planes moves nothing.
LEMMA StillStep ==
    ASSUME TypeOK, Stamped, clock' = clock,
           \A t \in Slots : \/ /\ entries'[t].last_access = entries[t].last_access
                               /\ entries'[t].admission_order = entries[t].admission_order
                               /\ entries'[t].base = entries[t].base
                            \/ entries'[t] = EmptyEntry
    PROVE  Stamped' /\ Moves(NoSlot) /\ AgeOrderKept
<1>1. clock \in Nat
  BY DEF TypeOK, ResidentType
<1>2. ASSUME NEW t \in Slots
      PROVE  entries'[t].last_access <= clock' /\ entries'[t].admission_order <= clock'
  BY <1>1 DEF Stamped, EmptyEntry
<1>3. \A t \in Occupied' : /\ t \in Slots /\ t \in Occupied
                           /\ entries'[t].last_access = entries[t].last_access
                           /\ entries'[t].admission_order = entries[t].admission_order
  BY DEF Occupied, EmptyEntry
<1>4. \A t \in Slots : /\ entries[t].last_access \in Nat
                       /\ entries[t].admission_order \in Nat
  BY DEF TypeOK, ResidentType, Entry
<1>5. Stamped'
  BY <1>2 DEF Stamped
<1>6. Moves(NoSlot)
  BY <1>3, <1>4 DEF Moves
<1>7. AgeOrderKept
  BY <1>3, <1>4 DEF AgeOrderKept
<1> QED
  BY <1>5, <1>6, <1>7

\* A use makes one entry the last used, an admission makes it the last admitted as well, and the
\* others keep both their orders, also when the clock is full; nothing else moves any.
THEOREM RecencyKept == Spec => OnlyNewestMoves
<1> DEFINE Goal == Stamped' /\ AgeOrderKept /\ \E m \in Slots \cup {NoSlot} : Moves(m)
<1>1. ASSUME TypeOK, EntriesOK, AdmissionOK, Stamped, [Next]_vars
      PROVE  Goal
  <2>1. entries \in [Slots -> Entry] /\ Rescaled \in [Slots -> Entry]
        /\ \A s \in Slots : entries[s] \in Entry /\ Rescaled[s] \in Entry
    BY <1>1, RescaledOrder DEF TypeOK, ResidentType
  <2>2. ASSUME NEW k \in Keys, Get(k) PROVE Goal
    <3>1. PICK s \in Occupied : entries' = [Rescaled EXCEPT ![s].last_access = NextClock,
                                                            ![s].hot = @ \/ Policy = "2Q"]
      BY <2>2 DEF Get, Holding
    <3>2. /\ s \in Slots
          /\ \A t \in Slots \ {s} : entries'[t] = Rescaled[t]
          /\ entries'[s].last_access = NextClock
          /\ entries'[s].admission_order = Rescaled[s].admission_order
      BY <2>1, <3>1 DEF Entry, Occupied
    <3>3. Stamped' /\ Moves(s) /\ AgeOrderKept
      BY <1>1, <2>2, <3>2, StampStep DEF Get
    <3> QED
      BY <3>2, <3>3
  <2>3. ASSUME NEW s \in Slots \ Occupied, Place(s) PROVE Goal
    <3>1. /\ \A t \in Slots \ {s} : entries'[t] = Rescaled[t]
          /\ entries'[s].last_access = NextClock /\ clock' = NextClock
          /\ entries'[s].admission_order = NextClock
      BY <2>1, <2>3 DEF Place, EmptyEntry
    <3>2. Stamped' /\ Moves(s) /\ AgeOrderKept
      BY <1>1, <3>1, StampStep
    <3> QED
      BY <3>2
  <2>4. ASSUME NEW s \in Slots, ReleaseResidual(s) PROVE Goal
    <3>1. \A t \in Slots : /\ entries'[t].last_access = entries[t].last_access
                           /\ entries'[t].admission_order = entries[t].admission_order
                           /\ entries'[t].base = entries[t].base
      BY <2>1, <2>4 DEF ReleaseResidual, Entry
    <3>2. Stamped' /\ Moves(NoSlot) /\ AgeOrderKept
      BY <1>1, <2>4, <3>1, StillStep DEF ReleaseResidual
    <3> QED
      BY <3>2
  <2>5. ASSUME NEW s \in Slots, ReleaseBase(s) PROVE Goal
    <3>1. \A t \in Slots : entries'[t] = entries[t] \/ entries'[t] = EmptyEntry
      BY <2>1, <2>5 DEF ReleaseBase
    <3>2. Stamped' /\ Moves(NoSlot) /\ AgeOrderKept
      BY <1>1, <2>5, <3>1, StillStep DEF ReleaseBase
    <3> QED
      BY <3>2
  <2>6. CASE UNCHANGED <<entries, clock>>
    BY <1>1, <2>6, StillStep
  <2>7. CASE CommitPromote
    <3>1. \A t \in Slots : /\ entries'[t].last_access = entries[t].last_access
                           /\ entries'[t].admission_order = entries[t].admission_order
                           /\ entries'[t].base = entries[t].base
      BY <2>1, <2>7 DEF CommitPromote, Entry
    <3>2. Stamped' /\ Moves(NoSlot) /\ AgeOrderKept
      BY <1>1, <2>7, <3>1, StillStep DEF CommitPromote
    <3> QED
      BY <3>2
  <2>8. CASE CommitInsert
    BY <2>3, <2>6, <2>8 DEF CommitInsert, residentVars
  <2>9. CASE MakeRoomDemote \/ PressureDemote
    BY <2>4, <2>9 DEF MakeRoomDemote, PressureDemote
  <2>10. CASE MakeRoomEvict \/ PressureEvict \/ DestroyRelease \/ \E k \in Keys : Remove(k)
    BY <2>5, <2>10 DEF MakeRoomEvict, PressureEvict, DestroyRelease, Remove, Holding, Occupied
  <2> HIDE DEF Goal
  <2> QED
    BY <1>1, <2>2, <2>6, <2>7, <2>8, <2>9, <2>10
       DEF Next, vars, residentVars, InsertBase, Promote, PlanVictim, PlanFails,
           PlanSucceeds, ApplyPressure, PressureReturns, Destroy, DestroyReturns
<1>2. Init => Stamped
  BY DEF Init, Stamped, EmptyEntry
<1>3. (\E m \in Slots \cup {NoSlot} : Moves(m)) <=> UseOrderKept
  BY DEF Moves, UseOrderKept
<1>4. BooksInv /\ Stamped /\ [Next]_vars => Stamped' /\ [UseOrderKept /\ AgeOrderKept]_vars
  BY <1>1, <1>3 DEF BooksInv
<1> QED
  BY <1>2, <1>4, BooksInit, BooksNext, PTL DEF Spec, OnlyNewestMoves

-----------------------------------------------------------------------------
(* What an admission takes, and what a refused one leaves.                 *)

Moved(s) == entries[s].base # call.before[s].base

\* The admission has to take a base.
Must ==
    \/ SlotTotal([s \in Slots |-> call.before[s].residual_charge]) < call.needed
    \/ call.op = "insert" /\ \A s \in Slots : call.before[s].base # NoPayload

\* As long as bases are only planned, none has left; what left afterwards had to, ranked first,
\* and left after every residual plane.
OrderOK ==
    /\ call.phase = "plan" => entries = call.before /\ Must
    /\ call.phase = "make_room" =>
         /\ Must \/ (PlannedSteps = 0 /\ \A s \in Slots : ~Moved(s))
         /\ \A s \in Occupied : ~Moved(s)
         /\ (\E s \in Slots : Moved(s)) => HasResidual = {}
         /\ \A s \in Slots : ~Moved(s) => SameRank(call.before[s], entries[s])
         /\ VictimsRankFirst

\* A cache whose count is full has no free entry.
LEMMA FullCache ==
    ASSUME entries \in [Slots -> Entry], Accounting, entry_count >= MaxEntries
    PROVE  Occupied = Slots
<1> SUFFICES ASSUME NEW s \in Slots, s \notin Occupied PROVE FALSE
  BY DEF Occupied
<1> DEFINE f    == BaseMarks(Layers)
           most == [i \in Slots |-> IF i = s THEN 0 ELSE 1]
<1>1. MaxEntries \in Nat /\ Slots = 1 .. MaxEntries
  BY CacheAssumption DEF Slots
<1>2. /\ f \in [1 .. MaxEntries -> Int] /\ most \in [1 .. MaxEntries -> Int]
  BY <1>1, ContributionType DEF BaseMarks
<1>3. \A i \in 1 .. MaxEntries : f[i] <= most[i]
  BY <1>1 DEF BaseMarks, CountsIn
<1>5. s \in 1 .. MaxEntries
  BY <1>1
<1>6. entry_count = Total(MaxEntries, f)
  BY DEF Accounting, SlotTotal
<1> HIDE DEF f, most
<1>7. Total(MaxEntries, most) = MaxEntries - 1
  <2> DEFINE sums == [i \in 0 .. MaxEntries |-> IF i >= s THEN i - 1 ELSE i]
  <2>1. PartialSums(MaxEntries, most, sums)
    BY <1>1, <1>5 DEF PartialSums, most
  <2>2. sums[MaxEntries] = MaxEntries - 1
    BY <1>1, <1>5
  <2> HIDE DEF sums
  <2> QED
    BY <1>1, <1>2, <2>1, <2>2, TotalIsLast
<1>8. Total(MaxEntries, f) <= Total(MaxEntries, most)
  BY <1>1, <1>2, <1>3, TotalMonotone
<1>9. Total(MaxEntries, f) \in Int
  BY <1>1, <1>2, TotalInt
<1> QED
  BY <1>1, <1>6, <1>7, <1>8, <1>9

\* The bytes of residual planes, told from the entries alone.
LEMMA ResidualBytes ==
    ASSUME entries \in [Slots -> Entry], EntriesOK, Accounting
    PROVE  residual_bytes = SlotTotal([s \in Slots |-> entries[s].residual_charge])
<1>1. ASSUME NEW s \in Slots
      PROVE  (IF CountsIn(s, Layers) THEN entries[s].residual_charge ELSE 0) = entries[s].residual_charge
  BY DEF CountsIn, Occupied, EntriesOK, EmptyEntry, Keys
<1>2. ResidualCharges(Layers) = [s \in Slots |-> entries[s].residual_charge]
  BY <1>1 DEF ResidualCharges
<1> QED
  BY <1>2 DEF Accounting

\* An admission that goes on to plan has to take a base; one that does not has taken none.
LEMMA AdmissionOrdered ==
    ASSUME TypeOK, EntriesOK, Accounting,
           NEW op \in {"insert", "promote"}, NEW k \in Keys,
           NEW p \in Payloads, NEW n \in Sizes, NEW s \in Slots \cup {NoSlot},
           StartAdmission(Admission(op, k, p, Charge(n), s)),
           UNCHANGED residentVars
    PROVE  OrderOK'
<1> DEFINE adm == Admission(op, k, p, Charge(n), s)
<1>1. /\ adm.phase = "plan" /\ adm.op = op /\ adm.before = entries
      /\ adm.needed = RequiredReclaim(Charge(n)) /\ adm.charge = Charge(n)
      /\ [adm EXCEPT !.phase = "make_room"].phase = "make_room"
      /\ [adm EXCEPT !.phase = "make_room"].before = entries
  BY DEF Admission
<1>2. entries' = entries /\ entries \in [Slots -> Entry]
  BY DEF residentVars, TypeOK, ResidentType
<1>3. StartAdmission(adm)
  OBVIOUS
<1> HIDE DEF adm
<1>4. CASE Return("NO_SPACE")
  BY <1>4 DEF Return, Idle, OrderOK
<1>5. CASE /\ call' = adm
           /\ \/ op = "insert" /\ entry_count >= MaxEntries
              \/ residual_bytes < adm.needed
  <2>1. Must'
    <3>1. CASE op = "insert" /\ entry_count >= MaxEntries
      <4>1. \A t \in Slots : entries[t].base # NoPayload
        BY <1>2, <3>1, FullCache DEF Occupied
      <4> QED
        BY <1>1, <1>5, <3>1, <4>1 DEF Must
    <3>2. CASE residual_bytes < adm.needed
      <4>1. call'.before = entries /\ call'.needed = adm.needed
        BY <1>1, <1>5
      <4>2. SlotTotal([t \in Slots |-> entries[t].residual_charge]) < adm.needed
        BY <1>2, <3>2, ResidualBytes
      <4> QED
        BY <4>1, <4>2 DEF Must
    <3> QED
      BY <1>5, <3>1, <3>2
  <2> QED
    BY <1>1, <1>2, <1>5, <2>1 DEF OrderOK
<1>6. CASE call' = [adm EXCEPT !.phase = "make_room"] /\ schedule' = NoSchedule
  <2>1. call'.phase = "make_room" /\ call'.before = entries
    BY <1>1, <1>6
  <2>2. PlannedSteps' = 0
    BY <1>6 DEF PlannedSteps, NoSchedule
  <2>3. /\ \A t \in Slots : ~Moved(t)' /\ SameRank(entries[t], entries[t])
        /\ \A t \in Occupied' : t \in Slots
    BY <1>2, <2>1 DEF Moved, SameRank, Occupied
  <2>4. VictimsRankFirst'
    BY <1>2, <2>1 DEF VictimsRankFirst
  <2> QED
    BY <1>2, <2>1, <2>2, <2>3, <2>4 DEF OrderOK, Moved
<1> QED
  BY <1>1, <1>3, <1>4, <1>5, <1>6 DEF StartAdmission

\* The order of the policy has no ties.
LEMMA PrecedesOnce ==
    ASSUME NEW e \in Entry, NEW f \in Entry, NEW a \in Slots, NEW b \in Slots, a # b,
           Precedes(e, a, f, b)
    PROVE  ~Precedes(f, b, e, a)
<1>1. /\ a \in Int /\ b \in Int /\ e.hot \in BOOLEAN /\ f.hot \in BOOLEAN
      /\ e.last_access \in Int /\ f.last_access \in Int
      /\ e.admission_order \in Int /\ f.admission_order \in Int
  BY CacheAssumption DEF Slots, Entry
<1> QED
  BY <1>1 DEF Precedes

\* Dropping a residual plane changes no order, and only happens before a base has left.
LEMMA DemoteOrdered ==
    ASSUME TypeOK, OrderOK, call.phase = "make_room", NEW s \in HasResidual, ReleaseResidual(s),
           UNCHANGED <<call, schedule>>
    PROVE  OrderOK'
<1>1. entries \in [Slots -> Entry] /\ s \in Slots
  BY DEF TypeOK, ResidentType, HasResidual, Occupied
<1>2. \A t \in Slots : /\ entries'[t].base = entries[t].base
                       /\ SameRank(entries[t], entries'[t])
  BY <1>1 DEF ReleaseResidual, SameRank, Entry
<1>3. \A t \in Slots : ~Moved(t) /\ (Moved(t)' <=> Moved(t))
  BY <1>2 DEF OrderOK, Moved
<1>4. \A t \in Slots : SameRank(call.before[t], entries'[t])
  BY <1>2, <1>3 DEF OrderOK, SameRank
<1>5. VictimsRankFirst' /\ \A t \in Occupied' : t \in Slots
  BY <1>3 DEF VictimsRankFirst, Moved, Occupied
<1>6. Must' <=> Must
  BY DEF Must
<1>7. PlannedSteps' = PlannedSteps
  BY DEF PlannedSteps
<1> QED
  BY <1>3, <1>4, <1>5, <1>6, <1>7 DEF OrderOK, Moved

\* A base leaves as the first of those that may, with every residual plane gone, and only when
\* the plan had a base to take.
LEMMA EvictOrdered ==
    ASSUME BooksInv, ScheduleOK, RoomOK, OrderOK, MakeRoomEvict
    PROVE  OrderOK'
<1>1. /\ TypeOK /\ EntriesOK /\ AdmissionOK /\ MarksOK /\ Accounting
      /\ entries \in [Slots -> Entry] /\ plan' = plan
      /\ call.phase = "make_room" /\ call' = call /\ HasResidual = {} /\ Short
      /\ layer_base_bytes \in [Layers -> Int] /\ layer_base_entries \in [Layers -> Int]
  BY DEF BooksInv, TypeOK, ResidentType, MakeRoomEvict
<1>2. PICK s \in Slots : First(s, EvictableBases(call.protected)) /\ ReleaseBase(s)
  BY DEF MakeRoomEvict
<1>3. s \in Occupied /\ entries[s] \in Entry /\ entries[s].key.layer \in Layers
      /\ entries[s].base_charge \in Nat
  BY <1>1, <1>2 DEF First, EvictableBases, EntriesOK, Occupied, Keys, Entry
<1>4. Must
  BY <1>1, RoomIsThere DEF OrderOK
<1>5. /\ \A t \in Slots \ {s} : entries'[t] = entries[t]
      /\ entries'[s] = EmptyEntry
  BY <1>1, <1>2 DEF ReleaseBase
<1>6. HasResidual' = {}
  BY <1>1, <1>5 DEF HasResidual, Occupied, EmptyEntry
<1>7. ASSUME NEW t \in Slots, ~Moved(t)' PROVE SameRank(call.before[t], entries'[t])
  <2>1. CASE t # s
    BY <1>1, <1>5, <1>7, <2>1 DEF OrderOK, Moved
  <2>2. CASE t = s
    BY <1>1, <1>3, <1>5, <1>7, <2>2 DEF OrderOK, Moved, EmptyEntry, Occupied
  <2> QED
    BY <2>1, <2>2
<1>8. EvictableBases(call.protected)' \subseteq EvictableBases(call.protected) \ {s}
  <2> SUFFICES ASSUME NEW t \in EvictableBases(call.protected)'
               PROVE  t \in EvictableBases(call.protected) \ {s}
    OBVIOUS
  <2>1. t \in Slots \ {s} /\ entries'[t] = entries[t] /\ t \in Occupied \ {call.protected}
    BY <1>1, <1>5 DEF EvictableBases, Occupied, EmptyEntry
  <2>2. PICK l \in Layers : l = entries[t].key.layer
    BY <1>1, <2>1 DEF EntriesOK, Occupied, Keys
  <2>3. PICK c \in Nat : c = entries[t].base_charge
    BY <1>1, <2>1 DEF Entry
  <2>4. /\ layer_base_bytes'[l] <= layer_base_bytes[l] /\ layer_base_entries'[l] <= layer_base_entries[l]
        /\ layer_base_bytes'[l] \in Int /\ layer_base_bytes[l] \in Int
        /\ layer_base_entries'[l] \in Int /\ layer_base_entries[l] \in Int
    BY <1>1, <1>2, <1>3 DEF ReleaseBase
  <2>5. /\ layer_base_entries'[l] > 0 /\ layer_base_bytes'[l] >= c
        /\ layer_base_entries'[l] - 1 >= MinBaseEntries[l]
        /\ layer_base_bytes'[l] - c >= MinBaseBytes[l]
    BY <2>1, <2>2, <2>3 DEF EvictableBases, FloorAllows
  <2>6. MinBaseBytes[l] \in Nat /\ MinBaseEntries[l] \in Nat
    BY CacheAssumption
  <2>7. FloorAllows(t, layer_base_bytes, layer_base_entries)
    BY <2>2, <2>3, <2>4, <2>5, <2>6 DEF FloorAllows
  <2>8. t \notin plan.victims
    BY <1>1 DEF EvictableBases
  <2> QED
    BY <2>1, <2>7, <2>8 DEF EvictableBases
<1>9. VictimsRankFirst'
  <2> SUFFICES ASSUME NEW v \in Slots, NEW t \in EvictableBases(call.protected)', Moved(v)'
               PROVE  ~Precedes(entries'[t], t, call.before[v], v)
    BY <1>1 DEF VictimsRankFirst, Moved
  <2>1. t \in EvictableBases(call.protected) \ {s} /\ entries'[t] = entries[t] /\ t \in Slots
    BY <1>5, <1>8 DEF EvictableBases, Occupied
  <2>2. CASE Moved(v)
    BY <1>1, <2>1, <2>2 DEF OrderOK, VictimsRankFirst, Moved
  <2>3. CASE ~Moved(v)
    <3>1. v = s
      BY <1>1, <1>5, <2>3 DEF Moved
    <3>2. SameRank(call.before[s], entries[s])
      BY <1>1, <2>3, <3>1 DEF OrderOK
    <3>3. Precedes(entries[s], s, entries[t], t)
      BY <1>2, <2>1 DEF First
    <3>4. ~Precedes(entries[t], t, entries[s], s)
      BY <1>1, <2>1, <3>3, PrecedesOnce
    <3> QED
      BY <2>1, <3>1, <3>2, <3>4 DEF Precedes, SameRank
  <2> QED
    BY <2>2, <2>3
<1>10. Must'
  BY <1>1, <1>4 DEF Must
<1>11. \A t \in Occupied' : ~Moved(t)'
  BY <1>1, <1>5 DEF OrderOK, Moved, Occupied, EmptyEntry
<1> QED
  BY <1>1, <1>6, <1>7, <1>9, <1>10, <1>11 DEF OrderOK

\* Every step of the cache keeps the order in which planes leave.
LEMMA OrderStep == PromiseInv /\ OrderOK /\ [Next]_vars => OrderOK'
<1> SUFFICES ASSUME PromiseInv, OrderOK, [Next]_vars PROVE OrderOK'
  OBVIOUS
<1>1. /\ BooksInv /\ TypeOK /\ EntriesOK /\ AdmissionOK /\ MarksOK /\ Accounting
      /\ ScheduleOK /\ RoomOK
  BY DEF PromiseInv, BooksInv
<1>2. ASSUME call'.phase \notin {"plan", "make_room"} PROVE OrderOK'
  BY <1>2 DEF OrderOK
<1>3. ASSUME NEW status, Return(status) PROVE OrderOK'
  BY <1>2, <1>3 DEF Return, Idle
<1>4. ASSUME NEW k \in Keys, NEW p \in Payloads, NEW n \in Sizes, InsertBase(k, p, n)
      PROVE  OrderOK'
  <2>1. NoSlot \in Slots \cup {NoSlot} /\ UNCHANGED residentVars
    BY <1>4 DEF InsertBase
  <2> QED
    BY <1>1, <1>3, <1>4, <2>1, AdmissionOrdered DEF InsertBase
<1>5. ASSUME NEW k \in Keys, NEW p \in Payloads, NEW n \in Sizes, Promote(k, p, n)
      PROVE  OrderOK'
  <2>1. \A s \in Holding(k) : s \in Slots \cup {NoSlot}
    BY DEF Holding, Occupied
  <2>2. UNCHANGED residentVars
    BY <1>5 DEF Promote
  <2> QED
    BY <1>1, <1>3, <1>5, <2>1, <2>2, AdmissionOrdered DEF Promote
<1>6. CASE PlanVictim \/ UNCHANGED vars
  <2>1. CASE call.phase = "plan"
    BY <1>6, <2>1 DEF PlanVictim, OrderOK, Must, vars, residentVars
  <2>2. CASE call.phase # "plan"
    <3>1. UNCHANGED vars
      BY <1>6, <2>2 DEF PlanVictim
    <3>2. /\ entries' = entries /\ call' = call /\ schedule' = schedule
          /\ layer_base_bytes' = layer_base_bytes /\ layer_base_entries' = layer_base_entries
          /\ plan' = plan
      BY <3>1 DEF vars, layerVars
    <3>3. VictimsRankFirst => VictimsRankFirst'
      BY <3>2 DEF VictimsRankFirst, EvictableBases, Occupied, FloorAllows
    <3>4. /\ Must => Must'
          /\ PlannedSteps' = PlannedSteps
          /\ HasResidual' = HasResidual /\ Occupied' = Occupied
      BY <3>2 DEF Occupied, HasResidual, Must, PlannedSteps
    <3>5. \A t \in Slots : /\ Moved(t)' <=> Moved(t)
                           /\ (SameRank(call.before[t], entries[t]))' =
                                SameRank(call.before[t], entries[t])
      BY <3>2 DEF Moved, SameRank
    <3>6. CASE call.phase = "make_room"
      <4>1. Must' \/ (PlannedSteps' = 0 /\ \A t \in Slots : ~Moved(t)')
        <5>1. CASE Must
          BY <3>4, <5>1
        <5>2. CASE ~Must
          <6>1. PlannedSteps = 0 /\ \A t \in Slots : ~Moved(t)
            BY <3>6, <5>2 DEF OrderOK
          <6>2. PlannedSteps' = 0
            BY <3>4, <6>1
          <6>3. \A t \in Slots : ~Moved(t)'
            BY <3>5, <6>1
          <6> QED
            BY <6>2, <6>3
        <5> QED
          BY <5>1, <5>2
      <4>2. /\ \A t \in Occupied' : ~Moved(t)'
            /\ (\E t \in Slots : Moved(t)') => HasResidual' = {}
            /\ \A t \in Slots : ~Moved(t)' => (SameRank(call.before[t], entries[t]))'
        BY <3>4, <3>5, <3>6 DEF OrderOK, Occupied
      <4>3. VictimsRankFirst'
        BY <3>3, <3>6 DEF OrderOK
      <4> QED
        BY <3>2, <3>6, <4>1, <4>2, <4>3 DEF OrderOK
    <3> QED
      BY <1>2, <2>2, <3>2, <3>6
  <2> QED
    BY <2>1, <2>2
<1>7. CASE PlanSucceeds
  <2>1. /\ call.phase = "plan" /\ entries' = entries /\ entries = call.before /\ Must
        /\ call \in AdmissionCalls /\ call' = [call EXCEPT !.phase = "make_room"]
    BY <1>1, <1>7 DEF PlanSucceeds, OrderOK, residentVars, AdmissionOK
  <2>2. /\ call'.phase = "make_room" /\ call'.before = call.before /\ call'.op = call.op
        /\ call'.needed = call.needed
    BY <2>1 DEF AdmissionCalls
  <2>3. Must'
    BY <2>1, <2>2 DEF Must
  <2>4. /\ \A t \in Slots : ~Moved(t)' /\ SameRank(call'.before[t], entries'[t])
        /\ \A t \in Occupied' : t \in Slots
    BY <2>1, <2>2 DEF Moved, SameRank, Occupied
  <2>5. VictimsRankFirst'
    BY <2>1, <2>2 DEF VictimsRankFirst
  <2> QED
    BY <2>2, <2>3, <2>4, <2>5 DEF OrderOK, Moved
<1>8. CASE MakeRoomDemote
  BY <1>1, <1>8, DemoteOrdered DEF MakeRoomDemote, First
<1>9. CASE MakeRoomEvict
  BY <1>1, <1>9, EvictOrdered
<1>10. ASSUME \/ \E k \in Keys : Get(k) \/ Remove(k)
              \/ PlanFails \/ CommitInsert \/ CommitPromote \/ PressureReturns
       PROVE  OrderOK'
  BY <1>3, <1>10 DEF Get, Remove, PlanFails, CommitInsert, CommitPromote, PressureReturns
<1>11. ASSUME \/ \E level \in {"WARN", "CRITICAL"}, target \in Targets : ApplyPressure(level, target)
              \/ PressureDemote \/ PressureEvict \/ Destroy \/ DestroyRelease \/ DestroyReturns
       PROVE  OrderOK'
  BY <1>2, <1>11 DEF ApplyPressure, PressureDemote, PressureEvict, Destroy, DestroyRelease,
                     DestroyReturns
<1> QED
  BY <1>4, <1>5, <1>6, <1>7, <1>8, <1>9, <1>10, <1>11 DEF Next

\* What the two theorems below rest on, in every state.
LEMMA OrderAlways == Spec => [](PromiseInv /\ NeverCorrupt /\ OrderOK)
<1>1. Init => NeverCorrupt /\ OrderOK
  BY DEF Init, Idle, NeverCorrupt, OrderOK
<1> QED
  BY <1>1, PromiseInit, PromiseNext, NeverCorruptStep, OrderStep, PTL DEF Spec

\* An admission takes a base only when it has to, only after it has dropped every residual plane,
\* and never one that the policy ranks behind another that the floors would let go.
THEOREM PolicyIsFollowed == Spec => []LeavesInOrder
<1>1. OrderOK => LeavesInOrder
  <2> SUFFICES ASSUME OrderOK PROVE LeavesInOrder
    OBVIOUS
  <2>1. BasesLeaveLast
    BY DEF OrderOK, BasesLeaveLast, Moved, Must
  <2>2. VictimsRankFirst
    BY DEF OrderOK, VictimsRankFirst
  <2> QED
    BY <2>1, <2>2 DEF LeavesInOrder
<1> QED
  BY <1>1, OrderAlways, PTL

\* A refused admission leaves every entry as the call found it, and none marked.
THEOREM RefusedAdmissions == Spec => RefusalChangesNothing
<1>1. ASSUME PromiseInv, NeverCorrupt, NeverCorrupt', OrderOK, [Next]_vars,
             call.phase \in {"plan", "make_room"}, call'.phase = "idle", call'.status # "OK"
      PROVE  entries' = call.before /\ plan'.victims = {}
  <2>1. CASE PlanFails
    <3>1. NoPlan \in PlanType
      BY DEF NoPlan, PlanType
    <3> QED
      BY <1>1, <2>1, <3>1 DEF PlanFails, Return, Unmarked, PlanType, OrderOK, residentVars
  <2>2. ASSUME CommitInsert \/ CommitPromote PROVE FALSE
    BY <1>1, <2>2 DEF CommitInsert, CommitPromote, Return, Idle, NeverCorrupt
  <2>3. CASE PlanSucceeds
    <3>1. call \in AdmissionCalls
      BY <1>1 DEF PromiseInv, BooksInv, AdmissionOK
    <3>2. call'.phase = "make_room"
      BY <2>3, <3>1 DEF PlanSucceeds, AdmissionCalls
    <3> QED
      BY <1>1, <3>2
  <2> QED
    BY <1>1, <2>1, <2>2, <2>3 DEF Next, Get, InsertBase, Promote, PlanVictim, MakeRoomDemote,
       MakeRoomEvict, Remove, ApplyPressure, PressureDemote, PressureEvict, PressureReturns,
       Destroy, DestroyRelease, DestroyReturns, vars
<1>2. PromiseInv /\ NeverCorrupt /\ NeverCorrupt' /\ OrderOK /\ [Next]_vars =>
        [call.phase \in {"plan", "make_room"} /\ call'.phase = "idle" /\ call'.status # "OK"
            => entries' = call.before /\ plan'.victims = {}]_vars
  BY <1>1
<1> QED
  BY <1>2, OrderAlways, NeverCorruptStep, PTL DEF Spec, RefusalChangesNothing

-----------------------------------------------------------------------------
(* A call ends: it never waits for a victim that is not there, and every    *)
(* step brings it closer to its end.                                       *)

\* The policy has a first among any entries that may leave: it never hesitates between two.
LEMMA FirstExists ==
    ASSUME entries \in [Slots -> Entry], NEW S \in SUBSET Slots, S # {}
    PROVE  \E s \in S : First(s, S)
<1>1. \A s \in S : /\ s \in Nat /\ entries[s].hot \in BOOLEAN
                   /\ entries[s].last_access \in Nat /\ entries[s].admission_order \in Nat
  BY CacheAssumption DEF Slots, Entry
<1>2. ASSUME NEW T \in SUBSET S, T # {}, NEW f \in [S -> Nat]
      PROVE  \E s \in T : \A t \in T \ {s} : f[s] < f[t] \/ (f[s] = f[t] /\ s < t)
  <2> DEFINE U == {f[t] : t \in T}
  <2>1. PICK u \in U : \A v \in U : u <= v
    <3>1. U \in SUBSET Nat /\ U # {}
      BY <1>2
    <3> HIDE DEF U
    <3> QED
      BY <3>1, LeastElement
  <2> DEFINE V == {t \in T : f[t] = u}
  <2>2. PICK s \in V : \A t \in V : s <= t
    <3>1. V \in SUBSET Nat /\ V # {}
      BY <1>1, <2>1
    <3> HIDE DEF V
    <3> QED
      BY <3>1, LeastElement
  <2>3. ASSUME NEW t \in T \ {s} PROVE f[s] < f[t] \/ (f[s] = f[t] /\ s < t)
    <3>1. f[s] = u /\ u <= f[t] /\ s \in S /\ t \in S
      BY <2>1, <2>2
    <3>2. f[t] = u => s <= t
      BY <2>2
    <3>3. f[s] \in Nat /\ f[t] \in Nat /\ s \in Nat /\ t \in Nat
      BY <1>1, <3>1, <1>2
    <3>4. s # t
      OBVIOUS
    <3> QED
      BY <3>1, <3>2, <3>3, <3>4
  <2> QED
    BY <2>2, <2>3
<1> DEFINE cold == {s \in S : ~entries[s].hot}
           age  == [s \in S |-> entries[s].last_access]
           born == [s \in S |-> entries[s].admission_order]
<1>3. age \in [S -> Nat] /\ born \in [S -> Nat]
  BY <1>1
<1>4. CASE Policy = "2Q" /\ cold # {}
  <2>1. PICK s \in cold : \A t \in cold \ {s} : born[s] < born[t] \/ (born[s] = born[t] /\ s < t)
    <3> HIDE DEF born
    <3> QED
      BY <1>2, <1>3, <1>4
  <2>2. ASSUME NEW t \in S \ {s} PROVE Precedes(entries[s], s, entries[t], t)
    <3>1. CASE t \in cold
      BY <1>4, <2>1, <3>1 DEF Precedes
    <3>2. CASE t \notin cold
      BY <1>1, <1>4, <2>1, <3>2 DEF Precedes
    <3> QED
      BY <3>1, <3>2
  <2> QED
    BY <2>1, <2>2 DEF First
<1>5. CASE ~(Policy = "2Q" /\ cold # {})
  <2>1. PICK s \in S : \A t \in S \ {s} : age[s] < age[t] \/ (age[s] = age[t] /\ s < t)
    <3> HIDE DEF age
    <3> QED
      BY <1>2, <1>3
  <2>2. ASSUME NEW t \in S \ {s} PROVE Precedes(entries[s], s, entries[t], t)
    <3>1. Policy = "2Q" => entries[s].hot /\ entries[t].hot
      BY <1>5
    <3>2. age[s] = entries[s].last_access /\ age[t] = entries[t].last_access
      OBVIOUS
    <3> QED
      BY <2>1, <3>1, <3>2 DEF Precedes
  <2> QED
    BY <2>1, <2>2 DEF First
<1> QED
  BY <1>4, <1>5

\* The condition of some step of the call under way.
GoesOn ==
    /\ call.phase = "plan" =>
         \/ PlanCovers \/ PlannableBases(call.protected) = {}
         \/ \E s \in Slots : First(s, PlannableBases(call.protected))
    /\ call.phase = "make_room" =>
         \/ RoomMade /\ call.op \in {"insert", "promote"}
         \/ Short /\ \E s \in Slots : First(s, HasResidual)
         \/ Short /\ HasResidual = {} /\ \E s \in Slots : First(s, EvictableBases(call.protected))
    /\ call.phase = "pressure" =>
         \/ ~OverTarget
         \/ \E s \in Slots : First(s, HasResidual)
         \/ HasResidual = {} /\ (call.level = "CRITICAL" => EvictableBases(NoSlot) = {})
         \/ /\ HasResidual = {} /\ call.level = "CRITICAL"
            /\ \E s \in Slots : First(s, EvictableBases(NoSlot))
    /\ call.phase = "destroy" =>
         Occupied = {} \/ \E s \in Occupied : \A t \in Occupied : s <= t

\* No call is left waiting: whatever it has to release, the policy names a first one, or the loop
\* is over.  The loops of can_make_room, make_room, apply_pressure and destroy have no other exit.
THEOREM CallsGoOn == Spec => []GoesOn
<1>1. ASSUME BooksInv PROVE GoesOn
  <2>1. entries \in [Slots -> Entry]
    BY <1>1 DEF BooksInv, TypeOK, ResidentType
  <2>2. /\ PlannableBases(call.protected) \in SUBSET Slots /\ HasResidual \in SUBSET Slots
        /\ EvictableBases(call.protected) \in SUBSET Slots /\ EvictableBases(NoSlot) \in SUBSET Slots
        /\ Occupied \in SUBSET Slots /\ Occupied \in SUBSET Nat
    BY CacheAssumption DEF PlannableBases, EvictableBases, HasResidual, Occupied, Slots
  <2>3. \A S \in SUBSET Slots : S # {} => \E s \in Slots : First(s, S)
    BY <2>1, FirstExists
  <2>4. Occupied # {} => \E s \in Occupied : \A t \in Occupied : s <= t
    BY <2>2, LeastElement
  <2>5. call.phase = "make_room" => call.op \in {"insert", "promote"}
    BY <1>1 DEF BooksInv, AdmissionOK, AdmissionCalls
  <2> QED
    BY <2>2, <2>3, <2>4, <2>5 DEF GoesOn, RoomMade
<1> QED
  BY <1>1, BooksInit, BooksNext, PTL DEF Spec

\* The slots the plan may still pick.
Unplanned == IF call.phase = "plan" THEN Slots \ plan.victims ELSE {}

\* How many steps the call under way has left at most: a pick for every slot that is not planned,
\* a release for every plane, the end of the plan and that of the call.
StepsLeft ==
    IF call.phase \in {"idle", "destroyed"} THEN 0
    ELSE 1 + (IF call.phase = "plan" THEN 1 ELSE 0)
           + Cardinality(Unplanned) + Cardinality(HasResidual) + Cardinality(Occupied)

LEMMA StepsCounted ==
    ASSUME NEW S \in SUBSET Slots
    PROVE  /\ IsFiniteSet(S) /\ Cardinality(S) \in 0 .. MaxEntries
           /\ \A s \in S : Cardinality(S \ {s}) = Cardinality(S) - 1
<1>1. IsFiniteSet(Slots) /\ Cardinality(Slots) = MaxEntries /\ MaxEntries \in Nat
  BY CacheAssumption, FS_Interval DEF Slots
<1>2. IsFiniteSet(S) /\ Cardinality(S) <= MaxEntries /\ Cardinality(S) \in Nat
  BY <1>1, FS_Subset, FS_CardinalityType
<1> QED
  BY <1>1, <1>2, FS_RemoveElement

\* What a release takes from the planes that are left.
LEMMA ReleaseCounts ==
    ASSUME TypeOK, NEW s \in Slots,
           (s \in Occupied /\ ReleaseBase(s)) \/ (s \in HasResidual /\ ReleaseResidual(s))
    PROVE  Cardinality(HasResidual') + Cardinality(Occupied')
             < Cardinality(HasResidual) + Cardinality(Occupied)
<1>1. entries \in [Slots -> Entry] /\ s \in Occupied
  BY DEF TypeOK, ResidentType, HasResidual
<1>2. HasResidual \in SUBSET Slots /\ Occupied \in SUBSET Slots
      /\ HasResidual \ {s} \in SUBSET Slots
  BY DEF HasResidual, Occupied
<1>3. CASE ReleaseBase(s)
  <2>1. Occupied' = Occupied \ {s} /\ HasResidual' = HasResidual \ {s}
    BY <1>1, <1>3 DEF ReleaseBase, Occupied, HasResidual, EmptyEntry
  <2>2. Cardinality(HasResidual \ {s}) <= Cardinality(HasResidual)
    BY <1>2, StepsCounted, FS_Subset
  <2> QED
    BY <1>1, <1>2, <2>1, <2>2, StepsCounted
<1>4. CASE s \in HasResidual /\ ReleaseResidual(s)
  <2>1. Occupied' = Occupied /\ HasResidual' = HasResidual \ {s}
    BY <1>1, <1>4 DEF ReleaseResidual, Occupied, HasResidual, Entry
  <2> QED
    BY <1>2, <1>4, <2>1, StepsCounted
<1> QED
  BY <1>3, <1>4

\* Every step of a call that has begun leaves it fewer steps, of at most three for every slot and
\* two more: no loop of the cache runs longer than that, whatever the caller's limits.
THEOREM CallsAreShort ==
    Spec => [](StepsLeft \in 0 .. 3 * MaxEntries + 2) /\ [][CallStep => StepsLeft' < StepsLeft]_vars
<1>1. ASSUME BooksInv PROVE StepsLeft \in 0 .. 3 * MaxEntries + 2
  <2>1. Unplanned \in SUBSET Slots /\ HasResidual \in SUBSET Slots /\ Occupied \in SUBSET Slots
    BY DEF Unplanned, HasResidual, Occupied
  <2>2. /\ Cardinality(Unplanned) \in 0 .. MaxEntries /\ Cardinality(HasResidual) \in 0 .. MaxEntries
        /\ Cardinality(Occupied) \in 0 .. MaxEntries /\ MaxEntries \in Nat
    BY <2>1, StepsCounted, CacheAssumption
  <2> QED
    BY <2>2 DEF StepsLeft
<1>2. ASSUME BooksInv, BooksInv', CallStep PROVE StepsLeft' < StepsLeft
  <2> DEFINE planes == Cardinality(HasResidual) + Cardinality(Occupied)
             picks  == Cardinality(Unplanned)
  <2>1. /\ Unplanned \in SUBSET Slots /\ HasResidual \in SUBSET Slots /\ Occupied \in SUBSET Slots
        /\ Unplanned' \in SUBSET Slots
    BY DEF Unplanned, HasResidual, Occupied, Slots
  <2>2. /\ picks \in Nat /\ Cardinality(HasResidual) \in Nat /\ Cardinality(Occupied) \in Nat
        /\ picks' \in Nat
    BY <2>1, StepsCounted
  <2>3. Cardinality(HasResidual') \in Nat /\ Cardinality(Occupied') \in Nat
    <3>1. HasResidual' \in SUBSET Slots /\ Occupied' \in SUBSET Slots
      BY DEF HasResidual, Occupied, Slots
    <3> QED
      BY <3>1, StepsCounted
  <2>4. TypeOK
    BY <1>2 DEF BooksInv
  <2>5. call.phase \in {"plan", "make_room", "pressure", "destroy"}
    BY <1>2 DEF CallStep, PlanVictim, PlanFails, PlanSucceeds, MakeRoomDemote, MakeRoomEvict,
       CommitInsert, CommitPromote, RoomMade, PressureDemote, PressureEvict, PressureReturns,
       DestroyRelease, DestroyReturns
  <2>6. StepsLeft = 1 + (IF call.phase = "plan" THEN 1 ELSE 0) + picks + planes
    BY <2>2, <2>5 DEF StepsLeft
  <2>7. ASSUME call'.phase \in {"idle", "destroyed"} PROVE StepsLeft' < StepsLeft
    BY <2>2, <2>6, <2>7 DEF StepsLeft
  <2>8. CASE PlanFails \/ CommitInsert \/ CommitPromote \/ PressureReturns \/ DestroyReturns
    <3>1. call'.phase \in {"idle", "destroyed"}
      BY <2>8 DEF PlanFails, CommitInsert, CommitPromote, PressureReturns, DestroyReturns, Return, Idle
    <3> QED
      BY <2>7, <3>1
  <2>9. CASE PlanVictim
    <3>1. PICK s \in Slots : s \in PlannableBases(call.protected) /\ plan'.victims = plan.victims \cup {s}
      <4>1. plan \in PlanType
        BY <2>4, <2>9 DEF TypeOK, CallType, PlanType
      <4> QED
        BY <2>9, <4>1 DEF PlanVictim, First, PlanType
    <3>2. s \in Unplanned /\ Unplanned' = Unplanned \ {s} /\ call' = call
      BY <2>9, <3>1 DEF PlanVictim, Unplanned, PlannableBases, Slots
    <3>3. planes' = planes
      BY <2>9 DEF PlanVictim, residentVars, HasResidual, Occupied, Slots
    <3>4. picks' = picks - 1
      BY <2>1, <3>2, StepsCounted
    <3>5. StepsLeft' = 2 + picks' + planes' /\ StepsLeft = 2 + picks + planes
      <4>1. call.phase = "plan" /\ call'.phase = "plan"
        BY <2>9, <3>2 DEF PlanVictim
      <4> QED
        BY <2>2, <2>3, <4>1 DEF StepsLeft
    <3> QED
      BY <2>2, <2>3, <3>3, <3>4, <3>5
  <2>10. CASE PlanSucceeds
    <3>1. call.phase = "plan" /\ call'.phase = "make_room"
      BY <1>2, <2>10 DEF PlanSucceeds, BooksInv, AdmissionOK, AdmissionCalls
    <3>2. Unplanned' = {} /\ planes' = planes
      BY <2>10, <3>1 DEF PlanSucceeds, residentVars, Unplanned, HasResidual, Occupied, Slots
    <3>3. StepsLeft' = 1 + planes'
      <4>1. picks' = 0
        BY <3>2, FS_EmptySet
      <4> QED
        BY <2>3, <3>1, <4>1 DEF StepsLeft
    <3> QED
      BY <2>2, <2>3, <2>6, <3>1, <3>2, <3>3
  <2>11. CASE MakeRoomDemote \/ MakeRoomEvict \/ PressureDemote \/ PressureEvict \/ DestroyRelease
    <3>1. PICK s \in Slots : \/ s \in Occupied /\ ReleaseBase(s)
                             \/ s \in HasResidual /\ ReleaseResidual(s)
      BY <2>11 DEF MakeRoomDemote, MakeRoomEvict, PressureDemote, PressureEvict, DestroyRelease,
         First, EvictableBases, HasResidual, Occupied
    <3>2. planes' < planes
      BY <2>4, <3>1, ReleaseCounts
    <3>3. call' = call /\ call.phase # "plan"
      BY <2>11 DEF MakeRoomDemote, MakeRoomEvict, PressureDemote, PressureEvict, DestroyRelease
    <3>4. Unplanned = {} /\ Unplanned' = {}
      BY <3>3 DEF Unplanned
    <3>5. StepsLeft' = 1 + planes' /\ StepsLeft = 1 + planes
      <4>1. picks = 0 /\ picks' = 0
        BY <3>4, FS_EmptySet
      <4> QED
        BY <2>2, <2>3, <2>5, <3>3, <4>1 DEF StepsLeft
    <3> QED
      BY <2>2, <2>3, <3>2, <3>5
  <2> QED
    BY <1>2, <2>8, <2>9, <2>10, <2>11 DEF CallStep
<1>3. BooksInv /\ BooksInv' /\ [Next]_vars => [CallStep => StepsLeft' < StepsLeft]_vars
  BY <1>2
<1> QED
  BY <1>1, <1>3, BooksInit, BooksNext, PTL DEF Spec

-----------------------------------------------------------------------------
(* The engine's use of the cache (ExpertStreaming).  StreamInv says how    *)
(* the locals of a layer, the calls it makes, the handles, the slabs and   *)
(* their contents fit together between any two steps of mlp_moe and of     *)
(* the cache call it waits for.                                            *)

\* The capacities a slab may have, the ESlots, and how an item of a batch is used.
Caps   == {ExpertSize[e] : e \in Experts}
ESlots == {EmptySlot} \cup [slab : Slabs, cap : Caps]
Uses   == [from : {"cache"}, handle : Payloads] \cup [from : {"scratch"}, q : Nat]

\* The points of a layer, and those at which it has a batch.
Batching == {"lookup", "load", "math", "admit", "offered"}
Layering == {"start", "pressed", "routed"} \cup Batching

\* The items of the batch that were looked up.
Batched == 1 .. Len(moe.use)

\* The locals of a layer under way, and the buffers, are well typed.
LayerState == [at : Layering, layer : Layers, todo : Seq(Keys), use : Seq(Uses), q : Nat,
               handle : Payloads \cup {NoPayload}]
LayerTyped == moe = Idling \/ moe \in LayerState

BuffersTyped ==
    /\ slot \in [Payloads -> ESlots \cup {None}] /\ pool \in Seq(Payloads)
    /\ ws \in [Scratch -> ESlots] /\ bytes \in [Slabs -> Keys \cup {Spare, Nowhere}]

StreamTypeOK == BuffersTyped /\ LayerTyped

\* The expert of the miss that is offered.
Current == moe.todo[Item(moe.q)]

\* A batch has no more items than scratch slots; its misses are numbered from 1.
BatchOK ==
    /\ moe.at \in {"start", "pressed", "routed"} => moe.use = <<>>
    /\ moe.at \in Batching =>
         /\ Len(moe.use) <= Items
         /\ \A j \in Batched : Missed(j) => moe.use[j].q \in 1 .. Misses
         /\ \A q \in 1 .. Misses : \E j \in Batched : Missed(j) /\ moe.use[j].q = q
         /\ \A i, j \in Batched : Missed(i) /\ Missed(j) /\ moe.use[i].q = moe.use[j].q => i = j
    /\ moe.at \in {"load", "admit", "offered"} => moe.q >= 1
    /\ moe.at = "offered" => moe.q <= Misses /\ moe.handle \in Payloads

\* The cache is called for pressure and for offers, and the layer waits for its answer.
CallerOK ==
    /\ call.phase = "pressure" => moe.at = "pressed"
    /\ call.phase \in {"plan", "make_room"} =>
         /\ moe.at = "offered" /\ call.op = "insert" /\ call.payload = moe.handle
         /\ call.key = Current /\ moe.handle \notin lent
    /\ call.phase \notin {"destroy", "destroyed"}
    /\ moe.at = "offered" /\ call.phase = "idle" => (call.status = "OK" <=> moe.handle \in lent)

\* The engine admits base planes only.
BasesOnly == \A s \in Slots : entries[s].residual = NoPayload

\* Every handle that exists is lent to the cache, in the pool, or being offered, and only there.
HandlesOK ==
    /\ Allocated = lent \cup Pooled \cup Offered
    /\ Pooled \cap (lent \cup Offered) = {}
    /\ \A i, j \in 1 .. Len(pool) : pool[i] = pool[j] => i = j

\* The slab behind a handle, and where every slab is.
SlabOf(p) == IF slot[p] = None THEN NoSlab ELSE slot[p].slab

SlabsOK ==
    /\ \A q, r \in Scratch : ws[q].slab = ws[r].slab => q = r \/ ws[q].slab = NoSlab
    /\ \A p, r \in Payloads : SlabOf(p) = SlabOf(r) => p = r \/ SlabOf(p) = NoSlab
    /\ \A q \in Scratch, p \in Payloads : ws[q].slab = SlabOf(p) => SlabOf(p) = NoSlab
    /\ \A b \in Slabs : bytes[b] = Nowhere <=> /\ \A q \in Scratch : ws[q].slab # b
                                               /\ \A p \in Payloads : SlabOf(p) # b

\* A handle or a scratch slot has a slab with the bytes of an expert.
HandleHolds(p, k)  == SlabOf(p) # NoSlab /\ bytes[SlabOf(p)] = k
ScratchHolds(q, k) == ws[q].slab # NoSlab /\ bytes[ws[q].slab] = k

\* The misses that have been read and not yet offered.
Read(q) == \/ moe.at = "load" /\ q < moe.q
           \/ moe.at = "math"
           \/ moe.at = "admit" /\ q >= moe.q
           \/ moe.at = "offered" /\ q > moe.q

\* What the slabs hold: of resident entries, of hits, of misses that were read, of the offered handle.
CachedHold == \A s \in Occupied : HandleHolds(entries[s].base, entries[s].key)
HitsHold   == moe.at \in {"lookup", "load", "math"} => \A j \in Batched : ~Missed(j) =>
                  moe.use[j].handle \in lent /\ HandleHolds(moe.use[j].handle, moe.todo[j])
MissesHold == moe.at \in Batching => \A j \in Batched : Missed(j) /\ Read(moe.use[j].q) =>
                  ScratchHolds(moe.use[j].q, moe.todo[j])
OfferHolds == moe.at = "offered" => HandleHolds(moe.handle, Current)
ContentsOK == CachedHold /\ HitsHold /\ MissesHold /\ OfferHolds

StreamInv == StreamTypeOK /\ BatchOK /\ CallerOK /\ BasesOnly /\ HandlesOK /\ SlabsOK /\ ContentsOK

-----------------------------------------------------------------------------
(* Lemmas on the batch.                                                    *)

\* The items of a batch and its numbered misses.
LEMMA BatchItems ==
    ASSUME StreamTypeOK, BatchOK, moe.at \in Batching
    PROVE  /\ moe \in LayerState
           /\ moe.use \in Seq(Uses) /\ moe.todo \in Seq(Keys) /\ moe.q \in Nat
           /\ moe.layer \in Layers /\ moe.handle \in Payloads \cup {NoPayload}
           /\ Len(moe.use) \in Nat /\ Len(moe.use) <= Len(moe.todo) /\ Len(moe.use) <= Batch
           /\ \A j \in Batched : moe.todo[j] \in Keys /\ moe.use[j] \in Uses
<1>1. moe # Idling
  BY DEF Idling, Batching
<1>2. moe \in LayerState
  BY <1>1 DEF StreamTypeOK, LayerTyped
<1>3. Len(moe.use) <= Items
  BY DEF BatchOK
<1>4. Batch \in Nat
  BY StreamAssumption
<1>5. /\ moe.use \in Seq(Uses) /\ moe.todo \in Seq(Keys) /\ moe.q \in Nat
      /\ moe.layer \in Layers /\ moe.handle \in Payloads \cup {NoPayload}
  BY <1>2 DEF LayerState
<1>6. /\ Len(moe.use) \in Nat /\ Len(moe.use) <= Len(moe.todo) /\ Len(moe.use) <= Batch
  BY <1>3, <1>4, <1>5 DEF Items, Left
<1> QED
  BY <1>2, <1>5, <1>6 DEF Batched

\* There is a scratch slot for every miss.
LEMMA MissesFit ==
    ASSUME StreamTypeOK, BatchOK, moe.at \in Batching
    PROVE  /\ Misses \in Nat /\ Misses <= Batch
           /\ IsFiniteSet({j \in Batched : Missed(j)})
           /\ \A q \in 1 .. Misses : q \in Scratch
<1>1. Len(moe.use) \in Nat /\ Len(moe.use) <= Batch
  BY BatchItems
<1>2. IsFiniteSet(Batched) /\ Cardinality(Batched) = Len(moe.use)
  BY <1>1, FS_Interval, 1 \in Int DEF Batched
<1>3. /\ IsFiniteSet({j \in Batched : Missed(j)})
      /\ Cardinality({j \in Batched : Missed(j)}) <= Len(moe.use)
  BY <1>2, FS_Subset
<1>4. Misses = Cardinality({j \in Batched : Missed(j)})
  BY DEF Misses, Batched
<1>5. Misses \in Nat
  BY <1>3, <1>4, FS_CardinalityType
<1>6. Misses <= Batch
  BY <1>1, <1>3, <1>4, <1>5, StreamAssumption
<1> QED
  BY <1>3, <1>5, <1>6, StreamAssumption DEF Scratch

\* A miss is found again by its number.
LEMMA ItemFound ==
    ASSUME StreamTypeOK, BatchOK, moe.at \in Batching
    PROVE  /\ \A q \in 1 .. Misses : /\ Item(q) \in Batched /\ Missed(Item(q))
                                     /\ moe.use[Item(q)].q = q /\ moe.todo[Item(q)] \in Keys
           /\ \A j \in Batched : Missed(j) => Item(moe.use[j].q) = j
<1>1. \A j \in Batched : \A q :
        Missed(j) /\ moe.use[j].q = q <=> moe.use[j] = [from |-> "scratch", q |-> q]
  <2> SUFFICES ASSUME NEW j \in Batched, NEW q
               PROVE Missed(j) /\ moe.use[j].q = q <=> moe.use[j] = [from |-> "scratch", q |-> q]
    OBVIOUS
  <2>1. moe.use[j] \in Uses
    BY BatchItems
  <2> QED
    BY <2>1 DEF Missed, Uses
<1>2. ASSUME NEW q \in 1 .. Misses
      PROVE  Item(q) \in Batched /\ Missed(Item(q)) /\ moe.use[Item(q)].q = q
  <2>1. PICK j \in Batched : Missed(j) /\ moe.use[j].q = q
    BY DEF BatchOK
  <2>2. moe.use[j] = [from |-> "scratch", q |-> q]
    BY <1>1, <2>1
  <2>3. Item(q) \in Batched /\ moe.use[Item(q)] = [from |-> "scratch", q |-> q]
    BY <2>2 DEF Item, Batched
  <2> QED
    BY <1>1, <2>3
<1>3. ASSUME NEW j \in Batched, Missed(j) PROVE Item(moe.use[j].q) = j
  <2>1. moe.use[j].q \in 1 .. Misses
    BY <1>3 DEF BatchOK
  <2>2. LET i == Item(moe.use[j].q) IN i \in Batched /\ Missed(i) /\ moe.use[i].q = moe.use[j].q
    BY <1>2, <2>1
  <2> QED
    BY <1>3, <2>2 DEF BatchOK
<1> QED
  BY <1>2, <1>3, BatchItems

-----------------------------------------------------------------------------
(* The engine and the cache.                                               *)

\* The size that is offered with a slab, and the slab's expert.
LEMMA OfferIsAllowed ==
    ASSUME StreamTypeOK, BatchOK, ContentsOK, moe.at = "admit", moe.q <= Misses
    PROVE  /\ moe.q \in 1 .. Misses /\ moe.q \in Scratch /\ Current \in Keys
           /\ ScratchHolds(moe.q, Current)
           /\ ws[moe.q] \in [slab : Slabs, cap : Caps] /\ ws[moe.q].cap + SlotBytes \in Sizes
<1>1. moe.at \in Batching
  BY DEF Batching
<1>2. moe.q \in 1 .. Misses
  <2>1. moe.q \in Nat /\ moe.q >= 1
    BY <1>1, BatchItems DEF BatchOK
  <2> QED
    BY <1>1, <2>1, MissesFit
<1>3. moe.q \in Scratch
  BY <1>1, <1>2, MissesFit
<1>4. /\ Item(moe.q) \in Batched /\ Missed(Item(moe.q)) /\ moe.use[Item(moe.q)].q = moe.q
      /\ Current \in Keys
  BY <1>1, <1>2, ItemFound DEF Current
<1>5. ScratchHolds(moe.q, Current)
  <2>1. Read(moe.q)
    BY <1>2 DEF Read
  <2> QED
    BY <1>1, <1>4, <2>1 DEF ContentsOK, MissesHold, Current
<1>6. ws[moe.q] \in [slab : Slabs, cap : Caps]
  BY <1>3, <1>5 DEF StreamTypeOK, BuffersTyped, ESlots, EmptySlot, ScratchHolds
<1>7. ws[moe.q].cap + SlotBytes \in Sizes
  <2>1. PICK e \in Experts : ws[moe.q].cap = ExpertSize[e]
    BY <1>6 DEF Caps
  <2> QED
    BY <2>1, CallerAssumption
<1> QED
  BY <1>2, <1>3, <1>4, <1>5, <1>6, <1>7

\* Where a handle that is offered comes from.
LEMMA OfferedHandle ==
    ASSUME StreamTypeOK, OfferPooled \/ OfferNew
    PROVE  \E p \in Payloads : /\ Offer(moe.q, p)
                               /\ \/ pool # <<>> /\ p = pool[Len(pool)] /\ p \in Pooled
                                  \/ pool = <<>> /\ p \notin Allocated
<1>1. CASE OfferPooled
  <2>1. pool \in Seq(Payloads) /\ pool # <<>>
    BY <1>1 DEF StreamTypeOK, BuffersTyped, OfferPooled
  <2>2. Len(pool) \in 1 .. Len(pool) /\ pool[Len(pool)] \in Payloads
    BY <2>1
  <2>3. pool[Len(pool)] \in Pooled
    BY <2>2 DEF Pooled
  <2> QED
    BY <1>1, <2>1, <2>2, <2>3 DEF OfferPooled
<1>2. CASE OfferNew
  <2>1. Fresh(Payloads \ Allocated) \in Payloads \ Allocated
    BY <1>2 DEF OfferNew, Fresh
  <2> QED
    BY <1>2, <2>1 DEF OfferNew
<1> QED
  BY <1>1, <1>2

\* Every step of the engine is a step of the cache, or leaves it alone.
LEMMA EngineStep == PromiseInv /\ StreamInv /\ [StreamNext]_allVars => [Next]_vars
<1> SUFFICES ASSUME PromiseInv, StreamInv, [StreamNext]_allVars PROVE [Next]_vars
  OBVIOUS
<1> USE DEF StreamInv
<1>1. ASSUME NEW target \in PressureTargets, ServicePressure(target) PROVE Next
  <2>1. payload_bytes \in 0 .. Budget
    <3>1. payload_bytes \in Int /\ payload_bytes <= Budget
      BY CacheAssumption DEF PromiseInv, BooksInv, TypeOK, ResidentType, WithinBudget
    <3>2. payload_bytes >= 0
      <4>1. payload_bytes = SlotTotal(BaseCharges(Layers)) + SlotTotal(ResidualCharges(Layers))
        BY DEF PromiseInv, BooksInv, Accounting
      <4>2. entries \in [Slots -> Entry]
        BY DEF PromiseInv, BooksInv, TypeOK, ResidentType
      <4> QED
        BY <4>1, <4>2, SumsInt
    <3> QED
      BY <3>1, <3>2, CacheAssumption
  <2>2. target \in Targets
    BY <1>1, <2>1, CallerAssumption, CacheAssumption DEF PressureTargets
  <2> QED
    BY <1>1, <2>2 DEF ServicePressure, Next
<1>2. CASE LookUp
  <2>1. Len(moe.use) + 1 \in 1 .. Len(moe.todo) /\ moe.todo \in Seq(Keys)
    <3>1. moe.at \in Batching
      BY <1>2 DEF LookUp, Batching
    <3> QED
      BY <1>2, <3>1, BatchItems, StreamAssumption DEF LookUp, Items, Left
  <2>2. moe.todo[Len(moe.use) + 1] \in Keys
    BY <2>1
  <2> QED
    BY <1>2, <2>2 DEF LookUp, Next
<1>3. CASE OfferPooled \/ OfferNew
  <2>1. PICK p \in Payloads : Offer(moe.q, p)
    BY <1>3, OfferedHandle
  <2>2. moe.at = "admit" /\ moe.q <= Misses
    BY <1>3 DEF OfferPooled, OfferNew
  <2> QED
    BY <2>1, <2>2, OfferIsAllowed DEF Offer, Next, Current
<1>4. CASE CacheStep
  BY <1>4 DEF CacheStep, Next
<1>5. CASE UNCHANGED vars
  BY <1>5
<1> QED
  BY <1>1, <1>2, <1>3, <1>4, <1>5 DEF StreamNext, LayerStep, allVars, StartLayer, PressureServed,
     NoPressure, Route, WholeLayer, LookedUp, Load, Loaded, Compute, Admitted, Refused, NextBatch,
     TurnEnds

\* A call that evicts returns the one handle of the entry it empties.
LEMMA Releases ==
    ASSUME PromiseInv, OwnedInv, StreamInv, CacheStep, MakeRoomEvict \/ PressureEvict
    PROVE  \E s \in Occupied : LET p == entries[s].base IN
             /\ p \in lent /\ p \in Payloads /\ lent' = lent \ {p}
             /\ entries' = [entries EXCEPT ![s] = EmptyEntry]
             /\ GiveBack(p) /\ slot' = [slot EXCEPT ![p] = KeptIn(p)]
             /\ ws' = ws /\ moe' = moe /\ call' = call
<1>1. lent \subseteq Payloads
  BY DEF PromiseInv, BooksInv, TypeOK, ResidentType
<1>2. PICK s \in Occupied : ReleaseBase(s) /\ call' = call
  BY DEF MakeRoomEvict, PressureEvict, First, EvictableBases
<1> DEFINE p == entries[s].base
<1>3. s \in Slots /\ p # NoPayload /\ entries[s].residual = NoPayload
  BY DEF Occupied, StreamInv, BasesOnly
<1>4. p \in lent
  BY <1>3 DEF OwnedInv, Held
<1>5. NoPayload \notin lent
  BY <1>1, CacheAssumption
<1>6. lent' = lent \ {p} /\ entries' = [entries EXCEPT ![s] = EmptyEntry]
  BY <1>2, <1>3, <1>5 DEF ReleaseBase
<1>7. lent \ lent' = {p}
  BY <1>4, <1>6
<1>8. GiveBack(p) /\ slot' = [slot EXCEPT ![p] = KeptIn(p)] /\ ws' = ws /\ moe' = moe
  BY <1>7 DEF CacheStep
<1> QED
  BY <1>1, <1>2, <1>4, <1>6, <1>8

\* Every other step of a call returns no handle; one of them takes the handle that is offered.
LEMMA Answers ==
    ASSUME PromiseInv, OwnedInv, StreamInv, CacheStep, ~(MakeRoomEvict \/ PressureEvict)
    PROVE  /\ UNCHANGED streamVars /\ moe' = moe /\ call.phase # "idle"
           /\ \/ /\ entries' = entries /\ lent' = lent
                 /\ \/ call' = call
                    \/ call'.phase = "idle" /\ (call'.status = "OK" => call.phase = "pressure")
                    \/ /\ call.phase = "plan" /\ call'.phase = "make_room"
                       /\ call'.op = call.op /\ call'.payload = call.payload /\ call'.key = call.key
              \/ /\ call.phase = "make_room" /\ call'.phase = "idle" /\ call'.status = "OK"
                 /\ lent' = lent \cup {call.payload}
                 /\ \E s \in Slots :
                      /\ entries'[s].base = call.payload /\ entries'[s].key = call.key
                      /\ entries'[s].residual = NoPayload
                      /\ \A t \in Slots \ {s} : SamePlanes(entries[t], entries'[t])
<1>1. TypeOK /\ AdmissionOK /\ entries \in [Slots -> Entry] /\ clock \in 0 .. MaxClock
  BY DEF PromiseInv, BooksInv, TypeOK, ResidentType
<1>2. CASE CommitInsert
  <2>1. call.phase = "make_room"
    BY <1>2 DEF CommitInsert, RoomMade
  <2>2. CASE Occupied = Slots
    <3>1. entries' = entries /\ lent' = lent /\ call' = Idle("CORRUPT")
      BY <1>2, <2>2 DEF CommitInsert, Return, residentVars
    <3>2. UNCHANGED streamVars /\ moe' = moe
      BY <3>1 DEF CacheStep
    <3> QED
      BY <2>1, <3>1, <3>2 DEF Idle
  <2>3. CASE Occupied # Slots
    <3>1. PICK s \in Slots \ Occupied : Place(s)
      BY <1>2, <2>3 DEF CommitInsert
    <3>2. call' = Idle("OK")
      BY <1>2, <2>3 DEF CommitInsert, Return
    <3>3. lent' = lent \cup {call.payload}
      BY <3>1 DEF Place
    <3>4. UNCHANGED streamVars /\ moe' = moe
      BY <3>3 DEF CacheStep
    <3>5. Rescaled \in [Slots -> Entry] /\ \A t \in Slots : SamePlanes(entries[t], Rescaled[t])
      BY <1>1, RescaledType, RescaledPlanes
    <3>6. \A t \in Slots \ {s} : entries'[t] = Rescaled[t]
      BY <3>1, <3>5 DEF Place
    <3>7. entries'[s] = [EmptyEntry EXCEPT !.key = call.key, !.base = call.payload,
                                           !.base_charge = call.charge,
                                           !.last_access = NextClock,
                                           !.admission_order = NextClock]
      BY <3>1, <3>5 DEF Place
    <3>8. /\ entries'[s].base = call.payload /\ entries'[s].key = call.key
          /\ entries'[s].residual = NoPayload
      BY <3>7 DEF EmptyEntry
    <3> QED
      BY <2>1, <3>2, <3>3, <3>4, <3>5, <3>6, <3>8 DEF Idle
  <2> QED
    BY <2>2, <2>3
<1>3. CASE PlanSucceeds
  <2>1. call \in AdmissionCalls /\ call.phase = "plan"
    BY <1>1, <1>3 DEF PlanSucceeds, AdmissionOK
  <2>2. /\ call'.phase = "make_room" /\ entries' = entries /\ lent' = lent
        /\ call'.op = call.op /\ call'.payload = call.payload /\ call'.key = call.key
    BY <1>3, <2>1 DEF PlanSucceeds, AdmissionCalls, residentVars
  <2>3. UNCHANGED streamVars /\ moe' = moe
    BY <2>2 DEF CacheStep
  <2> QED
    BY <2>1, <2>2, <2>3
<1>4. CASE PlanVictim \/ PlanFails \/ PressureReturns
  <2>1. /\ entries' = entries /\ lent' = lent /\ call.phase # "idle"
        /\ \/ call' = call
           \/ call'.phase = "idle" /\ (call'.status = "OK" => call.phase = "pressure")
    <3>1. CASE PlanVictim
      BY <3>1 DEF PlanVictim, residentVars
    <3>2. CASE PlanFails
      BY <3>2 DEF PlanFails, Return, Idle, residentVars
    <3>3. CASE PressureReturns
      BY <3>3 DEF PressureReturns, Return, Idle, residentVars
    <3> QED
      BY <1>4, <3>1, <3>2, <3>3
  <2>2. UNCHANGED streamVars /\ moe' = moe
    BY <2>1 DEF CacheStep
  <2> QED
    BY <2>1, <2>2
<1> QED
  BY <1>2, <1>3, <1>4 DEF CacheStep

\* An offer starts a call or is refused at once.
LEMMA Offers ==
    ASSUME StreamInv, NEW p, Offer(moe.q, p)
    PROVE  /\ entries' = entries /\ lent' = lent /\ call.phase = "idle"
           /\ moe' = [moe EXCEPT !.at = "offered", !.handle = p]
           /\ slot' = [slot EXCEPT ![p] = ws[moe.q]]
           /\ \/ call'.phase = "idle" /\ call'.status # "OK"
              \/ /\ call'.phase \in {"plan", "make_room"}
                 /\ call'.op = "insert" /\ call'.payload = p
                 /\ call'.key = Current
  BY DEF Offer, InsertBase, StartAdmission, Admission, Return, Idle, residentVars, Current

-----------------------------------------------------------------------------
(* The locals of a layer.                                                  *)

\* A step that leaves a batch's lookups alone keeps their numbers.
LEMMA SameLookups ==
    ASSUME moe'.use = moe.use
    PROVE  /\ Batched' = Batched /\ Misses' = Misses
           /\ \A j : Missed(j)' <=> Missed(j)
           /\ \A n : Item(n)' = Item(n)
<1>1. Batched' = Batched
  BY DEF Batched
<1>2. Misses' = Misses
  BY DEF Misses, Missed
<1> QED
  BY <1>1, <1>2 DEF Missed, Item

\* And keeps the batch consistent, if its next miss is one of them.
LEMMA SameBatch ==
    ASSUME BatchOK, moe.at \in Batching, moe'.at \in Batching,
           moe'.use = moe.use, moe'.todo = moe.todo,
           moe'.at \in {"load", "admit", "offered"} => moe'.q >= 1,
           moe'.at = "offered" => moe'.q <= Misses /\ moe'.handle \in Payloads
    PROVE  BatchOK'
<1>1. /\ Batched' = Batched /\ Misses' = Misses /\ \A j : Missed(j)' <=> Missed(j)
      /\ Items' = Items
  BY SameLookups DEF Items, Left
<1>2. ~(moe'.at \in {"start", "pressed", "routed"})
  BY DEF Batching
<1> QED
  BY <1>1, <1>2 DEF BatchOK

\* A batch that begins has no items yet.
LEMMA FreshBatch ==
    ASSUME moe'.at = "lookup", moe'.use = <<>>, moe'.todo \in Seq(Keys)
    PROVE  BatchOK'
<1>1. Batched' = {} /\ Len(moe'.use) = 0
  BY DEF Batched
<1>2. Misses' = Cardinality({})
  <2>1. {j \in 1 .. Len(moe'.use) : Missed(j)'} = {}
    BY <1>1
  <2> QED
    BY <2>1 DEF Misses, Missed
<1>3. Misses' = 0
  BY <1>2, FS_EmptySet
<1>4. Len(moe'.use) <= Items'
  BY <1>1, StreamAssumption DEF Items, Left
<1> QED
  BY <1>1, <1>3, <1>4 DEF BatchOK

\* A lookup adds an item; a miss gets the next number.
LEMMA LookUpGrows ==
    ASSUME StreamTypeOK, BatchOK, LookUp, EntriesOK, entries \in [Slots -> Entry]
    PROVE  LayerTyped' /\ BatchOK'
<1>1. /\ moe.at = "lookup" /\ moe.at \in Batching /\ Len(moe.use) < Items
      /\ moe \in LayerState /\ moe.use \in Seq(Uses) /\ Len(moe.use) \in Nat
  BY BatchItems DEF LookUp, Batching
<1>n. PICK n \in Nat : n = Len(moe.use)
  BY <1>1
<1> DEFINE hit(s) == [from |-> "cache", handle |-> entries[s].base]
           miss == [from |-> "scratch", q |-> Misses + 1]
<1>2. /\ Misses \in Nat /\ IsFiniteSet({j \in Batched : Missed(j)})
      /\ Misses = Cardinality({j \in Batched : Missed(j)})
  BY <1>1, MissesFit DEF Misses, Batched
<1>3. \E u \in Uses : /\ moe' = [moe EXCEPT !.use = Append(@, u)]
                      /\ u.from = "scratch" => u.q = Misses + 1
  <2>1. CASE Holding(moe.todo[n + 1]) # {}
    <3>1. PICK s \in Holding(moe.todo[n + 1]) : moe' = [moe EXCEPT !.use = Append(@, hit(s))]
      BY <1>n, <2>1 DEF LookUp
    <3>2. entries[s].base \in Payloads
      BY <3>1 DEF Holding, Occupied, Entry
    <3>3. hit(s) \in Uses /\ hit(s).from # "scratch"
      BY <3>2 DEF Uses
    <3> QED
      BY <3>1, <3>3
  <2>2. CASE Holding(moe.todo[n + 1]) = {}
    <3>1. moe' = [moe EXCEPT !.use = Append(@, miss)]
      BY <1>n, <2>2 DEF LookUp, Get
    <3>2. miss \in Uses /\ miss.q = Misses + 1
      BY <1>2 DEF Uses
    <3> QED
      BY <3>1, <3>2
  <2> QED
    BY <2>1, <2>2
<1>4. PICK u \in Uses : /\ moe' = [moe EXCEPT !.use = Append(@, u)]
                        /\ u.from = "scratch" => u.q = Misses + 1
  BY <1>3
<1>5. LayerTyped'
  <2>1. Append(moe.use, u) \in Seq(Uses)
    BY <1>1
  <2> QED
    BY <1>1, <1>4, <2>1 DEF LayerTyped, LayerState
<1>6. /\ moe'.use = Append(moe.use, u) /\ moe'.todo = moe.todo /\ moe'.at = "lookup"
  BY <1>1, <1>4 DEF LayerState
<1>7. /\ Len(moe'.use) = n + 1 /\ moe'.use[n + 1] = u
      /\ \A j \in 1 .. n : moe'.use[j] = moe.use[j]
  BY <1>n, <1>1, <1>6
<1>8. Batched' = Batched \cup {n + 1} /\ n + 1 \notin Batched
  BY <1>n, <1>7 DEF Batched
<1>9. /\ \A j \in Batched : Missed(j)' <=> Missed(j)
      /\ Missed(n + 1)' <=> u.from = "scratch"
  <2>1. \A j \in Batched : moe'.use[j] = moe.use[j]
    BY <1>n, <1>7 DEF Batched
  <2>2. \A j : Missed(j)' <=> moe'.use[j].from = "scratch"
    BY DEF Missed
  <2>3. \A j : Missed(j) <=> moe.use[j].from = "scratch"
    BY DEF Missed
  <2>4. PICK i : i = n + 1
    OBVIOUS
  <2>5. Missed(i)' <=> u.from = "scratch"
    BY <1>7, <2>2, <2>4
  <2> QED
    BY <2>1, <2>2, <2>3, <2>4, <2>5
<1>10. Misses' = Cardinality({j \in Batched \cup {n + 1} : Missed(j)'})
  <2>1. Misses' = Cardinality({j \in Batched' : Missed(j)'})
    BY DEF Misses, Batched
  <2> QED
    BY <1>8, <2>1
<1>11. /\ u.from = "scratch" => Misses' = Misses + 1
       /\ u.from # "scratch" => Misses' = Misses
  <2>1. CASE u.from = "scratch"
    <3>1. {j \in Batched \cup {n + 1} : Missed(j)'} = {j \in Batched : Missed(j)} \cup {n + 1}
      BY <1>9, <2>1
    <3> QED
      BY <1>2, <1>8, <1>10, <2>1, <3>1, FS_AddElement
  <2>2. CASE u.from # "scratch"
    <3>1. {j \in Batched \cup {n + 1} : Missed(j)'} = {j \in Batched : Missed(j)}
      BY <1>9, <2>2
    <3> QED
      BY <1>2, <1>10, <2>2, <3>1
  <2> QED
    BY <2>1, <2>2
<1>12. Misses' \in Nat /\ Misses <= Misses' /\ Misses' <= Misses + 1
  BY <1>2, <1>11
<1>13. ASSUME NEW j \in Batched', Missed(j)' PROVE moe'.use[j].q \in 1 .. Misses'
  <2>1. CASE j = n + 1
    BY <1>2, <1>4, <1>7, <1>9, <1>11, <1>13, <2>1
  <2>2. CASE j \in Batched
    <3>1. moe.use[j].q \in 1 .. Misses /\ moe'.use[j] = moe.use[j]
      BY <1>n, <1>1, <1>7, <1>9, <1>13, <2>2 DEF BatchOK, Batched
    <3> QED
      BY <1>2, <1>12, <3>1
  <2> QED
    BY <1>8, <2>1, <2>2
<1>14. ASSUME NEW i \in 1 .. Misses' PROVE \E j \in Batched' : Missed(j)' /\ moe'.use[j].q = i
  <2>1. CASE i \in 1 .. Misses
    <3>1. PICK j \in Batched : Missed(j) /\ moe.use[j].q = i
      BY <1>1, <2>1 DEF BatchOK
    <3>2. j \in Batched' /\ Missed(j)' /\ moe'.use[j].q = i
      BY <1>n, <1>7, <1>8, <1>9, <3>1 DEF Batched
    <3> QED
      BY <3>2
  <2>2. CASE i \notin 1 .. Misses
    <3>1. u.from = "scratch" /\ i = Misses + 1
      BY <1>2, <1>11, <2>2
    <3>2. n + 1 \in Batched' /\ moe'.use[n + 1].q = i
      BY <1>4, <1>7, <1>8, <3>1
    <3> QED
      BY <1>9, <3>1, <3>2
  <2> QED
    BY <2>1, <2>2
<1>15. ASSUME NEW i \in Batched', NEW j \in Batched', Missed(i)', Missed(j)',
              moe'.use[i].q = moe'.use[j].q
       PROVE  i = j
  <2>1. \A k \in Batched : Missed(k)' => /\ Missed(k) /\ moe'.use[k].q = moe.use[k].q
                                        /\ moe.use[k].q \in 1 .. Misses
    BY <1>n, <1>1, <1>7, <1>9 DEF BatchOK, Batched
  <2>2. Missed(n + 1)' => moe'.use[n + 1].q = Misses + 1
    BY <1>4, <1>7, <1>9
  <2>3. Misses + 1 \notin 1 .. Misses
    BY <1>2
  <2>4. CASE i \in Batched /\ j \in Batched
    BY <1>1, <1>15, <2>1, <2>4 DEF BatchOK
  <2> QED
    BY <1>8, <1>15, <2>1, <2>2, <2>3, <2>4
<1>16. Len(moe'.use) <= Items'
  <2>1. Items' = Items
    BY <1>6 DEF Items, Left
  <2>2. Items \in Int
    <3>1. moe.todo \in Seq(Keys)
      BY <1>1 DEF LayerState
    <3> QED
      BY <3>1, StreamAssumption DEF Items, Left
  <2> QED
    BY <1>n, <1>1, <1>7, <2>1, <2>2
<1> QED
  BY <1>5, <1>6, <1>13, <1>14, <1>15, <1>16 DEF BatchOK

\* Every step keeps the locals of the layer consistent.
LEMMA LayerStepOK ==
    ASSUME PromiseInv, StreamInv, [StreamNext]_allVars
    PROVE  LayerTyped' /\ BatchOK'
<1> USE DEF StreamInv
<1>1. LayerTyped /\ BatchOK /\ EntriesOK /\ entries \in [Slots -> Entry]
  BY DEF StreamTypeOK, PromiseInv, BooksInv, TypeOK, ResidentType
<1>2. ASSUME moe' = moe PROVE LayerTyped' /\ BatchOK'
  <2>1. Items' = Items
    BY <1>2 DEF Items, Left
  <2> QED
    BY <1>1, <1>2, <2>1, SameLookups DEF LayerTyped, BatchOK
<1>3. ASSUME moe' = Idling PROVE LayerTyped' /\ BatchOK'
  BY <1>3 DEF LayerTyped, BatchOK, Idling, Batching
<1>4. ASSUME moe'.at \in {"start", "pressed", "routed"}, moe'.use = <<>> PROVE BatchOK'
  BY <1>4 DEF BatchOK, Batching
<1>5. \A at : moe.at = at /\ at # "idle" => moe \in LayerState
  BY <1>1 DEF LayerTyped, Idling
<1>6. ASSUME NEW l \in Layers, StartLayer(l) PROVE LayerTyped' /\ BatchOK'
  <2>1. <<>> \in Seq(Keys) /\ <<>> \in Seq(Uses) /\ 0 \in Nat /\ "start" \in Layering
    BY DEF Layering
  <2>2. moe' \in LayerState
    BY <1>6, <2>1 DEF StartLayer, LayerState
  <2>3. moe'.at = "start" /\ moe'.use = <<>>
    BY <1>6 DEF StartLayer
  <2> QED
    BY <1>4, <2>2, <2>3 DEF LayerTyped
<1>7. ASSUME \/ \E target \in PressureTargets : ServicePressure(target)
             \/ PressureServed \/ NoPressure
      PROVE  LayerTyped' /\ BatchOK'
  <2>1. moe \in LayerState /\ moe.use = <<>> /\ moe.at \in {"start", "pressed"}
    BY <1>1, <1>5, <1>7 DEF ServicePressure, ServesPressure, PressureServed, NoPressure, BatchOK
  <2>2. \E at \in {"pressed", "routed"} : moe' = [moe EXCEPT !.at = at]
    BY <1>7, <2>1 DEF ServicePressure, ServesPressure, PressureServed, NoPressure, LayerState
  <2>3. moe' \in LayerState /\ moe'.at \in {"pressed", "routed"} /\ moe'.use = <<>>
    BY <2>1, <2>2 DEF LayerState, Layering
  <2> QED
    BY <1>4, <2>3 DEF LayerTyped
<1>8. ASSUME NEW r \in Routings, Route(r) PROVE LayerTyped' /\ BatchOK'
  <2>1. moe \in LayerState /\ moe.use = <<>>
    BY <1>1, <1>5, <1>8 DEF Route, BatchOK
  <2>2. r \in Seq(Experts) /\ moe.layer \in Layers
    BY <2>1, StreamAssumption DEF LayerState
  <2> DEFINE ks == [i \in DOMAIN r |-> [layer |-> moe.layer, expert |-> r[i]]]
  <2>3. ks \in Seq(Keys)
    <3>1. DOMAIN r = 1 .. Len(r) /\ Len(r) \in Nat /\ \A i \in DOMAIN r : r[i] \in Experts
      BY <2>2
    <3>2. ks \in [1 .. Len(r) -> Keys]
      BY <2>2, <3>1 DEF Keys
    <3> HIDE DEF ks
    <3> QED
      BY <3>1, <3>2
  <2>4. moe' = [moe EXCEPT !.at = "lookup", !.todo = ks]
    BY <1>8 DEF Route
  <2> HIDE DEF ks
  <2>5. moe' \in LayerState /\ moe'.at = "lookup" /\ moe'.use = <<>> /\ moe'.todo \in Seq(Keys)
    BY <2>1, <2>3, <2>4 DEF LayerState, Layering, Batching
  <2> QED
    BY <2>5, FreshBatch DEF LayerTyped
<1>9. CASE LookUp
  BY <1>1, <1>9, LookUpGrows
<1>10. ASSUME LookedUp \/ Load \/ Loaded \/ Compute \/ Admitted \/ Refused
       PROVE  LayerTyped' /\ BatchOK'
  <2>1. moe \in LayerState /\ moe.at \in Batching \ {"idle"} /\ moe.q \in Nat
    BY <1>5, <1>10 DEF LookedUp, Load, Loaded, Compute, Admitted, Refused, Answered, Batching,
       LayerState
  <2>2. \/ moe' = [moe EXCEPT !.at = "load", !.q = 1]
        \/ moe' = [moe EXCEPT !.at = "load", !.q = @ + 1]
        \/ moe' = [moe EXCEPT !.at = "math"]
        \/ moe' = [moe EXCEPT !.at = "admit", !.q = 1]
        \/ moe' = [moe EXCEPT !.at = "admit", !.q = @ + 1]
    <3>1. CASE LookedUp \/ Loaded \/ Compute
      BY <3>1 DEF LookedUp, Loaded, Compute
    <3>2. CASE Load
      <4>1. moe.at = "load" /\ moe' = [moe EXCEPT !.q = @ + 1]
        BY <3>2 DEF Load
      <4> QED
        BY <2>1, <4>1 DEF LayerState
    <3>3. CASE Admitted \/ Refused
      BY <3>3 DEF Admitted, Refused
    <3> QED
      BY <1>10, <3>1, <3>2, <3>3
  <2>3. /\ moe.q + 1 \in Nat /\ moe.q + 1 >= 1 /\ 1 \in Nat
        /\ "load" \in Layering /\ "math" \in Layering /\ "admit" \in Layering
    BY <2>1 DEF Layering, Batching
  <2>4. /\ moe' \in LayerState /\ moe'.at \in {"load", "math", "admit"}
        /\ moe'.use = moe.use /\ moe'.todo = moe.todo
        /\ moe'.at # "math" => moe'.q >= 1
    <3>1. CASE moe' = [moe EXCEPT !.at = "load", !.q = 1]
      <4>1. moe' \in LayerState
        BY <2>1, <2>3, <3>1 DEF LayerState
      <4>2. moe'.at = "load" /\ moe'.use = moe.use /\ moe'.todo = moe.todo /\ moe'.q = 1
        BY <2>1, <3>1 DEF LayerState
      <4> QED
        BY <4>1, <4>2
    <3>2. CASE moe' = [moe EXCEPT !.at = "load", !.q = @ + 1]
      BY <2>1, <2>3, <3>2 DEF LayerState
    <3>3. CASE moe' = [moe EXCEPT !.at = "math"]
      BY <2>1, <2>3, <3>3 DEF LayerState
    <3>4. CASE moe' = [moe EXCEPT !.at = "admit", !.q = 1]
      <4>1. moe' \in LayerState
        BY <2>1, <2>3, <3>4 DEF LayerState
      <4>2. moe'.at = "admit" /\ moe'.use = moe.use /\ moe'.todo = moe.todo /\ moe'.q = 1
        BY <2>1, <3>4 DEF LayerState
      <4> QED
        BY <4>1, <4>2
    <3>5. CASE moe' = [moe EXCEPT !.at = "admit", !.q = @ + 1]
      BY <2>1, <2>3, <3>5 DEF LayerState
    <3> QED
      BY <2>2, <3>1, <3>2, <3>3, <3>4, <3>5
  <2>5. moe'.at \in Batching
    BY <2>4 DEF Batching
  <2> QED
    BY <1>1, <2>1, <2>4, <2>5, SameBatch DEF LayerTyped
<1>11. ASSUME OfferPooled \/ OfferNew PROVE LayerTyped' /\ BatchOK'
  <2>1. PICK p \in Payloads : Offer(moe.q, p)
    BY <1>11, OfferedHandle
  <2>2. moe' = [moe EXCEPT !.at = "offered", !.handle = p]
    BY <2>1 DEF Offer
  <2>3. moe \in LayerState /\ moe.at = "admit" /\ moe.q <= Misses
    BY <1>5, <1>11 DEF OfferPooled, OfferNew
  <2>4. /\ moe' \in LayerState /\ moe'.at = "offered" /\ moe'.q = moe.q /\ moe'.handle = p
        /\ moe'.use = moe.use /\ moe'.todo = moe.todo
    BY <2>2, <2>3 DEF LayerState, Layering, Batching
  <2>5. moe.q >= 1
    BY <1>1, <2>3 DEF BatchOK
  <2> QED
    BY <1>1, <2>3, <2>4, <2>5, SameBatch DEF LayerTyped, Batching
<1>12. CASE NextBatch
  <2>1. moe \in LayerState /\ moe.at = "admit" /\ moe.at \in Batching
    BY <1>5, <1>12 DEF NextBatch, Batching
  <2>2. CASE Left > Items
    <3> DEFINE rest == SubSeq(moe.todo, Items + 1, Left)
    <3>1. moe.todo \in Seq(Keys) /\ Items \in Nat /\ Left \in Nat /\ Left = Len(moe.todo)
      BY <2>1, StreamAssumption DEF LayerState, Items, Left
    <3>2. rest \in Seq(Keys)
      BY <2>2, <3>1
    <3>3. moe' = [moe EXCEPT !.at = "lookup", !.use = <<>>, !.todo = rest]
      BY <1>12, <2>2 DEF NextBatch
    <3> HIDE DEF rest
    <3>4. <<>> \in Seq(Uses) /\ "lookup" \in Layering
      BY DEF Layering, Batching
    <3>5. /\ moe' \in LayerState /\ moe'.at = "lookup" /\ moe'.use = <<>> /\ moe'.todo = rest
      BY <2>1, <3>2, <3>3, <3>4 DEF LayerState
    <3> QED
      BY <3>2, <3>5, FreshBatch DEF LayerTyped
  <2>3. CASE ~(Left > Items)
    BY <1>3, <1>12, <2>3 DEF NextBatch
  <2> QED
    BY <2>2, <2>3
<1>13. CASE WholeLayer
  BY <1>3, <1>13 DEF WholeLayer
<1>14. CASE CacheStep \/ TurnEnds \/ UNCHANGED allVars
  BY <1>2, <1>14 DEF CacheStep, TurnEnds, allVars
<1> QED
  BY <1>6, <1>7, <1>8, <1>9, <1>10, <1>11, <1>12, <1>13, <1>14 DEF StreamNext, LayerStep

-----------------------------------------------------------------------------
(* The calls and the handles.                                              *)

\* Every step keeps the engine waiting for the call it made, and admits base planes only.
LEMMA CallerStep ==
    ASSUME PromiseInv, OwnedInv, StreamInv, [StreamNext]_allVars
    PROVE  CallerOK' /\ BasesOnly'
<1> USE DEF StreamInv
<1>1. entries \in [Slots -> Entry] /\ lent \subseteq Payloads
  BY DEF PromiseInv, BooksInv, TypeOK, ResidentType
<1>2. moe'.use = moe.use /\ moe'.todo = moe.todo /\ moe'.q = moe.q => Current' = Current
  <2>1. ASSUME moe'.use = moe.use, moe'.todo = moe.todo, moe'.q = moe.q PROVE Current' = Current
    <3>1. Item(moe.q)' = Item(moe.q)
      BY <2>1 DEF Item
    <3> QED
      BY <2>1, <3>1 DEF Current
  <2> QED
    BY <2>1
<1>3. ASSUME call' = call, call.phase = "idle", moe'.at # "offered", entries' = entries
      PROVE  CallerOK' /\ BasesOnly'
  BY <1>3 DEF CallerOK, BasesOnly
<1>4. ASSUME UNCHANGED vars, moe' = moe PROVE CallerOK' /\ BasesOnly'
  <2>1. entries' = entries /\ lent' = lent /\ call' = call
    BY <1>4 DEF vars
  <2> QED
    BY <1>2, <1>4, <2>1 DEF CallerOK, BasesOnly
<1>5. CASE CacheStep /\ (MakeRoomEvict \/ PressureEvict)
  <2>1. PICK s \in Occupied : LET p == entries[s].base IN
             /\ p \in lent /\ lent' = lent \ {p} /\ entries' = [entries EXCEPT ![s] = EmptyEntry]
             /\ moe' = moe /\ call' = call
    BY <1>5, Releases
  <2>2. call.phase # "idle"
    BY <1>5 DEF MakeRoomEvict, PressureEvict
  <2>3. BasesOnly'
    BY <1>1, <2>1 DEF BasesOnly, EmptyEntry, Occupied
  <2>4. Current' = Current
    BY <1>2, <2>1
  <2> QED
    BY <2>1, <2>2, <2>3, <2>4 DEF CallerOK
<1>6. CASE CacheStep /\ ~(MakeRoomEvict \/ PressureEvict)
  <2>1. moe' = moe /\ Current' = Current /\ call.phase # "idle"
    BY <1>2, <1>6, Answers
  <2>2. CASE entries' = entries /\ lent' = lent
    <3>1. BasesOnly'
      BY <2>2 DEF BasesOnly
    <3>2. CASE call' = call
      BY <2>1, <2>2, <3>1, <3>2 DEF CallerOK
    <3>3. CASE call'.phase = "idle" /\ (call'.status = "OK" => call.phase = "pressure")
      <4>1. moe.at = "offered" => call.phase \in {"plan", "make_room"} /\ call'.status # "OK"
                                  /\ moe.handle \notin lent
        <5>1. call.phase \in {"idle", "pressure", "plan", "make_room", "destroy", "destroyed"}
          BY DEF PromiseInv, BooksInv, TypeOK, CallType, AdmissionCalls
        <5> QED
          BY <2>1, <3>3, <5>1 DEF CallerOK
      <4> QED
        BY <2>1, <2>2, <3>1, <3>3, <4>1 DEF CallerOK
    <3>4. CASE /\ call.phase = "plan" /\ call'.phase = "make_room"
               /\ call'.op = call.op /\ call'.payload = call.payload /\ call'.key = call.key
      BY <2>1, <2>2, <3>1, <3>4 DEF CallerOK
    <3>5. \/ call' = call
          \/ call'.phase = "idle" /\ (call'.status = "OK" => call.phase = "pressure")
          \/ /\ call.phase = "plan" /\ call'.phase = "make_room"
             /\ call'.op = call.op /\ call'.payload = call.payload /\ call'.key = call.key
          \/ lent' = lent \cup {call.payload} /\ call.phase = "make_room"
      BY <1>6, Answers
    <3>6. ~(lent' = lent \cup {call.payload} /\ call.phase = "make_room")
      BY <2>2 DEF CallerOK
    <3> QED
      BY <3>2, <3>3, <3>4, <3>5, <3>6
  <2>3. CASE ~(entries' = entries /\ lent' = lent)
    <3>1. /\ call.phase = "make_room" /\ call'.phase = "idle" /\ call'.status = "OK"
          /\ lent' = lent \cup {call.payload}
          /\ \E s \in Slots :
                      /\ entries'[s].residual = NoPayload
                      /\ \A t \in Slots \ {s} : SamePlanes(entries[t], entries'[t])
      BY <1>6, <2>3, Answers
    <3>2. BasesOnly'
      BY <3>1 DEF BasesOnly, SamePlanes
    <3> QED
      BY <2>1, <3>1, <3>2 DEF CallerOK
  <2> QED
    BY <2>2, <2>3
<1>7. ASSUME NEW target \in PressureTargets, ServicePressure(target)
      PROVE  CallerOK' /\ BasesOnly'
  <2>1. entries' = entries /\ call'.phase = "pressure"
    BY <1>7 DEF ServicePressure, ApplyPressure, residentVars
  <2>2. moe.at = "start" /\ moe' = [moe EXCEPT !.at = "pressed"]
    BY <1>7 DEF ServicePressure, ServesPressure
  <2>3. moe \in LayerState
    BY <2>2 DEF StreamTypeOK, LayerTyped, Idling
  <2>4. moe'.at = "pressed"
    BY <2>2, <2>3 DEF LayerState
  <2> QED
    BY <2>1, <2>4 DEF CallerOK, BasesOnly
<1>8. CASE LookUp
  <2>1. moe.at = "lookup" /\ moe.at \in Batching
    BY <1>8 DEF LookUp, Batching
  <2>2. moe \in LayerState
    BY <2>1, BatchItems
  <2>3. moe'.at = "lookup"
    BY <1>8, <2>1, <2>2 DEF LookUp, LayerState
  <2>4. \/ call' = call /\ entries' = entries
        \/ call' = Idle("OK") /\ \E k \in Keys : Get(k)
    <3>1. CASE UNCHANGED vars
      BY <3>1 DEF vars
    <3>2. CASE Get(moe.todo[Len(moe.use) + 1])
      <4>1. moe.todo[Len(moe.use) + 1] \in Keys
        <5>1. Len(moe.use) + 1 \in 1 .. Len(moe.todo) /\ moe.todo \in Seq(Keys)
          BY <1>8, <2>1, BatchItems, StreamAssumption DEF LookUp, Items, Left
        <5> QED
          BY <5>1
      <4> QED
        BY <3>2, <4>1 DEF Get, Return
    <3> QED
      BY <1>8, <3>1, <3>2 DEF LookUp
  <2>5. call.phase = "idle"
    <3>1. call.phase \in {"idle", "pressure", "plan", "make_room", "destroy", "destroyed"}
      BY DEF PromiseInv, BooksInv, TypeOK, CallType, AdmissionCalls
    <3> QED
      BY <2>1, <3>1 DEF CallerOK
  <2>6. ASSUME NEW k \in Keys, Get(k) PROVE BasesOnly'
    <3>1. PICK s \in Slots : entries' = [Rescaled EXCEPT ![s].last_access = NextClock,
                                                         ![s].hot = @ \/ Policy = "2Q"]
      BY <2>6 DEF Get, Holding, Occupied
    <3>2. Rescaled \in [Slots -> Entry] /\ \A t \in Slots : SamePlanes(entries[t], Rescaled[t])
      BY <1>1, RescaledType, RescaledPlanes
    <3>3. \A t \in Slots : entries'[t].residual = Rescaled[t].residual
      BY <3>1, <3>2 DEF Entry
    <3> QED
      BY <3>2, <3>3 DEF BasesOnly, SamePlanes
  <2>7. BasesOnly'
    BY <2>4, <2>6 DEF BasesOnly
  <2> QED
    BY <2>3, <2>4, <2>5, <2>7 DEF CallerOK, Idle
<1>9. CASE OfferPooled \/ OfferNew
  <2>1. PICK p \in Payloads : /\ Offer(moe.q, p)
                              /\ \/ pool # <<>> /\ p = pool[Len(pool)] /\ p \in Pooled
                                 \/ pool = <<>> /\ p \notin Allocated
    BY <1>9, OfferedHandle
  <2>2. p \notin lent
    BY <2>1 DEF HandlesOK
  <2>3. moe.at = "admit" /\ moe.at \in Batching
    BY <1>9 DEF OfferPooled, OfferNew, Batching
  <2>4. moe \in LayerState
    BY <2>3, BatchItems
  <2>5. /\ entries' = entries /\ lent' = lent
        /\ moe' = [moe EXCEPT !.at = "offered", !.handle = p]
        /\ \/ call'.phase = "idle" /\ call'.status # "OK"
           \/ /\ call'.phase \in {"plan", "make_room"}
              /\ call'.op = "insert" /\ call'.payload = p /\ call'.key = Current
    BY <2>1, Offers
  <2>6. /\ moe'.at = "offered" /\ moe'.handle = p /\ moe'.use = moe.use /\ moe'.todo = moe.todo
        /\ moe'.q = moe.q
    BY <2>4, <2>5 DEF LayerState
  <2>7. Current' = Current
    BY <1>2, <2>6
  <2> QED
    BY <2>2, <2>5, <2>6, <2>7 DEF CallerOK, BasesOnly
<1>10. ASSUME \/ \E l \in Layers : StartLayer(l)
              \/ PressureServed \/ NoPressure \/ \E r \in Routings : Route(r)
              \/ WholeLayer \/ LookedUp \/ Load \/ Loaded \/ Compute \/ Admitted \/ Refused
              \/ NextBatch
       PROVE  CallerOK' /\ BasesOnly'
  <2>1. call' = call /\ entries' = entries
    BY <1>10 DEF StartLayer, PressureServed, NoPressure, Route, WholeLayer, LookedUp, Load, Loaded,
       Compute, Admitted, Refused, NextBatch, vars
  <2>2. moe.at \in {"pressed", "offered"} => call.phase = "idle"
    BY <1>10 DEF StartLayer, PressureServed, NoPressure, Route, WholeLayer, LookedUp, Load, Loaded,
       Compute, Admitted, Refused, NextBatch, Answered
  <2>3. call.phase = "idle"
    <3>1. call.phase \in {"idle", "pressure", "plan", "make_room", "destroy", "destroyed"}
      BY DEF PromiseInv, BooksInv, TypeOK, CallType, AdmissionCalls
    <3> QED
      BY <2>2, <3>1 DEF CallerOK
  <2>4. moe'.at # "offered"
    <3>1. moe = [at |-> "idle"] \/ moe \in LayerState
      BY DEF StreamTypeOK, LayerTyped, Idling
    <3>2. CASE \/ \E l \in Layers : StartLayer(l)
               \/ WholeLayer
      BY <3>2 DEF StartLayer, WholeLayer, Idling
    <3>3. CASE PressureServed \/ NoPressure \/ \E r \in Routings : Route(r)
      BY <3>1, <3>3 DEF PressureServed, NoPressure, Route, Idling, LayerState
    <3>4. CASE LookedUp \/ Load \/ Loaded \/ Compute
      BY <3>1, <3>4 DEF LookedUp, Load, Loaded, Compute, Idling, LayerState
    <3>5. CASE Admitted \/ Refused
      BY <3>1, <3>5 DEF Admitted, Refused, Answered, Idling, LayerState
    <3>6. CASE NextBatch
      BY <3>1, <3>6 DEF NextBatch, Idling, LayerState
    <3> QED
      BY <1>10, <3>2, <3>3, <3>4, <3>5, <3>6
  <2> QED
    BY <1>3, <2>1, <2>3, <2>4
<1> QED
  BY <1>4, <1>5, <1>6, <1>7, <1>8, <1>9, <1>10 DEF StreamNext, LayerStep, TurnEnds, allVars

\* No handle is in the pool twice.
DistinctPool == \A i, j \in 1 .. Len(pool) : pool[i] = pool[j] => i = j

\* A handle enters the pool at its end.
LEMMA PoolGrows ==
    ASSUME pool \in Seq(Payloads), DistinctPool, NEW p \in Payloads, p \notin Pooled,
           pool' = Append(pool, p)
    PROVE  pool' \in Seq(Payloads) /\ Pooled' = Pooled \cup {p} /\ DistinctPool'
<1>1. PICK n \in Nat : n = Len(pool)
  OBVIOUS
<1>2. /\ pool' \in Seq(Payloads) /\ Len(pool') = n + 1 /\ pool'[n + 1] = p
      /\ \A i \in 1 .. n : pool'[i] = pool[i]
  BY <1>1
<1>3. 1 .. n + 1 = (1 .. n) \cup {n + 1}
  OBVIOUS
<1>4. Pooled = {pool[i] : i \in 1 .. n} /\ Pooled' = {pool'[i] : i \in 1 .. n + 1}
  BY <1>1, <1>2 DEF Pooled
<1>5. Pooled' = Pooled \cup {p}
  BY <1>2, <1>3, <1>4
<1>6. DistinctPool'
  BY <1>1, <1>2, <1>3, <1>4 DEF DistinctPool
<1> QED
  BY <1>2, <1>5, <1>6

\* And leaves it there.
LEMMA PoolShrinks ==
    ASSUME pool \in Seq(Payloads), DistinctPool, pool # <<>>,
           pool' = SubSeq(pool, 1, Len(pool) - 1)
    PROVE  pool' \in Seq(Payloads) /\ Pooled' = Pooled \ {pool[Len(pool)]} /\ DistinctPool'
<1>1. PICK n \in Nat : n + 1 = Len(pool)
  <2>1. Len(pool) \in Nat \ {0}
    OBVIOUS
  <2>2. Len(pool) - 1 \in Nat /\ (Len(pool) - 1) + 1 = Len(pool)
    BY <2>1
  <2> QED
    BY <2>2
<1>2. /\ pool' \in Seq(Payloads) /\ Len(pool') = n /\ \A i \in 1 .. n : pool'[i] = pool[i]
  BY <1>1
<1>3. 1 .. n + 1 = (1 .. n) \cup {n + 1} /\ n + 1 \notin 1 .. n
  OBVIOUS
<1>4. Pooled = {pool[i] : i \in 1 .. n + 1} /\ Pooled' = {pool'[i] : i \in 1 .. n}
  BY <1>1, <1>2 DEF Pooled
<1>5. Pooled' = Pooled \ {pool[n + 1]}
  BY <1>1, <1>2, <1>3, <1>4 DEF DistinctPool
<1>6. DistinctPool'
  BY <1>1, <1>2, <1>3 DEF DistinctPool
<1> QED
  BY <1>1, <1>2, <1>5, <1>6

\* None is not an ESlot.
LEMMA NoneIsNone == None \notin ESlots
  BY StreamAssumption DEF ESlots, EmptySlot, Caps

\* Giving the pool up frees its handles.
LEMMA PoolTrimmed ==
    ASSUME BuffersTyped, TrimPool
    PROVE  /\ Pooled' = {} /\ pool' = <<>> /\ ws' = ws
           /\ \A p \in Payloads : slot'[p] = IF p \in Pooled THEN None ELSE slot[p]
           /\ slot' \in [Payloads -> ESlots \cup {None}]
           /\ bytes' = Freed({slot[p].slab : p \in Pooled})
<1>1. /\ pool' = <<>> /\ ws' = ws /\ bytes' = Freed({slot[p].slab : p \in Pooled})
      /\ slot' = [p \in Payloads |-> IF p \in Pooled THEN None ELSE slot[p]]
  BY DEF TrimPool, Pooled
<1>2. Pooled' = {}
  BY <1>1 DEF Pooled
<1> QED
  BY <1>1, <1>2 DEF BuffersTyped

\* Every handle stays in exactly one place.
LEMMA HandlesStep ==
    ASSUME PromiseInv, OwnedInv, StreamInv, [StreamNext]_allVars
    PROVE  HandlesOK'
<1> USE DEF StreamInv, StreamTypeOK
<1>1. /\ lent \subseteq Payloads /\ pool \in Seq(Payloads) /\ DistinctPool
      /\ slot \in [Payloads -> ESlots \cup {None}] /\ None \notin ESlots
  BY NoneIsNone
  DEF PromiseInv, BooksInv, TypeOK, ResidentType, BuffersTyped, HandlesOK, DistinctPool
<1>2. ASSUME lent' = lent, slot' = slot, pool' = pool, Offered' = Offered PROVE HandlesOK'
  BY <1>2 DEF HandlesOK, Allocated, Pooled
<1>3. moe.at # "offered" /\ moe'.at # "offered" => Offered' = Offered
  BY DEF Offered
<1>4. moe' = moe => Offered' = Offered
  BY DEF Offered
<1>5. CASE CacheStep /\ (MakeRoomEvict \/ PressureEvict)
  <2>1. PICK s \in Occupied : LET p == entries[s].base IN
             /\ p \in lent /\ p \in Payloads /\ lent' = lent \ {p}
             /\ GiveBack(p) /\ slot' = [slot EXCEPT ![p] = KeptIn(p)] /\ moe' = moe
    BY <1>5, Releases
  <2>2. PICK p \in Payloads : p = entries[s].base
    BY <2>1
  <2>3. /\ p \in lent /\ lent' = lent \ {p} /\ GiveBack(p)
        /\ slot' = [slot EXCEPT ![p] = KeptIn(p)] /\ Offered' = Offered
    BY <1>4, <2>1, <2>2
  <2>4. p \notin Pooled /\ p \in Allocated
    BY <2>3 DEF HandlesOK
  <2>5. p \notin Offered
    <3>1. call.phase \in {"make_room", "pressure"}
      BY <1>5 DEF MakeRoomEvict, PressureEvict
    <3> QED
      BY <2>3, <3>1 DEF CallerOK, Offered
  <2>6. CASE PoolTakes
    <3>1. pool' = Append(pool, p) /\ slot' = slot
      BY <1>1, <2>3, <2>6 DEF GiveBack, KeptIn
    <3>2. Pooled' = Pooled \cup {p} /\ DistinctPool'
      BY <1>1, <2>4, <3>1, PoolGrows
    <3>3. Allocated' = Allocated
      BY <3>1 DEF Allocated
    <3> QED
      BY <2>3, <2>4, <2>5, <3>2, <3>3 DEF HandlesOK, DistinctPool
  <2>7. CASE ~PoolTakes
    <3>1. pool' = pool /\ slot' = [slot EXCEPT ![p] = None]
      BY <2>3, <2>7 DEF GiveBack, KeptIn
    <3>2. Pooled' = Pooled /\ Allocated' = Allocated \ {p}
      BY <1>1, <3>1 DEF Pooled, Allocated
    <3> QED
      BY <2>3, <2>4, <2>5, <3>1, <3>2 DEF HandlesOK
  <2> QED
    BY <2>6, <2>7
<1>6. CASE CacheStep /\ ~(MakeRoomEvict \/ PressureEvict)
  <2>1. /\ slot' = slot /\ pool' = pool /\ Offered' = Offered
        /\ \/ lent' = lent
           \/ lent' = lent \cup {call.payload} /\ call.phase = "make_room"
    BY <1>4, <1>6, Answers DEF streamVars
  <2>2. ASSUME lent' = lent \cup {call.payload}, call.phase = "make_room" PROVE HandlesOK'
    <3>1. call.payload \in Offered
      BY <2>2 DEF CallerOK, Offered
    <3> QED
      BY <2>1, <2>2, <3>1 DEF HandlesOK, Allocated, Pooled
  <2> QED
    BY <1>2, <2>1, <2>2
<1>7. CASE PressureServed \/ TurnEnds
  <2>1. TrimPool /\ lent' = lent /\ Offered' = Offered /\ Offered = {}
    <3>1. moe.at \in {"idle", "pressed"} /\ TrimPool /\ lent' = lent
      BY <1>7 DEF PressureServed, TurnEnds, vars
    <3>2. moe = Idling \/ moe \in LayerState
      BY DEF LayerTyped
    <3>3. moe' = moe \/ (moe.at = "pressed" /\ moe' = [moe EXCEPT !.at = "routed"])
      BY <1>7 DEF PressureServed, TurnEnds
    <3>4. moe'.at # "offered"
      BY <3>1, <3>2, <3>3 DEF Idling, LayerState
    <3> QED
      BY <1>3, <3>1, <3>4 DEF Offered
  <2>2. Allocated' = Allocated \ Pooled /\ Pooled' = {} /\ pool' = <<>>
    BY <2>1, PoolTrimmed DEF Allocated
  <2> QED
    BY <2>1, <2>2 DEF HandlesOK
<1>8. CASE OfferPooled
  <2>1. PICK p \in Payloads : Offer(moe.q, p) /\ p = pool[Len(pool)] /\ p \in Pooled
    BY <1>8, OfferedHandle DEF OfferPooled
  <2>2. pool # <<>> /\ pool' = SubSeq(pool, 1, Len(pool) - 1)
    BY <1>8 DEF OfferPooled
  <2>3. Pooled' = Pooled \ {p} /\ DistinctPool'
    BY <1>1, <2>1, <2>2, PoolShrinks
  <2>4. moe.at = "admit" /\ moe.q <= Misses /\ moe.at \in Batching
    BY <1>8 DEF OfferPooled, Batching
  <2>5. /\ lent' = lent /\ moe' = [moe EXCEPT !.at = "offered", !.handle = p]
        /\ slot' = [slot EXCEPT ![p] = ws[moe.q]]
    BY <2>1, Offers
  <2>6. moe \in LayerState
    BY <2>4, BatchItems
  <2>7. Offered' = {p} /\ Offered = {}
    BY <2>4, <2>5, <2>6 DEF Offered, LayerState
  <2>8. ws[moe.q] \in ESlots
    BY <2>4, OfferIsAllowed DEF BuffersTyped
  <2>9. p \in Allocated /\ p \notin lent
    BY <2>1, <2>7 DEF HandlesOK
  <2>10. Allocated' = Allocated
    BY <1>1, <2>5, <2>8, <2>9 DEF Allocated
  <2> QED
    BY <2>1, <2>3, <2>5, <2>7, <2>9, <2>10 DEF HandlesOK, DistinctPool
<1>9. CASE OfferNew
  <2>1. PICK p \in Payloads : Offer(moe.q, p) /\ p \notin Allocated
    BY <1>9, OfferedHandle DEF OfferNew
  <2>2. pool' = pool /\ moe.at = "admit" /\ moe.q <= Misses /\ moe.at \in Batching
    BY <1>9 DEF OfferNew, Batching
  <2>3. /\ lent' = lent /\ moe' = [moe EXCEPT !.at = "offered", !.handle = p]
        /\ slot' = [slot EXCEPT ![p] = ws[moe.q]]
    BY <2>1, Offers
  <2>4. moe \in LayerState
    BY <2>2, BatchItems
  <2>5. Offered' = {p} /\ Offered = {}
    BY <2>2, <2>3, <2>4 DEF Offered, LayerState
  <2>6. ws[moe.q] \in ESlots
    BY <2>2, OfferIsAllowed DEF BuffersTyped
  <2>7. Allocated' = Allocated \cup {p} /\ Pooled' = Pooled
    BY <1>1, <2>2, <2>3, <2>6 DEF Allocated, Pooled
  <2> QED
    BY <2>1, <2>2, <2>3, <2>5, <2>7 DEF HandlesOK
<1>10. CASE Admitted \/ Refused
  <2>1. /\ moe.at = "offered" /\ moe.at \in Batching /\ lent' = lent
        /\ call.phase = "idle" /\ moe' = [moe EXCEPT !.at = "admit", !.q = @ + 1]
    BY <1>10 DEF Admitted, Refused, Answered, Batching, vars
  <2>2. moe \in LayerState
    BY <2>1, BatchItems
  <2>3. Offered' = {} /\ Offered = {moe.handle} /\ moe.handle \in Payloads
    BY <2>1, <2>2 DEF Offered, LayerState, BatchOK
  <2>4. CASE Admitted
    <3>1. moe.handle \in lent /\ slot' = slot /\ pool' = pool
      BY <2>1, <2>4 DEF Admitted, CallerOK, streamVars
    <3> QED
      BY <2>1, <2>3, <3>1 DEF HandlesOK, Allocated, Pooled
  <2>5. CASE Refused
    <3>1. PICK p \in Payloads : p = moe.handle
      BY <2>3
    <3>2. p \notin lent /\ p \notin Pooled /\ p \in Allocated
      BY <2>1, <2>3, <2>5, <3>1 DEF Refused, CallerOK, HandlesOK
    <3>3. CASE PoolTakes
      <4>1. pool' = Append(pool, p) /\ slot' = [slot EXCEPT ![p] = ws[moe.q]]
        BY <2>5, <3>1, <3>3 DEF Refused, TakenBack
      <4>2. Pooled' = Pooled \cup {p} /\ DistinctPool'
        BY <1>1, <3>2, <4>1, PoolGrows
      <4>3. ws[moe.q] \in ESlots
        <5>1. moe.q \in 1 .. Misses
          BY <2>1, BatchItems, MissesFit DEF BatchOK
        <5> QED
          BY <2>1, <5>1, MissesFit DEF BuffersTyped
      <4>4. Allocated' = Allocated
        BY <1>1, <3>2, <4>1, <4>3 DEF Allocated
      <4> QED
        BY <2>1, <2>3, <3>1, <3>2, <4>2, <4>4 DEF HandlesOK, DistinctPool
    <3>4. CASE ~PoolTakes
      <4>1. pool' = pool /\ slot' = [slot EXCEPT ![p] = None]
        BY <2>5, <3>1, <3>4 DEF Refused
      <4>2. Allocated' = Allocated \ {p} /\ Pooled' = Pooled
        BY <1>1, <4>1 DEF Allocated, Pooled
      <4> QED
        BY <2>1, <2>3, <3>1, <3>2, <4>1, <4>2 DEF HandlesOK
    <3> QED
      BY <3>3, <3>4
  <2> QED
    BY <1>10, <2>4, <2>5
<1>11. ASSUME \/ \E l \in Layers : StartLayer(l)
              \/ \E target \in PressureTargets : ServicePressure(target)
              \/ NoPressure \/ \E r \in Routings : Route(r)
              \/ WholeLayer \/ LookUp \/ LookedUp \/ Load \/ Loaded \/ Compute \/ NextBatch
       PROVE  HandlesOK'
  <2>1. slot' = slot /\ pool' = pool
    BY <1>11 DEF StartLayer, ServicePressure, NoPressure, Route, WholeLayer, LookUp, LookedUp, Load,
       Loaded, Compute, NextBatch, streamVars
  <2>2. lent' = lent
    BY <1>11 DEF StartLayer, ServicePressure, NoPressure, Route, WholeLayer, LookUp, LookedUp, Load,
       Loaded, Compute, NextBatch, vars, ApplyPressure, Get, residentVars
  <2>3. moe.at # "offered" /\ moe'.at # "offered"
    <3>1. moe = [at |-> "idle"] \/ moe \in LayerState
      BY DEF LayerTyped, Idling
    <3>2. CASE \/ \E l \in Layers : StartLayer(l)
               \/ WholeLayer
      BY <3>2 DEF StartLayer, WholeLayer, Idling
    <3>3. CASE \/ \E target \in PressureTargets : ServicePressure(target)
               \/ NoPressure \/ \E r \in Routings : Route(r)
      BY <3>1, <3>3 DEF ServicePressure, ServesPressure, NoPressure, Route, LayerState
    <3>4. CASE LookedUp \/ Load \/ Loaded \/ Compute
      BY <3>1, <3>4 DEF LookedUp, Load, Loaded, Compute, LayerState
    <3>5. CASE LookUp
      BY <3>1, <3>5 DEF LookUp, LayerState
    <3>6. CASE NextBatch
      BY <3>1, <3>6 DEF NextBatch, Idling, LayerState
    <3> QED
      BY <1>11, <3>2, <3>3, <3>4, <3>5, <3>6
  <2> QED
    BY <1>2, <1>3, <2>1, <2>2, <2>3
<1>12. CASE UNCHANGED allVars
  BY <1>2, <1>4, <1>12 DEF allVars, vars, streamVars
<1> QED
  BY <1>5, <1>6, <1>7, <1>8, <1>9, <1>10, <1>11, <1>12 DEF StreamNext, LayerStep

-----------------------------------------------------------------------------
(* The slabs.                                                              *)

\* The slab of every place.
LEMMA SlabTypes ==
    ASSUME BuffersTyped
    PROVE  /\ \A q \in Scratch : ws[q] \in ESlots /\ ws[q].slab \in Slabs \cup {NoSlab}
           /\ \A p \in Payloads : SlabOf(p) \in Slabs \cup {NoSlab}
           /\ \A p \in Payloads : slot[p] # None => slot[p] \in ESlots /\ SlabOf(p) = slot[p].slab
           /\ NoSlab \notin Slabs
  BY SlabAssumption DEF BuffersTyped, ESlots, EmptySlot, SlabOf

\* Every slab stays where it is.
LEMMA SlabsStay ==
    ASSUME SlabsOK, \A q \in Scratch : ws'[q].slab = ws[q].slab,
           \A p \in Payloads : SlabOf(p)' = SlabOf(p),
           \A b \in Slabs : bytes'[b] = Nowhere <=> bytes[b] = Nowhere
    PROVE  SlabsOK'
  BY DEF SlabsOK

\* The slabs of some handles are freed.
LEMMA SlabsDropped ==
    ASSUME SlabsOK, BuffersTyped, NEW P \in SUBSET Payloads,
           \A q \in Scratch : ws'[q].slab = ws[q].slab,
           \A p \in Payloads : SlabOf(p)' = IF p \in P THEN NoSlab ELSE SlabOf(p),
           \A b \in Slabs : bytes'[b] = Nowhere <=>
                bytes[b] = Nowhere \/ \E p \in P : SlabOf(p) = b
    PROVE  SlabsOK'
<1>1. /\ \A q, r \in Scratch : ws'[q].slab = ws'[r].slab => q = r \/ ws'[q].slab = NoSlab
      /\ \A p, r \in Payloads : SlabOf(p)' = SlabOf(r)' => p = r \/ SlabOf(p)' = NoSlab
      /\ \A q \in Scratch, p \in Payloads : ws'[q].slab = SlabOf(p)' => SlabOf(p)' = NoSlab
  BY DEF SlabsOK
<1>2. ASSUME NEW b \in Slabs
      PROVE  bytes'[b] = Nowhere <=> /\ \A q \in Scratch : ws'[q].slab # b
                                     /\ \A p \in Payloads : SlabOf(p)' # b
  <2>1. b # NoSlab
    BY SlabAssumption
  <2>2. CASE \E p \in P : SlabOf(p) = b
    <3>1. PICK p \in P : SlabOf(p) = b
      BY <2>2
    <3>2. \A q \in Scratch : ws[q].slab # b
      BY <2>1, <3>1 DEF SlabsOK
    <3>3. \A r \in Payloads : SlabOf(r)' # b
      BY <2>1, <3>1 DEF SlabsOK
    <3> QED
      BY <2>2, <3>2, <3>3
  <2>3. CASE ~ \E p \in P : SlabOf(p) = b
    BY <2>1, <2>3 DEF SlabsOK
  <2> QED
    BY <2>2, <2>3
<1> QED
  BY <1>1, <1>2 DEF SlabsOK

\* A scratch slot and a handle exchange slabs.
LEMMA SlabsSwapped ==
    ASSUME SlabsOK, BuffersTyped, NEW q \in Scratch, NEW p \in Payloads,
           ws'[q].slab = SlabOf(p), SlabOf(p)' = ws[q].slab,
           \A r \in Scratch \ {q} : ws'[r].slab = ws[r].slab,
           \A r \in Payloads \ {p} : SlabOf(r)' = SlabOf(r),
           \A b \in Slabs : bytes'[b] = Nowhere <=> bytes[b] = Nowhere
    PROVE  SlabsOK'
<1>1. /\ \A i, r \in Scratch : ws'[i].slab = ws'[r].slab => i = r \/ ws'[i].slab = NoSlab
      /\ \A i, r \in Payloads : SlabOf(i)' = SlabOf(r)' => i = r \/ SlabOf(i)' = NoSlab
      /\ \A i \in Scratch, r \in Payloads : ws'[i].slab = SlabOf(r)' => SlabOf(r)' = NoSlab
  BY DEF SlabsOK
<1>2. ASSUME NEW b \in Slabs
      PROVE  bytes'[b] = Nowhere <=> /\ \A i \in Scratch : ws'[i].slab # b
                                     /\ \A r \in Payloads : SlabOf(r)' # b
  BY DEF SlabsOK
<1> QED
  BY <1>1, <1>2 DEF SlabsOK

\* A scratch slot gets a new slab, and its old one is freed.
LEMMA SlabReplaced ==
    ASSUME SlabsOK, BuffersTyped, NEW q \in Scratch, NEW b \in Slabs, bytes[b] = Nowhere,
           ws'[q].slab = b, \A r \in Scratch \ {q} : ws'[r].slab = ws[r].slab,
           \A p \in Payloads : SlabOf(p)' = SlabOf(p),
           \A c \in Slabs : bytes'[c] = Nowhere <=> c # b /\ (bytes[c] = Nowhere \/ c = ws[q].slab)
    PROVE  SlabsOK'
<1>1. /\ b # NoSlab /\ \A r \in Scratch : ws[r].slab # b
      /\ \A p \in Payloads : SlabOf(p) # b
  BY SlabAssumption DEF SlabsOK
<1>2. /\ \A i, r \in Scratch : ws'[i].slab = ws'[r].slab => i = r \/ ws'[i].slab = NoSlab
      /\ \A i, r \in Payloads : SlabOf(i)' = SlabOf(r)' => i = r \/ SlabOf(i)' = NoSlab
      /\ \A i \in Scratch, r \in Payloads : ws'[i].slab = SlabOf(r)' => SlabOf(r)' = NoSlab
  BY <1>1 DEF SlabsOK
<1>3. ASSUME NEW c \in Slabs
      PROVE  bytes'[c] = Nowhere <=> /\ \A i \in Scratch : ws'[i].slab # c
                                     /\ \A r \in Payloads : SlabOf(r)' # c
  <2>1. c # NoSlab
    BY SlabAssumption
  <2>2. CASE c = b
    BY <2>2
  <2>3. CASE c # b /\ c = ws[q].slab
    BY <2>1, <2>3 DEF SlabsOK
  <2>4. CASE c # b /\ c # ws[q].slab
    BY <2>4 DEF SlabsOK
  <2> QED
    BY <2>2, <2>3, <2>4
<1> QED
  BY <1>2, <1>3 DEF SlabsOK

\* A handle gives its slab to a scratch slot and is freed with the one it had from there.
LEMMA SlabDiscarded ==
    ASSUME SlabsOK, BuffersTyped, NEW q \in Scratch, NEW p \in Payloads,
           ws'[q].slab = SlabOf(p), SlabOf(p)' = NoSlab,
           \A r \in Scratch \ {q} : ws'[r].slab = ws[r].slab,
           \A r \in Payloads \ {p} : SlabOf(r)' = SlabOf(r),
           \A c \in Slabs : bytes'[c] = Nowhere <=> bytes[c] = Nowhere \/ c = ws[q].slab
    PROVE  SlabsOK'
<1>1. /\ \A i, r \in Scratch : ws'[i].slab = ws'[r].slab => i = r \/ ws'[i].slab = NoSlab
      /\ \A i, r \in Payloads : SlabOf(i)' = SlabOf(r)' => i = r \/ SlabOf(i)' = NoSlab
      /\ \A i \in Scratch, r \in Payloads : ws'[i].slab = SlabOf(r)' => SlabOf(r)' = NoSlab
  BY DEF SlabsOK
<1>2. ASSUME NEW c \in Slabs
      PROVE  bytes'[c] = Nowhere <=> /\ \A i \in Scratch : ws'[i].slab # c
                                     /\ \A r \in Payloads : SlabOf(r)' # c
  <2>1. c # NoSlab
    BY SlabAssumption
  <2>2. CASE c = ws[q].slab
    BY <2>1, <2>2 DEF SlabsOK
  <2>3. CASE c # ws[q].slab
    BY <2>1, <2>3 DEF SlabsOK
  <2> QED
    BY <2>2, <2>3
<1> QED
  BY <1>1, <1>2 DEF SlabsOK

\* Freeing some slabs leaves the others as they are.
LEMMA FreedSlabs ==
    ASSUME BuffersTyped, NEW bs, bytes' = Freed(bs)
    PROVE  /\ bytes' \in [Slabs -> Keys \cup {Spare, Nowhere}]
           /\ \A b \in Slabs : bytes'[b] = IF b \in bs THEN Nowhere ELSE bytes[b]
  BY DEF BuffersTyped, Freed

\* What becomes of the slabs when an eviction returns a handle.
LEMMA EvictedSlabs ==
    ASSUME StreamInv, NEW p \in Payloads, p \in lent, GiveBack(p),
           slot' = [slot EXCEPT ![p] = KeptIn(p)], ws' = ws
    PROVE  /\ BuffersTyped' /\ SlabsOK'
           /\ \A r \in Payloads \ {p} : SlabOf(r)' = SlabOf(r)
           /\ \A b \in Slabs \ {SlabOf(p)} : bytes'[b] = bytes[b]
<1> USE DEF StreamInv, StreamTypeOK
<1>1. slot \in [Payloads -> ESlots \cup {None}] /\ pool \in Seq(Payloads) /\ DistinctPool
  BY DEF BuffersTyped, HandlesOK, DistinctPool
<1>2. slot[p] # None /\ p \notin Pooled
  BY DEF HandlesOK, Allocated
<1>3. SlabOf(p) = slot[p].slab
  BY <1>2 DEF SlabOf
<1>4. \A r \in Payloads \ {p} : SlabOf(r)' = SlabOf(r)
  BY <1>1 DEF SlabOf
<1>5. CASE PoolTakes
  <2>1. /\ pool' = Append(pool, p) /\ slot' = slot
        /\ bytes' = [bytes EXCEPT ![SlabOf(p)] = Spare]
    BY <1>1, <1>3, <1>5 DEF GiveBack, KeptIn
  <2>2. /\ \A b \in Slabs \ {SlabOf(p)} : bytes'[b] = bytes[b]
        /\ SlabOf(p) \in Slabs => bytes'[SlabOf(p)] = Spare
        /\ bytes' \in [Slabs -> Keys \cup {Spare, Nowhere}]
    BY <2>1 DEF BuffersTyped
  <2>3. BuffersTyped'
    BY <1>1, <1>2, <2>1, <2>2, PoolGrows DEF BuffersTyped
  <2>4. \A r \in Payloads : SlabOf(r)' = SlabOf(r)
    BY <2>1 DEF SlabOf
  <2>5. \A b \in Slabs : bytes'[b] = Nowhere <=> bytes[b] = Nowhere
    BY <2>2, StreamAssumption DEF SlabsOK
  <2>6. SlabsOK'
    BY <2>4, <2>5, SlabsStay
  <2> QED
    BY <1>4, <2>2, <2>3, <2>6
<1>6. CASE ~PoolTakes
  <2>1. pool' = pool /\ slot' = [slot EXCEPT ![p] = None] /\ bytes' = Freed({SlabOf(p)})
    BY <1>3, <1>6 DEF GiveBack, KeptIn
  <2>2. /\ bytes' \in [Slabs -> Keys \cup {Spare, Nowhere}]
        /\ \A b \in Slabs : bytes'[b] = IF b \in {SlabOf(p)} THEN Nowhere ELSE bytes[b]
    BY <2>1, FreedSlabs
  <2>3. BuffersTyped'
    BY <1>1, <2>1, <2>2 DEF BuffersTyped
  <2>4. SlabOf(p)' = NoSlab
    BY <1>1, <2>1 DEF SlabOf
  <2>5. \A r \in Payloads : SlabOf(r)' = IF r \in {p} THEN NoSlab ELSE SlabOf(r)
    BY <1>4, <2>4
  <2>6. SlabsOK'
    BY <2>2, <2>5, SlabsDropped
  <2> QED
    BY <1>4, <2>2, <2>3, <2>6
<1> QED
  BY <1>5, <1>6

\* What becomes of the slabs when the pool is given up.
LEMMA TrimmedSlabs ==
    ASSUME StreamInv, TrimPool
    PROVE  /\ BuffersTyped' /\ SlabsOK' /\ ws' = ws
           /\ \A r \in Payloads \ Pooled : SlabOf(r)' = SlabOf(r)
           /\ \A b \in Slabs : (\A p \in Pooled : SlabOf(p) # b) => bytes'[b] = bytes[b]
<1> USE DEF StreamInv, StreamTypeOK
<1>1. /\ Pooled' = {} /\ pool' = <<>> /\ ws' = ws
      /\ \A p \in Payloads : slot'[p] = IF p \in Pooled THEN None ELSE slot[p]
      /\ slot' \in [Payloads -> ESlots \cup {None}]
      /\ bytes' = Freed({slot[p].slab : p \in Pooled})
  BY PoolTrimmed
<1>2. Pooled \subseteq Payloads /\ \A p \in Pooled : slot[p] # None
  <2>1. Pooled \subseteq Allocated
    BY DEF HandlesOK
  <2> QED
    BY <2>1 DEF Allocated
<1>3. \A p \in Pooled : SlabOf(p) = slot[p].slab
  BY <1>2 DEF SlabOf
<1>4. /\ bytes' \in [Slabs -> Keys \cup {Spare, Nowhere}]
      /\ \A b \in Slabs :
           bytes'[b] = IF b \in {slot[p].slab : p \in Pooled} THEN Nowhere ELSE bytes[b]
  BY <1>1, FreedSlabs
<1>5. \A b \in Slabs : b \in {slot[p].slab : p \in Pooled} <=> \E p \in Pooled : SlabOf(p) = b
  BY <1>3
<1>6. \A p \in Payloads : SlabOf(p)' = IF p \in Pooled THEN NoSlab ELSE SlabOf(p)
  BY <1>1 DEF SlabOf
<1>7. BuffersTyped'
  <2>1. <<>> \in Seq(Payloads)
    OBVIOUS
  <2> QED
    BY <1>1, <1>4, <2>1 DEF BuffersTyped
<1>8. SlabsOK'
  BY <1>1, <1>2, <1>4, <1>5, <1>6, SlabsDropped
<1> QED
  BY <1>1, <1>4, <1>5, <1>6, <1>7, <1>8

\* What becomes of the slabs when a miss is read.
LEMMA LoadedSlab ==
    ASSUME StreamInv, Load
    PROVE  /\ BuffersTyped' /\ SlabsOK' /\ slot' = slot /\ moe.q \in 1 .. Misses
           /\ ws'[moe.q].slab # NoSlab /\ bytes'[ws'[moe.q].slab] = Current
           /\ \A r \in Scratch \ {moe.q} : ws'[r] = ws[r]
           /\ \A b \in Slabs : b # ws[moe.q].slab /\ bytes[b] # Nowhere => bytes'[b] = bytes[b]
<1> USE DEF StreamInv, StreamTypeOK
<1>1. moe.at = "load" /\ moe.at \in Batching /\ moe.q <= Misses /\ slot' = slot /\ pool' = pool
  BY DEF Load, Batching
<1>2. PICK q \in 1 .. Misses : q = moe.q
  BY <1>1, BatchItems, MissesFit DEF BatchOK
<1>3. q \in Scratch
  BY <1>1, <1>2, MissesFit
<1>4. PICK k \in Keys : k = Current
  BY <1>1, <1>2, ItemFound DEF Current
<1>5. PICK size \in Caps : size = ExpertSize[Current.expert]
  BY <1>4 DEF Keys, Caps
<1>6. k # Nowhere
  BY StreamAssumption
<1>7. NoSlab \notin Slabs /\ ws[q] \in ESlots
  BY <1>3, SlabTypes
<1>8. CASE Fits(q, size)
  <2>1. ws[q].slab \in Slabs
    BY <1>7, <1>8 DEF Fits, ESlots, EmptySlot
  <2>2. ws' = ws /\ bytes' = [bytes EXCEPT ![ws[q].slab] = k]
    BY <1>2, <1>4, <1>5, <1>8 DEF Load, Current
  <2>3. BuffersTyped'
    BY <1>1, <2>1, <2>2 DEF BuffersTyped
  <2>4. /\ \A b \in Slabs : b # ws[q].slab => bytes'[b] = bytes[b]
        /\ bytes'[ws[q].slab] = k
    BY <2>1, <2>2 DEF BuffersTyped
  <2>5. bytes[ws[q].slab] # Nowhere
    BY <1>3, <2>1 DEF SlabsOK
  <2>6. \A b \in Slabs : bytes'[b] = Nowhere <=> bytes[b] = Nowhere
    BY <1>6, <2>4, <2>5
  <2>7. SlabsOK'
    BY <1>1, <2>2, <2>6, SlabsStay DEF SlabOf
  <2> QED
    BY <1>1, <1>2, <1>4, <1>7, <2>1, <2>2, <2>3, <2>4, <2>7
<1>9. CASE ~Fits(q, size)
  <2>1. PICK b \in FreeSlabs : b = Fresh(FreeSlabs)
    <3>1. FreeSlabs # {}
      BY <1>2, <1>5, <1>9 DEF Load, Current
    <3> QED
      BY <3>1 DEF Fresh
  <2>2. /\ bytes' = [Freed({ws[q].slab}) EXCEPT ![b] = k]
        /\ ws' = [ws EXCEPT ![q] = [slab |-> b, cap |-> size]]
    BY <1>2, <1>4, <1>5, <1>9, <2>1 DEF Load, Current
  <2>3. b \in Slabs /\ bytes[b] = Nowhere
    BY <2>1 DEF FreeSlabs
  <2>4. /\ \A c \in Slabs : bytes'[c] = IF c = b THEN k
                                        ELSE IF c = ws[q].slab THEN Nowhere ELSE bytes[c]
        /\ bytes' \in [Slabs -> Keys \cup {Spare, Nowhere}]
    BY <2>2, <2>3 DEF BuffersTyped, Freed
  <2>5. ws'[q] = [slab |-> b, cap |-> size] /\ \A r \in Scratch \ {q} : ws'[r] = ws[r]
    BY <1>3, <2>2 DEF BuffersTyped
  <2>6. [slab |-> b, cap |-> size] \in ESlots
    BY <2>3 DEF ESlots
  <2>7. BuffersTyped'
    BY <1>1, <2>2, <2>4, <2>6 DEF BuffersTyped
  <2>8. \A c \in Slabs : bytes'[c] = Nowhere <=> c # b /\ (bytes[c] = Nowhere \/ c = ws[q].slab)
    BY <1>6, <2>4
  <2>9. \A p \in Payloads : SlabOf(p)' = SlabOf(p)
    BY <1>1 DEF SlabOf
  <2>10. SlabsOK'
    BY <1>3, <2>3, <2>5, <2>8, <2>9, SlabReplaced
  <2> QED
    BY <1>1, <1>2, <1>4, <1>7, <2>3, <2>4, <2>5, <2>7, <2>10
<1> QED
  BY <1>8, <1>9

\* What becomes of the slabs when a miss is offered: handle and scratch slot exchange theirs.
LEMMA OfferedSlabs ==
    ASSUME StreamInv, OfferPooled \/ OfferNew
    PROVE  \E p \in Payloads :
             /\ Offer(moe.q, p) /\ p \notin lent
             /\ BuffersTyped' /\ SlabsOK' /\ bytes' = bytes
             /\ SlabOf(p)' = ws[moe.q].slab
             /\ \A r \in Payloads \ {p} : SlabOf(r)' = SlabOf(r)
             /\ \A r \in Scratch \ {moe.q} : ws'[r] = ws[r]
<1> USE DEF StreamInv, StreamTypeOK
<1>1. PICK p \in Payloads : /\ Offer(moe.q, p)
                            /\ \/ pool # <<>> /\ p = pool[Len(pool)] /\ p \in Pooled
                               \/ pool = <<>> /\ p \notin Allocated
  BY OfferedHandle
<1>2. moe.at = "admit" /\ moe.q <= Misses
  BY DEF OfferPooled, OfferNew
<1>3. PICK q \in Scratch : q = moe.q
  BY <1>2, OfferIsAllowed
<1>4. slot' = [slot EXCEPT ![p] = ws[q]]
  BY <1>1, <1>3 DEF Offer
<1>5. ws[q] \in ESlots /\ None \notin ESlots
  BY SlabTypes, NoneIsNone
<1>6. SlabOf(p)' = ws[q].slab /\ \A r \in Payloads \ {p} : SlabOf(r)' = SlabOf(r)
  BY <1>4, <1>5 DEF SlabOf, BuffersTyped
<1>7. p \notin lent
  BY <1>1 DEF HandlesOK
<1>8. bytes' = bytes
  BY DEF OfferPooled, OfferNew
<1>9. /\ pool' \in Seq(Payloads)
      /\ \E e \in ESlots : ws' = [ws EXCEPT ![q] = e] /\ e.slab = SlabOf(p)
  <2>1. CASE OfferPooled
    <3>1. pool # <<>> /\ p = pool[Len(pool)] /\ p \in Pooled
      BY <1>1, <2>1 DEF OfferPooled
    <3>2. slot[p] # None
      BY <3>1 DEF HandlesOK, Allocated
    <3>3. slot[p] \in ESlots /\ slot[p].slab = SlabOf(p)
      BY <3>2, SlabTypes
    <3>4. ws' = [ws EXCEPT ![q] = slot[p]] /\ pool' = SubSeq(pool, 1, Len(pool) - 1)
      BY <1>3, <2>1, <3>1 DEF OfferPooled, LeftInScratch
    <3>5. pool' \in Seq(Payloads)
      BY <3>1, <3>4, PoolShrinks DEF BuffersTyped, HandlesOK, DistinctPool
    <3> QED
      BY <3>3, <3>4, <3>5
  <2>2. CASE OfferNew
    <3>1. slot[p] = None
      BY <1>1, <2>2 DEF OfferNew, Allocated
    <3>2. ws' = [ws EXCEPT ![q] = EmptySlot] /\ pool' = pool
      BY <1>3, <2>2 DEF OfferNew
    <3>3. EmptySlot \in ESlots /\ EmptySlot.slab = SlabOf(p)
      BY <3>1 DEF ESlots, EmptySlot, SlabOf
    <3> QED
      BY <3>2, <3>3 DEF BuffersTyped
  <2> QED
    BY <2>1, <2>2
<1>10. PICK e \in ESlots : ws' = [ws EXCEPT ![q] = e] /\ e.slab = SlabOf(p)
  BY <1>9
<1>11. ws'[q].slab = SlabOf(p) /\ \A r \in Scratch \ {q} : ws'[r] = ws[r]
  BY <1>10 DEF BuffersTyped
<1>12. BuffersTyped'
  BY <1>4, <1>5, <1>8, <1>9, <1>10 DEF BuffersTyped
<1>13. SlabsOK'
  BY <1>6, <1>8, <1>11, SlabsSwapped
<1> QED
  BY <1>1, <1>3, <1>6, <1>7, <1>8, <1>11, <1>12, <1>13

\* What becomes of the slabs when an offer was refused: they are exchanged back, and the handle
\* goes to the pool or is freed.
LEMMA RefusedSlabs ==
    ASSUME StreamInv, Refused
    PROVE  /\ BuffersTyped' /\ SlabsOK' /\ moe.q \in 1 .. Misses
           /\ \A r \in Payloads \ {moe.handle} : SlabOf(r)' = SlabOf(r)
           /\ \A r \in Scratch \ {moe.q} : ws'[r] = ws[r]
           /\ \A b \in Slabs : b # ws[moe.q].slab /\ b # SlabOf(moe.handle) => bytes'[b] = bytes[b]
<1> USE DEF StreamInv, StreamTypeOK
<1>1. moe.at = "offered" /\ moe.at \in Batching
  BY DEF Refused, Answered, Batching
<1>2. PICK q \in 1 .. Misses : q = moe.q
  BY <1>1, BatchItems, MissesFit DEF BatchOK
<1>3. q \in Scratch
  BY <1>1, <1>2, MissesFit
<1>4. PICK p \in Payloads : p = moe.handle
  BY <1>1 DEF BatchOK
<1>5. slot[p] # None /\ p \notin Pooled
  BY <1>1, <1>4 DEF HandlesOK, Allocated, Offered
<1>6. /\ slot[p] \in ESlots /\ SlabOf(p) = slot[p].slab /\ ws[q] \in ESlots /\ None \notin ESlots
      /\ NoSlab \notin Slabs
  BY <1>3, <1>5, SlabTypes, NoneIsNone
<1>7. SlabOf(p) \in Slabs /\ bytes[SlabOf(p)] # Nowhere
  <2>1. SlabOf(p) # NoSlab
    BY <1>1, <1>4 DEF ContentsOK, OfferHolds, HandleHolds
  <2>2. SlabOf(p) \in Slabs
    BY <2>1, SlabTypes
  <2> QED
    BY <2>2 DEF SlabsOK
<1>8. ws[q].slab # SlabOf(p)
  BY <1>3, <1>6, <1>7 DEF SlabsOK
<1>9. ws' = [ws EXCEPT ![q] = slot[p]]
  BY <1>2, <1>4 DEF Refused
<1>10. ws'[q].slab = SlabOf(p) /\ \A r \in Scratch \ {q} : ws'[r] = ws[r]
  BY <1>3, <1>6, <1>9 DEF BuffersTyped
<1>11. CASE PoolTakes
  <2>1. /\ pool' = Append(pool, p) /\ slot' = [slot EXCEPT ![p] = ws[q]]
        /\ bytes' = [bytes EXCEPT ![SlabOf(p)] = Spare]
    BY <1>2, <1>4, <1>6, <1>11 DEF Refused, TakenBack
  <2>2. /\ \A b \in Slabs \ {SlabOf(p)} : bytes'[b] = bytes[b]
        /\ bytes'[SlabOf(p)] = Spare /\ bytes' \in [Slabs -> Keys \cup {Spare, Nowhere}]
    BY <1>7, <2>1 DEF BuffersTyped
  <2>3. pool' \in Seq(Payloads)
    BY <1>5, <2>1, PoolGrows DEF BuffersTyped, HandlesOK, DistinctPool
  <2>4. BuffersTyped'
    BY <1>6, <1>9, <2>1, <2>2, <2>3 DEF BuffersTyped
  <2>5. SlabOf(p)' = ws[q].slab /\ \A r \in Payloads \ {p} : SlabOf(r)' = SlabOf(r)
    BY <1>6, <2>1 DEF SlabOf, BuffersTyped
  <2>6. \A b \in Slabs : bytes'[b] = Nowhere <=> bytes[b] = Nowhere
    BY <1>7, <2>2, StreamAssumption
  <2>7. SlabsOK'
    BY <1>3, <1>10, <2>5, <2>6, SlabsSwapped
  <2> QED
    BY <1>2, <1>4, <1>10, <2>2, <2>4, <2>5, <2>7
<1>12. CASE ~PoolTakes
  <2>1. /\ pool' = pool /\ slot' = [slot EXCEPT ![p] = None]
        /\ bytes' = [Freed({ws[q].slab}) EXCEPT ![SlabOf(p)] = Spare]
    BY <1>2, <1>4, <1>6, <1>12 DEF Refused
  <2>2. /\ \A b \in Slabs : bytes'[b] = IF b = SlabOf(p) THEN Spare
                                        ELSE IF b = ws[q].slab THEN Nowhere ELSE bytes[b]
        /\ bytes' \in [Slabs -> Keys \cup {Spare, Nowhere}]
    BY <1>7, <2>1 DEF BuffersTyped, Freed
  <2>3. BuffersTyped'
    BY <1>6, <1>9, <2>1, <2>2 DEF BuffersTyped
  <2>4. SlabOf(p)' = NoSlab /\ \A r \in Payloads \ {p} : SlabOf(r)' = SlabOf(r)
    BY <2>1 DEF SlabOf, BuffersTyped
  <2>5. \A c \in Slabs : bytes'[c] = Nowhere <=> bytes[c] = Nowhere \/ c = ws[q].slab
    BY <1>7, <1>8, <2>2, StreamAssumption
  <2>6. SlabsOK'
    BY <1>3, <1>10, <2>4, <2>5, SlabDiscarded
  <2> QED
    BY <1>2, <1>4, <1>10, <2>2, <2>3, <2>4, <2>6
<1> QED
  BY <1>11, <1>12

\* Every step keeps every slab in one place.
LEMMA BuffersStep ==
    ASSUME PromiseInv, OwnedInv, StreamInv, [StreamNext]_allVars
    PROVE  BuffersTyped' /\ SlabsOK'
<1> USE DEF StreamInv, StreamTypeOK
<1>1. ASSUME UNCHANGED streamVars PROVE BuffersTyped' /\ SlabsOK'
  <2>1. slot' = slot /\ pool' = pool /\ ws' = ws /\ bytes' = bytes
    BY <1>1 DEF streamVars
  <2> QED
    BY <2>1 DEF BuffersTyped, SlabsOK, SlabOf
<1>2. CASE CacheStep /\ (MakeRoomEvict \/ PressureEvict)
  <2>1. \E p \in Payloads : /\ p \in lent /\ GiveBack(p)
                            /\ slot' = [slot EXCEPT ![p] = KeptIn(p)] /\ ws' = ws
    BY <1>2, Releases
  <2> QED
    BY <2>1, EvictedSlabs
<1>3. CASE CacheStep /\ ~(MakeRoomEvict \/ PressureEvict)
  BY <1>1, <1>3, Answers
<1>4. CASE PressureServed \/ TurnEnds
  BY <1>4, TrimmedSlabs DEF PressureServed, TurnEnds
<1>5. CASE Load
  BY <1>5, LoadedSlab
<1>6. CASE OfferPooled \/ OfferNew
  BY <1>6, OfferedSlabs
<1>7. CASE Refused
  BY <1>7, RefusedSlabs
<1>8. ASSUME \/ \E l \in Layers : StartLayer(l)
             \/ \E target \in PressureTargets : ServicePressure(target)
             \/ NoPressure \/ \E r \in Routings : Route(r)
             \/ WholeLayer \/ LookUp \/ LookedUp \/ Loaded \/ Compute \/ Admitted \/ NextBatch
             \/ UNCHANGED allVars
      PROVE  BuffersTyped' /\ SlabsOK'
  BY <1>1, <1>8 DEF StartLayer, ServicePressure, NoPressure, Route, WholeLayer, LookUp, LookedUp,
     Loaded, Compute, Admitted, NextBatch, allVars
<1> QED
  BY <1>2, <1>3, <1>4, <1>5, <1>6, <1>7, <1>8 DEF StreamNext, LayerStep

-----------------------------------------------------------------------------
(* The contents of the slabs.                                              *)

\* The handle of a resident entry is lent to the cache, once.
LEMMA CachedHandles ==
    ASSUME PromiseInv, OwnedInv, StreamInv
    PROVE  \A s \in Occupied :
             /\ s \in Slots /\ entries[s].base \in lent /\ entries[s].base \in Payloads
             /\ entries[s].base \notin Pooled
             /\ \A t \in Slots : entries[t].base = entries[s].base => t = s
<1> SUFFICES ASSUME NEW s \in Occupied
             PROVE  /\ s \in Slots /\ entries[s].base \in lent /\ entries[s].base \in Payloads
                    /\ entries[s].base \notin Pooled
                    /\ \A t \in Slots : entries[t].base = entries[s].base => t = s
  OBVIOUS
<1>1. s \in Slots /\ entries[s].base # NoPayload
  BY DEF Occupied
<1>2. entries[s].base \in lent
  BY <1>1 DEF OwnedInv, Held
<1>3. lent \subseteq Payloads
  BY DEF PromiseInv, BooksInv, TypeOK, ResidentType
<1> QED
  BY <1>1, <1>2, <1>3 DEF OwnedInv, PlanesApart, StreamInv, HandlesOK

\* A slab in use is allocated, and in one place.
LEMMA InUse ==
    ASSUME StreamInv
    PROVE  /\ \A p \in Payloads : SlabOf(p) # NoSlab =>
                /\ SlabOf(p) \in Slabs /\ bytes[SlabOf(p)] # Nowhere
                /\ \A r \in Payloads : SlabOf(r) = SlabOf(p) => r = p
                /\ \A q \in Scratch : ws[q].slab # SlabOf(p)
           /\ \A q \in Scratch : ws[q].slab # NoSlab =>
                /\ ws[q].slab \in Slabs /\ bytes[ws[q].slab] # Nowhere
                /\ \A r \in Scratch : ws[r].slab = ws[q].slab => r = q
  BY SlabTypes DEF StreamInv, StreamTypeOK, SlabsOK

\* What a handle or a scratch slot holds stays, when its slab and the bytes there do.
LEMMA HandleKept ==
    ASSUME NEW p, NEW k, HandleHolds(p, k), SlabOf(p)' = SlabOf(p),
           bytes'[SlabOf(p)] = bytes[SlabOf(p)]
    PROVE  HandleHolds(p, k)'
  BY DEF HandleHolds

\* The same for a scratch slot.
LEMMA ScratchKept ==
    ASSUME NEW q, NEW k, ScratchHolds(q, k), ws'[q] = ws[q],
           bytes'[ws[q].slab] = bytes[ws[q].slab]
    PROVE  ScratchHolds(q, k)'
  BY DEF ScratchHolds

\* A hit renews its entry and leaves what every entry holds.
LEMMA HitKeepsPlanes ==
    ASSUME entries \in [Slots -> Entry], NEW k, Get(k)
    PROVE  \A t \in Slots : SamePlanes(entries[t], entries'[t])
<1>0. \E s \in Slots : entries' = [Rescaled EXCEPT ![s].last_access = NextClock,
                                                   ![s].hot = @ \/ Policy = "2Q"]
  BY DEF Get, Holding, Occupied
<1>2. ASSUME NEW s \in Slots, entries' = [Rescaled EXCEPT ![s].last_access = NextClock,
                                                          ![s].hot = @ \/ Policy = "2Q"]
      PROVE  \A t \in Slots : SamePlanes(entries[t], entries'[t])
  <2>1. Rescaled \in [Slots -> Entry] /\ \A t \in Slots : SamePlanes(entries[t], Rescaled[t])
    BY RescaledType, RescaledPlanes
  <2>2. \A t \in Slots : SamePlanes(Rescaled[t], entries'[t])
    BY <1>2, <2>1 DEF Entry, SamePlanes
  <2> QED
    BY <2>1, <2>2 DEF SamePlanes
<1> QED
  BY <1>0, <1>2

\* Every resident entry keeps its expert.
LEMMA CachedStep ==
    ASSUME PromiseInv, OwnedInv, StreamInv, [StreamNext]_allVars
    PROVE  CachedHold'
<1> USE DEF StreamInv, StreamTypeOK
<1>1. \A s \in Occupied : /\ s \in Slots /\ entries[s].base \in lent
                            /\ entries[s].base \in Payloads /\ entries[s].base \notin Pooled
                            /\ HandleHolds(entries[s].base, entries[s].key)
                            /\ SlabOf(entries[s].base) # NoSlab
  BY CachedHandles DEF ContentsOK, CachedHold, HandleHolds
<1>2. ASSUME \A s \in Slots : SamePlanes(entries[s], entries'[s]),
             \A p \in lent : SlabOf(p)' = SlabOf(p),
             \A p \in lent : SlabOf(p) # NoSlab => bytes'[SlabOf(p)] = bytes[SlabOf(p)]
      PROVE  CachedHold'
  <2> SUFFICES ASSUME NEW s \in Occupied' PROVE HandleHolds(entries[s].base, entries[s].key)'
    BY DEF CachedHold
  <2>1. PICK p, k : p = entries[s].base /\ k = entries[s].key
    OBVIOUS
  <2>2. s \in Occupied /\ entries'[s].base = p /\ entries'[s].key = k
    BY <1>2, <2>1 DEF Occupied, SamePlanes
  <2>3. HandleHolds(p, k) /\ p \in lent /\ SlabOf(p) # NoSlab
    BY <1>1, <2>1, <2>2
  <2>4. HandleHolds(p, k)'
    BY <1>2, <2>3, HandleKept
  <2> QED
    BY <2>2, <2>4
<1>3. ASSUME UNCHANGED streamVars, \A s \in Slots : SamePlanes(entries[s], entries'[s])
      PROVE  CachedHold'
  BY <1>2, <1>3 DEF streamVars, SlabOf
<1>4. \A e : SamePlanes(e, e)
  BY DEF SamePlanes
<1>5. CASE CacheStep /\ (MakeRoomEvict \/ PressureEvict)
  <2>1. PICK s \in Occupied : LET p == entries[s].base IN
             /\ p \in lent /\ p \in Payloads /\ entries' = [entries EXCEPT ![s] = EmptyEntry]
             /\ GiveBack(p) /\ slot' = [slot EXCEPT ![p] = KeptIn(p)] /\ ws' = ws
    BY <1>5, Releases
  <2>2. PICK p \in Payloads : p = entries[s].base
    BY <2>1
  <2>3. /\ \A r \in Payloads \ {p} : SlabOf(r)' = SlabOf(r)
        /\ \A b \in Slabs \ {SlabOf(p)} : bytes'[b] = bytes[b]
    BY <2>1, <2>2, EvictedSlabs
  <2> SUFFICES ASSUME NEW t \in Occupied' PROVE HandleHolds(entries[t].base, entries[t].key)'
    BY DEF CachedHold
  <2>4. t \in Occupied /\ t # s /\ entries'[t] = entries[t]
    BY <2>1 DEF Occupied, EmptyEntry, PromiseInv, BooksInv, TypeOK, ResidentType
  <2>5. PICK r, k : r = entries[t].base /\ k = entries[t].key
    OBVIOUS
  <2>6. r \in Payloads \ {p} /\ HandleHolds(r, k) /\ SlabOf(r) # NoSlab
    BY <1>1, <2>2, <2>4, <2>5, CachedHandles
  <2>7. SlabOf(r) \in Slabs \ {SlabOf(p)}
    BY <2>6, InUse
  <2>8. HandleHolds(r, k)'
    BY <2>3, <2>6, <2>7, HandleKept
  <2> QED
    BY <2>4, <2>5, <2>8
<1>6. CASE CacheStep /\ ~(MakeRoomEvict \/ PressureEvict)
  <2>1. UNCHANGED streamVars
    BY <1>6, Answers
  <2>2. CASE entries' = entries
    BY <1>3, <1>4, <2>1, <2>2
  <2>3. CASE entries' # entries
    <3>1. call.phase = "make_room"
      BY <1>6, <2>3, Answers
    <3>2. PICK s \in Slots : /\ entries'[s].base = call.payload /\ entries'[s].key = call.key
                             /\ \A t \in Slots \ {s} : SamePlanes(entries[t], entries'[t])
      BY <1>6, <2>3, Answers
    <3>3. HandleHolds(call.payload, call.key)
      BY <3>1 DEF CallerOK, ContentsOK, OfferHolds
    <3>4. \A p, k : HandleHolds(p, k)' <=> HandleHolds(p, k)
      BY <2>1 DEF HandleHolds, SlabOf, streamVars
    <3> SUFFICES ASSUME NEW t \in Occupied' PROVE HandleHolds(entries[t].base, entries[t].key)'
      BY DEF CachedHold
    <3>5. PICK p, k : p = entries'[t].base /\ k = entries'[t].key
      OBVIOUS
    <3>6. HandleHolds(p, k)
      <4>1. CASE t = s
        BY <3>2, <3>3, <3>5, <4>1
      <4>2. CASE t # s
        <5>1. t \in Occupied /\ p = entries[t].base /\ k = entries[t].key
          BY <3>2, <3>5, <4>2 DEF Occupied, SamePlanes
        <5> QED
          BY <1>1, <5>1
      <4> QED
        BY <4>1, <4>2
    <3> QED
      BY <3>4, <3>5, <3>6
  <2> QED
    BY <2>2, <2>3
<1>7. CASE PressureServed \/ TurnEnds
  <2>1. TrimPool /\ entries' = entries
    BY <1>7 DEF PressureServed, TurnEnds, vars
  <2>2. /\ \A r \in Payloads \ Pooled : SlabOf(r)' = SlabOf(r)
        /\ \A b \in Slabs : (\A p \in Pooled : SlabOf(p) # b) => bytes'[b] = bytes[b]
    BY <2>1, TrimmedSlabs
  <2>3. Pooled \subseteq Payloads /\ lent \subseteq Payloads \ Pooled
    BY DEF HandlesOK, Allocated
  <2>4. \A p \in lent : SlabOf(p) # NoSlab => bytes'[SlabOf(p)] = bytes[SlabOf(p)]
    BY <2>2, <2>3, InUse
  <2> QED
    BY <1>2, <1>4, <2>1, <2>2, <2>3, <2>4
<1>8. CASE Load
  <2>1. /\ slot' = slot /\ entries' = entries /\ moe.at = "load" /\ moe.q \in 1 .. Misses
        /\ \A b \in Slabs : b # ws[moe.q].slab /\ bytes[b] # Nowhere => bytes'[b] = bytes[b]
    BY <1>8, LoadedSlab DEF Load, vars
  <2>2. PICK q \in Scratch : q = moe.q
    BY <2>1, MissesFit DEF Batching
  <2>3. lent \subseteq Payloads
    BY DEF HandlesOK, Allocated
  <2>4. \A p \in lent : SlabOf(p) # NoSlab => bytes'[SlabOf(p)] = bytes[SlabOf(p)]
    BY <2>1, <2>2, <2>3, InUse
  <2> QED
    BY <1>2, <1>4, <2>1, <2>4 DEF SlabOf
<1>9. CASE OfferPooled \/ OfferNew
  <2>1. PICK p \in Payloads :
             /\ Offer(moe.q, p) /\ p \notin lent /\ bytes' = bytes
             /\ \A r \in Payloads \ {p} : SlabOf(r)' = SlabOf(r)
    BY <1>9, OfferedSlabs
  <2>2. entries' = entries
    BY <2>1, Offers
  <2>3. lent \subseteq Payloads
    BY DEF HandlesOK, Allocated
  <2> QED
    BY <1>2, <1>4, <2>1, <2>2, <2>3
<1>10. CASE Refused
  <2>1. /\ moe.at = "offered" /\ entries' = entries /\ moe.handle \notin lent
        /\ moe.handle \in Payloads
    BY <1>10 DEF Refused, Answered, CallerOK, BatchOK, vars
  <2>2. /\ moe.q \in 1 .. Misses
        /\ \A r \in Payloads \ {moe.handle} : SlabOf(r)' = SlabOf(r)
        /\ \A b \in Slabs : b # ws[moe.q].slab /\ b # SlabOf(moe.handle) => bytes'[b] = bytes[b]
    BY <1>10, RefusedSlabs
  <2>3. PICK q \in Scratch, p \in Payloads : q = moe.q /\ p = moe.handle
    BY <2>1, <2>2, MissesFit DEF Batching
  <2>4. lent \subseteq Payloads
    BY DEF HandlesOK, Allocated
  <2>5. \A r \in lent : SlabOf(r) # NoSlab => bytes'[SlabOf(r)] = bytes[SlabOf(r)]
    BY <2>1, <2>2, <2>3, <2>4, InUse
  <2> QED
    BY <1>2, <1>4, <2>1, <2>2, <2>4, <2>5
<1>11. CASE LookUp
  <2>1. UNCHANGED streamVars
    BY <1>11 DEF LookUp
  <2>2. \A s \in Slots : SamePlanes(entries[s], entries'[s])
    <3>1. entries' = entries \/ \E k : Get(k)
      BY <1>11 DEF LookUp, vars
    <3>2. CASE \E k : Get(k)
      BY <3>2, HitKeepsPlanes DEF PromiseInv, BooksInv, TypeOK, ResidentType
    <3> QED
      BY <1>4, <3>1, <3>2
  <2> QED
    BY <1>3, <2>1, <2>2
<1>12. ASSUME \/ \E l \in Layers : StartLayer(l)
              \/ \E target \in PressureTargets : ServicePressure(target)
              \/ NoPressure \/ \E r \in Routings : Route(r)
              \/ WholeLayer \/ LookedUp \/ Loaded \/ Compute \/ Admitted \/ NextBatch
              \/ UNCHANGED allVars
       PROVE  CachedHold'
  <2>1. UNCHANGED streamVars /\ entries' = entries
    BY <1>12 DEF StartLayer, ServicePressure, NoPressure, Route, WholeLayer, LookedUp, Loaded,
       Compute, Admitted, NextBatch, allVars, vars, ApplyPressure, residentVars
  <2> QED
    BY <1>3, <1>4, <2>1
<1> QED
  BY <1>5, <1>6, <1>7, <1>8, <1>9, <1>10, <1>11, <1>12 DEF StreamNext, LayerStep

\* What a layer reads stays as it was read, until it was computed and offered.
LEMMA HeldStep ==
    ASSUME PromiseInv, OwnedInv, StreamInv, [StreamNext]_allVars
    PROVE  HitsHold' /\ MissesHold' /\ OfferHolds'
<1> USE DEF StreamInv, StreamTypeOK
<1>1. lent \subseteq Payloads
  BY DEF PromiseInv, BooksInv, TypeOK, ResidentType
<1>2. ASSUME moe'.at \notin Batching PROVE HitsHold' /\ MissesHold' /\ OfferHolds'
  BY <1>2 DEF HitsHold, MissesHold, OfferHolds, Batching
<1>3. ASSUME moe'.at = "lookup", moe'.use = <<>> PROVE HitsHold' /\ MissesHold' /\ OfferHolds'
  <2>1. Batched' = {}
    BY <1>3 DEF Batched
  <2> QED
    BY <1>3, <2>1 DEF HitsHold, MissesHold, OfferHolds
<1>4. ASSUME UNCHANGED streamVars
      PROVE  /\ \A p, k : HandleHolds(p, k)' <=> HandleHolds(p, k)
             /\ \A q, k : ScratchHolds(q, k)' <=> ScratchHolds(q, k)
  BY <1>4 DEF HandleHolds, ScratchHolds, SlabOf, streamVars
<1>5. ASSUME moe' = moe
      PROVE  Batched' = Batched /\ Current' = Current /\ (\A j : Missed(j)' <=> Missed(j))
             /\ \A q : Read(q)' <=> Read(q)
  <2>1. Item(moe.q)' = Item(moe.q)
    BY <1>5 DEF Item
  <2> QED
    BY <1>5, <2>1, SameLookups DEF Read, Current
<1>6. \A at : moe.at = at /\ at # "idle" => moe \in LayerState
  BY DEF LayerTyped, Idling
<1>7. CASE CacheStep /\ (MakeRoomEvict \/ PressureEvict)
  <2>1. PICK s \in Occupied : LET p == entries[s].base IN
             /\ p \in lent /\ p \in Payloads /\ GiveBack(p)
             /\ slot' = [slot EXCEPT ![p] = KeptIn(p)] /\ ws' = ws /\ moe' = moe
    BY <1>7, Releases
  <2>2. PICK p \in Payloads : p = entries[s].base
    BY <2>1
  <2>3. /\ \A r \in Payloads \ {p} : SlabOf(r)' = SlabOf(r)
        /\ \A b \in Slabs \ {SlabOf(p)} : bytes'[b] = bytes[b]
        /\ ws' = ws /\ moe' = moe /\ p \in lent
    BY <2>1, <2>2, EvictedSlabs
  <2>4. moe.at = "pressed" \/ (moe.at = "offered" /\ moe.handle \notin lent)
    BY <1>7 DEF MakeRoomEvict, PressureEvict, CallerOK
  <2>5. CASE moe.at = "pressed"
    BY <1>2, <2>3, <2>5 DEF Batching
  <2>6. CASE moe.at = "offered" /\ moe.handle \notin lent
    <3>1. moe.at \in Batching /\ moe'.at = "offered" /\ moe.handle \in Payloads
      BY <2>3, <2>6 DEF Batching, BatchOK
    <3>2. ASSUME NEW j \in Batched, Missed(j), Read(moe.use[j].q)
          PROVE  ScratchHolds(moe.use[j].q, moe.todo[j])'
      <4>1. PICK q, k : q \in Scratch /\ q = moe.use[j].q /\ k = moe.todo[j]
        BY <3>1, <3>2, MissesFit DEF BatchOK
      <4>2. ScratchHolds(q, k) /\ ws[q].slab # NoSlab
        BY <3>1, <3>2, <4>1 DEF ContentsOK, MissesHold, ScratchHolds
      <4>3. ws[q].slab \in Slabs /\ ws[q].slab # SlabOf(p)
        BY <4>1, <4>2, InUse
      <4>4. ScratchHolds(q, k)'
        BY <2>3, <4>2, <4>3, ScratchKept
      <4> QED
        BY <2>3, <4>1, <4>4
    <3>3. OfferHolds'
      <4>1. PICK r, k : r \in Payloads /\ r = moe.handle /\ k = Current
        BY <3>1
      <4>2. HandleHolds(r, k) /\ r # p /\ SlabOf(r) # NoSlab
        BY <2>3, <2>6, <4>1 DEF ContentsOK, OfferHolds, HandleHolds
      <4>3. SlabOf(r) \in Slabs \ {SlabOf(p)}
        BY <4>1, <4>2, InUse
      <4>4. HandleHolds(r, k)'
        BY <2>3, <4>1, <4>2, <4>3, HandleKept
      <4> QED
        BY <1>5, <2>3, <4>1, <4>4 DEF OfferHolds
    <3> QED
      BY <1>5, <2>3, <3>1, <3>2, <3>3 DEF HitsHold, MissesHold
  <2> QED
    BY <2>4, <2>5, <2>6
<1>8. ASSUME UNCHANGED streamVars, moe' = moe, lent \subseteq lent'
      PROVE  HitsHold' /\ MissesHold' /\ OfferHolds'
  BY <1>4, <1>5, <1>8 DEF ContentsOK, HitsHold, MissesHold, OfferHolds
<1>9. CASE CacheStep /\ ~(MakeRoomEvict \/ PressureEvict)
  BY <1>8, <1>9, Answers
<1>10. CASE \/ PressureServed \/ TurnEnds \/ NoPressure \/ WholeLayer
            \/ \E l \in Layers : StartLayer(l)
            \/ \E target \in PressureTargets : ServicePressure(target)
  <2>1. CASE PressureServed \/ NoPressure
            \/ \E target \in PressureTargets : ServicePressure(target)
    <3>1. moe \in LayerState
      BY <1>6, <2>1 DEF PressureServed, NoPressure, ServicePressure, ServesPressure
    <3>2. moe'.at \in {"pressed", "routed"}
      BY <2>1, <3>1 DEF PressureServed, NoPressure, ServicePressure, ServesPressure, LayerState
    <3> QED
      BY <1>2, <3>2 DEF Batching
  <2>2. CASE TurnEnds \/ WholeLayer \/ \E l \in Layers : StartLayer(l)
    <3>1. moe'.at \in {"idle", "start"}
      BY <2>2 DEF TurnEnds, WholeLayer, StartLayer, Idling
    <3> QED
      BY <1>2, <3>1 DEF Batching
  <2> QED
    BY <1>10, <2>1, <2>2
<1>11. ASSUME NEW r \in Routings, Route(r) PROVE HitsHold' /\ MissesHold' /\ OfferHolds'
  <2>1. moe \in LayerState /\ moe.use = <<>>
    BY <1>6, <1>11 DEF Route, BatchOK
  <2>2. moe'.at = "lookup" /\ moe'.use = <<>>
    BY <1>11, <2>1 DEF Route, LayerState
  <2> QED
    BY <1>3, <2>2
<1>12. CASE NextBatch
  <2>1. moe \in LayerState
    BY <1>6, <1>12 DEF NextBatch
  <2>2. moe' = Idling \/ (moe'.at = "lookup" /\ moe'.use = <<>>)
    BY <1>12, <2>1 DEF NextBatch, LayerState
  <2> QED
    BY <1>2, <1>3, <2>2 DEF Idling, Batching
<1>13. CASE LookedUp \/ Loaded \/ Compute \/ Admitted
  <2>1. /\ moe \in LayerState /\ moe.at \in Batching /\ moe.q \in Nat
        /\ UNCHANGED streamVars /\ lent' = lent
    BY <1>6, <1>13 DEF LookedUp, Loaded, Compute, Admitted, Answered, LayerState, Batching, vars
  <2>2. moe'.use = moe.use /\ moe'.todo = moe.todo
    BY <1>13, <2>1 DEF LookedUp, Loaded, Compute, Admitted, LayerState
  <2>3. /\ LookedUp => moe.at = "lookup" /\ moe'.at = "load" /\ moe'.q = 1
        /\ Loaded   => moe.at = "load" /\ moe.q > Misses /\ moe'.at = "math"
        /\ Compute  => moe.at = "math" /\ moe'.at = "admit" /\ moe'.q = 1
        /\ Admitted => moe.at = "offered" /\ moe'.at = "admit" /\ moe'.q = moe.q + 1
    <3>1. CASE LookedUp
      BY <2>1, <3>1 DEF LookedUp, Loaded, Compute, Admitted, Answered, LayerState
    <3>2. CASE Loaded
      BY <2>1, <3>2 DEF LookedUp, Loaded, Compute, Admitted, Answered, LayerState
    <3>3. CASE Compute
      BY <2>1, <3>3 DEF LookedUp, Loaded, Compute, Admitted, Answered, LayerState
    <3>4. CASE Admitted
      BY <2>1, <3>4 DEF LookedUp, Loaded, Compute, Admitted, Answered, LayerState
    <3> QED
      BY <1>13, <3>1, <3>2, <3>3, <3>4
  <2>4. Batched' = Batched /\ \A j : Missed(j)' <=> Missed(j)
    BY <2>2, SameLookups
  <2>5. \A n \in 1 .. Misses : Read(n)' => Read(n)
    BY <1>13, <2>1, <2>3, MissesFit DEF Read
  <2>6. HitsHold' /\ OfferHolds'
    BY <1>4, <1>13, <2>1, <2>2, <2>3, <2>4 DEF ContentsOK, HitsHold, OfferHolds
  <2>7. MissesHold'
    <3> SUFFICES ASSUME NEW j \in Batched, Missed(j), Read(moe.use[j].q)'
                 PROVE  ScratchHolds(moe.use[j].q, moe.todo[j])'
      BY <2>4 DEF MissesHold
    <3>1. PICK n, k : n \in 1 .. Misses /\ n = moe.use[j].q /\ k = moe.todo[j]
      BY <2>1 DEF BatchOK
    <3>2. ScratchHolds(n, k)
      BY <2>1, <2>2, <2>5, <3>1 DEF ContentsOK, MissesHold
    <3> QED
      BY <1>4, <2>1, <2>2, <3>1, <3>2
  <2> QED
    BY <2>6, <2>7
<1>14. CASE LookUp
  <2>1. /\ moe.at = "lookup" /\ moe.at \in Batching /\ moe \in LayerState
        /\ moe.use \in Seq(Uses) /\ Len(moe.use) \in Nat
        /\ UNCHANGED streamVars
    BY <1>14, BatchItems DEF LookUp, Batching
  <2>2. PICK n, k : n \in Nat /\ n = Len(moe.use) /\ k = moe.todo[n + 1]
    BY <2>1
  <2>3. lent' = lent
    BY <1>14 DEF LookUp, Get, vars
  <2>4. \E u : /\ moe' = [moe EXCEPT !.use = Append(@, u)]
               /\ u.from # "scratch" => u.handle \in lent /\ HandleHolds(u.handle, k)
    <3>1. CASE Holding(k) # {}
      <4>1. PICK s \in Holding(k) : moe' = [moe EXCEPT !.use =
                                        Append(@, [from |-> "cache", handle |-> entries[s].base])]
        BY <1>14, <2>2, <3>1 DEF LookUp
      <4>2. s \in Occupied /\ entries[s].key = k
        BY DEF Holding
      <4>3. entries[s].base \in lent /\ HandleHolds(entries[s].base, k)
        BY <4>2, CachedHandles DEF ContentsOK, CachedHold
      <4> DEFINE v == [from |-> "cache", handle |-> entries[s].base]
      <4>4. /\ v.from # "scratch" /\ v.handle = entries[s].base
            /\ moe' = [moe EXCEPT !.use = Append(@, v)]
        BY <4>1
      <4> HIDE DEF v
      <4> QED
        BY <4>3, <4>4
    <3>2. CASE Holding(k) = {}
      <4>1. moe' = [moe EXCEPT !.use = Append(@, [from |-> "scratch", q |-> Misses + 1])]
        BY <1>14, <2>2, <3>2 DEF LookUp, Get
      <4> DEFINE v == [from |-> "scratch", q |-> Misses + 1]
      <4>2. v.from = "scratch" /\ moe' = [moe EXCEPT !.use = Append(@, v)]
        BY <4>1
      <4> HIDE DEF v
      <4> QED
        BY <4>2
    <3> QED
      BY <3>1, <3>2
  <2>5. PICK u : /\ moe' = [moe EXCEPT !.use = Append(@, u)]
                 /\ u.from # "scratch" => u.handle \in lent /\ HandleHolds(u.handle, k)
    BY <2>4
  <2>6. moe'.use = Append(moe.use, u) /\ moe'.todo = moe.todo /\ moe'.at = "lookup"
    BY <2>1, <2>5 DEF LayerState
  <2>7. /\ moe'.use[n + 1] = u /\ \A j \in 1 .. n : moe'.use[j] = moe.use[j]
        /\ Len(moe'.use) = n + 1
    BY <2>1, <2>2, <2>6
  <2>8. HitsHold'
    <3> SUFFICES ASSUME NEW j \in Batched', ~Missed(j)'
                 PROVE  (moe.use[j].handle \in lent /\ HandleHolds(moe.use[j].handle, moe.todo[j]))'
      BY DEF HitsHold
    <3>1. PICK p, c, v : v = moe'.use[j] /\ p = v.handle /\ c = moe'.todo[j]
      OBVIOUS
    <3>2. v.from # "scratch"
      BY <3>1 DEF Missed
    <3>3. p \in lent /\ HandleHolds(p, c)
      <4>1. CASE j = n + 1
        BY <2>2, <2>5, <2>6, <2>7, <3>1, <3>2, <4>1
      <4>2. CASE j \in 1 .. n
        <5>1. j \in Batched /\ v = moe.use[j] /\ c = moe.todo[j]
          BY <2>2, <2>6, <2>7, <3>1, <4>2 DEF Batched
        <5>2. ~Missed(j)
          BY <3>2, <5>1 DEF Missed
        <5> QED
          BY <2>1, <3>1, <5>1, <5>2 DEF ContentsOK, HitsHold
      <4> QED
        BY <2>2, <2>7, <4>1, <4>2 DEF Batched
    <3>4. HandleHolds(p, c)'
      BY <1>4, <2>1, <3>3
    <3> QED
      BY <2>3, <3>1, <3>3, <3>4
  <2>9. MissesHold' /\ OfferHolds'
    BY <2>6 DEF MissesHold, OfferHolds, Read
  <2> QED
    BY <2>8, <2>9
<1>15. CASE Load
  <2>1. moe.at = "load" /\ moe.at \in Batching /\ moe \in LayerState /\ lent' = lent
    BY <1>6, <1>15 DEF Load, Batching, vars
  <2>2. /\ slot' = slot /\ moe.q \in 1 .. Misses
        /\ ws'[moe.q].slab # NoSlab /\ bytes'[ws'[moe.q].slab] = Current
        /\ \A r \in Scratch \ {moe.q} : ws'[r] = ws[r]
        /\ \A b \in Slabs : b # ws[moe.q].slab /\ bytes[b] # Nowhere => bytes'[b] = bytes[b]
    BY <1>15, LoadedSlab
  <2>3. PICK q \in Scratch : q = moe.q
    BY <2>1, <2>2, MissesFit
  <2>4. /\ moe'.at = "load" /\ moe'.q = q + 1 /\ moe'.use = moe.use /\ moe'.todo = moe.todo
        /\ moe.q \in Nat
    <3>1. moe' = [moe EXCEPT !.q = @ + 1]
      BY <1>15 DEF Load
    <3> QED
      BY <2>1, <2>3, <3>1 DEF LayerState
  <2>5. Batched' = Batched /\ \A j : Missed(j)' <=> Missed(j)
    BY <2>4, SameLookups
  <2>6. HitsHold'
    <3> SUFFICES ASSUME NEW j \in Batched, ~Missed(j)
                 PROVE  (moe.use[j].handle \in lent /\ HandleHolds(moe.use[j].handle, moe.todo[j]))'
      BY <2>5 DEF HitsHold
    <3>1. moe.use[j].handle \in lent /\ HandleHolds(moe.use[j].handle, moe.todo[j])
      BY <2>1 DEF ContentsOK, HitsHold
    <3>2. PICK p, k : p \in Payloads /\ p = moe.use[j].handle /\ k = moe.todo[j]
      BY <1>1, <3>1
    <3>3. HandleHolds(p, k) /\ SlabOf(p) # NoSlab
      BY <3>1, <3>2 DEF HandleHolds
    <3>4. bytes'[SlabOf(p)] = bytes[SlabOf(p)] /\ SlabOf(p)' = SlabOf(p)
      <4>1. /\ SlabOf(p) \in Slabs /\ bytes[SlabOf(p)] # Nowhere
            /\ ws[q].slab # SlabOf(p)
        BY <3>2, <3>3, InUse
      <4> QED
        BY <2>2, <2>3, <4>1 DEF SlabOf
    <3>5. HandleHolds(p, k)'
      BY <3>3, <3>4, HandleKept
    <3> QED
      BY <2>1, <2>4, <3>1, <3>2, <3>5
  <2>7. MissesHold'
    <3> SUFFICES ASSUME NEW j \in Batched, Missed(j), Read(moe.use[j].q)'
                 PROVE  ScratchHolds(moe.use[j].q, moe.todo[j])'
      BY <2>5 DEF MissesHold
    <3>1. moe.use[j].q \in 1 .. Misses
      BY <2>1 DEF BatchOK
    <3>2. PICK r, k : r \in Scratch /\ r = moe.use[j].q /\ k = moe.todo[j]
      BY <2>1, <3>1, MissesFit
    <3>3. ScratchHolds(r, k)'
      <4>1. CASE r = q
        <5>1. k = Current
          BY <2>1, <2>3, <3>2, <4>1, ItemFound DEF Current
        <5> QED
          BY <2>2, <2>3, <4>1, <5>1 DEF ScratchHolds
      <4>2. CASE r # q
        <5>1. r < moe.q
          <6>1. r \in Nat /\ Read(r)'
            BY <2>4, <3>2, StreamAssumption DEF Scratch
          <6>2. r < q + 1
            BY <2>4, <6>1 DEF Read
          <6> QED
            BY <2>3, <2>4, <4>2, <6>1, <6>2
        <5>2. ScratchHolds(r, k) /\ ws[r].slab # NoSlab
          BY <2>1, <3>2, <5>1 DEF ContentsOK, MissesHold, Read, ScratchHolds
        <5>3. ws[r].slab \in Slabs /\ bytes[ws[r].slab] # Nowhere /\ ws[r].slab # ws[q].slab
          BY <3>2, <4>2, <5>2, InUse
        <5>4. ws'[r] = ws[r] /\ bytes'[ws[r].slab] = bytes[ws[r].slab]
          BY <2>2, <2>3, <3>2, <4>2, <5>3
        <5> QED
          BY <5>2, <5>4, ScratchKept
      <4> QED
        BY <4>1, <4>2
    <3> QED
      BY <2>4, <3>2, <3>3
  <2> QED
    BY <2>4, <2>6, <2>7 DEF OfferHolds
<1>16. CASE OfferPooled \/ OfferNew
  <2>1. /\ moe.at = "admit" /\ moe.at \in Batching /\ moe \in LayerState /\ moe.q <= Misses
    BY <1>6, <1>16 DEF OfferPooled, OfferNew, Batching
  <2>2. PICK p \in Payloads :
             /\ Offer(moe.q, p) /\ bytes' = bytes /\ SlabOf(p)' = ws[moe.q].slab
             /\ \A r \in Scratch \ {moe.q} : ws'[r] = ws[r]
    BY <1>16, OfferedSlabs
  <2>3. PICK q, c : q \in Scratch /\ q = moe.q /\ c = Current /\ q \in Nat
    BY <2>1, OfferIsAllowed
  <2>4. /\ moe'.at = "offered" /\ moe'.q = moe.q /\ moe'.handle = p
        /\ moe'.use = moe.use /\ moe'.todo = moe.todo
    BY <2>1, <2>2 DEF Offer, LayerState
  <2>5. Batched' = Batched /\ Current' = Current /\ \A j : Missed(j)' <=> Missed(j)
    <3>1. Item(moe.q)' = Item(moe.q)
      BY <2>4 DEF Item
    <3> QED
      BY <2>4, <3>1, SameLookups DEF Current
  <2>6. OfferHolds'
    <3>1. ScratchHolds(q, c)
      BY <2>1, <2>3, OfferIsAllowed
    <3>2. HandleHolds(p, c)'
      BY <2>2, <2>3, <3>1 DEF ScratchHolds, HandleHolds
    <3> QED
      BY <2>3, <2>4, <2>5, <3>2 DEF OfferHolds
  <2>7. MissesHold'
    <3> SUFFICES ASSUME NEW j \in Batched, Missed(j), Read(moe.use[j].q)'
                 PROVE  ScratchHolds(moe.use[j].q, moe.todo[j])'
      BY <2>5 DEF MissesHold
    <3>1. moe.use[j].q \in 1 .. Misses
      BY <2>1 DEF BatchOK
    <3>2. PICK r, k : r \in Scratch /\ r = moe.use[j].q /\ k = moe.todo[j] /\ r \in Nat
      BY <2>1, <3>1, MissesFit
    <3>3. r > q
      BY <2>3, <2>4, <3>2 DEF Read
    <3>4. ScratchHolds(r, k)
      BY <2>1, <2>3, <3>2, <3>3 DEF ContentsOK, MissesHold, Read
    <3>5. ScratchHolds(r, k)'
      BY <2>2, <2>3, <3>2, <3>3, <3>4, ScratchKept
    <3> QED
      BY <2>4, <3>2, <3>5
  <2> QED
    BY <2>4, <2>6, <2>7 DEF HitsHold
<1>17. CASE Refused
  <2>1. moe.at = "offered" /\ moe.at \in Batching /\ moe \in LayerState
    BY <1>6, <1>17 DEF Refused, Answered, Batching
  <2>2. /\ moe.q \in 1 .. Misses
        /\ \A r \in Scratch \ {moe.q} : ws'[r] = ws[r]
        /\ \A b \in Slabs : b # ws[moe.q].slab /\ b # SlabOf(moe.handle) => bytes'[b] = bytes[b]
    BY <1>17, RefusedSlabs
  <2>3. PICK q \in Scratch, p \in Payloads : q = moe.q /\ p = moe.handle /\ q \in Nat
    BY <2>1, <2>2, MissesFit DEF BatchOK
  <2>4. /\ moe'.at = "admit" /\ moe'.q = q + 1 /\ moe'.use = moe.use /\ moe'.todo = moe.todo
    BY <1>17, <2>1, <2>3 DEF Refused, LayerState
  <2>5. Batched' = Batched /\ \A j : Missed(j)' <=> Missed(j)
    BY <2>4, SameLookups
  <2>6. MissesHold'
    <3> SUFFICES ASSUME NEW j \in Batched, Missed(j), Read(moe.use[j].q)'
                 PROVE  ScratchHolds(moe.use[j].q, moe.todo[j])'
      BY <2>5 DEF MissesHold
    <3>1. moe.use[j].q \in 1 .. Misses
      BY <2>1 DEF BatchOK
    <3>2. PICK r, k : r \in Scratch /\ r = moe.use[j].q /\ k = moe.todo[j] /\ r \in Nat
      BY <2>1, <3>1, MissesFit
    <3>3. r > q
      <4>1. r >= q + 1
        BY <2>4, <3>2 DEF Read
      <4> QED
        BY <2>3, <3>2, <4>1
    <3>4. ScratchHolds(r, k) /\ ws[r].slab # NoSlab
      BY <2>1, <2>3, <3>2, <3>3 DEF ContentsOK, MissesHold, Read, ScratchHolds
    <3>5. /\ ws[r].slab \in Slabs /\ ws[r].slab # ws[q].slab /\ ws[r].slab # SlabOf(p)
      BY <2>3, <3>2, <3>3, <3>4, InUse
    <3>6. ScratchHolds(r, k)'
      BY <2>2, <2>3, <3>2, <3>3, <3>4, <3>5, ScratchKept
    <3> QED
      BY <2>4, <3>2, <3>6
  <2> QED
    BY <2>4, <2>6 DEF HitsHold, OfferHolds
<1>18. CASE UNCHANGED allVars
  BY <1>8, <1>18 DEF allVars, vars
<1> QED
  BY <1>7, <1>9, <1>10, <1>11, <1>12, <1>13, <1>14, <1>15, <1>16, <1>17, <1>18
  DEF StreamNext, LayerStep

-----------------------------------------------------------------------------
(* The engine's invariant and the theorems.                                *)

\* An engine that starts has no buffer and asks for nothing.
LEMMA StreamInitOK == StreamInit => StreamInv
<1> SUFFICES ASSUME StreamInit PROVE StreamInv
  OBVIOUS
<1>1. /\ slot = [p \in Payloads |-> None] /\ pool = <<>> /\ moe = Idling /\ moe.at = "idle"
      /\ ws = [q \in Scratch |-> EmptySlot] /\ bytes = [b \in Slabs |-> Nowhere]
  BY DEF StreamInit, Idling
<1>2. /\ entries = [s \in Slots |-> EmptyEntry] /\ lent = {} /\ call = Idle("OK")
  BY DEF StreamInit, Init
<1>3. StreamTypeOK
  <2>1. EmptySlot \in ESlots /\ <<>> \in Seq(Payloads)
    BY DEF ESlots
  <2> QED
    BY <1>1, <2>1 DEF StreamTypeOK, BuffersTyped, LayerTyped
<1>4. BatchOK
  BY <1>1 DEF BatchOK, Batching
<1>5. CallerOK
  BY <1>1, <1>2 DEF CallerOK, Idle
<1>6. BasesOnly /\ Occupied = {}
  BY <1>2 DEF BasesOnly, EmptyEntry, Occupied
<1>7. Pooled = {} /\ Offered = {} /\ Allocated = {}
  BY <1>1 DEF Pooled, Offered, Allocated
<1>8. HandlesOK
  BY <1>1, <1>2, <1>7 DEF HandlesOK
<1>9. /\ \A p \in Payloads : SlabOf(p) = NoSlab
      /\ \A q \in Scratch : ws[q].slab = NoSlab
      /\ \A b \in Slabs : bytes[b] = Nowhere
  BY <1>1 DEF SlabOf, EmptySlot
<1>10. SlabsOK
  BY <1>9, SlabAssumption DEF SlabsOK
<1>11. ContentsOK
  BY <1>1, <1>6 DEF ContentsOK, CachedHold, HitsHold, MissesHold, OfferHolds, Batching
<1> QED
  BY <1>3, <1>4, <1>5, <1>6, <1>8, <1>10, <1>11 DEF StreamInv

\* What holds in every state of the engine and its cache.
EngineInv == PromiseInv /\ OwnedInv /\ StreamInv

\* The cache's invariants and the engine's are kept together.
LEMMA EngineInvStep == EngineInv /\ [StreamNext]_allVars => EngineInv'
<1> SUFFICES ASSUME PromiseInv, OwnedInv, StreamInv, [StreamNext]_allVars PROVE EngineInv'
  BY DEF EngineInv
<1>1. [Next]_vars
  BY EngineStep
<1>2. PromiseInv'
  BY <1>1, PromiseNext
<1>3. OwnedInv'
  BY <1>1, OwnedStep DEF PromiseInv
<1>4. StreamInv'
  BY LayerStepOK, CallerStep, HandlesStep, BuffersStep, CachedStep, HeldStep
  DEF StreamInv, StreamTypeOK, ContentsOK
<1> QED
  BY <1>2, <1>3, <1>4 DEF EngineInv

\* They hold at the start.
LEMMA EngineInvInit == StreamInit => EngineInv
<1>1. StreamInit => Init
  BY DEF StreamInit
<1>2. Init => OwnedInv
  BY OwnedInit
<1> QED
  BY <1>1, <1>2, PromiseInit, StreamInitOK DEF EngineInv

\* And so always.
LEMMA EngineAlways == StreamSpec => []EngineInv
  BY EngineInvInit, EngineInvStep, PTL DEF StreamSpec

\* A pool without repetition has as many members as places.
LEMMA PoolCount ==
    ASSUME pool \in Seq(Payloads), DistinctPool
    PROVE  Cardinality(Pooled) = Len(pool)
<1>1. PICK n \in Nat : n = Len(pool)
  OBVIOUS
<1>2. pool \in [1 .. n -> Payloads]
  BY <1>1
<1>3. Pooled = {pool[i] : i \in 1 .. n}
  BY <1>1 DEF Pooled
<1>4. pool \in Bijection(1 .. n, Pooled)
  BY <1>1, <1>2, <1>3 DEF DistinctPool, Bijection, Injection, Surjection, IsInjective
<1>5. IsFiniteSet(1 .. n) /\ Cardinality(1 .. n) = n
  BY FS_Interval
<1>6. ExistsBijection(1 .. n, Pooled)
  BY <1>4 DEF ExistsBijection
<1> QED
  BY <1>1, <1>5, <1>6, FS_Bijection

\* The engine drives the cache as its callers may: every theorem about the cache holds of the cache
\* in the engine.
THEOREM StreamUsesCache == StreamSpec => Spec
<1>1. StreamInit => Init
  BY DEF StreamInit
<1>2. EngineInv /\ [StreamNext]_allVars => [Next]_vars
  BY EngineStep DEF EngineInv
<1> QED
  BY <1>1, <1>2, EngineAlways, PTL DEF StreamSpec, Spec

\* No handle and no slab leaks, is freed twice, or is filled while another place points to it:
\* the exchanges of mlp_moe and the release callback keep each in one place.
THEOREM BuffersOwned == StreamSpec => []BuffersOwnedOnce
<1>1. EngineInv => BuffersOwnedOnce
  <2> SUFFICES ASSUME EngineInv PROVE BuffersOwnedOnce
    OBVIOUS
  <2> USE DEF EngineInv, StreamInv, StreamTypeOK
  <2>1. /\ Allocated = lent \cup Pooled \cup Offered
        /\ Pooled \cap (lent \cup Offered) = {} /\ Cardinality(Pooled) = Len(pool)
    BY PoolCount DEF HandlesOK, BuffersTyped, DistinctPool
  <2>2. Allocated \subseteq Payloads /\ \A p \in Payloads : p \notin Allocated => SlabOf(p) = NoSlab
    BY DEF Allocated, SlabOf
  <2>3. \A p \in Allocated : slot[p].slab = SlabOf(p)
    BY DEF Allocated, SlabOf
  <2>4. /\ \A q \in Scratch : <<"scratch", q>> \in Places /\ SlabAt(<<"scratch", q>>) = ws[q].slab
        /\ \A p \in Allocated : <<"handle", p>> \in Places /\ SlabAt(<<"handle", p>>) = SlabOf(p)
    BY <2>3 DEF Places, SlabAt
  <2>5. \A x \in Places : \/ \E q \in Scratch : x = <<"scratch", q>>
                          \/ \E p \in Allocated : x = <<"handle", p>>
    BY DEF Places
  <2>6. ASSUME NEW x \in Places, NEW y \in Places, SlabAt(x) = SlabAt(y), SlabAt(x) # NoSlab
        PROVE  x = y
    <3>1. CASE \E q \in Scratch : x = <<"scratch", q>>
      <4>1. PICK q \in Scratch : x = <<"scratch", q>>
        BY <3>1
      <4>2. \A p \in Allocated : y # <<"handle", p>>
        BY <2>2, <2>4, <2>6, <4>1 DEF SlabsOK
      <4>3. PICK r \in Scratch : y = <<"scratch", r>>
        BY <2>5, <4>2
      <4>4. q = r
        BY <2>4, <2>6, <4>1, <4>3 DEF SlabsOK
      <4> QED
        BY <4>1, <4>3, <4>4
    <3>2. CASE \E p \in Allocated : x = <<"handle", p>>
      <4>1. PICK p \in Allocated : x = <<"handle", p>>
        BY <3>2
      <4>2. \A q \in Scratch : y # <<"scratch", q>>
        BY <2>2, <2>4, <2>6, <4>1 DEF SlabsOK
      <4>3. PICK r \in Allocated : y = <<"handle", r>>
        BY <2>5, <4>2
      <4>4. p = r
        BY <2>2, <2>4, <2>6, <4>1, <4>3 DEF SlabsOK
      <4> QED
        BY <4>1, <4>3, <4>4
    <3> QED
      BY <2>5, <3>1, <3>2
  <2>7. ASSUME NEW x \in Places, SlabAt(x) # NoSlab PROVE SlabAt(x) \in Slabs \ FreeSlabs
    <3>1. CASE \E q \in Scratch : x = <<"scratch", q>>
      BY <2>4, <2>7, <3>1, InUse DEF FreeSlabs
    <3>2. CASE \E p \in Allocated : x = <<"handle", p>>
      BY <2>2, <2>4, <2>7, <3>2, InUse DEF FreeSlabs
    <3> QED
      BY <2>5, <3>1, <3>2
  <2>8. ASSUME NEW b \in Slabs \ FreeSlabs PROVE b # NoSlab /\ \E x \in Places : SlabAt(x) = b
    <3>1. b # NoSlab
      BY SlabAssumption
    <3>2. (\E q \in Scratch : ws[q].slab = b) \/ \E p \in Payloads : SlabOf(p) = b
      BY DEF FreeSlabs, SlabsOK
    <3>3. CASE \E q \in Scratch : ws[q].slab = b
      BY <2>4, <3>1, <3>3
    <3>4. CASE \E p \in Payloads : SlabOf(p) = b
      <4>1. \E p \in Allocated : SlabOf(p) = b
        BY <2>2, <3>1, <3>4
      <4> QED
        BY <2>4, <3>1, <4>1
    <3> QED
      BY <3>2, <3>3, <3>4
  <2>9. {SlabAt(x) : x \in Places} \ {NoSlab} = Slabs \ FreeSlabs
    BY <2>7, <2>8
  <2> QED
    BY <2>1, <2>6, <2>9 DEF BuffersOwnedOnce
<1> QED
  BY <1>1, EngineAlways, PTL

\* Whatever was evicted, pooled, refused and read again, a hit returns the expert it names.
THEOREM HitsAreTheirExperts == StreamSpec => []CacheHoldsItsExperts
<1>1. EngineInv => CacheHoldsItsExperts
  BY DEF EngineInv, StreamInv, ContentsOK, CachedHold, HandleHolds, SlabOf, CacheHoldsItsExperts
<1> QED
  BY <1>1, EngineAlways, PTL

\* A layer computes with the experts its tokens were routed to: what a lookup found and what was
\* read for the misses is still there when the batch is computed.
THEOREM ComputesRouted == StreamSpec => []ComputesWithRouted
<1>1. EngineInv => ComputesWithRouted
  <2> SUFFICES ASSUME EngineInv, moe.at = "math", NEW j \in Batched
               PROVE  LET u == SlotOf(moe.use[j]) IN
                        u # None /\ u.slab # NoSlab /\ bytes[u.slab] = moe.todo[j]
    BY DEF ComputesWithRouted, Batched
  <2> USE DEF EngineInv, StreamInv, StreamTypeOK
  <2>1. moe.at \in Batching /\ moe.use[j] \in Uses
    BY BatchItems DEF Batching
  <2>2. CASE Missed(j)
    <3>1. moe.use[j].q \in Scratch /\ ScratchHolds(moe.use[j].q, moe.todo[j])
      BY <2>1, <2>2, MissesFit DEF BatchOK, ContentsOK, MissesHold, Read
    <3>2. SlotOf(moe.use[j]) = ws[moe.use[j].q]
      BY <2>2 DEF SlotOf, Missed
    <3> QED
      BY <3>1, <3>2, SlabTypes, NoneIsNone DEF ScratchHolds
  <2>3. CASE ~Missed(j)
    <3>1. HandleHolds(moe.use[j].handle, moe.todo[j])
      BY <2>3 DEF ContentsOK, HitsHold
    <3>2. SlotOf(moe.use[j]) = slot[moe.use[j].handle]
      BY <2>1, <2>3 DEF SlotOf, Missed, Uses
    <3> QED
      BY <3>1, <3>2 DEF HandleHolds, SlabOf
  <2> QED
    BY <2>2, <2>3
<1> QED
  BY <1>1, EngineAlways, PTL

=============================================================================
