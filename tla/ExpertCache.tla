----------------------------- MODULE ExpertCache -----------------------------
(***************************************************************************)
(* The expert cache of src/expert_cache.c: a byte-budgeted cache of expert *)
(* planes.  Every resident expert has a base plane and may have a residual *)
(* plane; each plane is an opaque payload handle lent by the caller and    *)
(* returned to it, once, through the release callback.                     *)
(*                                                                         *)
(* The API is single-threaded, so a call runs to its end before the next   *)
(* one starts.  Calls that loop (the admission plan, make_room, memory     *)
(* pressure, destroy) take one step per iteration: the release callback    *)
(* runs inside those loops, and the properties below speak of the cache    *)
(* that the callback sees.  The variable "call" holds the locals of the    *)
(* call in progress; no other call can start until it returns.             *)
(*                                                                         *)
(* Abstracted: the hash index (module ECacheHash; here a key names the     *)
(* occupied slot that holds it), the saturating telemetry counters and the *)
(* prefetch flags that only feed them, argument errors, and workspace      *)
(* layout.  Slots are numbered from 1.                                     *)
(***************************************************************************)
EXTENDS Integers, Sequences, FiniteSets, RangeSums

CONSTANTS
    MaxEntries,      \* config.max_entries
    Layers,          \* layer numbers 0 .. layer_count - 1, as values
    Experts,         \* expert numbers
    Payloads,        \* payload handles the caller owns
    NoPayload,       \* the NULL handle
    NoKey,           \* the zeroed key of a free entry
    Budget,          \* config.budget_bytes
    Alignment,       \* config.payload_alignment
    Sizes,           \* logical sizes of the planes callers admit
    Targets,         \* targets of the pressure calls
    MinBaseBytes,    \* floor.min_base_bytes of every layer
    MinBaseEntries,  \* floor.min_base_entries of every layer
    Policy,          \* "LRU" or "2Q"
    MaxClock         \* the largest clock value (UINT64_MAX in the code)

ASSUME CacheAssumption ==
    /\ MaxEntries \in Nat \ {0}
    /\ Budget \in Nat
    /\ Alignment \in Nat \ {0}
    /\ Sizes \subseteq Nat \ {0}
    /\ Targets \subseteq 0 .. Budget
    /\ MinBaseBytes \in [Layers -> Nat]
    /\ MinBaseEntries \in [Layers -> Nat]
    /\ Policy \in {"LRU", "2Q"}
    /\ MaxClock \in Nat /\ MaxClock >= 3
    /\ NoPayload \notin Payloads

VARIABLES
    entries,                 \* cache->entries
    layer_base_bytes,        \* cache->layers[l].base_bytes
    layer_base_entries,      \* cache->layers[l].base_entries
    layer_residual_bytes,    \* cache->layers[l].residual_bytes
    layer_residual_entries,  \* cache->layers[l].residual_entries
    payload_bytes,           \* stats.payload_bytes
    base_bytes,              \* stats.base_bytes
    residual_bytes,          \* stats.residual_bytes
    peak_payload_bytes,      \* stats.peak_payload_bytes
    entry_count,             \* cache->entry_count
    clock,                   \* cache->clock
    call,                    \* the call in progress, or the last status
    plan,                    \* the planning fields of can_make_room
    schedule,                \* history: the evictions the plan relied on
    lent                     \* history: handles the cache took, not yet released

layerVars == <<layer_base_bytes, layer_base_entries,
               layer_residual_bytes, layer_residual_entries>>
byteVars  == <<payload_bytes, base_bytes, residual_bytes>>
residentVars == <<entries, layerVars, byteVars, entry_count, lent>>
vars == <<entries, layerVars, byteVars, peak_payload_bytes, entry_count,
          clock, call, plan, schedule, lent>>

-----------------------------------------------------------------------------
Slots  == 1 .. MaxEntries
NoSlot == 0
Keys   == [layer : Layers, expert : Experts]

Entry == [key : Keys \cup {NoKey},
          base : Payloads \cup {NoPayload}, base_charge : Nat,
          residual : Payloads \cup {NoPayload}, residual_charge : Nat,
          last_access : 0 .. MaxClock, admission_order : 0 .. MaxClock,
          hot : BOOLEAN]

EmptyEntry == [key |-> NoKey,
               base |-> NoPayload, base_charge |-> 0,
               residual |-> NoPayload, residual_charge |-> 0,
               last_access |-> 0, admission_order |-> 0, hot |-> FALSE]

Occupied    == {s \in Slots : entries[s].base # NoPayload}
HasResidual == {s \in Occupied : entries[s].residual # NoPayload}
Holding(k)  == {s \in Occupied : entries[s].key = k}
\* Fault: a handle held as a residual plane is not recognised.
BaseHandleInUse(p) == \E s \in Occupied : p = entries[s].base
PayloadInUse(p) == \E s \in Occupied : p \in {entries[s].base, entries[s].residual}

\* Bytes a plane is charged: its size rounded up to the alignment.
Charge(n) == IF n % Alignment = 0 THEN n ELSE n + Alignment - (n % Alignment)

\* Fault: residual planes are left out of the bytes in use.
ReclaimForBases(incoming) ==
    IF incoming > Budget - base_bytes THEN incoming - (Budget - base_bytes) ELSE 0

\* Bytes that must leave before "incoming" more fit in the budget.
RequiredReclaim(incoming) ==
    IF incoming > Budget - payload_bytes
    THEN incoming - (Budget - payload_bytes) ELSE 0

\* Entry ea in slot a leaves before eb in slot b: cold before hot under 2Q,
\* then by age, then by slot number.
Precedes(ea, a, eb, b) ==
    LET older(x, y) == x < y \/ (x = y /\ a < b)
    IN  CASE Policy = "2Q" /\ ea.hot # eb.hot -> ~ea.hot
          [] Policy = "2Q" /\ ~ea.hot /\ ~eb.hot ->
                older(ea.admission_order, eb.admission_order)
          [] OTHER -> older(ea.last_access, eb.last_access)

First(s, S) ==
    s \in S /\ \A t \in S \ {s} : Precedes(entries[s], s, entries[t], t)

\* Fault: the byte floor is not looked at, and the count is one too high.
FloorAllowsLast(s, bytes, count) ==
    LET l == entries[s].key.layer
    IN  count[l] > 0 /\ count[l] >= MinBaseEntries[l]

\* The layer of slot s keeps its floor if the base of s leaves, given the
\* layer totals (those of the cache, or those of the plan being made).
FloorAllows(s, bytes, count) ==
    LET l == entries[s].key.layer
        c == entries[s].base_charge
    IN  /\ count[l] > 0 /\ bytes[l] >= c
        /\ count[l] - 1 >= MinBaseEntries[l]
        /\ bytes[l] - c >= MinBaseBytes[l]

\* Fault: the entry being promoted is not protected.
EvictableAnyBase(protected) ==
    {s \in Occupied : /\ s \notin plan.victims
                      /\ FloorAllows(s, layer_base_bytes, layer_base_entries)}

\* A base that is marked as a victim of a plan is never picked, by no loop.
EvictableBases(protected) ==
    {s \in Occupied \ {protected} :
        /\ s \notin plan.victims
        /\ FloorAllows(s, layer_base_bytes, layer_base_entries)}

\* Fault: the plan counts on evicting the entry that is being promoted.
PlannableAnyBase(protected) ==
    {s \in Occupied : /\ s \notin plan.victims
                      /\ FloorAllows(s, plan.base_bytes, plan.base_entries)}

PlannableBases(protected) ==
    {s \in Occupied \ {protected} :
        /\ s \notin plan.victims
        /\ FloorAllows(s, plan.base_bytes, plan.base_entries)}

\* next_clock: at the largest value every stamp is halved before counting on.
Halve(x) == (x \div 2) + 1
ClockFull == clock = MaxClock
NextClock == IF ClockFull THEN Halve(clock) + 1 ELSE clock + 1
\* Fault: the clock is halved and the stamps are not.
RescaledNever == entries
Rescaled ==
    IF ~ClockFull THEN entries
    ELSE [s \in Slots |->
            IF s \in Occupied
            THEN [entries[s] EXCEPT !.last_access = Halve(@),
                                    !.admission_order = Halve(@)]
            ELSE entries[s]]

-----------------------------------------------------------------------------
Idle(status) == [phase |-> "idle", status |-> status]

NoPlan == [victims |-> {}, base_bytes |-> [l \in Layers |-> 0],
           base_entries |-> [l \in Layers |-> 0], freed |-> 0]
\* A plan starts from the totals of the cache, and from the marks it finds.
FreshPlan == [victims |-> plan.victims, base_bytes |-> layer_base_bytes,
              base_entries |-> layer_base_entries, freed |-> residual_bytes]

\* Fault: a plan that fails leaves its marks.
UnmarkedNever == plan.victims
\* The marks that a call leaves on the entries.
Unmarked == {}

NoSchedule == [steps |-> <<>>, freed |-> 0]

Init ==
    /\ entries = [s \in Slots |-> EmptyEntry]
    /\ layer_base_bytes = [l \in Layers |-> 0]
    /\ layer_base_entries = [l \in Layers |-> 0]
    /\ layer_residual_bytes = [l \in Layers |-> 0]
    /\ layer_residual_entries = [l \in Layers |-> 0]
    /\ payload_bytes = 0 /\ base_bytes = 0 /\ residual_bytes = 0
    /\ peak_payload_bytes = 0
    /\ entry_count = 0
    /\ clock = 0
    /\ call = Idle("OK")
    /\ plan = NoPlan /\ schedule = NoSchedule
    /\ lent = {}

Return(status) == /\ call' = Idle(status)
                  /\ plan' = [NoPlan EXCEPT !.victims = Unmarked]
                  /\ schedule' = NoSchedule

-----------------------------------------------------------------------------
\* release_residual: the residual plane of slot s goes back to the caller.
ReleaseResidual(s) ==
    LET l == entries[s].key.layer
        c == entries[s].residual_charge
    IN  /\ entries' = [entries EXCEPT ![s].residual = NoPayload,
                                      ![s].residual_charge = 0]
        /\ payload_bytes' = payload_bytes - c
        /\ residual_bytes' = residual_bytes - c
        /\ layer_residual_bytes' = [layer_residual_bytes EXCEPT ![l] = @ - c]
        /\ layer_residual_entries' = [layer_residual_entries EXCEPT ![l] = @ - 1]
        /\ lent' = lent \ {entries[s].residual}
        /\ UNCHANGED <<base_bytes, layer_base_bytes, layer_base_entries,
                       entry_count, peak_payload_bytes, clock>>

\* release_base: the base plane goes back, after the residual if there is one.
ReleaseBase(s) ==
    LET l == entries[s].key.layer
        b == entries[s].base_charge
        r == entries[s].residual_charge
        planes == IF s \in HasResidual THEN 1 ELSE 0
    IN  /\ entries' = [entries EXCEPT ![s] = EmptyEntry]
        /\ payload_bytes' = payload_bytes - r - b
        /\ base_bytes' = base_bytes - b
        /\ residual_bytes' = residual_bytes - r
        /\ layer_base_bytes' = [layer_base_bytes EXCEPT ![l] = @ - b]
        /\ layer_base_entries' = [layer_base_entries EXCEPT ![l] = @ - 1]
        /\ layer_residual_bytes' = [layer_residual_bytes EXCEPT ![l] = @ - r]
        /\ layer_residual_entries' =
                [layer_residual_entries EXCEPT ![l] = @ - planes]
        /\ entry_count' = entry_count - 1
        /\ lent' = lent \ {entries[s].base, entries[s].residual}
        /\ UNCHANGED <<peak_payload_bytes, clock>>

-----------------------------------------------------------------------------
\* ecache_get on a resident key.  A lookup that misses changes telemetry only.
Get(k) ==
    /\ call.phase = "idle"
    /\ \E s \in Holding(k) :
          entries' = [Rescaled EXCEPT ![s].last_access = NextClock,
                                      ![s].hot = @ \/ Policy = "2Q"]
    /\ clock' = NextClock
    /\ Return("OK")
    /\ UNCHANGED <<layerVars, byteVars, peak_payload_bytes, entry_count, lent>>

\* The call a caller makes to admit a plane, past the checks that refuse it.
Admission(op, k, p, c, protected) ==
    [phase |-> "plan", op |-> op, key |-> k, payload |-> p, charge |-> c,
     protected |-> protected, needed |-> RequiredReclaim(c),
     before |-> entries]

NeedsSlot == call.op = "insert"

\* The start of can_make_room: refuse what can never fit, admit without a plan
\* what fits once residuals are dropped, else plan which bases would leave.
StartAdmission(adm) ==
    LET needed == RequiredReclaim(adm.charge)
        requireBase == \/ adm.op = "insert" /\ entry_count >= MaxEntries
                       \/ residual_bytes < needed
    IN  IF adm.charge > Budget
        THEN Return("NO_SPACE")
        ELSE /\ schedule' = NoSchedule
             /\ IF requireBase
                THEN call' = adm /\ plan' = FreshPlan
                ELSE /\ call' = [adm EXCEPT !.phase = "make_room"]
                     /\ plan' = [NoPlan EXCEPT !.victims = plan.victims]

\* ecache_insert_base, up to the decision whether the base can be admitted.
InsertBase(k, p, n) ==
    /\ call.phase = "idle"
    /\ IF Holding(k) # {} \/ PayloadInUse(p)
       THEN Return("EXISTS")
       ELSE StartAdmission(Admission("insert", k, p, Charge(n), NoSlot))
    /\ UNCHANGED <<residentVars, peak_payload_bytes, clock>>

\* ecache_promote, up to the same decision; the slot promoted is protected.
Promote(k, p, n) ==
    /\ call.phase = "idle"
    /\ IF Holding(k) = {} THEN Return("NOT_FOUND")
       ELSE IF Holding(k) \cap HasResidual # {} \/ PayloadInUse(p)
       THEN Return("EXISTS")
       ELSE \E s \in Holding(k) :
               StartAdmission(Admission("promote", k, p, Charge(n), s))
    /\ UNCHANGED <<residentVars, peak_payload_bytes, clock>>

PlanCovers == plan.freed >= call.needed /\ (NeedsSlot => plan.victims # {})

\* One iteration of the loop of can_make_room that picks the bases to evict.
PlanVictim ==
    /\ call.phase = "plan"
    /\ ~PlanCovers
    /\ \E s \in Slots :
        /\ First(s, PlannableBases(call.protected))
        /\ LET l == entries[s].key.layer
               c == entries[s].base_charge
           IN  plan' = [plan EXCEPT !.victims = @ \cup {s},
                                    !.base_bytes[l] = @ - c,
                                    !.base_entries[l] = @ - 1,
                                    !.freed = @ + c]
        /\ schedule' = [steps |-> Append(schedule.steps,
                                         [victim |-> s,
                                          base_bytes |-> plan.base_bytes,
                                          base_entries |-> plan.base_entries,
                                          freed |-> plan.freed]),
                        freed |-> plan'.freed]
    /\ UNCHANGED <<residentVars, peak_payload_bytes, clock, call>>

\* can_make_room runs out of bases the floors let go: the marks are cleared and
\* nothing was touched.
PlanFails ==
    /\ call.phase = "plan"
    /\ ~PlanCovers
    /\ PlannableBases(call.protected) = {}
    /\ Return("NO_SPACE")
    /\ UNCHANGED <<residentVars, peak_payload_bytes, clock>>

\* can_make_room succeeds and clears its planning fields.
PlanSucceeds ==
    /\ call.phase = "plan"
    /\ PlanCovers
    /\ call' = [call EXCEPT !.phase = "make_room"]
    /\ plan' = NoPlan
    /\ UNCHANGED <<residentVars, peak_payload_bytes, clock, schedule>>

-----------------------------------------------------------------------------
Short == \/ RequiredReclaim(call.charge) > 0
         \/ NeedsSlot /\ entry_count >= MaxEntries

\* make_room, one release per step: every residual before any base.
MakeRoomDemote ==
    /\ call.phase = "make_room" /\ Short
    /\ \E s \in Slots : First(s, HasResidual) /\ ReleaseResidual(s)
    /\ UNCHANGED <<call, plan, schedule>>

\* Fault: a base may leave while residual planes are left.
MakeRoomEvictEarly ==
    /\ call.phase = "make_room" /\ Short
    /\ \E s \in Slots : First(s, EvictableBases(call.protected)) /\ ReleaseBase(s)
    /\ schedule' = [schedule EXCEPT !.steps = IF @ = <<>> THEN @ ELSE Tail(@)]
    /\ UNCHANGED <<call, plan>>

MakeRoomEvict ==
    /\ call.phase = "make_room" /\ Short
    /\ HasResidual = {}
    /\ \E s \in Slots : First(s, EvictableBases(call.protected)) /\ ReleaseBase(s)
    /\ schedule' = [schedule EXCEPT !.steps = IF @ = <<>> THEN @ ELSE Tail(@)]
    /\ UNCHANGED <<call, plan>>

\* make_room returns: there is room, or (the plan excludes it) nothing may leave.
RoomMade ==
    /\ call.phase = "make_room"
    /\ Short => HasResidual = {} /\ EvictableBases(call.protected) = {}

Peak(bytes) == IF bytes > peak_payload_bytes THEN bytes ELSE peak_payload_bytes

Place(s) ==
    LET l == call.key.layer
        c == call.charge
    IN  /\ entries' = [Rescaled EXCEPT ![s] =
                [EmptyEntry EXCEPT !.key = call.key,
                                   !.base = call.payload, !.base_charge = c,
                                   !.last_access = NextClock,
                                   !.admission_order = NextClock]]
        /\ clock' = NextClock
        /\ layer_base_bytes' = [layer_base_bytes EXCEPT ![l] = @ + c]
        /\ layer_base_entries' = [layer_base_entries EXCEPT ![l] = @ + 1]
        /\ payload_bytes' = payload_bytes + c
        /\ base_bytes' = base_bytes + c
        /\ peak_payload_bytes' = Peak(payload_bytes + c)
        /\ entry_count' = entry_count + 1
        /\ lent' = lent \cup {call.payload}
        /\ UNCHANGED <<residual_bytes, layer_residual_bytes,
                       layer_residual_entries>>

\* The rest of ecache_insert_base: the base goes into the first free slot.
CommitInsert ==
    /\ RoomMade /\ call.op = "insert"
    /\ IF Occupied = Slots
       THEN /\ Return("CORRUPT")
            /\ UNCHANGED <<residentVars, peak_payload_bytes, clock>>
       ELSE /\ Return("OK")
            /\ \E s \in Slots \ Occupied :
                  (\A t \in Slots \ Occupied : s <= t) /\ Place(s)

\* The rest of ecache_promote: only the residual plane of the slot changes.
CommitPromote ==
    /\ RoomMade /\ call.op = "promote"
    /\ LET s == call.protected
           l == call.key.layer
           c == call.charge
       IN  /\ entries' = [entries EXCEPT ![s].residual = call.payload,
                                         ![s].residual_charge = c]
           /\ layer_residual_bytes' = [layer_residual_bytes EXCEPT ![l] = @ + c]
           /\ layer_residual_entries' = [layer_residual_entries EXCEPT ![l] = @ + 1]
           /\ payload_bytes' = payload_bytes + c
           /\ residual_bytes' = residual_bytes + c
           /\ peak_payload_bytes' = Peak(payload_bytes + c)
    /\ lent' = lent \cup {call.payload}
    /\ Return("OK")
    /\ UNCHANGED <<base_bytes, layer_base_bytes, layer_base_entries,
                   entry_count, clock>>

-----------------------------------------------------------------------------
\* ecache_remove: both planes leave, whatever the floors say.
Remove(k) ==
    /\ call.phase = "idle"
    /\ \E s \in Holding(k) : ReleaseBase(s)
    /\ Return("OK")

\* ecache_apply_pressure; level is "WARN" or "CRITICAL" (NORMAL is a no-op).
ApplyPressure(level, target) ==
    /\ call.phase = "idle"
    /\ call' = [phase |-> "pressure", level |-> level, target |-> target]
    /\ UNCHANGED <<residentVars, peak_payload_bytes, clock, plan, schedule>>

OverTarget == payload_bytes > call.target

PressureDemote ==
    /\ call.phase = "pressure" /\ OverTarget
    /\ \E s \in Slots : First(s, HasResidual) /\ ReleaseResidual(s)
    /\ UNCHANGED <<call, plan, schedule>>

PressureEvict ==
    /\ call.phase = "pressure" /\ OverTarget
    /\ HasResidual = {} /\ call.level = "CRITICAL"
    /\ \E s \in Slots : First(s, EvictableBases(NoSlot)) /\ ReleaseBase(s)
    /\ UNCHANGED <<call, plan, schedule>>

\* Fault: the pressure loop does not stop when nothing more may leave.
PressureReturnsAtTarget ==
    /\ call.phase = "pressure" /\ ~OverTarget
    /\ Return("OK")
    /\ UNCHANGED <<residentVars, peak_payload_bytes, clock>>

PressureReturns ==
    /\ call.phase = "pressure"
    /\ \/ ~OverTarget /\ Return("OK")
       \/ /\ OverTarget /\ HasResidual = {}
          /\ call.level = "CRITICAL" => EvictableBases(NoSlot) = {}
          /\ Return("PARTIAL")
    /\ UNCHANGED <<residentVars, peak_payload_bytes, clock>>

\* ecache_destroy releases every slot in order and invalidates the object.
Destroy ==
    /\ call.phase = "idle"
    /\ call' = [phase |-> "destroy"]
    /\ UNCHANGED <<residentVars, peak_payload_bytes, clock, plan, schedule>>

DestroyRelease ==
    /\ call.phase = "destroy"
    /\ \E s \in Occupied : (\A t \in Occupied : s <= t) /\ ReleaseBase(s)
    /\ UNCHANGED <<call, plan, schedule>>

DestroyReturns ==
    /\ call.phase = "destroy" /\ Occupied = {}
    /\ call' = [phase |-> "destroyed"]
    /\ UNCHANGED <<residentVars, peak_payload_bytes, clock, plan, schedule>>

Next ==
    \/ \E k \in Keys : Get(k)
    \/ \E k \in Keys, p \in Payloads, n \in Sizes : InsertBase(k, p, n)
    \/ \E k \in Keys, p \in Payloads, n \in Sizes : Promote(k, p, n)
    \/ PlanVictim
    \/ PlanFails
    \/ PlanSucceeds
    \/ MakeRoomDemote
    \/ MakeRoomEvict
    \/ CommitInsert
    \/ CommitPromote
    \/ \E k \in Keys : Remove(k)
    \/ \E level \in {"WARN", "CRITICAL"}, target \in Targets :
            ApplyPressure(level, target)
    \/ PressureDemote
    \/ PressureEvict
    \/ PressureReturns
    \/ Destroy
    \/ DestroyRelease
    \/ DestroyReturns

Spec == Init /\ [][Next]_vars

\* A call that has started runs to its end: the steps it still has to take.
CallStep ==
    \/ PlanVictim \/ PlanFails \/ PlanSucceeds
    \/ MakeRoomDemote \/ MakeRoomEvict \/ CommitInsert \/ CommitPromote
    \/ PressureDemote \/ PressureEvict \/ PressureReturns
    \/ DestroyRelease \/ DestroyReturns

FairSpec == Spec /\ WF_vars(CallStep)

-----------------------------------------------------------------------------
(* Properties.                                                             *)

Statuses == {"OK", "PARTIAL", "NOT_FOUND", "EXISTS", "NO_SPACE", "CORRUPT"}

AdmissionCalls ==
    [phase : {"plan", "make_room"}, op : {"insert", "promote"}, key : Keys,
     payload : Payloads, charge : Nat, protected : Slots \cup {NoSlot},
     needed : Nat, before : [Slots -> Entry]]

PlanStep == [victim : Slots, base_bytes : [Layers -> Int],
             base_entries : [Layers -> Int], freed : Int]

ResidentType ==
    /\ entries \in [Slots -> Entry]
    /\ layer_base_bytes \in [Layers -> Int]
    /\ layer_base_entries \in [Layers -> Int]
    /\ layer_residual_bytes \in [Layers -> Int]
    /\ layer_residual_entries \in [Layers -> Int]
    /\ payload_bytes \in Int /\ base_bytes \in Int /\ residual_bytes \in Int
    /\ peak_payload_bytes \in Int /\ entry_count \in Int
    /\ clock \in 0 .. MaxClock
    /\ lent \subseteq Payloads

CallType ==
    /\ call \in [phase : {"idle"}, status : Statuses] \cup AdmissionCalls
                \cup [phase : {"pressure"}, level : {"WARN", "CRITICAL"},
                      target : Targets]
                \cup [phase : {"destroy", "destroyed"}]
    /\ plan \in [victims : SUBSET Slots, base_bytes : [Layers -> Int],
                 base_entries : [Layers -> Int], freed : Int]
    /\ schedule \in [steps : Seq(PlanStep), freed : Int]

\* Every variable keeps its type; no clock stamp outgrows its word.
TypeOK == ResidentType /\ CallType

\* The sum of f over the slots.
SlotTotal(f) == Total(MaxEntries, f)

\* What slot s contributes to the counters of the layers in L.
CountsIn(s, L) == s \in Occupied /\ entries[s].key.layer \in L
BaseCharges(L)     == [s \in Slots |-> IF CountsIn(s, L)
                                       THEN entries[s].base_charge ELSE 0]
ResidualCharges(L) == [s \in Slots |-> IF CountsIn(s, L)
                                       THEN entries[s].residual_charge ELSE 0]
BaseMarks(L)       == [s \in Slots |-> IF CountsIn(s, L) THEN 1 ELSE 0]
ResidualMarks(L)   == [s \in Slots |-> IF CountsIn(s, L) /\ s \in HasResidual
                                       THEN 1 ELSE 0]

\* Every counter the cache decides by is the sum it stands for, also when the
\* release callback looks at it from inside make_room or a pressure call.  A
\* counter that drifted would wrap around zero or let the cache outgrow its
\* budget (ecache_validate checks the same totals).
Accounting ==
    /\ payload_bytes = base_bytes + residual_bytes
    /\ base_bytes = SlotTotal(BaseCharges(Layers))
    /\ residual_bytes = SlotTotal(ResidualCharges(Layers))
    /\ entry_count = SlotTotal(BaseMarks(Layers))
    /\ \A l \in Layers :
        /\ layer_base_bytes[l] = SlotTotal(BaseCharges({l}))
        /\ layer_residual_bytes[l] = SlotTotal(ResidualCharges({l}))
        /\ layer_base_entries[l] = SlotTotal(BaseMarks({l}))
        /\ layer_residual_entries[l] = SlotTotal(ResidualMarks({l}))

\* The payload never outgrows the budget, and neither does the recorded peak.
WithinBudget == payload_bytes <= peak_payload_bytes /\ peak_payload_bytes <= Budget

\* A handle the cache took is held by exactly one plane of one entry until the
\* callback returns it, a returned handle by none, and a key by one entry: no
\* handle can be returned twice, leaked or shared.
HandlesOwnedOnce ==
    LET planes == (Slots \X {"base", "residual"})
        held(x) == IF x[2] = "base" THEN entries[x[1]].base
                   ELSE entries[x[1]].residual
    IN  /\ lent = {held(x) : x \in planes} \ {NoPayload}
        /\ \A x, y \in planes : held(x) = held(y) => x = y \/ held(x) = NoPayload
        /\ \A s, t \in Occupied : entries[s].key = entries[t].key => s = t

\* What can_make_room promised, make_room delivers: as long as room is missing
\* there is a plane it may release, so an admission that started to release
\* planes is never given up half way, nor committed past the budget.
RoomPromiseKept ==
    /\ call.phase = "make_room" /\ Short =>
            HasResidual # {} \/ EvictableBases(call.protected) # {}
    /\ call.phase = "idle" => call.status # "CORRUPT"

\* A refused admission leaves every entry as the call found it, and none marked as
\* a victim of its plan, which no later loop could evict.
RefusalChangesNothing ==
    [][call.phase \in {"plan", "make_room"} /\ call'.phase = "idle"
         /\ call'.status # "OK" => entries' = call.before /\ plan'.victims = {}]_vars

AboveFloor(l) == /\ layer_base_entries[l] >= MinBaseEntries[l]
                 /\ layer_base_bytes[l] >= MinBaseBytes[l]

\* A layer that reached its floor stays above it until the caller removes an
\* entry or destroys the cache: admissions and memory pressure never cross it.
FloorsKept ==
    [][call.phase \in {"plan", "make_room", "pressure"} =>
          \A l \in Layers : AboveFloor(l) => AboveFloor(l)']_vars

\* An admission takes a base only when it has to (the residual planes it found
\* could not make the room, or every entry was in use), and only after it has
\* dropped every residual plane.
BasesLeaveLast ==
    call.phase = "make_room"
      /\ (\E s \in Slots : entries[s].base # call.before[s].base) =>
          /\ HasResidual = {}
          /\ \/ SlotTotal([s \in Slots |-> call.before[s].residual_charge]) < call.needed
             \/ /\ call.op = "insert"
                /\ \A s \in Slots : call.before[s].base # NoPayload

\* No admission takes a base while sparing one that the policy ranks before it,
\* unless the floor of its layer holds that one back.
VictimsRankFirst ==
    call.phase = "make_room" =>
        \A s \in Slots, t \in EvictableBases(call.protected) :
            entries[s].base # call.before[s].base =>
                ~Precedes(entries[t], t, call.before[s], s)

\* What leaves is what the policy ranks first: the order in which the two
\* loops of an admission give planes back.
LeavesInOrder == BasesLeaveLast /\ VictimsRankFirst

\* A step makes at most one entry the newest and leaves the order of the
\* others alone, also when the clock is full and every stamp is rescaled (then
\* an order may become a tie, never an inversion).
UseOrderKept ==
    \E m \in Slots \cup {NoSlot} :
        LET others == (Occupied \cap Occupied') \ {m}
        IN  /\ \A a, b \in others :
                  entries[a].last_access < entries[b].last_access =>
                      entries'[a].last_access <= entries'[b].last_access
            /\ m # NoSlot => \A a \in others :
                  entries'[a].last_access < entries'[m].last_access

\* The same of the order of admission, in which only what is admitted is newer.
AgeOrderKept ==
    \A a \in Occupied \cap Occupied', b \in Occupied' :
        /\ b \in Occupied /\ entries[a].admission_order < entries[b].admission_order =>
               entries'[a].admission_order <= entries'[b].admission_order
        /\ b \notin Occupied => entries'[a].admission_order < entries'[b].admission_order

\* Neither of the two orders the policy evicts by is ever turned round.
OnlyNewestMoves == [][UseOrderKept /\ AgeOrderKept]_vars

\* Every call returns: the planning, eviction, pressure and destroy loops end.
CallsReturn == call.phase \notin {"idle", "destroyed"}
                    ~> call.phase \in {"idle", "destroyed"}
=============================================================================
