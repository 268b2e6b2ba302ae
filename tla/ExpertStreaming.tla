-------------------------- MODULE ExpertStreaming --------------------------
(***************************************************************************)
(* How the engine streams experts (mlp_moe in src/qwen36b.c), on top of    *)
(* the expert cache.  A layer looks its routed experts up in batches: a    *)
(* hit is used where it is, a miss is read into a scratch slot, and once   *)
(* the batch is computed every miss is offered to the cache.  The buffers  *)
(* that hold experts (slabs) travel between scratch, cached handles and    *)
(* the pool of handles that evictions feed.                                *)
(*                                                                         *)
(* A handle is a payload of the cache.  The steps of a cache call are      *)
(* those of ExpertCache (the engine admits base planes only); its release  *)
(* callback is eslot_release here.                                         *)
(***************************************************************************)
EXTENDS ExpertCache

CONSTANTS Batch,      \* scratch slots (64): experts of a batch
          Routings,   \* bound: what a layer may route to, experts without repetition
          PoolCap,    \* m->eslot_pool_cap
          Slabs,      \* buffers that can exist at one time
          NoSlab,     \* the NULL slab
          SlotBytes,  \* sizeof(ESlot)
          None,       \* no ESlot
          Spare,      \* the contents of a slab that is up for reuse
          Nowhere,    \* the contents of a slab that is not allocated
          ExpertSize  \* bytes of each expert on disk

ASSUME SlabAssumption == NoSlab \notin Slabs
ASSUME StreamAssumption  == /\ Batch \in Nat \ {0} /\ Routings \subseteq Seq(Experts)
                            /\ \A r \in Routings : \A i, j \in DOMAIN r : r[i] = r[j] => i = j
                            /\ PoolCap \in Nat /\ SlotBytes \in Nat
                            /\ ExpertSize \in [Experts -> Nat \ {0}]
                            /\ None \notin [slab : Slabs \cup {NoSlab}, cap : Nat]
                            /\ Nowhere \notin Keys \cup {Spare}

\* What the engine asks of the cache is among what the cache's callers may ask.
ASSUME CallerAssumption == /\ 0 .. Budget \subseteq Targets
                           /\ \A e \in Experts : ExpertSize[e] + SlotBytes \in Sizes

VARIABLES slot,   \* the ESlot behind each handle, None when it is not allocated
          pool,   \* m->eslot_pool
          ws,     \* the scratch slots, m->ws
          bytes,  \* what each slab holds: an expert, Spare, or Nowhere (not allocated)
          moe     \* the locals of the layer under way

streamVars == <<slot, pool, ws, bytes>>
allVars    == <<vars, streamVars, moe>>

Scratch == 1 .. Batch

\* calloc and posix_memalign: any free handle or slab will do.
Fresh(S) == CHOOSE x \in S : TRUE

EmptySlot == [slab |-> NoSlab, cap |-> 0]

Allocated  == {p \in Payloads : slot[p] # None}
FreeSlabs  == {b \in Slabs : bytes[b] = Nowhere}

\* free(slab) of a set of slabs.
Freed(bs) == [b \in Slabs |-> IF b \in bs THEN Nowhere ELSE bytes[b]]

Idling == [at |-> "idle"]
Left   == Len(moe.todo)
Items  == IF Left < Batch THEN Left ELSE Batch

\* Where an item of the batch is used: a miss is in the scratch slot it was read into.
Missed(j) == moe.use[j].from = "scratch"
SlotOf(u) == IF u.from = "cache" THEN slot[u.handle] ELSE ws[u.q]

-----------------------------------------------------------------------------
(* The pool of handles. *)

PoolTakes == Len(pool) < PoolCap

\* eslot_release, and the end of a refused admission.
GiveBack(p) ==
    IF PoolTakes
      THEN pool' = Append(pool, p) /\ bytes' = [bytes EXCEPT ![slot[p].slab] = Spare]
      ELSE pool' = pool /\ bytes' = Freed({slot[p].slab})

KeptIn(p) == IF PoolTakes THEN slot[p] ELSE None

\* eslot_pool_trim(m, 0).
TrimPool ==
    LET out == {pool[i] : i \in 1 .. Len(pool)} IN
    /\ pool' = <<>>
    /\ bytes' = Freed({slot[p].slab : p \in out})
    /\ slot' = [p \in Payloads |-> IF p \in out THEN None ELSE slot[p]]
    /\ UNCHANGED ws

-----------------------------------------------------------------------------
(* A step of a cache call under way; what it releases goes through the callback. *)
CacheStep ==
    /\ \/ PlanVictim \/ PlanFails \/ PlanSucceeds \/ MakeRoomEvict \/ CommitInsert
       \/ PressureEvict \/ PressureReturns
    /\ LET out == lent \ lent' IN
         \/ out = {} /\ UNCHANGED streamVars
         \/ \E p \in out : /\ GiveBack(p)
                           /\ slot' = [slot EXCEPT ![p] = KeptIn(p)]
                           /\ UNCHANGED ws
    /\ UNCHANGED moe

-----------------------------------------------------------------------------
(* mlp_moe(). *)

StartLayer(l) ==
    /\ moe.at = "idle"
    /\ moe' = [at |-> "start", layer |-> l, todo |-> <<>>, use |-> <<>>, q |-> 0,
               handle |-> NoPayload]
    /\ UNCHANGED <<vars, streamVars>>

\* Fault: pressure is served between the lookups and the computation.
ServesPressureLate == moe.at = "math"
ServesPressure == moe.at = "start"

\* ecache_service_pressure: a poll that finds pressure evicts to a target, then trims the pool.
ServicePressure(target) ==
    /\ ServesPressure /\ call.phase = "idle"
    /\ ApplyPressure("CRITICAL", target)
    /\ moe' = [moe EXCEPT !.at = IF @ = "start" THEN "pressed" ELSE @]
    /\ UNCHANGED streamVars

PressureServed ==
    /\ moe.at = "pressed" /\ call.phase = "idle"
    /\ TrimPool
    /\ moe' = [moe EXCEPT !.at = "routed"]
    /\ UNCHANGED vars

NoPressure ==
    /\ moe.at = "start"
    /\ moe' = [moe EXCEPT !.at = "routed"]
    /\ UNCHANGED <<vars, streamVars>>

\* The experts that the tokens of the layer are routed to, each once.
Route(routed) ==
    /\ moe.at = "routed"
    /\ moe' = [moe EXCEPT !.at = "lookup", !.todo =
                [i \in DOMAIN routed |-> [layer |-> moe.layer, expert |-> routed[i]]]]
    /\ UNCHANGED <<vars, streamVars>>

\* A long prompt that needs most of the layer's experts has the whole layer read in one go into
\* a buffer of its own; the cache is neither asked nor filled.
WholeLayer ==
    /\ moe.at = "routed"
    /\ moe' = Idling
    /\ UNCHANGED <<vars, streamVars>>

\* One lookup: a hit is used in place, a miss gets the next scratch slot.
Misses == Cardinality({j \in 1 .. Len(moe.use) : Missed(j)})

LookUp ==
    LET k == moe.todo[Len(moe.use) + 1] IN
    /\ moe.at = "lookup" /\ Len(moe.use) < Items
    /\ \/ /\ Get(k)
          /\ \E s \in Holding(k) : moe' = [moe EXCEPT !.use =
                Append(@, [from |-> "cache", handle |-> entries[s].base])]
       \/ /\ Holding(k) = {}
          /\ moe' = [moe EXCEPT !.use = Append(@, [from |-> "scratch", q |-> Misses + 1])]
          /\ UNCHANGED vars
    /\ UNCHANGED streamVars

LookedUp ==
    /\ moe.at = "lookup" /\ Len(moe.use) = Items
    /\ moe' = [moe EXCEPT !.at = "load", !.q = 1]
    /\ UNCHANGED <<vars, streamVars>>

Item(q) == CHOOSE j \in 1 .. Len(moe.use) : moe.use[j] = [from |-> "scratch", q |-> q]

\* expert_load: a slab that is missing or too small is replaced by one of the expert's size; when
\* there is no memory for it the program ends.
Fits(q, size) == ws[q].slab # NoSlab /\ size <= ws[q].cap

Load ==
    LET q == moe.q
        k == moe.todo[Item(q)]
        size == ExpertSize[k.expert] IN
    /\ moe.at = "load" /\ q <= Misses
    /\ \/ /\ Fits(q, size)
          /\ bytes' = [bytes EXCEPT ![ws[q].slab] = k]
          /\ UNCHANGED ws
       \/ /\ ~Fits(q, size) /\ FreeSlabs # {}
          /\ bytes' = [Freed({ws[q].slab}) EXCEPT ![Fresh(FreeSlabs)] = k]
          /\ ws' = [ws EXCEPT ![q] = [slab |-> Fresh(FreeSlabs), cap |-> size]]
    /\ moe' = [moe EXCEPT !.q = @ + 1]
    /\ UNCHANGED <<vars, slot, pool>>

Loaded ==
    /\ moe.at = "load" /\ moe.q > Misses
    /\ moe' = [moe EXCEPT !.at = "math"]
    /\ UNCHANGED <<vars, streamVars>>

Compute ==
    /\ moe.at = "math" /\ call.phase = "idle"
    /\ moe' = [moe EXCEPT !.at = "admit", !.q = 1]
    /\ UNCHANGED <<vars, streamVars>>

\* The slab that was read goes to the handle, the handle's old one to the scratch slot.
\* Fault: the scratch slot keeps the slab it gave away.
LeftInScratchBoth(q, p) == ws[q]
LeftInScratch(q, p) == slot[p]

Offer(q, p) ==
    /\ slot' = [slot EXCEPT ![p] = ws[q]]
    /\ InsertBase(moe.todo[Item(q)], p, ws[q].cap + SlotBytes)
    /\ moe' = [moe EXCEPT !.at = "offered", !.handle = p]

OfferPooled ==
    /\ moe.at = "admit" /\ moe.q <= Misses /\ pool # <<>>
    /\ LET p == pool[Len(pool)] IN
         /\ Offer(moe.q, p)
         /\ ws' = [ws EXCEPT ![moe.q] = LeftInScratch(moe.q, p)]
         /\ pool' = SubSeq(pool, 1, Len(pool) - 1)
    /\ UNCHANGED bytes

OfferNew ==
    /\ moe.at = "admit" /\ moe.q <= Misses /\ pool = <<>>
    /\ Payloads \ Allocated # {}
    /\ Offer(moe.q, Fresh(Payloads \ Allocated))
    /\ ws' = [ws EXCEPT ![moe.q] = EmptySlot]
    /\ UNCHANGED <<pool, bytes>>

Answered == moe.at = "offered" /\ call.phase = "idle"

Admitted ==
    /\ Answered /\ call.status = "OK"
    /\ moe' = [moe EXCEPT !.at = "admit", !.q = @ + 1]
    /\ UNCHANGED <<vars, streamVars>>

\* Fault: a refused handle goes to the pool with the slab that scratch has again.
TakenBackBoth(p, q) == slot[p]
TakenBack(p, q) == ws[q]

\* A refused expert was computed and is dropped: slab and handle change places again.
Refused ==
    LET q == moe.q
        p == moe.handle
        read == slot[p].slab
        spare == ws[q].slab IN
    /\ Answered /\ call.status # "OK"
    /\ ws' = [ws EXCEPT ![q] = slot[p]]
    /\ IF PoolTakes
         THEN /\ pool' = Append(pool, p)
              /\ slot' = [slot EXCEPT ![p] = TakenBack(p, q)]
              /\ bytes' = [bytes EXCEPT ![read] = Spare]
         ELSE /\ slot' = [slot EXCEPT ![p] = None]
              /\ bytes' = [Freed({spare}) EXCEPT ![read] = Spare]
              /\ UNCHANGED pool
    /\ moe' = [moe EXCEPT !.at = "admit", !.q = @ + 1]
    /\ UNCHANGED vars

NextBatch ==
    /\ moe.at = "admit" /\ moe.q > Misses
    /\ moe' = IF Left > Items
                THEN [moe EXCEPT !.at = "lookup", !.use = <<>>,
                                 !.todo = SubSeq(@, Items + 1, Left)]
                ELSE Idling
    /\ UNCHANGED <<vars, streamVars>>

\* After a turn the pool is given up.
TurnEnds ==
    /\ moe.at = "idle" /\ pool # <<>>
    /\ TrimPool
    /\ UNCHANGED <<vars, moe>>

-----------------------------------------------------------------------------
StreamInit ==
    /\ Init
    /\ slot = [p \in Payloads |-> None] /\ pool = <<>>
    /\ ws = [q \in Scratch |-> EmptySlot]
    /\ bytes = [b \in Slabs |-> Nowhere]
    /\ moe = Idling

\* Critical pressure asks for everything, a warning for a quarter.
PressureTargets == {0, (payload_bytes \div 4) * 3}

LayerStep ==
    \/ \E target \in PressureTargets : ServicePressure(target)
    \/ PressureServed \/ NoPressure
    \/ \E r \in Routings : Route(r)
    \/ WholeLayer \/ LookUp \/ LookedUp \/ Load \/ Loaded \/ Compute
    \/ OfferPooled \/ OfferNew \/ Admitted \/ Refused \/ NextBatch

StreamNext ==
    \/ \E l \in Layers : StartLayer(l)
    \/ LayerStep
    \/ CacheStep
    \/ TurnEnds

StreamSpec == StreamInit /\ [][StreamNext]_allVars /\ WF_allVars(CacheStep)

-----------------------------------------------------------------------------
(* Properties. *)

\* Every handle that exists is in one place (lent to the cache, in the pool, or being offered),
\* and every slab that exists is in one handle or scratch slot, which holds no other: nothing
\* leaks, nothing is freed or filled while another place still points to it.
Places == {<<"scratch", q>> : q \in Scratch} \cup {<<"handle", p>> : p \in Allocated}
SlabAt(x) == IF x[1] = "scratch" THEN ws[x[2]].slab ELSE slot[x[2]].slab
Pooled == {pool[i] : i \in 1 .. Len(pool)}
Offered == IF moe.at = "offered" THEN {moe.handle} ELSE {}

BuffersOwnedOnce ==
    /\ Allocated = lent \cup Pooled \cup Offered
    /\ Pooled \cap (lent \cup Offered) = {} /\ Cardinality(Pooled) = Len(pool)
    /\ {SlabAt(x) : x \in Places} \ {NoSlab} = Slabs \ FreeSlabs
    /\ \A x, y \in Places : SlabAt(x) = SlabAt(y) /\ SlabAt(x) # NoSlab => x = y

\* What a hit returns is the expert it names: the bytes behind every resident entry are those of
\* its key, whatever was evicted, pooled, refused and read again in between.
CacheHoldsItsExperts ==
    \A s \in Occupied : bytes[slot[entries[s].base].slab] = entries[s].key

\* Every expert of a batch is computed from its own bytes: nothing between its lookup and its
\* computation evicts, frees or overwrites it.
ComputesWithRouted ==
    moe.at = "math" => \A j \in 1 .. Len(moe.use) :
        LET u == SlotOf(moe.use[j]) IN u # None /\ u.slab # NoSlab /\ bytes[u.slab] = moe.todo[j]

=============================================================================
