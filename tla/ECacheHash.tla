----------------------------- MODULE ECacheHash -----------------------------
(***************************************************************************)
(* The probe table behind the lookups of src/expert_cache.c: open          *)
(* addressing with linear probes, tombstones for erased keys, and a        *)
(* rebuild when a quarter of the buckets are tombstones.  ExpertCache      *)
(* takes a lookup to be a search of the entries; this module is why it may.*)
(*                                                                         *)
(* A call erases any number of entries (make_room, pressure, remove,       *)
(* destroy: which ones is ExpertCache's business) and, when it is an       *)
(* insertion, then places its key.  The hash is any function.              *)
(***************************************************************************)
EXTENDS Naturals, FiniteSets

CONSTANTS
    Keys, NoKey,
    MaxEntries,      \* config.max_entries
    BucketCount,     \* bucket_count
    Homes,           \* the buckets hash_key may send a key to
    Empty, Tombstone \* HASH_EMPTY, HASH_TOMBSTONE

Slots == 0 .. MaxEntries - 1
Buckets == 0 .. BucketCount - 1

ASSUME HashAssumption ==
    /\ MaxEntries \in Nat \ {0}
    /\ BucketCount \in Nat /\ BucketCount >= 2 * MaxEntries
    /\ Homes \subseteq Buckets
    /\ NoKey \notin Keys
    /\ Empty \notin Slots /\ Tombstone \notin Slots /\ Empty # Tombstone

VARIABLES
    home,       \* hash_key(key) & mask
    entry,      \* entries[slot]: its key, or NoKey if it is not occupied
    bucket,     \* buckets
    tombstones,
    call,       \* idle, room (between evictions) or rebuild
    wanted,     \* the key an insertion will place, or NoKey
    index        \* the loop variable of hash_rebuild

vars == <<home, entry, bucket, tombstones, call, wanted, index>>

Init ==
    /\ home \in [Keys -> Homes]
    /\ entry = [s \in Slots |-> NoKey]
    /\ bucket = [b \in Buckets |-> Empty]
    /\ tombstones = 0
    /\ call = "idle" /\ wanted = NoKey /\ index = 0

-----------------------------------------------------------------------------
(* hash_find.                                                              *)

\* The bucket of the i-th probe for k.
Probe(k, i) == IF home[k] + i < BucketCount THEN home[k] + i
               ELSE home[k] + i - BucketCount

Hit(k, b) == bucket[b] \in Slots /\ entry[bucket[b]] = k

\* A probe ends the search when it hits k or an EMPTY bucket; not at a tombstone.
Ends(k, b) == bucket[b] = Empty \/ Hit(k, b)

StopsAt(k, i) ==
    Ends(k, Probe(k, i)) /\ \A j \in 0 .. i - 1 : ~Ends(k, Probe(k, j))

\* The search for k finds it in bucket b.
Finds(k, b) == Hit(k, b) /\ \E i \in Buckets : b = Probe(k, i) /\ StopsAt(k, i)

Found(k) == \E b \in Buckets : Finds(k, b)

Usable(b) == bucket[b] \in {Empty, Tombstone}

\* What a miss returns: the first tombstone, or else the EMPTY bucket that
\* ended the search.
FreeAt(k, i) == Usable(Probe(k, i)) /\ \A j \in 0 .. i - 1 : ~Usable(Probe(k, j))

HasFree(k) == \E i \in Buckets : FreeAt(k, i)
FreeBucket(k) == Probe(k, CHOOSE i \in Buckets : FreeAt(k, i))

-----------------------------------------------------------------------------
(* Erasing and rebuilding.                                                 *)

\* Fault: the erased bucket cuts the probe paths that pass it.
ErasedToEmpty == Empty
Erased == Tombstone

\* Fault: the table is never rebuilt.
RebuildNever(count) == FALSE
RebuildDue(count) == count > BucketCount \div 4

Cleared == [b \in Buckets |-> Empty]

\* The table part of release_base: hash_erase, the entry cleared, and perhaps
\* the start of hash_rebuild.
Erase(s) ==
    LET k == entry[s]
        count == IF Found(k) THEN tombstones + 1 ELSE tombstones
    IN  /\ call = "room" /\ k # NoKey
        /\ entry' = [entry EXCEPT ![s] = NoKey]
        /\ IF RebuildDue(count)
           THEN /\ bucket' = Cleared
                /\ tombstones' = 0
                /\ call' = "rebuild" /\ index' = 0
           ELSE /\ bucket' = [b \in Buckets |-> IF Finds(k, b) THEN Erased ELSE bucket[b]]
                /\ tombstones' = count
                /\ UNCHANGED <<call, index>>
        /\ UNCHANGED <<home, wanted>>

\* One turn of the loop of hash_rebuild.
RebuildSlot ==
    /\ call = "rebuild" /\ index < MaxEntries
    /\ bucket' = IF entry[index] = NoKey THEN bucket
                 ELSE [bucket EXCEPT ![FreeBucket(entry[index])] = index]
    /\ index' = index + 1
    /\ UNCHANGED <<home, entry, tombstones, call, wanted>>

RebuildReturns ==
    /\ call = "rebuild" /\ index = MaxEntries
    /\ call' = "room"
    /\ UNCHANGED <<home, entry, bucket, tombstones, wanted, index>>

-----------------------------------------------------------------------------
(* The calls.                                                              *)

\* ecache_insert_base of a key that is not there: any other is refused.
StartInsert(k) ==
    /\ call = "idle" /\ ~Found(k)
    /\ call' = "room" /\ wanted' = k
    /\ UNCHANGED <<home, entry, bucket, tombstones, index>>

\* ecache_remove, ecache_apply_pressure, ecache_destroy, and the eviction loop
\* of ecache_promote.
StartReclaim ==
    /\ call = "idle"
    /\ call' = "room" /\ wanted' = NoKey
    /\ UNCHANGED <<home, entry, bucket, tombstones, index>>

ReclaimReturns ==
    /\ call = "room" /\ wanted = NoKey
    /\ call' = "idle"
    /\ UNCHANGED <<home, entry, bucket, tombstones, wanted, index>>

\* free_slot.
IsFreeSlot(s) == entry[s] = NoKey /\ \A r \in 0 .. s - 1 : entry[r] # NoKey

LeftTombstones(b) == IF bucket[b] = Tombstone THEN tombstones - 1 ELSE tombstones

\* The end of ecache_insert_base, in the bucket found after make_room.  It
\* returns ECACHE_ERR_CORRUPT if the key has appeared or no bucket is left.
Place(s) ==
    /\ call = "room" /\ wanted # NoKey /\ IsFreeSlot(s)
    /\ IF Found(wanted) \/ ~HasFree(wanted)
       THEN UNCHANGED <<entry, bucket, tombstones>>
       ELSE /\ entry' = [entry EXCEPT ![s] = wanted]
            /\ tombstones' = LeftTombstones(FreeBucket(wanted))
            /\ bucket' = [bucket EXCEPT ![FreeBucket(wanted)] = s]
    /\ call' = "idle" /\ wanted' = NoKey
    /\ UNCHANGED <<home, index>>

Next ==
    \/ \E k \in Keys : StartInsert(k)
    \/ StartReclaim \/ ReclaimReturns \/ RebuildSlot \/ RebuildReturns
    \/ \E s \in Slots : Erase(s) \/ Place(s)

Spec == Init /\ [][Next]_vars

-----------------------------------------------------------------------------
(* Properties.                                                             *)

\* Every variable keeps its type; the tombstone counter stays between none
\* and the quarter at which the table is rebuilt.
HashTypeOK ==
    /\ home \in [Keys -> Homes]
    /\ entry \in [Slots -> Keys \cup {NoKey}]
    /\ bucket \in [Buckets -> Slots \cup {Empty, Tombstone}]
    /\ tombstones \in 0 .. BucketCount \div 4
    /\ call \in {"idle", "room", "rebuild"}
    /\ wanted \in Keys \cup {NoKey}
    /\ index \in 0 .. MaxEntries

\* Outside a rebuild, hash_find finds exactly the keys that are resident: no
\* erasure hides a key further down its probe path, and no erased key is found.
LookupAgrees ==
    call # "rebuild" => \A k \in Keys : Found(k) <=> \E s \in Slots : entry[s] = k

\* What ecache_validate says of the table: no key is resident twice, a bucket
\* refers to an occupied entry, and no two to the same.
EachEntryOnce ==
    /\ \A r, s \in Slots : entry[r] = entry[s] /\ entry[r] # NoKey => r = s
    /\ \A b \in Buckets : bucket[b] \in Slots => entry[bucket[b]] # NoKey
    /\ \A a, b \in Buckets : bucket[a] \in Slots /\ bucket[a] = bucket[b] => a = b

\* The counter that triggers a rebuild does not drift from the table, over any
\* sequence of erasures, reuses and rebuilds.
TombstonesCounted == tombstones = Cardinality({b \in Buckets : bucket[b] = Tombstone})

\* However long the cache runs, the search for an absent key ends before it has
\* looked at every bucket: an EMPTY one is left.
AnEmptyBucket == \E b \in Buckets : bucket[b] = Empty
=============================================================================
