-------------------------- MODULE ECacheHashProofs --------------------------
(***************************************************************************)
(* Proofs about ECacheHash, for every hash function, every number of       *)
(* entries and every table at least twice as large.  The argument: from    *)
(* the home of a resident key to the bucket that refers to it there is no  *)
(* EMPTY bucket (Reaches).  Erasing leaves tombstones, which are not       *)
(* EMPTY; placing fills the first usable bucket of the path; a rebuild     *)
(* starts from nothing and establishes it for one slot after the other.    *)
(***************************************************************************)
EXTENDS ECacheHash, RangeSumTheorems, FiniteSetTheorems

\* Slot s is occupied and, in a rebuild, already back in the table.
Settled(s) == entry[s] # NoKey /\ (call = "rebuild" => s < index)

\* A bucket on the probe path of s's key refers to s, with no EMPTY before it.
Reaches(s) ==
    \E i \in Buckets :
        /\ bucket[Probe(entry[s], i)] = s
        /\ \A j \in 0 .. i - 1 : bucket[Probe(entry[s], j)] # Empty

TombstoneSet == {b \in Buckets : bucket[b] = Tombstone}

HashInv ==
    /\ HashTypeOK
    /\ EachEntryOnce
    /\ \A s \in Slots : Settled(s) => Reaches(s)
    /\ call = "rebuild" =>
          /\ tombstones = 0
          /\ \A b \in Buckets : bucket[b] = Empty \/ bucket[b] \in 0 .. index - 1
    /\ call # "idle" /\ wanted # NoKey => \A s \in Slots : entry[s] # wanted
    /\ tombstones = Cardinality(TombstoneSet)

-----------------------------------------------------------------------------
(* Probe paths.                                                            *)

\* The probes of a key are buckets, all different.
LEMMA ProbesDiffer ==
    ASSUME home \in [Keys -> Homes], NEW k \in Keys, NEW i \in Buckets, NEW j \in Buckets
    PROVE  /\ Probe(k, i) \in Buckets
           /\ Probe(k, i) = Probe(k, j) => i = j
<1>1. home[k] \in Buckets /\ BucketCount \in Nat
  BY HashAssumption
<1> QED
  BY <1>1 DEF Probe, Buckets

\* They reach every bucket.
LEMMA ProbesReachAll ==
    ASSUME home \in [Keys -> Homes], NEW k \in Keys, NEW b \in Buckets
    PROVE  \E i \in Buckets : Probe(k, i) = b
<1>1. home[k] \in Buckets /\ BucketCount \in Nat
  BY HashAssumption
<1>2. CASE home[k] <= b
  <2>1. b - home[k] \in Buckets /\ Probe(k, b - home[k]) = b
    BY <1>1, <1>2 DEF Probe, Buckets
  <2> QED
    BY <2>1
<1>3. CASE b < home[k]
  <2>1. /\ b - home[k] + BucketCount \in Buckets
        /\ Probe(k, b - home[k] + BucketCount) = b
    BY <1>1, <1>3 DEF Probe, Buckets
  <2> QED
    BY <2>1
<1> QED
  BY <1>1, <1>2, <1>3 DEF Buckets

\* The probes before the i-th are probes.
LEMMA EarlierProbes ==
    ASSUME NEW i \in Buckets
    PROVE  0 .. i - 1 \subseteq Buckets /\ \A j \in 0 .. i - 1 : j # i
BY HashAssumption DEF Buckets

\* hash_find finds every settled slot, in the bucket that refers to it.
LEMMA SettledIsFound ==
    ASSUME HashInv, NEW s \in Slots, Settled(s)
    PROVE  \E b \in Buckets : Finds(entry[s], b) /\ bucket[b] = s
<1> DEFINE k == entry[s]
<1>1. k \in Keys
  BY DEF HashInv, HashTypeOK, Settled
<1>2. PICK i \in Buckets : /\ bucket[Probe(k, i)] = s
                           /\ \A j \in 0 .. i - 1 : bucket[Probe(k, j)] # Empty
  BY DEF HashInv, Reaches
<1>3. Probe(k, i) \in Buckets
  BY <1>1, ProbesDiffer DEF HashInv, HashTypeOK
<1>4. Hit(k, Probe(k, i))
  BY <1>2 DEF Hit
<1>5. ASSUME NEW j \in 0 .. i - 1 PROVE ~Hit(k, Probe(k, j))
  <2>1. j \in Buckets /\ j # i
    BY EarlierProbes
  <2>2. Probe(k, j) \in Buckets /\ Probe(k, j) # Probe(k, i)
    BY <1>1, <2>1, ProbesDiffer DEF HashInv, HashTypeOK
  <2>3. SUFFICES ASSUME bucket[Probe(k, j)] \in Slots, entry[bucket[Probe(k, j)]] = k
                 PROVE  FALSE
    BY DEF Hit
  <2>4. bucket[Probe(k, j)] = s
    BY <2>3, <1>1, HashAssumption DEF HashInv, EachEntryOnce
  <2> QED
    BY <2>4, <2>2, <1>2, <1>3 DEF HashInv, EachEntryOnce
<1>6. StopsAt(k, i)
  BY <1>2, <1>4, <1>5 DEF StopsAt, Ends
<1> QED
  BY <1>2, <1>3, <1>4, <1>6 DEF Finds

\* What it finds is the slot of the key, and there is only one bucket.
LEMMA FoundOnce ==
    ASSUME HashInv, NEW k \in Keys, NEW a \in Buckets, NEW b \in Buckets,
           Finds(k, a), Finds(k, b)
    PROVE  a = b /\ bucket[a] \in Slots /\ entry[bucket[a]] = k
<1>1. /\ bucket[a] \in Slots /\ entry[bucket[a]] = k
      /\ bucket[b] \in Slots /\ entry[bucket[b]] = k
  BY DEF Finds, Hit
<1>2. bucket[a] = bucket[b]
  BY <1>1, HashAssumption DEF HashInv, EachEntryOnce
<1> QED
  BY <1>1, <1>2 DEF HashInv, EachEntryOnce

\* If a bucket is usable, every path has a first usable one.
LEMMA PathHasFree ==
    ASSUME home \in [Keys -> Homes], NEW k \in Keys, NEW b \in Buckets, Usable(b)
    PROVE  HasFree(k)
<1> DEFINE T == {i \in Buckets : Usable(Probe(k, i))}
<1>1. T # {}
  BY ProbesReachAll
<1>2. T \in SUBSET Nat
  BY HashAssumption DEF Buckets
<1>3. PICK m \in T : \A i \in T : m <= i
  <2> HIDE DEF T
  <2> QED
    BY <1>1, <1>2, LeastElement
<1>4. \A j \in 0 .. m - 1 : j \in Buckets /\ ~(m <= j)
  BY HashAssumption DEF Buckets
<1>5. \A j \in 0 .. m - 1 : ~Usable(Probe(k, j))
  BY <1>3, <1>4
<1> QED
  BY <1>3, <1>5 DEF HasFree, FreeAt

\* FreeBucket is the first usable bucket of the path.
LEMMA FreeBucketIsFirst ==
    ASSUME home \in [Keys -> Homes], NEW k \in Keys, HasFree(k)
    PROVE  \E i \in Buckets : /\ FreeBucket(k) = Probe(k, i)
                              /\ FreeBucket(k) \in Buckets
                              /\ FreeAt(k, i)
<1> DEFINE i == CHOOSE i \in Buckets : FreeAt(k, i)
<1>1. i \in Buckets /\ FreeAt(k, i)
  BY DEF HasFree
<1>2. FreeBucket(k) = Probe(k, i)
  BY DEF FreeBucket
<1> HIDE DEF i
<1>3. Probe(k, i) \in Buckets
  BY <1>1, ProbesDiffer
<1> QED
  BY <1>1, <1>2, <1>3

-----------------------------------------------------------------------------
(* Counting buckets.                                                       *)

\* There are BucketCount buckets.
LEMMA BucketsAreFinite == IsFiniteSet(Buckets) /\ Cardinality(Buckets) = BucketCount
<1>1. BucketCount \in Nat /\ BucketCount > 0 /\ BucketCount - 1 \in Int
  BY HashAssumption
<1> QED
  BY <1>1, FS_Interval DEF Buckets

\* Entries and tombstones together never fill the table.
LEMMA EmptyIsLeft == HashInv => AnEmptyBucket
<1>1. SUFFICES ASSUME HashInv, \A b \in Buckets : bucket[b] # Empty
               PROVE  FALSE
  BY DEF AnEmptyBucket
<1> DEFINE R == {b \in Buckets : bucket[b] \in Slots}
           f == [b \in R |-> bucket[b]]
<1>2. Buckets = R \cup TombstoneSet
  BY <1>1 DEF HashInv, HashTypeOK, TombstoneSet
<1>3. IsFiniteSet(Slots) /\ Cardinality(Slots) = MaxEntries
  <2>1. MaxEntries \in Nat /\ MaxEntries > 0 /\ MaxEntries - 1 \in Int
    BY HashAssumption
  <2> QED
    BY <2>1, FS_Interval DEF Slots
<1>4. f \in Injection(R, Slots)
  BY <1>1 DEF Injection, IsInjective, HashInv, EachEntryOnce
<1>5. IsFiniteSet(R) /\ Cardinality(R) <= MaxEntries
  <2> HIDE DEF R, f
  <2> QED
    BY <1>3, <1>4, FS_Injection
<1>6. IsFiniteSet(TombstoneSet) /\ Cardinality(TombstoneSet) \in Nat
  BY BucketsAreFinite, FS_Subset, FS_CardinalityType DEF TombstoneSet
<1>7. Cardinality(R) \in Nat
  BY <1>5, FS_CardinalityType
<1>8. /\ Cardinality(Buckets) = Cardinality(R) + Cardinality(TombstoneSet)
                                  - Cardinality(R \cap TombstoneSet)
      /\ Cardinality(R \cap TombstoneSet) \in Nat
  <2> HIDE DEF R
  <2> QED
    BY <1>2, <1>5, <1>6, FS_Union, FS_Intersection, FS_CardinalityType
<1>9. Cardinality(TombstoneSet) <= BucketCount \div 4
  BY <1>1 DEF HashInv, HashTypeOK
<1>10. 4 * (BucketCount \div 4) <= BucketCount /\ BucketCount \div 4 \in Nat
  BY HashAssumption
<1> HIDE DEF R
<1> QED
  BY <1>5, <1>6, <1>7, <1>8, <1>9, <1>10, BucketsAreFinite, HashAssumption

\* Making bucket b a tombstone, or no longer one, changes the count by one.
LEMMA CountedTombstones ==
    ASSUME NEW b \in Buckets
    PROVE  /\ IsFiniteSet(TombstoneSet) /\ Cardinality(TombstoneSet) \in Nat
           /\ b \notin TombstoneSet =>
                 Cardinality(TombstoneSet \cup {b}) = Cardinality(TombstoneSet) + 1
           /\ b \in TombstoneSet =>
                 Cardinality(TombstoneSet \ {b}) = Cardinality(TombstoneSet) - 1
<1>1. IsFiniteSet(TombstoneSet) /\ Cardinality(TombstoneSet) \in Nat
  BY BucketsAreFinite, FS_Subset, FS_CardinalityType DEF TombstoneSet
<1> QED
  BY <1>1, FS_AddElement, FS_RemoveElement

-----------------------------------------------------------------------------
(* The invariant.                                                          *)

\* The empty table satisfies it.
LEMMA InitHashInv == Init => HashInv
<1> SUFFICES ASSUME Init PROVE HashInv
  OBVIOUS
<1>1. HashTypeOK
  <2>1. BucketCount \div 4 \in Nat
    BY HashAssumption
  <2> QED
    BY <2>1, HashAssumption DEF Init, HashTypeOK
<1>2. EachEntryOnce
  BY HashAssumption DEF Init, EachEntryOnce
<1>3. \A s \in Slots : ~Settled(s)
  BY DEF Init, Settled
<1>4. TombstoneSet = {}
  BY HashAssumption DEF Init, TombstoneSet
<1>5. tombstones = Cardinality(TombstoneSet)
  BY <1>4, FS_EmptySet DEF Init
<1> QED
  BY <1>1, <1>2, <1>3, <1>5 DEF HashInv, Init

\* Putting a key that is not in the table into the first usable bucket of its
\* path: ecache_insert_base and hash_rebuild both do.
LEMMA PlacingKeeps ==
    ASSUME HashInv, NEW s \in Slots, NEW k \in Keys, HasFree(k),
           entry' = [entry EXCEPT ![s] = k],
           bucket' = [bucket EXCEPT ![FreeBucket(k)] = s],
           home' = home,
           \A b \in Buckets : bucket[b] # s,
           \A r \in Slots : entry[r] = k => r = s
    PROVE  /\ bucket' \in [Buckets -> Slots \cup {Empty, Tombstone}]
           /\ EachEntryOnce'
           /\ Reaches(s)'
           /\ \A r \in Slots : r # s /\ Settled(r) => Reaches(r)'
           /\ TombstoneSet' = TombstoneSet \ {FreeBucket(k)}
<1>1. PICK i \in Buckets : /\ FreeBucket(k) = Probe(k, i)
                           /\ FreeBucket(k) \in Buckets
                           /\ FreeAt(k, i)
  BY FreeBucketIsFirst DEF HashInv, HashTypeOK
<1> DEFINE b0 == FreeBucket(k)
<1>2. b0 \in Buckets /\ Usable(b0) /\ bucket[b0] \notin Slots
  BY <1>1, HashAssumption DEF FreeAt, Usable
<1>3. bucket \in [Buckets -> Slots \cup {Empty, Tombstone}]
      /\ entry \in [Slots -> Keys \cup {NoKey}]
  BY DEF HashInv, HashTypeOK
<1>4. \A b \in Buckets : bucket'[b] = IF b = b0 THEN s ELSE bucket[b]
  BY <1>3
<1>5. \A r \in Slots : entry'[r] = IF r = s THEN k ELSE entry[r]
  BY <1>3
<1>6. \A q \in Keys, i1 \in Buckets : Probe(q, i1)' = Probe(q, i1) /\ Probe(q, i1) \in Buckets
  BY ProbesDiffer DEF Probe, HashInv, HashTypeOK
<1> HIDE DEF b0
<1>7. EachEntryOnce'
  <2>1. ASSUME NEW q \in Slots, NEW r \in Slots, entry'[q] = entry'[r], entry'[q] # NoKey
        PROVE  q = r
    BY <2>1, <1>5 DEF HashInv, EachEntryOnce
  <2>2. ASSUME NEW b \in Buckets, bucket'[b] \in Slots PROVE entry'[bucket'[b]] # NoKey
    BY <2>2, <1>4, <1>5, HashAssumption DEF HashInv, EachEntryOnce
  <2>3. ASSUME NEW a \in Buckets, NEW b \in Buckets, bucket'[a] \in Slots,
               bucket'[a] = bucket'[b]
        PROVE  a = b
    BY <2>3, <1>4 DEF HashInv, EachEntryOnce
  <2> QED
    BY <2>1, <2>2, <2>3 DEF EachEntryOnce
<1>8. Reaches(s)'
  <2>1. bucket'[Probe(k, i)] = s
    BY <1>1, <1>2, <1>4 DEF b0
  <2>2. ASSUME NEW j \in 0 .. i - 1 PROVE bucket'[Probe(k, j)] # Empty
    <3>1. ~Usable(Probe(k, j)) /\ j \in Buckets
      BY <1>1, EarlierProbes DEF FreeAt
    <3> QED
      BY <3>1, <1>4, <1>6, HashAssumption DEF Usable
  <2>3. \A j \in 0 .. i - 1 : j \in Buckets
    BY EarlierProbes
  <2> QED
    BY <2>1, <2>2, <2>3, <1>5, <1>6 DEF Reaches
<1>9. ASSUME NEW r \in Slots, r # s, Settled(r) PROVE Reaches(r)'
  <2>1. PICK n \in Buckets : /\ bucket[Probe(entry[r], n)] = r
                             /\ \A j \in 0 .. n - 1 : bucket[Probe(entry[r], j)] # Empty
    BY <1>9 DEF HashInv, Reaches
  <2>2. entry[r] \in Keys /\ entry'[r] = entry[r]
    BY <1>3, <1>5, <1>9 DEF Settled
  <2>3. \A j \in 0 .. n - 1 : j \in Buckets
    BY EarlierProbes
  <2>4. bucket'[Probe(entry[r], n)] = r
    BY <2>1, <2>2, <1>2, <1>4, <1>6
  <2>5. \A j \in 0 .. n - 1 : bucket'[Probe(entry[r], j)] # Empty
    BY <2>1, <2>2, <2>3, <1>4, <1>6, HashAssumption
  <2> QED
    BY <2>2, <2>3, <2>4, <2>5, <1>6 DEF Reaches
<1>10. TombstoneSet' = TombstoneSet \ {b0}
  BY <1>4, HashAssumption DEF TombstoneSet
<1> QED
  BY <1>3, <1>7, <1>8, <1>9, <1>10 DEF b0

\* ecache_insert_base keeps it.
LEMMA PlaceKeeps ==
    ASSUME HashInv, NEW s \in Slots, Place(s)
    PROVE  HashInv'
<1> DEFINE k == wanted
<1>1. CASE Found(k) \/ ~HasFree(k)
  <2>1. UNCHANGED <<home, entry, bucket, tombstones, index>> /\ call' = "idle" /\ call = "room"
        /\ wanted' = NoKey
    BY <1>1 DEF Place
  <2>2. \A r \in Slots : Settled(r)' => Settled(r)
    BY <2>1 DEF Settled
  <2>3. \A r \in Slots : Reaches(r)' <=> Reaches(r)
    BY <2>1 DEF Reaches, Probe
  <2> QED
    BY <2>1, <2>2, <2>3 DEF HashInv, HashTypeOK, EachEntryOnce, TombstoneSet
<1>2. CASE ~Found(k) /\ HasFree(k)
  <2>1. /\ call = "room" /\ k # NoKey /\ k \in Keys /\ entry[s] = NoKey
        /\ entry' = [entry EXCEPT ![s] = k]
        /\ tombstones' = LeftTombstones(FreeBucket(k))
        /\ bucket' = [bucket EXCEPT ![FreeBucket(k)] = s]
        /\ call' = "idle" /\ wanted' = NoKey /\ home' = home /\ index' = index
    BY <1>2 DEF Place, IsFreeSlot, HashInv, HashTypeOK
  <2>2. \A b \in Buckets : bucket[b] # s
    BY <2>1 DEF HashInv, EachEntryOnce
  <2>3. \A r \in Slots : entry[r] # k
    BY <2>1 DEF HashInv
  <2>4. /\ bucket' \in [Buckets -> Slots \cup {Empty, Tombstone}]
        /\ EachEntryOnce'
        /\ Reaches(s)'
        /\ \A r \in Slots : r # s /\ Settled(r) => Reaches(r)'
        /\ TombstoneSet' = TombstoneSet \ {FreeBucket(k)}
    BY <1>2, <2>1, <2>2, <2>3, PlacingKeeps
  <2>5. \A r \in Slots : Settled(r)' => r = s \/ Settled(r)
    BY <2>1 DEF Settled, HashInv, HashTypeOK
  <2>6. FreeBucket(k) \in Buckets
    BY <1>2, <2>1, FreeBucketIsFirst DEF HashInv, HashTypeOK
  <2>7. tombstones' = Cardinality(TombstoneSet')
    <3>1. CASE bucket[FreeBucket(k)] = Tombstone
      BY <3>1, <2>1, <2>4, <2>6, CountedTombstones DEF LeftTombstones, TombstoneSet, HashInv
    <3>2. CASE bucket[FreeBucket(k)] # Tombstone
      <4>1. TombstoneSet' = TombstoneSet
        BY <3>2, <2>4 DEF TombstoneSet
      <4> QED
        BY <3>2, <4>1, <2>1 DEF LeftTombstones, HashInv
    <3> QED
      BY <3>1, <3>2
  <2>8. tombstones' \in 0 .. BucketCount \div 4
    <3>1. Cardinality(TombstoneSet) \in Nat
      BY <2>6, CountedTombstones
    <3>2. bucket[FreeBucket(k)] = Tombstone => tombstones # 0
      <4>1. SUFFICES ASSUME bucket[FreeBucket(k)] = Tombstone, tombstones = 0 PROVE FALSE
        OBVIOUS
      <4>2. TombstoneSet = {}
        BY <4>1, <2>6, CountedTombstones, FS_EmptySet DEF HashInv
      <4> QED
        BY <4>1, <4>2, <2>6 DEF TombstoneSet
    <3>3. BucketCount \div 4 \in Nat
      BY HashAssumption
    <3>4. tombstones \in Nat /\ tombstones <= BucketCount \div 4
      BY <3>3 DEF HashInv, HashTypeOK
    <3>5. tombstones' \in Nat /\ tombstones' <= tombstones
      BY <2>1, <3>2, <3>4 DEF LeftTombstones
    <3> QED
      BY <3>3, <3>4, <3>5
  <2>9. HashTypeOK'
    BY <2>1, <2>4, <2>8 DEF HashInv, HashTypeOK
  <2> QED
    BY <2>1, <2>4, <2>5, <2>7, <2>9 DEF HashInv
<1> QED
  BY <1>1, <1>2

\* One turn of the loop of hash_rebuild keeps it.
LEMMA RebuildSlotKeeps ==
    ASSUME HashInv, RebuildSlot
    PROVE  HashInv'
<1>1. /\ call = "rebuild" /\ call' = "rebuild" /\ index \in Slots /\ index' = index + 1
      /\ UNCHANGED <<home, entry, tombstones, wanted>>
      /\ index' \in 0 .. MaxEntries
  BY HashAssumption DEF RebuildSlot, HashInv, HashTypeOK, Slots
<1>2. \A b \in Buckets : bucket[b] = Empty \/ bucket[b] \in 0 .. index - 1
  BY <1>1 DEF HashInv
<1>3. 0 .. index' - 1 = (0 .. index - 1) \cup {index} /\ index \notin 0 .. index - 1
  BY <1>1, HashAssumption DEF Slots
<1>4. \A r \in Slots : r < index' <=> r = index \/ r < index
  BY <1>1, HashAssumption DEF Slots
<1>5. CASE entry[index] = NoKey
  <2>1. bucket' = bucket
    BY <1>5 DEF RebuildSlot
  <2>2. \A r \in Slots : Settled(r)' => Settled(r)
    BY <1>1, <1>4, <1>5 DEF Settled
  <2>3. \A r \in Slots : Reaches(r)' <=> Reaches(r)
    BY <1>1, <2>1 DEF Reaches, Probe
  <2> QED
    BY <1>1, <1>3, <2>1, <2>2, <2>3 DEF HashInv, HashTypeOK, EachEntryOnce, TombstoneSet
<1>6. CASE entry[index] # NoKey
  <2> PICK s \in Slots : s = index
    BY <1>1
  <2> DEFINE k == entry[s]
  <2>1. k \in Keys /\ bucket' = [bucket EXCEPT ![FreeBucket(k)] = s]
    BY <1>1, <1>6 DEF RebuildSlot, HashInv, HashTypeOK
  <2>2. HasFree(k)
    <3>1. PICK b \in Buckets : bucket[b] = Empty
      BY EmptyIsLeft DEF AnEmptyBucket
    <3> QED
      BY <3>1, <2>1, PathHasFree DEF Usable, HashInv, HashTypeOK
  <2>3. entry' = [entry EXCEPT ![s] = k]
    BY <1>1 DEF HashInv, HashTypeOK
  <2>4. \A b \in Buckets : bucket[b] # s
    BY <1>1, <1>2, <1>3, HashAssumption
  <2>5. \A r \in Slots : entry[r] = k => r = s
    BY <1>1, <1>6 DEF HashInv, EachEntryOnce
  <2>6. /\ bucket' \in [Buckets -> Slots \cup {Empty, Tombstone}]
        /\ EachEntryOnce'
        /\ Reaches(s)'
        /\ \A r \in Slots : r # s /\ Settled(r) => Reaches(r)'
        /\ TombstoneSet' = TombstoneSet \ {FreeBucket(k)}
    <3> HIDE DEF k
    <3> QED
      BY <1>1, <2>1, <2>2, <2>3, <2>4, <2>5, PlacingKeeps DEF HashInv
  <2>7. \A r \in Slots : Settled(r)' => r = s \/ Settled(r)
    BY <1>1, <1>4 DEF Settled
  <2>8. ASSUME NEW r \in Slots, Settled(r)' PROVE Reaches(r)'
    <3>1. CASE r = s
      BY <3>1, <2>6
    <3>2. CASE r # s
      BY <3>2, <2>6, <2>7, <2>8
    <3> QED
      BY <3>1, <3>2
  <2>9. FreeBucket(k) \in Buckets
    BY <2>1, <2>2, FreeBucketIsFirst DEF HashInv, HashTypeOK
  <2>10. TombstoneSet = {} /\ TombstoneSet' = {}
    BY <1>1, <1>2, <2>6, HashAssumption DEF TombstoneSet, Slots
  <2>11. tombstones' = Cardinality(TombstoneSet')
    BY <1>1, <2>10 DEF HashInv
  <2>12. \A b \in Buckets : bucket'[b] = Empty \/ bucket'[b] \in 0 .. index' - 1
    BY <1>2, <1>3, <2>1 DEF HashInv, HashTypeOK
  <2>13. HashTypeOK'
    BY <1>1, <2>6 DEF HashInv, HashTypeOK
  <2>14. call' # "idle" /\ wanted' # NoKey => \A r \in Slots : entry'[r] # wanted'
    BY <1>1 DEF HashInv
  <2> QED
    BY <1>1, <2>6, <2>8, <2>11, <2>12, <2>13, <2>14 DEF HashInv
<1> QED
  BY <1>5, <1>6

\* The table part of release_base keeps it.
LEMMA EraseKeeps ==
    ASSUME HashInv, NEW s \in Slots, Erase(s)
    PROVE  HashInv'
<1> DEFINE k == entry[s]
           count == IF Found(k) THEN tombstones + 1 ELSE tombstones
<1>1. /\ call = "room" /\ k # NoKey /\ k \in Keys
      /\ entry' = [entry EXCEPT ![s] = NoKey]
      /\ UNCHANGED <<home, wanted>>
  BY DEF Erase, HashInv, HashTypeOK
<1>2. \A r \in Slots : entry'[r] = IF r = s THEN NoKey ELSE entry[r]
  BY DEF Erase, HashInv, HashTypeOK
<1>3. wanted' # NoKey => \A r \in Slots : entry'[r] # wanted'
  BY <1>1, <1>2 DEF HashInv
<1>4. entry' \in [Slots -> Keys \cup {NoKey}]
  BY <1>1 DEF HashInv, HashTypeOK
<1>5. CASE RebuildDue(count)
  <2>1. bucket' = Cleared /\ tombstones' = 0 /\ call' = "rebuild" /\ index' = 0
    BY <1>5 DEF Erase
  <2>2. \A b \in Buckets : bucket'[b] = Empty
    BY <2>1 DEF Cleared
  <2>3. HashTypeOK'
    <3>1. 0 \in 0 .. BucketCount \div 4 /\ 0 \in 0 .. MaxEntries
      BY HashAssumption
    <3> QED
      BY <1>1, <1>4, <2>1, <3>1 DEF HashInv, HashTypeOK, Cleared
  <2>4. EachEntryOnce'
    BY <1>2, <2>2, HashAssumption DEF HashInv, EachEntryOnce
  <2>5. \A r \in Slots : ~Settled(r)'
    BY <2>1, HashAssumption DEF Settled, Slots
  <2>6. TombstoneSet' = {}
    BY <2>2, HashAssumption DEF TombstoneSet
  <2> QED
    BY <1>3, <2>1, <2>2, <2>3, <2>4, <2>5, <2>6, FS_EmptySet DEF HashInv
<1>6. CASE ~RebuildDue(count)
  <2>1. /\ bucket' = [b \in Buckets |-> IF Finds(k, b) THEN Tombstone ELSE bucket[b]]
        /\ tombstones' = count /\ call' = "room" /\ index' = index
    BY <1>1, <1>6 DEF Erase, Erased
  <2>2. Settled(s)
    BY <1>1 DEF Settled
  <2>3. PICK b0 \in Buckets : Finds(k, b0) /\ bucket[b0] = s
    BY <2>2, SettledIsFound
  <2>4. \A b \in Buckets : Finds(k, b) <=> b = b0
    BY <1>1, <2>3, FoundOnce
  <2>5. \A b \in Buckets : bucket'[b] = IF b = b0 THEN Tombstone ELSE bucket[b]
    BY <2>1, <2>4
  <2>6. tombstones' = tombstones + 1
    BY <2>1, <2>3 DEF Found
  <2>7. \A b \in Buckets : bucket[b] = s => b = b0
    BY <2>3 DEF HashInv, EachEntryOnce
  <2>8. EachEntryOnce'
    <3>1. ASSUME NEW q \in Slots, NEW r \in Slots, entry'[q] = entry'[r], entry'[q] # NoKey
          PROVE  q = r
      BY <3>1, <1>2 DEF HashInv, EachEntryOnce
    <3>2. ASSUME NEW b \in Buckets, bucket'[b] \in Slots PROVE entry'[bucket'[b]] # NoKey
      BY <3>2, <1>2, <2>5, <2>7, HashAssumption DEF HashInv, EachEntryOnce
    <3>3. ASSUME NEW a \in Buckets, NEW b \in Buckets, bucket'[a] \in Slots,
                 bucket'[a] = bucket'[b]
          PROVE  a = b
      BY <3>3, <2>5, HashAssumption DEF HashInv, EachEntryOnce
    <3> QED
      BY <3>1, <3>2, <3>3 DEF EachEntryOnce
  <2>9. ASSUME NEW r \in Slots, Settled(r)' PROVE Reaches(r)'
    <3>1. r # s /\ entry'[r] = entry[r] /\ Settled(r)
      BY <2>9, <2>1, <1>1, <1>2 DEF Settled
    <3>2. PICK n \in Buckets : /\ bucket[Probe(entry[r], n)] = r
                               /\ \A j \in 0 .. n - 1 : bucket[Probe(entry[r], j)] # Empty
      BY <3>1 DEF HashInv, Reaches
    <3>3. \A j \in 0 .. n - 1 : j \in Buckets
      BY EarlierProbes
    <3>4. \A j \in Buckets : /\ Probe(entry[r], j) \in Buckets
                             /\ Probe(entry[r], j)' = Probe(entry[r], j)
      BY <3>1, <1>1, ProbesDiffer DEF Probe, Settled, HashInv, HashTypeOK
    <3>5. bucket'[Probe(entry[r], n)] = r
      BY <3>1, <3>2, <3>4, <2>3, <2>5
    <3>6. \A j \in 0 .. n - 1 : bucket'[Probe(entry[r], j)] # Empty
      BY <3>2, <3>3, <3>4, <2>5, HashAssumption
    <3> QED
      BY <3>1, <3>3, <3>4, <3>5, <3>6 DEF Reaches
  <2>10. TombstoneSet' = TombstoneSet \cup {b0} /\ b0 \notin TombstoneSet
    BY <2>3, <2>5, HashAssumption DEF TombstoneSet
  <2>11. tombstones' = Cardinality(TombstoneSet')
    BY <2>6, <2>10, CountedTombstones DEF HashInv
  <2>12. tombstones' \in 0 .. BucketCount \div 4
    <3>1. tombstones' <= BucketCount \div 4
      BY <1>6, <2>1, <2>6, HashAssumption DEF RebuildDue, HashInv, HashTypeOK
    <3> QED
      BY <2>6, <3>1, HashAssumption DEF HashInv, HashTypeOK
  <2>13. HashTypeOK'
    <3>1. bucket' \in [Buckets -> Slots \cup {Empty, Tombstone}]
      BY <2>1 DEF HashInv, HashTypeOK
    <3> QED
      BY <1>1, <1>4, <2>1, <2>12, <3>1 DEF HashInv, HashTypeOK
  <2> QED
    BY <1>3, <2>1, <2>8, <2>9, <2>11, <2>13 DEF HashInv
<1> QED
  BY <1>5, <1>6

\* The start and the end of a call, and of a rebuild, keep it.
LEMMA CallsKeep ==
    ASSUME HashInv, \/ \E k \in Keys : StartInsert(k)
                    \/ StartReclaim \/ ReclaimReturns \/ RebuildReturns
    PROVE  HashInv'
<1>1. UNCHANGED <<home, entry, bucket, tombstones, index>>
  BY DEF StartInsert, StartReclaim, ReclaimReturns, RebuildReturns
<1>2. \A s \in Slots : Reaches(s)' <=> Reaches(s)
  BY <1>1 DEF Reaches, Probe
<1>3. /\ EachEntryOnce' /\ tombstones' = Cardinality(TombstoneSet')
  BY <1>1 DEF HashInv, EachEntryOnce, TombstoneSet
<1>4. CASE \E k \in Keys : StartInsert(k)
  <2>1. PICK k \in Keys : StartInsert(k)
    BY <1>4
  <2>2. ASSUME NEW s \in Slots PROVE entry[s] # k
    <3>1. SUFFICES ASSUME entry[s] = k PROVE FALSE
      OBVIOUS
    <3>2. Settled(s)
      BY <2>1, <3>1, HashAssumption DEF Settled, StartInsert
    <3> QED
      BY <2>1, <3>1, <3>2, SettledIsFound DEF StartInsert, Found
  <2>3. \A s \in Slots : Settled(s)' => Settled(s)
    BY <2>1, <1>1 DEF StartInsert, Settled
  <2> QED
    BY <1>1, <1>2, <1>3, <2>1, <2>2, <2>3 DEF StartInsert, HashInv, HashTypeOK
<1>5. CASE StartReclaim \/ ReclaimReturns
  <2>1. \A s \in Slots : Settled(s)' => Settled(s)
    BY <1>1, <1>5 DEF StartReclaim, ReclaimReturns, Settled
  <2> QED
    BY <1>1, <1>2, <1>3, <1>5, <2>1 DEF StartReclaim, ReclaimReturns, HashInv, HashTypeOK
<1>6. CASE RebuildReturns
  <2>1. \A s \in Slots : Settled(s)' => Settled(s)
    BY <1>1, <1>6, HashAssumption DEF RebuildReturns, Settled, Slots
  <2> QED
    BY <1>1, <1>2, <1>3, <1>6, <2>1 DEF RebuildReturns, HashInv, HashTypeOK
<1> QED
  BY <1>4, <1>5, <1>6

\* Every step keeps it.
LEMMA NextHashInv == HashInv /\ [Next]_vars => HashInv'
<1> SUFFICES ASSUME HashInv, [Next]_vars PROVE HashInv'
  OBVIOUS
<1>1. CASE Next
  BY <1>1, PlaceKeeps, RebuildSlotKeeps, EraseKeeps, CallsKeep DEF Next
<1>2. CASE UNCHANGED vars
  <2>1. \A s \in Slots : (Reaches(s)' <=> Reaches(s)) /\ (Settled(s)' <=> Settled(s))
    BY <1>2 DEF vars, Reaches, Settled, Probe
  <2> QED
    BY <1>2, <2>1 DEF vars, HashInv, HashTypeOK, EachEntryOnce, TombstoneSet
<1> QED
  BY <1>1, <1>2

\* The invariant holds of every behaviour.
LEMMA HashInvariant == Spec => []HashInv
BY InitHashInv, NextHashInv, PTL DEF Spec

-----------------------------------------------------------------------------
(* What follows.                                                           *)

\* The variables keep their types; the tombstone counter stays in its range.
THEOREM HashTypes == Spec => []HashTypeOK
<1>1. HashInv => HashTypeOK
  BY DEF HashInv
<1> QED
  BY <1>1, HashInvariant, PTL

\* hash_find finds exactly the resident keys, whatever the hash function and
\* whatever was erased and rebuilt before.
THEOREM LookupsAgree == Spec => []LookupAgrees
<1>1. HashInv => LookupAgrees
  <2>1. SUFFICES ASSUME HashInv, call # "rebuild", NEW k \in Keys
                 PROVE  Found(k) <=> \E s \in Slots : entry[s] = k
    BY DEF LookupAgrees
  <2>2. Found(k) => \E s \in Slots : entry[s] = k
    BY DEF Found, Finds, Hit
  <2>3. ASSUME NEW s \in Slots, entry[s] = k PROVE Found(k)
    <3>1. Settled(s)
      BY <2>1, <2>3, HashAssumption DEF Settled
    <3> QED
      BY <2>1, <2>3, <3>1, SettledIsFound DEF Found
  <2> QED
    BY <2>2, <2>3
<1> QED
  BY <1>1, HashInvariant, PTL

\* No key is resident twice, and the table refers to each entry once.
THEOREM EntriesAreDistinct == Spec => []EachEntryOnce
<1>1. HashInv => EachEntryOnce
  BY DEF HashInv
<1> QED
  BY <1>1, HashInvariant, PTL

\* The tombstone counter counts the tombstones.
THEOREM TombstonesAreCounted == Spec => []TombstonesCounted
<1>1. HashInv => TombstonesCounted
  BY DEF HashInv, TombstonesCounted, TombstoneSet
<1> QED
  BY <1>1, HashInvariant, PTL

\* The table never fills up with entries and tombstones.
THEOREM EmptyBucketRemains == Spec => []AnEmptyBucket
BY EmptyIsLeft, HashInvariant, PTL
=============================================================================
