------------------------- MODULE MCExpertStreaming -------------------------
(* A small instance of ExpertStreaming for TLC. *)
EXTENDS ExpertStreaming

\* Every layer keeps one expert.
EntryFloors == [l \in Layers |-> 1]
NoFloors    == [l \in Layers |-> 0]

\* The first expert is smaller than the others: slabs are replaced, and an expert may have to
\* evict two.
SizesOnDisk == [e \in Experts |-> IF e = 1 THEN 2 ELSE 4]

\* More experts than a batch holds, a batch that finds one in the cache, one alone.
SomeRoutings == {<<1, 2, 3>>, <<3, 4, 1>>, <<2>>}
=============================================================================
