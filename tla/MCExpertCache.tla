---------------------------- MODULE MCExpertCache ----------------------------
(* Small instances of ExpertCache for TLC. *)
EXTENDS ExpertCache, TLC

CONSTANTS l1, l2

\* Handles and experts are interchangeable; layers differ in their floors.
Symmetry == Permutations(Payloads) \cup Permutations(Experts)

\* The first layer keeps one base, and two units of bytes in bases.
EntryFloors == [l \in Layers |-> IF l = l1 THEN 1 ELSE 0]
ByteFloors  == [l \in Layers |-> IF l = l1 THEN 2 * Alignment ELSE 0]
=============================================================================
