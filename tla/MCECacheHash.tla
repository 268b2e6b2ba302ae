---------------------------- MODULE MCECacheHash ----------------------------
(* Small instances of ECacheHash. *)
EXTENDS ECacheHash, TLC

Symmetry == Permutations(Keys)
=============================================================================
