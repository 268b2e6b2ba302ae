--------------------------- MODULE MCSessionTurn ---------------------------
(* Small instances of SessionTurn. *)
EXTENDS SessionTurn

Square == {<<1, 1>>}
Wide == {<<1, 2>>}
None == {}
=============================================================================
