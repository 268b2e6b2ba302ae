--------------------------- MODULE MCDecodeControl ---------------------------
(* A small instance of DecodeControl for TLC. *)
EXTENDS DecodeControl

CONSTANTS a, b

EarlyStop == <<a, Close, b>>

\* Four cores; four of which a quota leaves one; one; and a container.
SomeMachines == {[cores |-> 4, quota |-> 0, container |-> FALSE],
                 [cores |-> 4, quota |-> 1, container |-> FALSE],
                 [cores |-> 1, quota |-> 0, container |-> FALSE],
                 [cores |-> 3, quota |-> 2, container |-> TRUE]}
=============================================================================
