------------------------ MODULE MCGatewaySupervisor ------------------------
(* Threads for the model checker, each with the requests it may be started for. *)
EXTENDS GatewaySupervisor, TLC

CONSTANTS t1, t2, t3

\* A thread that uses the model, one that changes or stops it, one that cancels.
MCServes == t1 :> {"chat", "compact", "proxy", "select"}
         @@ t2 :> {"select", "completed", "context", "shutdown"}
         @@ t3 :> {"cancel"}

\* A turn and a change of the model, nothing else.
MCServesTurn == t1 :> {"chat"} @@ t2 :> {"select"}
=============================================================================
