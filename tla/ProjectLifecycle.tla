-------------------------- MODULE ProjectLifecycle --------------------------
(***************************************************************************)
(* What the service promises about the status of a project, whatever fails *)
(* and however requests interleave: a project is registered as pending,    *)
(* is completed or fails exactly once, and never comes back to an earlier  *)
(* status before it is removed. A failed project is not completed later    *)
(* and a completed one never turns into a failed one.                      *)
(***************************************************************************)
CONSTANT Names
VARIABLE status

Becomes(n, s) == status' = [status EXCEPT ![n] = s]

Init == status = [n \in Names |-> "none"]

Register(n) == status[n] = "none" /\ Becomes(n, "pending")
Complete(n) == status[n] = "pending" /\ Becomes(n, "ready")
Fail(n)     == status[n] = "pending" /\ Becomes(n, "error")
Remove(n)   == status[n] # "none" /\ Becomes(n, "none")

Next == \E n \in Names : Register(n) \/ Complete(n) \/ Fail(n) \/ Remove(n)

Spec == Init /\ [][Next]_status
=============================================================================
