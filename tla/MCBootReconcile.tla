-------------------------- MODULE MCBootReconcile --------------------------
(* Small instances of BootReconcile for TLC. *)
EXTENDS BootReconcile

\* A plain Boot, and one with an autoscaler and a second Service.
Plain == [workload |-> "a", service |-> "a", other |-> Absent, hpa |-> Absent]
Full  == [workload |-> "b", service |-> "a", other |-> "b", hpa |-> "b"]
SpecsPlainFull == {Plain, Full}

\* Two edits undisturbed, or one edit with what happens outside and a failure.  No
\* fair action leads out of it, so the liveness properties may be checked under it.
Alternatives == edits < 2 \/ (outside = 0 /\ failures = 0)
============================================================================
