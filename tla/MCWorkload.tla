------------------------------ MODULE MCWorkload ------------------------------
(* Instances of IntegrityValidator, and the Workload in it, for TLC. *)
EXTENDS IntegrityValidator
Lenient == [error |-> 34, corruption |-> 0, recovery |-> 30, p95 |-> 9, regression |-> 20]
=============================================================================
