------------------------------ MODULE MCGateCases ------------------------------
(* Instances of GateCases for TLC. *)
EXTENDS GateCases
\* The gate's defaults for the error rate, with round figures for the rest.
Short == [error |-> 2, corruption |-> 0, recovery |-> 2, p95 |-> 8, regression |-> 20]
=============================================================================
