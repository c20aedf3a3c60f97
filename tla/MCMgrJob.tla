------------------------------ MODULE MCMgrJob ------------------------------
(* The scheduler on small instances. *)
EXTENDS MgrJob
CONSTANTS w1, w2

MCWorkers == {w1, w2}
=============================================================================
