------------------------------- MODULE MCCLog -------------------------------
(* The log with two workers. *)
EXTENDS CLog
CONSTANTS w1, w2

MCWorkers == {w1, w2}
=============================================================================
