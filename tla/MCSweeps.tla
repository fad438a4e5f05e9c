------------------------------ MODULE MCSweeps ------------------------------
(* A TLC instance of Sweeps: keys are numbered as they were claimed.       *)
EXTENDS Sweeps

Claimed == 1 .. 2
=============================================================================
