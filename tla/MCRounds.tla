------------------------------ MODULE MCRounds ------------------------------
(* A TLC instance of Rounds: the keys are numbered as they are sorted.     *)
EXTENDS Rounds

Sorted == 1 .. 4
=============================================================================
