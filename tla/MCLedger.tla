------------------------------ MODULE MCLedger ------------------------------
(* TLC instance of Ledger: keys are interchangeable.                       *)
EXTENDS Ledger, TLC

Symmetric == Permutations(Keys)
=============================================================================
