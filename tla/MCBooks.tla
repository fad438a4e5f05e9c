------------------------------- MODULE MCBooks -------------------------------
(* Values for the model checker: ids and outsiders are interchangeable.    *)
EXTENDS Books, TLC

Symmetric == Permutations(Ids) \cup Permutations(Outsiders)
=============================================================================
