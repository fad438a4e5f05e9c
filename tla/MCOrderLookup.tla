---------------------------- MODULE MCOrderLookup ----------------------------
(* A TLC instance of OrderLookup; orders and lookups are interchangeable.  *)
EXTENDS OrderLookup, TLC

Symmetric == Permutations(Orders) \cup Permutations(Lookups)
=============================================================================
