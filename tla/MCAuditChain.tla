---------------------------- MODULE MCAuditChain ----------------------------
(* TLC instance of AuditChain: threads and entries are interchangeable.    *)
EXTENDS AuditChain, TLC

Symmetric == Permutations(Writers) \cup Permutations(Entry)
=============================================================================
