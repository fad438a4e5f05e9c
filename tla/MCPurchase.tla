----------------------------- MODULE MCPurchase -----------------------------
(* TLC instances of Purchase: the payloads, and which callers are alike.   *)
EXTENDS Purchase, TLC

OnePrice == [c \in Callers |-> 100]

(* One caller sends another payload under the same key.                    *)
Odd == CHOOSE c \in Callers : TRUE
TwoPrices == [c \in Callers |-> IF c = Odd THEN 250 ELSE 100]

Symmetric == Permutations(Callers) \cup Permutations(Reconcilers)
SymmetricButOdd == Permutations(Callers \ {Odd})
=============================================================================
