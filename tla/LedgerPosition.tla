--------------------------- MODULE LedgerPosition ---------------------------
(***************************************************************************)
(* What the books promise the rest of the system, key by key: whether the  *)
(* key's revenue is recognised and for how much, which attempts are still  *)
(* in suspense, and which attempts are marked "not executed".              *)
(*                                                                         *)
(* Ledger.tla keeps postings and is shown to implement this module;        *)
(* Purchase.tla composes with these operators instead of the postings.     *)
(***************************************************************************)
EXTENDS Naturals

CONSTANTS Keys,       \* scope keys (agent and idempotency key)
          Attempts,   \* attempt numbers of an idempotency record
          Amounts     \* prices, in paise

VARIABLE pos          \* pos[k] is the position of key k

Position == [sold : Amounts \cup {0},     \* 0: no sale booked
             open : SUBSET Attempts,      \* suspense posted, not reversed
             settled : SUBSET Attempts]   \* RESOLVED markers

EmptyPosition == [sold |-> 0, open |-> {}, settled |-> {}]

Sold(p) == p.sold # 0

(* A second sale is harmless for the same amount, an error for another.    *)
SaleConflicts(p, amount) == Sold(p) /\ p.sold # amount

AfterSale(p, amount) ==
  IF Sold(p) THEN p ELSE [p EXCEPT !.sold = amount, !.open = {}]

(* A slip: the posting does not ask whether the key is settled.            *)
AfterLateUnverified(p, a) == [p EXCEPT !.open = @ \cup {a}]

AfterUnverified(p, a) ==
  IF Sold(p) \/ a \in p.settled THEN p
  ELSE [p EXCEPT !.open = @ \cup {a}]

AfterNotExecuted(p, a) ==
  IF a \in p.settled THEN p
  ELSE [p EXCEPT !.open = @ \ {a}, !.settled = @ \cup {a}]

-----------------------------------------------------------------------------

Init == pos = [k \in Keys |-> EmptyPosition]

Sale(k, amount) ==
  /\ ~SaleConflicts(pos[k], amount)
  /\ pos' = [pos EXCEPT ![k] = AfterSale(@, amount)]

Unverified(k, a) == pos' = [pos EXCEPT ![k] = AfterUnverified(@, a)]

NotExecuted(k, a) == pos' = [pos EXCEPT ![k] = AfterNotExecuted(@, a)]

Next == \E k \in Keys : \/ \E amount \in Amounts : Sale(k, amount)
                        \/ \E a \in Attempts : Unverified(k, a) \/ NotExecuted(k, a)

Spec == Init /\ [][Next]_pos
=============================================================================
