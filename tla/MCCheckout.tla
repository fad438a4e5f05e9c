----------------------------- MODULE MCCheckout -----------------------------
(* Values and bounds for the model checker: threads and keys are           *)
(* interchangeable.                                                        *)
EXTENDS Checkout, TLC

(* Attempts time out while merchant and clock stand still, or do not.      *)
OneTrouble ==
  (\E k \in Keys : key[k].timeouts > 0) => now = 0 /\ item = FirstItem

(* Leaves out states that differ in what nobody reads any more: once every *)
(* request was displayed, whether the item is available, and once it was   *)
(* removed, its price.                                                     *)
NothingUnread ==
  /\ Requests \subseteq Displayed =>
       item.available /\ \A t \in Threads : thread[t].pc # "show"
  /\ ~item.stocked => item.available /\ item.price = FirstPrice

Symmetric == Permutations(Threads) \cup Permutations(Keys)
=============================================================================
