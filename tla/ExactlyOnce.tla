----------------------------- MODULE ExactlyOnce ----------------------------
(***************************************************************************)
(* What the idempotency layer promises for one key, whatever the retries:  *)
(* the provider charges at most once, the key is done only when it has     *)
(* charged, and it is open to another attempt only when it has not.        *)
(***************************************************************************)
EXTENDS Naturals

VARIABLES state,     \* the key, as a retry finds it
          charges    \* how often the provider charged for it

vars == <<state, charges>>

Init == state = "open" /\ charges = 0

(* Only an open key, never charged, is taken.                              *)
Take == state = "open" /\ state' = "taken" /\ UNCHANGED charges

Charge == state = "taken" /\ charges = 0 /\ charges' = 1 /\ UNCHANGED state

(* Nobody knows whether the attempt charged, or whether its charge was     *)
(* recorded: the key is frozen.                                            *)
Doubt == state \in {"taken", "done"} /\ state' = "unknown" /\ UNCHANGED charges

(* The attempt is known not to have charged.                               *)
Absolve ==
  /\ state \in {"taken", "unknown"} /\ charges = 0
  /\ state' = "open"
  /\ UNCHANGED charges

(* The charge is recorded; all that can become of the key is doubt, and    *)
(* doubt about a charge ends here again.                                   *)
Conclude ==
  /\ state \in {"taken", "unknown"} /\ charges = 1
  /\ state' = "done"
  /\ UNCHANGED charges

Next == Take \/ Charge \/ Doubt \/ Absolve \/ Conclude

Spec == Init /\ [][Next]_vars
=============================================================================
