----------------------------- MODULE MCVelocity -----------------------------
(* Values and bounds for the model checker: threads and keys are           *)
(* interchangeable.                                                        *)
EXTENDS Velocity, TLC

Editor == CHOOSE a \in Admins : TRUE

(* The merchant's threads race each other as long as no request has been   *)
(* evaluated; requests race one of them, which edits or revokes the        *)
(* mandate once, and start-up.                                             *)
OneEditor ==
  evaluations > 0 =>
    /\ \A a \in Admins \ {Editor} : admin[a].pc = "idle"
    /\ Len(mandates) <= 2 /\ late = 0
    /\ Len(mandates) = 2 => admin[Editor].pc = "idle"

(* One of the slots may be charged after its release.                      *)
FewRevived == Cardinality(revived) <= 1

Symmetric == Permutations(Requests) \cup Permutations(Keys)
=============================================================================
