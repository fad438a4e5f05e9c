----------------------------- MODULE AppendOnly -----------------------------
(***************************************************************************)
(* What the audit trail promises its writers and readers while the         *)
(* database's guards are up: it only grows, one entry at a time and at the *)
(* end, and an entry whose writer was told its number stands there.  Once  *)
(* somebody took the guards down nothing is promised any more; finding out *)
(* is then verify()'s, which is not part of this promise.                  *)
(***************************************************************************)
EXTENDS Sequences

CONSTANT Entry

VARIABLES log,       \* the entries, in the order of their numbers
          told,      \* <<number, entry>> as returned to a writer
          guarded    \* the guards were never down

vars == <<log, told, guarded>>

Init == log = <<>> /\ told = {} /\ guarded = TRUE

(* The writer of an entry that is in need not hear of it.                  *)
Write(entry) ==
  /\ log' = Append(log, entry)
  /\ told' \in {told, told \cup {<<Len(log'), entry>>}}
  /\ guarded' = guarded

Breach == guarded' = FALSE /\ log' = log /\ told' = told

Next == IF guarded THEN Breach \/ \E entry \in Entry : Write(entry)
                   ELSE guarded' = FALSE

Spec == Init /\ [][Next]_vars
=============================================================================
