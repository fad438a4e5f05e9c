------------------------------- MODULE Rounds -------------------------------
(***************************************************************************)
(* A round of the chaos harness (chaos.py, chaos_worker.py): purchases of  *)
(* many keys while provider calls time out, processes are killed and       *)
(* database connections are terminated; then every key left in flight is   *)
(* retried, every key is reconciled, the books are repaired, and what is   *)
(* left is checked.                                                        *)
(*                                                                         *)
(* The pool (db.py) hands a terminated connection out unchecked, so its    *)
(* loss is found by whichever statement uses it next: that one fails, or   *)
(* took effect and its answer is lost.  Even when the storm is over.       *)
(*                                                                         *)
(* A definition placed just before another one with the same parameters    *)
(* and named by no action is a plausible slip of it, for the mutants.      *)
(***************************************************************************)
EXTENDS Naturals, FiniteSets, FiniteSetsExt

CONSTANTS Keys,     \* one purchase each, numbers in the order of their names
          MaxKills  \* bound: connections terminated in a round

ASSUME RoundsAssumption == Keys \subseteq Nat /\ IsFiniteSet(Keys) /\ MaxKills \in Nat

VARIABLES phase,     \* where the round is
          todo,      \* the keys this phase has yet to visit
          tries,     \* failed attempts to reconcile the key in turn
          step,      \* step[k]: where the purchase of k is
          status,    \* its idempotency record
          attempts,  \* how often the record was claimed
          books,     \* the key's position in the ledger
          orders,    \* the provider's orders for its receipt
          kills,     \* connections terminated in this round
          broken     \* those whose loss no statement has found yet

keyVars == <<status, attempts, books, orders>>
vars == <<phase, todo, tries, step, keyVars, kills, broken>>

Ledger == INSTANCE LedgerPosition WITH Attempts <- 1 .. 2, Amounts <- {1}, pos <- books

PROCESSING == "PROCESSING"
COMPLETED == "COMPLETED"
FAILED == "FAILED"
PENDING == "PENDING_VERIFICATION"

TypeOK ==
  /\ phase \in {"storm", "retry", "reconcile", "repair", "checked", "aborted"}
  /\ todo \subseteq Keys /\ tries \in 0 .. 2
  /\ step \in [Keys -> {"claim", "verify", "recover", "renew", "freeze_held",
                        "freeze_held_alone", "charge", "complete", "freeze",
                        "suspend", "abandon", "abandon_timeout",
                        "freeze_timeout", "freeze_timeout_alone", "over"}]
  /\ status \in [Keys -> {"none", PROCESSING, COMPLETED, FAILED, PENDING}]
  /\ attempts \in [Keys -> 0 .. 2] /\ orders \in [Keys -> 0 .. 2]
  /\ books \in [Keys -> Ledger!Position]
  /\ broken \in 0 .. kills /\ kills \in 0 .. MaxKills

(* A new schema: nothing claimed, nothing charged, nothing booked.         *)
Fresh(ph, td, st, rc, at, bk, od) ==
  /\ ph = "storm" /\ td = {}
  /\ st = [k \in Keys |-> "claim"] /\ rc = [k \in Keys |-> "none"]
  /\ at = [k \in Keys |-> 0] /\ od = [k \in Keys |-> 0]
  /\ bk = [k \in Keys |-> Ledger!EmptyPosition]

Init == /\ Fresh(phase, todo, step, status, attempts, books, orders)
        /\ tries = 0 /\ kills = 0 /\ broken = 0

At(k, s) == step[k] = s
Goes(k, s) == step' = [step EXCEPT ![k] = s]
Becomes(k, s) == status' = [status EXCEPT ![k] = s]
Books(k, position) == books' = [books EXCEPT ![k] = position]

(* One statement or transaction: it succeeds, or meets a broken connection *)
(* before it took effect or after.                                         *)
Statement(effect, then, otherwise) ==
  \/ effect /\ then /\ UNCHANGED broken
  \/ /\ broken > 0 /\ broken' = broken - 1
     /\ effect \/ UNCHANGED keyVars
     /\ otherwise

-----------------------------------------------------------------------------
(* One purchase: PurchaseGateway.submit over IdempotencyStore.execute, the *)
(* policy always approving.  What is logged before a step is part of the   *)
(* statement that follows; the retries come long after the claims.         *)

Takes(k) ==
  /\ Becomes(k, PROCESSING)
  /\ attempts' = [attempts EXCEPT ![k] = @ + 1]
  /\ UNCHANGED <<books, orders>>

RunAgain(k) == "charge"
AskFirst(k) == IF status[k] = "none" THEN "charge" ELSE "verify"

ClaimTooSoon(k) ==
  /\ At(k, "claim")
  /\ \/ /\ status[k] = "none"
        /\ Statement(Takes(k), Goes(k, "charge"), Goes(k, "over"))
     \/ /\ status[k] # "none"
        /\ Goes(k, "over") /\ UNCHANGED <<keyVars, broken>>
Claim(k) == At(k, "claim") /\ Statement(Takes(k), Goes(k, AskFirst(k)), Goes(k, "over"))

(* The provider lists every order at once; a question that fails freezes.  *)
VerifyStale(k) ==
  /\ At(k, "verify")
  /\ Statement(UNCHANGED keyVars,
               Goes(k, CASE orders[k] = 0 -> "renew"
                         [] orders[k] = 1 -> "recover"
                         [] OTHER -> "freeze_held"),
               Goes(k, "freeze_held"))

RenewClaim(k) ==
  At(k, "renew") /\ Statement(UNCHANGED keyVars, Goes(k, "charge"), Goes(k, "over"))

Charges(k) ==
  orders' = [orders EXCEPT ![k] = @ + 1] /\ UNCHANGED <<status, attempts, books>>

CreateOrder(k) == Statement(Charges(k), Goes(k, "complete"), Goes(k, "abandon"))

(* execute() in the harness: the fault planned for the key, unless calm.   *)
Charge(k) ==
  /\ At(k, "charge")
  /\ \/ CreateOrder(k) /\ UNCHANGED kills
     \/ /\ phase = "storm"
        /\ \/ /\ UNCHANGED <<keyVars, broken, kills>>
              /\ \/ Goes(k, "abandon_timeout")    \* TIMEOUT_BEFORE
                 \/ Goes(k, "over")               \* PROCESS_KILL_BEFORE
           \/ /\ \E next \in {"abandon_timeout",  \* TIMEOUT_AFTER
                              "abandon",          \* CRASH_AFTER
                              "over"} :           \* PROCESS_KILL_AFTER
                   Statement(Charges(k), Goes(k, next), Goes(k, "abandon"))
              /\ UNCHANGED kills
           \/ /\ kills < MaxKills                 \* BACKEND_KILL
              /\ kills' = kills + 1 /\ broken' = broken + 1
              /\ Charges(k) /\ Goes(k, "complete")

Completes(k) ==
  /\ Becomes(k, COMPLETED) /\ Books(k, Ledger!AfterSale(books[k], 1))
  /\ UNCHANGED <<attempts, orders>>

FreezesAlone(k) == Becomes(k, PENDING) /\ UNCHANGED <<attempts, books, orders>>

Freezes(k) ==
  /\ Becomes(k, PENDING)
  /\ Books(k, Ledger!AfterUnverified(books[k], attempts[k]))
  /\ UNCHANGED <<attempts, orders>>

Suspends(k) == Books(k, Ledger!AfterUnverified(books[k], attempts[k]))
               /\ UNCHANGED <<status, attempts, orders>>

Abandons(k) == Becomes(k, FAILED) /\ UNCHANGED <<attempts, books, orders>>

Complete(k) ==
  /\ At(k, "complete") \/ At(k, "recover")
  /\ Statement(Completes(k), Goes(k, "over"), Goes(k, "freeze"))

FreezeCharged(k) ==
  At(k, "freeze") /\ Statement(FreezesAlone(k), Goes(k, "suspend"), Goes(k, "over"))

SuspendAlone(k) ==
  At(k, "suspend") /\ Statement(Suspends(k), Goes(k, "over"), Goes(k, "over"))

Abandon(k) ==
  \/ At(k, "abandon") /\ Statement(Abandons(k), Goes(k, "over"), Goes(k, "over"))
  \/ /\ At(k, "abandon_timeout")
     /\ Statement(Abandons(k), Goes(k, "freeze_timeout"), Goes(k, "over"))

FreezeTimeout(k) ==
  \/ /\ At(k, "freeze_timeout")
     /\ Statement(Freezes(k), Goes(k, "over"), Goes(k, "freeze_timeout_alone"))
  \/ /\ At(k, "freeze_timeout_alone")
     /\ Statement(FreezesAlone(k), Goes(k, "over"), Goes(k, "over"))

(* Fenced on the claim: the second attempt finds what the first one did.   *)
FreezeHeldClaim(k) ==
  \/ /\ At(k, "freeze_held")
     /\ Statement(Freezes(k), Goes(k, "over"), Goes(k, "freeze_held_alone"))
  \/ /\ At(k, "freeze_held_alone")
     /\ Statement(IF status[k] = PROCESSING THEN FreezesAlone(k) ELSE UNCHANGED keyVars,
                  Goes(k, "over"), Goes(k, "over"))

Purchase(k) ==
  /\ \/ /\ UNCHANGED kills
        /\ \/ Claim(k) \/ VerifyStale(k) \/ RenewClaim(k)
           \/ Complete(k) \/ FreezeCharged(k) \/ SuspendAlone(k)
           \/ Abandon(k) \/ FreezeTimeout(k) \/ FreezeHeldClaim(k)
     \/ Charge(k)
  /\ UNCHANGED <<phase, todo, tries>>

(* The thread that reads the books meanwhile shrugs a lost connection off. *)
ReaderFails ==
  /\ phase = "storm" /\ broken > 0 /\ broken' = broken - 1
  /\ UNCHANGED <<phase, todo, tries, step, keyVars, kills>>

-----------------------------------------------------------------------------
(* Putting it back together.                                               *)

AllOver == \A k \in Keys : At(k, "over")

(* Whatever raises out of the round ends it: it has no verdict.            *)
Aborts ==
  /\ phase' = "aborted"
  /\ broken > 0 /\ broken' = broken - 1
  /\ UNCHANGED <<todo, tries, step, kills>>

StormEnds ==
  /\ phase = "storm" /\ AllOver
  /\ \/ /\ phase' = "retry"
        /\ todo' = {k \in Keys : status[k] = PROCESSING}
        /\ UNCHANGED <<tries, step, keyVars, kills, broken>>
     \/ Aborts /\ UNCHANGED keyVars

Retry(k) ==
  /\ phase = "retry" /\ AllOver /\ k \in todo
  /\ todo' = todo \ {k} /\ Goes(k, "claim")
  /\ UNCHANGED <<phase, tries, keyVars, kills, broken>>

RetriesEnd ==
  /\ phase = "retry" /\ AllOver /\ todo = {}
  /\ phase' = "reconcile" /\ todo' = Keys
  /\ UNCHANGED <<tries, step, keyVars, kills, broken>>

(* Reconciler.reconcile; more than one order is left to a human.           *)
Settles(k) ==
  CASE orders[k] = 1 -> Completes(k)
    [] orders[k] = 0 /\ status[k] \in {PENDING, FAILED} ->
         /\ Becomes(k, FAILED)
         /\ Books(k, Ledger!AfterNotExecuted(books[k], attempts[k]))
         /\ UNCHANGED <<attempts, orders>>
    [] OTHER -> UNCHANGED keyVars

(* Three attempts for a lost connection, one in the repair; an audit entry *)
(* that cannot be written is another exception, and ends the round.        *)
Reconcile(k) ==
  /\ phase \in {"reconcile", "repair"} /\ todo # {} /\ k = Min(todo)
  /\ \/ /\ Settles(k)
        /\ todo' = todo \ {k} /\ tries' = 0
        /\ UNCHANGED <<phase, step, kills, broken>>
     \/ /\ phase = "reconcile" /\ tries < 2 /\ tries' = tries + 1
        /\ broken > 0 /\ broken' = broken - 1
        /\ Settles(k) \/ UNCHANGED keyVars
        /\ UNCHANGED <<phase, todo, step, kills>>
     \/ Aborts /\ (Settles(k) \/ UNCHANGED keyVars)

(* repair_ledger visits the keys the books still disagree about.           *)
MissingSale(k) == status[k] = COMPLETED /\ ~Ledger!Sold(books[k])
OpenSuspenseNotPending(k) == status[k] # PENDING /\ books[k].open # {}
Gap(k) == MissingSale(k) \/ OpenSuspenseNotPending(k)

RepairLedger ==
  /\ phase = "reconcile" /\ todo = {}
  /\ \/ /\ phase' = "repair" /\ todo' = {k \in Keys : Gap(k)}
        /\ UNCHANGED <<tries, step, keyVars, kills, broken>>
     \/ Aborts /\ UNCHANGED keyVars

Check ==
  /\ phase = "repair" /\ todo = {}
  /\ \/ /\ phase' = "checked"
        /\ UNCHANGED <<todo, tries, step, keyVars, kills, broken>>
     \/ Aborts /\ UNCHANGED keyVars

NextRound ==
  /\ phase \in {"checked", "aborted"}
  /\ Fresh(phase', todo', step', status', attempts', books', orders')
  /\ tries' = 0 /\ kills' = 0 /\ broken' = 0

Next ==
  \/ \E k \in Keys : Purchase(k) \/ Retry(k) \/ Reconcile(k)
  \/ ReaderFails \/ StormEnds \/ RetriesEnd \/ RepairLedger \/ Check \/ NextRound

Spec == Init /\ [][Next]_vars

-----------------------------------------------------------------------------
(* Properties.                                                             *)

Checked == phase = "checked"

(* A round that reaches its check has charged no receipt twice, booked as  *)
(* revenue what was charged, left nothing in suspense, and completed the   *)
(* keys that were charged and no others (_check, 1 to 4 and 7).            *)
MoneyAddsUp ==
  Checked => \A k \in Keys :
    /\ orders[k] <= 1
    /\ Ledger!Sold(books[k]) <=> orders[k] = 1
    /\ status[k] = COMPLETED <=> orders[k] = 1
    /\ books[k].open = {}

(* "no key is left in flight once it has been retried" (_check, 8): so it  *)
(* is while only processes are killed.  A terminated connection may also   *)
(* fail the one retry, and the reconciler leaves such a key alone: it was  *)
(* never charged.                                                          *)
LeftInFlightByItsRetry ==
  Checked => \A k \in Keys :
    status[k] = PROCESSING => kills > 0 /\ orders[k] = 0

(* The same without the exception: a round can fail though every purchase  *)
(* was handled as it should.                                               *)
NoneInFlight == Checked => \A k \in Keys : status[k] # PROCESSING
=============================================================================
