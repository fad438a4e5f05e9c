------------------------------ MODULE Purchase ------------------------------
(***************************************************************************)
(* One purchase, from its idempotency key to the provider's order: callers *)
(* submitting the same key through the gateway (gateway.py over            *)
(* idempotency.py), and reconcilers settling what is left unknown          *)
(* (reconcile.py), over one record, one velocity slot, one position of the *)
(* books and the provider's orders.                                        *)
(*                                                                         *)
(* A step is one database transaction or one provider call: what the code  *)
(* does between two of them touches only locals.  Times are the store's    *)
(* clock in coarse units.  Keys never share a record, so one key is        *)
(* modelled; the budget keys share is Velocity.tla's.                      *)
(*                                                                         *)
(* A definition placed just before another one with the same parameters    *)
(* and named by no action is a plausible slip of it, for the mutants.      *)
(*                                                                         *)
(* What may go wrong is the constant Faults:                               *)
(*   "crash"    a caller or a reconciler stops between two steps           *)
(*   "stall"    a caller may be suspended past the staleness window        *)
(*   "refuse"   the provider refuses, nothing charged                      *)
(*   "timeout"  no answer to a charge, charged or not                      *)
(*   "garbled"  the charge went through but the answer is an error         *)
(*   "mute"     the provider does not answer a question about its orders   *)
(*   "slow"     the answer to such a question is old when it arrives       *)
(*   "db"       a write of the store, the books or the policy fails        *)
(*   "lost"     a COMMIT takes effect, but what its caller sees is an error*)
(*   "posting"  the ledger refuses a posting, the record alone would do    *)
(*   "audit"    an audit entry cannot be written                           *)
(***************************************************************************)
EXTENDS Naturals, Sequences, FiniteSets

CONSTANTS Callers,       \* request threads submitting this key
          Reconcilers,   \* reconciliation sweeps that may run at once
          PriceOf,       \* the amount each caller's payload asks for
          StaleAfter,    \* stale_after_seconds: a claim may be taken over
          Grace,         \* not_found_grace_seconds: absence becomes evidence
          Lag,           \* how long an order may be missing from a listing
          Faults,        \* what may go wrong, see above
          MaxSubmits,    \* bound: requests submitted in a behaviour
          LastSubmit,    \* bound: the last instant a request arrives
          MaxNow         \* bound: the last instant of the clock

ASSUME PurchaseAssumption ==
  /\ PriceOf \in [Callers -> Nat \ {0}]
  /\ StaleAfter \in Nat \ {0} /\ Lag \in Nat
  /\ Grace \in Nat
  /\ MaxSubmits \in Nat /\ LastSubmit \in Nat /\ MaxNow \in Nat

(* A live claim charges within StaleAfter, and the listing shows the order *)
(* Lag later: 300 s against 30 s and "still missing after 5 seconds"       *)
(* (reconcile.py:54-57, idempotency.py:41).                                *)
ASSUME GraceAssumption == StaleAfter + Lag <= Grace

VARIABLES now,      \* the clock
          submits,  \* requests submitted so far
          rec,      \* the idempotency record of the key
          slot,     \* the key's velocity slot
          books,    \* the key's position in the ledger
          orders,   \* the provider's orders for the key's receipt
          caller,   \* caller[c]: where submit() is in thread c
          recon,    \* recon[r]: where reconcile() is in sweep r
          flagged   \* the key is in Reconciler._needs_human

vars == <<now, submits, rec, slot, books, orders, caller, recon, flagged>>

PROCESSING == "PROCESSING"
COMPLETED == "COMPLETED"
FAILED == "FAILED"
PENDING == "PENDING_VERIFICATION"

Prices == {PriceOf[c] : c \in Callers}

Ledger == INSTANCE LedgerPosition
            WITH Keys <- {"key"}, Attempts <- Nat, Amounts <- Prices,
                 pos <- [k \in {"key"} |-> books]

(* fingerprint is the price the payload asks for; 0 while there is no row. *)
Record == [status : {"none", PROCESSING, COMPLETED, FAILED, PENDING},
           fingerprint : Prices \cup {0}, claimedAt : Nat, attempts : Nat]
NoRecord == [status |-> "none", fingerprint |-> 0, claimedAt |-> 0, attempts |-> 0]

Order == [amount : Prices, at : Nat]

CallerPC == {"idle", "claim", "verify", "recover", "freeze_held", "renew",
             "charge", "complete", "freeze_charged", "suspend",
             "abandon_timeout", "abandon_failure", "freeze_timeout",
             "freeze_again", "confirm", "release"}
ReconPC == {"idle", "get", "ask", "act", "confirm", "release"}

(* claim is the clock read by _claim, then the claimed_at this caller took *)
(* the key with; extra is prior_claimed_at while the stale claim is being  *)
(* verified, and the record's attempts on the way to a suspense posting.   *)
CallerState == [pc : CallerPC, claim : Nat, extra : Nat]
IdleCaller == [pc |-> "idle", claim |-> 0, extra |-> 0]

(* row is the record as reconcile() read it, seen the listed orders.       *)
ReconState == [pc : ReconPC, repairing : BOOLEAN, row : Record, seen : SUBSET Nat]
IdleRecon == [pc |-> "idle", repairing |-> FALSE, row |-> NoRecord, seen |-> {}]

CallerGoes(c, pc) == caller' = [caller EXCEPT ![c].pc = pc]
CallerEnds(c) == caller' = [caller EXCEPT ![c] = IdleCaller]
ReconEnds(r) == recon' = [recon EXCEPT ![r] = IdleRecon]

(* This step's write took effect and its answer was lost.                  *)
AnswerLost(c, pc) == "lost" \in Faults /\ CallerGoes(c, pc)

At(c, pc) == caller[c].pc = pc

-----------------------------------------------------------------------------
(* The idempotency record.                                                 *)

Stamped(status) == [rec EXCEPT !.status = status]

Claimed(t) ==
  [rec EXCEPT !.status = PROCESSING, !.claimedAt = t, !.attempts = @ + 1]

StillHeld(c) == rec.status = PROCESSING /\ rec.claimedAt = caller[c].claim

(* The same payload, a claim old enough to take over, a failure to retry.  *)
AnyPayloadFits(c) == TRUE
Fits(c) == rec.fingerprint = PriceOf[c]

Stale(t) == t >= rec.claimedAt + StaleAfter

RetryableWhileUnknown == rec.status \in {FAILED, PENDING}
Retryable == rec.status = FAILED

(* The grace period: when a missing order starts to mean there is none.    *)
CaughtUpAtOnce(claimedAt) == TRUE
CaughtUp(claimedAt) == now >= claimedAt + Grace

(* orders_for_receipt: the pages may miss an order younger than Lag when   *)
(* they were read, at an instant of asked.                                 *)
Listings(asked) ==
  {S \in SUBSET DOMAIN orders : \E t \in asked : \A i \in DOMAIN orders :
     /\ orders[i].at + Lag <= t => i \in S
     /\ i \in S => orders[i].at <= t}

OnlyOrder(S) == orders[CHOOSE i \in S : TRUE]

PlaceOrder(c) == orders' = Append(orders, [amount |-> PriceOf[c], at |-> now])

(* An unfenced transaction of the store with the sale booked in it.        *)
CompleteThenSale(amount) ==
  /\ rec' = Stamped(COMPLETED)
  /\ books' = Ledger!AfterSale(books, amount) \/ UNCHANGED books
CompleteWithSale(amount) ==
  /\ ~Ledger!SaleConflicts(books, amount)
  /\ rec' = Stamped(COMPLETED)
  /\ books' = Ledger!AfterSale(books, amount)

CompletionCanFail(amount) ==
  "db" \in Faults \/ "posting" \in Faults \/ Ledger!SaleConflicts(books, amount)

-----------------------------------------------------------------------------
(* submit(): policy, claim, and the answers that end there.                *)

(* The policy approves and leaves the slot held; a denial changes nothing. *)
Submit(c) ==
  /\ At(c, "idle")
  /\ now <= LastSubmit /\ submits < MaxSubmits
  /\ submits' = submits + 1
  /\ slot' = IF slot = "none" THEN "HELD" ELSE slot
  /\ \/ caller' = [caller EXCEPT ![c] = [pc |-> "claim", claim |-> now, extra |-> 0]]
     \/ "lost" \in Faults /\ UNCHANGED caller
  /\ UNCHANGED <<now, rec, books, orders, recon, flagged>>

Claim(c) ==
  LET t == caller[c].claim IN
  /\ At(c, "claim")
  /\ \/ /\ rec.status = "none"
        /\ rec' = [status |-> PROCESSING, fingerprint |-> PriceOf[c],
                   claimedAt |-> t, attempts |-> 1]
        /\ CallerGoes(c, "charge") \/ AnswerLost(c, "release")
     \/ /\ Retryable /\ Fits(c)
        /\ rec' = Claimed(t)
        /\ CallerGoes(c, "charge") \/ AnswerLost(c, "release")
     \/ /\ rec.status = PROCESSING /\ Fits(c) /\ Stale(t)
        /\ rec' = Claimed(t)
        /\ \/ caller' = [caller EXCEPT ![c].pc = "verify", ![c].extra = rec.claimedAt]
           \/ AnswerLost(c, "release")
     \/ /\ \/ rec.status # "none" /\ ~Fits(c)        \* CONFLICT
           \/ rec.status \in {COMPLETED, PENDING}    \* REPLAYED, AWAITING_VERIFICATION
           \/ rec.status = PROCESSING /\ ~Stale(t)   \* IN_PROGRESS
        /\ CallerEnds(c)
        /\ UNCHANGED rec
  /\ UNCHANGED <<now, submits, slot, books, orders, recon, flagged>>

(* _stale_verifier: only one right order, or none after the grace period,  *)
(* is an answer; everything else freezes the key.                          *)
VerifyStale(c) ==
  /\ At(c, "verify")
  /\ \E S \in Listings(IF "slow" \in Faults THEN caller[c].claim .. now ELSE {now}) :
       LET Executed == Cardinality(S) = 1 /\ OnlyOrder(S).amount = PriceOf[c]
           NotExecuted == S = {} /\ CaughtUp(caller[c].extra) IN
       \/ Executed /\ CallerGoes(c, "recover")
       \/ NotExecuted /\ CallerGoes(c, "renew")
       \/ ~Executed /\ ~NotExecuted /\ CallerGoes(c, "freeze_held")
  /\ UNCHANGED <<now, submits, rec, slot, books, orders, recon, flagged>>

UnansweredMeansCharged(c) ==
  /\ "mute" \in Faults
  /\ At(c, "verify")
  /\ CallerGoes(c, "recover")
  /\ UNCHANGED <<now, submits, rec, slot, books, orders, recon, flagged>>

VerifyUnanswered(c) ==
  /\ "mute" \in Faults
  /\ At(c, "verify")
  /\ CallerGoes(c, "freeze_held")
  /\ UNCHANGED <<now, submits, rec, slot, books, orders, recon, flagged>>

(* Both writes below are fenced on the claimed_at this caller holds.  The  *)
(* freeze is tried with the suspense posting and then without it; the      *)
(* second try finds nothing to do when the first took effect.              *)
FreezeHeldClaim(c) ==
  /\ At(c, "freeze_held")
  /\ \/ /\ StillHeld(c)
        /\ rec' = Stamped(PENDING)
        /\ \/ books' = Ledger!AfterUnverified(books, rec.attempts)
           \/ Faults \cap {"db", "posting"} # {} /\ UNCHANGED books
        /\ CallerEnds(c) \/ AnswerLost(c, "release")
     \/ /\ ~StillHeld(c)
        /\ UNCHANGED <<rec, books>>
        /\ CallerEnds(c)
  /\ UNCHANGED <<now, submits, slot, orders, recon, flagged>>

RenewClaim(c) ==
  /\ At(c, "renew")
  /\ \/ /\ StillHeld(c)
        /\ rec' = [rec EXCEPT !.claimedAt = now]
        /\ \/ caller' = [caller EXCEPT ![c] =
                           [pc |-> "charge", claim |-> now, extra |-> 0]]
           \/ AnswerLost(c, "release")
     \/ /\ ~StillHeld(c)
        /\ CallerEnds(c)
        /\ UNCHANGED rec
  /\ UNCHANGED <<now, submits, slot, books, orders, recon, flagged>>

-----------------------------------------------------------------------------
(* The provider's answer and what is recorded of it.                       *)

ChargeAnswered(c) ==
  /\ At(c, "charge")
  /\ PlaceOrder(c)
  /\ CallerGoes(c, "complete")
  /\ UNCHANGED <<now, submits, rec, slot, books, recon, flagged>>

ChargeRefused(c) ==
  /\ "refuse" \in Faults
  /\ At(c, "charge")
  /\ CallerGoes(c, "abandon_failure")
  /\ UNCHANGED <<now, submits, rec, slot, books, orders, recon, flagged>>

ChargeTimesOut(c) ==
  /\ "timeout" \in Faults
  /\ At(c, "charge")
  /\ PlaceOrder(c) \/ UNCHANGED orders
  /\ CallerGoes(c, "abandon_timeout")
  /\ UNCHANGED <<now, submits, rec, slot, books, recon, flagged>>

(* Charged, then a 5xx, a broken connection or an unreadable body.         *)
ChargeGarbled(c) ==
  /\ "garbled" \in Faults
  /\ At(c, "charge")
  /\ PlaceOrder(c)
  /\ CallerGoes(c, "abandon_failure")
  /\ UNCHANGED <<now, submits, rec, slot, books, recon, flagged>>

(* _complete, for the caller's own charge or for the one it found.  What   *)
(* it takes for a write that was rolled back may have been committed.      *)
Complete(c) ==
  /\ At(c, "complete") \/ At(c, "recover")
  /\ \/ /\ CompleteWithSale(PriceOf[c])
        /\ CallerGoes(c, "confirm") \/ AnswerLost(c, "freeze_charged")
     \/ /\ CompletionCanFail(PriceOf[c])
        /\ CallerGoes(c, "freeze_charged")
        /\ UNCHANGED <<rec, books>>
  /\ UNCHANGED <<now, submits, slot, orders, recon, flagged>>

(* _freeze, whatever the record says by now, COMPLETED included.           *)
FreezeCharged(c) ==
  /\ At(c, "freeze_charged")
  /\ \/ /\ rec' = Stamped(PENDING)
        /\ \/ caller' = [caller EXCEPT ![c].pc = "suspend", ![c].extra = rec.attempts]
           \/ "lost" \in Faults /\ CallerEnds(c)
     \/ /\ "db" \in Faults
        /\ CallerEnds(c)
        /\ UNCHANGED rec
  /\ UNCHANGED <<now, submits, slot, books, orders, recon, flagged>>

SuspendAlone(c) ==
  /\ At(c, "suspend")
  /\ \/ books' = Ledger!AfterUnverified(books, caller[c].extra)
     \/ Faults \cap {"db", "posting"} # {} /\ UNCHANGED books
  /\ CallerEnds(c)
  /\ UNCHANGED <<now, submits, rec, slot, orders, recon, flagged>>

(* execute() marks the key FAILED whatever the exception was, a timeout    *)
(* included; when that write fails too, its error replaces the timeout.    *)
Abandon(c) ==
  \/ /\ At(c, "abandon_timeout")
     /\ rec' = Stamped(FAILED)
     /\ CallerGoes(c, "freeze_timeout") \/ AnswerLost(c, "release")
     /\ UNCHANGED <<now, submits, slot, books, orders, recon, flagged>>
  \/ /\ At(c, "abandon_failure")
     /\ rec' = Stamped(FAILED)
     /\ CallerGoes(c, "release")
     /\ UNCHANGED <<now, submits, slot, books, orders, recon, flagged>>
  \/ /\ "db" \in Faults
     /\ At(c, "abandon_timeout") \/ At(c, "abandon_failure")
     /\ CallerGoes(c, "release")
     /\ UNCHANGED <<now, submits, rec, slot, books, orders, recon, flagged>>

(* mark_pending_verification: with the suspense posting, else without it,  *)
(* else not at all; the slot stays held.  When the answer of the first is  *)
(* lost the key is frozen once more, whatever became of it meanwhile.      *)
FreezeTimeoutAlone(c) ==
  /\ At(c, "freeze_timeout")
  /\ rec' = Stamped(PENDING)
  /\ CallerEnds(c)
  /\ UNCHANGED <<now, submits, slot, books, orders, recon, flagged>>

FreezeTimeout(c) ==
  /\ At(c, "freeze_timeout")
  /\ \/ /\ rec' = Stamped(PENDING)
        /\ books' = Ledger!AfterUnverified(books, rec.attempts)
        /\ CallerEnds(c) \/ AnswerLost(c, "freeze_again")
     \/ /\ Faults \cap {"db", "posting"} # {}
        /\ rec' = Stamped(PENDING)
        /\ CallerEnds(c)
        /\ UNCHANGED books
     \/ /\ "db" \in Faults
        /\ CallerEnds(c)
        /\ UNCHANGED <<rec, books>>
  /\ UNCHANGED <<now, submits, slot, orders, recon, flagged>>

FreezeAgain(c) ==
  /\ At(c, "freeze_again")
  /\ \/ rec' = Stamped(PENDING)
     \/ "db" \in Faults /\ UNCHANGED rec
  /\ CallerEnds(c)
  /\ UNCHANGED <<now, submits, slot, books, orders, recon, flagged>>

-----------------------------------------------------------------------------
(* The slot, and the failures that cut a request short.                    *)

ConfirmSlot(c) ==
  /\ At(c, "confirm")
  /\ slot' = "CONFIRMED"
  /\ CallerEnds(c)
  /\ UNCHANGED <<now, submits, rec, books, orders, recon, flagged>>

ReleaseSlot(c) ==
  /\ At(c, "release")
  /\ slot' = "RELEASED"
  /\ CallerEnds(c)
  /\ UNCHANGED <<now, submits, rec, books, orders, recon, flagged>>

(* An audit entry that cannot be written raises before the step it is      *)
(* written for: POLICY_APPROVED, PAYMENT_ATTEMPTED, the outcome and        *)
(* PAYMENT_FAILED entries.                                                 *)
AuditFails(c) ==
  /\ "audit" \in Faults
  /\ \/ (At(c, "claim") \/ At(c, "confirm") \/ At(c, "release")) /\ CallerEnds(c)
     \/ At(c, "charge") /\ CallerGoes(c, "abandon_failure")
  /\ UNCHANGED <<now, submits, rec, slot, books, orders, recon, flagged>>

(* A failed claim, renewal or fenced freeze reaches submit() as any other  *)
(* exception, which releases the slot; a failed slot write just raises.    *)
StoreFails(c) ==
  /\ "db" \in Faults
  /\ \/ /\ At(c, "claim") \/ At(c, "renew") \/ At(c, "freeze_held")
        /\ CallerGoes(c, "release")
     \/ /\ At(c, "confirm") \/ At(c, "release")
        /\ CallerEnds(c)
  /\ UNCHANGED <<now, submits, rec, slot, books, orders, recon, flagged>>

CallerCrashes(c) ==
  /\ "crash" \in Faults
  /\ ~At(c, "idle")
  /\ CallerEnds(c)
  /\ UNCHANGED <<now, submits, rec, slot, books, orders, recon, flagged>>

-----------------------------------------------------------------------------
(* run_once(): sweep() picks pending keys, repair_ledger() keys the books  *)
(* disagree with the store about, unless already left to a human.          *)

Repairable ==
  \/ rec.status = COMPLETED /\ ~Ledger!Sold(books)         \* missing_sale
  \/ rec.status # PENDING /\ books.open # {}               \* open_suspense_not_pending

PickRepairsOnly(r) ==
  /\ recon[r].pc = "idle" /\ Repairable /\ ~flagged
  /\ recon' = [recon EXCEPT ![r].pc = "get", ![r].repairing = TRUE]
  /\ UNCHANGED <<now, submits, rec, slot, books, orders, caller, flagged>>

Pick(r) ==
  /\ recon[r].pc = "idle"
  /\ \/ /\ rec.status = PENDING
        /\ recon' = [recon EXCEPT ![r].pc = "get"]
     \/ /\ Repairable /\ ~flagged
        /\ recon' = [recon EXCEPT ![r].pc = "get", ![r].repairing = TRUE]
  /\ UNCHANGED <<now, submits, rec, slot, books, orders, caller, flagged>>

(* reconcile() reads the record once and acts on that copy later.          *)
ReadRecord(r) ==
  /\ recon[r].pc = "get"
  /\ recon' = [recon EXCEPT ![r].pc = "ask", ![r].row = rec]
  /\ UNCHANGED <<now, submits, rec, slot, books, orders, caller, flagged>>

AskProvider(r) ==
  /\ recon[r].pc = "ask"
  /\ \E S \in Listings({now}) : recon' = [recon EXCEPT ![r].pc = "act", ![r].seen = S]
  /\ UNCHANGED <<now, submits, rec, slot, books, orders, caller, flagged>>

ProviderMute(r) ==
  /\ "mute" \in Faults
  /\ recon[r].pc = "ask"
  /\ ReconEnds(r)
  /\ UNCHANGED <<now, submits, rec, slot, books, orders, caller, flagged>>

NeedsHuman(r) ==
  \/ Cardinality(recon[r].seen) > 1
  \/ /\ recon[r].seen = {} /\ recon[r].row.status = COMPLETED
     /\ CaughtUp(recon[r].row.claimedAt)

(* Two orders, or a completed record without one: reported, never repaired.*)
LeaveToHuman(r) ==
  /\ recon[r].pc = "act"
  /\ NeedsHuman(r)
  /\ flagged' = (flagged \/ recon[r].repairing)
  /\ ReconEnds(r)
  /\ UNCHANGED <<now, submits, rec, slot, books, orders, caller>>

(* Absence is not yet evidence.                                            *)
StillUnknown(r) ==
  /\ recon[r].pc = "act"
  /\ recon[r].seen = {}
  /\ ~CaughtUp(recon[r].row.claimedAt)
  /\ ReconEnds(r)
  /\ UNCHANGED <<now, submits, rec, slot, books, orders, caller, flagged>>

(* No order, long enough ago: resolve_not_executed, on the row as it is    *)
(* now, with the attempt number and the status read before asking.         *)
ConfirmNotExecuted(r) ==
  LET row == recon[r].row IN
  /\ recon[r].pc = "act"
  /\ recon[r].seen = {} /\ ~NeedsHuman(r)
  /\ CaughtUp(row.claimedAt)
  /\ \/ /\ row.status = PENDING
        /\ rec' = Stamped(FAILED)
        /\ books' = Ledger!AfterNotExecuted(books, row.attempts)
        /\ recon' = [recon EXCEPT ![r] = [IdleRecon EXCEPT !.pc = "release"]]
     \/ /\ row.status = FAILED
        /\ books' = Ledger!AfterNotExecuted(books, row.attempts)
        /\ ReconEnds(r)
        /\ UNCHANGED rec
     \/ /\ row.status = PROCESSING
        /\ ReconEnds(r)
        /\ UNCHANGED <<rec, books>>
  /\ UNCHANGED <<now, submits, slot, orders, caller, flagged>>

(* One order: book its sale, and complete the record if the copy read      *)
(* before asking was not COMPLETED.                                        *)
RepairFromOrder(r) ==
  LET amount == OnlyOrder(recon[r].seen).amount IN
  /\ recon[r].pc = "act"
  /\ Cardinality(recon[r].seen) = 1
  /\ ~Ledger!SaleConflicts(books, amount)
  /\ books' = Ledger!AfterSale(books, amount)
  /\ \/ /\ recon[r].row.status = COMPLETED
        /\ ReconEnds(r)
        /\ UNCHANGED rec
     \/ /\ recon[r].row.status # COMPLETED
        /\ rec' = Stamped(COMPLETED)
        /\ recon' = [recon EXCEPT ![r] = [IdleRecon EXCEPT !.pc = "confirm"]]
  /\ UNCHANGED <<now, submits, slot, orders, caller, flagged>>

SettleSlotConfirmed(r) ==
  /\ recon[r].pc \in {"confirm", "release"}
  /\ slot' = "CONFIRMED"
  /\ ReconEnds(r)
  /\ UNCHANGED <<now, submits, rec, books, orders, caller, flagged>>

SettleSlot(r) ==
  /\ \/ recon[r].pc = "confirm" /\ slot' = "CONFIRMED"
     \/ recon[r].pc = "release" /\ slot' = "RELEASED"
  /\ ReconEnds(r)
  /\ UNCHANGED <<now, submits, rec, books, orders, caller, flagged>>

(* A write, the audit entry before it, or the answer of the write before   *)
(* fails: run_once() reports it and the next cycle starts over.            *)
SweepFails(r) ==
  /\ Faults \cap {"db", "lost", "posting", "audit"} # {}
  /\ recon[r].pc # "idle"
  /\ ReconEnds(r)
  /\ UNCHANGED <<now, submits, rec, slot, books, orders, caller, flagged>>

(* The process restarts: the set of keys left to a human is forgotten.     *)
SweepCrashes(r) ==
  /\ "crash" \in Faults
  /\ recon[r].pc # "idle" \/ flagged
  /\ ReconEnds(r)
  /\ flagged' = FALSE
  /\ UNCHANGED <<now, submits, rec, slot, books, orders, caller>>

-----------------------------------------------------------------------------

(* Without "stall" a caller ends before the claim it works under is stale, *)
(* and without "slow" a listing is judged by the clock it was read at.     *)
Tick ==
  /\ now < MaxNow
  /\ "slow" \in Faults \/ \A r \in Reconcilers : recon[r].pc # "act"
  /\ "stall" \in Faults \/ \A c \in Callers :
       At(c, "idle") \/ now + 1 < caller[c].claim + StaleAfter
  /\ now' = now + 1
  /\ UNCHANGED <<submits, rec, slot, books, orders, caller, recon, flagged>>

Init ==
  /\ now = 0 /\ submits = 0
  /\ rec = NoRecord /\ slot = "none"
  /\ books = Ledger!EmptyPosition /\ orders = <<>>
  /\ caller = [c \in Callers |-> IdleCaller]
  /\ recon = [r \in Reconcilers |-> IdleRecon]
  /\ flagged = FALSE

CallerStep(c) ==
  \/ Claim(c) \/ VerifyStale(c) \/ FreezeHeldClaim(c) \/ RenewClaim(c)
  \/ ChargeAnswered(c) \/ ChargeRefused(c) \/ ChargeTimesOut(c) \/ ChargeGarbled(c)
  \/ Complete(c) \/ FreezeCharged(c) \/ SuspendAlone(c)
  \/ Abandon(c) \/ FreezeTimeout(c) \/ FreezeAgain(c) \/ ConfirmSlot(c) \/ ReleaseSlot(c)

CallerFault(c) ==
  VerifyUnanswered(c) \/ AuditFails(c) \/ StoreFails(c) \/ CallerCrashes(c)

ReconStep(r) ==
  \/ Pick(r) \/ ReadRecord(r) \/ AskProvider(r) \/ LeaveToHuman(r) \/ StillUnknown(r)
  \/ ConfirmNotExecuted(r) \/ RepairFromOrder(r) \/ SettleSlot(r)

ReconFault(r) == ProviderMute(r) \/ SweepFails(r) \/ SweepCrashes(r)

Next ==
  \/ \E c \in Callers : Submit(c) \/ CallerStep(c) \/ CallerFault(c)
  \/ \E r \in Reconcilers : ReconStep(r) \/ ReconFault(r)
  \/ Tick

Spec == Init /\ [][Next]_vars

(* Time passes whatever the program does, the scheduler's loop keeps       *)
(* sweeping (reconcile.py:489-494), request threads keep running, and a    *)
(* provider asked again and again answers.                                 *)
Fairness ==
  /\ SF_vars(Tick)
  /\ \A c \in Callers : WF_vars(CallerStep(c))
  /\ \A r \in Reconcilers : WF_vars(ReconStep(r)) /\ SF_vars(AskProvider(r))

FairSpec == Spec /\ Fairness

-----------------------------------------------------------------------------
(* Properties that hold whatever goes wrong.                               *)

TypeOK ==
  /\ now \in Nat /\ submits \in Nat
  /\ rec \in Record
  /\ slot \in {"none", "HELD", "CONFIRMED", "RELEASED"}
  /\ books \in [sold : Prices \cup {0}, open : SUBSET Nat, settled : SUBSET Nat]
  /\ orders \in Seq(Order)
  /\ caller \in [Callers -> CallerState]
  /\ recon \in [Reconcilers -> ReconState]
  /\ flagged \in BOOLEAN

(* A completed purchase has its sale in the books: no failure, crash or    *)
(* late writer leaves one without the other (idempotency.py:287-297).      *)
CompletedHasSale == rec.status = COMPLETED => Ledger!Sold(books)

(* The books never recognise money the provider did not take.              *)
SaleIsBacked ==
  Ledger!Sold(books) => \E i \in DOMAIN orders : orders[i].amount = books.sold

(* A sold key has nothing left in suspense, even when the suspense posting *)
(* of a frozen attempt arrives after the reconciler booked the sale.       *)
NoSuspenseOnceSold == Ledger!Sold(books) => books.open = {}

(* Reusing the key with another payload never charges.                     *)
OnlyTheFirstPayload ==
  \A i \in DOMAIN orders : orders[i].amount = rec.fingerprint

-----------------------------------------------------------------------------
(* Properties that depend on what may go wrong.                            *)

(* "Executes at most once, no matter how many times that request is        *)
(* retried, replayed, or raced" (idempotency.py:3-6).                      *)
AtMostOneCharge == Len(orders) <= 1

(* The record as a retry finds it, for ExactlyOnce.                        *)
RetryFinds ==
  CASE rec.status \in {"none", FAILED} -> "open"
    [] rec.status = PROCESSING -> "taken"
    [] rec.status = PENDING -> "unknown"
    [] rec.status = COMPLETED -> "done"

Promise == INSTANCE ExactlyOnce WITH state <- RetryFinds, charges <- Len(orders)

(* While nobody is suspended past the staleness window and every exception *)
(* of the provider means nothing was charged, the store keeps its promise: *)
(* one charge, no open key that was charged, PENDING_VERIFICATION left     *)
(* only towards what really happened, COMPLETED only into doubt, by an     *)
(* answer lost on its way back (idempotency.py:485-499).                   *)
KeepsPromise == Promise!Spec

(* "Only reconciliation (Phase 7) may move a record out of this state"     *)
(* (idempotency.py:39-40), under the same provisions.                      *)
PendingLeftOnlyByReconciliation ==
  [][rec.status = PENDING /\ rec'.status # PENDING =>
       \E r \in Reconcilers : recon[r].pc = "act" /\ recon'[r].pc # "act"]_vars

(* While the unknown outcome of an unsold key is unresolved, the amount is *)
(* in suspense: exposure is "a live number instead of silence"             *)
(* (ledger.py:32-36), provided the ledger takes the posting.               *)
UnknownIsInSuspense ==
  rec.status = PENDING /\ ~Ledger!Sold(books) => rec.attempts \in books.open

(* A charge ends recorded and booked, timeouts and an unreachable provider *)
(* notwithstanding: nothing waits for a human (reconcile.py:425-430).      *)
ChargeIsRecorded ==
  orders # <<>> ~> rec.status = COMPLETED /\ Ledger!Sold(books)

(* A frozen key that was not charged gives its budget back (gateway.py:254)*)
(* and leaves nothing in suspense, unless a retry charges after all.       *)
NoChargeGivesBudgetBack ==
  rec.status = PENDING /\ orders = <<>>
    ~> orders # <<>> \/ (slot = "RELEASED" /\ books.open = {})

-----------------------------------------------------------------------------
(* A statement of the code's own documentation that a run refutes.         *)

(* "The record is frozen as PENDING_VERIFICATION, so a retry is refused    *)
(* rather than re-executed" (gateway.py:249-251): no attempt is claimed    *)
(* while a timed-out one is still being frozen.                            *)
RetryRefusedWhileUnknown ==
  [][(\E c \in Callers : At(c, "freeze_timeout")) => rec'.attempts = rec.attempts]_vars
=============================================================================
