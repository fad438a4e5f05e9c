----------------------------- MODULE RoundsProofs -----------------------------
(***************************************************************************)
(* Theorems about Rounds: a round of the chaos harness that reaches its    *)
(* check finds the money where it should be, and a key in flight only      *)
(* where a lost connection left it, for any number of purchases and        *)
(* terminated connections.                                                 *)
(*                                                                         *)
(* What the invariant says is said of each key: a purchase and its         *)
(* reconciliation leave the other keys alone.                              *)
(***************************************************************************)
EXTENDS Rounds, TLAPS

-----------------------------------------------------------------------------
(* The invariant.                                                          *)

(* The provider charges a receipt once, after the claim, and who was not   *)
(* charged has no revenue booked.                                          *)
OneOrder(k) ==
  /\ orders[k] =< 1
  /\ status[k] = "none" => orders[k] = 0
  /\ orders[k] = 0 => ~Ledger!Sold(books[k]) /\ status[k] # COMPLETED

(* Only the last attempt of a frozen key is in suspense.                   *)
SuspenseIsFrozen(k) ==
  /\ books[k].open \subseteq {attempts[k]}
  /\ books[k].open # {} =>
       status[k] = PENDING /\ ~Ledger!Sold(books[k]) /\ books[k].settled = {}
  /\ phase \in {"storm", "retry"} => books[k].settled = {}
  /\ status[k] \in {"none", PROCESSING} => books[k] = Ledger!EmptyPosition

(* What a purchase has done when it is at a place.                         *)
WhereItIs(k) ==
  /\ At(k, "claim") /\ phase = "storm" =>
       attempts[k] = 0 /\ orders[k] = 0 /\ status[k] = "none"
  /\ At(k, "claim") /\ phase # "storm" => attempts[k] = 1 /\ status[k] = PROCESSING
  /\ step[k] \in {"verify", "recover", "renew", "charge", "complete", "abandon",
                  "abandon_timeout", "freeze_held"} => status[k] = PROCESSING
  /\ step[k] \in {"recover", "complete", "freeze", "suspend"} => orders[k] = 1
  /\ step[k] \in {"renew", "charge"} => orders[k] = 0
  /\ At(k, "freeze") => status[k] \in {PROCESSING, COMPLETED}
  /\ At(k, "suspend") => status[k] = PENDING
  /\ At(k, "freeze_timeout") => status[k] = FAILED
  /\ At(k, "freeze_timeout_alone") => status[k] \in {FAILED, PENDING}
  /\ At(k, "freeze_held_alone") => status[k] \in {PROCESSING, PENDING}

(* A key is claimed once in the storm and retried once.                    *)
ClaimedOnce(k) ==
  /\ phase = "storm" => attempts[k] =< 1
  /\ ~At(k, "claim") /\ status[k] # "none" => attempts[k] >= 1
  /\ At(k, "over") \/ At(k, "claim") \/ status[k] # "none"
  /\ phase = "retry" /\ k \in todo =>
       At(k, "over") /\ status[k] = PROCESSING /\ attempts[k] = 1

(* After the storm and the retries no purchase is under way.               *)
OverWhenReconciled(k) == phase \notin {"storm", "retry"} => At(k, "over")

(* What MoneyAddsUp says of a key; it holds once the key was visited.      *)
AddsUp(k) ==
  /\ orders[k] =< 1
  /\ Ledger!Sold(books[k]) <=> orders[k] = 1
  /\ status[k] = COMPLETED <=> orders[k] = 1
  /\ books[k].open = {}

VisitedAddsUp(k) ==
  /\ phase = "reconcile" /\ k \notin todo => AddsUp(k)
  /\ phase \in {"repair", "checked"} => AddsUp(k)

(* While no connection was terminated, the retry settles what it began.    *)
LeftOnlyByLoss(k) ==
  kills = 0 =>
    /\ phase = "retry" /\ k \notin todo /\ At(k, "over") => status[k] # PROCESSING
    /\ phase \in {"reconcile", "repair", "checked"} => status[k] # PROCESSING

KeyInv(k) ==
  /\ OneOrder(k) /\ SuspenseIsFrozen(k) /\ WhereItIs(k) /\ ClaimedOnce(k)
  /\ OverWhenReconciled(k) /\ VisitedAddsUp(k) /\ LeftOnlyByLoss(k)

IInv == TypeOK /\ \A k \in Keys : KeyInv(k)

-----------------------------------------------------------------------------
(* Positions in the books.                                                 *)

(* The empty position has nothing in it.                                   *)
LEMMA EmptyIsPosition ==
  /\ Ledger!EmptyPosition \in Ledger!Position /\ ~Ledger!Sold(Ledger!EmptyPosition)
  /\ Ledger!EmptyPosition.open = {} /\ Ledger!EmptyPosition.settled = {}
BY DEF Ledger!Position, Ledger!EmptyPosition, Ledger!Sold

(* A sale closes what is in suspense.                                      *)
LEMMA SaleSells ==
  ASSUME NEW p \in Ledger!Position, p.open # {} => ~Ledger!Sold(p), NEW q, q = Ledger!AfterSale(p, 1)
  PROVE  q \in Ledger!Position /\ Ledger!Sold(q) /\ q.open = {} /\ q.settled = p.settled
<1>1. CASE Ledger!Sold(p)
  BY <1>1 DEF Ledger!AfterSale
<1>2. CASE ~Ledger!Sold(p)
  <2>1. q = [sold |-> 1, open |-> {}, settled |-> p.settled]
    BY <1>2 DEF Ledger!AfterSale, Ledger!Position
  <2> QED
    BY <2>1 DEF Ledger!Position, Ledger!Sold
<1> QED
  BY <1>1, <1>2

(* The attempt is in suspense unless the key is sold.                      *)
LEMMA UnverifiedSuspends ==
  ASSUME NEW p \in Ledger!Position, NEW a \in 1 .. 2, p.open \subseteq {a}, p.settled = {}
  PROVE  LET q == Ledger!AfterUnverified(p, a)
         IN  /\ q \in Ledger!Position /\ q.open \subseteq {a} /\ q.settled = {}
             /\ Ledger!Sold(q) <=> Ledger!Sold(p)
             /\ Ledger!Sold(p) => q = p
BY DEF Ledger!Position, Ledger!AfterUnverified, Ledger!Sold

(* Nothing is left in suspense.                                            *)
LEMMA NotExecutedCloses ==
  ASSUME NEW p \in Ledger!Position, NEW a \in 1 .. 2, p.open \subseteq {a},
         p.open # {} => p.settled = {}
  PROVE  LET q == Ledger!AfterNotExecuted(p, a)
         IN  q \in Ledger!Position /\ q.open = {} /\ (Ledger!Sold(q) <=> Ledger!Sold(p))
BY DEF Ledger!Position, Ledger!AfterNotExecuted, Ledger!Sold

-----------------------------------------------------------------------------
(* Purchases.                                                              *)

(* A step of k leaves the other keys alone.                                *)
Others(k) ==
  \A d \in Keys \ {k} :
    /\ step'[d] = step[d] /\ status'[d] = status[d] /\ attempts'[d] = attempts[d]
    /\ books'[d] = books[d] /\ orders'[d] = orders[d]

LEMMA PurchaseIsLocal ==
  ASSUME IInv, NEW k \in Keys, TypeOK', KeyInv(k)', Others(k),
         UNCHANGED <<phase, todo>>, kills' = 0 => kills = 0
  PROVE  IInv'
<1>1. ASSUME NEW d \in Keys \ {k} PROVE KeyInv(d)'
  <2>1. KeyInv(d)
    BY DEF IInv
  <2> QED
    BY <2>1 DEF Others, KeyInv, OneOrder, SuspenseIsFrozen, WhereItIs, ClaimedOnce,
                OverWhenReconciled, VisitedAddsUp, AddsUp, LeftOnlyByLoss, At
<1> QED
  BY <1>1 DEF IInv

(* One step each; the definitions a step is made of, and what is said of a *)
(* key.                                                                    *)
LEMMA ClaimStep ==
  ASSUME IInv, NEW k \in Keys, Claim(k), UNCHANGED <<phase, todo, tries, kills>>
  PROVE  TypeOK' /\ KeyInv(k)' /\ Others(k)
<1> USE DEF Statement, Takes, Goes, Becomes, At, keyVars, KeyInv, WhereItIs, ClaimedOnce,
            PROCESSING, PENDING, COMPLETED, FAILED
<1>0. TypeOK /\ KeyInv(k)
  BY DEF IInv
<1>1. TypeOK' /\ Others(k)
  BY <1>0 DEF Claim, AskFirst, TypeOK, Others
<1>2. KeyInv(k)'
  BY <1>0, EmptyIsPosition DEF Claim, AskFirst, TypeOK, OneOrder, SuspenseIsFrozen,
    OverWhenReconciled, VisitedAddsUp, AddsUp, LeftOnlyByLoss
<1> QED
  BY <1>1, <1>2

LEMMA VerifyStep ==
  ASSUME IInv, NEW k \in Keys, VerifyStale(k), UNCHANGED <<phase, todo, tries, kills>>
  PROVE  TypeOK' /\ KeyInv(k)' /\ Others(k)
<1> USE DEF Statement, Goes, Becomes, Books, At, keyVars, KeyInv, WhereItIs, ClaimedOnce,
            PROCESSING, PENDING, COMPLETED, FAILED
<1>0. TypeOK /\ KeyInv(k)
  BY DEF IInv
<1>1. TypeOK' /\ Others(k)
  BY <1>0 DEF VerifyStale, TypeOK, Others
<1>2. KeyInv(k)'
  BY <1>0, EmptyIsPosition DEF VerifyStale, TypeOK, OneOrder, SuspenseIsFrozen,
    OverWhenReconciled, VisitedAddsUp, AddsUp, LeftOnlyByLoss
<1> QED
  BY <1>1, <1>2

LEMMA RenewStep ==
  ASSUME IInv, NEW k \in Keys, RenewClaim(k), UNCHANGED <<phase, todo, tries, kills>>
  PROVE  TypeOK' /\ KeyInv(k)' /\ Others(k)
<1> USE DEF Statement, Goes, Becomes, Books, At, keyVars, KeyInv, WhereItIs, ClaimedOnce,
            PROCESSING, PENDING, COMPLETED, FAILED
<1>0. TypeOK /\ KeyInv(k)
  BY DEF IInv
<1>1. TypeOK' /\ Others(k)
  BY <1>0 DEF RenewClaim, TypeOK, Others
<1>2. KeyInv(k)'
  BY <1>0, EmptyIsPosition DEF RenewClaim, TypeOK, OneOrder, SuspenseIsFrozen,
    OverWhenReconciled, VisitedAddsUp, AddsUp, LeftOnlyByLoss
<1> QED
  BY <1>1, <1>2

LEMMA ChargeStep ==
  ASSUME IInv, NEW k \in Keys, Charge(k), UNCHANGED <<phase, todo, tries>>
  PROVE  TypeOK' /\ KeyInv(k)' /\ Others(k)
<1> USE DEF Statement, Goes, Becomes, Books, At, keyVars, KeyInv, WhereItIs, ClaimedOnce,
            PROCESSING, PENDING, COMPLETED, FAILED
<1>0. TypeOK /\ KeyInv(k)
  BY DEF IInv
<1>1. TypeOK' /\ Others(k)
  BY <1>0, RoundsAssumption DEF OneOrder, Charge, CreateOrder, Charges, TypeOK, Others
<1>2. KeyInv(k)'
  BY <1>0, EmptyIsPosition DEF Charge, CreateOrder, Charges, TypeOK, OneOrder, SuspenseIsFrozen,
    OverWhenReconciled, VisitedAddsUp, AddsUp, LeftOnlyByLoss
<1> QED
  BY <1>1, <1>2

LEMMA CompleteStep ==
  ASSUME IInv, NEW k \in Keys, Complete(k), UNCHANGED <<phase, todo, tries, kills>>
  PROVE  TypeOK' /\ KeyInv(k)' /\ Others(k)
<1> USE DEF Statement, Goes, Becomes, Books, At, keyVars, KeyInv, WhereItIs, ClaimedOnce,
            PROCESSING, PENDING, COMPLETED, FAILED
<1>0. TypeOK /\ KeyInv(k)
  BY DEF IInv
<1>p. LET q == Ledger!AfterSale(books[k], 1)
      IN  q \in Ledger!Position /\ Ledger!Sold(q) /\ q.open = {} /\ q.settled = books[k].settled
  BY <1>0, SaleSells DEF TypeOK, SuspenseIsFrozen
<1>1. TypeOK' /\ Others(k)
  BY <1>0, <1>p DEF Complete, Completes, TypeOK, Others
<1>2. KeyInv(k)'
  BY <1>0, <1>p DEF Complete, Completes, TypeOK, OneOrder, SuspenseIsFrozen,
    OverWhenReconciled, VisitedAddsUp, AddsUp, LeftOnlyByLoss
<1> QED
  BY <1>1, <1>2

LEMMA FreezeChargedStep ==
  ASSUME IInv, NEW k \in Keys, FreezeCharged(k), UNCHANGED <<phase, todo, tries, kills>>
  PROVE  TypeOK' /\ KeyInv(k)' /\ Others(k)
<1> USE DEF Statement, Goes, Becomes, Books, At, keyVars, KeyInv, WhereItIs, ClaimedOnce,
            PROCESSING, PENDING, COMPLETED, FAILED
<1>0. TypeOK /\ KeyInv(k)
  BY DEF IInv
<1>1. TypeOK' /\ Others(k)
  BY <1>0 DEF FreezeCharged, FreezesAlone, TypeOK, Others
<1>2. KeyInv(k)'
  BY <1>0, EmptyIsPosition DEF FreezeCharged, FreezesAlone, TypeOK, OneOrder, SuspenseIsFrozen,
    OverWhenReconciled, VisitedAddsUp, AddsUp, LeftOnlyByLoss
<1> QED
  BY <1>1, <1>2

LEMMA SuspendStep ==
  ASSUME IInv, NEW k \in Keys, SuspendAlone(k), UNCHANGED <<phase, todo, tries, kills>>
  PROVE  TypeOK' /\ KeyInv(k)' /\ Others(k)
<1> USE DEF Statement, Goes, Becomes, Books, At, keyVars, KeyInv, WhereItIs, ClaimedOnce,
            PROCESSING, PENDING, COMPLETED, FAILED
<1>0. TypeOK /\ KeyInv(k)
  BY DEF IInv
<1>a. books[k].settled = {} /\ books[k].open \subseteq {attempts[k]} /\ attempts[k] \in 1 .. 2
         /\ books[k] \in Ledger!Position
  BY <1>0 DEF SuspendAlone, OverWhenReconciled, SuspenseIsFrozen, TypeOK
<1>p. LET q == Ledger!AfterUnverified(books[k], attempts[k])
      IN  /\ q \in Ledger!Position /\ q.open \subseteq {attempts[k]} /\ q.settled = books[k].settled
          /\ Ledger!Sold(q) <=> Ledger!Sold(books[k])
          /\ Ledger!Sold(books[k]) => q = books[k]
  BY <1>a, UnverifiedSuspends
<1>1. TypeOK' /\ Others(k)
  BY <1>0, <1>p DEF SuspendAlone, Suspends, TypeOK, Others
<1>2. KeyInv(k)'
  BY <1>0, <1>p DEF SuspendAlone, Suspends, TypeOK, OneOrder, SuspenseIsFrozen,
    OverWhenReconciled, VisitedAddsUp, AddsUp, LeftOnlyByLoss
<1> QED
  BY <1>1, <1>2

LEMMA AbandonStep ==
  ASSUME IInv, NEW k \in Keys, Abandon(k), UNCHANGED <<phase, todo, tries, kills>>
  PROVE  TypeOK' /\ KeyInv(k)' /\ Others(k)
<1> USE DEF Statement, Goes, Becomes, Books, At, keyVars, KeyInv, WhereItIs, ClaimedOnce,
            PROCESSING, PENDING, COMPLETED, FAILED
<1>0. TypeOK /\ KeyInv(k)
  BY DEF IInv
<1>1. TypeOK' /\ Others(k)
  BY <1>0 DEF Abandon, Abandons, TypeOK, Others
<1>2. KeyInv(k)'
  BY <1>0, EmptyIsPosition DEF Abandon, Abandons, TypeOK, OneOrder, SuspenseIsFrozen,
    OverWhenReconciled, VisitedAddsUp, AddsUp, LeftOnlyByLoss
<1> QED
  BY <1>1, <1>2

LEMMA FreezeTimeoutStep ==
  ASSUME IInv, NEW k \in Keys, FreezeTimeout(k), UNCHANGED <<phase, todo, tries, kills>>
  PROVE  TypeOK' /\ KeyInv(k)' /\ Others(k)
<1> USE DEF Statement, Goes, Becomes, Books, At, keyVars, KeyInv, WhereItIs, ClaimedOnce,
            PROCESSING, PENDING, COMPLETED, FAILED
<1>0. TypeOK /\ KeyInv(k)
  BY DEF IInv
<1>a. books[k].settled = {} /\ books[k].open \subseteq {attempts[k]} /\ attempts[k] \in 1 .. 2
         /\ books[k] \in Ledger!Position
  BY <1>0 DEF FreezeTimeout, OverWhenReconciled, SuspenseIsFrozen, TypeOK
<1>p. LET q == Ledger!AfterUnverified(books[k], attempts[k])
      IN  /\ q \in Ledger!Position /\ q.open \subseteq {attempts[k]} /\ q.settled = books[k].settled
          /\ Ledger!Sold(q) <=> Ledger!Sold(books[k])
          /\ Ledger!Sold(books[k]) => q = books[k]
  BY <1>a, UnverifiedSuspends
<1>1. TypeOK' /\ Others(k)
  BY <1>0, <1>p DEF FreezeTimeout, Freezes, FreezesAlone, TypeOK, Others
<1>2. KeyInv(k)'
  BY <1>0, <1>p DEF FreezeTimeout, Freezes, FreezesAlone, TypeOK, OneOrder, SuspenseIsFrozen,
    OverWhenReconciled, VisitedAddsUp, AddsUp, LeftOnlyByLoss
<1> QED
  BY <1>1, <1>2

LEMMA FreezeHeldStep ==
  ASSUME IInv, NEW k \in Keys, FreezeHeldClaim(k), UNCHANGED <<phase, todo, tries, kills>>
  PROVE  TypeOK' /\ KeyInv(k)' /\ Others(k)
<1> USE DEF Statement, Goes, Becomes, Books, At, keyVars, KeyInv, WhereItIs, ClaimedOnce,
            PROCESSING, PENDING, COMPLETED, FAILED
<1>0. TypeOK /\ KeyInv(k)
  BY DEF IInv
<1>a. books[k].settled = {} /\ books[k].open \subseteq {attempts[k]} /\ attempts[k] \in 1 .. 2
         /\ books[k] \in Ledger!Position
  BY <1>0 DEF FreezeHeldClaim, OverWhenReconciled, SuspenseIsFrozen, TypeOK
<1>p. LET q == Ledger!AfterUnverified(books[k], attempts[k])
      IN  /\ q \in Ledger!Position /\ q.open \subseteq {attempts[k]} /\ q.settled = books[k].settled
          /\ Ledger!Sold(q) <=> Ledger!Sold(books[k])
          /\ Ledger!Sold(books[k]) => q = books[k]
  BY <1>a, UnverifiedSuspends
<1>1. TypeOK' /\ Others(k)
  BY <1>0, <1>p DEF FreezeHeldClaim, Freezes, FreezesAlone, TypeOK, Others
<1>2. KeyInv(k)'
  BY <1>0, <1>p DEF FreezeHeldClaim, Freezes, FreezesAlone, TypeOK, OneOrder, SuspenseIsFrozen,
    OverWhenReconciled, VisitedAddsUp, AddsUp, LeftOnlyByLoss
<1> QED
  BY <1>1, <1>2

(* Every step of a purchase.                                               *)
LEMMA PurchaseStep ==
  ASSUME IInv, NEW k \in Keys, Purchase(k)
  PROVE  IInv'
<1>1. TypeOK' /\ KeyInv(k)' /\ Others(k)
  BY ClaimStep, VerifyStep, RenewStep, ChargeStep, CompleteStep, FreezeChargedStep,
     SuspendStep, AbandonStep, FreezeTimeoutStep, FreezeHeldStep DEF Purchase
<1>2. kills' = 0 => kills = 0
  BY DEF Purchase, Charge, IInv, TypeOK
<1> QED
  BY <1>1, <1>2, PurchaseIsLocal DEF Purchase

-----------------------------------------------------------------------------
(* Putting it back together.                                               *)

(* What the reconciler makes of a key is what MoneyAddsUp asks for.        *)
LEMMA SettlesAddsUp ==
  ASSUME IInv, NEW k \in Keys, Settles(k), phase \in {"reconcile", "repair"}, UNCHANGED step
  PROVE  /\ Others(k) /\ AddsUp(k)'
         /\ status' \in [Keys -> {"none", PROCESSING, COMPLETED, FAILED, PENDING}]
         /\ UNCHANGED <<attempts, orders>> /\ books' \in [Keys -> Ledger!Position]
         /\ status[k] = PROCESSING \/ status'[k] # PROCESSING
         /\ status[k] # "none" \/ status'[k] = "none"
         /\ status'[k] \in {"none", PROCESSING} => books'[k] = Ledger!EmptyPosition
<1> USE DEF PROCESSING, PENDING, COMPLETED, FAILED
<1>0. TypeOK /\ KeyInv(k) /\ books[k] \in Ledger!Position /\ At(k, "over")
  BY DEF IInv, TypeOK, KeyInv, OverWhenReconciled
<1>1. CASE orders[k] = 1
  <2>1. LET q == Ledger!AfterSale(books[k], 1)
        IN  q \in Ledger!Position /\ Ledger!Sold(q) /\ q.open = {} /\ q.settled = books[k].settled
    BY <1>0, SaleSells DEF KeyInv, SuspenseIsFrozen
  <2>2. Completes(k)
    BY <1>1 DEF Settles
  <2> QED
    BY <1>0, <1>1, <2>1, <2>2 DEF Completes, Becomes, Books, TypeOK, Others, AddsUp, KeyInv, OneOrder
<1>2. CASE orders[k] = 0 /\ status[k] \in {PENDING, FAILED}
  <2>1. attempts[k] \in 1 .. 2
    BY <1>0, <1>2 DEF KeyInv, ClaimedOnce, At, TypeOK
  <2>2. LET q == Ledger!AfterNotExecuted(books[k], attempts[k])
        IN  q \in Ledger!Position /\ q.open = {} /\ (Ledger!Sold(q) <=> Ledger!Sold(books[k]))
    BY <1>0, <2>1, NotExecutedCloses DEF KeyInv, SuspenseIsFrozen
  <2>3. /\ Becomes(k, FAILED) /\ Books(k, Ledger!AfterNotExecuted(books[k], attempts[k]))
        /\ UNCHANGED <<attempts, orders>>
    BY <1>2 DEF Settles
  <2> QED
    BY <1>0, <1>2, <2>2, <2>3 DEF Becomes, Books, TypeOK, Others, AddsUp, KeyInv, OneOrder
<1>3. CASE orders[k] = 0 /\ status[k] \in {"none", PROCESSING}
  <2>1. books[k] = Ledger!EmptyPosition /\ UNCHANGED keyVars
    BY <1>0, <1>3 DEF Settles, KeyInv, SuspenseIsFrozen
  <2> QED
    BY <1>0, <1>3, <2>1, EmptyIsPosition DEF keyVars, TypeOK, Others, AddsUp
<1> QED
  BY <1>0, <1>1, <1>2, <1>3 DEF TypeOK, KeyInv, OneOrder

(* So each visit keeps the invariant, whether it was the last of the key.  *)
LEMMA VisitKeeps ==
  ASSUME IInv, NEW k \in Keys, Settles(k) \/ UNCHANGED keyVars, phase \in {"reconcile", "repair"},
         UNCHANGED <<step, kills>>, TypeOK', phase' \in {phase, "aborted"},
         todo' = todo \/ (todo' = todo \ {k} /\ Settles(k))
  PROVE  IInv'
<1> USE DEF PROCESSING, PENDING, COMPLETED, FAILED
<1>1. CASE Settles(k)
  <2>1. ASSUME NEW d \in Keys \ {k} PROVE KeyInv(d)'
    BY <1>1, SettlesAddsUp DEF Others, IInv, KeyInv, OneOrder, SuspenseIsFrozen, WhereItIs,
       ClaimedOnce, OverWhenReconciled, VisitedAddsUp, AddsUp, LeftOnlyByLoss, At
  <2>2. TypeOK /\ KeyInv(k) /\ At(k, "over") /\ AddsUp(k)'
    BY <1>1, SettlesAddsUp DEF IInv, KeyInv, OverWhenReconciled
  <2>3. /\ UNCHANGED <<attempts, orders>> /\ books[k] \in Ledger!Position
        /\ status[k] = PROCESSING \/ status'[k] # PROCESSING
        /\ status[k] # "none" \/ status'[k] = "none"
        /\ status'[k] \in {"none", PROCESSING} => books'[k] = Ledger!EmptyPosition
    BY <1>1, <2>2, SettlesAddsUp DEF TypeOK
  <2>4. OneOrder(k)' /\ SuspenseIsFrozen(k)'
    BY <2>2, <2>3 DEF KeyInv, OneOrder, SuspenseIsFrozen, AddsUp, TypeOK
  <2>5. WhereItIs(k)' /\ OverWhenReconciled(k)' /\ VisitedAddsUp(k)' /\ LeftOnlyByLoss(k)'
    BY <2>2, <2>3 DEF At, KeyInv, WhereItIs, OverWhenReconciled, VisitedAddsUp, AddsUp, LeftOnlyByLoss
  <2>6. ClaimedOnce(k)'
    BY <2>2, <2>3 DEF At, KeyInv, ClaimedOnce, TypeOK
  <2>7. KeyInv(k)'
    BY <2>4, <2>5, <2>6 DEF KeyInv
  <2> QED
    BY <2>1, <2>7 DEF IInv
<1>2. CASE UNCHANGED keyVars /\ UNCHANGED todo
  BY <1>2 DEF keyVars, IInv, KeyInv, OneOrder, SuspenseIsFrozen, WhereItIs,
       ClaimedOnce, OverWhenReconciled, VisitedAddsUp, AddsUp, LeftOnlyByLoss, At
<1> QED
  BY <1>1, <1>2

LEMMA ReconcileStep ==
  ASSUME IInv, NEW k \in Keys, Reconcile(k)
  PROVE  IInv'
<1>1. phase \in {"reconcile", "repair"} /\ (Settles(k) \/ UNCHANGED keyVars)
  BY DEF Reconcile
<1>2. /\ UNCHANGED <<step, kills>> /\ phase' \in {phase, "aborted"}
      /\ todo' = todo \/ (todo' = todo \ {k} /\ Settles(k))
  BY DEF Reconcile, Aborts
<1>3. TypeOK'
  <2>1. /\ status' \in [Keys -> {"none", PROCESSING, COMPLETED, FAILED, PENDING}]
        /\ attempts' = attempts /\ orders' = orders /\ books' \in [Keys -> Ledger!Position]
    BY <1>1, <1>2, SettlesAddsUp DEF keyVars, IInv, TypeOK
  <2>2. broken' \in 0 .. kills /\ tries' \in 0 .. 2
    BY DEF Reconcile, Aborts, IInv, TypeOK
  <2> QED
    BY <1>2, <2>1, <2>2 DEF IInv, TypeOK
<1> QED
  BY <1>1, <1>2, <1>3, VisitKeeps

(* The steps between the phases change no key.                             *)
LEMMA PhaseStep ==
  ASSUME IInv, ReaderFails \/ StormEnds \/ RetriesEnd \/ RepairLedger \/ Check
  PROVE  IInv'
<1> USE DEF KeyInv, OneOrder, SuspenseIsFrozen, WhereItIs, ClaimedOnce, OverWhenReconciled,
            VisitedAddsUp, AddsUp, LeftOnlyByLoss, At, keyVars
<1>1. TypeOK'
  BY DEF IInv, TypeOK, ReaderFails, StormEnds, RetriesEnd, RepairLedger, Check, Aborts
<1>2. ASSUME NEW k \in Keys PROVE KeyInv(k)'
  <2>0. TypeOK /\ KeyInv(k) /\ UNCHANGED <<step, keyVars, kills>>
    BY DEF IInv, ReaderFails, StormEnds, RetriesEnd, RepairLedger, Check, Aborts
  <2>1. CASE ReaderFails
    BY <2>0, <2>1 DEF ReaderFails
  <2>2. CASE StormEnds
    BY <2>0, <2>2 DEF StormEnds, Aborts, AllOver, TypeOK, PROCESSING
  <2>3. CASE RetriesEnd
    BY <2>0, <2>3 DEF RetriesEnd, AllOver
  <2>4. CASE RepairLedger
    BY <2>0, <2>4 DEF RepairLedger, Aborts
  <2>5. CASE Check
    BY <2>0, <2>5 DEF Check, Aborts
  <2> QED
    BY <2>1, <2>2, <2>3, <2>4, <2>5
<1> QED
  BY <1>1, <1>2 DEF IInv

LEMMA RetryStep ==
  ASSUME IInv, NEW k \in Keys, Retry(k)
  PROVE  IInv'
<1> USE DEF KeyInv, OneOrder, SuspenseIsFrozen, WhereItIs, ClaimedOnce, OverWhenReconciled,
            VisitedAddsUp, AddsUp, LeftOnlyByLoss, At, keyVars
<1>1. TypeOK'
  BY DEF IInv, TypeOK, Retry, Goes
<1>2. ASSUME NEW d \in Keys PROVE KeyInv(d)'
  BY DEF IInv, TypeOK, Retry, Goes
<1> QED
  BY <1>1, <1>2 DEF IInv

(* A new schema, at the start and for the next round.                      *)
LEMMA FreshKeeps ==
  Init => IInv
BY EmptyIsPosition, RoundsAssumption
   DEF Init, Fresh, IInv, TypeOK, KeyInv, OneOrder, SuspenseIsFrozen, WhereItIs, ClaimedOnce,
       OverWhenReconciled, VisitedAddsUp, AddsUp, LeftOnlyByLoss, At, PROCESSING, COMPLETED,
       FAILED, PENDING

LEMMA NextRoundStep ==
  ASSUME IInv, NextRound
  PROVE  IInv'
BY EmptyIsPosition, RoundsAssumption
   DEF NextRound, Fresh, IInv, TypeOK, KeyInv, OneOrder, SuspenseIsFrozen, WhereItIs, ClaimedOnce,
       OverWhenReconciled, VisitedAddsUp, AddsUp, LeftOnlyByLoss, At, PROCESSING, COMPLETED,
       FAILED, PENDING

-----------------------------------------------------------------------------

(* The invariant of a round, for any number of purchases, connections      *)
(* terminated at any statement and processes killed at any step.           *)
THEOREM RoundInvariant == Spec => []IInv
<1>1. IInv /\ [Next]_vars => IInv'
  <2> SUFFICES ASSUME IInv, [Next]_vars PROVE IInv'
    OBVIOUS
  <2>1. CASE Next
    BY <2>1, PurchaseStep, RetryStep, ReconcileStep, PhaseStep, NextRoundStep DEF Next
  <2>2. CASE UNCHANGED vars
    BY <2>2 DEF vars, keyVars, IInv, TypeOK, KeyInv, OneOrder, SuspenseIsFrozen, WhereItIs,
       ClaimedOnce, OverWhenReconciled, VisitedAddsUp, AddsUp, LeftOnlyByLoss, At
  <2> QED
    BY <2>1, <2>2
<1> QED
  BY <1>1, FreshKeeps, PTL DEF Spec

(* Type correctness of a round.                                            *)
THEOREM TypeCorrect == Spec => []TypeOK
<1>1. IInv => TypeOK
  BY DEF IInv
<1> QED
  BY <1>1, RoundInvariant, PTL

(* A round that reaches its check charged no receipt twice, booked what    *)
(* was charged and nothing else, and left nothing in suspense (chaos.py,   *)
(* _check, items 1 to 4 and 7).                                            *)
THEOREM TheMoneyAddsUp == Spec => []MoneyAddsUp
<1>1. IInv => MoneyAddsUp
  BY DEF IInv, KeyInv, VisitedAddsUp, AddsUp, MoneyAddsUp, Checked
<1> QED
  BY <1>1, RoundInvariant, PTL

(* A key is in flight at the check only when a connection was terminated   *)
(* in the round, and then it was not charged.                              *)
THEOREM InFlightOnlyByLoss == Spec => []LeftInFlightByItsRetry
<1>1. IInv => LeftInFlightByItsRetry
  BY DEF IInv, TypeOK, KeyInv, VisitedAddsUp, AddsUp, LeftOnlyByLoss, LeftInFlightByItsRetry,
         Checked, PROCESSING, COMPLETED
<1> QED
  BY <1>1, RoundInvariant, PTL
===============================================================================
