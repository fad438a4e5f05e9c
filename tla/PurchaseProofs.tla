--------------------------- MODULE PurchaseProofs ---------------------------
(***************************************************************************)
(* Proofs about Purchase for any callers, prices and windows.  What the    *)
(* store and the books promise whatever goes wrong rests on the record     *)
(* keeping its first payload and on the two writes of _finish and          *)
(* resolve_verified being one transaction.  That a key charges once, and   *)
(* the refinement of ExactlyOnce, rest on more: Mild and Benign say on     *)
(* what.                                                                   *)
(***************************************************************************)
EXTENDS Purchase, FiniteSetTheorems, TLAPS

Book == [sold : Prices \cup {0}, open : SUBSET Nat, settled : SUBSET Nat]

(* The ledger's operators stay within its states and never unbook a sale.  *)
LEMMA SaleBooks ==
  ASSUME NEW p \in Book, NEW amount \in Prices
  PROVE  /\ Ledger!AfterSale(p, amount) \in Book
         /\ Ledger!AfterSale(p, amount).sold = IF p.sold # 0 THEN p.sold ELSE amount
         /\ p.sold # 0 => Ledger!AfterSale(p, amount).open = p.open
         /\ p.sold = 0 => Ledger!AfterSale(p, amount).open = {}
BY DEF Book, Ledger!AfterSale, Ledger!Sold

LEMMA UnverifiedBooks ==
  ASSUME NEW p \in Book, NEW a \in Nat
  PROVE  /\ Ledger!AfterUnverified(p, a) \in Book
         /\ Ledger!AfterUnverified(p, a).sold = p.sold
         /\ p.sold # 0 => Ledger!AfterUnverified(p, a).open = p.open
BY DEF Book, Ledger!AfterUnverified, Ledger!Sold

LEMMA NotExecutedBooks ==
  ASSUME NEW p \in Book, NEW a \in Nat
  PROVE  /\ Ledger!AfterNotExecuted(p, a) \in Book
         /\ Ledger!AfterNotExecuted(p, a).sold = p.sold
         /\ Ledger!AfterNotExecuted(p, a).open \subseteq p.open
BY DEF Book, Ledger!AfterNotExecuted

LEMMA PricesPositive == Prices \subseteq Nat \ {0}
BY PurchaseAssumption DEF Prices

(* A listing names orders of the provider.                                 *)
LEMMA ListingsAreOrders ==
  ASSUME NEW asked, NEW S \in Listings(asked)
  PROVE  S \subseteq DOMAIN orders
BY DEF Listings

-----------------------------------------------------------------------------
(* Type correctness.                                                       *)

(* A sweep acts on orders the provider has.                                *)
SeenExist == \A r \in Reconcilers : recon[r].seen \subseteq DOMAIN orders

LEMMA OneOrderSeen ==
  ASSUME NEW S, S \subseteq DOMAIN orders, Cardinality(S) = 1
  PROVE  \E i \in DOMAIN orders : OnlyOrder(S) = orders[i]
<1>1. S # {}
  BY FS_EmptySet
<1> QED
  BY <1>1 DEF OnlyOrder

Status == {"none", PROCESSING, COMPLETED, FAILED, PENDING}

LEMMA StampedTypes ==
  ASSUME rec \in Record, NEW s \in Status
  PROVE  Stamped(s) \in Record /\ Stamped(s).fingerprint = rec.fingerprint
         /\ Stamped(s).status = s /\ Stamped(s).attempts = rec.attempts
BY DEF Record, Status, Stamped

LEMMA ClaimedTypes ==
  ASSUME rec \in Record, NEW t \in Nat
  PROVE  Claimed(t) \in Record /\ Claimed(t).fingerprint = rec.fingerprint
         /\ Claimed(t).status = PROCESSING
<1>1. rec.attempts + 1 \in Nat /\ PROCESSING \in {"none", PROCESSING, COMPLETED, FAILED, PENDING}
  BY DEF Record
<1> QED
  BY <1>1 DEF Record, Claimed

LEMMA CallerMoves ==
  ASSUME caller \in [Callers -> CallerState], NEW c \in Callers,
         NEW p \in CallerPC, CallerGoes(c, p)
  PROVE  caller' \in [Callers -> CallerState]
<1>1. [caller[c] EXCEPT !.pc = p] \in CallerState
  BY DEF CallerState
<1> QED
  BY <1>1 DEF CallerGoes

LEMMA CallerStops ==
  ASSUME caller \in [Callers -> CallerState], NEW c \in Callers, CallerEnds(c)
  PROVE  caller' \in [Callers -> CallerState]
<1>1. IdleCaller \in CallerState
  BY DEF CallerState, CallerPC, IdleCaller
<1> QED
  BY <1>1 DEF CallerEnds

LEMMA ReconIdles ==
  IdleRecon \in ReconState /\ \A p \in ReconPC : [IdleRecon EXCEPT !.pc = p] \in ReconState
<1>1. NoRecord \in Record
  BY DEF NoRecord, Record
<1> QED
  BY <1>1 DEF ReconState, ReconPC, IdleRecon

LEMMA ReconStops ==
  ASSUME recon \in [Reconcilers -> ReconState], NEW r \in Reconcilers, ReconEnds(r)
  PROVE  recon' \in [Reconcilers -> ReconState]
BY ReconIdles DEF ReconEnds

LEMMA PlacedTypes ==
  ASSUME orders \in Seq(Order), now \in Nat, NEW c \in Callers, PlaceOrder(c)
  PROVE  orders' \in Seq(Order)
<1>1. [amount |-> PriceOf[c], at |-> now] \in Order
  BY PurchaseAssumption DEF Order, Prices
<1> QED
  BY <1>1 DEF PlaceOrder

LEMMA TypeInit == Init => TypeOK
<1> SUFFICES ASSUME Init PROVE TypeOK
  OBVIOUS
<1> USE DEF Init
<1>1. rec \in Record
  BY DEF NoRecord, Record
<1>2. books \in Book
  BY DEF Book, Ledger!EmptyPosition
<1>3. caller \in [Callers -> CallerState]
  BY DEF CallerState, CallerPC, IdleCaller
<1>4. recon \in [Reconcilers -> ReconState]
  BY ReconIdles
<1>5. now \in Nat /\ submits \in Nat /\ flagged \in BOOLEAN
      /\ slot \in {"none", "HELD", "CONFIRMED", "RELEASED"}
  OBVIOUS
<1>6. orders \in Seq(Order)
  OBVIOUS
<1> QED
  BY <1>1, <1>2, <1>3, <1>4, <1>5, <1>6 DEF TypeOK, Book

LEMMA TypeStep == TypeOK /\ SeenExist /\ [Next]_vars => TypeOK'
<1> SUFFICES ASSUME TypeOK, SeenExist, [Next]_vars PROVE TypeOK'
  OBVIOUS
<1> DEFINE TypeRest == /\ now \in Nat /\ submits \in Nat
                       /\ slot \in {"none", "HELD", "CONFIRMED", "RELEASED"}
                       /\ orders \in Seq(Order) /\ flagged \in BOOLEAN
           CallerOK == caller \in [Callers -> CallerState]
           ReconOK == recon \in [Reconcilers -> ReconState]
           Typed == TypeRest' /\ CallerOK' /\ ReconOK' /\ rec' \in Record /\ books' \in Book
<1>a. TypeRest /\ CallerOK /\ ReconOK /\ rec \in Record /\ books \in Book
  BY DEF TypeOK, Book
<1>b. SUFFICES Typed
  BY DEF TypeOK, Book, Record, ReconState, Order, CallerState, Prices
<1>c. {PROCESSING, COMPLETED, FAILED, PENDING} \subseteq Status
  BY DEF Status
<1>d. CallerPC = {"idle", "claim", "verify", "recover", "freeze_held", "renew",
             "charge", "complete", "freeze_charged", "suspend",
             "abandon_timeout", "abandon_failure", "freeze_timeout",
             "freeze_again", "confirm", "release"}
  BY DEF CallerPC
<1>1. ASSUME NEW c \in Callers, Submit(c) PROVE Typed
  <2>1. [pc |-> "claim", claim |-> now, extra |-> 0] \in CallerState
    BY <1>a DEF CallerState, CallerPC
  <2> QED
    BY <1>a, <1>1, <2>1 DEF Submit
<1>2. ASSUME NEW c \in Callers, Claim(c) PROVE Typed
  <2>1. caller[c] \in CallerState /\ caller[c].claim \in Nat /\ PriceOf[c] \in Prices
        /\ rec.claimedAt \in Nat
    BY <1>a, PurchaseAssumption DEF Prices, CallerState, Record
  <2>2. [status |-> PROCESSING, fingerprint |-> PriceOf[c],
                   claimedAt |-> caller[c].claim, attempts |-> 1] \in Record
    BY <2>1 DEF Record
  <2>3. [caller EXCEPT ![c].pc = "verify", ![c].extra = rec.claimedAt]
           \in [Callers -> CallerState]
    <3>1. [caller[c] EXCEPT !.pc = "verify", !.extra = rec.claimedAt] \in CallerState
      BY <2>1 DEF CallerState, CallerPC
    <3> QED
      BY <1>a, <3>1
  <2>4. rec' \in Record
    BY <1>a, <1>2, <2>1, <2>2, ClaimedTypes DEF Claim
  <2>5. CallerOK'
    BY <1>a, <1>d, <1>2, <2>3, CallerMoves, CallerStops DEF Claim, AnswerLost
  <2> QED
    BY <1>a, <1>2, <2>4, <2>5 DEF Claim
<1>3. ASSUME NEW c \in Callers, VerifyStale(c) PROVE Typed
  BY <1>a, <1>c, <1>d, <1>3, CallerMoves DEF VerifyStale
<1>4. ASSUME NEW c \in Callers, VerifyUnanswered(c) PROVE Typed
  BY <1>a, <1>c, <1>d, <1>4, CallerMoves DEF VerifyUnanswered
<1>5. ASSUME NEW c \in Callers, FreezeHeldClaim(c) PROVE Typed
  <2>1. rec.attempts \in Nat
    BY <1>a DEF Record
  <2> QED
    BY <1>a, <1>c, <1>d, <1>5, <2>1, CallerMoves, CallerStops, StampedTypes,
       UnverifiedBooks DEF FreezeHeldClaim, AnswerLost
<1>6. ASSUME NEW c \in Callers, RenewClaim(c) PROVE Typed
  <2>1. [pc |-> "charge", claim |-> now, extra |-> 0] \in CallerState
    BY <1>a DEF CallerState, CallerPC
  <2>2. [rec EXCEPT !.claimedAt = now] \in Record
    BY <1>a DEF Record
  <2> QED
    BY <1>a, <1>d, <1>6, <2>1, <2>2, CallerMoves, CallerStops DEF RenewClaim, AnswerLost
<1>7. ASSUME NEW c \in Callers, ChargeAnswered(c) PROVE Typed
  BY <1>a, <1>c, <1>d, <1>7, CallerMoves, PlacedTypes DEF ChargeAnswered
<1>8. ASSUME NEW c \in Callers, ChargeRefused(c) PROVE Typed
  BY <1>a, <1>c, <1>d, <1>8, CallerMoves DEF ChargeRefused
<1>9. ASSUME NEW c \in Callers, ChargeTimesOut(c) PROVE Typed
  BY <1>a, <1>c, <1>d, <1>9, CallerMoves, PlacedTypes DEF ChargeTimesOut
<1>10. ASSUME NEW c \in Callers, ChargeGarbled(c) PROVE Typed
  BY <1>a, <1>c, <1>d, <1>10, CallerMoves, PlacedTypes DEF ChargeGarbled
<1>11. ASSUME NEW c \in Callers, Complete(c) PROVE Typed
  <2>1. PriceOf[c] \in Prices
    BY DEF Prices
  <2> QED
    BY <1>a, <1>c, <1>d, <1>11, <2>1, CallerMoves, StampedTypes, SaleBooks
       DEF Complete, CompleteWithSale, AnswerLost
<1>12. ASSUME NEW c \in Callers, FreezeCharged(c) PROVE Typed
  <2>1. [caller EXCEPT ![c].pc = "suspend", ![c].extra = rec.attempts]
           \in [Callers -> CallerState]
    <3>1. [caller[c] EXCEPT !.pc = "suspend", !.extra = rec.attempts] \in CallerState
      BY <1>a DEF CallerState, CallerPC, Record
    <3> QED
      BY <1>a, <3>1
  <2> QED
    BY <1>a, <1>c, <1>12, <2>1, CallerStops, StampedTypes DEF FreezeCharged
<1>13. ASSUME NEW c \in Callers, SuspendAlone(c) PROVE Typed
  <2>1. caller[c].extra \in Nat
    BY <1>a DEF CallerState
  <2> QED
    BY <1>a, <1>13, <2>1, CallerStops, UnverifiedBooks DEF SuspendAlone
<1>14. ASSUME NEW c \in Callers, Abandon(c) PROVE Typed
  BY <1>a, <1>c, <1>d, <1>14, CallerMoves, StampedTypes DEF Abandon, AnswerLost
<1>15. ASSUME NEW c \in Callers, FreezeTimeout(c) PROVE Typed
  <2>1. rec.attempts \in Nat
    BY <1>a DEF Record
  <2> QED
    BY <1>a, <1>c, <1>d, <1>15, <2>1, CallerMoves, CallerStops, StampedTypes,
       UnverifiedBooks DEF FreezeTimeout, AnswerLost
<1>16. ASSUME NEW c \in Callers, ConfirmSlot(c) PROVE Typed
  BY <1>a, <1>c, <1>d, <1>16, CallerStops DEF ConfirmSlot
<1>17. ASSUME NEW c \in Callers, ReleaseSlot(c) PROVE Typed
  BY <1>a, <1>c, <1>d, <1>17, CallerStops DEF ReleaseSlot
<1>18. ASSUME NEW c \in Callers, AuditFails(c) PROVE Typed
  BY <1>a, <1>c, <1>d, <1>18, CallerMoves, CallerStops DEF AuditFails
<1>19. ASSUME NEW c \in Callers, StoreFails(c) PROVE Typed
  BY <1>a, <1>c, <1>d, <1>19, CallerMoves, CallerStops DEF StoreFails
<1>20. ASSUME NEW c \in Callers, CallerCrashes(c) PROVE Typed
  BY <1>a, <1>c, <1>d, <1>20, CallerStops DEF CallerCrashes
<1>21. ASSUME NEW r \in Reconcilers, Pick(r) PROVE Typed
  <2>1. /\ [recon[r] EXCEPT !.pc = "get"] \in ReconState
        /\ [recon[r] EXCEPT !.pc = "get", !.repairing = TRUE] \in ReconState
    BY <1>a DEF ReconState, ReconPC
  <2> QED
    BY <1>a, <1>21, <2>1 DEF Pick
<1>22. ASSUME NEW r \in Reconcilers, ReadRecord(r) PROVE Typed
  <2>1. [recon[r] EXCEPT !.pc = "ask", !.row = rec] \in ReconState
    BY <1>a DEF ReconState, ReconPC
  <2> QED
    BY <1>a, <1>22, <2>1 DEF ReadRecord
<1>23. ASSUME NEW r \in Reconcilers, AskProvider(r) PROVE Typed
  <2>1. PICK S \in Listings({now}) :
          recon' = [recon EXCEPT ![r].pc = "act", ![r].seen = S]
    BY <1>23 DEF AskProvider
  <2>2. S \subseteq Nat
    BY <1>a, ListingsAreOrders
  <2>3. [recon[r] EXCEPT !.pc = "act", !.seen = S] \in ReconState
    BY <1>a, <2>2 DEF ReconState, ReconPC
  <2> QED
    BY <1>a, <1>23, <2>1, <2>3 DEF AskProvider
<1>24. ASSUME NEW r \in Reconcilers, ProviderMute(r) PROVE Typed
  BY <1>a, <1>c, <1>d, <1>24, ReconStops DEF ProviderMute
<1>25. ASSUME NEW r \in Reconcilers, LeaveToHuman(r) PROVE Typed
  BY <1>a, <1>c, <1>d, <1>25, ReconStops DEF LeaveToHuman
<1>26. ASSUME NEW r \in Reconcilers, StillUnknown(r) PROVE Typed
  BY <1>a, <1>c, <1>d, <1>26, ReconStops DEF StillUnknown
<1>27. ASSUME NEW r \in Reconcilers, ConfirmNotExecuted(r) PROVE Typed
  <2>1. recon[r].row.attempts \in Nat
    BY <1>a DEF ReconState, Record
  <2>2. [IdleRecon EXCEPT !.pc = "release"] \in ReconState
    BY ReconIdles DEF ReconPC
  <2>3. rec' \in Record /\ books' \in Book
    BY <1>a, <1>c, <1>27, <2>1, StampedTypes, NotExecutedBooks DEF ConfirmNotExecuted
  <2>4. ReconOK'
    BY <1>a, <1>27, <2>2, ReconStops DEF ConfirmNotExecuted
  <2> QED
    BY <1>a, <1>27, <2>3, <2>4 DEF ConfirmNotExecuted
<1>28. ASSUME NEW r \in Reconcilers, RepairFromOrder(r)
       PROVE Typed
  <2>1. OnlyOrder(recon[r].seen).amount \in Prices
    <3>1. PICK i \in DOMAIN orders : OnlyOrder(recon[r].seen) = orders[i]
      BY <1>28, OneOrderSeen DEF RepairFromOrder, SeenExist
    <3>2. orders[i] \in Order
      BY <1>a, <3>1
    <3> QED
      BY <3>1, <3>2 DEF Order
  <2>2. [IdleRecon EXCEPT !.pc = "confirm"] \in ReconState
    BY ReconIdles DEF ReconPC
  <2>3. rec' \in Record /\ books' \in Book
    BY <1>a, <1>c, <1>28, <2>1, StampedTypes, SaleBooks DEF RepairFromOrder
  <2>4. ReconOK'
    BY <1>a, <1>28, <2>2, ReconStops DEF RepairFromOrder
  <2> QED
    BY <1>a, <1>28, <2>3, <2>4 DEF RepairFromOrder
<1>29. ASSUME NEW r \in Reconcilers, SettleSlot(r) PROVE Typed
  BY <1>a, <1>c, <1>d, <1>29, ReconStops DEF SettleSlot
<1>30. ASSUME NEW r \in Reconcilers, SweepFails(r) PROVE Typed
  BY <1>a, <1>c, <1>d, <1>30, ReconStops DEF SweepFails
<1>31. ASSUME NEW r \in Reconcilers, SweepCrashes(r) PROVE Typed
  BY <1>a, <1>c, <1>d, <1>31, ReconStops DEF SweepCrashes
<1>32. CASE Tick
  BY <1>a, <1>32 DEF Tick
<1>33. CASE UNCHANGED vars
  BY <1>a, <1>33 DEF vars
<1>34. ASSUME NEW c \in Callers, FreezeAgain(c) PROVE Typed
  BY <1>a, <1>c, <1>34, CallerStops, StampedTypes DEF FreezeAgain
<1> QED
  BY <1>1, <1>2, <1>3, <1>4, <1>5, <1>6, <1>7, <1>8, <1>9, <1>10, <1>11, <1>12, <1>13,
     <1>14, <1>15, <1>16, <1>17, <1>18, <1>19, <1>20, <1>21, <1>22, <1>23, <1>24,
     <1>25, <1>26, <1>27, <1>28, <1>29, <1>30, <1>31, <1>32, <1>33, <1>34
     DEF Next, CallerStep, CallerFault, ReconStep, ReconFault

-----------------------------------------------------------------------------
(* What holds whatever goes wrong.                                         *)

LEMMA GoesTo ==
  ASSUME caller \in [Callers -> CallerState], NEW c \in Callers, NEW p, CallerGoes(c, p)
  PROVE  /\ caller'[c].pc = p
         /\ \A d \in Callers : d # c => caller'[d].pc = caller[d].pc
BY DEF CallerGoes, CallerState

LEMMA EndsIdle ==
  ASSUME caller \in [Callers -> CallerState], NEW c \in Callers, CallerEnds(c)
  PROVE  /\ caller'[c].pc = "idle"
         /\ \A d \in Callers : d # c => caller'[d].pc = caller[d].pc
BY DEF CallerEnds, CallerState, IdleCaller

LEMMA SweepEnds ==
  ASSUME recon \in [Reconcilers -> ReconState], SeenExist,
         NEW r \in Reconcilers, ReconEnds(r)
  PROVE  \A q \in Reconcilers : recon'[q].seen \subseteq DOMAIN orders
BY DEF ReconEnds, SeenExist, IdleRecon

(* Past the claim, a thread works on a record that carries its payload.    *)
Working == CallerPC \ {"idle", "claim", "confirm", "release"}

WorksOnItsPayload ==
  \A c \in Callers : caller[c].pc \in Working => rec.fingerprint = PriceOf[c]

(* A thread completes only what it charged or found charged.               *)
CompletesACharge ==
  \A c \in Callers : caller[c].pc \in {"complete", "recover"} =>
    \E i \in DOMAIN orders : orders[i].amount = PriceOf[c]

(* A row that is not there carries no payload.                             *)
NoRowNoPayload == rec.status = "none" => rec.fingerprint = 0

IInv ==
  /\ TypeOK /\ SeenExist
  /\ NoRowNoPayload /\ WorksOnItsPayload /\ CompletesACharge
  /\ CompletedHasSale /\ SaleIsBacked /\ NoSuspenseOnceSold
  /\ OnlyTheFirstPayload

(* What is kept by a step that leaves the record, the books and the        *)
(* orders alone and moves no thread into work it has not begun.            *)
LEMMA QuietStep ==
  ASSUME IInv, TypeOK', UNCHANGED <<rec, books, orders>>,
         \A r \in Reconcilers : recon'[r].seen \subseteq DOMAIN orders,
         \A c \in Callers : \/ caller'[c].pc = caller[c].pc
                            \/ caller'[c].pc \notin Working
                            \/ /\ caller[c].pc \in Working
                               /\ caller'[c].pc \notin {"complete", "recover"}
  PROVE  IInv'
<1> USE DEF IInv
<1>1. SeenExist' /\ NoRowNoPayload' /\ CompletedHasSale' /\ NoSuspenseOnceSold'
  BY DEF SeenExist, NoRowNoPayload, CompletedHasSale, NoSuspenseOnceSold, Ledger!Sold
<1>2. SaleIsBacked' /\ OnlyTheFirstPayload'
  BY DEF SaleIsBacked, OnlyTheFirstPayload, Ledger!Sold
<1>3. WorksOnItsPayload'
  BY DEF WorksOnItsPayload
<1>4. CompletesACharge'
  BY DEF CompletesACharge, Working, CallerPC
<1> QED
  BY <1>1, <1>2, <1>3, <1>4

(* A step of the record or the books that keeps the payload, completes the *)
(* record only over a sale, and books a sale only for an order there is.   *)
LEMMA StoreStep ==
  ASSUME IInv, TypeOK', UNCHANGED orders,
         \A r \in Reconcilers : recon'[r].seen \subseteq DOMAIN orders,
         \A c \in Callers : \/ caller'[c].pc = caller[c].pc
                            \/ caller'[c].pc \notin Working
                            \/ /\ caller[c].pc \in Working
                               /\ caller'[c].pc \notin {"complete", "recover"},
         rec' = rec \/ (rec'.fingerprint = rec.fingerprint /\ rec'.status # "none"),
         rec'.status = COMPLETED => rec.status = COMPLETED \/ books'.sold # 0,
         \/ books'.sold = books.sold /\ (books.sold # 0 => books'.open \subseteq books.open)
         \/ /\ books.sold = 0 /\ books'.open = {}
            /\ \E i \in DOMAIN orders : orders[i].amount = books'.sold
  PROVE  IInv'
<1> USE DEF IInv
<1>1. SeenExist' /\ NoRowNoPayload'
  BY DEF SeenExist, NoRowNoPayload
<1>2. CompletedHasSale' /\ NoSuspenseOnceSold'
  BY DEF CompletedHasSale, NoSuspenseOnceSold, Ledger!Sold
<1>3. SaleIsBacked' /\ OnlyTheFirstPayload'
  BY DEF SaleIsBacked, OnlyTheFirstPayload, Ledger!Sold
<1>4. WorksOnItsPayload'
  BY DEF WorksOnItsPayload
<1>5. CompletesACharge'
  BY DEF CompletesACharge, Working, CallerPC
<1> QED
  BY <1>1, <1>2, <1>3, <1>4, <1>5

(* A charge of the payload the record carries.                             *)
LEMMA ChargeStep ==
  ASSUME IInv, TypeOK', UNCHANGED <<rec, books, recon>>,
         NEW c \in Callers, At(c, "charge"), PlaceOrder(c),
         NEW p \in Working, CallerGoes(c, p)
  PROVE  IInv'
<1> USE DEF IInv
<1>1. /\ orders \in Seq(Order) /\ caller \in [Callers -> CallerState]
      /\ recon \in [Reconcilers -> ReconState]
  BY DEF TypeOK
<1>2. PICK o : o.amount = PriceOf[c] /\ o \in Order /\ orders' = Append(orders, o)
  BY PurchaseAssumption DEF PlaceOrder, TypeOK, Order, Prices
<1>3. /\ DOMAIN orders \subseteq DOMAIN orders'
      /\ \A i \in DOMAIN orders : orders'[i] = orders[i]
      /\ \E i \in DOMAIN orders' : orders'[i] = o
      /\ \A i \in DOMAIN orders' : i \in DOMAIN orders \/ orders'[i] = o
  BY <1>1, <1>2
<1>4. rec.fingerprint = PriceOf[c]
  BY DEF WorksOnItsPayload, At, Working, CallerPC
<1>5. SeenExist' /\ NoRowNoPayload' /\ CompletedHasSale' /\ NoSuspenseOnceSold'
  BY <1>3 DEF SeenExist, NoRowNoPayload, CompletedHasSale, NoSuspenseOnceSold, Ledger!Sold
<1>6. SaleIsBacked' /\ OnlyTheFirstPayload'
  BY <1>2, <1>3, <1>4 DEF SaleIsBacked, OnlyTheFirstPayload, Ledger!Sold
<1>7. \A d \in Callers : d # c => caller'[d].pc = caller[d].pc
  BY <1>1, GoesTo
<1>8. WorksOnItsPayload'
  BY <1>4, <1>7 DEF WorksOnItsPayload
<1>9. CompletesACharge'
  BY <1>2, <1>3, <1>7 DEF CompletesACharge
<1> QED
  BY <1>5, <1>6, <1>8, <1>9

LEMMA IInvInit == Init => IInv
<1> SUFFICES ASSUME Init PROVE IInv
  OBVIOUS
<1>1. TypeOK
  BY TypeInit
<1>2. SeenExist
  BY DEF Init, SeenExist, IdleRecon
<1>3. WorksOnItsPayload /\ CompletesACharge
  BY DEF Init, WorksOnItsPayload, CompletesACharge, IdleCaller, Working
<1>4. rec.status # COMPLETED /\ rec.fingerprint = 0 /\ books.sold = 0 /\ orders = <<>>
  BY DEF Init, NoRecord, COMPLETED, Ledger!EmptyPosition
<1> QED
  BY <1>1, <1>2, <1>3, <1>4
     DEF IInv, NoRowNoPayload, CompletedHasSale, SaleIsBacked, NoSuspenseOnceSold,
         OnlyTheFirstPayload, Ledger!Sold

LEMMA IInvStep == IInv /\ [Next]_vars => IInv'
<1> SUFFICES ASSUME IInv, [Next]_vars PROVE IInv'
  OBVIOUS
<1>a. /\ caller \in [Callers -> CallerState] /\ recon \in [Reconcilers -> ReconState]
      /\ rec \in Record /\ books \in Book /\ orders \in Seq(Order) /\ now \in Nat
      /\ SeenExist
  BY DEF IInv, TypeOK, Book
<1>b. TypeOK'
  BY TypeStep DEF IInv
<1>c. ASSUME UNCHANGED recon, DOMAIN orders \subseteq DOMAIN orders'
      PROVE  SeenExist' /\ \A r \in Reconcilers : recon'[r].seen \subseteq DOMAIN orders
  BY <1>a, <1>c DEF SeenExist
<1>d. Working = {"verify", "recover", "freeze_held", "renew", "charge", "complete",
                 "freeze_charged", "suspend", "abandon_timeout", "abandon_failure",
                 "freeze_timeout", "freeze_again"}
  BY DEF Working, CallerPC
<1>1. ASSUME NEW c \in Callers, Submit(c) PROVE IInv'
  <2>1. /\ caller'[c].pc \in {"claim", "idle"}
        /\ \A d \in Callers : d # c => caller'[d] = caller[d]
    BY <1>a, <1>1 DEF Submit, At
  <2> QED
    BY <1>b, <1>c, <1>d, <1>1, <2>1, QuietStep DEF Submit
<1>2. ASSUME NEW c \in Callers, ChargeRefused(c) PROVE IInv'
  BY <1>a, <1>b, <1>c, <1>d, <1>2, QuietStep, GoesTo, EndsIdle DEF ChargeRefused, At
<1>3. ASSUME NEW c \in Callers, AuditFails(c) PROVE IInv'
  BY <1>a, <1>b, <1>c, <1>d, <1>3, QuietStep, GoesTo, EndsIdle DEF AuditFails, At
<1>4. ASSUME NEW c \in Callers, StoreFails(c) PROVE IInv'
  BY <1>a, <1>b, <1>c, <1>d, <1>4, QuietStep, GoesTo, EndsIdle DEF StoreFails, At
<1>5. ASSUME NEW c \in Callers, VerifyUnanswered(c) PROVE IInv'
  BY <1>a, <1>b, <1>c, <1>d, <1>5, QuietStep, GoesTo DEF VerifyUnanswered, At
<1>6. ASSUME NEW c \in Callers, ConfirmSlot(c) PROVE IInv'
  BY <1>a, <1>b, <1>c, <1>d, <1>6, QuietStep, EndsIdle DEF ConfirmSlot
<1>7. ASSUME NEW c \in Callers, ReleaseSlot(c) PROVE IInv'
  BY <1>a, <1>b, <1>c, <1>d, <1>7, QuietStep, EndsIdle DEF ReleaseSlot
<1>8. ASSUME NEW c \in Callers, CallerCrashes(c) PROVE IInv'
  BY <1>a, <1>b, <1>c, <1>d, <1>8, QuietStep, EndsIdle DEF CallerCrashes
<1>9. ASSUME NEW r \in Reconcilers, ProviderMute(r) PROVE IInv'
  BY <1>a, <1>b, <1>9, QuietStep, SweepEnds DEF ProviderMute
<1>10. ASSUME NEW r \in Reconcilers, LeaveToHuman(r) PROVE IInv'
  BY <1>a, <1>b, <1>10, QuietStep, SweepEnds DEF LeaveToHuman
<1>11. ASSUME NEW r \in Reconcilers, StillUnknown(r) PROVE IInv'
  BY <1>a, <1>b, <1>11, QuietStep, SweepEnds DEF StillUnknown
<1>12. ASSUME NEW r \in Reconcilers, SettleSlot(r) PROVE IInv'
  BY <1>a, <1>b, <1>12, QuietStep, SweepEnds DEF SettleSlot
<1>13. ASSUME NEW r \in Reconcilers, SweepFails(r) PROVE IInv'
  BY <1>a, <1>b, <1>13, QuietStep, SweepEnds DEF SweepFails
<1>14. ASSUME NEW r \in Reconcilers, SweepCrashes(r) PROVE IInv'
  BY <1>a, <1>b, <1>14, QuietStep, SweepEnds DEF SweepCrashes
<1>15. ASSUME NEW r \in Reconcilers, Pick(r) \/ ReadRecord(r) PROVE IInv'
  <2>1. \A q \in Reconcilers : recon'[q].seen = recon[q].seen
    BY <1>a, <1>15 DEF Pick, ReadRecord, ReconState
  <2> QED
    BY <1>a, <1>b, <1>15, <2>1, QuietStep DEF Pick, ReadRecord, SeenExist
<1>16. ASSUME NEW r \in Reconcilers, AskProvider(r) PROVE IInv'
  <2>1. PICK S \in Listings({now}) :
          recon' = [recon EXCEPT ![r].pc = "act", ![r].seen = S]
    BY <1>16 DEF AskProvider
  <2>2. S \subseteq DOMAIN orders
    BY ListingsAreOrders
  <2>3. /\ recon'[r].seen = S
        /\ \A q \in Reconcilers : q # r => recon'[q] = recon[q]
    BY <1>a, <2>1 DEF ReconState
  <2> QED
    BY <1>a, <1>b, <1>16, <2>2, <2>3, QuietStep DEF AskProvider, SeenExist
<1>17. CASE Tick
  BY <1>a, <1>b, <1>17, QuietStep DEF Tick, SeenExist
<1>18. CASE UNCHANGED vars
  BY <1>a, <1>b, <1>18, QuietStep DEF vars, SeenExist
<1>19. ASSUME NEW c \in Callers, Claim(c) PROVE IInv'
  <2>1. \/ /\ rec.status = "none"
           /\ rec' = [status |-> PROCESSING, fingerprint |-> PriceOf[c],
                      claimedAt |-> caller[c].claim, attempts |-> 1]
           /\ CallerGoes(c, "charge") \/ CallerGoes(c, "release")
        \/ /\ rec.status # "none" /\ rec.fingerprint = PriceOf[c]
           /\ rec' = Claimed(caller[c].claim)
           /\ \/ CallerGoes(c, "charge") \/ CallerGoes(c, "release")
              \/ caller' = [caller EXCEPT ![c].pc = "verify", ![c].extra = rec.claimedAt]
        \/ CallerEnds(c) /\ UNCHANGED rec
    BY <1>19 DEF Claim, AnswerLost, Fits, Retryable, FAILED, PROCESSING
  <2>2. UNCHANGED <<books, orders, recon>> /\ caller[c].claim \in Nat
    BY <1>a, <1>19 DEF Claim, CallerState
  <2>3. CASE rec.status = "none" /\ (CallerGoes(c, "charge") \/ CallerGoes(c, "release"))
             /\ rec'.fingerprint = PriceOf[c] /\ rec'.status = PROCESSING
    <3>1. orders = <<>>
      <4>1. \A i \in DOMAIN orders : orders[i] \in Order
        BY <1>a
      <4>2. \A i \in DOMAIN orders : orders[i].amount # 0
        BY <4>1, PricesPositive DEF Order
      <4>3. DOMAIN orders = {}
        BY <2>3, <4>2 DEF IInv, NoRowNoPayload, OnlyTheFirstPayload
      <4> QED
        BY <1>a, <4>3
    <3>2. books.sold = 0
      BY <3>1 DEF IInv, SaleIsBacked, Ledger!Sold
    <3>3. PriceOf[c] # 0 /\ \A d \in Callers : PriceOf[d] # 0
      BY PurchaseAssumption
    <3>4. \A d \in Callers : caller[d].pc \notin Working
      BY <2>3, <3>3 DEF IInv, NoRowNoPayload, WorksOnItsPayload
    <3>5. /\ caller'[c].pc \in {"charge", "release"}
          /\ \A d \in Callers : d # c => caller'[d].pc = caller[d].pc
      BY <1>a, <2>3, GoesTo
    <3>6. WorksOnItsPayload' /\ CompletesACharge'
      BY <1>d, <2>3, <3>4, <3>5 DEF WorksOnItsPayload, CompletesACharge
    <3>7. CompletedHasSale' /\ NoRowNoPayload' /\ SaleIsBacked' /\ OnlyTheFirstPayload'
          /\ NoSuspenseOnceSold' /\ SeenExist'
      BY <1>c, <2>2, <2>3, <3>1, <3>2
         DEF CompletedHasSale, NoRowNoPayload, SaleIsBacked, OnlyTheFirstPayload,
             NoSuspenseOnceSold, Ledger!Sold, PROCESSING, COMPLETED
    <3> QED
      BY <1>b, <3>6, <3>7 DEF IInv
  <2>4. CASE rec.status # "none" /\ rec.fingerprint = PriceOf[c]
             /\ rec' = Claimed(caller[c].claim)
             /\ caller'[c].pc \in {"charge", "verify", "release"}
             /\ \A d \in Callers : d # c => caller'[d].pc = caller[d].pc
    <3>1. rec'.fingerprint = rec.fingerprint /\ rec'.status = PROCESSING
      BY <1>a, <2>2, <2>4, ClaimedTypes
    <3>2. WorksOnItsPayload' /\ CompletesACharge'
      BY <1>d, <2>2, <2>4, <3>1 DEF IInv, WorksOnItsPayload, CompletesACharge
    <3>3. CompletedHasSale' /\ NoRowNoPayload' /\ SaleIsBacked' /\ OnlyTheFirstPayload'
          /\ NoSuspenseOnceSold' /\ SeenExist'
      BY <1>c, <2>2, <3>1
         DEF IInv, CompletedHasSale, NoRowNoPayload, SaleIsBacked, OnlyTheFirstPayload,
             NoSuspenseOnceSold, Ledger!Sold, PROCESSING, COMPLETED
    <3> QED
      BY <1>b, <3>2, <3>3 DEF IInv
  <2>5. CASE CallerEnds(c) /\ UNCHANGED rec
    BY <1>a, <1>b, <1>c, <1>d, <2>2, <2>5, EndsIdle, QuietStep
  <2>6. caller' = [caller EXCEPT ![c].pc = "verify", ![c].extra = rec.claimedAt]
          => /\ caller'[c].pc = "verify"
             /\ \A d \in Callers : d # c => caller'[d].pc = caller[d].pc
    BY <1>a DEF CallerState
  <2> QED
    BY <1>a, <2>1, <2>3, <2>4, <2>5, <2>6, GoesTo
<1>20. ASSUME NEW c \in Callers, VerifyStale(c) PROVE IInv'
  <2>1. CASE CallerGoes(c, "renew") \/ CallerGoes(c, "freeze_held")
    BY <1>a, <1>b, <1>c, <1>d, <1>20, <2>1, GoesTo, QuietStep DEF VerifyStale, At
  <2>2. ASSUME CallerGoes(c, "recover"), NEW asked, NEW S \in Listings(asked),
               Cardinality(S) = 1, OnlyOrder(S).amount = PriceOf[c]
        PROVE  IInv'
    <3>1. \E i \in DOMAIN orders : orders[i].amount = PriceOf[c]
      BY <2>2, ListingsAreOrders, OneOrderSeen
    <3>2. /\ caller[c].pc = "verify" /\ caller'[c].pc = "recover"
          /\ \A d \in Callers : d # c => caller'[d].pc = caller[d].pc
          /\ UNCHANGED <<rec, books, orders, recon>>
      BY <1>a, <1>20, <2>2, GoesTo DEF VerifyStale, At
    <3>3. WorksOnItsPayload' /\ CompletesACharge'
      BY <1>d, <3>1, <3>2 DEF IInv, WorksOnItsPayload, CompletesACharge
    <3>4. CompletedHasSale' /\ NoRowNoPayload' /\ SaleIsBacked' /\ OnlyTheFirstPayload'
          /\ NoSuspenseOnceSold' /\ SeenExist'
      BY <1>c, <3>2
         DEF IInv, CompletedHasSale, NoRowNoPayload, SaleIsBacked, OnlyTheFirstPayload,
             NoSuspenseOnceSold, Ledger!Sold
    <3> QED
      BY <1>b, <3>3, <3>4 DEF IInv
  <2> QED
    BY <1>20, <2>1, <2>2 DEF VerifyStale
<1>21. ASSUME NEW c \in Callers, FreezeHeldClaim(c) PROVE IInv'
  <2>1. /\ caller'[c].pc = caller[c].pc \/ caller'[c].pc \notin Working
           \/ (caller[c].pc \in Working /\ caller'[c].pc \notin {"complete", "recover"})
        /\ \A d \in Callers : d # c => caller'[d].pc = caller[d].pc
    BY <1>a, <1>d, <1>21, GoesTo, EndsIdle DEF FreezeHeldClaim, AnswerLost, At
  <2>2. UNCHANGED <<orders, recon>>
    BY <1>21 DEF FreezeHeldClaim
  <2>3. rec.attempts \in Nat /\ caller[c].extra \in Nat /\ PriceOf[c] \in Prices
    BY <1>a DEF Record, CallerState, Prices
  <2>4. /\ Stamped(PENDING).fingerprint = rec.fingerprint /\ Stamped(PENDING).status = PENDING
        /\ Stamped(FAILED).fingerprint = rec.fingerprint /\ Stamped(FAILED).status = FAILED
    BY <1>a, StampedTypes DEF Status
  <2>5. rec' = rec \/ (rec'.fingerprint = rec.fingerprint /\ rec'.status # "none"
                       /\ rec'.status # COMPLETED)
    BY <2>4, <1>21 DEF FreezeHeldClaim, PENDING, FAILED, COMPLETED
  <2>6. books'.sold = books.sold /\ (books.sold # 0 => books'.open \subseteq books.open)
    BY <1>a, <1>21, <2>3, UnverifiedBooks DEF FreezeHeldClaim
  <2> QED
    BY <1>b, <1>c, <2>1, <2>2, <2>5, <2>6, StoreStep
<1>22. ASSUME NEW c \in Callers, RenewClaim(c) PROVE IInv'
  <2>1. CASE CallerEnds(c) /\ UNCHANGED rec
    BY <1>a, <1>b, <1>c, <1>d, <1>22, <2>1, EndsIdle, QuietStep DEF RenewClaim
  <2>2. CASE StillHeld(c) /\ rec' = [rec EXCEPT !.claimedAt = now]
             /\ \/ CallerGoes(c, "release")
                \/ caller' = [caller EXCEPT ![c] =
                                [pc |-> "charge", claim |-> now, extra |-> 0]]
    <3>1. /\ caller[c].pc = "renew" /\ caller'[c].pc \in {"charge", "release"}
          /\ \A d \in Callers : d # c => caller'[d].pc = caller[d].pc
      BY <1>a, <1>22, <2>2, GoesTo DEF RenewClaim, At
    <3>2. rec'.fingerprint = rec.fingerprint /\ rec'.status = PROCESSING
      BY <1>a, <2>2 DEF Record, StillHeld
    <3> QED
      BY <1>b, <1>c, <1>d, <1>22, <3>1, <3>2, StoreStep
         DEF RenewClaim, PROCESSING, COMPLETED
  <2> QED
    BY <1>22, <2>1, <2>2 DEF RenewClaim, AnswerLost
<1>23. ASSUME NEW c \in Callers, ChargeAnswered(c) \/ ChargeGarbled(c) PROVE IInv'
  BY <1>b, <1>d, <1>23, ChargeStep DEF ChargeAnswered, ChargeGarbled
<1>24. ASSUME NEW c \in Callers, ChargeTimesOut(c) PROVE IInv'
  <2>1. CASE PlaceOrder(c)
    BY <1>b, <1>d, <1>24, <2>1, ChargeStep DEF ChargeTimesOut
  <2>2. CASE UNCHANGED orders
    BY <1>a, <1>b, <1>c, <1>d, <1>24, <2>2, GoesTo, QuietStep DEF ChargeTimesOut, At
  <2> QED
    BY <1>24, <2>1, <2>2 DEF ChargeTimesOut
<1>25. ASSUME NEW c \in Callers, Complete(c) PROVE IInv'
  <2>1. /\ caller[c].pc \in {"complete", "recover"}
        /\ caller'[c].pc \in {"confirm", "freeze_charged"}
        /\ \A d \in Callers : d # c => caller'[d].pc = caller[d].pc
        /\ UNCHANGED <<orders, recon>>
    BY <1>a, <1>25, GoesTo DEF Complete, AnswerLost, At
  <2>2. CASE UNCHANGED <<rec, books>>
    BY <1>b, <1>c, <1>d, <2>1, <2>2, QuietStep
  <2>3. CASE CompleteWithSale(PriceOf[c])
    <3>1. PriceOf[c] \in Prices /\ PriceOf[c] # 0
      BY PurchaseAssumption DEF Prices
    <3>2. \E i \in DOMAIN orders : orders[i].amount = PriceOf[c]
      BY <2>1 DEF IInv, CompletesACharge
    <3>3. rec'.fingerprint = rec.fingerprint /\ rec'.status # "none"
      BY <1>a, <2>3, StampedTypes DEF CompleteWithSale, Status, COMPLETED
    <3>4. /\ books'.sold = IF books.sold # 0 THEN books.sold ELSE PriceOf[c]
          /\ books.sold # 0 => books'.open = books.open
          /\ books.sold = 0 => books'.open = {}
      BY <1>a, <2>3, <3>1, SaleBooks DEF CompleteWithSale
    <3> QED
      BY <1>b, <1>c, <1>d, <2>1, <3>1, <3>2, <3>3, <3>4, StoreStep
  <2> QED
    BY <1>25, <2>2, <2>3 DEF Complete
<1>26. ASSUME NEW c \in Callers, FreezeCharged(c) PROVE IInv'
  <2>1. /\ caller[c].pc = "freeze_charged" /\ caller'[c].pc \in {"suspend", "idle"}
        /\ \A d \in Callers : d # c => caller'[d].pc = caller[d].pc
    BY <1>a, <1>26, EndsIdle DEF FreezeCharged, At, CallerState
  <2>2. /\ Stamped(PENDING).fingerprint = rec.fingerprint /\ Stamped(PENDING).status = PENDING
    BY <1>a, StampedTypes DEF Status
  <2>3. rec' = rec \/ (rec'.fingerprint = rec.fingerprint /\ rec'.status = PENDING)
    BY <1>26, <2>2 DEF FreezeCharged
  <2> QED
    BY <1>b, <1>c, <1>d, <1>26, <2>1, <2>3, StoreStep DEF FreezeCharged, PENDING, COMPLETED
<1>27. ASSUME NEW c \in Callers, SuspendAlone(c) PROVE IInv'
  <2>1. /\ caller'[c].pc = caller[c].pc \/ caller'[c].pc \notin Working
           \/ (caller[c].pc \in Working /\ caller'[c].pc \notin {"complete", "recover"})
        /\ \A d \in Callers : d # c => caller'[d].pc = caller[d].pc
    BY <1>a, <1>d, <1>27, GoesTo, EndsIdle DEF SuspendAlone, At
  <2>2. UNCHANGED <<orders, recon>>
    BY <1>27 DEF SuspendAlone
  <2>3. rec.attempts \in Nat /\ caller[c].extra \in Nat /\ PriceOf[c] \in Prices
    BY <1>a DEF Record, CallerState, Prices
  <2>4. /\ Stamped(PENDING).fingerprint = rec.fingerprint /\ Stamped(PENDING).status = PENDING
        /\ Stamped(FAILED).fingerprint = rec.fingerprint /\ Stamped(FAILED).status = FAILED
    BY <1>a, StampedTypes DEF Status
  <2>5. rec' = rec \/ (rec'.fingerprint = rec.fingerprint /\ rec'.status # "none"
                       /\ rec'.status # COMPLETED)
    BY <2>4, <1>27 DEF SuspendAlone, PENDING, FAILED, COMPLETED
  <2>6. books'.sold = books.sold /\ (books.sold # 0 => books'.open \subseteq books.open)
    BY <1>a, <1>27, <2>3, UnverifiedBooks DEF SuspendAlone
  <2> QED
    BY <1>b, <1>c, <2>1, <2>2, <2>5, <2>6, StoreStep
<1>28. ASSUME NEW c \in Callers, Abandon(c) PROVE IInv'
  <2>1. /\ caller'[c].pc = caller[c].pc \/ caller'[c].pc \notin Working
           \/ (caller[c].pc \in Working /\ caller'[c].pc \notin {"complete", "recover"})
        /\ \A d \in Callers : d # c => caller'[d].pc = caller[d].pc
    BY <1>a, <1>d, <1>28, GoesTo, EndsIdle DEF Abandon, AnswerLost, At
  <2>2. UNCHANGED <<orders, recon>>
    BY <1>28 DEF Abandon
  <2>3. rec.attempts \in Nat /\ caller[c].extra \in Nat /\ PriceOf[c] \in Prices
    BY <1>a DEF Record, CallerState, Prices
  <2>4. /\ Stamped(PENDING).fingerprint = rec.fingerprint /\ Stamped(PENDING).status = PENDING
        /\ Stamped(FAILED).fingerprint = rec.fingerprint /\ Stamped(FAILED).status = FAILED
    BY <1>a, StampedTypes DEF Status
  <2>5. rec' = rec \/ (rec'.fingerprint = rec.fingerprint /\ rec'.status # "none"
                       /\ rec'.status # COMPLETED)
    BY <2>4, <1>28 DEF Abandon, PENDING, FAILED, COMPLETED
  <2>6. books'.sold = books.sold /\ (books.sold # 0 => books'.open \subseteq books.open)
    BY <1>a, <1>28, <2>3, UnverifiedBooks DEF Abandon
  <2> QED
    BY <1>b, <1>c, <2>1, <2>2, <2>5, <2>6, StoreStep
<1>29. ASSUME NEW c \in Callers, FreezeTimeout(c) PROVE IInv'
  <2>1. /\ caller'[c].pc = caller[c].pc \/ caller'[c].pc \notin Working
           \/ (caller[c].pc \in Working /\ caller'[c].pc \notin {"complete", "recover"})
        /\ \A d \in Callers : d # c => caller'[d].pc = caller[d].pc
    BY <1>a, <1>d, <1>29, GoesTo, EndsIdle DEF FreezeTimeout, AnswerLost, At
  <2>2. UNCHANGED <<orders, recon>>
    BY <1>29 DEF FreezeTimeout
  <2>3. rec.attempts \in Nat /\ caller[c].extra \in Nat /\ PriceOf[c] \in Prices
    BY <1>a DEF Record, CallerState, Prices
  <2>4. /\ Stamped(PENDING).fingerprint = rec.fingerprint /\ Stamped(PENDING).status = PENDING
        /\ Stamped(FAILED).fingerprint = rec.fingerprint /\ Stamped(FAILED).status = FAILED
    BY <1>a, StampedTypes DEF Status
  <2>5. rec' = rec \/ (rec'.fingerprint = rec.fingerprint /\ rec'.status # "none"
                       /\ rec'.status # COMPLETED)
    BY <2>4, <1>29 DEF FreezeTimeout, PENDING, FAILED, COMPLETED
  <2>6. books'.sold = books.sold /\ (books.sold # 0 => books'.open \subseteq books.open)
    BY <1>a, <1>29, <2>3, UnverifiedBooks DEF FreezeTimeout
  <2> QED
    BY <1>b, <1>c, <2>1, <2>2, <2>5, <2>6, StoreStep
<1>30. ASSUME NEW r \in Reconcilers, ConfirmNotExecuted(r) PROVE IInv'
  <2>1. UNCHANGED <<orders, caller>>
    BY <1>30 DEF ConfirmNotExecuted
  <2>2. \A q \in Reconcilers : recon'[q].seen \subseteq DOMAIN orders
    <3>1. CASE recon' = [recon EXCEPT ![r] = [IdleRecon EXCEPT !.pc = "release"]]
      BY <1>a, <3>1 DEF SeenExist, IdleRecon
    <3> QED
      BY <1>a, <1>30, <3>1, SweepEnds DEF ConfirmNotExecuted
  <2>3. Stamped(FAILED).fingerprint = rec.fingerprint /\ Stamped(FAILED).status = FAILED
    BY <1>a, StampedTypes DEF Status
  <2>4. rec' = rec \/ (rec'.fingerprint = rec.fingerprint /\ rec'.status = FAILED)
    BY <1>30, <2>3 DEF ConfirmNotExecuted
  <2>5. recon[r].row.attempts \in Nat
    BY <1>a DEF ReconState, Record
  <2>6. books'.sold = books.sold /\ books'.open \subseteq books.open
    BY <1>a, <1>30, <2>5, NotExecutedBooks DEF ConfirmNotExecuted
  <2> QED
    BY <1>b, <2>1, <2>2, <2>4, <2>6, StoreStep DEF FAILED, COMPLETED
<1>31. ASSUME NEW r \in Reconcilers, RepairFromOrder(r) PROVE IInv'
  <2>1. UNCHANGED <<orders, caller>>
    BY <1>31 DEF RepairFromOrder
  <2>2. \A q \in Reconcilers : recon'[q].seen \subseteq DOMAIN orders
    <3>1. CASE recon' = [recon EXCEPT ![r] = [IdleRecon EXCEPT !.pc = "confirm"]]
      BY <1>a, <3>1 DEF SeenExist, IdleRecon
    <3> QED
      BY <1>a, <1>31, <3>1, SweepEnds DEF RepairFromOrder
  <2>3. PICK i \in DOMAIN orders : OnlyOrder(recon[r].seen) = orders[i]
    BY <1>a, <1>31, OneOrderSeen DEF RepairFromOrder, SeenExist
  <2>4. orders[i].amount \in Prices /\ orders[i].amount # 0
    <3>1. orders[i] \in Order
      BY <1>a
    <3> QED
      BY <3>1, PricesPositive DEF Order
  <2>5. /\ books'.sold = IF books.sold # 0 THEN books.sold ELSE orders[i].amount
        /\ books.sold # 0 => books'.open = books.open
        /\ books.sold = 0 => books'.open = {}
    BY <1>a, <1>31, <2>3, <2>4, SaleBooks DEF RepairFromOrder
  <2>6. Stamped(COMPLETED).fingerprint = rec.fingerprint
        /\ Stamped(COMPLETED).status = COMPLETED
    BY <1>a, StampedTypes DEF Status
  <2>7. rec' = rec \/ (rec'.fingerprint = rec.fingerprint /\ rec'.status # "none")
    BY <1>31, <2>6 DEF RepairFromOrder, COMPLETED
  <2> QED
    BY <1>b, <2>1, <2>2, <2>4, <2>5, <2>7, StoreStep
<1>32. ASSUME NEW c \in Callers, FreezeAgain(c) PROVE IInv'
  <2>1. /\ caller'[c].pc = "idle"
        /\ \A d \in Callers : d # c => caller'[d].pc = caller[d].pc
    BY <1>a, <1>32, EndsIdle DEF FreezeAgain
  <2>2. /\ Stamped(PENDING).fingerprint = rec.fingerprint /\ Stamped(PENDING).status = PENDING
    BY <1>a, StampedTypes DEF Status
  <2>3. rec' = rec \/ (rec'.fingerprint = rec.fingerprint /\ rec'.status = PENDING)
    BY <1>32, <2>2 DEF FreezeAgain
  <2> QED
    BY <1>b, <1>c, <1>d, <1>32, <2>1, <2>3, StoreStep DEF FreezeAgain, PENDING, COMPLETED
<1> QED
  BY <1>1, <1>2, <1>3, <1>4, <1>5, <1>6, <1>7, <1>8, <1>9, <1>10, <1>11, <1>12, <1>13,
     <1>14, <1>15, <1>16, <1>17, <1>18, <1>19, <1>20, <1>21, <1>22, <1>23, <1>24,
     <1>25, <1>26, <1>27, <1>28, <1>29, <1>30, <1>31, <1>32
     DEF Next, CallerStep, CallerFault, ReconStep, ReconFault

-----------------------------------------------------------------------------

LEMMA IInvHolds == Spec => []IInv
BY IInvInit, IInvStep, PTL DEF Spec

(* The state is well typed: in particular a sweep never acts on an order   *)
(* that is not there, whatever it read when.                               *)
THEOREM PurchaseTypeCorrect == Spec => []TypeOK
BY IInvHolds, PTL DEF IInv

(* No crash, lost write or late writer leaves a COMPLETED record without   *)
(* its sale (idempotency.py:287-297).                                      *)
THEOREM CompletionsAreBooked == Spec => []CompletedHasSale
BY IInvHolds, PTL DEF IInv

(* The books never recognise a sale the provider has no order for.         *)
THEOREM SalesAreBacked == Spec => []SaleIsBacked
BY IInvHolds, PTL DEF IInv

(* A sale closes the suspense of its key for good, whatever order the      *)
(* postings arrive in.                                                     *)
THEOREM SalesCloseSuspense == Spec => []NoSuspenseOnceSold
BY IInvHolds, PTL DEF IInv

(* A key charges no payload but its first (idempotency.py:207-216).        *)
THEOREM KeyChargesOnePayload == Spec => []OnlyTheFirstPayload
BY IInvHolds, PTL DEF IInv

-----------------------------------------------------------------------------
(* One charge, while no thread outlives its claim, no charge is answered   *)
(* with an error that hides it, listings are judged when they are read,    *)
(* and one sweep runs at a time.  Charges may time out unless a crash or a *)
(* failing store comes between the two writes that follow a time-out,      *)
(* which leaves a charged key open.  Without time-outs any write may fail, *)
(* or take effect and be taken for one that failed.                        *)

Mild == /\ Faults \cap {"stall", "slow", "garbled"} = {}
        /\ "timeout" \in Faults => Faults \cap {"crash", "db", "lost"} = {}
        /\ \A r, q \in Reconcilers : r = q

Benign == Mild /\ "timeout" \notin Faults

(* Postings are made when they are called for.                             *)
BooksObey == Faults \cap {"db", "lost", "posting"} = {}

(* A retry is refused while a timed-out attempt is being frozen            *)
(* (gateway.py:249-251), which the code does not see to: a step of         *)
(* RetryRefusedWhileUnknown.                                               *)
Freezing(c) == caller[c].pc = "freeze_timeout"
RetryRefused == (\E c \in Callers : Freezing(c)) => rec'.attempts = rec.attempts

(* The places of a thread that has the key and has not settled it.         *)
Holding == {"verify", "recover", "freeze_held", "renew", "charge", "complete",
            "freeze_charged", "abandon_failure", "abandon_timeout"}

Timely ==
  \A c \in Callers :
    /\ caller[c].pc \in {"abandon_timeout", "freeze_timeout"} => "timeout" \in Faults
    /\ caller[c].pc # "freeze_again"
    /\ caller[c].pc # "idle" => caller[c].claim <= now /\ now < caller[c].claim + StaleAfter

(* A live holder is the only one: its claim cannot be stale yet.  It may   *)
(* have completed the key without being told.                              *)
OneHolder ==
  /\ \A c \in Callers : caller[c].pc \in Holding =>
       \/ rec.status = PROCESSING /\ rec.claimedAt = caller[c].claim
       \/ rec.status = COMPLETED /\ caller[c].pc = "freeze_charged" /\ "lost" \in Faults
  /\ \A c, d \in Callers : caller[c].pc \in Holding /\ caller[d].pc \in Holding => c = d

(* After a time-out execute() calls the key failed; until the handler has  *)
(* frozen it, it is not for anybody else.                                  *)
FreezesAlone ==
  /\ \A c \in Callers : Freezing(c) =>
       rec.status = FAILED /\ \A a \in books.settled : a < rec.attempts
  /\ \A c, d \in Callers : Freezing(c) /\ Freezing(d) => c = d

(* Whoever may charge faces a provider that has not; so does a retry.      *)
NotYetCharged ==
  /\ \A c \in Callers :
       caller[c].pc \in {"renew", "charge", "abandon_failure"} => orders = <<>>
  /\ rec.status \in {"none", FAILED} => orders = <<>> \/ \E c \in Callers : Freezing(c)
  /\ \A c \in Callers : caller[c].pc = "freeze_charged" => orders # <<>> /\ ~BooksObey
  /\ rec.status = COMPLETED => orders # <<>>

(* A frozen attempt whose posting is still to come was charged, and a      *)
(* sweep that comes first finds that out.                                  *)
SuspendsACharge ==
  \A c \in Callers : caller[c].pc = "suspend" =>
    /\ rec.status \in {PENDING, COMPLETED} /\ caller[c].extra = rec.attempts
    /\ orders # <<>>

(* An order is placed before the claim it is placed under is stale.        *)
OrdersAreTimely ==
  \A i \in DOMAIN orders :
    /\ orders[i].at < rec.claimedAt + StaleAfter
    /\ \A c \in Callers :
         caller[c].pc = "verify" => orders[i].at < caller[c].extra + StaleAfter

(* A sweep works on a frozen key, which nobody else touches.               *)
SweepsFrozen ==
  \A r \in Reconcilers :
    /\ recon[r].pc \in {"get", "ask", "act"} => rec.status = PENDING
    /\ recon[r].pc \in {"ask", "act"} => recon[r].row = rec
    /\ recon[r].pc = "act" /\ recon[r].seen = {} /\ CaughtUp(rec.claimedAt) => orders = <<>>

(* What is in suspense is the frozen attempt, and it is marked "not        *)
(* executed" only when it failed.                                          *)
SuspenseIsFrozen ==
  /\ books.open \subseteq {rec.attempts}
  /\ books.open # {} => rec.status = PENDING
  /\ rec.status = "none" => books.settled = {}
  /\ \A a \in books.settled : a <= rec.attempts /\ (a = rec.attempts => rec.status = FAILED)

(* As UnknownIsInSuspense, where the ledger takes the posting.             *)
Exposed == BooksObey => UnknownIsInSuspense

OnceInv ==
  /\ AtMostOneCharge /\ Timely /\ OneHolder /\ NotYetCharged /\ OrdersAreTimely
  /\ SweepsFrozen /\ SuspenseIsFrozen /\ FreezesAlone /\ SuspendsACharge
  /\ Exposed

(* What stays true when threads move and nothing else does.                *)
LEMMA ThreadMoves ==
  ASSUME Mild, IInv, TypeOK', OnceInv, UNCHANGED <<now, rec, books, orders, recon>>,
         NEW c \in Callers, \A d \in Callers : d # c => caller'[d] = caller[d],
         ~Freezing(c), caller'[c].pc \notin {"freeze_timeout", "freeze_again"},
         caller'[c].pc = "abandon_timeout" => "timeout" \in Faults,
         \/ caller'[c].pc = "idle"
         \/ caller'[c].pc = "claim" /\ caller'[c].claim = now
         \/ /\ caller[c].pc # "idle" /\ caller'[c].claim = caller[c].claim
            /\ caller'[c].extra = caller[c].extra
            /\ caller'[c].pc \notin {"verify", "suspend"}
            /\ caller'[c].pc = "freeze_charged" => orders # <<>> /\ ~BooksObey
            /\ caller'[c].pc \in Holding => caller[c].pc \in Holding \ {"freeze_charged"}
            /\ caller'[c].pc \in {"renew", "charge", "abandon_failure"} => orders = <<>>
  PROVE  OnceInv'
<1> USE DEF OnceInv
<1>a. now \in Nat /\ caller \in [Callers -> CallerState] /\ rec \in Record
  BY DEF IInv, TypeOK
<1>1. AtMostOneCharge' /\ SweepsFrozen' /\ SuspenseIsFrozen' /\ Exposed'
  BY DEF AtMostOneCharge, SweepsFrozen, SuspenseIsFrozen, Exposed, BooksObey,
     UnknownIsInSuspense, CaughtUp, Ledger!Sold
<1>2. Timely'
  <2> SUFFICES ASSUME NEW d \in Callers
               PROVE  /\ caller'[d].pc \in {"abandon_timeout", "freeze_timeout"} =>
                           "timeout" \in Faults
                      /\ caller'[d].pc # "freeze_again"
                      /\ caller'[d].pc # "idle" =>
                           caller'[d].claim <= now /\ now < caller'[d].claim + StaleAfter
    BY DEF Timely
  <2>1. CASE d # c
    BY <2>1 DEF Timely
  <2>2. CASE d = c /\ caller'[c].pc = "claim" /\ caller'[c].claim = now
    BY <1>a, <2>2, PurchaseAssumption 
  <2> QED
    BY <2>1, <2>2 DEF Timely
<1>3. OneHolder'
  BY DEF OneHolder, Holding
<1>4. NotYetCharged'
  BY DEF BooksObey, NotYetCharged, Freezing
<1>5. OrdersAreTimely'
  BY DEF OrdersAreTimely
<1>6. FreezesAlone'
  BY DEF FreezesAlone, Freezing
<1>7. SuspendsACharge'
  BY DEF SuspendsACharge
<1> QED
  BY <1>1, <1>2, <1>3, <1>4, <1>5, <1>6, <1>7

(* What stays true when a sweep moves on, or ends, and nothing else does.  *)
LEMMA SweepMoves ==
  ASSUME Mild, IInv, OnceInv, UNCHANGED <<now, rec, books, orders, caller>>,
         NEW r \in Reconcilers,
         \/ recon'[r].pc \notin {"get", "ask", "act"}
         \/ rec.status = PENDING /\ recon'[r].pc = "get"
         \/ rec.status = PENDING /\ recon'[r].pc = "ask" /\ recon'[r].row = rec
         \/ /\ rec.status = PENDING /\ recon'[r].pc = "act" /\ recon'[r].row = rec
            /\ recon'[r].seen = {} /\ CaughtUp(rec.claimedAt) => orders = <<>>
  PROVE  OnceInv'
<1> USE DEF OnceInv
<1>1. AtMostOneCharge' /\ Timely' /\ OneHolder' /\ NotYetCharged' /\ OrdersAreTimely'
      /\ SuspenseIsFrozen' /\ Exposed'
      /\ FreezesAlone' /\ SuspendsACharge'
  BY DEF AtMostOneCharge, Timely, OneHolder, NotYetCharged, BooksObey, OrdersAreTimely,
         SuspenseIsFrozen, Exposed, BooksObey, UnknownIsInSuspense, SuspendsACharge,
         FreezesAlone, Freezing, Ledger!Sold
<1>2. SweepsFrozen'
  <2> SUFFICES ASSUME NEW q \in Reconcilers
               PROVE  /\ recon'[q].pc \in {"get", "ask", "act"} => rec.status = PENDING
                      /\ recon'[q].pc \in {"ask", "act"} => recon'[q].row = rec
                      /\ recon'[q].pc = "act" /\ recon'[q].seen = {} /\ CaughtUp(rec.claimedAt)
                           => orders = <<>>
    BY DEF SweepsFrozen, CaughtUp
  <2> QED
    BY DEF Mild
<1> QED
  BY <1>1, <1>2

(* A listing that was complete when the order's claim was long stale, and  *)
(* shows nothing, was of a provider that has nothing.                      *)
LEMMA EmptyMeansNotCharged ==
  ASSUME TypeOK, NEW from \in Nat, {} \in Listings({now}), CaughtUp(from),
         \A i \in DOMAIN orders : orders[i].at < from + StaleAfter
  PROVE  orders = <<>>
<1>1. \A i \in DOMAIN orders : ~(orders[i].at + Lag <= now)
  BY DEF Listings
<1>2. \A i \in DOMAIN orders : orders[i] \in Order
  BY DEF TypeOK
<1>3. \A i \in DOMAIN orders : orders[i].at + Lag <= now
  <2> SUFFICES ASSUME NEW i \in DOMAIN orders PROVE orders[i].at + Lag <= now
    OBVIOUS
  <2>1. orders[i].at \in Nat /\ now \in Nat
    BY <1>2 DEF Order, TypeOK
  <2>2. orders[i].at < from + StaleAfter /\ from + Grace <= now /\ StaleAfter + Lag <= Grace
    BY GraceAssumption DEF CaughtUp
  <2> QED
    BY <2>1, <2>2, PurchaseAssumption
<1>4. DOMAIN orders = {}
  BY <1>1, <1>3
<1> QED
  BY <1>4 DEF TypeOK

(* Nothing the books disagree about is left to repair.                     *)
LEMMA NothingToRepair == IInv /\ OnceInv => ~Repairable
BY DEF IInv, OnceInv, Repairable, CompletedHasSale, SuspenseIsFrozen, PENDING, COMPLETED

(* A thread moves and keeps its claim.                                     *)
LEMMA GoesOn ==
  ASSUME caller \in [Callers -> CallerState], NEW c \in Callers, NEW p, CallerGoes(c, p)
  PROVE  /\ caller'[c].pc = p /\ caller'[c].claim = caller[c].claim
         /\ caller'[c].extra = caller[c].extra
         /\ \A d \in Callers : d # c => caller'[d] = caller[d]
BY DEF CallerGoes, CallerState

(* A thread ends.                                                          *)
LEMMA GoesHome ==
  ASSUME caller \in [Callers -> CallerState], NEW c \in Callers, CallerEnds(c)
  PROVE  /\ caller'[c].pc = "idle"
         /\ \A d \in Callers : d # c => caller'[d] = caller[d]
BY DEF CallerEnds, CallerState, IdleCaller

(* A claim that succeeds finds no holder: one that is alive is not stale.  *)
LEMMA NoHolderWhenStale ==
  ASSUME IInv, OnceInv, NEW c \in Callers, caller[c].pc = "claim",
         rec.status # PROCESSING \/ Stale(caller[c].claim), rec.status # COMPLETED
  PROVE  \A d \in Callers : caller[d].pc \notin Holding
<1> SUFFICES ASSUME NEW d \in Callers, caller[d].pc \in Holding PROVE FALSE
  OBVIOUS
<1>1. /\ now \in Nat /\ rec.claimedAt \in Nat
      /\ caller[c].claim \in Nat /\ caller[d].claim \in Nat
  BY DEF IInv, TypeOK, CallerState, Record
<1>2. rec.status = PROCESSING /\ rec.claimedAt = caller[d].claim
  BY DEF OnceInv, OneHolder
<1>3. caller[c].claim <= now /\ now < caller[d].claim + StaleAfter
  BY DEF OnceInv, Timely, Holding
<1>4. caller[c].claim >= rec.claimedAt + StaleAfter
  BY <1>2 DEF Stale
<1> QED
  BY <1>1, <1>2, <1>3, <1>4, PurchaseAssumption

(* The key is taken, by a thread that goes to charge or first verifies, or *)
(* is not told and gives up.                                               *)
LEMMA KeyTaken ==
  ASSUME Mild, IInv, TypeOK', OnceInv, UNCHANGED <<now, books, orders, recon>>,
         NEW c \in Callers, caller[c].pc = "claim",
         rec.status # PROCESSING \/ Stale(caller[c].claim),
         rec.status \notin {PENDING, COMPLETED},
         \A d \in Callers : ~Freezing(d),
         rec'.status = PROCESSING, rec'.claimedAt = caller[c].claim,
         \A a \in books.settled : a < rec'.attempts,
         \A d \in Callers : d # c => caller'[d] = caller[d],
         caller'[c].claim = caller[c].claim,
         \/ caller'[c].pc = "charge" /\ orders = <<>>
         \/ caller'[c].pc = "release" /\ (orders = <<>> \/ Stale(caller[c].claim))
         \/ caller'[c].pc = "verify" /\ caller'[c].extra = rec.claimedAt
            /\ Stale(caller[c].claim)
  PROVE  OnceInv'
<1> USE DEF OnceInv
<1>a. /\ now \in Nat /\ rec.claimedAt \in Nat /\ caller[c].claim \in Nat
      /\ rec.attempts \in Nat /\ rec'.attempts \in Nat
      /\ books.settled \subseteq Nat /\ books.open \subseteq Nat
  BY DEF IInv, TypeOK, CallerState, Record
<1>b. \A d \in Callers : caller[d].pc \notin Holding
  BY NoHolderWhenStale
<1>c. PROCESSING # "none" /\ PROCESSING # FAILED /\ PROCESSING # COMPLETED /\ PROCESSING # PENDING
  BY DEF PROCESSING, FAILED, COMPLETED, PENDING
<1>d. caller'[c].pc \in {"charge", "release", "verify"} /\ caller[c].pc # "idle"
  OBVIOUS
<1>1. AtMostOneCharge' /\ Exposed'
  BY <1>c DEF AtMostOneCharge, Exposed, BooksObey, UnknownIsInSuspense
<1>2. Timely'
  BY <1>d DEF Timely
<1>3. OneHolder'
  BY <1>b DEF OneHolder
<1>4. NotYetCharged'
  <2>1. \A d \in Callers : d # c =>
          caller'[d].pc \notin {"renew", "charge", "abandon_failure", "freeze_charged"}
    BY <1>b DEF Holding
  <2> QED
    BY <1>c, <2>1 DEF BooksObey, NotYetCharged
<1>5. OrdersAreTimely'
  <2> SUFFICES ASSUME NEW i \in DOMAIN orders
               PROVE  /\ orders[i].at < rec'.claimedAt + StaleAfter
                      /\ \A d \in Callers : caller'[d].pc = "verify" =>
                           orders[i].at < caller'[d].extra + StaleAfter
    BY DEF OrdersAreTimely
  <2>1. orders[i].at \in Nat
    <3>1. orders[i] \in Order
      BY DEF IInv, TypeOK
    <3> QED
      BY <3>1 DEF Order
  <2>2. orders[i].at < rec.claimedAt + StaleAfter
    BY DEF OrdersAreTimely
  <2>3. rec.claimedAt + StaleAfter <= caller[c].claim
    BY DEF Stale
  <2>4. \A d \in Callers : d # c => caller'[d].pc # "verify"
    BY <1>b DEF Holding
  <2> QED
    BY <1>a, <2>1, <2>2, <2>3, <2>4, PurchaseAssumption
<1>6. SweepsFrozen'
  BY <1>c DEF SweepsFrozen
<1>7. SuspenseIsFrozen'
  <2>1. books.open = {}
    BY DEF SuspenseIsFrozen
  <2> QED
    BY <1>a, <1>c, <2>1 DEF SuspenseIsFrozen
<1>8. \A d \in Callers : caller'[d].pc # "freeze_timeout"
  BY DEF Freezing
<1>9. FreezesAlone' /\ SuspendsACharge'
  BY <1>8 DEF FreezesAlone, Freezing, SuspendsACharge
<1> QED
  BY <1>1, <1>2, <1>3, <1>4, <1>5, <1>6, <1>7, <1>9

(* The claim, whatever the record says.                                    *)
LEMMA OnceClaim ==
  ASSUME Mild, IInv, TypeOK', OnceInv, RetryRefused, NEW c \in Callers, Claim(c)
  PROVE  OnceInv'
<1>a. /\ caller \in [Callers -> CallerState] /\ rec \in Record
      /\ rec.attempts \in Nat /\ caller[c].claim \in Nat /\ books.settled \subseteq Nat
  BY DEF IInv, TypeOK, CallerState, Record
<1>b. UNCHANGED <<now, books, orders, recon>> /\ caller[c].pc = "claim"
  BY DEF Claim, At
<1>c. rec.status # FAILED => \A d \in Callers : ~Freezing(d)
  BY DEF OnceInv, FreezesAlone
<1>d. rec'.attempts # rec.attempts => \A d \in Callers : ~Freezing(d)
  BY DEF RetryRefused
<1>1. CASE rec.status = "none" /\ (CallerGoes(c, "charge") \/ CallerGoes(c, "release"))
           /\ rec' = [status |-> PROCESSING, fingerprint |-> PriceOf[c],
                      claimedAt |-> caller[c].claim, attempts |-> 1]
  <2>1. \A d \in Callers : ~Freezing(d)
    BY <1>c, <1>1 DEF FAILED
  <2>2. orders = <<>> /\ books.settled = {}
    BY <1>1, <2>1 DEF OnceInv, NotYetCharged, SuspenseIsFrozen
  <2>3. rec'.status = PROCESSING /\ rec'.claimedAt = caller[c].claim
    BY <1>1
  <2>4. rec.status \notin {PROCESSING, PENDING, COMPLETED}
    BY <1>1 DEF PROCESSING, PENDING, COMPLETED
  <2> QED
    BY <1>a, <1>b, <1>1, <2>2, <2>3, <2>4, <2>1, GoesOn, KeyTaken
<1>2. CASE rec.status # "none" /\ rec' = Claimed(caller[c].claim)
  <2>1. rec'.status = PROCESSING /\ rec'.claimedAt = caller[c].claim
        /\ rec'.attempts = rec.attempts + 1
    BY <1>a, <1>2 DEF Claimed, Record
  <2>2. \A a \in books.settled : a < rec'.attempts
    BY <1>a, <2>1 DEF OnceInv, SuspenseIsFrozen
  <2>3. \A d \in Callers : ~Freezing(d)
    BY <1>a, <1>d, <2>1
  <2>4. CASE rec.status = FAILED /\ (CallerGoes(c, "charge") \/ CallerGoes(c, "release"))
    <3>1. orders = <<>>
      BY <2>4, <2>3 DEF OnceInv, NotYetCharged
    <3>2. rec.status \notin {PROCESSING, PENDING, COMPLETED}
      BY <2>4 DEF PROCESSING, PENDING, COMPLETED, FAILED
    <3> QED
      BY <1>a, <1>b, <2>1, <2>2, <2>4, <2>3, <3>1, <3>2, GoesOn, KeyTaken
  <2>5. CASE rec.status = PROCESSING /\ Stale(caller[c].claim)
             /\ caller' = [caller EXCEPT ![c].pc = "verify", ![c].extra = rec.claimedAt]
    <3>1. /\ caller'[c].pc = "verify" /\ caller'[c].claim = caller[c].claim
          /\ caller'[c].extra = rec.claimedAt
          /\ \A d \in Callers : d # c => caller'[d] = caller[d]
      BY <1>a, <2>5 DEF CallerState
    <3>2. rec.status \notin {PENDING, COMPLETED}
      BY <2>5 DEF PROCESSING, PENDING, COMPLETED
    <3> QED
      BY <1>b, <2>1, <2>2, <2>5, <2>3, <3>1, <3>2, KeyTaken
  <2>6. ~(CallerEnds(c) /\ UNCHANGED rec)
    BY <1>a, <2>1
  <2>7. CASE rec.status = PROCESSING /\ Stale(caller[c].claim) /\ CallerGoes(c, "release")
    <3>1. rec.status \notin {PENDING, COMPLETED}
      BY <2>7 DEF PROCESSING, PENDING, COMPLETED
    <3> QED
      BY <1>a, <1>b, <2>1, <2>2, <2>7, <2>3, <3>1, GoesOn, KeyTaken
  <2> QED
    BY <1>2, <2>4, <2>5, <2>6, <2>7 DEF Claim, AnswerLost, Retryable
<1>3. CASE CallerEnds(c) /\ UNCHANGED rec
  BY <1>a, <1>b, <1>3, GoesHome, ThreadMoves DEF Freezing
<1> QED
  BY <1>1, <1>2, <1>3 DEF Claim, AnswerLost, Retryable, FAILED, PROCESSING

(* The only unsettled thread settles the key, or its outcome is unknown;   *)
(* having settled it, it may still not know.                               *)
LEMMA KeySettled ==
  ASSUME Mild, IInv, TypeOK', OnceInv, UNCHANGED <<now, orders, recon>>,
         NEW c \in Callers, caller[c].pc \in Holding,
         \/ caller'[c].pc \notin Holding
         \/ caller'[c].pc = "freeze_charged" /\ rec'.status = COMPLETED /\ "lost" \in Faults,
         caller'[c].pc # "freeze_again",
         rec.status = PROCESSING \/ rec'.status = PENDING,
         caller'[c].pc = "idle" \/ caller'[c].claim = caller[c].claim,
         \A d \in Callers : d # c => caller'[d] = caller[d],
         rec'.status \in {FAILED, COMPLETED, PENDING},
         rec'.claimedAt = rec.claimedAt, rec'.attempts = rec.attempts,
         rec'.status = FAILED => orders = <<>> \/ caller'[c].pc = "freeze_timeout",
         caller'[c].pc = "freeze_timeout" => rec'.status = FAILED /\ "timeout" \in Faults,
         rec'.status = COMPLETED => orders # <<>>,
         caller'[c].pc = "suspend" =>
           rec'.status = PENDING /\ caller'[c].extra = rec.attempts /\ orders # <<>>,
         books'.settled = books.settled,
         \/ books'.open = books.open /\ (rec'.status # PENDING \/ ~BooksObey)
         \/ books'.open = {rec.attempts} /\ rec'.status = PENDING
         \/ books'.open = {} /\ Ledger!Sold(books')
  PROVE  OnceInv'
<1> USE DEF OnceInv
<1>a. /\ now \in Nat /\ rec.claimedAt \in Nat /\ rec.attempts \in Nat
      /\ books.settled \subseteq Nat
  BY DEF IInv, TypeOK, Record
<1>b. /\ rec.status \in {PROCESSING, COMPLETED}
      /\ \A d \in Callers : d # c => caller[d].pc \notin Holding
  BY DEF OneHolder
<1>c. /\ PROCESSING \notin {"none", FAILED, COMPLETED, PENDING} /\ PENDING \notin {"none", FAILED, COMPLETED}
      /\ FAILED \notin {"none", COMPLETED} /\ COMPLETED # "none"
  BY DEF PROCESSING, FAILED, COMPLETED, PENDING
<1>d. books.open = {} /\ \A a \in books.settled : a < rec.attempts
  BY <1>a, <1>b, <1>c DEF SuspenseIsFrozen
<1>1. AtMostOneCharge'
  BY DEF AtMostOneCharge
<1>2. Timely'
  BY DEF Timely, Holding
<1>3. OneHolder'
  BY <1>b DEF OneHolder
<1>4. NotYetCharged'
  BY <1>b, <1>c DEF BooksObey, NotYetCharged, Holding, Freezing
<1>5. OrdersAreTimely'
  BY <1>b DEF OrdersAreTimely, Holding
<1>6. SweepsFrozen'
  BY <1>b, <1>c DEF SweepsFrozen
<1>7. SuspenseIsFrozen'
  BY <1>a, <1>c, <1>d DEF SuspenseIsFrozen
<1>8. Exposed'
  BY <1>c, <1>d DEF Exposed, BooksObey, UnknownIsInSuspense
<1>9. \A d \in Callers : caller'[d].pc = "freeze_timeout" => d = c
  BY <1>b, <1>c DEF FreezesAlone, Freezing
<1>10. FreezesAlone' /\ SuspendsACharge'
  BY <1>b, <1>c, <1>d, <1>9 DEF FreezesAlone, Freezing, SuspendsACharge
<1> QED
  BY <1>1, <1>2, <1>3, <1>4, <1>5, <1>6, <1>7, <1>8, <1>10

(* A status change leaves the other fields of the record alone.            *)
LEMMA StampedKeeps ==
  ASSUME rec \in Record, NEW s
  PROVE  /\ Stamped(s).status = s /\ Stamped(s).claimedAt = rec.claimedAt
         /\ Stamped(s).attempts = rec.attempts
BY DEF Stamped, Record

(* The outcome of the stale claim is unknown: frozen, and in suspense.     *)
LEMMA OnceFreezeHeld ==
  ASSUME Mild, IInv, TypeOK', OnceInv, NEW c \in Callers, FreezeHeldClaim(c)
  PROVE  OnceInv'
<1>a. /\ caller \in [Callers -> CallerState] /\ rec \in Record /\ books \in Book
      /\ rec.attempts \in Nat
  BY DEF IInv, TypeOK, Record, Book
<1>b. /\ UNCHANGED <<now, orders, recon>> /\ caller[c].pc = "freeze_held"
      /\ CallerEnds(c) \/ CallerGoes(c, "release")
  BY DEF FreezeHeldClaim, AnswerLost, At
<1>1. caller[c].pc \in Holding /\ "idle" \notin Holding /\ "release" \notin Holding
  BY <1>b DEF Holding
<1>2. StillHeld(c)
  BY <1>b, <1>1 DEF OnceInv, OneHolder, StillHeld
<1>3. /\ rec' = Stamped(PENDING)
      /\ \/ books' = Ledger!AfterUnverified(books, rec.attempts)
         \/ books' = books /\ ~BooksObey
  BY <1>2 DEF FreezeHeldClaim, BooksObey
<1>4. /\ rec'.status = PENDING /\ rec'.claimedAt = rec.claimedAt
      /\ rec'.attempts = rec.attempts
  BY <1>a, <1>3, StampedKeeps
<1>5. books.open = {} /\ rec.attempts \notin books.settled
  BY <1>a, <1>2 DEF OnceInv, SuspenseIsFrozen, StillHeld, PROCESSING, PENDING, FAILED
<1>6. CASE books' = books /\ (Ledger!Sold(books) \/ ~BooksObey)
  BY <1>a, <1>b, <1>1, <1>4, <1>5, <1>6, GoesHome, GoesOn, KeySettled
     DEF PENDING, FAILED, COMPLETED
<1>7. CASE ~Ledger!Sold(books) /\ books' = Ledger!AfterUnverified(books, rec.attempts)
  <2>1. books'.open = {rec.attempts} /\ books'.settled = books.settled
    BY <1>a, <1>5, <1>7 DEF Ledger!AfterUnverified, Book
  <2> QED
    BY <1>a, <1>b, <1>1, <1>4, <2>1, GoesHome, GoesOn, KeySettled
       DEF PENDING, FAILED, COMPLETED
<1> QED
  BY <1>3, <1>6, <1>7 DEF Ledger!AfterUnverified

(* A refused charge: the key is open to a retry.  After a time-out it is   *)
(* called failed too, and then frozen.                                     *)
LEMMA OnceAbandon ==
  ASSUME Mild, IInv, TypeOK', OnceInv, NEW c \in Callers, Abandon(c)
  PROVE  /\ OnceInv' /\ UNCHANGED orders /\ (caller[c].pc = "abandon_timeout" => "timeout" \in Faults)
         /\ \/ rec' = rec
            \/ rec' = Stamped(FAILED) /\ caller[c].pc \in {"abandon_failure", "abandon_timeout"}
<1>a. caller \in [Callers -> CallerState] /\ rec \in Record
  BY DEF IInv, TypeOK
<1>1. caller[c].pc = "abandon_timeout" =>
        "timeout" \in Faults /\ Faults \cap {"db", "lost"} = {}
  BY DEF OnceInv, Timely, Mild
<1>2. /\ UNCHANGED <<now, books, orders, recon>>
      /\ \/ /\ caller[c].pc = "abandon_failure" /\ CallerGoes(c, "release")
            /\ rec' = rec \/ rec' = Stamped(FAILED)
         \/ /\ caller[c].pc = "abandon_timeout" /\ CallerGoes(c, "freeze_timeout")
            /\ rec' = Stamped(FAILED)
  BY <1>1 DEF Abandon, AnswerLost, At
<1>3. caller[c].pc \in Holding /\ {"release", "freeze_timeout"} \cap Holding = {}
  BY <1>2 DEF Holding
<1>4. caller[c].pc = "abandon_failure" => orders = <<>>
  BY DEF OnceInv, NotYetCharged
<1>5. /\ Stamped(FAILED).status = FAILED /\ Stamped(FAILED).claimedAt = rec.claimedAt
      /\ Stamped(FAILED).attempts = rec.attempts
      /\ rec.status = PROCESSING
  BY <1>a, <1>2, StampedKeeps DEF OnceInv, OneHolder, Holding
<1>6. CASE caller[c].pc = "abandon_failure" /\ CallerGoes(c, "release") /\ rec' = Stamped(FAILED)
  BY <1>a, <1>2, <1>3, <1>4, <1>5, <1>6, GoesOn, KeySettled DEF PENDING, FAILED, COMPLETED
<1>7. CASE caller[c].pc = "abandon_timeout" /\ CallerGoes(c, "freeze_timeout")
  BY <1>a, <1>1, <1>2, <1>3, <1>5, <1>7, GoesOn, KeySettled DEF PENDING, FAILED, COMPLETED
<1>8. CASE caller[c].pc = "abandon_failure" /\ CallerGoes(c, "release") /\ rec' = rec
  BY <1>a, <1>2, <1>3, <1>8, GoesOn, ThreadMoves DEF Freezing
<1> QED
  BY <1>1, <1>2, <1>6, <1>7, <1>8

(* The handler freezes what timed out, and puts the attempt in suspense.   *)
LEMMA OnceFreezeTimeout ==
  ASSUME Mild, IInv, TypeOK', OnceInv, NEW c \in Callers, FreezeTimeout(c)
  PROVE  OnceInv'
<1> USE DEF OnceInv
<1>a. /\ caller \in [Callers -> CallerState] /\ rec \in Record /\ books \in Book
      /\ rec.attempts \in Nat /\ books.settled \subseteq Nat
  BY DEF IInv, TypeOK, Record, Book
<1>b. /\ UNCHANGED <<now, orders, recon>> /\ Freezing(c) /\ CallerEnds(c)
      /\ rec' = Stamped(PENDING)
      /\ \/ books' = Ledger!AfterUnverified(books, rec.attempts)
         \/ books' = books /\ ~BooksObey
  BY DEF FreezeTimeout, AnswerLost, At, Freezing, Timely, Mild, BooksObey
<1>c. /\ PENDING \notin {"none", FAILED, COMPLETED, PROCESSING}
      /\ FAILED \notin {"none", PROCESSING, COMPLETED}
  BY DEF PROCESSING, FAILED, COMPLETED, PENDING
<1>1. /\ rec'.status = PENDING /\ rec'.claimedAt = rec.claimedAt
      /\ rec'.attempts = rec.attempts
  BY <1>a, <1>b, StampedKeeps
<1>2. /\ rec.status = FAILED /\ \A a \in books.settled : a < rec.attempts
      /\ \A d \in Callers : Freezing(d) => d = c
  BY <1>b DEF FreezesAlone
<1>3. books.open = {} /\ rec.attempts \notin books.settled
  BY <1>a, <1>c, <1>2 DEF SuspenseIsFrozen
<1>4. /\ books'.settled = books.settled
      /\ \/ books'.open = {rec.attempts}
         \/ books'.open = {} /\ (Ledger!Sold(books') \/ ~BooksObey)
  BY <1>a, <1>b, <1>3 DEF Ledger!AfterUnverified, Book
<1>5. caller'[c].pc = "idle" /\ \A d \in Callers : d # c => caller'[d] = caller[d]
  BY <1>a, <1>b, GoesHome
<1>6. \A d \in Callers : caller[d].pc \notin Holding
  BY <1>c, <1>2 DEF OneHolder
<1>7. \A d \in Callers : caller'[d].pc \notin Holding \cup {"freeze_timeout"}
  BY <1>2, <1>5, <1>6 DEF Freezing, Holding
<1>8. AtMostOneCharge' /\ Exposed'
  BY <1>b, <1>1, <1>4 DEF AtMostOneCharge, Exposed, BooksObey, UnknownIsInSuspense
<1>9. Timely'
  BY <1>b, <1>5 DEF Timely
<1>10. OneHolder' /\ FreezesAlone'
  BY <1>7 DEF OneHolder, FreezesAlone, Freezing
<1>11. NotYetCharged' /\ OrdersAreTimely'
  BY <1>b, <1>c, <1>1, <1>7 DEF BooksObey, NotYetCharged, OrdersAreTimely, Holding
<1>12. SweepsFrozen' /\ SuspenseIsFrozen'
  BY <1>a, <1>b, <1>c, <1>1, <1>2, <1>4 DEF SweepsFrozen, SuspenseIsFrozen
<1>13. SuspendsACharge'
  BY <1>b, <1>1, <1>5 DEF SuspendsACharge
<1> QED
  BY <1>8, <1>9, <1>10, <1>11, <1>12, <1>13

(* A holder's sale agrees with the books: they know no other payload.      *)
LEMMA NoConflict ==
  ASSUME IInv, NEW c \in Callers, caller[c].pc \in Working
  PROVE  ~Ledger!SaleConflicts(books, PriceOf[c])
BY DEF IInv, WorksOnItsPayload, SaleIsBacked, OnlyTheFirstPayload, Ledger!SaleConflicts

(* The charge that was made, or found made, is recorded, or that fails.    *)
LEMMA OnceComplete ==
  ASSUME Mild, IInv, TypeOK', OnceInv, NEW c \in Callers, Complete(c)
  PROVE  /\ OnceInv' /\ UNCHANGED orders
         /\ \/ rec' = rec
            \/ rec.status = PROCESSING /\ rec' = Stamped(COMPLETED) /\ orders # <<>>
<1>a. /\ caller \in [Callers -> CallerState] /\ rec \in Record /\ books \in Book
  BY DEF IInv, TypeOK, Book
<1>b. UNCHANGED <<now, orders, recon>> /\ caller[c].pc \in {"complete", "recover"}
  BY DEF Complete, At
<1>1. caller[c].pc \in Holding /\ "confirm" \notin Holding /\ rec.status = PROCESSING
  BY <1>b DEF OnceInv, OneHolder, Holding
<1>2. orders # <<>>
  BY <1>b DEF IInv, CompletesACharge
<1>3. CASE /\ CompleteWithSale(PriceOf[c])
           /\ CallerGoes(c, "confirm") \/ AnswerLost(c, "freeze_charged")
  <2>1. rec' = Stamped(COMPLETED) /\ books' = Ledger!AfterSale(books, PriceOf[c])
    BY <1>3 DEF CompleteWithSale
  <2>2. /\ rec'.status = COMPLETED /\ rec'.claimedAt = rec.claimedAt
        /\ rec'.attempts = rec.attempts
    BY <1>a, <2>1, StampedKeeps
  <2>3. books'.open = books.open /\ books'.settled = books.settled
    <3>1. books.open = {}
      BY <1>1 DEF OnceInv, SuspenseIsFrozen, PROCESSING, PENDING
    <3> QED
      BY <1>a, <2>1, <3>1 DEF Ledger!AfterSale, Book
  <2>4. \/ CallerGoes(c, "confirm")
        \/ CallerGoes(c, "freeze_charged") /\ "lost" \in Faults
    BY <1>3 DEF AnswerLost
  <2> QED
    BY <1>a, <1>b, <1>1, <1>2, <2>1, <2>2, <2>3, <2>4, GoesOn, KeySettled
       DEF PENDING, FAILED, COMPLETED
<1>4. CASE /\ CompletionCanFail(PriceOf[c]) /\ CallerGoes(c, "freeze_charged")
           /\ UNCHANGED <<rec, books>>
  <2>1. ~BooksObey
    BY <1>b, <1>4, NoConflict DEF CompletionCanFail, BooksObey, Working, CallerPC
  <2> QED
    BY <1>a, <1>b, <1>1, <1>2, <1>4, <2>1, GoesOn, ThreadMoves DEF Freezing
<1> QED
  BY <1>b, <1>3, <1>4 DEF Complete

(* What could not be recorded is frozen; the posting follows.              *)
LEMMA OnceFreezeCharged ==
  ASSUME Mild, IInv, TypeOK', OnceInv, NEW c \in Callers, FreezeCharged(c)
  PROVE  /\ OnceInv' /\ UNCHANGED orders
         /\ rec' = rec \/ rec' = Stamped(PENDING)
         /\ rec.status = PROCESSING \/ (rec.status = COMPLETED /\ "lost" \in Faults)
<1>a. caller \in [Callers -> CallerState] /\ rec \in Record
  BY DEF IInv, TypeOK
<1>b. UNCHANGED <<now, books, orders, recon>> /\ caller[c].pc = "freeze_charged"
  BY DEF FreezeCharged, At
<1>1. /\ caller[c].pc \in Holding /\ {"idle", "suspend"} \cap Holding = {}
      /\ rec.status = PROCESSING \/ (rec.status = COMPLETED /\ "lost" \in Faults)
  BY <1>b DEF OnceInv, OneHolder, Holding
<1>2. CASE /\ rec' = Stamped(PENDING)
           /\ \/ caller' = [caller EXCEPT ![c].pc = "suspend", ![c].extra = rec.attempts]
              \/ CallerEnds(c)
  <2>1. /\ rec'.status = PENDING /\ rec'.claimedAt = rec.claimedAt
        /\ rec'.attempts = rec.attempts
    BY <1>a, <1>2, StampedKeeps
  <2>2. /\ \/ caller'[c].pc = "idle"
           \/ /\ caller'[c].pc = "suspend" /\ caller'[c].claim = caller[c].claim
              /\ caller'[c].extra = rec.attempts
        /\ \A d \in Callers : d # c => caller'[d] = caller[d]
    BY <1>a, <1>2, GoesHome DEF CallerState
  <2>3. orders # <<>> /\ ~BooksObey
    BY <1>b DEF OnceInv, NotYetCharged, SuspendsACharge
  <2> QED
    BY <1>b, <1>1, <1>2, <2>1, <2>2, <2>3, KeySettled DEF PENDING, FAILED, COMPLETED
<1>3. CASE CallerEnds(c) /\ UNCHANGED rec
  BY <1>a, <1>b, <1>1, <1>3, GoesHome, ThreadMoves DEF Freezing
<1> QED
  BY <1>b, <1>1, <1>2, <1>3 DEF FreezeCharged

(* The posting of a frozen attempt, which a sweep may have settled.        *)
LEMMA OnceSuspend ==
  ASSUME Mild, IInv, TypeOK', OnceInv, NEW c \in Callers, SuspendAlone(c)
  PROVE  OnceInv'
<1> USE DEF OnceInv
<1>a. /\ caller \in [Callers -> CallerState] /\ rec \in Record /\ books \in Book
      /\ rec.attempts \in Nat /\ books.settled \subseteq Nat
  BY DEF IInv, TypeOK, Record, Book
<1>b. /\ UNCHANGED <<now, rec, orders, recon>> /\ caller[c].pc = "suspend" /\ CallerEnds(c)
      /\ books' = Ledger!AfterUnverified(books, caller[c].extra) \/ books' = books
  BY DEF SuspendAlone, At
<1>1. caller'[c].pc = "idle" /\ \A d \in Callers : d # c => caller'[d] = caller[d]
  BY <1>a, <1>b, GoesHome
<1>2. /\ rec.status \in {PENDING, COMPLETED} /\ caller[c].extra = rec.attempts
      /\ orders # <<>>
  BY <1>b DEF SuspendsACharge
<1>c. {PENDING, COMPLETED} \cap {"none", FAILED, PROCESSING} = {} /\ PENDING # COMPLETED
  BY DEF PROCESSING, FAILED, COMPLETED, PENDING
<1>3. rec.status = COMPLETED => Ledger!Sold(books)
  BY DEF IInv, CompletedHasSale
<1>4. /\ books'.settled = books.settled /\ books'.sold = books.sold
      /\ \/ books'.open = books.open
         \/ books'.open = books.open \cup {rec.attempts} /\ rec.status = PENDING
  BY <1>a, <1>b, <1>2, <1>3 DEF Ledger!AfterUnverified, Book
<1>5. AtMostOneCharge' /\ Exposed'
  BY <1>b, <1>4 DEF AtMostOneCharge, Exposed, BooksObey, UnknownIsInSuspense, Ledger!Sold
<1>6. Timely' /\ OneHolder'
  BY <1>b, <1>1 DEF Timely, OneHolder, Holding
<1>7. NotYetCharged' /\ OrdersAreTimely'
  BY <1>b, <1>1, <1>2 DEF BooksObey, NotYetCharged, OrdersAreTimely, Freezing
<1>8. SweepsFrozen' /\ SuspenseIsFrozen'
  BY <1>b, <1>4 DEF SweepsFrozen, SuspenseIsFrozen, CaughtUp
<1>9. FreezesAlone' /\ SuspendsACharge'
  BY <1>b, <1>1, <1>4 DEF FreezesAlone, Freezing, SuspendsACharge
<1> QED
  BY <1>5, <1>6, <1>7, <1>8, <1>9

(* The old claim charged nothing: it is renewed before the charge.         *)
LEMMA OnceRenew ==
  ASSUME Mild, IInv, TypeOK', OnceInv, NEW c \in Callers, RenewClaim(c)
  PROVE  OnceInv' /\ rec'.status = rec.status
<1> USE DEF OnceInv
<1>a. /\ caller \in [Callers -> CallerState] /\ rec \in Record /\ now \in Nat
      /\ rec.attempts \in Nat /\ rec.claimedAt \in Nat /\ caller[c].claim \in Nat
  BY DEF IInv, TypeOK, Record, CallerState
<1>b. UNCHANGED <<now, orders, recon, books>> /\ caller[c].pc = "renew"
  BY DEF RenewClaim, At
<1>1. StillHeld(c)
  BY <1>b DEF OneHolder, StillHeld, Holding
<1>2. /\ rec' = [rec EXCEPT !.claimedAt = now]
      /\ \/ caller' = [caller EXCEPT ![c] = [pc |-> "charge", claim |-> now, extra |-> 0]]
         \/ CallerGoes(c, "release")
  BY <1>1 DEF RenewClaim, AnswerLost
<1>3. /\ rec'.status = rec.status /\ rec'.claimedAt = now /\ rec'.attempts = rec.attempts
      /\ \/ caller'[c].pc = "charge" /\ caller'[c].claim = now
         \/ caller'[c].pc = "release" /\ caller'[c].claim = caller[c].claim
      /\ \A d \in Callers : d # c => caller'[d] = caller[d]
  BY <1>a, <1>2, GoesOn DEF Record, CallerState
<1>4. /\ rec.status = PROCESSING /\ orders = <<>>
      /\ \A d \in Callers : d # c => caller[d].pc \notin Holding
  BY <1>b DEF OneHolder, NotYetCharged, Holding
<1>5. PROCESSING \notin {"none", FAILED, COMPLETED, PENDING}
  BY DEF PROCESSING, FAILED, COMPLETED, PENDING
<1>6. AtMostOneCharge' /\ Exposed'
      /\ FreezesAlone' /\ SuspendsACharge'
  BY <1>b, <1>3, <1>4, <1>5 DEF AtMostOneCharge, Exposed, BooksObey,
     UnknownIsInSuspense, SuspendsACharge, FreezesAlone, Freezing
<1>7. Timely'
  BY <1>a, <1>b, <1>3, PurchaseAssumption DEF Timely
<1>8. OneHolder'
  BY <1>3, <1>4 DEF OneHolder, Holding
<1>9. NotYetCharged' /\ OrdersAreTimely'
  BY <1>b, <1>3, <1>4, <1>5 DEF BooksObey, NotYetCharged, OrdersAreTimely
<1>10. SweepsFrozen' /\ SuspenseIsFrozen'
  BY <1>b, <1>3, <1>4, <1>5 DEF SweepsFrozen, SuspenseIsFrozen
<1> QED
  BY <1>3, <1>6, <1>7, <1>8, <1>9, <1>10

(* The charge, whether it is answered or not: the provider had none, and   *)
(* its order is placed in time.                                            *)
LEMMA OnceCharge ==
  ASSUME Mild, IInv, TypeOK', OnceInv, NEW c \in Callers,
         NEW p \in {"complete", "abandon_timeout"},
         p = "abandon_timeout" => "timeout" \in Faults,
         At(c, "charge"), PlaceOrder(c), CallerGoes(c, p),
         UNCHANGED <<now, submits, rec, slot, books, recon, flagged>>
  PROVE  OnceInv' /\ rec.status = PROCESSING /\ orders = <<>> /\ Len(orders') = 1
<1> USE DEF OnceInv
<1>a. /\ caller \in [Callers -> CallerState] /\ rec \in Record /\ now \in Nat
      /\ rec.claimedAt \in Nat
  BY DEF IInv, TypeOK, Record
<1>b. /\ UNCHANGED <<now, rec, recon, books>> /\ caller[c].pc = "charge"
  BY DEF At
<1>1. /\ orders = <<>> /\ caller[c].pc \in Holding /\ rec.status = PROCESSING
      /\ rec.claimedAt = caller[c].claim
      /\ \A d \in Callers : d # c => caller[d].pc \notin Holding
  BY <1>b DEF OneHolder, NotYetCharged, Holding
<1>2. orders' = <<[amount |-> PriceOf[c], at |-> now]>>
  BY <1>1 DEF PlaceOrder
<1>3. Len(orders') = 1 /\ DOMAIN orders' = {1} /\ orders'[1].at = now
  BY <1>2
<1>4. now < rec.claimedAt + StaleAfter
  BY <1>b, <1>1 DEF Timely
<1>5. /\ caller'[c].pc = p /\ caller'[c].claim = caller[c].claim
      /\ \A d \in Callers : d # c => caller'[d] = caller[d]
  BY <1>a, <1>b, GoesOn
<1>6. PROCESSING \notin {"none", FAILED, COMPLETED, PENDING}
  BY DEF PROCESSING, FAILED, COMPLETED, PENDING
<1>7. AtMostOneCharge' /\ Exposed'
      /\ FreezesAlone' /\ SuspendsACharge'
  BY <1>b, <1>1, <1>3, <1>5, <1>6
     DEF AtMostOneCharge, Exposed, BooksObey, UnknownIsInSuspense, SuspendsACharge,
        FreezesAlone, Freezing
<1>8. Timely'
  BY <1>b, <1>5 DEF Timely
<1>9. OneHolder'
  BY <1>b, <1>1, <1>5 DEF OneHolder
<1>10. NotYetCharged'
  BY <1>b, <1>1, <1>5, <1>6 DEF BooksObey, NotYetCharged, Holding
<1>11. OrdersAreTimely'
  BY <1>b, <1>1, <1>3, <1>4, <1>5 DEF OrdersAreTimely, Holding
<1>12. SweepsFrozen' /\ SuspenseIsFrozen'
  BY <1>b, <1>1, <1>6 DEF SweepsFrozen, SuspenseIsFrozen
<1> QED
  BY <1>1, <1>3, <1>7, <1>8, <1>9, <1>10, <1>11, <1>12

(* Time passes only while the threads' claims are young and no sweep has   *)
(* an answer to act upon.                                                  *)
LEMMA OnceTick ==
  ASSUME Mild, IInv, TypeOK', OnceInv, Tick
  PROVE  OnceInv'
<1> USE DEF OnceInv
<1>a. now \in Nat /\ caller \in [Callers -> CallerState] /\ now' = now + 1
      /\ UNCHANGED <<rec, books, orders, caller, recon>>
  BY DEF IInv, TypeOK, Tick
<1>b. /\ \A r \in Reconcilers : recon[r].pc # "act"
      /\ \A c \in Callers : caller[c].pc = "idle" \/ now + 1 < caller[c].claim + StaleAfter
  BY DEF Tick, Mild, At
<1>1. Timely'
  <2> SUFFICES ASSUME NEW c \in Callers
               PROVE  /\ caller[c].pc \in {"abandon_timeout", "freeze_timeout"} =>
                           "timeout" \in Faults
                      /\ caller[c].pc # "freeze_again"
                      /\ caller[c].pc # "idle" =>
                           caller[c].claim <= now + 1 /\ now + 1 < caller[c].claim + StaleAfter
    BY <1>a DEF Timely
  <2>1. caller[c].claim \in Nat
    BY <1>a DEF CallerState
  <2> QED
    BY <1>a, <1>b, <2>1 DEF Timely
<1>2. SweepsFrozen'
  BY <1>a, <1>b DEF SweepsFrozen
<1>3. AtMostOneCharge' /\ OneHolder' /\ NotYetCharged' /\ OrdersAreTimely'
      /\ SuspenseIsFrozen' /\ Exposed'
      /\ FreezesAlone' /\ SuspendsACharge'
  BY <1>a DEF AtMostOneCharge, OneHolder, NotYetCharged, BooksObey, OrdersAreTimely,
         SuspenseIsFrozen, Exposed, BooksObey, UnknownIsInSuspense, SuspendsACharge,
         FreezesAlone, Freezing, Ledger!Sold
<1> QED
  BY <1>1, <1>2, <1>3

(* The threads' steps that leave everything else alone.                    *)
LEMMA OnceQuietThread ==
  ASSUME Mild, IInv, TypeOK', OnceInv, NEW c \in Callers,
         \/ Submit(c) \/ VerifyStale(c) \/ VerifyUnanswered(c) \/ ChargeRefused(c)
         \/ ConfirmSlot(c) \/ ReleaseSlot(c) \/ AuditFails(c) \/ StoreFails(c)
         \/ CallerCrashes(c)
  PROVE  OnceInv' /\ UNCHANGED <<rec, orders>>
<1>a. caller \in [Callers -> CallerState]
  BY DEF IInv, TypeOK
<1>1. CASE Submit(c)
  <2>1. /\ caller'[c].pc = "idle" \/ (caller'[c].pc = "claim" /\ caller'[c].claim = now)
        /\ \A d \in Callers : d # c => caller'[d] = caller[d]
    BY <1>a, <1>1 DEF Submit, At, CallerState
  <2> QED
    BY <1>1, <2>1, ThreadMoves DEF Submit, At, Freezing
<1>2. CASE VerifyStale(c) /\ CallerGoes(c, "renew") /\ caller[c].pc = "verify"
  <2>1. PICK S \in Listings({now}) : S = {} /\ CaughtUp(caller[c].extra)
    <3>1. "slow" \notin Faults
      BY DEF Mild
    <3>2. ~CallerGoes(c, "recover") /\ ~CallerGoes(c, "freeze_held")
      BY <1>a, <1>2, GoesOn
    <3> QED
      BY <1>2, <3>1, <3>2 DEF VerifyStale
  <2>2. orders = <<>>
    <3>1. caller[c].extra \in Nat
      BY <1>a DEF CallerState
    <3>2. \A i \in DOMAIN orders : orders[i].at < caller[c].extra + StaleAfter
      BY <1>2 DEF OnceInv, OrdersAreTimely
    <3> QED
      BY <2>1, <3>1, <3>2, EmptyMeansNotCharged DEF IInv
  <2> QED
    BY <1>a, <1>2, <2>2, GoesOn, ThreadMoves
       DEF VerifyStale, Holding, Freezing
<1>3. CASE /\ VerifyStale(c) \/ VerifyUnanswered(c)
           /\ CallerGoes(c, "recover") \/ CallerGoes(c, "freeze_held")
           /\ caller[c].pc = "verify"
  BY <1>a, <1>3, GoesOn, ThreadMoves
     DEF VerifyStale, VerifyUnanswered, Holding, Freezing
<1>4. CASE ChargeRefused(c) \/ (AuditFails(c) /\ CallerGoes(c, "abandon_failure")
                                 /\ caller[c].pc = "charge")
  <2>1. caller[c].pc = "charge" /\ CallerGoes(c, "abandon_failure")
    BY <1>4 DEF ChargeRefused, At
  <2>2. orders = <<>>
    BY <2>1 DEF OnceInv, NotYetCharged
  <2> QED
    BY <1>a, <1>4, <2>1, <2>2, GoesOn, ThreadMoves
       DEF ChargeRefused, AuditFails, Holding, Freezing
<1>5. CASE /\ \/ ConfirmSlot(c) \/ ReleaseSlot(c) \/ AuditFails(c) \/ StoreFails(c)
              \/ CallerCrashes(c)
           /\ CallerEnds(c)
  <2>1. ~Freezing(c)
    BY <1>5 DEF ConfirmSlot, ReleaseSlot, AuditFails, StoreFails, CallerCrashes, At,
       Freezing,
                Mild, OnceInv, Timely
  <2> QED
    BY <1>a, <1>5, <2>1, GoesHome, ThreadMoves
       DEF ConfirmSlot, ReleaseSlot, AuditFails, StoreFails, CallerCrashes
<1>6. CASE StoreFails(c) /\ CallerGoes(c, "release")
  <2>1. caller[c].pc \in {"claim", "renew", "freeze_held"}
    <3>1. ~CallerEnds(c)
      BY <1>a, <1>6, GoesOn, GoesHome
    <3> QED
      BY <1>6, <3>1 DEF StoreFails, At
  <2> QED
    BY <1>a, <1>6, <2>1, GoesOn, ThreadMoves DEF StoreFails, Holding, Freezing
<1> QED
  BY <1>1, <1>2, <1>3, <1>4, <1>5, <1>6
     DEF VerifyStale, VerifyUnanswered, AuditFails, ConfirmSlot, ReleaseSlot, StoreFails,
         CallerCrashes, At

(* The sweep settles a frozen key as its answer says.                      *)
LEMMA FrozenSettled ==
  ASSUME Mild, IInv, OnceInv, UNCHANGED <<now, orders, caller>>,
         rec.status = PENDING, rec'.status \in {FAILED, COMPLETED},
         rec'.claimedAt = rec.claimedAt, rec'.attempts = rec.attempts,
         rec'.status = FAILED => orders = <<>>,
         rec'.status = COMPLETED => orders # <<>>,
         \A r \in Reconcilers : recon'[r].pc \notin {"get", "ask", "act"},
         books'.open = {},
         \/ books'.settled = books.settled
         \/ rec'.status = FAILED /\ books'.settled = books.settled \cup {rec.attempts}
  PROVE  OnceInv'
<1> USE DEF OnceInv
<1>a. rec.attempts \in Nat /\ books.settled \subseteq Nat
  BY DEF IInv, TypeOK, Record
<1>b. /\ PENDING \notin {"none", FAILED, COMPLETED, PROCESSING}
      /\ FAILED \notin {"none", COMPLETED} /\ COMPLETED # "none"
  BY DEF PROCESSING, FAILED, COMPLETED, PENDING
<1>c. \A c \in Callers : caller[c].pc \notin Holding
  BY <1>b DEF OneHolder
<1>1. AtMostOneCharge' /\ Timely' /\ OrdersAreTimely'
  BY DEF AtMostOneCharge, Timely, OrdersAreTimely
<1>2. OneHolder' /\ SweepsFrozen'
  BY <1>c DEF OneHolder, SweepsFrozen
<1>3. NotYetCharged'
  BY <1>b, <1>c DEF BooksObey, NotYetCharged, Holding
<1>4. SuspenseIsFrozen'
  BY <1>a, <1>b DEF SuspenseIsFrozen
<1>5. Exposed'
  BY <1>b DEF Exposed, BooksObey, UnknownIsInSuspense
<1>6. FreezesAlone' /\ SuspendsACharge'
  BY <1>b DEF FreezesAlone, Freezing, SuspendsACharge
<1> QED
  BY <1>1, <1>2, <1>3, <1>4, <1>5, <1>6

(* What a sweep about to act knows.                                        *)
LEMMA ActsOnFrozen ==
  ASSUME OnceInv, NEW r \in Reconcilers, recon[r].pc = "act"
  PROVE  /\ rec.status = PENDING /\ recon[r].row = rec
         /\ recon[r].seen = {} /\ CaughtUp(rec.claimedAt) => orders = <<>>
BY DEF OnceInv, SweepsFrozen

(* A sweep finds that nothing was charged.                                 *)
LEMMA OnceNotExecuted ==
  ASSUME Mild, IInv, OnceInv, NEW r \in Reconcilers, ConfirmNotExecuted(r)
  PROVE  /\ OnceInv' /\ rec.status = PENDING /\ rec' = Stamped(FAILED)
         /\ orders = <<>> /\ UNCHANGED orders /\ recon[r].pc = "act" /\ recon'[r].pc = "release"
<1>a. /\ recon \in [Reconcilers -> ReconState] /\ rec \in Record /\ books \in Book
  BY DEF IInv, TypeOK, Book
<1>b. UNCHANGED <<now, orders, caller>> /\ recon[r].pc = "act"
  BY DEF ConfirmNotExecuted
<1>1. /\ rec.status = PENDING /\ recon[r].row = rec /\ orders = <<>>
  BY <1>b, ActsOnFrozen DEF ConfirmNotExecuted
<1>2. /\ rec' = Stamped(FAILED) /\ books' = Ledger!AfterNotExecuted(books, rec.attempts)
      /\ recon' = [recon EXCEPT ![r] = [IdleRecon EXCEPT !.pc = "release"]]
  BY <1>1 DEF ConfirmNotExecuted, PENDING, FAILED, PROCESSING
<1>3. recon'[r].pc = "release"
  BY <1>a, <1>2 DEF IdleRecon
<1>4. \A q \in Reconcilers : recon'[q].pc \notin {"get", "ask", "act"}
  BY <1>3 DEF Mild
<1>5. rec.attempts \notin books.settled /\ books.open \subseteq {rec.attempts}
  BY <1>1 DEF OnceInv, SuspenseIsFrozen, PENDING, FAILED
<1>6. books'.open = {} /\ books'.settled = books.settled \cup {rec.attempts}
  BY <1>a, <1>2, <1>5 DEF Ledger!AfterNotExecuted, Book
<1>7. /\ rec'.status = FAILED /\ rec'.claimedAt = rec.claimedAt
      /\ rec'.attempts = rec.attempts
  BY <1>a, <1>2, StampedKeeps
<1>8. OnceInv'
  BY <1>b, <1>1, <1>4, <1>6, <1>7, FrozenSettled DEF FAILED, COMPLETED
<1> QED
  BY <1>b, <1>1, <1>2, <1>3, <1>8

(* A sweep finds the order.                                                *)
LEMMA OnceRepair ==
  ASSUME Mild, IInv, OnceInv, NEW r \in Reconcilers, RepairFromOrder(r)
  PROVE  /\ OnceInv' /\ rec.status = PENDING /\ rec' = Stamped(COMPLETED)
         /\ orders # <<>> /\ UNCHANGED orders /\ recon[r].pc = "act" /\ recon'[r].pc = "confirm"
<1>a. /\ recon \in [Reconcilers -> ReconState] /\ rec \in Record /\ books \in Book
      /\ orders \in Seq(Order)
  BY DEF IInv, TypeOK, Book
<1>b. UNCHANGED <<now, orders, caller>> /\ recon[r].pc = "act"
  BY DEF RepairFromOrder
<1>1. rec.status = PENDING /\ recon[r].row = rec
  BY <1>b, ActsOnFrozen
<1>2. /\ rec' = Stamped(COMPLETED)
      /\ recon' = [recon EXCEPT ![r] = [IdleRecon EXCEPT !.pc = "confirm"]]
  BY <1>1 DEF RepairFromOrder, PENDING, COMPLETED
<1>3. PICK i \in DOMAIN orders : OnlyOrder(recon[r].seen) = orders[i]
  BY OneOrderSeen DEF RepairFromOrder, IInv, SeenExist
<1>4. orders # <<>> /\ orders[i] \in Order
  BY <1>a, <1>3
<1>5. orders[i].amount \in Prices
  BY <1>4 DEF Order
<1>6. recon'[r].pc = "confirm"
  BY <1>a, <1>2 DEF IdleRecon
<1>7. \A q \in Reconcilers : recon'[q].pc \notin {"get", "ask", "act"}
  BY <1>6 DEF Mild
<1>8. books'.open = {} /\ books'.settled = books.settled
  <2>1. books' = Ledger!AfterSale(books, orders[i].amount)
    BY <1>3 DEF RepairFromOrder
  <2>2. Ledger!Sold(books) => books.open = {}
    BY DEF IInv, NoSuspenseOnceSold
  <2> QED
    BY <1>a, <2>1, <2>2 DEF Ledger!AfterSale, Book
<1>9. /\ rec'.status = COMPLETED /\ rec'.claimedAt = rec.claimedAt
      /\ rec'.attempts = rec.attempts
  BY <1>a, <1>2, StampedKeeps
<1>10. OnceInv'
  BY <1>b, <1>1, <1>4, <1>7, <1>8, <1>9, FrozenSettled DEF FAILED, COMPLETED
<1> QED
  BY <1>b, <1>1, <1>2, <1>4, <1>6, <1>10

(* A sweep's other steps.                                                  *)
LEMMA OnceQuietSweep ==
  ASSUME Mild, IInv, OnceInv, NEW r \in Reconcilers,
         \/ Pick(r) \/ ReadRecord(r) \/ AskProvider(r) \/ ProviderMute(r) \/ LeaveToHuman(r)
         \/ StillUnknown(r) \/ SettleSlot(r) \/ SweepFails(r) \/ SweepCrashes(r)
  PROVE  OnceInv' /\ UNCHANGED <<rec, orders>>
<1>a. recon \in [Reconcilers -> ReconState] /\ rec \in Record
  BY DEF IInv, TypeOK
<1>b. ASSUME ReconEnds(r) PROVE recon'[r].pc = "idle"
  BY <1>a, <1>b DEF ReconEnds, IdleRecon
<1>1. CASE Pick(r)
  <2>1. rec.status = PENDING /\ recon'[r].pc = "get"
    BY <1>a, <1>1, NothingToRepair DEF Pick, ReconState
  <2> QED
    BY <1>1, <2>1, SweepMoves DEF Pick
<1>2. CASE ReadRecord(r)
  <2>1. rec.status = PENDING
    BY <1>2 DEF ReadRecord, OnceInv, SweepsFrozen
  <2>2. recon'[r].pc = "ask" /\ recon'[r].row = rec
    BY <1>a, <1>2 DEF ReadRecord, ReconState
  <2> QED
    BY <1>2, <2>1, <2>2, SweepMoves DEF ReadRecord
<1>3. CASE AskProvider(r)
  <2>1. PICK S \in Listings({now}) :
          recon' = [recon EXCEPT ![r].pc = "act", ![r].seen = S]
    BY <1>3 DEF AskProvider
  <2>2. rec.status = PENDING /\ recon[r].row = rec
    BY <1>3 DEF AskProvider, OnceInv, SweepsFrozen
  <2>3. recon'[r].pc = "act" /\ recon'[r].seen = S /\ recon'[r].row = rec
    BY <1>a, <2>1, <2>2 DEF ReconState
  <2>4. ASSUME S = {}, CaughtUp(rec.claimedAt) PROVE orders = <<>>
    <3>1. rec.claimedAt \in Nat
      BY <1>a DEF Record
    <3>2. \A i \in DOMAIN orders : orders[i].at < rec.claimedAt + StaleAfter
      BY DEF OnceInv, OrdersAreTimely
    <3> QED
      BY <2>4, <3>1, <3>2, EmptyMeansNotCharged DEF IInv
  <2> QED
    BY <1>3, <2>2, <2>3, <2>4, SweepMoves DEF AskProvider
<1>4. CASE /\ ProviderMute(r) \/ LeaveToHuman(r) \/ StillUnknown(r) \/ SettleSlot(r)
              \/ SweepFails(r) \/ SweepCrashes(r)
           /\ ReconEnds(r)
  BY <1>b, <1>4, SweepMoves
     DEF ProviderMute, LeaveToHuman, StillUnknown, SettleSlot, SweepFails, SweepCrashes
<1> QED
  BY <1>1, <1>2, <1>3, <1>4
     DEF ProviderMute, LeaveToHuman, StillUnknown, SettleSlot, SweepFails, SweepCrashes

(* Nothing is charged, claimed or frozen at the start.                     *)
LEMMA OnceInit == Init => OnceInv
<1> SUFFICES ASSUME Init PROVE OnceInv
  OBVIOUS
<1>1. /\ orders = <<>> /\ rec.status = "none" /\ books.open = {} /\ books.settled = {}
      /\ \A c \in Callers : caller[c].pc = "idle"
      /\ \A r \in Reconcilers : recon[r].pc = "idle"
  BY DEF Init, NoRecord, IdleCaller, IdleRecon, Ledger!EmptyPosition
<1>2. PENDING # "none" /\ COMPLETED # "none"
  BY DEF PENDING, COMPLETED
<1>3. AtMostOneCharge /\ Timely /\ OneHolder /\ FreezesAlone
      /\ SuspendsACharge
  BY <1>1 DEF AtMostOneCharge, Timely, OneHolder, FreezesAlone, SuspendsACharge,
     Freezing, Holding
<1>4. NotYetCharged /\ OrdersAreTimely
  BY <1>1, <1>2 DEF BooksObey, NotYetCharged, OrdersAreTimely
<1>5. SweepsFrozen /\ SuspenseIsFrozen /\ Exposed
  BY <1>1, <1>2 DEF SweepsFrozen, SuspenseIsFrozen, Exposed, BooksObey, UnknownIsInSuspense
<1> QED
  BY <1>3, <1>4, <1>5 DEF OnceInv

(* How the promise sees the statuses.                                      *)
LEMMA StatusSeen ==
  /\ (rec.status \in {"none", FAILED} => RetryFinds = "open")
     /\ (rec.status = PROCESSING => RetryFinds = "taken")
     /\ (rec.status = PENDING => RetryFinds = "unknown")
     /\ (rec.status = COMPLETED => RetryFinds = "done")
  /\ (rec'.status \in {"none", FAILED} => RetryFinds' = "open")
     /\ (rec'.status = PROCESSING => RetryFinds' = "taken")
     /\ (rec'.status = PENDING => RetryFinds' = "unknown")
     /\ (rec'.status = COMPLETED => RetryFinds' = "done")
BY DEF RetryFinds, PROCESSING, FAILED, COMPLETED, PENDING

(* What a step may do to the key.                                          *)
Kept ==
  /\ [Promise!Next]_(Promise!vars)
  /\ rec.status = PENDING /\ rec'.status # PENDING =>
       \E r \in Reconcilers : recon[r].pc = "act" /\ recon'[r].pc # "act"
  /\ rec.status = COMPLETED /\ rec'.status # COMPLETED => "lost" \in Faults

(* A step that leaves the status and the orders alone does nothing to it.  *)
LEMMA QuietKept ==
  ASSUME rec'.status = rec.status, UNCHANGED orders
  PROVE  Kept
BY DEF Kept, RetryFinds, Promise!vars

(* Some orders, not more than one.                                         *)
LEMMA OnlyOne ==
  ASSUME orders \in Seq(Order), orders # <<>>, Len(orders) <= 1
  PROVE  Len(orders) = 1
<1>1. Len(orders) \in Nat /\ DOMAIN orders = 1 .. Len(orders)
  OBVIOUS
<1>2. DOMAIN orders = {} => orders = <<>>
  BY <1>1
<1> QED
  BY <1>1, <1>2

(* Nothing changes.                                                        *)
LEMMA OnceStill == ASSUME OnceInv, UNCHANGED vars PROVE OnceInv'
BY DEF vars, OnceInv, AtMostOneCharge, Timely, OneHolder, NotYetCharged, BooksObey,
   OrdersAreTimely,
       SweepsFrozen, CaughtUp, SuspenseIsFrozen, Exposed, BooksObey,
       UnknownIsInSuspense, SuspendsACharge, FreezesAlone, Freezing,
       Ledger!Sold

(* Every step that lets no retry in before the freeze keeps the invariant; *)
(* without time-outs it keeps the promise too.                             *)
LEMMA OnceStep ==
  ASSUME Mild, IInv, OnceInv, [Next]_vars, RetryRefused \/ UNCHANGED vars
  PROVE  OnceInv' /\ (Benign => Kept)
<1>a. TypeOK' /\ IInv'
  BY IInvStep DEF IInv
<1>b. /\ Faults \cap {"stall", "slow", "garbled"} = {}
      /\ Benign => "timeout" \notin Faults
  BY DEF Mild, Benign
<1>c. rec \in Record /\ orders \in Seq(Order)
  BY DEF IInv, TypeOK
<1>1. ASSUME NEW c \in Callers, Claim(c) PROVE OnceInv' /\ (Benign => Kept)
  <2>1. OnceInv'
    BY <1>a, <1>1, OnceClaim, OnceStill
  <2>2. UNCHANGED <<orders, recon>>
    BY <1>1 DEF Claim
  <2>3. CASE rec.status \in {"none", FAILED} /\ rec'.status = PROCESSING
    BY <2>1, <2>2, <2>3, StatusSeen DEF Kept, Promise!Next, Promise!Take, FAILED, PENDING,
       COMPLETED
  <2>4. CASE rec'.status = rec.status
    BY <2>1, <2>2, <2>4, QuietKept
  <2>5. Claimed(caller[c].claim).status = PROCESSING
    BY <1>c DEF Claimed, Record
  <2> QED
    BY <1>1, <2>3, <2>4, <2>5 DEF Claim, Retryable
<1>2. ASSUME NEW c \in Callers, FreezeHeldClaim(c) PROVE OnceInv' /\ (Benign => Kept)
  <2>1. OnceInv'
    BY <1>a, <1>2, OnceFreezeHeld
  <2>2. /\ rec.status = PROCESSING /\ UNCHANGED <<orders, recon>>
        /\ rec' = rec \/ rec' = Stamped(PENDING)
    BY <1>2 DEF FreezeHeldClaim, At, OnceInv, OneHolder, Holding
  <2>3. CASE rec'.status = PENDING
    BY <2>1, <2>2, <2>3, StatusSeen DEF Kept, Promise!Next, Promise!Doubt, PROCESSING,
       PENDING, COMPLETED
  <2> QED
    BY <1>c, <2>1, <2>2, <2>3, QuietKept, StampedKeeps
<1>3. ASSUME NEW c \in Callers, RenewClaim(c) PROVE OnceInv' /\ (Benign => Kept)
  BY <1>a, <1>3, OnceRenew, QuietKept DEF RenewClaim
<1>4. ASSUME NEW c \in Callers, ChargeAnswered(c) PROVE OnceInv' /\ (Benign => Kept)
  <2>1. OnceInv' /\ rec.status = PROCESSING /\ orders = <<>> /\ Len(orders') = 1 /\ rec' = rec
    BY <1>a, <1>4, OnceCharge DEF ChargeAnswered
  <2> QED
    BY <2>1, StatusSeen DEF Kept, Promise!Next, Promise!Charge, PROCESSING, PENDING, COMPLETED
<1>5. ASSUME NEW c \in Callers, Complete(c) PROVE OnceInv' /\ (Benign => Kept)
  <2>1. /\ OnceInv' /\ UNCHANGED orders
        /\ \/ rec' = rec
           \/ rec.status = PROCESSING /\ rec'.status = COMPLETED /\ orders # <<>>
    BY <1>a, <1>c, <1>5, OnceComplete, StampedKeeps
  <2>2. CASE rec.status = PROCESSING /\ rec'.status = COMPLETED /\ orders # <<>>
    <3>1. Len(orders) = 1
      BY <1>c, <2>2, OnlyOne DEF OnceInv, AtMostOneCharge
    <3> QED
      BY <2>1, <2>2, <3>1, StatusSeen DEF Kept, Promise!Next, Promise!Conclude,
         PROCESSING, PENDING, COMPLETED
  <2> QED
    BY <2>1, <2>2, QuietKept
<1>6. ASSUME NEW c \in Callers, Abandon(c) PROVE OnceInv' /\ (Benign => Kept)
  <2>1. /\ OnceInv' /\ UNCHANGED orders /\ (caller[c].pc = "abandon_timeout" => "timeout" \in Faults)
        /\ \/ rec' = rec
           \/ rec' = Stamped(FAILED) /\ caller[c].pc \in {"abandon_failure", "abandon_timeout"}
    BY <1>a, <1>6, OnceAbandon
  <2>2. ASSUME Benign, rec' # rec PROVE Kept
    <3>1. caller[c].pc = "abandon_failure" /\ rec' = Stamped(FAILED)
      BY <1>b, <2>1, <2>2
    <3>2. rec.status = PROCESSING /\ Len(orders) = 0 /\ rec'.status = FAILED
      BY <1>c, <3>1, StampedKeeps DEF OnceInv, OneHolder, NotYetCharged, Holding
    <3> QED
      BY <2>1, <3>1, <3>2, StatusSeen DEF Kept, Promise!Next, Promise!Absolve,
         PROCESSING, PENDING, COMPLETED
  <2> QED
    BY <2>1, <2>2, QuietKept
<1>7. ASSUME NEW c \in Callers,
             \/ Submit(c) \/ VerifyStale(c) \/ VerifyUnanswered(c) \/ ChargeRefused(c)
             \/ ConfirmSlot(c) \/ ReleaseSlot(c) \/ AuditFails(c) \/ StoreFails(c)
             \/ CallerCrashes(c)
      PROVE  OnceInv' /\ (Benign => Kept)
  BY <1>a, <1>7, OnceQuietThread, QuietKept
<1>8. ASSUME NEW c \in Callers, ChargeGarbled(c) PROVE FALSE
  BY <1>b, <1>8 DEF ChargeGarbled
<1>9. ASSUME NEW c \in Callers, FreezeCharged(c) PROVE OnceInv' /\ (Benign => Kept)
  <2>1. /\ OnceInv' /\ UNCHANGED orders
        /\ rec.status = PROCESSING \/ (rec.status = COMPLETED /\ "lost" \in Faults)
        /\ rec' = rec \/ rec'.status = PENDING
    BY <1>a, <1>c, <1>9, OnceFreezeCharged, StampedKeeps
  <2>2. CASE rec'.status = PENDING
    BY <2>1, <2>2, StatusSeen DEF Kept, Promise!Next, Promise!Doubt, PROCESSING, PENDING,
       COMPLETED
  <2> QED
    BY <2>1, <2>2, QuietKept
<1>10. ASSUME NEW c \in Callers, SuspendAlone(c) PROVE OnceInv' /\ (Benign => Kept)
  BY <1>a, <1>10, OnceSuspend, QuietKept DEF SuspendAlone
<1>11. ASSUME NEW c \in Callers, ChargeTimesOut(c) PROVE OnceInv' /\ (Benign => Kept)
  <2>1. "timeout" \in Faults /\ caller[c].pc = "charge" /\ CallerGoes(c, "abandon_timeout")
    BY <1>11 DEF ChargeTimesOut, At
  <2>2. CASE PlaceOrder(c)
    BY <1>a, <1>11, <2>1, <2>2, OnceCharge DEF ChargeTimesOut, Benign
  <2>3. CASE UNCHANGED orders
    <3>1. /\ caller'[c].pc = "abandon_timeout" /\ caller'[c].claim = caller[c].claim
          /\ caller'[c].extra = caller[c].extra
          /\ \A d \in Callers : d # c => caller'[d] = caller[d]
      BY <2>1, GoesOn DEF IInv, TypeOK
    <3> QED
      BY <1>a, <1>11, <2>1, <2>3, <3>1, ThreadMoves
         DEF ChargeTimesOut, Benign, Freezing, Holding
  <2> QED
    BY <1>11, <2>2, <2>3 DEF ChargeTimesOut
<1>12. ASSUME NEW c \in Callers, FreezeTimeout(c) PROVE OnceInv' /\ (Benign => Kept)
  <2>1. "timeout" \in Faults
    BY <1>12 DEF FreezeTimeout, At, OnceInv, Timely
  <2> QED
    BY <1>a, <1>12, <2>1, OnceFreezeTimeout DEF Benign
<1>13. ASSUME NEW r \in Reconcilers, ConfirmNotExecuted(r) PROVE OnceInv' /\ (Benign => Kept)
  <2>1. /\ OnceInv' /\ rec.status = PENDING /\ rec'.status = FAILED /\ Len(orders) = 0
        /\ UNCHANGED orders /\ recon[r].pc = "act" /\ recon'[r].pc # "act"
    BY <1>c, <1>13, OnceNotExecuted, StampedKeeps
  <2> QED
    BY <2>1, StatusSeen DEF Kept, Promise!Next, Promise!Absolve, PENDING, COMPLETED
<1>14. ASSUME NEW r \in Reconcilers, RepairFromOrder(r) PROVE OnceInv' /\ (Benign => Kept)
  <2>1. /\ OnceInv' /\ rec.status = PENDING /\ rec'.status = COMPLETED /\ orders # <<>>
        /\ UNCHANGED orders /\ recon[r].pc = "act" /\ recon'[r].pc # "act"
    BY <1>c, <1>14, OnceRepair, StampedKeeps
  <2>2. Len(orders) = 1
    BY <1>c, <2>1, OnlyOne DEF OnceInv, AtMostOneCharge
  <2> QED
    BY <2>1, <2>2, StatusSeen DEF Kept, Promise!Next, Promise!Conclude, PENDING, COMPLETED
<1>15. ASSUME NEW r \in Reconcilers,
              \/ Pick(r) \/ ReadRecord(r) \/ AskProvider(r) \/ ProviderMute(r) \/ LeaveToHuman(r)
              \/ StillUnknown(r) \/ SettleSlot(r) \/ SweepFails(r) \/ SweepCrashes(r)
       PROVE  OnceInv' /\ (Benign => Kept)
  BY <1>15, OnceQuietSweep, QuietKept
<1>16. CASE Tick
  BY <1>a, <1>16, OnceTick, QuietKept DEF Tick
<1>17. CASE UNCHANGED vars
  BY <1>17, OnceStill, QuietKept DEF vars
<1>18. ASSUME NEW c \in Callers, FreezeAgain(c) PROVE FALSE
  BY <1>18 DEF FreezeAgain, At, OnceInv, Timely
<1> QED
  BY <1>1, <1>2, <1>3, <1>4, <1>5, <1>6, <1>7, <1>8, <1>9,
     <1>10, <1>11, <1>12, <1>13, <1>14, <1>15, <1>16, <1>17, <1>18
     DEF Next, CallerStep, CallerFault, ReconStep, ReconFault

(* Where charges do not time out nobody is freezing anything.              *)
LEMMA NobodyFreezes == ASSUME Benign, OnceInv PROVE RetryRefused
BY DEF Benign, OnceInv, Timely, RetryRefused, Freezing

(* The invariant holds throughout.                                         *)
LEMMA OnceHolds == ASSUME Benign PROVE Spec => [](IInv /\ OnceInv)
<1>1. Init => IInv /\ OnceInv
  BY IInvInit, OnceInit
<1>2. IInv /\ OnceInv /\ [Next]_vars => (IInv /\ OnceInv)'
  BY IInvStep, OnceStep, NobodyFreezes DEF Benign
<1> QED
  BY <1>1, <1>2, PTL DEF Spec

(* "Executes at most once, no matter how many times that request is        *)
(* retried, replayed, or raced" (idempotency.py:3-6): for any number of    *)
(* callers, through crashes, refusals, an unreachable provider, and writes *)
(* that fail anywhere or take effect and are taken for failed, if no       *)
(* charge times out or is answered wrongly, no thread outlives its claim   *)
(* and sweeps do not overlap.                                              *)
THEOREM ChargedAtMostOnce == ASSUME Benign PROVE Spec => []AtMostOneCharge
BY OnceHolds, PTL DEF OnceInv

(* Under the same provisions, and if its writes succeed, the unknown       *)
(* outcome of an unsold key is in suspense (ledger.py:32-36).              *)
THEOREM UnknownIsExposed ==
  ASSUME Benign, BooksObey PROVE Spec => []UnknownIsInSuspense
BY OnceHolds, PTL DEF OnceInv, Exposed

(* What the statement of gateway.py:249-251 is worth: as long as a retry   *)
(* is refused while a timed-out attempt is being frozen, a key is charged  *)
(* once although charges time out, by any number of callers.               *)
THEOREM OnceIfRetriesAreRefused ==
  ASSUME Mild
  PROVE  Spec /\ RetryRefusedWhileUnknown =>
           []AtMostOneCharge /\ [](BooksObey => UnknownIsInSuspense)
<1>1. Init => IInv /\ OnceInv
  BY IInvInit, OnceInit
<1>2. IInv /\ OnceInv /\ [Next]_vars
        /\ [(\E c \in Callers : At(c, "freeze_timeout")) => rec'.attempts = rec.attempts]_vars
      => (IInv /\ OnceInv)'
  BY IInvStep, OnceStep DEF RetryRefused, Freezing, At
<1>3. IInv /\ OnceInv => AtMostOneCharge /\ (BooksObey => UnknownIsInSuspense)
  BY DEF OnceInv, Exposed
<1> QED
  BY <1>1, <1>2, <1>3, PTL DEF Spec, RetryRefusedWhileUnknown

(* Only a claim begins an attempt.                                         *)
LEMMA ClaimsBeginAttempts ==
  ASSUME TypeOK, [Next]_vars, \A c \in Callers : ~Claim(c)
  PROVE  rec'.attempts = rec.attempts
<1>1. rec \in Record
  BY DEF TypeOK
<1>2. [rec EXCEPT !.claimedAt = now].attempts = rec.attempts
  BY <1>1 DEF Record
<1>3. ASSUME NEW s PROVE Stamped(s).attempts = rec.attempts
  BY <1>1, StampedKeeps
<1>4. ASSUME NEW c \in Callers,
             \/ FreezeHeldClaim(c) \/ RenewClaim(c) \/ Complete(c) \/ FreezeCharged(c)
             \/ Abandon(c) \/ FreezeTimeout(c) \/ FreezeAgain(c)
      PROVE  rec'.attempts = rec.attempts
  BY <1>2, <1>3, <1>4 DEF FreezeHeldClaim, RenewClaim, Complete, CompleteWithSale,
     FreezeCharged, Abandon, FreezeTimeout, FreezeAgain
<1>5. ASSUME NEW c \in Callers,
             \/ Submit(c) \/ VerifyStale(c) \/ ChargeAnswered(c) \/ ChargeRefused(c)
             \/ ChargeTimesOut(c) \/ ChargeGarbled(c) \/ SuspendAlone(c) \/ ConfirmSlot(c)
             \/ ReleaseSlot(c) \/ CallerFault(c)
      PROVE  rec'.attempts = rec.attempts
  BY <1>5 DEF Submit, VerifyStale, ChargeAnswered, ChargeRefused, ChargeTimesOut,
     ChargeGarbled,
              SuspendAlone, ConfirmSlot, ReleaseSlot, CallerFault, VerifyUnanswered,
              AuditFails,
              StoreFails, CallerCrashes
<1>6. ASSUME NEW r \in Reconcilers, ReconStep(r) \/ ReconFault(r)
      PROVE  rec'.attempts = rec.attempts
  BY <1>3, <1>6 DEF ReconStep, ReconFault, Pick, ReadRecord, AskProvider, LeaveToHuman,
                    StillUnknown, ConfirmNotExecuted, RepairFromOrder, SettleSlot,
                    ProviderMute,
                    SweepFails, SweepCrashes
<1> QED
  BY <1>4, <1>5, <1>6 DEF Next, CallerStep, Tick, vars

(* One caller who waits for an answer before trying again is charged once  *)
(* through any number of time-outs, and the unknown is in suspense.        *)
THEOREM PatientCallerIsChargedOnce ==
  ASSUME Mild, \A c, d \in Callers : c = d
  PROVE  Spec => []AtMostOneCharge /\ [](BooksObey => UnknownIsInSuspense)
<1>1. IInv /\ [Next]_vars =>
        [(\E c \in Callers : At(c, "freeze_timeout")) => rec'.attempts = rec.attempts]_vars
  BY ClaimsBeginAttempts DEF IInv, Claim, At
<1>2. Spec => RetryRefusedWhileUnknown
  BY <1>1, IInvHolds, PTL DEF Spec, RetryRefusedWhileUnknown
<1> QED
  BY <1>2, OnceIfRetriesAreRefused, PTL

(* The gateway, the store and the sweep together implement ExactlyOnce,    *)
(* under the same provisions; a completion whose answer is lost brings the *)
(* key into doubt again (idempotency.py:485-499) and a sweep out of it.    *)
THEOREM PurchaseKeepsPromise == ASSUME Benign PROVE Spec => KeepsPromise
<1>1. Init => Promise!Init
  <2> SUFFICES ASSUME Init PROVE Promise!Init
    OBVIOUS
  <2>1. rec.status = "none" /\ Len(orders) = 0
    BY DEF Init, NoRecord
  <2> QED
    BY <2>1, StatusSeen DEF Promise!Init
<1>2. IInv /\ OnceInv /\ [Next]_vars => [Promise!Next]_(Promise!vars)
  BY OnceStep, NobodyFreezes DEF Kept, Benign
<1> QED
  BY <1>1, <1>2, OnceHolds, PTL DEF Spec, KeepsPromise, Promise!Spec

(* If no answer of a COMMIT is lost either, COMPLETED is final: what is    *)
(* taken for rolled back (idempotency.py:491-493) was.                     *)
THEOREM CompletedIsFinal ==
  ASSUME Benign, "lost" \notin Faults
  PROVE  Spec => [][rec.status = COMPLETED => rec'.status = COMPLETED]_vars
<1>1. IInv /\ OnceInv /\ [Next]_vars => [rec.status = COMPLETED => rec'.status = COMPLETED]_vars
  BY OnceStep, NobodyFreezes DEF Kept, Benign
<1> QED
  BY <1>1, OnceHolds, PTL DEF Spec

(* Only reconciliation takes a record out of PENDING_VERIFICATION          *)
(* (idempotency.py:39-40).                                                 *)
THEOREM FrozenUntilReconciled == ASSUME Benign PROVE Spec => PendingLeftOnlyByReconciliation
<1>1. IInv /\ OnceInv /\ [Next]_vars =>
        [rec.status = PENDING /\ rec'.status # PENDING =>
           \E r \in Reconcilers : recon[r].pc = "act" /\ recon'[r].pc # "act"]_vars
  BY OnceStep, NobodyFreezes DEF Kept, Benign
<1> QED
  BY <1>1, OnceHolds, PTL DEF Spec, PendingLeftOnlyByReconciliation
=============================================================================
