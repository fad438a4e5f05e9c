--------------------------- MODULE CheckoutProofs ---------------------------
(***************************************************************************)
(* Proofs about Checkout for any threads, requests, keys and prices: what  *)
(* a human saw is what is charged, once and once more at most for every    *)
(* timeout, after it was confirmed and approved on record, and a refusal   *)
(* that met no confirmation is final.                                      *)
(*                                                                         *)
(* None of it is inductive alone: a thread between its check and the       *)
(* charge works with what it read, so the invariant IInv says what is on   *)
(* record behind each place of a handler.  How often a key can still be    *)
(* charged is counted: by the threads about to charge under it, whether it *)
(* is open or may become so, and the freezes still to come (Budget).       *)
(***************************************************************************)
EXTENDS Checkout, FiniteSetTheorems, TLAPS

(* A request is displayed once, under one key.                             *)
OneKeyPerRequest ==
  \A j, k \in Keys :
    minted[j].request = minted[k].request /\ minted[j].request # NoRequest => j = k

ShownWith(k, r, amount) ==
  k \in Keys /\ minted[k].request = r /\ minted[k].amount = amount

PendingIsMinted ==
  \A r \in Requests :
    pending[r].status # "none" => ShownWith(pending[r].key, r, pending[r].amount)

(* A confirmation works on a request that is pending, with its key and     *)
(* its amount.                                                             *)
WorksAsShown(t) ==
  thread[t].pc \in Confirming =>
    /\ thread[t].request \in Requests
    /\ pending[thread[t].request].status # "none"
    /\ ShownWith(thread[t].key, thread[t].request, thread[t].amount)

(* What is on record when a handler is that far.                           *)
HasEvidence(t) ==
  /\ thread[t].pc \in {"mark", "evaluate", "execute", "attempt", "charge"}
       => "USER_CONFIRMED" \in trail[thread[t].request]
  /\ thread[t].pc \in {"execute", "attempt", "charge"}
       => "POLICY_APPROVED" \in trail[thread[t].request]
  /\ thread[t].pc = "charge"
       => "PAYMENT_ATTEMPTED" \in trail[thread[t].request]

(* A handler that is to record a charge knows of one.                      *)
HasCharged(t) ==
  thread[t].pc \in {"settle", "record"} => key[thread[t].key].charges # 0

(* The events the views take for a payment.                                *)
PaidEvents == {"PAYMENT_CAPTURED", "IDEMPOTENCY_REPLAYED"}

SaysTheTruth(t) ==
  thread[t].pc = "log" =>
    /\ thread[t].request \in Requests
    /\ thread[t].event \in PaidEvents => ~Uncharged(thread[t].request)

ThreadsOK ==
  \A t \in Threads : WorksAsShown(t) /\ HasEvidence(t) /\ HasCharged(t) /\ SaysTheTruth(t)

KeysOK ==
  \A k \in Keys :
    /\ key[k].state = "done" => key[k].charges # 0
    /\ key[k].charges # 0 => minted[k].request \in Requests

(* What is on record of a charge.                                          *)
Evidence == {"USER_CONFIRMED", "POLICY_APPROVED", "PAYMENT_ATTEMPTED"}
RecordedFirst ==
  \A k \in Keys : key[k].charges > 0 => Evidence \subseteq trail[minted[k].request]

SaidPaid(r) == trail[r] \cap PaidEvents # {}
ToldIsTrue == \A r \in Requests : SaidPaid(r) => ~Uncharged(r)

RefusedWasShown == refused \subseteq Displayed

IInv ==
  /\ TypeOK
  /\ OneKeyPerRequest /\ PendingIsMinted
  /\ ThreadsOK /\ KeysOK
  /\ RefusedWasShown
  /\ ChargedAsShown /\ RecordedFirst /\ RefusedStaysRefused /\ ToldIsTrue

-----------------------------------------------------------------------------
(* Type correctness.                                                       *)

LEMMA TypeInit == Init => TypeOK
BY CheckoutAssumption
DEF Init, TypeOK, FirstItem, Item, NotPending, Pending, IdleThread, Thread, FreshKey, Key

LEMMA ItemPrices ==
  ASSUME TypeOK, NEW quantity \in Quantities
  PROVE  item.price * quantity \in Totals
BY DEF TypeOK, Item, Totals

LEMMA GoesTypes ==
  ASSUME TypeOK, NEW t \in Threads, NEW pc \in Confirming \cup {"idle", "show", "log"},
         Goes(t, pc)
  PROVE  thread' \in [Threads -> Thread]
<1>1. [thread[t] EXCEPT !.pc = pc] \in Thread
  BY DEF TypeOK, Thread
<1> QED
  BY <1>1 DEF TypeOK, Goes

LEMMA SaidType ==
  ASSUME NEW handler \in Thread, NEW event \in Events
  PROVE  [handler EXCEPT !.pc = "log", !.event = event] \in Thread
BY DEF Thread

LEMMA SaysTypes ==
  ASSUME TypeOK, NEW t \in Threads, NEW event \in Events, Says(t, event)
  PROVE  thread' \in [Threads -> Thread]
<1>1. [thread[t] EXCEPT !.pc = "log", !.event = event] \in Thread
  BY SaidType DEF TypeOK
<1>2. thread' = [thread EXCEPT ![t] = [thread[t] EXCEPT !.pc = "log", !.event = event]]
  BY DEF TypeOK, Says
<1> QED
  BY <1>1, <1>2 DEF TypeOK

LEMMA EndsTypes ==
  ASSUME TypeOK, NEW t \in Threads, Ends(t)
  PROVE  thread' \in [Threads -> Thread]
<1>1. IdleThread \in Thread
  BY DEF IdleThread, Thread
<1> QED
  BY <1>1 DEF TypeOK, Ends

LEMMA LogTypes ==
  ASSUME TypeOK, NEW t \in Threads, NEW event, Logs(t, event)
  PROVE  trail' \in [Requests -> SUBSET Kept]
BY DEF TypeOK, Logs

LEMMA StateTypes ==
  ASSUME TypeOK, NEW t \in Threads, NEW state \in {"open", "taken", "unknown", "done"},
         SetState(t, state)
  PROVE  key' \in [Keys -> Key]
<1>1. \A k \in Keys : [key[k] EXCEPT !.state = state] \in Key
  BY DEF TypeOK, Key
<1> QED
  BY <1>1 DEF TypeOK, SetState

LEMMA ChargedType ==
  ASSUME NEW k \in Key, NEW n \in Nat, NEW amount \in Totals \cup {0}
  PROVE  [k EXCEPT !.charges = n, !.amount = amount] \in Key
BY DEF Key

LEMMA TimedOutTypes ==
  ASSUME TypeOK, NEW k \in Keys, key' = [key EXCEPT ![k] = TimesOut(k, "open")]
  PROVE  key' \in [Keys -> Key]
<1>1. key[k] \in Key
  BY DEF TypeOK
<1>2. key[k].timeouts + 1 \in Nat
  BY <1>1 DEF Key
<1>3. TimesOut(k, "open") \in Key
  BY <1>1, <1>2 DEF TimesOut, Key
<1> QED
  BY <1>3 DEF TypeOK

LEMMA TypeStep == TypeOK /\ [Next]_vars => TypeOK'
<1> SUFFICES ASSUME TypeOK, [Next]_vars PROVE TypeOK'
  OBVIOUS
<1>1. ASSUME NEW t \in Threads, ReadItem(t) PROVE TypeOK'
  <2>1. PICK quantity \in Quantities :
          thread' = [thread EXCEPT ![t] =
                      [IdleThread EXCEPT !.pc = "show", !.quantity = quantity,
                                         !.amount = item.price * quantity]]
    BY <1>1 DEF ReadItem
  <2>2. [IdleThread EXCEPT !.pc = "show", !.quantity = quantity,
                           !.amount = item.price * quantity] \in Thread
    BY ItemPrices DEF IdleThread, Thread
  <2>3. thread' \in [Threads -> Thread]
    BY <2>1, <2>2 DEF TypeOK
  <2> QED
    BY <1>1, <2>3 DEF ReadItem, TypeOK
<1>2. ASSUME NEW t \in Threads, Show(t) PROVE TypeOK'
  <2>1. PICK r \in Requests \ Displayed, k \in FreshKeys :
          /\ pending' = [pending EXCEPT ![r] =
                          [status |-> AWAITING, key |-> k, quantity |-> thread[t].quantity,
                           amount |-> thread[t].amount, created |-> now]]
          /\ minted' = [minted EXCEPT ![k] = [request |-> r, amount |-> thread[t].amount]]
          /\ thread' = [thread EXCEPT ![t] = [IdleThread EXCEPT !.pc = "log", !.request = r,
                                                                !.event = "PURCHASE_REQUESTED"]]
    BY <1>2 DEF Show
  <2>2. thread[t].quantity \in Quantities \cup {0} /\ thread[t].amount \in Totals \cup {0}
    BY DEF TypeOK, Thread
  <2>3. k \in Keys
    BY DEF FreshKeys
  <2>4. pending' \in [Requests -> Pending]
    BY <2>1, <2>2, <2>3 DEF TypeOK, Pending
  <2>5. minted' \in [Keys -> [request : Requests \cup {NoRequest}, amount : Totals \cup {0}]]
    BY <2>1, <2>2, <2>3 DEF TypeOK
  <2>6. [IdleThread EXCEPT !.pc = "log", !.request = r, !.event = "PURCHASE_REQUESTED"] \in Thread
    BY DEF IdleThread, Thread, Events, Kept
  <2>7. thread' \in [Threads -> Thread]
    BY <2>1, <2>6 DEF TypeOK
  <2> QED
    BY <1>2, <2>4, <2>5, <2>7 DEF Show, TypeOK
<1>3. ASSUME NEW t \in Threads, Decline(t) PROVE TypeOK'
  <2>1. PICK r \in Requests :
          /\ pending' = [pending EXCEPT ![r].status = DECLINED]
          /\ thread' = [thread EXCEPT ![t] = [IdleThread EXCEPT !.pc = "log", !.request = r,
                                                                !.event = "USER_DECLINED"]]
          /\ refused' = IF Underway(r) = {} /\ Uncharged(r) THEN refused \cup {r} ELSE refused
    BY <1>3 DEF Decline
  <2>2. [pending[r] EXCEPT !.status = DECLINED] \in Pending
    BY DEF TypeOK, Pending
  <2>3. pending' \in [Requests -> Pending]
    BY <2>1, <2>2 DEF TypeOK
  <2>4. [IdleThread EXCEPT !.pc = "log", !.request = r, !.event = "USER_DECLINED"] \in Thread
    BY DEF IdleThread, Thread, Events, Kept
  <2>5. thread' \in [Threads -> Thread]
    BY <2>1, <2>4 DEF TypeOK
  <2>6. refused' \subseteq Requests
    BY <2>1 DEF TypeOK
  <2> QED
    BY <1>3, <2>3, <2>5, <2>6 DEF Decline, TypeOK
<1>4. ASSUME NEW t \in Threads, BeginConfirm(t) PROVE TypeOK'
  <2>1. PICK r \in Requests : Begins(t, r, "price", "none") \/ Begins(t, r, "log", "POLICY_DENIED")
    BY <1>4 DEF BeginConfirm
  <2>2. pending[r] \in Pending
    BY DEF TypeOK
  <2>3. ASSUME NEW pc \in {"price", "log"}, NEW event \in {"none", "POLICY_DENIED"}
        PROVE  [pc |-> pc, request |-> r, key |-> pending[r].key, event |-> event,
                quantity |-> pending[r].quantity, amount |-> pending[r].amount] \in Thread
    BY <2>2 DEF Pending, Thread, Confirming, Events, Kept
  <2>4. thread' \in [Threads -> Thread]
    BY <2>1, <2>3 DEF TypeOK, Begins
  <2> QED
    BY <1>4, <2>4 DEF BeginConfirm, TypeOK
<1>5. ASSUME NEW t \in Threads, CheckPrice(t) PROVE TypeOK'
  <2>1. thread' \in [Threads -> Thread]
    BY <1>5, EndsTypes, GoesTypes, SaysTypes DEF CheckPrice, Confirming, Events, Kept
  <2>2. trail' \in [Requests -> SUBSET Kept]
    BY <1>5, LogTypes DEF CheckPrice, TypeOK
  <2> QED
    BY <1>5, <2>1, <2>2 DEF CheckPrice, TypeOK
<1>6. ASSUME NEW t \in Threads, Mark(t) PROVE TypeOK'
  <2>1. thread' \in [Threads -> Thread]
    BY <1>6, GoesTypes DEF Mark, Confirming
  <2>2. \A r \in Requests : [pending[r] EXCEPT !.status = CONFIRMED] \in Pending
    BY DEF TypeOK, Pending
  <2>3. pending' \in [Requests -> Pending]
    BY <1>6, <2>2 DEF Mark, TypeOK
  <2> QED
    BY <1>6, <2>1, <2>3 DEF Mark, TypeOK
<1>7. ASSUME NEW t \in Threads, Evaluate(t) PROVE TypeOK'
  <2>1. thread' \in [Threads -> Thread]
    BY <1>7, GoesTypes, SaysTypes DEF Evaluate, Confirming, Events, Kept
  <2>2. trail' \in [Requests -> SUBSET Kept]
    BY <1>7, LogTypes DEF Evaluate, TypeOK
  <2> QED
    BY <1>7, <2>1, <2>2 DEF Evaluate, TypeOK
<1>8. ASSUME NEW t \in Threads, Execute(t) PROVE TypeOK'
  <2>1. thread' \in [Threads -> Thread]
    BY <1>8, GoesTypes, SaysTypes DEF Execute, Confirming, Events, Kept
  <2>2. \/ UNCHANGED key
        \/ \E state \in {"taken", "done", "unknown"} : SetState(t, state)
    BY <1>8 DEF Execute
  <2>3. key' \in [Keys -> Key]
    BY <2>2, StateTypes DEF TypeOK
  <2> QED
    BY <1>8, <2>1, <2>3 DEF Execute, TypeOK
<1>9. ASSUME NEW t \in Threads, Charge(t) PROVE TypeOK'
  <2>1. thread' \in [Threads -> Thread]
    BY <1>9, GoesTypes DEF Charge, Confirming
  <2>2. thread[t].amount \in Totals \cup {0}
    BY DEF TypeOK, Thread
  <2>3. ASSUME NEW k \in Keys PROVE Charged(k, thread[t].amount) \in Key
    <3>1. key[k] \in Key
      BY DEF TypeOK
    <3>2. key[k].charges + 1 \in Nat
      BY <3>1 DEF Key
    <3> QED
      BY <2>2, <3>1, <3>2, ChargedType DEF Charged
  <2>4. key' \in [Keys -> Key]
    BY <1>9, <2>3 DEF Charge, TypeOK
  <2> QED
    BY <1>9, <2>1, <2>4 DEF Charge, TypeOK
<1>10. ASSUME NEW t \in Threads, ChargeFails(t) \/ Complete(t) \/ Freeze(t) PROVE TypeOK'
  <2>1. thread' \in [Threads -> Thread]
    BY <1>10, SaysTypes, GoesTypes DEF ChargeFails, Complete, Freeze, Events, Kept, Confirming
  <2>2. \/ UNCHANGED key
        \/ \E state \in {"open", "done", "unknown"} : SetState(t, state)
    BY <1>10 DEF ChargeFails, Complete, Freeze
  <2>3. key' \in [Keys -> Key]
    BY <2>2, StateTypes DEF TypeOK
  <2> QED
    BY <1>10, <2>1, <2>3 DEF ChargeFails, Complete, Freeze, TypeOK
<1>22. ASSUME NEW t \in Threads, Timeout(t) PROVE TypeOK'
  <2>1. thread' \in [Threads -> Thread]
    BY <1>22, SaysTypes, GoesTypes DEF Timeout, Events, Kept, Confirming
  <2>2. \/ UNCHANGED key
        \/ key' = [key EXCEPT ![thread[t].key] = TimesOut(thread[t].key, "open")]
    BY <1>22 DEF Timeout
  <2>3. thread[t].key \in Keys \/ thread[t].key \notin Keys
    OBVIOUS
  <2>4. key' \in [Keys -> Key]
    BY <2>2, <2>3, TimedOutTypes DEF TypeOK
  <2> QED
    BY <1>22, <2>1, <2>4 DEF Timeout, TypeOK
<1>11. ASSUME NEW t \in Threads, Report(t) PROVE TypeOK'
  <2>1. thread' \in [Threads -> Thread]
    BY <1>11, EndsTypes DEF Report
  <2>2. trail' \in [Requests -> SUBSET Kept]
    BY <1>11, LogTypes DEF Report
  <2> QED
    BY <1>11, <2>1, <2>2 DEF Report, TypeOK
<1>21. ASSUME NEW t \in Threads, Attempt(t) PROVE TypeOK'
  <2>1. thread' \in [Threads -> Thread]
    BY <1>21, GoesTypes DEF Attempt, Confirming
  <2>2. trail' \in [Requests -> SUBSET Kept]
    BY <1>21, LogTypes DEF Attempt
  <2> QED
    BY <1>21, <2>1, <2>2 DEF Attempt, TypeOK
<1>12. ASSUME NEW t \in Threads, HandlerFails(t) PROVE TypeOK'
  <2>1. thread' \in [Threads -> Thread]
    BY <1>12, EndsTypes DEF HandlerFails
  <2> QED
    BY <1>12, <2>1 DEF HandlerFails, TypeOK
<1>13. ASSUME NEW k \in Keys, Reconcile(k) PROVE TypeOK'
  <2>1. \A state \in {"open", "done"} : [key[k] EXCEPT !.state = state] \in Key
    BY DEF TypeOK, Key
  <2>2. key' \in [Keys -> Key]
    BY <1>13, <2>1 DEF Reconcile, TypeOK
  <2> QED
    BY <1>13, <2>2 DEF Reconcile, TypeOK
<1>14. CASE SetPrice
  BY <1>14 DEF SetPrice, TypeOK, Item
<1>15. CASE SetAvailable
  BY <1>15 DEF SetAvailable, TypeOK, Item
<1>16. CASE Remove
  BY <1>16 DEF Remove, TypeOK, Item
<1>17. CASE Add
  BY <1>17 DEF Add, TypeOK, Item
<1>18. CASE Restart
  BY <1>18, CheckoutAssumption
  DEF Restart, TypeOK, FirstItem, Item, NotPending, Pending, IdleThread, Thread
<1>19. CASE Tick
  BY <1>19 DEF Tick, TypeOK
<1>20. CASE UNCHANGED vars
  BY <1>20 DEF vars, TypeOK
<1> QED
  BY <1>1, <1>2, <1>3, <1>4, <1>5, <1>6, <1>7, <1>8, <1>9, <1>10, <1>11, <1>12, <1>13,
     <1>14, <1>15, <1>16, <1>17, <1>18, <1>19, <1>20, <1>21, <1>22
  DEF Next, Handler

-----------------------------------------------------------------------------
(* What the operators the handlers are made of do to thread and trail.     *)

OthersSame(t) == \A u \in Threads : u # t => thread'[u] = thread[u]

LEMMA GoesEffect ==
  ASSUME TypeOK, NEW t \in Threads, NEW pc, Goes(t, pc)
  PROVE  /\ OthersSame(t)
         /\ thread'[t].pc = pc /\ thread'[t].request = thread[t].request
         /\ thread'[t].key = thread[t].key /\ thread'[t].amount = thread[t].amount
BY DEF TypeOK, Thread, Goes, OthersSame

LEMMA SaysEffect ==
  ASSUME TypeOK, NEW t \in Threads, NEW event, Says(t, event)
  PROVE  /\ OthersSame(t)
         /\ thread'[t].pc = "log" /\ thread'[t].request = thread[t].request
         /\ thread'[t].event = event
BY DEF TypeOK, Thread, Says, OthersSame

LEMMA EndsEffect ==
  ASSUME TypeOK, NEW t \in Threads, Ends(t)
  PROVE  OthersSame(t) /\ thread'[t].pc = "idle"
BY DEF TypeOK, Thread, Ends, OthersSame, IdleThread

TrailGrows == \A r \in Requests : trail[r] \subseteq trail'[r]

LEMMA LogsEffect ==
  ASSUME TypeOK, NEW t \in Threads, NEW event, Logs(t, event)
  PROVE  /\ TrailGrows
         /\ \A r \in Requests : trail'[r] \subseteq trail[r] \cup {event}
         /\ \A r \in Requests : r # thread[t].request => trail'[r] = trail[r]
         /\ thread[t].request \in Requests /\ event \in Kept
              => event \in trail'[thread[t].request]
BY DEF TypeOK, Logs, TrailGrows

-----------------------------------------------------------------------------
(* What a step leaves true of what it does not touch.                      *)

PendingStays ==
  \A r \in Requests : pending[r].status # "none" => pending'[r].status # "none"

MintedStays ==
  \A k \in Keys : minted[k].request # NoRequest => minted'[k] = minted[k]

ChargesStay == \A k \in Keys : key[k].charges # 0 => key'[k].charges # 0

ThreadOK(t) == WorksAsShown(t) /\ HasEvidence(t) /\ HasCharged(t) /\ SaysTheTruth(t)

(* The other threads.                                                      *)
LEMMA OthersOK ==
  ASSUME IInv, NEW u \in Threads, thread'[u] = thread[u],
         TrailGrows, PendingStays, MintedStays, ChargesStay
  PROVE  ThreadOK(u)'
<1> USE CheckoutAssumption
<1>1. ThreadOK(u)
  BY DEF IInv, ThreadsOK, ThreadOK
<1>2. WorksAsShown(u)'
  <2> SUFFICES ASSUME thread[u].pc \in Confirming
               PROVE  /\ thread[u].request \in Requests
                      /\ pending'[thread[u].request].status # "none"
                      /\ ShownWith(thread[u].key, thread[u].request, thread[u].amount)'
    BY DEF WorksAsShown, ShownWith
  <2>1. /\ thread[u].request \in Requests
        /\ pending[thread[u].request].status # "none"
        /\ ShownWith(thread[u].key, thread[u].request, thread[u].amount)
    BY <1>1 DEF ThreadOK, WorksAsShown
  <2> QED
    BY <2>1 DEF ShownWith, PendingStays, MintedStays
<1>3. HasEvidence(u)'
  <2>1. thread[u].pc \in Confirming => thread[u].request \in Requests
    BY <1>1 DEF ThreadOK, WorksAsShown
  <2> QED
    BY <1>1, <2>1 DEF ThreadOK, HasEvidence, TrailGrows, Confirming
<1>4. HasCharged(u)'
  BY <1>1 DEF ThreadOK, HasCharged, WorksAsShown, ShownWith, Confirming, ChargesStay
<1>5. SaysTheTruth(u)'
  <2> SUFFICES ASSUME thread[u].pc = "log"
               PROVE  /\ thread[u].request \in Requests
                      /\ thread[u].event \in PaidEvents =>
                           ~Uncharged(thread[u].request)'
    BY DEF SaysTheTruth, Uncharged
  <2>1. /\ thread[u].request \in Requests
        /\ thread[u].event \in PaidEvents => ~Uncharged(thread[u].request)
    BY <1>1 DEF ThreadOK, SaysTheTruth
  <2>2. ~Uncharged(thread[u].request) => ~Uncharged(thread[u].request)'
    BY <2>1 DEF Uncharged, MintedStays, ChargesStay
  <2> QED
    BY <2>1, <2>2
<1> QED
  BY <1>2, <1>3, <1>4, <1>5 DEF ThreadOK

(* The keys and what was charged, when a step leaves them alone.           *)
LEMMA SameKeys ==
  ASSUME IInv, UNCHANGED <<key, minted>>, TrailGrows
  PROVE  OneKeyPerRequest' /\ KeysOK' /\ ChargedAsShown' /\ RecordedFirst'
<1>1. OneKeyPerRequest' /\ KeysOK' /\ ChargedAsShown'
  BY DEF IInv, OneKeyPerRequest, KeysOK, ChargedAsShown
<1>2. RecordedFirst'
  BY DEF IInv, KeysOK, RecordedFirst, TrailGrows
<1> QED
  BY <1>1, <1>2

(* Whoever was refused stays so when nobody begins to work on it and       *)
(* nothing minted for it is charged.                                       *)
LEMMA StillRefused ==
  ASSUME IInv, NEW t \in Threads, OthersSame(t), UNCHANGED refused,
         thread'[t].pc \in Confirming => thread'[t].request \notin refused,
         \A r \in refused : pending'[r].status \in {"none", DECLINED},
         \A k \in Keys : minted'[k].request \in refused =>
           minted'[k] = minted[k] /\ key'[k].charges = key[k].charges
  PROVE  RefusedStaysRefused'
<1> SUFFICES ASSUME NEW r \in refused
             PROVE  Underway(r)' = {} /\ Uncharged(r)'
  BY DEF RefusedStaysRefused
<1>1. Underway(r) = {} /\ Uncharged(r)
  BY DEF IInv, RefusedStaysRefused
<1>2. Underway(r)' = {}
  BY <1>1 DEF Underway, OthersSame
<1>3. Uncharged(r)'
  BY <1>1 DEF Uncharged
<1> QED
  BY <1>2, <1>3

(* A request somebody works on is not refused.                             *)
LEMMA WorkedOnIsNotRefused ==
  ASSUME IInv, NEW t \in Threads, thread[t].pc \in Confirming
  PROVE  thread[t].request \notin refused
BY DEF IInv, RefusedStaysRefused, Underway

-----------------------------------------------------------------------------
(* A handler's step that touches no key and refuses nobody.                *)
LEMMA QuietHandler ==
  ASSUME IInv, TypeOK', NEW t \in Threads, OthersSame(t),
         UNCHANGED <<key, minted, refused>>,
         TrailGrows, PendingStays, PendingIsMinted', ThreadOK(t)', ToldIsTrue',
         thread'[t].pc \in Confirming => thread'[t].request \notin refused,
         \A r \in refused : pending'[r].status \in {"none", DECLINED}
  PROVE  IInv'
<1>1. OneKeyPerRequest' /\ KeysOK' /\ ChargedAsShown' /\ RecordedFirst'
  BY SameKeys
<1>2. RefusedWasShown'
  BY DEF IInv, RefusedWasShown, Displayed
<1>3. MintedStays /\ ChargesStay
  BY DEF MintedStays, ChargesStay
<1>4. \A u \in Threads : u # t => ThreadOK(u)'
  BY <1>3, OthersOK DEF OthersSame
<1>5. ThreadsOK'
  BY <1>4 DEF ThreadsOK, ThreadOK
<1>6. RefusedStaysRefused'
  BY StillRefused
<1> QED
  BY <1>1, <1>2, <1>5, <1>6 DEF IInv

(* A handler's step that changes the key it works with, and only that.     *)
LEMMA KeyHandler ==
  ASSUME IInv, TypeOK', NEW t \in Threads, OthersSame(t),
         thread[t].pc \in Confirming,
         UNCHANGED <<pending, minted, trail, refused>>,
         \A k \in Keys : k # thread[t].key => key'[k] = key[k],
         thread'[t].request = thread[t].request,
         ChargesStay, KeysOK', ChargedAsShown', RecordedFirst', ThreadOK(t)'
  PROVE  IInv'
<1>1. TrailGrows /\ PendingStays /\ MintedStays
  BY DEF TrailGrows, PendingStays, MintedStays
<1>3. \A u \in Threads : u # t => ThreadOK(u)'
  BY <1>1, OthersOK DEF OthersSame
<1>4. ThreadsOK'
  BY <1>3 DEF ThreadsOK, ThreadOK
<1>5. OneKeyPerRequest' /\ PendingIsMinted' /\ RefusedWasShown'
  BY DEF IInv, OneKeyPerRequest, PendingIsMinted, RefusedWasShown, Displayed, ShownWith
<1>7. ToldIsTrue'
  BY DEF IInv, ToldIsTrue, SaidPaid, Uncharged, ChargesStay
<1>8. thread[t].request \notin refused
  BY WorkedOnIsNotRefused
<1>9. minted[thread[t].key].request = thread[t].request
  BY DEF IInv, ThreadsOK, WorksAsShown, ShownWith
<1>10. \A r \in refused : pending'[r].status \in {"none", DECLINED}
  BY DEF IInv, RefusedStaysRefused
<1>11. RefusedStaysRefused'
  BY <1>8, <1>9, <1>10, StillRefused
<1> QED
  BY <1>4, <1>5, <1>7, <1>11 DEF IInv

-----------------------------------------------------------------------------
(* propose() and decline().                                                *)

LEMMA NothingIsTrue ==
  ASSUME NEW t \in Threads, thread'[t].pc \in {"idle", "show"}
  PROVE  ThreadOK(t)'
BY DEF ThreadOK, WorksAsShown, HasEvidence, HasCharged, SaysTheTruth, Confirming

LEMMA SameMoney ==
  ASSUME IInv, UNCHANGED <<key, minted, trail>>
  PROVE  ToldIsTrue'
BY DEF IInv, ToldIsTrue, SaidPaid, Uncharged

LEMMA SamePending ==
  ASSUME IInv, UNCHANGED <<pending, minted>>
  PROVE  /\ PendingStays /\ PendingIsMinted'
         /\ \A r \in refused : pending'[r].status \in {"none", DECLINED}
BY DEF IInv, PendingStays, PendingIsMinted, ShownWith, RefusedStaysRefused

LEMMA StepReadItem ==
  ASSUME IInv, TypeOK', NEW t \in Threads, ReadItem(t)
  PROVE  IInv'
<1>1. OthersSame(t) /\ thread'[t].pc = "show"
  BY DEF ReadItem, OthersSame, IInv, TypeOK, IdleThread
<1>2. UNCHANGED <<key, minted, refused, pending, trail>> /\ TrailGrows
  BY DEF ReadItem, TrailGrows
<1>3. ThreadOK(t)'
  BY <1>1, NothingIsTrue
<1> QED
  BY <1>1, <1>2, <1>3, SameMoney, SamePending, QuietHandler DEF Confirming

LEMMA StepShow ==
  ASSUME IInv, TypeOK', NEW t \in Threads, Show(t)
  PROVE  IInv'
<1> USE CheckoutAssumption
<1>0. TypeOK /\ OneKeyPerRequest /\ PendingIsMinted /\ KeysOK
  BY DEF IInv
<1>1. PICK r \in Requests \ Displayed, k \in FreshKeys :
        /\ pending' = [pending EXCEPT ![r] =
                        [status |-> AWAITING, key |-> k, quantity |-> thread[t].quantity,
                         amount |-> thread[t].amount, created |-> now]]
        /\ minted' = [minted EXCEPT ![k] = [request |-> r, amount |-> thread[t].amount]]
        /\ thread' = [thread EXCEPT ![t] = [IdleThread EXCEPT !.pc = "log", !.request = r,
                                                              !.event = "PURCHASE_REQUESTED"]]
  BY DEF Show
<1>2. /\ UNCHANGED <<key, trail, refused>> /\ TrailGrows
      /\ OthersSame(t) /\ thread'[t].pc = "log" /\ thread'[t].request = r
      /\ thread'[t].event = "PURCHASE_REQUESTED"
  BY <1>0, <1>1 DEF Show, TypeOK, OthersSame, IdleThread, TrailGrows
<1>3. k \in Keys /\ minted[k].request = NoRequest
  BY DEF FreshKeys
<1>4. /\ minted'[k] = [request |-> r, amount |-> thread[t].amount]
      /\ \A j \in Keys : j # k => minted'[j] = minted[j]
      /\ \A j \in Keys : minted[j].request # r
  BY <1>0, <1>1, <1>3 DEF TypeOK, Displayed
<1>5. MintedStays /\ ChargesStay
  BY <1>2, <1>3, <1>4 DEF MintedStays, ChargesStay
<1>6. /\ pending'[r].status = AWAITING /\ pending'[r].key = k
      /\ pending'[r].amount = thread[t].amount
      /\ \A q \in Requests : q # r => pending'[q] = pending[q]
  BY <1>0, <1>1 DEF TypeOK
<1>7. PendingStays
  BY <1>6 DEF PendingStays, AWAITING
<1>8. PendingIsMinted'
  BY <1>0, <1>3, <1>4, <1>6 DEF PendingIsMinted, ShownWith
<1>9. OneKeyPerRequest'
  BY <1>0, <1>4 DEF OneKeyPerRequest
<1>10. key[k].charges = 0
  BY <1>0, <1>3 DEF KeysOK, TypeOK, Key
<1>11. KeysOK'
  BY <1>0, <1>2, <1>3, <1>4, <1>10 DEF KeysOK
<1>12. ChargedAsShown'
  BY <1>2, <1>3, <1>4, <1>10 DEF IInv, ChargedAsShown
<1>13. RecordedFirst'
  BY <1>0, <1>2, <1>3, <1>4, <1>10 DEF IInv, RecordedFirst
<1>14. ToldIsTrue'
  <2>1. \A q \in Requests : ~Uncharged(q) => ~Uncharged(q)'
    BY <1>2, <1>3, <1>4, <1>10 DEF Uncharged
  <2> QED
    BY <1>2, <2>1 DEF IInv, ToldIsTrue, SaidPaid
<1>15. RefusedWasShown' /\ r \notin refused
  <2>1. refused \subseteq Displayed /\ refused \subseteq Requests
    BY DEF IInv, TypeOK, RefusedWasShown
  <2>2. Displayed \ {NoRequest} \subseteq Displayed'
    BY <1>3, <1>4 DEF Displayed
  <2> QED
    BY <1>1, <1>2, <2>1, <2>2 DEF RefusedWasShown
<1>16. ThreadsOK'
  <2>1. \A u \in Threads : u # t => ThreadOK(u)'
    BY <1>2, <1>5, <1>7, OthersOK DEF OthersSame
  <2>2. ThreadOK(t)'
    BY <1>2 DEF ThreadOK, WorksAsShown, HasEvidence, HasCharged, SaysTheTruth, Confirming, PaidEvents
  <2> QED
    BY <2>1, <2>2 DEF ThreadsOK, ThreadOK
<1>18. RefusedStaysRefused'
  <2>1. \A q \in refused : pending'[q].status \in {"none", DECLINED}
    BY <1>6, <1>15 DEF IInv, RefusedStaysRefused, TypeOK
  <2> QED
    BY <1>2, <1>4, <1>15, <2>1, StillRefused DEF Confirming
<1> QED
  BY <1>8, <1>9, <1>11, <1>12, <1>13, <1>14, <1>15, <1>16, <1>18 DEF IInv

LEMMA StepDecline ==
  ASSUME IInv, TypeOK', NEW t \in Threads, Decline(t)
  PROVE  IInv'
<1>1. PICK r \in Requests :
        /\ pending[r].status # "none"
        /\ pending' = [pending EXCEPT ![r].status = DECLINED]
        /\ thread' = [thread EXCEPT ![t] = [IdleThread EXCEPT !.pc = "log", !.request = r,
                                                              !.event = "USER_DECLINED"]]
        /\ refused' = IF Underway(r) = {} /\ Uncharged(r) THEN refused \cup {r} ELSE refused
  BY DEF Decline
<1>2. UNCHANGED <<key, minted, trail>> /\ TrailGrows /\ MintedStays /\ ChargesStay
  BY DEF Decline, TrailGrows, MintedStays, ChargesStay
<1>3. /\ OthersSame(t) /\ thread'[t].pc = "log" /\ thread'[t].request = r
      /\ thread'[t].event = "USER_DECLINED"
  BY <1>1 DEF IInv, TypeOK, OthersSame, IdleThread
<1>4. /\ \A q \in Requests : /\ pending'[q].key = pending[q].key
                             /\ pending'[q].amount = pending[q].amount
                             /\ q # r => pending'[q] = pending[q]
      /\ pending'[r].status = DECLINED
  BY <1>1 DEF IInv, TypeOK, Pending
<1>5. PendingStays /\ PendingIsMinted'
  BY <1>1, <1>2, <1>4 DEF IInv, PendingStays, PendingIsMinted, ShownWith, DECLINED
<1>6. OneKeyPerRequest' /\ KeysOK' /\ ChargedAsShown' /\ RecordedFirst' /\ ToldIsTrue'
  BY <1>2, SameKeys, SameMoney
<1>7. ThreadsOK'
  <2>1. \A u \in Threads : u # t => ThreadOK(u)'
    BY <1>2, <1>3, <1>5, OthersOK DEF OthersSame
  <2>2. ThreadOK(t)'
    BY <1>3 DEF ThreadOK, WorksAsShown, HasEvidence, HasCharged, SaysTheTruth, Confirming, PaidEvents
  <2> QED
    BY <2>1, <2>2 DEF ThreadsOK, ThreadOK
<1>9. RefusedWasShown'
  BY <1>1, <1>2 DEF IInv, RefusedWasShown, Displayed, PendingIsMinted, ShownWith
<1>10. RefusedStaysRefused'
  <2> SUFFICES ASSUME NEW q \in refused'
               PROVE  /\ pending'[q].status \in {"none", DECLINED}
                      /\ Underway(q)' = {} /\ Uncharged(q)'
    BY DEF RefusedStaysRefused
  <2>1. Underway(q) = {} /\ Uncharged(q)
    BY <1>1 DEF IInv, RefusedStaysRefused
  <2>2. pending'[q].status \in {"none", DECLINED}
    BY <1>1, <1>4 DEF IInv, RefusedStaysRefused, TypeOK
  <2>3. Underway(q)' = {}
    BY <1>3, <2>1 DEF Underway, OthersSame, Confirming
  <2>4. Uncharged(q)'
    BY <1>2, <2>1 DEF Uncharged
  <2> QED
    BY <2>2, <2>3, <2>4
<1> QED
  BY <1>5, <1>6, <1>7, <1>9, <1>10 DEF IInv

-----------------------------------------------------------------------------
(* confirm(), and the entries of the audit log.                            *)

LEMMA StepBeginConfirm ==
  ASSUME IInv, TypeOK', NEW t \in Threads, BeginConfirm(t)
  PROVE  IInv'
<1>1. PICK r \in Requests :
        /\ pending[r].status \in {AWAITING, CONFIRMED}
        /\ Begins(t, r, "price", "none") \/ Begins(t, r, "log", "POLICY_DENIED")
  BY DEF BeginConfirm
<1>2. UNCHANGED <<pending, key, minted, trail, refused>> /\ TrailGrows
  BY DEF BeginConfirm, TrailGrows
<1>3. /\ OthersSame(t) /\ thread'[t].pc \in {"price", "log"} /\ thread'[t].request = r
      /\ thread'[t].key = pending[r].key /\ thread'[t].amount = pending[r].amount
      /\ thread'[t].event \in {"none", "POLICY_DENIED"}
  BY <1>1 DEF IInv, TypeOK, Begins, OthersSame
<1>4. pending[r].status # "none" /\ ShownWith(pending[r].key, r, pending[r].amount)
  BY <1>1 DEF IInv, PendingIsMinted, AWAITING, CONFIRMED
<1>5. ThreadOK(t)'
  <2>1. WorksAsShown(t)'
    BY <1>2, <1>3, <1>4 DEF WorksAsShown, ShownWith
  <2> QED
    BY <1>3, <2>1 DEF ThreadOK, HasEvidence, HasCharged, SaysTheTruth, PaidEvents
<1>6. r \notin refused
  BY <1>1 DEF IInv, RefusedStaysRefused, AWAITING, CONFIRMED, DECLINED
<1> QED
  BY <1>2, <1>3, <1>5, <1>6, SameMoney, SamePending, QuietHandler

(* What logging says of the money, when it says the truth.                 *)
LEMMA LoggedMoney ==
  ASSUME IInv, UNCHANGED <<key, minted>>, NEW t \in Threads, NEW event, Logs(t, event),
         event \in PaidEvents => ~Uncharged(thread[t].request)
  PROVE  ToldIsTrue'
<1> SUFFICES ASSUME NEW r \in Requests, SaidPaid(r)' PROVE ~Uncharged(r)'
  BY DEF ToldIsTrue
<1>1. CASE SaidPaid(r)
  BY <1>1 DEF IInv, ToldIsTrue, Uncharged
<1>2. CASE ~SaidPaid(r)
  <2>1. r = thread[t].request /\ event \in PaidEvents
    BY <1>2, LogsEffect DEF SaidPaid, IInv
  <2> QED
    BY <2>1 DEF Uncharged
<1> QED
  BY <1>1, <1>2

(* What a confirmation keeps when it goes on, with what is on record.      *)
LEMMA GoesOn ==
  ASSUME IInv, NEW t \in Threads, NEW pc \in Confirming, Goes(t, pc),
         thread[t].pc \in Confirming, UNCHANGED minted, PendingStays,
         HasEvidence(t)', HasCharged(t)'
  PROVE  ThreadOK(t)'
<1>1. /\ thread'[t].pc = pc /\ thread'[t].request = thread[t].request
      /\ thread'[t].key = thread[t].key /\ thread'[t].amount = thread[t].amount
  BY GoesEffect DEF IInv
<1>2. /\ thread[t].request \in Requests
      /\ pending[thread[t].request].status # "none"
      /\ ShownWith(thread[t].key, thread[t].request, thread[t].amount)
  BY DEF IInv, ThreadsOK, WorksAsShown
<1>3. WorksAsShown(t)'
  BY <1>1, <1>2 DEF WorksAsShown, ShownWith, PendingStays
<1>4. SaysTheTruth(t)'
  BY <1>1 DEF SaysTheTruth, Confirming
<1> QED
  BY <1>3, <1>4 DEF ThreadOK

(* What a confirmation may say when it ends.                               *)
LEMMA SaysSo ==
  ASSUME IInv, NEW t \in Threads, NEW event, Says(t, event),
         thread[t].pc \in Confirming,
         event \in PaidEvents => ~Uncharged(thread[t].request)'
  PROVE  ThreadOK(t)'
<1>1. /\ thread'[t].pc = "log" /\ thread'[t].request = thread[t].request
      /\ thread'[t].event = event
  BY SaysEffect DEF IInv
<1>2. thread[t].request \in Requests
  BY DEF IInv, ThreadsOK, WorksAsShown
<1>3. SaysTheTruth(t)'
  BY <1>1, <1>2 DEF SaysTheTruth, Uncharged
<1> QED
  BY <1>1, <1>3 DEF ThreadOK, WorksAsShown, HasEvidence, HasCharged, Confirming

LEMMA StepReport ==
  ASSUME IInv, TypeOK', NEW t \in Threads, Report(t)
  PROVE  IInv'
<1>1. UNCHANGED <<pending, key, minted, refused>>
  BY DEF Report
<1>2. OthersSame(t) /\ thread'[t].pc = "idle"
  BY EndsEffect DEF Report, IInv
<1>3. TrailGrows
  BY LogsEffect DEF Report, IInv
<1>4. ToldIsTrue'
  BY <1>1, LoggedMoney DEF Report, IInv, ThreadsOK, SaysTheTruth
<1>5. ThreadOK(t)'
  BY <1>2, NothingIsTrue
<1> QED
  BY <1>1, <1>2, <1>3, <1>4, <1>5, SamePending, QuietHandler DEF Confirming

LEMMA StepHandlerFails ==
  ASSUME IInv, TypeOK', NEW t \in Threads, HandlerFails(t)
  PROVE  IInv'
<1>1. UNCHANGED <<pending, key, minted, trail, refused>> /\ TrailGrows
  BY DEF HandlerFails, TrailGrows
<1>2. OthersSame(t) /\ thread'[t].pc = "idle"
  BY EndsEffect DEF HandlerFails, IInv
<1>3. ThreadOK(t)'
  BY <1>2, NothingIsTrue
<1> QED
  BY <1>1, <1>2, <1>3, SameMoney, SamePending, QuietHandler DEF Confirming

LEMMA StepCheckPrice ==
  ASSUME IInv, TypeOK', NEW t \in Threads, CheckPrice(t)
  PROVE  IInv'
<1>1. UNCHANGED <<pending, key, minted, refused>> /\ thread[t].pc = "price"
  BY DEF CheckPrice
<1>2. thread[t].pc \in Confirming /\ PendingStays
  BY <1>1, SamePending DEF Confirming
<1>3. CASE Ends(t) /\ UNCHANGED trail
  <2>1. OthersSame(t) /\ thread'[t].pc = "idle" /\ TrailGrows
    BY <1>3, EndsEffect DEF IInv, TrailGrows
  <2>2. ThreadOK(t)'
    BY <2>1, NothingIsTrue
  <2> QED
    BY <1>1, <1>3, <2>1, <2>2, SameMoney, SamePending, QuietHandler DEF Confirming
<1>4. CASE Says(t, "POLICY_DENIED") /\ UNCHANGED trail
  <2>1. OthersSame(t) /\ thread'[t].pc = "log" /\ TrailGrows
    BY <1>4, SaysEffect DEF IInv, TrailGrows
  <2>2. ThreadOK(t)'
    BY <1>2, <1>4, SaysSo DEF PaidEvents
  <2> QED
    BY <1>1, <1>4, <2>1, <2>2, SameMoney, SamePending, QuietHandler DEF Confirming
<1>5. CASE Logs(t, "USER_CONFIRMED") /\ Goes(t, "mark")
  <2>1. /\ OthersSame(t) /\ thread'[t].pc = "mark"
        /\ thread'[t].request = thread[t].request
    BY <1>5, GoesEffect DEF IInv
  <2>2. thread[t].request \in Requests
    BY <1>2 DEF IInv, ThreadsOK, WorksAsShown
  <2>3. TrailGrows /\ "USER_CONFIRMED" \in trail'[thread[t].request]
    BY <1>5, <2>2, LogsEffect DEF IInv, Kept
  <2>4. HasEvidence(t)' /\ HasCharged(t)'
    BY <2>1, <2>3 DEF HasEvidence, HasCharged
  <2>5. ThreadOK(t)'
    BY <1>1, <1>2, <1>5, <2>4, GoesOn DEF Confirming
  <2>6. ToldIsTrue'
    BY <1>1, <1>5, LoggedMoney DEF PaidEvents
  <2> QED
    BY <1>1, <1>2, <2>1, <2>3, <2>5, <2>6, SamePending, WorkedOnIsNotRefused, QuietHandler
<1> QED
  BY <1>3, <1>4, <1>5 DEF CheckPrice

LEMMA StepMark ==
  ASSUME IInv, TypeOK', NEW t \in Threads, Mark(t)
  PROVE  IInv'
<1>1. UNCHANGED <<key, minted, trail, refused>> /\ thread[t].pc \in Confirming /\ TrailGrows
  BY DEF Mark, Confirming, TrailGrows
<1>2. /\ OthersSame(t) /\ thread'[t].pc = "evaluate"
      /\ thread'[t].request = thread[t].request
  BY GoesEffect DEF Mark, IInv
<1>3. /\ thread[t].request \in Requests /\ pending[thread[t].request].status # "none"
      /\ "USER_CONFIRMED" \in trail[thread[t].request]
  BY <1>1 DEF Mark, IInv, ThreadsOK, WorksAsShown, HasEvidence
<1>4. \A q \in Requests : /\ pending'[q].key = pending[q].key
                          /\ pending'[q].amount = pending[q].amount
                          /\ q # thread[t].request => pending'[q] = pending[q]
                          /\ q = thread[t].request => pending'[q].status = CONFIRMED
  BY <1>3 DEF Mark, IInv, TypeOK, Pending
<1>5. PendingStays /\ PendingIsMinted'
  BY <1>1, <1>3, <1>4 DEF IInv, PendingStays, PendingIsMinted, ShownWith, CONFIRMED
<1>6. HasEvidence(t)' /\ HasCharged(t)'
  BY <1>1, <1>2, <1>3 DEF HasEvidence, HasCharged
<1>7. ThreadOK(t)'
  BY <1>1, <1>5, <1>6, GoesOn DEF Mark, Confirming
<1>8. thread[t].request \notin refused
  BY <1>1, WorkedOnIsNotRefused
<1>9. \A q \in refused : pending'[q].status \in {"none", DECLINED}
  BY <1>4, <1>8 DEF IInv, RefusedStaysRefused, TypeOK
<1> QED
  BY <1>1, <1>2, <1>5, <1>7, <1>8, <1>9, SameMoney, QuietHandler

LEMMA StepEvaluate ==
  ASSUME IInv, TypeOK', NEW t \in Threads, Evaluate(t)
  PROVE  IInv'
<1>1. UNCHANGED <<pending, key, minted, refused>> /\ thread[t].pc = "evaluate"
  BY DEF Evaluate
<1>2. thread[t].pc \in Confirming /\ PendingStays
  BY <1>1, SamePending DEF Confirming
<1>3. CASE Says(t, "POLICY_DENIED") /\ UNCHANGED trail
  <2>1. OthersSame(t) /\ thread'[t].pc = "log" /\ TrailGrows
    BY <1>3, SaysEffect DEF IInv, TrailGrows
  <2>2. ThreadOK(t)'
    BY <1>2, <1>3, SaysSo DEF PaidEvents
  <2> QED
    BY <1>1, <1>3, <2>1, <2>2, SameMoney, SamePending, QuietHandler DEF Confirming
<1>4. CASE Logs(t, "POLICY_APPROVED") /\ Goes(t, "execute")
  <2>1. /\ OthersSame(t) /\ thread'[t].pc = "execute"
        /\ thread'[t].request = thread[t].request
    BY <1>4, GoesEffect DEF IInv
  <2>2. thread[t].request \in Requests /\ "USER_CONFIRMED" \in trail[thread[t].request]
    BY <1>1, <1>2 DEF IInv, ThreadsOK, WorksAsShown, HasEvidence
  <2>3. TrailGrows /\ "POLICY_APPROVED" \in trail'[thread[t].request]
    BY <1>4, <2>2, LogsEffect DEF IInv, Kept
  <2>4. HasEvidence(t)' /\ HasCharged(t)'
    BY <2>1, <2>2, <2>3 DEF HasEvidence, HasCharged, TrailGrows
  <2>5. ThreadOK(t)'
    BY <1>1, <1>2, <1>4, <2>4, GoesOn DEF Confirming
  <2>6. ToldIsTrue'
    BY <1>1, <1>4, LoggedMoney DEF PaidEvents
  <2> QED
    BY <1>1, <1>2, <2>1, <2>3, <2>5, <2>6, SamePending, WorkedOnIsNotRefused, QuietHandler
<1> QED
  BY <1>3, <1>4 DEF Evaluate

-----------------------------------------------------------------------------
(* submit(): the key.                                                      *)

(* A step that charges nothing under the key a confirmation works with.    *)
ChargesNothing(t) ==
  /\ \A k \in Keys : k # thread[t].key => key'[k] = key[k]
  /\ key'[thread[t].key].charges = key[thread[t].key].charges
  /\ key'[thread[t].key].amount = key[thread[t].key].amount
  /\ key'[thread[t].key].state = "done" => key[thread[t].key].charges # 0

LEMMA MoneyStays ==
  ASSUME IInv, NEW t \in Threads, thread[t].pc \in Confirming, UNCHANGED <<minted, trail>>,
         ChargesNothing(t)
  PROVE  ChargesStay /\ KeysOK' /\ ChargedAsShown' /\ RecordedFirst'
<1>1. \A k \in Keys : /\ key'[k].charges = key[k].charges
                      /\ key'[k].amount = key[k].amount
                      /\ key'[k].state = "done" => key[k].charges # 0
  BY DEF ChargesNothing, IInv, KeysOK
<1> QED
  BY <1>1 DEF IInv, ChargesStay, KeysOK, ChargedAsShown, RecordedFirst

LEMMA ChargedIsNotUncharged ==
  ASSUME IInv, NEW t \in Threads, thread[t].pc \in Confirming, UNCHANGED minted,
         key'[thread[t].key].charges # 0, thread'[t].request = thread[t].request
  PROVE  ~Uncharged(thread[t].request)'
<1>1. ShownWith(thread[t].key, thread[t].request, thread[t].amount)
  BY DEF IInv, ThreadsOK, WorksAsShown
<1> QED
  BY <1>1 DEF ShownWith, Uncharged

(* Where a confirmation stands after a step that charges nothing.          *)
LEMMA ConfirmationMoves ==
  ASSUME IInv, TypeOK', NEW t \in Threads, thread[t].pc \in Confirming,
         UNCHANGED <<pending, minted, trail, refused>>, ChargesNothing(t),
         \/ \E pc \in Confirming : Goes(t, pc) /\ HasEvidence(t)' /\ HasCharged(t)'
         \/ \E event : /\ Says(t, event)
                       /\ event \in PaidEvents => key'[thread[t].key].charges # 0
  PROVE  IInv'
<1>1. ChargesStay /\ KeysOK' /\ ChargedAsShown' /\ RecordedFirst'
  BY MoneyStays
<1>2. PendingStays
  BY SamePending
<1>3. /\ OthersSame(t) /\ thread'[t].request = thread[t].request
  BY GoesEffect, SaysEffect DEF IInv
<1>4. ThreadOK(t)'
  <2>1. CASE \E pc \in Confirming : Goes(t, pc) /\ HasEvidence(t)' /\ HasCharged(t)'
    BY <1>2, <2>1, GoesOn
  <2>2. CASE \E event : /\ Says(t, event)
                        /\ event \in PaidEvents => key'[thread[t].key].charges # 0
    <3>1. PICK event : /\ Says(t, event)
                       /\ event \in PaidEvents => key'[thread[t].key].charges # 0
      BY <2>2
    <3>2. event \in PaidEvents => ~Uncharged(thread[t].request)'
      BY <1>3, <3>1, ChargedIsNotUncharged
    <3> QED
      BY <3>1, <3>2, SaysSo
  <2> QED
    BY <2>1, <2>2
<1> QED
  BY <1>1, <1>3, <1>4, KeyHandler DEF ChargesNothing

LEMMA SetStateEffect ==
  ASSUME IInv, NEW t \in Threads, thread[t].pc \in Confirming, NEW state, SetState(t, state)
  PROVE  /\ \A k \in Keys : k # thread[t].key => key'[k] = key[k]
         /\ key'[thread[t].key].state = state
         /\ key'[thread[t].key].charges = key[thread[t].key].charges
         /\ key'[thread[t].key].amount = key[thread[t].key].amount
         /\ key'[thread[t].key].timeouts = key[thread[t].key].timeouts
<1>1. thread[t].key \in Keys
  BY DEF IInv, ThreadsOK, WorksAsShown, ShownWith
<1> QED
  BY <1>1 DEF IInv, TypeOK, Key, SetState

LEMMA NothingChanged ==
  ASSUME IInv, NEW t \in Threads, thread[t].pc \in Confirming,
         \/ UNCHANGED key
         \/ \E state : SetState(t, state) /\ (state = "done" => key[thread[t].key].charges # 0)
  PROVE  ChargesNothing(t)
<1>1. thread[t].key \in Keys
  BY DEF IInv, ThreadsOK, WorksAsShown, ShownWith
<1>2. CASE UNCHANGED key
  BY <1>1, <1>2 DEF ChargesNothing, IInv, KeysOK
<1>3. CASE \E state : SetState(t, state) /\ (state = "done" => key[thread[t].key].charges # 0)
  BY <1>3, SetStateEffect DEF ChargesNothing
<1> QED
  BY <1>2, <1>3

LEMMA StepExecute ==
  ASSUME IInv, TypeOK', NEW t \in Threads, Execute(t)
  PROVE  IInv'
<1> DEFINE k == thread[t].key
<1>1. /\ UNCHANGED <<pending, minted, trail, refused>>
      /\ thread[t].pc = "execute" /\ thread[t].pc \in Confirming
  BY DEF Execute, Confirming
<1>2. {"USER_CONFIRMED", "POLICY_APPROVED"} \subseteq trail[thread[t].request]
  BY <1>1 DEF IInv, ThreadsOK, HasEvidence
<1>3. k \in Keys /\ (key[k].state = "done" => key[k].charges # 0)
  BY <1>1 DEF IInv, ThreadsOK, WorksAsShown, ShownWith, KeysOK
<1>4. \/ UNCHANGED key
      \/ \E state \in {"taken", "unknown"} : SetState(t, state)
  BY DEF Execute
<1>5. ChargesNothing(t) /\ key'[k].charges = key[k].charges
  BY <1>1, <1>4, NothingChanged DEF ChargesNothing
<1>6. \/ Goes(t, "attempt")
      \/ Goes(t, "record") /\ key[k].charges > 0
      \/ Says(t, "IDEMPOTENCY_REPLAYED") /\ key[k].state = "done"
      \/ \E event : Says(t, event) /\ event \notin PaidEvents
  BY DEF Execute, PaidEvents
<1>7. ASSUME NEW pc \in {"attempt", "record"}, Goes(t, pc),
             pc = "record" => key[k].charges > 0
      PROVE  HasEvidence(t)' /\ HasCharged(t)' /\ pc \in Confirming
  <2>1. /\ thread'[t].pc = pc /\ thread'[t].request = thread[t].request
        /\ thread'[t].key = k
    BY <1>7, GoesEffect DEF IInv
  <2>2. key[k].charges > 0 => key'[k].charges # 0
    BY <1>3, <1>5 DEF IInv, TypeOK, Key
  <2> QED
    BY <1>1, <1>2, <1>7, <2>1, <2>2 DEF HasEvidence, HasCharged, Confirming
<1> QED
  BY <1>1, <1>3, <1>5, <1>6, <1>7, ConfirmationMoves

(* The attempt goes on record.                                             *)
LEMMA StepAttempt ==
  ASSUME IInv, TypeOK', NEW t \in Threads, Attempt(t)
  PROVE  IInv'
<1>1. UNCHANGED <<pending, key, minted, refused>> /\ thread[t].pc = "attempt"
  BY DEF Attempt
<1>2. thread[t].pc \in Confirming /\ PendingStays
  BY <1>1, SamePending DEF Confirming
<1>3. /\ OthersSame(t) /\ thread'[t].pc = "charge" /\ thread'[t].key = thread[t].key
      /\ thread'[t].request = thread[t].request
  BY GoesEffect DEF Attempt, IInv
<1>4. /\ thread[t].request \in Requests
      /\ {"USER_CONFIRMED", "POLICY_APPROVED"} \subseteq trail[thread[t].request]
  BY <1>1, <1>2 DEF IInv, ThreadsOK, WorksAsShown, HasEvidence
<1>5. TrailGrows /\ "PAYMENT_ATTEMPTED" \in trail'[thread[t].request]
  BY <1>4, LogsEffect DEF Attempt, IInv, Kept
<1>6. HasEvidence(t)' /\ HasCharged(t)'
  BY <1>3, <1>4, <1>5 DEF HasEvidence, HasCharged, TrailGrows
<1>7. ThreadOK(t)'
  BY <1>1, <1>2, <1>6, GoesOn DEF Attempt, Confirming
<1>8. ToldIsTrue'
  BY <1>1, LoggedMoney DEF Attempt, PaidEvents
<1> QED
  BY <1>1, <1>2, <1>3, <1>5, <1>7, <1>8, SamePending, WorkedOnIsNotRefused, QuietHandler

LEMMA StepCharge ==
  ASSUME IInv, TypeOK', NEW t \in Threads, Charge(t)
  PROVE  IInv'
<1> DEFINE k == thread[t].key
<1>1. UNCHANGED <<pending, minted, trail, refused>> /\ thread[t].pc = "charge"
  BY DEF Charge
<1>2. /\ thread[t].pc \in Confirming /\ PendingStays /\ thread[t].request \in Requests
      /\ ShownWith(k, thread[t].request, thread[t].amount)
  BY <1>1, SamePending DEF Confirming, IInv, ThreadsOK, WorksAsShown
<1>3. /\ OthersSame(t) /\ thread'[t].pc = "settle" /\ thread'[t].key = k
      /\ thread'[t].request = thread[t].request
  BY GoesEffect DEF Charge, IInv
<1>4. /\ \A j \in Keys : j # k => key'[j] = key[j]
      /\ key'[k].charges # 0 /\ key'[k].amount = thread[t].amount
  BY <1>2 DEF Charge, Charged, IInv, TypeOK, Key, ShownWith
<1>5. Evidence \subseteq trail[thread[t].request]
  BY <1>1 DEF IInv, ThreadsOK, HasEvidence, Evidence
<1>6. KeysOK' /\ ChargedAsShown' /\ RecordedFirst'
  BY <1>1, <1>2, <1>4, <1>5 DEF IInv, KeysOK, ChargedAsShown, RecordedFirst, ShownWith
<1>7. ChargesStay
  BY <1>4 DEF ChargesStay
<1>8. HasEvidence(t)' /\ HasCharged(t)'
  BY <1>3, <1>4 DEF HasEvidence, HasCharged
<1>9. ThreadOK(t)'
  BY <1>1, <1>2, <1>8, GoesOn DEF Charge, Confirming
<1> QED
  BY <1>1, <1>2, <1>3, <1>4, <1>6, <1>7, <1>9, KeyHandler

(* A refused charge, and a freeze.                                         *)
LEMMA StepGivesUp ==
  ASSUME IInv, TypeOK', NEW t \in Threads, ChargeFails(t) \/ Freeze(t)
  PROVE  IInv'
<1>1. UNCHANGED <<pending, minted, trail, refused>> /\ thread[t].pc \in Confirming
  BY DEF ChargeFails, Freeze, Confirming
<1>2. ChargesNothing(t)
  BY <1>1, NothingChanged DEF ChargeFails, Freeze
<1>3. \E event : Says(t, event) /\ event \notin PaidEvents
  BY DEF ChargeFails, Freeze, PaidEvents
<1> QED
  BY <1>1, <1>2, <1>3, ConfirmationMoves

LEMMA TimesOutEffect ==
  ASSUME IInv, NEW t \in Threads, thread[t].pc \in Confirming,
         key' = [key EXCEPT ![thread[t].key] = TimesOut(thread[t].key, "open")]
  PROVE  /\ \A k \in Keys : k # thread[t].key => key'[k] = key[k]
         /\ key'[thread[t].key].state = "open"
         /\ key'[thread[t].key].charges = key[thread[t].key].charges
         /\ key'[thread[t].key].amount = key[thread[t].key].amount
         /\ key'[thread[t].key].timeouts = key[thread[t].key].timeouts + 1
<1>1. thread[t].key \in Keys
  BY DEF IInv, ThreadsOK, WorksAsShown, ShownWith
<1> QED
  BY <1>1 DEF IInv, TypeOK, Key, TimesOut

LEMMA StepTimeout ==
  ASSUME IInv, TypeOK', NEW t \in Threads, Timeout(t)
  PROVE  IInv'
<1>1. UNCHANGED <<pending, minted, trail, refused>> /\ thread[t].pc \in Confirming
  BY DEF Timeout, Confirming
<1>2. ChargesNothing(t)
  BY <1>1, NothingChanged, TimesOutEffect DEF Timeout, ChargesNothing
<1>3. Goes(t, "freeze") \/ Says(t, "PAYMENT_FAILED")
  BY DEF Timeout
<1>4. Goes(t, "freeze") => HasEvidence(t)' /\ HasCharged(t)'
  BY GoesEffect DEF HasEvidence, HasCharged, IInv
<1> QED
  BY <1>1, <1>2, <1>3, <1>4, ConfirmationMoves DEF Confirming, PaidEvents

LEMMA StepComplete ==
  ASSUME IInv, TypeOK', NEW t \in Threads, Complete(t)
  PROVE  IInv'
<1>1. /\ UNCHANGED <<pending, minted, trail, refused>>
      /\ thread[t].pc \in {"settle", "record"} /\ thread[t].pc \in Confirming
  BY DEF Complete, Confirming
<1>2. key[thread[t].key].charges # 0
  BY <1>1 DEF IInv, ThreadsOK, HasCharged
<1>3. ChargesNothing(t)
  BY <1>1, <1>2, NothingChanged DEF Complete
<1>4. key'[thread[t].key].charges # 0
  BY <1>2, <1>3 DEF ChargesNothing
<1>5. Goes(t, "freeze") \/ Says(t, "PAYMENT_CAPTURED")
  BY DEF Complete
<1>6. Goes(t, "freeze") => HasEvidence(t)' /\ HasCharged(t)'
  BY GoesEffect DEF HasEvidence, HasCharged, IInv
<1> QED
  BY <1>1, <1>3, <1>4, <1>5, <1>6, ConfirmationMoves DEF Confirming

-----------------------------------------------------------------------------
(* The reconciler, the merchant, a restart and time.                       *)

LEMMA StepReconcile ==
  ASSUME IInv, TypeOK', NEW k \in Keys, Reconcile(k)
  PROVE  IInv'
<1>1. UNCHANGED <<pending, thread, minted, trail, refused>> /\ key[k].state = "unknown"
  BY DEF Reconcile
<1>2. /\ \A j \in Keys : /\ key'[j].charges = key[j].charges
                         /\ key'[j].amount = key[j].amount
                         /\ j # k => key'[j] = key[j]
      /\ key'[k].state = IF key[k].charges > 0 THEN "done" ELSE "open"
  BY DEF Reconcile, IInv, TypeOK, Key
<1>3. PendingStays /\ MintedStays /\ ChargesStay /\ TrailGrows
  BY <1>1, <1>2 DEF PendingStays, MintedStays, ChargesStay, TrailGrows
<1>4. ThreadsOK'
  <2>1. ASSUME NEW u \in Threads PROVE ThreadOK(u)'
    BY <1>1, <1>3, OthersOK
  <2> QED
    BY <2>1 DEF ThreadsOK, ThreadOK
<1>5. key[k].charges \in Nat
  BY DEF IInv, TypeOK, Key
<1>6. KeysOK' /\ ChargedAsShown' /\ RecordedFirst'
  BY <1>1, <1>2, <1>5 DEF IInv, KeysOK, ChargedAsShown, RecordedFirst
<1>7. OneKeyPerRequest' /\ PendingIsMinted' /\ RefusedWasShown'
  BY <1>1 DEF IInv, OneKeyPerRequest, PendingIsMinted, ShownWith, RefusedWasShown, Displayed
<1>8. \A r \in Requests : Uncharged(r)' <=> Uncharged(r)
  BY <1>1, <1>2 DEF Uncharged
<1>9. ToldIsTrue'
  BY <1>1, <1>8 DEF IInv, ToldIsTrue, SaidPaid
<1>10. RefusedStaysRefused'
  BY <1>1, <1>8 DEF IInv, TypeOK, RefusedStaysRefused, Underway
<1> QED
  BY <1>4, <1>6, <1>7, <1>9, <1>10 DEF IInv

LEMMA StepElsewhere ==
  ASSUME IInv, TypeOK', UNCHANGED <<pending, thread, key, minted, trail, refused>>
  PROVE  IInv'
<1>1. ThreadsOK'
  BY DEF IInv, ThreadsOK, WorksAsShown, ShownWith, HasEvidence, HasCharged, SaysTheTruth, Uncharged
<1>2. OneKeyPerRequest' /\ PendingIsMinted' /\ KeysOK' /\ RefusedWasShown'
  BY DEF IInv, OneKeyPerRequest, PendingIsMinted, ShownWith, KeysOK, RefusedWasShown, Displayed
<1>3. ChargedAsShown' /\ RecordedFirst' /\ RefusedStaysRefused' /\ ToldIsTrue'
  BY DEF IInv, ChargedAsShown, RecordedFirst, RefusedStaysRefused, ToldIsTrue,
         SaidPaid, Uncharged, Underway
<1> QED
  BY <1>1, <1>2, <1>3 DEF IInv

LEMMA StepRestart ==
  ASSUME IInv, TypeOK', Restart
  PROVE  IInv'
<1>1. UNCHANGED <<key, minted, trail, refused>> /\ TrailGrows
  BY DEF Restart, TrailGrows
<1>2. /\ \A r \in Requests : pending'[r].status = "none"
      /\ \A t \in Threads : thread'[t].pc = "idle"
  BY DEF Restart, NotPending, IdleThread
<1>3. ThreadsOK'
  BY <1>2, NothingIsTrue DEF ThreadsOK, ThreadOK
<1>4. PendingIsMinted'
  BY <1>2 DEF PendingIsMinted
<1>5. RefusedWasShown'
  BY <1>1 DEF IInv, RefusedWasShown, Displayed
<1>6. RefusedStaysRefused'
  <2> SUFFICES ASSUME NEW r \in refused
               PROVE  /\ pending'[r].status = "none"
                      /\ Underway(r)' = {} /\ Uncharged(r)'
    BY <1>1 DEF RefusedStaysRefused
  <2>1. pending'[r].status = "none"
    BY <1>2 DEF IInv, TypeOK
  <2>2. Underway(r)' = {}
    BY <1>2 DEF Underway, Confirming
  <2>3. Uncharged(r)'
    BY <1>1 DEF IInv, RefusedStaysRefused, Uncharged
  <2> QED
    BY <2>1, <2>2, <2>3
<1> QED
  BY <1>1, <1>3, <1>4, <1>5, <1>6, SameKeys, SameMoney DEF IInv

-----------------------------------------------------------------------------
(* The invariant.                                                          *)

LEMMA InitIInv == Init => IInv
<1> SUFFICES ASSUME Init PROVE IInv
  OBVIOUS
<1>1. TypeOK
  BY TypeInit
<1>2. /\ \A r \in Requests : pending[r].status = "none" /\ trail[r] = {}
      /\ \A t \in Threads : thread[t].pc = "idle"
      /\ \A k \in Keys : /\ key[k].state = "open" /\ key[k].charges = 0
                         /\ minted[k].request = NoRequest
      /\ refused = {}
  BY DEF Init, NotPending, IdleThread, FreshKey
<1>3. OneKeyPerRequest /\ PendingIsMinted /\ KeysOK /\ RefusedWasShown
  BY <1>2, CheckoutAssumption DEF OneKeyPerRequest, PendingIsMinted, KeysOK, RefusedWasShown
<1>4. ThreadsOK
  BY <1>2 DEF ThreadsOK, WorksAsShown, HasEvidence, HasCharged, SaysTheTruth, Confirming
<1>5. ChargedAsShown /\ RecordedFirst /\ RefusedStaysRefused /\ ToldIsTrue
  BY <1>2
  DEF ChargedAsShown, RecordedFirst, RefusedStaysRefused, ToldIsTrue, SaidPaid
<1> QED
  BY <1>1, <1>3, <1>4, <1>5 DEF IInv

LEMMA NextIInv == IInv /\ [Next]_vars => IInv'
<1> SUFFICES ASSUME IInv, [Next]_vars PROVE IInv'
  OBVIOUS
<1>1. TypeOK'
  BY TypeStep DEF IInv
<1>2. ASSUME NEW t \in Threads, Handler(t) PROVE IInv'
  BY <1>1, <1>2, StepReadItem, StepShow, StepDecline, StepBeginConfirm, StepCheckPrice, StepMark,
     StepEvaluate, StepExecute, StepAttempt, StepCharge, StepGivesUp, StepTimeout, StepComplete,
     StepReport, StepHandlerFails
  DEF Handler
<1>3. ASSUME NEW k \in Keys, Reconcile(k) PROVE IInv'
  BY <1>1, <1>3, StepReconcile
<1>4. CASE SetPrice \/ SetAvailable \/ Remove \/ Add \/ Tick \/ UNCHANGED vars
  BY <1>1, <1>4, StepElsewhere DEF SetPrice, SetAvailable, Remove, Add, Tick, vars
<1>5. CASE Restart
  BY <1>1, <1>5, StepRestart
<1> QED
  BY <1>2, <1>3, <1>4, <1>5 DEF Next

LEMMA CheckoutInvariant == Spec => []IInv
BY InitIInv, NextIInv, PTL DEF Spec

(* The state of a pending purchase, a handler, a key and the audit log of  *)
(* a request is always one the checkout service knows.                     *)
THEOREM CheckoutTypeCorrect == Spec => []TypeOK
<1>1. IInv => TypeOK
  BY DEF IInv
<1> QED
  BY <1>1, CheckoutInvariant, PTL

(* The amount charged is the amount the human saw, whatever the merchant   *)
(* does to the catalog between display and charge (checkout.py confirm()). *)
THEOREM HumanAmountIsCharged == Spec => []ChargedAsShown
<1>1. IInv => ChargedAsShown
  BY DEF IInv
<1> QED
  BY <1>1, CheckoutInvariant, PTL

(* No charge without the human's confirmation, the policy's approval and   *)
(* the attempt in the audit log before it: every stage of the lifecycle    *)
(* between them is reached (demo.py, LIFECYCLE).                           *)
THEOREM NoChargeUnrecorded == Spec => []ChargeIsEvidenced
<1>1. IInv => ChargeIsEvidenced
  <2> SUFFICES ASSUME IInv, NEW k \in Keys, key[k].charges > 0
               PROVE  {"confirmed", "authorised", "executing"}
                        \subseteq Reached(minted[k].request)
    BY DEF ChargeIsEvidenced
  <2>1. {"USER_CONFIRMED", "POLICY_APPROVED", "PAYMENT_ATTEMPTED"}
          \subseteq trail[minted[k].request]
    BY DEF IInv, RecordedFirst, Evidence
  <2>2. /\ DOMAIN LIFECYCLE = 1..5
        /\ LIFECYCLE[2] = <<"USER_CONFIRMED", "confirmed">>
        /\ LIFECYCLE[3] = <<"POLICY_APPROVED", "authorised">>
        /\ LIFECYCLE[4] = <<"PAYMENT_ATTEMPTED", "executing">>
    BY DEF LIFECYCLE
  <2>3. \A i \in {2, 3, 4} : LIFECYCLE[i][2] \in Reached(minted[k].request)
    BY <2>1, <2>2 DEF Reached
  <2> QED
    BY <2>2, <2>3
<1> QED
  BY <1>1, CheckoutInvariant, PTL

(* A request declined while no confirmation of it was under way is never   *)
(* worked on again nor charged.                                            *)
THEOREM RefusalIsFinal == Spec => []RefusedStaysRefused
<1>1. IInv => RefusedStaysRefused
  BY DEF IInv
<1> QED
  BY <1>1, CheckoutInvariant, PTL

(* A label that says paid stands for an event that says so.                *)
LEMMA PaidLabels ==
  ASSUME NEW r, NEW order \in {OUTCOME_EVENTS, STATUS_ORDER},
         NEW label \in {"COMPLETED", "REPLAYED"}, Shows(order, label, r)
  PROVE  SaidPaid(r)
<1>1. PICK i \in DOMAIN order : order[i][1] \in trail[r] /\ order[i][2] = label
  BY DEF Shows
<1>2. CASE order = OUTCOME_EVENTS
  <2>1. i \in 1..7
    BY <1>1, <1>2 DEF OUTCOME_EVENTS
  <2>2. order[i][1] \in PaidEvents
    BY <1>1, <1>2, <2>1 DEF OUTCOME_EVENTS, PaidEvents
  <2> QED
    BY <1>1, <2>2 DEF SaidPaid
<1>3. CASE order = STATUS_ORDER
  <2>1. i \in 1..7
    BY <1>1, <1>3 DEF STATUS_ORDER
  <2>2. order[i][1] \in PaidEvents
    BY <1>1, <1>3, <2>1 DEF STATUS_ORDER, PaidEvents
  <2> QED
    BY <1>1, <2>2 DEF SaidPaid
<1> QED
  BY <1>2, <1>3

LEMMA SettledStage ==
  ASSUME NEW r, "settled" \in Reached(r)
  PROVE  SaidPaid(r)
<1>1. PICK i \in DOMAIN LIFECYCLE : LIFECYCLE[i][1] \in trail[r] /\ LIFECYCLE[i][2] = "settled"
  BY DEF Reached
<1>2. i \in 1..5
  BY <1>1 DEF LIFECYCLE
<1>3. LIFECYCLE[i][1] \in PaidEvents
  BY <1>1, <1>2 DEF LIFECYCLE, PaidEvents
<1> QED
  BY <1>1, <1>3 DEF SaidPaid

(* When explain(), the list of transactions or the lifecycle says that a   *)
(* purchase was paid for, it was.                                          *)
THEOREM ExplainedMoneyMoved == Spec => []MoneyMovedIsTrue
<1>1. IInv => MoneyMovedIsTrue
  <2> SUFFICES ASSUME IInv, NEW r \in Requests, ShowsPaid(r) PROVE ~Uncharged(r)
    BY DEF MoneyMovedIsTrue
  <2>1. MoneyMoved(r) => SaidPaid(r)
    BY DEF MoneyMoved, SaidPaid, PaidEvents
  <2>2. SaidPaid(r)
    BY <2>1, PaidLabels, SettledStage DEF ShowsPaid
  <2> QED
    BY <2>2 DEF IInv, ToldIsTrue
<1> QED
  BY <1>1, CheckoutInvariant, PTL

-----------------------------------------------------------------------------
(* How often a key can still be charged.                                   *)

(* About to charge under k; about to freeze it.                            *)
Ready(k) == {t \in Threads : thread[t].pc \in {"attempt", "charge"} /\ thread[t].key = k}
Freezing(k) == {t \in Threads : thread[t].pc = "freeze" /\ thread[t].key = k}

Chargers(k) == Cardinality(Ready(k))

(* Whether another attempt can still take k, now or when it is settled.    *)
Room(k) ==
  IF key[k].state = "open" \/ (key[k].state = "unknown" /\ key[k].charges = 0) THEN 1 ELSE 0

(* The freezes to come that could make room again.                         *)
Freezes(k) == IF key[k].charges = 0 THEN Cardinality(Freezing(k)) ELSE 0

Budget(k) ==
  /\ key[k].charges + Chargers(k) + Room(k) + Freezes(k) <= 1 + key[k].timeouts
  /\ Freezes(k) <= key[k].timeouts

Budgets == \A k \in Keys : Budget(k)

LEMMA Finite ==
  ASSUME NEW k
  PROVE  IsFiniteSet(Ready(k)) /\ IsFiniteSet(Freezing(k))
BY CheckoutAssumption, FS_Subset DEF Ready, Freezing

LEMMA Counts ==
  ASSUME NEW k
  PROVE  /\ Chargers(k) \in Nat /\ Cardinality(Freezing(k)) \in Nat
         /\ Freezes(k) \in Nat /\ Room(k) \in Nat
BY Finite, FS_CardinalityType DEF Chargers, Freezes, Room

LEMMA CountsNext ==
  ASSUME NEW k
  PROVE  /\ Chargers(k)' \in Nat /\ Cardinality(Freezing(k)') \in Nat
         /\ Freezes(k)' \in Nat /\ Room(k)' \in Nat
<1>1. IsFiniteSet(Ready(k)') /\ IsFiniteSet(Freezing(k)')
  BY CheckoutAssumption, FS_Subset DEF Ready, Freezing
<1> QED
  BY <1>1, FS_CardinalityType DEF Chargers, Freezes, Room

(* A set that gains or loses one thread, or none.                          *)
LEMMA Fewer ==
  ASSUME NEW S, NEW T, IsFiniteSet(S), T \subseteq S
  PROVE  Cardinality(T) <= Cardinality(S)
BY FS_Subset

LEMMA OneMore ==
  ASSUME NEW S, NEW T, NEW t, IsFiniteSet(S), T \subseteq S \cup {t}
  PROVE  Cardinality(T) <= Cardinality(S) + 1
<1>0. Cardinality(S) \in Nat
  BY FS_CardinalityType
<1>1. /\ IsFiniteSet(S \cup {t})
      /\ Cardinality(S \cup {t}) <= Cardinality(S) + 1
  <2>1. CASE t \in S
    <3>1. S \cup {t} = S
      BY <2>1
    <3> QED
      BY <1>0, <3>1
  <2>2. CASE t \notin S
    <3>1. /\ IsFiniteSet(S \cup {t})
          /\ Cardinality(S \cup {t}) = Cardinality(S) + 1
      BY <2>2, FS_AddElement
    <3> QED
      BY <1>0, <3>1
  <2> QED
    BY <2>1, <2>2
<1>2. Cardinality(T) <= Cardinality(S \cup {t})
  BY <1>1, Fewer
<1>3. IsFiniteSet(T)
  BY <1>1, FS_Subset
<1> QED
  BY <1>1, <1>2, <1>3, FS_CardinalityType

LEMMA OneFewer ==
  ASSUME NEW S, NEW T, NEW t \in S, IsFiniteSet(S), T \subseteq S \ {t}
  PROVE  Cardinality(T) + 1 <= Cardinality(S)
<1>1. /\ IsFiniteSet(S \ {t})
      /\ Cardinality(S \ {t}) = Cardinality(S) - 1
  BY FS_RemoveElement
<1>2. Cardinality(T) <= Cardinality(S \ {t})
  BY <1>1, Fewer
<1>3. IsFiniteSet(T)
  BY <1>1, FS_Subset
<1> QED
  BY <1>1, <1>2, <1>3, FS_CardinalityType

(* Nobody comes to charge or to freeze k, and k stays as it is.            *)
LEMMA BudgetSame ==
  ASSUME NEW k, Budget(k), UNCHANGED key[k],
         Ready(k)' \subseteq Ready(k), Freezing(k)' \subseteq Freezing(k),
         key[k].charges \in Nat, key[k].timeouts \in Nat
  PROVE  Budget(k)'
<1>1. Chargers(k)' <= Chargers(k) /\ Cardinality(Freezing(k)') <= Cardinality(Freezing(k))
  BY Finite, Fewer DEF Chargers
<1>2. Freezes(k)' <= Freezes(k) /\ Room(k)' = Room(k)
  BY <1>1 DEF Freezes, Room
<1> QED
  BY <1>1, <1>2, Counts, CountsNext DEF Budget

(* What thread t has to do with the two sets.                              *)
LEMMA SetsMove ==
  ASSUME NEW t \in Threads, OthersSame(t), NEW k
  PROVE  /\ thread'[t].pc \notin {"attempt", "charge"} \/ thread'[t].key # k
              => Ready(k)' \subseteq Ready(k) \ {t}
         /\ thread'[t].pc # "freeze" \/ thread'[t].key # k
              => Freezing(k)' \subseteq Freezing(k) \ {t}
         /\ Ready(k)' \subseteq Ready(k) \cup {t}
         /\ Freezing(k)' \subseteq Freezing(k) \cup {t}
BY DEF OthersSame, Ready, Freezing

(* The same, counted.                                                      *)
LEMMA CountsMove ==
  ASSUME NEW t \in Threads, OthersSame(t), NEW k
  PROVE  /\ Chargers(k)' <= Chargers(k) + 1
         /\ thread'[t].pc \notin {"attempt", "charge"} \/ thread'[t].key # k
              => Chargers(k)' <= Chargers(k)
         /\ t \in Ready(k) /\ thread'[t].pc \notin {"attempt", "charge"}
              => Chargers(k)' + 1 <= Chargers(k)
         /\ Cardinality(Freezing(k)') <= Cardinality(Freezing(k)) + 1
         /\ thread'[t].pc # "freeze" \/ thread'[t].key # k
              => Cardinality(Freezing(k)') <= Cardinality(Freezing(k))
         /\ t \in Freezing(k) /\ thread'[t].pc # "freeze"
              => Cardinality(Freezing(k)') + 1 <= Cardinality(Freezing(k))
<1>1. IsFiniteSet(Ready(k)) /\ IsFiniteSet(Freezing(k))
  BY Finite
<1>2. /\ Chargers(k)' <= Chargers(k) + 1
      /\ Cardinality(Freezing(k)') <= Cardinality(Freezing(k)) + 1
  BY <1>1, SetsMove, OneMore DEF Chargers
<1>3. thread'[t].pc \notin {"attempt", "charge"} \/ thread'[t].key # k
        => Chargers(k)' <= Chargers(k)
  BY <1>1, SetsMove, Fewer DEF Chargers
<1>4. t \in Ready(k) /\ thread'[t].pc \notin {"attempt", "charge"}
        => Chargers(k)' + 1 <= Chargers(k)
  BY <1>1, SetsMove, OneFewer DEF Chargers
<1>5. thread'[t].pc # "freeze" \/ thread'[t].key # k
        => Cardinality(Freezing(k)') <= Cardinality(Freezing(k))
  BY <1>1, SetsMove, Fewer
<1>6. t \in Freezing(k) /\ thread'[t].pc # "freeze"
        => Cardinality(Freezing(k)') + 1 <= Cardinality(Freezing(k))
  BY <1>1, SetsMove, OneFewer
<1> QED
  BY <1>2, <1>3, <1>4, <1>5, <1>6

(* A step of a thread leaves the keys alone that it does not work with.    *)
LEMMA BudgetElsewhere ==
  ASSUME IInv, NEW t \in Threads, OthersSame(t), NEW k \in Keys, Budget(k),
         UNCHANGED key[k],
         \/ thread'[t].pc \notin {"attempt", "charge", "freeze"}
         \/ thread'[t].key # k
  PROVE  Budget(k)'
<1>1. Ready(k)' \subseteq Ready(k) /\ Freezing(k)' \subseteq Freezing(k)
  BY SetsMove
<1>2. key[k].charges \in Nat /\ key[k].timeouts \in Nat
  BY DEF IInv, TypeOK, Key
<1> QED
  BY <1>1, <1>2, BudgetSame

LEMMA BudgetExecute ==
  ASSUME IInv, NEW k \in Keys, Budget(k), NEW t \in Threads, Execute(t)
  PROVE  Budget(k)'
<1>1. /\ thread[t].pc = "execute" /\ thread[t].pc \in Confirming
      /\ key[k].charges \in Nat /\ key[k].timeouts \in Nat
      /\ thread[t].key \in Keys
  BY DEF Execute, Confirming, IInv, TypeOK, Key, ThreadsOK, WorksAsShown, ShownWith
<1>2. OthersSame(t) /\ (thread'[t].key = thread[t].key \/ thread'[t].pc = "log")
  BY GoesEffect, SaysEffect DEF Execute, IInv
<1>3. \/ UNCHANGED key
      \/ \E state \in {"taken", "unknown"} : SetState(t, state)
  BY DEF Execute
<1>4. \A j \in Keys : j # thread[t].key => key'[j] = key[j]
  BY <1>1, <1>3, SetStateEffect
<1>5. CASE k # thread[t].key
  BY <1>2, <1>4, <1>5, BudgetElsewhere
<1>6. CASE k = thread[t].key
  <2>1. CASE thread'[t].pc \notin {"attempt", "charge", "freeze"} /\ UNCHANGED key
    BY <1>2, <2>1, BudgetElsewhere
  <2>2. CASE key[k].state = "open" /\ SetState(t, "taken")
    <3>1. /\ key'[k].state = "taken" /\ key'[k].charges = key[k].charges
          /\ key'[k].timeouts = key[k].timeouts
      BY <1>1, <1>6, <2>2, SetStateEffect
    <3>2. thread'[t].pc # "freeze"
      BY <2>2, GoesEffect, SaysEffect DEF Execute, IInv
    <3>3. Room(k) = 1 /\ Room(k)' = 0
      BY <2>2, <3>1 DEF Room
    <3>4. /\ Chargers(k)' <= Chargers(k) + 1
          /\ Freezes(k)' <= Freezes(k)
      BY <1>2, <3>1, <3>2, CountsMove DEF Freezes
    <3> QED
      BY <1>1, <3>1, <3>3, <3>4, Counts, CountsNext DEF Budget
  <2>3. CASE Abandoned(k) /\ key[k].charges = 0 /\ Goes(t, "attempt") /\ UNCHANGED key
    <3>1. thread'[t].pc = "attempt"
      BY <2>3, GoesEffect DEF IInv
    <3>2. Ready(k) = {}
      BY <2>3 DEF Abandoned, Ready
    <3>3. Chargers(k) = 0
      BY <3>2, FS_EmptySet DEF Chargers
    <3>4. Chargers(k)' <= 1 /\ Freezes(k)' <= Freezes(k)
      BY <1>2, <2>3, <3>1, <3>3, CountsMove DEF Freezes
    <3>5. Room(k)' = 0
      BY <2>3 DEF Room, Abandoned
    <3> QED
      BY <1>1, <2>3, <3>4, <3>5, Counts, CountsNext DEF Budget
  <2>4. CASE Abandoned(k) /\ SetState(t, "unknown") /\ Says(t, "PAYMENT_PENDING_VERIFICATION")
    <3>1. /\ key'[k].state = "unknown" /\ key'[k].charges = key[k].charges
          /\ key'[k].timeouts = key[k].timeouts
      BY <1>1, <1>6, <2>4, SetStateEffect
    <3>2. thread'[t].pc = "log"
      BY <2>4, SaysEffect DEF IInv
    <3>3. Ready(k) = {}
      BY <2>4 DEF Abandoned, Ready
    <3>4. Chargers(k) = 0
      BY <3>3, FS_EmptySet DEF Chargers
    <3>5. Chargers(k)' <= 0 /\ Freezes(k)' <= Freezes(k)
      BY <1>2, <3>1, <3>2, <3>4, CountsMove DEF Freezes
    <3>6. Room(k)' = IF key[k].charges = 0 THEN 1 ELSE 0
      BY <3>1 DEF Room
    <3> QED
      BY <1>1, <3>1, <3>4, <3>5, <3>6, Counts, CountsNext DEF Budget
  <2> QED
    BY <1>6, <2>1, <2>2, <2>3, <2>4, GoesEffect, SaysEffect DEF Execute, IInv
<1> QED
  BY <1>5, <1>6

LEMMA BudgetCharge ==
  ASSUME IInv, NEW k \in Keys, Budget(k), NEW t \in Threads, Charge(t)
  PROVE  Budget(k)'
<1>1. /\ thread[t].pc = "charge" /\ thread[t].pc \in Confirming
      /\ key[k].charges \in Nat /\ key[k].timeouts \in Nat
  BY DEF Charge, Confirming, IInv, TypeOK, Key
<1>2. OthersSame(t) /\ thread'[t].pc = "settle"
  BY GoesEffect DEF Charge, IInv
<1>3. CASE k # thread[t].key
  <2>1. key'[k] = key[k]
    BY <1>3 DEF Charge, IInv, TypeOK
  <2> QED
    BY <1>2, <2>1, BudgetElsewhere
<1>4. CASE k = thread[t].key
  <2>1. /\ key'[k].state = key[k].state /\ key'[k].charges = key[k].charges + 1
        /\ key'[k].timeouts = key[k].timeouts
    BY <1>4 DEF Charge, Charged, IInv, TypeOK, Key
  <2>2. Chargers(k)' + 1 <= Chargers(k)
    BY <1>1, <1>2, <1>4, CountsMove DEF Ready
  <2>3. Freezes(k)' = 0
    BY <1>1, <2>1 DEF Freezes
  <2>4. Room(k)' <= Room(k)
    BY <1>1, <2>1 DEF Room
  <2> QED
    BY <1>1, <2>1, <2>2, <2>3, <2>4, Counts, CountsNext DEF Budget
<1> QED
  BY <1>3, <1>4

LEMMA BudgetAttempt ==
  ASSUME IInv, NEW k \in Keys, Budget(k), NEW t \in Threads, Attempt(t)
  PROVE  Budget(k)'
<1>1. /\ key[k].charges \in Nat /\ key[k].timeouts \in Nat
      /\ UNCHANGED key /\ thread[t].pc = "attempt"
  BY DEF Attempt, IInv, TypeOK, Key
<1>2. /\ OthersSame(t) /\ thread'[t].pc = "charge" /\ thread'[t].key = thread[t].key
  BY GoesEffect DEF Attempt, IInv
<1>3. Ready(k)' \subseteq Ready(k) /\ Freezing(k)' \subseteq Freezing(k)
  BY <1>1, <1>2 DEF OthersSame, Ready, Freezing
<1> QED
  BY <1>1, <1>3, BudgetSame

LEMMA BudgetChargeFails ==
  ASSUME IInv, NEW k \in Keys, Budget(k), NEW t \in Threads, ChargeFails(t)
  PROVE  Budget(k)'
<1>1. /\ thread[t].pc \in {"attempt", "charge"} /\ thread[t].pc \in Confirming
      /\ key[k].charges \in Nat /\ key[k].timeouts \in Nat
  BY DEF ChargeFails, Confirming, IInv, TypeOK, Key
<1>2. OthersSame(t) /\ thread'[t].pc = "log"
  BY SaysEffect DEF ChargeFails, IInv
<1>3. CASE UNCHANGED key[k]
  BY <1>2, <1>3, BudgetElsewhere
<1>4. CASE k = thread[t].key /\ SetState(t, "open")
  <2>1. /\ key'[k].charges = key[k].charges /\ key'[k].timeouts = key[k].timeouts
    BY <1>1, <1>4, SetStateEffect
  <2>2. Chargers(k)' + 1 <= Chargers(k)
    BY <1>1, <1>2, <1>4, CountsMove DEF Ready
  <2>3. Freezes(k)' <= Freezes(k)
    BY <1>2, <2>1, CountsMove DEF Freezes
  <2>4. Room(k)' <= 1
    BY DEF Room
  <2> QED
    BY <1>1, <2>1, <2>2, <2>3, <2>4, Counts, CountsNext DEF Budget
<1> QED
  BY <1>1, <1>3, <1>4, SetStateEffect DEF ChargeFails

LEMMA BudgetTimeout ==
  ASSUME IInv, NEW k \in Keys, Budget(k), NEW t \in Threads, Timeout(t)
  PROVE  Budget(k)'
<1>1. /\ thread[t].pc \in {"charge", "settle"} /\ thread[t].pc \in Confirming
      /\ key[k].charges \in Nat /\ key[k].timeouts \in Nat
  BY DEF Timeout, Confirming, IInv, TypeOK, Key
<1>2. /\ OthersSame(t) /\ thread'[t].pc \in {"freeze", "log"}
      /\ thread'[t].pc = "freeze" => thread'[t].key = thread[t].key
  BY GoesEffect, SaysEffect DEF Timeout, IInv
<1>3. CASE UNCHANGED key /\ thread'[t].pc = "log"
  BY <1>2, <1>3, BudgetElsewhere
<1>4. CASE key' = [key EXCEPT ![thread[t].key] = TimesOut(thread[t].key, "open")]
  <2>1. /\ \A j \in Keys : j # thread[t].key => key'[j] = key[j]
        /\ k = thread[t].key => /\ key'[k].charges = key[k].charges
                                /\ key'[k].timeouts = key[k].timeouts + 1
    BY <1>1, <1>4, TimesOutEffect
  <2>2. CASE k # thread[t].key
    BY <1>2, <2>1, <2>2, BudgetElsewhere
  <2>3. CASE k = thread[t].key
    <3>1. Room(k)' <= 1
      BY DEF Room
    <3>2. Chargers(k)' <= Chargers(k)
      BY <1>2, CountsMove
    <3>3. CASE key[k].charges = 0
      <4>1. thread[t].pc = "charge"
        BY <1>1, <2>3, <3>3 DEF IInv, ThreadsOK, HasCharged
      <4>2. Chargers(k)' + 1 <= Chargers(k)
        BY <1>2, <2>3, <4>1, CountsMove DEF Ready
      <4>3. Freezes(k)' <= Freezes(k) + 1
        BY <1>2, <2>1, <2>3, <3>3, CountsMove DEF Freezes
      <4> QED
        BY <1>1, <2>1, <2>3, <3>1, <4>2, <4>3, Counts, CountsNext DEF Budget
    <3>4. CASE key[k].charges # 0
      <4>1. Freezes(k)' = 0
        BY <2>1, <2>3, <3>4 DEF Freezes
      <4> QED
        BY <1>1, <2>1, <2>3, <3>1, <3>2, <4>1, Counts, CountsNext DEF Budget
    <3> QED
      BY <3>3, <3>4
  <2> QED
    BY <2>2, <2>3
<1> QED
  BY <1>3, <1>4, SaysEffect DEF Timeout, IInv

LEMMA BudgetComplete ==
  ASSUME IInv, NEW k \in Keys, Budget(k), NEW t \in Threads, Complete(t)
  PROVE  Budget(k)'
<1>1. /\ thread[t].pc \in {"settle", "record"} /\ thread[t].pc \in Confirming
      /\ key[k].charges \in Nat /\ key[k].timeouts \in Nat
  BY DEF Complete, Confirming, IInv, TypeOK, Key
<1>2. /\ OthersSame(t) /\ thread'[t].pc \in {"freeze", "log"}
      /\ thread'[t].pc = "freeze" => thread'[t].key = thread[t].key
  BY GoesEffect, SaysEffect DEF Complete, IInv
<1>3. /\ \A j \in Keys : j # thread[t].key => key'[j] = key[j]
      /\ k = thread[t].key => /\ key'[k].charges = key[k].charges
                              /\ key'[k].timeouts = key[k].timeouts
                              /\ key'[k].state \in {key[k].state, "done"}
  BY <1>1, SetStateEffect DEF Complete
<1>4. CASE k # thread[t].key
  BY <1>2, <1>3, <1>4, BudgetElsewhere
<1>5. CASE k = thread[t].key
  <2>1. key[k].charges # 0
    BY <1>1, <1>5 DEF IInv, ThreadsOK, HasCharged
  <2>2. Freezes(k)' = 0 /\ Room(k)' <= Room(k)
    BY <1>3, <1>5, <2>1 DEF Freezes, Room
  <2>3. Chargers(k)' <= Chargers(k)
    BY <1>2, CountsMove
  <2> QED
    BY <1>1, <1>3, <1>5, <2>2, <2>3, Counts, CountsNext DEF Budget
<1> QED
  BY <1>4, <1>5

LEMMA BudgetFreeze ==
  ASSUME IInv, NEW k \in Keys, Budget(k), NEW t \in Threads, Freeze(t)
  PROVE  Budget(k)'
<1>1. /\ thread[t].pc = "freeze" /\ thread[t].pc \in Confirming
      /\ key[k].charges \in Nat /\ key[k].timeouts \in Nat
  BY DEF Freeze, Confirming, IInv, TypeOK, Key
<1>2. OthersSame(t) /\ thread'[t].pc = "log"
  BY SaysEffect DEF Freeze, IInv
<1>3. CASE UNCHANGED key[k]
  BY <1>2, <1>3, BudgetElsewhere
<1>4. CASE k = thread[t].key /\ SetState(t, "unknown")
  <2>1. /\ key'[k].state = "unknown" /\ key'[k].charges = key[k].charges
        /\ key'[k].timeouts = key[k].timeouts
    BY <1>1, <1>4, SetStateEffect
  <2>2. /\ Chargers(k)' <= Chargers(k)
        /\ Cardinality(Freezing(k)') + 1 <= Cardinality(Freezing(k))
    BY <1>1, <1>2, <1>4, CountsMove DEF Freezing
  <2>3. CASE key[k].charges = 0
    <3>1. Freezes(k)' + 1 <= Freezes(k) /\ Room(k)' = 1
      BY <2>1, <2>2, <2>3 DEF Freezes, Room
    <3> QED
      BY <1>1, <2>1, <2>2, <3>1, Counts, CountsNext DEF Budget
  <2>4. CASE key[k].charges # 0
    <3>1. Freezes(k)' = 0 /\ Room(k)' = 0
      BY <2>1, <2>4 DEF Freezes, Room
    <3> QED
      BY <1>1, <2>1, <2>2, <3>1, Counts, CountsNext DEF Budget
  <2> QED
    BY <2>3, <2>4
<1> QED
  BY <1>1, <1>3, <1>4, SetStateEffect DEF Freeze

LEMMA BudgetReconcile ==
  ASSUME IInv, NEW k \in Keys, Budget(k), NEW j \in Keys, Reconcile(j)
  PROVE  Budget(k)'
<1>1. /\ key[k].charges \in Nat /\ key[k].timeouts \in Nat
      /\ UNCHANGED thread /\ key[j].state = "unknown"
  BY DEF Reconcile, IInv, TypeOK, Key
<1>2. Ready(k)' = Ready(k) /\ Freezing(k)' = Freezing(k)
  BY <1>1 DEF Ready, Freezing
<1>3. CASE k # j
  <2>1. key'[k] = key[k]
    BY <1>3 DEF Reconcile, IInv, TypeOK
  <2> QED
    BY <1>1, <1>2, <2>1, BudgetSame
<1>4. CASE k = j
  <2>1. /\ key'[k].state = IF key[k].charges > 0 THEN "done" ELSE "open"
        /\ key'[k].charges = key[k].charges /\ key'[k].timeouts = key[k].timeouts
    BY <1>4 DEF Reconcile, IInv, TypeOK, Key
  <2>2. Room(k)' = Room(k)
    BY <1>1, <1>4, <2>1 DEF Room
  <2>3. Chargers(k)' = Chargers(k) /\ Freezes(k)' = Freezes(k)
    BY <1>2, <2>1 DEF Chargers, Freezes
  <2> QED
    BY <1>1, <2>1, <2>2, <2>3 DEF Budget
<1> QED
  BY <1>3, <1>4

(* What charges nothing and comes to no charge.                            *)
LEMMA BudgetQuiet ==
  ASSUME IInv, NEW k \in Keys, Budget(k), NEW t \in Threads,
         \/ ReadItem(t) \/ Show(t) \/ Decline(t) \/ BeginConfirm(t) \/ CheckPrice(t)
         \/ Mark(t) \/ Evaluate(t) \/ Report(t) \/ HandlerFails(t)
  PROVE  Budget(k)'
<1>1. CASE ReadItem(t) \/ Show(t) \/ Decline(t) \/ BeginConfirm(t)
  <2>1. UNCHANGED key
    BY <1>1 DEF ReadItem, Show, Decline, BeginConfirm
  <2>2. \E handler : thread' = [thread EXCEPT ![t] = handler] /\ handler.pc \in {"show", "log", "price"}
    <3>1. CASE ReadItem(t)
      <4>1. PICK quantity \in Quantities :
              thread' = [thread EXCEPT ![t] =
                          [IdleThread EXCEPT !.pc = "show", !.quantity = quantity,
                                             !.amount = item.price * quantity]]
        BY <3>1 DEF ReadItem
      <4>2. [IdleThread EXCEPT !.pc = "show", !.quantity = quantity,
                               !.amount = item.price * quantity].pc = "show"
        BY DEF IdleThread
      <4> QED
        BY <4>1, <4>2
    <3>2. CASE Show(t) \/ Decline(t)
      <4>1. PICK r, event :
              thread' = [thread EXCEPT ![t] =
                          [IdleThread EXCEPT !.pc = "log", !.request = r, !.event = event]]
        BY <3>2 DEF Show, Decline
      <4>2. [IdleThread EXCEPT !.pc = "log", !.request = r, !.event = event].pc = "log"
        BY DEF IdleThread
      <4> QED
        BY <4>1, <4>2
    <3>3. CASE BeginConfirm(t)
      <4>1. PICK r \in Requests, pc \in {"price", "log"}, event \in {"none", "POLICY_DENIED"} :
              Begins(t, r, pc, event)
        BY <3>3 DEF BeginConfirm
      <4>2. thread' = [thread EXCEPT ![t] =
                        [pc |-> pc, request |-> r, key |-> pending[r].key, event |-> event,
                         quantity |-> pending[r].quantity, amount |-> pending[r].amount]]
        BY <4>1 DEF Begins
      <4>3. [pc |-> pc, request |-> r, key |-> pending[r].key, event |-> event,
             quantity |-> pending[r].quantity, amount |-> pending[r].amount].pc = pc
        OBVIOUS
      <4> QED
        BY <4>2, <4>3
    <3> QED
      BY <1>1, <3>1, <3>2, <3>3
  <2>3. OthersSame(t) /\ thread'[t].pc \in {"show", "log", "price"}
    BY <2>2 DEF IInv, TypeOK, OthersSame
  <2> QED
    BY <2>1, <2>3, BudgetElsewhere
<1>2. CASE CheckPrice(t) \/ Mark(t) \/ Evaluate(t) \/ Report(t) \/ HandlerFails(t)
  <2>1. UNCHANGED key
    BY <1>2 DEF CheckPrice, Mark, Evaluate, Report, HandlerFails
  <2>2. \/ Ends(t) \/ \E event : Says(t, event)
        \/ \E pc \in {"mark", "evaluate", "execute"} : Goes(t, pc)
    BY <1>2 DEF CheckPrice, Mark, Evaluate, Report, HandlerFails
  <2>3. OthersSame(t) /\ thread'[t].pc \in {"idle", "log", "mark", "evaluate", "execute"}
    BY <2>2, EndsEffect, SaysEffect, GoesEffect DEF IInv
  <2> QED
    BY <2>1, <2>3, BudgetElsewhere
<1> QED
  BY <1>1, <1>2

LEMMA BudgetsNext == IInv /\ Budgets /\ [Next]_vars => Budgets'
<1> SUFFICES ASSUME IInv, Budgets, [Next]_vars, NEW k \in Keys PROVE Budget(k)'
  BY DEF Budgets
<1>1. Budget(k) /\ key[k].charges \in Nat /\ key[k].timeouts \in Nat
  BY DEF Budgets, IInv, TypeOK, Key
<1>2. ASSUME NEW t \in Threads, Handler(t) PROVE Budget(k)'
  BY <1>1, <1>2, BudgetQuiet, BudgetExecute, BudgetAttempt, BudgetCharge, BudgetChargeFails,
     BudgetTimeout, BudgetComplete, BudgetFreeze
  DEF Handler
<1>3. ASSUME NEW j \in Keys, Reconcile(j) PROVE Budget(k)'
  BY <1>1, <1>3, BudgetReconcile
<1>4. CASE SetPrice \/ SetAvailable \/ Remove \/ Add \/ Tick \/ UNCHANGED vars
  <2>1. UNCHANGED <<thread, key>>
    BY <1>4 DEF SetPrice, SetAvailable, Remove, Add, Tick, vars
  <2>2. Ready(k)' = Ready(k) /\ Freezing(k)' = Freezing(k)
    BY <2>1 DEF Ready, Freezing
  <2> QED
    BY <1>1, <2>1, <2>2, BudgetSame
<1>5. CASE Restart
  <2>1. UNCHANGED key /\ \A t \in Threads : thread'[t].pc = "idle"
    BY <1>5 DEF Restart, IdleThread
  <2>2. Ready(k)' = {} /\ Freezing(k)' = {}
    BY <2>1 DEF Ready, Freezing
  <2> QED
    BY <1>1, <2>1, <2>2, BudgetSame
<1> QED
  BY <1>2, <1>3, <1>4, <1>5 DEF Next

LEMMA BudgetsInit == Init => Budgets
<1> SUFFICES ASSUME Init, NEW k \in Keys PROVE Budget(k)
  BY DEF Budgets
<1>1. /\ key[k].state = "open" /\ key[k].charges = 0 /\ key[k].timeouts = 0
      /\ \A t \in Threads : thread[t].pc = "idle"
  BY DEF Init, FreshKey, IdleThread
<1>2. Ready(k) = {} /\ Freezing(k) = {}
  BY <1>1 DEF Ready, Freezing
<1>3. Chargers(k) = 0 /\ Freezes(k) = 0 /\ Room(k) = 1
  BY <1>1, <1>2, FS_EmptySet DEF Chargers, Freezes, Room
<1> QED
  BY <1>1, <1>3 DEF Budget

LEMMA BudgetsKept == Spec => []Budgets
BY BudgetsInit, BudgetsNext, CheckoutInvariant, PTL DEF Spec

(* However often confirm is tapped, in whatever threads, whatever writes   *)
(* fail and over whatever restarts, one displayed intent is charged once   *)
(* at most, and once more at most for every attempt that timed out.        *)
THEOREM IntentChargedOnce == Spec => []OneChargePerIntent
<1>1. IInv /\ Budgets => OneChargePerIntent
  <2> SUFFICES ASSUME IInv, Budgets PROVE OneChargePerIntent
    OBVIOUS
  <2>1. ASSUME NEW k \in Keys PROVE key[k].charges <= 1 + key[k].timeouts
    <3>1. key[k].charges \in Nat /\ key[k].timeouts \in Nat
      BY DEF IInv, TypeOK, Key
    <3> QED
      BY <3>1, Counts DEF Budgets, Budget
  <2>2. \A k \in Keys : key[k].charges > 0 => minted[k].request # NoRequest
    BY CheckoutAssumption DEF IInv, KeysOK
  <2> QED
    BY <2>1, <2>2 DEF OneChargePerIntent, IInv, OneKeyPerRequest
<1> QED
  BY <1>1, CheckoutInvariant, BudgetsKept, PTL

-----------------------------------------------------------------------------
(* Every key none of whose attempts timed out does what ExactlyOnce        *)
(* promises.                                                               *)

KeyMoves(k) ==
  \/ key'[k].state = key[k].state /\ key'[k].charges = key[k].charges
  \/ EO(k)!Next

(* What the budget says of such a key.                                     *)
LEMMA Prompt ==
  ASSUME IInv, Budgets, NEW k \in Keys, key[k].timeouts = 0
  PROVE  /\ key[k].charges \in {0, 1}
         /\ key[k].state = "open" => key[k].charges = 0
         /\ key[k].state = "done" => key[k].charges = 1
         /\ \A t \in Threads : thread[t].pc \in {"attempt", "charge"} /\ thread[t].key = k
              => key[k].state = "taken" /\ key[k].charges = 0
         /\ \A t \in Threads : thread[t].pc \in {"settle", "record", "freeze"} /\ thread[t].key = k
              => key[k].charges = 1
<1>1. /\ key[k].charges \in Nat
      /\ key[k].state \in {"open", "taken", "unknown", "done"}
      /\ key[k].state = "done" => key[k].charges # 0
  BY DEF IInv, TypeOK, Key, KeysOK
<1>2. /\ key[k].charges + Chargers(k) + Room(k) + Freezes(k) <= 1 /\ Freezes(k) <= 0
      /\ Chargers(k) \in Nat /\ Room(k) \in Nat /\ Freezes(k) \in Nat
  BY Counts DEF Budgets, Budget
<1>3. key[k].charges \in {0, 1}
  BY <1>1, <1>2
<1>4. ASSUME NEW t \in Threads, thread[t].pc \in {"attempt", "charge"}, thread[t].key = k
      PROVE  key[k].state = "taken" /\ key[k].charges = 0
  <2>1. Chargers(k) # 0
    <3>1. t \in Ready(k)
      BY <1>4 DEF Ready
    <3> QED
      BY <3>1, Finite, FS_EmptySet DEF Chargers
  <2>2. key[k].charges = 0 /\ Room(k) = 0
    BY <1>1, <1>2, <2>1
  <2> QED
    BY <1>1, <2>2 DEF Room
<1>5. ASSUME NEW t \in Threads, thread[t].pc \in {"settle", "record", "freeze"}, thread[t].key = k
      PROVE  key[k].charges = 1
  <2>1. CASE thread[t].pc \in {"settle", "record"}
    BY <1>3, <1>5, <2>1 DEF IInv, ThreadsOK, HasCharged
  <2>2. CASE thread[t].pc = "freeze"
    <3>1. t \in Freezing(k)
      BY <1>5, <2>2 DEF Freezing
    <3>2. Cardinality(Freezing(k)) # 0
      BY <3>1, Finite, FS_EmptySet
    <3> QED
      BY <1>2, <1>3, <3>2, Counts DEF Freezes
  <2> QED
    BY <1>5, <2>1, <2>2
<1>6. key[k].state = "open" => key[k].charges = 0
  BY <1>1, <1>2 DEF Room
<1> QED
  BY <1>1, <1>3, <1>4, <1>5, <1>6

LEMMA StepKeyMoves ==
  ASSUME IInv, Budgets, [Next]_vars, NEW k \in Keys, key'[k].timeouts = 0
  PROVE  KeyMoves(k)
<1>1. CASE UNCHANGED key[k]
  BY <1>1 DEF KeyMoves
<1>2. ASSUME NEW t \in Threads, thread[t].pc \in Confirming, NEW state, SetState(t, state)
      PROVE  /\ k # thread[t].key => KeyMoves(k)
             /\ key[k].timeouts = 0
             /\ k = thread[t].key => key'[k].state = state /\ key'[k].charges = key[k].charges
  BY <1>2, SetStateEffect DEF KeyMoves, IInv, TypeOK, Key, SetState
<1>3. ASSUME NEW t \in Threads, Execute(t) PROVE KeyMoves(k)
  <2>1. thread[t].pc \in Confirming
    BY <1>3 DEF Execute, Confirming
  <2>2. \/ UNCHANGED key
        \/ SetState(t, "taken") /\ key[thread[t].key].state = "open"
        \/ SetState(t, "unknown") /\ key[thread[t].key].state = "taken"
    BY <1>3 DEF Execute, Abandoned
  <2> QED
    BY <1>1, <1>2, <2>1, <2>2 DEF KeyMoves, EO!Next, EO!Take, EO!Doubt
<1>4. ASSUME NEW t \in Threads, Charge(t) PROVE KeyMoves(k)
  <2>1. CASE k # thread[t].key
    BY <1>4, <2>1 DEF Charge, IInv, TypeOK, KeyMoves
  <2>2. CASE k = thread[t].key
    <3>1. /\ key'[k].state = key[k].state /\ key'[k].charges = key[k].charges + 1
          /\ key[k].timeouts = 0 /\ thread[t].pc = "charge"
      BY <1>4, <2>2 DEF Charge, Charged, IInv, TypeOK, Key
    <3>2. key[k].state = "taken" /\ key[k].charges = 0
      BY <2>2, <3>1, Prompt
    <3> QED
      BY <3>1, <3>2 DEF KeyMoves, EO!Next, EO!Charge
  <2> QED
    BY <2>1, <2>2
<1>5. ASSUME NEW t \in Threads, ChargeFails(t) PROVE KeyMoves(k)
  <2>1. thread[t].pc \in Confirming /\ thread[t].pc \in {"attempt", "charge"}
    BY <1>5 DEF ChargeFails, Confirming
  <2>2. UNCHANGED key \/ SetState(t, "open")
    BY <1>5 DEF ChargeFails
  <2>3. CASE SetState(t, "open") /\ k = thread[t].key
    <3>1. key[k].timeouts = 0 /\ key'[k].state = "open" /\ key'[k].charges = key[k].charges
      BY <1>2, <2>1, <2>3
    <3>2. key[k].state = "taken" /\ key[k].charges = 0
      BY <2>1, <2>3, <3>1, Prompt
    <3> QED
      BY <3>1, <3>2 DEF KeyMoves, EO!Next, EO!Absolve
  <2> QED
    BY <1>1, <1>2, <2>1, <2>2, <2>3
<1>6. ASSUME NEW t \in Threads, Complete(t) \/ Freeze(t) PROVE KeyMoves(k)
  <2>1. thread[t].pc \in Confirming /\ thread[t].pc \in {"settle", "record", "freeze"}
    BY <1>6 DEF Complete, Freeze, Confirming
  <2>2. UNCHANGED key \/ \E state \in {"done", "unknown"} : SetState(t, state)
    BY <1>6 DEF Complete, Freeze
  <2>3. ASSUME NEW state \in {"done", "unknown"}, SetState(t, state), k = thread[t].key
        PROVE  KeyMoves(k)
    <3>1. key[k].timeouts = 0 /\ key'[k].state = state /\ key'[k].charges = key[k].charges
      BY <1>2, <2>1, <2>3
    <3>2. key[k].charges = 1 /\ key[k].state \in {"taken", "unknown", "done"}
      BY <2>1, <2>3, <3>1, Prompt DEF IInv, TypeOK, Key
    <3> QED
      BY <3>1, <3>2 DEF KeyMoves, EO!Next, EO!Conclude, EO!Doubt
  <2> QED
    BY <1>1, <1>2, <2>1, <2>2, <2>3
<1>7. ASSUME NEW t \in Threads, Timeout(t) PROVE KeyMoves(k)
  <2>1. thread[t].pc \in Confirming
    BY <1>7 DEF Timeout, Confirming
  <2>2. \/ UNCHANGED key
        \/ key' = [key EXCEPT ![thread[t].key] = TimesOut(thread[t].key, "open")]
    BY <1>7 DEF Timeout
  <2>3. key[k].timeouts + 1 # 0
    BY DEF IInv, TypeOK, Key
  <2>4. UNCHANGED key[k]
    BY <2>1, <2>2, <2>3, TimesOutEffect
  <2> QED
    BY <1>1, <2>4
<1>8. ASSUME NEW j \in Keys, Reconcile(j) PROVE KeyMoves(k)
  <2>1. CASE k # j
    BY <1>8, <2>1 DEF Reconcile, IInv, TypeOK, KeyMoves
  <2>2. CASE k = j
    <3>1. /\ key'[k].state = IF key[k].charges > 0 THEN "done" ELSE "open"
          /\ key'[k].charges = key[k].charges /\ key[k].state = "unknown"
          /\ key[k].timeouts = 0
      BY <1>8, <2>2 DEF Reconcile, IInv, TypeOK, Key
    <3>2. key[k].charges \in {0, 1}
      BY <3>1, Prompt
    <3> QED
      BY <3>1, <3>2 DEF KeyMoves, EO!Next, EO!Absolve, EO!Conclude
  <2> QED
    BY <2>1, <2>2
<1>9. ASSUME NEW t \in Threads, Handler(t) PROVE KeyMoves(k)
  BY <1>1, <1>3, <1>4, <1>5, <1>6, <1>7, <1>9
  DEF Handler, ReadItem, Show, Decline, BeginConfirm, CheckPrice, Mark, Evaluate, Attempt,
      Report, HandlerFails
<1>10. CASE SetPrice \/ SetAvailable \/ Remove \/ Add \/ Restart \/ Tick \/ UNCHANGED vars
  BY <1>1, <1>10 DEF SetPrice, SetAvailable, Remove, Add, Restart, Tick, vars
<1> QED
  BY <1>8, <1>9, <1>10 DEF Next

(* Seen from the checkout, each idempotency key implements ExactlyOnce     *)
(* until an attempt under it times out: what Checkout assumes of submit()  *)
(* is no more than what it promises.                                       *)
THEOREM KeysImplementExactlyOnce == Spec => KeysKeepPromise
<1>1. Init => \A k \in Keys : EO(k)!Init
  BY DEF Init, FreshKey, EO!Init
<1>2. IInv /\ Budgets /\ [Next]_vars
        => [\A k \in Keys : key'[k].timeouts = 0 => [EO(k)!Next]_(EO(k)!vars)]_key
  BY StepKeyMoves DEF KeyMoves, EO!vars
<1> QED
  BY <1>1, <1>2, CheckoutInvariant, BudgetsKept, PTL DEF Spec, KeysKeepPromise
=============================================================================
