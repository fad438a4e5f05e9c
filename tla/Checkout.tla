------------------------------ MODULE Checkout ------------------------------
(***************************************************************************)
(* The pending purchases between display and confirmation (checkout.py),   *)
(* answered by several threads while the merchant edits the catalog, and   *)
(* what the views later tell of a request from its audit log (explain.py,  *)
(* and the transactions with their lifecycle, demo.py).                    *)
(*                                                                         *)
(* Pending purchases and the catalog live in memory and are lost at a      *)
(* restart; the keys and the audit log are not.  A thread may read or      *)
(* write what it shares with the others once per step.  Of the policy only *)
(* the verdict is kept.  A key is what submit() makes of it: it behaves as *)
(* ExactlyOnce.tla says (as Purchase.tla shows) unless an attempt timed    *)
(* out, which leaves it open to another until its freeze.  Claims are      *)
(* stale here only when nobody works under them, no charge comes after its *)
(* timeout, and the reconciler decides in one step: Purchase.tla and       *)
(* Sweeps.tla take these apart.                                            *)
(* There is one item in the catalog: requests for different items do not   *)
(* meet.  Of the audit log the model keeps which of the events that the    *)
(* views read a request has.                                               *)
(*                                                                         *)
(* A definition placed just before another one with the same parameters    *)
(* and named by no action is a plausible slip of it, for the mutants.      *)
(***************************************************************************)
EXTENDS Naturals, Sequences, FiniteSets

CONSTANTS Threads,      \* threads serving the API
          Requests,     \* request ids
          NoRequest,    \* none of them
          Keys,         \* idempotency keys
          NoKey,        \* none of them
          Prices,       \* unit prices the merchant sets
          Quantities,   \* quantities asked for
          FirstPrice,   \* the price the catalog starts with
          TTL,          \* pending_ttl_seconds
          MaxTimeouts,  \* bound: attempts under one key that time out
          MaxNow        \* bound: the last instant of the clock

ASSUME CheckoutAssumption ==
  /\ IsFiniteSet(Threads)
  /\ NoRequest \notin Requests /\ NoKey \notin Keys
  /\ TTL \in Nat /\ MaxTimeouts \in Nat /\ MaxNow \in Nat
  /\ Prices \subseteq Nat \ {0} /\ FirstPrice \in Prices
  /\ Quantities \subseteq Nat \ {0}

VARIABLES now,      \* the clock
          item,     \* the item in the catalog
          pending,  \* CheckoutService._pending
          thread,   \* thread[t]: where a handler is in thread t
          key,      \* what idempotency and provider hold under each key
          minted,   \* minted[k]: the request displayed with key k, and its amount
          trail,    \* trail[r]: the audit log of request r
          refused   \* requests declined with no confirmation under way

vars == <<now, item, pending, thread, key, minted, trail, refused>>

AWAITING == "AWAITING_CONFIRMATION"
CONFIRMED == "CONFIRMED"
DECLINED == "DECLINED"

Item == [stocked : BOOLEAN, available : BOOLEAN, price : Prices]

Totals == {price * quantity : price \in Prices, quantity \in Quantities}

Pending == [status : {"none", AWAITING, CONFIRMED, DECLINED}, key : Keys \cup {NoKey},
            quantity : Quantities \cup {0}, amount : Totals \cup {0}, created : Nat]
NotPending == [status |-> "none", key |-> NoKey, quantity |-> 0, amount |-> 0, created |-> 0]

(* What a handler may log, and of that the events kept.                    *)
Kept == {"PURCHASE_REQUESTED", "USER_CONFIRMED", "USER_DECLINED",
         "POLICY_APPROVED", "POLICY_DENIED",
         "PAYMENT_ATTEMPTED", "PAYMENT_CAPTURED", "PAYMENT_FAILED",
         "PAYMENT_PENDING_VERIFICATION", "IDEMPOTENCY_REPLAYED"}
Events == Kept \cup {"IDEMPOTENCY_IN_PROGRESS"}

(* Inside a confirmation: what the request holds is read once, as the code *)
(* holds the PendingPurchase itself; amount is the true amount to charge,  *)
(* event the entry the handler ends with.                                  *)
Confirming == {"price", "mark", "evaluate", "execute", "attempt", "charge",
               "settle", "record", "freeze"}
Thread == [pc : Confirming \cup {"idle", "show", "log"}, request : Requests \cup {NoRequest},
           key : Keys \cup {NoKey}, quantity : Quantities \cup {0},
           amount : Totals \cup {0}, event : Events \cup {"none"}]
IdleThread == [pc |-> "idle", request |-> NoRequest, key |-> NoKey, quantity |-> 0,
               amount |-> 0, event |-> "none"]

(* timeouts counts the attempts under the key whose answer never came.     *)
Key == [state : {"open", "taken", "unknown", "done"}, charges : Nat,
        amount : Totals \cup {0}, timeouts : Nat]
FreshKey == [state |-> "open", charges |-> 0, amount |-> 0, timeouts |-> 0]

-----------------------------------------------------------------------------

Ends(t) == thread' = [thread EXCEPT ![t] = IdleThread]
Goes(t, pc) == thread' = [thread EXCEPT ![t].pc = pc]

(* The handler has nothing left to do but log the event and answer.        *)
Says(t, event) == thread' = [thread EXCEPT ![t].pc = "log", ![t].event = event]

Logs(t, event) ==
  trail' = [trail EXCEPT ![thread[t].request] = @ \cup ({event} \cap Kept)]

Report(t) ==
  /\ thread[t].pc = "log"
  /\ Logs(t, thread[t].event)
  /\ Ends(t)
  /\ UNCHANGED <<now, item, pending, key, minted, refused>>

(* A statement or an audit entry fails, and the handler with it.           *)
HandlerFails(t) ==
  /\ thread[t].pc # "idle"
  /\ Ends(t)
  /\ UNCHANGED <<now, item, pending, key, minted, trail, refused>>

-----------------------------------------------------------------------------
(* propose().                                                              *)

ReadItem(t) ==
  /\ thread[t].pc = "idle"
  /\ item.stocked /\ item.available
  /\ \E quantity \in Quantities :
       thread' = [thread EXCEPT ![t] =
                    [IdleThread EXCEPT !.pc = "show", !.quantity = quantity,
                                       !.amount = item.price * quantity]]
  /\ UNCHANGED <<now, item, pending, key, minted, trail, refused>>

Displayed == {minted[k].request : k \in Keys}

(* A new key for a display: uuid4.                                         *)
FreshKeys == {k \in Keys : minted[k].request = NoRequest}

(* Request and key are new.  The offer is pending before it is logged: it  *)
(* can be answered meanwhile, and also when the entry is never written,    *)
(* for a request typed as text is in the log under its id by then.         *)
Show(t) ==
  /\ thread[t].pc = "show"
  /\ \E r \in Requests \ Displayed, k \in FreshKeys :
       /\ pending' = [pending EXCEPT ![r] =
                        [status |-> AWAITING, key |-> k, quantity |-> thread[t].quantity,
                         amount |-> thread[t].amount, created |-> now]]
       /\ minted' = [minted EXCEPT ![k] = [request |-> r, amount |-> thread[t].amount]]
       /\ thread' = [thread EXCEPT ![t] = [IdleThread EXCEPT !.pc = "log", !.request = r,
                                                             !.event = "PURCHASE_REQUESTED"]]
  /\ UNCHANGED <<now, item, key, trail, refused>>

-----------------------------------------------------------------------------
(* decline().                                                              *)

Underway(r) == {t \in Threads : thread[t].request = r /\ thread[t].pc \in Confirming}

Uncharged(r) == \A k \in Keys : minted[k].request = r => key[k].charges = 0

Decline(t) ==
  /\ thread[t].pc = "idle"
  /\ \E r \in Requests :
       /\ pending[r].status # "none"
       /\ pending' = [pending EXCEPT ![r].status = DECLINED]
       /\ thread' = [thread EXCEPT ![t] = [IdleThread EXCEPT !.pc = "log", !.request = r,
                                                             !.event = "USER_DECLINED"]]
       /\ refused' = IF Underway(r) = {} /\ Uncharged(r) THEN refused \cup {r} ELSE refused
  /\ UNCHANGED <<now, item, key, minted, trail>>

-----------------------------------------------------------------------------
(* confirm().                                                              *)

Begins(t, r, pc, event) ==
  thread' = [thread EXCEPT ![t] =
               [pc |-> pc, request |-> r, key |-> pending[r].key, event |-> event,
                quantity |-> pending[r].quantity, amount |-> pending[r].amount]]

BeginConfirmAnyStatus(t) ==
  /\ thread[t].pc = "idle"
  /\ \E r \in Requests :
       /\ pending[r].status # "none"
       /\ now <= pending[r].created + TTL
       /\ \/ Begins(t, r, "price", "none")
          \/ Begins(t, r, "log", "POLICY_DENIED")
  /\ UNCHANGED <<now, item, pending, key, minted, trail, refused>>

(* The client's amount is the displayed one, or it is rejected.            *)
BeginConfirm(t) ==
  /\ thread[t].pc = "idle"
  /\ \E r \in Requests :
       /\ pending[r].status \in {AWAITING, CONFIRMED}
       /\ now <= pending[r].created + TTL
       /\ \/ Begins(t, r, "price", "none")
          \/ Begins(t, r, "log", "POLICY_DENIED")
  /\ UNCHANGED <<now, item, pending, key, minted, trail, refused>>

CheckPriceAsShown(t) ==
  /\ thread[t].pc = "price"
  /\ item.stocked
  /\ Logs(t, "USER_CONFIRMED")
  /\ thread' = [thread EXCEPT ![t].pc = "mark", ![t].amount = item.price * thread[t].quantity]
  /\ UNCHANGED <<now, item, pending, key, minted, refused>>

(* The catalog is read again; availability is not.                         *)
CheckPrice(t) ==
  LET true == item.price * thread[t].quantity IN
  /\ thread[t].pc = "price"
  /\ \/ ~item.stocked /\ Ends(t) /\ UNCHANGED trail
     \/ item.stocked /\ true # thread[t].amount /\ Says(t, "POLICY_DENIED") /\ UNCHANGED trail
     \/ item.stocked /\ true = thread[t].amount /\ Logs(t, "USER_CONFIRMED") /\ Goes(t, "mark")
  /\ UNCHANGED <<now, item, pending, key, minted, refused>>

MarkAndMint(t) ==
  /\ thread[t].pc = "mark"
  /\ pending' = [pending EXCEPT ![thread[t].request].status = CONFIRMED]
  /\ \E k \in IF pending[thread[t].request].status = CONFIRMED THEN FreshKeys ELSE {thread[t].key} :
       /\ minted' = [minted EXCEPT ![k] =
                       [request |-> thread[t].request, amount |-> thread[t].amount]]
       /\ thread' = [thread EXCEPT ![t].pc = "evaluate", ![t].key = k]
  /\ UNCHANGED <<now, item, key, trail, refused>>

Mark(t) ==
  /\ thread[t].pc = "mark"
  /\ pending' = [pending EXCEPT ![thread[t].request].status = CONFIRMED]
  /\ Goes(t, "evaluate")
  /\ UNCHANGED <<now, item, key, minted, trail, refused>>

-----------------------------------------------------------------------------
(* PurchaseGateway.submit(), as far as the checkout sees it.               *)

(* The policy decides; an approval is logged before anything else happens. *)
Evaluate(t) ==
  /\ thread[t].pc = "evaluate"
  /\ \/ Says(t, "POLICY_DENIED") /\ UNCHANGED trail
     \/ Logs(t, "POLICY_APPROVED") /\ Goes(t, "execute")
  /\ UNCHANGED <<now, item, pending, key, minted, refused>>

SetState(t, state) == key' = [key EXCEPT ![thread[t].key].state = state]

(* Nobody is working under the claim any more.                             *)
Abandoned(k) ==
  /\ key[k].state = "taken"
  /\ \A t \in Threads : thread[t].key = k => thread[t].pc \notin {"attempt", "charge", "settle"}

ExecuteInDoubt(t) ==
  /\ thread[t].pc = "execute"
  /\ \/ key[thread[t].key].state \in {"open", "unknown"} /\ SetState(t, "taken") /\ Goes(t, "attempt")
     \/ key[thread[t].key].state = "done" /\ Says(t, "IDEMPOTENCY_REPLAYED") /\ UNCHANGED key
  /\ UNCHANGED <<now, item, pending, minted, trail, refused>>

(* An open key is taken; a finished one is replayed; one in doubt, or in   *)
(* progress elsewhere, is refused; and a stale claim is recovered from its *)
(* order, taken over when it did not charge, or frozen.  When the write    *)
(* fails, or its answer is lost, a failed payment is logged.               *)
Execute(t) ==
  LET k == key[thread[t].key] IN
  /\ thread[t].pc = "execute"
  /\ \/ k.state = "open" /\ SetState(t, "taken") /\ (Goes(t, "attempt") \/ Says(t, "PAYMENT_FAILED"))
     \/ k.state = "done" /\ Says(t, "IDEMPOTENCY_REPLAYED") /\ UNCHANGED key
     \/ k.state = "unknown" /\ Says(t, "PAYMENT_PENDING_VERIFICATION") /\ UNCHANGED key
     \/ k.state = "taken" /\ Says(t, "IDEMPOTENCY_IN_PROGRESS") /\ UNCHANGED key
     \/ /\ Abandoned(thread[t].key)
        /\ \/ k.charges > 0 /\ Goes(t, "record") /\ UNCHANGED key
           \/ k.charges = 0 /\ Goes(t, "attempt") /\ UNCHANGED key
           \/ SetState(t, "unknown") /\ Says(t, "PAYMENT_PENDING_VERIFICATION")
     \/ Says(t, "PAYMENT_FAILED") /\ UNCHANGED key
  /\ UNCHANGED <<now, item, pending, minted, trail, refused>>

AttemptUnlogged(t) ==
  /\ thread[t].pc = "attempt"
  /\ Goes(t, "charge")
  /\ UNCHANGED <<now, item, pending, key, minted, trail, refused>>

(* Written before the money moves.                                         *)
Attempt(t) ==
  /\ thread[t].pc = "attempt"
  /\ Logs(t, "PAYMENT_ATTEMPTED")
  /\ Goes(t, "charge")
  /\ UNCHANGED <<now, item, pending, key, minted, refused>>

Charged(k, amount) == [key[k] EXCEPT !.charges = @ + 1, !.amount = amount]

Charge(t) ==
  /\ thread[t].pc = "charge"
  /\ key' = [key EXCEPT ![thread[t].key] = Charged(thread[t].key, thread[t].amount)]
  /\ Goes(t, "settle")
  /\ UNCHANGED <<now, item, pending, minted, trail, refused>>

(* The provider refuses, or the entry before the charge cannot be written; *)
(* the claim is given back, unless that write fails as well.               *)
ChargeFails(t) ==
  /\ thread[t].pc \in {"attempt", "charge"}
  /\ SetState(t, "open") \/ UNCHANGED key
  /\ Says(t, "PAYMENT_FAILED")
  /\ UNCHANGED <<now, item, pending, minted, trail, refused>>

TimesOut(k, state) == [key[k] EXCEPT !.state = state, !.timeouts = @ + 1]

TimeoutMeansCharged(t) ==
  /\ thread[t].pc \in {"charge", "settle"}
  /\ key[thread[t].key].timeouts < MaxTimeouts
  /\ key' = [key EXCEPT ![thread[t].key] = TimesOut(thread[t].key, "done")]
  /\ Says(t, "PAYMENT_CAPTURED")
  /\ UNCHANGED <<now, item, pending, minted, trail, refused>>

(* The provider's answer does not come, whether it charged or not.  The    *)
(* claim is given back first, as after any exception, and frozen later;    *)
(* when that write fails, it is its exception the gateway sees.            *)
Timeout(t) ==
  /\ thread[t].pc \in {"charge", "settle"}
  /\ key[thread[t].key].timeouts < MaxTimeouts
  /\ \/ /\ key' = [key EXCEPT ![thread[t].key] = TimesOut(thread[t].key, "open")]
        /\ Goes(t, "freeze") \/ Says(t, "PAYMENT_FAILED")
     \/ Says(t, "PAYMENT_FAILED") /\ UNCHANGED key
  /\ UNCHANGED <<now, item, pending, minted, trail, refused>>

(* The completion is written, or not, or it is and the answer is lost: the *)
(* last two look alike.                                                    *)
Complete(t) ==
  /\ thread[t].pc \in {"settle", "record"}
  /\ \/ SetState(t, "done") /\ (Says(t, "PAYMENT_CAPTURED") \/ Goes(t, "freeze"))
     \/ Goes(t, "freeze") /\ UNCHANGED key
  /\ UNCHANGED <<now, item, pending, minted, trail, refused>>

(* Whatever became of the key meanwhile; it is logged as frozen also when  *)
(* the write fails.                                                        *)
Freeze(t) ==
  /\ thread[t].pc = "freeze"
  /\ SetState(t, "unknown") \/ UNCHANGED key
  /\ Says(t, "PAYMENT_PENDING_VERIFICATION")
  /\ UNCHANGED <<now, item, pending, minted, trail, refused>>

(* The reconciler settles a key from the provider's orders; what it logs   *)
(* is not among the events explain() reads.                                *)
Reconcile(k) ==
  /\ key[k].state = "unknown"
  /\ key' = [key EXCEPT ![k].state = IF key[k].charges > 0 THEN "done" ELSE "open"]
  /\ UNCHANGED <<now, item, pending, thread, minted, trail, refused>>

-----------------------------------------------------------------------------
(* The merchant, restarts and time.                                        *)

SetPrice ==
  /\ item.stocked
  /\ \E price \in Prices \ {item.price} : item' = [item EXCEPT !.price = price]
  /\ UNCHANGED <<now, pending, thread, key, minted, trail, refused>>

SetAvailable ==
  /\ item.stocked
  /\ item' = [item EXCEPT !.available = ~@]
  /\ UNCHANGED <<now, pending, thread, key, minted, trail, refused>>

Remove ==
  /\ item.stocked
  /\ item' = [item EXCEPT !.stocked = FALSE]
  /\ UNCHANGED <<now, pending, thread, key, minted, trail, refused>>

Add ==
  /\ ~item.stocked
  /\ \E price \in Prices : item' = [stocked |-> TRUE, available |-> TRUE, price |-> price]
  /\ UNCHANGED <<now, pending, thread, key, minted, trail, refused>>

FirstItem == [stocked |-> TRUE, available |-> TRUE, price |-> FirstPrice]

Restart ==
  /\ item' = FirstItem
  /\ pending' = [r \in Requests |-> NotPending]
  /\ thread' = [t \in Threads |-> IdleThread]
  /\ UNCHANGED <<now, key, minted, trail, refused>>

Tick ==
  /\ now < MaxNow
  /\ now' = now + 1
  /\ UNCHANGED <<item, pending, thread, key, minted, trail, refused>>

Init ==
  /\ now = 0
  /\ item = FirstItem
  /\ pending = [r \in Requests |-> NotPending]
  /\ thread = [t \in Threads |-> IdleThread]
  /\ key = [k \in Keys |-> FreshKey]
  /\ minted = [k \in Keys |-> [request |-> NoRequest, amount |-> 0]]
  /\ trail = [r \in Requests |-> {}]
  /\ refused = {}

Handler(t) ==
  \/ ReadItem(t) \/ Show(t) \/ Decline(t)
  \/ BeginConfirm(t) \/ CheckPrice(t) \/ Mark(t)
  \/ Evaluate(t) \/ Execute(t) \/ Attempt(t) \/ Charge(t)
  \/ ChargeFails(t) \/ Timeout(t) \/ Complete(t) \/ Freeze(t)
  \/ Report(t) \/ HandlerFails(t)

Next ==
  \/ \E t \in Threads : Handler(t)
  \/ \E k \in Keys : Reconcile(k)
  \/ SetPrice \/ SetAvailable \/ Remove \/ Add \/ Restart \/ Tick

Spec == Init /\ [][Next]_vars

-----------------------------------------------------------------------------
(* The views, from the audit log of a request alone.                       *)

(* explain(): money_moved, and the outcome.                                *)
MoneyMoved(r) == "PAYMENT_CAPTURED" \in trail[r]

OUTCOME_EVENTS ==
  << <<"PAYMENT_PENDING_VERIFICATION", "PENDING_VERIFICATION">>, <<"PAYMENT_FAILED", "FAILED">>,
     <<"USER_DECLINED", "DECLINED">>, <<"IDEMPOTENCY_CONFLICT", "REJECTED_CONFLICT">>,
     <<"IDEMPOTENCY_REPLAYED", "REPLAYED">>, <<"PAYMENT_CAPTURED", "COMPLETED">>,
     <<"POLICY_DENIED", "DENIED">> >>

(* The list of transactions: the status, and the stages of the lifecycle.  *)
STATUS_ORDER ==
  << <<"PAYMENT_PENDING_VERIFICATION", "PENDING_VERIFICATION">>, <<"PAYMENT_FAILED", "FAILED">>,
     <<"POLICY_DENIED", "DENIED">>, <<"USER_DECLINED", "DECLINED">>,
     <<"IDEMPOTENCY_REPLAYED", "REPLAYED">>, <<"PAYMENT_CAPTURED", "COMPLETED">>,
     <<"POLICY_APPROVED", "APPROVED">> >>

LIFECYCLE ==
  << <<"PURCHASE_REQUESTED", "proposed">>, <<"USER_CONFIRMED", "confirmed">>,
     <<"POLICY_APPROVED", "authorised">>, <<"PAYMENT_ATTEMPTED", "executing">>,
     <<"PAYMENT_CAPTURED", "settled">> >>

TERMINAL_STAGES ==
  {"POLICY_DENIED", "USER_DECLINED", "PAYMENT_FAILED", "PAYMENT_PENDING_VERIFICATION"}

(* The label of the first event in the order that r has.                   *)
Shows(order, label, r) ==
  \E i \in DOMAIN order : /\ order[i][1] \in trail[r] /\ order[i][2] = label
                          /\ \A j \in 1..(i - 1) : order[j][1] \notin trail[r]

Reached(r) == {LIFECYCLE[i][2] : i \in {i \in DOMAIN LIFECYCLE : LIFECYCLE[i][1] \in trail[r]}}
Halted(r) == TERMINAL_STAGES \cap trail[r] # {}

(* A view that says the purchase was paid for.                             *)
ShowsPaid(r) ==
  \/ MoneyMoved(r)
  \/ \E order \in {OUTCOME_EVENTS, STATUS_ORDER}, label \in {"COMPLETED", "REPLAYED"} :
       Shows(order, label, r)
  \/ "settled" \in Reached(r) /\ ~Halted(r)

-----------------------------------------------------------------------------

TypeOK ==
  /\ now \in Nat
  /\ item \in Item
  /\ pending \in [Requests -> Pending]
  /\ thread \in [Threads -> Thread]
  /\ key \in [Keys -> Key]
  /\ minted \in [Keys -> [request : Requests \cup {NoRequest}, amount : Totals \cup {0}]]
  /\ trail \in [Requests -> SUBSET Kept]
  /\ refused \subseteq Requests

(* "Otherwise the amount charged could differ from the amount a human      *)
(* actually approved" (checkout.py:14-19): whatever the merchant does to   *)
(* the price meanwhile, the charge is for the amount displayed.            *)
ChargedAsShown ==
  \A k \in Keys : key[k].charges > 0 => key[k].amount = minted[k].amount

(* "Clicking confirm can happen many times" (checkout.py:6-12): one intent *)
(* displayed is charged at most once, over all taps, threads, retries,     *)
(* failing writes and restarts, and at most once more for every attempt at *)
(* it that timed out: between the end of such an attempt and its freeze    *)
(* another tap may charge.                                                 *)
OneChargePerIntent ==
  /\ \A k \in Keys : key[k].charges <= 1 + key[k].timeouts
  /\ \A j, k \in Keys : /\ minted[j].request = minted[k].request
                        /\ key[j].charges > 0 /\ key[k].charges > 0
                        => j = k

(* Every charge is in the audit log before it happens: a human confirmed   *)
(* it, the policy approved it, and it was attempted (checkout.py:378-398,  *)
(* gateway.py:172, 182).  So the track of a request that was charged has   *)
(* no gap between its confirmation and "settled", whichever of its         *)
(* attempts, crashed or not, logged what.  (That it was shown is logged    *)
(* after it can be confirmed.)                                             *)
ChargeIsEvidenced ==
  \A k \in Keys : key[k].charges > 0 =>
    {"confirmed", "authorised", "executing"} \subseteq Reached(minted[k].request)

(* "Declining is terminal" (checkout.py:26) for a request no confirmation  *)
(* of which is under way: it stays declined, or is forgotten at a restart, *)
(* nothing works on it any more and it is never charged.                   *)
RefusedStaysRefused ==
  \A r \in refused : /\ pending[r].status \in {"none", DECLINED}
                     /\ Underway(r) = {}
                     /\ Uncharged(r)

(* No view says that a purchase was paid for when it was not: /explain,    *)
(* the list of transactions and the lifecycle, however many confirmations, *)
(* replays and recoveries their labels were put together from.             *)
MoneyMovedIsTrue == \A r \in Requests : ShowsPaid(r) => ~Uncharged(r)

(* The keys behave as the idempotency layer promises for as long as no     *)
(* attempt under them times out, whatever else fails: what is assumed of   *)
(* PurchaseGateway.submit() here is no more than what Purchase.tla shows.  *)
EO(k) == INSTANCE ExactlyOnce WITH state <- key[k].state, charges <- key[k].charges
KeysKeepPromise ==
  /\ \A k \in Keys : EO(k)!Init
  /\ [][\A k \in Keys : key'[k].timeouts = 0 => [EO(k)!Next]_(EO(k)!vars)]_key

=============================================================================
