# A verified model of zero-trust-payment

This directory is a TLA+ development beside the Python program: modules that
model its core, TLC configurations that check them on small instances, and
theorems that TLAPS proves for every value of the constants.

    tlc -workers 2 -config Velocity.cfg MCVelocity     # one run
    tlapm VelocityProofs.tla                           # one proof module

Paths below are relative to `src/zerotrust/` unless they start with another
directory. Contents: 1 the system, 2 the modules, 3 the runs, 4 what the code
does not keep, 5 the proofs, 6 what is abstracted and left out, 7 the plan.

## 1. The system

An agent (a language model, not trusted) asks to buy something. A human
confirms the displayed price, a policy decides deterministically, an
idempotency layer makes sure the provider is charged once, a double-entry
ledger records what happened, a reconciler settles what nobody knows, and an
append-only audit log tells the story afterwards. Request handlers run in the
threads of a FastAPI server; the database (PostgreSQL) is shared between
processes; the reconciler runs in a thread of its own.

| Component | State | Operations | Interacts with |
|---|---|---|---|
| Ledger, `ledger.py` | tables `ledger_transactions`, `ledger_entries` | `record_sale`, `record_unverified`, `record_not_executed`, balances, `discrepancies` | joins the store's transactions by a `tx` argument; called by gateway, reconciler, repair |
| Idempotency store, `idempotency.py` | one row per agent and key: status, fingerprint, `claimed_at`, attempts | `execute` (claim, stale claim, complete, abandon), `mark_pending_verification`, `resolve_executed`, `resolve_not_executed` | calls the gateway's `run`, `verify_stale` and ledger postings |
| Purchase gateway, `gateway.py` | none of its own | `submit` | policy, store, provider, ledger, audit log |
| Reconciler, `reconcile.py` | `_needs_human` in memory | `reconcile`, `sweep`, `repair_ledger` | store, provider, ledger, policy slots, audit log |
| Scheduler, `reconcile.py` | thread, stop event, last report | `run_once`, `start`, `stop` | reconciler |
| Provider, `provider.py` | the provider's orders | `create_order`, `orders_for_receipt`, `fetch_order` | outside service (Razorpay test mode) |
| Policy engine, `policy.py` | tables `velocity_slots`, `denials` | `evaluate`, `confirm_slot`, `release_slot` | mandate store |
| Mandates, `mandate.py` | table `mandates` | `issue`, `revoke`, `active_for_agent` | the merchant's routes in `demo.py`, start-up in `scripts/run_ui.py` |
| Checkout, `checkout.py` | `_pending` in memory | `propose`, `confirm`, `decline` | catalog, audit log, gateway |
| Catalog, `catalog.py` | items in memory | `add`, `set_price`, `set_available`, `remove`, `rename` | checkout, the merchant's routes |
| Explanation, `explain.py` | none | `explain` | reads the audit log only |
| Audit log, `audit.py` | hash-chained rows | `record`, `verify`, `head` | everybody |
| HTTP API, `api.py` | none | `/intent`, `/confirm`, `/decline`, `/explain`, ... | checkout, explanation |
| Reference client, `demo.py` | none beyond the above | merchant and demonstration routes | mandates, catalog, scheduler |
| Webhook receiver, `webhook.py` | `_seen` in memory | `receive` | audit log, scheduler's `run_once` |
| Database, `db.py` | connection pool | transactions, advisory locks | all stores |
| Admin login, `admin_auth.py` | none (signed tokens) | `login`, `verify` | merchant routes |
| Intent, `intent.py`; recommendations, `recommend.py`; narration, `narrate.py`; encryption, `e2e.py` | none | text in, structure or text out | checkout, API |
| Faults and chaos, `faults.py`, `chaos.py`, `chaos_worker.py`, `processor.py`; adversary, `adversary.py` | test harness | inject crashes and timeouts, drive the API | store, gateway, API |
| Frontend, `frontend/src`; scripts, `scripts/` | browser state; none | calls of the API; start-up | API |

What is hard, and what makes each part correct:

* *Ledger.* The three postings of an attempt come from three places in any
  order and any number of times, and a posting that raises rolls back the
  completion of the record it joined. The position of a key must depend on
  which calls were made only; revenue is booked once; the unique indexes must
  never be what decides.
* *Store, gateway, provider, reconciler.* A caller may crash, stall, time out
  or be told a lie between any two steps; a claim may be taken over; a sweep
  reads, asks the provider and writes by key later. At most one charge per
  key, no charge forgotten, no revenue that was not taken, one payload per
  key, budget given back when nothing was charged.
* *Policy.* Check-then-act on a shared budget and on a count of denials, under
  a mandate that the merchant replaces meanwhile.
* *Mandates.* An edit is three transactions, read, revoke, issue, and so is
  start-up when the mandate it finds lists items; edits, revocations and
  restarts may overlap or be cut off between any two of them.
* *Checkout.* Two taps, two threads, a decline between the two, a price that
  changes, a restart that forgets the pending purchase and not the key; and
  views that put a label together from whatever mixture of confirmations
  wrote the audit log.
* *Tables under the books.* Rows are written statement by statement and
  checked by deferred triggers at COMMIT; somebody may write rows of their own
  or drop triggers; the reports read in several statements while transactions
  commit between them.
* *Audit log.* Appenders that read the same tail fork the chain; rows are
  edited, renumbered, removed or rehashed while the triggers are dropped, and
  what a verified chain and a recorded head still prove must be said exactly.
* *Scheduler and webhook.* Cycles of several threads overlap, one exception
  ends a cycle before the keys after it, a delivery counts as seen before it
  is acted upon, `start` clears the flag an old loop is about to read.
* *Paging.* The list of orders grows at its head while it is paged through.
* *Chaos harness.* Its retries run on a pool with terminated connections, and
  a failed COMMIT may have succeeded; its check is only worth something if it
  neither misses a loss nor reports one that is not there.

The file `PROJECT.json` lists every hazard at its line with the properties that
would catch it.

## 2. The modules

| Module | Models | State and actions in the code |
|---|---|---|
| `LedgerPosition` | what the books promise per key | `pos[k]`: sold amount, attempts in suspense, attempts settled |
| `Ledger` | `ledger.py` | `postings` are the rows; one action per `record_*`, which runs under the key's advisory lock from its first read on |
| `ExactlyOnce` | what the store promises per key | `state` as a retry finds it, `charges` at the provider |
| `Purchase` | `gateway.py`, `idempotency.py`, `reconcile.py`, the provider | `rec` is the row, `orders` the provider's orders, `books` a `LedgerPosition`, `slot` the velocity slot; `caller[c].pc` is the place in `submit`, `recon[r].pc` the place in `reconcile` |
| `Mandates` | `mandate.py`, `_reissue` and the routes in `demo.py`, start-up | `mandates` are the rows, `admin[a].pc` the place in a route, `server.pc` the place in start-up; `late` counts the edits that revoked a row revoked already |
| `Velocity` | one mandate, and one more per late edit; a revocation that no edit overlaps withdraws; rolling cap, bound by the mandate, bounded grinding | 2 routes of the merchant, 3 mandates, routes that fail and restarts; 2 threads with 3 evaluations of 2 keys beside one of the routes; 1.2 million |
| `Checkout` | charged as shown, once per intent and time-out, after evidence; a refusal is final; no view says "paid" of what was not; keys behave as `ExactlyOnce` until one times out | 2 threads, 1 request, 2 keys; 2 prices, expiry, restarts, or 2 time-outs per key; 1.2 million |
| `AuditChain` | appenders never fork; a lone edit is located; a recorded head fixes what came before it; refinement of `AppendOnly` while the triggers stand | 2 threads, 2 kinds of entries, 3 rows, 2 raw edits, two sets of dropped triggers; 2.4 million |
| `OrderLookup` | nothing listed at the start is missed; giving up means the list is too long | 5 orders, 2 receipts, pages of 2, 2 pages; 24 000 |
| `Sweeps` | settled by what the provider did; loose ends are tied; a human is asked once per key, thread and lost answer | 2 keys, 2 loops, the receiver, 1 delivery, 1 stop, delivery, restart or lost answer; 355 000 |
| `Rounds` | the money adds up when a round is checked | 4 purchases, 3 terminated connections, killed processes; 545 000 |
| `Books` | whole postings only; no false alarm; a missing sale is real | 1 key, 3 ids, 1 transaction of the application, 1 outsider, the view; 2.3 million |
| `PurchaseTimeout` | a statement of the code's documentation that the code does not keep, see 4 | 2 callers, 3 submissions |

Why the bounds are enough. Purchases: what can go wrong with a key needs an
attempt, a second one that takes it over or retries it, and one that comes
after; three or four submissions by two callers and one sweep contain every pair
of steps in either order. `StaleAfter`, `Lag` and `Grace` are in coarse units
but keep their order (a claim is stale, then a listing complete, then absence is
evidence): `StaleAfter + Lag <= Grace`, 30 s and seconds against 300 s in the
code. In `PurchaseChaos` the times are as small as they can be so that stalls
outlast them. `LastSubmit` leaves the clock room for the grace period to end
after the last request, without which the liveness properties would be about the
bound. Policy: two keys overfill a limit of one; the proofs remove the bound.
Mandates: an edit that comes too late takes two routes, and two mandates that
live at once three rows. Two constraints of `MCVelocity` keep the two halves of
that run apart: the routes race each other before the first request is evaluated
(`OneEditor`; afterwards one route edits or revokes once, beside start-up), and
one slot is charged after its release (`FewRevived`). Checkout: requests meet in
the catalog only, so one request answered by two threads is what races; the
second key is for a confirmation that would mint one too many; a second time-out
shows that each adds one charge, not more. `MCCheckout` has two constraints as
well: attempts time out while the merchant and the clock stand still, or do not
(`OneTrouble`), and of states that differ in what nobody reads any more it keeps
one (`NothingUnread`). `Quantities = {2}` makes the amount differ from the unit
price. Audit: a fork needs two appenders and one row before them, an edit is
located among rows on both its sides, hence three rows; two edits cover an edit
that is covered up by a second. Paging: five orders against a reach of four have
shifts within a page and across one, exact multiples of the page size, and a
list too long. Sweeps: two keys so that one comes after the one whose
reconciliation fails; an overlap needs two threads, a restart, a lost delivery
or a lost answer one event (so in the run two threads at most ask a human at
once; `AskedOncePerThread` is for any number). Rounds: a connection is lost in
the storm, in the retry and in the reconciliation. Books: a sale reverses a
suspense posting, so one key needs up to three ids; a line is one paisa, which
is enough to be unbalanced by. A second instance of `Books`, two outsiders and
no application (`Writers = {}`, two ids, 1.2 million states), shows two raw
transactions that race each other. `MaxMandates`, `MaxEvaluations`,
`MaxSubmits`, `MaxNow`, `MaxTimeouts`, `MaxRows`, `MaxEdits`, `MaxEvents`,
`MaxKills` only cut behaviours short.

What the runs of `Purchase` leave out. Only `PurchaseChaos` has every fault at
once, and it checks what holds under all of them. `PurchaseCrash` has no stall,
no time-out, no garbled and no slow answer: with any of them the promise is not
kept (section 4), so a late writer to a frozen key is not met there.
`PurchaseSettles` has one caller who retries through time-outs, and no crash,
no failing write and no slow answer. Its safety properties say that this caller
is charged once and never unknown out of suspense; what a second caller does
in the gap of a time-out is `PurchaseTimeout`, what crashes and failing writes
do to one charge is `PurchaseCrash` (`KeepsPromise` implies
`AtMostOneCharge`), and that a charge is recorded in the end is shown only
where the process lives and the store takes its writes.

Deadlock is checked in `Ledger`, `AuditChain`, `OrderLookup`, `Sweeps`,
`Rounds` and `Books`. Elsewhere a behaviour ends when the bounds are used up,
so it is off.

Fairness. `PurchaseSettles` and `Sweeps` need it (`FairSpec` of each). In
`Purchase`, time passes (SF on `Tick`; strong because a caller holds the clock
back until it has moved on); a request thread that is not killed runs on (WF of
`CallerStep`); the scheduler's loop sweeps every interval for ever and survives
exceptions (`reconcile.py:489-494`), hence WF of `ReconStep`; and a provider
asked again and again answers at some time (SF of `AskProvider`): without that
nothing is ever settled, in the code either. No fault is fair or unfair. The run
has no crash: a caller that died between two steps is recovered only when the
key is submitted again, which nobody promises. In `Sweeps`, threads that run go
on (WF of the loop's turns, or exit, and of each cycle's own steps), a stopped
scheduler is started again (WF of `Start`, as `scripts/run_ui.py` does at
start-up), time passes (WF), and what may fail each time does not fail for ever
for a key that is asked about again and again: the provider answers some time
and the writes succeed some time (SF of `Ask` and `Act`). Deliveries are not
fair: the interval alone must do.

### What the passing properties say

* `KeepsPromise` is the promise of `idempotency.py:3-6` as a refinement: no
  second charge, no open key that was charged, `PENDING_VERIFICATION` left
  only towards what happened, `COMPLETED` left only towards doubt. Crashes and
  failing writes do not break it. But a completion whose COMMIT took effect and
  whose answer was lost is frozen once more (`idempotency.py:485-499`), so
  `COMPLETED` is final only where what fails took no effect
  (`CompletedIsFinal`, section 5). The refinement needs that nobody is
  suspended past the staleness window, that charges do not time out, that an
  error means "not charged", that a listing is judged when it is read, and that
  sweeps do not overlap. Each of these is an item of section 4. Under them it is
  proved (`Benign`, section 5).
* `CompletedHasSale`, `SaleIsBacked`, `NoSuspenseOnceSold`,
  `OnlyTheFirstPayload` need none of these: they hold under every fault and
  late writer, and are proved.
* `RollingCap` leaves out keys whose released slot was charged after all
  (`revived`): see 4. `BoundedByMandate` says that the mandate a slot was
  claimed under was not revoked when the request arrived; a request that
  arrived before may still finish.
* `AuthorityIsNotDoubled`, `RevocationWithdraws`: an edit replaces a mandate, it
  does not add one, and a revocation leaves none, wherever routes and start-up
  are cut off. Both count what they do not rule out: an edit that revokes a row
  another route has revoked meanwhile is `late`, adds one mandate, and ends what
  is said of revocations.
* `GrindingIsBounded`: as the cool-down is checked and the denial recorded in
  two transactions, each concurrent request adds one denial to the threshold,
  and never more.
* `ChargedAsShown`, `OneChargePerIntent`, `ChargeIsEvidenced`: what the human
  saw, at most once and once more per attempt that timed out, and never before
  the audit log has the confirmation, the approval and the attempt, whatever
  fails in between. So the progress track of a request that was charged has no
  gap between "confirmed" and "settled"; that it was shown is logged when it can
  be confirmed already.
* `KeysKeepPromise`: until an attempt under it times out, a key takes the steps
  of `ExactlyOnce` only, completions that are taken for failed included.
* `RefusedStaysRefused` is what is left of "declining is terminal": a decline
  that meets no confirmation under way is final.
* `MoneyMovedIsTrue`: no view of the audit log (`money_moved` and the outcome
  of `/explain`, status and track of `/demo/transactions`) says that a request
  was paid for when no order exists. The converse does not hold, see 4.
* `NeverForks`, `EditIsLocated`, `AnchorFixesHistory`: honest appenders make
  one chain, which verifies at any time; `verify` names the row that a single
  edit broke, whatever was appended since; and a chain that verifies and has a
  hash recorded elsewhere in some row has, up to that row, exactly what stood
  there on the day it was recorded. Without such a head whoever may drop the
  triggers may also recompute every hash, as `audit.py` says.
* `IndexesNeverRefuse` takes the key's advisory lock for granted, as a posting
  is one step of `Ledger`: it says that under the lock no insert meets its index,
  not what would become of postings without it.
* `GivesUpBeyondReach`: a lookup that gives up faced a list at least as long as
  its pages; one that fills them exactly is given up as well, because the empty
  page after it is not asked for.
* `AnswerIsComplete`: an order that was listed when the lookup began is in its
  answer, so that "no order" is evidence; new orders only shift the list
  towards pages still to be read.
* `SettledByTheProvider` holds although cycles overlap and work on records
  and answers they read before: completed only with an order, books and record
  together, a slot never released for a key with an order.
* `HumansAreAskedOnce`: a key that is not flagged has no entry for a human but
  those whose COMMIT was taken for failed, each of which is repeated by a later
  cycle; one that is flagged has at most one per thread besides.
* `LooseEndsAreTied`: a frozen key, or a gap between books and records that
  `repair_ledger` knows, is settled or left to a human in the end. Keys with
  two orders are left to a human from the start.
* `MoneyAddsUp` is the check of the chaos harness (`chaos.py`, items 1-4 and
  7) as an invariant: a round that reaches its check passes these items in
  every interleaving, not only in the seeds it was run with.
* `TriggersKeepPostingsWhole`, `NoFalseAlarm`, `MissingSaleIsReal`: while the
  triggers stand no COMMIT leaves half a posting or breaks a whole one; a
  ledger view that says the books are wrong read them while they were, although
  it reads in several statements; and a missing sale it reports was missing,
  because it reads the records before the books.

## 4. What the code does not keep

`PurchaseTimeout` is a run that TLC is expected to refute: a charge times out,
`execute` marks the key `FAILED` (`idempotency.py:477`), and a retry claims it
before the gateway's handler freezes it (`gateway.py:265`). The retry charges
again, where `gateway.py:249-251` says that it is refused. It is proved that
behaviours that keep this statement charge once, as long as no process dies and
no write of the store fails (`OnceIfRetriesAreRefused`, section 5). The same
gap stays open for good when the process dies between the two writes, or
when the second one fails. Seen from the checkout, each time-out of an attempt
may cost the human one charge more, and `OneChargePerIntent` counts them.
`PurchaseSettles` with `"crash"` or `"db"` among the
faults refutes `AtMostOneCharge` for one caller who retries (with `"db"` after
`UnknownIsInSuspense`, which falls first).

More statements of the code or its documentation that the models refute, each
with the change that shows it:

* The provider makes the order and answers with a 5xx or an unreadable body;
  any exception but `ProviderTimeout` counts as "not charged"
  (`gateway.py:281`), and the next retry charges again. `PurchaseSettles` with
  `"garbled"` among the faults refutes `AtMostOneCharge`.
* Sweep 1 reads a frozen record; sweep 2, run by a webhook or the demo,
  releases it; a retry claims and crashes, is taken over and frozen; sweep 1
  releases the *new* attempt by the age of the old one. `PurchaseCrash` with
  two reconcilers and `LastSubmit = 6` refutes `AtMostOneCharge`.
  `reconcile.py:434` says sweeps never overlap; nothing enforces it
  (`NeverOverlapping` of `Sweeps`).
* A purchase fails and releases its slot, another one takes the room, the
  first is retried: it finds its `RELEASED` slot and is approved without a
  count (`policy.py:261`). `Velocity` refutes `SlidingCap`, which is
  `RollingCap` without its exception.
* A revocation reads mandate 1, an edit revokes 1 and issues 2, the revocation
  revokes 1 again (`demo.py:578`): mandate 2 stays active, though
  `demo.py:570-575` says the next request is denied. `RevocationWithdraws` is
  about revocations of a mandate that is still active.
* Two edits read mandate 1; one revokes it and issues 2, the other revokes 1
  again and issues 3. Both are active, and which one counts is a matter of
  `created_at`; a revocation withdraws one of them. `AuthorityIsNotDoubled`
  counts such edits (`late`).
* A confirmation is past its only status check; the human declines, the
  decline is logged and answered; the confirmation overwrites it and charges
  (`checkout.py:401`), though `checkout.py:26` calls declining terminal.
* `chaos.py:46`, item 8, and `chaos.py:447`: "no key is left in flight". The
  pool hands out connections terminated in the storm, the retry swallows a
  database error, and the reconciler leaves an uncharged `PROCESSING` key
  alone. `Rounds` refutes `NoneInFlight`; `LeftInFlightByItsRetry` is what
  holds.
* `reconcile.py:172-184` says "N provider orders share receipt" of an answer
  longer than one; paging may list one order twice. `OrderLookup` refutes
  `ManyMeansMany`. `repair_ledger` then leaves the key to a human for the life
  of the process.
* `audit.py:25-33`: removing only the *last* rows leaves a chain that verifies
  intact; only a recorded head shows it. The comment at `audit.py:306-310`
  expects a fork without the lock; the primary key refuses it, so what the
  lock saves is the second append (`NeverForks` is about the rows,
  `ImplementsAppendOnly` about the entry that was promised).

Seen while modelling, in the model, and without a run of their own:

* `_complete` and `_abandon` are not fenced on `claimed_at`
  (`idempotency.py:287-304`), although `idempotency.py:512-516` says every
  write below the verification is. A caller that stalled past the staleness
  window overwrites a key that was frozen, retried or completed meanwhile.
  `PurchaseCrash` with `"stall"` among the faults refutes
  `PendingLeftOnlyByReconciliation` and `KeepsPromise`.
* `reconcile.py:190` takes the age of the claim after the provider answered,
  so a listing read inside the grace period and judged after it counts as
  evidence. `PurchaseCrash` with `"slow"` among the faults and `Lag = 2`,
  `Grace = 4`, `LastSubmit = 8`, `MaxNow = 12` refutes `KeepsPromise`.
* A late `release_slot` of a failed attempt lands after a retry confirmed the
  slot (`policy.py:334` writes unconditionally): the purchase is completed and
  not counted.
* A retry that times out after a released failure is frozen with a `RELEASED`
  slot, so its budget is not held while its outcome is unknown.
* `retry_after` (`policy.py:393`) is the time until the *oldest* denial leaves
  the window. With more denials than the threshold, the agent that waits for
  it is throttled again.
* Two edits of one mandate that read the same row: the second copy undoes the
  first edit.
* The COMMIT of a completion takes effect and its answer is lost: `_complete`
  takes it for failed and freezes the key (`idempotency.py:485-499`), which is
  `PENDING_VERIFICATION` with its sale booked until the sweep asks the provider.
* The entry that asks a human (`reconcile.py:182`) is written and its COMMIT
  taken for failed: the key is not flagged (`reconcile.py:350`), and the next
  cycle writes the entry again.
* `PURCHASE_REQUESTED` is logged after the offer is stored (`checkout.py:176-179`):
  when the entry cannot be written, the offer can be confirmed all the same.
* `verify()` hashes an absent field like an empty one (`audit.py:232-237`), so
  a column set from NULL to the empty string, or back, is an edit it does not
  see.
* `explain` takes the first verdict in the trail; a request denied once and
  charged on a later confirmation is explained as denied with `money_moved`,
  and `/demo/transactions` calls it `DENIED`, because its order of events puts
  the denial before the capture; its track is halted, though `demo.py:171-172`
  says that a denied request is finished. One that is captured and declined
  after that is `DECLINED`.
* What the reconciler logs has no request id: a request it settled stays
  `PENDING_VERIFICATION` in every view; one whose `PAYMENT_CAPTURED` entry
  could not be written stays in progress.
* Two `add_item` of one SKU both pass the check for an existing one, and the
  second overwrites the first (`demo.py:609-613`); `update_item` renames and
  then raises when the item was removed in between.
* An exception between settling a record and its slot (`reconcile.py:378`)
  leaves the slot held for good: the next cycle does not see the key.
* A delivery whose audit entry fails is ignored when it is redelivered
  (`webhook.py:199`); the interval sweep makes up for it. Two deliveries
  answered in two threads may both pass the check of `_seen`.
* `pending_without_suspense` and `sale_without_completion` are reported and
  never repaired, and any of the three gaps but a missing sale may be reported
  of a purchase that settles between the two reads; the reconciler reads the
  record again, so nothing comes of it.
* An order whose amount is not an integer completes a record without a sale
  (`reconcile.py`, `_book_sale`).
* The trigger that closes a transaction's header is redundant while the
  deferred checks stand. A posting broken while they were dropped can be
  mended by two transactions at once and end with too many lines.
* `_attempt_tamper` reports a `TRUNCATE` that went through as "no rows
  matched" (row count -1); a restart puts dropped triggers back; an append
  whose COMMIT answer is lost raises `AuditWriteError` though the row is there.
* Start-up issues a mandate when none is active, so a revocation does not
  outlive a restart of the reference client (`scripts/run_ui.py:135`); and it
  revokes an active mandate that lists items and issues the default one
  (`scripts/run_ui.py:124-142`), so neither does an edit of the list.

## 5. The proofs

All eight proof modules are checked by `tlapm` to the last leaf; nothing is
assumed but the named assumptions on constants. TLC evaluates these in every
run.

**Ledger** (`LedgerProofs`; `LedgerAssumption`: amounts are positive).
`OrderIndependent` is not inductive: a state could hold a reversal that comes
before its suspense posting, and the posting would be born reversed.
`LedgerInv` adds that a reversed attempt is settled (`ReversedIsSettled`),
that a marker was asked for (`MarkedIsAsked`) and that a key has one sale
(`OneSale`). `LedgerIsInvariant` carries it through the three operations;
`IndexesAreABackstop` and `LedgerImplementsPosition` follow step by step from
it, for any sets of keys, attempts and amounts. `RevenueIsRecognisedOnce` adds
to `OneSale` that the row of a sale has the amount of every sale call that was
answered (`ToldTrue`), and `SuspenseIsMirrored` needs no more than the types:
a reversal is only ever inserted as the mirror of a row that is there.

`AccountsAgree` proves `TrialBalanceAgrees`, which compares sums over the whole
journal with sums over keys. It needs that the rows are finitely many and that
no two are of the same key, attempt and kind (`RowInv`, `RowsAreUnique`). Sums
over finite sets are folds, and what a fold computes cannot be proved by the
library's induction theorems; but a fold satisfies its equation, and if some
finite set broke a law of sums, a smallest one would (`PaiseAreSums`,
`SoldPaiseAreASum`). Then revenue adds up key by key (`SalesAddUp`), and
suspense by pairing each posting with its reversal, so that the open ones
remain (`SuspenseAddsUp`).

**Purchase** (`PurchaseProofs`; `PurchaseAssumption`). For any number of
callers, sweeps, submissions and any set of faults: `TypeOK`,
`CompletedHasSale`, `SaleIsBacked`, `NoSuspenseOnceSold` and
`OnlyTheFirstPayload`. These hold although claims change hands, because of
what a late writer still knows about the *key*: `WorksOnItsPayload` (a caller
past its claim has the payload the record was created with), `CompletesACharge`
(whoever is about to complete has an order of the provider behind it),
`SeenExist` (a listing shows orders that exist) and `NoRowNoPayload`. `IInv` is
their conjunction with the properties. `GraceAssumption` is not needed for any
of these five: what the books say rests on no timing.

That a key is charged once does rest on it. `ChargedAtMostOnce`,
`FrozenUntilReconciled` and `PurchaseKeepsPromise`, the refinement of
`ExactlyOnce`, assume `Benign`: callers crash, are refused, find the provider
mute, and any write to store, books, policy or audit log may fail, or take
effect and be taken for failed, but no thread outlives its claim, no charge
times out or is answered wrongly, listings are judged when they are read, and
one sweep runs at a time. Each exclusion is needed, as section 4 shows. Then
whoever holds the key is the only one, because nobody takes a claim over before
it is stale (`Timely`, `OneHolder`), and what it is about to charge was not
charged (`NotYetCharged`). An order is placed before the claim it is placed
under is stale (`OrdersAreTimely`), so an empty listing read after the grace
period means that there is none: this is where `GraceAssumption` is used. A
frozen key is touched by the sweep alone, which works on the record as it is
(`SweepsFrozen`), and by the caller whose completion failed, or was taken for
failed, whose suspense posting comes last and finds the key frozen or sold
(`SuspendsACharge`). What stands in suspense is the frozen attempt
(`SuspenseIsFrozen`). `OnceInv` is their conjunction with the properties;
`repair_ledger` never finds anything to do in it (`NothingToRepair`).
`UnknownIsExposed` needs in addition that postings do not fail (`BooksObey`),
and `CompletedIsFinal` that no answer of a COMMIT is lost.

`OnceInv` also holds while charges time out (`Mild`), in every step that does
not let a retry in before the freeze (`RetryRefused`, `FreezesAlone`): then the
key says `FAILED` although it may be charged, but only the thread that is about
to freeze it gets anywhere. Hence `OnceIfRetriesAreRefused`: any behaviour, of
any number of callers, that keeps what `gateway.py:249-251` says charges the
key once. One caller who waits for an answer cannot do otherwise
(`PatientCallerIsChargedOnce`, for which only claims begin attempts,
`ClaimsBeginAttempts`). Crashes and failing writes are not for this case: one
of them between the two writes leaves the key open for good.

**Velocity** (`VelocityProofs`; `MandatesAssumption`, `VelocityAssumption`).
`CapHolds`: `RollingCap` for any number of threads, keys, mandates and any
edits. Stamps are not in the order of the transactions, as the clock is read
before the lock, but a window that contains the new stamp `t` starts no earlier
than `t - Window`, so the claim counted every slot in it; later steps only
take slots out of the count or revive them. `MandateBinds`: rows are appended
and revoked, their terms never change, and a mandate found active was not
revoked before the instant read on entry (`WorksUnderMandate`, which rests on
`StampedInThePast`: no stamp is later than the clock). The other conjuncts of
`IInv` say that a slot names a mandate that exists, an approved request has a
slot, and a denial has a rule.
`GrindingStaysBounded` counts, for every open window, its denials together
with the requests already past the cool-down check (`PastCheck`, `GrindInv`):
a request that passes found fewer than `Threshold`, and one that records leaves
the second group for the first. It needs finitely many threads, which
`VelocityAssumption` says.

`AuthorityIsCounted` and `RevocationIsTotal` prove the two properties of
`Mandates` for any number of routes, mandates and restarts. Counted together
are the mandates that live, the routes that have revoked one and have yet to
issue its copy, and a start-up that has yet to issue (`Authority`): each step
moves one to the other or drops it, except that a late edit adds one, so there
is one and one more per late edit. Start-up runs alone (`StartsAlone`), as the
routes died with the process before. With no late edit, a live mandate is all
the authority there is, and its revocation leaves none.
`RequestsLeaveMandates` carries both over to `Velocity`: its behaviours are
behaviours of `Mandates`.

**Checkout** (`CheckoutProofs`; `CheckoutAssumption`). For any number of
threads, requests, keys and prices: `TypeOK`, `ChargedAsShown`,
`OneChargePerIntent`, `ChargeIsEvidenced`, `RefusedStaysRefused`,
`MoneyMovedIsTrue` and, for keys that have not timed out, the refinement
`KeysKeepPromise`. A thread between
its check and the charge works with what it read, so `IInv` says what stands
behind each place of a handler: the request and the amount were displayed with
this key and the entries of the audit log are there (`ThreadsOK`, resting on
`PendingIsMinted` and `OneKeyPerRequest`), and a key that is done was charged
(`KeysOK`). A refusal is final because it needs a
confirmation under way to be overtaken, and none can begin once the request is
`DECLINED`; a restart forgets the request but not its key.

How often a key is charged is counted apart (`Budget`): its charges, the threads
about to charge under it, the attempt that may still take it (`Room`), and the
freezes to come after which the reconciler could open it again are together no
more than one and its time-outs. `IntentChargedOnce` follows, with one key per
request. `KeysImplementExactlyOnce` goes through the steps of each key under
the same count: until the first time-out whoever is about to charge is alone.

Two conjuncts serve what is told afterwards: `RecordedFirst` has
confirmation, approval and attempt in the audit log before a charge, and
`ToldIsTrue` says that a request the views call paid has a charged key.

**Audit log** (`AuditChainProofs`; `AuditAssumption`). A hash stands for what
was hashed, so equal hashes have equal predecessors. `HeadFixesHistory` goes
down the chain: if two intact tables have one hash in common, the rows before
it are the same. The argument is by a least counterexample (`LeastNumber`),
because induction theorems that take an operator cannot be instantiated here.
`ChainNeverForks` and `TrailIsAppendOnly` rest on `GuardInv`: as long as
nothing was breached, the table is gapless and intact, whoever is past the
advisory lock holds it, and the tail it read is still the tail. Its first part,
`ChainInv`, lasts until the first edit. That edit breaks the row it is expected
to break and no row before it; afterwards every appender reads a tail that is
not before that row, so what it adds leaves the row as it is (`LocInv`), and
`LoneEditIsLocated` follows. For any number of threads, rows, edits and dropped
triggers.

**Paging** (in `SweepsProofs`; `OrderLookupAssumption`: a page is not empty).
An order that was listed when the lookup began is matched already or lies beyond `skip` (`SeenOrAhead`): an order that arrives moves the others away
from the head, never towards it. Without an arrival what was matched lies
before `skip` (`SeenIsBehind`), hence a repetition needs an arrival
(`RepeatsAreShifts`). Every page before the last was full (`PagesWereFull`),
so a lookup that gives up was facing a list as long as its reach. For any page
size, limit, list and arrivals.

**Tables** (`BooksProofs`; `BooksAssumption`). `RowInv` is what the database
keeps whatever triggers stand: the ids of open transactions are their own,
lines have a header, an idle session holds nothing; and, while all triggers
stand, a transaction that passed its deferred checks would commit whole
postings. `PostingsStayWhole` follows for any number of writers and outsiders.
`ReportedGapsAreReal` needs `KeyInv` instead: one transaction per key at a
time, `COMPLETED` is final, so a record listed as completed before the books
are read is completed while they are read. `AlarmsHaveAReason` proves
`NoFalseAlarm`. Transactions commit between the statements of a view, but each
statement sums one snapshot: if every posting in it is whole, its lines cancel,
account against account and in total (`WholeBooksBalance`). So a statement that
finds the sums apart has a broken posting before it, and the view remembers
both (`AlarmIsKnown`). The sums are handled as in `LedgerProofs`. It needs finitely many ids (`BooksAssumption`),
which the column `BIGINT` grants.

**Sweeps** (`SweepsProofs`; `SweepsAssumption`: finitely many threads, keys
in an order). A cycle works with a record and an answer it read before, and
other cycles settle the same key meanwhile. What it knows is still true in one
respect: an answer that counts as evidence is the number of orders the key has
(`CyclesKnow`), and this number does not change once the key was left. With
`BooksClose` (nothing stays in suspense once the attempt was booked) each way
of settling ends as `SettledAsCharged` says, however often it is repeated. For
`AskedOncePerThread` the entries of a flagged key and the threads that may
still add one are counted together (`AskedByThreads`): a thread that adds one
leaves the second count, and no cycle that lists keys later joins it; an entry
taken for unwritten is counted as such and flags nothing. For any
number of keys, loops and deliveries.

**Rounds** (`RoundsProofs`; `RoundsAssumption`: finitely many keys, in an order).
`IInv` speaks of each key by itself (`KeyInv`): it has at most one order, and
revenue only if it has one (`OneOrder`); only the last attempt of a frozen key
is in suspense (`SuspenseIsFrozen`); what a purchase has done when it is at a
place (`WhereItIs`); it is claimed once in the storm and once in the retry
(`ClaimedOnce`); nothing is under way when the reconciler comes
(`OverWhenReconciled`); once visited, its money adds up (`VisitedAddsUp`); and
it was left in flight only if a connection was lost (`LeftOnlyByLoss`). A step
of a purchase touches its own key, a visit of the reconciler makes the money of
its key add up whatever happened before, and visiting twice does no harm.
`TheMoneyAddsUp` and `InFlightOnlyByLoss` follow for any number of purchases
and terminated connections.

Model-checked only: the liveness properties of `PurchaseSettles` and `Sweeps`
(fairness and ENABLED are out of the prover's reach). Every invariant and every
action property that a run checks, and every refinement, is a theorem; a few of
them under conditions that this section names.

## 6. Abstractions and what is left out

* One key in `Purchase`: keys share no record and no lock. What keys share
  (accounts, budget) is in `Ledger` and `Velocity`.
* The stale claim's verification is one step: it reads the provider and local
  values only; with `"slow"` its answer may be old.
* The branch of `reconcile` for an order of a different amount
  (`reconcile.py:245-263`) is left out: `OnlyTheFirstPayload` shows that no
  state reaches it.
* Amounts stand for whole payloads and requests: a fingerprint is the price,
  a malformed request is amount 0, and of the rules of a mandate there are the
  cap (which stands for the currency too, checked at the same place), the limit,
  the expiry, and whether the item is on the list.
* The windows of the policy are the same for all mandates.
* Audit entries are steps that may fail where they are written before
  something else; of the trail, `Checkout` keeps the kinds that its properties
  are about.
* Times are integers, so that equal stamps, which the code does not rule out,
  happen often.
* A hash of the audit log is the tuple that was hashed: collisions do not
  exist. A row's columns are one entry and its two hashes; entries that differ
  in NULL against '' only are one entry, as they are one to the hash. `AuditChain` takes
  the routes that tamper as SQL statements that the triggers refuse or not.
* A line of `Books` is one paisa on one side; amounts are the number of lines,
  which tells balanced from unbalanced. Accounts are not kept apart there; they
  are in `Ledger`, where the trial balance is.
* `Sweeps` has keys on their first attempt, left in one of the states that
  purchases leave, and an answer of the provider is acted upon before it is
  `Grace` old; stale claims, late answers and retries of the same key are in
  `Purchase`. Signature, age and shape of a webhook delivery are one condition:
  it was accepted.
* One receipt stands for one key in every module. `scripts/run_ui.py:62` makes
  it of the first 18 characters of the key, which leaves 11 of the 16 random
  digits of a checkout key; keys that differ only after that (those of
  `adversary.py:238`) share a receipt, and nothing here speaks of them.
* `OrderLookup` is the provider with paging. `SimulatedProvider` answers from
  its list in one read, which is a listing of `Purchase` without lag.
* `Rounds` takes each step of a purchase that the harness drives as the code
  in `idempotency.py` and `ledger.py` does it, with the connection it draws
  from the pool good or broken; the pool is the number of broken connections
  in it.
* Not modelled: intent parsing, recommendations, narration and encryption
  (functions of their input; they keep no state and no order of steps), the
  API's status codes and routing, admin tokens (cryptography and one
  comparison), the adversarial suite (a list of attempts that drives the API)
  and the frontend.

## 7. Plan

Done, in this order: `LedgerPosition`, `Ledger` and its proofs; `ExactlyOnce`,
`Purchase` and its proofs; `Mandates`, `Velocity` and their proofs;
`Checkout` and its proofs; `Sweeps`, `AuditChain`, `OrderLookup`, `Books` and
their proofs; the views of the audit log in `Checkout`; `Rounds` and its
proofs; the sums of `Ledger` and `Books`; time-outs and failing writes in the
proofs of `Purchase`.

What is left:

1. Retries of a key within `Sweeps`, which would join it with `Purchase`
   completely; the state space of two keys with attempts is beyond what TLC
   does in minutes.
2. Several processes: the memory of one process (`_pending`, `_needs_human`,
   `_seen`) is lost by a restart in the models, but not yet held twice.
