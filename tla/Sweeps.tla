------------------------------- MODULE Sweeps -------------------------------
(***************************************************************************)
(* Putting right what purchases left behind, over many keys: the sweep and *)
(* the repair of the books (reconcile.py), the scheduler that runs them on *)
(* an interval, and the webhook receiver (webhook.py) that runs them when  *)
(* the provider calls.  One cycle visits its keys in order; an exception   *)
(* ends the cycle.  Cycles of several threads may overlap.                 *)
(*                                                                         *)
(* Purchases are reduced to what they leave (Leave); the race of one       *)
(* reconcile() with retries of its own key is Purchase.tla's, and a key is *)
(* on its first attempt here.  An answer of the provider is acted upon     *)
(* before it is Grace old.                                                 *)
(*                                                                         *)
(* A definition placed just before another one with the same parameters    *)
(* and named by no action is a plausible slip of it, for the mutants.      *)
(***************************************************************************)
EXTENDS Naturals, FiniteSets, FiniteSetsExt

CONSTANTS Keys,        \* scope keys, numbers in the order of their claims
          Loops,       \* threads of the scheduler, one per start()
          Receiver,    \* the thread that answers webhook deliveries
          Deliveries,  \* ids of deliveries
          MaxEvents    \* bound: deliveries, stops, restarts and answers lost, together

ASSUME SweepsAssumption ==
  Keys \subseteq Nat /\ IsFiniteSet(Keys) /\ IsFiniteSet(Loops) /\ Receiver \notin Loops

VARIABLES status,   \* the key's idempotency record
          books,    \* the key's position in the ledger
          slot,     \* the key's velocity slot
          orders,   \* how many orders the provider holds for its receipt
          aged,     \* whether the claim is older than the grace period
          sweeper,  \* sweeper[t]: where run_once() is in thread t
          flagged,  \* Reconciler._needs_human
          entries,  \* DIVERGENCE_DETECTED entries repair_ledger left for the key
          lost,     \* how many of them it took for unwritten
          alive,    \* the scheduler's threads that run
          current,  \* ReconciliationScheduler._thread, a set of at most one
          stopping, \* ReconciliationScheduler._stop
          seen,     \* WebhookReceiver._seen
          events    \* deliveries, stops, restarts and answers lost so far

keyVars == <<status, books, slot>>
providerVars == <<orders, aged>>
schedulerVars == <<alive, current, stopping>>
vars == <<keyVars, providerVars, sweeper, flagged, entries, lost,
          schedulerVars, seen, events>>

Threads == Loops \cup {Receiver}

Ledger == INSTANCE LedgerPosition
            WITH Attempts <- {1}, Amounts <- {1}, pos <- books

COMPLETED == "COMPLETED"
FAILED == "FAILED"
PENDING == "PENDING_VERIFICATION"

(* row and answer are the record and the orders of key as reconcile() read *)
(* them.                                                                   *)
Sweeper == [pc : {"idle", "list", "ask", "act", "slot"},
            pass : {"sweep", "repair"}, todo : SUBSET Keys,
            row : {"none", COMPLETED, FAILED, PENDING}, answer : 0 .. 2]
Idle == [pc |-> "idle", pass |-> "sweep", todo |-> {}, row |-> "none", answer |-> 0]
CycleStarts == [Idle EXCEPT !.pc = "list"]

TypeOK ==
  /\ status \in [Keys -> {"none", COMPLETED, FAILED, PENDING}]
  /\ books \in [Keys -> Ledger!Position]
  /\ slot \in [Keys -> {"none", "held", "confirmed", "released"}]
  /\ orders \in [Keys -> 0 .. 2]
  /\ aged \in [Keys -> BOOLEAN]
  /\ sweeper \in [Threads -> Sweeper]
  /\ flagged \subseteq Keys
  /\ entries \in [Keys -> Nat] /\ lost \in [Keys -> Nat]
  /\ alive \subseteq Loops /\ current \subseteq Loops /\ stopping \in BOOLEAN
  /\ seen \subseteq Deliveries
  /\ events \in 0 .. MaxEvents

FirstLoop == CHOOSE l \in Loops : TRUE

(* The process has just started its scheduler (run_ui.py).                 *)
Init ==
  /\ status = [k \in Keys |-> "none"]
  /\ books = [k \in Keys |-> Ledger!EmptyPosition]
  /\ slot = [k \in Keys |-> "none"]
  /\ orders = [k \in Keys |-> 0]
  /\ aged = [k \in Keys |-> FALSE]
  /\ sweeper = [t \in Threads |-> Idle]
  /\ flagged = {}
  /\ entries = [k \in Keys |-> 0] /\ lost = [k \in Keys |-> 0]
  /\ alive = {FirstLoop} /\ current = {FirstLoop}
  /\ stopping = FALSE
  /\ seen = {}
  /\ events = 0

-----------------------------------------------------------------------------
(* What purchases leave, and what the provider shows of it.                *)

Suspended == Ledger!AfterUnverified(Ledger!EmptyPosition, 1)

(* Frozen, with the suspense posting or without; completed, without the    *)
(* sale; failed over a freeze, with the suspense still open.               *)
Leftovers ==
  {[status |-> PENDING, position |-> p] : p \in {Suspended, Ledger!EmptyPosition}}
  \cup {[status |-> COMPLETED, position |-> Ledger!EmptyPosition],
        [status |-> FAILED, position |-> Suspended]}

Leave(k, left, n) ==
  /\ status[k] = "none"
  /\ status' = [status EXCEPT ![k] = left.status]
  /\ books' = [books EXCEPT ![k] = left.position]
  /\ slot' = [slot EXCEPT ![k] = "held"]
  /\ orders' = [orders EXCEPT ![k] = n]
  /\ UNCHANGED <<aged, sweeper, flagged, entries, lost, schedulerVars,
                 seen, events>>

GracePasses(k) ==
  /\ status[k] # "none" /\ ~aged[k]
  /\ aged' = [aged EXCEPT ![k] = TRUE]
  /\ UNCHANGED <<keyVars, orders, sweeper, flagged, entries, lost, schedulerVars,
                 seen, events>>

-----------------------------------------------------------------------------
(* ReconciliationScheduler.run_once: the sweep, then the repair.           *)

Frozen(k) == status[k] = PENDING

(* Ledger.discrepancies, the problems in REPAIRABLE.                       *)
MissingSale(k) == status[k] = COMPLETED /\ ~Ledger!Sold(books[k])
OpenSuspenseNotPending(k) == status[k] # PENDING /\ books[k].open # {}
Gap(k) == MissingSale(k) \/ OpenSuspenseNotPending(k)

ToSweep == {k \in Keys : Frozen(k)}
ToRepair == {k \in Keys : Gap(k)} \ flagged

Goes(t, s) == sweeper' = [sweeper EXCEPT ![t] = s]

(* pending_verification(), or discrepancies(records()).                    *)
List(t) ==
  LET s == sweeper[t]
      todo == IF s.pass = "sweep" THEN ToSweep ELSE ToRepair
  IN /\ s.pc = "list"
     /\ Goes(t, [s EXCEPT !.pc = "ask", !.todo = todo])
     /\ UNCHANGED <<keyVars, providerVars, flagged, entries, lost, schedulerVars,
                    seen, events>>

Visiting(t) == Min(sweeper[t].todo)

(* Nothing left to visit: on to the repair, then the cycle is over.        *)
PassEnds(t) ==
  LET s == sweeper[t]
  IN /\ s.pc = "ask" /\ s.todo = {}
     /\ Goes(t, IF s.pass = "sweep"
                THEN [CycleStarts EXCEPT !.pass = "repair"] ELSE Idle)
     /\ UNCHANGED <<keyVars, providerVars, flagged, entries, lost, schedulerVars,
                    seen, events>>

NextKey(s, k) == [s EXCEPT !.pc = "ask", !.todo = @ \ {k}, !.row = "none", !.answer = 0]

(* The list lags, by less than the grace period.                           *)
Answers(k) == IF aged[k] THEN {orders[k]} ELSE {0, orders[k]}

(* "absence is not yet evidence"                                           *)
EvidenceAtOnce(k, answer) == TRUE
Evidence(k, answer) == answer > 0 \/ aged[k]

(* store.get and orders_for_receipt; an empty answer inside the grace      *)
(* period is STILL_UNKNOWN, and the key is left for the next cycle.        *)
Ask(t, k) ==
  LET s == sweeper[t]
  IN /\ s.pc = "ask" /\ s.todo # {} /\ k = Visiting(t)
     /\ \E answer \in Answers(k) :
          Goes(t, IF Evidence(k, answer)
                  THEN [s EXCEPT !.pc = "act", !.row = status[k], !.answer = answer]
                  ELSE NextKey(s, k))
     /\ UNCHANGED <<keyVars, providerVars, flagged, entries, lost, schedulerVars,
                    seen, events>>

(* ProviderTimeout or ProviderError: STILL_UNKNOWN too.                    *)
NoAnswer(t, k) ==
  /\ sweeper[t].pc = "ask" /\ sweeper[t].todo # {} /\ k = Visiting(t)
  /\ Goes(t, NextKey(sweeper[t], k))
  /\ UNCHANGED <<keyVars, providerVars, flagged, entries, lost, schedulerVars,
                 seen, events>>

(* NEEDS_HUMAN_REVIEW: logged; the repair does not ask again.  The flag is *)
(* raised a little after the entry: another thread that lists the key in   *)
(* between might as well have listed it before the entry, and a crash      *)
(* forgets both.                                                           *)
NeedsHuman(s) == s.answer = 2 \/ (s.answer = 0 /\ s.row = COMPLETED)

NotFlagged(t, k) == flagged
Flagged(t, k) == IF sweeper[t].pass = "repair" THEN flagged \cup {k} ELSE flagged

LeaveToHumans(t, k) ==
  /\ flagged' = Flagged(t, k)
  /\ entries' = [entries EXCEPT ![k] = IF sweeper[t].pass = "repair" THEN @ + 1 ELSE @]
  /\ Goes(t, NextKey(sweeper[t], k))
  /\ UNCHANGED <<status, books>>

(* The record, the books, and the slot after them; a settled key's record  *)
(* stays as it is.                                                         *)
Settle(t, k, outcome, position) ==
  /\ status' = [status EXCEPT ![k] = outcome]
  /\ books' = [books EXCEPT ![k] = position]
  /\ Goes(t, IF sweeper[t].row = outcome THEN NextKey(sweeper[t], k)
                                         ELSE [sweeper[t] EXCEPT !.pc = "slot"])
  /\ UNCHANGED <<flagged, entries>>

BookOnly(t, k, position) ==
  /\ books' = [books EXCEPT ![k] = position]
  /\ Goes(t, NextKey(sweeper[t], k))
  /\ UNCHANGED <<status, flagged, entries>>

(* reconcile() with an answer that decides.                                *)
Act(t, k) ==
  LET s == sweeper[t]
  IN /\ s.pc = "act" /\ k = Visiting(t)
     /\ \/ NeedsHuman(s) /\ LeaveToHumans(t, k)
        \/ /\ s.answer = 0 /\ s.row = PENDING
           /\ Settle(t, k, FAILED, Ledger!AfterNotExecuted(books[k], 1))
        \/ /\ s.answer = 0 /\ s.row = FAILED
           /\ BookOnly(t, k, Ledger!AfterNotExecuted(books[k], 1))
        \/ /\ s.answer = 1 /\ s.row = COMPLETED
           /\ BookOnly(t, k, Ledger!AfterSale(books[k], 1))
        \/ /\ s.answer = 1 /\ s.row # COMPLETED
           /\ Settle(t, k, COMPLETED, Ledger!AfterSale(books[k], 1))
     /\ UNCHANGED <<slot, providerVars, lost, schedulerVars, seen, events>>

(* _confirm_slot or _release_slot.                                         *)
SettleSlot(t, k) ==
  LET s == sweeper[t]
  IN /\ s.pc = "slot" /\ k = Visiting(t)
     /\ slot' = [slot EXCEPT ![k] = IF s.answer = 1 THEN "confirmed" ELSE "released"]
     /\ Goes(t, NextKey(s, k))
     /\ UNCHANGED <<status, books, providerVars, flagged, entries, lost,
                    schedulerVars, seen, events>>

(* An exception, of the store, the books, the policy, the audit log or an  *)
(* answer that is not what it should be, ends the cycle and is recorded;   *)
(* the thread lives on.  One while the keys are listed is one at the first *)
(* of them: none is visited.                                               *)
DiesOfException(t) == Goes(t, [Idle EXCEPT !.pc = "dead"])
AfterException(t) == Goes(t, Idle)

CycleFails(t) ==
  /\ sweeper[t].pc \in {"ask", "act", "slot"} /\ sweeper[t].todo # {}
  /\ AfterException(t)
  /\ UNCHANGED <<keyVars, providerVars, flagged, entries, lost, schedulerVars,
                 seen, events>>

EventHappens == events < MaxEvents /\ events' = events + 1

(* The entry is there, but the answer of its COMMIT did not arrive: the    *)
(* exception ends the cycle before the key is flagged.                     *)
DivergenceAnswerLost(t, k) ==
  LET s == sweeper[t]
  IN /\ s.pc = "act" /\ s.pass = "repair" /\ k = Visiting(t)
     /\ NeedsHuman(s) /\ EventHappens
     /\ entries' = [entries EXCEPT ![k] = @ + 1]
     /\ lost' = [lost EXCEPT ![k] = @ + 1]
     /\ AfterException(t)
     /\ UNCHANGED <<keyVars, providerVars, flagged, schedulerVars, seen>>

-----------------------------------------------------------------------------
(* ReconciliationScheduler: start, _loop, stop.                            *)

LoopTurns(l) ==
  /\ l \in alive /\ sweeper[l].pc = "idle" /\ ~stopping
  /\ Goes(l, CycleStarts)
  /\ UNCHANGED <<keyVars, providerVars, flagged, entries, lost, schedulerVars,
                 seen, events>>

LoopExits(l) ==
  /\ l \in alive /\ sweeper[l].pc = "idle" /\ stopping
  /\ alive' = alive \ {l}
  /\ UNCHANGED <<keyVars, providerVars, sweeper, flagged, entries, lost, current,
                 stopping, seen, events>>

(* join() has waited for the thread, or its timeout has passed.            *)
Stop ==
  /\ current # {} /\ EventHappens
  /\ stopping' = TRUE /\ current' = {}
  /\ UNCHANGED <<keyVars, providerVars, sweeper, flagged, entries, lost, alive, seen>>

Start(l) ==
  /\ current = {} /\ l \in Loops \ alive
  /\ stopping' = FALSE /\ current' = {l} /\ alive' = alive \cup {l}
  /\ UNCHANGED <<keyVars, providerVars, sweeper, flagged, entries, lost, seen, events>>

(* The process dies and is started again: what was in memory is gone.      *)
Crash ==
  /\ EventHappens
  /\ sweeper' = [t \in Threads |-> Idle]
  /\ flagged' = {}
  /\ entries' = [k \in Keys |-> 0] /\ lost' = [k \in Keys |-> 0]
  /\ seen' = {}
  /\ alive' = {FirstLoop} /\ current' = {FirstLoop}
  /\ stopping' = FALSE
  /\ UNCHANGED <<keyVars, providerVars>>

-----------------------------------------------------------------------------
(* WebhookReceiver.receive, once the signature, the JSON and the age of a  *)
(* delivery were found good; a refusal (401) and a repetition of what was  *)
(* seen change nothing here.                                               *)

Fresh(d) == d \notin seen /\ \E k \in Keys : orders[k] > 0

(* Logged, and on_verified runs a cycle before the answer goes out.        *)
Accept(d) ==
  /\ Fresh(d) /\ sweeper[Receiver].pc = "idle" /\ EventHappens
  /\ seen' = seen \cup {d}
  /\ Goes(Receiver, CycleStarts)
  /\ UNCHANGED <<keyVars, providerVars, flagged, entries, lost, schedulerVars>>

(* It counts as seen before it is logged: when the log fails the answer is *)
(* 500, and the delivery that comes again is ignored.                      *)
LogFails(d) ==
  /\ Fresh(d) /\ sweeper[Receiver].pc = "idle" /\ EventHappens
  /\ seen' = seen \cup {d}
  /\ UNCHANGED <<keyVars, providerVars, sweeper, flagged, entries, lost,
                 schedulerVars>>

-----------------------------------------------------------------------------

Next ==
  \/ \E k \in Keys : \/ \E left \in Leftovers, n \in 0 .. 2 : Leave(k, left, n)
                     \/ GracePasses(k)
  \/ \E t \in Threads :
       \/ List(t) \/ PassEnds(t) \/ CycleFails(t)
       \/ \E k \in Keys : \/ Ask(t, k) \/ NoAnswer(t, k) \/ Act(t, k)
                         \/ DivergenceAnswerLost(t, k) \/ SettleSlot(t, k)
  \/ \E l \in Loops : LoopTurns(l) \/ LoopExits(l) \/ Start(l)
  \/ Stop \/ Crash
  \/ \E d \in Deliveries : Accept(d) \/ LogFails(d)

Spec == Init /\ [][Next]_vars

(* Time passes; a loop turns, or exits, and is started again once stopped; *)
(* the provider answers, and the writes succeed, for every key that is     *)
(* asked about again and again.  Nothing is assumed of webhooks.           *)
Fairness ==
  /\ \A k \in Keys : WF_vars(GracePasses(k))
  /\ \A k \in Keys : /\ SF_vars(\E l \in Loops : Ask(l, k))
                      /\ SF_vars(\E l \in Loops : Act(l, k))
  /\ \A l \in Loops :
       /\ WF_vars(LoopTurns(l) \/ LoopExits(l) \/ List(l) \/ PassEnds(l))
       /\ WF_vars(sweeper[l].pc = "slot"
                   /\ (CycleFails(l) \/ \E k \in Keys : SettleSlot(l, k)))
  /\ WF_vars(\E l \in Loops : Start(l))

FairSpec == Spec /\ Fairness

-----------------------------------------------------------------------------
(* Properties.                                                             *)

(* Whatever cycles overlap, fail or are cut off by a restart, a frozen key *)
(* is settled to what the provider did, books and record in one step, and  *)
(* the budget of a key with an order is never handed back.                 *)
SettledByTheProvider ==
  [][\A k \in Keys :
       /\ Frozen(k) /\ ~Frozen(k)' =>
            \/ /\ status'[k] = COMPLETED /\ orders[k] = 1
               /\ Ledger!Sold(books'[k]) /\ books'[k].open = {}
            \/ status'[k] = FAILED /\ orders[k] = 0 /\ books'[k].open = {}
       /\ slot'[k] = "released" => orders[k] = 0]_vars

(* repair_ledger logs "needs a human" for a key once in a process, or once *)
(* for every thread that was repairing at that time, and from then on the  *)
(* key is flagged; an entry it took for unwritten is one more, and flags   *)
(* nothing.                                                                *)
HumansAreAskedOnce ==
  \A k \in Keys : entries[k] <= lost[k] + IF k \in flagged THEN Cardinality(Threads) ELSE 0

(* A frozen key whose receipt has no second order, or a gap between books  *)
(* and records, is always settled by some later cycle or left to a human,  *)
(* although cycles fail, deliveries get lost and processes restart.        *)
LooseEnd(k) == (Frozen(k) /\ orders[k] < 2) \/ (Gap(k) /\ k \notin flagged)

LooseEndsAreTied == \A k \in Keys : []<>~LooseEnd(k)

(* "One sweep runs at a time."  Not so: each thread runs its own.          *)
NeverOverlapping ==
  \A t, u \in Threads : sweeper[t].pc # "idle" /\ sweeper[u].pc # "idle" => t = u
=============================================================================
