-------------------------------- MODULE Books --------------------------------
(***************************************************************************)
(* The tables under the books (ledger.py, _SCHEMA): postings written in    *)
(* concurrent transactions by the application and, over connections of     *)
(* their own, by outsiders with raw SQL; the triggers that guard them; and *)
(* the view that reads them statement by statement (demo.py, ledger_view). *)
(*                                                                         *)
(* A line is one paisa on CLEARING or one paisa off REVENUE, so a posting  *)
(* is how many of each it has.  Ledger.tla says which postings an          *)
(* operation makes; here an operation is kept for the rows it writes with  *)
(* the key's record.  A transaction's own rows are seen by nobody else     *)
(* until it commits, and a refused statement changes nothing.              *)
(*                                                                         *)
(* A definition placed just before another one with the same parameters    *)
(* and named by no action is a plausible slip of it, for the mutants.      *)
(***************************************************************************)
EXTENDS Integers, FiniteSets, FiniteSetsExt

CONSTANTS Keys,       \* scope keys of purchases
          NoKey,      \* the scope key of a forged posting
          Ids,        \* txn_ids; one an aborted transaction drew may be drawn again
          Writers,    \* transactions of the application
          Outsiders,  \* connections of somebody with a psql prompt
          LineCounts, \* values of line_count, all even
          DropSets,   \* which triggers somebody drops at once
          MaxLines    \* bound: lines of a posting

(* A txn_id is a BIGINT, so there are finitely many.                       *)
ASSUME BooksAssumption ==
  /\ NoKey \notin Keys /\ Writers \cap Outsiders = {}
  /\ LineCounts \subseteq Nat /\ MaxLines \in Nat
  /\ IsFiniteSet(Ids)

VARIABLES header,   \* header[id]: the committed row of ledger_transactions
          lines,    \* lines[id]: the committed rows of ledger_entries
          status,   \* status[k]: the key's idempotency record
          triggers, \* the triggers that are there
          tx,       \* tx[s]: the open transaction of session s
          report     \* where ledger_view() is, and what it has read

rowVars == <<header, lines>>
vars == <<header, lines, status, triggers, tx, report>>

Sessions == Writers \cup Outsiders

CLOSED == "ledger_entries_closed_transaction"
LINES_BALANCED == "ledger_entries_balanced"
HEADERS_BALANCED == "ledger_transactions_balanced"
APPEND_ONLY == "ledger_entries_no_change"
Triggers == {CLOSED, LINES_BALANCED, HEADERS_BALANCED, APPEND_ONLY}

KINDS == {"SALE", "UNVERIFIED", "SUSPENSE_REVERSED", "RESOLVED"}
Header == [kind : KINDS \cup {"none"}, key : Keys \cup {NoKey}, declared : Nat]
NoHeader == [kind |-> "none", key |-> NoKey, declared |-> 0]

Lines == [clearing : Nat, revenue : Nat]
NoLines == [clearing |-> 0, revenue |-> 0]
Plus(a, b) == [clearing |-> a.clearing + b.clearing, revenue |-> a.revenue + b.revenue]
Count(l) == l.clearing + l.revenue
Net(l) == l.clearing - l.revenue

Statuses == {"none", "PROCESSING", "COMPLETED", "FAILED", "PENDING_VERIFICATION"}

Tx == [pc : {"idle", "open", "checked"}, header : [Ids -> Header], lines : [Ids -> Lines],
       key : Keys \cup {NoKey}, status : Statuses]
NoTx == [pc |-> "idle", header |-> [id \in Ids |-> NoHeader],
         lines |-> [id \in Ids |-> NoLines], key |-> NoKey, status |-> "none"]

(* What a report holds, and (wrong, gaps) what was true when it was read.  *)
Report == [pc : {"idle", "totals", "verified", "half", "compared"}, alarm : BOOLEAN,
           completed : SUBSET Keys, unsold : SUBSET Keys, wrong : BOOLEAN, gaps : SUBSET Keys]
NoReport == [pc |-> "idle", alarm |-> FALSE, completed |-> {}, unsold |-> {},
             wrong |-> FALSE, gaps |-> {}]

-----------------------------------------------------------------------------

Committed == {id \in Ids : header[id].kind # "none"}
Fresh == {id \in Ids \ Committed : \A s \in Sessions : tx[s].header[id].kind = "none"}

Whole(h, l) == Count(l) = h.declared /\ Net(l) = 0
WholeNow(id) == Whole(header[id], lines[id])

(* A posting as session s sees it: what is committed, and its own rows.    *)
HeaderSeen(s, id) == IF tx[s].header[id].kind # "none" THEN tx[s].header[id] ELSE header[id]
LinesSeen(s, id) == Plus(lines[id], tx[s].lines[id])

Posted(kind, k) == {id \in Ids : header[id].kind = kind /\ header[id].key = k}
HasSale(k) == Posted("SALE", k) # {}
OpenSuspense(k) ==
  Cardinality(Posted("UNVERIFIED", k)) > Cardinality(Posted("SUSPENSE_REVERSED", k))

-----------------------------------------------------------------------------
(* Transactions end.                                                       *)

TouchedByLines(s) ==
  {id \in Ids : tx[s].lines[id] # NoLines /\ LINES_BALANCED \in triggers}
Touched(s) ==
  {id \in Ids : \/ tx[s].lines[id] # NoLines /\ LINES_BALANCED \in triggers
                \/ tx[s].header[id].kind # "none" /\ HEADERS_BALANCED \in triggers}

(* At COMMIT the deferred triggers re-add every posting the transaction    *)
(* touched; others may commit before it has.                               *)
CheckPostings(s) ==
  /\ tx[s].pc = "open"
  /\ \A id \in Touched(s) : Whole(HeaderSeen(s, id), LinesSeen(s, id))
  /\ tx' = [tx EXCEPT ![s].pc = "checked"]
  /\ UNCHANGED <<rowVars, status, triggers, report>>

Commit(s) ==
  /\ tx[s].pc = "checked"
  /\ header' = [id \in Ids |-> HeaderSeen(s, id)]
  /\ lines' = [id \in Ids |-> LinesSeen(s, id)]
  /\ status' = [k \in Keys |-> IF tx[s].key = k THEN tx[s].status ELSE status[k]]
  /\ tx' = [tx EXCEPT ![s] = NoTx]
  /\ UNCHANGED <<triggers, report>>

(* A refusal, an exception of the caller, or the connection is gone.       *)
RollBack(s) ==
  /\ tx[s].pc # "idle"
  /\ tx' = [tx EXCEPT ![s] = NoTx]
  /\ UNCHANGED <<rowVars, status, triggers, report>>

-----------------------------------------------------------------------------
(* The application: the record of a key changes and its postings are       *)
(* written in one transaction, under the lock of the key.                  *)

Unlocked(k) == \A s \in Sessions : tx[s].key # k

(* _insert(): a header that declares its lines, and the lines.             *)
Insert(t, id, kind, k, count) ==
  [t EXCEPT !.header[id] = [kind |-> kind, key |-> k, declared |-> count],
            !.lines[id] = [clearing |-> count \div 2, revenue |-> count \div 2]]

Begins(w, k, becomes, t) == tx' = [tx EXCEPT ![w] = [t EXCEPT !.pc = "open", !.key = k,
                                                              !.status = becomes]]

(* The first posting of the transaction mirrors open suspense, if any.     *)
Reversed(k, id) ==
  IF OpenSuspense(k) THEN Insert(NoTx, id, "SUSPENSE_REVERSED", k, 2) ELSE NoTx

(* complete(), recover_crashed(), resolve_verified(); a sweep that finds a *)
(* completed key without its sale books it; an order without an integer    *)
(* amount is completed and not booked.                                     *)
Complete(w, k) ==
  /\ tx[w].pc = "idle" /\ Unlocked(k)
  /\ status[k] \in {"PROCESSING", "PENDING_VERIFICATION", "COMPLETED"}
  /\ \/ ~HasSale(k) /\ \E id, rid \in Fresh :
          /\ id # rid
          /\ Begins(w, k, "COMPLETED", Insert(Reversed(k, rid), id, "SALE", k, 2))
     \/ status[k] # "COMPLETED" /\ Begins(w, k, "COMPLETED", NoTx)
  /\ UNCHANGED <<rowVars, status, triggers, report>>

(* freeze(), with record_unverified().                                     *)
Freeze(w, k) ==
  /\ tx[w].pc = "idle" /\ Unlocked(k)
  /\ status[k] \in {"PROCESSING", "FAILED"}
  /\ \E id \in Fresh : Begins(w, k, "PENDING_VERIFICATION", Insert(NoTx, id, "UNVERIFIED", k, 2))
  /\ UNCHANGED <<rowVars, status, triggers, report>>

(* resolve_not_executed(), with record_not_executed().                     *)
ReleaseFrozen(w, k) ==
  /\ tx[w].pc = "idle" /\ Unlocked(k)
  /\ status[k] = "PENDING_VERIFICATION"
  /\ \E id, rid \in Fresh :
       /\ id # rid
       /\ Begins(w, k, "FAILED", Insert(Reversed(k, rid), id, "RESOLVED", k, 0))
  /\ UNCHANGED <<rowVars, status, triggers, report>>

(* The record alone: a claim, and an attempt that failed.                  *)
Claim(k) ==
  /\ Unlocked(k)
  /\ status[k] \in {"none", "FAILED"}
  /\ status' = [status EXCEPT ![k] = "PROCESSING"]
  /\ UNCHANGED <<rowVars, triggers, tx, report>>

Fail(k) ==
  /\ Unlocked(k)
  /\ status[k] = "PROCESSING"
  /\ status' = [status EXCEPT ![k] = "FAILED"]
  /\ UNCHANGED <<rowVars, triggers, tx, report>>

-----------------------------------------------------------------------------
(* Outsiders.                                                              *)

RawHeader(o) ==
  /\ tx[o].pc # "checked"
  /\ \E id \in Fresh, n \in LineCounts :
       tx' = [tx EXCEPT ![o].pc = "open",
                        ![o].header[id] = [kind |-> IF n = 0 THEN "RESOLVED" ELSE "SALE",
                                           key |-> NoKey, declared |-> n]]
  /\ UNCHANGED <<rowVars, status, triggers, report>>

OneLine == {[clearing |-> 1, revenue |-> 0], [clearing |-> 0, revenue |-> 1]}

HasRoom(s, id) == Count(LinesSeen(s, id)) < HeaderSeen(s, id).declared

(* Into a posting of its own or a committed one: the foreign key.          *)
RawLine(o) ==
  /\ tx[o].pc # "checked"
  /\ \E id \in Ids, line \in OneLine :
       /\ HeaderSeen(o, id).kind # "none"
       /\ CLOSED \in triggers => HasRoom(o, id)
       /\ Count(LinesSeen(o, id)) < MaxLines
       /\ tx' = [tx EXCEPT ![o].pc = "open", ![o].lines[id] = Plus(tx[o].lines[id], line)]
  /\ UNCHANGED <<rowVars, status, triggers, report>>

(* UPDATE, DELETE or TRUNCATE of lines, on its own.                        *)
RawEdit(o) ==
  /\ tx[o].pc = "idle" /\ APPEND_ONLY \notin triggers
  /\ \E id \in Committed, l \in {NoLines} \cup OneLine :
       lines[id] # NoLines /\ lines' = [lines EXCEPT ![id] = l]
  /\ UNCHANGED <<header, status, triggers, tx, report>>

(* DDL waits for the transactions that touched the table.                  *)
Quiet == \A s \in Sessions : tx[s].pc = "idle"

DropTriggers ==
  /\ Quiet
  /\ \E dropped \in DropSets : triggers' = triggers \ dropped
  /\ UNCHANGED <<rowVars, status, tx, report>>

(* A process starts and applies the schema.                                *)
ApplySchema ==
  /\ Quiet /\ triggers # Triggers
  /\ triggers' = Triggers
  /\ UNCHANGED <<rowVars, status, tx, report>>

-----------------------------------------------------------------------------
(* The reports ledger_view() shows, one after the other; repair_ledger()   *)
(* makes the last of them.  Each statement is a snapshot of its own.       *)

Reads(from, to, read) ==
  /\ report.pc = from
  /\ report' = [read EXCEPT !.pc = to]
  /\ UNCHANGED <<rowVars, status, triggers, tx>>

Adds(from, to, alarm) ==
  Reads(from, to, [report EXCEPT !.alarm = alarm,
                                 !.wrong = @ \/ \E id \in Committed : ~WholeNow(id)])

TotalOf(F(_)) == MapThenSumSet(F, Ids)
Clearing(id) == lines[id].clearing
Revenue(id) == -lines[id].revenue
NetOf(id) == Net(lines[id])

TrialBalanceByAccount ==
  \/ Adds("idle", "revenue", TotalOf(Clearing))
  \/ report.pc = "revenue" /\ Adds("revenue", "verified", report.alarm + TotalOf(Revenue) # 0)

(* trial_balance(): every account in one statement.                        *)
TrialBalance == Adds("idle", "verified", TotalOf(Clearing) + TotalOf(Revenue) # 0)

(* verify(): every posting with its lines, then the grand total.           *)
VerifyRows == Adds("idle", "totals", \E id \in Committed : ~WholeNow(id))
VerifyTotals == Adds("totals", "verified", report.alarm \/ TotalOf(NetOf) # 0)

(* discrepancies(store.records()): when each of the two is read.           *)
BooksFirst == [sales |-> <<"idle", "half">>, records |-> <<"half", "compared">>]
Order == [records |-> <<"idle", "half">>, sales |-> <<"half", "compared">>]

GapsNow == {k \in Keys : status[k] = "COMPLETED" /\ ~HasSale(k)}

ReadRecords ==
  Reads(Order.records[1], Order.records[2],
        [report EXCEPT !.completed = {k \in Keys : status[k] = "COMPLETED"},
                       !.gaps = @ \cup GapsNow])
ReadSales ==
  Reads(Order.sales[1], Order.sales[2],
        [report EXCEPT !.unsold = {k \in Keys : ~HasSale(k)}, !.gaps = @ \cup GapsNow])

MissingSale == report.completed \cap report.unsold

Answer ==
  /\ report.pc \in {"verified", "compared"}
  /\ report' = NoReport
  /\ UNCHANGED <<rowVars, status, triggers, tx>>

-----------------------------------------------------------------------------

Init ==
  /\ header = [id \in Ids |-> NoHeader]
  /\ lines = [id \in Ids |-> NoLines]
  /\ status = [k \in Keys |-> "none"]
  /\ triggers = Triggers
  /\ tx = [s \in Sessions |-> NoTx]
  /\ report = NoReport

Purchase(k) ==
  \/ Claim(k) \/ Fail(k)
  \/ \E w \in Writers : Complete(w, k) \/ Freeze(w, k) \/ ReleaseFrozen(w, k)

View == TrialBalance \/ VerifyRows \/ VerifyTotals \/ ReadRecords \/ ReadSales \/ Answer

Next ==
  \/ \E k \in Keys : Purchase(k)
  \/ \E o \in Outsiders : RawHeader(o) \/ RawLine(o) \/ RawEdit(o)
  \/ \E s \in Sessions : CheckPostings(s) \/ Commit(s) \/ RollBack(s)
  \/ DropTriggers \/ ApplySchema \/ View

Spec == Init /\ [][Next]_vars

-----------------------------------------------------------------------------

TypeOK ==
  /\ header \in [Ids -> Header]
  /\ lines \in [Ids -> Lines]
  /\ status \in [Keys -> Statuses]
  /\ triggers \subseteq Triggers
  /\ tx \in [Sessions -> Tx]
  /\ report \in Report

Settled(id) == WholeNow(id) /\ \A s \in Sessions : tx[s].lines[id] = NoLines

(* "A posting takes exactly the lines it declared" and "they must sum to   *)
(* zero, or the whole transaction fails" (ledger.py:181-208): while the    *)
(* triggers are there, also after they were gone for a while, no SQL of    *)
(* anybody commits a posting that is not whole or breaks one that is.      *)
(* (One that was broken before may be mended by two transactions at once,  *)
(* neither of which sees the other's lines, and be broken again.)          *)
TriggersKeepPostingsWhole ==
  [][triggers = Triggers =>
       \A id \in Ids : (id \in Committed => Settled(id)) /\ id \in Committed' => Settled(id)']_vars

(* The books are not said to be wrong when they never were: the statements *)
(* straddle commits, and trial_balance() is one statement because summing  *)
(* accounts separately could "report an imbalance that never existed"      *)
(* (ledger.py:574-579).                                                    *)
NoFalseAlarm == report.pc = "verified" /\ report.alarm => report.wrong

(* A missing sale that the view reports, and that the repair acts upon,    *)
(* was missing while it looked: discrepancies() is handed the records as   *)
(* they were before it reads the books (reconcile.py:343).                 *)
MissingSaleIsReal == report.pc = "compared" => MissingSale \subseteq report.gaps
=============================================================================
