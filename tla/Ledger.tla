------------------------------- MODULE Ledger -------------------------------
(***************************************************************************)
(* The double-entry books (ledger.py), driven by any callers in any order: *)
(* a gateway booking a sale, a late suspense posting, a reconciler booking *)
(* the sale or settling the attempt as not executed.                       *)
(*                                                                         *)
(* Every operation takes the key's advisory lock first and reads after it, *)
(* so an operation is one action.  A posting is identified by the unique   *)
(* indexes of the schema, one per kind, so txn_id is left out: a reversal  *)
(* carries the attempt of the suspense posting it reverses.  A posting's   *)
(* two lines are `amount` on a clearing account and its opposite on the    *)
(* revenue account of the same pair (a RESOLVED marker has no line).       *)
(*                                                                         *)
(* A definition placed just before another one with the same parameters    *)
(* and used by no action is a plausible slip of it, for the mutants.       *)
(***************************************************************************)
EXTENDS Integers, FiniteSets, FiniteSetsExt

CONSTANTS Keys, Attempts, Amounts

ASSUME LedgerAssumption == Amounts \subseteq Nat \ {0}

SALE == "SALE"
UNVERIFIED == "UNVERIFIED"
SUSPENSE_REVERSED == "SUSPENSE_REVERSED"
RESOLVED == "RESOLVED"
KINDS == {SALE, UNVERIFIED, SUSPENSE_REVERSED, RESOLVED}

VARIABLES postings,   \* rows of ledger_transactions with their lines
          accepted,   \* history: the calls that returned without raising
          raised      \* what the last call raised, or "none"

vars == <<postings, accepted, raised>>

Posting == [kind : KINDS, key : Keys, attempt : Attempts, amount : Int]

(* A call is remembered by what matters of it later: the amount of a sale, *)
(* the attempt of the two others.                                          *)
Call == [op : {"record_sale"}, key : Keys, arg : Amounts]
          \cup [op : {"record_unverified", "record_not_executed"},
                key : Keys, arg : Attempts]

NewPosting(kind, k, a, amount) ==
  [kind |-> kind, key |-> k, attempt |-> a, amount |-> amount]
NewCall(op, k, arg) == [op |-> op, key |-> k, arg |-> arg]

(* The unique indexes: one sale per key, one UNVERIFIED and one RESOLVED   *)
(* per attempt, one reversal per suspense posting.                         *)
SameIndexEntry(p, q) ==
  /\ p.kind = q.kind
  /\ p.key = q.key
  /\ p.kind = SALE \/ p.attempt = q.attempt

Sales(k) == {p \in postings : p.kind = SALE /\ p.key = k}

NeverMarked(k, a) == FALSE
Marked(k, a) == \E p \in postings : p.kind = RESOLVED /\ p.key = k /\ p.attempt = a

EverSuspended(k) == {u \in postings : u.kind = UNVERIFIED /\ u.key = k}
OpenSuspense(k) ==
  {u \in postings : /\ u.kind = UNVERIFIED
                    /\ u.key = k
                    /\ \A r \in postings :
                         ~(/\ r.kind = SUSPENSE_REVERSED
                           /\ r.key = k
                           /\ r.attempt = u.attempt)}

(* The exact mirror of each suspense posting in `opened`.                  *)
Repostings(opened) ==
  {NewPosting(SUSPENSE_REVERSED, u.key, u.attempt, u.amount) : u \in opened}
Reversals(opened) ==
  {NewPosting(SUSPENSE_REVERSED, u.key, u.attempt, -u.amount) : u \in opened}

(* One transaction: every row goes in, or a unique index refuses one and   *)
(* nothing does.                                                           *)
Insert(new, call) ==
  IF \A p \in new, q \in postings : ~SameIndexEntry(p, q)
  THEN /\ postings' = postings \cup new
       /\ accepted' = accepted \cup {call}
       /\ raised' = "none"
  ELSE /\ raised' = "UniqueViolation"
       /\ UNCHANGED <<postings, accepted>>

Return(call) ==
  /\ accepted' = accepted \cup {call}
  /\ raised' = "none"
  /\ UNCHANGED postings

Raise(error) ==
  /\ raised' = error
  /\ UNCHANGED <<postings, accepted>>

RecordSaleOnly(k, a, amount) ==
  LET call == NewCall("record_sale", k, amount) IN
  \/ Sales(k) = {} /\ Insert({NewPosting(SALE, k, a, amount)}, call)
  \/ Sales(k) # {} /\ Return(call)

RecordSale(k, a, amount) ==
  LET call == NewCall("record_sale", k, amount) IN
  \/ /\ Sales(k) = {}
     /\ Insert(Reversals(OpenSuspense(k)) \cup {NewPosting(SALE, k, a, amount)}, call)
  \/ /\ Sales(k) # {}
     /\ \A s \in Sales(k) : s.amount = amount
     /\ Return(call)
  \/ /\ \E s \in Sales(k) : s.amount # amount
     /\ Raise("LedgerConflict")

RecordUnverified(k, a, amount) ==
  LET call == NewCall("record_unverified", k, a)
      Prior == {p \in postings : p.kind = UNVERIFIED /\ p.key = k /\ p.attempt = a}
      Settled == Sales(k) # {} \/ Marked(k, a) IN
  \/ /\ Settled \/ Prior # {}
     /\ Return(call)
  \/ /\ ~Settled /\ Prior = {}
     /\ Insert({NewPosting(UNVERIFIED, k, a, amount)}, call)

RecordNotExecuted(k, a) ==
  LET call == NewCall("record_not_executed", k, a)
      Open == {u \in OpenSuspense(k) : u.attempt = a} IN
  \/ /\ Marked(k, a)
     /\ Return(call)
  \/ /\ ~Marked(k, a)
     /\ Insert(Reversals(Open) \cup {NewPosting(RESOLVED, k, a, 0)}, call)

-----------------------------------------------------------------------------

Init == postings = {} /\ accepted = {} /\ raised = "none"

Next == \E k \in Keys, a \in Attempts :
          \/ \E amount \in Amounts : RecordSale(k, a, amount)
          \/ \E amount \in Amounts : RecordUnverified(k, a, amount)
          \/ RecordNotExecuted(k, a)

Spec == Init /\ [][Next]_vars

-----------------------------------------------------------------------------
(* Properties.                                                             *)

(* Every row and every recorded call is of the declared shape.             *)
TypeOK == /\ postings \subseteq Posting
          /\ accepted \subseteq Call
          /\ raised \in {"none", "UniqueViolation", "LedgerConflict"}

Asked(op, k, a) == \E c \in accepted : c.op = op /\ c.key = k /\ c.arg = a
AskedSale(k) == \E c \in accepted : c.op = "record_sale" /\ c.key = k

(* "Order-independent by construction" (ledger.py:38-43): whatever the     *)
(* order the calls landed in, what is sold and what is still in suspense   *)
(* is determined by the set of calls alone.                                *)
OrderIndependent ==
  \A k \in Keys :
    /\ Sales(k) # {} <=> AskedSale(k)
    /\ \A a \in Attempts :
         (\E u \in OpenSuspense(k) : u.attempt = a) <=>
            /\ Asked("record_unverified", k, a)
            /\ ~Asked("record_not_executed", k, a)
            /\ ~AskedSale(k)

(* Revenue is recognised once per key, for the amount of every sale call   *)
(* that was answered: a caller told "booked" is told the truth.            *)
RevenueOnce ==
  \A k \in Keys :
    /\ Cardinality(Sales(k)) <= 1
    /\ \A c \in accepted : (c.op = "record_sale" /\ c.key = k) =>
         \A s \in Sales(k) : s.amount = c.arg

(* A reversal mirrors a suspense posting that is there, so suspense nets   *)
(* to the attempts still open and never below (ledger.py:445-458).         *)
ReversalsMirror ==
  \A r \in postings : r.kind = SUSPENSE_REVERSED =>
    \E u \in postings : /\ u.kind = UNVERIFIED
                        /\ u.key = r.key
                        /\ u.attempt = r.attempt
                        /\ u.amount + r.amount = 0

(* The checks made under the advisory lock are complete: the unique        *)
(* indexes are a backstop that never has to refuse a call, so joining a    *)
(* posting to the completion of a record never rolls the completion back.  *)
IndexesNeverRefuse == raised # "UniqueViolation"

-----------------------------------------------------------------------------
(* The position these postings stand for.                                  *)

PositionOf(k) ==
  [sold |-> IF Sales(k) = {} THEN 0 ELSE (CHOOSE s \in Sales(k) : TRUE).amount,
   open |-> {u.attempt : u \in OpenSuspense(k)},
   settled |-> {a \in Attempts : Marked(k, a)}]

(* Paise on the clearing side of rows and of an account pair, as           *)
(* trial_balance sums them.                                                *)
Paise(rows) == MapThenSumSet(LAMBDA p : p.amount, rows)
Balance(kinds) == Paise({p \in postings : p.kind \in kinds})

SoldKeys == {k \in Keys : Sales(k) # {}}
AllOpen == UNION {OpenSuspense(k) : k \in Keys}

(* The trial balance agrees with the calls: the clearing account holds one *)
(* amount per sold key, and exposure() (ledger.py:604) is what the open    *)
(* attempts were booked for, no more and no less.                          *)
TrialBalanceAgrees ==
  /\ Balance({SALE}) = MapThenSumSet(LAMBDA k : PositionOf(k).sold, SoldKeys)
  /\ Balance({UNVERIFIED, SUSPENSE_REVERSED}) = Paise(AllOpen)

Books == INSTANCE LedgerPosition WITH pos <- [k \in Keys |-> PositionOf(k)]

(* The postings implement the abstract position: every call is a step of   *)
(* LedgerPosition or leaves the position alone.                            *)
ImplementsPosition == Books!Spec
=============================================================================
