---------------------------- MODULE LedgerProofs ----------------------------
(***************************************************************************)
(* Proofs about Ledger for any keys, attempts and amounts: the type        *)
(* invariant, order independence, that the postings implement the abstract *)
(* position, and that the balances of the shared accounts add up.          *)
(*                                                                         *)
(* OrderIndependent is not inductive: the books must also be seen never to *)
(* reverse a suspense posting before its attempt is settled, or a late     *)
(* suspense posting could be born reversed.  LedgerInv adds that and the   *)
(* link between markers and calls.                                         *)
(***************************************************************************)
EXTENDS Ledger, FiniteSetTheorems, WellFoundedInduction, TLAPS

(* An attempt's suspense is reversed only once its key is sold or the      *)
(* attempt is marked.                                                      *)
ReversedIsSettled ==
  \A r \in postings : r.kind = SUSPENSE_REVERSED =>
    Sales(r.key) # {} \/ Marked(r.key, r.attempt)

(* A marker stands for exactly the attempts settled as not executed.       *)
MarkedIsAsked ==
  \A k \in Keys, a \in Attempts : Marked(k, a) <=> Asked("record_not_executed", k, a)

(* Sales are of a price, one to a key.                                     *)
OneSale ==
  \A p, q \in postings : p.kind = SALE /\ q.kind = SALE /\ p.key = q.key =>
    p.amount \in Amounts /\ p = q

LedgerInv ==
  TypeOK /\ OneSale /\ ReversedIsSettled /\ MarkedIsAsked /\ OrderIndependent

-----------------------------------------------------------------------------
(* What each operation does once it is known that no index refuses it.     *)

(* record_sale on an unsold key: every open suspense posting of the key is *)
(* reversed and the sale is added.                                         *)
LEMMA NewSale ==
  ASSUME NEW k \in Keys, NEW a \in Attempts, NEW amount \in Amounts,
         TypeOK, Sales(k) = {},
         RecordSale(k, a, amount)
  PROVE  /\ postings' = postings \cup (Reversals(OpenSuspense(k))
                                       \cup {NewPosting(SALE, k, a, amount)})
         /\ accepted' = accepted \cup {NewCall("record_sale", k, amount)}
         /\ raised' = "none"
<1> DEFINE new == Reversals(OpenSuspense(k)) \cup {NewPosting(SALE, k, a, amount)}
<1>1. Insert(new, NewCall("record_sale", k, amount))
  BY DEF RecordSale
<1>2. ASSUME NEW p \in new, NEW q \in postings, SameIndexEntry(p, q) PROVE FALSE
  <2>1. CASE p = NewPosting(SALE, k, a, amount)
    BY <1>2, <2>1 DEF SameIndexEntry, NewPosting, Sales
  <2>2. CASE p \in Reversals(OpenSuspense(k))
    BY <1>2, <2>2 DEF SameIndexEntry, NewPosting, Reversals, OpenSuspense, SALE,
       SUSPENSE_REVERSED
  <2> QED BY <2>1, <2>2
<1> QED BY <1>1, <1>2 DEF Insert

(* record_unverified on an attempt with no outcome and no posting.         *)
LEMMA NewUnverified ==
  ASSUME NEW k \in Keys, NEW a \in Attempts, NEW amount \in Amounts,
         Insert({NewPosting(UNVERIFIED, k, a, amount)},
                NewCall("record_unverified", k, a)),
         {p \in postings : p.kind = UNVERIFIED /\ p.key = k /\ p.attempt = a} = {}
  PROVE  /\ postings' = postings \cup {NewPosting(UNVERIFIED, k, a, amount)}
         /\ accepted' = accepted \cup {NewCall("record_unverified", k, a)}
         /\ raised' = "none"
BY DEF Insert, SameIndexEntry, NewPosting, UNVERIFIED, SALE

(* record_not_executed on an attempt not yet marked.                       *)
LEMMA NewMarker ==
  ASSUME NEW k \in Keys, NEW a \in Attempts, TypeOK, ~Marked(k, a),
         NEW open, open = {u \in OpenSuspense(k) : u.attempt = a},
         Insert(Reversals(open) \cup {NewPosting(RESOLVED, k, a, 0)},
                NewCall("record_not_executed", k, a))
  PROVE  /\ postings' = postings \cup (Reversals(open)
                                       \cup {NewPosting(RESOLVED, k, a, 0)})
         /\ accepted' = accepted \cup {NewCall("record_not_executed", k, a)}
         /\ raised' = "none"
<1> DEFINE new == Reversals(open) \cup {NewPosting(RESOLVED, k, a, 0)}
<1>2. ASSUME NEW p \in new, NEW q \in postings, SameIndexEntry(p, q) PROVE FALSE
  <2>1. CASE p = NewPosting(RESOLVED, k, a, 0)
    BY <1>2, <2>1 DEF SameIndexEntry, NewPosting, Marked, RESOLVED, SALE
  <2>2. CASE p \in Reversals(open)
    BY <1>2, <2>2 DEF SameIndexEntry, NewPosting, Reversals, OpenSuspense, SALE,
       SUSPENSE_REVERSED
  <2> QED BY <2>1, <2>2
<1> QED BY <1>2 DEF Insert

-----------------------------------------------------------------------------
(* The same three steps seen through the position of each key.             *)

(* A set of suspense postings and its reversals match one to one by key    *)
(* and attempt.                                                            *)
LEMMA ReversalsMatch ==
  ASSUME NEW opened
  PROVE  /\ \A r \in Reversals(opened) :
              /\ r.kind = SUSPENSE_REVERSED
              /\ \E u \in opened : r.key = u.key /\ r.attempt = u.attempt
         /\ \A u \in opened : \E r \in Reversals(opened) :
              /\ r.kind = SUSPENSE_REVERSED
              /\ r.key = u.key
              /\ r.attempt = u.attempt
<1>1. ASSUME NEW r \in Reversals(opened)
      PROVE  /\ r.kind = SUSPENSE_REVERSED
             /\ \E u \in opened : r.key = u.key /\ r.attempt = u.attempt
  <2>1. PICK u \in opened :
          r = NewPosting(SUSPENSE_REVERSED, u.key, u.attempt, -u.amount)
    BY DEF Reversals
  <2> QED BY <2>1 DEF NewPosting
<1>2. ASSUME NEW u \in opened
      PROVE  \E r \in Reversals(opened) :
               /\ r.kind = SUSPENSE_REVERSED
               /\ r.key = u.key
               /\ r.attempt = u.attempt
  <2> DEFINE r == NewPosting(SUSPENSE_REVERSED, u.key, u.attempt, -u.amount)
  <2>1. r \in Reversals(opened)
    BY DEF Reversals
  <2>2. r.kind = SUSPENSE_REVERSED /\ r.key = u.key /\ r.attempt = u.attempt
    BY DEF NewPosting
  <2> QED BY <2>1, <2>2
<1> QED BY <1>1, <1>2

(* A sale closes every suspense posting of its key and nothing else.       *)
LEMMA SaleEffect ==
  ASSUME NEW k \in Keys, NEW a \in Attempts, NEW amount \in Amounts,
         Sales(k) = {},
         postings' = postings \cup (Reversals(OpenSuspense(k))
                                    \cup {NewPosting(SALE, k, a, amount)}),
         NEW j \in Keys
  PROVE  /\ Sales(j)' = IF j = k THEN {NewPosting(SALE, k, a, amount)} ELSE Sales(j)
         /\ \A b \in Attempts : Marked(j, b)' <=> Marked(j, b)
         /\ OpenSuspense(j)' = IF j = k THEN {} ELSE OpenSuspense(j)
<1> DEFINE sale == NewPosting(SALE, k, a, amount)
<1>1. sale.kind = SALE /\ sale.key = k
  BY DEF NewPosting
<1>2. \A r \in Reversals(OpenSuspense(k)) :
        r.kind = SUSPENSE_REVERSED /\ r.key = k
  BY ReversalsMatch DEF OpenSuspense
<1>3. \A u \in OpenSuspense(k) : \E r \in Reversals(OpenSuspense(k)) :
        r.kind = SUSPENSE_REVERSED /\ r.key = k /\ r.attempt = u.attempt
  <2>1. \A u \in OpenSuspense(k) : u.key = k
    BY DEF OpenSuspense
  <2> DEFINE opened == OpenSuspense(k)
  <2> HIDE DEF opened
  <2>2. \A u \in opened : \E r \in Reversals(opened) :
          r.kind = SUSPENSE_REVERSED /\ r.key = u.key /\ r.attempt = u.attempt
    BY ReversalsMatch
  <2> QED BY <2>1, <2>2 DEF opened
<1> HIDE DEF sale
<1>4. postings' = postings \cup Reversals(OpenSuspense(k)) \cup {sale}
  BY DEF sale
<1>5. Sales(j)' = IF j = k THEN {sale} ELSE Sales(j)
  BY <1>1, <1>2, <1>4 DEF Sales, SALE, SUSPENSE_REVERSED
<1>6. \A b \in Attempts : Marked(j, b)' <=> Marked(j, b)
  BY <1>1, <1>2, <1>4 DEF Marked, SALE, SUSPENSE_REVERSED, RESOLVED
<1>7. OpenSuspense(j)' = IF j = k THEN {} ELSE OpenSuspense(j)
  <2>1. CASE j = k
    <3> SUFFICES ASSUME NEW u \in OpenSuspense(k)' PROVE FALSE
      BY <2>1
    <3>1. u \in OpenSuspense(k)
      BY <1>1, <1>2, <1>4 DEF OpenSuspense, SALE, SUSPENSE_REVERSED, UNVERIFIED
    <3>2. PICK r \in Reversals(OpenSuspense(k)) :
            r.kind = SUSPENSE_REVERSED /\ r.key = k /\ r.attempt = u.attempt
      BY <1>3, <3>1
    <3>3. r \in postings'
      BY <1>4
    <3> QED BY <3>2, <3>3 DEF OpenSuspense
  <2>2. CASE j # k
    BY <1>1, <1>2, <1>4, <2>2
       DEF OpenSuspense, SALE, SUSPENSE_REVERSED, UNVERIFIED
  <2> QED BY <2>1, <2>2
<1> QED BY <1>5, <1>6, <1>7 DEF sale

(* A suspense posting opens its own attempt: it cannot be born reversed.   *)
LEMMA UnverifiedEffect ==
  ASSUME NEW k \in Keys, NEW a \in Attempts, NEW amount \in Amounts,
         ReversedIsSettled, Sales(k) = {}, ~Marked(k, a),
         postings' = postings \cup {NewPosting(UNVERIFIED, k, a, amount)},
         NEW j \in Keys
  PROVE  /\ Sales(j)' = Sales(j)
         /\ \A b \in Attempts : Marked(j, b)' <=> Marked(j, b)
         /\ OpenSuspense(j)' =
              OpenSuspense(j) \cup IF j = k THEN {NewPosting(UNVERIFIED, k, a, amount)}
                                            ELSE {}
<1> DEFINE unv == NewPosting(UNVERIFIED, k, a, amount)
<1>1. unv.kind = UNVERIFIED /\ unv.key = k /\ unv.attempt = a
  BY DEF NewPosting
<1> HIDE DEF unv
<1>2. postings' = postings \cup {unv}
  BY DEF unv
<1>3. Sales(j)' = Sales(j)
  BY <1>1, <1>2 DEF Sales, SALE, UNVERIFIED
<1>4. \A b \in Attempts : Marked(j, b)' <=> Marked(j, b)
  BY <1>1, <1>2 DEF Marked, RESOLVED, UNVERIFIED
<1>5. \A r \in postings :
        ~(r.kind = SUSPENSE_REVERSED /\ r.key = k /\ r.attempt = a)
  BY DEF ReversedIsSettled
<1>6. OpenSuspense(j)' = OpenSuspense(j) \cup IF j = k THEN {unv} ELSE {}
  BY <1>1, <1>2, <1>5 DEF OpenSuspense, SUSPENSE_REVERSED, UNVERIFIED
<1> QED BY <1>3, <1>4, <1>6 DEF unv

(* A marker closes the suspense of its own attempt and no other.           *)
LEMMA MarkerEffect ==
  ASSUME NEW k \in Keys, NEW a \in Attempts,
         postings' = postings
           \cup (Reversals({u \in OpenSuspense(k) : u.attempt = a})
                 \cup {NewPosting(RESOLVED, k, a, 0)}),
         NEW j \in Keys
  PROVE  /\ Sales(j)' = Sales(j)
         /\ \A b \in Attempts : Marked(j, b)' <=> Marked(j, b) \/ (j = k /\ b = a)
         /\ OpenSuspense(j)' =
              {u \in OpenSuspense(j) : ~(j = k /\ u.attempt = a)}
<1> DEFINE mark == NewPosting(RESOLVED, k, a, 0)
           closed == {u \in OpenSuspense(k) : u.attempt = a}
<1>1. mark.kind = RESOLVED /\ mark.key = k /\ mark.attempt = a
  BY DEF NewPosting
<1>2. \A r \in Reversals(closed) :
        r.kind = SUSPENSE_REVERSED /\ r.key = k /\ r.attempt = a
  BY ReversalsMatch DEF OpenSuspense
<1>3. \A u \in closed : \E r \in Reversals(closed) :
        r.kind = SUSPENSE_REVERSED /\ r.key = k /\ r.attempt = a
  <2>1. \A u \in closed : u.key = k /\ u.attempt = a
    BY DEF OpenSuspense
  <2> HIDE DEF closed
  <2>2. \A u \in closed : \E r \in Reversals(closed) :
          r.kind = SUSPENSE_REVERSED /\ r.key = u.key /\ r.attempt = u.attempt
    BY ReversalsMatch
  <2> QED BY <2>1, <2>2
<1> HIDE DEF mark
<1>4. postings' = postings \cup Reversals(closed) \cup {mark}
  BY DEF mark
<1>5. Sales(j)' = Sales(j)
  BY <1>1, <1>2, <1>4 DEF Sales, SALE, SUSPENSE_REVERSED, RESOLVED
<1>6. \A b \in Attempts : Marked(j, b)' <=> Marked(j, b) \/ (j = k /\ b = a)
  BY <1>1, <1>2, <1>4 DEF Marked, SUSPENSE_REVERSED, RESOLVED
<1>7. OpenSuspense(j)' = {u \in OpenSuspense(j) : ~(j = k /\ u.attempt = a)}
  <2>1. ASSUME NEW u \in OpenSuspense(j)'
        PROVE  u \in OpenSuspense(j) /\ ~(j = k /\ u.attempt = a)
    <3>1. u \in OpenSuspense(j)
      BY <1>1, <1>2, <1>4 DEF OpenSuspense, SUSPENSE_REVERSED, UNVERIFIED, RESOLVED
    <3>2. ASSUME j = k, u.attempt = a PROVE FALSE
      <4>1. PICK r \in Reversals(closed) :
              r.kind = SUSPENSE_REVERSED /\ r.key = k /\ r.attempt = a
        BY <1>3, <3>1, <3>2
      <4>2. r \in postings'
        BY <1>4
      <4> QED BY <3>2, <4>1, <4>2 DEF OpenSuspense
    <3> QED BY <3>1, <3>2
  <2>2. ASSUME NEW u \in OpenSuspense(j), ~(j = k /\ u.attempt = a)
        PROVE  u \in OpenSuspense(j)'
    BY <1>1, <1>2, <1>4, <2>2
       DEF OpenSuspense, SUSPENSE_REVERSED, UNVERIFIED, RESOLVED
  <2> QED BY <2>1, <2>2
<1> QED BY <1>5, <1>6, <1>7

-----------------------------------------------------------------------------
(* The invariant and its preservation, one operation at a time.            *)

(* Rows and calls keep their shape.                                        *)
LEMMA TypePreserved ==
  ASSUME TypeOK, [Next]_vars PROVE TypeOK'
<1>1. \A opened : opened \subseteq postings => Reversals(opened) \subseteq Posting
  <2> SUFFICES ASSUME NEW opened, opened \subseteq postings,
                      NEW u \in opened
               PROVE  NewPosting(SUSPENSE_REVERSED, u.key, u.attempt, -u.amount) \in Posting
    BY DEF Reversals
  <2>1. u.key \in Keys /\ u.attempt \in Attempts /\ u.amount \in Int
    BY DEF TypeOK, Posting
  <2> QED BY <2>1 DEF NewPosting, Posting, KINDS
<1>2. ASSUME NEW new, NEW call, new \subseteq Posting, call \in Call, Insert(new, call)
      PROVE  TypeOK'
  BY <1>2 DEF Insert, TypeOK
<1>3. ASSUME NEW call \in Call, Return(call) PROVE TypeOK'
  BY <1>3 DEF Return, TypeOK
<1>4. ASSUME NEW k \in Keys, NEW a \in Attempts, NEW amount \in Amounts
      PROVE  /\ NewCall("record_sale", k, amount) \in Call
             /\ NewCall("record_unverified", k, a) \in Call
             /\ NewCall("record_not_executed", k, a) \in Call
             /\ NewPosting(SALE, k, a, amount) \in Posting
             /\ NewPosting(UNVERIFIED, k, a, amount) \in Posting
             /\ NewPosting(RESOLVED, k, a, 0) \in Posting
             /\ OpenSuspense(k) \subseteq postings
  BY LedgerAssumption DEF NewCall, Call, NewPosting, Posting, KINDS, OpenSuspense
<1>5. ASSUME NEW k \in Keys, NEW a \in Attempts, NEW amount \in Amounts,
             RecordSale(k, a, amount)
      PROVE  TypeOK'
  <2>1. CASE Insert(Reversals(OpenSuspense(k)) \cup {NewPosting(SALE, k, a, amount)},
                    NewCall("record_sale", k, amount))
    <3>1. Reversals(OpenSuspense(k)) \cup {NewPosting(SALE, k, a, amount)} \subseteq Posting
      BY <1>1, <1>4
    <3> QED BY <1>2, <1>4, <2>1, <3>1
  <2>2. CASE Return(NewCall("record_sale", k, amount))
    BY <1>3, <1>4, <2>2
  <2>3. CASE Raise("LedgerConflict")
    BY <2>3 DEF Raise, TypeOK
  <2> QED BY <1>5, <2>1, <2>2, <2>3 DEF RecordSale
<1>6. ASSUME NEW k \in Keys, NEW a \in Attempts, NEW amount \in Amounts,
             RecordUnverified(k, a, amount)
      PROVE  TypeOK'
  <2>1. CASE Insert({NewPosting(UNVERIFIED, k, a, amount)},
                    NewCall("record_unverified", k, a))
    <3>1. {NewPosting(UNVERIFIED, k, a, amount)} \subseteq Posting
      BY <1>4
    <3> QED BY <1>2, <1>4, <2>1, <3>1
  <2>2. CASE Return(NewCall("record_unverified", k, a))
    BY <1>3, <1>4, <2>2
  <2> QED BY <1>6, <2>1, <2>2 DEF RecordUnverified
<1>7. ASSUME NEW k \in Keys, NEW a \in Attempts, RecordNotExecuted(k, a)
      PROVE  TypeOK'
  <2> DEFINE closed == {u \in OpenSuspense(k) : u.attempt = a}
  <2>1. CASE Insert(Reversals(closed) \cup {NewPosting(RESOLVED, k, a, 0)},
                    NewCall("record_not_executed", k, a))
    <3>1. closed \subseteq postings
      BY DEF OpenSuspense
    <3>2. NewPosting(RESOLVED, k, a, 0) \in Posting
          /\ NewCall("record_not_executed", k, a) \in Call
      BY DEF NewCall, Call, NewPosting, Posting, KINDS
    <3>3. Reversals(closed) \cup {NewPosting(RESOLVED, k, a, 0)} \subseteq Posting
      BY <1>1, <3>1, <3>2
    <3> QED BY <1>2, <2>1, <3>2, <3>3
  <2>2. CASE Return(NewCall("record_not_executed", k, a))
    <3>1. NewCall("record_not_executed", k, a) \in Call
      BY DEF NewCall, Call
    <3> QED BY <1>3, <2>2, <3>1
  <2> QED BY <1>7, <2>1, <2>2 DEF RecordNotExecuted
<1>8. CASE UNCHANGED vars
  BY <1>8 DEF vars, TypeOK
<1> QED BY <1>5, <1>6, <1>7, <1>8 DEF Next

(* What a call adds to the history.                                        *)
LEMMA AskedAfter ==
  ASSUME NEW op, NEW k, NEW arg,
         accepted' = accepted \cup {NewCall(op, k, arg)}
  PROVE  /\ \A o, j, b : Asked(o, j, b)' <=> Asked(o, j, b) \/ (o = op /\ j = k /\ b = arg)
         /\ \A j : AskedSale(j)' <=> AskedSale(j) \/ (op = "record_sale" /\ j = k)
<1> DEFINE call == NewCall(op, k, arg)
<1>1. call.op = op /\ call.key = k /\ call.arg = arg
  BY DEF NewCall
<1> HIDE DEF call
<1>2. accepted' = accepted \cup {call}
  BY DEF call
<1>3. \A o, j, b : Asked(o, j, b)' <=> Asked(o, j, b) \/ (o = op /\ j = k /\ b = arg)
  BY <1>1, <1>2 DEF Asked
<1>4. \A j : AskedSale(j)' <=> AskedSale(j) \/ (op = "record_sale" /\ j = k)
  BY <1>1, <1>2 DEF AskedSale
<1> QED BY <1>3, <1>4

LEMMA SalePreserves ==
  ASSUME LedgerInv, TypeOK', NEW k \in Keys, NEW a \in Attempts, NEW amount \in Amounts,
         RecordSale(k, a, amount)
  PROVE  LedgerInv'
<1>1. CASE Sales(k) = {}
  <2>0. /\ postings' = postings \cup (Reversals(OpenSuspense(k))
                                      \cup {NewPosting(SALE, k, a, amount)})
        /\ accepted' = accepted \cup {NewCall("record_sale", k, amount)}
    BY <1>1, NewSale DEF LedgerInv
  <2>1. \A j \in Keys :
          Sales(j)' = IF j = k THEN {NewPosting(SALE, k, a, amount)} ELSE Sales(j)
    BY <1>1, <2>0, SaleEffect
  <2>2. \A j \in Keys, b \in Attempts : Marked(j, b)' <=> Marked(j, b)
    BY <1>1, <2>0, SaleEffect
  <2>3. \A j \in Keys : OpenSuspense(j)' = IF j = k THEN {} ELSE OpenSuspense(j)
    BY <1>1, <2>0, SaleEffect
  <2>4. /\ \A o, j, b : o # "record_sale" => (Asked(o, j, b)' <=> Asked(o, j, b))
        /\ \A j : AskedSale(j)' <=> AskedSale(j) \/ j = k
    BY <2>0, AskedAfter
  <2>5. OneSale'
    <3>1. \A p \in postings' : p.kind = SALE => p.key \in Keys /\ p \in Sales(p.key)'
      BY DEF TypeOK, Posting, Sales
    <3>2. \A j \in Keys : \A p, q \in Sales(j)' : p.amount \in Amounts /\ p = q
      BY <2>1 DEF LedgerInv, OneSale, Sales, NewPosting
    <3> QED BY <3>1, <3>2 DEF OneSale
  <2>6. ReversedIsSettled'
    <3> SUFFICES ASSUME NEW r \in postings', r.kind = SUSPENSE_REVERSED
                 PROVE  Sales(r.key)' # {} \/ Marked(r.key, r.attempt)'
      BY DEF ReversedIsSettled
    <3>1. r.key \in Keys /\ r.attempt \in Attempts
      BY DEF TypeOK, Posting
    <3>2. CASE r \in postings
      BY <2>1, <2>2, <3>1, <3>2 DEF LedgerInv, ReversedIsSettled
    <3>3. CASE r \notin postings
      <4>1. r.key = k
        BY <2>0, <3>3, ReversalsMatch DEF OpenSuspense, NewPosting
      <4> QED BY <2>1, <4>1
    <3> QED BY <3>2, <3>3
  <2>7. MarkedIsAsked'
    BY <2>2, <2>4 DEF LedgerInv, MarkedIsAsked
  <2>8. OrderIndependent'
    BY <2>1, <2>3, <2>4 DEF LedgerInv, OrderIndependent
  <2> QED BY <2>5, <2>6, <2>7, <2>8 DEF LedgerInv
<1>2. CASE Return(NewCall("record_sale", k, amount)) /\ Sales(k) # {}
  <2>1. /\ \A o, j, b : o # "record_sale" => (Asked(o, j, b)' <=> Asked(o, j, b))
        /\ \A j : AskedSale(j)' <=> AskedSale(j) \/ j = k
    BY <1>2, AskedAfter DEF Return
  <2>2. postings' = postings
    BY <1>2 DEF Return
  <2>3. OneSale' /\ ReversedIsSettled'
    BY <2>2 DEF LedgerInv, OneSale, ReversedIsSettled, Sales, Marked
  <2>4. MarkedIsAsked'
    BY <2>1, <2>2 DEF LedgerInv, MarkedIsAsked, Marked
  <2>5. OrderIndependent'
    <3>1. \A j : Sales(j)' = Sales(j) /\ OpenSuspense(j)' = OpenSuspense(j)
      BY <2>2 DEF Sales, OpenSuspense
    <3>2. AskedSale(k)
      BY <1>2 DEF LedgerInv, OrderIndependent
    <3>3. \A j : AskedSale(j)' <=> AskedSale(j)
      BY <2>1, <3>2
    <3> QED BY <2>1, <3>1, <3>3 DEF LedgerInv, OrderIndependent
  <2> QED BY <2>3, <2>4, <2>5 DEF LedgerInv
<1>3. CASE Raise("LedgerConflict")
  BY <1>3 DEF Raise, LedgerInv, OneSale, ReversedIsSettled, MarkedIsAsked,
     OrderIndependent, Sales, Marked, OpenSuspense, Asked, AskedSale
<1> QED BY <1>1, <1>2, <1>3 DEF RecordSale

LEMMA UnverifiedPreserves ==
  ASSUME LedgerInv, TypeOK', NEW k \in Keys, NEW a \in Attempts, NEW amount \in Amounts,
         RecordUnverified(k, a, amount)
  PROVE  LedgerInv'
<1> DEFINE prior == {p \in postings : p.kind = UNVERIFIED /\ p.key = k /\ p.attempt = a}
           settled == Sales(k) # {} \/ Marked(k, a)
<1>0. accepted' = accepted \cup {NewCall("record_unverified", k, a)} =>
        /\ \A j, b : /\ Asked("record_unverified", j, b)' <=>
                         Asked("record_unverified", j, b) \/ (j = k /\ b = a)
                     /\ Asked("record_not_executed", j, b)' <=>
                         Asked("record_not_executed", j, b)
        /\ \A j : AskedSale(j)' <=> AskedSale(j)
  BY AskedAfter
<1>1. CASE Insert({NewPosting(UNVERIFIED, k, a, amount)},
                  NewCall("record_unverified", k, a)) /\ ~settled /\ prior = {}
  <2>0. /\ postings' = postings \cup {NewPosting(UNVERIFIED, k, a, amount)}
        /\ accepted' = accepted \cup {NewCall("record_unverified", k, a)}
    BY <1>1, NewUnverified
  <2>1. \A j \in Keys : Sales(j)' = Sales(j)
    BY <1>1, <2>0, UnverifiedEffect DEF LedgerInv
  <2>2. \A j \in Keys, b \in Attempts : Marked(j, b)' <=> Marked(j, b)
    BY <1>1, <2>0, UnverifiedEffect DEF LedgerInv
  <2>3. \A j \in Keys : OpenSuspense(j)' =
          OpenSuspense(j) \cup IF j = k THEN {NewPosting(UNVERIFIED, k, a, amount)} ELSE {}
    BY <1>1, <2>0, UnverifiedEffect DEF LedgerInv
  <2>4. OneSale'
    BY <2>0 DEF LedgerInv, OneSale, NewPosting, SALE, UNVERIFIED
  <2>5. ReversedIsSettled'
    <3> SUFFICES ASSUME NEW r \in postings', r.kind = SUSPENSE_REVERSED
                 PROVE  Sales(r.key)' # {} \/ Marked(r.key, r.attempt)'
      BY DEF ReversedIsSettled
    <3>1. r.key \in Keys /\ r.attempt \in Attempts
      BY DEF TypeOK, Posting
    <3>2. r \in postings
      BY <2>0 DEF NewPosting, SUSPENSE_REVERSED, UNVERIFIED
    <3> QED BY <2>1, <2>2, <3>1, <3>2 DEF LedgerInv, ReversedIsSettled
  <2>6. MarkedIsAsked'
    BY <1>0, <2>0, <2>2 DEF LedgerInv, MarkedIsAsked
  <2>7. OrderIndependent'
    <3> SUFFICES ASSUME NEW j \in Keys, NEW b \in Attempts
                 PROVE  /\ Sales(j)' # {} <=> AskedSale(j)'
                        /\ (\E u \in OpenSuspense(j)' : u.attempt = b) <=>
                              /\ Asked("record_unverified", j, b)'
                              /\ ~Asked("record_not_executed", j, b)'
                              /\ ~AskedSale(j)'
      BY DEF OrderIndependent
    <3>1. Sales(j)' # {} <=> AskedSale(j)'
      BY <1>0, <2>0, <2>1 DEF LedgerInv, OrderIndependent
    <3>2. (\E u \in OpenSuspense(j)' : u.attempt = b) <=>
            (\E u \in OpenSuspense(j) : u.attempt = b) \/ (j = k /\ b = a)
      <4> DEFINE unv == NewPosting(UNVERIFIED, k, a, amount)
      <4>1. unv.attempt = a
        BY DEF NewPosting
      <4>2. OpenSuspense(j)' = OpenSuspense(j) \cup IF j = k THEN {unv} ELSE {}
        BY <2>3
      <4> HIDE DEF unv
      <4> QED BY <4>1, <4>2
    <3>3. j = k /\ b = a => ~Asked("record_not_executed", j, b) /\ ~AskedSale(j)
      BY <1>1 DEF LedgerInv, OrderIndependent, MarkedIsAsked
    <3> QED BY <1>0, <2>0, <3>1, <3>2, <3>3 DEF LedgerInv, OrderIndependent
  <2> QED BY <2>4, <2>5, <2>6, <2>7 DEF LedgerInv
<1>2. CASE Return(NewCall("record_unverified", k, a)) /\ (settled \/ prior # {})
  <2>0. /\ postings' = postings
        /\ accepted' = accepted \cup {NewCall("record_unverified", k, a)}
    BY <1>2 DEF Return
  <2>1. \A j, b : /\ Sales(j)' = Sales(j)
                  /\ OpenSuspense(j)' = OpenSuspense(j)
                  /\ Marked(j, b)' <=> Marked(j, b)
    BY <2>0 DEF Sales, OpenSuspense, Marked
  <2>2. OneSale' /\ ReversedIsSettled'
    BY <2>0, <2>1 DEF LedgerInv, OneSale, ReversedIsSettled
  <2>3. MarkedIsAsked'
    BY <1>0, <2>0, <2>1 DEF LedgerInv, MarkedIsAsked
  <2>4. settled \/ \E u \in OpenSuspense(k) : u.attempt = a
    BY <1>2 DEF LedgerInv, ReversedIsSettled, OpenSuspense
  <2>5. Asked("record_unverified", k, a)
          \/ Asked("record_not_executed", k, a) \/ AskedSale(k)
    BY <2>4 DEF LedgerInv, MarkedIsAsked, OrderIndependent
  <2>6. OrderIndependent'
    BY <1>0, <2>0, <2>1, <2>5 DEF LedgerInv, OrderIndependent
  <2> QED BY <2>2, <2>3, <2>6 DEF LedgerInv
<1> QED BY <1>1, <1>2 DEF RecordUnverified

LEMMA NotExecutedPreserves ==
  ASSUME LedgerInv, TypeOK', NEW k \in Keys, NEW a \in Attempts,
         RecordNotExecuted(k, a)
  PROVE  LedgerInv'
<1> DEFINE closed == {u \in OpenSuspense(k) : u.attempt = a}
<1>0. accepted' = accepted \cup {NewCall("record_not_executed", k, a)} =>
        /\ \A j, b : /\ Asked("record_not_executed", j, b)' <=>
                         Asked("record_not_executed", j, b) \/ (j = k /\ b = a)
                     /\ Asked("record_unverified", j, b)' <=>
                         Asked("record_unverified", j, b)
        /\ \A j : AskedSale(j)' <=> AskedSale(j)
  BY AskedAfter
<1>1. CASE ~Marked(k, a) /\ Insert(Reversals(closed) \cup {NewPosting(RESOLVED, k, a, 0)},
                                  NewCall("record_not_executed", k, a))
  <2>0. /\ postings' = postings
             \cup (Reversals(closed) \cup {NewPosting(RESOLVED, k, a, 0)})
        /\ accepted' = accepted \cup {NewCall("record_not_executed", k, a)}
    BY <1>1, NewMarker DEF LedgerInv
  <2>1. \A j \in Keys : Sales(j)' = Sales(j)
    BY <2>0, MarkerEffect
  <2>2. \A j \in Keys, b \in Attempts :
          Marked(j, b)' <=> Marked(j, b) \/ (j = k /\ b = a)
    BY <2>0, MarkerEffect
  <2>3. \A j \in Keys :
          OpenSuspense(j)' = {u \in OpenSuspense(j) : ~(j = k /\ u.attempt = a)}
    BY <2>0, MarkerEffect
  <2>4. \A r \in Reversals(closed) :
          r.kind = SUSPENSE_REVERSED /\ r.key = k /\ r.attempt = a
    <3>1. \A u \in closed : u.key = k /\ u.attempt = a
      BY DEF OpenSuspense
    <3> HIDE DEF closed
    <3> QED BY <3>1, ReversalsMatch
  <2>5. NewPosting(RESOLVED, k, a, 0).kind = RESOLVED
    BY DEF NewPosting
  <2>6. OneSale'
    BY <2>0, <2>4, <2>5 DEF LedgerInv, OneSale, SALE, SUSPENSE_REVERSED, RESOLVED
  <2>7. ReversedIsSettled'
    <3> SUFFICES ASSUME NEW r \in postings', r.kind = SUSPENSE_REVERSED
                 PROVE  Sales(r.key)' # {} \/ Marked(r.key, r.attempt)'
      BY DEF ReversedIsSettled
    <3>1. r.key \in Keys /\ r.attempt \in Attempts
      BY DEF TypeOK, Posting
    <3>2. r \in postings \/ (r.key = k /\ r.attempt = a)
      BY <2>0, <2>4, <2>5 DEF SUSPENSE_REVERSED, RESOLVED
    <3> QED BY <2>1, <2>2, <3>1, <3>2 DEF LedgerInv, ReversedIsSettled
  <2>8. MarkedIsAsked'
    BY <1>0, <2>0, <2>2 DEF LedgerInv, MarkedIsAsked
  <2>9. OrderIndependent'
    BY <1>0, <2>0, <2>1, <2>3 DEF LedgerInv, OrderIndependent
  <2> QED BY <2>6, <2>7, <2>8, <2>9 DEF LedgerInv
<1>2. CASE Marked(k, a) /\ Return(NewCall("record_not_executed", k, a))
  <2>0. /\ postings' = postings
        /\ accepted' = accepted \cup {NewCall("record_not_executed", k, a)}
    BY <1>2 DEF Return
  <2>1. \A j, b : /\ Sales(j)' = Sales(j)
                  /\ OpenSuspense(j)' = OpenSuspense(j)
                  /\ Marked(j, b)' <=> Marked(j, b)
    BY <2>0 DEF Sales, OpenSuspense, Marked
  <2>2. Asked("record_not_executed", k, a)
    BY <1>2 DEF LedgerInv, MarkedIsAsked
  <2>3. OneSale' /\ ReversedIsSettled'
    BY <2>0, <2>1 DEF LedgerInv, OneSale, ReversedIsSettled
  <2>4. MarkedIsAsked' /\ OrderIndependent'
    BY <1>0, <2>0, <2>1, <2>2 DEF LedgerInv, MarkedIsAsked, OrderIndependent
  <2> QED BY <2>3, <2>4 DEF LedgerInv
<1> QED BY <1>1, <1>2 DEF RecordNotExecuted

LEMMA LedgerInvPreserved ==
  ASSUME LedgerInv, [Next]_vars PROVE LedgerInv'
<1>1. TypeOK'
  BY TypePreserved DEF LedgerInv
<1>2. CASE Next
  BY <1>1, <1>2, SalePreserves, UnverifiedPreserves, NotExecutedPreserves DEF Next
<1>3. CASE UNCHANGED vars
  BY <1>1, <1>3 DEF vars, LedgerInv, OneSale, ReversedIsSettled, MarkedIsAsked,
     OrderIndependent, Sales, Marked, OpenSuspense, Asked, AskedSale
<1> QED BY <1>2, <1>3

LEMMA LedgerInvInit == Init => LedgerInv
BY DEF Init, LedgerInv, TypeOK, OneSale, ReversedIsSettled, MarkedIsAsked,
   OrderIndependent, Sales, Marked, OpenSuspense, Asked, AskedSale

(* Every reachable state of the books satisfies the inductive invariant.   *)
THEOREM LedgerIsInvariant == Spec => []LedgerInv
<1>1. Init => LedgerInv
  BY LedgerInvInit
<1>2. LedgerInv /\ [Next]_vars => LedgerInv'
  BY LedgerInvPreserved
<1> QED BY <1>1, <1>2, PTL DEF Spec

(* Rows and history are well typed (ledger.py:383-416).                    *)
THEOREM LedgerTypeCorrect == Spec => []TypeOK
<1>1. LedgerInv => TypeOK
  BY DEF LedgerInv
<1> QED BY <1>1, LedgerIsInvariant, PTL

(* "Order-independent by construction" (ledger.py:38-43), for any number   *)
(* of keys, attempts and calls.                                            *)
THEOREM LedgerOrderIndependent == Spec => []OrderIndependent
<1>1. LedgerInv => OrderIndependent
  BY DEF LedgerInv
<1> QED BY <1>1, LedgerIsInvariant, PTL

-----------------------------------------------------------------------------
(* No call is refused by an index.                                         *)

LEMMA StepNeverRefused ==
  ASSUME LedgerInv, raised # "UniqueViolation", [Next]_vars
  PROVE  raised' # "UniqueViolation"
<1>1. ASSUME NEW k \in Keys, NEW a \in Attempts, NEW amount \in Amounts,
             RecordSale(k, a, amount)
      PROVE  raised' # "UniqueViolation"
  <2>1. CASE Sales(k) = {}
    BY <1>1, <2>1, NewSale DEF LedgerInv
  <2>2. CASE Sales(k) # {}
    BY <1>1, <2>2 DEF RecordSale, Return, Raise
  <2> QED BY <2>1, <2>2
<1>2. ASSUME NEW k \in Keys, NEW a \in Attempts, NEW amount \in Amounts,
             RecordUnverified(k, a, amount)
      PROVE  raised' # "UniqueViolation"
  <2>1. CASE Return(NewCall("record_unverified", k, a))
    BY <2>1 DEF Return
  <2>2. CASE ~Return(NewCall("record_unverified", k, a))
    BY <1>2, <2>2, NewUnverified DEF RecordUnverified
  <2> QED BY <2>1, <2>2
<1>3. ASSUME NEW k \in Keys, NEW a \in Attempts, RecordNotExecuted(k, a)
      PROVE  raised' # "UniqueViolation"
  <2>1. CASE Marked(k, a)
    BY <1>3, <2>1 DEF RecordNotExecuted, Return
  <2>2. CASE ~Marked(k, a)
    BY <1>3, <2>2, NewMarker DEF RecordNotExecuted, LedgerInv
  <2> QED BY <2>1, <2>2
<1>4. CASE UNCHANGED vars
  BY <1>4 DEF vars
<1> QED BY <1>1, <1>2, <1>3, <1>4 DEF Next

(* The checks under the advisory lock are complete: for any calls, the     *)
(* unique indexes (ledger.py:107-113) never refuse one.                     *)
THEOREM IndexesAreABackstop == Spec => []IndexesNeverRefuse
<1>1. Init => IndexesNeverRefuse
  BY DEF Init, IndexesNeverRefuse
<1>2. LedgerInv /\ IndexesNeverRefuse /\ [Next]_vars => IndexesNeverRefuse'
  BY StepNeverRefused DEF IndexesNeverRefuse
<1> QED BY <1>1, <1>2, LedgerIsInvariant, PTL DEF Spec

-----------------------------------------------------------------------------
(* Reversals mirror suspense, and sales are what their callers were told.  *)

(* Reversals of suspense postings that are there, added with rows of other *)
(* kinds, mirror what they reverse.                                        *)
LEMMA InsertMirrors ==
  ASSUME TypeOK, ReversalsMirror,
         NEW opened \in SUBSET {u \in postings : u.kind = UNVERIFIED},
         NEW rest, \A p \in rest : p.kind # SUSPENSE_REVERSED,
         NEW call, Insert(Reversals(opened) \cup rest, call)
  PROVE  ReversalsMirror'
<1>1. CASE UNCHANGED postings
  BY <1>1 DEF ReversalsMirror
<1>2. CASE postings' = postings \cup (Reversals(opened) \cup rest)
  <2> SUFFICES ASSUME NEW r \in postings', r.kind = SUSPENSE_REVERSED
               PROVE  \E u \in postings' : /\ u.kind = UNVERIFIED
                                           /\ u.key = r.key
                                           /\ u.attempt = r.attempt
                                           /\ u.amount + r.amount = 0
    BY DEF ReversalsMirror
  <2>1. CASE r \in postings
    BY <1>2, <2>1 DEF ReversalsMirror
  <2>2. CASE r \in Reversals(opened)
    <3>1. PICK u \in opened :
            r = NewPosting(SUSPENSE_REVERSED, u.key, u.attempt, -u.amount)
      BY <2>2 DEF Reversals
    <3>2. u \in postings /\ u.kind = UNVERIFIED
      OBVIOUS
    <3>3. u.amount \in Int
      BY <3>2 DEF TypeOK, Posting
    <3>4. u.amount + r.amount = 0 /\ u.key = r.key /\ u.attempt = r.attempt
      BY <3>1, <3>3 DEF NewPosting
    <3> QED BY <1>2, <3>2, <3>4
  <2> QED BY <1>2, <2>1, <2>2
<1> QED BY <1>1, <1>2 DEF Insert

(* A reversal is only ever made together with rows that leave it mirrored. *)
LEMMA MirrorStep ==
  ASSUME TypeOK, ReversalsMirror, [Next]_vars
  PROVE  ReversalsMirror'
<1>0. CASE UNCHANGED postings
  BY <1>0 DEF ReversalsMirror
<1>1. ASSUME NEW k \in Keys, NEW a \in Attempts, NEW amount \in Amounts,
             RecordSale(k, a, amount)
      PROVE  ReversalsMirror'
  <2>1. CASE Sales(k) = {}
    <3>1. Insert(Reversals(OpenSuspense(k)) \cup {NewPosting(SALE, k, a, amount)},
                 NewCall("record_sale", k, amount))
      BY <1>1, <2>1 DEF RecordSale, Sales
    <3>2. OpenSuspense(k) \in SUBSET {u \in postings : u.kind = UNVERIFIED}
      BY DEF OpenSuspense
    <3>3. \A p \in {NewPosting(SALE, k, a, amount)} : p.kind # SUSPENSE_REVERSED
      BY DEF NewPosting, SALE, SUSPENSE_REVERSED
    <3> QED BY <3>1, <3>2, <3>3, InsertMirrors
  <2>2. CASE Sales(k) # {}
    BY <1>0, <1>1, <2>2 DEF RecordSale, Return, Raise
  <2> QED BY <2>1, <2>2
<1>2. ASSUME NEW k \in Keys, NEW a \in Attempts, NEW amount \in Amounts,
             RecordUnverified(k, a, amount)
      PROVE  ReversalsMirror'
  <2>1. CASE Return(NewCall("record_unverified", k, a))
    BY <1>0, <2>1 DEF Return
  <2>2. CASE Insert({NewPosting(UNVERIFIED, k, a, amount)},
                    NewCall("record_unverified", k, a))
    <3>1. Reversals({}) \cup {NewPosting(UNVERIFIED, k, a, amount)}
            = {NewPosting(UNVERIFIED, k, a, amount)}
      BY DEF Reversals
    <3>2. \A p \in {NewPosting(UNVERIFIED, k, a, amount)} : p.kind # SUSPENSE_REVERSED
      BY DEF NewPosting, UNVERIFIED, SUSPENSE_REVERSED
    <3>3. Insert(Reversals({}) \cup {NewPosting(UNVERIFIED, k, a, amount)},
                 NewCall("record_unverified", k, a))
      BY <2>2, <3>1
    <3> QED BY <3>2, <3>3, InsertMirrors
  <2> QED BY <1>2, <2>1, <2>2 DEF RecordUnverified
<1>3. ASSUME NEW k \in Keys, NEW a \in Attempts, RecordNotExecuted(k, a)
      PROVE  ReversalsMirror'
  <2> DEFINE open == {u \in OpenSuspense(k) : u.attempt = a}
  <2>1. CASE Marked(k, a)
    BY <1>0, <1>3, <2>1 DEF RecordNotExecuted, Return
  <2>2. CASE ~Marked(k, a)
    <3>1. Insert(Reversals(open) \cup {NewPosting(RESOLVED, k, a, 0)},
                 NewCall("record_not_executed", k, a))
      BY <1>3, <2>2 DEF RecordNotExecuted
    <3>2. open \in SUBSET {u \in postings : u.kind = UNVERIFIED}
      BY DEF OpenSuspense
    <3>3. \A p \in {NewPosting(RESOLVED, k, a, 0)} : p.kind # SUSPENSE_REVERSED
      BY DEF NewPosting, RESOLVED, SUSPENSE_REVERSED
    <3> HIDE DEF open
    <3> QED BY <3>1, <3>2, <3>3, InsertMirrors
  <2> QED BY <2>1, <2>2
<1> QED BY <1>0, <1>1, <1>2, <1>3 DEF Next, vars

(* Suspense nets to the attempts still open and never below                *)
(* (ledger.py:447-460): every reversal mirrors a posting that is there.    *)
THEOREM SuspenseIsMirrored == Spec => []ReversalsMirror
<1>1. Init => ReversalsMirror
  BY DEF Init, ReversalsMirror
<1>2. TypeOK /\ ReversalsMirror /\ [Next]_vars => ReversalsMirror'
  BY MirrorStep
<1> QED BY <1>1, <1>2, LedgerTypeCorrect, PTL DEF Spec

(* The sale of a key is of the amount of every sale call that returned.    *)
ToldTrue ==
  \A c \in accepted : c.op = "record_sale" =>
    \A s \in Sales(c.key) : s.amount = c.arg

(* A step adds sales only to an unsold key, and says "booked" only of the  *)
(* amount that is booked.                                                  *)
LEMMA ToldStep ==
  ASSUME LedgerInv, ToldTrue, [Next]_vars
  PROVE  ToldTrue'
<1>0. CASE UNCHANGED <<postings, accepted>>
  BY <1>0 DEF ToldTrue, Sales
<1>1. ASSUME NEW k \in Keys, NEW a \in Attempts, NEW amount \in Amounts,
             RecordSale(k, a, amount)
      PROVE  ToldTrue'
  <2>1. CASE Sales(k) = {}
    <3>1. /\ postings' = postings \cup (Reversals(OpenSuspense(k))
                                        \cup {NewPosting(SALE, k, a, amount)})
          /\ accepted' = accepted \cup {NewCall("record_sale", k, amount)}
      BY <1>1, <2>1, NewSale DEF LedgerInv
    <3>2. \A p \in Reversals(OpenSuspense(k)) : p.kind # SALE
      BY ReversalsMatch DEF SALE, SUSPENSE_REVERSED
    <3>3. \A j : Sales(j)' \subseteq Sales(j) \cup {NewPosting(SALE, k, a, amount)}
      BY <3>1, <3>2 DEF Sales
    <3>4. ~AskedSale(k)
      BY <2>1 DEF LedgerInv, OrderIndependent
    <3>5. ASSUME NEW c \in accepted', c.op = "record_sale", NEW s \in Sales(c.key)'
          PROVE  s.amount = c.arg
      <4>1. CASE c = NewCall("record_sale", k, amount)
        BY <2>1, <3>3, <3>5, <4>1 DEF NewCall, NewPosting, Sales
      <4>2. CASE c \in accepted
        <5>1. c.key # k
          BY <3>4, <3>5, <4>2 DEF AskedSale
        <5>2. s.key = c.key
          BY <3>5 DEF Sales
        <5>3. s \in Sales(c.key)
          BY <3>3, <3>5, <5>1, <5>2 DEF NewPosting
        <5> QED BY <3>5, <4>2, <5>3 DEF ToldTrue
      <4> QED BY <3>1, <3>5, <4>1, <4>2
    <3> QED BY <3>5 DEF ToldTrue
  <2>2. CASE Sales(k) # {} /\ ~UNCHANGED accepted
    <3>1. /\ \A s \in Sales(k) : s.amount = amount
          /\ accepted' = accepted \cup {NewCall("record_sale", k, amount)}
          /\ UNCHANGED postings
      BY <1>1, <2>2 DEF RecordSale, Return, Raise
    <3> QED BY <3>1 DEF ToldTrue, Sales, NewCall
  <2>3. CASE Sales(k) # {} /\ UNCHANGED accepted
    BY <1>0, <1>1, <2>3 DEF RecordSale, Return, Raise
  <2> QED BY <2>1, <2>2, <2>3
<1>2. ASSUME NEW k \in Keys, NEW a \in Attempts,
             \/ \E amount \in Amounts : RecordUnverified(k, a, amount)
             \/ RecordNotExecuted(k, a)
      PROVE  ToldTrue'
  <2>1. \A j : Sales(j)' \subseteq Sales(j)
    <3>1. CASE UNCHANGED postings
      BY <3>1 DEF Sales
    <3>2. ASSUME NEW amount \in Amounts, RecordUnverified(k, a, amount), ~UNCHANGED postings
          PROVE  \A j : Sales(j)' \subseteq Sales(j)
      <4>1. postings' = postings \cup {NewPosting(UNVERIFIED, k, a, amount)}
        BY <3>2 DEF RecordUnverified, Insert, Return
      <4> QED BY <4>1 DEF Sales, NewPosting, UNVERIFIED, SALE
    <3>3. ASSUME RecordNotExecuted(k, a), ~UNCHANGED postings
          PROVE  \A j : Sales(j)' \subseteq Sales(j)
      <4> DEFINE reversed == Reversals({u \in OpenSuspense(k) : u.attempt = a})
      <4>1. postings' = postings \cup (reversed \cup {NewPosting(RESOLVED, k, a, 0)})
        BY <3>3 DEF RecordNotExecuted, Insert, Return
      <4>2. \A p \in reversed : p.kind # SALE
        BY ReversalsMatch DEF SALE, SUSPENSE_REVERSED
      <4> HIDE DEF reversed
      <4> QED BY <4>1, <4>2 DEF Sales, NewPosting, RESOLVED, SALE
    <3> QED BY <1>2, <3>1, <3>2, <3>3
  <2>2. \A c \in accepted' : c \in accepted \/ c.op # "record_sale"
    BY <1>2 DEF RecordUnverified, RecordNotExecuted, Insert, Return, NewCall
  <2> QED BY <2>1, <2>2 DEF ToldTrue
<1> QED BY <1>0, <1>1, <1>2 DEF Next, vars

(* Revenue is recognised once per key, for the amount of every sale call   *)
(* that was answered (ledger.py:470-511), for any calls in any order.      *)
THEOREM RevenueIsRecognisedOnce == Spec => []RevenueOnce
<1>1. Init => ToldTrue
  BY DEF Init, ToldTrue
<1>2. LedgerInv /\ ToldTrue /\ [Next]_vars => ToldTrue'
  BY ToldStep
<1>3. LedgerInv /\ ToldTrue => RevenueOnce
  <2> SUFFICES ASSUME LedgerInv, ToldTrue, NEW k \in Keys
               PROVE  /\ Cardinality(Sales(k)) <= 1
                      /\ \A c \in accepted : (c.op = "record_sale" /\ c.key = k) =>
                           \A s \in Sales(k) : s.amount = c.arg
    BY DEF RevenueOnce
  <2>1. CASE Sales(k) = {}
    BY <2>1, FS_EmptySet
  <2>2. ASSUME NEW s \in Sales(k) PROVE Cardinality(Sales(k)) = 1
    <3>1. Sales(k) = {s}
      BY DEF LedgerInv, OneSale, Sales
    <3> QED BY <3>1, FS_Singleton
  <2> QED BY <2>1, <2>2 DEF ToldTrue
<1> QED BY <1>1, <1>2, <1>3, LedgerIsInvariant, PTL DEF Spec

-----------------------------------------------------------------------------
(* Rows.  The unique indexes hold of what is there, and there are finitely *)
(* many rows.                                                              *)

UniqueRows == \A p, q \in postings : SameIndexEntry(p, q) => p = q
RowInv == UniqueRows /\ IsFiniteSet(postings)

LEMMA InsertKeepsRows ==
  ASSUME RowInv, NEW new, IsFiniteSet(new), NEW call, Insert(new, call),
         \A p, q \in new : SameIndexEntry(p, q) => p = q
  PROVE  RowInv'
<1>1. CASE UNCHANGED postings
  BY <1>1 DEF RowInv, UniqueRows
<1>2. CASE ~UNCHANGED postings
  <2>1. /\ postings' = postings \cup new
        /\ \A p \in new, q \in postings : ~SameIndexEntry(p, q)
    BY <1>2 DEF Insert
  <2>2. \A p, q : SameIndexEntry(p, q) => SameIndexEntry(q, p)
    BY DEF SameIndexEntry
  <2>3. IsFiniteSet(postings \cup new)
    BY FS_Union DEF RowInv
  <2>4. UniqueRows'
    BY <2>1, <2>2 DEF RowInv, UniqueRows
  <2> QED BY <2>1, <2>3, <2>4 DEF RowInv
<1> QED BY <1>1, <1>2

(* Distinct suspense postings are reversed by distinct rows.               *)
LEMMA ReversalsAreRows ==
  ASSUME RowInv, NEW opened \in SUBSET postings, \A u \in opened : u.kind = UNVERIFIED
  PROVE  /\ IsFiniteSet(Reversals(opened))
         /\ \A p, q \in Reversals(opened) : SameIndexEntry(p, q) => p = q
<1> DEFINE rev(u) == NewPosting(SUSPENSE_REVERSED, u.key, u.attempt, -u.amount)
           f == [u \in opened |-> rev(u)]
<1>1. Reversals(opened) = {rev(u) : u \in opened}
  BY DEF Reversals
<1>2. f \in Surjection(opened, Reversals(opened))
  <2> HIDE DEF rev
  <2> QED BY <1>1 DEF Surjection
<1>3. IsFiniteSet(opened)
  BY FS_Subset DEF RowInv
<1>4. ASSUME NEW u \in opened, NEW v \in opened, SameIndexEntry(rev(u), rev(v))
      PROVE  u = v
  <2>1. u.key = v.key /\ u.attempt = v.attempt
    BY <1>4 DEF SameIndexEntry, NewPosting, SUSPENSE_REVERSED, SALE
  <2>2. SameIndexEntry(u, v)
    BY <2>1 DEF SameIndexEntry
  <2> QED BY <2>2 DEF RowInv, UniqueRows
<1> HIDE DEF f, rev
<1>5. IsFiniteSet(Reversals(opened))
  BY <1>2, <1>3, FS_Surjection
<1> QED BY <1>1, <1>4, <1>5

LEMMA RowStep ==
  ASSUME RowInv, [Next]_vars
  PROVE  RowInv'
<1>0. CASE UNCHANGED postings
  BY <1>0 DEF RowInv, UniqueRows
<1>1. ASSUME NEW opened \in SUBSET postings, \A u \in opened : u.kind = UNVERIFIED,
             NEW row, row.kind # SUSPENSE_REVERSED,
             NEW call, Insert(Reversals(opened) \cup {row}, call)
      PROVE  RowInv'
  <2> DEFINE new == Reversals(opened) \cup {row}
  <2>1. /\ IsFiniteSet(Reversals(opened))
        /\ \A p, q \in Reversals(opened) : SameIndexEntry(p, q) => p = q
    BY <1>1, ReversalsAreRows
  <2>2. \A p \in Reversals(opened) : p.kind = SUSPENSE_REVERSED
    BY ReversalsMatch
  <2>3. IsFiniteSet(new)
    BY <2>1, FS_AddElement
  <2>4. \A p, q \in new : SameIndexEntry(p, q) => p = q
    BY <1>1, <2>1, <2>2 DEF SameIndexEntry
  <2> HIDE DEF new
  <2>5. Insert(new, call)
    BY <1>1 DEF new
  <2> QED BY <2>3, <2>4, <2>5, InsertKeepsRows
<1>2. ASSUME NEW k \in Keys, NEW a \in Attempts, NEW amount \in Amounts,
             RecordSale(k, a, amount), ~UNCHANGED postings
      PROVE  RowInv'
  <2> DEFINE sale == NewPosting(SALE, k, a, amount)
  <2>1. Insert(Reversals(OpenSuspense(k)) \cup {sale}, NewCall("record_sale", k, amount))
    BY <1>2 DEF RecordSale, Return, Raise
  <2>2. OpenSuspense(k) \in SUBSET postings /\ \A u \in OpenSuspense(k) : u.kind = UNVERIFIED
    BY DEF OpenSuspense
  <2>3. sale.kind # SUSPENSE_REVERSED
    BY DEF NewPosting, SALE, SUSPENSE_REVERSED
  <2> HIDE DEF sale
  <2> QED BY <1>1, <2>1, <2>2, <2>3
<1>3. ASSUME NEW k \in Keys, NEW a \in Attempts, NEW amount \in Amounts,
             RecordUnverified(k, a, amount), ~UNCHANGED postings
      PROVE  RowInv'
  <2> DEFINE unv == NewPosting(UNVERIFIED, k, a, amount)
  <2>1. Insert({unv}, NewCall("record_unverified", k, a))
    BY <1>3 DEF RecordUnverified, Return
  <2> HIDE DEF unv
  <2>2. IsFiniteSet({unv}) /\ \A p, q \in {unv} : SameIndexEntry(p, q) => p = q
    BY FS_Singleton
  <2> QED BY <2>1, <2>2, InsertKeepsRows
<1>4. ASSUME NEW k \in Keys, NEW a \in Attempts, RecordNotExecuted(k, a), ~UNCHANGED postings
      PROVE  RowInv'
  <2> DEFINE mark == NewPosting(RESOLVED, k, a, 0)
             closed == {u \in OpenSuspense(k) : u.attempt = a}
  <2>1. Insert(Reversals(closed) \cup {mark}, NewCall("record_not_executed", k, a))
    BY <1>4 DEF RecordNotExecuted, Return
  <2>2. closed \in SUBSET postings /\ \A u \in closed : u.kind = UNVERIFIED
    BY DEF OpenSuspense
  <2>3. mark.kind # SUSPENSE_REVERSED
    BY DEF NewPosting, RESOLVED, SUSPENSE_REVERSED
  <2> HIDE DEF mark, closed
  <2> QED BY <1>1, <2>1, <2>2, <2>3
<1> QED BY <1>0, <1>2, <1>3, <1>4 DEF Next, vars

THEOREM RowsAreUnique == Spec => []RowInv
<1>1. Init => RowInv
  BY FS_EmptySet DEF Init, RowInv, UniqueRows
<1>2. RowInv /\ [Next]_vars => RowInv'
  BY RowStep
<1> QED BY <1>1, <1>2, PTL DEF Spec

-----------------------------------------------------------------------------
(* The postings implement the abstract position.                           *)

position == [k \in Keys |-> PositionOf(k)]

(* A key none of whose sales, markers or open suspense changed has the     *)
(* position it had.                                                        *)
LEMMA SamePosition ==
  ASSUME NEW j \in Keys,
         Sales(j)' = Sales(j), OpenSuspense(j)' = OpenSuspense(j),
         \A b \in Attempts : Marked(j, b)' <=> Marked(j, b)
  PROVE  PositionOf(j)' = PositionOf(j)
BY DEF PositionOf

(* The position's sold amount is zero exactly while no sale is posted.     *)
LEMMA SoldAmount ==
  ASSUME LedgerInv, NEW k \in Keys
  PROVE  /\ Sales(k) = {} => PositionOf(k).sold = 0
         /\ \A s \in Sales(k) : PositionOf(k).sold = s.amount /\ s.amount # 0
<1>1. ASSUME NEW s \in Sales(k)
      PROVE  s.amount \in Amounts /\ (CHOOSE x \in Sales(k) : TRUE) = s
  <2>1. \A x \in Sales(k) : x = s
    BY DEF LedgerInv, OneSale, Sales
  <2>2. (CHOOSE x \in Sales(k) : TRUE) \in Sales(k)
    OBVIOUS
  <2> QED BY <2>1, <2>2 DEF LedgerInv, OneSale, Sales
<1> QED BY <1>1, LedgerAssumption DEF PositionOf

LEMMA PositionIsRecord ==
  ASSUME NEW k \in Keys
  PROVE  PositionOf(k) = [sold |-> PositionOf(k).sold,
                          open |-> PositionOf(k).open,
                          settled |-> PositionOf(k).settled]
BY DEF PositionOf

(* The abstract updates, field by field.                                   *)
LEMMA PositionUpdates ==
  ASSUME NEW p, NEW a, a \notin p.settled,
         p = [sold |-> p.sold, open |-> p.open, settled |-> p.settled]
  PROVE  /\ p.sold = 0 => Books!AfterUnverified(p, a) =
              [sold |-> p.sold, open |-> p.open \cup {a}, settled |-> p.settled]
         /\ Books!AfterNotExecuted(p, a) =
              [sold |-> p.sold, open |-> p.open \ {a}, settled |-> p.settled \cup {a}]
<1> DEFINE s == p.sold
           o == p.open
           m == p.settled
<1>1. p = [sold |-> s, open |-> o, settled |-> m] /\ a \notin m
  OBVIOUS
<1>2. Books!AfterUnverified(p, a) =
        IF p.sold # 0 \/ a \in p.settled THEN p ELSE [p EXCEPT !.open = @ \cup {a}]
  BY DEF Books!AfterUnverified, Books!Sold
<1>3. Books!AfterNotExecuted(p, a) = [p EXCEPT !.open = @ \ {a}, !.settled = @ \cup {a}]
  BY <1>1 DEF Books!AfterNotExecuted
<1> SUFFICES /\ s = 0 => Books!AfterUnverified(p, a) =
                           [sold |-> s, open |-> o \cup {a}, settled |-> m]
             /\ Books!AfterNotExecuted(p, a) =
                  [sold |-> s, open |-> o \ {a}, settled |-> m \cup {a}]
  OBVIOUS
<1> HIDE DEF s, o, m
<1> QED BY <1>1, <1>2, <1>3

LEMMA SaleMaps ==
  ASSUME LedgerInv, LedgerInv', NEW k \in Keys, NEW a \in Attempts,
         NEW amount \in Amounts, RecordSale(k, a, amount)
  PROVE  Books!Sale(k, amount) \/ position' = position
<1>1. CASE Sales(k) = {}
  <2>0. postings' = postings \cup (Reversals(OpenSuspense(k))
                                   \cup {NewPosting(SALE, k, a, amount)})
    BY <1>1, NewSale DEF LedgerInv
  <2>1. \A j \in Keys : j # k => PositionOf(j)' = PositionOf(j)
    BY <1>1, <2>0, SaleEffect, SamePosition
  <2>2. PositionOf(k)' = [sold |-> amount, open |-> {}, settled |-> PositionOf(k).settled]
    <3> DEFINE sale == NewPosting(SALE, k, a, amount)
    <3>1. Sales(k)' = {sale} /\ OpenSuspense(k)' = {}
      BY <1>1, <2>0, SaleEffect
    <3>2. \A b \in Attempts : Marked(k, b)' <=> Marked(k, b)
      BY <1>1, <2>0, SaleEffect
    <3>3. sale.amount = amount
      BY DEF NewPosting
    <3> HIDE DEF sale
    <3>4. (CHOOSE x \in {sale} : TRUE) = sale
      OBVIOUS
    <3> QED BY <3>1, <3>2, <3>3, <3>4 DEF PositionOf
  <2>3. PositionOf(k).sold = 0
    BY <1>1, SoldAmount
  <2>4. Books!AfterSale(PositionOf(k), amount) = PositionOf(k)'
    BY <2>2, <2>3 DEF Books!AfterSale, Books!Sold, PositionOf
  <2> QED BY <2>1, <2>3, <2>4
       DEF Books!Sale, Books!SaleConflicts, Books!Sold, position
<1>2. CASE Sales(k) # {}
  <2>1. postings' = postings
    BY <1>2 DEF RecordSale, Return, Raise, Insert, RecordSale
  <2> QED BY <2>1 DEF position, PositionOf, Sales, OpenSuspense, Marked
<1> QED BY <1>1, <1>2

LEMMA UnverifiedMaps ==
  ASSUME LedgerInv, NEW k \in Keys, NEW a \in Attempts,
         NEW amount \in Amounts, RecordUnverified(k, a, amount)
  PROVE  Books!Unverified(k, a) \/ position' = position
<1>1. CASE postings' = postings
  BY <1>1 DEF position, PositionOf, Sales, OpenSuspense, Marked
<1>2. CASE postings' # postings
  <2>1. /\ Sales(k) = {} /\ ~Marked(k, a)
        /\ postings' = postings \cup {NewPosting(UNVERIFIED, k, a, amount)}
    BY <1>2, NewUnverified DEF RecordUnverified, Return
  <2>2. ASSUME NEW j \in Keys, j # k PROVE PositionOf(j)' = PositionOf(j)
    <3> DEFINE unv == NewPosting(UNVERIFIED, k, a, amount)
    <3>0. OpenSuspense(j)' = OpenSuspense(j) \cup IF j = k THEN {unv} ELSE {}
      BY <2>1, UnverifiedEffect DEF LedgerInv
    <3> HIDE DEF unv
    <3>1. OpenSuspense(j)' = OpenSuspense(j)
      BY <2>2, <3>0
    <3>2. Sales(j)' = Sales(j) /\ \A b \in Attempts : Marked(j, b)' <=> Marked(j, b)
      BY <2>1, UnverifiedEffect DEF LedgerInv
    <3> QED BY <3>1, <3>2, SamePosition
  <2>3. PositionOf(k)' = [sold |-> PositionOf(k).sold,
                          open |-> PositionOf(k).open \cup {a},
                          settled |-> PositionOf(k).settled]
    <3> DEFINE unv == NewPosting(UNVERIFIED, k, a, amount)
    <3>1. Sales(k)' = Sales(k) /\ \A b \in Attempts : Marked(k, b)' <=> Marked(k, b)
      BY <2>1, UnverifiedEffect DEF LedgerInv
    <3>2. OpenSuspense(k)' = OpenSuspense(k) \cup {unv}
      BY <2>1, UnverifiedEffect DEF LedgerInv
    <3>3. unv.attempt = a
      BY DEF NewPosting
    <3> HIDE DEF unv
    <3>4. {u.attempt : u \in OpenSuspense(k)'} = {u.attempt : u \in OpenSuspense(k)} \cup {a}
      BY <3>2, <3>3
    <3>5. {b \in Attempts : Marked(k, b)'} = {b \in Attempts : Marked(k, b)}
      BY <3>1
    <3> QED BY <3>1, <3>4, <3>5 DEF PositionOf
  <2>4. PositionOf(k).sold = 0 /\ a \notin PositionOf(k).settled
    BY <2>1, SoldAmount DEF PositionOf
  <2>5. Books!AfterUnverified(PositionOf(k), a) = PositionOf(k)'
    BY <2>3, <2>4, PositionIsRecord, PositionUpdates
  <2> QED BY <2>2, <2>5 DEF Books!Unverified, position
<1> QED BY <1>1, <1>2

LEMMA NotExecutedMaps ==
  ASSUME LedgerInv, NEW k \in Keys, NEW a \in Attempts, RecordNotExecuted(k, a)
  PROVE  Books!NotExecuted(k, a) \/ position' = position
<1>1. CASE Marked(k, a)
  <2>1. postings' = postings
    BY <1>1 DEF RecordNotExecuted, Return
  <2> QED BY <2>1 DEF position, PositionOf, Sales, OpenSuspense, Marked
<1>2. CASE ~Marked(k, a)
  <2>1. postings' = postings
          \cup (Reversals({u \in OpenSuspense(k) : u.attempt = a})
                \cup {NewPosting(RESOLVED, k, a, 0)})
    BY <1>2, NewMarker DEF RecordNotExecuted, LedgerInv
  <2>2. \A j \in Keys : j # k => PositionOf(j)' = PositionOf(j)
    BY <2>1, MarkerEffect, SamePosition
  <2>3. PositionOf(k)' = [sold |-> PositionOf(k).sold,
                          open |-> PositionOf(k).open \ {a},
                          settled |-> PositionOf(k).settled \cup {a}]
    <3>1. Sales(k)' = Sales(k)
          /\ \A b \in Attempts : Marked(k, b)' <=> Marked(k, b) \/ b = a
      BY <2>1, MarkerEffect
    <3>2. OpenSuspense(k)' = {u \in OpenSuspense(k) : u.attempt # a}
      BY <2>1, MarkerEffect
    <3>3. {u.attempt : u \in OpenSuspense(k)'} = {u.attempt : u \in OpenSuspense(k)} \ {a}
      BY <3>2
    <3>4. {b \in Attempts : Marked(k, b)'} = {b \in Attempts : Marked(k, b)} \cup {a}
      BY <3>1
    <3> QED BY <3>1, <3>3, <3>4 DEF PositionOf
  <2>4. a \notin PositionOf(k).settled
    BY <1>2 DEF PositionOf
  <2>5. Books!AfterNotExecuted(PositionOf(k), a) = PositionOf(k)'
    BY <2>3, <2>4, PositionIsRecord, PositionUpdates
  <2> QED BY <2>2, <2>5 DEF Books!NotExecuted, position
<1> QED BY <1>1, <1>2

(* The detailed books refine LedgerPosition: each call sells, opens or     *)
(* settles exactly what the position says it does, or changes nothing.     *)
THEOREM LedgerImplementsPosition == Spec => ImplementsPosition
<1>1. Init => Books!Init
  BY DEF Init, Books!Init, Books!EmptyPosition, PositionOf, Sales, OpenSuspense, Marked
<1>2. LedgerInv /\ LedgerInv' /\ [Next]_vars => [Books!Next]_position
  <2> SUFFICES ASSUME LedgerInv, LedgerInv', [Next]_vars
               PROVE  Books!Next \/ position' = position
    OBVIOUS
  <2>1. CASE UNCHANGED vars
    BY <2>1 DEF vars, position, PositionOf, Sales, OpenSuspense, Marked
  <2>2. CASE Next
    BY <2>2, SaleMaps, UnverifiedMaps, NotExecutedMaps DEF Next, Books!Next
  <2> QED BY <2>1, <2>2
<1>3. (LedgerInv /\ LedgerInv' /\ [Next]_vars => [Books!Next]_position)
       => (LedgerInv /\ LedgerInv' /\ [Next]_vars
             => [Books!Next]_([k \in Keys |-> PositionOf(k)]))
  BY DEF position
<1> QED BY <1>1, <1>2, <1>3, LedgerIsInvariant, PTL DEF Spec, ImplementsPosition, Books!Spec

-----------------------------------------------------------------------------
(* Sums.  What a fold over a set computes is known from the equation it    *)
(* solves: that it has a solution, that a solution adds integers, and that *)
(* any element may be taken out first.                                     *)

(* A set of naturals that is not empty has a least element.                *)
LEMMA LeastNumber ==
  ASSUME NEW S \in SUBSET Nat, S # {}
  PROVE  \E n \in S : \A m \in S : n =< m
<1> DEFINE R == OpToRel(<, Nat)
<1> HIDE DEF R
<1>1. IsWellFoundedOn(R, Nat)
  BY NatLessThanWellFounded DEF R
<1>2. PICK n \in S : \A m \in S : <<m, n>> \notin R
  BY <1>1, WFMin, S \subseteq Nat
<1>3. \A m \in S : ~(m < n)
  BY <1>2 DEF OpToRel, R
<1> QED
  BY <1>2, <1>3

(* Among subsets of a finite set there is one that has no smaller one      *)
(* among them: an induction over such subsets looks at it.                 *)
LEMMA SmallestSubset ==
  ASSUME NEW S, IsFiniteSet(S), NEW B \in SUBSET SUBSET S, B # {}
  PROVE  \E s \in B : \A x \in s : s \ {x} \notin B
<1> DEFINE sizes == {Cardinality(s) : s \in B}
<1>1. \A s \in B : IsFiniteSet(s) /\ Cardinality(s) \in Nat
  BY FS_Subset, FS_CardinalityType
<1>2. PICK n \in sizes : \A m \in sizes : n =< m
  <2>1. sizes \in SUBSET Nat /\ sizes # {}
    BY <1>1
  <2> HIDE DEF sizes
  <2> QED BY <2>1, LeastNumber
<1>3. PICK s \in B : n = Cardinality(s)
  BY <1>2
<1>4. ASSUME NEW x \in s, s \ {x} \in B PROVE FALSE
  <2>1. Cardinality(s \ {x}) = n - 1
    BY <1>1, <1>3, FS_RemoveElement
  <2> QED BY <1>1, <1>2, <1>3, <1>4, <2>1
<1> QED BY <1>3, <1>4

(* The equation of a fold that adds f over a set (Folds.tla).              *)
Pick(s) == CHOOSE x \in s : TRUE
Adding(f, g, s) == IF s = {} THEN 0 ELSE f[Pick(s)] + g[s \ {Pick(s)}]
Sums(f, g, S) == g = [s \in SUBSET S |-> Adding(f, g, s)]

LEMMA AddingType ==
  ASSUME NEW S, NEW f \in [S -> Int], NEW g \in [SUBSET S -> Int], NEW s \in SUBSET S
  PROVE  /\ Adding(f, g, s) \in Int
         /\ s # {} => Pick(s) \in s
BY DEF Adding, Pick

(* There is such a function: one that adds the sets of fewer than n        *)
(* elements right is used to add those of n.                               *)
LEMMA SumsExist ==
  ASSUME NEW S, IsFiniteSet(S), NEW f \in [S -> Int]
  PROVE  \E g \in [SUBSET S -> Int] : Sums(f, g, S)
<1> DEFINE Right(g, n) ==
             \A s \in SUBSET S : Cardinality(s) < n => g[s] = Adding(f, g, s)
           wrong == {n \in Nat : ~\E g \in [SUBSET S -> Int] : Right(g, n)}
<1>1. \A s \in SUBSET S : IsFiniteSet(s) /\ Cardinality(s) \in Nat
  BY FS_Subset, FS_CardinalityType
<1>2. ASSUME NEW n \in Nat, NEW g \in [SUBSET S -> Int], Right(g, n)
      PROVE  \E h \in [SUBSET S -> Int] : Right(h, n + 1)
  <2> DEFINE h == [s \in SUBSET S |-> Adding(f, g, s)]
  <2>1. h \in [SUBSET S -> Int]
    BY AddingType
  <2>2. ASSUME NEW s \in SUBSET S, Cardinality(s) < n + 1
        PROVE  h[s] = Adding(f, h, s)
    <3>1. CASE s = {}
      BY <3>1 DEF Adding
    <3>2. CASE s # {}
      <4> DEFINE t == s \ {Pick(s)}
      <4>1. t \in SUBSET S /\ Pick(s) \in s
        BY <3>2, AddingType
      <4>2. Cardinality(t) < n
        BY <1>1, <2>2, <4>1, FS_RemoveElement
      <4>3. h[t] = Adding(f, g, t) /\ g[t] = Adding(f, g, t)
        BY <1>2, <4>1, <4>2
      <4> QED BY <3>2, <4>3 DEF Adding
    <3> QED BY <3>1, <3>2
  <2> HIDE DEF h
  <2> QED BY <2>1, <2>2
<1>3. 0 \notin wrong
  <2>1. [s \in SUBSET S |-> 0] \in [SUBSET S -> Int]
    OBVIOUS
  <2>2. \A g : Right(g, 0)
    BY <1>1
  <2> QED BY <2>1, <2>2
<1>4. wrong = {}
  <2> SUFFICES ASSUME wrong # {} PROVE FALSE
    OBVIOUS
  <2>0. wrong \in SUBSET Nat
    OBVIOUS
  <2>1. PICK n \in wrong : \A m \in wrong : n =< m
    <3> HIDE DEF wrong
    <3> QED BY <2>0, LeastNumber
  <2>2. n - 1 \in Nat /\ n \in Nat /\ ~(n =< n - 1)
    <3> HIDE DEF wrong
    <3>1. n \in Nat /\ n # 0
      BY <1>3, <2>0, <2>1
    <3> QED BY <3>1
  <2>3. n - 1 \notin wrong
    BY <2>1, <2>2
  <2> HIDE DEF Right
  <2>4. PICK g \in [SUBSET S -> Int] : Right(g, n - 1)
    BY <2>2, <2>3
  <2>5. \E h \in [SUBSET S -> Int] : Right(h, n - 1 + 1)
    BY <1>2, <2>2, <2>4
  <2>6. n - 1 + 1 = n
    BY <2>2
  <2> QED BY <2>1, <2>5, <2>6
<1>5. Cardinality(S) + 1 \in Nat
  BY FS_CardinalityType
<1>6. PICK g \in [SUBSET S -> Int] : Right(g, Cardinality(S) + 1)
  <2> HIDE DEF Right
  <2> QED BY <1>4, <1>5
<1>7. \A s \in SUBSET S : g[s] = Adding(f, g, s)
  BY <1>1, <1>5, <1>6, FS_Subset
<1> QED BY <1>7 DEF Sums

(* Whatever satisfies the equation adds integers.                          *)
LEMMA SumsAreNumbers ==
  ASSUME NEW S, IsFiniteSet(S), NEW f \in [S -> Int], NEW g, Sums(f, g, S)
  PROVE  g \in [SUBSET S -> Int]
<1> DEFINE wrong == {s \in SUBSET S : g[s] \notin Int}
<1>1. g = [s \in SUBSET S |-> g[s]] /\ \A s \in SUBSET S : g[s] = Adding(f, g, s)
  BY DEF Sums
<1>2. wrong = {}
  <2> SUFFICES ASSUME wrong # {} PROVE FALSE
    OBVIOUS
  <2>1. PICK s \in wrong : \A x \in s : s \ {x} \notin wrong
    <3> HIDE DEF wrong
    <3>1. wrong \in SUBSET SUBSET S
      BY DEF wrong
    <3> QED BY <3>1, SmallestSubset
  <2>2. CASE s = {}
    <3>1. Adding(f, g, s) = 0
      BY <2>2 DEF Adding
    <3>2. g[s] = 0
      BY <1>1, <2>1, <3>1
    <3> QED BY <2>1, <3>2
  <2>3. CASE s # {}
    <3>1. Pick(s) \in s
      BY <2>3 DEF Pick
    <3>2. g[s \ {Pick(s)}] \in Int
      BY <2>1, <3>1
    <3>3. g[s] = f[Pick(s)] + g[s \ {Pick(s)}]
      BY <1>1, <2>1, <2>3 DEF Adding
    <3>4. f[Pick(s)] \in Int
      BY <2>1, <3>1
    <3> QED BY <2>1, <3>2, <3>3, <3>4
  <2> QED BY <2>2, <2>3
<1> QED BY <1>1, <1>2

(* Any element may be taken out first: to compare with the element that    *)
(* the fold takes, take both.                                              *)
AnyFirst(f, g, S) == \A s \in SUBSET S : \A x \in s : g[s] = f[x] + g[s \ {x}]

LEMMA SumOfRest ==
  ASSUME NEW S, IsFiniteSet(S), NEW f \in [S -> Int],
         NEW g \in [SUBSET S -> Int], Sums(f, g, S)
  PROVE  AnyFirst(f, g, S)
<1> DEFINE Out(t, y) == g[t] = f[y] + g[t \ {y}]
           wrong == {t \in SUBSET S : \E y \in t : ~Out(t, y)}
<1>1. \A t \in SUBSET S : t # {} => Pick(t) \in t /\ Out(t, Pick(t))
  BY DEF Sums, Adding, Pick
<1>2. wrong = {}
  <2> SUFFICES ASSUME wrong # {} PROVE FALSE
    OBVIOUS
  <2>1. PICK t \in wrong : \A y \in t : t \ {y} \notin wrong
    <3> HIDE DEF wrong
    <3>1. wrong \in SUBSET SUBSET S
      BY DEF wrong
    <3> QED BY <3>1, SmallestSubset
  <2>2. PICK y \in t : ~Out(t, y)
    BY <2>1
  <2> DEFINE z == Pick(t)
             rest == t \ {y, z}
  <2>3. t \in SUBSET S /\ z \in t /\ Out(t, z)
    <3>1. t \in SUBSET S
      BY <2>1
    <3> HIDE DEF Out
    <3> QED BY <1>1, <2>2, <3>1
  <2>4. z # y
    BY <2>2, <2>3
  <2>5. Out(t \ {z}, y) /\ Out(t \ {y}, z)
    <3>1. t \ {z} \in SUBSET S /\ t \ {y} \in SUBSET S /\ y \in t \ {z} /\ z \in t \ {y}
      BY <2>2, <2>3, <2>4
    <3>2. t \ {z} \notin wrong /\ t \ {y} \notin wrong
      BY <2>1, <2>2, <2>3
    <3> HIDE DEF Out, z
    <3> QED BY <3>1, <3>2
  <2>6. (t \ {z}) \ {y} = rest /\ (t \ {y}) \ {z} = rest
    OBVIOUS
  <2>7. /\ g[t] = f[z] + g[t \ {z}] /\ g[t \ {z}] = f[y] + g[rest]
        /\ g[t \ {y}] = f[z] + g[rest] /\ g[t] # f[y] + g[t \ {y}]
    BY <2>2, <2>3, <2>5, <2>6
  <2>8. f[y] \in Int /\ f[z] \in Int /\ g[rest] \in Int
    BY <2>2, <2>3
  <2> HIDE DEF z, rest
  <2> QED BY <2>7, <2>8
<1>3. ASSUME NEW s \in SUBSET S, NEW x \in s PROVE Out(s, x)
  <2> HIDE DEF Out
  <2> QED BY <1>2
<1> QED BY <1>3 DEF AnyFirst

LEMMA SumOfNothing ==
  ASSUME NEW S, NEW f, NEW g, Sums(f, g, S)
  PROVE  g[{}] = 0
<1>1. {} \in SUBSET S
  OBVIOUS
<1>2. Adding(f, g, {}) = 0
  BY DEF Adding
<1> QED BY <1>1, <1>2 DEF Sums

(* The totals of the trial balance are such sums.                          *)
LEMMA PaiseAreSums ==
  ASSUME NEW T, IsFiniteSet(T), NEW f \in [T -> Int], \A p \in T : f[p] = p.amount
  PROVE  \E g \in [SUBSET T -> Int] : Sums(f, g, T) /\ Paise(T) = g[T]
<1> DEFINE Eq(g) == g = [s \in SUBSET T |->
                           IF s = {} THEN 0 ELSE Pick(s).amount + g[s \ {Pick(s)}]]
           G == CHOOSE g : Eq(g)
<1>1. ASSUME NEW g PROVE Eq(g) <=> Sums(f, g, T)
  <2>1. \A s \in SUBSET T : s # {} => f[Pick(s)] = Pick(s).amount
    BY DEF Pick
  <2>2. \A s \in SUBSET T :
          Adding(f, g, s) = IF s = {} THEN 0 ELSE Pick(s).amount + g[s \ {Pick(s)}]
    BY <2>1 DEF Adding
  <2> QED BY <2>2 DEF Sums
<1>2. \E g : Eq(g)
  <2> HIDE DEF Eq
  <2> QED BY <1>1, SumsExist
<1>3. Eq(G)
  <2> HIDE DEF Eq
  <2> QED BY <1>2
<1>4. Paise(T) = G[T]
  BY DEF Paise, MapThenSumSet, MapThenFoldSet, Pick
<1> HIDE DEF G, Eq
<1>5. Sums(f, G, T)
  BY <1>1, <1>3
<1> QED BY <1>4, <1>5, SumsAreNumbers

SoldPaise == MapThenSumSet(LAMBDA k : PositionOf(k).sold, SoldKeys)

LEMMA SoldPaiseAreASum ==
  ASSUME IsFiniteSet(SoldKeys), NEW f \in [SoldKeys -> Int],
         \A k \in SoldKeys : f[k] = PositionOf(k).sold
  PROVE  \E g \in [SUBSET SoldKeys -> Int] : Sums(f, g, SoldKeys) /\ SoldPaise = g[SoldKeys]
<1> DEFINE Eq(g) == g = [s \in SUBSET SoldKeys |->
                           IF s = {} THEN 0
                           ELSE PositionOf(Pick(s)).sold + g[s \ {Pick(s)}]]
           G == CHOOSE g : Eq(g)
<1>1. ASSUME NEW g PROVE Eq(g) <=> Sums(f, g, SoldKeys)
  <2>1. \A s \in SUBSET SoldKeys : s # {} => f[Pick(s)] = PositionOf(Pick(s)).sold
    BY DEF Pick
  <2>2. \A s \in SUBSET SoldKeys :
          Adding(f, g, s) = IF s = {} THEN 0
                            ELSE PositionOf(Pick(s)).sold + g[s \ {Pick(s)}]
    BY <2>1 DEF Adding
  <2> QED BY <2>2 DEF Sums
<1>2. \E g : Eq(g)
  <2> HIDE DEF Eq
  <2> QED BY <1>1, SumsExist
<1>3. Eq(G)
  <2> HIDE DEF Eq
  <2> QED BY <1>2
<1>4. SoldPaise = G[SoldKeys]
  BY DEF SoldPaise, MapThenSumSet, MapThenFoldSet, Pick
<1> HIDE DEF G, Eq
<1>5. Sums(f, G, SoldKeys)
  BY <1>1, <1>3
<1> QED BY <1>4, <1>5, SumsAreNumbers

-----------------------------------------------------------------------------
(* The trial balance.                                                      *)

(* The sale of a key is what its position says, key by key.                *)
LEMMA SalesAddUp ==
  ASSUME LedgerInv, RowInv
  PROVE  Balance({SALE}) = SoldPaise
<1> DEFINE T == {p \in postings : p.kind \in {SALE}}
           of(K) == {p \in T : p.key \in K}
<1>1. IsFiniteSet(T)
  BY FS_Subset DEF RowInv
<1>2. \A p \in T : p.amount \in Int /\ p.key \in SoldKeys
  BY DEF LedgerInv, TypeOK, Posting, SoldKeys, Sales
<1>3. ASSUME NEW k \in SoldKeys
      PROVE  \E s \in T : /\ s.key = k /\ PositionOf(k).sold = s.amount
                          /\ \A p \in T : p.key = k => p = s
  <2>1. PICK s \in Sales(k) : TRUE
    BY DEF SoldKeys
  <2>2. PositionOf(k).sold = s.amount
    BY SoldAmount DEF SoldKeys
  <2>3. s \in T /\ s.key = k
    BY <2>1 DEF Sales
  <2>4. \A p \in T : p.key = k => p = s
    BY <2>3 DEF LedgerInv, OneSale
  <2> QED BY <2>2, <2>3, <2>4
<1> HIDE DEF T
<1>4. IsFiniteSet(SoldKeys)
  <2> DEFINE keyOf == [p \in T |-> p.key]
  <2>1. keyOf \in Surjection(T, SoldKeys)
    BY <1>2, <1>3 DEF Surjection
  <2> HIDE DEF keyOf
  <2> QED BY <1>1, <2>1, FS_Surjection
<1>5. PICK f \in [T -> Int] : \A p \in T : f[p] = p.amount
  <2>1. [p \in T |-> p.amount] \in [T -> Int]
    BY <1>2
  <2> QED BY <2>1
<1>6. PICK h \in [SoldKeys -> Int] : \A k \in SoldKeys : h[k] = PositionOf(k).sold
  <2>1. [k \in SoldKeys |-> PositionOf(k).sold] \in [SoldKeys -> Int]
    BY <1>2, <1>3
  <2> QED BY <2>1
<1>7. PICK F \in [SUBSET T -> Int] : Sums(f, F, T) /\ Paise(T) = F[T]
  BY <1>1, <1>5, PaiseAreSums
<1>8. PICK H \in [SUBSET SoldKeys -> Int] :
        Sums(h, H, SoldKeys) /\ SoldPaise = H[SoldKeys]
  BY <1>4, <1>6, SoldPaiseAreASum
<1>9. \A s \in SUBSET T : \A x \in s : F[s] = f[x] + F[s \ {x}]
  <2>1. IsFiniteSet(T) /\ f \in [T -> Int] /\ F \in [SUBSET T -> Int] /\ Sums(f, F, T)
    BY <1>1, <1>5, <1>7
  <2>2. AnyFirst(f, F, T)
    BY <2>1, SumOfRest
  <2> QED BY <2>2 DEF AnyFirst
<1>10. \A s \in SUBSET SoldKeys : \A x \in s : H[s] = h[x] + H[s \ {x}]
  <2>1. /\ IsFiniteSet(SoldKeys) /\ h \in [SoldKeys -> Int]
        /\ H \in [SUBSET SoldKeys -> Int] /\ Sums(h, H, SoldKeys)
    BY <1>4, <1>6, <1>8
  <2>2. AnyFirst(h, H, SoldKeys)
    BY <2>1, SumOfRest
  <2> QED BY <2>2 DEF AnyFirst
<1> DEFINE wrong == {K \in SUBSET SoldKeys : F[of(K)] # H[K]}
<1>11. wrong = {}
  <2> SUFFICES ASSUME wrong # {} PROVE FALSE
    OBVIOUS
  <2>1. PICK K \in wrong : \A k \in K : K \ {k} \notin wrong
    <3> HIDE DEF wrong
    <3>1. wrong \in SUBSET SUBSET SoldKeys
      BY DEF wrong
    <3> QED BY <1>4, <3>1, SmallestSubset
  <2>2. K \in SUBSET SoldKeys /\ F[of(K)] # H[K]
    BY <2>1
  <2>3. K # {}
    <3> SUFFICES ASSUME K = {} PROVE FALSE
      OBVIOUS
    <3>1. of(K) = {}
      OBVIOUS
    <3>2. F[{}] = 0 /\ H[{}] = 0
      BY <1>7, <1>8, SumOfNothing
    <3> QED BY <2>2, <3>1, <3>2
  <2>4. PICK k \in K : TRUE
    BY <2>3
  <2>5. PICK s \in T : /\ s.key = k /\ PositionOf(k).sold = s.amount
                       /\ \A p \in T : p.key = k => p = s
    BY <1>3, <2>2
  <2>6. of(K) \in SUBSET T /\ s \in of(K) /\ of(K) \ {s} = of(K \ {k})
    BY <2>5
  <2>7. F[of(K \ {k})] = H[K \ {k}]
    <3>1. K \ {k} \in SUBSET SoldKeys
      BY <2>2
    <3> QED BY <2>1, <3>1
  <2> HIDE DEF of
  <2>8. F[of(K)] = f[s] + F[of(K) \ {s}]
    BY <1>9, <2>6
  <2>9. H[K] = h[k] + H[K \ {k}]
    BY <1>10, <2>2, <2>4
  <2>10. f[s] = h[k]
    BY <1>5, <1>6, <2>2, <2>5
  <2> QED BY <2>2, <2>6, <2>7, <2>8, <2>9, <2>10
<1>12. F[of(SoldKeys)] = H[SoldKeys]
  <2> HIDE DEF of
  <2> QED BY <1>11
<1>13. of(SoldKeys) = T
  BY <1>2
<1>14. Balance({SALE}) = Paise(T)
  BY DEF Balance, T
<1> QED BY <1>7, <1>8, <1>12, <1>13, <1>14

(* A suspense posting that is not open comes with the one row that takes   *)
(* it back.                                                                *)
LEMMA SuspenseAddsUp ==
  ASSUME LedgerInv, RowInv, ReversalsMirror
  PROVE  Balance({UNVERIFIED, SUSPENSE_REVERSED}) = Paise(AllOpen)
<1> DEFINE T == {p \in postings : p.kind \in {UNVERIFIED, SUSPENSE_REVERSED}}
           U == {u \in T : u.kind = UNVERIFIED}
           reverses(r, u) == r.kind = SUSPENSE_REVERSED /\ r.key = u.key /\ r.attempt = u.attempt
           rows(V) == V \cup {r \in T : \E u \in V : reverses(r, u)}
<1>1. IsFiniteSet(T) /\ IsFiniteSet(U)
  BY FS_Subset DEF RowInv
<1>2. AllOpen \in SUBSET U /\ IsFiniteSet(AllOpen)
  <2>1. AllOpen \in SUBSET U
    BY DEF AllOpen, OpenSuspense
  <2> QED BY <1>1, <2>1, FS_Subset
<1>3. \A p \in T : p.amount \in Int
  BY DEF LedgerInv, TypeOK, Posting
<1>4. ASSUME NEW u \in U
      PROVE  /\ u \in AllOpen => \A r \in T : ~reverses(r, u)
             /\ u \notin AllOpen => \E r \in T : reverses(r, u)
  <2>1. u \in postings /\ u.kind = UNVERIFIED /\ u.key \in Keys
    BY DEF LedgerInv, TypeOK, Posting
  <2>2. u \in AllOpen <=> u \in OpenSuspense(u.key)
    BY <2>1 DEF AllOpen, OpenSuspense
  <2> QED BY <2>1, <2>2 DEF OpenSuspense
<1>5. ASSUME NEW u \in U, NEW v \in U, u.key = v.key, u.attempt = v.attempt
      PROVE  u = v
  <2>1. SameIndexEntry(u, v)
    BY <1>5 DEF SameIndexEntry
  <2> QED BY <2>1 DEF RowInv, UniqueRows
<1>6. ASSUME NEW u \in U, NEW r \in T, NEW q \in T, reverses(r, u), reverses(q, u)
      PROVE  r = q
  <2>1. SameIndexEntry(r, q)
    BY <1>6 DEF SameIndexEntry
  <2> QED BY <2>1 DEF RowInv, UniqueRows
<1>7. ASSUME NEW r \in T, r.kind = SUSPENSE_REVERSED
      PROVE  \E u \in U : reverses(r, u) /\ u.amount + r.amount = 0
  BY <1>7 DEF ReversalsMirror
<1>8. \A u \in U, r \in T : reverses(r, u) => u.amount + r.amount = 0 /\ r \notin U
  BY <1>5, <1>7 DEF UNVERIFIED, SUSPENSE_REVERSED
<1>9. U \in SUBSET T /\ rows(U) = T
  BY <1>7
<1> HIDE DEF T, U, reverses
<1>10. PICK f \in [T -> Int] : \A p \in T : f[p] = p.amount
  <2>1. [p \in T |-> p.amount] \in [T -> Int]
    BY <1>3
  <2> QED BY <2>1
<1>11. PICK h \in [AllOpen -> Int] : \A u \in AllOpen : h[u] = u.amount
  <2>1. [u \in AllOpen |-> u.amount] \in [AllOpen -> Int]
    BY <1>2, <1>3, <1>9
  <2> QED BY <2>1
<1>12. PICK F \in [SUBSET T -> Int] : Sums(f, F, T) /\ Paise(T) = F[T]
  BY <1>1, <1>10, PaiseAreSums
<1>13. PICK H \in [SUBSET AllOpen -> Int] :
         Sums(h, H, AllOpen) /\ Paise(AllOpen) = H[AllOpen]
  BY <1>2, <1>11, PaiseAreSums
<1>14. \A s \in SUBSET T : \A x \in s : F[s] = f[x] + F[s \ {x}]
  <2>1. IsFiniteSet(T) /\ f \in [T -> Int] /\ F \in [SUBSET T -> Int] /\ Sums(f, F, T)
    BY <1>1, <1>10, <1>12
  <2>2. AnyFirst(f, F, T)
    BY <2>1, SumOfRest
  <2> QED BY <2>2 DEF AnyFirst
<1>15. \A s \in SUBSET AllOpen : \A x \in s : H[s] = h[x] + H[s \ {x}]
  <2>1. /\ IsFiniteSet(AllOpen) /\ h \in [AllOpen -> Int]
        /\ H \in [SUBSET AllOpen -> Int] /\ Sums(h, H, AllOpen)
    BY <1>2, <1>11, <1>13
  <2>2. AnyFirst(h, H, AllOpen)
    BY <2>1, SumOfRest
  <2> QED BY <2>2 DEF AnyFirst
<1> DEFINE wrong == {V \in SUBSET U : F[rows(V)] # H[V \cap AllOpen]}
<1>16. wrong = {}
  <2> SUFFICES ASSUME wrong # {} PROVE FALSE
    OBVIOUS
  <2>1. PICK V \in wrong : \A u \in V : V \ {u} \notin wrong
    <3> HIDE DEF wrong
    <3>1. wrong \in SUBSET SUBSET U
      BY DEF wrong
    <3> QED BY <1>1, <3>1, SmallestSubset
  <2>2. V \in SUBSET U /\ F[rows(V)] # H[V \cap AllOpen]
    BY <2>1
  <2>3. V # {}
    <3> SUFFICES ASSUME V = {} PROVE FALSE
      OBVIOUS
    <3>1. rows(V) = {} /\ V \cap AllOpen = {}
      OBVIOUS
    <3>2. F[{}] = 0 /\ H[{}] = 0
      BY <1>12, <1>13, SumOfNothing
    <3> QED BY <2>2, <3>1, <3>2
  <2>4. PICK u \in V : TRUE
    BY <2>3
  <2> DEFINE W == V \ {u}
  <2>5. F[rows(W)] = H[W \cap AllOpen]
    <3>1. W \in SUBSET U /\ W \notin wrong
      BY <2>1, <2>2
    <3> QED BY <3>1
  <2>6. u \in U /\ u \in T /\ rows(V) \in SUBSET T /\ V \cap AllOpen \in SUBSET AllOpen
    BY <1>9, <2>2
  <2>7. u \in rows(V)
    OBVIOUS
  <2>8. F[rows(V)] = f[u] + F[rows(V) \ {u}]
    <3> HIDE DEF rows
    <3> QED BY <1>14, <2>6, <2>7
  <2>9. CASE u \in AllOpen
    <3>1. rows(V) \ {u} = rows(W)
      BY <1>4, <1>8, <1>9, <2>2, <2>6, <2>9
    <3>2. (V \cap AllOpen) \ {u} = W \cap AllOpen /\ u \in V \cap AllOpen
      BY <2>9
    <3>3. H[V \cap AllOpen] = h[u] + H[(V \cap AllOpen) \ {u}]
      BY <1>15, <2>6, <3>2
    <3>4. f[u] = h[u]
      BY <1>10, <1>11, <2>6, <2>9
    <3> HIDE DEF rows, W
    <3> QED BY <2>2, <2>5, <2>8, <3>1, <3>2, <3>3, <3>4
  <2>10. CASE u \notin AllOpen
    <3>1. PICK r \in T : reverses(r, u)
      BY <1>4, <2>6, <2>10
    <3>2. r \notin U /\ u.amount + r.amount = 0
      BY <1>8, <2>6, <3>1
    <3>3. \A v \in W : ~reverses(r, v)
      <4>1. ASSUME NEW v \in W, reverses(r, v) PROVE v = u
        <5>1. v \in U /\ v.key = u.key /\ v.attempt = u.attempt
          BY <2>2, <3>1, <4>1 DEF reverses
        <5> QED BY <1>5, <2>6, <5>1
      <4> QED BY <4>1
    <3>4. (rows(V) \ {u}) \ {r} = rows(W)
      <4>1. \A q \in T : reverses(q, u) => q = r
        BY <1>6, <2>6, <3>1
      <4>2. \A q \in T : (\E v \in V : reverses(q, v)) <=>
                           q = r \/ \E v \in W : reverses(q, v)
        BY <3>1, <4>1
      <4>3. r \notin V /\ \A v \in V : reverses(u, v) => FALSE
        BY <1>8, <2>2, <2>6, <3>2
      <4> HIDE DEF reverses
      <4> QED BY <3>3, <4>2, <4>3
    <3>5. r \in rows(V) \ {u} /\ rows(V) \ {u} \in SUBSET T
      BY <2>4, <2>6, <3>1, <3>2
    <3>6. F[rows(V) \ {u}] = f[r] + F[(rows(V) \ {u}) \ {r}]
      <4> HIDE DEF rows
      <4> QED BY <1>14, <3>5
    <3>7. f[u] = u.amount /\ f[r] = r.amount /\ f[u] \in Int /\ f[r] \in Int
      BY <1>10, <2>6, <3>1
    <3>8. V \cap AllOpen = W \cap AllOpen
      BY <2>10
    <3>9. F[rows(W)] \in Int
      <4>1. rows(W) \in SUBSET T
        BY <2>6
      <4> HIDE DEF rows
      <4> QED BY <4>1
    <3>10. F[rows(V)] = f[u] + (f[r] + F[rows(W)])
      <4> HIDE DEF rows, W
      <4> QED BY <2>8, <3>4, <3>6
    <3>11. f[u] + f[r] = 0
      BY <3>2, <3>7
    <3>12. F[rows(V)] = F[rows(W)]
      <4> HIDE DEF rows, W
      <4> QED BY <3>7, <3>9, <3>10, <3>11
    <3> QED BY <2>2, <2>5, <3>8, <3>12
  <2> QED BY <2>9, <2>10
<1>17. F[rows(U)] = H[U \cap AllOpen]
  <2> HIDE DEF rows
  <2> QED BY <1>16
<1>18. U \cap AllOpen = AllOpen
  BY <1>2
<1>19. Balance({UNVERIFIED, SUSPENSE_REVERSED}) = Paise(T)
  BY DEF Balance, T
<1> QED BY <1>9, <1>12, <1>13, <1>17, <1>18, <1>19

(* trial_balance() agrees with the calls (ledger.py:574-606): the accounts *)
(* are shared by all keys, and hold one amount per sold key and what the   *)
(* open attempts were booked for, whatever calls landed in whatever order. *)
THEOREM AccountsAgree == Spec => []TrialBalanceAgrees
<1>1. LedgerInv /\ RowInv /\ ReversalsMirror => TrialBalanceAgrees
  BY SalesAddUp, SuspenseAddsUp DEF TrialBalanceAgrees, SoldPaise
<1> QED BY <1>1, LedgerIsInvariant, RowsAreUnique, SuspenseIsMirrored, PTL
=============================================================================
