----------------------------- MODULE BooksProofs -----------------------------
(***************************************************************************)
(* Theorems about Books: whatever SQL anybody runs in whatever number of   *)
(* transactions at once, the triggers keep the postings whole, the missing *)
(* sales a report names were missing, and books that never were wrong are  *)
(* not said to be.                                                         *)
(***************************************************************************)
EXTENDS Books, FiniteSetTheorems, WellFoundedInduction, TLAPS

(* What a session sees of a posting nobody else may see.                   *)
OwnHeaders ==
  \A s \in Sessions, id \in Ids :
    tx[s].header[id].kind # "none" =>
      /\ header[id].kind = "none"
      /\ \A u \in Sessions : u # s => tx[u].header[id].kind = "none"

(* The foreign key, committed and not.                                     *)
LinesHaveHeaders ==
  /\ \A id \in Ids : header[id].kind = "none" => lines[id] = NoLines
  /\ \A s \in Sessions, id \in Ids :
       tx[s].lines[id] # NoLines => HeaderSeen(s, id).kind # "none"

IdleHoldsNothing == \A s \in Sessions : tx[s].pc = "idle" => tx[s] = NoTx

NewPostingsAreChecked ==
  triggers = Triggers =>
    \A s \in Sessions, id \in Ids :
      tx[s].pc = "checked" /\ tx[s].header[id].kind # "none" =>
        Whole(tx[s].header[id], tx[s].lines[id])

(* The lock of a key, and that COMPLETED is final.                         *)
OneTransactionPerKey ==
  \A s, u \in Sessions : s # u /\ tx[s].key = tx[u].key => tx[s].key = NoKey

CompletedIsFinal ==
  \A s \in Sessions : tx[s].key \in Keys /\ status[tx[s].key] = "COMPLETED" =>
                        tx[s].status = "COMPLETED"

ReportIsTrue ==
  /\ report.pc = "half" => \A k \in report.completed : status[k] = "COMPLETED"
  /\ report.pc = "compared" => MissingSale \subseteq report.gaps

RowInv == OwnHeaders /\ LinesHaveHeaders /\ IdleHoldsNothing /\ NewPostingsAreChecked
KeyInv == OneTransactionPerKey /\ CompletedIsFinal /\ ReportIsTrue

-----------------------------------------------------------------------------
(* Lines.                                                                  *)

(* No line added changes nothing.                                          *)
LEMMA PlusNothing ==
  ASSUME NEW l \in Lines
  PROVE  Plus(l, NoLines) = l /\ Plus(NoLines, l) = l
BY DEF Plus, Lines, NoLines

(* Lines of two transactions make lines.                                   *)
LEMMA PlusType ==
  ASSUME NEW a \in Lines, NEW b \in Lines
  PROVE  Plus(a, b) \in Lines
BY DEF Plus, Lines

(* A transaction that has just begun holds well-formed rows.               *)
LEMMA NoTxType == NoTx \in Tx /\ NoTx.pc = "idle"
<1>1. NoHeader \in Header
  BY DEF NoHeader, Header
<1>2. NoLines \in Lines
  BY DEF NoLines, Lines
<1> QED
  BY <1>1, <1>2 DEF NoTx, Tx, Statuses

(* _insert() keeps a transaction well-formed.                              *)
LEMMA InsertType ==
  ASSUME NEW t \in Tx, NEW id \in Ids, NEW kind \in KINDS, NEW k \in Keys,
         NEW count \in {0, 2}
  PROVE  Insert(t, id, kind, k, count) \in Tx
<1>1. count \in Nat /\ count \div 2 \in Nat
  OBVIOUS
<1>2. [kind |-> kind, key |-> k, declared |-> count] \in Header
  BY <1>1 DEF Header
<1>3. [clearing |-> count \div 2, revenue |-> count \div 2] \in Lines
  BY <1>1 DEF Lines
<1> QED
  BY <1>2, <1>3 DEF Insert, Tx

-----------------------------------------------------------------------------
(* What a transaction of the application begins with.                      *)

(* Rows only under ids nobody has drawn, lines only where a header is.     *)
BeginsFresh(t) ==
  /\ t \in Tx
  /\ \A id \in Ids : t.header[id].kind # "none" => id \in Fresh
  /\ \A id \in Ids : t.lines[id] # NoLines => t.header[id].kind # "none"

(* _insert() under a drawn id leaves it so.                                *)
LEMMA InsertIsFresh ==
  ASSUME NEW t, BeginsFresh(t), NEW id \in Fresh, NEW kind \in KINDS, NEW k \in Keys,
         NEW count \in {0, 2}
  PROVE  BeginsFresh(Insert(t, id, kind, k, count))
<1>0. id \in Ids /\ kind # "none"
  BY DEF Fresh, KINDS
<1>1. Insert(t, id, kind, k, count) \in Tx
  BY <1>0, InsertType DEF BeginsFresh
<1> QED
  BY <1>0, <1>1 DEF Insert, BeginsFresh, Tx

(* An empty transaction is so.                                             *)
LEMMA NoTxIsFresh == BeginsFresh(NoTx)
BY NoTxType DEF BeginsFresh, NoTx, NoHeader, NoLines

(* So is one that mirrors open suspense.                                   *)
LEMMA ReversedIsFresh ==
  ASSUME NEW k \in Keys, NEW id \in Fresh
  PROVE  BeginsFresh(Reversed(k, id))
BY NoTxIsFresh, InsertIsFresh DEF Reversed, KINDS

(* What an operation of the application does: nothing to the tables yet.   *)
AppBegins(w, k) ==
  /\ tx[w].pc = "idle" /\ Unlocked(k)
  /\ \E t : /\ BeginsFresh(t)
            /\ \E becomes \in Statuses :
                 /\ status[k] = "COMPLETED" => becomes = "COMPLETED"
                 /\ Begins(w, k, becomes, t)
  /\ UNCHANGED <<rowVars, status, triggers, report>>

(* Each operation begins a transaction like that, and keeps COMPLETED.    *)
LEMMA OperationsBegin ==
  ASSUME NEW w \in Writers, NEW k \in Keys,
         Complete(w, k) \/ Freeze(w, k) \/ ReleaseFrozen(w, k)
  PROVE  AppBegins(w, k)
<1>1. CASE Complete(w, k)
  <2>1. CASE ~HasSale(k) /\ \E id, rid \in Fresh :
               id # rid /\ Begins(w, k, "COMPLETED", Insert(Reversed(k, rid), id, "SALE", k, 2))
    <3>1. PICK id \in Fresh, rid \in Fresh :
                 Begins(w, k, "COMPLETED", Insert(Reversed(k, rid), id, "SALE", k, 2))
      BY <2>1
    <3>2. BeginsFresh(Insert(Reversed(k, rid), id, "SALE", k, 2))
      BY ReversedIsFresh, InsertIsFresh DEF KINDS
    <3> QED
      BY <1>1, <3>1, <3>2 DEF AppBegins, Complete, Statuses
  <2>2. CASE Begins(w, k, "COMPLETED", NoTx)
    BY <1>1, <2>2, NoTxIsFresh DEF AppBegins, Complete, Statuses
  <2> QED
    BY <1>1, <2>1, <2>2 DEF Complete
<1>2. CASE Freeze(w, k)
  <2>1. PICK id \in Fresh :
               Begins(w, k, "PENDING_VERIFICATION", Insert(NoTx, id, "UNVERIFIED", k, 2))
    BY <1>2 DEF Freeze
  <2>2. BeginsFresh(Insert(NoTx, id, "UNVERIFIED", k, 2))
    BY NoTxIsFresh, InsertIsFresh DEF KINDS
  <2> QED
    BY <1>2, <2>1, <2>2 DEF AppBegins, Freeze, Statuses
<1>3. CASE ReleaseFrozen(w, k)
  <2>1. PICK id \in Fresh, rid \in Fresh :
               Begins(w, k, "FAILED", Insert(Reversed(k, rid), id, "RESOLVED", k, 0))
    BY <1>3 DEF ReleaseFrozen
  <2>2. BeginsFresh(Insert(Reversed(k, rid), id, "RESOLVED", k, 0))
    BY ReversedIsFresh, InsertIsFresh DEF KINDS
  <2> QED
    BY <1>3, <2>1, <2>2 DEF AppBegins, ReleaseFrozen, Statuses
<1> QED
  BY <1>1, <1>2, <1>3
-----------------------------------------------------------------------------
(* Types.                                                                  *)

(* What the view does leaves everything else alone and the report typed.   *)
LEMMA ViewType ==
  ASSUME TypeOK, View
  PROVE  report' \in Report /\ UNCHANGED <<rowVars, status, triggers, tx>>
<1>1. CASE TrialBalance \/ VerifyRows \/ VerifyTotals
  BY <1>1 DEF TypeOK, TrialBalance, VerifyRows, VerifyTotals, Adds, Reads, Report
<1>2. CASE ReadRecords \/ ReadSales
  <2>1. /\ Order.records[1] = "idle" /\ Order.records[2] = "half"
        /\ Order.sales[1] = "half" /\ Order.sales[2] = "compared"
    BY DEF Order
  <2>2. GapsNow \subseteq Keys
    BY DEF GapsNow
  <2>3. report \in Report
    BY DEF TypeOK
  <2> DEFINE C == {k \in Keys : status[k] = "COMPLETED"}
             U == {k \in Keys : ~HasSale(k)}
             G == report.gaps \cup GapsNow
  <2>4. C \subseteq Keys /\ U \subseteq Keys /\ G \subseteq Keys
    BY <2>2, <2>3 DEF Report
  <2>5. CASE ReadRecords
    <3>1. report' = [[report EXCEPT !.completed = C, !.gaps = G] EXCEPT !.pc = "half"]
      BY <2>1, <2>5 DEF ReadRecords, Reads
    <3> HIDE DEF C, G
    <3>2. report' \in Report
      BY <2>3, <2>4, <3>1 DEF Report
    <3> QED
      BY <2>5, <3>2 DEF ReadRecords, Reads
  <2>6. CASE ReadSales
    <3>1. report' = [[report EXCEPT !.unsold = U, !.gaps = G] EXCEPT !.pc = "compared"]
      BY <2>1, <2>6 DEF ReadSales, Reads
    <3> HIDE DEF U, G
    <3>2. report' \in Report
      BY <2>3, <2>4, <3>1 DEF Report
    <3> QED
      BY <2>6, <3>2 DEF ReadSales, Reads
  <2> QED
    BY <1>2, <2>5, <2>6
<1>3. CASE Answer
  BY <1>3 DEF Answer, NoReport, Report
<1> QED
  BY <1>1, <1>2, <1>3 DEF View

(* Every variable keeps its type, whatever the number of sessions.         *)
THEOREM TypeCorrect == Spec => []TypeOK
<1>1. Init => TypeOK
  <2> SUFFICES ASSUME Init PROVE TypeOK
    OBVIOUS
  <2>1. NoHeader \in Header /\ NoLines \in Lines
    BY DEF NoHeader, Header, NoLines, Lines
  <2> QED
    BY <2>1, NoTxType DEF Init, TypeOK, Triggers, NoReport, Report, Statuses
<1>2. TypeOK /\ [Next]_vars => TypeOK'
  <2> SUFFICES ASSUME TypeOK, [Next]_vars PROVE TypeOK'
    OBVIOUS
  <2> USE BooksAssumption DEF TypeOK
  <2>1. ASSUME NEW k \in Keys, Claim(k) \/ Fail(k) PROVE TypeOK'
    BY <2>1 DEF Claim, Fail, rowVars, Statuses
  <2>2. ASSUME NEW k \in Keys, NEW w \in Writers,
               Complete(w, k) \/ Freeze(w, k) \/ ReleaseFrozen(w, k)
        PROVE  TypeOK'
    <3>1. AppBegins(w, k)
      BY <2>2, OperationsBegin
    <3>2. PICK t : BeginsFresh(t) /\ \E becomes \in Statuses : Begins(w, k, becomes, t)
      BY <3>1 DEF AppBegins
    <3>3. PICK becomes \in Statuses : Begins(w, k, becomes, t)
      BY <3>2
    <3>4. [t EXCEPT !.pc = "open", !.key = k, !.status = becomes] \in Tx
      BY <3>2 DEF BeginsFresh, Tx
    <3> QED
      BY <3>1, <3>3, <3>4 DEF AppBegins, Begins, rowVars, Sessions
  <2>3. ASSUME NEW o \in Outsiders, RawHeader(o) PROVE TypeOK'
    <3>1. PICK id \in Fresh, n \in LineCounts :
            tx' = [tx EXCEPT ![o].pc = "open",
                             ![o].header[id] = [kind |-> IF n = 0 THEN "RESOLVED" ELSE "SALE",
                                                key |-> NoKey, declared |-> n]]
      BY <2>3 DEF RawHeader
    <3>2. [kind |-> IF n = 0 THEN "RESOLVED" ELSE "SALE", key |-> NoKey, declared |-> n] \in Header
      BY DEF Header, KINDS
    <3>3. tx' \in [Sessions -> Tx]
      BY <3>1, <3>2 DEF Tx, Sessions, Fresh
    <3> QED
      BY <2>3, <3>3 DEF RawHeader, rowVars
  <2>4. ASSUME NEW o \in Outsiders, RawLine(o) PROVE TypeOK'
    <3>1. PICK id \in Ids, line \in OneLine :
            tx' = [tx EXCEPT ![o].pc = "open", ![o].lines[id] = Plus(tx[o].lines[id], line)]
      BY <2>4 DEF RawLine
    <3>2. Plus(tx[o].lines[id], line) \in Lines
      <4>1. line \in Lines /\ tx[o].lines[id] \in Lines
        BY DEF OneLine, Lines, Sessions, Tx
      <4> QED
        BY <4>1, PlusType
    <3> DEFINE more == [tx[o].lines EXCEPT ![id] = Plus(tx[o].lines[id], line)]
               t == [tx[o] EXCEPT !.pc = "open", !.lines = more]
    <3>3. o \in Sessions /\ tx[o] \in Tx
      BY DEF Sessions
    <3>4. more \in [Ids -> Lines]
      BY <3>2, <3>3 DEF Tx
    <3>5. tx' = [tx EXCEPT ![o] = t]
      BY <3>1, <3>3
    <3> HIDE DEF more
    <3>6. t \in Tx
      BY <3>3, <3>4 DEF Tx
    <3> QED
      BY <2>4, <3>3, <3>5, <3>6 DEF RawLine, rowVars
  <2>5. ASSUME NEW o \in Outsiders, RawEdit(o) PROVE TypeOK'
    <3>1. {NoLines} \cup OneLine \subseteq Lines
      BY DEF NoLines, OneLine, Lines
    <3> QED
      BY <2>5, <3>1 DEF RawEdit, Committed
  <2>6. ASSUME NEW s \in Sessions, CheckPostings(s) PROVE TypeOK'
    BY <2>6 DEF CheckPostings, Tx, rowVars
  <2>7. ASSUME NEW s \in Sessions, Commit(s) PROVE TypeOK'
    <3>1. \A id \in Ids : HeaderSeen(s, id) \in Header /\ LinesSeen(s, id) \in Lines
      <4> TAKE id \in Ids
      <4>1. tx[s].header[id] \in Header /\ tx[s].lines[id] \in Lines
        BY DEF Tx
      <4> QED
        BY <4>1, PlusType DEF HeaderSeen, LinesSeen
    <3>2. tx[s].status \in Statuses
      BY DEF Tx
    <3> QED
      BY <2>7, <3>1, <3>2, NoTxType DEF Commit
  <2>8. ASSUME NEW s \in Sessions, RollBack(s) PROVE TypeOK'
    BY <2>8, NoTxType DEF RollBack, rowVars
  <2>9. CASE DropTriggers \/ ApplySchema
    BY <2>9 DEF DropTriggers, ApplySchema, rowVars
  <2>10. CASE View
    BY <2>10, ViewType DEF rowVars
  <2>11. CASE UNCHANGED vars
    BY <2>11 DEF vars, rowVars
  <2> QED
    BY <2>1, <2>2, <2>3, <2>4, <2>5, <2>6, <2>7, <2>8, <2>9, <2>10, <2>11 DEF Next, Purchase
<1> QED
  BY <1>1, <1>2, PTL DEF Spec

-----------------------------------------------------------------------------
(* The rows.                                                               *)

(* Nothing is written and nobody has begun.                                *)
LEMMA RowInvInit == Init => RowInv
BY NoTxType DEF Init, RowInv, OwnHeaders, LinesHaveHeaders, IdleHoldsNothing,
                NewPostingsAreChecked, NoTx, NoHeader, NoLines

(* A transaction that begins draws ids nobody has.                         *)
LEMMA RowInvBegin ==
  ASSUME TypeOK, RowInv, NEW w \in Writers, NEW k \in Keys, AppBegins(w, k)
  PROVE  RowInv'
<1>1. PICK t : BeginsFresh(t) /\ \E becomes \in Statuses : Begins(w, k, becomes, t)
  BY DEF AppBegins
<1>2. PICK becomes \in Statuses : Begins(w, k, becomes, t)
  BY <1>1
<1> DEFINE b == [t EXCEPT !.pc = "open", !.key = k, !.status = becomes]
<1>3. /\ w \in Sessions /\ tx' = [tx EXCEPT ![w] = b]
      /\ b.pc = "open" /\ b.header = t.header /\ b.lines = t.lines
      /\ header' = header /\ lines' = lines /\ triggers' = triggers
  BY <1>1, <1>2 DEF AppBegins, Begins, BeginsFresh, Tx, Sessions, rowVars
<1>4. \A id \in Ids : b.header[id].kind # "none" =>
          header[id].kind = "none" /\ \A s \in Sessions : tx[s].header[id].kind = "none"
  BY <1>1, <1>3 DEF BeginsFresh, Fresh, Committed
<1>5. \A id \in Ids : b.lines[id] # NoLines => b.header[id].kind # "none"
  BY <1>1, <1>3 DEF BeginsFresh
<1> HIDE DEF b
<1>6. \A s \in Sessions : tx'[s] = IF s = w THEN b ELSE tx[s]
  BY <1>3 DEF TypeOK
<1>7. OwnHeaders'
  BY <1>3, <1>4, <1>6 DEF RowInv, OwnHeaders
<1>8. LinesHaveHeaders'
  BY <1>3, <1>5, <1>6 DEF RowInv, LinesHaveHeaders, HeaderSeen
<1>9. IdleHoldsNothing' /\ NewPostingsAreChecked'
  BY <1>3, <1>6 DEF RowInv, IdleHoldsNothing, NewPostingsAreChecked
<1> QED
  BY <1>7, <1>8, <1>9 DEF RowInv

(* A header an outsider inserts.                                           *)
LEMMA RowInvHeader ==
  ASSUME TypeOK, RowInv, NEW o \in Outsiders, RawHeader(o)
  PROVE  RowInv'
<1>1. PICK i \in Fresh, n \in LineCounts :
        tx' = [tx EXCEPT ![o].pc = "open",
                         ![o].header[i] = [kind |-> IF n = 0 THEN "RESOLVED" ELSE "SALE",
                                           key |-> NoKey, declared |-> n]]
  BY DEF RawHeader
<1> DEFINE h == [kind |-> IF n = 0 THEN "RESOLVED" ELSE "SALE", key |-> NoKey, declared |-> n]
<1>2. /\ o \in Sessions /\ i \in Ids /\ h.kind # "none"
      /\ header' = header /\ lines' = lines /\ triggers' = triggers
  BY DEF RawHeader, Sessions, Fresh, rowVars
<1>3. header[i].kind = "none" /\ \A s \in Sessions : tx[s].header[i].kind = "none"
  BY <1>1 DEF Fresh, Committed
<1> HIDE DEF h
<1>4. /\ \A s \in Sessions : tx'[s].lines = tx[s].lines
      /\ \A s \in Sessions \ {o} : tx'[s] = tx[s]
      /\ tx'[o].pc = "open"
      /\ \A id \in Ids : tx'[o].header[id] = IF id = i THEN h ELSE tx[o].header[id]
  BY <1>1, <1>2 DEF TypeOK, Tx, h
<1>5. OwnHeaders'
  BY <1>2, <1>3, <1>4 DEF RowInv, OwnHeaders
<1>6. LinesHaveHeaders'
  BY <1>2, <1>3, <1>4 DEF RowInv, LinesHaveHeaders, HeaderSeen
<1>7. IdleHoldsNothing' /\ NewPostingsAreChecked'
  BY <1>2, <1>4 DEF RowInv, IdleHoldsNothing, NewPostingsAreChecked
<1> QED
  BY <1>5, <1>6, <1>7 DEF RowInv

(* What an inserted line changes: one posting as its session sees it.      *)
LEMMA LineInserted ==
  ASSUME TypeOK, NEW o \in Outsiders, RawLine(o)
  PROVE  \E i \in Ids :
           /\ HeaderSeen(o, i).kind # "none"
           /\ CLOSED \in triggers => HasRoom(o, i)
           /\ \A s \in Sessions : tx'[s].header = tx[s].header
           /\ \A s \in Sessions \ {o} : tx'[s] = tx[s]
           /\ tx'[o].pc = "open"
           /\ \A id \in Ids \ {i} : tx'[o].lines[id] = tx[o].lines[id]
<1>1. PICK i \in Ids, line \in OneLine :
        /\ HeaderSeen(o, i).kind # "none"
        /\ CLOSED \in triggers => HasRoom(o, i)
        /\ tx' = [tx EXCEPT ![o].pc = "open", ![o].lines[i] = Plus(tx[o].lines[i], line)]
  BY DEF RawLine
<1> DEFINE l == Plus(tx[o].lines[i], line)
<1> HIDE DEF l
<1>2. tx' = [tx EXCEPT ![o].pc = "open", ![o].lines[i] = l]
  BY <1>1 DEF l
<1>3. /\ \A s \in Sessions : tx'[s].header = tx[s].header
      /\ \A s \in Sessions \ {o} : tx'[s] = tx[s]
      /\ tx'[o].pc = "open"
      /\ \A id \in Ids \ {i} : tx'[o].lines[id] = tx[o].lines[id]
  BY <1>2 DEF TypeOK, Tx, Sessions
<1> QED
  BY <1>1, <1>3

(* A line an outsider inserts.                                             *)
LEMMA RowInvLine ==
  ASSUME TypeOK, RowInv, NEW o \in Outsiders, RawLine(o)
  PROVE  RowInv'
<1>1. PICK i \in Ids :
           /\ HeaderSeen(o, i).kind # "none"
           /\ \A s \in Sessions : tx'[s].header = tx[s].header
           /\ \A s \in Sessions \ {o} : tx'[s] = tx[s]
           /\ tx'[o].pc = "open"
           /\ \A id \in Ids \ {i} : tx'[o].lines[id] = tx[o].lines[id]
  BY LineInserted
<1>2. o \in Sessions /\ header' = header /\ lines' = lines /\ triggers' = triggers
  BY DEF RawLine, Sessions, rowVars
<1>3. OwnHeaders'
  BY <1>1, <1>2 DEF RowInv, OwnHeaders
<1>4. LinesHaveHeaders'
  BY <1>1, <1>2 DEF RowInv, LinesHaveHeaders, HeaderSeen
<1>5. IdleHoldsNothing' /\ NewPostingsAreChecked'
  BY <1>1, <1>2 DEF RowInv, IdleHoldsNothing, NewPostingsAreChecked
<1> QED
  BY <1>3, <1>4, <1>5 DEF RowInv

(* The deferred triggers see of a new posting all its lines.               *)
LEMMA RowInvCheck ==
  ASSUME TypeOK, RowInv, NEW s \in Sessions, CheckPostings(s)
  PROVE  RowInv'
<1>1. /\ \A u \in Sessions : tx'[u].header = tx[u].header /\ tx'[u].lines = tx[u].lines
      /\ \A u \in Sessions \ {s} : tx'[u] = tx[u]
      /\ tx'[s].pc = "checked"
      /\ header' = header /\ lines' = lines /\ triggers' = triggers
  BY DEF CheckPostings, TypeOK, Tx, rowVars
<1>2. ASSUME triggers = Triggers, NEW id \in Ids, tx[s].header[id].kind # "none"
      PROVE  Whole(tx[s].header[id], tx[s].lines[id])
  <2>1. id \in Touched(s)
    BY <1>2 DEF Touched, Triggers
  <2>2. Whole(HeaderSeen(s, id), LinesSeen(s, id))
    BY <2>1 DEF CheckPostings
  <2>3. lines[id] = NoLines /\ HeaderSeen(s, id) = tx[s].header[id]
    BY <1>2 DEF RowInv, OwnHeaders, LinesHaveHeaders, HeaderSeen
  <2>4. LinesSeen(s, id) = tx[s].lines[id]
    <3>1. tx[s].lines[id] \in Lines
      BY DEF TypeOK, Tx
    <3> QED
      BY <2>3, <3>1, PlusNothing DEF LinesSeen
  <2> QED
    BY <2>2, <2>3, <2>4
<1>3. OwnHeaders' /\ LinesHaveHeaders'
  BY <1>1 DEF RowInv, OwnHeaders, LinesHaveHeaders, HeaderSeen
<1>4. IdleHoldsNothing' /\ NewPostingsAreChecked'
  BY <1>1, <1>2 DEF RowInv, IdleHoldsNothing, NewPostingsAreChecked
<1> QED
  BY <1>3, <1>4 DEF RowInv

(* What a commit makes of a posting.                                       *)
LEMMA Committing ==
  ASSUME TypeOK, RowInv, NEW s \in Sessions, Commit(s), NEW id \in Ids
  PROVE  /\ header[id].kind # "none" => header'[id] = header[id]
         /\ tx[s].header[id].kind # "none" =>
              header'[id] = tx[s].header[id] /\ lines'[id] = tx[s].lines[id]
         /\ tx[s].lines[id] = NoLines => lines'[id] = lines[id]
         /\ header'[id].kind = "none" => header[id].kind = "none" /\ lines'[id] = NoLines
<1>1. header'[id] = HeaderSeen(s, id) /\ lines'[id] = Plus(lines[id], tx[s].lines[id])
  BY DEF Commit, LinesSeen
<1>2. tx[s].lines[id] \in Lines /\ lines[id] \in Lines
  BY DEF TypeOK, Tx
<1>3. header[id].kind # "none" => header'[id] = header[id]
  BY <1>1 DEF HeaderSeen, RowInv, OwnHeaders
<1>4. tx[s].header[id].kind # "none" =>
        header'[id] = tx[s].header[id] /\ lines'[id] = tx[s].lines[id]
  BY <1>1, <1>2, PlusNothing DEF HeaderSeen, RowInv, OwnHeaders, LinesHaveHeaders
<1>5. tx[s].lines[id] = NoLines => lines'[id] = lines[id]
  BY <1>1, <1>2, PlusNothing
<1>6. header'[id].kind = "none" => header[id].kind = "none" /\ lines'[id] = NoLines
  BY <1>1, <1>5 DEF HeaderSeen, RowInv, LinesHaveHeaders
<1> QED
  BY <1>3, <1>4, <1>5, <1>6

(* A commit.                                                               *)
LEMMA RowInvCommit ==
  ASSUME TypeOK, RowInv, NEW s \in Sessions, Commit(s)
  PROVE  RowInv'
<1>1. /\ \A u \in Sessions \ {s} : tx'[u] = tx[u]
      /\ tx'[s] = NoTx /\ triggers' = triggers
  BY DEF Commit, TypeOK
<1>2. NoTx.pc = "idle" /\ \A id \in Ids : NoTx.header[id].kind = "none" /\ NoTx.lines[id] = NoLines
  BY DEF NoTx, NoHeader
<1>3. OwnHeaders'
  <2>1. \A u \in Sessions \ {s}, id \in Ids :
          tx[u].header[id].kind # "none" => header'[id].kind = "none"
    BY DEF Commit, HeaderSeen, RowInv, OwnHeaders
  <2> QED
    BY <1>1, <1>2, <2>1 DEF RowInv, OwnHeaders
<1>4. LinesHaveHeaders'
  <2>1. \A id \in Ids : header'[id].kind = "none" => lines'[id] = NoLines
    BY Committing
  <2>2. ASSUME NEW u \in Sessions \ {s}, NEW id \in Ids, tx[u].lines[id] # NoLines
        PROVE  HeaderSeen(u, id)'.kind # "none"
    BY <1>1, <2>2, Committing DEF HeaderSeen, RowInv, LinesHaveHeaders
  <2> QED
    BY <1>1, <1>2, <2>1, <2>2 DEF LinesHaveHeaders
<1>5. IdleHoldsNothing' /\ NewPostingsAreChecked'
  BY <1>1, <1>2 DEF RowInv, IdleHoldsNothing, NewPostingsAreChecked
<1> QED
  BY <1>3, <1>4, <1>5 DEF RowInv

(* A rollback.                                                             *)
LEMMA RowInvRollBack ==
  ASSUME TypeOK, RowInv, NEW s \in Sessions, RollBack(s)
  PROVE  RowInv'
<1>1. /\ \A u \in Sessions \ {s} : tx'[u] = tx[u]
      /\ tx'[s] = NoTx
      /\ header' = header /\ lines' = lines /\ triggers' = triggers
  BY DEF RollBack, TypeOK, rowVars
<1>2. NoTx.pc = "idle" /\ \A id \in Ids : NoTx.header[id].kind = "none" /\ NoTx.lines[id] = NoLines
  BY DEF NoTx, NoHeader
<1> QED
  BY <1>1, <1>2 DEF RowInv, OwnHeaders, LinesHaveHeaders, IdleHoldsNothing,
                    NewPostingsAreChecked, HeaderSeen

(* The triggers, edits of lines, and all that leaves the rows alone.       *)
LEMMA RowInvRest ==
  ASSUME TypeOK, RowInv,
         \/ \E o \in Outsiders : RawEdit(o)
         \/ DropTriggers \/ ApplySchema \/ View \/ UNCHANGED vars
         \/ \E k \in Keys : Claim(k) \/ Fail(k)
  PROVE  RowInv'
<1>1. ASSUME NEW o \in Outsiders, RawEdit(o) PROVE RowInv'
  <2>1. PICK i \in Committed, l \in Lines \cup {NoLines} \cup OneLine : lines' = [lines EXCEPT ![i] = l]
    BY <1>1 DEF RawEdit
  <2>2. \A id \in Ids : header[id].kind = "none" => lines'[id] = lines[id]
    BY <2>1 DEF Committed, TypeOK
  <2> QED
    BY <1>1, <2>2 DEF RawEdit, RowInv, OwnHeaders, LinesHaveHeaders, IdleHoldsNothing,
                      NewPostingsAreChecked, HeaderSeen
<1>2. CASE DropTriggers \/ ApplySchema
  BY <1>2 DEF DropTriggers, ApplySchema, Quiet, rowVars, RowInv, OwnHeaders, LinesHaveHeaders,
              IdleHoldsNothing, NewPostingsAreChecked, HeaderSeen
<1>3. CASE header' = header /\ lines' = lines /\ tx' = tx /\ triggers' = triggers
  BY <1>3 DEF RowInv, OwnHeaders, LinesHaveHeaders, IdleHoldsNothing,
              NewPostingsAreChecked, HeaderSeen
<1>4. View => header' = header /\ lines' = lines /\ tx' = tx /\ triggers' = triggers
  BY ViewType DEF rowVars
<1>5. UNCHANGED vars => header' = header /\ lines' = lines /\ tx' = tx /\ triggers' = triggers
  BY DEF vars, rowVars
<1>6. ASSUME NEW k \in Keys, Claim(k) \/ Fail(k)
      PROVE  header' = header /\ lines' = lines /\ tx' = tx /\ triggers' = triggers
  BY <1>6 DEF Claim, Fail, rowVars
<1> QED
  BY <1>1, <1>2, <1>3, <1>4, <1>5, <1>6

(* What every session holds agrees with the tables in every state.         *)
THEOREM RowsAgree == Spec => []RowInv
<1>1. TypeOK /\ RowInv /\ [Next]_vars => RowInv'
  <2> SUFFICES ASSUME TypeOK, RowInv, [Next]_vars PROVE RowInv'
    OBVIOUS
  <2>1. ASSUME NEW k \in Keys, NEW w \in Writers,
               Complete(w, k) \/ Freeze(w, k) \/ ReleaseFrozen(w, k)
        PROVE  RowInv'
    BY <2>1, OperationsBegin, RowInvBegin
  <2>2. ASSUME NEW o \in Outsiders, RawHeader(o) \/ RawLine(o) PROVE RowInv'
    BY <2>2, RowInvHeader, RowInvLine
  <2>3. ASSUME NEW s \in Sessions, CheckPostings(s) \/ Commit(s) \/ RollBack(s) PROVE RowInv'
    BY <2>3, RowInvCheck, RowInvCommit, RowInvRollBack
  <2> QED
    BY <2>1, <2>2, <2>3, RowInvRest DEF Next, Purchase
<1> QED
  BY <1>1, RowInvInit, TypeCorrect, PTL DEF Spec

(* What TriggersKeepPostingsWhole says of one step.                        *)
KeepsPostingsWhole ==
  triggers = Triggers =>
    \A id \in Ids : (id \in Committed => Settled(id)) /\ id \in Committed' => Settled(id)'

(* A committed posting and its lines are left alone.                       *)
LEMMA StaysSettled ==
  ASSUME NEW id \in Ids, Settled(id), header'[id] = header[id], lines'[id] = lines[id],
         \A s \in Sessions : tx'[s].lines[id] = NoLines
  PROVE  Settled(id)'
BY DEF Settled, WholeNow

(* Every step keeps them whole.                                            *)
LEMMA StepKeepsPostingsWhole ==
  ASSUME TypeOK, RowInv, [Next]_vars
  PROVE  KeepsPostingsWhole
<1> SUFFICES ASSUME triggers = Triggers, NEW id \in Ids, id \in Committed',
                    id \in Committed => Settled(id)
             PROVE  Settled(id)'
  BY DEF KeepsPostingsWhole
<1>1. CASE header' = header /\ lines' = lines /\ tx' = tx
  BY <1>1, StaysSettled DEF Committed, Settled
<1>2. ASSUME NEW k \in Keys, NEW w \in Writers,
             Complete(w, k) \/ Freeze(w, k) \/ ReleaseFrozen(w, k)
      PROVE  Settled(id)'
  <2>1. AppBegins(w, k)
    BY <1>2, OperationsBegin
  <2>2. PICK t : BeginsFresh(t) /\ \E becomes \in Statuses : Begins(w, k, becomes, t)
    BY <2>1 DEF AppBegins
  <2>3. header' = header /\ lines' = lines /\ id \in Committed
    BY <2>1 DEF AppBegins, rowVars, Committed
  <2>4. t.lines[id] = NoLines
    BY <2>2, <2>3 DEF BeginsFresh, Fresh
  <2>5. \A s \in Sessions : tx'[s].lines[id] = NoLines
    BY <2>2, <2>3, <2>4 DEF Begins, BeginsFresh, Tx, Settled, TypeOK, Sessions
  <2> QED
    BY <2>3, <2>5, StaysSettled
<1>3. ASSUME NEW o \in Outsiders, RawHeader(o) PROVE Settled(id)'
  <2>1. header' = header /\ lines' = lines /\ id \in Committed
    BY <1>3 DEF RawHeader, rowVars, Committed
  <2>2. \A s \in Sessions : tx'[s].lines = tx[s].lines
    BY <1>3 DEF RawHeader, TypeOK, Tx, Sessions
  <2> QED
    BY <2>1, <2>2, StaysSettled DEF Settled
<1>4. ASSUME NEW o \in Outsiders, RawLine(o) PROVE Settled(id)'
  <2>1. header' = header /\ lines' = lines /\ id \in Committed /\ o \in Sessions
    BY <1>4 DEF RawLine, rowVars, Committed, Sessions
  <2>2. PICK i \in Ids :
           /\ HasRoom(o, i)
           /\ \A s \in Sessions \ {o} : tx'[s] = tx[s]
           /\ \A j \in Ids \ {i} : tx'[o].lines[j] = tx[o].lines[j]
    BY <1>4, LineInserted DEF Triggers
  <2>3. ~HasRoom(o, id)
    <3>1. tx[o].lines[id] = NoLines /\ Whole(header[id], lines[id])
      BY <2>1 DEF Settled, WholeNow
    <3>2. HeaderSeen(o, id) = header[id]
      BY <2>1 DEF RowInv, OwnHeaders, HeaderSeen, Committed
    <3>3. LinesSeen(o, id) = lines[id]
      BY <3>1, PlusNothing DEF LinesSeen, TypeOK
    <3>4. Count(lines[id]) = header[id].declared /\ Count(lines[id]) \in Nat
      BY <3>1 DEF Whole, Count, TypeOK, Lines
    <3> QED
      BY <3>2, <3>3, <3>4 DEF HasRoom
  <2>4. \A s \in Sessions : tx'[s].lines[id] = NoLines
    BY <2>1, <2>2, <2>3 DEF Settled
  <2> QED
    BY <2>1, <2>4, StaysSettled
<1>5. ASSUME NEW s \in Sessions, CheckPostings(s) \/ RollBack(s) PROVE Settled(id)'
  <2>1. header' = header /\ lines' = lines /\ id \in Committed
    BY <1>5 DEF CheckPostings, RollBack, rowVars, Committed
  <2>2. \A u \in Sessions : tx'[u].lines[id] = NoLines
    <3>1. CASE CheckPostings(s)
      <4>1. \A u \in Sessions : tx'[u].lines = tx[u].lines
        BY <3>1 DEF CheckPostings, TypeOK, Tx
      <4> QED
        BY <2>1, <4>1 DEF Settled
    <3>2. CASE RollBack(s)
      <4>1. \A u \in Sessions : tx'[u] = IF u = s THEN NoTx ELSE tx[u]
        BY <3>2 DEF RollBack, TypeOK
      <4>2. NoTx.lines[id] = NoLines
        BY DEF NoTx
      <4> QED
        BY <2>1, <4>1, <4>2 DEF Settled
    <3> QED
      BY <1>5, <3>1, <3>2
  <2> QED
    BY <2>1, <2>2, StaysSettled
<1>6. ASSUME NEW s \in Sessions, Commit(s) PROVE Settled(id)'
  <2>1. \A u \in Sessions : tx'[u] = IF u = s THEN NoTx ELSE tx[u]
    BY <1>6 DEF Commit, TypeOK
  <2>2. NoTx.lines[id] = NoLines
    BY DEF NoTx
  <2>3. CASE id \in Committed
    <3>1. header'[id] = header[id] /\ lines'[id] = lines[id]
      BY <1>6, <2>3, Committing DEF Settled, Committed
    <3> QED
      BY <2>1, <2>2, <2>3, <3>1, StaysSettled DEF Settled
  <2>4. CASE id \notin Committed
    <3>1. header[id].kind = "none" /\ tx[s].header[id].kind # "none"
      BY <1>6, <2>4 DEF Committed, Commit, HeaderSeen
    <3>2. header'[id] = tx[s].header[id] /\ lines'[id] = tx[s].lines[id]
      BY <1>6, <3>1, Committing
    <3>3. Whole(tx[s].header[id], tx[s].lines[id])
      BY <1>6, <3>1 DEF RowInv, NewPostingsAreChecked, Commit
    <3>4. \A u \in Sessions \ {s} : tx[u].lines[id] = NoLines
      BY <3>1 DEF RowInv, OwnHeaders, LinesHaveHeaders, HeaderSeen
    <3> QED
      BY <2>1, <2>2, <3>2, <3>3, <3>4 DEF Settled, WholeNow
  <2> QED
    BY <2>3, <2>4
<1>7. ASSUME NEW o \in Outsiders, RawEdit(o) PROVE Settled(id)'
  BY <1>7 DEF RawEdit, Triggers
<1>8. DropTriggers \/ ApplySchema \/ View \/ UNCHANGED vars \/ (\E k \in Keys : Claim(k) \/ Fail(k))
        => header' = header /\ lines' = lines /\ tx' = tx
  BY ViewType DEF DropTriggers, ApplySchema, vars, rowVars, Claim, Fail
<1> QED
  BY <1>1, <1>2, <1>3, <1>4, <1>5, <1>6, <1>7, <1>8 DEF Next, Purchase

(* While the triggers are there nobody commits a posting that is not       *)
(* whole, or breaks one that is: over any number of sessions and postings. *)
THEOREM PostingsStayWhole == Spec => TriggersKeepPostingsWhole
<1>1. TypeOK /\ RowInv /\ [Next]_vars => [KeepsPostingsWhole]_vars
  BY StepKeepsPostingsWhole
<1> QED
  BY <1>1, RowsAgree, TypeCorrect, PTL
    DEF Spec, TriggersKeepPostingsWhole, KeepsPostingsWhole

-----------------------------------------------------------------------------
(* The keys and the report.                                                *)

(* No transaction, no report.                                              *)
LEMMA KeyInvInit == Init => KeyInv
BY BooksAssumption DEF Init, KeyInv, OneTransactionPerKey, CompletedIsFinal, ReportIsTrue,
                       NoTx, NoReport

(* A transaction begins under a lock nobody holds.                         *)
LEMMA KeyInvBegin ==
  ASSUME TypeOK, KeyInv, NEW w \in Writers, NEW k \in Keys, AppBegins(w, k)
  PROVE  KeyInv'
<1>1. PICK t : BeginsFresh(t) /\ \E becomes \in Statuses :
                 /\ status[k] = "COMPLETED" => becomes = "COMPLETED"
                 /\ Begins(w, k, becomes, t)
  BY DEF AppBegins
<1>2. PICK becomes \in Statuses : /\ status[k] = "COMPLETED" => becomes = "COMPLETED"
                                  /\ Begins(w, k, becomes, t)
  BY <1>1
<1>3. /\ w \in Sessions /\ tx'[w].key = k /\ tx'[w].status = becomes
      /\ \A s \in Sessions \ {w} : tx'[s] = tx[s] /\ tx[s].key # k
      /\ status' = status /\ report' = report
  BY <1>1, <1>2 DEF AppBegins, Begins, BeginsFresh, Tx, TypeOK, Sessions, Unlocked
<1>4. OneTransactionPerKey'
  BY <1>3 DEF KeyInv, OneTransactionPerKey
<1>5. CompletedIsFinal'
  BY <1>2, <1>3 DEF KeyInv, CompletedIsFinal
<1>6. ReportIsTrue'
  BY <1>3 DEF KeyInv, ReportIsTrue, MissingSale
<1> QED
  BY <1>4, <1>5, <1>6 DEF KeyInv

(* A record changes only as its lock allows; COMPLETED stays.              *)
LEMMA KeyInvCommit ==
  ASSUME TypeOK, KeyInv, NEW s \in Sessions, Commit(s)
  PROVE  KeyInv'
<1>1. /\ \A u \in Sessions : tx'[u] = IF u = s THEN NoTx ELSE tx[u]
      /\ NoTx.key = NoKey /\ NoKey \notin Keys
      /\ \A k \in Keys : status'[k] = IF tx[s].key = k THEN tx[s].status ELSE status[k]
      /\ report' = report
  BY BooksAssumption DEF Commit, TypeOK, NoTx
<1>2. \A k \in Keys : status[k] = "COMPLETED" => status'[k] = "COMPLETED"
  BY <1>1 DEF KeyInv, CompletedIsFinal
<1>3. OneTransactionPerKey'
  BY <1>1 DEF KeyInv, OneTransactionPerKey
<1>4. CompletedIsFinal'
  <2> SUFFICES ASSUME NEW u \in Sessions \ {s}, tx[u].key \in Keys,
                      status'[tx[u].key] = "COMPLETED"
               PROVE  tx[u].status = "COMPLETED"
    BY <1>1 DEF CompletedIsFinal
  <2>1. tx[s].key # tx[u].key
    BY <1>1 DEF KeyInv, OneTransactionPerKey
  <2> QED
    BY <1>1, <2>1 DEF KeyInv, CompletedIsFinal
<1>5. ReportIsTrue'
  <2>1. report.completed \subseteq Keys
    BY DEF TypeOK, Report
  <2> QED
    BY <1>1, <1>2, <2>1 DEF KeyInv, ReportIsTrue, MissingSale
<1> QED
  BY <1>3, <1>4, <1>5 DEF KeyInv

(* A claim or a failure is of a record that is not COMPLETED.              *)
LEMMA KeyInvRecord ==
  ASSUME TypeOK, KeyInv, NEW k \in Keys, Claim(k) \/ Fail(k)
  PROVE  KeyInv'
<1>1. /\ tx' = tx /\ report' = report /\ status[k] # "COMPLETED"
      /\ \A j \in Keys : j # k => status'[j] = status[j]
      /\ \A s \in Sessions : tx[s].key # k
  BY DEF Claim, Fail, Unlocked, TypeOK
<1>2. report.completed \subseteq Keys
  BY DEF TypeOK, Report
<1> QED
  BY <1>1, <1>2 DEF KeyInv, OneTransactionPerKey, CompletedIsFinal, ReportIsTrue, MissingSale

(* Sessions of outsiders hold no lock of a key, or the same one as before. *)
LEMMA KeyInvSessions ==
  ASSUME TypeOK, KeyInv, status' = status, report' = report,
         \A s \in Sessions : \/ tx'[s].key = tx[s].key /\ tx'[s].status = tx[s].status
                             \/ tx'[s].key = NoKey
  PROVE  KeyInv'
BY BooksAssumption DEF KeyInv, OneTransactionPerKey, CompletedIsFinal, ReportIsTrue, MissingSale

(* The report holds what was true as it was read.                          *)
LEMMA KeyInvView ==
  ASSUME TypeOK, KeyInv, View
  PROVE  KeyInv'
<1>1. status' = status /\ tx' = tx
  BY ViewType
<1>2. ReportIsTrue'
  <2>1. report \in Report
    BY DEF TypeOK
  <2>2. CASE TrialBalance \/ VerifyRows \/ VerifyTotals
    BY <2>1, <2>2 DEF TrialBalance, VerifyRows, VerifyTotals, Adds, Reads, Report, ReportIsTrue
  <2>3. CASE ReadRecords
    <3>1. report'.pc = "half" /\ report'.completed = {k \in Keys : status[k] = "COMPLETED"}
      BY <2>1, <2>3 DEF ReadRecords, Reads, Order, Report
    <3> QED
      BY <1>1, <3>1 DEF ReportIsTrue
  <2>4. CASE ReadSales
    <3>1. /\ report.pc = "half" /\ report'.pc = "compared"
          /\ report'.completed = report.completed
          /\ report'.unsold = {k \in Keys : ~HasSale(k)}
          /\ GapsNow \subseteq report'.gaps
      BY <2>1, <2>4 DEF ReadSales, Reads, Order, Report
    <3>2. report'.completed \cap report'.unsold \subseteq GapsNow
      BY <3>1 DEF KeyInv, ReportIsTrue, GapsNow
    <3> QED
      BY <3>1, <3>2 DEF ReportIsTrue, MissingSale
  <2>5. CASE Answer
    BY <2>5 DEF Answer, NoReport, ReportIsTrue
  <2> QED
    BY <2>2, <2>3, <2>4, <2>5 DEF View
<1>3. OneTransactionPerKey' /\ CompletedIsFinal'
  BY <1>1 DEF KeyInv, OneTransactionPerKey, CompletedIsFinal
<1> QED
  BY <1>2, <1>3 DEF KeyInv

(* A missing sale a report names was missing: COMPLETED is final, so a     *)
(* record that was read before the books still says so when they are read. *)
THEOREM ReportedGapsAreReal == Spec => []MissingSaleIsReal
<1>1. TypeOK /\ KeyInv /\ [Next]_vars => KeyInv'
  <2> SUFFICES ASSUME TypeOK, KeyInv, [Next]_vars PROVE KeyInv'
    OBVIOUS
  <2>1. ASSUME NEW k \in Keys, NEW w \in Writers,
               Complete(w, k) \/ Freeze(w, k) \/ ReleaseFrozen(w, k)
        PROVE  KeyInv'
    BY <2>1, OperationsBegin, KeyInvBegin
  <2>2. ASSUME NEW k \in Keys, Claim(k) \/ Fail(k) PROVE KeyInv'
    BY <2>2, KeyInvRecord
  <2>3. ASSUME NEW o \in Outsiders, RawHeader(o) PROVE KeyInv'
    <3>1. \A s \in Sessions : tx'[s].key = tx[s].key /\ tx'[s].status = tx[s].status
      BY <2>3 DEF RawHeader, TypeOK, Tx, Sessions
    <3> QED
      BY <2>3, <3>1, KeyInvSessions DEF RawHeader
  <2>4. ASSUME NEW o \in Outsiders, RawLine(o) PROVE KeyInv'
    <3>1. \A s \in Sessions : tx'[s].key = tx[s].key /\ tx'[s].status = tx[s].status
      BY <2>4 DEF RawLine, TypeOK, Tx, Sessions
    <3> QED
      BY <2>4, <3>1, KeyInvSessions DEF RawLine
  <2>5. ASSUME NEW s \in Sessions, CheckPostings(s) PROVE KeyInv'
    <3>1. \A u \in Sessions : tx'[u].key = tx[u].key /\ tx'[u].status = tx[u].status
      BY <2>5 DEF CheckPostings, TypeOK, Tx
    <3> QED
      BY <2>5, <3>1, KeyInvSessions DEF CheckPostings
  <2>6. ASSUME NEW s \in Sessions, RollBack(s) PROVE KeyInv'
    <3>1. \A u \in Sessions : tx'[u] = IF u = s THEN NoTx ELSE tx[u]
      BY <2>6 DEF RollBack, TypeOK
    <3> QED
      BY <2>6, <3>1, KeyInvSessions DEF RollBack, NoTx
  <2>7. CASE \/ \E o \in Outsiders : RawEdit(o)
             \/ DropTriggers \/ ApplySchema \/ UNCHANGED vars
    BY <2>7, KeyInvSessions DEF RawEdit, DropTriggers, ApplySchema, vars
  <2> QED
    BY <2>1, <2>2, <2>3, <2>4, <2>5, <2>6, <2>7, KeyInvCommit, KeyInvView DEF Next, Purchase
<1>2. KeyInv => MissingSaleIsReal
  BY DEF KeyInv, ReportIsTrue, MissingSaleIsReal
<1> QED
  BY <1>1, <1>2, KeyInvInit, TypeCorrect, PTL DEF Spec

-----------------------------------------------------------------------------
(* Totals.  What a fold over a set computes is known from the equation it  *)
(* solves: that it has a solution, that a solution adds integers, and that *)
(* sums of opposite numbers are opposite.                                  *)

(* A set of naturals that is not empty has a least element.                *)
LEMMA LeastNumber ==
  ASSUME NEW S \in SUBSET Nat, S # {}
  PROVE  \E n \in S : \A m \in S : n =< m
<1> DEFINE R == OpToRel(<, Nat)
<1> HIDE DEF R
<1>1. IsWellFoundedOn(R, Nat)
  BY NatLessThanWellFounded DEF R
<1>2. PICK n \in S : \A m \in S : <<m, n>> \notin R
  BY <1>1, WFMin, S \subseteq Nat
<1>3. \A m \in S : ~(m < n)
  BY <1>2 DEF OpToRel, R
<1> QED
  BY <1>2, <1>3

(* Among subsets of a finite set there is one that has no smaller one      *)
(* among them: an induction over such subsets looks at it.                 *)
LEMMA SmallestSubset ==
  ASSUME NEW S, IsFiniteSet(S), NEW B \in SUBSET SUBSET S, B # {}
  PROVE  \E s \in B : \A x \in s : s \ {x} \notin B
<1> DEFINE sizes == {Cardinality(s) : s \in B}
<1>1. \A s \in B : IsFiniteSet(s) /\ Cardinality(s) \in Nat
  BY FS_Subset, FS_CardinalityType
<1>2. PICK n \in sizes : \A m \in sizes : n =< m
  <2>1. sizes \in SUBSET Nat /\ sizes # {}
    BY <1>1
  <2> HIDE DEF sizes
  <2> QED BY <2>1, LeastNumber
<1>3. PICK s \in B : n = Cardinality(s)
  BY <1>2
<1>4. ASSUME NEW x \in s, s \ {x} \in B PROVE FALSE
  <2>1. Cardinality(s \ {x}) = n - 1
    BY <1>1, <1>3, FS_RemoveElement
  <2> QED BY <1>1, <1>2, <1>3, <1>4, <2>1
<1> QED BY <1>3, <1>4

(* The equation of a fold that adds f over a set (Folds.tla).              *)
Pick(s) == CHOOSE x \in s : TRUE
Adding(f, g, s) == IF s = {} THEN 0 ELSE f[Pick(s)] + g[s \ {Pick(s)}]
Sums(f, g, S) == g = [s \in SUBSET S |-> Adding(f, g, s)]

LEMMA AddingType ==
  ASSUME NEW S, NEW f \in [S -> Int], NEW g \in [SUBSET S -> Int], NEW s \in SUBSET S
  PROVE  /\ Adding(f, g, s) \in Int
         /\ s # {} => Pick(s) \in s
BY DEF Adding, Pick

(* There is such a function: one that adds the sets of fewer than n        *)
(* elements right is used to add those of n.                               *)
LEMMA SumsExist ==
  ASSUME NEW S, IsFiniteSet(S), NEW f \in [S -> Int]
  PROVE  \E g \in [SUBSET S -> Int] : Sums(f, g, S)
<1> DEFINE Right(g, n) ==
             \A s \in SUBSET S : Cardinality(s) < n => g[s] = Adding(f, g, s)
           wrong == {n \in Nat : ~\E g \in [SUBSET S -> Int] : Right(g, n)}
<1>1. \A s \in SUBSET S : IsFiniteSet(s) /\ Cardinality(s) \in Nat
  BY FS_Subset, FS_CardinalityType
<1>2. ASSUME NEW n \in Nat, NEW g \in [SUBSET S -> Int], Right(g, n)
      PROVE  \E h \in [SUBSET S -> Int] : Right(h, n + 1)
  <2> DEFINE h == [s \in SUBSET S |-> Adding(f, g, s)]
  <2>1. h \in [SUBSET S -> Int]
    BY AddingType
  <2>2. ASSUME NEW s \in SUBSET S, Cardinality(s) < n + 1
        PROVE  h[s] = Adding(f, h, s)
    <3>1. CASE s = {}
      BY <3>1 DEF Adding
    <3>2. CASE s # {}
      <4> DEFINE t == s \ {Pick(s)}
      <4>1. t \in SUBSET S /\ Pick(s) \in s
        BY <3>2, AddingType
      <4>2. Cardinality(t) < n
        BY <1>1, <2>2, <4>1, FS_RemoveElement
      <4>3. h[t] = Adding(f, g, t) /\ g[t] = Adding(f, g, t)
        BY <1>2, <4>1, <4>2
      <4> QED BY <3>2, <4>3 DEF Adding
    <3> QED BY <3>1, <3>2
  <2> HIDE DEF h
  <2> QED BY <2>1, <2>2
<1>3. 0 \notin wrong
  <2>1. [s \in SUBSET S |-> 0] \in [SUBSET S -> Int]
    OBVIOUS
  <2>2. \A g : Right(g, 0)
    BY <1>1
  <2> QED BY <2>1, <2>2
<1>4. wrong = {}
  <2> SUFFICES ASSUME wrong # {} PROVE FALSE
    OBVIOUS
  <2>0. wrong \in SUBSET Nat
    OBVIOUS
  <2>1. PICK n \in wrong : \A m \in wrong : n =< m
    <3> HIDE DEF wrong
    <3> QED BY <2>0, LeastNumber
  <2>2. n - 1 \in Nat /\ n \in Nat /\ ~(n =< n - 1)
    <3> HIDE DEF wrong
    <3>1. n \in Nat /\ n # 0
      BY <1>3, <2>0, <2>1
    <3> QED BY <3>1
  <2>3. n - 1 \notin wrong
    BY <2>1, <2>2
  <2> HIDE DEF Right
  <2>4. PICK g \in [SUBSET S -> Int] : Right(g, n - 1)
    BY <2>2, <2>3
  <2>5. \E h \in [SUBSET S -> Int] : Right(h, n - 1 + 1)
    BY <1>2, <2>2, <2>4
  <2>6. n - 1 + 1 = n
    BY <2>2
  <2> QED BY <2>1, <2>5, <2>6
<1>5. Cardinality(S) + 1 \in Nat
  BY FS_CardinalityType
<1>6. PICK g \in [SUBSET S -> Int] : Right(g, Cardinality(S) + 1)
  <2> HIDE DEF Right
  <2> QED BY <1>4, <1>5
<1>7. \A s \in SUBSET S : g[s] = Adding(f, g, s)
  BY <1>1, <1>5, <1>6, FS_Subset
<1> QED BY <1>7 DEF Sums

(* Whatever satisfies the equation adds integers.                          *)
LEMMA SumsAreNumbers ==
  ASSUME NEW S, IsFiniteSet(S), NEW f \in [S -> Int], NEW g, Sums(f, g, S)
  PROVE  g \in [SUBSET S -> Int]
<1> DEFINE wrong == {s \in SUBSET S : g[s] \notin Int}
<1>1. g = [s \in SUBSET S |-> g[s]] /\ \A s \in SUBSET S : g[s] = Adding(f, g, s)
  BY DEF Sums
<1>2. wrong = {}
  <2> SUFFICES ASSUME wrong # {} PROVE FALSE
    OBVIOUS
  <2>1. PICK s \in wrong : \A x \in s : s \ {x} \notin wrong
    <3> HIDE DEF wrong
    <3>1. wrong \in SUBSET SUBSET S
      BY DEF wrong
    <3> QED BY <3>1, SmallestSubset
  <2>2. CASE s = {}
    <3>1. Adding(f, g, s) = 0
      BY <2>2 DEF Adding
    <3>2. g[s] = 0
      BY <1>1, <2>1, <3>1
    <3> QED BY <2>1, <3>2
  <2>3. CASE s # {}
    <3>1. Pick(s) \in s
      BY <2>3 DEF Pick
    <3>2. g[s \ {Pick(s)}] \in Int
      BY <2>1, <3>1
    <3>3. g[s] = f[Pick(s)] + g[s \ {Pick(s)}]
      BY <1>1, <2>1, <2>3 DEF Adding
    <3>4. f[Pick(s)] \in Int
      BY <2>1, <3>1
    <3> QED BY <2>1, <3>2, <3>3, <3>4
  <2> QED BY <2>2, <2>3
<1> QED BY <1>1, <1>2

(* Sums of opposite numbers are opposite.                                  *)
Opposite(f, h, S) == \A x \in S : h[x] = -f[x]

LEMMA SumsCancel ==
  ASSUME NEW S, IsFiniteSet(S), NEW f \in [S -> Int], NEW h \in [S -> Int],
         Opposite(f, h, S),
         NEW F \in [SUBSET S -> Int], Sums(f, F, S),
         NEW H \in [SUBSET S -> Int], Sums(h, H, S)
  PROVE  F[S] + H[S] = 0
<1> DEFINE wrong == {s \in SUBSET S : F[s] + H[s] # 0}
<1>1. \A s \in SUBSET S : F[s] = Adding(f, F, s) /\ H[s] = Adding(h, H, s)
  BY DEF Sums
<1>2. wrong = {}
  <2> SUFFICES ASSUME wrong # {} PROVE FALSE
    OBVIOUS
  <2>1. PICK s \in wrong : \A x \in s : s \ {x} \notin wrong
    <3> HIDE DEF wrong
    <3>1. wrong \in SUBSET SUBSET S
      BY DEF wrong
    <3> QED BY <3>1, SmallestSubset
  <2>2. s # {}
    <3> SUFFICES ASSUME s = {} PROVE FALSE
      OBVIOUS
    <3>1. Adding(f, F, s) = 0 /\ Adding(h, H, s) = 0
      BY DEF Adding
    <3>2. F[s] = 0 /\ H[s] = 0
      BY <1>1, <2>1, <3>1
    <3> QED BY <2>1, <3>2
  <2> DEFINE x == Pick(s)
             t == s \ {x}
  <2>3. x \in s /\ t \in SUBSET S /\ t \notin wrong
    BY <2>1, <2>2, AddingType
  <2>4. F[s] = f[x] + F[t] /\ H[s] = h[x] + H[t]
    BY <1>1, <2>1, <2>2 DEF Adding
  <2>5. F[t] + H[t] = 0 /\ h[x] = -f[x] /\ f[x] \in Int /\ F[t] \in Int /\ H[t] \in Int
    BY <2>1, <2>3 DEF Opposite
  <2> HIDE DEF x, t
  <2> QED BY <2>1, <2>4, <2>5
<1> QED BY <1>2

(* The totals of the reports are such sums.                                *)
LEMMA ClearingIsSum ==
  ASSUME NEW f \in [Ids -> Int], f = [id \in Ids |-> Clearing(id)]
  PROVE  \E g \in [SUBSET Ids -> Int] : Sums(f, g, Ids) /\ TotalOf(Clearing) = g[Ids]
<1> DEFINE Eq(g) == g = [s \in SUBSET Ids |->
                           IF s = {} THEN 0 ELSE Clearing(Pick(s)) + g[s \ {Pick(s)}]]
           G == CHOOSE g : Eq(g)
<1>1. ASSUME NEW g PROVE Eq(g) <=> Sums(f, g, Ids)
  <2>1. \A s \in SUBSET Ids : s # {} => f[Pick(s)] = Clearing(Pick(s))
    BY DEF Pick
  <2>2. \A s \in SUBSET Ids :
          Adding(f, g, s) = IF s = {} THEN 0 ELSE Clearing(Pick(s)) + g[s \ {Pick(s)}]
    BY <2>1 DEF Adding
  <2> QED
    BY <2>2 DEF Sums
<1>2. \E g : Eq(g)
  <2> HIDE DEF Eq
  <2> QED
    BY <1>1, SumsExist, BooksAssumption
<1>3. Eq(G)
  <2> HIDE DEF Eq
  <2> QED
    BY <1>2
<1>4. TotalOf(Clearing) = G[Ids]
  BY DEF TotalOf, MapThenSumSet, MapThenFoldSet, Pick
<1> HIDE DEF G, Eq
<1>5. Sums(f, G, Ids)
  BY <1>1, <1>3
<1> QED
  BY <1>4, <1>5, SumsAreNumbers, BooksAssumption

LEMMA RevenueIsSum ==
  ASSUME NEW f \in [Ids -> Int], f = [id \in Ids |-> Revenue(id)]
  PROVE  \E g \in [SUBSET Ids -> Int] : Sums(f, g, Ids) /\ TotalOf(Revenue) = g[Ids]
<1> DEFINE Eq(g) == g = [s \in SUBSET Ids |->
                           IF s = {} THEN 0 ELSE Revenue(Pick(s)) + g[s \ {Pick(s)}]]
           G == CHOOSE g : Eq(g)
<1>1. ASSUME NEW g PROVE Eq(g) <=> Sums(f, g, Ids)
  <2>1. \A s \in SUBSET Ids : s # {} => f[Pick(s)] = Revenue(Pick(s))
    BY DEF Pick
  <2>2. \A s \in SUBSET Ids :
          Adding(f, g, s) = IF s = {} THEN 0 ELSE Revenue(Pick(s)) + g[s \ {Pick(s)}]
    BY <2>1 DEF Adding
  <2> QED
    BY <2>2 DEF Sums
<1>2. \E g : Eq(g)
  <2> HIDE DEF Eq
  <2> QED
    BY <1>1, SumsExist, BooksAssumption
<1>3. Eq(G)
  <2> HIDE DEF Eq
  <2> QED
    BY <1>2
<1>4. TotalOf(Revenue) = G[Ids]
  BY DEF TotalOf, MapThenSumSet, MapThenFoldSet, Pick
<1> HIDE DEF G, Eq
<1>5. Sums(f, G, Ids)
  BY <1>1, <1>3
<1> QED
  BY <1>4, <1>5, SumsAreNumbers, BooksAssumption

LEMMA NetIsSum ==
  ASSUME NEW f \in [Ids -> Int], f = [id \in Ids |-> NetOf(id)]
  PROVE  \E g \in [SUBSET Ids -> Int] : Sums(f, g, Ids) /\ TotalOf(NetOf) = g[Ids]
<1> DEFINE Eq(g) == g = [s \in SUBSET Ids |->
                           IF s = {} THEN 0 ELSE NetOf(Pick(s)) + g[s \ {Pick(s)}]]
           G == CHOOSE g : Eq(g)
<1>1. ASSUME NEW g PROVE Eq(g) <=> Sums(f, g, Ids)
  <2>1. \A s \in SUBSET Ids : s # {} => f[Pick(s)] = NetOf(Pick(s))
    BY DEF Pick
  <2>2. \A s \in SUBSET Ids :
          Adding(f, g, s) = IF s = {} THEN 0 ELSE NetOf(Pick(s)) + g[s \ {Pick(s)}]
    BY <2>1 DEF Adding
  <2> QED
    BY <2>2 DEF Sums
<1>2. \E g : Eq(g)
  <2> HIDE DEF Eq
  <2> QED
    BY <1>1, SumsExist, BooksAssumption
<1>3. Eq(G)
  <2> HIDE DEF Eq
  <2> QED
    BY <1>2
<1>4. TotalOf(NetOf) = G[Ids]
  BY DEF TotalOf, MapThenSumSet, MapThenFoldSet, Pick
<1> HIDE DEF G, Eq
<1>5. Sums(f, G, Ids)
  BY <1>1, <1>3
<1> QED
  BY <1>4, <1>5, SumsAreNumbers, BooksAssumption

-----------------------------------------------------------------------------
(* Alarms.                                                                 *)

(* Postings that are whole, each of them, balance in total.                *)
LEMMA WholeBooksBalance ==
  ASSUME TypeOK, RowInv, \A id \in Committed : WholeNow(id)
  PROVE  TotalOf(Clearing) + TotalOf(Revenue) = 0 /\ TotalOf(NetOf) = 0
<1>1. ASSUME NEW id \in Ids
      PROVE  /\ Clearing(id) \in Int /\ Revenue(id) \in Int /\ NetOf(id) \in Int
             /\ Revenue(id) = -Clearing(id) /\ NetOf(id) = 0
  <2>1. lines[id].clearing \in Nat /\ lines[id].revenue \in Nat
    BY DEF TypeOK, Lines
  <2>2. CASE id \in Committed
    <3>1. lines[id].clearing - lines[id].revenue = 0
      BY <2>2 DEF WholeNow, Whole, Net
    <3> QED
      BY <2>1, <3>1 DEF Clearing, Revenue, NetOf, Net
  <2>3. CASE id \notin Committed
    <3>1. lines[id] = NoLines
      BY <2>3 DEF Committed, RowInv, LinesHaveHeaders
    <3> QED
      BY <3>1 DEF Clearing, Revenue, NetOf, Net, NoLines
  <2> QED
    BY <2>2, <2>3
<1>2. PICK c \in [Ids -> Int] : c = [id \in Ids |-> Clearing(id)]
  BY <1>1
<1>3. PICK r \in [Ids -> Int] : r = [id \in Ids |-> Revenue(id)]
  BY <1>1
<1>4. PICK n \in [Ids -> Int] : n = [id \in Ids |-> NetOf(id)]
  BY <1>1
<1>5. /\ Opposite(c, r, Ids) /\ Opposite(n, n, Ids) /\ IsFiniteSet(Ids)
      /\ c \in [Ids -> Int] /\ r \in [Ids -> Int] /\ n \in [Ids -> Int]
  BY <1>1, <1>2, <1>3, <1>4, BooksAssumption DEF Opposite
<1>6. PICK C \in [SUBSET Ids -> Int] : Sums(c, C, Ids) /\ TotalOf(Clearing) = C[Ids]
  BY <1>2, ClearingIsSum
<1>7. PICK R \in [SUBSET Ids -> Int] : Sums(r, R, Ids) /\ TotalOf(Revenue) = R[Ids]
  BY <1>3, RevenueIsSum
<1>8. PICK N \in [SUBSET Ids -> Int] : Sums(n, N, Ids) /\ TotalOf(NetOf) = N[Ids]
  BY <1>4, NetIsSum
<1>9. /\ Sums(c, C, Ids) /\ Sums(r, R, Ids) /\ Sums(n, N, Ids)
      /\ C \in [SUBSET Ids -> Int] /\ R \in [SUBSET Ids -> Int] /\ N \in [SUBSET Ids -> Int]
  BY <1>6, <1>7, <1>8
<1>10. C[Ids] + R[Ids] = 0
  BY <1>5, <1>9, SumsCancel
<1>11. N[Ids] = 0
  <2>1. N[Ids] + N[Ids] = 0
    BY <1>5, <1>9, SumsCancel
  <2>2. N[Ids] \in Int
    BY <1>9
  <2> QED
    BY <2>1, <2>2
<1> DEFINE clearing == TotalOf(Clearing)
           revenue == TotalOf(Revenue)
<1>12. clearing = C[Ids] /\ revenue = R[Ids]
  BY <1>6, <1>7
<1>13. TotalOf(NetOf) = 0
  BY <1>8, <1>11
<1>14. clearing + revenue = 0
  <2> HIDE DEF clearing, revenue
  <2> QED
    BY <1>10, <1>12
<1> QED
  BY <1>13, <1>14

(* An alarm of a report in progress has its reason.                        *)
AlarmIsKnown == report.pc \in {"totals", "verified"} /\ report.alarm => report.wrong

LEMMA AlarmIsKnownView ==
  ASSUME TypeOK, RowInv, AlarmIsKnown, View
  PROVE  AlarmIsKnown'
<1> DEFINE bad == \E id \in Committed : ~WholeNow(id)
<1>1. report \in Report
  BY DEF TypeOK
<1>2. ~bad => TotalOf(Clearing) + TotalOf(Revenue) = 0 /\ TotalOf(NetOf) = 0
  BY WholeBooksBalance
<1>3. ASSUME NEW from, NEW to, NEW alarm, Adds(from, to, alarm)
      PROVE  /\ report.pc = from /\ report'.alarm = alarm
             /\ report'.wrong = (report.wrong \/ bad)
  BY <1>1, <1>3 DEF Adds, Reads, Report
<1> HIDE DEF bad
<1>4. CASE TrialBalance
  BY <1>2, <1>3, <1>4 DEF TrialBalance, AlarmIsKnown
<1>5. CASE VerifyRows
  <2>1. report'.alarm = bad
    BY <1>3, <1>5 DEF VerifyRows, bad
  <2> QED
    BY <1>3, <1>5, <2>1 DEF VerifyRows, AlarmIsKnown
<1>6. CASE VerifyTotals
  BY <1>2, <1>3, <1>6 DEF VerifyTotals, AlarmIsKnown
<1>7. CASE ReadRecords \/ ReadSales
  <2>1. report'.pc \in {"half", "compared"}
    BY <1>1, <1>7 DEF ReadRecords, ReadSales, Reads, Order, Report
  <2> QED
    BY <2>1 DEF AlarmIsKnown
<1>8. CASE Answer
  BY <1>8 DEF Answer, NoReport, AlarmIsKnown
<1> QED
  BY <1>4, <1>5, <1>6, <1>7, <1>8 DEF View

(* The view does not say that the books are wrong when they never were     *)
(* (demo.py, ledger_view): each of its statements adds up one moment, and  *)
(* at a moment when every posting is whole the accounts balance.           *)
THEOREM AlarmsHaveAReason == Spec => []NoFalseAlarm
<1>1. TypeOK /\ RowInv /\ AlarmIsKnown /\ [Next]_vars => AlarmIsKnown'
  <2> SUFFICES ASSUME TypeOK, RowInv, AlarmIsKnown, [Next]_vars PROVE AlarmIsKnown'
    OBVIOUS
  <2>1. CASE report' = report
    BY <2>1 DEF AlarmIsKnown
  <2>2. CASE View
    BY <2>2, AlarmIsKnownView
  <2>3. report' = report \/ View
    BY DEF Next, vars, Purchase, Complete, Freeze, ReleaseFrozen, Claim, Fail, RawHeader, RawLine,
           RawEdit, CheckPostings, Commit, RollBack, DropTriggers, ApplySchema
  <2> QED
    BY <2>1, <2>2, <2>3
<1>2. Init => AlarmIsKnown
  BY DEF Init, NoReport, AlarmIsKnown
<1>3. AlarmIsKnown => NoFalseAlarm
  BY DEF AlarmIsKnown, NoFalseAlarm
<1> QED
  BY <1>1, <1>2, <1>3, TypeCorrect, RowsAgree, PTL DEF Spec
=============================================================================
