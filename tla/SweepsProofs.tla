---------------------------- MODULE SweepsProofs ----------------------------
(***************************************************************************)
(* Theorems about Sweeps, for any number of keys, threads and deliveries,  *)
(* however cycles overlap, fail or are cut off: what they settle is what   *)
(* the provider did, and a human is asked about a key once per thread.     *)
(* Then about OrderLookup, through which a cycle asks the provider: paging *)
(* misses no order, and finds one twice only because the list grew.        *)
(***************************************************************************)
EXTENDS Sweeps, OrderLookup, SequenceTheorems, FiniteSetTheorems,
        WellFoundedInduction, TLAPS

(* The part of the type invariant that is about keys and cycles.           *)
DataTypes ==
  /\ status \in [Keys -> {"none", COMPLETED, FAILED, PENDING}]
  /\ books \in [Keys -> Ledger!Position]
  /\ slot \in [Keys -> {"none", "held", "confirmed", "released"}]
  /\ orders \in [Keys -> 0 .. 2]
  /\ aged \in [Keys -> BOOLEAN]
  /\ sweeper \in [Threads -> Sweeper]
  /\ flagged \subseteq Keys
  /\ entries \in [Keys -> Nat] /\ lost \in [Keys -> Nat]

(* Nothing is in suspense for a key before it is left or after its only    *)
(* attempt was booked.                                                     *)
BooksClose ==
  \A k \in Keys :
    Ledger!Sold(books[k]) \/ 1 \in books[k].settled \/ status[k] = "none" => books[k].open = {}

ReleasedIsUncharged == \A k \in Keys : slot[k] = "released" => orders[k] = 0

(* A cycle visits keys that purchases left, and holds an answer only if it *)
(* is what the provider did, although the record it holds may be stale.    *)
Knows(s, recorded, charged) ==
  /\ \A k \in s.todo : recorded[k] # "none"
  /\ s.pc \in {"act", "slot"} => s.todo # {} /\ s.answer = charged[Min(s.todo)]
  /\ s.pc = "slot" => s.answer # 2

CyclesKnow == \A t \in Threads : Knows(sweeper[t], status, orders)

(* The threads that may still ask a human about k.                         *)
Repairing(k) == {t \in Threads : sweeper[t].pass = "repair" /\ k \in sweeper[t].todo}

AskedByThreads ==
  \A k \in Keys :
    /\ k \notin flagged => entries[k] <= lost[k]
    /\ k \in flagged =>
         entries[k] + Cardinality(Repairing(k)) <= Cardinality(Threads) + lost[k]

IInv == DataTypes /\ BooksClose /\ ReleasedIsUncharged /\ CyclesKnow /\ AskedByThreads

-----------------------------------------------------------------------------

(* The key a cycle visits is one of those it has to.                       *)
LEMMA VisitedIsToDo ==
  ASSUME NEW S \in SUBSET Keys, S # {}
  PROVE  Min(S) \in S
<1> DEFINE R == OpToRel(<, Nat)
<1>0. S \subseteq Nat
  BY SweepsAssumption
<1> HIDE DEF R
<1>1. IsWellFoundedOn(R, Nat)
  BY NatLessThanWellFounded DEF R
<1>2. PICK n \in S : \A m \in S : <<m, n>> \notin R
  BY <1>0, <1>1, WFMin
<1>3. ASSUME NEW m \in S PROVE n =< m
  <2>1. ~(m < n)
    BY <1>0, <1>2 DEF OpToRel, R
  <2> QED BY <1>0, <2>1
<1> QED BY <1>3 DEF Min

LEMMA ThreadsAreFinite == IsFiniteSet(Threads)
BY SweepsAssumption, FS_AddElement DEF Threads

LEMMA RepairersAreFinite ==
  ASSUME NEW k
  PROVE  /\ IsFiniteSet(Repairing(k)) /\ Cardinality(Repairing(k)) \in Nat
         /\ Cardinality(Threads) \in Nat
         /\ Cardinality(Repairing(k)) <= Cardinality(Threads)
<1>1. Repairing(k) \in SUBSET Threads
  BY DEF Repairing
<1>2. IsFiniteSet(Repairing(k)) /\ Cardinality(Repairing(k)) <= Cardinality(Threads)
  BY <1>1, ThreadsAreFinite, FS_Subset
<1> QED BY <1>2, ThreadsAreFinite, FS_CardinalityType

(* One thread moves on, and no other loses what it knows: a key's orders   *)
(* do not change once it is left, and it stays left.                       *)
LEMMA OthersKnow ==
  ASSUME DataTypes, CyclesKnow,
         NEW t \in Threads, NEW s, sweeper' = [sweeper EXCEPT ![t] = s],
         UNCHANGED orders,
         \A k \in Keys : status[k] # "none" => status'[k] # "none",
         Knows(s, status', orders)
  PROVE  CyclesKnow'
<1> SUFFICES ASSUME NEW u \in Threads PROVE Knows(sweeper'[u], status', orders')
  BY DEF CyclesKnow
<1>1. CASE u = t
  BY <1>1 DEF DataTypes
<1>2. CASE u # t
  <2>1. sweeper'[u] = sweeper[u] /\ sweeper[u].todo \subseteq Keys
    BY <1>2 DEF DataTypes, Sweeper
  <2>2. Knows(sweeper[u], status, orders)
    BY DEF CyclesKnow
  <2> QED BY <2>1, <2>2 DEF Knows
<1> QED BY <1>1, <1>2

(* One thread moves on without having listed a flagged key.                *)
LEMMA NobodyAsks ==
  ASSUME DataTypes, AskedByThreads,
         NEW t \in Threads, NEW s, sweeper' = [sweeper EXCEPT ![t] = s],
         UNCHANGED <<flagged, entries, lost>>,
         \A k \in flagged : s.pass = "repair" /\ k \in s.todo => t \in Repairing(k)
  PROVE  AskedByThreads'
<1> SUFFICES ASSUME NEW k \in Keys, k \in flagged
             PROVE  entries[k] + Cardinality(Repairing(k)') <= Cardinality(Threads) + lost[k]
  BY DEF AskedByThreads
<1>1. Repairing(k)' \in SUBSET Repairing(k)
  BY DEF Repairing, DataTypes
<1>2. Cardinality(Repairing(k)') <= Cardinality(Repairing(k))
      /\ Cardinality(Repairing(k)') \in Nat
  BY <1>1, RepairersAreFinite, FS_Subset, FS_CardinalityType
<1>3. entries[k] + Cardinality(Repairing(k)) <= Cardinality(Threads) + lost[k]
      /\ entries[k] \in Nat /\ lost[k] \in Nat
  BY DEF AskedByThreads, DataTypes
<1> QED BY <1>2, <1>3, RepairersAreFinite

(* The steps of a cycle that only read.                                    *)
LEMMA QuietStep ==
  ASSUME IInv, NEW t \in Threads, NEW s \in Sweeper,
         sweeper' = [sweeper EXCEPT ![t] = s],
         UNCHANGED <<keyVars, providerVars, flagged, entries, lost>>,
         Knows(s, status, orders),
         \A k \in flagged : s.pass = "repair" /\ k \in s.todo => t \in Repairing(k)
  PROVE  IInv'
<1>1. DataTypes'
  BY DEF IInv, DataTypes, keyVars, providerVars
<1>2. BooksClose' /\ ReleasedIsUncharged'
  BY DEF IInv, BooksClose, ReleasedIsUncharged, keyVars, providerVars
<1>3. CyclesKnow'
  BY OthersKnow DEF IInv, keyVars, providerVars
<1>4. AskedByThreads'
  BY NobodyAsks DEF IInv
<1> QED BY <1>1, <1>2, <1>3, <1>4 DEF IInv

(* Going on to the next key forgets nothing but the one visited.           *)
LEMMA NextKeyStep ==
  ASSUME DataTypes, CyclesKnow, NEW t \in Threads, NEW k
  PROVE  /\ NextKey(sweeper[t], k) \in Sweeper
         /\ Knows(NextKey(sweeper[t], k), status, orders)
         /\ NextKey(sweeper[t], k).pass = sweeper[t].pass
         /\ NextKey(sweeper[t], k).todo = sweeper[t].todo \ {k}
<1> DEFINE s == sweeper[t]
           d == s.todo \ {k}
           n == [pc |-> "ask", pass |-> s.pass, todo |-> d, row |-> "none", answer |-> 0]
<1>1. s \in Sweeper
  BY DEF DataTypes
<1>2. Knows(s, status, orders)
  BY DEF CyclesKnow
<1>3. d \in SUBSET Keys
  BY <1>1 DEF Sweeper
<1>4. NextKey(s, k) = n
  <2> DEFINE s1 == [s EXCEPT !.pc = "ask"]
             s2 == [s1 EXCEPT !.todo = d]
             s3 == [s2 EXCEPT !.row = "none"]
             s4 == [s3 EXCEPT !.answer = 0]
  <2>1. NextKey(s, k) = s4
    BY DEF NextKey
  <2> HIDE DEF s, d
  <2>2. s1 = [pc |-> "ask", pass |-> s.pass, todo |-> s.todo, row |-> s.row,
              answer |-> s.answer]
    BY <1>1 DEF Sweeper
  <2> HIDE DEF s1
  <2>3. s2 = [pc |-> "ask", pass |-> s.pass, todo |-> d, row |-> s.row,
              answer |-> s.answer]
    BY <2>2
  <2> HIDE DEF s2
  <2>4. s3 = [pc |-> "ask", pass |-> s.pass, todo |-> d, row |-> "none",
              answer |-> s.answer]
    BY <2>3
  <2> HIDE DEF s3
  <2>5. s4 = n
    BY <2>4
  <2> QED BY <2>1, <2>5
<1> HIDE DEF s, d
<1>5. n \in Sweeper /\ n.pc = "ask" /\ n.pass = s.pass /\ n.todo = d
  BY <1>1, <1>3 DEF Sweeper
<1>6. \A j \in d : status[j] # "none"
  BY <1>2 DEF Knows, d
<1>7. Knows(n, status, orders)
  BY <1>5, <1>6 DEF Knows
<1> QED BY <1>4, <1>5, <1>7 DEF s, d

(* A cycle that starts, restarts or is over knows nothing, and need not.   *)
LEMMA IdleKnows ==
  ASSUME NEW s \in {Idle, CycleStarts, [CycleStarts EXCEPT !.pass = "repair"]},
         NEW recorded, NEW charged
  PROVE  s \in Sweeper /\ s.todo = {} /\ Knows(s, recorded, charged)
<1>1. Idle \in Sweeper /\ Idle.todo = {} /\ Idle.pc = "idle"
  BY DEF Idle, Sweeper
<1>2. CycleStarts \in Sweeper /\ CycleStarts.todo = {} /\ CycleStarts.pc = "list"
  BY <1>1 DEF CycleStarts, Sweeper
<1>3. LET r == [CycleStarts EXCEPT !.pass = "repair"]
      IN  r \in Sweeper /\ r.todo = {} /\ r.pc = "list"
  BY <1>2 DEF Sweeper
<1> QED BY <1>1, <1>2, <1>3 DEF Knows

-----------------------------------------------------------------------------
(* One lemma per action: the invariant holds after it.                     *)

(* The lists leave out the flagged keys, and hold none without a record.   *)
LEMMA ListStep ==
  ASSUME IInv, NEW t \in Threads, List(t)
  PROVE  IInv'
<1> DEFINE s == sweeper[t]
           todo == IF s.pass = "sweep" THEN ToSweep ELSE ToRepair
           n == [s EXCEPT !.pc = "ask", !.todo = todo]
<1>1. s \in Sweeper /\ sweeper' = [sweeper EXCEPT ![t] = n]
      /\ UNCHANGED <<keyVars, providerVars, flagged, entries, lost>>
  BY DEF List, Goes, IInv, DataTypes
<1>2. todo \in SUBSET Keys /\ (s.pass = "repair" => todo \cap flagged = {})
  BY DEF ToSweep, ToRepair
<1>3. \A k \in todo : status[k] # "none"
  <2>1. \A k \in Keys : status[k] = "none" => books[k].open = {}
    BY DEF IInv, BooksClose
  <2> QED BY <2>1 DEF ToSweep, ToRepair, Frozen, Gap, MissingSale,
                      OpenSuspenseNotPending, PENDING, COMPLETED
<1> HIDE DEF s, todo
<1>4. n \in Sweeper /\ n.pc = "ask" /\ n.pass = s.pass /\ n.todo = todo
  BY <1>1, <1>2 DEF Sweeper
<1>5. Knows(n, status, orders)
  BY <1>3, <1>4 DEF Knows
<1> HIDE DEF n
<1> QED BY <1>1, <1>2, <1>4, <1>5, QuietStep

(* A pass is over, or a cycle breaks off, or one begins.                   *)
LEMMA CycleTurnStep ==
  ASSUME IInv, NEW t \in Threads,
         NEW s \in {Idle, CycleStarts, [CycleStarts EXCEPT !.pass = "repair"]},
         sweeper' = [sweeper EXCEPT ![t] = s],
         UNCHANGED <<keyVars, providerVars, flagged, entries, lost>>
  PROVE  IInv'
<1>1. s \in Sweeper /\ s.todo = {} /\ Knows(s, status, orders)
  BY IdleKnows
<1> QED BY <1>1, QuietStep

(* A key is passed by.                                                     *)
LEMMA MovesOnStep ==
  ASSUME IInv, NEW t \in Threads, NEW k,
         sweeper' = [sweeper EXCEPT ![t] = NextKey(sweeper[t], k)],
         UNCHANGED <<keyVars, providerVars, flagged, entries, lost>>
  PROVE  IInv'
<1> DEFINE n == NextKey(sweeper[t], k)
<1>1. n \in Sweeper /\ Knows(n, status, orders) /\ n.pass = sweeper[t].pass
      /\ n.todo = sweeper[t].todo \ {k}
  BY NextKeyStep DEF IInv
<1>2. \A j \in flagged : n.pass = "repair" /\ j \in n.todo => t \in Repairing(j)
  BY <1>1 DEF Repairing
<1> HIDE DEF n
<1>3. sweeper' = [sweeper EXCEPT ![t] = n]
  BY DEF n
<1> QED BY <1>1, <1>2, <1>3, QuietStep

(* An answer that counts as evidence is what the provider did.             *)
LEMMA AskStep ==
  ASSUME IInv, NEW t \in Threads, NEW k \in Keys, Ask(t, k)
  PROVE  IInv'
<1> DEFINE s == sweeper[t]
<1>1. s \in Sweeper /\ s.todo # {} /\ s.todo \in SUBSET Keys /\ k = Min(s.todo)
      /\ UNCHANGED <<keyVars, providerVars, flagged, entries, lost>>
  BY DEF Ask, Visiting, IInv, DataTypes, Sweeper
<1>2. k \in s.todo /\ status[k] # "none"
  BY <1>1, VisitedIsToDo DEF IInv, CyclesKnow, Knows
<1>3. status[k] \in {COMPLETED, FAILED, PENDING} /\ orders[k] \in 0 .. 2
  BY <1>2 DEF IInv, DataTypes
<1>4. Knows(s, status, orders)
  BY DEF IInv, CyclesKnow
<1>5. PICK answer \in Answers(k) :
        Goes(t, IF Evidence(k, answer)
                THEN [s EXCEPT !.pc = "act", !.row = status[k], !.answer = answer]
                ELSE NextKey(s, k))
  BY DEF Ask
<1>6. CASE Evidence(k, answer)
  <2> DEFINE n == [s EXCEPT !.pc = "act", !.row = status[k], !.answer = answer]
  <2>1. answer = orders[k]
    BY <1>3, <1>6 DEF Evidence, Answers
  <2>2. sweeper' = [sweeper EXCEPT ![t] = n]
    BY <1>5, <1>6 DEF Goes
  <2>3. n \in Sweeper /\ n.pc = "act" /\ n.pass = s.pass /\ n.todo = s.todo
        /\ n.answer = answer
    BY <1>1, <1>3, <2>1 DEF Sweeper
  <2> HIDE DEF n
  <2>4. Knows(n, status, orders)
    BY <1>1, <1>4, <2>1, <2>3 DEF Knows
  <2> QED BY <1>1, <2>2, <2>3, <2>4, QuietStep DEF Repairing
<1>7. CASE ~Evidence(k, answer)
  <2>1. sweeper' = [sweeper EXCEPT ![t] = NextKey(s, k)]
    BY <1>5, <1>7 DEF Goes
  <2> QED BY <1>1, <2>1, MovesOnStep
<1> QED BY <1>6, <1>7

(* No answer: on to the next key.                                          *)
LEMMA NoAnswerStep ==
  ASSUME IInv, NEW t \in Threads, NEW k \in Keys, NoAnswer(t, k)
  PROVE  IInv'
<1>1. sweeper' = [sweeper EXCEPT ![t] = NextKey(sweeper[t], k)]
      /\ UNCHANGED <<keyVars, providerVars, flagged, entries, lost>>
  BY DEF NoAnswer, Goes
<1> QED BY <1>1, MovesOnStep

(* Whatever is booked for the one attempt of a key closes its suspense.    *)
LEMMA Booked ==
  ASSUME IInv, NEW k \in Keys,
         NEW p \in {Ledger!AfterSale(books[k], 1), Ledger!AfterNotExecuted(books[k], 1)}
  PROVE  p \in Ledger!Position /\ p.open = {}
<1> DEFINE b == books[k]
<1>1. b \in Ledger!Position
  BY DEF IInv, DataTypes
<1>2. Ledger!Sold(b) \/ 1 \in b.settled => b.open = {}
  BY DEF IInv, BooksClose
<1> HIDE DEF b
<1>3. b.open \in SUBSET {1} /\ b.settled \in SUBSET {1} /\ b.sold \in {0, 1}
  BY <1>1 DEF Ledger!Position
<1>4. LET q == Ledger!AfterSale(b, 1) IN q \in Ledger!Position /\ q.open = {}
  BY <1>1, <1>2 DEF Ledger!AfterSale, Ledger!Position
<1>5. LET q == Ledger!AfterNotExecuted(b, 1) IN q \in Ledger!Position /\ q.open = {}
  <2>1. CASE 1 \in b.settled
    BY <1>1, <1>2, <2>1 DEF Ledger!AfterNotExecuted
  <2>2. CASE 1 \notin b.settled
    <3> DEFINE o == b.open \ {1}
               d == b.settled \cup {1}
    <3>1. o = {} /\ d \in SUBSET {1}
      BY <1>3
    <3>2. Ledger!AfterNotExecuted(b, 1) = [b EXCEPT !.open = o, !.settled = d]
      BY <1>1, <2>2 DEF Ledger!AfterNotExecuted, Ledger!Position
    <3> HIDE DEF o, d
    <3> QED BY <1>1, <3>1, <3>2 DEF Ledger!Position
  <2> QED BY <2>1, <2>2
<1> QED BY <1>4, <1>5 DEF b

(* A key is settled, or only booked, and the cycle moves on.               *)
LEMMA SettledStep ==
  ASSUME IInv, NEW t \in Threads, NEW k \in Keys, NEW n \in Sweeper,
         NEW outcome \in {COMPLETED, FAILED, PENDING},
         NEW p \in {Ledger!AfterSale(books[k], 1), Ledger!AfterNotExecuted(books[k], 1)},
         status' = [status EXCEPT ![k] = outcome],
         books' = [books EXCEPT ![k] = p],
         sweeper' = [sweeper EXCEPT ![t] = n],
         UNCHANGED <<slot, orders, aged, flagged, entries, lost>>,
         Knows(n, status, orders),
         n.pass = sweeper[t].pass, n.todo \subseteq sweeper[t].todo
  PROVE  IInv'
<1>1. p \in Ledger!Position /\ p.open = {}
  BY Booked
<1>2. \A j \in Keys : status[j] # "none" => status'[j] # "none"
  BY DEF IInv, DataTypes, COMPLETED, FAILED, PENDING
<1>3. DataTypes'
  BY <1>1 DEF IInv, DataTypes
<1>4. BooksClose'
  <2> SUFFICES ASSUME NEW j \in Keys,
                      (Ledger!Sold(books[j]) \/ 1 \in books[j].settled \/ status[j] = "none")'
               PROVE  books'[j].open = {}
    BY DEF BooksClose
  <2>1. CASE j = k
    BY <1>1, <2>1 DEF IInv, DataTypes
  <2>2. CASE j # k
    <3>1. books'[j] = books[j] /\ status'[j] = status[j]
      BY <2>2 DEF IInv, DataTypes
    <3> QED BY <3>1 DEF IInv, BooksClose, Ledger!Sold
  <2> QED BY <2>1, <2>2
<1>5. ReleasedIsUncharged'
  BY DEF IInv, ReleasedIsUncharged
<1>6. Knows(n, status', orders)
  <2>1. n.todo \in SUBSET Keys
    BY DEF Sweeper
  <2> QED BY <1>2, <2>1 DEF Knows
<1>7. CyclesKnow'
  BY <1>2, <1>6, OthersKnow DEF IInv
<1>8. AskedByThreads'
  BY NobodyAsks DEF IInv, Repairing
<1> QED BY <1>3, <1>4, <1>5, <1>7, <1>8 DEF IInv

(* A repair that asks a human is the last of its thread to ask about k.    *)
LEMMA HumanAskedStep ==
  ASSUME IInv, NEW t \in Threads, NEW k \in Keys, k \in sweeper[t].todo,
         sweeper[t].pass = "repair",
         sweeper' = [sweeper EXCEPT ![t] = NextKey(sweeper[t], k)],
         flagged' = flagged \cup {k}, entries' = [entries EXCEPT ![k] = entries[k] + 1],
         UNCHANGED <<status, books, slot, orders, aged, lost>>
  PROVE  IInv'
<1> DEFINE n == NextKey(sweeper[t], k)
<1>1. n \in Sweeper /\ Knows(n, status, orders) /\ n.pass = "repair"
      /\ n.todo = sweeper[t].todo \ {k}
  BY NextKeyStep DEF IInv
<1> HIDE DEF n
<1>2. DataTypes'
  BY <1>1 DEF IInv, DataTypes, n
<1>3. BooksClose' /\ ReleasedIsUncharged'
  BY DEF IInv, BooksClose, ReleasedIsUncharged
<1>4. CyclesKnow'
  BY <1>1, OthersKnow DEF IInv, n
<1>5. AskedByThreads'
  <2> SUFFICES ASSUME NEW j \in Keys
               PROVE  /\ j \notin flagged' => entries'[j] <= lost[j]
                      /\ j \in flagged' => entries'[j] + Cardinality(Repairing(j)')
                                             <= Cardinality(Threads) + lost[j]
    BY DEF AskedByThreads
  <2>1. sweeper[t] \in Sweeper /\ entries[j] \in Nat /\ lost[j] \in Nat
        /\ sweeper' = [sweeper EXCEPT ![t] = n]
    BY DEF IInv, DataTypes, n
  <2>2. CASE j = k
    <3>1. Repairing(k)' = Repairing(k) \ {t} /\ t \in Repairing(k)
      BY <1>1, <2>1 DEF Repairing, IInv, DataTypes
    <3>2. Cardinality(Repairing(k)') = Cardinality(Repairing(k)) - 1
      BY <3>1, RepairersAreFinite, FS_RemoveElement
    <3>3. entries[k] + Cardinality(Repairing(k)) <= Cardinality(Threads) + lost[k]
      BY <2>1, <2>2, RepairersAreFinite DEF IInv, AskedByThreads
    <3>4. entries'[k] = entries[k] + 1
      BY DEF IInv, DataTypes
    <3> QED BY <2>1, <2>2, <3>2, <3>3, <3>4, RepairersAreFinite
  <2>3. CASE j # k
    <3>1. Repairing(j)' = Repairing(j)
      BY <1>1, <2>1, <2>3 DEF Repairing, IInv, DataTypes
    <3>2. entries'[j] = entries[j] /\ (j \in flagged' <=> j \in flagged)
      BY <2>3 DEF IInv, DataTypes
    <3> QED BY <3>1, <3>2 DEF IInv, AskedByThreads
  <2> QED BY <2>2, <2>3
<1> QED BY <1>2, <1>3, <1>4, <1>5 DEF IInv

(* What a cycle does with an answer that decides; the disjuncts of Act.    *)
LEMMA ActCases ==
  ASSUME IInv, NEW t \in Threads, NEW k \in Keys, Act(t, k)
  PROVE  LET s == sweeper[t] IN
    /\ s \in Sweeper /\ k \in s.todo /\ Knows(s, status, orders)
    /\ s.answer = orders[k] /\ status[k] \in {COMPLETED, FAILED, PENDING}
    /\ UNCHANGED <<slot, orders, aged>>
    /\ \/ LeaveToHumans(t, k)
       \/ s.answer = 0 /\ Settle(t, k, FAILED, Ledger!AfterNotExecuted(books[k], 1))
       \/ s.answer = 0 /\ BookOnly(t, k, Ledger!AfterNotExecuted(books[k], 1))
       \/ s.answer = 1 /\ BookOnly(t, k, Ledger!AfterSale(books[k], 1))
       \/ s.answer = 1 /\ Settle(t, k, COMPLETED, Ledger!AfterSale(books[k], 1))
<1> DEFINE s == sweeper[t]
<1>1. s \in Sweeper /\ Knows(s, status, orders)
  BY DEF IInv, DataTypes, CyclesKnow
<1>2. s.pc = "act" /\ k = Min(s.todo)
  BY DEF Act, Visiting
<1>3. s.todo # {} /\ s.todo \in SUBSET Keys /\ s.answer = orders[k]
  BY <1>1, <1>2 DEF Knows, Sweeper
<1>4. k \in s.todo
  BY <1>2, <1>3, VisitedIsToDo
<1>5. status[k] # "none"
  BY <1>1, <1>4 DEF Knows
<1>6. status[k] \in {COMPLETED, FAILED, PENDING}
  BY <1>5 DEF IInv, DataTypes
<1> HIDE DEF s
<1>7. UNCHANGED <<slot, orders, aged>>
  BY DEF Act, providerVars
<1>8. \/ LeaveToHumans(t, k)
      \/ s.answer = 0 /\ Settle(t, k, FAILED, Ledger!AfterNotExecuted(books[k], 1))
      \/ s.answer = 0 /\ BookOnly(t, k, Ledger!AfterNotExecuted(books[k], 1))
      \/ s.answer = 1 /\ BookOnly(t, k, Ledger!AfterSale(books[k], 1))
      \/ s.answer = 1 /\ Settle(t, k, COMPLETED, Ledger!AfterSale(books[k], 1))
  BY DEF Act, s
<1> QED BY <1>1, <1>3, <1>4, <1>6, <1>7, <1>8 DEF s

(* On to the slot.                                                         *)
LEMMA SlotNext ==
  ASSUME NEW s \in Sweeper, s.answer \in {0, 1}, s.todo # {}, NEW recorded, NEW charged,
         \A k \in s.todo : recorded[k] # "none", s.answer = charged[Min(s.todo)]
  PROVE  LET n == [s EXCEPT !.pc = "slot"]
         IN  n \in Sweeper /\ Knows(n, recorded, charged) /\ n.pass = s.pass /\ n.todo = s.todo
<1> DEFINE n == [s EXCEPT !.pc = "slot"]
<1>1. n \in Sweeper /\ n.pass = s.pass /\ n.todo = s.todo /\ n.answer = s.answer
      /\ n.pc = "slot"
  BY DEF Sweeper
<1> HIDE DEF n
<1>2. Knows(n, recorded, charged)
  BY <1>1 DEF Knows
<1> QED BY <1>1, <1>2 DEF n

(* Settling a key.                                                         *)
LEMMA SettleStep ==
  ASSUME IInv, NEW t \in Threads, NEW k \in Keys, Act(t, k),
         sweeper[t].answer \in {0, 1},
         NEW outcome \in {COMPLETED, FAILED},
         NEW p \in {Ledger!AfterSale(books[k], 1), Ledger!AfterNotExecuted(books[k], 1)},
         Settle(t, k, outcome, p)
  PROVE  IInv'
<1> DEFINE s == sweeper[t]
           n == IF s.row = outcome THEN NextKey(s, k) ELSE [s EXCEPT !.pc = "slot"]
<1>1. s \in Sweeper /\ k \in s.todo /\ Knows(s, status, orders) /\ s.answer \in {0, 1}
      /\ s.answer = orders[k] /\ UNCHANGED <<slot, orders, aged>> /\ k = Min(s.todo)
  BY ActCases DEF Act, Visiting
<1>2. n \in Sweeper /\ Knows(n, status, orders) /\ n.pass = s.pass /\ n.todo \subseteq s.todo
  <2>1. CASE s.row = outcome
    BY <2>1, NextKeyStep DEF IInv
  <2>2. CASE s.row # outcome
    <3>1. (\A j \in s.todo : status[j] # "none") /\ s.todo # {} /\ s.answer = orders[Min(s.todo)]
      BY <1>1 DEF Knows
    <3>2. n = [s EXCEPT !.pc = "slot"]
      BY <2>2
    <3> HIDE DEF n, s
    <3> QED BY <1>1, <3>1, <3>2, SlotNext
  <2> QED BY <2>1, <2>2
<1> HIDE DEF n
<1>3. status' = [status EXCEPT ![k] = outcome] /\ books' = [books EXCEPT ![k] = p]
      /\ sweeper' = [sweeper EXCEPT ![t] = n] /\ UNCHANGED <<flagged, entries, lost>>
  BY DEF Act, Settle, Goes, n
<1> QED BY <1>1, <1>2, <1>3, SettledStep

(* Booking for a key that is settled already.                              *)
LEMMA BookOnlyStep ==
  ASSUME IInv, NEW t \in Threads, NEW k \in Keys, Act(t, k),
         NEW p \in {Ledger!AfterSale(books[k], 1), Ledger!AfterNotExecuted(books[k], 1)},
         BookOnly(t, k, p)
  PROVE  IInv'
<1> DEFINE n == NextKey(sweeper[t], k)
<1>1. status[k] \in {COMPLETED, FAILED, PENDING} /\ UNCHANGED <<slot, orders, aged>>
  BY ActCases
<1>2. n \in Sweeper /\ Knows(n, status, orders) /\ n.pass = sweeper[t].pass
      /\ n.todo \subseteq sweeper[t].todo
  BY NextKeyStep DEF IInv
<1> HIDE DEF n
<1>3. status' = [status EXCEPT ![k] = status[k]] /\ books' = [books EXCEPT ![k] = p]
      /\ sweeper' = [sweeper EXCEPT ![t] = n] /\ UNCHANGED <<flagged, entries, lost>>
  BY DEF Act, BookOnly, Goes, n, IInv, DataTypes
<1> QED BY <1>1, <1>2, <1>3, SettledStep

(* reconcile() with an answer.                                             *)
LEMMA ActStep ==
  ASSUME IInv, NEW t \in Threads, NEW k \in Keys, Act(t, k)
  PROVE  IInv'
<1>1. k \in sweeper[t].todo /\ UNCHANGED <<slot, orders, aged>> /\ sweeper[t] \in Sweeper
  BY ActCases
<1>0. UNCHANGED lost
  BY DEF Act
<1>2. CASE LeaveToHumans(t, k)
  <2>1. UNCHANGED <<status, books>>
        /\ sweeper' = [sweeper EXCEPT ![t] = NextKey(sweeper[t], k)]
    BY <1>2 DEF LeaveToHumans, Goes
  <2>2. CASE sweeper[t].pass = "repair"
    <3>1. flagged' = flagged \cup {k} /\ entries' = [entries EXCEPT ![k] = entries[k] + 1]
      BY <1>2, <2>2 DEF LeaveToHumans, Flagged
    <3> QED BY <1>0, <1>1, <2>1, <2>2, <3>1, HumanAskedStep
  <2>3. CASE sweeper[t].pass # "repair"
    <3>1. UNCHANGED <<flagged, entries, lost>>
      BY <1>0, <1>2, <2>3 DEF LeaveToHumans, Flagged, IInv, DataTypes
    <3> QED BY <1>1, <2>1, <3>1, MovesOnStep DEF keyVars, providerVars
  <2> QED BY <2>2, <2>3
<1>3. CASE sweeper[t].answer = 0 /\ Settle(t, k, FAILED, Ledger!AfterNotExecuted(books[k], 1))
  BY <1>3, SettleStep
<1>4. CASE sweeper[t].answer = 1 /\ Settle(t, k, COMPLETED, Ledger!AfterSale(books[k], 1))
  BY <1>4, SettleStep
<1>5. CASE BookOnly(t, k, Ledger!AfterNotExecuted(books[k], 1))
  BY <1>5, BookOnlyStep
<1>6. CASE BookOnly(t, k, Ledger!AfterSale(books[k], 1))
  BY <1>6, BookOnlyStep
<1> QED BY <1>2, <1>3, <1>4, <1>5, <1>6, ActCases

(* An entry taken for unwritten is counted as such; its thread asks no     *)
(* more until it lists again.                                              *)
LEMMA EntryTakenForLostStep ==
  ASSUME IInv, NEW t \in Threads, NEW k \in Keys, DivergenceAnswerLost(t, k)
  PROVE  IInv'
<1>1. /\ sweeper' = [sweeper EXCEPT ![t] = Idle]
      /\ entries' = [entries EXCEPT ![k] = entries[k] + 1]
      /\ lost' = [lost EXCEPT ![k] = lost[k] + 1]
      /\ UNCHANGED <<status, books, slot, orders, aged, flagged>>
  BY DEF DivergenceAnswerLost, AfterException, Goes, keyVars, providerVars
<1>2. Idle \in Sweeper /\ Idle.todo = {} /\ Knows(Idle, status, orders)
  BY IdleKnows
<1>3. DataTypes'
  BY <1>1, <1>2 DEF IInv, DataTypes
<1>4. BooksClose' /\ ReleasedIsUncharged'
  BY <1>1 DEF IInv, BooksClose, ReleasedIsUncharged
<1>5. CyclesKnow'
  BY <1>1, <1>2, OthersKnow DEF IInv
<1>6. AskedByThreads'
  <2> SUFFICES ASSUME NEW j \in Keys
               PROVE  /\ j \notin flagged => entries'[j] <= lost'[j]
                      /\ j \in flagged => entries'[j] + Cardinality(Repairing(j)')
                                            <= Cardinality(Threads) + lost'[j]
    BY <1>1 DEF AskedByThreads
  <2>1. /\ entries[j] \in Nat /\ lost[j] \in Nat
        /\ \/ entries'[j] = entries[j] /\ lost'[j] = lost[j]
           \/ entries'[j] = entries[j] + 1 /\ lost'[j] = lost[j] + 1
    BY <1>1 DEF IInv, DataTypes
  <2>2. Repairing(j)' \in SUBSET Repairing(j)
    BY <1>1, <1>2 DEF Repairing, IInv, DataTypes
  <2>3. Cardinality(Repairing(j)') <= Cardinality(Repairing(j))
        /\ Cardinality(Repairing(j)') \in Nat
    BY <2>2, RepairersAreFinite, FS_Subset, FS_CardinalityType
  <2>4. /\ j \notin flagged => entries[j] <= lost[j]
        /\ j \in flagged =>
             entries[j] + Cardinality(Repairing(j)) <= Cardinality(Threads) + lost[j]
    BY DEF IInv, AskedByThreads
  <2> QED BY <2>1, <2>3, <2>4, RepairersAreFinite
<1> QED BY <1>3, <1>4, <1>5, <1>6 DEF IInv

(* The slot after the books: it is handed back only for a key that was not *)
(* charged.                                                                *)
LEMMA SettleSlotStep ==
  ASSUME IInv, NEW t \in Threads, NEW k \in Keys, SettleSlot(t, k)
  PROVE  IInv' /\ (slot'[k] = "released" => orders[k] = 0)
               /\ \A j \in Keys : j # k => slot'[j] = slot[j]
<1> DEFINE s == sweeper[t]
           n == NextKey(s, k)
<1>1. s \in Sweeper /\ Knows(s, status, orders) /\ s.pc = "slot" /\ k = Min(s.todo)
  BY DEF IInv, DataTypes, CyclesKnow, SettleSlot, Visiting
<1>2. s.answer = orders[k] /\ s.answer \in {0, 1}
  BY <1>1 DEF Knows, Sweeper
<1>3. n \in Sweeper /\ Knows(n, status, orders) /\ n.pass = s.pass /\ n.todo \subseteq s.todo
  BY NextKeyStep DEF IInv
<1>4. slot' = [slot EXCEPT ![k] = IF s.answer = 1 THEN "confirmed" ELSE "released"]
      /\ sweeper' = [sweeper EXCEPT ![t] = n]
      /\ UNCHANGED <<status, books, orders, aged, flagged, entries, lost>>
  BY DEF SettleSlot, Goes, providerVars
<1> HIDE DEF n
<1>5. DataTypes'
  BY <1>3, <1>4 DEF IInv, DataTypes
<1>6. BooksClose'
  BY <1>4 DEF IInv, BooksClose
<1>7. (slot'[k] = "released" => orders[k] = 0) /\ \A j \in Keys : j # k => slot'[j] = slot[j]
  BY <1>2, <1>4 DEF IInv, DataTypes
<1>8. ReleasedIsUncharged'
  BY <1>4, <1>7 DEF IInv, ReleasedIsUncharged
<1>9. CyclesKnow'
  BY <1>3, <1>4, OthersKnow DEF IInv
<1>10. AskedByThreads'
  BY <1>3, <1>4, NobodyAsks DEF IInv, Repairing
<1> QED BY <1>5, <1>6, <1>7, <1>8, <1>9, <1>10 DEF IInv

(* A purchase leaves a key that no cycle has listed.                       *)
LEMMA LeaveStep ==
  ASSUME IInv, NEW k \in Keys, NEW left \in Leftovers, NEW n \in 0 .. 2, Leave(k, left, n)
  PROVE  IInv'
<1>1. left.status \in {COMPLETED, FAILED, PENDING} /\ left.position \in Ledger!Position
      /\ ~Ledger!Sold(left.position) /\ 1 \notin left.position.settled
  BY DEF Leftovers, Suspended, Ledger!AfterUnverified, Ledger!EmptyPosition, Ledger!Sold,
         Ledger!Position
<1>2. /\ status[k] = "none"
      /\ status' = [status EXCEPT ![k] = left.status]
      /\ books' = [books EXCEPT ![k] = left.position]
      /\ slot' = [slot EXCEPT ![k] = "held"]
      /\ orders' = [orders EXCEPT ![k] = n]
      /\ UNCHANGED <<aged, sweeper, flagged, entries, lost>>
  BY DEF Leave
<1>3. left.status # "none"
  BY <1>1 DEF COMPLETED, FAILED, PENDING
<1>4. DataTypes'
  BY <1>1, <1>2 DEF IInv, DataTypes
<1>5. BooksClose'
  <2> SUFFICES ASSUME NEW j \in Keys,
                      (Ledger!Sold(books[j]) \/ 1 \in books[j].settled \/ status[j] = "none")'
               PROVE  books'[j].open = {}
    BY DEF BooksClose
  <2>1. CASE j = k
    BY <1>1, <1>2, <1>3, <2>1 DEF IInv, DataTypes, Ledger!Sold
  <2>2. CASE j # k
    <3>1. books'[j] = books[j] /\ status'[j] = status[j]
      BY <1>2, <2>2 DEF IInv, DataTypes
    <3> QED BY <3>1 DEF IInv, BooksClose, Ledger!Sold
  <2> QED BY <2>1, <2>2
<1>6. ReleasedIsUncharged'
  BY <1>2 DEF IInv, DataTypes, ReleasedIsUncharged
<1>7. CyclesKnow'
  <2> SUFFICES ASSUME NEW u \in Threads PROVE Knows(sweeper[u], status', orders')
    BY <1>2 DEF CyclesKnow
  <2> DEFINE s == sweeper[u]
  <2>1. s \in Sweeper /\ Knows(s, status, orders)
    BY DEF IInv, DataTypes, CyclesKnow
  <2>2. s.todo \in SUBSET Keys /\ k \notin s.todo
    BY <1>2, <2>1 DEF Knows, Sweeper
  <2>3. \A j \in s.todo : status'[j] = status[j] /\ orders'[j] = orders[j]
    BY <1>2, <2>2 DEF IInv, DataTypes
  <2>4. s.todo # {} => Min(s.todo) \in s.todo
    BY <2>2, VisitedIsToDo
  <2> HIDE DEF s
  <2>5. Knows(s, status', orders')
    BY <2>1, <2>3, <2>4 DEF Knows
  <2> QED BY <2>5 DEF s
<1>8. AskedByThreads'
  BY <1>2 DEF IInv, AskedByThreads, Repairing
<1> QED BY <1>4, <1>5, <1>6, <1>7, <1>8 DEF IInv

(* After a restart nothing is known, flagged or logged.                    *)
LEMMA CrashStep ==
  ASSUME IInv, Crash
  PROVE  IInv'
<1>1. /\ sweeper' = [t \in Threads |-> Idle] /\ flagged' = {}
      /\ entries' = [k \in Keys |-> 0] /\ lost' = [k \in Keys |-> 0]
      /\ UNCHANGED <<status, books, slot, orders, aged>>
  BY DEF Crash, keyVars, providerVars
<1>2. Idle \in Sweeper /\ Knows(Idle, status, orders)
  BY IdleKnows
<1>3. DataTypes'
  BY <1>1, <1>2 DEF IInv, DataTypes
<1>4. BooksClose' /\ ReleasedIsUncharged'
  BY <1>1 DEF IInv, BooksClose, ReleasedIsUncharged
<1>5. CyclesKnow'
  BY <1>1, <1>2 DEF CyclesKnow
<1>6. AskedByThreads'
  BY <1>1 DEF AskedByThreads
<1> QED BY <1>3, <1>4, <1>5, <1>6 DEF IInv

(* Steps that touch no key and no cycle.                                   *)
LEMMA StillStep ==
  ASSUME IInv, UNCHANGED <<status, books, slot, orders, sweeper, flagged, entries, lost>>,
         aged' \in [Keys -> BOOLEAN]
  PROVE  IInv'
BY DEF IInv, DataTypes, BooksClose, ReleasedIsUncharged, CyclesKnow, AskedByThreads, Repairing

(* The invariant holds at the start.                                       *)
LEMMA InitIInv == Init => IInv
<1> SUFFICES ASSUME Init PROVE IInv
  OBVIOUS
<1>1. /\ sweeper = [t \in Threads |-> Idle] /\ flagged = {}
      /\ entries = [k \in Keys |-> 0] /\ lost = [k \in Keys |-> 0]
      /\ status = [k \in Keys |-> "none"] /\ books = [k \in Keys |-> Ledger!EmptyPosition]
      /\ slot = [k \in Keys |-> "none"] /\ orders = [k \in Keys |-> 0]
      /\ aged = [k \in Keys |-> FALSE]
  BY DEF Init
<1>2. Idle \in Sweeper /\ Knows(Idle, status, orders)
  BY IdleKnows
<1>3. Ledger!EmptyPosition \in Ledger!Position /\ Ledger!EmptyPosition.open = {}
  BY DEF Ledger!EmptyPosition, Ledger!Position
<1>4. DataTypes
  BY <1>1, <1>2, <1>3 DEF DataTypes
<1>5. BooksClose /\ ReleasedIsUncharged /\ AskedByThreads
  BY <1>1, <1>3 DEF BooksClose, ReleasedIsUncharged, AskedByThreads
<1>6. CyclesKnow
  BY <1>1, <1>2 DEF CyclesKnow
<1> QED BY <1>4, <1>5, <1>6 DEF IInv

(* ... and after every step.                                               *)
LEMMA StepIInv == IInv /\ [Next]_vars => IInv'
<1> SUFFICES ASSUME IInv, [Next]_vars PROVE IInv'
  OBVIOUS
<1>1. ASSUME NEW k \in Keys, NEW left \in Leftovers, NEW n \in 0 .. 2, Leave(k, left, n)
      PROVE  IInv'
  BY <1>1, LeaveStep
<1>2. ASSUME NEW k \in Keys, GracePasses(k) PROVE IInv'
  <2>1. UNCHANGED <<status, books, slot, orders, sweeper, flagged, entries, lost>>
        /\ aged' \in [Keys -> BOOLEAN]
    BY <1>2 DEF GracePasses, keyVars, IInv, DataTypes
  <2> QED BY <2>1, StillStep
<1>3. ASSUME NEW t \in Threads, List(t) PROVE IInv'
  BY <1>3, ListStep
<1>4. ASSUME NEW t \in Threads, PassEnds(t) \/ CycleFails(t) PROVE IInv'
  <2>1. /\ \E s \in {Idle, CycleStarts, [CycleStarts EXCEPT !.pass = "repair"]} :
             sweeper' = [sweeper EXCEPT ![t] = s]
        /\ UNCHANGED <<keyVars, providerVars, flagged, entries, lost>>
    BY <1>4 DEF PassEnds, CycleFails, AfterException, Goes
  <2> QED BY <2>1, CycleTurnStep
<1>5. ASSUME NEW t \in Threads, NEW k \in Keys,
             \/ Ask(t, k) \/ NoAnswer(t, k) \/ Act(t, k)
             \/ DivergenceAnswerLost(t, k) \/ SettleSlot(t, k)
      PROVE  IInv'
  BY <1>5, AskStep, NoAnswerStep, ActStep, EntryTakenForLostStep, SettleSlotStep
<1>6. ASSUME NEW t \in Threads,
             (t \in Loops /\ LoopTurns(t)) \/ \E d \in Deliveries : t = Receiver /\ Accept(d)
      PROVE  IInv'
  <2>1. /\ sweeper' = [sweeper EXCEPT ![t] = CycleStarts]
        /\ UNCHANGED <<keyVars, providerVars, flagged, entries, lost>>
    BY <1>6 DEF LoopTurns, Accept, Goes
  <2> QED BY <2>1, CycleTurnStep
<1>7. ASSUME \/ \E l \in Loops : LoopExits(l) \/ Start(l)
             \/ Stop \/ \E d \in Deliveries : LogFails(d)
             \/ UNCHANGED vars
      PROVE  IInv'
  <2>1. UNCHANGED <<status, books, slot, orders, sweeper, flagged, entries, lost>>
        /\ aged' = aged
    BY <1>7 DEF LoopExits, Start, Stop, LogFails, vars, keyVars, providerVars
  <2>2. aged' \in [Keys -> BOOLEAN]
    BY <2>1 DEF IInv, DataTypes
  <2> QED BY <2>1, <2>2, StillStep
<1>8. CASE Crash
  BY <1>8, CrashStep
<1>9. Receiver \in Threads /\ Loops \subseteq Threads
  BY DEF Threads
<1> QED BY <1>1, <1>2, <1>3, <1>4, <1>5, <1>6, <1>7, <1>8, <1>9 DEF Next

(* The inductive invariant holds in every reachable state.                 *)
THEOREM Inductive == Spec => []IInv
<1>1. IInv /\ [Next]_vars => IInv'
  BY StepIInv
<1> QED BY InitIInv, <1>1, PTL DEF Spec

-----------------------------------------------------------------------------

(* At most one entry for a human is logged about a key in a process, by    *)
(* which it is flagged, one more for every other thread that was repairing *)
(* then, and one for every entry whose COMMIT was taken for failed         *)
(* (repair_ledger).                                                        *)
THEOREM AskedOncePerThread == Spec => []HumansAreAskedOnce
<1>1. IInv => HumansAreAskedOnce
  <2> SUFFICES ASSUME IInv, NEW k \in Keys
               PROVE  entries[k] <= lost[k] + IF k \in flagged THEN Cardinality(Threads) ELSE 0
    BY DEF HumansAreAskedOnce
  <2>1. entries[k] \in Nat /\ lost[k] \in Nat
    BY DEF IInv, DataTypes
  <2>2. k \notin flagged => entries[k] <= lost[k]
    BY DEF IInv, AskedByThreads
  <2>3. k \in flagged =>
          entries[k] + Cardinality(Repairing(k)) <= Cardinality(Threads) + lost[k]
    BY DEF IInv, AskedByThreads
  <2> QED BY <2>1, <2>2, <2>3, RepairersAreFinite
<1> QED BY Inductive, <1>1, PTL

(* What a step may do to a key, as SettledByTheProvider says it.           *)
Settled(k) ==
  /\ Frozen(k) /\ ~Frozen(k)' =>
       \/ /\ status'[k] = COMPLETED /\ orders[k] = 1
          /\ Ledger!Sold(books'[k]) /\ books'[k].open = {}
       \/ status'[k] = FAILED /\ orders[k] = 0 /\ books'[k].open = {}
  /\ slot'[k] = "released" => orders[k] = 0

(* Most steps change neither the record nor the slot.                      *)
LEMMA SettledStill ==
  ASSUME IInv, UNCHANGED <<status, slot>>, NEW k \in Keys
  PROVE  Settled(k)
BY DEF Settled, IInv, ReleasedIsUncharged, Frozen

(* The answer that decides is what the provider did.                       *)
LEMMA ActSettles ==
  ASSUME IInv, NEW t \in Threads, NEW k \in Keys, Act(t, k), NEW j \in Keys
  PROVE  Settled(j)
<1> DEFINE s == sweeper[t]
           notExecuted == Ledger!AfterNotExecuted(books[k], 1)
           sale == Ledger!AfterSale(books[k], 1)
<1>1. s.answer = orders[k] /\ UNCHANGED slot /\ notExecuted.open = {} /\ sale.open = {}
  BY ActCases, Booked
<1>2. slot'[j] = "released" => orders[j] = 0
  BY <1>1 DEF IInv, ReleasedIsUncharged
<1>3. CASE UNCHANGED status
  BY <1>1, <1>3, SettledStill
<1>4. ASSUME NEW outcome, NEW p, Settle(t, k, outcome, p), j # k
      PROVE  Settled(j)
  <2>1. status'[j] = status[j]
    BY <1>4 DEF Settle, IInv, DataTypes
  <2> QED BY <1>2, <2>1 DEF Settled, Frozen
<1>5. CASE s.answer = 0 /\ Settle(t, k, FAILED, notExecuted)
  <2>1. status'[k] = FAILED /\ books'[k] = notExecuted
    BY <1>5 DEF Settle, IInv, DataTypes
  <2> HIDE DEF notExecuted
  <2>2. CASE j = k
    BY <1>1, <1>2, <1>5, <2>1, <2>2 DEF Settled
  <2> QED BY <1>4, <1>5, <2>2
<1>6. CASE s.answer = 1 /\ Settle(t, k, COMPLETED, sale)
  <2>1. status'[k] = COMPLETED /\ books'[k] = sale
    BY <1>6 DEF Settle, IInv, DataTypes
  <2>2. Ledger!Sold(sale)
    BY DEF Ledger!AfterSale, Ledger!Sold, IInv, DataTypes, Ledger!Position
  <2> HIDE DEF sale
  <2>3. CASE j = k
    BY <1>1, <1>2, <1>6, <2>1, <2>2, <2>3 DEF Settled
  <2> QED BY <1>4, <1>6, <2>3
<1> QED BY <1>3, <1>5, <1>6, ActCases DEF LeaveToHumans, BookOnly

(* A frozen key is settled to what the provider did, books and record in   *)
(* one step, and the slot of a charged key is never handed back            *)
(* (reconcile, _confirm_slot, _release_slot).                              *)
THEOREM SettledAsCharged == Spec => SettledByTheProvider
<1>1. ASSUME IInv, [Next]_vars, NEW j \in Keys PROVE Settled(j)
  <2>1. ASSUME NEW k \in Keys, NEW left \in Leftovers, NEW n \in 0 .. 2, Leave(k, left, n)
        PROVE  Settled(j)
    <3>1. /\ status[k] = "none" /\ status' = [status EXCEPT ![k] = left.status]
          /\ slot' = [slot EXCEPT ![k] = "held"]
      BY <2>1 DEF Leave
    <3>2. CASE j = k
      BY <1>1, <3>1, <3>2 DEF Settled, Frozen, PENDING, IInv, DataTypes
    <3>3. CASE j # k
      BY <1>1, <3>1, <3>3 DEF Settled, Frozen, IInv, DataTypes, ReleasedIsUncharged
    <3> QED BY <3>2, <3>3
  <2>2. ASSUME NEW t \in Threads, NEW k \in Keys, Act(t, k) PROVE Settled(j)
    BY <1>1, <2>2, ActSettles
  <2>3. ASSUME NEW t \in Threads, NEW k \in Keys, SettleSlot(t, k) PROVE Settled(j)
    <3>1. UNCHANGED status
      BY <2>3 DEF SettleSlot
    <3>2. slot'[j] = "released" => orders[j] = 0
      BY <1>1, <2>3, SettleSlotStep DEF IInv, ReleasedIsUncharged
    <3> QED BY <3>1, <3>2 DEF Settled, Frozen
  <2>4. ASSUME \/ \E k \in Keys : GracePasses(k)
               \/ \E t \in Threads :
                    \/ List(t) \/ PassEnds(t) \/ CycleFails(t)
                    \/ \E k \in Keys :
                         Ask(t, k) \/ NoAnswer(t, k) \/ DivergenceAnswerLost(t, k)
               \/ \E l \in Loops : LoopTurns(l) \/ LoopExits(l) \/ Start(l)
               \/ Stop \/ Crash \/ UNCHANGED vars
               \/ \E d \in Deliveries : Accept(d) \/ LogFails(d)
        PROVE  Settled(j)
    <3>1. UNCHANGED <<status, slot>>
      BY <2>4 DEF GracePasses, List, PassEnds, CycleFails, Ask, NoAnswer,
                  DivergenceAnswerLost, LoopTurns, LoopExits, Start, Stop, Crash, Accept, LogFails, vars, keyVars
    <3> QED BY <1>1, <3>1, SettledStill
  <2> QED BY <1>1, <2>1, <2>2, <2>3, <2>4 DEF Next
<1>2. IInv /\ [Next]_vars => \A j \in Keys : Settled(j)
  BY <1>1
<1>3. IInv /\ [Next]_vars =>
        [\A k \in Keys :
           /\ Frozen(k) /\ ~Frozen(k)' =>
                \/ /\ status'[k] = COMPLETED /\ orders[k] = 1
                   /\ Ledger!Sold(books'[k]) /\ books'[k].open = {}
                \/ status'[k] = FAILED /\ orders[k] = 0 /\ books'[k].open = {}
           /\ slot'[k] = "released" => orders[k] = 0]_vars
  BY <1>2 DEF Settled
<1> QED BY Inductive, <1>3, PTL DEF Spec, SettledByTheProvider


-----------------------------------------------------------------------------
(* The lookup behind a question.  A cycle takes the provider's answer in   *)
(* one step; OrderLookup pages through a list that grows meanwhile.  Its   *)
(* invariant follows the boundary skip: what was listed before it has been *)
(* seen, and an arrival can push an order over the boundary only away from *)
(* the pages already read.                                                 *)


(* InsertAt keeps what is before the place and shifts the rest by one.     *)
Inserted(t, s, o, i) ==
  /\ t \in Seq(Orders) /\ Len(t) = Len(s) + 1
  /\ \A j \in 1 .. Len(s) + 1 :
       t[j] = IF j < i THEN s[j] ELSE IF j = i THEN o ELSE s[j - 1]

LEMMA Insertion ==
  ASSUME NEW s \in Seq(Orders), NEW o \in Orders, NEW i \in 1 .. Len(s) + 1
  PROVE  Inserted(InsertAt(s, i, o), s, o, i)
<1> DEFINE a == SubSeq(s, 1, i - 1)
           b == SubSeq(s, i, Len(s))
           ab == a \o <<o>>
<1>1. i \in Nat /\ Len(s) \in Nat /\ \A j \in 1 .. Len(s) : s[j] \in Orders
  BY LenProperties
<1>2. /\ a \in Seq(Orders) /\ Len(a) = i - 1
      /\ \A j \in 1 .. i - 1 : a[j] = s[j]
  <2>1. \A j \in 1 .. i - 1 : s[j] \in Orders
    BY <1>1
  <2> QED
    BY <1>1, <2>1, SubSeqProperties
<1>3. /\ b \in Seq(Orders) /\ Len(b) = Len(s) - i + 1
      /\ \A j \in 1 .. Len(s) - i + 1 : b[j] = s[i + j - 1]
  <2>1. \A j \in i .. Len(s) : s[j] \in Orders
    BY <1>1
  <2> QED
    BY <1>1, <2>1, SubSeqProperties
<1>4. <<o>> \in Seq(Orders) /\ Len(<<o>>) = 1 /\ <<o>>[1] = o
  OBVIOUS
<1> HIDE DEF a, b
<1>5. /\ ab \in Seq(Orders) /\ Len(ab) = i
      /\ \A j \in 1 .. i : ab[j] = IF j < i THEN s[j] ELSE o
  <2>1. /\ ab \in Seq(Orders) /\ Len(ab) = Len(a) + 1
        /\ \A j \in 1 .. Len(a) + 1 :
             ab[j] = IF j <= Len(a) THEN a[j] ELSE <<o>>[j - Len(a)]
    BY <1>2, <1>4, ConcatProperties
  <2>2. \A j \in 1 .. i : ab[j] = IF j < i THEN s[j] ELSE o
    BY <1>1, <1>2, <1>4, <2>1
  <2> QED
    BY <1>1, <1>2, <2>1, <2>2
<1> HIDE DEF ab
<1>6. /\ ab \o b \in Seq(Orders) /\ Len(ab \o b) = i + (Len(s) - i + 1)
      /\ \A j \in 1 .. i + (Len(s) - i + 1) :
           (ab \o b)[j] = IF j <= i THEN ab[j] ELSE b[j - i]
  BY <1>3, <1>5, ConcatProperties
<1>7. i + (Len(s) - i + 1) = Len(s) + 1
  BY <1>1
<1>8. \A j \in 1 .. Len(s) + 1 :
        (ab \o b)[j] = IF j < i THEN s[j] ELSE IF j = i THEN o ELSE s[j - 1]
  <2> TAKE j \in 1 .. Len(s) + 1
  <2>1. CASE j <= i
    BY <1>1, <1>5, <1>6, <1>7, <2>1
  <2>2. CASE j > i
    <3>1. (ab \o b)[j] = b[j - i] /\ j - i \in 1 .. Len(s) - i + 1
      BY <1>1, <1>6, <1>7, <2>2
    <3>2. b[j - i] = s[i + (j - i) - 1] /\ i + (j - i) - 1 = j - 1
      BY <1>1, <1>3, <3>1
    <3> QED
      BY <1>1, <2>2, <3>1, <3>2
  <2>3. j <= i \/ j > i
    BY <1>1
  <2> QED
    BY <2>1, <2>2, <2>3
<1>9. InsertAt(s, i, o) = ab \o b
  BY DEF InsertAt, ab, a, b
<1> QED
  BY <1>6, <1>7, <1>8, <1>9 DEF Inserted

(* A page holds the list from skip on, PageSize orders or what is left.    *)
LEMMA PageHolds ==
  ASSUME list \in Seq(Orders), NEW skip \in Nat, OrderLookupAssumption
  PROVE  /\ \A o : o \in Range(Page(skip)) <=>
               \E j \in 1 .. Len(list) : /\ skip < j /\ j <= skip + PageSize
                                         /\ list[j] = o
         /\ Exhausted(Page(skip)) <=> Len(list) < skip + PageSize
         /\ Len(Page(skip)) \in Nat
<1> DEFINE n == IF skip + PageSize < Len(list) THEN skip + PageSize ELSE Len(list)
<1>1. /\ PageSize \in Nat /\ PageSize >= 1 /\ Len(list) \in Nat
      /\ \A j \in 1 .. Len(list) : list[j] \in Orders
  BY LenProperties DEF OrderLookupAssumption
<1>2. n \in Nat /\ n <= Len(list) /\ n <= skip + PageSize
  BY <1>1
<1>3. \A j \in skip + 1 .. n : list[j] \in Orders
  BY <1>1, <1>2
<1>4. Page(skip) = SubSeq(list, skip + 1, n)
  BY DEF Page
<1> DEFINE p == SubSeq(list, skip + 1, n)
<1>5. /\ p \in Seq(Orders)
      /\ Len(p) = IF skip + 1 <= n THEN n - (skip + 1) + 1 ELSE 0
      /\ \A j \in 1 .. n - (skip + 1) + 1 : p[j] = list[(skip + 1) + j - 1]
  <2> HIDE DEF n
  <2> QED
    BY <1>2, <1>3, SubSeqProperties
<1> HIDE DEF p
<1>6. DOMAIN p = 1 .. Len(p)
  BY <1>5, LenProperties
<1>7. Len(p) \in Nat
  BY <1>2, <1>5
<1>8. (Len(p) < PageSize) <=> (Len(list) < skip + PageSize)
  BY <1>1, <1>5
<1>9. ASSUME NEW o
      PROVE  o \in Range(p) <=>
               \E j \in 1 .. Len(list) : /\ skip < j /\ j <= skip + PageSize
                                         /\ list[j] = o
  <2>1. ASSUME o \in Range(p)
        PROVE  \E j \in 1 .. Len(list) : /\ skip < j /\ j <= skip + PageSize
                                         /\ list[j] = o
    <3>1. PICK k \in 1 .. Len(p) : p[k] = o
      BY <1>6, <2>1 DEF Range
    <3>2. skip + 1 <= n /\ k \in 1 .. n - (skip + 1) + 1
      <4> HIDE DEF n
      <4> QED
        BY <1>2, <1>5, <3>1
    <3>3. list[(skip + 1) + k - 1] = o /\ (skip + 1) + k - 1 = skip + k
      BY <1>5, <3>1, <3>2
    <3>4. skip + k \in 1 .. Len(list) /\ skip < skip + k /\ skip + k <= skip + PageSize
      BY <1>1, <1>2, <3>2
    <3> QED
      BY <3>3, <3>4
  <2>2. ASSUME NEW j \in 1 .. Len(list), skip < j, j <= skip + PageSize, list[j] = o
        PROVE  o \in Range(p)
    <3>1. j <= n
      BY <1>1, <2>2
    <3>2. j - skip \in 1 .. n - (skip + 1) + 1 /\ (skip + 1) + (j - skip) - 1 = j
      <4> HIDE DEF n
      <4> QED
        BY <1>2, <2>2, <3>1
    <3>3. skip + 1 <= n /\ Len(p) = n - (skip + 1) + 1
      <4> HIDE DEF n
      <4>1. skip + 1 <= n
        BY <1>1, <1>2, <2>2, <3>1
      <4> QED
        BY <1>5, <4>1
    <3>4. p[j - skip] = list[(skip + 1) + (j - skip) - 1]
      <4> HIDE DEF n
      <4> QED
        BY <1>5, <3>2
    <3>5. j - skip \in 1 .. Len(p) /\ p[j - skip] = o
      <4> HIDE DEF n
      <4> QED
        BY <2>2, <3>2, <3>3, <3>4
    <3> QED
      BY <1>6, <3>5 DEF Range
  <2> QED
    BY <2>1, <2>2
<1> QED
  BY <1>4, <1>7, <1>8, <1>9 DEF Exhausted, p

-----------------------------------------------------------------------------
(* The invariant.                                                          *)

ListedOnce == \A i, j \in 1 .. Len(list) : list[i] = list[j] => i = j

(* What was listed at the start was seen, or is still ahead.               *)
SeenOrAhead(s, q, receipts) ==
  \A o \in s.known :
    \/ s.matches[o] > 0
    \/ /\ s.pc # "answered"
       /\ receipts[o] = s.receipt
       /\ \E j \in 1 .. Len(q) : s.skip < j /\ q[j] = o

(* As long as nothing arrived, what was seen is behind, and seen once.     *)
SeenIsBehind(s, q) ==
  ~s.arrivals =>
    \A o \in Orders :
      /\ s.matches[o] <= 1
      /\ s.pc = "paging" /\ s.matches[o] > 0 =>
           \E j \in 1 .. Len(q) : j <= s.skip /\ q[j] = o

(* A list that pages were turned on is as long as those pages.             *)
PagesWereFull(s, q) ==
  s.pc # "answered" =>
    /\ s.skip = s.pages * PageSize
    /\ s.pages > 0 => Len(q) >= s.skip

GoodLookup(s, q, receipts) ==
  SeenOrAhead(s, q, receipts) /\ SeenIsBehind(s, q) /\ PagesWereFull(s, q)

LookupInv ==
  /\ LookupTypeOK
  /\ ListedOnce
  /\ \A l \in Lookups : GoodLookup(lookup[l], list, receiptOf)

-----------------------------------------------------------------------------

(* A lookup that begins.                                                   *)
LEMMA StartedIsGood ==
  ASSUME LookupTypeOK, NEW r \in Receipts, OrderLookupAssumption
  PROVE  Started(r) \in LookupState /\ GoodLookup(Started(r), list, receiptOf)
<1>1. Len(list) \in Nat /\ DOMAIN list = 1 .. Len(list)
      /\ \A j \in 1 .. Len(list) : list[j] \in Orders
  BY LenProperties DEF LookupTypeOK
<1>2. Carrying(r) \subseteq Orders
  BY <1>1 DEF Carrying, Listed, Range
<1>3. Started(r) \in LookupState
  BY <1>2 DEF Started, LookupState
<1>4. \A o \in Carrying(r) :
        receiptOf[o] = r /\ \E j \in 1 .. Len(list) : 0 < j /\ list[j] = o
  BY <1>1 DEF Carrying, Listed, Range
<1>5. 0 * PageSize = 0
  BY DEF OrderLookupAssumption
<1> QED
  BY <1>3, <1>4, <1>5 DEF GoodLookup, SeenOrAhead, SeenIsBehind, PagesWereFull, Started

LEMMA InitGood == ASSUME OrderLookupAssumption PROVE LookupInit => LookupInv
<1> SUFFICES ASSUME LookupInit PROVE LookupInv
  OBVIOUS
<1>1. PICK r \in Receipts : lookup = [l \in Lookups |-> Started(r)]
  BY DEF LookupInit
<1>2. list = <<>> /\ list \in Seq(Orders) /\ Len(list) = 0 /\ DOMAIN list = {}
  BY EmptySeq DEF LookupInit
<1>3. receiptOf \in [Orders -> Receipts]
  BY DEF LookupInit
<1>4. Carrying(r) = {}
  BY <1>2 DEF Carrying, Listed, Range
<1>5. Started(r) \in LookupState
  BY <1>4 DEF Started, LookupState
<1>6. LookupTypeOK
  BY <1>1, <1>2, <1>3, <1>5 DEF LookupTypeOK
<1>7. GoodLookup(Started(r), list, receiptOf)
  BY <1>6, StartedIsGood
<1> QED
  BY <1>1, <1>2, <1>6, <1>7 DEF LookupInv, ListedOnce

-----------------------------------------------------------------------------

(* An order is listed: lookups see the list shift away from what they read.*)
LEMMA ListOrderGood ==
  ASSUME LookupInv, OrderLookupAssumption,
         NEW o \in Orders, NEW i \in 1 .. Len(list) + 1, ListOrder(o, i)
  PROVE  LookupInv'
<1>1. /\ list \in Seq(Orders) /\ Len(list) \in Nat
      /\ DOMAIN list = 1 .. Len(list)
      /\ lookup \in [Lookups -> LookupState]
  BY LenProperties DEF LookupInv, LookupTypeOK
<1>2. /\ list' \in Seq(Orders) /\ Len(list') = Len(list) + 1
      /\ \A j \in 1 .. Len(list) + 1 :
           list'[j] = IF j < i THEN list[j] ELSE IF j = i THEN o ELSE list[j - 1]
  <2>1. list' = InsertAt(list, i, o)
    BY DEF ListOrder
  <2>2. i \in 1 .. Len(list) + 1
    OBVIOUS
  <2>3. Inserted(InsertAt(list, i, o), list, o, i)
    BY <1>1, <2>2, Insertion
  <2> QED
    BY <2>1, <2>3 DEF Inserted
<1>3. \A j \in 1 .. Len(list) : list[j] # o
  BY <1>1 DEF ListOrder, Listed, Range
<1>4. \A j \in 1 .. Len(list) : \E k \in 1 .. Len(list') : j <= k /\ list'[k] = list[j]
  <2> TAKE j \in 1 .. Len(list)
  <2>1. CASE j < i
    BY <1>1, <1>2, <2>1
  <2>2. CASE ~(j < i)
    <3>1. j + 1 \in 1 .. Len(list) + 1 /\ ~(j + 1 < i) /\ j + 1 # i /\ (j + 1) - 1 = j
      BY <1>1, <2>2
    <3>2. list'[j + 1] = list[j] /\ j <= j + 1
      BY <1>2, <3>1
    <3> QED
      BY <1>2, <3>1, <3>2
  <2> QED
    BY <2>1, <2>2
<1>5. ListedOnce'
  <2> SUFFICES ASSUME NEW j \in 1 .. Len(list) + 1, NEW k \in 1 .. Len(list) + 1,
                      list'[j] = list'[k]
               PROVE  j = k
    BY <1>2 DEF ListedOnce
  <2> DEFINE old(m) == IF m < i THEN m ELSE m - 1
  <2>1. /\ j # i => old(j) \in 1 .. Len(list) /\ list'[j] = list[old(j)]
        /\ k # i => old(k) \in 1 .. Len(list) /\ list'[k] = list[old(k)]
    BY <1>1, <1>2
  <2>2. CASE j = i \/ k = i
    BY <1>2, <1>3, <2>1, <2>2
  <2>3. CASE j # i /\ k # i
    <3>1. old(j) = old(k)
      <4> HIDE DEF old
      <4> QED
        BY <2>1, <2>3 DEF LookupInv, ListedOnce
    <3> QED
      BY <1>1, <2>3, <3>1
  <2> QED
    BY <2>2, <2>3
<1>6. ASSUME NEW l \in Lookups
      PROVE  lookup'[l] \in LookupState /\ GoodLookup(lookup'[l], list', receiptOf')
  <2> DEFINE s == lookup[l]
             t == lookup'[l]
  <2>1. s \in LookupState /\ GoodLookup(s, list, receiptOf)
    BY <1>1 DEF LookupInv
  <2>2. t = [s EXCEPT !.arrivals = TRUE]
    BY DEF ListOrder, NoticeArrival
  <2>3. /\ t \in LookupState /\ t.arrivals = TRUE
        /\ t.pc = s.pc /\ t.receipt = s.receipt /\ t.skip = s.skip
        /\ t.pages = s.pages /\ t.matches = s.matches /\ t.known = s.known
    BY <2>1, <2>2 DEF LookupState
  <2>4. receiptOf' = receiptOf
    BY DEF ListOrder
  <2> HIDE DEF s, t
  <2>5. SeenOrAhead(t, list', receiptOf')
    <3> SUFFICES ASSUME NEW p \in s.known, ~(s.matches[p] > 0)
                 PROVE  /\ s.pc # "answered" /\ receiptOf[p] = s.receipt
                        /\ \E k \in 1 .. Len(list') : s.skip < k /\ list'[k] = p
      BY <2>3, <2>4 DEF SeenOrAhead
    <3>1. /\ s.pc # "answered" /\ receiptOf[p] = s.receipt
          /\ \E j \in 1 .. Len(list) : s.skip < j /\ list[j] = p
      BY <2>1 DEF GoodLookup, SeenOrAhead
    <3>2. PICK j \in 1 .. Len(list) : s.skip < j /\ list[j] = p
      BY <3>1
    <3>3. PICK k \in 1 .. Len(list') : j <= k /\ list'[k] = list[j]
      BY <1>4
    <3>4. s.skip \in Nat /\ s.skip < k
      BY <1>1, <1>2, <2>1, <3>2, <3>3 DEF LookupState
    <3> QED
      BY <3>1, <3>2, <3>3, <3>4
  <2>6. SeenIsBehind(t, list')
    BY <2>3 DEF SeenIsBehind
  <2>7. PagesWereFull(t, list')
    <3>1. s.skip \in Nat /\ Len(list') \in Nat /\ Len(list') >= Len(list)
      BY <1>1, <1>2, <2>1 DEF LookupState
    <3> QED
      BY <1>1, <2>1, <2>3, <3>1 DEF GoodLookup, PagesWereFull
  <2> QED
    BY <2>3, <2>5, <2>6, <2>7 DEF GoodLookup, t
<1>7. LookupTypeOK'
  <2>1. lookup' \in [Lookups -> LookupState]
    BY <1>6 DEF ListOrder
  <2> QED
    BY <1>2, <2>1 DEF LookupInv, LookupTypeOK, ListOrder
<1> QED
  BY <1>5, <1>6, <1>7 DEF LookupInv

(* A page is read: what was ahead is on the page, or ahead of the next one. *)
LEMMA ReadPageGood ==
  ASSUME LookupInv, OrderLookupAssumption, NEW l \in Lookups, ReadPage(l)
  PROVE  LookupInv'
<1> DEFINE s == lookup[l]
           page == Page(s.skip)
           t == IF Exhausted(page) THEN LastPage(s) ELSE TurnPage(s)
<1>1. /\ list \in Seq(Orders) /\ Len(list) \in Nat
      /\ lookup \in [Lookups -> LookupState]
      /\ PageSize \in Nat /\ PageSize >= 1
  BY LenProperties DEF LookupInv, LookupTypeOK, OrderLookupAssumption
<1>2. s \in LookupState /\ GoodLookup(s, list, receiptOf) /\ s.pc = "paging"
  BY <1>1 DEF LookupInv, ReadPage
<1>3. /\ lookup' = [lookup EXCEPT ![l] = t]
      /\ list' = list /\ receiptOf' = receiptOf
  BY DEF ReadPage
<1> HIDE DEF s
<1>4. /\ \A o : o \in Range(page) <=>
           \E j \in 1 .. Len(list) : /\ s.skip < j /\ j <= s.skip + PageSize
                                     /\ list[j] = o
      /\ Exhausted(page) <=> Len(list) < s.skip + PageSize
  BY <1>1, <1>2, PageHolds DEF LookupState
<1> DEFINE hit(o) == o \in Range(page) /\ receiptOf[o] = s.receipt
           tally == [o \in Orders |-> IF hit(o) THEN s.matches[o] + 1 ELSE s.matches[o]]
<1>5. /\ t.receipt = s.receipt /\ t.known = s.known /\ t.arrivals = s.arrivals
      /\ t.pages = s.pages + 1 /\ t.matches = tally
      /\ Exhausted(page) => t.pc = "answered" /\ t.skip = s.skip
      /\ ~Exhausted(page) => t.pc = "paging" /\ t.skip = s.skip + PageSize
  BY <1>2 DEF LookupState, LastPage, TurnPage, Matches, NextSkip
<1>6. tally \in [Orders -> Nat]
  BY <1>2 DEF LookupState
<1>7. t \in LookupState
  <2>1. s.skip + PageSize \in Nat /\ s.pages + 1 \in Nat
    BY <1>1, <1>2 DEF LookupState
  <2>2. Matches(s, page) = tally
    BY DEF Matches
  <2> HIDE DEF page, tally
  <2> QED
    BY <1>2, <1>6, <2>1, <2>2 DEF LookupState, LastPage, TurnPage, NextSkip, page
<1> HIDE DEF t, page
<1>8. SeenOrAhead(t, list, receiptOf)
  <2> SUFFICES ASSUME NEW o \in s.known, ~(t.matches[o] > 0)
               PROVE  /\ t.pc # "answered" /\ receiptOf[o] = t.receipt
                      /\ \E j \in 1 .. Len(list) : t.skip < j /\ list[j] = o
    BY <1>5 DEF SeenOrAhead
  <2>1. o \in Orders /\ s.matches[o] \in Nat /\ t.matches[o] = tally[o]
    BY <1>2, <1>5 DEF LookupState
  <2>2. ~(s.matches[o] > 0) /\ ~hit(o)
    BY <2>1
  <2>3. /\ receiptOf[o] = s.receipt
        /\ \E j \in 1 .. Len(list) : s.skip < j /\ list[j] = o
    BY <1>2, <2>2 DEF GoodLookup, SeenOrAhead
  <2>4. PICK j \in 1 .. Len(list) : s.skip < j /\ list[j] = o
    BY <2>3
  <2>5. ~(j <= s.skip + PageSize)
    BY <1>4, <2>2, <2>3, <2>4
  <2>6. s.skip \in Nat
    BY <1>2 DEF LookupState
  <2> HIDE DEF tally
  <2>7. s.skip + PageSize < j /\ ~(Len(list) < s.skip + PageSize)
    BY <1>1, <2>5, <2>6
  <2> QED
    BY <1>4, <1>5, <2>3, <2>4, <2>6, <2>7
<1>9. SeenIsBehind(t, list)
  <2> SUFFICES ASSUME ~s.arrivals, NEW o \in Orders
               PROVE  /\ t.matches[o] <= 1
                      /\ t.pc = "paging" /\ t.matches[o] > 0 =>
                           \E j \in 1 .. Len(list) : j <= t.skip /\ list[j] = o
    BY <1>5 DEF SeenIsBehind
  <2>1. s.matches[o] \in Nat /\ t.matches[o] = tally[o] /\ s.skip \in Nat
    BY <1>2, <1>5 DEF LookupState
  <2>2. /\ s.matches[o] <= 1
        /\ s.matches[o] > 0 =>
             \E j \in 1 .. Len(list) : j <= s.skip /\ list[j] = o
    BY <1>2 DEF GoodLookup, SeenIsBehind
  <2>3. CASE hit(o)
    <3>1. PICK j \in 1 .. Len(list) :
            s.skip < j /\ j <= s.skip + PageSize /\ list[j] = o
      BY <1>4, <2>3
    <3>2. ~(s.matches[o] > 0)
      <4> SUFFICES ASSUME s.matches[o] > 0 PROVE FALSE
        OBVIOUS
      <4>1. PICK k \in 1 .. Len(list) : k <= s.skip /\ list[k] = o
        BY <2>2
      <4>2. k = j
        BY <3>1, <4>1 DEF LookupInv, ListedOnce
      <4> QED
        BY <1>1, <2>1, <3>1, <4>1, <4>2
    <3>3. t.matches[o] = 1
      BY <2>1, <2>3, <3>2
    <3>4. t.pc = "paging" => t.skip = s.skip + PageSize
      BY <1>5
    <3> QED
      BY <3>1, <3>3, <3>4
  <2>4. CASE ~hit(o)
    <3>1. t.matches[o] = s.matches[o]
      BY <2>1, <2>4
    <3>2. t.pc = "paging" => t.skip = s.skip + PageSize
      BY <1>5
    <3>3. ASSUME t.pc = "paging", t.matches[o] > 0
          PROVE  \E j \in 1 .. Len(list) : j <= t.skip /\ list[j] = o
      <4>1. PICK j \in 1 .. Len(list) : j <= s.skip /\ list[j] = o
        BY <2>2, <3>1, <3>3
      <4>2. j <= t.skip
        BY <1>1, <2>1, <3>2, <3>3, <4>1
      <4> QED
        BY <4>1, <4>2
    <3> QED
      BY <2>2, <3>1, <3>3
  <2> QED
    BY <2>3, <2>4
<1>10. PagesWereFull(t, list)
  <2> SUFFICES ASSUME t.pc # "answered"
               PROVE  t.skip = t.pages * PageSize /\ Len(list) >= t.skip
    BY DEF PagesWereFull
  <2>1. ~Exhausted(page) /\ t.skip = s.skip + PageSize /\ t.pages = s.pages + 1
    BY <1>5
  <2>2. s.skip = s.pages * PageSize /\ s.skip \in Nat /\ s.pages \in Nat
    BY <1>2 DEF GoodLookup, PagesWereFull, LookupState
  <2>3. (s.pages + 1) * PageSize = s.pages * PageSize + PageSize
    BY <1>1, <2>2
  <2> QED
    BY <1>1, <1>4, <2>1, <2>2, <2>3
<1>11. \A m \in Lookups : lookup'[m] = IF m = l THEN t ELSE lookup[m]
  BY <1>1, <1>3
<1>12. LookupTypeOK'
  BY <1>1, <1>3, <1>7 DEF LookupInv, LookupTypeOK
<1>13. \A m \in Lookups : GoodLookup(lookup'[m], list', receiptOf')
  BY <1>3, <1>8, <1>9, <1>10, <1>11 DEF LookupInv, GoodLookup
<1> QED
  BY <1>3, <1>12, <1>13 DEF LookupInv, ListedOnce

(* A lookup ends in an error, at the limit or because a page did.          *)
LEMMA EndGood ==
  ASSUME LookupInv, OrderLookupAssumption, NEW l \in Lookups, GiveUp(l) \/ PageFails(l)
  PROVE  LookupInv'
<1> DEFINE s == lookup[l]
           t == Ended(s, "raised")
<1>1. lookup \in [Lookups -> LookupState]
  BY DEF LookupInv, LookupTypeOK
<1>2. s \in LookupState /\ GoodLookup(s, list, receiptOf) /\ s.pc = "paging"
  BY <1>1 DEF LookupInv, GiveUp, PageFails
<1>3. /\ lookup' = [lookup EXCEPT ![l] = t]
      /\ list' = list /\ receiptOf' = receiptOf
  BY DEF GiveUp, PageFails
<1> HIDE DEF s
<1>4. /\ t \in LookupState /\ t.pc = "raised"
      /\ t.receipt = s.receipt /\ t.skip = s.skip /\ t.pages = s.pages
      /\ t.matches = s.matches /\ t.known = s.known /\ t.arrivals = s.arrivals
  BY <1>2 DEF LookupState, Ended
<1> HIDE DEF t
<1>5. GoodLookup(t, list, receiptOf)
  BY <1>2, <1>4 DEF GoodLookup, SeenOrAhead, SeenIsBehind, PagesWereFull
<1>6. \A m \in Lookups : lookup'[m] = IF m = l THEN t ELSE lookup[m]
  BY <1>1, <1>3
<1>7. LookupTypeOK'
  BY <1>1, <1>3, <1>4 DEF LookupInv, LookupTypeOK
<1>8. \A m \in Lookups : GoodLookup(lookup'[m], list', receiptOf')
  BY <1>3, <1>5, <1>6 DEF LookupInv
<1> QED
  BY <1>3, <1>7, <1>8 DEF LookupInv, ListedOnce

LEMMA AskAgainGood ==
  ASSUME LookupInv, OrderLookupAssumption,
         NEW l \in Lookups, NEW r \in Receipts, AskAgain(l, r)
  PROVE  LookupInv'
<1>1. lookup \in [Lookups -> LookupState] /\ LookupTypeOK
  BY DEF LookupInv, LookupTypeOK
<1>2. /\ lookup' = [lookup EXCEPT ![l] = Started(r)]
      /\ list' = list /\ receiptOf' = receiptOf
  BY DEF AskAgain
<1>3. Started(r) \in LookupState /\ GoodLookup(Started(r), list, receiptOf)
  BY <1>1, StartedIsGood
<1>4. \A m \in Lookups : lookup'[m] = IF m = l THEN Started(r) ELSE lookup[m]
  BY <1>1, <1>2
<1>5. LookupTypeOK'
  BY <1>1, <1>2, <1>3 DEF LookupTypeOK
<1>6. \A m \in Lookups : GoodLookup(lookup'[m], list', receiptOf')
  BY <1>2, <1>3, <1>4 DEF LookupInv
<1> QED
  BY <1>2, <1>5, <1>6 DEF LookupInv, ListedOnce

-----------------------------------------------------------------------------
(* Theorems of the specification.                                          *)

LEMMA StepGood == ASSUME OrderLookupAssumption PROVE LookupInv /\ [LookupNext]_lookupVars => LookupInv'
<1> SUFFICES ASSUME LookupInv, [LookupNext]_lookupVars PROVE LookupInv'
  OBVIOUS
<1>1. CASE UNCHANGED lookupVars
  BY <1>1 DEF LookupInv, LookupTypeOK, ListedOnce, lookupVars
<1>2. ASSUME NEW o \in Orders, NEW i \in 1 .. Len(list) + 1, ListOrder(o, i)
      PROVE  LookupInv'
  BY <1>2, ListOrderGood
<1>3. ASSUME NEW l \in Lookups, ReadPage(l)
      PROVE  LookupInv'
  BY <1>3, ReadPageGood
<1>4. ASSUME NEW l \in Lookups, GiveUp(l) \/ PageFails(l)
      PROVE  LookupInv'
  BY <1>4, EndGood
<1>5. ASSUME NEW l \in Lookups, NEW r \in Receipts, AskAgain(l, r)
      PROVE  LookupInv'
  BY <1>5, AskAgainGood
<1> QED
  BY <1>1, <1>2, <1>3, <1>4, <1>5 DEF LookupNext

LEMMA LookupInvariant == LookupSpec => []LookupInv
<1>1. LookupInit => LookupInv
  BY InitGood, OrderLookupAssumption
<1>2. LookupInv /\ [LookupNext]_lookupVars => LookupInv'
  BY StepGood, OrderLookupAssumption
<1> QED
  BY <1>1, <1>2, PTL DEF LookupSpec

(* An empty answer is evidence: whatever is listed while the pages are     *)
(* read, every order there was when the question was put is in the answer. *)
THEOREM NothingIsMissed == LookupSpec => []AnswerIsComplete
<1>1. LookupInv => AnswerIsComplete
  BY DEF LookupInv, GoodLookup, SeenOrAhead, AnswerIsComplete
<1> QED
  BY <1>1, LookupInvariant, PTL

(* Two copies of an order in one answer are the doing of an arrival.       *)
THEOREM RepeatsAreShifts == LookupSpec => []RepeatsNeedAnArrival
<1>1. LookupInv => RepeatsNeedAnArrival
  <2> SUFFICES ASSUME LookupInv, NEW l \in Lookups, NEW o \in Orders,
                      lookup[l].matches[o] > 1, ~lookup[l].arrivals
               PROVE  FALSE
    BY DEF RepeatsNeedAnArrival, LookupInv, LookupTypeOK, LookupState
  <2>1. lookup[l] \in LookupState /\ lookup[l].matches[o] <= 1
    BY DEF LookupInv, LookupTypeOK, GoodLookup, SeenIsBehind
  <2> QED
    BY <2>1 DEF LookupState
<1> QED
  BY <1>1, LookupInvariant, PTL

(* The page limit refuses only an account with more orders than its pages. *)
THEOREM LimitIsTheReach == LookupSpec => []GivesUpBeyondReach
<1>1. LookupInv => GivesUpBeyondReach
  <2> SUFFICES ASSUME LookupInv, NEW l \in Lookups,
                      lookup[l].pc = "raised", lookup[l].pages = MaxPages
               PROVE  Len(list) >= MaxPages * PageSize
    BY DEF GivesUpBeyondReach
  <2>1. /\ PagesWereFull(lookup[l], list) /\ Len(list) \in Nat
        /\ PageSize \in Nat /\ MaxPages \in Nat
    BY LenProperties, OrderLookupAssumption
    DEF LookupInv, LookupTypeOK, GoodLookup, OrderLookupAssumption
  <2>2. CASE MaxPages = 0
    BY <2>1, <2>2
  <2>3. CASE MaxPages > 0
    BY <2>1, <2>3 DEF PagesWereFull
  <2> QED
    BY <2>1, <2>2, <2>3
<1> QED
  BY <1>1, LookupInvariant, PTL
=============================================================================
