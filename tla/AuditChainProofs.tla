-------------------------- MODULE AuditChainProofs --------------------------
(***************************************************************************)
(* Proofs about AuditChain: what a hash says about the rows before it, the *)
(* invariant of a log nobody edited yet, the refinement of AppendOnly, and *)
(* the row a first edit breaks.                                            *)
(*                                                                         *)
(* Induction over the rows is by a least counterexample (LeastNumber).     *)
(***************************************************************************)
EXTENDS AuditChain, WellFoundedInduction, TLAPS

-----------------------------------------------------------------------------
(* Numbers.                                                                *)

(* A set of naturals that is not empty has a least element.                *)
LEMMA LeastNumber ==
  ASSUME NEW S \in SUBSET Nat, S # {}
  PROVE  \E n \in S : \A m \in S : n =< m
<1> DEFINE R == OpToRel(<, Nat)
<1> HIDE DEF R
<1>1. IsWellFoundedOn(R, Nat)
  BY NatLessThanWellFounded DEF R
<1>2. PICK n \in S : \A m \in S : <<m, n>> \notin R
  BY <1>1, WFMin, S \subseteq Nat
<1>3. \A m \in S : ~(m < n)
  BY <1>2 DEF OpToRel, R
<1> QED
  BY <1>2, <1>3

(* A bounded one has a greatest.                                           *)
LEMMA GreatestNumber ==
  ASSUME NEW S \in SUBSET Nat, S # {}, NEW b \in Nat, \A m \in S : m =< b
  PROVE  \E n \in S : \A m \in S : m =< n
<1> DEFINE D == {k \in Nat : b - k \in S}
<1>1. D \in SUBSET Nat /\ D # {}
  <2>1. PICK s \in S : TRUE
    OBVIOUS
  <2>2. b - s \in Nat /\ b - (b - s) = s
    BY <2>1
  <2> QED
    BY <2>1, <2>2
<1>2. PICK k \in D : \A m \in D : k =< m
  BY <1>1, LeastNumber
<1>3. b - k \in S /\ k \in Nat
  BY <1>2
<1>4. ASSUME NEW m \in S PROVE m =< b - k
  <2>1. b - m \in Nat /\ b - (b - m) = m
    OBVIOUS
  <2>2. b - m \in D
    BY <2>1
  <2> QED
    BY <1>2, <1>3, <2>1, <2>2
<1> QED
  BY <1>3, <1>4

-----------------------------------------------------------------------------
(* Tables.                                                                 *)

Numbered(log) == DOMAIN log \subseteq Nat \ {0}
Bounded(log) == Numbered(log) /\ \E b \in Nat : \A n \in DOMAIN log : n =< b

(* LastId is the last number.                                              *)
LEMMA LastIdIsLast ==
  ASSUME NEW log, Bounded(log)
  PROVE  /\ LastId(log) \in Nat
         /\ \A n \in DOMAIN log : n =< LastId(log)
         /\ DOMAIN log # {} => LastId(log) \in DOMAIN log
         /\ DOMAIN log = {} => LastId(log) = 0
<1>1. CASE DOMAIN log = {}
  BY <1>1 DEF LastId
<1>2. CASE DOMAIN log # {}
  <2>1. \E n \in DOMAIN log : \A m \in DOMAIN log : m =< n
    <3>1. PICK b \in Nat : \A n \in DOMAIN log : n =< b
      BY DEF Bounded
    <3> QED
      BY <1>2, <3>1, GreatestNumber DEF Bounded, Numbered
  <2>2. LastId(log) \in DOMAIN log /\ \A m \in DOMAIN log : m =< LastId(log)
    BY <1>2, <2>1 DEF LastId
  <2> QED
    BY <1>2, <2>2 DEF Bounded, Numbered
<1> QED
  BY <1>1, <1>2

(* The predecessor of a row is the last row before it.                     *)
LEMMA PredecessorIsLastBefore ==
  ASSUME NEW log, Numbered(log), NEW id \in Nat
  PROVE  /\ Before(log, id) = {} => Predecessor(log, id) = 0
         /\ Before(log, id) # {} =>
              /\ Predecessor(log, id) \in Before(log, id)
              /\ \A m \in Before(log, id) : m =< Predecessor(log, id)
<1>1. CASE Before(log, id) = {}
  BY <1>1 DEF Predecessor
<1>2. CASE Before(log, id) # {}
  <2>1. Before(log, id) \in SUBSET Nat /\ \A m \in Before(log, id) : m =< id
    BY DEF Before, Numbered
  <2>2. \E n \in Before(log, id) : \A m \in Before(log, id) : m =< n
    BY <1>2, <2>1, GreatestNumber
  <2> QED
    BY <1>2, <2>2 DEF Predecessor
<1> QED
  BY <1>1, <1>2

-----------------------------------------------------------------------------
(* What a hash says.                                                       *)

(* Rows with one hash have one number, one entry and one link, and no hash *)
(* is the genesis hash.                                                    *)
LEMMA HashIsInjective ==
  ASSUME NEW p, NEW i, NEW e, NEW q, NEW j, NEW f
  PROVE  /\ chain_hash(p, i, e) = chain_hash(q, j, f) => p = q /\ i = j /\ e = f
         /\ chain_hash(p, i, e) # GENESIS_HASH
BY DEF chain_hash, GENESIS_HASH

(* Up to row i, the two logs have the same numbers and the same entries.   *)
Agree(S, T, i) ==
  /\ Before(S, i + 1) = Before(T, i + 1)
  /\ \A n \in Before(S, i + 1) : S[n].entry = T[n].entry

(* Two logs that verify and have one hash in common are the same log up to *)
(* there: what chaining the entries buys (audit.py 25-41).                 *)
THEOREM SameHashSameHistory ==
  ASSUME NEW S, NEW T, Numbered(S), Numbered(T), Intact(S), Intact(T),
         NEW i \in DOMAIN S, NEW j \in DOMAIN T,
         S[i].entry_hash = T[j].entry_hash
  PROVE  i = j /\ Agree(S, T, i)
<1> DEFINE Bad == {n \in DOMAIN S : \E m \in DOMAIN T :
                     S[n].entry_hash = T[m].entry_hash /\ ~(n = m /\ Agree(S, T, n))}
<1> SUFFICES Bad = {}
  OBVIOUS
<1> SUFFICES ASSUME Bad # {} PROVE FALSE
  OBVIOUS
<1>1. Bad \in SUBSET Nat
  BY DEF Numbered
<1>2. PICK n \in Bad : \A k \in Bad : n =< k
  BY <1>1, LeastNumber
<1>3. PICK m \in DOMAIN T : S[n].entry_hash = T[m].entry_hash /\ ~(n = m /\ Agree(S, T, n))
  BY <1>2
<1>4. n \in DOMAIN S /\ n \in Nat /\ n > 0
  BY <1>2 DEF Numbered
<1> DEFINE p == Predecessor(S, n)
           q == Predecessor(T, m)
<1>5. /\ S[n].prev_hash = HashAt(S, p)
      /\ S[n].entry_hash = chain_hash(S[n].prev_hash, n, S[n].entry)
      /\ T[m].prev_hash = HashAt(T, q)
      /\ T[m].entry_hash = chain_hash(T[m].prev_hash, m, T[m].entry)
  BY <1>3, <1>4 DEF Intact, LinkHolds
<1>6. n = m /\ S[n].entry = T[m].entry /\ HashAt(S, p) = HashAt(T, q)
  <2>1. chain_hash(HashAt(S, p), n, S[n].entry) = chain_hash(HashAt(T, q), m, T[m].entry)
    BY <1>3, <1>5
  <2> HIDE DEF p, q
  <2> QED
    BY <2>1 DEF chain_hash
<1>7. /\ Before(S, n) = {} => p = 0
      /\ Before(S, n) # {} => p \in Before(S, n) /\ \A k \in Before(S, n) : k =< p
  BY <1>4, PredecessorIsLastBefore
<1>8. /\ Before(T, n) = {} => q = 0
      /\ Before(T, n) # {} => q \in Before(T, n) /\ \A k \in Before(T, n) : k =< q
  BY <1>4, <1>6, PredecessorIsLastBefore
<1> HIDE DEF p, q
<1>9. \A k \in DOMAIN S : S[k].entry_hash # GENESIS_HASH
  BY HashIsInjective DEF Intact, LinkHolds
<1>10. \A k \in DOMAIN T : T[k].entry_hash # GENESIS_HASH
  BY HashIsInjective DEF Intact, LinkHolds
<1>11. CASE Before(S, n) = {}
  <2>1. Before(T, n) = {}
    BY <1>6, <1>7, <1>8, <1>10, <1>11 DEF HashAt, Before, Numbered
  <2>2. Before(S, n + 1) = {n} /\ Before(T, n + 1) = {n}
    BY <1>3, <1>4, <1>6, <1>11, <2>1 DEF Before, Numbered
  <2> QED
    BY <1>3, <1>6, <2>2 DEF Agree
<1>12. CASE Before(S, n) # {}
  <2>1. Before(T, n) # {}
    BY <1>6, <1>7, <1>8, <1>9, <1>12 DEF HashAt, Before, Numbered
  <2>2. /\ p \in DOMAIN S /\ p < n /\ p \in Nat /\ p # 0
        /\ q \in DOMAIN T /\ q < n /\ q \in Nat /\ q # 0
    BY <1>7, <1>8, <1>12, <2>1 DEF Before, Numbered
  <2>3. S[p].entry_hash = T[q].entry_hash
    BY <1>6, <2>2 DEF HashAt
  <2>4. p \notin Bad
    BY <1>1, <1>2, <1>4, <2>2
  <2>5. p = q /\ Agree(S, T, p)
    BY <2>2, <2>3, <2>4
  <2>6. Before(S, n + 1) = Before(S, p + 1) \cup {n}
    BY <1>4, <1>7, <1>12, <2>2 DEF Before, Numbered
  <2>7. Before(T, n + 1) = Before(T, p + 1) \cup {n}
    BY <1>3, <1>4, <1>6, <1>8, <2>1, <2>2, <2>5 DEF Before, Numbered
  <2> QED
    BY <1>3, <1>6, <2>5, <2>6, <2>7 DEF Agree
<1> QED
  BY <1>11, <1>12

-----------------------------------------------------------------------------
(* Types, and what is known of a recorded head.                            *)

TypeInv ==
  /\ TypeOK
  /\ Bounded(audit_log)
  /\ \A w \in Writers : call[w].pc # "idle" => call[w].entry \in Entry

Recorded(a) ==
  /\ Numbered(a.log) /\ Intact(a.log)
  /\ \E i \in DOMAIN a.log :
       a.head = a.log[i].entry_hash /\ Before(a.log, i + 1) = DOMAIN a.log

AnchorInv == anchor.head # None => Recorded(anchor)

(* Adding or replacing a row keeps a table one.                            *)
LEMMA PutKeepsTable ==
  ASSUME NEW log, Bounded(log), \A n \in DOMAIN log : log[n].entry \in Entry,
         NEW id \in Nat \ {0}, NEW row, row.entry \in Entry
  PROVE  /\ Bounded(Put(log, id, row))
         /\ \A n \in DOMAIN Put(log, id, row) : Put(log, id, row)[n].entry \in Entry
<1>1. PICK b \in Nat : \A n \in DOMAIN log : n =< b
  BY DEF Bounded
<1>2. b + id \in Nat /\ \A n \in DOMAIN log \cup {id} : n =< b + id
  BY <1>1 DEF Bounded, Numbered
<1>3. DOMAIN Put(log, id, row) = DOMAIN log \cup {id}
  BY DEF Put
<1>4. \A n \in DOMAIN Put(log, id, row) : Put(log, id, row)[n].entry \in Entry
  BY DEF Put
<1> QED
  BY <1>2, <1>3, <1>4 DEF Bounded, Numbered

(* So does taking rows away.                                               *)
LEMMA WithoutKeepsTable ==
  ASSUME NEW log, Bounded(log), \A n \in DOMAIN log : log[n].entry \in Entry,
         NEW ids
  PROVE  /\ Bounded(Without(log, ids))
         /\ \A n \in DOMAIN Without(log, ids) : Without(log, ids)[n].entry \in Entry
BY DEF Bounded, Numbered, Without

LEMMA EmptyTable == DOMAIN <<>> = {} /\ Bounded(<<>>)
<1>1. DOMAIN <<>> = {}
  OBVIOUS
<1> QED
  BY <1>1 DEF Bounded, Numbered

(* The next row is a number.                                               *)
LEMMA SuccessorIsNumber ==
  ASSUME NEW log, Bounded(log), NEW id \in Nat, NEW otherwise \in Nat
  PROVE  Successor(log, id, otherwise) \in Nat
<1>1. CASE \A n \in DOMAIN log : n =< id
  BY <1>1 DEF Successor
<1>2. CASE ~ \A n \in DOMAIN log : n =< id
  <2> DEFINE After == {n \in DOMAIN log : n > id}
  <2>1. After \in SUBSET Nat /\ After # {}
    BY <1>2 DEF Bounded, Numbered
  <2>2. PICK n \in After : \A m \in After : n =< m
    BY <2>1, LeastNumber
  <2>3. \E x \in DOMAIN log : x > id /\ \A m \in DOMAIN log : m > id => x =< m
    BY <2>2
  <2>4. Successor(log, id, otherwise) \in DOMAIN log
    BY <1>2, <2>3 DEF Successor
  <2> QED
    BY <2>4 DEF Bounded, Numbered
<1> QED
  BY <1>1, <1>2

LEMMA TypeInit == Init => TypeInv /\ AnchorInv
<1> SUFFICES ASSUME Init PROVE TypeInv /\ AnchorInv
  OBVIOUS
<1>1. TypeOK
  BY EmptyTable DEF Init, TypeOK, Calls, IdleCall
<1>2. Bounded(audit_log)
  BY EmptyTable DEF Init
<1>3. \A w \in Writers : call[w].pc = "idle"
  BY DEF Init, IdleCall
<1>4. anchor.head = None
  BY DEF Init
<1> QED
  BY <1>1, <1>2, <1>3, <1>4 DEF TypeInv, AnchorInv

(* A step of record(), thread by thread.                                   *)
LEMMA RecordKeepsTypes ==
  ASSUME TypeInv, NEW w \in Writers, Record(w)
  PROVE  TypeInv' /\ UNCHANGED anchor
<1> USE DEF TypeInv, TypeOK, Calls
<1>1. ASSUME NEW entry \in Entry, Begin(w, entry)
      PROVE  TypeInv' /\ UNCHANGED anchor
  BY <1>1 DEF Begin, outside
<1>2. CASE Lock(w)
  BY <1>2 DEF Lock, outside
<1>3. CASE ReadTail(w)
  BY <1>3, LastIdIsLast DEF ReadTail, outside
<1>4. CASE Insert(w)
  <2> DEFINE id == call[w].tail + 1
             entry == call[w].entry
             row == Row(prev[w], entry, chain_hash(prev[w], id, entry))
  <2>1. /\ id \in Nat \ {0} /\ entry \in Entry /\ row.entry \in Entry
        /\ audit_log' = Put(audit_log, id, row)
        /\ told' \in {told, told \cup {<<id, entry>>}}
        /\ Leave(w)
    BY <1>4 DEF Insert, Row
  <2>2. /\ Bounded(audit_log)'
        /\ \A n \in DOMAIN audit_log' : audit_log'[n].entry \in Entry
    <3> HIDE DEF id, entry, row
    <3> QED
      BY <2>1, PutKeepsTable
  <2>3. told' \subseteq Nat \X Entry
    BY <2>1
  <2>4. /\ call' \in [Writers -> Calls] /\ lock' \in Writers \cup {None}
        /\ \A v \in Writers : call'[v].pc # "idle" => call'[v].entry \in Entry
    BY <2>1 DEF Leave, IdleCall
  <2>5. UNCHANGED outside
    BY <2>1 DEF Leave
  <2> QED
    BY <2>2, <2>3, <2>4, <2>5 DEF outside, Bounded, Numbered
<1>5. CASE Fail(w)
  BY <1>5 DEF Fail, Leave, IdleCall, outside
<1> QED
  BY <1>1, <1>2, <1>3, <1>4, <1>5 DEF Record

(* An edit, whatever it writes, as long as it is a table.                  *)
LEMMA RawEditKeepsTypes ==
  ASSUME TypeInv, NEW operation, NEW log, NEW broken \in Nat,
         Bounded(log), \A n \in DOMAIN log : log[n].entry \in Entry,
         RawEdit(operation, log, broken)
  PROVE  TypeInv' /\ UNCHANGED anchor
<1>1. Bounded(audit_log)' /\ \A n \in DOMAIN audit_log' : audit_log'[n].entry \in Entry
  BY DEF RawEdit
<1> QED
  BY <1>1 DEF RawEdit, TypeInv, TypeOK, Bounded, Numbered

LEMMA TamperKeepsTypes ==
  ASSUME TypeInv, Tamper
  PROVE  TypeInv' /\ UNCHANGED anchor
<1>1. /\ Bounded(audit_log) /\ \A n \in DOMAIN audit_log : audit_log[n].entry \in Entry
      /\ DOMAIN audit_log \subseteq Nat \ {0}
  BY DEF TypeInv, TypeOK
<1>2. ASSUME NEW operations, DropTriggers(operations)
      PROVE  TypeInv' /\ UNCHANGED anchor
  BY <1>2 DEF DropTriggers, TypeInv, TypeOK
<1>3. CASE Truncate
  <2>1. \A n \in DOMAIN <<>> : <<>>[n].entry \in Entry
    BY EmptyTable
  <2> QED
    BY <1>3, <2>1, EmptyTable, RawEditKeepsTypes DEF Truncate
<1>4. ASSUME NEW id \in DOMAIN audit_log, NEW entry \in Entry, Alter(id, entry)
      PROVE  TypeInv' /\ UNCHANGED anchor
  <2> DEFINE row == Row(audit_log[id].prev_hash, entry, audit_log[id].entry_hash)
  <2>1. row.entry \in Entry /\ id \in Nat \ {0} /\ id \in Nat
    BY <1>1 DEF Row
  <2>2. RawEdit("UPDATE", Put(audit_log, id, row), id)
    BY <1>4 DEF Alter
  <2> HIDE DEF row
  <2>3. /\ Bounded(Put(audit_log, id, row))
        /\ \A n \in DOMAIN Put(audit_log, id, row) : Put(audit_log, id, row)[n].entry \in Entry
    BY <1>1, <2>1, PutKeepsTable
  <2> QED
    BY <2>1, <2>2, <2>3, RawEditKeepsTypes
<1>5. ASSUME NEW id \in DOMAIN audit_log, NEW new \in 1..MaxRows, Renumber(id, new)
      PROVE  TypeInv' /\ UNCHANGED anchor
  <2> DEFINE rest == Without(audit_log, {id})
             row == audit_log[id]
             broken == IF \E w \in Writers : call[w].pc = "read" /\ call[w].tail = id THEN 0
                       ELSE Successor(audit_log, id, new)
  <2>1. row.entry \in Entry /\ new \in Nat \ {0} /\ new \in Nat /\ id \in Nat
    BY <1>1, AuditAssumption DEF AuditAssumption
  <2>2. broken \in Nat
    BY <1>1, <2>1, SuccessorIsNumber
  <2>3. RawEdit("UPDATE", Put(rest, new, row), broken)
    BY <1>5 DEF Renumber
  <2>4. Bounded(rest) /\ \A n \in DOMAIN rest : rest[n].entry \in Entry
    BY <1>1, WithoutKeepsTable
  <2> HIDE DEF rest, row, broken
  <2>5. /\ Bounded(Put(rest, new, row))
        /\ \A n \in DOMAIN Put(rest, new, row) : Put(rest, new, row)[n].entry \in Entry
    BY <2>1, <2>4, PutKeepsTable
  <2> QED
    BY <2>2, <2>3, <2>5, RawEditKeepsTypes
<1>6. ASSUME NEW id \in DOMAIN audit_log, Remove(id)
      PROVE  TypeInv' /\ UNCHANGED anchor
  <2> DEFINE rest == Without(audit_log, {id})
             broken == Successor(audit_log, id, 0)
  <2>1. broken \in Nat
    BY <1>1, SuccessorIsNumber
  <2>2. RawEdit("DELETE", rest, broken)
    BY <1>6 DEF Remove
  <2>3. Bounded(rest) /\ \A n \in DOMAIN rest : rest[n].entry \in Entry
    BY <1>1, WithoutKeepsTable
  <2> HIDE DEF rest, broken
  <2> QED
    BY <2>1, <2>2, <2>3, RawEditKeepsTypes
<1>7. ASSUME NEW id \in DOMAIN audit_log, Rehash(id)
      PROVE  TypeInv' /\ UNCHANGED anchor
  <2> DEFINE prev_hash == HashAt(audit_log, Predecessor(audit_log, id))
             entry == audit_log[id].entry
             row == Row(prev_hash, entry, chain_hash(prev_hash, id, entry))
  <2>1. row.entry \in Entry /\ id \in Nat \ {0}
    BY <1>1 DEF Row
  <2>2. /\ audit_log' = Put(audit_log, id, row) /\ expected' = 0
        /\ UNCHANGED <<triggers, lock, call, prev, told, breached, edits, anchor>>
    BY <1>7 DEF Rehash
  <2> HIDE DEF row
  <2>3. /\ Bounded(audit_log)' /\ \A n \in DOMAIN audit_log' : audit_log'[n].entry \in Entry
    BY <1>1, <2>1, <2>2, PutKeepsTable
  <2> QED
    BY <2>2, <2>3 DEF TypeInv, TypeOK, Bounded, Numbered
<1> QED
  BY <1>2, <1>3, <1>4, <1>5, <1>6, <1>7 DEF Tamper

LEMMA StepKeepsTypes ==
  ASSUME TypeInv, AnchorInv, [Next]_vars
  PROVE  TypeInv' /\ AnchorInv'
<1>1. ASSUME NEW w \in Writers, Record(w) PROVE TypeInv' /\ AnchorInv'
  BY <1>1, RecordKeepsTypes DEF AnchorInv
<1>2. CASE Restart
  BY <1>2 DEF Restart, TypeInv, TypeOK, Calls, IdleCall, AnchorInv
<1>3. CASE Tamper
  BY <1>3, TamperKeepsTypes DEF AnchorInv
<1>4. CASE RecordHead
  <2> DEFINE i == LastId(audit_log)
  <2>1. /\ DOMAIN audit_log # {} /\ Intact(audit_log)
        /\ anchor' = [head |-> HashAt(audit_log, i), log |-> audit_log]
        /\ UNCHANGED <<audit_log, triggers, lock, call, prev, told, breached, edits, expected>>
    BY <1>4 DEF RecordHead, verify
  <2>2. /\ i \in DOMAIN audit_log /\ i \in Nat \ {0} /\ \A n \in DOMAIN audit_log : n =< i
        /\ Numbered(audit_log)
    BY <2>1, LastIdIsLast DEF TypeInv, Bounded, Numbered
  <2> HIDE DEF i
  <2>3. Before(audit_log, i + 1) = DOMAIN audit_log
    BY <2>2 DEF Before, Numbered
  <2>4. Recorded(anchor')
    BY <2>1, <2>2, <2>3 DEF Recorded, HashAt
  <2> QED
    BY <2>1, <2>4 DEF AnchorInv, TypeInv, TypeOK, Bounded, Numbered
<1>5. CASE UNCHANGED vars
  BY <1>5 DEF vars, TypeInv, TypeOK, AnchorInv, Bounded, Numbered
<1> QED
  BY <1>1, <1>2, <1>3, <1>4, <1>5 DEF Next

(* The types, and what is known of a recorded head, hold throughout.       *)
LEMMA TypesHold == Spec => [](TypeInv /\ AnchorInv)
BY TypeInit, StepKeepsTypes, PTL DEF Spec

(* Type correctness of the trail and its writers.                          *)
THEOREM TypeCorrect == Spec => []TypeOK
<1>1. TypeInv => TypeOK
  BY DEF TypeInv
<1> QED
  BY <1>1, TypesHold, PTL

(* A recorded head fixes the history it was the head of: the property the  *)
(* run checks, for any number of threads, rows, edits and rehashes.        *)
THEOREM HeadFixesHistory == Spec => []AnchorFixesHistory
<1>1. TypeInv /\ AnchorInv => AnchorFixesHistory
  <2> SUFFICES ASSUME TypeInv, AnchorInv, anchor.head # None, Intact(audit_log),
                      NEW id \in DOMAIN audit_log,
                      audit_log[id].entry_hash = anchor.head
               PROVE  /\ Before(audit_log, id + 1) = DOMAIN anchor.log
                      /\ \A n \in DOMAIN anchor.log :
                           audit_log[n].entry = anchor.log[n].entry
    BY DEF AnchorFixesHistory
  <2>1. Numbered(audit_log) /\ Numbered(anchor.log) /\ Intact(anchor.log)
    BY DEF TypeInv, Bounded, AnchorInv, Recorded
  <2>2. PICK i \in DOMAIN anchor.log :
          anchor.head = anchor.log[i].entry_hash /\ Before(anchor.log, i + 1) = DOMAIN anchor.log
    BY DEF AnchorInv, Recorded
  <2>3. id = i /\ Agree(audit_log, anchor.log, id)
    <3>1. audit_log[id].entry_hash = anchor.log[i].entry_hash
      BY <2>2
    <3> QED
      BY <2>1, <3>1, SameHashSameHistory
  <2> QED
    BY <2>2, <2>3 DEF Agree
<1> QED
  BY <1>1, TypesHold, PTL

-----------------------------------------------------------------------------
(* Until the first edit, which the triggers refuse while they are up.      *)

(* The numbers have no gap.                                                *)
Gapless(log) == DOMAIN log = 1..LastId(log)

ChainInv ==
  edits = 0 =>
    /\ Gapless(audit_log) /\ Intact(audit_log)
    /\ \A w \in Writers : call[w].pc \in {"locked", "read"} => lock = w
    /\ \A w \in Writers : call[w].pc = "read" =>
         /\ call[w].tail = LastId(audit_log)
         /\ prev[w] = HashAt(audit_log, LastId(audit_log))
    /\ \A t \in told : t[1] \in DOMAIN audit_log /\ audit_log[t[1]].entry = t[2]
    /\ prev = [w \in Writers |-> prev[w]]

GuardInv == ChainInv /\ (~breached => edits = 0 /\ triggers = APPEND_ONLY_TRIGGERS)

(* The new last row of a log without gaps that verifies.                   *)
LEMMA AppendKeepsChain ==
  ASSUME NEW log, Bounded(log), Gapless(log), Intact(log), NEW entry,
         NEW row, row = Row(HashAt(log, LastId(log)), entry,
                            chain_hash(HashAt(log, LastId(log)), LastId(log) + 1, entry))
  PROVE  /\ LastId(Put(log, LastId(log) + 1, row)) = LastId(log) + 1
         /\ Gapless(Put(log, LastId(log) + 1, row))
         /\ Intact(Put(log, LastId(log) + 1, row))
<1> DEFINE last == LastId(log)
           new == Put(log, last + 1, row)
<1>1. last \in Nat /\ DOMAIN log = 1..last
  BY LastIdIsLast DEF Gapless
<1> HIDE DEF last
<1>2. /\ DOMAIN new = 1..(last + 1)
      /\ new[last + 1] = row
      /\ \A n \in 1..last : new[n] = log[n]
  BY <1>1 DEF Put
<1> HIDE DEF new
<1>3. Bounded(new)
  BY <1>1, <1>2 DEF Bounded, Numbered
<1>4. LastId(new) = last + 1
  <2>1. LastId(new) \in DOMAIN new /\ \A n \in DOMAIN new : n =< LastId(new)
    BY <1>1, <1>2, <1>3, LastIdIsLast
  <2>2. last + 1 \in DOMAIN new /\ LastId(new) \in 1..(last + 1)
    BY <1>1, <1>2, <2>1
  <2>3. last + 1 =< LastId(new)
    BY <2>1, <2>2
  <2> QED
    BY <1>1, <2>2, <2>3
<1>5. ASSUME NEW n \in 1..(last + 1)
      PROVE  Predecessor(new, n) = n - 1
  <2>1. Before(new, n) = 1..(n - 1)
    BY <1>1, <1>2 DEF Before
  <2>2. n \in Nat /\ n > 0 /\ Numbered(new)
    BY <1>1, <1>3 DEF Bounded
  <2> HIDE DEF new
  <2>3. CASE n = 1
    BY <2>1, <2>2, <2>3, PredecessorIsLastBefore
  <2>4. CASE n # 1
    <3>1. n - 1 \in Before(new, n) /\ n - 1 \in Nat
      BY <2>1, <2>2, <2>4
    <3>2. Predecessor(new, n) \in Before(new, n) /\ n - 1 =< Predecessor(new, n)
      BY <2>2, <3>1, PredecessorIsLastBefore
    <3> QED
      BY <2>1, <2>2, <3>1, <3>2
  <2> QED
    BY <2>3, <2>4
<1>6. ASSUME NEW n \in 1..last
      PROVE  Predecessor(log, n) = n - 1
  <2>1. Before(log, n) = 1..(n - 1)
    BY <1>1 DEF Before
  <2>2. n \in Nat /\ n > 0 /\ Numbered(log)
    BY <1>1 DEF Bounded
  <2> HIDE DEF new
  <2>3. CASE n = 1
    BY <2>1, <2>2, <2>3, PredecessorIsLastBefore
  <2>4. CASE n # 1
    <3>1. n - 1 \in Before(log, n) /\ n - 1 \in Nat
      BY <2>1, <2>2, <2>4
    <3>2. Predecessor(log, n) \in Before(log, n) /\ n - 1 =< Predecessor(log, n)
      BY <2>2, <3>1, PredecessorIsLastBefore
    <3> QED
      BY <2>1, <2>2, <3>1, <3>2
  <2> QED
    BY <2>3, <2>4
<1>7. ASSUME NEW n \in 0..last
      PROVE  HashAt(new, n) = HashAt(log, n)
  BY <1>1, <1>2 DEF HashAt
<1>8. ASSUME NEW n \in 1..last
      PROVE  LinkHolds(new, n)
  <2>1. n \in DOMAIN log /\ new[n] = log[n] /\ n \in 1..(last + 1) /\ n - 1 \in 0..last
    BY <1>1, <1>2
  <2>2. LinkHolds(log, n)
    BY <2>1 DEF Intact
  <2>3. Predecessor(new, n) = n - 1 /\ Predecessor(log, n) = n - 1
    BY <1>5, <1>6, <2>1
  <2> QED
    BY <1>7, <2>1, <2>2, <2>3 DEF LinkHolds
<1>9. LinkHolds(new, last + 1)
  <2>1. Predecessor(new, last + 1) = last
    BY <1>1, <1>5
  <2>2. HashAt(new, last) = HashAt(log, last)
    BY <1>1, <1>7
  <2>3. /\ row.prev_hash = HashAt(log, last) /\ row.entry = entry
        /\ row.entry_hash = chain_hash(HashAt(log, last), last + 1, entry)
    BY DEF Row, last
  <2> QED
    BY <1>2, <2>1, <2>2, <2>3 DEF LinkHolds
<1>10. \A n \in DOMAIN new : LinkHolds(new, n)
  <2>1. \A n \in DOMAIN new : n \in 1..last \/ n = last + 1
    BY <1>1, <1>2
  <2> QED
    BY <1>8, <1>9, <2>1
<1> QED
  BY <1>2, <1>4, <1>10 DEF Gapless, Intact, last, new

LEMMA GuardInit == Init => GuardInv
<1> SUFFICES ASSUME Init PROVE GuardInv
  OBVIOUS
<1>1. /\ audit_log = <<>> /\ triggers = APPEND_ONLY_TRIGGERS /\ told = {}
      /\ \A w \in Writers : call[w].pc = "idle"
      /\ prev = [w \in Writers |-> GENESIS_HASH]
  BY DEF Init, IdleCall
<1>2. LastId(audit_log) = 0 /\ DOMAIN audit_log = {}
  BY <1>1, EmptyTable, LastIdIsLast
<1> QED
  BY <1>1, <1>2 DEF Init, GuardInv, ChainInv, Gapless, Intact

(* A thread that inserts does what Write does.                             *)
LEMMA InsertAppends ==
  ASSUME TypeInv, ChainInv, edits = 0, NEW w \in Writers, Insert(w)
  PROVE  /\ call[w].entry \in Entry
         /\ DOMAIN audit_log = 1..LastId(audit_log) /\ LastId(audit_log) \in Nat
         /\ audit_log' = Put(audit_log, LastId(audit_log) + 1,
                             Row(HashAt(audit_log, LastId(audit_log)), call[w].entry,
                                 chain_hash(HashAt(audit_log, LastId(audit_log)),
                                            LastId(audit_log) + 1, call[w].entry)))
         /\ told' \in {told, told \cup {<<LastId(audit_log) + 1, call[w].entry>>}}
         /\ Leave(w) /\ lock = w /\ breached' = breached
<1>1. /\ call[w].pc = "read" /\ call[w].tail = LastId(audit_log) /\ lock = w
      /\ prev[w] = HashAt(audit_log, LastId(audit_log))
      /\ DOMAIN audit_log = 1..LastId(audit_log)
  BY DEF Insert, ChainInv, Gapless
<1>2. call[w].entry \in Entry
  BY <1>1 DEF TypeInv
<1>3. LastId(audit_log) \in Nat
  BY LastIdIsLast DEF TypeInv
<1> QED
  BY <1>1, <1>2, <1>3 DEF Insert, Leave, outside

LEMMA RecordKeepsChain ==
  ASSUME TypeInv, ChainInv, edits = 0, NEW w \in Writers, Record(w)
  PROVE  ChainInv'
<1> USE DEF ChainInv, TypeInv, TypeOK, Calls
<1>1. ASSUME NEW entry \in Entry, Begin(w, entry) PROVE ChainInv'
  BY <1>1 DEF Begin, outside
<1>2. CASE Lock(w)
  <2>1. \A v \in Writers : call[v].pc \notin {"locked", "read"}
    BY <1>2, AuditAssumption DEF Lock, AuditAssumption
  <2>2. \A v \in Writers \ {w} : call'[v] = call[v]
    BY <1>2 DEF Lock
  <2>3. call'[w].pc = "locked" /\ lock' = w
    BY <1>2 DEF Lock
  <2> QED
    BY <1>2, <2>1, <2>2, <2>3 DEF Lock, outside
<1>3. CASE ReadTail(w)
  <2>1. lock = w /\ \A v \in Writers \ {w} : call[v].pc \notin {"locked", "read"}
    BY <1>3 DEF ReadTail
  <2>2. /\ \A v \in Writers \ {w} : call'[v] = call[v]
        /\ call'[w].pc = "read" /\ call'[w].tail = LastId(audit_log)
        /\ prev' = [prev EXCEPT ![w] = HashAt(audit_log, LastId(audit_log))]
        /\ UNCHANGED <<audit_log, lock, told, triggers, breached, edits>>
    BY <1>3 DEF ReadTail, outside
  <2>3. prev = [v \in Writers |-> prev[v]]
    OBVIOUS
  <2>4. prev'[w] = HashAt(audit_log, LastId(audit_log)) /\ prev' = [v \in Writers |-> prev'[v]]
    BY <2>2, <2>3
  <2> QED
    BY <2>1, <2>2, <2>4
<1>4. CASE Insert(w)
  <2> DEFINE last == LastId(audit_log)
             row == Row(HashAt(audit_log, last), call[w].entry,
                        chain_hash(HashAt(audit_log, last), last + 1, call[w].entry))
  <2>1. /\ DOMAIN audit_log = 1..last /\ last \in Nat
        /\ audit_log' = Put(audit_log, last + 1, row)
        /\ told' \in {told, told \cup {<<last + 1, call[w].entry>>}}
        /\ Leave(w) /\ lock = w /\ breached' = breached
    BY <1>4, InsertAppends
  <2>2. Gapless(audit_log') /\ Intact(audit_log')
    BY <2>1, AppendKeepsChain
  <2>3. row.entry = call[w].entry
    BY DEF Row
  <2> HIDE DEF last, row
  <2>4. \A t \in told' : t[1] \in DOMAIN audit_log' /\ audit_log'[t[1]].entry = t[2]
    <3>1. /\ DOMAIN audit_log' = DOMAIN audit_log \cup {last + 1}
          /\ audit_log'[last + 1] = row
          /\ \A n \in DOMAIN audit_log : audit_log'[n] = audit_log[n]
      BY <2>1 DEF Put
    <3>2. \A t \in told' : t \in told \/ t = <<last + 1, call[w].entry>>
      BY <2>1
    <3>3. \A t \in told : t[1] \in DOMAIN audit_log /\ audit_log[t[1]].entry = t[2]
      OBVIOUS
    <3> QED
      BY <2>3, <3>1, <3>2, <3>3
  <2>5. \A v \in Writers : call'[v].pc \notin {"locked", "read"}
    BY <2>1 DEF Leave, IdleCall
  <2>6. prev' = [v \in Writers |-> prev'[v]] /\ edits' = 0
    <3>1. prev' = [prev EXCEPT ![w] = GENESIS_HASH] /\ UNCHANGED outside
      BY <2>1 DEF Leave
    <3> QED
      BY <3>1 DEF outside
  <2> QED
    BY <2>2, <2>4, <2>5, <2>6
<1>5. CASE Fail(w)
  <2>1. /\ \A v \in Writers \ {w} : call'[v] = call[v] /\ prev'[v] = prev[v]
        /\ call'[w].pc = "idle"
        /\ lock' = IF lock = w THEN None ELSE lock
        /\ prev' = [v \in Writers |-> prev'[v]]
        /\ UNCHANGED <<audit_log, told, triggers, breached, edits>>
    BY <1>5 DEF Fail, Leave, IdleCall, outside
  <2>2. \A v \in Writers : call'[v].pc \in {"locked", "read"} => lock' = v
    BY <2>1
  <2> QED
    BY <2>1, <2>2
<1> QED
  BY <1>1, <1>2, <1>3, <1>4, <1>5 DEF Record

(* No edit gets past the triggers.                                         *)
LEMMA TriggersRefuse ==
  ASSUME GuardInv, ~breached, Tamper
  PROVE  breached' /\ UNCHANGED <<audit_log, told>>
<1>1. triggers = {"UPDATE", "DELETE", "TRUNCATE"}
  BY DEF GuardInv, APPEND_ONLY_TRIGGERS
<1>2. \A log, broken : /\ ~RawEdit("UPDATE", log, broken)
                       /\ ~RawEdit("DELETE", log, broken)
                       /\ ~RawEdit("TRUNCATE", log, broken)
  BY <1>1 DEF RawEdit
<1>3. /\ \A id, entry : ~Alter(id, entry)
      /\ \A id, new : ~Renumber(id, new)
      /\ \A id : ~Remove(id)
      /\ ~Truncate
  BY <1>2 DEF Alter, Renumber, Remove, Truncate
<1>4. \A id : ~Rehash(id)
  BY <1>1 DEF Rehash
<1>5. PICK operations \in Drops : DropTriggers(operations)
  BY <1>3, <1>4 DEF Tamper
<1> QED
  BY <1>5 DEF DropTriggers

LEMMA BreachedStays == ASSUME breached, [Next]_vars PROVE breached'
<1>1. ASSUME NEW w \in Writers, Record(w) PROVE breached' = breached
  BY <1>1 DEF Record, Begin, Lock, ReadTail, Insert, Fail, Leave, outside
<1>2. ASSUME Tamper PROVE breached'
  BY <1>2 DEF Tamper, DropTriggers, RawEdit, Truncate, Alter, Renumber, Remove, Rehash
<1> QED
  BY <1>1, <1>2 DEF Next, Restart, RecordHead, vars

(* Before the first edit the triggers may be gone, but the chain is whole. *)
LEMMA TamperKeepsChain ==
  ASSUME ChainInv, edits = 0, Tamper
  PROVE  ChainInv'
<1>1. \A id \in DOMAIN audit_log : ~Rehash(id)
  BY DEF Rehash, ChainInv, Intact
<1>2. ASSUME NEW operation, NEW log, NEW broken, RawEdit(operation, log, broken)
      PROVE  ChainInv'
  BY <1>2 DEF RawEdit, ChainInv
<1>3. ASSUME NEW operations, DropTriggers(operations) PROVE ChainInv'
  BY <1>3 DEF DropTriggers, ChainInv
<1> QED
  BY <1>1, <1>2, <1>3 DEF Tamper, Truncate, Alter, Renumber, Remove

(* Edits are counted, and nobody takes one back.                           *)
LEMMA EditsStay == ASSUME TypeInv, edits # 0, [Next]_vars PROVE edits' # 0
<1>1. ASSUME NEW w \in Writers, Record(w) PROVE edits' = edits
  BY <1>1 DEF Record, Begin, Lock, ReadTail, Insert, Fail, Leave, outside
<1>2. ASSUME NEW operation, NEW log, NEW broken, RawEdit(operation, log, broken)
      PROVE  edits' # 0
  BY <1>2 DEF RawEdit, TypeInv, TypeOK
<1>3. ASSUME Tamper PROVE edits' # 0
  BY <1>2, <1>3 DEF Tamper, DropTriggers, Truncate, Alter, Renumber, Remove, Rehash
<1> QED
  BY <1>1, <1>3 DEF Next, Restart, RecordHead, vars

(* Every step keeps both.                                                  *)
LEMMA StepKeepsGuard ==
  ASSUME TypeInv, GuardInv, [Next]_vars
  PROVE  GuardInv'
<1>1. ChainInv'
  <2>1. CASE edits # 0
    BY <2>1, EditsStay DEF ChainInv
  <2>2. CASE edits = 0
    <3>1. ASSUME NEW w \in Writers, Record(w) PROVE ChainInv'
      BY <2>2, <3>1, RecordKeepsChain DEF GuardInv
    <3>2. CASE Restart
      BY <3>2 DEF Restart, GuardInv, ChainInv, IdleCall
    <3>3. CASE Tamper
      BY <2>2, <3>3, TamperKeepsChain DEF GuardInv
    <3>4. CASE RecordHead
      BY <3>4 DEF RecordHead, GuardInv, ChainInv
    <3>5. CASE UNCHANGED vars
      BY <3>5 DEF vars, GuardInv, ChainInv
    <3> QED
      BY <3>1, <3>2, <3>3, <3>4, <3>5 DEF Next
  <2> QED
    BY <2>1, <2>2
<1>2. ASSUME ~breached' PROVE edits' = 0 /\ triggers' = APPEND_ONLY_TRIGGERS
  <2>1. ~breached
    BY <1>2, BreachedStays
  <2>2. edits = 0 /\ triggers = APPEND_ONLY_TRIGGERS
    BY <2>1 DEF GuardInv
  <2>3. ~Tamper
    BY <1>2, <2>1, TriggersRefuse
  <2>4. ASSUME NEW w \in Writers, Record(w) PROVE UNCHANGED <<edits, triggers>>
    BY <2>4 DEF Record, Begin, Lock, ReadTail, Insert, Fail, Leave, outside
  <2> QED
    BY <2>2, <2>3, <2>4 DEF Next, Restart, RecordHead, vars
<1> QED
  BY <1>1, <1>2 DEF GuardInv

LEMMA GuardHolds == Spec => [](TypeInv /\ GuardInv)
<1>1. Init => TypeInv /\ GuardInv
  BY TypeInit, GuardInit
<1>2. TypeInv /\ AnchorInv /\ GuardInv /\ [Next]_vars => GuardInv'
  BY StepKeepsGuard
<1> QED
  BY <1>1, <1>2, TypesHold, PTL DEF Spec

(* The chain never forks, and verifies, as long as no trigger is dropped.  *)
THEOREM ChainNeverForks == Spec => []NeverForks
<1>1. TypeInv /\ GuardInv => NeverForks
  <2> SUFFICES ASSUME TypeInv, GuardInv, ~breached
               PROVE  /\ \A w \in Writers : call[w].pc = "read" =>
                                            call[w].tail + 1 \notin DOMAIN audit_log
                      /\ verify(audit_log).intact
    BY DEF NeverForks
  <2>1. LastId(audit_log) \in Nat /\ \A n \in DOMAIN audit_log : n =< LastId(audit_log)
    BY LastIdIsLast DEF TypeInv
  <2>2. LastId(audit_log) + 1 \notin DOMAIN audit_log
    BY <2>1
  <2> QED
    BY <2>2 DEF GuardInv, ChainInv, verify
<1> QED
  BY <1>1, GuardHolds, PTL

-----------------------------------------------------------------------------
(* The refinement.                                                         *)

Said(log) == [id \in DOMAIN log |-> log[id].entry]

(* A new last row is an append to what the log says.                       *)
LEMMA PutAppends ==
  ASSUME NEW log, NEW last \in Nat, DOMAIN log = 1..last,
         \A n \in DOMAIN log : log[n].entry \in Entry,
         NEW row, row.entry \in Entry
  PROVE  /\ Said(Put(log, last + 1, row)) = Append(Said(log), row.entry)
         /\ Len(Said(Put(log, last + 1, row))) = last + 1
<1> DEFINE s == Said(log)
           t == Said(Put(log, last + 1, row))
<1>1. s \in [1..last -> Entry]
  BY DEF Said
<1>2. s \in Seq(Entry) /\ Len(s) = last
  BY <1>1
<1>3. t = [n \in 1..(last + 1) |-> IF n = last + 1 THEN row.entry ELSE s[n]]
  BY DEF Said, Put
<1>4. t \in Seq(Entry) /\ Len(t) = last + 1
  <2>1. t \in [1..(last + 1) -> Entry]
    BY <1>1, <1>3
  <2> QED
    BY <2>1
<1> HIDE DEF s, t
<1>5. Append(s, row.entry) \in Seq(Entry) /\ Len(Append(s, row.entry)) = last + 1
  BY <1>2
<1>6. \A n \in 1..(last + 1) : t[n] = Append(s, row.entry)[n]
  BY <1>2, <1>3
<1> QED
  BY <1>4, <1>5, <1>6 DEF s, t

(* The trail is an AppendOnly log as long as no trigger is dropped,        *)
(* whatever its writers, failures and restarts do.                         *)
THEOREM TrailIsAppendOnly == Spec => ImplementsAppendOnly
<1>1. Init => Promise!Init
  <2> SUFFICES ASSUME Init PROVE Promise!Init
    OBVIOUS
  <2>1. Said(audit_log) = <<>>
    BY EmptyTable DEF Init, Said
  <2> QED
    BY <2>1 DEF Init, Promise!Init, Said
<1>2. ASSUME TypeInv, GuardInv, [Next]_vars
      PROVE  [Promise!Next]_(Promise!vars)
  <2>1. CASE breached
    <3>1. (~breached)' = FALSE
      BY <1>2, <2>1, BreachedStays
    <3> QED
      BY <2>1, <3>1 DEF Promise!Next
  <2>2. CASE ~breached
    <3>1. ASSUME NEW w \in Writers, Insert(w) PROVE Promise!Next
      <4> DEFINE last == LastId(audit_log)
                 row == Row(HashAt(audit_log, last), call[w].entry,
                            chain_hash(HashAt(audit_log, last), last + 1, call[w].entry))
      <4>1. /\ DOMAIN audit_log = 1..last /\ last \in Nat
            /\ audit_log' = Put(audit_log, last + 1, row)
            /\ told' \in {told, told \cup {<<last + 1, call[w].entry>>}}
            /\ breached' = breached /\ call[w].entry \in Entry
        BY <1>2, <2>2, <3>1, InsertAppends DEF GuardInv
      <4>2. row.entry = call[w].entry
        BY DEF Row
      <4> HIDE DEF last, row
      <4>3. /\ Said(audit_log') = Append(Said(audit_log), call[w].entry)
            /\ Len(Said(audit_log')) = last + 1
        BY <1>2, <4>1, <4>2, PutAppends DEF TypeInv, TypeOK
      <4>4. Promise!Write(call[w].entry)
        BY <4>1, <4>3 DEF Promise!Write, Said
      <4> QED
        <5>1. call[w].entry \in Entry
          BY <4>1
        <5>2. \E entry \in Entry : Promise!Write(entry)
          BY <4>4, <5>1 DEF Promise!Write
        <5> QED
          BY <2>2, <5>2 DEF Promise!Next
    <3>2. ASSUME NEW w \in Writers, Record(w), ~Insert(w) PROVE UNCHANGED Promise!vars
      <4>1. UNCHANGED <<audit_log, told, breached>>
        BY <3>2 DEF Record, Begin, Lock, ReadTail, Fail, Leave, outside
      <4> QED
        BY <4>1 DEF Promise!vars
    <3>3. CASE Restart
      BY <3>3 DEF Restart, Promise!vars
    <3>4. CASE Tamper
      <4>1. breached' /\ UNCHANGED <<audit_log, told>>
        BY <1>2, <2>2, <3>4, TriggersRefuse
      <4>2. Promise!Breach
        BY <4>1 DEF Promise!Breach
      <4> QED
        BY <2>2, <4>2 DEF Promise!Next
    <3>5. CASE RecordHead
      BY <3>5 DEF RecordHead, Promise!vars
    <3>6. CASE UNCHANGED vars
      BY <3>6 DEF vars, Promise!vars
    <3> QED
      BY <1>2, <3>1, <3>2, <3>3, <3>4, <3>5, <3>6 DEF Next
  <2> QED
    BY <2>1, <2>2
<1> QED
  BY <1>1, <1>2, GuardHolds, PTL DEF Spec, ImplementsAppendOnly, Promise!Spec

-----------------------------------------------------------------------------
(* The row a lone edit breaks.                                             *)

(* It is broken, nothing before it is, and whoever is about to append has  *)
(* read a tail that is not before it.                                      *)
BrokenAt(log, id) ==
  /\ id \in DOMAIN log /\ ~LinkHolds(log, id)
  /\ \A n \in Before(log, id) : LinkHolds(log, n)

LocInv ==
  edits = 1 /\ expected # 0 =>
    /\ BrokenAt(audit_log, expected)
    /\ \A w \in Writers : call[w].pc = "read" => expected =< call[w].tail

(* Whether a row holds depends on the rows up to it.                       *)
LEMMA LinkLooksBack ==
  ASSUME NEW S, NEW T, Numbered(S), Numbered(T), NEW k \in Nat,
         Before(S, k + 1) = Before(T, k + 1), \A n \in Before(S, k + 1) : S[n] = T[n],
         NEW n \in Before(S, k + 1)
  PROVE  LinkHolds(S, n) = LinkHolds(T, n) /\ Before(S, n) = Before(T, n)
<1>1. n \in Nat /\ n =< k /\ n \in DOMAIN S /\ n \in DOMAIN T /\ S[n] = T[n]
  BY DEF Before, Numbered
<1>2. Before(S, n) = Before(T, n) /\ Before(S, n) \subseteq Before(S, k + 1)
  BY <1>1 DEF Before, Numbered
<1>3. Predecessor(S, n) = Predecessor(T, n)
  BY <1>2 DEF Predecessor
<1>4. HashAt(S, Predecessor(S, n)) = HashAt(T, Predecessor(T, n))
  <2>1. CASE Before(S, n) = {}
    BY <1>1, <1>2, <1>3, <2>1, PredecessorIsLastBefore DEF HashAt
  <2>2. CASE Before(S, n) # {}
    <3>1. Predecessor(S, n) \in Before(S, k + 1)
      BY <1>1, <1>2, <2>2, PredecessorIsLastBefore
    <3> QED
      BY <1>3, <3>1 DEF HashAt
  <2> QED
    BY <2>1, <2>2
<1> QED
  BY <1>1, <1>2, <1>4 DEF LinkHolds

(* In a log without gaps.                                                  *)
LEMMA GaplessSuccessor ==
  ASSUME NEW log, Bounded(log), Gapless(log), NEW id \in DOMAIN log, NEW otherwise
  PROVE  /\ LastId(log) \in Nat /\ id \in 1..LastId(log) /\ DOMAIN log = 1..LastId(log)
         /\ id = LastId(log) => Successor(log, id, otherwise) = otherwise
         /\ id # LastId(log) => Successor(log, id, otherwise) = id + 1
<1> DEFINE last == LastId(log)
<1>1. last \in Nat /\ DOMAIN log = 1..last
  BY LastIdIsLast DEF Gapless
<1> HIDE DEF last
<1>2. ASSUME id = last PROVE Successor(log, id, otherwise) = otherwise
  <2>1. \A n \in DOMAIN log : n =< id
    BY <1>1, <1>2
  <2> QED
    BY <2>1 DEF Successor
<1>3. ASSUME id # last PROVE Successor(log, id, otherwise) = id + 1
  <2> DEFINE Next1(n) == n > id /\ \A m \in DOMAIN log : m > id => n =< m
  <2>1. id + 1 \in DOMAIN log /\ Next1(id + 1) /\ ~ \A n \in DOMAIN log : n =< id
    BY <1>1, <1>3
  <2>2. \A n \in DOMAIN log : Next1(n) => n = id + 1
    BY <1>1, <2>1
  <2>3. Successor(log, id, otherwise) = CHOOSE n \in DOMAIN log : Next1(n)
    BY <2>1, Zenon DEF Successor
  <2> HIDE DEF Next1
  <2> QED
    BY <2>1, <2>2, <2>3
<1> QED
  BY <1>1, <1>2, <1>3 DEF last

(* Without one of its rows, whatever stands after the end, a log without   *)
(* gaps breaks at the next row.                                            *)
LEMMA MissingBreaksNext ==
  ASSUME NEW log, Bounded(log), Gapless(log), Intact(log), NEW id \in DOMAIN log,
         id # LastId(log), NEW new, Numbered(new),
         \A n \in 1..LastId(log) : n # id => n \in DOMAIN new /\ new[n] = log[n],
         id \notin DOMAIN new
  PROVE  ~LinkHolds(new, id + 1)
<1> DEFINE last == LastId(log)
<1>1. last \in Nat /\ DOMAIN log = 1..last
  BY LastIdIsLast DEF Gapless
<1> HIDE DEF last
<1>2. id \in Nat /\ id > 0 /\ id + 1 \in 1..last /\ Numbered(log)
  BY <1>1 DEF Bounded, last
<1>3. Before(log, id + 1) = 1..id /\ id \in Before(log, id + 1)
  BY <1>1, <1>2 DEF Before
<1>4. Predecessor(log, id + 1) = id
  <2>1. Predecessor(log, id + 1) \in 1..id /\ id =< Predecessor(log, id + 1)
    BY <1>2, <1>3, PredecessorIsLastBefore
  <2> QED
    BY <1>2, <2>1
<1>5. log[id + 1].prev_hash = log[id].entry_hash /\ new[id + 1] = log[id + 1]
  <2>1. LinkHolds(log, id + 1)
    BY <1>1, <1>2 DEF Intact
  <2> QED
    BY <1>2, <1>4, <2>1 DEF LinkHolds, HashAt, last
<1>6. log[id].entry_hash = chain_hash(log[id].prev_hash, id, log[id].entry)
  BY DEF Intact, LinkHolds
<1> DEFINE p == Predecessor(new, id + 1)
<1>7. p = 0 \/ (p \in DOMAIN new /\ p \in 1..last /\ p # id /\ p # 0)
  <2>1. Before(new, id + 1) \subseteq DOMAIN new /\ \A n \in Before(new, id + 1) : n < id + 1
    BY DEF Before
  <2>2. p = 0 \/ p \in Before(new, id + 1)
    BY <1>2, PredecessorIsLastBefore
  <2> HIDE DEF p
  <2> QED
    BY <1>1, <1>2, <2>1, <2>2 DEF Numbered
<1> HIDE DEF p
<1>8. HashAt(new, p) # log[id].entry_hash
  <2>1. CASE p = 0
    BY <1>6, <2>1, HashIsInjective DEF HashAt
  <2>2. CASE p # 0
    <3>1. new[p] = log[p] /\ p \in DOMAIN log /\ p # id
      BY <1>1, <1>7, <2>2 DEF last
    <3>2. log[p].entry_hash = chain_hash(log[p].prev_hash, p, log[p].entry)
      BY <3>1 DEF Intact, LinkHolds
    <3> QED
      BY <1>6, <2>2, <3>1, <3>2, HashIsInjective DEF HashAt
  <2> QED
    BY <2>1, <2>2
<1> QED
  BY <1>5, <1>8 DEF LinkHolds, p

(* Rows that stand as they stood in a log that verified still hold.        *)
LEMMA RowsBeforeHold ==
  ASSUME NEW log, Bounded(log), Gapless(log), Intact(log), NEW id \in DOMAIN log,
         NEW new, Numbered(new),
         Before(new, id) = 1..(id - 1), \A n \in 1..(id - 1) : new[n] = log[n]
  PROVE  \A n \in Before(new, id) : LinkHolds(new, n)
<1>1. /\ id \in Nat /\ id > 0 /\ id =< LastId(log) /\ LastId(log) \in Nat
      /\ DOMAIN log = 1..LastId(log) /\ Numbered(log)
  BY LastIdIsLast DEF Gapless, Bounded
<1>2. id - 1 \in Nat /\ (id - 1) + 1 = id
  BY <1>1
<1>3. Before(log, id) = 1..(id - 1)
  BY <1>1 DEF Before
<1> SUFFICES ASSUME NEW n \in Before(new, id) PROVE LinkHolds(new, n)
  OBVIOUS
<1>4. LinkHolds(new, n) = LinkHolds(log, n)
  BY <1>1, <1>2, <1>3, LinkLooksBack
<1>5. n \in DOMAIN log
  BY <1>1
<1> QED
  BY <1>4, <1>5 DEF Intact

(* An altered row is the broken one: its hash is of what it said.          *)
LEMMA AlteredBreaks ==
  ASSUME NEW log, Bounded(log), Gapless(log), Intact(log), NEW id \in DOMAIN log,
         NEW entry, entry # log[id].entry
  PROVE  BrokenAt(Put(log, id, Row(log[id].prev_hash, entry, log[id].entry_hash)), id)
<1> DEFINE row == Row(log[id].prev_hash, entry, log[id].entry_hash)
           new == Put(log, id, row)
<1>1. id \in Nat /\ id > 0 /\ DOMAIN log = 1..LastId(log) /\ LastId(log) \in Nat
  BY LastIdIsLast DEF Gapless
<1>2. /\ row.prev_hash = log[id].prev_hash /\ row.entry = entry
      /\ row.entry_hash = log[id].entry_hash
  BY DEF Row
<1>3. /\ DOMAIN new = DOMAIN log /\ new[id] = row
      /\ \A n \in 1..(id - 1) : new[n] = log[n]
  BY <1>1 DEF Put
<1> HIDE DEF row, new
<1>4. log[id].entry_hash = chain_hash(log[id].prev_hash, id, log[id].entry)
  BY DEF Intact, LinkHolds
<1>5. ~LinkHolds(new, id)
  BY <1>2, <1>3, <1>4, HashIsInjective DEF LinkHolds
<1>6. Before(new, id) = 1..(id - 1) /\ Numbered(new)
  BY <1>1, <1>3 DEF Before, Numbered
<1>7. \A n \in Before(new, id) : LinkHolds(new, n)
  BY <1>3, <1>6, RowsBeforeHold
<1> QED
  BY <1>3, <1>5, <1>7 DEF BrokenAt, new, row

(* A row that is gone breaks the next one, wherever it went.               *)
LEMMA GoneBreaksNext ==
  ASSUME NEW log, Bounded(log), Gapless(log), Intact(log), NEW id \in DOMAIN log,
         id # LastId(log), NEW new, Numbered(new),
         \A n \in 1..LastId(log) : n # id => n \in DOMAIN new /\ new[n] = log[n],
         id \notin DOMAIN new
  PROVE  BrokenAt(new, id + 1)
<1>1. /\ id \in Nat /\ id > 0 /\ id < LastId(log) /\ LastId(log) \in Nat
      /\ DOMAIN log = 1..LastId(log)
  BY LastIdIsLast DEF Gapless
<1>2. id + 1 \in DOMAIN new /\ ~LinkHolds(new, id + 1)
  BY <1>1, MissingBreaksNext
<1>3. Before(new, id) = 1..(id - 1) /\ Before(new, id + 1) = 1..(id - 1)
  BY <1>1 DEF Before, Numbered
<1>4. \A n \in Before(new, id) : LinkHolds(new, n)
  BY <1>1, <1>3, RowsBeforeHold
<1> QED
  BY <1>2, <1>3, <1>4 DEF BrokenAt

(* The last row under a number of its own is broken by that number.        *)
LEMMA RenumberedBreaks ==
  ASSUME NEW log, Bounded(log), Gapless(log), Intact(log), NEW id \in DOMAIN log,
         NEW new \in Nat \ {0}, new \notin DOMAIN log
  PROVE  /\ id # LastId(log) => BrokenAt(Put(Without(log, {id}), new, log[id]), id + 1)
         /\ id = LastId(log) => BrokenAt(Put(Without(log, {id}), new, log[id]), new)
<1> DEFINE moved == Put(Without(log, {id}), new, log[id])
<1>1. /\ id \in Nat /\ id > 0 /\ id =< LastId(log) /\ LastId(log) \in Nat
      /\ DOMAIN log = 1..LastId(log) /\ new > LastId(log) /\ new # id
  BY LastIdIsLast DEF Gapless
<1>2. /\ DOMAIN moved = (1..LastId(log) \ {id}) \cup {new} /\ moved[new] = log[id]
      /\ \A n \in 1..LastId(log) : n # id => moved[n] = log[n]
  BY <1>1 DEF Put, Without
<1> HIDE DEF moved
<1>3. Numbered(moved) /\ id \notin DOMAIN moved
  BY <1>1, <1>2 DEF Numbered
<1>4. CASE id # LastId(log)
  BY <1>2, <1>3, <1>4, GoneBreaksNext DEF moved
<1>5. CASE id = LastId(log)
  <2>1. Before(moved, id) = 1..(id - 1) /\ Before(moved, new) = 1..(id - 1)
    BY <1>1, <1>2, <1>5 DEF Before
  <2>2. \A n \in 1..(id - 1) : moved[n] = log[n]
    BY <1>1, <1>2, <1>5
  <2>3. \A n \in Before(moved, id) : LinkHolds(moved, n)
    BY <1>3, <2>1, <2>2, RowsBeforeHold
  <2>4. log[id].entry_hash = chain_hash(log[id].prev_hash, id, log[id].entry)
    BY DEF Intact, LinkHolds
  <2>5. ~LinkHolds(moved, new)
    BY <1>1, <1>2, <2>4, HashIsInjective DEF LinkHolds
  <2> QED
    BY <1>2, <1>5, <2>1, <2>3, <2>5 DEF BrokenAt, moved
<1> QED
  BY <1>4, <1>5

(* The first edit breaks the row it is expected to.                        *)
LEMMA FirstEditBreaks ==
  ASSUME TypeInv, ChainInv, edits = 0, Tamper, edits' = 1, expected' # 0
  PROVE  LocInv'
<1> DEFINE last == LastId(audit_log)
           Located == /\ BrokenAt(audit_log', expected')
                      /\ \A w \in Writers : call[w].pc = "read" => expected' =< call[w].tail
<1>a. /\ Bounded(audit_log) /\ Numbered(audit_log) /\ Gapless(audit_log) /\ Intact(audit_log)
      /\ last \in Nat /\ DOMAIN audit_log = 1..last
  BY LastIdIsLast DEF TypeInv, Bounded, ChainInv, Gapless
<1>b. \A w \in Writers : call[w].pc = "read" => call[w].tail = last
  BY DEF ChainInv
<1> HIDE DEF last
<1>1. ASSUME NEW id \in DOMAIN audit_log, NEW entry \in Entry, Alter(id, entry)
      PROVE  Located /\ call' = call
  <2>1. /\ audit_log' = Put(audit_log, id, Row(audit_log[id].prev_hash, entry,
                                               audit_log[id].entry_hash))
        /\ audit_log[id].entry # entry /\ expected' = id /\ call' = call
    BY <1>1 DEF Alter, RawEdit
  <2>2. BrokenAt(audit_log', id)
    BY <1>a, <2>1, AlteredBreaks
  <2>3. id =< last
    BY <1>a
  <2> QED
    BY <1>b, <2>1, <2>2, <2>3
<1>2. ASSUME NEW id \in DOMAIN audit_log, NEW new \in 1..MaxRows, Renumber(id, new)
      PROVE  Located /\ call' = call
  <2>1. new \in Nat \ {0} /\ new \notin DOMAIN audit_log
    BY <1>2, AuditAssumption DEF Renumber
  <2>2. /\ audit_log' = Put(Without(audit_log, {id}), new, audit_log[id]) /\ call' = call
        /\ expected' = IF \E w \in Writers : call[w].pc = "read" /\ call[w].tail = id THEN 0
                       ELSE Successor(audit_log, id, new)
    BY <1>2 DEF Renumber, RawEdit
  <2>3. /\ expected' = Successor(audit_log, id, new)
        /\ ~ \E w \in Writers : call[w].pc = "read" /\ call[w].tail = id
    BY <2>2
  <2>4. CASE id = last
    <3>1. \A w \in Writers : call[w].pc # "read"
      BY <1>b, <2>3, <2>4
    <3> QED
      BY <1>a, <2>1, <2>2, <2>3, <2>4, <3>1, GaplessSuccessor, RenumberedBreaks DEF last
  <2>5. CASE id # last
    <3>1. expected' = id + 1 /\ id + 1 =< last
      BY <1>a, <2>3, <2>5, GaplessSuccessor DEF last
    <3> QED
      BY <1>a, <1>b, <2>1, <2>2, <2>5, <3>1, RenumberedBreaks DEF last
  <2> QED
    BY <2>4, <2>5
<1>3. ASSUME NEW id \in DOMAIN audit_log, Remove(id)
      PROVE  Located /\ call' = call
  <2>1. /\ audit_log' = Without(audit_log, {id}) /\ call' = call
        /\ expected' = Successor(audit_log, id, 0)
    BY <1>3 DEF Remove, RawEdit
  <2>2. id # last /\ expected' = id + 1 /\ id + 1 =< last
    BY <1>a, <2>1, GaplessSuccessor DEF last
  <2>3. /\ DOMAIN audit_log' = (1..last) \ {id}
        /\ \A n \in DOMAIN audit_log' : audit_log'[n] = audit_log[n]
    BY <1>a, <2>1 DEF Without
  <2>4. Numbered(audit_log')
    BY <1>a, <2>3 DEF Numbered
  <2>5. BrokenAt(audit_log', id + 1)
    BY <1>a, <2>2, <2>3, <2>4, GoneBreaksNext DEF last
  <2> QED
    BY <1>b, <2>1, <2>2, <2>5
<1>4. ~Truncate /\ ~(\E id \in DOMAIN audit_log : Rehash(id))
      /\ ~(\E operations \in Drops : DropTriggers(operations))
  BY DEF Truncate, RawEdit, Rehash, DropTriggers
<1> QED
  BY <1>1, <1>2, <1>3, <1>4 DEF Tamper, LocInv

(* What is appended stands after the broken row.                           *)
LEMMA StepKeepsLoc ==
  ASSUME TypeInv, TypeInv', GuardInv, LocInv, [Next]_vars
  PROVE  LocInv'
<1> SUFFICES ASSUME edits' = 1, expected' # 0 PROVE LocInv'
  BY DEF LocInv
<1>1. CASE Tamper
  <2>1. CASE edits = 0
    BY <1>1, <2>1, FirstEditBreaks DEF GuardInv
  <2>2. CASE edits # 0
    <3>1. \A operation, log, broken : ~RawEdit(operation, log, broken)
      BY <2>2 DEF RawEdit, TypeInv, TypeOK
    <3>2. PICK operations \in Drops : DropTriggers(operations)
      BY <1>1, <3>1 DEF Tamper, Truncate, Alter, Renumber, Remove, Rehash
    <3> QED
      BY <3>2 DEF DropTriggers, LocInv
  <2> QED
    BY <2>1, <2>2
<1>2. ASSUME NEW w \in Writers, Record(w) PROVE LocInv'
  <2>a. edits = 1 /\ expected # 0 /\ UNCHANGED <<edits, expected>>
    BY <1>2 DEF Record, Begin, Lock, ReadTail, Insert, Fail, Leave, outside
  <2>b. /\ BrokenAt(audit_log, expected) /\ expected \in Nat /\ Bounded(audit_log)
        /\ \A v \in Writers : call[v].pc = "read" => expected =< call[v].tail
        /\ call \in [Writers -> Calls]
    BY <2>a DEF LocInv, TypeInv, TypeOK
  <2>1. CASE Insert(w)
    <3> DEFINE id == call[w].tail + 1
               row == Row(prev[w], call[w].entry, chain_hash(prev[w], id, call[w].entry))
    <3>1. /\ audit_log' = Put(audit_log, id, row) /\ Leave(w)
          /\ call[w].tail \in Nat /\ expected =< call[w].tail
      BY <2>1, <2>b DEF Insert, Calls
    <3>2. \A v \in Writers : call'[v].pc = "read" => call[v].pc = "read" /\ call'[v] = call[v]
      BY <2>b, <3>1 DEF Leave, IdleCall
    <3>3. id \in Nat /\ expected < id
      BY <2>b, <3>1
    <3> HIDE DEF id, row
    <3>4. /\ DOMAIN audit_log' = DOMAIN audit_log \cup {id}
          /\ \A n \in DOMAIN audit_log : n # id => audit_log'[n] = audit_log[n]
      BY <3>1 DEF Put
    <3>5. Numbered(audit_log) /\ Numbered(audit_log')
      BY <2>b DEF Bounded, TypeInv
    <3>6. /\ Before(audit_log', expected + 1) = Before(audit_log, expected + 1)
          /\ \A n \in Before(audit_log', expected + 1) : audit_log'[n] = audit_log[n]
      BY <2>b, <3>3, <3>4, <3>5 DEF Before, Numbered
    <3>7. expected \in DOMAIN audit_log
      BY <2>b DEF BrokenAt
    <3>8. /\ expected \in Before(audit_log', expected + 1)
          /\ \A n \in Before(audit_log', expected) : n \in Before(audit_log', expected + 1)
      BY <2>b, <3>4, <3>5, <3>7 DEF Before, Numbered
    <3>9. \A n \in Before(audit_log', expected + 1) :
            LinkHolds(audit_log', n) = LinkHolds(audit_log, n)
            /\ Before(audit_log', n) = Before(audit_log, n)
      BY <2>b, <3>5, <3>6, LinkLooksBack
    <3>10. BrokenAt(audit_log', expected)
      BY <2>b, <3>4, <3>7, <3>8, <3>9 DEF BrokenAt
    <3> QED
      BY <2>a, <2>b, <3>2, <3>10 DEF LocInv
  <2>2. CASE ReadTail(w)
    <3>1. expected =< LastId(audit_log)
      BY <2>b, LastIdIsLast DEF BrokenAt
    <3>2. /\ audit_log' = audit_log /\ call'[w].tail = LastId(audit_log)
          /\ \A v \in Writers : v # w => call'[v] = call[v]
      BY <2>b, <2>2 DEF ReadTail
    <3> QED
      BY <2>a, <2>b, <3>1, <3>2 DEF LocInv
  <2>3. CASE Lock(w) \/ Fail(w) \/ \E entry \in Entry : Begin(w, entry)
    <3>1. audit_log' = audit_log /\ \A v \in Writers : v # w => call'[v] = call[v]
      BY <2>b, <2>3 DEF Lock, Fail, Begin, Leave
    <3>2. call'[w].pc # "read"
      <4>1. CASE Lock(w)
        BY <2>b, <4>1 DEF Lock, Calls
      <4>2. CASE Fail(w)
        BY <2>b, <4>2 DEF Fail, Leave, IdleCall
      <4>3. ASSUME NEW entry \in Entry, Begin(w, entry) PROVE call'[w].pc # "read"
        BY <2>b, <4>3 DEF Begin
      <4> QED
        BY <2>3, <4>1, <4>2, <4>3
    <3> QED
      BY <2>a, <2>b, <3>1, <3>2 DEF LocInv
  <2> QED
    BY <1>2, <2>1, <2>2, <2>3 DEF Record
<1>3. CASE Restart
  BY <1>3 DEF Restart, LocInv, IdleCall
<1>4. CASE RecordHead \/ UNCHANGED vars
  BY <1>4 DEF RecordHead, vars, LocInv
<1> QED
  BY <1>1, <1>2, <1>3, <1>4 DEF Next

(* verify() names the row a lone edit broke, whatever was appended since.  *)
THEOREM LoneEditIsLocated == Spec => []EditIsLocated
<1>1. Init => LocInv
  BY DEF Init, LocInv
<1>2. TypeInv /\ TypeInv' /\ GuardInv /\ LocInv /\ [Next]_vars => LocInv'
  BY StepKeepsLoc
<1>3. TypeInv /\ LocInv => EditIsLocated
  <2> SUFFICES ASSUME TypeInv, LocInv, edits = 1, expected # 0
               PROVE  /\ ~verify(audit_log).intact /\ verify(audit_log).broken_at = expected
                      /\ verify(audit_log).checked = Cardinality(Before(audit_log, expected))
    BY DEF EditIsLocated
  <2>1. BrokenAt(audit_log, expected) /\ ~Intact(audit_log)
    BY DEF LocInv, BrokenAt, Intact
  <2> DEFINE First(id) == /\ ~LinkHolds(audit_log, id)
                          /\ \A n \in Before(audit_log, id) : LinkHolds(audit_log, n)
             first == CHOOSE id \in DOMAIN audit_log : First(id)
  <2>2. expected \in DOMAIN audit_log /\ First(expected)
    BY <2>1 DEF BrokenAt
  <2>3. ASSUME NEW id \in DOMAIN audit_log, First(id) PROVE id = expected
    <3>1. id \in Nat /\ expected \in Nat
      BY <2>2 DEF TypeInv, TypeOK
    <3>2. ~(id < expected) /\ ~(expected < id)
      BY <2>2, <2>3 DEF Before
    <3> QED
      BY <3>1, <3>2
  <2>4. verify(audit_log) = [intact |-> FALSE, broken_at |-> first,
                             checked |-> Cardinality(Before(audit_log, first)),
                             head |-> HashAt(audit_log, Predecessor(audit_log, first))]
    BY <2>1, Zenon DEF verify
  <2> HIDE DEF First
  <2>5. first = expected
    BY <2>2, <2>3
  <2> HIDE DEF first
  <2> QED
    BY <2>4, <2>5
<1> QED
  BY <1>1, <1>2, <1>3, GuardHolds, PTL DEF Spec
=============================================================================
