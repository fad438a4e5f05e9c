----------------------------- MODULE AuditChain -----------------------------
(***************************************************************************)
(* The table audit_log (audit.py): several threads append through          *)
(* record(), somebody who owns the database drops the triggers and edits   *)
(* rows, and verify() and head() say what can still be known.  Purchase    *)
(* and Checkout use record() as one step; here it has its own.             *)
(*                                                                         *)
(* The table is a function from its primary key to a row.  An Entry stands *)
(* for all the columns the hash covers, but for the number and the link.   *)
(* SHA-256 is taken to be collision free: the hash is the tuple of what    *)
(* goes in.                                                                *)
(*                                                                         *)
(* A definition placed just before another one with the same parameters    *)
(* and named by no action is a plausible slip of it, for the mutants.      *)
(***************************************************************************)
EXTENDS Integers, FiniteSets, Sequences

CONSTANTS Writers,    \* threads that call record()
          Entry,      \* what a row can say
          None,       \* nobody, nothing
          Drops,      \* sets of triggers that may be dropped together
          MaxRows,    \* bound: the number of the last row
          MaxEdits    \* bound: raw edits

ASSUME AuditAssumption ==
  /\ MaxRows \in Nat /\ MaxEdits \in Nat
  /\ None \notin Writers /\ None \notin Entry

VARIABLES audit_log,   \* event_id -> row
          triggers,    \* operations the table's triggers refuse
          lock,        \* holder of the advisory lock "audit_log:tail"
          call,        \* call[w]: where record() is in thread w
          prev,        \* prev[w]: the hash thread w read with the tail's number
          told,        \* <<event_id, entry>> of the entries record() returned
          breached,    \* some trigger was dropped at some time
          edits,       \* raw edits so far
          expected,    \* the row a lone raw edit leaves broken, 0 for none
          anchor       \* a head recorded elsewhere, and the log it was the head of

vars == <<audit_log, triggers, lock, call, prev, told, breached, edits, expected, anchor>>

GENESIS_HASH == <<>>

(* A collision-free hash of what chain_hash is given.  An absent field is   *)
(* hashed as an empty one, so entries that differ in that alone are one    *)
(* entry here: verify() cannot tell them apart.                            *)
chain_hash_without_id(prev_hash, event_id, entry) == <<prev_hash, 0, entry>>
chain_hash(prev_hash, event_id, entry) == <<prev_hash, event_id, entry>>

(* One trigger per statement; a trigger for DELETE says nothing of         *)
(* TRUNCATE.                                                               *)
RowTriggersOnly == {"UPDATE", "DELETE"}
APPEND_ONLY_TRIGGERS == {"UPDATE", "DELETE", "TRUNCATE"}

Calls == [pc : {"idle", "waiting", "locked", "read"},
          entry : Entry \cup {None}, tail : Nat]
IdleCall == [pc |-> "idle", entry |-> None, tail |-> 0]

-----------------------------------------------------------------------------
(* Reading the chain.                                                      *)

(* The largest number, 0 in an empty table.                                *)
FirstId(log) ==
  IF DOMAIN log = {} THEN 0 ELSE CHOOSE n \in DOMAIN log : \A m \in DOMAIN log : n =< m
LastId(log) ==
  IF DOMAIN log = {} THEN 0 ELSE CHOOSE n \in DOMAIN log : \A m \in DOMAIN log : m =< n

HashAt(log, id) == IF id = 0 THEN GENESIS_HASH ELSE log[id].entry_hash

(* The rows before one, and the last of them.                              *)
Before(log, id) == {n \in DOMAIN log : n < id}
Predecessor(log, id) ==
  IF Before(log, id) = {} THEN 0
  ELSE CHOOSE n \in Before(log, id) : \A m \in Before(log, id) : m =< n

(* What verify() asks of one row: the link, and the recomputed hash.       *)
OnlyLinked(log, id) == log[id].prev_hash = HashAt(log, Predecessor(log, id))
LinkHolds(log, id) ==
  /\ log[id].prev_hash = HashAt(log, Predecessor(log, id))
  /\ log[id].entry_hash = chain_hash(log[id].prev_hash, id, log[id].entry)

Intact(log) == \A id \in DOMAIN log : LinkHolds(log, id)

(* The walk stops at the first row that fails.                             *)
verify(log) ==
  IF Intact(log)
  THEN [intact |-> TRUE, broken_at |-> 0, checked |-> Cardinality(DOMAIN log),
        head |-> HashAt(log, LastId(log))]
  ELSE LET first == CHOOSE id \in DOMAIN log :
                      /\ ~LinkHolds(log, id)
                      /\ \A n \in Before(log, id) : LinkHolds(log, n)
       IN  [intact |-> FALSE, broken_at |-> first,
            checked |-> Cardinality(Before(log, first)),
            head |-> HashAt(log, Predecessor(log, first))]

-----------------------------------------------------------------------------
(* record().                                                               *)

outside == <<triggers, breached, edits, expected, anchor>>

(* The clock and the details are read; the transaction begins.             *)
Begin(w, entry) ==
  /\ call[w].pc = "idle"
  /\ LastId(audit_log) + Cardinality({v \in Writers : call[v].pc # "idle"}) < MaxRows
  /\ call' = [call EXCEPT ![w] = [pc |-> "waiting", entry |-> entry, tail |-> 0]]
  /\ UNCHANGED <<audit_log, lock, prev, told, outside>>

LockNothing(w) ==
  /\ call[w].pc = "waiting"
  /\ call' = [call EXCEPT ![w].pc = "locked"]
  /\ UNCHANGED <<audit_log, lock, prev, told, outside>>

Lock(w) ==
  /\ call[w].pc = "waiting"
  /\ lock = None
  /\ lock' = w
  /\ call' = [call EXCEPT ![w].pc = "locked"]
  /\ UNCHANGED <<audit_log, prev, told, outside>>

ReadTail(w) ==
  /\ call[w].pc = "locked"
  /\ call' = [call EXCEPT ![w] = [pc |-> "read", entry |-> call[w].entry,
                                  tail |-> LastId(audit_log)]]
  /\ prev' = [prev EXCEPT ![w] = HashAt(audit_log, LastId(audit_log))]
  /\ UNCHANGED <<audit_log, lock, told, outside>>

Row(prev_hash, entry, entry_hash) ==
  [entry |-> entry, prev_hash |-> prev_hash, entry_hash |-> entry_hash]

Put(log, id, row) == [n \in DOMAIN log \cup {id} |-> IF n = id THEN row ELSE log[n]]

Leave(w) ==
  /\ lock' = IF lock = w THEN None ELSE lock
  /\ call' = [call EXCEPT ![w] = IdleCall]
  /\ prev' = [prev EXCEPT ![w] = GENESIS_HASH]
  /\ UNCHANGED outside

(* INSERT and COMMIT, which frees the lock.  The answer to the COMMIT may  *)
(* be lost: the row is in, and the caller gets an AuditWriteError.         *)
Insert(w) ==
  LET id == call[w].tail + 1
      entry == call[w].entry
  IN
  /\ call[w].pc = "read"
  /\ id \notin DOMAIN audit_log
  /\ audit_log' = Put(audit_log, id,
                      Row(prev[w], entry, chain_hash(prev[w], id, entry)))
  /\ told' \in {told, told \cup {<<id, entry>>}}
  /\ Leave(w)

(* A duplicate number, or the connection lost before the COMMIT: rolled    *)
(* back, AuditWriteError.                                                  *)
Fail(w) == call[w].pc # "idle" /\ Leave(w) /\ UNCHANGED <<audit_log, told>>

(* The process starts again, which puts missing triggers back (audit.py    *)
(* 190-210): whoever dropped them leaves no trace there.                   *)
Restart ==
  /\ triggers' = APPEND_ONLY_TRIGGERS
  /\ call' = [w \in Writers |-> IdleCall]
  /\ prev' = [w \in Writers |-> GENESIS_HASH]
  /\ lock' = None
  /\ UNCHANGED <<audit_log, told, breached, edits, expected, anchor>>

-----------------------------------------------------------------------------
(* Somebody at the database, in statements of their own.                   *)

DropTriggers(operations) ==
  /\ triggers' = triggers \ operations
  /\ breached' = TRUE
  /\ UNCHANGED <<audit_log, lock, call, prev, told, edits, expected, anchor>>

(* A statement a trigger refuses changes nothing; broken is the row that a *)
(* lone edit leaves broken.                                                *)
RawEdit(operation, log, broken) ==
  /\ operation \notin triggers
  /\ edits < MaxEdits
  /\ audit_log' = log
  /\ edits' = edits + 1
  /\ expected' = IF edits = 0 THEN broken ELSE 0
  /\ UNCHANGED <<triggers, lock, call, prev, told, breached, anchor>>

Without(log, ids) == [n \in DOMAIN log \ ids |-> log[n]]

Successor(log, id, otherwise) ==
  IF \A n \in DOMAIN log : n =< id THEN otherwise
  ELSE CHOOSE n \in DOMAIN log : n > id /\ \A m \in DOMAIN log : m > id => n =< m

Alter(id, entry) ==
  /\ audit_log[id].entry # entry
  /\ RawEdit("UPDATE",
       Put(audit_log, id,
           Row(audit_log[id].prev_hash, entry, audit_log[id].entry_hash)), id)

(* An append that has read the moved tail lands before it.                 *)
Renumber(id, new) ==
  /\ new \notin DOMAIN audit_log
  /\ RawEdit("UPDATE", Put(Without(audit_log, {id}), new, audit_log[id]),
             IF \E w \in Writers : call[w].pc = "read" /\ call[w].tail = id THEN 0
             ELSE Successor(audit_log, id, new))

Remove(id) ==
  RawEdit("DELETE", Without(audit_log, {id}), Successor(audit_log, id, 0))

Truncate == RawEdit("TRUNCATE", <<>>, 0)

(* Whoever can edit can also recompute hashes, row by row where needed.    *)
Rehash(id) ==
  LET prev_hash == HashAt(audit_log, Predecessor(audit_log, id))
      entry == audit_log[id].entry
  IN
  /\ "UPDATE" \notin triggers
  /\ ~LinkHolds(audit_log, id)
  /\ audit_log' = Put(audit_log, id,
                      Row(prev_hash, entry, chain_hash(prev_hash, id, entry)))
  /\ expected' = 0
  /\ UNCHANGED <<triggers, lock, call, prev, told, breached, edits, anchor>>

(* verify() is run, and the head it reports for an intact log is kept      *)
(* where the database's owner cannot reach it.                             *)
RecordHead ==
  /\ anchor.head = None
  /\ DOMAIN audit_log # {} /\ verify(audit_log).intact
  /\ anchor' = [head |-> verify(audit_log).head, log |-> audit_log]
  /\ UNCHANGED <<audit_log, triggers, lock, call, prev, told, breached, edits, expected>>

-----------------------------------------------------------------------------

Init ==
  /\ audit_log = <<>>
  /\ triggers = APPEND_ONLY_TRIGGERS
  /\ lock = None
  /\ call = [w \in Writers |-> IdleCall]
  /\ prev = [w \in Writers |-> GENESIS_HASH]
  /\ told = {}
  /\ breached = FALSE /\ edits = 0 /\ expected = 0
  /\ anchor = [head |-> None, log |-> <<>>]

Record(w) ==
  \/ \E entry \in Entry : Begin(w, entry)
  \/ Lock(w) \/ ReadTail(w) \/ Insert(w) \/ Fail(w)

Tamper ==
  \/ \E operations \in Drops : DropTriggers(operations)
  \/ Truncate
  \/ \E id \in DOMAIN audit_log :
       \/ \E entry \in Entry : Alter(id, entry)
       \/ \E new \in 1..MaxRows : Renumber(id, new)
       \/ Remove(id) \/ Rehash(id)

Next == (\E w \in Writers : Record(w)) \/ Restart \/ Tamper \/ RecordHead

Spec == Init /\ [][Next]_vars

-----------------------------------------------------------------------------
(* Properties.                                                             *)

TypeOK ==
  /\ DOMAIN audit_log \subseteq Nat \ {0}
  /\ \A id \in DOMAIN audit_log : audit_log[id].entry \in Entry
  /\ triggers \subseteq APPEND_ONLY_TRIGGERS
  /\ lock \in Writers \cup {None}
  /\ call \in [Writers -> Calls]
  /\ told \subseteq Nat \X Entry
  /\ breached \in BOOLEAN /\ edits \in Nat /\ expected \in Nat

(* As long as nobody drops a trigger the trail only grows, at its end,     *)
(* whatever threads, failures and restarts do, and an entry whose writer   *)
(* was told its number stands there.                                       *)
Promise == INSTANCE AppendOnly WITH
  log <- [id \in DOMAIN audit_log |-> audit_log[id].entry],
  guarded <- ~breached
ImplementsAppendOnly == Promise!Spec

(* The chain does not fork: the number a thread is about to use is free,   *)
(* so the primary key never refuses an entry, and what was written         *)
(* verifies at any time, in the middle of an append too.                   *)
NeverForks ==
  ~breached => /\ \A w \in Writers :
                    call[w].pc = "read" => call[w].tail + 1 \notin DOMAIN audit_log
               /\ verify(audit_log).intact

(* verify() reports the row a lone edit broke, and not an earlier one: the *)
(* row itself if it was altered, the next one if it was removed, moved or  *)
(* renumbered (audit.py, chain_hash's docstring), whatever was appended    *)
(* since.                                                                  *)
EditIsLocated ==
  edits = 1 /\ expected # 0 =>
    LET report == verify(audit_log) IN
    /\ ~report.intact /\ report.broken_at = expected
    /\ report.checked = Cardinality(Before(audit_log, expected))

(* A recorded head closes the hole a complete rewrite leaves (audit.py     *)
(* 32-41): a log that verifies and has the recorded hash in some row has,  *)
(* up to that row, the numbers and entries of the day it was recorded,     *)
(* whatever was edited and recomputed.                                     *)
AnchorFixesHistory ==
  anchor.head # None /\ Intact(audit_log) =>
    \A id \in DOMAIN audit_log :
      audit_log[id].entry_hash = anchor.head =>
        /\ Before(audit_log, id + 1) = DOMAIN anchor.log
        /\ \A n \in DOMAIN anchor.log : audit_log[n].entry = anchor.log[n].entry
=============================================================================
