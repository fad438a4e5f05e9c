------------------------------ MODULE Velocity ------------------------------
(***************************************************************************)
(* One agent's policy (policy.py): evaluate() in several threads against   *)
(* the agent's mandates, the velocity slots its keys share, and the        *)
(* denials that put it into cool-down.  What happens to an approved        *)
(* purchase afterwards is Purchase.tla's; here it ends in confirm_slot,    *)
(* release_slot or neither, and a key whose slot stayed held is confirmed  *)
(* or released later by the reconciler.                                    *)
(*                                                                         *)
(* A step is one database statement or transaction.  evaluate() reads the  *)
(* clock once, before all of them, and the cool-down count reads it again. *)
(* An amount stands for the whole request: 0 is malformed, one above the   *)
(* cap breaks a rule of the mandate (the currency is checked at the same   *)
(* place with the same effect), and the item may be missing from a list.   *)
(* Windows are the same for every mandate.                                 *)
(*                                                                         *)
(* A definition placed just before another one with the same parameters    *)
(* and named by no action is a plausible slip of it, for the mutants.      *)
(***************************************************************************)
EXTENDS Mandates

CONSTANTS Requests,     \* threads evaluating requests of the agent
          Keys,         \* idempotency keys
          Amounts,      \* amounts asked for, 0 for a malformed request
          Window,       \* velocity_window_secs
          CoolAfter,    \* cooldown_denials
          CoolWindow,   \* cooldown_window_secs
          MaxEvaluations  \* bound: requests evaluated in a behaviour

ASSUME VelocityAssumption ==
  /\ IsFiniteSet(Keys) /\ Keys # {} /\ IsFiniteSet(Requests)
  /\ Amounts \subseteq Nat
  /\ Window \in Nat /\ CoolAfter \in Nat /\ CoolWindow \in Nat
  /\ MaxEvaluations \in Nat

VARIABLES evaluations,  \* requests evaluated so far
          slot,         \* velocity_slots, by key
          denials,      \* the rows of the table denials, in order
          request,      \* request[p]: where evaluate() is in thread p
          revived       \* keys confirmed although their slot was released

pvars == <<evaluations, slot, denials, request, revived>>
vars == <<now, mandates, admin, server, late,
          evaluations, slot, denials, request, revived>>

SLOT_HELD == "HELD"
SLOT_CONFIRMED == "CONFIRMED"
SLOT_RELEASED == "RELEASED"

Rules == {"MALFORMED_REQUEST", "NO_ACTIVE_MANDATE", "COOLDOWN_ACTIVE", "MANDATE_EXPIRED",
          "AMOUNT_EXCEEDS_CAP", "SKU_NOT_ALLOWED", "VELOCITY_EXCEEDED"}

Slot == [status : {"none", SLOT_HELD, SLOT_CONFIRMED, SLOT_RELEASED},
         mandate : Nat, amount : Amounts \cup {0}, at : Nat]
NoSlot == [status |-> "none", mandate |-> 0, amount |-> 0, at |-> 0]

Denial == [rule : Rules, at : Nat]

(* at is the clock read on entry, mandate the row found (a copy of it is   *)
(* the row, but for its revocation), rule the denial to record.            *)
Request == [pc : {"idle", "mandate", "cooldown", "claim", "deny", "approved"},
            key : Keys, amount : Amounts \cup {0}, at : Nat, mandate : Nat,
            rule : Rules \cup {"none"}]

IdleRequest == [pc |-> "idle", key |-> CHOOSE k \in Keys : TRUE, amount |-> 0, at |-> 0,
                mandate |-> 0, rule |-> "none"]

TermsFor(p) == mandates[request[p].mandate].terms

-----------------------------------------------------------------------------
(* Counting slots and denials.                                             *)

Counts(k) == slot[k].status \in {SLOT_HELD, SLOT_CONFIRMED}

UsedConfirmed(t) ==
  Cardinality({k \in Keys : slot[k].status = SLOT_CONFIRMED /\ slot[k].at + Window >= t})

(* The slots claimed since t - Window.                                     *)
Used(t) == Cardinality({k \in Keys : Counts(k) /\ slot[k].at + Window >= t})

(* The denials since t - CoolWindow, those of the cool-down itself apart.  *)
Counted(t) ==
  {i \in DOMAIN denials :
     denials[i].rule # "COOLDOWN_ACTIVE" /\ denials[i].at + CoolWindow >= t}

-----------------------------------------------------------------------------
(* evaluate().                                                             *)

Ends(p) == request' = [request EXCEPT ![p] = IdleRequest]
Goes(p, pc) == request' = [request EXCEPT ![p].pc = pc]
Denies(p, rule) == request' = [request EXCEPT ![p].pc = "deny", ![p].rule = rule]

Evaluate(p) ==
  /\ server.pc = "up" /\ request[p].pc = "idle"
  /\ evaluations < MaxEvaluations
  /\ evaluations' = evaluations + 1
  /\ \E k \in Keys, amount \in Amounts :
       request' = [request EXCEPT ![p] =
                     [pc |-> IF amount = 0 THEN "deny" ELSE "mandate",
                      key |-> k, amount |-> amount, at |-> now, mandate |-> 0,
                      rule |-> IF amount = 0 THEN "MALFORMED_REQUEST" ELSE "none"]]
  /\ UNCHANGED <<now, mandates, admin, server, late, slot, denials, revived>>

FindMandate(p) ==
  /\ request[p].pc = "mandate"
  /\ \/ \E i \in Active :
          request' = [request EXCEPT ![p].pc = "cooldown", ![p].mandate = i]
     \/ Active = {} /\ Denies(p, "NO_ACTIVE_MANDATE")
  /\ UNCHANGED <<now, mandates, admin, server, late, evaluations, slot, denials, revived>>

CheckAmountOnly(p) ==
  /\ request[p].pc = "cooldown"
  /\ \/ request[p].amount > TermsFor(p).cap /\ Denies(p, "AMOUNT_EXCEEDS_CAP")
     \/ request[p].amount <= TermsFor(p).cap /\ Goes(p, "claim")
  /\ UNCHANGED <<now, mandates, admin, server, late, evaluations, slot, denials, revived>>

(* The cool-down, counted by the clock of now, then the rules by the clock *)
(* read on entry.                                                          *)
CheckRules(p) ==
  LET Throttled == CoolAfter > 0 /\ Cardinality(Counted(now)) >= CoolAfter
      Expired == request[p].at >= TermsFor(p).expires
      TooMuch == request[p].amount > TermsFor(p).cap
      Allowed == ~Throttled /\ ~Expired /\ ~TooMuch IN
  /\ request[p].pc = "cooldown"
  /\ \/ Throttled /\ Denies(p, "COOLDOWN_ACTIVE")
     \/ ~Throttled /\ Expired /\ Denies(p, "MANDATE_EXPIRED")
     \/ ~Throttled /\ ~Expired /\ TooMuch /\ Denies(p, "AMOUNT_EXCEEDS_CAP")
     \/ Allowed /\ ~TermsFor(p).any /\ Denies(p, "SKU_NOT_ALLOWED")
     \/ Allowed /\ Goes(p, "claim")
  /\ UNCHANGED <<now, mandates, admin, server, late, evaluations, slot, denials, revived>>

(* One transaction under the agent's advisory lock.  A key that has a slot *)
(* reuses it whatever its status.                                          *)
ClaimSlot(p) ==
  LET k == request[p].key IN
  /\ request[p].pc = "claim"
  /\ \/ /\ slot[k].status # "none"
        /\ Goes(p, "approved")
        /\ UNCHANGED slot
     \/ /\ slot[k].status = "none"
        /\ Used(request[p].at) < TermsFor(p).limit
        /\ slot' = [slot EXCEPT ![k] =
                      [status |-> SLOT_HELD, mandate |-> request[p].mandate,
                       amount |-> request[p].amount, at |-> request[p].at]]
        /\ Goes(p, "approved")
     \/ /\ slot[k].status = "none"
        /\ Used(request[p].at) >= TermsFor(p).limit
        /\ Denies(p, "VELOCITY_EXCEEDED")
        /\ UNCHANGED slot
  /\ UNCHANGED <<now, mandates, admin, server, late, evaluations, denials, revived>>

RecordDenial(p) ==
  /\ request[p].pc = "deny"
  /\ denials' = Append(denials, [rule |-> request[p].rule, at |-> now])
  /\ Ends(p)
  /\ UNCHANGED <<now, mandates, admin, server, late, evaluations, slot, revived>>

(* A statement fails.                                                      *)
RequestFails(p) ==
  /\ request[p].pc # "idle"
  /\ Ends(p)
  /\ UNCHANGED <<now, mandates, admin, server, late, evaluations, slot, denials, revived>>

-----------------------------------------------------------------------------
(* What becomes of the slot of an approved purchase.                       *)

SetSlotStatus(k, status) ==
  /\ slot' = [slot EXCEPT ![k].status = status]
  /\ revived' = IF slot[k].status = SLOT_RELEASED /\ status = SLOT_CONFIRMED
                THEN revived \cup {k} ELSE revived

ConfirmSlot(p) ==
  /\ request[p].pc = "approved"
  /\ SetSlotStatus(request[p].key, SLOT_CONFIRMED)
  /\ Ends(p)
  /\ UNCHANGED <<now, mandates, admin, server, late, evaluations, denials>>

(* Whatever became of the slot since: a release may be late.               *)
ReleaseSlot(p) ==
  /\ request[p].pc = "approved"
  /\ SetSlotStatus(request[p].key, SLOT_RELEASED)
  /\ Ends(p)
  /\ UNCHANGED <<now, mandates, admin, server, late, evaluations, denials>>

(* The reconciler settles the purchase of a key.                           *)
SettleSlot(k) ==
  /\ server.pc = "up" /\ slot[k].status # "none"
  /\ \E status \in {SLOT_CONFIRMED, SLOT_RELEASED} : SetSlotStatus(k, status)
  /\ UNCHANGED <<now, mandates, admin, server, late, evaluations, denials, request>>

-----------------------------------------------------------------------------

Init ==
  /\ MandateInit
  /\ evaluations = 0
  /\ slot = [k \in Keys |-> NoSlot]
  /\ denials = <<>>
  /\ request = [p \in Requests |-> IdleRequest]
  /\ revived = {}

(* The server is restarted and drops what its threads were evaluating.     *)
DropRequests ==
  /\ request' = [p \in Requests |-> IdleRequest]
  /\ UNCHANGED <<evaluations, slot, denials, revived>>

Next ==
  \/ RouteStep /\ UNCHANGED pvars
  \/ Startup /\ UNCHANGED pvars
  \/ MandateTick /\ UNCHANGED pvars
  \/ Restart /\ DropRequests
  \/ \E p \in Requests :
       Evaluate(p) \/ FindMandate(p) \/ CheckRules(p) \/ ClaimSlot(p) \/ RecordDenial(p)
         \/ RequestFails(p) \/ ConfirmSlot(p) \/ ReleaseSlot(p)
  \/ \E k \in Keys : SettleSlot(k)

Spec == Init /\ [][Next]_vars

-----------------------------------------------------------------------------

TypeOK ==
  /\ MandateTypeOK
  /\ evaluations \in Nat
  /\ slot \in [Keys -> Slot]
  /\ denials \in Seq(Denial)
  /\ request \in [Requests -> Request]
  /\ revived \subseteq Keys

WithinLimit(S) == \E n \in Limits : Cardinality(S) <= n

(* "Two concurrent requests can both read '2 used, cap is 3' and both      *)
(* proceed" (policy.py:9-13) does not happen: in every window, however     *)
(* the threads interleave, the purchases that count are within a limit the *)
(* merchant set, those apart whose released slot was charged after all.    *)
RollingCap ==
  \A j \in Keys : WithinLimit({k \in Keys \ revived :
                    Counts(k) /\ slot[k].at \in slot[j].at .. slot[j].at + Window})

(* Every slot was claimed within the mandate it names: under its cap,      *)
(* before it expired, and not after it was revoked, whatever was edited or *)
(* revoked while the request was being evaluated.                          *)
BoundedByMandate ==
  \A k \in Keys : slot[k].status # "none" =>
    LET row == mandates[slot[k].mandate] IN
    /\ slot[k].amount <= row.terms.cap
    /\ slot[k].at < row.terms.expires
    /\ row.revoked => slot[k].at <= row.revokedAt

(* An agent that grinds against the rules is throttled (README, "Denial    *)
(* cooldown"): the check-then-act of _check_cooldown lets through one      *)
(* denial more per concurrent request, and no more than that.              *)
GrindingIsBounded ==
  CoolAfter > 0 => \A i \in DOMAIN denials :
    LET ground == {j \in DOMAIN denials :
                     /\ denials[j].rule \notin {"COOLDOWN_ACTIVE", "MALFORMED_REQUEST",
                                                "NO_ACTIVE_MANDATE"}
                     /\ denials[j].at \in denials[i].at .. denials[i].at + CoolWindow}
    IN Cardinality(ground) < CoolAfter + Cardinality(Requests)

-----------------------------------------------------------------------------
(* A statement of the code's own documentation that a run refutes.         *)

(* "Putting 4 through a cap of 3" (policy.py:12), with no purchase apart.  *)
SlidingCap ==
  \A j \in Keys : WithinLimit({k \in Keys :
                    Counts(k) /\ slot[k].at \in slot[j].at .. slot[j].at + Window})
=============================================================================
