--------------------------- MODULE VelocityProofs ---------------------------
(***************************************************************************)
(* Proofs about Velocity for any mandates, threads, keys, amounts and      *)
(* windows: the sliding cap, the bounds of the mandate and the cool-down   *)
(* hold however evaluations, edits, revocations and restarts interleave,   *)
(* and edits and revocations keep count of the agent's authority.          *)
(***************************************************************************)
EXTENDS Velocity, FiniteSetTheorems, SequenceTheorems, TLAPS

(* No stamp is later than the clock.                                       *)
StampedInThePast ==
  /\ \A p \in Requests : request[p].at <= now
  /\ \A k \in Keys : slot[k].at <= now

NotAfterRevocation(at, i) == mandates[i].revoked => at <= mandates[i].revokedAt

(* A request on its way to a slot works under a mandate that was active    *)
(* when it was read, after the clock was.                                  *)
WorksUnderMandate ==
  \A p \in Requests : request[p].pc \in {"cooldown", "claim"} =>
    /\ request[p].mandate \in DOMAIN mandates
    /\ NotAfterRevocation(request[p].at, request[p].mandate)
    /\ request[p].pc = "claim" => /\ request[p].amount <= TermsFor(p).cap
                                  /\ request[p].at < TermsFor(p).expires

SlotsNameMandate ==
  \A k \in Keys : slot[k].status # "none" => slot[k].mandate \in DOMAIN mandates

ApprovedHasSlot ==
  \A p \in Requests : request[p].pc = "approved" => slot[request[p].key].status # "none"

DeniesByRule == \A p \in Requests : request[p].pc = "deny" => request[p].rule \in Rules

IInv == /\ TypeOK /\ DeniesByRule /\ StampedInThePast /\ WorksUnderMandate
        /\ SlotsNameMandate
        /\ ApprovedHasSlot /\ BoundedByMandate /\ RollingCap

-----------------------------------------------------------------------------
(* The mandates.                                                           *)

(* Rows only get revoked, and only now.                                    *)
MandatesGrow ==
  /\ now \in Nat /\ now' \in Nat /\ now <= now'
  /\ \A i \in DOMAIN mandates :
       /\ i \in DOMAIN mandates'
       /\ mandates'[i].terms = mandates[i].terms
       /\ mandates'[i].revoked =>
            \/ mandates[i].revoked /\ mandates'[i].revokedAt = mandates[i].revokedAt
            \/ mandates'[i].revokedAt = now

LEMMA FirstTermsTypes ==
  ASSUME now \in Nat
  PROVE  FirstTerms \in Terms /\ NewRow(FirstTerms) \in Row /\ IdleAdmin \in AdminState
BY MandatesAssumption DEF FirstTerms, Terms, NewRow, Row, IdleAdmin, AdminState

LEMMA ServerTypes ==
  ASSUME NEW i \in Nat, NEW pc \in {"up", "starting", "revoke", "issue"}
  PROVE  [pc |-> pc, current |-> i] \in ServerState /\ Up \in ServerState
BY DEF ServerState, Up

LEMMA EditsTypes ==
  ASSUME now \in Nat, NEW terms \in Terms, NEW new \in EditsOf(terms)
  PROVE  new \in Terms
<1>1. CASE \E c \in Caps : new = [terms EXCEPT !.cap = c]
  BY <1>1 DEF Terms
<1>2. CASE \/ \E n \in Limits : new = [terms EXCEPT !.limit = n]
           \/ \E any \in BOOLEAN : new = [terms EXCEPT !.any = any]
  BY <1>2 DEF Terms
<1>3. CASE \E s \in Lifetimes : new = [terms EXCEPT !.expires = now + s]
  <2>1. PICK s \in Lifetimes : new = [terms EXCEPT !.expires = now + s]
    BY <1>3
  <2>2. now + s \in Nat
    BY MandatesAssumption
  <2> QED
    BY <2>1, <2>2 DEF Terms
<1> QED
  BY <1>1, <1>2, <1>3 DEF EditsOf

LEMMA MandateInitTypes == MandateInit => MandateTypeOK
<1> SUFFICES ASSUME MandateInit PROVE MandateTypeOK
  OBVIOUS
<1>1. now \in Nat /\ late \in Nat /\ server = Up
  BY DEF MandateInit
<1>2. NewRow(FirstTerms) \in Row /\ IdleAdmin \in AdminState /\ Up \in ServerState
  BY <1>1, FirstTermsTypes, ServerTypes
<1> QED BY <1>1, <1>2 DEF MandateInit, MandateTypeOK

LEMMA IssueGrows ==
  ASSUME MandateTypeOK, NEW terms \in Terms,
         mandates' = Append(mandates, NewRow(terms)), now' = now
  PROVE  mandates' \in Seq(Row) /\ MandatesGrow
<1>1. NewRow(terms) \in Row
  BY DEF MandateTypeOK, NewRow, Row
<1> QED
  BY <1>1 DEF MandateTypeOK, MandatesGrow

LEMMA RevokeGrows ==
  ASSUME MandateTypeOK, NEW i, Revoke(i), now' = now
  PROVE  mandates' \in Seq(Row) /\ MandatesGrow
<1>1. \A j \in DOMAIN mandates : mandates[j] \in Row
  BY DEF MandateTypeOK
<1>2. /\ DOMAIN mandates' = DOMAIN mandates
      /\ \A j \in DOMAIN mandates :
           mandates'[j] = IF j = i THEN [mandates[j] EXCEPT !.revoked = TRUE, !.revokedAt = now]
                                   ELSE mandates[j]
  BY DEF Revoke
<1>3. \A j \in DOMAIN mandates : mandates'[j] \in Row
  BY <1>1, <1>2 DEF Row, MandateTypeOK
<1>4. mandates' \in Seq(Row)
  <2>1. PICK n \in Nat : mandates \in [1..n -> Row]
    BY SeqDef DEF MandateTypeOK
  <2>2. mandates' \in [1..n -> Row]
    BY <1>2, <1>3, <2>1 DEF Revoke
  <2> QED
    BY <2>2, SeqDef
<1>5. \A j \in DOMAIN mandates :
        /\ mandates'[j].terms = mandates[j].terms
        /\ mandates'[j].revoked =>
             \/ mandates[j].revoked /\ mandates'[j].revokedAt = mandates[j].revokedAt
             \/ mandates'[j].revokedAt = now
  BY <1>1, <1>2 DEF Row
<1>6. now \in Nat /\ now' \in Nat /\ now <= now'
  BY DEF MandateTypeOK
<1>7. MandatesGrow
  BY <1>2, <1>5, <1>6, Zenon DEF MandatesGrow
<1> QED
  BY <1>4, <1>7

LEMMA SameMandatesGrow ==
  ASSUME MandateTypeOK, UNCHANGED mandates, now' = now \/ now' = now + 1
  PROVE  mandates' \in Seq(Row) /\ MandatesGrow
BY DEF MandateTypeOK, MandatesGrow

LEMMA AdminMoves ==
  ASSUME MandateTypeOK, NEW a \in Admins, NEW s \in AdminState,
         admin' = [admin EXCEPT ![a] = s]
  PROVE  admin' \in [Admins -> AdminState]
BY DEF MandateTypeOK

LEMMA MandateStep ==
  ASSUME MandateTypeOK, [MandateNext]_mvars
  PROVE  MandateTypeOK' /\ MandatesGrow
<1> USE DEF MandateTypeOK
<1>1. ASSUME NEW a \in Admins, ReadForEdit(a) PROVE MandateTypeOK' /\ MandatesGrow
  <2>0. PICK i \in Active : \E terms \in EditsOf(mandates[i].terms) :
          admin' = [admin EXCEPT ![a] = [pc |-> "edit", current |-> i, terms |-> terms]]
    BY <1>1 DEF ReadForEdit
  <2>1. PICK terms \in EditsOf(mandates[i].terms) :
          admin' = [admin EXCEPT ![a] = [pc |-> "edit", current |-> i, terms |-> terms]]
    BY <2>0
  <2>2. i \in Nat /\ mandates[i].terms \in Terms
    <3>1. i \in DOMAIN mandates /\ DOMAIN mandates \subseteq Nat
      BY DEF Active, Live
    <3>2. mandates[i] \in Row
      BY <3>1, ElementOfSeq
    <3> QED
      BY <3>1, <3>2 DEF Row
  <2>3. [pc |-> "edit", current |-> i, terms |-> terms] \in AdminState
    BY <2>2, EditsTypes DEF AdminState
  <2> QED
    BY <1>1, <2>1, <2>3, SameMandatesGrow DEF ReadForEdit
<1>2. ASSUME NEW a \in Admins, ReadForRevoke(a) PROVE MandateTypeOK' /\ MandatesGrow
  <2>1. PICK i \in Active :
          admin' = [admin EXCEPT ![a] = [IdleAdmin EXCEPT !.pc = "revoke", !.current = i]]
    BY <1>2 DEF ReadForRevoke
  <2>2. i \in Nat
    BY DEF Active, Live
  <2>3. [IdleAdmin EXCEPT !.pc = "revoke", !.current = i] \in AdminState
    BY <2>2, FirstTermsTypes DEF AdminState
  <2> QED
    BY <1>2, <2>1, <2>3, SameMandatesGrow DEF ReadForRevoke
<1>3. ASSUME NEW a \in Admins, EditRevokes(a) PROVE MandateTypeOK' /\ MandatesGrow
  <2>1. [admin[a] EXCEPT !.pc = "issue"] \in AdminState
    BY DEF AdminState
  <2>2. mandates' \in Seq(Row) /\ MandatesGrow
    BY <1>3, RevokeGrows DEF EditRevokes
  <2>3. late' \in Nat
    BY <1>3 DEF EditRevokes
  <2> QED
    BY <1>3, <2>1, <2>2, <2>3 DEF EditRevokes
<1>4. ASSUME NEW a \in Admins, EditIssues(a) PROVE MandateTypeOK' /\ MandatesGrow
  <2>1. admin[a].terms \in Terms
    BY DEF AdminState
  <2> QED
    BY <1>4, <2>1, IssueGrows, FirstTermsTypes DEF EditIssues
<1>5. ASSUME NEW a \in Admins, RevokeRoute(a) PROVE MandateTypeOK' /\ MandatesGrow
  BY <1>5, RevokeGrows, FirstTermsTypes DEF RevokeRoute
<1>9. ASSUME NEW a \in Admins, RouteFails(a) PROVE MandateTypeOK' /\ MandatesGrow
  BY <1>9, SameMandatesGrow, FirstTermsTypes DEF RouteFails
<1>6. ASSUME Restart PROVE MandateTypeOK' /\ MandatesGrow
  BY <1>6, SameMandatesGrow, FirstTermsTypes, ServerTypes DEF Restart
<1>10. ASSUME StartupReads PROVE MandateTypeOK' /\ MandatesGrow
  <2>1. Active \subseteq Nat
    BY DEF Active, Live
  <2> QED
    BY <1>10, <2>1, SameMandatesGrow, ServerTypes DEF StartupReads
<1>11. ASSUME StartupRevokes PROVE MandateTypeOK' /\ MandatesGrow
  <2>1. [server EXCEPT !.pc = "issue"] \in ServerState
    BY DEF ServerState
  <2> QED
    BY <1>11, <2>1, RevokeGrows DEF StartupRevokes
<1>12. ASSUME StartupIssues PROVE MandateTypeOK' /\ MandatesGrow
  BY <1>12, IssueGrows, FirstTermsTypes, ServerTypes DEF StartupIssues
<1>7. ASSUME MandateTick PROVE MandateTypeOK' /\ MandatesGrow
  BY <1>7, SameMandatesGrow DEF MandateTick
<1>8. CASE UNCHANGED mvars
  BY <1>8, SameMandatesGrow DEF mvars
<1> QED
  BY <1>1, <1>2, <1>3, <1>4, <1>5, <1>6, <1>7, <1>8, <1>9, <1>10, <1>11, <1>12
     DEF MandateNext, RouteStep, Startup

-----------------------------------------------------------------------------
(* Type correctness.                                                       *)

RequestPC == {"idle", "mandate", "cooldown", "claim", "deny", "approved"}

LEMMA RequestMoves ==
  ASSUME request \in [Requests -> Request], NEW p \in Requests, NEW pc \in RequestPC,
         Goes(p, pc)
  PROVE  request' \in [Requests -> Request]
<1>1. [request[p] EXCEPT !.pc = pc] \in Request
  BY DEF Request, RequestPC
<1> QED
  BY <1>1 DEF Goes

LEMMA RequestDenied ==
  ASSUME request \in [Requests -> Request], NEW p \in Requests, NEW rule \in Rules,
         Denies(p, rule)
  PROVE  request' \in [Requests -> Request]
<1>1. [request[p] EXCEPT !.pc = "deny", !.rule = rule] \in Request
  BY DEF Request
<1> QED
  BY <1>1 DEF Denies

LEMMA RequestEnds ==
  ASSUME request \in [Requests -> Request], NEW p \in Requests, Ends(p)
  PROVE  request' \in [Requests -> Request]
<1>1. IdleRequest \in Request
  BY VelocityAssumption DEF Request, IdleRequest
<1> QED
  BY <1>1 DEF Ends

LEMMA StatusTypes ==
  ASSUME slot \in [Keys -> Slot], revived \subseteq Keys, NEW k \in Keys,
         NEW status \in {SLOT_CONFIRMED, SLOT_RELEASED}, SetSlotStatus(k, status)
  PROVE  slot' \in [Keys -> Slot] /\ revived' \subseteq Keys
<1>1. [slot[k] EXCEPT !.status = status] \in Slot
  BY DEF Slot
<1>2. slot' \in [Keys -> Slot]
  BY <1>1 DEF SetSlotStatus
<1>3. revived' \subseteq Keys
  BY DEF SetSlotStatus
<1> QED
  BY <1>2, <1>3

LEMMA AllDropped ==
  ASSUME DropRequests
  PROVE  /\ request' \in [Requests -> Request]
         /\ \A p \in Requests : request'[p] = IdleRequest
BY VelocityAssumption DEF DropRequests, Request, IdleRequest

LEMMA TypeInit == Init => TypeOK
<1>1. NoSlot \in Slot
  BY DEF NoSlot, Slot
<1>2. IdleRequest \in Request
  BY VelocityAssumption DEF Request, IdleRequest
<1> QED
  BY <1>1, <1>2, MandateInitTypes DEF Init, TypeOK

LEMMA TypeStep ==
  ASSUME TypeOK, DeniesByRule, [Next]_vars
  PROVE  TypeOK'
<1> USE DEF TypeOK
<1>0. ASSUME UNCHANGED <<now, mandates, admin, server, late>> PROVE MandateTypeOK'
  BY <1>0 DEF MandateTypeOK
<1>1. CASE MandateNext /\ UNCHANGED pvars
  BY <1>1, MandateStep DEF pvars
<1>12. CASE Restart /\ DropRequests
  BY <1>12, MandateStep, AllDropped DEF MandateNext, DropRequests
<1>2. ASSUME NEW p \in Requests, Evaluate(p) PROVE TypeOK'
  <2>1. PICK k \in Keys, amount \in Amounts :
          request' = [request EXCEPT ![p] =
                        [pc |-> IF amount = 0 THEN "deny" ELSE "mandate",
                         key |-> k, amount |-> amount, at |-> now, mandate |-> 0,
                         rule |-> IF amount = 0 THEN "MALFORMED_REQUEST" ELSE "none"]]
    BY <1>2 DEF Evaluate
  <2>2. [pc |-> IF amount = 0 THEN "deny" ELSE "mandate",
         key |-> k, amount |-> amount, at |-> now, mandate |-> 0,
         rule |-> IF amount = 0 THEN "MALFORMED_REQUEST" ELSE "none"] \in Request
    BY DEF Request, Rules, MandateTypeOK
  <2>3. evaluations' \in Nat
    BY <1>2 DEF Evaluate
  <2> QED
    BY <1>0, <1>2, <2>1, <2>2, <2>3 DEF Evaluate
<1>3. ASSUME NEW p \in Requests, FindMandate(p) PROVE TypeOK'
  <2>1. CASE Denies(p, "NO_ACTIVE_MANDATE")
    BY <1>0, <1>3, <2>1, RequestDenied DEF FindMandate, Rules
  <2>2. ASSUME NEW i \in Active,
               request' = [request EXCEPT ![p].pc = "cooldown", ![p].mandate = i]
        PROVE  TypeOK'
    <3>1. i \in Nat
      BY DEF Active, Live, MandateTypeOK
    <3>2. [request[p] EXCEPT !.pc = "cooldown", !.mandate = i] \in Request
      BY <3>1 DEF Request
    <3> QED
      BY <1>0, <1>3, <2>2, <3>2 DEF FindMandate
  <2> QED
    BY <1>3, <2>1, <2>2 DEF FindMandate
<1>4. ASSUME NEW p \in Requests, CheckRules(p) PROVE TypeOK'
  BY <1>0, <1>4, RequestDenied, RequestMoves DEF CheckRules, Rules, RequestPC
<1>5. ASSUME NEW p \in Requests, ClaimSlot(p) PROVE TypeOK'
  <2>1. [status |-> SLOT_HELD, mandate |-> request[p].mandate,
         amount |-> request[p].amount, at |-> request[p].at] \in Slot
    BY DEF Request, Slot
  <2>2. slot' \in [Keys -> Slot]
    BY <1>5, <2>1 DEF ClaimSlot
  <2>3. request' \in [Requests -> Request]
    BY <1>5, RequestDenied, RequestMoves DEF ClaimSlot, Rules, RequestPC
  <2> QED
    BY <1>0, <1>5, <2>2, <2>3 DEF ClaimSlot
<1>6. ASSUME NEW p \in Requests, RecordDenial(p) PROVE TypeOK'
  <2>1. [rule |-> request[p].rule, at |-> now] \in Denial
    BY <1>6 DEF Denial, MandateTypeOK, RecordDenial, DeniesByRule
  <2> QED
    BY <1>0, <1>6, <2>1, RequestEnds DEF RecordDenial
<1>7. ASSUME NEW p \in Requests, RequestFails(p) PROVE TypeOK'
  BY <1>0, <1>7, RequestEnds DEF RequestFails
<1>8. ASSUME NEW p \in Requests, ConfirmSlot(p) PROVE TypeOK'
  <2>1. request[p].key \in Keys
    BY DEF Request
  <2> QED
    BY <1>0, <1>8, <2>1, RequestEnds, StatusTypes DEF ConfirmSlot
<1>9. ASSUME NEW p \in Requests, ReleaseSlot(p) PROVE TypeOK'
  <2>1. request[p].key \in Keys
    BY DEF Request
  <2> QED
    BY <1>0, <1>9, <2>1, RequestEnds, StatusTypes DEF ReleaseSlot
<1>10. ASSUME NEW k \in Keys, SettleSlot(k) PROVE TypeOK'
  BY <1>0, <1>10, StatusTypes DEF SettleSlot
<1>11. CASE UNCHANGED vars
  BY <1>0, <1>11 DEF vars
<1> QED
  BY <1>1, <1>2, <1>3, <1>4, <1>5, <1>6, <1>7, <1>8, <1>9, <1>10, <1>11, <1>12
     DEF Next, MandateNext

-----------------------------------------------------------------------------
(* The cap.                                                                *)

LEMMA FewerWithinLimit ==
  ASSUME NEW S \in SUBSET Keys, NEW T \in SUBSET S, WithinLimit(S)
  PROVE  WithinLimit(T)
<1>1. IsFiniteSet(S) /\ IsFiniteSet(T)
  BY VelocityAssumption, FS_Subset
<1>2. Cardinality(T) <= Cardinality(S) /\ Cardinality(T) \in Nat /\ Cardinality(S) \in Nat
  BY <1>1, FS_Subset, FS_CardinalityType
<1> QED
  BY <1>2, MandatesAssumption DEF WithinLimit

LEMMA AtMostOneMore ==
  ASSUME NEW S, IsFiniteSet(S), NEW x
  PROVE  IsFiniteSet(S \cup {x}) /\ Cardinality(S \cup {x}) <= Cardinality(S) + 1
<1>1. Cardinality(S) \in Nat
  BY FS_CardinalityType
<1>2. Cardinality(S \cup {x}) = Cardinality(S) \/ Cardinality(S \cup {x}) = Cardinality(S) + 1
  BY FS_AddElement
<1>3. IsFiniteSet(S \cup {x})
  BY FS_AddElement
<1> QED
  BY <1>1, <1>2, <1>3

(* Slots that keep their stamps, none of them counted again.               *)
LEMMA CapWhenFewerCount ==
  ASSUME RollingCap,
         \A k \in Keys : slot'[k].at = slot[k].at,
         \A k \in Keys : Counts(k)' /\ k \notin revived' => Counts(k) /\ k \notin revived
  PROVE  RollingCap'
<1> SUFFICES ASSUME NEW j \in Keys
             PROVE  WithinLimit({k \in Keys \ revived :
                      Counts(k) /\ slot[k].at \in slot[j].at .. slot[j].at + Window})'
  BY DEF RollingCap
<1> DEFINE Old == {k \in Keys \ revived :
                     Counts(k) /\ slot[k].at \in slot[j].at .. slot[j].at + Window}
           New == {k \in Keys \ revived' :
                     Counts(k)' /\ slot'[k].at \in slot'[j].at .. slot'[j].at + Window}
<1>1. New \subseteq Old
  OBVIOUS
<1>2. WithinLimit(Old)
  BY DEF RollingCap
<1>3. WithinLimit(New)
  BY <1>1, <1>2, FewerWithinLimit
<1> QED
  BY <1>3 DEF WithinLimit

(* A claim counts itself after finding room in its own window, and every   *)
(* other window it is in lies within that one or after it.                 *)
LEMMA CapWhenClaimed ==
  ASSUME TypeOK, RollingCap, NEW k \in Keys, NEW t \in Nat, NEW limit \in Limits,
         slot[k].status = "none", Used(t) < limit, UNCHANGED revived,
         \A m \in Keys \ {k} : slot'[m] = slot[m], slot'[k].at = t
  PROVE  RollingCap'
<1> SUFFICES ASSUME NEW j \in Keys
             PROVE  WithinLimit({m \in Keys \ revived :
                      Counts(m) /\ slot[m].at \in slot[j].at .. slot[j].at + Window})'
  BY DEF RollingCap
<1> DEFINE InOld(u) == {m \in Keys \ revived :
                          Counts(m) /\ slot[m].at \in u .. u + Window}
           New == {m \in Keys \ revived' :
                     Counts(m)' /\ slot'[m].at \in slot'[j].at .. slot'[j].at + Window}
           Room == {m \in Keys : Counts(m) /\ slot[m].at + Window >= t}
           start == slot'[j].at
<1>1. \A m \in Keys : slot[m].at \in Nat
  BY DEF TypeOK, Slot
<1>2. start \in Nat /\ Window \in Nat
  BY <1>1, VelocityAssumption
<1>3. New \subseteq InOld(start) \cup {k}
  BY DEF Counts
<1>4. CASE t \in start .. start + Window
  <2>1. InOld(start) \subseteq Room
    BY <1>1, <1>2, <1>4
  <2>2. IsFiniteSet(Room) /\ Cardinality(Room) \in Nat /\ Cardinality(Room) < limit
    BY VelocityAssumption, FS_Subset, FS_CardinalityType DEF Used
  <2>3. IsFiniteSet(InOld(start)) /\ Cardinality(InOld(start)) <= Cardinality(Room)
        /\ Cardinality(InOld(start)) \in Nat
    BY <2>1, <2>2, FS_Subset, FS_CardinalityType
  <2>4. /\ IsFiniteSet(InOld(start) \cup {k})
        /\ Cardinality(InOld(start) \cup {k}) <= Cardinality(InOld(start)) + 1
    BY <2>3, AtMostOneMore
  <2>5. /\ Cardinality(New) <= Cardinality(InOld(start) \cup {k}) /\ Cardinality(New) \in Nat
        /\ Cardinality(InOld(start) \cup {k}) \in Nat
    BY <1>3, <2>4, FS_Subset, FS_CardinalityType
  <2>6. limit \in Nat
    BY MandatesAssumption
  <2>7. Cardinality(New) <= limit
    BY <2>2, <2>3, <2>4, <2>5, <2>6
  <2>8. WithinLimit(New)
    BY <2>7 DEF WithinLimit
  <2> QED
    BY <2>8 DEF WithinLimit
<1>5. CASE t \notin start .. start + Window
  <2>1. j # k
    BY <1>2, <1>5
  <2>2. start = slot[j].at
    BY <2>1
  <2>3. k \notin New
    BY <1>5
  <2>4. New \subseteq InOld(slot[j].at)
    BY <1>3, <2>2, <2>3
  <2>5. WithinLimit(InOld(slot[j].at))
    BY DEF RollingCap
  <2>6. WithinLimit(New)
    BY <2>4, <2>5, FewerWithinLimit
  <2> QED
    BY <2>6 DEF WithinLimit
<1> QED
  BY <1>4, <1>5

-----------------------------------------------------------------------------
(* The rest of the invariant.                                              *)

LEMMA InitialRows ==
  /\ IdleRequest.pc = "idle" /\ IdleRequest.at = 0
  /\ NoSlot.status = "none" /\ NoSlot.at = 0
BY DEF IdleRequest, NoSlot

LEMMA RowTypes ==
  ASSUME TypeOK
  PROVE  /\ \A p \in Requests : /\ request[p].at \in Nat /\ request[p].amount \in Nat
                                /\ request[p].key \in Keys
         /\ \A k \in Keys : slot[k].at \in Nat /\ slot[k].amount \in Nat
<1>1. \A p \in Requests : request[p] \in Request
  BY DEF TypeOK
<1>2. \A k \in Keys : slot[k] \in Slot
  BY DEF TypeOK
<1>3. \A n \in Amounts \cup {0} : n \in Nat
  BY VelocityAssumption
<1> QED
  BY <1>1, <1>2, <1>3 DEF Request, Slot

LEMMA IInvInit == Init => IInv
<1> SUFFICES ASSUME Init PROVE IInv
  OBVIOUS
<1>1. TypeOK
  BY TypeInit
<1>2. /\ \A p \in Requests : request[p] = IdleRequest
      /\ \A k \in Keys : slot[k] = NoSlot
      /\ now = 0
  BY DEF Init, MandateInit
<1>3. \A k \in Keys : ~Counts(k)
  BY <1>2 DEF Counts, NoSlot, SLOT_HELD, SLOT_CONFIRMED
<1>4. ASSUME NEW j \in Keys
      PROVE  WithinLimit({k \in Keys \ revived :
               Counts(k) /\ slot[k].at \in slot[j].at .. slot[j].at + Window})
  <2>1. {k \in Keys \ revived :
           Counts(k) /\ slot[k].at \in slot[j].at .. slot[j].at + Window} = {}
    BY <1>3
  <2>2. FirstLimit \in Limits /\ FirstLimit >= 0
    BY MandatesAssumption
  <2> QED
    BY <2>1, <2>2, FS_EmptySet DEF WithinLimit
<1>5. RollingCap
  BY <1>4 DEF RollingCap
<1>6. StampedInThePast
  BY <1>2, InitialRows DEF StampedInThePast
<1>7. WorksUnderMandate /\ SlotsNameMandate /\ ApprovedHasSlot /\ DeniesByRule
  BY <1>2, InitialRows DEF WorksUnderMandate, SlotsNameMandate, ApprovedHasSlot, DeniesByRule
<1>8. BoundedByMandate
  BY <1>2, InitialRows DEF BoundedByMandate
<1> QED
  BY <1>1, <1>5, <1>6, <1>7, <1>8 DEF IInv

(* Mandates move, requests and slots stay.                                 *)
LEMMA MandatesMove ==
  ASSUME IInv, TypeOK', MandatesGrow, UNCHANGED pvars
  PROVE  IInv'
<1> USE DEF pvars
<1>1. \A p \in Requests : request[p].at \in Nat /\ request[p].amount \in Nat
  BY RowTypes DEF IInv
<1>2. \A k \in Keys : slot[k].at \in Nat /\ slot[k].amount \in Nat
  BY RowTypes DEF IInv
<1>3. StampedInThePast'
  BY <1>1, <1>2 DEF IInv, StampedInThePast, MandatesGrow
<1>4. \A at \in Nat, i \in DOMAIN mandates :
        at <= now /\ NotAfterRevocation(at, i) => NotAfterRevocation(at, i)'
  BY DEF MandatesGrow, NotAfterRevocation
<1>5. WorksUnderMandate'
  <2> SUFFICES ASSUME NEW p \in Requests, request[p].pc \in {"cooldown", "claim"}
               PROVE  /\ request[p].mandate \in DOMAIN mandates'
                      /\ NotAfterRevocation(request[p].at, request[p].mandate)'
                      /\ request[p].pc = "claim" =>
                           /\ request[p].amount <= TermsFor(p)'.cap
                           /\ request[p].at < TermsFor(p)'.expires
    BY DEF WorksUnderMandate
  <2>1. /\ request[p].mandate \in DOMAIN mandates
        /\ NotAfterRevocation(request[p].at, request[p].mandate)
        /\ request[p].at <= now
    BY DEF IInv, WorksUnderMandate, StampedInThePast
  <2>2. NotAfterRevocation(request[p].at, request[p].mandate)'
    BY <1>1, <1>4, <2>1
  <2>3. TermsFor(p)' = TermsFor(p) /\ request[p].mandate \in DOMAIN mandates'
    BY <2>1 DEF MandatesGrow, TermsFor
  <2> QED
    BY <2>2, <2>3 DEF IInv, WorksUnderMandate
<1>6. SlotsNameMandate'
  BY DEF IInv, SlotsNameMandate, MandatesGrow
<1>7. BoundedByMandate'
  <2> SUFFICES ASSUME NEW k \in Keys, slot[k].status # "none"
               PROVE  /\ slot[k].amount <= mandates'[slot[k].mandate].terms.cap
                      /\ slot[k].at < mandates'[slot[k].mandate].terms.expires
                      /\ NotAfterRevocation(slot[k].at, slot[k].mandate)'
    BY DEF BoundedByMandate, NotAfterRevocation
  <2>1. /\ slot[k].mandate \in DOMAIN mandates
        /\ NotAfterRevocation(slot[k].at, slot[k].mandate)
        /\ slot[k].at <= now
    BY DEF IInv, SlotsNameMandate, BoundedByMandate, NotAfterRevocation, StampedInThePast
  <2>2. mandates'[slot[k].mandate].terms = mandates[slot[k].mandate].terms
    BY <2>1 DEF MandatesGrow
  <2>3. NotAfterRevocation(slot[k].at, slot[k].mandate)'
    BY <1>2, <1>4, <2>1
  <2> QED
    BY <2>2, <2>3 DEF IInv, BoundedByMandate
<1>8. RollingCap' /\ ApprovedHasSlot' /\ DeniesByRule'
  BY DEF IInv, RollingCap, WithinLimit, Counts, ApprovedHasSlot, DeniesByRule
<1> QED
  BY <1>3, <1>5, <1>6, <1>7, <1>8 DEF IInv

(* What a request that moves must bring along.                             *)
Fits(p) ==
  /\ request[p].at <= now
  /\ request[p].pc = "deny" => request[p].rule \in Rules
  /\ request[p].pc = "approved" => slot[request[p].key].status # "none"
  /\ request[p].pc \in {"cooldown", "claim"} =>
       /\ request[p].mandate \in DOMAIN mandates
       /\ NotAfterRevocation(request[p].at, request[p].mandate)
       /\ request[p].pc = "claim" => /\ request[p].amount <= TermsFor(p).cap
                                     /\ request[p].at < TermsFor(p).expires

AllFit == \A p \in Requests : Fits(p)

LEMMA IInvParts ==
  IInv <=> /\ TypeOK /\ AllFit /\ (\A k \in Keys : slot[k].at <= now)
           /\ SlotsNameMandate /\ BoundedByMandate /\ RollingCap
BY DEF IInv, AllFit, Fits, DeniesByRule, StampedInThePast, WorksUnderMandate, ApprovedHasSlot

LEMMA PrimedParts ==
  ASSUME TypeOK', AllFit', \A k \in Keys : slot'[k].at <= now',
         SlotsNameMandate', BoundedByMandate', RollingCap'
  PROVE  IInv'
BY DEF IInv, AllFit, Fits, DeniesByRule, StampedInThePast, WorksUnderMandate, ApprovedHasSlot

LEMMA IdleFits ==
  ASSUME NEW p \in Requests, now' \in Nat, request'[p] = IdleRequest
  PROVE  Fits(p)'
BY InitialRows DEF Fits

LEMMA SlotsStay ==
  ASSUME IInv, TypeOK', AllFit', UNCHANGED <<now, mandates, slot, revived>>
  PROVE  IInv'
<1>1. SlotsNameMandate' /\ BoundedByMandate' /\ RollingCap'
  BY DEF IInv, SlotsNameMandate, BoundedByMandate, RollingCap, WithinLimit, Counts
<1>2. \A k \in Keys : slot'[k].at <= now'
  BY DEF IInv, StampedInThePast
<1> QED
  BY <1>1, <1>2, PrimedParts

LEMMA StatusMoves ==
  ASSUME IInv, TypeOK', AllFit', UNCHANGED <<now, mandates>>, NEW k \in Keys,
         NEW status \in {SLOT_CONFIRMED, SLOT_RELEASED}, SetSlotStatus(k, status),
         slot[k].status # "none"
  PROVE  IInv'
<1>1. \A m \in Keys : /\ slot[m].status # "none" <=> slot'[m].status # "none"
                      /\ slot'[m].at = slot[m].at /\ slot'[m].amount = slot[m].amount
                      /\ slot'[m].mandate = slot[m].mandate
  <2>1. \A m \in Keys : slot[m] \in Slot
    BY DEF IInv, TypeOK
  <2>2. /\ \A m \in Keys \ {k} : slot'[m] = slot[m]
        /\ slot'[k] = [slot[k] EXCEPT !.status = status]
    BY DEF SetSlotStatus, IInv, TypeOK
  <2> QED
    BY <2>1, <2>2 DEF Slot, SLOT_CONFIRMED, SLOT_RELEASED
<1>2. SlotsNameMandate' /\ BoundedByMandate' /\ \A m \in Keys : slot'[m].at <= now'
  BY <1>1 DEF IInv, SlotsNameMandate, BoundedByMandate, StampedInThePast
<1>3. \A m \in Keys : Counts(m)' /\ m \notin revived' => Counts(m) /\ m \notin revived
  <2>1. ASSUME NEW m \in Keys \ {k} PROVE Counts(m)' <=> Counts(m)
    BY DEF Counts, SetSlotStatus, IInv, TypeOK
  <2>2. Counts(k)' /\ k \notin revived' => Counts(k)
    BY DEF Counts, SetSlotStatus, IInv, TypeOK, Slot, SLOT_HELD, SLOT_CONFIRMED, SLOT_RELEASED
  <2>3. revived \subseteq revived'
    BY DEF SetSlotStatus
  <2> QED
    BY <2>1, <2>2, <2>3
<1>4. RollingCap'
  BY <1>1, <1>3, CapWhenFewerCount DEF IInv
<1> QED
  BY <1>2, <1>4, PrimedParts

LEMMA SlotClaimed ==
  ASSUME IInv, TypeOK', AllFit', UNCHANGED <<now, mandates, revived>>, NEW p \in Requests,
         request[p].pc = "claim", slot[request[p].key].status = "none",
         Used(request[p].at) < TermsFor(p).limit,
         slot' = [slot EXCEPT ![request[p].key] =
                    [status |-> SLOT_HELD, mandate |-> request[p].mandate,
                     amount |-> request[p].amount, at |-> request[p].at]]
  PROVE  IInv'
<1> DEFINE k == request[p].key
<1>1. k \in Keys /\ request[p].at \in Nat
  BY RowTypes DEF IInv
<1>2. Fits(p)
  BY IInvParts DEF AllFit
<1>3. /\ \A m \in Keys \ {k} : slot'[m] = slot[m]
      /\ slot'[k] = [status |-> SLOT_HELD, mandate |-> request[p].mandate,
                     amount |-> request[p].amount, at |-> request[p].at]
  BY <1>1 DEF IInv, TypeOK
<1>4. \A m \in Keys : slot'[m].at <= now'
  BY <1>2, <1>3 DEF Fits, IInv, StampedInThePast
<1>5. SlotsNameMandate'
  BY <1>2, <1>3 DEF Fits, IInv, SlotsNameMandate
<1>6. BoundedByMandate'
  BY <1>2, <1>3 DEF Fits, IInv, BoundedByMandate, NotAfterRevocation, TermsFor
<1>7. TermsFor(p).limit \in Limits
  <2>1. mandates[request[p].mandate] \in Row
    BY <1>2, ElementOfSeq DEF Fits, IInv, TypeOK, MandateTypeOK
  <2> QED
    BY <2>1 DEF TermsFor, Row, Terms
<1>8. RollingCap'
  BY <1>1, <1>3, <1>7, CapWhenClaimed DEF IInv
<1> QED
  BY <1>4, <1>5, <1>6, <1>8, PrimedParts

(* The other requests still fit: slots are never given up altogether.      *)
LEMMA OthersFit ==
  ASSUME AllFit, UNCHANGED <<now, mandates>>, NEW p \in Requests, Fits(p)',
         \A q \in Requests \ {p} : request'[q] = request[q],
         \A q \in Requests : slot[request[q].key].status # "none"
                               => slot'[request[q].key].status # "none"
  PROVE  AllFit'
BY DEF AllFit, Fits, NotAfterRevocation, TermsFor

LEMMA IInvStep == IInv /\ [Next]_vars => IInv'
<1> SUFFICES ASSUME IInv, [Next]_vars PROVE IInv'
  OBVIOUS
<1>a. TypeOK /\ MandateTypeOK /\ AllFit /\ now \in Nat
  BY IInvParts DEF TypeOK, MandateTypeOK
<1>b. TypeOK'
  BY TypeStep DEF IInv
<1>c. \A p \in Requests : request[p] \in Request
  BY <1>a DEF TypeOK
<1>1. CASE MandateNext /\ UNCHANGED pvars
  BY <1>1, <1>a, <1>b, MandateStep, MandatesMove
<1>10. CASE Restart /\ DropRequests
  <2>1. AllFit'
    BY <1>10, <1>a, AllDropped, IdleFits DEF AllFit, Restart
  <2> QED
    BY <1>10, <1>b, <2>1, SlotsStay DEF Restart, DropRequests
<1>2. ASSUME NEW p \in Requests, Evaluate(p) PROVE IInv'
  <2>1. /\ request'[p].pc \in {"mandate", "deny"} /\ request'[p].at = now
        /\ request'[p].pc = "deny" => request'[p].rule \in Rules
        /\ \A q \in Requests \ {p} : request'[q] = request[q]
    BY <1>2, <1>a DEF Evaluate, TypeOK, Rules
  <2>2. UNCHANGED <<now, mandates, slot, revived>>
    BY <1>2 DEF Evaluate
  <2>3. Fits(p)'
    BY <2>1, <2>2, <1>a DEF Fits
  <2>4. AllFit'
    BY <1>a, <2>1, <2>2, <2>3, OthersFit
  <2> QED
    BY <1>b, <2>2, <2>4, SlotsStay
<1>3. ASSUME NEW p \in Requests, FindMandate(p) PROVE IInv'
  <2>1. UNCHANGED <<now, mandates, slot, revived>>
    BY <1>3 DEF FindMandate
  <2>2. CASE Denies(p, "NO_ACTIVE_MANDATE")
    <3>1. request'[p] = [request[p] EXCEPT !.pc = "deny", !.rule = "NO_ACTIVE_MANDATE"]
          /\ \A q \in Requests \ {p} : request'[q] = request[q]
      BY <2>2, <1>a DEF Denies, TypeOK
    <3>2. Fits(p)'
      BY <3>1, <2>1, <1>a, <1>c DEF AllFit, Fits, Rules, Request
    <3> QED
      BY <1>a, <1>b, <2>1, <3>1, <3>2, OthersFit, SlotsStay
  <2>3. ASSUME NEW i \in Active,
               request' = [request EXCEPT ![p].pc = "cooldown", ![p].mandate = i]
        PROVE  IInv'
    <3>1. request'[p] = [request[p] EXCEPT !.pc = "cooldown", !.mandate = i]
          /\ \A q \in Requests \ {p} : request'[q] = request[q]
      BY <2>3, <1>a DEF TypeOK
    <3>2. i \in DOMAIN mandates /\ ~mandates[i].revoked
      BY DEF Active, Live
    <3>3. /\ request'[p].pc = "cooldown" /\ request'[p].mandate = i
          /\ request'[p].at = request[p].at
      BY <3>1, <1>c DEF Request
    <3>4. Fits(p)'
      BY <3>2, <3>3, <2>1, <1>a DEF AllFit, Fits, NotAfterRevocation
    <3> QED
      BY <1>a, <1>b, <2>1, <3>1, <3>4, OthersFit, SlotsStay
  <2> QED
    BY <1>3, <2>2, <2>3 DEF FindMandate
<1>4. ASSUME NEW p \in Requests, CheckRules(p) PROVE IInv'
  <2>1. UNCHANGED <<now, mandates, slot, revived>> /\ request[p].pc = "cooldown"
    BY <1>4 DEF CheckRules
  <2>2. ASSUME NEW rule \in Rules, Denies(p, rule) PROVE IInv'
    <3>1. request'[p] = [request[p] EXCEPT !.pc = "deny", !.rule = rule]
          /\ \A q \in Requests \ {p} : request'[q] = request[q]
      BY <2>2, <1>a DEF Denies, TypeOK
    <3>2. Fits(p)'
      BY <3>1, <2>1, <1>a, <1>c DEF AllFit, Fits, Request
    <3> QED
      BY <1>a, <1>b, <2>1, <3>1, <3>2, OthersFit, SlotsStay
  <2>3. CASE /\ Goes(p, "claim")
             /\ ~(request[p].at >= TermsFor(p).expires)
             /\ ~(request[p].amount > TermsFor(p).cap)
    <3>1. request'[p] = [request[p] EXCEPT !.pc = "claim"]
          /\ \A q \in Requests \ {p} : request'[q] = request[q]
      BY <2>3, <1>a DEF Goes, TypeOK
    <3>2. /\ request'[p].pc = "claim" /\ request'[p].mandate = request[p].mandate
          /\ request'[p].at = request[p].at /\ request'[p].amount = request[p].amount
      BY <3>1, <1>c DEF Request
    <3>3. Fits(p)
      BY <1>a DEF AllFit
    <3>4. TermsFor(p)' = TermsFor(p) /\ TermsFor(p) \in Terms
      <4>1. request[p].mandate \in 1 .. Len(mandates)
        BY <2>1, <3>3 DEF Fits
      <4>2. mandates[request[p].mandate] \in Row
        BY <4>1, <1>a, ElementOfSeq DEF MandateTypeOK
      <4>3. TermsFor(p) \in Terms
        BY <4>2 DEF TermsFor, Row
      <4> QED
        BY <2>1, <3>2, <4>3 DEF TermsFor
    <3>5. /\ request[p].amount <= TermsFor(p).cap /\ request[p].at < TermsFor(p).expires
      <4>1. TermsFor(p).cap \in Nat /\ TermsFor(p).expires \in Nat
        BY <3>4, MandatesAssumption DEF Terms
      <4>2. request[p].amount \in Nat /\ request[p].at \in Nat
        BY <1>a, RowTypes
      <4> QED
        BY <2>3, <4>1, <4>2
    <3>6. Fits(p)'
      BY <2>1, <3>2, <3>3, <3>4, <3>5 DEF Fits, NotAfterRevocation
    <3> QED
      BY <1>a, <1>b, <2>1, <3>1, <3>6, OthersFit, SlotsStay
  <2> QED
    BY <1>4, <2>2, <2>3 DEF CheckRules, Rules
<1>5. ASSUME NEW p \in Requests, ClaimSlot(p) PROVE IInv'
  <2>1. UNCHANGED <<now, mandates, revived>> /\ request[p].pc = "claim"
        /\ request[p].key \in Keys
    BY <1>5, <1>c DEF ClaimSlot, Request
  <2>2. CASE Denies(p, "VELOCITY_EXCEEDED") /\ UNCHANGED slot
    <3>1. request'[p] = [request[p] EXCEPT !.pc = "deny", !.rule = "VELOCITY_EXCEEDED"]
          /\ \A q \in Requests \ {p} : request'[q] = request[q]
      BY <2>2, <1>a DEF Denies, TypeOK
    <3>2. Fits(p)'
      BY <3>1, <2>1, <2>2, <1>a, <1>c DEF AllFit, Fits, Rules, Request
    <3> QED
      BY <1>a, <1>b, <2>1, <2>2, <3>1, <3>2, OthersFit, SlotsStay
  <2>3. ASSUME Goes(p, "approved"), slot'[request[p].key].status # "none",
               \A k \in Keys : slot[k].status # "none" => slot'[k].status # "none"
        PROVE  AllFit'
    <3>1. request'[p] = [request[p] EXCEPT !.pc = "approved"]
          /\ \A q \in Requests \ {p} : request'[q] = request[q]
      BY <2>3, <1>a DEF Goes, TypeOK
    <3>2. request'[p].pc = "approved" /\ request'[p].key = request[p].key
          /\ request'[p].at = request[p].at
      BY <3>1, <1>c DEF Request
    <3>3. Fits(p)'
      BY <3>2, <2>1, <2>3, <1>a DEF AllFit, Fits
    <3>4. \A q \in Requests : request[q].key \in Keys
      BY <1>a, RowTypes
    <3> QED
      BY <1>a, <2>1, <2>3, <3>1, <3>3, <3>4, OthersFit
  <2>4. CASE slot[request[p].key].status # "none" /\ Goes(p, "approved") /\ UNCHANGED slot
    BY <1>b, <2>1, <2>3, <2>4, SlotsStay
  <2>5. CASE /\ slot[request[p].key].status = "none"
             /\ Used(request[p].at) < TermsFor(p).limit
             /\ slot' = [slot EXCEPT ![request[p].key] =
                           [status |-> SLOT_HELD, mandate |-> request[p].mandate,
                            amount |-> request[p].amount, at |-> request[p].at]]
             /\ Goes(p, "approved")
    <3>1. slot'[request[p].key].status = SLOT_HELD
          /\ \A k \in Keys \ {request[p].key} : slot'[k] = slot[k]
      BY <2>1, <2>5, <1>a DEF TypeOK
    <3>2. AllFit'
      BY <2>3, <2>5, <3>1 DEF SLOT_HELD
    <3> QED
      BY <1>b, <2>1, <2>5, <3>2, SlotClaimed
  <2> QED
    BY <1>5, <2>2, <2>4, <2>5 DEF ClaimSlot
<1>d. ASSUME NEW p \in Requests, Ends(p)
      PROVE  request'[p] = IdleRequest /\ \A q \in Requests \ {p} : request'[q] = request[q]
  BY <1>a, <1>d DEF Ends, TypeOK
<1>6. ASSUME NEW p \in Requests, RecordDenial(p) \/ RequestFails(p) PROVE IInv'
  <2>1. UNCHANGED <<now, mandates, slot, revived>> /\ Ends(p)
    BY <1>6 DEF RecordDenial, RequestFails
  <2>2. AllFit'
    BY <1>a, <1>d, <2>1, IdleFits, OthersFit
  <2> QED
    BY <1>b, <2>1, <2>2, SlotsStay
<1>e. ASSUME NEW k \in Keys, NEW status \in {SLOT_CONFIRMED, SLOT_RELEASED},
             SetSlotStatus(k, status), NEW q \in Requests, slot[request[q].key].status # "none"
      PROVE  slot'[request[q].key].status # "none"
  <2>1. request[q].key \in Keys /\ slot[request[q].key] \in Slot
    BY <1>a, <1>c DEF Request, TypeOK
  <2>2. CASE request[q].key = k
    BY <1>e, <2>1, <2>2, <1>a DEF SetSlotStatus, TypeOK, Slot, SLOT_CONFIRMED, SLOT_RELEASED
  <2>3. CASE request[q].key # k
    BY <1>e, <2>1, <2>3, <1>a DEF SetSlotStatus, TypeOK
  <2> QED
    BY <2>2, <2>3
<1>7. ASSUME NEW p \in Requests, ConfirmSlot(p) \/ ReleaseSlot(p) PROVE IInv'
  <2>1. PICK status \in {SLOT_CONFIRMED, SLOT_RELEASED} : SetSlotStatus(request[p].key, status)
    BY <1>7 DEF ConfirmSlot, ReleaseSlot
  <2>2. UNCHANGED <<now, mandates>> /\ Ends(p) /\ request[p].pc = "approved"
    BY <1>7 DEF ConfirmSlot, ReleaseSlot
  <2>3. request[p].key \in Keys /\ slot[request[p].key].status # "none"
    BY <1>a, <2>2, RowTypes DEF AllFit, Fits
  <2>4. AllFit'
    BY <1>a, <1>d, <1>e, <2>1, <2>2, <2>3, IdleFits, OthersFit
  <2> QED
    BY <1>b, <2>1, <2>2, <2>3, <2>4, StatusMoves
<1>8. ASSUME NEW k \in Keys, SettleSlot(k) PROVE IInv'
  <2>1. PICK status \in {SLOT_CONFIRMED, SLOT_RELEASED} : SetSlotStatus(k, status)
    BY <1>8 DEF SettleSlot
  <2>2. UNCHANGED <<now, mandates, request>> /\ slot[k].status # "none"
    BY <1>8 DEF SettleSlot, SLOT_HELD
  <2>3. AllFit'
    BY <1>a, <1>e, <2>1, <2>2 DEF AllFit, Fits, NotAfterRevocation, TermsFor
  <2> QED
    BY <1>b, <2>1, <2>2, <2>3, StatusMoves
<1>9. CASE UNCHANGED vars
  <2>1. AllFit' /\ UNCHANGED <<now, mandates, slot, revived>>
    BY <1>a, <1>9 DEF vars, AllFit, Fits, NotAfterRevocation, TermsFor
  <2> QED
    BY <1>b, <2>1, SlotsStay
<1> QED
  BY <1>1, <1>2, <1>3, <1>4, <1>5, <1>6, <1>7, <1>8, <1>9, <1>10 DEF Next, MandateNext

-----------------------------------------------------------------------------

LEMMA IInvHolds == Spec => []IInv
BY IInvInit, IInvStep, PTL DEF Spec

(* The state is well typed: a request never looks for terms of a mandate   *)
(* that does not exist.                                                    *)
THEOREM VelocityTypeCorrect == Spec => []TypeOK
BY IInvHolds, PTL DEF IInv

(* No interleaving of evaluations puts more purchases through a window     *)
(* than a limit allows, but for released slots charged after all           *)
(* (policy.py:9-13): for any number of threads and keys and any window.    *)
THEOREM CapHolds == Spec => []RollingCap
BY IInvHolds, PTL DEF IInv

(* Every slot was claimed within the mandate it names, whatever the        *)
(* merchant did meanwhile.                                                 *)
THEOREM MandateBinds == Spec => []BoundedByMandate
BY IInvHolds, PTL DEF IInv

-----------------------------------------------------------------------------
(* Grinding.                                                               *)

Grinds(rule) == rule \notin {"COOLDOWN_ACTIVE", "MALFORMED_REQUEST", "NO_ACTIVE_MANDATE"}

(* The denials for a rule in the window that starts at a.                  *)
Ground(a) ==
  {i \in DOMAIN denials : Grinds(denials[i].rule) /\ denials[i].at \in a .. a + CoolWindow}

(* Past the cool-down, and able to add such a denial.                      *)
PastCheck ==
  {p \in Requests : \/ request[p].pc = "claim"
                    \/ request[p].pc = "deny" /\ Grinds(request[p].rule)}

(* While a window is open, the requests past the check count already.      *)
GrindInv ==
  CoolAfter > 0 => \A a \in Nat :
    /\ Cardinality(Ground(a)) < CoolAfter + Cardinality(Requests)
    /\ a + CoolWindow >= now =>
         Cardinality(Ground(a)) + Cardinality(PastCheck) < CoolAfter + Cardinality(Requests)

(* These sets are finite, and the requests past the check are requests.    *)
LEMMA GroundIsFinite ==
  ASSUME TypeOK, NEW a
  PROVE  /\ IsFiniteSet(Ground(a)) /\ Cardinality(Ground(a)) \in Nat
         /\ IsFiniteSet(PastCheck) /\ Cardinality(PastCheck) \in Nat
         /\ Cardinality(Requests) \in Nat /\ Cardinality(PastCheck) <= Cardinality(Requests)
<1>1. IsFiniteSet(DOMAIN denials)
  <2>1. DOMAIN denials = 1 .. Len(denials) /\ Len(denials) \in Nat
    BY LenProperties DEF TypeOK
  <2> QED BY <2>1, FS_Interval
<1>2. Ground(a) \in SUBSET DOMAIN denials /\ PastCheck \in SUBSET Requests
  BY DEF Ground, PastCheck
<1>3. IsFiniteSet(Ground(a)) /\ IsFiniteSet(PastCheck)
      /\ Cardinality(PastCheck) <= Cardinality(Requests)
  BY <1>1, <1>2, VelocityAssumption, FS_Subset
<1> QED BY <1>3, VelocityAssumption, FS_CardinalityType

(* Nothing is denied and nobody passes the check; time may.                *)
LEMMA GrindStays ==
  ASSUME TypeOK, TypeOK', GrindInv, now <= now', UNCHANGED denials, PastCheck' \subseteq PastCheck
  PROVE  GrindInv'
<1> SUFFICES ASSUME CoolAfter > 0, NEW a \in Nat
             PROVE  /\ Cardinality(Ground(a)') < CoolAfter + Cardinality(Requests)
                    /\ a + CoolWindow >= now' =>
                         Cardinality(Ground(a)') + Cardinality(PastCheck')
                           < CoolAfter + Cardinality(Requests)
  BY DEF GrindInv
<1>1. Ground(a)' = Ground(a)
  BY DEF Ground
<1>2. Cardinality(PastCheck') <= Cardinality(PastCheck) /\ Cardinality(PastCheck') \in Nat
  BY GroundIsFinite, FS_Subset, FS_CardinalityType
<1>3. now \in Nat /\ now' \in Nat /\ a + CoolWindow \in Nat
  BY VelocityAssumption DEF TypeOK, MandateTypeOK
<1>4. /\ Cardinality(Ground(a)) < CoolAfter + Cardinality(Requests)
      /\ a + CoolWindow >= now =>
           Cardinality(Ground(a)) + Cardinality(PastCheck) < CoolAfter + Cardinality(Requests)
  BY DEF GrindInv
<1>5. a + CoolWindow >= now' => a + CoolWindow >= now
  BY <1>3
<1> QED BY <1>1, <1>2, <1>4, <1>5, GroundIsFinite, VelocityAssumption

(* The check lets a request past only while every open window has room.    *)
LEMMA GrindChecked ==
  ASSUME TypeOK, TypeOK', GrindInv, UNCHANGED <<now, denials>>,
         CoolAfter > 0 => Cardinality(Counted(now)) < CoolAfter
  PROVE  GrindInv'
<1> SUFFICES ASSUME CoolAfter > 0, NEW a \in Nat
             PROVE  /\ Cardinality(Ground(a)') < CoolAfter + Cardinality(Requests)
                    /\ a + CoolWindow >= now =>
                         Cardinality(Ground(a)') + Cardinality(PastCheck')
                           < CoolAfter + Cardinality(Requests)
  BY DEF GrindInv
<1>1. Ground(a)' = Ground(a)
  BY DEF Ground
<1>2. Cardinality(Ground(a)) < CoolAfter + Cardinality(Requests)
  BY DEF GrindInv
<1>3. ASSUME a + CoolWindow >= now PROVE Cardinality(Ground(a)) < CoolAfter
  <2>1. Ground(a) \subseteq Counted(now)
    <3> SUFFICES ASSUME NEW i \in Ground(a) PROVE denials[i].at + CoolWindow >= now
      BY DEF Ground, Counted, Grinds
    <3>1. denials[i].at \in Nat /\ denials[i].at >= a /\ now \in Nat
      BY VelocityAssumption DEF Ground, TypeOK, Denial, MandateTypeOK
    <3> QED BY <1>3, <3>1, VelocityAssumption
  <2>2. IsFiniteSet(Counted(now))
    <3>1. IsFiniteSet(DOMAIN denials)
      <4>1. DOMAIN denials = 1 .. Len(denials) /\ Len(denials) \in Nat
        BY LenProperties DEF TypeOK
      <4> QED BY <4>1, FS_Interval
    <3> QED BY <3>1, FS_Subset DEF Counted
  <2>3. Cardinality(Ground(a)) <= Cardinality(Counted(now)) /\ Cardinality(Counted(now)) \in Nat
    BY <2>1, <2>2, FS_Subset, FS_CardinalityType
  <2> QED BY <2>3, GroundIsFinite, VelocityAssumption
<1>4. Cardinality(PastCheck') <= Cardinality(Requests) /\ Cardinality(PastCheck') \in Nat
  <2>1. PastCheck' \in SUBSET Requests
    BY DEF PastCheck
  <2> QED BY <2>1, VelocityAssumption, FS_Subset, FS_CardinalityType
<1> QED BY <1>1, <1>2, <1>3, <1>4, GroundIsFinite, VelocityAssumption

(* A denial recorded was counted as its request's before.                  *)
LEMMA GrindRecorded ==
  ASSUME TypeOK, TypeOK', GrindInv, NEW p \in Requests, RecordDenial(p)
  PROVE  GrindInv'
<1> DEFINE n == Len(denials) + 1
           row == [rule |-> request[p].rule, at |-> now]
<1>1. /\ denials \in Seq(Denial) /\ Len(denials) \in Nat /\ now \in Nat
      /\ denials' = Append(denials, row) /\ now' = now
      /\ request' = [request EXCEPT ![p] = IdleRequest]
      /\ request[p].pc = "deny"
  BY LenProperties DEF RecordDenial, Ends, TypeOK, MandateTypeOK
<1>2. /\ DOMAIN denials = 1 .. Len(denials) /\ DOMAIN denials' = 1 .. n
      /\ \A i \in 1 .. Len(denials) : denials'[i] = denials[i]
      /\ denials'[n] = row
  BY <1>1
<1>3. PastCheck' = PastCheck \ {p}
  BY <1>1 DEF PastCheck, IdleRequest, TypeOK
<1>4. row.rule = request[p].rule /\ row.at = now
  OBVIOUS
<1> HIDE DEF row
<1> SUFFICES ASSUME CoolAfter > 0, NEW a \in Nat
             PROVE  /\ Cardinality(Ground(a)') < CoolAfter + Cardinality(Requests)
                    /\ a + CoolWindow >= now =>
                         Cardinality(Ground(a)') + Cardinality(PastCheck')
                           < CoolAfter + Cardinality(Requests)
  BY <1>1 DEF GrindInv
<1>5. /\ Cardinality(Ground(a)) < CoolAfter + Cardinality(Requests)
      /\ a + CoolWindow >= now =>
           Cardinality(Ground(a)) + Cardinality(PastCheck) < CoolAfter + Cardinality(Requests)
  BY DEF GrindInv
<1>6. CASE Grinds(request[p].rule) /\ a + CoolWindow >= now
  <2>1. Ground(a)' \subseteq Ground(a) \cup {n}
    BY <1>2 DEF Ground
  <2>2. IsFiniteSet(Ground(a) \cup {n}) /\ Cardinality(Ground(a) \cup {n}) <= Cardinality(Ground(a)) + 1
    BY AtMostOneMore, GroundIsFinite
  <2>3. Cardinality(Ground(a)') <= Cardinality(Ground(a) \cup {n})
        /\ Cardinality(Ground(a)') \in Nat /\ Cardinality(Ground(a) \cup {n}) \in Nat
    BY <2>1, <2>2, FS_Subset, FS_CardinalityType
  <2>4. p \in PastCheck
    BY <1>1, <1>6 DEF PastCheck
  <2>5. Cardinality(PastCheck') = Cardinality(PastCheck) - 1
        /\ Cardinality(PastCheck') \in Nat
    <3>1. Cardinality(PastCheck \ {p}) = Cardinality(PastCheck) - 1
          /\ IsFiniteSet(PastCheck \ {p})
      BY <2>4, GroundIsFinite, FS_RemoveElement
    <3> QED BY <1>3, <3>1, FS_CardinalityType
  <2> QED BY <1>5, <1>6, <2>2, <2>3, <2>5, GroundIsFinite, VelocityAssumption
<1>7. CASE ~(Grinds(request[p].rule) /\ a + CoolWindow >= now)
  <2>1. n \notin Ground(a)'
    <3>1. ~Grinds(row.rule) \/ row.at \notin a .. a + CoolWindow
      BY <1>1, <1>4, <1>7, VelocityAssumption
    <3> QED BY <1>2, <3>1 DEF Ground
  <2>2. Ground(a)' = Ground(a)
    BY <1>2, <2>1 DEF Ground
  <2>3. Cardinality(PastCheck') <= Cardinality(PastCheck) /\ Cardinality(PastCheck') \in Nat
    <3>1. PastCheck' \in SUBSET PastCheck
      BY <1>3
    <3> QED BY <3>1, GroundIsFinite, FS_Subset, FS_CardinalityType
  <2> QED BY <1>5, <2>2, <2>3, GroundIsFinite, VelocityAssumption
<1> QED BY <1>6, <1>7

(* A request that changes alone and is not past the check afterwards, or   *)
(* was before.                                                             *)
LEMMA NobodyPasses ==
  ASSUME TypeOK, NEW p \in Requests,
         \A q \in Requests : q # p => request'[q] = request[q],
         \/ p \in PastCheck
         \/ request'[p].pc # "claim" /\ (request'[p].pc = "deny" => ~Grinds(request'[p].rule))
  PROVE  PastCheck' \subseteq PastCheck
BY DEF PastCheck

(* Nothing is denied at the start.                                         *)
LEMMA GrindInit == Init => GrindInv
<1> SUFFICES ASSUME Init PROVE GrindInv
  OBVIOUS
<1>1. TypeOK
  BY TypeInit
<1>2. \A p \in Requests : request[p].pc = "idle" /\ request[p].rule = "none"
  BY DEF Init, IdleRequest
<1>3. PastCheck = {}
  BY <1>2 DEF PastCheck
<1>4. ASSUME NEW a PROVE Ground(a) = {}
  <2>1. DOMAIN denials = {}
    BY DEF Init
  <2> QED BY <2>1 DEF Ground
<1>5. Cardinality({}) = 0
  BY FS_EmptySet
<1>6. Cardinality(Requests) \in Nat
  BY VelocityAssumption, FS_CardinalityType
<1> QED BY <1>2, <1>3, <1>4, <1>5, <1>6, VelocityAssumption DEF GrindInv

(* No step lets too many denials into a window, action by action.          *)
LEMMA GrindStep == TypeOK /\ TypeOK' /\ GrindInv /\ [Next]_vars => GrindInv'
<1> SUFFICES ASSUME TypeOK, TypeOK', GrindInv, [Next]_vars PROVE GrindInv'
  OBVIOUS
<1>0. now \in Nat /\ now' \in Nat
  BY DEF TypeOK, MandateTypeOK
<1>1. ASSUME NEW p \in Requests,
             Evaluate(p) \/ FindMandate(p) \/ ClaimSlot(p) \/ RequestFails(p)
               \/ ConfirmSlot(p) \/ ReleaseSlot(p)
      PROVE  GrindInv'
  <2>1. UNCHANGED <<now, denials>>
    BY <1>1 DEF Evaluate, FindMandate, ClaimSlot, RequestFails, ConfirmSlot, ReleaseSlot
  <2>2. \A q \in Requests : q # p => request'[q] = request[q]
    BY <1>1 DEF Evaluate, FindMandate, ClaimSlot, RequestFails, ConfirmSlot, ReleaseSlot,
                Ends, Goes, Denies, TypeOK
  <2>3. PastCheck' \subseteq PastCheck
    <3>1. CASE Evaluate(p)
      <4>1. request'[p].pc # "claim" /\ (request'[p].pc = "deny" => ~Grinds(request'[p].rule))
        BY <3>1 DEF Evaluate, Grinds, TypeOK
      <4> QED BY <2>2, <4>1, NobodyPasses
    <3>2. CASE FindMandate(p)
      <4>1. CASE Denies(p, "NO_ACTIVE_MANDATE")
        <5>1. request'[p].pc = "deny" /\ ~Grinds(request'[p].rule)
          BY <4>1 DEF Denies, Grinds, TypeOK
        <5> QED BY <2>2, <5>1, NobodyPasses
      <4>2. ASSUME NEW i, request' = [request EXCEPT ![p].pc = "cooldown", ![p].mandate = i]
            PROVE  PastCheck' \subseteq PastCheck
        <5>1. request'[p].pc = "cooldown"
          BY <4>2 DEF TypeOK, Request
        <5> QED BY <2>2, <5>1, NobodyPasses
      <4> QED BY <3>2, <4>1, <4>2 DEF FindMandate
    <3>3. CASE ClaimSlot(p)
      <4>1. p \in PastCheck
        BY <3>3 DEF ClaimSlot, PastCheck
      <4> QED BY <2>2, <4>1, NobodyPasses
    <3>4. CASE RequestFails(p) \/ ConfirmSlot(p) \/ ReleaseSlot(p)
      <4>1. request'[p].pc = "idle"
        BY <3>4 DEF RequestFails, ConfirmSlot, ReleaseSlot, Ends, IdleRequest, TypeOK
      <4> QED BY <2>2, <4>1, NobodyPasses
    <3> QED BY <1>1, <3>1, <3>2, <3>3, <3>4
  <2> QED BY <1>0, <2>1, <2>3, GrindStays
<1>2. ASSUME NEW p \in Requests, CheckRules(p) PROVE GrindInv'
  <2>1. UNCHANGED <<now, denials>>
    BY <1>2 DEF CheckRules
  <2>2. CASE Denies(p, "COOLDOWN_ACTIVE")
    <3>1. \A q \in Requests : q # p => request'[q] = request[q]
      BY <2>2 DEF Denies, TypeOK
    <3>2. request'[p].pc = "deny" /\ ~Grinds(request'[p].rule)
      BY <2>2 DEF Denies, TypeOK, Grinds
    <3> QED BY <1>0, <2>1, <3>1, <3>2, NobodyPasses, GrindStays
  <2>3. CASE ~(CoolAfter > 0 /\ Cardinality(Counted(now)) >= CoolAfter)
    <3>1. Cardinality(Counted(now)) \in Nat
      <4>1. DOMAIN denials = 1 .. Len(denials) /\ Len(denials) \in Nat
        BY LenProperties DEF TypeOK
      <4>2. IsFiniteSet(1 .. Len(denials)) /\ Counted(now) \in SUBSET (1 .. Len(denials))
        BY <4>1, FS_Interval DEF Counted
      <4>3. IsFiniteSet(Counted(now))
        BY <4>2, FS_Subset
      <4> QED BY <4>3, FS_CardinalityType
    <3>2. CoolAfter > 0 => Cardinality(Counted(now)) < CoolAfter
      BY <2>3, <3>1, VelocityAssumption
    <3> QED BY <2>1, <3>2, GrindChecked
  <2> QED BY <1>2, <2>2, <2>3 DEF CheckRules
<1>3. ASSUME NEW p \in Requests, RecordDenial(p) PROVE GrindInv'
  BY <1>3, GrindRecorded
<1>4. ASSUME UNCHANGED pvars, now <= now' PROVE GrindInv'
  <2>1. PastCheck' \subseteq PastCheck /\ UNCHANGED denials
    BY <1>4 DEF PastCheck, pvars
  <2> QED BY <1>4, <2>1, GrindStays
<1>5. CASE MandateNext /\ UNCHANGED pvars
  <2>1. now <= now'
    BY <1>0, <1>5, MandateStep DEF MandatesGrow, TypeOK
  <2> QED BY <1>4, <1>5, <2>1
<1>6. ASSUME NEW k \in Keys, SettleSlot(k) PROVE GrindInv'
  <2>1. PastCheck' \subseteq PastCheck /\ UNCHANGED <<denials, now>>
    BY <1>6 DEF PastCheck, SettleSlot
  <2> QED BY <1>0, <2>1, GrindStays
<1>7. CASE UNCHANGED vars
  BY <1>0, <1>4, <1>7 DEF vars, pvars
<1>8. CASE Restart /\ DropRequests
  <2>1. PastCheck' \subseteq PastCheck
    BY <1>8, AllDropped DEF PastCheck, IdleRequest
  <2> QED BY <1>0, <1>8, <2>1, GrindStays DEF Restart, DropRequests
<1> QED BY <1>1, <1>2, <1>3, <1>5, <1>6, <1>7, <1>8 DEF Next, MandateNext

(* Checking and denying in two transactions lets at most one denial more   *)
(* through per concurrent request: in no window are there more than the    *)
(* threshold and the threads allow (_check_cooldown, policy.py).           *)
THEOREM GrindingStaysBounded == Spec => []GrindingIsBounded
<1>1. TypeOK /\ GrindInv => GrindingIsBounded
  <2> SUFFICES ASSUME TypeOK, GrindInv, CoolAfter > 0, NEW i \in DOMAIN denials
               PROVE  LET ground == {j \in DOMAIN denials :
                            /\ denials[j].rule \notin {"COOLDOWN_ACTIVE", "MALFORMED_REQUEST",
                                                       "NO_ACTIVE_MANDATE"}
                            /\ denials[j].at \in denials[i].at .. denials[i].at + CoolWindow}
                      IN Cardinality(ground) < CoolAfter + Cardinality(Requests)
    BY DEF GrindingIsBounded
  <2>1. denials[i].at \in Nat
    <3>1. denials[i] \in Denial
      BY ElementOfSeq, LenProperties DEF TypeOK
    <3> QED BY <3>1 DEF Denial
  <2>2. Cardinality(Ground(denials[i].at)) < CoolAfter + Cardinality(Requests)
    BY <2>1 DEF GrindInv
  <2> QED BY <2>2 DEF Ground, Grinds
<1>2. TypeOK /\ TypeOK' /\ GrindInv /\ [Next]_vars => GrindInv'
  BY GrindStep
<1> QED BY GrindInit, <1>1, <1>2, VelocityTypeCorrect, PTL DEF Spec

-----------------------------------------------------------------------------
(* The agent's authority.                                                  *)

(* A start-up runs alone, and replaces a mandate that is live.             *)
StartsAlone ==
  /\ server.pc # "up" => \A a \in Admins : admin[a].pc = "idle"
  /\ server.pc = "revoke" => server.current \in Live

(* Mandates that are live and mandates about to be issued, by routes or by *)
(* start-up.                                                               *)
Starting == IF server.pc = "issue" THEN 1 ELSE 0
Authority == Cardinality(Live) + Cardinality(Issuing) + Starting

MInv == MandateTypeOK /\ StartsAlone /\ Authority <= 1 + late

LEMMA LiveTypes ==
  ASSUME MandateTypeOK
  PROVE  /\ IsFiniteSet(Live) /\ Cardinality(Live) \in Nat
         /\ IsFiniteSet(Issuing) /\ Cardinality(Issuing) \in Nat
         /\ late \in Nat /\ Starting \in Nat
<1>0. Len(mandates) \in Nat /\ DOMAIN mandates = 1 .. Len(mandates)
  BY LenProperties DEF MandateTypeOK
<1>1. IsFiniteSet(1 .. Len(mandates)) /\ Live \in SUBSET (1 .. Len(mandates))
  BY <1>0, FS_Interval DEF Live
<1>2. IsFiniteSet(Live) /\ IsFiniteSet(Issuing)
  BY <1>1, FS_Subset, MandatesAssumption DEF Issuing
<1> QED BY <1>2, FS_CardinalityType DEF MandateTypeOK, Starting

(* A row issued is live.                                                   *)
LEMMA IssueLives ==
  ASSUME MandateTypeOK, NEW row \in Row, ~row.revoked, mandates' = Append(mandates, row)
  PROVE  Live' \subseteq Live \cup {Len(mandates) + 1}
<1>1. mandates \in Seq(Row) /\ Len(mandates) \in Nat
      /\ DOMAIN mandates = 1 .. Len(mandates)
  BY LenProperties DEF MandateTypeOK
<1>2. DOMAIN mandates' = 1 .. Len(mandates) + 1
      /\ \A i \in 1 .. Len(mandates) : mandates'[i] = mandates[i]
  BY <1>1, AppendProperties
<1> QED BY <1>1, <1>2 DEF Live

(* A row revoked is not.                                                   *)
LEMMA RevokeEnds ==
  ASSUME MandateTypeOK, NEW i, Revoke(i)
  PROVE  Live' = Live \ {i}
<1>1. DOMAIN mandates' = DOMAIN mandates
      /\ \A j \in DOMAIN mandates : j # i => mandates'[j] = mandates[j]
  BY DEF Revoke
<1>2. i \in DOMAIN mandates => mandates'[i].revoked
  <2>1. \A j \in DOMAIN mandates : mandates[j] \in Row
    BY DEF MandateTypeOK
  <2> QED BY <2>1 DEF Revoke, Row
<1> QED BY <1>1, <1>2 DEF Live

LEMMA OneMoreLives ==
  ASSUME MandateTypeOK, MandateTypeOK', NEW row \in Row, ~row.revoked,
         mandates' = Append(mandates, row)
  PROVE  Cardinality(Live') <= Cardinality(Live) + 1
<1>1. Live' \in SUBSET (Live \cup {Len(mandates) + 1})
  BY IssueLives
<1>2. IsFiniteSet(Live \cup {Len(mandates) + 1})
      /\ Cardinality(Live \cup {Len(mandates) + 1}) <= Cardinality(Live) + 1
  BY LiveTypes, AtMostOneMore
<1>3. Cardinality(Live \cup {Len(mandates) + 1}) \in Nat /\ Cardinality(Live') \in Nat
      /\ Cardinality(Live') <= Cardinality(Live \cup {Len(mandates) + 1})
  BY <1>1, <1>2, FS_Subset, FS_CardinalityType
<1>4. Cardinality(Live) \in Nat
  BY LiveTypes
<1> QED BY <1>2, <1>3, <1>4

LEMMA OneLessLives ==
  ASSUME MandateTypeOK, NEW i, Revoke(i)
  PROVE  /\ Cardinality(Live') <= Cardinality(Live)
         /\ i \in Live => Cardinality(Live') = Cardinality(Live) - 1
         /\ Cardinality(Live') \in Nat
<1>1. Live' = Live \ {i} /\ IsFiniteSet(Live) /\ Cardinality(Live) \in Nat
  BY RevokeEnds, LiveTypes
<1> DEFINE old == Cardinality(Live)
           new == Cardinality(Live \ {i})
<1>2. i \in Live => new = old - 1
  BY <1>1, FS_RemoveElement
<1>3. i \notin Live => new = old
  <2>1. i \notin Live => Live \ {i} = Live
    OBVIOUS
  <2> QED BY <2>1
<1>4. new \in Nat
  <2>1. IsFiniteSet(Live \ {i})
    BY <1>1, FS_Subset
  <2> QED BY <2>1, FS_CardinalityType
<1>5. Cardinality(Live') = new /\ old \in Nat
  BY <1>1
<1> HIDE DEF old, new
<1>6. new <= old
  BY <1>2, <1>3, <1>4, <1>5
<1>7. Cardinality(Live') <= old /\ (i \in Live => Cardinality(Live') = old - 1)
      /\ Cardinality(Live') \in Nat
  BY <1>2, <1>4, <1>5, <1>6
<1> QED BY <1>7 DEF old

(* A route that goes on to issue, and one that ends.                       *)
LEMMA RouteCounts ==
  ASSUME MandateTypeOK, MandateTypeOK', NEW a \in Admins, NEW s \in AdminState,
         admin' = [admin EXCEPT ![a] = s]
  PROVE  /\ Cardinality(Issuing') <= Cardinality(Issuing) + 1
         /\ s.pc # "issue" => Cardinality(Issuing') <= Cardinality(Issuing)
         /\ s.pc # "issue" /\ admin[a].pc = "issue"
              => Cardinality(Issuing') = Cardinality(Issuing) - 1
<1>1. admin'[a] = s /\ \A b \in Admins : b # a => admin'[b] = admin[b]
  BY DEF MandateTypeOK
<1>2. IsFiniteSet(Issuing) /\ Cardinality(Issuing) \in Nat
      /\ IsFiniteSet(Issuing') /\ Cardinality(Issuing') \in Nat
  <2>1. IsFiniteSet(Issuing)
    BY LiveTypes
  <2>2. IsFiniteSet(Issuing')
    BY FS_Subset, MandatesAssumption DEF Issuing
  <2> QED BY <2>1, <2>2, FS_CardinalityType
<1>3. Issuing' \subseteq Issuing \cup {a}
  BY <1>1 DEF Issuing
<1>4. Cardinality(Issuing') <= Cardinality(Issuing) + 1
  <2>1. IsFiniteSet(Issuing \cup {a}) /\ Cardinality(Issuing \cup {a}) <= Cardinality(Issuing) + 1
    BY <1>2, AtMostOneMore
  <2>2. Cardinality(Issuing \cup {a}) \in Nat
    BY <2>1, FS_CardinalityType
  <2>3. Cardinality(Issuing') <= Cardinality(Issuing \cup {a})
    BY <1>3, <2>1, FS_Subset
  <2> QED BY <1>2, <2>1, <2>2, <2>3
<1>5. CASE s.pc # "issue"
  <2>1. Issuing' = Issuing \ {a}
    BY <1>1, <1>5 DEF Issuing
  <2> DEFINE old == Cardinality(Issuing)
             new == Cardinality(Issuing')
  <2>2. a \in Issuing => new = old - 1
    BY <1>2, <2>1, FS_RemoveElement
  <2>3. a \notin Issuing => new = old
    <3>1. a \notin Issuing => Issuing \ {a} = Issuing
      OBVIOUS
    <3> QED BY <2>1, <3>1
  <2>4. admin[a].pc = "issue" => a \in Issuing
    BY DEF Issuing
  <2>5. old \in Nat /\ new \in Nat
    BY <1>2
  <2> HIDE DEF old, new
  <2>6. new <= old /\ (admin[a].pc = "issue" => new = old - 1)
    BY <2>2, <2>3, <2>4, <2>5
  <2> QED BY <1>4, <2>6 DEF old, new
<1> QED BY <1>4, <1>5

LEMMA AdminIdle == ASSUME MandateTypeOK PROVE IdleAdmin \in AdminState /\ IdleAdmin.pc = "idle"
BY FirstTermsTypes DEF MandateTypeOK, IdleAdmin

(* What a step adds to one side of the account it takes from another, but  *)
(* for an edit that came too late.                                         *)
LEMMA MandateAccount ==
  ASSUME MInv, MandateTypeOK', [MandateNext]_mvars
  PROVE  MInv'
<1>0. /\ Cardinality(Live) \in Nat /\ Cardinality(Issuing) \in Nat /\ late \in Nat
      /\ Cardinality(Live)' \in Nat /\ Cardinality(Issuing)' \in Nat /\ late' \in Nat
      /\ Starting \in {0, 1} /\ Starting' \in {0, 1}
      /\ MandateTypeOK /\ StartsAlone /\ admin \in [Admins -> AdminState]
      /\ Cardinality(Live) + Cardinality(Issuing) + Starting <= 1 + late
  <2>1. IsFiniteSet(Live') /\ IsFiniteSet(Issuing')
    <3>1. Len(mandates') \in Nat /\ DOMAIN mandates' = 1 .. Len(mandates')
      BY LenProperties DEF MandateTypeOK
    <3>2. IsFiniteSet(1 .. Len(mandates')) /\ Live' \in SUBSET (1 .. Len(mandates'))
      BY <3>1, FS_Interval DEF Live
    <3> QED BY <3>2, FS_Subset, MandatesAssumption DEF Issuing
  <2>2. Cardinality(Live') \in Nat /\ Cardinality(Issuing') \in Nat
    BY <2>1, FS_CardinalityType
  <2> QED BY <2>2, LiveTypes DEF MInv, Authority, MandateTypeOK, Starting
<1> DEFINE live == Cardinality(Live)
           issuing == Cardinality(Issuing)
<1>1. ASSUME live' + issuing' + Starting' <= 1 + late', StartsAlone' PROVE MInv'
  BY <1>1 DEF MInv, Authority
<1>2. ASSUME UNCHANGED mandates PROVE live' = live /\ Live' = Live
  BY <1>2 DEF Live
<1>3. ASSUME UNCHANGED server PROVE Starting' = Starting
  BY <1>3 DEF Starting
<1>4. ASSUME NEW a \in Admins, server.pc = "up", UNCHANGED server,
             live' + issuing' <= live + issuing + (late' - late)
      PROVE  MInv'
  <2>1. StartsAlone' /\ Starting' = Starting
    BY <1>4, <1>3 DEF StartsAlone
  <2> QED BY <1>0, <1>1, <1>4, <2>1
<1>5. \A a \in Admins : admin[a].pc # "idle" => server.pc = "up"
  BY <1>0 DEF StartsAlone
<1> HIDE DEF live, issuing
<1>6. ASSUME NEW a \in Admins, ReadForEdit(a) \/ ReadForRevoke(a) PROVE MInv'
  <2>1. admin'[a].pc # "issue" /\ \A b \in Admins : b # a => admin'[b] = admin[b]
    <3>1. ASSUME NEW s, admin' = [admin EXCEPT ![a] = s], s.pc # "issue"
          PROVE  admin'[a].pc # "issue" /\ \A b \in Admins : b # a => admin'[b] = admin[b]
      BY <1>0, <3>1
    <3>2. CASE ReadForEdit(a)
      <4>1. PICK i \in Active : \E terms \in EditsOf(mandates[i].terms) :
              admin' = [admin EXCEPT ![a] = [pc |-> "edit", current |-> i, terms |-> terms]]
        BY <3>2 DEF ReadForEdit
      <4>2. PICK terms \in EditsOf(mandates[i].terms) :
              admin' = [admin EXCEPT ![a] = [pc |-> "edit", current |-> i, terms |-> terms]]
        BY <4>1
      <4>3. [pc |-> "edit", current |-> i, terms |-> terms].pc # "issue"
        OBVIOUS
      <4> QED BY <3>1, <4>2, <4>3
    <3>3. CASE ReadForRevoke(a)
      <4>1. PICK i \in Active :
              admin' = [admin EXCEPT ![a] = [IdleAdmin EXCEPT !.pc = "revoke", !.current = i]]
        BY <3>3 DEF ReadForRevoke
      <4>2. [IdleAdmin EXCEPT !.pc = "revoke", !.current = i].pc # "issue"
        BY DEF IdleAdmin
      <4> QED BY <3>1, <4>1, <4>2
    <3> QED BY <1>6, <3>2, <3>3
  <2>2. admin[a].pc = "idle" /\ UNCHANGED <<mandates, server, late>> /\ server.pc = "up"
    BY <1>6 DEF ReadForEdit, ReadForRevoke
  <2>3. Issuing' = Issuing
    BY <2>1, <2>2 DEF Issuing
  <2>4. issuing' = issuing /\ live' = live
    BY <1>2, <2>2, <2>3 DEF issuing
  <2> QED BY <1>0, <1>4, <2>2, <2>4 DEF live, issuing
<1>7. ASSUME NEW a \in Admins, EditRevokes(a) PROVE MInv'
  <2> DEFINE i == admin[a].current
             s == [admin[a] EXCEPT !.pc = "issue"]
  <2>1. s \in AdminState /\ admin' = [admin EXCEPT ![a] = s] /\ Revoke(i)
        /\ server.pc = "up" /\ UNCHANGED server
    BY <1>0, <1>5, <1>7 DEF EditRevokes, AdminState
  <2>2. issuing' <= issuing + 1
    BY <1>0, <2>1, RouteCounts DEF issuing
  <2>3. live' <= live /\ (i \in Live => live' = live - 1)
    BY <1>0, <2>1, OneLessLives DEF live
  <2>4. late' = IF i \in Live THEN late ELSE late + 1
    BY <1>7 DEF EditRevokes
  <2> HIDE DEF i
  <2>5. live' + issuing' <= live + issuing + (late' - late)
    BY <1>0, <2>2, <2>3, <2>4 DEF live, issuing
  <2> QED BY <1>4, <2>1, <2>5
<1>8. ASSUME NEW a \in Admins, EditIssues(a) PROVE MInv'
  <2>1. NewRow(admin[a].terms) \in Row /\ ~NewRow(admin[a].terms).revoked
    BY <1>0 DEF NewRow, Row, AdminState, MandateTypeOK
  <2>2. live' <= live + 1
    BY <1>0, <1>8, <2>1, OneMoreLives DEF EditIssues, live
  <2>3. admin[a].pc = "issue" /\ admin' = [admin EXCEPT ![a] = IdleAdmin]
        /\ UNCHANGED <<server, late>> /\ server.pc = "up"
    BY <1>5, <1>8 DEF EditIssues
  <2>4. issuing' = issuing - 1
    BY <1>0, <2>3, AdminIdle, RouteCounts DEF issuing
  <2>5. live' + issuing' <= live + issuing + (late' - late)
    BY <1>0, <2>2, <2>3, <2>4 DEF live, issuing
  <2> QED BY <1>4, <2>3, <2>5
<1>9. ASSUME NEW a \in Admins, RevokeRoute(a) \/ RouteFails(a) PROVE MInv'
  <2>1. admin' = [admin EXCEPT ![a] = IdleAdmin] /\ UNCHANGED <<server, late>>
        /\ server.pc = "up"
    BY <1>5, <1>9 DEF RevokeRoute, RouteFails
  <2>2. issuing' <= issuing
    BY <1>0, <2>1, AdminIdle, RouteCounts DEF issuing
  <2>3. live' <= live
    <3>1. CASE RevokeRoute(a)
      BY <1>0, <3>1, OneLessLives DEF RevokeRoute, live
    <3>2. CASE RouteFails(a)
      BY <1>0, <1>2, <3>2 DEF RouteFails, live
    <3> QED BY <1>9, <3>1, <3>2
  <2>4. live' + issuing' <= live + issuing + (late' - late)
    BY <1>0, <2>1, <2>2, <2>3 DEF live, issuing
  <2> QED BY <1>4, <2>1, <2>4
<1>10. ASSUME UNCHANGED late, \A a \in Admins : admin'[a].pc = "idle",
              live' + Starting' <= 1 + late,
              server'.pc = "revoke" => server'.current \in Live'
       PROVE  MInv'
  <2>1. Issuing' = {}
    BY <1>10 DEF Issuing
  <2>2. issuing' = 0
    BY <2>1, FS_EmptySet DEF issuing
  <2>3. StartsAlone'
    BY <1>10 DEF StartsAlone
  <2>4. live' + issuing' + Starting' <= 1 + late'
    BY <1>0, <1>10, <2>2 DEF live
  <2> QED BY <1>1, <2>3, <2>4
<1>11. CASE Restart
  <2>1. Starting' = 0 /\ server'.pc = "starting" /\ UNCHANGED late
    BY <1>11 DEF Restart, Starting
  <2>2. \A a \in Admins : admin'[a].pc = "idle"
    BY <1>11 DEF Restart, IdleAdmin
  <2>3. live' = live
    BY <1>2, <1>11 DEF Restart
  <2>4. live' + Starting' <= 1 + late
    BY <1>0, <2>1, <2>3 DEF live
  <2> QED BY <1>10, <2>1, <2>2, <2>4
<1>12. ASSUME server.pc # "up", UNCHANGED admin PROVE \A a \in Admins : admin'[a].pc = "idle"
  BY <1>0, <1>12 DEF StartsAlone
<1>13. CASE StartupReads
  <2>1. server.pc = "starting" /\ UNCHANGED <<mandates, admin, late>> /\ live' = live
        /\ Live' = Live
    BY <1>2, <1>13 DEF StartupReads
  <2>2. CASE \E i \in Active :
               server' = IF mandates[i].terms.any THEN Up ELSE [pc |-> "revoke", current |-> i]
    <3>1. Starting' = 0 /\ (server'.pc = "revoke" => server'.current \in Live)
      BY <2>2 DEF Starting, Up, Active
    <3>2. live' + Starting' <= 1 + late
      BY <1>0, <2>1, <3>1 DEF live
    <3> QED BY <1>10, <1>12, <2>1, <3>1, <3>2
  <2>3. CASE Live = {} /\ server' = [pc |-> "issue", current |-> 0]
    <3>1. live = 0
      BY <2>3, FS_EmptySet DEF live
    <3>2. server'.pc = "issue"
      BY <2>3
    <3>3. live' = 0 /\ Starting' \in {0, 1} /\ late \in Nat
      BY <1>0, <2>1, <3>1
    <3>5. \A m, n, t : m = 0 /\ n \in {0, 1} /\ t \in Nat => m + n <= 1 + t
      OBVIOUS
    <3>4. live' + Starting' <= 1 + late
      BY <3>3, <3>5, Zenon
    <3> QED BY <1>10, <1>12, <2>1, <3>2, <3>4
  <2> QED BY <1>13, <2>2, <2>3 DEF StartupReads
<1>14. CASE StartupRevokes
  <2>1. server.pc = "revoke" /\ server.current \in Live /\ UNCHANGED <<admin, late>>
        /\ server'.pc = "issue" /\ Starting' = 1
    BY <1>0, <1>14 DEF StartupRevokes, StartsAlone, ServerState, MandateTypeOK, Starting
  <2>2. live' = live - 1
    BY <1>0, <1>14, <2>1, OneLessLives DEF StartupRevokes, live
  <2>3. live' + Starting' <= 1 + late
    BY <1>0, <2>1, <2>2 DEF live
  <2> QED BY <1>10, <1>12, <2>1, <2>3
<1>15. CASE StartupIssues
  <2>1. server.pc = "issue" /\ UNCHANGED <<admin, late>> /\ Starting = 1
        /\ server'.pc = "up" /\ Starting' = 0
    BY <1>15 DEF StartupIssues, Starting, Up
  <2>2. NewRow(FirstTerms) \in Row /\ ~NewRow(FirstTerms).revoked
    BY <1>0, FirstTermsTypes DEF NewRow, MandateTypeOK
  <2>3. live' <= live + 1
    BY <1>0, <1>15, <2>2, OneMoreLives DEF StartupIssues, live
  <2>4. live' + Starting' <= 1 + late
    BY <1>0, <2>1, <2>3 DEF live
  <2> QED BY <1>10, <1>12, <2>1, <2>4
<1>16. CASE MandateTick \/ UNCHANGED mvars
  <2>1. UNCHANGED <<mandates, admin, server, late>>
    BY <1>16 DEF MandateTick, mvars
  <2>2. Live' = Live /\ Issuing' = Issuing /\ Starting' = Starting
    BY <2>1 DEF Live, Issuing, Starting
  <2>3. live' = live /\ issuing' = issuing
    BY <2>2 DEF live, issuing
  <2>4. live' + issuing' + Starting' <= 1 + late'
    BY <1>0, <2>1, <2>2, <2>3 DEF live, issuing
  <2>5. StartsAlone'
    BY <1>0, <2>1, <2>2 DEF StartsAlone
  <2> QED BY <1>1, <2>4, <2>5
<1> QED
  BY <1>6, <1>7, <1>8, <1>9, <1>11, <1>13, <1>14, <1>15, <1>16
     DEF MandateNext, RouteStep, Startup

LEMMA MInvInit == MandateInit => MInv
<1> SUFFICES ASSUME MandateInit PROVE MInv
  OBVIOUS
<1>1. MandateTypeOK /\ server.pc = "up" /\ late = 0 /\ \A a \in Admins : admin[a].pc = "idle"
  BY MandateInitTypes DEF MandateInit, Up, IdleAdmin
<1>2. Issuing = {} /\ Live \subseteq {1}
  BY <1>1 DEF Issuing, Live, MandateInit
<1>3. Cardinality(Issuing) = 0 /\ Cardinality(Live) <= 1 /\ Cardinality(Live) \in Nat
  <2>1. IsFiniteSet({1}) /\ Cardinality({1}) = 1
    BY FS_Singleton
  <2>2. Cardinality(Live) <= Cardinality({1}) /\ IsFiniteSet(Live)
    BY <1>2, <2>1, FS_Subset
  <2> QED BY <1>2, <2>1, <2>2, FS_EmptySet, FS_CardinalityType
<1>4. Authority <= 1 + late
  BY <1>1, <1>3 DEF Authority, Starting
<1> QED BY <1>1, <1>4 DEF MInv, StartsAlone

LEMMA MInvHolds == MandateSpec => []MInv
<1>1. MInv /\ [MandateNext]_mvars => MandateTypeOK'
  BY MandateStep DEF MInv
<1>2. MInv /\ [MandateNext]_mvars => MInv'
  BY <1>1, MandateAccount
<1> QED BY MInvInit, <1>2, PTL DEF MandateSpec

(* However many threads edit and revoke the mandate and however often the  *)
(* server is restarted, the agent has one mandate at most, and one more    *)
(* for each edit that came too late (demo.py:198-203).                     *)
THEOREM AuthorityIsCounted == MandateSpec => []AuthorityIsNotDoubled
<1>1. MInv => AuthorityIsNotDoubled
  <2> SUFFICES ASSUME MInv PROVE Cardinality(Live) <= 1 + late
    BY DEF AuthorityIsNotDoubled
  <2> QED BY LiveTypes DEF MInv, Authority
<1> QED BY <1>1, MInvHolds, PTL

(* For any number of threads and restarts, as long as no edit came too     *)
(* late: a revocation of the active mandate leaves the agent without one,  *)
(* and no edit about to issue one (demo.py:559-574).                       *)
THEOREM RevocationIsTotal == MandateSpec => RevocationWithdraws
<1>1. MInv /\ [MandateNext]_mvars /\ MandateTypeOK' =>
        [\A a \in Admins :
           RevokeRoute(a) /\ admin[a].current \in Live /\ late = 0 =>
             Live' = {} /\ Issuing' = {}]_mvars
  <2> SUFFICES ASSUME MInv, MandateTypeOK', NEW a \in Admins, RevokeRoute(a),
                      admin[a].current \in Live, late = 0
               PROVE  Live' = {} /\ Issuing' = {}
    OBVIOUS
  <2>1. Cardinality(Live) \in Nat /\ Cardinality(Issuing) \in Nat /\ Starting \in Nat
        /\ IsFiniteSet(Live) /\ IsFiniteSet(Issuing)
        /\ Cardinality(Live) + Cardinality(Issuing) + Starting <= 1
    BY LiveTypes DEF MInv, Authority
  <2>2. Revoke(admin[a].current)
    BY DEF RevokeRoute
  <2>3. Cardinality(Live') = Cardinality(Live) - 1 /\ Cardinality(Live') \in Nat
    BY <2>2, OneLessLives DEF MInv
  <2>4. Cardinality(Live') = 0 /\ Cardinality(Issuing) = 0
    BY <2>1, <2>3
  <2>5. Live' = {} /\ Issuing = {}
    <3>1. IsFiniteSet(Live')
      BY <2>1, <2>2, RevokeEnds, FS_Subset DEF MInv
    <3> QED BY <2>1, <2>4, <3>1, FS_EmptySet
  <2>6. admin'[a].pc = "idle" /\ \A b \in Admins : b # a => admin'[b] = admin[b]
    BY DEF RevokeRoute, MInv, MandateTypeOK, IdleAdmin
  <2> QED BY <2>5, <2>6 DEF Issuing
<1>2. MInv /\ [MandateNext]_mvars => MandateTypeOK'
  BY MandateStep DEF MInv
<1> QED BY <1>1, <1>2, MInvHolds, PTL DEF RevocationWithdraws, MandateSpec

(* The mandates behave so under the agent's requests as well.              *)
THEOREM RequestsLeaveMandates == Spec => MandateSpec
<1>1. Init => MandateInit
  BY DEF Init
<1>2. [Next]_vars => [MandateNext]_mvars
  BY DEF Next, MandateNext, Evaluate, FindMandate, CheckRules, ClaimSlot, RecordDenial,
         RequestFails, ConfirmSlot, ReleaseSlot, SettleSlot, vars, mvars
<1> QED BY <1>1, <1>2, PTL DEF Spec, MandateSpec
=============================================================================
