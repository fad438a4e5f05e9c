------------------------------ MODULE Mandates ------------------------------
(***************************************************************************)
(* One agent's mandates (mandate.py) under the merchant's routes that edit *)
(* and revoke them (demo.py), each in a thread of its own, and the         *)
(* start-up of the server (scripts/run_ui.py), which replaces a mandate    *)
(* that lists items and issues one when there is none.                     *)
(*                                                                         *)
(* Rows are never deleted or edited: an edit revokes the active mandate    *)
(* and issues a copy with one field replaced, in two transactions, after   *)
(* reading the active one in a third, and so does start-up.  Each is one   *)
(* step here.  Times are coarse, so equal created_at, which leave the      *)
(* newest one to the database, do happen.  Of the terms the model keeps    *)
(* one per-transaction cap, one velocity limit, whether every item is      *)
(* allowed (ANY_SKU) and the expiry.                                       *)
(*                                                                         *)
(* A definition placed just before another one with the same parameters    *)
(* and named by no action is a plausible slip of it, for the mutants.      *)
(***************************************************************************)
EXTENDS Naturals, Sequences, FiniteSets

CONSTANTS Admins,       \* threads serving the merchant's routes
          Caps,         \* max_amount_paise values
          Limits,       \* velocity_limit values
          Lifetimes,    \* extends_seconds values of an expiry edit
          FirstCap, FirstLimit, FirstLifetime,  \* what start-up issues
          MaxMandates,  \* bound: mandates issued in a behaviour
          MaxNow        \* bound: the last instant of the clock

ASSUME MandatesAssumption ==
  /\ IsFiniteSet(Admins)
  /\ Caps \subseteq Nat /\ Limits \subseteq Nat /\ Lifetimes \subseteq Nat
  /\ FirstCap \in Caps /\ FirstLimit \in Limits /\ FirstLifetime \in Nat
  /\ MaxMandates \in Nat \ {0} /\ MaxNow \in Nat

VARIABLES now,       \* the clock
          mandates,  \* the rows of the table mandates, in order of issue
          admin,     \* admin[a]: where a route is in thread a
          server,    \* where the start-up of the server is
          late       \* edits that revoked a row revoked already, so far

mvars == <<now, mandates, admin, server, late>>

Terms == [cap : Caps, limit : Limits, any : BOOLEAN, expires : Nat]

Row == [terms : Terms, created : Nat, revoked : BOOLEAN, revokedAt : Nat]

NewRow(terms) ==
  [terms |-> terms, created |-> now, revoked |-> FALSE, revokedAt |-> 0]

(* terms is what _reissue builds, from the mandate current it has read.    *)
AdminState == [pc : {"idle", "edit", "issue", "revoke"}, current : Nat, terms : Terms]

(* current is the mandate start-up found, and replaces.                    *)
ServerState == [pc : {"up", "starting", "revoke", "issue"}, current : Nat]

FirstTerms == [cap |-> FirstCap, limit |-> FirstLimit, any |-> TRUE,
               expires |-> now + FirstLifetime]

IdleAdmin == [pc |-> "idle", current |-> 0,
              terms |-> [cap |-> FirstCap, limit |-> FirstLimit, any |-> TRUE,
                         expires |-> FirstLifetime]]

Up == [pc |-> "up", current |-> 0]

(* active_for_agent: a newest one of the rows not revoked.                 *)
Live == {i \in DOMAIN mandates : ~mandates[i].revoked}
Active == {i \in Live : \A j \in Live : mandates[j].created <= mandates[i].created}

(* One field replaced: set_cap, set_velocity, set_allowlist, set_expiry.   *)
EditsOf(terms) ==
  {[terms EXCEPT !.cap = c] : c \in Caps}
    \cup {[terms EXCEPT !.limit = n] : n \in Limits}
    \cup {[terms EXCEPT !.any = any] : any \in BOOLEAN}
    \cup {[terms EXCEPT !.expires = now + s] : s \in Lifetimes}

-----------------------------------------------------------------------------
(* The merchant's routes.                                                  *)

ReadForEdit(a) ==
  /\ server.pc = "up" /\ admin[a].pc = "idle"
  /\ Len(mandates) < MaxMandates
  /\ \E i \in Active : \E terms \in EditsOf(mandates[i].terms) \ {mandates[i].terms} :
       admin' = [admin EXCEPT ![a] = [pc |-> "edit", current |-> i, terms |-> terms]]
  /\ UNCHANGED <<now, mandates, server, late>>

ReadForRevoke(a) ==
  /\ server.pc = "up" /\ admin[a].pc = "idle"
  /\ \E i \in Active :
       admin' = [admin EXCEPT ![a] = [IdleAdmin EXCEPT !.pc = "revoke", !.current = i]]
  /\ UNCHANGED <<now, mandates, server, late>>

(* revoke() stamps the row whether it was revoked already or not.          *)
Revoke(i) ==
  mandates' = [mandates EXCEPT ![i].revoked = TRUE, ![i].revokedAt = now]

EditKeepsOld(a) ==
  /\ admin[a].pc = "edit"
  /\ admin' = [admin EXCEPT ![a].pc = "issue"]
  /\ UNCHANGED <<now, mandates, server, late>>

EditRevokes(a) ==
  /\ admin[a].pc = "edit"
  /\ Revoke(admin[a].current)
  /\ late' = IF admin[a].current \in Live THEN late ELSE late + 1
  /\ admin' = [admin EXCEPT ![a].pc = "issue"]
  /\ UNCHANGED <<now, server>>

EditIssues(a) ==
  /\ admin[a].pc = "issue"
  /\ Len(mandates) < MaxMandates
  /\ mandates' = Append(mandates, NewRow(admin[a].terms))
  /\ admin' = [admin EXCEPT ![a] = IdleAdmin]
  /\ UNCHANGED <<now, server, late>>

RevokeRoute(a) ==
  /\ admin[a].pc = "revoke"
  /\ Revoke(admin[a].current)
  /\ admin' = [admin EXCEPT ![a] = IdleAdmin]
  /\ UNCHANGED <<now, server, late>>

(* A statement fails, or its answer is lost: an edit may have revoked and  *)
(* then never issue its copy.                                              *)
RouteFails(a) ==
  /\ admin[a].pc # "idle"
  /\ admin' = [admin EXCEPT ![a] = IdleAdmin]
  /\ UNCHANGED <<now, mandates, server, late>>

-----------------------------------------------------------------------------
(* The server.                                                             *)

(* The process ends, every route where it is, and is started again; also   *)
(* one that was still starting.                                            *)
Restart ==
  /\ server' = [pc |-> "starting", current |-> 0]
  /\ admin' = [a \in Admins |-> IdleAdmin]
  /\ UNCHANGED <<now, mandates, late>>

(* It reads the active mandate: one that lists items is stale.             *)
StartupReads ==
  /\ server.pc = "starting"
  /\ \/ \E i \in Active :
          server' = IF mandates[i].terms.any THEN Up ELSE [pc |-> "revoke", current |-> i]
     \/ Live = {} /\ server' = [pc |-> "issue", current |-> 0]
  /\ UNCHANGED <<now, mandates, admin, late>>

StartupKeepsStale ==
  /\ server.pc = "revoke"
  /\ server' = [server EXCEPT !.pc = "issue"]
  /\ UNCHANGED <<now, mandates, admin, late>>

StartupRevokes ==
  /\ server.pc = "revoke"
  /\ Revoke(server.current)
  /\ server' = [server EXCEPT !.pc = "issue"]
  /\ UNCHANGED <<now, admin, late>>

StartupIssues ==
  /\ server.pc = "issue"
  /\ Len(mandates) < MaxMandates
  /\ mandates' = Append(mandates, NewRow(FirstTerms))
  /\ server' = Up
  /\ UNCHANGED <<now, admin, late>>

MandateTick ==
  /\ now < MaxNow
  /\ now' = now + 1
  /\ UNCHANGED <<mandates, admin, server, late>>

(* The first start-up found no mandate and is over.                        *)
MandateInit ==
  /\ now = 0
  /\ mandates = <<NewRow(FirstTerms)>>
  /\ admin = [a \in Admins |-> IdleAdmin]
  /\ server = Up
  /\ late = 0

RouteStep ==
  \E a \in Admins : ReadForEdit(a) \/ ReadForRevoke(a) \/ EditRevokes(a) \/ EditIssues(a)
                      \/ RevokeRoute(a) \/ RouteFails(a)

Startup == StartupReads \/ StartupRevokes \/ StartupIssues

MandateNext == RouteStep \/ Startup \/ Restart \/ MandateTick

MandateSpec == MandateInit /\ [][MandateNext]_mvars

-----------------------------------------------------------------------------

MandateTypeOK ==
  /\ now \in Nat
  /\ mandates \in Seq(Row)
  /\ admin \in [Admins -> AdminState]
  /\ server \in ServerState
  /\ late \in Nat

(* Who has revoked a row and is about to issue another.                    *)
Issuing == {a \in Admins : admin[a].pc = "issue"}

(* "The old one is kept, revoked, ... and a fresh one takes its place"     *)
(* (demo.py:198-203): editing and restarting never leaves the agent with   *)
(* two mandates, wherever a route or a start-up fails or is killed, except *)
(* that each edit which came too late, and replaced a row that another     *)
(* route had revoked meanwhile, may leave one more.                        *)
AuthorityIsNotDoubled == Cardinality(Live) <= 1 + late

(* Revocation, the "kill switch", withdraws authority "immediately" and    *)
(* "the very next request is denied" (demo.py:559-574): as long as no edit *)
(* came too late, a revocation of the mandate still active leaves none     *)
(* active, and no edit that has yet to issue one over its head; an edit    *)
(* that read the mandate before is late from then on.                      *)
RevocationWithdraws ==
  [][\A a \in Admins :
       RevokeRoute(a) /\ admin[a].current \in Live /\ late = 0 =>
         Live' = {} /\ Issuing' = {}]_mvars
=============================================================================
