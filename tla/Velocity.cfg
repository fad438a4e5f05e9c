\* Two threads edit and revoke one agent's mandate while routes fail and the
\* server restarts, also in the middle of its start-up; and three requests are
\* evaluated in two threads while one of them does: an amount beyond the cap
\* after an edit, malformed requests, and items a list leaves out.
SPECIFICATION Spec
CONSTANTS
  Admins = {a1, a2}
  Caps = {1, 2}
  Limits = {1}
  Lifetimes = {1}
  FirstCap = 2
  FirstLimit = 1
  FirstLifetime = 1
  MaxMandates = 3
  MaxNow = 2
  Requests = {p1, p2}
  Keys = {k1, k2}
  Amounts = {0, 2}
  Window = 1
  CoolAfter = 1
  CoolWindow = 1
  MaxEvaluations = 3
SYMMETRY Symmetric
CONSTRAINTS OneEditor FewRevived
INVARIANT RollingCap
INVARIANT BoundedByMandate
INVARIANT GrindingIsBounded
INVARIANT AuthorityIsNotDoubled
PROPERTY RevocationWithdraws
CHECK_DEADLOCK FALSE
