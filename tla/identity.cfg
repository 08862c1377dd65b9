\* Sessions: two requests at a time, four rows, a limit low enough to be met.
\* Account: two requests, three registrations.  Permissions: three checks.
\* Limiter: two requests on their way to Redis, nearly three windows.
SPECIFICATION IdentitySpec
CONSTANTS
  Request = {r1, r2}
  Limit = 2
  MaxSessions = 4
  Client = {c1, c2}
  MaxTokens = 3
  Check = {k1, k2, k3}
  MaxRoles = 2
  MaxOutages = 1
  Arrival = {a1, a2}
  IpLimit = 1
  Window = 3
  Slack = 2
  MaxTime = 8
INVARIANTS
  IdentityTypeOK
  UsedHasSuccessor
  OneUsablePerFamily
  EndedHasNone
  WaitingIsVerifiable
  VerifiedItsPassword
  SessionsShareWorkspace
  RefusedWasTorn
  KeptSetExpires
  OldRoleWasRaced
  WindowIsBounded
CHECK_DEADLOCK FALSE
