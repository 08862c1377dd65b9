------------------------------- MODULE Identity -------------------------------
(***************************************************************************)
(* What the API keeps about its callers: the sessions of a user            *)
(* (RefreshTokens), the account (Accounts), a member's cached permissions  *)
(* (PermissionCache) and the window of an address (RateLimiter).  The      *)
(* parts share no row and no key, and each property is about one of them.  *)
(* So nothing is lost, and the product of their states is avoided, by      *)
(* letting one part move in each behaviour.                                *)
(***************************************************************************)
EXTENDS RefreshTokens, Accounts, PermissionCache, RateLimiter

VARIABLE part    \* the part that moves

identityVars == <<vars, accountVars, permissionVars, limiterVars, part>>

IdentityInit ==
  /\ Init
  /\ AccountInit
  /\ PermissionInit
  /\ LimiterInit
  /\ part \in {"sessions", "account", "permissions", "limiter"}

SessionStep ==
  /\ part = "sessions"
  /\ Next
  /\ UNCHANGED <<accountVars, permissionVars, limiterVars, part>>

AccountStep ==
  /\ part = "account"
  /\ AccountNext
  /\ UNCHANGED <<vars, permissionVars, limiterVars, part>>

PermissionStep ==
  /\ part = "permissions"
  /\ PermissionNext
  /\ UNCHANGED <<vars, accountVars, limiterVars, part>>

LimiterStep ==
  /\ part = "limiter"
  /\ LimiterNext
  /\ UNCHANGED <<vars, accountVars, permissionVars, part>>

IdentityNext == SessionStep \/ AccountStep \/ PermissionStep \/ LimiterStep

IdentitySpec == IdentityInit /\ [][IdentityNext]_identityVars

-----------------------------------------------------------------------------
(* Properties.                                                             *)

\* Each part has its type.
IdentityTypeOK ==
  TypeOK /\ AccountTypeOK /\ PermissionTypeOK /\ LimiterTypeOK

=============================================================================
