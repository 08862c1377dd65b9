---------------------------- MODULE PermissionCache ----------------------------
(***************************************************************************)
(* The Redis set of one member's permissions, and the permission checks    *)
(* that read and write it (app/core/iam.py).  Each Redis call is a step:   *)
(* the set is looked up by two calls and written by three.  Routes with a  *)
(* permission run in a thread pool and in several replicas.  The roles a   *)
(* member has had are numbered, and the set is known by the roles whose    *)
(* permissions it holds.  Checks are for a permission every role has, like *)
(* meeting.read; of the others the contents of the set decide.             *)
(***************************************************************************)
EXTENDS Naturals

CONSTANTS
  Check,         \* slots for requests whose permission is being checked
  MaxRoles,      \* bound: roles the member has, one after the other
  MaxOutages     \* bound: Redis calls that raise, and deaths

VARIABLES
  role,          \* the member's role
  stale,         \* the role has changed and the set was not yet invalidated
  cached,        \* the set: empty when the key does not exist
  timed,         \* the key has a time to live
  check,         \* check[k]: the next call of the request, and the role it loaded
  torn,          \* requests that found the key and during which it was removed
  refused,       \* requests that have been answered 403
  cut,           \* a writer stopped between SADD and EXPIRE
  raced,         \* an invalidation failed, or met a writer with an earlier role
  outages

permissionVars == <<role, stale, cached, timed, check, torn, refused, cut, raced, outages>>

ASSUME PermissionCacheAssumption == MaxRoles \in Nat \ {0} /\ MaxOutages \in Nat

PermissionTypeOK ==
  /\ role \in 1..MaxRoles
  /\ {stale, timed, cut, raced} \subseteq BOOLEAN
  /\ cached \subseteq 1..role
  /\ check \in [Check -> [call : {"none", "exists", "members", "membership", "delete",
                                  "add", "expire"},
                          role : 0..role]]
  /\ torn \subseteq Check
  /\ refused \subseteq Check
  /\ outages \in 0..MaxOutages

PermissionInit ==
  /\ role = 1
  /\ cached = {}
  /\ check = [k \in Check |-> [call |-> "none", role |-> 0]]
  /\ torn = {}
  /\ refused = {}
  /\ stale = FALSE /\ timed = FALSE /\ cut = FALSE /\ raced = FALSE
  /\ outages = 0

At(k, call) == check[k].call = call
GoTo(k, call) == check' = [check EXCEPT ![k].call = call]
Done(k) == check' = [check EXCEPT ![k] = [call |-> "none", role |-> 0]]

\* The key is gone; those that have seen it and not yet read it will miss it.
Remove ==
  /\ cached' = {}
  /\ timed' = FALSE
  /\ torn' = torn \union {k \in Check : At(k, "members")}

-----------------------------------------------------------------------------
(* PermissionRequirement and get_user_permissions.                         *)

Ask(k) ==
  /\ At(k, "none")
  /\ GoTo(k, "exists")
  /\ torn' = torn \ {k}
  /\ refused' = refused \ {k}
  /\ UNCHANGED <<role, stale, cached, timed, cut, raced, outages>>

\* Mutant: a key that does not exist is read all the same.
ExistsUnasked(k) ==
  /\ At(k, "exists")
  /\ GoTo(k, "members")
  /\ UNCHANGED <<role, stale, cached, timed, torn, refused, cut, raced, outages>>

Exists(k) ==
  /\ At(k, "exists")
  /\ GoTo(k, IF cached = {} THEN "membership" ELSE "members")
  /\ UNCHANGED <<role, stale, cached, timed, torn, refused, cut, raced, outages>>

\* A set that is gone by now is read as an empty one, not as a miss.
Members(k) ==
  /\ At(k, "members")
  /\ refused' = refused \union {j \in {k} : cached = {}}
  /\ Done(k)
  /\ UNCHANGED <<role, stale, cached, timed, torn, cut, raced, outages>>

LoadMembership(k) ==
  /\ At(k, "membership")
  /\ check' = [check EXCEPT ![k] = [call |-> "delete", role |-> role]]
  /\ UNCHANGED <<role, stale, cached, timed, torn, refused, cut, raced, outages>>

-----------------------------------------------------------------------------
(* cache_user_permissions.                                                 *)

DeleteKey(k) ==
  /\ At(k, "delete")
  /\ Remove
  /\ GoTo(k, "add")
  /\ UNCHANGED <<role, stale, refused, cut, raced, outages>>

\* Mutant: EXPIRE comes before SADD.
AddMembersLast(k) ==
  /\ At(k, "add")
  /\ cached' = cached \union {check[k].role}
  /\ Done(k)
  /\ UNCHANGED <<role, stale, timed, torn, refused, cut, raced, outages>>

\* Added to what another writer has put there, which keeps its time to live.
AddMembers(k) ==
  /\ At(k, "add")
  /\ cached' = cached \union {check[k].role}
  /\ GoTo(k, "expire")
  /\ UNCHANGED <<role, stale, timed, torn, refused, cut, raced, outages>>

\* Nothing happens to a key that does not exist.
SetExpiry(k) ==
  /\ At(k, "expire")
  /\ timed' = (cached # {})
  /\ Done(k)
  /\ UNCHANGED <<role, stale, cached, torn, refused, cut, raced, outages>>

-----------------------------------------------------------------------------
(* invalidate_user_permissions, after a change of the role.                *)

ChangeRole ==
  /\ role < MaxRoles
  /\ ~stale
  /\ role' = role + 1
  /\ stale' = TRUE
  /\ UNCHANGED <<cached, timed, check, torn, refused, cut, raced, outages>>

\* Writers that have loaded an earlier role and not yet added it.
Behind == {k \in Check : check[k].call \in {"delete", "add"} /\ check[k].role < role}

\* Mutant: the key is left to its time to live.
InvalidateNothing ==
  /\ stale
  /\ stale' = FALSE
  /\ raced' = (raced \/ Behind # {})
  /\ UNCHANGED <<role, cached, timed, check, torn, refused, cut, outages>>

Invalidate ==
  /\ stale
  /\ stale' = FALSE
  /\ Remove
  /\ raced' = (raced \/ Behind # {})
  /\ UNCHANGED <<role, check, refused, cut, outages>>

\* Redis raises, which is only logged.
InvalidateFails ==
  /\ stale
  /\ outages < MaxOutages
  /\ outages' = outages + 1
  /\ stale' = FALSE
  /\ raced' = TRUE
  /\ UNCHANGED <<role, cached, timed, check, torn, refused, cut>>

-----------------------------------------------------------------------------

\* Fifteen minutes have passed.
Elapse ==
  /\ timed
  /\ Remove
  /\ UNCHANGED <<role, stale, check, refused, cut, raced, outages>>

\* A lookup that raises falls back on the database, a write that raises is
\* given up: the request is answered all the same.
RedisFails(k) ==
  /\ outages < MaxOutages
  /\ outages' = outages + 1
  /\ \/ At(k, "exists") /\ GoTo(k, "membership")
     \/ At(k, "members") /\ GoTo(k, "membership")
     \/ check[k].call \in {"delete", "add", "expire"} /\ Done(k)
  /\ cut' = (cut \/ At(k, "expire"))
  /\ UNCHANGED <<role, stale, cached, timed, torn, refused, raced>>

Die(k) ==
  /\ ~At(k, "none")
  /\ outages < MaxOutages
  /\ outages' = outages + 1
  /\ Done(k)
  /\ cut' = (cut \/ At(k, "expire"))
  /\ UNCHANGED <<role, stale, cached, timed, torn, refused, raced>>

PermissionNext ==
  \/ \E k \in Check :
       \/ Ask(k) \/ Exists(k) \/ Members(k) \/ LoadMembership(k)
       \/ DeleteKey(k) \/ AddMembers(k) \/ SetExpiry(k)
       \/ RedisFails(k) \/ Die(k)
  \/ ChangeRole \/ Invalidate \/ InvalidateFails \/ Elapse

PermissionSpec == PermissionInit /\ [][PermissionNext]_permissionVars

-----------------------------------------------------------------------------
(* Properties.                                                             *)

\* A member is refused a permission of the role only if the set vanished
\* between the two calls of the look-up.
RefusedWasTorn == refused \subseteq torn

\* The set has a time to live unless a writer is about to give it one, or was
\* cut short: writers that overlap do not leave a set behind for ever.
KeptSetExpires == cached # {} => timed \/ cut \/ \E k \in Check : At(k, "expire")

\* Once a change of the role is invalidated the set holds the permissions of no
\* earlier role, unless that failed or met a writer which had loaded one.
OldRoleWasRaced == cached \subseteq {role} \/ stale \/ raced

=============================================================================
