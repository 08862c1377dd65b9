----------------------------- MODULE RefreshTokens -----------------------------
(***************************************************************************)
(* The sessions of one user: refresh token rotation in                     *)
(* app/services/identity.py.  A login starts a family of tokens, a refresh *)
(* replaces the token it is given by the next of its family, a token given *)
(* twice revokes the family.  Handlers run in a thread pool and in several *)
(* replicas; each loads rows, decides, and commits without looking again.  *)
(* A request that is refused only writes its audit log and is no step.     *)
(* Expiry times are taken as naive, as SQLite returns them: comparing an   *)
(* aware one with utcnow() raises, and such a refresh changes nothing.     *)
(***************************************************************************)
EXTENDS Naturals, Sequences, FiniteSets

CONSTANTS
  Request,       \* slots for requests that are being handled
  Limit,         \* 10 in login_user: rows that are not revoked
  MaxSessions    \* bound: rows of the table

ASSUME RefreshTokensAssumption ==
  /\ Limit \in Nat \ {0}
  /\ MaxSessions \in Nat

VARIABLES
  session,       \* rows of the sessions table, in the order of created_at
  request,       \* request[r]: how far r is, and with which row
  ended,         \* families that a replay or a logout has ended
  overlapped     \* families that had two requests under way at the same time

vars == <<session, request, ended, overlapped>>

\* A family is named by its first row.
Row == [family : 1..MaxSessions, used : BOOLEAN, revoked : BOOLEAN, expired : BOOLEAN]
Idle == [stage |-> "idle", row |-> 0]

TypeOK ==
  /\ session \in Seq(Row)
  /\ Len(session) <= MaxSessions
  /\ request \in [Request -> [stage : {"idle", "limit", "issue", "rotate", "replay"},
                              row : 0..Len(session)]]
  /\ ended \subseteq 1..Len(session)
  /\ overlapped \subseteq 1..Len(session)

Init ==
  /\ session = <<>>
  /\ request = [r \in Request |-> Idle]
  /\ ended = {}
  /\ overlapped = {}

Rows == DOMAIN session
Usable(t) == ~session[t].used /\ ~session[t].revoked /\ ~session[t].expired
Leave(r) == request' = [request EXCEPT ![r] = Idle]

\* Requests that were given a token of family f.
UnderWay(f) ==
  {r \in Request : request[r].stage \in {"rotate", "replay"}
                   /\ session[request[r].row].family = f}

\* One more request for family f.
Overlap(f) == overlapped' = IF UnderWay(f) = {} THEN overlapped ELSE overlapped \union {f}

\* The table once the rows in S are revoked.
Revoked(S) == [t \in Rows |-> [session[t] EXCEPT !.revoked = @ \/ t \in S]]

NewRow(f) == [family |-> f, used |-> FALSE, revoked |-> FALSE, expired |-> FALSE]

-----------------------------------------------------------------------------
(* login_user and onboard_oauth_user.                                      *)

\* Rows the limit counts: used and expired ones as well.
Active == {t \in Rows : ~session[t].revoked}

\* The limit is compared with the rows as they are now.
BeginLogin(r) ==
  /\ request[r] = Idle
  /\ \/ /\ Cardinality(Active) < Limit
        /\ request' = [request EXCEPT ![r] = [stage |-> "issue", row |-> 0]]
     \/ /\ Cardinality(Active) >= Limit
        /\ \E oldest \in Active :
             /\ \A t \in Active : oldest <= t
             /\ request' = [request EXCEPT ![r] = [stage |-> "limit", row |-> oldest]]
  /\ UNCHANGED <<session, ended, overlapped>>

\* login_user's audit log commits the oldest row's end by itself.
RevokeOldest(r) ==
  /\ request[r].stage = "limit"
  /\ session' = Revoked({request[r].row})
  /\ request' = [request EXCEPT ![r] = [stage |-> "issue", row |-> 0]]
  /\ UNCHANGED <<ended, overlapped>>

\* Mutant: the family is named after the rows before it.
IssueSessionOff(r) ==
  /\ request[r].stage \in {"limit", "issue"}
  /\ Len(session) < MaxSessions
  /\ session' = Append(Revoked({request[r].row}), NewRow(Len(session)))
  /\ Leave(r)
  /\ UNCHANGED <<ended, overlapped>>

\* The first row of a new family; onboard_oauth_user revokes the oldest row in
\* the same transaction.
IssueSession(r) ==
  /\ request[r].stage \in {"limit", "issue"}
  /\ Len(session) < MaxSessions
  /\ session' = Append(Revoked({request[r].row}), NewRow(Len(session) + 1))
  /\ Leave(r)
  /\ UNCHANGED <<ended, overlapped>>

-----------------------------------------------------------------------------
(* rotate_refresh_token, logout_user and revoke_session.                   *)

\* A token that is not revoked or expired: new to the server, or a replay.
PresentToken(r, t) ==
  /\ request[r] = Idle
  /\ ~session[t].revoked
  /\ ~session[t].expired
  /\ request' = [request EXCEPT ![r] =
       [stage |-> IF session[t].used THEN "replay" ELSE "rotate", row |-> t]]
  /\ Overlap(session[t].family)
  /\ UNCHANGED <<session, ended>>

\* Mutant: only the rows up to the replayed one.
FamilyNewer(t) == {u \in Rows : session[u].family = session[t].family /\ u <= t}

\* Rows of t's family.
Family(t) == {u \in Rows : session[u].family = session[t].family}

\* The replayed token's family is revoked as it is when the UPDATE runs.
RevokeFamily(r) ==
  LET t == request[r].row
  IN  /\ request[r].stage = "replay"
      /\ session' = Revoked(Family(t))
      /\ ended' = ended \union {session[t].family}
      /\ Leave(r)
      /\ UNCHANGED overlapped

\* Mutant: the old token stays good.
ConsumedNever(t) == session

\* The table once token t is used.
Consumed(t) == [session EXCEPT ![t].used = TRUE]

\* Mutant: the old token's use is committed before the new row is inserted.
RotateInTwo(r) ==
  LET t == request[r].row
  IN  /\ request[r].stage = "rotate"
      /\ Len(session) < MaxSessions
      /\ session' = IF session[t].used THEN Append(session, NewRow(session[t].family))
                    ELSE Consumed(t)
      /\ IF session[t].used THEN Leave(r) ELSE UNCHANGED request
      /\ UNCHANGED <<ended, overlapped>>

\* The old token's use and the family's next row, in one transaction.  Neither
\* depends on what the old row has become since it was read.
Rotate(r) ==
  LET t == request[r].row
  IN  /\ request[r].stage = "rotate"
      /\ Len(session) < MaxSessions
      /\ session' = Append(Consumed(t), NewRow(session[t].family))
      /\ Leave(r)
      /\ UNCHANGED <<ended, overlapped>>

\* A logout, or the user's revocation of a session, revokes that row only.
Revoke(t) ==
  /\ ~session[t].revoked
  /\ session' = Revoked({t})
  /\ ended' = IF Usable(t) THEN ended \union {session[t].family} ELSE ended
  /\ Overlap(session[t].family)
  /\ UNCHANGED request

-----------------------------------------------------------------------------

\* Seven days have passed.
Expire(t) ==
  /\ ~session[t].expired
  /\ session' = [session EXCEPT ![t].expired = TRUE]
  /\ UNCHANGED <<request, ended, overlapped>>

\* The handler raises or its process dies; what it committed stays.
Abandon(r) ==
  /\ request[r] # Idle
  /\ Leave(r)
  /\ UNCHANGED <<session, ended, overlapped>>

Next ==
  \/ \E r \in Request :
       \/ BeginLogin(r)
       \/ RevokeOldest(r)
       \/ IssueSession(r)
       \/ RevokeFamily(r)
       \/ Rotate(r)
       \/ Abandon(r)
       \/ \E t \in Rows : PresentToken(r, t)
  \/ \E t \in Rows : Revoke(t) \/ Expire(t)

Spec == Init /\ [][Next]_vars

-----------------------------------------------------------------------------
(* Properties.                                                             *)

\* No refresh leaves a user without a token: whatever overlaps or dies, a used
\* row has a later row in its family.
UsedHasSuccessor ==
  \A t \in Rows : session[t].used =>
    \E u \in Rows : u > t /\ session[u].family = session[t].family

\* Each token is single-use: unless two requests for a family overlap, it has
\* at most one token that can still be refreshed.
OneUsablePerFamily ==
  \A t, u \in Rows :
    /\ session[t].family = session[u].family
    /\ session[t].family \notin overlapped
    /\ Usable(t)
    /\ Usable(u)
    => t = u

\* A family that was replayed, or whose current token was logged out, has no
\* token left and gets no other, unless a refresh of it was under way.
EndedHasNone ==
  \A t \in Rows : session[t].family \in ended \ overlapped => ~Usable(t)

=============================================================================
