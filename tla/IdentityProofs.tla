----------------------------- MODULE IdentityProofs -----------------------------
(***************************************************************************)
(* Proofs about the parts of Identity, for every number of requests and    *)
(* rows and every limit, and about the parts together.  Those about the    *)
(* account are in AccountsProofs.                                          *)
(***************************************************************************)
EXTENDS Identity, AccountsProofs, FiniteSetTheorems, TLAPS

-----------------------------------------------------------------------------
(* The sessions (RefreshTokens).  A family that no two requests overlapped *)
(* in is a chain: all its rows but one are used, revoked or expired, and a *)
(* refresh that is under way holds that one.                               *)

\* A family is named after a row that is not younger than any of its rows.
FamiliesOK == \A t \in Rows : session[t].family <= t

Holder(r) == request[r].stage \in {"rotate", "replay"}
FamilyOf(r) == session[request[r].row].family

\* Requests under way hold rows, two in one family are known to overlap, and one
\* that is alone in its family to refresh it holds the family's usable row, and
\* the family has not ended.
RequestsOK ==
  /\ \A r \in Request : request[r].stage \in {"limit", "rotate", "replay"} =>
       request[r].row \in Rows
  /\ \A q, r \in Request :
       q # r /\ Holder(q) /\ Holder(r) /\ FamilyOf(q) = FamilyOf(r) =>
         FamilyOf(r) \in overlapped
  /\ \A r \in Request :
       request[r].stage = "rotate" /\ FamilyOf(r) \notin overlapped =>
         /\ FamilyOf(r) \notin ended
         /\ \A u \in Rows : session[u].family = FamilyOf(r) /\ Usable(u) =>
              u = request[r].row

SessionsInv ==
  /\ TypeOK
  /\ FamiliesOK
  /\ RequestsOK
  /\ UsedHasSuccessor
  /\ OneUsablePerFamily
  /\ EndedHasNone

-----------------------------------------------------------------------------
(* What the steps do to the table.                                         *)

\* The rows stay, and none becomes usable, used or another family's.
Shrinks ==
  /\ session' \in Seq(Row)
  /\ Len(session') = Len(session)
  /\ \A t \in Rows :
       /\ session'[t].family = session[t].family
       /\ session'[t].used => session[t].used
       /\ Usable(t)' => Usable(t)

\* One row more, of family f; the others stay or are used or revoked.
Grows(f) ==
  /\ session' \in Seq(Row)
  /\ Len(session') = Len(session) + 1
  /\ session'[Len(session) + 1] = NewRow(f)
  /\ \A t \in Rows :
       /\ session'[t].family = session[t].family
       /\ session'[t].used => session[t].used \/ session[t].family = f
       /\ Usable(t)' => Usable(t)

\* A table's rows are numbered from 1.
LEMMA SequenceRows ==
  ASSUME NEW T \in Seq(Row) PROVE DOMAIN T = 1..Len(T) /\ Len(T) \in Nat
  OBVIOUS

\* The rows are numbered from 1.
LEMMA RowsAreNumbers == ASSUME TypeOK PROVE Rows = 1..Len(session) /\ Len(session) \in Nat
  BY DEF TypeOK, Rows

\* Changing a row keeps the table a table.
LEMMA EditedTable ==
  ASSUME TypeOK, NEW t \in Rows, NEW v \in Row
  PROVE  LET T == [session EXCEPT ![t] = v]
         IN  /\ T \in Seq(Row)
             /\ Len(T) = Len(session)
             /\ T[t] = v
             /\ \A u \in Rows \ {t} : T[u] = session[u]
  BY DEF TypeOK, Rows

\* Revoking keeps the table a table.
LEMMA RevokedTable ==
  ASSUME TypeOK, NEW S
  PROVE  /\ Revoked(S) \in Seq(Row)
         /\ Len(Revoked(S)) = Len(session)
         /\ \A t \in Rows :
              /\ Revoked(S)[t].family = session[t].family
              /\ Revoked(S)[t].used => session[t].used
              /\ session[t].used => Revoked(S)[t].used
              /\ Revoked(S)[t].expired => session[t].expired
              /\ session[t].expired => Revoked(S)[t].expired
              /\ session[t].revoked => Revoked(S)[t].revoked
              /\ t \in S => Revoked(S)[t].revoked
<1>1. \A t \in Rows : session[t] \in Row
  BY DEF TypeOK, Rows
<1>2. \A t \in Rows : Revoked(S)[t] = [session[t] EXCEPT !.revoked = @ \/ t \in S]
  BY DEF Revoked
<1>3. \A t \in Rows : [session[t] EXCEPT !.revoked = @ \/ t \in S] \in Row
  BY <1>1 DEF Row
<1>4. Revoked(S) \in [1..Len(session) -> Row]
  BY <1>2, <1>3, RowsAreNumbers DEF Revoked
<1>5. Revoked(S) \in Seq(Row) /\ Len(Revoked(S)) = Len(session)
  BY <1>4, RowsAreNumbers
<1> QED
  BY <1>1, <1>2, <1>5 DEF Row

\* A step that revokes rows shrinks.
LEMMA RevokingShrinks == ASSUME TypeOK, NEW S, session' = Revoked(S) PROVE Shrinks
<1>1. \A t \in Rows : Usable(t)' => Usable(t)
  BY RevokedTable DEF Usable
<1> QED
  BY <1>1, RevokedTable DEF Shrinks

\* A step that appends a row of family f to a table that only shrank grows by f.
LEMMA AppendingGrows ==
  ASSUME TypeOK, NEW T, T \in Seq(Row), Len(T) = Len(session),
         NEW f \in 1..MaxSessions, session' = Append(T, NewRow(f)),
         \A t \in Rows : /\ T[t].family = session[t].family
                         /\ session[t].used => T[t].used
                         /\ T[t].used => session[t].used \/ session[t].family = f
                         /\ session[t].revoked => T[t].revoked
                         /\ session[t].expired => T[t].expired
  PROVE  Grows(f)
<1>1. NewRow(f) \in Row
  BY DEF NewRow, Row
<1>2. \A t \in Rows : session'[t] = T[t]
  BY RowsAreNumbers
<1> QED
  BY <1>1, <1>2, RowsAreNumbers DEF Grows, Usable

-----------------------------------------------------------------------------
(* What that means for the invariant.                                      *)

\* A request that is under way stays so, or it is not any more.
HoldersStay ==
  \A q \in Request :
    \/ request'[q] = request[q]
    \/ /\ request'[q].stage \notin {"rotate", "replay"}
       /\ request'[q].stage = "limit" => request'[q].row \in Rows

\* Every family is named after a row of the table.
LEMMA FamiliesAreRows ==
  ASSUME TypeOK, FamiliesOK, NEW t \in Rows PROVE session[t].family \in Rows
<1>1. t \in 1..Len(session) /\ session[t] \in Row
  BY RowsAreNumbers DEF TypeOK
<1>2. session[t].family \in 1..MaxSessions
  BY <1>1 DEF Row
<1>3. session[t].family <= t
  BY DEF FamiliesOK
<1> QED
  BY <1>1, <1>2, <1>3, RowsAreNumbers, RefreshTokensAssumption

\* Steps without a new row keep the invariant if families that end have no usable
\* row left, and the requests that still hold them are known to overlap.
LEMMA ShrinkStep ==
  ASSUME SessionsInv, TypeOK', Shrinks, HoldersStay, overlapped \subseteq overlapped',
         \A q \in Request : Holder(q) /\ Holder(q)' /\ FamilyOf(q) \in ended' =>
           FamilyOf(q) \in ended \union overlapped',
         \A t \in Rows : session[t].family \in ended' /\ Usable(t)' =>
           session[t].family \in ended \union overlapped'
  PROVE  SessionsInv'
<1>1. Rows' = Rows
  BY RowsAreNumbers, SequenceRows DEF SessionsInv, Shrinks, Rows
<1>2. \A q \in Request : Holder(q)' =>
        /\ Holder(q)
        /\ request'[q] = request[q]
        /\ request[q].row \in Rows
        /\ FamilyOf(q)' = FamilyOf(q)
  BY DEF HoldersStay, Holder, FamilyOf, SessionsInv, RequestsOK, Shrinks
<1>3. FamiliesOK'
  BY <1>1 DEF SessionsInv, FamiliesOK, Shrinks
<1>4. UsedHasSuccessor'
  BY <1>1 DEF SessionsInv, UsedHasSuccessor, Shrinks
<1>5. OneUsablePerFamily'
  BY <1>1 DEF SessionsInv, OneUsablePerFamily, Shrinks
<1>6. EndedHasNone'
  BY <1>1 DEF SessionsInv, EndedHasNone, Shrinks
<1>7. RequestsOK'
  <2>1. \A r \in Request : request'[r].stage \in {"limit", "rotate", "replay"} =>
          request'[r].row \in Rows
    BY DEF HoldersStay, SessionsInv, RequestsOK
  <2>2. ASSUME NEW q \in Request, NEW r \in Request, q # r, Holder(q)', Holder(r)',
               FamilyOf(q)' = FamilyOf(r)'
        PROVE  FamilyOf(r)' \in overlapped'
    BY <1>2, <2>2 DEF SessionsInv, RequestsOK
  <2>3. ASSUME NEW r \in Request, request'[r].stage = "rotate",
               FamilyOf(r)' \notin overlapped'
        PROVE  /\ FamilyOf(r)' \notin ended'
               /\ \A u \in Rows : session'[u].family = FamilyOf(r)' /\ Usable(u)' =>
                    u = request'[r].row
    <3>1. /\ Holder(r)
          /\ request'[r] = request[r]
          /\ FamilyOf(r)' = FamilyOf(r)
          /\ Holder(r)'
      BY <1>2, <2>3 DEF Holder
    <3>2. /\ FamilyOf(r) \notin ended
          /\ \A u \in Rows : session[u].family = FamilyOf(r) /\ Usable(u) =>
               u = request[r].row
      BY <2>3, <3>1 DEF SessionsInv, RequestsOK
    <3> QED
      BY <2>3, <3>1, <3>2 DEF Shrinks
  <2> QED
    BY <1>1, <2>1, <2>2, <2>3 DEF RequestsOK
<1> QED
  BY <1>3, <1>4, <1>5, <1>6, <1>7 DEF SessionsInv

\* A new row keeps the invariant if, unless requests overlapped in its family,
\* the family has not ended, has no other usable row, and nobody holds it.
LEMMA GrowStep ==
  ASSUME SessionsInv, TypeOK', NEW f \in 1..(Len(session) + 1), Grows(f), HoldersStay,
         UNCHANGED <<ended, overlapped>>,
         \A q \in Request : Holder(q) /\ Holder(q)' /\ FamilyOf(q) = f => f \in overlapped,
         f \notin overlapped =>
           /\ f \notin ended
           /\ \A u \in Rows : session[u].family = f => ~Usable(u)'
  PROVE  SessionsInv'
<1> DEFINE n == Len(session) + 1
<1>1. Rows' = Rows \union {n} /\ n \notin Rows /\ (\A t \in Rows : t < n)
  BY RowsAreNumbers, SequenceRows DEF SessionsInv, Grows, Rows
<1>2. \A q \in Request : Holder(q)' =>
        /\ Holder(q)
        /\ request'[q] = request[q]
        /\ request[q].row \in Rows
        /\ FamilyOf(q)' = FamilyOf(q)
  BY DEF HoldersStay, Holder, FamilyOf, SessionsInv, RequestsOK, Grows
<1>3. session'[n].family = f /\ ~session'[n].used
  BY DEF Grows, NewRow
<1>4. FamiliesOK'
  BY <1>1, <1>3 DEF SessionsInv, FamiliesOK, Grows
<1>5. UsedHasSuccessor'
  <2>1. ASSUME NEW t \in Rows', session'[t].used
        PROVE  \E u \in Rows' : u > t /\ session'[u].family = session'[t].family
    <3>1. t \in Rows
      BY <1>1, <1>3, <2>1
    <3>2. CASE session[t].used
      BY <1>1, <3>1, <3>2 DEF SessionsInv, UsedHasSuccessor, Grows
    <3>3. CASE session[t].family = f
      BY <1>1, <1>3, <3>1, <3>3, RowsAreNumbers DEF SessionsInv, Grows
    <3> QED
      BY <2>1, <3>1, <3>2, <3>3 DEF Grows
  <2> QED
    BY <2>1 DEF UsedHasSuccessor
<1>6. OneUsablePerFamily'
  BY <1>1, <1>3 DEF SessionsInv, OneUsablePerFamily, Grows
<1>7. EndedHasNone'
  BY <1>1, <1>3 DEF SessionsInv, EndedHasNone, Grows
<1>8. RequestsOK'
  <2>1. \A r \in Request : request'[r].stage \in {"limit", "rotate", "replay"} =>
          request'[r].row \in Rows'
    BY <1>1 DEF HoldersStay, SessionsInv, RequestsOK
  <2>2. ASSUME NEW q \in Request, NEW r \in Request, q # r, Holder(q)', Holder(r)',
               FamilyOf(q)' = FamilyOf(r)'
        PROVE  FamilyOf(r)' \in overlapped'
    BY <1>2, <2>2 DEF SessionsInv, RequestsOK
  <2>3. ASSUME NEW r \in Request, request'[r].stage = "rotate",
               FamilyOf(r)' \notin overlapped'
        PROVE  /\ FamilyOf(r)' \notin ended'
               /\ \A u \in Rows' : session'[u].family = FamilyOf(r)' /\ Usable(u)' =>
                    u = request'[r].row
    <3>1. /\ Holder(r)
          /\ request'[r] = request[r]
          /\ FamilyOf(r)' = FamilyOf(r)
          /\ Holder(r)'
      BY <1>2, <2>3 DEF Holder
    <3>2. /\ FamilyOf(r) \notin ended
          /\ \A u \in Rows : session[u].family = FamilyOf(r) /\ Usable(u) =>
               u = request[r].row
      BY <2>3, <3>1 DEF SessionsInv, RequestsOK
    <3>3. FamilyOf(r) # f
      BY <2>3, <3>1
    <3> QED
      BY <1>1, <1>3, <2>3, <3>1, <3>2, <3>3 DEF Grows
  <2> QED
    BY <2>1, <2>2, <2>3 DEF RequestsOK
<1> QED
  BY <1>4, <1>5, <1>6, <1>7, <1>8 DEF SessionsInv

-----------------------------------------------------------------------------
(* The steps.                                                              *)

\* The empty table satisfies the invariant.
LEMMA InitSessionsInv == ASSUME Init PROVE SessionsInv
<1>1. Rows = {} /\ \A r \in Request : request[r] = Idle
  BY DEF Init, Rows
<1>2. TypeOK
  BY RefreshTokensAssumption DEF Init, TypeOK, Idle, RefreshTokensAssumption
<1> QED
  BY <1>1, <1>2 DEF SessionsInv, FamiliesOK, RequestsOK, Holder, Idle, UsedHasSuccessor,
                    OneUsablePerFamily, EndedHasNone

\* A table that is left alone shrinks, too.
LEMMA UnchangedShrinks == ASSUME TypeOK, UNCHANGED session PROVE Shrinks
  BY DEF TypeOK, Shrinks, Usable

\* A login that counts the rows.
LEMMA BeginLoginStep == ASSUME SessionsInv, NEW r \in Request, BeginLogin(r) PROVE SessionsInv'
<1>1. 0 \in 0..Len(session) /\ Rows \subseteq 0..Len(session)
  BY RowsAreNumbers DEF SessionsInv
<1>2. ASSUME request' = [request EXCEPT ![r] = [stage |-> "issue", row |-> 0]]
      PROVE  TypeOK' /\ HoldersStay
  <2>1. TypeOK'
    BY <1>1, <1>2 DEF SessionsInv, TypeOK, BeginLogin
  <2>2. HoldersStay
    BY <1>2 DEF SessionsInv, TypeOK, HoldersStay
  <2> QED
    BY <2>1, <2>2
<1>3. ASSUME NEW oldest \in Rows,
             request' = [request EXCEPT ![r] = [stage |-> "limit", row |-> oldest]]
      PROVE  TypeOK' /\ HoldersStay
  <2>1. TypeOK'
    BY <1>1, <1>3 DEF SessionsInv, TypeOK, BeginLogin
  <2>2. HoldersStay
    BY <1>3 DEF SessionsInv, TypeOK, HoldersStay
  <2> QED
    BY <2>1, <2>2
<1>4. TypeOK' /\ HoldersStay
  BY <1>2, <1>3 DEF BeginLogin, Active
<1>5. Shrinks
  BY UnchangedShrinks DEF SessionsInv, BeginLogin
<1> QED
  BY <1>4, <1>5, ShrinkStep DEF BeginLogin, SessionsInv, EndedHasNone, Shrinks

\* A login that revokes the oldest row.
LEMMA RevokeOldestStep ==
  ASSUME SessionsInv, NEW r \in Request, RevokeOldest(r)
  PROVE  SessionsInv'
<1>1. TypeOK'
  BY RevokedTable DEF SessionsInv, TypeOK, RevokeOldest
<1>2. HoldersStay
  BY DEF SessionsInv, TypeOK, RevokeOldest, HoldersStay
<1>3. Shrinks
  BY RevokingShrinks DEF SessionsInv, RevokeOldest
<1> QED
  BY <1>1, <1>2, <1>3, ShrinkStep DEF RevokeOldest

\* A replay ends its family: another holder of it is known to overlap.
LEMMA RevokeFamilyStep ==
  ASSUME SessionsInv, NEW r \in Request, RevokeFamily(r)
  PROVE  SessionsInv'
<1> DEFINE f == session[request[r].row].family
<1>1. request[r].row \in Rows /\ f \in Rows
  BY FamiliesAreRows DEF SessionsInv, RequestsOK, RevokeFamily
<1>2. Shrinks
  BY RevokingShrinks DEF SessionsInv, RevokeFamily
<1>3. TypeOK'
  <2>1. session' \in Seq(Row) /\ Len(session') = Len(session)
    BY <1>2 DEF Shrinks
  <2>2. f \in 1..Len(session) /\ 0 \in 0..Len(session)
    BY <1>1, RowsAreNumbers DEF SessionsInv
  <2>3. request' \in [Request -> [stage : {"idle", "limit", "issue", "rotate", "replay"},
                                row : 0..Len(session)]]
    BY <2>2 DEF SessionsInv, TypeOK, RevokeFamily, Leave, Idle
  <2>4. ended' = ended \union {f} /\ overlapped' = overlapped
    BY DEF RevokeFamily
  <2> QED
    BY <2>1, <2>2, <2>3, <2>4 DEF SessionsInv, TypeOK
<1>4. HoldersStay
  BY DEF SessionsInv, TypeOK, RevokeFamily, Leave, Idle, HoldersStay
<1>5. ASSUME NEW q \in Request, Holder(q), Holder(q)', FamilyOf(q) \in ended'
      PROVE  FamilyOf(q) \in ended \union overlapped'
  <2>1. q # r /\ Holder(r)
    BY <1>5 DEF Holder, RevokeFamily, Leave, Idle, SessionsInv, TypeOK
  <2> QED
    BY <1>5, <2>1 DEF SessionsInv, RequestsOK, FamilyOf, RevokeFamily
<1>6. ASSUME NEW t \in Rows, session[t].family \in ended', Usable(t)'
      PROVE  session[t].family \in ended \union overlapped'
  <2>1. CASE session[t].family = f
    BY <1>1, <1>6, <2>1, RevokedTable DEF SessionsInv, RevokeFamily, Family, Usable
  <2> QED
    BY <1>6, <2>1 DEF RevokeFamily
<1> QED
  BY <1>2, <1>3, <1>4, <1>5, <1>6, ShrinkStep DEF RevokeFamily

\* A logout ends the family of a usable row; a holder of it overlaps from now on.
LEMMA RevokeStep == ASSUME SessionsInv, NEW t \in Rows, Revoke(t) PROVE SessionsInv'
<1> DEFINE f == session[t].family
<1>1. f \in Rows
  BY FamiliesAreRows DEF SessionsInv
<1>2. overlapped \subseteq overlapped'
  BY DEF Revoke, Overlap
<1>3. TypeOK'
  BY <1>1, RevokedTable, RowsAreNumbers DEF SessionsInv, TypeOK, Revoke, Overlap
<1>4. HoldersStay
  BY DEF Revoke, HoldersStay
<1>5. Shrinks
  BY RevokingShrinks DEF SessionsInv, Revoke
<1>6. ASSUME NEW q \in Request, Holder(q), FamilyOf(q) \in ended'
      PROVE  FamilyOf(q) \in ended \union overlapped'
  <2>1. CASE FamilyOf(q) = f
    BY <1>6, <2>1 DEF Revoke, Overlap, UnderWay, Holder, FamilyOf
  <2> QED
    BY <1>6, <2>1 DEF Revoke
<1>7. ASSUME NEW u \in Rows, session[u].family \in ended', Usable(u)'
      PROVE  session[u].family \in ended \union overlapped'
  <2>1. CASE session[u].family = f /\ Usable(t)
    <3>1. u # t /\ Usable(u)
      BY <1>5, <1>7, RevokedTable DEF SessionsInv, Revoke, Usable, Shrinks
    <3> QED
      BY <1>2, <2>1, <3>1 DEF SessionsInv, OneUsablePerFamily
  <2> QED
    BY <1>7, <2>1 DEF Revoke
<1> QED
  BY <1>2, <1>3, <1>4, <1>5, <1>6, <1>7, ShrinkStep

\* Time makes rows unusable, whoever holds them.
LEMMA ExpireStep == ASSUME SessionsInv, NEW t \in Rows, Expire(t) PROVE SessionsInv'
<1> DEFINE v == [session[t] EXCEPT !.expired = TRUE]
<1>1. session[t] \in Row
  BY DEF SessionsInv, TypeOK, Rows
<1>2. /\ v \in Row /\ v.family = session[t].family /\ v.used = session[t].used
      /\ v.expired
  BY <1>1 DEF Row
<1>3. session' = [session EXCEPT ![t] = v]
  BY DEF Expire
<1> HIDE DEF v
<1>4. /\ session' \in Seq(Row) /\ Len(session') = Len(session)
      /\ session'[t] = v /\ \A u \in Rows \ {t} : session'[u] = session[u]
  BY <1>2, <1>3, EditedTable DEF SessionsInv
<1>5. TypeOK'
  BY <1>4 DEF SessionsInv, TypeOK, Expire
<1>6. HoldersStay
  BY DEF Expire, HoldersStay
<1>7. Shrinks
  BY <1>2, <1>4 DEF Shrinks, Usable
<1> QED
  BY <1>5, <1>6, <1>7, ShrinkStep DEF Expire, SessionsInv, EndedHasNone, Shrinks

\* A request that stops leaves the table as it is.
LEMMA AbandonStep == ASSUME SessionsInv, NEW r \in Request, Abandon(r) PROVE SessionsInv'
<1>1. TypeOK'
  BY RowsAreNumbers DEF SessionsInv, TypeOK, Abandon, Leave, Idle
<1>2. HoldersStay
  BY DEF SessionsInv, TypeOK, Abandon, Leave, Idle, HoldersStay
<1>3. Shrinks
  BY UnchangedShrinks DEF SessionsInv, Abandon
<1> QED
  BY <1>1, <1>2, <1>3, ShrinkStep DEF Abandon, SessionsInv, EndedHasNone, Shrinks

\* A new row and a request that is answered keep the types.
LEMMA GrownType ==
  ASSUME TypeOK, NEW f, Grows(f), Len(session) < MaxSessions, NEW r \in Request,
         Leave(r), UNCHANGED <<ended, overlapped>>
  PROVE  TypeOK'
<1>1. Len(session) \in Nat /\ Len(session') = Len(session) + 1
  BY RowsAreNumbers DEF Grows
<1>2. \A q \in Request : request[q].row \in 0..Len(session')
  BY <1>1 DEF TypeOK
<1>3. request' \in [Request -> [stage : {"idle", "limit", "issue", "rotate", "replay"},
                              row : 0..Len(session')]]
  BY <1>1, <1>2 DEF TypeOK, Leave, Idle
<1>4. ended' \subseteq 1..Len(session') /\ overlapped' \subseteq 1..Len(session')
  BY <1>1 DEF TypeOK
<1> QED
  BY <1>1, <1>3, <1>4, RefreshTokensAssumption DEF TypeOK, Grows, RefreshTokensAssumption

\* A login starts a family that no row, request or mark can have.
LEMMA IssueSessionStep ==
  ASSUME SessionsInv, NEW r \in Request, IssueSession(r)
  PROVE  SessionsInv'
<1> DEFINE f == Len(session) + 1
           T == Revoked({request[r].row})
<1>1. f \in 1..MaxSessions /\ f \in 1..(Len(session) + 1) /\ f \notin Rows
  BY RowsAreNumbers, RefreshTokensAssumption
     DEF SessionsInv, IssueSession, RefreshTokensAssumption
<1>2. \A t \in Rows : session[t].family # f
  BY <1>1, FamiliesAreRows DEF SessionsInv
<1>3. /\ T \in Seq(Row)
      /\ Len(T) = Len(session)
      /\ \A t \in Rows : /\ T[t].family = session[t].family
                         /\ session[t].used => T[t].used
                         /\ T[t].used => session[t].used
                         /\ session[t].expired => T[t].expired
                         /\ session[t].revoked => T[t].revoked
  BY RevokedTable DEF SessionsInv
<1>4. session' = Append(T, NewRow(f))
  BY DEF IssueSession
<1> HIDE DEF T
<1>5. Grows(f)
  BY <1>1, <1>3, <1>4, AppendingGrows DEF SessionsInv
<1>6. TypeOK'
  BY <1>1, <1>5, GrownType DEF SessionsInv, IssueSession
<1>7. HoldersStay
  BY DEF SessionsInv, TypeOK, IssueSession, Leave, Idle, HoldersStay
<1>8. \A q \in Request : Holder(q) => FamilyOf(q) # f
  BY <1>2 DEF Holder, FamilyOf, SessionsInv, RequestsOK
<1>9. f \notin ended
  BY <1>1, RowsAreNumbers DEF SessionsInv, TypeOK
<1> QED
  BY <1>1, <1>2, <1>5, <1>6, <1>7, <1>8, <1>9, GrowStep DEF IssueSession

\* A refresh uses the family's usable row and adds the next.
LEMMA RotateStep == ASSUME SessionsInv, NEW r \in Request, Rotate(r) PROVE SessionsInv'
<1> DEFINE t == request[r].row
           f == session[t].family
           T == Consumed(t)
<1>1. t \in Rows /\ f \in Rows /\ Holder(r)
  BY FamiliesAreRows DEF SessionsInv, RequestsOK, Rotate, Holder
<1>2. f \in 1..MaxSessions /\ f \in 1..(Len(session) + 1)
  BY <1>1, RowsAreNumbers, RefreshTokensAssumption
     DEF SessionsInv, Rotate, RefreshTokensAssumption
<1>3. /\ T \in Seq(Row)
      /\ Len(T) = Len(session)
      /\ \A u \in Rows : /\ T[u].family = session[u].family
                         /\ session[u].used => T[u].used
                         /\ T[u].used => session[u].used \/ session[u].family = f
                         /\ session[u].revoked => T[u].revoked
                         /\ session[u].expired => T[u].expired
      /\ T[t].used
  <2> DEFINE v == [session[t] EXCEPT !.used = TRUE]
  <2>1. session[t] \in Row
    BY <1>1 DEF SessionsInv, TypeOK, Rows
  <2>2. /\ v \in Row /\ v.family = session[t].family /\ v.used
        /\ v.revoked = session[t].revoked /\ v.expired = session[t].expired
    BY <2>1 DEF Row
  <2>3. T = [session EXCEPT ![t] = v]
    BY DEF Consumed
  <2> HIDE DEF v
  <2>4. /\ T \in Seq(Row) /\ Len(T) = Len(session)
        /\ T[t] = v /\ \A u \in Rows \ {t} : T[u] = session[u]
    BY <1>1, <2>2, <2>3, EditedTable DEF SessionsInv
  <2> QED
    BY <1>1, <2>2, <2>4
<1>4. session' = Append(T, NewRow(f))
  BY DEF Rotate
<1>5. session'[t].used
  BY <1>1, <1>3, <1>4, RowsAreNumbers DEF SessionsInv
<1> HIDE DEF T
<1>6. Grows(f)
  BY <1>2, <1>3, <1>4, AppendingGrows DEF SessionsInv
<1>7. TypeOK'
  BY <1>6, GrownType DEF SessionsInv, Rotate
<1>8. HoldersStay
  BY DEF SessionsInv, TypeOK, Rotate, Leave, Idle, HoldersStay
<1>9. ASSUME NEW q \in Request, Holder(q), Holder(q)', FamilyOf(q) = f
      PROVE  f \in overlapped
  <2>1. q # r
    BY <1>9 DEF Holder, Rotate, Leave, Idle, SessionsInv, TypeOK
  <2> QED
    BY <1>1, <1>9, <2>1 DEF SessionsInv, RequestsOK, FamilyOf
<1>10. ASSUME f \notin overlapped
       PROVE  f \notin ended /\ \A u \in Rows : session[u].family = f => ~Usable(u)'
  <2>1. f \notin ended /\ \A u \in Rows : session[u].family = f /\ Usable(u) => u = t
    BY <1>10 DEF SessionsInv, RequestsOK, FamilyOf, Rotate
  <2> QED
    BY <1>5, <1>6, <2>1 DEF Grows, Usable
<1> HIDE DEF f
<1> QED
  BY <1>2, <1>6, <1>7, <1>8, <1>9, <1>10, GrowStep DEF Rotate

\* A token that is presented is its family's usable row, or a replay.
LEMMA PresentTokenStep ==
  ASSUME SessionsInv, NEW r \in Request, NEW t \in Rows, PresentToken(r, t) PROVE SessionsInv'
<1> DEFINE f == session[t].family
<1>1. f \in Rows
  BY FamiliesAreRows DEF SessionsInv
<1>2. /\ UNCHANGED <<session, ended>>
      /\ overlapped \subseteq overlapped'
      /\ overlapped' \subseteq Rows
  BY <1>1, RowsAreNumbers DEF PresentToken, Overlap, SessionsInv, TypeOK
<1>3. PICK stage \in {"rotate", "replay"} :
        /\ request' = [request EXCEPT ![r] = [stage |-> stage, row |-> t]]
        /\ stage = "rotate" => Usable(t)
  BY DEF PresentToken, Usable
<1>4. TypeOK'
  BY <1>2, <1>3, RowsAreNumbers DEF SessionsInv, TypeOK
<1>5. \A q \in Request \ {r} : request'[q] = request[q]
  BY <1>3 DEF SessionsInv, TypeOK
<1>6. request'[r].stage = stage /\ request'[r].row = t /\ FamilyOf(r)' = f
  BY <1>2, <1>3 DEF SessionsInv, TypeOK, FamilyOf
<1>7. \A q \in Request \ {r} : Holder(q) /\ FamilyOf(q) = f => f \in overlapped'
  BY DEF PresentToken, Overlap, UnderWay, Holder, FamilyOf
<1>8. RequestsOK'
  <2>1. \A q \in Request : request'[q].stage \in {"limit", "rotate", "replay"} =>
          request'[q].row \in Rows'
    BY <1>2, <1>5, <1>6 DEF SessionsInv, RequestsOK, Rows
  <2>2. \A q \in Request \ {r} : (Holder(q)' <=> Holder(q)) /\ FamilyOf(q)' = FamilyOf(q)
    BY <1>2, <1>5 DEF Holder, FamilyOf
  <2>3. ASSUME NEW p \in Request, NEW q \in Request, p # q, Holder(p)', Holder(q)',
               FamilyOf(p)' = FamilyOf(q)'
        PROVE  FamilyOf(q)' \in overlapped'
    BY <1>2, <1>6, <1>7, <2>2, <2>3 DEF SessionsInv, RequestsOK
  <2>4. ASSUME NEW q \in Request, request'[q].stage = "rotate",
               FamilyOf(q)' \notin overlapped'
        PROVE  /\ FamilyOf(q)' \notin ended'
               /\ \A u \in Rows' : session'[u].family = FamilyOf(q)' /\ Usable(u)' =>
                    u = request'[q].row
    <3>1. CASE q = r
      BY <1>2, <1>3, <1>6, <2>4, <3>1
         DEF SessionsInv, EndedHasNone, OneUsablePerFamily, Rows, Usable
    <3>2. CASE q # r
      BY <1>2, <1>5, <2>2, <2>4, <3>2 DEF SessionsInv, RequestsOK, Rows, Usable
    <3> QED
      BY <3>1, <3>2
  <2> QED
    BY <2>1, <2>3, <2>4 DEF RequestsOK
<1> QED
  BY <1>2, <1>4, <1>8 DEF SessionsInv, FamiliesOK, UsedHasSuccessor, OneUsablePerFamily,
                          EndedHasNone, Rows, Usable

-----------------------------------------------------------------------------
(* The theorems.                                                           *)

\* SessionsInv is an invariant, whatever requests do, in which order, and die.
THEOREM SessionsInvariance == Spec => []SessionsInv
<1>1. Init => SessionsInv
  BY InitSessionsInv
<1>2. SessionsInv /\ [Next]_vars => SessionsInv'
  <2> SUFFICES ASSUME SessionsInv, [Next]_vars PROVE SessionsInv'
    OBVIOUS
  <2>1. CASE UNCHANGED vars
    BY <2>1 DEF vars, SessionsInv, TypeOK, FamiliesOK, RequestsOK, Holder, FamilyOf,
                UsedHasSuccessor, OneUsablePerFamily, EndedHasNone, Rows, Usable
  <2>2. ASSUME NEW r \in Request,
               \/ BeginLogin(r) \/ RevokeOldest(r) \/ IssueSession(r)
               \/ RevokeFamily(r) \/ Rotate(r) \/ Abandon(r)
        PROVE  SessionsInv'
    BY <2>2, BeginLoginStep, RevokeOldestStep, IssueSessionStep, RevokeFamilyStep,
       RotateStep, AbandonStep
  <2>3. ASSUME NEW r \in Request, NEW t \in Rows, PresentToken(r, t) PROVE SessionsInv'
    BY <2>3, PresentTokenStep
  <2>4. ASSUME NEW t \in Rows, Revoke(t) \/ Expire(t) PROVE SessionsInv'
    BY <2>4, RevokeStep, ExpireStep
  <2> QED
    BY <2>1, <2>2, <2>3, <2>4 DEF Next
<1> QED
  BY <1>1, <1>2, PTL DEF Spec

\* The rows, requests and marks keep their types.
THEOREM TypeCorrect == Spec => []TypeOK
<1>1. SessionsInv => TypeOK
  BY DEF SessionsInv
<1> QED
  BY <1>1, SessionsInvariance, PTL

\* A used token always has a later one in its family.
THEOREM UsedAreReplaced == Spec => []UsedHasSuccessor
<1>1. SessionsInv => UsedHasSuccessor
  BY DEF SessionsInv
<1> QED
  BY <1>1, SessionsInvariance, PTL

\* A family without overlapping requests has one usable token at most.
THEOREM TokensAreSingleUse == Spec => []OneUsablePerFamily
<1>1. SessionsInv => OneUsablePerFamily
  BY DEF SessionsInv
<1> QED
  BY <1>1, SessionsInvariance, PTL

\* A family that has ended without overlapping requests gets no token again.
THEOREM EndIsFinal == Spec => []EndedHasNone
<1>1. SessionsInv => EndedHasNone
  BY DEF SessionsInv
<1> QED
  BY <1>1, SessionsInvariance, PTL

-----------------------------------------------------------------------------
(* A member's permissions (PermissionCache).  The set a request has seen   *)
(* can only vanish by a removal, which marks the request; writers carry    *)
(* the role they have loaded, and a removal with none of them under way    *)
(* leaves nothing of an earlier role.                                      *)

Calls == {"none", "exists", "members", "membership", "delete", "add", "expire"}

\* A request that finds the set gone after it has seen it is marked as torn.
TornOK == \A k \in Check : At(k, "members") /\ cached = {} => k \in torn

\* Who writes the set has loaded a role.
LoadedOK == \A k \in Check : check[k].call \in {"delete", "add"} => check[k].role # 0

\* Until an invalidation fails or is overtaken, all that was loaded and all that
\* is stored is of the member's role, but for the time until a change is followed
\* by its invalidation.
RaceOK == stale \/ raced \/ (Behind = {} /\ cached \subseteq {role})

PermissionInv ==
  /\ PermissionTypeOK
  /\ TornOK
  /\ LoadedOK
  /\ RaceOK
  /\ RefusedWasTorn
  /\ KeptSetExpires

\* Request k goes on to a call with a role, and the others stay where they are.
GoesTo(k, call, r) ==
  /\ check' \in [Check -> [call : Calls, role : 0..role]]
  /\ check'[k] = [call |-> call, role |-> r]
  /\ \A j \in Check \ {k} : check'[j] = check[j]

\* Each request is at a known call, with a role the member has had, or none.
LEMMA CheckIsTyped ==
  ASSUME PermissionTypeOK, NEW k \in Check
  PROVE  check[k] \in [call : Calls, role : 0..role]
  BY DEF PermissionTypeOK, Calls

\* On to another call, with the same role.
LEMMA SetCall ==
  ASSUME PermissionTypeOK, NEW k \in Check, NEW call \in Calls, GoTo(k, call)
  PROVE  GoesTo(k, call, check[k].role)
<1>1. check[k] \in [call : Calls, role : 0..role]
  BY CheckIsTyped
<1>2. [check[k] EXCEPT !.call = call] = [call |-> call, role |-> check[k].role]
  BY <1>1
<1>3. [call |-> call, role |-> check[k].role] \in [call : Calls, role : 0..role]
  BY <1>1
<1>4. check' = [check EXCEPT ![k] = [call |-> call, role |-> check[k].role]]
  BY <1>2 DEF GoTo
<1> QED
  BY <1>3, <1>4 DEF PermissionTypeOK, Calls, GoesTo

\* The request is over.
LEMMA Answered ==
  ASSUME PermissionTypeOK, NEW k \in Check, Done(k)
  PROVE  GoesTo(k, "none", 0)
<1>1. [call |-> "none", role |-> 0] \in [call : Calls, role : 0..role]
  BY DEF Calls, PermissionTypeOK
<1> QED
  BY <1>1 DEF PermissionTypeOK, Calls, GoesTo, Done

\* A role is loaded, the member's at the time.
LEMMA Loaded ==
  ASSUME PermissionTypeOK, NEW k \in Check, LoadMembership(k)
  PROVE  GoesTo(k, "delete", role)
<1>1. [call |-> "delete", role |-> role] \in [call : Calls, role : 0..role]
  BY PermissionCacheAssumption DEF Calls, PermissionTypeOK
<1> QED
  BY <1>1 DEF PermissionTypeOK, Calls, GoesTo, LoadMembership

\* A look-up that finds no set after it has seen one is torn.
LEMMA LookUpStep ==
  ASSUME PermissionInv, NEW k \in Check, Ask(k) \/ Exists(k) \/ Members(k)
  PROVE  PermissionInv'
<1>1. ASSUME Ask(k) PROVE PermissionInv'
  <2>1. GoesTo(k, "exists", check[k].role)
    BY <1>1, SetCall DEF Ask, PermissionInv, Calls
  <2>2. PermissionTypeOK'
    BY <1>1, <2>1 DEF Ask, PermissionInv, PermissionTypeOK, GoesTo, Calls
  <2> QED
    BY <1>1, <2>1, <2>2
       DEF Ask, PermissionInv, GoesTo, At, TornOK, LoadedOK, RaceOK, Behind,
           RefusedWasTorn, KeptSetExpires
<1>2. ASSUME Exists(k) PROVE PermissionInv'
  <2>1. PICK call \in {"membership", "members"} :
          GoTo(k, call) /\ (call = "members" => cached # {})
    BY <1>2 DEF Exists
  <2>2. GoesTo(k, call, check[k].role)
    BY <2>1, SetCall DEF PermissionInv, Calls
  <2>3. PermissionTypeOK'
    BY <1>2, <2>2 DEF Exists, PermissionInv, PermissionTypeOK, GoesTo, Calls
  <2> QED
    BY <1>2, <2>1, <2>2, <2>3
       DEF Exists, PermissionInv, GoesTo, At, TornOK, LoadedOK, RaceOK, Behind,
           RefusedWasTorn, KeptSetExpires
<1>3. ASSUME Members(k) PROVE PermissionInv'
  <2>1. GoesTo(k, "none", 0)
    BY <1>3, Answered DEF Members, PermissionInv
  <2>2. PermissionTypeOK'
    BY <1>3, <2>1 DEF Members, PermissionInv, PermissionTypeOK, GoesTo, Calls
  <2> QED
    BY <1>3, <2>1, <2>2
       DEF Members, PermissionInv, GoesTo, At, TornOK, LoadedOK, RaceOK, Behind,
           RefusedWasTorn, KeptSetExpires
<1> QED
  BY <1>1, <1>2, <1>3

\* A fill removes the set, adds a role that is not behind, and gives it an end.
LEMMA FillStep ==
  ASSUME PermissionInv, NEW k \in Check,
         LoadMembership(k) \/ DeleteKey(k) \/ AddMembers(k) \/ SetExpiry(k)
  PROVE  PermissionInv'
<1>1. ASSUME LoadMembership(k) PROVE PermissionInv'
  <2>1. GoesTo(k, "delete", role)
    BY <1>1, Loaded DEF PermissionInv
  <2>2. PermissionTypeOK'
    BY <1>1, <2>1 DEF LoadMembership, PermissionInv, PermissionTypeOK, GoesTo, Calls
  <2>3. role \in Nat \ {0}
    BY PermissionCacheAssumption DEF PermissionInv, PermissionTypeOK
  <2>4. RaceOK'
    BY <1>1, <2>1, <2>3 DEF LoadMembership, PermissionInv, GoesTo, RaceOK, Behind
  <2>5. TornOK' /\ LoadedOK' /\ RefusedWasTorn' /\ KeptSetExpires'
    BY <1>1, <2>1, <2>3
       DEF LoadMembership, PermissionInv, GoesTo, At, TornOK, LoadedOK, RefusedWasTorn,
           KeptSetExpires
  <2> QED
    BY <2>2, <2>4, <2>5 DEF PermissionInv
<1>2. ASSUME DeleteKey(k) PROVE PermissionInv'
  <2>1. GoesTo(k, "add", check[k].role)
    BY <1>2, SetCall DEF DeleteKey, PermissionInv, Calls
  <2>2. PermissionTypeOK'
    BY <1>2, <2>1 DEF DeleteKey, Remove, PermissionInv, PermissionTypeOK, GoesTo, Calls
  <2> QED
    BY <1>2, <2>1, <2>2
       DEF DeleteKey, Remove, PermissionInv, GoesTo, At, TornOK, LoadedOK, RaceOK, Behind,
           RefusedWasTorn,
           KeptSetExpires
<1>3. ASSUME AddMembers(k) PROVE PermissionInv'
  <2>1. GoesTo(k, "expire", check[k].role)
    BY <1>3, SetCall DEF AddMembers, PermissionInv, Calls
  <2>2. check[k].role \in 0..role /\ role \in Nat
    BY CheckIsTyped DEF PermissionInv, PermissionTypeOK
  <2>3. PermissionTypeOK'
    <3>1. check[k].role \in 1..role
      BY <1>3, <2>2 DEF AddMembers, PermissionInv, LoadedOK, At
    <3>2. cached' \subseteq 1..role
      BY <1>3, <3>1 DEF AddMembers, PermissionInv, PermissionTypeOK
    <3> QED
      BY <1>3, <2>1, <3>2 DEF AddMembers, PermissionInv, PermissionTypeOK, GoesTo, Calls
  <2>4. RaceOK'
    BY <1>3, <2>1, <2>2 DEF AddMembers, PermissionInv, GoesTo, At, RaceOK, Behind
  <2> QED
    BY <1>3, <2>1, <2>3, <2>4
       DEF AddMembers, PermissionInv, GoesTo, At, TornOK, LoadedOK, RefusedWasTorn,
           KeptSetExpires
<1>4. ASSUME SetExpiry(k) PROVE PermissionInv'
  <2>1. GoesTo(k, "none", 0)
    BY <1>4, Answered DEF SetExpiry, PermissionInv
  <2>2. PermissionTypeOK'
    BY <1>4, <2>1 DEF SetExpiry, PermissionInv, PermissionTypeOK, GoesTo, Calls
  <2>3. KeptSetExpires'
    BY <1>4 DEF SetExpiry, KeptSetExpires
  <2>4. TornOK' /\ LoadedOK' /\ RefusedWasTorn'
    BY <1>4, <2>1 DEF SetExpiry, PermissionInv, GoesTo, At, TornOK, LoadedOK, RefusedWasTorn
  <2>5. RaceOK'
    BY <1>4, <2>1 DEF SetExpiry, PermissionInv, GoesTo, RaceOK, Behind
  <2> QED
    BY <2>2, <2>3, <2>4, <2>5 DEF PermissionInv
<1> QED
  BY <1>1, <1>2, <1>3, <1>4

\* Redis or the process fails: a writer before EXPIRE has been cut short.
LEMMA FaultStep ==
  ASSUME PermissionInv, NEW k \in Check, RedisFails(k) \/ Die(k)
  PROVE  PermissionInv'
<1>1. PICK call \in {"none", "membership"}, r \in 0..role : GoesTo(k, call, r)
  <2>1. check[k].role \in 0..role /\ 0 \in 0..role
    BY CheckIsTyped DEF PermissionInv, PermissionTypeOK
  <2>2. GoTo(k, "membership") \/ Done(k)
    BY DEF RedisFails, Die
  <2> QED
    BY <2>1, <2>2, SetCall, Answered DEF PermissionInv, Calls
<1>2. /\ UNCHANGED <<role, stale, cached, timed, torn, refused, raced>>
      /\ cut' = (cut \/ At(k, "expire"))
      /\ outages' \in 0..MaxOutages
  BY PermissionCacheAssumption DEF RedisFails, Die, PermissionInv, PermissionTypeOK
<1>3. PermissionTypeOK'
  BY <1>1, <1>2 DEF PermissionInv, PermissionTypeOK, GoesTo, Calls
<1>4. KeptSetExpires'
  BY <1>1, <1>2 DEF PermissionInv, GoesTo, At, KeptSetExpires
<1>5. TornOK' /\ LoadedOK' /\ RefusedWasTorn'
  BY <1>1, <1>2 DEF PermissionInv, GoesTo, At, TornOK, LoadedOK, RefusedWasTorn
<1>6. RaceOK'
  BY <1>1, <1>2 DEF PermissionInv, GoesTo, RaceOK, Behind
<1> QED
  BY <1>3, <1>4, <1>5, <1>6 DEF PermissionInv

\* A change of the role, the end of the set, and their failures.
LEMMA RoleStep ==
  ASSUME PermissionInv, ChangeRole \/ Invalidate \/ InvalidateFails \/ Elapse
  PROVE  PermissionInv'
<1>1. ASSUME ChangeRole PROVE PermissionInv'
  <2>1. role' \in 1..MaxRoles /\ role' \in Nat /\ role' = role + 1 /\ role \in Nat
    BY <1>1, PermissionCacheAssumption DEF ChangeRole, PermissionInv, PermissionTypeOK
  <2>2. 0..role \subseteq 0..role' /\ 1..role \subseteq 1..role'
    BY <2>1
  <2>3. check' \in [Check -> [call : Calls, role : 0..role']]
    BY <1>1, <2>2 DEF ChangeRole, PermissionInv, PermissionTypeOK, Calls
  <2>4. PermissionTypeOK'
    BY <1>1, <2>1, <2>2, <2>3 DEF ChangeRole, PermissionInv, PermissionTypeOK, Calls
  <2> QED
    BY <1>1, <2>4
       DEF ChangeRole, PermissionInv, At, TornOK, LoadedOK, RaceOK, RefusedWasTorn,
           KeptSetExpires
<1>2. ASSUME Invalidate PROVE PermissionInv'
  <2>1. PermissionTypeOK'
    BY <1>2 DEF Invalidate, Remove, PermissionInv, PermissionTypeOK
  <2> QED
    BY <1>2, <2>1
       DEF Invalidate, Remove, PermissionInv, At, TornOK, LoadedOK, RaceOK, Behind,
           RefusedWasTorn,
           KeptSetExpires
<1>3. ASSUME InvalidateFails PROVE PermissionInv'
  <2>1. PermissionTypeOK'
    <3>1. {stale', timed', cut', raced'} \subseteq BOOLEAN
      BY <1>3 DEF InvalidateFails, PermissionInv, PermissionTypeOK
    <3>2. outages' \in 0..MaxOutages
      BY <1>3, PermissionCacheAssumption DEF InvalidateFails, PermissionInv, PermissionTypeOK
    <3> QED
      BY <1>3, <3>1, <3>2 DEF InvalidateFails, PermissionInv, PermissionTypeOK
  <2> QED
    BY <1>3, <2>1
       DEF InvalidateFails, PermissionInv, At, TornOK, LoadedOK, RaceOK, RefusedWasTorn,
           KeptSetExpires
<1>4. ASSUME Elapse PROVE PermissionInv'
  <2>1. PermissionTypeOK'
    BY <1>4 DEF Elapse, Remove, PermissionInv, PermissionTypeOK
  <2> QED
    BY <1>4, <2>1
       DEF Elapse, Remove, PermissionInv, At, TornOK, LoadedOK, RaceOK, Behind,
           RefusedWasTorn, KeptSetExpires
<1> QED
  BY <1>1, <1>2, <1>3, <1>4

\* PermissionInv holds, whatever overlaps, fails or expires.
THEOREM PermissionInvariance == PermissionSpec => []PermissionInv
<1>1. PermissionInit => PermissionInv
  <2> SUFFICES ASSUME PermissionInit PROVE PermissionInv
    OBVIOUS
  <2>1. PermissionTypeOK
    <3>1. role \in 1..MaxRoles /\ outages \in 0..MaxOutages /\ 0 \in 0..role
      BY PermissionCacheAssumption DEF PermissionInit
    <3>2. check \in [Check -> [call : Calls, role : 0..role]]
      BY <3>1 DEF PermissionInit, Calls
    <3> QED
      BY <3>1, <3>2 DEF PermissionInit, PermissionTypeOK, Calls
  <2>2. \A k \in Check : check[k].call = "none"
    BY DEF PermissionInit
  <2>3. RaceOK
    BY <2>2 DEF PermissionInit, RaceOK, Behind
  <2> QED
    BY <2>1, <2>2, <2>3
       DEF PermissionInit, PermissionInv, TornOK, LoadedOK, RefusedWasTorn, KeptSetExpires,
           At
<1>2. PermissionInv /\ [PermissionNext]_permissionVars => PermissionInv'
  <2> SUFFICES ASSUME PermissionInv, [PermissionNext]_permissionVars PROVE PermissionInv'
    OBVIOUS
  <2>1. CASE UNCHANGED permissionVars
    BY <2>1 DEF permissionVars, PermissionInv, PermissionTypeOK, TornOK, LoadedOK, RaceOK, Behind,
                RefusedWasTorn, KeptSetExpires, At
  <2> QED
    BY <2>1, LookUpStep, FillStep, FaultStep, RoleStep DEF PermissionNext
<1> QED
  BY <1>1, <1>2, PTL DEF PermissionSpec

\* A member is refused only if the set vanished during the look-up, whatever
\* fills, invalidations, outages and deaths there are.
THEOREM RefusalsAreTorn == PermissionSpec => []RefusedWasTorn
<1>1. PermissionInv => RefusedWasTorn
  BY DEF PermissionInv
<1> QED
  BY <1>1, PermissionInvariance, PTL

\* A set has a time to live, or a writer is about to give it one, or was cut short.
THEOREM SetsExpire == PermissionSpec => []KeptSetExpires
<1>1. PermissionInv => KeptSetExpires
  BY DEF PermissionInv
<1> QED
  BY <1>1, PermissionInvariance, PTL

\* A role that has been invalidated stays out of the set, unless that failed or met
\* a writer which had loaded it.
THEOREM RolesAreCurrent == PermissionSpec => []OldRoleWasRaced
<1>1. PermissionInv => OldRoleWasRaced
  BY DEF PermissionInv, RaceOK, OldRoleWasRaced
<1> QED
  BY <1>1, PermissionInvariance, PTL

-----------------------------------------------------------------------------
(* The window of an address (RateLimiter).  A request that counts stays in *)
(* the set as long as one that is not late may need it; so what one of the *)
(* window's requests counts are all those before it.                       *)

OnTheWay == {a \in Arrival : arrival[a] # 0}
Counted == admitted \ late

\* Times are taken in order, by one request each; one that was counted is not
\* on its way any more.
TimesOK ==
  /\ \A a \in OnTheWay : arrival[a] <= now /\ arrival[a] \notin admitted
  /\ \A a, b \in OnTheWay : arrival[a] = arrival[b] => a = b
  /\ \A s \in admitted : s <= now

\* Request a will not miss s: it is late, or s is not in its window.
NeedsNot(a, s) ==
  arrival[a] \in late \/ s + Window <= arrival[a] \/ now > arrival[a] + Slack

\* A request that counts is in the set until no request on its way needs it; the
\* set outlives its window, and the earlier requests are late.
CountedOK ==
  \A s \in Counted :
    /\ expires >= s + Window + Slack
    /\ \A a \in OnTheWay : arrival[a] < s => arrival[a] \in late
    /\ s \in stamps \/ (now >= s + Window /\ \A a \in OnTheWay : NeedsNot(a, s))

LimiterInv == LimiterTypeOK /\ TimesOK /\ CountedOK /\ WindowIsBounded

\* The requests that count in the window that ends at t.
InWindow(t) == {s \in Counted : s <= t /\ s + Window > t}

\* Times and limits are numbers.
LEMMA LimiterNumbers ==
  ASSUME LimiterTypeOK
  PROVE  /\ now \in Nat /\ expires \in Nat
         /\ \A a \in Arrival : arrival[a] \in Nat
         /\ \A s \in admitted \union stamps \union late : s \in Nat
         /\ Window \in Nat /\ Slack \in Nat /\ IpLimit \in Nat /\ MaxTime \in Nat
  BY RateLimiterAssumption DEF LimiterTypeOK, Time

\* A set of times is finite.
LEMMA TimesAreFinite == ASSUME NEW S \in SUBSET Time PROVE IsFiniteSet(S)
<1>1. IsFiniteSet(Time)
  BY FS_Interval, RateLimiterAssumption DEF Time
<1> QED
  BY <1>1, FS_Subset

\* Fewer requests, smaller windows.
LEMMA WindowsShrink ==
  ASSUME LimiterTypeOK, WindowIsBounded, Counted' \subseteq Counted
  PROVE  WindowIsBounded'
<1> SUFFICES ASSUME NEW t \in Time
             PROVE  Cardinality(InWindow(t)') <= IpLimit + 1
  BY DEF WindowIsBounded, InWindow, Counted
<1>1. Cardinality(InWindow(t)) <= IpLimit + 1
  BY DEF WindowIsBounded, InWindow, Counted
<1>2. InWindow(t)' \subseteq InWindow(t) /\ InWindow(t) \in SUBSET Time
  BY DEF InWindow, Counted, LimiterTypeOK
<1>3. IsFiniteSet(InWindow(t))
  BY <1>2, TimesAreFinite
<1>4. /\ Cardinality(InWindow(t)') \in Nat
      /\ Cardinality(InWindow(t)) \in Nat
      /\ Cardinality(InWindow(t)') <= Cardinality(InWindow(t))
  BY <1>2, <1>3, FS_Subset, FS_CardinalityType
<1> QED
  BY <1>1, <1>4, RateLimiterAssumption

\* One request more: it saw those that were in its window before it.
LEMMA WindowsGrow ==
  ASSUME LimiterTypeOK, WindowIsBounded, NEW m \in Time,
         Counted' \subseteq Counted \union {m},
         NEW S \in SUBSET Time, Cardinality(S) <= IpLimit,
         m \in Counted' => \A s \in Counted \ {m} : s < m /\ (s + Window > m => s \in S)
  PROVE  WindowIsBounded'
<1> SUFFICES ASSUME NEW t \in Time
             PROVE  Cardinality(InWindow(t)') <= IpLimit + 1
  BY DEF WindowIsBounded, InWindow, Counted
<1>1. CASE m \in InWindow(t)'
  <2>1. InWindow(t)' \subseteq S \union {m}
    <3> SUFFICES ASSUME NEW s \in InWindow(t)', s # m PROVE s \in S
      OBVIOUS
    <3>1. s \in Counted \ {m} /\ s + Window > t /\ m <= t /\ m \in Counted'
      BY <1>1 DEF InWindow
    <3>2. s \in Nat /\ m \in Nat /\ t \in Nat /\ Window \in Nat
      BY <3>1, LimiterNumbers DEF Counted, Time
    <3> QED
      BY <3>1, <3>2
  <2>2. IsFiniteSet(S) /\ Cardinality(S) \in Nat
    BY TimesAreFinite, FS_CardinalityType
  <2>3. /\ IsFiniteSet(S \union {m})
        /\ Cardinality(S \union {m}) \in Nat
        /\ Cardinality(S \union {m}) <= Cardinality(S) + 1
    <3>1. Cardinality(S \union {m}) = Cardinality(S)
          \/ Cardinality(S \union {m}) = Cardinality(S) + 1
      BY <2>2, FS_AddElement
    <3> QED
      BY <2>2, <3>1, FS_AddElement
  <2>4. /\ Cardinality(InWindow(t)') \in Nat
        /\ Cardinality(InWindow(t)') <= Cardinality(S \union {m})
    BY <2>1, <2>3, FS_Subset, FS_CardinalityType
  <2> QED
    BY <2>2, <2>3, <2>4, RateLimiterAssumption
<1>2. CASE m \notin InWindow(t)'
  <2>1. InWindow(t)' \subseteq InWindow(t) /\ InWindow(t) \in SUBSET Time
    BY <1>2 DEF InWindow, Counted, LimiterTypeOK
  <2>2. IsFiniteSet(InWindow(t))
    BY <2>1, TimesAreFinite
  <2>3. /\ Cardinality(InWindow(t)') \in Nat
        /\ Cardinality(InWindow(t)) \in Nat
        /\ Cardinality(InWindow(t)') <= Cardinality(InWindow(t))
    BY <2>1, <2>2, FS_Subset, FS_CardinalityType
  <2>4. Cardinality(InWindow(t)) <= IpLimit + 1
    BY DEF WindowIsBounded, InWindow, Counted
  <2> QED
    BY <2>3, <2>4, RateLimiterAssumption
<1> QED
  BY <1>1, <1>2

\* A request takes its time, later than all others.
LEMMA ArriveStep == ASSUME LimiterInv, NEW a \in Arrival, Arrive(a) PROVE LimiterInv'
<1>1. /\ now' = now + 1 /\ now + 1 \in 1..MaxTime
      /\ arrival'[a] = now + 1
      /\ \A b \in Arrival \ {a} : arrival'[b] = arrival[b]
      /\ UNCHANGED <<stamps, expires, admitted, late>>
  BY RateLimiterAssumption DEF Arrive, LimiterInv, LimiterTypeOK
<1>2. LimiterTypeOK'
  BY <1>1, RateLimiterAssumption DEF Arrive, LimiterInv, LimiterTypeOK
<1>3. TimesOK'
  BY <1>1, LimiterNumbers DEF LimiterInv, TimesOK, OnTheWay
<1>4. CountedOK'
  <2> SUFFICES ASSUME NEW s \in Counted
      PROVE  /\ \A b \in OnTheWay' : arrival'[b] < s => arrival'[b] \in late
             /\ s \in stamps \/ /\ now' >= s + Window
                                /\ \A b \in OnTheWay' : NeedsNot(b, s)'
    BY <1>1 DEF LimiterInv, CountedOK, Counted
  <2>1. s <= now /\ s \in Nat
    BY LimiterNumbers DEF LimiterInv, TimesOK, Counted
  <2>2. \A b \in OnTheWay' : b = a \/ (b \in OnTheWay /\ arrival'[b] = arrival[b])
    BY <1>1 DEF OnTheWay
  <2>3. \A b \in OnTheWay' : arrival'[b] < s => arrival'[b] \in late
    BY <1>1, <2>1, <2>2, LimiterNumbers DEF LimiterInv, CountedOK, OnTheWay
  <2>4. ASSUME s \notin stamps
        PROVE now' >= s + Window /\ \A b \in OnTheWay' : NeedsNot(b, s)'
    BY <1>1, <2>1, <2>2, <2>4, LimiterNumbers DEF LimiterInv, CountedOK, NeedsNot, OnTheWay
  <2> QED
    BY <2>3, <2>4
<1>5. WindowIsBounded'
  BY <1>1, WindowsShrink DEF LimiterInv, Counted
<1> QED
  BY <1>2, <1>3, <1>4, <1>5 DEF LimiterInv

\* Time passes.
LEMMA TickStep == ASSUME LimiterInv, Tick PROVE LimiterInv'
<1>1. /\ now' = now + 1 /\ now' \in 1..MaxTime
      /\ UNCHANGED <<stamps, expires, arrival, admitted, late>>
  BY RateLimiterAssumption DEF Tick, LimiterInv, LimiterTypeOK
<1>2. LimiterTypeOK'
  BY <1>1 DEF LimiterInv, LimiterTypeOK
<1>3. TimesOK'
  BY <1>1, LimiterNumbers DEF LimiterInv, TimesOK, OnTheWay
<1>4. CountedOK'
  BY <1>1, LimiterNumbers DEF LimiterInv, CountedOK, Counted, OnTheWay, NeedsNot
<1>5. WindowIsBounded'
  BY <1>1, WindowsShrink DEF LimiterInv, Counted
<1> QED
  BY <1>2, <1>3, <1>4, <1>5 DEF LimiterInv

\* A request whose transaction is not run.
LEMMA LeaveStep ==
  ASSUME LimiterInv, NEW a \in Arrival, arrival' = [arrival EXCEPT ![a] = 0],
         UNCHANGED <<now, stamps, expires, admitted, late>>
  PROVE  LimiterInv'
<1>1. OnTheWay' \subseteq OnTheWay /\ \A b \in OnTheWay' : arrival'[b] = arrival[b]
  BY DEF LimiterInv, LimiterTypeOK, OnTheWay
<1>2. LimiterTypeOK'
  BY RateLimiterAssumption DEF LimiterInv, LimiterTypeOK
<1>3. TimesOK'
  BY <1>1 DEF LimiterInv, TimesOK
<1>4. CountedOK'
  BY <1>1 DEF LimiterInv, CountedOK, Counted, NeedsNot
<1>5. WindowIsBounded'
  BY WindowsShrink DEF LimiterInv, Counted
<1> QED
  BY <1>2, <1>3, <1>4, <1>5 DEF LimiterInv

\* The transaction of a request, whether it is let through or not.
Transaction(a) ==
  /\ a \in OnTheWay
  /\ stamps' = Within(arrival[a]) \union {arrival[a]}
  /\ expires' = now + Window + Slack
  /\ late' = Delayed(arrival[a])
  /\ arrival' = [arrival EXCEPT ![a] = 0]
  /\ now' = now
  /\ admitted \subseteq admitted' /\ admitted' \subseteq admitted \union {arrival[a]}

\* It keeps the types, and takes the request off its way.
LEMMA TransactionType ==
  ASSUME LimiterTypeOK, NEW a \in Arrival, Transaction(a)
  PROVE  /\ LimiterTypeOK'
         /\ OnTheWay' = OnTheWay \ {a}
         /\ \A b \in OnTheWay' : arrival'[b] = arrival[b]
         /\ arrival[a] \in Time
         /\ Within(arrival[a]) \in SUBSET Time
<1> DEFINE t == arrival[a]
<1>1. t \in Time
  BY RateLimiterAssumption DEF Transaction, OnTheWay, LimiterTypeOK, Time
<1>2. Within(t) \in SUBSET Time
  BY DEF Within, Live, LimiterTypeOK
<1>3. Delayed(t) \in SUBSET Time
  <2>1. \A b \in Arrival : 0 < arrival[b] => arrival[b] \in Time
    BY RateLimiterAssumption DEF LimiterTypeOK, Time
  <2>2. late \subseteq Time
    BY DEF LimiterTypeOK
  <2> HIDE DEF t
  <2> QED
    BY <1>1, <2>1, <2>2 DEF Delayed
<1>4. expires' \in 0..(MaxTime + Window + Slack)
  BY RateLimiterAssumption DEF Transaction, LimiterTypeOK
<1>5. /\ arrival' \in [Arrival -> 0..MaxTime]
      /\ OnTheWay' = OnTheWay \ {a}
      /\ \A b \in OnTheWay' : arrival'[b] = arrival[b]
  BY RateLimiterAssumption DEF Transaction, LimiterTypeOK, OnTheWay
<1> QED
  BY <1>1, <1>2, <1>3, <1>4, <1>5 DEF Transaction, LimiterTypeOK

\* What is not late then was not late before, is not overtaken, and came in time.
LEMMA TransactionLate ==
  ASSUME LimiterTypeOK, NEW a \in Arrival, Transaction(a)
  PROVE  /\ late \subseteq late'
         /\ \A b \in OnTheWay : arrival[b] < arrival[a] => arrival[b] \in late'
         /\ arrival[a] \notin late' => ~(now > arrival[a] + Slack)
<1> DEFINE t == arrival[a]
<1>1. late' = Delayed(t)
  BY DEF Transaction
<1>2. \A b \in OnTheWay : b \in Arrival /\ 0 < arrival[b]
  BY DEF OnTheWay, LimiterTypeOK
<1> HIDE DEF t
<1>3. \A b \in OnTheWay : arrival[b] < t => arrival[b] \in Delayed(t)
  BY <1>2 DEF Delayed
<1>4. late \subseteq Delayed(t) /\ (now > t + Slack => t \in Delayed(t))
  BY DEF Delayed
<1> QED
  BY <1>1, <1>3, <1>4 DEF t

\* It keeps the invariant if nobody is let through beyond the limit.
LEMMA TransactionStep ==
  ASSUME LimiterInv, NEW a \in Arrival, Transaction(a),
         arrival[a] \in admitted' => Cardinality(Within(arrival[a])) <= IpLimit
  PROVE  LimiterInv'
<1> DEFINE t == arrival[a]
<1>1. /\ LimiterTypeOK'
      /\ OnTheWay' = OnTheWay \ {a}
      /\ \A b \in OnTheWay' : arrival'[b] = arrival[b]
      /\ t \in Time
      /\ Within(t) \in SUBSET Time
  BY TransactionType DEF LimiterInv
<1>2. /\ late \subseteq late'
      /\ \A b \in OnTheWay : arrival[b] < t => arrival[b] \in late'
      /\ t \notin late' => ~(now > t + Slack)
  BY TransactionLate DEF LimiterInv
<1>3. /\ t \in Nat /\ t <= now /\ now \in Nat /\ t \notin admitted
      /\ Window \in Nat /\ Slack \in Nat
  BY LimiterNumbers DEF LimiterInv, TimesOK, Transaction
<1>4. Counted' \subseteq Counted \union {t}
  BY <1>2 DEF Counted, Transaction
<1>5. TimesOK'
  BY <1>1, <1>3 DEF LimiterInv, TimesOK, Transaction
<1>6. CountedOK'
  <2>1. ASSUME NEW s \in Counted'
        PROVE  /\ expires' >= s + Window + Slack
               /\ \A b \in OnTheWay' : arrival'[b] < s => arrival'[b] \in late'
               /\ \/ s \in stamps'
                  \/ now' >= s + Window /\ \A b \in OnTheWay' : NeedsNot(b, s)'
    <3>1. s \in Nat /\ s <= now
      BY <1>3, <1>4, LimiterNumbers DEF LimiterInv, TimesOK, Counted
    <3>2. expires' >= s + Window + Slack
      BY <1>3, <3>1 DEF Transaction
    <3>3. CASE s = t
      BY <1>1, <1>2, <3>2, <3>3 DEF Transaction
    <3>4. CASE s # t
      <4>1. s \in Counted
        BY <1>4, <3>4
      <4>2. \A b \in OnTheWay' : arrival'[b] < s => arrival'[b] \in late'
        BY <1>1, <1>2, <4>1 DEF LimiterInv, CountedOK
      <4>3. ASSUME s \notin stamps'
            PROVE now' >= s + Window /\ \A b \in OnTheWay' : NeedsNot(b, s)'
        <5>1. now' = now /\ expires \in Nat /\ expires >= s + Window + Slack
          BY <4>1, LimiterNumbers DEF LimiterInv, CountedOK, Transaction
        <5>2. CASE s \notin stamps
          BY <1>1, <1>2, <4>1, <5>1, <5>2 DEF LimiterInv, CountedOK, NeedsNot
        <5>3. CASE now >= expires
          <6>1. now >= s + Window + Slack
            BY <1>3, <3>1, <5>1, <5>3
          <6>2. ASSUME NEW b \in OnTheWay' PROVE NeedsNot(b, s)'
            <7>1. arrival'[b] = arrival[b] /\ arrival[b] \in Nat
              BY <1>1, <6>2, LimiterNumbers DEF LimiterInv, OnTheWay
            <7> QED
              BY <1>3, <3>1, <5>1, <6>1, <7>1 DEF NeedsNot
          <6> QED
            BY <1>3, <3>1, <5>1, <6>1, <6>2
        <5>4. CASE s + Window <= t
          <6>1. ASSUME NEW b \in OnTheWay' PROVE NeedsNot(b, s)'
            <7>1. arrival'[b] = arrival[b] /\ arrival[b] \in Nat /\ b \in OnTheWay
              BY <1>1, <6>1, LimiterNumbers DEF LimiterInv, OnTheWay
            <7>2. CASE arrival[b] < t
              BY <1>2, <7>1, <7>2 DEF NeedsNot
            <7>3. CASE arrival[b] >= t
              BY <1>3, <3>1, <5>4, <7>1, <7>3 DEF NeedsNot
            <7> QED
              BY <1>3, <7>1, <7>2, <7>3
          <6> QED
            BY <1>3, <3>1, <5>1, <5>4, <6>1
        <5>5. s \notin Within(t)
          BY <4>3 DEF Transaction
        <5> QED
          BY <1>3, <3>1, <5>1, <5>2, <5>3, <5>4, <5>5 DEF Within, Live
      <4> QED
        BY <3>2, <4>2, <4>3
    <3> QED
      BY <3>3, <3>4
  <2> QED
    BY <2>1 DEF CountedOK
<1>7. WindowIsBounded'
  <2>1. CASE t \notin Counted'
    <3>1. Counted' \subseteq Counted
      BY <1>4, <2>1
    <3> QED
      BY <3>1, WindowsShrink DEF LimiterInv
  <2>2. CASE t \in Counted'
    <3>1. t \notin late' /\ t \notin late /\ now <= t + Slack /\ Cardinality(Within(t)) <= IpLimit
      BY <1>2, <1>3, <2>2 DEF Counted
    <3>2. ASSUME NEW s \in Counted \ {t} PROVE s < t /\ (s + Window > t => s \in Within(t))
      <4>1. s \in Nat /\ expires \in Nat /\ expires >= s + Window + Slack
        BY <3>2, LimiterNumbers DEF LimiterInv, CountedOK, Counted
      <4>2. s < t
        BY <1>3, <3>1, <3>2, <4>1 DEF LimiterInv, CountedOK, Transaction
      <4>3. ASSUME s + Window > t PROVE s \in Within(t)
        <5>1. ~NeedsNot(a, s)
          BY <1>3, <3>1, <4>1, <4>3 DEF NeedsNot
        <5>2. s \in stamps
          BY <3>2, <5>1 DEF LimiterInv, CountedOK, Transaction
        <5>3. ~(now >= expires)
          BY <1>3, <3>1, <4>1, <4>3
        <5> QED
          BY <4>3, <5>2, <5>3 DEF Within, Live
      <4> QED
        BY <4>2, <4>3
    <3> HIDE DEF t
    <3> QED
      BY <1>1, <1>4, <3>1, <3>2, WindowsGrow DEF LimiterInv
  <2> QED
    BY <2>1, <2>2
<1> QED
  BY <1>1, <1>5, <1>6, <1>7 DEF LimiterInv

\* A request that is counted, and let through unless there are too many.
LEMMA CountStep == ASSUME LimiterInv, NEW a \in Arrival, Count(a) PROVE LimiterInv'
<1> DEFINE n == Cardinality(Within(arrival[a]))
<1>1. Transaction(a)
  BY DEF Count, Transaction, OnTheWay
<1>2. n \in Nat /\ IpLimit \in Nat
  <2>1. Within(arrival[a]) \in SUBSET Time
    BY <1>1, TransactionType DEF LimiterInv
  <2> QED
    BY <2>1, TimesAreFinite, FS_CardinalityType, RateLimiterAssumption
<1>3. arrival[a] \notin admitted
  BY <1>1 DEF LimiterInv, TimesOK, Transaction
<1>4. admitted' = IF n > IpLimit THEN admitted ELSE admitted \union {arrival[a]}
  BY DEF Count
<1> HIDE DEF n
<1>5. arrival[a] \in admitted' => n <= IpLimit
  BY <1>2, <1>3, <1>4
<1> QED
  BY <1>1, <1>5, TransactionStep DEF n

\* A request whose transaction fails, before or after it was done.
LEMMA OutageStep == ASSUME LimiterInv, NEW a \in Arrival, Outage(a) PROVE LimiterInv'
<1>1. CASE UNCHANGED <<stamps, expires, late>>
  BY <1>1, LeaveStep DEF Outage
<1>2. CASE ~UNCHANGED <<stamps, expires, late>>
  <2>1. Transaction(a)
    BY <1>2 DEF Outage, Transaction, OnTheWay
  <2>2. arrival[a] \notin admitted'
    BY <2>1 DEF LimiterInv, TimesOK, Transaction, Outage
  <2> QED
    BY <2>1, <2>2, TransactionStep
<1> QED
  BY <1>1, <1>2

\* LimiterInv holds, whatever the delays and outages.
THEOREM LimiterInvariance == LimiterSpec => []LimiterInv
<1>1. LimiterInit => LimiterInv
  <2> SUFFICES ASSUME LimiterInit PROVE LimiterInv
    OBVIOUS
  <2>1. LimiterTypeOK /\ TimesOK /\ CountedOK
    BY RateLimiterAssumption
       DEF LimiterInit, LimiterTypeOK, TimesOK, CountedOK, Counted, OnTheWay
  <2>2. ASSUME NEW t \in Time
        PROVE  Cardinality({s \in admitted \ late : s <= t /\ s + Window > t}) <= IpLimit + 1
    <3>1. {s \in admitted \ late : s <= t /\ s + Window > t} = {}
      BY DEF LimiterInit
    <3> QED
      BY <3>1, FS_EmptySet, RateLimiterAssumption
  <2> QED
    BY <2>1, <2>2 DEF LimiterInv, WindowIsBounded
<1>2. LimiterInv /\ [LimiterNext]_limiterVars => LimiterInv'
  <2> SUFFICES ASSUME LimiterInv, [LimiterNext]_limiterVars PROVE LimiterInv'
    OBVIOUS
  <2>1. CASE UNCHANGED limiterVars
    <3>1. UNCHANGED <<now, stamps, expires, arrival, admitted, late>>
      BY <2>1 DEF limiterVars
    <3>2. LimiterTypeOK' /\ TimesOK' /\ CountedOK'
      BY <3>1 DEF LimiterInv, LimiterTypeOK, TimesOK, CountedOK, Counted, OnTheWay, NeedsNot
    <3>3. WindowIsBounded'
      BY <3>1 DEF LimiterInv, WindowIsBounded
    <3> QED
      BY <3>2, <3>3 DEF LimiterInv
  <2> QED
    BY <2>1, ArriveStep, CountStep, OutageStep, TickStep DEF LimiterNext
<1> QED
  BY <1>1, <1>2, PTL DEF LimiterSpec

\* No window has more than the limit and one of the requests that count.
THEOREM WindowsAreBounded == LimiterSpec => []WindowIsBounded
<1>1. LimiterInv => WindowIsBounded
  BY DEF LimiterInv
<1> QED
  BY <1>1, LimiterInvariance, PTL

-----------------------------------------------------------------------------
(* The parts together.                                                     *)

\* The four parts at once, in any interleaving or at the same time.
Parts == Spec /\ AccountSpec /\ PermissionSpec /\ LimiterSpec

\* What they guarantee.
Promises ==
  /\ UsedHasSuccessor /\ OneUsablePerFamily /\ EndedHasNone
  /\ WaitingIsVerifiable /\ VerifiedItsPassword /\ SessionsShareWorkspace
  /\ RefusedWasTorn /\ KeptSetExpires /\ OldRoleWasRaced
  /\ WindowIsBounded

\* Letting one part move in each behaviour is one way to put them together: each
\* step is a step of one part and leaves the others alone.
THEOREM PartsAreImplemented == IdentitySpec => Parts
<1>1. IdentityInit => Init /\ AccountInit /\ PermissionInit /\ LimiterInit
  BY DEF IdentityInit
<1>2. ASSUME [IdentityNext]_identityVars
      PROVE  /\ [Next]_vars
             /\ [AccountNext]_accountVars
             /\ [PermissionNext]_permissionVars
             /\ [LimiterNext]_limiterVars
  BY <1>2 DEF IdentityNext, identityVars, SessionStep, AccountStep, PermissionStep, LimiterStep
<1> QED
  BY <1>1, <1>2, PTL DEF IdentitySpec, Parts, Spec, AccountSpec, PermissionSpec, LimiterSpec

\* However the parts are put together, the promises of each hold: no property of
\* one depends on which of them moves.
THEOREM PromisesAreKept == Parts => []Promises
<1>1. UsedHasSuccessor /\ OneUsablePerFamily /\ EndedHasNone /\ WaitingIsVerifiable
      /\ VerifiedItsPassword /\ SessionsShareWorkspace /\ RefusedWasTorn /\ KeptSetExpires
      /\ OldRoleWasRaced /\ WindowIsBounded => Promises
  BY DEF Promises
<1> QED
  BY <1>1, UsedAreReplaced, TokensAreSingleUse, EndIsFinal, NobodyIsLockedOut,
     PasswordIsTheVerifiedOne, WorkspaceIsUnique, RefusalsAreTorn, SetsExpire,
     RolesAreCurrent, WindowsAreBounded, PTL DEF Parts

\* All that the run of Identity checks, whichever part moves.
THEOREM IdentityKeepsPromises == IdentitySpec => []Promises
  BY PartsAreImplemented, PromisesAreKept, PTL

\* Every part keeps its type.
THEOREM IdentityTypeCorrect == IdentitySpec => []IdentityTypeOK
<1>1. TypeOK /\ AccountTypeOK /\ PermissionInv /\ LimiterInv => IdentityTypeOK
  BY DEF IdentityTypeOK, PermissionInv, LimiterInv
<1> QED
  BY <1>1, PartsAreImplemented, TypeCorrect, AccountTypeCorrect, PermissionInvariance,
     LimiterInvariance, PTL DEF Parts

=============================================================================
