---------------------------- MODULE AccountsProofs ----------------------------
(***************************************************************************)
(* Proofs about Accounts, for every number of requests and registrations.  *)
(* As long as an account waits for its verification there is one           *)
(* invitation, and whoever renews the registration has it in hand; and as  *)
(* long as no request overtook another there is one request at most that   *)
(* will write, and nothing is pending once there is a workspace.           *)
(***************************************************************************)
EXTENDS Accounts, TLAPS

Stage(c) == handler[c].stage

\* What a request that is under way may rely on.
HandlersOK ==
  \A c \in Client :
    /\ Stage(c) \in {"renew", "renewing", "verify", "link", "session"} => user.known
    /\ Stage(c) \in {"create", "renew", "renewing"} => handler[c].token # 0
    /\ Stage(c) = "verify" => handler[c].row # 0
    /\ Stage(c) = "session" => user.active

\* What an account's state says about its rows.
AccountOK ==
  /\ ~user.known =>
       ~user.active /\ ~user.linked /\ invitation = <<>> /\ workspaces = 0
  /\ user.linked => user.active
  /\ user.active => workspaces # 0 \/ user.linked
  /\ 0 \in claims => user.linked

\* Before the verification.
WaitingOK ==
  user.known /\ ~user.active =>
    /\ Len(invitation) = 1
    /\ ~invitation[1].accepted
    /\ invitation[1].token = user.password
    /\ \A c \in Client : Stage(c) = "renewing" => handler[c].row = 1

\* What holds until a request overtakes another.
InTurn ==
  /\ \A c, d \in Writers : c = d
  /\ Len(invitation) <= 1
  /\ \A i \in DOMAIN invitation : invitation[i].token = user.password
  /\ workspaces <= 1
  /\ workspaces # 0 => Pending = {}
  /\ \A c \in Client :
       /\ Stage(c) \in {"renew", "renewing"} => Pending # {}
       /\ Stage(c) = "renewing" => handler[c].row # 0
       /\ Stage(c) = "verify" => handler[c].row \in Pending

IInv ==
  /\ AccountTypeOK
  /\ HandlersOK
  /\ AccountOK
  /\ WaitingOK
  /\ overtaken \/ InTurn

-----------------------------------------------------------------------------
(* Types.                                                                  *)

Stages == {"idle", "create", "renew", "renewing", "verify", "link", "provision", "session"}

\* A request of n registrations and m invitations.
Requests(n, m) == [stage : Stages, token : 0..n, row : 0..m]

\* The invitations are numbered from 1.
LEMMA InvitationsAreNumbers ==
  ASSUME AccountTypeOK
  PROVE  /\ DOMAIN invitation = 1..Len(invitation)
         /\ Len(invitation) \in Nat
         /\ tokens \in Nat
         /\ \A i \in DOMAIN invitation : invitation[i] \in Invitation
  BY AccountsAssumption DEF AccountTypeOK

\* A request that is replaced or goes on is one, with no fewer rows than before.
LEMMA RequestsAreTyped ==
  ASSUME AccountTypeOK, tokens' \in Nat, tokens' >= tokens,
         Len(invitation') \in Nat, Len(invitation') >= Len(invitation),
         NEW c \in Client, NEW h \in Requests(tokens', Len(invitation')),
         handler' = [handler EXCEPT ![c] = h]
  PROVE  handler' \in [Client -> Requests(tokens', Len(invitation'))]
<1>1. handler \in [Client -> Requests(tokens, Len(invitation))]
  BY DEF AccountTypeOK, Requests, Stages
<1>2. \A d \in Client : handler[d] \in Requests(tokens', Len(invitation'))
  BY <1>1, InvitationsAreNumbers DEF Requests
<1> QED
  BY <1>1, <1>2

\* A row that is renewed.
LEMMA RenewedInvitations ==
  ASSUME AccountTypeOK, NEW i \in DOMAIN invitation, NEW t \in 1..tokens
  PROVE  LET T == [invitation EXCEPT ![i] = [@ EXCEPT !.token = t, !.expired = FALSE]]
         IN  /\ T \in Seq(Invitation)
             /\ Len(T) = Len(invitation)
             /\ T[i].token = t
             /\ T[i].accepted = invitation[i].accepted
             /\ \A j \in DOMAIN invitation \ {i} : T[j] = invitation[j]
<1> DEFINE T == [invitation EXCEPT ![i] = [@ EXCEPT !.token = t, !.expired = FALSE]]
           v == [token |-> t, accepted |-> invitation[i].accepted, expired |-> FALSE]
<1>1. v \in Invitation
  BY InvitationsAreNumbers DEF Invitation
<1>2. T[i] = v
  BY InvitationsAreNumbers DEF Invitation
<1>3. \A j \in DOMAIN invitation : T[j] \in Invitation
  BY <1>1, <1>2, InvitationsAreNumbers
<1>4. T \in [1..Len(invitation) -> Invitation]
  BY <1>3, InvitationsAreNumbers
<1>5. T \in Seq(Invitation) /\ Len(T) = Len(invitation)
  <2> HIDE DEF T
  <2> QED
    BY <1>4, InvitationsAreNumbers
<1>6. \A j \in DOMAIN invitation \ {i} : T[j] = invitation[j]
  BY InvitationsAreNumbers
<1> QED
  BY <1>2, <1>5, <1>6

\* A row that is accepted.
LEMMA AcceptedInvitations ==
  ASSUME AccountTypeOK, NEW i \in DOMAIN invitation
  PROVE  LET T == [invitation EXCEPT ![i].accepted = TRUE]
         IN  /\ T \in Seq(Invitation)
             /\ Len(T) = Len(invitation)
             /\ T[i].accepted
             /\ \A j \in DOMAIN invitation : T[j].token = invitation[j].token
             /\ \A j \in DOMAIN invitation \ {i} : T[j] = invitation[j]
<1> DEFINE T == [invitation EXCEPT ![i].accepted = TRUE]
           v == [token |-> invitation[i].token, accepted |-> TRUE,
                 expired |-> invitation[i].expired]
<1>1. v \in Invitation
  BY InvitationsAreNumbers DEF Invitation
<1>2. T[i] = v
  BY InvitationsAreNumbers DEF Invitation
<1>3. \A j \in DOMAIN invitation : T[j] \in Invitation
  BY <1>1, <1>2, InvitationsAreNumbers
<1>4. T \in [1..Len(invitation) -> Invitation]
  BY <1>3, InvitationsAreNumbers
<1>5. T \in Seq(Invitation) /\ Len(T) = Len(invitation)
  <2> HIDE DEF T
  <2> QED
    BY <1>4, InvitationsAreNumbers
<1>6. \A j \in DOMAIN invitation \ {i} : T[j] = invitation[j]
  BY InvitationsAreNumbers
<1> QED
  BY <1>2, <1>5, <1>6

\* A row that lapses.
LEMMA LapsedInvitations ==
  ASSUME AccountTypeOK, NEW i \in DOMAIN invitation
  PROVE  LET T == [invitation EXCEPT ![i].expired = TRUE]
         IN  /\ T \in Seq(Invitation)
             /\ Len(T) = Len(invitation)
             /\ \A j \in DOMAIN invitation :
                  /\ T[j].token = invitation[j].token
                  /\ T[j].accepted = invitation[j].accepted
<1> DEFINE T == [invitation EXCEPT ![i].expired = TRUE]
           v == [token |-> invitation[i].token, accepted |-> invitation[i].accepted,
                 expired |-> TRUE]
<1>1. v \in Invitation
  BY InvitationsAreNumbers DEF Invitation
<1>2. T[i] = v
  BY InvitationsAreNumbers DEF Invitation
<1>3. \A j \in DOMAIN invitation : T[j] \in Invitation
  BY <1>1, <1>2, InvitationsAreNumbers
<1>4. T \in [1..Len(invitation) -> Invitation]
  BY <1>3, InvitationsAreNumbers
<1>5. T \in Seq(Invitation) /\ Len(T) = Len(invitation)
  <2> HIDE DEF T
  <2> QED
    BY <1>4, InvitationsAreNumbers
<1>6. \A j \in DOMAIN invitation \ {i} : T[j] = invitation[j]
  BY InvitationsAreNumbers
<1> QED
  BY <1>2, <1>5, <1>6

\* A row that is added.
LEMMA AddedInvitations ==
  ASSUME AccountTypeOK, NEW t \in 1..tokens
  PROVE  LET T == Append(invitation, NewInvitation(t))
         IN  /\ T \in Seq(Invitation)
             /\ Len(T) = Len(invitation) + 1
             /\ T[Len(invitation) + 1] = NewInvitation(t)
             /\ \A j \in DOMAIN invitation : T[j] = invitation[j]
<1>1. NewInvitation(t) \in Invitation
  BY DEF NewInvitation, Invitation
<1> QED
  BY <1>1, InvitationsAreNumbers DEF AccountTypeOK

\* The types of a row of users and of one of invitations, for n registrations.
UserRows(n) == [known : BOOLEAN, active : BOOLEAN, linked : BOOLEAN, password : 0..n]
InvitationRows(n) == [token : 1..n, accepted : BOOLEAN, expired : BOOLEAN]

\* Rows that were typed stay so when there are more registrations.
LEMMA RowsAreWidened ==
  ASSUME NEW m \in Nat, NEW n \in Nat, m <= n
  PROVE  /\ \A u \in UserRows(m) : u \in UserRows(n)
         /\ \A T \in Seq(InvitationRows(m)) : T \in Seq(InvitationRows(n))
<1>1. \A u \in UserRows(m) : u \in UserRows(n)
  BY DEF UserRows
<1>2. \A v \in InvitationRows(m) : v \in InvitationRows(n)
  BY DEF InvitationRows
<1>3. ASSUME NEW T \in Seq(InvitationRows(m)) PROVE T \in Seq(InvitationRows(n))
  <2>1. Len(T) \in Nat /\ T \in [1..Len(T) -> InvitationRows(m)]
    OBVIOUS
  <2>2. T \in [1..Len(T) -> InvitationRows(n)]
    BY <1>2, <2>1
  <2> QED
    BY <2>1, <2>2
<1> QED
  BY <1>1, <1>3

\* The type, in the terms of these proofs.
Typed ==
  /\ tokens \in 0..MaxTokens
  /\ user \in UserRows(tokens)
  /\ invitation \in Seq(InvitationRows(tokens))
  /\ workspaces \in Nat
  /\ claims \subseteq 0..workspaces
  /\ handler \in [Client -> Requests(tokens, Len(invitation))]
  /\ overtaken \in BOOLEAN

\* It is the same type.
LEMMA SameType == (AccountTypeOK <=> Typed) /\ (AccountTypeOK' <=> Typed')
  BY DEF AccountTypeOK, Typed, User, Invitation, UserRows, InvitationRows, Requests, Stages

\* A request that returns.
LEMMA RequestReturns ==
  ASSUME AccountTypeOK, tokens' = tokens, NEW c \in Client, Finish(c),
         Len(invitation') \in Nat, Len(invitation') >= Len(invitation)
  PROVE  handler' \in [Client -> Requests(tokens', Len(invitation'))]
<1>1. tokens' \in Nat /\ tokens' >= tokens
  BY InvitationsAreNumbers
<1>2. Free \in Requests(tokens', Len(invitation'))
  BY <1>1 DEF Free, Requests, Stages
<1> QED
  BY <1>1, <1>2, RequestsAreTyped DEF Finish

\* A request that goes on to another stage, with the row it has or another.
LEMMA RequestContinues ==
  ASSUME AccountTypeOK, UNCHANGED <<tokens, invitation>>, NEW c \in Client,
         NEW stage \in Stages, NEW i \in 0..Len(invitation),
         handler' = [handler EXCEPT ![c] = [@ EXCEPT !.stage = stage, !.row = i]]
  PROVE  handler' \in [Client -> Requests(tokens', Len(invitation'))]
<1>1. /\ tokens' \in Nat /\ tokens' >= tokens
      /\ Len(invitation') \in Nat /\ Len(invitation') >= Len(invitation)
  BY InvitationsAreNumbers
<1> DEFINE h == [handler[c] EXCEPT !.stage = stage, !.row = i]
<1>2. handler[c] \in Requests(tokens', Len(invitation'))
  BY <1>1, SameType DEF Typed
<1>3. h \in Requests(tokens', Len(invitation'))
  BY <1>1, <1>2 DEF Requests
<1>4. handler' = [handler EXCEPT ![c] = h]
  OBVIOUS
<1> HIDE DEF h
<1> QED
  BY <1>1, <1>3, <1>4, RequestsAreTyped

\* A request that goes on to another stage.
LEMMA RequestGoesOn ==
  ASSUME AccountTypeOK, UNCHANGED <<tokens, invitation>>, NEW c \in Client,
         NEW stage \in Stages, Continue(c, stage)
  PROVE  handler' \in [Client -> Requests(tokens', Len(invitation'))]
<1>1. /\ tokens' \in Nat /\ tokens' >= tokens
      /\ Len(invitation') \in Nat /\ Len(invitation') >= Len(invitation)
  BY InvitationsAreNumbers
<1> DEFINE h == [handler[c] EXCEPT !.stage = stage]
<1>2. handler[c] \in Requests(tokens', Len(invitation'))
  BY <1>1, SameType DEF Typed
<1>3. h \in Requests(tokens', Len(invitation'))
  BY <1>1, <1>2 DEF Requests
<1>4. handler' = [handler EXCEPT ![c] = h]
  BY DEF Continue
<1> HIDE DEF h
<1> QED
  BY <1>1, <1>3, <1>4, RequestsAreTyped

\* The account's type is kept by every step.
LEMMA TypesAreKept ==
  ASSUME AccountTypeOK, HandlersOK, [AccountNext]_accountVars PROVE AccountTypeOK'
<1>1. Typed
  BY SameType
<1>2. tokens \in Nat /\ Len(invitation) \in Nat
  BY InvitationsAreNumbers
<1>3. SUFFICES Typed'
  BY SameType
<1>4. CASE UNCHANGED accountVars
  BY <1>1, <1>4 DEF accountVars, Typed
<1>5. ASSUME NEW c \in Client, Register(c) PROVE Typed'
  <2>1. tokens' = tokens + 1 /\ tokens' \in 0..MaxTokens /\ tokens' \in Nat /\ tokens' >= tokens
    BY <1>1, <1>2, <1>5, AccountsAssumption DEF Register, Typed
  <2>2. user' \in UserRows(tokens') /\ invitation' \in Seq(InvitationRows(tokens'))
    BY <1>1, <1>2, <1>5, <2>1, RowsAreWidened DEF Register, Typed
  <2>3. Len(invitation') \in Nat /\ Len(invitation') >= Len(invitation)
    BY <1>2, <1>5 DEF Register
  <2> DEFINE h == [stage |-> IF user.known THEN "renew" ELSE "create",
                   token |-> tokens + 1, row |-> 0]
  <2>4. h \in Requests(tokens', Len(invitation'))
    BY <1>2, <1>5, <2>1, <2>3 DEF Register, Requests, Stages
  <2>5. handler' = [handler EXCEPT ![c] = h]
    BY <1>5 DEF Register
  <2> HIDE DEF h
  <2>6. handler' \in [Client -> Requests(tokens', Len(invitation'))]
    BY <2>1, <2>3, <2>4, <2>5, RequestsAreTyped
  <2> QED
    BY <1>1, <1>5, <2>1, <2>2, <2>6 DEF Register, NoteOverlap, Typed
<1>6. \A c \in Client :
        /\ handler[c] \in Requests(tokens, Len(invitation))
        /\ Stage(c) \in {"create", "renew", "renewing"} => handler[c].token \in 1..tokens
        /\ handler[c].row # 0 => handler[c].row \in DOMAIN invitation
  BY <1>1, <1>2, InvitationsAreNumbers DEF Typed, HandlersOK, Requests
<1>7. ASSUME NEW c \in Client, CreateAccount(c) PROVE Typed'
  <2>1. invitation' \in Seq(Invitation) /\ Len(invitation') = Len(invitation) + 1
    BY <1>6, <1>7, AddedInvitations DEF CreateAccount, Stage
  <2>2. handler' \in [Client -> Requests(tokens', Len(invitation'))]
    BY <1>2, <1>7, <2>1, RequestReturns DEF CreateAccount
  <2>3. user' \in UserRows(tokens')
    <3>1. tokens' = tokens /\ handler[c].token \in 0..tokens /\ user \in UserRows(tokens)
      BY <1>1, <1>6, <1>7 DEF CreateAccount, Typed, Requests
    <3>2. user' = [user EXCEPT !.known = TRUE, !.password = handler[c].token]
      BY <1>7 DEF CreateAccount
    <3> QED
      BY <3>1, <3>2 DEF UserRows
  <2> QED
    BY <1>1, <1>7, <2>1, <2>2, <2>3 DEF CreateAccount, Typed, Invitation, InvitationRows
<1>8. ASSUME NEW c \in Client, RenewAccount(c) PROVE Typed'
  <2>1. invitation' \in Seq(Invitation) /\ Len(invitation') \in Nat
        /\ Len(invitation') >= Len(invitation)
    <3>1. CASE handler[c].row = 0
      BY <1>2, <1>6, <1>8, <3>1, AddedInvitations DEF RenewAccount, Stage
    <3>2. CASE handler[c].row # 0
      <4>1. handler[c].row \in DOMAIN invitation /\ handler[c].token \in 1..tokens
        BY <1>6, <1>8, <3>2 DEF RenewAccount, Stage
      <4> DEFINE T == [invitation EXCEPT ![handler[c].row] =
                         [@ EXCEPT !.token = handler[c].token, !.expired = FALSE]]
      <4>2. invitation' = T
        BY <1>8, <3>2 DEF RenewAccount, NewInvitation
      <4>3. T \in Seq(Invitation) /\ Len(T) = Len(invitation)
        BY <4>1, RenewedInvitations
      <4> HIDE DEF T
      <4> QED
        BY <1>2, <4>2, <4>3
    <3> QED
      BY <3>1, <3>2
  <2>2. handler' \in [Client -> Requests(tokens', Len(invitation'))]
    BY <1>8, <2>1, RequestReturns DEF RenewAccount
  <2>3. user' \in UserRows(tokens')
    BY <1>1, <1>6, <1>8 DEF RenewAccount, Typed, UserRows, Stage, NewInvitation
  <2> QED
    BY <1>1, <1>8, <2>1, <2>2, <2>3 DEF RenewAccount, Typed, Invitation, InvitationRows
<1>9. ASSUME NEW c \in Client, Activate(c) PROVE Typed'
  <2>1. invitation' \in Seq(Invitation) /\ Len(invitation') = Len(invitation)
    BY <1>6, <1>9, AcceptedInvitations DEF Activate, Stage, HandlersOK
  <2>2. handler' \in [Client -> Requests(tokens', Len(invitation'))]
    BY <1>2, <1>9, <2>1, RequestReturns DEF Activate
  <2>3. user' \in UserRows(tokens')
    BY <1>1, <1>9 DEF Activate, Typed, UserRows
  <2>4. workspaces' \in Nat /\ claims' \subseteq 0..workspaces'
    BY <1>1, <1>9 DEF Activate, Typed
  <2> QED
    BY <1>1, <1>9, <2>1, <2>2, <2>3, <2>4 DEF Activate, Typed, Invitation, InvitationRows
<1>10. ASSUME NEW c \in Client, FindInvitation(c) PROVE Typed'
  <2>1. UNCHANGED <<user, invitation, workspaces, claims, tokens, overtaken>>
    BY <1>10 DEF FindInvitation
  <2>2. CASE Continue(c, "renewing")
    BY <1>1, <2>1, <2>2, RequestGoesOn DEF Typed, Stages
  <2>3. ASSUME NEW i \in Pending,
               handler' = [handler EXCEPT ![c] = [@ EXCEPT !.stage = "renewing", !.row = i]]
        PROVE  Typed'
    <3>1. i \in 0..Len(invitation)
      BY InvitationsAreNumbers DEF Pending
    <3> QED
      BY <1>1, <2>1, <2>3, <3>1, RequestContinues DEF Typed, Stages
  <2> QED
    BY <1>10, <2>2, <2>3 DEF FindInvitation
<1>12. ASSUME NEW c \in Client, Verify(c) PROVE Typed'
  <2>1. UNCHANGED <<user, invitation, workspaces, claims, tokens>> /\ overtaken' \in BOOLEAN
    BY <1>1, <1>12 DEF Verify, NoteOverlap, Typed
  <2>2. PICK i \in Pending :
          handler' = [handler EXCEPT ![c] = [stage |-> "verify", token |-> 0, row |-> i]]
    BY <1>12 DEF Verify
  <2> DEFINE h == [stage |-> "verify", token |-> 0, row |-> i]
  <2>3. h \in Requests(tokens', Len(invitation'))
    BY <1>2, <2>1, InvitationsAreNumbers DEF Requests, Stages, Pending
  <2>4. handler' = [handler EXCEPT ![c] = h]
    BY <2>2
  <2> HIDE DEF h
  <2>5. handler' \in [Client -> Requests(tokens', Len(invitation'))]
    <3>1. /\ tokens' \in Nat /\ tokens' >= tokens
          /\ Len(invitation') \in Nat /\ Len(invitation') >= Len(invitation)
      BY <1>2, <2>1
    <3> QED
      BY <2>3, <2>4, <3>1, RequestsAreTyped
  <2> QED
    BY <1>1, <2>1, <2>5 DEF Typed
<1>13. ASSUME NEW c \in Client, Onboard(c) \/ Login(c) PROVE Typed'
  <2>1. UNCHANGED <<user, invitation, workspaces, claims, tokens, overtaken>>
    BY <1>13 DEF Onboard, Login
  <2>2. \E stage \in Stages : Continue(c, stage)
    BY <1>13 DEF Onboard, Login, Stages
  <2> QED
    BY <1>1, <2>1, <2>2, RequestGoesOn DEF Typed
<1>14. ASSUME NEW c \in Client, Link(c) PROVE Typed'
  <2>1. handler' \in [Client -> Requests(tokens', Len(invitation'))]
    BY <1>14, RequestGoesOn DEF Link, Stages
  <2>2. user' \in UserRows(tokens')
    BY <1>1, <1>14 DEF Link, Typed, UserRows
  <2> QED
    BY <1>1, <1>14, <2>1, <2>2 DEF Link, Typed
<1>15. ASSUME NEW c \in Client, Provision(c) PROVE Typed'
  <2>1. handler' \in [Client -> Requests(tokens', Len(invitation'))]
    BY <1>15, RequestGoesOn DEF Provision, Stages
  <2>2. user' \in UserRows(tokens')
    BY <1>1, <1>15 DEF Provision, Typed, UserRows
  <2>3. workspaces' \in Nat /\ claims' \subseteq 0..workspaces'
    BY <1>1, <1>15 DEF Provision, Typed
  <2> QED
    BY <1>1, <1>15, <2>1, <2>2, <2>3 DEF Provision, Typed
<1>16. ASSUME NEW c \in Client, OpenSession(c) \/ GiveUp(c) PROVE Typed'
  <2>1. UNCHANGED <<user, invitation, workspaces, tokens, overtaken>> /\ Finish(c)
    BY <1>16 DEF OpenSession, GiveUp
  <2>2. handler' \in [Client -> Requests(tokens', Len(invitation'))]
    BY <1>2, <2>1, RequestReturns
  <2>3. claims' \subseteq 0..workspaces'
    <3>1. ASSUME OpenSession(c) PROVE \E w \in 0..workspaces : claims' = claims \union {w}
      BY <1>1, <3>1 DEF OpenSession, Typed
    <3> QED
      BY <1>1, <1>16, <2>1, <3>1 DEF GiveUp, Typed
  <2> QED
    BY <1>1, <2>1, <2>2, <2>3 DEF Typed
<1>11. ASSUME NEW i \in DOMAIN invitation, Lapse(i) PROVE Typed'
  <2>1. invitation' \in Seq(Invitation) /\ Len(invitation') = Len(invitation)
    BY <1>11, LapsedInvitations DEF Lapse
  <2> QED
    BY <1>1, <1>11, <2>1 DEF Lapse, Typed, Invitation, InvitationRows
<1> QED
  BY <1>4, <1>5, <1>7, <1>8, <1>9, <1>10, <1>11, <1>12, <1>13, <1>14, <1>15, <1>16
  DEF AccountNext

-----------------------------------------------------------------------------
(* The invariant.                                                          *)

\* What becomes of a request, and that the others stay as they are.
Becomes(c, stage, token, row) ==
  /\ handler'[c].stage = stage
  /\ handler'[c].token = token
  /\ handler'[c].row = row
  /\ \A d \in Client \ {c} : handler'[d] = handler[d]

\* A request that returns is idle.
LEMMA Returned ==
  ASSUME AccountTypeOK, NEW c \in Client, Finish(c) PROVE Becomes(c, "idle", 0, 0)
  BY SameType DEF Typed, Finish, Free, Becomes

\* A request that goes on keeps its token and its row.
LEMMA WentOn ==
  ASSUME AccountTypeOK, NEW c \in Client, NEW stage, Continue(c, stage)
  PROVE  Becomes(c, stage, handler[c].token, handler[c].row)
  BY SameType DEF Typed, Continue, Requests, Becomes

\* Who writes after a step in which c changed its stage.
LEMMA WritersAfter ==
  ASSUME NEW c \in Client, NEW stage, NEW token, NEW row, Becomes(c, stage, token, row)
  PROVE  /\ \A d \in Client \ {c} : d \in Writers' <=> d \in Writers
         /\ c \in Writers' <=> stage \in {"create", "renew", "renewing", "verify"}
  BY DEF Becomes, Writers

\* Registering keeps the invariant.
LEMMA RegisterKeeps ==
  ASSUME IInv, NEW c \in Client, Register(c)
  PROVE  HandlersOK' /\ AccountOK' /\ WaitingOK' /\ (overtaken \/ InTurn)'
<1>1. Becomes(c, IF user.known THEN "renew" ELSE "create", tokens + 1, 0)
  BY SameType DEF IInv, Typed, Register, Becomes
<1>2. /\ UNCHANGED <<user, invitation, workspaces, claims>> /\ ~user.active
      /\ overtaken' = (overtaken \/ Writers # {})
      /\ tokens + 1 # 0
  BY InvitationsAreNumbers DEF Register, NoteOverlap, IInv
<1>3. HandlersOK'
  BY <1>1, <1>2 DEF IInv, HandlersOK, Becomes, Stage
<1>4. AccountOK'
  BY <1>2 DEF IInv, AccountOK
<1>5. WaitingOK'
  BY <1>1, <1>2 DEF IInv, WaitingOK, Becomes, Stage
<1>6. ASSUME ~overtaken' PROVE InTurn'
  <2>1. InTurn /\ Writers = {}
    BY <1>2, <1>6 DEF IInv
  <2>2. \A d \in Writers' : d = c
    BY <1>1, <2>1, WritersAfter DEF Writers
  <2>3. Pending' = Pending
    BY <1>2 DEF Pending
  <2>4. user.known => Pending # {}
    BY <1>2, InvitationsAreNumbers DEF IInv, WaitingOK, Pending
  <2> QED
    BY <1>1, <1>2, <2>1, <2>2, <2>3, <2>4 DEF InTurn, Becomes, Stage
<1> QED
  BY <1>3, <1>4, <1>5, <1>6

\* The first registration keeps the invariant.
LEMMA CreateAccountKeeps ==
  ASSUME IInv, NEW c \in Client, CreateAccount(c)
  PROVE  HandlersOK' /\ AccountOK' /\ WaitingOK' /\ (overtaken \/ InTurn)'
<1>1. Becomes(c, "idle", 0, 0)
  BY Returned DEF IInv, CreateAccount
<1>2. /\ UNCHANGED <<workspaces, claims, tokens, overtaken>>
      /\ ~user.known /\ user'.known /\ user'.active = user.active
      /\ user'.linked = user.linked /\ user'.password = handler[c].token
  BY SameType DEF CreateAccount, IInv, Typed, UserRows
<1>3. /\ Len(invitation') = 1 /\ DOMAIN invitation' = {1}
      /\ invitation'[1].token = handler[c].token /\ ~invitation'[1].accepted
  BY <1>2 DEF IInv, AccountOK, CreateAccount, NewInvitation
<1>4. \A d \in Client : Stage(d) \notin {"renew", "renewing", "verify", "link", "session"}
  BY <1>2 DEF IInv, HandlersOK
<1>5. HandlersOK'
  BY <1>1, <1>2, <1>4 DEF IInv, HandlersOK, Becomes, Stage
<1>6. AccountOK'
  BY <1>2 DEF IInv, AccountOK
<1>7. WaitingOK'
  BY <1>1, <1>2, <1>3, <1>4 DEF WaitingOK, Becomes, Stage
<1>8. ASSUME ~overtaken' PROVE InTurn'
  <2>1. InTurn
    BY <1>2, <1>8 DEF IInv
  <2>2. \A d, e \in Writers' : d = e
    BY <1>1, <2>1, WritersAfter DEF InTurn, Writers
  <2>3. workspaces' = 0
    BY <1>2 DEF IInv, AccountOK
  <2> QED
    BY <1>1, <1>2, <1>3, <1>4, <2>2, <2>3 DEF InTurn, Becomes, Stage
<1> QED
  BY <1>5, <1>6, <1>7, <1>8

\* The rows that wait for their verification.
LEMMA PendingWaits ==
  ASSUME IInv, user.known, ~user.active PROVE Pending = {1}
  BY InvitationsAreNumbers DEF IInv, WaitingOK, Pending

\* Looking for the pending invitation keeps the invariant.
LEMMA FindInvitationKeeps ==
  ASSUME IInv, NEW c \in Client, FindInvitation(c)
  PROVE  HandlersOK' /\ AccountOK' /\ WaitingOK' /\ (overtaken \/ InTurn)'
<1>1. UNCHANGED <<user, invitation, workspaces, claims, tokens, overtaken>>
  BY DEF FindInvitation
<1>2. PICK i \in 0..Len(invitation) :
        /\ Becomes(c, "renewing", handler[c].token, i)
        /\ (i = handler[c].row /\ Pending = {}) \/ i \in Pending
  <2>1. CASE Pending = {} /\ Continue(c, "renewing")
    <3>1. handler[c].row \in 0..Len(invitation)
      BY SameType DEF IInv, Typed, Requests
    <3> QED
      BY <2>1, <3>1, WentOn DEF IInv
  <2>2. ASSUME NEW i \in Pending,
               handler' = [handler EXCEPT ![c] = [@ EXCEPT !.stage = "renewing", !.row = i]]
        PROVE  Becomes(c, "renewing", handler[c].token, i) /\ i \in 0..Len(invitation)
    <3>1. i \in 0..Len(invitation)
      BY InvitationsAreNumbers DEF Pending, IInv
    <3> QED
      BY <2>2, <3>1, SameType DEF IInv, Typed, Requests, Becomes
  <2> QED
    BY <2>1, <2>2 DEF FindInvitation
<1>3. Stage(c) = "renew" /\ user.known /\ handler[c].token # 0
  BY DEF FindInvitation, Stage, IInv, HandlersOK
<1>4. HandlersOK'
  BY <1>1, <1>2, <1>3 DEF IInv, HandlersOK, Becomes, Stage
<1>5. AccountOK'
  BY <1>1 DEF IInv, AccountOK
<1>6. WaitingOK'
  BY <1>1, <1>2, <1>3, PendingWaits DEF IInv, WaitingOK, Becomes, Stage
<1>7. ASSUME ~overtaken' PROVE InTurn'
  <2>1. InTurn
    BY <1>1, <1>7 DEF IInv
  <2>2. \A d \in Client : d \in Writers' <=> d \in Writers
    BY <1>2, <1>3, WritersAfter DEF Writers, Stage
  <2>3. \A d, e \in Writers' : d = e
    BY <2>1, <2>2 DEF InTurn, Writers
  <2>4. Pending' = Pending /\ Pending # {}
    BY <1>1, <1>3, <2>1 DEF Pending, InTurn
  <2>5. handler'[c].row # 0
    BY <1>2, <2>4, InvitationsAreNumbers DEF Becomes, Pending, IInv
  <2> QED
    BY <1>1, <1>2, <2>1, <2>3, <2>4, <2>5 DEF InTurn, Becomes, Stage
<1> QED
  BY <1>4, <1>5, <1>6, <1>7

\* Renewing the registration keeps the invariant.
LEMMA RenewAccountKeeps ==
  ASSUME IInv, NEW c \in Client, RenewAccount(c)
  PROVE  HandlersOK' /\ AccountOK' /\ WaitingOK' /\ (overtaken \/ InTurn)'
<1> DEFINE i == handler[c].row  t == handler[c].token
<1>1. Becomes(c, "idle", 0, 0)
  BY Returned DEF IInv, RenewAccount
<1>2. /\ UNCHANGED <<workspaces, claims, tokens, overtaken>>
      /\ user'.known = user.known /\ user'.active = user.active
      /\ user'.linked = user.linked /\ user'.password = t
  BY SameType DEF RenewAccount, IInv, Typed, UserRows, NewInvitation
<1>3. Stage(c) = "renewing" /\ user.known /\ t \in 1..tokens /\ i \in 0..Len(invitation)
  BY SameType, InvitationsAreNumbers DEF RenewAccount, Stage, IInv, HandlersOK, Typed, Requests
<1>4. HandlersOK'
  BY <1>1, <1>2 DEF IInv, HandlersOK, Becomes, Stage
<1>5. AccountOK'
  BY <1>2, <1>3 DEF IInv, AccountOK
<1>6. ASSUME i # 0, Len(invitation) = 1
      PROVE  /\ Len(invitation') = 1 /\ DOMAIN invitation' = DOMAIN invitation
             /\ DOMAIN invitation = {1}
             /\ invitation'[1].token = t
             /\ invitation'[1].accepted = invitation[1].accepted
  <2>1. i = 1 /\ 1 \in DOMAIN invitation /\ DOMAIN invitation = {1}
    BY <1>3, <1>6, InvitationsAreNumbers DEF IInv
  <2> DEFINE T == [invitation EXCEPT ![i] = [@ EXCEPT !.token = t, !.expired = FALSE]]
  <2>2. invitation' = T
    BY <1>6 DEF RenewAccount, NewInvitation
  <2>3. /\ T \in Seq(Invitation) /\ Len(T) = Len(invitation) /\ T[i].token = t
        /\ T[i].accepted = invitation[i].accepted
    <3>1. AccountTypeOK /\ i \in DOMAIN invitation /\ t \in 1..tokens
      BY <1>3, <2>1 DEF IInv
    <3> HIDE DEF i, t
    <3> QED
      BY <3>1, RenewedInvitations
  <2> HIDE DEF T, i, t
  <2> QED
    BY <1>6, <2>1, <2>2, <2>3
<1>7. WaitingOK'
  <2>1. SUFFICES ASSUME ~user.active PROVE WaitingOK'
    BY <1>2 DEF WaitingOK
  <2>2. Len(invitation) = 1 /\ ~invitation[1].accepted /\ i = 1
    BY <1>3, <2>1 DEF IInv, WaitingOK
  <2> QED
    BY <1>1, <1>2, <1>3, <1>6, <2>1, <2>2 DEF IInv, WaitingOK, Becomes, Stage
<1>8. ASSUME ~overtaken' PROVE InTurn'
  <2>1. InTurn
    BY <1>2, <1>8 DEF IInv
  <2>2. \A d, e \in Writers' : d = e
    BY <1>1, <2>1, WritersAfter DEF InTurn, Writers
  <2>3. i # 0 /\ Len(invitation) = 1
    BY <1>3, <2>1, InvitationsAreNumbers DEF InTurn, IInv
  <2>4. Pending' = Pending
    BY <1>6, <2>3 DEF Pending
  <2> QED
    BY <1>1, <1>2, <1>6, <2>1, <2>2, <2>3, <2>4 DEF InTurn, Becomes, Stage
<1> QED
  BY <1>4, <1>5, <1>7, <1>8

\* Beginning a verification keeps the invariant.
LEMMA VerifyKeeps ==
  ASSUME IInv, NEW c \in Client, Verify(c)
  PROVE  HandlersOK' /\ AccountOK' /\ WaitingOK' /\ (overtaken \/ InTurn)'
<1>1. PICK i \in Pending : Becomes(c, "verify", 0, i)
  BY SameType DEF Verify, IInv, Typed, Becomes
<1>2. /\ UNCHANGED <<user, invitation, workspaces, claims, tokens>>
      /\ overtaken' = (overtaken \/ Writers # {})
  BY DEF Verify, NoteOverlap
<1>3. i # 0 /\ user.known
  BY InvitationsAreNumbers DEF Pending, IInv, AccountOK
<1>4. HandlersOK'
  BY <1>1, <1>2, <1>3 DEF IInv, HandlersOK, Becomes, Stage
<1>5. AccountOK'
  BY <1>2 DEF IInv, AccountOK
<1>6. WaitingOK'
  BY <1>1, <1>2 DEF IInv, WaitingOK, Becomes, Stage
<1>7. ASSUME ~overtaken' PROVE InTurn'
  <2>1. InTurn /\ Writers = {}
    BY <1>2, <1>7 DEF IInv
  <2>2. \A d \in Writers' : d = c
    BY <1>1, <2>1, WritersAfter DEF Writers
  <2>3. Pending' = Pending
    BY <1>2 DEF Pending
  <2> QED
    BY <1>1, <1>2, <2>1, <2>2, <2>3 DEF InTurn, Becomes, Stage
<1> QED
  BY <1>4, <1>5, <1>6, <1>7

\* Finishing a verification keeps the invariant.
LEMMA ActivateKeeps ==
  ASSUME IInv, NEW c \in Client, Activate(c)
  PROVE  HandlersOK' /\ AccountOK' /\ WaitingOK' /\ (overtaken \/ InTurn)'
<1> DEFINE i == handler[c].row
<1>1. Becomes(c, "idle", 0, 0)
  BY Returned DEF IInv, Activate
<1>2. /\ UNCHANGED <<claims, tokens, overtaken>> /\ workspaces' = workspaces + 1
      /\ user'.known = user.known /\ user'.active
      /\ user'.linked = user.linked /\ user'.password = user.password
      /\ workspaces \in Nat
  BY SameType DEF Activate, IInv, Typed, UserRows
<1>3. Stage(c) = "verify" /\ user.known /\ i \in DOMAIN invitation
  BY SameType, InvitationsAreNumbers DEF Activate, Stage, IInv, HandlersOK, Typed, Requests
<1>4. /\ Len(invitation') = Len(invitation)
      /\ DOMAIN invitation' = DOMAIN invitation
      /\ invitation'[i].accepted
      /\ \A j \in DOMAIN invitation : invitation'[j].token = invitation[j].token
  <2>1. AccountTypeOK /\ invitation' = [invitation EXCEPT ![i].accepted = TRUE]
    BY DEF IInv, Activate
  <2> HIDE DEF i
  <2> QED
    BY <1>3, <2>1, AcceptedInvitations
<1>5. HandlersOK'
  BY <1>1, <1>2 DEF IInv, HandlersOK, Becomes, Stage
<1>6. AccountOK'
  BY <1>2, <1>3 DEF IInv, AccountOK
<1>7. WaitingOK'
  BY <1>2 DEF WaitingOK
<1>8. ASSUME ~overtaken' PROVE InTurn'
  <2>1. InTurn
    BY <1>2, <1>8 DEF IInv
  <2>2. \A d \in Client \ {c} : Stage(d) \notin {"create", "renew", "renewing", "verify"}
    BY <1>3, <2>1 DEF InTurn, Writers, Stage
  <2>3. Writers' = {}
    BY <1>1, <2>2, WritersAfter DEF Writers, Stage
  <2>4. workspaces = 0
    BY <1>3, <2>1 DEF InTurn
  <2>5. DOMAIN invitation = {i}
    BY <1>3, <2>1, InvitationsAreNumbers DEF InTurn, IInv
  <2>6. Pending' = {}
    BY <1>4, <2>5 DEF Pending
  <2> QED
    BY <1>1, <1>2, <1>4, <2>1, <2>2, <2>3, <2>4, <2>6 DEF InTurn, Becomes, Stage
<1> QED
  BY <1>5, <1>6, <1>7, <1>8

\* A request that goes on without writing to the invitations, or returns, keeps
\* what is known of the requests, and whose turn it is.
LEMMA QuietKeeps ==
  ASSUME IInv, NEW c \in Client, NEW stage \in {"idle", "link", "provision", "session"},
         NEW token, NEW row, Becomes(c, stage, token, row),
         UNCHANGED <<invitation, tokens, overtaken>>,
         user.known => user'.known, user.active => user'.active,
         user'.password = user.password,
         stage \in {"link", "session"} => user'.known,
         stage = "session" => user'.active,
         workspaces' = workspaces \/ (workspaces' = 1 /\ invitation = <<>>)
  PROVE  HandlersOK' /\ (overtaken \/ InTurn)'
<1>1. HandlersOK'
  BY DEF IInv, HandlersOK, Becomes, Stage
<1>2. ASSUME ~overtaken' PROVE InTurn'
  <2>1. InTurn
    BY <1>2 DEF IInv
  <2>2. \A d, e \in Writers' : d = e
    BY <2>1, WritersAfter DEF InTurn, Writers
  <2>3. Pending' = Pending
    BY DEF Pending
  <2>4. workspaces' <= 1 /\ (workspaces' # 0 => Pending = {})
    BY <2>1, InvitationsAreNumbers DEF InTurn, Pending, IInv
  <2> QED
    BY <2>1, <2>2, <2>3, <2>4 DEF InTurn, Becomes, Stage
<1> QED
  BY <1>1, <1>2

\* Signing in, as far as the session, keeps the invariant.
LEMMA SignInKeeps ==
  ASSUME IInv, NEW c \in Client, Onboard(c) \/ Login(c)
  PROVE  HandlersOK' /\ AccountOK' /\ WaitingOK' /\ (overtaken \/ InTurn)'
<1>1. UNCHANGED <<user, invitation, workspaces, claims, tokens, overtaken>>
  BY DEF Onboard, Login
<1>2. PICK stage \in {"link", "provision", "session"} :
        /\ Continue(c, stage)
        /\ stage \in {"link", "session"} => user.known
        /\ stage = "session" => user.active
  BY DEF Onboard, Login, IInv, AccountOK
<1>3. Becomes(c, stage, handler[c].token, handler[c].row)
  BY <1>2, WentOn DEF IInv
<1>4. HandlersOK' /\ (overtaken \/ InTurn)'
  BY <1>1, <1>2, <1>3, QuietKeeps
<1> QED
  BY <1>1, <1>2, <1>3, <1>4 DEF IInv, AccountOK, WaitingOK, Becomes, Stage

\* Linking keeps the invariant.
LEMMA LinkKeeps ==
  ASSUME IInv, NEW c \in Client, Link(c)
  PROVE  HandlersOK' /\ AccountOK' /\ WaitingOK' /\ (overtaken \/ InTurn)'
<1>1. UNCHANGED <<invitation, workspaces, claims, tokens, overtaken>>
  BY DEF Link
<1>2. /\ user'.known = user.known /\ user'.active /\ user'.linked
      /\ user'.password = user.password /\ user.known
  BY SameType DEF Link, IInv, Typed, UserRows, HandlersOK, Stage
<1>3. Becomes(c, "session", handler[c].token, handler[c].row)
  BY WentOn DEF IInv, Link
<1>4. HandlersOK' /\ (overtaken \/ InTurn)'
  BY <1>1, <1>2, <1>3, QuietKeeps
<1> QED
  BY <1>1, <1>2, <1>4 DEF IInv, AccountOK, WaitingOK

\* A new account keeps the invariant.
LEMMA ProvisionKeeps ==
  ASSUME IInv, NEW c \in Client, Provision(c)
  PROVE  HandlersOK' /\ AccountOK' /\ WaitingOK' /\ (overtaken \/ InTurn)'
<1>1. UNCHANGED <<invitation, claims, tokens, overtaken>>
  BY DEF Provision
<1>2. /\ ~user.known /\ user'.known /\ user'.active /\ user'.linked
      /\ user'.password = user.password
  BY SameType DEF Provision, IInv, Typed, UserRows
<1>3. invitation = <<>> /\ workspaces' = 1
  BY <1>2 DEF Provision, IInv, AccountOK
<1>4. Becomes(c, "session", handler[c].token, handler[c].row)
  BY WentOn DEF IInv, Provision
<1>5. HandlersOK' /\ (overtaken \/ InTurn)'
  BY <1>1, <1>2, <1>3, <1>4, QuietKeeps
<1> QED
  BY <1>1, <1>2, <1>3, <1>5 DEF AccountOK, WaitingOK

\* Issuing a session and giving up keep the invariant.
LEMMA ReturnKeeps ==
  ASSUME IInv, NEW c \in Client, OpenSession(c) \/ GiveUp(c)
  PROVE  HandlersOK' /\ AccountOK' /\ WaitingOK' /\ (overtaken \/ InTurn)'
<1>1. UNCHANGED <<user, invitation, workspaces, tokens, overtaken>> /\ Finish(c)
  BY DEF OpenSession, GiveUp
<1>2. Becomes(c, "idle", 0, 0)
  BY <1>1, Returned DEF IInv
<1>3. HandlersOK' /\ (overtaken \/ InTurn)'
  BY <1>1, <1>2, QuietKeeps
<1>4. 0 \in claims' => user.linked
  <2>1. CASE GiveUp(c)
    BY <2>1 DEF GiveUp, IInv, AccountOK
  <2>2. CASE OpenSession(c)
    <3>1. user.active
      BY <2>2 DEF OpenSession, IInv, HandlersOK, Stage
    <3>2. workspaces # 0 => \E w \in 1..workspaces : claims' = claims \union {w}
      BY <2>2 DEF OpenSession
    <3> QED
      BY <3>1, <3>2 DEF IInv, AccountOK
  <2> QED
    BY <2>1, <2>2
<1>5. AccountOK'
  BY <1>1, <1>4 DEF IInv, AccountOK
<1>6. WaitingOK'
  BY <1>1, <1>2 DEF IInv, WaitingOK, Becomes, Stage
<1> QED
  BY <1>3, <1>5, <1>6

\* The passing of a day keeps the invariant.
LEMMA LapseKeeps ==
  ASSUME IInv, NEW i \in DOMAIN invitation, Lapse(i)
  PROVE  HandlersOK' /\ AccountOK' /\ WaitingOK' /\ (overtaken \/ InTurn)'
<1>1. UNCHANGED <<user, workspaces, claims, tokens, handler, overtaken>>
  BY DEF Lapse
<1>2. /\ Len(invitation') = Len(invitation)
      /\ DOMAIN invitation' = DOMAIN invitation
      /\ \A j \in DOMAIN invitation :
           /\ invitation'[j].token = invitation[j].token
           /\ invitation'[j].accepted = invitation[j].accepted
  BY LapsedInvitations DEF IInv, Lapse
<1>3. Pending' = Pending /\ Writers' = Writers
  BY <1>1, <1>2 DEF Pending, Writers
<1>4. HandlersOK'
  BY <1>1 DEF IInv, HandlersOK, Stage
<1>5. AccountOK'
  BY <1>1, <1>2, InvitationsAreNumbers DEF IInv, AccountOK
<1>6. WaitingOK'
  BY <1>1, <1>2, InvitationsAreNumbers DEF IInv, WaitingOK, Stage
<1>7. (overtaken \/ InTurn)'
  BY <1>1, <1>2, <1>3 DEF IInv, InTurn, Stage
<1> QED
  BY <1>4, <1>5, <1>6, <1>7

-----------------------------------------------------------------------------
(* The theorems.                                                           *)

\* IInv is an invariant.
LEMMA Invariance == AccountSpec => []IInv
<1>1. AccountInit => IInv
  <2> SUFFICES ASSUME AccountInit PROVE IInv
    OBVIOUS
  <2>1. AccountTypeOK
    <3>1. tokens = 0 /\ workspaces = 0 /\ claims = {} /\ overtaken = FALSE
      BY DEF AccountInit
    <3>2. tokens \in 0..MaxTokens /\ workspaces \in Nat
      BY <3>1, AccountsAssumption
    <3>3. claims \subseteq 0..workspaces /\ overtaken \in BOOLEAN
      BY <3>1
    <3>4. user \in User
      BY DEF AccountInit, User
    <3>5. invitation \in Seq(Invitation) /\ Len(invitation) = 0
      BY DEF AccountInit
    <3>6. Free \in Requests(tokens, Len(invitation))
      BY <3>5 DEF AccountInit, Free, Requests, Stages
    <3>7. handler \in [Client -> Requests(tokens, Len(invitation))]
      <4> HIDE DEF Requests
      <4> QED
        BY <3>6 DEF AccountInit
    <3> QED
      BY <3>2, <3>3, <3>4, <3>5, <3>7 DEF AccountTypeOK, Requests, Stages
  <2>2. \A c \in Client : Stage(c) = "idle"
    BY DEF AccountInit, Stage, Free
  <2> QED
    BY <2>1, <2>2 DEF AccountInit, IInv, HandlersOK, AccountOK, WaitingOK, InTurn, Writers,
                      Pending, Stage
<1>2. IInv /\ [AccountNext]_accountVars => IInv'
  <2> SUFFICES ASSUME IInv, [AccountNext]_accountVars PROVE IInv'
    OBVIOUS
  <2>1. AccountTypeOK'
    BY TypesAreKept DEF IInv
  <2>2. HandlersOK' /\ AccountOK' /\ WaitingOK' /\ (overtaken \/ InTurn)'
    <3>1. CASE UNCHANGED accountVars
      BY <3>1 DEF accountVars, IInv, HandlersOK, AccountOK, WaitingOK, InTurn, Writers,
                  Pending, Stage
    <3>2. CASE AccountNext
      BY <3>2, RegisterKeeps, CreateAccountKeeps, FindInvitationKeeps, RenewAccountKeeps,
         VerifyKeeps, ActivateKeeps, SignInKeeps, LinkKeeps, ProvisionKeeps, ReturnKeeps,
         LapseKeeps DEF AccountNext
    <3> QED
      BY <3>1, <3>2
  <2> QED
    BY <2>1, <2>2 DEF IInv
<1> QED
  BY <1>1, <1>2, PTL DEF AccountSpec

\* The account, its invitations and the requests are always of their types.
THEOREM AccountTypeCorrect == AccountSpec => []AccountTypeOK
<1>1. IInv => AccountTypeOK
  BY DEF IInv
<1> QED
  BY <1>1, Invariance, PTL

\* Whatever registrations overlap, fail or are repeated, an account that waits
\* for its verification has one pending invitation, of its password's registration.
THEOREM NobodyIsLockedOut == AccountSpec => []WaitingIsVerifiable
<1>1. IInv => WaitingIsVerifiable
  <2> SUFFICES ASSUME IInv, user.known, ~user.active
               PROVE  \E i \in Pending : Pending = {i} /\ invitation[i].token = user.password
    BY DEF WaitingIsVerifiable
  <2> QED
    BY PendingWaits DEF IInv, WaitingOK
<1> QED
  BY <1>1, Invariance, PTL

\* Unless a request overtook another, the password is the one whose token was
\* verified.
THEOREM PasswordIsTheVerifiedOne == AccountSpec => []VerifiedItsPassword
<1>1. IInv => VerifiedItsPassword
  BY DEF IInv, InTurn, VerifiedItsPassword
<1> QED
  BY <1>1, Invariance, PTL

\* All sessions of a user are for the same workspace, but for accounts linked
\* before they were verified and verifications that overtook each other.
THEOREM WorkspaceIsUnique == AccountSpec => []SessionsShareWorkspace
<1>1. IInv => SessionsShareWorkspace
  <2> SUFFICES ASSUME IInv, NEW w \in claims
               PROVE  (w = 0 => user.linked) /\ (w > 1 => overtaken)
    BY DEF SessionsShareWorkspace
  <2>1. w \in 0..workspaces /\ workspaces \in Nat
    BY DEF IInv, AccountTypeOK
  <2>2. overtaken \/ workspaces <= 1
    BY DEF IInv, InTurn
  <2> QED
    BY <2>1, <2>2 DEF IInv, AccountOK
<1> QED
  BY <1>1, Invariance, PTL

=============================================================================
