------------------------------- MODULE Accounts -------------------------------
(***************************************************************************)
(* The account of one e-mail address: registration, verification and       *)
(* Google onboarding in app/services/identity.py.  Each handler reads its  *)
(* rows, decides, and commits without looking again; a renewed             *)
(* registration hashes a password between its first read and its commit.   *)
(* Tokens are numbered as registrations begin, and a password is known by  *)
(* the token of the registration that brought it.  Refused requests write  *)
(* their audit log only and are no step.                                   *)
(***************************************************************************)
EXTENDS Naturals, Sequences, FiniteSets

CONSTANTS
  Client,        \* slots for requests that are being handled
  MaxTokens      \* bound: registrations

VARIABLES
  user,          \* the users row
  invitation,    \* rows of the invitations table
  workspaces,    \* number of workspaces, each with the user as its Owner
  claims,        \* workspaces that sessions were issued for, 0 for none
  tokens,        \* tokens given to registrations so far
  handler,       \* handler[c]: how far c's request is, and with which rows
  overtaken      \* a registration or verification began while another was under way

accountVars == <<user, invitation, workspaces, claims, tokens, handler, overtaken>>

ASSUME AccountsAssumption == MaxTokens \in Nat

User == [known : BOOLEAN, active : BOOLEAN, linked : BOOLEAN, password : 0..tokens]
Invitation == [token : 1..tokens, accepted : BOOLEAN, expired : BOOLEAN]
Free == [stage |-> "idle", token |-> 0, row |-> 0]

AccountTypeOK ==
  /\ tokens \in 0..MaxTokens
  /\ user \in User
  /\ invitation \in Seq(Invitation)
  /\ workspaces \in Nat
  /\ claims \subseteq 0..workspaces
  /\ handler \in [Client -> [stage : {"idle", "create", "renew", "renewing", "verify",
                                      "link", "provision", "session"},
                             token : 0..tokens,
                             row : 0..Len(invitation)]]
  /\ overtaken \in BOOLEAN

AccountInit ==
  /\ user = [known |-> FALSE, active |-> FALSE, linked |-> FALSE, password |-> 0]
  /\ invitation = <<>>
  /\ workspaces = 0
  /\ claims = {}
  /\ tokens = 0
  /\ handler = [c \in Client |-> Free]
  /\ overtaken = FALSE

Finish(c) == handler' = [handler EXCEPT ![c] = Free]
Continue(c, stage) == handler' = [handler EXCEPT ![c].stage = stage]

\* Requests that will write the password, an invitation or the activation.
Writers ==
  {c \in Client : handler[c].stage \in {"create", "renew", "renewing", "verify"}}
NoteOverlap == overtaken' = (overtaken \/ Writers # {})

NewInvitation(t) == [token |-> t, accepted |-> FALSE, expired |-> FALSE]
Pending == {i \in DOMAIN invitation : ~invitation[i].accepted}

-----------------------------------------------------------------------------
(* register_user.                                                          *)

\* The checks of the password are over; the account is not active.
Register(c) ==
  /\ handler[c] = Free
  /\ tokens < MaxTokens
  /\ ~user.active
  /\ tokens' = tokens + 1
  /\ handler' = [handler EXCEPT ![c] =
       [stage |-> IF user.known THEN "renew" ELSE "create", token |-> tokens + 1, row |-> 0]]
  /\ NoteOverlap
  /\ UNCHANGED <<user, invitation, workspaces, claims>>

\* The first registration, in one transaction.  A second one that saw no user
\* either is refused by the unique e-mail and raises (GiveUp).
CreateAccount(c) ==
  /\ handler[c].stage = "create"
  /\ ~user.known
  /\ user' = [user EXCEPT !.known = TRUE, !.password = handler[c].token]
  /\ invitation' = Append(invitation, NewInvitation(handler[c].token))
  /\ Finish(c)
  /\ UNCHANGED <<workspaces, claims, tokens, overtaken>>

\* Mutant: the pending invitation is left alone, and a new one is added.
FindNoInvitation(c) ==
  /\ handler[c].stage = "renew"
  /\ Continue(c, "renewing")
  /\ UNCHANGED <<user, invitation, workspaces, claims, tokens, overtaken>>

\* Any pending invitation: the query has no order.
FindInvitation(c) ==
  /\ handler[c].stage = "renew"
  /\ \/ \E i \in Pending :
          handler' = [handler EXCEPT ![c] = [@ EXCEPT !.stage = "renewing", !.row = i]]
     \/ /\ Pending = {}
        /\ Continue(c, "renewing")
  /\ UNCHANGED <<user, invitation, workspaces, claims, tokens, overtaken>>

\* Mutant: the password of the first registration is kept.
RenewTokenOnly(c) ==
  LET i == handler[c].row  new == NewInvitation(handler[c].token)
  IN  /\ handler[c].stage = "renewing"
      /\ invitation' = IF i = 0 THEN Append(invitation, new)
                       ELSE [invitation EXCEPT ![i] = [@ EXCEPT !.token = new.token, !.expired = FALSE]]
      /\ Finish(c)
      /\ UNCHANGED <<user, workspaces, claims, tokens, overtaken>>

\* The user's password and the invitation's token and time, whatever has
\* become of either; is_accepted is not written.
RenewAccount(c) ==
  LET i == handler[c].row  new == NewInvitation(handler[c].token)
  IN  /\ handler[c].stage = "renewing"
      /\ user' = [user EXCEPT !.password = new.token]
      /\ \/ /\ i = 0
            /\ invitation' = Append(invitation, new)
         \/ /\ i # 0
            /\ invitation' = [invitation EXCEPT ![i] = [@ EXCEPT !.token = new.token, !.expired = FALSE]]
      /\ Finish(c)
      /\ UNCHANGED <<workspaces, claims, tokens, overtaken>>

-----------------------------------------------------------------------------
(* verify_email.                                                           *)

\* Mutant: accepted invitations are found, too.
VerifyAgain(c) ==
  /\ handler[c] = Free
  /\ \E i \in DOMAIN invitation :
       /\ ~invitation[i].expired
       /\ handler' = [handler EXCEPT ![c] = [stage |-> "verify", token |-> 0, row |-> i]]
  /\ NoteOverlap
  /\ UNCHANGED <<user, invitation, workspaces, claims, tokens>>

\* A token that belongs to a pending invitation is presented.
Verify(c) ==
  /\ handler[c] = Free
  /\ \E i \in Pending :
       /\ ~invitation[i].expired
       /\ handler' = [handler EXCEPT ![c] = [stage |-> "verify", token |-> 0, row |-> i]]
  /\ NoteOverlap
  /\ UNCHANGED <<user, invitation, workspaces, claims, tokens>>

\* The account, the invitation, a new workspace and its Owner, in one transaction.
Activate(c) ==
  /\ handler[c].stage = "verify"
  /\ user' = [user EXCEPT !.active = TRUE]
  /\ invitation' = [invitation EXCEPT ![handler[c].row].accepted = TRUE]
  /\ workspaces' = workspaces + 1
  /\ Finish(c)
  /\ UNCHANGED <<claims, tokens, overtaken>>

-----------------------------------------------------------------------------
(* onboard_oauth_user and login_user, up to the session (RefreshTokens).   *)

\* By the provider's id, then by the e-mail.
Onboard(c) ==
  /\ handler[c] = Free
  /\ Continue(c, IF user.linked THEN "session" ELSE IF user.known THEN "link"
                 ELSE "provision")
  /\ UNCHANGED <<user, invitation, workspaces, claims, tokens, overtaken>>

\* An account that exists is activated; it gets no workspace, and keeps its
\* password and its invitation.
Link(c) ==
  /\ handler[c].stage = "link"
  /\ user' = [user EXCEPT !.linked = TRUE, !.active = TRUE]
  /\ Continue(c, "session")
  /\ UNCHANGED <<invitation, workspaces, claims, tokens, overtaken>>

\* A new account with its workspace; the unique e-mail refuses a second one.
Provision(c) ==
  /\ handler[c].stage = "provision"
  /\ ~user.known
  /\ user' = [user EXCEPT !.known = TRUE, !.linked = TRUE, !.active = TRUE]
  /\ workspaces' = workspaces + 1
  /\ Continue(c, "session")
  /\ UNCHANGED <<invitation, claims, tokens, overtaken>>

\* The password is right.
Login(c) ==
  /\ handler[c] = Free
  /\ user.active
  /\ user.password # 0
  /\ Continue(c, "session")
  /\ UNCHANGED <<user, invitation, workspaces, claims, tokens, overtaken>>

\* The session is for any of the user's workspaces, or for none.
OpenSession(c) ==
  /\ handler[c].stage = "session"
  /\ \E w \in IF workspaces = 0 THEN {0} ELSE 1..workspaces : claims' = claims \union {w}
  /\ Finish(c)
  /\ UNCHANGED <<user, invitation, workspaces, tokens, overtaken>>

-----------------------------------------------------------------------------

\* A day has passed.
Lapse(i) ==
  /\ ~invitation[i].expired
  /\ invitation' = [invitation EXCEPT ![i].expired = TRUE]
  /\ UNCHANGED <<user, workspaces, claims, tokens, handler, overtaken>>

\* The handler raises or its process dies; what it committed stays.
GiveUp(c) ==
  /\ handler[c] # Free
  /\ Finish(c)
  /\ UNCHANGED <<user, invitation, workspaces, claims, tokens, overtaken>>

AccountNext ==
  \/ \E c \in Client :
       \/ Register(c) \/ CreateAccount(c) \/ FindInvitation(c) \/ RenewAccount(c)
       \/ Verify(c) \/ Activate(c)
       \/ Onboard(c) \/ Link(c) \/ Provision(c) \/ Login(c) \/ OpenSession(c)
       \/ GiveUp(c)
  \/ \E i \in DOMAIN invitation : Lapse(i)

AccountSpec == AccountInit /\ [][AccountNext]_accountVars

-----------------------------------------------------------------------------
(* Properties.                                                             *)

\* An account that waits for its verification has one pending invitation, and
\* its token is that of the registration whose password the account has: what
\* registrations overlap, fail or are repeated, nobody is locked out and the
\* two rows never come from different registrations.
WaitingIsVerifiable ==
  user.known /\ ~user.active =>
    \E i \in Pending : Pending = {i} /\ invitation[i].token = user.password

\* The password an account was verified with is the one that was registered
\* with the accepted token, unless a request overtook another.
VerifiedItsPassword ==
  \A i \in DOMAIN invitation :
    invitation[i].accepted /\ ~overtaken => invitation[i].token = user.password

\* All sessions of a user are for the same workspace: one without any, which
\* every route with a permission refuses, is of an account that was linked
\* before it was verified, and a second workspace needs two requests at once.
SessionsShareWorkspace ==
  \A w \in claims : (w = 0 => user.linked) /\ (w > 1 => overtaken)

=============================================================================
