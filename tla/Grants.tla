-------------------------------- MODULE Grants --------------------------------
(****************************************************************************)
(* One mailbox and the users who sign in with it or connect it: the state   *)
(* nonce, the code exchange, the account's row, its refresh token, and the  *)
(* pause of an account whose token the provider has rejected.               *)
(*                                                                          *)
(* Source: routes/auth_google.py, routes/auth_microsoft.py, the disconnect  *)
(* of routes/auth.py, and the token refreshes of services/ingest.           *)
(*                                                                          *)
(* Each flow of the browser, and each refresh of a worker, reads without a  *)
(* lock and commits later; only the unique constraints see the others.      *)
(****************************************************************************)
EXTENDS Integers, FiniteSets

CONSTANTS
    User,
    Self,      \* the user, there or not, with the mailbox's address
    NoUser,
    Flow,      \* sign-ins, connections, disconnections
    Worker,    \* who refreshes tokens
    OldToken,  \* the refresh token of an account connected before
    NoToken,
    OldRow,
    NoRow

ASSUME SelfAssumption == Self \in User /\ NoUser \notin User
ASSUME TokenAssumption ==
    /\ Flow \cap Worker = {}
    /\ {OldToken, NoToken} \cap (Flow \cup Worker) = {}
    /\ OldToken # NoToken
ASSUME RowAssumption == {OldRow, NoRow} \cap Flow = {} /\ OldRow # NoRow

Token == Flow \cup Worker \cup {OldToken}
MaybeToken == Token \cup {NoToken}
Row == Flow \cup {OldRow}

VARIABLES
    provider,   \* "gmail" or "outlook"
    users,      \* the users there are
    account,    \* the row of provider_account for the mailbox
    nonce,      \* the states in Redis, by their flow
    flow,       \* Flow -> its locals
    worker,     \* Worker -> its locals
    alive,      \* the refresh tokens the provider accepts
    issued,     \* those it ever issued
    linked      \* history: refresh tokens the row has had

grantVars == <<provider, users, account, nonce, flow, worker, alive, issued, linked>>

Account ==
    [row : Row \cup {NoRow}, owner : User \cup {NoUser},
     refresh : MaybeToken, paused : BOOLEAN]

NoAccount == [row |-> NoRow, owner |-> NoUser, refresh |-> NoToken,
              paused |-> FALSE]

FlowLocal ==
    [kind : {"login", "connect", "disconnect"},
     pc : {"new", "consent", "exchange", "look", "commit", "revoke", "delete",
           "in", "refused", "done"},
     user : User \cup {NoUser},     \* current_user, or whom the login found
     refresh : MaybeToken,
     row : Row \cup {NoRow},        \* existing
     creates : BOOLEAN,             \* created_user
     again : BOOLEAN]               \* the second attempt

WorkerLocal ==
    [pc : {"idle", "ask", "pause", "write", "failed"},
     row : Row \cup {NoRow}, refresh : MaybeToken]

GrantTypeOK ==
    /\ provider \in {"gmail", "outlook"}
    /\ users \in SUBSET User
    /\ account \in Account /\ (account.row = NoRow => account = NoAccount)
    /\ nonce \in SUBSET Flow
    /\ flow \in [Flow -> FlowLocal]
    /\ worker \in [Worker -> WorkerLocal]
    /\ alive \in SUBSET Token
    /\ issued \in SUBSET Token /\ alive \subseteq issued
    /\ linked \in SUBSET Token

IdleWorker == [pc |-> "idle", row |-> NoRow, refresh |-> NoToken]

(* Somebody has connected the mailbox before, or nobody has.                *)
GrantInit ==
    /\ provider \in {"gmail", "outlook"}
    /\ users \in SUBSET User
    /\ account \in {NoAccount} \cup
         {[row |-> OldRow, owner |-> u, refresh |-> OldToken, paused |-> FALSE] :
             u \in users}
    /\ nonce = {}
    /\ flow = [f \in Flow |->
                 [kind |-> "login", pc |-> "new", user |-> NoUser,
                  refresh |-> NoToken, row |-> NoRow, creates |-> FALSE,
                  again |-> FALSE]]
    /\ worker = [w \in Worker |-> IdleWorker]
    /\ issued = {OldToken} /\ alive = {OldToken}
    /\ linked = {account.refresh} \ {NoToken}

-----------------------------------------------------------------------------
At(f, pc) == flow[f].pc = pc
Is(f, kind) == flow[f].kind = kind
Goto(f, pc) == flow' = [flow EXCEPT ![f].pc = pc]
There == account # NoAccount

unchangedRows == UNCHANGED <<users, account, linked>>
unchangedProvider == UNCHANGED <<provider, alive, issued>>

(* The start routes: the nonce remembers what for, and who asks.            *)
Started(f) ==
    /\ nonce' = nonce \cup {f}
    /\ unchangedRows /\ unchangedProvider
    /\ UNCHANGED worker

StartLogin(f) ==
    /\ At(f, "new")
    /\ flow' = [flow EXCEPT ![f].kind = "login", ![f].pc = "consent"]
    /\ Started(f)

StartConnect(f, u) ==
    /\ At(f, "new")
    /\ u \in users
    /\ flow' = [flow EXCEPT ![f].kind = "connect", ![f].pc = "consent",
                            ![f].user = u]
    /\ Started(f)

ForgetState(f) ==
    /\ f \in nonce
    /\ nonce' = nonce \ {f}
    /\ unchangedRows /\ unchangedProvider
    /\ UNCHANGED <<flow, worker>>

(* The callbacks consume the state, GETDEL: it must be there, of this mode, *)
(* and a connection must come back to the user who began it.                *)
Returns(f, accepted) ==
    /\ At(f, "consent")
    /\ nonce' = nonce \ {f}
    /\ Goto(f, IF f \in nonce /\ accepted THEN "exchange" ELSE "refused")
    /\ unchangedRows /\ unchangedProvider
    /\ UNCHANGED worker

LoginCallback(f) == Is(f, "login") /\ Returns(f, TRUE)

ConnectCallback(f, u) ==
    /\ Is(f, "connect")
    /\ u \in users
    /\ Returns(f, u = flow[f].user)

(* _exchange_code: a refresh token may come with it; or it fails.           *)
Exchanged(f) ==
    /\ At(f, "exchange")
    /\ \/ /\ flow' = [flow EXCEPT ![f].pc = "look", ![f].refresh = f]
          /\ alive' = alive \cup {f}
          /\ issued' = issued \cup {f}
       \/ /\ flow' = [flow EXCEPT ![f].pc = "look"]
          /\ UNCHANGED <<alive, issued>>
       \/ /\ Goto(f, "refused")
          /\ UNCHANGED <<alive, issued>>
    /\ unchangedRows
    /\ UNCHANGED <<provider, nonce, worker>>

(* The identity is the profile's address, or the token's tenant and object: *)
(* this mailbox, either way.                                                *)
ExchangeGmail(f) == provider = "gmail" /\ Exchanged(f)

ExchangeOutlook(f) == provider = "outlook" /\ Exchanged(f)

\* Mutant: the row is looked up by the mailbox alone.
ExistingOfAnyone(u) == account.row

(* The account's row, if it is this user's.                                 *)
Existing(u) == IF There /\ account.owner = u THEN account.row ELSE NoRow

Found(f, u) ==
    flow' = [flow EXCEPT ![f].user = u, ![f].row = Existing(u),
                         ![f].creates = u \notin users, ![f].pc = "commit"]

(* A Google login is the address's user, who may have to be created.        *)
LookGmail(f) ==
    /\ At(f, "look") /\ Is(f, "login") /\ provider = "gmail"
    /\ Found(f, Self)
    /\ unchangedRows /\ unchangedProvider
    /\ UNCHANGED <<nonce, worker>>

(* An identity that is not linked never gets at a user who is there.        *)
MayCreate == Self \notin users

(* A Microsoft login is the owner of the linked identity, whatever address  *)
(* it shows.                                                                *)
LookOutlook(f) ==
    /\ At(f, "look") /\ Is(f, "login") /\ provider = "outlook"
    /\ IF There THEN Found(f, account.owner)
       ELSE IF MayCreate THEN Found(f, Self)
       ELSE Goto(f, "refused")
    /\ unchangedRows /\ unchangedProvider
    /\ UNCHANGED <<nonce, worker>>

(* _connect_conflict: the address, or the account, is another user's.       *)
Conflict(u) ==
    \/ Self \in users /\ Self # u
    \/ There /\ account.owner # u

LookConnect(f) ==
    /\ At(f, "look") /\ Is(f, "connect")
    /\ IF Conflict(flow[f].user) THEN Goto(f, "refused")
       ELSE Found(f, flow[f].user)
    /\ unchangedRows /\ unchangedProvider
    /\ UNCHANGED <<nonce, worker>>

-----------------------------------------------------------------------------
(* The commit of a login or a connection.                                   *)

(* The row was not there when it was looked for: an insert.                 *)
Inserts(f) == flow[f].row = NoRow

(* uq_provider_account_provider_external_user: the insert of a row that     *)
(* somebody has inserted.                                                   *)
Clash(f) == Inserts(f) /\ There

(* _upsert_gmail_account, _upsert_outlook_account: "Only a replacement can  *)
(* prove it is safe to schedule this mailbox again."                        *)
Upsert(f) ==
    LET fresh == flow[f].refresh
    IN  IF Inserts(f)
        THEN [row |-> f, owner |-> flow[f].user, refresh |-> fresh,
              paused |-> FALSE]
        ELSE IF fresh = NoToken THEN account
        ELSE [account EXCEPT !.refresh = fresh, !.paused = FALSE]

(* ux_app_user_email_lower: somebody else has created the user.             *)
UserClash(f) == flow[f].creates /\ flow[f].user \in users

(* Nothing is in the way, or the row that was found is still there.         *)
Commits(f) ==
    /\ At(f, "commit")
    /\ ~UserClash(f) /\ ~Clash(f)
    /\ Inserts(f) \/ account.row = flow[f].row

Link(f) ==
    /\ Commits(f)
    /\ account' = Upsert(f)
    /\ linked' = linked \cup ({account'.refresh} \ {NoToken})
    /\ users' = users \cup {flow[f].user}
    /\ Goto(f, IF Is(f, "login") THEN "in" ELSE "done")
    /\ unchangedProvider
    /\ UNCHANGED <<nonce, worker>>

(* A login that lost its insert looks once more: at Google for a user who   *)
(* was created meanwhile, at Microsoft for the linked identity.             *)
Retries(f) ==
    /\ ~flow[f].again
    /\ \/ provider = "gmail" /\ flow[f].creates /\ flow[f].user \in users
       \/ provider = "outlook" /\ (UserClash(f) \/ Clash(f)) /\ There

LoseLogin(f) ==
    /\ At(f, "commit") /\ Is(f, "login") /\ ~Commits(f)
    /\ flow' = [flow EXCEPT ![f].again = TRUE,
                  ![f].pc = IF Retries(f) THEN "look" ELSE "refused"]
    /\ unchangedRows /\ unchangedProvider
    /\ UNCHANGED <<nonce, worker>>

LoseConnect(f) ==
    /\ At(f, "commit") /\ Is(f, "connect") /\ ~Commits(f)
    /\ Goto(f, "refused")
    /\ unchangedRows /\ unchangedProvider
    /\ UNCHANGED <<nonce, worker>>

-----------------------------------------------------------------------------
(* delete_connection.                                                       *)

ReadConnection(f) ==
    /\ At(f, "new")
    /\ There
    /\ flow' = [flow EXCEPT ![f].kind = "disconnect",
                  ![f].user = account.owner, ![f].row = account.row,
                  ![f].refresh = account.refresh,
                  ![f].pc = IF provider = "gmail" /\ account.refresh # NoToken
                            THEN "revoke" ELSE "delete"]
    /\ unchangedRows /\ unchangedProvider
    /\ UNCHANGED <<nonce, worker>>

(* Best effort.  Google drops the grant, with every token of it.            *)
RevokeGoogle(f) ==
    /\ At(f, "revoke")
    /\ alive' \in {alive, IF flow[f].refresh \in alive THEN {} ELSE alive}
    /\ Goto(f, "delete")
    /\ unchangedRows
    /\ UNCHANGED <<provider, issued, nonce, worker>>

DeleteConnection(f) ==
    /\ At(f, "delete")
    /\ account' = IF account.row = flow[f].row THEN NoAccount ELSE account
    /\ linked' = IF account.row = flow[f].row THEN {} ELSE linked
    /\ Goto(f, "done")
    /\ unchangedProvider
    /\ UNCHANGED <<users, nonce, worker>>

-----------------------------------------------------------------------------
(* A worker whose access token has lapsed.                                  *)

NeedsToken == There /\ account.refresh # NoToken /\ ~account.paused

(* It has the row and its refresh token from the start of its run.          *)
Begin(w) ==
    /\ worker[w].pc \in {"idle", "failed"}
    /\ NeedsToken
    /\ worker' = [worker EXCEPT ![w] =
                    [pc |-> "ask", row |-> account.row,
                     refresh |-> account.refresh]]
    /\ unchangedRows /\ unchangedProvider
    /\ UNCHANGED <<nonce, flow>>

\* Mutants: every refusal of a refresh counts as the grant's end; a revoked
\* grant counts as a passing failure.
PermanentAny(t) == TRUE
PermanentUnknown(t) == t \notin issued

(* _is_invalid_grant, _is_permanent_auth_error.                             *)
Permanent(t) == t \notin alive

(* The refresh is asked: given, at Microsoft perhaps with a new refresh     *)
(* token; or refused for good; or it fails and the run with it.             *)
Given(w) ==
    /\ worker[w].pc = "ask"
    /\ worker[w].refresh \in alive
    /\ \/ /\ worker' = [worker EXCEPT ![w].pc = "write"]
          /\ UNCHANGED <<alive, issued>>
       \/ /\ provider = "outlook"
          /\ w \notin issued
          /\ worker' = [worker EXCEPT ![w].pc = "write", ![w].refresh = w]
          /\ alive' = alive \cup {w}
          /\ issued' = issued \cup {w}
    /\ unchangedRows
    /\ UNCHANGED <<provider, nonce, flow>>

RefusedForGood(w) ==
    /\ worker[w].pc = "ask"
    /\ Permanent(worker[w].refresh)
    /\ worker' = [worker EXCEPT ![w].pc = "pause"]
    /\ unchangedRows /\ unchangedProvider
    /\ UNCHANGED <<nonce, flow>>

Fails(w) ==
    /\ worker[w].pc \notin {"idle", "failed"}
    /\ worker' = [worker EXCEPT ![w] = [IdleWorker EXCEPT !.pc = "failed"]]
    /\ unchangedRows /\ unchangedProvider
    /\ UNCHANGED <<nonce, flow>>

(* _pause_provider, in its own transaction, whatever the row has by now.    *)
Pause(w) ==
    /\ worker[w].pc = "pause"
    /\ account' = IF account.row = worker[w].row
                  THEN [account EXCEPT !.paused = TRUE] ELSE account
    /\ worker' = [worker EXCEPT ![w] = IdleWorker]
    /\ unchangedProvider
    /\ UNCHANGED <<users, linked, nonce, flow>>

(* _refresh_and_persist_token keeps the refresh token, new or old; Gmail's  *)
(* refresh leaves it alone.                                                 *)
Kept(w) ==
    IF account.row = worker[w].row /\ provider = "outlook"
    THEN [account EXCEPT !.refresh = worker[w].refresh] ELSE account

WriteToken(w) ==
    /\ worker[w].pc = "write"
    /\ account' = Kept(w)
    /\ linked' = linked \cup ({account'.refresh} \ {NoToken})
    /\ worker' = [worker EXCEPT ![w] = IdleWorker]
    /\ unchangedProvider
    /\ UNCHANGED <<users, nonce, flow>>

(* The user withdraws the app's access at the provider.                     *)
Withdraw ==
    /\ alive # {}
    /\ alive' = {}
    /\ unchangedRows
    /\ UNCHANGED <<provider, issued, nonce, flow, worker>>

(* Somebody signs up with a password: see SignIn.                           *)
Register(u) ==
    /\ u \notin users
    /\ users' = users \cup {u}
    /\ unchangedProvider
    /\ UNCHANGED <<account, linked, nonce, flow, worker>>

-----------------------------------------------------------------------------
FlowStep(f) ==
    \/ StartLogin(f) \/ ForgetState(f) \/ LoginCallback(f)
    \/ \E u \in User : StartConnect(f, u) \/ ConnectCallback(f, u)
    \/ ExchangeGmail(f) \/ ExchangeOutlook(f)
    \/ LookGmail(f) \/ LookOutlook(f) \/ LookConnect(f)
    \/ Link(f) \/ LoseLogin(f) \/ LoseConnect(f)
    \/ ReadConnection(f) \/ RevokeGoogle(f) \/ DeleteConnection(f)

WorkerStep(w) == Given(w) \/ RefusedForGood(w) \/ Pause(w) \/ WriteToken(w)

GrantNext ==
    \/ \E f \in Flow : FlowStep(f)
    \/ \E w \in Worker : Begin(w) \/ WorkerStep(w) \/ Fails(w)
    \/ \E u \in User : Register(u)
    \/ Withdraw

GrantSpec == GrantInit /\ [][GrantNext]_grantVars

(* The scheduler comes back to the account; a worker gets on.               *)
FairGrantSpec == GrantSpec /\ \A w \in Worker : WF_grantVars(Begin(w)) /\ WF_grantVars(WorkerStep(w))

-----------------------------------------------------------------------------
(* Safety.                                                                  *)

(* An account is paused for a refresh token that the provider rejected and  *)
(* that this very row has had; a row connected anew is not blamed for the   *)
(* token of the row before it.                                              *)
PausedForCause == account.paused => linked \ alive # {}

(* What holds of the account in every state, by its parts.                  *)
GrantInv == GrantTypeOK /\ PausedForCause

(* A token is new when it is issued, and what the row has had was issued.   *)
TokenInv ==
    /\ account.refresh \in linked \cup {NoToken}
    /\ linked \subseteq issued
    /\ \A f \in Flow :
          /\ flow[f].pc \in {"new", "consent", "exchange"} => f \notin issued
          /\ flow[f].refresh \in issued \cup {NoToken}

(* Nobody knows the row of a flow that has not committed it.                *)
NewRowInv ==
    \A f \in Flow : flow[f].pc \notin {"in", "done"} =>
        /\ account.row # f
        /\ \A g \in Flow : flow[g].row # f
        /\ \A w \in Worker : worker[w].row # f

(* What a flow has found stays true of the row, should it still be there.   *)
FlowInv ==
    /\ There => account.owner \in User
    /\ \A f \in Flow :
          /\ Is(f, "connect") /\ ~At(f, "new") => flow[f].user \in User
          /\ At(f, "commit") =>
                /\ flow[f].user \in User /\ ~Is(f, "disconnect")
                /\ account.row = flow[f].row => Inserts(f) \/ account.owner = flow[f].user
                /\ provider = "outlook" /\ Is(f, "login") /\ Inserts(f)
                      => flow[f].creates

(* A worker's token is one its row has had; when it is about to pause, one  *)
(* that is dead.                                                            *)
WorkerInv ==
    \A w \in Worker : worker[w].pc \in {"ask", "pause", "write"} =>
        /\ worker[w].row # NoRow
        /\ worker[w].refresh \in issued
        /\ worker[w].pc # "write" /\ account.row = worker[w].row
              => worker[w].refresh \in linked
        /\ worker[w].pc = "pause" => worker[w].refresh \notin alive

(* The strengthened invariant of the row and of those at work on it.        *)
GrantIInv == GrantInv /\ TokenInv /\ NewRowInv /\ FlowInv /\ WorkerInv

(* Whoever signs in with the mailbox is its owner, also when two sign-ins,  *)
(* or a sign-in and a connection, race for it.                              *)
SignsInAsOwner ==
    \A f \in Flow : At(f, "commit") /\ flow'[f].pc = "in" =>
        account'.owner = flow[f].user

(* "The user and provider link deliberately commit together": a sign-in     *)
(* that loses its link leaves no user behind.                               *)
LeavesNoEmptyUser ==
    \A f \in Flow : At(f, "commit") /\ flow'[f].pc # "commit" =>
        \A u \in users' \ users : account'.owner = u

(* A Microsoft identity that is not linked signs in as a newcomer or not at *)
(* all: never as a user who was there, however the two requests interleave. *)
SignsInAsNewcomer ==
    \A f \in Flow :
        provider = "outlook" /\ At(f, "commit") /\ flow'[f].pc = "in" /\ ~There
           => flow[f].user \notin users

(* A mailbox changes hands by a disconnection only.                         *)
KeepsItsOwner ==
    There /\ account'.row # NoRow => account'.owner = account.owner

(* Whose a mailbox is: every path to it agrees in every step, and nobody is *)
(* made for it in vain.                                                     *)
OneOwner ==
    [][ /\ SignsInAsOwner /\ LeavesNoEmptyUser
        /\ SignsInAsNewcomer /\ KeepsItsOwner ]_grantVars

(* "A paused account has a dead refresh token": a pause that was decided    *)
(* before a reconnection and written after it breaks this.                  *)
PausedIsDead == account.paused => account.refresh \notin alive

-----------------------------------------------------------------------------
(* Liveness.                                                                *)
Dead == There /\ ~account.paused /\ account.refresh \in issued \ alive

(* Workers do not fail any more.                                            *)
Steady == <>[][~\E w \in Worker : Fails(w)]_grantVars

(* An account whose token is dead does not stay in the schedule: it is      *)
(* paused, connected anew, or gone.                                         *)
DeadIsNoticed == Steady => (Dead ~> ~Dead)
===============================================================================
