-------------------------------- MODULE SignIn --------------------------------
(****************************************************************************)
(* Signing in to one address: passwords, the links mailed for them, the     *)
(* sessions they give and the revocations that end those.                   *)
(*                                                                          *)
(* Source: routes/auth_password.py, services/auth_tokens.py,                *)
(* workers/tasks_email.py, core/ratelimit.py, core/security.py, deps.py,    *)
(* and the sign-in callbacks of routes/auth_google.py, auth_microsoft.py.   *)
(*                                                                          *)
(* A request runs once; its statements interleave with those of the others. *)
(* A link is named for the request that issued it.  Reading the user's row  *)
(* FOR UPDATE and committing is one step: nobody else can write that row in *)
(* between, and nobody sees it half written.                                *)
(****************************************************************************)
EXTENDS Integers, FiniteSets

CONSTANTS
    Request,       \* the requests that may come
    OldVerify,     \* a verification link mailed before
    OldReset,      \* a reset link mailed before
    Password,
    NoPassword,
    TryLimit       \* login attempts a window allows

ASSUME RequestAssumption ==
    IsFiniteSet(Request) /\ {OldVerify, OldReset} \cap Request = {}
ASSUME DistinctAssumption == OldVerify # OldReset
ASSUME PasswordAssumption == NoPassword \notin Password
ASSUME LimitAssumption == TryLimit \in Nat \ {0}

Link == Request \cup {OldVerify, OldReset}
Purpose == {"verify_email", "password_reset"}
Kind == {"signup", "resend", "forgot", "verify", "reset", "login", "revoke",
         "google", "microsoft"}
MaybePassword == Password \cup {NoPassword}

VARIABLES
    user,      \* the row of app_user for the address
    live,      \* the rows of auth_token, by their link
    link,      \* Link -> what its row says
    mail,      \* send_auth_email tasks
    inbox,     \* the links that reached the mailbox
    req,       \* Request -> its locals
    hits,      \* the limiter's counter
    ticking,   \* whether the counter has its expiry
    \* history
    sessions,  \* the session tokens minted
    revoked,   \* how often all of them were revoked
    spent,     \* Link -> how often it was consumed for good
    tries      \* password checks let through in this window

linkVars == <<live, link, mail, inbox>>
limitVars == <<hits, ticking, tries>>
vars == <<user, linkVars, req, limitVars, sessions, revoked, spent>>

Version == 0 .. Cardinality(Request)

User ==
    [there : BOOLEAN, hash : MaybePassword,
     legacy : BOOLEAN,                \* hashed with former parameters
     verified : BOOLEAN,              \* email_verified_at is set
     tv : Version]                    \* token_version

Row ==
    [purpose : Purpose, hash : MaybePassword,
     saw : SUBSET Link]               \* history: its like when it was issued

Place == {"new", "pending", "delete", "insert", "consume", "look", "create",
          "count", "expire", "read", "rehash", "auth", "bump", "mint", "done"}

Local ==
    [kind : Kind, pc : Place, pass : MaybePassword,
     link : Link, over : SUBSET Link, tv : Version,
     saw : SUBSET Link]               \* history

Session == [tv : Version, born : Version]

TypeOK ==
    /\ user \in User
    /\ live \in SUBSET Link
    /\ link \in [Link -> Row]
    /\ mail \in SUBSET Link
    /\ inbox \in SUBSET Link
    /\ req \in [Request -> Local]
    /\ hits \in 0 .. TryLimit + 1
    /\ ticking \in BOOLEAN
    /\ sessions \in SUBSET Session
    /\ revoked \in Version
    /\ spent \in [Link -> 0 .. 1]
    /\ tries \in 0 .. TryLimit + 1

NoUser == [there |-> FALSE, hash |-> NoPassword, legacy |-> FALSE,
           verified |-> FALSE, tv |-> 0]

(* Nobody, or somebody who came through a provider, or has a password,      *)
(* perhaps of former parameters; each old link may still be there.          *)
Init ==
    /\ user \in {NoUser} \cup
         {[there |-> TRUE, hash |-> p, legacy |-> l, verified |-> v, tv |-> 0] :
             p \in MaybePassword, l \in BOOLEAN, v \in BOOLEAN}
    /\ user.legacy => user.hash # NoPassword
    /\ user.hash # NoPassword => user.verified
    /\ live \in SUBSET {OldVerify, OldReset}
    /\ \E p \in Password :
         link = [t \in Link |->
                   [purpose |-> IF t = OldReset THEN "password_reset"
                                ELSE "verify_email",
                    hash |-> IF t = OldVerify THEN p ELSE NoPassword,
                    saw |-> {}]]
    /\ mail = {}
    /\ inbox = live
    /\ req = [r \in Request |->
                [kind |-> "login", pc |-> "new", pass |-> NoPassword,
                 link |-> r, over |-> {}, tv |-> 0, saw |-> {}]]
    /\ hits = 0 /\ ticking = FALSE
    /\ sessions = {} /\ revoked = 0
    /\ spent = [t \in Link |-> 0]
    /\ tries = 0

-----------------------------------------------------------------------------
At(r, pc) == req[r].pc = pc
Is(r, kinds) == req[r].kind \in kinds
Goto(r, pc) == req' = [req EXCEPT ![r].pc = pc]

\* Mutant: the row is read, and deleted with the commit.
Unlocked == {}

(* A token row that an open transaction has deleted.                        *)
Taken == {req[r].link : r \in {q \in Request : /\ Is(q, {"verify", "reset"})
                                               /\ req[q].pc \in {"look", "create"}}}

(* A request comes in: with a password, or with a link from the mailbox.    *)
Come(r) ==
    /\ At(r, "new")
    /\ \/ \E k \in {"signup", "login"}, p \in Password :
            req' = [req EXCEPT ![r].kind = k, ![r].pass = p,
                      ![r].pc = IF k = "signup" THEN "delete" ELSE "count"]
       \/ \E t \in inbox, k \in {"verify", "reset"}, p \in Password :
            req' = [req EXCEPT ![r].kind = k, ![r].link = t, ![r].pc = "consume",
                      ![r].pass = IF k = "reset" THEN p ELSE NoPassword]
       \/ \E k \in {"resend", "forgot", "revoke", "google", "microsoft"} :
            req' = [req EXCEPT ![r].kind = k,
                      ![r].pc = CASE k = "resend" -> "pending"
                                  [] k = "forgot" -> "delete"
                                  [] k = "revoke" -> "auth"
                                  [] OTHER -> "look"]
    /\ UNCHANGED <<user, linkVars, limitVars, sessions, revoked, spent>>

-----------------------------------------------------------------------------
(* Issuing a link.                                                          *)

(* resend_verification: the pending hash is read, to be issued anew.        *)
ReadPending(r) ==
    /\ At(r, "pending")
    /\ LET Pending == {t \in live : link[t].purpose = "verify_email"}
       IN  \/ /\ Pending = {}
              /\ Goto(r, "done")
           \/ \E t \in Pending :
                req' = [req EXCEPT ![r].pass = link[t].hash, ![r].pc = "delete"]
    /\ UNCHANGED <<user, linkVars, limitVars, sessions, revoked, spent>>

PurposeOf(r) == IF Is(r, {"forgot"}) THEN "password_reset" ELSE "verify_email"

Like(r) == {t \in live : link[t].purpose = PurposeOf(r)}

(* issue_token's first statement sees the rows committed so far ...         *)
Earlier(r) == Like(r)

DeleteEarlier(r) ==
    /\ At(r, "delete")
    /\ req' = [req EXCEPT ![r].over = Earlier(r), ![r].saw = Like(r),
                           ![r].pc = "insert"]
    /\ UNCHANGED <<user, linkVars, limitVars, sessions, revoked, spent>>

(* ... and deletes them once whoever is consuming one is done; the new row  *)
(* is inserted, the transaction committed and the mail queued.              *)
Issue(r) ==
    LET over == req[r].over
    IN  /\ At(r, "insert")
        /\ over \cap Taken = {}
        /\ live' = (live \ over) \cup {r}
        /\ link' = [link EXCEPT ![r] =
                      [purpose |-> PurposeOf(r), saw |-> req[r].saw,
                       hash |-> IF Is(r, {"forgot"}) THEN NoPassword
                                ELSE req[r].pass]]
        /\ mail' = mail \cup {r}
        /\ Goto(r, "done")
        /\ UNCHANGED <<user, inbox, limitVars, sessions, revoked, spent>>

(* send_auth_email chooses what to send when it runs: a link, or without it *)
(* that the account exists, or nothing to an address it does not know.      *)
SendsLink(t) ==
    \/ link[t].purpose = "verify_email" /\ user.hash = NoPassword
    \/ link[t].purpose = "password_reset" /\ user.there

(* A task that runs out of retries sends nothing, like one that never runs. *)
SendMail(t) ==
    /\ t \in mail
    /\ mail' = mail \ {t}
    /\ inbox' = IF SendsLink(t) THEN inbox \cup {t} ELSE inbox
    /\ UNCHANGED <<user, live, link, req, limitVars, sessions, revoked, spent>>

Expire(t) ==
    /\ t \in live \ Taken
    /\ live' = live \ {t}
    /\ UNCHANGED <<user, link, mail, inbox, req, limitVars, sessions, revoked,
                   spent>>

-----------------------------------------------------------------------------
(* Spending a link.                                                         *)

(* consume_token: live, and of this purpose.                                *)
Consumable(r) ==
    /\ req[r].link \in live
    /\ link[req[r].link].purpose =
         IF Is(r, {"verify"}) THEN "verify_email" ELSE "password_reset"

(* DELETE ... RETURNING waits for another transaction that has the row.     *)
Consume(r) ==
    /\ At(r, "consume")
    /\ req[r].link \notin Taken
    /\ Goto(r, IF Consumable(r) THEN "look" ELSE "done")
    /\ UNCHANGED <<user, linkVars, limitVars, sessions, revoked, spent>>

(* The transaction that consumed the link is committed.                     *)
Spend(r) ==
    LET t == req[r].link
    IN  /\ live' = live \ {t}
        /\ spent' = [spent EXCEPT ![t] = @ + 1]
        /\ UNCHANGED <<link, mail, inbox>>

\* Mutant: a verification replaces the password there is.
ApplyAnyPassword(u, hash) == [u EXCEPT !.hash = hash, !.verified = TRUE]

(* _apply_verified_password: onto a NULL hash only.                         *)
ApplyVerifiedPassword(u, hash) ==
    [u EXCEPT !.hash = IF u.hash = NoPassword THEN hash ELSE u.hash,
              !.verified = TRUE]

(* verify_email, when the user is there: the link of an address that has a  *)
(* password already is spent and refused.                                   *)
VerifyUser(r) ==
    /\ At(r, "look") /\ Is(r, {"verify"})
    /\ IF user.there
       THEN /\ user' = ApplyVerifiedPassword(user, link[req[r].link].hash)
            /\ Spend(r)
            /\ Goto(r, IF user.hash = NoPassword THEN "mint" ELSE "done")
       ELSE /\ Goto(r, "create")
            /\ UNCHANGED <<user, linkVars, spent>>
    /\ UNCHANGED <<limitVars, sessions, revoked>>

(* ... and when it was not: the insert may lose to another's.  The rollback *)
(* gives the link back, to be consumed again.                               *)
VerifyNewUser(r) ==
    /\ At(r, "create") /\ Is(r, {"verify"})
    /\ IF user.there
       THEN /\ Goto(r, "consume")
            /\ UNCHANGED <<user, linkVars, spent>>
       ELSE /\ user' = ApplyVerifiedPassword([NoUser EXCEPT !.there = TRUE],
                                             link[req[r].link].hash)
            /\ Spend(r)
            /\ Goto(r, "mint")
    /\ UNCHANGED <<limitVars, sessions, revoked>>

\* Mutant: the version read with the request's user is written back.
VersionAfterRead(r) == req[r].tv + 1

(* "A SQL increment prevents two concurrent resets from both writing n+1".  *)
NextVersion(r) == user.tv + 1

(* reset_password; without a user its transaction is rolled back.           *)
Reset(r) ==
    /\ At(r, "look") /\ Is(r, {"reset"})
    /\ IF user.there
       THEN /\ user' = [user EXCEPT !.hash = req[r].pass, !.legacy = FALSE,
                                    !.verified = TRUE, !.tv = NextVersion(r)]
            /\ revoked' = revoked + 1
            /\ Spend(r)
            /\ Goto(r, "mint")
       ELSE /\ Goto(r, "done")
            /\ UNCHANGED <<user, linkVars, revoked, spent>>
    /\ UNCHANGED <<limitVars, sessions>>

-----------------------------------------------------------------------------
(* Logging in.                                                              *)

(* Is the counter, after the hit of this request, within the limit?         *)
Within(count) == count <= TryLimit

Admit(r, count) ==
    /\ Goto(r, IF Within(count) THEN "read" ELSE "done")
    /\ tries' = IF Within(count) /\ tries <= TryLimit THEN tries + 1 ELSE tries

(* _enforce: INCR, and EXPIRE by whoever counted one.  Redis may be away:   *)
(* then the request is let through.                                         *)
Count(r) ==
    LET count == IF hits > TryLimit THEN hits ELSE hits + 1
    IN  /\ At(r, "count")
        /\ hits' = count
        /\ IF count = 1 THEN Goto(r, "expire") /\ UNCHANGED tries
                        ELSE Admit(r, count)
        /\ UNCHANGED <<user, linkVars, ticking, sessions, revoked, spent>>

SetExpiry(r) ==
    /\ At(r, "expire")
    /\ ticking' = (hits > 0)
    /\ Admit(r, 1)
    /\ UNCHANGED <<user, linkVars, hits, sessions, revoked, spent>>

LimiterAway(r) ==
    /\ At(r, "count") \/ At(r, "expire")
    /\ Goto(r, "read")
    /\ UNCHANGED <<user, linkVars, limitVars, sessions, revoked, spent>>

WindowEnds ==
    /\ ticking
    /\ hits' = 0 /\ ticking' = FALSE /\ tries' = 0
    /\ UNCHANGED <<user, linkVars, req, sessions, revoked, spent>>

(* verify_password: never without a stored hash.                            *)
Verified(r) == user.hash # NoPassword /\ user.hash = req[r].pass

(* login: the row is read, without a lock, and the password verified.       *)
ReadUser(r) ==
    /\ At(r, "read")
    /\ req' = [req EXCEPT
                 ![r].tv = user.tv,
                 ![r].pc = IF ~Verified(r) THEN "done"
                           ELSE IF user.legacy THEN "rehash" ELSE "mint"]
    /\ UNCHANGED <<user, linkVars, limitVars, sessions, revoked, spent>>

(* A hash of former parameters is replaced by one of the password verified. *)
Rehash(r) ==
    /\ At(r, "rehash")
    /\ user' = [user EXCEPT !.hash = req[r].pass, !.legacy = FALSE]
    /\ req' = [req EXCEPT ![r].tv = user.tv, ![r].pc = "mint"]
    /\ UNCHANGED <<linkVars, limitVars, sessions, revoked, spent>>

(* The sign-in callbacks.  Google vouches for the address; Microsoft does   *)
(* not, and never gets at a user who is there already.                      *)
ProviderLook(r) ==
    /\ At(r, "look") /\ Is(r, {"google", "microsoft"})
    /\ IF ~user.there THEN Goto(r, "create") /\ UNCHANGED user
       ELSE IF Is(r, {"microsoft"}) THEN Goto(r, "done") /\ UNCHANGED user
       ELSE user' = [user EXCEPT !.verified = TRUE] /\ Goto(r, "mint")
    /\ UNCHANGED <<linkVars, limitVars, sessions, revoked, spent>>

ProviderCreate(r) ==
    /\ At(r, "create") /\ Is(r, {"google", "microsoft"})
    /\ IF user.there
       THEN /\ Goto(r, IF Is(r, {"google"}) THEN "look" ELSE "done")
            /\ UNCHANGED user
       ELSE /\ user' = [NoUser EXCEPT !.there = TRUE,
                                      !.verified = Is(r, {"google"})]
            /\ Goto(r, "mint")
    /\ UNCHANGED <<linkVars, limitVars, sessions, revoked, spent>>

(* _token_out.  After a commit the row is read again; a login that did not  *)
(* commit has the version it read.                                          *)
Mint(r) ==
    LET tv == IF Is(r, {"login"}) THEN req[r].tv ELSE user.tv
    IN  /\ At(r, "mint")
        /\ sessions' = sessions \cup {[tv |-> tv, born |-> revoked]}
        /\ Goto(r, "done")
        /\ UNCHANGED <<user, linkVars, limitVars, revoked, spent>>

-----------------------------------------------------------------------------
(* Sessions.                                                                *)

(* get_current_user: the version of the token must be the user's.           *)
Valid(s) == user.there /\ s.tv = user.tv

Authorize(r) ==
    /\ At(r, "auth")
    /\ req' = [req EXCEPT ![r].tv = user.tv,
                 ![r].pc = IF \E s \in sessions : Valid(s) THEN "bump" ELSE "done"]
    /\ UNCHANGED <<user, linkVars, limitVars, sessions, revoked, spent>>

(* revoke_all_tokens.                                                       *)
Revoke(r) ==
    /\ At(r, "bump")
    /\ user' = [user EXCEPT !.tv = NextVersion(r)]
    /\ revoked' = revoked + 1
    /\ Goto(r, "done")
    /\ UNCHANGED <<linkVars, limitVars, sessions, spent>>

-----------------------------------------------------------------------------
Step(r) ==
    \/ ReadPending(r) \/ DeleteEarlier(r) \/ Issue(r)
    \/ Consume(r) \/ VerifyUser(r) \/ VerifyNewUser(r) \/ Reset(r)
    \/ Count(r) \/ SetExpiry(r) \/ LimiterAway(r) \/ ReadUser(r) \/ Rehash(r)
    \/ ProviderLook(r) \/ ProviderCreate(r) \/ Mint(r)
    \/ Authorize(r) \/ Revoke(r)

Next ==
    \/ \E r \in Request : Come(r) \/ Step(r)
    \/ \E t \in Link : SendMail(t) \/ Expire(t)
    \/ WindowEnds

Spec == Init /\ [][Next]_vars

-----------------------------------------------------------------------------
(* Safety.                                                                  *)

(* A link works once, for whoever commits first, also when a verification   *)
(* lost its insert and consumes its link again.                             *)
SpentOnce == \A t \in Link : spent[t] <= 1 /\ (spent[t] = 1 => t \notin live)

(* "Kill every session token this user holds": a session minted before the  *)
(* latest revocation or reset is not accepted after it.                     *)
RevokedIsDead == \A s \in sessions : Valid(s) => s.born = revoked

(* "Reissuing invalidates an earlier token for this email and purpose", if  *)
(* that one was committed before: two links live at once were issued at     *)
(* once.                                                                    *)
EarlierLinkDies ==
    \A r \in live \cap Request, t \in live : t \notin link[r].saw

(* A password is on the row of a verified address only, whichever of the    *)
(* racing requests created that row.                                        *)
PasswordIsVerified == user.hash # NoPassword => user.verified

(* The limiter lets no more attempts through in a window than it says.      *)
BoundedTries == tries <= TryLimit

(* What holds of the tables in every state, by its parts.                   *)
Inv ==
    TypeOK /\ SpentOnce /\ EarlierLinkDies /\ PasswordIsVerified /\ BoundedTries

(* Why: the parts of an inductive invariant, with versions unbounded.       *)
WideUser ==
    [there : BOOLEAN, hash : MaybePassword, legacy : BOOLEAN,
     verified : BOOLEAN, tv : Nat]
WideLocal ==
    [kind : Kind, pc : Place, pass : MaybePassword, link : Link,
     over : SUBSET Link, tv : Nat, saw : SUBSET Link]

Typed ==
    /\ user \in WideUser
    /\ req \in [Request -> WideLocal]
    /\ live \in SUBSET Link /\ inbox \in SUBSET Link /\ mail \in SUBSET Link
    /\ link \in [Link -> Row]
    /\ spent \in [Link -> Nat]

Holding(r) == Is(r, {"verify", "reset"}) /\ req[r].pc \in {"look", "create"}

(* A link is held by at most one open transaction, and comes once.          *)
LinkInv ==
    /\ \A t \in Link : spent[t] # 0 => spent[t] = 1 /\ t \notin live
    /\ \A r \in Request : r \in live \/ spent[r] # 0 => At(r, "done")
    /\ \A r \in Request : Holding(r) => req[r].link \in live
    /\ \A q, r \in Request :
          Holding(q) /\ Holding(r) /\ req[q].link = req[r].link => q = r

(* What an issue saw is deleted by it, and is not issued again.             *)
SawInv ==
    /\ \A r \in Request : At(r, "insert") =>
          /\ req[r].saw = req[r].over
          /\ \A t \in req[r].saw \cap Request : At(t, "done")
    /\ \A r \in live \cap Request :
          \A t \in link[r].saw : t \notin live /\ (t \in Request => At(t, "done"))

(* The version counts the revocations, and no session is ahead of it.       *)
VersionInv ==
    /\ revoked = user.tv
    /\ user.there \/ user.tv = 0
    /\ \A r \in Request : req[r].tv <= user.tv
    /\ \A s \in sessions : /\ s.tv \in Nat /\ s.born \in Nat
                           /\ s.tv <= s.born /\ s.born <= revoked

PasswordInv ==
    /\ user.hash # NoPassword => user.there /\ user.verified
    /\ \A r \in Request : At(r, "rehash") => user.there /\ user.verified
    /\ \A r \in Request : At(r, "bump") => user.there

IInv == Typed /\ LinkInv /\ SawInv /\ VersionInv /\ PasswordInv

(* A try was counted first; whoever counted one has yet to set the expiry   *)
(* and to be let through, and the window cannot end before.                 *)
LimitInv ==
    /\ hits \in 0 .. TryLimit + 1 /\ ticking \in BOOLEAN
    /\ tries \in 0 .. TryLimit /\ tries <= hits
    /\ ticking => hits > 0
    /\ \A r \in Request : At(r, "expire") =>
          ~ticking /\ hits > 0 /\ tries < hits /\ tries < TryLimit
    /\ \A q, r \in Request : At(q, "expire") /\ At(r, "expire") => q = r

(* A request revokes at most once: it is over, but for its session, then.   *)
Past == {r \in Request : req[r].pc \in {"mint", "done"}}

CountInv ==
    /\ user.tv <= Cardinality(Past)
    /\ sessions \in SUBSET [tv : Nat, born : Nat]

TableInv == IInv /\ LimitInv /\ CountInv

(* A verification link never replaces a password: that takes a reset, which *)
(* revokes the sessions too, or a login that verified what it writes.       *)
VerifyNeverReplaces ==
    [][ user.hash # NoPassword /\ user'.hash # user.hash =>
          \/ user'.tv > user.tv
          \/ \E r \in Request : At(r, "rehash") /\ req'[r].pc = "mint" ]_vars

(* "Consume a reset token, replace the password, and revoke every old       *)
(* session": from then on a password changes by a reset only.  The code does *)
(* not ensure it against a login that rehashes what it verified.            *)
ResetHolds ==
    [][ user.hash # NoPassword /\ user'.hash # user.hash =>
          user'.tv > user.tv ]_vars
===============================================================================
