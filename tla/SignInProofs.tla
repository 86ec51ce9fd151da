----------------------------- MODULE SignInProofs ----------------------------
(****************************************************************************)
(* Proofs about SignIn, for any requests, passwords and limits.             *)
(****************************************************************************)
EXTENDS SignIn, FiniteSetTheorems, TLAPS

LEMMA InitIInv == Init => IInv
<1> SUFFICES ASSUME Init PROVE IInv
    OBVIOUS
<1>1. user \in WideUser
  <2>1. CASE user = NoUser
      BY <2>1 DEF NoUser, MaybePassword, WideUser
  <2>2. CASE user # NoUser
    <3>1. PICK p \in MaybePassword, l \in BOOLEAN, v \in BOOLEAN :
              user = [there |-> TRUE, hash |-> p, legacy |-> l,
                      verified |-> v, tv |-> 0]
        BY <2>2 DEF Init
    <3> QED BY <3>1 DEF WideUser
  <2> QED BY <2>1, <2>2
<1>2. link \in [Link -> Row] /\ \A t \in Link : link[t].saw = {}
    BY DEF Init, Row, Purpose, MaybePassword
<1>3. req \in [Request -> WideLocal]
    BY DEF Init, WideLocal, Kind, Place, MaybePassword, Link
<1>4. live \subseteq Link \ Request /\ inbox \subseteq Link
    BY RequestAssumption DEF Init, Link
<1>5. Typed
    BY <1>1, <1>2, <1>3, <1>4 DEF Init, Typed
<1>6. LinkInv /\ SawInv
    BY <1>4 DEF Init, LinkInv, SawInv, At, Is, Holding, Link
<1>7. user.tv = 0 /\ (user.hash # NoPassword => user.there /\ user.verified)
    BY DEF Init, NoUser
<1>8. VersionInv /\ PasswordInv
    BY <1>1, <1>7 DEF Init, VersionInv, PasswordInv, At
<1> QED BY <1>5, <1>6, <1>8 DEF IInv

LEMMA StutterIInv == IInv /\ UNCHANGED vars => IInv'
  BY DEF vars, linkVars, limitVars, IInv, Typed, LinkInv, SawInv, VersionInv,
         PasswordInv, At, Is, Holding

-----------------------------------------------------------------------------
(* Steps in which a request only gets on, or learns something: it keeps the *)
(* tables, and holds no link that it did not hold.                          *)

LEMMA LocalStep ==
    ASSUME IInv, NEW r \in Request,
           UNCHANGED <<user, live, link, inbox, mail, sessions, revoked, spent>>,
           ~At(r, "done"),
           NEW new \in WideLocal,
           req' = [req EXCEPT ![r] = new],
           new.tv <= user.tv,
           new.pc \in {"look", "create"} /\ new.kind \in {"verify", "reset"}
               => Holding(r) /\ new.link = req[r].link,
           new.pc # "insert",
           new.pc = "rehash" => user.there /\ user.verified,
           new.pc = "bump" => user.there
    PROVE  IInv'
<1> USE DEF IInv, Typed
<1>1. Typed'
    OBVIOUS
<1>2. LinkInv'
    BY DEF LinkInv, At, Is, Holding, WideLocal
<1>3. SawInv'
    BY DEF SawInv, At, WideLocal
<1>4. VersionInv' /\ PasswordInv'
    BY DEF VersionInv, PasswordInv, At, WideLocal, WideUser
<1> QED BY <1>1, <1>2, <1>3, <1>4

(* Whoever comes starts at one of these places, and holds no link there.    *)
Comes(r) ==
    LET new == req'[r]
    IN  /\ req' = [req EXCEPT ![r] = new]
        /\ new.tv = req[r].tv
        /\ new \in WideLocal
        /\ new.pc \in {"pending", "delete", "consume", "look", "count", "auth"}
        /\ new.pc = "look" => new.kind \in {"google", "microsoft"}

LEMMA ComeFacts ==
    ASSUME IInv, NEW r \in Request, Come(r)
    PROVE  Comes(r)
<1> USE DEF Come, At, Is, Goto
<1>0. req \in [Request -> WideLocal] /\ req[r] \in WideLocal
    BY DEF IInv, Typed
<1> USE DEF Comes, WideLocal, Kind, Place, MaybePassword
<1>1. ASSUME NEW k \in {"signup", "login"}, NEW p \in Password,
             req' = [req EXCEPT ![r].kind = k, ![r].pass = p,
                       ![r].pc = IF k = "signup" THEN "delete" ELSE "count"]
      PROVE  Comes(r)
  <2> HIDE DEF Come
  <2>1. req'[r] = [req[r] EXCEPT !.kind = k, !.pass = p,
                      !.pc = IF k = "signup" THEN "delete" ELSE "count"]
      BY <1>0, <1>1
  <2>2. req' = [req EXCEPT ![r] = req'[r]]
      BY <1>0, <1>1
  <2> QED BY <1>0, <2>1, <2>2
<1>2. ASSUME NEW t \in inbox, NEW k \in {"verify", "reset"}, NEW p \in Password,
             req' = [req EXCEPT ![r].kind = k, ![r].link = t,
                       ![r].pc = "consume",
                       ![r].pass = IF k = "reset" THEN p ELSE NoPassword]
      PROVE  Comes(r)
  <2> HIDE DEF Come
  <2>1. req'[r] = [req[r] EXCEPT !.kind = k, !.link = t, !.pc = "consume",
                      !.pass = IF k = "reset" THEN p ELSE NoPassword]
      BY <1>0, <1>2
  <2>2. req' = [req EXCEPT ![r] = req'[r]]
      BY <1>0, <1>2
  <2>3. t \in Link
      BY DEF IInv, Typed
  <2> QED BY <1>0, <2>1, <2>2, <2>3
<1>3. ASSUME NEW k \in {"resend", "forgot", "revoke", "google", "microsoft"},
             req' = [req EXCEPT ![r].kind = k,
                       ![r].pc = CASE k = "resend" -> "pending"
                                   [] k = "forgot" -> "delete"
                                   [] k = "revoke" -> "auth"
                                   [] OTHER -> "look"]
      PROVE  Comes(r)
  <2> HIDE DEF Come
  <2> DEFINE place == CASE k = "resend" -> "pending"
                        [] k = "forgot" -> "delete"
                        [] k = "revoke" -> "auth"
                        [] OTHER -> "look"
  <2>1. req'[r] = [req[r] EXCEPT !.kind = k, !.pc = place]
      BY <1>0, <1>3
  <2>2. req' = [req EXCEPT ![r] = req'[r]]
      BY <1>0, <1>3
  <2>3. /\ place \in {"pending", "delete", "auth", "look"}
        /\ place = "look" => k \in {"google", "microsoft"}
      OBVIOUS
  <2> HIDE DEF place
  <2> QED BY <1>0, <2>1, <2>2, <2>3
<1> QED BY <1>1, <1>2, <1>3

LEMMA ComeStep ==
    ASSUME IInv, NEW r \in Request, Come(r)
    PROVE  IInv'
<1> DEFINE new == req'[r]
<1>1. Comes(r)
    BY ComeFacts
<1>2. ~At(r, "done") /\ new.tv <= user.tv
    BY <1>1 DEF Comes, Come, At, IInv, VersionInv
<1>3. UNCHANGED <<user, live, link, inbox, mail, sessions, revoked, spent>>
    BY DEF Come, linkVars
<1>4. /\ req' = [req EXCEPT ![r] = new] /\ new \in WideLocal
      /\ new.pc \in {"pending", "delete", "consume", "look", "count", "auth"}
      /\ new.pc = "look" => new.kind \in {"google", "microsoft"}
    BY <1>1 DEF Comes
<1> HIDE DEF new
<1> QED BY <1>2, <1>3, <1>4, LocalStep

LEMMA LocalSteps ==
    ASSUME IInv, NEW r \in Request,
           \/ ReadPending(r) \/ Count(r) \/ SetExpiry(r) \/ LimiterAway(r)
           \/ ReadUser(r) \/ Authorize(r)
    PROVE  IInv'
<1> DEFINE new == req'[r]
<1> USE DEF At, Is, Goto, linkVars, IInv
<1>1. /\ UNCHANGED <<user, live, link, inbox, mail, sessions, revoked, spent>>
      /\ ~At(r, "done")
    BY DEF ReadPending, Count, Admit, SetExpiry, LimiterAway, ReadUser,
           Authorize
<1>2. /\ req' = [req EXCEPT ![r] = new]
      /\ new \in WideLocal
      /\ new.tv \in {req[r].tv, user.tv}
      /\ new.pc \in {"done", "delete", "expire", "read", "rehash", "mint", "bump"}
      /\ new.pc = "rehash" => user.hash # NoPassword
      /\ new.pc = "bump" => user.there
  <2> USE DEF Typed, WideLocal, WideUser, Place
  <2>0. req \in [Request -> WideLocal] /\ req[r] \in WideLocal
      BY DEF Typed
  <2>1. CASE ReadPending(r)
    <3>1. CASE Goto(r, "done")
        BY <3>1
    <3>2. ASSUME NEW t \in live,
                 req' = [req EXCEPT ![r].pass = link[t].hash, ![r].pc = "delete"]
          PROVE  /\ req' = [req EXCEPT ![r] = new]
                 /\ new = [req[r] EXCEPT !.pass = link[t].hash, !.pc = "delete"]
        BY <2>0, <3>2
    <3>3. \A t \in live : link[t].hash \in MaybePassword
        BY DEF Row
    <3>4. \/ Goto(r, "done")
          \/ \E t \in live : req' = [req EXCEPT ![r].pass = link[t].hash,
                                                ![r].pc = "delete"]
        BY <2>1 DEF ReadPending
    <3>5. ASSUME NEW t \in live,
                 req' = [req EXCEPT ![r].pass = link[t].hash, ![r].pc = "delete"]
          PROVE  /\ req' = [req EXCEPT ![r] = new]
                 /\ new \in WideLocal /\ new.tv = req[r].tv /\ new.pc = "delete"
      <4>1. /\ new = [req[r] EXCEPT !.pass = link[t].hash, !.pc = "delete"]
            /\ req' = [req EXCEPT ![r] = new]
          BY <3>2, <3>5
      <4>2. link[t].hash \in MaybePassword
          BY <3>3
      <4> HIDE DEF new
      <4>3. new \in WideLocal
          BY <2>0, <4>1, <4>2
      <4>4. new.tv = req[r].tv /\ new.pc = "delete"
          BY <2>0, <4>1
      <4> QED BY <4>1, <4>3, <4>4
    <3>6. CASE \E t \in live : req' = [req EXCEPT ![r].pass = link[t].hash,
                                                 ![r].pc = "delete"]
      <4> HIDE DEF new, WideLocal
      <4> QED BY <3>5, <3>6
    <3> QED BY <3>1, <3>4, <3>6
  <2>2. CASE Count(r)
    <3>1. \E pc \in {"expire", "read", "done"} : Goto(r, pc)
        BY <2>2 DEF Count, Admit
    <3> QED BY <2>0, <3>1
  <2>3. CASE SetExpiry(r) \/ LimiterAway(r)
      BY <2>3 DEF SetExpiry, LimiterAway, Admit
  <2>4. CASE ReadUser(r)
      BY <2>4 DEF ReadUser, Verified
  <2>5. CASE Authorize(r)
    <3> DEFINE place == IF \E s \in sessions : Valid(s) THEN "bump" ELSE "done"
    <3>1. req' = [req EXCEPT ![r].tv = user.tv, ![r].pc = place]
        BY <2>5 DEF Authorize
    <3>2. place \in {"bump", "done"} /\ (place = "bump" => user.there)
        BY DEF Valid
    <3> HIDE DEF place
    <3>3. /\ req' = [req EXCEPT ![r] = new]
          /\ new = [req[r] EXCEPT !.tv = user.tv, !.pc = place]
        BY <2>0, <3>1
    <3>4. user.tv \in Nat
        OBVIOUS
    <3> HIDE DEF new, IInv, Typed, WideUser
    <3>5. /\ new \in WideLocal /\ new.tv = user.tv /\ new.pc = place
        BY <2>0, <3>2, <3>3, <3>4
    <3> QED BY <3>2, <3>3, <3>5
  <2> QED BY <2>1, <2>2, <2>3, <2>4, <2>5
<1>3. new.tv <= user.tv
    BY <1>2 DEF VersionInv, Typed, WideUser, WideLocal
<1>4. new.pc = "rehash" => user.there /\ user.verified
    BY <1>2 DEF PasswordInv
<1> HIDE DEF new
<1> QED BY <1>1, <1>2, <1>3, <1>4, LocalStep

-----------------------------------------------------------------------------
(* Issuing and losing links.                                                *)

LEMMA DeleteEarlierStep ==
    ASSUME IInv, NEW r \in Request, DeleteEarlier(r)
    PROVE  IInv'
<1> USE DEF IInv, DeleteEarlier, Earlier, At, linkVars
<1>0. Like(r) \subseteq live /\ Like(r) \subseteq Link
    BY DEF Like, Typed
<1>1. Typed'
    BY <1>0 DEF Typed, WideLocal, Place
<1>2. LinkInv'
    BY DEF LinkInv, Typed, WideLocal, Is, Holding
<1>3. SawInv'
    BY <1>0 DEF SawInv, LinkInv, Typed, WideLocal
<1>4. VersionInv' /\ PasswordInv'
    BY DEF VersionInv, PasswordInv, Typed, WideLocal
<1> QED BY <1>1, <1>2, <1>3, <1>4

LEMMA IssueStep ==
    ASSUME IInv, NEW r \in Request, Issue(r)
    PROVE  IInv'
<1> USE DEF IInv, Typed, WideLocal, At
<1>1. Typed'
  <2>1. r \in Link
      BY DEF Link
  <2>2. link' \in [Link -> Row]
      BY <2>1 DEF Issue, Row, Purpose, PurposeOf, MaybePassword
  <2>3. req' \in [Request -> WideLocal]
      BY DEF Issue, Goto, Place
  <2> QED BY <2>1, <2>2, <2>3 DEF Issue
<1>2. r \notin live /\ spent[r] = 0
    BY DEF Issue, LinkInv, Link
<1>3. \A q \in Request : Holding(q) =>
          q # r /\ req[q].link \notin req[r].over
    BY DEF Issue, Taken, Holding, Is
<1>4. LinkInv'
    BY <1>2, <1>3 DEF Issue, Goto, LinkInv, Holding, Is
<1>5. SawInv'
  <2>1. /\ At(r, "insert") /\ live' = (live \ req[r].over) \cup {r}
        /\ \A q \in Request \ {r} : req'[q] = req[q]
        /\ req'[r].pc = "done"
      BY DEF Issue, Goto
  <2>2. /\ link'[r].saw = req[r].saw
        /\ \A q \in Request \ {r} : link'[q] = link[q]
      BY DEF Issue, Link
  <2>3. ASSUME NEW t \in req[r].saw
        PROVE  t \notin live' /\ (t \in Request => req'[t].pc = "done")
      BY <2>1, <2>3 DEF SawInv
  <2>4. ASSUME NEW q \in (live \cap Request) \ {r}, NEW t \in link[q].saw
        PROVE  t \notin live' /\ (t \in Request => req'[t].pc = "done")
      BY <2>1, <2>4 DEF SawInv
  <2>5. ASSUME NEW q \in Request, req'[q].pc = "insert"
        PROVE  /\ req'[q].saw = req'[q].over
               /\ \A t \in req'[q].saw \cap Request : req'[t].pc = "done"
    <3>0. SawInv
        OBVIOUS
    <3> HIDE DEF IInv, Typed, WideLocal
    <3>1. q # r /\ req'[q] = req[q] /\ req[q].pc = "insert"
        BY <2>1, <2>5
    <3>2. /\ req[q].saw = req[q].over
          /\ \A t \in req[q].saw \cap Request : req[t].pc = "done"
        BY <3>0, <3>1 DEF SawInv
    <3>3. \A t \in Request : req[t].pc = "done" => req'[t].pc = "done"
        BY <2>1
    <3> QED BY <3>1, <3>2, <3>3
  <2> QED BY <2>1, <2>2, <2>3, <2>4, <2>5 DEF SawInv
<1>6. VersionInv' /\ PasswordInv'
    BY DEF Issue, Goto, VersionInv, PasswordInv
<1> QED BY <1>1, <1>4, <1>5, <1>6

LEMMA MailStep ==
    ASSUME IInv, NEW t \in Link, SendMail(t) \/ Expire(t)
    PROVE  IInv'
<1> USE DEF IInv, Typed, At, linkVars
<1>1. Typed'
    BY DEF SendMail, Expire
<1>2. LinkInv'
    BY DEF SendMail, Expire, LinkInv, Taken, Holding, Is
<1>3. SawInv'
    BY DEF SendMail, Expire, SawInv
<1>4. VersionInv' /\ PasswordInv'
    BY DEF SendMail, Expire, VersionInv, PasswordInv
<1> QED BY <1>1, <1>2, <1>3, <1>4

-----------------------------------------------------------------------------
(* Consuming and spending a link.                                           *)

LEMMA ConsumeStep ==
    ASSUME IInv, NEW r \in Request, Consume(r)
    PROVE  IInv'
<1> USE DEF IInv, Typed, WideLocal, At, Consume, Goto, linkVars
<1>1. Typed'
    BY DEF Place
<1>2. LinkInv'
  <2>1. \A q \in Request : Holding(q) => req[q].link # req[r].link
      BY DEF Taken, Holding
  <2>2. \A q \in Request \ {r} : req'[q] = req[q]
      OBVIOUS
  <2>3. /\ req'[r].link = req[r].link /\ req'[r].pc \in {"look", "done"}
        /\ req'[r].pc = "look" => req[r].link \in live
      BY DEF Consumable
  <2> HIDE DEF Consume, IInv, Typed
  <2>4. LinkInv /\ live' = live /\ spent' = spent /\ At(r, "consume")
      BY DEF Consume, IInv
  <2> QED BY <2>1, <2>2, <2>3, <2>4 DEF LinkInv, Holding, Is
<1>3. SawInv'
    BY DEF SawInv
<1>4. VersionInv' /\ PasswordInv'
    BY DEF VersionInv, PasswordInv
<1> QED BY <1>1, <1>2, <1>3, <1>4

(* The one transaction that holds a link ends, and with it the link.        *)
LEMMA SpendKeepsLinks ==
    ASSUME Typed, LinkInv, SawInv, NEW r \in Request, Holding(r), Spend(r),
           NEW pc \in {"mint", "done"}, Goto(r, pc)
    PROVE  LinkInv' /\ SawInv' /\ live' \subseteq Link
           /\ spent' \in [Link -> Nat] /\ req' \in [Request -> WideLocal]
<1> DEFINE t == req[r].link
<1>1. /\ t \in Link /\ t \in live /\ spent[t] = 0
      /\ live' = live \ {t} /\ link' = link
      /\ spent' = [spent EXCEPT ![t] = 1]
  <2>1. t \in Link /\ t \in live
      BY DEF Typed, WideLocal, LinkInv
  <2>2. spent[t] = 0
      BY <2>1 DEF LinkInv
  <2>3. /\ live' = live \ {t} /\ link' = link
        /\ spent' = [spent EXCEPT ![t] = 1]
      BY <2>2 DEF Spend
  <2> QED BY <2>1, <2>2, <2>3
<1>2. /\ \A q \in Request \ {r} : req'[q] = req[q]
      /\ req'[r] = [req[r] EXCEPT !.pc = pc] /\ req'[r].pc = pc
    BY DEF Goto, Typed, WideLocal
<1>3. t \in Request => At(t, "done") /\ t # r
  <2>1. t \in Request => At(t, "done")
      BY <1>1 DEF LinkInv
  <2>2. ~At(r, "done")
      BY DEF At, Holding
  <2> HIDE DEF t
  <2> QED BY <2>1, <2>2
<1>4. \A q \in Request \ {r} : Holding(q) => req[q].link # t
    BY DEF LinkInv
<1>5. LinkInv'
  <2>1. \A u \in Link : spent'[u] # 0 => spent'[u] = 1 /\ u \notin live'
      BY <1>1 DEF LinkInv, Typed
  <2>2. ASSUME NEW q \in Request, q \in live' \/ spent'[q] # 0
        PROVE  req'[q].pc = "done"
    <3>1. q \in Link
        BY DEF Link
    <3>2. At(q, "done")
        BY <1>1, <1>3, <2>2, <3>1 DEF LinkInv, Typed
    <3>3. ~At(r, "done")
        BY DEF At, Holding
    <3> QED BY <1>2, <3>2, <3>3 DEF At
  <2>3. ASSUME NEW q \in Request,
               req'[q].kind \in {"verify", "reset"},
               req'[q].pc \in {"look", "create"}
        PROVE  q # r /\ Holding(q) /\ req'[q].link = req[q].link
    <3>1. q # r
        BY <1>2, <2>3
    <3>2. req'[q] = req[q]
        BY <1>2, <3>1
    <3> QED BY <2>3, <3>1, <3>2 DEF Holding, Is
  <2>4. \A q \in Request : Holding(q) /\ q # r => req[q].link \in live'
      BY <1>1, <1>4 DEF LinkInv
  <2>5. \A p, q \in Request :
            Holding(p) /\ Holding(q) /\ req[p].link = req[q].link => p = q
      BY DEF LinkInv
  <2> HIDE DEF t
  <2> QED BY <2>1, <2>2, <2>3, <2>4, <2>5 DEF LinkInv, At, Holding, Is
<1>6. SawInv'
  <2>1. ASSUME NEW q \in Request, At(q, "done")
        PROVE  req'[q].pc = "done"
    <3>1. q # r
        BY <2>1 DEF At, Holding
    <3> QED BY <1>2, <2>1, <3>1 DEF At
  <2>2. ASSUME NEW q \in Request, req'[q].pc = "insert"
        PROVE  q # r /\ req'[q] = req[q] /\ At(q, "insert")
      BY <1>2, <2>2 DEF At
  <2> HIDE DEF t
  <2> QED BY <1>1, <2>1, <2>2 DEF SawInv, At
<1> QED BY <1>1, <1>5, <1>6 DEF Typed, Goto, WideLocal, Place

LEMMA VerifyUserStep ==
    ASSUME IInv, NEW r \in Request, VerifyUser(r)
    PROVE  IInv'
<1> USE DEF IInv
<1>0. Holding(r)
    BY DEF VerifyUser, Holding, At, Is
<1>1. CASE user.there
  <2>1. Spend(r) /\ \E pc \in {"mint", "done"} : Goto(r, pc)
      BY <1>1 DEF VerifyUser
  <2>2. LinkInv' /\ SawInv' /\ live' \subseteq Link
        /\ spent' \in [Link -> Nat] /\ req' \in [Request -> WideLocal]
      BY <1>0, <2>1, SpendKeepsLinks
  <2>3. link[req[r].link].hash \in MaybePassword
      BY DEF Typed, WideLocal, Row
  <2>4. /\ user' \in WideUser /\ user'.tv = user.tv
        /\ user'.there /\ user'.verified
      BY <1>1, <2>3
         DEF VerifyUser, ApplyVerifiedPassword, Typed, WideUser
  <2>5. Typed'
      BY <2>1, <2>2, <2>4 DEF Spend, Typed
  <2>6. VersionInv' /\ PasswordInv'
      BY <1>1, <2>1, <2>4
         DEF VerifyUser, Goto, VersionInv, PasswordInv, Typed, WideLocal, At
  <2> QED BY <2>2, <2>5, <2>6
<1>2. CASE ~user.there
  <2>1. Typed'
      BY <1>2 DEF VerifyUser, Goto, linkVars, Typed, WideLocal, Place
  <2>2. LinkInv'
      BY <1>0, <1>2
         DEF VerifyUser, Goto, linkVars, Typed, WideLocal, LinkInv, At, Is,
             Holding
  <2>4. SawInv'
      BY <1>0, <1>2
         DEF VerifyUser, Goto, linkVars, Typed, WideLocal, SawInv, At, Is,
             Holding
  <2>3. VersionInv' /\ PasswordInv'
      BY <1>2 DEF VerifyUser, Goto, VersionInv, PasswordInv, Typed, WideLocal, At
  <2> QED BY <2>1, <2>2, <2>3, <2>4
<1> QED BY <1>1, <1>2

LEMMA VerifyNewUserStep ==
    ASSUME IInv, NEW r \in Request, VerifyNewUser(r)
    PROVE  IInv'
<1> USE DEF IInv
<1>0. Holding(r)
    BY DEF VerifyNewUser, Holding, At, Is
<1>1. CASE user.there
  <2>1. Typed'
      BY <1>1 DEF VerifyNewUser, Goto, linkVars, Typed, WideLocal, Place
  <2>2. LinkInv' /\ SawInv'
      BY <1>0, <1>1
         DEF VerifyNewUser, Goto, linkVars, Typed, WideLocal, LinkInv, SawInv,
             At, Is, Holding
  <2>3. VersionInv' /\ PasswordInv'
      BY <1>1 DEF VerifyNewUser, Goto, VersionInv, PasswordInv, Typed,
                  WideLocal, At
  <2> QED BY <2>1, <2>2, <2>3
<1>2. CASE ~user.there
  <2>1. Spend(r) /\ Goto(r, "mint")
      BY <1>2 DEF VerifyNewUser
  <2>2. LinkInv' /\ SawInv' /\ live' \subseteq Link
        /\ spent' \in [Link -> Nat] /\ req' \in [Request -> WideLocal]
      BY <1>0, <2>1, SpendKeepsLinks
  <2> DEFINE hash == link[req[r].link].hash
  <2>3. hash \in MaybePassword
      BY DEF Typed, WideLocal, Row
  <2>4. /\ user' \in WideUser /\ user'.tv = 0
        /\ user'.there /\ user'.verified
    <3>1. user' = ApplyVerifiedPassword([NoUser EXCEPT !.there = TRUE], hash)
        BY <1>2 DEF VerifyNewUser
    <3>2. user' = [there |-> TRUE, hash |-> hash, legacy |-> FALSE,
                   verified |-> TRUE, tv |-> 0]
        BY <3>1 DEF ApplyVerifiedPassword, NoUser
    <3> HIDE DEF hash
    <3> QED BY <2>3, <3>2 DEF WideUser
  <2>5. Typed'
      BY <2>1, <2>2, <2>4 DEF Spend, Typed
  <2>6. user.tv = 0
      BY <1>2 DEF VersionInv
  <2>7. \A q \in Request : req'[q].tv = req[q].tv
      BY <2>1 DEF Goto, Typed, WideLocal
  <2>8. VersionInv'
      BY <2>4, <2>6, <2>7 DEF VerifyNewUser, VersionInv
  <2>9. PasswordInv'
      BY <2>4 DEF PasswordInv
  <2> QED BY <2>2, <2>5, <2>8, <2>9
<1> QED BY <1>1, <1>2

LEMMA ResetStep ==
    ASSUME IInv, NEW r \in Request, Reset(r)
    PROVE  IInv'
<1> USE DEF IInv
<1>0. Holding(r)
    BY DEF Reset, Holding, At, Is
<1>1. CASE user.there
  <2>1. Spend(r) /\ Goto(r, "mint") /\ revoked' = revoked + 1
        /\ sessions' = sessions
      BY <1>1 DEF Reset
  <2>2. LinkInv' /\ SawInv' /\ live' \subseteq Link
        /\ spent' \in [Link -> Nat] /\ req' \in [Request -> WideLocal]
      BY <1>0, <2>1, SpendKeepsLinks
  <2>3. req[r].pass \in MaybePassword
      BY DEF Typed, WideLocal
  <2>4. /\ user' \in WideUser /\ user'.tv = user.tv + 1
        /\ user'.there /\ user'.verified
    <3>1. user' = [user EXCEPT !.hash = req[r].pass, !.legacy = FALSE,
                               !.verified = TRUE, !.tv = user.tv + 1]
        BY <1>1 DEF Reset, NextVersion
    <3>2. user \in WideUser /\ user.tv \in Nat
        BY DEF Typed, WideUser
    <3>3. user' = [there |-> TRUE, hash |-> req[r].pass, legacy |-> FALSE,
                   verified |-> TRUE, tv |-> user.tv + 1]
        BY <1>1, <3>1, <3>2 DEF WideUser
    <3> HIDE DEF IInv
    <3> QED BY <2>3, <3>2, <3>3 DEF WideUser
  <2>5. Typed'
      BY <2>1, <2>2, <2>4 DEF Spend, Typed
  <2>6. user.tv \in Nat /\ \A q \in Request : req[q].tv \in Nat
      BY DEF Typed, WideUser, WideLocal
  <2>7. \A q \in Request : req'[q].tv = req[q].tv
      BY <2>1 DEF Goto, Typed, WideLocal
  <2>8. VersionInv' /\ PasswordInv'
    <3>1. PasswordInv'
        BY <2>4 DEF PasswordInv
    <3>2. /\ user'.tv = user.tv + 1 /\ revoked' = revoked + 1
          /\ sessions' = sessions /\ user'.there
          /\ VersionInv
        BY <2>1, <2>4
    <3> HIDE DEF IInv
    <3> QED BY <2>6, <2>7, <3>1, <3>2 DEF VersionInv
  <2> QED BY <2>2, <2>5, <2>8
<1>2. CASE ~user.there
  <2>1. Typed'
      BY <1>2 DEF Reset, Goto, linkVars, Typed, WideLocal, Place
  <2>2. LinkInv' /\ SawInv'
      BY <1>0, <1>2
         DEF Reset, Goto, linkVars, Typed, WideLocal, LinkInv, SawInv, At, Is,
             Holding
  <2>3. VersionInv' /\ PasswordInv'
      BY <1>2 DEF Reset, Goto, VersionInv, PasswordInv, Typed, WideLocal, At
  <2> QED BY <2>1, <2>2, <2>3
<1> QED BY <1>1, <1>2

-----------------------------------------------------------------------------
(* The steps that write the user's row or a session, and no link.           *)

(* A request writes the row, or a session, and gets on to a place where it  *)
(* holds no link that it did not hold.                                      *)
Writes(r, new) ==
    /\ ~At(r, "done")
    /\ UNCHANGED <<live, link, inbox, mail, spent>>
    /\ user' \in WideUser /\ revoked' = user'.tv /\ user.tv <= user'.tv
    /\ user'.there \/ user'.tv = 0
    /\ user.there => user'.there
    /\ user.verified /\ user.there => user'.verified
    /\ user'.hash # NoPassword => user'.there /\ user'.verified
    /\ new \in WideLocal
    /\ req' = [req EXCEPT ![r] = new]
    /\ new.tv <= user'.tv
    /\ new.kind \in {"verify", "reset"} => new.pc \notin {"look", "create"}
    /\ new.pc \notin {"insert", "rehash", "bump"}
    /\ \A s \in sessions' \ sessions :
          /\ s.tv \in Nat /\ s.born \in Nat
          /\ s.tv <= s.born /\ s.born <= revoked'

LEMMA RowStep ==
    ASSUME IInv, NEW r \in Request, NEW new, Writes(r, new)
    PROVE  IInv'
<1> USE DEF IInv, Writes
<1>1. /\ \A q \in Request \ {r} : req'[q] = req[q]
      /\ req'[r] = new
    BY DEF Typed
<1>2. Typed'
    BY DEF Typed
<1>3. LinkInv'
    BY <1>1 DEF LinkInv, At, Is, Holding
<1>4. SawInv'
    BY <1>1 DEF SawInv, At
<1>5. user.tv \in Nat /\ user'.tv \in Nat /\ \A q \in Request : req[q].tv \in Nat
    BY DEF Typed, WideUser, WideLocal
<1>6. VersionInv'
    BY <1>1, <1>5 DEF VersionInv
<1>7. PasswordInv'
    BY <1>1 DEF PasswordInv, At
<1> QED BY <1>2, <1>3, <1>4, <1>6, <1>7

(* What the invariant says of a request and of the row it may write.        *)
LEMMA RowFacts ==
    ASSUME IInv, NEW r \in Request
    PROVE  /\ user \in WideUser /\ user.tv \in Nat
           /\ req \in [Request -> WideLocal]
           /\ req[r] \in WideLocal /\ req[r].tv \in Nat
           /\ req[r].tv <= user.tv /\ revoked = user.tv
           /\ user.there \/ user.tv = 0
           /\ user.hash # NoPassword => user.there /\ user.verified
    BY DEF IInv, Typed, VersionInv, PasswordInv, WideUser, WideLocal

(* A request that only gets on, to a place of a set.                        *)
LEMMA GetsOn ==
    ASSUME IInv, NEW r \in Request, NEW pc \in Place, Goto(r, pc),
           NEW new, new = [req[r] EXCEPT !.pc = pc]
    PROVE  /\ new \in WideLocal /\ new.tv = req[r].tv /\ new.pc = pc
           /\ new.link = req[r].link /\ new.kind = req[r].kind
           /\ req' = [req EXCEPT ![r] = new]
    BY RowFacts DEF WideLocal, Goto

LEMMA RehashStep ==
    ASSUME IInv, NEW r \in Request, Rehash(r)
    PROVE  IInv'
<1> DEFINE new == [req[r] EXCEPT !.tv = user.tv, !.pc = "mint"]
<1>1. /\ user \in WideUser /\ req \in [Request -> WideLocal]
      /\ req[r] \in WideLocal /\ user.tv \in Nat /\ revoked = user.tv
    BY RowFacts
<1>2. new \in WideLocal /\ new.tv = user.tv /\ new.pc = "mint"
    BY <1>1 DEF WideLocal, Place
<1>3. req' = [req EXCEPT ![r] = new]
    BY <1>1 DEF Rehash
<1>4. /\ user' \in WideUser /\ user'.tv = user.tv
      /\ user'.there = user.there /\ user'.verified = user.verified
    BY <1>1 DEF Rehash, WideUser, WideLocal
<1>5. user.there /\ user.verified /\ ~At(r, "done")
    BY DEF Rehash, At, IInv, PasswordInv
<1>6. /\ UNCHANGED <<live, link, inbox, mail, spent>>
      /\ sessions' = sessions /\ revoked' = revoked
    BY DEF Rehash, linkVars
<1> HIDE DEF new
<1>7. user.tv <= user'.tv /\ new.tv <= user'.tv /\ revoked' = user'.tv
    BY <1>1, <1>2, <1>4, <1>6
<1>8. Writes(r, new)
    BY <1>2, <1>3, <1>4, <1>5, <1>6, <1>7 DEF Writes
<1> QED BY <1>8, RowStep

LEMMA ProviderStep ==
    ASSUME IInv, NEW r \in Request, ProviderLook(r) \/ ProviderCreate(r)
    PROVE  IInv'
<1>1. /\ user \in WideUser /\ user.tv \in Nat /\ req[r].tv <= user.tv
      /\ revoked = user.tv /\ (user.there \/ user.tv = 0)
      /\ (user.hash # NoPassword => user.there /\ user.verified)
    BY RowFacts
<1>2. PICK pc \in {"create", "done", "mint", "look"} : Goto(r, pc)
    BY DEF ProviderLook, ProviderCreate
<1> DEFINE new == [req[r] EXCEPT !.pc = pc]
<1>3. /\ new \in WideLocal /\ new.tv = req[r].tv /\ new.pc = pc
      /\ new.kind = req[r].kind
      /\ req' = [req EXCEPT ![r] = new]
    BY <1>2, GetsOn DEF Place
<1> HIDE DEF new
<1>4. /\ req[r].kind \notin {"verify", "reset"} /\ ~At(r, "done")
      /\ UNCHANGED <<live, link, inbox, mail, spent>>
      /\ sessions' = sessions /\ revoked' = revoked
    BY DEF ProviderLook, ProviderCreate, Is, At, linkVars
<1> DEFINE RowOk ==
        /\ user' \in WideUser /\ user'.tv = user.tv
        /\ user'.there \/ user'.tv = 0
        /\ user.there => user'.there
        /\ user.verified /\ user.there => user'.verified
        /\ user'.hash # NoPassword => user'.there /\ user'.verified
<1>5. RowOk
  <2>1. CASE user' = user
      BY <1>1, <2>1
  <2>2. CASE user.there /\ user' = [user EXCEPT !.verified = TRUE]
    <3>1. /\ user' \in WideUser /\ user'.tv = user.tv /\ user'.verified
          /\ user'.there = user.there /\ user'.hash = user.hash
        BY <1>1, <2>2 DEF WideUser
    <3> QED BY <2>2, <3>1
  <2>3. CASE /\ ~user.there
             /\ user' = [NoUser EXCEPT !.there = TRUE,
                                       !.verified = Is(r, {"google"})]
    <3> DEFINE google == req[r].kind \in {"google"}
    <3>1. user' = [there |-> TRUE, hash |-> NoPassword, legacy |-> FALSE,
                   verified |-> google, tv |-> 0]
        BY <2>3 DEF NoUser, Is
    <3>2. google \in BOOLEAN
        OBVIOUS
    <3> HIDE DEF google
    <3>3. /\ user' \in WideUser /\ user'.tv = 0 /\ user'.there
          /\ user'.hash = NoPassword
        BY <3>1, <3>2 DEF WideUser, MaybePassword
    <3> QED BY <1>1, <2>3, <3>3
  <2> QED BY <2>1, <2>2, <2>3 DEF ProviderLook, ProviderCreate
<1>6. user.tv <= user'.tv /\ new.tv <= user'.tv /\ revoked' = user'.tv
    BY <1>1, <1>3, <1>4, <1>5
<1>7. Writes(r, new)
  <2>1. pc \notin {"insert", "rehash", "bump"}
      OBVIOUS
  <2> QED BY <1>3, <1>4, <1>5, <1>6, <2>1 DEF Writes
<1> QED BY <1>7, RowStep

LEMMA MintStep ==
    ASSUME IInv, NEW r \in Request, Mint(r)
    PROVE  IInv'
<1> DEFINE new == [req[r] EXCEPT !.pc = "done"]
           tv == IF Is(r, {"login"}) THEN req[r].tv ELSE user.tv
<1>1. /\ user \in WideUser /\ user.tv \in Nat
      /\ req[r].tv \in Nat /\ req[r].tv <= user.tv
      /\ revoked = user.tv /\ (user.there \/ user.tv = 0)
      /\ (user.hash # NoPassword => user.there /\ user.verified)
    BY RowFacts
<1>2. /\ new \in WideLocal /\ new.tv = req[r].tv /\ new.pc = "done"
      /\ req' = [req EXCEPT ![r] = new]
    BY GetsOn DEF Mint, Place
<1> HIDE DEF new
<1>3. /\ ~At(r, "done") /\ user' = user /\ revoked' = revoked
      /\ UNCHANGED <<live, link, inbox, mail, spent>>
    BY DEF Mint, At, linkVars
<1>4. sessions' = sessions \cup {[tv |-> tv, born |-> revoked]}
    BY DEF Mint
<1>5. tv \in Nat /\ tv <= user.tv
    BY <1>1
<1> HIDE DEF tv
<1>6. \A s \in sessions' \ sessions :
          /\ s.tv \in Nat /\ s.born \in Nat
          /\ s.tv <= s.born /\ s.born <= revoked'
    BY <1>1, <1>3, <1>4, <1>5
<1>7. Writes(r, new)
    BY <1>1, <1>2, <1>3, <1>6 DEF Writes
<1> QED BY <1>7, RowStep

LEMMA RevokeStep ==
    ASSUME IInv, NEW r \in Request, Revoke(r)
    PROVE  IInv'
<1> DEFINE new == [req[r] EXCEPT !.pc = "done"]
<1>1. /\ user \in WideUser /\ user.tv \in Nat
      /\ req[r].tv \in Nat /\ req[r].tv <= user.tv
      /\ revoked = user.tv
      /\ (user.hash # NoPassword => user.there /\ user.verified)
    BY RowFacts
<1>2. /\ new \in WideLocal /\ new.tv = req[r].tv /\ new.pc = "done"
      /\ req' = [req EXCEPT ![r] = new]
    BY GetsOn DEF Revoke, Place
<1> HIDE DEF new
<1>3. /\ ~At(r, "done") /\ revoked' = revoked + 1 /\ sessions' = sessions
      /\ UNCHANGED <<live, link, inbox, mail, spent>>
    BY DEF Revoke, At, linkVars
<1>4. user.there
    BY DEF Revoke, IInv, PasswordInv
<1>5. user' = [user EXCEPT !.tv = user.tv + 1]
    BY DEF Revoke, NextVersion
<1>6. user.tv + 1 \in Nat
    BY <1>1
<1>7. /\ user' \in WideUser /\ user'.tv = user.tv + 1
      /\ user'.there = user.there /\ user'.hash = user.hash
      /\ user'.verified = user.verified
    BY <1>1, <1>5, <1>6 DEF WideUser
<1>8. user.tv <= user'.tv /\ new.tv <= user'.tv /\ revoked' = user'.tv
    BY <1>1, <1>2, <1>3, <1>7
<1>9. Writes(r, new)
    BY <1>1, <1>2, <1>3, <1>4, <1>7, <1>8 DEF Writes
<1> QED BY <1>9, RowStep

LEMMA WindowStep ==
    ASSUME IInv, WindowEnds
    PROVE  IInv'
    BY DEF WindowEnds, linkVars, IInv, Typed, LinkInv, SawInv, VersionInv,
           PasswordInv, At, Is, Holding

-----------------------------------------------------------------------------
(* The invariant, and what follows from it.                                 *)

(* Whatever requests interleave: a link is held by one transaction at most, *)
(* and the version counts the revocations.                                  *)
THEOREM Invariance == Spec => []IInv
<1>1. IInv /\ [Next]_vars => IInv'
  <2> SUFFICES ASSUME IInv, [Next]_vars PROVE IInv'
      OBVIOUS
  <2>1. CASE UNCHANGED vars
      BY <2>1, StutterIInv
  <2>2. ASSUME NEW r \in Request, Come(r) \/ Step(r)
        PROVE  IInv'
    <3>1. CASE Come(r)
        BY <3>1, ComeStep
    <3>2. CASE \/ ReadPending(r) \/ Count(r) \/ SetExpiry(r) \/ LimiterAway(r)
               \/ ReadUser(r) \/ Authorize(r)
        BY <3>2, LocalSteps
    <3>3. CASE DeleteEarlier(r) \/ Issue(r)
        BY <3>3, DeleteEarlierStep, IssueStep
    <3>4. CASE Consume(r) \/ VerifyUser(r) \/ VerifyNewUser(r) \/ Reset(r)
        BY <3>4, ConsumeStep, VerifyUserStep, VerifyNewUserStep, ResetStep
    <3>5. CASE \/ Rehash(r) \/ ProviderLook(r) \/ ProviderCreate(r)
               \/ Mint(r) \/ Revoke(r)
        BY <3>5, RehashStep, ProviderStep, MintStep, RevokeStep
    <3> QED BY <2>2, <3>1, <3>2, <3>3, <3>4, <3>5 DEF Step
  <2>3. CASE \E t \in Link : SendMail(t) \/ Expire(t)
      BY <2>3, MailStep
  <2>4. CASE WindowEnds
      BY <2>4, WindowStep
  <2> QED BY <2>1, <2>2, <2>3, <2>4 DEF Next
<1> QED BY InitIInv, <1>1, PTL DEF Spec

(* A session minted before the latest revocation or reset is accepted by no *)
(* request that comes after it, however the two were interleaved.           *)
THEOREM RevokedSessionsDie == Spec => []RevokedIsDead
<1>1. IInv => RevokedIsDead
  <2> SUFFICES ASSUME IInv, NEW s \in sessions, Valid(s)
               PROVE  s.born = revoked
      BY DEF RevokedIsDead
  <2>1. /\ s.tv \in Nat /\ s.born \in Nat /\ s.tv <= s.born
        /\ s.born <= revoked /\ revoked = user.tv /\ user.tv \in Nat
      BY DEF IInv, Typed, VersionInv, WideUser
  <2>2. s.tv = user.tv
      BY DEF Valid
  <2> QED BY <2>1, <2>2
<1> QED BY Invariance, <1>1, PTL

(* A mailed link is spent at most once, and is gone when it was.            *)
THEOREM LinksAreSpentOnce == Spec => []SpentOnce
<1>1. IInv => SpentOnce
    BY DEF IInv, Typed, LinkInv, SpentOnce
<1> QED BY Invariance, <1>1, PTL

(* A link kills those that were committed when it was issued.               *)
THEOREM EarlierLinksDie == Spec => []EarlierLinkDies
<1>1. IInv => EarlierLinkDies
    BY DEF IInv, SawInv, EarlierLinkDies
<1> QED BY Invariance, <1>1, PTL

(* Only a verified address has a password.                                  *)
THEOREM PasswordsAreVerified == Spec => []PasswordIsVerified
<1>1. IInv => PasswordIsVerified
    BY DEF IInv, PasswordInv, PasswordIsVerified
<1> QED BY Invariance, <1>1, PTL

(* No verification link replaces a password, whoever else is at the row.    *)
THEOREM VerificationNeverReplaces == Spec => VerifyNeverReplaces
<1> DEFINE Kept ==
        user.hash # NoPassword /\ user'.hash # user.hash =>
          \/ user'.tv > user.tv
          \/ \E r \in Request : At(r, "rehash") /\ req'[r].pc = "mint"
<1>1. IInv /\ [Next]_vars => [Kept]_vars
  <2> SUFFICES ASSUME IInv, [Next]_vars,
                      user.hash # NoPassword, user'.hash # user.hash
               PROVE  \/ user'.tv > user.tv
                      \/ \E r \in Request : At(r, "rehash") /\ req'[r].pc = "mint"
      OBVIOUS
  <2>0. user \in WideUser /\ user.there /\ user.tv \in Nat
        /\ req \in [Request -> WideLocal]
      BY DEF IInv, Typed, PasswordInv, WideUser
  <2>1. PICK r \in Request : Step(r)
      BY DEF Next, Come, SendMail, Expire, WindowEnds, vars
  <2>2. \/ Rehash(r) \/ Reset(r) \/ VerifyUser(r) \/ VerifyNewUser(r)
        \/ ProviderLook(r) \/ ProviderCreate(r) \/ Revoke(r)
      BY <2>1 DEF Step, ReadPending, DeleteEarlier, Issue, Consume, Count,
                  SetExpiry, LimiterAway, ReadUser, Mint, Authorize
  <2>3. CASE Rehash(r)
    <3>1. At(r, "rehash") /\ req'[r].pc = "mint"
        BY <2>0, <2>3 DEF Rehash, WideLocal
    <3> QED BY <3>1
  <2>4. CASE Reset(r)
    <3>1. user'.tv = user.tv + 1
        BY <2>0, <2>4 DEF Reset, NextVersion, WideUser
    <3> QED BY <2>0, <3>1
  <2>5. CASE VerifyUser(r)
      BY <2>0, <2>5 DEF VerifyUser, ApplyVerifiedPassword, WideUser
  <2>6. CASE VerifyNewUser(r)
      BY <2>0, <2>6 DEF VerifyNewUser
  <2>7. CASE ProviderLook(r) \/ ProviderCreate(r)
      BY <2>0, <2>7 DEF ProviderLook, ProviderCreate, WideUser
  <2>8. CASE Revoke(r)
      BY <2>0, <2>8 DEF Revoke, WideUser
  <2> QED BY <2>2, <2>3, <2>4, <2>5, <2>6, <2>7, <2>8
<1>2. Spec => [][Kept]_vars
    BY Invariance, <1>1, PTL DEF Spec
<1> QED BY <1>2 DEF VerifyNeverReplaces

-----------------------------------------------------------------------------
(* The limiter.                                                             *)

(* A step of a request moves that request only.                             *)
LEMMA OneMoves ==
    ASSUME IInv, NEW r \in Request, Come(r) \/ Step(r)
    PROVE  \A q \in Request \ {r} : req'[q] = req[q]
<1> USE DEF IInv, Typed, Goto
<1>1. CASE Come(r)
    BY <1>1, ComeFacts DEF Comes
<1>2. CASE ReadPending(r) \/ DeleteEarlier(r) \/ Issue(r)
    BY <1>2 DEF ReadPending, DeleteEarlier, Issue
<1>3. CASE Consume(r) \/ VerifyUser(r) \/ VerifyNewUser(r) \/ Reset(r)
    BY <1>3 DEF Consume, VerifyUser, VerifyNewUser, Reset
<1>4. CASE \/ Count(r) \/ SetExpiry(r) \/ LimiterAway(r) \/ ReadUser(r)
           \/ Rehash(r)
    BY <1>4 DEF Count, Admit, SetExpiry, LimiterAway, ReadUser, Rehash
<1>5. CASE \/ ProviderLook(r) \/ ProviderCreate(r) \/ Mint(r)
           \/ Authorize(r) \/ Revoke(r)
    BY <1>5 DEF ProviderLook, ProviderCreate, Mint, Authorize, Revoke
<1> QED BY <1>1, <1>2, <1>3, <1>4, <1>5 DEF Step

(* Whoever does not count leaves the limiter alone, and has nothing to set. *)
LEMMA OthersDoNotCount ==
    ASSUME IInv, NEW r \in Request,
           \/ Come(r) \/ ReadPending(r) \/ DeleteEarlier(r) \/ Issue(r)
           \/ Consume(r) \/ VerifyUser(r) \/ VerifyNewUser(r) \/ Reset(r)
           \/ ReadUser(r) \/ Rehash(r)
           \/ ProviderLook(r) \/ ProviderCreate(r) \/ Mint(r)
           \/ Authorize(r) \/ Revoke(r)
    PROVE  UNCHANGED limitVars /\ req'[r].pc # "expire"
<1>0. req \in [Request -> WideLocal] /\ req[r] \in WideLocal
    BY RowFacts
<1> USE DEF Goto
<1>1. CASE Come(r)
  <2>1. UNCHANGED limitVars
      BY <1>1 DEF Come
  <2>2. req'[r].pc \in {"pending", "delete", "consume", "look", "count", "auth"}
      BY <1>1, ComeFacts, Zenon DEF Comes
  <2> HIDE DEF IInv, Goto
  <2> QED BY <2>1, <2>2
<1>2. CASE ReadPending(r) \/ DeleteEarlier(r) \/ Issue(r)
  <2>1. CASE ReadPending(r)
      BY <1>0, <2>1 DEF ReadPending, WideLocal, limitVars
  <2>2. CASE DeleteEarlier(r)
      BY <1>0, <2>2 DEF DeleteEarlier, WideLocal, limitVars
  <2>3. CASE Issue(r)
      BY <1>0, <2>3 DEF Issue, WideLocal, limitVars
  <2> QED BY <1>2, <2>1, <2>2, <2>3
<1>3. CASE Consume(r) \/ VerifyUser(r) \/ VerifyNewUser(r) \/ Reset(r)
    BY <1>0, <1>3
       DEF Consume, VerifyUser, VerifyNewUser, Reset, WideLocal, limitVars
<1>4. CASE ReadUser(r) \/ Rehash(r)
    BY <1>0, <1>4 DEF ReadUser, Rehash, WideLocal, limitVars
<1>5. CASE \/ ProviderLook(r) \/ ProviderCreate(r) \/ Mint(r)
           \/ Authorize(r) \/ Revoke(r)
    BY <1>0, <1>5 DEF ProviderLook, ProviderCreate, Mint, Authorize, Revoke,
                      WideLocal, limitVars
<1> QED BY <1>1, <1>2, <1>3, <1>4, <1>5

(* A request that counts, sets the expiry or gives up on the limiter.       *)
LEMMA LimiterStep ==
    ASSUME IInv, LimitInv, NEW r \in Request,
           Count(r) \/ SetExpiry(r) \/ LimiterAway(r)
    PROVE  LimitInv'
<1>0. req \in [Request -> WideLocal] /\ req[r] \in WideLocal
    BY RowFacts
<1>1. \A q \in Request \ {r} : req'[q] = req[q]
    BY OneMoves DEF Step
<1>2. /\ hits \in Nat /\ tries \in Nat /\ hits <= TryLimit + 1
      /\ tries <= TryLimit /\ tries <= hits /\ ticking \in BOOLEAN
      /\ TryLimit \in Nat /\ TryLimit > 0
    BY LimitAssumption DEF LimitInv
<1>3. CASE Count(r)
  <2> DEFINE count == IF hits > TryLimit THEN hits ELSE hits + 1
  <2>1. CASE count = 1
    <3>1. hits = 0 /\ hits' = 1 /\ tries' = tries /\ ticking' = ticking
        BY <1>2, <1>3, <2>1 DEF Count
    <3>2. req'[r].pc = "expire"
        BY <1>0, <1>3, <2>1 DEF Count, Goto, WideLocal
    <3>3. \A q \in Request : ~At(q, "expire")
        BY <1>2, <3>1 DEF LimitInv
    <3>4. tries' = 0 /\ ticking' \in BOOLEAN
        BY <1>2, <3>1
    <3>5. ~ticking
        BY <3>1 DEF LimitInv
    <3> QED BY <1>1, <1>2, <3>1, <3>2, <3>3, <3>4, <3>5 DEF LimitInv, At
  <2>2. CASE count # 1
    <3>1. hits' = count /\ ticking' = ticking /\ Admit(r, count)
        BY <1>3, <2>2 DEF Count
    <3>2. req'[r].pc # "expire"
        BY <1>0, <3>1 DEF Admit, Goto, WideLocal
    <3>3. tries' = IF count <= TryLimit THEN tries + 1 ELSE tries
        BY <1>2, <3>1 DEF Admit, Within
    <3>4. /\ hits' \in 0 .. TryLimit + 1 /\ hits' >= hits
          /\ tries' \in 0 .. TryLimit /\ tries' <= hits'
          /\ tries' - tries <= hits' - hits
          /\ tries < hits => tries' < TryLimit \/ hits' > TryLimit
        BY <1>2, <3>1, <3>3
    <3> QED BY <1>1, <1>2, <3>1, <3>2, <3>3, <3>4 DEF LimitInv, At
  <2> QED BY <2>1, <2>2
<1>4. CASE SetExpiry(r)
  <2>1. /\ At(r, "expire") /\ hits' = hits /\ ticking' \in BOOLEAN
        /\ Admit(r, 1)
      BY <1>4 DEF SetExpiry
  <2>2. tries' = tries + 1 /\ tries < hits /\ tries < TryLimit
      BY <1>2, <2>1 DEF Admit, Within, LimitInv
  <2>3. req'[r].pc # "expire"
      BY <1>0, <2>1 DEF Admit, Goto, WideLocal
  <2>4. \A q \in Request : req'[q].pc # "expire"
      BY <1>1, <2>1, <2>3 DEF LimitInv, At
  <2>5. tries' \in 0 .. TryLimit /\ tries' <= hits' /\ hits' \in 0 .. TryLimit + 1
      BY <1>2, <2>1, <2>2
  <2> QED BY <2>1, <2>4, <2>5 DEF LimitInv, At
<1>5. CASE LimiterAway(r)
  <2>1. hits' = hits /\ ticking' = ticking /\ tries' = tries
      BY <1>5 DEF LimiterAway, limitVars
  <2>2. req'[r].pc # "expire"
      BY <1>0, <1>5 DEF LimiterAway, Goto, WideLocal
  <2> QED BY <1>1, <2>1, <2>2 DEF LimitInv, At
<1> QED BY <1>3, <1>4, <1>5

LEMMA LimitKept ==
    ASSUME IInv, LimitInv, [Next]_vars
    PROVE  LimitInv'
<1>1. CASE UNCHANGED vars
    BY <1>1 DEF LimitInv, At, vars, limitVars
<1>2. ASSUME NEW r \in Request, Come(r) \/ Step(r)
      PROVE  LimitInv'
  <2>1. CASE Count(r) \/ SetExpiry(r) \/ LimiterAway(r)
      BY <2>1, LimiterStep
  <2>2. CASE ~(Count(r) \/ SetExpiry(r) \/ LimiterAway(r))
    <3>1. UNCHANGED limitVars /\ req'[r].pc # "expire"
        BY <1>2, <2>2, OthersDoNotCount DEF Step
    <3>2. \A q \in Request \ {r} : req'[q] = req[q]
        BY <1>2, OneMoves
    <3> QED BY <3>1, <3>2 DEF LimitInv, At, limitVars
  <2> QED BY <2>1, <2>2
<1>3. CASE \E t \in Link : SendMail(t) \/ Expire(t)
    BY <1>3 DEF SendMail, Expire, LimitInv, At, limitVars
<1>4. CASE WindowEnds
  <2>1. /\ ticking /\ req' = req
        /\ hits' = 0 /\ tries' = 0 /\ ticking' = FALSE
      BY <1>4 DEF WindowEnds
  <2>2. \A q \in Request : req'[q].pc # "expire"
      BY <2>1 DEF LimitInv, At
  <2>3. hits' \in 0 .. TryLimit + 1 /\ tries' \in 0 .. TryLimit /\ tries' <= hits'
      BY <2>1, LimitAssumption
  <2> QED BY <2>1, <2>2, <2>3 DEF LimitInv, At
<1> QED BY <1>1, <1>2, <1>3, <1>4 DEF Next

-----------------------------------------------------------------------------
(* Versions stay within what the requests can count.                        *)

(* A request revokes in the step that ends it, but for its session.         *)
LEMMA RevokesAtItsEnd ==
    ASSUME IInv, NEW r \in Request, Reset(r) \/ Revoke(r), user'.tv # user.tv
    PROVE  /\ user'.tv = user.tv + 1
           /\ r \notin Past /\ req'[r].pc \in {"mint", "done"}
<1>0. /\ user \in WideUser /\ user.tv \in Nat
      /\ req \in [Request -> WideLocal] /\ req[r] \in WideLocal
    BY RowFacts
<1>1. CASE Reset(r)
  <2>1. user.there
      BY <1>1 DEF Reset
  <2>2. /\ user' = [user EXCEPT !.hash = req[r].pass, !.legacy = FALSE,
                                !.verified = TRUE, !.tv = user.tv + 1]
        /\ At(r, "look") /\ Goto(r, "mint")
      BY <1>1, <2>1 DEF Reset, NextVersion
  <2>3. user'.tv = user.tv + 1
      BY <1>0, <2>2 DEF WideUser
  <2> QED BY <1>0, <2>2, <2>3 DEF Goto, At, Past, WideLocal
<1>2. CASE Revoke(r)
    BY <1>0, <1>2 DEF Revoke, NextVersion, Goto, At, Past, WideUser, WideLocal
<1> QED BY <1>1, <1>2

LEMMA OthersDoNotRevoke ==
    ASSUME IInv, NEW r \in Request, Come(r) \/ Step(r), ~Reset(r), ~Revoke(r)
    PROVE  user'.tv = user.tv
<1>0. user \in WideUser /\ (user.there \/ user.tv = 0)
    BY RowFacts
<1>1. CASE user' = user
    BY <1>1
<1>2. CASE VerifyUser(r)
    BY <1>0, <1>2 DEF VerifyUser, ApplyVerifiedPassword, WideUser
<1>3. CASE VerifyNewUser(r)
    BY <1>0, <1>3 DEF VerifyNewUser, ApplyVerifiedPassword, NoUser
<1>4. CASE Rehash(r)
    BY <1>0, <1>4 DEF Rehash, WideUser
<1>5. CASE ProviderLook(r) \/ ProviderCreate(r)
    BY <1>0, <1>5 DEF ProviderLook, ProviderCreate, NoUser, WideUser
<1>6. \/ user' = user \/ VerifyUser(r) \/ VerifyNewUser(r) \/ Rehash(r)
      \/ ProviderLook(r) \/ ProviderCreate(r)
    BY DEF Come, Step, ReadPending, DeleteEarlier, Issue, Consume, Count,
           SetExpiry, LimiterAway, ReadUser, Mint, Authorize
<1> QED BY <1>1, <1>2, <1>3, <1>4, <1>5, <1>6

(* Nobody comes back from the past.                                         *)
LEMMA PastGrows ==
    ASSUME IInv, NEW r \in Request, Come(r) \/ Step(r)
    PROVE  Past \subseteq Past'
<1>1. \A q \in Request \ {r} : req'[q] = req[q]
    BY OneMoves
<1>2. CASE Mint(r)
  <2>1. req'[r].pc = "done"
      BY <1>2, RowFacts DEF Mint, Goto, WideLocal
  <2> QED BY <1>1, <2>1 DEF Past
<1>3. CASE ~Mint(r)
  <2>1. r \notin Past
      BY <1>3 DEF Come, Step, ReadPending, DeleteEarlier, Issue, Consume,
                  VerifyUser, VerifyNewUser, Reset, Count, SetExpiry,
                  LimiterAway, ReadUser, Rehash, ProviderLook, ProviderCreate,
                  Authorize, Revoke, At, Past
  <2> QED BY <1>1, <2>1 DEF Past
<1> QED BY <1>2, <1>3

LEMMA SessionsTyped ==
    ASSUME IInv, CountInv, NEW r \in Request, Come(r) \/ Step(r)
    PROVE  sessions' \in SUBSET [tv : Nat, born : Nat]
<1>1. CASE Mint(r)
  <2> DEFINE tv == IF Is(r, {"login"}) THEN req[r].tv ELSE user.tv
  <2>1. tv \in Nat /\ revoked \in Nat
      BY RowFacts
  <2>2. sessions' = sessions \cup {[tv |-> tv, born |-> revoked]}
      BY <1>1 DEF Mint
  <2> HIDE DEF tv
  <2> QED BY <2>1, <2>2 DEF CountInv
<1>2. CASE ~Mint(r)
    BY <1>2 DEF CountInv, Come, Step, ReadPending, DeleteEarlier, Issue, Consume,
                VerifyUser, VerifyNewUser, Reset, Count, SetExpiry,
                LimiterAway, ReadUser, Rehash, ProviderLook, ProviderCreate,
                Authorize, Revoke
<1> QED BY <1>1, <1>2

LEMMA CountKept ==
    ASSUME IInv, IInv', CountInv, [Next]_vars
    PROVE  CountInv'
<1>0. /\ user.tv \in Nat /\ user'.tv \in Nat
      /\ IsFiniteSet(Past) /\ Cardinality(Past) \in Nat
      /\ IsFiniteSet(Past') /\ Cardinality(Past') \in Nat
  <2>1. Past \subseteq Request /\ Past' \subseteq Request
      BY DEF Past
  <2>2. IsFiniteSet(Past) /\ IsFiniteSet(Past')
      BY <2>1, RequestAssumption, FS_Subset
  <2> QED BY <2>2, FS_CardinalityType DEF IInv, Typed, WideUser
<1>1. CASE UNCHANGED <<user, req, sessions>>
    BY <1>1 DEF CountInv, Past
<1>2. ASSUME NEW r \in Request, Come(r) \/ Step(r)
      PROVE  CountInv'
  <2>1. Past \subseteq Past' /\ sessions' \in SUBSET [tv : Nat, born : Nat]
      BY <1>2, PastGrows, SessionsTyped
  <2>2. Cardinality(Past) <= Cardinality(Past')
      BY <1>0, <2>1, FS_Subset
  <2>3. CASE user'.tv = user.tv
      BY <1>0, <2>1, <2>2, <2>3 DEF CountInv
  <2>4. CASE user'.tv # user.tv
    <3>1. /\ user'.tv = user.tv + 1
          /\ r \notin Past /\ r \in Past'
        BY <1>2, <2>4, OthersDoNotRevoke, RevokesAtItsEnd DEF Past
    <3>2. /\ IsFiniteSet(Past \cup {r})
          /\ Cardinality(Past \cup {r}) = Cardinality(Past) + 1
        BY <1>0, <3>1, FS_AddElement
    <3>3. Cardinality(Past \cup {r}) <= Cardinality(Past')
        BY <1>0, <2>1, <3>1, FS_Subset
    <3> QED BY <1>0, <2>1, <3>1, <3>2, <3>3 DEF CountInv
  <2> QED BY <2>3, <2>4
<1>3. CASE UNCHANGED vars \/ WindowEnds \/ \E t \in Link : SendMail(t) \/ Expire(t)
    BY <1>1, <1>3 DEF vars, WindowEnds, SendMail, Expire
<1> QED BY <1>2, <1>3 DEF Next

(* Types, links, passwords and the limiter, whatever requests interleave:   *)
(* what the tables must satisfy together in every state.                    *)
THEOREM TablesAreSound == Spec => []Inv
<1>1. Init => LimitInv /\ CountInv
  <2> SUFFICES ASSUME Init PROVE LimitInv /\ CountInv
      OBVIOUS
  <2>1. hits = 0 /\ tries = 0 /\ ticking = FALSE /\ TryLimit \in Nat
      BY LimitAssumption DEF Init
  <2>2. \A r \in Request : ~At(r, "expire")
      BY DEF Init, At
  <2>3. hits \in 0 .. TryLimit + 1 /\ tries \in 0 .. TryLimit /\ tries <= hits
      BY <2>1
  <2>4. user.tv = 0
      BY DEF Init, NoUser
  <2>5. Past \subseteq Request
      BY DEF Past
  <2>6. Cardinality(Past) \in Nat
      BY <2>5, RequestAssumption, FS_Subset, FS_CardinalityType
  <2>7. sessions = {}
      BY DEF Init
  <2>8. CountInv
      BY <2>4, <2>6, <2>7 DEF CountInv
  <2>9. ticking \in BOOLEAN /\ ~ticking
      BY <2>1
  <2> QED BY <2>2, <2>3, <2>8, <2>9 DEF LimitInv
<1>2. TableInv /\ [Next]_vars /\ IInv' => TableInv'
    BY LimitKept, CountKept DEF TableInv
<1>3. TableInv => Inv
  <2> SUFFICES ASSUME TableInv PROVE Inv
      OBVIOUS
  <2> USE DEF TableInv, IInv, Typed
  <2>1. Cardinality(Request) \in Nat /\ user.tv <= Cardinality(Request)
    <3>1. Past \subseteq Request
        BY DEF Past
    <3>2. /\ Cardinality(Past) \in Nat /\ Cardinality(Request) \in Nat
          /\ Cardinality(Past) <= Cardinality(Request)
        BY <3>1, RequestAssumption, FS_Subset, FS_CardinalityType
    <3>3. user.tv \in Nat /\ user.tv <= Cardinality(Past)
        BY DEF CountInv, WideUser
    <3> QED BY <3>2, <3>3
  <2>2. \A n \in Nat : n <= user.tv => n \in Version
      BY <2>1 DEF Version, WideUser
  <2>3. user \in User /\ revoked \in Version
      BY <2>2 DEF VersionInv, WideUser, User
  <2>4. req \in [Request -> Local]
    <3>1. \A r \in Request : req[r] \in Local
        BY <2>2 DEF VersionInv, WideLocal, Local
    <3> QED BY <3>1
  <2>5. sessions \in SUBSET Session
    <3>1. ASSUME NEW s \in sessions
          PROVE  s \in Session
      <4>1. s \in [tv : Nat, born : Nat]
          BY DEF CountInv
      <4>2. s.tv <= user.tv /\ s.born <= user.tv
          BY <4>1 DEF VersionInv, WideUser
      <4> QED BY <2>2, <4>1, <4>2 DEF Session
    <3> QED BY <3>1
  <2>6. spent \in [Link -> 0 .. 1]
      BY DEF LinkInv
  <2>7. hits \in 0 .. TryLimit + 1 /\ ticking \in BOOLEAN /\ tries \in 0 .. TryLimit
      BY DEF LimitInv
  <2>8. TypeOK
      BY <2>3, <2>4, <2>5, <2>6, <2>7, LimitAssumption DEF TypeOK
  <2>9. SpentOnce /\ EarlierLinkDies /\ PasswordIsVerified
      BY DEF LinkInv, SpentOnce, SawInv, EarlierLinkDies, PasswordInv,
             PasswordIsVerified
  <2> QED BY <2>7, <2>8, <2>9, LimitAssumption DEF Inv, BoundedTries
<1>4. Init => TableInv
    BY InitIInv, <1>1 DEF TableInv
<1> QED BY <1>2, <1>3, <1>4, Invariance, PTL DEF Spec

==============================================================================
