-------------------------------- MODULE LlmKeys --------------------------------
(****************************************************************************)
(* The LLM credentials of one user: the routes that create, rewrite,        *)
(* activate, delete and test them, and the classification run that bills    *)
(* the active one.                                                          *)
(*                                                                          *)
(* Source: routes/llm_settings.py, services/nlp/providers.py,               *)
(* db/models/llm_credential.py.                                             *)
(*                                                                          *)
(* Every structural change locks the user's row, reads the credentials and  *)
(* commits; the test of a key and the routing of a run take no lock.  What  *)
(* a body asks for is chosen when the change is made: validation reads no   *)
(* state.  A credential's url and model count as part of its provider.      *)
(****************************************************************************)
EXTENDS Integers, FiniteSets

CONSTANTS
    Request,   \* requests that change credentials
    NoOne,     \* nobody holds the guard
    Id,        \* of credentials, never drawn again
    NoId,
    Name,      \* of credentials; "default" is PUT's
    Key,
    MaxRev,    \* bound: revisions of one
    Cap,       \* _MAX_CREDENTIALS_PER_USER
    TTL        \* _ROUTING_TTL_SECONDS, in ticks

ASSUME RequestAssumption == NoOne \notin Request
ASSUME NameAssumption == "default" \in Name
ASSUME IdAssumption == NoId \notin Id
ASSUME KeyAssumption == Key # {}
ASSUME BoundAssumption ==
    MaxRev \in Nat \ {0} /\ Cap \in Nat \ {0} /\ TTL \in Nat \ {0}

VARIABLES
    cred,      \* id -> the row of user_llm_credential
    born,      \* the ids drawn: Id bounds the credentials ever made
    guard,     \* who holds the lock of the app_user row
    request,   \* Request -> its step and the rows it has read
    test,      \* the test route's locals
    run,       \* the classification run's: its step, its router's memo
    gone       \* history: ticks the memo's key has been out of consent

vars == <<cred, born, guard, request, test, run, gone>>

Provider == {"preset", "custom"}
Content == [provider : Provider, key : Key]

Row == [there : BOOLEAN, name : Name, active : BOOLEAN, content : Content,
        byok : BOOLEAN, revision : 1 .. MaxRev, verified : BOOLEAN]

AnyKey == CHOOSE k \in Key : TRUE
AnyContent == [provider |-> "preset", key |-> AnyKey]
NoRow == [there |-> FALSE, name |-> "default", active |-> FALSE,
          content |-> AnyContent, byok |-> FALSE, revision |-> 1,
          verified |-> FALSE]

RequestLocal ==
    [pc : {"idle", "read", "failed"}, rows : [Id -> Row]]
TestLocal ==
    [pc : {"idle", "call", "stamp"}, id : Id \cup {NoId}, revision : 1 .. MaxRev,
     content : Content]
RunLocal ==
    [pc : {"idle", "second", "routed"}, mode : {"none", "user", "server", "off"},
     content : Content, age : 0 .. TTL]

NoRows == [i \in Id |-> NoRow]
Idle == [pc |-> "idle", rows |-> NoRows]
NoTest == [pc |-> "idle", id |-> NoId, revision |-> 1, content |-> AnyContent]

Preset(content) == content.provider = "preset"

Rows(table) == {i \in Id : table[i].there}
Active(table) == {i \in Rows(table) : table[i].active}

TypeOK ==
    /\ cred \in [Id -> Row]
    /\ \A i \in Id : cred[i].byok => Preset(cred[i].content)
    /\ born \subseteq Id /\ Rows(cred) \subseteq born
    /\ guard \in Request \cup {NoOne}
    /\ request \in [Request -> RequestLocal]
    /\ test \in TestLocal
    /\ run \in RunLocal
    /\ gone \in 0 .. TTL + 1

Init ==
    /\ cred = NoRows /\ born = {} /\ guard = NoOne
    /\ request = [p \in Request |-> Idle]
    /\ test = NoTest
    /\ run = [pc |-> "idle", mode |-> "none", content |-> AnyContent, age |-> 0]
    /\ gone = 0

-----------------------------------------------------------------------------
(* The guard protocol of every structural change.                           *)
At(p, pc) == request[p].pc = pc
Alone(p) == UNCHANGED <<test, run, gone>>

\* Mutant: the lock is taken on nothing.
LockNothing(p) ==
    /\ At(p, "idle")
    /\ request' = [request EXCEPT ![p] = [pc |-> "read", rows |-> cred]]
    /\ Alone(p) /\ UNCHANGED <<cred, born, guard>>

(* SELECT app_user FOR UPDATE, and with it held the SELECT of the rows.     *)
Lock(p) ==
    /\ At(p, "idle")
    /\ guard = NoOne
    /\ guard' = p
    /\ request' = [request EXCEPT ![p] = [pc |-> "read", rows |-> cred]]
    /\ Alone(p) /\ UNCHANGED <<cred, born>>

Unlock(p) == guard' = IF guard = p THEN NoOne ELSE guard

(* The transaction ends: rejected by the route (404, 409, 422), or the      *)
(* process is gone.                                                         *)
GiveUp(p) ==
    /\ At(p, "read")
    /\ request' = [request EXCEPT ![p] = Idle]
    /\ Unlock(p)
    /\ Alone(p) /\ UNCHANGED <<cred, born>>

(* The unique constraints: a name once, and one active row.                 *)
Admits(table) ==
    /\ Cardinality(Active(table)) <= 1
    /\ \A i, j \in Rows(table) : table[i].name = table[j].name => i = j

(* A commit: refused by a constraint, or for a row that is gone meanwhile.  *)
(* PUT's one retry after a refusal is left out: NoBounce says there is none.*)
Commit(p, touched, table) ==
    /\ IF touched \subseteq Rows(cred) /\ Admits(table)
       THEN cred' = table /\ request' = [request EXCEPT ![p] = Idle]
       ELSE cred' = cred /\ request' = [request EXCEPT ![p].pc = "failed"]
    /\ Unlock(p)
    /\ Alone(p)

(* classification_byok: absent keeps it; a custom endpoint never has it.    *)
Byok(input, provider, existing) ==
    /\ provider # "custom"
    /\ IF input = "absent" THEN existing ELSE input = "on"

(* _validate_credential_payload: what a body may ask for.  An absent key is *)
(* given as the one the row has.                                            *)
Payload ==
    {b \in [provider : Provider, key : Key, keyGiven : BOOLEAN,
            byok : {"absent", "on", "off"}] :
        b.provider = "custom" => b.byok # "on"}

Inserted(name, b, active) ==
    [there |-> TRUE, name |-> name, active |-> active,
     content |-> [provider |-> b.provider, key |-> b.key],
     byok |-> Byok(b.byok, b.provider, FALSE), revision |-> 1,
     verified |-> FALSE]

-----------------------------------------------------------------------------
(* PUT /settings/llm: the active credential, as a view.                     *)

(* _apply_update on the row as it was read, old.  The statement sets the    *)
(* columns whose value differs from the one read: a stamp that was not      *)
(* there at the read is not cleared.                                        *)
Updated(row, old, b) ==
    LET key == IF b.keyGiven THEN b.key ELSE old.content.key
        material == b.keyGiven \/ b.provider # old.content.provider
    IN  [row EXCEPT !.content = [provider |-> b.provider, key |-> key],
                    !.byok = Byok(b.byok, b.provider, old.byok),
                    !.revision = old.revision + 1,
                    !.verified = IF material /\ old.verified THEN FALSE ELSE @]

PutUpdate(p) ==
    /\ At(p, "read")
    /\ \E i \in Active(request[p].rows), b \in Payload :
          LET old == request[p].rows[i]
          IN  /\ old.revision < MaxRev
              /\ b.keyGiven \/ b.key = old.content.key
              /\ Commit(p, {i}, [cred EXCEPT ![i] = Updated(@, old, b)])
    /\ UNCHANGED born

(* With no active row PUT inserts one, named "default".                     *)
PutInsert(p) ==
    /\ At(p, "read")
    /\ Active(request[p].rows) = {}
    /\ \E i \in Id \ born, b \in Payload :
          /\ b.keyGiven
          /\ born' = born \cup {i}
          /\ Commit(p, {}, [cred EXCEPT ![i] = Inserted("default", b, TRUE)])

(* POST /credentials: the cap and the name are checked on the rows read;    *)
(* the first credential is active.                                          *)
Create(p) ==
    LET rows == Rows(request[p].rows)
    IN  /\ At(p, "read")
        /\ Cardinality(rows) < Cap
        /\ \E i \in Id \ born, b \in Payload,
              n \in Name \ {request[p].rows[j].name : j \in rows} :
              /\ b.keyGiven
              /\ born' = born \cup {i}
              /\ Commit(p, {}, [cred EXCEPT ![i] = Inserted(n, b, rows = {})])

(* The row that was active goes first, then the target comes: the index is  *)
(* not deferred.                                                            *)
Switched(i, read) ==
    [j \in Id |-> IF j = i THEN [cred[j] EXCEPT !.active = TRUE]
                 ELSE IF j \in Active(read) THEN [cred[j] EXCEPT !.active = FALSE]
                 ELSE cred[j]]

(* POST /credentials/{id}/activate.                                         *)
Activate(p) ==
    LET read == request[p].rows
    IN  /\ At(p, "read")
        /\ \E i \in Rows(read) :
              IF read[i].active
              THEN Commit(p, {}, cred)
              ELSE Commit(p, Active(read) \cup {i}, Switched(i, read))
        /\ UNCHANGED born

MayDelete(row) == row.there /\ ~row.active

(* DELETE /credentials/{id}.                                                *)
Delete(p) ==
    /\ At(p, "read")
    /\ \E i \in Id :
          /\ MayDelete(request[p].rows[i])
          /\ Commit(p, {}, [cred EXCEPT ![i] = NoRow])
    /\ UNCHANGED born

(* DELETE /settings/llm, the kill switch: every row there is.               *)
Wipe(p) ==
    /\ At(p, "read")
    /\ Commit(p, {}, [i \in Id |-> IF request[p].rows[i].there THEN NoRow
                                                               ELSE cred[i]])
    /\ UNCHANGED born

-----------------------------------------------------------------------------
(* POST /settings/llm/test.                                                 *)
unchangedTables == UNCHANGED <<cred, born, guard, request>>

(* The destination policy, asked again at each use: open says whether the   *)
(* flags, the address and the DNS answer let a custom endpoint through now. *)
Allowed(content, open) == Preset(content) \/ open

(* resolve_extraction_credential: the active row, or the operator's key,    *)
(* never the latter for an active row that is blocked.                      *)
Resolved(open) == {i \in Active(cred) : Allowed(cred[i].content, open)}

(* This route refuses a resolution that is not of a stored row.             *)
StartTest(open) ==
    /\ test.pc = "idle"
    /\ \E i \in Resolved(open) :
          test' = [pc |-> "call", id |-> i, revision |-> cred[i].revision,
                   content |-> cred[i].content]
    /\ unchangedTables /\ UNCHANGED <<run, gone>>

(* test_credential: the provider accepts the key and answers, or not.       *)
CallTest(ok) ==
    /\ test.pc = "call"
    /\ test' = IF ok THEN [test EXCEPT !.pc = "stamp"] ELSE NoTest
    /\ unchangedTables /\ UNCHANGED <<run, gone>>

\* Mutant: the stamp is conditioned on the id alone.
StampsById(i) == cred[i].there /\ i = test.id

Stamps(i) ==
    /\ cred[i].there
    /\ i = test.id
    /\ cred[i].revision = test.revision

Stamp ==
    /\ test.pc = "stamp"
    /\ test' = NoTest
    /\ cred' = [i \in Id |-> IF Stamps(i) THEN [cred[i] EXCEPT !.verified = TRUE]
                                          ELSE cred[i]]
    /\ UNCHANGED <<born, guard, request, run, gone>>

-----------------------------------------------------------------------------
(* The classification run's router.                                         *)

(* What the user consents to be billed for, now.                            *)
Consented(content) ==
    \E i \in Active(cred) :
        /\ cred[i].byok
        /\ cred[i].content = content
        /\ Preset(content)

\* Mutant: the run routes once.
ExpiresNever == run.mode = "none"

Expired == run.mode = "none" \/ run.age >= TTL

Settled(mode) ==
    run' = [pc |-> "routed", mode |-> mode, content |-> AnyContent, age |-> 0]

(* routing_for, once a message; a fresh memo is used as it is.  Its first   *)
(* read has no row, an opt-out, or a custom endpoint; or goes on.           *)
FirstRead ==
    /\ run.pc = "idle"
    /\ gone' = 0
    /\ Expired
    /\ IF \A i \in Active(cred) : ~cred[i].byok THEN Settled("server")
       ELSE IF \A i \in Active(cred) : ~Preset(cred[i].content) THEN Settled("off")
       ELSE run' = [pc |-> "second", mode |-> "none", content |-> AnyContent,
                    age |-> 0]
    /\ unchangedTables /\ UNCHANGED test

UseMemo ==
    /\ run.pc = "idle"
    /\ ~Expired
    /\ run' = [run EXCEPT !.pc = "routed"]
    /\ unchangedTables /\ UNCHANGED <<test, gone>>

\* Mutant: the second read trusts the first.
EligibleByFirst(i) == TRUE

Eligible(i) == cred[i].byok /\ Preset(cred[i].content)

(* The second read asserts it all again; a state that changed in between is *)
(* settled as off.                                                          *)
SecondRead ==
    /\ run.pc = "second"
    /\ IF \E i \in Active(cred) : Eligible(i)
       THEN \E i \in Active(cred) :
              run' = [run EXCEPT !.pc = "routed", !.mode = "user",
                                 !.content = cred[i].content]
       ELSE run' = [run EXCEPT !.pc = "routed", !.mode = "off"]
    /\ unchangedTables /\ UNCHANGED <<test, gone>>

(* The message is classified, and with mode "user" the key is billed.       *)
Classified ==
    /\ run.pc = "routed"
    /\ run' = [run EXCEPT !.pc = "idle"]
    /\ unchangedTables /\ UNCHANGED <<test, gone>>

(* Time passes, but not between the routing of a message and its call.      *)
Tick ==
    /\ run.pc # "routed"
    /\ run.age < TTL
    /\ run' = [run EXCEPT !.age = @ + 1]
    /\ gone' = IF run.mode # "user" \/ Consented(run.content) THEN 0
               ELSE IF gone > TTL THEN gone ELSE gone + 1
    /\ unchangedTables /\ UNCHANGED test

-----------------------------------------------------------------------------
Change(p) ==
    \/ Lock(p) \/ GiveUp(p)
    \/ PutUpdate(p) \/ PutInsert(p)
    \/ Create(p) \/ Activate(p) \/ Delete(p) \/ Wipe(p)

Test ==
    \/ \E open \in BOOLEAN : StartTest(open)
    \/ \E ok \in BOOLEAN : CallTest(ok)
    \/ Stamp

Run == FirstRead \/ UseMemo \/ SecondRead \/ Classified \/ Tick

Next == (\E p \in Request : Change(p)) \/ Test \/ Run

Spec == Init /\ [][Next]_vars
-----------------------------------------------------------------------------
(* Safety.                                                                  *)

(* However many creates are sent at once, the user never has more           *)
(* credentials than the cap, which no constraint of the table expresses.    *)
WithinCap == Cardinality(Rows(cred)) <= Cap

(* A user with credentials has an active one: what is stored is never       *)
(* silently unused, and PUT's "default" never meets an inactive namesake.   *)
ActiveIfAny == Rows(cred) # {} => Active(cred) # {}

(* No legal change is refused by the partial unique index, by the names'    *)
(* constraint, or for a row deleted under it.                               *)
NoBounce == \A p \in Request : ~At(p, "failed")

(* What the lock of the user's row keeps true of the table, by its parts.   *)
Inv == TypeOK /\ WithinCap /\ ActiveIfAny /\ NoBounce

(* The inductive strengthening of Inv: a request that has read the table    *)
(* holds the lock and has read it as it is, but for a stamp; and what the   *)
(* test route tried is the credential until its revision moves.             *)
Alike(old, row) ==
    /\ row.there = old.there /\ row.name = old.name /\ row.active = old.active
    /\ row.content = old.content /\ row.byok = old.byok
    /\ row.revision = old.revision

GuardInv ==
    \A p \in Request : At(p, "read") =>
        guard = p /\ \A i \in Id : Alike(request[p].rows[i], cred[i])

TestInv ==
    test.pc # "idle" =>
        /\ test.id \in born
        /\ cred[test.id].there =>
              /\ test.revision <= cred[test.id].revision
              /\ test.revision = cred[test.id].revision
                    => test.content = cred[test.id].content

IInv == Inv /\ IsFiniteSet(born) /\ Admits(cred) /\ GuardInv /\ TestInv

(* A run that is about to bill a key does it within the memo's time of the  *)
(* user's consent to it: opting out, switching, rewriting or deleting the   *)
(* key is effective in the middle of a run.                                 *)
RevocationIsPrompt == run.pc = "routed" /\ run.mode = "user" => gone < TTL

(* Why: a memo has been out of consent no longer than it is old, and only   *)
(* the memo of a key can be.                                                *)
MemoInv ==
    /\ RevocationIsPrompt
    /\ gone <= run.age
    /\ run.mode # "user" => gone = 0
    /\ run.pc = "second" => run.mode = "none"

-----------------------------------------------------------------------------
(* Action properties.                                                       *)

(* The test route marks as verified only a credential whose present         *)
(* contents are the ones it tried: not one rewritten, nor one made anew,    *)
(* while the call was out.                                                  *)
StampIsOfWhatWasTested ==
    [][ \A i \in Id : ~cred[i].verified /\ cred'[i].verified
            => cred[i].there /\ cred[i].content = test.content ]_vars

(* A rewrite goes to the credential that is active when it commits, never   *)
(* to one that a concurrent switch has put aside.                           *)
PutWritesTheActive ==
    [][ \A i \in Id : cred[i].there /\ cred'[i].there
                     /\ cred'[i].revision # cred[i].revision
            => cred[i].active /\ cred'[i].active ]_vars

(* Routing picks a key to bill only when, at that moment, it is the active  *)
(* one, of a preset provider, with the user's opt-in: no half of the        *)
(* decision is left over from the first read.                               *)
RoutesWithConsent ==
    [][ run.mode # "user" /\ run'.mode = "user" => Consented(run'.content) ]_vars
================================================================================
