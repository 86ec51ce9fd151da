------------------------------ MODULE ReplySend ------------------------------
(****************************************************************************)
(* Sending a reply from one mail thread, and settling what became of it.    *)
(*                                                                          *)
(* Source: routes/reply.py (send_reply and its helpers), services/mail_send *)
(* /common.py (the reply_attempt compare-and-sets and the fence),           *)
(* services/mail_send/reconcile.py (the reconciliation pass).               *)
(*                                                                          *)
(* One request is one POST /thread/{id}/reply.  A request that is admitted  *)
(* creates exactly one reply_attempt row, so an attempt is named by the     *)
(* request that created it.  Everything the code does here is scoped to one *)
(* thread (the thread's row lock, the in-flight guard, the fence and the    *)
(* match all read one thread), so the module models one thread.             *)
(*                                                                          *)
(* Every transaction here takes the thread's row lock first and makes no    *)
(* network call, so it is one action.  The one that does call out under the *)
(* lock, the classification claim, is here a step that may or may not stamp *)
(* verified_at.                                                             *)
(****************************************************************************)
EXTENDS Integers

CONSTANTS
    Request,      \* the send_reply requests made for the thread
    Worker,       \* processes that may run a reconciliation pass
    Provider,     \* the provider of the thread's account
    NoOne         \* no attempt in hand; no override

ASSUME ProviderAssumption == Provider \in {"gmail", "outlook"}
ASSUME NoOneAssumption == NoOne \notin Request /\ NoOne \notin Worker

VARIABLES
    \* the reply_attempt table
    status,       \* Request -> status of its attempt, "none": no row yet
    clock,        \* clock_timestamp() of the thread's newest attempt row
    createdAt,    \* Request -> created_at, 0 before the row exists
    aged,         \* Request -> is created_at older than PREPARING_TTL?
    providerId,   \* Request -> is provider_message_id recorded?
    verified,     \* Request -> is verified_at stamped?
    \* mail_thread and mail_message
    repliedAt,    \* the fence mail_thread.replied_at, 0 is NULL
    persisted,    \* Request -> is the sent copy a mail_message row?
    \* the request handlers
    pc,           \* Request -> where its handler is
    expected,     \* Request -> the client's expected_replied_at
    resp,         \* Request -> the outcome its client was told
    \* the provider
    wire,         \* Request -> the send call was issued and not refused
    delivered,    \* Request -> the provider sent the mail
    \* the reconciliation workers
    todo,         \* Worker -> attempts of the pass still to be looked at
    phase,        \* Worker -> "idle", "settle", "verify"
    cur,          \* Worker -> the attempt in hand
    seen,         \* Worker -> its status when it was read
    \* history, for the properties only
    overridden    \* attempts the user chose to abandon

rowVars     == <<clock, createdAt, aged>>
attemptVars == <<status, rowVars, providerId, verified>>
mailVars    == <<repliedAt, persisted>>
handlerVars == <<pc, expected, resp>>
wireVars    == <<wire, delivered>>
workerVars  == <<todo, phase, cur, seen>>
vars == <<attemptVars, mailVars, handlerVars, wireVars, workerVars, overridden>>

Status == {"none", "preparing", "inflight", "sent", "unknown", "failed",
           "abandoned", "expired"}
PC == {"idle", "loaded", "claimed", "ready", "drafted", "recordFailed",
       "recorded", "calling", "rejected", "ambiguous", "accepted",
       "completeFailed", "done"}
Response == {"none", "refused", "superseded", "sent", "rejected", "unknown"}
Phase == {"idle", "settle", "verify"}

TypeOK ==
    /\ status \in [Request -> Status]
    /\ clock \in Nat
    /\ createdAt \in [Request -> Nat]
    /\ aged \in [Request -> BOOLEAN]
    /\ providerId \in [Request -> BOOLEAN]
    /\ verified \in [Request -> BOOLEAN]
    /\ repliedAt \in Nat
    /\ persisted \in [Request -> BOOLEAN]
    /\ pc \in [Request -> PC]
    /\ expected \in [Request -> Nat]
    /\ resp \in [Request -> Response]
    /\ wire \in [Request -> BOOLEAN]
    /\ delivered \in [Request -> BOOLEAN]
    /\ todo \in [Worker -> SUBSET Request]
    /\ phase \in [Worker -> Phase]
    /\ cur \in [Worker -> Request \cup {NoOne}]
    /\ seen \in [Worker -> Status]
    /\ overridden \in SUBSET Request

Init ==
    /\ status = [r \in Request |-> "none"]
    /\ clock = 0
    /\ createdAt = [r \in Request |-> 0]
    /\ aged = [r \in Request |-> FALSE]
    /\ providerId = [r \in Request |-> FALSE]
    /\ verified = [r \in Request |-> FALSE]
    /\ repliedAt = 0
    /\ persisted = [r \in Request |-> FALSE]
    /\ pc = [r \in Request |-> "idle"]
    /\ expected = [r \in Request |-> 0]
    /\ resp = [r \in Request |-> "none"]
    /\ wire = [r \in Request |-> FALSE]
    /\ delivered = [r \in Request |-> FALSE]
    /\ todo = [w \in Worker |-> {}]
    /\ phase = [w \in Worker |-> "idle"]
    /\ cur = [w \in Worker |-> NoOne]
    /\ seen = [w \in Worker |-> "none"]
    /\ overridden = {}

-----------------------------------------------------------------------------
(* The compare-and-sets on reply_attempt: each is the status of attempt a   *)
(* after the conditional UPDATE, which leaves a row in any other status     *)
(* alone.                                                                   *)

MarkInflight(a) == IF status[a] = "preparing" THEN "inflight" ELSE status[a]

MarkSent(a) ==
    IF status[a] \in {"inflight", "abandoned"} THEN "sent" ELSE status[a]

\* Mutant: reconciliation settles with the route's narrower compare-and-set.
MarkSentReconciledNarrow(a) ==
    IF status[a] \in {"inflight", "abandoned"} THEN "sent" ELSE status[a]

MarkSentReconciled(a) ==
    IF status[a] \in {"inflight", "abandoned", "unknown"}
    THEN "sent" ELSE status[a]

MarkFailed(a) ==
    IF status[a] \in {"inflight", "abandoned"} THEN "failed" ELSE status[a]

MarkUnknown(a) == IF status[a] = "inflight" THEN "unknown" ELSE status[a]

(* GREATEST(replied_at, created_at). *)
AdvanceFence(a) ==
    IF createdAt[a] > repliedAt THEN createdAt[a] ELSE repliedAt

(* expire_stale_preparing. *)
AfterExpiry ==
    [q \in Request |->
        IF status[q] = "preparing" /\ aged[q] THEN "expired" ELSE status[q]]

\* Mutant: an unknown outcome no longer holds the guard closed.
BlockingUnlessUnknown(st) ==
    {q \in Request : \/ st[q] = "preparing" /\ ~aged[q]
                     \/ st[q] = "inflight"}

(* find_blocking_attempt: what holds the in-flight guard closed, and the    *)
(* newest of those, which is the one reported and the one overridable.      *)
Blocking(st) ==
    {q \in Request : \/ st[q] = "preparing" /\ ~aged[q]
                     \/ st[q] \in {"inflight", "unknown"}}

IsBlocker(st, q) ==
    /\ q \in Blocking(st)
    /\ \A p \in Blocking(st) : createdAt[p] <= createdAt[q]

(* abandon_attempt, only for an override that names the current blocker.    *)
AfterOverride(st, ov) ==
    [q \in Request |-> IF q = ov /\ IsBlocker(st, q) THEN "abandoned" ELSE st[q]]

Finish(r, outcome) ==
    /\ pc' = [pc EXCEPT ![r] = "done"]
    /\ resp' = [resp EXCEPT ![r] = outcome]
    /\ UNCHANGED expected

Goto(r, where) ==
    /\ pc' = [pc EXCEPT ![r] = where]
    /\ UNCHANGED <<expected, resp>>

-----------------------------------------------------------------------------
(* send_reply: the request handler.                                         *)

(* The client renders the thread; expected_replied_at is what it saw.       *)
Load(r) ==
    /\ pc[r] = "idle"
    /\ pc' = [pc EXCEPT ![r] = "loaded"]
    /\ expected' = [expected EXCEPT ![r] = repliedAt]
    /\ UNCHANGED <<resp, attemptVars, mailVars, wireVars, workerVars,
                   overridden>>

(* Everything that turns a request away with no write: an account that is   *)
(* paused or lacks the scope, a thread lock not had within lock_timeout, no *)
(* usable target or recipient.                                              *)
Refuse(r) ==
    /\ pc[r] = "loaded"
    /\ Finish(r, "refused")
    /\ UNCHANGED <<attemptVars, mailVars, wireVars, workerVars, overridden>>

(* Txn A, stale guard: the fence is no longer the one the client saw.       *)
RefuseStale(r) ==
    /\ pc[r] = "loaded"
    /\ expected[r] # repliedAt
    /\ Finish(r, "refused")
    /\ UNCHANGED <<attemptVars, mailVars, wireVars, workerVars, overridden>>

(* Txn A, in-flight guard: some attempt still blocks, after expiry and an   *)
(* override.  The expiry and the override are committed all the same.       *)
RefuseInFlight(r, ov) ==
    LET st == AfterOverride(AfterExpiry, ov)
    IN  /\ pc[r] = "loaded"
        /\ expected[r] = repliedAt
        /\ Blocking(st) # {}
        /\ status' = st
        /\ overridden' = overridden \cup {q \in Request : st[q] = "abandoned"}
        /\ Finish(r, "refused")
        /\ UNCHANGED <<rowVars, providerId, verified, mailVars, wireVars, workerVars>>

(* Txn A, admitted: expire, override, insert the preparing row, commit.     *)
Admit(r, ov) ==
    LET st == AfterOverride(AfterExpiry, ov)
    IN  /\ pc[r] = "loaded"
        /\ expected[r] = repliedAt
        /\ Blocking(st) = {}
        /\ status' = [st EXCEPT ![r] = "preparing"]
        /\ createdAt' = [createdAt EXCEPT ![r] = clock + 1]
        /\ clock' = clock + 1
        /\ overridden' = overridden \cup {q \in Request : st[q] = "abandoned"}
        /\ Goto(r, "claimed")
        /\ UNCHANGED <<aged, providerId, verified, mailVars, wireVars,
                       workerVars>>

(* PREPARING_TTL passes while the handler is suspended.                     *)
Age(r) ==
    /\ status[r] = "preparing"
    /\ ~aged[r]
    /\ aged' = [aged EXCEPT ![r] = TRUE]
    /\ UNCHANGED <<status, clock, createdAt, providerId, verified, mailVars,
                   handlerVars, wireVars, workerVars, overridden>>

(* The compare-and-set right before the first provider call.  Zero rows:    *)
(* the attempt was expired or abandoned meanwhile, and nothing is sent.     *)
ToInflight(r) ==
    /\ pc[r] = "claimed"
    /\ status' = [status EXCEPT ![r] = MarkInflight(r)]
    /\ IF MarkInflight(r) # status[r] THEN Goto(r, "ready")
                                      ELSE Finish(r, "superseded")
    /\ UNCHANGED <<rowVars, providerId, verified, mailVars,
                   wireVars, workerVars, overridden>>

(* The 45s budget is spent before the next call is made.                    *)
DeadlineBeforeCall(r) ==
    /\ pc[r] \in {"ready", "recorded"}
    /\ Goto(r, "ambiguous")
    /\ UNCHANGED <<attemptVars, mailVars, wireVars, workerVars, overridden>>

(* Outlook, createReply: a draft, a definite refusal (4xx, no draft id, too *)
(* many recipients), or a timeout / 5xx.                                    *)
CreateReply(r) ==
    /\ Provider = "outlook"
    /\ pc[r] = "ready"
    /\ \E where \in {"drafted", "rejected", "ambiguous"} : Goto(r, where)
    /\ UNCHANGED <<attemptVars, mailVars, wireVars, workerVars, overridden>>

(* Outlook: record the draft's immutable id and commit.                     *)
RecordDraft(r) ==
    /\ pc[r] = "drafted"
    /\ providerId' = [providerId EXCEPT ![r] = TRUE]
    /\ Goto(r, "recorded")
    /\ UNCHANGED <<status, rowVars, verified, mailVars, wireVars,
                   workerVars, overridden>>

\* Mutant: the failed write is swallowed and the send goes on.
RecordDraftFailureSwallowed(r) ==
    /\ pc[r] = "drafted"
    /\ Goto(r, "recorded")
    /\ UNCHANGED <<attemptVars, mailVars, wireVars, workerVars, overridden>>

(* Outlook: that write or its commit raises; it may have committed or not.  *)
RecordDraftFails(r) ==
    /\ pc[r] = "drafted"
    /\ \E recorded \in BOOLEAN : providerId' = [providerId EXCEPT ![r] = recorded]
    /\ Goto(r, "recordFailed")
    /\ UNCHANGED <<status, rowVars, verified, mailVars, wireVars,
                   workerVars, overridden>>

(* The send call goes out: Gmail's only call, Outlook's second.             *)
IssueSend(r) ==
    /\ pc[r] = IF Provider = "gmail" THEN "ready" ELSE "recorded"
    /\ wire' = [wire EXCEPT ![r] = TRUE]
    /\ Goto(r, "calling")
    /\ UNCHANGED <<delivered, attemptVars, mailVars, workerVars, overridden>>

(* The provider acts on the call: at once, or after the handler has given   *)
(* up on the answer or died.                                                *)
Deliver(r) ==
    /\ wire[r]
    /\ ~delivered[r]
    /\ delivered' = [delivered EXCEPT ![r] = TRUE]
    /\ UNCHANGED <<wire, attemptVars, mailVars, handlerVars, workerVars,
                   overridden>>

(* A 2xx with the fields the handler needs. *)
AnswerAccepted(r) ==
    /\ pc[r] = "calling"
    /\ delivered[r]
    /\ Goto(r, "accepted")
    /\ UNCHANGED <<attemptVars, mailVars, wireVars, workerVars, overridden>>

(* A 4xx: the provider refused the call and will never act on it.           *)
AnswerRejected(r) ==
    /\ pc[r] = "calling"
    /\ ~delivered[r]
    /\ wire' = [wire EXCEPT ![r] = FALSE]
    /\ Goto(r, "rejected")
    /\ UNCHANGED <<delivered, attemptVars, mailVars, workerVars, overridden>>

\* Mutant: a timeout is treated as a rejection.
AnswerTimeoutRejects(r) ==
    /\ pc[r] = "calling"
    /\ Goto(r, "rejected")
    /\ UNCHANGED <<attemptVars, mailVars, wireVars, workerVars, overridden>>

(* A timeout, a broken connection, a 5xx or an answer that cannot be read.  *)
AnswerAmbiguous(r) ==
    /\ pc[r] = "calling"
    /\ Goto(r, "ambiguous")
    /\ UNCHANGED <<attemptVars, mailVars, wireVars, workerVars, overridden>>

(* _fail_send, and the SendError branches. *)
FailSend(r) ==
    /\ pc[r] \in {"rejected", "recordFailed"}
    /\ status' = [status EXCEPT ![r] = MarkFailed(r)]
    /\ Finish(r, "rejected")
    /\ UNCHANGED <<rowVars, providerId, verified, mailVars, wireVars,
                   workerVars, overridden>>

(* _unknown_send, and _unknown_after_completion_db_error. *)
UnknownSend(r) ==
    /\ pc[r] \in {"ambiguous", "completeFailed"}
    /\ status' = [status EXCEPT ![r] = MarkUnknown(r)]
    /\ Finish(r, "unknown")
    /\ UNCHANGED <<rowVars, providerId, verified, mailVars, wireVars,
                   workerVars, overridden>>

(* The fresh session of the two database-error paths fails as well; the     *)
(* client is answered the same and the row stays inflight.                  *)
SettleInFreshSessionFails(r) ==
    /\ pc[r] \in {"recordFailed", "completeFailed"}
    /\ Finish(r, IF pc[r] = "recordFailed" THEN "rejected" ELSE "unknown")
    /\ UNCHANGED <<attemptVars, mailVars, wireVars, workerVars, overridden>>

(* The writes of the completion transaction, under the thread lock: none if *)
(* reconciliation already settled the attempt.  Gmail also upserts the sent *)
(* message and stamps verified_at.                                          *)
CompletionWrites(r) ==
    LET gmail == Provider = "gmail"
        first == status[r] # "sent"
        won   == first /\ MarkSent(r) = "sent"
    IN  /\ status' = [status EXCEPT ![r] = MarkSent(r)]
        /\ providerId' = [providerId EXCEPT ![r] = @ \/ (gmail /\ won)]
        /\ verified' = [verified EXCEPT ![r] = @ \/ (gmail /\ won)]
        /\ persisted' = [persisted EXCEPT ![r] = @ \/ (gmail /\ first)]
        /\ repliedAt' = IF first THEN AdvanceFence(r) ELSE repliedAt
        /\ UNCHANGED rowVars

(* _complete_gmail_send and _complete_outlook_send. *)
Complete(r) ==
    /\ pc[r] = "accepted"
    /\ CompletionWrites(r)
    /\ Finish(r, "sent")
    /\ UNCHANGED <<wireVars, workerVars, overridden>>

(* The completion raises SQLAlchemyError: it rolled back, or it committed   *)
(* and something after the commit failed.                                   *)
CompleteFails(r) ==
    /\ pc[r] = "accepted"
    /\ \/ CompletionWrites(r)
       \/ UNCHANGED <<attemptVars, mailVars>>
    /\ Goto(r, "completeFailed")
    /\ UNCHANGED <<wireVars, workerVars, overridden>>

(* The API process dies, or an unhandled error escapes, after the claim.    *)
HandlerDies(r) ==
    /\ pc[r] \notin {"idle", "loaded", "done"}
    /\ Finish(r, "none")
    /\ UNCHANGED <<attemptVars, mailVars, wireVars, workerVars, overridden>>

-----------------------------------------------------------------------------
(* A sync stores the provider's sent copy, under the thread's lock.         *)
Ingest(r) ==
    /\ delivered[r]
    /\ ~persisted[r]
    /\ persisted' = [persisted EXCEPT ![r] = TRUE]
    /\ UNCHANGED <<repliedAt, attemptVars, handlerVars, wireVars, workerVars,
                   overridden>>

-----------------------------------------------------------------------------
(* run_reconciliation_pass: START and END of an ingest, and the             *)
(* reconcile_reply_attempt task, so two may run at the same time.           *)

Eligible(r) ==
    \/ status[r] \in {"preparing", "inflight", "unknown", "abandoned"}
    \/ Provider = "outlook" /\ status[r] = "sent" /\ ~verified[r]

(* _match_message: Outlook by the recorded draft id, Gmail by the           *)
(* Message-ID that was generated before the row was inserted.               *)
Matches(r) == persisted[r] /\ (Provider = "outlook" => providerId[r])

Drop(w) ==
    /\ phase' = [phase EXCEPT ![w] = "idle"]
    /\ cur' = [cur EXCEPT ![w] = NoOne]
    /\ seen' = [seen EXCEPT ![w] = "none"]

Scan(w) ==
    /\ phase[w] = "idle"
    /\ todo[w] = {}
    /\ todo' = [todo EXCEPT ![w] = {r \in Request : Eligible(r)}]
    /\ todo'[w] # {}
    /\ UNCHANGED <<phase, cur, seen, attemptVars, mailVars, handlerVars,
                   wireVars, overridden>>

(* Read one attempt of the list, and match it.  No lock is held: the status *)
(* read here may be old when the match is settled.                          *)
PickUp(w, r) ==
    /\ phase[w] = "idle"
    /\ r \in todo[w]
    /\ todo' = [todo EXCEPT ![w] = @ \ {r}]
    /\ IF Matches(r)
       THEN /\ phase' = [phase EXCEPT ![w] = "settle"]
            /\ cur' = [cur EXCEPT ![w] = r]
            /\ seen' = [seen EXCEPT ![w] = status[r]]
       ELSE UNCHANGED <<phase, cur, seen>>
    /\ UNCHANGED <<attemptVars, mailVars, handlerVars, wireVars, overridden>>

(* _settle_match, phase 1: under the thread lock, sent + fence.  When the   *)
(* compare-and-set changes no row and the row is not sent either, nothing   *)
(* is written.  Then, verified_at read afresh, on to phase 2 or done: a     *)
(* pass with classify_messages off leaves Outlook's verification alone.     *)
Settle(w, r) ==
    LET after == IF seen[w] = "sent" THEN status[r] ELSE MarkSentReconciled(r)
        won   == after # status[r]
    IN  /\ phase[w] = "settle"
        /\ cur[w] = r
        /\ status' = [status EXCEPT ![r] = after]
        /\ IF seen[w] = "sent" \/ after = "sent"
           THEN /\ repliedAt' = AdvanceFence(r)
                /\ providerId' = [providerId EXCEPT ![r] = @ \/ won]
                /\ \/ /\ ~verified[r]
                      /\ phase' = [phase EXCEPT ![w] = "verify"]
                      /\ UNCHANGED <<cur, seen>>
                   \/ /\ verified[r] \/ Provider = "outlook"
                      /\ Drop(w)
           ELSE /\ Drop(w)
                /\ UNCHANGED <<repliedAt, providerId>>
        /\ UNCHANGED <<rowVars, verified, persisted,
                       handlerVars, wireVars, todo, overridden>>

(* Phase 2.  Gmail: stamp what a lost completion did not.  Outlook: the     *)
(* classification claim, which stamps verified_at unless it fails.          *)
Verify(w, r) ==
    /\ phase[w] = "verify"
    /\ cur[w] = r
    /\ verified' = [verified EXCEPT ![r] = TRUE]
    /\ Drop(w)
    /\ UNCHANGED <<status, rowVars, providerId, mailVars, handlerVars, wireVars,
                   todo, overridden>>

(* An exception in either phase, a soft time limit or a killed process: the *)
(* open transaction is gone.  The pass goes on with the next attempt, or is *)
(* over.                                                                    *)
PassFails(w) ==
    /\ phase[w] # "idle"
    /\ Drop(w)
    /\ UNCHANGED todo \/ todo' = [todo EXCEPT ![w] = {}]
    /\ UNCHANGED <<attemptVars, mailVars, handlerVars, wireVars, overridden>>

-----------------------------------------------------------------------------
Handler(r) ==
    \/ Load(r) \/ Refuse(r) \/ RefuseStale(r)
    \/ \E ov \in Request \cup {NoOne} : RefuseInFlight(r, ov) \/ Admit(r, ov)
    \/ Age(r) \/ ToInflight(r) \/ DeadlineBeforeCall(r)
    \/ CreateReply(r) \/ RecordDraft(r) \/ RecordDraftFails(r)
    \/ IssueSend(r) \/ Deliver(r)
    \/ AnswerAccepted(r) \/ AnswerRejected(r) \/ AnswerAmbiguous(r)
    \/ FailSend(r) \/ UnknownSend(r) \/ SettleInFreshSessionFails(r)
    \/ Complete(r) \/ CompleteFails(r) \/ HandlerDies(r) \/ Ingest(r)

Reconcile(w) ==
    \/ Scan(w) \/ PassFails(w)
    \/ \E r \in Request : PickUp(w, r) \/ Settle(w, r) \/ Verify(w, r)

Next == (\E r \in Request : Handler(r)) \/ (\E w \in Worker : Reconcile(w))

Spec == Init /\ [][Next]_vars

-----------------------------------------------------------------------------
(* Safety.                                                                  *)

(* At most one attempt of a thread can still reach the provider on its own  *)
(* account: once a second request is admitted, the first has been settled,  *)
(* expired or abandoned, whatever either handler was doing at the time.     *)
AtMostOneBlocker ==
    \A q, r \in Request :
        /\ status[q] \in {"preparing", "inflight", "unknown"}
        /\ status[r] \in {"preparing", "inflight", "unknown"}
        => q = r

(* "It's safe to try again": an attempt that reads failed or expired did    *)
(* not send mail and no call of it is left that still could.                *)
TerminalIsUnsent ==
    \A r \in Request :
        status[r] \in {"failed", "expired"} => ~wire[r] /\ ~delivered[r]

(* An attempt reads sent only when the provider did send the mail, and the  *)
(* thread's fence then covers the moment the user hit send.                 *)
SentIsTruth ==
    \A r \in Request :
        status[r] = "sent" => delivered[r] /\ createdAt[r] <= repliedAt

(* What the client was told is so: after a rejection, a superseded or a     *)
(* refused request nothing was sent and nothing will be; after a success    *)
(* the mail went out and the attempt says so.                               *)
ResponseIsHonest ==
    \A r \in Request :
        /\ resp[r] \in {"refused", "superseded", "rejected"} =>
               ~wire[r] /\ ~delivered[r]
        /\ resp[r] = "sent" => delivered[r] /\ status[r] = "sent"

(* No second mail behind the user's back: when a request has reached the    *)
(* provider, every earlier attempt of the thread either sent nothing and    *)
(* never will, or was overridden by the user, or was settled so that the    *)
(* later request's client had seen its fence.                               *)
NoUnseenDuplicate ==
    \A q, r \in Request :
        /\ wire[q] \/ delivered[q]
        /\ wire[r] \/ delivered[r]
        /\ createdAt[q] < createdAt[r]
        => \/ q \in overridden
           \/ status[q] = "sent" /\ createdAt[q] <= expected[r]

(* Delivered mail is never beyond the reach of reconciliation: its attempt  *)
(* stays in a status the settlement compare-and-set accepts (so a match is  *)
(* never the anomaly _settle_match logs), and an Outlook attempt has its    *)
(* correlation id on record before any mail can leave.                      *)
DeliveredIsSettleable ==
    \A r \in Request :
        wire[r] \/ delivered[r] =>
            /\ status[r] \in {"inflight", "abandoned", "unknown", "sent"}
            /\ Provider = "outlook" => providerId[r]

-----------------------------------------------------------------------------
(* The inductive invariant behind the safety properties.                    *)

(* What the attempt's row can say, by where its handler is.                 *)
HandlerInv ==
    \A r \in Request :
        /\ pc[r] \in {"idle", "loaded"} => status[r] = "none"
        /\ status[r] = "none" => pc[r] \in {"idle", "loaded", "done"}
        /\ status[r] = "preparing" => pc[r] \in {"claimed", "done"}
        /\ pc[r] = "claimed" =>
              status[r] \in {"preparing", "abandoned", "expired"} /\ ~wire[r]
        /\ pc[r] \in {"ready", "drafted", "recordFailed", "recorded", "rejected"}
              => status[r] \in {"inflight", "abandoned"} /\ ~wire[r]
        /\ pc[r] = "recorded" => providerId[r]
        /\ pc[r] \in {"calling", "accepted", "completeFailed"} => wire[r]
        /\ pc[r] = "accepted" => delivered[r]
        /\ pc[r] \in {"calling", "ambiguous", "accepted", "completeFailed"}
              => status[r] \in {"inflight", "abandoned", "sent"}
        /\ resp[r] # "none" => pc[r] = "done"
        /\ resp[r] \in {"refused", "superseded", "rejected"} => ~wire[r]
        /\ resp[r] = "sent" => status[r] = "sent"

(* What the provider did, and what of it is on record.                      *)
MailInv ==
    \A r \in Request :
        /\ delivered[r] => wire[r]
        /\ persisted[r] => delivered[r]
        /\ wire[r] => /\ status[r] \in {"inflight", "abandoned", "unknown", "sent"}
                      /\ Provider = "outlook" => providerId[r]
        /\ status[r] = "sent" => delivered[r] /\ createdAt[r] <= repliedAt

(* A worker only holds attempts whose mail is stored.                       *)
WorkerInv ==
    \A w \in Worker :
        phase[w] # "idle" =>
            /\ cur[w] \in Request
            /\ persisted[cur[w]]
            /\ seen[w] = "sent" => status[cur[w]] = "sent"

(* Attempts are dated in the order they were admitted, and each admission   *)
(* found every earlier attempt settled, expired or overridden.              *)
OrderInv ==
    /\ repliedAt <= clock
    /\ \A r \in Request :
          /\ createdAt[r] <= clock
          /\ (status[r] = "none") <=> (createdAt[r] = 0)
          /\ r \in overridden => status[r] \in {"abandoned", "sent", "failed"}
          /\ status[r] = "abandoned" => r \in overridden
    /\ \A q, r \in Request :
          /\ createdAt[q] = createdAt[r] /\ createdAt[q] # 0 => q = r
          /\ createdAt[q] # 0 /\ createdAt[q] < createdAt[r] =>
                \/ status[q] \in {"failed", "expired"}
                \/ q \in overridden
                \/ status[q] = "sent" /\ createdAt[q] <= expected[r]

IInv == TypeOK /\ HandlerInv /\ MailInv /\ WorkerInv /\ OrderInv

-----------------------------------------------------------------------------
(* Action properties.                                                       *)

(* sent, failed and expired are the end of an attempt; and the fence never  *)
(* moves back, in whatever order completions and late settlements commit.   *)
TerminalKept ==
    \A r \in Request :
        status[r] \in {"sent", "failed", "expired"} => status'[r] = status[r]

TerminalStays == [][TerminalKept]_vars

FenceMonotone == [][repliedAt <= repliedAt']_vars

-----------------------------------------------------------------------------
(* Refinement.                                                              *)

(* What the status of an attempt says of it.                                *)
Verdicts ==
    [r \in Request |->
        CASE status[r] = "none" -> "absent"
          [] status[r] \in {"preparing", "inflight", "unknown"} -> "open"
          [] status[r] = "abandoned" -> "waived"
          [] status[r] \in {"failed", "expired"} -> "unsent"
          [] OTHER -> "sent"]

(* What the outcome told to a client says.                                  *)
Answers ==
    [r \in Request |->
        CASE resp[r] = "none" -> "nothing"
          [] resp[r] \in {"refused", "superseded", "rejected"} -> "unsent"
          [] OTHER -> resp[r]]

(* The fence an attempt was asked for with.                                 *)
Shown == [r \in Request |-> IF status[r] = "none" THEN 0 ELSE expected[r]]

Ledger == INSTANCE ReplyLedger
          WITH Attempt <- Request, date <- createdAt, mailed <- delivered,
               fence <- repliedAt, verdict <- Verdicts, saw <- Shown,
               told <- Answers

(* Handlers, provider and passes together, stopped and overtaken anywhere,  *)
(* keep the ledger of ReplyLedger: one open attempt at most, each decided   *)
(* once and truly, no mail after "it's safe to try again", and nobody asks  *)
(* for another reply without having been shown the earlier ones.            *)
KeepsTheLedger == Ledger!Spec

-----------------------------------------------------------------------------
(* Liveness.  Syncs are scheduled for ever, so a delivered mail is ingested *)
(* and a pass is run again and again, and gets to its next attempt.  A pass *)
(* may be killed, but not every time at the same attempt: strong fairness   *)
(* of the two steps that settle it.                                         *)
Fairness ==
    /\ \A r \in Request : WF_vars(Ingest(r))
    /\ \A w \in Worker :
          /\ WF_vars(Scan(w))
          /\ WF_vars(\E r \in Request : Verify(w, r))
          /\ \A r \in Request :
                /\ SF_vars(PickUp(w, r))
                /\ SF_vars(Settle(w, r))

FairSpec == Spec /\ Fairness

(* Mail that left is recorded as sent, and the fence advanced, even when    *)
(* the handler died, timed out or was overridden: reconciliation gets there.*)
DeliveredIsRecorded ==
    \A r \in Request :
        delivered[r] ~> status[r] = "sent" /\ createdAt[r] <= repliedAt
=============================================================================
