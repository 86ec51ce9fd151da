------------------------------ MODULE Extraction -----------------------------
(****************************************************************************)
(* The action item of one message: claim, extract, record.                  *)
(*                                                                          *)
(* Source: services/nlp/persistence.py (claim_action_item,                  *)
(* record_extraction, upsert_classification), services/nlp/extraction_run.py*)
(* (the worker), routes/mailbox.py (reclassify, done, snooze),              *)
(* routes/actions.py (the status route), mail_send/common.py                *)
(* (advance_fence_and_resolve).                                             *)
(*                                                                          *)
(* An action_item row belongs to one message, and everything but the        *)
(* settlement of a reply reads and writes one row, so the module has one    *)
(* message of one thread.  A worker claims the row in a transaction under   *)
(* the thread's lock, calls the model with no transaction open, and records *)
(* in a transaction that locks the classification row only: between its     *)
(* reads and its write the thread may change, so each read is a step.       *)
(****************************************************************************)
EXTENDS Integers, FiniteSets

CONSTANTS
    Worker,       \* the processes that run extractions
    NoWorker,     \* no claim token; no lock holder
    MaxAttempts,  \* MAX_ATTEMPTS
    AttemptBound, \* where the model stops counting claims
    Result        \* what a call may find: the kinds of answer told apart

ASSUME NoWorkerAssumption == NoWorker \notin Worker
ASSUME AttemptAssumption ==
    MaxAttempts \in Nat \ {0} /\ AttemptBound \in Nat /\ MaxAttempts <= AttemptBound

ASSUME ResultAssumption == Result \subseteq {"reply", "other", "no_action", "failed"}

VARIABLES
    \* the action_item row of the message
    outcome,      \* "none": there is no row yet
    token,        \* claim_token, named by the worker that drew it
    attempts,
    lapsed,       \* is last_attempted_at older than PENDING_LEASE?
    kind,         \* "null" until an extraction is recorded
    status,       \* "none" while there is no row
    \* mail_thread, classification and reply_attempt
    done,         \* is done_at set?
    fence,        \* replied_at against the message's created_at
    label,        \* the message's label: in ACTION_LABELS, another, or no row
    labelBy,      \* "model" or "user"
    replies,      \* when the replies sent from the thread were created, again
                  \* against the message's created_at
    \* the workers
    phase,
    force,        \* is the worker's sweep a forced one?
    result,       \* what its call returned
    readLabel,    \* what its record transaction has read: label actionable?
    readDone,     \* done_at set?
    readReplied,  \* created_at <= replied_at?
    lock,         \* the worker whose record transaction locks the label's row
    hook,         \* is a reclassify task for the message in the queue?
    ask,          \* the status the status route is about to write
    \* history, for the properties only
    userOpen,     \* the item is open because the user opened it
    again,        \* the claim in hand is of a row with an extraction on it
    leftBy,       \* who took the label out of ACTION_LABELS since the record
    late          \* workers whose claim outlived its lease

rowVars    == <<outcome, token, attempts, lapsed, kind, status>>
threadVars == <<done, fence, replies>>
labelVars  == <<label, labelBy>>
readVars   == <<readLabel, readDone, readReplied>>
workerVars == <<phase, force, result, readVars, lock>>
histVars   == <<userOpen, again, leftBy, late>>
vars == <<rowVars, threadVars, labelVars, workerVars, hook, ask, histVars>>

Outcome == {"none", "pending", "extracted", "no_action", "failed", "ineligible"}
Kind == {"null", "reply", "other"}
Status == {"none", "open", "done", "dismissed"}
Phase == {"idle", "selected", "calling", "answered", "labelRead", "doneRead",
          "repliedRead"}

TypeOK ==
    /\ outcome \in Outcome
    /\ token \in Worker \cup {NoWorker}
    /\ attempts \in 0 .. AttemptBound
    /\ lapsed \in BOOLEAN
    /\ kind \in Kind
    /\ status \in Status
    /\ done \in BOOLEAN
    /\ fence \in {"null", "before", "covers"}
    /\ replies \in SUBSET {"before", "covers"}
    /\ label \in {"none", "action", "other"}
    /\ labelBy \in {"none", "model", "user"}
    /\ phase \in [Worker -> Phase]
    /\ force \in [Worker -> BOOLEAN]
    /\ result \in [Worker -> Result \cup {"none"}]
    /\ readLabel \in [Worker -> BOOLEAN]
    /\ readDone \in [Worker -> BOOLEAN]
    /\ readReplied \in [Worker -> BOOLEAN]
    /\ lock \in Worker \cup {NoWorker}
    /\ hook \in BOOLEAN
    /\ ask \in {"none", "open", "done", "dismissed"}
    /\ userOpen \in BOOLEAN
    /\ again \in BOOLEAN
    /\ leftBy \in SUBSET {"model", "user"}
    /\ late \in SUBSET Worker

(* The message has just been ingested: a reply sent from the thread earlier *)
(* may be settled already, or not yet.                                      *)
Init ==
    /\ outcome = "none"
    /\ token = NoWorker
    /\ attempts = 0
    /\ lapsed = FALSE
    /\ kind = "null"
    /\ status = "none"
    /\ done = FALSE
    /\ fence \in {"null", "before"}
    /\ replies \in SUBSET {"before"}
    /\ label = "none"
    /\ labelBy = "none"
    /\ phase = [w \in Worker |-> "idle"]
    /\ force = [w \in Worker |-> FALSE]
    /\ result = [w \in Worker |-> "none"]
    /\ readLabel = [w \in Worker |-> FALSE]
    /\ readDone = [w \in Worker |-> FALSE]
    /\ readReplied = [w \in Worker |-> FALSE]
    /\ lock = NoWorker
    /\ hook = FALSE
    /\ ask = "none"
    /\ userOpen = FALSE
    /\ again = FALSE
    /\ leftBy = {}
    /\ late = {}

-----------------------------------------------------------------------------
(* The predicates of the claim machine.                                     *)

\* Mutant: force may take a row from whoever holds it.
ClaimableForceAny(forced) ==
    \/ outcome = "ineligible"
    \/ outcome = "failed" /\ attempts < MaxAttempts
    \/ outcome = "pending" /\ lapsed /\ attempts < MaxAttempts
    \/ forced

Claimable(forced) ==
    \/ outcome = "ineligible"
    \/ outcome = "failed" /\ attempts < MaxAttempts
    \/ outcome = "pending" /\ lapsed /\ attempts < MaxAttempts
    \/ forced /\ outcome \notin {"none", "pending"}

\* Mutant: off by one against the claimable predicate.
SpentBeyondCap == outcome = "pending" /\ lapsed /\ attempts > MaxAttempts

(* A pending claim that lapsed at the cap: only terminalizing settles it.   *)
Spent == outcome = "pending" /\ lapsed /\ attempts >= MaxAttempts

Owns(w) == outcome = "pending" /\ token = w

\* Mutant: whatever its status, a row is stamped done.
DoneStampAlways(stamp) == IF stamp THEN "done" ELSE status

(* The status after a conditional done stamp: only an open row takes it.    *)
DoneStamp(stamp) == IF stamp /\ status = "open" THEN "done" ELSE status

NewStatus(s) ==
    /\ status' = s
    /\ userOpen' = (userOpen /\ s = "open")

Release(w) == IF lock = w THEN NoWorker ELSE lock

(* The worker is done with the message, and forgets what it knew of it.     *)
Leave(w) ==
    /\ phase' = [phase EXCEPT ![w] = "idle"]
    /\ force' = [force EXCEPT ![w] = FALSE]
    /\ result' = [result EXCEPT ![w] = "none"]
    /\ readLabel' = [readLabel EXCEPT ![w] = FALSE]
    /\ readDone' = [readDone EXCEPT ![w] = FALSE]
    /\ readReplied' = [readReplied EXCEPT ![w] = FALSE]
    /\ lock' = Release(w)

-----------------------------------------------------------------------------
(* Selecting the message, with no lock held.                                *)

\* Mutant: the message-driven sweep asks for a row.
MessageDrivenWithRow(f) ==
    /\ label = "action"
    /\ ~done
    /\ outcome # "none"
    /\ Claimable(f)

(* A sweep by messages (ingest hook, backfill route, recovery tick).        *)
MessageDriven(f) ==
    /\ label = "action"
    /\ ~done
    /\ outcome = "none" \/ Claimable(f)

(* A sweep by rows (recovery tick).                                         *)
RowDriven ==
    /\ ~done
    /\ Claimable(FALSE)
    /\ outcome = "ineligible" => label = "action"

Select(w, f) ==
    /\ phase[w] = "idle"
    /\ MessageDriven(f) \/ (~f /\ RowDriven)
    /\ phase' = [phase EXCEPT ![w] = "selected"]
    /\ force' = [force EXCEPT ![w] = f]
    /\ UNCHANGED <<rowVars, threadVars, labelVars, result, readVars, lock,
                   hook, ask, histVars>>

(* The reclassify task: no filter, and it may be run again by autoretry.    *)
TakeHook(w) ==
    /\ hook
    /\ phase[w] = "idle"
    /\ phase' = [phase EXCEPT ![w] = "selected"]
    /\ hook' \in BOOLEAN
    /\ UNCHANGED <<rowVars, threadVars, labelVars, force, result, readVars,
                   lock, ask, histVars>>

(* The claim transaction, under the thread's lock: insert the row, or take  *)
(* a claimable one.                                                         *)
Claim(w) ==
    /\ phase[w] = "selected"
    /\ attempts < AttemptBound
    /\ outcome = "none" \/ Claimable(force[w])
    /\ outcome' = "pending"
    /\ token' = w
    /\ attempts' = attempts + 1
    /\ lapsed' = FALSE
    /\ NewStatus(IF outcome = "none" THEN IF done THEN "done" ELSE "open"
                                     ELSE DoneStamp(done))
    /\ phase' = [phase EXCEPT ![w] = "calling"]
    /\ again' = (kind # "null")
    /\ late' = late \ {w}
    /\ UNCHANGED <<kind, threadVars, labelVars, force, result, readVars, lock,
                   hook, ask, leftBy>>

(* The same transaction finds nothing to claim, and terminalizes a spent    *)
(* claim.                                                                   *)
Skip(w) ==
    /\ phase[w] = "selected"
    /\ outcome # "none" /\ ~Claimable(force[w])
    /\ outcome' = IF Spent THEN "failed" ELSE outcome
    /\ Leave(w)
    /\ UNCHANGED <<token, attempts, lapsed, kind, status, threadVars,
                   labelVars, hook, ask, histVars>>

(* No credential, or the worker fails or dies before the claim commits.     *)
LeaveUnclaimed(w) ==
    /\ phase[w] = "selected"
    /\ Leave(w)
    /\ UNCHANGED <<rowVars, threadVars, labelVars, hook, ask, histVars>>

-----------------------------------------------------------------------------
(* The call, and the record transaction.                                    *)

Calling == {"calling", "answered", "labelRead", "doneRead", "repliedRead"}

Extract(w) ==
    /\ phase[w] = "calling"
    /\ \E x \in Result : result' = [result EXCEPT ![w] = x]
    /\ phase' = [phase EXCEPT ![w] = "answered"]
    /\ UNCHANGED <<rowVars, threadVars, labelVars, force, readVars, lock, hook,
                   ask, histVars>>

\* Mutant: the label's row is read without FOR UPDATE.
ReadLabelUnlocked(w) ==
    /\ phase[w] = "answered"
    /\ readLabel' = [readLabel EXCEPT ![w] = label = "action"]
    /\ phase' = [phase EXCEPT ![w] = "labelRead"]
    /\ UNCHANGED <<rowVars, threadVars, labelVars, force, result, readDone,
                   readReplied, lock, hook, ask, histVars>>

(* SELECT classification FOR UPDATE: with no row there is nothing to lock.  *)
ReadLabel(w) ==
    /\ phase[w] = "answered"
    /\ lock = NoWorker
    /\ lock' = IF label = "none" THEN NoWorker ELSE w
    /\ readLabel' = [readLabel EXCEPT ![w] = label = "action"]
    /\ phase' = [phase EXCEPT ![w] = "labelRead"]
    /\ UNCHANGED <<rowVars, threadVars, labelVars, force, result, readDone,
                   readReplied, hook, ask, histVars>>

ReadDone(w) ==
    /\ phase[w] = "labelRead"
    /\ readDone' = [readDone EXCEPT ![w] = done]
    /\ phase' = [phase EXCEPT ![w] = "doneRead"]
    /\ UNCHANGED <<rowVars, threadVars, labelVars, force, result, readLabel,
                   readReplied, lock, hook, ask, histVars>>

ReadReplied(w) ==
    /\ phase[w] = "doneRead"
    /\ readReplied' = [readReplied EXCEPT ![w] = fence = "covers"]
    /\ phase' = [phase EXCEPT ![w] = "repliedRead"]
    /\ UNCHANGED <<rowVars, threadVars, labelVars, force, result, readLabel,
                   readDone, lock, hook, ask, histVars>>

Recorded(w) ==
    IF ~readLabel[w] THEN "ineligible"
    ELSE IF result[w] \in {"reply", "other"} THEN "extracted" ELSE result[w]

RecordedKind(w) ==
    IF Recorded(w) = "extracted" THEN result[w]
    ELSE IF Recorded(w) = "no_action" THEN "null" ELSE kind

RecordFence(w) == Owns(w)

(* The fenced UPDATE and its commit.  A worker whose claim is no longer its *)
(* own changes nothing.                                                     *)
Record(w) ==
    /\ phase[w] = "repliedRead"
    /\ IF RecordFence(w)
       THEN /\ outcome' = Recorded(w)
            /\ token' = NoWorker
            /\ kind' = RecordedKind(w)
            /\ NewStatus(DoneStamp(readDone[w] \/ (readReplied[w]
                              /\ result[w] = "reply")))
            /\ leftBy' = {}
       ELSE UNCHANGED <<outcome, token, kind, status, userOpen, leftBy>>
    /\ Leave(w)
    /\ UNCHANGED <<attempts, lapsed, threadVars, labelVars, hook, ask, again,
                   late>>

(* The deadline passed before the call, or an exception, or the soft time   *)
(* limit: roll back, and in a fresh session force the claim to failed.      *)
FenceClaim(w) ==
    /\ phase[w] \in Calling
    /\ IF Owns(w) THEN outcome' = "failed" /\ token' = NoWorker
                  ELSE UNCHANGED <<outcome, token>>
    /\ Leave(w)
    /\ UNCHANGED <<attempts, lapsed, kind, status, threadVars, labelVars, hook,
                   ask, histVars>>

(* The fence cannot commit either, or the process is killed: the row stays  *)
(* pending until its lease lapses.                                          *)
Killed(w) ==
    /\ phase[w] \in Calling
    /\ Leave(w)
    /\ UNCHANGED <<rowVars, threadVars, labelVars, hook, ask, histVars>>

(* PENDING_LEASE passes. *)
Lapse ==
    /\ outcome = "pending"
    /\ ~lapsed
    /\ lapsed' = TRUE
    /\ late' = late \cup {token}
    /\ UNCHANGED <<outcome, token, attempts, kind, status, threadVars,
                   labelVars, workerVars, hook, ask, userOpen, again, leftBy>>

(* terminalize_expired_pending, first thing in every sweep and tick.        *)
Terminalize ==
    /\ Spent
    /\ outcome' = "failed"
    /\ UNCHANGED <<token, attempts, lapsed, kind, status, threadVars,
                   labelVars, workerVars, hook, ask, histVars>>

-----------------------------------------------------------------------------
(* The other writers of the row, the label and the thread.                  *)

Relabel(to, by) ==
    /\ lock = NoWorker
    /\ label' = to
    /\ labelBy' = by
    /\ leftBy' = IF label = "action" /\ to = "other" THEN leftBy \cup {by}
                                                     ELSE leftBy

(* upsert_classification by ingest, backfill or a task: never over the      *)
(* user's label.                                                            *)
ModelLabels(to) ==
    /\ labelBy # "user"
    /\ Relabel(to, "model")
    /\ UNCHANGED <<rowVars, threadVars, workerVars, hook, ask, userOpen, again,
                   late>>

(* An extraction under a label that is no longer an action is withdrawn, so *)
(* that the way back can extract again.                                     *)
Withdraw(to) ==
    IF to = "other" /\ outcome = "extracted" THEN "ineligible" ELSE outcome

(* reclassify_thread.  The task may be lost with the broker.                *)
Reclassify(to) ==
    /\ Relabel(to, "user")
    /\ outcome' = Withdraw(to)
    /\ hook' \in IF to = "action" THEN {hook, TRUE} ELSE {hook}
    /\ UNCHANGED <<token, attempts, lapsed, kind, status, threadVars,
                   workerVars, ask, userOpen, again, late>>

\* Mutant: a done thread resolves only what has been extracted.
SetDoneExtractedOnly ==
    /\ ~done
    /\ done' = TRUE
    /\ NewStatus(DoneStamp(outcome = "extracted"))
    /\ UNCHANGED <<outcome, token, attempts, lapsed, kind, fence, replies,
                   labelVars, workerVars, hook, ask, again, leftBy, late>>

(* set_thread_done(true), under the thread's lock: every open item of the   *)
(* thread is resolved, a pending one too.                                   *)
SetDone ==
    /\ ~done
    /\ done' = TRUE
    /\ NewStatus(DoneStamp(TRUE))
    /\ UNCHANGED <<outcome, token, attempts, lapsed, kind, fence, replies,
                   labelVars, workerVars, hook, ask, again, leftBy, late>>

(* set_thread_done(false), snooze_thread, newer mail: no item is reopened.  *)
Undone ==
    /\ done
    /\ done' = FALSE
    /\ UNCHANGED <<rowVars, fence, replies, labelVars, workerVars, hook, ask,
                   histVars>>

(* set_action_status reads the item with no lock ...                        *)
AskStatus(s) ==
    /\ ask = "none"
    /\ outcome = "extracted"
    /\ s # status
    /\ ask' = s
    /\ UNCHANGED <<rowVars, threadVars, labelVars, workerVars, hook, histVars>>

(* ... and writes it by primary key, whatever became of it meanwhile.       *)
WriteStatus ==
    /\ ask # "none"
    /\ status' = ask
    /\ userOpen' = (ask = "open")
    /\ ask' = "none"
    /\ UNCHANGED <<outcome, token, attempts, lapsed, kind, threadVars,
                   labelVars, workerVars, hook, again, leftBy, late>>

(* A reply is admitted: its attempt is dated after the message.             *)
SendReply ==
    /\ "covers" \notin replies
    /\ replies' = replies \cup {"covers"}
    /\ UNCHANGED <<rowVars, done, fence, labelVars, workerVars, hook, ask,
                   histVars>>

\* Mutant: a row with no kind yet is not resolved.
AnswersReplyOnly == kind = "reply"

Answers == kind \in {"reply", "null"}

(* advance_fence_and_resolve, under the thread's lock: on completion, on    *)
(* reconciliation, and again on every later pass that finds an Outlook      *)
(* attempt sent but not verified.                                           *)
Settle(a) ==
    /\ a \in replies
    /\ fence' = IF fence = "covers" THEN "covers" ELSE a
    /\ NewStatus(DoneStamp(Answers))
    /\ UNCHANGED <<outcome, token, attempts, lapsed, kind, done, replies,
                   labelVars, workerVars, hook, ask, again, leftBy, late>>

-----------------------------------------------------------------------------
Work(w) ==
    \/ \E f \in BOOLEAN : Select(w, f)
    \/ TakeHook(w) \/ Claim(w) \/ Skip(w) \/ LeaveUnclaimed(w)
    \/ Extract(w) \/ ReadLabel(w) \/ ReadDone(w) \/ ReadReplied(w) \/ Record(w)
    \/ FenceClaim(w) \/ Killed(w)

Others ==
    \/ \E to \in {"action", "other"} : ModelLabels(to) \/ Reclassify(to)
    \/ SetDone \/ Undone
    \/ \E s \in {"open", "done", "dismissed"} : AskStatus(s)
    \/ WriteStatus \/ SendReply
    \/ \E a \in {"before", "covers"} : Settle(a)

Next == (\E w \in Worker : Work(w)) \/ Lapse \/ Terminalize \/ Others

Spec == Init /\ [][Next]_vars

-----------------------------------------------------------------------------
(* Safety.                                                                  *)

(* A message is never being extracted twice at a time, so the user's key is *)
(* not billed twice, unless an earlier worker outlived its whole lease:     *)
(* neither a forced sweep nor the reclassify task takes a live claim.       *)
OneCallAtATime ==
    \A v, w \in Worker :
        /\ phase[v] \in Calling
        /\ phase[w] \in Calling
        => v = w \/ v \in late \/ w \in late

(* No interleaving of a claim or a record with the done route leaves an     *)
(* open item on a done thread, where it would surface after a reopen, other *)
(* than one the user opened.                                                *)
NoOpenOnDone == done /\ status = "open" => userOpen

(* A message the user had answered before its first extraction was recorded *)
(* does not come up as one to answer.                                       *)
AnsweredIsResolved ==
    /\ outcome = "extracted" /\ kind = "reply"
    /\ status = "open" /\ fence = "covers"
    => userOpen \/ again

(* An extraction that is shown was recorded after the user last took the    *)
(* label out of ACTION_LABELS, and not under a label of the user's that is  *)
(* no action: a reclassification out, or out and back, never shows the old  *)
(* one again, even when it races a record.                                  *)
NothingStaleShown ==
    outcome = "extracted" =>
        /\ "user" \notin leftBy
        /\ labelBy = "user" => label = "action"

(* What a row may look like between the claim machine and its workers: a    *)
(* pending row has a token, a worker past its claim owns it or outlived it, *)
(* and a label read under the lock is still the label.                      *)
ClaimInv ==
    /\ (outcome = "none") <=> (attempts = 0)
    /\ (outcome = "none") <=> (status = "none")
    /\ ask # "none" => outcome # "none"
    /\ outcome = "pending" => token # NoWorker
    /\ outcome = "pending" /\ lapsed => token \in late
    /\ lock # NoWorker => phase[lock] \in {"labelRead", "doneRead", "repliedRead"}
    /\ \A w \in Worker :
          /\ phase[w] \in Calling => Owns(w) \/ w \in late
          /\ phase[w] \in {"labelRead", "doneRead", "repliedRead"} /\ readLabel[w]
                => lock = w /\ label = "action"
          /\ phase[w] \in Calling \ {"calling"} => result[w] \in Result

IInv == TypeOK /\ ClaimInv

(* Why an answered message is resolved: as long as an attempt runs on a row *)
(* with no extraction on it, the row has no kind, and if the fence covers   *)
(* the message the attempt's own read of the fence has seen it.             *)
AnswerInv ==
    /\ AnsweredIsResolved
    /\ outcome = "pending" /\ ~again =>
          /\ kind = "null"
          /\ status = "open" /\ fence = "covers" =>
                \/ userOpen
                \/ \A w \in Worker :
                      Owns(w) /\ phase[w] = "repliedRead" => readReplied[w]

(* Two things the docs say and the code does not do.  A reclassify-back     *)
(* must always be able to re-extract, whoever took the label away.          *)
BackCanReextract ==
    /\ outcome = "extracted"
    /\ label = "action" /\ labelBy = "user"
    => leftBy = {}

(* An answered message never gets a second obligation.                      *)
NoSecondObligation ==
    /\ outcome = "extracted" /\ kind = "reply"
    /\ status = "open" /\ fence = "covers"
    => userOpen

-----------------------------------------------------------------------------
(* Action properties.                                                       *)

(* Once an item is resolved only the user opens it again, and what the user *)
(* dismissed stays dismissed, through re-extraction, done and settlement.   *)
ResolvedStays ==
    [][ /\ status \in {"done", "dismissed"}
        /\ status' # status
        => ask # "none" /\ status' = ask ]_vars

(* A message that arrived after a reply was sent was not answered by it: so *)
(* a test says, and the code does not ensure it when it settles late.       *)
LaterMessageIsUnanswered ==
    [][ status = "open" /\ status' = "done" =>
            done' \/ ask = "done" \/ fence' = "covers" ]_vars

-----------------------------------------------------------------------------
(* Liveness.  The recovery tick runs for ever and time passes.  A worker    *)
(* may fail or be killed, but a step it can take is taken; a selected       *)
(* message is claimed or given up.                                          *)
Fairness ==
    /\ WF_vars(Lapse)
    /\ WF_vars(Terminalize)
    /\ \A w \in Worker :
          /\ WF_vars(Select(w, FALSE))
          /\ WF_vars(Extract(w) \/ ReadDone(w) \/ ReadReplied(w) \/ Record(w))
          /\ SF_vars(ReadLabel(w))
          /\ SF_vars(Claim(w) \/ Skip(w))

FairSpec == Spec /\ Fairness

(* No claim is stuck: a pending row is settled, or retried and settled,     *)
(* whichever workers died on it.                                            *)
PendingSettles == (outcome = "pending") ~> (outcome # "pending" \/ done)

(* A lost enqueue is recovered: an actionable message with no row gets one, *)
(* as long as its thread stays open and its label actionable.               *)
LostEnqueueRecovered ==
    (outcome = "none" /\ label = "action") ~>
        (outcome # "none" \/ label # "action" \/ done)
=============================================================================
