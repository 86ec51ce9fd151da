# A verification development for AI-Mailbox

AI-Mailbox ingests mail from Gmail and Outlook accounts, classifies it, extracts
action items with the user's own LLM key, sends replies, and pushes labels back
to the mailbox. The API (FastAPI), the workers (Celery) and a beat scheduler
share one Postgres database; almost everything that is hard here is two of them
working on the same row with a network call in between. This directory holds
TLA+ models of those protocols, TLC runs over small instances, and machine-checked
proofs. Paths below are relative to `src/apps/api/app/` unless they say otherwise.

## 1. Inventory

| Component | State it keeps | Operations | Talks to |
|---|---|---|---|
| Reply send (`routes/reply.py`, `services/mail_send/`) | `reply_attempt` rows, the fence `mail_thread.replied_at` | admit, override, send, complete, mark failed / unknown | provider, reconciliation, action items |
| Reconciliation (`mail_send/reconcile.py`) | the same rows | scan, match with ingested mail, settle, verify | ingest (runs at its START and END), LLM |
| Action extraction (`services/nlp/persistence.py`, `extraction_run.py`, `workers/tasks_nlp.py`) | one `action_item` row per message | claim, call, record, fence, terminalize, the sweeps | classification rows, thread routes, LLM |
| Thread and item routes (`routes/mailbox.py`, `routes/actions.py`) | `done_at`, `snoozed_until`, item status, user labels | done, snooze, reclassify, set status | extraction queue |
| Sync runs (`services/sync_runs.py`, `workers/tasks_ingest.py`) | `mail_sync_run` rows, one active per account | start, expire, enqueue, heartbeat, retry, finish | broker, ingest |
| Label sync (`services/label_sync/`, `workers/tasks_label_sync.py`, `routes/auth.py`) | applied pair, pending target, claim and lease per thread; opt-in and generation per account | claim, strip, intend, apply, record, enable, disable | provider, ingest |
| Gmail ingest, Outlook ingest (`services/ingest/`) | cursors, backfill flag, threads, messages | history, listing, delta pages, upsert, removals, reopen | provider, reconciliation, classification |
| Classification, backfill, breaker (`services/nlp/backfill.py`, `classification_breaker.py`, `classifier.py`) | classification rows, a run's breaker and counts | ask, take in, protect user labels, stop early | LLM, usage |
| LLM client, usage (`llm_client.py`, `usage.py`) | usage counters | call with retries and budget, buffer, flush | provider of the model |
| LLM credentials and routing (`routes/llm_settings.py`, `services/nlp/providers.py`) | `user_llm_credential` rows, the router's memo | put, create, activate, delete, test; route a call | LLM, every run that classifies |
| Accounts (`routes/auth_password.py`, `services/auth_tokens.py`, `deps.py`) | users, links, `token_version` | issue, consume, verify, reset, login, revoke | mail to users, rate limiter |
| Provider accounts (`routes/auth_google.py`, `auth_microsoft.py`, `routes/auth.py`) | state nonces, `provider_account` rows, refresh tokens | sign in, connect, disconnect, refresh, pause | OAuth servers, every worker |
| Rate limiter (`core/ratelimit.py`) | Redis counters | count, expire | every route |
| Web client, local model, deployment | - | - | - |

What is hard, and therefore what the models are for:

* **Provider calls outside a transaction.** Send, extraction and label sync all
  follow claim - call - record. The claimant may die, be killed by a time limit,
  time out while the provider acts, or be so slow that its lease lapses and
  somebody else claims.
* **Reads before locks.** Several records are read without a lock and written by
  primary key (the sweep of stale sync runs, the status route, the record of an
  extraction); another commit may land between.
* **Two clocks for one fact.** A reply is *sent* when the provider says so, but
  *recorded* when a handler or a later reconciliation pass gets to it.
* **Lost messages.** The broker may lose a task after the row that expects it was
  committed.
* **Cursors.** A pull advances a cursor past mail it claims to have stored, while
  mail arrives, moves and is deleted, cursors expire, and budgets cut a run off.
* **Checks before commits.** Sign-in, account linking and credential routes look
  something up and then write it; what is between is kept apart by a unique index,
  by `DELETE ... RETURNING`, by `FOR UPDATE`, or by nothing.
* **Money.** A paid call may be retried, repeated by another phase or another run,
  or counted in a transaction that rolls back.

`PROJECT.json` lists each of these at the line where it bites ("hazards"), with
the properties that cover it.

What makes each component correct:

* reply send: no second mail the user did not ask for; the client is told the
  truth; delivered mail is always settled in the end; the fence never moves back;
* extraction: one paid call at a time; what was resolved is not reopened; nothing
  stale is shown; no claim is stuck;
* sync runs: one ingest per account; the slot is always released;
* label sync: no category is forgotten in the mailbox; the recorded pair is the
  truth; an enabled thread converges; a re-enable is not undone by an old task;
* ingest: nothing the mailbox holds is skipped by a cursor, only what was deleted is
  removed, a walk catches up; a thread set done is reopened by news and only by it;
* classification: the user's label stays; no call is billed twice or counted twice;
  a run that gets no verdicts stops; a message asked in vain is not asked again;
* sign-in: a link works once; a revoked session stays dead; a verification link
  never replaces a password;
* provider accounts: every path to a mailbox agrees on its owner; an account is
  paused for cause, and a dead one does not stay in the schedule;
* credentials: the cap and the one active key hold under concurrent changes; a key
  is billed with consent only, and a test vouches for what it tried.

## 2. Modules

Which module stands for what others only assume:

| Module | Composes with |
|---|---|
| `ReplyLedger` | the abstract specification that `ReplySend` is checked and proved to implement |
| `MailboxMirror` | the abstract specification that `GmailIngest` and `OutlookIngest` are checked and proved to implement |
| `LlmCall` | one paid call as a set of outcomes; `Classification` extends it |
| `SyncRun` | gives the ingest modules "the runs of an account follow one another" (`OneIngest`) |
| `Classification` | the paid half of ingest, reconciliation and backfill; `ReplySend` keeps its effect on `verified_at` |
| `SignIn`, `Grants` | two views of an account: the address and its password, the mailbox and its token |
| `AccountProofs` | theorems about `SyncRun`, `Grants` and `Classification`, which share no variable; names that would clash carry the part's own (`SlotSpec`, `GrantSpec`, `Spec`) |
| other `*Proofs` | theorems about the module of that name (section 5) |

Every module has one VARIABLES section grouped by the table or process the
variables stand for, one action per handler, transaction or provider call, and
`MC<Module>` with its `.cfg` files for TLC. Operators whose comment begins with
"Mutant:" are plausible bugs: put in place of the operator they stand before, they
make the named property of `PROJECT.json` fail.

### ReplyLedger

What a thread promises of the replies sent from it, with no handler, worker, draft or
lease in it. An attempt is asked for when no other is open any more (the others were
waived by the user, expired without mail, or decided) and by somebody who was shown the
fence as it is; its mail leaves at most once, while it is undecided and nobody was told
that it is unsent; it is decided once, unsent or sent, and `sent` moves the fence.
`Truthful` and `Final` say what such a ledger is good for. `ReplySend` maps
`preparing`, `inflight` and `unknown` to open, `abandoned` to waived, `failed` and
`expired` to unsent (`Verdicts`), and what its clients are told to unsent, unknown or
sent (`Answers`).

### ReplySend

One thread. A `Request` is one `POST /thread/{id}/reply`; since an admitted request
creates exactly one attempt, attempts are named by their request. `status`,
`createdAt`, `aged`, `providerId`, `verified` are the columns of `reply_attempt`
(`aged` says whether `created_at` is older than the TTL of a preparing row, so no
clock is modelled but the order of admissions). `repliedAt` is the fence. `pc` is
the place of the request handler; `wire` and `delivered` are the provider's side:
a call that has gone out may be acted on at any later time, also after the handler
gave up or died. `todo`, `phase`, `cur`, `seen` belong to a reconciliation pass.

Transactions that hold the thread's row lock and call nobody are one action
(`Admit`, `Complete`, `Settle`). The two providers differ in the constant
`Provider`: Gmail has one call and settles `verified_at` itself, Outlook first
creates a draft and records its id, which is what reconciliation will match.

### Extraction

One message of one thread, its `action_item` row, its label, and the thread's
`done` and `fence`. A worker goes `selected - calling - answered - labelRead -
doneRead - repliedRead`: the record transaction locks the classification row only,
so each of its reads is a step of its own. Dates matter only relative to the
message: `fence` and `replies` are "before" or "covers" it. `Undone` stands for
everything that clears `done_at` (undo, snooze, newer mail). The 30-day window of
the sweeps is left out: a message older than that is simply never selected, which
is a behaviour without the fairness.

### SyncRun

The rows of one account. `SelectStale` and `ExpireStale` are apart because the
code selects without a lock and then writes by primary key; so are `Start`
(`set_state` reads) and `Running` (it writes). The partial unique index is
`SlotFreeFor`. The heartbeat changes no status and only renews the lease, which
`Lapse` already assumes never to lapse under a running task (hard limit 30 minutes,
lease 40). `robbed` is a history variable: runs failed while their task was at work.

### LabelSync

One Outlook thread. `mailbox` and `cat` are the provider's side: which messages
exist and which category of ours each carries. `here` and `label` are our messages
and their classifications; the wanted state is the label of the latest message, on
that message. `phase` walks through the task: strip what a dead task left
(`pending`), write the intent, strip the previous message, merge, record. `my` is
the ClaimResult. Reading and writing a message's categories is one step, because
the write is conditional on the etag. Categories the owner edits by hand are not
modelled. `enabled` stands for all that makes the account eligible (opt-in, scope, not
paused): a refusal is a claim that is not made. The Gmail half (the cache of label
ids and its generation) is not modelled.

### MailboxMirror

What an ingest promises whatever the provider's protocol: a set `there` of messages
in the mailbox, a set `mirror` of stored ones, and a debt `owed` of messages that a
later walk still reports. Mail that comes is owed; a transaction may take a message
off the debt only when the copy is right about it, may not lose one that is there,
and may not bring back one that is gone unless it is still owed a correction.
`NothingSkipped` is its invariant.

### GmailIngest

One account. A message is named by its place in the order of arrival, which is its
history id and its date. A run is `history - profile - list - fetch/store/commit`:
`my` holds its locals, named as in the code, `dirty` and `reopened` what its open
transaction has written. `Start(mode)` is a manual pull, a new-only pull of the
scheduler, or a refresh. `Finish` sets cursor and backfill flag. `Die` loses what was
not committed. `HistoryExpired` is Gmail's 404. Mail arrives, threads are deleted and
set done at any step. The refinement maps `owed` to what the cursor and the backfill
flag still promise; `blind` is a history variable that marks the one place where the
code vouches for more than it read (section 6, `NothingSkipped`).

### OutlookIngest

The inbox and the sent items of one account. `log` is Graph's change log of a folder,
a `Link` is a delta link: what is left of the baseline and a place in the log. A page
is fetched, then deferred (`Defer`: its verified removals exceed the budget left) or
applied with its cursor in one transaction (`Apply`). A baseline that is cut off at
the cap is begun anew in the narrow window (`waived` remembers what was given up,
`shrunk` the folders that lost a message while their baseline was walked). A
message that moves out of a folder is reported as removed from it like a deleted one;
the code asks Graph for it, and only what is gone everywhere is deleted (`Deleted`).

### SignIn

One address. A request runs once; `pc` is the statement it is at. A link is named for
the request that issued it; `link[t]` is what its row says. Deleting the earlier
links, and consuming one, waits for a transaction that holds the row (`Taken`).
`VerifyNewUser` is the insert that may lose to another's, with the rollback that gives
the link back. The limiter is two calls, increment and expiry, and Redis may be away
at either. `revoked`, `spent`, `tries` and `saw` are history.

### Grants

One mailbox. A `Flow` is a browser's way through a sign-in, a connection or a
disconnection: nonce, consent, code exchange, lookup, commit. The commit is refused by
the unique constraints of `app_user` and `provider_account`; a sign-in that lost tries
once more. A `Worker` refreshes the access token: the provider accepts or rejects the
refresh token it read, and the answer is written by primary key.

### LlmKeys

The credentials of one user. A structural change is `Lock` (the user's row FOR UPDATE,
then the rows are read) and one committing action; the lock is released by the commit.
What a commit writes goes through the two unique constraints (`Admits`); `failed` is a
request they refused. `StartTest - CallTest - Stamp` is the test route, which takes no
lock and stamps by id and revision. `FirstRead - SecondRead - Classified` is a run
that routes a message, with the memo and its age in ticks.

### LlmCall and Classification

`LlmCall` is pure: `Calls(policy)` is the set of everything one logical call may come
to (answered or not, times billed, time waited, verdict), by the retry loop of
`llm_client.py`; recursion over the tries is a recursive function. What a provider
bills is the assumption the client states: an answer that began to arrive is billed, a
refusal or a connection never made is not, a connection lost on the way may be.

`Classification` is every caller of it: a backfill with its batches, an Outlook ingest
with its start pass, pages and end pass, a Gmail ingest with its threads and passes, a
reconciliation pass, and a single message, together with the user's override. A call
is two steps, made and taken in; `run[p]` holds the locals of the run. `classify_message`
of `tasks_nlp.py` is queued by nothing in the repository and is modelled as it stands.

## 3. Runs

A run checks the liveness properties, which no theorem settles, and the safety properties
and refinements that are also proved, on the instance where they were found out; `Inv` of
a module bundles its type invariant with the smaller invariants, each with its own comment
in the module.

| Run | Instance | Checks |
|---|---|---|
| `reply_outlook` | Outlook, 2 requests, 2 passes, symmetry | `NoUnseenDuplicate`, `DeliveredIsSettleable`, `KeepsTheLedger` (refinement) |
| `reply_gmail` | Gmail, 2 requests, 1 pass, fairness | `DeliveredIsRecorded` (liveness) |
| `extraction_race` | 2 workers, cap 2, 2 claims, symmetry | `OneCallAtATime`, `NoOpenOnDone` |
| `extraction_item` | 1 worker, every kind of answer, fairness | `AnsweredIsResolved`, `NothingStaleShown`, `ResolvedStays`; `PendingSettles`, `LostEnqueueRecovered` (liveness) |
| `sync_slot` | 2 runs, 2 starters, 2 retries, fairness | `OneIngest`; `SlotIsReleased` (liveness) |
| `label_thread` | 2 tasks, 2 messages, 1 label, 1 re-enable, fairness | `OwnedIsReachable`, `ReenableReconverges`; `Converges` (liveness) |
| `gmail_ingest` | 2 threads, 3 messages, the third the user's own, fairness | `Inv`, `MirrorsTheMailbox` (refinement), `ReopenedByNews`; `CatchesUp` (liveness) |
| `outlook_ingest` | 4 messages (two old, one sent), 3 mailbox events, cap 2, fairness | `Inv`, `MirrorsTheMailbox` (refinement), `OnlyDeletedIsRemoved`; `CatchesUp` (liveness) |
| `sign_in` | 3 requests of any kind, 2 passwords, limit 1, symmetry | `Inv`, `RevokedIsDead`, `VerifyNeverReplaces` |
| `grants` | 2 users, 2 flows, 1 worker, either provider, fairness | `GrantInv`, `OneOwner`; `DeadIsNoticed` (liveness) |
| `llm_keys` | 2 requests, 3 names, 3 ids, cap 2, a test, a run, symmetry | `Inv`, `RevocationIsPrompt`, `StampIsOfWhatWasTested`, `RoutesWithConsent` |
| `classification` | 2 runs of any of the 5 kinds, 3 messages, one of them a sent reply | `Inv`, `RetriesAreCheap`, `UsageConserved`, `StopsAfterStreak`, `OverrideStays`, `AskedInVainOnce` |

Why the bounds are enough. The properties of replies speak of two attempts, and
the theorems of section 5 remove the bound. An extraction needs two claims,
one to lapse or fail and one to race or retry it, and the second is at the cap, where a
lapsed claim is terminalized (`AttemptBound` stops the counting; the cap is
`MaxAttempts`). That a forced sweep may claim beyond the cap, as the code does, is
covered by the theorems and not by the runs. A
robbed slot needs two runs, and a third would be a repetition of the second. Label
sync needs two messages for "previous" and "current", two tasks for a late writer,
and one label against none: the code never tells two labels apart, it replaces
whatever is there. `GenerationBound` counts re-enables; a thread starts with the
sync on or off, so one is a full off-and-on cycle. One lease may lapse under a
task at work (`overran`), which the time limits are meant to exclude.

*Ingest*: two threads and three messages are a known thread with news beside an
unknown one, and the walk and commit bounds are at the values (1 and 2) at which a
listing is cut off, a page holds one thread more than a run may import, and a run dies
with a transaction behind it and one open. For Outlook every limit but the page
budget and the cap is one, so that each is reached: a page is full, the removal budget
is used up. The cap is two and a page holds one, with three messages in the inbox, so
that a baseline is cut off and the mailbox may change between its pages.
Two assumptions are the code's own constants and are needed for `CatchesUp`: a page's
removals fit the budget of a fresh run (`PageSize <= RemovalBudget`), and a run may
fetch two pages (`MaxPages >= 2`), so that a settled inbox leaves one for the sent
items. *SignIn*: a race of three (say an issue, a consumption, and a login) on each
kind of user row, with an old link of each purpose about; theorems remove the bound.
*Grants*: the loser of a race is one of two, and the second attempt of a sign-in is
made once. *LlmKeys*: the cap 2 stands for the code's, three names and ids are one
beyond it, two requests race, and the lock's theorem removes the bound. *Classification*:
the streak limit 2 stands for 3, the batch of 2 for 25, waits are in ticks of the
backoff's base, with 3 tries for a worker where the code has 4, and 2 inline as there; `MaxEvents` lets
a delta deliver a message twice, `MaxRuns` lets a run follow a dead one.

`CHECK_DEADLOCK FALSE` appears where the instance really ends: all requests are
answered and settled (ReplySend), all messages were deleted and the switch is used up
(LabelSync), the mailbox has used up its events and a walk has nothing to report, or
flows, requests and runs are spent (GmailIngest, OutlookIngest, SignIn, Grants,
Classification).

Fairness, and why the code justifies it. *ReplySend*: the scheduler starts syncs
for ever, a sync ingests what the provider delivered and runs a pass; a pass may
be killed, but not at the same attempt each time (strong fairness of picking an
attempt up and settling it, weak of the rest). The request handler gets no
fairness: it may stop anywhere. *Extraction*: the recovery tick recurs and time
passes; a worker may be killed at any step, so the steps that need a lock or a
claim have strong fairness. *SyncRun*: time passes, a task ends by itself or by
its time limit, a sweep does not die every time. *LabelSync*: the tick recurs,
time passes, syncs find deleted messages; `Converges` is asked of behaviours in
which the mail, the user and the provider come to rest (`Quiet`), since a new
classification may otherwise always come before the record. *Ingest*: the beat
schedule starts a pull whenever the account's slot is free (for Gmail strong fairness
of the new-only start, since a user's own pull may hold the slot in between), and a
run that does not fail gets on; `CatchesUp` is asked once workers and provider stop
failing and the mailbox comes to rest. *Grants*: the schedule comes back to an account
that is not paused, and a worker gets on; `DeadIsNoticed` is asked once workers stop
failing. SignIn, LlmKeys and Classification have no liveness: a request or a run may
stop anywhere and nothing waits for it.

## 4. What the safety properties say

The comment above each property is the statement; the ones that took thought:

* `NoUnseenDuplicate` relates two requests: when both have reached the provider,
  the earlier was overridden by the user, or is recorded as sent with a date the
  later request's client had seen as the fence.
* `DeliveredIsSettleable`: mail that left is always in a status the settlement's
  compare-and-set accepts and, on Outlook, has its correlation id on record.
* `KeepsTheLedger` relates every step of a handler, of the provider and of a pass to the
  ledger of the thread: what is told to a client (`ResponseIsHonest`), how an attempt
  ends (`TerminalIsUnsent`, `SentIsTruth`, `TerminalStays`) and that one at most is open
  (`AtMostOneBlocker`) are parts of it, each a theorem of its own.
* `OneCallAtATime`: two paid calls for one message are out at once only when a lease
  has lapsed under one of them.
* `NothingStaleShown`: what is shown was recorded after the user last took the label
  away, and is not under a label of the user's that is no action, also when that comes
  between a record's reads and its write: the lock on the label's row is what holds it.
* `TaskHoldsSlot`: a task at work owns its account's slot, except when the sweep's
  stale write took it (which is the disagreement `SingleFlight`).
* `OwnedIsReachable`: a category of ours on a message is always named by the
  applied pair or the pending target, whatever died in between.
* `OwnersTargetIsPending`: even with a late writer, the claim's owner has its own
  target on record while it writes.
* `MirrorsTheMailbox` relates a cursor to the mailbox it was drawn from, over every
  death, expiry, cap and move: it is a refinement, so it says of every transaction
  that it takes off the debt only what it has copied.
* `ReopenedByNews` and `DoneIsCaughtUp` (in `Inv`) are the two sides of reopening: a
  thread is not reopened without news, and not left done over news.
* `DeletionsAreReported` (in `Inv`): no Outlook cursor passes a removal that was not
  applied; with `OnlyDeletedIsRemoved` the removals are exact.
* `WideIsWhole` (in `Inv`): a baseline cut off at the cap is never taken for complete,
  although the code knows of the cut only what its count tells it. It holds of folders
  that lose nothing during the walk (section 6).
* `RevokedIsDead` relates each session to the revocation it was minted after, through
  a login that reads its user before the revocation and mints after it.
* `EarlierLinkDies` (in `Inv`) speaks of links that were *committed* when the issue
  looked; two issued at once may both live, which the code accepts.
* `OneOwner` is four statements of one step: who signs in is the owner, a lost sign-in
  leaves no empty user, a Microsoft identity never becomes a user who was there, and a
  mailbox changes hands by disconnection only.
* `StampIsOfWhatWasTested`, `RoutesWithConsent` and `RevocationIsPrompt` bound what may
  happen to a key between a read without a lock and the use of it.
* `UsageConserved` accounts for each answered call in exactly one place: the table, one
  run's buffer, or lost for good with a crash or a failed flush.
* `AskedInVainOnce`, `StopsAfterStreak`: a property of one run over all its phases.

## 5. Proofs

`ReplySendProofs` proves, for any sets of requests and workers and for both
providers, from the two named assumptions of `ReplySend` (the provider is one of
the two; `NoOne` is no request and no worker):

* `TypeCorrect`: `Spec => []TypeOK`;
* `Invariance`: `Spec => []IInv`, the inductive invariant;
* `SingleBlocker`, `TerminalUnsent`, `SentTruth`, `HonestResponse`, `NoDuplicate`,
  `Settleable`: the safety invariants, each from `IInv`;
* `FenceNeverBack`, `TerminalFinal`: the two action properties;
* `KeepsLedger` (`KeepsTheLedger`): every step maps to a step of `ReplyLedger` or to a
  stutter. `IInv` is what makes it so: the ledger lets mail leave only for an undecided
  attempt of which nobody was told that it is unsent, and the code, which knows the
  handler's place only, does so by `HandlerInv` and `MailInv`;
* `LedgerIsTruthful`: whatever keeps the ledger is `Truthful` and `Final`, which is
  proved from the ledger alone, so nothing of `ReplySend` is used.

`IInv` is `TypeOK` with four parts, each needed because the safety properties are
not inductive. `HandlerInv` ties a row's status to the place of its handler: a
"rejected" answer is honest only because a handler at that place has an attempt
no call of which is out. `MailInv` says what must be on record about what the
provider did. `WorkerInv`: a pass holds only attempts whose mail is stored, so that
settling one is the truth. `OrderInv` carries the argument against duplicates:
attempts are dated in the order of admission, and every admission found each
earlier attempt failed, expired, overridden, or sent before the client's view of
the fence. The proof has one step per action and under it one per part of `IInv` the
action can disturb.

`AccountProofs` has a part for each of three modules.

*The slot of the sync runs*, for any runs, starters and number of retries:
`SlotTypeCorrect`, `SlotInvariance`, `HoldsSlot` (`TaskHoldsSlot`) and `SingleIngest`
(`OneIngest`), from the assumption that `NoRun` is no run and that `MaxRetries` is a
natural number. `SlotIInv` is `SlotTypeOK`, `TaskHoldsSlot` and three parts: `SlotInv`
(at most one row is active, which is what the partial unique index enforces), `RowInv`
(which tasks and retries a row can have) and `StarterInv` (what a starter that holds a
run knows of its row). `OneIngest` is not inductive by itself: two tasks at work would
have to be excluded by their rows, and that is what `TaskHoldsSlot` and `SlotInv` say
together.

*The grant of a mailbox*, for any users, flows and workers and either provider:
`GrantInvariance`, `PausesForCause` (`GrantInv`) and `OwnerIsOne` (`OneOwner`), from the
assumptions that the names of tokens and rows are distinct. `PausedForCause` is about a
write that comes steps after the refusal it answers, so `WorkerInv` keeps what the worker
knows meanwhile: its token is one its row has had, and dead once it is about to pause;
`TokenInv` says that a token is new when it is issued, so that no later flow revives it.
`OneOwner` is about commits that come after a look at the row without a lock: `FlowInv`
says that what a flow has found stays true of the row *should that row still be there*,
which needs `NewRowInv`, that nobody knows the row of a flow that has not committed it.

*The runs that classify*, for any finite sets of runs and messages, any retry policies,
batch size, breaker limit and number of runs: `Invariance`, `RunsAreSound` (`Inv`),
`UsageIsConserved`, `StopsInTime` (`StopsAfterStreak`), `RetriesCostLittle`
(`RetriesAreCheap`) and the action properties `OverrideIsKept` (`OverrideStays`) and
`AsksInVainOnce` (`AskedInVainOnce`). A call is made in one step and taken in by a later
one, and the counts are exact only because nothing has moved between: `CallStands` says
what was true when a call was made and is true when its answer is taken in, `MeetsOnce`
that a run does not meet twice the message it counts, `Keeps` that each kind of run keeps
to its phases, locks and messages. These three are `RunInv`; `PassesApart` is what
`PaidOnlyUnverified` lacks to be inductive, since a pass that settles a message stamps it
under any other that pays for it. `UsageConserved` is part of `IInv`, and `StopsAfterStreak`
follows since the streak is the breaker's own count. Two definitions recur: the sum over
the runs' buffers and the tries of a call, both recursive functions. What the proofs need
of them (that they are defined, that a sum moves by what one summand does, that a call of
`n` tries is billed once and waits within its budget) is proved from a least
counterexample, which the well-foundedness of the naturals gives; `RetriesCostLittle` is
thus for every number of attempts, budget and cap, of which `RetriesAssumption` asks only
that they are natural numbers and that there is an attempt.

`LabelSyncProofs` proves, for any tasks, labels, number of messages and number of
re-enables, `TypeCorrect`, `Invariance`, `OwnedReachable`, `SyncedTrue`,
`OwnersTarget` and the action property `Reconverges`, from the assumptions that
`NoWorker` is no worker, `NoLabel` no label and the bounds are numbers. None of the
three safety properties is inductive: each depends on what the task that writes next
knows. `OwnerInv` says so step by step (after stripping what was inherited no message
carries a category; before the merge only the target may; before the record it
carries the wanted one); `LeaseInv` says that a task at work still holds a live
claim, or that everything it names is gone, so that a late task writes nothing;
`MailInv`, `BornInv` and `StepInv` are what these rest on. `LatestIsHere` (a nonempty
set of messages has a latest one) comes from the well-foundedness of the naturals.

`ExtractionProofs` proves, for any workers, caps and kinds of answer, `TypeCorrect`,
`ClaimsAreFenced`, `SingleCall` (`OneCallAtATime`) and `NoOpenItemOnDone`
(`NoOpenOnDone`). `ClaimInv` is the strengthening: a pending row has a token, a worker
past its claim owns the row or was outlived by its lease, and a label that was read
under the lock is still the label. `OneCallAtATime` follows since two workers cannot
both own the row. `NothingStale` (`NothingStaleShown`) rests on it too: a record writes
under the lock it read the label with, so the label it writes for is still the label. `ResolvedForGood` (`ResolvedStays`) needs of `ClaimInv` only
what a claim may find on a row. `AnsweredResolved` (`AnsweredIsResolved`) has an inductive
invariant of its own, `AnswerInv`: as long as an attempt runs on a row with no extraction
on it, the row has no kind, and if the fence covers the message then the attempt's own
read of the fence has seen it. A repetition (`again`) is excepted in both, because there
the row has a kind already and an item may be open under it.

`LlmKeysProofs` proves, for any requests, names, ids, revisions and cap, `TableIsSound`
(`Inv`: cap, one active key, no refused commit), `StampIsTrue` and `PutIsOfTheActive`.
The heart is `GuardInv`: whoever holds the lock has read the table *as it still is, but
for a stamp* (the test route takes no lock), so the check it made on what it read holds
of what it writes. `TestInv` is the revision argument: while the revision the test
started with is the row's, its contents are the ones tried, and an id is never drawn
again. The cap needs `Rows` to be finite, hence `IsFiniteSet(born)`. `RevocationPrompt`
(`RevocationIsPrompt`) needs `MemoInv`: a memo has been out of consent no longer than it
is old, and only the memo of a key can be. `RoutedWithConsent` (`RoutesWithConsent`) says
of the routing's step itself that nothing in it is left over from its first read.

`SignInProofs` proves, for any finite set of requests, any passwords and limit,
`RevokedSessionsDie`, `VerificationNeverReplaces` and `Inv` (`TablesAreSound`), with
`SpentOnce`, `EarlierLinkDies` and `PasswordIsVerified` as theorems of their own.
`VersionInv` says that `token_version` counts the revocations and no session is ahead of
it, so a session minted before the latest one is behind; `LinkInv` that one open
transaction at most holds a link (which is what `DELETE ... RETURNING` gives) and that a
request issues its link at its end; `SawInv` that what an issue saw is deleted by it and
never issued again; `PasswordInv` that a rehash is of a verified row. Versions are
unbounded in these (`Typed`). The type invariant bounds them by the number of requests,
and `BoundedTries` the attempts of a window; both are in `TableInv`: `CountInv` says that
each revocation used up a request, `LimitInv` that every try was counted first and that
whoever counted the first has yet to set the expiry, so the window cannot end before.

`GmailIngestProofs` proves the refinement `KeepsTheMirror` (`MirrorsTheMailbox`), `Inv`
(`StoreIsSound`) and `ReopenedByNews` (`OnlyNewsReopens`), for any threads, number of
messages, modes of the runs, walk and commit bounds. Only two kinds of step touch what
the refinement sees, `Commit` and `Finish`, and both must store what the cursor vouches
for. `ReadInv` says that a thread once read has all its messages up to the run's cursor,
in the tables or the open transaction; `HistoryInv` that what history named is read, or
still to do; `ListInv` that the listing passes over no thread, because a thread can only
move up, and then its newest message is behind the cursor; `CursorInv` that the run's
cursor is no older than the one on record (for a refresh, the same). A run that took its
cursor from the profile has no `HistoryInv`, and that is where `blind` comes in. A
message is newer than what a cursor says of its thread by `NewestIs`, since finite sets
of numbers have a greatest one. `ReopenInv` is the two sides of reopening, for what is
upserted and not committed.

`OutlookIngestProofs` proves the refinement `KeepsTheMirror` (`MirrorsTheMailbox`), the
invariant it needs (`Invariance`) and `RemovesOnlyDeleted` (`OnlyDeletedIsRemoved`),
for any messages, events, page sizes, caps and budgets; of `BoundAssumption` only
`PageSize \in Nat` is used. A step refines `Sync` if it stores or waives whatever it
takes off a report (`SyncStep`); that `Apply` does so is not a fact about `Apply` but
about the page in hand, which was fetched steps ago from a mailbox that has changed
since. `PageInv` says that the page and the link behind it still cover what the cursor
was to report of the folder, `CursorInv` that links are of their folder and of the
log's past; both survive a change, since a change is logged behind every link
(`LogGrows`, `ChangeStep`). `Shape` is as much of the types as the argument needs.
`StoreIsSound` is the whole of `Inv`, for a finite set of messages. `TypeInv` adds to the
types that a run has pages left and a complete baseline has a link. `RemovalInv` says that
whoever left a folder after a link was drawn is in the log behind it, or still on the page
in hand, so no cursor passes a removal that was not applied. `BaselineInv` counts: a wide
baseline that lost no message will still deliver at least the cap, and be narrowed, or
else deliver all that it has given up and not taken back, which is `WideIsWhole` when it ends.

Every invariant, action property and refinement that a run checks is stated by a theorem.
Only model-checked is the liveness: `DeliveredIsRecorded`, `PendingSettles`,
`LostEnqueueRecovered`, `SlotIsReleased`, `Converges`, `CatchesUp` (of both ingests) and
`DeadIsNoticed`. They rest on fairness and so on ENABLED, which the prover cannot reason
about. TLC checked each strengthened invariant on the instance of its module's run too: it
is an invariant to put in the place of the run's properties. No RECURSIVE operator is used.

## 6. Disagreements between the code and its documentation

Met while modelling; each is stated as a definition of its module, and TLC finds a
behaviour of that module which violates it, when it is checked in the place of a
run's properties. The quoted places are under `src/apps/api/app/` unless another
directory is given.

* `Extraction!NoSecondObligation` (`services/nlp/persistence.py:263-266`: an answered
  message never gets a second obligation): a reply settled between a record's read of
  `replied_at` and its write leaves an open reply item on an answered message.
* `Extraction!LaterMessageIsUnanswered` (`src/apps/api/tests/test_extraction_run.py:707-708`): settling
  a reply late resolves the open item of a message that arrived after the reply.
* `Extraction!BackCanReextract` (`services/nlp/persistence.py:112-113`,
  `routes/mailbox.py:639-644`): when a model, not the user, takes a label out of the
  action labels, the extraction stays and is shown again on the way back.
* `SyncRun!SingleFlight` (`src/REVIEW.md:22`): the sweep of stale runs fails a run
  whose task has started after it was selected; the freed slot starts a second ingest.
* `LabelSync!RemovalConverges` (`services/label_sync/service.py:675-677`): when a
  thread's label is to be removed and the message that carries it was deleted in the
  mailbox, every attempt fails as if the current target were missing, and the tick
  selects the thread for ever.
* `GmailIngest!NothingSkipped` (`services/ingest/gmail_ingest.py:639`, "advances only
  after all affected threads are durable"): a run without a cursor takes the profile's
  and reads only the newest threads; a first run that died after a commit leaves known
  threads with newer mail that the next such run vouches for unread.
* `SignIn!ResetHolds` (`routes/auth_password.py:252`): a login that verified the old
  password before a reset commits its rehash after it and puts the old password back.
* `Grants!PausedIsDead`: a pause decided for a rejected token lands, by primary key, on
  the account that was reconnected meanwhile. The next connection repairs it.
* Without a definition of their own: a PUT that has read a credential unverified clears
  nothing (`routes/llm_settings.py:749`), so a stamp that falls between stays, which
  `db/models/llm_credential.py:83-85` says cannot be; an answer whose envelope cannot be
  read is billed and not counted (`services/nlp/classifier.py:40-44`); an Outlook message
  that moved to another folder and is deleted there is never removed here, since no
  delta of a walked folder reports it (`untold`; `services/ingest/outlook_ingest.py:13-17`);
  a capped Outlook baseline that loses messages while it is walked delivers less than the
  cap, its count does not show that it was truncated, and the window is not narrowed
  (`services/ingest/outlook_ingest.py:738`; without `shrunk`, TLC violates `WideIsWhole`);
  a rate-limit counter whose EXPIRE failed after its INCR has no expiry and does not
  "reset on its own" (`core/ratelimit.py:49-52`); an ingest's page and a backfill's batch
  upsert the same rows in opposite orders, which Postgres resolves by killing one (`Dies`).

## 7. Plan

Done: all modules of section 2, and the proofs of section 5.

What would come next, in this order:

1. The Gmail half of `LabelSync`: the cache of label ids and its generation fence.
2. The composition of `SyncRun` with an ingest module, in place of the assumption that
   the runs of an account follow one another.
3. The liveness of a counter of the rate limiter, under an outage at its second call.

## 8. Not modelled

The Gmail half of label sync and a label that the owner edits by hand; snooze times,
triage and listing (reads); the 30-day and 30-minute windows (a message outside one is
never selected, which safety properties allow); parsing and normalising of messages;
prompts, wire formats and URL policy of the LLM providers, and the drafting of replies
(one call without state); token sums beside the count of calls, which travel with it;
the fail-closed variant of the limiter; templates and SMTP. Left out for good: the web
client (an input), the OAuth exchange itself and the signature of a session token
(third-party protocol and library), health, analytics and export (reads), the pruning
of old sync runs (nothing refers to them any more), the local model and its training
(numerical code; its verdict is any label), migrations and deployment (their
constraints are guards of the modules).
