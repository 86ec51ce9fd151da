------------------------------ MODULE LabelSync ------------------------------
(****************************************************************************)
(* Pushing the label of one Outlook thread to its mailbox as a category.    *)
(*                                                                          *)
(* Source: services/label_sync/service.py (claim, intent, apply, record),   *)
(* workers/tasks_label_sync.py (the task that strings them together),       *)
(* routes/auth.py (the opt-in), ingest/outlook_ingest.py (removals).        *)
(*                                                                          *)
(* The wanted state is the label of the thread's latest message, on that    *)
(* message.  What the code believes it has applied is the pair (synced      *)
(* label, synced message); the pending target names a message that may      *)
(* carry a category no pair records.  A task is claim, calls to the         *)
(* provider with no transaction open, record: every step between is apart.  *)
(****************************************************************************)
EXTENDS Integers, FiniteSets

CONSTANTS
    Worker,          \* processes that run sync_thread_labels for the thread
    NoWorker,        \* no claim token
    Messages,        \* how many messages the thread may get
    Label,           \* the labels a classification may give
    NoLabel,         \* not classified; no category of ours
    GenerationBound  \* how often the user may switch the sync on

ASSUME NoWorkerAssumption == NoWorker \notin Worker
ASSUME NoLabelAssumption == NoLabel \notin Label
ASSUME BoundAssumption == Messages \in Nat \ {0} /\ GenerationBound \in Nat

Message == 1 .. Messages      \* in latest_message_ordering
NoMessage == 0
MessageOrNone == Message \cup {NoMessage}
LabelOrNone == Label \cup {NoLabel}

VARIABLES
    \* the mailbox
    mailbox,      \* Message -> has it come, is it still there?
    cat,          \* Message -> the category of ours it carries
    \* the thread's messages and their classifications
    here,
    label,
    \* the mail_thread row
    syncedLabel, syncedMessage, resync, pending,
    token,        \* label_sync_claim_token, named by the worker that drew it
    live,         \* is label_sync_claimed_at younger than CLAIM_LEASE?
    \* the provider_account row
    enabled, generation,
    \* the tasks
    phase,        \* Worker -> what it does next
    my,           \* Worker -> its ClaimResult
    \* history
    overran       \* a lease has lapsed while its task was still at work

mailboxVars == <<mailbox, cat>>
threadVars  == <<here, label>>
pairVars    == <<syncedLabel, syncedMessage, resync, pending>>
claimVars   == <<token, live>>
accountVars == <<enabled, generation>>
taskVars    == <<phase, my>>
vars == <<mailboxVars, threadVars, pairVars, claimVars, accountVars, taskVars,
          overran>>

Phase == {"idle", "stripInherited", "stripSynced", "intend", "stripPrevious",
          "merge", "record"}

ClaimResult ==
    [desired : LabelOrNone, latest : MessageOrNone, synced : MessageOrNone,
     inherited : MessageOrNone, generation : 0 .. GenerationBound]

NoClaim == [desired |-> NoLabel, latest |-> NoMessage, synced |-> NoMessage,
            inherited |-> NoMessage, generation |-> 0]

TypeOK ==
    /\ mailbox \in [Message -> {"unborn", "there", "gone"}]
    /\ cat \in [Message -> LabelOrNone]
    /\ here \in SUBSET Message
    /\ label \in [Message -> LabelOrNone]
    /\ syncedLabel \in LabelOrNone
    /\ syncedMessage \in MessageOrNone
    /\ resync \in BOOLEAN
    /\ pending \in MessageOrNone
    /\ token \in Worker \cup {NoWorker}
    /\ live \in BOOLEAN
    /\ enabled \in BOOLEAN
    /\ generation \in 0 .. GenerationBound
    /\ phase \in [Worker -> Phase]
    /\ my \in [Worker -> ClaimResult]
    /\ overran \in BOOLEAN

(* The thread's first message is still to come, to an account with the sync *)
(* on or off; generations are counted from there.                           *)
Init ==
    /\ mailbox = [m \in Message |-> "unborn"]
    /\ cat = [m \in Message |-> NoLabel]
    /\ here = {}
    /\ label = [m \in Message |-> NoLabel]
    /\ syncedLabel = NoLabel
    /\ syncedMessage = NoMessage
    /\ resync = FALSE
    /\ pending = NoMessage
    /\ token = NoWorker
    /\ live = FALSE
    /\ enabled \in BOOLEAN
    /\ generation = 0
    /\ phase = [w \in Worker |-> "idle"]
    /\ my = [w \in Worker |-> NoClaim]
    /\ overran = FALSE

-----------------------------------------------------------------------------
(* The wanted state, and what of it is not there yet.                       *)

Latest ==
    IF here = {} THEN NoMessage
    ELSE CHOOSE m \in here : \A n \in here : n <= m

DesiredLabel == IF here = {} THEN NoLabel ELSE label[Latest]

(* label_drift_clause, and its mirror at claim time.                        *)
Drifted ==
    \/ DesiredLabel # syncedLabel
    \/ DesiredLabel # NoLabel /\ Latest # syncedMessage
    \/ resync
    \/ pending # NoMessage

\* Mutant: a claim is live until its task gives it back.
LiveClaimForever == token # NoWorker

LiveClaim == token # NoWorker /\ live

(* target_for_thread: the message the attempt is centered on.               *)
Target(w) ==
    IF my[w].desired # NoLabel THEN my[w].latest
    ELSE IF my[w].synced # NoMessage THEN my[w].synced
    ELSE my[w].inherited

-----------------------------------------------------------------------------
(* sync_thread_labels.                                                      *)

\* Mutant: a claim starts afresh.
PendingReset == NoMessage

(* What a claim does to the pending target: it may be the only record of a  *)
(* category a dead task has applied.                                        *)
PendingAtClaim == pending

(* claim_thread, under the account's advisory lock and the row's lock.      *)
Claim(w) ==
    /\ phase[w] = "idle"
    /\ enabled
    /\ here # {}
    /\ Drifted
    /\ ~LiveClaim
    /\ token' = w
    /\ live' = TRUE
    /\ my' = [my EXCEPT ![w] =
                 [desired |-> DesiredLabel, latest |-> Latest,
                  synced |-> syncedMessage, inherited |-> pending,
                  generation |-> generation]]
    /\ phase' = [phase EXCEPT ![w] =
                    IF pending = NoMessage THEN "intend" ELSE "stripInherited"]
    /\ pending' = PendingAtClaim
    /\ UNCHANGED <<mailboxVars, threadVars, syncedLabel, syncedMessage, resync,
                   accountVars, overran>>

(* _strip_owned_categories: a message that is gone has nothing to strip.    *)
Strip(m) == cat' = [cat EXCEPT ![m] = NoLabel]

Goto(w, where) == phase' = [phase EXCEPT ![w] = where] /\ UNCHANGED my

Leave(w) ==
    /\ phase' = [phase EXCEPT ![w] = "idle"]
    /\ my' = [my EXCEPT ![w] = NoClaim]

StripInherited(w) ==
    /\ phase[w] = "stripInherited"
    /\ Strip(my[w].inherited)
    /\ Goto(w, IF my[w].synced \in {NoMessage, my[w].inherited}
               THEN "intend" ELSE "stripSynced")
    /\ UNCHANGED <<mailbox, threadVars, pairVars, claimVars, accountVars, overran>>

StripSynced(w) ==
    /\ phase[w] = "stripSynced"
    /\ Strip(my[w].synced)
    /\ Goto(w, "intend")
    /\ UNCHANGED <<mailbox, threadVars, pairVars, claimVars, accountVars, overran>>

AfterIntent(w) ==
    IF Target(w) = NoMessage THEN "record"
    ELSE IF my[w].synced \in {NoMessage, Target(w)} THEN "merge"
    ELSE "stripPrevious"

(* set_pending_target, fenced on the claim's token.                         *)
Intend(w) ==
    /\ phase[w] = "intend"
    /\ IF token = w
       THEN pending' = Target(w) /\ Goto(w, AfterIntent(w))
       ELSE UNCHANGED pending /\ Leave(w)
    /\ UNCHANGED <<mailboxVars, threadVars, syncedLabel, syncedMessage, resync,
                   claimVars, accountVars, overran>>

(* apply_outlook_category, first half: clean the previous target.           *)
StripPrevious(w) ==
    /\ phase[w] = "stripPrevious"
    /\ Strip(my[w].synced)
    /\ Goto(w, "merge")
    /\ UNCHANGED <<mailbox, threadVars, pairVars, claimVars, accountVars, overran>>

(* ... second half: the wanted category, or none, onto the target.          *)
Merge(w) ==
    /\ phase[w] = "merge"
    /\ mailbox[Target(w)] = "there"
    /\ cat' = [cat EXCEPT ![Target(w)] = my[w].desired]
    /\ Goto(w, "record")
    /\ UNCHANGED <<mailbox, threadVars, pairVars, claimVars, accountVars, overran>>

(* OutlookItemNotFound: the task is over, the claim stays.                  *)
MergeNotFound(w) ==
    /\ phase[w] = "merge"
    /\ mailbox[Target(w)] = "gone"
    /\ Leave(w)
    /\ UNCHANGED <<mailboxVars, threadVars, pairVars, claimVars, accountVars,
                   overran>>

\* Mutant: the record does not look at the generation.
SameGenerationAlways(w) == TRUE

SameGeneration(w) == my[w].generation = generation

(* record_sync_result, fenced on the claim's token: a lost lease writes     *)
(* nothing, an older generation only drops the claim.                       *)
Record(w) ==
    /\ phase[w] = "record"
    /\ IF token = w
       THEN /\ token' = NoWorker
            /\ live' = FALSE
            /\ IF SameGeneration(w)
               THEN /\ syncedLabel' = my[w].desired
                    /\ syncedMessage' = IF my[w].desired = NoLabel
                                        THEN NoMessage ELSE my[w].latest
                    /\ resync' = FALSE
                    /\ pending' = NoMessage
               ELSE UNCHANGED pairVars
       ELSE UNCHANGED <<claimVars, pairVars>>
    /\ Leave(w)
    /\ UNCHANGED <<mailboxVars, threadVars, accountVars, overran>>

(* A provider error, the retry budget, a dead grant, a time limit, a kill:  *)
(* nothing is written, and the claim stays until its lease lapses.          *)
Die(w) ==
    /\ phase[w] # "idle"
    /\ Leave(w)
    /\ UNCHANGED <<mailboxVars, threadVars, pairVars, claimVars, accountVars,
                   overran>>

(* CLAIM_LEASE passes.  The task's time limit is shorter, so its task is    *)
(* gone by then; a host that was suspended may break that once.             *)
Lapse ==
    LET atWork == phase[token] # "idle"
    IN  /\ LiveClaim
        /\ atWork => ~overran
        /\ live' = FALSE
        /\ overran' = (overran \/ atWork)
        /\ UNCHANGED <<mailboxVars, threadVars, pairVars, token, accountVars,
                       taskVars>>

-----------------------------------------------------------------------------
(* The user's opt-in: update_connection.                                    *)

Disable ==
    /\ enabled
    /\ enabled' = FALSE
    /\ UNCHANGED <<mailboxVars, threadVars, pairVars, claimVars, generation,
                   taskVars, overran>>

(* Under the account's advisory lock; a live claim on the thread is a 409.  *)
Enable ==
    /\ ~enabled
    /\ generation < GenerationBound
    /\ ~LiveClaim
    /\ enabled' = TRUE
    /\ generation' = generation + 1
    /\ resync' = \/ resync
                 \/ DesiredLabel # NoLabel
                 \/ syncedLabel # NoLabel
                 \/ syncedMessage # NoMessage
    /\ UNCHANGED <<mailboxVars, threadVars, syncedLabel, syncedMessage, pending,
                   claimVars, taskVars, overran>>

-----------------------------------------------------------------------------
(* Mail comes, is classified, and is deleted.                               *)

(* A message is ingested, newer or older than those here, not classified.   *)
Arrive(m) ==
    /\ mailbox[m] = "unborn"
    /\ mailbox' = [mailbox EXCEPT ![m] = "there"]
    /\ here' = here \cup {m}
    /\ UNCHANGED <<cat, label, pairVars, claimVars, accountVars, taskVars,
                   overran>>

(* upsert_classification, by a model or by the user.                        *)
Classify(m, l) ==
    /\ m \in here
    /\ label[m] # l
    /\ label' = [label EXCEPT ![m] = l]
    /\ UNCHANGED <<mailboxVars, here, pairVars, claimVars, accountVars, taskVars,
                   overran>>

(* The user deletes a message in the mailbox, for good.                     *)
Delete(m) ==
    /\ mailbox[m] = "there"
    /\ mailbox' = [mailbox EXCEPT ![m] = "gone"]
    /\ cat' = [cat EXCEPT ![m] = NoLabel]
    /\ UNCHANGED <<threadVars, pairVars, claimVars, accountVars, taskVars,
                   overran>>

(* _apply_removals: a 404 on the message deletes its row, and with the last *)
(* message the thread's.                                                    *)
Remove(m) ==
    /\ m \in here
    /\ mailbox[m] = "gone"
    /\ here' = here \ {m}
    /\ label' = [label EXCEPT ![m] = NoLabel]
    /\ IF here' = {}
       THEN /\ syncedLabel' = NoLabel
            /\ syncedMessage' = NoMessage
            /\ resync' = FALSE
            /\ pending' = NoMessage
            /\ token' = NoWorker
            /\ live' = FALSE
       ELSE UNCHANGED <<pairVars, claimVars>>
    /\ UNCHANGED <<mailboxVars, accountVars, taskVars, overran>>

-----------------------------------------------------------------------------
Work(w) ==
    \/ Claim(w) \/ StripInherited(w) \/ StripSynced(w) \/ Intend(w)
    \/ StripPrevious(w) \/ Merge(w) \/ MergeNotFound(w) \/ Record(w)

Task(w) == Work(w) \/ Die(w)

Mail(m) ==
    \/ Arrive(m) \/ Delete(m) \/ Remove(m)
    \/ \E l \in Label : Classify(m, l)

Next ==
    \/ \E w \in Worker : Task(w)
    \/ \E m \in Message : Mail(m)
    \/ Lapse \/ Disable \/ Enable

Spec == Init /\ [][Next]_vars

-----------------------------------------------------------------------------
(* Safety.                                                                  *)

(* No category of ours is ever forgotten in the mailbox: whatever task died *)
(* between its calls and its record, a message that carries one is named by *)
(* the applied pair or by the pending target, so a later task cleans it.    *)
OwnedIsReachable ==
    ~overran =>
        \A m \in Message : cat[m] # NoLabel => m \in {syncedMessage, pending}

(* The applied pair is the truth whenever no target is pending: while it    *)
(* says so, the message carries the category it names.                      *)
SyncedIsTrue ==
    /\ ~overran
    /\ pending = NoMessage
    /\ syncedMessage # NoMessage
    /\ mailbox[syncedMessage] = "there"
    => cat[syncedMessage] = syncedLabel

(* Past its intent, the task that holds the claim finds its target on       *)
(* record, even when an older task outlived its lease and is still writing: *)
(* should it die now, the next one knows what it may have applied.          *)
OwnersTargetIsPending ==
    \A w \in Worker :
        /\ token = w
        /\ phase[w] \in {"stripPrevious", "merge", "record"}
        => pending = Target(w)

(* The inductive invariant behind these three.  Only mail that was ingested *)
(* is named anywhere, and only mail that is there carries a category.       *)
MailInv ==
    \A m \in Message :
        /\ mailbox[m] = "there" => m \in here
        /\ m \in here => mailbox[m] # "unborn"
        /\ cat[m] # NoLabel => mailbox[m] = "there"

Names(w) == {my[w].latest, my[w].synced, my[w].inherited}

BornInv ==
    \A m \in Message :
        \/ m \in {syncedMessage, pending}
        \/ \E w \in Worker : m \in Names(w)
        => mailbox[m] # "unborn"

(* What a task may assume of the step it is at.                             *)
StepInv ==
    \A w \in Worker :
        /\ my[w].desired # NoLabel => my[w].latest # NoMessage
        /\ phase[w] = "stripInherited" => my[w].inherited # NoMessage
        /\ phase[w] = "stripSynced" =>
              NoMessage \notin {my[w].synced, my[w].inherited}
        /\ phase[w] = "stripPrevious" => my[w].synced \notin {NoMessage, Target(w)}
        /\ phase[w] \in {"stripPrevious", "merge"} => Target(w) # NoMessage

(* A task at work holds a live claim, or the thread it claimed was deleted  *)
(* with all its messages.                                                   *)
LeaseInv ==
    ~overran =>
        \A w \in Worker : phase[w] # "idle" =>
            \/ token = w /\ live
            \/ \A m \in Names(w) \ {NoMessage} : mailbox[m] = "gone"

(* What the holder of the claim knows of the mailbox.                       *)
OwnerInv ==
    ~overran =>
        \A w \in Worker : token = w /\ phase[w] # "idle" =>
            /\ my[w].synced = syncedMessage
            /\ phase[w] \in {"stripInherited", "stripSynced", "intend"} =>
                  pending = my[w].inherited
            /\ phase[w] = "stripSynced" => cat[my[w].inherited] = NoLabel
            /\ phase[w] = "intend" /\ my[w].inherited # NoMessage =>
                  \A m \in Message : cat[m] = NoLabel
            /\ phase[w] \in {"merge", "record"} =>
                  \A m \in Message : cat[m] # NoLabel => m = Target(w)
            /\ phase[w] = "record" =>
                  \A m \in Message :
                      m = Target(w) /\ mailbox[m] = "there"
                      => cat[m] = my[w].desired

IInv ==
    /\ TypeOK /\ MailInv /\ BornInv /\ StepInv /\ LeaseInv /\ OwnerInv
    /\ OwnedIsReachable /\ SyncedIsTrue /\ OwnersTargetIsPending

(* A re-enable reconverges: the mark it left on the thread is cleared only  *)
(* by a task that claimed the thread under that same generation, never by   *)
(* one from before it, even one that outlived its lease.                    *)
ReenableReconverges ==
    [][ resync /\ ~resync' =>
            \/ here' = {}
            \/ \E w \in Worker : /\ phase[w] = "record"
                                 /\ phase'[w] = "idle"
                                 /\ my[w].generation = generation ]_vars

-----------------------------------------------------------------------------
(* Liveness.  The tick runs for ever and selects a drifted thread, time     *)
(* passes, syncs find deleted messages, and a task that does not fail gets  *)
(* on.                                                                      *)
Fairness ==
    /\ WF_vars(Lapse)
    /\ \A m \in Message : WF_vars(Remove(m))
    /\ \A w \in Worker : WF_vars(Work(w))

FairSpec == Spec /\ Fairness

(* The user and the mail come to rest, and the provider to its senses.      *)
Quiet ==
    /\ <>[][FALSE]_<<mailbox, here, label, enabled, generation>>
    /\ <>[][\A w \in Worker : Die(w) => Work(w)]_vars

(* The attempt would be centered on a message that was deleted.             *)
TargetIsGone ==
    /\ DesiredLabel = NoLabel
    /\ IF syncedMessage # NoMessage THEN mailbox[syncedMessage] = "gone"
       ELSE pending # NoMessage /\ mailbox[pending] = "gone"

(* Once the user, the mail and the provider are at rest, an enabled thread converges, and *)
(* is not selected for ever: unless what is to be removed is gone already.  *)
Converges == Quiet => []<>(~enabled \/ ~Drifted \/ TargetIsGone)

(* "A 404 on a previous cleanup target is satisfied, not an error": a       *)
(* removal converges too when its message was deleted.  The code does not.  *)
RemovalConverges == Quiet => []<>(~enabled \/ ~Drifted)
=============================================================================
