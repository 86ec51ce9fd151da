----------------------------- MODULE GmailIngest -----------------------------
(****************************************************************************)
(* Pulling one Gmail account: the history cursor, the listing that backfills *)
(* old threads, and the threads' messages, committed a few at a time.       *)
(*                                                                          *)
(* Source: services/ingest/gmail_ingest.py, gmail_client.py.                *)
(*                                                                          *)
(* A message is named by its place in the order of arrival, which is also   *)
(* its history id and its date.  Calls to Gmail and transactions are steps  *)
(* of their own.  Classification and reply reconciliation, which a run does *)
(* on the way, change nothing here.                                         *)
(****************************************************************************)
EXTENDS Integers, Sequences, FiniteSets, FiniteSetsExt

CONSTANTS
    Thread,        \* conversations
    NoThread,
    MessageBound,  \* how many messages may come
    MaxResults,    \* max_results: unknown threads a run may import
    WalkBound,     \* threads a listing may walk: max_pages pages
    CommitEvery,   \* commit_every: threads per transaction
    Own,           \* which messages, by their place, the user sends
    Deletable,     \* threads the user may delete at Gmail
    Forgetful      \* whether Gmail forgets old history

ASSUME NoThreadAssumption == NoThread \notin Thread
ASSUME BoundAssumption ==
    /\ MessageBound \in Nat
    /\ MaxResults \in Nat \ {0}
    /\ WalkBound \in Nat \ {0}
    /\ CommitEvery \in Nat \ {0}
    /\ Own \subseteq 1 .. MessageBound
    /\ Deletable \subseteq Thread
    /\ Forgetful \in BOOLEAN

Message == 1 .. MessageBound
NoCursor == -1
NotDone == -1
Date == 0 .. MessageBound

VARIABLES
    \* Gmail
    mail,       \* the thread of each message, in the order of arrival
    gone,       \* threads deleted at Gmail
    \* the database
    stored,     \* the messages in mail_message
    done,       \* Thread -> done_at, as the last message it covers
    cursor,     \* gmail_history_id
    backfilled, \* gmail_backfill_complete
    \* the run
    pc,         \* what it does next
    my,         \* its locals
    \* history
    blind       \* a cursor was set anew past threads its run had not read

gmailVars == <<mail, gone>>
dbVars    == <<stored, done, cursor, backfilled>>
vars == <<gmailVars, dbVars, pc, my, blind>>

Mode == {"manual", "newOnly", "refresh"}

Place == {"idle", "history", "profile", "list", "fetch", "store", "commit", "dead"}

Run ==
    [mode : Mode,
     known : SUBSET Thread,            \* existing_thread_ids
     next : Date \cup {NoCursor},      \* next_history_id
     anew : BOOLEAN,                   \* next comes from the profile
     rebase : BOOLEAN,                 \* reconcile_recent
     changed : SUBSET Thread,          \* history_ids
     fresh : SUBSET Thread,            \* new_ids
     head : SUBSET Thread,             \* the first head_new of them
     recent : SUBSET Thread,           \* recent_ids
     last : 1 .. MessageBound + 1,     \* page_token: the last thread listed
     walked : 0 .. WalkBound,
     complete : BOOLEAN,               \* listing_exhausted, and it counts
     todo : SUBSET Thread,             \* thread_ids not fetched yet
     read : SUBSET Thread,             \* those fetched
     cur : Thread \cup {NoThread},     \* the thread in hand ...
     got : SUBSET Message,             \* ... and what Gmail gave for it
     dirty : SUBSET Message,           \* upserted, not committed
     reopened : SUBSET Thread,         \* done_at cleared, not committed
     count : 0 .. CommitEvery - 1]    \* threads since the last commit

Idle ==
    [mode |-> "manual", known |-> {}, next |-> NoCursor, anew |-> FALSE,
     rebase |-> FALSE, changed |-> {}, fresh |-> {}, head |-> {}, recent |-> {},
     last |-> MessageBound + 1, walked |-> 0, complete |-> FALSE, todo |-> {},
     read |-> {}, cur |-> NoThread, got |-> {}, dirty |-> {}, reopened |-> {},
     count |-> 0]

TypeOK ==
    /\ mail \in Seq(Thread) /\ Len(mail) <= MessageBound
    /\ gone \in SUBSET Thread
    /\ stored \in SUBSET Message
    /\ done \in [Thread -> Date \cup {NotDone}]
    /\ cursor \in Date \cup {NoCursor}
    /\ backfilled \in BOOLEAN
    /\ pc \in Place
    /\ my \in Run
    /\ blind \in BOOLEAN

(* A freshly connected account; mail comes from here on.                    *)
Init ==
    /\ mail = <<>> /\ gone = {}
    /\ stored = {}
    /\ done = [t \in Thread |-> NotDone]
    /\ cursor = NoCursor
    /\ backfilled = FALSE
    /\ pc = "idle"
    /\ my = Idle
    /\ blind = FALSE

-----------------------------------------------------------------------------
Now == Len(mail)
MessagesOf(t) == {i \in 1 .. Now : mail[i] = t}
ThreadsOf(S) == {mail[i] : i \in S}
KnownThreads == ThreadsOf(stored)
NewestOf(t) == Max(MessagesOf(t))

(* users.threads.list: newest first, from behind the page token.            *)
Listed == ThreadsOf(1 .. Now) \ gone
Behind == {t \in Listed : NewestOf(t) < my.last}

-----------------------------------------------------------------------------
(* A run.                                                                   *)

\* Mutant: only a known thread anchors a new-only pull.
AnchoredByThread == KnownThreads # {}

Anchored == KnownThreads # {} \/ cursor # NoCursor

(* The account, its known threads and its cursor are read.  A new-only pull *)
(* of an empty mailbox has nothing to anchor "new" against.  The runs of an *)
(* account follow one another: see SyncRun.                                 *)
Start(mode) ==
    LET known == IF mode = "refresh" THEN {} ELSE KnownThreads
    IN  /\ pc \in {"idle", "dead"}
        /\ mode = "newOnly" => Anchored
        /\ my' = [my EXCEPT !.mode = mode, !.known = known, !.next = cursor]
        /\ pc' = "history"
        /\ UNCHANGED <<gmailVars, dbVars, blind>>

(* The threads changed since the cursor.                                    *)
Changed(since) == ThreadsOf(since + 1 .. Now)

(* should_list, for a run with a live cursor: a new-only pull never walks   *)
(* the listing for backfill.                                                *)
Plan == IF my.mode = "manual" /\ ~backfilled THEN "list" ELSE "fetch"

ReadHistory ==
    LET since == my.next
    IN  /\ pc = "history"
        /\ my.mode # "refresh" /\ since # NoCursor
        /\ my' = [my EXCEPT !.changed = Changed(since),
                            !.todo = Changed(since), !.next = Now]
        /\ pc' = Plan
        /\ UNCHANGED <<gmailVars, dbVars, blind>>

(* Gmail has forgotten what came after the cursor: recent threads are read  *)
(* anew.                                                                    *)
HistoryExpired ==
    /\ Forgetful
    /\ pc = "history"
    /\ my.mode # "refresh" /\ my.next \notin {NoCursor, Now}
    /\ my' = [my EXCEPT !.rebase = TRUE, !.next = NoCursor]
    /\ pc' = "profile"
    /\ UNCHANGED <<gmailVars, dbVars, blind>>

(* No cursor, or a full refresh: history is not asked.                      *)
SkipHistory ==
    /\ pc = "history"
    /\ my.mode = "refresh" \/ my.next = NoCursor
    /\ my' = [my EXCEPT !.rebase = TRUE]
    /\ pc' = IF my.next = NoCursor THEN "profile" ELSE "list"
    /\ UNCHANGED <<gmailVars, dbVars, blind>>

(* The replacement cursor, taken before the listing.                        *)
Profile ==
    /\ pc = "profile"
    /\ my' = [my EXCEPT !.next = Now, !.anew = TRUE]
    /\ pc' = "list"
    /\ UNCHANGED <<gmailVars, dbVars, blind>>

(* collect_listed_thread_ids: does the walk go on?                          *)
SeenKnown == my.walked # Cardinality(my.fresh)

Wanting ==
    \/ Cardinality(my.fresh) < MaxResults
    \/ my.mode = "newOnly" /\ ~SeenKnown

ListOn ==
    /\ Wanting
    /\ my.walked < WalkBound
    /\ Behind # {}

ListThread ==
    LET t == CHOOSE x \in Behind : \A y \in Behind : NewestOf(y) <= NewestOf(x)
        isKnown == t \in my.known
        AddIf(c, S) == IF c THEN S \cup {t} ELSE S
    IN  /\ pc = "list"
        /\ ListOn
        /\ my' = [my EXCEPT
                    !.fresh  = AddIf(~isKnown, @),
                    !.head   = AddIf(~isKnown /\ ~SeenKnown, @),
                    !.recent = AddIf(my.rebase
                                        /\ Cardinality(@) < MaxResults, @),
                    !.last   = NewestOf(t),
                    !.walked = @ + 1]
        /\ UNCHANGED <<gmailVars, dbVars, pc, blind>>

(* What to fetch: _merge_sync_thread_ids.                                   *)
ThreadIds ==
    CASE my.mode = "refresh" -> my.recent
      [] my.mode = "newOnly" -> my.changed \cup my.recent \cup my.head
      [] my.mode = "manual"  -> my.changed \cup my.recent \cup my.fresh

Exhausted == Behind = {} /\ Cardinality(my.fresh) < MaxResults

EndList ==
    /\ pc = "list"
    /\ ~ListOn
    /\ my' = [my EXCEPT
                !.todo = ThreadIds,
                !.complete = my.mode = "manual" /\ Exhausted,
                !.changed = {}, !.fresh = {}, !.head = {},
                !.recent = {}, !.walked = 0, !.last = MessageBound + 1]
    /\ pc' = "fetch"
    /\ UNCHANGED <<gmailVars, dbVars, blind>>

(* users.threads.get; a thread that is gone is skipped.                     *)
Fetch(t) ==
    /\ pc = "fetch"
    /\ t \in my.todo
    /\ IF t \in gone
       THEN /\ my' = [my EXCEPT !.todo = @ \ {t}, !.read = @ \cup {t},
                                !.count = (@ + 1) % CommitEvery]
            /\ UNCHANGED pc
       ELSE /\ my' = [my EXCEPT !.cur = t, !.got = MessagesOf(t)]
            /\ pc' = "store"
    /\ UNCHANGED <<gmailVars, dbVars, blind>>

\* Mutant: every message of the thread counts, those we had and the user's.
ShouldReopenAny(d, existing, got) == d # NotDone /\ got # {}

\* Mutant: the newest message of the thread decides.
ShouldReopenByNewest(d, existing, got) ==
    d # NotDone /\ Max(got) \notin existing /\ Max(got) > d /\ Max(got) \notin Own

(* _should_reopen_thread: mail from others that is new to us, and newer     *)
(* than done_at.                                                            *)
ShouldReopen(d, existing, got) ==
    /\ d # NotDone
    /\ \E i \in got : i \notin existing /\ i > d /\ i \notin Own

(* The upsert of the thread locks its row: done_at is read under the lock.  *)
Store ==
    LET t == my.cur
        d == IF t \in my.reopened THEN NotDone ELSE done[t]
        last == (my.count + 1) % CommitEvery = 0
    IN  /\ pc = "store"
        /\ my' = [my EXCEPT
                    !.dirty = @ \cup my.got,
                    !.reopened =
                        IF ShouldReopen(d, stored \cup my.dirty, my.got)
                        THEN @ \cup {t} ELSE @,
                    !.todo = @ \ {t}, !.read = @ \cup {t},
                    !.cur = NoThread, !.got = {},
                    !.count = (@ + 1) % CommitEvery]
        /\ pc' = IF last THEN "commit" ELSE "fetch"
        /\ UNCHANGED <<gmailVars, dbVars, blind>>

(* What a commit makes durable.                                             *)
Flush ==
    /\ stored' = stored \cup my.dirty
    /\ done' = [t \in Thread |-> IF t \in my.reopened THEN NotDone ELSE done[t]]

Commit ==
    /\ pc = "commit"
    /\ Flush
    /\ my' = [my EXCEPT !.dirty = {}, !.reopened = {}]
    /\ pc' = "fetch"
    /\ UNCHANGED <<gmailVars, cursor, backfilled, blind>>

\* Mutant: the cursor is captured after the fetch.
CursorAtTheEnd == Now

(* next_history_id, taken before the threads were listed and fetched.       *)
NewCursor == my.next

(* Every thread is durable: now the cursor may advance.                     *)
Finish ==
    /\ pc = "fetch"
    /\ my.todo = {}
    /\ Flush
    /\ cursor' = NewCursor
    /\ backfilled' = (backfilled \/ my.complete)
    /\ blind' = \/ blind
                \/ /\ my.anew
                   /\ \E i \in 1 .. my.next :
                        /\ mail[i] \notin gone \cup my.read
                        /\ NewestOf(mail[i]) <= my.next
                        /\ mail[i] \in ThreadsOf(stored') \/ backfilled'
    /\ my' = Idle
    /\ pc' = "idle"
    /\ UNCHANGED gmailVars

(* A worker is killed, or Gmail fails: what was not committed is lost, and  *)
(* the task comes back as a new run.                                        *)
Die ==
    /\ pc \notin {"idle", "dead"}
    /\ my' = Idle
    /\ pc' = "dead"
    /\ UNCHANGED <<gmailVars, dbVars, blind>>

-----------------------------------------------------------------------------
(* Gmail, and the user.                                                     *)

Arrive(t) ==
    /\ Now < MessageBound
    /\ t \notin gone
    /\ mail' = Append(mail, t)
    /\ UNCHANGED <<gone, dbVars, pc, my, blind>>

DeleteThread(t) ==
    /\ t \in Listed \cap Deletable
    /\ gone' = gone \cup {t}
    /\ UNCHANGED <<mail, dbVars, pc, my, blind>>

(* The route waits for the row's lock.                                      *)
MarkDone(t) ==
    /\ t \in KnownThreads
    /\ done[t] = NotDone
    /\ t \notin ThreadsOf(my.dirty)
    /\ done' = [done EXCEPT ![t] = Now]
    /\ UNCHANGED <<gmailVars, stored, cursor, backfilled, pc, my, blind>>

-----------------------------------------------------------------------------
Step ==
    \/ ReadHistory \/ SkipHistory \/ Profile
    \/ ListThread \/ EndList
    \/ \E t \in Thread : Fetch(t)
    \/ Store \/ Commit \/ Finish

Environment == \E t \in Thread : Arrive(t) \/ DeleteThread(t) \/ MarkDone(t)

Next ==
    \/ \E mode \in Mode : Start(mode)
    \/ Step \/ HistoryExpired \/ Die
    \/ Environment

Spec == Init /\ [][Next]_vars

-----------------------------------------------------------------------------
(* Safety.                                                                  *)

(* What is there, and what the walks to come still have to report: the      *)
(* threads that history names, and those the backfill still looks for.  A   *)
(* blind cursor vouches for nothing, and nothing ever reports a deletion.   *)
There == {i \in 1 .. Now : mail[i] \notin gone}

Owed ==
    IF blind THEN 1 .. Now
    ELSE {i \in 1 .. Now : \/ mail[i] \in gone
                           \/ NewestOf(mail[i]) > cursor
                           \/ mail[i] \notin KnownThreads /\ ~backfilled}

(* The ingest keeps the promise of every ingest: whatever dies, and         *)
(* whichever modes the runs of one account follow one another in, the       *)
(* cursor and the backfill flag only ever pass mail that is stored, or that *)
(* a run without a cursor skipped (blind).                                  *)
Mirror == INSTANCE MailboxMirror
          WITH Item <- Message, there <- There, mirror <- stored, owed <- Owed

MirrorsTheMailbox == Mirror!Spec

(* "The cursor advances only after all affected threads are durable": no    *)
(* mail at or before it is skipped, but old threads a backfill still owes.  *)
(* The code does not ensure it: a run without a cursor reads the profile's  *)
(* and then only the newest threads.                                        *)
NothingSkipped ==
    \A i \in There :
        \/ i \in stored
        \/ NewestOf(mail[i]) > cursor
        \/ mail[i] \notin KnownThreads /\ ~backfilled

(* A thread is not left done over mail from others that came after it was   *)
(* set done: who stores such a message clears done_at with it.              *)
DoneIsCaughtUp ==
    \A i \in stored :
        done[mail[i]] # NotDone /\ i > done[mail[i]] => i \in Own

(* Why: what a run knows of the mailbox, from step to step.                 *)
StoreInv ==
    /\ stored \cup my.dirty \cup my.got \subseteq 1 .. Now
    /\ cursor <= Now /\ my.next <= Now
    /\ my.known \subseteq KnownThreads
    /\ \A i \in my.got : mail[i] = my.cur
    /\ \A i \in my.dirty : mail[i] \in my.read

Reading == {"fetch", "store", "commit"}

(* A run that walks has a cursor to write, not an older one.                *)
CursorInv ==
    /\ pc \in {"idle", "dead"} => my = Idle
    /\ pc = "history" => my.next = cursor /\ ~my.anew
    /\ pc \in {"history", "profile"} => my.last = MessageBound + 1
    /\ pc \in {"list"} \cup Reading => my.next # NoCursor /\ cursor <= my.next
    /\ pc \notin Reading => my.read = {} /\ ~my.complete
    /\ pc = "store" => my.cur # NoThread

(* What was read of a thread includes all that its cursor will vouch for.   *)
ReadInv ==
    /\ \A i \in 1 .. my.next :
          mail[i] \in my.read \ gone => i \in stored \cup my.dirty
    /\ pc = "store" => \A i \in 1 .. my.next : mail[i] = my.cur => i \in my.got

(* What history named is read before the cursor is written.                 *)
HistoryInv ==
    pc \in {"list"} \cup Reading /\ ~my.anew =>
        IF my.mode = "refresh" THEN my.next = cursor
        ELSE \A i \in 1 .. my.next :
               i > cursor => mail[i] \in IF pc = "list" THEN my.changed
                                         ELSE my.todo \cup my.read

(* The listing passes over no thread, unless it has moved up meanwhile.     *)
ListInv ==
    \A t \in Listed :
        /\ pc = "list" /\ my.last <= NewestOf(t) =>
              t \in my.known \cup my.fresh \/ my.next < NewestOf(t)
        /\ my.complete =>
              t \in my.known \cup my.todo \cup my.read \/ my.next < NewestOf(t)

(* A reopening that is not committed yet has its reason, and what is not    *)
(* reopened has none.                                                       *)
ReopenInv ==
    /\ \A i \in my.dirty :
          \/ mail[i] \in my.reopened \/ i \in Own
          \/ done[mail[i]] = NotDone \/ i <= done[mail[i]]
    /\ \A t \in my.reopened :
          /\ done[t] # NotDone
          /\ \E i \in my.dirty \ stored :
                mail[i] = t /\ i > done[t] /\ i \notin Own

IInv ==
    /\ TypeOK /\ StoreInv /\ CursorInv /\ ReadInv /\ HistoryInv /\ ListInv
    /\ ReopenInv /\ DoneIsCaughtUp /\ Mirror!NothingSkipped

(* What holds of the store in every state, by its parts.                    *)
Inv == TypeOK /\ DoneIsCaughtUp

(* A thread is reopened by such mail only, stored in the same transaction:  *)
(* not by a re-read of old mail, nor by the user's own reply.               *)
ReopenedByNews ==
    [][ \A t \in Thread :
          done[t] # NotDone /\ done'[t] = NotDone =>
            \E i \in stored' \ stored :
                mail[i] = t /\ i > done[t] /\ i \notin Own ]_vars

-----------------------------------------------------------------------------
(* Liveness.  The scheduler starts a new-only pull at every tick that finds *)
(* the account's slot free, and a run that does not fail gets on.           *)
FairSpec ==
    /\ Spec
    /\ SF_vars(Start("newOnly")) /\ WF_vars(Step)

(* Mail comes to rest, workers and Gmail do not fail any more.              *)
Quiet ==
    /\ <>[][~Die /\ ~HistoryExpired]_vars
    /\ <>[][UNCHANGED gmailVars]_vars

(* The account catches up with all that came, once somebody has pulled it   *)
(* for the first time.                                                      *)
CatchesUp == Quiet => <>[](cursor = Now \/ (cursor = NoCursor /\ stored = {}))
=============================================================================
