---------------------------- MODULE Classification ----------------------------
(****************************************************************************)
(* The runs that classify one user's mail: backfills, the ingest of an      *)
(* Outlook or a Gmail account, the passes that verify sent replies, and     *)
(* single messages; with the operator who relabels beside them.             *)
(*                                                                          *)
(* Source: services/nlp/backfill.py, services/nlp/usage.py,                 *)
(* services/nlp/classification_breaker.py, services/nlp/persistence.py,     *)
(* services/mail_send/reconcile.py, services/ingest/outlook_ingest.py,      *)
(* services/ingest/gmail_ingest.py, workers/tasks_nlp.py.                   *)
(*                                                                          *)
(* Every message is the latest of its thread.  A paid call is two steps:    *)
(* it is made (run[p].hand holds what it came to) and it is taken in; what  *)
(* others do while it is out falls between.  A backfill's is one: what it   *)
(* learns is its own until it flushes.  A transaction is one step, but for  *)
(* the page of an ingest, whose messages stay locked (touched) until it     *)
(* commits, and for the verification of a reply, which holds the thread.    *)
(****************************************************************************)
EXTENDS LlmCall, FiniteSets, FiniteSetsExt

CONSTANTS
    Proc,        \* workers and requests
    Message,
    Sent,        \* the messages that are the copy of a reply sent from here
    Nothing,     \* no call is out
    Backend,     \* that backfills are asked to use; "default" for none
    Kind,        \* of the runs there are
    Limit,       \* _CONSECUTIVE_NO_VERDICT_LIMIT
    BatchSize,   \* of a backfill
    MaxEvents,   \* bound: messages delivered to one Outlook ingest
    MaxRuns,     \* bound: runs ever started
    WorkerRetries,
    InlineRetries

ASSUME SentAssumption == Sent \subseteq Message
ASSUME KindAssumption ==
    Kind \subseteq {"backfill", "outlook", "gmail", "pass", "message"}
ASSUME LimitAssumption == Limit \in Nat \ {0} /\ BatchSize \in Nat \ {0}
ASSUME RetriesAssumption ==
    {WorkerRetries, InlineRetries} \subseteq [attempts : Nat \ {0}, budget : Nat, cap : Nat]
ASSUME RunsAssumption == IsFiniteSet(Proc) /\ IsFiniteSet(Message)
ASSUME BoundAssumption == MaxEvents \in Nat /\ MaxRuns \in Nat
ASSUME NothingAssumption ==
    Nothing \notin [m : Message, a : ClassificationAttempt]

VARIABLES
    label,      \* message -> whose label its row of classification holds
    verified,   \* sent message -> reply_attempt.verified_at is set
    usage,      \* calls in llm_usage_daily
    run,        \* process -> the locals of its run
    runs,       \* runs started
    due         \* history: calls a provider answered, less those whose count
                \* was dropped (a failed flush, a crash)

vars == <<label, verified, usage, run, runs, due>>

Label == {"none", "model", "user"}   \* "user": model_version = 'user-override'

RunLocal ==
    [kind : Kind \cup {"idle"}, backend : Backend \cup {"default"},
     phase : {"start", "pages", "end"},
     todo : SUBSET Message, batch : SUBSET Message, touched : SUBSET Message,
     events : 0 .. MaxEvents,
     hand : [m : Message, a : ClassificationAttempt] \cup {Nothing},
     buffer : Nat, misses : 0 .. Limit, tripped : BOOLEAN,
     marked : SUBSET Message, without : SUBSET Message,
     left : Nat, stored : Nat, total : Nat, streak : Nat]

Idle ==
    [kind |-> "idle", backend |-> "default",
     phase |-> "end", todo |-> {}, events |-> 0, hand |-> Nothing,
     batch |-> {}, touched |-> {}, buffer |-> 0, misses |-> 0,
     tripped |-> FALSE, marked |-> {}, left |-> 0, stored |-> 0,
     total |-> 0, streak |-> 0, without |-> {}]

Init ==
    /\ label = [m \in Message |-> "none"]
    /\ verified = [m \in Sent |-> FALSE]
    /\ usage = 0 /\ runs = 0 /\ due = 0
    /\ run = [p \in Proc |-> Idle]

(* A bug: the write has no guard, the candidates were checked before.       *)
UpsertedBlindly(ms) ==
    [m \in Message |-> IF m \in ms THEN "model" ELSE label[m]]

-----------------------------------------------------------------------------
(* upsert_classification: the row of an operator's override stays.          *)
Upserted(ms) ==
    [m \in Message |->
        IF m \in ms /\ label[m] # "user" THEN "model" ELSE label[m]]

(* A backfill is a task or answers a request; everything else is a task.    *)
Policies(kind) ==
    IF kind = "backfill" THEN {WorkerRetries, InlineRetries} ELSE {WorkerRetries}

CallsUnder == [policy \in {WorkerRetries, InlineRetries} |-> Calls(policy)]

(* The router's answer and the classifier's, at one call.                   *)
OutcomesOf ==
    [b \in Backend \cup {"default"} |-> [kind \in Kind |->
        UNION { Attempts(b, r, p) : r \in Routing, p \in Policies(kind) }]]

Hand(m, a) == [m |-> m, a |-> a]

Counted(a) == IF a.counted THEN 1 ELSE 0
Missed(a) == ~a.verdict

(* classify_with_usage for m.                                               *)
Asks(p, m, with) ==
    \E a \in OutcomesOf[run[p].backend][run[p].kind] :
        /\ run' = [run EXCEPT ![p] = [with EXCEPT !.hand = Hand(m, a)]]
        /\ due' = due + Counted(a)
        /\ UNCHANGED <<label, verified, usage, runs>>

(* ClassificationBreaker.record; a backfill keeps the same count by hand.   *)
Recorded(r, miss) ==
    IF r.tripped THEN r
    ELSE IF ~miss THEN [r EXCEPT !.misses = 0]
    ELSE [r EXCEPT !.misses = @ + 1, !.tripped = r.misses + 1 >= Limit]

(* History: the run's misses in a row, Limit + 1 once it has called after   *)
(* Limit of them; and the messages an ingest asked in vain.                 *)
Noted(r, m, miss) ==
    [r EXCEPT !.streak = IF @ >= Limit THEN Limit + 1 ELSE IF miss THEN @ + 1 ELSE 0,
              !.without = IF miss /\ r.kind # "backfill" THEN @ \cup {m} ELSE @]

(* A bug: the page loop marks, the passes do not.                           *)
MarkedByPages(r, m) ==
    IF r.kind = "outlook" /\ r.phase = "pages"
    THEN [r EXCEPT !.marked = @ \cup {m}] ELSE r

(* left_unclassified_ids: what the run asked in vain; Gmail keeps none.     *)
Marked(r, m) ==
    IF r.kind = "outlook" THEN [r EXCEPT !.marked = @ \cup {m}] ELSE r

(* The breaker has tripped: m is counted without a call.                    *)
Skipped(r, m) ==
    Marked([r EXCEPT !.left = @ + 1, !.without = @ \cup {m}], m)

(* UsageAccumulator.flush in its savepoint, and committed or discard: the   *)
(* buffer is empty afterwards, whether or not the rows were written.        *)
FlushesUsage(n) ==
    \/ usage' = usage + n /\ due' = due
    \/ n > 0 /\ usage' = usage /\ due' = due - n

(* A bug: committed does not clear the buffer.                              *)
FlushedKept(r) == r

Flushed(r) == [r EXCEPT !.buffer = 0]

(* A row of classification that another transaction holds.                  *)
RowHeld(p, m) ==
    \E q \in Proc \ {p} : m \in run[q].batch \cap run[q].touched

(* A pass over the account's sent copies.                                   *)
InPass(p) == run[p].kind \in {"outlook", "pass"} /\ run[p].phase # "pages"

(* A bug: a pass takes no lock.                                             *)
ThreadHeldByPages(p, m) == \E q \in Proc \ {p} : m \in run[q].touched

(* The thread's row: an ingest's page has written it, or a pass locked it.  *)
ThreadHeld(p, m) ==
    \E q \in Proc \ {p} :
        \/ m \in run[q].touched
        \/ InPass(q) /\ run[q].hand # Nothing /\ run[q].hand.m = m

-----------------------------------------------------------------------------
Starts(p, kind, with) ==
    /\ kind \in Kind
    /\ run[p] = Idle
    /\ runs < MaxRuns
    /\ runs' = runs + 1
    /\ run' = [run EXCEPT ![p] = [with EXCEPT !.kind = kind]]
    /\ UNCHANGED <<label, verified, usage, due>>

(* run_backfill's reads: the messages to classify, up to the limit asked.   *)
StartBackfill(p) ==
    \E force \in BOOLEAN, b \in Backend :
        \E ms \in SUBSET {m \in Message :
                             IF force THEN label[m] # "user" ELSE label[m] = "none"} :
            /\ ms # {}
            /\ Starts(p, "backfill",
                      [Idle EXCEPT !.backend = b, !.todo = ms,
                                   !.total = Cardinality(ms)])

(* What is left to ask goes unclassified with the message that missed.      *)
Unserved(r) == 1 + (IF r.tripped THEN Cardinality(r.todo) ELSE 0)

(* One turn of its loop: no row without a verdict, and after a losing       *)
(* streak no more calls.                                                    *)
BackfillTurns(p) ==
    \E m \in run[p].todo, a \in OutcomesOf[run[p].backend]["backfill"] :
        LET r == Recorded(Noted([run[p] EXCEPT !.todo = @ \ {m},
                                               !.buffer = @ + Counted(a)],
                                m, Missed(a)),
                          Missed(a))
        IN  /\ run[p].kind = "backfill"
            /\ Cardinality(run[p].batch) < BatchSize
            /\ run' = [run EXCEPT ![p] =
                         IF Missed(a)
                         THEN [r EXCEPT !.left = @ + Unserved(r),
                                        !.todo = IF r.tripped THEN {} ELSE @]
                         ELSE [r EXCEPT !.batch = @ \cup {m}]]
            /\ due' = due + Counted(a)
            /\ UNCHANGED <<label, verified, usage, runs>>

(* flush_pending: stored counts what it reports as created or protected.   *)
BackfillFlushes(p) ==
    LET r == run[p]
    IN  /\ r.kind = "backfill"
        /\ \/ Cardinality(r.batch) = BatchSize
           \/ r.todo = {} /\ (r.batch # {} \/ r.buffer > 0)
        /\ \A m \in r.batch : ~RowHeld(p, m)
        /\ label' = Upserted(r.batch)
        /\ FlushesUsage(r.buffer)
        /\ run' = [run EXCEPT ![p] =
                     Flushed([r EXCEPT !.stored = @ + Cardinality(r.batch),
                                       !.batch = {}])]
        /\ UNCHANGED <<verified, runs>>

-----------------------------------------------------------------------------
(* One ingest of the account at a time (SyncRun).                           *)
NoIngest == \A q \in Proc : run[q].kind \notin {"outlook", "gmail"}

Unverified == {m \in Sent : ~verified[m]}

StartOutlook(p) ==
    /\ NoIngest
    /\ Starts(p, "outlook", [Idle EXCEPT !.phase = "start", !.todo = Unverified])

StartGmail(p) ==
    /\ NoIngest
    /\ \E ms \in SUBSET Message :
          /\ ms # {}
          /\ Starts(p, "gmail", [Idle EXCEPT !.phase = "pages", !.todo = ms])

(* reconcile_reply_attempt's own pass, with neither breaker nor marker.     *)
StartPass(p) ==
    Starts(p, "pass", [Idle EXCEPT !.todo = Unverified])

(* _classify_and_stamp, the branches that pay for nothing: the race was     *)
(* lost, a row is there, this run asked before, or the breaker has tripped. *)
(* The stamp may fail; the attempt then stays for a later pass.             *)
NeedsCall(p, m) ==
    ~verified[m] /\ label[m] = "none" /\ m \notin run[p].marked /\ ~run[p].tripped

PassSettles(p) ==
    \E m \in run[p].todo, stamped \in BOOLEAN :
        LET r == [run[p] EXCEPT !.todo = @ \ {m}]
            asked == m \in r.marked
        IN  /\ InPass(p) /\ run[p].hand = Nothing
            /\ ~ThreadHeld(p, m)
            /\ ~NeedsCall(p, m)
            /\ verified' = [verified EXCEPT ![m] = @ \/ stamped]
            /\ run' = [run EXCEPT ![p] =
                         IF verified[m] \/ label[m] # "none" \/ asked
                         THEN r ELSE Skipped(r, m)]
            /\ UNCHANGED <<label, usage, runs, due>>

PassAsks(p) ==
    \E m \in run[p].todo :
        /\ InPass(p) /\ run[p].hand = Nothing
        /\ ~ThreadHeld(p, m)
        /\ NeedsCall(p, m)
        /\ Asks(p, m, [run[p] EXCEPT !.todo = @ \ {m}])

(* The answer: the run's accounting first, whatever the database does; then *)
(* the usage in a savepoint and the stamp, with the row if there is a       *)
(* verdict.  If they fail everything but the accounting is undone.          *)
PassTakes(p) ==
    LET a == run[p].hand.a
        m == run[p].hand.m
        r == Recorded(Noted([run[p] EXCEPT !.hand = Nothing], m, Missed(a)), Missed(a))
        s == IF Missed(a) THEN Marked([r EXCEPT !.left = @ + 1], m) ELSE r
    IN  /\ InPass(p) /\ run[p].hand # Nothing
        /\ run' = [run EXCEPT ![p] = IF r.kind = "outlook" THEN s
                                     ELSE [run[p] EXCEPT !.hand = Nothing]]
        /\ \/ /\ verified' = [verified EXCEPT ![m] = TRUE]
              /\ label' = IF Missed(a) THEN label ELSE Upserted({m})
              /\ FlushesUsage(Counted(a))
           \/ /\ due' = due - Counted(a)
              /\ UNCHANGED <<verified, label, usage>>
        /\ UNCHANGED runs

-----------------------------------------------------------------------------
(* A page's message: the row is looked for, then the marker, then the       *)
(* breaker.  Gmail delivers each message once and keeps no marker.          *)
Delivered(p) == IF run[p].kind = "gmail" THEN run[p].todo ELSE Message

Delivers(p) ==
    \E m \in Delivered(p) :
        LET r == [run[p] EXCEPT !.touched = @ \cup {m}, !.todo = @ \ {m},
                                !.events = IF @ < MaxEvents THEN @ + 1 ELSE @]
            known == label[m] # "none" \/ m \in r.batch \/ m \in r.marked
        IN  /\ run[p].kind \in {"outlook", "gmail"} /\ run[p].phase = "pages"
            /\ run[p].hand = Nothing
            /\ run[p].kind = "gmail" \/ run[p].events < MaxEvents
            /\ ~ThreadHeld(p, m)
            /\ \/ /\ known \/ r.tripped
                  /\ run' = [run EXCEPT ![p] = IF known THEN r ELSE Skipped(r, m)]
                  /\ UNCHANGED <<label, verified, usage, runs, due>>
               \/ /\ ~known /\ ~r.tripped
                  /\ Asks(p, m, r)

PageTakes(p) ==
    LET a == run[p].hand.a
        m == run[p].hand.m
        r == Recorded(Noted([run[p] EXCEPT !.hand = Nothing,
                                           !.buffer = @ + Counted(a)],
                            m, Missed(a)),
                      Missed(a))
    IN  /\ run[p].phase = "pages" /\ run[p].hand # Nothing
        /\ run' = [run EXCEPT ![p] =
                     IF Missed(a) THEN Marked([r EXCEPT !.left = @ + 1], m)
                     ELSE [r EXCEPT !.batch = @ \cup {m}]]
        /\ UNCHANGED <<label, verified, usage, runs, due>>

(* flush_usage_then_commit, at the end of a page.                           *)
PageCommits(p) ==
    LET r == run[p]
    IN  /\ r.touched # {} /\ r.hand = Nothing
        /\ label' = Upserted(r.batch)
        /\ FlushesUsage(r.buffer)
        /\ run' = [run EXCEPT ![p] = Flushed([r EXCEPT !.batch = {}, !.touched = {}])]
        /\ UNCHANGED <<verified, runs>>

(* A bug: each phase builds its own breaker.                                *)
NextPhaseAnew(r) ==
    [r EXCEPT !.phase = IF @ = "start" THEN "pages" ELSE "end",
              !.todo = IF r.phase = "start" THEN {} ELSE {m \in Sent : ~verified[m]},
              !.misses = 0, !.tripped = FALSE]

(* From one phase to the next: one breaker and one marker for all of them.  *)
NextPhase(r) ==
    IF r.phase = "start" THEN [r EXCEPT !.phase = "pages"]
    ELSE [r EXCEPT !.phase = "end", !.todo = Unverified]

Advances(p) ==
    /\ run[p].kind = "outlook" /\ run[p].phase \in {"start", "pages"}
    /\ run[p].hand = Nothing /\ run[p].todo = {} /\ run[p].touched = {}
    /\ run' = [run EXCEPT ![p] = NextPhase(run[p])]
    /\ UNCHANGED <<label, verified, usage, runs, due>>

-----------------------------------------------------------------------------
(* classify_message: a task for one message, whatever its row says.         *)
StartMessage(p) ==
    \E m \in Message : Starts(p, "message", [Idle EXCEPT !.todo = {m}])

MessageAsks(p) ==
    /\ run[p].kind = "message" /\ run[p].hand = Nothing
    /\ \E m \in run[p].todo : Asks(p, m, [run[p] EXCEPT !.todo = {}])

MessageTakes(p) ==
    LET a == run[p].hand.a
        m == run[p].hand.m
    IN  /\ run[p].kind = "message" /\ run[p].hand # Nothing
        /\ Missed(a) \/ ~RowHeld(p, m)
        /\ label' = IF Missed(a) THEN label ELSE Upserted({m})
        /\ FlushesUsage(Counted(a))
        /\ run' = [run EXCEPT ![p].hand = Nothing]
        /\ UNCHANGED <<verified, runs>>

(* reclassify_thread locks the message and writes over everything.          *)
Override(m) ==
    /\ label[m] # "user"
    /\ \A q \in Proc : m \notin run[q].touched
    /\ label' = [label EXCEPT ![m] = "user"]
    /\ UNCHANGED <<verified, usage, run, runs, due>>

(* A run is over: its work is done, or its process, its request or its      *)
(* transaction died with what it had not committed.                         *)
Finishes(p) ==
    /\ run[p].kind # "idle"
    /\ run[p].phase = "end" \/ run[p].kind = "gmail"
    /\ run[p].hand = Nothing /\ run[p].todo = {} /\ run[p].touched = {}
    /\ run[p].batch = {} /\ run[p].buffer = 0
    /\ run' = [run EXCEPT ![p] = Idle]
    /\ UNCHANGED <<label, verified, usage, runs, due>>

InHand(r) == IF r.hand = Nothing THEN 0 ELSE Counted(r.hand.a)

Dies(p) ==
    /\ run[p].kind # "idle"
    /\ due' = due - run[p].buffer - InHand(run[p])
    /\ run' = [run EXCEPT ![p] = Idle]
    /\ UNCHANGED <<label, verified, usage, runs>>

Backfills(p) == StartBackfill(p) \/ BackfillTurns(p) \/ BackfillFlushes(p)
Passes(p) == StartPass(p) \/ PassSettles(p) \/ PassAsks(p) \/ PassTakes(p)
Ingests(p) ==
    \/ StartOutlook(p) \/ StartGmail(p)
    \/ Delivers(p) \/ PageTakes(p) \/ PageCommits(p) \/ Advances(p)
Messages(p) == StartMessage(p) \/ MessageAsks(p) \/ MessageTakes(p)

Next ==
    \/ \E p \in Proc :
          Backfills(p) \/ Passes(p) \/ Ingests(p) \/ Messages(p) \/ Finishes(p) \/ Dies(p)
    \/ \E m \in Message : Override(m)

Spec == Init /\ [][Next]_vars

-----------------------------------------------------------------------------
(* Type correctness of the tables and of every run's locals.                *)
TypeOK ==
    /\ label \in [Message -> Label] /\ verified \in [Sent -> BOOLEAN]
    /\ usage \in Nat /\ due \in Nat /\ runs \in 0 .. MaxRuns
    /\ run \in [Proc -> RunLocal]
    /\ \A p \in Proc :
          /\ run[p].batch \subseteq run[p].touched \/ run[p].kind = "backfill"
          /\ run[p].tripped = (run[p].misses = Limit)

(* One logical call is billed at most once, whatever its tries came to: a   *)
(* retry never repeats what a provider may have charged for                 *)
(* (llm_client.py's _RETRYABLE_EXACT).                                      *)
NeverBilledTwice ==
    \A p \in Proc : run[p].kind # "idle" =>
        \A policy \in Policies(run[p].kind) :
            \A call \in CallsUnder[policy] : call.bills <= 1

(* The waits between its tries add up to no more than the policy's budget,  *)
(* however long a provider asks to wait.                                    *)
WaitsInBudget ==
    \A p \in Proc : run[p].kind # "idle" =>
        \A policy \in Policies(run[p].kind) :
            \A call \in CallsUnder[policy] : call.waited <= policy.budget

(* What a retry may cost: no second bill, and no wait beyond the budget.    *)
RetriesAreCheap == NeverBilledTwice /\ WaitsInBudget

(* Every call a provider answered is in the usage table once, or is lost    *)
(* for good to a crash or a failed flush, or is still buffered by exactly   *)
(* one run: nothing is counted twice and nothing disappears on the way.     *)
UsageConserved ==
    due = usage + SumFunction([p \in Proc |-> run[p].buffer + InHand(run[p])])

(* A backfill accounts for every message it took on: stored, protected or   *)
(* left unclassified, with the early stop's remainder, each once.           *)
EveryCandidateCounted ==
    \A p \in Proc : run[p].kind = "backfill" =>
        run[p].total = run[p].stored + run[p].left + Cardinality(run[p].batch)
                       + Cardinality(run[p].todo)

(* An ingest tells the user of each message it left unclassified, once,     *)
(* though three phases may meet the same message.                           *)
LeftIsExact ==
    \A p \in Proc : run[p].kind \in {"outlook", "gmail"} =>
        run[p].left = Cardinality(run[p].without)

(* While a pass pays to classify a sent copy, no other pass has stamped it: *)
(* two passes that meet over one attempt make one call.                     *)
PaidOnlyUnverified ==
    \A p \in Proc : InPass(p) /\ run[p].hand # Nothing => ~verified[run[p].hand.m]

(* What holds of the tables and the runs in every state, by its parts.      *)
Inv ==
    /\ TypeOK
    /\ PaidOnlyUnverified
    /\ EveryCandidateCounted
    /\ LeftIsExact

(* The two counts of a losing streak agree, and each kind of run keeps to   *)
(* its phases, its locks and its messages.                                  *)
Keeps(r) ==
    /\ r.streak = r.misses
    /\ r.kind \in {"outlook", "gmail"} \/ r.touched = {}
    /\ r.kind \in {"outlook", "gmail"} \/ r.phase = "end"
    /\ r.kind = "gmail" => r.phase = "pages"
    /\ r.kind \in {"outlook", "pass"} => r.todo \subseteq Sent

(* A run does not meet twice the message it counts.                         *)
MeetsOnce(r) ==
    /\ r.kind = "outlook" => r.without \subseteq r.marked
    /\ r.kind = "gmail" => r.todo \cap r.without = {}
    /\ r.kind = "backfill" =>
          r.batch \cap r.todo = {} /\ (r.tripped => r.todo = {})

(* What was true when a call was made is true when its answer is taken in.  *)
CallStands(r) ==
    r.hand # Nothing =>
        /\ r.kind \in {"outlook", "gmail"} => ~r.tripped /\ r.hand.m \notin r.without
        /\ r.kind = "outlook" => r.hand.m \notin r.marked
        /\ r.kind = "gmail" => r.hand.m \notin r.todo
        /\ r.phase = "pages" => r.hand.m \in r.touched
        /\ r.kind \in {"outlook", "pass"} /\ r.phase # "pages" => r.hand.m \in Sent

RunInv == \A p \in Proc : Keeps(run[p]) /\ MeetsOnce(run[p]) /\ CallStands(run[p])

(* No two passes pay for one message at a time.                             *)
PassesApart ==
    \A p, q \in Proc :
        /\ p # q
        /\ InPass(p) /\ run[p].hand # Nothing
        /\ InPass(q) /\ run[q].hand # Nothing
        => run[p].hand.m # run[q].hand.m

(* The strengthened invariant of the tables, the runs and their count.      *)
IInv == Inv /\ RunInv /\ PassesApart /\ UsageConserved

(* After Limit calls in a row without a verdict a run of many messages      *)
(* makes no further call, in any of its phases.                             *)
StopsAfterStreak == \A p \in Proc : run[p].streak <= Limit

(* An operator's label is never replaced by a model's, in whatever order    *)
(* the runs read, call and write.                                           *)
OverrideStays ==
    [][\A m \in Message : label[m] = "user" => label'[m] = "user"]_label

Asking(p) == run[p].hand = Nothing /\ run'[p].hand # Nothing

(* An Outlook ingest never asks again for a message it asked in vain: the   *)
(* delta may deliver it twice and a sent reply may be it.                   *)
AskedInVainOnce ==
    [][\A p \in Proc : Asking(p) /\ run[p].kind = "outlook"
          => run'[p].hand.m \notin run[p].without]_run
================================================================================
