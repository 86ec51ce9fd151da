------------------------------- MODULE SyncRun -------------------------------
(****************************************************************************)
(* The single sync slot of one account: runs, their tasks, their leases.    *)
(*                                                                          *)
(* Source: services/sync_runs.py (start_sync_run, expire_stale_sync), and   *)
(* workers/tasks_ingest.py (set_state and the life of an ingest task).      *)
(*                                                                          *)
(* A starter is a process inside start_sync_run: the ingest route, the      *)
(* scheduler, the reply reconciliation task.  No row is locked anywhere:    *)
(* expire_stale_sync and set_state read a row, decide, and then write it by *)
(* primary key, so a read and its write are two steps.  A partial unique    *)
(* index allows the account one row in an active status.                    *)
(****************************************************************************)
EXTENDS Integers, FiniteSets

CONSTANTS
    Run,          \* the mail_sync_run rows the account may get
    Starter,      \* processes that call start_sync_run
    NoRun,
    MaxRetries    \* max_retries of the ingest task

ASSUME NoRunAssumption == NoRun \notin Run
ASSUME RetryAssumption == MaxRetries \in Nat

VARIABLES
    status,       \* Run -> mail_sync_run.status, "none": no row yet
    lapsed,       \* Run -> is lease_expires_at in the past?
    task,         \* Run -> what became of its ingest task
    retries,      \* Run -> self.request.retries
    pc,           \* Starter -> where it is in start_sync_run
    stale,        \* Starter -> what its expire_stale_sync has selected
    mine,         \* Starter -> the row it has inserted
    robbed        \* history: runs failed by a starter while their task held them

slotVars == <<status, lapsed, task, retries, pc, stale, mine, robbed>>

Active == {"queued", "running", "retrying"}
Terminal == {"succeeded", "failed"}

SlotTypeOK ==
    /\ status \in [Run -> Active \cup Terminal \cup {"none"}]
    /\ lapsed \in [Run -> BOOLEAN]
    /\ task \in [Run -> {"none", "queued", "starting", "ingesting", "retrying",
                         "over"}]
    /\ retries \in [Run -> 0 .. MaxRetries]
    /\ pc \in [Starter -> {"idle", "expire", "claim", "enqueue", "note"}]
    /\ stale \in [Starter -> SUBSET Run]
    /\ mine \in [Starter -> Run \cup {NoRun}]
    /\ robbed \in SUBSET Run

SlotInit ==
    /\ status = [r \in Run |-> "none"]
    /\ lapsed = [r \in Run |-> FALSE]
    /\ task = [r \in Run |-> "none"]
    /\ retries = [r \in Run |-> 0]
    /\ pc = [p \in Starter |-> "idle"]
    /\ stale = [p \in Starter |-> {}]
    /\ mine = [p \in Starter |-> NoRun]
    /\ robbed = {}

Holders == {r \in Run : status[r] \in Active}
runVars == <<status, lapsed>>
taskVars == <<task, retries>>
starterVars == <<pc, stale, mine>>

(* uq_mail_sync_run_active_account.                                         *)
SlotFreeFor(r) == Holders \subseteq {r}

(* renew_sync, and the status.                                              *)
Renew(r, s) ==
    /\ status' = [status EXCEPT ![r] = s]
    /\ lapsed' = [lapsed EXCEPT ![r] = FALSE]

-----------------------------------------------------------------------------
(* start_sync_run.                                                          *)

\* Mutant: a retrying run is not among those that can go stale.
StaleButRetrying == {r \in Run : status[r] \in {"queued", "running"} /\ lapsed[r]}

Stale == {r \in Holders : lapsed[r]}

(* expire_stale_sync selects, with no lock.                                 *)
SelectStale(p) ==
    /\ pc[p] = "idle"
    /\ stale' = [stale EXCEPT ![p] = Stale]
    /\ pc' = [pc EXCEPT ![p] = IF Stale = {} THEN "claim" ELSE "expire"]
    /\ UNCHANGED <<runVars, taskVars, mine, robbed>>

HasRow == {"starting", "ingesting", "retrying"}

(* ... and fails what it selected, by primary key, whatever it says now.    *)
ExpireStale(p) ==
    /\ pc[p] = "expire"
    /\ status' = [r \in Run |-> IF r \in stale[p] THEN "failed" ELSE status[r]]
    /\ robbed' = robbed \cup {r \in stale[p] : task[r] \in HasRow}
    /\ stale' = [stale EXCEPT ![p] = {}]
    /\ pc' = [pc EXCEPT ![p] = "claim"]
    /\ UNCHANGED <<lapsed, taskVars, mine>>

(* The slot is taken: this caller gets the holder's run.  A lost race for   *)
(* the index ends here too.                                                 *)
Deduplicate(p) ==
    /\ pc[p] = "claim"
    /\ Holders # {}
    /\ pc' = [pc EXCEPT ![p] = "idle"]
    /\ UNCHANGED <<runVars, taskVars, stale, mine, robbed>>

(* Insert the queued row and commit.                                        *)
ClaimSlot(p, r) ==
    /\ pc[p] = "claim"
    /\ status[r] = "none"
    /\ Holders = {}
    /\ Renew(r, "queued")
    /\ mine' = [mine EXCEPT ![p] = r]
    /\ pc' = [pc EXCEPT ![p] = "enqueue"]
    /\ UNCHANGED <<taskVars, stale, robbed>>

Enqueue(p) ==
    /\ pc[p] = "enqueue"
    /\ task' = [task EXCEPT ![mine[p]] = "queued"]
    /\ pc' = [pc EXCEPT ![p] = "note"]
    /\ UNCHANGED <<runVars, retries, stale, mine, robbed>>

(* .delay() raises: nothing was queued, so the slot is released.            *)
EnqueueFails(p) ==
    /\ pc[p] = "enqueue"
    /\ status' = [status EXCEPT ![mine[p]] = "failed"]
    /\ mine' = [mine EXCEPT ![p] = NoRun]
    /\ pc' = [pc EXCEPT ![p] = "idle"]
    /\ UNCHANGED <<lapsed, taskVars, stale, robbed>>

\* Mutant: a failed note of the task id fails the run.
NoteTaskOrFail(p) ==
    /\ pc[p] = "note"
    /\ \/ UNCHANGED status
       \/ status' = [status EXCEPT ![mine[p]] = "failed"]
    /\ mine' = [mine EXCEPT ![p] = NoRun]
    /\ pc' = [pc EXCEPT ![p] = "idle"]
    /\ UNCHANGED <<lapsed, taskVars, stale, robbed>>

(* Note the task's id, or fail to: the run is left as it is.                *)
NoteTask(p) ==
    /\ pc[p] = "note"
    /\ mine' = [mine EXCEPT ![p] = NoRun]
    /\ pc' = [pc EXCEPT ![p] = "idle"]
    /\ UNCHANGED <<runVars, taskVars, stale, robbed>>

(* The process dies between its commits.                                    *)
StarterDies(p) ==
    /\ pc[p] # "idle"
    /\ pc' = [pc EXCEPT ![p] = "idle"]
    /\ stale' = [stale EXCEPT ![p] = {}]
    /\ mine' = [mine EXCEPT ![p] = NoRun]
    /\ UNCHANGED <<runVars, taskVars, robbed>>

-----------------------------------------------------------------------------
(* The ingest task.                                                         *)

(* set_state("running") reads the row: a finished run is not started.       *)
Start(r) ==
    /\ task[r] = "queued"
    /\ task' = [task EXCEPT ![r] = IF status[r] \in Terminal THEN "over"
                                                             ELSE "starting"]
    /\ UNCHANGED <<runVars, retries, starterVars, robbed>>

(* ... and writes it by primary key.  If the row was failed meanwhile and   *)
(* another run holds the slot, the index raises and the task is over.       *)
Running(r) ==
    /\ task[r] = "starting"
    /\ IF SlotFreeFor(r)
       THEN Renew(r, "running") /\ task' = [task EXCEPT ![r] = "ingesting"]
       ELSE UNCHANGED runVars /\ task' = [task EXCEPT ![r] = "over"]
    /\ UNCHANGED <<retries, starterVars, robbed>>

(* The ingest is done: set_state("succeeded"), with no look at the row.     *)
Succeed(r) ==
    /\ task[r] = "ingesting"
    /\ Renew(r, "succeeded")
    /\ task' = [task EXCEPT ![r] = "over"]
    /\ UNCHANGED <<retries, starterVars, robbed>>

(* A ValueError, or the last retry is used up: set_state("failed").         *)
Fail(r) ==
    /\ task[r] = "ingesting"
    /\ Renew(r, "failed")
    /\ task' = [task EXCEPT ![r] = "over"]
    /\ UNCHANGED <<retries, starterVars, robbed>>

(* A transient failure: set_state("retrying") reads the row.  What it finds *)
(* decides the write, not the retry, which is queued in any case.           *)
FailTransiently(r) ==
    /\ task[r] = "ingesting"
    /\ retries[r] < MaxRetries
    /\ IF status[r] \in Terminal
       THEN /\ task' = [task EXCEPT ![r] = "queued"]
            /\ retries' = [retries EXCEPT ![r] = @ + 1]
       ELSE /\ task' = [task EXCEPT ![r] = "retrying"]
            /\ UNCHANGED retries
    /\ UNCHANGED <<runVars, starterVars, robbed>>

Retry(r) ==
    /\ task[r] = "retrying"
    /\ IF SlotFreeFor(r)
       THEN /\ Renew(r, "retrying")
            /\ task' = [task EXCEPT ![r] = "queued"]
            /\ retries' = [retries EXCEPT ![r] = @ + 1]
       ELSE /\ UNCHANGED <<runVars, retries>>
            /\ task' = [task EXCEPT ![r] = "over"]
    /\ UNCHANGED <<starterVars, robbed>>

(* The broker loses the message; the worker is killed, hits the hard time   *)
(* limit, or cannot write the row.  The row stays as it is.                 *)
TaskLost(r) ==
    /\ task[r] \notin {"none", "over"}
    /\ task' = [task EXCEPT ![r] = "over"]
    /\ UNCHANGED <<runVars, retries, starterVars, robbed>>

(* The lease lapses: of a task not started in time, of one waiting for its  *)
(* retry, of one that is gone.  Never of one that is running: time_limit    *)
(* kills it sooner than SYNC_LEASE, which its start has renewed.            *)
Lapse(r) ==
    /\ status[r] \in Active
    /\ ~lapsed[r]
    /\ ~(status[r] = "running" /\ task[r] \in HasRow)
    /\ lapsed' = [lapsed EXCEPT ![r] = TRUE]
    /\ UNCHANGED <<status, taskVars, starterVars, robbed>>

-----------------------------------------------------------------------------
StartSync(p) ==
    \/ SelectStale(p) \/ ExpireStale(p) \/ Deduplicate(p)
    \/ \E r \in Run : ClaimSlot(p, r)
    \/ Enqueue(p) \/ EnqueueFails(p) \/ NoteTask(p) \/ StarterDies(p)

Ingest(r) ==
    \/ Start(r) \/ Running(r) \/ Succeed(r) \/ Fail(r)
    \/ FailTransiently(r) \/ Retry(r) \/ TaskLost(r) \/ Lapse(r)

SlotNext == (\E p \in Starter : StartSync(p)) \/ (\E r \in Run : Ingest(r))

SlotSpec == SlotInit /\ [][SlotNext]_slotVars

-----------------------------------------------------------------------------
(* Two runs of one account pull its mail at the same time only if the older *)
(* was failed behind its task's back: otherwise the slot of a live task     *)
(* is never given away, through retries, lost notes and dead starters.      *)
OneIngest ==
    \A q, r \in Run :
        /\ task[q] = "ingesting"
        /\ task[r] = "ingesting"
        => q = r \/ q \in robbed \/ r \in robbed

(* A task at work owns the slot, unless the row was failed behind its back. *)
TaskHoldsSlot ==
    \A r \in Run :
        /\ task[r] \in {"ingesting", "retrying"} /\ r \notin robbed
        => status[r] = "running" /\ ~lapsed[r]

(* The inductive invariant behind both: the index keeps one active row, and *)
(* a starter about to enqueue is the only one to know of a row with no task.*)
SlotInv == \A q, r \in Holders : q = r

RowInv ==
    \A r \in Run :
        /\ task[r] # "none" => status[r] # "none"
        /\ task[r] = "retrying" => retries[r] < MaxRetries

StarterInv ==
    /\ \A p \in Starter :
          /\ pc[p] \in {"enqueue", "note"} => mine[p] \in Run
          /\ pc[p] = "enqueue" => /\ task[mine[p]] = "none"
                                 /\ status[mine[p]] # "none"
    /\ \A p, q \in Starter :
          pc[p] = "enqueue" /\ pc[q] = "enqueue" /\ mine[p] = mine[q] => p = q

SlotIInv == SlotTypeOK /\ SlotInv /\ RowInv /\ StarterInv /\ TaskHoldsSlot

(* "Per-account sync single-flight": what the code does not ensure.         *)
SingleFlight ==
    \A q, r \in Run : task[q] = "ingesting" /\ task[r] = "ingesting" => q = r

(* The scheduler comes by again and again, and its sweep does not die every *)
(* time; time passes; a task at work ends, by itself or by its time limit.  *)
Fairness ==
    /\ \A r \in Run : /\ WF_slotVars(Lapse(r))
                      /\ WF_slotVars(Running(r) \/ Retry(r))
                      /\ WF_slotVars(Succeed(r) \/ Fail(r) \/ TaskLost(r))
    /\ \A p \in Starter : /\ WF_slotVars(StartSync(p))
                          /\ SF_slotVars(SelectStale(p))
                          /\ SF_slotVars(ExpireStale(p))

FairSlotSpec == SlotSpec /\ Fairness

(* The slot is always released in the end: whatever died, was lost or hangs *)
(* in a queue, no run keeps the account from syncing for ever.              *)
SlotIsReleased == \A r \in Run : status[r] \in Active ~> status[r] \in Terminal
=============================================================================
