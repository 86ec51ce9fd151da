----------------------------- MODULE AccountProofs -----------------------------
(****************************************************************************)
(* Proofs about the three parts that share an account's worker: the slot of *)
(* its sync runs (SyncRun), the grant they work with (Grants), and the runs *)
(* that classify its mail (Classification, LlmCall).  The three modules     *)
(* share no variable; each theorem is about the specification of one.       *)
(****************************************************************************)
EXTENDS SyncRun, Grants, Classification, FiniteSetTheorems, WellFoundedInduction,
        TLAPS

-----------------------------------------------------------------------------
(* SyncRun, for any runs, starters and number of retries.                   *)

(* No run, and nobody starts one.                                           *)
LEMMA SlotInitIInv == SlotInit => SlotIInv
  BY NoRunAssumption, RetryAssumption
     DEF SlotInit, SlotIInv, SlotTypeOK, SlotInv, RowInv, StarterInv, TaskHoldsSlot,
         Holders, Active, Terminal

(* A step of none of its variables.                                         *)
LEMMA SlotStutterIInv == SlotIInv /\ UNCHANGED slotVars => SlotIInv'
  BY DEF slotVars, SlotIInv, SlotTypeOK, SlotInv, RowInv, StarterInv, TaskHoldsSlot, Holders

-----------------------------------------------------------------------------
(* start_sync_run.                                                          *)

(* Each of its steps, between which other starters and the tasks move.      *)
LEMMA StarterStep ==
    ASSUME SlotIInv, NEW p \in Starter, StartSync(p)
    PROVE  SlotIInv'
<1> USE NoRunAssumption DEF SlotTypeOK, Active, Terminal, Holders
<1>1. CASE SelectStale(p)
    BY <1>1 DEF SelectStale, Stale, SlotIInv, SlotInv, RowInv, StarterInv,
                TaskHoldsSlot, runVars, taskVars
<1>2. CASE ExpireStale(p)
  <2>1. SlotTypeOK'
      BY <1>2 DEF ExpireStale, SlotIInv, taskVars
  <2>2. SlotInv' /\ RowInv' /\ StarterInv'
      BY <1>2 DEF ExpireStale, SlotIInv, SlotInv, RowInv, StarterInv, taskVars
  <2>3. TaskHoldsSlot'
      BY <1>2 DEF ExpireStale, SlotIInv, TaskHoldsSlot, HasRow, taskVars
  <2> QED BY <2>1, <2>2, <2>3 DEF SlotIInv
<1>3. CASE Deduplicate(p)
    BY <1>3 DEF Deduplicate, SlotIInv, SlotInv, RowInv, StarterInv, TaskHoldsSlot,
                runVars, taskVars
<1>4. ASSUME NEW r \in Run, ClaimSlot(p, r)
      PROVE  SlotIInv'
  <2>1. SlotTypeOK'
      BY <1>4 DEF ClaimSlot, Renew, SlotIInv, taskVars
  <2>2. SlotInv' /\ RowInv' /\ StarterInv'
      BY <1>4 DEF ClaimSlot, Renew, SlotIInv, SlotInv, RowInv, StarterInv, taskVars
  <2>3. TaskHoldsSlot'
      BY <1>4 DEF ClaimSlot, Renew, SlotIInv, RowInv, TaskHoldsSlot, taskVars
  <2> QED BY <2>1, <2>2, <2>3 DEF SlotIInv
<1>5. CASE Enqueue(p)
  <2>1. SlotTypeOK'
      BY <1>5 DEF Enqueue, SlotIInv, StarterInv, runVars
  <2>2. SlotInv' /\ RowInv' /\ StarterInv' /\ TaskHoldsSlot'
      BY <1>5 DEF Enqueue, SlotIInv, SlotInv, RowInv, StarterInv, TaskHoldsSlot,
                  runVars
  <2> QED BY <2>1, <2>2 DEF SlotIInv
<1>6. CASE EnqueueFails(p)
  <2>1. SlotTypeOK'
      BY <1>6 DEF EnqueueFails, SlotIInv, StarterInv, taskVars
  <2>2. SlotInv' /\ RowInv' /\ StarterInv' /\ TaskHoldsSlot'
      BY <1>6 DEF EnqueueFails, SlotIInv, SlotInv, RowInv, StarterInv,
                  TaskHoldsSlot, taskVars
  <2> QED BY <2>1, <2>2 DEF SlotIInv
<1>7. CASE NoteTask(p)
    BY <1>7 DEF NoteTask, SlotIInv, SlotInv, RowInv, StarterInv, TaskHoldsSlot,
                runVars, taskVars
<1>8. CASE StarterDies(p)
    BY <1>8 DEF StarterDies, SlotIInv, SlotInv, RowInv, StarterInv, TaskHoldsSlot,
                runVars, taskVars
<1> QED BY <1>1, <1>2, <1>3, <1>4, <1>5, <1>6, <1>7, <1>8 DEF StartSync

-----------------------------------------------------------------------------
(* The ingest task.                                                         *)

(* Each of its steps, the sweep and a lost task among them.                 *)
LEMMA TaskStep ==
    ASSUME SlotIInv, NEW r \in Run, Ingest(r)
    PROVE  SlotIInv'
<1> USE RetryAssumption DEF SlotTypeOK, Active, Terminal, Holders
<1>1. CASE Start(r)
    BY <1>1 DEF Start, SlotIInv, SlotInv, RowInv, StarterInv, TaskHoldsSlot,
                runVars, starterVars
<1>2. CASE Running(r)
  <2>1. SlotTypeOK'
      BY <1>2 DEF Running, Renew, SlotIInv, runVars, starterVars
  <2>2. SlotInv' /\ RowInv' /\ StarterInv'
      BY <1>2 DEF Running, Renew, SlotFreeFor, SlotIInv, SlotInv, RowInv,
                  StarterInv, runVars, starterVars
  <2>3. TaskHoldsSlot'
      BY <1>2 DEF Running, Renew, SlotIInv, TaskHoldsSlot, runVars, starterVars
  <2> QED BY <2>1, <2>2, <2>3 DEF SlotIInv
<1>3. CASE Succeed(r)
    BY <1>3 DEF Succeed, Renew, SlotIInv, SlotInv, RowInv, StarterInv,
                TaskHoldsSlot, starterVars
<1>4. CASE Fail(r)
    BY <1>4 DEF Fail, Renew, SlotIInv, SlotInv, RowInv, StarterInv, TaskHoldsSlot,
                starterVars
<1>5. CASE FailTransiently(r)
  <2>1. SlotTypeOK'
      BY <1>5 DEF FailTransiently, SlotIInv, runVars, starterVars
  <2>2. SlotInv' /\ RowInv' /\ StarterInv' /\ TaskHoldsSlot'
      BY <1>5 DEF FailTransiently, SlotIInv, SlotInv, RowInv, StarterInv,
                  TaskHoldsSlot, runVars, starterVars
  <2> QED BY <2>1, <2>2 DEF SlotIInv
<1>6. CASE Retry(r)
  <2>1. retries[r] + 1 \in 0 .. MaxRetries
      BY <1>6 DEF Retry, SlotIInv, RowInv
  <2>2. SlotTypeOK'
    <3>1. CASE SlotFreeFor(r)
        BY <1>6, <2>1, <3>1 DEF Retry, Renew, SlotIInv, starterVars
    <3>2. CASE ~SlotFreeFor(r)
        BY <1>6, <3>2 DEF Retry, SlotIInv, runVars, starterVars
    <3> QED BY <3>1, <3>2
  <2>3. SlotInv' /\ RowInv' /\ StarterInv'
      BY <1>6 DEF Retry, Renew, SlotFreeFor, SlotIInv, SlotInv, RowInv,
                  StarterInv, runVars, starterVars
  <2>4. TaskHoldsSlot'
      BY <1>6 DEF Retry, Renew, SlotIInv, TaskHoldsSlot, runVars, starterVars
  <2> QED BY <2>2, <2>3, <2>4 DEF SlotIInv
<1>7. CASE TaskLost(r)
    BY <1>7 DEF TaskLost, SlotIInv, SlotInv, RowInv, StarterInv, TaskHoldsSlot,
                runVars, starterVars
<1>8. CASE Lapse(r)
    BY <1>8 DEF Lapse, HasRow, SlotIInv, SlotInv, RowInv, StarterInv,
                TaskHoldsSlot, taskVars, starterVars
<1> QED BY <1>1, <1>2, <1>3, <1>4, <1>5, <1>6, <1>7, <1>8 DEF Ingest

-----------------------------------------------------------------------------
(* The strengthened invariant of start_sync_run and the task's set_state.   *)
THEOREM SlotInvariance == SlotSpec => []SlotIInv
<1>1. SlotIInv /\ [SlotNext]_slotVars => SlotIInv'
  <2> SUFFICES ASSUME SlotIInv, [SlotNext]_slotVars
               PROVE  SlotIInv'
      OBVIOUS
  <2> QED BY StarterStep, TaskStep, SlotStutterIInv DEF SlotNext
<1> QED BY SlotInitIInv, <1>1, PTL DEF SlotSpec

(* Every variable keeps its type; in particular a task is retried no more   *)
(* often than its max_retries.                                              *)
THEOREM SlotTypeCorrect == SlotSpec => []SlotTypeOK
<1>1. SlotIInv => SlotTypeOK
    BY DEF SlotIInv
<1> QED BY SlotInvariance, <1>1, PTL

(* A task at work owns the slot of its account, unless the sweep failed its *)
(* row behind its back.                                                     *)
THEOREM HoldsSlot == SlotSpec => []TaskHoldsSlot
<1>1. SlotIInv => TaskHoldsSlot
    BY DEF SlotIInv
<1> QED BY SlotInvariance, <1>1, PTL

(* No two tasks pull the mail of one account, but for robbed rows.          *)
THEOREM SingleIngest == SlotSpec => []OneIngest
<1>1. SlotIInv => OneIngest
    BY DEF SlotIInv, SlotInv, TaskHoldsSlot, OneIngest, Holders, Active
<1> QED BY SlotInvariance, <1>1, PTL

-----------------------------------------------------------------------------
(* Grants, for any flows, workers and users.                                *)

(* Nothing is there yet, or one account that works.                         *)
LEMMA GrantInitIInv == GrantInit => GrantIInv
<1> SUFFICES ASSUME GrantInit PROVE GrantIInv
    OBVIOUS
<1> USE SelfAssumption, TokenAssumption, RowAssumption
        DEF GrantInit, Token, MaybeToken, Row
<1>1. GrantTypeOK
  <2>1. account \in Account /\ (account.row = NoRow => account = NoAccount)
    <3>1. CASE account = NoAccount
        BY <3>1 DEF Account, NoAccount
    <3>2. ASSUME NEW u \in users,
                 account = [row |-> OldRow, owner |-> u, refresh |-> OldToken,
                            paused |-> FALSE]
          PROVE  account \in Account /\ account.row # NoRow
        BY <3>2 DEF Account
    <3> QED BY <3>1, <3>2
  <2>2. flow \in [Flow -> FlowLocal] /\ worker \in [Worker -> WorkerLocal]
      BY DEF FlowLocal, WorkerLocal, IdleWorker
  <2>3. linked \in SUBSET Token
      BY <2>1 DEF Account
  <2> QED BY <2>1, <2>2, <2>3 DEF GrantTypeOK
<1>2. PausedForCause
    BY DEF PausedForCause, NoAccount
<1>3. TokenInv
    BY DEF TokenInv, NoAccount
<1>4. NewRowInv
    BY DEF NewRowInv, NoAccount, IdleWorker
<1>5. FlowInv
    BY DEF FlowInv, At, Is, There, NoAccount
<1>6. WorkerInv
    BY DEF WorkerInv, IdleWorker
<1> QED BY <1>1, <1>2, <1>3, <1>4, <1>5, <1>6 DEF GrantIInv, GrantInv

(* A step of a flow that leaves the row of the account alone.               *)
LEMMA FlowLooks ==
    ASSUME GrantIInv, NEW f \in Flow, unchangedRows, UNCHANGED <<provider, worker>>,
           flow' = [flow EXCEPT ![f] = flow'[f]], flow'[f] \in FlowLocal,
           nonce' \in SUBSET Flow,
           issued' \in {issued, issued \cup {f}},
           alive' \subseteq issued', alive' \subseteq alive \cup {f},
           f \in alive' => f \in alive \/ flow[f].pc = "exchange",
           flow'[f].refresh \in issued' \cup {NoToken},
           flow'[f].pc \in {"new", "consent", "exchange"} =>
              issued' = issued /\ flow[f].pc \in {"new", "consent", "exchange"},
           flow'[f].pc \notin {"in", "done"} => flow[f].pc \notin {"in", "done"},
           flow'[f].row \in {flow[f].row, account.row, NoRow},
           flow'[f].kind = "connect" /\ flow'[f].pc # "new" => flow'[f].user \in User,
           flow'[f].pc = "commit" =>
              /\ flow'[f].user \in User /\ flow'[f].kind # "disconnect"
              /\ account.row = flow'[f].row =>
                    flow'[f].row = NoRow \/ account.owner = flow'[f].user
              /\ provider = "outlook" /\ flow'[f].kind = "login" /\ flow'[f].row = NoRow
                    => flow'[f].creates
    PROVE  GrantIInv'
<1> USE SelfAssumption, TokenAssumption, RowAssumption DEF Token, MaybeToken, Row,
        unchangedRows, GrantTypeOK, GrantIInv, GrantInv
<1> flow \in [Flow -> FlowLocal]
    OBVIOUS
<1>1. GrantTypeOK'
    OBVIOUS
<1>2. PausedForCause'
    BY DEF PausedForCause, TokenInv
<1>3. TokenInv'
    BY DEF TokenInv
<1>4. NewRowInv'
    BY DEF NewRowInv
<1>5. FlowInv'
    BY DEF FlowInv, At, Is, There, Inserts
<1>6. WorkerInv'
    BY DEF WorkerInv, TokenInv
<1> QED BY <1>1, <1>2, <1>3, <1>4, <1>5, <1>6

(* The steps before the provider is asked: a flow starts, or the user comes *)
(* back from the consent page with a nonce.                                 *)
LEMMA FlowStarts ==
    ASSUME GrantIInv, NEW f \in Flow, NEW u \in User,
           StartLogin(f) \/ StartConnect(f, u) \/ ForgetState(f)
           \/ LoginCallback(f) \/ ConnectCallback(f, u)
    PROVE  GrantIInv'
<1> USE DEF unchangedRows, unchangedProvider, At, Is, Goto
<1> flow \in [Flow -> FlowLocal] /\ nonce \in SUBSET Flow /\ users \in SUBSET User
    BY DEF GrantIInv, GrantInv, GrantTypeOK
<1> flow[f].kind = "connect" /\ flow[f].pc # "new" => flow[f].user \in User
    BY DEF GrantIInv, FlowInv
<1> flow[f].refresh \in issued \cup {NoToken} /\ alive \subseteq issued
    BY DEF GrantIInv, TokenInv, GrantInv, GrantTypeOK
<1>1. CASE StartLogin(f)
  <2>1. /\ flow'[f] \in FlowLocal /\ flow' = [flow EXCEPT ![f] = flow'[f]]
        /\ flow'[f].kind = "login" /\ flow'[f].pc = "consent" /\ flow[f].pc = "new"
        /\ flow'[f].refresh = flow[f].refresh /\ flow'[f].row = flow[f].row
      BY <1>1 DEF StartLogin, FlowLocal
  <2>2. /\ unchangedRows /\ unchangedProvider /\ UNCHANGED worker
        /\ nonce' \in SUBSET Flow
      BY <1>1 DEF StartLogin, Started
  <2> QED BY <2>1, <2>2, FlowLooks
<1>2. CASE StartConnect(f, u)
  <2>1. /\ flow'[f] \in FlowLocal /\ flow' = [flow EXCEPT ![f] = flow'[f]]
        /\ flow'[f].kind = "connect" /\ flow'[f].pc = "consent" /\ flow[f].pc = "new"
        /\ flow'[f].user = u
        /\ flow'[f].refresh = flow[f].refresh /\ flow'[f].row = flow[f].row
      BY <1>2 DEF StartConnect, FlowLocal
  <2>2. /\ unchangedRows /\ unchangedProvider /\ UNCHANGED worker
        /\ nonce' \in SUBSET Flow
      BY <1>2 DEF StartConnect, Started
  <2> QED BY <2>1, <2>2, FlowLooks
<1>3. CASE ForgetState(f)
  <2>1. flow' = flow
      BY <1>3 DEF ForgetState
  <2> QED BY <1>3, <2>1 DEF ForgetState, GrantIInv, GrantInv, GrantTypeOK, PausedForCause,
        TokenInv, NewRowInv, FlowInv, WorkerInv, There, Inserts
<1>4. ASSUME NEW accepted \in BOOLEAN, Returns(f, accepted)
      PROVE  GrantIInv'
  <2>1. /\ flow'[f] \in FlowLocal /\ flow' = [flow EXCEPT ![f] = flow'[f]]
        /\ flow'[f].pc \in {"exchange", "refused"} /\ flow[f].pc = "consent"
        /\ flow'[f].kind = flow[f].kind /\ flow'[f].user = flow[f].user
        /\ flow'[f].refresh = flow[f].refresh /\ flow'[f].row = flow[f].row
      BY <1>4 DEF Returns, FlowLocal
  <2>2. /\ unchangedRows /\ unchangedProvider /\ UNCHANGED worker
        /\ nonce' \in SUBSET Flow
      BY <1>4 DEF Returns
  <2> QED BY <2>1, <2>2, FlowLooks
<1> QED BY <1>1, <1>2, <1>3, <1>4 DEF LoginCallback, ConnectCallback

(* The code is exchanged; a token is issued, or none comes with it.         *)
LEMMA FlowExchanges ==
    ASSUME GrantIInv, NEW f \in Flow, ExchangeGmail(f) \/ ExchangeOutlook(f)
    PROVE  GrantIInv'
<1> USE DEF unchangedRows, unchangedProvider, At, Is, Goto
<1> flow \in [Flow -> FlowLocal] /\ nonce \in SUBSET Flow /\ users \in SUBSET User
    BY DEF GrantIInv, GrantInv, GrantTypeOK
<1> flow[f].kind = "connect" /\ flow[f].pc # "new" => flow[f].user \in User
    BY DEF GrantIInv, FlowInv
<1> flow[f].refresh \in issued \cup {NoToken} /\ alive \subseteq issued
    BY DEF GrantIInv, TokenInv, GrantInv, GrantTypeOK
<1>1. Exchanged(f)
    BY DEF ExchangeGmail, ExchangeOutlook
<1>2. CASE flow' = [flow EXCEPT ![f].pc = "look", ![f].refresh = f]
           /\ alive' = alive \cup {f} /\ issued' = issued \cup {f}
  <2>1. flow' = [flow EXCEPT ![f] = [flow[f] EXCEPT !.pc = "look", !.refresh = f]]
      BY <1>2
  <2>2. flow'[f] \in FlowLocal /\ flow' = [flow EXCEPT ![f] = flow'[f]]
    <3>1. f \in MaybeToken
        BY DEF MaybeToken, Token
    <3>2. [flow[f] EXCEPT !.pc = "look", !.refresh = f] \in FlowLocal
        BY <3>1 DEF FlowLocal
    <3>3. flow'[f] = [flow[f] EXCEPT !.pc = "look", !.refresh = f]
        BY <2>1
    <3> QED BY <2>1, <3>2, <3>3
  <2>3. /\ flow'[f].refresh = f /\ flow'[f].row = flow[f].row
        /\ flow'[f].kind = flow[f].kind /\ flow'[f].user = flow[f].user
        /\ flow'[f].pc = "look" /\ flow[f].pc = "exchange"
      BY <1>1, <1>2 DEF Exchanged, FlowLocal
  <2>4. unchangedRows /\ UNCHANGED <<provider, nonce, worker>>
      BY <1>1 DEF Exchanged
  <2>5. /\ issued' = issued \cup {f} /\ alive' \subseteq issued'
        /\ alive' \subseteq alive \cup {f}
      BY <1>2
  <2>6. flow'[f].refresh \in issued' \cup {NoToken}
      BY <1>2, <2>3
  <2> QED BY <2>2, <2>3, <2>4, <2>5, <2>6, FlowLooks
<1>3. ASSUME NEW place \in {"look", "refused"}, flow' = [flow EXCEPT ![f].pc = place],
             UNCHANGED <<alive, issued>>
      PROVE  GrantIInv'
  <2>1. /\ flow'[f] \in FlowLocal /\ flow' = [flow EXCEPT ![f] = flow'[f]]
        /\ flow'[f].pc = place /\ flow[f].pc = "exchange"
        /\ flow'[f].kind = flow[f].kind /\ flow'[f].user = flow[f].user
        /\ flow'[f].refresh = flow[f].refresh /\ flow'[f].row = flow[f].row
      BY <1>1, <1>3 DEF Exchanged, FlowLocal
  <2>2. unchangedRows /\ UNCHANGED <<provider, nonce, worker>>
      BY <1>1 DEF Exchanged
  <2> QED BY <1>3, <2>1, <2>2, FlowLooks
<1> QED BY <1>1, <1>2, <1>3 DEF Exchanged

(* The reads after the exchange: whom and which row the flow writes for.    *)
LEMMA FlowFinds ==
    ASSUME GrantIInv, NEW f \in Flow, LookGmail(f) \/ LookOutlook(f) \/ LookConnect(f)
    PROVE  GrantIInv'
<1> USE SelfAssumption DEF unchangedRows, unchangedProvider, At, Is, Goto
<1> /\ flow \in [Flow -> FlowLocal] /\ nonce \in SUBSET Flow /\ users \in SUBSET User
    /\ account \in Account /\ (account.row = NoRow => account = NoAccount)
    BY DEF GrantIInv, GrantInv, GrantTypeOK
<1> /\ flow[f].kind = "connect" /\ flow[f].pc # "new" => flow[f].user \in User
    /\ There => account.owner \in User
    BY DEF GrantIInv, FlowInv
<1> flow[f].refresh \in issued \cup {NoToken} /\ alive \subseteq issued
    BY DEF GrantIInv, TokenInv, GrantInv, GrantTypeOK
<1>1. ASSUME NEW u \in User, At(f, "look"), Found(f, u), ~Is(f, "disconnect"),
             UNCHANGED <<provider, worker, users, account, linked, alive, issued, nonce>>,
             provider = "outlook" /\ Is(f, "login") /\ Existing(u) = NoRow => u \notin users
      PROVE  GrantIInv'
  <2>1. Existing(u) \in Row \cup {NoRow} /\ Existing(u) \in {account.row, NoRow}
      BY DEF Existing, Account
  <2>2. flow'[f] \in FlowLocal /\ flow' = [flow EXCEPT ![f] = flow'[f]]
      BY <1>1, <2>1 DEF FlowLocal, Found
  <2>3. Existing(u) # NoRow => account.owner = u
      BY DEF Existing
  <2>4. /\ flow'[f].pc = "commit" /\ flow[f].pc = "look" /\ flow'[f].user = u
        /\ flow'[f].row = Existing(u) /\ flow'[f].kind = flow[f].kind
        /\ flow'[f].refresh = flow[f].refresh /\ flow'[f].kind # "disconnect"
        /\ flow'[f].creates = (u \notin users)
      BY <1>1, <2>1 DEF FlowLocal, Found
  <2>5. UNCHANGED <<provider, worker, users, account, linked, alive, issued, nonce>>
      BY <1>1
  <2>6. provider = "outlook" /\ flow'[f].kind = "login" /\ flow'[f].row = NoRow
            => flow'[f].creates
      BY <1>1, <2>4
  <2>7. account.row = flow'[f].row =>
            flow'[f].row = NoRow \/ account.owner = flow'[f].user
      BY <2>3, <2>4
  <2> QED BY <2>1, <2>2, <2>4, <2>5, <2>6, <2>7, FlowLooks
<1>2. CASE Goto(f, "refused") /\ At(f, "look")
           /\ UNCHANGED <<provider, worker, users, account, linked, alive, issued, nonce>>
  <2>1. /\ flow'[f] \in FlowLocal /\ flow' = [flow EXCEPT ![f] = flow'[f]]
        /\ flow'[f].pc = "refused" /\ flow[f].pc = "look"
        /\ flow'[f].kind = flow[f].kind /\ flow'[f].user = flow[f].user
        /\ flow'[f].refresh = flow[f].refresh /\ flow'[f].row = flow[f].row
      BY <1>2 DEF FlowLocal
  <2> QED BY <1>2, <2>1, FlowLooks
<1>3. CASE LookGmail(f)
    BY <1>1, <1>3 DEF LookGmail
<1>4. CASE LookOutlook(f)
  <2>1. There => account.row # NoRow
      BY DEF There
  <2> QED BY <1>1, <1>2, <1>4, <2>1 DEF LookOutlook, Existing, MayCreate, There
<1>5. CASE LookConnect(f)
    BY <1>1, <1>2, <1>5 DEF LookConnect
<1> QED BY <1>3, <1>4, <1>5

(* A write that lost its race to another flow, and a disconnect's read.     *)
LEMMA FlowLoses ==
    ASSUME GrantIInv, NEW f \in Flow, LoseLogin(f) \/ LoseConnect(f) \/ ReadConnection(f)
    PROVE  GrantIInv'
<1> USE DEF unchangedRows, unchangedProvider, At, Is, Goto
<1> /\ flow \in [Flow -> FlowLocal] /\ nonce \in SUBSET Flow /\ users \in SUBSET User
    /\ account \in Account
    BY DEF GrantIInv, GrantInv, GrantTypeOK
<1> /\ flow[f].kind = "connect" /\ flow[f].pc # "new" => flow[f].user \in User
    BY DEF GrantIInv, FlowInv
<1> /\ flow[f].refresh \in issued \cup {NoToken} /\ alive \subseteq issued
    /\ account.refresh \in issued \cup {NoToken}
    BY DEF GrantIInv, TokenInv, GrantInv, GrantTypeOK
<1>1. CASE LoseLogin(f)
  <2>1. /\ flow'[f] \in FlowLocal /\ flow' = [flow EXCEPT ![f] = flow'[f]]
        /\ flow'[f].kind = flow[f].kind /\ flow'[f].refresh = flow[f].refresh
        /\ flow'[f].user = flow[f].user /\ flow'[f].row = flow[f].row
        /\ flow'[f].pc \in {"look", "refused"} /\ flow[f].pc = "commit"
      BY <1>1 DEF LoseLogin, FlowLocal
  <2>2. /\ unchangedRows /\ unchangedProvider /\ UNCHANGED <<nonce, worker>>
      BY <1>1 DEF LoseLogin
  <2> QED BY <2>1, <2>2, FlowLooks
<1>2. CASE LoseConnect(f)
  <2>1. /\ flow'[f] \in FlowLocal /\ flow' = [flow EXCEPT ![f] = flow'[f]]
        /\ flow'[f].kind = flow[f].kind /\ flow'[f].refresh = flow[f].refresh
        /\ flow'[f].user = flow[f].user /\ flow'[f].row = flow[f].row
        /\ flow'[f].pc = "refused" /\ flow[f].pc = "commit"
      BY <1>2 DEF LoseConnect, FlowLocal
  <2>2. /\ unchangedRows /\ unchangedProvider /\ UNCHANGED <<nonce, worker>>
      BY <1>2 DEF LoseConnect
  <2> QED BY <2>1, <2>2, FlowLooks
<1>3. CASE ReadConnection(f)
  <2>1. flow'[f] \in FlowLocal /\ flow' = [flow EXCEPT ![f] = flow'[f]]
      BY <1>3 DEF FlowLocal, ReadConnection, Account
  <2>2. /\ flow'[f].kind = "disconnect" /\ flow'[f].pc \in {"revoke", "delete"}
        /\ flow'[f].row = account.row /\ flow'[f].refresh = account.refresh
        /\ flow[f].pc = "new"
      BY <1>3 DEF ReadConnection, FlowLocal
  <2>3. /\ unchangedRows /\ unchangedProvider /\ UNCHANGED <<nonce, worker>>
      BY <1>3 DEF ReadConnection
  <2> QED BY <2>1, <2>2, <2>3, FlowLooks
<1> QED BY <1>1, <1>2, <1>3

(* The write of the row: it is new, or the row that was read.               *)
LEMMA FlowLinks ==
    ASSUME GrantIInv, NEW f \in Flow, Link(f)
    PROVE  GrantIInv'
<1> USE SelfAssumption, TokenAssumption, RowAssumption
    DEF unchangedProvider, At, Is, Goto, Token, MaybeToken, Row, Link, Commits,
        Inserts, Clash, There
<1> /\ flow \in [Flow -> FlowLocal] /\ nonce \in SUBSET Flow /\ users \in SUBSET User
    /\ account \in Account /\ (account.row = NoRow => account = NoAccount)
    /\ worker \in [Worker -> WorkerLocal] /\ linked \subseteq issued
    /\ alive \subseteq issued /\ issued \in SUBSET Token
    BY DEF GrantIInv, GrantInv, GrantTypeOK, TokenInv
<1>1. /\ account.refresh \in linked \cup {NoToken}
      /\ flow[f].refresh \in issued \cup {NoToken}
      /\ flow[f].user \in User
    BY DEF GrantIInv, TokenInv, FlowInv
<1>2. flow' \in [Flow -> FlowLocal]
    BY DEF FlowLocal
<1>3. /\ \A g \in Flow : g # f => flow'[g] = flow[g]
      /\ flow'[f].pc \in {"in", "done"}
      /\ flow'[f].refresh = flow[f].refresh
      /\ flow'[f].row = flow[f].row
      /\ flow'[f].kind = flow[f].kind
      /\ flow'[f].user = flow[f].user
    BY DEF FlowLocal
<1>4. /\ account' \in Account /\ account'.row # NoRow
      /\ account'.refresh \in linked' \cup {NoToken}
      /\ linked \subseteq linked' /\ linked' \subseteq issued
      /\ account'.paused => account.paused
      /\ account'.row # account.row => account'.row = f /\ account'.owner \in User
      /\ account'.row = account.row => account'.owner = account.owner
  <2>1. CASE Inserts(f)
    <3>1. account = NoAccount
        BY <2>1
    <3>2. account' = [row |-> f, owner |-> flow[f].user, refresh |-> flow[f].refresh,
                      paused |-> FALSE]
        BY <2>1 DEF Upsert
    <3>3. flow[f].refresh \in MaybeToken
        BY DEF FlowLocal
    <3> QED BY <1>1, <3>1, <3>2, <3>3 DEF Account, NoAccount
  <2>2. CASE ~Inserts(f)
    <3>1. account.row = flow[f].row /\ account.row # NoRow
        BY <2>2
    <3>2. CASE account' = account
        BY <1>1, <3>1, <3>2
    <3>3. CASE account' = [account EXCEPT !.refresh = flow[f].refresh, !.paused = FALSE]
      <4>1. account' \in Account
          BY <1>1, <3>3 DEF Account
      <4>2. /\ account'.row = account.row /\ account'.owner = account.owner
            /\ account'.refresh = flow[f].refresh /\ ~account'.paused
          BY <3>3 DEF Account
      <4> QED BY <1>1, <3>1, <4>1, <4>2
    <3> QED BY <2>2, <3>2, <3>3 DEF Upsert
  <2> QED BY <2>1, <2>2
<1>5. GrantTypeOK'
    BY <1>1, <1>2, <1>4 DEF GrantIInv, GrantInv, GrantTypeOK
<1>6. PausedForCause'
    BY <1>4 DEF GrantIInv, GrantInv, PausedForCause
<1>7. TokenInv'
    BY <1>3, <1>4 DEF GrantIInv, TokenInv
<1>8. NewRowInv'
    BY <1>3, <1>4 DEF GrantIInv, NewRowInv
<1>9. FlowInv'
  <2>1. There' => account'.owner \in User
      BY <1>4 DEF GrantIInv, FlowInv, NoAccount
  <2>2. ASSUME NEW g \in Flow, flow[g].pc = "commit", g # f,
               account'.row = flow[g].row
        PROVE  flow[g].row = NoRow \/ account'.owner = flow[g].user
      BY <1>4, <2>2 DEF GrantIInv, FlowInv, NewRowInv
  <2>3. users' \in SUBSET User /\ provider' = provider
      BY <1>1
  <2> QED BY <1>3, <2>1, <2>2, <2>3 DEF GrantIInv, FlowInv
<1>10. WorkerInv'
    BY <1>3, <1>4 DEF GrantIInv, WorkerInv, NewRowInv
<1> QED BY <1>5, <1>6, <1>7, <1>8, <1>9, <1>10 DEF GrantIInv, GrantInv

(* A disconnect's two steps after its read.                                 *)
LEMMA FlowDisconnects ==
    ASSUME GrantIInv, NEW f \in Flow, RevokeGoogle(f) \/ DeleteConnection(f)
    PROVE  GrantIInv'
<1> USE SelfAssumption, TokenAssumption, RowAssumption
    DEF unchangedProvider, unchangedRows, At, Is, Goto
<1> /\ flow \in [Flow -> FlowLocal] /\ nonce \in SUBSET Flow /\ users \in SUBSET User
    /\ account \in Account /\ (account.row = NoRow => account = NoAccount)
    /\ worker \in [Worker -> WorkerLocal] /\ linked \subseteq issued
    /\ alive \subseteq issued /\ issued \in SUBSET Token
    BY DEF GrantIInv, GrantInv, GrantTypeOK, TokenInv
<1>1. /\ flow[f].refresh \in issued \cup {NoToken}
      /\ flow[f].kind = "connect" /\ flow[f].pc # "new" => flow[f].user \in User
    BY DEF GrantIInv, TokenInv, FlowInv
<1>2. CASE RevokeGoogle(f)
  <2>1. alive' \subseteq alive
      BY <1>2 DEF RevokeGoogle
  <2>2. /\ flow'[f] \in FlowLocal /\ flow' = [flow EXCEPT ![f] = flow'[f]]
        /\ flow'[f] = [flow[f] EXCEPT !.pc = "delete"]
      BY <1>2 DEF RevokeGoogle, FlowLocal
  <2> QED BY <1>1, <1>2, <2>1, <2>2, FlowLooks DEF RevokeGoogle, FlowLocal
<1>3. CASE DeleteConnection(f)
  <2> USE <1>3 DEF DeleteConnection
  <2>1. flow' \in [Flow -> FlowLocal]
      BY DEF FlowLocal
  <2>2. /\ \A g \in Flow : g # f => flow'[g] = flow[g]
        /\ flow'[f].pc = "done"
        /\ flow'[f].refresh = flow[f].refresh
        /\ flow'[f].row = flow[f].row
        /\ flow'[f].kind = flow[f].kind
        /\ flow'[f].user = flow[f].user
      BY DEF FlowLocal
  <2>3. \/ account' = account /\ linked' = linked
        \/ account' = NoAccount /\ linked' = {}
      OBVIOUS
  <2>4. NoAccount \in Account /\ NoAccount.row = NoRow /\ NoAccount.refresh = NoToken
        /\ ~NoAccount.paused
      BY DEF NoAccount, Account, MaybeToken
  <2>5. GrantTypeOK'
      BY <2>1, <2>3, <2>4 DEF GrantIInv, GrantInv, GrantTypeOK
  <2>6. PausedForCause'
      BY <2>3, <2>4 DEF GrantIInv, GrantInv, PausedForCause
  <2>7. TokenInv'
      BY <2>2, <2>3, <2>4 DEF GrantIInv, TokenInv
  <2>8. NewRowInv'
      BY <2>2, <2>3, <2>4 DEF GrantIInv, NewRowInv, Row
  <2>9. FlowInv'
      BY <2>2, <2>3, <2>4 DEF GrantIInv, FlowInv, There, Inserts
  <2>10. WorkerInv'
      BY <2>3, <2>4 DEF GrantIInv, WorkerInv
  <2> QED BY <2>5, <2>6, <2>7, <2>8, <2>9, <2>10 DEF GrantIInv, GrantInv
<1> QED BY <1>2, <1>3

(* The steps of a worker at work on a copy it has read of the row's token.  *)
LEMMA WorkerMoves ==
    ASSUME GrantIInv, NEW w \in Worker,
           Begin(w) \/ Given(w) \/ RefusedForGood(w) \/ Fails(w)
    PROVE  GrantIInv'
<1> USE TokenAssumption, RowAssumption DEF unchangedProvider, unchangedRows
<1> /\ worker \in [Worker -> WorkerLocal] /\ linked \subseteq issued
    /\ account \in Account /\ (account.row = NoRow => account = NoAccount)
    /\ alive \subseteq issued /\ issued \in SUBSET Token
    /\ account.refresh \in linked \cup {NoToken}
    BY DEF GrantIInv, GrantInv, GrantTypeOK, TokenInv
<1>1. ASSUME worker' = [worker EXCEPT ![w] = worker'[w]], worker'[w] \in WorkerLocal,
             UNCHANGED <<provider, users, account, linked, nonce, flow>>,
             \/ issued' = issued /\ alive' = alive
             \/ /\ w \notin issued
                /\ issued' = issued \cup {w} /\ alive' = alive \cup {w},
             worker'[w].row \in {worker[w].row, account.row, NoRow},
             worker'[w].pc \in {"ask", "pause", "write"} =>
                /\ worker'[w].row # NoRow
                /\ worker'[w].refresh \in issued'
                /\ worker'[w].pc # "write" /\ account.row = worker'[w].row
                      => worker'[w].refresh \in linked
                /\ worker'[w].pc = "pause" => worker'[w].refresh \notin alive'
      PROVE  GrantIInv'
  <2>1. GrantTypeOK'
      BY <1>1 DEF GrantIInv, GrantInv, GrantTypeOK, Token
  <2>2. PausedForCause'
      BY <1>1 DEF GrantIInv, GrantInv, PausedForCause
  <2>3. TokenInv'
      BY <1>1 DEF GrantIInv, TokenInv
  <2>4. NewRowInv'
      BY <1>1 DEF GrantIInv, NewRowInv, Row
  <2>5. FlowInv'
      BY <1>1 DEF GrantIInv, FlowInv, There, Is, At, Inserts
  <2>6. WorkerInv'
      BY <1>1 DEF GrantIInv, WorkerInv
  <2> QED BY <2>1, <2>2, <2>3, <2>4, <2>5, <2>6 DEF GrantIInv, GrantInv
<1>2. CASE Begin(w)
  <2>1. /\ account.row # NoRow
        /\ account.refresh \in linked
      BY <1>2 DEF Begin, NeedsToken, There
  <2>2. worker'[w] = [pc |-> "ask", row |-> account.row, refresh |-> account.refresh]
      BY <1>2 DEF Begin
  <2>3. worker'[w] \in WorkerLocal
      BY <2>2 DEF WorkerLocal, Account
  <2>4. worker' = [worker EXCEPT ![w] = worker'[w]]
      BY <1>2, <2>2 DEF Begin
  <2>5. UNCHANGED <<provider, users, account, linked, nonce, flow, alive, issued>>
      BY <1>2 DEF Begin
  <2> QED BY <1>1, <2>1, <2>2, <2>3, <2>4, <2>5
<1>3. worker[w].pc \in {"ask", "pause", "write"} =>
         /\ worker[w].row # NoRow
         /\ worker[w].refresh \in issued
         /\ worker[w].pc # "write" /\ account.row = worker[w].row
               => worker[w].refresh \in linked
    BY DEF GrantIInv, WorkerInv
<1>4. CASE Given(w)
  <2>1. CASE worker' = [worker EXCEPT ![w].pc = "write"] /\ UNCHANGED <<alive, issued>>
    <3>1. worker'[w] = [worker[w] EXCEPT !.pc = "write"]
        BY <2>1
    <3>2. worker'[w] \in WorkerLocal
        BY <3>1 DEF WorkerLocal
    <3>3. /\ worker'[w].row = worker[w].row /\ worker'[w].refresh = worker[w].refresh
          /\ worker'[w].pc = "write"
        BY <3>1 DEF WorkerLocal
    <3>4. worker' = [worker EXCEPT ![w] = worker'[w]]
        BY <2>1
    <3>5. UNCHANGED <<provider, users, account, linked, nonce, flow, alive, issued>>
        BY <1>4, <2>1 DEF Given
    <3> QED BY <1>1, <1>3, <1>4, <3>2, <3>3, <3>4, <3>5 DEF Given
  <2>2. CASE /\ worker' = [worker EXCEPT ![w].pc = "write", ![w].refresh = w]
             /\ w \notin issued
             /\ alive' = alive \cup {w} /\ issued' = issued \cup {w}
    <3>1. worker' = [worker EXCEPT ![w] = [worker[w] EXCEPT !.pc = "write", !.refresh = w]]
        BY <2>2
    <3>2. worker'[w] = [worker[w] EXCEPT !.pc = "write", !.refresh = w]
        BY <3>1
    <3>3. w \in MaybeToken
        BY DEF MaybeToken, Token
    <3>4. worker'[w] \in WorkerLocal
        BY <3>2, <3>3 DEF WorkerLocal
    <3>5. /\ worker'[w].row = worker[w].row /\ worker'[w].refresh = w
          /\ worker'[w].pc = "write"
        BY <3>2 DEF WorkerLocal
    <3>6. worker' = [worker EXCEPT ![w] = worker'[w]]
        BY <3>1, <3>2
    <3> QED BY <1>1, <1>3, <1>4, <2>2, <3>4, <3>5, <3>6 DEF Given
  <2> QED BY <1>4, <2>1, <2>2 DEF Given
<1>5. CASE RefusedForGood(w)
  <2>1. worker'[w] = [worker[w] EXCEPT !.pc = "pause"]
      BY <1>5 DEF RefusedForGood
  <2>2. worker'[w] \in WorkerLocal
      BY <2>1 DEF WorkerLocal
  <2>3. /\ worker'[w].row = worker[w].row /\ worker'[w].refresh = worker[w].refresh
        /\ worker'[w].pc = "pause"
      BY <2>1 DEF WorkerLocal
  <2>4. worker' = [worker EXCEPT ![w] = worker'[w]]
      BY <1>5 DEF RefusedForGood
  <2>5. UNCHANGED <<provider, users, account, linked, nonce, flow, alive, issued>>
      BY <1>5 DEF RefusedForGood
  <2> QED BY <1>1, <1>3, <1>5, <2>2, <2>3, <2>4, <2>5 DEF RefusedForGood, Permanent
<1>6. CASE Fails(w)
  <2>1. worker'[w] = [pc |-> "failed", row |-> NoRow, refresh |-> NoToken]
      BY <1>6 DEF Fails, IdleWorker
  <2>2. worker'[w] \in WorkerLocal
      BY <2>1 DEF WorkerLocal, MaybeToken
  <2>3. worker' = [worker EXCEPT ![w] = worker'[w]]
      BY <1>6, <2>1 DEF Fails, IdleWorker
  <2>4. UNCHANGED <<provider, users, account, linked, nonce, flow, alive, issued>>
      BY <1>6 DEF Fails
  <2> QED BY <1>1, <2>1, <2>2, <2>3, <2>4
<1> QED BY <1>2, <1>4, <1>5, <1>6

(* The writes of a worker: they look for the row they have read.            *)
LEMMA WorkerWrites ==
    ASSUME GrantIInv, NEW w \in Worker, Pause(w) \/ WriteToken(w)
    PROVE  GrantIInv'
<1> USE TokenAssumption, RowAssumption DEF unchangedProvider
<1> /\ worker \in [Worker -> WorkerLocal] /\ linked \subseteq issued
    /\ account \in Account /\ (account.row = NoRow => account = NoAccount)
    /\ alive \subseteq issued /\ issued \in SUBSET Token
    /\ account.refresh \in linked \cup {NoToken}
    BY DEF GrantIInv, GrantInv, GrantTypeOK, TokenInv
<1>1. /\ worker[w].row # NoRow
      /\ worker[w].refresh \in issued
      /\ worker[w].pc = "pause" /\ account.row = worker[w].row
            => worker[w].refresh \in linked \ alive
    BY DEF GrantIInv, WorkerInv, Pause, WriteToken
<1>2. /\ worker' = [worker EXCEPT ![w] = IdleWorker]
      /\ IdleWorker \in WorkerLocal /\ IdleWorker.pc = "idle" /\ IdleWorker.row = NoRow
      /\ UNCHANGED <<provider, users, alive, issued, nonce, flow>>
    BY DEF Pause, WriteToken, IdleWorker, WorkerLocal, MaybeToken
<1>3. /\ account' \in Account
      /\ account'.row = account.row /\ account'.owner = account.owner
      /\ account' # account => account.row # NoRow
      /\ account'.paused /\ ~account.paused => linked \ alive # {}
      /\ linked \subseteq linked' /\ linked' \subseteq issued
      /\ account'.refresh \in linked' \cup {NoToken}
  <2>1. CASE Pause(w)
    <3>1. CASE account' = account
        BY <2>1, <3>1 DEF Pause
    <3>2. CASE account.row = worker[w].row /\ account' = [account EXCEPT !.paused = TRUE]
      <4>1. account' \in Account /\ account'.row = account.row
            /\ account'.owner = account.owner /\ account'.refresh = account.refresh
          BY <3>2 DEF Account
      <4> QED BY <1>1, <2>1, <3>2, <4>1 DEF Pause
    <3> QED BY <2>1, <3>1, <3>2 DEF Pause
  <2>2. CASE WriteToken(w)
    <3>1. CASE account' = account
        BY <2>2, <3>1 DEF WriteToken
    <3>2. CASE account.row = worker[w].row
               /\ account' = [account EXCEPT !.refresh = worker[w].refresh]
      <4>1. worker[w].refresh \in MaybeToken
          BY DEF WorkerLocal
      <4>2. account' \in Account /\ account'.row = account.row
            /\ account'.owner = account.owner /\ account'.paused = account.paused
            /\ account'.refresh = worker[w].refresh
          BY <3>2, <4>1 DEF Account
      <4> QED BY <1>1, <2>2, <3>2, <4>2 DEF WriteToken
    <3> QED BY <2>2, <3>1, <3>2 DEF WriteToken, Kept
  <2> QED BY <2>1, <2>2
<1>4. GrantTypeOK'
    BY <1>2, <1>3 DEF GrantIInv, GrantInv, GrantTypeOK
<1>5. PausedForCause'
    BY <1>2, <1>3 DEF GrantIInv, GrantInv, PausedForCause, Account
<1>6. TokenInv'
    BY <1>2, <1>3 DEF GrantIInv, TokenInv
<1>7. NewRowInv'
    BY <1>2, <1>3 DEF GrantIInv, NewRowInv
<1>8. FlowInv'
    BY <1>2, <1>3 DEF GrantIInv, FlowInv, There, Is, At, Inserts, NoAccount
<1>9. WorkerInv'
    BY <1>2, <1>3 DEF GrantIInv, WorkerInv
<1> QED BY <1>4, <1>5, <1>6, <1>7, <1>8, <1>9 DEF GrantIInv, GrantInv

(* The user outside this system, and steps of none of them.                 *)
LEMMA OutsideMoves ==
    ASSUME GrantIInv,
           Withdraw \/ (\E u \in User : Register(u)) \/ UNCHANGED grantVars
    PROVE  GrantIInv'
<1> USE DEF unchangedProvider, unchangedRows
<1>1. CASE Withdraw
    BY <1>1 DEF Withdraw, GrantIInv, GrantInv, GrantTypeOK, PausedForCause, TokenInv,
                NewRowInv, FlowInv, WorkerInv, There, Is, At, Inserts
<1>2. ASSUME NEW u \in User, Register(u)
      PROVE  GrantIInv'
    BY <1>2 DEF Register, GrantIInv, GrantInv, GrantTypeOK, PausedForCause, TokenInv,
                NewRowInv, FlowInv, WorkerInv, There, Is, At, Inserts
<1>3. CASE UNCHANGED grantVars
    BY <1>3 DEF grantVars, GrantIInv, GrantInv, GrantTypeOK, PausedForCause, TokenInv,
                NewRowInv, FlowInv, WorkerInv, There, Is, At, Inserts
<1> QED BY <1>1, <1>2, <1>3

(* The strengthened invariant of the account's row, its tokens, and the     *)
(* flows and workers that hold copies of both.                              *)
THEOREM GrantInvariance == GrantSpec => []GrantIInv
<1>1. GrantIInv /\ [GrantNext]_grantVars => GrantIInv'
  <2> SUFFICES ASSUME GrantIInv, [GrantNext]_grantVars
               PROVE  GrantIInv'
      OBVIOUS
  <2>1. ASSUME NEW f \in Flow, FlowStep(f)
        PROVE  GrantIInv'
    <3> Self \in User
        BY SelfAssumption
    <3> QED BY <2>1, FlowStarts, FlowExchanges, FlowFinds, FlowLinks, FlowLoses,
               FlowDisconnects DEF FlowStep
  <2>2. ASSUME NEW w \in Worker, Begin(w) \/ WorkerStep(w) \/ Fails(w)
        PROVE  GrantIInv'
      BY <2>2, WorkerMoves, WorkerWrites DEF WorkerStep
  <2> QED BY <2>1, <2>2, OutsideMoves DEF GrantNext
<1> QED BY GrantInitIInv, <1>1, PTL DEF GrantSpec

(* An account is paused only because a token that was linked to it is dead  *)
(* at the provider: no worker pauses what a later consent repaired.         *)
THEOREM PausesForCause == GrantSpec => []GrantInv
<1>1. GrantIInv => GrantInv
    BY DEF GrantIInv
<1> QED BY GrantInvariance, <1>1, PTL

(* Only a flow's own step ends its write: it is done, or it looks again.    *)
LEMMA OnlyLinkSignsIn ==
    ASSUME GrantIInv, GrantNext, NEW f \in Flow, At(f, "commit"),
           flow'[f].pc # "commit"
    PROVE  \/ Link(f)
           \/ flow'[f].pc \in {"look", "refused"} /\ UNCHANGED <<users, account>>
<1> flow \in [Flow -> FlowLocal]
    BY DEF GrantIInv, GrantInv, GrantTypeOK
<1> USE DEF At, Is, unchangedRows, unchangedProvider, Goto
<1>1. ASSUME NEW g \in Flow, FlowStep(g), g # f
      PROVE  flow'[f] = flow[f]
    BY <1>1 DEF FlowStep, StartLogin, StartConnect, ForgetState, LoginCallback,
         ConnectCallback, Returns, ExchangeGmail, ExchangeOutlook, Exchanged, LookGmail,
         LookOutlook, LookConnect, Found, Link, LoseLogin, LoseConnect, ReadConnection,
         RevokeGoogle, DeleteConnection
<1>2. CASE FlowStep(f)
  <2>1. CASE LoseLogin(f)
      BY <2>1 DEF LoseLogin, FlowLocal
  <2>2. CASE LoseConnect(f)
      BY <2>2 DEF LoseConnect, FlowLocal
  <2>3. CASE ForgetState(f)
      BY <2>3 DEF ForgetState
  <2> QED
      BY <1>2, <2>1, <2>2, <2>3 DEF FlowStep, StartLogin, StartConnect, LoginCallback,
         ConnectCallback, Returns, ExchangeGmail, ExchangeOutlook, Exchanged, LookGmail,
         LookOutlook, LookConnect, ReadConnection, RevokeGoogle, DeleteConnection
<1>3. ASSUME NEW w \in Worker, Begin(w) \/ WorkerStep(w) \/ Fails(w)
      PROVE  flow' = flow
    BY <1>3 DEF Begin, WorkerStep, Given, RefusedForGood, Pause, WriteToken, Fails
<1>4. CASE Withdraw \/ \E u \in User : Register(u)
    BY <1>4 DEF Withdraw, Register
<1> QED BY <1>1, <1>2, <1>3, <1>4 DEF GrantNext

(* What a write leaves: the owner it found or the user it writes for.       *)
LEMMA LinkKeepsOwner ==
    ASSUME GrantIInv, NEW f \in Flow, Link(f)
    PROVE  /\ account'.owner = flow[f].user
           /\ There => account'.owner = account.owner
           /\ users' = users \cup {flow[f].user}
           /\ provider = "outlook" /\ Is(f, "login") /\ ~There
                 => flow[f].user \notin users
<1> /\ account \in Account /\ (account.row = NoRow => account = NoAccount)
    /\ There \/ account.row = NoRow
    BY DEF GrantIInv, GrantInv, GrantTypeOK, There, NoAccount
<1>1. /\ account.row = flow[f].row => Inserts(f) \/ account.owner = flow[f].user
      /\ provider = "outlook" /\ Is(f, "login") /\ Inserts(f) => flow[f].creates
    BY DEF GrantIInv, FlowInv, Link, Commits
<1>2. CASE Inserts(f)
    BY <1>1, <1>2 DEF Link, Commits, Clash, UserClash, Upsert
<1>3. CASE ~Inserts(f)
  <2>1. account'.owner = account.owner
      BY <1>3 DEF Link, Upsert, Account
  <2> QED BY <1>1, <1>3, <2>1 DEF Link, Commits, Inserts
<1> QED BY <1>2, <1>3

(* Only the write of a flow gives the row an owner.                         *)
LEMMA OnlyFlowsMoveTheRow ==
    ASSUME GrantIInv, GrantNext, account' # account,
           account'.row # NoRow
    PROVE  \/ \E f \in Flow : Link(f)
           \/ account'.owner = account.owner
<1> account \in Account
    BY DEF GrantIInv, GrantInv, GrantTypeOK
<1> USE DEF unchangedRows
<1>1. ASSUME NEW f \in Flow, FlowStep(f)
      PROVE  Link(f) \/ account'.owner = account.owner
    BY <1>1 DEF FlowStep, StartLogin, StartConnect, Started, ForgetState, LoginCallback,
         ConnectCallback, Returns, ExchangeGmail, ExchangeOutlook, Exchanged, LookGmail,
         LookOutlook, LookConnect, LoseLogin, LoseConnect, ReadConnection,
         RevokeGoogle, DeleteConnection, NoAccount
<1>2. ASSUME NEW w \in Worker, Begin(w) \/ WorkerStep(w) \/ Fails(w)
      PROVE  account'.owner = account.owner
    BY <1>2 DEF Begin, WorkerStep, Given, RefusedForGood, Pause, WriteToken, Fails, Kept,
         Account
<1>3. CASE Withdraw \/ \E u \in User : Register(u)
    BY <1>3 DEF Withdraw, Register
<1> QED BY <1>1, <1>2, <1>3 DEF GrantNext

(* Whoever signs in with a mailbox is its owner, a race of two consents     *)
(* leaves no user without one, and the row keeps its owner while it is      *)
(* there.                                                                   *)
THEOREM OwnerIsOne == GrantSpec => OneOwner
<1> DEFINE Good == SignsInAsOwner /\ LeavesNoEmptyUser /\ SignsInAsNewcomer /\ KeepsItsOwner
<1>1. GrantIInv /\ [GrantNext]_grantVars => [Good]_grantVars
  <2> SUFFICES ASSUME GrantIInv, GrantNext
               PROVE  Good
      OBVIOUS
  <2>1. ASSUME NEW f \in Flow, At(f, "commit"), flow'[f].pc = "in"
        PROVE  Link(f) /\ Is(f, "login")
    <3>1. Link(f)
        BY <2>1, OnlyLinkSignsIn
    <3>2. flow \in [Flow -> FlowLocal]
        BY DEF GrantIInv, GrantInv, GrantTypeOK
    <3> QED BY <2>1, <3>1, <3>2 DEF Link, Goto, Is, FlowLocal
  <2>2. SignsInAsOwner /\ SignsInAsNewcomer
      BY <2>1, LinkKeepsOwner DEF SignsInAsOwner, SignsInAsNewcomer
  <2>3. LeavesNoEmptyUser
      BY OnlyLinkSignsIn, LinkKeepsOwner DEF LeavesNoEmptyUser
  <2>4. KeepsItsOwner
      BY OnlyFlowsMoveTheRow, LinkKeepsOwner DEF KeepsItsOwner
  <2> QED BY <2>2, <2>3, <2>4
<1> QED BY GrantInvariance, <1>1, PTL DEF GrantSpec, OneOwner

-----------------------------------------------------------------------------
(* Classification, for any finite sets of processes and of messages.  Its   *)
(* usage is a sum over the runs, which is recursive: what is needed of it   *)
(* is proved of the least set, by cardinality, for which it would fail.     *)

(* What SumFunction computes, set by set: h[s] is the sum of f over s, taken *)
(* in the order of CHOOSE.                                                  *)
Summed(h, f, S) ==
    h = [s \in SUBSET S |->
           IF s = {} THEN 0
           ELSE f[CHOOSE x \in s : TRUE] + h[s \ {CHOOSE x \in s : TRUE}]]

(* If there is such an h then SumFunction is what one of them gives.        *)
LEMMA SumIs ==
    ASSUME NEW f, \E h : Summed(h, f, DOMAIN f)
    PROVE  \E h : Summed(h, f, DOMAIN f) /\ SumFunction(f) = h[DOMAIN f]
<1> DEFINE S == DOMAIN f
           it == CHOOSE h : Summed(h, f, S)
<1>1. Summed(it, f, S)
    BY Zenon
<1>2. SumFunction(f) = it[S]
    BY Zenon DEF SumFunction, SumFunctionOnSet, FoldFunctionOnSet, MapThenFoldSet, Summed
<1> QED BY <1>1, <1>2

(* Among the sets that have a property there is one of least cardinality.   *)
LEMMA Smallest ==
    ASSUME NEW S, IsFiniteSet(S), NEW B, B \subseteq SUBSET S, B # {}
    PROVE  \E s \in B : \A t \in B : ~(Cardinality(t) < Cardinality(s))
<1> DEFINE N == {Cardinality(s) : s \in B}
<1>1. \A s \in B : Cardinality(s) \in Nat
    BY FS_Subset, FS_CardinalityType
<1>2. N \subseteq Nat /\ N # {}
    BY <1>1
<1>3. PICK n \in N : \A k \in N : ~(<<k, n>> \in OpToRel(<, Nat))
  <2> HIDE DEF N
  <2> QED BY <1>2, NatLessThanWellFounded, WFMin
<1>4. \A k \in N : ~(k < n)
  <2> SUFFICES ASSUME NEW k \in N, k < n
               PROVE  FALSE
      OBVIOUS
  <2>1. k \in Nat /\ n \in Nat
      BY <1>2
  <2>2. <<k, n>> \in OpToRel(<, Nat)
      BY <2>1 DEF OpToRel
  <2> QED BY <1>3, <2>2
<1> QED BY <1>4

(* The sum of integers is one, of naturals a natural.                       *)
LEMMA SumTyped ==
    ASSUME NEW S, IsFiniteSet(S), NEW f, NEW T, T \in {Int, Nat}, \A x \in S : f[x] \in T,
           NEW h, Summed(h, f, S)
    PROVE  \A s \in SUBSET S : h[s] \in T
<1> DEFINE B == {s \in SUBSET S : h[s] \notin T}
<1> SUFFICES ASSUME B # {}
             PROVE  FALSE
    OBVIOUS
<1>1. PICK s \in B : \A t \in B : ~(Cardinality(t) < Cardinality(s))
    BY Smallest
<1>2. s # {}
    BY <1>1 DEF Summed
<1> DEFINE x == CHOOSE y \in s : TRUE
<1>3. x \in s
    BY <1>2
<1>4. h[s] = f[x] + h[s \ {x}]
    BY <1>1, <1>2, Zenon DEF Summed
<1> HIDE DEF x
<1>5. Cardinality(s \ {x}) < Cardinality(s)
    BY <1>1, <1>3, FS_Subset, FS_RemoveElement, FS_CardinalityType
<1>6. h[s \ {x}] \in T
    BY <1>1, <1>5
<1> QED BY <1>1, <1>3, <1>4, <1>6

(* Nothing adds up to nothing.                                              *)
LEMMA SumOfNothing ==
    ASSUME NEW S, IsFiniteSet(S), NEW f, \A x \in S : f[x] = 0, NEW h, Summed(h, f, S)
    PROVE  h[S] = 0
<1> DEFINE B == {s \in SUBSET S : h[s] # 0}
<1> SUFFICES ASSUME B # {}
             PROVE  FALSE
    OBVIOUS
<1>1. PICK s \in B : \A t \in B : ~(Cardinality(t) < Cardinality(s))
    BY Smallest
<1>2. s # {}
    BY <1>1 DEF Summed
<1> DEFINE x == CHOOSE y \in s : TRUE
<1>3. x \in s
    BY <1>2
<1>4. h[s] = f[x] + h[s \ {x}]
    BY <1>1, <1>2, Zenon DEF Summed
<1> HIDE DEF x
<1>5. Cardinality(s \ {x}) < Cardinality(s)
    BY <1>1, <1>3, FS_Subset, FS_RemoveElement, FS_CardinalityType
<1>6. h[s \ {x}] = 0
    BY <1>1, <1>5
<1> QED BY <1>1, <1>3, <1>4, <1>6

(* One summand changes: so does, by as much, every sum it is in.            *)
LEMMA SumMoves ==
    ASSUME NEW S, IsFiniteSet(S), NEW f, NEW g, NEW p \in S,
           \A x \in S : f[x] \in Int /\ g[x] \in Int,
           \A x \in S \ {p} : g[x] = f[x],
           NEW h, Summed(h, f, S), NEW k, Summed(k, g, S)
    PROVE  \A s \in SUBSET S : k[s] = h[s] + (IF p \in s THEN g[p] - f[p] ELSE 0)
<1> DEFINE B == {s \in SUBSET S : k[s] # h[s] + (IF p \in s THEN g[p] - f[p] ELSE 0)}
<1> SUFFICES ASSUME B # {}
             PROVE  FALSE
    OBVIOUS
<1>1. PICK s \in B : \A t \in B : ~(Cardinality(t) < Cardinality(s))
    BY Smallest
<1>2. s # {}
    BY <1>1 DEF Summed
<1> DEFINE x == CHOOSE y \in s : TRUE
<1>3. x \in s
    BY <1>2
<1>4. h[s] = f[x] + h[s \ {x}] /\ k[s] = g[x] + k[s \ {x}]
    BY <1>1, <1>2, Zenon DEF Summed
<1> HIDE DEF x
<1>5. Cardinality(s \ {x}) < Cardinality(s)
    BY <1>1, <1>3, FS_Subset, FS_RemoveElement, FS_CardinalityType
<1>6. k[s \ {x}] = h[s \ {x}] + (IF p \in s \ {x} THEN g[p] - f[p] ELSE 0)
    BY <1>1, <1>5
<1>7. h[s \ {x}] \in Int /\ k[s \ {x}] \in Int
    BY SumTyped, <1>1
<1> QED BY <1>1, <1>3, <1>4, <1>6, <1>7

(* The sum of what is finite is defined.                                    *)
LEMMA SumDefined ==
    ASSUME NEW S, IsFiniteSet(S), NEW f, \A x \in S : f[x] \in Int
    PROVE  \E h : Summed(h, f, S)
<1> DEFINE Small(n) == {s \in SUBSET S : Cardinality(s) <= n}
           Ok(h, n) == h = [s \in Small(n) |->
                              IF s = {} THEN 0
                              ELSE f[CHOOSE x \in s : TRUE] + h[s \ {CHOOSE x \in s : TRUE}]]
           B == {n \in Nat : ~\E h : Ok(h, n)}
<1>1. \A s \in SUBSET S : IsFiniteSet(s) /\ Cardinality(s) \in Nat
    BY FS_Subset, FS_CardinalityType
<1>2. B = {}
  <2> SUFFICES ASSUME B # {}
               PROVE  FALSE
      OBVIOUS
  <2>1. PICK n \in B : \A k \in B : ~(<<k, n>> \in OpToRel(<, Nat))
    <3> HIDE DEF B
    <3>1. B \subseteq Nat
        BY DEF B
    <3> QED BY <3>1, NatLessThanWellFounded, WFMin
  <2>2. n # 0
    <3> SUFFICES ASSUME n = 0
                 PROVE  FALSE
        OBVIOUS
    <3>1. Small(0) = {{}}
        BY <1>1, FS_EmptySet
    <3>2. Ok([s \in {{}} |-> 0], 0)
        BY <3>1
    <3> QED BY <3>2
  <2>3. PICK h : Ok(h, n - 1)
    <3>1. n - 1 \in Nat /\ <<n - 1, n>> \in OpToRel(<, Nat)
        BY <2>2 DEF OpToRel
    <3> QED BY <2>1, <3>1
  <2> DEFINE k == [s \in Small(n) |->
                     IF s = {} THEN 0
                     ELSE f[CHOOSE x \in s : TRUE] + h[s \ {CHOOSE x \in s : TRUE}]]
  <2>4. \A s \in Small(n - 1) : s \in Small(n) /\ k[s] = h[s]
    <3> TAKE s \in Small(n - 1)
    <3>1. s \in Small(n)
        BY <1>1
    <3>2. k[s] = IF s = {} THEN 0
                 ELSE f[CHOOSE x \in s : TRUE] + h[s \ {CHOOSE x \in s : TRUE}]
        BY <3>1, Zenon
    <3>3. h[s] = IF s = {} THEN 0
                 ELSE f[CHOOSE x \in s : TRUE] + h[s \ {CHOOSE x \in s : TRUE}]
        BY <2>3, Zenon
    <3> QED BY <3>1, <3>2, <3>3
  <2>5. \A s \in Small(n) : s # {} => s \ {CHOOSE x \in s : TRUE} \in Small(n - 1)
    <3> SUFFICES ASSUME NEW s \in Small(n), s # {}, NEW x \in s
                 PROVE  s \ {x} \in Small(n - 1)
        OBVIOUS
    <3> QED BY <1>1, FS_RemoveElement
  <2>6. \A s \in Small(n) :
          k[s] = IF s = {} THEN 0
                 ELSE f[CHOOSE x \in s : TRUE] + k[s \ {CHOOSE x \in s : TRUE}]
    <3> TAKE s \in Small(n)
    <3>1. k[s] = IF s = {} THEN 0
                 ELSE f[CHOOSE x \in s : TRUE] + h[s \ {CHOOSE x \in s : TRUE}]
        BY Zenon
    <3>2. s # {} => k[s \ {CHOOSE x \in s : TRUE}] = h[s \ {CHOOSE x \in s : TRUE}]
      <4> HIDE DEF k, Small
      <4> QED BY <2>4, <2>5, Zenon
    <3> HIDE DEF k
    <3> QED BY <3>1, <3>2
  <2>7. Ok(k, n)
    <3>1. k = [s \in Small(n) |-> k[s]]
        OBVIOUS
    <3> HIDE DEF k, Small
    <3> QED BY <3>1, <2>6, Zenon
  <2> QED BY <2>7
<1>3. Cardinality(S) \in Nat
    BY FS_CardinalityType
<1>4. PICK h : Ok(h, Cardinality(S))
    BY <1>2, <1>3
<1>5. Small(Cardinality(S)) = SUBSET S
    BY FS_Subset
<1> QED BY <1>4, <1>5, Zenon DEF Summed

-----------------------------------------------------------------------------

-----------------------------------------------------------------------------
(* What a classification comes to is an attempt, whatever the calls did.    *)
LEMMA AttemptsTyped ==
    ASSUME NEW b, NEW r, NEW policy
    PROVE  Attempts(b, r, policy) \subseteq ClassificationAttempt
<1>1. FreeAttempt \in ClassificationAttempt
    BY DEF FreeAttempt, Attempt, ClassificationAttempt
<1>2. \A counted \in BOOLEAN, tried \in BOOLEAN :
          Fallback(counted, tried, r) \subseteq ClassificationAttempt
  <2> SUFFICES ASSUME NEW counted \in BOOLEAN, NEW tried \in BOOLEAN
               PROVE  Fallback(counted, tried, r) \subseteq ClassificationAttempt
      OBVIOUS
  <2>1. /\ Attempt(FALSE, counted) \in ClassificationAttempt
        /\ Attempt(TRUE, counted) \in ClassificationAttempt
      BY DEF Attempt, ClassificationAttempt
  <2> QED BY <2>1, Zenon DEF Fallback
<1>3. \A tried \in BOOLEAN : ClassifyLlmUser(tried, r, policy) \subseteq ClassificationAttempt
  <2> Attempt(TRUE, TRUE) \in ClassificationAttempt
      BY DEF Attempt, ClassificationAttempt
  <2> QED BY <1>2, Zenon DEF ClassifyLlmUser
<1>4. \A tried \in BOOLEAN : ClassifyLlm(tried, r, policy) \subseteq ClassificationAttempt
    BY <1>1, <1>3, Zenon DEF ClassifyLlm
<1> QED BY <1>1, <1>4 DEF Attempts

(* So is what a run's call comes to.                                        *)
LEMMA OutcomesTyped ==
    ASSUME NEW b \in Backend \cup {"default"}, NEW kind \in Kind
    PROVE  OutcomesOf[b][kind] \subseteq ClassificationAttempt
<1>1. OutcomesOf[b][kind] = UNION { Attempts(b, r, p) : r \in Routing, p \in Policies(kind) }
    BY DEF OutcomesOf
<1> QED BY <1>1, AttemptsTyped

(* What the invariant says of one run by itself.                            *)
Sound(r) ==
    /\ r \in RunLocal
    /\ r.batch \subseteq r.touched \/ r.kind = "backfill"
    /\ r.tripped = (r.misses = Limit)
    /\ r.kind = "backfill" =>
          r.total = r.stored + r.left + Cardinality(r.batch) + Cardinality(r.todo)
    /\ r.kind \in {"outlook", "gmail"} => r.left = Cardinality(r.without)
    /\ Keeps(r) /\ MeetsOnce(r) /\ CallStands(r)

Held(r) == r.buffer + InHand(r)

Paying(r) == r.kind \in {"outlook", "pass"} /\ r.phase # "pages" /\ r.hand # Nothing

(* The invariant, run by run.                                               *)
LEMMA SoundRuns ==
    ASSUME IInv
    PROVE  run \in [Proc -> RunLocal] /\ \A p \in Proc : Sound(run[p])
BY DEF IInv, Inv, TypeOK, RunInv, EveryCandidateCounted, LeftIsExact, Sound

(* What a run holds of the count is a number.                               *)
LEMMA HeldTyped ==
    ASSUME NEW r \in RunLocal
    PROVE  Held(r) \in Nat /\ InHand(r) \in {0, 1}
BY DEF Held, InHand, Counted, RunLocal

(* Only one run moves: what has to be shown of it and of the tables.        *)
LEMMA RunMoves ==
    ASSUME IInv, NEW p \in Proc, NEW s, Sound(s), run' = [run EXCEPT ![p] = s],
           label' \in [Message -> Label], verified' \in [Sent -> BOOLEAN],
           usage' \in Nat, due' = due + (usage' - usage) + Held(s) - Held(run[p]),
           runs' \in 0 .. MaxRuns,
           Paying(s) => ~verified'[s.hand.m],
           \A q \in Proc \ {p} : Paying(run[q]) =>
              ~verified'[run[q].hand.m] /\ (Paying(s) => s.hand.m # run[q].hand.m)
    PROVE  IInv'
<1>1. /\ run \in [Proc -> RunLocal] /\ \A q \in Proc : Sound(run[q])
      /\ usage \in Nat /\ due \in Nat
    BY SoundRuns DEF IInv, Inv, TypeOK
<1>2. run' \in [Proc -> RunLocal] /\ \A q \in Proc : Sound(run'[q])
    BY <1>1 DEF Sound
<1>3. UsageConserved' /\ due' \in Nat
  <2> DEFINE f == [q \in Proc |-> Held(run[q])]
             g == [q \in Proc |-> Held(run'[q])]
  <2>1. /\ DOMAIN f = Proc /\ DOMAIN g = Proc /\ IsFiniteSet(Proc)
        /\ \A q \in Proc : f[q] \in Nat /\ g[q] \in Nat
      BY <1>1, <1>2, HeldTyped, RunsAssumption
  <2>2. \A q \in Proc \ {p} : g[q] = f[q]
      BY <1>1
  <2>3. f[p] = Held(run[p]) /\ g[p] = Held(s)
      BY <1>1
  <2>4. f = [q \in Proc |-> run[q].buffer + InHand(run[q])]
        /\ g = [q \in Proc |-> run'[q].buffer + InHand(run'[q])]
      BY DEF Held
  <2>5. due = usage + SumFunction(f)
      BY <2>4 DEF IInv, UsageConserved
  <2> HIDE DEF f, g
  <2>6. PICK h : Summed(h, f, Proc) /\ SumFunction(f) = h[Proc]
      BY <2>1, SumDefined, SumIs
  <2>7. PICK k : Summed(k, g, Proc) /\ SumFunction(g) = k[Proc]
      BY <2>1, SumDefined, SumIs
  <2>8. k[Proc] = h[Proc] + (g[p] - f[p])
      BY <2>1, <2>2, <2>6, <2>7, SumMoves
  <2>9. k[Proc] \in Nat /\ h[Proc] \in Nat
      BY <2>1, <2>6, <2>7, SumTyped
  <2>10. due' = usage' + SumFunction(g)
      BY <1>1, <2>1, <2>3, <2>5, <2>6, <2>7, <2>8, <2>9
  <2>11. due' \in Nat
      BY <2>7, <2>9, <2>10
  <2>12. UsageConserved'
      BY <2>4, <2>10 DEF UsageConserved
  <2> QED BY <2>11, <2>12
<1>4. TypeOK' /\ RunInv' /\ EveryCandidateCounted' /\ LeftIsExact'
    BY <1>2, <1>3 DEF TypeOK, RunInv, EveryCandidateCounted, LeftIsExact, Sound
<1>5. \A q \in Proc : run'[q] = IF q = p THEN s ELSE run[q]
    BY <1>1
<1>6. PaidOnlyUnverified'
    BY <1>5 DEF PaidOnlyUnverified, InPass, Paying
<1>7. PassesApart'
    BY <1>5 DEF IInv, PassesApart, InPass, Paying
<1> QED BY <1>3, <1>4, <1>6, <1>7 DEF IInv, Inv

(* A run counts a call's miss or success.                                   *)
CountsIt(r, s, m, miss) ==
    /\ s \in RunLocal
    /\ s.kind = r.kind /\ s.backend = r.backend /\ s.phase = r.phase
    /\ s.todo = r.todo /\ s.batch = r.batch /\ s.touched = r.touched
    /\ s.events = r.events /\ s.hand = r.hand /\ s.buffer = r.buffer
    /\ s.marked = r.marked /\ s.left = r.left /\ s.stored = r.stored
    /\ s.total = r.total
    /\ s.streak = s.misses /\ s.tripped = (s.misses = Limit)
    /\ s.without = IF miss /\ r.kind # "backfill" THEN r.without \cup {m} ELSE r.without
    /\ ~miss => ~s.tripped

(* A run that has not tripped keeps both counts of its misses in step.      *)
LEMMA Counts ==
    ASSUME NEW r \in RunLocal, r.tripped = FALSE, r.misses # Limit,
           r.streak = r.misses, NEW m \in Message, NEW miss \in BOOLEAN
    PROVE  CountsIt(r, Recorded(Noted(r, m, miss), miss), m, miss)
<1> DEFINE s == Recorded(Noted(r, m, miss), miss)
<1> HIDE DEF s
<1> SUFFICES CountsIt(r, s, m, miss)
    BY DEF s
<1> USE DEF CountsIt
<1> Limit \in Nat /\ Limit > 0
    BY LimitAssumption
<1> DEFINE n == Noted(r, m, miss)
<1>1. r.misses \in 0 .. Limit /\ r.misses < Limit
    BY DEF RunLocal
<1>2. /\ n \in RunLocal
      /\ n.kind = r.kind /\ n.backend = r.backend /\ n.phase = r.phase
      /\ n.todo = r.todo /\ n.batch = r.batch /\ n.touched = r.touched
      /\ n.events = r.events /\ n.hand = r.hand /\ n.buffer = r.buffer
      /\ n.marked = r.marked /\ n.left = r.left /\ n.stored = r.stored
      /\ n.total = r.total /\ n.misses = r.misses /\ n.tripped = r.tripped
      /\ n.streak = IF miss THEN r.misses + 1 ELSE 0
      /\ n.without = IF miss /\ r.kind # "backfill" THEN r.without \cup {m}
                     ELSE r.without
  <2>1. ~(r.streak >= Limit)
      BY <1>1
  <2>2. PICK j \in Nat : j = r.misses + 1
      BY <1>1
  <2>3. CASE miss /\ r.kind # "backfill"
    <3>1. n = [r EXCEPT !.streak = j, !.without = r.without \cup {m}]
        BY <2>2, <2>1, <2>3 DEF Noted, RunLocal
    <3> HIDE DEF n
    <3> QED BY <2>2, <2>3, <3>1 DEF RunLocal
  <2>4. CASE miss /\ r.kind = "backfill"
    <3>1. n = [r EXCEPT !.streak = j, !.without = r.without]
        BY <2>2, <2>1, <2>4 DEF Noted, RunLocal
    <3> HIDE DEF n
    <3> QED BY <2>2, <2>4, <3>1 DEF RunLocal
  <2>5. CASE ~miss
    <3>1. n = [r EXCEPT !.streak = 0, !.without = r.without]
        BY <2>1, <2>5 DEF Noted, RunLocal
    <3> HIDE DEF n
    <3> QED BY <1>1, <2>5, <3>1 DEF RunLocal
  <2> QED BY <2>3, <2>4, <2>5
<1> HIDE DEF n
<1>3. CASE ~miss
  <2>1. s = [n EXCEPT !.misses = 0]
      BY <1>2, <1>3 DEF Recorded, n, s
  <2> QED BY <1>2, <1>3, <2>1 DEF RunLocal
<1>4. CASE miss
  <2>1. PICK j \in 0 .. Limit : j = r.misses + 1
      BY <1>1
  <2> DEFINE full == (j = Limit)
  <2>2. s = [n EXCEPT !.misses = j, !.tripped = full]
    <3>1. (j >= Limit) = (j = Limit)
        BY <2>1
    <3> QED BY <1>2, <1>4, <2>1, <3>1 DEF Recorded, n, s
  <2>3. full \in BOOLEAN
      OBVIOUS
  <2>4. /\ s \in RunLocal
        /\ s.misses = j /\ s.tripped = full
        /\ s.kind = n.kind /\ s.backend = n.backend /\ s.phase = n.phase
        /\ s.todo = n.todo /\ s.batch = n.batch /\ s.touched = n.touched
        /\ s.events = n.events /\ s.hand = n.hand /\ s.buffer = n.buffer
        /\ s.marked = n.marked /\ s.left = n.left /\ s.stored = n.stored
        /\ s.total = n.total /\ s.streak = n.streak /\ s.without = n.without
    <3> HIDE DEF full
    <3> QED BY <1>2, <2>2, <2>3 DEF RunLocal
  <2> QED BY <1>2, <1>4, <2>1, <2>4
<1> QED BY <1>3, <1>4

(* A run moves that pays for no sent copy then.                             *)
LEMMA QuietMoves ==
    ASSUME IInv, NEW p \in Proc, NEW s, Sound(s), run' = [run EXCEPT ![p] = s],
           ~Paying(s), label' \in [Message -> Label], verified' = verified,
           usage' \in Nat, due' = due + (usage' - usage) + Held(s) - Held(run[p]),
           runs' \in 0 .. MaxRuns
    PROVE  IInv'
<1>1. verified \in [Sent -> BOOLEAN]
    BY DEF IInv, Inv, TypeOK
<1>2. \A q \in Proc : Paying(run[q]) => ~verified[run[q].hand.m]
    BY DEF IInv, Inv, PaidOnlyUnverified, InPass, Paying
<1> QED BY <1>1, <1>2, RunMoves

(* The tables after the writes that several actions share.                  *)
LEMMA UpsertTyped ==
    ASSUME NEW ms, label \in [Message -> Label]
    PROVE  Upserted(ms) \in [Message -> Label]
BY DEF Upserted, Label

(* What is flushed is in the table or off the books.                        *)
LEMMA FlushCounts ==
    ASSUME NEW n \in Nat, FlushesUsage(n), usage \in Nat, due \in Nat
    PROVE  usage' \in Nat /\ due' = due + (usage' - usage) - n
BY DEF FlushesUsage

(* The types of the tables.                                                 *)
LEMMA Tables ==
    ASSUME IInv
    PROVE  /\ label \in [Message -> Label] /\ verified \in [Sent -> BOOLEAN]
           /\ usage \in Nat /\ due \in Nat /\ runs \in 0 .. MaxRuns
BY DEF IInv, Inv, TypeOK

(* The locals of no run.                                                    *)
LEMMA IdleFields ==
    /\ Idle \in RunLocal
    /\ Idle.kind = "idle" /\ Idle.phase = "end" /\ Idle.hand = Nothing
    /\ Idle.todo = {} /\ Idle.batch = {} /\ Idle.touched = {} /\ Idle.events = 0
    /\ Idle.buffer = 0 /\ Idle.misses = 0 /\ Idle.tripped = FALSE /\ Idle.streak = 0
    /\ Idle.marked = {} /\ Idle.without = {} /\ Idle.left = 0 /\ Idle.stored = 0
<1>1. Idle \in RunLocal
    BY LimitAssumption, BoundAssumption DEF Idle, RunLocal
<1> QED BY <1>1 DEF Idle

(* A field that is a truth value, compared.                                 *)
LEMMA NotYet ==
    ASSUME NEW r, r.tripped = FALSE, r.misses # Limit
    PROVE  r.tripped = (r.misses = Limit)
<1>1. (r.misses = Limit) = FALSE
    OBVIOUS
<1> QED BY <1>1

(* An idle process is sound, holds nothing and pays for nothing.            *)
LEMMA IdleSound == Sound(Idle) /\ Held(Idle) = 0 /\ ~Paying(Idle)
<1>1. Limit # 0
    BY LimitAssumption
<1>2. Idle.tripped = (Idle.misses = Limit)
    BY <1>1, IdleFields, NotYet
<1> QED BY <1>2, IdleFields
        DEF Sound, Keeps, MeetsOnce, CallStands, Held, InHand, Paying

(* At first every process is idle and the sum is of zeros.                  *)
LEMMA InitIInv == Init => IInv
<1> SUFFICES ASSUME Init
             PROVE  IInv
    OBVIOUS
<1>1. run \in [Proc -> RunLocal] /\ \A p \in Proc : run[p] = Idle /\ Sound(run[p])
    BY IdleSound DEF Init, Sound
<1>2. TypeOK /\ RunInv /\ EveryCandidateCounted /\ LeftIsExact
    BY <1>1, BoundAssumption
       DEF Init, TypeOK, RunInv, EveryCandidateCounted, LeftIsExact, Sound, Label
<1>3. PaidOnlyUnverified /\ PassesApart
    BY <1>1, IdleFields DEF PaidOnlyUnverified, PassesApart
<1>4. UsageConserved
  <2> DEFINE f == [p \in Proc |-> run[p].buffer + InHand(run[p])]
  <2>1. DOMAIN f = Proc /\ \A p \in Proc : f[p] = 0
      BY <1>1, IdleFields DEF InHand
  <2> HIDE DEF f
  <2>2. PICK h : Summed(h, f, Proc) /\ SumFunction(f) = h[Proc]
      BY <2>1, RunsAssumption, SumDefined, SumIs
  <2>3. \A p \in Proc : f[p] \in {0}
      BY <2>1
  <2>4. h[Proc] = 0
      BY <2>1, <2>2, RunsAssumption, SumOfNothing
  <2> QED BY <2>2, <2>4 DEF UsageConserved, Init, f
<1> QED BY <1>2, <1>3, <1>4 DEF IInv, Inv

-----------------------------------------------------------------------------
(* A run starts with nothing in hand.                                       *)
LEMMA Starting ==
    ASSUME IInv, NEW p \in Proc, NEW kind, NEW with, Starts(p, kind, with),
           Sound([with EXCEPT !.kind = kind]),
           [with EXCEPT !.kind = kind].hand = Nothing,
           [with EXCEPT !.kind = kind].buffer = 0
    PROVE  IInv'
<1> DEFINE s == [with EXCEPT !.kind = kind]
<1>1. /\ Sound(s) /\ Held(s) = 0 /\ ~Paying(s) /\ Held(run[p]) = 0
      /\ run' = [run EXCEPT ![p] = s]
    BY IdleSound DEF Starts, Held, InHand, Paying
<1>2. runs' \in 0 .. MaxRuns
    BY Tables, BoundAssumption DEF Starts
<1>3. /\ label' \in [Message -> Label] /\ verified' = verified
      /\ usage' \in Nat /\ due' = due + (usage' - usage) + Held(s) - Held(run[p])
    BY <1>1, Tables DEF Starts
<1> HIDE DEF s
<1> QED BY <1>1, <1>2, <1>3, QuietMoves

(* All of them start so.                                                    *)
LEMMA AllStart ==
    ASSUME IInv, NEW p \in Proc,
           \/ StartBackfill(p) \/ StartOutlook(p) \/ StartGmail(p)
           \/ StartPass(p) \/ StartMessage(p)
    PROVE  IInv'
<1>1. /\ Idle \in RunLocal /\ Limit # 0 /\ IsFiniteSet({}) /\ Cardinality({}) = 0
      /\ Unverified \subseteq Sent /\ Unverified \subseteq Message
    BY IdleFields, LimitAssumption, FS_EmptySet, SentAssumption DEF Unverified
<1>2. ASSUME NEW b \in Backend, NEW ms \in SUBSET Message,
             Starts(p, "backfill", [Idle EXCEPT !.backend = b, !.todo = ms,
                                                !.total = Cardinality(ms)])
      PROVE  IInv'
  <2>1. PICK n \in Nat : n = Cardinality(ms)
      BY RunsAssumption, FS_Subset, FS_CardinalityType
  <2> DEFINE w == [Idle EXCEPT !.backend = b, !.todo = ms, !.total = n]
             s == [w EXCEPT !.kind = "backfill"]
  <2>2. "backfill" \in Kind
      BY <1>2 DEF Starts
  <2>3. /\ s \in RunLocal /\ s.kind = "backfill" /\ s.batch = {} /\ s.touched = {}
        /\ s.phase = "end" /\ s.misses = 0 /\ s.tripped = FALSE /\ s.streak = 0
        /\ s.todo = ms /\ s.total = n /\ s.left = 0 /\ s.stored = 0
        /\ s.hand = Nothing /\ s.buffer = 0
    <3>1. s = [Idle EXCEPT !.backend = b, !.todo = ms, !.total = n, !.kind = "backfill"]
        OBVIOUS
    <3>2. s \in RunLocal
        BY <2>1, <2>2, <3>1, IdleFields DEF RunLocal
    <3> QED BY <3>1, <3>2, IdleFields DEF RunLocal
  <2> HIDE DEF s
  <2>4. s.tripped = (s.misses = Limit)
      BY <1>1, <2>3, NotYet
  <2>5. Sound(s)
      BY <1>1, <2>1, <2>3, <2>4 DEF Sound, Keeps, MeetsOnce, CallStands
  <2>6. Starts(p, "backfill", w)
      BY <1>2, <2>1
  <2> HIDE DEF w
  <2> QED BY <2>3, <2>5, <2>6, Starting DEF s
<1>3. ASSUME NEW kind \in {"outlook", "gmail", "pass", "message"},
             NEW phase \in {"start", "pages", "end"}, NEW ms \in SUBSET Message,
             kind = "outlook" => phase = "start" /\ ms \subseteq Sent,
             kind = "gmail" => phase = "pages",
             kind = "pass" => phase = "end" /\ ms \subseteq Sent,
             kind = "message" => phase = "end",
             Starts(p, kind, [Idle EXCEPT !.phase = phase, !.todo = ms])
      PROVE  IInv'
  <2> DEFINE w == [Idle EXCEPT !.phase = phase, !.todo = ms]
             s == [w EXCEPT !.kind = kind]
  <2>1. kind \in Kind
      BY <1>3 DEF Starts
  <2>2. /\ s \in RunLocal /\ s.kind = kind /\ s.batch = {} /\ s.touched = {}
        /\ s.phase = phase /\ s.misses = 0 /\ s.tripped = FALSE /\ s.streak = 0
        /\ s.todo = ms /\ s.left = 0 /\ s.without = {} /\ s.marked = {}
        /\ s.hand = Nothing /\ s.buffer = 0
    <3>1. s = [Idle EXCEPT !.phase = phase, !.todo = ms, !.kind = kind]
        OBVIOUS
    <3> QED BY <2>1, <3>1, IdleFields DEF RunLocal
  <2> HIDE DEF s
  <2>3. s.tripped = (s.misses = Limit)
      BY <1>1, <2>2, NotYet
  <2>4. Sound(s)
      BY <1>1, <1>3, <2>2, <2>3 DEF Sound, Keeps, MeetsOnce, CallStands
  <2>5. Starts(p, kind, w)
      BY <1>3
  <2> HIDE DEF w
  <2> QED BY <2>2, <2>4, <2>5, Starting DEF s
<1>4. Idle = [Idle EXCEPT !.phase = "end"]
    BY IdleFields DEF RunLocal
<1>5. \A ms : [Idle EXCEPT !.todo = ms] = [Idle EXCEPT !.phase = "end", !.todo = ms]
    BY <1>4, Zenon
<1>6. CASE StartBackfill(p)
  <2>1. PICK b \in Backend, ms \in SUBSET Message :
          Starts(p, "backfill", [Idle EXCEPT !.backend = b, !.todo = ms,
                                             !.total = Cardinality(ms)])
      BY <1>6 DEF StartBackfill
  <2> QED BY <2>1, <1>2
<1>7. CASE StartOutlook(p)
    BY <1>1, <1>3, <1>7 DEF StartOutlook
<1>8. CASE StartGmail(p)
    BY <1>3, <1>8 DEF StartGmail
<1>9. CASE StartPass(p)
    BY <1>1, <1>3, <1>5, <1>9 DEF StartPass
<1>10. CASE StartMessage(p)
  <2>1. PICK m \in Message : Starts(p, "message", [Idle EXCEPT !.todo = {m}])
      BY <1>10 DEF StartMessage
  <2>2. Starts(p, "message", [Idle EXCEPT !.phase = "end", !.todo = {m}])
      BY <2>1, <1>5, Zenon
  <2>3. {m} \in SUBSET Message
      BY <2>1
  <2> QED BY <1>3, <2>2, <2>3
<1> QED BY <1>6, <1>7, <1>8, <1>9, <1>10

(* A backfill's turn: one call, counted and accounted for.                  *)
LEMMA BackfillTurning ==
    ASSUME IInv, NEW p \in Proc, BackfillTurns(p)
    PROVE  IInv'
<1>1. PICK m \in run[p].todo, a \in OutcomesOf[run[p].backend]["backfill"] :
         LET r == Recorded(Noted([run[p] EXCEPT !.todo = @ \ {m},
                                                !.buffer = @ + Counted(a)],
                                 m, Missed(a)),
                           Missed(a))
         IN  /\ run[p].kind = "backfill"
             /\ run' = [run EXCEPT ![p] =
                          IF Missed(a)
                          THEN [r EXCEPT !.left = @ + Unserved(r),
                                         !.todo = IF r.tripped THEN {} ELSE @]
                          ELSE [r EXCEPT !.batch = @ \cup {m}]]
             /\ due' = due + Counted(a)
             /\ UNCHANGED <<label, verified, usage, runs>>
    BY DEF BackfillTurns
<1> DEFINE b == [run[p] EXCEPT !.todo = @ \ {m}, !.buffer = @ + Counted(a)]
           r == Recorded(Noted(b, m, Missed(a)), Missed(a))
           s == IF Missed(a)
                THEN [r EXCEPT !.left = @ + Unserved(r),
                               !.todo = IF r.tripped THEN {} ELSE @]
                ELSE [r EXCEPT !.batch = @ \cup {m}]
<1>2. /\ Sound(run[p]) /\ run[p] \in RunLocal /\ run[p].kind = "backfill"
      /\ m \in Message /\ Counted(a) \in {0, 1} /\ Missed(a) \in BOOLEAN
      /\ run[p].todo \in SUBSET Message /\ run[p].batch \in SUBSET Message
    BY <1>1, SoundRuns DEF Sound, RunLocal, Counted, Missed
<1>3. PICK c \in Nat : c = run[p].buffer + Counted(a)
    BY <1>2 DEF RunLocal
<1>4. /\ b \in RunLocal
      /\ b.kind = "backfill" /\ b.backend = run[p].backend /\ b.phase = run[p].phase
      /\ b.todo = run[p].todo \ {m} /\ b.batch = run[p].batch
      /\ b.touched = run[p].touched /\ b.hand = run[p].hand /\ b.buffer = c
      /\ b.left = run[p].left /\ b.stored = run[p].stored /\ b.total = run[p].total
      /\ b.streak = run[p].streak /\ b.misses = run[p].misses
      /\ b.tripped = run[p].tripped
  <2>1. b = [run[p] EXCEPT !.todo = run[p].todo \ {m}, !.buffer = c]
      BY <1>2, <1>3 DEF RunLocal
  <2> HIDE DEF b
  <2> QED BY <1>2, <2>1 DEF RunLocal
<1>5. ~b.tripped /\ b.tripped = (b.misses = Limit) /\ b.streak = b.misses
    BY <1>1, <1>2, <1>4 DEF Sound, MeetsOnce, Keeps
<1> HIDE DEF b
<1>6. /\ r \in RunLocal
      /\ r.kind = "backfill" /\ r.backend = run[p].backend /\ r.phase = run[p].phase
      /\ r.todo = run[p].todo \ {m} /\ r.batch = run[p].batch
      /\ r.touched = run[p].touched /\ r.hand = run[p].hand /\ r.buffer = c
      /\ r.left = run[p].left /\ r.stored = run[p].stored /\ r.total = run[p].total
      /\ r.streak = r.misses /\ r.tripped = (r.misses = Limit)
      /\ ~Missed(a) => ~r.tripped
  <2>1. PICK miss \in BOOLEAN : miss = Missed(a)
      BY <1>2
  <2>2. r = Recorded(Noted(b, m, miss), miss)
      BY <2>1
  <2> HIDE DEF r
  <2>3. m \in Message /\ b \in RunLocal
      BY <1>2, <1>4
  <2>4. b.tripped = FALSE /\ b.misses # Limit /\ b.streak = b.misses
      BY <1>5, <2>3 DEF RunLocal
  <2>5. CountsIt(b, Recorded(Noted(b, m, miss), miss), m, miss)
      BY <2>3, <2>4, Counts, Zenon
  <2> QED BY <1>4, <2>1, <2>2, <2>5 DEF CountsIt
<1> HIDE DEF r
<1>7. /\ IsFiniteSet(run[p].todo) /\ IsFiniteSet(run[p].batch)
      /\ Cardinality(run[p].todo) \in Nat /\ Cardinality(run[p].batch) \in Nat
      /\ Cardinality(run[p].todo \ {m}) = Cardinality(run[p].todo) - 1
      /\ Cardinality(run[p].todo \ {m}) \in Nat
  <2>1. run[p].todo \subseteq Message /\ run[p].batch \subseteq Message /\ m \in run[p].todo
      BY <1>1, <1>2
  <2>2. IsFiniteSet(run[p].todo) /\ IsFiniteSet(run[p].batch)
      BY <2>1, RunsAssumption, FS_Subset
  <2>3. IsFiniteSet(run[p].todo \ {m})
        /\ Cardinality(run[p].todo \ {m}) = Cardinality(run[p].todo) - 1
      BY <2>1, <2>2, FS_RemoveElement
  <2> QED BY <2>2, <2>3, FS_CardinalityType
<1>8. ASSUME Missed(a)
      PROVE  /\ Sound(s) /\ s.kind = "backfill" /\ s.hand = run[p].hand
             /\ s.buffer = run[p].buffer + Counted(a)
  <2>1. PICK n \in Nat : n = run[p].left + Unserved(r)
      BY <1>2, <1>6, <1>7 DEF Unserved, RunLocal
  <2>2. PICK d \in SUBSET Message : d = IF r.tripped THEN {} ELSE run[p].todo \ {m}
      BY <1>2
  <2>3. s = [r EXCEPT !.left = n, !.todo = d]
      BY <1>6, <1>8, <2>1, <2>2 DEF RunLocal
  <2> HIDE DEF s
  <2>4. /\ s \in RunLocal /\ s.left = n /\ s.todo = d
        /\ s.kind = r.kind /\ s.backend = r.backend /\ s.phase = r.phase
        /\ s.batch = r.batch /\ s.touched = r.touched /\ s.hand = r.hand
        /\ s.buffer = r.buffer /\ s.stored = r.stored /\ s.total = r.total
        /\ s.streak = r.streak /\ s.misses = r.misses /\ s.tripped = r.tripped
      BY <1>6, <2>3 DEF RunLocal
  <2>5. s.total = s.stored + s.left + Cardinality(s.batch) + Cardinality(s.todo)
    <3>1. /\ run[p].left \in Nat /\ run[p].stored \in Nat /\ run[p].total \in Nat
          /\ run[p].total = run[p].stored + run[p].left + Cardinality(run[p].batch)
                            + Cardinality(run[p].todo)
        BY <1>2 DEF RunLocal, Sound
    <3>2. CASE r.tripped
        BY <1>6, <1>7, <2>1, <2>2, <2>4, <3>1, <3>2, FS_EmptySet DEF Unserved
    <3>3. CASE ~r.tripped
        BY <1>6, <1>7, <2>1, <2>2, <2>4, <3>1, <3>3 DEF Unserved
    <3> QED BY <3>2, <3>3
  <2>6. s.batch \cap s.todo = {} /\ (s.tripped => s.todo = {})
      BY <1>2, <1>6, <2>2, <2>4 DEF Sound, MeetsOnce
  <2>7. Sound(s)
    <3>1. Keeps(s) /\ MeetsOnce(s)
        BY <1>2, <1>6, <2>4, <2>6 DEF Sound, Keeps, MeetsOnce
    <3>2. CallStands(s)
        BY <1>2, <1>6, <2>4 DEF Sound, CallStands, Keeps
    <3> QED BY <1>6, <2>4, <2>5, <3>1, <3>2 DEF Sound
  <2> QED BY <1>3, <1>6, <2>4, <2>7
<1>9. ASSUME ~Missed(a)
      PROVE  /\ Sound(s) /\ s.kind = "backfill" /\ s.hand = run[p].hand
             /\ s.buffer = run[p].buffer + Counted(a)
  <2>1. s = [r EXCEPT !.batch = r.batch \cup {m}]
      BY <1>9
  <2> HIDE DEF s
  <2>2. /\ s \in RunLocal /\ s.left = r.left /\ s.todo = r.todo
        /\ s.kind = r.kind /\ s.backend = r.backend /\ s.phase = r.phase
        /\ s.batch = r.batch \cup {m} /\ s.touched = r.touched /\ s.hand = r.hand
        /\ s.buffer = r.buffer /\ s.stored = r.stored /\ s.total = r.total
        /\ s.streak = r.streak /\ s.misses = r.misses /\ s.tripped = r.tripped
      BY <1>2, <1>6, <2>1 DEF RunLocal
  <2>3. s.total = s.stored + s.left + Cardinality(s.batch) + Cardinality(s.todo)
    <3>1. /\ run[p].left \in Nat /\ run[p].stored \in Nat /\ run[p].total \in Nat
          /\ run[p].total = run[p].stored + run[p].left + Cardinality(run[p].batch)
                            + Cardinality(run[p].todo)
          /\ m \notin run[p].batch
        BY <1>1, <1>2 DEF RunLocal, Sound, MeetsOnce
    <3>2. Cardinality(run[p].batch \cup {m}) = Cardinality(run[p].batch) + 1
        BY <1>7, <3>1, FS_AddElement
    <3> QED BY <1>6, <1>7, <2>2, <3>1, <3>2
  <2>4. s.batch \cap s.todo = {} /\ (s.tripped => s.todo = {})
      BY <1>2, <1>6, <1>9, <2>2 DEF Sound, MeetsOnce
  <2>5. Sound(s)
    <3>1. Keeps(s) /\ MeetsOnce(s)
        BY <1>2, <1>6, <2>2, <2>4 DEF Sound, Keeps, MeetsOnce
    <3>2. CallStands(s)
        BY <1>2, <1>6, <2>2 DEF Sound, CallStands, Keeps
    <3> QED BY <1>6, <2>2, <2>3, <3>1, <3>2 DEF Sound
  <2> QED BY <1>3, <1>6, <2>2, <2>5
<1>10. /\ Sound(s) /\ s.kind = "backfill" /\ s.hand = run[p].hand
       /\ s.buffer = run[p].buffer + Counted(a)
    BY <1>8, <1>9
<1>11. run' = [run EXCEPT ![p] = s] /\ due' = due + Counted(a)
       /\ UNCHANGED <<label, verified, usage, runs>>
    BY <1>1 DEF r, b
<1> HIDE DEF s
<1>12. /\ ~Paying(s) /\ due' = due + (usage' - usage) + Held(s) - Held(run[p])
  <2>1. Held(run[p]) \in Nat /\ InHand(run[p]) \in Nat /\ run[p].buffer \in Nat
      BY <1>2, HeldTyped DEF RunLocal
  <2> QED BY <1>2, <1>10, <1>11, <2>1, Tables DEF Paying, Held, InHand
<1> QED BY <1>10, <1>11, <1>12, QuietMoves, Tables

(* A backfill stores its batch and flushes its usage.                       *)
LEMMA BackfillFlushing ==
    ASSUME IInv, NEW p \in Proc, BackfillFlushes(p)
    PROVE  IInv'
<1> DEFINE n == run[p].stored + Cardinality(run[p].batch)
           s == [run[p] EXCEPT !.stored = n, !.batch = {}, !.buffer = 0]
<1>1. /\ run[p].kind = "backfill" /\ label' = Upserted(run[p].batch)
      /\ FlushesUsage(run[p].buffer)
      /\ run' = [run EXCEPT ![p] = s] /\ UNCHANGED <<verified, runs>>
    BY Zenon DEF BackfillFlushes, Flushed
<1>2. /\ Sound(run[p]) /\ run[p] \in RunLocal /\ run[p].buffer \in Nat
      /\ run[p].stored \in Nat /\ run[p].batch \in SUBSET Message
      /\ run[p].left \in Nat /\ run[p].todo \in SUBSET Message
    BY SoundRuns DEF Sound, RunLocal
<1>3. /\ Cardinality(run[p].batch) \in Nat /\ Cardinality(run[p].todo) \in Nat
      /\ Cardinality({}) = 0 /\ n \in Nat
    BY <1>2, RunsAssumption, FS_Subset, FS_CardinalityType, FS_EmptySet
<1>4. /\ s \in RunLocal /\ s.kind = "backfill" /\ s.stored = n /\ s.batch = {}
      /\ s.buffer = 0 /\ s.backend = run[p].backend /\ s.phase = run[p].phase
      /\ s.todo = run[p].todo /\ s.hand = run[p].hand /\ s.touched = run[p].touched
      /\ s.left = run[p].left /\ s.total = run[p].total
      /\ s.streak = run[p].streak /\ s.misses = run[p].misses
      /\ s.tripped = run[p].tripped
  <2> HIDE DEF n
  <2>1. s \in RunLocal
      BY <1>2, <1>3 DEF RunLocal
  <2> QED BY <1>1, <1>2, <1>3, <2>1 DEF RunLocal
<1>5. Sound(s)
  <2>1. s.total = s.stored + s.left + Cardinality(s.batch) + Cardinality(s.todo)
    <3> HIDE DEF s
    <3> QED BY <1>1, <1>2, <1>3, <1>4 DEF Sound
  <2> HIDE DEF s
  <2>2. Keeps(s) /\ MeetsOnce(s) /\ CallStands(s)
      BY <1>1, <1>2, <1>4 DEF Sound, Keeps, MeetsOnce, CallStands
  <2> QED BY <1>2, <1>4, <2>1, <2>2 DEF Sound
<1> HIDE DEF s
<1>6. label' \in [Message -> Label] /\ verified' = verified /\ runs' \in 0 .. MaxRuns
    BY <1>1, <1>2, Tables, UpsertTyped
<1>7. usage' \in Nat /\ due' = due + (usage' - usage) - run[p].buffer
    BY <1>1, <1>2, Tables, FlushCounts
<1>8. ~Paying(s) /\ due' = due + (usage' - usage) + Held(s) - Held(run[p])
  <2>1. InHand(run[p]) \in Nat /\ InHand(s) = InHand(run[p])
      BY <1>2, <1>4, HeldTyped DEF InHand
  <2> QED BY <1>2, <1>4, <1>7, <2>1, Tables DEF Paying, Held
<1> QED BY <1>1, <1>5, <1>6, <1>7, <1>8, QuietMoves

(* A page commits.                                                          *)
LEMMA PageCommitting ==
    ASSUME IInv, NEW p \in Proc, PageCommits(p)
    PROVE  IInv'
<1> DEFINE s == [run[p] EXCEPT !.batch = {}, !.touched = {}, !.buffer = 0]
<1>1. /\ run[p].touched # {} /\ run[p].hand = Nothing
      /\ label' = Upserted(run[p].batch)
      /\ FlushesUsage(run[p].buffer)
      /\ run' = [run EXCEPT ![p] = s] /\ UNCHANGED <<verified, runs>>
    BY Zenon DEF PageCommits, Flushed
<1>2. Sound(run[p]) /\ run[p] \in RunLocal /\ run[p].buffer \in Nat
    BY SoundRuns DEF Sound, RunLocal
<1>3. /\ s \in RunLocal /\ s.kind = run[p].kind /\ s.stored = run[p].stored
      /\ s.batch = {} /\ s.touched = {}
      /\ s.buffer = 0 /\ s.backend = run[p].backend /\ s.phase = run[p].phase
      /\ s.todo = run[p].todo /\ s.hand = Nothing /\ s.marked = run[p].marked
      /\ s.left = run[p].left /\ s.total = run[p].total /\ s.without = run[p].without
      /\ s.streak = run[p].streak /\ s.misses = run[p].misses
      /\ s.tripped = run[p].tripped
    BY <1>1, <1>2 DEF RunLocal
<1>4. run[p].kind \in {"outlook", "gmail"}
    BY <1>1, <1>2 DEF Sound, Keeps
<1> HIDE DEF s
<1>5. Sound(s)
  <2>1. Keeps(s) /\ MeetsOnce(s) /\ CallStands(s)
      BY <1>2, <1>3, <1>4 DEF Sound, Keeps, MeetsOnce, CallStands
  <2> QED BY <1>2, <1>3, <1>4, <2>1 DEF Sound
<1>6. label' \in [Message -> Label] /\ verified' = verified /\ runs' \in 0 .. MaxRuns
    BY <1>1, Tables, UpsertTyped
<1>7. usage' \in Nat /\ due' = due + (usage' - usage) - run[p].buffer
    BY <1>1, <1>2, Tables, FlushCounts
<1>8. ~Paying(s) /\ due' = due + (usage' - usage) + Held(s) - Held(run[p])
    BY <1>1, <1>2, <1>3, <1>7, Tables DEF Paying, Held, InHand
<1> QED BY <1>1, <1>5, <1>6, <1>7, <1>8, QuietMoves

-----------------------------------------------------------------------------
(* What a run leaves unclassified it counts and, an Outlook ingest, marks.  *)
LEMMA LeftOut ==
    ASSUME NEW b \in RunLocal, Sound(b), b.hand = Nothing, NEW m \in Message,
           b.kind \in {"outlook", "gmail", "pass"},
           b.kind \in {"outlook", "gmail"} => m \notin b.without,
           b.kind = "gmail" => m \notin b.todo,
           NEW s \in RunLocal,
           s.kind = b.kind, s.phase = b.phase, s.todo = b.todo, s.batch = b.batch,
           s.touched = b.touched, s.hand = Nothing,
           s.streak = s.misses, s.tripped = (s.misses = Limit),
           s.left = b.left + 1, s.without = b.without \cup {m},
           s.marked = IF b.kind = "outlook" THEN b.marked \cup {m} ELSE b.marked
    PROVE  Sound(s)
<1>1. b.kind \in {"outlook", "gmail"} => s.left = Cardinality(s.without)
  <2> SUFFICES ASSUME b.kind \in {"outlook", "gmail"}
               PROVE  s.left = Cardinality(s.without)
      OBVIOUS
  <2>1. b.left = Cardinality(b.without) /\ b.without \in SUBSET Message
      BY DEF Sound, RunLocal
  <2> QED BY <2>1, RunsAssumption, FS_Subset, FS_AddElement
<1>2. Keeps(s) /\ MeetsOnce(s) /\ CallStands(s)
    BY DEF Sound, Keeps, MeetsOnce, CallStands
<1> QED BY <1>1, <1>2 DEF Sound

(* A message that the tripped breaker skips is left out like one asked in   *)
(* vain.                                                                    *)
LEMMA Skips ==
    ASSUME NEW b \in RunLocal, Sound(b), b.hand = Nothing, NEW m \in Message,
           b.kind \in {"outlook", "gmail", "pass"},
           b.kind \in {"outlook", "gmail"} => m \notin b.without,
           b.kind = "gmail" => m \notin b.todo
    PROVE  /\ Sound(Skipped(b, m)) /\ Skipped(b, m).hand = Nothing
           /\ Skipped(b, m).buffer = b.buffer
<1> DEFINE s == Skipped(b, m)
<1>1. PICK n \in Nat : n = b.left + 1
    BY DEF RunLocal
<1>2. PICK d \in SUBSET Message :
          d = IF b.kind = "outlook" THEN b.marked \cup {m} ELSE b.marked
    BY DEF RunLocal
<1>3. PICK w \in SUBSET Message : w = b.without \cup {m}
    BY DEF RunLocal
<1>4. s = [b EXCEPT !.left = n, !.without = w, !.marked = d]
    BY <1>1, <1>2, <1>3 DEF Skipped, Marked, RunLocal
<1> HIDE DEF s
<1>5. /\ s \in RunLocal /\ s.left = n /\ s.without = w /\ s.marked = d
      /\ s.kind = b.kind /\ s.phase = b.phase /\ s.todo = b.todo /\ s.batch = b.batch
      /\ s.touched = b.touched /\ s.hand = b.hand /\ s.buffer = b.buffer
      /\ s.streak = b.streak /\ s.misses = b.misses /\ s.tripped = b.tripped
    BY <1>4 DEF RunLocal
<1>6. s.streak = s.misses /\ s.tripped = (s.misses = Limit)
    BY <1>5 DEF Sound, Keeps
<1>7. Sound(s)
    BY <1>1, <1>2, <1>3, <1>5, <1>6, LeftOut
<1> QED BY <1>5, <1>7 DEF s

(* An ingest takes in what its call came to.                                *)
LEMMA TakesIn ==
    ASSUME NEW b \in RunLocal, Sound(b), b.hand = Nothing, NEW m \in Message,
           b.kind \in {"outlook", "gmail"}, ~b.tripped, m \notin b.without,
           b.kind = "gmail" => m \notin b.todo,
           NEW miss \in BOOLEAN, NEW r, r = Recorded(Noted(b, m, miss), miss),
           NEW s, s = IF miss THEN Marked([r EXCEPT !.left = @ + 1], m) ELSE r
    PROVE  /\ Sound(s) /\ s.hand = Nothing /\ s.buffer = b.buffer
           /\ s.batch = b.batch /\ s.touched = b.touched
           /\ s.kind = b.kind /\ s.phase = b.phase
<1>1. b.tripped = FALSE /\ b.misses # Limit /\ b.streak = b.misses
    BY DEF Sound, Keeps, RunLocal
<1>2. CountsIt(b, Recorded(Noted(b, m, miss), miss), m, miss)
    BY <1>1, Counts, Zenon
<1>3. CountsIt(b, r, m, miss)
    BY <1>2
<1>4. CASE miss
  <2>1. PICK n \in Nat : n = b.left + 1
      BY DEF RunLocal
  <2>2. PICK d \in SUBSET Message :
            d = IF b.kind = "outlook" THEN b.marked \cup {m} ELSE b.marked
      BY DEF RunLocal
  <2>3. /\ r \in RunLocal /\ r.left = b.left /\ r.kind = b.kind /\ r.marked = b.marked
        /\ r.streak = r.misses /\ r.tripped = (r.misses = Limit)
      BY <1>3, Zenon DEF CountsIt
  <2> DEFINE x == [r EXCEPT !.left = n]
  <2>4. s = Marked(x, m)
      BY <1>4, <2>3, <2>1
  <2>5. x.kind = b.kind /\ x.marked = b.marked
      BY <2>3 DEF RunLocal
  <2>6. s = [r EXCEPT !.left = n, !.marked = d]
    <3>1. CASE b.kind = "outlook"
        BY <2>2, <2>4, <2>5, <3>1 DEF Marked
    <3>2. CASE b.kind # "outlook"
      <4>1. x = [x EXCEPT !.marked = d]
          BY <2>3, <2>2, <2>5, <3>2 DEF RunLocal
      <4> HIDE DEF x
      <4>2. s = x
          BY <2>4, <2>5, <3>2 DEF Marked
      <4> QED BY <4>1, <4>2 DEF x
    <3> QED BY <3>1, <3>2
  <2>7. /\ s \in RunLocal /\ s.left = n /\ s.without = r.without /\ s.marked = d
        /\ s.kind = r.kind /\ s.phase = r.phase /\ s.todo = r.todo /\ s.batch = r.batch
        /\ s.touched = r.touched /\ s.hand = r.hand /\ s.buffer = r.buffer
        /\ s.streak = r.streak /\ s.misses = r.misses /\ s.tripped = r.tripped
    <3> DEFINE t == [r EXCEPT !.left = n, !.marked = d]
    <3> HIDE DEF t
    <3> SUFFICES /\ t \in RunLocal /\ t.left = n /\ t.without = r.without /\ t.marked = d
                 /\ t.kind = r.kind /\ t.phase = r.phase /\ t.todo = r.todo /\ t.batch = r.batch
                 /\ t.touched = r.touched /\ t.hand = r.hand /\ t.buffer = r.buffer
                 /\ t.streak = r.streak /\ t.misses = r.misses /\ t.tripped = r.tripped
        BY <2>6 DEF t
    <3>1. r \in RunLocal
        BY <2>3
    <3> DEFINE y == [r EXCEPT !.left = n]
    <3>2. /\ y \in RunLocal /\ y.left = n /\ y.without = r.without
          /\ y.kind = r.kind /\ y.phase = r.phase /\ y.todo = r.todo /\ y.batch = r.batch
          /\ y.touched = r.touched /\ y.hand = r.hand /\ y.buffer = r.buffer
          /\ y.streak = r.streak /\ y.misses = r.misses /\ y.tripped = r.tripped
        BY <3>1 DEF RunLocal
    <3>3. t = [y EXCEPT !.marked = d]
        BY DEF t
    <3> HIDE DEF y
    <3> QED BY <3>2, <3>3 DEF RunLocal
  <2>8. s.without = b.without \cup {m}
      BY <1>3, <1>4, <2>7 DEF CountsIt
  <2>9. s.streak = s.misses /\ s.tripped = (s.misses = Limit)
    <3>1. s.streak = r.streak /\ s.misses = r.misses /\ s.tripped = r.tripped
        BY <2>7
    <3> QED BY <2>3, <3>1, Zenon
  <2>10. /\ s.kind = b.kind /\ s.phase = b.phase /\ s.todo = b.todo /\ s.batch = b.batch
        /\ s.touched = b.touched /\ s.hand = Nothing /\ s.buffer = b.buffer
      BY <1>3, <2>7 DEF CountsIt
  <2>11. Sound(s)
    <3>1. /\ s.left = b.left + 1
          /\ s.marked = IF b.kind = "outlook" THEN b.marked \cup {m} ELSE b.marked
        BY <2>1, <2>2, <2>7
    <3> QED BY <2>7, <2>8, <2>9, <2>10, <3>1, LeftOut
  <2> QED BY <2>10, <2>11
<1>5. CASE ~miss
  <2>1. s = r
      BY <1>5
  <2>2. Keeps(s) /\ MeetsOnce(s) /\ CallStands(s)
      BY <1>3, <1>5, <2>1 DEF CountsIt, Sound, Keeps, MeetsOnce, CallStands
  <2>3. s.left = Cardinality(s.without)
      BY <1>3, <1>5, <2>1 DEF CountsIt, Sound
  <2> QED BY <1>3, <2>1, <2>2, <2>3 DEF Sound, CountsIt
<1> QED BY <1>4, <1>5

-----------------------------------------------------------------------------
(* The run asks for a message that it has not met and that nobody pays for. *)
LEMMA CallMade ==
    ASSUME IInv, NEW p \in Proc, NEW w \in RunLocal, NEW m \in Message, Asks(p, m, w),
           run[p].hand = Nothing, run[p].kind \in Kind, Sound(w), w.hand = Nothing,
           w.buffer = run[p].buffer, w.kind = run[p].kind,
           w.kind \in {"outlook", "gmail"} => ~w.tripped /\ m \notin w.without,
           w.kind = "outlook" => m \notin w.marked,
           w.kind = "gmail" => m \notin w.todo,
           w.phase = "pages" => m \in w.touched,
           w.kind \in {"outlook", "pass"} /\ w.phase # "pages" =>
              /\ m \in Sent /\ ~verified[m]
              /\ \A q \in Proc \ {p} : Paying(run[q]) => run[q].hand.m # m
    PROVE  IInv'
<1>1. PICK a \in OutcomesOf[run[p].backend][run[p].kind] :
         /\ run' = [run EXCEPT ![p] = [w EXCEPT !.hand = Hand(m, a)]]
         /\ due' = due + Counted(a)
         /\ UNCHANGED <<label, verified, usage, runs>>
    BY DEF Asks
<1>2. run[p] \in RunLocal /\ run[p].backend \in Backend \cup {"default"}
    BY SoundRuns DEF Sound, RunLocal
<1>3. a \in ClassificationAttempt
    BY <1>1, <1>2, OutcomesTyped
<1>4. PICK h \in [m : Message, a : ClassificationAttempt] : h = Hand(m, a)
    BY <1>3 DEF Hand
<1>5. h # Nothing /\ h.m = m /\ h.a = a /\ Counted(a) \in {0, 1}
    BY <1>4, NothingAssumption DEF Hand, Counted
<1> DEFINE s == [w EXCEPT !.hand = h]
<1>6. /\ s \in RunLocal /\ s.hand = h /\ s.buffer = w.buffer
      /\ s.kind = w.kind /\ s.phase = w.phase /\ s.todo = w.todo /\ s.batch = w.batch
      /\ s.touched = w.touched /\ s.marked = w.marked /\ s.without = w.without
      /\ s.left = w.left /\ s.stored = w.stored /\ s.total = w.total
      /\ s.streak = w.streak /\ s.misses = w.misses /\ s.tripped = w.tripped
    BY DEF RunLocal
<1>7. run' = [run EXCEPT ![p] = s]
    BY <1>1, <1>4
<1> HIDE DEF s
<1>8. Sound(s)
  <2>1. Keeps(s) /\ MeetsOnce(s)
      BY <1>6 DEF Sound, Keeps, MeetsOnce
  <2>2. CallStands(s)
      BY <1>5, <1>6 DEF CallStands
  <2>3. s.tripped = (s.misses = Limit)
    <3>1. w.tripped = (w.misses = Limit)
        BY DEF Sound
    <3> QED BY <1>6, <3>1, Zenon
  <2> QED BY <1>6, <2>1, <2>2, <2>3 DEF Sound
<1>9. due' = due + (usage' - usage) + Held(s) - Held(run[p])
  <2>1. w.buffer \in Nat
      BY DEF RunLocal
  <2> QED BY <1>1, <1>5, <1>6, <2>1, Tables DEF Held, InHand
<1>10. /\ Paying(s) => ~verified'[s.hand.m]
       /\ \A q \in Proc \ {p} : Paying(run[q]) =>
              ~verified'[run[q].hand.m] /\ (Paying(s) => s.hand.m # run[q].hand.m)
  <2>1. \A q \in Proc : Paying(run[q]) => ~verified[run[q].hand.m]
      BY DEF IInv, Inv, PaidOnlyUnverified, InPass, Paying
  <2> QED BY <1>1, <1>5, <1>6, <2>1 DEF Paying
<1>11. /\ label' \in [Message -> Label] /\ verified' \in [Sent -> BOOLEAN]
       /\ usage' \in Nat /\ runs' \in 0 .. MaxRuns
    BY <1>1, Tables
<1> QED BY <1>7, <1>8, <1>9, <1>10, <1>11, RunMoves

(* A pass makes a call: nobody else has the thread, and the copy is not     *)
(* verified.                                                                *)
LEMMA PassAsking ==
    ASSUME IInv, NEW p \in Proc, PassAsks(p)
    PROVE  IInv'
<1>1. PICK m \in run[p].todo :
        /\ InPass(p) /\ run[p].hand = Nothing
        /\ ~ThreadHeld(p, m)
        /\ NeedsCall(p, m)
        /\ Asks(p, m, [run[p] EXCEPT !.todo = @ \ {m}])
    BY DEF PassAsks
<1>2. /\ Sound(run[p]) /\ run[p] \in RunLocal /\ m \in Message /\ m \in Sent
      /\ run[p].kind \in {"outlook", "pass"} /\ run[p].phase # "pages"
    BY <1>1, SoundRuns DEF InPass, Sound, Keeps, RunLocal
<1> DEFINE w == [run[p] EXCEPT !.todo = @ \ {m}]
<1>3. /\ w \in RunLocal /\ w.hand = Nothing /\ w.buffer = run[p].buffer
      /\ w.kind = run[p].kind /\ w.phase = run[p].phase /\ w.todo = run[p].todo \ {m}
      /\ w.batch = run[p].batch /\ w.left = run[p].left
      /\ w.touched = run[p].touched /\ w.marked = run[p].marked
      /\ w.without = run[p].without
      /\ w.streak = run[p].streak /\ w.misses = run[p].misses
      /\ w.tripped = run[p].tripped
    BY <1>1, <1>2 DEF RunLocal
<1>4. Asks(p, m, w)
    BY <1>1
<1> HIDE DEF w
<1>5. Sound(w)
    BY <1>2, <1>3 DEF Sound, Keeps, MeetsOnce, CallStands
<1>6. ~verified[m] /\ ~run[p].tripped /\ m \notin run[p].marked
    BY <1>1 DEF NeedsCall
<1>7. \A q \in Proc \ {p} : Paying(run[q]) => run[q].hand.m # m
    BY <1>1 DEF ThreadHeld, InPass, Paying
<1>8. m \notin w.marked /\ (w.kind = "outlook" => m \notin w.without)
    BY <1>2, <1>3, <1>6 DEF Sound, MeetsOnce
<1>9. run[p].kind \in Kind
    BY <1>2 DEF RunLocal
<1> QED BY <1>1, <1>2, <1>3, <1>4, <1>5, <1>6, <1>7, <1>8, <1>9, CallMade

(* A task for one message makes its call.                                   *)
LEMMA MessageAsking ==
    ASSUME IInv, NEW p \in Proc, MessageAsks(p)
    PROVE  IInv'
<1>1. PICK m \in run[p].todo : Asks(p, m, [run[p] EXCEPT !.todo = {}])
    BY DEF MessageAsks
<1>2. /\ Sound(run[p]) /\ run[p] \in RunLocal /\ m \in Message
      /\ run[p].kind = "message" /\ run[p].hand = Nothing /\ run[p].kind \in Kind
    BY <1>1, SoundRuns DEF MessageAsks, Sound, RunLocal
<1> DEFINE w == [run[p] EXCEPT !.todo = {}]
<1>3. /\ w \in RunLocal /\ w.hand = Nothing /\ w.buffer = run[p].buffer
      /\ w.kind = run[p].kind /\ w.phase = run[p].phase /\ w.todo = {}
      /\ w.batch = run[p].batch
      /\ w.touched = run[p].touched /\ w.marked = run[p].marked
      /\ w.without = run[p].without
      /\ w.streak = run[p].streak /\ w.misses = run[p].misses
      /\ w.tripped = run[p].tripped
    BY <1>2 DEF RunLocal
<1>4. Asks(p, m, w)
    BY <1>1
<1> HIDE DEF w
<1>5. Sound(w) /\ w.phase # "pages"
    BY <1>2, <1>3 DEF Sound, Keeps, MeetsOnce, CallStands
<1> QED BY <1>2, <1>3, <1>4, <1>5, CallMade

(* A pass settles a copy without a call.                                    *)
LEMMA PassSettling ==
    ASSUME IInv, NEW p \in Proc, PassSettles(p)
    PROVE  IInv'
<1>1. PICK m \in run[p].todo, stamped \in BOOLEAN :
        LET r == [run[p] EXCEPT !.todo = @ \ {m}]
            asked == m \in r.marked
        IN  /\ InPass(p) /\ run[p].hand = Nothing
            /\ ~ThreadHeld(p, m)
            /\ ~NeedsCall(p, m)
            /\ verified' = [verified EXCEPT ![m] = @ \/ stamped]
            /\ run' = [run EXCEPT ![p] =
                         IF verified[m] \/ label[m] # "none" \/ asked
                         THEN r ELSE Skipped(r, m)]
            /\ UNCHANGED <<label, usage, runs, due>>
    BY Zenon DEF PassSettles
<1>2. /\ Sound(run[p]) /\ run[p] \in RunLocal /\ m \in Message /\ m \in Sent
      /\ run[p].kind \in {"outlook", "pass"} /\ run[p].hand = Nothing
    BY <1>1, SoundRuns DEF InPass, Sound, Keeps, RunLocal
<1> DEFINE r == [run[p] EXCEPT !.todo = @ \ {m}]
           s == IF verified[m] \/ label[m] # "none" \/ m \in r.marked
                THEN r ELSE Skipped(r, m)
<1>3. /\ r \in RunLocal /\ r.hand = Nothing /\ r.buffer = run[p].buffer
      /\ r.kind = run[p].kind /\ r.phase = run[p].phase /\ r.todo = run[p].todo \ {m}
      /\ r.batch = run[p].batch /\ r.left = run[p].left
      /\ r.touched = run[p].touched /\ r.marked = run[p].marked
      /\ r.without = run[p].without
      /\ r.streak = run[p].streak /\ r.misses = run[p].misses
      /\ r.tripped = run[p].tripped
    BY <1>2 DEF RunLocal
<1>4. run' = [run EXCEPT ![p] = s] /\ UNCHANGED <<label, usage, runs, due>>
    BY <1>1
<1> HIDE DEF r
<1>5. Sound(r)
    BY <1>2, <1>3 DEF Sound, Keeps, MeetsOnce, CallStands
<1>6. Sound(s) /\ s.hand = Nothing /\ s.buffer = run[p].buffer
  <2>1. CASE s = r
      BY <1>3, <1>5, <2>1
  <2>2. CASE s = Skipped(r, m) /\ m \notin r.marked
    <3>1. r.kind = "outlook" => m \notin r.without
        BY <1>5, <2>2 DEF Sound, MeetsOnce
    <3> QED BY <1>2, <1>3, <1>5, <2>2, <3>1, Skips
  <2> QED BY <2>1, <2>2
<1> HIDE DEF s
<1>7. ~Paying(s) /\ due' = due + (usage' - usage) + Held(s) - Held(run[p])
  <2>1. run[p].buffer \in Nat
      BY <1>2 DEF RunLocal
  <2> QED BY <1>2, <1>4, <1>6, <2>1, Tables DEF Paying, Held, InHand
<1>8. \A q \in Proc \ {p} : Paying(run[q]) => ~verified'[run[q].hand.m]
  <2>1. \A q \in Proc : Paying(run[q]) => ~verified[run[q].hand.m]
      BY DEF IInv, Inv, PaidOnlyUnverified, InPass, Paying
  <2>2. \A q \in Proc : Paying(run[q]) => run[q].hand.m \in Sent
      BY SoundRuns DEF Sound, CallStands, Paying
  <2>3. \A q \in Proc \ {p} : Paying(run[q]) => run[q].hand.m # m
      BY <1>1 DEF ThreadHeld, InPass, Paying
  <2>4. \A x \in Sent : x # m => verified'[x] = verified[x]
      BY <1>1, Tables
  <2> QED BY <2>1, <2>2, <2>3, <2>4
<1>9. /\ label' \in [Message -> Label] /\ verified' \in [Sent -> BOOLEAN]
      /\ usage' \in Nat /\ runs' \in 0 .. MaxRuns
    BY <1>1, <1>4, Tables
<1> QED BY <1>4, <1>6, <1>7, <1>8, <1>9, RunMoves

(* A pass takes in an answer.                                               *)
LEMMA PassTaking ==
    ASSUME IInv, NEW p \in Proc, PassTakes(p)
    PROVE  IInv'
<1> DEFINE a == run[p].hand.a
           m == run[p].hand.m
           b == [run[p] EXCEPT !.hand = Nothing]
           r == Recorded(Noted(b, m, Missed(a)), Missed(a))
           t == IF Missed(a) THEN Marked([r EXCEPT !.left = @ + 1], m) ELSE r
           s == IF r.kind = "outlook" THEN t ELSE b
<1>1. /\ InPass(p) /\ run[p].hand # Nothing
      /\ run' = [run EXCEPT ![p] = s]
      /\ \/ /\ verified' = [verified EXCEPT ![m] = TRUE]
            /\ label' = IF Missed(a) THEN label ELSE Upserted({m})
            /\ FlushesUsage(Counted(a))
         \/ /\ due' = due - Counted(a)
            /\ UNCHANGED <<verified, label, usage>>
      /\ UNCHANGED runs
    BY Zenon DEF PassTakes
<1>2. /\ Sound(run[p]) /\ run[p] \in RunLocal /\ m \in Message /\ m \in Sent
      /\ run[p].kind \in {"outlook", "pass"} /\ run[p].phase # "pages"
      /\ Counted(a) \in {0, 1} /\ Missed(a) \in BOOLEAN /\ run[p].buffer \in Nat
    BY <1>1, SoundRuns DEF InPass, Sound, CallStands, RunLocal, Counted, Missed
<1>3. /\ b \in RunLocal /\ b.hand = Nothing /\ b.buffer = run[p].buffer
      /\ b.kind = run[p].kind /\ b.phase = run[p].phase /\ b.todo = run[p].todo
      /\ b.batch = run[p].batch /\ b.left = run[p].left
      /\ b.touched = run[p].touched /\ b.marked = run[p].marked
      /\ b.without = run[p].without
      /\ b.streak = run[p].streak /\ b.misses = run[p].misses
      /\ b.tripped = run[p].tripped
    BY <1>2 DEF RunLocal
<1> HIDE DEF b
<1>4. Sound(b)
    BY <1>2, <1>3 DEF Sound, Keeps, MeetsOnce, CallStands
<1> HIDE DEF m, a
<1>5. Sound(s) /\ s.hand = Nothing /\ s.buffer = run[p].buffer
  <2>1. r.kind = b.kind
      BY DEF Recorded, Noted
  <2>2. CASE b.kind = "outlook"
    <3>1. PICK miss \in BOOLEAN : miss = Missed(a)
        BY <1>2
    <3>2. r = Recorded(Noted(b, m, miss), miss)
        BY <3>1
    <3>3. t = IF miss THEN Marked([r EXCEPT !.left = @ + 1], m) ELSE r
        BY <3>1
    <3> HIDE DEF r, t
    <3>4. ~b.tripped /\ m \notin b.without
        BY <1>1, <1>2, <1>3, <2>2 DEF Sound, CallStands, m
    <3>5. Sound(t) /\ t.hand = Nothing /\ t.buffer = b.buffer
        BY <1>2, <1>3, <1>4, <2>2, <3>2, <3>3, <3>4, TakesIn
    <3> QED BY <1>3, <2>1, <2>2, <3>5
  <2>3. CASE b.kind # "outlook"
      BY <1>3, <1>4, <2>1, <2>3
  <2> QED BY <2>2, <2>3
<1> HIDE DEF s
<1>6. /\ label' \in [Message -> Label] /\ verified' \in [Sent -> BOOLEAN]
      /\ runs' \in 0 .. MaxRuns
    BY <1>1, <1>2, Tables, UpsertTyped
<1>7. usage' \in Nat /\ due' = due + (usage' - usage) - Counted(a)
    BY <1>1, <1>2, Tables, FlushCounts
<1>8. ~Paying(s) /\ due' = due + (usage' - usage) + Held(s) - Held(run[p])
    BY <1>1, <1>2, <1>5, <1>7, Tables DEF Paying, Held, InHand, a
<1>9. \A q \in Proc \ {p} : Paying(run[q]) => ~verified'[run[q].hand.m]
  <2>1. \A q \in Proc : Paying(run[q]) => ~verified[run[q].hand.m]
      BY DEF IInv, Inv, PaidOnlyUnverified, InPass, Paying
  <2>2. \A q \in Proc : Paying(run[q]) => run[q].hand.m \in Sent
      BY SoundRuns DEF Sound, CallStands, Paying
  <2>3. \A q \in Proc \ {p} : Paying(run[q]) => run[q].hand.m # m
      BY <1>1 DEF IInv, PassesApart, InPass, Paying, m
  <2>4. \A x \in Sent : x # m => verified'[x] = verified[x]
      BY <1>1, Tables
  <2> QED BY <2>1, <2>2, <2>3, <2>4
<1> QED BY <1>1, <1>5, <1>6, <1>7, <1>8, <1>9, RunMoves

(* A page takes in an answer.                                               *)
LEMMA PageTaking ==
    ASSUME IInv, NEW p \in Proc, PageTakes(p)
    PROVE  IInv'
<1> DEFINE a == run[p].hand.a
           m == run[p].hand.m
           b == [run[p] EXCEPT !.hand = Nothing, !.buffer = @ + Counted(a)]
           r == Recorded(Noted(b, m, Missed(a)), Missed(a))
           s == IF Missed(a) THEN Marked([r EXCEPT !.left = @ + 1], m)
                ELSE [r EXCEPT !.batch = @ \cup {m}]
<1>1. /\ run[p].phase = "pages" /\ run[p].hand # Nothing
      /\ run' = [run EXCEPT ![p] = s]
      /\ UNCHANGED <<label, verified, usage, runs, due>>
    BY Zenon DEF PageTakes
<1>2. /\ Sound(run[p]) /\ run[p] \in RunLocal /\ m \in Message
      /\ run[p].kind \in {"outlook", "gmail"}
      /\ Counted(a) \in {0, 1} /\ Missed(a) \in BOOLEAN /\ run[p].buffer \in Nat
    BY <1>1, SoundRuns DEF Sound, Keeps, RunLocal, Counted, Missed
<1>3. PICK c \in Nat : c = run[p].buffer + Counted(a)
    BY <1>2
<1>4. /\ b \in RunLocal /\ b.hand = Nothing /\ b.buffer = c
      /\ b.kind = run[p].kind /\ b.phase = run[p].phase /\ b.todo = run[p].todo
      /\ b.batch = run[p].batch /\ b.left = run[p].left
      /\ b.touched = run[p].touched /\ b.marked = run[p].marked
      /\ b.without = run[p].without
      /\ b.streak = run[p].streak /\ b.misses = run[p].misses
      /\ b.tripped = run[p].tripped
  <2>1. b = [run[p] EXCEPT !.hand = Nothing, !.buffer = c]
      BY <1>2, <1>3 DEF RunLocal
  <2> HIDE DEF b
  <2> QED BY <1>2, <2>1 DEF RunLocal
<1> HIDE DEF b
<1>5. Sound(b)
    BY <1>2, <1>4 DEF Sound, Keeps, MeetsOnce, CallStands
<1>6. /\ ~b.tripped /\ m \notin b.without /\ m \in b.touched
      /\ (b.kind = "gmail" => m \notin b.todo)
    BY <1>1, <1>2, <1>4 DEF Sound, CallStands, m
<1> DEFINE t == IF Missed(a) THEN Marked([r EXCEPT !.left = @ + 1], m) ELSE r
<1> HIDE DEF m, a
<1>7. /\ Sound(t) /\ t.hand = Nothing /\ t.buffer = b.buffer
      /\ t.batch = b.batch /\ t.touched = b.touched
      /\ t.kind = b.kind /\ t.phase = b.phase
  <2>1. PICK miss \in BOOLEAN : miss = Missed(a)
      BY <1>2
  <2>2. r = Recorded(Noted(b, m, miss), miss)
      BY <2>1
  <2>3. t = IF miss THEN Marked([r EXCEPT !.left = @ + 1], m) ELSE r
      BY <2>1
  <2> HIDE DEF r, t
  <2> QED BY <1>2, <1>4, <1>5, <1>6, <2>2, <2>3, TakesIn
<1>8. Sound(s) /\ s.hand = Nothing /\ s.buffer = c /\ s.phase = "pages"
  <2>1. CASE Missed(a)
    <3>1. s = t
        BY <2>1
    <3> HIDE DEF s, t
    <3> QED BY <1>1, <1>4, <1>7, <3>1
  <2>2. CASE ~Missed(a)
    <3>1. t = r
        BY <2>2
    <3> HIDE DEF r, t
    <3> DEFINE d == t.batch \cup {m}
    <3>2. s = [t EXCEPT !.batch = d]
        BY <2>2, <3>1
    <3>3. t \in RunLocal /\ d \in SUBSET Message
        BY <1>2, <1>7 DEF Sound, RunLocal
    <3> HIDE DEF d, s
    <3>4. /\ s \in RunLocal /\ s.hand = t.hand /\ s.buffer = t.buffer /\ s.batch = d
          /\ s.kind = t.kind /\ s.phase = t.phase /\ s.todo = t.todo
          /\ s.left = t.left
          /\ s.touched = t.touched /\ s.marked = t.marked
          /\ s.without = t.without
          /\ s.streak = t.streak /\ s.misses = t.misses
          /\ s.tripped = t.tripped
        BY <3>2, <3>3 DEF RunLocal
    <3>5. d \subseteq s.touched
        BY <1>2, <1>4, <1>5, <1>6, <1>7, <3>4 DEF Sound, d
    <3>6. Keeps(s) /\ MeetsOnce(s) /\ CallStands(s)
        BY <1>2, <1>4, <1>7, <3>4 DEF Sound, Keeps, MeetsOnce, CallStands
    <3>7. Sound(s)
        BY <1>2, <1>4, <1>7, <3>4, <3>5, <3>6 DEF Sound
    <3> QED BY <1>1, <1>4, <1>7, <3>4, <3>7
  <2> QED BY <2>1, <2>2
<1> HIDE DEF s
<1>9. ~Paying(s) /\ due' = due + (usage' - usage) + Held(s) - Held(run[p])
    BY <1>1, <1>2, <1>3, <1>8, Tables DEF Paying, Held, InHand, a
<1> QED BY <1>1, <1>8, <1>9, QuietMoves, Tables

(* A page's message is known, skipped or asked for.                         *)
LEMMA Delivering ==
    ASSUME IInv, NEW p \in Proc, Delivers(p)
    PROVE  IInv'
<1>1. PICK m \in Delivered(p) :
        LET r == [run[p] EXCEPT !.touched = @ \cup {m}, !.todo = @ \ {m},
                                !.events = IF @ < MaxEvents THEN @ + 1 ELSE @]
            known == label[m] # "none" \/ m \in r.batch \/ m \in r.marked
        IN  /\ run[p].kind \in {"outlook", "gmail"} /\ run[p].phase = "pages"
            /\ run[p].hand = Nothing
            /\ run[p].kind = "gmail" \/ run[p].events < MaxEvents
            /\ ~ThreadHeld(p, m)
            /\ \/ /\ known \/ r.tripped
                  /\ run' = [run EXCEPT ![p] = IF known THEN r ELSE Skipped(r, m)]
                  /\ UNCHANGED <<label, verified, usage, runs, due>>
               \/ /\ ~known /\ ~r.tripped
                  /\ Asks(p, m, r)
    BY Zenon DEF Delivers
<1> DEFINE r == [run[p] EXCEPT !.touched = @ \cup {m}, !.todo = @ \ {m},
                               !.events = IF @ < MaxEvents THEN @ + 1 ELSE @]
           known == label[m] # "none" \/ m \in r.batch \/ m \in r.marked
<1>2. /\ Sound(run[p]) /\ run[p] \in RunLocal /\ m \in Message
      /\ run[p].kind \in {"outlook", "gmail"} /\ run[p].phase = "pages"
      /\ run[p].hand = Nothing /\ run[p].kind \in Kind
      /\ (run[p].kind = "gmail" => m \in run[p].todo)
    BY <1>1, SoundRuns DEF Delivered, Sound, RunLocal
<1>3. PICK e \in 0 .. MaxEvents :
          e = IF run[p].events < MaxEvents THEN run[p].events + 1 ELSE run[p].events
    BY <1>2, BoundAssumption DEF RunLocal
<1>4. PICK d \in SUBSET Message : d = run[p].touched \cup {m}
    BY <1>2 DEF RunLocal
<1>5. /\ r \in RunLocal /\ r.hand = Nothing /\ r.buffer = run[p].buffer
      /\ r.kind = run[p].kind /\ r.phase = run[p].phase /\ r.todo = run[p].todo \ {m}
      /\ r.batch = run[p].batch /\ r.left = run[p].left
      /\ r.touched = d /\ r.marked = run[p].marked
      /\ r.without = run[p].without
      /\ r.streak = run[p].streak /\ r.misses = run[p].misses
      /\ r.tripped = run[p].tripped
  <2>1. PICK u \in SUBSET Message : u = run[p].todo \ {m}
      BY <1>2 DEF RunLocal
  <2>2. r = [run[p] EXCEPT !.touched = d, !.todo = u, !.events = e]
      BY <1>2, <1>3, <1>4, <2>1 DEF RunLocal
  <2> HIDE DEF r
  <2> QED BY <1>2, <2>1, <2>2 DEF RunLocal
<1>6. \/ /\ known \/ r.tripped
         /\ run' = [run EXCEPT ![p] = IF known THEN r ELSE Skipped(r, m)]
         /\ UNCHANGED <<label, verified, usage, runs, due>>
      \/ /\ ~known /\ ~r.tripped
         /\ Asks(p, m, r)
    BY <1>1, Zenon
<1> HIDE DEF r
<1>7. Sound(r)
    BY <1>2, <1>4, <1>5 DEF Sound, Keeps, MeetsOnce, CallStands
<1>8. ~known => m \notin r.without /\ m \notin r.marked
    BY <1>2, <1>5 DEF Sound, MeetsOnce
<1>9. CASE Asks(p, m, r) /\ ~known /\ ~r.tripped
  <2>1. m \in r.touched /\ m \notin r.todo
      BY <1>4, <1>5
  <2> QED BY <1>2, <1>5, <1>7, <1>8, <1>9, <2>1, CallMade
<1>10. CASE /\ run' = [run EXCEPT ![p] = IF known THEN r ELSE Skipped(r, m)]
            /\ UNCHANGED <<label, verified, usage, runs, due>>
  <2> DEFINE s == IF known THEN r ELSE Skipped(r, m)
  <2>1. Sound(s) /\ s.hand = Nothing /\ s.buffer = run[p].buffer
    <3>1. CASE known
        BY <1>5, <1>7, <3>1
    <3>2. CASE ~known
      <4>1. m \notin r.todo /\ m \notin r.without
          BY <1>5, <1>8, <3>2
      <4>2. Sound(Skipped(r, m)) /\ Skipped(r, m).hand = Nothing
            /\ Skipped(r, m).buffer = r.buffer
          BY <1>2, <1>5, <1>7, <4>1, Skips
      <4> QED BY <1>5, <3>2, <4>2
    <3> QED BY <3>1, <3>2
  <2>2. run' = [run EXCEPT ![p] = s]
      BY <1>10
  <2> HIDE DEF s, known
  <2>3. ~Paying(s) /\ due' = due + (usage' - usage) + Held(s) - Held(run[p])
    <3>1. run[p].buffer \in Nat
        BY <1>2 DEF RunLocal
    <3> QED BY <1>2, <1>10, <2>1, <3>1, Tables DEF Paying, Held, InHand
  <2> QED BY <1>10, <2>1, <2>2, <2>3, QuietMoves, Tables
<1> QED BY <1>6, <1>9, <1>10

(* An Outlook ingest goes on to its next phase.                             *)
LEMMA Advancing ==
    ASSUME IInv, NEW p \in Proc, Advances(p)
    PROVE  IInv'
<1> DEFINE s == NextPhase(run[p])
<1>1. /\ run[p].kind = "outlook" /\ run[p].hand = Nothing /\ run[p].todo = {}
      /\ run[p].touched = {} /\ run' = [run EXCEPT ![p] = s]
      /\ UNCHANGED <<label, verified, usage, runs, due>>
    BY DEF Advances
<1>2. Sound(run[p]) /\ run[p] \in RunLocal /\ run[p].buffer \in Nat
    BY SoundRuns DEF Sound, RunLocal
<1>3. Unverified \in SUBSET Message /\ Unverified \subseteq Sent
    BY SentAssumption DEF Unverified
<1>4. /\ s \in RunLocal /\ s.hand = Nothing /\ s.buffer = run[p].buffer
      /\ s.kind = "outlook" /\ s.todo \subseteq Sent
      /\ s.batch = run[p].batch /\ s.left = run[p].left
      /\ s.touched = run[p].touched /\ s.marked = run[p].marked
      /\ s.without = run[p].without
      /\ s.streak = run[p].streak /\ s.misses = run[p].misses
      /\ s.tripped = run[p].tripped
  <2>1. CASE run[p].phase = "start"
    <3>1. s = [run[p] EXCEPT !.phase = "pages"]
        BY <2>1 DEF NextPhase
    <3> HIDE DEF s
    <3> QED BY <1>1, <1>2, <3>1 DEF RunLocal
  <2>2. CASE run[p].phase # "start"
    <3>1. PICK u \in SUBSET Message : u = Unverified
        BY <1>3
    <3>2. s = [run[p] EXCEPT !.phase = "end", !.todo = u]
        BY <2>2, <3>1 DEF NextPhase
    <3> HIDE DEF s
    <3> QED BY <1>1, <1>2, <1>3, <3>1, <3>2 DEF RunLocal
  <2> QED BY <2>1, <2>2
<1> HIDE DEF s
<1>5. Sound(s)
    BY <1>1, <1>2, <1>4 DEF Sound, Keeps, MeetsOnce, CallStands
<1>6. ~Paying(s) /\ due' = due + (usage' - usage) + Held(s) - Held(run[p])
    BY <1>1, <1>2, <1>4, Tables DEF Paying, Held, InHand
<1> QED BY <1>1, <1>5, <1>6, QuietMoves, Tables

(* A task for one message takes in its answer.                              *)
LEMMA MessageTaking ==
    ASSUME IInv, NEW p \in Proc, MessageTakes(p)
    PROVE  IInv'
<1> DEFINE a == run[p].hand.a
           m == run[p].hand.m
           s == [run[p] EXCEPT !.hand = Nothing]
<1>1. /\ run[p].kind = "message" /\ run[p].hand # Nothing
      /\ label' = IF Missed(a) THEN label ELSE Upserted({m})
      /\ FlushesUsage(Counted(a))
      /\ run' = [run EXCEPT ![p].hand = Nothing] /\ UNCHANGED <<verified, runs>>
    BY DEF MessageTakes
<1>2. /\ Sound(run[p]) /\ run[p] \in RunLocal /\ run[p].buffer \in Nat
      /\ Counted(a) \in {0, 1}
    BY SoundRuns DEF Sound, RunLocal, Counted
<1>3. /\ s \in RunLocal /\ s.hand = Nothing /\ s.buffer = run[p].buffer
      /\ s.kind = "message" /\ s.phase = run[p].phase /\ s.todo = run[p].todo
      /\ s.batch = run[p].batch /\ s.left = run[p].left
      /\ s.touched = run[p].touched /\ s.marked = run[p].marked
      /\ s.without = run[p].without
      /\ s.streak = run[p].streak /\ s.misses = run[p].misses
      /\ s.tripped = run[p].tripped
    BY <1>1, <1>2 DEF RunLocal
<1>4. run' = [run EXCEPT ![p] = s]
    BY <1>1
<1> HIDE DEF s
<1>5. Sound(s)
    BY <1>1, <1>2, <1>3 DEF Sound, Keeps, MeetsOnce, CallStands
<1>6. label' \in [Message -> Label] /\ verified' = verified /\ runs' \in 0 .. MaxRuns
    BY <1>1, Tables, UpsertTyped
<1>7. usage' \in Nat /\ due' = due + (usage' - usage) - Counted(a)
    BY <1>1, <1>2, Tables, FlushCounts
<1>8. ~Paying(s) /\ due' = due + (usage' - usage) + Held(s) - Held(run[p])
    BY <1>1, <1>2, <1>3, <1>7, Tables DEF Paying, Held, InHand
<1> QED BY <1>4, <1>5, <1>6, <1>7, <1>8, QuietMoves

(* A run ends or dies: what it held is off the books.                       *)
LEMMA Ending ==
    ASSUME IInv, NEW p \in Proc, Finishes(p) \/ Dies(p)
    PROVE  IInv'
<1>1. /\ run' = [run EXCEPT ![p] = Idle] /\ due' = due - Held(run[p])
      /\ UNCHANGED <<label, verified, usage, runs>>
  <2>1. Held(run[p]) \in Nat /\ run[p].buffer \in Nat
      BY SoundRuns, HeldTyped DEF Sound, RunLocal
  <2>2. CASE Finishes(p)
      BY <2>1, <2>2, Tables DEF Finishes, Held, InHand
  <2>3. CASE Dies(p)
    <3>1. InHand(run[p]) \in {0, 1}
        BY SoundRuns, HeldTyped
    <3> QED BY <2>1, <2>3, <3>1, Tables DEF Dies, Held
  <2> QED BY <2>2, <2>3
<1>2. Held(run[p]) \in Nat
    BY SoundRuns, HeldTyped
<1>3. due' = due + (usage' - usage) + Held(Idle) - Held(run[p])
    BY <1>1, <1>2, Tables, IdleSound
<1> QED BY <1>1, <1>3, IdleSound, QuietMoves, Tables

(* The operator's step moves no run.                                        *)
LEMMA Overriding ==
    ASSUME IInv, NEW m \in Message, Override(m)
    PROVE  IInv'
<1>1. label' \in [Message -> Label] /\ UNCHANGED <<verified, usage, run, runs, due>>
    BY Tables DEF Override, Label
<1> QED BY <1>1 DEF IInv, Inv, TypeOK, PaidOnlyUnverified, EveryCandidateCounted,
                   LeftIsExact, RunInv, PassesApart, UsageConserved, InPass

(* A step of none of the variables.                                         *)
LEMMA StutterIInv == IInv /\ UNCHANGED vars => IInv'
BY DEF vars, IInv, Inv, TypeOK, PaidOnlyUnverified, EveryCandidateCounted,
       LeftIsExact, RunInv, PassesApart, UsageConserved, InPass

(* The steps.                                                               *)
LEMMA NextIInv == IInv /\ [Next]_vars => IInv'
<1> SUFFICES ASSUME IInv, [Next]_vars
             PROVE  IInv'
    OBVIOUS
<1>1. ASSUME NEW p \in Proc, Backfills(p)
      PROVE  IInv'
    BY <1>1, AllStart, BackfillTurning, BackfillFlushing DEF Backfills
<1>2. ASSUME NEW p \in Proc, Passes(p)
      PROVE  IInv'
    BY <1>2, AllStart, PassSettling, PassAsking, PassTaking DEF Passes
<1>3. ASSUME NEW p \in Proc, Ingests(p)
      PROVE  IInv'
    BY <1>3, AllStart, Delivering, PageTaking, PageCommitting, Advancing DEF Ingests
<1>4. ASSUME NEW p \in Proc, Messages(p)
      PROVE  IInv'
    BY <1>4, AllStart, MessageAsking, MessageTaking DEF Messages
<1>5. ASSUME NEW p \in Proc, Finishes(p) \/ Dies(p)
      PROVE  IInv'
    BY <1>5, Ending
<1>6. ASSUME NEW m \in Message, Override(m)
      PROVE  IInv'
    BY <1>6, Overriding
<1>7. CASE UNCHANGED vars
    BY <1>7, StutterIInv
<1> QED BY <1>1, <1>2, <1>3, <1>4, <1>5, <1>6, <1>7 DEF Next

(* The tables, the runs and their count agree in every reachable state, for *)
(* any number of processes and messages.                                    *)
THEOREM Invariance == Spec => []IInv
<1> QED BY InitIInv, NextIInv, PTL DEF Spec

(* Every run accounts for each message it took on, once, and tells how many *)
(* it left; two passes never pay for one sent copy.                         *)
THEOREM RunsAreSound == Spec => []Inv
<1>1. IInv => Inv
    BY DEF IInv
<1> QED BY <1>1, Invariance, PTL

(* Every call a provider answered is counted once, or lost for good to a    *)
(* crash or a failed flush.                                                 *)
THEOREM UsageIsConserved == Spec => []UsageConserved
<1>1. IInv => UsageConserved
    BY DEF IInv
<1> QED BY <1>1, Invariance, PTL

(* No run calls once more after Limit calls in a row without a verdict.     *)
THEOREM StopsInTime == Spec => []StopsAfterStreak
<1>1. IInv => StopsAfterStreak
  <2> SUFFICES ASSUME IInv, NEW p \in Proc
               PROVE  run[p].streak <= Limit
      BY DEF StopsAfterStreak
  <2>1. run[p].streak = run[p].misses /\ run[p].misses \in 0 .. Limit
      BY SoundRuns DEF Sound, Keeps, RunLocal
  <2> QED BY <2>1, LimitAssumption
<1> QED BY <1>1, Invariance, PTL

(* No step of any run replaces an operator's label.                         *)
THEOREM OverrideIsKept == Spec => OverrideStays
<1>1. IInv /\ [Next]_vars => [\A m \in Message : label[m] = "user" => label'[m] = "user"]_label
  <2> SUFFICES ASSUME IInv, [Next]_vars, NEW m \in Message, label[m] = "user"
               PROVE  label'[m] = "user"
      OBVIOUS
  <2>1. \A ms : Upserted(ms)[m] = "user"
      BY DEF Upserted
  <2>2. \A x \in Message : Override(x) => label'[m] = "user"
      BY Tables DEF Override
  <2>3. ASSUME NEW p \in Proc, Backfills(p) \/ Passes(p) \/ Ingests(p) \/ Messages(p)
        PROVE  label' = label \/ \E ms : label' = Upserted(ms)
    <3>1. CASE Backfills(p)
        BY <3>1, Zenon DEF Backfills, StartBackfill, Starts, BackfillTurns, BackfillFlushes
    <3>2. CASE Passes(p)
        BY <3>2, Zenon DEF Passes, StartPass, Starts, PassSettles, PassAsks, Asks, PassTakes
    <3>3. CASE Ingests(p)
        BY <3>3, Zenon DEF Ingests, StartOutlook, StartGmail, Starts, Delivers, Asks,
                       PageTakes, PageCommits, Advances
    <3>4. CASE Messages(p)
        BY <3>4, Zenon DEF Messages, StartMessage, Starts, MessageAsks, Asks, MessageTakes
    <3> QED BY <2>3, <3>1, <3>2, <3>3, <3>4
  <2>4. ASSUME NEW p \in Proc, Finishes(p) \/ Dies(p)
        PROVE  label' = label
      BY <2>4 DEF Finishes, Dies
  <2> QED BY <2>1, <2>2, <2>3, <2>4 DEF Next, vars
<1> QED BY <1>1, Invariance, PTL DEF Spec, OverrideStays

-----------------------------------------------------------------------------
(* A run's own steps.                                                       *)
Own(p) ==
    \/ Backfills(p) \/ Passes(p) \/ Ingests(p) \/ Messages(p) \/ Finishes(p) \/ Dies(p)

(* A step moves no other run.                                               *)
LEMMA OthersStay ==
    ASSUME IInv, NEW p \in Proc, Own(p)
    PROVE  \A q \in Proc \ {p} : run'[q] = run[q]
<1> SUFFICES \E s : run' = [run EXCEPT ![p] = s]
    BY SoundRuns
<1>1. CASE Backfills(p)
  <2>1. CASE StartBackfill(p)
      BY <2>1, Zenon DEF StartBackfill, Starts
  <2>2. CASE BackfillTurns(p)
      BY <2>2, Zenon DEF BackfillTurns
  <2>3. CASE BackfillFlushes(p)
      BY <2>3, Zenon DEF BackfillFlushes
  <2> QED BY <1>1, <2>1, <2>2, <2>3 DEF Backfills
<1>2. CASE Passes(p)
  <2>1. CASE StartPass(p) \/ PassAsks(p)
      BY <2>1, Zenon DEF StartPass, Starts, PassAsks, Asks
  <2>2. CASE PassSettles(p)
      BY <2>2, Zenon DEF PassSettles
  <2>3. CASE PassTakes(p)
      BY <2>3, Zenon DEF PassTakes
  <2> QED BY <1>2, <2>1, <2>2, <2>3 DEF Passes
<1>3. CASE Ingests(p)
  <2>1. CASE StartOutlook(p) \/ StartGmail(p)
      BY <2>1, Zenon DEF StartOutlook, StartGmail, Starts
  <2>2. CASE Delivers(p)
      BY <2>2, Zenon DEF Delivers, Asks
  <2>3. CASE PageTakes(p) \/ PageCommits(p) \/ Advances(p)
      BY <2>3, Zenon DEF PageTakes, PageCommits, Advances
  <2> QED BY <1>3, <2>1, <2>2, <2>3 DEF Ingests
<1>4. CASE Messages(p)
  <2>1. CASE MessageTakes(p)
    <3>1. run' = [run EXCEPT ![p] = [run[p] EXCEPT !.hand = Nothing]]
        BY <2>1 DEF MessageTakes
    <3> QED BY <3>1
  <2>2. CASE StartMessage(p) \/ MessageAsks(p)
      BY <2>2, Zenon DEF StartMessage, Starts, MessageAsks, Asks
  <2> QED BY <1>4, <2>1, <2>2 DEF Messages
<1>5. CASE Finishes(p) \/ Dies(p)
    BY <1>5, Zenon DEF Finishes, Dies
<1> QED BY <1>1, <1>2, <1>3, <1>4, <1>5 DEF Own

(* An Outlook ingest that makes a call has not asked for the message.       *)
LEMMA OutlookAsks ==
    ASSUME IInv, NEW p \in Proc, Own(p), Asking(p), run[p].kind = "outlook"
    PROVE  run'[p].hand.m \notin run[p].marked
<1>1. /\ Sound(run[p]) /\ run[p] \in RunLocal /\ run[p].hand = Nothing
      /\ run'[p].hand # Nothing /\ Idle.hand = Nothing /\ Idle.kind = "idle"
      /\ DOMAIN run = Proc
    BY SoundRuns, IdleFields DEF Sound, Asking
<1>2. ASSUME NEW m, NEW w \in RunLocal, Asks(p, m, w)
      PROVE  run'[p].hand.m = m
  <2>1. PICK a \in OutcomesOf[run[p].backend][run[p].kind] :
           run' = [run EXCEPT ![p] = [w EXCEPT !.hand = Hand(m, a)]]
      BY <1>2 DEF Asks
  <2>2. run'[p] = [w EXCEPT !.hand = Hand(m, a)]
      BY <1>1, <2>1
  <2> QED BY <2>2 DEF RunLocal, Hand
<1>3. ASSUME NEW m, NEW w \in RunLocal, w.hand = Nothing
      PROVE  Skipped(w, m).hand = Nothing
    BY <1>3 DEF Skipped, Marked, RunLocal
<1>4. \A kind, with : ~Starts(p, kind, with)
    BY <1>1 DEF Starts
<1>5. CASE PassSettles(p)
  <2>1. PICK m \in run[p].todo :
          \/ run' = [run EXCEPT ![p] = [run[p] EXCEPT !.todo = @ \ {m}]]
          \/ run' = [run EXCEPT ![p] = Skipped([run[p] EXCEPT !.todo = @ \ {m}], m)]
      BY <1>5, Zenon DEF PassSettles
  <2> DEFINE w == [run[p] EXCEPT !.todo = @ \ {m}]
  <2>2. w \in RunLocal /\ w.hand = Nothing
      BY <1>1 DEF RunLocal
  <2>3. run'[p] = w \/ run'[p] = Skipped(w, m)
    <3> HIDE DEF w
    <3>1. run' = [run EXCEPT ![p] = w] \/ run' = [run EXCEPT ![p] = Skipped(w, m)]
        BY <2>1 DEF w
    <3> QED BY <1>1, <3>1
  <2> HIDE DEF w
  <2> QED BY <1>1, <1>3, <2>2, <2>3
<1>6. CASE PassAsks(p)
  <2>1. PICK m \in run[p].todo :
          NeedsCall(p, m) /\ Asks(p, m, [run[p] EXCEPT !.todo = @ \ {m}])
      BY <1>6 DEF PassAsks
  <2>2. [run[p] EXCEPT !.todo = @ \ {m}] \in RunLocal
      BY <1>1 DEF RunLocal
  <2> QED BY <1>2, <2>1, <2>2 DEF NeedsCall
<1>7. CASE Delivers(p)
  <2>1. PICK m \in Delivered(p) :
          LET r == [run[p] EXCEPT !.touched = @ \cup {m}, !.todo = @ \ {m},
                                  !.events = IF @ < MaxEvents THEN @ + 1 ELSE @]
          IN  \/ run' = [run EXCEPT ![p] = r]
              \/ run' = [run EXCEPT ![p] = Skipped(r, m)]
              \/ m \notin r.marked /\ Asks(p, m, r)
      BY <1>7, Zenon DEF Delivers
  <2>2. m \in Message
      BY <1>1, <2>1 DEF Delivered
  <2> DEFINE r == [run[p] EXCEPT !.touched = @ \cup {m}, !.todo = @ \ {m},
                                 !.events = IF @ < MaxEvents THEN @ + 1 ELSE @]
  <2>3. r \in RunLocal /\ r.hand = Nothing /\ r.marked = run[p].marked
    <3>1. PICK e \in 0 .. MaxEvents :
              e = IF run[p].events < MaxEvents THEN run[p].events + 1 ELSE run[p].events
        BY <1>1, BoundAssumption DEF RunLocal
    <3>2. PICK d \in SUBSET Message : d = run[p].touched \cup {m}
        BY <1>1, <2>2 DEF RunLocal
    <3>3. PICK u \in SUBSET Message : u = run[p].todo \ {m}
        BY <1>1 DEF RunLocal
    <3>4. r = [run[p] EXCEPT !.touched = d, !.todo = u, !.events = e]
        BY <1>1, <3>1, <3>2, <3>3 DEF RunLocal
    <3> HIDE DEF r
    <3> QED BY <1>1, <3>4 DEF RunLocal
  <2>4. \/ run' = [run EXCEPT ![p] = r] \/ run' = [run EXCEPT ![p] = Skipped(r, m)]
        \/ m \notin r.marked /\ Asks(p, m, r)
      BY <2>1
  <2> HIDE DEF r
  <2> QED BY <1>1, <1>2, <1>3, <2>3, <2>4
<1>8. CASE PageCommits(p)
  <2>1. run'[p] = [run[p] EXCEPT !.batch = {}, !.touched = {}, !.buffer = 0]
      BY <1>1, <1>8 DEF PageCommits, Flushed
  <2> QED BY <1>1, <2>1 DEF RunLocal
<1>9. CASE Advances(p)
  <2>1. run'[p] = NextPhase(run[p])
      BY <1>1, <1>9 DEF Advances
  <2> QED BY <1>1, <2>1 DEF NextPhase, RunLocal
<1>10. CASE Finishes(p) \/ Dies(p)
  <2>1. run'[p] = Idle
      BY <1>1, <1>10 DEF Finishes, Dies
  <2> QED BY <1>1, <2>1
<1>11. ~BackfillTurns(p) /\ ~BackfillFlushes(p) /\ ~MessageAsks(p) /\ ~MessageTakes(p)
    BY DEF BackfillTurns, BackfillFlushes, MessageAsks, MessageTakes
<1>12. ~PassTakes(p) /\ ~PageTakes(p)
    BY <1>1 DEF PassTakes, PageTakes
<1>13. /\ ~StartBackfill(p) /\ ~StartOutlook(p) /\ ~StartGmail(p)
       /\ ~StartPass(p) /\ ~StartMessage(p)
    BY <1>4 DEF StartBackfill, StartOutlook, StartGmail, StartPass, StartMessage
<1> QED BY <1>5, <1>6, <1>7, <1>8, <1>9, <1>10, <1>11, <1>12, <1>13
        DEF Own, Backfills, Passes, Ingests, Messages

(* An Outlook ingest never pays twice in one run for a message that came to *)
(* no verdict.                                                              *)
THEOREM AsksInVainOnce == Spec => AskedInVainOnce
<1>1. IInv /\ [Next]_vars =>
        [\A p \in Proc : Asking(p) /\ run[p].kind = "outlook"
            => run'[p].hand.m \notin run[p].without]_run
  <2> SUFFICES ASSUME IInv, [Next]_vars, NEW p \in Proc, Asking(p), run[p].kind = "outlook"
               PROVE  run'[p].hand.m \notin run[p].without
      OBVIOUS
  <2>1. PICK q \in Proc : Own(q)
      BY DEF Next, Asking, Override, vars, Own
  <2>2. q = p
      BY <2>1, OthersStay DEF Asking
  <2>3. run'[p].hand.m \notin run[p].marked
      BY <2>1, <2>2, OutlookAsks
  <2>4. run[p].without \subseteq run[p].marked
      BY SoundRuns DEF Sound, MeetsOnce
  <2> QED BY <2>3, <2>4
<1> QED BY <1>1, Invariance, PTL DEF Spec, AskedInVainOnce

-----------------------------------------------------------------------------
(* What a call of a policy's retries is computed from, try by try: c is     *)
(* defined from its k-th try on.                                            *)
Policy == [attempts : Nat \ {0}, budget : Nat, cap : Nat]

CallFrom(policy, c, k) ==
    c = [n \in k .. policy.attempts |->
           [left \in Int |-> TriesFrom(policy, n, left, c[n + 1])]]

(* The last try asks nothing of those after it.                             *)
LEMMA LastTry ==
    ASSUME NEW policy, NEW left, NEW x, NEW y
    PROVE  TriesFrom(policy, policy.attempts, left, x)
             = TriesFrom(policy, policy.attempts, left, y)
BY Zenon DEF TriesFrom

(* If such a definition exists, the call's result is what one of them       *)
(* gives.                                                                   *)
LEMMA CallIs ==
    ASSUME NEW policy, \E c : CallFrom(policy, c, 1)
    PROVE  \E c : CallFrom(policy, c, 1) /\ Calls(policy) = c[1][policy.budget]
<1> DEFINE it == CHOOSE c : CallFrom(policy, c, 1)
<1>1. CallFrom(policy, it, 1)
    BY Zenon
<1>2. Calls(policy) = it[1][policy.budget]
    BY Zenon DEF Calls, CallFrom
<1> QED BY <1>1, <1>2

(* Such a definition exists: the tries after the n-th are fewer.            *)
LEMMA CallDefined ==
    ASSUME NEW policy \in Policy
    PROVE  \E c : CallFrom(policy, c, 1)
<1> DEFINE A == policy.attempts
           B == {j \in 0 .. A - 1 : ~\E c : CallFrom(policy, c, A - j)}
<1>1. A \in Nat /\ A > 0
    BY DEF Policy
<1>2. B = {}
  <2> SUFFICES ASSUME B # {}
               PROVE  FALSE
      OBVIOUS
  <2>1. PICK j \in B : \A i \in B : ~(<<i, j>> \in OpToRel(<, Nat))
    <3>1. B \subseteq Nat
        BY <1>1
    <3> HIDE DEF B
    <3> QED BY <3>1, NatLessThanWellFounded, WFMin
  <2>2. j \in Nat /\ j < A /\ j \in 0 .. A - 1
    <3>1. B \subseteq 0 .. A - 1
        OBVIOUS
    <3> HIDE DEF A, B
    <3>2. j \in B
        BY <2>1, Zenon
    <3> QED BY <1>1, <3>1, <3>2
  <2> DEFINE k == A - j
  <2>3. k \in Nat /\ k > 0 /\ k <= A
      BY <1>1, <2>2
  <2>4. ASSUME NEW d,
               \A n \in k .. A : n # A =>
                   d[n + 1] = [left \in Int |-> TriesFrom(policy, n + 1, left, d[n + 2])],
               NEW c, c = [n \in k .. A |->
                             [left \in Int |-> TriesFrom(policy, n, left, d[n + 1])]]
        PROVE  CallFrom(policy, c, k)
    <3>1. ASSUME NEW n \in k .. A, NEW left \in Int
          PROVE  TriesFrom(policy, n, left, d[n + 1]) = TriesFrom(policy, n, left, c[n + 1])
      <4>1. CASE n = A
          BY <4>1, LastTry, Zenon
      <4>2. CASE n # A
        <5>1. n + 1 \in k .. A /\ (n + 1) + 1 = n + 2
            BY <1>1, <2>2, <4>2
        <5>2. c[n + 1] = [l \in Int |-> TriesFrom(policy, n + 1, l, d[(n + 1) + 1])]
            BY <2>4, <5>1, Zenon
        <5>3. c[n + 1] = d[n + 1]
            BY <2>4, <4>2, <5>1, <5>2
        <5> QED BY <5>3
      <4> QED BY <4>1, <4>2
    <3>2. \A n \in k .. A :
            [left \in Int |-> TriesFrom(policy, n, left, d[n + 1])]
              = [left \in Int |-> TriesFrom(policy, n, left, c[n + 1])]
        BY <3>1, Zenon
    <3>3. c = [n \in k .. A |-> [left \in Int |-> TriesFrom(policy, n, left, c[n + 1])]]
      <4> DEFINE g == [n \in k .. A |-> [left \in Int |-> TriesFrom(policy, n, left, c[n + 1])]]
      <4>1. DOMAIN c = k .. A /\ DOMAIN g = k .. A
          BY <2>4
      <4>2. \A n \in k .. A : c[n] = g[n]
          BY <2>4, <3>2, Zenon
      <4>3. c = [n \in k .. A |-> c[n]] /\ g = [n \in k .. A |-> g[n]]
          BY <2>4, Zenon
      <4> HIDE DEF g
      <4> QED BY <4>2, <4>3, Zenon DEF g
    <3> HIDE DEF k
    <3> QED BY <3>3, Zenon DEF CallFrom
  <2>5. \E d : \A n \in k .. A : n # A =>
          d[n + 1] = [left \in Int |-> TriesFrom(policy, n + 1, left, d[n + 2])]
    <3>1. CASE j = 0
      <4>1. \A n \in k .. A : n = A
          BY <1>1, <3>1
      <4> QED BY <4>1
    <3>2. CASE j # 0
      <4>1. j - 1 \in 0 .. A - 1 /\ <<j - 1, j>> \in OpToRel(<, Nat) /\ A - (j - 1) = k + 1
          BY <1>1, <2>2, <3>2 DEF OpToRel
      <4>2. PICK d : CallFrom(policy, d, A - (j - 1))
          BY <2>1, <4>1
      <4>3. d = [n \in k + 1 .. A |->
                   [left \in Int |-> TriesFrom(policy, n, left, d[n + 1])]]
          BY <4>1, <4>2, Zenon DEF CallFrom
      <4>4. ASSUME NEW n \in k .. A, n # A
            PROVE  d[n + 1] = [left \in Int |-> TriesFrom(policy, n + 1, left, d[n + 2])]
        <5>1. n + 1 \in k + 1 .. A /\ (n + 1) + 1 = n + 2
            BY <1>1, <2>3, <4>4
        <5>2. d[n + 1] = [left \in Int |-> TriesFrom(policy, n + 1, left, d[(n + 1) + 1])]
            BY <4>3, <5>1, Zenon
        <5> QED BY <5>1, <5>2
      <4> QED BY <4>4
    <3> QED BY <3>1, <3>2
  <2>6. PICK d : \A n \in k .. A : n # A =>
          d[n + 1] = [left \in Int |-> TriesFrom(policy, n + 1, left, d[n + 2])]
      BY <2>5
  <2> DEFINE c == [n \in k .. A |-> [left \in Int |-> TriesFrom(policy, n, left, d[n + 1])]]
  <2>7. CallFrom(policy, c, k)
    <3> HIDE DEF k
    <3> QED BY <2>4, <2>6
  <2> QED BY <2>1, <2>7
<1>3. A - 1 \in 0 .. A - 1 /\ A - (A - 1) = 1
    BY <1>1
<1>4. \E c : CallFrom(policy, c, A - (A - 1))
    BY <1>2, <1>3
<1> QED BY <1>3, <1>4

(* A try that may be repeated was not billed.                               *)
LEMMA TriesCost ==
    /\ \A t \in Tries : t.bills \in {0, 1} /\ t.asked \in Delays
    /\ \A t \in Tries : Retryable(t.category) => t.bills = 0
BY DEF Tries, Stopped, Refused, Unsent, Astray, Late, Answered, End, Delays, Retryable

(* A wait is a number of ticks.                                             *)
LEMMA WaitTyped ==
    ASSUME NEW policy \in Policy, NEW asked \in Delays, NEW n \in Nat \ {0}
    PROVE  Wait(asked, n, policy) \in Int
<1>1. RetryAfter \subseteq Nat /\ n - 1 \in Nat /\ policy.cap \in Int
    BY RetryAfterAssumption DEF Policy
<1>2. 2 ^ (n - 1) \in Int
    BY <1>1
<1> QED BY <1>1, <1>2 DEF Wait, Delays

(* A call bills once and waits within what is left of the budget.           *)
Cheap(r, left) ==
    /\ r = [category |-> r.category, bills |-> r.bills, waited |-> r.waited]
    /\ r.bills \in {0, 1}
    /\ r.waited \in Int /\ r.waited <= left

(* By the number of tries left: what comes after a wait fits in what the    *)
(* wait leaves of the budget, and what is retried was not billed.           *)
LEMMA CallsAreCheap ==
    ASSUME NEW policy \in Policy
    PROVE  \A r \in Calls(policy) : Cheap(r, policy.budget)
<1> DEFINE A == policy.attempts
<1>1. A \in Nat /\ A > 0 /\ policy.budget \in Nat
    BY DEF Policy
<1>2. PICK c : CallFrom(policy, c, 1) /\ Calls(policy) = c[1][policy.budget]
    BY CallDefined, CallIs
<1> DEFINE Ok(n) == \A left \in Nat : \A r \in c[n][left] : Cheap(r, left)
           B == {j \in 0 .. A - 1 : ~Ok(A - j)}
<1>3. B = {}
  <2> SUFFICES ASSUME B # {}
               PROVE  FALSE
      OBVIOUS
  <2>1. PICK j \in B : \A i \in B : ~(<<i, j>> \in OpToRel(<, Nat))
    <3>1. B \subseteq Nat
        BY <1>1
    <3> HIDE DEF B
    <3> QED BY <3>1, NatLessThanWellFounded, WFMin
  <2> DEFINE n == A - j
  <2>2. j \in Nat /\ j < A /\ n \in 1 .. A /\ n \in Nat \ {0}
    <3>1. B \subseteq 0 .. A - 1
        OBVIOUS
    <3> HIDE DEF A, B
    <3>2. j \in B
        BY <2>1, Zenon
    <3> QED BY <1>1, <3>1, <3>2
  <2>3. n # A => Ok(n + 1)
    <3> SUFFICES ASSUME n # A
                 PROVE  Ok(n + 1)
        OBVIOUS
    <3>1. j - 1 \in 0 .. A - 1 /\ <<j - 1, j>> \in OpToRel(<, Nat) /\ A - (j - 1) = n + 1
        BY <1>1, <2>2 DEF OpToRel
    <3>2. Ok(A - (j - 1))
      <4> HIDE DEF Ok
      <4> QED BY <2>1, <3>1
    <3> HIDE DEF n
    <3> QED BY <3>1, <3>2
  <2>4. Ok(n)
    <3> SUFFICES ASSUME NEW left \in Nat, NEW r \in c[n][left]
                 PROVE  Cheap(r, left)
        OBVIOUS
    <3>1. r \in TriesFrom(policy, n, left, c[n + 1])
      <4>1. left \in Int
          OBVIOUS
      <4>2. c[n] = [l \in Int |-> TriesFrom(policy, n, l, c[n + 1])]
        <5> HIDE DEF n
        <5> QED BY <1>2, <2>2, Zenon DEF CallFrom
      <4> HIDE DEF n
      <4> QED BY <4>1, <4>2
    <3> HIDE DEF n, Ok
    <3>2. PICK t \in Tries :
            \/ r = [category |-> t.category, bills |-> t.bills, waited |-> 0]
            \/ /\ n # A /\ Retryable(t.category)
               /\ ~TooLong(Wait(t.asked, n, policy), left)
               /\ \E q \in c[n + 1][left - Wait(t.asked, n, policy)] :
                    r = [q EXCEPT !.bills = @ + t.bills,
                                  !.waited = @ + Wait(t.asked, n, policy)]
        BY <3>1, Zenon DEF TriesFrom
    <3> DEFINE wait == Wait(t.asked, n, policy)
    <3>3. /\ t.bills \in {0, 1} /\ (Retryable(t.category) => t.bills = 0)
          /\ wait \in Int
        BY <2>2, TriesCost, WaitTyped
    <3>4. CASE r = [category |-> t.category, bills |-> t.bills, waited |-> 0]
        BY <3>3, <3>4 DEF Cheap
    <3>5. CASE /\ n # A /\ Retryable(t.category) /\ ~TooLong(wait, left)
               /\ \E q \in c[n + 1][left - wait] :
                    r = [q EXCEPT !.bills = @ + t.bills, !.waited = @ + wait]
      <4>1. PICK q \in c[n + 1][left - wait] :
              r = [q EXCEPT !.bills = @ + t.bills, !.waited = @ + wait]
          BY <3>5
      <4> HIDE DEF wait
      <4>2. left - wait \in Nat
          BY <3>3, <3>5 DEF TooLong
      <4>3. Cheap(q, left - wait)
          BY <2>3, <3>5, <4>1, <4>2 DEF Ok
      <4>4. PICK b \in {0, 1}, w \in Int :
              q = [category |-> q.category, bills |-> b, waited |-> w] /\ w <= left - wait
          BY <4>3 DEF Cheap
      <4>5. r = [category |-> q.category, bills |-> b + t.bills, waited |-> w + wait]
        <5>1. q.bills = b /\ q.waited = w
            BY <4>4
        <5>2. r = [q EXCEPT !.bills = b + t.bills, !.waited = w + wait]
            BY <4>1, <5>1
        <5>3. PICK cat : q = [category |-> cat, bills |-> b, waited |-> w]
            BY <4>4
        <5>4. r = [category |-> cat, bills |-> b + t.bills, waited |-> w + wait]
            BY <5>2, <5>3
        <5>5. q.category = cat
            BY <5>3
        <5> QED BY <5>4, <5>5
      <4>6. b + t.bills \in {0, 1} /\ w + wait \in Int /\ w + wait <= left
          BY <3>3, <3>5, <4>4
      <4> QED BY <4>5, <4>6 DEF Cheap
    <3> QED BY <3>2, <3>4, <3>5
  <2> QED BY <2>1, <2>4
<1>4. Ok(1)
  <2>1. A - 1 \in 0 .. A - 1 /\ A - (A - 1) = 1
      BY <1>1
  <2>2. Ok(A - (A - 1))
    <3> HIDE DEF Ok
    <3> QED BY <1>3, <2>1
  <2> HIDE DEF A
  <2> QED BY <2>1, <2>2
<1> QED BY <1>1, <1>2, <1>4

(* Whatever a provider answers to the tries of one logical call, it bills   *)
(* one of them at most and the waits fit the budget, under any policy.      *)
THEOREM RetriesCostLittle == Spec => []RetriesAreCheap
<1>1. RetriesAreCheap
  <2>1. ASSUME NEW kind, NEW policy \in Policies(kind), NEW call \in CallsUnder[policy]
        PROVE  call.bills <= 1 /\ call.waited <= policy.budget
    <3>1. policy \in {WorkerRetries, InlineRetries}
        BY DEF Policies
    <3>2. policy \in Policy
        BY <3>1, RetriesAssumption DEF Policy
    <3>3. CallsUnder[policy] = Calls(policy)
        BY <3>1 DEF CallsUnder
    <3>4. Cheap(call, policy.budget)
        BY <2>1, <3>2, <3>3, CallsAreCheap
    <3> QED BY <3>4 DEF Cheap
  <2> QED BY <2>1 DEF RetriesAreCheap, NeverBilledTwice, WaitsInBudget
<1> QED BY <1>1, PTL
================================================================================
