--------------------------- MODULE ExtractionProofs --------------------------
(****************************************************************************)
(* Proofs about Extraction, for any workers, caps and kinds of answer.      *)
(****************************************************************************)
EXTENDS Extraction, TLAPS

LEMMA InitIInv == Init => IInv
<1> SUFFICES ASSUME Init PROVE TypeOK /\ ClaimInv
    BY DEF IInv
<1>1. TypeOK
  <2>1. /\ outcome \in Outcome /\ kind \in Kind /\ status \in Status
        /\ fence \in {"null", "before", "covers"}
        /\ label \in {"none", "action", "other"}
        /\ labelBy \in {"none", "model", "user"}
        /\ ask \in {"none", "open", "done", "dismissed"}
      BY DEF Init, Outcome, Kind, Status
  <2>2. /\ phase \in [Worker -> Phase]
        /\ result \in [Worker -> Result \cup {"none"}]
      BY DEF Init, Phase
  <2>3. /\ replies \in SUBSET {"before", "covers"}
        /\ leftBy \in SUBSET {"model", "user"}
        /\ late \in SUBSET Worker
        /\ attempts \in 0 .. AttemptBound
      BY AttemptAssumption DEF Init
  <2> QED BY <2>1, <2>2, <2>3 DEF Init, TypeOK
<1>2. ClaimInv
    BY DEF Init, ClaimInv, Calling
<1> QED BY <1>1, <1>2

LEMMA StutterIInv == IInv /\ UNCHANGED vars => IInv'
  BY DEF vars, rowVars, threadVars, labelVars, workerVars, readVars, histVars,
         IInv, TypeOK, ClaimInv, Owns

-----------------------------------------------------------------------------
(* A worker, up to its claim.                                               *)

LEMMA SelectStep ==
    ASSUME IInv, NEW w \in Worker, NEW f \in BOOLEAN, Select(w, f)
    PROVE  IInv'
<1>1. TypeOK'
    BY DEF Select, IInv, TypeOK, Phase, rowVars, threadVars, labelVars,
           readVars, histVars
<1>2. ClaimInv'
    BY DEF Select, IInv, TypeOK, ClaimInv, Calling, Owns, rowVars, threadVars,
           labelVars, readVars, histVars
<1> QED BY <1>1, <1>2 DEF IInv

LEMMA HookStep ==
    ASSUME IInv, NEW w \in Worker, TakeHook(w)
    PROVE  IInv'
<1>1. TypeOK'
    BY DEF TakeHook, IInv, TypeOK, Phase, rowVars, threadVars, labelVars,
           readVars, histVars
<1>2. ClaimInv'
    BY DEF TakeHook, IInv, TypeOK, ClaimInv, Calling, Owns, rowVars,
           threadVars, labelVars, readVars, histVars
<1> QED BY <1>1, <1>2 DEF IInv

(* The worker whose claim is taken over is one that outlived its lease.     *)
LEMMA ClaimStep ==
    ASSUME IInv, NEW w \in Worker, Claim(w)
    PROVE  IInv'
<1> USE DEF IInv, TypeOK
<1>1. TypeOK'
  <2>1. /\ outcome' \in Outcome /\ token' \in Worker \cup {NoWorker}
        /\ status' \in Status /\ userOpen' \in BOOLEAN /\ again' \in BOOLEAN
      BY DEF Claim, NewStatus, DoneStamp, Outcome, Status
  <2>2. attempts' \in 0 .. AttemptBound
      BY AttemptAssumption DEF Claim
  <2>3. phase' \in [Worker -> Phase] /\ late' \in SUBSET Worker /\ lapsed' \in BOOLEAN
      BY DEF Claim, Phase
  <2>4. UNCHANGED <<kind, threadVars, labelVars, force, result, readVars, lock, hook,
                    ask, leftBy>>
      BY DEF Claim
  <2> QED BY <2>1, <2>2, <2>3, <2>4 DEF threadVars, labelVars, readVars
<1>2. \A v \in Worker : phase[v] \in Calling /\ v # w => v \in late
    BY DEF Claim, Claimable, ClaimInv, Owns, Calling
<1>3. ClaimInv'
    BY <1>2, NoWorkerAssumption, AttemptAssumption
       DEF Claim, NewStatus, DoneStamp, ClaimInv, Calling, Owns, Status,
           threadVars, labelVars, readVars
<1> QED BY <1>1, <1>3

(* A worker that leaves the message: what it has read no longer counts.     *)
LEMMA LeaveKeeps ==
    ASSUME TypeOK, ClaimInv, NEW w \in Worker, Leave(w)
    PROVE  /\ phase' \in [Worker -> Phase]
           /\ force' \in [Worker -> BOOLEAN]
           /\ result' \in [Worker -> Result \cup {"none"}]
           /\ readLabel' \in [Worker -> BOOLEAN]
           /\ readDone' \in [Worker -> BOOLEAN]
           /\ readReplied' \in [Worker -> BOOLEAN]
           /\ lock' \in Worker \cup {NoWorker}
           /\ phase'[w] = "idle"
           /\ \A v \in Worker \ {w} :
                 /\ phase'[v] = phase[v]
                 /\ result'[v] = result[v]
                 /\ readLabel'[v] = readLabel[v]
           /\ lock' # w
           /\ lock # w => lock' = lock
           /\ lock' # NoWorker => lock' = lock
  BY NoWorkerAssumption DEF Leave, Release, TypeOK, Phase

LEMMA SkipStep ==
    ASSUME IInv, NEW w \in Worker, Skip(w)
    PROVE  IInv'
<1> USE DEF IInv
<1>0. Leave(w)
    BY DEF Skip
<1>1. TypeOK'
    BY <1>0, LeaveKeeps
       DEF Skip, TypeOK, Outcome, threadVars, labelVars, histVars
<1>2. ClaimInv'
    BY <1>0, LeaveKeeps
       DEF Skip, Spent, TypeOK, ClaimInv, Calling, Owns, threadVars, labelVars,
           histVars
<1> QED BY <1>1, <1>2

LEMMA UnclaimedStep ==
    ASSUME IInv, NEW w \in Worker, LeaveUnclaimed(w)
    PROVE  IInv'
<1> USE DEF IInv
<1>0. Leave(w)
    BY DEF LeaveUnclaimed
<1>1. TypeOK'
    BY <1>0, LeaveKeeps
       DEF LeaveUnclaimed, TypeOK, rowVars, threadVars, labelVars, histVars
<1>2. ClaimInv'
    BY <1>0, LeaveKeeps
       DEF LeaveUnclaimed, TypeOK, ClaimInv, Calling, Owns, rowVars,
           threadVars, labelVars, histVars
<1> QED BY <1>1, <1>2

-----------------------------------------------------------------------------
(* A worker, from its call to its record.                                   *)

LEMMA ExtractStep ==
    ASSUME IInv, NEW w \in Worker, Extract(w)
    PROVE  IInv'
<1> USE DEF IInv, TypeOK
<1>1. TypeOK'
    BY DEF Extract, Phase, rowVars, threadVars, labelVars, readVars, histVars
<1>2. ClaimInv'
    BY DEF Extract, ClaimInv, Calling, Owns, rowVars, threadVars, labelVars,
           readVars, histVars
<1> QED BY <1>1, <1>2

LEMMA ReadLabelStep ==
    ASSUME IInv, NEW w \in Worker, ReadLabel(w)
    PROVE  IInv'
<1> USE DEF IInv, TypeOK
<1>1. TypeOK'
    BY DEF ReadLabel, Phase, rowVars, threadVars, labelVars, histVars
<1>2. ClaimInv'
    BY NoWorkerAssumption
       DEF ReadLabel, ClaimInv, Calling, Owns, rowVars, threadVars, labelVars,
           histVars
<1> QED BY <1>1, <1>2

LEMMA ReadThreadStep ==
    ASSUME IInv, NEW w \in Worker, ReadDone(w) \/ ReadReplied(w)
    PROVE  IInv'
<1> USE DEF IInv, TypeOK
<1>1. CASE ReadDone(w)
  <2>1. TypeOK'
      BY <1>1 DEF ReadDone, Phase, rowVars, threadVars, labelVars, histVars
  <2>2. ClaimInv'
      BY <1>1 DEF ReadDone, ClaimInv, Calling, Owns, rowVars, threadVars,
                  labelVars, histVars
  <2> QED BY <2>1, <2>2
<1>2. CASE ReadReplied(w)
  <2>1. TypeOK'
      BY <1>2 DEF ReadReplied, Phase, rowVars, threadVars, labelVars, histVars
  <2>2. ClaimInv'
      BY <1>2 DEF ReadReplied, ClaimInv, Calling, Owns, rowVars, threadVars,
                  labelVars, histVars
  <2> QED BY <2>1, <2>2
<1> QED BY <1>1, <1>2

LEMMA RecordStep ==
    ASSUME IInv, NEW w \in Worker, Record(w)
    PROVE  IInv'
<1> USE DEF IInv
<1>0. Leave(w) /\ phase[w] = "repliedRead"
    BY DEF Record
<1>1. result[w] \in {"reply", "other", "no_action", "failed"}
    BY <1>0, ResultAssumption DEF ClaimInv, Calling
<1>2. CASE RecordFence(w)
  <2>1. /\ outcome' \in {"extracted", "no_action", "failed", "ineligible"}
        /\ kind' \in Kind
        /\ token' = NoWorker
        /\ attempts' = attempts /\ ask' = ask
      BY <1>1, <1>2 DEF Record, Recorded, RecordedKind, TypeOK, Kind
  <2>2. /\ status' \in Status /\ userOpen' \in BOOLEAN
        /\ status' = "none" <=> status = "none"
      BY <1>2 DEF Record, NewStatus, DoneStamp, TypeOK, Status
  <2>3. leftBy' = {}
      BY <1>2 DEF Record
  <2>4. TypeOK'
    <3>1. /\ outcome' \in Outcome /\ leftBy' \in SUBSET {"model", "user"}
          /\ token' \in Worker \cup {NoWorker}
        BY <2>1, <2>3 DEF Outcome
    <3> QED BY <1>0, <2>1, <2>2, <3>1, LeaveKeeps
               DEF Record, TypeOK, threadVars, labelVars
  <2>5. ClaimInv'
      BY <1>0, <1>2, <2>1, <2>2, LeaveKeeps
         DEF Record, RecordFence, TypeOK, ClaimInv, Calling, Owns, threadVars,
             labelVars
  <2> QED BY <2>4, <2>5
<1>3. CASE ~RecordFence(w)
  <2>0. UNCHANGED <<rowVars, threadVars, labelVars, hook, ask, histVars>>
      BY <1>3 DEF Record, rowVars, histVars
  <2>1. TypeOK'
      BY <1>0, <2>0, LeaveKeeps
         DEF TypeOK, rowVars, threadVars, labelVars, histVars
  <2>2. ClaimInv'
      BY <1>0, <2>0, LeaveKeeps
         DEF TypeOK, ClaimInv, Calling, Owns, rowVars, threadVars, labelVars,
             histVars
  <2> QED BY <2>1, <2>2
<1> QED BY <1>2, <1>3

LEMMA FenceClaimStep ==
    ASSUME IInv, NEW w \in Worker, FenceClaim(w)
    PROVE  IInv'
<1> USE DEF IInv
<1>0. Leave(w)
    BY DEF FenceClaim
<1>1. TypeOK'
    BY <1>0, LeaveKeeps
       DEF FenceClaim, TypeOK, Outcome, threadVars, labelVars, histVars
<1>2. ClaimInv'
    BY <1>0, LeaveKeeps
       DEF FenceClaim, TypeOK, ClaimInv, Calling, Owns, threadVars, labelVars,
           histVars
<1> QED BY <1>1, <1>2

LEMMA KilledStep ==
    ASSUME IInv, NEW w \in Worker, Killed(w)
    PROVE  IInv'
<1> USE DEF IInv
<1>0. Leave(w)
    BY DEF Killed
<1>1. TypeOK'
    BY <1>0, LeaveKeeps
       DEF Killed, TypeOK, rowVars, threadVars, labelVars, histVars
<1>2. ClaimInv'
    BY <1>0, LeaveKeeps
       DEF Killed, TypeOK, ClaimInv, Calling, Owns, rowVars, threadVars,
           labelVars, histVars
<1> QED BY <1>1, <1>2

LEMMA WorkerStep ==
    ASSUME IInv, NEW w \in Worker, Work(w)
    PROVE  IInv'
  BY SelectStep, HookStep, ClaimStep, SkipStep, UnclaimedStep, ExtractStep,
     ReadLabelStep, ReadThreadStep, RecordStep, FenceClaimStep, KilledStep
     DEF Work

-----------------------------------------------------------------------------
(* Time, the sweep's terminalizing, and the other writers.                  *)

LEMMA TimeStep ==
    ASSUME IInv, Lapse \/ Terminalize
    PROVE  IInv'
<1> USE DEF IInv, TypeOK, threadVars, labelVars, workerVars, readVars
<1>1. CASE Lapse
    BY <1>1 DEF Lapse, ClaimInv, Calling, Owns
<1>2. CASE Terminalize
    BY <1>2 DEF Terminalize, Spent, ClaimInv, Outcome, Calling, Owns, histVars
<1> QED BY <1>1, <1>2

LEMMA LabelStep ==
    ASSUME IInv, NEW to \in {"action", "other"},
           ModelLabels(to) \/ Reclassify(to)
    PROVE  IInv'
<1> USE DEF IInv, TypeOK, Relabel, threadVars, workerVars, readVars
<1>1. CASE ModelLabels(to)
    BY <1>1, NoWorkerAssumption
       DEF ModelLabels, ClaimInv, Calling, Owns, rowVars
<1>2. CASE Reclassify(to)
  <2>1. /\ outcome' \in Outcome /\ hook' \in BOOLEAN
        /\ leftBy' \in SUBSET {"model", "user"}
      BY <1>2 DEF Reclassify, Withdraw, Outcome
  <2>2. TypeOK'
      BY <1>2, <2>1 DEF Reclassify
  <2>3. ClaimInv'
      BY <1>2, NoWorkerAssumption
         DEF Reclassify, Withdraw, ClaimInv, Calling, Owns
  <2> QED BY <2>2, <2>3
<1> QED BY <1>1, <1>2

LEMMA ThreadStep ==
    ASSUME IInv,
           SetDone \/ Undone \/ SendReply
               \/ \E a \in {"before", "covers"} : Settle(a)
    PROVE  IInv'
<1> USE DEF IInv, TypeOK, labelVars, workerVars, readVars
<1>1. CASE SetDone
  <2>1. /\ status' \in Status /\ userOpen' \in BOOLEAN
        /\ status' = "none" <=> status = "none"
      BY <1>1 DEF SetDone, NewStatus, DoneStamp, Status
  <2>2. TypeOK'
      BY <1>1, <2>1 DEF SetDone
  <2>3. ClaimInv'
      BY <1>1, <2>1 DEF SetDone, ClaimInv, Calling, Owns
  <2> QED BY <2>2, <2>3
<1>2. CASE Undone
  <2>0. done' \in BOOLEAN
      BY <1>2 DEF Undone
  <2>1. TypeOK'
      BY <1>2, <2>0 DEF Undone, rowVars, histVars
  <2>2. ClaimInv'
      BY <1>2 DEF Undone, ClaimInv, Calling, Owns, rowVars, histVars
  <2> QED BY <2>1, <2>2
<1>3. CASE SendReply
    BY <1>3 DEF SendReply, ClaimInv, Calling, Owns, rowVars, histVars
<1>4. ASSUME NEW a \in {"before", "covers"}, Settle(a)
      PROVE  IInv'
  <2>1. /\ status' \in Status /\ userOpen' \in BOOLEAN
        /\ status' = "none" <=> status = "none"
      BY <1>4 DEF Settle, NewStatus, DoneStamp, Status
  <2>2. TypeOK'
      BY <1>4, <2>1 DEF Settle
  <2>3. ClaimInv'
      BY <1>4, <2>1 DEF Settle, ClaimInv, Calling, Owns
  <2> QED BY <2>2, <2>3
<1> QED BY <1>1, <1>2, <1>3, <1>4

LEMMA StatusStep ==
    ASSUME IInv,
           WriteStatus \/ \E s \in {"open", "done", "dismissed"} : AskStatus(s)
    PROVE  IInv'
<1> USE DEF IInv, TypeOK, threadVars, labelVars, workerVars, readVars
<1>1. CASE WriteStatus
    BY <1>1 DEF WriteStatus, Status, ClaimInv, Calling, Owns
<1>2. ASSUME NEW s \in {"open", "done", "dismissed"}, AskStatus(s)
      PROVE  IInv'
    BY <1>2 DEF AskStatus, ClaimInv, Calling, Owns, rowVars, histVars
<1> QED BY <1>1, <1>2

-----------------------------------------------------------------------------
(* The strengthened invariant: what the fence and the locks leave of a row. *)
THEOREM Invariance == Spec => []IInv
<1>1. IInv /\ [Next]_vars => IInv'
  <2> SUFFICES ASSUME IInv, [Next]_vars
               PROVE  IInv'
      OBVIOUS
  <2> QED BY WorkerStep, TimeStep, LabelStep, ThreadStep, StatusStep,
             StutterIInv DEF Next, Others
<1> QED BY InitIInv, <1>1, PTL DEF Spec

(* Every variable keeps its type; in particular no row is claimed beyond    *)
(* the bound and no item has a status outside the three.                    *)
THEOREM TypeCorrect == Spec => []TypeOK
<1>1. IInv => TypeOK
    BY DEF IInv
<1> QED BY Invariance, <1>1, PTL

(* Claims, records and deaths of any number of workers leave the row with   *)
(* at most one owner that has not outlived its lease, and the label it was  *)
(* read under is still the label when the record is written.                *)
THEOREM ClaimsAreFenced == Spec => []ClaimInv
<1>1. IInv => ClaimInv
    BY DEF IInv
<1> QED BY Invariance, <1>1, PTL

(* No message is extracted by two workers at a time, unless one of them     *)
(* outlived its whole lease.                                                *)
THEOREM SingleCall == Spec => []OneCallAtATime
<1>1. IInv => OneCallAtATime
    BY DEF IInv, ClaimInv, OneCallAtATime, Owns
<1> QED BY Invariance, <1>1, PTL

-----------------------------------------------------------------------------
(* Neither a claim nor a late record brings an open item to a done thread.  *)
LEMMA NoOpenStep ==
    ASSUME NoOpenOnDone, [Next]_vars
    PROVE  NoOpenOnDone'
<1> USE DEF NoOpenOnDone, NewStatus, DoneStamp
<1>1. ASSUME NEW w \in Worker, Work(w)
      PROVE  NoOpenOnDone'
  <2>1. CASE Claim(w)
      BY <2>1 DEF Claim, threadVars
  <2>2. CASE Record(w)
      BY <2>2 DEF Record, threadVars
  <2>3. CASE ~Claim(w) /\ ~Record(w)
      BY <1>1, <2>3
         DEF Work, Select, TakeHook, Skip, LeaveUnclaimed, Extract, ReadLabel,
             ReadDone, ReadReplied, FenceClaim, Killed, rowVars, threadVars,
             histVars
  <2> QED BY <2>1, <2>2, <2>3
<1>2. CASE Lapse \/ Terminalize
    BY <1>2 DEF Lapse, Terminalize, threadVars, histVars
<1>3. ASSUME NEW to \in {"action", "other"}, ModelLabels(to) \/ Reclassify(to)
      PROVE  NoOpenOnDone'
    BY <1>3 DEF ModelLabels, Reclassify, rowVars, threadVars
<1>4. CASE SetDone \/ Undone \/ SendReply
    BY <1>4 DEF SetDone, Undone, SendReply, rowVars, histVars
<1>5. ASSUME NEW a \in {"before", "covers"}, Settle(a)
      PROVE  NoOpenOnDone'
    BY <1>5 DEF Settle
<1>6. CASE WriteStatus
    BY <1>6 DEF WriteStatus, threadVars
<1>7. ASSUME NEW s \in {"open", "done", "dismissed"}, AskStatus(s)
      PROVE  NoOpenOnDone'
    BY <1>7 DEF AskStatus, rowVars, threadVars, histVars
<1>8. CASE UNCHANGED vars
    BY <1>8 DEF vars, rowVars, threadVars, histVars
<1> QED BY <1>1, <1>2, <1>3, <1>4, <1>5, <1>6, <1>7, <1>8 DEF Next, Others

(* No open item surfaces when a done thread is reopened, other than one the *)
(* user opened: whatever the order of claims, records and the done route.   *)
THEOREM NoOpenItemOnDone == Spec => []NoOpenOnDone
<1>1. Init => NoOpenOnDone
    BY DEF Init, NoOpenOnDone
<1>2. NoOpenOnDone /\ [Next]_vars => NoOpenOnDone'
    BY NoOpenStep
<1> QED BY <1>1, <1>2, PTL DEF Spec

-----------------------------------------------------------------------------
(* Only Record puts an extraction on show, and it forgets who left before.  *)
(* It has read the label under the lock that keeps every other from it, so  *)
(* the label is still the one it has read.                                  *)
LEMMA NothingStaleStep ==
    ASSUME IInv, NothingStaleShown, [Next]_vars
    PROVE  NothingStaleShown'
<1> USE DEF NothingStaleShown
<1>1. ASSUME NEW w \in Worker, Work(w)
      PROVE  NothingStaleShown'
  <2>1. CASE Claim(w)
      BY <2>1 DEF Claim, labelVars
  <2>2. CASE Skip(w)
      BY <2>2 DEF Skip, labelVars, histVars
  <2>3. CASE Record(w)
    <3>1. /\ label' = label
          /\ ~RecordFence(w) => outcome' = outcome /\ leftBy' = leftBy
          /\ RecordFence(w) => outcome' = Recorded(w) /\ leftBy' = {}
        BY <2>3 DEF Record, labelVars
    <3>2. labelBy' = labelBy
        BY <2>3 DEF Record, labelVars
    <3>3. ASSUME RecordFence(w), outcome' = "extracted"
          PROVE  label = "action"
      <4>1. phase[w] = "repliedRead" /\ readLabel[w]
          BY <2>3, <3>1, <3>3 DEF Record, Recorded
      <4> QED BY <4>1 DEF IInv, ClaimInv
    <3> QED BY <3>1, <3>2, <3>3
  <2>4. CASE FenceClaim(w)
      BY <2>4 DEF FenceClaim, labelVars, histVars
  <2>5. CASE ~Claim(w) /\ ~Skip(w) /\ ~Record(w) /\ ~FenceClaim(w)
      BY <1>1, <2>5
         DEF Work, Select, TakeHook, LeaveUnclaimed, Extract, ReadLabel,
             ReadDone, ReadReplied, Killed, rowVars, labelVars, histVars
  <2> QED BY <2>1, <2>2, <2>3, <2>4, <2>5
<1>2. CASE Lapse \/ Terminalize
    BY <1>2 DEF Lapse, Terminalize, labelVars, histVars
<1>3. ASSUME NEW to \in {"action", "other"}, ModelLabels(to) \/ Reclassify(to)
      PROVE  NothingStaleShown'
  <2>1. CASE ModelLabels(to)
    <3>1. /\ outcome' = outcome /\ leftBy' \subseteq leftBy \cup {"model"}
          /\ labelBy' = "model"
        BY <2>1 DEF ModelLabels, Relabel, rowVars
    <3> QED BY <3>1
  <2>2. CASE Reclassify(to)
      BY <1>3, <2>2 DEF Reclassify, Relabel, Withdraw
  <2> QED BY <1>3, <2>1, <2>2
<1>4. CASE SetDone \/ Undone \/ SendReply \/ WriteStatus
    BY <1>4 DEF SetDone, Undone, SendReply, WriteStatus, rowVars, labelVars,
                histVars
<1>5. ASSUME NEW a \in {"before", "covers"}, Settle(a)
      PROVE  NothingStaleShown'
    BY <1>5 DEF Settle, labelVars
<1>6. ASSUME NEW s \in {"open", "done", "dismissed"}, AskStatus(s)
      PROVE  NothingStaleShown'
    BY <1>6 DEF AskStatus, rowVars, labelVars, histVars
<1>7. CASE UNCHANGED vars
    BY <1>7 DEF vars, rowVars, labelVars, histVars
<1> QED BY <1>1, <1>2, <1>3, <1>4, <1>5, <1>6, <1>7 DEF Next, Others

(* What the user reclassified away is not shown again when the label comes  *)
(* back, also when the reclassification raced the record of an extraction.  *)
THEOREM NothingStale == Spec => []NothingStaleShown
<1>1. Init => NothingStaleShown
    BY DEF Init, NothingStaleShown
<1>2. IInv /\ NothingStaleShown /\ [Next]_vars => NothingStaleShown'
    BY NothingStaleStep
<1> QED BY Invariance, <1>1, <1>2, PTL DEF Spec

-----------------------------------------------------------------------------
(* The fence and the extraction: a reply settled while a call is out.       *)

(* Steps that leave alone what AnswerInv speaks of, but for the places of   *)
(* workers, of which none gets to its record.                               *)
LEMMA AnswerKept ==
    ASSUME AnswerInv,
           UNCHANGED <<outcome, token, kind, status, fence, userOpen, again>>,
           \A w \in Worker : Owns(w) /\ phase'[w] = "repliedRead" =>
               phase[w] = "repliedRead" /\ readReplied'[w] = readReplied[w]
    PROVE  AnswerInv'
  BY DEF AnswerInv, AnsweredIsResolved, Owns

LEMMA AnswerWorkerStep ==
    ASSUME IInv, AnswerInv, NEW w \in Worker, Work(w)
    PROVE  AnswerInv'
<1> USE DEF IInv, TypeOK
<1>1. CASE (\E f \in BOOLEAN : Select(w, f)) \/ TakeHook(w) \/ Extract(w)
           \/ ReadLabel(w) \/ ReadDone(w)
    BY <1>1, AnswerKept
       DEF Select, TakeHook, Extract, ReadLabel, ReadDone, rowVars, threadVars,
           histVars, readVars
<1>2. CASE LeaveUnclaimed(w) \/ Killed(w)
    BY <1>2, AnswerKept
       DEF LeaveUnclaimed, Killed, Leave, rowVars, threadVars, histVars
<1>3. CASE Claim(w)
    BY <1>3
       DEF Claim, AnswerInv, AnsweredIsResolved, Owns, threadVars, readVars
<1>4. CASE Skip(w) \/ FenceClaim(w)
  <2>1. /\ UNCHANGED <<kind, status, fence, userOpen, again>>
        /\ outcome' = outcome \/ outcome' = "failed"
        /\ Leave(w)
      BY <1>4 DEF Skip, FenceClaim, threadVars, histVars
  <2>2. CASE outcome' = outcome /\ token' = token
      BY <2>1, <2>2, AnswerKept DEF Leave
  <2>3. CASE outcome' = "failed"
      BY <2>1, <2>3 DEF AnswerInv, AnsweredIsResolved
  <2> QED BY <1>4, <2>1, <2>2, <2>3 DEF Skip, FenceClaim
<1>5. CASE ReadReplied(w)
  <2>1. /\ UNCHANGED <<outcome, token, kind, status, fence, userOpen, again>>
        /\ readReplied' = [readReplied EXCEPT ![w] = fence = "covers"]
        /\ phase' = [phase EXCEPT ![w] = "repliedRead"]
      BY <1>5 DEF ReadReplied, rowVars, threadVars, histVars
  <2> QED BY <2>1 DEF AnswerInv, AnsweredIsResolved, Owns
<1>6. CASE Record(w)
  <2>1. CASE ~RecordFence(w)
      BY <1>6, <2>1, AnswerKept DEF Record, RecordFence, Leave, threadVars
  <2>2. CASE RecordFence(w)
    <3>1. outcome = "pending" /\ Owns(w) /\ phase[w] = "repliedRead"
        BY <1>6, <2>2 DEF Record, RecordFence, Owns
    <3>2. outcome' # "pending" /\ fence' = fence /\ again' = again
      <4>1. result[w] \in {"reply", "other", "no_action", "failed"}
          BY <3>1, ResultAssumption DEF ClaimInv, Calling
      <4> QED BY <1>6, <2>2, <4>1 DEF Record, Recorded, threadVars
    <3>3. ASSUME outcome' = "extracted", kind' = "reply", status' = "open",
                 fence = "covers", ~again
          PROVE  userOpen'
      <4>1. result[w] = "reply"
          BY <1>6, <2>2, <3>3 DEF Record, RecordedKind, Recorded
      <4>2. status = "open" /\ ~readReplied[w] /\ userOpen' = userOpen
          BY <1>6, <2>2, <3>3, <4>1 DEF Record, NewStatus, DoneStamp
      <4> QED BY <3>1, <3>3, <4>2 DEF AnswerInv
    <3> QED BY <3>2, <3>3 DEF AnswerInv, AnsweredIsResolved
  <2> QED BY <2>1, <2>2
<1> QED BY <1>1, <1>2, <1>3, <1>4, <1>5, <1>6 DEF Work

LEMMA AnswerOtherStep ==
    ASSUME IInv, AnswerInv, Lapse \/ Terminalize \/ Others
    PROVE  AnswerInv'
<1>1. CASE Lapse \/ Undone \/ SendReply
           \/ \E s \in {"open", "done", "dismissed"} : AskStatus(s)
    BY <1>1, AnswerKept
       DEF Lapse, Undone, SendReply, AskStatus, rowVars, threadVars, workerVars,
           readVars, histVars
<1>2. CASE Terminalize
    BY <1>2 DEF Terminalize, AnswerInv, AnsweredIsResolved, histVars, threadVars
<1>3. ASSUME NEW to \in {"action", "other"}, ModelLabels(to) \/ Reclassify(to)
      PROVE  AnswerInv'
  <2>1. /\ UNCHANGED <<token, kind, status, fence, userOpen, again, phase,
                       readReplied>>
        /\ outcome' = outcome \/ outcome' = "ineligible"
      BY <1>3 DEF ModelLabels, Reclassify, Withdraw, rowVars, threadVars,
                  workerVars, readVars
  <2>2. CASE outcome' = outcome
      BY <2>1, <2>2, AnswerKept
  <2>3. CASE outcome' = "ineligible"
      BY <2>1, <2>3 DEF AnswerInv, AnsweredIsResolved
  <2> QED BY <2>1, <2>2, <2>3
<1>4. CASE SetDone
    BY <1>4 DEF SetDone, NewStatus, DoneStamp, AnswerInv, AnsweredIsResolved
<1>5. CASE WriteStatus
    BY <1>5 DEF WriteStatus, AnswerInv, AnsweredIsResolved, threadVars
<1>6. ASSUME NEW a \in {"before", "covers"}, Settle(a)
      PROVE  AnswerInv'
    BY <1>6 DEF Settle, NewStatus, DoneStamp, Answers, AnswerInv,
                AnsweredIsResolved
<1> QED BY <1>1, <1>2, <1>3, <1>4, <1>5, <1>6 DEF Others

(* A message the user answered before its first extraction was recorded is  *)
(* not shown as one to answer, whenever the reply was settled: before the   *)
(* claim, while the call was out, between the reads, or later.              *)
THEOREM AnsweredResolved == Spec => []AnsweredIsResolved
<1>1. Init => AnswerInv
    BY DEF Init, AnswerInv, AnsweredIsResolved
<1>2. IInv /\ AnswerInv /\ [Next]_vars => AnswerInv'
  <2>1. ASSUME AnswerInv, UNCHANGED vars
        PROVE  AnswerInv'
      BY <2>1, AnswerKept
         DEF vars, rowVars, threadVars, workerVars, readVars, histVars
  <2> QED BY <2>1, AnswerWorkerStep, AnswerOtherStep DEF Next
<1>3. AnswerInv => AnsweredIsResolved
    BY DEF AnswerInv
<1> QED BY Invariance, <1>1, <1>2, <1>3, PTL DEF Spec

-----------------------------------------------------------------------------
(* Once resolved, an item is opened by the user only: re-extraction, the    *)
(* done route and settlements leave its status alone.                       *)
THEOREM ResolvedForGood == Spec => ResolvedStays
<1>1. ASSUME IInv, [Next]_vars, status \in {"done", "dismissed"},
             status' # status
      PROVE  ask # "none" /\ status' = ask
  <2> USE <1>1 DEF NewStatus, DoneStamp
  <2>1. ASSUME NEW w \in Worker, Work(w)
        PROVE  FALSE
    <3>1. CASE Claim(w)
        BY <3>1 DEF Claim, IInv, ClaimInv
    <3>2. CASE Record(w)
        BY <3>2 DEF Record
    <3> QED BY <2>1, <3>1, <3>2
               DEF Work, Select, TakeHook, Skip, LeaveUnclaimed, Extract,
                   ReadLabel, ReadDone, ReadReplied, FenceClaim, Killed, rowVars
  <2>2. ASSUME Lapse \/ Terminalize \/ SetDone \/ Undone \/ SendReply
        PROVE  FALSE
      BY <2>2 DEF Lapse, Terminalize, SetDone, Undone, SendReply, rowVars
  <2>3. ASSUME NEW to \in {"action", "other"}, ModelLabels(to) \/ Reclassify(to)
        PROVE  FALSE
      BY <2>3 DEF ModelLabels, Reclassify, rowVars
  <2>4. ASSUME NEW a \in {"before", "covers"}, Settle(a)
        PROVE  FALSE
      BY <2>4 DEF Settle
  <2>5. ASSUME NEW s \in {"open", "done", "dismissed"}, AskStatus(s)
        PROVE  FALSE
      BY <2>5 DEF AskStatus, rowVars
  <2>6. CASE WriteStatus
      BY <2>6 DEF WriteStatus
  <2>7. ~UNCHANGED vars
      BY DEF vars, rowVars
  <2> QED BY <2>1, <2>2, <2>3, <2>4, <2>5, <2>6, <2>7 DEF Next, Others
<1>2. IInv /\ [Next]_vars
        => [/\ status \in {"done", "dismissed"}
            /\ status' # status
            => ask # "none" /\ status' = ask]_vars
    BY <1>1
<1> QED BY Invariance, <1>2, PTL DEF Spec, ResolvedStays
==============================================================================
