--------------------------- MODULE LabelSyncProofs ---------------------------
(****************************************************************************)
(* Proofs about LabelSync, for any tasks, labels, number of messages and    *)
(* number of times the sync is switched on.                                 *)
(****************************************************************************)
EXTENDS LabelSync, WellFoundedInduction, TLAPS

(* A thread with messages has a latest one: the order is total and the      *)
(* messages are finitely many.                                              *)
LEMMA LatestIsHere ==
    ASSUME here \in SUBSET Message, here # {}
    PROVE  Latest \in here
<1> DEFINE T == {Messages - m : m \in here}
<1>1. T \subseteq Nat /\ T # {}
    BY BoundAssumption DEF Message
<1>2. PICK x \in T : \A y \in T : ~ (<<y, x>> \in OpToRel(<, Nat))
    BY <1>1, NatLessThanWellFounded, WFMin, Zenon
<1>3. PICK m \in here : x = Messages - m
    BY <1>2
<1>4. \A n \in here : n <= m
  <2> SUFFICES ASSUME NEW n \in here
               PROVE  n <= m
      OBVIOUS
  <2>1. ~ (Messages - n < Messages - m)
      BY <1>1, <1>2, <1>3 DEF OpToRel
  <2> QED BY <2>1, BoundAssumption DEF Message
<1> QED BY <1>4 DEF Latest

LEMMA InitIInv == Init => IInv
<1> SUFFICES ASSUME Init
             PROVE  IInv
    OBVIOUS
<1> USE DEF Init
<1>1. TypeOK
  <2>1. NoClaim \in ClaimResult /\ 0 \in 0 .. GenerationBound
      BY BoundAssumption
         DEF NoClaim, ClaimResult, MessageOrNone, LabelOrNone
  <2> QED BY <2>1 DEF TypeOK, MessageOrNone, LabelOrNone, Phase
<1>2. MailInv /\ LeaseInv /\ OwnerInv
    BY DEF MailInv, LeaseInv, OwnerInv
<1>3. BornInv
    BY DEF BornInv, Names, NoClaim, Message, NoMessage
<1>4. StepInv
    BY DEF StepInv, NoClaim
<1>5. OwnedIsReachable /\ SyncedIsTrue /\ OwnersTargetIsPending
    BY DEF OwnedIsReachable, SyncedIsTrue, OwnersTargetIsPending
<1> QED BY <1>1, <1>2, <1>3, <1>4, <1>5 DEF IInv

LEMMA StutterIInv == IInv /\ UNCHANGED vars => IInv'
  BY DEF vars, mailboxVars, threadVars, pairVars, claimVars, accountVars,
         taskVars, IInv, TypeOK, MailInv, BornInv, StepInv, LeaseInv, OwnerInv,
         OwnedIsReachable, SyncedIsTrue, OwnersTargetIsPending, Names, Target

-----------------------------------------------------------------------------
(* The account and the lease.                                               *)

LEMMA DisableStep == IInv /\ Disable => IInv'
<1> SUFFICES ASSUME IInv, Disable
             PROVE  IInv'
    OBVIOUS
<1> USE DEF Disable, mailboxVars, threadVars, pairVars, claimVars, taskVars,
            IInv
<1>1. TypeOK'
    BY DEF TypeOK
<1>2. MailInv' /\ BornInv' /\ StepInv' /\ LeaseInv' /\ OwnerInv'
    BY DEF MailInv, BornInv, StepInv, LeaseInv, OwnerInv, Names, Target
<1>3. OwnedIsReachable' /\ SyncedIsTrue' /\ OwnersTargetIsPending'
    BY DEF OwnedIsReachable, SyncedIsTrue, OwnersTargetIsPending, Target
<1> QED BY <1>1, <1>2, <1>3

LEMMA EnableStep == IInv /\ Enable => IInv'
<1> SUFFICES ASSUME IInv, Enable
             PROVE  IInv'
    OBVIOUS
<1> USE DEF Enable, mailboxVars, threadVars, claimVars, taskVars, IInv
<1>1. TypeOK'
    BY BoundAssumption DEF TypeOK
<1>2. MailInv' /\ BornInv' /\ StepInv' /\ LeaseInv' /\ OwnerInv'
    BY DEF MailInv, BornInv, StepInv, LeaseInv, OwnerInv, Names, Target
<1>3. OwnedIsReachable' /\ SyncedIsTrue' /\ OwnersTargetIsPending'
    BY DEF OwnedIsReachable, SyncedIsTrue, OwnersTargetIsPending, Target
<1> QED BY <1>1, <1>2, <1>3

LEMMA LapseStep == IInv /\ Lapse => IInv'
<1> SUFFICES ASSUME IInv, Lapse
             PROVE  IInv'
    OBVIOUS
<1> USE DEF Lapse, LiveClaim, mailboxVars, threadVars, pairVars, accountVars,
            taskVars, IInv
<1>1. TypeOK'
    BY DEF TypeOK
<1>2. MailInv' /\ BornInv' /\ StepInv' /\ OwnerInv'
    BY DEF MailInv, BornInv, StepInv, OwnerInv, Names, Target
<1>3. LeaseInv'
    BY DEF LeaseInv, Names
<1>4. OwnedIsReachable' /\ SyncedIsTrue' /\ OwnersTargetIsPending'
    BY DEF OwnedIsReachable, SyncedIsTrue, OwnersTargetIsPending, Target
<1> QED BY <1>1, <1>2, <1>3, <1>4

-----------------------------------------------------------------------------
(* The mail.                                                                *)

LEMMA ArriveStep ==
    ASSUME IInv, NEW m \in Message, Arrive(m)
    PROVE  IInv'
<1> USE DEF Arrive, pairVars, claimVars, accountVars, taskVars, IInv, TypeOK
<1>1. TypeOK'
    OBVIOUS
<1>2. MailInv' /\ BornInv'
    BY DEF MailInv, BornInv, Names
<1>3. StepInv'
    BY DEF StepInv, Target
<1>4. LeaseInv'
    BY DEF LeaseInv, Names, ClaimResult, MessageOrNone
<1>5. OwnerInv'
  <2>1. \A w \in Worker : Target(w) # m
      BY DEF BornInv, Names, Target
  <2> QED BY <2>1 DEF OwnerInv, Target
<1>6. OwnedIsReachable' /\ OwnersTargetIsPending'
    BY DEF OwnedIsReachable, OwnersTargetIsPending, Target
<1>7. SyncedIsTrue'
    BY DEF SyncedIsTrue, BornInv
<1> QED BY <1>1, <1>2, <1>3, <1>4, <1>5, <1>6, <1>7

LEMMA ClassifyStep ==
    ASSUME IInv, NEW m \in Message, NEW l \in Label, Classify(m, l)
    PROVE  IInv'
<1> USE DEF Classify, mailboxVars, pairVars, claimVars, accountVars, taskVars,
            IInv
<1>1. TypeOK'
    BY DEF TypeOK, LabelOrNone
<1>2. MailInv' /\ BornInv' /\ StepInv' /\ LeaseInv' /\ OwnerInv'
    BY DEF MailInv, BornInv, StepInv, LeaseInv, OwnerInv, Names, Target
<1>3. OwnedIsReachable' /\ SyncedIsTrue' /\ OwnersTargetIsPending'
    BY DEF OwnedIsReachable, SyncedIsTrue, OwnersTargetIsPending, Target
<1> QED BY <1>1, <1>2, <1>3

LEMMA DeleteStep ==
    ASSUME IInv, NEW m \in Message, Delete(m)
    PROVE  IInv'
<1> USE DEF Delete, threadVars, pairVars, claimVars, accountVars, taskVars,
            IInv, TypeOK
<1>1. TypeOK'
    BY DEF LabelOrNone
<1>2. MailInv' /\ BornInv'
    BY DEF MailInv, BornInv, Names
<1>3. StepInv'
    BY DEF StepInv, Target
<1>4. LeaseInv'
    BY DEF LeaseInv, Names, ClaimResult, MessageOrNone
<1>5. OwnerInv'
    BY DEF OwnerInv, Target, ClaimResult, MessageOrNone
<1>6. OwnedIsReachable' /\ OwnersTargetIsPending'
    BY DEF OwnedIsReachable, OwnersTargetIsPending, Target
<1>7. SyncedIsTrue'
    BY DEF SyncedIsTrue
<1> QED BY <1>1, <1>2, <1>3, <1>4, <1>5, <1>6, <1>7

LEMMA RemoveStep ==
    ASSUME IInv, NEW m \in Message, Remove(m)
    PROVE  IInv'
<1> USE DEF Remove, mailboxVars, pairVars, claimVars, accountVars, taskVars,
            IInv, TypeOK
<1>1. TypeOK'
    BY DEF LabelOrNone, MessageOrNone
<1>2. MailInv'
    BY DEF MailInv
<1>3. BornInv'
    BY DEF BornInv, Names, NoMessage, Message
<1>4. StepInv'
    BY DEF StepInv, Target
<1>5. LeaseInv'
  <2>1. CASE here' = {}
    <3>1. \A n \in Message : mailbox[n] # "there"
        BY <2>1 DEF MailInv
    <3>2. \A w \in Worker : \A n \in Names(w) \ {NoMessage} : mailbox[n] = "gone"
        BY <3>1 DEF BornInv, Names, ClaimResult, MessageOrNone
    <3> QED BY <3>2 DEF LeaseInv, Names
  <2>2. CASE here' # {}
      BY <2>2 DEF LeaseInv, Names
  <2> QED BY <2>1, <2>2
<1>6. OwnerInv'
    BY NoWorkerAssumption DEF OwnerInv, Target
<1>7. OwnedIsReachable' /\ SyncedIsTrue'
    BY DEF OwnedIsReachable, SyncedIsTrue, MailInv
<1>8. OwnersTargetIsPending'
    BY NoWorkerAssumption DEF OwnersTargetIsPending, Target
<1> QED BY <1>1, <1>2, <1>3, <1>4, <1>5, <1>6, <1>7, <1>8

-----------------------------------------------------------------------------
(* The task: sync_thread_labels.                                            *)

(* A task that is not the owner of its claim any more names only messages   *)
(* that are gone: it has nothing to strip, and its merge fails.             *)
LEMMA LateTask ==
    ASSUME IInv, ~overran, NEW w \in Worker, phase[w] # "idle", token # w
    PROVE  \A m \in Names(w) \ {NoMessage} :
              /\ m \in Message
              /\ mailbox[m] = "gone"
              /\ cat[m] = NoLabel
  BY DEF IInv, TypeOK, LeaseInv, MailInv, Names, ClaimResult, MessageOrNone

(* What a task aims at is one of the messages it names.                     *)
LEMMA TargetNamed ==
    ASSUME IInv, NEW w \in Worker
    PROVE  Target(w) \in Names(w) /\ Target(w) \in MessageOrNone
  BY DEF IInv, TypeOK, Target, Names, ClaimResult

LEMMA LeaveStep ==
    ASSUME IInv, NEW w \in Worker, Leave(w),
           UNCHANGED <<mailboxVars, threadVars, pairVars, claimVars,
                       accountVars, overran>>
    PROVE  IInv'
<1> USE DEF Leave, mailboxVars, threadVars, pairVars, claimVars, accountVars,
            IInv, TypeOK
<1>1. TypeOK'
  <2>1. NoClaim \in ClaimResult
      BY BoundAssumption
         DEF NoClaim, ClaimResult, MessageOrNone, LabelOrNone
  <2> QED BY <2>1 DEF Phase
<1>2. MailInv' /\ BornInv'
    BY DEF MailInv, BornInv, Names, NoClaim, NoMessage, Message
<1>3. StepInv'
    BY DEF StepInv, Target, NoClaim
<1>4. LeaseInv'
    BY DEF LeaseInv, Names
<1>5. OwnerInv'
    BY DEF OwnerInv, Target
<1>6. OwnedIsReachable' /\ SyncedIsTrue' /\ OwnersTargetIsPending'
    BY DEF OwnedIsReachable, SyncedIsTrue, OwnersTargetIsPending, Target
<1> QED BY <1>1, <1>2, <1>3, <1>4, <1>5, <1>6

LEMMA ClaimStep ==
    ASSUME IInv, NEW w \in Worker, Claim(w)
    PROVE  IInv'
<1> USE DEF Claim, PendingAtClaim, mailboxVars, threadVars, accountVars, IInv,
            TypeOK
<1>0. Latest \in here /\ Latest \in Message
    BY LatestIsHere
<1> DEFINE c == [desired |-> DesiredLabel, latest |-> Latest,
                 synced |-> syncedMessage, inherited |-> pending,
                 generation |-> generation]
<1>1. TypeOK'
  <2>1. c \in ClaimResult
      BY <1>0 DEF DesiredLabel, ClaimResult, MessageOrNone
  <2> QED BY <2>1 DEF Phase
<1>2. MailInv' /\ BornInv'
  <2>1. \A m \in Message : m \in {Latest, syncedMessage, pending}
                           => mailbox[m] # "unborn"
      BY <1>0 DEF MailInv, BornInv
  <2>2. \A v \in Worker : v # w => Names(v)' = Names(v)
      BY DEF Names
  <2>3. Names(w)' = {Latest, syncedMessage, pending}
      BY DEF Names
  <2> QED BY <2>1, <2>2, <2>3 DEF MailInv, BornInv
<1>3. StepInv'
  <2>1. Latest # NoMessage
      BY <1>0 DEF Message, NoMessage
  <2> QED BY <2>1 DEF StepInv, Target
<1>4. LeaseInv'
  <2>1. \A v \in Worker : v # w => Names(v)' = Names(v) /\ phase'[v] = phase[v]
      BY DEF Names
  <2>2. token' = w /\ live'
      OBVIOUS
  <2> QED BY <2>1, <2>2, NoWorkerAssumption DEF LeaseInv, LiveClaim
<1>5. OwnerInv'
    BY DEF OwnerInv, Target, OwnedIsReachable
<1>6. OwnedIsReachable' /\ SyncedIsTrue' /\ OwnersTargetIsPending'
    BY DEF OwnedIsReachable, SyncedIsTrue, OwnersTargetIsPending, Target
<1> QED BY <1>1, <1>2, <1>3, <1>4, <1>5, <1>6

LEMMA StripInheritedStep ==
    ASSUME IInv, NEW w \in Worker, StripInherited(w)
    PROVE  IInv'
<1> USE DEF StripInherited, Strip, Goto, threadVars, pairVars, claimVars,
            accountVars, IInv, TypeOK
<1>1. TypeOK'
    BY DEF Phase, LabelOrNone
<1>2. MailInv' /\ BornInv'
    BY DEF MailInv, BornInv, Names
<1>3. StepInv'
    BY DEF StepInv, Target
<1>4. LeaseInv'
    BY DEF LeaseInv, Names
<1>5. OwnerInv'
  <2>1. CASE token = w
    <3>1. ~overran =>
            /\ my[w].synced = syncedMessage /\ pending = my[w].inherited
            /\ my[w].inherited \in Message
        BY <2>1 DEF OwnerInv, StepInv, ClaimResult, MessageOrNone
    <3>2. ~overran => \A m \in Message : cat'[m] # NoLabel =>
                         m = my[w].synced /\ m # my[w].inherited
        BY <3>1 DEF OwnedIsReachable
    <3>3. /\ my' = my
          /\ phase'[w] = IF my[w].synced \in {NoMessage, my[w].inherited}
                         THEN "intend" ELSE "stripSynced"
        OBVIOUS
    <3>4. ~overran /\ phase'[w] = "intend" =>
             \A m \in Message : cat'[m] = NoLabel
        BY <3>2, <3>3 DEF Message, NoMessage
    <3>5. ~overran => cat'[my[w].inherited] = NoLabel
        BY <3>1
    <3> QED BY <2>1, <3>1, <3>3, <3>4, <3>5 DEF OwnerInv
  <2>2. CASE token # w
    <3>1. ~overran => cat' = cat
        BY <2>2, LateTask DEF StepInv, Names
    <3> QED BY <2>2, <3>1 DEF OwnerInv, Target
  <2> QED BY <2>1, <2>2
<1>6. OwnedIsReachable' /\ OwnersTargetIsPending'
    BY DEF OwnedIsReachable, OwnersTargetIsPending, Target
<1>7. SyncedIsTrue'
    BY LateTask DEF SyncedIsTrue, OwnerInv, StepInv, Names
<1> QED BY <1>1, <1>2, <1>3, <1>4, <1>5, <1>6, <1>7

LEMMA StripSyncedStep ==
    ASSUME IInv, NEW w \in Worker, StripSynced(w)
    PROVE  IInv'
<1> USE DEF StripSynced, Strip, Goto, threadVars, pairVars, claimVars,
            accountVars, IInv, TypeOK
<1>1. TypeOK'
    BY DEF Phase, LabelOrNone
<1>2. MailInv' /\ BornInv'
    BY DEF MailInv, BornInv, Names
<1>3. StepInv'
    BY DEF StepInv, Target
<1>4. LeaseInv'
    BY DEF LeaseInv, Names
<1>5. OwnerInv'
  <2>1. CASE token = w
      BY <2>1 DEF OwnerInv, OwnedIsReachable, StepInv, Target, ClaimResult,
                  MessageOrNone
  <2>2. CASE token # w
    <3>1. ~overran => cat' = cat
        BY <2>2, LateTask DEF StepInv, Names
    <3> QED BY <2>2, <3>1 DEF OwnerInv, Target
  <2> QED BY <2>1, <2>2
<1>6. OwnedIsReachable' /\ OwnersTargetIsPending'
    BY DEF OwnedIsReachable, OwnersTargetIsPending, Target
<1>7. SyncedIsTrue'
    BY LateTask DEF SyncedIsTrue, OwnerInv, StepInv, Names
<1> QED BY <1>1, <1>2, <1>3, <1>4, <1>5, <1>6, <1>7

LEMMA IntendStep ==
    ASSUME IInv, NEW w \in Worker, Intend(w), token = w
    PROVE  IInv'
<1> USE DEF Intend, Goto, AfterIntent, mailboxVars, threadVars, claimVars,
            accountVars, IInv, TypeOK
<1>1. TypeOK'
    BY TargetNamed DEF Phase
<1>2. MailInv' /\ BornInv'
  <2>1. \A m \in Message : m \in Names(w) => mailbox[m] # "unborn"
      BY DEF BornInv
  <2>2. pending' \in Names(w)
      BY TargetNamed
  <2>3. \A v \in Worker : Names(v)' = Names(v)
      BY DEF Names
  <2> QED BY <2>1, <2>2, <2>3 DEF MailInv, BornInv
<1>3. StepInv'
    BY DEF StepInv, Target
<1>4. LeaseInv'
    BY DEF LeaseInv, Names
<1>5. OwnerInv'
  <2>1. \A m \in Message : ~overran /\ cat[m] # NoLabel =>
            /\ my[w].inherited = NoMessage
            /\ m = my[w].synced
      BY DEF OwnerInv, OwnedIsReachable, Message, NoMessage
  <2>2. my' = my /\ phase'[w] = AfterIntent(w)
      OBVIOUS
  <2>3. \A m \in Message : ~overran /\ cat[m] # NoLabel /\ Target(w) # NoMessage
            /\ phase'[w] = "merge" => m = Target(w)
      BY <2>1, <2>2 DEF Message, NoMessage
  <2>4. Target(w) = NoMessage =>
            \A m \in Message : ~overran => cat[m] = NoLabel
      BY <2>1 DEF StepInv, Target, Message, NoMessage
  <2>5. /\ phase'[w] \in {"record", "merge", "stripPrevious"}
        /\ phase'[w] = "record" <=> Target(w) = NoMessage
      BY <2>2
  <2>6. Target(w)' = Target(w)
      BY <2>2 DEF Target
  <2>7. ~overran => my[w].synced = syncedMessage
      BY DEF OwnerInv
  <2> QED BY <2>2, <2>3, <2>4, <2>5, <2>6, <2>7
          DEF OwnerInv, Message, NoMessage
<1>6. OwnedIsReachable'
    BY DEF OwnedIsReachable, OwnerInv, Message, NoMessage
<1>7. SyncedIsTrue'
    BY DEF SyncedIsTrue, OwnerInv, StepInv, Target
<1>8. OwnersTargetIsPending'
    BY DEF OwnersTargetIsPending, Target
<1> QED BY <1>1, <1>2, <1>3, <1>4, <1>5, <1>6, <1>7, <1>8

LEMMA StripPreviousStep ==
    ASSUME IInv, NEW w \in Worker, StripPrevious(w)
    PROVE  IInv'
<1> USE DEF StripPrevious, Strip, Goto, threadVars, pairVars, claimVars,
            accountVars, IInv, TypeOK
<1>1. TypeOK'
    BY DEF Phase, LabelOrNone
<1>2. MailInv' /\ BornInv'
    BY DEF MailInv, BornInv, Names
<1>3. StepInv'
    BY DEF StepInv, Target
<1>4. LeaseInv'
    BY DEF LeaseInv, Names
<1>5. OwnerInv'
  <2>1. CASE token = w
      BY <2>1 DEF OwnerInv, OwnedIsReachable, OwnersTargetIsPending, StepInv,
                  Target, ClaimResult, MessageOrNone
  <2>2. CASE token # w
    <3>1. ~overran => cat' = cat
        BY <2>2, LateTask DEF StepInv, Names
    <3> QED BY <2>2, <3>1 DEF OwnerInv, Target
  <2> QED BY <2>1, <2>2
<1>6. OwnedIsReachable' /\ OwnersTargetIsPending'
    BY DEF OwnedIsReachable, OwnersTargetIsPending, Target
<1>7. SyncedIsTrue'
  <2>1. CASE token = w
      BY <2>1 DEF SyncedIsTrue, OwnersTargetIsPending, StepInv
  <2>2. CASE token # w
      BY <2>2, LateTask DEF SyncedIsTrue, StepInv, Names
  <2> QED BY <2>1, <2>2
<1> QED BY <1>1, <1>2, <1>3, <1>4, <1>5, <1>6, <1>7

LEMMA MergeStep ==
    ASSUME IInv, NEW w \in Worker, Merge(w)
    PROVE  IInv'
<1> USE DEF Merge, Goto, threadVars, pairVars, claimVars, accountVars, IInv,
            TypeOK
<1>0. /\ Target(w) \in Message
      /\ ~overran => token = w /\ pending = Target(w)
  <2>1. Target(w) \in Names(w) \ {NoMessage} /\ Target(w) \in Message
      BY TargetNamed DEF StepInv, MessageOrNone
  <2> QED BY <2>1, LateTask DEF OwnersTargetIsPending
<1>1. TypeOK'
    BY <1>0 DEF Phase, ClaimResult
<1>2. MailInv' /\ BornInv'
    BY DEF MailInv, BornInv, Names
<1>3. StepInv'
    BY DEF StepInv, Target
<1>4. LeaseInv'
    BY DEF LeaseInv, Names
<1>5. OwnerInv'
    BY <1>0 DEF OwnerInv, Target
<1>6. OwnedIsReachable' /\ SyncedIsTrue'
    BY <1>0 DEF OwnedIsReachable, SyncedIsTrue, Message, NoMessage
<1>7. OwnersTargetIsPending'
    BY DEF OwnersTargetIsPending, Target
<1> QED BY <1>1, <1>2, <1>3, <1>4, <1>5, <1>6, <1>7

LEMMA RecordStep ==
    ASSUME IInv, NEW w \in Worker, Record(w), token = w
    PROVE  IInv'
<1> USE DEF Record, SameGeneration, Leave, mailboxVars, threadVars, pairVars,
            accountVars, IInv, TypeOK
<1>0. /\ \A v \in Worker : v # w => phase'[v] = phase[v] /\ my'[v] = my[v]
      /\ phase'[w] = "idle" /\ my'[w] = NoClaim
      /\ token' = NoWorker /\ token' \notin Worker
    BY NoWorkerAssumption
<1>1. TypeOK'
  <2>1. NoClaim \in ClaimResult
      BY BoundAssumption
         DEF NoClaim, ClaimResult, MessageOrNone, LabelOrNone
  <2> QED BY <2>1 DEF Phase, ClaimResult, MessageOrNone, LabelOrNone
<1>2. MailInv' /\ BornInv'
    BY <1>0 DEF MailInv, BornInv, Names, NoClaim, Message, NoMessage
<1>3. StepInv'
    BY <1>0 DEF StepInv, Target, NoClaim
<1>4. LeaseInv'
    BY <1>0 DEF LeaseInv, Names
<1>5. OwnerInv' /\ OwnersTargetIsPending'
    BY <1>0 DEF OwnerInv, OwnersTargetIsPending
<1>6. OwnedIsReachable'
    BY DEF OwnedIsReachable, OwnerInv, Target, MailInv
<1>7. SyncedIsTrue'
  <2>1. CASE my[w].desired = NoLabel
      BY <2>1 DEF SyncedIsTrue
  <2>2. CASE my[w].desired # NoLabel
      BY <2>2 DEF SyncedIsTrue, OwnerInv, Target, StepInv, ClaimResult,
                  MessageOrNone
  <2> QED BY <2>1, <2>2
<1> QED BY <1>1, <1>2, <1>3, <1>4, <1>5, <1>6, <1>7

LEMMA TaskStep ==
    ASSUME IInv, NEW w \in Worker, Task(w)
    PROVE  IInv'
<1>1. CASE Intend(w)
  <2>1. CASE token = w
      BY <1>1, <2>1, IntendStep
  <2>2. CASE token # w
      BY <1>1, <2>2, LeaveStep DEF Intend, pairVars
  <2> QED BY <2>1, <2>2
<1>2. CASE Record(w)
  <2>1. CASE token = w
      BY <1>2, <2>1, RecordStep
  <2>2. CASE token # w
      BY <1>2, <2>2, LeaveStep DEF Record
  <2> QED BY <2>1, <2>2
<1>3. CASE MergeNotFound(w) \/ Die(w)
    BY <1>3, LeaveStep DEF MergeNotFound, Die
<1> QED BY <1>1, <1>2, <1>3, ClaimStep, StripInheritedStep, StripSyncedStep,
           StripPreviousStep, MergeStep DEF Task, Work

LEMMA MailStep ==
    ASSUME IInv, NEW m \in Message, Mail(m)
    PROVE  IInv'
  BY ArriveStep, DeleteStep, RemoveStep, ClassifyStep DEF Mail

-----------------------------------------------------------------------------
(* The strengthened invariant of sync_thread_labels: what the task that     *)
(* holds the claim knows of the mailbox at each of its steps.               *)
THEOREM Invariance == Spec => []IInv
<1>1. IInv /\ [Next]_vars => IInv'
  <2> SUFFICES ASSUME IInv, [Next]_vars
               PROVE  IInv'
      OBVIOUS
  <2> QED BY TaskStep, MailStep, LapseStep, DisableStep, EnableStep,
             StutterIInv DEF Next
<1> QED BY InitIInv, <1>1, PTL DEF Spec

(* Every variable keeps its type.                                           *)
THEOREM TypeCorrect == Spec => []TypeOK
<1>1. IInv => TypeOK
    BY DEF IInv
<1> QED BY Invariance, <1>1, PTL

(* No category of ours is forgotten in the mailbox, whichever tasks die     *)
(* between their calls and their record.                                    *)
THEOREM OwnedReachable == Spec => []OwnedIsReachable
<1>1. IInv => OwnedIsReachable
    BY DEF IInv
<1> QED BY Invariance, <1>1, PTL

(* With no target pending, the applied pair is the truth.                   *)
THEOREM SyncedTrue == Spec => []SyncedIsTrue
<1>1. IInv => SyncedIsTrue
    BY DEF IInv
<1> QED BY Invariance, <1>1, PTL

(* While it writes, the claim's owner has its own target on record, also    *)
(* beside a task that outlived its lease.                                   *)
THEOREM OwnersTarget == Spec => []OwnersTargetIsPending
<1>1. IInv => OwnersTargetIsPending
    BY DEF IInv
<1> QED BY Invariance, <1>1, PTL

(* A task from before a re-enable does not clear the mark it left.          *)
THEOREM Reconverges == Spec => ReenableReconverges
<1>1. IInv /\ [Next]_vars =>
        [ resync /\ ~resync' =>
            \/ here' = {}
            \/ \E w \in Worker : /\ phase[w] = "record"
                                 /\ phase'[w] = "idle"
                                 /\ my[w].generation = generation ]_vars
  <2> SUFFICES ASSUME IInv, Next, resync, ~resync'
               PROVE  \/ here' = {}
                      \/ \E w \in Worker : /\ phase[w] = "record"
                                           /\ phase'[w] = "idle"
                                           /\ my[w].generation = generation
      OBVIOUS
  <2>1. ASSUME NEW w \in Worker, Task(w)
        PROVE  Record(w) /\ SameGeneration(w)
      BY <2>1 DEF Task, Work, Claim, StripInherited, StripSynced, Intend,
                  StripPrevious, Merge, MergeNotFound, Record, Die, pairVars
  <2>2. ASSUME NEW m \in Message, Mail(m)
        PROVE  here' = {}
      BY <2>2 DEF Mail, Arrive, Delete, Remove, Classify, pairVars
  <2>3. ~(Lapse \/ Disable \/ Enable)
      BY DEF Lapse, Disable, Enable, pairVars
  <2> QED BY <2>1, <2>2, <2>3
          DEF Next, Record, SameGeneration, Leave, IInv, TypeOK
<1> QED BY Invariance, <1>1, PTL DEF Spec, ReenableReconverges
=============================================================================
