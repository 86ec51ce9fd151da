--------------------------- MODULE ReplySendProofs ---------------------------
EXTENDS ReplySend, TLAPS

(* What the expiry and the override do to a row.                            *)
LEMMA GuardRows ==
    ASSUME TypeOK, NEW ov \in Request \cup {NoOne}
    PROVE  LET st == AfterOverride(AfterExpiry, ov)
           IN  /\ st \in [Request -> Status]
               /\ \A q \in Request :
                     \/ st[q] = status[q]
                     \/ /\ status[q] = "preparing"
                        /\ st[q] \in {"expired", "abandoned"}
                     \/ /\ status[q] \in {"inflight", "unknown"}
                        /\ st[q] = "abandoned"
               /\ Blocking(st) = {} =>
                     \A q \in Request :
                        st[q] \in {"none", "sent", "failed", "abandoned", "expired"}
<1> DEFINE st == AfterOverride(AfterExpiry, ov)
<1>1. \A q \in Request :
         \/ AfterExpiry[q] = status[q] /\ (status[q] = "preparing" => ~aged[q])
         \/ status[q] = "preparing" /\ AfterExpiry[q] = "expired"
  BY DEF TypeOK, Status, AfterExpiry
<1>2. \A q \in Request :
         \/ st[q] = AfterExpiry[q]
         \/ q \in Blocking(AfterExpiry) /\ st[q] = "abandoned"
  BY DEF AfterOverride, IsBlocker
<1>3. \A q \in Request : q \in Blocking(AfterExpiry) =>
         AfterExpiry[q] \in {"preparing", "inflight", "unknown"}
  BY DEF Blocking
<1>4. \A q \in Request :
         \/ st[q] = status[q] /\ (status[q] = "preparing" => ~aged[q])
         \/ /\ status[q] = "preparing"
            /\ st[q] \in {"expired", "abandoned"}
         \/ /\ status[q] \in {"inflight", "unknown"}
            /\ st[q] = "abandoned"
  BY <1>1, <1>2, <1>3
<1>5. st \in [Request -> Status]
  <2>1. \A q \in Request : st[q] \in Status
    BY <1>4 DEF TypeOK, Status
  <2> QED
    BY <2>1 DEF AfterOverride
<1>6. Blocking(st) = {} =>
         \A q \in Request :
            st[q] \in {"none", "sent", "failed", "abandoned", "expired"}
  <2> SUFFICES ASSUME Blocking(st) = {}, NEW q \in Request
               PROVE  st[q] \in {"none", "sent", "failed", "abandoned", "expired"}
    OBVIOUS
  <2> HIDE DEF st
  <2>1. /\ ~(st[q] = "preparing" /\ ~aged[q])
        /\ st[q] \notin {"inflight", "unknown"}
    BY DEF Blocking
  <2> QED
    BY <1>4, <1>5, <2>1 DEF Status
<1> HIDE DEF st
<1> QED
  BY <1>4, <1>5, <1>6 DEF st

LEMMA TypeInit == Init => TypeOK
  BY NoOneAssumption DEF Init, TypeOK, Status, PC, Response, Phase

LEMMA TypeStep == TypeOK /\ [Next]_vars => TypeOK'
<1> SUFFICES ASSUME TypeOK, [Next]_vars PROVE TypeOK'
  OBVIOUS
<1> USE DEF TypeOK, Finish, Goto, Drop, attemptVars, rowVars, mailVars,
            handlerVars, wireVars, workerVars, Status, PC, Response, Phase
<1>1. ASSUME NEW r \in Request, Load(r) PROVE TypeOK'
  BY <1>1 DEF Load
<1>2. ASSUME NEW r \in Request, Refuse(r) PROVE TypeOK'
  BY <1>2 DEF Refuse
<1>3. ASSUME NEW r \in Request, RefuseStale(r) PROVE TypeOK'
  BY <1>3 DEF RefuseStale
<1>4. ASSUME NEW r \in Request, NEW ov \in Request \cup {NoOne},
             RefuseInFlight(r, ov)
      PROVE  TypeOK'
  <2> DEFINE st == AfterOverride(AfterExpiry, ov)
  <2>1. st \in [Request -> Status]
    BY GuardRows
  <2> HIDE DEF st
  <2> QED
    BY <1>4, <2>1 DEF RefuseInFlight, st
<1>5. ASSUME NEW r \in Request, NEW ov \in Request \cup {NoOne},
             Admit(r, ov)
      PROVE  TypeOK'
  <2> DEFINE st == AfterOverride(AfterExpiry, ov)
  <2>1. st \in [Request -> Status]
    BY GuardRows
  <2> HIDE DEF st
  <2> QED
    BY <1>5, <2>1 DEF Admit, st
<1>6. ASSUME NEW r \in Request, Age(r) PROVE TypeOK'
  BY <1>6 DEF Age
<1>7. ASSUME NEW r \in Request, ToInflight(r) PROVE TypeOK'
  BY <1>7 DEF ToInflight, MarkInflight
<1>8. ASSUME NEW r \in Request, DeadlineBeforeCall(r) PROVE TypeOK'
  BY <1>8 DEF DeadlineBeforeCall
<1>9. ASSUME NEW r \in Request, CreateReply(r) PROVE TypeOK'
  BY <1>9 DEF CreateReply
<1>10. ASSUME NEW r \in Request, RecordDraft(r) PROVE TypeOK'
  BY <1>10 DEF RecordDraft
<1>11. ASSUME NEW r \in Request, RecordDraftFails(r) PROVE TypeOK'
  BY <1>11 DEF RecordDraftFails
<1>12. ASSUME NEW r \in Request, IssueSend(r) PROVE TypeOK'
  BY <1>12 DEF IssueSend
<1>13. ASSUME NEW r \in Request, Deliver(r) PROVE TypeOK'
  BY <1>13 DEF Deliver
<1>14. ASSUME NEW r \in Request, AnswerAccepted(r) PROVE TypeOK'
  BY <1>14 DEF AnswerAccepted
<1>15. ASSUME NEW r \in Request, AnswerRejected(r) PROVE TypeOK'
  BY <1>15 DEF AnswerRejected
<1>16. ASSUME NEW r \in Request, AnswerAmbiguous(r) PROVE TypeOK'
  BY <1>16 DEF AnswerAmbiguous
<1>17. ASSUME NEW r \in Request, FailSend(r) PROVE TypeOK'
  BY <1>17 DEF FailSend, MarkFailed
<1>18. ASSUME NEW r \in Request, UnknownSend(r) PROVE TypeOK'
  BY <1>18 DEF UnknownSend, MarkUnknown
<1>19. ASSUME NEW r \in Request, SettleInFreshSessionFails(r) PROVE TypeOK'
  BY <1>19 DEF SettleInFreshSessionFails
<1>20. ASSUME NEW r \in Request, Complete(r) PROVE TypeOK'
  BY <1>20 DEF Complete, CompletionWrites, MarkSent, AdvanceFence
<1>21. ASSUME NEW r \in Request, CompleteFails(r) PROVE TypeOK'
  <2>1. CASE CompletionWrites(r)
    BY <1>21, <2>1 DEF CompleteFails, CompletionWrites, MarkSent, AdvanceFence
  <2>2. CASE UNCHANGED <<attemptVars, mailVars>>
    BY <1>21, <2>2 DEF CompleteFails
  <2> QED
    BY <1>21, <2>1, <2>2 DEF CompleteFails
<1>22. ASSUME NEW r \in Request, HandlerDies(r) PROVE TypeOK'
  BY <1>22 DEF HandlerDies
<1>23. ASSUME NEW r \in Request, Ingest(r) PROVE TypeOK'
  BY <1>23 DEF Ingest
<1>24. ASSUME NEW w \in Worker, Scan(w) PROVE TypeOK'
  BY <1>24 DEF Scan
<1>25. ASSUME NEW w \in Worker, PassFails(w) PROVE TypeOK'
  BY <1>25 DEF PassFails
<1>26. ASSUME NEW w \in Worker, NEW r \in Request, PickUp(w, r)
      PROVE  TypeOK'
  BY <1>26 DEF PickUp, Matches
<1>27. ASSUME NEW w \in Worker, NEW r \in Request, Settle(w, r)
      PROVE  TypeOK'
  <2>1. MarkSentReconciled(r) \in Status /\ AdvanceFence(r) \in Nat
    BY DEF MarkSentReconciled, AdvanceFence
  <2>2. status' \in [Request -> Status] /\ repliedAt' \in Nat
    BY <1>27, <2>1 DEF Settle
  <2>3. providerId' \in [Request -> BOOLEAN]
    BY <1>27 DEF Settle
  <2>4. /\ phase' \in [Worker -> Phase]
        /\ cur' \in [Worker -> Request \cup {NoOne}]
        /\ seen' \in [Worker -> Status]
    <3>1. \/ Drop(w)
          \/ phase' = [phase EXCEPT ![w] = "verify"] /\ UNCHANGED <<cur, seen>>
      BY <1>27 DEF Settle
    <3> QED
      BY <3>1
  <2> QED
    BY <1>27, <2>2, <2>3, <2>4 DEF Settle
<1>28. ASSUME NEW w \in Worker, NEW r \in Request, Verify(w, r)
      PROVE  TypeOK'
  BY <1>28 DEF Verify
<1>29. CASE UNCHANGED vars
  BY <1>29 DEF vars
<1> QED
  BY <1>1, <1>2, <1>3, <1>4, <1>5, <1>6, <1>7, <1>8, <1>9, <1>10, <1>11, <1>12, <1>13, <1>14, <1>15, <1>16, <1>17, <1>18, <1>19, <1>20, <1>21, <1>22, <1>23, <1>24, <1>25, <1>26, <1>27, <1>28, <1>29
     DEF Next, Handler, Reconcile

(* Under the invariant a matched attempt is sent or becomes sent.           *)
LEMMA SettleEffect ==
    ASSUME IInv, NEW w \in Worker, NEW r \in Request, Settle(w, r)
    PROVE  /\ delivered[r] /\ wire[r]
           /\ status[r] \in {"inflight", "abandoned", "unknown", "sent"}
           /\ status' = [status EXCEPT ![r] = "sent"]
           /\ repliedAt' = AdvanceFence(r)
           /\ \A q \in Request : providerId[q] => providerId'[q]
           /\ \/ Drop(w)
              \/ phase' = [phase EXCEPT ![w] = "verify"] /\ UNCHANGED <<cur, seen>>
<1>1. /\ delivered[r] /\ wire[r]
      /\ status[r] \in {"inflight", "abandoned", "unknown", "sent"}
      /\ seen[w] = "sent" => status[r] = "sent"
  BY DEF IInv, MailInv, WorkerInv, Settle
<1>2. MarkSentReconciled(r) = "sent"
  BY <1>1 DEF MarkSentReconciled
<1>3. status' = [status EXCEPT ![r] = "sent"]
  BY <1>1, <1>2 DEF Settle, IInv, TypeOK
<1>4. repliedAt' = AdvanceFence(r)
  BY <1>1, <1>2 DEF Settle
<1>5. \A q \in Request : providerId[q] => providerId'[q]
  BY <1>1, <1>2 DEF Settle, IInv, TypeOK
<1>6. \/ Drop(w)
      \/ phase' = [phase EXCEPT ![w] = "verify"] /\ UNCHANGED <<cur, seen>>
  BY <1>1, <1>2 DEF Settle
<1> QED
  BY <1>1, <1>3, <1>4, <1>5, <1>6

(* A completion makes the attempt sent, from a status its CAS accepts.      *)
LEMMA CompletionEffect ==
    ASSUME IInv, NEW r \in Request, pc[r] = "accepted", CompletionWrites(r)
    PROVE  /\ delivered[r] /\ wire[r]
           /\ status[r] \in {"inflight", "abandoned", "sent"}
           /\ status' = [status EXCEPT ![r] = "sent"]
           /\ repliedAt' = AdvanceFence(r)
           /\ \A q \in Request : providerId[q] => providerId'[q]
           /\ \A q \in Request : persisted'[q] => persisted[q] \/ q = r
           /\ \A q \in Request : persisted[q] => persisted'[q]
           /\ UNCHANGED rowVars
<1>1. /\ delivered[r] /\ wire[r]
      /\ status[r] \in {"inflight", "abandoned", "sent"}
      /\ status[r] = "sent" => createdAt[r] <= repliedAt
  BY DEF IInv, HandlerInv, MailInv
<1>2. MarkSent(r) = "sent"
  BY <1>1 DEF MarkSent
<1>3. status' = [status EXCEPT ![r] = "sent"]
  BY <1>2 DEF CompletionWrites
<1>4. repliedAt' = AdvanceFence(r)
  BY <1>1 DEF CompletionWrites, AdvanceFence, IInv, TypeOK
<1>5. \A q \in Request : providerId[q] => providerId'[q]
  BY DEF CompletionWrites, IInv, TypeOK
<1>6. \A q \in Request : persisted'[q] => persisted[q] \/ q = r
  BY DEF CompletionWrites, IInv, TypeOK
<1>7. \A q \in Request : persisted[q] => persisted'[q]
  BY DEF CompletionWrites, IInv, TypeOK
<1>8. UNCHANGED rowVars
  BY DEF CompletionWrites
<1> QED
  BY <1>1, <1>3, <1>4, <1>5, <1>6, <1>7, <1>8, Zenon

LEMMA HandlerStep == IInv /\ [Next]_vars => HandlerInv'
<1> SUFFICES ASSUME IInv, [Next]_vars PROVE HandlerInv'
  OBVIOUS
<1> TypeOK /\ HandlerInv /\ MailInv /\ WorkerInv /\ OrderInv
  BY DEF IInv
<1> USE DEF TypeOK, HandlerInv, Finish, Goto, Drop, attemptVars, rowVars, mailVars,
            handlerVars, wireVars, workerVars
<1>1. ASSUME NEW r \in Request, Load(r) PROVE HandlerInv'
  BY <1>1 DEF Load
<1>2. ASSUME NEW r \in Request, Refuse(r) PROVE HandlerInv'
  BY <1>2 DEF Refuse, MailInv
<1>3. ASSUME NEW r \in Request, RefuseStale(r) PROVE HandlerInv'
  BY <1>3 DEF RefuseStale, MailInv
<1>4. ASSUME NEW r \in Request, NEW ov \in Request \cup {NoOne},
             RefuseInFlight(r, ov)
      PROVE  HandlerInv'
  <2> DEFINE st == AfterOverride(AfterExpiry, ov)
  <2>1. /\ st \in [Request -> Status]
        /\ \A q \in Request :
              \/ st[q] = status[q]
              \/ /\ status[q] = "preparing"
                 /\ st[q] \in {"expired", "abandoned"}
              \/ /\ status[q] \in {"inflight", "unknown"}
                 /\ st[q] = "abandoned"
        /\ Blocking(st) = {} =>
              \A q \in Request :
                 st[q] \in {"none", "sent", "failed", "abandoned", "expired"}
    BY GuardRows
  <2> HIDE DEF st
  <2> QED
    BY <1>4, <2>1 DEF RefuseInFlight, st, MailInv
<1>5. ASSUME NEW r \in Request, NEW ov \in Request \cup {NoOne},
             Admit(r, ov)
      PROVE  HandlerInv'
  <2> DEFINE st == AfterOverride(AfterExpiry, ov)
  <2>1. /\ st \in [Request -> Status]
        /\ \A q \in Request :
              \/ st[q] = status[q]
              \/ /\ status[q] = "preparing"
                 /\ st[q] \in {"expired", "abandoned"}
              \/ /\ status[q] \in {"inflight", "unknown"}
                 /\ st[q] = "abandoned"
        /\ Blocking(st) = {} =>
              \A q \in Request :
                 st[q] \in {"none", "sent", "failed", "abandoned", "expired"}
    BY GuardRows
  <2>2. /\ status' = [st EXCEPT ![r] = "preparing"]
        /\ Blocking(st) = {}
        /\ overridden' = overridden \cup {q \in Request : st[q] = "abandoned"}
    BY <1>5 DEF Admit
  <2>3. /\ pc[r] = "loaded" /\ expected[r] = repliedAt
        /\ createdAt' = [createdAt EXCEPT ![r] = clock + 1]
        /\ clock' = clock + 1
        /\ Goto(r, "claimed")
        /\ UNCHANGED <<aged, providerId, verified, mailVars, wireVars, workerVars>>
    BY <1>5 DEF Admit
  <2> HIDE DEF st
  <2> QED
    BY <2>1, <2>2, <2>3 DEF MailInv
<1>6. ASSUME NEW r \in Request, Age(r) PROVE HandlerInv'
  BY <1>6 DEF Age
<1>7. ASSUME NEW r \in Request, ToInflight(r) PROVE HandlerInv'
  BY <1>7 DEF ToInflight, MarkInflight, MailInv
<1>8. ASSUME NEW r \in Request, DeadlineBeforeCall(r) PROVE HandlerInv'
  BY <1>8 DEF DeadlineBeforeCall
<1>9. ASSUME NEW r \in Request, CreateReply(r) PROVE HandlerInv'
  BY <1>9 DEF CreateReply
<1>10. ASSUME NEW r \in Request, RecordDraft(r) PROVE HandlerInv'
  BY <1>10 DEF RecordDraft
<1>11. ASSUME NEW r \in Request, RecordDraftFails(r) PROVE HandlerInv'
  BY <1>11 DEF RecordDraftFails
<1>12. ASSUME NEW r \in Request, IssueSend(r) PROVE HandlerInv'
  BY <1>12 DEF IssueSend
<1>13. ASSUME NEW r \in Request, Deliver(r) PROVE HandlerInv'
  BY <1>13 DEF Deliver
<1>14. ASSUME NEW r \in Request, AnswerAccepted(r) PROVE HandlerInv'
  BY <1>14 DEF AnswerAccepted
<1>15. ASSUME NEW r \in Request, AnswerRejected(r) PROVE HandlerInv'
  BY <1>15 DEF AnswerRejected, MailInv
<1>16. ASSUME NEW r \in Request, AnswerAmbiguous(r) PROVE HandlerInv'
  BY <1>16 DEF AnswerAmbiguous
<1>17. ASSUME NEW r \in Request, FailSend(r) PROVE HandlerInv'
  BY <1>17 DEF FailSend, MarkFailed
<1>18. ASSUME NEW r \in Request, UnknownSend(r) PROVE HandlerInv'
  BY <1>18 DEF UnknownSend, MarkUnknown
<1>19. ASSUME NEW r \in Request, SettleInFreshSessionFails(r) PROVE HandlerInv'
  BY <1>19 DEF SettleInFreshSessionFails
<1>20. ASSUME NEW r \in Request, Complete(r) PROVE HandlerInv'
  BY <1>20, CompletionEffect DEF Complete, AdvanceFence
<1>21. ASSUME NEW r \in Request, CompleteFails(r) PROVE HandlerInv'
  <2>1. CASE CompletionWrites(r)
    BY <1>21, <2>1, CompletionEffect DEF CompleteFails, AdvanceFence
  <2>2. CASE UNCHANGED <<attemptVars, mailVars>>
    BY <1>21, <2>2 DEF CompleteFails
  <2> QED
    BY <1>21, <2>1, <2>2 DEF CompleteFails
<1>22. ASSUME NEW r \in Request, HandlerDies(r) PROVE HandlerInv'
  BY <1>22 DEF HandlerDies
<1>23. ASSUME NEW r \in Request, Ingest(r) PROVE HandlerInv'
  BY <1>23 DEF Ingest
<1>24. ASSUME NEW w \in Worker, Scan(w) PROVE HandlerInv'
  BY <1>24 DEF Scan
<1>25. ASSUME NEW w \in Worker, PassFails(w) PROVE HandlerInv'
  BY <1>25 DEF PassFails
<1>26. ASSUME NEW w \in Worker, NEW r \in Request, PickUp(w, r)
      PROVE  HandlerInv'
  BY <1>26 DEF PickUp, Matches
<1>27. ASSUME NEW w \in Worker, NEW r \in Request, Settle(w, r)
      PROVE  HandlerInv'
  <2>1. /\ delivered[r] /\ wire[r]
        /\ status[r] \in {"inflight", "abandoned", "unknown", "sent"}
        /\ status' = [status EXCEPT ![r] = "sent"]
        /\ repliedAt' = AdvanceFence(r)
    BY <1>27, SettleEffect
  <2>2. \A q \in Request : providerId[q] => providerId'[q]
    BY <1>27, SettleEffect
  <2>3. UNCHANGED <<rowVars, persisted, handlerVars, wireVars, overridden>>
    BY <1>27 DEF Settle
  <2> QED
    BY <2>1, <2>2, <2>3 DEF AdvanceFence
<1>28. ASSUME NEW w \in Worker, NEW r \in Request, Verify(w, r)
      PROVE  HandlerInv'
  BY <1>28 DEF Verify
<1>29. CASE UNCHANGED vars
  BY <1>29 DEF vars
<1> QED
  BY <1>1, <1>2, <1>3, <1>4, <1>5, <1>6, <1>7, <1>8, <1>9, <1>10, <1>11, <1>12, <1>13, <1>14, <1>15, <1>16, <1>17, <1>18, <1>19, <1>20, <1>21, <1>22, <1>23, <1>24, <1>25, <1>26, <1>27, <1>28, <1>29
     DEF Next, Handler, Reconcile

LEMMA MailStep == IInv /\ [Next]_vars => MailInv'
<1> SUFFICES ASSUME IInv, [Next]_vars PROVE MailInv'
  OBVIOUS
<1> TypeOK /\ HandlerInv /\ MailInv /\ WorkerInv /\ OrderInv
  BY DEF IInv
<1> USE DEF TypeOK, MailInv, Finish, Goto, Drop, attemptVars, rowVars, mailVars,
            handlerVars, wireVars, workerVars
<1>1. ASSUME NEW r \in Request, Load(r) PROVE MailInv'
  BY <1>1 DEF Load
<1>2. ASSUME NEW r \in Request, Refuse(r) PROVE MailInv'
  BY <1>2 DEF Refuse
<1>3. ASSUME NEW r \in Request, RefuseStale(r) PROVE MailInv'
  BY <1>3 DEF RefuseStale
<1>4. ASSUME NEW r \in Request, NEW ov \in Request \cup {NoOne},
             RefuseInFlight(r, ov)
      PROVE  MailInv'
  <2> DEFINE st == AfterOverride(AfterExpiry, ov)
  <2>1. /\ st \in [Request -> Status]
        /\ \A q \in Request :
              \/ st[q] = status[q]
              \/ /\ status[q] = "preparing"
                 /\ st[q] \in {"expired", "abandoned"}
              \/ /\ status[q] \in {"inflight", "unknown"}
                 /\ st[q] = "abandoned"
        /\ Blocking(st) = {} =>
              \A q \in Request :
                 st[q] \in {"none", "sent", "failed", "abandoned", "expired"}
    BY GuardRows
  <2> HIDE DEF st
  <2> QED
    BY <1>4, <2>1 DEF RefuseInFlight, st
<1>5. ASSUME NEW r \in Request, NEW ov \in Request \cup {NoOne},
             Admit(r, ov)
      PROVE  MailInv'
  <2> DEFINE st == AfterOverride(AfterExpiry, ov)
  <2>1. /\ st \in [Request -> Status]
        /\ \A q \in Request :
              \/ st[q] = status[q]
              \/ /\ status[q] = "preparing"
                 /\ st[q] \in {"expired", "abandoned"}
              \/ /\ status[q] \in {"inflight", "unknown"}
                 /\ st[q] = "abandoned"
        /\ Blocking(st) = {} =>
              \A q \in Request :
                 st[q] \in {"none", "sent", "failed", "abandoned", "expired"}
    BY GuardRows
  <2>2. /\ status' = [st EXCEPT ![r] = "preparing"]
        /\ Blocking(st) = {}
        /\ overridden' = overridden \cup {q \in Request : st[q] = "abandoned"}
    BY <1>5 DEF Admit
  <2>3. /\ pc[r] = "loaded" /\ expected[r] = repliedAt
        /\ createdAt' = [createdAt EXCEPT ![r] = clock + 1]
        /\ clock' = clock + 1
        /\ Goto(r, "claimed")
        /\ UNCHANGED <<aged, providerId, verified, mailVars, wireVars, workerVars>>
    BY <1>5 DEF Admit
  <2> HIDE DEF st
  <2> QED
    BY <2>1, <2>2, <2>3 DEF HandlerInv
<1>6. ASSUME NEW r \in Request, Age(r) PROVE MailInv'
  BY <1>6 DEF Age
<1>7. ASSUME NEW r \in Request, ToInflight(r) PROVE MailInv'
  BY <1>7 DEF ToInflight, MarkInflight
<1>8. ASSUME NEW r \in Request, DeadlineBeforeCall(r) PROVE MailInv'
  BY <1>8 DEF DeadlineBeforeCall
<1>9. ASSUME NEW r \in Request, CreateReply(r) PROVE MailInv'
  BY <1>9 DEF CreateReply
<1>10. ASSUME NEW r \in Request, RecordDraft(r) PROVE MailInv'
  BY <1>10 DEF RecordDraft
<1>11. ASSUME NEW r \in Request, RecordDraftFails(r) PROVE MailInv'
  BY <1>11 DEF RecordDraftFails, HandlerInv
<1>12. ASSUME NEW r \in Request, IssueSend(r) PROVE MailInv'
  BY <1>12 DEF IssueSend, HandlerInv
<1>13. ASSUME NEW r \in Request, Deliver(r) PROVE MailInv'
  BY <1>13 DEF Deliver
<1>14. ASSUME NEW r \in Request, AnswerAccepted(r) PROVE MailInv'
  BY <1>14 DEF AnswerAccepted
<1>15. ASSUME NEW r \in Request, AnswerRejected(r) PROVE MailInv'
  BY <1>15 DEF AnswerRejected
<1>16. ASSUME NEW r \in Request, AnswerAmbiguous(r) PROVE MailInv'
  BY <1>16 DEF AnswerAmbiguous
<1>17. ASSUME NEW r \in Request, FailSend(r) PROVE MailInv'
  BY <1>17 DEF FailSend, MarkFailed, HandlerInv
<1>18. ASSUME NEW r \in Request, UnknownSend(r) PROVE MailInv'
  BY <1>18 DEF UnknownSend, MarkUnknown
<1>19. ASSUME NEW r \in Request, SettleInFreshSessionFails(r) PROVE MailInv'
  BY <1>19 DEF SettleInFreshSessionFails
<1>20. ASSUME NEW r \in Request, Complete(r) PROVE MailInv'
  BY <1>20, CompletionEffect DEF Complete, AdvanceFence
<1>21. ASSUME NEW r \in Request, CompleteFails(r) PROVE MailInv'
  <2>1. CASE CompletionWrites(r)
    BY <1>21, <2>1, CompletionEffect DEF CompleteFails, AdvanceFence
  <2>2. CASE UNCHANGED <<attemptVars, mailVars>>
    BY <1>21, <2>2 DEF CompleteFails
  <2> QED
    BY <1>21, <2>1, <2>2 DEF CompleteFails
<1>22. ASSUME NEW r \in Request, HandlerDies(r) PROVE MailInv'
  BY <1>22 DEF HandlerDies
<1>23. ASSUME NEW r \in Request, Ingest(r) PROVE MailInv'
  BY <1>23 DEF Ingest
<1>24. ASSUME NEW w \in Worker, Scan(w) PROVE MailInv'
  BY <1>24 DEF Scan
<1>25. ASSUME NEW w \in Worker, PassFails(w) PROVE MailInv'
  BY <1>25 DEF PassFails
<1>26. ASSUME NEW w \in Worker, NEW r \in Request, PickUp(w, r)
      PROVE  MailInv'
  BY <1>26 DEF PickUp, Matches
<1>27. ASSUME NEW w \in Worker, NEW r \in Request, Settle(w, r)
      PROVE  MailInv'
  <2>1. /\ delivered[r] /\ wire[r]
        /\ status[r] \in {"inflight", "abandoned", "unknown", "sent"}
        /\ status' = [status EXCEPT ![r] = "sent"]
        /\ repliedAt' = AdvanceFence(r)
    BY <1>27, SettleEffect
  <2>2. \A q \in Request : providerId[q] => providerId'[q]
    BY <1>27, SettleEffect
  <2>3. UNCHANGED <<rowVars, persisted, handlerVars, wireVars, overridden>>
    BY <1>27 DEF Settle
  <2> QED
    BY <2>1, <2>2, <2>3 DEF AdvanceFence
<1>28. ASSUME NEW w \in Worker, NEW r \in Request, Verify(w, r)
      PROVE  MailInv'
  BY <1>28 DEF Verify
<1>29. CASE UNCHANGED vars
  BY <1>29 DEF vars
<1> QED
  BY <1>1, <1>2, <1>3, <1>4, <1>5, <1>6, <1>7, <1>8, <1>9, <1>10, <1>11, <1>12, <1>13, <1>14, <1>15, <1>16, <1>17, <1>18, <1>19, <1>20, <1>21, <1>22, <1>23, <1>24, <1>25, <1>26, <1>27, <1>28, <1>29
     DEF Next, Handler, Reconcile

LEMMA WorkerStep == IInv /\ [Next]_vars => WorkerInv'
<1> SUFFICES ASSUME IInv, [Next]_vars PROVE WorkerInv'
  OBVIOUS
<1> TypeOK /\ HandlerInv /\ MailInv /\ WorkerInv /\ OrderInv
  BY DEF IInv
<1> USE DEF TypeOK, WorkerInv, Finish, Goto, Drop, attemptVars, rowVars, mailVars,
            handlerVars, wireVars, workerVars
<1>1. ASSUME NEW r \in Request, Load(r) PROVE WorkerInv'
  BY <1>1 DEF Load
<1>2. ASSUME NEW r \in Request, Refuse(r) PROVE WorkerInv'
  BY <1>2 DEF Refuse
<1>3. ASSUME NEW r \in Request, RefuseStale(r) PROVE WorkerInv'
  BY <1>3 DEF RefuseStale
<1>4. ASSUME NEW r \in Request, NEW ov \in Request \cup {NoOne},
             RefuseInFlight(r, ov)
      PROVE  WorkerInv'
  <2> DEFINE st == AfterOverride(AfterExpiry, ov)
  <2>1. /\ st \in [Request -> Status]
        /\ \A q \in Request :
              \/ st[q] = status[q]
              \/ /\ status[q] = "preparing"
                 /\ st[q] \in {"expired", "abandoned"}
              \/ /\ status[q] \in {"inflight", "unknown"}
                 /\ st[q] = "abandoned"
        /\ Blocking(st) = {} =>
              \A q \in Request :
                 st[q] \in {"none", "sent", "failed", "abandoned", "expired"}
    BY GuardRows
  <2> HIDE DEF st
  <2> QED
    BY <1>4, <2>1 DEF RefuseInFlight, st
<1>5. ASSUME NEW r \in Request, NEW ov \in Request \cup {NoOne},
             Admit(r, ov)
      PROVE  WorkerInv'
  <2> DEFINE st == AfterOverride(AfterExpiry, ov)
  <2>1. /\ st \in [Request -> Status]
        /\ \A q \in Request :
              \/ st[q] = status[q]
              \/ /\ status[q] = "preparing"
                 /\ st[q] \in {"expired", "abandoned"}
              \/ /\ status[q] \in {"inflight", "unknown"}
                 /\ st[q] = "abandoned"
        /\ Blocking(st) = {} =>
              \A q \in Request :
                 st[q] \in {"none", "sent", "failed", "abandoned", "expired"}
    BY GuardRows
  <2>2. /\ status' = [st EXCEPT ![r] = "preparing"]
        /\ Blocking(st) = {}
        /\ overridden' = overridden \cup {q \in Request : st[q] = "abandoned"}
    BY <1>5 DEF Admit
  <2>3. /\ pc[r] = "loaded" /\ expected[r] = repliedAt
        /\ createdAt' = [createdAt EXCEPT ![r] = clock + 1]
        /\ clock' = clock + 1
        /\ Goto(r, "claimed")
        /\ UNCHANGED <<aged, providerId, verified, mailVars, wireVars, workerVars>>
    BY <1>5 DEF Admit
  <2> HIDE DEF st
  <2>4. status[r] = "none"
    BY <2>3 DEF HandlerInv
  <2> QED
    BY <2>1, <2>2, <2>3, <2>4
<1>6. ASSUME NEW r \in Request, Age(r) PROVE WorkerInv'
  BY <1>6 DEF Age
<1>7. ASSUME NEW r \in Request, ToInflight(r) PROVE WorkerInv'
  BY <1>7 DEF ToInflight, MarkInflight
<1>8. ASSUME NEW r \in Request, DeadlineBeforeCall(r) PROVE WorkerInv'
  BY <1>8 DEF DeadlineBeforeCall
<1>9. ASSUME NEW r \in Request, CreateReply(r) PROVE WorkerInv'
  BY <1>9 DEF CreateReply
<1>10. ASSUME NEW r \in Request, RecordDraft(r) PROVE WorkerInv'
  BY <1>10 DEF RecordDraft
<1>11. ASSUME NEW r \in Request, RecordDraftFails(r) PROVE WorkerInv'
  BY <1>11 DEF RecordDraftFails
<1>12. ASSUME NEW r \in Request, IssueSend(r) PROVE WorkerInv'
  BY <1>12 DEF IssueSend
<1>13. ASSUME NEW r \in Request, Deliver(r) PROVE WorkerInv'
  BY <1>13 DEF Deliver
<1>14. ASSUME NEW r \in Request, AnswerAccepted(r) PROVE WorkerInv'
  BY <1>14 DEF AnswerAccepted
<1>15. ASSUME NEW r \in Request, AnswerRejected(r) PROVE WorkerInv'
  BY <1>15 DEF AnswerRejected
<1>16. ASSUME NEW r \in Request, AnswerAmbiguous(r) PROVE WorkerInv'
  BY <1>16 DEF AnswerAmbiguous
<1>17. ASSUME NEW r \in Request, FailSend(r) PROVE WorkerInv'
  BY <1>17 DEF FailSend, MarkFailed
<1>18. ASSUME NEW r \in Request, UnknownSend(r) PROVE WorkerInv'
  BY <1>18 DEF UnknownSend, MarkUnknown
<1>19. ASSUME NEW r \in Request, SettleInFreshSessionFails(r) PROVE WorkerInv'
  BY <1>19 DEF SettleInFreshSessionFails
<1>20. ASSUME NEW r \in Request, Complete(r) PROVE WorkerInv'
  BY <1>20, CompletionEffect DEF Complete, AdvanceFence
<1>21. ASSUME NEW r \in Request, CompleteFails(r) PROVE WorkerInv'
  <2>1. CASE CompletionWrites(r)
    BY <1>21, <2>1, CompletionEffect DEF CompleteFails, AdvanceFence
  <2>2. CASE UNCHANGED <<attemptVars, mailVars>>
    BY <1>21, <2>2 DEF CompleteFails
  <2> QED
    BY <1>21, <2>1, <2>2 DEF CompleteFails
<1>22. ASSUME NEW r \in Request, HandlerDies(r) PROVE WorkerInv'
  BY <1>22 DEF HandlerDies
<1>23. ASSUME NEW r \in Request, Ingest(r) PROVE WorkerInv'
  BY <1>23 DEF Ingest
<1>24. ASSUME NEW w \in Worker, Scan(w) PROVE WorkerInv'
  BY <1>24 DEF Scan
<1>25. ASSUME NEW w \in Worker, PassFails(w) PROVE WorkerInv'
  BY <1>25 DEF PassFails
<1>26. ASSUME NEW w \in Worker, NEW r \in Request, PickUp(w, r)
      PROVE  WorkerInv'
  BY <1>26 DEF PickUp, Matches
<1>27. ASSUME NEW w \in Worker, NEW r \in Request, Settle(w, r)
      PROVE  WorkerInv'
  <2>1. status' = [status EXCEPT ![r] = "sent"]
    BY <1>27, SettleEffect
  <2>2. \/ Drop(w)
        \/ phase' = [phase EXCEPT ![w] = "verify"] /\ UNCHANGED <<cur, seen>>
    BY <1>27, SettleEffect
  <2>3. UNCHANGED persisted
    BY <1>27 DEF Settle
  <2>4. phase[w] # "idle"
    BY <1>27 DEF Settle
  <2> QED
    BY <2>1, <2>2, <2>3, <2>4
<1>28. ASSUME NEW w \in Worker, NEW r \in Request, Verify(w, r)
      PROVE  WorkerInv'
  BY <1>28 DEF Verify
<1>29. CASE UNCHANGED vars
  BY <1>29 DEF vars
<1> QED
  BY <1>1, <1>2, <1>3, <1>4, <1>5, <1>6, <1>7, <1>8, <1>9, <1>10, <1>11, <1>12, <1>13, <1>14, <1>15, <1>16, <1>17, <1>18, <1>19, <1>20, <1>21, <1>22, <1>23, <1>24, <1>25, <1>26, <1>27, <1>28, <1>29
     DEF Next, Handler, Reconcile

LEMMA OrderStep == IInv /\ [Next]_vars => OrderInv'
<1> SUFFICES ASSUME IInv, [Next]_vars PROVE OrderInv'
  OBVIOUS
<1> TypeOK /\ HandlerInv /\ MailInv /\ WorkerInv /\ OrderInv
  BY DEF IInv
<1> USE DEF TypeOK, OrderInv, Finish, Goto, Drop, attemptVars, rowVars, mailVars,
            handlerVars, wireVars, workerVars
<1>1. ASSUME NEW r \in Request, Load(r) PROVE OrderInv'
  BY <1>1 DEF Load, HandlerInv
<1>2. ASSUME NEW r \in Request, Refuse(r) PROVE OrderInv'
  BY <1>2 DEF Refuse
<1>3. ASSUME NEW r \in Request, RefuseStale(r) PROVE OrderInv'
  BY <1>3 DEF RefuseStale
<1>4. ASSUME NEW r \in Request, NEW ov \in Request \cup {NoOne},
             RefuseInFlight(r, ov)
      PROVE  OrderInv'
  <2> DEFINE st == AfterOverride(AfterExpiry, ov)
  <2>1. /\ st \in [Request -> Status]
        /\ \A q \in Request :
              \/ st[q] = status[q]
              \/ /\ status[q] = "preparing"
                 /\ st[q] \in {"expired", "abandoned"}
              \/ /\ status[q] \in {"inflight", "unknown"}
                 /\ st[q] = "abandoned"
        /\ Blocking(st) = {} =>
              \A q \in Request :
                 st[q] \in {"none", "sent", "failed", "abandoned", "expired"}
    BY GuardRows
  <2> HIDE DEF st
  <2> QED
    BY <1>4, <2>1 DEF RefuseInFlight, st
<1>5. ASSUME NEW r \in Request, NEW ov \in Request \cup {NoOne},
             Admit(r, ov)
      PROVE  OrderInv'
  <2> DEFINE st == AfterOverride(AfterExpiry, ov)
  <2>1. /\ st \in [Request -> Status]
        /\ \A q \in Request :
              \/ st[q] = status[q]
              \/ /\ status[q] = "preparing"
                 /\ st[q] \in {"expired", "abandoned"}
              \/ /\ status[q] \in {"inflight", "unknown"}
                 /\ st[q] = "abandoned"
        /\ Blocking(st) = {} =>
              \A q \in Request :
                 st[q] \in {"none", "sent", "failed", "abandoned", "expired"}
    BY GuardRows
  <2>2. /\ status' = [st EXCEPT ![r] = "preparing"]
        /\ Blocking(st) = {}
        /\ overridden' = overridden \cup {q \in Request : st[q] = "abandoned"}
    BY <1>5 DEF Admit
  <2>3. /\ pc[r] = "loaded" /\ expected[r] = repliedAt
        /\ createdAt' = [createdAt EXCEPT ![r] = clock + 1]
        /\ clock' = clock + 1
        /\ Goto(r, "claimed")
        /\ UNCHANGED <<aged, providerId, verified, mailVars, wireVars, workerVars>>
    BY <1>5 DEF Admit
  <2> HIDE DEF st
  <2> QED
    BY <2>1, <2>2, <2>3 DEF HandlerInv, MailInv
<1>6. ASSUME NEW r \in Request, Age(r) PROVE OrderInv'
  BY <1>6 DEF Age
<1>7. ASSUME NEW r \in Request, ToInflight(r) PROVE OrderInv'
  BY <1>7 DEF ToInflight, MarkInflight
<1>8. ASSUME NEW r \in Request, DeadlineBeforeCall(r) PROVE OrderInv'
  BY <1>8 DEF DeadlineBeforeCall
<1>9. ASSUME NEW r \in Request, CreateReply(r) PROVE OrderInv'
  BY <1>9 DEF CreateReply
<1>10. ASSUME NEW r \in Request, RecordDraft(r) PROVE OrderInv'
  BY <1>10 DEF RecordDraft
<1>11. ASSUME NEW r \in Request, RecordDraftFails(r) PROVE OrderInv'
  BY <1>11 DEF RecordDraftFails
<1>12. ASSUME NEW r \in Request, IssueSend(r) PROVE OrderInv'
  BY <1>12 DEF IssueSend
<1>13. ASSUME NEW r \in Request, Deliver(r) PROVE OrderInv'
  BY <1>13 DEF Deliver
<1>14. ASSUME NEW r \in Request, AnswerAccepted(r) PROVE OrderInv'
  BY <1>14 DEF AnswerAccepted
<1>15. ASSUME NEW r \in Request, AnswerRejected(r) PROVE OrderInv'
  BY <1>15 DEF AnswerRejected
<1>16. ASSUME NEW r \in Request, AnswerAmbiguous(r) PROVE OrderInv'
  BY <1>16 DEF AnswerAmbiguous
<1>17. ASSUME NEW r \in Request, FailSend(r) PROVE OrderInv'
  BY <1>17 DEF FailSend, MarkFailed
<1>18. ASSUME NEW r \in Request, UnknownSend(r) PROVE OrderInv'
  BY <1>18 DEF UnknownSend, MarkUnknown
<1>19. ASSUME NEW r \in Request, SettleInFreshSessionFails(r) PROVE OrderInv'
  BY <1>19 DEF SettleInFreshSessionFails
<1>20. ASSUME NEW r \in Request, Complete(r) PROVE OrderInv'
  <2>1. pc[r] = "accepted" /\ CompletionWrites(r) /\ UNCHANGED overridden
    BY <1>20 DEF Complete
  <2>2. /\ delivered[r] /\ status[r] \in {"inflight", "abandoned", "sent"}
        /\ status' = [status EXCEPT ![r] = "sent"]
        /\ repliedAt' = AdvanceFence(r)
        /\ UNCHANGED rowVars
    BY <2>1, CompletionEffect
  <2>3. repliedAt' >= repliedAt /\ repliedAt' <= clock
    BY <2>2 DEF AdvanceFence
  <2>4. repliedAt' >= createdAt[r]
    BY <2>2 DEF AdvanceFence
  <2>5. /\ repliedAt' <= clock'
        /\ \A q \in Request :
              /\ createdAt'[q] <= clock'
              /\ (status'[q] = "none") <=> (createdAt'[q] = 0)
    BY <2>2, <2>3
  <2>6. \A q \in Request :
          /\ q \in overridden' => status'[q] \in {"abandoned", "sent", "failed"}
          /\ status'[q] = "abandoned" => q \in overridden'
    BY <2>1, <2>2
  <2>7. \A q, s \in Request :
          /\ createdAt'[q] = createdAt'[s] /\ createdAt'[q] # 0 => q = s
          /\ createdAt'[q] # 0 /\ createdAt'[q] < createdAt'[s] =>
                \/ status'[q] \in {"failed", "expired"}
                \/ q \in overridden'
                \/ status'[q] = "sent" /\ createdAt'[q] <= expected'[s]
    BY <1>20, <2>1, <2>2, <2>4 DEF Complete
  <2> QED
    BY <2>5, <2>6, <2>7
<1>21. ASSUME NEW r \in Request, CompleteFails(r) PROVE OrderInv'
  <2>1. CASE CompletionWrites(r)
    BY <1>21, <2>1, CompletionEffect DEF CompleteFails, AdvanceFence
  <2>2. CASE UNCHANGED <<attemptVars, mailVars>>
    BY <1>21, <2>2 DEF CompleteFails
  <2> QED
    BY <1>21, <2>1, <2>2 DEF CompleteFails
<1>22. ASSUME NEW r \in Request, HandlerDies(r) PROVE OrderInv'
  BY <1>22 DEF HandlerDies
<1>23. ASSUME NEW r \in Request, Ingest(r) PROVE OrderInv'
  BY <1>23 DEF Ingest
<1>24. ASSUME NEW w \in Worker, Scan(w) PROVE OrderInv'
  BY <1>24 DEF Scan
<1>25. ASSUME NEW w \in Worker, PassFails(w) PROVE OrderInv'
  BY <1>25 DEF PassFails
<1>26. ASSUME NEW w \in Worker, NEW r \in Request, PickUp(w, r)
      PROVE  OrderInv'
  BY <1>26 DEF PickUp, Matches
<1>27. ASSUME NEW w \in Worker, NEW r \in Request, Settle(w, r)
      PROVE  OrderInv'
  <2>1. /\ delivered[r] /\ wire[r]
        /\ status[r] \in {"inflight", "abandoned", "unknown", "sent"}
        /\ status' = [status EXCEPT ![r] = "sent"]
        /\ repliedAt' = AdvanceFence(r)
    BY <1>27, SettleEffect
  <2>2. \A q \in Request : providerId[q] => providerId'[q]
    BY <1>27, SettleEffect
  <2>3. UNCHANGED <<rowVars, persisted, handlerVars, wireVars, overridden>>
    BY <1>27 DEF Settle
  <2> QED
    BY <2>1, <2>2, <2>3 DEF AdvanceFence
<1>28. ASSUME NEW w \in Worker, NEW r \in Request, Verify(w, r)
      PROVE  OrderInv'
  BY <1>28 DEF Verify
<1>29. CASE UNCHANGED vars
  BY <1>29 DEF vars
<1> QED
  BY <1>1, <1>2, <1>3, <1>4, <1>5, <1>6, <1>7, <1>8, <1>9, <1>10, <1>11, <1>12, <1>13, <1>14, <1>15, <1>16, <1>17, <1>18, <1>19, <1>20, <1>21, <1>22, <1>23, <1>24, <1>25, <1>26, <1>27, <1>28, <1>29
     DEF Next, Handler, Reconcile

-----------------------------------------------------------------------------
(* The inductive invariant holds in every reachable state, for any number   *)
(* of requests and of reconciliation workers and for either provider.       *)
THEOREM Invariance == Spec => []IInv
<1>1. Init => IInv
  <2> SUFFICES ASSUME Init PROVE IInv
    OBVIOUS
  <2>1. TypeOK
    BY TypeInit
  <2>2. HandlerInv /\ MailInv
    BY DEF Init, HandlerInv, MailInv
  <2>3. WorkerInv /\ OrderInv
    BY DEF Init, WorkerInv, OrderInv
  <2> QED
    BY <2>1, <2>2, <2>3 DEF IInv
<1>2. IInv /\ [Next]_vars => IInv'
  BY TypeStep, HandlerStep, MailStep, WorkerStep, OrderStep DEF IInv
<1> QED
  BY <1>1, <1>2, PTL DEF Spec

THEOREM TypeCorrect == Spec => []TypeOK
<1>1. IInv => TypeOK
  BY DEF IInv
<1> QED
  BY <1>1, Invariance, PTL

(* However the claims, expiries, overrides and deaths of any number of      *)
(* requests interleave, at most one attempt of the thread is still under    *)
(* way: two of them would be ordered by created_at, and the later admission *)
(* left the earlier one terminal or overridden.                             *)
THEOREM SingleBlocker == Spec => []AtMostOneBlocker
<1>1. IInv => AtMostOneBlocker
  <2> SUFFICES ASSUME IInv, NEW q \in Request, NEW r \in Request,
                      status[q] \in {"preparing", "inflight", "unknown"},
                      status[r] \in {"preparing", "inflight", "unknown"}
               PROVE  q = r
    BY DEF AtMostOneBlocker
  <2>1. createdAt[q] # 0 /\ createdAt[r] # 0
    BY DEF IInv, OrderInv
  <2>2. q \notin overridden /\ r \notin overridden
    BY DEF IInv, OrderInv
  <2>3. ~(createdAt[q] < createdAt[r]) /\ ~(createdAt[r] < createdAt[q])
    BY <2>1, <2>2 DEF IInv, OrderInv
  <2>4. createdAt[q] = createdAt[r]
    BY <2>3 DEF IInv, TypeOK
  <2> QED
    BY <2>1, <2>4 DEF IInv, OrderInv
<1> QED
  BY <1>1, Invariance, PTL

(* An attempt that reads failed or expired sent no mail, and none of its    *)
(* calls is left that could.                                                *)
THEOREM TerminalUnsent == Spec => []TerminalIsUnsent
<1>1. IInv => TerminalIsUnsent
  BY DEF IInv, MailInv, TerminalIsUnsent
<1> QED
  BY <1>1, Invariance, PTL

(* sent means the provider sent it and the fence covers it.                 *)
THEOREM SentTruth == Spec => []SentIsTruth
<1>1. IInv => SentIsTruth
  BY DEF IInv, MailInv, SentIsTruth
<1> QED
  BY <1>1, Invariance, PTL

(* No answer the client was given is belied by what the provider did.       *)
THEOREM HonestResponse == Spec => []ResponseIsHonest
<1>1. IInv => ResponseIsHonest
  BY DEF IInv, MailInv, HandlerInv, ResponseIsHonest
<1> QED
  BY <1>1, Invariance, PTL

(* Two replies of a thread both reach the provider only if the user         *)
(* overrode the earlier one or had seen it settled.                         *)
THEOREM NoDuplicate == Spec => []NoUnseenDuplicate
<1>1. IInv => NoUnseenDuplicate
  <2> SUFFICES ASSUME IInv, NEW q \in Request, NEW r \in Request,
                      wire[q] \/ delivered[q],
                      createdAt[q] < createdAt[r]
               PROVE  \/ q \in overridden
                      \/ status[q] = "sent" /\ createdAt[q] <= expected[r]
    BY DEF NoUnseenDuplicate
  <2>1. status[q] \in {"inflight", "abandoned", "unknown", "sent"}
    BY DEF IInv, MailInv
  <2>2. createdAt[q] # 0
    BY <2>1 DEF IInv, OrderInv
  <2> QED
    BY <2>1, <2>2 DEF IInv, OrderInv
<1> QED
  BY <1>1, Invariance, PTL

(* Mail that left, or still may, is matchable and its row settleable.       *)
THEOREM Settleable == Spec => []DeliveredIsSettleable
<1>1. IInv => DeliveredIsSettleable
  BY DEF IInv, MailInv, DeliveredIsSettleable
<1> QED
  BY <1>1, Invariance, PTL

-----------------------------------------------------------------------------
(* Only a completion or a settlement moves the fence, and both advance it.  *)
LEMMA FenceStep == IInv /\ [Next]_vars => repliedAt <= repliedAt'
<1> SUFFICES ASSUME IInv, [Next]_vars PROVE repliedAt <= repliedAt'
  OBVIOUS
<1>1. repliedAt \in Nat /\ \A r \in Request : AdvanceFence(r) >= repliedAt
  BY DEF IInv, TypeOK, AdvanceFence
<1>2. CASE \E r \in Request : Complete(r) \/ CompleteFails(r)
  BY <1>1, <1>2 DEF Complete, CompleteFails, CompletionWrites, mailVars
<1>3. CASE \E w \in Worker, r \in Request : Settle(w, r)
  BY <1>1, <1>3, SettleEffect
<1>4. CASE UNCHANGED repliedAt
  BY <1>1, <1>4
<1>5. \/ \E r \in Request : Complete(r) \/ CompleteFails(r)
      \/ \E w \in Worker, r \in Request : Settle(w, r)
      \/ UNCHANGED repliedAt
  BY DEF Next, Handler, Reconcile, vars, mailVars, Load, Refuse, RefuseStale,
         RefuseInFlight, Admit, Age, ToInflight, DeadlineBeforeCall, CreateReply,
         RecordDraft, RecordDraftFails, IssueSend, Deliver, AnswerAccepted,
         AnswerRejected, AnswerAmbiguous, FailSend, UnknownSend,
         SettleInFreshSessionFails, HandlerDies, Ingest, Scan, PassFails, PickUp,
         Verify
<1> QED
  BY <1>2, <1>3, <1>4, <1>5

(* The fence of a thread never moves back.                                  *)
THEOREM FenceNeverBack == Spec => FenceMonotone
  BY Invariance, FenceStep, PTL DEF Spec, FenceMonotone

(* No write of the module takes an attempt out of sent, failed or expired.  *)
LEMMA TerminalStep ==
    IInv /\ [Next]_vars => TerminalKept
<1> SUFFICES ASSUME IInv, [Next]_vars, NEW q \in Request,
                    status[q] \in {"sent", "failed", "expired"}
             PROVE  status'[q] = status[q]
  BY DEF TerminalKept
<1> TypeOK /\ HandlerInv
  BY DEF IInv
<1>1. CASE \E r \in Request, ov \in Request \cup {NoOne} :
              RefuseInFlight(r, ov) \/ Admit(r, ov)
  <2>1. PICK r \in Request, ov \in Request \cup {NoOne} :
           RefuseInFlight(r, ov) \/ Admit(r, ov)
    BY <1>1
  <2> DEFINE st == AfterOverride(AfterExpiry, ov)
  <2>2. st \in [Request -> Status] /\ st[q] = status[q]
    BY GuardRows
  <2>3. status[r] = "none"
    BY <2>1 DEF HandlerInv, RefuseInFlight, Admit
  <2>4. status' = st \/ status' = [st EXCEPT ![r] = "preparing"]
    BY <2>1 DEF RefuseInFlight, Admit
  <2> HIDE DEF st
  <2> QED
    BY <2>2, <2>3, <2>4
<1>2. CASE \E r \in Request : ToInflight(r) \/ FailSend(r) \/ UnknownSend(r)
  BY <1>2 DEF TypeOK, ToInflight, FailSend, UnknownSend, MarkInflight, MarkFailed,
              MarkUnknown
<1>3. CASE \E r \in Request : Complete(r) \/ CompleteFails(r)
  BY <1>3 DEF TypeOK, Complete, CompleteFails, CompletionWrites, MarkSent,
              attemptVars
<1>4. CASE \E w \in Worker, r \in Request : Settle(w, r)
  BY <1>4, SettleEffect DEF TypeOK
<1>5. CASE UNCHANGED status
  BY <1>5
<1>6. \/ \E r \in Request, ov \in Request \cup {NoOne} :
            RefuseInFlight(r, ov) \/ Admit(r, ov)
      \/ \E r \in Request : ToInflight(r) \/ FailSend(r) \/ UnknownSend(r)
      \/ \E r \in Request : Complete(r) \/ CompleteFails(r)
      \/ \E w \in Worker, r \in Request : Settle(w, r)
      \/ UNCHANGED status
  BY DEF Next, Handler, Reconcile, vars, attemptVars, Load, Refuse, RefuseStale,
         Age, DeadlineBeforeCall, CreateReply, RecordDraft, RecordDraftFails,
         IssueSend, Deliver, AnswerAccepted, AnswerRejected, AnswerAmbiguous,
         SettleInFreshSessionFails, HandlerDies, Ingest, Scan, PassFails, PickUp,
         Verify
<1> QED
  BY <1>1, <1>2, <1>3, <1>4, <1>5, <1>6

(* sent, failed and expired are final.                                      *)
THEOREM TerminalFinal == Spec => TerminalStays
  BY Invariance, TerminalStep, PTL DEF Spec, TerminalStays

-----------------------------------------------------------------------------
(* The ledger.                                                              *)

(* What the statuses and the answers of an attempt are in the ledger.       *)
LEMMA LedgerView ==
    ASSUME TypeOK
    PROVE  /\ DOMAIN Verdicts = Request /\ DOMAIN Answers = Request
           /\ DOMAIN Shown = Request
           /\ Verdicts = [q \in Request |-> Verdicts[q]]
           /\ Answers = [q \in Request |-> Answers[q]]
           /\ Shown = [q \in Request |-> Shown[q]]
           /\ \A q \in Request :
                 /\ status[q] = "none" <=> Verdicts[q] = "absent"
                 /\ status[q] \in {"preparing", "inflight", "unknown"}
                       <=> Verdicts[q] = "open"
                 /\ status[q] = "abandoned" <=> Verdicts[q] = "waived"
                 /\ status[q] \in {"failed", "expired"} <=> Verdicts[q] = "unsent"
                 /\ status[q] = "sent" <=> Verdicts[q] = "sent"
           /\ \A q \in Request :
                 /\ resp[q] = "none" <=> Answers[q] = "nothing"
                 /\ resp[q] \in {"refused", "superseded", "rejected"}
                       <=> Answers[q] = "unsent"
                 /\ resp[q] = "unknown" <=> Answers[q] = "unknown"
                 /\ resp[q] = "sent" <=> Answers[q] = "sent"
           /\ \A q \in Request :
                 /\ status[q] = "none" => Shown[q] = 0
                 /\ status[q] # "none" => Shown[q] = expected[q]
<1>1. /\ DOMAIN Verdicts = Request /\ DOMAIN Answers = Request
      /\ DOMAIN Shown = Request
      /\ Verdicts = [q \in Request |-> Verdicts[q]]
      /\ Answers = [q \in Request |-> Answers[q]]
      /\ Shown = [q \in Request |-> Shown[q]]
  BY DEF Verdicts, Answers, Shown
<1>2. ASSUME NEW q \in Request
      PROVE  /\ status[q] = "none" <=> Verdicts[q] = "absent"
             /\ status[q] \in {"preparing", "inflight", "unknown"}
                   <=> Verdicts[q] = "open"
             /\ status[q] = "abandoned" <=> Verdicts[q] = "waived"
             /\ status[q] \in {"failed", "expired"} <=> Verdicts[q] = "unsent"
             /\ status[q] = "sent" <=> Verdicts[q] = "sent"
  <2>1. status[q] \in Status
    BY DEF TypeOK
  <2> QED
    BY <2>1 DEF Verdicts, Status
<1>3. ASSUME NEW q \in Request
      PROVE  /\ resp[q] = "none" <=> Answers[q] = "nothing"
             /\ resp[q] \in {"refused", "superseded", "rejected"}
                   <=> Answers[q] = "unsent"
             /\ resp[q] = "unknown" <=> Answers[q] = "unknown"
             /\ resp[q] = "sent" <=> Answers[q] = "sent"
  <2>1. resp[q] \in Response
    BY DEF TypeOK
  <2> QED
    BY <2>1 DEF Answers, Response
<1>4. ASSUME NEW q \in Request
      PROVE  /\ status[q] = "none" => Shown[q] = 0
             /\ status[q] # "none" => Shown[q] = expected[q]
  BY DEF Shown
<1> QED
  BY <1>1, <1>2, <1>3, <1>4

(* A function of the attempts that is changed at one of them.               *)
LEMMA ChangedAtOne ==
    ASSUME NEW f, NEW g, NEW r \in Request,
           f = [q \in Request |-> f[q]], g = [q \in Request |-> g[q]],
           \A q \in Request \ {r} : g[q] = f[q]
    PROVE  /\ g = [f EXCEPT ![r] = g[r]]
           /\ g[r] = f[r] => g = f
<1>1. [f EXCEPT ![r] = g[r]] = [q \in Request |-> IF q = r THEN g[r] ELSE f[q]]
  OBVIOUS
<1>2. g = [q \in Request |-> IF q = r THEN g[r] ELSE f[q]]
  OBVIOUS
<1>3. g[r] = f[r] => g = f
  OBVIOUS
<1> QED
  BY <1>1, <1>2, <1>3

(* The provider is asked nothing, no row is added and no client told: the   *)
(* ledger does not move.                                                    *)
LEMMA LedgerStutters ==
    ASSUME TypeOK, UNCHANGED <<status, createdAt, delivered, repliedAt, resp>>,
           \A q \in Request : status[q] = "none" \/ expected'[q] = expected[q]
    PROVE  UNCHANGED Ledger!vars
<1>1. Verdicts' = Verdicts /\ Answers' = Answers
  BY DEF Verdicts, Answers
<1>2. Shown' = Shown
  BY DEF Shown
<1> QED
  BY <1>1, <1>2 DEF Ledger!vars

(* A step about one attempt: its status stays what it says, or decides an   *)
(* undecided one; its client is told nothing, or the truth.                 *)
LEMMA LedgerSettles ==
    ASSUME TypeOK, TypeOK', NEW r \in Request,
           UNCHANGED <<createdAt, delivered, expected>>,
           \A q \in Request \ {r} : status'[q] = status[q] /\ resp'[q] = resp[q],
           \/ /\ \/ status'[r] = status[r]
                 \/ /\ status[r] \in {"preparing", "inflight", "unknown"}
                    /\ status'[r] \in {"preparing", "inflight", "unknown"}
              /\ UNCHANGED repliedAt
           \/ /\ status[r] \in {"inflight", "unknown", "abandoned"}
              /\ ~delivered[r] /\ status'[r] = "failed"
              /\ UNCHANGED repliedAt
           \/ /\ status[r] \in {"inflight", "unknown", "abandoned"}
              /\ delivered[r] /\ status'[r] = "sent"
              /\ repliedAt' = AdvanceFence(r),
           \/ resp'[r] = resp[r]
           \/ /\ resp[r] = "none"
              /\ \/ resp'[r] = "unknown"
                 \/ resp'[r] \in {"refused", "superseded", "rejected"} /\ ~delivered[r]
                 \/ resp'[r] = "sent" /\ status'[r] = "sent"
    PROVE  Ledger!Settle(r)
<1>1. \A q \in Request : (status'[q] = "none" <=> status[q] = "none")
  OBVIOUS
<1>2. Shown' = Shown
  BY <1>1 DEF Shown
<1>3. \A q \in Request \ {r} : Verdicts'[q] = Verdicts[q] /\ Answers'[q] = Answers[q]
  BY DEF Verdicts, Answers
<1>4. /\ Verdicts' = [Verdicts EXCEPT ![r] = Verdicts'[r]]
      /\ Verdicts'[r] = Verdicts[r] => Verdicts' = Verdicts
      /\ Answers' = [Answers EXCEPT ![r] = Answers'[r]]
      /\ Answers'[r] = Answers[r] => Answers' = Answers
  <2>1. /\ Verdicts = [q \in Request |-> Verdicts[q]]
        /\ Answers = [q \in Request |-> Answers[q]]
        /\ Verdicts' = [q \in Request |-> Verdicts'[q]]
        /\ Answers' = [q \in Request |-> Answers'[q]]
    BY DEF Verdicts, Answers
  <2> QED
    BY <1>3, <2>1, ChangedAtOne
<1>5. /\ status'[r] \in {"preparing", "inflight", "unknown"} <=> Verdicts'[r] = "open"
      /\ status'[r] = "failed" => Verdicts'[r] = "unsent"
      /\ status'[r] = "sent" <=> Verdicts'[r] = "sent"
      /\ status'[r] = status[r] => Verdicts'[r] = Verdicts[r]
  BY DEF Verdicts, TypeOK, Status
<1>6. /\ resp'[r] = "unknown" => Answers'[r] = "unknown"
      /\ resp'[r] \in {"refused", "superseded", "rejected"} => Answers'[r] = "unsent"
      /\ resp'[r] = "sent" => Answers'[r] = "sent"
      /\ resp'[r] = resp[r] => Answers'[r] = Answers[r]
  BY DEF Answers
<1>7. \/ Ledger!DecideUnsent(r) \/ Ledger!DecideSent(r)
      \/ UNCHANGED <<Verdicts, repliedAt>>
  <2>1. CASE /\ \/ status'[r] = status[r]
                \/ /\ status[r] \in {"preparing", "inflight", "unknown"}
                   /\ status'[r] \in {"preparing", "inflight", "unknown"}
             /\ UNCHANGED repliedAt
    <3>1. Verdicts'[r] = Verdicts[r]
      BY <1>5, <2>1, LedgerView
    <3>2. Verdicts' = Verdicts
      BY <1>4, <3>1
    <3> QED
      BY <2>1, <3>2
  <2>2. CASE /\ status[r] \in {"inflight", "unknown", "abandoned"}
             /\ ~delivered[r] /\ status'[r] = "failed"
             /\ UNCHANGED repliedAt
    <3>1. Verdicts[r] \in {"open", "waived"} /\ Verdicts'[r] = "unsent"
      BY <1>5, <2>2, LedgerView
    <3> QED
      BY <1>4, <2>2, <3>1 DEF Ledger!DecideUnsent, Ledger!Undecided
  <2>3. CASE /\ status[r] \in {"inflight", "unknown", "abandoned"}
             /\ delivered[r] /\ status'[r] = "sent"
             /\ repliedAt' = AdvanceFence(r)
    <3>1. Verdicts[r] \in {"open", "waived"} /\ Verdicts'[r] = "sent"
      BY <1>5, <2>3, LedgerView
    <3> QED
      BY <1>4, <2>3, <3>1 DEF Ledger!DecideSent, Ledger!Undecided, AdvanceFence
  <2> QED
    BY <2>1, <2>2, <2>3
<1>8. Ledger!Tell(r) \/ UNCHANGED Answers
  <2>1. CASE resp'[r] = resp[r]
    BY <1>4, <1>6, <2>1
  <2>2. CASE /\ resp[r] = "none"
             /\ \/ resp'[r] = "unknown"
                \/ /\ resp'[r] \in {"refused", "superseded", "rejected"}
                   /\ ~delivered[r]
                \/ resp'[r] = "sent" /\ status'[r] = "sent"
    <3>1. Answers[r] = "nothing"
      BY <2>2, LedgerView
    <3> QED
      BY <1>4, <1>5, <1>6, <2>2, <3>1 DEF Ledger!Tell
  <2> QED
    BY <2>1, <2>2
<1> QED
  BY <1>2, <1>7, <1>8 DEF Ledger!Settle

(* A new attempt: every other one that is open is released first.           *)
LEMMA LedgerAsks ==
    ASSUME IInv, IInv', NEW r \in Request, NEW ov \in Request \cup {NoOne},
           Admit(r, ov)
    PROVE  Ledger!Ask(r)
<1> DEFINE st == AfterOverride(AfterExpiry, ov)
           W == {q \in Request : Verdicts[q] = "open" /\ st[q] = "abandoned"}
           E == Ledger!Open \ W
<1>0. TypeOK /\ TypeOK' /\ HandlerInv /\ MailInv /\ OrderInv
  BY DEF IInv
<1>1. /\ pc[r] = "loaded" /\ expected[r] = repliedAt
      /\ status' = [st EXCEPT ![r] = "preparing"]
      /\ createdAt' = [createdAt EXCEPT ![r] = clock + 1]
      /\ Blocking(st) = {}
      /\ UNCHANGED <<expected, resp, repliedAt, delivered>>
  BY DEF Admit, Goto, mailVars, wireVars
<1>2. /\ \A q \in Request :
            \/ st[q] = status[q]
            \/ /\ status[q] = "preparing"
               /\ st[q] \in {"expired", "abandoned"}
            \/ /\ status[q] \in {"inflight", "unknown"}
               /\ st[q] = "abandoned"
      /\ \A q \in Request :
            st[q] \in {"none", "sent", "failed", "abandoned", "expired"}
      /\ st \in [Request -> Status]
  BY <1>0, <1>1, GuardRows
<1> HIDE DEF st
<1>3. status[r] = "none" /\ resp[r] = "none"
  BY <1>0, <1>1 DEF HandlerInv
<1>4. Verdicts[r] = "absent" /\ Answers[r] = "nothing"
  BY <1>0, <1>3, LedgerView
<1>5. Answers' = Answers
  BY <1>1 DEF Answers
<1>6. /\ status'[r] = "preparing"
      /\ \A q \in Request \ {r} : status'[q] = st[q]
  BY <1>1, <1>2
<1>7. \A q \in Request \ {r} :
         Verdicts'[q] = IF q \in W THEN "waived"
                        ELSE IF q \in E THEN "unsent" ELSE Verdicts[q]
  <2> SUFFICES ASSUME NEW q \in Request \ {r}
               PROVE  Verdicts'[q] = IF q \in W THEN "waived"
                                     ELSE IF q \in E THEN "unsent"
                                     ELSE Verdicts[q]
    OBVIOUS
  <2>1. /\ Verdicts[q] = "open"
              <=> status[q] \in {"preparing", "inflight", "unknown"}
        /\ Verdicts'[q] = "waived" <=> status'[q] = "abandoned"
        /\ Verdicts'[q] = "unsent" <=> status'[q] \in {"failed", "expired"}
    BY <1>0 DEF TypeOK, Status, Verdicts
  <2>2. CASE q \in W
    BY <1>6, <2>1, <2>2
  <2>3. CASE q \in E
    <3>1. status[q] \in {"preparing", "inflight", "unknown"} /\ st[q] # "abandoned"
      BY <2>1, <2>3 DEF Ledger!Open
    <3>2. st[q] = "expired"
      BY <1>2, <3>1
    <3> QED
      BY <1>6, <2>1, <2>3, <3>2
  <2>4. CASE q \notin W \cup E
    <3>1. status[q] \notin {"preparing", "inflight", "unknown"}
      BY <2>1, <2>4 DEF Ledger!Open
    <3>2. status'[q] = status[q]
      BY <1>2, <1>6, <3>1
    <3>3. Verdicts'[q] = Verdicts[q]
      BY <3>2 DEF Verdicts
    <3> QED
      BY <2>4, <3>3
  <2> QED
    BY <2>2, <2>3, <2>4
<1>8. Verdicts'[r] = "open"
  BY <1>6 DEF Verdicts
<1>9. Ledger!Expirable(E)
  <2> SUFFICES ASSUME NEW q \in E PROVE ~delivered[q]
    BY DEF Ledger!Expirable
  <2>1. q \in Request /\ Verdicts[q] = "open" /\ st[q] # "abandoned"
    BY DEF Ledger!Open
  <2>2. status[q] \in {"preparing", "inflight", "unknown"}
    BY <1>0, <2>1, LedgerView
  <2>3. status[q] = "preparing"
    BY <1>2, <2>1, <2>2
  <2> QED
    BY <1>0, <2>1, <2>3 DEF MailInv
<1>10. W \in SUBSET Ledger!Open
  BY DEF Ledger!Open
<1>11. Verdicts' = [Ledger!Release(W, E) EXCEPT ![r] = "open"]
  <2>1. Verdicts' = [q \in Request |-> Verdicts'[q]]
    BY DEF Verdicts
  <2>2. Verdicts' = [q \in Request |-> IF q = r THEN "open"
                                       ELSE IF q \in W THEN "waived"
                                       ELSE IF q \in E THEN "unsent"
                                       ELSE Verdicts[q]]
    BY <1>7, <1>8, <2>1
  <2> HIDE DEF W, E
  <2> QED
    BY <2>2 DEF Ledger!Release
<1>12. /\ createdAt' = [createdAt EXCEPT ![r] = createdAt'[r]]
       /\ createdAt'[r] \in Nat /\ \A q \in Request : createdAt[q] < createdAt'[r]
  BY <1>0, <1>1 DEF TypeOK, OrderInv
<1>13. Shown' = [Shown EXCEPT ![r] = repliedAt]
  <2>1. \A q \in Request \ {r} : status'[q] = "none" <=> status[q] = "none"
    BY <1>2, <1>6
  <2>2. \A q \in Request \ {r} : Shown'[q] = Shown[q]
    BY <1>1, <2>1 DEF Shown
  <2>3. Shown'[r] = repliedAt
    BY <1>1, <1>6 DEF Shown
  <2>4. Shown = [q \in Request |-> Shown[q]] /\ Shown' = [q \in Request |-> Shown'[q]]
    BY DEF Shown
  <2> QED
    BY <2>2, <2>3, <2>4, ChangedAtOne
<1> HIDE DEF W, E
<1>14. \E V \in SUBSET Ledger!Open :
          /\ Ledger!Expirable(Ledger!Open \ V)
          /\ Verdicts' = [Ledger!Release(V, Ledger!Open \ V) EXCEPT ![r] = "open"]
  <2> WITNESS W \in SUBSET Ledger!Open
  <2> QED
    BY <1>9, <1>11 DEF E
<1> QED
  BY <1>1, <1>4, <1>5, <1>12, <1>13, <1>14 DEF Ledger!Ask

(* A request that the guard turns away after all.                           *)
LEMMA LedgerTurnsAway ==
    ASSUME IInv, IInv', NEW r \in Request, NEW ov \in Request \cup {NoOne},
           RefuseInFlight(r, ov)
    PROVE  Ledger!TurnAway(r)
<1> DEFINE st == AfterOverride(AfterExpiry, ov)
           W == {q \in Request : Verdicts[q] = "open" /\ st[q] = "abandoned"}
           E == {q \in Request : Verdicts[q] = "open" /\ st[q] = "expired"}
<1>0. TypeOK /\ TypeOK' /\ HandlerInv /\ MailInv
  BY DEF IInv
<1>1. /\ pc[r] = "loaded" /\ status' = st
      /\ resp' = [resp EXCEPT ![r] = "refused"]
      /\ UNCHANGED <<expected, createdAt, repliedAt, delivered>>
  BY DEF RefuseInFlight, Finish, rowVars, mailVars, wireVars
<1>2. \A q \in Request :
         \/ st[q] = status[q]
         \/ /\ status[q] = "preparing"
            /\ st[q] \in {"expired", "abandoned"}
         \/ /\ status[q] \in {"inflight", "unknown"}
            /\ st[q] = "abandoned"
  BY <1>0, GuardRows
<1> HIDE DEF st
<1>3. status[r] = "none" /\ resp[r] = "none"
  BY <1>0, <1>1 DEF HandlerInv
<1>4. Verdicts[r] = "absent" /\ Answers[r] = "nothing"
  BY <1>0, <1>3, LedgerView
<1>5. Verdicts' = Ledger!Release(W, E)
  <2>1. ASSUME NEW q \in Request
        PROVE  Verdicts'[q] = IF q \in W THEN "waived"
                              ELSE IF q \in E THEN "unsent" ELSE Verdicts[q]
    <3>1. /\ Verdicts[q] = "open"
                <=> status[q] \in {"preparing", "inflight", "unknown"}
          /\ Verdicts'[q] = "waived" <=> status'[q] = "abandoned"
          /\ Verdicts'[q] = "unsent" <=> status'[q] \in {"failed", "expired"}
      BY <1>0 DEF TypeOK, Status, Verdicts
    <3>2. CASE q \in W \cup E
      BY <1>1, <3>1, <3>2
    <3>3. CASE q \notin W \cup E
      <4>1. status'[q] = status[q]
        BY <1>1, <1>2, <3>1, <3>3
      <4>2. Verdicts'[q] = Verdicts[q]
        BY <4>1 DEF Verdicts
      <4> QED
        BY <3>3, <4>2
    <3> QED
      BY <3>2, <3>3
  <2>2. Verdicts' = [q \in Request |-> Verdicts'[q]]
    BY DEF Verdicts
  <2> HIDE DEF W, E
  <2> QED
    BY <2>1, <2>2 DEF Ledger!Release
<1>6. Ledger!Expirable(E)
  <2> SUFFICES ASSUME NEW q \in E PROVE ~delivered[q]
    BY DEF Ledger!Expirable
  <2>1. q \in Request /\ status[q] \in {"preparing", "inflight", "unknown"}
        /\ st[q] = "expired"
    BY <1>0, LedgerView
  <2>2. status[q] = "preparing"
    BY <1>2, <2>1
  <2> QED
    BY <1>0, <2>1, <2>2 DEF MailInv
<1>7. W \in SUBSET Ledger!Open /\ E \in SUBSET Ledger!Open
  BY DEF Ledger!Open
<1>8. Answers' = [Answers EXCEPT ![r] = "unsent"]
  <2>1. \A q \in Request \ {r} : Answers'[q] = Answers[q]
    BY <1>0, <1>1 DEF Answers, TypeOK
  <2>2. Answers'[r] = "unsent"
    BY <1>0, <1>1 DEF Answers, TypeOK
  <2>3. /\ Answers = [q \in Request |-> Answers[q]]
        /\ Answers' = [q \in Request |-> Answers'[q]]
    BY DEF Answers
  <2> QED
    BY <2>1, <2>2, <2>3, ChangedAtOne
<1>9. Shown' = Shown
  <2>1. \A q \in Request : status'[q] = "none" <=> status[q] = "none"
    BY <1>1, <1>2
  <2> QED
    BY <1>1, <2>1 DEF Shown
<1> HIDE DEF W, E
<1>10. \E V \in SUBSET Ledger!Open, X \in SUBSET Ledger!Open :
          Ledger!Expirable(X) /\ Verdicts' = Ledger!Release(V, X)
  BY <1>5, <1>6, <1>7
<1> QED
  BY <1>1, <1>4, <1>8, <1>9, <1>10 DEF Ledger!TurnAway

(* The provider sends only what the ledger has undecided.                   *)
LEMMA LedgerMails ==
    ASSUME IInv, NEW r \in Request, Deliver(r)
    PROVE  Ledger!Mail(r)
<1>0. TypeOK /\ HandlerInv /\ MailInv
  BY DEF IInv
<1>1. /\ wire[r] /\ ~delivered[r]
      /\ delivered' = [delivered EXCEPT ![r] = TRUE]
      /\ UNCHANGED <<status, createdAt, repliedAt, expected, resp>>
  BY DEF Deliver, attemptVars, rowVars, mailVars, handlerVars
<1>2. status[r] \in {"inflight", "abandoned", "unknown"}
  BY <1>0, <1>1 DEF MailInv
<1>3. resp[r] \notin {"refused", "superseded", "rejected"}
  BY <1>0, <1>1 DEF HandlerInv
<1>4. Verdicts[r] \in {"open", "waived"} /\ Answers[r] # "unsent"
  BY <1>0, <1>2, <1>3, LedgerView
<1>5. UNCHANGED <<Verdicts, Answers, Shown>>
  BY <1>1 DEF Verdicts, Answers, Shown
<1> QED
  BY <1>1, <1>4, <1>5 DEF Ledger!Mail, Ledger!Undecided

(* A handler that settles its own attempt, and tells its client.            *)
LEMMA LedgerHandled ==
    ASSUME IInv, IInv', NEW r \in Request,
           \/ Refuse(r) \/ RefuseStale(r) \/ ToInflight(r) \/ FailSend(r)
           \/ UnknownSend(r) \/ SettleInFreshSessionFails(r)
           \/ Complete(r) \/ CompleteFails(r)
    PROVE  Ledger!Settle(r)
<1>0. TypeOK /\ TypeOK' /\ HandlerInv /\ MailInv
  BY DEF IInv
<1>1. pc[r] # "done" /\ resp[r] = "none"
  BY <1>0 DEF HandlerInv, Refuse, RefuseStale, ToInflight, FailSend, UnknownSend,
              SettleInFreshSessionFails, Complete, CompleteFails
<1> USE DEF Finish, Goto, attemptVars, rowVars, mailVars, wireVars
<1>2. CASE Refuse(r) \/ RefuseStale(r)
  <2>1. /\ resp' = [resp EXCEPT ![r] = "refused"] /\ pc[r] = "loaded"
        /\ UNCHANGED <<status, createdAt, delivered, expected, repliedAt>>
    BY <1>2 DEF Refuse, RefuseStale
  <2>2. ~delivered[r]
    BY <1>0, <2>1 DEF HandlerInv, MailInv
  <2>3. resp'[r] = "refused" /\ \A q \in Request \ {r} : resp'[q] = resp[q]
    BY <1>0, <2>1 DEF TypeOK
  <2> QED
    BY <1>0, <1>1, <2>1, <2>2, <2>3, LedgerSettles
<1>3. CASE ToInflight(r)
  <2>1. /\ status' = [status EXCEPT ![r] = MarkInflight(r)] /\ pc[r] = "claimed"
        /\ UNCHANGED <<createdAt, delivered, expected, repliedAt>>
        /\ \/ resp' = resp
           \/ resp' = [resp EXCEPT ![r] = "superseded"]
    BY <1>3 DEF ToInflight
  <2>2. ~delivered[r]
    BY <1>0, <2>1 DEF HandlerInv, MailInv
  <2>3. /\ \A q \in Request \ {r} : status'[q] = status[q] /\ resp'[q] = resp[q]
        /\ \/ status'[r] = status[r]
           \/ status[r] = "preparing" /\ status'[r] = "inflight"
        /\ resp'[r] = resp[r] \/ resp'[r] = "superseded"
    BY <1>0, <2>1 DEF TypeOK, MarkInflight
  <2> QED
    BY <1>0, <1>1, <2>1, <2>2, <2>3, LedgerSettles
<1>4. CASE FailSend(r)
  <2>1. /\ status' = [status EXCEPT ![r] = MarkFailed(r)]
        /\ pc[r] \in {"rejected", "recordFailed"}
        /\ resp' = [resp EXCEPT ![r] = "rejected"]
        /\ UNCHANGED <<createdAt, delivered, expected, repliedAt>>
    BY <1>4 DEF FailSend
  <2>2. status[r] \in {"inflight", "abandoned"} /\ ~delivered[r]
    BY <1>0, <2>1 DEF HandlerInv, MailInv
  <2>3. /\ \A q \in Request \ {r} : status'[q] = status[q] /\ resp'[q] = resp[q]
        /\ status'[r] = "failed" /\ resp'[r] = "rejected"
    BY <1>0, <2>1, <2>2 DEF TypeOK, MarkFailed
  <2> QED
    BY <1>0, <1>1, <2>1, <2>2, <2>3, LedgerSettles
<1>5. CASE UnknownSend(r)
  <2>1. /\ status' = [status EXCEPT ![r] = MarkUnknown(r)]
        /\ resp' = [resp EXCEPT ![r] = "unknown"]
        /\ UNCHANGED <<createdAt, delivered, expected, repliedAt>>
    BY <1>5 DEF UnknownSend
  <2>2. /\ \A q \in Request \ {r} : status'[q] = status[q] /\ resp'[q] = resp[q]
        /\ \/ status'[r] = status[r]
           \/ status[r] = "inflight" /\ status'[r] = "unknown"
        /\ resp'[r] = "unknown"
    BY <1>0, <2>1 DEF TypeOK, MarkUnknown
  <2> QED
    BY <1>0, <1>1, <2>1, <2>2, LedgerSettles
<1>6. CASE SettleInFreshSessionFails(r)
  <2>1. /\ \/ pc[r] = "recordFailed" /\ resp' = [resp EXCEPT ![r] = "rejected"]
           \/ resp' = [resp EXCEPT ![r] = "unknown"]
        /\ UNCHANGED <<status, createdAt, delivered, expected, repliedAt>>
    BY <1>6 DEF SettleInFreshSessionFails
  <2>2. pc[r] = "recordFailed" => ~delivered[r]
    BY <1>0 DEF HandlerInv, MailInv
  <2>3. /\ \A q \in Request \ {r} : resp'[q] = resp[q]
        /\ \/ resp'[r] = "unknown"
           \/ resp'[r] = "rejected" /\ ~delivered[r]
    BY <1>0, <2>1, <2>2 DEF TypeOK
  <2> QED
    BY <1>0, <1>1, <2>1, <2>3, LedgerSettles
<1>7. ASSUME pc[r] = "accepted", CompletionWrites(r), UNCHANGED <<wireVars, expected>>,
             resp' = resp \/ resp' = [resp EXCEPT ![r] = "sent"]
      PROVE  Ledger!Settle(r)
  <2>1. /\ delivered[r] /\ status[r] \in {"inflight", "abandoned", "sent"}
        /\ status' = [status EXCEPT ![r] = "sent"]
        /\ repliedAt' = AdvanceFence(r)
        /\ UNCHANGED <<createdAt, delivered>>
    BY <1>7, CompletionEffect
  <2>2. /\ \A q \in Request \ {r} : status'[q] = status[q] /\ resp'[q] = resp[q]
        /\ status'[r] = "sent" /\ (resp'[r] = resp[r] \/ resp'[r] = "sent")
    BY <1>0, <1>7, <2>1 DEF TypeOK
  <2>3. status[r] = "sent" => repliedAt' = repliedAt
    BY <1>0, <2>1 DEF MailInv, AdvanceFence, TypeOK
  <2> QED
    BY <1>0, <1>1, <1>7, <2>1, <2>2, <2>3, LedgerSettles
<1>8. CASE Complete(r)
  BY <1>7, <1>8 DEF Complete
<1>9. CASE CompleteFails(r)
  <2>1. CASE CompletionWrites(r)
    BY <1>7, <1>9, <2>1 DEF CompleteFails
  <2>2. CASE UNCHANGED <<attemptVars, mailVars>>
    <3>1. UNCHANGED <<status, createdAt, delivered, expected, repliedAt, resp>>
      BY <1>9, <2>2 DEF CompleteFails
    <3> QED
      BY <1>0, <3>1, LedgerSettles
  <2> QED
    BY <1>9, <2>1, <2>2 DEF CompleteFails
<1> QED
  BY <1>2, <1>3, <1>4, <1>5, <1>6, <1>8, <1>9

(* A pass that settles what it matched tells nobody.                        *)
LEMMA LedgerReconciled ==
    ASSUME IInv, IInv', NEW w \in Worker, NEW r \in Request, Settle(w, r)
    PROVE  Ledger!Settle(r)
<1>0. TypeOK /\ TypeOK' /\ MailInv
  BY DEF IInv
<1>1. /\ delivered[r] /\ status[r] \in {"inflight", "abandoned", "unknown", "sent"}
      /\ status' = [status EXCEPT ![r] = "sent"]
      /\ repliedAt' = AdvanceFence(r)
  BY SettleEffect
<1>2. UNCHANGED <<createdAt, delivered, expected, resp>>
  BY DEF Settle, rowVars, handlerVars, wireVars
<1>3. /\ \A q \in Request \ {r} : status'[q] = status[q]
      /\ status'[r] = "sent"
  BY <1>0, <1>1 DEF TypeOK
<1>4. status[r] = "sent" => repliedAt' = repliedAt
  BY <1>0, <1>1 DEF MailInv, AdvanceFence, TypeOK
<1> QED
  BY <1>0, <1>1, <1>2, <1>3, <1>4, LedgerSettles

LEMMA LedgerStep ==
    IInv /\ IInv' /\ [Next]_vars => [Ledger!Next]_(Ledger!vars)
<1> SUFFICES ASSUME IInv, IInv', [Next]_vars
             PROVE  [Ledger!Next]_(Ledger!vars)
  OBVIOUS
<1>0. TypeOK /\ HandlerInv
  BY DEF IInv
<1>1. ASSUME NEW r \in Request, NEW ov \in Request \cup {NoOne}, Admit(r, ov)
      PROVE  Ledger!Next
  BY <1>1, LedgerAsks DEF Ledger!Next
<1>2. ASSUME NEW r \in Request, NEW ov \in Request \cup {NoOne},
             RefuseInFlight(r, ov)
      PROVE  Ledger!Next
  BY <1>2, LedgerTurnsAway DEF Ledger!Next
<1>3. ASSUME NEW r \in Request, Deliver(r)
      PROVE  Ledger!Next
  BY <1>3, LedgerMails DEF Ledger!Next
<1>4. ASSUME NEW r \in Request,
             \/ Refuse(r) \/ RefuseStale(r) \/ ToInflight(r) \/ FailSend(r)
             \/ UnknownSend(r) \/ SettleInFreshSessionFails(r)
             \/ Complete(r) \/ CompleteFails(r)
      PROVE  Ledger!Next
  BY <1>4, LedgerHandled DEF Ledger!Next
<1>5. ASSUME NEW w \in Worker, NEW r \in Request, Settle(w, r)
      PROVE  Ledger!Next
  BY <1>5, LedgerReconciled DEF Ledger!Next
<1> USE DEF Goto, attemptVars, rowVars, mailVars, handlerVars, wireVars
<1>6. ASSUME NEW r \in Request, Load(r)
      PROVE  UNCHANGED Ledger!vars
  <2>1. /\ UNCHANGED <<status, createdAt, delivered, repliedAt, resp>>
        /\ expected' = [expected EXCEPT ![r] = repliedAt]
        /\ status[r] = "none"
    BY <1>0, <1>6 DEF Load, HandlerInv
  <2>2. \A q \in Request : status[q] = "none" \/ expected'[q] = expected[q]
    BY <1>0, <2>1 DEF TypeOK
  <2> QED
    BY <1>0, <2>1, <2>2, LedgerStutters
<1>7. ASSUME NEW r \in Request, HandlerDies(r)
      PROVE  UNCHANGED Ledger!vars
  <2>1. resp' = [resp EXCEPT ![r] = "none"] /\ resp[r] = "none"
        /\ UNCHANGED <<status, createdAt, delivered, repliedAt, expected>>
    BY <1>0, <1>7 DEF HandlerDies, Finish, HandlerInv
  <2>2. resp' = resp
    BY <1>0, <2>1 DEF TypeOK
  <2> QED
    BY <1>0, <2>1, <2>2, LedgerStutters
<1>8. ASSUME UNCHANGED <<status, createdAt, delivered, repliedAt, resp, expected>>
      PROVE  UNCHANGED Ledger!vars
  BY <1>0, <1>8, LedgerStutters
<1>9. ASSUME NEW r \in Request,
             \/ Age(r) \/ DeadlineBeforeCall(r) \/ CreateReply(r)
             \/ RecordDraft(r) \/ RecordDraftFails(r) \/ IssueSend(r)
      PROVE  UNCHANGED Ledger!vars
  BY <1>8, <1>9 DEF Age, DeadlineBeforeCall, CreateReply, RecordDraft,
                    RecordDraftFails, IssueSend
<1>10. ASSUME NEW r \in Request,
              \/ AnswerAccepted(r) \/ AnswerRejected(r) \/ AnswerAmbiguous(r)
              \/ Ingest(r)
       PROVE  UNCHANGED Ledger!vars
  BY <1>8, <1>10 DEF AnswerAccepted, AnswerRejected, AnswerAmbiguous, Ingest
<1>11. ASSUME NEW w \in Worker,
              \/ Scan(w) \/ PassFails(w)
              \/ \E r \in Request : PickUp(w, r) \/ Verify(w, r)
       PROVE  UNCHANGED Ledger!vars
  BY <1>8, <1>11 DEF Scan, PassFails, PickUp, Verify
<1>12. CASE UNCHANGED vars
  BY <1>8, <1>12 DEF vars
<1>13. ASSUME NEW r \in Request, Handler(r)
       PROVE  [Ledger!Next]_(Ledger!vars)
  BY <1>1, <1>2, <1>3, <1>4, <1>6, <1>7, <1>9, <1>10, <1>13 DEF Handler
<1>14. ASSUME NEW w \in Worker, Reconcile(w)
       PROVE  [Ledger!Next]_(Ledger!vars)
  BY <1>5, <1>11, <1>14 DEF Reconcile
<1> QED
  BY <1>12, <1>13, <1>14 DEF Next

(* Handlers, provider and passes, stopped and overtaken anywhere, implement *)
(* the ledger: what a thread promises of its replies.                       *)
THEOREM KeepsLedger == Spec => KeepsTheLedger
<1>1. Init => Ledger!Init
  <2> SUFFICES ASSUME Init PROVE Ledger!Init
    OBVIOUS
  <2>1. /\ Verdicts = [r \in Request |-> "absent"]
        /\ Answers = [r \in Request |-> "nothing"]
        /\ Shown = [r \in Request |-> 0]
    BY DEF Init, Verdicts, Answers, Shown
  <2> QED
    BY <2>1 DEF Init, Ledger!Init
<1>2. IInv /\ IInv' /\ [Next]_vars => [Ledger!Next]_(Ledger!vars)
  BY LedgerStep
<1> QED
  BY <1>1, <1>2, Invariance, PTL DEF Spec, KeepsTheLedger, Ledger!Spec

(* The ledger keeps its own promises, whatever implements it.               *)
LEMMA LedgerTypes ==
    Ledger!TypeOK /\ [Ledger!Next]_(Ledger!vars) => Ledger!TypeOK'
<1> SUFFICES ASSUME Ledger!TypeOK, [Ledger!Next]_(Ledger!vars)
             PROVE  Ledger!TypeOK'
  OBVIOUS
<1> USE DEF Ledger!TypeOK, Ledger!Verdict, Ledger!Told
<1>1. ASSUME NEW r \in Request, Ledger!Ask(r) PROVE Ledger!TypeOK'
  BY <1>1 DEF Ledger!Ask, Ledger!Release
<1>2. ASSUME NEW r \in Request, Ledger!TurnAway(r) PROVE Ledger!TypeOK'
  BY <1>2 DEF Ledger!TurnAway, Ledger!Release
<1>3. ASSUME NEW r \in Request, Ledger!Mail(r) PROVE Ledger!TypeOK'
  BY <1>3 DEF Ledger!Mail
<1>4. ASSUME NEW r \in Request, Ledger!Settle(r) PROVE Ledger!TypeOK'
  <2>1. Verdicts' \in [Request -> Ledger!Verdict] /\ repliedAt' \in Nat
    BY <1>4 DEF Ledger!Settle, Ledger!DecideUnsent, Ledger!DecideSent
  <2>2. Answers' \in [Request -> Ledger!Told]
    BY <1>4 DEF Ledger!Settle, Ledger!Tell
  <2> QED
    BY <1>4, <2>1, <2>2 DEF Ledger!Settle
<1>5. CASE UNCHANGED Ledger!vars
  BY <1>5 DEF Ledger!vars
<1> QED
  BY <1>1, <1>2, <1>3, <1>4, <1>5 DEF Ledger!Next

LEMMA LedgerTruth ==
    ASSUME Ledger!TypeOK, Ledger!Truthful, [Ledger!Next]_(Ledger!vars)
    PROVE  Ledger!Truthful' /\ Ledger!Final
<1> USE DEF Ledger!TypeOK, Ledger!Truthful, Ledger!Final, Ledger!Open
<1>1. ASSUME NEW r \in Request, Ledger!Ask(r)
      PROVE  Ledger!Truthful' /\ Ledger!Final
  <2>1. PICK W \in SUBSET Ledger!Open :
           /\ \A q \in Ledger!Open \ W : ~delivered[q]
           /\ Verdicts' = [Ledger!Release(W, Ledger!Open \ W) EXCEPT ![r] = "open"]
    BY <1>1 DEF Ledger!Ask, Ledger!Expirable
  <2>2. /\ Verdicts[r] = "absent" /\ UNCHANGED <<delivered, repliedAt, Answers>>
        /\ \A q \in Request \ {r} : createdAt'[q] = createdAt[q]
    BY <1>1 DEF Ledger!Ask
  <2>3. /\ Verdicts'[r] = "open"
        /\ \A q \in Request \ {r} :
              \/ Verdicts'[q] = Verdicts[q] /\ Verdicts[q] # "open"
              \/ Verdicts[q] = "open" /\ Verdicts'[q] = "waived"
              \/ Verdicts[q] = "open" /\ Verdicts'[q] = "unsent" /\ ~delivered[q]
    BY <2>1 DEF Ledger!Release
  <2> QED
    BY <2>2, <2>3
<1>2. ASSUME NEW r \in Request, Ledger!TurnAway(r)
      PROVE  Ledger!Truthful' /\ Ledger!Final
  <2>1. PICK W \in SUBSET Ledger!Open, E \in SUBSET Ledger!Open :
           (\A q \in E : ~delivered[q]) /\ Verdicts' = Ledger!Release(W, E)
    BY <1>2 DEF Ledger!TurnAway, Ledger!Expirable
  <2>2. /\ Verdicts[r] = "absent" /\ Answers[r] = "nothing"
        /\ Answers' = [Answers EXCEPT ![r] = "unsent"]
        /\ UNCHANGED <<delivered, repliedAt, createdAt>>
    BY <1>2 DEF Ledger!TurnAway
  <2>3. \A q \in Request :
           \/ Verdicts'[q] = Verdicts[q]
           \/ Verdicts[q] = "open" /\ Verdicts'[q] = "waived"
           \/ Verdicts[q] = "open" /\ Verdicts'[q] = "unsent" /\ ~delivered[q]
    BY <2>1 DEF Ledger!Release
  <2> QED
    BY <2>2, <2>3
<1>3. ASSUME NEW r \in Request, Ledger!Mail(r)
      PROVE  Ledger!Truthful' /\ Ledger!Final
  BY <1>3 DEF Ledger!Mail, Ledger!Undecided
<1>4. ASSUME NEW r \in Request, Ledger!Settle(r)
      PROVE  Ledger!Truthful' /\ Ledger!Final
  <2>1. /\ repliedAt <= repliedAt' /\ UNCHANGED <<delivered, createdAt>>
        /\ \A q \in Request \ {r} : Verdicts'[q] = Verdicts[q]
        /\ \/ Verdicts'[r] = Verdicts[r]
           \/ /\ Verdicts[r] \in {"open", "waived"} /\ ~delivered[r]
              /\ Verdicts'[r] = "unsent"
           \/ /\ Verdicts[r] \in {"open", "waived"} /\ delivered[r]
              /\ Verdicts'[r] = "sent" /\ createdAt[r] <= repliedAt'
    BY <1>4 DEF Ledger!Settle, Ledger!DecideUnsent, Ledger!DecideSent,
                Ledger!Undecided
  <2>2. /\ \A q \in Request \ {r} : Answers'[q] = Answers[q]
        /\ \/ Answers'[r] = Answers[r]
           \/ /\ Answers[r] = "nothing"
              /\ \/ Answers'[r] = "unknown"
                 \/ Answers'[r] = "unsent" /\ ~delivered[r]
                 \/ Answers'[r] = "sent" /\ Verdicts'[r] = "sent"
    BY <1>4 DEF Ledger!Settle, Ledger!Tell
  <2>3. \A q \in Request : createdAt[q] <= repliedAt => createdAt[q] <= repliedAt'
    <3>1. \A q \in Request : createdAt[q] \in Nat
      OBVIOUS
    <3>2. repliedAt \in Nat /\ repliedAt' \in Nat
      BY <1>4 DEF Ledger!Settle, Ledger!DecideUnsent, Ledger!DecideSent
    <3> QED
      BY <2>1, <3>1, <3>2
  <2> QED
    BY <2>1, <2>2, <2>3
<1>5. CASE UNCHANGED Ledger!vars
  BY <1>5 DEF Ledger!vars
<1> QED
  BY <1>1, <1>2, <1>3, <1>4, <1>5 DEF Ledger!Next

(* What keeps the ledger tells the truth, and takes nothing back.           *)
THEOREM LedgerIsTruthful ==
    Ledger!Spec => []Ledger!Truthful /\ [][Ledger!Final]_(Ledger!vars)
<1>1. Ledger!Init => Ledger!TypeOK /\ Ledger!Truthful
  BY DEF Ledger!Init, Ledger!TypeOK, Ledger!Truthful, Ledger!Open,
         Ledger!Verdict, Ledger!Told
<1>2. Ledger!TypeOK /\ Ledger!Truthful /\ [Ledger!Next]_(Ledger!vars)
         => (Ledger!TypeOK /\ Ledger!Truthful)' /\ [Ledger!Final]_(Ledger!vars)
  BY LedgerTypes, LedgerTruth
<1> QED
  BY <1>1, <1>2, PTL DEF Ledger!Spec

=============================================================================
