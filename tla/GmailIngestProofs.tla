-------------------------- MODULE GmailIngestProofs --------------------------
(****************************************************************************)
(* Proofs about GmailIngest, for any threads, number of messages, modes of  *)
(* the runs and bounds: the walks keep the promise of MailboxMirror, and a  *)
(* done thread is reopened by news, and whenever there are any.             *)
(****************************************************************************)
EXTENDS GmailIngest, TLAPS, NaturalsInduction, WellFoundedInduction

-----------------------------------------------------------------------------
(* The newest of a thread.                                                  *)

LEMMA MaxIsThere ==
    ASSUME NEW n \in Nat, NEW S \in SUBSET (1 .. n), S # {}
    PROVE  /\ Max(S) \in S
           /\ \A i \in S : i <= Max(S)
<1> DEFINE T == {n - i : i \in S}
<1>1. T \subseteq Nat /\ T # {}
  <2>1. \A i \in S : i \in Int /\ n - i \in Nat
      OBVIOUS
  <2> QED BY <2>1
<1>2. PICK x \in T : \A y \in T : ~ (<<y, x>> \in OpToRel(<, Nat))
    BY <1>1, NatLessThanWellFounded, WFMin, Zenon
<1>3. PICK m \in S : x = n - m
    BY <1>2
<1>4. \A i \in S : m >= i
  <2> SUFFICES ASSUME NEW i \in S PROVE m >= i
      OBVIOUS
  <2>1. ~ (n - i < n - m)
      BY <1>1, <1>2, <1>3 DEF OpToRel
  <2> QED BY <2>1
<1>5. Max(S) \in S /\ \A i \in S : Max(S) >= i
    BY <1>4 DEF Max
<1> QED BY <1>5

LEMMA NewestIs ==
    ASSUME mail \in Seq(Thread), NEW i \in 1 .. Now
    PROVE  /\ NewestOf(mail[i]) \in 1 .. Now
           /\ mail[NewestOf(mail[i])] = mail[i]
           /\ i <= NewestOf(mail[i])
           /\ \A j \in 1 .. Now : mail[j] = mail[i] => j <= NewestOf(mail[i])
<1>1. /\ MessagesOf(mail[i]) \in SUBSET (1 .. Now)
      /\ i \in MessagesOf(mail[i])
      /\ Now \in Nat
    BY DEF MessagesOf, Now
<1> DEFINE S == MessagesOf(mail[i])
<1> HIDE DEF S
<1>2. Max(S) \in S /\ \A j \in S : j <= Max(S)
    BY <1>1, MaxIsThere DEF S
<1>3. NewestOf(mail[i]) = Max(S)
    BY DEF NewestOf, S
<1> QED BY <1>1, <1>2, <1>3 DEF MessagesOf, S

(* Which threads a listing may show.                                        *)
LEMMA ListedIs ==
    ASSUME mail \in Seq(Thread), NEW t \in Listed
    PROVE  /\ t \in Thread /\ t \notin gone
           /\ NewestOf(t) \in 1 .. Now
           /\ mail[NewestOf(t)] = t
           /\ \A j \in 1 .. Now : mail[j] = t => j <= NewestOf(t)
<1>1. PICK i \in 1 .. Now : mail[i] = t
    BY DEF Listed, ThreadsOf
<1> QED BY <1>1, NewestIs DEF Now, Listed

(* The listing goes on with the newest thread that is behind its place.     *)
NextListed == CHOOSE x \in Behind : \A y \in Behind : NewestOf(y) <= NewestOf(x)

LEMMA NextListedIs ==
    ASSUME mail \in Seq(Thread), Behind # {}
    PROVE  /\ NextListed \in Behind
           /\ \A y \in Behind : NewestOf(y) <= NewestOf(NextListed)
<1> DEFINE S == {NewestOf(y) : y \in Behind}
<1>1. S \in SUBSET (1 .. Now) /\ S # {} /\ Now \in Nat
    BY ListedIs DEF Behind, Now
<1>2. Max(S) \in S /\ \A i \in S : i <= Max(S)
    BY <1>1, MaxIsThere
<1>3. PICK x \in Behind : \A y \in Behind : NewestOf(y) <= NewestOf(x)
    BY <1>2
<1> QED BY <1>3 DEF NextListed

-----------------------------------------------------------------------------
(* Types.                                                                   *)

LEMMA IdleIsRun == Idle \in Run
<1>1. MessageBound + 1 \in 1 .. MessageBound + 1 /\ 0 \in 0 .. WalkBound
      /\ 0 \in 0 .. CommitEvery - 1
    BY BoundAssumption
<1> QED BY <1>1 DEF Idle, Run, Mode, Message

LEMMA CountUp ==
    ASSUME NEW c \in 0 .. CommitEvery - 1
    PROVE  (c + 1) % CommitEvery \in 0 .. CommitEvery - 1
    BY BoundAssumption

LEMMA ThreadsAre ==
    ASSUME mail \in Seq(Thread), NEW S, S \subseteq 1 .. Now
    PROVE  ThreadsOf(S) \subseteq Thread
    BY DEF ThreadsOf, Now

LEMMA TypeStep == TypeOK /\ StoreInv /\ CursorInv /\ [Next]_vars => TypeOK'
<1> SUFFICES ASSUME TypeOK, StoreInv, CursorInv, [Next]_vars PROVE TypeOK'
    OBVIOUS
<1>0. /\ my \in Run /\ mail \in Seq(Thread) /\ Now \in Nat /\ Now <= MessageBound
      /\ Now \in Date /\ MessageBound \in Nat
      /\ stored \subseteq 1 .. Now
      /\ KnownThreads \subseteq Thread
      /\ \A s \in Date : Changed(s) \subseteq Thread
  <2>1. Now \in Nat /\ Now <= MessageBound /\ MessageBound \in Nat
      BY BoundAssumption DEF TypeOK, Now
  <2>2. stored \subseteq 1 .. Now
      BY DEF StoreInv
  <2>3. \A s \in Date : s + 1 .. Now \subseteq 1 .. Now
      BY <2>1 DEF Date
  <2>4. \A s \in Date : Changed(s) \subseteq Thread
      BY <2>3, ThreadsAre DEF TypeOK, Changed
  <2>5. KnownThreads \subseteq Thread
      BY <2>2, ThreadsAre DEF TypeOK, KnownThreads
  <2> QED BY <2>1, <2>2, <2>4, <2>5 DEF TypeOK, Date
<1>1. CASE \E mode \in Mode : Start(mode)
  <2> PICK mode \in Mode : Start(mode)
      BY <1>1
  <2>1. my' \in Run
      BY <1>0 DEF Start, Run, TypeOK
  <2> QED BY <2>1 DEF Start, TypeOK, gmailVars, dbVars, Place
<1>2. CASE ReadHistory
  <2>1. my' \in Run /\ pc' \in Place
      BY <1>0, <1>2 DEF ReadHistory, Plan, Run, Place
  <2> QED BY <1>2, <2>1 DEF ReadHistory, TypeOK, gmailVars, dbVars
<1>3. CASE HistoryExpired
  <2>1. my' \in Run
      BY <1>0, <1>3 DEF HistoryExpired, Run
  <2> QED BY <1>3, <2>1 DEF HistoryExpired, TypeOK, gmailVars, dbVars, Place
<1>4. CASE SkipHistory
  <2>1. my' \in Run /\ pc' \in Place
      BY <1>0, <1>4 DEF SkipHistory, Run, Place
  <2> QED BY <1>4, <2>1 DEF SkipHistory, TypeOK, gmailVars, dbVars
<1>5. CASE Profile
  <2>1. my' \in Run
      BY <1>0, <1>5 DEF Profile, Run
  <2> QED BY <1>5, <2>1 DEF Profile, TypeOK, gmailVars, dbVars, Place
<1>6. CASE ListThread
  <2>1. /\ NextListed \in Thread
        /\ NewestOf(NextListed) \in 1 .. MessageBound + 1
      BY <1>0, <1>6, NextListedIs, ListedIs DEF ListThread, ListOn, Behind
  <2>2. my.walked + 1 \in 0 .. WalkBound
      BY <1>0, <1>6, BoundAssumption DEF ListThread, ListOn, Run
  <2> PICK t : t = NextListed
      OBVIOUS
  <2>3. PICK fresh \in SUBSET Thread, head \in SUBSET Thread,
             recent \in SUBSET Thread :
          my' = [my EXCEPT !.fresh = fresh, !.head = head, !.recent = recent,
                           !.last = NewestOf(t), !.walked = @ + 1]
    <3>1. my.fresh \in SUBSET Thread /\ my.head \in SUBSET Thread
          /\ my.recent \in SUBSET Thread
        BY <1>0 DEF Run
    <3> DEFINE AddIf(c, S) == IF c THEN S \cup {t} ELSE S
               fresh == AddIf(t \notin my.known, my.fresh)
               head == AddIf(t \notin my.known /\ ~SeenKnown, my.head)
               recent == AddIf(my.rebase /\ Cardinality(my.recent) < MaxResults,
                               my.recent)
    <3>2. /\ fresh \in SUBSET Thread /\ head \in SUBSET Thread
          /\ recent \in SUBSET Thread
        BY <2>1, <3>1
    <3>3. my' = [my EXCEPT !.fresh = fresh, !.head = head, !.recent = recent,
                           !.last = NewestOf(t), !.walked = @ + 1]
        BY <1>6 DEF ListThread, NextListed
    <3> HIDE DEF fresh, head, recent
    <3> QED BY <3>2, <3>3
  <2>4. my' \in Run
    <3> PICK last \in 1 .. MessageBound + 1, walked \in 0 .. WalkBound :
            last = NewestOf(t) /\ walked = my.walked + 1
        BY <2>1, <2>2
    <3>1. my' = [my EXCEPT !.fresh = fresh, !.head = head, !.recent = recent,
                           !.last = last, !.walked = walked]
        BY <2>3
    <3> QED BY <1>0, <3>1 DEF Run
  <2> QED BY <1>6, <2>4 DEF ListThread, TypeOK, gmailVars, dbVars
<1>7. CASE EndList
  <2>1. ThreadIds \in SUBSET Thread
    <3>1. /\ my.mode \in Mode /\ my.changed \subseteq Thread
          /\ my.recent \subseteq Thread /\ my.head \subseteq Thread
          /\ my.fresh \subseteq Thread
        BY <1>0 DEF Run
    <3> QED BY <3>1 DEF ThreadIds, Mode
  <2>2. (my.mode = "manual" /\ Exhausted) \in BOOLEAN
      BY DEF Exhausted
  <2>3. 0 \in 0 .. WalkBound /\ MessageBound + 1 \in 1 .. MessageBound + 1
      BY BoundAssumption
  <2> HIDE DEF ThreadIds, Exhausted
  <2>4. my' \in Run
    <3> DEFINE todo == ThreadIds
               complete == my.mode = "manual" /\ Exhausted
    <3>1. my' = [my EXCEPT
                   !.todo = todo, !.complete = complete,
                   !.changed = {}, !.fresh = {}, !.head = {},
                   !.recent = {}, !.walked = 0, !.last = MessageBound + 1]
        BY <1>7, Zenon DEF EndList
    <3>2. todo \in SUBSET Thread /\ complete \in BOOLEAN
        BY <2>1, <2>2
    <3> HIDE DEF todo, complete
    <3> QED BY <1>0, <2>3, <3>1, <3>2 DEF Run
  <2> QED BY <1>7, <2>4 DEF EndList, TypeOK, gmailVars, dbVars, Place
<1>8. CASE \E t \in Thread : Fetch(t)
  <2> PICK t \in Thread : Fetch(t)
      BY <1>8
  <2>1. MessagesOf(t) \subseteq Message
      BY <1>0 DEF MessagesOf, Message
  <2>2. (my.count + 1) % CommitEvery \in 0 .. CommitEvery - 1
      BY <1>0, CountUp DEF Run
  <2> DEFINE k == (my.count + 1) % CommitEvery
  <2> HIDE DEF k
  <2>3. CASE t \in gone
    <3>1. /\ my' = [my EXCEPT !.todo = @ \ {t}, !.read = @ \cup {t}, !.count = k]
          /\ pc' = pc
        BY <2>3 DEF Fetch, k
    <3>2. my' \in Run
        BY <1>0, <2>2, <3>1 DEF Run, k
    <3> QED BY <3>1, <3>2 DEF Fetch, TypeOK, gmailVars, dbVars
  <2>4. CASE t \notin gone
    <3>1. my' = [my EXCEPT !.cur = t, !.got = MessagesOf(t)] /\ pc' = "store"
        BY <2>4 DEF Fetch
    <3>2. my' \in Run
        BY <1>0, <2>1, <3>1 DEF Run
    <3> QED BY <3>1, <3>2 DEF Fetch, TypeOK, gmailVars, dbVars, Place
  <2> QED BY <2>3, <2>4
<1>9. CASE Store
  <2>1. (my.count + 1) % CommitEvery \in 0 .. CommitEvery - 1
      BY <1>0, CountUp DEF Run
  <2>2. my.cur \in Thread
      BY <1>0, <1>9 DEF CursorInv, Store, Run
  <2> PICK k \in 0 .. CommitEvery - 1 : k = (my.count + 1) % CommitEvery
      BY <2>1
  <2>3. PICK reopened \in SUBSET Thread :
          my' = [my EXCEPT !.dirty = @ \cup my.got, !.reopened = reopened,
                           !.todo = @ \ {my.cur}, !.read = @ \cup {my.cur},
                           !.cur = NoThread, !.got = {}, !.count = k]
    <3>1. my.reopened \in SUBSET Thread
        BY <1>0 DEF Run
    <3> QED BY <1>9, <2>2, <3>1 DEF Store
  <2>4. my' \in Run
      BY <1>0, <2>2, <2>3 DEF Run
  <2> QED BY <1>9, <2>4 DEF Store, TypeOK, gmailVars, dbVars, Place
<1>10. ASSUME Flush PROVE stored' \in SUBSET Message
                          /\ done' \in [Thread -> Date \cup {NotDone}]
    BY <1>0, <1>10 DEF Flush, TypeOK, Run
<1>11. CASE Commit
  <2>1. my' \in Run
      BY <1>0, <1>11 DEF Commit, Run
  <2> QED BY <1>10, <1>11, <2>1 DEF Commit, TypeOK, gmailVars, Place
<1>12. CASE Finish
  <2>1. NewCursor \in Date \cup {NoCursor} /\ my.complete \in BOOLEAN
      BY <1>0 DEF NewCursor, Run
  <2>2. blind' \in BOOLEAN
      BY <1>12 DEF Finish, TypeOK
  <2> QED BY <1>10, <1>12, <2>1, <2>2, IdleIsRun
          DEF Finish, TypeOK, gmailVars, Place
<1>13. CASE Die
    BY <1>13, IdleIsRun DEF Die, TypeOK, gmailVars, dbVars, Place
<1>14. CASE \E t \in Thread : Arrive(t)
  <2> PICK t \in Thread : Arrive(t)
      BY <1>14
  <2>1. mail' \in Seq(Thread) /\ Len(mail') <= MessageBound
      BY <1>0 DEF Arrive, Now
  <2> QED BY <2>1 DEF Arrive, TypeOK, dbVars
<1>15. CASE \E t \in Thread : DeleteThread(t)
    BY <1>0, <1>15 DEF DeleteThread, TypeOK, dbVars
<1>16. CASE \E t \in Thread : MarkDone(t)
    BY <1>0, <1>16 DEF MarkDone, TypeOK, gmailVars
<1>17. CASE UNCHANGED vars
    BY <1>17 DEF vars, TypeOK, gmailVars, dbVars
<1> QED BY <1>1, <1>2, <1>3, <1>4, <1>5, <1>6, <1>7, <1>8, <1>9, <1>11, <1>12,
           <1>13, <1>14, <1>15, <1>16, <1>17 DEF Next, Step, Environment

-----------------------------------------------------------------------------
(* The steps of a run between its transactions.                             *)

(* What a run knows, and what the tables say.                               *)
Parts ==
    /\ StoreInv /\ CursorInv /\ ReadInv /\ HistoryInv /\ ListInv
    /\ ReopenInv /\ DoneIsCaughtUp

(* Such a step changes the locals of the run and nothing else.              *)
Inside == UNCHANGED <<gmailVars, dbVars, blind>>

LEMMA InsideFrame ==
    ASSUME Inside
    PROVE  /\ mail' = mail /\ gone' = gone /\ stored' = stored /\ done' = done
           /\ cursor' = cursor /\ backfilled' = backfilled
           /\ Now' = Now /\ Listed' = Listed /\ KnownThreads' = KnownThreads
           /\ \A t : NewestOf(t)' = NewestOf(t)
           /\ DoneIsCaughtUp => DoneIsCaughtUp'
           /\ UNCHANGED Mirror!vars
    BY DEF Inside, gmailVars, dbVars, Now, Listed, KnownThreads, ThreadsOf,
           NewestOf, MessagesOf, DoneIsCaughtUp, Mirror!vars, There, Owed

LEMMA StartStep ==
    ASSUME TypeOK, Parts, NEW mode \in Mode, Start(mode)
    PROVE  Parts' /\ Inside
<1>0. Inside /\ my = Idle /\ my \in Run /\ pc' = "history"
    BY DEF Start, Inside, Parts, CursorInv, TypeOK
<1>1. PICK known \in SUBSET KnownThreads :
          my' = [my EXCEPT !.mode = mode, !.known = known, !.next = cursor]
    BY DEF Start
<1>2. /\ my'.known = known /\ my'.next = cursor
      /\ my'.dirty = {} /\ my'.got = {} /\ my'.read = {} /\ my'.reopened = {}
      /\ my'.last = MessageBound + 1 /\ ~my'.anew /\ ~my'.complete
    BY <1>0, <1>1 DEF Idle
<1>3. StoreInv'
    BY <1>0, <1>2, InsideFrame DEF StoreInv, Parts
<1>4. CursorInv' /\ ReadInv' /\ HistoryInv' /\ ListInv' /\ ReopenInv'
    BY <1>0, <1>2, InsideFrame
       DEF CursorInv, ReadInv, HistoryInv, ListInv, ReopenInv, Reading
<1> QED BY <1>0, <1>3, <1>4, InsideFrame DEF Parts

(* The cursor the run is going to write is settled.                         *)
LEMMA HistoryStep ==
    ASSUME TypeOK, Parts, ReadHistory \/ HistoryExpired \/ SkipHistory \/ Profile
    PROVE  Parts' /\ Inside
<1>0. Inside /\ my \in Run /\ pc \in {"history", "profile"}
    BY DEF ReadHistory, HistoryExpired, SkipHistory, Profile, Inside, TypeOK
<1>1. /\ Now \in Nat /\ cursor \in Int /\ cursor <= Now /\ my.next <= Now
      /\ cursor # NoCursor => cursor \in Nat
    BY DEF TypeOK, Now, Date, NoCursor, Parts, StoreInv
<1>2. /\ my.read = {} /\ ~my.complete /\ my.last = MessageBound + 1
      /\ my.dirty = {} /\ my.reopened = {}
    BY <1>0 DEF Parts, CursorInv, StoreInv, ReopenInv, Reading
<1>3. /\ my'.known = my.known /\ my'.dirty = {} /\ my'.got = my.got
      /\ my'.reopened = {} /\ my'.read = {} /\ my'.cur = my.cur
      /\ ~my'.complete /\ my'.last = MessageBound + 1 /\ my'.mode = my.mode
    BY <1>0, <1>2 DEF ReadHistory, HistoryExpired, SkipHistory, Profile, Run
<1>4. /\ my'.next <= Now /\ pc' \in {"profile", "list", "fetch"}
      /\ pc' # "profile" => my'.next # NoCursor /\ cursor <= my'.next
  <2>1. CASE ReadHistory
      BY <1>0, <1>1, <2>1 DEF ReadHistory, Plan, Run, NoCursor
  <2>2. CASE HistoryExpired
      BY <1>0, <1>1, <2>2 DEF HistoryExpired, Run, NoCursor
  <2>3. CASE SkipHistory
      BY <1>0, <1>1, <2>3 DEF SkipHistory, Run, Parts, CursorInv
  <2>4. CASE Profile
      BY <1>0, <1>1, <2>4 DEF Profile, Run, NoCursor
  <2> QED BY <2>1, <2>2, <2>3, <2>4
<1>5. StoreInv' /\ CursorInv'
    BY <1>0, <1>1, <1>3, <1>4, InsideFrame
       DEF Parts, StoreInv, CursorInv, Reading
<1>6. ReadInv' /\ ReopenInv'
    BY <1>3, <1>4 DEF ReadInv, ReopenInv
<1>7. HistoryInv'
  <2>1. CASE ReadHistory
    <3>1. /\ my.next = cursor /\ my.mode # "refresh"
          /\ my'.changed = Changed(cursor) /\ my'.todo = Changed(cursor)
          /\ my'.next = Now
        BY <1>0, <2>1 DEF ReadHistory, Run, Parts, CursorInv
    <3>2. \A i \in 1 .. Now : i > cursor => mail[i] \in Changed(cursor)
        BY <1>1 DEF Changed, ThreadsOf
    <3> QED BY <1>0, <1>3, <3>1, <3>2, InsideFrame DEF HistoryInv
  <2>2. CASE HistoryExpired
      BY <2>2 DEF HistoryExpired, HistoryInv, Reading
  <2>3. CASE SkipHistory
      BY <1>0, <1>1, <2>3, InsideFrame
         DEF SkipHistory, HistoryInv, Reading, Run, Parts, CursorInv
  <2>4. CASE Profile
      BY <1>0, <2>4 DEF Profile, HistoryInv, Run
  <2> QED BY <2>1, <2>2, <2>3, <2>4
<1>8. ListInv'
  <2>1. \A t \in Listed : ~(MessageBound + 1 <= NewestOf(t))
    <3>1. Now <= MessageBound /\ mail \in Seq(Thread)
        BY DEF TypeOK, Now
    <3> QED BY <1>1, <3>1, BoundAssumption, ListedIs
  <2> QED BY <1>0, <1>3, <2>1, InsideFrame DEF ListInv
<1> QED BY <1>0, <1>5, <1>6, <1>7, <1>8, InsideFrame DEF Parts

(* The listing: what is behind its place is yet to come, in order.          *)
LEMMA ListStep ==
    ASSUME TypeOK, Parts, ListThread
    PROVE  Parts' /\ Inside
<1>0. Inside /\ my \in Run /\ pc = "list" /\ pc' = "list" /\ Behind # {}
      /\ mail \in Seq(Thread)
    BY DEF ListThread, ListOn, Inside, TypeOK
<1> PICK t : t = NextListed
    OBVIOUS
<1>1. /\ t \in Listed /\ NewestOf(t) \in Int
      /\ \A y \in Listed : NewestOf(y) < my.last => NewestOf(y) <= NewestOf(t)
    BY <1>0, NextListedIs, ListedIs DEF Behind
<1> DEFINE fresh == IF t \notin my.known THEN my.fresh \cup {t} ELSE my.fresh
<1>2. /\ my.fresh \subseteq fresh /\ t \in my.known \cup fresh
      /\ \E head, recent :
           my' = [my EXCEPT !.fresh = fresh, !.head = head, !.recent = recent,
                            !.last = NewestOf(t), !.walked = @ + 1]
  <2>1. my.fresh \subseteq fresh /\ t \in my.known \cup fresh
      OBVIOUS
  <2>2. \E head, recent :
           my' = [my EXCEPT !.fresh = fresh, !.head = head, !.recent = recent,
                            !.last = NewestOf(t), !.walked = @ + 1]
      BY DEF ListThread, NextListed
  <2> QED BY <2>1, <2>2
<1> HIDE DEF fresh
<1>3. /\ my'.known = my.known /\ my'.dirty = my.dirty /\ my'.got = my.got
      /\ my'.reopened = my.reopened /\ my'.read = my.read /\ my'.cur = my.cur
      /\ my'.complete = my.complete /\ my'.mode = my.mode /\ my'.next = my.next
      /\ my'.anew = my.anew /\ my'.changed = my.changed /\ my'.todo = my.todo
      /\ my'.last = NewestOf(t) /\ my'.fresh = fresh
    BY <1>0, <1>2 DEF Run
<1>4. StoreInv' /\ CursorInv' /\ ReadInv' /\ HistoryInv' /\ ReopenInv'
    BY <1>0, <1>3, InsideFrame
       DEF Parts, StoreInv, CursorInv, ReadInv, HistoryInv, ReopenInv, Reading
<1>5. ListInv'
  <2> SUFFICES ASSUME NEW s \in Listed, NewestOf(t) <= NewestOf(s)
               PROVE  s \in my.known \cup fresh \/ my.next < NewestOf(s)
    <3>1. ~my.complete
        BY <1>0 DEF Parts, CursorInv, Reading
    <3> QED BY <1>0, <1>3, <3>1, InsideFrame DEF ListInv
  <2>1. /\ NewestOf(s) \in Int /\ mail[NewestOf(s)] = s /\ mail[NewestOf(t)] = t
        /\ my.last \in Int
      BY <1>0, <1>1, ListedIs DEF Run
  <2>2. CASE my.last <= NewestOf(s)
      BY <1>0, <1>2, <2>2 DEF Parts, ListInv
  <2>3. CASE NewestOf(s) < my.last
    <3>1. NewestOf(s) = NewestOf(t)
        BY <1>1, <2>1, <2>3
    <3>2. s = t
        BY <2>1, <3>1
    <3> QED BY <1>2, <3>2
  <2> QED BY <2>1, <2>2, <2>3
<1> QED BY <1>0, <1>4, <1>5, InsideFrame DEF Parts

LEMMA EndListStep ==
    ASSUME TypeOK, Parts, EndList
    PROVE  Parts' /\ Inside
<1>0. Inside /\ my \in Run /\ pc = "list" /\ pc' = "fetch"
      /\ mail \in Seq(Thread)
    BY DEF EndList, Inside, TypeOK
<1>1. PICK todo, complete :
          /\ todo = ThreadIds
          /\ complete = (my.mode = "manual" /\ Exhausted)
          /\ my' = [my EXCEPT !.todo = todo, !.complete = complete,
                              !.changed = {}, !.fresh = {}, !.head = {},
                              !.recent = {}, !.walked = 0,
                              !.last = MessageBound + 1]
    BY DEF EndList
<1>2. /\ my'.known = my.known /\ my'.dirty = my.dirty /\ my'.got = my.got
      /\ my'.reopened = my.reopened /\ my'.read = my.read /\ my'.cur = my.cur
      /\ my'.mode = my.mode /\ my'.next = my.next /\ my'.anew = my.anew
      /\ my'.todo = todo /\ my'.complete = complete
    BY <1>0, <1>1 DEF Run
<1>3. /\ my.mode # "refresh" => my.changed \subseteq todo
      /\ complete => my.fresh \subseteq todo /\ Behind = {}
    BY <1>0, <1>1 DEF ThreadIds, Exhausted, Run, Mode
<1>4. StoreInv' /\ CursorInv' /\ ReadInv' /\ ReopenInv'
    BY <1>0, <1>2, InsideFrame
       DEF Parts, StoreInv, CursorInv, ReadInv, ReopenInv, Reading
<1>5. HistoryInv'
    BY <1>0, <1>2, <1>3, InsideFrame DEF Parts, HistoryInv, Reading
<1>6. ListInv'
  <2> SUFFICES ASSUME NEW s \in Listed, complete
               PROVE  s \in my.known \cup todo \/ my.next < NewestOf(s)
      BY <1>0, <1>2, InsideFrame DEF ListInv
  <2>1. NewestOf(s) \in Int /\ my.last \in Int /\ s \notin Behind
      BY <1>0, <1>3, ListedIs DEF Run
  <2>2. my.last <= NewestOf(s)
      BY <2>1 DEF Behind
  <2> QED BY <1>0, <1>3, <2>2 DEF Parts, ListInv
<1> QED BY <1>0, <1>4, <1>5, <1>6, InsideFrame DEF Parts

(* A thread is read: gone for good, or with all that came before.           *)
LEMMA FetchStep ==
    ASSUME TypeOK, Parts, NEW t \in Thread, Fetch(t)
    PROVE  Parts' /\ Inside
<1>0. Inside /\ my \in Run /\ pc = "fetch" /\ mail \in Seq(Thread)
      /\ Now \in Nat /\ my.next <= Now /\ my.next \in Int
    BY DEF Fetch, Inside, TypeOK, Now, Parts, StoreInv, Run, Date, NoCursor
<1>1. CASE t \in gone
  <2>1. PICK k : my' = [my EXCEPT !.todo = @ \ {t}, !.read = @ \cup {t},
                                  !.count = k]
      BY <1>1 DEF Fetch
  <2>2. /\ my'.known = my.known /\ my'.dirty = my.dirty /\ my'.got = my.got
        /\ my'.reopened = my.reopened /\ my'.read = my.read \cup {t}
        /\ my'.cur = my.cur /\ my'.mode = my.mode /\ my'.next = my.next
        /\ my'.anew = my.anew /\ my'.todo = my.todo \ {t}
        /\ my'.complete = my.complete /\ pc' = pc
      BY <1>0, <1>1, <2>1 DEF Run, Fetch
  <2>3. StoreInv' /\ CursorInv' /\ ReadInv' /\ HistoryInv' /\ ListInv'
        /\ ReopenInv'
      BY <1>0, <1>1, <2>2, InsideFrame
         DEF Parts, StoreInv, CursorInv, ReadInv, HistoryInv, ListInv,
             ReopenInv, Reading
  <2> QED BY <1>0, <2>3, InsideFrame DEF Parts
<1>2. CASE t \notin gone
  <2>1. my' = [my EXCEPT !.cur = t, !.got = MessagesOf(t)] /\ pc' = "store"
      BY <1>2 DEF Fetch
  <2>2. /\ my'.known = my.known /\ my'.dirty = my.dirty
        /\ my'.got = MessagesOf(t) /\ my'.cur = t
        /\ my'.reopened = my.reopened /\ my'.read = my.read
        /\ my'.mode = my.mode /\ my'.next = my.next
        /\ my'.anew = my.anew /\ my'.todo = my.todo
        /\ my'.complete = my.complete
      BY <1>0, <2>1 DEF Run
  <2>3. /\ MessagesOf(t) \subseteq 1 .. Now
        /\ \A i \in MessagesOf(t) : mail[i] = t
        /\ \A i \in 1 .. my.next : mail[i] = t => i \in MessagesOf(t)
      BY <1>0 DEF MessagesOf
  <2>4. t # NoThread
      BY NoThreadAssumption
  <2>5. StoreInv'
      BY <1>0, <2>2, <2>3, InsideFrame DEF Parts, StoreInv
  <2>6. ReadInv'
      BY <1>0, <2>2, <2>3, InsideFrame DEF Parts, ReadInv
  <2>7. CursorInv' /\ HistoryInv' /\ ListInv' /\ ReopenInv'
      BY <1>0, <2>1, <2>2, <2>4, InsideFrame
         DEF Parts, CursorInv, HistoryInv, ListInv, ReopenInv, Reading
  <2> QED BY <1>0, <2>5, <2>6, <2>7, InsideFrame DEF Parts
<1> QED BY <1>1, <1>2

(* Its messages are upserted, and the thread reopened if some are news.     *)
LEMMA StoreStep ==
    ASSUME TypeOK, Parts, Store
    PROVE  Parts' /\ Inside
<1> PICK t \in Thread : t = my.cur
    BY DEF TypeOK, Run, Parts, CursorInv, Store
<1>0. Inside /\ my \in Run /\ pc = "store" /\ pc' \in {"commit", "fetch"}
      /\ mail \in Seq(Thread) /\ Now \in Nat
      /\ done \in [Thread -> Date \cup {NotDone}]
      /\ stored \subseteq 1 .. Now /\ my.dirty \subseteq 1 .. Now
      /\ my.got \subseteq 1 .. Now /\ \A i \in my.got : mail[i] = t
    BY DEF Store, Inside, TypeOK, Now, Parts, StoreInv
<1> DEFINE d == IF t \in my.reopened THEN NotDone ELSE done[t]
           news == ShouldReopen(d, stored \cup my.dirty, my.got)
           reopened == IF news THEN my.reopened \cup {t} ELSE my.reopened
<1>1. PICK k : my' = [my EXCEPT !.dirty = @ \cup my.got, !.reopened = reopened,
                                !.todo = @ \ {t}, !.read = @ \cup {t},
                                !.cur = NoThread, !.got = {}, !.count = k]
    BY DEF Store
<1> HIDE DEF reopened
<1>2. /\ my'.known = my.known /\ my'.dirty = my.dirty \cup my.got
      /\ my'.got = {} /\ my'.reopened = reopened
      /\ my'.read = my.read \cup {t}
      /\ my'.mode = my.mode /\ my'.next = my.next
      /\ my'.anew = my.anew /\ my'.todo = my.todo \ {t}
      /\ my'.complete = my.complete
    BY <1>0, <1>1 DEF Run
<1>3. StoreInv'
    BY <1>0, <1>2, InsideFrame DEF Parts, StoreInv
<1>4. ReadInv'
    BY <1>0, <1>2, InsideFrame DEF Parts, ReadInv
<1>5. CursorInv' /\ HistoryInv' /\ ListInv'
    BY <1>0, <1>2, InsideFrame DEF Parts, CursorInv, HistoryInv, ListInv, Reading
<1>6. ReopenInv'
  <2>1. CASE news
    <3>1. /\ t \notin my.reopened /\ done[t] # NotDone
          /\ \E i \in my.got : i \notin stored \cup my.dirty /\ i > done[t]
                              /\ i \notin Own
        BY <2>1 DEF ShouldReopen
    <3>2. reopened = my.reopened \cup {t}
        BY <2>1 DEF reopened
    <3> QED BY <1>0, <1>2, <3>1, <3>2, InsideFrame DEF Parts, ReopenInv
  <2>2. CASE ~news
    <3>1. reopened = my.reopened
        BY <2>2 DEF reopened
    <3>2. ASSUME NEW i \in my.got
          PROVE  t \in my.reopened \/ i \in Own \/ done[t] = NotDone \/ i <= done[t]
      <4>1. SUFFICES ASSUME t \notin my.reopened, done[t] # NotDone, i > done[t]
                     PROVE  i \in Own
        <5>1. i \in Int /\ done[t] \in Int
            BY <1>0, <3>2 DEF Date, NotDone
        <5> QED BY <5>1
      <4>2. CASE i \in stored
          BY <1>0, <3>2, <4>1, <4>2 DEF Parts, DoneIsCaughtUp
      <4>3. CASE i \in my.dirty
        <5>1. i \in Int /\ done[t] \in Int
            BY <1>0, <3>2 DEF Date, NotDone
        <5> QED BY <1>0, <3>2, <4>1, <4>3, <5>1 DEF Parts, ReopenInv
      <4>4. CASE i \notin stored \cup my.dirty
          BY <2>2, <3>2, <4>1, <4>4 DEF ShouldReopen
      <4> QED BY <4>2, <4>3, <4>4
    <3> QED BY <1>0, <1>2, <3>1, <3>2, InsideFrame DEF Parts, ReopenInv
  <2> QED BY <2>1, <2>2
<1> QED BY <1>0, <1>3, <1>4, <1>5, <1>6, InsideFrame DEF Parts

LEMMA DieStep ==
    ASSUME TypeOK, Parts, Die
    PROVE  Parts' /\ Inside
<1>0. Inside /\ my' = Idle /\ pc' = "dead"
    BY DEF Die, Inside
<1>1. /\ my'.known = {} /\ my'.next = NoCursor /\ my'.dirty = {}
      /\ my'.got = {} /\ my'.read = {} /\ my'.reopened = {} /\ ~my'.complete
    BY <1>0 DEF Idle
<1>2. NoCursor <= Now /\ ~(1 <= NoCursor)
    BY DEF NoCursor, Now, TypeOK
<1>3. StoreInv'
    BY <1>0, <1>1, <1>2, InsideFrame DEF Parts, StoreInv
<1>4. CursorInv' /\ HistoryInv' /\ ListInv' /\ ReopenInv'
    BY <1>0, <1>1, InsideFrame
       DEF CursorInv, HistoryInv, ListInv, ReopenInv, Reading
<1>5. ReadInv'
    BY <1>0, <1>1 DEF ReadInv
<1> QED BY <1>0, <1>3, <1>4, <1>5, InsideFrame DEF Parts

-----------------------------------------------------------------------------
(* The transactions.                                                        *)

(* The newest message of the thread of a message.                           *)
NewestBy(i) == NewestOf(mail[i])

(* What is upserted becomes durable, and what reopens a thread with it.     *)
LEMMA FlushKeeps ==
    ASSUME TypeOK, Parts, Flush, UNCHANGED gmailVars
    PROVE  /\ stored' = stored \cup my.dirty /\ stored' \subseteq 1 .. Now
           /\ Now' = Now /\ Now \in Nat /\ Now <= MessageBound
           /\ mail' = mail /\ gone' = gone /\ mail \in Seq(Thread)
           /\ Listed' = Listed /\ \A t : NewestOf(t)' = NewestOf(t)
           /\ \A i : NewestBy(i)' = NewestBy(i)
           /\ KnownThreads \subseteq KnownThreads'
           /\ \A t \in KnownThreads' : t \in KnownThreads \cup my.read
           /\ DoneIsCaughtUp'
<1>1. /\ stored' = stored \cup my.dirty /\ mail' = mail /\ gone' = gone
      /\ Now' = Now /\ Now \in Nat /\ Now <= MessageBound
      /\ stored \subseteq 1 .. Now /\ my.dirty \subseteq 1 .. Now
      /\ \A i \in my.dirty : mail[i] \in my.read
      /\ mail \in Seq(Thread)
    BY DEF Flush, gmailVars, Parts, StoreInv, TypeOK, Now
<1>2. /\ Listed' = Listed /\ \A t : NewestOf(t)' = NewestOf(t)
      /\ \A i : NewestBy(i)' = NewestBy(i)
    BY <1>1 DEF Listed, ThreadsOf, NewestBy, NewestOf, MessagesOf
<1>3. /\ KnownThreads \subseteq KnownThreads'
      /\ \A t \in KnownThreads' : t \in KnownThreads \cup my.read
    BY <1>1 DEF KnownThreads, ThreadsOf
<1>4. DoneIsCaughtUp'
  <2> SUFFICES ASSUME NEW i \in stored', done'[mail[i]] # NotDone,
                      i > done'[mail[i]]
               PROVE  i \in Own
      BY <1>1 DEF DoneIsCaughtUp
  <2>0. i \in 1 .. Now
      BY <1>1
  <2>1. mail[i] \in Thread /\ i \in Int
      BY <1>1, <2>0 DEF Now
  <2>2. /\ mail[i] \notin my.reopened
        /\ done'[mail[i]] = done[mail[i]] /\ done[mail[i]] \in Int
      BY <2>1 DEF Flush, TypeOK, Date, NotDone
  <2>3. CASE i \in stored
      BY <2>2, <2>3 DEF Parts, DoneIsCaughtUp
  <2>4. CASE i \in my.dirty
      BY <2>1, <2>2, <2>4 DEF Parts, ReopenInv
  <2> QED BY <1>1, <2>3, <2>4
<1> QED BY <1>1, <1>2, <1>3, <1>4

LEMMA OwedIs ==
    \A i : i \in Owed <=>
             /\ i \in 1 .. Now
             /\ \/ blind \/ mail[i] \in gone \/ NewestBy(i) > cursor
                \/ mail[i] \notin KnownThreads /\ ~backfilled
    BY DEF Owed, NewestBy

LEMMA ThenOwed ==
    \A i : i \in Owed' <=>
             /\ i \in 1 .. Now'
             /\ \/ blind' \/ mail'[i] \in gone' \/ NewestBy(i)' > cursor'
                \/ mail'[i] \notin KnownThreads' /\ ~backfilled'
    BY DEF Owed, NewestBy

(* A transaction is one of the abstract ingest if it stores what it vouches *)
(* for.                                                                     *)
LEMMA SyncStep ==
    ASSUME TypeOK, Parts, Flush, UNCHANGED gmailVars, There \ Owed' \subseteq stored'
    PROVE  Mirror!Sync
<1>1. /\ stored' = stored \cup my.dirty /\ stored' \subseteq 1 .. Now
      /\ Now' = Now /\ mail' = mail /\ gone' = gone
      /\ Now \in Nat /\ Now <= MessageBound
    BY FlushKeeps
<1>2. There' = There
    BY <1>1 DEF There
<1>3. 1 .. Now \subseteq Message
    BY <1>1, BoundAssumption DEF Message
<1>4. stored' \in SUBSET Message /\ Owed' \in SUBSET Message
    BY <1>1, <1>3, ThenOwed
<1>5. stored' \ stored \subseteq There \cup Owed
    BY <1>1, OwedIs DEF There
<1> QED BY <1>1, <1>2, <1>4, <1>5 DEF Mirror!Sync

LEMMA CommitStep ==
    ASSUME TypeOK, Parts, Mirror!NothingSkipped, Commit
    PROVE  Parts' /\ Mirror!Sync
<1>0. /\ Flush /\ UNCHANGED gmailVars /\ cursor' = cursor
      /\ backfilled' = backfilled /\ blind' = blind
      /\ pc = "commit" /\ pc' = "fetch" /\ my \in Run
    BY DEF Commit, TypeOK, gmailVars
<1>1. /\ stored' = stored \cup my.dirty /\ stored' \subseteq 1 .. Now
      /\ Now' = Now /\ Now \in Nat
      /\ mail' = mail /\ gone' = gone /\ mail \in Seq(Thread)
      /\ Listed' = Listed /\ \A t : NewestOf(t)' = NewestOf(t)
      /\ \A i : NewestBy(i)' = NewestBy(i)
      /\ KnownThreads \subseteq KnownThreads'
      /\ \A t \in KnownThreads' : t \in KnownThreads \cup my.read
      /\ DoneIsCaughtUp'
    BY <1>0, FlushKeeps
<1>2. my' = [my EXCEPT !.dirty = {}, !.reopened = {}]
    BY DEF Commit
<1>3. /\ my'.known = my.known /\ my'.dirty = {} /\ my'.got = my.got
      /\ my'.reopened = {} /\ my'.read = my.read /\ my'.cur = my.cur
      /\ my'.mode = my.mode /\ my'.next = my.next /\ my'.anew = my.anew
      /\ my'.todo = my.todo /\ my'.complete = my.complete
    BY <1>0, <1>2 DEF Run
<1>4. StoreInv'
    BY <1>0, <1>1, <1>3 DEF Parts, StoreInv
<1>5. ReadInv' /\ CursorInv' /\ HistoryInv' /\ ListInv' /\ ReopenInv'
    BY <1>0, <1>1, <1>3
       DEF Parts, ReadInv, CursorInv, HistoryInv, ListInv, ReopenInv, Reading
<1>6. ASSUME NEW i \in There, i \notin Owed'
      PROVE  i \in stored'
  <2>1. i \in 1 .. Now /\ mail[i] \notin gone
      BY DEF There
  <2>2. /\ ~blind /\ ~(NewestBy(i) > cursor)
        /\ mail[i] \in KnownThreads' \/ backfilled
      BY <1>0, <1>1, <1>6, <2>1, ThenOwed
  <2>3. CASE mail[i] \in my.read
    <3>1. cursor <= my.next /\ my.next \in Int /\ cursor \in Int
        BY <1>0 DEF Parts, CursorInv, Reading, TypeOK, Run, Date, NoCursor
    <3>2. i \in 1 .. my.next
        BY <1>1, <2>1, <2>2, <3>1, NewestIs DEF NewestBy
    <3> QED BY <1>1, <2>1, <2>3, <3>2 DEF Parts, ReadInv
  <2>4. CASE mail[i] \notin my.read
    <3>1. mail[i] \in KnownThreads \/ backfilled
        BY <1>1, <2>2, <2>4
    <3>2. i \notin Owed
        BY <2>1, <2>2, <3>1, OwedIs
    <3> QED BY <1>1, <3>2 DEF Mirror!NothingSkipped
  <2> QED BY <2>3, <2>4
<1> QED BY <1>0, <1>1, <1>4, <1>5, <1>6, SyncStep DEF Parts

(* The run is over, and its cursor says what it has read.                   *)
LEMMA FinishStep ==
    ASSUME TypeOK, Parts, Mirror!NothingSkipped, Finish
    PROVE  Parts' /\ Mirror!Sync
<1>0. /\ Flush /\ UNCHANGED gmailVars /\ cursor' = my.next
      /\ backfilled' = (backfilled \/ my.complete)
      /\ pc = "fetch" /\ pc' = "idle" /\ my' = Idle
      /\ my \in Run /\ my.todo = {}
    BY DEF Finish, NewCursor, TypeOK, gmailVars
<1>1. /\ stored' = stored \cup my.dirty /\ stored' \subseteq 1 .. Now
      /\ Now' = Now /\ Now \in Nat
      /\ mail' = mail /\ gone' = gone /\ mail \in Seq(Thread)
      /\ Listed' = Listed /\ \A t : NewestOf(t)' = NewestOf(t)
      /\ \A i : NewestBy(i)' = NewestBy(i)
      /\ KnownThreads \subseteq KnownThreads'
      /\ \A t \in KnownThreads' : t \in KnownThreads \cup my.read
      /\ DoneIsCaughtUp'
    BY <1>0, FlushKeeps
<1>2. /\ my'.known = {} /\ my'.next = NoCursor /\ my'.dirty = {}
      /\ my'.got = {} /\ my'.read = {} /\ my'.reopened = {} /\ ~my'.complete
    BY <1>0 DEF Idle
<1>3. /\ my.next \in Int /\ my.next <= Now /\ cursor \in Int
      /\ NoCursor <= Now /\ ~(1 <= NoCursor)
    BY <1>0, <1>1 DEF Run, Date, NoCursor, Parts, StoreInv, TypeOK
<1>4. StoreInv'
    BY <1>0, <1>1, <1>2, <1>3 DEF StoreInv
<1>5. ReadInv' /\ CursorInv' /\ HistoryInv' /\ ListInv' /\ ReopenInv'
    BY <1>0, <1>1, <1>2, <1>3
       DEF ReadInv, CursorInv, HistoryInv, ListInv, ReopenInv, Reading
<1>6. ASSUME NEW i \in There, i \notin Owed'
      PROVE  i \in stored'
  <2>1. i \in 1 .. Now /\ mail[i] \notin gone /\ mail[i] \in Listed
      BY DEF There, Listed, ThreadsOf
  <2>2. /\ ~blind' /\ ~(NewestBy(i) > my.next)
        /\ mail[i] \in KnownThreads' \/ backfilled'
      BY <1>0, <1>1, <1>6, <2>1, ThenOwed
  <2>3. /\ NewestBy(i) \in 1 .. Now /\ i <= NewestBy(i)
        /\ mail[NewestBy(i)] = mail[i] /\ NewestBy(i) = NewestOf(mail[i])
        /\ i \in 1 .. my.next /\ NewestBy(i) \in 1 .. my.next
      BY <1>1, <1>3, <2>1, <2>2, NewestIs DEF NewestBy
  <2>4. CASE mail[i] \in my.read
      BY <1>1, <2>1, <2>3, <2>4 DEF Parts, ReadInv
  <2>5. CASE mail[i] \notin my.read
    <3>1. ~blind /\ ~my.anew
      <4>1. KnownThreads' = ThreadsOf(stored')
          BY <1>1 DEF KnownThreads, ThreadsOf
      <4>2. ~(NewestOf(mail[i]) > my.next) => NewestOf(mail[i]) <= my.next
          BY <1>3, <2>3
      <4> QED BY <2>1, <2>2, <2>3, <2>5, <4>1, <4>2 DEF Finish
    <3>2. NewestBy(i) <= cursor
      <4>1. my.mode # "refresh" =>
                \A j \in 1 .. my.next : j > cursor => mail[j] \in my.read
          BY <1>0, <3>1 DEF Parts, HistoryInv, Reading
      <4>2. my.mode = "refresh" => my.next = cursor
          BY <1>0, <3>1 DEF Parts, HistoryInv, Reading
      <4> QED BY <1>3, <2>2, <2>3, <2>5, <4>1, <4>2
    <3>3. mail[i] \in KnownThreads \/ backfilled
      <4>1. CASE my.complete
        <5>1. mail[i] \in my.known
            BY <1>0, <1>3, <2>1, <2>2, <2>3, <2>5, <4>1 DEF Parts, ListInv
        <5> QED BY <5>1 DEF Parts, StoreInv
      <4>2. CASE ~my.complete
          BY <1>0, <1>1, <2>2, <2>5, <4>2
      <4> QED BY <4>1, <4>2
    <3>4. i \notin Owed
        BY <1>3, <2>1, <2>3, <3>1, <3>2, <3>3, OwedIs
    <3> QED BY <1>1, <3>4 DEF Mirror!NothingSkipped
  <2> QED BY <2>4, <2>5
<1> QED BY <1>0, <1>1, <1>4, <1>5, <1>6, SyncStep DEF Parts

-----------------------------------------------------------------------------
(* Gmail, and the user.                                                     *)

LEMMA ArriveStep ==
    ASSUME TypeOK, Parts, NEW t \in Thread, Arrive(t)
    PROVE  Parts' /\ \E i \in Message : Mirror!Receive(i)
<1> PICK n : n = Now + 1
    OBVIOUS
<1>0. /\ mail' = Append(mail, t) /\ t \notin gone /\ gone' = gone
      /\ stored' = stored /\ done' = done /\ cursor' = cursor
      /\ backfilled' = backfilled /\ pc' = pc /\ my' = my /\ blind' = blind
      /\ mail \in Seq(Thread) /\ Now \in Nat /\ Now < MessageBound /\ my \in Run
    BY DEF Arrive, dbVars, TypeOK, Now
<1>1. /\ Now' = n /\ n \in Nat /\ mail'[n] = t
      /\ \A i \in 1 .. Now : mail'[i] = mail[i]
      /\ 1 .. n = (1 .. Now) \cup {n} /\ n \notin 1 .. Now
    BY <1>0 DEF Now
<1>2. /\ stored \subseteq 1 .. Now /\ my.dirty \subseteq 1 .. Now
      /\ my.got \subseteq 1 .. Now
      /\ cursor <= Now /\ my.next <= Now /\ my.next \in Int /\ cursor \in Int
    BY <1>0 DEF Parts, StoreInv, Run, Date, NoCursor, TypeOK
<1>2a. n > Now /\ n \in Message
       /\ cursor <= n /\ my.next <= n /\ cursor < n /\ my.next < n
    BY <1>0, <1>2, BoundAssumption DEF Message
<1>3. \A s : MessagesOf(s)' = MessagesOf(s) \cup (IF s = t THEN {n} ELSE {})
    BY <1>1 DEF MessagesOf
<1>4. \A s : s # t => NewestOf(s)' = NewestOf(s)
    BY <1>3 DEF NewestOf
<1>5. NewestOf(t)' = n
  <2>1. MessagesOf(t)' = MessagesOf(t) \cup {n} /\ MessagesOf(t) \subseteq 1 .. Now
      BY <1>3 DEF MessagesOf
  <2> DEFINE S == MessagesOf(t) \cup {n}
  <2>2. S \in SUBSET (1 .. n) /\ n \in S /\ S # {}
      BY <1>1, <2>1
  <2> HIDE DEF S
  <2>3. Max(S) \in S /\ \A i \in S : i <= Max(S)
      BY <1>1, <2>2, MaxIsThere
  <2>4. Max(S) = n
    <3>1. Max(S) \in 1 .. n /\ n <= Max(S)
        BY <2>2, <2>3
    <3> QED BY <1>1, <3>1
  <2> QED BY <2>1, <2>4 DEF NewestOf, S
<1>6. Listed' = Listed \cup {t}
  <2>1. ThreadsOf(1 .. Now)' = {mail'[i] : i \in (1 .. Now) \cup {n}}
      BY <1>1 DEF ThreadsOf
  <2>2. ThreadsOf(1 .. Now)' = ThreadsOf(1 .. Now) \cup {t}
      BY <1>1, <2>1 DEF ThreadsOf
  <2> QED BY <1>0, <2>2 DEF Listed
<1>7. KnownThreads' = KnownThreads
    BY <1>0, <1>1, <1>2 DEF KnownThreads, ThreadsOf
<1>8. StoreInv'
  <2>1. stored' \cup my'.dirty \cup my'.got \subseteq 1 .. Now'
      BY <1>0, <1>1, <1>2
  <2>2. cursor' <= Now' /\ my'.next <= Now' /\ my'.known \subseteq KnownThreads'
      BY <1>0, <1>1, <1>7, <1>2a DEF Parts, StoreInv
  <2>3. /\ \A i \in my'.got : mail'[i] = my'.cur
        /\ \A i \in my'.dirty : mail'[i] \in my'.read
      BY <1>0, <1>1, <1>2 DEF Parts, StoreInv
  <2> QED BY <2>1, <2>2, <2>3 DEF StoreInv
<1>9. CursorInv'
    BY <1>0 DEF Parts, CursorInv
<1>10. \A i \in 1 .. my.next : i \in 1 .. Now /\ mail'[i] = mail[i]
  <2>1. 1 .. my.next \subseteq 1 .. Now
      BY <1>0, <1>2
  <2> QED BY <1>1, <2>1
<1>11. ReadInv' /\ HistoryInv'
    BY <1>0, <1>10 DEF Parts, ReadInv, HistoryInv
<1>12. ListInv'
    BY <1>0, <1>4, <1>5, <1>6, <1>2a DEF Parts, ListInv
<1>13. ReopenInv' /\ DoneIsCaughtUp'
    BY <1>0, <1>1, <1>2 DEF Parts, ReopenInv, DoneIsCaughtUp
<1>14. There' = There \cup {n} /\ n \notin There
    BY <1>0, <1>1 DEF There
<1>15. ASSUME NEW i \in 1 .. Now
       PROVE  /\ mail[i] # t => NewestBy(i)' = NewestBy(i)
              /\ mail[i] = t => NewestBy(i)' = n
  <2>1. mail'[i] = mail[i]
      BY <1>1
  <2> PICK s : s = mail[i]
      OBVIOUS
  <2>2. NewestBy(i)' = NewestOf(s)' /\ NewestBy(i) = NewestOf(s)
      BY <2>1 DEF NewestBy, NewestOf, MessagesOf
  <2> QED BY <1>4, <1>5, <2>2
<1>16. NewestBy(n)' = n
  <2>1. NewestBy(n)' = NewestOf(t)'
      BY <1>1 DEF NewestBy, NewestOf, MessagesOf
  <2> QED BY <1>5, <2>1
<1>17. /\ Owed \cup {n} \subseteq Owed'
       /\ Owed' \subseteq Owed \cup There'
  <2>1. n > cursor
      BY <1>1, <1>2, <1>2a
  <2>2. n \in Owed'
      BY <1>0, <1>1, <1>16, <2>1, ThenOwed
  <2>3. ASSUME NEW i \in 1 .. Now
        PROVE  /\ i \in Owed => i \in Owed'
               /\ i \in Owed' => i \in Owed \cup There'
    <3>1. i \in 1 .. Now' /\ mail'[i] = mail[i] /\ i \in Int
        BY <1>1
    <3>2. CASE mail[i] = t
      <4>1. i \in Owed' /\ i \in There'
          BY <1>0, <1>15, <2>1, <3>1, <3>2, ThenOwed DEF There
      <4> QED BY <4>1
    <3>3. CASE mail[i] # t
      <4>1. NewestBy(i)' = NewestBy(i)
          BY <1>15, <3>3
      <4> QED BY <1>0, <1>7, <3>1, <4>1, OwedIs, ThenOwed
    <3> QED BY <3>2, <3>3
  <2>4. Owed \subseteq 1 .. Now /\ Owed' \subseteq (1 .. Now) \cup {n}
      BY <1>1, OwedIs, ThenOwed
  <2> QED BY <1>14, <2>2, <2>3, <2>4
<1>18. Mirror!Receive(n)
    BY <1>0, <1>14, <1>17 DEF Mirror!Receive
<1> QED BY <1>8, <1>9, <1>11, <1>12, <1>13, <1>2a, <1>18
        DEF Parts

LEMMA DeleteStep ==
    ASSUME TypeOK, Parts, NEW t \in Thread, DeleteThread(t)
    PROVE  Parts' /\ \E S \in SUBSET Message : Mirror!Withdraw(S)
<1>0. /\ t \in Listed /\ gone' = gone \cup {t} /\ mail' = mail
      /\ stored' = stored /\ done' = done /\ cursor' = cursor
      /\ backfilled' = backfilled /\ pc' = pc /\ my' = my /\ blind' = blind
      /\ mail \in Seq(Thread) /\ Now \in Nat /\ Now <= MessageBound
    BY DEF DeleteThread, dbVars, TypeOK, Now
<1>1. /\ Now' = Now /\ KnownThreads' = KnownThreads /\ Listed' = Listed \ {t}
      /\ \A s : NewestOf(s)' = NewestOf(s)
      /\ \A i : NewestBy(i)' = NewestBy(i)
    BY <1>0 DEF Now, KnownThreads, ThreadsOf, Listed, NewestBy, NewestOf,
                MessagesOf
<1>2. Parts'
    BY <1>0, <1>1 DEF Parts, StoreInv, CursorInv, ReadInv, HistoryInv, ListInv,
                      ReopenInv, DoneIsCaughtUp
<1>3. PICK S : S = MessagesOf(t)
    OBVIOUS
<1>4. /\ S \in SUBSET Message /\ S \subseteq There
      /\ \A i \in 1 .. Now : i \in S <=> mail[i] = t
  <2>1. S = {i \in 1 .. Now : mail[i] = t} /\ 1 .. Now \subseteq Message
      BY <1>0, <1>3, BoundAssumption DEF Message, MessagesOf
  <2>2. t \notin gone
      BY <1>0 DEF Listed
  <2> QED BY <2>1, <2>2 DEF There
<1>5. S # {}
  <2> PICK i \in 1 .. Now : mail[i] = t
      BY <1>0 DEF Listed, ThreadsOf
  <2> QED BY <1>4
<1>6. There' = There \ S
    BY <1>0, <1>1, <1>4 DEF There
<1>7. Owed \ S \subseteq Owed' /\ Owed' \subseteq Owed \cup S
    BY <1>0, <1>1, <1>4, OwedIs, ThenOwed
<1>8. Mirror!Withdraw(S)
    BY <1>0, <1>4, <1>5, <1>6, <1>7 DEF Mirror!Withdraw
<1> QED BY <1>2, <1>4, <1>8

LEMMA MarkDoneStep ==
    ASSUME TypeOK, Parts, NEW t \in Thread, MarkDone(t)
    PROVE  Parts' /\ UNCHANGED Mirror!vars
<1>0. /\ done[t] = NotDone /\ t \notin ThreadsOf(my.dirty)
      /\ done' = [done EXCEPT ![t] = Now]
      /\ mail' = mail /\ gone' = gone /\ stored' = stored /\ cursor' = cursor
      /\ backfilled' = backfilled /\ pc' = pc /\ my' = my /\ blind' = blind
      /\ mail \in Seq(Thread) /\ Now \in Nat
      /\ done \in [Thread -> Date \cup {NotDone}]
    BY DEF MarkDone, gmailVars, TypeOK, Now
<1>1. /\ Now' = Now /\ KnownThreads' = KnownThreads /\ Listed' = Listed
      /\ \A s : NewestOf(s)' = NewestOf(s)
      /\ UNCHANGED Mirror!vars
    BY <1>0 DEF Now, KnownThreads, ThreadsOf, Listed, NewestOf, MessagesOf,
                Mirror!vars, There, Owed
<1>2. StoreInv' /\ CursorInv' /\ ReadInv' /\ HistoryInv' /\ ListInv'
    BY <1>0, <1>1 DEF Parts, StoreInv, CursorInv, ReadInv, HistoryInv, ListInv
<1>3. ReopenInv'
  <2>1. \A i \in my.dirty : mail[i] # t
      BY <1>0 DEF ThreadsOf
  <2>2. \A s : s # t => done'[s] = done[s]
      BY <1>0
  <2>3. t \notin my.reopened
      BY <1>0 DEF Parts, ReopenInv
  <2> QED BY <1>0, <2>1, <2>2, <2>3 DEF Parts, ReopenInv
<1>4. DoneIsCaughtUp'
  <2>1. \A i \in stored : ~(i > Now) /\ mail[i] \in Thread
      BY <1>0 DEF Parts, StoreInv, Now
  <2> QED BY <1>0, <2>1 DEF Parts, DoneIsCaughtUp
<1> QED BY <1>1, <1>2, <1>3, <1>4 DEF Parts

-----------------------------------------------------------------------------
(* All runs of an account.                                                  *)

LEMMA PromiseKept ==
    Mirror!NothingSkipped /\ [Mirror!Next]_(Mirror!vars)
        => Mirror!NothingSkipped'
    BY DEF Mirror!NothingSkipped, Mirror!Next, Mirror!vars, Mirror!Receive,
           Mirror!Withdraw, Mirror!Sync

LEMMA InitIInv == Init => IInv /\ Mirror!Init
<1> SUFFICES ASSUME Init PROVE IInv /\ Mirror!Init
    OBVIOUS
<1>1. /\ mail = <<>> /\ Now = 0 /\ 1 .. Now = {} /\ gone = {} /\ stored = {}
      /\ done = [t \in Thread |-> NotDone] /\ cursor = NoCursor
      /\ pc = "idle" /\ my = Idle /\ backfilled = FALSE /\ blind = FALSE
    BY DEF Init, Now
<1>2. TypeOK
  <2>1. mail \in Seq(Thread) /\ Len(mail) <= MessageBound
      BY <1>1, BoundAssumption DEF Now
  <2> QED BY <1>1, <2>1, IdleIsRun DEF TypeOK, Place
<1>3. /\ my.known = {} /\ my.next = NoCursor /\ my.dirty = {}
      /\ my.got = {} /\ my.read = {} /\ my.reopened = {} /\ ~my.complete
    BY <1>1 DEF Idle
<1>4. StoreInv
    BY <1>1, <1>3 DEF StoreInv, NoCursor
<1>5. CursorInv /\ HistoryInv /\ ListInv /\ ReopenInv /\ DoneIsCaughtUp
    BY <1>1, <1>3
       DEF CursorInv, HistoryInv, ListInv, ReopenInv, DoneIsCaughtUp, Reading
<1>6. ReadInv
    BY <1>1, <1>3 DEF ReadInv
<1>7. There = {} /\ Owed = {}
    BY <1>1, OwedIs DEF There
<1> QED BY <1>1, <1>2, <1>4, <1>5, <1>6, <1>7
        DEF IInv, Mirror!Init, Mirror!NothingSkipped

(* Every step keeps what the runs know of the mailbox, and is one of the    *)
(* abstract ingest, or none.                                                *)
LEMMA StepMirrors == IInv /\ [Next]_vars => Parts' /\ [Mirror!Next]_(Mirror!vars)
<1> SUFFICES ASSUME IInv, [Next]_vars
             PROVE  Parts' /\ [Mirror!Next]_(Mirror!vars)
    OBVIOUS
<1>0. TypeOK /\ Parts /\ Mirror!NothingSkipped
    BY DEF IInv, Parts
<1>1. ASSUME NEW mode \in Mode, Start(mode)
      PROVE  Parts' /\ [Mirror!Next]_(Mirror!vars)
    BY <1>0, <1>1, StartStep, InsideFrame
<1>2. CASE ReadHistory \/ HistoryExpired \/ SkipHistory \/ Profile
    BY <1>0, <1>2, HistoryStep, InsideFrame
<1>3. CASE ListThread
    BY <1>0, <1>3, ListStep, InsideFrame
<1>4. CASE EndList
    BY <1>0, <1>4, EndListStep, InsideFrame
<1>5. ASSUME NEW t \in Thread, Fetch(t)
      PROVE  Parts' /\ [Mirror!Next]_(Mirror!vars)
    BY <1>0, <1>5, FetchStep, InsideFrame
<1>6. CASE Store
    BY <1>0, <1>6, StoreStep, InsideFrame
<1>7. CASE Die
    BY <1>0, <1>7, DieStep, InsideFrame
<1>8. CASE Commit
    BY <1>0, <1>8, CommitStep DEF Mirror!Next
<1>9. CASE Finish
    BY <1>0, <1>9, FinishStep DEF Mirror!Next
<1>10. ASSUME NEW t \in Thread, Arrive(t)
       PROVE  Parts' /\ [Mirror!Next]_(Mirror!vars)
    BY <1>0, <1>10, ArriveStep DEF Mirror!Next
<1>11. ASSUME NEW t \in Thread, DeleteThread(t)
       PROVE  Parts' /\ [Mirror!Next]_(Mirror!vars)
    BY <1>0, <1>11, DeleteStep DEF Mirror!Next
<1>12. ASSUME NEW t \in Thread, MarkDone(t)
       PROVE  Parts' /\ [Mirror!Next]_(Mirror!vars)
    BY <1>0, <1>12, MarkDoneStep
<1>13. CASE UNCHANGED vars
  <2>1. Inside /\ pc' = pc /\ my' = my
      BY <1>13 DEF vars, Inside
  <2>2. Parts'
      BY <1>0, <2>1, InsideFrame
         DEF Parts, StoreInv, CursorInv, ReadInv, HistoryInv, ListInv, ReopenInv
  <2> QED BY <2>1, <2>2, InsideFrame
<1> QED BY <1>1, <1>2, <1>3, <1>4, <1>5, <1>6, <1>7, <1>8, <1>9, <1>10, <1>11,
           <1>12, <1>13 DEF Next, Step, Environment

(* In every state the run at work, if any, knows of the mailbox what its    *)
(* cursor and its backfill flag will say: no mail that they pass is missed, *)
(* but what a run without a cursor skipped.                                 *)
THEOREM Invariance == Spec => []IInv
<1>1. Init => IInv
    BY InitIInv
<1>2. IInv /\ [Next]_vars => IInv'
  <2>1. IInv /\ [Next]_vars => TypeOK'
      BY TypeStep DEF IInv
  <2> QED BY <2>1, StepMirrors, PromiseKept DEF IInv, Parts
<1> QED BY <1>1, <1>2, PTL DEF Spec

(* The tables, the cursors and the locals of a run have their types.        *)
THEOREM TypeCorrect == Spec => []TypeOK
<1>1. IInv => TypeOK
    BY DEF IInv
<1> QED BY <1>1, Invariance, PTL

(* The pulls of gmail_ingest.py, in all their modes, with expired history,  *)
(* partial commits and restarts, implement the ingest of MailboxMirror.     *)
THEOREM KeepsTheMirror == Spec => MirrorsTheMailbox
<1>1. Init => Mirror!Init
    BY InitIInv
<1>2. IInv /\ [Next]_vars => [Mirror!Next]_(Mirror!vars)
    BY StepMirrors
<1> QED BY <1>1, <1>2, Invariance, PTL DEF Spec, MirrorsTheMailbox, Mirror!Spec

(* No thread stays done over mail from others that came after done_at:      *)
(* _should_reopen_thread is asked with the row locked, whatever was         *)
(* upserted before and is committed with it.                                *)
THEOREM DoneThreadsAreCaughtUp == Spec => []DoneIsCaughtUp
<1>1. IInv => DoneIsCaughtUp
    BY DEF IInv
<1> QED BY <1>1, Invariance, PTL

(* Both, as the run checks them.                                            *)
THEOREM StoreIsSound == Spec => []Inv
<1>1. TypeOK /\ DoneIsCaughtUp => Inv
    BY DEF Inv
<1> QED BY <1>1, TypeCorrect, DoneThreadsAreCaughtUp, PTL

(* ... and done_at is cleared for no other reason.                          *)
THEOREM OnlyNewsReopens == Spec => ReopenedByNews
<1> DEFINE News ==
       \A t \in Thread :
          done[t] # NotDone /\ done'[t] = NotDone =>
            \E i \in stored' \ stored :
                mail[i] = t /\ i > done[t] /\ i \notin Own
<1>1. ASSUME IInv, [Next]_vars PROVE News
  <2>1. CASE Commit \/ Finish
    <3>1. Flush
        BY <2>1 DEF Commit, Finish
    <3> QED BY <1>1, <3>1 DEF Flush, IInv, ReopenInv
  <2>2. CASE UNCHANGED done
      BY <2>2
  <2>3. CASE \E t \in Thread : MarkDone(t)
    <3> PICK t \in Thread : MarkDone(t)
        BY <2>3
    <3>1. done[t] = NotDone /\ \A s \in Thread : s # t => done'[s] = done[s]
        BY <1>1 DEF MarkDone, IInv, TypeOK
    <3> QED BY <3>1
  <2> QED BY <1>1, <2>1, <2>2, <2>3
          DEF Next, Step, Environment, Start, ReadHistory, HistoryExpired,
              SkipHistory, Profile, ListThread, EndList, Fetch, Store, Die,
              Arrive, DeleteThread, vars, dbVars
<1>2. IInv /\ [Next]_vars => [News]_vars
    BY <1>1
<1> QED BY <1>2, Invariance, PTL DEF Spec, ReopenedByNews
==============================================================================
