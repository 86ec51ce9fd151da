-------------------------- MODULE OutlookIngestProofs -------------------------
(****************************************************************************)
(* Proofs about OutlookIngest, for any messages, budgets, caps and page     *)
(* sizes: the walks keep the promise of MailboxMirror.                      *)
(****************************************************************************)
EXTENDS OutlookIngest, FiniteSetTheorems, TLAPS

-----------------------------------------------------------------------------
(* Places in a folder's log.                                                *)

(* The lesser of two numbers.                                               *)
LEMMA MinOfTwo ==
    ASSUME NEW a \in Int, NEW b \in Int
    PROVE  Min({a, b}) = IF a <= b THEN a ELSE b
<1>1. CASE a <= b
  <2>1. \A x \in {a, b} : (\A y \in {a, b} : x <= y) <=> x = a
      BY <1>1
  <2> QED BY <1>1, <2>1 DEF Min
<1>2. CASE ~(a <= b)
  <2>1. \A x \in {a, b} : (\A y \in {a, b} : x <= y) <=> x = b
      BY <1>2
  <2> QED BY <1>2, <2>1 DEF Min
<1> QED BY <1>1, <1>2

(* A change of the mailbox is appended to the log of one folder.            *)
Logged(m) == log' = [log EXCEPT ![Home(m)] = Append(@, m)]

LEMMA HomeOf == \A m \in Message : Home(m) \in Folder
    BY DEF Home, Folder

LEMMA LogGrows ==
    ASSUME Shape, NEW m \in Message, Logged(m)
    PROVE  /\ log' \in [Folder -> Seq(Message)]
           /\ \A f \in Folder : \A k \in 1 .. Len(log'[f]) : log'[f][k] \in Of(f)
           /\ \A f \in Folder :
                /\ Len(log[f]) \in Nat /\ Len(log'[f]) \in Nat
                /\ Len(log[f]) <= Len(log'[f])
                /\ \A i \in Nat : i <= Len(log[f]) =>
                     ChangesAt(f, i, Len(log[f]))' =
                       ChangesAt(f, i, Len(log[f]))
                         \cup (IF f = Home(m) THEN {m} ELSE {})
<1> DEFINE h == Home(m)
<1>1. h \in Folder /\ log \in [Folder -> Seq(Message)]
    BY HomeOf DEF Shape
<1>2. /\ log' \in [Folder -> Seq(Message)]
      /\ log'[h] = Append(log[h], m)
      /\ \A f \in Folder : f # h => log'[f] = log[f]
    BY <1>1 DEF Logged
<1> HIDE DEF h
<1>3. \A f \in Folder : Len(log[f]) \in Nat /\ Len(log'[f]) \in Nat
    BY <1>1, <1>2
<1>4. /\ Len(log'[h]) = Len(log[h]) + 1
      /\ log'[h][Len(log[h]) + 1] = m
      /\ \A k \in 1 .. Len(log[h]) : log'[h][k] = log[h][k]
    BY <1>1, <1>2
<1>5. ASSUME NEW f \in Folder, NEW i \in Nat, i <= Len(log[f])
      PROVE  ChangesAt(f, i, Len(log[f]))' =
               ChangesAt(f, i, Len(log[f])) \cup (IF f = h THEN {m} ELSE {})
  <2>1. CASE f = h
    <3>1. i + 1 .. Len(log'[h]) = (i + 1 .. Len(log[h])) \cup {Len(log[h]) + 1}
        BY <1>3, <1>4, <1>5, <2>1
    <3>2. \A k \in i + 1 .. Len(log[h]) : log'[h][k] = log[h][k]
        BY <1>3, <1>4, <2>1
    <3>3. {log'[h][k] : k \in i + 1 .. Len(log'[h])}
            = {log[h][k] : k \in i + 1 .. Len(log[h])} \cup {m}
      <4>1. \A A, B, p : B = A \cup {p} => {log'[h][k] : k \in B}
                          = {log'[h][k] : k \in A} \cup {log'[h][p]}
          OBVIOUS
      <4>2. {log'[h][k] : k \in i + 1 .. Len(log[h])}
              = {log[h][k] : k \in i + 1 .. Len(log[h])}
          BY <3>2
      <4> QED BY <1>4, <3>1, <4>1, <4>2
    <3> QED BY <2>1, <3>3 DEF ChangesAt
  <2>2. CASE f # h
      BY <1>2, <2>2 DEF ChangesAt
  <2> QED BY <2>1, <2>2
<1>6. \A f \in Folder : Len(log[f]) <= Len(log'[f])
    BY <1>2, <1>3, <1>4
<1>7. ASSUME NEW f \in Folder, NEW k \in 1 .. Len(log'[f])
      PROVE  log'[f][k] \in Of(f)
  <2>1. \A j \in 1 .. Len(log[f]) : log[f][j] \in Of(f)
      BY DEF Shape
  <2>2. m \in Of(h)
      BY DEF h, Of
  <2> QED BY <1>2, <1>3, <1>4, <1>7, <2>1, <2>2
<1> QED BY <1>2, <1>3, <1>5, <1>6, <1>7 DEF h

-----------------------------------------------------------------------------
(* The folders' reports.                                                    *)

LEMMA ThereByFolder ==
    /\ \A f \in Folder : InFolder(f) \subseteq There /\ Of(f) \subseteq Message
    /\ \A f \in Folder : InFolder(f) = There \cap Of(f)
    /\ \A f \in Folder : \A m \in Of(f) : f = Home(m)
    /\ \A m \in There : Home(m) \in Folder /\ m \in InFolder(Home(m))
    BY HomeOf DEF There, InFolder, Of

(* What a cursor reports, with the messages of a page in hand.              *)
Told(f, c, S) ==
    IF c.url = NoUrl THEN InFolder(f) \cup S
    ELSE c.url.left \cup ChangesAt(f, c.url.pos, Len(log[f]))

LEMMA ReportedIsTold ==
    \A f : Reported(f) =
             Told(f, cursor[f], IF my.folder = f THEN my.page.messages ELSE {})
    BY DEF Reported, Told

(* ... and after a step that leaves the mailbox alone.                      *)
LEMMA ThenReported ==
    ASSUME UNCHANGED graphVars
    PROVE  \A f : Reported(f)' =
             Told(f, cursor'[f],
                  IF my'.folder = f THEN my'.page.messages ELSE {})
    BY DEF graphVars, Reported, Told, InFolder, ChangesAt

LEMMA ChangesOf ==
    ASSUME Shape, NEW f \in Folder, NEW i \in Nat
    PROVE  ChangesAt(f, i, Len(log[f])) \subseteq Of(f)
<1>1. Len(log[f]) \in Nat /\ \A k \in 1 .. Len(log[f]) : log[f][k] \in Of(f)
    BY DEF Shape
<1>2. i + 1 .. Len(log[f]) \subseteq 1 .. Len(log[f])
    BY <1>1
<1> QED BY <1>1, <1>2 DEF ChangesAt

LEMMA ToldOf ==
    ASSUME Shape, NEW f \in Folder, NEW c, c.url = NoUrl \/ LinkOf(f, c.url),
           NEW S, S \subseteq Of(f)
    PROVE  Told(f, c, S) \subseteq Of(f)
<1>1. CASE c.url = NoUrl
    BY <1>1 DEF Told, InFolder
<1>2. CASE c.url # NoUrl
  <2>1. c.url.left \subseteq Of(f) /\ c.url.pos \in Nat
      BY <1>2 DEF LinkOf, Link
  <2> QED BY <1>2, <2>1, ChangesOf DEF Told
<1> QED BY <1>1, <1>2

LEMMA ReportedOf ==
    ASSUME IInv, NEW f \in Folder
    PROVE  Reported(f) \subseteq Of(f)
<1> DEFINE S == IF my.folder = f THEN my.page.messages ELSE {}
<1>1. S \subseteq Of(f)
    BY DEF IInv, PageInv, NoPage
<1>2. cursor[f].url = NoUrl \/ LinkOf(f, cursor[f].url)
    BY DEF IInv, CursorInv
<1> HIDE DEF S
<1>3. Told(f, cursor[f], S) \subseteq Of(f)
    BY <1>1, <1>2, ToldOf DEF IInv
<1> QED BY <1>3, ReportedIsTold DEF S

LEMMA OwedIs ==
    \A m : m \in Owed <=> m \in waived \/ \E f \in Folder : m \in Reported(f)
    BY DEF Owed

LEMMA ThenOwed ==
    \A m : m \in Owed' <=> m \in waived' \/ \E f \in Folder : m \in Reported(f)'
<1> DEFINE Then(f) == Reported(f)'
<1>1. Owed' = (UNION {Then(f) : f \in Folder}) \cup waived'
    BY DEF Owed
<1> HIDE DEF Then
<1>2. \A m : m \in UNION {Then(f) : f \in Folder}
               <=> \E f \in Folder : m \in Then(f)
    OBVIOUS
<1>3. \A m : m \in Owed' <=> m \in waived' \/ \E f \in Folder : m \in Then(f)
    BY <1>1, <1>2
<1> QED BY <1>3 DEF Then

-----------------------------------------------------------------------------
(* Steps of the abstract ingest.                                            *)

(* The abstract promise is kept by abstract steps.                          *)
LEMMA PromiseKept ==
    Mirror!NothingSkipped /\ [Mirror!Next]_(Mirror!vars)
        => Mirror!NothingSkipped'
    BY DEF Mirror!NothingSkipped, Mirror!Next, Mirror!vars, Mirror!Receive,
           Mirror!Withdraw, Mirror!Sync

(* A step that leaves the mailbox alone is one of a walk, if it stores or   *)
(* waives what it takes off a report, and stores only what was reported.    *)
LEMMA SyncStep ==
    ASSUME IInv, UNCHANGED graphVars,
           stored' \in SUBSET Message, waived' \in SUBSET Message,
           There \cap stored \subseteq stored',
           There \cap waived \subseteq stored' \cup waived',
           stored' \ stored \subseteq Owed,
           \A f \in Folder : Reported(f)' \subseteq Of(f),
           \A f \in Folder : InFolder(f) \cap Reported(f)
                               \subseteq stored' \cup waived' \cup Reported(f)'
    PROVE  Mirror!Sync
<1>1. There' = There
    BY DEF graphVars, There
<1>2. Owed' \in SUBSET Message
    BY ThereByFolder, ThenOwed
<1>3. There \ Owed' \subseteq stored'
  <2> SUFFICES ASSUME NEW m \in There, m \notin Owed' PROVE m \in stored'
      OBVIOUS
  <2>1. m \in stored \cup Owed
      BY DEF IInv, Mirror!NothingSkipped
  <2>2. m \notin waived' /\ \A f \in Folder : m \notin Reported(f)'
      BY ThenOwed
  <2>3. ASSUME NEW f \in Folder, m \in Reported(f)
        PROVE  m \in stored'
    <3>1. m \in InFolder(f)
        BY <2>3, ReportedOf, ThereByFolder
    <3> QED BY <2>2, <2>3, <3>1
  <2> QED BY <2>1, <2>2, <2>3, OwedIs
<1>4. stored \cap There \subseteq stored'
    OBVIOUS
<1> QED BY <1>1, <1>2, <1>3, <1>4 DEF Mirror!Sync

(* The run drops its page, or starts, or gives up a cursor.                 *)
LEMMA DropStep ==
    ASSUME IInv, UNCHANGED <<graphVars, stored, waived>>,
           IsRun(my'), my'.page = NoPage, pc' # "apply",
           cursor' = [f \in Folder |-> cursor'[f]],
           \A f \in Folder : /\ IsCursor(cursor'[f])
                             /\ cursor'[f] = cursor[f] \/ cursor'[f].url = NoUrl
    PROVE  Shape' /\ CursorInv' /\ PageInv' /\ Mirror!Sync
<1>0. UNCHANGED graphVars /\ stored' = stored /\ waived' = waived
    OBVIOUS
<1>1. Shape'
    BY <1>0 DEF graphVars, IInv, Shape, IsRun, IsCursor
<1>2. CursorInv'
    BY <1>0 DEF graphVars, IInv, CursorInv, LinkOf
<1>3. PageInv'
    BY DEF PageInv
<1>4. ASSUME NEW f \in Folder
      PROVE  /\ Reported(f)' \subseteq Of(f)
             /\ InFolder(f) \cap Reported(f) \subseteq Reported(f)'
  <2>1. Reported(f)' = Told(f, cursor'[f], {})
      BY <1>0, ThenReported DEF NoPage
  <2>2. cursor'[f].url = NoUrl \/ LinkOf(f, cursor'[f].url)
      BY DEF IInv, CursorInv
  <2>3. Told(f, cursor'[f], {}) \subseteq Of(f)
      BY <2>2, ToldOf DEF IInv
  <2>4. InFolder(f) \cap Reported(f) \subseteq Told(f, cursor'[f], {})
      BY ReportedIsTold DEF Told
  <2> QED BY <2>1, <2>3, <2>4
<1>5. stored \in SUBSET Message /\ waived \in SUBSET Message
    BY DEF IInv, Shape
<1>6. Mirror!Sync
    BY <1>0, <1>4, <1>5, SyncStep
<1> QED BY <1>1, <1>2, <1>3, <1>6

(* Leaving a folder drops the page.                                         *)
LEMMA LeaveDrops ==
    ASSUME NEW r, IsRun(r), Leave(r)
    PROVE  IsRun(my') /\ my'.page = NoPage /\ pc' \in {"idle", "fetch"}
<1>1. CASE my' = Idle /\ pc' = "idle"
    BY <1>1 DEF Idle, IsRun, Folder
<1>2. CASE /\ my' = [r EXCEPT !.folder = "sentitems", !.removals = 0,
                              !.page = NoPage]
           /\ pc' = "fetch"
  <2>1. my' = [folder |-> "sentitems", remaining |-> r.remaining,
               pages |-> r.pages, removals |-> 0, page |-> NoPage]
      BY <1>2 DEF IsRun
  <2> QED BY <1>2, <2>1 DEF IsRun, Folder
<1> QED BY <1>1, <1>2 DEF Leave

LEMMA PauseSteps ==
    ASSUME IInv, Start \/ Die \/ Defer \/ Expired
    PROVE  Shape' /\ CursorInv' /\ PageInv' /\ Mirror!Sync
<1>1. /\ UNCHANGED <<graphVars, stored, waived>>
      /\ IsRun(my)
    BY DEF Start, Die, Defer, Expired, dbVars, histVars, IInv, Shape
<1>2. IsRun(my') /\ my'.page = NoPage /\ pc' # "apply"
  <2>1. CASE Start
      BY <1>1, <2>1 DEF Start, IInv, PageInv, IsRun
  <2>2. CASE Die
      BY <2>2 DEF Die, Idle, IsRun, Folder
  <2>3. CASE Defer \/ Expired
    <3>1. Leave(my)
        BY <2>3 DEF Defer, Expired
    <3> QED BY <1>1, <3>1, LeaveDrops
  <2> QED BY <2>1, <2>2, <2>3
<1>3. /\ cursor = [f \in Folder |-> cursor[f]]
      /\ \A f \in Folder : IsCursor(cursor[f])
    BY DEF IInv, Shape
<1>4. /\ cursor' = [f \in Folder |-> cursor'[f]]
      /\ \A f \in Folder : /\ IsCursor(cursor'[f])
                           /\ cursor'[f] = cursor[f] \/ cursor'[f].url = NoUrl
  <2>1. CASE cursor' = cursor
      BY <1>3, <2>1
  <2>2. CASE cursor' = [cursor EXCEPT ![my.folder] = Fresh(TRUE)]
    <3>1. IsCursor(Fresh(TRUE)) /\ Fresh(TRUE).url = NoUrl
        BY DEF Fresh, IsCursor
    <3> HIDE DEF Fresh
    <3> QED BY <1>3, <2>2, <3>1
  <2> QED BY <2>1, <2>2 DEF Start, Die, Defer, Expired, dbVars
<1> QED BY <1>1, <1>2, <1>4, DropStep

-----------------------------------------------------------------------------
(* A page is fetched.                                                       *)

LEMMA PageOfLink ==
    ASSUME Shape, NEW f \in Folder, NEW link, LinkOf(f, link),
           NEW S, S \subseteq link.left,
           cursor[f].url # NoUrl => link = cursor[f].url,
           NEW page, page = PageOf(f, link, S)
    PROVE  /\ LinkOf(f, page.next)
           /\ page.messages \subseteq Of(f) /\ page.cut \subseteq Of(f)
           /\ page.messages \subseteq Told(f, cursor[f], page.messages)
           /\ InFolder(f) \cap Told(f, cursor[f], page.messages) \subseteq
                 page.messages \cup page.cut \cup page.next.left
                 \cup ChangesAt(f, page.next.pos, Len(log[f]))
<1> DEFINE n == Len(log[f])
<1>1. /\ link \in Link /\ link.left \subseteq Of(f)
      /\ link.pos \in Nat /\ n \in Nat /\ link.pos <= n
    BY DEF LinkOf, Link, Shape
<1>2. InFolder(f) \subseteq Of(f) /\ \A m \in InFolder(f) : where[m] = "home"
    BY DEF InFolder
<1>3. CASE link.left # {}
  <2>1. /\ page.messages = {m \in S : where[m] = "home"}
        /\ page.next = [link EXCEPT !.left = @ \ S]
        /\ page.cut = IF cursor[f].url = NoUrl THEN InFolder(f) \ link.left
                      ELSE {}
      BY <1>3 DEF PageOf
  <2>2. page.next.left = link.left \ S /\ page.next.pos = link.pos
        /\ page.next \in Link
      BY <1>1, <2>1 DEF Link
  <2>3. LinkOf(f, page.next)
      BY <1>1, <2>2 DEF LinkOf
  <2>4. page.messages \subseteq Told(f, cursor[f], page.messages)
      BY <2>1 DEF Told
  <2>5. ASSUME NEW m \in InFolder(f) \cap Told(f, cursor[f], page.messages)
        PROVE  m \in page.messages \cup page.cut \cup page.next.left
                       \cup ChangesAt(f, page.next.pos, n)
      BY <1>2, <2>1, <2>2, <2>5 DEF Told
  <2> QED BY <1>1, <1>2, <2>1, <2>3, <2>4, <2>5
<1>4. CASE link.left = {}
  <2> DEFINE upto == Min({link.pos + PageSize, n})
             told == ChangesAt(f, link.pos, upto)
  <2>1. /\ page.messages = {m \in told : where[m] = "home"}
        /\ page.next = [link EXCEPT !.pos = upto]
        /\ page.cut = IF cursor[f].url = NoUrl THEN InFolder(f) ELSE {}
      BY <1>4 DEF PageOf
  <2>2. upto \in Nat /\ link.pos <= upto /\ upto <= n
    <3>1. PageSize \in Nat /\ link.pos + PageSize \in Int
        BY <1>1, BoundAssumption
    <3>2. upto = IF link.pos + PageSize <= n THEN link.pos + PageSize ELSE n
        BY <1>1, <3>1, MinOfTwo
    <3> HIDE DEF upto
    <3> QED BY <1>1, <3>1, <3>2
  <2> HIDE DEF upto
  <2>3. /\ page.next.left = {} /\ page.next.pos = upto /\ page.next \in Link
      BY <1>1, <1>4, <2>1, <2>2 DEF Link
  <2>4. LinkOf(f, page.next)
      BY <2>2, <2>3 DEF LinkOf
  <2>5. ChangesAt(f, link.pos, n) = told \cup ChangesAt(f, upto, n)
    <3>1. link.pos + 1 .. n = (link.pos + 1 .. upto) \cup (upto + 1 .. n)
        BY <1>1, <2>2
    <3>2. \A A, B, C : A = B \cup C =>
              {log[f][k] : k \in A}
                = {log[f][k] : k \in B} \cup {log[f][k] : k \in C}
        OBVIOUS
    <3> HIDE DEF n
    <3> QED BY <3>1, <3>2 DEF ChangesAt
  <2>6. told \subseteq Of(f)
      BY <1>1, <2>5, ChangesOf
  <2> HIDE DEF told
  <2>7. page.messages \subseteq Told(f, cursor[f], page.messages)
      BY <1>4, <2>1, <2>5 DEF Told
  <2>8. ASSUME NEW m \in InFolder(f) \cap Told(f, cursor[f], page.messages)
        PROVE  m \in page.messages \cup page.cut \cup page.next.left
                       \cup ChangesAt(f, page.next.pos, n)
    <3>1. CASE cursor[f].url = NoUrl
        BY <2>1, <2>8, <3>1
    <3>2. CASE cursor[f].url # NoUrl
      <4>1. m \in ChangesAt(f, link.pos, n)
          BY <1>4, <2>8, <3>2 DEF Told
      <4> QED BY <1>2, <2>1, <2>3, <2>5, <2>8, <4>1
    <3> QED BY <3>1, <3>2
  <2> QED BY <1>2, <2>1, <2>4, <2>6, <2>7, <2>8
<1> QED BY <1>3, <1>4

LEMMA FetchStep ==
    ASSUME IInv, FetchPage
    PROVE  Shape' /\ CursorInv' /\ PageInv' /\ Mirror!Sync
<1> PICK f \in Folder : f = my.folder
    BY DEF IInv, Shape, IsRun
<1>0. /\ my.page = NoPage /\ IsRun(my) /\ Shape
      /\ stored \in SUBSET Message /\ waived \in SUBSET Message
    BY DEF IInv, Shape, PageInv, FetchPage
<1>1. PICK page \in Pages(f) : my' = [my EXCEPT !.page = page]
    BY DEF FetchPage
<1>2. /\ my'.folder = f /\ my'.page = page /\ IsRun(my')
  <2>1. my' = [folder |-> my.folder, remaining |-> my.remaining,
               pages |-> my.pages, removals |-> my.removals, page |-> page]
      BY <1>0, <1>1 DEF IsRun
  <2> QED BY <1>0, <2>1 DEF IsRun
<1>3. /\ UNCHANGED graphVars /\ stored' = stored /\ waived' = waived
      /\ cursor' = cursor /\ pc' = "apply"
    BY DEF FetchPage, dbVars
<1>4. PICK link \in From(f) : \E S \in Chunks(link) : page = PageOf(f, link, S)
    BY <1>1 DEF Pages
<1>5. LinkOf(f, link) /\ (cursor[f].url # NoUrl => link = cursor[f].url)
  <2>1. CASE cursor[f].url # NoUrl
      BY <1>0, <1>4, <2>1 DEF From, IInv, CursorInv
  <2>2. CASE cursor[f].url = NoUrl
    <3>1. PICK T \in Begun(f) : link = [left |-> T, pos |-> Len(log[f])]
        BY <1>4, <2>2 DEF From
    <3>2. T \subseteq InFolder(f)
        BY <3>1 DEF Begun, kSubset, Window
    <3>3. T \subseteq Of(f) /\ T \subseteq Message
        BY <1>0, <3>2, ThereByFolder
    <3>4. Len(log[f]) \in Nat
        BY <1>0 DEF Shape
    <3> QED BY <2>2, <3>1, <3>3, <3>4 DEF LinkOf, Link
  <2> QED BY <2>1, <2>2
<1>6. PICK S \in SUBSET link.left : page = PageOf(f, link, S)
    BY <1>4 DEF Chunks, kSubset
<1>7. /\ LinkOf(f, page.next)
      /\ page.messages \subseteq Of(f) /\ page.cut \subseteq Of(f)
      /\ page.messages \subseteq Told(f, cursor[f], page.messages)
      /\ InFolder(f) \cap Told(f, cursor[f], page.messages) \subseteq
            page.messages \cup page.cut \cup page.next.left
            \cup ChangesAt(f, page.next.pos, Len(log[f]))
    BY <1>0, <1>5, <1>6, PageOfLink
<1>8. \A g \in Folder : Reported(g)' =
          Told(g, cursor[g], IF g = f THEN page.messages ELSE {})
    BY <1>2, <1>3, ThenReported
<1>9. ASSUME NEW g \in Folder
      PROVE  /\ Reported(g)' \subseteq Of(g)
             /\ InFolder(g) \cap Reported(g) \subseteq Reported(g)'
  <2> DEFINE M == IF g = f THEN page.messages ELSE {}
  <2>1. M \subseteq Of(g)
      BY <1>7
  <2> HIDE DEF M
  <2>2. cursor[g].url = NoUrl \/ LinkOf(g, cursor[g].url)
      BY DEF IInv, CursorInv
  <2>3. Told(g, cursor[g], M) \subseteq Of(g)
      BY <1>0, <2>1, <2>2, ToldOf
  <2>4. InFolder(g) \cap Reported(g) \subseteq Told(g, cursor[g], M)
      BY ReportedIsTold DEF Told
  <2> QED BY <1>8, <2>3, <2>4 DEF M
<1>10. Mirror!Sync
    BY <1>0, <1>3, <1>9, SyncStep
<1>11. Shape' /\ CursorInv'
    BY <1>2, <1>3 DEF graphVars, IInv, Shape, IsCursor, CursorInv, LinkOf
<1>12. PageInv'
  <2>1. /\ InFolder(f)' = InFolder(f) /\ log' = log
        /\ LinkOf(f, page.next)'
        /\ ChangesAt(f, page.next.pos, Len(log[f]))'
             = ChangesAt(f, page.next.pos, Len(log[f]))
      BY <1>3, <1>7 DEF graphVars, InFolder, LinkOf, ChangesAt
  <2>2. Reported(f)' = Told(f, cursor[f], page.messages)
      BY <1>8
  <2> QED BY <1>2, <1>3, <1>7, <2>1, <2>2 DEF PageInv
<1> QED BY <1>10, <1>11, <1>12

-----------------------------------------------------------------------------
(* A page is applied.                                                       *)

LEMMA CursorSet ==
    ASSUME NEW c, IsCursor(c), NEW u, NEW b, NEW n,
           NEW d, d = [c EXCEPT !.url = u, !.complete = b, !.count = n]
    PROVE  d = [url |-> u, complete |-> b, count |-> n, wide |-> c.wide]
    BY DEF IsCursor

LEMMA CursorMoved ==
    ASSUME NEW c, IsCursor(c), NEW u, NEW n,
           NEW d, d = [c EXCEPT !.url = u, !.count = n]
    PROVE  d = [url |-> u, complete |-> c.complete, count |-> n,
                wide |-> c.wide]
    BY DEF IsCursor

(* The cursor it is committed with begins anew, or goes on behind the page. *)
LEMMA AdvancedIs ==
    ASSUME NEW c, IsCursor(c), NEW n
    PROVE  /\ IsCursor(Advanced(c, n))
           /\ Advanced(c, n).url \in {NoUrl, my.page.next}
<1>1. IsCursor(Fresh(FALSE)) /\ Fresh(FALSE).url = NoUrl
    BY DEF Fresh, IsCursor
<1> DEFINE last == [c EXCEPT !.url = my.page.next, !.complete = TRUE,
                             !.count = n]
           more == [c EXCEPT !.url = my.page.next, !.count = n]
<1>2. last = [url |-> my.page.next, complete |-> TRUE, count |-> n,
              wide |-> c.wide]
    BY CursorSet
<1>3. more = [url |-> my.page.next, complete |-> c.complete, count |-> n,
              wide |-> c.wide]
    BY CursorMoved
<1>4. IsCursor(last) /\ last.url = my.page.next
    BY <1>2 DEF IsCursor
<1>5. IsCursor(more) /\ more.url = my.page.next
    BY <1>3 DEF IsCursor
<1>6. Advanced(c, n) \in {Fresh(FALSE), last, more}
    BY DEF Advanced
<1> HIDE DEF last, more
<1> QED BY <1>1, <1>4, <1>5, <1>6

LEMMA RunMoved ==
    ASSUME NEW r, IsRun(r), NEW a, NEW b, NEW k,
           NEW d, d = [r EXCEPT !.remaining = a, !.pages = b, !.removals = k,
                                !.page = NoPage]
    PROVE  IsRun(d) /\ d.page = NoPage
<1>1. d = [folder |-> r.folder, remaining |-> a, pages |-> b, removals |-> k,
           page |-> NoPage]
    BY DEF IsRun
<1> HIDE DEF NoPage
<1> QED BY <1>1 DEF IsRun

LEMMA ApplyStep ==
    ASSUME IInv, Apply
    PROVE  Shape' /\ CursorInv' /\ PageInv' /\ Mirror!Sync
<1> PICK f \in Folder : f = my.folder
    BY DEF IInv, Shape, IsRun
<1>0. /\ IsRun(my) /\ Shape
      /\ stored \in SUBSET Message /\ waived \in SUBSET Message
    BY DEF IInv, Shape
<1>1. /\ UNCHANGED graphVars
      /\ stored' = Upserted \ Deleted
      /\ waived' = (waived \cup my.page.cut) \ stored'
      /\ \E n : cursor' = [cursor EXCEPT ![f] = Advanced(cursor[f], n)]
    BY DEF Apply
<1>2. /\ LinkOf(f, my.page.next)
      /\ my.page.messages \subseteq Of(f) /\ my.page.cut \subseteq Of(f)
      /\ my.page.messages \subseteq Reported(f)
      /\ InFolder(f) \cap Reported(f) \subseteq
            my.page.messages \cup my.page.cut \cup my.page.next.left
            \cup ChangesAt(f, my.page.next.pos, Len(log[f]))
    BY DEF IInv, PageInv, Apply
<1>3. IsRun(my') /\ my'.page = NoPage /\ pc' # "apply"
  <2> DEFINE r == [my EXCEPT
                      !.remaining = Max({0, @ - Cardinality(my.page.messages)}),
                      !.pages = @ + 1,
                      !.removals = @ + Cardinality(Removals),
                      !.page = NoPage]
  <2>1. Leave(r) \/ (my' = r /\ pc' = "fetch")
      BY DEF Apply
  <2>2. IsRun(r) /\ r.page = NoPage
      BY <1>0, RunMoved
  <2> HIDE DEF r
  <2> QED BY <2>1, <2>2, LeaveDrops
<1>4. /\ cursor' = [g \in Folder |-> cursor'[g]]
      /\ \A g \in Folder : IsCursor(cursor'[g])
      /\ cursor'[f].url \in {NoUrl, my.page.next}
      /\ \A g \in Folder : g # f => cursor'[g] = cursor[g]
  <2>1. PICK n : cursor' = [cursor EXCEPT ![f] = Advanced(cursor[f], n)]
      BY <1>1
  <2>2. /\ cursor = [g \in Folder |-> cursor[g]]
        /\ \A g \in Folder : IsCursor(cursor[g])
      BY <1>0 DEF Shape
  <2>3. /\ IsCursor(Advanced(cursor[f], n))
        /\ Advanced(cursor[f], n).url \in {NoUrl, my.page.next}
      BY <2>2, AdvancedIs
  <2> QED BY <2>1, <2>2, <2>3
<1>5. /\ \A m \in Deleted : where[m] = "deleted"
      /\ \A m \in There : where[m] = "home"
      /\ \A g \in Folder : InFolder(g) \subseteq There
    BY ThereByFolder DEF Deleted, There
<1>6. /\ stored' \in SUBSET Message /\ waived' \in SUBSET Message
      /\ There \cap stored \subseteq stored'
      /\ There \cap my.page.messages \subseteq stored'
      /\ waived \cup my.page.cut \subseteq stored' \cup waived'
      /\ stored' \ stored \subseteq my.page.messages
    BY <1>0, <1>1, <1>2, <1>5, ThereByFolder DEF Upserted
<1>7. stored' \ stored \subseteq Owed
    BY <1>2, <1>6, OwedIs
<1>8. \A g \in Folder : Reported(g)' = Told(g, cursor'[g], {})
    BY <1>1, <1>3, ThenReported DEF NoPage
<1>9. ASSUME NEW g \in Folder
      PROVE  /\ Reported(g)' \subseteq Of(g)
             /\ InFolder(g) \cap Reported(g)
                   \subseteq stored' \cup waived' \cup Reported(g)'
  <2>1. cursor'[g].url = NoUrl \/ LinkOf(g, cursor'[g].url)
      BY <1>2, <1>4 DEF IInv, CursorInv
  <2>2. Told(g, cursor'[g], {}) \subseteq Of(g)
      BY <1>0, <2>1, ToldOf
  <2>3. CASE g # f
    <3>1. Reported(g) = Told(g, cursor'[g], {})
        BY <1>4, <2>3, ReportedIsTold
    <3> QED BY <1>8, <2>2, <3>1
  <2>4. CASE g = f
    <3>1. CASE cursor'[f].url = NoUrl
        BY <1>8, <2>2, <2>4, <3>1 DEF Told
    <3>2. CASE cursor'[f].url = my.page.next /\ cursor'[f].url # NoUrl
      <4>1. Told(f, cursor'[f], {}) =
              my.page.next.left
                \cup ChangesAt(f, my.page.next.pos, Len(log[f]))
          BY <3>2 DEF Told
      <4> QED BY <1>2, <1>5, <1>6, <1>8, <2>2, <2>4, <4>1
    <3> QED BY <1>4, <3>1, <3>2
  <2> QED BY <2>3, <2>4
<1>10. Mirror!Sync
    BY <1>1, <1>6, <1>7, <1>9, SyncStep
<1>11. Shape'
    BY <1>0, <1>1, <1>3, <1>4, <1>6 DEF graphVars, Shape, IsCursor
<1>12. CursorInv'
    BY <1>1, <1>2, <1>4 DEF graphVars, IInv, CursorInv, LinkOf
<1>13. PageInv'
    BY <1>3 DEF PageInv
<1> QED BY <1>10, <1>11, <1>12, <1>13

-----------------------------------------------------------------------------
(* The mailbox changes.                                                     *)

(* A message that came or went is a change that every link has still to     *)
(* report, and that a walk not yet begun finds in the folder, or not.       *)
LEMMA ChangeStep ==
    ASSUME IInv, NEW m \in Message, Logged(m),
           NEW w \in {"none", "home", "elsewhere", "deleted"},
           where' = [where EXCEPT ![m] = w],
           waived' \in SUBSET Message,
           UNCHANGED <<stored, cursor, pc, my>>
    PROVE  /\ Shape' /\ CursorInv' /\ PageInv'
           /\ \A f \in Folder : /\ Reported(f) \ {m} \subseteq Reported(f)'
                               /\ Reported(f)' \subseteq Reported(f) \cup {m}
           /\ w = "home" => m \in Reported(Home(m))'
<1>0. Shape /\ CursorInv /\ PageInv
    BY DEF IInv
<1>1. /\ log' \in [Folder -> Seq(Message)]
      /\ \A f \in Folder : \A k \in 1 .. Len(log'[f]) : log'[f][k] \in Of(f)
      /\ \A f \in Folder :
           /\ Len(log[f]) \in Nat /\ Len(log'[f]) \in Nat
           /\ Len(log[f]) <= Len(log'[f])
           /\ \A i \in Nat : i <= Len(log[f]) =>
                ChangesAt(f, i, Len(log[f]))' =
                  ChangesAt(f, i, Len(log[f]))
                    \cup (IF f = Home(m) THEN {m} ELSE {})
    BY <1>0, LogGrows
<1>2. Shape'
    BY <1>0, <1>1 DEF Shape, IsRun, IsCursor
<1>3. \A f \in Folder : \A link : LinkOf(f, link) =>
          /\ LinkOf(f, link)'
          /\ ChangesAt(f, link.pos, Len(log[f]))' =
                ChangesAt(f, link.pos, Len(log[f]))
                  \cup (IF f = Home(m) THEN {m} ELSE {})
    BY <1>1 DEF LinkOf, Link
<1>4. CursorInv'
    BY <1>0, <1>3 DEF CursorInv
<1>5. \A f \in Folder :
          InFolder(f)' = IF f = Home(m) /\ w = "home" THEN InFolder(f) \cup {m}
                         ELSE InFolder(f) \ {m}
    BY <1>0, HomeOf DEF Shape, InFolder, Of
<1> DEFINE Hand(f) == IF my.folder = f THEN my.page.messages ELSE {}
<1>6. ASSUME NEW f \in Folder
      PROVE  /\ cursor[f].url = NoUrl =>
                   /\ Reported(f) = InFolder(f) \cup Hand(f)
                   /\ Reported(f)' = InFolder(f)' \cup Hand(f)
             /\ cursor[f].url # NoUrl =>
                   Reported(f)' = Reported(f)
                                    \cup (IF f = Home(m) THEN {m} ELSE {})
  <2>1. CASE cursor[f].url = NoUrl
      BY <2>1 DEF Reported
  <2>2. CASE cursor[f].url # NoUrl
    <3>1. LinkOf(f, cursor[f].url)
        BY <1>0, <2>2 DEF CursorInv
    <3> QED BY <1>3, <2>2, <3>1 DEF Reported
  <2> QED BY <2>1, <2>2
<1>7. \A f \in Folder : Hand(f) \subseteq Reported(f)'
  <2> SUFFICES ASSUME NEW f \in Folder PROVE Hand(f) \subseteq Reported(f)'
      OBVIOUS
  <2>1. Hand(f) \subseteq Reported(f)
      BY <1>0 DEF PageInv, NoPage
  <2> QED BY <1>6, <2>1
<1> HIDE DEF Hand
<1>8. \A f \in Folder : /\ Reported(f) \ {m} \subseteq Reported(f)'
                      /\ Reported(f)' \subseteq Reported(f) \cup {m}
    BY <1>5, <1>6
<1>9. w = "home" => m \in Reported(Home(m))'
    BY <1>5, <1>6, HomeOf
<1>10. PageInv'
  <2>1. CASE pc # "apply"
      BY <1>0, <2>1 DEF PageInv
  <2>2. CASE pc = "apply"
    <3> PICK f \in Folder : f = my.folder
        BY <1>0 DEF Shape, IsRun
    <3> PICK page : page = my.page
        OBVIOUS
    <3>1. /\ LinkOf(f, page.next)
          /\ page.messages \subseteq Of(f) /\ page.cut \subseteq Of(f)
          /\ InFolder(f) \cap Reported(f) \subseteq
                page.messages \cup page.cut \cup page.next.left
                \cup ChangesAt(f, page.next.pos, Len(log[f]))
        BY <1>0, <2>2 DEF PageInv
    <3>2. page.messages \subseteq Reported(f)'
        BY <1>7 DEF Hand
    <3>3. /\ LinkOf(f, page.next)'
          /\ ChangesAt(f, page.next.pos, Len(log[f]))' =
                ChangesAt(f, page.next.pos, Len(log[f]))
                  \cup (IF f = Home(m) THEN {m} ELSE {})
        BY <1>3, <3>1
    <3>4. InFolder(f)' \cap Reported(f)' \subseteq
              page.messages \cup page.cut \cup page.next.left
              \cup ChangesAt(f, page.next.pos, Len(log[f]))'
        BY <1>5, <1>8, <3>1, <3>3
    <3> QED BY <2>2, <3>1, <3>2, <3>3, <3>4 DEF PageInv
  <2> QED BY <2>1, <2>2
<1> QED BY <1>2, <1>4, <1>8, <1>9, <1>10

LEMMA ComeStep ==
    ASSUME IInv, NEW m \in Message, NEW from \in {"none", "elsewhere"},
           Come(m, from)
    PROVE  Shape' /\ CursorInv' /\ PageInv' /\ Mirror!Receive(m)
<1>1. /\ where[m] = from /\ where' = [where EXCEPT ![m] = "home"]
      /\ Logged(m) /\ waived' = waived \ {m}
      /\ UNCHANGED <<stored, cursor, pc, my>>
    BY DEF Come, Logged, dbVars
<1>2. where \in [Message -> {"none", "home", "elsewhere", "deleted"}]
      /\ waived \in SUBSET Message
    BY DEF IInv, Shape
<1>3. /\ Shape' /\ CursorInv' /\ PageInv'
      /\ \A f \in Folder : /\ Reported(f) \ {m} \subseteq Reported(f)'
                          /\ Reported(f)' \subseteq Reported(f) \cup {m}
      /\ m \in Reported(Home(m))'
    BY <1>1, <1>2, ChangeStep
<1>4. m \notin There /\ There' = There \cup {m}
    BY <1>1, <1>2 DEF There
<1>5. Owed \cup {m} \subseteq Owed' /\ Owed' \subseteq Owed \cup {m}
    BY <1>1, <1>3, HomeOf, OwedIs, ThenOwed
<1> QED BY <1>1, <1>3, <1>4, <1>5 DEF Mirror!Receive

LEMMA GoStep ==
    ASSUME IInv, NEW m \in Message, NEW to \in {"elsewhere", "deleted"},
           Go(m, to)
    PROVE  Shape' /\ CursorInv' /\ PageInv' /\ Mirror!Withdraw({m})
<1>1. /\ where[m] = "home" /\ where' = [where EXCEPT ![m] = to]
      /\ Logged(m) /\ waived' = waived
      /\ UNCHANGED <<stored, cursor, pc, my>>
    BY DEF Go, Logged, dbVars
<1>2. where \in [Message -> {"none", "home", "elsewhere", "deleted"}]
      /\ waived \in SUBSET Message
    BY DEF IInv, Shape
<1>3. /\ Shape' /\ CursorInv' /\ PageInv'
      /\ \A f \in Folder : /\ Reported(f) \ {m} \subseteq Reported(f)'
                          /\ Reported(f)' \subseteq Reported(f) \cup {m}
    BY <1>1, <1>2, ChangeStep
<1>4. m \in There /\ There' = There \ {m}
    BY <1>1, <1>2 DEF There
<1>5. Owed \ {m} \subseteq Owed' /\ Owed' \subseteq Owed \cup {m}
    BY <1>1, <1>3, OwedIs, ThenOwed
<1> QED BY <1>1, <1>3, <1>4, <1>5 DEF Mirror!Withdraw

(* What is deleted elsewhere is not in the folder any more.                 *)
LEMMA DeleteElsewhereStep ==
    ASSUME IInv, NEW m \in Message, DeleteElsewhere(m)
    PROVE  Shape' /\ CursorInv' /\ PageInv' /\ UNCHANGED Mirror!vars
<1>1. /\ where[m] = "elsewhere" /\ where' = [where EXCEPT ![m] = "deleted"]
      /\ UNCHANGED <<log, stored, cursor, pc, my, waived>>
    BY DEF DeleteElsewhere, dbVars
<1>2. where \in [Message -> {"none", "home", "elsewhere", "deleted"}]
      /\ Shape /\ CursorInv /\ PageInv
    BY DEF IInv, Shape
<1>3. There' = There /\ \A f \in Folder : InFolder(f)' = InFolder(f)
    BY <1>1, <1>2 DEF There, InFolder, Of
<1>4. \A f \in Folder : Reported(f)' = Reported(f)
    BY <1>1, <1>3 DEF Reported, ChangesAt
<1>5. Owed' = Owed
  <2>1. \A x : x \in Owed' <=> x \in Owed
      BY <1>1, <1>4, OwedIs, ThenOwed
  <2> QED BY <2>1
<1>6. Shape'
    BY <1>1, <1>2 DEF Shape, IsRun, IsCursor
<1>7. CursorInv'
    BY <1>1, <1>2 DEF CursorInv, LinkOf
<1>8. PageInv'
  <2> PICK f \in Folder : f = my.folder
      BY <1>2 DEF Shape, IsRun
  <2>1. /\ InFolder(f)' = InFolder(f) /\ Reported(f)' = Reported(f)
        /\ \A link : LinkOf(f, link)' <=> LinkOf(f, link)
        /\ \A i, j : ChangesAt(f, i, j)' = ChangesAt(f, i, j)
      BY <1>1, <1>3, <1>4 DEF LinkOf, ChangesAt
  <2> QED BY <1>1, <1>2, <2>1 DEF PageInv
<1> QED BY <1>1, <1>3, <1>5, <1>6, <1>7, <1>8 DEF Mirror!vars

-----------------------------------------------------------------------------
(* The walks of the mailbox, from its first day.                            *)

LEMMA InitIInv == Init => IInv /\ Mirror!Init
<1> SUFFICES ASSUME Init PROVE IInv /\ Mirror!Init
    OBVIOUS
<1>1. Shape
  <2>1. IsCursor(Fresh(TRUE)) /\ IsRun(Idle)
      BY DEF Fresh, Idle, IsCursor, IsRun, Folder
  <2>2. /\ where \in [Message -> {"none", "home", "elsewhere", "deleted"}]
        /\ log = [f \in Folder |-> <<>>] /\ my = Idle
        /\ stored = {} /\ waived = {}
        /\ cursor = [f \in Folder |-> Fresh(TRUE)]
      BY DEF Init
  <2> HIDE DEF Fresh, Idle
  <2>3. log \in [Folder -> Seq(Message)] /\ \A f \in Folder : Len(log[f]) = 0
      BY <2>2
  <2>4. cursor = [f \in Folder |-> cursor[f]]
        /\ \A f \in Folder : IsCursor(cursor[f])
      BY <2>1, <2>2
  <2>5. \A f \in Folder : \A k \in 1 .. Len(log[f]) : log[f][k] \in Of(f)
      BY <2>3
  <2> QED BY <2>1, <2>2, <2>3, <2>4, <2>5 DEF Shape
<1>2. \A f \in Folder : cursor[f].url = NoUrl
    BY DEF Init, Fresh
<1>3. CursorInv
    BY <1>2 DEF CursorInv
<1>4. PageInv /\ my.page.messages = {}
    BY DEF Init, Idle, PageInv, NoPage
<1>5. \A f \in Folder : Reported(f) = InFolder(f)
    BY <1>2, <1>4 DEF Reported
<1>6. Owed = There
  <2>1. waived = {}
      BY DEF Init
  <2>2. \A x : x \in Owed <=> x \in There
      BY <1>5, <2>1, OwedIs, ThereByFolder
  <2> QED BY <2>2
<1>7. Mirror!Init
    BY <1>6 DEF Init, Mirror!Init, There
<1> QED BY <1>1, <1>3, <1>4, <1>6, <1>7 DEF IInv, Mirror!NothingSkipped

(* Every step keeps the shape of the walks, and is one of the abstract      *)
(* ingest, or none.                                                         *)
LEMMA StepMirrors ==
    IInv /\ [Next]_vars
        => Shape' /\ CursorInv' /\ PageInv' /\ [Mirror!Next]_(Mirror!vars)
<1> SUFFICES ASSUME IInv, [Next]_vars
             PROVE  Shape' /\ CursorInv' /\ PageInv'
                      /\ [Mirror!Next]_(Mirror!vars)
    OBVIOUS
<1>1. CASE Start \/ Die \/ Defer \/ Expired
    BY <1>1, PauseSteps DEF Mirror!Next
<1>2. CASE FetchPage
    BY <1>2, FetchStep DEF Mirror!Next
<1>3. CASE Apply
    BY <1>3, ApplyStep DEF Mirror!Next
<1>4. ASSUME NEW m \in Message, NEW from \in {"none", "elsewhere"},
             Come(m, from)
      PROVE  Shape' /\ CursorInv' /\ PageInv' /\ [Mirror!Next]_(Mirror!vars)
    BY <1>4, ComeStep DEF Mirror!Next
<1>5. ASSUME NEW m \in Message, NEW to \in {"elsewhere", "deleted"},
             Go(m, to)
      PROVE  Shape' /\ CursorInv' /\ PageInv' /\ [Mirror!Next]_(Mirror!vars)
  <2>1. {m} \in SUBSET Message
      OBVIOUS
  <2> QED BY <1>5, <2>1, GoStep DEF Mirror!Next
<1>6. ASSUME NEW m \in Message, DeleteElsewhere(m)
      PROVE  Shape' /\ CursorInv' /\ PageInv' /\ [Mirror!Next]_(Mirror!vars)
    BY <1>6, DeleteElsewhereStep
<1>7. CASE UNCHANGED vars
  <2>1. UNCHANGED <<where, log, stored, cursor, pc, my, waived>>
      BY <1>7 DEF vars, graphVars, dbVars, histVars
  <2>2. There' = There /\ Owed' = Owed
    <3>1. \A f \in Folder : Reported(f)' = Reported(f)
        BY <2>1 DEF Reported, InFolder, ChangesAt
    <3>2. \A x : x \in Owed' <=> x \in Owed
        BY <2>1, <3>1, OwedIs, ThenOwed
    <3>3. There' = There
        BY <2>1 DEF There
    <3> QED BY <3>2, <3>3
  <2>3. Shape' /\ CursorInv' /\ PageInv'
      BY <2>1 DEF IInv, Shape, IsRun, IsCursor, CursorInv, LinkOf, PageInv,
                  Reported, InFolder, ChangesAt
  <2> QED BY <2>1, <2>2, <2>3 DEF Mirror!vars
<1> QED BY <1>1, <1>2, <1>3, <1>4, <1>5, <1>6, <1>7
        DEF Next, Step, Environment

(* In every state a cursor and the page in hand say of their folder what    *)
(* they have to: nothing in the mailbox is passed over by the walks.        *)
THEOREM Invariance == Spec => []IInv
<1>1. Init => IInv
    BY InitIInv
<1>2. IInv /\ [Next]_vars => IInv'
    BY StepMirrors, PromiseKept DEF IInv
<1> QED BY <1>1, <1>2, PTL DEF Spec

(* The delta walks of outlook_ingest.py, with their removals, budgets, caps *)
(* and restarts, implement the ingest of MailboxMirror.                     *)
THEOREM KeepsTheMirror == Spec => MirrorsTheMailbox
<1>1. Init => Mirror!Init
    BY InitIInv
<1>2. IInv /\ [Next]_vars => [Mirror!Next]_(Mirror!vars)
    BY StepMirrors
<1> QED BY <1>1, <1>2, Invariance, PTL DEF Spec, MirrorsTheMailbox, Mirror!Spec

(* _delete_page_removals: a stored message goes only when Graph has said    *)
(* that it is nowhere any more.                                             *)
THEOREM RemovesOnlyDeleted == Spec => OnlyDeletedIsRemoved
<1>1. ASSUME [Next]_vars
      PROVE  \A m \in stored \ stored' : where[m] = "deleted"
  <2>1. CASE Apply
      BY <2>1 DEF Apply, Upserted, Deleted
  <2>2. CASE ~Apply
    <3>1. stored' = stored
        BY <1>1, <2>2
           DEF Next, Start, Step, FetchPage, Defer, Expired, Die, Environment,
               Come, Go, DeleteElsewhere, vars, dbVars
    <3> QED BY <3>1
  <2> QED BY <2>1, <2>2
<1>2. [Next]_vars => [\A m \in stored \ stored' : where[m] = "deleted"]_vars
    BY <1>1
<1> QED BY <1>2, PTL DEF Spec, OnlyDeletedIsRemoved

-----------------------------------------------------------------------------
(* What a page that is fetched says.                                        *)

LEMMA ChangesSplit ==
    ASSUME Shape, NEW f \in Folder, NEW i \in Nat, NEW j \in Nat,
           i <= j, j <= Len(log[f])
    PROVE  ChangesAt(f, i, Len(log[f]))
             = ChangesAt(f, i, j) \cup ChangesAt(f, j, Len(log[f]))
<1>1. i + 1 .. Len(log[f]) = (i + 1 .. j) \cup (j + 1 .. Len(log[f]))
    BY DEF Shape
<1>2. \A A, B, C : A = B \cup C =>
          {log[f][k] : k \in A} = {log[f][k] : k \in B} \cup {log[f][k] : k \in C}
    OBVIOUS
<1> QED BY <1>1, <1>2 DEF ChangesAt

(* A page is a piece of the baseline ...                                    *)
OfBaseline(f, link, S, page) ==
    /\ S \subseteq link.left
    /\ page.messages = {m \in S : where[m] = "home"}
    /\ page.removed = {}
    /\ page.next.left = link.left \ S /\ page.next.pos = link.pos
    /\ page.last => page.next.left = {}
    /\ page.cut = IF cursor[f].url = NoUrl THEN InFolder(f) \ link.left ELSE {}

LEMMA BaselinePage ==
    ASSUME Shape, NEW f \in Folder, NEW link, LinkOf(f, link), link.left # {},
           NEW S, S \in Chunks(link), NEW page, page = PageOf(f, link, S)
    PROVE  page \in Page /\ OfBaseline(f, link, S, page)
<1>1. S \subseteq link.left
    BY DEF Chunks, kSubset
<1>2. link \in Link /\ link.left \subseteq Message /\ InFolder(f) \subseteq Message
    BY ThereByFolder DEF LinkOf, Link, InFolder
<1> DEFINE messages == {m \in S : where[m] = "home"}
           next == [link EXCEPT !.left = link.left \ S]
           last == (link.left = S /\ link.pos = Len(log[f]))
           cut == IF cursor[f].url = NoUrl THEN InFolder(f) \ link.left ELSE {}
<1>3. page = [messages |-> messages, removed |-> {}, next |-> next,
              last |-> last, cut |-> cut]
    BY DEF PageOf
<1>4. next \in Link /\ next.left = link.left \ S /\ next.pos = link.pos
    BY <1>2 DEF Link
<1>5. /\ messages \subseteq Message /\ cut \subseteq Message
      /\ last \in BOOLEAN /\ (last => link.left \ S = {})
    BY <1>1, <1>2
<1>6. /\ page.messages = messages /\ page.removed = {} /\ page.next = next
      /\ page.last = last /\ page.cut = cut
    BY <1>3
<1>7. page \in Page
  <2> HIDE DEF messages, next, last, cut
  <2> QED BY <1>3, <1>4, <1>5 DEF Page
<1> QED BY <1>1, <1>4, <1>5, <1>6, <1>7 DEF OfBaseline

(* ... or one of the changes since the link.                                *)
OfChanges(f, link, told, page) ==
    /\ page.messages = {m \in told : where[m] = "home"}
    /\ page.removed = {m \in told : where[m] # "home"}
    /\ page.next.left = {}
    /\ ChangesAt(f, link.pos, Len(log[f]))
         = told \cup ChangesAt(f, page.next.pos, Len(log[f]))
    /\ link.pos = Len(log[f]) => told = {}
    /\ page.cut = IF cursor[f].url = NoUrl THEN InFolder(f) ELSE {}

LEMMA ChangesPage ==
    ASSUME Shape, NEW f \in Folder, NEW link, LinkOf(f, link), link.left = {},
           NEW S, NEW page, page = PageOf(f, link, S)
    PROVE  page \in Page /\ \E told : OfChanges(f, link, told, page)
<1> DEFINE n == Len(log[f])
           upto == Min({link.pos + PageSize, n})
           told == ChangesAt(f, link.pos, upto)
<1>1. link \in Link /\ link.pos \in Nat /\ n \in Nat /\ link.pos <= n
    BY DEF LinkOf, Link, Shape
<1>2. upto \in Nat /\ link.pos <= upto /\ upto <= n
  <2>1. PageSize \in Nat /\ link.pos + PageSize \in Int
      BY <1>1, BoundAssumption
  <2>2. upto = IF link.pos + PageSize <= n THEN link.pos + PageSize ELSE n
      BY <1>1, <2>1, MinOfTwo
  <2> HIDE DEF upto
  <2> QED BY <1>1, <2>1, <2>2
<1> DEFINE messages == {m \in told : where[m] = "home"}
           removed == {m \in told : where[m] # "home"}
           next == [link EXCEPT !.pos = upto]
           last == (upto = n)
           cut == IF cursor[f].url = NoUrl THEN InFolder(f) ELSE {}
<1>3. page = [messages |-> messages, removed |-> removed, next |-> next,
              last |-> last, cut |-> cut]
    BY DEF PageOf
<1> HIDE DEF upto
<1>4. next \in Link /\ next.left = {} /\ next.pos = upto
    BY <1>1, <1>2 DEF Link
<1>5. ChangesAt(f, link.pos, n) = told \cup ChangesAt(f, upto, n)
    BY <1>1, <1>2, ChangesSplit
<1>6. told \subseteq Message /\ InFolder(f) \subseteq Message
    BY <1>1, <1>5, ChangesOf, ThereByFolder DEF InFolder
<1>7. link.pos = n => told = {}
    BY <1>1, <1>2 DEF ChangesAt
<1> HIDE DEF told
<1>8. /\ messages \subseteq Message /\ removed \subseteq Message
      /\ cut \subseteq Message /\ last \in BOOLEAN
    BY <1>6
<1>9. /\ page.messages = messages /\ page.removed = removed
      /\ page.next = next /\ page.cut = cut
    BY <1>3
<1>10. page \in Page
  <2> HIDE DEF messages, removed, next, last, cut
  <2> QED BY <1>3, <1>4, <1>8 DEF Page
<1> QED BY <1>4, <1>5, <1>7, <1>9, <1>10 DEF OfChanges

(* The page that a run gets, with the link it came for.                     *)
LEMMA Fetched ==
    ASSUME IInv, FetchPage, NEW f, f = my.folder
    PROVE  \E link, S, page :
           /\ f \in Folder /\ S \in Chunks(link) /\ page = PageOf(f, link, S)
           /\ my' = [my EXCEPT !.page = page]
           /\ my'.page = page /\ my'.folder = f
           /\ LinkOf(f, link)
           /\ cursor[f].url # NoUrl => link = cursor[f].url
           /\ cursor[f].url = NoUrl =>
                 link.left \in Begun(f) /\ link.pos = Len(log[f])
<1>0. f \in Folder /\ Shape /\ IsRun(my)
    BY DEF IInv, Shape, IsRun
<1>1. PICK page \in Pages(f) : my' = [my EXCEPT !.page = page]
    BY DEF FetchPage
<1>2. my'.page = page /\ my'.folder = f
    BY <1>0, <1>1 DEF IsRun
<1>3. PICK link \in From(f) : \E S \in Chunks(link) : page = PageOf(f, link, S)
    BY <1>1 DEF Pages
<1>4. CASE cursor[f].url # NoUrl
    BY <1>0, <1>1, <1>2, <1>3, <1>4 DEF From, IInv, CursorInv
<1>5. CASE cursor[f].url = NoUrl
  <2>1. PICK T \in Begun(f) : link = [left |-> T, pos |-> Len(log[f])]
      BY <1>3, <1>5 DEF From
  <2>2. T \subseteq InFolder(f)
      BY <2>1 DEF Begun, kSubset, Window
  <2>3. T \subseteq Of(f) /\ T \subseteq Message /\ Len(log[f]) \in Nat
      BY <1>0, <2>2, ThereByFolder DEF Shape
  <2>4. LinkOf(f, link) /\ link.left = T /\ link.pos = Len(log[f])
      BY <2>1, <2>3 DEF LinkOf, Link
  <2> QED BY <1>0, <1>1, <1>2, <1>3, <1>5, <2>1, <2>4
<1> QED BY <1>4, <1>5

-----------------------------------------------------------------------------
(* Types and budgets.                                                       *)

LEMMA MaxOfZero ==
    ASSUME NEW a \in Int
    PROVE  Max({0, a}) = IF a >= 0 THEN a ELSE 0
<1>1. CASE a >= 0
  <2>1. \A x \in {0, a} : (\A y \in {0, a} : x >= y) <=> x = a
      BY <1>1
  <2> QED BY <1>1, <2>1 DEF Max
<1>2. CASE ~(a >= 0)
  <2>1. \A x \in {0, a} : (\A y \in {0, a} : x >= y) <=> x = 0
      BY <1>2
  <2> QED BY <1>2, <2>1 DEF Max
<1> QED BY <1>1, <1>2

LEMMA Counted ==
    ASSUME NEW S, S \subseteq Message
    PROVE  IsFiniteSet(S) /\ Cardinality(S) \in Nat
    BY BoundAssumption, FS_Subset, FS_CardinalityType

LEMMA NoPageTyped == NoPage \in Page
<1>1. [left |-> {}, pos |-> 0] \in Link
    BY DEF Link
<1> QED BY <1>1 DEF NoPage, Page

LEMMA IdleTyped == Idle \in Run /\ Idle.pages < MaxPages
<1>1. 0 \in 0 .. MaxPages /\ 0 \in 0 .. RemovalBudget /\ 0 < MaxPages
      /\ MaxResults \in 0 .. MaxResults
    BY BoundAssumption
<1> HIDE DEF NoPage
<1> QED BY <1>1, NoPageTyped DEF Idle, Run, Folder

LEMMA LeaveTyped ==
    ASSUME NEW r \in Run, Leave(r)
    PROVE  /\ my' \in Run /\ my'.pages < MaxPages
           /\ pc' \in {"idle", "fetch"}
<1>1. CASE my' = Idle /\ pc' = "idle"
    BY <1>1, IdleTyped
<1>2. CASE /\ my' = [r EXCEPT !.folder = "sentitems", !.removals = 0,
                              !.page = NoPage]
           /\ pc' = "fetch" /\ r.pages < MaxPages
  <2>1. my' = [folder |-> "sentitems", remaining |-> r.remaining,
               pages |-> r.pages, removals |-> 0, page |-> NoPage]
      BY <1>2 DEF Run
  <2>2. 0 \in 0 .. RemovalBudget
      BY BoundAssumption
  <2> HIDE DEF NoPage
  <2> QED BY <1>2, <2>1, <2>2, NoPageTyped DEF Run, Folder
<1> QED BY <1>1, <1>2 DEF Leave

LEMMA FreshTyped == \A b \in BOOLEAN : Fresh(b) \in Cursor /\ ~Fresh(b).complete
    BY DEF Fresh, Cursor

LEMMA FetchTyped ==
    ASSUME IInv, TypeInv, FetchPage
    PROVE  TypeInv'
<1>1. PICK f, link, S, page :
          /\ f \in Folder /\ S \in Chunks(link) /\ page = PageOf(f, link, S)
          /\ LinkOf(f, link)
          /\ my' = [my EXCEPT !.page = page]
    BY Fetched
<1>2. page \in Page
  <2>1. Shape
      BY DEF IInv
  <2>2. CASE link.left # {}
      BY <1>1, <2>1, <2>2, BaselinePage
  <2>3. CASE link.left = {}
      BY <1>1, <2>1, <2>3, ChangesPage
  <2> QED BY <2>2, <2>3
<1>3. my' = [folder |-> my.folder, remaining |-> my.remaining,
             pages |-> my.pages, removals |-> my.removals, page |-> page]
    BY <1>1 DEF Run, TypeInv, TypeOK
<1>4. my' \in Run /\ my'.pages = my.pages
    BY <1>2, <1>3 DEF Run, TypeInv, TypeOK
<1> QED BY <1>4 DEF FetchPage, graphVars, dbVars, TypeInv, TypeOK

LEMMA AdvancedTo ==
    ASSUME NEW c, IsCursor(c), c.complete \in BOOLEAN,
           my.page.last \in BOOLEAN, NEW n
    PROVE  Advanced(c, n) =
             IF my.page.last /\ Narrow(c, n) THEN Fresh(FALSE)
             ELSE [url |-> my.page.next, complete |-> c.complete \/ my.page.last,
                   count |-> n, wide |-> c.wide]
<1> DEFINE ended == [c EXCEPT !.url = my.page.next, !.complete = TRUE,
                              !.count = n]
           more == [c EXCEPT !.url = my.page.next, !.count = n]
<1>1. ended = [url |-> my.page.next, complete |-> TRUE, count |-> n,
               wide |-> c.wide]
    BY CursorSet, ZenonT(30)
<1>2. more = [url |-> my.page.next, complete |-> c.complete, count |-> n,
              wide |-> c.wide]
    BY CursorMoved, ZenonT(30)
<1>3. /\ my.page.last /\ Narrow(c, n) => Advanced(c, n) = Fresh(FALSE)
      /\ my.page.last /\ ~Narrow(c, n) => Advanced(c, n) = ended
      /\ ~my.page.last => Advanced(c, n) = more
    BY DEF Advanced
<1>4. CASE my.page.last
    BY <1>1, <1>3, <1>4
<1>5. CASE ~my.page.last
  <2>1. c.complete = (c.complete \/ my.page.last)
      BY <1>5
  <2> HIDE DEF ended, more
  <2> QED BY <1>2, <1>3, <1>5, <2>1
<1> QED BY <1>4, <1>5

(* What an applied page makes of the cursor.                                *)
Applies(f, n) ==
    LET c == cursor[f]
        d == cursor'[f]
    IN  /\ n = IF c.complete THEN c.count
               ELSE c.count + Cardinality(my.page.messages)
        /\ d = IF my.page.last /\ Narrow(c, n) THEN Fresh(FALSE)
               ELSE [url |-> my.page.next, complete |-> c.complete \/ my.page.last,
                     count |-> n, wide |-> c.wide]

LEMMA Applied ==
    ASSUME TypeInv, Apply, NEW f, f = my.folder
    PROVE  /\ f \in Folder /\ cursor' \in [Folder -> Cursor]
           /\ \A g \in Folder : g # f => cursor'[g] = cursor[g]
           /\ \E n \in Nat : Applies(f, n)
<1> PICK c : c = cursor[f]
    OBVIOUS
<1> PICK n : n = IF c.complete THEN c.count
                 ELSE c.count + Cardinality(my.page.messages)
    OBVIOUS
<1>1. /\ f \in Folder /\ my.page \in Page /\ c \in Cursor
      /\ cursor \in [Folder -> Cursor]
    BY DEF Run, TypeInv, TypeOK
<1>2. my.page.messages \subseteq Message /\ my.page.next \in Link
      /\ my.page.last \in BOOLEAN
    BY <1>1 DEF Page
<1>3. n \in Nat
  <2>1. c.count \in Nat /\ Cardinality(my.page.messages) \in Nat
      BY <1>1, <1>2, Counted DEF Cursor
  <2> QED BY <2>1
<1>4. cursor' = [cursor EXCEPT ![f] = Advanced(c, n)]
    BY DEF Apply
<1>5. Advanced(c, n) =
          IF my.page.last /\ Narrow(c, n) THEN Fresh(FALSE)
          ELSE [url |-> my.page.next, complete |-> c.complete \/ my.page.last,
                count |-> n, wide |-> c.wide]
  <2>1. IsCursor(c) /\ c.complete \in BOOLEAN
      BY <1>1 DEF IsCursor, Cursor
  <2> QED BY <1>2, <2>1, AdvancedTo
<1>6. Advanced(c, n) \in Cursor
  <2>1. [url |-> my.page.next, complete |-> c.complete \/ my.page.last,
         count |-> n, wide |-> c.wide] \in Cursor
      BY <1>1, <1>2, <1>3 DEF Cursor
  <2> QED BY <1>5, <2>1, FreshTyped
<1>7. /\ cursor'[f] = Advanced(c, n)
      /\ \A g \in Folder : g # f => cursor'[g] = cursor[g]
      /\ cursor' \in [Folder -> Cursor]
    BY <1>1, <1>4, <1>6
<1>8. Applies(f, n)
    BY <1>5, <1>7 DEF Applies
<1>9. \E k \in Nat : Applies(f, k)
    BY <1>3, <1>8
<1> QED BY <1>1, <1>7, <1>9

LEMMA RunSet ==
    ASSUME NEW r, r \in Run, NEW a, NEW b, NEW k,
           NEW d, d = [r EXCEPT !.remaining = a, !.pages = b, !.removals = k,
                                !.page = NoPage]
    PROVE  d = [folder |-> r.folder, remaining |-> a, pages |-> b,
                removals |-> k, page |-> NoPage]
    BY DEF Run

LEMMA ApplyRun ==
    ASSUME TypeInv, Apply
    PROVE  my' \in Run /\ my'.pages < MaxPages /\ pc' \in {"idle", "fetch"}
<1> DEFINE remaining == Max({0, my.remaining - Cardinality(my.page.messages)})
           pages == my.pages + 1
           removals == my.removals + Cardinality(Removals)
           r == [my EXCEPT
                    !.remaining = Max({0, @ - Cardinality(my.page.messages)}),
                    !.pages = @ + 1,
                    !.removals = @ + Cardinality(Removals),
                    !.page = NoPage]
<1>1. /\ my \in Run /\ my.page \in Page /\ my.pages < MaxPages
      /\ stored \subseteq Message
    BY DEF TypeInv, TypeOK, Run
<1>2. /\ my.page.messages \subseteq Message /\ Removals \subseteq Message
      /\ my.remaining \in 0 .. MaxResults /\ my.pages \in 0 .. MaxPages
      /\ my.removals \in 0 .. RemovalBudget
    BY <1>1 DEF Run, Page, Removals
<1>3. /\ Cardinality(my.page.messages) \in Nat /\ Cardinality(Removals) \in Nat
    BY <1>2, Counted
<1>4. remaining \in 0 .. MaxResults
  <2>1. my.remaining - Cardinality(my.page.messages) \in Int
      BY <1>2, <1>3, BoundAssumption
  <2>2. remaining = IF my.remaining - Cardinality(my.page.messages) >= 0
                    THEN my.remaining - Cardinality(my.page.messages) ELSE 0
      BY <2>1, MaxOfZero
  <2> HIDE DEF remaining
  <2> QED BY <1>2, <1>3, <2>2, BoundAssumption
<1>5. pages \in 0 .. MaxPages
    BY <1>1, <1>2, BoundAssumption
<1>6. removals \in 0 .. RemovalBudget
  <2>1. ~(Cardinality(Removals) > RemovalBudget - my.removals)
      BY DEF Apply, OverBudget
  <2> QED BY <1>2, <1>3, <2>1, BoundAssumption
<1>7. r = [folder |-> my.folder, remaining |-> remaining, pages |-> pages,
           removals |-> removals, page |-> NoPage]
    BY <1>1, RunSet, ZenonT(30)
<1>8. r \in Run /\ r.pages = pages
  <2> HIDE DEF remaining, pages, removals, r, NoPage
  <2> QED BY <1>1, <1>4, <1>5, <1>6, <1>7, NoPageTyped DEF Run
<1>9. \/ Leave(r)
      \/ my' = r /\ pc' = "fetch" /\ r.pages # MaxPages
    BY DEF Apply
<1> HIDE DEF remaining, pages, removals, r
<1> QED BY <1>5, <1>8, <1>9, LeaveTyped, BoundAssumption

LEMMA ApplyTyped ==
    ASSUME IInv, TypeInv, Apply
    PROVE  TypeInv'
<1> PICK f \in Folder : f = my.folder
    BY DEF IInv, Shape, IsRun
<1>1. PICK n \in Nat : Applies(f, n)
    BY Applied
<1>2. my' \in Run /\ my'.pages < MaxPages /\ pc' \in {"idle", "fetch"}
    BY ApplyRun
<1>3. my.page \in Page
    BY DEF TypeInv, TypeOK, Run
<1>4. /\ cursor' \in [Folder -> Cursor]
      /\ \A g \in Folder : g # f => cursor'[g] = cursor[g]
    BY Applied
<1>5. \A g \in Folder : cursor'[g].complete => cursor'[g].url # NoUrl
  <2>1. my.page.next # NoUrl
    <3>1. my.page.next \in Link /\ my.page.next.pos \in Nat
        BY <1>3 DEF Page, Link
    <3>2. NoUrl.pos = -1
        BY DEF NoUrl
    <3> QED BY <3>1, <3>2
  <2>2. cursor'[f].complete => cursor'[f].url # NoUrl
      BY <1>1, <2>1 DEF Applies, Fresh
  <2> QED BY <1>4, <2>2 DEF TypeInv
<1>6. stored' \in SUBSET Message /\ waived' \in SUBSET Message
      /\ untold' \in SUBSET Message
  <2>1. /\ my.page.messages \subseteq Message /\ my.page.cut \subseteq Message
        /\ stored \subseteq Message /\ waived \subseteq Message
        /\ untold \subseteq Message
      BY <1>3 DEF Page, TypeInv, TypeOK
  <2>2. Missed(my.folder) \subseteq Message
      BY <2>1 DEF Missed
  <2> QED BY <2>1, <2>2 DEF Apply, Upserted
<1>7. /\ where' = where /\ log' = log /\ shrunk' = shrunk
      /\ backfilled' \in BOOLEAN
    BY DEF Apply, graphVars, TypeInv, TypeOK
<1> QED BY <1>2, <1>4, <1>5, <1>6, <1>7 DEF TypeInv, TypeOK

LEMMA PauseTyped ==
    ASSUME TypeInv, Start \/ Die \/ Defer \/ Expired
    PROVE  TypeInv'
<1>1. my \in Run /\ my.pages < MaxPages
      /\ cursor \in [Folder -> Cursor]
    BY DEF TypeInv, TypeOK
<1>2. my' \in Run /\ my'.pages < MaxPages /\ pc' \in {"idle", "fetch", "dead"}
  <2>1. CASE Start
      BY <1>1, <2>1 DEF Start
  <2>2. CASE Die
      BY <2>2, IdleTyped DEF Die
  <2>3. CASE Defer \/ Expired
    <3>1. Leave(my)
        BY <2>3 DEF Defer, Expired
    <3> QED BY <1>1, <3>1, LeaveTyped
  <2> QED BY <2>1, <2>2, <2>3
<1>3. /\ cursor' \in [Folder -> Cursor]
      /\ \A g \in Folder : cursor'[g].complete => cursor'[g].url # NoUrl
  <2>1. CASE cursor' = cursor
      BY <1>1, <2>1 DEF TypeInv
  <2>2. CASE cursor' = [cursor EXCEPT ![my.folder] = Fresh(TRUE)]
      BY <1>1, <2>2, FreshTyped DEF TypeInv
  <2> QED BY <2>1, <2>2 DEF Start, Die, Defer, Expired, dbVars
<1>4. UNCHANGED <<where, log, stored, backfilled, waived, untold, shrunk>>
    BY DEF Start, Die, Defer, Expired, graphVars, dbVars, histVars
<1> QED BY <1>2, <1>3, <1>4 DEF TypeInv, TypeOK

LEMMA MailboxTyped ==
    ASSUME IInv, TypeInv, NEW m \in Message,
           \/ \E from \in {"none", "elsewhere"} : Come(m, from)
           \/ \E to \in {"elsewhere", "deleted"} : Go(m, to)
           \/ DeleteElsewhere(m)
    PROVE  TypeInv'
<1>1. /\ where' \in [Message -> {"none", "home", "elsewhere", "deleted"}]
      /\ waived' \in SUBSET Message /\ untold' \in SUBSET Message
      /\ shrunk' \in SUBSET Folder
      /\ UNCHANGED <<stored, cursor, backfilled, pc, my>>
    BY DEF Come, Go, DeleteElsewhere, dbVars, TypeInv, TypeOK
<1>2. log' \in [Folder -> Seq(Message)]
  <2>1. CASE Logged(m)
      BY <2>1, LogGrows DEF IInv
  <2>2. CASE log' = log
      BY <2>2 DEF TypeInv, TypeOK
  <2> QED BY <2>1, <2>2 DEF Come, Go, DeleteElsewhere, Logged
<1> QED BY <1>1, <1>2 DEF TypeInv, TypeOK

LEMMA TypeKept ==
    IInv /\ TypeInv /\ [Next]_vars => TypeInv'
<1> SUFFICES ASSUME IInv, TypeInv, [Next]_vars PROVE TypeInv'
    OBVIOUS
<1>1. CASE UNCHANGED vars
    BY <1>1 DEF TypeInv, TypeOK, vars, graphVars, dbVars, histVars
<1> QED BY <1>1, FetchTyped, ApplyTyped, PauseTyped, MailboxTyped
        DEF Next, Step, Environment

LEMMA InitTyped == Init => TypeInv
<1> SUFFICES ASSUME Init PROVE TypeInv
    OBVIOUS
<1>1. cursor \in [Folder -> Cursor] /\ \A f \in Folder : ~cursor[f].complete
    BY FreshTyped DEF Init
<1>2. my \in Run /\ my.pages < MaxPages
    BY IdleTyped DEF Init
<1>3. log \in [Folder -> Seq(Message)]
    BY DEF Init
<1> QED BY <1>1, <1>2, <1>3 DEF Init, TypeInv, TypeOK

-----------------------------------------------------------------------------
(* Removals.                                                                *)

Removing == RemovalInv /\ DeletionsAreReported

(* A cursor's report depends on its link and the log alone, once it has one.*)
LEMMA ReportOfLink ==
    ASSUME NEW f, cursor[f].url # NoUrl
    PROVE  Reported(f) = cursor[f].url.left
                           \cup ChangesAt(f, cursor[f].url.pos, Len(log[f]))
    BY DEF Reported

LEMMA ThenReportOfLink ==
    ASSUME UNCHANGED log, NEW f, cursor'[f].url # NoUrl
    PROVE  Reported(f)' = cursor'[f].url.left
                            \cup ChangesAt(f, cursor'[f].url.pos, Len(log[f]))
    BY DEF Reported, ChangesAt

(* A step that drops the page, and leaves cursors be or gives them up.      *)
LEMMA RemovalsDrop ==
    ASSUME IInv, Removing, UNCHANGED <<where, log, stored, untold>>,
           pc' # "apply",
           \A f \in Folder : cursor'[f] = cursor[f] \/ cursor'[f].url = NoUrl
    PROVE  Removing'
<1>1. where' = where /\ log' = log /\ stored' = stored /\ untold' = untold
    OBVIOUS
<1>2. \A g \in Folder :
          (cursor[g].url # NoUrl => Traced(g, cursor[g].url.left, cursor[g].url))'
    BY <1>1 DEF Removing, RemovalInv, Traced, ChangesAt
<1>3. RemovalInv'
    BY <1>2 DEF RemovalInv
<1>4. ASSUME NEW m \in stored, where[m] = "deleted",
             cursor'[Home(m)].url # NoUrl
      PROVE  m \in untold \cup Reported(Home(m))'
  <2>1. stored \subseteq Message /\ Home(m) \in Folder
      BY HomeOf DEF IInv, Shape
  <2>2. cursor'[Home(m)] = cursor[Home(m)]
      BY <1>4, <2>1
  <2>3. m \in untold \cup Reported(Home(m))
      BY <1>4, <2>2 DEF Removing, DeletionsAreReported
  <2>4. Reported(Home(m))' = Reported(Home(m))
      BY <1>1, <1>4, <2>2, ReportOfLink, ThenReportOfLink
  <2> QED BY <2>3, <2>4
<1>5. DeletionsAreReported'
    BY <1>1, <1>4 DEF DeletionsAreReported
<1> QED BY <1>3, <1>5 DEF Removing

LEMMA RemovalsFetch ==
    ASSUME IInv, Removing, FetchPage
    PROVE  Removing'
<1> PICK f : f = my.folder
    OBVIOUS
<1>1. PICK link, S, page :
          /\ f \in Folder /\ S \in Chunks(link) /\ page = PageOf(f, link, S)
          /\ my'.page = page /\ my'.folder = f
          /\ LinkOf(f, link)
          /\ cursor[f].url # NoUrl => link = cursor[f].url
          /\ cursor[f].url = NoUrl =>
                link.left \in Begun(f) /\ link.pos = Len(log[f])
    BY Fetched
<1>2. /\ where' = where /\ log' = log /\ stored' = stored /\ untold' = untold
      /\ cursor' = cursor
    BY DEF FetchPage, graphVars, dbVars
<1>3. Shape
    BY DEF IInv
<1>4. Traced(f, link.left, link)
  <2>1. CASE cursor[f].url # NoUrl
      BY <1>1, <2>1 DEF Removing, RemovalInv
  <2>2. CASE cursor[f].url = NoUrl
    <3>1. link.left \subseteq InFolder(f)
        BY <1>1, <2>2 DEF Begun, kSubset, Window
    <3> QED BY <3>1 DEF InFolder, Traced
  <2> QED BY <2>1, <2>2
<1> DEFINE Tells(T) == T \subseteq page.messages \cup page.removed
                          \cup page.next.left
                          \cup ChangesAt(f, page.next.pos, Len(log[f]))
<1>5. /\ Traced(f, page.messages \cup page.next.left, page.next)
      /\ Tells(link.left) /\ Tells(ChangesAt(f, link.pos, Len(log[f])))
  <2>1. CASE link.left # {}
    <3>1. OfBaseline(f, link, S, page)
        BY <1>1, <1>3, <2>1, BaselinePage
    <3> QED BY <1>4, <3>1 DEF OfBaseline, Traced
  <2>2. CASE link.left = {}
    <3>1. PICK told : OfChanges(f, link, told, page)
        BY <1>1, <1>3, <2>2, ChangesPage
    <3> QED BY <2>2, <3>1 DEF OfChanges, Traced
  <2> QED BY <2>1, <2>2
<1>6. cursor[f].url # NoUrl => Tells(Reported(f))
    BY <1>1, <1>5, ReportOfLink
<1>7. \A g \in Folder : cursor[g].url # NoUrl => Reported(g)' = Reported(g)
    BY <1>2, ReportOfLink, ThenReportOfLink
<1>8. \A g, T, u : Traced(g, T, u)' <=> Traced(g, T, u)
    BY <1>2 DEF Traced, ChangesAt
<1>9. RemovalInv'
  <2>1. \A g \in Folder :
            (cursor[g].url # NoUrl => Traced(g, cursor[g].url.left, cursor[g].url))'
      BY <1>2 DEF Removing, RemovalInv, Traced, ChangesAt
  <2>2. Traced(f, page.messages \cup page.next.left, page.next)'
      BY <1>5, <1>8
  <2>3. ChangesAt(f, page.next.pos, Len(log[f]))'
          = ChangesAt(f, page.next.pos, Len(log[f]))
      BY <1>2 DEF ChangesAt
  <2> QED BY <1>1, <1>2, <1>6, <1>7, <2>1, <2>2, <2>3 DEF RemovalInv
<1>10. DeletionsAreReported'
  <2>1. \A m \in stored : Home(m) \in Folder
      BY <1>3, HomeOf DEF Shape
  <2> QED BY <1>2, <1>7, <2>1 DEF Removing, DeletionsAreReported
<1> QED BY <1>9, <1>10 DEF Removing

LEMMA RemovalsApply ==
    ASSUME IInv, TypeInv, Removing, Apply
    PROVE  Removing'
<1> PICK f \in Folder : f = my.folder
    BY DEF IInv, Shape, IsRun
<1> PICK page : page = my.page
    OBVIOUS
<1>1. /\ where' = where /\ log' = log /\ pc' # "apply"
      /\ stored' = (stored \cup page.messages) \ Deleted
      /\ untold' = untold \cup (IF cursor[f].url = NoUrl THEN Missed(f) ELSE {})
    BY ApplyRun DEF Apply, graphVars, Upserted
<1>2. PICK n \in Nat : Applies(f, n)
    BY Applied
<1>3. /\ \A g \in Folder : g # f => cursor'[g] = cursor[g]
      /\ cursor'[f].url \in {NoUrl, page.next}
    BY <1>2, Applied DEF Applies, Fresh
<1>4. /\ Traced(f, page.messages, page.next)
      /\ Traced(f, page.next.left, page.next)
      /\ page.messages \subseteq Of(f)
      /\ cursor[f].url # NoUrl =>
            Reported(f) \subseteq
              page.messages \cup page.removed \cup page.next.left
                \cup ChangesAt(f, page.next.pos, Len(log[f]))
    BY DEF Apply, Removing, RemovalInv, Traced, IInv, PageInv
<1>5. RemovalInv'
  <2>1. ASSUME NEW g \in Folder
        PROVE  (cursor[g].url # NoUrl =>
                   Traced(g, cursor[g].url.left, cursor[g].url))'
    <3>1. CASE g = f
        BY <1>1, <1>3, <1>4, <3>1 DEF Traced, ChangesAt
    <3>2. CASE g # f
        BY <1>1, <1>3, <3>2 DEF Removing, RemovalInv, Traced, ChangesAt
    <3> QED BY <3>1, <3>2
  <2> QED BY <1>1, <2>1 DEF RemovalInv
<1>6. ASSUME NEW m \in stored', where[m] = "deleted",
             cursor'[Home(m)].url # NoUrl
      PROVE  m \in untold' \cup Reported(Home(m))'
  <2>0. m \in Message /\ Home(m) \in Folder /\ m \in Of(Home(m))
    <3>1. m \in Message
        BY <1>1, <1>4, ThereByFolder DEF IInv, Shape
    <3> QED BY <3>1, HomeOf DEF Of
  <2>1. CASE Home(m) # f
    <3>1. m \in stored
        BY <1>1, <1>4, <2>1, ThereByFolder
    <3>2. cursor'[Home(m)] = cursor[Home(m)]
        BY <1>3, <2>0, <2>1
    <3>3. Reported(Home(m))' = Reported(Home(m))
        BY <1>1, <1>6, <3>2, ReportOfLink, ThenReportOfLink
    <3>4. m \in untold \cup Reported(Home(m))
        BY <1>6, <3>1, <3>2 DEF Removing, DeletionsAreReported
    <3> QED BY <1>1, <3>3, <3>4
  <2>2. CASE Home(m) = f
    <3>1. Reported(f)' = page.next.left
                           \cup ChangesAt(f, page.next.pos, Len(log[f]))
        BY <1>1, <1>3, <1>6, <2>2, ThenReportOfLink
    <3>2. CASE m \in page.messages
        BY <1>4, <1>6, <2>2, <3>1, <3>2 DEF Traced
    <3>3. CASE m \in stored /\ m \notin page.messages
      <4>1. m \notin page.removed
          BY <1>1, <1>6, <3>3 DEF Deleted, Removals
      <4>2. CASE cursor[f].url = NoUrl
        <5>1. m \in Missed(f) \/ m \in ChangesAt(f, page.next.pos, Len(log[f]))
            BY <1>6, <2>0, <2>2, <3>3 DEF Missed
        <5> QED BY <1>1, <2>2, <3>1, <4>2, <5>1
      <4>3. CASE cursor[f].url # NoUrl
        <5>1. m \in untold \cup Reported(f)
            BY <1>6, <2>2, <3>3, <4>3 DEF Removing, DeletionsAreReported
        <5> QED BY <1>1, <1>4, <2>2, <3>1, <3>3, <4>1, <4>3, <5>1
      <4> QED BY <4>2, <4>3
    <3> QED BY <1>1, <3>2, <3>3
  <2> QED BY <2>1, <2>2
<1>7. DeletionsAreReported'
    BY <1>1, <1>6 DEF DeletionsAreReported
<1> QED BY <1>5, <1>7 DEF Removing

(* A change of the mailbox is one that every link has still to report.      *)
LEMMA LinksGrow ==
    ASSUME IInv, NEW m \in Message, Logged(m), UNCHANGED cursor
    PROVE  \A f \in Folder :
             /\ \A link : LinkOf(f, link) =>
                   ChangesAt(f, link.pos, Len(log[f]))' =
                     ChangesAt(f, link.pos, Len(log[f]))
                       \cup (IF f = Home(m) THEN {m} ELSE {})
             /\ cursor[f].url # NoUrl =>
                   Reported(f)' = Reported(f)
                                    \cup (IF f = Home(m) THEN {m} ELSE {})
<1>1. \A f \in Folder : \A link : LinkOf(f, link) =>
          ChangesAt(f, link.pos, Len(log[f]))' =
            ChangesAt(f, link.pos, Len(log[f]))
              \cup (IF f = Home(m) THEN {m} ELSE {})
  <2>1. Shape
      BY DEF IInv
  <2> QED BY <2>1, LogGrows DEF LinkOf, Link
<1>2. ASSUME NEW f \in Folder, cursor[f].url # NoUrl
      PROVE  Reported(f)' = Reported(f)
                              \cup (IF f = Home(m) THEN {m} ELSE {})
  <2>1. LinkOf(f, cursor[f].url)
      BY <1>2 DEF IInv, CursorInv
  <2> QED BY <1>1, <1>2, <2>1 DEF Reported
<1> QED BY <1>1, <1>2

LEMMA RemovalsLogged ==
    ASSUME IInv, Removing, NEW m \in Message, Logged(m),
           NEW w \in {"none", "home", "elsewhere", "deleted"},
           where' = [where EXCEPT ![m] = w],
           untold \ {m} \subseteq untold',
           UNCHANGED <<stored, cursor, pc, my>>
    PROVE  Removing'
<1>1. /\ stored' = stored /\ cursor' = cursor /\ pc' = pc /\ my' = my
      /\ \A x \in Message : x # m => where'[x] = where[x]
      /\ where'[m] = w
    BY DEF IInv, Shape
<1> DEFINE More(f) == IF f = Home(m) THEN {m} ELSE {}
<1>2. \A f \in Folder :
         /\ \A link : LinkOf(f, link) =>
               ChangesAt(f, link.pos, Len(log[f]))' =
                 ChangesAt(f, link.pos, Len(log[f])) \cup More(f)
         /\ cursor[f].url # NoUrl => Reported(f)' = Reported(f) \cup More(f)
    BY LinksGrow
<1>3. \A f \in Folder : Of(f) \subseteq Message
                          /\ (m \in Of(f) => m \in More(f))
    BY ThereByFolder
<1> HIDE DEF More
<1>4. ASSUME NEW f \in Folder, NEW link, LinkOf(f, link),
             NEW S, S \subseteq Of(f), Traced(f, S, link)
      PROVE  Traced(f, S, link)'
  <2>1. ChangesAt(f, link.pos, Len(log[f]))' =
          ChangesAt(f, link.pos, Len(log[f])) \cup More(f)
      BY <1>2, <1>4
  <2>2. \A x \in S : x \in Message /\ (x = m => x \in More(f))
      BY <1>3, <1>4
  <2> QED BY <1>1, <1>4, <2>1, <2>2 DEF Traced
<1>5. ASSUME NEW g \in Folder
      PROVE  (cursor[g].url # NoUrl =>
                 Traced(g, cursor[g].url.left, cursor[g].url))'
  <2> SUFFICES ASSUME cursor[g].url # NoUrl
               PROVE  Traced(g, cursor[g].url.left, cursor[g].url)'
      BY <1>1
  <2> PICK u : u = cursor[g].url
      OBVIOUS
  <2>1. LinkOf(g, u) /\ u.left \subseteq Of(g)
      BY DEF IInv, CursorInv, LinkOf
  <2>2. Traced(g, u.left, u)
      BY DEF Removing, RemovalInv
  <2>3. Traced(g, u.left, u)'
      BY <1>4, <2>1, <2>2
  <2> QED BY <1>1, <2>3 DEF Traced
<1>6. ASSUME pc = "apply", NEW f \in Folder, f = my.folder,
             NEW page, page = my.page
      PROVE  /\ Traced(f, page.messages \cup page.next.left, page.next)'
             /\ cursor[f].url # NoUrl =>
                   Reported(f)' \subseteq
                     page.messages \cup page.removed \cup page.next.left
                       \cup ChangesAt(f, page.next.pos, Len(log[f]))'
  <2>1. /\ LinkOf(f, page.next)
        /\ page.messages \cup page.next.left \subseteq Of(f)
      BY <1>6 DEF IInv, PageInv, LinkOf
  <2>2. /\ Traced(f, page.messages \cup page.next.left, page.next)
        /\ cursor[f].url # NoUrl =>
              Reported(f) \subseteq
                page.messages \cup page.removed \cup page.next.left
                  \cup ChangesAt(f, page.next.pos, Len(log[f]))
      BY <1>6 DEF Removing, RemovalInv
  <2>3. Traced(f, page.messages \cup page.next.left, page.next)'
      BY <1>4, <2>1, <2>2
  <2>4. /\ ChangesAt(f, page.next.pos, Len(log[f]))' =
             ChangesAt(f, page.next.pos, Len(log[f])) \cup More(f)
        /\ cursor[f].url # NoUrl => Reported(f)' = Reported(f) \cup More(f)
      BY <1>2, <2>1
  <2> QED BY <2>2, <2>3, <2>4
<1>7. RemovalInv'
  <2>1. my.folder \in Folder
      BY DEF IInv, Shape, IsRun
  <2>2. pc = "apply" =>
          LET page == my.page
              f == my.folder
          IN  /\ Traced(f, page.messages \cup page.next.left, page.next)'
              /\ cursor[f].url # NoUrl =>
                    Reported(f)' \subseteq
                      page.messages \cup page.removed \cup page.next.left
                        \cup ChangesAt(f, page.next.pos, Len(log[f]))'
      BY <1>6, <2>1
  <2> QED BY <1>1, <1>5, <2>2 DEF RemovalInv, Traced, ChangesAt
<1>8. DeletionsAreReported'
  <2> SUFFICES ASSUME NEW x \in stored, where'[x] = "deleted",
                      cursor[Home(x)].url # NoUrl
               PROVE  x \in untold' \cup Reported(Home(x))'
      BY <1>1 DEF DeletionsAreReported
  <2>1. x \in Message /\ Home(x) \in Folder /\ x \in Of(Home(x))
      BY HomeOf DEF IInv, Shape, Of
  <2>2. Reported(Home(x))' = Reported(Home(x)) \cup More(Home(x))
      BY <1>2, <2>1
  <2>3. CASE x = m
      BY <1>3, <2>1, <2>2, <2>3
  <2>4. CASE x # m
    <3>1. x \in untold \cup Reported(Home(x))
        BY <1>1, <2>1, <2>4 DEF Removing, DeletionsAreReported
    <3> QED BY <2>2, <2>4, <3>1
  <2> QED BY <2>3, <2>4
<1> QED BY <1>7, <1>8 DEF Removing

(* What is deleted elsewhere had gone before, and its going is told still   *)
(* or never.                                                                *)
LEMMA RemovalsElsewhere ==
    ASSUME IInv, Removing, NEW m \in Message, DeleteElsewhere(m)
    PROVE  Removing'
<1>1. /\ where[m] = "elsewhere" /\ where' = [where EXCEPT ![m] = "deleted"]
      /\ untold' = untold \cup ({m} \ Reported(Home(m)))
      /\ UNCHANGED <<log, stored, cursor, pc, my>>
    BY DEF DeleteElsewhere, dbVars
<1>2. /\ \A x \in Message : where'[x] = "home" <=> where[x] = "home"
      /\ \A x \in Message : x # m => where'[x] = where[x]
    BY <1>1 DEF IInv, Shape
<1>3. \A f : Reported(f)' = Reported(f)
  <2>1. \A f : InFolder(f)' = InFolder(f)
      BY <1>2 DEF InFolder, Of
  <2> QED BY <1>1, <2>1 DEF Reported, ChangesAt
<1>4. ASSUME NEW f \in Folder, NEW S, S \subseteq Of(f), NEW link
      PROVE  Traced(f, S, link)' <=> Traced(f, S, link)
    BY <1>1, <1>2, <1>4, ThereByFolder DEF Traced, ChangesAt
<1>5. RemovalInv'
  <2>1. ASSUME NEW g \in Folder
        PROVE  (cursor[g].url # NoUrl =>
                   Traced(g, cursor[g].url.left, cursor[g].url))'
    <3> SUFFICES ASSUME cursor[g].url # NoUrl
                 PROVE  Traced(g, cursor[g].url.left, cursor[g].url)'
        BY <1>1
    <3> PICK u : u = cursor[g].url
        OBVIOUS
    <3>1. Traced(g, u.left, u) /\ u.left \subseteq Of(g)
        BY DEF Removing, RemovalInv, IInv, CursorInv, LinkOf
    <3>2. Traced(g, u.left, u)'
        BY <1>4, <3>1
    <3> QED BY <1>1, <3>2 DEF Traced
  <2>2. ASSUME pc = "apply", NEW f \in Folder, f = my.folder,
               NEW page, page = my.page
        PROVE  /\ Traced(f, page.messages \cup page.next.left, page.next)'
               /\ cursor[f].url # NoUrl =>
                     Reported(f)' \subseteq
                       page.messages \cup page.removed \cup page.next.left
                         \cup ChangesAt(f, page.next.pos, Len(log[f]))'
    <3>1. page.messages \cup page.next.left \subseteq Of(f)
        BY <2>2 DEF IInv, PageInv, LinkOf
    <3>2. /\ Traced(f, page.messages \cup page.next.left, page.next)
          /\ cursor[f].url # NoUrl =>
                Reported(f) \subseteq
                  page.messages \cup page.removed \cup page.next.left
                    \cup ChangesAt(f, page.next.pos, Len(log[f]))
        BY <2>2 DEF Removing, RemovalInv
    <3>3. Traced(f, page.messages \cup page.next.left, page.next)'
        BY <1>4, <3>1, <3>2
    <3>4. ChangesAt(f, page.next.pos, Len(log[f]))'
            = ChangesAt(f, page.next.pos, Len(log[f]))
        BY <1>1 DEF ChangesAt
    <3> QED BY <1>3, <3>2, <3>3, <3>4
  <2>3. my.folder \in Folder
      BY DEF IInv, Shape, IsRun
  <2>4. pc' = pc /\ my' = my /\ cursor' = cursor
      BY <1>1
  <2> PICK f \in Folder : f = my.folder
      BY <2>3
  <2> PICK page : page = my.page
      OBVIOUS
  <2> QED BY <2>1, <2>2, <2>4 DEF RemovalInv
<1>6. DeletionsAreReported'
  <2> SUFFICES ASSUME NEW x \in stored, where'[x] = "deleted",
                      cursor[Home(x)].url # NoUrl
               PROVE  x \in untold' \cup Reported(Home(x))'
      BY <1>1 DEF DeletionsAreReported
  <2>1. x \in Message
      BY DEF IInv, Shape
  <2>2. CASE x = m
      BY <1>1, <1>3, <2>2
  <2>3. CASE x # m
    <3>1. x \in untold \cup Reported(Home(x))
        BY <1>2, <2>1, <2>3 DEF Removing, DeletionsAreReported
    <3> QED BY <1>1, <1>3, <3>1
  <2> QED BY <2>2, <2>3
<1> QED BY <1>5, <1>6 DEF Removing

LEMMA RemovalsKept ==
    IInv /\ TypeInv /\ Removing /\ [Next]_vars => Removing'
<1> SUFFICES ASSUME IInv, TypeInv, Removing, [Next]_vars PROVE Removing'
    OBVIOUS
<1>1. CASE UNCHANGED vars
    BY <1>1 DEF vars, graphVars, dbVars, histVars, Removing, RemovalInv,
                DeletionsAreReported, Traced, Reported, InFolder, ChangesAt
<1>2. CASE Start \/ Die \/ Defer \/ Expired
  <2>1. UNCHANGED <<where, log, stored, untold>>
      BY <1>2 DEF Start, Die, Defer, Expired, graphVars, dbVars, histVars
  <2>2. pc' # "apply"
      BY <1>2, LeaveTyped DEF Start, Die, Defer, Expired, TypeInv, TypeOK
  <2>3. \A f \in Folder : cursor'[f] = cursor[f] \/ cursor'[f].url = NoUrl
    <3>1. cursor' = cursor \/ cursor' = [cursor EXCEPT ![my.folder] = Fresh(TRUE)]
        BY <1>2 DEF Start, Die, Defer, Expired, dbVars
    <3>2. Fresh(TRUE).url = NoUrl
        BY DEF Fresh
    <3> HIDE DEF Fresh
    <3> QED BY <3>1, <3>2 DEF IInv, Shape
  <2> QED BY <2>1, <2>2, <2>3, RemovalsDrop
<1>3. CASE FetchPage
    BY <1>3, RemovalsFetch
<1>4. CASE Apply
    BY <1>4, RemovalsApply
<1>5. ASSUME NEW m \in Message, NEW from \in {"none", "elsewhere"},
             Come(m, from)
      PROVE  Removing'
  <2>1. /\ Logged(m) /\ where' = [where EXCEPT ![m] = "home"]
        /\ untold \ {m} \subseteq untold'
        /\ UNCHANGED <<stored, cursor, pc, my>>
      BY <1>5 DEF Come, Logged, dbVars
  <2> QED BY <2>1, RemovalsLogged
<1>6. ASSUME NEW m \in Message, NEW to \in {"elsewhere", "deleted"},
             Go(m, to)
      PROVE  Removing'
  <2>1. /\ Logged(m) /\ where' = [where EXCEPT ![m] = to]
        /\ untold \ {m} \subseteq untold'
        /\ UNCHANGED <<stored, cursor, pc, my>>
      BY <1>6 DEF Go, Logged, dbVars
  <2> QED BY <2>1, RemovalsLogged
<1>7. ASSUME NEW m \in Message, DeleteElsewhere(m)
      PROVE  Removing'
    BY <1>7, RemovalsElsewhere
<1> QED BY <1>1, <1>2, <1>3, <1>4, <1>5, <1>6, <1>7
        DEF Next, Step, Environment

-----------------------------------------------------------------------------
(* Baselines that are cut off.                                              *)

Counting == BaselineInv /\ WideIsWhole

LEMMA BaselineDrop ==
    ASSUME IInv, Counting, UNCHANGED <<where, waived, shrunk>>,
           pc' # "apply",
           \A f \in Folder :
              \/ cursor'[f] = cursor[f]
              \/ cursor'[f].url = NoUrl /\ ~cursor'[f].complete
    PROVE  Counting'
<1>1. where' = where /\ waived' = waived /\ shrunk' = shrunk
    OBVIOUS
<1>2. \A f : InFolder(f)' = InFolder(f)
    BY <1>1 DEF InFolder
<1>3. ASSUME NEW f \in Folder
      PROVE  /\ (Counts(f) /\ cursor[f].url # NoUrl =>
                   Delivers(f, cursor[f].count, cursor[f].url.left, waived))'
             /\ f \notin shrunk' /\ cursor'[f].complete /\ cursor'[f].wide
                   => waived' \cap InFolder(f)' = {}
  <2>1. CASE cursor'[f] = cursor[f]
      BY <1>1, <1>2, <2>1
         DEF Counting, BaselineInv, WideIsWhole, Counts, Delivers
  <2>2. CASE cursor'[f].url = NoUrl /\ ~cursor'[f].complete
      BY <2>2
  <2> QED BY <2>1, <2>2
<1> QED BY <1>3 DEF Counting, BaselineInv, WideIsWhole

(* The page that a run gets belongs to the walk of its cursor, or begins    *)
(* one; then it says what is given up.                                      *)
LEMMA BaselineFetch ==
    ASSUME IInv, TypeInv, Counting, FetchPage
    PROVE  Counting'
<1> PICK f : f = my.folder
    OBVIOUS
<1>1. PICK link, S, page :
          /\ f \in Folder /\ S \in Chunks(link) /\ page = PageOf(f, link, S)
          /\ my'.page = page /\ my'.folder = f
          /\ LinkOf(f, link)
          /\ cursor[f].url # NoUrl => link = cursor[f].url
          /\ cursor[f].url = NoUrl =>
                link.left \in Begun(f) /\ link.pos = Len(log[f])
    BY Fetched
<1>2. /\ where' = where /\ waived' = waived /\ cursor' = cursor
      /\ shrunk' = IF cursor[f].url = NoUrl THEN shrunk \ {f} ELSE shrunk
    BY DEF FetchPage, graphVars, dbVars
<1>3. Shape
    BY DEF IInv
<1>4. \A g : InFolder(g)' = InFolder(g)
    BY <1>2 DEF InFolder
<1>5. ASSUME NEW g \in Folder
      PROVE  /\ (Counts(g) /\ cursor[g].url # NoUrl =>
                   Delivers(g, cursor[g].count, cursor[g].url.left, waived))'
             /\ g \notin shrunk' /\ cursor'[g].complete /\ cursor'[g].wide
                   => waived' \cap InFolder(g)' = {}
  <2>1. cursor[g].complete => cursor[g].url # NoUrl
      BY DEF TypeInv
  <2>2. cursor[g].url # NoUrl => (g \in shrunk' <=> g \in shrunk)
      BY <1>2
  <2> QED BY <1>2, <1>4, <2>1, <2>2
          DEF Counting, BaselineInv, WideIsWhole, Counts, Delivers
<1> DEFINE all == page.messages \cup page.next.left
<1>6. /\ page.last \in BOOLEAN
      /\ page.last => page.next.left = {}
      /\ cursor[f].url # NoUrl =>
            /\ page.cut = {} /\ page.next.left \subseteq link.left
      /\ cursor[f].url = NoUrl =>
            page.cut = InFolder(f) \ link.left
      /\ link.left \subseteq InFolder(f) =>
            /\ link.left \subseteq all
            /\ cursor[f].url = NoUrl => all = link.left
  <2>1. CASE link.left # {}
    <3>1. page \in Page /\ OfBaseline(f, link, S, page)
        BY <1>1, <1>3, <2>1, BaselinePage
    <3> QED BY <3>1 DEF OfBaseline, Page, InFolder
  <2>2. CASE link.left = {}
    <3>1. page \in Page /\ \E told : OfChanges(f, link, told, page)
        BY <1>1, <1>3, <2>2, ChangesPage
    <3>2. PICK told : OfChanges(f, link, told, page)
        BY <3>1
    <3> QED BY <1>1, <2>2, <3>1, <3>2 DEF OfChanges, Page
  <2> QED BY <2>1, <2>2
<1>7. CASE cursor[f].url # NoUrl
  <2>1. Counts(f) => link.left \subseteq InFolder(f)
      BY <1>1, <1>7 DEF Counting, BaselineInv, Delivers
  <2>2. Counts(f)' <=> Counts(f)
      BY <1>2, <1>7 DEF Counts
  <2> QED BY <1>1, <1>2, <1>5, <1>6, <1>7, <2>1, <2>2
          DEF Counting, BaselineInv, WideIsWhole
<1>8. CASE cursor[f].url = NoUrl
  <2>1. link.left \subseteq InFolder(f) /\ all = link.left
    <3>1. link.left \subseteq InFolder(f)
        BY <1>1, <1>8 DEF Begun, kSubset, Window
    <3> QED BY <1>6, <1>8, <3>1
  <2>2. cursor[f].wide =>
            \/ InFolder(f) \subseteq link.left
            \/ Cardinality(link.left) = Cap
      BY <1>1, <1>8 DEF Begun, kSubset, Window
  <2>3. cursor[f].wide => Delivers(f, 0, all, waived \cup page.cut)
    <3>1. Cap \in Nat
        BY BoundAssumption
    <3> HIDE DEF all
    <3> QED BY <2>1, <2>2, <3>1 DEF Delivers
  <2>4. /\ page.cut \subseteq InFolder(f)
      BY <1>6, <1>8
  <2>5. Counts(f)' => cursor[f].wide
      BY <1>2 DEF Counts
  <2>6. Delivers(f, 0, all, waived \cup page.cut) =>
            Delivers(f, 0, all, waived \cup page.cut)'
      BY <1>2, <1>4 DEF Delivers
  <2> QED BY <1>1, <1>2, <1>4, <1>5, <1>6, <1>8, <2>3, <2>4, <2>5, <2>6
          DEF Counting, BaselineInv, WideIsWhole, Delivers
<1> QED BY <1>7, <1>8

(* What a page delivers is counted, and stored, and so given up no more.    *)
LEMMA AppliedDelivers ==
    ASSUME IInv, TypeInv, Counting, Apply, NEW f, f = my.folder, Counts(f),
           NEW page, page = my.page
    PROVE  /\ page.next.left \subseteq InFolder(f)
           /\ \/ cursor[f].count + Cardinality(page.messages)
                    + Cardinality(page.next.left) >= Cap
              \/ waived' \cap InFolder(f) \subseteq page.next.left
<1> DEFINE link == cursor[f].url
           all == page.messages \cup page.next.left
<1>1. /\ f \in Folder /\ page \in Page /\ cursor[f] \in Cursor
      /\ link # NoUrl => page.cut = {} /\ page.next.left \subseteq link.left
      /\ IF link # NoUrl THEN link.left \subseteq all
         ELSE Delivers(f, 0, all, waived \cup page.cut)
      /\ link # NoUrl => Delivers(f, cursor[f].count, link.left, waived)
    BY DEF TypeInv, TypeOK, Run, Counting, BaselineInv, Apply
<1> PICK base, S :
        /\ base \in Nat /\ base <= cursor[f].count
        /\ S \subseteq all /\ page.next.left \subseteq S
        /\ Delivers(f, base, S, waived \cup page.cut)
  <2>1. cursor[f].count \in Nat
      BY <1>1 DEF Cursor
  <2>2. CASE link # NoUrl
    <3>1. waived \cup page.cut = waived
        BY <1>1, <2>2
    <3> QED BY <1>1, <2>1, <2>2, <3>1
  <2>3. CASE link = NoUrl
      BY <1>1, <2>1, <2>3
  <2> QED BY <2>2, <2>3
<1>2. page.next.left \subseteq InFolder(f)
    BY DEF Delivers
<1>3. CASE base + Cardinality(S) >= Cap
  <2>1. page.messages \subseteq Message /\ page.next.left \subseteq Message
      BY <1>1 DEF Page, Link
  <2>2. /\ IsFiniteSet(page.messages) /\ IsFiniteSet(page.next.left)
        /\ Cardinality(page.messages) \in Nat
        /\ Cardinality(page.next.left) \in Nat
        /\ IsFiniteSet(all) /\ Cardinality(all) \in Nat
        /\ Cardinality(S) \in Nat /\ S \subseteq Message
      BY <2>1, Counted
  <2>3. Cardinality(all) <= Cardinality(page.messages)
                              + Cardinality(page.next.left)
    <3>1. Cardinality(all) =
              Cardinality(page.messages) + Cardinality(page.next.left)
                - Cardinality(page.messages \cap page.next.left)
        BY <2>2, FS_Union
    <3>2. Cardinality(page.messages \cap page.next.left) \in Nat
        BY <2>1, Counted
    <3> QED BY <2>2, <3>1, <3>2
  <2>4. Cardinality(S) <= Cardinality(all)
      BY <2>2, FS_Subset
  <2>5. cursor[f].count \in Nat /\ Cap \in Nat
      BY <1>1, BoundAssumption DEF Cursor
  <2> HIDE DEF all
  <2> QED BY <1>2, <1>3, <2>2, <2>3, <2>4, <2>5
<1>4. CASE (waived \cup page.cut) \cap InFolder(f) \subseteq S
  <2>1. waived' \subseteq (waived \cup page.cut) \ stored'
      BY DEF Apply
  <2>2. page.messages \cap InFolder(f) \subseteq stored'
      BY DEF Apply, Upserted, Deleted, InFolder
  <2> QED BY <1>2, <1>4, <2>1, <2>2
<1> QED BY <1>3, <1>4 DEF Delivers

LEMMA BaselineApply ==
    ASSUME IInv, TypeInv, Counting, Apply
    PROVE  Counting'
<1> PICK f : f = my.folder
    OBVIOUS
<1> PICK page : page = my.page
    OBVIOUS
<1>0. f \in Folder /\ page \in Page /\ page.cut \subseteq Of(f)
    BY DEF TypeInv, TypeOK, Run, IInv, PageInv, Apply
<1>1. /\ where' = where /\ shrunk' = shrunk /\ pc' # "apply"
      /\ waived' \subseteq waived \cup page.cut
    BY ApplyRun DEF Apply, graphVars
<1>2. PICK n \in Nat : Applies(f, n)
    BY Applied
<1>3. \A g \in Folder : g # f => cursor'[g] = cursor[g]
    BY Applied
<1>4. \A g : InFolder(g)' = InFolder(g)
    BY <1>1 DEF InFolder
<1>5. /\ cursor[f].complete \in BOOLEAN /\ page.last \in BOOLEAN
      /\ cursor[f].complete => cursor[f].url # NoUrl
      /\ cursor[f].url # NoUrl => page.cut = {}
      /\ page.last => page.next.left = {}
    BY <1>0 DEF TypeInv, TypeOK, Cursor, Page, Counting, BaselineInv, Apply
<1>6. ASSUME cursor'[f].wide
      PROVE  /\ cursor[f].wide /\ cursor'[f].count = n
             /\ cursor'[f].url = page.next
             /\ cursor'[f].complete <=> cursor[f].complete \/ page.last
             /\ page.last => ~Narrow(cursor[f], n)
    BY <1>2, <1>5, <1>6 DEF Applies, Fresh
<1>7. ASSUME ~cursor[f].complete, cursor[f].wide, f \notin shrunk
      PROVE  /\ page.next.left \subseteq InFolder(f)
             /\ \/ n + Cardinality(page.next.left) >= Cap
                \/ waived' \cap InFolder(f) \subseteq page.next.left
  <2>1. n = cursor[f].count + Cardinality(page.messages)
      BY <1>2, <1>7 DEF Applies
  <2> QED BY <1>7, <2>1, AppliedDelivers DEF Counts
<1>8. ASSUME NEW g \in Folder
      PROVE  /\ (Counts(g) /\ cursor[g].url # NoUrl =>
                   Delivers(g, cursor[g].count, cursor[g].url.left, waived))'
             /\ g \notin shrunk' /\ cursor'[g].complete /\ cursor'[g].wide
                   => waived' \cap InFolder(g)' = {}
  <2>1. CASE g # f
    <3>1. waived' \cap InFolder(g) \subseteq waived
        BY <1>0, <1>1, <2>1, ThereByFolder
    <3> QED BY <1>1, <1>3, <1>4, <2>1, <3>1
            DEF Counting, BaselineInv, WideIsWhole, Counts, Delivers
  <2>2. CASE g = f
    <3>1. (Counts(f) /\ cursor[f].url # NoUrl =>
             Delivers(f, cursor[f].count, cursor[f].url.left, waived))'
        BY <1>1, <1>4, <1>6, <1>7 DEF Counts, Delivers
    <3>2. ASSUME f \notin shrunk, cursor'[f].complete, cursor'[f].wide
          PROVE  waived' \cap InFolder(f) = {}
      <4>1. CASE cursor[f].complete
        <5>1. waived \cap InFolder(f) = {}
            BY <1>0, <1>6, <3>2, <4>1 DEF Counting, WideIsWhole
        <5> QED BY <1>1, <1>5, <4>1, <5>1
      <4>2. CASE ~cursor[f].complete
        <5>1. page.last /\ cursor[f].wide /\ ~(n >= Cap)
            BY <1>6, <3>2, <4>2 DEF Narrow
        <5>2. page.next.left = {} /\ Cardinality(page.next.left) = 0
            BY <1>5, <5>1, FS_EmptySet
        <5> QED BY <1>7, <3>2, <4>2, <5>1, <5>2
      <4> QED BY <4>1, <4>2
    <3> QED BY <1>1, <1>4, <2>2, <3>1, <3>2
  <2> QED BY <2>1, <2>2
<1> QED BY <1>1, <1>8 DEF Counting, BaselineInv, WideIsWhole

(* A change of the mailbox that takes a message from a walk is noticed.     *)
LEMMA BaselineLogged ==
    ASSUME IInv, TypeInv, Counting, NEW m \in Message,
           UNCHANGED <<cursor, pc, my>>,
           \/ /\ \A f \in Folder : InFolder(f) \subseteq InFolder(f)'
              /\ \A f \in Folder : InFolder(f)' \subseteq InFolder(f) \cup {m}
              /\ where[m] # "home"
              /\ waived' = waived \ {m} /\ shrunk' = shrunk
           \/ /\ \A f \in Folder : InFolder(f)' \subseteq InFolder(f)
              /\ \A f \in Folder : InFolder(f)' = InFolder(f)
                                     \/ (Begins(f) => f \in shrunk')
              /\ waived' = waived /\ shrunk \subseteq shrunk'
    PROVE  Counting'
<1>0. /\ cursor' = cursor /\ pc' = pc /\ my' = my
      /\ \A f : m \notin InFolder(f) \/ where[m] = "home"
      /\ \A f \in Folder : cursor[f].complete => cursor[f].url # NoUrl
    BY DEF InFolder, TypeInv
<1>1. \A f \in Folder : f \notin shrunk' => f \notin shrunk
    OBVIOUS
<1>2. ASSUME NEW f \in Folder, f \notin shrunk', cursor[f].wide,
             ~cursor[f].complete, cursor[f].url # NoUrl
      PROVE  Delivers(f, cursor[f].count, cursor[f].url.left, waived)'
  <2>1. Begins(f) /\ Counts(f)
      BY <1>1, <1>2 DEF Begins, Counts
  <2>2. Delivers(f, cursor[f].count, cursor[f].url.left, waived)
      BY <1>2, <2>1 DEF Counting, BaselineInv
  <2> QED BY <1>0, <1>2, <2>1, <2>2 DEF Delivers
<1>3. ASSUME NEW f \in Folder, f \notin shrunk', cursor[f].complete,
             cursor[f].wide
      PROVE  waived' \cap InFolder(f)' = {}
  <2>1. waived \cap InFolder(f) = {}
      BY <1>1, <1>3 DEF Counting, WideIsWhole
  <2> QED BY <1>3, <2>1
<1>4. ASSUME NEW f \in Folder, pc = "apply", f = my.folder, f \notin shrunk',
             cursor[f].wide, ~cursor[f].complete, cursor[f].url = NoUrl,
             NEW page, page = my.page
      PROVE  /\ page.cut \subseteq InFolder(f)'
             /\ Delivers(f, 0, page.messages \cup page.next.left,
                         waived \cup page.cut)'
  <2>1. Begins(f) /\ Counts(f)
      BY <1>1, <1>4 DEF Begins, Counts
  <2>2. /\ page.cut \subseteq InFolder(f)
        /\ Delivers(f, 0, page.messages \cup page.next.left,
                    waived \cup page.cut)
      BY <1>4, <2>1 DEF Counting, BaselineInv
  <2>3. page.cut \subseteq InFolder(f)'
      BY <1>4, <2>1, <2>2
  <2>4. Delivers(f, 0, page.messages \cup page.next.left, waived \cup page.cut)'
      BY <1>0, <1>4, <2>1, <2>2 DEF Delivers
  <2> QED BY <2>3, <2>4
<1>5. WideIsWhole'
    BY <1>0, <1>3 DEF WideIsWhole
<1>6. BaselineInv'
  <2> PICK f : f = my.folder
      OBVIOUS
  <2> PICK page : page = my.page
      OBVIOUS
  <2>1. f \in Folder
      BY DEF IInv, Shape, IsRun
  <2>2. \A g \in Folder :
            (Counts(g) /\ cursor[g].url # NoUrl =>
               Delivers(g, cursor[g].count, cursor[g].url.left, waived))'
      BY <1>0, <1>2 DEF Counts
  <2>3. pc = "apply" =>
          /\ page.last => page.next.left = {}
          /\ cursor[f].url # NoUrl =>
                /\ page.cut = {} /\ page.next.left \subseteq cursor[f].url.left
          /\ Counts(f) /\ cursor[f].url # NoUrl =>
                cursor[f].url.left \subseteq page.messages \cup page.next.left
      BY DEF Counting, BaselineInv
  <2>4. Counts(f)' => f \notin shrunk' /\ cursor[f].wide /\ ~cursor[f].complete
                        /\ Counts(f)
      BY <1>0, <1>1, <2>1 DEF Counts
  <2>5. pc = "apply" /\ Counts(f)' /\ cursor[f].url = NoUrl =>
          /\ page.cut \subseteq InFolder(f)'
          /\ Delivers(f, 0, page.messages \cup page.next.left,
                      waived \cup page.cut)'
      BY <1>4, <2>1, <2>4
  <2> QED BY <1>0, <2>2, <2>3, <2>4, <2>5 DEF BaselineInv, Delivers
<1> QED BY <1>5, <1>6 DEF Counting

LEMMA BaselineMailbox ==
    ASSUME IInv, TypeInv, Counting, NEW m \in Message,
           \/ \E from \in {"none", "elsewhere"} : Come(m, from)
           \/ \E to \in {"elsewhere", "deleted"} : Go(m, to)
           \/ DeleteElsewhere(m)
    PROVE  Counting'
<1>0. where \in [Message -> {"none", "home", "elsewhere", "deleted"}]
    BY DEF IInv, Shape
<1>1. ASSUME NEW from \in {"none", "elsewhere"}, Come(m, from)
      PROVE  Counting'
  <2>1. /\ where[m] # "home" /\ where' = [where EXCEPT ![m] = "home"]
        /\ waived' = waived \ {m} /\ shrunk' = shrunk
        /\ UNCHANGED <<cursor, pc, my>>
      BY <1>1 DEF Come, dbVars
  <2>2. \A f \in Folder : /\ InFolder(f) \subseteq InFolder(f)'
                          /\ InFolder(f)' \subseteq InFolder(f) \cup {m}
      BY <1>0, <2>1 DEF InFolder, Of
  <2> QED BY <2>1, <2>2, BaselineLogged
<1>2. ASSUME NEW to \in {"elsewhere", "deleted"}, Go(m, to)
      PROVE  Counting'
  <2>1. /\ where' = [where EXCEPT ![m] = to] /\ waived' = waived
        /\ shrunk' = shrunk \cup {f \in Folder : f = Home(m) /\ Begins(f)}
        /\ UNCHANGED <<cursor, pc, my>>
      BY <1>2 DEF Go, dbVars
  <2>2. \A f \in Folder : /\ InFolder(f)' \subseteq InFolder(f)
                          /\ f # Home(m) => InFolder(f)' = InFolder(f)
      BY <1>0, <2>1 DEF InFolder, Of
  <2> QED BY <2>1, <2>2, BaselineLogged
<1>3. CASE DeleteElsewhere(m)
  <2>1. /\ where[m] = "elsewhere" /\ where' = [where EXCEPT ![m] = "deleted"]
        /\ waived' = waived /\ shrunk' = shrunk
        /\ UNCHANGED <<cursor, pc, my>>
      BY <1>3 DEF DeleteElsewhere, dbVars
  <2>2. \A f \in Folder : InFolder(f)' = InFolder(f)
      BY <1>0, <2>1 DEF InFolder, Of
  <2> QED BY <2>1, <2>2, BaselineLogged
<1> QED BY <1>1, <1>2, <1>3

LEMMA BaselineKept ==
    IInv /\ TypeInv /\ Counting /\ [Next]_vars => Counting'
<1> SUFFICES ASSUME IInv, TypeInv, Counting, [Next]_vars PROVE Counting'
    OBVIOUS
<1>1. CASE UNCHANGED vars
    BY <1>1 DEF vars, graphVars, dbVars, histVars, Counting, BaselineInv,
                WideIsWhole, Counts, Delivers, InFolder
<1>2. CASE Start \/ Die \/ Defer \/ Expired
  <2>1. UNCHANGED <<where, waived, shrunk>>
      BY <1>2 DEF Start, Die, Defer, Expired, graphVars, histVars
  <2>2. pc' # "apply"
      BY <1>2, LeaveTyped DEF Start, Die, Defer, Expired, TypeInv, TypeOK
  <2>3. \A f \in Folder : \/ cursor'[f] = cursor[f]
                          \/ cursor'[f].url = NoUrl /\ ~cursor'[f].complete
    <3>1. cursor' = cursor \/ cursor' = [cursor EXCEPT ![my.folder] = Fresh(TRUE)]
        BY <1>2 DEF Start, Die, Defer, Expired, dbVars
    <3>2. Fresh(TRUE).url = NoUrl /\ ~Fresh(TRUE).complete
        BY DEF Fresh
    <3> HIDE DEF Fresh
    <3> QED BY <3>1, <3>2 DEF IInv, Shape
  <2> QED BY <2>1, <2>2, <2>3, BaselineDrop
<1>3. CASE FetchPage \/ Apply
    BY <1>3, BaselineFetch, BaselineApply
<1>4. CASE Environment
    BY <1>4, BaselineMailbox DEF Environment
<1> QED BY <1>1, <1>2, <1>3, <1>4 DEF Next, Step

(* What the delta cursors promise of the store: a deletion that was not     *)
(* applied is still to be told, and a wide baseline that lost nothing while *)
(* it was walked gave nothing up.                                           *)
THEOREM StoreIsSound == Spec => []Inv
<1>1. Init => StoreInv
  <2> SUFFICES ASSUME Init PROVE StoreInv
      OBVIOUS
  <2>1. IInv /\ TypeInv
      BY InitIInv, InitTyped
  <2>2. /\ pc = "idle" /\ stored = {}
        /\ \A f \in Folder : cursor[f].url = NoUrl /\ ~cursor[f].complete
      BY DEF Init, Fresh
  <2>3. RemovalInv /\ DeletionsAreReported
      BY <2>2 DEF RemovalInv, DeletionsAreReported
  <2>4. BaselineInv /\ WideIsWhole
      BY <2>2 DEF BaselineInv, WideIsWhole
  <2> QED BY <2>1, <2>3, <2>4 DEF StoreInv
<1>2. StoreInv /\ IInv' /\ [Next]_vars => StoreInv'
    BY TypeKept, RemovalsKept, BaselineKept DEF StoreInv, Removing, Counting
<1>3. StoreInv => Inv
    BY DEF StoreInv, TypeInv, Inv
<1> QED BY <1>1, <1>2, <1>3, Invariance, PTL DEF Spec

==============================================================================
