---------------------------- MODULE OutlookIngest ----------------------------
(****************************************************************************)
(* Pulling one Outlook account: a delta walk of the inbox and of the sent   *)
(* items, page by page.  A page's additions, its verified removals and its  *)
(* cursor are one transaction.                                              *)
(*                                                                          *)
(* Source: services/ingest/outlook_ingest.py, outlook_client.py.            *)
(*                                                                          *)
(* The runs of an account follow one another: see SyncRun.  Reopening a     *)
(* done thread is the function of GmailIngest; labels are LabelSync's.      *)
(****************************************************************************)
EXTENDS Integers, Sequences, FiniteSets, FiniteSetsExt, SequencesExt

CONSTANTS
    Message,
    Sent,           \* those that belong in the sent items
    Old,            \* those outside the narrowed window, there from the start
    EventBound,     \* how often the mailbox may change
    PageSize,       \* messages, or changes, on one delta page
    Cap,            \* OUTLOOK_DELTA_CAP: a filtered walk is cut off there
    RemovalBudget,  \* _REMOVAL_VERIFY_BUDGET, per folder and run
    MaxResults,     \* messages a run may fetch
    MaxPages,       \* pages a run may fetch
    Forgetful       \* whether Graph lets a delta link expire

(* A page's removals fit the budget of a fresh run, and a settled inbox     *)
(* leaves a page for the sent items: else a walk could stall for ever.      *)
ASSUME BoundAssumption ==
    /\ IsFiniteSet(Message)
    /\ Sent \subseteq Message /\ Old \subseteq Message
    /\ EventBound \in Nat
    /\ PageSize \in Nat \ {0} /\ Cap \in Nat \ {0}
    /\ RemovalBudget \in Nat /\ PageSize <= RemovalBudget
    /\ MaxResults \in Nat \ {0}
    /\ MaxPages \in Nat /\ MaxPages >= 2
    /\ Forgetful \in BOOLEAN

Folder == {"inbox", "sentitems"}
Home(m) == IF m \in Sent THEN "sentitems" ELSE "inbox"
Of(f) == {m \in Message : Home(m) = f}

VARIABLES
    \* Graph
    where,      \* Message -> "none", "home", "elsewhere", "deleted"
    log,        \* Folder -> the messages that came or went, in order
    \* the database
    stored,     \* the messages in mail_message
    cursor,     \* Folder -> outlook_delta_cursors
    backfilled, \* outlook_backfill_complete
    \* the run
    pc,         \* what it does next
    my,         \* its locals
    \* history
    waived,     \* messages a narrowed or a cut off baseline gave up
    untold,     \* stored messages whose deletion no page will report
    shrunk      \* folders that lost a message while their baseline was walked

graphVars == <<where, log>>
dbVars    == <<stored, cursor, backfilled>>
histVars == <<waived, untold, shrunk>>
vars == <<graphVars, dbVars, pc, my, histVars>>

Link == [left : SUBSET Message, pos : Nat]
NoUrl == [left |-> {}, pos |-> -1]

Cursor ==
    [url : Link \cup {NoUrl}, complete : BOOLEAN, count : Nat, wide : BOOLEAN]

Page ==
    [messages : SUBSET Message, removed : SUBSET Message, next : Link,
     last : BOOLEAN,             \* it came with a deltaLink
     cut : SUBSET Message]       \* what the walk it began will not deliver

NoPage == [messages |-> {}, removed |-> {}, next |-> [left |-> {}, pos |-> 0],
           last |-> FALSE, cut |-> {}]

Run == [folder : Folder, remaining : 0 .. MaxResults, pages : 0 .. MaxPages,
        removals : 0 .. RemovalBudget, page : Page]

Idle == [folder |-> "inbox", remaining |-> MaxResults, pages |-> 0,
         removals |-> 0, page |-> NoPage]

Fresh(wide) == [url |-> NoUrl, complete |-> FALSE, count |-> 0, wide |-> wide]

TypeOK ==
    /\ where \in [Message -> {"none", "home", "elsewhere", "deleted"}]
    /\ log \in [Folder -> Seq(Message)]
    /\ stored \in SUBSET Message
    /\ cursor \in [Folder -> Cursor]
    /\ backfilled \in BOOLEAN
    /\ pc \in {"idle", "fetch", "apply", "dead"}
    /\ my \in Run
    /\ waived \in SUBSET Message /\ untold \in SUBSET Message
    /\ shrunk \in SUBSET Folder

Init ==
    /\ where = [m \in Message |-> IF m \in Old THEN "home" ELSE "none"]
    /\ log = [f \in Folder |-> <<>>]
    /\ stored = {}
    /\ cursor = [f \in Folder |-> Fresh(TRUE)]
    /\ backfilled = FALSE
    /\ pc = "idle" /\ my = Idle
    /\ waived = {} /\ untold = {} /\ shrunk = {}

-----------------------------------------------------------------------------
(* Graph's delta pages.                                                     *)
InFolder(f) == {m \in Of(f) : where[m] = "home"}

(* A baseline delivers what is in the folder and in the window, but no more *)
(* than the cap, and says nothing of the rest.                              *)
Window(f) == InFolder(f) \ (IF cursor[f].wide THEN {} ELSE Old)

Begun(f) ==
    IF Cardinality(Window(f)) <= Cap THEN {Window(f)}
    ELSE kSubset(Cap, Window(f))

(* The links a walk of the folder may go on from.                           *)
From(f) ==
    IF cursor[f].url # NoUrl THEN {cursor[f].url}
    ELSE {[left |-> S, pos |-> Len(log[f])] : S \in Begun(f)}

ChangesAt(f, i, j) == {log[f][k] : k \in i + 1 .. j}

(* A page of a baseline, or of the changes since the link.                  *)
PageOf(f, link, S) ==
    IF link.left # {}
    THEN [messages |-> {m \in S : where[m] = "home"},
          removed |-> {},
          next |-> [link EXCEPT !.left = @ \ S],
          last |-> link.left = S /\ link.pos = Len(log[f]),
          cut |-> IF cursor[f].url = NoUrl THEN InFolder(f) \ link.left ELSE {}]
    ELSE LET upto == Min({link.pos + PageSize, Len(log[f])})
             told == ChangesAt(f, link.pos, upto)
         IN  [messages |-> {m \in told : where[m] = "home"},
              removed |-> {m \in told : where[m] # "home"},
              next |-> [link EXCEPT !.pos = upto],
              last |-> upto = Len(log[f]),
              cut |-> IF cursor[f].url = NoUrl THEN InFolder(f) ELSE {}]

Chunks(link) ==
    IF link.left = {} THEN {{}}
    ELSE kSubset(Min({PageSize, Cardinality(link.left)}), link.left)

Pages(f) == UNION {{PageOf(f, link, S) : S \in Chunks(link)} : link \in From(f)}

-----------------------------------------------------------------------------
(* A run.                                                                   *)

Start ==
    /\ pc \in {"idle", "dead"}
    /\ pc' = "fetch"
    /\ UNCHANGED <<graphVars, dbVars, my, histVars>>

(* The next folder, or the end of the run.                                  *)
Leave(r) ==
    IF r.folder = "inbox" /\ r.remaining > 0 /\ r.pages < MaxPages
    THEN /\ pc' = "fetch"
         /\ my' = [r EXCEPT !.folder = "sentitems", !.removals = 0, !.page = NoPage]
    ELSE pc' = "idle" /\ my' = Idle

\* Mutant: the cursor is saved when its page has come.
FetchPageAndAdvance ==
    /\ pc = "fetch"
    /\ \E page \in Pages(my.folder) :
          /\ my' = [my EXCEPT !.page = page]
          /\ cursor' = [cursor EXCEPT ![my.folder].url = page.next]
    /\ pc' = "apply"
    /\ UNCHANGED <<graphVars, stored, backfilled, histVars>>

(* A page of the delta walk, or the first of a new baseline.                *)
FetchPage ==
    /\ pc = "fetch"
    /\ \E page \in Pages(my.folder) : my' = [my EXCEPT !.page = page]
    /\ pc' = "apply"
    /\ shrunk' = IF cursor[my.folder].url = NoUrl THEN shrunk \ {my.folder}
                 ELSE shrunk
    /\ UNCHANGED <<graphVars, dbVars, waived, untold>>

(* DeltaExpiredError: a new baseline.                                       *)
Expired ==
    /\ Forgetful
    /\ pc = "fetch"
    /\ cursor[my.folder].url # NoUrl
    /\ cursor' = [cursor EXCEPT ![my.folder] = Fresh(TRUE)]
    /\ Leave(my)
    /\ UNCHANGED <<graphVars, stored, backfilled, histVars>>

(* _locally_stored_removal_rows, before the page's own additions.           *)
Removals == my.page.removed \cap stored

\* Mutant: a full budget is too much.
OverBudgetByOne == Cardinality(Removals) >= RemovalBudget - my.removals

OverBudget == Cardinality(Removals) > RemovalBudget - my.removals

\* Mutant: the walk goes on behind the page.
DeferPast ==
    /\ pc = "apply"
    /\ OverBudget
    /\ cursor' = [cursor EXCEPT ![my.folder].url = my.page.next]
    /\ Leave(my)
    /\ UNCHANGED <<graphVars, stored, backfilled, histVars>>

(* The whole page is left to the next run.                                  *)
Defer ==
    /\ pc = "apply"
    /\ OverBudget
    /\ Leave(my)
    /\ UNCHANGED <<graphVars, dbVars, histVars>>

\* Mutant: Graph's word is taken for a deletion.
DeletedUnverified == Removals

(* Only a message that is nowhere any more (404) is deleted here.           *)
Deleted == {m \in Removals : where[m] = "deleted"}

(* The cap was hit in the wide window: half of it is tried next.            *)
Narrow(c, n) == ~c.complete /\ n >= Cap /\ c.wide

(* The cursor a page is committed with.                                     *)
Advanced(c, n) ==
    IF my.page.last
    THEN IF Narrow(c, n) THEN Fresh(FALSE)
         ELSE [c EXCEPT !.url = my.page.next, !.complete = TRUE, !.count = n]
    ELSE [c EXCEPT !.url = my.page.next, !.count = n]

(* Its additions; a message we have is written again.                       *)
Upserted == stored \cup my.page.messages

(* A walk begun anew says nothing of what is not in the folder any more.    *)
Missed(f) ==
    {m \in stored \cap Of(f) :
        where[m] # "home" /\ m \notin ChangesAt(f, my.page.next.pos, Len(log[f]))}

(* A page, with its removals and its cursor.                                *)
Apply ==
    LET f == my.folder
        c == cursor[f]
        n == IF c.complete THEN c.count ELSE c.count + Cardinality(my.page.messages)
        r == [my EXCEPT !.remaining = Max({0, @ - Cardinality(my.page.messages)}),
                        !.pages = @ + 1,
                        !.removals = @ + Cardinality(Removals),
                        !.page = NoPage]
    IN  /\ pc = "apply"
        /\ ~OverBudget
        /\ stored' = Upserted \ Deleted
        /\ cursor' = [cursor EXCEPT ![f] = Advanced(c, n)]
        /\ backfilled' = (backfilled \/ \A g \in Folder : cursor'[g].complete)
        /\ waived' = (waived \cup my.page.cut) \ stored'
        /\ IF my.page.last \/ r.remaining = 0 \/ r.pages = MaxPages
           THEN Leave(r)
           ELSE my' = r /\ pc' = "fetch"
        /\ untold' = untold \cup (IF c.url = NoUrl THEN Missed(f) ELSE {})
        /\ UNCHANGED <<graphVars, shrunk>>

(* The worker is killed, or Graph fails: the transaction is rolled back.    *)
Die ==
    /\ pc \notin {"idle", "dead"}
    /\ pc' = "dead" /\ my' = Idle
    /\ UNCHANGED <<graphVars, dbVars, histVars>>

-----------------------------------------------------------------------------
(* The mailbox.                                                             *)
Events == Len(log["inbox"]) + Len(log["sentitems"])

(* A message comes to its folder, leaves it, or is back.                    *)
Come(m, from) ==
    /\ Events < EventBound
    /\ where[m] = from
    /\ where' = [where EXCEPT ![m] = "home"]
    /\ log' = [log EXCEPT ![Home(m)] = Append(@, m)]
    /\ waived' = waived \ {m}
    /\ untold' = untold \ {m}
    /\ UNCHANGED <<dbVars, pc, my, shrunk>>

(* A baseline that has begun, and is not at its end.                        *)
Begins(f) ==
    /\ ~cursor[f].complete
    /\ cursor[f].url # NoUrl \/ (pc = "apply" /\ my.folder = f)

Go(m, to) ==
    /\ Events < EventBound
    /\ where[m] = "home"
    /\ where' = [where EXCEPT ![m] = to]
    /\ log' = [log EXCEPT ![Home(m)] = Append(@, m)]
    /\ shrunk' = shrunk \cup {f \in Folder : f = Home(m) /\ Begins(f)}
    /\ UNCHANGED <<dbVars, pc, my, waived, untold>>

(* What the pages to come will report.                                      *)
Reported(f) ==
    LET c == cursor[f]
        inHand == IF my.folder = f THEN my.page.messages ELSE {}
    IN  IF c.url = NoUrl THEN InFolder(f) \cup inHand
        ELSE c.url.left \cup ChangesAt(f, c.url.pos, Len(log[f]))

(* What is deleted elsewhere leaves no trace in the folder's walk, unless   *)
(* the walk has still to report that it went there.                         *)
DeleteElsewhere(m) ==
    /\ where[m] = "elsewhere"
    /\ where' = [where EXCEPT ![m] = "deleted"]
    /\ untold' = untold \cup ({m} \ Reported(Home(m)))
    /\ UNCHANGED <<log, dbVars, pc, my, waived, shrunk>>

-----------------------------------------------------------------------------
Step == FetchPage \/ Defer \/ Apply

Environment ==
    \E m \in Message :
        \/ \E from \in {"none", "elsewhere"} : Come(m, from)
        \/ \E to \in {"elsewhere", "deleted"} : Go(m, to)
        \/ DeleteElsewhere(m)

Next == Start \/ Step \/ Expired \/ Die \/ Environment

Spec == Init /\ [][Next]_vars

-----------------------------------------------------------------------------
(* Safety.                                                                  *)

(* Those a later page reports, and those the walks have given up.           *)
There == {m \in Message : where[m] = "home"}
Owed == (UNION {Reported(f) : f \in Folder}) \cup waived

(* The walk keeps the promise of every ingest, page after page, whatever    *)
(* dies, moves, expires or is cut off: what no later page reports is stored, *)
(* or was given up with the window or at the cap.                           *)
Mirror == INSTANCE MailboxMirror
          WITH Item <- Message, there <- There, mirror <- stored, owed <- Owed

MirrorsTheMailbox == Mirror!Spec

(* A message that is deleted in the mailbox and still here is going to be   *)
(* reported: no cursor passes a removal that was not applied.               *)
DeletionsAreReported ==
    \A m \in stored :
        where[m] = "deleted" =>
            m \in untold \cup Reported(Home(m)) \/ cursor[Home(m)].url = NoUrl

(* Only what is deleted in the mailbox is deleted here: not what was moved. *)
OnlyDeletedIsRemoved ==
    [][ \A m \in stored \ stored' : where[m] = "deleted" ]_vars

(* A baseline that is cut off in the wide window is never taken for         *)
(* complete, unless a message left while it was walked: then the walk       *)
(* delivers less than the cap, and its count cannot tell.                   *)
WideIsWhole ==
    \A f \in Folder \ shrunk :
        cursor[f].complete /\ cursor[f].wide => waived \cap InFolder(f) = {}

(* Why: what a cursor and the page in hand say of the folder.  As far as    *)
(* types go this is all that the argument needs.                            *)
IsCursor(c) ==
    c = [url |-> c.url, complete |-> c.complete, count |-> c.count,
         wide |-> c.wide]

IsRun(r) ==
    /\ r = [folder |-> r.folder, remaining |-> r.remaining, pages |-> r.pages,
            removals |-> r.removals, page |-> r.page]
    /\ r.folder \in Folder

Shape ==
    /\ where \in [Message -> {"none", "home", "elsewhere", "deleted"}]
    /\ log \in [Folder -> Seq(Message)]
    /\ \A f \in Folder : \A k \in 1 .. Len(log[f]) : log[f][k] \in Of(f)
    /\ stored \in SUBSET Message /\ waived \in SUBSET Message
    /\ cursor = [f \in Folder |-> cursor[f]]
    /\ \A f \in Folder : IsCursor(cursor[f])
    /\ IsRun(my)

(* A link is of its folder, and of the past.                                *)
LinkOf(f, link) ==
    link \in Link /\ link.left \subseteq Of(f) /\ link.pos <= Len(log[f])

CursorInv ==
    \A f \in Folder : cursor[f].url # NoUrl => LinkOf(f, cursor[f].url)

(* The page in hand reports what the cursor was to report, or leaves it to  *)
(* the link it came with, whatever has happened since it was fetched.       *)
PageInv ==
    LET f == my.folder
        page == my.page
    IN  IF pc = "apply"
        THEN /\ LinkOf(f, page.next)
             /\ page.messages \subseteq Of(f) /\ page.cut \subseteq Of(f)
             /\ page.messages \subseteq Reported(f)
             /\ InFolder(f) \cap Reported(f) \subseteq
                    page.messages \cup page.cut \cup page.next.left
                    \cup ChangesAt(f, page.next.pos, Len(log[f]))
        ELSE page = NoPage

IInv == Shape /\ CursorInv /\ PageInv /\ Mirror!NothingSkipped

(* What holds of the store and the cursors in every state, by its parts.    *)
Inv == TypeOK /\ DeletionsAreReported /\ WideIsWhole

(* Why: a run has pages left, and a baseline that is complete has a link.   *)
TypeInv ==
    /\ TypeOK
    /\ my.pages < MaxPages
    /\ \A f \in Folder : cursor[f].complete => cursor[f].url # NoUrl

(* Whoever is not in the folder any more went after the link: its going is  *)
(* in the log, and still to be told.                                        *)
Traced(f, S, link) ==
    \A m \in S :
        where[m] # "home" => m \in ChangesAt(f, link.pos, Len(log[f]))

RemovalInv ==
    LET page == my.page
        f == my.folder
    IN  /\ \A g \in Folder :
              cursor[g].url # NoUrl => Traced(g, cursor[g].url.left, cursor[g].url)
        /\ pc = "apply" =>
              /\ Traced(f, page.messages \cup page.next.left, page.next)
              /\ cursor[f].url # NoUrl =>
                    Reported(f) \subseteq
                      page.messages \cup page.removed \cup page.next.left
                        \cup ChangesAt(f, page.next.pos, Len(log[f]))

(* A wide baseline that lost no message will deliver at least the cap, and  *)
(* be narrowed, or all that it has given up and not taken back.             *)
Delivers(f, n, S, given) ==
    /\ S \subseteq InFolder(f)
    /\ n + Cardinality(S) >= Cap \/ given \cap InFolder(f) \subseteq S

Counts(f) == f \notin shrunk /\ cursor[f].wide /\ ~cursor[f].complete

BaselineInv ==
    /\ \A f \in Folder :
          Counts(f) /\ cursor[f].url # NoUrl =>
              Delivers(f, cursor[f].count, cursor[f].url.left, waived)
    /\ LET page == my.page
           f == my.folder
           link == cursor[f].url
       IN  pc = "apply" =>
             /\ page.last => page.next.left = {}
             /\ link # NoUrl =>
                   page.cut = {} /\ page.next.left \subseteq link.left
             /\ Counts(f) =>
                   IF link # NoUrl
                   THEN link.left \subseteq page.messages \cup page.next.left
                   ELSE /\ page.cut \subseteq InFolder(f)
                        /\ Delivers(f, 0, page.messages \cup page.next.left,
                                    waived \cup page.cut)

StoreInv ==
    IInv /\ TypeInv /\ RemovalInv /\ DeletionsAreReported
         /\ BaselineInv /\ WideIsWhole

-----------------------------------------------------------------------------
(* Liveness.  The scheduler starts a pull at every tick that finds the      *)
(* account's slot free.                                                     *)
FairSpec == Spec /\ WF_vars(Start) /\ WF_vars(Step)

Quiet == <>[][~Die /\ ~Expired]_vars /\ <>[][UNCHANGED graphVars]_vars

Settled(f) ==
    /\ cursor[f].complete
    /\ cursor[f].url = [left |-> {}, pos |-> Len(log[f])]

(* Both folders' walks catch up with the mailbox: the budgets of a run only *)
(* put work off, and the inbox does not starve the sent items.              *)
CatchesUp == Quiet => <>[](\A f \in Folder : Settled(f))
=============================================================================
