---------------------------- MODULE ReplyLedger ----------------------------
(****************************************************************************)
(* What a thread promises of the replies sent from it, without handlers,    *)
(* workers, drafts and leases: a ledger of attempts in which one at most is *)
(* open, each is decided once, mail leaves only for an undecided attempt    *)
(* that nobody was told is unsent, and whoever opens the next one has seen  *)
(* what became of those before it.                                          *)
(****************************************************************************)
EXTENDS Integers

CONSTANTS Attempt   \* the replies the user may ask for

VARIABLES
    verdict,   \* Attempt -> what the ledger says of it
    date,      \* Attempt -> when it was opened, 0 before
    mailed,    \* Attempt -> the provider sent its mail
    fence,     \* the date up to which the user is shown the thread answered
    saw,       \* Attempt -> the fence its user was shown
    told       \* Attempt -> what its user was told

vars == <<verdict, date, mailed, fence, saw, told>>

Verdict == {"absent", "open", "waived", "unsent", "sent"}
Told == {"nothing", "unsent", "unknown", "sent"}

TypeOK ==
    /\ verdict \in [Attempt -> Verdict]
    /\ date \in [Attempt -> Nat]
    /\ mailed \in [Attempt -> BOOLEAN]
    /\ fence \in Nat
    /\ saw \in [Attempt -> Nat]
    /\ told \in [Attempt -> Told]

Init ==
    /\ verdict = [a \in Attempt |-> "absent"]
    /\ date = [a \in Attempt |-> 0]
    /\ mailed = [a \in Attempt |-> FALSE]
    /\ fence = 0
    /\ saw = [a \in Attempt |-> 0]
    /\ told = [a \in Attempt |-> "nothing"]

Open == {a \in Attempt : verdict[a] = "open"}
Undecided(a) == verdict[a] \in {"open", "waived"}

(* The user waives open attempts, whatever becomes of them; others expire,  *)
(* with no mail sent.                                                       *)
Release(W, E) ==
    [a \in Attempt |-> IF a \in W THEN "waived"
                       ELSE IF a \in E THEN "unsent" ELSE verdict[a]]

Expirable(E) == \A a \in E : ~mailed[a]

(* An attempt is opened when no other is open any more, by a user who was   *)
(* shown the fence as it is.                                                *)
Ask(a) ==
    /\ verdict[a] = "absent" /\ told[a] = "nothing"
    /\ \E W \in SUBSET Open :
          /\ Expirable(Open \ W)
          /\ verdict' = [Release(W, Open \ W) EXCEPT ![a] = "open"]
    /\ date' = [date EXCEPT ![a] = date'[a]]
    /\ date'[a] \in Nat /\ \A b \in Attempt : date[b] < date'[a]
    /\ saw' = [saw EXCEPT ![a] = fence]
    /\ UNCHANGED <<mailed, fence, told>>

(* It is turned away instead; what was released stays so.                   *)
TurnAway(a) ==
    /\ verdict[a] = "absent" /\ told[a] = "nothing"
    /\ \E W \in SUBSET Open, E \in SUBSET Open :
          Expirable(E) /\ verdict' = Release(W, E)
    /\ told' = [told EXCEPT ![a] = "unsent"]
    /\ UNCHANGED <<date, mailed, fence, saw>>

(* The provider sends the mail.                                             *)
Mail(a) ==
    /\ Undecided(a) /\ ~mailed[a] /\ told[a] # "unsent"
    /\ mailed' = [mailed EXCEPT ![a] = TRUE]
    /\ UNCHANGED <<verdict, date, fence, saw, told>>

(* What is decided: that no mail was sent, or that it was, and then the     *)
(* thread is shown answered up to that attempt at least.                    *)
DecideUnsent(a) ==
    /\ Undecided(a) /\ ~mailed[a]
    /\ verdict' = [verdict EXCEPT ![a] = "unsent"]
    /\ UNCHANGED fence

DecideSent(a) ==
    /\ Undecided(a) /\ mailed[a]
    /\ verdict' = [verdict EXCEPT ![a] = "sent"]
    /\ fence' = IF date[a] > fence THEN date[a] ELSE fence

(* The user is told, once: unsent only if no mail was or will be sent, sent *)
(* only if the ledger says so.                                              *)
Tell(a) ==
    /\ told[a] = "nothing"
    /\ \/ told' = [told EXCEPT ![a] = "unknown"]
       \/ told' = [told EXCEPT ![a] = "unsent"] /\ ~mailed[a]
       \/ told' = [told EXCEPT ![a] = "sent"] /\ verdict'[a] = "sent"

Settle(a) ==
    /\ DecideUnsent(a) \/ DecideSent(a) \/ UNCHANGED <<verdict, fence>>
    /\ Tell(a) \/ UNCHANGED told
    /\ UNCHANGED <<date, mailed, saw>>

Next == \E a \in Attempt : Ask(a) \/ TurnAway(a) \/ Mail(a) \/ Settle(a)

Spec == Init /\ [][Next]_vars

-----------------------------------------------------------------------------
(* What the ledger is good for.  One attempt at most is open; what was      *)
(* decided or told is true; mail belongs to an attempt that was asked for.  *)
Truthful ==
    /\ \A a, b \in Open : a = b
    /\ \A a \in Attempt :
          /\ verdict[a] \in {"absent", "unsent"} \/ told[a] = "unsent" => ~mailed[a]
          /\ verdict[a] = "sent" => mailed[a] /\ date[a] <= fence
          /\ told[a] = "sent" => verdict[a] = "sent"

(* What was decided or told is not taken back, and neither is the fence.    *)
Final ==
    /\ fence <= fence'
    /\ \A a \in Attempt :
          /\ verdict[a] \in {"unsent", "sent"} => verdict'[a] = verdict[a]
          /\ told[a] # "nothing" => told'[a] = told[a]
=============================================================================
