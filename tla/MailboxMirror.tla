---------------------------- MODULE MailboxMirror ----------------------------
(****************************************************************************)
(* What every ingest of the program promises of the copy it keeps of a      *)
(* mailbox, whatever the provider's protocol: a message that is there has   *)
(* been copied, or is still owed by the walks to come.                      *)
(****************************************************************************)
CONSTANTS Item   \* the messages a mailbox may get

VARIABLES
    there,    \* the messages in the mailbox
    mirror,   \* the messages in our tables
    owed      \* the messages a walk still has to report, come or gone

vars == <<there, mirror, owed>>

TypeOK == there \in SUBSET Item /\ mirror \in SUBSET Item /\ owed \in SUBSET Item

Init == there \in SUBSET Item /\ mirror = {} /\ owed = there

(* Mail comes, or is back: the next walk reports it, and more with it.      *)
Receive(i) ==
    /\ i \notin there
    /\ there' = there \cup {i}
    /\ owed \cup {i} \subseteq owed' /\ owed' \subseteq owed \cup there'
    /\ UNCHANGED mirror

(* Mail is deleted: a provider may or may not report it.                    *)
Withdraw(S) ==
    /\ S # {} /\ S \subseteq there
    /\ there' = there \ S
    /\ owed \ S \subseteq owed' /\ owed' \subseteq owed \cup S
    /\ UNCHANGED mirror

(* A transaction of a walk.  It takes messages off the debt only if the     *)
(* copy is right about them, forgets nothing that is there, and brings      *)
(* nothing back that is gone and was reported.                              *)
Sync ==
    /\ mirror' \in SUBSET Item /\ owed' \in SUBSET Item
    /\ there \ owed' \subseteq mirror'
    /\ mirror \cap there \subseteq mirror'
    /\ mirror' \ mirror \subseteq there \cup owed \cup owed'
    /\ UNCHANGED there

Next ==
    \/ \E i \in Item : Receive(i)
    \/ \E S \in SUBSET Item : Withdraw(S)
    \/ Sync

Spec == Init /\ [][Next]_vars

(* Nothing is skipped.                                                      *)
NothingSkipped == there \subseteq mirror \cup owed
=============================================================================
