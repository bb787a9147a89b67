----------------------------- MODULE PostOnce ------------------------------
(***************************************************************************)
(* What a digest workflow promises of a day or slot: its message is        *)
(* written at most once, however often the run is started, fails or is     *)
(* stopped, unless Slack wrote a message whose answer was an error.        *)
(* NewsDigest and InboxDigest implement it.                                *)
(***************************************************************************)
EXTENDS Naturals

CONSTANT Slots

VARIABLES
    mark,  \* the slot's row: "free", "reserved", "posted"
    sent   \* how many messages of the slot Slack wrote without an error

vars == <<mark, sent>>

Init ==
    /\ mark = [s \in Slots |-> "free"]
    /\ sent = [s \in Slots |-> 0]

(* The row is there before the message.                                    *)
Reserve(s) ==
    /\ mark[s] = "free" /\ sent[s] = 0
    /\ mark' = [mark EXCEPT ![s] = "reserved"]
    /\ UNCHANGED sent

Post(s) ==
    /\ mark[s] = "reserved" /\ sent[s] = 0
    /\ sent' = [sent EXCEPT ![s] = 1]
    /\ UNCHANGED mark

(* A slot is given back only while it has no message.                      *)
Release(s) ==
    /\ mark[s] = "reserved" /\ sent[s] = 0
    /\ mark' = [mark EXCEPT ![s] = "free"]
    /\ UNCHANGED sent

Complete(s) ==
    /\ mark[s] = "reserved" /\ sent[s] = 1
    /\ mark' = [mark EXCEPT ![s] = "posted"]
    /\ UNCHANGED sent

Next == \E s \in Slots : Reserve(s) \/ Post(s) \/ Release(s) \/ Complete(s)

Spec == Init /\ [][Next]_vars
=============================================================================
