---------------------------- MODULE CycleContract ----------------------------
(***************************************************************************)
(* What cycles.md promises of the cycles of one group: they are opened one *)
(* after the other, each goes from open to in_progress to completed (or is *)
(* completed at once), and the next is opened when the last is completed.  *)
(***************************************************************************)
EXTENDS Integers

CONSTANT Numbers     \* cycle numbers, from 1

VARIABLE status

Active == {c \in Numbers : status[c] \in {"open", "in_progress"}}

Init == status = [c \in Numbers |-> "none"]

Open(c) ==
    /\ status[c] = "none"
    /\ \A b \in Numbers : b < c => status[b] = "completed"
    /\ status' = [status EXCEPT ![c] = "open"]

Start(c) ==
    /\ status[c] = "open"
    /\ status' = [status EXCEPT ![c] = "in_progress"]

Complete(c) ==
    /\ c \in Active
    /\ status' = [status EXCEPT ![c] = "completed"]

Next == \E c \in Numbers : Open(c) \/ Start(c) \/ Complete(c)

Spec == Init /\ [][Next]_status

=============================================================================
