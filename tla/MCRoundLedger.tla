---------------------------- MODULE MCRoundLedger ----------------------------
(* Instances of RoundLedger for TLC. *)
EXTENDS Reports, TLC

\* Two recipients, in queue order.
Queue == {[method |-> "queue", recipients |-> 2]}

\* Recipients redrawn, assigned by hand, or none; a random round may keep the
\* recipients it was opened with, as a queue does.
AllMethods == {[method |-> "random", recipients |-> 1], [method |-> "manual", recipients |-> 1],
               [method |-> "queue", recipients |-> 0]}

\* The cycle has been started.
StartedInit == Init /\ cycle = "in_progress"

StartedSpec == StartedInit /\ [][Next]_vars

\* The handlers in flight are interchangeable.
Symmetry == Permutations(Requests)

=============================================================================
