------------------------------ MODULE MCCycles ------------------------------
(* Instances of Cycles for TLC. *)
EXTENDS Cycles, TLC

CONSTANTS m1, m2, m3, m4, m5

OneOrTwo == {<<m1, m2>>, <<m2>>}

Methods == {[method |-> "manual", recipients |-> 2, autoOpen |-> TRUE],
            [method |-> "random", recipients |-> 1, autoOpen |-> FALSE]}

\* The handlers in flight are interchangeable.
Symmetry == Permutations(Requests)

\* Queues of every length up to five.
Samples == {<<m1>>, <<m1, m2>>, <<m1, m2, m3>>, <<m1, m2, m3, m4>>, <<m1, m2, m3, m4, m5>>}

=============================================================================
