------------------------------ MODULE MCMembers ------------------------------
(* Instances of Members for TLC. *)
EXTENDS Members, TLC

CONSTANTS u1, u2, u3, r1, r2

\* The handlers in flight are interchangeable, and the members but the founder.
Symmetry == Permutations(Requests) \cup Permutations(Users \ {Founder})

=============================================================================
