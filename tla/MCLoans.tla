------------------------------- MODULE MCLoans -------------------------------
(* Instances of Loans for TLC. *)
EXTENDS Loans, TLC

\* The handlers in flight are interchangeable.  The loan rows are not: NoLocals
\* singles one out.
Symmetry == Permutations(Requests)

=============================================================================
