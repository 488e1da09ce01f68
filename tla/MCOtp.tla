-------------------------------- MODULE MCOtp --------------------------------
(* Instances of Otp for TLC. *)
EXTENDS Otp, TLC

CONSTANTS r1, r2

\* The handlers in flight are interchangeable.
Symmetry == Permutations(Requests)

=============================================================================
