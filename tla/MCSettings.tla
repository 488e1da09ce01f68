------------------------------ MODULE MCSettings ------------------------------
(***************************************************************************)
(* Instances of PaymentSettings, Seed and GroupLink for TLC.  A database   *)
(* is filled, or not, before the server runs on it.  Payments and links    *)
(* share no row, so that nothing is lost by looking at one at a time.      *)
(***************************************************************************)
EXTENDS Seed, GroupLink, TLC

CONSTANTS r1, r2, g1, g2, i1, k1, k2

Init == PaymentInit /\ SeedInit /\ LinkInit

vars == <<paymentVars, seedVars, linkVars>>

Unlinked == sent = 0 /\ guesses = 0 /\ \A q \in Owners : linkPc[q] = "idle"

Seeding == SeedNext /\ saves = 0 /\ Unlinked /\ UNCHANGED linkVars

Ready == at = 0 /\ data \in {[n \in Names |-> "none"], [n \in Names |-> "demo"]} /\ ~ torn

Paying == PaymentNext /\ Ready /\ Unlinked /\ UNCHANGED <<seedVars, linkVars>>

\* Links have nothing to do with the demo data.
Linking == LinkNext /\ runs = 0 /\ saves = 0 /\ UNCHANGED <<seedVars, paymentVars>>

Next == Seeding \/ Paying \/ Linking

Spec == Init /\ [][Next]_vars

\* Handlers in flight are interchangeable, and so are chats, and groups.
Symmetry == Permutations({r1, r2}) \cup Permutations({g1, g2}) \cup Permutations({k1, k2})

=============================================================================
