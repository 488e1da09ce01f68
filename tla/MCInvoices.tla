------------------------------ MODULE MCInvoices ------------------------------
(***************************************************************************)
(* Instances of Invoices and ContributionProofs for TLC.  The two keep     *)
(* their files in one storage and share nothing else, so that nothing is   *)
(* lost by looking at one at a time.                                       *)
(***************************************************************************)
EXTENDS Invoices, ContributionProofs, TLC

CONSTANTS i1, i2, p1, p2, c1, r1, r2, a1, a2

MCInit == Init /\ ProofInit

AnyInvoice == created # << >> \/ users # {} \/ \E r \in Requests : pc[r] # "idle"

Invoicing == Next /\ stored = {} /\ ~ recorded /\ UNCHANGED proofVars

Proving == ProofNext /\ ~ AnyInvoice /\ UNCHANGED vars

MCNext == Invoicing \/ Proving

MCSpec == MCInit /\ [][MCNext]_<<vars, proofVars>> /\ \A r \in Requests : WF_vars(Resume(r))

=============================================================================
