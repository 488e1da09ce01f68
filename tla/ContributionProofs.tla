-------------------------- MODULE ContributionProofs --------------------------
(***************************************************************************)
(* The file that proves a contribution: its row keeps the key of a file in *)
(* the storage of another service (uploadContributionProof and             *)
(* rejectContribution of contributions.service.ts, lib/cloudinary.ts).     *)
(* Neither is written in a transaction with the other.                     *)
(*                                                                         *)
(* There is one row, of a member and a round; the row itself, its status   *)
(* and its amount are in RoundLedger.  A request q in Callers has passed   *)
(* the check of its role: proofPc[q] names the call it makes next,         *)
(* proofLoc[q] the file it has stored or read.                             *)
(***************************************************************************)
EXTENDS Naturals, FiniteSets

CONSTANTS
    Assets,      \* public ids, as many as there may ever be
    NoAsset,
    Callers      \* requests in flight

ASSUME ProofAssumption == NoAsset \notin Assets

VARIABLES
    recorded,    \* the row exists
    proofKey,    \* the file it names
    stored,      \* the files the service has
    named,       \* auxiliary: files that the row has named
    proofPc, proofLoc,
    abandoned    \* auxiliary: files destroyed by a request that then left the
                 \* row naming it, because a call failed

proofHandlers == <<proofPc, proofLoc>>
proofVars == <<recorded, proofKey, stored, named, proofHandlers, abandoned>>

ProofSteps == {"idle", "find", "update", "insert", "notify", "clean up", "destroy", "clear"}

ProofTypeOK ==
    /\ recorded \in BOOLEAN
    /\ proofKey \in Assets \cup {NoAsset}
    /\ stored \in SUBSET Assets
    /\ named \in SUBSET Assets
    /\ proofPc \in [Callers -> ProofSteps]
    /\ proofLoc \in [Callers -> Assets \cup {NoAsset}]
    /\ abandoned \in SUBSET Assets

ProofInit ==
    /\ recorded = FALSE /\ proofKey = NoAsset
    /\ stored = {} /\ named = {}
    /\ proofPc = [q \in Callers |-> "idle"] /\ proofLoc = [q \in Callers |-> NoAsset]
    /\ abandoned = {}

ProofGoto(q, step, a) ==
    /\ proofPc' = [proofPc EXCEPT ![q] = step]
    /\ proofLoc' = [proofLoc EXCEPT ![q] = a]

ProofFinish(q) == ProofGoto(q, "idle", NoAsset)

\* A public id nobody has or had.
FreshAsset(a) == a \notin stored \cup named /\ \A q \in Callers : proofLoc[q] # a

-----------------------------------------------------------------------------
(* uploadContributionProof.                                                  *)

\* The requester and the round are right.
StoreFile(q, a) ==
    /\ proofPc[q] = "idle" /\ FreshAsset(a)
    /\ stored' = stored \cup {a}
    /\ ProofGoto(q, "find", a)
    /\ UNCHANGED <<recorded, proofKey, named, abandoned>>

\* Slip: the file the row names is replaced in the storage before it is in the row.
FindRowAndReplace(q) ==
    /\ proofPc[q] = "find"
    /\ ProofGoto(q, IF recorded THEN "update" ELSE "insert", proofLoc[q])
    /\ stored' = stored \ {proofKey}
    /\ UNCHANGED <<recorded, proofKey, named, abandoned>>

FindRow(q) ==
    /\ proofPc[q] = "find"
    /\ ProofGoto(q, IF recorded THEN "update" ELSE "insert", proofLoc[q])
    /\ UNCHANGED <<recorded, proofKey, stored, named, abandoned>>

NameFile(q) ==
    /\ proofKey' = proofLoc[q]
    /\ named' = named \cup {proofLoc[q]}
    /\ ProofGoto(q, "notify", proofLoc[q])
    /\ UNCHANGED <<stored, abandoned>>

\* Another file the row named stays in the storage.
ReplaceProof(q) == proofPc[q] = "update" /\ NameFile(q) /\ UNCHANGED recorded

CreateWithProof(q) ==
    /\ proofPc[q] = "insert" /\ ~ recorded
    /\ recorded' = TRUE
    /\ NameFile(q)

\* The row has been created by another request, or a call of the database
\* fails: a read of the amount, the write, or, after it, those for the message
\* to the group.
UploadThrows(q) ==
    /\ proofPc[q] \in {"find", "update", "insert", "notify"}
    /\ ProofGoto(q, "clean up", proofLoc[q])
    /\ UNCHANGED <<recorded, proofKey, stored, named, abandoned>>

Notified(q) ==
    /\ proofPc[q] = "notify"
    /\ ProofFinish(q)
    /\ UNCHANGED <<recorded, proofKey, stored, named, abandoned>>

\* destroyAsset does not throw when the service refuses or cannot be reached.
Destroyed(a) == stored' \in {stored \ {a}, stored}

\* Whether or not the row has come to name the file.
CleanUp(q) ==
    /\ proofPc[q] = "clean up"
    /\ Destroyed(proofLoc[q])
    /\ abandoned' = abandoned \cup (named \cap {proofLoc[q]})
    /\ ProofFinish(q)
    /\ UNCHANGED <<recorded, proofKey, named>>

-----------------------------------------------------------------------------
(* rejectContribution: the status of the row does not matter.                *)

ReadProof(q) ==
    /\ proofPc[q] = "idle" /\ recorded
    /\ ProofGoto(q, IF proofKey = NoAsset THEN "clear" ELSE "destroy", proofKey)
    /\ UNCHANGED <<recorded, proofKey, stored, named, abandoned>>

DestroyProof(q) ==
    /\ proofPc[q] = "destroy"
    /\ Destroyed(proofLoc[q])
    /\ ProofGoto(q, "clear", proofLoc[q])
    /\ UNCHANGED <<recorded, proofKey, named, abandoned>>

\* By id: whatever file the row names by now.
ClearProof(q) ==
    /\ proofPc[q] = "clear"
    /\ proofKey' = NoAsset
    /\ ProofFinish(q)
    /\ UNCHANGED <<recorded, stored, named, abandoned>>

-----------------------------------------------------------------------------
\* recordContribution or waiveContribution create the row without a file.
RecordWithoutProof ==
    /\ ~ recorded
    /\ recorded' = TRUE
    /\ UNCHANGED <<proofKey, stored, named, proofHandlers, abandoned>>

\* The process stops, or a call of a rejection throws.
ProofRequestDies(q) ==
    /\ proofPc[q] # "idle"
    /\ abandoned' = IF proofPc[q] = "clear" THEN abandoned \cup ({proofLoc[q]} \ {NoAsset})
                    ELSE abandoned
    /\ ProofFinish(q)
    /\ UNCHANGED <<recorded, proofKey, stored, named>>

ProofNext ==
    \/ \E q \in Callers :
        \/ \E a \in Assets : StoreFile(q, a)
        \/ FindRow(q) \/ ReplaceProof(q) \/ CreateWithProof(q)
        \/ UploadThrows(q) \/ Notified(q) \/ CleanUp(q)
        \/ ReadProof(q) \/ DestroyProof(q) \/ ClearProof(q)
        \/ ProofRequestDies(q)
    \/ RecordWithoutProof

ProofSpec == ProofInit /\ [][ProofNext]_proofVars

-----------------------------------------------------------------------------
\* However uploads and rejections of a contribution cross, the file its row
\* names is there: nothing destroys a file that a later step puts into the row,
\* and whoever destroys the one in the row is about to clear it.  Except after
\* a rejection that died before it did, or an upload whose last reads failed:
\* its catch block takes the file for an orphan.
ProofIsStored ==
    proofKey \in stored \cup abandoned \cup {NoAsset}
        \/ \E q \in Callers : proofPc[q] = "clear" /\ proofLoc[q] = proofKey

=============================================================================
