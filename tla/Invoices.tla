------------------------------ MODULE Invoices ------------------------------
(***************************************************************************)
(* From an invoice to a group: invoices and their numbers, proofs of       *)
(* payment and their files, cash payments, the token that lets a customer  *)
(* create the group, and the group (invoices.service.ts,                   *)
(* payment-proofs.service.ts, createGroupFromToken of groups.service.ts).  *)
(*                                                                         *)
(* A request r in Requests is a handler in flight: pc[r] names the call it *)
(* makes next, loc[r] what it has read.  Transactions run at the isolation *)
(* of the database's default, read committed: their writes appear at once, *)
(* but what they read first may have changed by then, so the reads are     *)
(* steps of their own.  Reads that only decide whether to go on are one    *)
(* step.  A row not yet created has the status none; invoices and proofs   *)
(* are never deleted.  Of two invoices, the one created later has the      *)
(* later creation time: there is one clock, and it does not go back.       *)
(***************************************************************************)
EXTENDS Integers, FiniteSets, Sequences

CONSTANTS
    InvoiceIds, ProofIds,     \* ids of rows, as many as there may ever be
    Customers,                \* phone numbers
    Requests,
    MaxRetries                \* MAX_INVOICE_NUMBER_RETRIES

ASSUME ConstantsAssumption ==
    /\ InvoiceIds # {} /\ ProofIds # {} /\ Customers # {}
    /\ MaxRetries \in Nat \ {0}

VARIABLES
    invoice,     \* the invoice rows
    created,     \* their ids, by createdAt
    proof,       \* the payment_proofs rows
    files,       \* ids of the proofs, or proofs to be, whose file is stored
    token,       \* the group-creation token of each invoice
    users,       \* customers with an account
    groups,      \* invoices that have a group
    pc, loc,     \* the requests in flight
    overlapped,  \* auxiliary: two requests have been in flight at a time
    failed       \* auxiliary: a request has died, or a file was not destroyed

rows == <<invoice, created, proof>>
access == <<token, users, groups>>
history == <<overlapped, failed>>
vars == <<rows, files, access, pc, loc, history>>

\* cancelled is in the schema and never written.
InvoiceStatus == {"none", "pending", "paid"}
PaymentProofStatus == {"none", "pending", "approved", "rejected"}

Invoice == [status : InvoiceStatus, number : Nat, phone : Customers]
PaymentProof == [status : PaymentProofStatus, invoice : InvoiceIds]

Steps == {"idle", "create", "retry", "file", "proof", "destroy", "cash", "approve",
          "token", "reject", "user", "newuser", "group"}

Locals == [id : InvoiceIds, proof : ProofIds, phone : Customers,
           number : Nat, attempt : 1 .. MaxRetries]

TypeOK ==
    /\ invoice \in [InvoiceIds -> Invoice]
    /\ created \in Seq(InvoiceIds)
    /\ proof \in [ProofIds -> PaymentProof]
    /\ files \subseteq ProofIds
    /\ token \in [InvoiceIds -> {"none", "valid", "expired"}]
    /\ users \subseteq Customers
    /\ groups \subseteq InvoiceIds
    /\ pc \in [Requests -> Steps]
    /\ loc \in [Requests -> Locals]
    /\ overlapped \in BOOLEAN
    /\ failed \in BOOLEAN

NoInvoice == [status |-> "none", number |-> 0, phone |-> CHOOSE c \in Customers : TRUE]

NoProof == [status |-> "none", invoice |-> CHOOSE i \in InvoiceIds : TRUE]

NoLocals == [id |-> NoProof.invoice, proof |-> CHOOSE p \in ProofIds : TRUE,
             phone |-> NoInvoice.phone, number |-> 0, attempt |-> 1]

Init ==
    /\ invoice = [i \in InvoiceIds |-> NoInvoice]
    /\ created = << >>
    /\ proof = [p \in ProofIds |-> NoProof]
    /\ files = {}
    /\ token = [i \in InvoiceIds |-> "none"]
    /\ users = {}
    /\ groups = {}
    /\ pc = [r \in Requests |-> "idle"]
    /\ loc = [r \in Requests |-> NoLocals]
    /\ overlapped = FALSE
    /\ failed = FALSE

-----------------------------------------------------------------------------
Goto(r, step, l) ==
    /\ pc' = [pc EXCEPT ![r] = step]
    /\ loc' = [loc EXCEPT ![r] = l]

Finish(r) == Goto(r, "idle", NoLocals)

Begin(r, step, l) ==
    /\ pc[r] = "idle"
    /\ Goto(r, step, l)
    /\ overlapped' = (overlapped \/ \E q \in Requests \ {r} : pc[q] # "idle")
    /\ UNCHANGED <<rows, files, access, failed>>

\* A uuid no row and no stored file has.
Fresh(p) == proof[p].status = "none" /\ p \notin files

-----------------------------------------------------------------------------
(* createInvoiceWithSequentialNumber: a transaction reads the number of the *)
(* newest invoice and inserts the next; numbers are unique, and a request   *)
(* that lost its number to another one starts again.                        *)

NextInvoiceNumber == IF created = << >> THEN 1 ELSE invoice[created[Len(created)]].number + 1

CreateRead(r, c) ==
    Begin(r, "create", [NoLocals EXCEPT !.phone = c, !.number = NextInvoiceNumber])

NumberTaken(n) == \E i \in InvoiceIds : invoice[i].status # "none" /\ invoice[i].number = n

CreateWrite(r) ==
    /\ pc[r] = "create"
    /\ ~ NumberTaken(loc[r].number)
    /\ \E i \in InvoiceIds :
        /\ invoice[i].status = "none"
        /\ invoice' = [invoice EXCEPT ![i] = [status |-> "pending",
                                              number |-> loc[r].number,
                                              phone |-> loc[r].phone]]
        /\ created' = Append(created, i)
    /\ Finish(r)
    /\ UNCHANGED <<proof, files, access, history>>

CreateConflict(r) ==
    /\ pc[r] = "create"
    /\ NumberTaken(loc[r].number)
    /\ IF loc[r].attempt < MaxRetries
       THEN Goto(r, "retry", [loc[r] EXCEPT !.attempt = @ + 1])
       ELSE Finish(r)
    /\ UNCHANGED <<rows, files, access, history>>

CreateRetry(r) ==
    /\ pc[r] = "retry"
    /\ Goto(r, "create", [loc[r] EXCEPT !.number = NextInvoiceNumber])
    /\ UNCHANGED <<rows, files, access, history>>

-----------------------------------------------------------------------------
(* uploadPop: the invoice is looked at, the file is stored, the proof is    *)
(* created, and the file destroyed if it could not be.                      *)

UploadRead(r, i) ==
    /\ invoice[i].status = "pending"
    /\ Begin(r, "file", [NoLocals EXCEPT !.id = i])

UploadFile(r) ==
    /\ pc[r] = "file"
    /\ \E p \in ProofIds :
        /\ Fresh(p)
        /\ files' = files \union {p}
        /\ Goto(r, "proof", [loc[r] EXCEPT !.proof = p])
    /\ UNCHANGED <<rows, access, history>>

UploadCreate(r) ==
    /\ pc[r] = "proof"
    /\ proof' = [proof EXCEPT ![loc[r].proof] = [status |-> "pending", invoice |-> loc[r].id]]
    /\ Finish(r)
    /\ UNCHANGED <<invoice, created, files, access, history>>

\* Slip: the file stays when the proof cannot be created.
UploadCreateThrows(r) ==
    /\ pc[r] = "proof"
    /\ Finish(r)
    /\ UNCHANGED <<rows, files, access, history>>

UploadCreateFails(r) ==
    /\ pc[r] = "proof"
    /\ Goto(r, "destroy", loc[r])
    /\ UNCHANGED <<rows, files, access, history>>

\* destroyAsset never throws; it may fail.
UploadDestroy(r) ==
    /\ pc[r] = "destroy"
    /\ \/ files' = files \ {loc[r].proof} /\ failed' = failed
       \/ files' = files /\ failed' = TRUE
    /\ Finish(r)
    /\ UNCHANGED <<rows, access, overlapped>>

-----------------------------------------------------------------------------
(* approvePop and recordCashPayment mark the invoice paid, and sign a token *)
(* after their transaction.  rejectPop leaves the invoice alone.            *)

Pay(i) == invoice' = [invoice EXCEPT ![i].status = "paid"]

Reviewable(p) == proof[p].status = "pending"

\* Slip: the invoice of the proof is not looked at.
ApprovableProof(p) == Reviewable(p)

Approvable(p) == Reviewable(p) /\ invoice[proof[p].invoice].status = "pending"

ApproveRead(r, p) ==
    /\ Approvable(p)
    /\ Begin(r, "approve", [NoLocals EXCEPT !.id = proof[p].invoice, !.proof = p])

\* Slip: no token is signed.
ApproveWriteLast(r) ==
    /\ pc[r] = "approve"
    /\ proof' = [proof EXCEPT ![loc[r].proof].status = "approved"]
    /\ Pay(loc[r].id)
    /\ Finish(r)
    /\ UNCHANGED <<created, files, access, history>>

ApproveWrite(r) ==
    /\ pc[r] = "approve"
    /\ proof' = [proof EXCEPT ![loc[r].proof].status = "approved"]
    /\ Pay(loc[r].id)
    /\ Goto(r, "token", loc[r])
    /\ UNCHANGED <<created, files, access, history>>

CashRead(r, i) ==
    /\ invoice[i].status = "pending"
    /\ Begin(r, "cash", [NoLocals EXCEPT !.id = i])

\* The pending proofs of the invoice are rejected, and an approved one created.
CashWrite(r) ==
    LET i == loc[r].id IN
    /\ pc[r] = "cash"
    /\ \E p \in ProofIds :
        /\ Fresh(p)
        /\ proof' = [q \in ProofIds |->
                       IF q = p THEN [status |-> "approved", invoice |-> i]
                       ELSE IF proof[q].status = "pending" /\ proof[q].invoice = i
                            THEN [proof[q] EXCEPT !.status = "rejected"]
                            ELSE proof[q]]
    /\ Pay(i)
    /\ Goto(r, "token", loc[r])
    /\ UNCHANGED <<created, files, access, history>>

SignToken(r) ==
    /\ pc[r] = "token"
    /\ token' = [token EXCEPT ![loc[r].id] = "valid"]
    /\ Finish(r)
    /\ UNCHANGED <<rows, files, users, groups, history>>

\* Slip: a reviewed proof can be rejected.
RejectReadAny(r, p) ==
    /\ proof[p].status # "none"
    /\ Begin(r, "reject", [NoLocals EXCEPT !.id = proof[p].invoice, !.proof = p])

RejectRead(r, p) ==
    /\ Reviewable(p)
    /\ Begin(r, "reject", [NoLocals EXCEPT !.id = proof[p].invoice, !.proof = p])

RejectWrite(r) ==
    /\ pc[r] = "reject"
    /\ proof' = [proof EXCEPT ![loc[r].proof].status = "rejected"]
    /\ Finish(r)
    /\ UNCHANGED <<invoice, created, files, access, history>>

-----------------------------------------------------------------------------
(* createGroupFromToken: the customer gets an account, then the group is    *)
(* created with its settings and its owner.  Phone numbers and the invoice  *)
(* of a group are unique.                                                   *)

GroupRead(r, i) ==
    /\ token[i] = "valid"
    /\ invoice[i].status = "paid" /\ i \notin groups
    /\ Begin(r, "user", [NoLocals EXCEPT !.id = i, !.phone = invoice[i].phone])

UserRead(r) ==
    /\ pc[r] = "user"
    /\ Goto(r, IF loc[r].phone \in users THEN "group" ELSE "newuser", loc[r])
    /\ UNCHANGED <<rows, files, access, history>>

UserCreate(r) ==
    /\ pc[r] = "newuser"
    /\ IF loc[r].phone \in users THEN Finish(r) ELSE Goto(r, "group", loc[r])
    /\ users' = users \union {loc[r].phone}
    /\ UNCHANGED <<rows, files, token, groups, history>>

\* A second group of the invoice is refused by the unique key.
GroupCreate(r) ==
    /\ pc[r] = "group"
    /\ groups' = groups \union {loc[r].id}
    /\ Finish(r)
    /\ UNCHANGED <<rows, files, token, users, history>>

-----------------------------------------------------------------------------
\* The process stops, or a call throws, or a file is stored after the answer
\* was given up (the request then dies at proof).
Fail(r) ==
    /\ pc[r] # "idle"
    /\ Finish(r)
    /\ failed' = TRUE
    /\ UNCHANGED <<rows, files, access, overlapped>>

\* 48 hours after the last signature
TokenExpires(i) ==
    /\ token[i] = "valid"
    /\ token' = [token EXCEPT ![i] = "expired"]
    /\ UNCHANGED <<rows, files, users, groups, pc, loc, history>>

\* A customer signs up.
SignUp(c) ==
    /\ c \notin users
    /\ users' = users \union {c}
    /\ UNCHANGED <<rows, files, token, groups, pc, loc, history>>

Resume(r) ==
    \/ CreateWrite(r) \/ CreateConflict(r) \/ CreateRetry(r)
    \/ UploadFile(r) \/ UploadCreate(r) \/ UploadCreateFails(r) \/ UploadDestroy(r)
    \/ ApproveWrite(r) \/ CashWrite(r) \/ SignToken(r) \/ RejectWrite(r)
    \/ UserRead(r) \/ UserCreate(r) \/ GroupCreate(r)

Next ==
    \/ \E r \in Requests :
        \/ \E c \in Customers : CreateRead(r, c)
        \/ \E i \in InvoiceIds : UploadRead(r, i) \/ CashRead(r, i) \/ GroupRead(r, i)
        \/ \E p \in ProofIds : ApproveRead(r, p) \/ RejectRead(r, p)
        \/ Resume(r) \/ Fail(r)
    \/ \E i \in InvoiceIds : TokenExpires(i)
    \/ \E c \in Customers : SignUp(c)

Spec == Init /\ [][Next]_vars

FairSpec == Spec /\ \A r \in Requests : WF_vars(Resume(r))

-----------------------------------------------------------------------------
(* Whatever interleaves. *)

\* Invoices are numbered in the order of their creation, without a gap and
\* without repetition: createInvoiceWithSequentialNumber only adds one to what
\* it has read, and relies on the unique key and a retry.
NumbersAreSequential ==
    /\ \A k \in DOMAIN created : invoice[created[k]].number = k
    /\ \A i \in InvoiceIds :
        invoice[i].status # "none" => \E k \in DOMAIN created : created[k] = i

\* A token is in the hands of a customer, and a group exists, only when the
\* invoice has been paid, and a group's owner has an account: approvePop and
\* recordCashPayment commit before they sign, createGroupFromToken creates the
\* account before the group.
PaidBeforeGroup ==
    /\ \A i \in InvoiceIds : token[i] # "none" => invoice[i].status = "paid"
    /\ \A i \in groups : invoice[i].status = "paid" /\ invoice[i].phone \in users

\* uploadPop leaks no file: each stored file has its proof, or is in the hands
\* of a request that is about to create the proof or to destroy the file.
\* Excepted are requests that die in between.
FilesHaveProofs ==
    ~ failed =>
        \A p \in files :
            \/ proof[p].status # "none"
            \/ \E r \in Requests : pc[r] \in {"proof", "destroy"} /\ loc[r].proof = p

-----------------------------------------------------------------------------
(* As long as no two handlers have been in flight at the same time. *)

\* An invoice is paid by exactly one approved proof, cash included; two
\* approvals that cross approve two, a rejection that crosses an approval none.
PaidOnce ==
    ~ overlapped =>
        \A i \in InvoiceIds :
            Cardinality({p \in ProofIds : proof[p].invoice = i /\ proof[p].status = "approved"})
              = IF invoice[i].status = "paid" THEN 1 ELSE 0

\* What a reviewer has decided stays decided.
ReviewIsFinal ==
    [][~ overlapped' =>
         \A p \in ProofIds : proof[p].status \in {"approved", "rejected"} => proof'[p] = proof[p]]_vars

-----------------------------------------------------------------------------
\* With fairness: a paid invoice gets its token, unless a request has died;
\* nothing in the code signs another one.
PaidGetsToken ==
    \A i \in InvoiceIds : invoice[i].status = "paid" ~> token[i] # "none" \/ failed

\* "The invoice stays pending so the customer can re-upload", says rejectPop.
\* An approval leaves the other proofs of the invoice pending, so one of them
\* can be rejected when the invoice has been paid.
RejectLeavesPending ==
    [][\A r \in Requests :
         RejectWrite(r) => invoice'[proof[loc[r].proof].invoice].status = "pending"]_vars

=============================================================================
