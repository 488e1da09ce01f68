--------------------------- MODULE Invoices_proofs ---------------------------
(***************************************************************************)
(* What Invoices promises whatever interleaves, proved for any number of   *)
(* invoices, proofs, customers, handlers in flight and retries, and what   *)
(* ContributionProofs, which stores its files the same way, promises for   *)
(* any number of files, uploads and rejections.                            *)
(***************************************************************************)
EXTENDS Invoices, ContributionProofs, FiniteSetTheorems, TLAPS

LEMMA NoLocalsType == NoInvoice \in Invoice /\ NoProof \in PaymentProof /\ NoLocals \in Locals
<1>1. /\ (CHOOSE c \in Customers : TRUE) \in Customers
      /\ (CHOOSE i \in InvoiceIds : TRUE) \in InvoiceIds
      /\ (CHOOSE p \in ProofIds : TRUE) \in ProofIds
      /\ 1 \in 1 .. MaxRetries
  BY ConstantsAssumption
<1>2. NoInvoice \in Invoice /\ NoProof \in PaymentProof
  BY <1>1 DEF NoInvoice, NoProof, Invoice, PaymentProof, InvoiceStatus, PaymentProofStatus
<1> QED
  BY <1>1, <1>2 DEF NoLocals, Locals, Invoice, PaymentProof

\* What a handler goes on with concerns that handler only.
LEMMA GotoType ==
    ASSUME TypeOK, NEW r \in Requests, NEW step \in Steps, NEW l \in Locals, Goto(r, step, l)
    PROVE  /\ pc' \in [Requests -> Steps] /\ loc' \in [Requests -> Locals]
           /\ pc'[r] = step /\ loc'[r] = l
           /\ \A q \in Requests \ {r} : pc'[q] = pc[q] /\ loc'[q] = loc[q]
  BY DEF TypeOK, Goto

LEMMA FinishType ==
    ASSUME TypeOK, NEW r \in Requests, Finish(r)
    PROVE  /\ pc' \in [Requests -> Steps] /\ loc' \in [Requests -> Locals]
           /\ pc'[r] = "idle"
           /\ \A q \in Requests \ {r} : pc'[q] = pc[q] /\ loc'[q] = loc[q]
  BY NoLocalsType, GotoType DEF Finish, Steps

\* A handler begins with a read: no row changes.
LEMMA BeginType ==
    ASSUME TypeOK, NEW r \in Requests, NEW step \in Steps, NEW l \in Locals, Begin(r, step, l)
    PROVE  /\ TypeOK'
           /\ pc'[r] = step /\ loc'[r] = l
           /\ \A q \in Requests \ {r} : pc'[q] = pc[q] /\ loc'[q] = loc[q]
<1>1. Goto(r, step, l) /\ UNCHANGED <<rows, files, access, failed>> /\ overlapped' \in BOOLEAN
  BY DEF Begin, TypeOK
<1> QED
  BY <1>1, GotoType DEF TypeOK, rows, access

\* The newest invoice is one of the rows, or there is none.
LEMMA NextNumberType ==
    ASSUME TypeOK
    PROVE  NextInvoiceNumber \in Nat
<1>1. CASE created = << >>
  BY <1>1 DEF NextInvoiceNumber
<1>2. CASE created # << >>
  <2>1. created[Len(created)] \in InvoiceIds
    BY <1>2 DEF TypeOK
  <2> QED
    BY <1>2, <2>1 DEF NextInvoiceNumber, TypeOK, Invoice
<1> QED
  BY <1>1, <1>2

-----------------------------------------------------------------------------
(* The handlers that begin. *)

\* Each of them goes on with a record of its own.
LEMMA BeginsType ==
    ASSUME TypeOK, NEW r \in Requests,
           \/ \E c \in Customers : CreateRead(r, c)
           \/ \E i \in InvoiceIds : UploadRead(r, i) \/ CashRead(r, i) \/ GroupRead(r, i)
           \/ \E p \in ProofIds : ApproveRead(r, p) \/ RejectRead(r, p)
    PROVE  TypeOK'
<1>1. ASSUME NEW c \in Customers, CreateRead(r, c) PROVE TypeOK'
  <2>1. [NoLocals EXCEPT !.phone = c, !.number = NextInvoiceNumber] \in Locals
    BY NoLocalsType, NextNumberType DEF Locals
  <2> QED
    BY <1>1, <2>1, BeginType DEF CreateRead, Steps
<1>2. ASSUME NEW i \in InvoiceIds, UploadRead(r, i) \/ CashRead(r, i) PROVE TypeOK'
  <2>1. [NoLocals EXCEPT !.id = i] \in Locals
    BY NoLocalsType DEF Locals
  <2> QED
    BY <1>2, <2>1, BeginType DEF UploadRead, CashRead, Steps
<1>3. ASSUME NEW i \in InvoiceIds, GroupRead(r, i) PROVE TypeOK'
  <2>1. [NoLocals EXCEPT !.id = i, !.phone = invoice[i].phone] \in Locals
    BY NoLocalsType DEF Locals, TypeOK, Invoice
  <2> QED
    BY <1>3, <2>1, BeginType DEF GroupRead, Steps
<1>4. ASSUME NEW p \in ProofIds, ApproveRead(r, p) \/ RejectRead(r, p) PROVE TypeOK'
  <2>1. [NoLocals EXCEPT !.id = proof[p].invoice, !.proof = p] \in Locals
    BY NoLocalsType DEF Locals, TypeOK, PaymentProof
  <2> QED
    BY <1>4, <2>1, BeginType DEF ApproveRead, RejectRead, Steps
<1> QED
  BY <1>1, <1>2, <1>3, <1>4

-----------------------------------------------------------------------------
(* The handlers that go on. *)

LEMMA CreateType ==
    ASSUME TypeOK, NEW r \in Requests, CreateWrite(r) \/ CreateConflict(r) \/ CreateRetry(r)
    PROVE  TypeOK'
<1>0. loc[r] \in Locals
  BY DEF TypeOK
<1>1. CASE CreateWrite(r)
  <2>1. PICK i \in InvoiceIds :
          /\ invoice' = [invoice EXCEPT ![i] = [status |-> "pending", number |-> loc[r].number,
                                                phone |-> loc[r].phone]]
          /\ created' = Append(created, i)
    BY <1>1 DEF CreateWrite
  <2>2. invoice' \in [InvoiceIds -> Invoice] /\ created' \in Seq(InvoiceIds)
    BY <1>0, <2>1 DEF TypeOK, Locals, Invoice, InvoiceStatus
  <2> QED
    BY <1>1, <2>2, FinishType DEF CreateWrite, TypeOK, access, history
<1>2. CASE CreateConflict(r)
  <2>1. CASE loc[r].attempt < MaxRetries
    <3>1. [loc[r] EXCEPT !.attempt = @ + 1] \in Locals
      BY <1>0, <2>1, ConstantsAssumption DEF Locals
    <3> QED
      BY <1>2, <2>1, <3>1, GotoType DEF CreateConflict, Steps, TypeOK, rows, access, history
  <2>2. CASE ~ (loc[r].attempt < MaxRetries)
    BY <1>2, <2>2, FinishType DEF CreateConflict, TypeOK, rows, access, history
  <2> QED
    BY <2>1, <2>2
<1>3. CASE CreateRetry(r)
  <2>1. [loc[r] EXCEPT !.number = NextInvoiceNumber] \in Locals
    BY <1>0, NextNumberType DEF Locals
  <2> QED
    BY <1>3, <2>1, GotoType DEF CreateRetry, Steps, TypeOK, rows, access, history
<1> QED
  BY <1>1, <1>2, <1>3

LEMMA UploadType ==
    ASSUME TypeOK, NEW r \in Requests,
           UploadFile(r) \/ UploadCreate(r) \/ UploadCreateFails(r) \/ UploadDestroy(r)
    PROVE  TypeOK'
<1>0. loc[r] \in Locals
  BY DEF TypeOK
<1>1. CASE UploadFile(r)
  <2>1. PICK p \in ProofIds : files' = files \union {p}
                              /\ Goto(r, "proof", [loc[r] EXCEPT !.proof = p])
    BY <1>1 DEF UploadFile
  <2>2. [loc[r] EXCEPT !.proof = p] \in Locals
    BY <1>0 DEF Locals
  <2> QED
    BY <1>1, <2>1, <2>2, GotoType DEF UploadFile, Steps, TypeOK, rows, access, history
<1>2. CASE UploadCreate(r)
  <2>1. proof' \in [ProofIds -> PaymentProof]
    BY <1>0, <1>2 DEF UploadCreate, TypeOK, Locals, PaymentProof, PaymentProofStatus
  <2> QED
    BY <1>2, <2>1, FinishType DEF UploadCreate, TypeOK, access, history
<1>3. CASE UploadCreateFails(r)
  BY <1>0, <1>3, GotoType DEF UploadCreateFails, Steps, TypeOK, rows, access, history
<1>4. CASE UploadDestroy(r)
  BY <1>4, FinishType DEF UploadDestroy, TypeOK, rows, access
<1> QED
  BY <1>1, <1>2, <1>3, <1>4

LEMMA PayType ==
    ASSUME TypeOK, NEW i \in InvoiceIds, Pay(i)
    PROVE  /\ invoice' \in [InvoiceIds -> Invoice]
           /\ \A j \in InvoiceIds : /\ invoice'[j].number = invoice[j].number
                                    /\ invoice'[j].phone = invoice[j].phone
                                    /\ j # i => invoice'[j] = invoice[j]
           /\ invoice'[i].status = "paid"
  BY DEF Pay, TypeOK, Invoice, InvoiceStatus

LEMMA ReviewType ==
    ASSUME TypeOK, NEW r \in Requests,
           ApproveWrite(r) \/ CashWrite(r) \/ SignToken(r) \/ RejectWrite(r)
    PROVE  TypeOK'
<1>0. loc[r] \in Locals /\ loc[r].id \in InvoiceIds
  BY DEF TypeOK, Locals
<1>1. CASE ApproveWrite(r)
  <2>1. proof' \in [ProofIds -> PaymentProof]
    BY <1>1 DEF ApproveWrite, TypeOK, PaymentProof, PaymentProofStatus
  <2> QED
    BY <1>0, <1>1, <2>1, PayType, GotoType DEF ApproveWrite, Steps, TypeOK, access, history
<1>2. CASE CashWrite(r)
  <2>1. proof' \in [ProofIds -> PaymentProof]
    BY <1>0, <1>2 DEF CashWrite, TypeOK, PaymentProof, PaymentProofStatus
  <2> QED
    BY <1>0, <1>2, <2>1, PayType, GotoType DEF CashWrite, Steps, TypeOK, access, history
<1>3. CASE SignToken(r)
  BY <1>3, FinishType DEF SignToken, TypeOK, rows, history
<1>4. CASE RejectWrite(r)
  <2>1. proof' \in [ProofIds -> PaymentProof]
    BY <1>4, ZenonT(60) DEF RejectWrite, TypeOK, PaymentProof, PaymentProofStatus
  <2> QED
    BY <1>4, <2>1, FinishType DEF RejectWrite, TypeOK, access, history
<1> QED
  BY <1>1, <1>2, <1>3, <1>4

LEMMA GroupType ==
    ASSUME TypeOK, NEW r \in Requests, UserRead(r) \/ UserCreate(r) \/ GroupCreate(r)
    PROVE  TypeOK'
<1>0. loc[r] \in Locals /\ loc[r].id \in InvoiceIds /\ loc[r].phone \in Customers
  BY DEF TypeOK, Locals
<1>1. CASE UserRead(r)
  BY <1>0, <1>1, GotoType DEF UserRead, Steps, TypeOK, rows, access, history
<1>2. CASE UserCreate(r)
  <2>1. pc' \in [Requests -> Steps] /\ loc' \in [Requests -> Locals]
    BY <1>0, <1>2, GotoType, FinishType DEF UserCreate, Steps
  <2> QED
    BY <1>0, <1>2, <2>1 DEF UserCreate, TypeOK, rows, history
<1>3. CASE GroupCreate(r)
  BY <1>0, <1>3, FinishType DEF GroupCreate, TypeOK, rows, history
<1> QED
  BY <1>1, <1>2, <1>3

LEMMA TypeNext == TypeOK /\ [Next]_vars => TypeOK'
<1> SUFFICES ASSUME TypeOK, [Next]_vars PROVE TypeOK'
  OBVIOUS
<1>1. ASSUME NEW r \in Requests, Resume(r) PROVE TypeOK'
  BY <1>1, CreateType, UploadType, ReviewType, GroupType DEF Resume
<1>2. ASSUME NEW r \in Requests, Fail(r) PROVE TypeOK'
  BY <1>2, FinishType DEF Fail, TypeOK, rows, access
<1>3. ASSUME NEW i \in InvoiceIds, TokenExpires(i) PROVE TypeOK'
  BY <1>3 DEF TokenExpires, TypeOK, rows, history
<1>4. ASSUME NEW c \in Customers, SignUp(c) PROVE TypeOK'
  BY <1>4 DEF SignUp, TypeOK, rows, history
<1>5. CASE UNCHANGED vars
  BY <1>5 DEF vars, TypeOK, rows, access, history
<1> QED
  BY <1>1, <1>2, <1>3, <1>4, <1>5, BeginsType DEF Next

\* Every field a handler keeps has a value its next call can use, and an
\* attempt is never numbered past MAX_INVOICE_NUMBER_RETRIES.
THEOREM TypeCorrect == Spec => []TypeOK
<1>1. ASSUME Init PROVE TypeOK
  <2>1. created \in Seq(InvoiceIds)
    BY <1>1 DEF Init
  <2>2. invoice \in [InvoiceIds -> Invoice] /\ proof \in [ProofIds -> PaymentProof]
    BY <1>1, NoLocalsType DEF Init
  <2>3. pc \in [Requests -> Steps] /\ loc \in [Requests -> Locals]
    BY <1>1, NoLocalsType DEF Init, Steps
  <2> QED
    BY <1>1, <2>1, <2>2, <2>3 DEF Init, TypeOK
<1> QED
  BY <1>1, TypeNext, PTL DEF Spec

-----------------------------------------------------------------------------
(* The numbers of the invoices. *)

\* The numbers are those of the rows, and a handler about to insert one holds a
\* number already taken or the next one.
NumbersInv ==
    /\ NumbersAreSequential
    /\ \A k \in DOMAIN created : invoice[created[k]].status # "none"
    /\ \A r \in Requests :
        /\ pc[r] = "create" => loc[r].number \in 1 .. Len(created) + 1
        /\ pc[r] \in {"approve", "cash"} => invoice[loc[r].id].status # "none"

\* The next number is one more than there are invoices.
LEMMA NextNumber ==
    ASSUME TypeOK, NumbersInv
    PROVE  NextInvoiceNumber = Len(created) + 1
<1>1. CASE created = << >>
  BY <1>1 DEF NextInvoiceNumber
<1>2. CASE created # << >>
  <2>1. Len(created) \in DOMAIN created
    BY <1>2 DEF TypeOK
  <2> QED
    BY <1>2, <2>1 DEF NextInvoiceNumber, NumbersInv, NumbersAreSequential
<1> QED
  BY <1>1, <1>2

\* A step that neither creates nor renumbers an invoice keeps the numbers, if
\* the handlers it moves hold a good number or a row that exists.
LEMMA KeepsNumbers ==
    ASSUME TypeOK, NumbersInv, UNCHANGED created,
           \A i \in InvoiceIds : /\ invoice'[i].number = invoice[i].number
                                 /\ invoice'[i].status = "none" <=> invoice[i].status = "none",
           \A r \in Requests :
              \/ pc'[r] \notin {"create", "approve", "cash"}
              \/ pc'[r] = pc[r] /\ loc'[r] = loc[r]
              \/ pc'[r] = "create" /\ loc'[r].number = NextInvoiceNumber
              \/ pc'[r] \in {"approve", "cash"} /\ invoice[loc'[r].id].status # "none"
                 /\ loc'[r].id \in InvoiceIds
    PROVE  NumbersInv'
<1>1. \A k \in DOMAIN created : created[k] \in InvoiceIds
  BY DEF TypeOK
<1>2. NumbersAreSequential'
  BY <1>1 DEF NumbersInv, NumbersAreSequential
<1>3. \A k \in DOMAIN created' : invoice'[created'[k]].status # "none"
  BY <1>1 DEF NumbersInv
<1>4. ASSUME NEW r \in Requests, pc'[r] = "create"
      PROVE  loc'[r].number \in 1 .. Len(created') + 1
  BY <1>4, NextNumber DEF NumbersInv, TypeOK
<1>5. ASSUME NEW r \in Requests, pc'[r] \in {"approve", "cash"}
      PROVE  invoice'[loc'[r].id].status # "none"
  <2>1. loc[r].id \in InvoiceIds
    BY DEF TypeOK, Locals
  <2> QED
    BY <1>5, <2>1 DEF NumbersInv
<1> QED
  BY <1>2, <1>3, <1>4, <1>5 DEF NumbersInv

\* The number inserted is free, so it is the next one, whatever was created
\* since it was computed.
LEMMA CreateWriteNumbers ==
    ASSUME TypeOK, NumbersInv, NEW r \in Requests, CreateWrite(r)
    PROVE  NumbersInv'
<1>0. PICK i \in InvoiceIds :
        /\ invoice[i].status = "none"
        /\ invoice' = [invoice EXCEPT ![i] = [status |-> "pending", number |-> loc[r].number,
                                              phone |-> loc[r].phone]]
        /\ created' = Append(created, i)
  BY DEF CreateWrite
<1>1. loc[r].number = Len(created) + 1
  <2>1. loc[r].number \in 1 .. Len(created) + 1 /\ Len(created) \in Nat
    BY DEF CreateWrite, NumbersInv, TypeOK
  <2>2. ASSUME loc[r].number \in DOMAIN created PROVE FALSE
    <3>1. /\ created[loc[r].number] \in InvoiceIds
          /\ invoice[created[loc[r].number]].status # "none"
          /\ invoice[created[loc[r].number]].number = loc[r].number
      BY <2>2 DEF NumbersInv, NumbersAreSequential, TypeOK
    <3> QED
      BY <3>1 DEF CreateWrite, NumberTaken
  <2> QED
    BY <2>1, <2>2 DEF TypeOK
<1>2. /\ Len(created') = Len(created) + 1
      /\ DOMAIN created' = 1 .. Len(created) + 1
      /\ \A k \in DOMAIN created : created'[k] = created[k] /\ created[k] \in InvoiceIds
      /\ created'[Len(created) + 1] = i
      /\ DOMAIN created = 1 .. Len(created) /\ Len(created) \in Nat
  BY <1>0 DEF TypeOK
<1>3. \A j \in InvoiceIds : j # i => invoice'[j] = invoice[j]
  BY <1>0 DEF TypeOK
<1>4. invoice'[i].status = "pending" /\ invoice'[i].number = Len(created) + 1
  BY <1>0, <1>1 DEF TypeOK
<1>5. \A k \in DOMAIN created : created[k] # i
  BY <1>0 DEF NumbersInv
<1>6. ASSUME NEW k \in DOMAIN created'
      PROVE  invoice'[created'[k]].number = k /\ invoice'[created'[k]].status # "none"
  <2>1. CASE k \in DOMAIN created
    BY <1>2, <1>3, <1>5, <2>1 DEF NumbersInv, NumbersAreSequential
  <2>2. CASE k = Len(created) + 1
    BY <1>2, <1>4, <2>2
  <2> QED
    BY <1>2, <2>1, <2>2
<1>7. ASSUME NEW j \in InvoiceIds, invoice'[j].status # "none"
      PROVE  \E k \in DOMAIN created' : created'[k] = j
  <2>1. CASE j = i
    BY <1>2, <2>1
  <2>2. CASE j # i
    <3>1. PICK k \in DOMAIN created : created[k] = j
      BY <1>3, <1>7, <2>2 DEF NumbersInv, NumbersAreSequential
    <3> QED
      BY <1>2, <3>1
  <2> QED
    BY <2>1, <2>2
<1>8. pc'[r] = "idle" /\ \A q \in Requests \ {r} : pc'[q] = pc[q] /\ loc'[q] = loc[q]
  BY FinishType DEF CreateWrite
<1>9. ASSUME NEW q \in Requests
      PROVE  /\ pc'[q] = "create" => loc'[q].number \in 1 .. Len(created') + 1
             /\ pc'[q] \in {"approve", "cash"} => invoice'[loc'[q].id].status # "none"
  <2>1. loc[q].id \in InvoiceIds
    BY DEF TypeOK, Locals
  <2> QED
    BY <1>2, <1>3, <1>4, <1>8, <2>1 DEF NumbersInv
<1> QED
  BY <1>6, <1>7, <1>9 DEF NumbersInv, NumbersAreSequential

\* A handler that begins changes no row.
LEMMA BeginNumbers ==
    ASSUME TypeOK, NumbersInv, NEW r \in Requests, NEW step \in Steps, NEW l \in Locals,
           Begin(r, step, l),
           step = "create" => l.number = NextInvoiceNumber,
           step \in {"approve", "cash"} => invoice[l.id].status # "none"
    PROVE  NumbersInv'
<1>1. UNCHANGED <<invoice, created>>
  BY DEF Begin, rows
<1>2. /\ pc'[r] = step /\ loc'[r] = l /\ l.id \in InvoiceIds
      /\ \A q \in Requests \ {r} : pc'[q] = pc[q] /\ loc'[q] = loc[q]
  BY BeginType DEF Locals
<1> QED
  BY <1>1, <1>2, KeepsNumbers

LEMMA NumbersNext == TypeOK /\ NumbersInv /\ [Next]_vars => NumbersInv'
<1> SUFFICES ASSUME TypeOK, NumbersInv, [Next]_vars PROVE NumbersInv'
  OBVIOUS
<1>1. ASSUME NEW r \in Requests, NEW c \in Customers, CreateRead(r, c) PROVE NumbersInv'
  <2> DEFINE l == [NoLocals EXCEPT !.phone = c, !.number = NextInvoiceNumber]
  <2>1. l \in Locals /\ l.number = NextInvoiceNumber
    BY NoLocalsType, NextNumberType DEF Locals
  <2>2. Begin(r, "create", l)
    BY <1>1 DEF CreateRead
  <2> QED
    BY <2>1, <2>2, BeginNumbers DEF Steps
<1>2. ASSUME NEW r \in Requests, NEW i \in InvoiceIds,
             UploadRead(r, i) \/ CashRead(r, i) \/ GroupRead(r, i)
      PROVE  NumbersInv'
  <2>1. /\ [NoLocals EXCEPT !.id = i] \in Locals
        /\ [NoLocals EXCEPT !.id = i, !.phone = invoice[i].phone] \in Locals
    BY NoLocalsType DEF Locals, TypeOK, Invoice
  <2>2. PICK step \in {"file", "cash", "user"}, l \in Locals :
          Begin(r, step, l) /\ l.id = i
    BY <1>2, <2>1, NoLocalsType DEF UploadRead, CashRead, GroupRead, Locals
  <2>3. invoice[i].status # "none"
    BY <1>2 DEF UploadRead, CashRead, GroupRead
  <2> QED
    BY <2>2, <2>3, BeginNumbers DEF Steps
<1>3. ASSUME NEW r \in Requests, NEW p \in ProofIds, ApproveRead(r, p)
      PROVE  NumbersInv'
  <2> DEFINE l == [NoLocals EXCEPT !.id = proof[p].invoice, !.proof = p]
  <2>1. l \in Locals /\ l.id = proof[p].invoice
    BY NoLocalsType DEF Locals, TypeOK, PaymentProof
  <2>2. Begin(r, "approve", l) /\ invoice[proof[p].invoice].status # "none"
    BY <1>3 DEF ApproveRead, Approvable
  <2> QED
    BY <2>1, <2>2, BeginNumbers DEF Steps
<1>4. ASSUME NEW r \in Requests, NEW p \in ProofIds, RejectRead(r, p)
      PROVE  NumbersInv'
  <2> DEFINE l == [NoLocals EXCEPT !.id = proof[p].invoice, !.proof = p]
  <2>1. l \in Locals
    BY NoLocalsType DEF Locals, TypeOK, PaymentProof
  <2>2. Begin(r, "reject", l)
    BY <1>4 DEF RejectRead
  <2> QED
    BY <2>1, <2>2, BeginNumbers DEF Steps
<1>5. ASSUME NEW r \in Requests, CreateConflict(r) PROVE NumbersInv'
  <2>1. \/ Goto(r, "retry", [loc[r] EXCEPT !.attempt = @ + 1])
        \/ Finish(r)
    BY <1>5 DEF CreateConflict
  <2>2. pc'[r] \in {"retry", "idle"} /\ \A q \in Requests \ {r} : pc'[q] = pc[q] /\ loc'[q] = loc[q]
    BY <2>1 DEF Goto, Finish, TypeOK
  <2> QED
    BY <1>5, <2>2, KeepsNumbers DEF CreateConflict, rows
<1>6. ASSUME NEW r \in Requests, CreateRetry(r) PROVE NumbersInv'
  <2>1. [loc[r] EXCEPT !.number = NextInvoiceNumber] \in Locals
    BY NextNumberType DEF Locals, TypeOK
  <2>2. /\ pc'[r] = "create" /\ loc'[r].number = NextInvoiceNumber
        /\ \A q \in Requests \ {r} : pc'[q] = pc[q] /\ loc'[q] = loc[q]
    BY <1>6, <2>1, GotoType DEF CreateRetry, Steps, Locals, TypeOK
  <2> QED
    BY <1>6, <2>2, KeepsNumbers DEF CreateRetry, rows
<1>7. ASSUME NEW r \in Requests,
             UploadFile(r) \/ UploadCreate(r) \/ UploadCreateFails(r) \/ UploadDestroy(r)
             \/ SignToken(r) \/ RejectWrite(r) \/ UserRead(r) \/ UserCreate(r) \/ GroupCreate(r)
             \/ Fail(r)
      PROVE  NumbersInv'
  <2>1. UNCHANGED <<invoice, created>>
    BY <1>7 DEF UploadFile, UploadCreate, UploadCreateFails, UploadDestroy, SignToken,
       RejectWrite, UserRead, UserCreate, GroupCreate, Fail, rows
  <2>2. PICK step \in {"idle", "proof", "destroy", "newuser", "group"} :
          \E l : Goto(r, step, l)
    BY <1>7 DEF UploadFile, UploadCreate, UploadCreateFails, UploadDestroy, SignToken,
       RejectWrite, UserRead, UserCreate, GroupCreate, Fail, Finish
  <2>3. pc'[r] = step /\ \A q \in Requests \ {r} : pc'[q] = pc[q] /\ loc'[q] = loc[q]
    BY <2>2 DEF Goto, TypeOK
  <2> QED
    BY <2>1, <2>3, KeepsNumbers
<1>8. ASSUME NEW r \in Requests, ApproveWrite(r) \/ CashWrite(r) PROVE NumbersInv'
  <2>1. /\ loc[r].id \in InvoiceIds /\ invoice[loc[r].id].status # "none"
        /\ Pay(loc[r].id) /\ UNCHANGED created /\ Goto(r, "token", loc[r])
    BY <1>8 DEF ApproveWrite, CashWrite, NumbersInv, TypeOK, Locals
  <2>2. pc'[r] = "token" /\ \A q \in Requests \ {r} : pc'[q] = pc[q] /\ loc'[q] = loc[q]
    BY <2>1 DEF Goto, TypeOK
  <2> QED
    BY <2>1, <2>2, PayType, KeepsNumbers
<1>9. CASE \/ \E i \in InvoiceIds : TokenExpires(i)
           \/ \E c \in Customers : SignUp(c)
           \/ UNCHANGED vars
  <2>1. UNCHANGED <<invoice, created, pc, loc>>
    BY <1>9 DEF TokenExpires, SignUp, vars, rows
  <2> QED
    BY <2>1, KeepsNumbers
<1> QED
  BY <1>1, <1>2, <1>3, <1>4, <1>5, <1>6, <1>7, <1>8, <1>9, CreateWriteNumbers
  DEF Next, Resume

\* Concurrent creations leave no gap in the invoice numbers and use none twice,
\* however often they collide, give up or die.
THEOREM InvoicesAreNumberedInOrder == Spec => []NumbersAreSequential
<1>1. ASSUME Init PROVE NumbersInv
  <2>1. DOMAIN created = {} /\ Len(created) = 0
    BY <1>1 DEF Init
  <2>2. \A i \in InvoiceIds : invoice[i].status = "none"
    BY <1>1 DEF Init, NoInvoice
  <2>3. \A r \in Requests : pc[r] = "idle"
    BY <1>1 DEF Init
  <2> QED
    BY <2>1, <2>2, <2>3 DEF NumbersInv, NumbersAreSequential
<1>2. NumbersInv => NumbersAreSequential
  BY DEF NumbersInv
<1> QED
  BY <1>1, <1>2, NumbersNext, TypeCorrect, PTL DEF Spec

-----------------------------------------------------------------------------
(* Tokens and groups. *)

\* A handler about to sign has committed the payment; one on its way to a group
\* has found the invoice paid and, at the end, an account of its customer.
PaidInv ==
    /\ PaidBeforeGroup
    /\ \A r \in Requests :
        LET i == loc[r].id IN
        /\ pc[r] \in {"token", "user", "newuser", "group"} => invoice[i].status = "paid"
        /\ pc[r] \in {"user", "newuser", "group"} => loc[r].phone = invoice[i].phone
        /\ pc[r] = "group" => loc[r].phone \in users

\* What has been paid stays paid, of the same customer, and accounts stay.
PaidStays ==
    /\ \A i \in InvoiceIds :
        invoice[i].status = "paid" => invoice'[i].status = "paid" /\ invoice'[i].phone = invoice[i].phone
    /\ users \subseteq users'

\* The handlers other than r keep what they rely on.
LEMMA KeepsPaid ==
    ASSUME TypeOK, PaidInv, PaidStays, UNCHANGED <<token, groups>>, NEW r \in Requests,
           pc'[r] \notin {"token", "user", "newuser", "group"},
           \A q \in Requests \ {r} : pc'[q] = pc[q] /\ loc'[q] = loc[q]
    PROVE  PaidInv'
<1>1. PaidBeforeGroup'
  <2>1. \A i \in InvoiceIds : token'[i] # "none" => invoice'[i].status = "paid"
    BY DEF PaidInv, PaidBeforeGroup, PaidStays
  <2>2. \A i \in groups' : invoice'[i].status = "paid" /\ invoice'[i].phone \in users'
    BY DEF PaidInv, PaidBeforeGroup, PaidStays, TypeOK
  <2> QED
    BY <2>1, <2>2 DEF PaidBeforeGroup
<1>2. \A q \in Requests : loc[q].id \in InvoiceIds
  BY DEF TypeOK, Locals
<1> QED
  BY <1>1, <1>2 DEF PaidInv, PaidStays

LEMMA PaidNext == TypeOK /\ PaidInv /\ [Next]_vars => PaidInv'
<1> SUFFICES ASSUME TypeOK, PaidInv, [Next]_vars PROVE PaidInv'
  OBVIOUS
<1>0. \A q \in Requests : loc[q] \in Locals /\ loc[q].id \in InvoiceIds
  BY DEF TypeOK, Locals
<1>1. ASSUME UNCHANGED <<invoice, users>> PROVE PaidStays
  BY <1>1 DEF PaidStays
<1>2. ASSUME NEW r \in Requests,
             \/ \E c \in Customers : CreateRead(r, c)
             \/ \E i \in InvoiceIds : UploadRead(r, i) \/ CashRead(r, i)
             \/ \E p \in ProofIds : ApproveRead(r, p) \/ RejectRead(r, p)
      PROVE  PaidInv'
  <2>1. PICK step \in {"create", "file", "cash", "approve", "reject"} : \E l : Begin(r, step, l)
    BY <1>2 DEF CreateRead, UploadRead, CashRead, ApproveRead, RejectRead
  <2>2. /\ pc'[r] = step
        /\ \A q \in Requests \ {r} : pc'[q] = pc[q] /\ loc'[q] = loc[q]
        /\ UNCHANGED <<invoice, users, token, groups>>
    BY <2>1 DEF Begin, Goto, TypeOK, rows, access
  <2> QED
    BY <1>1, <2>2, KeepsPaid
<1>3. ASSUME NEW r \in Requests, NEW i \in InvoiceIds, GroupRead(r, i) PROVE PaidInv'
  <2> DEFINE l == [NoLocals EXCEPT !.id = i, !.phone = invoice[i].phone]
  <2>1. l \in Locals /\ l.id = i /\ l.phone = invoice[i].phone
    BY NoLocalsType DEF Locals, TypeOK, Invoice
  <2>2. Begin(r, "user", l) /\ invoice[i].status = "paid"
    BY <1>3 DEF GroupRead
  <2>3. /\ pc'[r] = "user" /\ loc'[r].id = i /\ loc'[r].phone = invoice[i].phone
        /\ \A q \in Requests \ {r} : pc'[q] = pc[q] /\ loc'[q] = loc[q]
    BY <2>1, <2>2, BeginType, ZenonT(60) DEF Steps
  <2>4. UNCHANGED <<invoice, users, token, groups>>
    BY <2>2 DEF Begin, rows, access
  <2>5. PaidBeforeGroup'
    BY <2>4 DEF PaidInv, PaidBeforeGroup
  <2> HIDE DEF l
  <2> QED
    BY <2>2, <2>3, <2>4, <2>5 DEF PaidInv
<1>4. ASSUME NEW r \in Requests,
             \/ CreateConflict(r) \/ CreateRetry(r) \/ UploadFile(r) \/ UploadCreate(r)
             \/ UploadCreateFails(r) \/ UploadDestroy(r) \/ RejectWrite(r) \/ Fail(r)
      PROVE  PaidInv'
  <2>1. PICK step \in {"retry", "idle", "create", "proof", "destroy"} : \E l : Goto(r, step, l)
    BY <1>4 DEF CreateConflict, CreateRetry, UploadFile, UploadCreate, UploadCreateFails,
       UploadDestroy, RejectWrite, Fail, Finish
  <2>2. pc'[r] = step /\ \A q \in Requests \ {r} : pc'[q] = pc[q] /\ loc'[q] = loc[q]
    BY <2>1 DEF Goto, TypeOK
  <2>3. UNCHANGED <<invoice, users, token, groups>>
    BY <1>4 DEF CreateConflict, CreateRetry, UploadFile, UploadCreate, UploadCreateFails,
       UploadDestroy, RejectWrite, Fail, rows, access
  <2> QED
    BY <1>1, <2>2, <2>3, KeepsPaid
<1>5. ASSUME NEW r \in Requests, CreateWrite(r) PROVE PaidInv'
  <2>1. PICK i \in InvoiceIds :
          /\ invoice[i].status = "none"
          /\ invoice' = [invoice EXCEPT ![i] = [status |-> "pending", number |-> loc[r].number,
                                                phone |-> loc[r].phone]]
    BY <1>5 DEF CreateWrite
  <2>2. UNCHANGED access /\ Finish(r)
    BY <1>5 DEF CreateWrite
  <2>3. PaidStays
    BY <2>1, <2>2 DEF PaidStays, TypeOK, access
  <2> QED
    BY <2>2, <2>3, FinishType, KeepsPaid DEF access
<1>6. ASSUME NEW r \in Requests, ApproveWrite(r) \/ CashWrite(r) PROVE PaidInv'
  <2>1. Pay(loc[r].id) /\ UNCHANGED access /\ Goto(r, "token", loc[r])
    BY <1>6 DEF ApproveWrite, CashWrite
  <2>2. PaidStays /\ invoice'[loc[r].id].status = "paid"
    BY <1>0, <2>1, PayType DEF PaidStays, access
  <2>3. /\ pc'[r] = "token" /\ loc'[r] = loc[r]
        /\ \A q \in Requests \ {r} : pc'[q] = pc[q] /\ loc'[q] = loc[q]
    BY <1>0, <2>1, GotoType DEF Steps
  <2>4. \A i \in groups : i \in InvoiceIds
    BY DEF TypeOK
  <2>5. PaidBeforeGroup'
    BY <2>1, <2>2, <2>4 DEF PaidInv, PaidBeforeGroup, PaidStays, access
  <2> QED
    BY <1>0, <2>2, <2>3, <2>5 DEF PaidInv, PaidStays
<1>7. ASSUME NEW r \in Requests, SignToken(r) PROVE PaidInv'
  <2>1. /\ pc'[r] = "idle"
        /\ \A q \in Requests \ {r} : pc'[q] = pc[q] /\ loc'[q] = loc[q]
    BY <1>7, FinishType DEF SignToken
  <2>2. /\ UNCHANGED <<invoice, users, groups>> /\ invoice[loc[r].id].status = "paid"
        /\ \A i \in InvoiceIds : i # loc[r].id => token'[i] = token[i]
    BY <1>7 DEF SignToken, PaidInv, TypeOK, rows
  <2>3. PaidBeforeGroup'
    BY <2>2 DEF PaidInv, PaidBeforeGroup
  <2> QED
    BY <2>1, <2>2, <2>3 DEF PaidInv
<1>8. ASSUME NEW r \in Requests, UserRead(r) \/ UserCreate(r) PROVE PaidInv'
  <2>1. /\ UNCHANGED <<invoice, token, groups>>
        /\ users \subseteq users' /\ users' \subseteq users \union {loc[r].phone}
        /\ pc[r] \in {"user", "newuser"}
    BY <1>8 DEF UserRead, UserCreate, rows, access
  <2>2. PICK step \in {"newuser", "group", "idle"} :
          /\ step \in {"newuser", "group"} => Goto(r, step, loc[r])
          /\ step = "idle" => Finish(r)
          /\ step = "group" => loc[r].phone \in users'
    BY <1>8 DEF UserRead, UserCreate, access
  <2>3. /\ pc'[r] = step
        /\ step \in {"newuser", "group"} => loc'[r] = loc[r]
        /\ \A q \in Requests \ {r} : pc'[q] = pc[q] /\ loc'[q] = loc[q]
    BY <1>0, <2>2, GotoType, FinishType DEF Steps
  <2>4. PaidBeforeGroup'
    BY <2>1 DEF PaidInv, PaidBeforeGroup
  <2> QED
    BY <2>1, <2>2, <2>3, <2>4 DEF PaidInv
<1>9. ASSUME NEW r \in Requests, GroupCreate(r) PROVE PaidInv'
  <2>1. /\ pc'[r] = "idle"
        /\ \A q \in Requests \ {r} : pc'[q] = pc[q] /\ loc'[q] = loc[q]
    BY <1>9, FinishType DEF GroupCreate
  <2>2. /\ UNCHANGED <<invoice, users, token>> /\ groups' = groups \union {loc[r].id}
        /\ invoice[loc[r].id].status = "paid" /\ invoice[loc[r].id].phone \in users
    BY <1>9 DEF GroupCreate, PaidInv, rows
  <2>3. PaidBeforeGroup'
    BY <2>2 DEF PaidInv, PaidBeforeGroup
  <2> QED
    BY <2>1, <2>2, <2>3 DEF PaidInv
<1>10. CASE \/ \E i \in InvoiceIds : TokenExpires(i)
            \/ \E c \in Customers : SignUp(c)
            \/ UNCHANGED vars
  <2>1. /\ UNCHANGED <<invoice, groups, pc, loc>> /\ users \subseteq users'
        /\ \A i \in InvoiceIds : token'[i] # "none" => token[i] # "none"
    BY <1>10 DEF TokenExpires, SignUp, vars, rows, access, TypeOK
  <2> QED
    BY <2>1 DEF PaidInv, PaidBeforeGroup
<1> QED
  BY <1>2, <1>3, <1>4, <1>5, <1>6, <1>7, <1>8, <1>9, <1>10 DEF Next, Resume

\* Only a paid invoice gives a token or a group, and the owner has an account.
THEOREM GroupsArePaidFor == Spec => []PaidBeforeGroup
<1>1. ASSUME Init PROVE PaidInv
  <2>1. \A r \in Requests : pc[r] = "idle"
    BY <1>1 DEF Init
  <2> QED
    BY <1>1, <2>1 DEF Init, PaidInv, PaidBeforeGroup
<1>2. PaidInv => PaidBeforeGroup
  BY DEF PaidInv
<1> QED
  BY <1>1, <1>2, PaidNext, TypeCorrect, PTL DEF Spec

-----------------------------------------------------------------------------
(* Files. *)

\* A file is released by its own request only, by creating its proof, by
\* destroying it, or by dying.
LEMMA FilesNext == TypeOK /\ FilesHaveProofs /\ [Next]_vars => FilesHaveProofs'
<1> SUFFICES ASSUME TypeOK, FilesHaveProofs, [Next]_vars PROVE FilesHaveProofs'
  OBVIOUS
<1> DEFINE Holds(r, p) == pc[r] \in {"proof", "destroy"} /\ loc[r].proof = p
<1>0. \A q \in Requests : loc[q] \in Locals /\ loc[q].proof \in ProofIds
  BY DEF TypeOK, Locals
<1>1. ASSUME failed' = FALSE => failed = FALSE, files' \subseteq files,
             \A p \in ProofIds : proof[p].status # "none" => proof'[p].status # "none",
             \A q \in Requests, p \in files' :
                Holds(q, p) => Holds(q, p)' \/ proof'[p].status # "none"
      PROVE  FilesHaveProofs'
  BY <1>1 DEF FilesHaveProofs, TypeOK
<1>2. ASSUME NEW r \in Requests,
             \/ \E c \in Customers : CreateRead(r, c)
             \/ \E i \in InvoiceIds : UploadRead(r, i) \/ CashRead(r, i) \/ GroupRead(r, i)
             \/ \E p \in ProofIds : ApproveRead(r, p) \/ RejectRead(r, p)
      PROVE  FilesHaveProofs'
  <2>1. PICK step \in {"create", "file", "cash", "approve", "reject", "user"} :
          \E l : Begin(r, step, l)
    BY <1>2 DEF CreateRead, UploadRead, CashRead, GroupRead, ApproveRead, RejectRead
  <2>2. /\ pc[r] = "idle" /\ UNCHANGED <<proof, files, failed>>
        /\ \A q \in Requests \ {r} : pc'[q] = pc[q] /\ loc'[q] = loc[q]
    BY <2>1 DEF Begin, Goto, TypeOK, rows
  <2> QED
    BY <1>1, <2>2
<1>3. ASSUME NEW r \in Requests,
             \/ CreateWrite(r) \/ CreateConflict(r) \/ CreateRetry(r) \/ ApproveWrite(r)
             \/ CashWrite(r) \/ SignToken(r) \/ RejectWrite(r) \/ UserRead(r)
             \/ UserCreate(r) \/ GroupCreate(r)
      PROVE  FilesHaveProofs'
  <2>1. pc[r] \notin {"proof", "destroy"} /\ UNCHANGED <<files, failed>>
    BY <1>3 DEF CreateWrite, CreateConflict, CreateRetry, ApproveWrite, CashWrite, SignToken,
       RejectWrite, UserRead, UserCreate, GroupCreate, history
  <2>2. \A q \in Requests \ {r} : pc'[q] = pc[q] /\ loc'[q] = loc[q]
    BY <1>3 DEF CreateWrite, CreateConflict, CreateRetry, ApproveWrite, CashWrite, SignToken,
       RejectWrite, UserRead, UserCreate, GroupCreate, Goto, Finish, TypeOK
  <2>3. \A p \in ProofIds : proof[p].status # "none" => proof'[p].status # "none"
    <3>1. CASE ApproveWrite(r) \/ RejectWrite(r)
      BY <1>0, <3>1 DEF ApproveWrite, RejectWrite, TypeOK, PaymentProof
    <3>2. CASE CashWrite(r)
      BY <3>2 DEF CashWrite, TypeOK, PaymentProof
    <3>3. CASE ~ (ApproveWrite(r) \/ RejectWrite(r) \/ CashWrite(r))
      BY <1>3, <3>3 DEF CreateWrite, CreateConflict, CreateRetry, SignToken, UserRead,
         UserCreate, GroupCreate, rows
    <3> QED
      BY <3>1, <3>2, <3>3
  <2> QED
    BY <1>1, <2>1, <2>2, <2>3
<1>4. ASSUME NEW r \in Requests, UploadFile(r) PROVE FilesHaveProofs'
  <2>1. PICK p \in ProofIds : files' = files \union {p}
                              /\ Goto(r, "proof", [loc[r] EXCEPT !.proof = p])
    BY <1>4 DEF UploadFile
  <2>2. [loc[r] EXCEPT !.proof = p] \in Locals /\ [loc[r] EXCEPT !.proof = p].proof = p
    BY <1>0 DEF Locals
  <2>3. /\ pc'[r] = "proof" /\ loc'[r].proof = p
        /\ \A q \in Requests \ {r} : pc'[q] = pc[q] /\ loc'[q] = loc[q]
    BY <2>1, <2>2, GotoType DEF Steps
  <2>4. pc[r] = "file" /\ UNCHANGED <<proof, failed>>
    BY <1>4 DEF UploadFile, rows, history
  <2> QED
    BY <2>1, <2>3, <2>4 DEF FilesHaveProofs
<1>5. ASSUME NEW r \in Requests, UploadCreate(r) PROVE FilesHaveProofs'
  <2>1. /\ proof'[loc[r].proof].status # "none"
        /\ \A p \in ProofIds : p # loc[r].proof => proof'[p] = proof[p]
    BY <1>0, <1>5 DEF UploadCreate, TypeOK
  <2>2. /\ UNCHANGED <<files, failed>>
        /\ \A q \in Requests \ {r} : pc'[q] = pc[q] /\ loc'[q] = loc[q]
    BY <1>5, FinishType DEF UploadCreate, history
  <2> QED
    BY <1>1, <2>1, <2>2
<1>6. ASSUME NEW r \in Requests, UploadCreateFails(r) PROVE FilesHaveProofs'
  <2>1. /\ UNCHANGED <<proof, files, failed>> /\ pc'[r] = "destroy" /\ loc'[r] = loc[r]
        /\ \A q \in Requests \ {r} : pc'[q] = pc[q] /\ loc'[q] = loc[q]
    BY <1>0, <1>6, GotoType DEF UploadCreateFails, Steps, rows, history
  <2> QED
    BY <1>1, <2>1
<1>7. ASSUME NEW r \in Requests, UploadDestroy(r) PROVE FilesHaveProofs'
  <2>1. CASE failed'
    BY <2>1 DEF FilesHaveProofs
  <2>2. CASE ~ failed'
    <3>1. UNCHANGED <<proof, failed>> /\ files' = files \ {loc[r].proof}
      BY <1>7, <2>2 DEF UploadDestroy, rows
    <3>2. \A q \in Requests \ {r} : pc'[q] = pc[q] /\ loc'[q] = loc[q]
      BY <1>7, FinishType DEF UploadDestroy
    <3> QED
      BY <1>1, <3>1, <3>2
  <2> QED
    BY <2>1, <2>2
<1>8. ASSUME NEW r \in Requests, Fail(r) PROVE FilesHaveProofs'
  BY <1>8 DEF Fail, FilesHaveProofs
<1>9. CASE \/ \E i \in InvoiceIds : TokenExpires(i)
           \/ \E c \in Customers : SignUp(c)
           \/ UNCHANGED vars
  <2>1. UNCHANGED <<proof, files, failed, pc, loc>>
    BY <1>9 DEF TokenExpires, SignUp, vars, rows, history
  <2> QED
    BY <2>1 DEF FilesHaveProofs
<1> QED
  BY <1>2, <1>3, <1>4, <1>5, <1>6, <1>7, <1>8, <1>9 DEF Next, Resume

\* No stored file is left without a proof unless a request has died or the
\* file could not be destroyed.
THEOREM NoFileLeaks == Spec => []FilesHaveProofs
<1>1. Init => FilesHaveProofs
  BY DEF Init, FilesHaveProofs
<1> QED
  BY <1>1, FilesNext, TypeCorrect, PTL DEF Spec
-----------------------------------------------------------------------------
(* One handler at a time: reviews of proofs. *)

\* No two handlers are in flight.
Alone == \A q, r \in Requests : pc[q] # "idle" /\ pc[r] # "idle" => q = r

\* What the handler in flight has found is still so when it writes.
FoundHolds ==
    \A r \in Requests :
        LET i == loc[r].id
            p == loc[r].proof IN
        /\ pc[r] = "approve" => proof[p].invoice = i
        /\ pc[r] \in {"approve", "cash"} => invoice[i].status = "pending"
        /\ pc[r] \in {"approve", "reject"} => proof[p].status = "pending"
        /\ pc[r] = "proof" => proof[p].status = "none"

Approved(i) == {p \in ProofIds : proof[p].invoice = i /\ proof[p].status = "approved"}

PaidByOne ==
    \A i \in InvoiceIds :
        IF invoice[i].status = "paid" THEN \E p \in ProofIds : Approved(i) = {p}
        ELSE Approved(i) = {}

SerialInv == ~ overlapped => Alone /\ FoundHolds /\ PaidByOne

\* A handler that begins without overlapping another finds every other idle.
LEMMA BeginAlone ==
    ASSUME TypeOK, NEW r \in Requests, NEW step \in Steps, NEW l \in Locals,
           Begin(r, step, l), ~ overlapped'
    PROVE  /\ ~ overlapped /\ UNCHANGED rows
           /\ pc'[r] = step /\ loc'[r] = l
           /\ \A q \in Requests \ {r} : pc'[q] = "idle"
<1>1. ~ overlapped /\ UNCHANGED rows /\ \A q \in Requests \ {r} : pc[q] = "idle"
  BY DEF Begin
<1> QED
  BY <1>1, BeginType

\* The one handler in flight goes on, and nothing else is.
LEMMA AloneKept ==
    ASSUME TypeOK, Alone, NEW r \in Requests, pc[r] # "idle",
           \A q \in Requests \ {r} : pc'[q] = pc[q]
    PROVE  Alone' /\ \A q \in Requests \ {r} : pc'[q] = "idle"
  BY DEF Alone

LEMMA BeginSerial ==
    ASSUME TypeOK, SerialInv, ~ overlapped', NEW r \in Requests,
           \/ \E c \in Customers : CreateRead(r, c)
           \/ \E i \in InvoiceIds : UploadRead(r, i) \/ CashRead(r, i) \/ GroupRead(r, i)
           \/ \E p \in ProofIds : ApproveRead(r, p) \/ RejectRead(r, p)
    PROVE  SerialInv'
<1>1. ASSUME NEW step \in Steps \ {"proof"}, NEW l \in Locals, Begin(r, step, l),
             step = "approve" => proof[l.proof].invoice = l.id,
             step \in {"approve", "cash"} => invoice[l.id].status = "pending",
             step \in {"approve", "reject"} => proof[l.proof].status = "pending"
      PROVE  SerialInv'
  <2>1. /\ ~ overlapped /\ UNCHANGED rows
        /\ pc'[r] = step /\ loc'[r] = l
        /\ \A q \in Requests \ {r} : pc'[q] = "idle"
    BY <1>1, BeginAlone
  <2>2. Alone' /\ FoundHolds'
    BY <1>1, <2>1 DEF Alone, FoundHolds, rows
  <2>3. PaidByOne'
    BY <2>1 DEF SerialInv, PaidByOne, Approved, rows
  <2> QED
    BY <2>2, <2>3 DEF SerialInv
<1>2. ASSUME NEW c \in Customers, CreateRead(r, c) PROVE SerialInv'
  <2>1. [NoLocals EXCEPT !.phone = c, !.number = NextInvoiceNumber] \in Locals
    BY NoLocalsType, NextNumberType DEF Locals
  <2> QED
    BY <1>1, <1>2, <2>1 DEF CreateRead, Steps
<1>3. ASSUME NEW i \in InvoiceIds, UploadRead(r, i) \/ CashRead(r, i) PROVE SerialInv'
  <2> DEFINE l == [NoLocals EXCEPT !.id = i]
  <2>1. l \in Locals /\ l.id = i
    BY NoLocalsType DEF Locals
  <2>2. invoice[i].status = "pending"
    BY <1>3 DEF UploadRead, CashRead
  <2>3. PICK step \in {"file", "cash"} : Begin(r, step, l)
    BY <1>3 DEF UploadRead, CashRead
  <2> QED
    BY <1>1, <2>1, <2>2, <2>3 DEF Steps
<1>4. ASSUME NEW i \in InvoiceIds, GroupRead(r, i) PROVE SerialInv'
  <2>1. [NoLocals EXCEPT !.id = i, !.phone = invoice[i].phone] \in Locals
    BY NoLocalsType DEF Locals, TypeOK, Invoice
  <2> QED
    BY <1>1, <1>4, <2>1 DEF GroupRead, Steps
<1>5. ASSUME NEW p \in ProofIds, ApproveRead(r, p) \/ RejectRead(r, p) PROVE SerialInv'
  <2> DEFINE l == [NoLocals EXCEPT !.id = proof[p].invoice, !.proof = p]
  <2>1. l \in Locals /\ l.id = proof[p].invoice /\ l.proof = p
    BY NoLocalsType DEF Locals, TypeOK, PaymentProof
  <2>2. proof[p].status = "pending"
    BY <1>5 DEF ApproveRead, RejectRead, Approvable, Reviewable
  <2>3. CASE ApproveRead(r, p)
    BY <1>1, <2>1, <2>2, <2>3 DEF ApproveRead, Approvable, Steps
  <2>4. CASE RejectRead(r, p)
    BY <1>1, <2>1, <2>2, <2>4 DEF RejectRead, Steps
  <2> QED
    BY <1>5, <2>3, <2>4
<1> QED
  BY <1>2, <1>3, <1>4, <1>5

\* The one handler in flight goes elsewhere than to a write, and has approved
\* nothing and paid for nothing.
LEMMA SerialKept ==
    ASSUME TypeOK, SerialInv, ~ overlapped, NEW r \in Requests, pc[r] # "idle",
           \A q \in Requests \ {r} : pc'[q] = pc[q],
           pc'[r] \in {"approve", "cash", "reject", "proof"} =>
               pc'[r] = "proof" /\ proof'[loc'[r].proof].status = "none",
           \A i \in InvoiceIds : invoice'[i].status = "paid" <=> invoice[i].status = "paid",
           \A i \in InvoiceIds : Approved(i)' = Approved(i)
    PROVE  SerialInv'
<1>1. Alone /\ FoundHolds /\ PaidByOne
  BY DEF SerialInv
<1>2. Alone' /\ \A q \in Requests \ {r} : pc'[q] = "idle"
  BY <1>1, AloneKept
<1>3. FoundHolds'
  BY <1>2 DEF FoundHolds
<1>4. PaidByOne'
  BY <1>1 DEF PaidByOne
<1> QED
  BY <1>2, <1>3, <1>4 DEF SerialInv

\* Once a payment is written, the invoice has the one proof that paid for it.
LEMMA PaymentSerial ==
    ASSUME TypeOK, SerialInv, ~ overlapped, NEW r \in Requests, pc[r] # "idle",
           Goto(r, "token", loc[r]), NEW i \in InvoiceIds, Pay(i),
           NEW p \in ProofIds, Approved(i)' = {p},
           \A j \in InvoiceIds \ {i} : Approved(j)' = Approved(j)
    PROVE  SerialInv'
<1>1. Alone /\ FoundHolds /\ PaidByOne
  BY DEF SerialInv
<1>2. loc[r] \in Locals
  BY DEF TypeOK
<1>3. pc'[r] = "token" /\ \A q \in Requests \ {r} : pc'[q] = pc[q] /\ loc'[q] = loc[q]
  BY <1>2, GotoType DEF Steps
<1>4. Alone' /\ \A q \in Requests \ {r} : pc'[q] = "idle"
  BY <1>1, <1>3, AloneKept
<1>5. FoundHolds'
  BY <1>3, <1>4 DEF FoundHolds
<1>6. invoice'[i].status = "paid" /\ \A j \in InvoiceIds \ {i} : invoice'[j] = invoice[j]
  BY PayType
<1>7. PaidByOne'
  <2> SUFFICES ASSUME NEW j \in InvoiceIds
               PROVE  IF invoice'[j].status = "paid" THEN \E q \in ProofIds : Approved(j)' = {q}
                      ELSE Approved(j)' = {}
    BY DEF PaidByOne
  <2>1. CASE j = i
    BY <1>6, <2>1
  <2>2. CASE j # i
    BY <1>1, <1>6, <2>2 DEF PaidByOne
  <2> QED
    BY <2>1, <2>2
<1> QED
  BY <1>4, <1>5, <1>7 DEF SerialInv

\* The proof approved is the one that was pending,
LEMMA ApproveSerial ==
    ASSUME TypeOK, SerialInv, ~ overlapped', NEW r \in Requests, ApproveWrite(r)
    PROVE  SerialInv'
<1>0. PICK i \in InvoiceIds, p \in ProofIds : i = loc[r].id /\ p = loc[r].proof
  BY DEF TypeOK, Locals
<1>1. ~ overlapped /\ pc[r] = "approve" /\ Pay(i) /\ Goto(r, "token", loc[r])
  BY <1>0 DEF ApproveWrite, history
<1>2. /\ proof[p].invoice = i /\ proof[p].status = "pending" /\ invoice[i].status = "pending"
  BY <1>0, <1>1 DEF SerialInv, FoundHolds
<1>3. /\ proof'[p].invoice = i /\ proof'[p].status = "approved"
      /\ \A q \in ProofIds \ {p} : proof'[q] = proof[q]
  BY <1>0, <1>2 DEF ApproveWrite, TypeOK, PaymentProof
<1>4. Approved(i) = {}
  BY <1>1, <1>2 DEF SerialInv, PaidByOne
<1>5. Approved(i)' = {p}
  BY <1>2, <1>3, <1>4 DEF Approved
<1>6. \A j \in InvoiceIds \ {i} : Approved(j)' = Approved(j)
  BY <1>2, <1>3 DEF Approved
<1> QED
  BY <1>1, <1>5, <1>6, PaymentSerial

\* or the one created with the cash payment, which rejects the pending ones.
LEMMA CashSerial ==
    ASSUME TypeOK, SerialInv, ~ overlapped', NEW r \in Requests, CashWrite(r)
    PROVE  SerialInv'
<1>0. PICK i \in InvoiceIds : i = loc[r].id
  BY DEF TypeOK, Locals
<1>1. ~ overlapped /\ pc[r] = "cash" /\ Pay(i) /\ Goto(r, "token", loc[r])
  BY <1>0 DEF CashWrite, history
<1>2. invoice[i].status = "pending"
  BY <1>0, <1>1 DEF SerialInv, FoundHolds
<1>3. PICK p \in ProofIds :
        /\ Fresh(p)
        /\ proof' = [q \in ProofIds |->
                       IF q = p THEN [status |-> "approved", invoice |-> i]
                       ELSE IF proof[q].status = "pending" /\ proof[q].invoice = i
                            THEN [proof[q] EXCEPT !.status = "rejected"]
                            ELSE proof[q]]
  BY <1>0 DEF CashWrite
<1>4. Approved(i) = {}
  BY <1>1, <1>2 DEF SerialInv, PaidByOne
<1>5. /\ proof'[p].invoice = i /\ proof'[p].status = "approved" /\ proof[p].status = "none"
      /\ \A q \in ProofIds \ {p} :
           /\ proof'[q].invoice = proof[q].invoice
           /\ proof'[q].status = "approved" <=> proof[q].status = "approved"
  BY <1>3 DEF Fresh, TypeOK, PaymentProof
<1>6. Approved(i)' = {p}
  BY <1>4, <1>5 DEF Approved
<1>7. \A j \in InvoiceIds \ {i} : Approved(j)' = Approved(j)
  BY <1>5 DEF Approved
<1> QED
  BY <1>1, <1>6, <1>7, PaymentSerial

\* A proof that is uploaded or rejected has not been approved.
LEMMA UploadRejectSerial ==
    ASSUME TypeOK, SerialInv, ~ overlapped', NEW r \in Requests,
           UploadCreate(r) \/ RejectWrite(r)
    PROVE  SerialInv'
<1> DEFINE p == loc[r].proof
<1>1. ~ overlapped /\ pc[r] \in {"proof", "reject"} /\ Finish(r) /\ UNCHANGED invoice
  BY DEF UploadCreate, RejectWrite, history
<1>2. p \in ProofIds /\ proof[p].status \in {"none", "pending"}
  BY <1>1 DEF SerialInv, FoundHolds, TypeOK, Locals
<1>3. /\ proof'[p].status \in {"pending", "rejected"}
      /\ \A q \in ProofIds \ {p} : proof'[q] = proof[q]
  BY <1>2 DEF UploadCreate, RejectWrite, TypeOK, PaymentProof
<1> HIDE DEF p
<1>4. \A i \in InvoiceIds : Approved(i)' = Approved(i)
  BY <1>2, <1>3 DEF Approved
<1> QED
  BY <1>1, <1>4, FinishType, SerialKept

\* The other calls touch no proof and pay for nothing.
LEMMA OtherSerial ==
    ASSUME TypeOK, SerialInv, ~ overlapped', NEW r \in Requests,
           \/ CreateWrite(r) \/ CreateConflict(r) \/ CreateRetry(r)
           \/ UploadFile(r) \/ UploadCreateFails(r) \/ UploadDestroy(r) \/ SignToken(r)
           \/ UserRead(r) \/ UserCreate(r) \/ GroupCreate(r) \/ Fail(r)
    PROVE  SerialInv'
<1>1. ~ overlapped /\ pc[r] # "idle" /\ UNCHANGED proof
  BY DEF CreateWrite, CreateConflict, CreateRetry, UploadFile, UploadCreateFails,
     UploadDestroy, SignToken, UserRead, UserCreate, GroupCreate, Fail, history, rows
<1>2. \A i \in InvoiceIds : Approved(i)' = Approved(i)
  BY <1>1 DEF Approved
<1>3. \A i \in InvoiceIds : invoice'[i].status = "paid" <=> invoice[i].status = "paid"
  <2>1. CASE CreateWrite(r)
    BY <2>1 DEF CreateWrite, TypeOK
  <2>2. CASE UNCHANGED invoice
    BY <2>2
  <2> QED
    BY <2>1, <2>2 DEF CreateConflict, CreateRetry, UploadFile, UploadCreateFails,
       UploadDestroy, SignToken, UserRead, UserCreate, GroupCreate, Fail, rows
<1>4. \A q \in Requests \ {r} : pc'[q] = pc[q]
  BY DEF CreateWrite, CreateConflict, CreateRetry, UploadFile, UploadCreateFails,
     UploadDestroy, SignToken, UserRead, UserCreate, GroupCreate, Fail, Finish, Goto, TypeOK
<1>5. pc'[r] \in {"approve", "cash", "reject", "proof"} =>
        pc'[r] = "proof" /\ proof'[loc'[r].proof].status = "none"
  <2>1. CASE UploadFile(r)
    <3>1. PICK p \in ProofIds : Fresh(p) /\ Goto(r, "proof", [loc[r] EXCEPT !.proof = p])
      BY <2>1 DEF UploadFile
    <3>2. [loc[r] EXCEPT !.proof = p] \in Locals /\ [loc[r] EXCEPT !.proof = p].proof = p
      BY DEF TypeOK, Locals
    <3>3. pc'[r] = "proof" /\ loc'[r].proof = p
      BY <3>1, <3>2, GotoType DEF Steps
    <3> QED
      BY <1>1, <3>1, <3>3 DEF Fresh
  <2>2. CASE ~ UploadFile(r)
    BY <2>2 DEF CreateWrite, CreateConflict, CreateRetry, UploadCreateFails,
       UploadDestroy, SignToken, UserRead, UserCreate, GroupCreate, Fail, Finish, Goto, TypeOK
  <2> QED
    BY <2>1, <2>2
<1> QED
  BY <1>1, <1>2, <1>3, <1>4, <1>5, SerialKept

LEMMA SerialNext == TypeOK /\ SerialInv /\ [Next]_vars => SerialInv'
<1> SUFFICES ASSUME TypeOK, SerialInv, [Next]_vars, ~ overlapped' PROVE SerialInv'
  BY DEF SerialInv
<1>1. ASSUME NEW r \in Requests, Resume(r) \/ Fail(r) PROVE SerialInv'
  BY <1>1, OtherSerial, UploadRejectSerial, ApproveSerial, CashSerial DEF Resume
<1>2. CASE \/ \E i \in InvoiceIds : TokenExpires(i)
           \/ \E c \in Customers : SignUp(c)
           \/ UNCHANGED vars
  <2>1. UNCHANGED <<invoice, proof, pc, loc, overlapped>>
    BY <1>2 DEF TokenExpires, SignUp, vars, rows, history
  <2> QED
    BY <2>1 DEF SerialInv, Alone, FoundHolds, PaidByOne, Approved
<1> QED
  BY <1>1, <1>2, BeginSerial DEF Next

LEMMA SpecSerial == Spec => []SerialInv
<1>1. ASSUME Init PROVE SerialInv
  <2>1. \A p \in ProofIds : proof[p].status = "none"
    BY <1>1 DEF Init, NoProof
  <2>2. \A i \in InvoiceIds : invoice[i].status = "none" /\ Approved(i) = {}
    BY <1>1, <2>1 DEF Init, NoInvoice, Approved
  <2> QED
    BY <1>1, <2>2 DEF Init, SerialInv, Alone, FoundHolds, PaidByOne
<1> QED
  BY <1>1, SerialNext, TypeCorrect, PTL DEF Spec

\* While no two handlers overlap, a paid invoice has exactly one approved proof,
\* cash included, and another has none (approvePop, recordCashPayment).
THEOREM InvoicesArePaidOnce == Spec => []PaidOnce
<1>1. SerialInv => PaidOnce
  <2> SUFFICES ASSUME SerialInv, ~ overlapped, NEW i \in InvoiceIds
               PROVE  Cardinality(Approved(i)) = IF invoice[i].status = "paid" THEN 1 ELSE 0
    BY DEF PaidOnce, Approved
  <2> QED
    BY FS_EmptySet, FS_Singleton DEF SerialInv, PaidByOne
<1> QED
  BY <1>1, SpecSerial, PTL

\* While no two handlers overlap, an approved or rejected proof never changes
\* (uploadPop, approvePop, rejectPop, recordCashPayment).
THEOREM ReviewsAreFinal == Spec => ReviewIsFinal
<1>1. ASSUME TypeOK, SerialInv, [Next]_vars, ~ overlapped',
             NEW p \in ProofIds, proof[p].status \in {"approved", "rejected"}
      PROVE  proof'[p] = proof[p]
  <2>1. ASSUME NEW r \in Requests, UploadCreate(r) \/ ApproveWrite(r) \/ RejectWrite(r)
        PROVE  proof'[p] = proof[p]
    <3>1. ~ overlapped /\ pc[r] \in {"proof", "approve", "reject"}
      BY <1>1, <2>1 DEF UploadCreate, ApproveWrite, RejectWrite, history
    <3>2. proof[loc[r].proof].status \in {"none", "pending"}
      BY <1>1, <3>1 DEF SerialInv, FoundHolds
    <3>3. p # loc[r].proof
      BY <1>1, <3>2
    <3> QED
      BY <1>1, <2>1, <3>3 DEF UploadCreate, ApproveWrite, RejectWrite, TypeOK
  <2>2. ASSUME NEW r \in Requests, CashWrite(r)
        PROVE  proof'[p] = proof[p]
    BY <1>1, <2>2 DEF CashWrite, Fresh
  <2>3. CASE UNCHANGED proof
    BY <2>3
  <2> QED
    BY <1>1, <2>1, <2>2, <2>3 DEF Next, Resume, CreateRead, UploadRead, CashRead, GroupRead,
       ApproveRead, RejectRead, Begin, CreateWrite, CreateConflict, CreateRetry, UploadFile,
       UploadCreateFails, UploadDestroy, SignToken, UserRead, UserCreate, GroupCreate, Fail,
       TokenExpires, SignUp, rows, vars
<1>2. TypeOK /\ SerialInv /\ [Next]_vars =>
        [~ overlapped' =>
           \A p \in ProofIds :
              proof[p].status \in {"approved", "rejected"} => proof'[p] = proof[p]]_vars
  BY <1>1
<1> QED
  BY <1>2, TypeCorrect, SpecSerial, PTL DEF Spec, ReviewIsFinal

-----------------------------------------------------------------------------
(* The proof of a contribution.                                              *)

\* What a handler is left with.
LEMMA ProofGotoType ==
    ASSUME ProofTypeOK, NEW q \in Callers, NEW step \in ProofSteps,
           NEW a \in Assets \cup {NoAsset}, ProofGoto(q, step, a)
    PROVE  /\ proofPc' \in [Callers -> ProofSteps]
           /\ proofLoc' \in [Callers -> Assets \cup {NoAsset}]
           /\ proofPc'[q] = step /\ proofLoc'[q] = a
           /\ \A o \in Callers \ {q} : proofPc'[o] = proofPc[o] /\ proofLoc'[o] = proofLoc[o]
  BY DEF ProofTypeOK, ProofGoto

\* The same of a handler that ends.
LEMMA ProofFinishType ==
    ASSUME ProofTypeOK, NEW q \in Callers, ProofFinish(q)
    PROVE  /\ proofPc' \in [Callers -> ProofSteps]
           /\ proofLoc' \in [Callers -> Assets \cup {NoAsset}]
           /\ proofPc'[q] = "idle" /\ proofLoc'[q] = NoAsset
           /\ \A o \in Callers \ {q} : proofPc'[o] = proofPc[o] /\ proofLoc'[o] = proofLoc[o]
  BY ProofGotoType DEF ProofFinish, ProofSteps

\* A file is in the hands of the one upload that stored it until it is in the
\* row; from then on, of those that read it there.
Uploading == {"find", "update", "insert"}

Holding ==
    /\ proofKey \in named \cup {NoAsset}
    /\ \A q \in Callers :
        /\ proofPc[q] \in Uploading => proofLoc[q] \in stored \ named
        /\ proofPc[q] \in {"destroy", "notify"} => proofLoc[q] \in named
        /\ proofPc[q] = "clean up" => proofLoc[q] \in Assets
        /\ proofPc[q] \in {"idle", "clear"} => proofLoc[q] \in named \cup {NoAsset}
        /\ proofLoc[q] \in Assets \ named => \A o \in Callers \ {q} : proofLoc[o] # proofLoc[q]

ProofInv == ProofTypeOK /\ Holding /\ ProofIsStored

\* At first there is no file.
LEMMA ProofInitial == ProofInit => ProofInv
  BY ProofAssumption DEF ProofInit, ProofInv, ProofTypeOK, Holding, ProofIsStored, ProofSteps, Uploading

\* An upload that has stored its file.
LEMMA StoreFileKeeps ==
    ASSUME ProofInv, NEW q \in Callers, NEW a \in Assets, StoreFile(q, a)
    PROVE  ProofInv'
<1>1. /\ proofPc' \in [Callers -> ProofSteps]
      /\ proofLoc' \in [Callers -> Assets \cup {NoAsset}]
      /\ proofPc'[q] = "find" /\ proofLoc'[q] = a
      /\ \A o \in Callers \ {q} : proofPc'[o] = proofPc[o] /\ proofLoc'[o] = proofLoc[o]
  BY ProofGotoType DEF ProofInv, StoreFile, ProofSteps
<1>2. ProofTypeOK'
  BY <1>1 DEF ProofInv, ProofTypeOK, StoreFile
<1>3. Holding'
  <2>1. a \notin stored \cup named /\ \A o \in Callers : proofLoc[o] # a
    BY DEF StoreFile, FreshAsset
  <2>2. UNCHANGED <<proofKey, named>> /\ stored' = stored \cup {a}
    BY DEF StoreFile
  <2>3. ASSUME NEW o \in Callers, proofLoc'[o] \in Assets \ named', NEW p \in Callers \ {o}
        PROVE  proofLoc'[p] # proofLoc'[o]
    <3>1. CASE o = q
      BY <1>1, <2>1, <3>1
    <3>2. CASE o # q /\ p = q
      BY <1>1, <2>1, <3>2
    <3>3. CASE o # q /\ p # q
      BY <1>1, <2>2, <2>3, <3>3 DEF ProofInv, Holding
    <3> QED
      BY <3>1, <3>2, <3>3
  <2>4. ASSUME NEW o \in Callers \ {q}, proofPc'[o] \in Uploading
        PROVE  proofLoc'[o] \in stored' \ named'
    BY <1>1, <2>2, <2>4 DEF ProofInv, Holding
  <2>5. \A o \in Callers \ {q} :
          /\ proofPc'[o] \in {"destroy", "notify"} => proofLoc'[o] \in named'
          /\ proofPc'[o] = "clean up" => proofLoc'[o] \in Assets
          /\ proofPc'[o] \in {"idle", "clear"} => proofLoc'[o] \in named' \cup {NoAsset}
    BY <1>1, <2>2 DEF ProofInv, Holding
  <2> QED
    BY <1>1, <2>1, <2>2, <2>3, <2>4, <2>5 DEF ProofInv, Holding
<1>4. ProofIsStored'
  BY <1>1 DEF ProofInv, ProofTypeOK, ProofIsStored, StoreFile
<1> QED
  BY <1>2, <1>3, <1>4 DEF ProofInv

\* An upload between two of its writes, which changes no row and no file.
LEMMA UploadStepKeeps ==
    ASSUME ProofInv, NEW q \in Callers, FindRow(q) \/ UploadThrows(q) \/ Notified(q)
    PROVE  ProofInv'
<1>1. PICK step \in ProofSteps : \E a \in Assets \cup {NoAsset} :
        /\ ProofGoto(q, step, a)
        /\ \/ proofPc[q] = "find" /\ step \in Uploading /\ a = proofLoc[q]
           \/ proofPc[q] \in Uploading \cup {"notify"} /\ step = "clean up" /\ a = proofLoc[q]
           \/ proofPc[q] = "notify" /\ step = "idle" /\ a = NoAsset
  BY DEF FindRow, UploadThrows, Notified, ProofFinish, ProofInv, ProofTypeOK, ProofSteps, Uploading
<1>2. PICK a \in Assets \cup {NoAsset} :
        /\ ProofGoto(q, step, a)
        /\ \/ proofPc[q] = "find" /\ step \in Uploading /\ a = proofLoc[q]
           \/ proofPc[q] \in Uploading \cup {"notify"} /\ step = "clean up" /\ a = proofLoc[q]
           \/ proofPc[q] = "notify" /\ step = "idle" /\ a = NoAsset
  BY <1>1
<1>3. /\ proofPc' \in [Callers -> ProofSteps]
      /\ proofLoc' \in [Callers -> Assets \cup {NoAsset}]
      /\ proofPc'[q] = step /\ proofLoc'[q] = a
      /\ \A o \in Callers \ {q} : proofPc'[o] = proofPc[o] /\ proofLoc'[o] = proofLoc[o]
  BY <1>2, ProofGotoType DEF ProofInv
<1>4. UNCHANGED <<recorded, proofKey, stored, named, abandoned>>
  BY DEF FindRow, UploadThrows, Notified
<1>5. ProofTypeOK'
  BY <1>3, <1>4 DEF ProofInv, ProofTypeOK
<1>6. Holding'
  BY <1>2, <1>3, <1>4, ProofAssumption, ZenonT(60) DEF ProofInv, ProofTypeOK, Holding, Uploading
<1>7. ProofIsStored'
  BY <1>2, <1>3, <1>4 DEF ProofInv, ProofTypeOK, ProofIsStored, Uploading
<1> QED
  BY <1>5, <1>6, <1>7 DEF ProofInv

\* The file of an upload comes into the row.
LEMMA NameFileKeeps ==
    ASSUME ProofInv, NEW q \in Callers, ReplaceProof(q) \/ CreateWithProof(q)
    PROVE  ProofInv'
<1>1. NameFile(q) /\ proofPc[q] \in Uploading /\ recorded' \in BOOLEAN
  BY DEF ReplaceProof, CreateWithProof, Uploading, ProofInv, ProofTypeOK
<1>2. proofLoc[q] \in stored \ named /\ proofLoc[q] \in Assets
  BY <1>1 DEF ProofInv, ProofTypeOK, Holding
<1>3. /\ proofPc' \in [Callers -> ProofSteps]
      /\ proofLoc' \in [Callers -> Assets \cup {NoAsset}]
      /\ proofPc'[q] = "notify" /\ proofLoc'[q] = proofLoc[q]
      /\ \A o \in Callers \ {q} : proofPc'[o] = proofPc[o] /\ proofLoc'[o] = proofLoc[o]
  BY <1>1, <1>2, ProofGotoType DEF ProofInv, NameFile, ProofSteps
<1>4. ProofTypeOK'
  BY <1>1, <1>2, <1>3 DEF ProofInv, ProofTypeOK, NameFile
<1>5. \A o \in Callers \ {q} : proofLoc[o] # proofLoc[q]
  BY <1>2 DEF ProofInv, Holding
<1>6. Holding'
  BY <1>1, <1>2, <1>3, <1>5, ZenonT(60) DEF ProofInv, ProofTypeOK, Holding, NameFile, Uploading
<1>7. ProofIsStored'
  BY <1>1, <1>2 DEF ProofIsStored, NameFile
<1> QED
  BY <1>4, <1>6, <1>7 DEF ProofInv

\* The catch block destroys the file of its upload, in the row or not.
LEMMA CleanUpKeeps ==
    ASSUME ProofInv, NEW q \in Callers, CleanUp(q)
    PROVE  ProofInv'
<1>1. /\ proofPc' \in [Callers -> ProofSteps]
      /\ proofLoc' \in [Callers -> Assets \cup {NoAsset}]
      /\ proofPc'[q] = "idle" /\ proofLoc'[q] = NoAsset
      /\ \A o \in Callers \ {q} : proofPc'[o] = proofPc[o] /\ proofLoc'[o] = proofLoc[o]
  BY ProofFinishType DEF ProofInv, CleanUp
<1>2. proofLoc[q] \in Assets /\ proofPc[q] = "clean up"
  BY DEF ProofInv, Holding, CleanUp
<1>3. stored' \in SUBSET stored /\ stored \ {proofLoc[q]} \in SUBSET stored'
  BY DEF CleanUp, Destroyed
<1>4. ProofTypeOK'
  BY <1>1, <1>2, <1>3 DEF ProofInv, ProofTypeOK, CleanUp
<1>5. Holding'
  <2>1. ASSUME NEW o \in Callers, proofPc'[o] \in Uploading
        PROVE  proofLoc'[o] \in stored' \ named'
    <3>1. o # q
      BY <1>1, <2>1 DEF Uploading
    <3>2. proofLoc[o] \in stored \ named /\ proofLoc[o] # proofLoc[q]
      BY <1>1, <1>2, <2>1, <3>1 DEF ProofInv, ProofTypeOK, Holding
    <3> QED
      BY <1>1, <1>3, <3>1, <3>2 DEF CleanUp
  <2> QED
    BY <1>1, <1>2, <2>1, ProofAssumption, ZenonT(60) DEF ProofInv, ProofTypeOK, Holding, CleanUp
<1>6. ProofIsStored'
  <2>1. CASE proofKey \in abandoned \cup {NoAsset} \/ proofKey = proofLoc[q]
    BY <1>2, <2>1, ProofAssumption DEF ProofInv, Holding, ProofIsStored, CleanUp
  <2>2. CASE proofKey \in stored /\ proofKey # proofLoc[q]
    BY <1>3, <2>2 DEF ProofIsStored, CleanUp
  <2>3. CASE \E o \in Callers : proofPc[o] = "clear" /\ proofLoc[o] = proofKey
    BY <1>1, <1>2, <2>3 DEF ProofIsStored, CleanUp
  <2> QED
    BY <2>1, <2>2, <2>3 DEF ProofInv, ProofIsStored
<1> QED
  BY <1>4, <1>5, <1>6 DEF ProofInv

\* A rejection reads what the row names.
LEMMA ReadProofKeeps ==
    ASSUME ProofInv, NEW q \in Callers, ReadProof(q)
    PROVE  ProofInv'
<1>1. PICK step \in {"clear", "destroy"} :
        /\ ProofGoto(q, step, proofKey)
        /\ step = "destroy" => proofKey # NoAsset
  BY DEF ReadProof
<1>2. /\ proofPc' \in [Callers -> ProofSteps]
      /\ proofLoc' \in [Callers -> Assets \cup {NoAsset}]
      /\ proofPc'[q] = step /\ proofLoc'[q] = proofKey
      /\ \A o \in Callers \ {q} : proofPc'[o] = proofPc[o] /\ proofLoc'[o] = proofLoc[o]
  BY <1>1, ProofGotoType, ZenonT(60) DEF ProofInv, ProofTypeOK, ProofSteps
<1>3. ProofTypeOK'
  BY <1>2 DEF ProofInv, ProofTypeOK, ReadProof
<1>4. Holding'
  BY <1>1, <1>2, ProofAssumption, ZenonT(60) DEF ProofInv, ProofTypeOK, Holding, ReadProof, Uploading
<1>5. ProofIsStored'
  BY <1>2 DEF ProofInv, ProofTypeOK, ProofIsStored, ReadProof
<1> QED
  BY <1>3, <1>4, <1>5 DEF ProofInv

\* A rejection destroys the file it read, and remembers it.
LEMMA DestroyProofKeeps ==
    ASSUME ProofInv, NEW q \in Callers, DestroyProof(q)
    PROVE  ProofInv'
<1>1. proofLoc[q] \in named /\ proofPc[q] = "destroy" /\ proofLoc[q] \in Assets
  BY DEF ProofInv, ProofTypeOK, Holding, DestroyProof
<1>2. /\ proofPc' \in [Callers -> ProofSteps]
      /\ proofLoc' \in [Callers -> Assets \cup {NoAsset}]
      /\ proofPc'[q] = "clear" /\ proofLoc'[q] = proofLoc[q]
      /\ \A o \in Callers \ {q} : proofPc'[o] = proofPc[o] /\ proofLoc'[o] = proofLoc[o]
  BY <1>1, ProofGotoType DEF ProofInv, DestroyProof, ProofSteps
<1>3. stored' \in SUBSET stored /\ stored \ {proofLoc[q]} \in SUBSET stored'
  BY DEF DestroyProof, Destroyed
<1>4. ProofTypeOK'
  BY <1>2, <1>3 DEF ProofInv, ProofTypeOK, DestroyProof
<1>5. Holding'
  <2>1. ASSUME NEW o \in Callers, proofPc'[o] \in Uploading
        PROVE  proofLoc'[o] \in stored' \ named'
    <3>1. o # q /\ proofLoc[o] \in stored \ named /\ proofLoc'[o] = proofLoc[o]
      BY <1>2, <2>1 DEF ProofInv, Holding, Uploading
    <3> QED
      BY <1>1, <1>3, <3>1 DEF DestroyProof
  <2> QED
    BY <1>1, <1>2, <2>1 DEF ProofInv, ProofTypeOK, Holding, DestroyProof
<1>6. ProofIsStored'
  BY <1>1, <1>2, <1>3 DEF ProofInv, ProofIsStored, DestroyProof
<1> QED
  BY <1>4, <1>5, <1>6 DEF ProofInv

\* A rejection ends with a row that names no file.
LEMMA ClearProofKeeps ==
    ASSUME ProofInv, NEW q \in Callers, ClearProof(q)
    PROVE  ProofInv'
<1>1. /\ proofPc' \in [Callers -> ProofSteps]
      /\ proofLoc' \in [Callers -> Assets \cup {NoAsset}]
      /\ proofPc'[q] = "idle" /\ proofLoc'[q] = NoAsset
      /\ \A o \in Callers \ {q} : proofPc'[o] = proofPc[o] /\ proofLoc'[o] = proofLoc[o]
  BY ProofFinishType DEF ProofInv, ClearProof
<1>2. ProofTypeOK'
  BY <1>1 DEF ProofInv, ProofTypeOK, ClearProof
<1>3. Holding'
  BY <1>1, ProofAssumption, ZenonT(60) DEF ProofInv, ProofTypeOK, Holding, ClearProof, Uploading
<1>4. ProofIsStored'
  BY DEF ProofIsStored, ClearProof
<1> QED
  BY <1>2, <1>3, <1>4 DEF ProofInv

\* A request dies; a rejection that was about to clear the row does not.
LEMMA DeathKeeps ==
    ASSUME ProofInv, NEW q \in Callers, ProofRequestDies(q)
    PROVE  ProofInv'
<1>1. /\ proofPc' \in [Callers -> ProofSteps]
      /\ proofLoc' \in [Callers -> Assets \cup {NoAsset}]
      /\ proofPc'[q] = "idle" /\ proofLoc'[q] = NoAsset
      /\ \A o \in Callers \ {q} : proofPc'[o] = proofPc[o] /\ proofLoc'[o] = proofLoc[o]
  BY ProofFinishType DEF ProofInv, ProofRequestDies
<1>2. abandoned \in SUBSET abandoned' /\ abandoned' \in SUBSET Assets
  BY DEF ProofInv, ProofTypeOK, ProofRequestDies
<1>3. ProofTypeOK'
  BY <1>1, <1>2 DEF ProofInv, ProofTypeOK, ProofRequestDies
<1>4. Holding'
  BY <1>1, ProofAssumption, ZenonT(60) DEF ProofInv, ProofTypeOK, Holding, ProofRequestDies, Uploading
<1>5. ProofIsStored'
  <2>1. CASE proofPc[q] = "clear" /\ proofLoc[q] = proofKey
    BY <2>1 DEF ProofIsStored, ProofRequestDies
  <2>2. CASE ~ (proofPc[q] = "clear" /\ proofLoc[q] = proofKey)
    BY <1>1, <1>2, <2>2 DEF ProofInv, ProofIsStored, ProofRequestDies
  <2> QED
    BY <2>1, <2>2
<1> QED
  BY <1>3, <1>4, <1>5 DEF ProofInv

\* Every step keeps the invariant.
LEMMA ProofStep == ProofInv /\ [ProofNext]_proofVars => ProofInv'
<1> SUFFICES ASSUME ProofInv, [ProofNext]_proofVars PROVE ProofInv'
  OBVIOUS
<1>1. ASSUME NEW q \in Callers, NEW a \in Assets, StoreFile(q, a) PROVE ProofInv'
  BY <1>1, StoreFileKeeps
<1>2. ASSUME NEW q \in Callers, FindRow(q) \/ UploadThrows(q) \/ Notified(q) PROVE ProofInv'
  BY <1>2, UploadStepKeeps
<1>3. ASSUME NEW q \in Callers, ReplaceProof(q) \/ CreateWithProof(q) PROVE ProofInv'
  BY <1>3, NameFileKeeps
<1>4. ASSUME NEW q \in Callers, CleanUp(q) PROVE ProofInv'
  BY <1>4, CleanUpKeeps
<1>5. ASSUME NEW q \in Callers, ReadProof(q) PROVE ProofInv'
  BY <1>5, ReadProofKeeps
<1>6. ASSUME NEW q \in Callers, DestroyProof(q) PROVE ProofInv'
  BY <1>6, DestroyProofKeeps
<1>7. ASSUME NEW q \in Callers, ClearProof(q) PROVE ProofInv'
  BY <1>7, ClearProofKeeps
<1>8. ASSUME NEW q \in Callers, ProofRequestDies(q) PROVE ProofInv'
  BY <1>8, DeathKeeps
<1>9. CASE RecordWithoutProof
  BY <1>9 DEF ProofInv, ProofTypeOK, Holding, ProofIsStored, RecordWithoutProof, proofHandlers
<1>10. CASE UNCHANGED proofVars
  BY <1>10 DEF ProofInv, ProofTypeOK, Holding, ProofIsStored, proofVars, proofHandlers
<1> QED
  BY <1>1, <1>2, <1>3, <1>4, <1>5, <1>6, <1>7, <1>8, <1>9, <1>10 DEF ProofNext

\* The invariant holds all along.
LEMMA ProofInvariant == ProofSpec => []ProofInv
  BY ProofInitial, ProofStep, PTL DEF ProofSpec

\* The types of the row, the files and the handlers of a contribution.
THEOREM ProofTypeCorrect == ProofSpec => []ProofTypeOK
  BY ProofInvariant, PTL DEF ProofInv

\* The file a contribution names is stored, whatever uploads and rejections of
\* it cross (uploadContributionProof, rejectContribution), unless a request
\* failed between destroying it and clearing the row.
THEOREM NamedFilesAreStored == ProofSpec => []ProofIsStored
  BY ProofInvariant, PTL DEF ProofInv

=============================================================================
