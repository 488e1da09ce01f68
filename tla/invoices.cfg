\* Two handlers in flight, two invoices of one customer; an invoice number is
\* tried twice, so that giving up can be reached.  Or one contribution with
\* two files, so that one is replaced.
CONSTANTS
    i1 = i1
    i2 = i2
    p1 = p1
    p2 = p2
    c1 = c1
    r1 = r1
    r2 = r2
    a1 = a1
    a2 = a2
    InvoiceIds = {i1, i2}
    ProofIds = {p1, p2}
    Customers = {c1}
    Requests = {r1, r2}
    MaxRetries = 2
    Assets = {a1, a2}
    NoAsset = NoAsset
    Callers = {r1, r2}
SPECIFICATION MCSpec
INVARIANTS
    FilesHaveProofs
    PaidOnce
    ProofIsStored
PROPERTIES
    ReviewIsFinal
    PaidGetsToken
