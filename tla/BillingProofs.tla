--------------------------- MODULE BillingProofs ---------------------------
(* Proofs about Billing: its invariants, that it keeps the PaymentBook, and   *)
(* that a request which nothing interleaves with never pays too much.         *)
EXTENDS Billing, CashProofs

TxSteps == {"insert", "update", "register", "entry", "commit"}
WrittenSteps == {"update", "register", "entry", "commit"}

\* What a request in flight may rely on: its invoice, what it has read of it, the
\* number it will give, and the cash it has already put in a register.
RequestOK(q) ==
  /\ q.tx # "none" => q.kind = "pay" /\ q.step \in TxSteps
  /\ q.kind # "invoice" => Issued(q.invoice)
  /\ q.kind = "pay" => q.total = invoice[q.invoice].total
  /\ q.kind = "pay" /\ q.step # "payments" => q.seen <= Paid(q.invoice)
  /\ q.kind = "pay" /\ q.step \notin {"payments", "number"} =>
       1 <= q.number /\ q.number <= newest + 1
  /\ q.step \in TxSteps => q.kind = "pay"
  /\ q.step = "entry" => q.register \in Registers /\ Exists(q.register)
  /\ q.tx = "open" /\ q.step \in WrittenSteps => q.number \notin numbers
  /\ q.tx = "open" /\ q.step = "commit" /\ q.method = "CASH" =>
       paid[q.invoice]["CASH"] + q.amount <= cashIn[q.invoice]

RequestsOK == \A r \in Requests : Busy(r) => RequestOK(req[r])

BillingInv ==
  /\ TypeOK /\ CashInv
  /\ RequestsOK
  /\ NumbersGapless /\ PaymentsSerialised
  /\ PaidInFull /\ CashIsRecorded

\* A step that changes one request and nothing else keeps the invariant when the
\* request may rely on what it has, and is not the second to insert a payment.
LEMMA RequestStepKeeps ==
  ASSUME BillingInv, NEW r \in Requests, NEW next \in Request \cup {NoRequest},
         req' = [req EXCEPT ![r] = next], UNCHANGED <<billing, cashVars>>,
         next # NoRequest => RequestOK(next),
         next # NoRequest /\ next.tx = "open" /\ next.step \in WrittenSteps =>
           \A s \in Requests \ {r} : ~Inserted(s)
  PROVE  BillingInv'
<1> USE DEF billing, cashVars
<1>1. /\ req' \in [Requests -> Request \cup {NoRequest}]
      /\ req'[r] = next /\ \A s \in Requests \ {r} : req'[s] = req[s]
  BY DEF BillingInv, TypeOK
<1>2. TypeOK' /\ CashInv'
  BY <1>1 DEF BillingInv, TypeOK, CashInv, CashTypeOK, CallsInv, NoEntriesYet,
              TriggerAgreesWithStats, Does, IsOpen, Exists
<1>3. NumbersGapless' /\ PaidInFull' /\ CashIsRecorded'
  BY DEF BillingInv, NumbersGapless, PaidInFull, CashIsRecorded, Issued, Paid
<1>4. PaymentsSerialised'
  BY <1>1 DEF BillingInv, PaymentsSerialised, Inserted, InTx, Busy, WrittenSteps
<1>5. RequestsOK'
  BY <1>1 DEF BillingInv, RequestsOK, RequestOK, Busy, Issued, Paid, Exists
<1> QED
  BY <1>2, <1>3, <1>4, <1>5 DEF BillingInv

\* Two payments that both hold a number hold the same one.
LEMMA HeldNumber ==
  ASSUME BillingInv, NEW r \in Requests, Busy(r), req[r].kind = "pay",
         req[r].step \notin {"payments", "number"}, req[r].number \notin numbers
  PROVE  req[r].number = newest + 1
<1>1. /\ 1 <= req[r].number /\ req[r].number <= newest + 1
      /\ numbers = 1 .. newest /\ newest \in Nat /\ req[r].number \in Nat
  BY DEF BillingInv, RequestsOK, RequestOK, NumbersGapless, TypeOK, Busy, Request
<1> QED
  BY <1>1

\* A request that arrives.
LEMMA ArrivalKeeps ==
  ASSUME BillingInv, NEW r \in Requests, Arrives(r)
  PROVE  BillingInv'
<1> USE CashAssumption, BillingAssumption
<1>1. ASSUME NEW kind \in {"invoice", "pay", "cancel"}, NEW step \in {"payments", "number"},
             NEW i \in Invoices, NEW total \in Int, NEW amount \in Nat,
             NEW method \in Methods, Begin(r, kind, step, i, total, amount, method),
             kind # "invoice" => Issued(i),
             kind = "pay" => total = invoice[i].total /\ step = "payments"
      PROVE  BillingInv'
  <2> DEFINE next == [kind |-> kind, step |-> step, invoice |-> i, total |-> total,
                      amount |-> amount, method |-> method, seen |-> 0, number |-> 0,
                      tx |-> "none", register |-> NoRegister]
  <2>1. next \in Request
    BY DEF Request, Steps
  <2>2. RequestOK(next)
    BY <1>1 DEF RequestOK, TxSteps, WrittenSteps
  <2>3. req' = [req EXCEPT ![r] = next] /\ UNCHANGED <<billing, cashVars>>
    BY <1>1 DEF Begin
  <2>4. next.tx = "none"
    OBVIOUS
  <2> HIDE DEF next
  <2> QED
    BY <2>1, <2>2, <2>3, <2>4, RequestStepKeeps
<1>2. PICK i \in Invoices :
        \/ \E total \in Totals : InvoiceReadsTicket(r, i, total)
        \/ \E a \in Amounts, m \in Methods : PayReadsInvoice(r, i, a, m)
        \/ CancelReadsInvoice(r, i)
  BY DEF Arrives
<1>3. ASSUME NEW total \in Totals, InvoiceReadsTicket(r, i, total)
      PROVE  BillingInv'
  BY <1>1, <1>3 DEF InvoiceReadsTicket, Methods
<1>4. ASSUME NEW a \in Amounts, NEW m \in Methods, PayReadsInvoice(r, i, a, m)
      PROVE  BillingInv'
  <2>1. Issued(i) /\ invoice[i].total \in Int
    BY <1>4 DEF PayReadsInvoice, Issued, BillingInv, TypeOK, InvoiceRow
  <2> QED
    BY <1>1, <1>4, <2>1 DEF PayReadsInvoice
<1>5. ASSUME CancelReadsInvoice(r, i)
      PROVE  BillingInv'
  BY <1>1, <1>5 DEF CancelReadsInvoice, Methods
<1> QED
  BY <1>2, <1>3, <1>4, <1>5

\* A request in flight is well formed and may rely on what it has.
LEMMA InFlight ==
  ASSUME BillingInv, NEW r \in Requests, Busy(r)
  PROVE  /\ req[r] \in Request /\ RequestOK(req[r])
         /\ req[r].invoice \in Invoices
         /\ paid[req[r].invoice]["CASH"] \in Nat /\ paid[req[r].invoice]["CARD"] \in Nat
<1>1. req[r] \in Request /\ RequestOK(req[r])
  BY DEF BillingInv, TypeOK, Busy, RequestsOK
<1>2. req[r].invoice \in Invoices
  BY <1>1 DEF Request
<1> QED
  BY <1>1, <1>2 DEF BillingInv, TypeOK, Methods

\* Steps that write nothing but their own progress.
LEMMA ProgressKeeps ==
  ASSUME BillingInv, NEW r \in Requests,
         \/ InvoiceReadsNumber(r) \/ PayReadsPayments(r) \/ PayReadsNumber(r)
         \/ PayBegins(r) \/ PayInserts(r) \/ PayUpdates(r) \/ PayFindsRegister(r)
         \/ CancelReadsPayments(r) \/ CancelWaits(r) \/ Throws(r) \/ Expires(r) \/ Crashes(r)
  PROVE  BillingInv'
<1> USE BillingAssumption
<1>1. Busy(r)
  BY DEF InvoiceReadsNumber, PayReadsPayments, PayReadsNumber, PayBegins, PayInserts,
         PayUpdates, PayFindsRegister, CancelReadsPayments, CancelWaits, Throws, Expires,
         Crashes, At, InTx
<1>2. /\ req[r] \in Request /\ RequestOK(req[r])
      /\ req[r].invoice \in Invoices
      /\ paid[req[r].invoice]["CASH"] \in Nat /\ paid[req[r].invoice]["CARD"] \in Nat
  BY <1>1, InFlight
<1>3. newest \in Nat
  BY DEF BillingInv, TypeOK
<1>4. CASE InvoiceReadsNumber(r)
  <2> DEFINE next == [req[r] EXCEPT !.number = NextNumber(newestInvoice), !.step = "write"]
  <2>1. NextNumber(newestInvoice) \in Nat
    BY DEF NextNumber, BillingInv, TypeOK
  <2>2. next \in Request /\ RequestOK(next) /\ next.tx = "none"
    BY <1>2, <1>4, <2>1 DEF InvoiceReadsNumber, At, Request, Steps, RequestOK, TxSteps,
                            WrittenSteps
  <2>3. req' = [req EXCEPT ![r] = next] /\ UNCHANGED <<billing, cashVars>>
    BY <1>4 DEF InvoiceReadsNumber, Reads
  <2> HIDE DEF next
  <2> QED
    BY <2>2, <2>3, RequestStepKeeps
<1>5. CASE PayReadsPayments(r)
  <2> DEFINE next == [req[r] EXCEPT !.seen = Paid(req[r].invoice), !.step = "number"]
  <2>1. /\ next \in Request /\ next.tx = "none" /\ RequestOK(next)
    <3>1. req[r].kind = "pay" /\ req[r].step = "payments" /\ req[r].tx = "none"
      BY <1>2, <1>5 DEF PayReadsPayments, At, Request, RequestOK, TxSteps
    <3>2. Paid(req[r].invoice) \in Nat
      BY <1>2 DEF Paid
    <3>3. next \in Request
      BY <1>2, <3>2 DEF Request, Steps
    <3>4. /\ next.seen = Paid(req[r].invoice) /\ next.step = "number"
          /\ next.kind = "pay" /\ next.tx = "none"
          /\ next.invoice = req[r].invoice /\ next.total = req[r].total
      BY <1>2, <3>1 DEF Request
    <3>5. next.seen <= Paid(next.invoice)
      BY <3>2, <3>4
    <3>6. Issued(next.invoice) /\ next.total = invoice[next.invoice].total
      BY <1>2, <3>1, <3>4 DEF RequestOK
    <3>7. RequestOK(next)
      BY <3>4, <3>5, <3>6 DEF RequestOK, TxSteps, WrittenSteps
    <3> QED
      BY <3>3, <3>4, <3>7
  <2>2. req' = [req EXCEPT ![r] = next] /\ UNCHANGED <<billing, cashVars>>
    BY <1>5 DEF PayReadsPayments, Reads
  <2> HIDE DEF next
  <2> QED
    BY <2>1, <2>2, RequestStepKeeps
<1>6. CASE PayReadsNumber(r)
  <2> DEFINE next == [req[r] EXCEPT !.number = NextNumber(newest), !.step = "begin"]
  <2>1. /\ next \in Request /\ next.tx = "none" /\ RequestOK(next)
    <3>1. req[r].kind = "pay" /\ req[r].step = "number" /\ req[r].tx = "none"
      BY <1>2, <1>6 DEF PayReadsNumber, At, Request, RequestOK, TxSteps
    <3>2. NextNumber(newest) = newest + 1 /\ newest + 1 \in Nat /\ 1 <= newest + 1
      BY <1>3 DEF NextNumber
    <3>3. next \in Request
      BY <1>2, <3>2 DEF Request, Steps
    <3>4. /\ next.number = newest + 1 /\ next.step = "begin"
          /\ next.kind = "pay" /\ next.tx = "none"
          /\ next.invoice = req[r].invoice /\ next.total = req[r].total
          /\ next.seen = req[r].seen
      BY <1>2, <3>1, <3>2 DEF Request
    <3>5. 1 <= next.number /\ next.number <= newest + 1
      BY <3>2, <3>4
    <3>6. /\ Issued(next.invoice) /\ next.total = invoice[next.invoice].total
          /\ next.seen <= Paid(next.invoice)
      BY <1>2, <3>1, <3>4 DEF RequestOK
    <3>7. RequestOK(next)
      BY <3>4, <3>5, <3>6 DEF RequestOK, TxSteps, WrittenSteps
    <3> QED
      BY <3>3, <3>4, <3>7
  <2>2. req' = [req EXCEPT ![r] = next] /\ UNCHANGED <<billing, cashVars>>
    BY <1>6 DEF PayReadsNumber, Reads
  <2> HIDE DEF next
  <2> QED
    BY <2>1, <2>2, RequestStepKeeps
<1>7. CASE PayBegins(r)
  <2> DEFINE next == [req[r] EXCEPT !.tx = "open", !.step = "insert"]
  <2>1. next \in Request /\ RequestOK(next) /\ next.step \notin WrittenSteps
    BY <1>2, <1>7 DEF PayBegins, At, Request, Steps, RequestOK, TxSteps, WrittenSteps
  <2>2. req' = [req EXCEPT ![r] = next] /\ UNCHANGED <<billing, cashVars>>
    BY <1>7 DEF PayBegins, Reads
  <2> HIDE DEF next
  <2> QED
    BY <2>1, <2>2, RequestStepKeeps
<1>8. CASE PayInserts(r)
  <2> DEFINE next == [req[r] EXCEPT !.step = "update"]
  <2>1. /\ Busy(r) /\ req[r].kind = "pay" /\ req[r].step = "insert"
        /\ req[r].number \notin numbers
    BY <1>8 DEF PayInserts, At
  <2>2. next \in Request /\ RequestOK(next)
    BY <1>2, <2>1 DEF Request, Steps, RequestOK, TxSteps, WrittenSteps
  <2>3. \A s \in Requests \ {r} : ~Inserted(s)
    <3> SUFFICES ASSUME NEW s \in Requests \ {r}, Inserted(s) PROVE FALSE
      OBVIOUS
    <3>1. /\ Busy(s) /\ req[s].kind = "pay" /\ req[s].step \notin {"payments", "number"}
          /\ req[s].number \notin numbers
      BY InFlight DEF Inserted, InTx, RequestOK, TxSteps, WrittenSteps
    <3>2. req[s].number = req[r].number
      BY <2>1, <3>1, HeldNumber
    <3> QED
      BY <1>8, <3>2 DEF PayInserts, NumberHeld
  <2>4. req' = [req EXCEPT ![r] = next] /\ UNCHANGED <<billing, cashVars>>
    BY <1>8 DEF PayInserts
  <2> HIDE DEF next
  <2> QED
    BY <2>2, <2>3, <2>4, RequestStepKeeps
<1>9. CASE PayUpdates(r) \/ PayFindsRegister(r)
  <2> SUFFICES ASSUME NEW c \in Registers \cup {NoRegister},
                      NEW step \in {"register", "commit", "entry"},
                      req' = [req EXCEPT ![r] =
                                [req[r] EXCEPT !.register = c, !.step = step]],
                      UNCHANGED <<billing, cashVars>>,
                      req[r].kind = "pay", req[r].step \in {"update", "register"},
                      step = "commit" => req[r].method # "CASH",
                      step = "entry" => c \in Registers /\ Exists(c)
               PROVE  BillingInv'
    <3>1. ASSUME PayUpdates(r) PROVE BillingInv'
      <4> DEFINE step == IF req[r].method = "CASH" THEN "register" ELSE "commit"
                 next == [req[r] EXCEPT !.step = step]
      <4>1. next = [req[r] EXCEPT !.register = req[r].register, !.step = step]
        BY <1>2 DEF Request
      <4>2. req[r].register \in Registers \cup {NoRegister}
        BY <1>2 DEF Request
      <4>3. req' = [req EXCEPT ![r] = next] /\ UNCHANGED <<billing, cashVars>>
        BY <3>1 DEF PayUpdates, Reads
      <4>4. /\ req[r].kind = "pay" /\ req[r].step = "update"
            /\ step \in {"register", "commit"}
            /\ step = "commit" => req[r].method # "CASH"
        BY <3>1 DEF PayUpdates, At
      <4> HIDE DEF step
      <4> QED
        BY <4>1, <4>2, <4>3, <4>4
    <3>2. ASSUME PayFindsRegister(r) PROVE BillingInv'
      <4>1. PICK c \in Registers :
              IsOpen(c) /\ Reads(r, [req[r] EXCEPT !.register = c, !.step = "entry"])
        BY <3>2 DEF PayFindsRegister
      <4>2. /\ req' = [req EXCEPT ![r] = [req[r] EXCEPT !.register = c, !.step = "entry"]]
            /\ UNCHANGED <<billing, cashVars>> /\ Exists(c)
            /\ req[r].kind = "pay" /\ req[r].step = "register"
        BY <3>2, <4>1 DEF PayFindsRegister, Reads, At, IsOpen
      <4> QED
        BY <4>2
    <3> QED
      BY <1>9, <3>1, <3>2
  <2> DEFINE next == [req[r] EXCEPT !.register = c, !.step = step]
  <2>1. next \in Request /\ RequestOK(next) /\ next.tx = req[r].tx
    BY <1>2 DEF Request, Steps, RequestOK, TxSteps, WrittenSteps
  <2>2. next.tx = "open" => \A s \in Requests \ {r} : ~Inserted(s)
    BY <1>1, <2>1 DEF BillingInv, PaymentsSerialised, Inserted, InTx
  <2> HIDE DEF next
  <2>3. req' = [req EXCEPT ![r] = next]
    BY DEF next
  <2> QED
    BY <2>1, <2>2, <2>3, RequestStepKeeps
<1>10. CASE CancelReadsPayments(r) \/ CancelWaits(r)
  <2> DEFINE next == [req[r] EXCEPT !.step = IF CancelReadsPayments(r) THEN "write" ELSE "waits"]
  <2>1. next \in Request /\ RequestOK(next) /\ next.tx = "none"
    BY <1>2, <1>10 DEF CancelReadsPayments, CancelWaits, At, Request, Steps, RequestOK,
                       TxSteps, WrittenSteps
  <2>2. req' = [req EXCEPT ![r] = next] /\ UNCHANGED <<billing, cashVars>>
    BY <1>10 DEF CancelReadsPayments, CancelWaits, Reads
  <2> HIDE DEF next
  <2> QED
    BY <2>1, <2>2, RequestStepKeeps
<1>11. CASE Throws(r) \/ Crashes(r)
  BY <1>11, RequestStepKeeps DEF Throws, Crashes, Done
<1>12. CASE Expires(r)
  <2> DEFINE next == [req[r] EXCEPT !.tx = "expired"]
  <2>1. next \in Request /\ RequestOK(next) /\ next.tx = "expired"
    BY <1>2, <1>12 DEF Expires, InTx, Request, RequestOK
  <2>2. req' = [req EXCEPT ![r] = next] /\ UNCHANGED <<billing, cashVars>>
    BY <1>12 DEF Expires
  <2> HIDE DEF next
  <2> QED
    BY <2>1, <2>2, RequestStepKeeps
<1> QED
  BY <1>4, <1>5, <1>6, <1>7, <1>8, <1>9, <1>10, <1>11, <1>12

\* A new invoice: no request relied on it yet.
LEMMA InvoiceCreatesKeeps ==
  ASSUME BillingInv, NEW r \in Requests, InvoiceCreates(r)
  PROVE  BillingInv'
<1> USE BillingAssumption
<1> DEFINE i == req[r].invoice
           row == [status |-> "PENDING", total |-> req[r].total, number |-> req[r].number]
<1>1. Busy(r) /\ ~Issued(i)
  BY DEF InvoiceCreates, At, InvoiceFits
<1>2. req[r] \in Request /\ i \in Invoices
  BY <1>1, InFlight
<1>3. row \in InvoiceRow /\ row.status = "PENDING" /\ req[r].number \in Nat
  BY <1>2 DEF Request, InvoiceRow, InvoiceStatus
<1>4. /\ invoice' = [invoice EXCEPT ![i] = row] /\ newestInvoice' = req[r].number
      /\ req' = [req EXCEPT ![r] = NoRequest]
      /\ UNCHANGED <<paid, numbers, newest, cashIn, register, entries, call>>
  BY DEF InvoiceCreates, Done, cashVars
<1> HIDE DEF row, i
<1>5. /\ invoice'[i] = row /\ \A j \in Invoices \ {i} : invoice'[j] = invoice[j]
      /\ invoice' \in [Invoices -> InvoiceRow \cup {NoInvoice}]
      /\ req'[r] = NoRequest /\ \A s \in Requests \ {r} : req'[s] = req[s]
      /\ req' \in [Requests -> Request \cup {NoRequest}]
  BY <1>2, <1>3, <1>4 DEF BillingInv, TypeOK
<1>6. TypeOK' /\ CashInv'
  BY <1>3, <1>4, <1>5 DEF BillingInv, TypeOK, CashInv, CashTypeOK, CallsInv,
     NoEntriesYet, TriggerAgreesWithStats, Does, IsOpen, Exists
<1>7. NumbersGapless' /\ CashIsRecorded'
  BY <1>4 DEF BillingInv, NumbersGapless, CashIsRecorded
<1>8. PaidInFull'
  BY <1>3, <1>4, <1>5 DEF BillingInv, PaidInFull, Issued, Paid
<1>9. PaymentsSerialised'
  BY <1>5 DEF BillingInv, PaymentsSerialised, Inserted, InTx, Busy
<1>10. RequestsOK'
  <2> SUFFICES ASSUME NEW s \in Requests, Busy(s)' PROVE RequestOK(req[s])'
    BY DEF RequestsOK
  <2>1. s # r /\ req'[s] = req[s] /\ Busy(s)
    BY <1>5 DEF Busy
  <2>2. RequestOK(req[s]) /\ req[s].invoice \in Invoices
    BY <2>1, InFlight
  <2>3. CASE req[s].kind = "invoice"
    BY <1>4, <2>1, <2>2, <2>3 DEF RequestOK, Exists, TxSteps, WrittenSteps
  <2>4. CASE req[s].kind # "invoice"
    <3>1. req[s].invoice # i
      BY <1>1, <2>2, <2>4 DEF RequestOK, Issued, i
    <3>2. invoice'[req[s].invoice] = invoice[req[s].invoice]
      BY <1>5, <2>2, <3>1
    <3> QED
      BY <1>4, <2>1, <2>2, <3>2 DEF RequestOK, Issued, Paid, Exists
  <2> QED
    BY <2>3, <2>4
<1> QED
  BY <1>6, <1>7, <1>8, <1>9, <1>10 DEF BillingInv

\* A cancelled invoice keeps its total, and is not PAID.
LEMMA CancelWritesKeeps ==
  ASSUME BillingInv, NEW r \in Requests, CancelWrites(r)
  PROVE  BillingInv'
<1> USE BillingAssumption
<1> DEFINE i == req[r].invoice
           row == [invoice[i] EXCEPT !.status = "CANCELLED"]
<1>1. Busy(r) /\ req[r].kind = "cancel"
  BY DEF CancelWrites, At
<1>2. i \in Invoices /\ Issued(i)
  BY <1>1, InFlight DEF RequestOK
<1>3. row \in InvoiceRow /\ row.status = "CANCELLED" /\ row.total = invoice[i].total
  BY <1>2 DEF Issued, BillingInv, TypeOK, InvoiceRow, InvoiceStatus
<1>4. /\ invoice' = [invoice EXCEPT ![i] = row] /\ req' = [req EXCEPT ![r] = NoRequest]
      /\ UNCHANGED <<paid, numbers, newest, newestInvoice, cashIn, register, entries, call>>
  BY DEF CancelWrites, Done, cashVars
<1> HIDE DEF row, i
<1>5. /\ invoice'[i] = row /\ \A j \in Invoices \ {i} : invoice'[j] = invoice[j]
      /\ invoice' \in [Invoices -> InvoiceRow \cup {NoInvoice}]
      /\ req'[r] = NoRequest /\ \A s \in Requests \ {r} : req'[s] = req[s]
      /\ req' \in [Requests -> Request \cup {NoRequest}]
  BY <1>2, <1>3, <1>4 DEF BillingInv, TypeOK
<1>6. TypeOK' /\ CashInv'
  BY <1>4, <1>5 DEF BillingInv, TypeOK, CashInv, CashTypeOK, CallsInv,
     NoEntriesYet, TriggerAgreesWithStats, Does, IsOpen, Exists
<1>7. NumbersGapless' /\ CashIsRecorded'
  BY <1>4 DEF BillingInv, NumbersGapless, CashIsRecorded
<1>8. PaidInFull'
  BY <1>3, <1>4, <1>5 DEF BillingInv, PaidInFull, Issued, Paid
<1>9. PaymentsSerialised'
  BY <1>5 DEF BillingInv, PaymentsSerialised, Inserted, InTx, Busy
<1>10. RequestsOK'
  <2> SUFFICES ASSUME NEW s \in Requests, Busy(s)' PROVE RequestOK(req[s])'
    BY DEF RequestsOK
  <2>1. s # r /\ req'[s] = req[s] /\ Busy(s)
    BY <1>5 DEF Busy
  <2>2. RequestOK(req[s]) /\ req[s].invoice \in Invoices
    BY <2>1, InFlight
  <2>3. /\ (invoice'[req[s].invoice] # NoInvoice) <=> Issued(req[s].invoice)
        /\ Issued(req[s].invoice) =>
             invoice'[req[s].invoice].total = invoice[req[s].invoice].total
    BY <1>2, <1>3, <1>5, <2>2 DEF Issued
  <2> QED
    BY <1>4, <2>1, <2>2, <2>3 DEF RequestOK, Issued, Paid, Exists, TxSteps, WrittenSteps
<1> QED
  BY <1>6, <1>7, <1>8, <1>9, <1>10 DEF BillingInv

\* The entry of a cash payment, before the payment commits.
LEMMA PayRecordsCashKeeps ==
  ASSUME BillingInv, NEW r \in Requests, PayRecordsCash(r)
  PROVE  BillingInv'
<1> USE BillingAssumption
<1> DEFINE i == req[r].invoice
           next == [req[r] EXCEPT !.step = "commit"]
<1>1. Busy(r) /\ req[r].kind = "pay" /\ req[r].step = "entry"
  BY DEF PayRecordsCash, At
<1>2. /\ req[r] \in Request /\ RequestOK(req[r]) /\ i \in Invoices
      /\ paid[i]["CASH"] \in Nat /\ req[r].amount \in Nat
  BY <1>1, InFlight DEF Request
<1>3. req[r].register \in Registers /\ Exists(req[r].register)
  BY <1>1, <1>2 DEF RequestOK
<1>4. cashIn[i] \in Nat /\ paid[i]["CASH"] <= cashIn[i]
  BY <1>2 DEF BillingInv, TypeOK, CashIsRecorded
<1>5. /\ RecordEntry(req[r].register, "INCOME", req[r].amount)
      /\ cashIn' = [cashIn EXCEPT ![i] = cashIn[i] + req[r].amount]
      /\ req' = [req EXCEPT ![r] = next]
      /\ UNCHANGED <<invoice, paid, numbers, newest, newestInvoice, call>>
  BY DEF PayRecordsCash
<1>6. /\ register' \in [Registers -> RegisterRow \cup {NoRegister}]
      /\ entries' \in [Registers -> Columns]
      /\ \A d \in Registers : Exists(d)' <=> Exists(d)
      /\ NoEntriesYet' /\ TriggerAgreesWithStats'
  <2>1. "INCOME" \in EntryTypes
    BY DEF EntryTypes
  <2> QED
    BY <1>2, <1>3, <1>5, <2>1, RecordEntryKeeps DEF BillingInv
<1>7. /\ next \in Request /\ next.kind = "pay" /\ next.step = "commit"
      /\ next.tx = req[r].tx /\ next.invoice = i /\ next.amount = req[r].amount
      /\ next.total = req[r].total /\ next.seen = req[r].seen
      /\ next.number = req[r].number
  BY <1>1, <1>2 DEF Request, Steps
<1> HIDE DEF next, i
<1>8. /\ req'[r] = next /\ \A s \in Requests \ {r} : req'[s] = req[s]
      /\ req' \in [Requests -> Request \cup {NoRequest}]
      /\ cashIn'[i] = cashIn[i] + req[r].amount /\ cashIn' \in [Invoices -> Nat]
      /\ \A j \in Invoices \ {i} : cashIn'[j] = cashIn[j]
  BY <1>2, <1>4, <1>5, <1>7 DEF BillingInv, TypeOK
<1>9. \A j \in Invoices : cashIn[j] \in Nat /\ cashIn'[j] \in Nat /\ cashIn[j] <= cashIn'[j]
  BY <1>2, <1>4, <1>8 DEF BillingInv, TypeOK
<1>10. CashInv'
  <2>1. \A k \in Clerks : call[k] # NoCall => call[k].register \in Registers
    BY DEF BillingInv, CashInv, CashTypeOK, Call
  <2>2. CallsInv'
    BY <1>5, <1>6, <2>1 DEF BillingInv, CashInv, CallsInv, Does
  <2> QED
    BY <1>5, <1>6, <2>2 DEF BillingInv, CashInv, CashTypeOK
<1>11. TypeOK'
  BY <1>5, <1>8, <1>10 DEF BillingInv, TypeOK, CashInv
<1>12. NumbersGapless' /\ PaidInFull'
  BY <1>5 DEF BillingInv, NumbersGapless, PaidInFull, Issued, Paid
<1>13. CashIsRecorded'
  <2> SUFFICES ASSUME NEW j \in Invoices PROVE paid'[j]["CASH"] <= cashIn'[j]
    BY DEF CashIsRecorded
  <2>1. paid[j]["CASH"] <= cashIn[j] /\ paid[j]["CASH"] \in Nat
    BY DEF BillingInv, CashIsRecorded, TypeOK, Methods
  <2> QED
    BY <1>5, <1>9, <2>1
<1>14. PaymentsSerialised'
  BY <1>1, <1>7, <1>8 DEF BillingInv, PaymentsSerialised, Inserted, InTx, Busy
<1>15. RequestsOK'
  <2> SUFFICES ASSUME NEW s \in Requests, Busy(s)' PROVE RequestOK(req[s])'
    BY DEF RequestsOK
  <2>1. CASE s = r
    <3> DEFINE q == req[r]
               p == req'[r]
    <3>1. /\ p.kind = "pay" /\ p.step = "commit" /\ p.tx = q.tx
          /\ p.invoice = q.invoice /\ p.amount = q.amount /\ p.total = q.total
          /\ p.seen = q.seen /\ p.number = q.number
      BY <1>7, <1>8 DEF i
    <3>2. /\ q.tx # "none" => q.kind = "pay" /\ q.step \in TxSteps
          /\ Issued(q.invoice) /\ q.total = invoice[q.invoice].total
          /\ q.seen <= Paid(q.invoice)
          /\ 1 <= q.number /\ q.number <= newest + 1
          /\ q.tx = "open" => q.number \notin numbers
      BY <1>1, <1>2 DEF RequestOK, WrittenSteps
    <3>3. paid[q.invoice]["CASH"] + q.amount <= cashIn'[q.invoice]
      BY <1>2, <1>4, <1>8 DEF i
    <3>4. RequestOK(req[r])'
      BY <1>5, <3>1, <3>2, <3>3 DEF RequestOK, TxSteps, WrittenSteps, Issued, Paid
    <3> QED
      BY <2>1, <3>4
  <2>2. CASE s # r
    <3>1. req'[s] = req[s] /\ Busy(s)
      BY <1>8, <2>2 DEF Busy
    <3>2. /\ RequestOK(req[s]) /\ req[s].invoice \in Invoices /\ req[s] \in Request
          /\ paid[req[s].invoice]["CASH"] \in Nat /\ req[s].amount \in Nat
      BY <3>1, InFlight DEF Request
    <3>3. cashIn[req[s].invoice] <= cashIn'[req[s].invoice]
          /\ cashIn[req[s].invoice] \in Nat /\ cashIn'[req[s].invoice] \in Nat
      BY <1>9, <3>2
    <3> QED
      BY <1>5, <1>6, <3>1, <3>2, <3>3 DEF RequestOK, Issued, Paid
  <2> QED
    BY <2>1, <2>2
<1> QED
  BY <1>10, <1>11, <1>12, <1>13, <1>14, <1>15 DEF BillingInv

\* The commit of a payment: the only one that had inserted its row.
LEMMA PayCommitsKeeps ==
  ASSUME BillingInv, NEW r \in Requests, PayCommits(r)
  PROVE  BillingInv'
<1> USE BillingAssumption
<1> DEFINE q == req[r]
           i == q.invoice
           row == [invoice[i] EXCEPT !.status = StatusAfter(q)]
           sums == [paid[i] EXCEPT ![q.method] = paid[i][q.method] + q.amount]
<1>1. Busy(r) /\ q.kind = "pay" /\ q.step = "commit" /\ q.tx = "open" /\ Inserted(r)
  BY DEF PayCommits, At, InTx, Inserted
<1>2. /\ q \in Request /\ RequestOK(q) /\ i \in Invoices
      /\ paid[i]["CASH"] \in Nat /\ paid[i]["CARD"] \in Nat
      /\ q.amount \in Nat /\ q.seen \in Nat /\ q.total \in Int /\ q.method \in Methods
  BY <1>1, InFlight DEF Request
<1>3. /\ Issued(i) /\ q.total = invoice[i].total /\ q.seen <= Paid(i)
      /\ q.number \notin numbers
      /\ q.method = "CASH" => paid[i]["CASH"] + q.amount <= cashIn[i]
  BY <1>1, <1>2 DEF RequestOK, WrittenSteps
<1>4. q.number = newest + 1 /\ newest \in Nat /\ numbers = 1 .. newest
  <2>1. q.number = newest + 1
    BY <1>1, <1>3, HeldNumber
  <2> QED
    BY <2>1 DEF BillingInv, TypeOK, NumbersGapless
<1>5. \A s \in Requests \ {r} : ~Inserted(s)
  BY <1>1 DEF BillingInv, PaymentsSerialised
<1>6. invoice[i] \in InvoiceRow
  BY <1>2, <1>3 DEF Issued, BillingInv, TypeOK
<1>7. /\ row \in InvoiceRow /\ row.status = StatusAfter(q)
      /\ row.total = invoice[i].total
  BY <1>6 DEF InvoiceRow, InvoiceStatus, StatusAfter
<1>8. /\ sums \in [Methods -> Nat]
      /\ q.method = "CASH" => /\ sums["CASH"] = paid[i]["CASH"] + q.amount
                              /\ sums["CARD"] = paid[i]["CARD"]
      /\ q.method = "CARD" => /\ sums["CASH"] = paid[i]["CASH"]
                              /\ sums["CARD"] = paid[i]["CARD"] + q.amount
  BY <1>2 DEF BillingInv, TypeOK, Methods
<1>9. /\ invoice' = [invoice EXCEPT ![i] = row] /\ paid' = [paid EXCEPT ![i] = sums]
      /\ numbers' = numbers \cup {q.number} /\ newest' = q.number
      /\ req' = [req EXCEPT ![r] = NoRequest]
      /\ UNCHANGED <<newestInvoice, cashIn, register, entries, call>>
  BY DEF PayCommits, Done, cashVars
<1> HIDE DEF row, sums, i, q
<1>10. /\ invoice'[i] = row /\ \A j \in Invoices \ {i} : invoice'[j] = invoice[j]
       /\ invoice' \in [Invoices -> InvoiceRow \cup {NoInvoice}]
       /\ paid'[i] = sums /\ \A j \in Invoices \ {i} : paid'[j] = paid[j]
       /\ paid' \in [Invoices -> [Methods -> Nat]]
       /\ req'[r] = NoRequest /\ \A s \in Requests \ {r} : req'[s] = req[s]
       /\ req' \in [Requests -> Request \cup {NoRequest}]
  BY <1>2, <1>7, <1>8, <1>9 DEF BillingInv, TypeOK
<1>11. /\ newest' = newest + 1 /\ numbers' = 1 .. newest'
  BY <1>4, <1>9
<1>12. \A j \in Invoices :
         /\ Issued(j) => (invoice'[j] # NoInvoice) /\ invoice'[j].total = invoice[j].total
         /\ paid[j]["CASH"] \in Nat /\ paid[j]["CARD"] \in Nat
         /\ paid'[j]["CASH"] \in Nat /\ paid'[j]["CARD"] \in Nat
         /\ paid[j]["CASH"] + paid[j]["CARD"] <= paid'[j]["CASH"] + paid'[j]["CARD"]
  <2> SUFFICES ASSUME NEW j \in Invoices
               PROVE  /\ Issued(j) => /\ invoice'[j] # NoInvoice
                                      /\ invoice'[j].total = invoice[j].total
                      /\ paid[j]["CASH"] \in Nat /\ paid[j]["CARD"] \in Nat
                      /\ paid'[j]["CASH"] \in Nat /\ paid'[j]["CARD"] \in Nat
                      /\ paid[j]["CASH"] + paid[j]["CARD"]
                           <= paid'[j]["CASH"] + paid'[j]["CARD"]
    OBVIOUS
  <2>1. /\ paid[j]["CASH"] \in Nat /\ paid[j]["CARD"] \in Nat
        /\ paid'[j]["CASH"] \in Nat /\ paid'[j]["CARD"] \in Nat
    BY <1>10 DEF BillingInv, TypeOK, Methods
  <2>2. CASE j = i
    BY <1>2, <1>7, <1>8, <1>10, <2>1, <2>2 DEF Methods
  <2>3. CASE j # i
    BY <1>10, <2>1, <2>3 DEF Issued
  <2> QED
    BY <2>2, <2>3
<1>13. CashInv'
  BY <1>9 DEF BillingInv, CashInv, CashTypeOK, CallsInv,
     NoEntriesYet, TriggerAgreesWithStats, Does, IsOpen, Exists
<1>14. TypeOK'
  <2>1. newest + 1 \in Nat /\ numbers' \subseteq Nat
    BY <1>4, <1>11
  <2> QED
    BY <1>9, <1>10, <1>11, <1>13, <2>1 DEF BillingInv, TypeOK, CashInv
<1>15. NumbersGapless'
  BY <1>11 DEF NumbersGapless
<1>16. CashIsRecorded'
  <2> SUFFICES ASSUME NEW j \in Invoices PROVE paid'[j]["CASH"] <= cashIn[j]
    BY <1>9 DEF CashIsRecorded
  <2>1. paid[j]["CASH"] <= cashIn[j]
    BY DEF BillingInv, CashIsRecorded
  <2>2. CASE j = i
    BY <1>2, <1>3, <1>8, <1>10, <2>1, <2>2 DEF Methods
  <2> QED
    BY <1>10, <2>1, <2>2
<1>17. PaidInFull'
  <2> SUFFICES ASSUME NEW j \in Invoices, invoice'[j] # NoInvoice,
                      invoice'[j].status = "PAID"
               PROVE  paid'[j]["CASH"] + paid'[j]["CARD"] >= invoice'[j].total
    BY DEF PaidInFull, Issued, Paid
  <2>1. CASE j = i
    <3>1. q.seen + q.amount >= q.total
      BY <1>7, <1>10, <2>1 DEF StatusAfter
    <3>2. paid'[i]["CASH"] + paid'[i]["CARD"] = paid[i]["CASH"] + paid[i]["CARD"] + q.amount
      BY <1>2, <1>8, <1>10 DEF Methods
    <3>3. q.seen <= paid[i]["CASH"] + paid[i]["CARD"]
      BY <1>3 DEF Paid
    <3>4. invoice'[i].total = q.total
      BY <1>3, <1>7, <1>10
    <3> QED
      BY <1>2, <2>1, <3>1, <3>2, <3>3, <3>4
  <2>2. CASE j # i
    BY <1>10, <2>2 DEF BillingInv, PaidInFull, Issued, Paid
  <2> QED
    BY <2>1, <2>2
<1>18. PaymentsSerialised'
  BY <1>10 DEF BillingInv, PaymentsSerialised, Inserted, InTx, Busy
<1>19. RequestsOK'
  <2> SUFFICES ASSUME NEW s \in Requests, Busy(s)' PROVE RequestOK(req[s])'
    BY DEF RequestsOK
  <2>1. s # r /\ req'[s] = req[s] /\ Busy(s)
    BY <1>10 DEF Busy
  <2>2. /\ RequestOK(req[s]) /\ req[s].invoice \in Invoices
        /\ req[s].seen \in Nat /\ req[s].number \in Nat
    BY <2>1, InFlight DEF Request
  <2>3. ~(req[s].tx = "open" /\ req[s].step \in WrittenSteps)
    BY <1>5, <2>1 DEF Inserted, InTx, WrittenSteps
  <2>4. req[s].tx = "open" => req[s].step # "commit"
    BY <2>3 DEF WrittenSteps
  <2>5. /\ Issued(req[s].invoice) =>
             /\ invoice'[req[s].invoice] # NoInvoice
             /\ invoice'[req[s].invoice].total = invoice[req[s].invoice].total
        /\ req[s].seen <= Paid(req[s].invoice) =>
             req[s].seen <= paid'[req[s].invoice]["CASH"] + paid'[req[s].invoice]["CARD"]
    BY <1>12, <2>2 DEF Paid
  <2>6. req[s].number <= newest + 1 => req[s].number <= newest' + 1
    BY <1>4, <1>11, <2>2
  <2> QED
    BY <1>9, <2>1, <2>2, <2>3, <2>4, <2>5, <2>6 DEF RequestOK, Issued, Paid, Exists
<1> QED
  BY <1>13, <1>14, <1>15, <1>16, <1>17, <1>18, <1>19 DEF BillingInv

\* A step of a cash-register handler: what billing relies on there is that no
\* register disappears.
LEMMA CashNextKeeps ==
  ASSUME BillingInv, CashNext, UNCHANGED <<billing, req>>
  PROVE  BillingInv'
<1>1. CashInv' /\ \A c \in Registers : Exists(c) => Exists(c)'
  BY CashStepKeeps DEF BillingInv
<1>2. TypeOK'
  BY <1>1 DEF BillingInv, TypeOK, CashInv, billing
<1>3. NumbersGapless' /\ PaidInFull' /\ CashIsRecorded' /\ PaymentsSerialised'
  BY DEF BillingInv, NumbersGapless, PaidInFull, CashIsRecorded, PaymentsSerialised,
         Inserted, InTx, Busy, Issued, Paid, billing
<1>4. RequestsOK'
  BY <1>1 DEF BillingInv, RequestsOK, RequestOK, Busy, Issued, Paid, billing
<1> QED
  BY <1>1, <1>2, <1>3, <1>4 DEF BillingInv

\* Before the first invoice nothing is paid, numbered or in flight.
LEMMA BillingStarts == ASSUME Init PROVE BillingInv
<1>1. CashInv
  BY CashStarts DEF Init
<1>2. \A r \in Requests : ~Busy(r)
  BY DEF Init, Busy
<1> QED
  BY <1>1, <1>2
     DEF Init, BillingInv, TypeOK, CashInv, RequestsOK, NumbersGapless, PaymentsSerialised,
         PaidInFull, CashIsRecorded, Inserted, InTx, Issued, Methods

\* Every step of a billing or cash-register request keeps the invariant.
LEMMA BillingStepKeeps == BillingInv /\ [Next]_vars => BillingInv'
<1> SUFFICES ASSUME BillingInv, [Next]_vars PROVE BillingInv'
  OBVIOUS
<1>1. CASE UNCHANGED vars
  BY <1>1 DEF vars, cashVars, billing, BillingInv, TypeOK, CashInv, CashTypeOK, CallsInv,
     NoEntriesYet, TriggerAgreesWithStats, Does, IsOpen, Exists, RequestsOK, RequestOK,
     NumbersGapless, PaymentsSerialised, PaidInFull, CashIsRecorded, Inserted, InTx, Busy,
     Issued, Paid
<1>2. CASE CashNext /\ UNCHANGED <<billing, req>>
  BY <1>2, CashNextKeeps
<1>3. ASSUME NEW r \in Requests,
             Arrives(r) \/ Advances(r) \/ Throws(r) \/ Expires(r) \/ Crashes(r)
      PROVE  BillingInv'
  BY <1>3, ArrivalKeeps, ProgressKeeps, InvoiceCreatesKeeps, CancelWritesKeeps,
     PayRecordsCashKeeps, PayCommitsKeeps DEF Advances
<1> QED
  BY <1>1, <1>2, <1>3 DEF Next

\* So it holds for good, and what follows from it does.
LEMMA BillingInvariant == Spec => []BillingInv
<1>1. Init => BillingInv
  BY BillingStarts
<1> QED
  BY <1>1, BillingStepKeeps, PTL DEF Spec

\* Invoices, payments, registers and requests keep their types.
THEOREM BillingTypeCorrect == Spec => []TypeOK
<1>1. BillingInv => TypeOK
  BY DEF BillingInv
<1> QED
  BY <1>1, BillingInvariant, PTL

\* A PAID invoice is covered by committed payments.
THEOREM PaidCorrect == Spec => []PaidInFull
<1>1. BillingInv => PaidInFull
  BY DEF BillingInv
<1> QED
  BY <1>1, BillingInvariant, PTL

\* Every committed cash payment has its entry in a register.
THEOREM CashCorrect == Spec => []CashIsRecorded
<1>1. BillingInv => CashIsRecorded
  BY DEF BillingInv
<1> QED
  BY <1>1, BillingInvariant, PTL

\* Payment numbers are 1, 2, 3 and so on.
THEOREM NumbersCorrect == Spec => []NumbersGapless
<1>1. BillingInv => NumbersGapless
  BY DEF BillingInv
<1> QED
  BY <1>1, BillingInvariant, PTL

\* Payments are written one by one: the unique number serialises them.
THEOREM PaymentsSerial == Spec => []PaymentsSerialised
<1>1. BillingInv => PaymentsSerialised
  BY DEF BillingInv
<1> QED
  BY <1>1, BillingInvariant, PTL

-----------------------------------------------------------------------------
(* Payments as the book has them. *)

\* A payment in flight is of something.
AmountsPositive == \A r \in Requests : Busy(r) /\ req[r].kind = "pay" => req[r].amount > 0

\* It stays so: no request changes its amount.
LEMMA AmountsStayPositive ==
  ASSUME BillingInv, AmountsPositive, [Next]_vars
  PROVE  AmountsPositive'
<1>1. ASSUME NEW r \in Requests, NEW q,
             req' = [req EXCEPT ![r] = q],
             q # NoRequest /\ q.kind = "pay" => q.amount > 0
      PROVE  AmountsPositive'
  BY <1>1 DEF AmountsPositive, Busy, BillingInv, TypeOK
<1>2. CASE UNCHANGED req
  BY <1>2 DEF AmountsPositive, Busy
<1>3. ASSUME NEW r \in Requests, Arrives(r) PROVE AmountsPositive'
  <2>1. ASSUME NEW kind, NEW step, NEW i, NEW total, NEW amount, NEW method,
               kind = "pay" => amount > 0, Begin(r, kind, step, i, total, amount, method)
        PROVE  AmountsPositive'
    <3> DEFINE q == [kind |-> kind, step |-> step, invoice |-> i, total |-> total,
                     amount |-> amount, method |-> method, seen |-> 0, number |-> 0,
                     tx |-> "none", register |-> NoRegister]
    <3>1. q.kind = "pay" => q.amount > 0
      BY <2>1
    <3>2. req' = [req EXCEPT ![r] = q]
      BY <2>1 DEF Begin
    <3> HIDE DEF q
    <3> QED
      BY <1>1, <3>1, <3>2
  <2>2. ASSUME NEW a \in Amounts PROVE a > 0
    BY CashAssumption
  <2> QED
    BY <1>3, <2>1, <2>2
       DEF Arrives, InvoiceReadsTicket, PayReadsInvoice, CancelReadsInvoice
<1>4. ASSUME NEW r \in Requests, Throws(r) \/ Crashes(r) \/ InvoiceCreates(r)
                                   \/ PayCommits(r) \/ CancelWrites(r)
      PROVE  AmountsPositive'
  BY <1>1, <1>4 DEF Throws, Crashes, InvoiceCreates, PayCommits, CancelWrites, Done
<1>5. ASSUME NEW r \in Requests,
             \/ InvoiceReadsNumber(r) \/ PayReadsPayments(r) \/ PayReadsNumber(r)
             \/ PayBegins(r) \/ PayInserts(r) \/ PayUpdates(r) \/ PayFindsRegister(r)
             \/ PayRecordsCash(r) \/ CancelReadsPayments(r) \/ CancelWaits(r) \/ Expires(r)
      PROVE  AmountsPositive'
  <2>1. Busy(r)
    BY <1>5 DEF InvoiceReadsNumber, PayReadsPayments, PayReadsNumber, PayBegins, PayInserts,
                PayUpdates, PayFindsRegister, PayRecordsCash, CancelReadsPayments,
                CancelWaits, Expires, At, InTx
  <2>2. req[r] \in Request /\ (req[r].kind = "pay" => req[r].amount > 0)
    BY <2>1 DEF BillingInv, TypeOK, Busy, AmountsPositive
  <2>3. /\ req'[r].kind = req[r].kind /\ req'[r].amount = req[r].amount
        /\ \A s \in Requests \ {r} : req'[s] = req[s]
    <3> USE <2>2 DEF Request, BillingInv, TypeOK
    <3>1. CASE InvoiceReadsNumber(r)
      BY <3>1 DEF InvoiceReadsNumber, Reads
    <3>2. CASE PayReadsPayments(r)
      BY <3>2 DEF PayReadsPayments, Reads
    <3>3. CASE PayReadsNumber(r)
      BY <3>3 DEF PayReadsNumber, Reads
    <3>4. CASE PayBegins(r)
      BY <3>4 DEF PayBegins, Reads
    <3>5. CASE PayInserts(r)
      BY <3>5 DEF PayInserts
    <3>6. CASE PayUpdates(r)
      BY <3>6 DEF PayUpdates, Reads
    <3>7. CASE PayFindsRegister(r)
      BY <3>7 DEF PayFindsRegister, Reads
    <3>8. CASE PayRecordsCash(r)
      BY <3>8 DEF PayRecordsCash
    <3>9. CASE CancelReadsPayments(r)
      BY <3>9 DEF CancelReadsPayments, Reads
    <3>10. CASE CancelWaits(r)
      BY <3>10 DEF CancelWaits, Reads
    <3>11. CASE Expires(r)
      BY <3>11 DEF Expires
    <3> QED
      BY <1>5, <3>1, <3>2, <3>3, <3>4, <3>5, <3>6, <3>7, <3>8, <3>9, <3>10, <3>11
  <2> QED
    BY <2>2, <2>3 DEF AmountsPositive, Busy
<1>6. UNCHANGED vars \/ (CashNext /\ UNCHANGED <<billing, req>>) => UNCHANGED req
  BY DEF vars
<1> QED
  BY <1>2, <1>3, <1>4, <1>5, <1>6 DEF Next, Advances

\* A cash entry is a Record of the book, the commit of a payment a Pay, and nothing
\* else is written there.
LEMMA CashIsRecordedInBook ==
  ASSUME BillingInv, AmountsPositive, NEW r \in Requests, PayRecordsCash(r)
  PROVE  Book!Next
<1> DEFINE i == req[r].invoice
           a == req[r].amount
<1>1. Busy(r) /\ req[r].kind = "pay"
  BY DEF PayRecordsCash, At
<1>2. i \in Invoices /\ a \in Nat /\ a > 0 /\ cashIn[i] \in Nat
  <2>1. req[r] \in Request /\ i \in Invoices
    BY <1>1, InFlight
  <2>2. a \in Nat /\ a > 0
    BY <1>1, <2>1 DEF AmountsPositive, Request
  <2> QED
    BY <2>1, <2>2 DEF BillingInv, TypeOK
<1>3. cashIn' = [cashIn EXCEPT ![i] = cashIn[i] + a] /\ UNCHANGED <<paid, numbers, newest>>
  BY DEF PayRecordsCash
<1> HIDE DEF i, a
<1>4. cashIn'[i] = cashIn[i] + a
  BY <1>2, <1>3 DEF BillingInv, TypeOK
<1>5. Book!Record(i)
  <2>1. cashIn[i] + a > cashIn[i]
    BY <1>2
  <2>2. cashIn'[i] > cashIn[i]
    BY <1>4, <2>1
  <2>3. cashIn' = [cashIn EXCEPT ![i] = cashIn'[i]]
    BY <1>3, <1>4
  <2> QED
    BY <1>3, <2>2, <2>3 DEF Book!Record
<1> QED
  BY <1>2, <1>5 DEF Book!Next

LEMMA PaymentIsInBook ==
  ASSUME BillingInv, AmountsPositive, NEW r \in Requests, PayCommits(r)
  PROVE  Book!Next
<1> DEFINE q == req[r]
           i == q.invoice
           m == q.method
           sums == [paid[i] EXCEPT ![m] = paid[i][m] + q.amount]
<1>1. Busy(r) /\ q.kind = "pay" /\ q.step = "commit" /\ q.tx = "open"
  BY DEF PayCommits, At, InTx
<1>2. /\ q \in Request /\ RequestOK(q) /\ i \in Invoices /\ m \in Methods
      /\ q.amount \in Nat /\ q.amount > 0
      /\ paid[i] \in [Methods -> Nat] /\ paid[i][m] \in Nat
  BY <1>1, InFlight DEF AmountsPositive, Request, BillingInv, TypeOK
<1>3. /\ q.number \notin numbers
      /\ m = "CASH" => paid[i]["CASH"] + q.amount <= cashIn[i]
  BY <1>1, <1>2 DEF RequestOK, WrittenSteps
<1>4. q.number = newest + 1
  BY <1>1, <1>3, HeldNumber
<1>5. /\ paid' = [paid EXCEPT ![i] = sums]
      /\ numbers' = numbers \cup {q.number} /\ newest' = q.number /\ UNCHANGED cashIn
  BY DEF PayCommits
<1>6. sums[m] = paid[i][m] + q.amount
  BY <1>2
<1> HIDE DEF q, i, m
<1>7. paid'[i] = sums
  BY <1>2, <1>5 DEF BillingInv, TypeOK
<1>8. paid'[i][m] = paid[i][m] + q.amount /\ sums = [paid[i] EXCEPT ![m] = paid'[i][m]]
  BY <1>6, <1>7
<1>9. Book!Pay(i, m)
  <2>1. paid[i][m] + q.amount > paid[i][m]
    BY <1>2
  <2>2. paid'[i][m] > paid[i][m]
    BY <1>8, <2>1
  <2>3. paid' = [paid EXCEPT ![i] = [paid[i] EXCEPT ![m] = paid'[i][m]]]
    <3> HIDE DEF sums
    <3> QED
      BY <1>5, <1>8
  <2>4. m = "CASH" => paid'[i][m] <= cashIn[i]
    BY <1>3, <1>8
  <2>5. newest' = newest + 1 /\ numbers' = numbers \cup {newest'}
    BY <1>4, <1>5
  <2> QED
    BY <1>5, <2>2, <2>3, <2>4, <2>5 DEF Book!Pay
<1> QED
  BY <1>2, <1>9 DEF Book!Next

\* Billing keeps the book its promises describe: each of its steps is one of the
\* book's, or leaves it alone.
THEOREM PaymentsBooked == Spec => PaymentsAreBooked
<1>1. Init => BillingInv /\ AmountsPositive /\ Book!Init
  BY BillingStarts DEF Init, AmountsPositive, Busy, Book!Init
<1>2. BillingInv /\ AmountsPositive /\ [Next]_vars
        => BillingInv' /\ AmountsPositive' /\ [Book!Next]_(Book!book)
  <2> SUFFICES ASSUME BillingInv, AmountsPositive, [Next]_vars
               PROVE  [Book!Next]_(Book!book)
    BY BillingStepKeeps, AmountsStayPositive
  <2>1. ASSUME NEW r \in Requests, PayRecordsCash(r) \/ PayCommits(r)
        PROVE  Book!Next
    BY <2>1, CashIsRecordedInBook, PaymentIsInBook
  <2>2. CASE UNCHANGED vars \/ (CashNext /\ UNCHANGED <<billing, req>>)
    BY <2>2 DEF vars, billing, Book!book
  <2>3. ASSUME NEW r \in Requests, Arrives(r) \/ Throws(r) \/ Expires(r) \/ Crashes(r)
        PROVE  UNCHANGED Book!book
    BY <2>3 DEF Arrives, InvoiceReadsTicket, PayReadsInvoice, CancelReadsInvoice, Begin,
       Throws, Expires, Crashes, billing, Book!book
  <2>4. ASSUME NEW r \in Requests, Advances(r), ~PayRecordsCash(r), ~PayCommits(r)
        PROVE  UNCHANGED Book!book
    BY <2>4 DEF Advances, InvoiceReadsNumber, InvoiceCreates, PayReadsPayments,
       PayReadsNumber, PayBegins, PayInserts, PayUpdates, PayFindsRegister,
       CancelReadsPayments, CancelWaits, CancelWrites, Reads, billing, Book!book
  <2> QED
    BY <2>1, <2>2, <2>3, <2>4 DEF Next
<1> QED
  BY <1>1, <1>2, PTL DEF Spec, PaymentsAreBooked, Book!Spec

-----------------------------------------------------------------------------
(* Requests one after the other.  The check of an amount is made long before *)
(* the payment is written, and with nobody in between it is as good as new.  *)

OneRequest == \A q, r \in Requests : q = r

RequestFits(q) ==
  /\ q.kind = "invoice" => q.total \in Nat
  /\ q.kind = "pay" /\ q.step # "payments" => Paid(q.invoice) + q.amount <= q.total

FitInv ==
  /\ NeverOverpaid
  /\ \A i \in Invoices : ~Issued(i) => Paid(i) = 0
  /\ \A r \in Requests : Busy(r) => RequestFits(req[r])

\* A step that leaves invoices and payments alone.
LEMMA FitsOn ==
  ASSUME BillingInv, FitInv, UNCHANGED <<invoice, paid>>, NEW r \in Requests, NEW next,
         req' = [req EXCEPT ![r] = next], next # NoRequest => RequestFits(next)
  PROVE  FitInv'
<1>1. req'[r] = next /\ \A s \in Requests \ {r} : req'[s] = req[s]
  BY DEF BillingInv, TypeOK
<1>2. \A s \in Requests : Busy(s)' => RequestFits(req[s])'
  BY <1>1 DEF FitInv, RequestFits, Busy, Paid
<1> QED
  BY <1>2 DEF FitInv, NeverOverpaid, Issued, Paid

\* Requests that arrive.
LEMMA ArrivalFits ==
  ASSUME BillingInv, FitInv, Totals \subseteq Nat, NEW r \in Requests, Arrives(r)
  PROVE  FitInv'
<1>1. ASSUME NEW kind, NEW step, NEW i, NEW total, NEW amount, NEW method,
             kind = "invoice" => total \in Nat, kind = "pay" => step = "payments",
             Begin(r, kind, step, i, total, amount, method)
      PROVE  FitInv'
  <2> DEFINE q == [kind |-> kind, step |-> step, invoice |-> i, total |-> total,
                   amount |-> amount, method |-> method, seen |-> 0, number |-> 0,
                   tx |-> "none", register |-> NoRegister]
  <2>1. RequestFits(q)
    BY <1>1 DEF RequestFits
  <2>2. req' = [req EXCEPT ![r] = q] /\ UNCHANGED <<invoice, paid>>
    BY <1>1 DEF Begin, billing
  <2> HIDE DEF q
  <2> QED
    BY <2>1, <2>2, FitsOn
<1> QED
  BY <1>1 DEF Arrives, InvoiceReadsTicket, PayReadsInvoice, CancelReadsInvoice

\* Requests that go on, and write neither an invoice nor a payment.
LEMMA ProgressFits ==
  ASSUME BillingInv, FitInv, NEW r \in Requests,
         \/ InvoiceReadsNumber(r) \/ PayReadsPayments(r) \/ PayReadsNumber(r)
         \/ PayBegins(r) \/ PayInserts(r) \/ PayUpdates(r) \/ PayFindsRegister(r)
         \/ PayRecordsCash(r) \/ CancelReadsPayments(r) \/ CancelWaits(r) \/ Expires(r)
  PROVE  FitInv'
<1>1. Busy(r)
  BY DEF InvoiceReadsNumber, PayReadsPayments, PayReadsNumber, PayBegins, PayInserts,
         PayUpdates, PayFindsRegister, PayRecordsCash, CancelReadsPayments,
         CancelWaits, Expires, At, InTx
<1>2. /\ req[r] \in Request /\ RequestOK(req[r]) /\ RequestFits(req[r])
      /\ paid[req[r].invoice]["CASH"] \in Nat /\ paid[req[r].invoice]["CARD"] \in Nat
  BY <1>1, InFlight DEF FitInv
<1>3. PICK next : req' = [req EXCEPT ![r] = next] /\ UNCHANGED <<invoice, paid>>
  BY DEF InvoiceReadsNumber, PayReadsPayments, PayReadsNumber, PayBegins, PayInserts,
         PayUpdates, PayFindsRegister, PayRecordsCash, CancelReadsPayments,
         CancelWaits, Expires, Reads, billing
<1>4. req'[r] = next
  BY <1>3 DEF BillingInv, TypeOK
<1>5. /\ next.kind = req[r].kind /\ next.total = req[r].total
      /\ next.amount = req[r].amount /\ next.invoice = req[r].invoice
      /\ req[r].kind = "pay" => req[r].step # "payments" \/ PayReadsPayments(r)
  <2> USE <1>2, <1>4 DEF Request, BillingInv, TypeOK, RequestOK, TxSteps
  <2>1. CASE InvoiceReadsNumber(r)
    BY <2>1 DEF InvoiceReadsNumber, Reads, At
  <2>2. CASE PayReadsPayments(r)
    BY <2>2 DEF PayReadsPayments, Reads
  <2>3. CASE PayReadsNumber(r)
    BY <2>3 DEF PayReadsNumber, Reads, At
  <2>4. CASE PayBegins(r)
    BY <2>4 DEF PayBegins, Reads, At
  <2>5. CASE PayInserts(r)
    BY <2>5 DEF PayInserts, At
  <2>6. CASE PayUpdates(r)
    BY <2>6 DEF PayUpdates, Reads, At
  <2>7. CASE PayFindsRegister(r)
    <3>1. PICK c : /\ req' = [req EXCEPT ![r] = [req[r] EXCEPT !.register = c, !.step = "entry"]]
                   /\ req[r].step = "register"
      BY <2>7 DEF PayFindsRegister, Reads, At
    <3> QED
      BY <3>1
  <2>8. CASE PayRecordsCash(r)
    BY <2>8 DEF PayRecordsCash, At
  <2>9. CASE CancelReadsPayments(r)
    BY <2>9 DEF CancelReadsPayments, Reads, At
  <2>10. CASE CancelWaits(r)
    BY <2>10 DEF CancelWaits, Reads, At
  <2>11. CASE Expires(r)
    BY <2>11 DEF Expires, InTx
  <2> QED
    BY <2>1, <2>2, <2>3, <2>4, <2>5, <2>6, <2>7, <2>8, <2>9, <2>10, <2>11
<1>6. PayReadsPayments(r) => Paid(req[r].invoice) + req[r].amount <= req[r].total
  BY <1>2 DEF PayReadsPayments, Paid, Request
<1>7. RequestFits(next)
  BY <1>2, <1>5, <1>6 DEF RequestFits
<1> QED
  BY <1>3, <1>7, FitsOn

\* Nobody else is in flight while an invoice or a payment is written.
LEMMA InvoiceFitsIn ==
  ASSUME OneRequest, BillingInv, FitInv, NEW r \in Requests, InvoiceCreates(r) \/ CancelWrites(r)
  PROVE  FitInv'
<1>0. PICK i : i = req[r].invoice
  OBVIOUS
<1>1. Busy(r) /\ UNCHANGED paid /\ req' = [req EXCEPT ![r] = NoRequest]
  BY DEF InvoiceCreates, CancelWrites, At, Done
<1>2. /\ req[r] \in Request /\ RequestOK(req[r]) /\ RequestFits(req[r]) /\ i \in Invoices
  BY <1>0, <1>1, InFlight DEF FitInv
<1>3. \A s \in Requests : ~Busy(s)'
  BY <1>1 DEF OneRequest, Busy, BillingInv, TypeOK
<1>4. /\ Issued(i)' /\ Paid(i) <= invoice'[i].total
      /\ \A j \in Invoices \ {i} : invoice'[j] = invoice[j]
  <2>1. CASE InvoiceCreates(r)
    <3> DEFINE row == [status |-> "PENDING", total |-> req[r].total, number |-> req[r].number]
    <3>1. /\ invoice' = [invoice EXCEPT ![i] = row] /\ ~Issued(i) /\ req[r].kind = "invoice"
          /\ req[r].total \in Nat
      BY <1>0, <1>2, <2>1 DEF InvoiceCreates, InvoiceFits, At, RequestFits
    <3>2. row \in InvoiceRow /\ row.total = req[r].total
      BY <1>2 DEF InvoiceRow, InvoiceStatus, Request
    <3>3. row # NoInvoice
      BY <3>2, BillingAssumption
    <3> HIDE DEF row
    <3>4. Paid(i) = 0
      BY <1>2, <3>1 DEF FitInv
    <3> QED
      BY <1>2, <3>1, <3>2, <3>3, <3>4 DEF BillingInv, TypeOK, Issued
  <2>2. CASE CancelWrites(r)
    <3> DEFINE row == [invoice[i] EXCEPT !.status = "CANCELLED"]
    <3>1. invoice' = [invoice EXCEPT ![i] = row] /\ Issued(i)
      BY <1>0, <1>2, <2>2 DEF CancelWrites, At, RequestOK
    <3>2. invoice[i] \in InvoiceRow /\ Paid(i) <= invoice[i].total
      BY <1>2, <3>1 DEF BillingInv, TypeOK, Issued, FitInv, NeverOverpaid
    <3>3. row \in InvoiceRow /\ row.total = invoice[i].total
      BY <3>2 DEF InvoiceRow, InvoiceStatus
    <3>4. row # NoInvoice
      BY <3>3, BillingAssumption
    <3> HIDE DEF row
    <3> QED
      BY <1>2, <3>1, <3>2, <3>3, <3>4 DEF BillingInv, TypeOK, Issued
  <2> QED
    BY <2>1, <2>2
<1>5. \A j : Paid(j)' = Paid(j)
  BY <1>1 DEF Paid
<1>6. \A j \in Invoices : (Issued(j)' /\ j # i => Issued(j)) /\ (~Issued(j)' => ~Issued(j))
  BY <1>4 DEF Issued
<1> QED
  BY <1>3, <1>4, <1>5, <1>6 DEF FitInv, NeverOverpaid

LEMMA PaymentFitsIn ==
  ASSUME OneRequest, BillingInv, FitInv, NEW r \in Requests, PayCommits(r)
  PROVE  FitInv'
<1>0. PICK i, m, a : i = req[r].invoice /\ m = req[r].method /\ a = req[r].amount
  OBVIOUS
<1>1. /\ Busy(r) /\ req[r].kind = "pay" /\ req[r].step = "commit"
      /\ req' = [req EXCEPT ![r] = NoRequest]
  BY DEF PayCommits, At, Done
<1>2. /\ req[r] \in Request /\ RequestOK(req[r]) /\ RequestFits(req[r]) /\ i \in Invoices
      /\ m \in Methods /\ a \in Nat
      /\ paid[i]["CASH"] \in Nat /\ paid[i]["CARD"] \in Nat /\ paid[i] \in [Methods -> Nat]
  BY <1>0, <1>1, InFlight DEF FitInv, Request, BillingInv, TypeOK
<1>3. \A s \in Requests : ~Busy(s)'
  BY <1>1 DEF OneRequest, Busy, BillingInv, TypeOK
<1>4. Issued(i) /\ Paid(i) + a <= invoice[i].total
  BY <1>0, <1>1, <1>2 DEF RequestOK, RequestFits
<1>5. /\ invoice' = [invoice EXCEPT ![i] = [invoice[i] EXCEPT !.status = StatusAfter(req[r])]]
      /\ paid' = [paid EXCEPT ![i] = [paid[i] EXCEPT ![m] = paid[i][m] + a]]
  BY <1>0 DEF PayCommits
<1>6. invoice'[i].total = invoice[i].total /\ \A j \in Invoices \ {i} : invoice'[j] = invoice[j]
  BY <1>2, <1>4, <1>5 DEF BillingInv, TypeOK, Issued, InvoiceRow
<1>7. Paid(i)' = Paid(i) + a /\ \A j \in Invoices \ {i} : Paid(j)' = Paid(j)
  BY <1>2, <1>5 DEF Paid, Methods, BillingInv, TypeOK
<1>8. NeverOverpaid'
  BY <1>4, <1>6, <1>7 DEF FitInv, NeverOverpaid, Issued
<1>9. ASSUME NEW j \in Invoices, ~Issued(j)' PROVE Paid(j)' = 0
  <2>1. Issued(i)'
    BY <1>5, BillingAssumption, <1>2, <1>4, <1>6
       DEF BillingInv, TypeOK, Issued, InvoiceRow, StatusAfter, InvoiceStatus
  <2> QED
    BY <1>6, <1>7, <1>9, <2>1 DEF FitInv, Issued
<1> QED
  BY <1>3, <1>8, <1>9 DEF FitInv

\* With one request at a time an invoice is never paid beyond its total, timeouts and
\* crashes included: only another payment in between makes two that fit too much.
\* The totals are not negative, as when no discount exceeds what it is taken from.
THEOREM OnePaymentFits ==
  ASSUME OneRequest, Totals \subseteq Nat
  PROVE  Spec => []NeverOverpaid
<1>1. Init => BillingInv /\ FitInv
  BY BillingStarts DEF Init, FitInv, NeverOverpaid, Issued, Busy, Paid, Methods
<1>2. BillingInv /\ FitInv /\ [Next]_vars => BillingInv' /\ FitInv'
  <2> SUFFICES ASSUME BillingInv, FitInv, [Next]_vars PROVE FitInv'
    BY BillingStepKeeps
  <2>1. ASSUME NEW r \in Requests, Throws(r) \/ Crashes(r) PROVE FitInv'
    BY <2>1, FitsOn DEF Throws, Crashes, Done, billing
  <2>2. ASSUME NEW r \in Requests, Advances(r) PROVE FitInv'
    BY <2>2, ProgressFits, InvoiceFitsIn, PaymentFitsIn DEF Advances
  <2>3. CASE UNCHANGED vars \/ (CashNext /\ UNCHANGED <<billing, req>>)
    BY <2>3 DEF vars, billing, FitInv, NeverOverpaid, Issued, Busy, Paid, RequestFits
  <2> QED
    BY <2>1, <2>2, <2>3, ArrivalFits, ProgressFits DEF Next
<1>3. FitInv => NeverOverpaid
  BY DEF FitInv
<1> QED
  BY <1>1, <1>2, <1>3, PTL DEF Spec
=============================================================================
