------------------------------ MODULE Billing ------------------------------
(***************************************************************************)
(* Invoices of repaired tickets and their payments.                        *)
(*                                                                         *)
(* registerPayment reads the invoice, its payments and the last payment    *)
(* number, and only then opens a transaction that inserts the payment and  *)
(* writes the status it computed.  A cash payment also calls               *)
(* registerInvoicePaymentInCash, which uses other connections: its cash    *)
(* transaction is committed whether or not the payment is.  Requests share *)
(* a pool of connections, and Prisma's timer rolls a slow transaction back *)
(* while its handler runs on.                                              *)
(***************************************************************************)
EXTENDS CashRegisters, FiniteSets

CONSTANTS Invoices,     \* tickets that can be invoiced, one invoice each
          Requests,     \* billing requests in flight together
          Totals,       \* what an invoice may come to
          Pool,         \* connections of the pool
          MaxPayments,  \* bound: no payment starts above this number
          MaxCash,      \* bound: nor once an invoice has more cash than this
          NoInvoice, NoRequest

Methods == {"CASH", "CARD"}     \* CARD stands for TRANSFER and OTHER too
InvoiceStatus == {"PENDING", "PAID", "CANCELLED"}

InvoiceRow == [status : InvoiceStatus, total : Int, number : Nat]

\* What a request does next; begin, insert, update and commit are the payment's
\* transaction, register and entry run within it, on connections of their own.
Steps == {"payments", "number", "begin", "insert", "update", "register", "entry",
          "commit", "write", "waits"}

Request ==
  [kind : {"invoice", "pay", "cancel"}, step : Steps,
   invoice : Invoices,
   total : Int,              \* to charge, or as read
   amount : Nat, method : Methods,
   seen : Nat,               \* payments it read, in all
   number : Nat,             \* number it will give
   tx : {"none", "open", "expired"},
   register : Registers \cup {NoRegister}]

ASSUME BillingAssumption ==
  /\ Totals \subseteq Int
  /\ Pool \in Nat \ {0}
  /\ MaxPayments \in Nat /\ MaxCash \in Nat
  /\ NoInvoice \notin InvoiceRow /\ NoRequest \notin Request

VARIABLES invoice,    \* invoices
          paid,       \* payments of each invoice, summed by method
          numbers,    \* their payment numbers
          newest,     \* the number of the payment created last
          newestInvoice,   \* the number of the invoice created last
          cashIn,     \* cash transactions that name the invoice, summed
          req         \* requests in flight

billing == <<invoice, paid, numbers, newest, newestInvoice, cashIn>>
vars == <<invoice, paid, numbers, newest, newestInvoice, cashIn, req,
          register, entries, call>>

\* Invoices, payments and requests in flight are well formed.
TypeOK ==
  /\ CashTypeOK
  /\ invoice \in [Invoices -> InvoiceRow \cup {NoInvoice}]
  /\ paid \in [Invoices -> [Methods -> Nat]]
  /\ numbers \subseteq Nat
  /\ newest \in Nat /\ newestInvoice \in Nat
  /\ cashIn \in [Invoices -> Nat]
  /\ req \in [Requests -> Request \cup {NoRequest}]

Init ==
  /\ CashInit
  /\ invoice = [i \in Invoices |-> NoInvoice]
  /\ paid = [i \in Invoices |-> [m \in Methods |-> 0]]
  /\ numbers = {}
  /\ newest = 0 /\ newestInvoice = 0
  /\ cashIn = [i \in Invoices |-> 0]
  /\ req = [r \in Requests |-> NoRequest]

-----------------------------------------------------------------------------
Busy(r) == req[r] # NoRequest
At(r, kind, step) == Busy(r) /\ req[r].kind = kind /\ req[r].step = step
Issued(i) == invoice[i] # NoInvoice
Paid(i) == paid[i]["CASH"] + paid[i]["CARD"]

\* A transaction keeps its connection, a statement that waits for a lock too.
InTx(r) == Busy(r) /\ req[r].tx = "open"
FreeConnection ==
  Cardinality({r \in Requests : InTx(r) \/ At(r, "cancel", "waits")}) < Pool

\* The payment row is inserted, or the invoice row updated, and not committed:
\* the unique index makes the same number wait, the row lock another update.
Inserted(r) == InTx(r) /\ req[r].step \in {"update", "register", "entry", "commit"}
Updated(r) == InTx(r) /\ req[r].step \in {"register", "entry", "commit"}
NumberHeld(r, n) == \E q \in Requests \ {r} : Inserted(q) /\ req[q].number = n
RowLocked(r, i) == \E q \in Requests \ {r} : Updated(q) /\ req[q].invoice = i

Begin(r, kind, step, i, total, amount, method) ==
  /\ ~Busy(r)
  /\ FreeConnection
  /\ req' = [req EXCEPT ![r] =
       [kind |-> kind, step |-> step, invoice |-> i, total |-> total,
        amount |-> amount, method |-> method, seen |-> 0, number |-> 0,
        tx |-> "none", register |-> NoRegister]]
  /\ UNCHANGED <<billing, cashVars>>

\* A read: the request goes on with what it has learnt.
Reads(r, q) ==
  /\ FreeConnection
  /\ req' = [req EXCEPT ![r] = q]
  /\ UNCHANGED <<billing, cashVars>>

Done(r) == req' = [req EXCEPT ![r] = NoRequest]

\* computeNextSequentialNumber, of the last number in creation order.
NextNumber(last) == last + 1
InvoiceNumbers == {invoice[i].number : i \in {j \in Invoices : Issued(j)}}

-----------------------------------------------------------------------------
(* generateInvoiceFromTicket, for a CLOSED or RESOLVED ticket. *)

InvoiceReadsTicket(r, i, total) ==
  ~Issued(i) /\ Begin(r, "invoice", "number", i, total, 0, "CARD")

InvoiceReadsNumber(r) ==
  /\ At(r, "invoice", "number")
  /\ Reads(r, [req[r] EXCEPT !.number = NextNumber(newestInvoice), !.step = "write"])

\* ticketId and (invoiceNumber, tenantId) are unique.
InvoiceFits(r) == ~Issued(req[r].invoice) /\ req[r].number \notin InvoiceNumbers

InvoiceCreates(r) ==
  /\ At(r, "invoice", "write")
  /\ FreeConnection
  /\ InvoiceFits(r)
  /\ invoice' = [invoice EXCEPT ![req[r].invoice] =
       [status |-> "PENDING", total |-> req[r].total, number |-> req[r].number]]
  /\ newestInvoice' = req[r].number
  /\ Done(r)
  /\ UNCHANGED <<paid, numbers, newest, cashIn, cashVars>>

-----------------------------------------------------------------------------
(* registerPayment. *)

PayReadsInvoice(r, i, amount, method) ==
  /\ Issued(i)
  /\ invoice[i].status \notin {"PAID", "CANCELLED"}
  /\ newest < MaxPayments /\ \A j \in Invoices : cashIn[j] <= MaxCash
  /\ Begin(r, "pay", "payments", i, invoice[i].total, amount, method)

PayReadsPayments(r) ==
  /\ At(r, "pay", "payments")
  /\ req[r].amount <= req[r].total - Paid(req[r].invoice)
  /\ Reads(r, [req[r] EXCEPT !.seen = Paid(req[r].invoice), !.step = "number"])

\* Mutant: the number comes from a counter that a rollback does not set back.
PayReadsNumber_Counter(r) ==
  /\ At(r, "pay", "number")
  /\ LET given == {newest} \cup {req[q].number : q \in {p \in Requests : Busy(p)}}
         last == CHOOSE n \in given : \A m \in given : m <= n
     IN Reads(r, [req[r] EXCEPT !.number = NextNumber(last), !.step = "begin"])

PayReadsNumber(r) ==
  /\ At(r, "pay", "number")
  /\ Reads(r, [req[r] EXCEPT !.number = NextNumber(newest), !.step = "begin"])

PayBegins(r) ==
  /\ At(r, "pay", "begin")
  /\ Reads(r, [req[r] EXCEPT !.tx = "open", !.step = "insert"])

\* Mutant: no unique index on the payment number.
PayInserts_NoIndex(r) ==
  /\ At(r, "pay", "insert") /\ InTx(r)
  /\ req' = [req EXCEPT ![r] = [req[r] EXCEPT !.step = "update"]]
  /\ UNCHANGED <<billing, cashVars>>

PayInserts(r) ==
  /\ At(r, "pay", "insert") /\ InTx(r)
  /\ req[r].number \notin numbers
  /\ ~NumberHeld(r, req[r].number)
  /\ req' = [req EXCEPT ![r] = [req[r] EXCEPT !.step = "update"]]
  /\ UNCHANGED <<billing, cashVars>>

\* update of the tenant client finds the row on another connection first.
PayUpdates(r) ==
  /\ At(r, "pay", "update") /\ InTx(r)
  /\ ~RowLocked(r, req[r].invoice)
  /\ Reads(r, [req[r] EXCEPT
       !.step = IF req[r].method = "CASH" THEN "register" ELSE "commit"])

\* Mutant: without an open register the payment goes on.
PayFindsRegister_Optional(r) ==
  /\ At(r, "pay", "register")
  /\ \/ \E c \in Registers :
          IsOpen(c) /\ Reads(r, [req[r] EXCEPT !.register = c, !.step = "entry"])
     \/ /\ \A c \in Registers : ~IsOpen(c)
        /\ Reads(r, [req[r] EXCEPT !.step = "commit"])

\* registerInvoicePaymentInCash: any open register ...
PayFindsRegister(r) ==
  /\ At(r, "pay", "register")
  /\ \E c \in Registers :
       IsOpen(c) /\ Reads(r, [req[r] EXCEPT !.register = c, !.step = "entry"])

\* ... takes the entry, which commits by itself, the timer run out or not.
PayRecordsCash(r) ==
  /\ At(r, "pay", "entry")
  /\ FreeConnection
  /\ RecordEntry(req[r].register, "INCOME", req[r].amount)
  /\ LET i == req[r].invoice
     IN cashIn' = [cashIn EXCEPT ![i] = cashIn[i] + req[r].amount]
  /\ req' = [req EXCEPT ![r] = [req[r] EXCEPT !.step = "commit"]]
  /\ UNCHANGED <<invoice, paid, numbers, newest, newestInvoice, call>>

\* Mutant: its own payment is counted twice.
StatusAfter_CountsTwice(q) ==
  IF q.seen + q.amount + q.amount >= q.total THEN "PAID" ELSE "PENDING"

\* The status comes from the payments it had read, and its own.
StatusAfter(q) == IF q.seen + q.amount >= q.total THEN "PAID" ELSE "PENDING"

PayCommits(r) ==
  /\ At(r, "pay", "commit") /\ InTx(r)
  /\ LET q == req[r]
         p == paid[q.invoice]
     IN
       /\ invoice' = [invoice EXCEPT ![q.invoice] =
            [invoice[q.invoice] EXCEPT !.status = StatusAfter(q)]]
       /\ paid' = [paid EXCEPT ![q.invoice] =
            [p EXCEPT ![q.method] = p[q.method] + q.amount]]
       /\ numbers' = numbers \cup {q.number}
       /\ newest' = q.number
  /\ Done(r)
  /\ UNCHANGED <<newestInvoice, cashIn, cashVars>>

-----------------------------------------------------------------------------
(* cancelInvoice. *)

CancelReadsInvoice(r, i) ==
  Issued(i) /\ Begin(r, "cancel", "payments", i, 0, 0, "CARD")

CancelReadsPayments(r) ==
  /\ At(r, "cancel", "payments")
  /\ Paid(req[r].invoice) = 0
  /\ Reads(r, [req[r] EXCEPT !.step = "write"])

\* The update takes a connection and, with it, waits for a payment that has written
\* the invoice.
CancelWaits(r) ==
  /\ At(r, "cancel", "write") /\ FreeConnection
  /\ RowLocked(r, req[r].invoice)
  /\ Reads(r, [req[r] EXCEPT !.step = "waits"])

\* Mutant: a status the enum does not have.
CancelWrites_Misspelt(r) ==
  /\ \/ At(r, "cancel", "write") /\ FreeConnection
     \/ At(r, "cancel", "waits")
  /\ ~RowLocked(r, req[r].invoice)
  /\ invoice' = [invoice EXCEPT ![req[r].invoice] =
       [invoice[req[r].invoice] EXCEPT !.status = "CANCELED"]]
  /\ Done(r)
  /\ UNCHANGED <<paid, numbers, newest, newestInvoice, cashIn, cashVars>>

CancelWrites(r) ==
  /\ \/ At(r, "cancel", "write") /\ FreeConnection
     \/ At(r, "cancel", "waits")
  /\ ~RowLocked(r, req[r].invoice)
  /\ invoice' = [invoice EXCEPT ![req[r].invoice] =
       [invoice[req[r].invoice] EXCEPT !.status = "CANCELLED"]]
  /\ Done(r)
  /\ UNCHANGED <<paid, numbers, newest, newestInvoice, cashIn, cashVars>>

-----------------------------------------------------------------------------
(* Failures.  What a transaction wrote is private until it commits, so a     *)
(* rollback only forgets it; a cash transaction stays.                       *)

\* A check of the handler, a unique index or an expired transaction raises.
Throws(r) ==
  /\ Busy(r)
  /\ LET q == req[r] IN
       \/ /\ q.kind = "pay" /\ q.step = "payments"
          /\ q.amount > q.total - Paid(q.invoice)
       \/ q.kind = "cancel" /\ q.step = "payments" /\ Paid(q.invoice) # 0
       \/ q.kind = "invoice" /\ q.step = "write" /\ ~InvoiceFits(r)
       \/ q.step = "insert" /\ q.number \in numbers
       \/ q.step = "register" /\ \A c \in Registers : ~IsOpen(c)
       \/ q.step \in {"insert", "update", "commit"} /\ q.tx = "expired"
  /\ Done(r)
  /\ UNCHANGED <<billing, cashVars>>

\* Mutant: no timer.
Expires_Never(r) == FALSE

\* Five seconds are over.  The rollback waits for a statement that waits; the
\* handler hears of it at its next statement in the transaction.
Expires(r) ==
  /\ InTx(r)
  /\ ~(req[r].step = "insert" /\ NumberHeld(r, req[r].number))
  /\ req' = [req EXCEPT ![r] = [req[r] EXCEPT !.tx = "expired"]]
  /\ UNCHANGED <<billing, cashVars>>

\* The process dies, or a statement or a connection fails.
Crashes(r) == Busy(r) /\ Done(r) /\ UNCHANGED <<billing, cashVars>>

-----------------------------------------------------------------------------
Arrives(r) ==
  \E i \in Invoices :
    \/ \E total \in Totals : InvoiceReadsTicket(r, i, total)
    \/ \E a \in Amounts, m \in Methods : PayReadsInvoice(r, i, a, m)
    \/ CancelReadsInvoice(r, i)

Advances(r) ==
  \/ InvoiceReadsNumber(r) \/ InvoiceCreates(r)
  \/ PayReadsPayments(r) \/ PayReadsNumber(r) \/ PayBegins(r) \/ PayInserts(r)
  \/ PayUpdates(r) \/ PayFindsRegister(r) \/ PayRecordsCash(r) \/ PayCommits(r)
  \/ CancelReadsPayments(r) \/ CancelWaits(r) \/ CancelWrites(r)

Next ==
  \/ \E r \in Requests : Arrives(r) \/ Advances(r) \/ Throws(r) \/ Expires(r) \/ Crashes(r)
  \/ CashNext /\ UNCHANGED <<billing, req>>

Spec == Init /\ [][Next]_vars

\* A statement that can run does, PostgreSQL serves those that wait in turn, and
\* the timer of a transaction runs out.  Nobody has to pay, and nothing has to
\* crash.
FairSpec ==
  /\ Spec
  /\ \A r \in Requests : SF_vars(Advances(r) \/ Throws(r)) /\ WF_vars(Expires(r))

-----------------------------------------------------------------------------
(* Properties. *)

\* An invoice is PAID only when committed payments cover its total, whatever
\* stale sum the last of them computed with.
PaidInFull ==
  \A i \in Invoices :
    Issued(i) /\ invoice[i].status = "PAID" => Paid(i) >= invoice[i].total

\* The comment in registerPayment: no cash payment without its entry in a
\* register, rollbacks, timers and crashes included.
CashIsRecorded == \A i \in Invoices : paid[i]["CASH"] <= cashIn[i]

\* Payment numbers are consecutive: a rolled back payment leaves no gap.
NumbersGapless == numbers = 1 .. newest

\* Nothing locks the tenant's payments, and yet no two are ever written at once:
\* whoever reads the last number before another commits meets the unique index.
PaymentsSerialised ==
  \A r, q \in Requests : Inserted(r) /\ Inserted(q) => r = q

\* Payments as billing promises them: one after the other, numbered without a gap,
\* and cash in a register first, whatever expires, fails or crashes on the way.
Book == INSTANCE PaymentBook WITH recorded <- cashIn, last <- newest

PaymentsAreBooked == Book!Spec

\* Every request is answered, though transactions wait for connections of the
\* pool while they hold one.
RequestsFinish == \A r \in Requests : Busy(r) ~> ~Busy(r)

-----------------------------------------------------------------------------
(* What the code says of itself and does not keep. *)

\* registerPayment: an amount above the balance due is refused.
NeverOverpaid ==
  \A i \in Invoices : Issued(i) => Paid(i) <= invoice[i].total
=============================================================================
