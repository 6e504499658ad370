# FIX-AI: verification project

FIX-AI is a multi-tenant workshop manager: a Next.js server over PostgreSQL
(through Prisma) that keeps repair tickets, the parts they consume, a point of
sale with its credit notes, quotations, invoices, cash registers, purchase
orders and users. This directory holds TLA+ models of the parts of it where
several requests touch the same rows, the TLC configurations that check them on
small instances, and proofs checked by TLAPS.

Every paragraph below cites files under `src/`, the repository.

## 1. The system

The server keeps no state between requests. All shared state is in the
database, and two things decide what concurrent requests may do to it:

* **How a handler groups its statements.** A handler is either one statement,
  a chain of separate statements, or a Prisma interactive transaction, which runs
  READ COMMITTED unless it says SERIALIZABLE (`pos-actions.ts:358,426` and
  `service-template-actions.ts:563` do). `getTenantPrisma`
  (`lib/tenant-prisma.ts:57-64`) sends `findUnique` on tenant models to the base
  client, so that those reads happen *outside* the surrounding transaction.
* **Triggers.** Stock, cash balances and document numbers are moved by database
  triggers, which the migrations define and redefine; none of those on stock or
  cash is ever dropped for good.

### Components

| Component | State | Operations | What makes it correct |
|---|---|---|---|
| Ticket parts and inventory (`use-cases/tickets`, `api/tickets/[id]/actions`, `lib/bulk-actions.ts`) | `tickets.status`, `part_usages`, `parts.quantity` | add, approve, reject, remove a part; cancel a ticket (two ways); create a ticket with parts or from a template; status changes; bulk update and delete; the part form | a usage takes what the triggers take for it, and gives it back, once; never negative; no part consumed by a ticket that is gone; an approval is all or nothing |
| Stock triggers (`prisma/migrations`) | `parts.quantity` | INSERT, UPDATE, DELETE on `part_usages` | each row is charged for what it is |
| Invoices and payments (`lib/invoice-actions.ts`) | `invoices`, `payments` | generate, pay, cancel | a paid invoice is covered by its payments; not paid beyond its total; payments are numbered without repetition; a cash payment is in a register |
| Cash registers (`lib/cash-register-actions.ts`) | `cash_registers`, `cash_transactions` | open, record, close | the balance expected at closing is what the movements say |
| Point of sale (`lib/pos-actions.ts`) | `pos_sales`, items, payments, stock | sell, void | stock moves once per sale and back once per void; cash refunded once |
| Credit notes (`lib/credit-note-actions.ts`) | `credit_notes`, stock, sale status | create, refund, cancel | no more is returned than was sold; stock restored once |
| Quotations (`lib/quotation-actions.ts`, `quotation-cron.ts`) | `pos_quotations` | create, send, accept, convert, expire | a quotation becomes at most one sale; expiry does not undo an acceptance |
| Purchases (`lib/purchase-actions.ts`) | `purchase_orders`, stock | create, add item, receive | an order is received once |
| Technician workload (`api/tickets/[id]/actions:107-256`) | `tickets.assignedToId`, `users.status` | take, assign, absences | nobody is assigned more than `maxConcurrentTickets` |
| Document numbering (triggers, `computeNextSequentialNumber`) | numbers | next number | unique per tenant |
| Login lockout (`auth.ts`) | failed attempts, lock time | failed and successful login | five failures lock the account |
| Users (`lib/user-actions.ts`) | address, role, active flag | create, update, delete | the unique index keeps addresses apart; a tenant keeps an administrator |
| Tickets being opened and numbered (`CreateTicketUseCase`, triggers on `tickets`) | `tickets.ticketNumber` | open, delete | no two tickets have one number |
| SLA alerts (`api/cron/sla-check`) | notifications, settings | cron job, settings, deletion of a notice | a technician is told, once a day and level |
| Customers, templates, notes and services of a ticket | rows that refer to each other | create, copy, look and delete | no deletion leaves a reference in the air or takes work with it |
| Attachments, audit log, reports, UI | rows of their own | messages, queries | nothing that interleaves |

They interact only through rows: ticket parts, sales, credit notes, quotations,
purchases and the part form all move `parts.quantity`; invoices read the
approved usages of a ticket; payments, sales and voids write cash movements.

### Hard behaviours

Requests interleave between any two statements. A check made before a
transaction is stale inside it; rows read may be deleted or rewritten before
they are written; row locks are taken in whatever order the handler iterates, so
requests deadlock; a transaction may be rolled back at any point by a timeout, a
deadlock or a crash. Two AFTER triggers on one table fire in alphabetical order
and see each other's updates. Nothing retries.

## 2. Modules

How they build on each other (an indented module EXTENDS the one above it, an
arrow is a refinement):

```
PartTriggers            triggers on part_usages
  TicketParts           parts of tickets
CashRegisters           registers and their movements
  Billing               invoices and payments         -> PaymentBook
  Sales                 POS sales and voids
    Quotations  Purchases
      Shop              the counter as a whole        -> StockLedger
    Returns             credit notes
Desk                    ticket numbers, assignment
  Alerts                the SLA job
Records                 what is deleted and what refers to it
```

### PartTriggers

The three triggers on `part_usages`, as operators: what each adds to
`parts.quantity` when a row is inserted, updated or deleted, and when it raises.

| Operator | Trigger | Migration |
|---|---|---|
| `PreventRaises` | `trg_prevent_negative_stock` (BEFORE INSERT) | 20260126020000 |
| `SyncOn...`, `SyncRaises` | `sync_part_inventory_trigger` (AFTER) | 20260808120000 |
| `LegacyOn...` | `trg_update_stock_on_usage` (AFTER) | 20260115202800 |

The constant `Installed` is the set of triggers a database has. `prisma migrate
deploy` installs all three, and so have all runs: a proposed part is taken from
stock by the third, and an approved one twice, by the second and the third.

### TicketParts

State: `status`, `usage` and `stock` are the columns the requests share; `tx[r]`
is the request in slot `r`, with what it read (`seen`, `rows`), what it still has
to write (`todo`), what it wrote and not committed (`done`, `delta`, `moved`) and
the parts it locked (`held`). `charged` is a history variable: the units that
triggers took from stock for each usage.

A handler is a sequence of actions, one per statement that other requests can
see or delay:

| Handler | Reads | Writes | Commits |
|---|---|---|---|
| `AddPartToTicketUseCase` | `AddPartReads` | `CheckStock`, `InsertUsage` | `AddPartCommits` |
| `ApproveTicketPartsUseCase` | `ApproveReadsTicket`, `ApproveOrRejectReadsPending` | `ApproveUsage` | `ApproveCommits` |
| `RejectTicketPartsUseCase` | `RejectReadsTicket`, `ApproveOrRejectReadsPending` | `DeleteUsage` | `RejectCommits` |
| `RemovePartFromTicketUseCase` | `RemoveReads` | `DeleteUsage` | `RemoveCommits` |
| `UpdateTicketUseCase`, `UpdateTicketStatusUseCase`, `DeleteTicketUseCase` to CANCELLED | `CancelReads` | `DeleteUsage` | `CancelCommits` |
| cancel action of the ticket route | `RouteCancelReadsTicket`, `RouteCancelReadsUsages` | `RestockUsage` | `RouteCancelCommits` |
| `CreateTicketUseCase`, batch, `POST /api/tickets` | `CreateTicketOpens` | `CheckStock`, `InsertUsage` | `CreateCommits` |
| `createTicketFromTemplate` | `TemplateOpens` | `CheckStock`, `InsertUsage` | `TemplateCommits` |
| other route actions | | `RouteSetsStatus` | |
| status changes of `updateTicket`, `updateTicketStatus` | | `UpdateTicket` | |
| `bulkUpdateTicketStatus`, `PATCH` | | `BulkUpdateTicketStatus` | |
| `bulkDeleteTickets`, `DELETE` | | `DeleteTicketRow` | |
| `UpdatePartUseCase` | | `UpdatePart` | |

The last statement on the ticket row and the commit are one action: nothing can
be observed between them except a wait for that row, which is as long as the
wait for the commit. The rows of several usages are written in any order, which
covers the order of the code's loops. `HandlerFails`, `DeadlockVictim` and
`Abandoned` roll back. A rolled back request disappears without a trace, which is
what PostgreSQL promises.

A request that opens a ticket takes an id nobody knows, so its ticket cannot be
addressed before it commits. Usage ids are used once (`NoRow`, a row,
`DeletedRow`), as UUIDs are.

### CashRegisters

State: `register` is `cash_registers`, `entries` the `cash_transactions` of each
register summed by type, and `call[k]` the cash-register handler in slot `k` with
what it was given and what it read.  No handler of this component opens a
transaction, so each is a chain of separately committed statements:

| Handler | Actions, in order |
|---|---|
| `openCashRegister` | `OpenReads`, `OpenWrites` |
| `registerCashTransaction` | `EntryReads`, `EntryWrites` |
| `closeCashRegister` | `CloseReadsRegister`, `CloseReadsEntries`, `CloseWrites` |
| trigger `sync_cash_register_balance` | `RecordEntry`, part of every insert |

`CloseReadsRegister` and `CloseReadsEntries` are one `findUnique` with `include`,
which Prisma runs as two queries. `CallFails` ends a handler between two of its
statements. A handler whose check fails changes nothing and is a call that never
began.

### Billing

Extends CashRegisters. `invoice` and `paid` are the invoices and their committed
payments summed by method, `numbers` and `newest` the payment numbers, and
`newestInvoice` the last invoice's. `cashIn` is what cash transactions record for
each invoice. `req[r]` is the request in slot `r`; its `step` names the statement
it runs next.

| Handler | Actions, in order |
|---|---|
| `generateInvoiceFromTicket` | `InvoiceReadsTicket`, `InvoiceReadsNumber`, `InvoiceCreates` |
| `registerPayment`, before its transaction | `PayReadsInvoice`, `PayReadsPayments`, `PayReadsNumber` |
| `registerPayment`, in its transaction | `PayBegins`, `PayInserts`, `PayUpdates`, then for cash `PayFindsRegister`, `PayRecordsCash`, then `PayCommits` |
| `cancelInvoice` | `CancelReadsInvoice`, `CancelReadsPayments`, then `CancelWrites`, after `CancelWaits` if the invoice row is locked |

`PayFindsRegister` and `PayRecordsCash` are `registerInvoicePaymentInCash`, called
within the transaction but through a client of its own, so `PayRecordsCash`
changes committed state at once. What the transaction itself wrote is in
`req[r]` and becomes visible in `PayCommits`; `Inserted` and `Updated` say what it
holds meanwhile: a payment number, for which another insert of that number waits,
and the invoice row. `Throws` is every error the handlers raise after their first
statement, `Expires` is Prisma's timer, which rolls the transaction back while
the handler runs on and learns of it at its next statement, and `Crashes` ends a
request anywhere.

`FreeConnection` guards every statement that needs a connection of the pool
besides the transaction's own. Open transactions hold one, and so does a cancellation that
waits for the row lock of its invoice (`CancelWaits`); other statements use one for
a step and give it back.

### PaymentBook

What billing promises: `Record` puts the cash of a payment in a register, `Pay`
makes the next payment under the next number, cash only when it is recorded.
Requests, transactions, timers and crashes are not in it. `Billing!PaymentsAreBooked`
maps the invoices' payments, the registers' entries and the numbers to the book.

### Sales

Extends CashRegisters. `stock` is `parts.quantity`, `sale` the rows of `pos_sales`
with their one line, `noted` the sales with a credit note, `job[w]` the request of
worker `w`.

| Handler | Actions, in order |
|---|---|
| `createPOSSale` | `SaleReads`, `SaleBegins`, `SaleCommits` |
| `voidPOSSale` | `VoidReads`, `VoidCommits` |

A SERIALIZABLE transaction works on the snapshot of its first statement and fails
if a row it writes was committed since. Nobody sees what it writes before it
commits, so a transaction is its snapshot and its commit; `missed` in a job
says that a row its snapshot covers has changed, which every commit notes in the
jobs it concerns (`Notice`). A void reads everything it decides on before its transaction, and has only the commit.
The triggers on `pos_sale_items` and `pos_sales` (stock, numbers, the stock that
a void gives back) are part of the commits, and so are the cash movements.

### Quotations, Purchases

| Handler | Actions, in order |
|---|---|
| `updateQuotationStatus` | `StatusReads`, `StatusWrites` |
| `deleteQuotation` | `DeleteReads`, `DeleteWrites` |
| `markExpiredQuotations` | `MarkExpired`, one statement |
| the expiry job of `quotation-cron.ts` | `CronReads`, `CronWrites` for each |
| `convertQuotationToSale` | `ConvertReads`, `ConvertReadsNumber`, `ConvertInserts`, `ConvertCommits`, `ConvertMarks` |
| `addPurchaseItem` | `ItemReads`, `ItemWrites` |
| `receivePurchaseOrder` | `ReceiveReads`, `ReceiveCommits` |

A conversion reads a number, inserts the sale under it, and marks the quotation
in a statement after the sale: between the insert and the commit the unique
indexes on the number and on the quotation make a second conversion wait (`Held`).

### StockLedger, Shop

`StockLedger` is what the counter promises of stock: a sale takes its units once,
gives them back at most once, a delivery adds what it records. `Shop` puts
Sales, Quotations and Purchases over the same rows and maps them to the ledger:
`out` is the sales that exist, `back` those that are VOIDED, `delivered` a history of
what receptions added.

### Returns

`createCreditNote`, `processRefund` and `cancelCreditNote` beside sales and
voids. None of the three opens a transaction, so each statement is an action
(`NoteReads`, `NoteCreates`, `NoteRestocks`, `NoteSums`, `NoteRates`; `RefundReads`,
`RefundWrites`; `CancelReads`, `CancelTakesStock`, `CancelMarks`, `CancelSums`,
`CancelRates`), and `Stops` ends a request between two of them. `halfway` is a
history variable: some request stopped after its first commit.

A sale has one line, so all lines of a note are about one part, and there may be
several: `NoteReads` compares each with what earlier notes left, as the loop at
`credit-note-actions.ts:190-202` does, and does not add them up. The money of a
note is independent of its units (`NoteTotals`), since the client names the prices;
the status is computed from money (`Refunded` against `Total`), the stock from
units.

### Desk, Alerts

`Desk`: `ticket` is the columns status, assignee, due date and number,
`away` the technicians who are not AVAILABLE. Opening a ticket
is `Inserts`, where the trigger gives the number, and `CreateCommits`; `Waits`
says which inserts wait for another's number. The migrations leave two triggers
that number a ticket; `assign_ticket_number_trigger` comes first in the order of
names and the other, which has a sequence, finds the number given and does nothing. Taking is
`TakeReads`, `TakeChecks`, `TakeWrites`; assigning `AssignReads`, `TakeWrites`; the
route's cancel `CancelReads`, `CancelWrites`. Single statements (edits, bulk edits,
deletions, availability) are one action each.

`Alerts` adds the SLA job over these tickets: `CronLists` reads the settings and the
tickets, `CronVisits` looks at one ticket's level and at the notifications of the
day, `CronMails` sends the e-mail, `CronNotes` writes the notification, `CronEnds`
and `CronDies` end the run. `SetsSLA` turns e-mail or notifications on and off, and
`DeletesNotification` is the technician's. `told` is a history variable, how often an
alert was given in the last day by either way, and `lost` the alerts among them of which
no notification is left: notifications were off, the job died after the e-mail, or the
technician deleted it.

### Records

`row` gives each id of nine tables its references. A handler that deletes looks
first and deletes in another statement (`DeleteCustomerReads`, `DeletePartReads`,
`DeleteTemplateReads`, then `Deletes`); rows that belong to another are read for and
added (`Add...Reads`, `Adds`); users are looked up by address and written
(`RegisterReads`, `Registers`; `RenameReads`, `Renames`); a ticket or a copy of a
template is a transaction of its own row, a line per part, and a commit
(`OpenTicketReads`, `OpenFromTemplateReads`, `DuplicateReads`, `InsertsHead`,
`InsertsLine`, `Commits`). `OnDelete` is what each foreign key of the schema does to
the row that refers: refuse, go along, or forget. Rows of an open transaction
lock what they refer to (`Locked`). An id may be used again once no row has it
and no request knows it (`Fresh`): nothing tells such an id from a new one.

### MC modules

`MCTicketParts`, `MCBilling`, `MCShop`, `MCReturns`, `MCDesk`, `MCAlerts` and `MCRecords`
give TLC opening stocks, the triggers of the migration chain and symmetry.

### Proof modules

`TicketPartsProofs`, `CashProofs`, `BillingProofs`, `ShopProofs`, `ReturnsProofs`,
`DeskProofs` (the desk and its alerts) and `RecordsProofs` hold the theorems of
section 4, `Sums` the lemmas on sums over a finite set that ticket parts and credit
notes need.

## 3. What the runs check

| Run | Instance | Shows |
|---|---|---|
| `approval` | 1 ticket, 1 part with 2 units, 2 usages of 1 or 2 units, 2 requests, the part form setting 0; the whole migration chain | types; only inserts overdraw; no orphan usage; the life of a usage row; approvals all or nothing; stock moves by exactly what usages take |
| `finish` | 2 parts with 2 units each, 2 usages of 1, 2 requests, the whole migration chain, fairness | each usage charged exactly what the triggers take; every request is answered |
| `negative_stock` | 1 part with 2 units, usages of 2, 2 requests, the whole migration chain | the stock goes below zero |
| `billing` | 1 invoice of 2, payments of 1, 1 register, 2 requests, 2 connections, fairness | types; PAID is covered; cash payments have their entry; numbers without gaps; one payment written at a time; the payment book is implemented; every request is answered |
| `overpaid` | 1 invoice of 2, payments of 1 or 2 | an invoice is paid beyond its total |
| `shop` | 1 part with 1 unit, 3 sales, 1 quotation, 1 order, 2 workers | types; a quotation is sold once; sale numbers without gaps; a sale never takes units that are not there; the stock ledger is implemented |
| `returns` | 1 part with 3 units, 1 sale of 1 or 2, 2 notes of up to 2 lines, worth 0 or 1, 1 register and clerk, 1 worker | types; the sale's status tells the money of its notes; the stock tells the units; no unit is invented; the trigger's balance and the computed one agree; a closed balance lacks only what the close could not see |
| `over_return` | the same, notes worth 2 | more comes back of a sale than was sold |
| `desk` | 3 tickets, 2 requests, 1 technician | types; ticket numbers unique |
| `workload_limit` | 2 tickets, 2 requests, 1 technician, limit 1 | a technician is assigned more than the limit |
| `alerts` | 1 ticket, 1 technician, 1 request, 1 death of the job, fairness | types; told twice a day only where a notification was lost; told in the end |
| `records` | 2 users and addresses, 2 templates with 2 parts lists, 1 of everything else, 2 requests | types; references hold; work on tickets is kept |

What the four violations show:

* `negative_stock`: a ticket is created with 2 approved units of a part that has 2. The
  handler's look, `prevent_negative_stock` and the guard of `trg_sync_part_inventory` let
  it pass; then `trg_update_stock_on_usage`, which no migration drops, takes the 2
  again, and the stock is -2. `OnlyInsertsOverdraw` says how far this goes: approving
  never does it, only inserting. `ChargedExactly` and `StockFollowsUsages` hold on
  the same chain: each usage takes what all its triggers take for it, and gives it back.
* `overpaid`: two payments read one balance, and both fit.
* `over_return`: one note with two lines of 2 of one part on a sale of 2. Two notes at
  once do the same; the run needs only one request.
* `workload_limit`: two assignments count the same tickets.

Deadlock is checked except in `shop`, `returns` and `desk`, where every id is used
up in the end and nobody has anything left to ask; the runs that look for
a violation stop at it.

Bounds of TicketParts. Two requests and two usages are the least with which every hazard of
this component happens: two writers of one row, a row written between another's
read and write, a deadlock on two rows, two consumers of the last unit, an
approval half done. `Quantities = {1, 2}` against two units lets one usage use up
the stock and two overdraw it. In `finish` the first migration's trigger locks the
part of every row written, so that two requests can wait for each other only over
two parts; two units are what one approved usage is charged there. `MaxStock` stops route cancels, which inflate the
stock, from growing it without end; it bounds only that action. `StatusInputs`
restricts the statuses clients ask for, because no property
of the runs reads statuses other than through the tickets' existence and the
handlers' own reads. Symmetry is used where no property is temporal beyond
single steps; `finish`, `billing` and `alerts` use none.

Bounds of Billing. A register id is used once, `MaxPayments` and `MaxCash` limit only
the first step of a payment. The total is twice a payment, because the defects of
`registerPayment` need a partial payment. One invoice is what runs with fairness in the
time there is; that payment numbers are shared between invoices, and the rest for any number of
them, is in the theorems.
Clerks make no entries of their own (`MaxEntries = 0`): they open
and close the register under the payments, and entries are the subject of `returns`. A
pool of two against two requests is the least with which all connections are
held by transactions that need another one.

Bounds of the counter. One unit and three sales let two sales race for it, a
conversion sell what is not there and a void make it sellable again; a
quotation and two workers are two conversions of it at once, an order and two
workers two receptions. `MaxDue` limits what an order asks for. `shop` has no
registers, so its sales are by card; cash sales, voids and the clerk's own entries
(`MaxEntries = 1`) are in `returns`. That run has one worker: the handlers of credit
notes hold no lock and no transaction, and two of them at once upset each
other's sums and statuses, so its properties are about
sequences of requests, one of which stops half-way. Two notes are the least of
which one can be cancelled while another lives, two lines the least that a note can have of one
part, two units the least that can be returned in part; a note worth 0 or 1 on
a sale of 1 or 2 tells no, some and all of the money apart. Two sales of one part are
left to the theorems, which are for any number.

Bounds of Desk and Alerts. The third ticket lets the newest be deleted and another
be opened while two exist. `Targets` are the statuses clients ask for; in `alerts`
RESOLVED, which ends the job's interest. In `alerts` a ticket's level only rises
(its due date is not moved on), the job is called one call at a time, one technician
has the ticket or nobody has, and `MaxFaults = 1` lets it
die once at any statement. `workload_limit` leaves out edits, which assign
without asking for the limit.

Bounds of Records. Two requests are a look and the write it races, two templates
a copy and its original, two users an address between them. `MaxLines = 1` is
the lines per part of a ticket without a template; a template may have both its parts lists' rows for
one part, so lines of two are reached too. Ids are used again, so histories are
of any length.

Fairness of TicketParts. `FairSpec` assumes strong fairness of each request's own progress
(a statement, a commit, a reported error or the deadlock detector's abort). A
request waits only for row locks; PostgreSQL grants them in queue order, so one
that is repeatedly available is obtained, and its deadlock detector aborts one
transaction of each cycle. Arrivals, crashes and timeouts are never obliged to
happen, and single-statement requests neither.

Fairness of Billing. `FairSpec` assumes that a request whose next statement, or
whose error, is possible again and again gets on: PostgreSQL and the pool serve
those who wait in turn. It also assumes that the timer of an open transaction
runs out (`WF` of `Expires`), which Prisma does without being asked. Without the
timer the property fails: two cash payments holding both connections wait for
a third for ever, which the mutant of `RequestsFinish` shows.

Fairness of Alerts. `FairSpec` assumes that the scheduler calls the job again and
again and that a run which is not dead goes on (`WF` of `Cron`). The desk, the
clock and the settings are obliged to nothing.

## 4. What is proved

### Ticket parts

The theorems of `TicketPartsProofs` are for any sets of tickets, parts, usages
and requests, any stock, and any set of installed triggers unless stated. They
assume only the named ASSUMEs of the modules: positive quantities, a natural
opening stock, non-negative stock counts in the form, statuses of the enum,
distinct null values, and finitely many usage ids (`IdsAssumption`), without which
a sum over them means nothing.

| Theorem | Statement |
|---|---|
| `TypeCorrect` | `Spec => []TypeOK` |
| `ChargesCorrect` | `Spec => []ChargedExactly` |
| `LifecycleCorrect` | `Spec => UsageLifecycle` |
| `OverdrawsCorrect` | `Spec => OnlyInsertsOverdraw` |
| `NoOrphansCorrect` | `Spec => []NoOrphanUsage` |
| `ApprovesAllCorrect` | `Spec => ApprovesAllOrNothing` |
| `StockFollowsCorrect` | `Spec => StockFollowsUsages` |

*The ledger.* `ChargedExactly` is not inductive: it says nothing of what open
requests have moved, which their commits make visible. `IInv` adds that each
request has moved, for each row it wrote, exactly the difference between what
the triggers take for the new image and for the old (`Moves`), and why no other
request can spoil that: a row written by one request is not written by another
until it ends (`Locked`), an id being inserted is nobody else's (`Reserved`), and
it has no row yet (`Fresh`). `Coherent` says the same of a request's own record
and makes `TypeOK` inductive. `LedgerCorrect` is the invariance of `IInv`; types,
charges and lifecycle follow.

*The stock.* `StockInv` says that a request which inserts nothing leaves every part it
takes from at zero or above, as that request sees it, and that no two open requests hold the same
part. The guard of the decrement gives the first; the second makes commits commute,
so that what a request sees is what it commits. An insert is the exception because the first
migration's trigger subtracts without asking, after the guard has looked; without that
trigger nothing overdraws, which the property says too.

*No orphans.* `NoOrphanUsage` speaks of committed rows; an insert in flight makes
its row visible only when it commits, and the ticket could be gone by then. What
is inductive (`OrphanInv`) says what each request in flight knows (`Knows`): the rows it will
insert are of its own ticket, and once an added part is written, the
foreign key holds the ticket, so a deletion that races it is refused. A ticket
that a request opens is there when its commit writes it.

*All or nothing.* An approval writes rows it read earlier. `Tracks` says that such a
row is still on its list, to do or done, and that the committed row is as it was read,
approved by somebody else, or deleted. As approving twice changes nothing and
a deleted row fails the approval, a commit leaves every row it read approved.

*The stock and the usages.* `StockFollowsUsages` relates a sum over all usages to
the stock, and a commit writes any number of rows of any number of parts at once.
`Follows` says that what a request adds to a part (`delta`) is the sum of what it
did for each usage of it (`AddsUp`), and that it knows each row's part (`KnowsParts`),
which nobody can change meanwhile. A commit then moves the stock by a sum of
differences, which `IInv` says is the difference of the sums (`Moves`). It holds for
every set of installed triggers, the whole migration chain included: what run
`negative_stock` finds is how much is taken, not that any of it goes missing. `RouteCancelCommits` is the exception the property names, and the
theorem says that it too adds exactly the units it read.

### Cash registers and billing

The theorems of `CashProofs` and `BillingProofs` are for any sets of invoices, requests, registers
and clerks, any amounts, totals and pool, and any bounds. They assume
`CashAssumption` and `BillingAssumption`: nonnegative balances and positive
amounts, as the schemas demand, integer totals (a discount may exceed the
subtotal), and distinct null values.

| Theorem | Statement |
|---|---|
| `DrawerCorrect` | `CashSpec => [](CashTypeOK /\ TriggerAgreesWithStats)` |
| `ClosesMissCorrect` | `CashSpec => OnlyClosesMiss` |
| `BillingTypeCorrect` | `Spec => []TypeOK` |
| `PaidCorrect` | `Spec => []PaidInFull` |
| `CashCorrect` | `Spec => []CashIsRecorded` |
| `NumbersCorrect` | `Spec => []NumbersGapless` |
| `PaymentsSerial` | `Spec => []PaymentsSerialised` |
| `PaymentsBooked` | `Spec => PaymentsAreBooked` |
| `OnePaymentFits` | with one request at a time and no negative total, `Spec => []NeverOverpaid` |

*The drawer.* `CashInv` adds to the two properties that a handler in flight has a
register of its own to open, or one that exists to use, and that a register that
does not exist has no movements. `OnlyClosesMiss` compares the balance in the database with what the
movements say, open or closed: a close writes a sum of what it read, without the
opening balance that the trigger leaves out, so what it lacks afterwards is what was recorded
between its two statements, and the trigger adds whatever comes later.

*Payments.* `BillingInv` adds to the properties what each request in flight may
rely on (`RequestOK`): the total it read is still the invoice's, the payments it
read are at most those there are now, its number is at most one above the newest,
and, if it is a cash payment about to commit, the entry is there beyond what
committed payments account for. The argument has three links. Numbers in use are
`1 .. newest`, so a number that fits the unique index is `newest + 1`; two
payments that hold a number would hold the same one, which the index forbids, so
`PaymentsSerialised`. As only one payment is between its insert and its commit,
no other can commit and claim the same cash entry, so `CashIsRecorded`. And as
payments are never removed, a sum read earlier is a lower bound, so a status
computed from it says PAID only when it is true, though it may say PENDING when
it is not.

*Overpaying.* Run `overpaid` shows an invoice paid beyond its total.
`OnePaymentFits` says that the race is the only way to it: with one request at a time the
payments read are the payments there are (`FitInv`), whatever timers and crashes
do, so the check that the handler makes is enough. A
discount may exceed a subtotal in the schemas; such an invoice has a negative
total and is overpaid from the start, hence the second hypothesis.

*The book.* Under `BillingInv` each step of `Billing` is a `Record`, a `Pay` or leaves the
book alone; the one further fact is that a payment in flight is of a positive amount.

### The counter

For any sets of parts, sales, quotations, orders, workers, registers and clerks,
and any opening stock, under the named assumptions of `Sales`, `Quotations`,
`Purchases` and `Shop`.

| Theorem | Statement |
|---|---|
| `ShopTypeCorrect` | `Spec => []TypeOK` |
| `QuotationsSoldOnce` | `Spec => []QuotationSoldOnce` |
| `SaleNumbersCorrect` | `Spec => []SaleNumbersGapless` |
| `SalesNeverOversell` | `Spec => NeverOversold` |
| `LedgerKept` | `Spec => StockIsAccountedFor` |

`ShopInv` joins the drawer's invariant (`CashInv`, used as it is) with one part for
each component and one for the requests (`JobsOK`). Numbers of a series are
`1 .. k`; a sale about to commit whose snapshot missed nothing, or a conversion
that holds its insert, has number `k + 1`, so it extends the series, and
two cannot hold it. A sale whose snapshot missed nothing saw the stock there is,
so its check still holds when it commits: `NeverOversold` follows from the notice
that every commit gives, and the ledger from what triggers do to the sale's
part.

### Returns

For any sets of parts, sales, notes, registers and clerks, any quantities and any
bounds, under the named assumptions of `Returns` and `Sales`; note and sale ids and
lines are finitely many (`IdsAssumption`).

| Theorem | Statement |
|---|---|
| `ReturnsTypeCorrect` | `Spec => []TypeOK` |
| `DrawerBesideSales` | `Spec => []TriggerAgreesWithStats` |
| `ClosesMissBesideSales` | `Spec => OnlyClosesMiss` |
| `StatusCorrect` | with one worker, `Spec => []StatusTellsReturns` |
| `StockNotesCorrect` | with one worker, `Spec => []StockMatchesNotes` |
| `NoUnitInventedCorrect` | with one worker, `Spec => []NoUnitInvented` |

The first three are for any number of workers. The others are not true of two
(hazards in PROJECT.json), so they take the hypothesis `OneWorker`, which the run
has as well: they are about sequences of requests of any length, any of which may stop
half-way. Their invariant (`OnlyInv`) says what a request in flight has done so
far: which sale's status it has still to write (`Rated`), and which units it has
written to the note and not to the stock, or to the stock and not to the note
(`Debt`, a sum over the lines it has still to write). Between requests nothing is owed, which is what two of the properties say. A
debt is never negative, as a note is written before its units come back and cancelled after they
are taken, so a request that stops leaves stock short and never over: `NoUnitInvented`.
None of this says that no more comes back than was sold, which run `over_return` refutes: the stock
follows the notes even there.

A sale's returned units and a part's units away are sums that the community modules fold
with a recursive function. `Sums` proves what they do when one summand changes,
without induction over data: of the finite sets for which a rule fails, one is
smallest under inclusion (the library's well-founded ordering of finite subsets), and
taking its first member away gives a smaller one.

### Desk and alerts

| Theorem | Statement |
|---|---|
| `DeskTypeCorrect` | `DeskSpec => []DeskTypeOK` |
| `TicketNumbersCorrect` | `DeskSpec => []TicketNumbersUnique` |
| `AlertsTypeCorrect` | `Spec => []TypeOK` |
| `AlertsOnce` | `Spec => []OncePerDay` |

The desk's invariant (`DrawsInv`) says that the numbers of tickets inserted and not committed
are nobody else's, neither a committed ticket's nor another transaction's, because the
unique index makes the second insert wait. The highest
number of a finite set is the lemma `FiniteSetHasHighest`.
The alerts' invariant says of an alert that is not `lost` that it was given once, at most,
and that if it was, its notification is there or is what the run does next; and that an alert the
job found and has not yet sent was not given.
`OncePerDay` is no stronger than that: with notifications turned off, every call mails again.

### Records

For any tables, any foreign key targets the assumptions allow, and any requests.

| Theorem | Statement |
|---|---|
| `RecordsTypeCorrect` | `Spec => []TypeOK` |
| `ReferencesCorrect` | `Spec => []ReferencesHold` |
| `WorkCorrect` | `Spec => WorkKept` |

`RecordsInv` adds to the properties that the rows of an open transaction have what
they need and refer to each other or to rows that are there, which their locks keep there,
and that the ids a request is about to insert are nobody else's. A deletion
then changes nothing that an open transaction relies on, and a row that goes along
with another is one nothing refers to.

### Only model-checked

Liveness (`RequestsFinish` of ticket parts and of billing, `TechnicianIsTold`), which
needs fairness and ENABLED and is out of the prover's reach. Every other property
of the passing runs is a theorem. Of the properties that runs find violated,
`NeverOverpaid` holds under the hypothesis above, and `OverdrawsCorrect` says which steps
can violate `NonNegativeStock`; `ReturnsFit` and `WithinLimit` have no such hypothesis: one request
with two lines breaks the first, and an edit or a bulk edit assigns
without asking for the limit, with one request as with two.

## 5. What is not modelled

* The order in which locks are granted: any waiting request may get a lock.
* `UpdateTicketStatusUseCase` passes both `updatedBy.connect` and, through the
  tenant client, `updatedById`; whether Prisma accepts the pair is outside the
  model, which assumes the statement runs as it reads.
* Amounts are whole units: the columns are DECIMAL(10,2) and the code adds them as
  floating-point numbers, whose rounding is not modelled. CARD stands for every
  method that is not cash. Ticket contents, taxes and discounts are summed up in
  an invoice's total, which nothing changes later. Sales have one
  line, price one and no discount; the money of a
  note is free, so that units and money tell different things of a sale all the same.
* The creation order of payments and invoices is the order in which they commit;
  with `PaymentsSerialised` this is so for payments, unless application servers'
  clocks disagree.
* The numbers of credit notes and quotations, read and inserted under a unique
  index as those of payments are; the audit log entries of
  `alertExpiringQuotations`; part costs and low-stock notices.
* The absence calendar of `technician-actions.ts`, which sets the availability that
  `Desk` changes at will; and a changing `maxConcurrentTickets`.
* Overlapping calls of the SLA job; whether an e-mail arrives, which the job does not
  ask; and messages about status changes, sent after the fact with their failures ignored.
* Contact data of customers and their unique dpi and nit; the resolver's find or
  create, where the code promises no single customer; template texts, prices,
  quantities and analytics; attachments; the documents that keep a user from
  deletion. In `Records`, a template deleted between the count of its tickets and the
  delete leaves a ticket opened meanwhile without its template (the key sets it
  null), and two additions of one part to a template are both written (no index
  forbids it): neither is stated as a property, since nothing in the code says
  otherwise. Bulk deletion is seen one ticket at a time. The index on addresses is
  that of the migrations, per tenant: a guard of both writers (`Admits`), and no property, since
  that no two users have one address would say the same again.
* Login, lockout, passwords, roles and activation: access control.
* Tenants: every model is of one tenant.
* The components listed as `not_modelled` in PROJECT.json, with the reasons there.
  Most of the repository's lines are pages and components of the user interface, the generated
  Prisma client and tests, which keep no state that the models share.

## 6. What is left

1. Two workers in `Returns`, with the disagreements they bring stated one by one.
2. The tenant's last administrator; overlapping calls of the SLA job; the absence calendar.
