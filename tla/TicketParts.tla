---------------------------- MODULE TicketParts ----------------------------
(***************************************************************************)
(* The parts of a repair ticket: proposing, approving, rejecting, removing *)
(* and returning them, with the stock the database triggers move.          *)
(*                                                                         *)
(* A handler is a Prisma interactive transaction (READ COMMITTED), run     *)
(* statement by statement.  It reads committed rows, then writes one row   *)
(* at a time; what it wrote stays private (tx[r]) until it commits, and    *)
(* the rows it wrote stay locked.  It may fail, deadlock, time out or      *)
(* crash at any point, which rolls everything back.                        *)
(*                                                                         *)
(* getTenantPrisma sends findUnique on tenant models (Ticket, Part) to the *)
(* base client, so those reads are outside the transaction: they see only  *)
(* committed data and lock nothing.                                        *)
(***************************************************************************)
EXTENDS PartTriggers, FiniteSets, Functions

CONSTANTS Usages,        \* part_usages ids; each is used once, as UUIDs are
          Requests,      \* requests that may be in flight together
          OpeningStock,  \* parts.quantity at the start
          StatusInputs,  \* ticket statuses clients ask for
          StockCounts,   \* quantities the part form may submit
          MaxStock,      \* bound: no route cancel starts above it
          NoRow,         \* a usage id not inserted yet
          DeletedRow,    \* a usage id whose row was deleted
          NoTx           \* a request slot with nothing in flight

\* enum TicketStatus of schema.prisma
TicketStatus == {"OPEN", "WAITING_APPROVAL", "IN_PROGRESS", "WAITING_FOR_PARTS",
                 "RESOLVED", "CLOSED", "CANCELLED", "REJECTED"}
ABSENT == "ABSENT"       \* no such ticket (yet, or any more)

Kinds == {"approve", "reject", "cancel", "routeCancel", "remove",
          "addPart", "create", "template"}
Inserting == {"addPart", "create", "template"}
Deleting == {"reject", "cancel", "remove"}

\* A request in flight.
Transaction ==
  [kind    : Kinds,
   ticket  : Tickets,
   seen    : TicketStatus \cup {ABSENT},          \* ticket status it read
   reading : BOOLEAN,                             \* still has to read the usages
   rows    : [Usages -> UsageRow \cup {NoRow}],   \* usages it read or inserts
   todo    : SUBSET Usages,                       \* rows still to write
   checked : SUBSET Usages,                       \* inserts whose stock check passed
   done    : SUBSET Usages,                       \* rows written, not committed
   held    : SUBSET Parts,                        \* parts rows locked
   delta   : [Parts -> Int],                      \* its uncommitted stock moves
   moved   : [Usages -> Int]]                     \* the same, per usage

\* Ids are UUIDs: there are finitely many.
ASSUME IdsAssumption == IsFiniteSet(Usages)
ASSUME OpeningAssumption == OpeningStock \in [Parts -> Nat]
ASSUME InputsAssumption ==
  /\ StatusInputs \subseteq TicketStatus
  /\ StockCounts \subseteq Nat          \* CreatePartSchema: nonnegative
  /\ MaxStock \in Nat
ASSUME NullsAssumption ==
  /\ NoRow \notin UsageRow /\ DeletedRow \notin UsageRow /\ NoRow # DeletedRow
  /\ NoTx \notin Transaction

VARIABLES status,   \* tickets.status
          usage,    \* part_usages
          stock,    \* parts.quantity
          charged,  \* history: units the triggers took from stock for a usage
          tx        \* requests in flight

db == <<status, usage, stock, charged>>
vars == <<status, usage, stock, charged, tx>>

\* Statuses are those of the enum, usages and stock are rows and integers, and a
\* request in flight is well formed.
TypeOK ==
  /\ status \in [Tickets -> TicketStatus \cup {ABSENT}]
  /\ usage \in [Usages -> UsageRow \cup {NoRow, DeletedRow}]
  /\ stock \in [Parts -> Int]
  /\ charged \in [Usages -> Int]
  /\ tx \in [Requests -> Transaction \cup {NoTx}]

Init ==
  /\ status = [t \in Tickets |-> ABSENT]
  /\ usage = [u \in Usages |-> NoRow]
  /\ stock = OpeningStock
  /\ charged = [u \in Usages |-> 0]
  /\ tx = [r \in Requests |-> NoTx]

-----------------------------------------------------------------------------
Open(r) == tx[r] # NoTx
Exists(t) == status[t] # ABSENT
Live(u) == usage[u] \in UsageRow
UsagesOf(t) == {u \in Usages : Live(u) /\ usage[u].ticket = t}
PendingOf(t) == {u \in UsagesOf(t) : ~usage[u].approved}
NothingNew == [u \in Usages |-> NoRow]

Begin(r, kind, t, reading, rows, todo) ==
  /\ ~Open(r)
  /\ tx' = [tx EXCEPT ![r] =
       [kind |-> kind, ticket |-> t, seen |-> status[t], reading |-> reading,
        rows |-> rows, todo |-> todo, checked |-> {}, done |-> {}, held |-> {},
        delta |-> [p \in Parts |-> 0], moved |-> [u \in Usages |-> 0]]]
  /\ UNCHANGED db

Snapshot(S) == [u \in Usages |-> IF u \in S THEN usage[u] ELSE NoRow]

\* Ids no row has had and no request in flight is about to insert.
FreshUsages == {u \in Usages :
  /\ usage[u] = NoRow
  /\ \A r \in Requests : Open(r) => u \notin tx[r].todo \cup tx[r].done}

-----------------------------------------------------------------------------
(* What each handler reads before it writes. *)

\* ApproveTicketPartsUseCase and RejectTicketPartsUseCase: the ticket first.
ApproveReadsTicket(r, t) ==
  Exists(t) /\ Begin(r, "approve", t, TRUE, NothingNew, {})

RejectReadsTicket(r, t) ==
  Exists(t) /\ Begin(r, "reject", t, TRUE, NothingNew, {})

\* The cancel action of the ticket route checks the status before it opens
\* its transaction.
RouteCancelReadsTicket(r, t) ==
  /\ Exists(t)
  /\ status[t] # "CANCELLED"
  /\ \A p \in Parts : stock[p] <= MaxStock
  /\ Begin(r, "routeCancel", t, TRUE, NothingNew, {})

ReadUsages(r, S) ==
  /\ Open(r) /\ tx[r].reading
  /\ tx' = [tx EXCEPT ![r] =
       [tx[r] EXCEPT !.reading = FALSE, !.rows = Snapshot(S), !.todo = S]]
  /\ UNCHANGED db

\* Then the usages that are still unapproved; none is an error.
ApproveOrRejectReadsPending(r) ==
  /\ Open(r) /\ tx[r].kind \in {"approve", "reject"}
  /\ PendingOf(tx[r].ticket) # {}
  /\ ReadUsages(r, PendingOf(tx[r].ticket))

\* The route reads every usage of the ticket, approved or not.
RouteCancelReadsUsages(r) ==
  /\ Open(r) /\ tx[r].kind = "routeCancel"
  /\ ReadUsages(r, UsagesOf(tx[r].ticket))

\* UpdateTicketUseCase and UpdateTicketStatusUseCase with status CANCELLED (and
\* DeleteTicketUseCase through it): one read of the ticket and its usages,
\* before the transaction; a ticket it saw cancelled has nothing to return.
CancelReads(r, t) ==
  LET S == IF status[t] = "CANCELLED" THEN {} ELSE UsagesOf(t)
  IN Exists(t) /\ Begin(r, "cancel", t, FALSE, Snapshot(S), S)

RemoveReads(r, u) ==
  Live(u) /\ Begin(r, "remove", usage[u].ticket, FALSE, Snapshot({u}), {u})

\* AddPartToTicketUseCase inserts one unapproved usage, whatever the status.
AddPartReads(r, t, u, p, q) ==
  /\ Exists(t)
  /\ u \in FreshUsages
  /\ Begin(r, "addPart", t, FALSE,
           [NothingNew EXCEPT ![u] =
             [ticket |-> t, part |-> p, quantity |-> q, approved |-> FALSE]], {u})

\* Ticket ids are fresh too: no request in flight knows one.
FreshTicket(t) ==
  ~Exists(t) /\ \A r \in Requests : Open(r) => tx[r].ticket # t

NewTicket(r, kind, t, S, item, approved) ==
  /\ FreshTicket(t)
  /\ S \subseteq FreshUsages
  /\ Begin(r, kind, t, FALSE,
           [u \in Usages |-> IF u \in S
              THEN [ticket |-> t, part |-> item[u][1], quantity |-> item[u][2],
                    approved |-> approved]
              ELSE NoRow], S)

\* CreateTicketUseCase: the initial parts are approved on the spot.  (The batch
\* action and POST /api/tickets create tickets without parts.)
CreateTicketOpens(r, t, S, item) == NewTicket(r, "create", t, S, item, TRUE)

\* createTicketFromTemplate: the usages take the column default, unapproved.
TemplateOpens(r, t, S, item) == NewTicket(r, "template", t, S, item, FALSE)

-----------------------------------------------------------------------------
(* Statements.  A row written by another open request is locked. *)

RowLockedBy(r, u, b) ==
  b # r /\ Open(b) /\ u \in tx[b].done /\ tx[b].kind # "routeCancel"
PartLockedBy(r, p, b) == b # r /\ Open(b) /\ p \in tx[b].held

\* parts.quantity as the statements of r see it.
OnHand(r, p) == stock[p] + tx[r].delta[p]

\* Mutant: the quantity is set from what was committed, so that of two moves of
\* one part the first is lost.
Write_SetsQuantity(r, u, p, d, locks) ==
  LET s == tx[r]
      after == [s EXCEPT !.todo = s.todo \ {u},
                         !.done = s.done \cup {u},
                         !.held = IF locks THEN s.held \cup {p} ELSE s.held,
                         !.delta = [s.delta EXCEPT ![p] = d],
                         !.moved = [s.moved EXCEPT ![u] = -d]]
  IN /\ \A b \in Requests : ~RowLockedBy(r, u, b) /\ ~(locks /\ PartLockedBy(r, p, b))
     /\ tx' = [tx EXCEPT ![r] = after]
     /\ UNCHANGED db

\* r writes usage u of part p; the triggers add d to the part's quantity.
Write(r, u, p, d, locks) ==
  LET s == tx[r]
      after == [s EXCEPT !.todo = s.todo \ {u},
                         !.done = s.done \cup {u},
                         !.held = IF locks THEN s.held \cup {p} ELSE s.held,
                         !.delta = [s.delta EXCEPT ![p] = s.delta[p] + d],
                         !.moved = [s.moved EXCEPT ![u] = -d]]
  IN /\ \A b \in Requests : ~RowLockedBy(r, u, b) /\ ~(locks /\ PartLockedBy(r, p, b))
     /\ tx' = [tx EXCEPT ![r] = after]
     /\ UNCHANGED db

\* The handler's own look at the stock (none in AddPartToTicketUseCase) and
\* the BEFORE INSERT trigger's, row by row; neither locks the part.
StockSuffices(r, u) ==
  LET new == tx[r].rows[u]
  IN /\ tx[r].kind # "addPart" => stock[new.part] >= new.quantity
     /\ ~PreventRaises(OnHand(r, new.part), new)

CheckStock(r, u) ==
  /\ Open(r) /\ tx[r].kind \in Inserting
  /\ u \in tx[r].todo /\ tx[r].todo \cap tx[r].checked = {}
  /\ StockSuffices(r, u)
  /\ tx' = [tx EXCEPT ![r] = [tx[r] EXCEPT !.checked = tx[r].checked \cup {u}]]
  /\ UNCHANGED db

\* A template ticket is created SERIALIZABLE: if its triggers update a part, a
\* change committed since its snapshot aborts it, so what it checked still holds.
StaleCheck(r, u) ==
  /\ tx[r].kind = "template"
  /\ LocksPart(SyncOnInsert(tx[r].rows[u]))
  /\ ~StockSuffices(r, u)

InsertUsage(r, u) ==
  /\ Open(r) /\ tx[r].kind \in Inserting
  /\ u \in tx[r].todo \cap tx[r].checked
  /\ ~StaleCheck(r, u)
  /\ LET new == tx[r].rows[u] IN
     /\ tx[r].kind = "addPart" => Exists(new.ticket)
     /\ ~SyncRaises(OnHand(r, new.part), SyncOnInsert(new))
     /\ Write(r, u, new.part, InsertDelta(new), LocksPart(SyncOnInsert(new)))

\* Mutant: updateMany instead of update: a row deleted meanwhile is skipped.
ApproveUsage_SkipsMissing(r, u) ==
  /\ Open(r) /\ tx[r].kind = "approve" /\ u \in tx[r].todo
  /\ IF Live(u)
     THEN LET old == usage[u]
              new == [old EXCEPT !.approved = TRUE]
          IN /\ ~SyncRaises(OnHand(r, old.part), SyncOnUpdate(old, new))
             /\ Write(r, u, old.part, UpdateDelta(old, new),
                      LocksPart(SyncOnUpdate(old, new)))
     ELSE /\ tx' = [tx EXCEPT ![r] = [tx[r] EXCEPT !.todo = tx[r].todo \ {u}]]
          /\ UNCHANGED db

ApproveUsage(r, u) ==
  /\ Open(r) /\ tx[r].kind = "approve" /\ u \in tx[r].todo
  /\ Live(u)
  /\ LET old == usage[u]
         new == [old EXCEPT !.approved = TRUE] IN
     /\ ~SyncRaises(OnHand(r, old.part), SyncOnUpdate(old, new))
     /\ Write(r, u, old.part, UpdateDelta(old, new), LocksPart(SyncOnUpdate(old, new)))

DeleteUsage(r, u) ==
  /\ Open(r) /\ tx[r].kind \in Deleting /\ u \in tx[r].todo
  /\ Live(u)
  /\ LET old == usage[u]
     IN Write(r, u, old.part, DeleteDelta(old), LocksPart(SyncOnDelete(old)))

\* The route increments the part itself, from the quantity it read, and leaves
\* the usage row alone.
RestockUsage(r, u) ==
  /\ Open(r) /\ tx[r].kind = "routeCancel" /\ u \in tx[r].todo
  /\ LET row == tx[r].rows[u] IN
     /\ \A b \in Requests : ~PartLockedBy(r, row.part, b)
     /\ LET s == tx[r]
            p == row.part
        IN tx' = [tx EXCEPT ![r] =
             [s EXCEPT !.todo = s.todo \ {u},
                       !.done = s.done \cup {u},
                       !.held = s.held \cup {p},
                       !.delta = [s.delta EXCEPT ![p] = s.delta[p] + row.quantity]]]
     /\ UNCHANGED db

-----------------------------------------------------------------------------
(* Commit: the ticket row is written last, then everything becomes visible. *)

\* Mutant: reject and cancel unapprove the row instead of deleting it.
Written_KeepsRow(r, u) ==
  CASE tx[r].kind \in Inserting -> tx[r].rows[u]
    [] tx[r].kind \in Deleting -> [usage[u] EXCEPT !.approved = FALSE]
    [] tx[r].kind = "approve" -> [usage[u] EXCEPT !.approved = TRUE]
    [] tx[r].kind = "routeCancel" -> usage[u]

\* What r makes of a row it writes.
Written(r, u) ==
  CASE tx[r].kind \in Inserting -> tx[r].rows[u]
    [] tx[r].kind \in Deleting -> DeletedRow
    [] tx[r].kind = "approve" -> [usage[u] EXCEPT !.approved = TRUE]
    [] tx[r].kind = "routeCancel" -> usage[u]

AfterImage(r, u) == IF u \in tx[r].done THEN Written(r, u) ELSE usage[u]

Commit(r, kind) ==
  /\ Open(r) /\ tx[r].kind = kind /\ ~tx[r].reading /\ tx[r].todo = {}
  /\ usage' = [u \in Usages |-> AfterImage(r, u)]
  /\ stock' = [p \in Parts |-> OnHand(r, p)]
  /\ charged' = [u \in Usages |-> charged[u] + tx[r].moved[u]]
  /\ tx' = [tx EXCEPT ![r] = NoTx]

\* A ticket update that finds no row throws, so the request cannot commit.
SetsStatus(r, s) ==
  /\ Exists(tx[r].ticket)
  /\ status' = [status EXCEPT ![tx[r].ticket] = s]

\* ticket.status here is the one read before the usages were.
ApproveCommits(r) ==
  /\ Commit(r, "approve")
  /\ IF tx[r].seen = "WAITING_APPROVAL" THEN SetsStatus(r, "IN_PROGRESS")
                                        ELSE UNCHANGED status

RejectCommits(r) == Commit(r, "reject") /\ SetsStatus(r, "REJECTED")

\* Mutant: the status of the enum's American spelling.
CancelCommits_Misspelt(r) == Commit(r, "cancel") /\ SetsStatus(r, "CANCELED")

CancelCommits(r) == Commit(r, "cancel") /\ SetsStatus(r, "CANCELLED")

RouteCancelCommits(r) == Commit(r, "routeCancel") /\ SetsStatus(r, "CANCELLED")

RemoveCommits(r) == Commit(r, "remove") /\ UNCHANGED status

AwaitsApproval == {"OPEN", "IN_PROGRESS", "WAITING_FOR_PARTS", "WAITING_APPROVAL"}

AddPartCommits(r) ==
  /\ Commit(r, "addPart")
  /\ IF tx[r].seen \in AwaitsApproval THEN SetsStatus(r, "WAITING_APPROVAL")
                                      ELSE UNCHANGED status

\* CreateTicketSchema lets the client choose among three initial statuses.
CreateCommits(r) ==
  /\ Commit(r, "create")
  /\ \E s \in {"OPEN"} \cup (StatusInputs \cap {"IN_PROGRESS", "WAITING_FOR_PARTS"}) :
       status' = [status EXCEPT ![tx[r].ticket] = s]

TemplateCommits(r) ==
  /\ Commit(r, "template")
  /\ status' = [status EXCEPT ![tx[r].ticket] = "OPEN"]

-----------------------------------------------------------------------------
(* Rolling back.  Everything a request wrote is private, so it just goes. *)

Rollback(r) == Open(r) /\ tx' = [tx EXCEPT ![r] = NoTx] /\ UNCHANGED db

\* The next statement on row u raises: a stock check, a guarded decrement that
\* matches no row, a row deleted meanwhile (P2025), a ticket deleted meanwhile.
StatementRaises(r, u) ==
  LET kind == tx[r].kind
      row == tx[r].rows[u]
  IN \/ /\ kind \in Inserting
        /\ IF u \notin tx[r].checked
           THEN ~StockSuffices(r, u)
           ELSE \/ SyncRaises(OnHand(r, row.part), SyncOnInsert(row))
                \/ StaleCheck(r, u)
                \/ kind = "addPart" /\ ~Exists(row.ticket)
     \/ kind \in Deleting \cup {"approve"} /\ ~Live(u)
     \/ /\ kind = "approve" /\ Live(u)
        /\ LET new == [usage[u] EXCEPT !.approved = TRUE]
           IN SyncRaises(OnHand(r, row.part), SyncOnUpdate(usage[u], new))

HandlerFails(r) ==
  /\ Open(r)
  /\ \/ tx[r].reading /\ tx[r].kind # "routeCancel" /\ PendingOf(tx[r].ticket) = {}
     \/ \E u \in tx[r].todo : StatementRaises(r, u)
     \/ tx[r].todo = {} /\ ~Exists(tx[r].ticket) /\ tx[r].kind \notin {"create", "template"}
  /\ Rollback(r)

\* b holds a row or a part that a wants for u.
Blocks(a, u, b) ==
  \/ RowLockedBy(a, u, b) /\ tx[a].kind # "routeCancel"
  \/ PartLockedBy(a, tx[a].rows[u].part, b)

WaitsFor(a, b) ==
  /\ Open(a) /\ tx[a].todo # {}
  /\ \A u \in tx[a].todo : \E c \in Requests : Blocks(a, u, c)
  /\ \E u \in tx[a].todo : Blocks(a, u, b)

AllWait(S) == S # {} /\ \A a \in S : \E b \in S : WaitsFor(a, b)

\* Mutant: nobody breaks a waiting cycle.
DeadlockVictim_Never(r) == FALSE

\* PostgreSQL aborts one request of a waiting cycle.
DeadlockVictim(r) ==
  /\ \E S \in SUBSET Requests :
       r \in S /\ AllWait(S) /\ \A T \in SUBSET S : AllWait(T) => T = S
  /\ Rollback(r)

\* A crash of the server, a lost connection, Prisma's transaction timeout.
Abandoned(r) == Rollback(r)

-----------------------------------------------------------------------------
(* Handlers that are a single statement. *)

\* take, assign, start, resume, wait_for_parts, resolve and deliver: none looks
\* at the current status ...
RouteSetsStatus(t, s) ==
  /\ Exists(t)
  /\ s \in StatusInputs \cap {"IN_PROGRESS", "WAITING_FOR_PARTS", "RESOLVED", "CLOSED"}
  /\ status' = [status EXCEPT ![t] = s]
  /\ UNCHANGED <<usage, stock, charged, tx>>

\* ... nor does reopen.
RouteReopens(t) ==
  /\ Exists(t)
  /\ "IN_PROGRESS" \in StatusInputs
  /\ status' = [status EXCEPT ![t] = "IN_PROGRESS"]
  /\ UNCHANGED <<usage, stock, charged, tx>>

\* updateTicket and updateTicketStatus, but for CANCELLED: UpdateTicketSchema
\* and UpdateTicketStatusSchema name these statuses.
UpdateTicket(t, s) ==
  /\ Exists(t)
  /\ s \in StatusInputs \cap {"OPEN", "IN_PROGRESS", "WAITING_FOR_PARTS",
                             "RESOLVED", "CLOSED"}
  /\ status' = [status EXCEPT ![t] = s]
  /\ UNCHANGED <<usage, stock, charged, tx>>

\* bulkUpdateTicketStatus takes any status, CANCELLED too, and leaves the usages
\* alone; PATCH /api/tickets/[id] writes the same for one ticket.
BulkUpdateTicketStatus(T, s) ==
  /\ s \in StatusInputs
  /\ status' = [t \in Tickets |-> IF t \in T /\ Exists(t) THEN s ELSE status[t]]
  /\ UNCHANGED <<usage, stock, charged, tx>>

\* Mutant: no foreign key holds the ticket for an insert in flight.
DeleteTicketRow_IgnoresInFlight(t) ==
  /\ Exists(t)
  /\ UsagesOf(t) = {}
  /\ status' = [status EXCEPT ![t] = ABSENT]
  /\ UNCHANGED <<usage, stock, charged, tx>>

\* bulkDeleteTickets and DELETE: part_usages.ticketId is ON DELETE RESTRICT, so
\* a ticket with usages stays; an insert in flight holds the ticket's key.
DeleteTicketRow(t) ==
  /\ Exists(t)
  /\ UsagesOf(t) = {}
  /\ \A r \in Requests : Open(r) /\ tx[r].kind = "addPart" /\ tx[r].ticket = t
                           => tx[r].done = {}
  /\ status' = [status EXCEPT ![t] = ABSENT]
  /\ UNCHANGED <<usage, stock, charged, tx>>

\* UpdatePartUseCase writes the quantity of the form, whatever it is now.
UpdatePart(p, n) ==
  /\ \A r \in Requests : Open(r) => p \notin tx[r].held
  /\ stock' = [stock EXCEPT ![p] = n]
  /\ UNCHANGED <<status, usage, charged, tx>>

-----------------------------------------------------------------------------
Arrives(r) ==
  \/ \E t \in Tickets :
       \/ ApproveReadsTicket(r, t)
       \/ RejectReadsTicket(r, t)
       \/ RouteCancelReadsTicket(r, t)
       \/ CancelReads(r, t)
       \/ \E u \in Usages, p \in Parts, q \in Quantities : AddPartReads(r, t, u, p, q)
       \/ \E S \in SUBSET Usages : \E item \in [S -> Parts \X Quantities] :
            CreateTicketOpens(r, t, S, item) \/ TemplateOpens(r, t, S, item)
  \/ \E u \in Usages : RemoveReads(r, u)

Advances(r) ==
  \/ ApproveOrRejectReadsPending(r)
  \/ RouteCancelReadsUsages(r)
  \/ \E u \in Usages :
       \/ CheckStock(r, u)
       \/ InsertUsage(r, u)
       \/ ApproveUsage(r, u)
       \/ DeleteUsage(r, u)
       \/ RestockUsage(r, u)
  \/ ApproveCommits(r)
  \/ RejectCommits(r)
  \/ CancelCommits(r)
  \/ RouteCancelCommits(r)
  \/ RemoveCommits(r)
  \/ AddPartCommits(r)
  \/ CreateCommits(r)
  \/ TemplateCommits(r)

Stops(r) == HandlerFails(r) \/ DeadlockVictim(r) \/ Abandoned(r)

SingleStatement ==
  \/ \E t \in Tickets, s \in TicketStatus : RouteSetsStatus(t, s) \/ UpdateTicket(t, s)
  \/ \E T \in SUBSET Tickets, s \in TicketStatus : BulkUpdateTicketStatus(T, s)
  \/ \E t \in Tickets : RouteReopens(t) \/ DeleteTicketRow(t)
  \/ \E p \in Parts, n \in StockCounts : UpdatePart(p, n)

Next ==
  \/ \E r \in Requests : Arrives(r) \/ Advances(r) \/ Stops(r)
  \/ SingleStatement

Spec == Init /\ [][Next]_vars

\* A statement that can run does, one that raises reports it, and PostgreSQL
\* finds deadlocks; a lock goes to the first in its queue, so a request that
\* waits for one gets it in the end (strong fairness).  Nothing obliges a client
\* to send a request, or a request to be abandoned.
FairSpec ==
  /\ Spec
  /\ \A r \in Requests : SF_vars(Advances(r) \/ HandlerFails(r) \/ DeadlockVictim(r))

-----------------------------------------------------------------------------
(* Properties. *)

\* What the installed triggers take for a row, in all: the first migration's takes
\* a proposal too, and an approved part twice beside the other.
ChargeOf(row) ==
  If("sync_inventory", IF row.approved THEN row.quantity ELSE 0)
    + If("update_on_usage", row.quantity)

\* Every usage row has been charged exactly what the triggers take for a row in
\* its state, and a row that is gone has given everything back: whatever was
\* inserted, approved, rejected, cancelled or removed, in any interleaving.
ChargedExactly ==
  \A u \in Usages : charged[u] = IF Live(u) THEN ChargeOf(usage[u]) ELSE 0

\* The units of a part its usages have taken, and those a route cancel gives back
\* for the usages it read.
Taken(p) ==
  SumFunction([u \in Usages |->
    IF Live(u) /\ usage[u].part = p THEN ChargeOf(usage[u]) ELSE 0])
Restocked(r, p) ==
  SumFunction([u \in Usages |->
    LET row == tx[r].rows[u]
    IN IF row # NoRow /\ row.part = p THEN row.quantity ELSE 0])

\* No unit appears or disappears: the stock of a part moves by exactly what its
\* usages take or give back, however many rows and parts a request writes and
\* whoever moves the stock in between.  But for the part form, which counts it
\* anew, and the route's cancel, which adds what it read and keeps the usages.
StockFollowsUsages ==
  [][\A p \in Parts :
       \/ stock'[p] = stock[p] + Taken(p) - Taken(p)'
       \/ \E n \in StockCounts : UpdatePart(p, n)
       \/ \E r \in Requests : RouteCancelCommits(r) /\ stock'[p] = stock[p] + Restocked(r, p)]_vars

\* Approving never takes stock that is not there, though it looks at nothing
\* beforehand and others move the part meanwhile, nor does giving anything back.
\* What takes parts.quantity below zero is an insert and the first migration's
\* unguarded trigger, which the whole chain keeps (see NonNegativeStock).
OnlyInsertsOverdraw ==
  [][\A p \in Parts : stock'[p] < 0 /\ stock'[p] < stock[p] =>
       /\ "update_on_usage" \in Installed
       /\ \E r \in Requests :
            /\ AddPartCommits(r) \/ CreateCommits(r) \/ TemplateCommits(r)
            /\ p \in tx[r].held]_vars

\* A usage row never changes its ticket, part or quantity, an approval is never
\* taken back, and a deleted row stays deleted: a stale approve, reject or
\* cancel cannot bring it back.
UsageLifecycle ==
  [][\A u \in Usages :
       \/ usage'[u] = usage[u]
       \/ usage[u] = NoRow
       \/ Live(u) /\ usage'[u] = DeletedRow
       \/ Live(u) /\ ~usage[u].approved
            /\ usage'[u] = [usage[u] EXCEPT !.approved = TRUE]]_vars

\* ApproveTicketPartsUseCase approves every usage it read as pending, or none:
\* a part removed or out of stock meanwhile fails the whole approval.
ApprovesAllOrNothing ==
  [][\A r \in Requests : ApproveCommits(r) =>
       \A u \in Usages : tx[r].rows[u] # NoRow =>
         usage'[u] = [tx[r].rows[u] EXCEPT !.approved = TRUE]]_vars

\* A usage row always belongs to a ticket that exists: neither deleting a ticket
\* nor a racing insert leaves a part consumed by nothing.
NoOrphanUsage == \A u \in Usages : Live(u) => Exists(usage[u].ticket)

\* Every request that arrives is answered: whatever locks it meets, it commits
\* or fails.
RequestsFinish == \A r \in Requests : Open(r) ~> ~Open(r)

-----------------------------------------------------------------------------
(* What the repository says and the migration chain does not keep. *)

\* The roadmaps and both guards: parts.quantity never goes below zero.  An
\* approved insert passes the guard and is then taken again by the first trigger.
NonNegativeStock == \A p \in Parts : stock[p] >= 0
=============================================================================
