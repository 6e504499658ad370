-------------------------------- MODULE Desk --------------------------------
(***************************************************************************)
(* The service desk: tickets being opened under numbers of their own,      *)
(* taken by technicians or assigned to them, edited, cancelled, deleted.   *)
(*                                                                         *)
(* A ticket is numbered by a BEFORE INSERT trigger, which adds one to the  *)
(* highest number it sees.  (Of the two triggers the migrations leave,     *)
(* assign_ticket_number_trigger comes first in the order of their names    *)
(* and leaves nothing to do for the other, which has a sequence.)  Taking  *)
(* and assigning run in READ COMMITTED transactions: they look at the      *)
(* technician, then at the ticket, and write by id.  One tenant.           *)
(***************************************************************************)
EXTENDS Naturals, FiniteSets

CONSTANTS Tickets,         \* tickets ids; each is used once
          Technicians,
          Requests,        \* requests in flight together
          MaxConcurrent,   \* maxConcurrentTickets of every technician
          Targets,         \* statuses clients ask for
          NoTicket, Deleted, Nobody, NoRequest

TicketStatus == {"OPEN", "WAITING_APPROVAL", "IN_PROGRESS", "WAITING_FOR_PARTS",
                 "RESOLVED", "CLOSED", "CANCELLED", "REJECTED"}

Assignees == Technicians \cup {Nobody}
TicketRow == [status : TicketStatus, assignee : Assignees, due : BOOLEAN, number : Nat]

\* A request in flight: the numbers of the tickets it has inserted, zero for all
\* others, or what it writes.
Request ==
  [step : {"creates"}, number : [Tickets -> Nat],
   row : [status : TicketStatus, assignee : Assignees, due : BOOLEAN]]
    \cup [step : {"checks", "takes"}, ticket : Tickets, technician : Technicians]
    \cup [step : {"cancels"}, ticket : Tickets]

ASSUME DeskAssumption ==
  /\ IsFiniteSet(Tickets)
  /\ MaxConcurrent \in Nat
  /\ Targets \subseteq TicketStatus
  /\ Nobody \notin Technicians
  /\ NoTicket # Deleted /\ {NoTicket, Deleted} \cap TicketRow = {}
  /\ NoRequest \notin Request

VARIABLES ticket,      \* tickets
          away,        \* technicians whose status is not AVAILABLE
          request      \* requests in flight

deskRows == <<ticket, away>>
deskVars == <<ticket, away, request>>

\* Tickets and the requests about them are well formed.
DeskTypeOK ==
  /\ ticket \in [Tickets -> TicketRow \cup {NoTicket, Deleted}]
  /\ away \subseteq Technicians
  /\ request \in [Requests -> Request \cup {NoRequest}]

DeskInit ==
  /\ ticket = [t \in Tickets |-> NoTicket]
  /\ away = {}
  /\ request = [r \in Requests |-> NoRequest]

-----------------------------------------------------------------------------
Exists(t) == ticket[t] \notin {NoTicket, Deleted}
Idle(r) == request[r] = NoRequest
Does(r, step) == ~Idle(r) /\ request[r].step = step
Takes(r, to) == request' = [request EXCEPT ![r] = to]

Update(t, row) == ticket' = [ticket EXCEPT ![t] = row]

-----------------------------------------------------------------------------
(* Opening: createTicket, createBatchTickets, createTicketFromTemplate. *)

Forms == [status : Targets, assignee : {Nobody}, due : {FALSE}]
Batches == [status : {"OPEN"}, assignee : {Nobody}, due : {FALSE}]
Templates == [status : {"OPEN"}, assignee : Assignees, due : BOOLEAN]

Numbers == {ticket[t].number : t \in {u \in Tickets : Exists(u)}}

\* The numbers a transaction has given out and not committed.
Drawn(r) ==
  IF Does(r, "creates") THEN {request[r].number[t] : t \in Tickets} \ {0} ELSE {}
Highest(S) == CHOOSE n \in S \cup {0} : \A m \in S \cup {0} : m <= n

\* The number of the next ticket a request inserts: what its transaction sees is
\* what has been committed by now and its own tickets.
NextNumber(r) == Highest(Numbers \cup Drawn(r)) + 1

\* Mutant: tickets have no unique index.
Waits_Never(r, n) == FALSE

\* The unique index: an insert waits while another transaction may commit its number.
Waits(r, n) == \E q \in Requests \ {r} : n \in Drawn(q)

\* A batch inserts several tickets in one transaction, the others one.
Inserts(r, t, row) ==
  /\ \/ Idle(r)
     \/ Does(r, "creates") /\ row \in Batches /\ request[r].row = row
  /\ ticket[t] = NoTicket /\ \A q \in Requests : Does(q, "creates") => request[q].number[t] = 0
  /\ LET n == NextNumber(r)
         drawn == IF Idle(r) THEN [u \in Tickets |-> 0] ELSE request[r].number
     IN /\ ~Waits(r, n)
        /\ Takes(r, [step |-> "creates", row |-> row, number |-> [drawn EXCEPT ![t] = n]])
  /\ UNCHANGED deskRows

\* A transaction raises, times out or loses its connection.
Fails(r) == ~Idle(r) /\ Takes(r, NoRequest) /\ UNCHANGED deskRows

CreateCommits(r) ==
  /\ Does(r, "creates")
  /\ LET j == request[r] IN
       ticket' = [t \in Tickets |->
         IF j.number[t] > 0
         THEN [status |-> j.row.status, assignee |-> j.row.assignee, due |-> j.row.due,
               number |-> j.number[t]]
         ELSE ticket[t]]
  /\ Takes(r, NoRequest)
  /\ UNCHANGED away

-----------------------------------------------------------------------------
(* The actions take and assign of POST /api/tickets/[id]/actions. *)

Workload(u) == Cardinality({t \in Tickets :
  Exists(t) /\ ticket[t].assignee = u
            /\ ticket[t].status \in {"OPEN", "IN_PROGRESS", "WAITING_FOR_PARTS"}})

Fit(u) == u \notin away /\ Workload(u) < MaxConcurrent

TakeReads(r, t, u) ==
  /\ Idle(r)
  /\ Exists(t) /\ Fit(u)
  /\ Takes(r, [step |-> "checks", ticket |-> t, technician |-> u])
  /\ UNCHANGED deskRows

TakeChecks(r) ==
  /\ Does(r, "checks")
  /\ Exists(request[r].ticket) => ticket[request[r].ticket].assignee = Nobody
  /\ Takes(r, [request[r] EXCEPT !.step = "takes"])
  /\ UNCHANGED deskRows

\* An administrator's choice is not asked whether somebody has the ticket.
AssignReads(r, t, u) ==
  /\ Idle(r)
  /\ Exists(t) /\ Fit(u)
  /\ Takes(r, [step |-> "takes", ticket |-> t, technician |-> u])
  /\ UNCHANGED deskRows

\* Both write the ticket, whatever its status is and whoever has it by now.
TakeWrites(r) ==
  /\ Does(r, "takes")
  /\ LET t == request[r].ticket IN
       /\ Exists(t)
       /\ Update(t, [ticket[t] EXCEPT !.assignee = request[r].technician,
                                      !.status = "IN_PROGRESS"])
  /\ Takes(r, NoRequest)
  /\ UNCHANGED away

-----------------------------------------------------------------------------
(* Everything else that is done to a ticket. *)

\* The action cancel also frees the technician's slot; its check is made before
\* its transaction.
CancelReads(r, t) ==
  /\ Idle(r)
  /\ Exists(t) /\ ticket[t].status # "CANCELLED"
  /\ Takes(r, [step |-> "cancels", ticket |-> t])
  /\ UNCHANGED deskRows

\* Mutant: a status the enumeration has not.
CancelWrites_Misspelt(r) ==
  /\ Does(r, "cancels")
  /\ LET t == request[r].ticket IN
       /\ Exists(t)
       /\ Update(t, [ticket[t] EXCEPT !.status = "CANCELED", !.assignee = Nobody])
  /\ Takes(r, NoRequest)
  /\ UNCHANGED away

CancelWrites(r) ==
  /\ Does(r, "cancels")
  /\ LET t == request[r].ticket IN
       /\ Exists(t)
       /\ Update(t, [ticket[t] EXCEPT !.status = "CANCELLED", !.assignee = Nobody])
  /\ Takes(r, NoRequest)
  /\ UNCHANGED away

\* The other actions of the route, reopen among them, ask nothing of the status ...
RouteSetsStatus(t, to) ==
  /\ Exists(t)
  /\ to \in {"IN_PROGRESS", "WAITING_FOR_PARTS", "RESOLVED", "CLOSED"}
  /\ Update(t, [ticket[t] EXCEPT !.status = to])
  /\ UNCHANGED <<away, request>>

\* ... and an edit asks nothing of the workload.
Edits(t, to, u) ==
  /\ Exists(t)
  /\ Update(t, [ticket[t] EXCEPT !.status = to, !.assignee = u])
  /\ UNCHANGED <<away, request>>

\* Bulk edits are one statement each; what is gone by then is passed over.
BulkSetsStatus(T, to) ==
  /\ ticket' = [t \in Tickets |->
       IF t \in T /\ Exists(t) THEN [ticket[t] EXCEPT !.status = to] ELSE ticket[t]]
  /\ UNCHANGED <<away, request>>

BulkAssigns(T, u) ==
  /\ ticket' = [t \in Tickets |->
       IF t \in T /\ Exists(t) THEN [ticket[t] EXCEPT !.assignee = u] ELSE ticket[t]]
  /\ UNCHANGED <<away, request>>

BulkDeletes(T) ==
  /\ ticket' = [t \in Tickets |-> IF t \in T /\ Exists(t) THEN Deleted ELSE ticket[t]]
  /\ UNCHANGED <<away, request>>

Deletes(t) ==
  /\ Exists(t)
  /\ Update(t, Deleted)
  /\ UNCHANGED <<away, request>>

\* A technician leaves or is back.
SetsAvailability(u) ==
  /\ away' = IF u \in away THEN away \ {u} ELSE away \cup {u}
  /\ UNCHANGED <<ticket, request>>

DeskNext ==
  \/ \E r \in Requests :
       \/ \E t \in Tickets, row \in Forms \cup Batches \cup Templates : Inserts(r, t, row)
       \/ \E t \in Tickets, u \in Technicians : TakeReads(r, t, u) \/ AssignReads(r, t, u)
       \/ \E t \in Tickets : CancelReads(r, t)
       \/ CreateCommits(r) \/ TakeChecks(r) \/ TakeWrites(r) \/ CancelWrites(r) \/ Fails(r)
  \/ \E t \in Tickets :
       \/ \E to \in Targets :
            \/ RouteSetsStatus(t, to)
            \/ \E u \in Assignees : Edits(t, to, u)
       \/ Deletes(t)
  \/ \E T \in SUBSET Tickets :
       \/ \E to \in Targets : BulkSetsStatus(T, to)
       \/ \E u \in Technicians : BulkAssigns(T, u)
       \/ BulkDeletes(T)
  \/ \E u \in Technicians : SetsAvailability(u)

DeskSpec == DeskInit /\ [][DeskNext]_deskVars

-----------------------------------------------------------------------------
(* Properties. *)

\* Two tickets never have one number, however many transactions read one highest
\* number, roll back, or delete the ticket that has it.  (A number is given again
\* once the newest ticket is deleted: nothing here says that it is not.)
TicketNumbersUnique ==
  \A t, u \in Tickets :
    Exists(t) /\ Exists(u) /\ ticket[t].number = ticket[u].number => t = u

-----------------------------------------------------------------------------
(* What the code says of itself and does not keep. *)

\* take and assign: "Prevents race condition in workload checking".  By them alone
\* no technician comes to work on more than maxConcurrentTickets.
WithinLimit ==
  [][\A r \in Requests, u \in Technicians :
       Does(r, "takes") /\ request[r].technician = u /\ TakeWrites(r)
         => Cardinality({t \in Tickets : Exists(t)' /\ ticket'[t].assignee = u
                                           /\ ticket'[t].status = "IN_PROGRESS"})
              <= MaxConcurrent]_deskVars
=============================================================================
