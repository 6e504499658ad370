------------------------------- MODULE Records -------------------------------
(***************************************************************************)
(* The records others refer to: customers, users, parts, service templates *)
(* and tickets, with the rows that belong to them.  A handler that deletes *)
(* one looks first whether it is in use and deletes it in a statement of   *)
(* its own; between the two only the foreign keys of the schema stand in   *)
(* for it.  Each key refuses the deletion, deletes the row that refers     *)
(* along with the other, or forgets the reference.                         *)
(*                                                                         *)
(* Tickets and copies of templates are written with their lines in one     *)
(* transaction.  Its rows are private until it commits, but the rows they  *)
(* refer to are locked, so that a deletion of one of these waits.          *)
(***************************************************************************)
EXTENDS Naturals, FiniteSets

CONSTANTS Customers, Users, Parts, Templates, Tickets,   \* ids, table by table
          TemplateParts, PartUsages, TicketServices, TicketNotes,
          Emails,      \* addresses of users
          MaxLines,    \* bound: lines of one part a ticket is opened with
          Requests,    \* requests in flight together
          Null, NoRow, NoRequest

Ids == Customers \cup Users \cup Parts \cup Templates \cup Tickets
         \cup TemplateParts \cup PartUsages \cup TicketServices \cup TicketNotes

\* The table each foreign key column refers to.
Referred == [customer |-> Customers, assignee |-> Users, author |-> Users,
             part |-> Parts, template |-> Templates, ticket |-> Tickets]
Columns == DOMAIN Referred

\* A row is its references; columns its table does not have are null.
Row == {columns \in [Columns -> Ids \cup {Null}] :
          \A c \in Columns : columns[c] \in Referred[c] \cup {Null}}
Lines == [Parts -> Nat]

\* A request in flight: what it found, and what a transaction has written.
Request ==
  [step : {"deletes"}, id : Ids]
    \cup [step : {"adds"}, id : Ids, row : Row]
    \cup [step : {"registers", "renames"}, id : Users, email : Emails]
    \cup [step : {"begins"}, id : Tickets \cup Templates, row : Row, due : Lines]
    \cup [step : {"writes"}, id : Tickets \cup Templates,
          rows : [Ids -> Row \cup {NoRow}], due : Lines]

Belonging == TemplateParts \cup PartUsages \cup TicketServices \cup TicketNotes

ASSUME RecordsAssumption ==
  /\ MaxLines \in Nat /\ IsFiniteSet(TemplateParts)
  /\ Null \notin Ids \cup Emails
  /\ NoRow \notin Row
  /\ NoRequest \notin Request
  /\ \A c \in Columns : Referred[c] \cap Belonging = {}
  /\ Tickets \cap (Customers \cup Users \cup Parts \cup Templates) = {}
  /\ TemplateParts \cap (PartUsages \cup TicketServices \cup TicketNotes) = {}
  /\ PartUsages \cap (TicketServices \cup TicketNotes) = {}
  /\ TicketServices \cap TicketNotes = {}

VARIABLES row,      \* the tables
          email,    \* users.email
          active,   \* the templates that are active
          request   \* requests in flight

tables == <<row, email, active>>
vars == <<row, email, active, request>>

\* Rows refer to rows of the tables their columns are for, users have addresses,
\* and requests in flight are well formed.
TypeOK ==
  /\ row \in [Ids -> Row \cup {NoRow}]
  /\ email \in [Users -> Emails \cup {Null}]
  /\ active \subseteq Templates
  /\ request \in [Requests -> Request \cup {NoRequest}]

Init ==
  /\ row = [i \in Ids |-> NoRow]
  /\ email = [u \in Users |-> Null]
  /\ active = {}
  /\ request = [r \in Requests |-> NoRequest]

-----------------------------------------------------------------------------
Present(i) == row[i] # NoRow
Alone == [c \in Columns |-> Null]
Idle(r) == request[r] = NoRequest
Does(r, step) == ~Idle(r) /\ request[r].step = step
Takes(r, to) == request' = [request EXCEPT ![r] = to]
Ends(r) == Takes(r, NoRequest)

\* The ids a request knows.
Mentions(r, i) ==
  /\ ~Idle(r)
  /\ \/ request[r].id = i
     \/ request[r].step \in {"adds", "begins"} /\ \E c \in Columns : request[r].row[c] = i
     \/ /\ request[r].step = "writes"
        /\ \E j \in Ids : /\ request[r].rows[j] # NoRow
                          /\ j = i \/ \E c \in Columns : request[r].rows[j][c] = i

\* Ids are UUIDs: one that no row has and no request knows stands for a new one.
Fresh(i) == ~Present(i) /\ \A r \in Requests : ~Mentions(r, i)

\* Mutant: the schema lets tickets go with their customer.
OnDelete_Cascading(i, c) ==
  CASE c \in {"part", "author"} -> "restrict"
    [] c = "ticket" -> IF i \in PartUsages THEN "restrict" ELSE "cascade"
    [] c \in {"template", "customer"} -> "cascade"
    [] OTHER -> "set null"

\* What becomes of row i when the row its column c refers to is deleted.
OnDelete(i, c) ==
  CASE c \in {"customer", "part", "author"} -> "restrict"
    [] c = "ticket" -> IF i \in PartUsages THEN "restrict" ELSE "cascade"
    [] c = "template" -> IF i \in TicketServices THEN "restrict"
                         ELSE IF i \in TemplateParts THEN "cascade" ELSE "set null"
    [] OTHER -> "set null"

\* The rows a rule applies to when k is deleted.
Referring(k, rule) ==
  {i \in Ids : Present(i) /\ \E c \in Columns : row[i][c] = k /\ OnDelete(i, c) = rule}

\* Rows not committed yet lock what they refer to.
Locked(k) ==
  \E r \in Requests :
    /\ Does(r, "writes")
    /\ \E i \in Ids : request[r].rows[i] # NoRow /\ \E c \in Columns : request[r].rows[i][c] = k

\* Mutant: the keys are not checked, the handlers' own look is all there is.
MayGo_Unchecked(k) == Present(k)

MayGo(k) == Present(k) /\ ~Locked(k) /\ Referring(k, "restrict") = {}

\* DELETE of one row.
Delete(k) ==
  /\ MayGo(k)
  /\ row' = [i \in Ids |->
       IF i = k \/ i \in Referring(k, "cascade") THEN NoRow
       ELSE IF row[i] = NoRow THEN NoRow
       ELSE [c \in Columns |-> IF row[i][c] = k THEN Null ELSE row[i][c]]]
  /\ email' = [u \in Users |-> IF u = k THEN Null ELSE email[u]]
  /\ active' = active \ {k}

\* The keys let a row in when what it refers to is there.
Satisfied(columns) == \A c \in Columns : columns[c] # Null => Present(columns[c])

Insert(i, columns) ==
  /\ ~Present(i) /\ Satisfied(columns)
  /\ row' = [row EXCEPT ![i] = columns]

-----------------------------------------------------------------------------
\* Statements of their own.

\* createCustomer of the pages, of the API and of a ticket for a new customer.
CreateCustomer(k) ==
  /\ Fresh(k) /\ Insert(k, Alone)
  /\ UNCHANGED <<email, active, request>>

CreatePart(k) ==
  /\ Fresh(k) /\ Insert(k, Alone)
  /\ UNCHANGED <<email, active, request>>

\* A template starts with no parts, active or not.
CreateTemplate(k, isActive) ==
  /\ Fresh(k) /\ Insert(k, Alone)
  /\ active' = IF isActive THEN active \cup {k} ELSE active
  /\ UNCHANGED <<email, request>>

ToggleTemplate(k) ==
  /\ Present(k)
  /\ active' = IF k \in active THEN active \ {k} ELSE active \cup {k}
  /\ UNCHANGED <<row, email, request>>

\* A ticket is given to a technician, whose key is checked.
Assign(t, u) ==
  /\ Present(t) /\ Present(u)
  /\ row' = [row EXCEPT ![t].assignee = u]
  /\ UNCHANGED <<email, active, request>>

\* Part usages, services, notes and template parts are taken away one by one;
\* users and tickets are deleted whatever refers to them, as far as the keys let them.
DeleteOne(k) ==
  /\ Delete(k)
  /\ UNCHANGED request

-----------------------------------------------------------------------------
\* Deletions that look first.

DeleteCustomerReads(r, k) ==
  /\ Idle(r) /\ Present(k)
  /\ \A t \in Tickets : Present(t) => row[t].customer # k
  /\ Takes(r, [step |-> "deletes", id |-> k])
  /\ UNCHANGED tables

DeletePartReads(r, k) ==
  /\ Idle(r) /\ Present(k)
  /\ \A i \in PartUsages : Present(i) => row[i].part # k
  /\ Takes(r, [step |-> "deletes", id |-> k])
  /\ UNCHANGED tables

\* Only the tickets are counted, not the services that refer to the template.
DeleteTemplateReads(r, k) ==
  /\ Idle(r) /\ Present(k)
  /\ \A t \in Tickets : Present(t) => row[t].template # k
  /\ Takes(r, [step |-> "deletes", id |-> k])
  /\ UNCHANGED tables

Deletes(r) ==
  /\ Does(r, "deletes")
  /\ Delete(request[r].id)
  /\ Ends(r)

-----------------------------------------------------------------------------
\* Rows that belong to a record which is read first.

AddItemReads(r, i, k, p) ==
  /\ Idle(r) /\ Fresh(i) /\ Present(k) /\ Present(p)
  /\ \A j \in TemplateParts : Present(j) => row[j].template # k \/ row[j].part # p
  /\ Takes(r, [step |-> "adds", id |-> i, row |-> [Alone EXCEPT !.template = k, !.part = p]])
  /\ UNCHANGED tables

AddUsageReads(r, i, t, p) ==
  /\ Idle(r) /\ Fresh(i) /\ Present(t) /\ Present(p)
  /\ Takes(r, [step |-> "adds", id |-> i, row |-> [Alone EXCEPT !.ticket = t, !.part = p]])
  /\ UNCHANGED tables

AddServiceReads(r, i, t, k) ==
  /\ Idle(r) /\ Fresh(i) /\ Present(t) /\ Present(k)
  /\ Takes(r, [step |-> "adds", id |-> i, row |-> [Alone EXCEPT !.ticket = t, !.template = k]])
  /\ UNCHANGED tables

\* The author is the user of the session, who is not read.
AddNoteReads(r, i, t, u) ==
  /\ Idle(r) /\ Fresh(i) /\ Present(t)
  /\ Takes(r, [step |-> "adds", id |-> i, row |-> [Alone EXCEPT !.ticket = t, !.author = u]])
  /\ UNCHANGED tables

Adds(r) ==
  /\ Does(r, "adds")
  /\ Insert(request[r].id, request[r].row)
  /\ Ends(r)
  /\ UNCHANGED <<email, active>>

-----------------------------------------------------------------------------
\* Users and their addresses.

Taken(e) == \E u \in Users : email[u] = e

RegisterReads(r, u, e) ==
  /\ Idle(r) /\ Fresh(u) /\ ~Taken(e)
  /\ Takes(r, [step |-> "registers", id |-> u, email |-> e])
  /\ UNCHANGED tables

\* updateUser looks for another user of the tenant who has the new address; an
\* address that stays as it is changes nothing.
RenameReads(r, u, e) ==
  /\ Idle(r) /\ Present(u) /\ ~Taken(e)
  /\ Takes(r, [step |-> "renames", id |-> u, email |-> e])
  /\ UNCHANGED tables

\* The unique index on the address of a user of the tenant.
Admits(u, e) == \A v \in Users : email[v] = e => v = u

Registers(r) ==
  /\ Does(r, "registers")
  /\ Admits(request[r].id, request[r].email)
  /\ Insert(request[r].id, Alone)
  /\ email' = [email EXCEPT ![request[r].id] = request[r].email]
  /\ Ends(r)
  /\ UNCHANGED active

Renames(r) ==
  /\ Does(r, "renames")
  /\ Present(request[r].id) /\ Admits(request[r].id, request[r].email)
  /\ email' = [email EXCEPT ![request[r].id] = request[r].email]
  /\ Ends(r)
  /\ UNCHANGED <<row, active>>

-----------------------------------------------------------------------------
\* A row and its lines, in one transaction.

ItemsOf(k) == {i \in TemplateParts : Present(i) /\ row[i].template = k}
DueOf(items) == [p \in Parts |-> Cardinality({i \in items : row[i].part = p})]

\* A ticket without a template is given parts from a list.
OpenTicketReads(r, t, c) ==
  /\ Idle(r) /\ Fresh(t) /\ Present(c)
  /\ \E due \in [Parts -> 0..MaxLines] :
       Takes(r, [step |-> "begins", id |-> t, row |-> [Alone EXCEPT !.customer = c], due |-> due])
  /\ UNCHANGED tables

\* A ticket from an active template is given the required parts and the chosen
\* of the optional ones; a technician who opens it is assigned.
OpenFromTemplateReads(r, t, c, k, u) ==
  /\ Idle(r) /\ Fresh(t) /\ Present(c) /\ Present(k) /\ k \in active
  /\ \E items \in SUBSET ItemsOf(k) :
       Takes(r, [step |-> "begins", id |-> t, due |-> DueOf(items),
                 row |-> [Alone EXCEPT !.customer = c, !.template = k, !.assignee = u]])
  /\ UNCHANGED tables

\* A copy gets every part of the original; it starts inactive.
DuplicateReads(r, copy, k) ==
  /\ Idle(r) /\ Fresh(copy) /\ Present(k)
  /\ Takes(r, [step |-> "begins", id |-> copy, row |-> Alone, due |-> DueOf(ItemsOf(k))])
  /\ UNCHANGED tables

InsertsHead(r) ==
  /\ Does(r, "begins")
  /\ Satisfied(request[r].row)
  /\ Takes(r, [step |-> "writes", id |-> request[r].id, due |-> request[r].due,
               rows |-> [[i \in Ids |-> NoRow] EXCEPT ![request[r].id] = request[r].row]])
  /\ UNCHANGED tables

\* Mutant: a part is written once more than it is due.
InsertsLine_Again(r, i, p) ==
  /\ Does(r, "writes") /\ Fresh(i) /\ Present(p)
  /\ LET id == request[r].id
         line == [Alone EXCEPT !.ticket = id, !.part = p]
     IN /\ id \in Tickets /\ i \in PartUsages
        /\ Takes(r, [step |-> "writes", id |-> id, due |-> [request[r].due EXCEPT ![p] = @ - 1],
                     rows |-> [request[r].rows EXCEPT ![i] = line]])
  /\ UNCHANGED tables

\* A line of the ticket or the copy, for a part that is still there.
InsertsLine(r, i, p) ==
  /\ Does(r, "writes") /\ Fresh(i) /\ Present(p) /\ request[r].due[p] > 0
  /\ LET id == request[r].id
         line == IF id \in Tickets THEN [Alone EXCEPT !.ticket = id, !.part = p]
                                   ELSE [Alone EXCEPT !.template = id, !.part = p]
     IN /\ i \in IF id \in Tickets THEN PartUsages ELSE TemplateParts
        /\ Takes(r, [step |-> "writes", id |-> id, due |-> [request[r].due EXCEPT ![p] = @ - 1],
                     rows |-> [request[r].rows EXCEPT ![i] = line]])
  /\ UNCHANGED tables

Commits(r) ==
  /\ Does(r, "writes")
  /\ \A p \in Parts : request[r].due[p] = 0
  /\ row' = [i \in Ids |-> IF request[r].rows[i] = NoRow THEN row[i] ELSE request[r].rows[i]]
  /\ Ends(r)
  /\ UNCHANGED <<email, active>>

\* A refused key or index, a missing row, a timeout or a crash.
Fails(r) ==
  /\ ~Idle(r)
  /\ Ends(r)
  /\ UNCHANGED tables

-----------------------------------------------------------------------------
Handles(r) ==
  \/ \E k \in Customers : DeleteCustomerReads(r, k)
  \/ \E k \in Parts : DeletePartReads(r, k)
  \/ \E k \in Templates : DeleteTemplateReads(r, k)
  \/ \E i \in TemplateParts, k \in Templates, p \in Parts : AddItemReads(r, i, k, p)
  \/ \E i \in PartUsages, t \in Tickets, p \in Parts : AddUsageReads(r, i, t, p)
  \/ \E i \in TicketServices, t \in Tickets, k \in Templates : AddServiceReads(r, i, t, k)
  \/ \E i \in TicketNotes, t \in Tickets, u \in Users : AddNoteReads(r, i, t, u)
  \/ \E u \in Users, e \in Emails : RegisterReads(r, u, e) \/ RenameReads(r, u, e)
  \/ \E t \in Tickets, c \in Customers : OpenTicketReads(r, t, c)
  \/ \E t \in Tickets, c \in Customers, k \in Templates, u \in Users \cup {Null} :
       OpenFromTemplateReads(r, t, c, k, u)
  \/ \E copy, k \in Templates : DuplicateReads(r, copy, k)
  \/ Deletes(r) \/ Adds(r) \/ Registers(r) \/ Renames(r)
  \/ InsertsHead(r) \/ Commits(r) \/ Fails(r)
  \/ \E i \in TemplateParts \cup PartUsages, p \in Parts : InsertsLine(r, i, p)

Next ==
  \/ \E k \in Customers : CreateCustomer(k)
  \/ \E k \in Parts : CreatePart(k)
  \/ \E k \in Templates : ToggleTemplate(k) \/ \E isActive \in BOOLEAN : CreateTemplate(k, isActive)
  \/ \E t \in Tickets, u \in Users : Assign(t, u)
  \/ \E k \in Users \cup Tickets \cup Belonging : DeleteOne(k)
  \/ \E r \in Requests : Handles(r)

Spec == Init /\ [][Next]_vars

-----------------------------------------------------------------------------
\* The columns a row of each table must have.
Mandatory(i) ==
  IF i \in Tickets THEN {"customer"}
  ELSE IF i \in TemplateParts THEN {"template", "part"}
  ELSE IF i \in PartUsages THEN {"ticket", "part"}
  ELSE IF i \in TicketServices THEN {"ticket", "template"}
  ELSE IF i \in TicketNotes THEN {"ticket", "author"}
  ELSE {}

\* A row refers to rows that are there and has what it cannot be without,
\* whatever is deleted between a handler's look and its write.
ReferencesHold ==
  \A i \in Ids : Present(i) =>
    /\ Satisfied(row[i])
    /\ \A c \in Mandatory(i) : row[i][c] # Null

Gone == {i \in Ids : Present(i) /\ row'[i] = NoRow}

\* What was done on tickets outlives the records it refers to: with a customer,
\* user, part or template goes no ticket, usage, service or note, with a ticket
\* goes no usage, and a ticket stays with its customer.
WorkKept ==
  [][/\ Gone \cap (Customers \cup Users \cup Parts \cup Templates) # {} =>
          Gone \cap (Tickets \cup PartUsages \cup TicketServices \cup TicketNotes) = {}
     /\ Gone \cap Tickets # {} => Gone \cap PartUsages = {}
     /\ \A t \in Tickets : Present(t) /\ t \notin Gone => row'[t].customer = row[t].customer]_vars

=============================================================================
