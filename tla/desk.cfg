SPECIFICATION DeskSpec
CONSTANTS
  Tickets = {t1, t2, t3}
  Technicians = {u1}
  Requests = {r1, r2}
  MaxConcurrent = 1
  Targets = {"IN_PROGRESS"}
  NoTicket = NoTicket
  Deleted = Deleted
  Nobody = Nobody
  NoRequest = NoRequest
SYMMETRY Symmetry
INVARIANT DeskTypeOK
INVARIANT TicketNumbersUnique
\* Every id was used: no client has anything left to ask.
CHECK_DEADLOCK FALSE
