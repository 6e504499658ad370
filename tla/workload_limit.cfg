SPECIFICATION DeskSpec
CONSTANTS
  Tickets = {t1, t2}
  Technicians = {u1}
  Requests = {r1, r2}
  MaxConcurrent = 1
  Targets = {}
  NoTicket = NoTicket
  Deleted = Deleted
  Nobody = Nobody
  NoRequest = NoRequest
SYMMETRY Symmetry
PROPERTY WithinLimit
