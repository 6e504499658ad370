SPECIFICATION FairSpec
CONSTANTS
  Tickets = {t1}
  Technicians = {u1}
  Requests = {r1}
  MaxConcurrent = 1
  Targets = {"RESOLVED"}
  NoTicket = NoTicket
  Deleted = Deleted
  Nobody = Nobody
  NoRequest = NoRequest
  MaxFaults = 1
  NoRun = NoRun
INVARIANT TypeOK
INVARIANT OncePerDay
PROPERTY TechnicianIsTold
