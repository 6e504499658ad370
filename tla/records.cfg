SPECIFICATION Spec
CONSTANTS
  Customers = {c1}
  Users = {u1, u2}
  Parts = {p1}
  Templates = {k1, k2}
  Tickets = {t1}
  TemplateParts = {i1, i2}
  PartUsages = {g1}
  TicketServices = {s1}
  TicketNotes = {n1}
  Emails = {e1, e2}
  MaxLines = 1
  Requests = {r1, r2}
  Null = Null
  NoRow = NoRow
  NoRequest = NoRequest
SYMMETRY Symmetry
INVARIANT TypeOK
INVARIANT ReferencesHold
PROPERTY WorkKept
