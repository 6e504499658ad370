SPECIFICATION Spec
CONSTANTS
  Tickets = {t1}
  Parts = {p1}
  Usages = {u1, u2}
  Requests = {r1, r2}
  Quantities = {2}
  Installed <- MigrationChain
  OpeningStock <- TwoOfEach
  StatusInputs = {"OPEN", "CLOSED", "RESOLVED", "IN_PROGRESS"}
  StockCounts = {}
  MaxStock = 2
  NoRow = NoRow
  DeletedRow = DeletedRow
  NoTx = NoTx
INVARIANT NonNegativeStock
