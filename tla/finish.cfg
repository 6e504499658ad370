SPECIFICATION FairSpec
CONSTANTS
  Tickets = {t1}
  Parts = {p1, p2}
  Usages = {u1, u2}
  Requests = {r1, r2}
  Quantities = {1}
  Installed <- MigrationChain
  OpeningStock <- TwoOfEach
  StatusInputs = {}
  StockCounts = {}
  MaxStock = 0
  NoRow = NoRow
  DeletedRow = DeletedRow
  NoTx = NoTx
INVARIANT ChargedExactly
PROPERTY RequestsFinish
