SPECIFICATION Spec
CONSTANTS
  Tickets = {t1}
  Parts = {p1}
  Usages = {u1, u2}
  Requests = {r1, r2}
  Quantities = {1, 2}
  Installed <- MigrationChain
  OpeningStock <- TwoOfEach
  StatusInputs = {"IN_PROGRESS"}
  StockCounts = {0}
  MaxStock = 2
  NoRow = NoRow
  DeletedRow = DeletedRow
  NoTx = NoTx
SYMMETRY Symmetry
INVARIANT TypeOK
INVARIANT NoOrphanUsage
PROPERTY UsageLifecycle
PROPERTY ApprovesAllOrNothing
PROPERTY StockFollowsUsages
PROPERTY OnlyInsertsOverdraw
