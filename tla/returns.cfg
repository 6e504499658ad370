SPECIFICATION Spec
CONSTANTS
  Registers = {c1}
  Clerks = {k1}
  RegisterNames = {main}
  Openings = {2}
  Counts = {1}
  Amounts = {1}
  MaxEntries = 1
  NoRegister = NoRegister
  NoCall = NoCall
  Parts = {p1}
  OpeningStock <- ThreeUnits
  Workers = {w1}
  SaleIds = {s1}
  Quotes = {}
  Quantities = {1, 2}
  NoSale = NoSale
  NoQuote = NoQuote
  NoJob = NoJob
  NoteIds = {n1, n2}
  Lines = {l1, l2}
  NoteTotals = {0, 1}
  NoNote = NoNote
SYMMETRY Symmetry
INVARIANT TypeOK
INVARIANT StatusTellsReturns
INVARIANT StockMatchesNotes
INVARIANT NoUnitInvented
INVARIANT TriggerAgreesWithStats
PROPERTY OnlyClosesMiss
\* Every id was used: no client has anything left to ask.
CHECK_DEADLOCK FALSE
