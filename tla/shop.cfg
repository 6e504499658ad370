SPECIFICATION Spec
CONSTANTS
  Registers = {}
  Clerks = {}
  RegisterNames = {main}
  Openings = {0}
  Counts = {0}
  Amounts = {1}
  MaxEntries = 1
  NoRegister = NoRegister
  NoCall = NoCall
  Parts = {p1}
  OpeningStock <- FewUnits
  Workers = {w1, w2}
  SaleIds = {s1, s2, s3}
  Quotes = {q1}
  Quantities = {1}
  NoSale = NoSale
  NoQuote = NoQuote
  NoJob = NoJob
  QuoteBook <- QuoteOfOne
  NoRow = NoRow
  Deleted = Deleted
  Orders = {o1}
  MaxDue = 1
  NoOrder = NoOrder
  NoUnits = NoUnits
SYMMETRY Symmetry
INVARIANT TypeOK
INVARIANT QuotationSoldOnce
INVARIANT SaleNumbersGapless
PROPERTY NeverOversold
PROPERTY StockIsAccountedFor
\* Every id was used: no client has anything left to ask.
CHECK_DEADLOCK FALSE
