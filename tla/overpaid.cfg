SPECIFICATION Spec
CONSTANTS
  Registers = {c1}
  Clerks = {k1}
  RegisterNames = {main}
  Openings = {0}
  Counts = {0}
  Amounts = {1, 2}
  MaxEntries = 0
  NoRegister = NoRegister
  NoCall = NoCall
  Invoices = {i1}
  Requests = {r1, r2}
  Totals = {2}
  Pool = 2
  MaxPayments = 2
  MaxCash = 1
  NoInvoice = NoInvoice
  NoRequest = NoRequest
INVARIANT NeverOverpaid
