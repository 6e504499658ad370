-------------------------------- MODULE Shop --------------------------------
(***************************************************************************)
(* The counter as a whole: sales, quotations, purchase orders and cash     *)
(* registers, their requests interleaved over the same rows.               *)
(***************************************************************************)
EXTENDS Quotations, Purchases

CONSTANT NoUnits

ASSUME ShopAssumption == NoUnits \notin [part : Parts, quantity : Nat]

Job == SaleJob \cup VoidJob \cup ConvertJob \cup QuoteJob \cup OrderJob

vars == <<register, entries, call, stock, sale, noted, job, quotation, order, delivered>>

\* The rows and the requests of the counter are well formed.
TypeOK ==
  /\ CashTypeOK /\ SaleTypeOK /\ QuoteTypeOK /\ OrderTypeOK
  /\ job \in [Workers -> Job \cup {NoJob}]

Init == CashInit /\ SaleInit /\ QuoteInit /\ OrderInit

Next ==
  \/ Selling /\ UNCHANGED <<quotation, orderVars>>
  \/ Quoting /\ UNCHANGED orderVars
  \/ \E o \in Orders : OrderCreates(o) /\ UNCHANGED quotation
  \/ \E w \in Workers :
       \/ QuoteSteps(w) /\ UNCHANGED orderVars
       \/ OrderSteps(w) /\ UNCHANGED quotation
       \/ Fails(w) /\ UNCHANGED <<quotation, orderVars>>

Spec == Init /\ [][Next]_vars

-----------------------------------------------------------------------------
(* Properties. *)

\* Stock as the counter promises it: the rows of pos_sales say what is out and
\* what came back, whoever wrote them and whatever failed on the way.
Ledger == INSTANCE StockLedger WITH
  onHand <- stock,
  out <- [s \in SaleIds |-> IF Sold(s) THEN [part |-> sale[s].part, quantity |-> sale[s].quantity]
                                       ELSE NoUnits],
  back <- {s \in SaleIds : Sold(s) /\ sale[s].status = "VOIDED"}

StockIsAccountedFor == Ledger!Spec

\* createPOSSale: the stock was "validated atomically".  A sale of the counter
\* never takes units that are not there, conversions or not.
NeverOversold ==
  [][\A s \in SaleIds : ~Sold(s) /\ sale'[s] # NoSale /\ sale'[s].series = "S"
                          => stock'[sale'[s].part] >= 0]_vars

\* However often it is converted, and whatever becomes of its status, a quotation
\* is sold once.
QuotationSoldOnce ==
  \A s, t \in SaleIds :
    Sold(s) /\ Sold(t) /\ sale[s].quote = sale[t].quote /\ sale[s].quote # NoQuote => s = t

\* Both series of sale numbers are consecutive, and no two sales share a number,
\* though a failed transaction drew one and a conversion read one long before.
SaleNumbersGapless ==
  \A series \in Series :
    /\ Numbers(series) = 1 .. NextNumber(Numbers(series)) - 1
    /\ \A s, t \in SaleIds :
         /\ Sold(s) /\ sale[s].series = series
         /\ Sold(t) /\ sale[t].series = series
         /\ sale[s].number = sale[t].number
         => s = t
=============================================================================
