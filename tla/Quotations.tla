----------------------------- MODULE Quotations -----------------------------
(***************************************************************************)
(* Quotations of the counter: their statuses, their lapsing, and their     *)
(* conversion into sales.  Every handler reads the quotation in one        *)
(* statement and writes it in another, by id alone; a conversion is one    *)
(* READ COMMITTED insert between a number it read and a status it writes.  *)
(* Quotation numbers are left out: an insert that meets the unique index   *)
(* on them fails.                                                          *)
(***************************************************************************)
EXTENDS Sales

CONSTANTS QuoteBook,    \* what each quotation is for: its part and quantity
          NoRow, Deleted

QuoteStatus == {"DRAFT", "SENT", "ACCEPTED", "REJECTED", "EXPIRED", "CONVERTED", "CANCELLED"}

QuoteRow == [status : QuoteStatus, lapsed : BOOLEAN]

ConvertJob == [step : {"numbers", "converts", "converting", "marks"}, quote : Quotes,
               part : Parts, quantity : Nat, cash : BOOLEAN, number : Nat]
QuoteJob == [step : {"status"}, quote : Quotes, to : QuoteStatus]
              \cup [step : {"delete"}, quote : Quotes]
              \cup [step : {"expire"}, quotes : SUBSET Quotes]

ASSUME QuotationsAssumption ==
  /\ QuoteBook \in [Quotes -> [part : Parts, quantity : Nat \ {0}]]
  /\ {NoRow, Deleted} \cap QuoteRow = {}
  /\ NoJob \notin ConvertJob \cup QuoteJob

VARIABLE quotation    \* pos_quotations

QuoteTypeOK == quotation \in [Quotes -> QuoteRow \cup {NoRow, Deleted}]
QuoteInit == quotation = [q \in Quotes |-> NoRow]

-----------------------------------------------------------------------------
Filed(q) == quotation[q] \notin {NoRow, Deleted}
SetStatus(Q, to) ==
  quotation' = [q \in Quotes |->
    IF q \in Q /\ Filed(q) THEN [quotation[q] EXCEPT !.status = to] ELSE quotation[q]]

\* createQuotation, and duplicateQuotation of a row still there.
QuoteCreates(q) ==
  /\ quotation[q] = NoRow
  /\ quotation' = [quotation EXCEPT ![q] = [status |-> "DRAFT", lapsed |-> FALSE]]
  /\ UNCHANGED <<saleVars, cashVars>>

\* validUntil passes.
Lapses(q) ==
  /\ Filed(q) /\ ~quotation[q].lapsed
  /\ quotation' = [quotation EXCEPT ![q] = [quotation[q] EXCEPT !.lapsed = TRUE]]
  /\ UNCHANGED <<saleVars, cashVars>>

-----------------------------------------------------------------------------
(* updateQuotationStatus and deleteQuotation. *)

Transitions ==
  [DRAFT |-> {"SENT", "CANCELLED"},
   SENT |-> {"ACCEPTED", "REJECTED", "EXPIRED", "CANCELLED"},
   ACCEPTED |-> {"CONVERTED", "CANCELLED"},
   REJECTED |-> {}, EXPIRED |-> {}, CONVERTED |-> {}, CANCELLED |-> {}]

StatusReads(w, q, to) ==
  /\ Idle(w)
  /\ Filed(q) /\ to \in Transitions[quotation[q].status]
  /\ Takes(w, [step |-> "status", quote |-> q, to |-> to])
  /\ UNCHANGED <<counter, cashVars, quotation>>

StatusWrites(w) ==
  /\ At(w, "status")
  /\ Filed(job[w].quote)
  /\ SetStatus({job[w].quote}, job[w].to)
  /\ Takes(w, NoJob)
  /\ UNCHANGED <<counter, cashVars>>

DeleteReads(w, q) ==
  /\ Idle(w)
  /\ Filed(q) /\ quotation[q].status = "DRAFT"
  /\ Takes(w, [step |-> "delete", quote |-> q])
  /\ UNCHANGED <<counter, cashVars, quotation>>

\* The row goes, whatever it says by now; the sale it was converted to forgets
\* it, and an insert that refers to it is waited for.
DeleteWrites(w) ==
  /\ At(w, "delete")
  /\ LET q == job[w].quote IN
       /\ Filed(q)
       /\ \A v \in Workers : At(v, "converting") => job[v].quote # q
       /\ quotation' = [quotation EXCEPT ![q] = Deleted]
       /\ sale' = [s \in SaleIds |-> IF Sold(s) /\ sale[s].quote = q
                                       THEN [sale[s] EXCEPT !.quote = NoQuote] ELSE sale[s]]
  /\ Takes(w, NoJob)
  /\ UNCHANGED <<stock, noted, cashVars>>

-----------------------------------------------------------------------------
(* Lapsed quotations. *)

Expirable == {q \in Quotes : Filed(q) /\ quotation[q].lapsed
                               /\ quotation[q].status \in {"DRAFT", "SENT"}}

\* Mutant: a status the enumeration has not.
MarkExpired_Misspelt ==
  /\ Expirable # {}
  /\ SetStatus(Expirable, "LAPSED")
  /\ UNCHANGED <<saleVars, cashVars>>

\* markExpiredQuotations: one guarded statement.
MarkExpired ==
  /\ Expirable # {}
  /\ SetStatus(Expirable, "EXPIRED")
  /\ UNCHANGED <<saleVars, cashVars>>

\* checkExpiringQuotations, of the cron job: the rows found, and then their ids
\* updated without another look.
CronReads(w) ==
  /\ Idle(w)
  /\ Expirable # {}
  /\ Takes(w, [step |-> "expire", quotes |-> Expirable])
  /\ UNCHANGED <<counter, cashVars, quotation>>

CronWrites(w) ==
  /\ At(w, "expire")
  /\ SetStatus(job[w].quotes, "EXPIRED")
  /\ Takes(w, NoJob)
  /\ UNCHANGED <<counter, cashVars>>

-----------------------------------------------------------------------------
(* convertQuotationToSale. *)

ConvertReads(w, q, cash) ==
  /\ Idle(w)
  /\ FreshSales # {}
  /\ Filed(q) /\ quotation[q].status = "ACCEPTED"
  /\ stock[QuoteBook[q].part] >= QuoteBook[q].quantity
  /\ Takes(w, [step |-> "numbers", quote |-> q, part |-> QuoteBook[q].part,
               quantity |-> QuoteBook[q].quantity, cash |-> cash, number |-> 0])
  /\ UNCHANGED <<counter, cashVars, quotation>>

ConvertReadsNumber(w) ==
  /\ At(w, "numbers")
  /\ Takes(w, [job[w] EXCEPT !.step = "converts", !.number = NextNumber(Numbers("POS"))])
  /\ UNCHANGED <<counter, cashVars, quotation>>

Held(w) == {job[v] : v \in {u \in Workers \ {w} : At(u, "converting")}}

\* Mutant: quotationId is not unique.
ConvertInserts_ManySales(w) ==
  /\ At(w, "converts")
  /\ LET j == job[w] IN
       /\ j.number \notin Numbers("POS") \cup {i.number : i \in Held(w)}
       /\ Filed(j.quote)
       /\ stock[j.part] >= j.quantity
  /\ Takes(w, [job[w] EXCEPT !.step = "converting"])
  /\ UNCHANGED <<counter, cashVars, quotation>>

\* The insert of the sale passes the unique indexes on its number and on its
\* quotation, having waited for whoever may still commit the same; its line
\* passes prevent_negative_stock, which looks at what is committed by now.
ConvertInserts(w) ==
  /\ At(w, "converts")
  /\ LET j == job[w] IN
       /\ j.number \notin Numbers("POS") \cup {i.number : i \in Held(w)}
       /\ j.quote \notin {sale[s].quote : s \in {t \in SaleIds : Sold(t)}}
       /\ j.quote \notin {i.quote : i \in Held(w)}
       /\ Filed(j.quote)
       /\ stock[j.part] >= j.quantity
  /\ Takes(w, [job[w] EXCEPT !.step = "converting"])
  /\ UNCHANGED <<counter, cashVars, quotation>>

\* The line takes the stock from the row as it is once others let go of it.  No
\* cash transaction is made, whatever the payments are.
ConvertCommits(w) ==
  /\ At(w, "converting")
  /\ LET j == job[w] IN
       /\ \E s \in FreshSales : sale' = [sale EXCEPT ![s] = NewSale(j, "POS", j.quote)]
       /\ stock' = [stock EXCEPT ![j.part] = stock[j.part] - j.quantity]
       /\ Commits(w, [j EXCEPT !.step = "marks"], {j.part}, {})
  /\ UNCHANGED <<noted, cashVars, quotation>>

ConvertMarks(w) ==
  /\ At(w, "marks")
  /\ Filed(job[w].quote)
  /\ SetStatus({job[w].quote}, "CONVERTED")
  /\ Takes(w, NoJob)
  /\ UNCHANGED <<counter, cashVars>>

-----------------------------------------------------------------------------
QuoteSteps(w) ==
  \/ \E q \in Quotes :
       \/ \E to \in QuoteStatus : StatusReads(w, q, to)
       \/ DeleteReads(w, q)
       \/ \E cash \in BOOLEAN : ConvertReads(w, q, cash)
  \/ StatusWrites(w) \/ DeleteWrites(w) \/ CronReads(w) \/ CronWrites(w)
  \/ ConvertReadsNumber(w) \/ ConvertInserts(w) \/ ConvertCommits(w) \/ ConvertMarks(w)

Quoting ==
  \/ \E q \in Quotes : QuoteCreates(q) \/ Lapses(q)
  \/ MarkExpired
=============================================================================
