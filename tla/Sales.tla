------------------------------- MODULE Sales -------------------------------
(***************************************************************************)
(* The counter: POS sales and their voiding, with the stock of the parts   *)
(* and the cash registers they touch.                                      *)
(*                                                                         *)
(* createPOSSale and voidPOSSale read first, on connections of their own,  *)
(* and then write in a SERIALIZABLE transaction: it works on the snapshot  *)
(* of its first statement, and fails when a row it writes was committed by *)
(* another transaction since.  Stock is moved by triggers on               *)
(* pos_sale_items and pos_sales.  A sale has one line here, and every part *)
(* costs one.                                                              *)
(***************************************************************************)
EXTENDS CashRegisters

CONSTANTS Parts,
          OpeningStock,    \* parts.quantity before the first sale
          Workers,         \* requests in flight together
          SaleIds,         \* pos_sales ids; each is used once
          Quotes,          \* pos_quotations ids; each is used once
          Quantities,      \* of a line
          NoSale, NoQuote, NoJob

SaleStatus == {"COMPLETED", "VOIDED", "PARTIALLY_REFUNDED", "FULLY_REFUNDED"}
Series == {"S", "POS"}     \* S-n by trigger, POS-year-n by conversions

SaleRow == [status : SaleStatus, part : Parts, quantity : Nat, cash : BOOLEAN,
            series : Series, number : Nat, quote : Quotes \cup {NoQuote}]

\* A request in flight: what it was given and what it read.
SaleJob == [step : {"sells", "selling"}, part : Parts, quantity : Nat, cash : BOOLEAN,
            register : Registers \cup {NoRegister}, number : Nat, missed : BOOLEAN]
VoidJob == [step : {"voids"}, sale : SaleIds, register : Registers \cup {NoRegister}]

ASSUME SalesAssumption ==
  /\ OpeningStock \in [Parts -> Nat]
  /\ Quantities \subseteq Nat \ {0}
  /\ NoSale \notin SaleRow /\ NoQuote \notin Quotes
  /\ NoJob \notin SaleJob \cup VoidJob

VARIABLES stock,    \* parts.quantity; no constraint keeps it from going below zero
          sale,     \* pos_sales, each with its line and how it was paid
          noted,    \* sales with a credit note
          job       \* requests in flight

counter == <<stock, sale, noted>>
saleVars == <<stock, sale, noted, job>>

SaleTypeOK ==
  /\ stock \in [Parts -> Int]
  /\ sale \in [SaleIds -> SaleRow \cup {NoSale}]
  /\ noted \subseteq SaleIds

SaleInit ==
  /\ stock = OpeningStock
  /\ sale = [s \in SaleIds |-> NoSale]
  /\ noted = {}
  /\ job = [w \in Workers |-> NoJob]

-----------------------------------------------------------------------------
Sold(s) == sale[s] # NoSale
FreshSales == {s \in SaleIds : ~Sold(s)}
Idle(w) == job[w] = NoJob
At(w, step) == ~Idle(w) /\ job[w].step = step

\* A request begins, or reads and goes on.
Takes(w, j) == job' = [job EXCEPT ![w] = j]

\* What a commit wrote: the part and the register rows.  A transaction that writes
\* one of them too, and took its snapshot before, has missed it.
Misses(j, parts, registers) ==
  j # NoJob /\ j.step = "selling" /\ (j.part \in parts \/ j.register \in registers)
Notice(j, parts, registers) ==
  IF Misses(j, parts, registers) THEN [j EXCEPT !.missed = TRUE] ELSE j
Commits(w, next, parts, registers) ==
  job' = [v \in Workers |-> IF v = w THEN next ELSE Notice(job[v], parts, registers)]

\* The highest number of a series, and one more.
Numbers(series) ==
  {sale[s].number : s \in {t \in SaleIds : Sold(t) /\ sale[t].series = series}}
NextNumber(taken) ==
  1 + CHOOSE n \in taken \cup {0} : \A m \in taken \cup {0} : m <= n

-----------------------------------------------------------------------------
(* createPOSSale. *)

\* The part has enough, and a register is open if anything is paid in cash; both
\* are read before the transaction, and only the register is used in it.
SaleReads(w, p, n, cash) ==
  /\ Idle(w)
  /\ FreshSales # {}
  /\ stock[p] >= n
  /\ \E c \in Registers \cup {NoRegister} :
       /\ IF cash THEN c \in Registers /\ IsOpen(c) /\ entries[c]["INCOME"] < MaxEntries
                  ELSE c = NoRegister
       /\ Takes(w, [step |-> "sells", part |-> p, quantity |-> n, cash |-> cash,
                    register |-> c, number |-> 0, missed |-> FALSE])
  /\ UNCHANGED <<counter, cashVars>>

\* Mutant: the numbers come from a sequence, which does not roll back.
SaleBegins_Sequence(w) ==
  /\ At(w, "sells")
  /\ stock[job[w].part] >= job[w].quantity
  /\ LET drawn == {job[v].number : v \in {u \in Workers : At(u, "selling")}}
     IN Takes(w, [job[w] EXCEPT !.step = "selling",
                    !.number = NextNumber(Numbers("S") \cup drawn)])
  /\ UNCHANGED <<counter, cashVars>>

\* The first statements take the snapshot: assign_sale_number finds the highest
\* number in it, and the row waits for another with the same; then
\* prevent_negative_stock looks at the part's quantity in it.
SaleBegins(w) ==
  /\ At(w, "sells")
  /\ stock[job[w].part] >= job[w].quantity
  /\ LET n == NextNumber(Numbers("S"))
     IN /\ \A v \in Workers : At(v, "selling") => job[v].number # n
        /\ Takes(w, [job[w] EXCEPT !.step = "selling", !.number = n])
  /\ UNCHANGED <<counter, cashVars>>

NewSale(j, series, quote) ==
  [status |-> "COMPLETED", part |-> j.part, quantity |-> j.quantity, cash |-> j.cash,
   series |-> series, number |-> j.number, quote |-> quote]

\* Mutant: the transaction runs at the default isolation, READ COMMITTED.
SaleCommits_ReadCommitted(w) ==
  /\ At(w, "selling")
  /\ LET j == job[w] IN
       /\ \E s \in FreshSales : sale' = [sale EXCEPT ![s] = NewSale(j, "S", NoQuote)]
       /\ stock' = [stock EXCEPT ![j.part] = stock[j.part] - j.quantity]
       /\ IF j.cash THEN RecordEntry(j.register, "INCOME", j.quantity)
                    ELSE UNCHANGED <<register, entries>>
       /\ Commits(w, NoJob, {j.part}, {j.register})
  /\ UNCHANGED <<noted, call>>

\* The sale, its line, which takes the stock, and its cash are committed together.
SaleCommits(w) ==
  /\ At(w, "selling")
  /\ ~job[w].missed
  /\ LET j == job[w] IN
       /\ \E s \in FreshSales : sale' = [sale EXCEPT ![s] = NewSale(j, "S", NoQuote)]
       /\ stock' = [stock EXCEPT ![j.part] = stock[j.part] - j.quantity]
       /\ IF j.cash THEN RecordEntry(j.register, "INCOME", j.quantity)
                    ELSE UNCHANGED <<register, entries>>
       /\ Commits(w, NoJob, {j.part}, {j.register})
  /\ UNCHANGED <<noted, call>>

-----------------------------------------------------------------------------
(* voidPOSSale. *)

\* The sale, its notes and the register are read before the transaction, which
\* asks none of it again.
VoidReads(w, s) ==
  /\ Idle(w)
  /\ Sold(s) /\ sale[s].status = "COMPLETED" /\ s \notin noted
  /\ \E c \in Registers \cup {NoRegister} :
       /\ IF sale[s].cash THEN c \in Registers /\ IsOpen(c) /\ entries[c]["EXPENSE"] < MaxEntries
                          ELSE c = NoRegister
       /\ Takes(w, [step |-> "voids", sale |-> s, register |-> c])
  /\ UNCHANGED <<counter, cashVars>>

\* Mutant: the trigger does not ask whether the sale was void already.
Restock_Again(s, to) ==
  IF to = "VOIDED"
  THEN [stock EXCEPT ![sale[s].part] = stock[sale[s].part] + sale[s].quantity]
  ELSE stock

\* restore_stock_on_pos_void, on an update of the status of a sale.
Restock(s, to) ==
  IF sale[s].status # "VOIDED" /\ to = "VOIDED"
  THEN [stock EXCEPT ![sale[s].part] = stock[sale[s].part] + sale[s].quantity]
  ELSE stock

\* The transaction's first statement takes the snapshot and locks the sale and
\* the part: it is serialised with whoever writes them.
VoidCommits(w) ==
  /\ At(w, "voids")
  /\ LET s == job[w].sale
         c == job[w].register
     IN /\ sale' = [sale EXCEPT ![s] = [sale[s] EXCEPT !.status = "VOIDED"]]
        /\ stock' = Restock(s, "VOIDED")
        /\ IF c \in Registers THEN RecordEntry(c, "EXPENSE", sale[s].quantity)
                              ELSE UNCHANGED <<register, entries>>
        /\ Commits(w, NoJob, IF stock' = stock THEN {} ELSE {sale[s].part}, {c})
  /\ UNCHANGED <<noted, call>>

-----------------------------------------------------------------------------
\* A check inside a transaction raises, a transaction cannot be serialised, the
\* process dies: what was not committed is forgotten.
Fails(w) == ~Idle(w) /\ Takes(w, NoJob) /\ UNCHANGED <<counter, cashVars>>

SaleSteps(w) ==
  \/ \E p \in Parts, n \in Quantities, cash \in BOOLEAN : SaleReads(w, p, n, cash)
  \/ SaleBegins(w) \/ SaleCommits(w)
  \/ \E s \in SaleIds : VoidReads(w, s)
  \/ VoidCommits(w)

\* Meanwhile registers are opened, used and closed.
Registering ==
  /\ CashNext
  /\ job' = [v \in Workers |->
       Notice(job[v], {}, {c \in Registers : register'[c] # register[c]})]
  /\ UNCHANGED counter

Selling == Registering \/ \E w \in Workers : SaleSteps(w)
=============================================================================
