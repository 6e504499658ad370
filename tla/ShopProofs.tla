----------------------------- MODULE ShopProofs -----------------------------
(* Proofs about Shop: its types, that no sale oversells, that a quotation is   *)
(* sold once, that numbers have no gaps, and that the stock ledger is kept.    *)
EXTENDS Shop, CashProofs

QuoteSteppers == {"numbers", "converts", "converting", "marks"}

\* What a request in flight may rely on: registers and rows do not vanish, its
\* number is the next while it has it inserted, and so is the stock it counted
\* unless it has missed a change.
JobOK(j) ==
  /\ j.step \in {"sells", "selling"} =>
       j.quantity > 0 /\ (j.cash => j.register \in Registers /\ Exists(j.register))
  /\ j.step = "selling" =>
       j.number = NextNumber(Numbers("S")) /\ (~j.missed => stock[j.part] >= j.quantity)
  /\ j.step = "voids" =>
       Sold(j.sale) /\ (j.register \in Registers => Exists(j.register))
  /\ j.step \in QuoteSteppers => j.quantity > 0
  /\ j.step \in {"converts", "converting"} =>
       1 <= j.number /\ j.number <= NextNumber(Numbers("POS"))
  /\ j.step = "converting" =>
       /\ j.number = NextNumber(Numbers("POS"))
       /\ \A s \in SaleIds : Sold(s) => sale[s].quote # j.quote
  /\ j.step \in {"item", "receives"} => order[j.order] # NoOrder

OneAtATime(step) == \A v, w \in Workers : At(v, step) /\ At(w, step) => v = w

JobsOK ==
  /\ job \in [Workers -> Job \cup {NoJob}]
  /\ \A w \in Workers : ~Idle(w) => JobOK(job[w])
  /\ OneAtATime("selling") /\ OneAtATime("converting")

Consecutive(series) == \E k \in Nat : Numbers(series) = 1 .. k

NumberedOnce(series) ==
  \A s, t \in SaleIds :
    /\ Sold(s) /\ sale[s].series = series
    /\ Sold(t) /\ sale[t].series = series
    /\ sale[s].number = sale[t].number
    => s = t

SalesOK ==
  /\ SaleTypeOK
  /\ \A s \in SaleIds : Sold(s) => sale[s].quantity > 0
  /\ \A series \in Series : Consecutive(series) /\ NumberedOnce(series)
  /\ QuotationSoldOnce

ShopInv == CashInv /\ SalesOK /\ QuoteTypeOK /\ OrderTypeOK /\ JobsOK

-----------------------------------------------------------------------------
(* Numbers and requests. *)

\* After 1 to k comes k + 1.
LEMMA NextAfter ==
  ASSUME NEW k \in Nat
  PROVE  NextNumber(1 .. k) = k + 1
<1> DEFINE S == (1 .. k) \cup {0}
           h == CHOOSE n \in S : \A m \in S : m <= n
<1>1. k \in S /\ \A m \in S : m <= k
  OBVIOUS
<1>2. h \in S /\ \A m \in S : m <= h
  BY <1>1
<1>3. NextNumber(1 .. k) = 1 + h
  BY DEF NextNumber
<1> HIDE DEF h
<1>4. h = k
  BY <1>1, <1>2
<1> QED
  BY <1>3, <1>4

LEMMA NextOfSeries ==
  ASSUME SalesOK, NEW series \in Series
  PROVE  \E k \in Nat : Numbers(series) = 1 .. k /\ NextNumber(Numbers(series)) = k + 1
BY NextAfter DEF SalesOK, Consecutive

\* The fields a request has at each of its steps.
LEMMA JobFields ==
  ASSUME NEW j \in Job
  PROVE  /\ j # NoJob
         /\ j.step \in {"sells", "selling"} => j \in SaleJob
         /\ j.step = "voids" => j \in VoidJob
         /\ j.step \in QuoteSteppers => j \in ConvertJob
         /\ j.step \in {"status", "delete", "expire"} => j \in QuoteJob
         /\ j.step \in {"item", "receives"} => j \in OrderJob
<1>1. j # NoJob
  BY SalesAssumption, QuotationsAssumption, PurchasesAssumption DEF Job
<1>2. CASE j \in SaleJob
  BY <1>1, <1>2 DEF SaleJob, QuoteSteppers
<1>3. CASE j \in VoidJob
  BY <1>1, <1>3 DEF VoidJob, QuoteSteppers
<1>4. CASE j \in ConvertJob
  BY <1>1, <1>4 DEF ConvertJob, QuoteSteppers
<1>5. CASE j \in QuoteJob
  BY <1>1, <1>5 DEF QuoteJob, QuoteSteppers
<1>6. CASE j \in OrderJob
  BY <1>1, <1>6 DEF OrderJob, QuoteSteppers
<1> QED
  BY <1>2, <1>3, <1>4, <1>5, <1>6 DEF Job

\* Being told of a commit changes nothing but that it was missed.
Told(j, n) ==
  /\ j \in SaleJob /\ j.step = "selling" /\ n \in SaleJob /\ n.step = "selling" /\ n.missed
  /\ n.part = j.part /\ n.quantity = j.quantity /\ n.cash = j.cash
  /\ n.register = j.register /\ n.number = j.number

LEMMA ToldFacts ==
  ASSUME NEW j \in SaleJob, j.step = "selling" PROVE Told(j, [j EXCEPT !.missed = TRUE])
BY DEF SaleJob, Told

LEMMA NoticeFacts ==
  ASSUME NEW w, job[w] \in Job \cup {NoJob}, NEW parts, NEW registers,
         job'[w] = Notice(job[w], parts, registers)
  PROVE  \/ job'[w] = job[w] /\ (~Idle(w) /\ job[w].step = "selling" => job[w].part \notin parts)
         \/ Told(job[w], job'[w])
<1>1. CASE Misses(job[w], parts, registers)
  BY <1>1, JobFields, ToldFacts DEF Notice, Misses
<1>2. CASE ~Misses(job[w], parts, registers)
  BY <1>2 DEF Notice, Misses, Idle
<1> QED
  BY <1>1, <1>2

-----------------------------------------------------------------------------
(* Steps that write no sale, stock or register. *)

LEMMA SalesUntouched ==
  ASSUME SalesOK, UNCHANGED sale, UNCHANGED noted, stock' \in [Parts -> Int]
  PROVE  /\ SalesOK' /\ \A s \in SaleIds : Sold(s)' <=> Sold(s)
         /\ \A series \in Series : Numbers(series)' = Numbers(series)
BY DEF SalesOK, SaleTypeOK, Sold, Numbers, Consecutive, NumberedOnce, QuotationSoldOnce

\* Requests that read, fail or write quotations and orders.
LEMMA QuietKeeps ==
  ASSUME ShopInv, UNCHANGED <<counter, cashVars>>, QuoteTypeOK', OrderTypeOK',
         \A o \in Orders : order[o] # NoOrder => order'[o] # NoOrder,
         job' \in [Workers -> Job \cup {NoJob}],
         \A v \in Workers : job'[v] = job[v] \/ job'[v] = NoJob \/ JobOK(job'[v]),
         \A step \in {"selling", "converting"}, v \in Workers :
           At(v, step)' /\ ~At(v, step) => \A w \in Workers \ {v} : ~At(w, step)'
  PROVE  ShopInv'
<1>1. CashInv' /\ \A c \in Registers : Exists(c)' <=> Exists(c)
  BY CashUntouched DEF ShopInv, cashVars, Exists
<1>2. /\ SalesOK' /\ \A s \in SaleIds : Sold(s)' <=> Sold(s)
      /\ \A series \in Series : Numbers(series)' = Numbers(series)
      /\ sale' = sale /\ stock' = stock
  BY SalesUntouched DEF ShopInv, counter, SalesOK, SaleTypeOK
<1>3. Numbers("S")' = Numbers("S") /\ Numbers("POS")' = Numbers("POS")
  BY <1>2 DEF Series
<1>4. ASSUME NEW v \in Workers, job'[v] # NoJob PROVE JobOK(job[v])' /\ job'[v] \in Job
  <2>1. JobOK(job'[v]) /\ job'[v] \in Job
    BY <1>4 DEF ShopInv, JobsOK, Idle
  <2>2. /\ job'[v].step = "voids" => job'[v].sale \in SaleIds
        /\ job'[v].step \in {"item", "receives"} => job'[v].order \in Orders
    BY <2>1, JobFields DEF VoidJob, OrderJob
  <2> QED
    BY <1>1, <1>2, <1>3, <2>1, <2>2 DEF JobOK
<1>5. OneAtATime("selling")' /\ OneAtATime("converting")'
  BY DEF OneAtATime, ShopInv, JobsOK
<1> QED
  BY <1>1, <1>2, <1>4, <1>5 DEF ShopInv, JobsOK, Idle

LEMMA SilentKeeps ==
  ASSUME ShopInv, UNCHANGED <<counter, cashVars, quotation, orderVars>>,
         NEW w \in Workers, NEW next \in Job \cup {NoJob}, Takes(w, next),
         next # NoJob => JobOK(next),
         next # NoJob /\ next.step \in {"selling", "converting"} =>
           \A v \in Workers \ {w} : ~At(v, next.step)
  PROVE  ShopInv'
<1>1. /\ job'[w] = next /\ \A v \in Workers \ {w} : job'[v] = job[v]
      /\ job' \in [Workers -> Job \cup {NoJob}]
  BY DEF ShopInv, JobsOK, Takes
<1>2. QuoteTypeOK' /\ OrderTypeOK' /\ \A o \in Orders : order'[o] = order[o]
  BY DEF ShopInv, QuoteTypeOK, OrderTypeOK, orderVars
<1>3. \A step \in {"selling", "converting"}, v \in Workers :
        At(v, step)' /\ ~At(v, step) => \A u \in Workers \ {v} : ~At(u, step)'
  BY <1>1 DEF At, Idle
<1> QED
  BY <1>1, <1>2, <1>3, QuietKeeps

-----------------------------------------------------------------------------
(* Steps that write sales, stock or registers. *)

\* Requests in flight beside a commit are told of what it wrote, or are the one
\* that made it.
LEMMA JobsBesideCommit ==
  ASSUME ShopInv, NEW parts, NEW registers,
         job' = [v \in Workers |-> job'[v]],
         \A v \in Workers :
           \/ job'[v] = Notice(job[v], parts, registers)
           \/ job'[v] = NoJob
           \/ job'[v] \in ConvertJob /\ job'[v].step = "marks" /\ job'[v].quantity > 0,
         \A c \in Registers : Exists(c) => Exists(c)',
         \A s \in SaleIds : Sold(s) => Sold(s)',
         \A p \in Parts : p \notin parts => stock'[p] = stock[p],
         \A o \in Orders : order[o] # NoOrder => order'[o] # NoOrder,
         \A v \in Workers : At(v, "selling")' => Numbers("S")' = Numbers("S"),
         NextNumber(Numbers("POS")') \in Nat,
         NextNumber(Numbers("POS")) <= NextNumber(Numbers("POS")'),
         \A v \in Workers : At(v, "converting")' =>
           /\ Numbers("POS")' = Numbers("POS")
           /\ \A s \in SaleIds : Sold(s)' => sale'[s].quote # job'[v].quote
  PROVE  JobsOK'
<1>1. ASSUME NEW v \in Workers, job'[v] # NoJob
      PROVE  \/ job'[v] = job[v] /\ (job[v].step = "selling" => job[v].part \notin parts)
             \/ Told(job[v], job'[v])
             \/ job'[v] \in ConvertJob /\ job'[v].step = "marks" /\ job'[v].quantity > 0
  <2>1. job[v] \in Job \cup {NoJob}
    BY DEF ShopInv, JobsOK
  <2>2. CASE job'[v] = Notice(job[v], parts, registers)
    BY <1>1, <2>1, <2>2, NoticeFacts DEF Idle
  <2> QED
    BY <1>1, <2>2
<1>2. \A v \in Workers : job'[v] \in Job \cup {NoJob}
  BY <1>1 DEF Job, ShopInv, JobsOK, Told
<1>3. ASSUME NEW v \in Workers, job'[v] # NoJob PROVE JobOK(job[v])'
  <2>1. CASE job'[v] = job[v] /\ (job[v].step = "selling" => job[v].part \notin parts)
    <3>1. JobOK(job[v]) /\ job[v] \in Job
      BY <1>3, <2>1 DEF ShopInv, JobsOK, Idle
    <3>2. /\ job[v].step = "voids" => job[v].sale \in SaleIds
          /\ job[v].step \in {"item", "receives"} => job[v].order \in Orders
          /\ job[v].step \in {"sells", "selling"} => job[v].part \in Parts
          /\ job[v].step \in QuoteSteppers => job[v].number \in Nat
      BY <3>1, JobFields DEF VoidJob, OrderJob, SaleJob, ConvertJob
    <3>3. \A step \in {"selling", "converting"} : job[v].step = step => At(v, step)'
      BY <1>3, <2>1 DEF At, Idle
    <3>4. NextNumber(Numbers("POS")) \in Nat
      <4>1. "POS" \in Series
        BY DEF Series
      <4> QED
        BY <4>1, NextOfSeries DEF ShopInv
    <3>5. /\ job[v].step = "selling" => Numbers("S")' = Numbers("S")
          /\ job[v].step = "converting" =>
               /\ Numbers("POS")' = Numbers("POS")
               /\ \A s \in SaleIds : Sold(s)' => sale'[s].quote # job[v].quote
      BY <2>1, <3>3
    <3>6. job[v].step = "selling" => stock'[job[v].part] = stock[job[v].part]
      BY <2>1, <3>2
    <3> QED
      BY <2>1, <3>1, <3>2, <3>4, <3>5, <3>6 DEF JobOK, QuoteSteppers
  <2>2. CASE Told(job[v], job'[v])
    <3>1. JobOK(job[v]) /\ At(v, "selling")'
      BY <1>3, <2>2, SalesAssumption DEF ShopInv, JobsOK, Idle, At, Told
    <3> QED
      BY <2>2, <3>1 DEF JobOK, QuoteSteppers, Told
  <2>3. CASE job'[v] \in ConvertJob /\ job'[v].step = "marks" /\ job'[v].quantity > 0
    BY <2>3 DEF JobOK
  <2> QED
    BY <1>1, <1>3, <2>1, <2>2, <2>3
<1>4. ASSUME NEW step \in {"selling", "converting"} PROVE OneAtATime(step)'
  <2>1. \A v \in Workers : At(v, step)' => At(v, step)
    <3> SUFFICES ASSUME NEW v \in Workers, At(v, step)' PROVE At(v, step)
      OBVIOUS
    <3>1. job'[v] # NoJob /\ job'[v].step = step
      BY DEF At, Idle
    <3>2. job[v].step = step /\ job[v] # NoJob
      BY <1>1, <3>1, SalesAssumption DEF Told
    <3> QED
      BY <3>2 DEF At, Idle
  <2> QED
    BY <2>1 DEF ShopInv, JobsOK, OneAtATime
<1> QED
  BY <1>2, <1>3, <1>4 DEF JobsOK, Idle

\* A sale that takes the next number of its series, and the quotation of no other.
LEMMA SaleAdded ==
  ASSUME SalesOK, NEW s \in SaleIds, ~Sold(s), NEW row \in SaleRow, row.quantity > 0,
         sale' = [sale EXCEPT ![s] = row], UNCHANGED noted, stock' \in [Parts -> Int],
         row.number = NextNumber(Numbers(row.series)),
         \A t \in SaleIds : Sold(t) => row.quote = NoQuote \/ sale[t].quote # row.quote
  PROVE  /\ SalesOK'
         /\ Sold(s)' /\ sale'[s] = row
         /\ \A t \in SaleIds \ {s} : sale'[t] = sale[t]
         /\ \A t \in SaleIds : Sold(t) => Sold(t)' /\ t # s
         /\ \A series \in Series : series # row.series => Numbers(series)' = Numbers(series)
         /\ NextNumber(Numbers(row.series)') = NextNumber(Numbers(row.series)) + 1
<1>1. /\ sale'[s] = row /\ \A t \in SaleIds \ {s} : sale'[t] = sale[t]
      /\ sale' \in [SaleIds -> SaleRow \cup {NoSale}]
  BY DEF SalesOK, SaleTypeOK
<1>2. row # NoSale /\ row.series \in Series
  BY SalesAssumption DEF SaleRow
<1>3. Sold(s)' /\ \A t \in SaleIds \ {s} : Sold(t)' <=> Sold(t)
  BY <1>1, <1>2 DEF Sold
<1>4. \A series \in Series : series # row.series => Numbers(series)' = Numbers(series)
  BY <1>1, <1>3 DEF Numbers
<1>5. PICK k \in Nat : /\ Numbers(row.series) = 1 .. k
                       /\ NextNumber(Numbers(row.series)) = k + 1
  BY <1>2, NextOfSeries
<1>6. Numbers(row.series)' = Numbers(row.series) \cup {row.number}
  BY <1>1, <1>3 DEF Numbers
<1>7. Numbers(row.series)' = 1 .. k + 1
  BY <1>5, <1>6
<1>8. NextNumber(1 .. k + 1) = k + 1 + 1
  BY NextAfter
<1>9. NextNumber(Numbers(row.series)') = NextNumber(Numbers(row.series)) + 1
  BY <1>5, <1>7, <1>8
<1>10. SaleTypeOK' /\ \A t \in SaleIds : Sold(t)' => sale'[t].quantity > 0
  BY <1>1, <1>3 DEF SalesOK, SaleTypeOK
<1>11. ASSUME NEW series \in Series PROVE Consecutive(series)'
  BY <1>4, <1>7 DEF SalesOK, Consecutive
<1>12. ASSUME NEW series \in Series PROVE NumberedOnce(series)'
  <2>1. \A t \in SaleIds : Sold(t) /\ sale[t].series = row.series => sale[t].number \in 1 .. k
    BY <1>5 DEF Numbers
  <2>2. \A t \in SaleIds : Sold(t) /\ sale[t].series = row.series => sale[t].number # row.number
    BY <1>5, <2>1
  <2> QED
    BY <1>1, <1>3, <2>2 DEF SalesOK, NumberedOnce
<1>13. QuotationSoldOnce'
  BY <1>1, <1>3 DEF SalesOK, QuotationSoldOnce
<1>14. \A t \in SaleIds : Sold(t) => Sold(t)' /\ t # s
  BY <1>3
<1> QED
  BY <1>1, <1>3, <1>4, <1>9, <1>10, <1>11, <1>12, <1>13, <1>14 DEF SalesOK

\* What being told of a commit leaves of a request's step.
LEMMA StillAt ==
  ASSUME ShopInv, NEW v \in Workers, NEW parts, NEW registers,
         job'[v] = Notice(job[v], parts, registers), NEW step, At(v, step)'
  PROVE  At(v, step) /\ (step # "selling" => job'[v] = job[v])
<1>1. job'[v] # NoJob /\ job'[v].step = step /\ job[v] \in Job \cup {NoJob}
  BY DEF At, Idle, ShopInv, JobsOK
<1> QED
  BY <1>1, NoticeFacts, SalesAssumption DEF Told, At, Idle

LEMMA SaleCommitKeeps ==
  ASSUME ShopInv, UNCHANGED <<quotation, orderVars>>, NEW w \in Workers, SaleCommits(w)
  PROVE  ShopInv'
<1> DEFINE j == job[w]
           row == NewSale(j, "S", NoQuote)
<1>1. j \in SaleJob /\ JobOK(j) /\ j.step = "selling" /\ ~j.missed
  BY JobFields DEF SaleCommits, At, Idle, ShopInv, JobsOK
<1>2. PICK s \in SaleIds : ~Sold(s) /\ sale' = [sale EXCEPT ![s] = row]
  BY DEF SaleCommits, FreshSales
<1>3. /\ stock' = [stock EXCEPT ![j.part] = stock[j.part] - j.quantity]
      /\ IF j.cash THEN RecordEntry(j.register, "INCOME", j.quantity)
                   ELSE UNCHANGED <<register, entries>>
      /\ Commits(w, NoJob, {j.part}, {j.register})
      /\ UNCHANGED <<noted, call>>
  BY DEF SaleCommits
<1>4. /\ j.part \in Parts /\ j.quantity \in Nat /\ j.cash \in BOOLEAN /\ j.number \in Nat
      /\ j.quantity > 0 /\ (j.cash => j.register \in Registers /\ Exists(j.register))
      /\ j.number = NextNumber(Numbers("S"))
  BY <1>1 DEF JobOK, SaleJob
<1>5. stock \in [Parts -> Int] /\ CashInv /\ SalesOK
  BY DEF ShopInv, SalesOK, SaleTypeOK
<1>6. /\ row \in SaleRow /\ row.quantity > 0 /\ row.series = "S" /\ row.quote = NoQuote
      /\ row.number = NextNumber(Numbers("S"))
  BY <1>4 DEF NewSale, SaleRow, SaleStatus, Series
<1>7. stock' \in [Parts -> Int] /\ \A p \in Parts \ {j.part} : stock'[p] = stock[p]
  BY <1>3, <1>4, <1>5
<1>8. CashInv' /\ \A c \in Registers : Exists(c) => Exists(c)'
  <2>1. CASE j.cash
    BY <1>3, <1>4, <1>5, <2>1, CashCommits DEF EntryTypes
  <2>2. CASE ~j.cash
    BY <1>3, <1>5, <2>2, CashUntouched DEF cashVars, Exists
  <2> QED
    BY <2>1, <2>2
<1> HIDE DEF row
<1>9. /\ SalesOK' /\ Sold(s)' /\ sale'[s] = row
      /\ \A t \in SaleIds \ {s} : sale'[t] = sale[t]
      /\ \A t \in SaleIds : Sold(t) => Sold(t)' /\ t # s
      /\ Numbers("POS")' = Numbers("POS")
  BY <1>2, <1>3, <1>5, <1>6, <1>7, SaleAdded DEF Series
<1>10. /\ job' = [v \in Workers |-> job'[v]] /\ job'[w] = NoJob
       /\ \A v \in Workers \ {w} : job'[v] = Notice(job[v], {j.part}, {j.register})
  BY <1>3 DEF Commits
<1>11. NextNumber(Numbers("POS")) \in Nat
  BY <1>5, NextOfSeries DEF Series
<1>12. JobsOK'
  <2>1. ASSUME NEW v \in Workers, At(v, "selling")' PROVE FALSE
    <3>1. v # w /\ job'[v] # NoJob /\ job'[v].step = "selling"
      BY <1>10, <2>1 DEF At, Idle
    <3>2. At(v, "selling")
      BY <1>10, <2>1, <3>1, StillAt
    <3> QED
      BY <3>1, <3>2 DEF SaleCommits, ShopInv, JobsOK, OneAtATime
  <2>2. ASSUME NEW v \in Workers, At(v, "converting")'
        PROVE  \A t \in SaleIds : Sold(t)' => sale'[t].quote # job'[v].quote
    <3>1. v # w /\ job'[v] # NoJob /\ job'[v].step = "converting"
      BY <1>10, <2>2 DEF At, Idle
    <3>3. job'[v] = job[v]
      BY <1>10, <2>2, <3>1, StillAt
    <3>4. JobOK(job[v]) /\ job[v] \in ConvertJob
      BY <3>1, <3>3, JobFields DEF ShopInv, JobsOK, Idle, QuoteSteppers
    <3>5. job[v].quote # NoQuote
      BY <3>4, SalesAssumption DEF ConvertJob
    <3>6. \A t \in SaleIds : Sold(t) => sale[t].quote # job[v].quote
      BY <3>1, <3>3, <3>4 DEF JobOK
    <3> QED
      BY <1>6, <1>9, <3>3, <3>5, <3>6 DEF Sold
  <2>3. \A o \in Orders : order[o] # NoOrder => order'[o] # NoOrder
    BY DEF orderVars
  <2> QED
    BY <1>7, <1>8, <1>9, <1>10, <1>11, <2>1, <2>2, <2>3, JobsBesideCommit
<1>13. QuoteTypeOK' /\ OrderTypeOK'
  BY DEF ShopInv, QuoteTypeOK, OrderTypeOK, orderVars
<1> QED
  BY <1>8, <1>9, <1>12, <1>13 DEF ShopInv
LEMMA ConvertCommitKeeps ==
  ASSUME ShopInv, UNCHANGED orderVars, NEW w \in Workers, ConvertCommits(w)
  PROVE  ShopInv'
<1> DEFINE j == job[w]
           next == [j EXCEPT !.step = "marks"]
<1>1. j \in ConvertJob /\ JobOK(j) /\ j.step = "converting"
  BY JobFields DEF ConvertCommits, At, Idle, ShopInv, JobsOK, QuoteSteppers
<1>2. PICK s \in SaleIds :
        ~Sold(s) /\ sale' = [sale EXCEPT ![s] = NewSale(j, "POS", j.quote)]
  BY DEF ConvertCommits, FreshSales
<1>3. /\ stock' = [stock EXCEPT ![j.part] = stock[j.part] - j.quantity]
      /\ Commits(w, next, {j.part}, {})
      /\ UNCHANGED <<noted, cashVars, quotation>>
  BY DEF ConvertCommits
<1>4. /\ j.part \in Parts /\ j.quantity \in Nat /\ j.cash \in BOOLEAN /\ j.number \in Nat
      /\ j.quantity > 0 /\ j.quote \in Quotes /\ j.number = NextNumber(Numbers("POS"))
      /\ \A t \in SaleIds : Sold(t) => sale[t].quote # j.quote
  BY <1>1 DEF JobOK, ConvertJob, QuoteSteppers
<1>5. stock \in [Parts -> Int] /\ CashInv /\ SalesOK
  BY DEF ShopInv, SalesOK, SaleTypeOK
<1>6. PICK row \in SaleRow :
        /\ row = NewSale(j, "POS", j.quote)
        /\ row.quantity > 0 /\ row.series = "POS" /\ row.quote = j.quote
        /\ row.number = NextNumber(Numbers("POS"))
  <2> DEFINE new == NewSale(j, "POS", j.quote)
  <2>1. /\ new \in SaleRow /\ new.quantity > 0 /\ new.series = "POS" /\ new.quote = j.quote
        /\ new.number = NextNumber(Numbers("POS"))
    BY <1>4 DEF NewSale, SaleRow, SaleStatus, Series
  <2> HIDE DEF new
  <2>2. \E row \in SaleRow : row = new
    BY <2>1
  <2> QED
    BY <2>1, <2>2 DEF new
<1>7. stock' \in [Parts -> Int] /\ \A p \in Parts \ {j.part} : stock'[p] = stock[p]
  BY <1>3, <1>4, <1>5
<1>8. CashInv' /\ \A c \in Registers : Exists(c) => Exists(c)'
  BY <1>3, <1>5, CashUntouched DEF cashVars, Exists
<1>9. /\ SalesOK' /\ Sold(s)' /\ sale'[s] = row
      /\ \A t \in SaleIds \ {s} : sale'[t] = sale[t]
      /\ \A t \in SaleIds : Sold(t) => Sold(t)' /\ t # s
      /\ Numbers("S")' = Numbers("S")
      /\ NextNumber(Numbers("POS")') = NextNumber(Numbers("POS")) + 1
  <2>1. \A t \in SaleIds : Sold(t) => row.quote = NoQuote \/ sale[t].quote # row.quote
    BY <1>4, <1>6
  <2>2. UNCHANGED noted /\ row.number = NextNumber(Numbers(row.series))
    BY <1>3, <1>6
  <2>3. /\ SalesOK' /\ Sold(s)' /\ sale'[s] = row
        /\ \A t \in SaleIds \ {s} : sale'[t] = sale[t]
        /\ \A t \in SaleIds : Sold(t) => Sold(t)' /\ t # s
        /\ \A series \in Series : series # row.series => Numbers(series)' = Numbers(series)
        /\ NextNumber(Numbers(row.series)') = NextNumber(Numbers(row.series)) + 1
    <3>1. sale' = [sale EXCEPT ![s] = row]
      BY <1>2, <1>6
    <3> QED
      BY <1>2, <1>5, <1>6, <1>7, <2>1, <2>2, <3>1, SaleAdded
  <2> QED
    BY <1>6, <2>3 DEF Series
<1>10. next \in ConvertJob /\ next.step = "marks" /\ next.quantity > 0 /\ next # NoJob
  BY <1>1, <1>4, QuotationsAssumption DEF ConvertJob
<1> HIDE DEF next
<1>11. /\ job' = [v \in Workers |-> job'[v]] /\ job'[w] = next
       /\ \A v \in Workers \ {w} : job'[v] = Notice(job[v], {j.part}, {})
  BY <1>3 DEF Commits
<1>12. NextNumber(Numbers("POS")) \in Nat
  BY <1>5, NextOfSeries DEF Series
<1>13. JobsOK'
  <2>1. ASSUME NEW v \in Workers, At(v, "converting")' PROVE FALSE
    <3>1. v # w
      BY <1>10, <1>11, <2>1 DEF At
    <3>2. At(v, "converting")
      BY <1>11, <2>1, <3>1, StillAt
    <3> QED
      BY <3>1, <3>2 DEF ConvertCommits, ShopInv, JobsOK, OneAtATime
  <2>2. \A o \in Orders : order[o] # NoOrder => order'[o] # NoOrder
    BY DEF orderVars
  <2>3. /\ NextNumber(Numbers("POS")') \in Nat
        /\ NextNumber(Numbers("POS")) <= NextNumber(Numbers("POS")')
    BY <1>9, <1>12
  <2>4. \A v \in Workers :
           \/ job'[v] = Notice(job[v], {j.part}, {})
           \/ job'[v] = NoJob
           \/ job'[v] \in ConvertJob /\ job'[v].step = "marks" /\ job'[v].quantity > 0
    BY <1>10, <1>11
  <2> QED
    BY <1>7, <1>8, <1>9, <1>11, <2>1, <2>2, <2>3, <2>4, JobsBesideCommit
<1>14. QuoteTypeOK' /\ OrderTypeOK'
  BY <1>3 DEF ShopInv, QuoteTypeOK, OrderTypeOK, orderVars
<1> QED
  BY <1>8, <1>9, <1>13, <1>14 DEF ShopInv

\* A sale that is voided, or that forgets its quotation.
LEMMA SaleUpdated ==
  ASSUME SalesOK, sale' \in [SaleIds -> SaleRow \cup {NoSale}],
         UNCHANGED noted, stock' \in [Parts -> Int],
         \A t \in SaleIds : Sold(t)' <=> Sold(t),
         \A t \in SaleIds : Sold(t) =>
           /\ sale'[t].quantity = sale[t].quantity /\ sale'[t].series = sale[t].series
           /\ sale'[t].number = sale[t].number
           /\ sale'[t].quote \in {sale[t].quote, NoQuote}
  PROVE  SalesOK' /\ \A series \in Series : Numbers(series)' = Numbers(series)
<1>1. ASSUME NEW series \in Series PROVE Numbers(series)' = Numbers(series)
  BY DEF Numbers
<1>2. SaleTypeOK' /\ \A t \in SaleIds : Sold(t)' => sale'[t].quantity > 0
  BY DEF SalesOK, SaleTypeOK
<1>3. ASSUME NEW series \in Series PROVE Consecutive(series)' /\ NumberedOnce(series)'
  BY <1>1 DEF SalesOK, Consecutive, NumberedOnce
<1>4. QuotationSoldOnce'
  BY DEF SalesOK, QuotationSoldOnce
<1> QED
  BY <1>1, <1>2, <1>3, <1>4 DEF SalesOK

\* A commit that leaves the numbers and the quotations of the sales alone, or
\* makes a sale forget its quotation.
LEMMA OtherCommitKeeps ==
  ASSUME ShopInv, CashInv', \A c \in Registers : Exists(c) => Exists(c)',
         SalesOK', QuoteTypeOK', OrderTypeOK',
         \A o \in Orders : order[o] # NoOrder => order'[o] # NoOrder,
         \A t \in SaleIds : Sold(t)' <=> Sold(t),
         \A t \in SaleIds : Sold(t) => sale'[t].quote \in {sale[t].quote, NoQuote},
         \A series \in Series : Numbers(series)' = Numbers(series),
         NEW parts, NEW registers, job' = [v \in Workers |-> job'[v]],
         \A v \in Workers : job'[v] = Notice(job[v], parts, registers) \/ job'[v] = NoJob,
         \A p \in Parts : p \notin parts => stock'[p] = stock[p]
  PROVE  ShopInv'
<1>1. Numbers("S")' = Numbers("S") /\ Numbers("POS")' = Numbers("POS")
  BY DEF Series
<1>2. NextNumber(Numbers("POS")) \in Nat
  BY NextOfSeries DEF Series, ShopInv
<1>3. ASSUME NEW v \in Workers, At(v, "converting")'
      PROVE  \A t \in SaleIds : Sold(t)' => sale'[t].quote # job'[v].quote
  <2>1. job'[v] = Notice(job[v], parts, registers)
    BY <1>3 DEF At, Idle
  <2>2. At(v, "converting") /\ job'[v] = job[v]
    BY <1>3, <2>1, StillAt
  <2>3. JobOK(job[v]) /\ job[v] \in ConvertJob /\ job[v].step = "converting"
    BY <2>2, JobFields DEF At, Idle, ShopInv, JobsOK, QuoteSteppers
  <2>4. job[v].quote # NoQuote /\ \A t \in SaleIds : Sold(t) => sale[t].quote # job[v].quote
    BY <2>3, SalesAssumption DEF ConvertJob, JobOK
  <2> QED
    BY <2>2, <2>4
<1>4. JobsOK'
  BY <1>1, <1>2, <1>3, JobsBesideCommit
<1> QED
  BY <1>4 DEF ShopInv
LEMMA VoidCommitKeeps ==
  ASSUME ShopInv, UNCHANGED <<quotation, orderVars>>, NEW w \in Workers, VoidCommits(w)
  PROVE  ShopInv' /\ job[w].sale \in SaleIds /\ Sold(job[w].sale)
<1> DEFINE s == job[w].sale
           c == job[w].register
           row == [sale[s] EXCEPT !.status = "VOIDED"]
           parts == IF stock' = stock THEN {} ELSE {sale[s].part}
<1>1. job[w] \in VoidJob /\ JobOK(job[w]) /\ job[w].step = "voids"
  BY JobFields DEF VoidCommits, At, Idle, ShopInv, JobsOK
<1>2. /\ s \in SaleIds /\ c \in Registers \cup {NoRegister}
      /\ Sold(s) /\ (c \in Registers => Exists(c))
  BY <1>1 DEF JobOK, VoidJob
<1>3. /\ sale' = [sale EXCEPT ![s] = row]
      /\ stock' = Restock(s, "VOIDED")
      /\ IF c \in Registers THEN RecordEntry(c, "EXPENSE", sale[s].quantity)
                            ELSE UNCHANGED <<register, entries>>
      /\ Commits(w, NoJob, parts, {c})
      /\ UNCHANGED <<noted, call>>
  BY DEF VoidCommits
<1>4. stock \in [Parts -> Int] /\ CashInv /\ SalesOK /\ sale \in [SaleIds -> SaleRow \cup {NoSale}]
  BY DEF ShopInv, SalesOK, SaleTypeOK
<1>5. sale[s] \in SaleRow
  BY <1>2, <1>4 DEF Sold
<1>6. /\ row \in SaleRow /\ row.quantity = sale[s].quantity /\ row.series = sale[s].series
      /\ row.number = sale[s].number /\ row.quote = sale[s].quote
      /\ sale[s].part \in Parts /\ sale[s].quantity \in Nat
  BY <1>5 DEF SaleRow, SaleStatus
<1>7. /\ stock' \in [Parts -> Int]
      /\ \A p \in Parts : p \notin parts => stock'[p] = stock[p]
  <2>1. CASE sale[s].status = "VOIDED"
    BY <1>3, <1>4, <2>1 DEF Restock
  <2>2. CASE sale[s].status # "VOIDED"
    <3>1. stock' = [stock EXCEPT ![sale[s].part] = stock[sale[s].part] + sale[s].quantity]
      BY <1>3, <2>2 DEF Restock
    <3>2. stock[sale[s].part] + sale[s].quantity \in Int
      BY <1>4, <1>6
    <3> QED
      BY <1>4, <3>1, <3>2
  <2> QED
    BY <2>1, <2>2
<1>8. CashInv' /\ \A d \in Registers : Exists(d) => Exists(d)'
  <2>1. CASE c \in Registers
    BY <1>2, <1>3, <1>4, <1>6, <2>1, CashCommits DEF EntryTypes
  <2>2. CASE c \notin Registers
    BY <1>3, <1>4, <2>2, CashUntouched DEF cashVars, Exists
  <2> QED
    BY <2>1, <2>2
<1> HIDE DEF row, parts
<1>9. /\ sale'[s] = row /\ \A t \in SaleIds \ {s} : sale'[t] = sale[t]
      /\ sale' \in [SaleIds -> SaleRow \cup {NoSale}]
  BY <1>2, <1>3, <1>4, <1>6
<1>10. \A t \in SaleIds : Sold(t)' <=> Sold(t)
  BY <1>2, <1>6, <1>9, SalesAssumption DEF Sold
<1>11. \A t \in SaleIds : Sold(t) =>
           /\ sale'[t].quantity = sale[t].quantity /\ sale'[t].series = sale[t].series
           /\ sale'[t].number = sale[t].number
           /\ sale'[t].quote \in {sale[t].quote, NoQuote}
  BY <1>6, <1>9
<1>12. SalesOK' /\ \A series \in Series : Numbers(series)' = Numbers(series)
  BY <1>3, <1>4, <1>7, <1>9, <1>10, <1>11, SaleUpdated
<1>13. /\ job' = [v \in Workers |-> job'[v]]
       /\ \A v \in Workers : job'[v] = Notice(job[v], parts, {c}) \/ job'[v] = NoJob
  BY <1>3 DEF Commits
<1>14. QuoteTypeOK' /\ OrderTypeOK' /\ \A o \in Orders : order[o] # NoOrder => order'[o] # NoOrder
  BY DEF ShopInv, QuoteTypeOK, OrderTypeOK, orderVars
<1>15. ShopInv'
  BY <1>7, <1>8, <1>10, <1>11, <1>12, <1>13, <1>14, OtherCommitKeeps
<1> QED
  BY <1>2, <1>15

LEMMA RegisteringKeeps ==
  ASSUME ShopInv, UNCHANGED <<quotation, orderVars>>, Registering
  PROVE  ShopInv'
<1> DEFINE changed == {c \in Registers : register'[c] # register[c]}
<1>1. CashInv' /\ \A c \in Registers : Exists(c) => Exists(c)'
  BY CashStepKeeps DEF Registering, ShopInv
<1>2. stock' = stock /\ sale' = sale /\ noted' = noted
  BY DEF Registering, counter
<1>3. /\ SalesOK' /\ \A s \in SaleIds : Sold(s)' <=> Sold(s)
      /\ \A series \in Series : Numbers(series)' = Numbers(series)
  BY <1>2, SalesUntouched DEF ShopInv, SalesOK, SaleTypeOK
<1>4. job' = [v \in Workers |-> Notice(job[v], {}, changed)]
  BY DEF Registering
<1> HIDE DEF changed
<1>5. /\ job' = [v \in Workers |-> job'[v]]
      /\ \A v \in Workers : job'[v] = Notice(job[v], {}, changed) \/ job'[v] = NoJob
  BY <1>4
<1>6. QuoteTypeOK' /\ OrderTypeOK' /\ \A o \in Orders : order[o] # NoOrder => order'[o] # NoOrder
  BY DEF ShopInv, QuoteTypeOK, OrderTypeOK, orderVars
<1> QED
  BY <1>1, <1>2, <1>3, <1>5, <1>6, OtherCommitKeeps

LEMMA ReceiveCommitKeeps ==
  ASSUME ShopInv, UNCHANGED quotation, NEW w \in Workers, ReceiveCommits(w)
  PROVE  ShopInv' /\ job[w].due \in [Parts -> Nat]
<1> DEFINE due == job[w].due
           o == job[w].order
           row == [order[o] EXCEPT !.status = "RECEIVED"]
           parts == {p \in Parts : due[p] > 0}
<1>1. job[w] \in OrderJob /\ JobOK(job[w]) /\ job[w].step = "receives"
  BY JobFields DEF ReceiveCommits, At, Idle, ShopInv, JobsOK
<1>2. due \in [Parts -> Nat] /\ o \in Orders /\ order[o] # NoOrder
  BY <1>1 DEF JobOK, OrderJob
<1>3. /\ stock' = [p \in Parts |-> stock[p] + due[p]]
      /\ delivered' = [p \in Parts |-> delivered[p] + due[p]]
      /\ order' = [order EXCEPT ![o] = row]
      /\ Commits(w, NoJob, parts, {})
      /\ UNCHANGED <<sale, noted, cashVars>>
  BY DEF ReceiveCommits
<1>4. /\ stock \in [Parts -> Int] /\ CashInv /\ SalesOK /\ delivered \in [Parts -> Nat]
      /\ order \in [Orders -> OrderRow \cup {NoOrder}]
  BY DEF ShopInv, SalesOK, SaleTypeOK, OrderTypeOK
<1>5. row \in OrderRow /\ row # NoOrder
  BY <1>2, <1>4, PurchasesAssumption DEF OrderRow
<1>6. stock' \in [Parts -> Int] /\ delivered' \in [Parts -> Nat]
  BY <1>2, <1>3, <1>4
<1>7. \A p \in Parts : p \notin parts => stock'[p] = stock[p]
  <2> SUFFICES ASSUME NEW p \in Parts, p \notin parts PROVE stock'[p] = stock[p]
    OBVIOUS
  <2>1. due[p] = 0 /\ stock[p] \in Int
    BY <1>2, <1>4
  <2> QED
    BY <1>3, <2>1
<1> HIDE DEF row, due, parts
<1>8. /\ OrderTypeOK' /\ QuoteTypeOK'
      /\ \A q \in Orders : order[q] # NoOrder => order'[q] # NoOrder
  BY <1>2, <1>3, <1>4, <1>5, <1>6 DEF ShopInv, OrderTypeOK, QuoteTypeOK
<1>9. CashInv' /\ \A c \in Registers : Exists(c) => Exists(c)'
  BY <1>3, <1>4, CashUntouched DEF cashVars, Exists
<1>10. /\ SalesOK' /\ \A s \in SaleIds : Sold(s)' <=> Sold(s)
       /\ \A series \in Series : Numbers(series)' = Numbers(series)
  BY <1>3, <1>4, <1>6, SalesUntouched
<1>11. /\ job' = [v \in Workers |-> job'[v]]
       /\ \A v \in Workers : job'[v] = Notice(job[v], parts, {}) \/ job'[v] = NoJob
  BY <1>3 DEF Commits
<1>12. ShopInv'
  BY <1>3, <1>7, <1>8, <1>9, <1>10, <1>11, OtherCommitKeeps
<1> QED
  BY <1>2, <1>12 DEF due

LEMMA DeleteWriteKeeps ==
  ASSUME ShopInv, UNCHANGED orderVars, NEW w \in Workers, DeleteWrites(w)
  PROVE  ShopInv' /\ \A t \in SaleIds : sale'[t] # sale[t] =>
                       Sold(t) /\ sale'[t] = [sale[t] EXCEPT !.quote = NoQuote]
<1> DEFINE q == job[w].quote
<1>1. /\ quotation' = [quotation EXCEPT ![q] = Deleted]
      /\ sale' = [s \in SaleIds |-> IF Sold(s) /\ sale[s].quote = q
                                      THEN [sale[s] EXCEPT !.quote = NoQuote] ELSE sale[s]]
      /\ Takes(w, NoJob)
      /\ UNCHANGED <<stock, noted, cashVars>>
  BY DEF DeleteWrites
<1> HIDE DEF q
<1>2. /\ stock \in [Parts -> Int] /\ CashInv /\ SalesOK
      /\ sale \in [SaleIds -> SaleRow \cup {NoSale}]
  BY DEF ShopInv, SalesOK, SaleTypeOK
<1>3. ASSUME NEW t \in SaleIds
      PROVE  /\ sale'[t] \in SaleRow \cup {NoSale} /\ (Sold(t)' <=> Sold(t))
             /\ Sold(t) => /\ sale'[t].quantity = sale[t].quantity
                           /\ sale'[t].series = sale[t].series
                           /\ sale'[t].number = sale[t].number
                           /\ sale'[t].quote \in {sale[t].quote, NoQuote}
             /\ sale'[t] # sale[t] => Sold(t) /\ sale'[t] = [sale[t] EXCEPT !.quote = NoQuote]
  <2>1. CASE Sold(t) /\ sale[t].quote = q
    <3>1. sale'[t] = [sale[t] EXCEPT !.quote = NoQuote] /\ sale[t] \in SaleRow
      BY <1>1, <1>2, <2>1 DEF Sold
    <3>2. /\ sale'[t] \in SaleRow /\ sale'[t].quantity = sale[t].quantity
          /\ sale'[t].series = sale[t].series /\ sale'[t].number = sale[t].number
          /\ sale'[t].quote = NoQuote
      BY <3>1 DEF SaleRow
    <3> QED
      BY <2>1, <3>1, <3>2, SalesAssumption DEF Sold
  <2>2. CASE ~(Sold(t) /\ sale[t].quote = q)
    <3>1. sale'[t] = sale[t]
      BY <1>1, <2>2
    <3> QED
      BY <1>2, <3>1 DEF Sold
  <2> QED
    BY <2>1, <2>2
<1>4. sale' \in [SaleIds -> SaleRow \cup {NoSale}]
  BY <1>1, <1>3
<1>5. SalesOK' /\ \A series \in Series : Numbers(series)' = Numbers(series)
  BY <1>1, <1>2, <1>3, <1>4, SaleUpdated
<1>6. CashInv' /\ \A c \in Registers : Exists(c) => Exists(c)'
  BY <1>1, <1>2, CashUntouched DEF cashVars, Exists
<1>7. /\ job' = [v \in Workers |-> job'[v]]
      /\ \A v \in Workers : job'[v] = Notice(job[v], {}, {}) \/ job'[v] = NoJob
  BY <1>1 DEF Takes, Notice, Misses, ShopInv, JobsOK
<1>8. /\ QuoteTypeOK' /\ OrderTypeOK' /\ stock' = stock
      /\ \A o \in Orders : order[o] # NoOrder => order'[o] # NoOrder
  BY <1>1 DEF ShopInv, QuoteTypeOK, OrderTypeOK, orderVars
<1>9. /\ \A t \in SaleIds : Sold(t)' <=> Sold(t)
      /\ \A t \in SaleIds : Sold(t) => sale'[t].quote \in {sale[t].quote, NoQuote}
  BY <1>3
<1>10. ShopInv'
  BY <1>5, <1>6, <1>7, <1>8, <1>9, OtherCommitKeeps
<1> QED
  BY <1>3, <1>10
-----------------------------------------------------------------------------
(* The other steps. *)

LEMMA ReadsKeep ==
  ASSUME ShopInv, UNCHANGED <<quotation, orderVars>>, NEW w \in Workers,
         \/ \E p \in Parts, n \in Quantities, cash \in BOOLEAN : SaleReads(w, p, n, cash)
         \/ \E s \in SaleIds : VoidReads(w, s)
         \/ \E q \in Quotes, to \in QuoteStatus : StatusReads(w, q, to)
         \/ \E q \in Quotes : DeleteReads(w, q)
         \/ \E q \in Quotes, cash \in BOOLEAN : ConvertReads(w, q, cash)
         \/ CronReads(w)
         \/ \E o \in Orders, p \in Parts, n \in Quantities : ItemReads(w, o, p, n)
         \/ \E o \in Orders : ReceiveReads(w, o)
         \/ Fails(w)
  PROVE  ShopInv'
<1> USE SalesAssumption, QuotationsAssumption, PurchasesAssumption
<1>1. ASSUME NEW p \in Parts, NEW n \in Quantities, NEW cash \in BOOLEAN,
             SaleReads(w, p, n, cash)
      PROVE  ShopInv'
  <2>1. PICK c \in Registers \cup {NoRegister} :
          /\ cash => c \in Registers /\ Exists(c)
          /\ Takes(w, [step |-> "sells", part |-> p, quantity |-> n, cash |-> cash,
                       register |-> c, number |-> 0, missed |-> FALSE])
    BY <1>1 DEF SaleReads, IsOpen
  <2> DEFINE next == [step |-> "sells", part |-> p, quantity |-> n, cash |-> cash,
                      register |-> c, number |-> 0, missed |-> FALSE]
  <2>2. next \in Job /\ next.step = "sells" /\ n > 0
    BY DEF SaleJob, Job
  <2>3. JobOK(next)
    BY <2>1, <2>2 DEF JobOK, QuoteSteppers
  <2>4. Takes(w, next) /\ UNCHANGED <<counter, cashVars>>
    BY <1>1, <2>1 DEF SaleReads
  <2> HIDE DEF next
  <2> QED
    BY <2>2, <2>3, <2>4, SilentKeeps
<1>2. ASSUME NEW s \in SaleIds, VoidReads(w, s) PROVE ShopInv'
  <2>1. PICK c \in Registers \cup {NoRegister} :
          /\ c \in Registers => Exists(c)
          /\ Takes(w, [step |-> "voids", sale |-> s, register |-> c])
    BY <1>2, CashAssumption DEF VoidReads, IsOpen
  <2> DEFINE next == [step |-> "voids", sale |-> s, register |-> c]
  <2>2. next \in Job /\ next.step = "voids"
    BY DEF VoidJob, Job
  <2>3. Takes(w, next) /\ UNCHANGED <<counter, cashVars>> /\ Sold(s)
    BY <1>2, <2>1 DEF VoidReads
  <2>4. JobOK(next)
    BY <2>1, <2>3 DEF JobOK, QuoteSteppers
  <2> HIDE DEF next
  <2> QED
    BY <2>2, <2>3, <2>4, SilentKeeps
<1>3. ASSUME NEW q \in Quotes, NEW to \in QuoteStatus, StatusReads(w, q, to) PROVE ShopInv'
  <2> DEFINE next == [step |-> "status", quote |-> q, to |-> to]
  <2>1. next \in Job /\ next.step = "status" /\ JobOK(next)
    BY DEF QuoteJob, Job, JobOK, QuoteSteppers
  <2>2. Takes(w, next) /\ UNCHANGED <<counter, cashVars>>
    BY <1>3 DEF StatusReads
  <2> HIDE DEF next
  <2> QED
    BY <2>1, <2>2, SilentKeeps
<1>4. ASSUME NEW q \in Quotes, DeleteReads(w, q) PROVE ShopInv'
  <2> DEFINE next == [step |-> "delete", quote |-> q]
  <2>1. next \in Job /\ next.step = "delete" /\ JobOK(next)
    BY DEF QuoteJob, Job, JobOK, QuoteSteppers
  <2>2. Takes(w, next) /\ UNCHANGED <<counter, cashVars>>
    BY <1>4 DEF DeleteReads
  <2> HIDE DEF next
  <2> QED
    BY <2>1, <2>2, SilentKeeps
<1>5. ASSUME NEW q \in Quotes, NEW cash \in BOOLEAN, ConvertReads(w, q, cash) PROVE ShopInv'
  <2> DEFINE next == [step |-> "numbers", quote |-> q, part |-> QuoteBook[q].part,
                      quantity |-> QuoteBook[q].quantity, cash |-> cash, number |-> 0]
  <2>1. QuoteBook[q].part \in Parts /\ QuoteBook[q].quantity \in Nat /\ QuoteBook[q].quantity > 0
    <3>1. QuoteBook[q] \in [part : Parts, quantity : Nat \ {0}]
      OBVIOUS
    <3> QED
      BY <3>1
  <2>2. next \in Job /\ next.step = "numbers" /\ next.quantity > 0
    BY <2>1 DEF ConvertJob, Job
  <2>3. JobOK(next)
    BY <2>2 DEF JobOK, QuoteSteppers
  <2>4. Takes(w, next) /\ UNCHANGED <<counter, cashVars>>
    BY <1>5 DEF ConvertReads
  <2> HIDE DEF next
  <2> QED
    BY <2>2, <2>3, <2>4, SilentKeeps
<1>6. ASSUME CronReads(w) PROVE ShopInv'
  <2> DEFINE next == [step |-> "expire", quotes |-> Expirable]
  <2>1. next \in Job /\ next.step = "expire" /\ JobOK(next)
    BY DEF QuoteJob, Job, JobOK, QuoteSteppers, Expirable
  <2>2. Takes(w, next) /\ UNCHANGED <<counter, cashVars>>
    BY <1>6 DEF CronReads
  <2> HIDE DEF next
  <2> QED
    BY <2>1, <2>2, SilentKeeps
<1>7. ASSUME NEW o \in Orders, NEW p \in Parts, NEW n \in Quantities, ItemReads(w, o, p, n)
      PROVE  ShopInv'
  <2> DEFINE next == [step |-> "item", order |-> o, part |-> p, quantity |-> n]
  <2>1. next \in Job /\ next.step = "item"
    BY DEF OrderJob, Job
  <2>2. Takes(w, next) /\ UNCHANGED <<counter, cashVars>> /\ order[o] # NoOrder
    BY <1>7 DEF ItemReads, Pending
  <2>3. JobOK(next)
    BY <2>2 DEF JobOK, QuoteSteppers
  <2> HIDE DEF next
  <2> QED
    BY <2>1, <2>2, <2>3, SilentKeeps
<1>8. ASSUME NEW o \in Orders, ReceiveReads(w, o) PROVE ShopInv'
  <2> DEFINE next == [step |-> "receives", order |-> o, due |-> order[o].due]
  <2>1. Takes(w, next) /\ UNCHANGED <<counter, cashVars>> /\ order[o] # NoOrder
    BY <1>8 DEF ReceiveReads, Pending
  <2>2. order[o] \in OrderRow
    BY <2>1 DEF ShopInv, OrderTypeOK
  <2>3. next \in Job /\ next.step = "receives"
    BY <2>2 DEF OrderRow, OrderJob, Job
  <2>4. JobOK(next)
    BY <2>1 DEF JobOK, QuoteSteppers
  <2> HIDE DEF next
  <2> QED
    BY <2>1, <2>3, <2>4, SilentKeeps
<1>9. ASSUME Fails(w) PROVE ShopInv'
  BY <1>9, SilentKeeps DEF Fails
<1> QED
  BY <1>1, <1>2, <1>3, <1>4, <1>5, <1>6, <1>7, <1>8, <1>9

LEMMA SaleBeginKeeps ==
  ASSUME ShopInv, UNCHANGED <<quotation, orderVars>>, NEW w \in Workers, SaleBegins(w)
  PROVE  ShopInv'
<1> DEFINE n == NextNumber(Numbers("S"))
           next == [job[w] EXCEPT !.step = "selling", !.number = n]
<1>1. job[w] \in SaleJob /\ JobOK(job[w]) /\ job[w].step = "sells"
  BY JobFields DEF SaleBegins, At, Idle, ShopInv, JobsOK
<1>2. /\ stock[job[w].part] >= job[w].quantity
      /\ \A v \in Workers : At(v, "selling") => job[v].number # n
      /\ Takes(w, next) /\ UNCHANGED <<counter, cashVars>>
  BY DEF SaleBegins
<1>3. n \in Nat
  BY NextOfSeries DEF ShopInv, Series
<1>4. n = NextNumber(Numbers("S"))
  OBVIOUS
<1> HIDE DEF n
<1>5. /\ next \in SaleJob /\ next.step = "selling" /\ next.number = n
      /\ next.part = job[w].part /\ next.quantity = job[w].quantity
      /\ next.cash = job[w].cash /\ next.register = job[w].register
  BY <1>1, <1>3 DEF SaleJob
<1> HIDE DEF next
<1>6. JobOK(next)
  BY <1>1, <1>2, <1>4, <1>5 DEF JobOK, QuoteSteppers
<1>7. \A v \in Workers \ {w} : ~At(v, "selling")
  <2> SUFFICES ASSUME NEW v \in Workers, At(v, "selling") PROVE FALSE
    OBVIOUS
  <2>1. JobOK(job[v]) /\ job[v].step = "selling"
    BY DEF ShopInv, JobsOK, At
  <2> QED
    BY <1>2, <1>4, <2>1 DEF JobOK
<1> QED
  BY <1>2, <1>5, <1>6, <1>7, SilentKeeps DEF Job

LEMMA ConvertNumberKeeps ==
  ASSUME ShopInv, UNCHANGED orderVars, NEW w \in Workers, ConvertReadsNumber(w)
  PROVE  ShopInv'
<1> DEFINE n == NextNumber(Numbers("POS"))
           next == [job[w] EXCEPT !.step = "converts", !.number = n]
<1>1. job[w] \in ConvertJob /\ JobOK(job[w]) /\ job[w].step = "numbers"
  BY JobFields DEF ConvertReadsNumber, At, Idle, ShopInv, JobsOK, QuoteSteppers
<1>2. Takes(w, next) /\ UNCHANGED <<counter, cashVars, quotation>>
  BY DEF ConvertReadsNumber
<1>3. n \in Nat /\ 1 <= n
  <2>1. PICK k \in Nat : n = k + 1
    BY NextOfSeries DEF ShopInv, Series
  <2> QED
    BY <2>1
<1>4. n = NextNumber(Numbers("POS"))
  OBVIOUS
<1> HIDE DEF n
<1>5. /\ next \in ConvertJob /\ next.step = "converts" /\ next.number = n
      /\ next.quantity = job[w].quantity
  BY <1>1, <1>3 DEF ConvertJob
<1> HIDE DEF next
<1>6. JobOK(next)
  BY <1>1, <1>3, <1>4, <1>5 DEF JobOK, QuoteSteppers
<1> QED
  BY <1>2, <1>5, <1>6, SilentKeeps DEF Job

LEMMA ConvertInsertKeeps ==
  ASSUME ShopInv, UNCHANGED orderVars, NEW w \in Workers, ConvertInserts(w)
  PROVE  ShopInv'
<1> DEFINE next == [job[w] EXCEPT !.step = "converting"]
<1>1. job[w] \in ConvertJob /\ JobOK(job[w]) /\ job[w].step = "converts"
  BY JobFields DEF ConvertInserts, At, Idle, ShopInv, JobsOK, QuoteSteppers
<1>2. /\ Takes(w, next) /\ UNCHANGED <<counter, cashVars, quotation>>
      /\ job[w].number \notin Numbers("POS")
      /\ job[w].number \notin {i.number : i \in Held(w)}
      /\ job[w].quote \notin {sale[s].quote : s \in {t \in SaleIds : Sold(t)}}
  BY DEF ConvertInserts
<1>3. job[w].number = NextNumber(Numbers("POS"))
  <2>1. PICK k \in Nat : Numbers("POS") = 1 .. k /\ NextNumber(Numbers("POS")) = k + 1
    BY NextOfSeries DEF ShopInv, Series
  <2>2. job[w].number \in Nat /\ 1 <= job[w].number /\ job[w].number <= k + 1
    BY <1>1, <2>1 DEF JobOK, ConvertJob
  <2> QED
    BY <1>2, <2>1, <2>2
<1>4. /\ next \in ConvertJob /\ next.step = "converting" /\ next.number = job[w].number
      /\ next.quantity = job[w].quantity /\ next.quote = job[w].quote
  BY <1>1 DEF ConvertJob
<1> HIDE DEF next
<1>5. JobOK(next)
  BY <1>1, <1>2, <1>3, <1>4 DEF JobOK, QuoteSteppers
<1>6. \A v \in Workers \ {w} : ~At(v, "converting")
  <2> SUFFICES ASSUME NEW v \in Workers \ {w}, At(v, "converting") PROVE FALSE
    OBVIOUS
  <2>1. job[v].number = NextNumber(Numbers("POS"))
    BY DEF ShopInv, JobsOK, At, JobOK
  <2>2. job[v] \in Held(w)
    BY DEF Held
  <2> QED
    BY <1>2, <1>3, <2>1, <2>2
<1> QED
  BY <1>2, <1>4, <1>5, <1>6, SilentKeeps DEF Job
LEMMA StatusSet ==
  ASSUME QuoteTypeOK, NEW Q, NEW to \in QuoteStatus, SetStatus(Q, to)
  PROVE  QuoteTypeOK'
<1> SUFFICES ASSUME NEW q \in Quotes
             PROVE  (IF q \in Q /\ Filed(q) THEN [quotation[q] EXCEPT !.status = to]
                                            ELSE quotation[q]) \in QuoteRow \cup {NoRow, Deleted}
  BY DEF SetStatus, QuoteTypeOK
<1>1. CASE q \in Q /\ Filed(q)
  <2>1. quotation[q] \in QuoteRow
    BY <1>1 DEF Filed, QuoteTypeOK
  <2>2. [quotation[q] EXCEPT !.status = to] \in QuoteRow
    BY <2>1 DEF QuoteRow
  <2> QED
    BY <1>1, <2>2
<1>2. CASE ~(q \in Q /\ Filed(q))
  BY <1>2 DEF QuoteTypeOK
<1> QED
  BY <1>1, <1>2

\* A request that writes quotations or orders and is done, or writes no request.
LEMMA DoneKeeps ==
  ASSUME ShopInv, UNCHANGED <<counter, cashVars>>, QuoteTypeOK', OrderTypeOK',
         \A o \in Orders : order[o] # NoOrder => order'[o] # NoOrder,
         UNCHANGED job \/ \E w \in Workers : Takes(w, NoJob)
  PROVE  ShopInv'
<1>1. /\ job' \in [Workers -> Job \cup {NoJob}]
      /\ \A v \in Workers : job'[v] = job[v] \/ job'[v] = NoJob
  BY DEF ShopInv, JobsOK, Takes
<1>2. \A step \in {"selling", "converting"}, v \in Workers :
        At(v, step)' /\ ~At(v, step) => \A u \in Workers \ {v} : ~At(u, step)'
  BY <1>1 DEF At, Idle
<1> QED
  BY <1>1, <1>2, QuietKeeps

LEMMA WritesKeep ==
  ASSUME ShopInv,
         \/ \E w \in Workers : /\ StatusWrites(w) \/ CronWrites(w) \/ ConvertMarks(w)
                               /\ UNCHANGED orderVars
         \/ \E q \in Quotes : (QuoteCreates(q) \/ Lapses(q)) /\ UNCHANGED orderVars
         \/ MarkExpired /\ UNCHANGED orderVars
         \/ \E w \in Workers : ItemWrites(w) /\ UNCHANGED quotation
         \/ \E o \in Orders : OrderCreates(o) /\ UNCHANGED quotation
  PROVE  ShopInv'
<1>1. UNCHANGED orderVars => /\ OrderTypeOK'
                             /\ \A o \in Orders : order[o] # NoOrder => order'[o] # NoOrder
  BY DEF ShopInv, OrderTypeOK, orderVars
<1>2. ASSUME NEW w \in Workers, UNCHANGED orderVars,
             StatusWrites(w) \/ CronWrites(w) \/ ConvertMarks(w)
      PROVE  ShopInv'
  <2>1. /\ \E Q, to : to \in QuoteStatus /\ SetStatus(Q, to)
        /\ Takes(w, NoJob) /\ UNCHANGED <<counter, cashVars>>
    <3>1. CASE StatusWrites(w)
      <4>1. job[w] \in QuoteJob /\ job[w].step = "status"
        BY <3>1, JobFields DEF StatusWrites, At, Idle, ShopInv, JobsOK
      <4>2. job[w].to \in QuoteStatus
        BY <4>1 DEF QuoteJob
      <4> QED
        BY <3>1, <4>2 DEF StatusWrites
    <3>2. CASE CronWrites(w)
      BY <3>2 DEF CronWrites, QuoteStatus
    <3>3. CASE ConvertMarks(w)
      BY <3>3 DEF ConvertMarks, QuoteStatus
    <3> QED
      BY <1>2, <3>1, <3>2, <3>3
  <2>2. QuoteTypeOK'
    BY <2>1, StatusSet DEF ShopInv
  <2> QED
    BY <1>1, <1>2, <2>1, <2>2, DoneKeeps
<1>3. ASSUME NEW q \in Quotes, UNCHANGED orderVars, QuoteCreates(q) \/ Lapses(q)
      PROVE  ShopInv'
  <2>1. UNCHANGED <<saleVars, cashVars>>
    BY <1>3 DEF QuoteCreates, Lapses
  <2>2. QuoteTypeOK'
    <3>1. CASE QuoteCreates(q)
      <4>1. [status |-> "DRAFT", lapsed |-> FALSE] \in QuoteRow
        BY DEF QuoteRow, QuoteStatus
      <4> QED
        BY <3>1, <4>1 DEF QuoteCreates, ShopInv, QuoteTypeOK
    <3>2. CASE Lapses(q)
      <4>1. quotation[q] \in QuoteRow
        BY <3>2 DEF Lapses, Filed, ShopInv, QuoteTypeOK
      <4>2. [quotation[q] EXCEPT !.lapsed = TRUE] \in QuoteRow
        BY <4>1 DEF QuoteRow
      <4> QED
        BY <3>2, <4>2 DEF Lapses, ShopInv, QuoteTypeOK
    <3> QED
      BY <1>3, <3>1, <3>2
  <2> QED
    BY <1>1, <1>3, <2>1, <2>2, DoneKeeps DEF saleVars, counter
<1>4. ASSUME UNCHANGED orderVars, MarkExpired PROVE ShopInv'
  <2>1. UNCHANGED <<saleVars, cashVars>> /\ SetStatus(Expirable, "EXPIRED")
    BY <1>4 DEF MarkExpired
  <2>2. QuoteTypeOK'
    BY <2>1, StatusSet DEF ShopInv, QuoteStatus
  <2> QED
    BY <1>1, <1>4, <2>1, <2>2, DoneKeeps DEF saleVars, counter
<1>5. ASSUME NEW w \in Workers, UNCHANGED quotation, ItemWrites(w) PROVE ShopInv'
  <2> DEFINE o == job[w].order
             due == [order[o].due EXCEPT
                       ![job[w].part] = order[o].due[job[w].part] + job[w].quantity]
             row == [order[o] EXCEPT !.due = due]
  <2>1. job[w] \in OrderJob /\ JobOK(job[w]) /\ job[w].step = "item"
    BY <1>5, JobFields DEF ItemWrites, At, Idle, ShopInv, JobsOK
  <2>2. /\ o \in Orders /\ order[o] # NoOrder
        /\ job[w].part \in Parts /\ job[w].quantity \in Nat
    BY <2>1 DEF JobOK, OrderJob
  <2>3. /\ order' = [order EXCEPT ![o] = row] /\ Takes(w, NoJob)
        /\ UNCHANGED <<counter, cashVars, delivered>>
    BY <1>5 DEF ItemWrites
  <2>4. order[o] \in OrderRow /\ order[o].due \in [Parts -> Nat]
    BY <2>2 DEF ShopInv, OrderTypeOK, OrderRow
  <2>5. due \in [Parts -> Nat]
    BY <2>2, <2>4
  <2> HIDE DEF due
  <2>6. row \in OrderRow /\ row # NoOrder
    BY <2>4, <2>5, PurchasesAssumption DEF OrderRow
  <2> HIDE DEF row, o
  <2>7. OrderTypeOK' /\ \A p \in Orders : order[p] # NoOrder => order'[p] # NoOrder
    BY <2>2, <2>3, <2>6 DEF ShopInv, OrderTypeOK
  <2>8. QuoteTypeOK'
    BY <1>5 DEF ShopInv, QuoteTypeOK
  <2> QED
    BY <2>3, <2>7, <2>8, DoneKeeps
<1>6. ASSUME NEW o \in Orders, UNCHANGED quotation, OrderCreates(o) PROVE ShopInv'
  <2> DEFINE row == [status |-> "PENDING", due |-> [p \in Parts |-> 0]]
  <2>1. row \in OrderRow /\ row # NoOrder
    BY PurchasesAssumption DEF OrderRow
  <2>2. /\ order' = [order EXCEPT ![o] = row]
        /\ UNCHANGED <<delivered, saleVars, cashVars>>
    BY <1>6 DEF OrderCreates
  <2> HIDE DEF row
  <2>3. OrderTypeOK' /\ \A p \in Orders : order[p] # NoOrder => order'[p] # NoOrder
    BY <2>1, <2>2 DEF ShopInv, OrderTypeOK
  <2>4. QuoteTypeOK'
    BY <1>6 DEF ShopInv, QuoteTypeOK
  <2> QED
    BY <2>2, <2>3, <2>4, DoneKeeps DEF saleVars, counter
<1> QED
  BY <1>2, <1>3, <1>4, <1>5, <1>6

-----------------------------------------------------------------------------
(* The invariant. *)

\* The steps of the whole, sorted by the lemmas above.
LEMMA StepKinds ==
  ASSUME Next
  PROVE  \/ Registering /\ UNCHANGED <<quotation, orderVars>>
         \/ \E w \in Workers :
              \/ /\ SaleBegins(w) \/ SaleCommits(w) \/ VoidCommits(w)
                 /\ UNCHANGED <<quotation, orderVars>>
              \/ /\ ConvertReadsNumber(w) \/ ConvertInserts(w) \/ ConvertCommits(w) \/ DeleteWrites(w)
                 /\ UNCHANGED orderVars
              \/ ReceiveCommits(w) /\ UNCHANGED quotation
              \/ /\ \/ \E p \in Parts, n \in Quantities, cash \in BOOLEAN :
                         SaleReads(w, p, n, cash)
                    \/ \E s \in SaleIds : VoidReads(w, s)
                    \/ \E q \in Quotes, to \in QuoteStatus : StatusReads(w, q, to)
                    \/ \E q \in Quotes : DeleteReads(w, q)
                    \/ \E q \in Quotes, cash \in BOOLEAN : ConvertReads(w, q, cash)
                    \/ CronReads(w)
                    \/ \E o \in Orders, p \in Parts, n \in Quantities : ItemReads(w, o, p, n)
                    \/ \E o \in Orders : ReceiveReads(w, o)
                    \/ Fails(w)
                 /\ UNCHANGED <<quotation, orderVars>>
         \/ \/ \E w \in Workers : /\ StatusWrites(w) \/ CronWrites(w) \/ ConvertMarks(w)
                                  /\ UNCHANGED orderVars
            \/ \E q \in Quotes : (QuoteCreates(q) \/ Lapses(q)) /\ UNCHANGED orderVars
            \/ MarkExpired /\ UNCHANGED orderVars
            \/ \E w \in Workers : ItemWrites(w) /\ UNCHANGED quotation
            \/ \E o \in Orders : OrderCreates(o) /\ UNCHANGED quotation
<1>1. CASE Selling /\ UNCHANGED <<quotation, orderVars>>
  BY <1>1 DEF Selling, SaleSteps
<1>2. CASE Quoting /\ UNCHANGED orderVars
  BY <1>2 DEF Quoting
<1>3. CASE \E o \in Orders : OrderCreates(o) /\ UNCHANGED quotation
  BY <1>3
<1>4. ASSUME NEW w \in Workers, QuoteSteps(w) /\ UNCHANGED orderVars
      PROVE  \/ /\ ConvertReadsNumber(w) \/ ConvertInserts(w) \/ ConvertCommits(w) \/ DeleteWrites(w)
                /\ UNCHANGED orderVars
             \/ /\ \/ \E q \in Quotes, to \in QuoteStatus : StatusReads(w, q, to)
                   \/ \E q \in Quotes : DeleteReads(w, q)
                   \/ \E q \in Quotes, cash \in BOOLEAN : ConvertReads(w, q, cash)
                   \/ CronReads(w)
                /\ UNCHANGED <<quotation, orderVars>>
             \/ /\ StatusWrites(w) \/ CronWrites(w) \/ ConvertMarks(w)
                /\ UNCHANGED orderVars
  BY <1>4 DEF QuoteSteps, StatusReads, DeleteReads, ConvertReads, CronReads
<1>5. ASSUME NEW w \in Workers, OrderSteps(w) /\ UNCHANGED quotation
      PROVE  \/ (ReceiveCommits(w) \/ ItemWrites(w)) /\ UNCHANGED quotation
             \/ /\ \/ \E o \in Orders, p \in Parts, n \in Quantities : ItemReads(w, o, p, n)
                   \/ \E o \in Orders : ReceiveReads(w, o)
                /\ UNCHANGED <<quotation, orderVars>>
  BY <1>5 DEF OrderSteps, ItemReads, ReceiveReads
<1> QED
  BY <1>1, <1>2, <1>3, <1>4, <1>5 DEF Next

LEMMA NextKeeps == ASSUME ShopInv, Next PROVE ShopInv'
BY StepKinds, RegisteringKeeps, SaleBeginKeeps, SaleCommitKeeps, VoidCommitKeeps,
   ConvertNumberKeeps, ConvertInsertKeeps, ConvertCommitKeeps, DeleteWriteKeeps,
   ReceiveCommitKeeps, ReadsKeep, WritesKeep

LEMMA ShopStarts == ASSUME Init PROVE ShopInv
<1>1. CashInv
  BY CashStarts DEF Init
<1>2. \A s \in SaleIds : ~Sold(s)
  BY DEF Init, SaleInit, Sold
<1>3. SaleTypeOK /\ NumberedOnce("S") /\ NumberedOnce("POS") /\ QuotationSoldOnce
  BY <1>2, SalesAssumption DEF Init, SaleInit, SaleTypeOK, NumberedOnce, QuotationSoldOnce
<1>4. \A series \in Series : Numbers(series) = 1 .. 0
  BY <1>2 DEF Numbers
<1>5. SalesOK
  BY <1>2, <1>3, <1>4 DEF SalesOK, Consecutive, NumberedOnce
<1>6. QuoteTypeOK /\ OrderTypeOK
  BY DEF Init, QuoteInit, OrderInit, QuoteTypeOK, OrderTypeOK
<1>7. JobsOK
  BY DEF Init, SaleInit, JobsOK, Idle, At, OneAtATime
<1> QED
  BY <1>1, <1>5, <1>6, <1>7 DEF ShopInv

LEMMA ShopInvariant == Spec => []ShopInv
<1>1. Init => ShopInv
  BY ShopStarts
<1>2. ShopInv /\ [Next]_vars => ShopInv'
  <2>1. ASSUME ShopInv, Next PROVE ShopInv'
    BY <2>1, NextKeeps
  <2>2. ASSUME ShopInv, UNCHANGED vars PROVE ShopInv'
    <3>1. QuoteTypeOK' /\ OrderTypeOK' /\ UNCHANGED <<counter, cashVars, job, order>>
      BY <2>2 DEF vars, counter, cashVars, ShopInv, QuoteTypeOK, OrderTypeOK
    <3> QED
      BY <2>2, <3>1, DoneKeeps
  <2> QED
    BY <2>1, <2>2
<1> QED
  BY <1>1, <1>2, PTL DEF Spec

\* The counter's rows and requests are well formed, whatever is interleaved.
THEOREM ShopTypeCorrect == Spec => []TypeOK
<1>1. ShopInv => TypeOK
  BY DEF ShopInv, TypeOK, CashInv, SalesOK, JobsOK
<1> QED
  BY <1>1, ShopInvariant, PTL

\* No quotation becomes two sales: the unique index, and the wait for whoever may
\* still commit, see to it, whatever the statuses say.
THEOREM QuotationsSoldOnce == Spec => []QuotationSoldOnce
<1>1. ShopInv => QuotationSoldOnce
  BY DEF ShopInv, SalesOK
<1> QED
  BY <1>1, ShopInvariant, PTL

\* Both series of sale numbers run from 1 without a gap or a repetition.
THEOREM SaleNumbersCorrect == Spec => []SaleNumbersGapless
<1>1. ASSUME ShopInv PROVE SaleNumbersGapless
  <2> SUFFICES ASSUME NEW series \in Series
               PROVE  /\ Numbers(series) = 1 .. NextNumber(Numbers(series)) - 1
                      /\ NumberedOnce(series)
    BY DEF SaleNumbersGapless, NumberedOnce
  <2>1. PICK k \in Nat : Numbers(series) = 1 .. k /\ NextNumber(Numbers(series)) = k + 1
    BY <1>1, NextOfSeries DEF ShopInv
  <2>2. k + 1 - 1 = k
    BY <2>1
  <2> QED
    BY <1>1, <2>1, <2>2 DEF ShopInv, SalesOK
<1> QED
  BY <1>1, ShopInvariant, PTL

-----------------------------------------------------------------------------
(* Stock. *)

\* Which steps make a sale of the counter's own series.
LEMMA NewSales ==
  ASSUME ShopInv, Next, NEW s \in SaleIds, ~Sold(s), sale'[s] # NoSale
  PROVE  \E w \in Workers : SaleCommits(w) \/ ConvertCommits(w)
<1> USE SalesAssumption
<1>1. sale' # sale
  BY DEF Sold
<1>2. ASSUME NEW w \in Workers, VoidCommits(w), UNCHANGED <<quotation, orderVars>> PROVE FALSE
  <2>1. job[w].sale \in SaleIds /\ Sold(job[w].sale)
    BY <1>2, VoidCommitKeeps
  <2>2. sale'[s] = sale[s]
    BY <1>2, <2>1 DEF VoidCommits, ShopInv, SalesOK, SaleTypeOK
  <2> QED
    BY <2>2 DEF Sold
<1>3. ASSUME NEW w \in Workers, DeleteWrites(w), UNCHANGED orderVars PROVE FALSE
  BY <1>3, DeleteWriteKeeps DEF Sold
<1>4. ASSUME UNCHANGED counter PROVE FALSE
  BY <1>1, <1>4 DEF counter
<1> QED
  BY StepKinds, <1>1, <1>2, <1>3, <1>4
     DEF Registering, SaleBegins, ConvertReadsNumber, ConvertInserts, ReceiveCommits,
         SaleReads, VoidReads, StatusReads, DeleteReads, ConvertReads, CronReads, ItemReads,
         ReceiveReads, Fails, StatusWrites, CronWrites, ConvertMarks, QuoteCreates, Lapses,
         MarkExpired, ItemWrites, OrderCreates, saleVars, counter

\* A sale of the counter never takes what is not there: it fails if anyone wrote
\* the part after its check.
THEOREM SalesNeverOversell == Spec => NeverOversold
<1>1. ASSUME ShopInv, Next, NEW s \in SaleIds, ~Sold(s), sale'[s] # NoSale,
             sale'[s].series = "S"
      PROVE  stock'[sale'[s].part] >= 0
  <2>1. PICK w \in Workers : SaleCommits(w) \/ ConvertCommits(w)
    BY <1>1, NewSales
  <2> DEFINE j == job[w]
  <2>2. sale \in [SaleIds -> SaleRow \cup {NoSale}] /\ stock \in [Parts -> Int]
    BY <1>1 DEF ShopInv, SalesOK, SaleTypeOK
  <2>3. CASE ConvertCommits(w)
    <3>1. PICK t \in SaleIds : sale' = [sale EXCEPT ![t] = NewSale(j, "POS", j.quote)]
      BY <2>3 DEF ConvertCommits, FreshSales
    <3>2. sale'[s] = NewSale(j, "POS", j.quote)
      BY <1>1, <2>2, <3>1 DEF Sold
    <3> QED
      BY <1>1, <3>2 DEF NewSale
  <2>4. CASE SaleCommits(w)
    <3>1. PICK t \in SaleIds : sale' = [sale EXCEPT ![t] = NewSale(j, "S", NoQuote)]
      BY <2>4 DEF SaleCommits, FreshSales
    <3>2. sale'[s].part = j.part
      <4>1. sale'[s] = NewSale(j, "S", NoQuote)
        BY <1>1, <2>2, <3>1 DEF Sold
      <4> QED
        BY <4>1 DEF NewSale
    <3>3. j \in SaleJob /\ stock[j.part] >= j.quantity
      BY <1>1, <2>4, JobFields DEF SaleCommits, At, Idle, ShopInv, JobsOK, JobOK
    <3>4. /\ stock'[j.part] = stock[j.part] - j.quantity
          /\ stock[j.part] \in Int /\ j.quantity \in Nat
      BY <2>2, <2>4, <3>3 DEF SaleCommits, SaleJob
    <3>5. stock[j.part] - j.quantity >= 0
      BY <3>3, <3>4
    <3> QED
      BY <3>2, <3>4, <3>5
  <2> QED
    BY <2>1, <2>3, <2>4
<1>2. ShopInv /\ [Next]_vars =>
        [\A s \in SaleIds : ~Sold(s) /\ sale'[s] # NoSale /\ sale'[s].series = "S"
                              => stock'[sale'[s].part] >= 0]_vars
  BY <1>1
<1> QED
  BY <1>2, ShopInvariant, PTL DEF Spec, NeverOversold
-----------------------------------------------------------------------------
(* The counter keeps the stock ledger. *)

UnitsOf(s) == IF Sold(s) THEN [part |-> sale[s].part, quantity |-> sale[s].quantity] ELSE NoUnits
Out == [s \in SaleIds |-> UnitsOf(s)]
Back == {s \in SaleIds : Sold(s) /\ sale[s].status = "VOIDED"}

LEMMA SoldUnits ==
  ASSUME SalesOK, NEW s \in SaleIds, Sold(s)
  PROVE  /\ sale[s] \in SaleRow /\ sale[s].part \in Parts /\ sale[s].quantity \in Nat
         /\ sale[s].quantity > 0
         /\ UnitsOf(s) = [part |-> sale[s].part, quantity |-> sale[s].quantity]
         /\ UnitsOf(s) # NoUnits
<1>1. sale[s] \in SaleRow /\ sale[s].quantity > 0
  BY DEF SalesOK, SaleTypeOK, Sold
<1>2. sale[s].part \in Parts /\ sale[s].quantity \in Nat
  BY <1>1 DEF SaleRow
<1>3. [part |-> sale[s].part, quantity |-> sale[s].quantity] \in [part : Parts, quantity : Nat]
  BY <1>2
<1> QED
  BY <1>1, <1>2, <1>3, ShopAssumption DEF UnitsOf

\* A new sale issues its units.
LEMMA NewSaleIssues ==
  ASSUME SalesOK, SalesOK', NEW s \in SaleIds, ~Sold(s), Sold(s)',
         sale'[s].status # "VOIDED",
         \A t \in SaleIds \ {s} : sale'[t] = sale[t],
         stock' = [stock EXCEPT ![sale'[s].part] = stock[sale'[s].part] - sale'[s].quantity],
         UNCHANGED delivered
  PROVE  Ledger!Next
<1>1. /\ sale'[s].part \in Parts /\ sale'[s].quantity \in Nat /\ sale'[s].quantity > 0
      /\ UnitsOf(s)' = [part |-> sale'[s].part, quantity |-> sale'[s].quantity]
  <2>1. sale'[s] \in SaleRow /\ sale'[s].quantity > 0
    BY DEF SalesOK, SaleTypeOK, Sold
  <2>2. sale'[s].part \in Parts /\ sale'[s].quantity \in Nat
    BY <2>1 DEF SaleRow
  <2> QED
    BY <2>1, <2>2 DEF UnitsOf
<1>2. UnitsOf(s) = NoUnits
  BY DEF UnitsOf
<1>3. \A t \in SaleIds \ {s} : (Sold(t)' <=> Sold(t)) /\ UnitsOf(t)' = UnitsOf(t)
  BY DEF Sold, UnitsOf
<1>4. Out[s] = NoUnits /\ Out'[s] = UnitsOf(s)' /\ Out' = [Out EXCEPT ![s] = Out'[s]]
  BY <1>2, <1>3 DEF Out
<1>5. Back' = Back
  BY <1>3 DEF Back
<1>6. Out'[s] \in Ledger!Units /\ Out'[s].part = sale'[s].part
      /\ Out'[s].quantity = sale'[s].quantity
  BY <1>1, <1>4 DEF Ledger!Units
<1>7. /\ Ledger!Taken(s) <=> Out[s] # NoUnits
  BY DEF Ledger!Taken, Out, UnitsOf
<1>8. Ledger!Issue(s)
  BY <1>4, <1>5, <1>6, <1>7 DEF Ledger!Issue, Out, Back, UnitsOf
<1> QED
  BY <1>8 DEF Ledger!Next

\* Rows whose part, quantity and status stay have taken and given back the same.
LEMMA SameUnits ==
  ASSUME \A t \in SaleIds : Sold(t)' <=> Sold(t),
         \A t \in SaleIds : Sold(t) =>
           /\ sale'[t].part = sale[t].part /\ sale'[t].quantity = sale[t].quantity
           /\ sale'[t].status = sale[t].status
  PROVE  Out' = Out /\ Back' = Back
BY DEF Out, Back, UnitsOf
LEMMA VoidTakesBack ==
  ASSUME ShopInv, UNCHANGED <<quotation, orderVars>>, NEW w \in Workers, VoidCommits(w)
  PROVE  Ledger!Next \/ UNCHANGED <<stock, Out, Back, delivered>>
<1>1. PICK s \in SaleIds : s = job[w].sale /\ Sold(s)
  BY VoidCommitKeeps
<1> DEFINE row == [sale[s] EXCEPT !.status = "VOIDED"]
<1>2. /\ SalesOK /\ sale \in [SaleIds -> SaleRow \cup {NoSale}] /\ delivered' = delivered
      /\ sale' = [sale EXCEPT ![s] = row] /\ stock' = Restock(s, "VOIDED")
  BY <1>1 DEF ShopInv, SalesOK, SaleTypeOK, VoidCommits, orderVars
<1>3. /\ sale[s] \in SaleRow /\ UnitsOf(s) # NoUnits
      /\ UnitsOf(s) = [part |-> sale[s].part, quantity |-> sale[s].quantity]
  BY <1>1, <1>2, SoldUnits
<1>4. /\ row \in SaleRow /\ row.status = "VOIDED" /\ row.part = sale[s].part
      /\ row.quantity = sale[s].quantity /\ row # NoSale
  <2>1. row \in SaleRow /\ row.status = "VOIDED" /\ row.part = sale[s].part
        /\ row.quantity = sale[s].quantity
    BY <1>3 DEF SaleRow, SaleStatus
  <2> QED
    BY <2>1, SalesAssumption
<1> HIDE DEF row
<1>5. sale'[s] = row /\ \A t \in SaleIds \ {s} : sale'[t] = sale[t]
  BY <1>1, <1>2
<1>6. \A t \in SaleIds : /\ Sold(t)' <=> Sold(t)
                         /\ Sold(t) => /\ sale'[t].part = sale[t].part
                                       /\ sale'[t].quantity = sale[t].quantity
  BY <1>1, <1>4, <1>5 DEF Sold
<1>7. Out' = Out /\ Back' = Back \cup {s}
  BY <1>1, <1>4, <1>5, <1>6 DEF Out, Back, UnitsOf
<1>8. CASE sale[s].status = "VOIDED"
  BY <1>1, <1>2, <1>7, <1>8 DEF Back, Restock
<1>9. CASE sale[s].status # "VOIDED"
  <2>1. /\ Out[s] # NoUnits /\ Out[s].part = sale[s].part /\ Out[s].quantity = sale[s].quantity
        /\ s \notin Back
    BY <1>1, <1>3, <1>9 DEF Out, Back
  <2>2. stock' = [stock EXCEPT ![Out[s].part] = stock[Out[s].part] + Out[s].quantity]
    BY <1>2, <1>9, <2>1 DEF Restock
  <2>3. Ledger!TakeBack(s)
    BY <1>2, <1>7, <2>1, <2>2 DEF Ledger!TakeBack, Ledger!Taken, Out, Back, UnitsOf
  <2> QED
    BY <1>1, <2>3 DEF Ledger!Next
<1> QED
  BY <1>8, <1>9

LEMMA CommitIssues ==
  ASSUME ShopInv, UNCHANGED orderVars, NEW w \in Workers,
         (SaleCommits(w) /\ UNCHANGED quotation) \/ ConvertCommits(w)
  PROVE  Ledger!Next
<1> DEFINE j == job[w]
<1>1. j # NoJob /\ j \in Job /\ j.step \in {"selling", "converting"}
  BY DEF SaleCommits, ConvertCommits, At, Idle, ShopInv, JobsOK
<1>2. ShopInv'
  BY SaleCommitKeeps, ConvertCommitKeeps
<1>3. SalesOK /\ SalesOK' /\ sale \in [SaleIds -> SaleRow \cup {NoSale}] /\ delivered' = delivered
  BY <1>2 DEF ShopInv, SalesOK, SaleTypeOK, orderVars
<1>4. PICK s \in SaleIds, series \in Series, quote \in Quotes \cup {NoQuote} :
        ~Sold(s) /\ sale' = [sale EXCEPT ![s] = NewSale(j, series, quote)]
  <2>1. CASE SaleCommits(w)
    BY <2>1 DEF SaleCommits, FreshSales, Series
  <2>2. CASE ConvertCommits(w)
    <3>1. j.quote \in Quotes
      BY <1>1, <2>2, JobFields DEF ConvertCommits, At, ConvertJob, QuoteSteppers
    <3> QED
      BY <2>2, <3>1 DEF ConvertCommits, FreshSales, Series
  <2> QED
    BY <2>1, <2>2
<1>5. stock' = [stock EXCEPT ![j.part] = stock[j.part] - j.quantity]
  BY DEF SaleCommits, ConvertCommits
<1>6. /\ sale'[s] = NewSale(j, series, quote)
      /\ \A t \in SaleIds \ {s} : sale'[t] = sale[t]
  BY <1>3, <1>4
<1>7. sale'[s].part = j.part /\ sale'[s].quantity = j.quantity /\ sale'[s].status = "COMPLETED"
  BY <1>6 DEF NewSale
<1>8. Sold(s)'
  <2>1. j.part \in Parts /\ j.quantity \in Nat /\ j.cash \in BOOLEAN /\ j.number \in Nat
    BY <1>1, JobFields DEF SaleJob, ConvertJob, QuoteSteppers
  <2>2. NewSale(j, series, quote) \in SaleRow
    BY <1>4, <2>1 DEF NewSale, SaleRow, SaleStatus
  <2> QED
    BY <1>6, <2>2, SalesAssumption DEF Sold
<1> QED
  BY <1>3, <1>4, <1>5, <1>6, <1>7, <1>8, NewSaleIssues

LEMMA ReceptionDelivers ==
  ASSUME ShopInv, UNCHANGED quotation, NEW w \in Workers, ReceiveCommits(w)
  PROVE  Ledger!Next
<1> DEFINE due == job[w].due
<1>1. due \in [Parts -> Nat]
  BY ReceiveCommitKeeps
<1>2. /\ stock' = [p \in Parts |-> stock[p] + due[p]]
      /\ delivered' = [p \in Parts |-> delivered[p] + due[p]]
      /\ sale' = sale
      /\ stock \in [Parts -> Int] /\ delivered \in [Parts -> Nat]
  BY DEF ReceiveCommits, ShopInv, SalesOK, SaleTypeOK, OrderTypeOK
<1> HIDE DEF due
<1>3. ASSUME NEW p \in Parts
      PROVE  /\ delivered'[p] \in Nat /\ delivered'[p] >= delivered[p]
             /\ delivered'[p] - delivered[p] = due[p]
  <2>1. delivered[p] \in Nat /\ due[p] \in Nat /\ delivered'[p] = delivered[p] + due[p]
    BY <1>1, <1>2
  <2> QED
    BY <2>1
<1>4. stock' = [p \in Parts |-> stock[p] + (delivered'[p] - delivered[p])]
  BY <1>2, <1>3
<1>5. delivered' \in [Parts -> Nat]
  BY <1>2, <1>3
<1>6. Out' = Out /\ Back' = Back
  BY <1>2 DEF Out, Back, UnitsOf, Sold
<1>7. Ledger!Deliver
  BY <1>3, <1>4, <1>5, <1>6 DEF Ledger!Deliver, Out, Back, UnitsOf
<1> QED
  BY <1>7 DEF Ledger!Next

\* Whatever the counter's requests do, and wherever they fail, the rows say what
\* was sold, what came back, and what was delivered, and the stock is that.
THEOREM LedgerKept == Spec => StockIsAccountedFor
<1>1. Init => Ledger!Init
  <2> SUFFICES ASSUME Init PROVE Ledger!Init
    OBVIOUS
  <2>1. \A s \in SaleIds : ~Sold(s)
    BY DEF Init, SaleInit, Sold
  <2>2. stock = OpeningStock /\ delivered = [p \in Parts |-> 0]
    BY DEF Init, SaleInit, OrderInit
  <2> QED
    BY <2>1, <2>2 DEF Ledger!Init
<1>2. ShopInv /\ [Next]_vars => [Ledger!Next]_(Ledger!ledger)
  <2>1. ASSUME ShopInv, Next
        PROVE  Ledger!Next \/ UNCHANGED <<stock, Out, Back, delivered>>
    <3>1. ASSUME NEW w \in Workers, DeleteWrites(w), UNCHANGED orderVars
          PROVE  UNCHANGED <<stock, Out, Back, delivered>>
      <4>1. \A t \in SaleIds : sale'[t] # sale[t] =>
              Sold(t) /\ sale'[t] = [sale[t] EXCEPT !.quote = NoQuote]
        BY <2>1, <3>1, DeleteWriteKeeps
      <4>2. ASSUME NEW t \in SaleIds, Sold(t)
            PROVE  /\ Sold(t)' /\ sale'[t].part = sale[t].part
                   /\ sale'[t].quantity = sale[t].quantity /\ sale'[t].status = sale[t].status
        <5>1. sale[t] \in SaleRow
          BY <2>1, <4>2, SoldUnits DEF ShopInv
        <5>2. [sale[t] EXCEPT !.quote = NoQuote] \in SaleRow
          BY <5>1 DEF SaleRow
        <5> QED
          BY <4>1, <4>2, <5>1, <5>2, SalesAssumption DEF Sold, SaleRow
      <4>3. \A t \in SaleIds : Sold(t)' <=> Sold(t)
        BY <4>1, <4>2 DEF Sold
      <4> QED
        BY <3>1, <4>2, <4>3, SameUnits DEF DeleteWrites, orderVars
    <3>2. ASSUME UNCHANGED counter, UNCHANGED delivered
          PROVE  UNCHANGED <<stock, Out, Back, delivered>>
      BY <3>2 DEF counter, Out, Back, UnitsOf, Sold
    <3>3. ASSUME NEW w \in Workers, SaleCommits(w) \/ VoidCommits(w),
                 UNCHANGED <<quotation, orderVars>>
          PROVE  Ledger!Next \/ UNCHANGED <<stock, Out, Back, delivered>>
      BY <2>1, <3>3, CommitIssues, VoidTakesBack
    <3>4. ASSUME NEW w \in Workers, ConvertCommits(w), UNCHANGED orderVars PROVE Ledger!Next
      BY <2>1, <3>4, CommitIssues
    <3>5. ASSUME NEW w \in Workers, ReceiveCommits(w), UNCHANGED quotation PROVE Ledger!Next
      BY <2>1, <3>5, ReceptionDelivers
    <3> QED
      BY <2>1, StepKinds, <3>1, <3>2, <3>3, <3>4, <3>5
         DEF Registering, SaleBegins, ConvertReadsNumber, ConvertInserts,
             SaleReads, VoidReads, StatusReads, DeleteReads, ConvertReads, CronReads, ItemReads,
             ReceiveReads, Fails, StatusWrites, CronWrites, ConvertMarks, QuoteCreates, Lapses,
             MarkExpired, ItemWrites, OrderCreates, saleVars, counter, orderVars
  <2>2. UNCHANGED vars => UNCHANGED <<stock, Out, Back, delivered>>
    BY DEF vars, Out, Back, UnitsOf, Sold
  <2> QED
    BY <2>1, <2>2 DEF Ledger!ledger, Out, Back, UnitsOf
<1> QED
  BY <1>1, <1>2, ShopInvariant, PTL DEF Spec, StockIsAccountedFor, Ledger!Spec
=============================================================================
