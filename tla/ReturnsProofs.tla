--------------------------- MODULE ReturnsProofs ---------------------------
(***************************************************************************)
(* Theorems about Returns.  For any number of workers: its types, and what *)
(* the cash registers keep beside sales, voids and credit notes.  For      *)
(* requests one after the other (OneWorker), as its properties say: the    *)
(* notes invent no unit, and between requests the status of a sale and the *)
(* stock are what the notes say.                                           *)
(***************************************************************************)
EXTENDS Returns, CashProofs, Sums

Noting == {"notes", "restocks", "rates"}
Unnoting == {"cancels", "recounts", "resets"}

\* What a request in flight may rely on, whatever others do: registers, sales and
\* notes do not vanish, and its number is the next while it has it inserted.
JobOK(j) ==
  /\ j.step \in {"sells", "selling"} /\ j.cash => j.register \in Registers /\ Exists(j.register)
  /\ j.step = "selling" => j.number = NextNumber(Numbers("S"))
  /\ j.step = "voids" => Sold(j.sale) /\ (j.register \in Registers => Exists(j.register))
  /\ j.step \in Noting \cup Unnoting => Sold(j.sale)
  /\ j.step \in {"cancels", "refunds"} => j.note \in NoteIds /\ note[j.note] # NoNote

JobsOK ==
  /\ job \in [Workers -> Job \cup {NoJob}]
  /\ \A w \in Workers : ~Idle(w) => JobOK(job[w])
  /\ \A v, w \in Workers : At(v, "selling") /\ At(w, "selling") => v = w

Consecutive == \E k \in Nat : Numbers("S") = 1 .. k

NotesTyped ==
  /\ note \in [NoteIds -> NoteRow \cup {NoNote}] /\ halfway \in BOOLEAN
  /\ \A n \in NoteIds : note[n] # NoNote => Sold(note[n].sale)

Typed == CashInv /\ SaleTypeOK /\ Consecutive /\ NotesTyped /\ JobsOK

-----------------------------------------------------------------------------
(* Requests. *)

\* The fields a request has at each of its steps.
LEMMA JobFields ==
  ASSUME NEW j \in Job
  PROVE  /\ j # NoJob
         /\ j.step \in {"sells", "selling"} => j \in SaleJob
         /\ j.step = "voids" => j \in VoidJob
         /\ j.step \in Noting \cup Unnoting => j \in NoteJob
         /\ j.step = "refunds" => j \in RefundJob
<1>1. j # NoJob
  BY SalesAssumption, ReturnsAssumption DEF Job
<1>2. CASE j \in SaleJob
  BY <1>1, <1>2 DEF SaleJob, Noting, Unnoting
<1>3. CASE j \in VoidJob
  BY <1>1, <1>3 DEF VoidJob, Noting, Unnoting
<1>4. CASE j \in NoteJob
  BY <1>1, <1>4 DEF NoteJob
<1>5. CASE j \in RefundJob
  BY <1>1, <1>5 DEF RefundJob, Noting, Unnoting
<1> QED
  BY <1>2, <1>3, <1>4, <1>5 DEF Job

\* Being told of a commit changes nothing but that it was missed.
Told(j, n) ==
  /\ j \in SaleJob /\ j.step = "selling" /\ n \in SaleJob /\ n.step = "selling"
  /\ n.cash = j.cash /\ n.register = j.register /\ n.number = j.number
  /\ n.quantity = j.quantity

LEMMA NoticeFacts ==
  ASSUME NEW j \in Job \cup {NoJob}, NEW parts, NEW registers
  PROVE  Notice(j, parts, registers) = j \/ Told(j, Notice(j, parts, registers))
<1>1. CASE Misses(j, parts, registers)
  <2>1. j \in SaleJob /\ j.step = "selling"
    BY <1>1, JobFields DEF Misses
  <2>2. Told(j, [j EXCEPT !.missed = TRUE])
    BY <2>1 DEF SaleJob, Told
  <2> QED
    BY <1>1, <2>2 DEF Notice
<1>2. CASE ~Misses(j, parts, registers)
  BY <1>2 DEF Notice
<1> QED
  BY <1>1, <1>2

\* Requests keep what they rely on while registers, sales and notes only come.
LEMMA StepTyped ==
  ASSUME Typed, CashInv', SaleTypeOK', Consecutive', NotesTyped',
         \A c \in Registers : Exists(c) => Exists(c)',
         \A s \in SaleIds : Sold(s) => Sold(s)',
         \A n \in NoteIds : note[n] # NoNote => note'[n] # NoNote,
         job' = [v \in Workers |-> job'[v]],
         \A v \in Workers : \/ job'[v] = NoJob \/ job'[v] = job[v] \/ Told(job[v], job'[v])
                            \/ job'[v] \in Job /\ JobOK(job'[v]),
         \A v \in Workers : At(v, "selling")' =>
           /\ Numbers("S")' = Numbers("S")
           /\ ~At(v, "selling") => \A u \in Workers \ {v} : ~At(u, "selling")'
  PROVE  Typed'
<1>1. ASSUME NEW v \in Workers, job'[v] # NoJob
      PROVE  job'[v] \in Job /\ JobOK(job[v])'
  <2>1. job[v] \in Job \cup {NoJob}
    BY DEF Typed, JobsOK
  <2>2. job'[v] \in Job /\ JobOK(job'[v])
    <3>1. CASE job'[v] = job[v]
      BY <1>1, <2>1, <3>1 DEF Typed, JobsOK, Idle
    <3>2. CASE Told(job[v], job'[v])
      <4>1. job[v] \in Job /\ job[v] # NoJob /\ job'[v] \in Job
        BY <3>2, SalesAssumption DEF Told, Job
      <4>2. JobOK(job[v])
        BY <4>1 DEF Typed, JobsOK, Idle
      <4> QED
        BY <3>2, <4>1, <4>2 DEF Told, JobOK, Noting, Unnoting
    <3> QED
      BY <1>1, <3>1, <3>2
  <2>3. /\ job'[v].step \in {"voids"} \cup Noting \cup Unnoting => job'[v].sale \in SaleIds
        /\ job'[v].step = "selling" => Numbers("S")' = Numbers("S")
    BY <1>1, <2>2, JobFields DEF VoidJob, NoteJob, At, Idle
  <2> QED
    BY <2>2, <2>3 DEF JobOK
<1>2. \A v, u \in Workers : At(v, "selling")' /\ At(u, "selling")' => v = u
  BY DEF Typed, JobsOK
<1> QED
  BY <1>1, <1>2 DEF Typed, JobsOK, Idle

\* A sale keeps its number.
LEMMA SameNumbers ==
  ASSUME Typed, \A s \in SaleIds : Sold(s)' <=> Sold(s),
         \A s \in SaleIds : Sold(s) => /\ sale'[s].series = sale[s].series
                                       /\ sale'[s].number = sale[s].number
  PROVE  Numbers("S")' = Numbers("S") /\ Consecutive'
<1>1. Numbers("S")' = Numbers("S")
  BY DEF Numbers
<1> QED
  BY <1>1 DEF Typed, Consecutive

\* A step of one worker, whatever the others are told.
LEMMA WorkerTyped ==
  ASSUME Typed, CashInv', SaleTypeOK', Consecutive', NotesTyped',
         \A c \in Registers : Exists(c) => Exists(c)',
         \A s \in SaleIds : Sold(s) => Sold(s)',
         \A n \in NoteIds : note[n] # NoNote => note'[n] # NoNote,
         NEW w \in Workers, NEW next \in Job \cup {NoJob}, NEW parts, NEW registers,
         Takes(w, next) \/ Commits(w, next, parts, registers),
         next # NoJob => JobOK(next),
         next # NoJob /\ next.step = "selling" => \A v \in Workers \ {w} : ~At(v, "selling"),
         Numbers("S")' = Numbers("S") \/ (next = NoJob /\ At(w, "selling"))
  PROVE  Typed'
<1>1. /\ job' = [v \in Workers |-> job'[v]] /\ job'[w] = next
      /\ \A v \in Workers \ {w} : \/ job'[v] = job[v]
                                  \/ job'[v] = Notice(job[v], parts, registers)
  BY DEF Takes, Commits, Typed, JobsOK
<1>2. \A v \in Workers \ {w} : job'[v] = job[v] \/ Told(job[v], job'[v])
  BY <1>1, NoticeFacts DEF Typed, JobsOK
<1>3. \A v \in Workers \ {w} : At(v, "selling")' => At(v, "selling")
  BY <1>2, SalesAssumption DEF At, Idle, Told
<1>4. \A v \in Workers : At(v, "selling")' =>
        /\ Numbers("S")' = Numbers("S")
        /\ ~At(v, "selling") => \A u \in Workers \ {v} : ~At(u, "selling")'
  <2> SUFFICES ASSUME NEW v \in Workers, At(v, "selling")'
               PROVE  /\ Numbers("S")' = Numbers("S")
                      /\ ~At(v, "selling") => \A u \in Workers \ {v} : ~At(u, "selling")'
    OBVIOUS
  <2>1. CASE v = w
    BY <1>1, <1>3, <2>1 DEF At, Idle
  <2>2. CASE v # w
    BY <1>3, <2>2 DEF Typed, JobsOK
  <2> QED
    BY <2>1, <2>2
<1>5. \A v \in Workers : \/ job'[v] = NoJob \/ job'[v] = job[v] \/ Told(job[v], job'[v])
                         \/ job'[v] \in Job /\ JobOK(job'[v])
  BY <1>1, <1>2
<1> QED
  BY <1>1, <1>4, <1>5, StepTyped

\* One that leaves the sales and the registers alone.
LEMMA QuietTyped ==
  ASSUME Typed, UNCHANGED <<sale, cashVars>>, stock' \in [Parts -> Int], noted' \subseteq SaleIds,
         NotesTyped', \A n \in NoteIds : note[n] # NoNote => note'[n] # NoNote,
         NEW w \in Workers, NEW next \in Job \cup {NoJob}, NEW parts, NEW registers,
         Takes(w, next) \/ Commits(w, next, parts, registers),
         next # NoJob => JobOK(next),
         next # NoJob /\ next.step = "selling" => \A v \in Workers \ {w} : ~At(v, "selling")
  PROVE  Typed'
<1>1. CashInv' /\ \A c \in Registers : Exists(c) => Exists(c)'
  BY CashUntouched DEF Typed, cashVars, Exists
<1>2. SaleTypeOK' /\ \A s \in SaleIds : Sold(s)' <=> Sold(s)
  BY DEF Typed, SaleTypeOK, Sold
<1>3. Numbers("S")' = Numbers("S") /\ Consecutive'
  BY <1>2, SameNumbers
<1> QED
  BY <1>1, <1>2, <1>3, WorkerTyped

-----------------------------------------------------------------------------
(* Types: sales. *)

\* After 1 to k comes k + 1.
LEMMA NextAfter ==
  ASSUME NEW k \in Nat
  PROVE  NextNumber(1 .. k) = k + 1
<1> DEFINE S == (1 .. k) \cup {0}
           h == CHOOSE n \in S : \A m \in S : m <= n
<1>1. k \in S /\ \A m \in S : m <= k
  OBVIOUS
<1>2. h \in S /\ \A m \in S : m <= h
  BY <1>1
<1>3. NextNumber(1 .. k) = 1 + h
  BY DEF NextNumber
<1> HIDE DEF h
<1>4. h = k
  BY <1>1, <1>2
<1> QED
  BY <1>3, <1>4

\* What a worker at a step has, by its type and by what it relies on.
LEMMA AtFacts ==
  ASSUME Typed, NEW w \in Workers, ~Idle(w)
  PROVE  /\ job[w] \in Job /\ JobOK(job[w])
         /\ job[w].step \in {"sells", "selling"} => job[w] \in SaleJob
         /\ job[w].step = "voids" => job[w] \in VoidJob
         /\ job[w].step \in Noting \cup Unnoting => job[w] \in NoteJob
         /\ job[w].step = "refunds" => job[w] \in RefundJob
<1>1. job[w] \in Job /\ JobOK(job[w])
  BY DEF Typed, JobsOK, Idle
<1> QED
  BY <1>1, JobFields

\* Notes stay as they are, and so do their sales.
LEMMA NotesStay ==
  ASSUME Typed, UNCHANGED <<note, halfway>>, \A s \in SaleIds : Sold(s) => Sold(s)'
  PROVE  NotesTyped' /\ \A n \in NoteIds : note[n] # NoNote => note'[n] # NoNote
<1>1. \A n \in NoteIds : note[n] # NoNote => note[n].sale \in SaleIds
  BY DEF Typed, NotesTyped, NoteRow
<1> QED
  BY <1>1 DEF Typed, NotesTyped

\* Reads, and the request that inserts a sale.
LEMMA SaleReadsTyped ==
  ASSUME Typed, UNCHANGED <<note, halfway>>, NEW w \in Workers,
         \/ \E p \in Parts, n \in Quantities, cash \in BOOLEAN : SaleReads(w, p, n, cash)
         \/ SaleBegins(w)
         \/ \E s \in SaleIds : VoidReads(w, s)
  PROVE  Typed'
<1>1. /\ UNCHANGED <<sale, cashVars>> /\ stock' \in [Parts -> Int] /\ noted' \subseteq SaleIds
      /\ NotesTyped' /\ \A n \in NoteIds : note[n] # NoNote => note'[n] # NoNote
  BY DEF SaleReads, SaleBegins, VoidReads, counter, Typed, SaleTypeOK, NotesTyped, Sold
<1>2. ASSUME NEW p \in Parts, NEW n \in Quantities, NEW cash \in BOOLEAN, SaleReads(w, p, n, cash)
      PROVE  Typed'
  <2>1. PICK c \in Registers \cup {NoRegister} :
          /\ cash => c \in Registers /\ Exists(c)
          /\ Takes(w, [step |-> "sells", part |-> p, quantity |-> n, cash |-> cash,
                       register |-> c, number |-> 0, missed |-> FALSE])
    BY <1>2 DEF SaleReads, IsOpen
  <2> DEFINE next == [step |-> "sells", part |-> p, quantity |-> n, cash |-> cash,
                      register |-> c, number |-> 0, missed |-> FALSE]
  <2>2. next \in Job
    BY SalesAssumption DEF Job, SaleJob
  <2>3. JobOK(next)
    BY <2>1 DEF JobOK, Noting, Unnoting
  <2>4. next.step = "sells" /\ Takes(w, next)
    BY <2>1
  <2> HIDE DEF next
  <2> QED
    BY <1>1, <2>2, <2>3, <2>4, QuietTyped
<1>3. ASSUME SaleBegins(w) PROVE Typed'
  <2> DEFINE n == NextNumber(Numbers("S"))
             next == [job[w] EXCEPT !.step = "selling", !.number = n]
  <2>1. job[w] \in SaleJob /\ JobOK(job[w]) /\ job[w].step = "sells"
    BY <1>3, AtFacts DEF SaleBegins, At
  <2>2. n \in Nat
    BY NextAfter DEF Typed, Consecutive
  <2> HIDE DEF n
  <2>3. /\ next \in SaleJob /\ next.step = "selling" /\ next.number = n
        /\ next.cash = job[w].cash /\ next.register = job[w].register
    BY <2>1, <2>2 DEF SaleJob
  <2>4. JobOK(next)
    BY <2>1, <2>3 DEF JobOK, Noting, Unnoting, n
  <2>5. Takes(w, next) /\ \A v \in Workers : At(v, "selling") => job[v].number # n
    BY <1>3 DEF SaleBegins, n
  <2>6. \A v \in Workers : ~At(v, "selling")
    BY <2>5 DEF Typed, JobsOK, JobOK, At, n
  <2>7. next \in Job
    BY <2>3 DEF Job
  <2> HIDE DEF next
  <2> QED
    BY <1>1, <2>4, <2>5, <2>6, <2>7, QuietTyped
<1>4. ASSUME NEW s \in SaleIds, VoidReads(w, s) PROVE Typed'
  <2>1. PICK c \in Registers \cup {NoRegister} :
          /\ c \in Registers => Exists(c)
          /\ Takes(w, [step |-> "voids", sale |-> s, register |-> c])
    BY <1>4, CashAssumption DEF VoidReads, IsOpen
  <2> DEFINE next == [step |-> "voids", sale |-> s, register |-> c]
  <2>2. next \in Job
    BY DEF Job, VoidJob
  <2>3. JobOK(next)
    BY <1>4, <2>1 DEF JobOK, Noting, Unnoting, VoidReads
  <2>4. next.step = "voids" /\ Takes(w, next)
    BY <2>1
  <2> HIDE DEF next
  <2> QED
    BY <1>1, <2>2, <2>3, <2>4, QuietTyped
<1> QED
  BY <1>2, <1>3, <1>4

\* A sale takes the next number.
LEMMA SaleCommitTyped ==
  ASSUME Typed, UNCHANGED <<note, halfway>>, NEW w \in Workers, SaleCommits(w)
  PROVE  Typed'
<1> DEFINE j == job[w]
           row == NewSale(j, "S", NoQuote)
<1>1. j \in SaleJob /\ JobOK(j) /\ j.step = "selling" /\ At(w, "selling")
  BY AtFacts DEF SaleCommits, At
<1>2. PICK s \in SaleIds : ~Sold(s) /\ sale' = [sale EXCEPT ![s] = row]
  BY DEF SaleCommits, FreshSales
<1>3. /\ stock' = [stock EXCEPT ![j.part] = stock[j.part] - j.quantity]
      /\ IF j.cash THEN RecordEntry(j.register, "INCOME", j.quantity)
                   ELSE UNCHANGED <<register, entries>>
      /\ Commits(w, NoJob, {j.part}, {j.register})
      /\ UNCHANGED <<noted, call>>
  BY DEF SaleCommits
<1>4. /\ j.part \in Parts /\ j.quantity \in Nat /\ j.cash \in BOOLEAN /\ j.number \in Nat
      /\ j.cash => j.register \in Registers /\ Exists(j.register)
      /\ j.number = NextNumber(Numbers("S"))
  BY <1>1 DEF JobOK, SaleJob
<1>5. row \in SaleRow /\ row.series = "S" /\ row.number = j.number
  BY <1>4 DEF NewSale, SaleRow, SaleStatus, Series
<1>6. CashInv' /\ \A c \in Registers : Exists(c) => Exists(c)'
  <2>1. CASE j.cash
    BY <1>3, <1>4, <2>1, CashCommits DEF EntryTypes, Typed
  <2>2. CASE ~j.cash
    BY <1>3, <2>2, CashUntouched DEF cashVars, Exists, Typed
  <2> QED
    BY <2>1, <2>2
<1> HIDE DEF row
<1>7. /\ sale'[s] = row /\ \A t \in SaleIds \ {s} : sale'[t] = sale[t]
      /\ SaleTypeOK'
  BY <1>2, <1>3, <1>4, <1>5 DEF Typed, SaleTypeOK
<1>8. Sold(s)' /\ \A t \in SaleIds \ {s} : Sold(t)' <=> Sold(t)
  BY <1>5, <1>7, SalesAssumption DEF Sold
<1>9. Consecutive'
  <2>1. PICK k \in Nat : Numbers("S") = 1 .. k
    BY DEF Typed, Consecutive
  <2>2. row.number = k + 1
    BY <1>4, <1>5, <2>1, NextAfter
  <2> DEFINE T == {t \in SaleIds : Sold(t) /\ sale[t].series = "S"}
  <2>3. T' = T \cup {s} /\ s \notin T
    BY <1>2, <1>5, <1>7, <1>8
  <2>4. Numbers("S") = {sale[t].number : t \in T} /\ Numbers("S")' = {sale'[t].number : t \in T'}
    BY DEF Numbers
  <2>5. \A t \in T : sale'[t].number = sale[t].number
    BY <1>7, <2>3
  <2> HIDE DEF T
  <2>6. Numbers("S")' = Numbers("S") \cup {row.number}
    BY <1>7, <2>3, <2>4, <2>5
  <2>7. Numbers("S")' = 1 .. k + 1
    <3>1. 1 .. k + 1 = (1 .. k) \cup {k + 1}
      OBVIOUS
    <3> QED
      BY <2>1, <2>2, <2>6, <3>1
  <2> QED
    BY <2>1, <2>7 DEF Consecutive
<1>10. NotesTyped' /\ \A n \in NoteIds : note[n] # NoNote => note'[n] # NoNote
  BY <1>8, NotesStay
<1> QED
  BY <1>1, <1>3, <1>6, <1>7, <1>8, <1>9, <1>10, WorkerTyped

\* A sale that is sold keeps everything but its status.
LEMMA RatedSale ==
  ASSUME Typed, NEW s \in SaleIds, Sold(s), NEW to \in SaleStatus,
         sale' = [sale EXCEPT ![s] = [sale[s] EXCEPT !.status = to]],
         stock' \in [Parts -> Int], noted' \subseteq SaleIds
  PROVE  /\ SaleTypeOK' /\ Numbers("S")' = Numbers("S") /\ Consecutive'
         /\ \A t \in SaleIds : Sold(t)' <=> Sold(t)
         /\ \A t \in SaleIds \ {s} : sale'[t] = sale[t]
         /\ sale'[s].status = to
         /\ sale'[s].quantity = sale[s].quantity /\ sale'[s].part = sale[s].part
<1> DEFINE row == [sale[s] EXCEPT !.status = to]
<1>1. sale[s] \in SaleRow
  BY DEF Typed, SaleTypeOK, Sold
<1>2. /\ row \in SaleRow /\ row.status = to
      /\ row.series = sale[s].series /\ row.number = sale[s].number
      /\ row.quantity = sale[s].quantity /\ row.part = sale[s].part
  BY <1>1 DEF SaleRow
<1> HIDE DEF row
<1>3. /\ sale'[s] = row /\ \A t \in SaleIds \ {s} : sale'[t] = sale[t]
      /\ SaleTypeOK'
  BY <1>2 DEF Typed, SaleTypeOK, row
<1>4. \A t \in SaleIds : Sold(t)' <=> Sold(t)
  BY <1>2, <1>3, SalesAssumption DEF Sold
<1> QED
  BY <1>2, <1>3, <1>4, SameNumbers

LEMMA VoidCommitTyped ==
  ASSUME Typed, UNCHANGED <<note, halfway>>, NEW w \in Workers, VoidCommits(w)
  PROVE  Typed'
<1> DEFINE s == job[w].sale
           c == job[w].register
<1>1. job[w] \in VoidJob /\ JobOK(job[w]) /\ job[w].step = "voids"
  BY AtFacts DEF VoidCommits, At
<1>2. s \in SaleIds /\ Sold(s) /\ (c \in Registers => Exists(c)) /\ sale[s] \in SaleRow
  BY <1>1 DEF VoidJob, JobOK, Typed, SaleTypeOK, Sold
<1>3. /\ sale' = [sale EXCEPT ![s] = [sale[s] EXCEPT !.status = "VOIDED"]]
      /\ stock' = Restock(s, "VOIDED")
      /\ IF c \in Registers THEN RecordEntry(c, "EXPENSE", sale[s].quantity)
                            ELSE UNCHANGED <<register, entries>>
      /\ \E parts, registers : Commits(w, NoJob, parts, registers)
      /\ UNCHANGED <<noted, call>>
  BY DEF VoidCommits
<1>4. sale[s].quantity \in Nat /\ sale[s].part \in Parts
  BY <1>2 DEF SaleRow
<1>5. stock' \in [Parts -> Int] /\ noted' \subseteq SaleIds
  BY <1>3, <1>4 DEF Restock, Typed, SaleTypeOK
<1>6. CashInv' /\ \A d \in Registers : Exists(d) => Exists(d)'
  <2>1. CASE c \in Registers
    BY <1>2, <1>3, <1>4, <2>1, CashCommits DEF EntryTypes, Typed
  <2>2. CASE c \notin Registers
    BY <1>3, <2>2, CashUntouched DEF cashVars, Exists, Typed
  <2> QED
    BY <2>1, <2>2
<1>7. /\ SaleTypeOK' /\ Numbers("S")' = Numbers("S") /\ Consecutive'
      /\ \A t \in SaleIds : Sold(t)' <=> Sold(t)
  BY <1>2, <1>3, <1>5, RatedSale DEF SaleStatus
<1>8. NotesTyped' /\ \A n \in NoteIds : note[n] # NoNote => note'[n] # NoNote
  BY <1>7, NotesStay
<1> QED
  BY <1>3, <1>6, <1>7, <1>8, WorkerTyped

LEMMA RegisteringTyped ==
  ASSUME Typed, UNCHANGED <<note, halfway>>, Registering
  PROVE  Typed'
<1>1. CashInv' /\ \A c \in Registers : Exists(c) => Exists(c)'
  BY CashStepKeeps DEF Registering, Typed
<1>2. SaleTypeOK' /\ \A s \in SaleIds : (Sold(s)' <=> Sold(s)) /\ sale'[s] = sale[s]
  BY DEF Registering, counter, Typed, SaleTypeOK, Sold
<1>3. Numbers("S")' = Numbers("S") /\ Consecutive'
  BY <1>2, SameNumbers
<1>4. /\ job' = [v \in Workers |-> job'[v]]
      /\ \A v \in Workers : job'[v] = job[v] \/ Told(job[v], job'[v])
  BY NoticeFacts DEF Registering, Typed, JobsOK
<1>5. \A v \in Workers : At(v, "selling")' => At(v, "selling")
  BY <1>4, SalesAssumption DEF At, Idle, Told
<1>6. NotesTyped' /\ \A n \in NoteIds : note[n] # NoNote => note'[n] # NoNote
  BY <1>2, NotesStay
<1> QED
  BY <1>1, <1>2, <1>3, <1>4, <1>5, <1>6, StepTyped

-----------------------------------------------------------------------------
(* Types: credit notes. *)

\* The units of lines are a number.
LEMMA LinesType ==
  ASSUME NEW lines \in NoteLines
  PROVE  SumFunction(lines) \in Nat
<1>1. IsFiniteSet(Lines) /\ DOMAIN lines = Lines /\ \A l \in Lines : lines[l] \in Nat
  BY IdsAssumption DEF NoteLines
<1>2. SumFunctionOnSet(lines, Lines) \in Nat
  BY <1>1, SumType
<1> QED
  BY <1>1, <1>2 DEF SumFunction

\* What came back of a sale is a number of units, and of money.
LEMMA ReturnedType ==
  ASSUME Typed, NEW s
  PROVE  /\ IsFiniteSet(NotesOf(s)) /\ Returned(s) \in Nat /\ Refunded(s) \in Nat
         /\ \A n \in NotesOf(s) : Units(n) \in Nat /\ note[n].total \in Nat
<1> DEFINE f == [n \in NotesOf(s) |-> Units(n)]
           g == [n \in NotesOf(s) |-> note[n].total]
<1>1. \A n \in NotesOf(s) : note[n].lines \in NoteLines /\ note[n].total \in Nat
  BY DEF NotesOf, Live, Typed, NotesTyped, NoteRow
<1>2. \A n \in NotesOf(s) : Units(n) \in Nat
  BY <1>1, LinesType DEF Units
<1>3. IsFiniteSet(NotesOf(s)) /\ \A n \in NotesOf(s) : f[n] \in Nat /\ g[n] \in Nat
  BY <1>1, <1>2, IdsAssumption, FS_Subset DEF NotesOf
<1>4. /\ Returned(s) = SumFunctionOnSet(f, NotesOf(s))
      /\ Refunded(s) = SumFunctionOnSet(g, NotesOf(s))
  BY DEF Returned, Refunded, SumFunction
<1> HIDE DEF f, g
<1>5. Returned(s) \in Nat
  BY <1>3, <1>4, SumType
<1>6. Refunded(s) \in Nat
  BY <1>3, <1>4, SumType
<1> QED
  BY <1>1, <1>2, <1>3, <1>5, <1>6

\* Creating a note: the sale is there, whatever becomes of it.
LEMMA NoteReadsTyped ==
  ASSUME Typed, UNCHANGED halfway, NEW w \in Workers,
         \/ \E s \in SaleIds, lines \in [Lines -> Quantities \cup {0}], total \in NoteTotals :
              NoteReads(w, s, lines, total)
         \/ NoteCreates(w) \/ NoteSums(w)
  PROVE  Typed'
<1>1. ASSUME NEW s \in SaleIds, NEW lines \in [Lines -> Quantities \cup {0}],
             NEW total \in NoteTotals, NoteReads(w, s, lines, total)
      PROVE  Typed'
  <2> DEFINE next == [step |-> "notes", sale |-> s, lines |-> lines, todo |-> Used(lines),
                      total |-> total, was |-> sale[s].status, note |-> NoNote, returned |-> 0]
  <2>1. /\ Sold(s) /\ Takes(w, next) /\ UNCHANGED <<counter, cashVars, note>>
    BY <1>1 DEF NoteReads
  <2>2. /\ sale[s].status \in SaleStatus /\ total \in Nat
        /\ lines \in NoteLines /\ Used(lines) \in SUBSET Lines
    <3>1. sale[s].status \in SaleStatus
      BY <2>1 DEF Typed, SaleTypeOK, Sold, SaleRow
    <3>2. Quantities \cup {0} \subseteq Nat
      BY SalesAssumption
    <3>3. lines \in NoteLines
      BY <3>2 DEF NoteLines
    <3> QED
      BY <3>1, <3>3, ReturnsAssumption DEF Used
  <2>3. next \in Job /\ next.step = "notes" /\ next.sale = s
    BY <2>2 DEF Job, NoteJob
  <2> HIDE DEF next
  <2>4. JobOK(next)
    BY <2>1, <2>3 DEF JobOK, Noting, Unnoting
  <2>5. NotesTyped' /\ stock' \in [Parts -> Int] /\ noted' \subseteq SaleIds
    BY <2>1 DEF counter, Typed, NotesTyped, SaleTypeOK, Sold
  <2> QED
    BY <2>1, <2>3, <2>4, <2>5, QuietTyped DEF counter
<1>2. ASSUME NoteCreates(w) PROVE Typed'
  <2> DEFINE row == [sale |-> job[w].sale, lines |-> job[w].lines, total |-> job[w].total,
                     status |-> "PENDING"]
  <2>1. PICK n \in FreshNotes :
          /\ note' = [note EXCEPT ![n] = row]
          /\ Takes(w, [job[w] EXCEPT !.step = "restocks", !.note = n])
    BY <1>2 DEF NoteCreates
  <2> DEFINE next == [job[w] EXCEPT !.step = "restocks", !.note = n]
  <2>2. job[w] \in NoteJob /\ JobOK(job[w]) /\ job[w].step = "notes"
    BY <1>2, AtFacts DEF NoteCreates, At, Noting
  <2>3. n \in NoteIds /\ next \in NoteJob /\ next.step = "restocks" /\ next.sale = job[w].sale
    BY <2>2 DEF NoteJob, FreshNotes
  <2>4. next \in Job /\ JobOK(next)
    BY <2>2, <2>3 DEF Job, JobOK, Noting, Unnoting
  <2>5. row \in NoteRow /\ row.sale = job[w].sale
    BY <2>2 DEF NoteJob, NoteRow
  <2> HIDE DEF row, next
  <2>6. NotesTyped' /\ \A m \in NoteIds : note[m] # NoNote => note'[m] # NoNote
    <3>1. /\ note' = [note EXCEPT ![n] = row] /\ row # NoNote /\ UNCHANGED <<sale, halfway>>
          /\ Sold(job[w].sale)
      BY <1>2, <2>1, <2>2, <2>5, ReturnsAssumption DEF NoteCreates, JobOK, Noting
    <3> QED
      BY <2>3, <2>5, <3>1 DEF Typed, NotesTyped, Sold
  <2>7. /\ UNCHANGED <<sale, cashVars>> /\ stock' \in [Parts -> Int]
        /\ noted' \subseteq SaleIds
    BY <1>2, <2>2 DEF NoteCreates, NoteJob, Typed, SaleTypeOK
  <2>8. Takes(w, next) /\ next.step # "selling"
    BY <2>1, <2>3 DEF next
  <2> QED
    BY <2>4, <2>6, <2>7, <2>8, QuietTyped
<1>3. ASSUME NoteSums(w) PROVE Typed'
  <2> DEFINE next == [job[w] EXCEPT !.step = "rates", !.returned = Refunded(job[w].sale)]
  <2>1. job[w] \in NoteJob /\ JobOK(job[w]) /\ job[w].step = "restocks"
    BY <1>3, AtFacts DEF NoteSums, At, Noting
  <2>2. Sold(job[w].sale)
    BY <2>1 DEF JobOK, Noting
  <2>3. next \in NoteJob /\ next.step = "rates" /\ next.sale = job[w].sale
    BY <2>1, ReturnedType DEF NoteJob
  <2>4. Takes(w, next) /\ UNCHANGED <<counter, cashVars, note>>
    BY <1>3 DEF NoteSums
  <2> HIDE DEF next
  <2>5. next \in Job /\ JobOK(next)
    BY <2>2, <2>3 DEF Job, JobOK, Noting, Unnoting
  <2>6. NotesTyped' /\ stock' \in [Parts -> Int] /\ noted' \subseteq SaleIds
    BY <2>4 DEF counter, Typed, NotesTyped, SaleTypeOK, Sold
  <2> QED
    BY <2>3, <2>4, <2>5, <2>6, QuietTyped DEF counter
<1> QED
  BY <1>1, <1>2, <1>3

\* The stock is moved line by line, of a new note and of one that is cancelled.
LEMMA MovesTyped ==
  ASSUME Typed, UNCHANGED halfway, NEW w \in Workers, NoteRestocks(w) \/ CancelTakesStock(w)
  PROVE  Typed'
<1>1. PICK s, p, next, by :
        /\ s = job[w].sale /\ p = sale[s].part
        /\ \E l \in job[w].todo :
             /\ by \in {job[w].lines[l], -job[w].lines[l]}
             /\ next = [job[w] EXCEPT !.todo = job[w].todo \ {l}]
        /\ stock' = [stock EXCEPT ![p] = stock[p] + by]
        /\ Commits(w, next, {p}, {}) /\ UNCHANGED <<sale, noted, note, cashVars>>
  BY DEF NoteRestocks, CancelTakesStock, Moves
<1>2. job[w] \in NoteJob /\ JobOK(job[w]) /\ job[w].step \in {"restocks", "cancels"}
  BY AtFacts DEF NoteRestocks, CancelTakesStock, At, Noting, Unnoting
<1>3. Sold(s) /\ s \in SaleIds
  BY <1>1, <1>2 DEF NoteJob, JobOK, Noting, Unnoting
<1>4. p \in Parts
  BY <1>1, <1>3 DEF Typed, SaleTypeOK, Sold, SaleRow
<1>5. /\ next \in NoteJob /\ next.step = job[w].step /\ next.sale = s /\ next.note = job[w].note
      /\ by \in Int
  BY <1>1, <1>2 DEF NoteJob, NoteLines
<1>6. next \in Job /\ JobOK(next)
  BY <1>2, <1>3, <1>5 DEF Job, JobOK, Noting, Unnoting
<1>7. stock' \in [Parts -> Int] /\ noted' \subseteq SaleIds /\ NotesTyped'
  BY <1>1, <1>4, <1>5 DEF Typed, SaleTypeOK, NotesTyped, Sold
<1> QED
  BY <1>1, <1>2, <1>5, <1>6, <1>7, QuietTyped

\* The status of the sale is written last.
LEMMA RatesTyped ==
  ASSUME Typed, UNCHANGED halfway, NEW w \in Workers, NoteRates(w) \/ CancelRates(w)
  PROVE  Typed'
<1>1. job[w] \in NoteJob /\ JobOK(job[w]) /\ job[w].step \in {"rates", "resets"}
  BY AtFacts DEF NoteRates, CancelRates, At, Noting, Unnoting
<1> DEFINE s == job[w].sale
<1>2. s \in SaleIds /\ Sold(s) /\ job[w].was \in SaleStatus
  BY <1>1 DEF NoteJob, JobOK, Noting, Unnoting
<1>3. \/ UNCHANGED sale
      \/ \E to \in SaleStatus : sale' = [sale EXCEPT ![s] = [sale[s] EXCEPT !.status = to]]
  BY <1>2 DEF NoteRates, CancelRates, Rates, StatusFor, SaleStatus
<1>4. Takes(w, NoJob) /\ UNCHANGED <<stock, noted, cashVars, note>>
  BY DEF NoteRates, CancelRates
<1>5. stock' \in [Parts -> Int] /\ noted' \subseteq SaleIds
  BY <1>4 DEF Typed, SaleTypeOK
<1>6. CASE UNCHANGED sale
  <2>1. NotesTyped' /\ \A n \in NoteIds : note[n] # NoNote => note'[n] # NoNote
    BY <1>4, <1>6, NotesStay DEF Sold
  <2> QED
    BY <1>4, <1>5, <1>6, <2>1, QuietTyped
<1>7. ASSUME NEW to \in SaleStatus, sale' = [sale EXCEPT ![s] = [sale[s] EXCEPT !.status = to]]
      PROVE  Typed'
  <2>1. /\ SaleTypeOK' /\ Numbers("S")' = Numbers("S") /\ Consecutive'
        /\ \A t \in SaleIds : Sold(t)' <=> Sold(t)
    BY <1>2, <1>5, <1>7, RatedSale
  <2>2. CashInv' /\ \A c \in Registers : Exists(c) => Exists(c)'
    BY <1>4, CashUntouched DEF Typed, cashVars, Exists
  <2>3. NotesTyped' /\ \A n \in NoteIds : note[n] # NoNote => note'[n] # NoNote
    BY <1>4, <2>1, NotesStay
  <2> QED
    BY <1>4, <1>5, <2>1, <2>2, <2>3, WorkerTyped
<1> QED
  BY <1>3, <1>6, <1>7

\* A note is there, and only its status changes.
LEMMA MarkedNote ==
  ASSUME Typed, NEW n \in NoteIds, note[n] # NoNote, NEW to \in {"PROCESSED", "CANCELLED"},
         note' = [note EXCEPT ![n] = [note[n] EXCEPT !.status = to]],
         UNCHANGED <<sale, halfway>>
  PROVE  /\ NotesTyped' /\ \A m \in NoteIds : note'[m] # NoNote <=> note[m] # NoNote
         /\ \A m \in NoteIds \ {n} : note'[m] = note[m]
         /\ note'[n].sale = note[n].sale /\ note'[n].lines = note[n].lines
         /\ note'[n].total = note[n].total /\ note'[n].status = to
<1> DEFINE row == [note[n] EXCEPT !.status = to]
<1>1. /\ row \in NoteRow /\ row.sale = note[n].sale /\ row.lines = note[n].lines
      /\ row.total = note[n].total /\ row.status = to
  BY DEF Typed, NotesTyped, NoteRow
<1> HIDE DEF row
<1>2. note' = [note EXCEPT ![n] = row] /\ row # NoNote
  BY <1>1, ReturnsAssumption DEF row
<1> QED
  BY <1>1, <1>2 DEF Typed, NotesTyped, Sold

LEMMA RefundsTyped ==
  ASSUME Typed, UNCHANGED halfway, NEW w \in Workers,
         (\E n \in NoteIds : RefundReads(w, n)) \/ RefundWrites(w)
  PROVE  Typed'
<1>1. ASSUME NEW n \in NoteIds, RefundReads(w, n) PROVE Typed'
  <2> DEFINE next == [step |-> "refunds", note |-> n]
  <2>1. note[n] # NoNote /\ Takes(w, next) /\ UNCHANGED <<counter, cashVars, note>>
    BY <1>1 DEF RefundReads
  <2>2. next \in Job /\ JobOK(next)
    BY <2>1 DEF Job, RefundJob, JobOK, Noting, Unnoting
  <2>3. NotesTyped' /\ stock' \in [Parts -> Int] /\ noted' \subseteq SaleIds
    BY <2>1 DEF counter, Typed, NotesTyped, SaleTypeOK, Sold
  <2>4. next.step = "refunds"
    OBVIOUS
  <2> HIDE DEF next
  <2> QED
    BY <2>1, <2>2, <2>3, <2>4, QuietTyped DEF counter
<1>2. ASSUME RefundWrites(w) PROVE Typed'
  <2>1. job[w] \in RefundJob /\ JobOK(job[w]) /\ job[w].step = "refunds"
    BY <1>2, AtFacts DEF RefundWrites, At
  <2>2. job[w].note \in NoteIds /\ note[job[w].note] # NoNote
    BY <2>1 DEF JobOK
  <2>3. /\ Takes(w, NoJob) /\ UNCHANGED <<counter, cashVars>>
        /\ note' = [note EXCEPT ![job[w].note] = [note[job[w].note] EXCEPT !.status = "PROCESSED"]]
    BY <1>2 DEF RefundWrites
  <2>4. NotesTyped' /\ \A m \in NoteIds : note[m] # NoNote => note'[m] # NoNote
    BY <2>2, <2>3, MarkedNote DEF counter
  <2>5. stock' \in [Parts -> Int] /\ noted' \subseteq SaleIds
    BY <2>3 DEF counter, Typed, SaleTypeOK
  <2> QED
    BY <2>3, <2>4, <2>5, QuietTyped DEF counter
<1> QED
  BY <1>1, <1>2

LEMMA CancelsTyped ==
  ASSUME Typed, UNCHANGED halfway, NEW w \in Workers,
         \/ \E n \in NoteIds : CancelReads(w, n)
         \/ CancelMarks(w) \/ CancelSums(w)
  PROVE  Typed'
<1>1. ASSUME NEW n \in NoteIds, CancelReads(w, n) PROVE Typed'
  <2> DEFINE s == note[n].sale
             next == [step |-> "cancels", sale |-> s, lines |-> note[n].lines,
                      todo |-> Used(note[n].lines), total |-> note[n].total,
                      was |-> sale[s].status, note |-> n, returned |-> 0]
  <2>1. note[n] # NoNote /\ Takes(w, next) /\ UNCHANGED <<counter, cashVars, note>>
    BY <1>1 DEF CancelReads
  <2>2. /\ s \in SaleIds /\ note[n].lines \in NoteLines /\ note[n].total \in Nat /\ Sold(s)
        /\ Used(note[n].lines) \in SUBSET Lines
    BY <2>1 DEF Typed, NotesTyped, NoteRow, Used
  <2>3. sale[s].status \in SaleStatus
    BY <2>2 DEF Typed, SaleTypeOK, Sold, SaleRow
  <2>4. next \in Job /\ next.step = "cancels" /\ next.sale = s /\ next.note = n
    BY <2>2, <2>3 DEF Job, NoteJob
  <2> HIDE DEF next
  <2>5. JobOK(next)
    BY <2>1, <2>2, <2>4 DEF JobOK, Noting, Unnoting
  <2>6. NotesTyped' /\ stock' \in [Parts -> Int] /\ noted' \subseteq SaleIds
    BY <2>1 DEF counter, Typed, NotesTyped, SaleTypeOK, Sold
  <2> QED
    BY <2>1, <2>4, <2>5, <2>6, QuietTyped DEF counter
<1>2. ASSUME CancelMarks(w) PROVE Typed'
  <2> DEFINE next == [job[w] EXCEPT !.step = "recounts"]
  <2>1. job[w] \in NoteJob /\ JobOK(job[w]) /\ job[w].step = "cancels"
    BY <1>2, AtFacts DEF CancelMarks, At, Unnoting
  <2>2. Sold(job[w].sale) /\ job[w].note \in NoteIds /\ note[job[w].note] # NoNote
    BY <2>1 DEF JobOK, Unnoting
  <2>3. next \in NoteJob /\ next.step = "recounts" /\ next.sale = job[w].sale
    BY <2>1 DEF NoteJob
  <2>4. /\ Takes(w, next) /\ UNCHANGED <<counter, cashVars>>
        /\ note' = [note EXCEPT ![job[w].note] = [note[job[w].note] EXCEPT !.status = "CANCELLED"]]
    BY <1>2 DEF CancelMarks
  <2> HIDE DEF next
  <2>5. next \in Job /\ JobOK(next)
    BY <2>2, <2>3 DEF Job, JobOK, Noting, Unnoting
  <2>6. NotesTyped' /\ \A m \in NoteIds : note[m] # NoNote => note'[m] # NoNote
    BY <2>2, <2>4, MarkedNote DEF counter
  <2>7. stock' \in [Parts -> Int] /\ noted' \subseteq SaleIds
    BY <2>4 DEF counter, Typed, SaleTypeOK
  <2> QED
    BY <2>3, <2>4, <2>5, <2>6, <2>7, QuietTyped DEF counter
<1>3. ASSUME CancelSums(w) PROVE Typed'
  <2> DEFINE next == [job[w] EXCEPT !.step = "resets", !.returned = Refunded(job[w].sale)]
  <2>1. job[w] \in NoteJob /\ JobOK(job[w]) /\ job[w].step = "recounts"
    BY <1>3, AtFacts DEF CancelSums, At, Unnoting
  <2>2. Sold(job[w].sale)
    BY <2>1 DEF JobOK, Unnoting
  <2>3. next \in NoteJob /\ next.step = "resets" /\ next.sale = job[w].sale
    BY <2>1, ReturnedType DEF NoteJob
  <2>4. Takes(w, next) /\ UNCHANGED <<counter, cashVars, note>>
    BY <1>3 DEF CancelSums
  <2> HIDE DEF next
  <2>5. next \in Job /\ JobOK(next)
    BY <2>2, <2>3 DEF Job, JobOK, Noting, Unnoting
  <2>6. NotesTyped' /\ stock' \in [Parts -> Int] /\ noted' \subseteq SaleIds
    BY <2>4 DEF counter, Typed, NotesTyped, SaleTypeOK, Sold
  <2> QED
    BY <2>3, <2>4, <2>5, <2>6, QuietTyped DEF counter
<1> QED
  BY <1>1, <1>2, <1>3

-----------------------------------------------------------------------------
(* Types: every step. *)

LEMMA StopsTyped ==
  ASSUME Typed, NEW w \in Workers, Stops(w)
  PROVE  Typed'
<1>1. /\ Takes(w, NoJob) /\ UNCHANGED <<counter, cashVars, note>>
      /\ halfway' \in BOOLEAN
  BY DEF Stops, Fails, Committed
<1>2. NotesTyped' /\ stock' \in [Parts -> Int] /\ noted' \subseteq SaleIds
  BY <1>1 DEF counter, Typed, NotesTyped, SaleTypeOK, Sold
<1> QED
  BY <1>1, <1>2, QuietTyped DEF counter

LEMMA NextTyped == ASSUME Typed, [Next]_vars PROVE Typed'
<1>1. CASE Selling /\ UNCHANGED <<note, halfway>>
  BY <1>1, RegisteringTyped, SaleReadsTyped, SaleCommitTyped, VoidCommitTyped
     DEF Selling, SaleSteps
<1>2. ASSUME NEW w \in Workers, NoteSteps(w), UNCHANGED halfway PROVE Typed'
  BY <1>2, NoteReadsTyped, MovesTyped, RatesTyped, RefundsTyped, CancelsTyped DEF NoteSteps
<1>3. CASE UNCHANGED vars
  <2>1. CashInv'
    BY <1>3, CashUntouched DEF vars, Typed
  <2>2. SaleTypeOK' /\ Consecutive' /\ NotesTyped'
    BY <1>3 DEF vars, saleVars, Typed, SaleTypeOK, Consecutive, NotesTyped, Numbers, Sold
  <2>3. JobsOK'
    BY <1>3 DEF vars, saleVars, cashVars, Typed, JobsOK, JobOK, At, Idle, Sold, Exists, Numbers
  <2> QED
    BY <2>1, <2>2, <2>3 DEF Typed
<1> QED
  BY <1>1, <1>2, <1>3, StopsTyped DEF Next

LEMMA TypedStarts == ASSUME Init PROVE Typed
<1>1. CashInv
  BY CashStarts DEF Init
<1>2. SaleTypeOK /\ NotesTyped
  <2>1. OpeningStock \in [Parts -> Int]
    BY SalesAssumption
  <2>2. SaleTypeOK
    BY <2>1 DEF Init, SaleInit, SaleTypeOK
  <2>3. NotesTyped
    BY DEF Init, NotesTyped
  <2> QED
    BY <2>2, <2>3
<1>3. \A s \in SaleIds : ~Sold(s)
  BY DEF Init, SaleInit, Sold
<1>4. Consecutive
  <2>1. Numbers("S") = 1 .. 0
    BY <1>3 DEF Numbers
  <2> QED
    BY <2>1 DEF Consecutive
<1>5. JobsOK
  BY DEF Init, SaleInit, JobsOK, At, Idle
<1> QED
  BY <1>1, <1>2, <1>4, <1>5 DEF Typed

LEMMA TypedInvariant == Spec => []Typed
<1>1. Init => Typed
  BY TypedStarts
<1>2. Typed /\ [Next]_vars => Typed'
  BY NextTyped
<1> QED
  BY <1>1, <1>2, PTL DEF Spec

\* Sales, credit notes and the requests about them are well formed, however many
\* requests are in flight and wherever they stop.
THEOREM ReturnsTypeCorrect == Spec => []TypeOK
<1>1. Typed => TypeOK
  BY DEF Typed, TypeOK, CashInv, NotesTyped, JobsOK
<1> QED
  BY <1>1, TypedInvariant, PTL

\* The balance the trigger keeps and the one computed from the movements agree,
\* with the sales and voids that record movements of their own.
THEOREM DrawerBesideSales == Spec => []TriggerAgreesWithStats
<1>1. Typed => TriggerAgreesWithStats
  BY DEF Typed, CashInv
<1> QED
  BY <1>1, TypedInvariant, PTL

\* With the movements sales and voids record, the expected balance of a register
\* lacks nothing but what was recorded between the two statements of a close.
THEOREM ClosesMissBesideSales == Spec => OnlyClosesMiss
<1> DEFINE All == \A c \in Registers : Accounted(c)
<1>1. ASSUME Typed, NEW c, NEW type \in EntryTypes, NEW amount \in Nat,
             \/ c \in Registers /\ Exists(c) /\ RecordEntry(c, type, amount)
             \/ UNCHANGED <<register, entries>>
      PROVE  All
  <2>1. CASE UNCHANGED <<register, entries>>
    BY <2>1 DEF Accounted, Missing, IsOpen, Exists
  <2> QED
    BY <1>1, <2>1, RecordEntryMissesNothing DEF Accounted, Typed
<1>2. ASSUME Typed, NEW w \in Workers, SaleCommits(w) PROVE All
  <2>1. job[w] \in SaleJob /\ JobOK(job[w]) /\ job[w].step = "selling"
    BY <1>2, AtFacts DEF SaleCommits, At
  <2>2. /\ job[w].cash => job[w].register \in Registers /\ Exists(job[w].register)
        /\ job[w].cash => RecordEntry(job[w].register, "INCOME", job[w].quantity)
        /\ ~job[w].cash => UNCHANGED <<register, entries>>
        /\ job[w].quantity \in Nat
    BY <1>2, <2>1 DEF SaleCommits, JobOK, SaleJob
  <2> HIDE DEF All
  <2> QED
    BY <1>1, <1>2, <2>2 DEF EntryTypes
<1>3. ASSUME Typed, NEW w \in Workers, VoidCommits(w) PROVE All
  <2> DEFINE s == job[w].sale
             c == job[w].register
  <2>1. /\ job[w] \in VoidJob /\ JobOK(job[w]) /\ job[w].step = "voids"
    BY <1>3, AtFacts DEF VoidCommits, At
  <2>2. s \in SaleIds /\ Sold(s) /\ (c \in Registers => Exists(c))
    BY <2>1 DEF VoidJob, JobOK
  <2>3. sale[s].quantity \in Nat
    BY <1>3, <2>2 DEF Typed, SaleTypeOK, Sold, SaleRow
  <2>4. IF c \in Registers THEN RecordEntry(c, "EXPENSE", sale[s].quantity)
                           ELSE UNCHANGED <<register, entries>>
    BY <1>3 DEF VoidCommits
  <2> HIDE DEF s, c, All
  <2> QED
    BY <1>1, <1>3, <2>2, <2>3, <2>4 DEF EntryTypes
<1>4. ASSUME Typed, Next PROVE All
  <2>1. ASSUME Registering PROVE All
    BY <1>4, <2>1, CashStepMisses DEF Registering, Typed
  <2>2. ASSUME UNCHANGED <<register, entries>> PROVE All
    BY <2>2 DEF Accounted, Missing, IsOpen, Exists
  <2>3. ASSUME NEW w \in Workers, SaleSteps(w) PROVE All
    <3> HIDE DEF All
    <3> QED
      BY <1>2, <1>3, <1>4, <2>2, <2>3 DEF SaleSteps, SaleReads, SaleBegins, VoidReads, cashVars
  <2>4. ASSUME NEW w \in Workers, NoteSteps(w) \/ Stops(w) PROVE UNCHANGED <<register, entries>>
    BY <2>4 DEF NoteSteps, Stops, Fails, NoteReads, NoteCreates, NoteRestocks, NoteSums, NoteRates,
       RefundReads, RefundWrites, CancelReads, CancelTakesStock, CancelMarks, CancelSums,
       CancelRates, Moves, cashVars
  <2> HIDE DEF All
  <2> QED
    BY <1>4, <2>1, <2>2, <2>3, <2>4 DEF Next, Selling
<1>5. Typed /\ [Next]_vars => [All]_cashVars
  <2>1. UNCHANGED vars => UNCHANGED cashVars
    BY DEF vars
  <2> HIDE DEF All
  <2> QED
    BY <1>4, <2>1
<1> QED
  BY <1>5, TypedInvariant, PTL DEF Spec, OnlyClosesMiss, Accounted

-----------------------------------------------------------------------------
(* Requests one after the other. *)

OneWorker == \A v, w \in Workers : v = w

(***************************************************************************)
(* The properties say nothing of status and stock while a request is in    *)
(* flight.  What is inductive says what it has read and what it has        *)
(* already written: which sale's status it has yet to write (Rated), and   *)
(* the units it has written to the note and not to the stock, or the other *)
(* way (Debt).                                                             *)
(***************************************************************************)
Rating == {"restocks", "rates", "recounts", "resets"}
Rated(j, s) == j # NoJob /\ j.step \in Rating /\ j.sale = s

\* The lines of a new note still to be moved, or those of a cancelled one moved already.
Pending(j) ==
  [l \in Lines |-> IF (j.step = "restocks") <=> (l \in j.todo) THEN j.lines[l] ELSE 0]
Owing == {"restocks", "cancels"}
Debt(j, p) ==
  IF j # NoJob /\ j.step \in Owing /\ sale[j.sale].part = p THEN SumFunction(Pending(j)) ELSE 0

\* A note is of a sale that will not be voided.
NotesOK ==
  \A n \in NoteIds : note[n] # NoNote =>
    /\ note[n].sale \in noted
    /\ Live(n) => sale[note[n].sale].status # "VOIDED"

UnitsSold == \A s \in SaleIds : Sold(s) => sale[s].quantity > 0

OnlyJobOK(j) ==
  /\ j.step \in {"sells", "selling"} => j.quantity > 0
  /\ j.step = "voids" => sale[j.sale].status = "COMPLETED" /\ j.sale \notin noted
  /\ j.step \in Noting \cup Unnoting => sale[j.sale].status # "VOIDED"
  /\ j.step = "notes" => j.todo = Used(j.lines)
  /\ j.step \in Noting => sale[j.sale].status = j.was
  /\ j.step \in Noting \ {"notes"} =>
       (~halfway /\ Refunded(j.sale) = 0 => j.was = "COMPLETED")
  /\ j.step = "cancels" =>
       /\ note[j.note].sale = j.sale /\ note[j.note].lines = j.lines
       /\ note[j.note].status = "PENDING"
  /\ j.step \in {"rates", "resets"} => j.returned = Refunded(j.sale)
  /\ j.step = "refunds" => note[j.note].status = "PENDING"

OnlyJobsOK == \A w \in Workers : ~Idle(w) => OnlyJobOK(job[w])

Tells(s) ==
  /\ sale[s].status = "COMPLETED" => Refunded(s) = 0
  /\ sale[s].status = "PARTIALLY_REFUNDED" => Refunded(s) > 0
  /\ sale[s].status = "FULLY_REFUNDED" => Refunded(s) = Total(s)

StatusKept ==
  ~halfway => \A s \in SaleIds :
    Sold(s) /\ (\A w \in Workers : ~Rated(job[w], s)) => Tells(s)

\* A part has what the notes say less a debt: exactly, until a request stops half-way.
Fits(p, debt) ==
  /\ stock[p] <= OpeningStock[p] - Away(p) - debt
  /\ ~halfway => stock[p] = OpeningStock[p] - Away(p) - debt

StockKept ==
  \A p \in Parts :
    /\ Workers = {} => Fits(p, 0)
    /\ \A w \in Workers : Fits(p, Debt(job[w], p))

OnlyInv == Typed /\ NotesOK /\ UnitsSold /\ OnlyJobsOK /\ StatusKept /\ StockKept

-----------------------------------------------------------------------------
(* What came back, and what is away. *)

\* The units of a sale that its customer has are a number.
LEMMA AwayType ==
  ASSUME Typed, NEW p
  PROVE  /\ IsFiniteSet(SalesOf(p)) /\ Away(p) \in Int
         /\ \A s \in SalesOf(p) : Kept(s) \in Int
<1> DEFINE f == [s \in SalesOf(p) |-> Kept(s)]
<1>1. \A s \in SalesOf(p) : sale[s].quantity \in Nat
  BY DEF SalesOf, Sold, Typed, SaleTypeOK, SaleRow
<1>2. \A s \in SalesOf(p) : Kept(s) \in Int
  BY <1>1, ReturnedType DEF Kept
<1>3. IsFiniteSet(SalesOf(p))
  BY IdsAssumption, FS_Subset DEF SalesOf
<1>4. Away(p) = SumFunctionOnSet(f, SalesOf(p)) /\ \A s \in SalesOf(p) : f[s] \in Int
  BY <1>2 DEF Away, SumFunction
<1> HIDE DEF f
<1> QED
  BY <1>2, <1>3, <1>4, SumType

\* Each of these holds of the next state too.
NumbersOK ==
  /\ \A s : /\ IsFiniteSet(NotesOf(s)) /\ Returned(s) \in Nat /\ Refunded(s) \in Nat
            /\ \A n \in NotesOf(s) : Units(n) \in Nat /\ note[n].total \in Nat
  /\ \A p : /\ IsFiniteSet(SalesOf(p)) /\ Away(p) \in Int
            /\ \A s \in SalesOf(p) : Kept(s) \in Int

LEMMA NumbersNext == Typed' => NumbersOK'
<1>1. Typed => NumbersOK
  BY ReturnedType, AwayType DEF NumbersOK
<1> QED
  BY <1>1, PTL

\* A function with one more argument sums to more.
LEMMA SumGains ==
  ASSUME NEW f, NEW h, NEW n \in DOMAIN h, IsFiniteSet(DOMAIN h), DOMAIN f = DOMAIN h \ {n},
         \A m \in DOMAIN h : h[m] \in Int, \A m \in DOMAIN f : f[m] = h[m]
  PROVE  /\ SumFunction(h) = SumFunction(f) + h[n]
         /\ SumFunction(f) \in Int
<1> DEFINE T == DOMAIN h
           S == DOMAIN f
<1>1. IsFiniteSet(S)
  BY FS_Subset
<1>2. SumFunctionOnSet(h, T) = h[n] + SumFunctionOnSet(h, S)
  BY SumWithout
<1>3. SumFunctionOnSet(h, S) = SumFunctionOnSet(f, S)
  BY <1>1, SumSame
<1>4. SumFunctionOnSet(f, S) \in Int
  BY <1>1, SumType
<1> QED
  BY <1>2, <1>3, <1>4 DEF SumFunction

\* The sums over the notes of a sale that stay as they are.
LEMMA ReturnedSame ==
  ASSUME Typed, NEW s, NotesOf(s)' = NotesOf(s),
         \A n \in NotesOf(s) : note'[n].lines = note[n].lines /\ note'[n].total = note[n].total
  PROVE  Returned(s)' = Returned(s) /\ Refunded(s)' = Refunded(s)
<1>1. \A n \in NotesOf(s) : Units(n)' = Units(n)
  BY DEF Units
<1>2. [n \in NotesOf(s) |-> Units(n)]' = [n \in NotesOf(s) |-> Units(n)]
  BY <1>1
<1>3. [n \in NotesOf(s) |-> note[n].total]' = [n \in NotesOf(s) |-> note[n].total]
  OBVIOUS
<1> QED
  BY <1>2, <1>3 DEF Returned, Refunded

\* One note more, which NotesOf(s) did not have.
LEMMA ReturnedMore ==
  ASSUME Typed, Typed', NEW s, NEW n, n \notin NotesOf(s), NotesOf(s)' = NotesOf(s) \cup {n},
         \A m \in NotesOf(s) : note'[m].lines = note[m].lines /\ note'[m].total = note[m].total
  PROVE  /\ Returned(s)' = Returned(s) + Units(n)'
         /\ Refunded(s)' = Refunded(s) + note'[n].total
<1> DEFINE f == [m \in NotesOf(s) |-> Units(m)]
           h == [m \in NotesOf(s)' |-> Units(m)']
           g == [m \in NotesOf(s) |-> note[m].total]
           k == [m \in NotesOf(s)' |-> note'[m].total]
<1>1. \A m \in NotesOf(s) : Units(m)' = Units(m)
  BY DEF Units
<1>2. /\ IsFiniteSet(NotesOf(s))
      /\ \A m \in NotesOf(s)' : Units(m)' \in Int /\ note'[m].total \in Int
  BY ReturnedType, NumbersNext DEF NumbersOK
<1>3. /\ Returned(s) = SumFunction(f) /\ Refunded(s) = SumFunction(g)
      /\ Returned(s)' = SumFunction(h) /\ Refunded(s)' = SumFunction(k)
  BY DEF Returned, Refunded
<1>4. /\ n \in DOMAIN h /\ DOMAIN f = DOMAIN h \ {n} /\ h[n] = Units(n)'
      /\ \A m \in DOMAIN h : h[m] \in Int
      /\ \A m \in DOMAIN f : f[m] = h[m]
  BY <1>1, <1>2
<1>5. /\ n \in DOMAIN k /\ DOMAIN g = DOMAIN k \ {n} /\ k[n] = note'[n].total
      /\ \A m \in DOMAIN k : k[m] \in Int
      /\ \A m \in DOMAIN g : g[m] = k[m]
  BY <1>2
<1>6. IsFiniteSet(DOMAIN h) /\ IsFiniteSet(DOMAIN k)
  BY NumbersNext DEF NumbersOK
<1> HIDE DEF f, g, h, k
<1>7. SumFunction(h) = SumFunction(f) + h[n]
  BY <1>4, <1>6, SumGains
<1>8. SumFunction(k) = SumFunction(g) + k[n]
  BY <1>5, <1>6, SumGains
<1> QED
  BY <1>3, <1>4, <1>5, <1>7, <1>8

\* One note less.
LEMMA ReturnedLess ==
  ASSUME Typed, NEW s, NEW n \in NotesOf(s), NotesOf(s)' = NotesOf(s) \ {n},
         \A m \in NotesOf(s) \ {n} : note'[m].lines = note[m].lines
  PROVE  Returned(s) = Returned(s)' + Units(n)
<1> DEFINE f == [m \in NotesOf(s)' |-> Units(m)']
           h == [m \in NotesOf(s) |-> Units(m)]
<1>1. \A m \in NotesOf(s) \ {n} : Units(m)' = Units(m)
  BY DEF Units
<1>2. IsFiniteSet(NotesOf(s)) /\ \A m \in NotesOf(s) : Units(m) \in Int
  BY ReturnedType
<1>3. Returned(s) = SumFunction(h) /\ Returned(s)' = SumFunction(f)
  BY DEF Returned
<1>4. /\ n \in DOMAIN h /\ DOMAIN f = DOMAIN h \ {n} /\ h[n] = Units(n)
      /\ IsFiniteSet(DOMAIN h) /\ \A m \in DOMAIN h : h[m] \in Int
      /\ \A m \in DOMAIN f : f[m] = h[m]
  BY <1>1, <1>2
<1> HIDE DEF f, h
<1>5. SumFunction(h) = SumFunction(f) + h[n] /\ SumFunction(f) \in Int
  BY <1>4, SumGains
<1> QED
  BY <1>3, <1>4, <1>5

\* What is away of a part whose sales and notes stay as they are.
LEMMA AwaySame ==
  ASSUME Typed, NEW p, SalesOf(p)' = SalesOf(p), \A s \in SalesOf(p) : Kept(s)' = Kept(s)
  PROVE  Away(p)' = Away(p)
<1>1. [s \in SalesOf(p) |-> Kept(s)]' = [s \in SalesOf(p) |-> Kept(s)]
  OBVIOUS
<1> QED
  BY <1>1 DEF Away

\* It changes by what a customer has more, or less, of it.
LEMMA AwayChanged ==
  ASSUME Typed, Typed', NEW p, SalesOf(p)' = SalesOf(p), NEW s \in SalesOf(p),
         \A t \in SalesOf(p) \ {s} : Kept(t)' = Kept(t)
  PROVE  Away(p)' = Away(p) + (Kept(s)' - Kept(s))
<1> DEFINE S == SalesOf(p)
           f == [t \in S |-> Kept(t)]
           h == [t \in S |-> Kept(t)']
<1>1. Away(p) = SumFunctionOnSet(f, S)
  BY DEF Away, SumFunction
<1>2. Away(p)' = SumFunctionOnSet(h, S)
  BY DEF Away, SumFunction
<1>3. IsFiniteSet(S) /\ \A t \in S : f[t] \in Int /\ h[t] \in Int
  BY AwayType, NumbersNext DEF NumbersOK
<1>4. s \in S /\ f[s] = Kept(s) /\ h[s] = Kept(s)' /\ \A t \in S \ {s} : h[t] = f[t]
  OBVIOUS
<1> HIDE DEF f, h, S
<1> QED
  BY <1>1, <1>2, <1>3, <1>4, SumChanged

\* And by what a new sale takes away.
LEMMA AwayMore ==
  ASSUME Typed, Typed', NEW p, NEW s, s \notin SalesOf(p), SalesOf(p)' = SalesOf(p) \cup {s},
         \A t \in SalesOf(p) : Kept(t)' = Kept(t)
  PROVE  Away(p)' = Away(p) + Kept(s)'
<1> DEFINE f == [t \in SalesOf(p) |-> Kept(t)]
           h == [t \in SalesOf(p)' |-> Kept(t)']
<1>1. Away(p) = SumFunction(f) /\ Away(p)' = SumFunction(h)
  BY DEF Away
<1>2. IsFiniteSet(SalesOf(p)') /\ \A t \in SalesOf(p)' : Kept(t)' \in Int
  BY NumbersNext DEF NumbersOK
<1>3. /\ s \in DOMAIN h /\ DOMAIN f = DOMAIN h \ {s} /\ h[s] = Kept(s)'
      /\ IsFiniteSet(DOMAIN h) /\ \A t \in DOMAIN h : h[t] \in Int
      /\ \A t \in DOMAIN f : f[t] = h[t]
  BY <1>2
<1> HIDE DEF f, h
<1> QED
  BY <1>1, <1>3, SumGains

\* What is away changes with one sale only.
LEMMA AwayOfOne ==
  ASSUME Typed, Typed', NEW s \in SaleIds, Sold(s), \A t \in SaleIds : Sold(t)' <=> Sold(t),
         \A t \in SaleIds : Sold(t) => sale'[t].part = sale[t].part,
         \A t \in SaleIds \ {s} : Kept(t)' = Kept(t), NEW p
  PROVE  Away(p)' = IF p = sale[s].part THEN Away(p) + (Kept(s)' - Kept(s)) ELSE Away(p)
<1>1. SalesOf(p)' = SalesOf(p) /\ (s \in SalesOf(p) <=> p = sale[s].part)
      /\ \A t \in SalesOf(p) \ {s} : Kept(t)' = Kept(t)
  BY DEF SalesOf
<1>2. CASE p = sale[s].part
  BY <1>1, <1>2, AwayChanged
<1>3. CASE p # sale[s].part
  BY <1>1, <1>3, AwaySame
<1> QED
  BY <1>2, <1>3

-----------------------------------------------------------------------------
(* What the stock is still owed. *)

\* At its first line a new note owes all its units and a cancelled one none, at the
\* last the other way round.
LEMMA PendingFacts ==
  ASSUME NEW j \in NoteJob, j.step \in Owing
  PROVE  /\ SumFunction(Pending(j)) \in Nat
         /\ (j.todo = {}) /\ j.step = "restocks" => SumFunction(Pending(j)) = 0
         /\ (j.todo = {}) /\ j.step = "cancels" => SumFunction(Pending(j)) = SumFunction(j.lines)
         /\ j.todo = Used(j.lines) /\ j.step = "restocks" =>
              SumFunction(Pending(j)) = SumFunction(j.lines)
         /\ j.todo = Used(j.lines) /\ j.step = "cancels" => SumFunction(Pending(j)) = 0
<1> DEFINE f == Pending(j)
           g == j.lines
<1>1. /\ DOMAIN f = Lines /\ DOMAIN g = Lines /\ IsFiniteSet(Lines)
      /\ \A l \in Lines : f[l] \in Nat /\ g[l] \in Nat
      /\ \A l \in Lines : f[l] = IF (j.step = "restocks") <=> (l \in j.todo) THEN g[l] ELSE 0
  BY IdsAssumption DEF NoteJob, NoteLines, Pending
<1>2. \A l \in Used(g) : l \in Lines
  BY DEF Used
<1>3. \A l \in Lines : l \notin Used(g) => g[l] = 0
  BY <1>1 DEF Used
<1> HIDE DEF f, g
<1>4. SumFunctionOnSet(f, Lines) \in Nat
  BY <1>1, SumType
<1>5. (\A l \in Lines : f[l] = 0) => SumFunctionOnSet(f, Lines) = 0
  BY <1>1, SumOfZeros
<1>6. (\A l \in Lines : f[l] = g[l]) => SumFunctionOnSet(f, Lines) = SumFunctionOnSet(g, Lines)
  BY <1>1, SumSame
<1>7. /\ SumFunction(f) = SumFunctionOnSet(f, Lines)
      /\ SumFunction(g) = SumFunctionOnSet(g, Lines)
  BY <1>1 DEF SumFunction
<1>8. (j.todo = {}) /\ j.step = "restocks" => \A l \in Lines : f[l] = 0
  BY <1>1
<1>9. (j.todo = {}) /\ j.step = "cancels" => \A l \in Lines : f[l] = g[l]
  BY <1>1
<1>10. j.todo = Used(g) /\ j.step = "restocks" => \A l \in Lines : f[l] = g[l]
  BY <1>1, <1>3
<1>11. j.todo = Used(g) /\ j.step = "cancels" => \A l \in Lines : f[l] = 0
  BY <1>1, <1>3
<1> QED
  BY <1>4, <1>5, <1>6, <1>7, <1>8, <1>9, <1>10, <1>11 DEF f, g

\* A line that is moved is owed no more, or from then on.
LEMMA PendingMoves ==
  ASSUME NEW j \in NoteJob, j.step \in Owing, NEW k \in NoteJob, NEW l \in j.todo,
         k.step = j.step, k.lines = j.lines, k.todo = j.todo \ {l}
  PROVE  SumFunction(Pending(k)) =
           SumFunction(Pending(j)) + (IF j.step = "restocks" THEN -j.lines[l] ELSE j.lines[l])
<1> DEFINE f == Pending(j)
           h == Pending(k)
<1>1. /\ DOMAIN f = Lines /\ DOMAIN h = Lines /\ IsFiniteSet(Lines) /\ l \in Lines
      /\ j.lines[l] \in Nat
      /\ \A m \in Lines : f[m] \in Int /\ h[m] \in Int
      /\ \A m \in Lines \ {l} : h[m] = f[m]
  BY IdsAssumption DEF NoteJob, NoteLines, Pending
<1>2. h[l] - f[l] = IF j.step = "restocks" THEN -j.lines[l] ELSE j.lines[l]
  BY <1>1 DEF Pending
<1> HIDE DEF f, h
<1>3. SumFunctionOnSet(h, Lines) = SumFunctionOnSet(f, Lines) + (h[l] - f[l])
  BY <1>1, SumChanged
<1> QED
  BY <1>1, <1>2, <1>3 DEF SumFunction, f, h

\* A debt is a number of units.
LEMMA DebtType ==
  ASSUME Typed, NEW w \in Workers, NEW p
  PROVE  Debt(job[w], p) \in Nat
<1>1. job[w] # NoJob /\ job[w].step \in Owing => job[w] \in NoteJob
  BY AtFacts DEF Idle, Owing, Noting, Unnoting
<1> QED
  BY <1>1, PendingFacts DEF Debt

\* What is left when a debt is forgotten.
LEMMA FitsLess ==
  ASSUME Typed, NEW p \in Parts, NEW debt \in Nat, Fits(p, debt)
  PROVE  stock[p] <= OpeningStock[p] - Away(p)
<1>1. stock[p] \in Int /\ OpeningStock[p] \in Nat /\ Away(p) \in Int
  BY AwayType, SalesAssumption DEF Typed, SaleTypeOK
<1> QED
  BY <1>1 DEF Fits

-----------------------------------------------------------------------------
(* One worker: steps that write nothing of the counter. *)

\* Sales, notes and stock stay; whoever has a status to write, or owes units, still
\* has, until a request stops half-way.
LEMMA StillKept ==
  ASSUME OnlyInv, Typed', UNCHANGED <<note, sale, stock, noted>>,
         \A v \in Workers : ~Idle(v)' => OnlyJobOK(job'[v]),
         \/ halfway' = TRUE /\ \A v \in Workers, p \in Parts : Debt(job'[v], p) = 0
         \/ /\ halfway' = halfway
            /\ \A v \in Workers, s \in SaleIds : Rated(job'[v], s) <=> Rated(job[v], s)
            /\ \A v \in Workers, p \in Parts : Debt(job'[v], p) = Debt(job[v], p)
  PROVE  OnlyInv'
<1>1. \A s : Returned(s)' = Returned(s) /\ Refunded(s)' = Refunded(s)
  BY DEF Returned, Refunded, NotesOf, Live, Units
<1>2. \A s : Kept(s)' = Kept(s)
  BY <1>1 DEF Kept
<1>3. \A p : Away(p)' = Away(p)
  BY <1>2, AwaySame DEF OnlyInv, SalesOf, Sold
<1>4. NotesOK' /\ UnitsSold'
  BY DEF OnlyInv, NotesOK, UnitsSold, Sold, Live
<1>5. OnlyJobsOK'
  BY <1>1 DEF OnlyJobsOK, OnlyJobOK
<1>6. StatusKept'
  BY <1>1 DEF OnlyInv, StatusKept, Tells, Total, Sold, Rated
<1>7. StockKept'
  <2>1. \A v \in Workers, p \in Parts : Debt(job[v], p)' = Debt(job'[v], p)
    BY DEF Debt, Pending
  <2>2. ASSUME NEW p \in Parts, NEW d, Fits(p, d), halfway' = halfway PROVE Fits(p, d)'
    BY <1>3, <2>2 DEF Fits
  <2>3. ASSUME halfway' = TRUE, NEW p \in Parts, NEW d \in Nat, Fits(p, d) PROVE Fits(p, 0)'
    <3>1. stock'[p] <= OpeningStock[p] - Away(p)'
      BY <1>3, <2>3, FitsLess DEF OnlyInv
    <3>2. Away(p)' \in Int /\ OpeningStock[p] \in Nat
      BY <1>3, AwayType, SalesAssumption DEF OnlyInv
    <3> QED
      BY <2>3, <3>1, <3>2 DEF Fits
  <2>4. CASE halfway' = halfway /\ \A v \in Workers, p \in Parts : Debt(job'[v], p) = Debt(job[v], p)
    BY <2>1, <2>2, <2>4 DEF OnlyInv, StockKept
  <2>5. CASE halfway' = TRUE /\ \A v \in Workers, p \in Parts : Debt(job'[v], p) = 0
    <3>1. \A v \in Workers, p \in Parts : Debt(job[v], p) \in Nat
      BY DebtType DEF OnlyInv
    <3> QED
      BY <2>1, <2>3, <2>5, <3>1 DEF OnlyInv, StockKept
  <2> QED
    BY <2>4, <2>5
<1> QED
  BY <1>4, <1>5, <1>6, <1>7 DEF OnlyInv

\* The worker is the only one.
LEMMA Alone ==
  ASSUME OneWorker, Typed, NEW w \in Workers, NEW next, NEW parts, NEW registers,
         Takes(w, next) \/ Commits(w, next, parts, registers)
  PROVE  job'[w] = next /\ \A v \in Workers : v = w
  BY DEF OneWorker, Takes, Commits, Typed, JobsOK

\* It owes nothing: it has moved no line, or every line.
Clear(j) ==
  \/ j = NoJob \/ j.step \notin Owing
  \/ j \in NoteJob /\ j.step = "restocks" /\ j.todo = {}
  \/ j \in NoteJob /\ j.step = "cancels" /\ j.todo = Used(j.lines)

LEMMA ClearOwesNothing == ASSUME NEW j, Clear(j), NEW p PROVE Debt(j, p) = 0
  BY PendingFacts DEF Clear, Debt, Owing

LEMMA MovesOn ==
  ASSUME OneWorker, OnlyInv, Typed', UNCHANGED <<note, sale, stock, noted>>,
         NEW w \in Workers, NEW next, Takes(w, next), next # NoJob => OnlyJobOK(next),
         Clear(next),
         \/ halfway' = TRUE
         \/ /\ halfway' = halfway /\ Clear(job[w])
            /\ \A s \in SaleIds : Rated(next, s) <=> Rated(job[w], s)
  PROVE  OnlyInv'
<1>1. job'[w] = next /\ \A v \in Workers : v = w
  BY Alone DEF OnlyInv
<1>2. \A v \in Workers : ~Idle(v)' => OnlyJobOK(job'[v])
  BY <1>1 DEF Idle
<1>3. \A p \in Parts : Debt(next, p) = 0 /\ (Clear(job[w]) => Debt(job[w], p) = 0)
  BY ClearOwesNothing
<1> QED
  BY <1>1, <1>2, <1>3, StillKept

\* Requests about sales that read, or insert what is not committed.
LEMMA SaleReadsKept ==
  ASSUME OneWorker, OnlyInv, Typed', UNCHANGED <<note, halfway>>, NEW w \in Workers,
         \/ \E p \in Parts, n \in Quantities, cash \in BOOLEAN : SaleReads(w, p, n, cash)
         \/ SaleBegins(w)
         \/ \E s \in SaleIds : VoidReads(w, s)
  PROVE  OnlyInv'
<1>1. UNCHANGED <<sale, stock, noted>>
  BY DEF SaleReads, SaleBegins, VoidReads, counter
<1>2. ASSUME NEW next, Takes(w, next), OnlyJobOK(next), next.step \notin Rating \cup Owing,
             Clear(job[w]), \A s \in SaleIds : ~Rated(job[w], s)
      PROVE  OnlyInv'
  BY <1>1, <1>2, MovesOn DEF Clear, Rated
<1>3. Idle(w) => Clear(job[w]) /\ \A s \in SaleIds : ~Rated(job[w], s)
  BY DEF Idle, Clear, Rated
<1>4. ASSUME NEW p \in Parts, NEW n \in Quantities, NEW cash \in BOOLEAN, SaleReads(w, p, n, cash)
      PROVE  OnlyInv'
  <2>1. PICK c \in Registers \cup {NoRegister} :
          Takes(w, [step |-> "sells", part |-> p, quantity |-> n, cash |-> cash,
                    register |-> c, number |-> 0, missed |-> FALSE])
    BY <1>4 DEF SaleReads
  <2> DEFINE next == [step |-> "sells", part |-> p, quantity |-> n, cash |-> cash,
                      register |-> c, number |-> 0, missed |-> FALSE]
  <2>2. next.step = "sells" /\ next.quantity > 0 /\ Takes(w, next) /\ Idle(w)
    BY <1>4, <2>1, SalesAssumption DEF SaleReads
  <2> HIDE DEF next
  <2>3. OnlyJobOK(next)
    BY <2>2 DEF OnlyJobOK, Noting, Unnoting
  <2> QED
    BY <1>2, <1>3, <2>2, <2>3 DEF Rating, Owing
<1>5. ASSUME SaleBegins(w) PROVE OnlyInv'
  <2>1. PICK n : Takes(w, [job[w] EXCEPT !.step = "selling", !.number = n])
    BY <1>5 DEF SaleBegins
  <2> DEFINE next == [job[w] EXCEPT !.step = "selling", !.number = n]
  <2>2. job[w] \in SaleJob /\ job[w].step = "sells" /\ OnlyJobOK(job[w])
    BY <1>5, AtFacts DEF SaleBegins, At, OnlyInv, OnlyJobsOK
  <2>3. next.step = "selling" /\ next.quantity = job[w].quantity /\ Takes(w, next)
    BY <2>1, <2>2 DEF SaleJob
  <2> HIDE DEF next
  <2>4. OnlyJobOK(next)
    BY <2>2, <2>3 DEF OnlyJobOK, Noting, Unnoting
  <2>5. Clear(job[w]) /\ \A s \in SaleIds : ~Rated(job[w], s)
    BY <2>2 DEF Clear, Rated, Rating, Owing
  <2> QED
    BY <1>2, <2>3, <2>4, <2>5 DEF Rating, Owing
<1>6. ASSUME NEW s \in SaleIds, VoidReads(w, s) PROVE OnlyInv'
  <2>1. PICK c : Takes(w, [step |-> "voids", sale |-> s, register |-> c])
    BY <1>6 DEF VoidReads
  <2> DEFINE next == [step |-> "voids", sale |-> s, register |-> c]
  <2>2. /\ next.step = "voids" /\ next.sale = s /\ Takes(w, next)
        /\ Idle(w) /\ sale[s].status = "COMPLETED" /\ s \notin noted
    BY <1>6, <2>1 DEF VoidReads
  <2> HIDE DEF next
  <2>3. OnlyJobOK(next)
    BY <2>2 DEF OnlyJobOK, Noting, Unnoting
  <2> QED
    BY <1>2, <1>3, <2>2, <2>3 DEF Rating, Owing
<1> QED
  BY <1>4, <1>5, <1>6

\* Requests about notes that read.
LEMMA NoteReadsKept ==
  ASSUME OneWorker, OnlyInv, Typed', UNCHANGED halfway, NEW w \in Workers,
         \/ \E s \in SaleIds, lines \in [Lines -> Quantities \cup {0}], total \in NoteTotals :
              NoteReads(w, s, lines, total)
         \/ \E n \in NoteIds : RefundReads(w, n) \/ CancelReads(w, n)
         \/ NoteSums(w) \/ CancelSums(w)
  PROVE  OnlyInv'
<1>1. UNCHANGED <<note, sale, stock, noted>>
  BY DEF NoteReads, RefundReads, CancelReads, NoteSums, CancelSums, counter
<1>2. ASSUME NEW next, Takes(w, next), OnlyJobOK(next), Clear(next), Clear(job[w]),
             \A s \in SaleIds : Rated(next, s) <=> Rated(job[w], s)
      PROVE  OnlyInv'
  BY <1>1, <1>2, MovesOn
<1>3. Idle(w) => Clear(job[w]) /\ \A s \in SaleIds : ~Rated(job[w], s)
  BY DEF Idle, Clear, Rated
<1>4. ASSUME NEW s \in SaleIds, NEW lines \in [Lines -> Quantities \cup {0}],
             NEW total \in NoteTotals, NoteReads(w, s, lines, total)
      PROVE  OnlyInv'
  <2> DEFINE next == [step |-> "notes", sale |-> s, lines |-> lines, todo |-> Used(lines),
                      total |-> total, was |-> sale[s].status, note |-> NoNote, returned |-> 0]
  <2>1. /\ next.step = "notes" /\ next.sale = s /\ next.was = sale[s].status
        /\ next.todo = Used(next.lines)
        /\ Takes(w, next) /\ Idle(w) /\ sale[s].status # "VOIDED"
    BY <1>4 DEF NoteReads
  <2> HIDE DEF next
  <2>2. OnlyJobOK(next)
    BY <2>1 DEF OnlyJobOK, Noting, Unnoting
  <2>3. Clear(next) /\ \A t \in SaleIds : ~Rated(next, t)
    BY <2>1 DEF Clear, Rated, Rating, Owing
  <2> QED
    BY <1>2, <1>3, <2>1, <2>2, <2>3
<1>5. ASSUME NEW n \in NoteIds, RefundReads(w, n) PROVE OnlyInv'
  <2> DEFINE next == [step |-> "refunds", note |-> n]
  <2>1. /\ next.step = "refunds" /\ next.note = n /\ Takes(w, next) /\ Idle(w)
        /\ note[n].status = "PENDING"
    BY <1>5 DEF RefundReads
  <2> HIDE DEF next
  <2>2. OnlyJobOK(next)
    BY <2>1 DEF OnlyJobOK, Noting, Unnoting
  <2>3. Clear(next) /\ \A t \in SaleIds : ~Rated(next, t)
    BY <2>1 DEF Clear, Rated, Rating, Owing
  <2> QED
    BY <1>2, <1>3, <2>1, <2>2, <2>3
<1>6. ASSUME NEW n \in NoteIds, CancelReads(w, n) PROVE OnlyInv'
  <2> DEFINE s == note[n].sale
             next == [step |-> "cancels", sale |-> s, lines |-> note[n].lines,
                      todo |-> Used(note[n].lines), total |-> note[n].total,
                      was |-> sale[s].status, note |-> n, returned |-> 0]
  <2>1. /\ next.step = "cancels" /\ next.sale = s /\ next.lines = note[n].lines
        /\ next.todo = Used(next.lines)
        /\ next.note = n /\ Takes(w, next) /\ Idle(w)
        /\ note[n] # NoNote /\ note[n].status = "PENDING"
    BY <1>6 DEF CancelReads
  <2>2. next \in NoteJob
    <3>1. s \in SaleIds /\ note[n].lines \in NoteLines /\ note[n].total \in Nat /\ Sold(s)
      BY <2>1 DEF OnlyInv, Typed, NotesTyped, NoteRow
    <3>2. sale[s].status \in SaleStatus /\ Used(note[n].lines) \in SUBSET Lines
      BY <3>1 DEF OnlyInv, Typed, SaleTypeOK, Sold, SaleRow, Used
    <3> QED
      BY <3>1, <3>2 DEF NoteJob
  <2> HIDE DEF next
  <2>3. sale[s].status # "VOIDED"
    BY <2>1 DEF OnlyInv, NotesOK, Live
  <2>4. OnlyJobOK(next)
    BY <2>1, <2>3 DEF OnlyJobOK, Noting, Unnoting
  <2>5. Clear(next) /\ \A t \in SaleIds : ~Rated(next, t)
    BY <2>1, <2>2 DEF Clear, Rated, Rating
  <2> QED
    BY <1>2, <1>3, <2>1, <2>4, <2>5
<1>7. ASSUME NoteSums(w) \/ CancelSums(w) PROVE OnlyInv'
  <2> DEFINE to == IF job[w].step = "restocks" THEN "rates" ELSE "resets"
             next == [job[w] EXCEPT !.step = to, !.returned = Refunded(job[w].sale)]
  <2>1. /\ job[w] \in NoteJob /\ OnlyJobOK(job[w]) /\ ~Idle(w)
        /\ \/ job[w].step = "restocks" /\ job[w].todo = {}
           \/ job[w].step = "recounts"
    BY <1>7, AtFacts DEF NoteSums, CancelSums, At, OnlyInv, OnlyJobsOK, Noting, Unnoting
  <2>2. Takes(w, next)
    BY <1>7, <2>1 DEF NoteSums, CancelSums, At
  <2>3. /\ next.step = to /\ next.sale = job[w].sale
        /\ next.was = job[w].was /\ next.returned = Refunded(job[w].sale)
        /\ next \in NoteJob
    BY <2>1, ReturnedType DEF NoteJob, OnlyInv
  <2>4. next # NoJob
    BY <2>3, ReturnsAssumption
  <2> HIDE DEF next
  <2>5. OnlyJobOK(next)
    BY <2>1, <2>3 DEF OnlyJobOK, Noting, Unnoting
  <2>6. /\ Clear(next) /\ Clear(job[w])
        /\ \A s \in SaleIds : Rated(next, s) <=> Rated(job[w], s)
    BY <2>1, <2>3, <2>4 DEF Clear, Rated, Rating, Owing, Idle
  <2> QED
    BY <1>2, <2>2, <2>5, <2>6
<1> QED
  BY <1>4, <1>5, <1>6, <1>7

\* A request that stops has written nothing, or is half-way from now on.
LEMMA StopsKept ==
  ASSUME OneWorker, OnlyInv, Typed', NEW w \in Workers, Stops(w)
  PROVE  OnlyInv'
<1>1. /\ Takes(w, NoJob) /\ UNCHANGED <<note, sale, stock, noted>> /\ ~Idle(w)
      /\ halfway' = (halfway \/ Committed(w))
  BY DEF Stops, Fails, counter
<1>2. Clear(NoJob) /\ \A s \in SaleIds : ~Rated(NoJob, s)
  BY DEF Clear, Rated
<1>3. CASE Committed(w)
  <2>1. halfway' = TRUE
    BY <1>1, <1>3
  <2> QED
    BY <1>1, <1>2, <2>1, MovesOn
<1>4. CASE ~Committed(w)
  <2>1. halfway' = halfway
    BY <1>1, <1>4 DEF OnlyInv, Typed, NotesTyped
  <2>2. Clear(job[w]) /\ \A s \in SaleIds : ~Rated(job[w], s)
    BY <1>1, <1>4, AtFacts
       DEF Committed, At, Idle, Clear, Rated, Rating, Owing, OnlyInv, Noting, Unnoting
  <2> QED
    BY <1>1, <1>2, <2>1, <2>2, MovesOn
<1> QED
  BY <1>3, <1>4

\* Requests about registers tell a sale that it missed something.
LEMMA ToldKept ==
  ASSUME OnlyInv, Typed', UNCHANGED <<note, sale, stock, noted, halfway>>,
         \A v \in Workers : job'[v] = job[v] \/ Told(job[v], job'[v])
  PROVE  OnlyInv'
<1>1. ASSUME NEW v \in Workers, job'[v] # NoJob PROVE OnlyJobOK(job'[v])
  <2>1. CASE job'[v] = job[v]
    BY <1>1, <2>1 DEF OnlyInv, OnlyJobsOK, Idle
  <2>2. CASE Told(job[v], job'[v])
    <3>1. OnlyJobOK(job[v])
      BY <2>2, SalesAssumption DEF OnlyInv, OnlyJobsOK, Idle, Told
    <3> QED
      BY <2>2, <3>1 DEF OnlyJobOK, Told, Noting, Unnoting
  <2> QED
    BY <2>1, <2>2
<1>2. \A v \in Workers : job'[v] # job[v] => job[v].step = "selling" /\ job'[v].step = "selling"
  BY DEF Told
<1>3. /\ \A v \in Workers, s \in SaleIds : Rated(job'[v], s) <=> Rated(job[v], s)
      /\ \A v \in Workers, p \in Parts : Debt(job'[v], p) = Debt(job[v], p)
  BY <1>2 DEF Rated, Rating, Debt, Owing
<1> QED
  BY <1>1, <1>3, StillKept DEF Idle

-----------------------------------------------------------------------------
(* One worker: sales and voids. *)

DebtsOK == \A w \in Workers : \A p : Debt(job[w], p) \in Nat

LEMMA DebtsNext == Typed' => DebtsOK'
<1>1. Typed => DebtsOK
  BY DebtType DEF DebtsOK
<1> QED
  BY <1>1, PTL

\* A step moves units between the stock, the customers and what is owed.
LEMMA StockNext ==
  ASSUME OnlyInv, Typed', NEW w \in Workers, \A v \in Workers : v = w, halfway' = halfway,
         \A p \in Parts : stock'[p] + Away(p)' + Debt(job[w], p)'
                            = stock[p] + Away(p) + Debt(job[w], p)
  PROVE  StockKept'
<1> SUFFICES ASSUME NEW p \in Parts PROVE Fits(p, Debt(job[w], p))'
  BY DEF StockKept
<1>1. /\ stock[p] \in Int /\ stock'[p] \in Int /\ OpeningStock[p] \in Nat
      /\ Away(p) \in Int /\ Away(p)' \in Int
      /\ Debt(job[w], p) \in Int /\ Debt(job[w], p)' \in Int
  <2>1. stock[p] \in Int /\ stock'[p] \in Int /\ OpeningStock[p] \in Nat
    <3>1. stock[p] \in Int /\ OpeningStock[p] \in Nat
      BY SalesAssumption DEF OnlyInv, Typed, SaleTypeOK
    <3>2. stock'[p] \in Int
      BY DEF Typed, SaleTypeOK
    <3> QED
      BY <3>1, <3>2
  <2>2. Away(p) \in Int /\ Away(p)' \in Int
    <3>1. Typed /\ NumbersOK'
      BY NumbersNext DEF OnlyInv
    <3>2. Away(p) \in Int
      BY <3>1, AwayType
    <3>3. Away(p)' \in Int
      BY <3>1 DEF NumbersOK
    <3> QED
      BY <3>2, <3>3
  <2>3. Debt(job[w], p) \in Int /\ Debt(job[w], p)' \in Int
    <3>1. Typed /\ DebtsOK'
      BY DebtsNext DEF OnlyInv
    <3>2. Debt(job[w], p) \in Nat
      BY <3>1, DebtType, Zenon
    <3>3. Debt(job[w], p)' \in Nat
      BY <3>1, Zenon DEF DebtsOK
    <3> QED
      BY <3>2, <3>3
  <2> QED
    BY <2>1, <2>2, <2>3
<1>2. Fits(p, Debt(job[w], p))
  BY DEF OnlyInv, StockKept
<1> QED
  BY <1>1, <1>2 DEF Fits

\* Nothing comes back of a sale without notes.
LEMMA NoneReturned ==
  ASSUME NEW s, NotesOf(s) = {}
  PROVE  Returned(s) = 0 /\ Refunded(s) = 0
<1> DEFINE f == [n \in NotesOf(s) |-> Units(n)]
           g == [n \in NotesOf(s) |-> note[n].total]
<1>1. Returned(s) = SumFunctionOnSet(f, {}) /\ Refunded(s) = SumFunctionOnSet(g, {})
  BY DEF Returned, Refunded, SumFunction
<1> HIDE DEF f, g
<1>2. \A h : SumFunctionOnSet(h, {}) = 0
  BY SumFirst, FS_EmptySet
<1> QED
  BY <1>1, <1>2

\* A sale takes its units from the stock, and its customer has them.
LEMMA SaleCommitKept ==
  ASSUME OneWorker, OnlyInv, Typed', UNCHANGED <<note, halfway>>, NEW w \in Workers, SaleCommits(w)
  PROVE  OnlyInv'
<1> DEFINE j == job[w]
<1>1. j \in SaleJob /\ j.step = "selling" /\ j.part \in Parts /\ j.quantity \in Nat /\ j.quantity > 0
  BY AtFacts DEF SaleCommits, At, OnlyInv, OnlyJobsOK, OnlyJobOK, SaleJob
<1>2. PICK s \in SaleIds : ~Sold(s) /\ sale' = [sale EXCEPT ![s] = NewSale(j, "S", NoQuote)]
  BY DEF SaleCommits, FreshSales
<1>3. /\ stock' = [stock EXCEPT ![j.part] = stock[j.part] - j.quantity] /\ noted' = noted
      /\ Commits(w, NoJob, {j.part}, {j.register})
  BY DEF SaleCommits
<1>4. job'[w] = NoJob /\ \A v \in Workers : v = w
  BY <1>3, Alone DEF OnlyInv
<1> DEFINE row == NewSale(j, "S", NoQuote)
<1>5. row.status = "COMPLETED" /\ row.part = j.part /\ row.quantity = j.quantity /\ row \in SaleRow
  BY <1>1, AtFacts DEF NewSale, SaleJob, SaleRow, SaleStatus, Series
<1> HIDE DEF row
<1>6. /\ sale'[s] = row /\ \A t \in SaleIds \ {s} : sale'[t] = sale[t]
      /\ Sold(s)' /\ \A t \in SaleIds \ {s} : Sold(t)' <=> Sold(t)
  BY <1>2, <1>5, SalesAssumption DEF OnlyInv, Typed, SaleTypeOK, Sold, row
<1>7. \A t : /\ NotesOf(t)' = NotesOf(t)
             /\ Returned(t)' = Returned(t) /\ Refunded(t)' = Refunded(t)
  BY DEF Returned, Refunded, NotesOf, Live, Units
<1>8. \A n \in NoteIds : note[n] # NoNote => note[n].sale \in SaleIds \ {s}
  BY <1>2 DEF OnlyInv, Typed, NotesTyped, NoteRow
<1>9. Returned(s) = 0 /\ Refunded(s) = 0
  <2>1. NotesOf(s) = {}
    BY <1>8 DEF NotesOf, Live
  <2> QED
    BY <2>1, NoneReturned
<1>10. /\ Kept(s)' = j.quantity
       /\ \A t \in SaleIds \ {s} : Kept(t)' = Kept(t)
  BY <1>1, <1>5, <1>6, <1>7, <1>9 DEF Kept
<1>11. \A p : Away(p)' = IF p = j.part THEN Away(p) + j.quantity ELSE Away(p)
  <2> SUFFICES ASSUME NEW p
               PROVE  Away(p)' = IF p = j.part THEN Away(p) + j.quantity ELSE Away(p)
    OBVIOUS
  <2>1. s \notin SalesOf(p) /\ \A t \in SalesOf(p) : Kept(t)' = Kept(t)
    BY <1>2, <1>10 DEF SalesOf
  <2>2. SalesOf(p)' = IF p = j.part THEN SalesOf(p) \cup {s} ELSE SalesOf(p)
    BY <1>2, <1>5, <1>6 DEF SalesOf
  <2>3. CASE p = j.part
    BY <1>10, <2>1, <2>2, <2>3, AwayMore DEF OnlyInv
  <2>4. CASE p # j.part
    BY <2>1, <2>2, <2>4, AwaySame DEF OnlyInv
  <2> QED
    BY <2>3, <2>4
<1>12. NotesOK'
  BY <1>3, <1>6, <1>8 DEF OnlyInv, NotesOK, Live
<1>13. UnitsSold'
  BY <1>1, <1>5, <1>6 DEF OnlyInv, UnitsSold
<1>14. OnlyJobsOK'
  BY <1>4 DEF OnlyJobsOK, Idle
<1>15. StatusKept'
  <2>1. \A t \in SaleIds : ~Rated(job[w], t)
    BY <1>1 DEF Rated, Rating
  <2>2. ASSUME ~halfway, NEW t \in SaleIds, Sold(t)' PROVE Tells(t)'
    <3>1. CASE t = s
      BY <1>5, <1>6, <1>7, <1>9, <3>1 DEF Tells
    <3>2. CASE t # s
      BY <1>4, <1>6, <1>7, <2>1, <2>2, <3>2 DEF OnlyInv, StatusKept, Tells, Total
    <3> QED
      BY <3>1, <3>2
  <2> QED
    BY <2>2 DEF StatusKept
<1>16. StockKept'
  <2>1. \A p : Debt(job[w], p) = 0 /\ Debt(job[w], p)' = 0
    BY <1>1, <1>4 DEF Debt, Owing
  <2>2. ASSUME NEW p \in Parts PROVE stock'[p] + Away(p)' = stock[p] + Away(p)
    <3>1. stock'[p] = IF p = j.part THEN stock[p] - j.quantity ELSE stock[p]
      BY <1>3 DEF OnlyInv, Typed, SaleTypeOK
    <3>2. Away(p) \in Int /\ stock[p] \in Int
      BY AwayType DEF OnlyInv, Typed, SaleTypeOK
    <3> QED
      BY <1>1, <1>11, <3>1, <3>2
  <2>3. \A p \in Parts : stock'[p] + Away(p)' + Debt(job[w], p)'
                           = stock[p] + Away(p) + Debt(job[w], p)
    BY <2>1, <2>2
  <2> QED
    BY <1>4, <2>3, StockNext
<1> QED
  BY <1>12, <1>13, <1>14, <1>15, <1>16 DEF OnlyInv

\* A void gives back what no note has.
LEMMA VoidCommitKept ==
  ASSUME OneWorker, OnlyInv, Typed', UNCHANGED <<note, halfway>>, NEW w \in Workers, VoidCommits(w)
  PROVE  OnlyInv'
<1>0. PICK s, q : s = job[w].sale /\ q = sale[s].quantity
  OBVIOUS
<1>1. /\ job[w] \in VoidJob /\ job[w].step = "voids" /\ s \in SaleIds /\ Sold(s)
      /\ sale[s].status = "COMPLETED" /\ s \notin noted
  BY <1>0, AtFacts DEF VoidCommits, At, OnlyInv, OnlyJobsOK, OnlyJobOK, VoidJob, JobOK
<1>2. sale[s].part \in Parts /\ q \in Nat
  BY <1>0, <1>1 DEF OnlyInv, Typed, SaleTypeOK, Sold, SaleRow
<1>3. /\ sale' = [sale EXCEPT ![s] = [sale[s] EXCEPT !.status = "VOIDED"]]
      /\ stock' = [stock EXCEPT ![sale[s].part] = stock[sale[s].part] + q] /\ noted' = noted
      /\ \E parts, registers : Commits(w, NoJob, parts, registers)
  BY <1>0, <1>1 DEF VoidCommits, Restock
<1>4. job'[w] = NoJob /\ \A v \in Workers : v = w
  BY <1>3, Alone DEF OnlyInv
<1>5. /\ \A t \in SaleIds : Sold(t)' <=> Sold(t)
      /\ \A t \in SaleIds \ {s} : sale'[t] = sale[t]
      /\ sale'[s].status = "VOIDED" /\ sale'[s].quantity = q /\ sale'[s].part = sale[s].part
  <2>1. stock' \in [Parts -> Int] /\ noted' \subseteq SaleIds /\ Typed
    BY DEF Typed, SaleTypeOK, OnlyInv
  <2> QED
    BY <1>0, <1>1, <1>3, <2>1, RatedSale DEF SaleStatus
<1>6. \A t : /\ NotesOf(t)' = NotesOf(t)
             /\ Returned(t)' = Returned(t) /\ Refunded(t)' = Refunded(t)
  BY DEF Returned, Refunded, NotesOf, Live, Units
<1>7. Returned(s) = 0
  <2>1. NotesOf(s) = {}
    BY <1>1 DEF OnlyInv, NotesOK, NotesOf, Live
  <2> QED
    BY <2>1, NoneReturned
<1>8. /\ Kept(s) = q /\ Kept(s)' = 0
      /\ \A t \in SaleIds \ {s} : Kept(t)' = Kept(t)
  BY <1>0, <1>1, <1>2, <1>5, <1>6, <1>7 DEF Kept
<1>9. \A p : Away(p)' = IF p = sale[s].part THEN Away(p) - q ELSE Away(p)
  <2>1. \A t \in SaleIds : Sold(t) => sale'[t].part = sale[t].part
    BY <1>5
  <2>2. \A p : Away(p)' = IF p = sale[s].part THEN Away(p) + (Kept(s)' - Kept(s)) ELSE Away(p)
    BY <1>1, <1>5, <1>8, <2>1, AwayOfOne DEF OnlyInv
  <2>3. \A p : Away(p) \in Int
    BY AwayType DEF OnlyInv
  <2> QED
    BY <1>2, <1>8, <2>2, <2>3
<1>10. NotesOK'
  BY <1>1, <1>3, <1>5 DEF OnlyInv, NotesOK, Live, Typed, NotesTyped, NoteRow
<1>11. UnitsSold'
  BY <1>0, <1>1, <1>5 DEF OnlyInv, UnitsSold
<1>12. OnlyJobsOK'
  BY <1>4 DEF OnlyJobsOK, Idle
<1>13. StatusKept'
  <2>1. \A t \in SaleIds : ~Rated(job[w], t)
    BY <1>1 DEF Rated, Rating
  <2> QED
    BY <1>4, <1>5, <1>6, <2>1 DEF OnlyInv, StatusKept, Tells, Total
<1>14. StockKept'
  <2>1. \A p : Debt(job[w], p) = 0 /\ Debt(job[w], p)' = 0
    BY <1>1, <1>4 DEF Debt, Owing
  <2>2. ASSUME NEW p \in Parts PROVE stock'[p] + Away(p)' = stock[p] + Away(p)
    <3>1. stock'[p] = IF p = sale[s].part THEN stock[p] + q ELSE stock[p]
      BY <1>3 DEF OnlyInv, Typed, SaleTypeOK
    <3>2. Away(p) \in Int /\ stock[p] \in Int
      BY AwayType DEF OnlyInv, Typed, SaleTypeOK
    <3> QED
      BY <1>2, <1>9, <3>1, <3>2
  <2>3. \A p \in Parts : stock'[p] + Away(p)' + Debt(job[w], p)'
                           = stock[p] + Away(p) + Debt(job[w], p)
    BY <2>1, <2>2
  <2> QED
    BY <1>4, <2>3, StockNext
<1> QED
  BY <1>10, <1>11, <1>12, <1>13, <1>14 DEF OnlyInv

-----------------------------------------------------------------------------
(* One worker: a note is created. *)

\* What a note's request knows.
LEMMA NoteJobFacts ==
  ASSUME OnlyInv, NEW w \in Workers, ~Idle(w), job[w].step \in Noting \cup Unnoting
  PROVE  /\ job[w] \in NoteJob /\ JobOK(job[w]) /\ OnlyJobOK(job[w])
         /\ job[w].sale \in SaleIds /\ Sold(job[w].sale)
         /\ job[w].lines \in NoteLines /\ job[w].todo \subseteq Lines /\ job[w].total \in Nat
         /\ sale[job[w].sale].status # "VOIDED"
         /\ sale[job[w].sale].quantity \in Nat /\ sale[job[w].sale].part \in Parts
<1>1. job[w] \in NoteJob /\ JobOK(job[w]) /\ OnlyJobOK(job[w])
  BY AtFacts DEF OnlyInv, OnlyJobsOK
<1>2. /\ job[w].sale \in SaleIds /\ Sold(job[w].sale) /\ job[w].lines \in NoteLines
      /\ job[w].todo \subseteq Lines /\ job[w].total \in Nat
  BY <1>1 DEF NoteJob, JobOK
<1>3. sale[job[w].sale] \in SaleRow
  BY <1>2 DEF OnlyInv, Typed, SaleTypeOK, Sold
<1> QED
  BY <1>1, <1>2, <1>3 DEF OnlyJobOK, SaleRow

\* The note is written before the stock: its units are owed meanwhile.
LEMMA NoteCreatesKept ==
  ASSUME OneWorker, OnlyInv, Typed', UNCHANGED halfway, NEW w \in Workers, NoteCreates(w)
  PROVE  OnlyInv'
<1>0. PICK s, q, row : /\ s = job[w].sale /\ q = SumFunction(job[w].lines)
                       /\ row = [sale |-> s, lines |-> job[w].lines, total |-> job[w].total,
                                 status |-> "PENDING"]
  OBVIOUS
<1>1. PICK n \in NoteIds :
        /\ note[n] = NoNote
        /\ note' = [note EXCEPT ![n] = row]
        /\ Takes(w, [job[w] EXCEPT !.step = "restocks", !.note = n])
  BY <1>0 DEF NoteCreates, FreshNotes
<1> DEFINE next == [job[w] EXCEPT !.step = "restocks", !.note = n]
<1>2. At(w, "notes") /\ noted' = noted \cup {s} /\ UNCHANGED <<stock, sale>>
  BY <1>0 DEF NoteCreates
<1>3. /\ job[w] \in NoteJob /\ OnlyJobOK(job[w]) /\ job[w].step = "notes"
      /\ s \in SaleIds /\ Sold(s) /\ job[w].lines \in NoteLines /\ job[w].total \in Nat
      /\ sale[s].status # "VOIDED" /\ sale[s].quantity \in Nat /\ sale[s].part \in Parts
  BY <1>0, <1>2, NoteJobFacts DEF At, Noting
<1>4. /\ next \in NoteJob /\ next.step = "restocks" /\ next.sale = s
      /\ next.lines = job[w].lines /\ next.todo = Used(next.lines)
      /\ next.was = job[w].was /\ next # NoJob
  BY <1>0, <1>3, ReturnsAssumption DEF NoteJob, OnlyJobOK
<1>5. /\ row \in NoteRow /\ row.sale = s /\ row.lines = job[w].lines /\ row.total = job[w].total
      /\ row.status = "PENDING" /\ row # NoNote
  BY <1>0, <1>3, ReturnsAssumption DEF NoteRow
<1>6. job'[w] = next /\ \A v \in Workers : v = w
  BY <1>1, Alone DEF OnlyInv
<1> HIDE DEF next
<1>7. note'[n] = row /\ \A m \in NoteIds \ {n} : note'[m] = note[m]
  BY <1>1 DEF OnlyInv, Typed, NotesTyped
<1>8. /\ n \notin NotesOf(s) /\ NotesOf(s)' = NotesOf(s) \cup {n}
      /\ \A t \in SaleIds \ {s} : NotesOf(t)' = NotesOf(t)
      /\ \A t : \A m \in NotesOf(t) : note'[m] = note[m]
  BY <1>1, <1>5, <1>7 DEF NotesOf, Live
<1>9. /\ Returned(s)' = Returned(s) + q /\ Refunded(s)' = Refunded(s) + job[w].total
      /\ Returned(s) \in Nat /\ Refunded(s) \in Nat /\ q \in Nat
  <2>1. Units(n)' = q
    BY <1>0, <1>5, <1>7 DEF Units
  <2>2. q \in Nat
    BY <1>0, <1>3, LinesType
  <2> QED
    BY <1>5, <1>7, <1>8, <2>1, <2>2, ReturnedMore, ReturnedType DEF OnlyInv
<1>10. \A t \in SaleIds \ {s} : Returned(t)' = Returned(t) /\ Refunded(t)' = Refunded(t)
  BY <1>8, ReturnedSame DEF OnlyInv
<1>11. /\ Kept(s)' - Kept(s) = -q /\ \A t \in SaleIds \ {s} : Kept(t)' = Kept(t)
  BY <1>2, <1>3, <1>9, <1>10 DEF Kept
<1>12. \A p : Away(p)' = IF p = sale[s].part THEN Away(p) - q ELSE Away(p)
  <2>1. \A t \in SaleIds : (Sold(t)' <=> Sold(t)) /\ sale'[t].part = sale[t].part
    BY <1>2 DEF Sold
  <2>2. \A p : Away(p)' = IF p = sale[s].part THEN Away(p) + (Kept(s)' - Kept(s)) ELSE Away(p)
    BY <1>3, <1>11, <2>1, AwayOfOne DEF OnlyInv
  <2>3. \A p : Away(p) \in Int
    BY AwayType DEF OnlyInv
  <2> QED
    BY <1>9, <1>11, <2>2, <2>3
<1>13. NotesOK'
  BY <1>2, <1>3, <1>5, <1>7 DEF OnlyInv, NotesOK, Live
<1>14. UnitsSold'
  BY <1>2 DEF OnlyInv, UnitsSold, Sold
<1>15. OnlyJobsOK'
  <2>1. sale[s].status = next.was
    BY <1>0, <1>3, <1>4 DEF OnlyJobOK, Noting
  <2>2. ~halfway /\ Refunded(s)' = 0 => next.was = "COMPLETED"
    <3> SUFFICES ASSUME ~halfway, Refunded(s)' = 0 PROVE sale[s].status = "COMPLETED"
      BY <2>1
    <3>1. Refunded(s) = 0
      BY <1>3, <1>9
    <3>2. \A v \in Workers : ~Rated(job[v], s)
      BY <1>3, <1>6 DEF Rated, Rating
    <3>3. Tells(s) /\ sale[s].quantity > 0 /\ sale[s].status \in SaleStatus
      BY <1>3, <3>2 DEF OnlyInv, StatusKept, UnitsSold, Typed, SaleTypeOK, Sold, SaleRow
    <3> QED
      BY <1>3, <3>1, <3>3 DEF Tells, Total, SaleStatus
  <2>3. OnlyJobOK(job[w])'
    BY <1>2, <1>3, <1>4, <1>6, <2>1, <2>2 DEF OnlyJobOK, Noting, Unnoting
  <2> QED
    BY <1>6, <2>3 DEF OnlyJobsOK
<1>16. StatusKept'
  <2>1. Rated(job[w], s)' /\ \A t \in SaleIds : ~Rated(job[w], t)
    BY <1>3, <1>4, <1>6 DEF Rated, Rating
  <2> QED
    BY <1>2, <1>6, <1>10, <2>1 DEF OnlyInv, StatusKept, Sold, Tells, Total
<1>17. StockKept'
  <2>1. \A p : Debt(job[w], p) = 0
    BY <1>3 DEF Debt, Owing
  <2>2. \A p : Debt(job[w], p)' = IF p = sale[s].part THEN q ELSE 0
    <3>1. SumFunction(Pending(next)) = q
      BY <1>0, <1>4, PendingFacts DEF Owing
    <3>2. Pending(job[w])' = Pending(next)
      BY <1>6 DEF Pending
    <3> QED
      BY <1>2, <1>4, <1>6, <3>1, <3>2 DEF Debt, Owing
  <2>3. ASSUME NEW p \in Parts
        PROVE  stock'[p] + Away(p)' + Debt(job[w], p)' = stock[p] + Away(p) + Debt(job[w], p)
    <3>1. Away(p) \in Int /\ stock[p] \in Int
      BY AwayType DEF OnlyInv, Typed, SaleTypeOK
    <3> QED
      BY <1>2, <1>9, <1>12, <2>1, <2>2, <3>1
  <2> QED
    BY <1>6, <2>3, StockNext
<1> QED
  BY <1>13, <1>14, <1>15, <1>16, <1>17 DEF OnlyInv

\* The stock is told line by line: of a new note after it, of a cancelled one before.
LEMMA MovesKept ==
  ASSUME OneWorker, OnlyInv, Typed', UNCHANGED halfway, NEW w \in Workers,
         NoteRestocks(w) \/ CancelTakesStock(w)
  PROVE  OnlyInv'
<1>0. PICK s, p, new :
        s = job[w].sale /\ p = sale[s].part /\ new = (job[w].step = "restocks")
  OBVIOUS
<1>1. ~Idle(w) /\ job[w].step = IF new THEN "restocks" ELSE "cancels"
  BY <1>0 DEF NoteRestocks, CancelTakesStock, At
<1>2. /\ job[w] \in NoteJob /\ JobOK(job[w]) /\ OnlyJobOK(job[w])
      /\ s \in SaleIds /\ Sold(s) /\ job[w].lines \in NoteLines /\ job[w].todo \subseteq Lines
      /\ sale[s].status # "VOIDED" /\ p \in Parts
  BY <1>0, <1>1, NoteJobFacts DEF Noting, Unnoting
<1>3. PICK l \in job[w].todo :
        /\ stock' = [stock EXCEPT ![p] =
             stock[p] + (IF new THEN job[w].lines[l] ELSE -job[w].lines[l])]
        /\ Commits(w, [job[w] EXCEPT !.todo = job[w].todo \ {l}], {p}, {})
        /\ UNCHANGED <<sale, noted, note>>
  BY <1>0, <1>1 DEF NoteRestocks, CancelTakesStock, Moves, At
<1> DEFINE next == [job[w] EXCEPT !.todo = job[w].todo \ {l}]
           by == IF new THEN job[w].lines[l] ELSE -job[w].lines[l]
<1>4. /\ next \in NoteJob /\ next.step = job[w].step /\ next.sale = s
      /\ next.lines = job[w].lines /\ next.todo = job[w].todo \ {l}
      /\ next.was = job[w].was /\ next.note = job[w].note /\ next # NoJob
  BY <1>0, <1>2, ReturnsAssumption DEF NoteJob
<1>5. job'[w] = next /\ \A v \in Workers : v = w
  BY <1>3, Alone DEF OnlyInv
<1> HIDE DEF next
<1>6. \A t : Returned(t)' = Returned(t) /\ Refunded(t)' = Refunded(t)
  BY <1>3 DEF Returned, Refunded, NotesOf, Live, Units
<1>7. \A r : Away(r)' = Away(r)
  <2>1. \A t : Kept(t)' = Kept(t)
    BY <1>3, <1>6 DEF Kept
  <2> QED
    BY <1>3, <2>1, AwaySame DEF OnlyInv, SalesOf, Sold
<1>8. NotesOK' /\ UnitsSold'
  BY <1>3 DEF OnlyInv, NotesOK, UnitsSold, Sold, Live
<1>9. OnlyJobsOK'
  <2>1. OnlyJobOK(next)
    BY <1>0, <1>1, <1>2, <1>4 DEF OnlyJobOK, Noting, Unnoting
  <2>2. OnlyJobOK(job[w])'
    BY <1>3, <1>5, <1>6, <2>1 DEF OnlyJobOK
  <2> QED
    BY <1>5, <2>2 DEF OnlyJobsOK
<1>10. StatusKept'
  <2>1. \A t \in SaleIds : Rated(job[w], t)' <=> Rated(job[w], t)
    BY <1>0, <1>1, <1>4, <1>5 DEF Rated, Rating, Idle
  <2> QED
    BY <1>3, <1>5, <1>6, <2>1 DEF OnlyInv, StatusKept, Sold, Tells, Total
<1>11. StockKept'
  <2>1. by \in Int /\ SumFunction(Pending(job[w])) \in Int
    BY <1>1, <1>2, PendingFacts DEF NoteLines, Owing
  <2>2. SumFunction(Pending(next)) = SumFunction(Pending(job[w])) - by
    <3>1. job[w].lines[l] \in Nat
      BY <1>2 DEF NoteLines
    <3>2. SumFunction(Pending(next)) =
            SumFunction(Pending(job[w])) + (IF new THEN -job[w].lines[l] ELSE job[w].lines[l])
      BY <1>0, <1>1, <1>2, <1>4, PendingMoves DEF Owing
    <3> QED
      BY <2>1, <3>1, <3>2
  <2>3. \A r : /\ Debt(job[w], r) = IF r = p THEN SumFunction(Pending(job[w])) ELSE 0
               /\ Debt(job[w], r)' = IF r = p THEN SumFunction(Pending(next)) ELSE 0
    <3>1. Pending(job[w])' = Pending(next)
      BY <1>5 DEF Pending
    <3> QED
      BY <1>0, <1>1, <1>3, <1>4, <1>5, <3>1 DEF Debt, Owing, Idle
  <2> HIDE DEF by
  <2>4. ASSUME NEW r \in Parts
        PROVE  stock'[r] + Away(r)' + Debt(job[w], r)' = stock[r] + Away(r) + Debt(job[w], r)
    <3>1. stock'[r] = IF r = p THEN stock[r] + by ELSE stock[r]
      BY <1>2, <1>3 DEF OnlyInv, Typed, SaleTypeOK, by
    <3>2. Away(r) \in Int /\ stock[r] \in Int /\ Away(r)' = Away(r)
      BY <1>7, AwayType DEF OnlyInv, Typed, SaleTypeOK
    <3> QED
      BY <2>1, <2>2, <2>3, <3>1, <3>2
  <2> QED
    BY <1>5, <2>4, StockNext
<1> QED
  BY <1>8, <1>9, <1>10, <1>11 DEF OnlyInv

\* The status is written last, of what was summed.
LEMMA RatesKept ==
  ASSUME OneWorker, OnlyInv, Typed', UNCHANGED halfway, NEW w \in Workers,
         NoteRates(w) \/ CancelRates(w)
  PROVE  OnlyInv'
<1>0. PICK s, q : s = job[w].sale /\ q = sale[s].quantity
  OBVIOUS
<1>1. ~Idle(w) /\ job[w].step \in {"rates", "resets"}
  BY DEF NoteRates, CancelRates, At
<1>2. /\ job[w] \in NoteJob /\ JobOK(job[w]) /\ OnlyJobOK(job[w])
      /\ s \in SaleIds /\ Sold(s) /\ sale[s].status # "VOIDED" /\ q \in Nat
  BY <1>0, <1>1, NoteJobFacts DEF Noting, Unnoting
<1>3. Takes(w, NoJob) /\ UNCHANGED <<stock, noted, note>>
  BY DEF NoteRates, CancelRates
<1>4. job'[w] = NoJob /\ \A v \in Workers : v = w
  BY <1>3, Alone DEF OnlyInv
<1>5. Refunded(s) \in Nat /\ Refunded(s) = job[w].returned /\ q > 0
  BY <1>0, <1>1, <1>2, ReturnedType DEF OnlyInv, OnlyJobOK, UnitsSold
<1>6. PICK to \in SaleStatus :
        /\ sale' = [sale EXCEPT ![s] = [sale[s] EXCEPT !.status = to]]
        /\ to # "VOIDED"
        /\ ~halfway => /\ to = "COMPLETED" => Refunded(s) = 0
                       /\ to = "PARTIALLY_REFUNDED" => Refunded(s) > 0
                       /\ to = "FULLY_REFUNDED" => Refunded(s) = q
  <2>1. CASE NoteRates(w)
    <3> DEFINE to == StatusFor(job[w].returned, q, job[w].was)
    <3>1. sale[s].status = job[w].was /\ job[w].was \in SaleStatus /\ job[w].was # "VOIDED"
      <4>1. job[w].step = "rates"
        BY <2>1 DEF NoteRates, At
      <4>2. sale[s].status = job[w].was
        BY <1>0, <1>2, <4>1 DEF OnlyJobOK, Noting
      <4>3. job[w].was \in SaleStatus
        BY <1>2 DEF NoteJob
      <4> QED
        BY <1>2, <4>2, <4>3
    <3>2. ~halfway /\ Refunded(s) = 0 => job[w].was = "COMPLETED"
      BY <1>0, <1>2, <2>1 DEF OnlyJobOK, NoteRates, At, Noting
    <3>3. sale' = [sale EXCEPT ![s] = [sale[s] EXCEPT !.status = to]]
      <4>1. IF to = job[w].was THEN UNCHANGED sale ELSE Rates(s, to)
        BY <1>0, <2>1 DEF NoteRates, Total
      <4>2. sale[s] = [sale[s] EXCEPT !.status = sale[s].status]
            /\ sale = [sale EXCEPT ![s] = sale[s]]
        BY <1>2 DEF OnlyInv, Typed, SaleTypeOK, SaleRow, Sold
      <4> HIDE DEF to
      <4> QED
        BY <3>1, <4>1, <4>2 DEF Rates
    <3>4. to \in SaleStatus /\ to # "VOIDED"
      BY <3>1 DEF StatusFor, SaleStatus
    <3>5. /\ to = "PARTIALLY_REFUNDED" /\ ~halfway => Refunded(s) > 0
          /\ to = "FULLY_REFUNDED" /\ ~halfway => Refunded(s) = q
          /\ to = "COMPLETED" /\ ~halfway => Refunded(s) = 0
      BY <1>5, <3>1, <3>2 DEF StatusFor, SaleStatus
    <3> HIDE DEF to
    <3> QED
      BY <3>3, <3>4, <3>5
  <2>2. CASE CancelRates(w)
    <3> DEFINE to == IF job[w].returned > 0 THEN "PARTIALLY_REFUNDED" ELSE "COMPLETED"
    <3>1. sale' = [sale EXCEPT ![s] = [sale[s] EXCEPT !.status = to]]
      BY <1>0, <2>2 DEF CancelRates, Rates
    <3>2. to \in SaleStatus /\ to # "VOIDED"
      BY DEF SaleStatus
    <3>3. /\ to = "COMPLETED" => Refunded(s) = 0
          /\ to = "PARTIALLY_REFUNDED" => Refunded(s) > 0
          /\ to = "FULLY_REFUNDED" => Refunded(s) = q
      BY <1>5
    <3> HIDE DEF to
    <3> QED
      BY <3>1, <3>2, <3>3
  <2> QED
    BY <2>1, <2>2
<1>7. /\ \A t \in SaleIds : Sold(t)' <=> Sold(t)
      /\ \A t \in SaleIds \ {s} : sale'[t] = sale[t]
      /\ sale'[s].status = to /\ sale'[s].quantity = q /\ sale'[s].part = sale[s].part
  <2>1. stock' \in [Parts -> Int] /\ noted' \subseteq SaleIds /\ Typed
    BY <1>3 DEF Typed, SaleTypeOK, OnlyInv
  <2> QED
    BY <1>0, <1>2, <1>6, <2>1, RatedSale
<1>8. \A t : Returned(t)' = Returned(t) /\ Refunded(t)' = Refunded(t)
  BY <1>3 DEF Returned, Refunded, NotesOf, Live, Units
<1>9. \A p : Away(p)' = Away(p)
  <2>1. \A t \in SaleIds : Kept(t)' = Kept(t)
    BY <1>0, <1>2, <1>6, <1>7, <1>8 DEF Kept
  <2>2. \A p : SalesOf(p)' = SalesOf(p) /\ \A t \in SalesOf(p) : Kept(t)' = Kept(t)
    BY <1>7, <2>1 DEF SalesOf
  <2> QED
    BY <2>2, AwaySame DEF OnlyInv
<1>10. NotesOK'
  BY <1>3, <1>6, <1>7 DEF OnlyInv, NotesOK, Live, Typed, NotesTyped, NoteRow
<1>11. UnitsSold'
  BY <1>0, <1>7 DEF OnlyInv, UnitsSold
<1>12. OnlyJobsOK'
  BY <1>4 DEF OnlyJobsOK, Idle
<1>13. StatusKept'
  <2>1. \A t \in SaleIds : Rated(job[w], t) => t = s
    BY <1>0 DEF Rated
  <2>2. ASSUME ~halfway, NEW t \in SaleIds, Sold(t)' PROVE Tells(t)'
    <3>1. CASE t = s
      BY <1>6, <1>7, <1>8, <2>2, <3>1 DEF Tells, Total
    <3>2. CASE t # s
      BY <1>4, <1>7, <1>8, <2>1, <2>2, <3>2 DEF OnlyInv, StatusKept, Tells, Total
    <3> QED
      BY <3>1, <3>2
  <2> QED
    BY <2>2 DEF StatusKept
<1>14. StockKept'
  <2>1. \A p : Debt(job[w], p) = 0 /\ Debt(job[w], p)' = 0
    BY <1>1, <1>4 DEF Debt, Owing
  <2> QED
    BY <1>3, <1>4, <1>9, <2>1, StockNext
<1> QED
  BY <1>10, <1>11, <1>12, <1>13, <1>14 DEF OnlyInv

-----------------------------------------------------------------------------
(* One worker: a note is refunded, or cancelled. *)

\* A refund writes the note alone, which has come back as before.
LEMMA RefundWritesKept ==
  ASSUME OneWorker, OnlyInv, Typed', UNCHANGED halfway, NEW w \in Workers, RefundWrites(w)
  PROVE  OnlyInv'
<1>0. PICK n : n = job[w].note
  OBVIOUS
<1>1. /\ ~Idle(w) /\ job[w].step = "refunds" /\ Takes(w, NoJob) /\ UNCHANGED <<stock, sale, noted>>
      /\ note' = [note EXCEPT ![n] = [note[n] EXCEPT !.status = "PROCESSED"]]
  BY <1>0 DEF RefundWrites, At, counter
<1>2. n \in NoteIds /\ note[n] # NoNote /\ note[n].status = "PENDING"
  <2>1. JobOK(job[w]) /\ OnlyJobOK(job[w])
    BY <1>1, AtFacts DEF OnlyInv, OnlyJobsOK
  <2> QED
    BY <1>0, <1>1, <2>1 DEF JobOK, OnlyJobOK
<1>3. job'[w] = NoJob /\ \A v \in Workers : v = w
  BY <1>1, Alone DEF OnlyInv
<1>4. /\ \A m \in NoteIds : note'[m] # NoNote <=> note[m] # NoNote
      /\ \A m \in NoteIds : /\ note'[m].sale = note[m].sale /\ note'[m].lines = note[m].lines
                            /\ note'[m].total = note[m].total
      /\ \A m \in NoteIds : Live(m)' <=> Live(m)
  BY <1>1, <1>2, MarkedNote DEF OnlyInv, Live
<1>5. \A t : Returned(t)' = Returned(t) /\ Refunded(t)' = Refunded(t)
  <2>1. \A t : NotesOf(t)' = NotesOf(t)
    BY <1>4 DEF NotesOf
  <2> QED
    BY <1>4, <2>1, ReturnedSame DEF OnlyInv, NotesOf
<1>6. \A p : Away(p)' = Away(p)
  <2>1. \A t : Kept(t)' = Kept(t)
    BY <1>1, <1>5 DEF Kept
  <2> QED
    BY <1>1, <2>1, AwaySame DEF OnlyInv, SalesOf, Sold
<1>7. NotesOK' /\ UnitsSold'
  BY <1>1, <1>4 DEF OnlyInv, NotesOK, UnitsSold, Sold
<1>8. OnlyJobsOK'
  BY <1>3 DEF OnlyJobsOK, Idle
<1>9. StatusKept'
  <2>1. \A t \in SaleIds : ~Rated(job[w], t)
    BY <1>1 DEF Rated, Rating
  <2> QED
    BY <1>1, <1>3, <1>5, <2>1 DEF OnlyInv, StatusKept, Sold, Tells, Total
<1>10. StockKept'
  <2>1. \A p : Debt(job[w], p) = 0 /\ Debt(job[w], p)' = 0
    BY <1>1, <1>3 DEF Debt, Owing
  <2> QED
    BY <1>1, <1>3, <1>6, <2>1, StockNext
<1> QED
  BY <1>7, <1>8, <1>9, <1>10 DEF OnlyInv

\* The note is cancelled after its units were taken out again: none is owed any more.
LEMMA CancelMarksKept ==
  ASSUME OneWorker, OnlyInv, Typed', UNCHANGED halfway, NEW w \in Workers, CancelMarks(w)
  PROVE  OnlyInv'
<1>0. PICK s, q, n : s = job[w].sale /\ q = SumFunction(job[w].lines) /\ n = job[w].note
  OBVIOUS
<1> DEFINE next == [job[w] EXCEPT !.step = "recounts"]
<1>1. /\ ~Idle(w) /\ job[w].step = "cancels" /\ job[w].todo = {}
      /\ Takes(w, next) /\ UNCHANGED <<stock, sale, noted>>
      /\ note' = [note EXCEPT ![n] = [note[n] EXCEPT !.status = "CANCELLED"]]
  BY <1>0 DEF CancelMarks, At, counter
<1>2. /\ job[w] \in NoteJob /\ JobOK(job[w]) /\ OnlyJobOK(job[w])
      /\ s \in SaleIds /\ Sold(s) /\ job[w].lines \in NoteLines
      /\ sale[s].status # "VOIDED" /\ sale[s].quantity \in Nat /\ sale[s].part \in Parts
  BY <1>0, <1>1, NoteJobFacts DEF Unnoting
<1>3. /\ n \in NoteIds /\ note[n] # NoNote /\ note[n].status = "PENDING"
      /\ note[n].sale = s /\ note[n].lines = job[w].lines
  BY <1>0, <1>1, <1>2 DEF JobOK, OnlyJobOK
<1>4. /\ next \in NoteJob /\ next.step = "recounts" /\ next.sale = s /\ next # NoJob
  BY <1>0, <1>2, ReturnsAssumption DEF NoteJob
<1>5. job'[w] = next /\ \A v \in Workers : v = w
  BY <1>1, Alone DEF OnlyInv
<1> HIDE DEF next
<1>6. /\ \A m \in NoteIds : note'[m] # NoNote <=> note[m] # NoNote
      /\ \A m \in NoteIds \ {n} : note'[m] = note[m]
      /\ note'[n].sale = s /\ note'[n].status = "CANCELLED"
  BY <1>1, <1>3, MarkedNote DEF OnlyInv
<1>7. /\ n \in NotesOf(s) /\ NotesOf(s)' = NotesOf(s) \ {n}
      /\ \A t \in SaleIds \ {s} : NotesOf(t)' = NotesOf(t)
      /\ \A t \in SaleIds \ {s} : \A m \in NotesOf(t) : note'[m] = note[m]
      /\ \A m \in NotesOf(s) \ {n} : note'[m] = note[m]
  BY <1>3, <1>6 DEF NotesOf, Live
<1>8. /\ Returned(s) = Returned(s)' + q /\ Returned(s)' \in Nat /\ q \in Nat
  <2>1. Units(n) = q
    BY <1>0, <1>3 DEF Units
  <2>2. Returned(s) = Returned(s)' + q
    BY <1>7, <2>1, ReturnedLess DEF OnlyInv
  <2>3. q \in Nat
    BY <1>0, <1>2, LinesType
  <2>4. Returned(s)' \in Nat
    BY NumbersNext DEF NumbersOK
  <2> QED
    BY <2>2, <2>3, <2>4
<1>9. \A t \in SaleIds \ {s} : Returned(t)' = Returned(t) /\ Refunded(t)' = Refunded(t)
  BY <1>7, ReturnedSame DEF OnlyInv
<1>10. Kept(s)' - Kept(s) = q /\ \A t \in SaleIds \ {s} : Kept(t)' = Kept(t)
  BY <1>1, <1>2, <1>8, <1>9 DEF Kept
<1>11. \A p : Away(p)' = IF p = sale[s].part THEN Away(p) + q ELSE Away(p)
  <2>1. \A t \in SaleIds : (Sold(t)' <=> Sold(t)) /\ sale'[t].part = sale[t].part
    BY <1>1 DEF Sold
  <2>2. \A p : Away(p)' = IF p = sale[s].part THEN Away(p) + (Kept(s)' - Kept(s)) ELSE Away(p)
    BY <1>2, <1>10, <2>1, AwayOfOne DEF OnlyInv
  <2> QED
    BY <1>10, <2>2
<1>12. NotesOK'
  BY <1>1, <1>3, <1>6 DEF OnlyInv, NotesOK, Live
<1>13. UnitsSold'
  BY <1>1 DEF OnlyInv, UnitsSold, Sold
<1>14. OnlyJobsOK'
  <2>1. OnlyJobOK(job[w])'
    BY <1>1, <1>2, <1>4, <1>5 DEF OnlyJobOK, Noting, Unnoting
  <2> QED
    BY <1>5, <2>1 DEF OnlyJobsOK
<1>15. StatusKept'
  <2>1. Rated(job[w], s)' /\ \A t \in SaleIds : ~Rated(job[w], t)
    BY <1>1, <1>4, <1>5 DEF Rated, Rating
  <2> QED
    BY <1>1, <1>5, <1>9, <2>1 DEF OnlyInv, StatusKept, Sold, Tells, Total
<1>16. StockKept'
  <2>1. \A p : Debt(job[w], p)' = 0
    BY <1>4, <1>5 DEF Debt, Owing
  <2>2. \A p : Debt(job[w], p) = IF p = sale[s].part THEN q ELSE 0
    <3>1. SumFunction(Pending(job[w])) = q
      BY <1>0, <1>1, <1>2, PendingFacts DEF Owing
    <3> QED
      BY <1>0, <1>1, <3>1 DEF Debt, Owing, Idle
  <2>3. ASSUME NEW p \in Parts
        PROVE  stock'[p] + Away(p)' + Debt(job[w], p)' = stock[p] + Away(p) + Debt(job[w], p)
    <3>1. Away(p) \in Int /\ stock[p] \in Int
      BY AwayType DEF OnlyInv, Typed, SaleTypeOK
    <3> QED
      BY <1>1, <1>8, <1>11, <2>1, <2>2, <3>1
  <2> QED
    BY <1>5, <2>3, StockNext
<1> QED
  BY <1>12, <1>13, <1>14, <1>15, <1>16 DEF OnlyInv

-----------------------------------------------------------------------------
(* One worker: every step. *)

LEMMA NextKeeps == ASSUME OneWorker, OnlyInv, [Next]_vars PROVE OnlyInv'
<1>1. Typed'
  BY NextTyped DEF OnlyInv
<1>2. ASSUME Selling, UNCHANGED <<note, halfway>> PROVE OnlyInv'
  <2>1. CASE Registering
    <3>1. \A v \in Workers : job'[v] = job[v] \/ Told(job[v], job'[v])
      BY <2>1, NoticeFacts DEF Registering, OnlyInv, Typed, JobsOK
    <3>2. UNCHANGED <<note, sale, stock, noted, halfway>>
      BY <1>2, <2>1 DEF Registering, counter
    <3> QED
      BY <1>1, <3>1, <3>2, ToldKept
  <2>2. ASSUME NEW w \in Workers, SaleSteps(w) PROVE OnlyInv'
    BY <1>1, <1>2, <2>2, SaleReadsKept, SaleCommitKept, VoidCommitKept DEF SaleSteps
  <2> QED
    BY <1>2, <2>1, <2>2 DEF Selling
<1>3. ASSUME NEW w \in Workers, NoteSteps(w), UNCHANGED halfway PROVE OnlyInv'
  BY <1>1, <1>3, NoteReadsKept, NoteCreatesKept, MovesKept, RatesKept, RefundWritesKept,
     CancelMarksKept DEF NoteSteps
<1>4. CASE UNCHANGED vars
  BY <1>1, <1>4, ToldKept DEF vars, saleVars
<1> QED
  BY <1>1, <1>2, <1>3, <1>4, StopsKept DEF Next

LEMMA OnlyStarts == ASSUME Init PROVE OnlyInv
<1>1. Typed
  BY TypedStarts
<1>2. /\ \A s \in SaleIds : ~Sold(s)
      /\ \A w \in Workers : job[w] = NoJob
      /\ \A n \in NoteIds : note[n] = NoNote
  BY DEF Init, SaleInit, Sold
<1>3. NotesOK /\ UnitsSold /\ OnlyJobsOK /\ StatusKept
  BY <1>2 DEF NotesOK, UnitsSold, OnlyJobsOK, StatusKept, Idle
<1>4. StockKept
  <2>1. \A p : Away(p) = 0
    <3> SUFFICES ASSUME NEW p PROVE Away(p) = 0
      OBVIOUS
    <3> DEFINE f == [s \in SalesOf(p) |-> Kept(s)]
    <3>1. Away(p) = SumFunctionOnSet(f, {})
      <4>1. SalesOf(p) = {}
        BY <1>2 DEF SalesOf
      <4> QED
        BY <4>1 DEF Away, SumFunction
    <3> HIDE DEF f
    <3> QED
      BY <3>1, SumFirst, FS_EmptySet
  <2>2. \A p \in Parts : stock[p] = OpeningStock[p] /\ OpeningStock[p] \in Nat
    BY SalesAssumption DEF Init, SaleInit
  <2>3. \A w \in Workers : \A p : Debt(job[w], p) = 0
    BY <1>2 DEF Debt
  <2> QED
    BY <2>1, <2>2, <2>3 DEF StockKept, Fits
<1> QED
  BY <1>1, <1>3, <1>4 DEF OnlyInv

LEMMA OnlyInvariant == ASSUME OneWorker PROVE Spec => []OnlyInv
<1>1. Init => OnlyInv
  BY OnlyStarts
<1>2. OnlyInv /\ [Next]_vars => OnlyInv'
  BY NextKeeps
<1> QED
  BY <1>1, <1>2, PTL DEF Spec

\* With one request at a time, and none stopped half-way, the status of a sale
\* tells the money of its live notes.
THEOREM StatusCorrect == ASSUME OneWorker PROVE Spec => []StatusTellsReturns
<1>1. OnlyInv => StatusTellsReturns
  BY DEF OnlyInv, StatusKept, StatusTellsReturns, Settled, Rated, Tells, Idle
<1> QED
  BY <1>1, OnlyInvariant, PTL

\* With one request at a time, and none stopped half-way, the stock of a part is
\* what it was at first less what customers have of it.
THEOREM StockNotesCorrect == ASSUME OneWorker PROVE Spec => []StockMatchesNotes
<1>1. OnlyInv => StockMatchesNotes
  <2> SUFFICES ASSUME OnlyInv, Settled, NEW p \in Parts
               PROVE  stock[p] = OpeningStock[p] - Away(p)
    BY DEF StockMatchesNotes
  <2>1. \A w \in Workers : Debt(job[w], p) = 0
    BY DEF Settled, Idle, Debt
  <2>2. Fits(p, 0)
    BY <2>1 DEF OnlyInv, StockKept
  <2>3. Away(p) \in Int /\ OpeningStock[p] \in Nat
    BY AwayType, SalesAssumption DEF OnlyInv
  <2> QED
    BY <2>2, <2>3 DEF Fits, Settled
<1> QED
  BY <1>1, OnlyInvariant, PTL

\* With one request at a time, wherever requests stop, the stock never has a unit
\* that the notes and sales leave with customers.
THEOREM NoUnitInventedCorrect == ASSUME OneWorker PROVE Spec => []NoUnitInvented
<1>1. OnlyInv => NoUnitInvented
  <2> SUFFICES ASSUME OnlyInv, NEW p \in Parts
               PROVE  stock[p] <= OpeningStock[p] - Away(p)
    BY DEF NoUnitInvented
  <2>1. CASE Workers = {}
    BY <2>1, FitsLess DEF OnlyInv, StockKept
  <2>2. ASSUME NEW w \in Workers PROVE stock[p] <= OpeningStock[p] - Away(p)
    BY <2>2, DebtType, FitsLess DEF OnlyInv, StockKept
  <2> QED
    BY <2>1, <2>2
<1> QED
  BY <1>1, OnlyInvariant, PTL
=============================================================================
