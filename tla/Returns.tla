------------------------------ MODULE Returns ------------------------------
(***************************************************************************)
(* Credit notes: what comes back of a sale.  Creating and cancelling one   *)
(* is a row of statements, each committed on its own: the note with its    *)
(* lines, the stock line by line, a sum over the sale's notes, the sale's  *)
(* status.  Refunding it writes the note alone, and no cash register.      *)
(*                                                                         *)
(* A sale has one line, so that every line of a note is about its part; a  *)
(* note may have several of them, and its client prices them as it likes:  *)
(* the money of a note (total) is independent of its units.                *)
(***************************************************************************)
EXTENDS Sales, FiniteSets, Functions

CONSTANTS NoteIds,     \* credit_notes ids; each is used once
          Lines,       \* bound: the lines a note may have
          NoteTotals,  \* what clients' prices make of a note
          NoNote

\* credit_note_items: the units of each line of a note, 0 where it has no such line.
NoteLines == [Lines -> Nat]
Used(lines) == {l \in Lines : lines[l] > 0}

NoteRow == [sale : SaleIds, lines : NoteLines, total : Nat,
            status : {"PENDING", "PROCESSED", "CANCELLED"}]

\* A request: the sale and its status as read, the note, its lines and those whose
\* stock is still to be moved, and the sum it found.
NoteJob == [step : {"notes", "restocks", "rates", "cancels", "recounts", "resets"},
            sale : SaleIds, lines : NoteLines, todo : SUBSET Lines, total : Nat,
            was : SaleStatus, note : NoteIds \cup {NoNote}, returned : Nat]
RefundJob == [step : {"refunds"}, note : NoteIds]

\* Ids are UUIDs: there are finitely many.
ASSUME IdsAssumption == IsFiniteSet(NoteIds) /\ IsFiniteSet(SaleIds) /\ IsFiniteSet(Lines)
ASSUME ReturnsAssumption ==
  /\ NoteTotals \subseteq Nat                     \* unitPrice is nonnegative
  /\ NoNote \notin NoteRow \cup NoteIds
  /\ NoJob \notin NoteJob \cup RefundJob

VARIABLES note,       \* credit_notes, each with its lines
          halfway     \* history: a request stopped between two commits of its own

vars == <<saleVars, cashVars, note, halfway>>

Job == SaleJob \cup VoidJob \cup NoteJob \cup RefundJob

\* Sales, credit notes and the requests about them are well formed.
TypeOK ==
  /\ CashTypeOK /\ SaleTypeOK
  /\ note \in [NoteIds -> NoteRow \cup {NoNote}]
  /\ halfway \in BOOLEAN
  /\ job \in [Workers -> Job \cup {NoJob}]

Init ==
  /\ CashInit /\ SaleInit
  /\ note = [n \in NoteIds |-> NoNote]
  /\ halfway = FALSE

-----------------------------------------------------------------------------
FreshNotes == {n \in NoteIds : note[n] = NoNote}
Live(n) == note[n] # NoNote /\ note[n].status # "CANCELLED"
NotesOf(s) == {n \in NoteIds : Live(n) /\ note[n].sale = s}
Units(n) == SumFunction(note[n].lines)
Returned(s) == SumFunction([n \in NotesOf(s) |-> Units(n)])
Refunded(s) == SumFunction([n \in NotesOf(s) |-> note[n].total])

\* A part costs one and a sale has no discount: its total is its quantity.
Total(s) == sale[s].quantity

\* The money of the live notes decides; without any, the status read at first stays.
StatusFor(returned, total, was) ==
  IF returned = total THEN "FULLY_REFUNDED"
  ELSE IF returned > 0 THEN "PARTIALLY_REFUNDED" ELSE was

\* A part's quantity is incremented, or decremented without any check.
Moves(w, p, by, next) ==
  /\ stock' = [stock EXCEPT ![p] = stock[p] + by]
  /\ Commits(w, next, {p}, {})
  /\ UNCHANGED <<sale, noted, note, cashVars>>

Rates(s, to) == sale' = [sale EXCEPT ![s] = [sale[s] EXCEPT !.status = to]]

-----------------------------------------------------------------------------
(* createCreditNote. *)

\* The sale is not void, and has as much left to return as each line asks for:
\* the lines are compared one by one with what earlier notes have left.
NoteReads(w, s, lines, total) ==
  /\ Idle(w) /\ FreshNotes # {}
  /\ Used(lines) # {}
  /\ Sold(s) /\ sale[s].status # "VOIDED"
  /\ \A l \in Used(lines) : lines[l] <= sale[s].quantity - Returned(s)
  /\ Takes(w, [step |-> "notes", sale |-> s, lines |-> lines, todo |-> Used(lines),
               total |-> total, was |-> sale[s].status, note |-> NoNote, returned |-> 0])
  /\ UNCHANGED <<counter, cashVars, note>>

NoteCreates(w) ==
  /\ At(w, "notes")
  /\ \E n \in FreshNotes :
       /\ note' = [note EXCEPT ![n] =
            [sale |-> job[w].sale, lines |-> job[w].lines, total |-> job[w].total,
             status |-> "PENDING"]]
       /\ Takes(w, [job[w] EXCEPT !.step = "restocks", !.note = n])
  /\ noted' = noted \cup {job[w].sale}
  /\ UNCHANGED <<stock, sale, cashVars>>

\* Mutant: one update, of one line, for a part that several lines name.
NoteRestocks_Once(w) ==
  /\ At(w, "restocks")
  /\ \E l \in job[w].todo :
       Moves(w, sale[job[w].sale].part, job[w].lines[l], [job[w] EXCEPT !.todo = {}])

NoteRestocks(w) ==
  /\ At(w, "restocks")
  /\ \E l \in job[w].todo :
       Moves(w, sale[job[w].sale].part, job[w].lines[l],
             [job[w] EXCEPT !.todo = job[w].todo \ {l}])

NoteSums(w) ==
  /\ At(w, "restocks") /\ job[w].todo = {}
  /\ Takes(w, [job[w] EXCEPT !.step = "rates", !.returned = Refunded(job[w].sale)])
  /\ UNCHANGED <<counter, cashVars, note>>

\* The status is written if it is not the one read at first.
NoteRates(w) ==
  /\ At(w, "rates")
  /\ LET j == job[w]
         to == StatusFor(j.returned, Total(j.sale), j.was)
     IN IF to = j.was THEN UNCHANGED sale ELSE Rates(j.sale, to)
  /\ Takes(w, NoJob)
  /\ UNCHANGED <<stock, noted, cashVars, note>>

-----------------------------------------------------------------------------
(* processRefund. *)

RefundReads(w, n) ==
  /\ Idle(w)
  /\ note[n] # NoNote /\ note[n].status = "PENDING"
  /\ Takes(w, [step |-> "refunds", note |-> n])
  /\ UNCHANGED <<counter, cashVars, note>>

RefundWrites(w) ==
  /\ At(w, "refunds")
  /\ note' = [note EXCEPT ![job[w].note] = [note[job[w].note] EXCEPT !.status = "PROCESSED"]]
  /\ Takes(w, NoJob)
  /\ UNCHANGED <<counter, cashVars>>

-----------------------------------------------------------------------------
(* cancelCreditNote. *)

CancelReads(w, n) ==
  /\ Idle(w)
  /\ note[n] # NoNote /\ note[n].status = "PENDING"
  /\ LET s == note[n].sale
     IN Takes(w, [step |-> "cancels", sale |-> s, lines |-> note[n].lines,
                  todo |-> Used(note[n].lines), total |-> note[n].total,
                  was |-> sale[s].status, note |-> n, returned |-> 0])
  /\ UNCHANGED <<counter, cashVars, note>>

\* Mutant: what came back is not taken out again.
CancelTakesStock_Keeps(w) ==
  /\ At(w, "cancels")
  /\ \E l \in job[w].todo :
       Moves(w, sale[job[w].sale].part, 0, [job[w] EXCEPT !.todo = job[w].todo \ {l}])

CancelTakesStock(w) ==
  /\ At(w, "cancels")
  /\ \E l \in job[w].todo :
       Moves(w, sale[job[w].sale].part, -job[w].lines[l],
             [job[w] EXCEPT !.todo = job[w].todo \ {l}])

CancelMarks(w) ==
  /\ At(w, "cancels") /\ job[w].todo = {}
  /\ note' = [note EXCEPT ![job[w].note] = [note[job[w].note] EXCEPT !.status = "CANCELLED"]]
  /\ Takes(w, [job[w] EXCEPT !.step = "recounts"])
  /\ UNCHANGED <<counter, cashVars>>

CancelSums(w) ==
  /\ At(w, "recounts")
  /\ Takes(w, [job[w] EXCEPT !.step = "resets", !.returned = Refunded(job[w].sale)])
  /\ UNCHANGED <<counter, cashVars, note>>

\* Mutant: the status read at first is kept when notes remain.
CancelRates_Keeps(w) ==
  /\ At(w, "resets")
  /\ Rates(job[w].sale, IF job[w].returned > 0 THEN job[w].was ELSE "COMPLETED")
  /\ Takes(w, NoJob)
  /\ UNCHANGED <<stock, noted, cashVars, note>>

\* One of two statuses, whatever the sale has become.
CancelRates(w) ==
  /\ At(w, "resets")
  /\ Rates(job[w].sale, IF job[w].returned > 0 THEN "PARTIALLY_REFUNDED" ELSE "COMPLETED")
  /\ Takes(w, NoJob)
  /\ UNCHANGED <<stock, noted, cashVars, note>>

-----------------------------------------------------------------------------
NoteSteps(w) ==
  \/ \E s \in SaleIds, lines \in [Lines -> Quantities \cup {0}], total \in NoteTotals :
       NoteReads(w, s, lines, total)
  \/ NoteCreates(w) \/ NoteRestocks(w) \/ NoteSums(w) \/ NoteRates(w)
  \/ \E n \in NoteIds : RefundReads(w, n) \/ CancelReads(w, n)
  \/ RefundWrites(w)
  \/ CancelTakesStock(w) \/ CancelMarks(w) \/ CancelSums(w) \/ CancelRates(w)

\* Between the first commit of these and the last, a request has committed a part.
Committed(w) ==
  \/ \E step \in {"restocks", "rates", "recounts", "resets"} : At(w, step)
  \/ At(w, "cancels") /\ job[w].todo # Used(job[w].lines)

\* A request stops; bound: one of them half-way.
Stops(w) ==
  /\ ~(halfway /\ Committed(w))
  /\ Fails(w)
  /\ halfway' = (halfway \/ Committed(w))
  /\ UNCHANGED note

Next ==
  \/ Selling /\ UNCHANGED <<note, halfway>>
  \/ \E w \in Workers :
       \/ NoteSteps(w) /\ UNCHANGED halfway
       \/ Stops(w)

Spec == Init /\ [][Next]_vars

-----------------------------------------------------------------------------
(* Properties.  They are about requests one after the other (one worker): the *)
(* handlers hold no lock and no transaction.                                  *)

\* Nothing is in flight, and nothing stopped half-way.
Settled == ~halfway /\ \A w \in Workers : Idle(w)

\* Between requests the status of a sale tells the money of its live notes: none of
\* a completed one, all of it of a fully refunded one.  Half refunded may be all of
\* it: a cancellation leaves no sale fully refunded.
StatusTellsReturns ==
  Settled => \A s \in SaleIds : Sold(s) =>
    /\ sale[s].status = "COMPLETED" => Refunded(s) = 0
    /\ sale[s].status = "PARTIALLY_REFUNDED" => Refunded(s) > 0
    /\ sale[s].status = "FULLY_REFUNDED" => Refunded(s) = Total(s)

\* The units of a part that customers have, as the sales and notes tell.
Kept(s) == IF sale[s].status = "VOIDED" THEN 0 ELSE sale[s].quantity - Returned(s)
SalesOf(p) == {s \in SaleIds : Sold(s) /\ sale[s].part = p}
Away(p) == SumFunction([s \in SalesOf(p) |-> Kept(s)])

\* Between requests stock is what the sales and their notes say it is.
StockMatchesNotes == Settled => \A p \in Parts : stock[p] = OpeningStock[p] - Away(p)

\* And at any moment, whatever stopped half-way before, it is no more than that: the
\* note is written before its units come back, and they are taken out again before
\* it is cancelled, so that a request which stops loses units and invents none.
NoUnitInvented == \A p \in Parts : stock[p] <= OpeningStock[p] - Away(p)

-----------------------------------------------------------------------------
(* What createCreditNote says and does not keep. *)

\* "Cantidad a devolver excede lo disponible": no more comes back of a sale than was
\* sold.  The lines of one note are compared one by one with what is left.
ReturnsFit == \A s \in SaleIds : Sold(s) => Returned(s) <= sale[s].quantity
=============================================================================
