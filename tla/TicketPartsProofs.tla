------------------------- MODULE TicketPartsProofs -------------------------
(***************************************************************************)
(* Theorems about TicketParts, for any tickets, parts, usages, requests    *)
(* and any set of installed triggers.                                      *)
(*                                                                         *)
(*   TypeCorrect         TypeOK is an invariant                            *)
(*   ChargesCorrect      every usage is charged exactly, whatever triggers *)
(*   ApprovalCorrect     the approval rule, without the first migration's  *)
(*                       trigger                                           *)
(*   LifecycleCorrect    the life of a usage row                           *)
(*   StockCorrect        no negative stock, without that trigger           *)
(*   NoOrphansCorrect    every usage has its ticket                        *)
(*   ApprovesAllCorrect  an approval approves all it read, or nothing      *)
(*   StockFollowsCorrect stock moves as the usages take and give back      *)
(***************************************************************************)
EXTENDS TicketParts, Sums

USE DEF Kinds, Inserting, Deleting

(***************************************************************************)
(* TypeOK is not inductive: a statement on a row the request never read    *)
(* would have no part to move.  Coherent says what a request in flight     *)
(* knows and has moved, as far as its own record tells.                    *)
(***************************************************************************)
Coherent(s) ==
  /\ s.todo \cap s.done = {}
  /\ s.reading => s.todo = {} /\ s.done = {}
  /\ \A u \in s.todo \cup s.done : s.rows[u] \in UsageRow
  /\ \A u \in Usages : u \notin s.done \/ s.kind = "routeCancel" => s.moved[u] = 0
  /\ \A p \in Parts : p \notin s.held => s.delta[p] = 0

Records == {s \in Transaction : Coherent(s)}

Typed == TypeOK /\ tx \in [Requests -> Records \cup {NoTx}]

(***************************************************************************)
(* Neither is ChargedExactly: what a request has moved and not committed   *)
(* must be what its commit makes true.  Ledger says so (Moves), and why no *)
(* other request can make it false: the rows a request wrote are locked    *)
(* (Locked), an inserted id is nobody else's (Reserved), and an id is      *)
(* being inserted exactly while it has had no row (Fresh).                 *)
(***************************************************************************)
ChargeOfRow(x) == IF x \in UsageRow THEN ChargeOf(x) ELSE 0

Fresh(r) ==
  \A u \in tx[r].todo \cup tx[r].done : tx[r].kind \in Inserting <=> usage[u] = NoRow

Reserved(r, b) ==
  tx[r].kind \in Inserting /\ tx[b].kind \in Inserting =>
    (tx[r].todo \cup tx[r].done) \cap (tx[b].todo \cup tx[b].done) = {}

Locked(r, b) ==
  tx[r].kind # "routeCancel" /\ tx[b].kind # "routeCancel" =>
    tx[r].done \cap tx[b].done = {}

Moves(r) ==
  tx[r].kind # "routeCancel" => \A u \in tx[r].done :
    /\ tx[r].kind \notin Inserting => Live(u)
    /\ tx[r].moved[u] = ChargeOfRow(Written(r, u)) - ChargeOfRow(usage[u])

Ledger ==
  /\ \A r \in Requests : Open(r) => Fresh(r) /\ Moves(r)
  /\ \A r, b \in Requests : r # b /\ Open(r) /\ Open(b) => Reserved(r, b) /\ Locked(r, b)

IInv == Typed /\ ChargedExactly /\ Ledger

-----------------------------------------------------------------------------
(* The triggers. *)

\* The triggers add integers to a quantity.
LEMMA DeltaTypes ==
  ASSUME NEW row \in UsageRow
  PROVE  /\ row.quantity \in Nat \ {0} /\ row.part \in Parts
         /\ InsertDelta(row) \in Int
         /\ DeleteDelta(row) \in Int
         /\ \A image \in UsageRow : UpdateDelta(row, image) \in Int
  BY QuantitiesAssumption DEF UsageRow, InsertDelta, UpdateDelta, DeleteDelta, If,
     SyncOnInsert, SyncOnUpdate, SyncOnDelete, LegacyOnInsert, LegacyOnUpdate,
     LegacyOnDelete

\* A statement whose triggers lock no part moves none.
LEMMA UnlockedUnmoved ==
  ASSUME NEW row \in UsageRow
  PROVE  /\ ~LocksPart(SyncOnInsert(row)) => InsertDelta(row) = 0
         /\ ~LocksPart(SyncOnDelete(row)) => DeleteDelta(row) = 0
         /\ \A image \in UsageRow :
              ~LocksPart(SyncOnUpdate(row, image)) => UpdateDelta(row, image) = 0
  BY DEF InsertDelta, UpdateDelta, DeleteDelta, If, LocksPart

\* Approving a row gives a row.
LEMMA ApprovedIsRow ==
  ASSUME NEW old \in UsageRow
  PROVE  [old EXCEPT !.approved = TRUE] \in UsageRow
  BY DEF UsageRow

\* What the triggers move is the change in what they take for the row.
LEMMA DeltaCharges ==
  ASSUME NEW row \in UsageRow
  PROVE  /\ ChargeOf(row) \in Int
         /\ -InsertDelta(row) = ChargeOf(row)
         /\ -DeleteDelta(row) = -ChargeOf(row)
         /\ -UpdateDelta(row, [row EXCEPT !.approved = TRUE])
              = ChargeOf([row EXCEPT !.approved = TRUE]) - ChargeOf(row)
<1> DEFINE new == [row EXCEPT !.approved = TRUE]
<1>1. /\ row.quantity \in Int /\ row.approved \in BOOLEAN
      /\ new.quantity = row.quantity /\ new.approved = TRUE
  BY DeltaTypes DEF UsageRow
<1> HIDE DEF new
<1>2. -UpdateDelta(row, new) = ChargeOf(new) - ChargeOf(row)
  BY <1>1 DEF ChargeOf, If, UpdateDelta, SyncOnUpdate, LegacyOnUpdate
<1>3. ChargeOf(row) \in Int /\ -InsertDelta(row) = ChargeOf(row)
  BY <1>1 DEF ChargeOf, If, InsertDelta, SyncOnInsert, LegacyOnInsert
<1>4. -DeleteDelta(row) = -ChargeOf(row)
  BY <1>1 DEF ChargeOf, If, DeleteDelta, SyncOnDelete, LegacyOnDelete
<1> QED
  BY <1>2, <1>3, <1>4 DEF new

\* What the triggers take for a row is an integer.
LEMMA ChargeOfRowType ==
  ASSUME NEW x
  PROVE  ChargeOfRow(x) \in Int
<1>1. CASE x \in UsageRow
  BY <1>1, DeltaCharges DEF ChargeOfRow
<1>2. CASE x \notin UsageRow
  BY <1>2 DEF ChargeOfRow
<1> QED
  BY <1>1, <1>2

-----------------------------------------------------------------------------
(* Types. *)

\* Replacing a request's record, and nothing else, by a coherent one or none.
LEMMA StepTyped ==
  ASSUME Typed, NEW r \in Requests, NEW after \in Records \cup {NoTx},
         tx' = [tx EXCEPT ![r] = after], UNCHANGED db
  PROVE  Typed'
  BY DEF Typed, TypeOK, db, Records

\* A request that begins has a coherent record.
LEMMA BeginTyped ==
  ASSUME Typed, NEW r \in Requests, NEW kind \in Kinds, NEW t \in Tickets,
         NEW reading \in BOOLEAN, NEW rows \in [Usages -> UsageRow \cup {NoRow}],
         NEW todo \in SUBSET Usages, \A u \in todo : rows[u] \in UsageRow,
         reading => todo = {},
         Begin(r, kind, t, reading, rows, todo)
  PROVE  Typed'
<1> DEFINE new == [kind |-> kind, ticket |-> t, seen |-> status[t],
                   reading |-> reading, rows |-> rows, todo |-> todo,
                   checked |-> {}, done |-> {}, held |-> {},
                   delta |-> [p \in Parts |-> 0], moved |-> [u \in Usages |-> 0]]
<1>1. new \in Transaction
  BY DEF Transaction, Typed, TypeOK
<1>2. Coherent(new)
  BY DEF Coherent
<1>3. new \in Records
  BY <1>1, <1>2 DEF Records
<1>4. tx' = [tx EXCEPT ![r] = new] /\ UNCHANGED db
  BY DEF Begin
<1> QED
  BY <1>3, <1>4, StepTyped

\* What a snapshot of live usages holds.
LEMMA SnapshotType ==
  ASSUME TypeOK, NEW S \in SUBSET Usages, \A u \in S : Live(u)
  PROVE  /\ Snapshot(S) \in [Usages -> UsageRow \cup {NoRow}]
         /\ \A u \in S : Snapshot(S)[u] \in UsageRow
  BY DEF Snapshot, Live

\* So has one that opens a ticket with its usages.
LEMMA NewTicketTyped ==
  ASSUME Typed, NEW r \in Requests, NEW kind \in Kinds, NEW t \in Tickets,
         NEW S \in SUBSET Usages, NEW item \in [S -> Parts \X Quantities],
         NEW approved \in BOOLEAN, NewTicket(r, kind, t, S, item, approved)
  PROVE  Typed'
<1> DEFINE rows == [u \in Usages |-> IF u \in S
                      THEN [ticket |-> t, part |-> item[u][1],
                            quantity |-> item[u][2], approved |-> approved]
                      ELSE NoRow]
<1>1. rows \in [Usages -> UsageRow \cup {NoRow}]
  BY DEF UsageRow
<1>2. \A u \in S : rows[u] \in UsageRow
  BY DEF UsageRow
<1>3. Begin(r, kind, t, FALSE, rows, S)
  BY DEF NewTicket
<1> HIDE DEF rows
<1> QED
  BY <1>1, <1>2, <1>3, BeginTyped

\* Every request that arrives keeps the types.
LEMMA ArrivesTyped ==
  ASSUME Typed, NEW r \in Requests, Arrives(r)
  PROVE  Typed'
<1> USE DEF Typed
<1>1. NothingNew \in [Usages -> UsageRow \cup {NoRow}]
  BY DEF NothingNew
<1>2. ASSUME NEW t \in Tickets, ApproveReadsTicket(r, t)
      PROVE  Typed'
  <2>1. Begin(r, "approve", t, TRUE, NothingNew, {})
    BY <1>2 DEF ApproveReadsTicket
  <2>2. "approve" \in Kinds /\ TRUE \in BOOLEAN /\ {} \in SUBSET Usages
    OBVIOUS
  <2> QED
    BY ONLY <1>1, <2>1, <2>2, BeginTyped, Typed, r \in Requests, t \in Tickets
<1>3. ASSUME NEW t \in Tickets, RejectReadsTicket(r, t)
      PROVE  Typed'
  <2>1. Begin(r, "reject", t, TRUE, NothingNew, {})
    BY <1>3 DEF RejectReadsTicket
  <2>2. "reject" \in Kinds /\ TRUE \in BOOLEAN /\ {} \in SUBSET Usages
    OBVIOUS
  <2> QED
    BY ONLY <1>1, <2>1, <2>2, BeginTyped, Typed, r \in Requests, t \in Tickets
<1>4. ASSUME NEW t \in Tickets, RouteCancelReadsTicket(r, t)
      PROVE  Typed'
  <2>1. Begin(r, "routeCancel", t, TRUE, NothingNew, {})
    BY <1>4 DEF RouteCancelReadsTicket
  <2>2. "routeCancel" \in Kinds /\ TRUE \in BOOLEAN /\ {} \in SUBSET Usages
    OBVIOUS
  <2> QED
    BY ONLY <1>1, <2>1, <2>2, BeginTyped, Typed, r \in Requests, t \in Tickets
<1>5. ASSUME NEW t \in Tickets, CancelReads(r, t)
      PROVE  Typed'
  <2> DEFINE S == IF status[t] = "CANCELLED" THEN {} ELSE UsagesOf(t)
  <2>1. S \in SUBSET Usages /\ \A u \in S : Live(u)
    BY DEF UsagesOf
  <2>2. Begin(r, "cancel", t, FALSE, Snapshot(S), S)
    BY <1>5 DEF CancelReads
  <2>3. "cancel" \in Kinds /\ FALSE \in BOOLEAN
    OBVIOUS
  <2> HIDE DEF S
  <2>4. /\ Snapshot(S) \in [Usages -> UsageRow \cup {NoRow}]
        /\ \A u \in S : Snapshot(S)[u] \in UsageRow
    BY <2>1, SnapshotType
  <2> QED
    BY ONLY <2>1, <2>2, <2>3, <2>4, BeginTyped, Typed, r \in Requests, t \in Tickets
<1>6. ASSUME NEW t \in Tickets, NEW u \in Usages, NEW p \in Parts,
             NEW q \in Quantities, AddPartReads(r, t, u, p, q)
      PROVE  Typed'
  <2> DEFINE row == [ticket |-> t, part |-> p, quantity |-> q, approved |-> FALSE]
             rows == [NothingNew EXCEPT ![u] = row]
  <2>1. row \in UsageRow
    BY DEF UsageRow
  <2>2. rows \in [Usages -> UsageRow \cup {NoRow}]
    BY <1>1, <2>1
  <2>3. \A v \in {u} : rows[v] \in UsageRow
    BY <1>1, <2>1
  <2>4. Begin(r, "addPart", t, FALSE, rows, {u})
    BY <1>6 DEF AddPartReads
  <2>5. "addPart" \in Kinds /\ FALSE \in BOOLEAN /\ {u} \in SUBSET Usages
    OBVIOUS
  <2> HIDE DEF rows
  <2> QED
    BY ONLY <2>2, <2>3, <2>4, <2>5, BeginTyped, Typed, r \in Requests, t \in Tickets
<1>7. ASSUME NEW t \in Tickets, NEW S \in SUBSET Usages,
             NEW item \in [S -> Parts \X Quantities],
             CreateTicketOpens(r, t, S, item) \/ TemplateOpens(r, t, S, item)
      PROVE  Typed'
  BY <1>7, NewTicketTyped DEF CreateTicketOpens, TemplateOpens
<1>8. ASSUME NEW u \in Usages, RemoveReads(r, u)
      PROVE  Typed'
  <2> DEFINE t == usage[u].ticket
             rows == Snapshot({u})
  <2>1. t \in Tickets
    BY <1>8 DEF RemoveReads, Live, UsageRow
  <2>2. rows \in [Usages -> UsageRow \cup {NoRow}] /\ \A v \in {u} : rows[v] \in UsageRow
    BY <1>8, SnapshotType DEF RemoveReads
  <2>3. Begin(r, "remove", t, FALSE, rows, {u})
    BY <1>8 DEF RemoveReads
  <2>4. "remove" \in Kinds /\ FALSE \in BOOLEAN /\ {u} \in SUBSET Usages
    OBVIOUS
  <2> HIDE DEF t, rows
  <2> QED
    BY ONLY <2>1, <2>2, <2>3, <2>4, BeginTyped, Typed, r \in Requests
<1> QED
  BY <1>2, <1>3, <1>4, <1>5, <1>6, <1>7, <1>8 DEF Arrives

\* The read of the usages keeps the types.
LEMMA ReadUsagesTyped ==
  ASSUME Typed, NEW r \in Requests, NEW S \in SUBSET Usages,
         \A u \in S : Live(u), ReadUsages(r, S)
  PROVE  Typed'
<1> DEFINE after == [tx[r] EXCEPT !.reading = FALSE, !.rows = Snapshot(S), !.todo = S]
<1>1. tx[r] \in Records /\ tx[r].reading
  BY DEF ReadUsages, Typed, Open
<1>2. /\ Snapshot(S) \in [Usages -> UsageRow \cup {NoRow}]
      /\ \A u \in S : Snapshot(S)[u] \in UsageRow
  BY SnapshotType DEF Typed
<1>3. after \in Transaction
  BY <1>1, <1>2 DEF Records, Transaction
<1>4. Coherent(after)
  <2>1. /\ after.todo = S /\ after.rows = Snapshot(S) /\ after.reading = FALSE
        /\ after.done = tx[r].done /\ after.kind = tx[r].kind
        /\ after.moved = tx[r].moved /\ after.held = tx[r].held
        /\ after.delta = tx[r].delta
    BY <1>1 DEF Records, Transaction
  <2>2. tx[r].done = {} /\ Coherent(tx[r])
    BY <1>1 DEF Records, Coherent
  <2> HIDE DEF after
  <2> QED
    BY <1>2, <2>1, <2>2 DEF Coherent
<1>5. tx' = [tx EXCEPT ![r] = after] /\ UNCHANGED db
  BY DEF ReadUsages
<1>6. after \in Records
  BY <1>3, <1>4 DEF Records
<1> QED
  BY <1>5, <1>6, StepTyped

\* A statement that moves an integer keeps the types.
LEMMA WriteTyped ==
  ASSUME Typed, NEW r \in Requests, Open(r), NEW u \in tx[r].todo,
         tx[r].kind # "routeCancel", NEW p \in Parts, NEW d \in Int,
         NEW locks \in BOOLEAN, ~locks => d = 0, Write(r, u, p, d, locks)
  PROVE  Typed'
<1> DEFINE s == tx[r]
           after == [s EXCEPT !.todo = s.todo \ {u},
                              !.done = s.done \cup {u},
                              !.held = IF locks THEN s.held \cup {p} ELSE s.held,
                              !.delta = [s.delta EXCEPT ![p] = s.delta[p] + d],
                              !.moved = [s.moved EXCEPT ![u] = -d]]
<1>1. s \in Transaction /\ Coherent(s) /\ u \in Usages
  BY DEF Typed, Records, Open, Transaction
<1>2. /\ [s.delta EXCEPT ![p] = s.delta[p] + d] \in [Parts -> Int]
      /\ [s.moved EXCEPT ![u] = -d] \in [Usages -> Int]
  BY <1>1 DEF Transaction
<1>3. after \in Transaction
  BY <1>1, <1>2 DEF Transaction
<1>4. Coherent(after)
  <2>1. /\ after.todo = s.todo \ {u} /\ after.done = s.done \cup {u}
        /\ after.rows = s.rows /\ after.reading = s.reading /\ after.kind = s.kind
        /\ after.held = IF locks THEN s.held \cup {p} ELSE s.held
        /\ after.delta = [s.delta EXCEPT ![p] = s.delta[p] + d]
        /\ after.moved = [s.moved EXCEPT ![u] = -d]
    BY <1>1 DEF Transaction
  <2>2. ~s.reading
    BY <1>1 DEF Coherent
  <2>3. s.delta \in [Parts -> Int] /\ s.moved \in [Usages -> Int]
    BY <1>1 DEF Transaction
  <2> HIDE DEF after, s
  <2>4. \A q \in Parts : q \notin after.held => after.delta[q] = 0
    BY <1>1, <2>1, <2>3 DEF Coherent
  <2>5. \A v \in Usages : v \notin after.done \/ after.kind = "routeCancel"
                            => after.moved[v] = 0
    BY <1>1, <2>1, <2>3 DEF Coherent, s
  <2>6. /\ after.todo \cap after.done = {}
        /\ \A v \in after.todo \cup after.done : after.rows[v] \in UsageRow
    BY <1>1, <2>1 DEF Coherent, s
  <2> QED
    BY <2>1, <2>2, <2>4, <2>5, <2>6 DEF Coherent
<1>5. after \in Records
  BY <1>3, <1>4 DEF Records
<1>6. tx' = [tx EXCEPT ![r] = after] /\ UNCHANGED db
  BY DEF Write
<1> HIDE DEF after
<1> QED
  BY <1>5, <1>6, StepTyped

\* What a request about to write a row knows of it.
LEMMA TodoFacts ==
  ASSUME Typed, NEW r \in Requests, Open(r), NEW u \in tx[r].todo
  PROVE  /\ u \in Usages /\ u \notin tx[r].done /\ ~tx[r].reading
         /\ tx[r] \in Transaction /\ Coherent(tx[r])
         /\ tx[r].rows[u] \in UsageRow
         /\ usage[u] \in UsageRow \cup {NoRow, DeletedRow}
  BY DEF Typed, TypeOK, Open, Records, Transaction, Coherent

\* Inserting a usage keeps the types.
LEMMA InsertTyped ==
  ASSUME Typed, NEW r \in Requests, NEW u \in Usages, InsertUsage(r, u)
  PROVE  Typed'
<1> DEFINE new == tx[r].rows[u]
           d == InsertDelta(new)
           locks == LocksPart(SyncOnInsert(new))
<1>1. Open(r) /\ u \in tx[r].todo /\ tx[r].kind # "routeCancel"
  BY DEF InsertUsage
<1>2. new \in UsageRow
  BY <1>1, TodoFacts
<1> HIDE DEF new
<1>3. d \in Int /\ new.part \in Parts
  BY <1>2, DeltaTypes
<1>4. locks \in BOOLEAN /\ (~locks => d = 0)
  BY <1>2, UnlockedUnmoved DEF LocksPart
<1>5. Write(r, u, new.part, d, locks)
  BY DEF InsertUsage, new
<1> HIDE DEF d, locks
<1> QED
  BY <1>1, <1>3, <1>4, <1>5, WriteTyped

\* Approving a usage keeps the types.
LEMMA ApproveTyped ==
  ASSUME Typed, NEW r \in Requests, NEW u \in Usages, ApproveUsage(r, u)
  PROVE  Typed'
<1> DEFINE old == usage[u]
           new == [old EXCEPT !.approved = TRUE]
           d == UpdateDelta(old, new)
           locks == LocksPart(SyncOnUpdate(old, new))
<1>1. Open(r) /\ u \in tx[r].todo /\ tx[r].kind # "routeCancel"
  BY DEF ApproveUsage
<1>2. old \in UsageRow /\ new \in UsageRow
  BY ApprovedIsRow DEF ApproveUsage, Live
<1>3. d \in Int /\ old.part \in Parts
  BY <1>2, DeltaTypes
<1>4. locks \in BOOLEAN /\ (~locks => d = 0)
  BY <1>2, UnlockedUnmoved DEF LocksPart
<1>5. Write(r, u, old.part, d, locks)
  BY DEF ApproveUsage
<1> HIDE DEF d, locks
<1> QED
  BY <1>1, <1>3, <1>4, <1>5, WriteTyped

\* Deleting a usage keeps the types.
LEMMA DeleteTyped ==
  ASSUME Typed, NEW r \in Requests, NEW u \in Usages, DeleteUsage(r, u)
  PROVE  Typed'
<1> DEFINE old == usage[u]
           d == DeleteDelta(old)
           locks == LocksPart(SyncOnDelete(old))
<1>1. Open(r) /\ u \in tx[r].todo /\ tx[r].kind # "routeCancel"
  BY DEF DeleteUsage
<1>2. old \in UsageRow
  BY DEF DeleteUsage, Live
<1>3. d \in Int /\ old.part \in Parts
  BY <1>2, DeltaTypes
<1>4. locks \in BOOLEAN /\ (~locks => d = 0)
  BY <1>2, UnlockedUnmoved DEF LocksPart
<1>5. Write(r, u, old.part, d, locks)
  BY DEF DeleteUsage
<1> HIDE DEF d, locks
<1> QED
  BY <1>1, <1>3, <1>4, <1>5, WriteTyped

\* Checking the stock keeps the types.
LEMMA CheckTyped ==
  ASSUME Typed, NEW r \in Requests, NEW u \in Usages, CheckStock(r, u)
  PROVE  Typed'
<1> DEFINE s == tx[r]
           after == [s EXCEPT !.checked = s.checked \cup {u}]
<1>1. s \in Transaction /\ Coherent(s)
  BY DEF CheckStock, Typed, Open, Records
<1>2. after \in Transaction
  BY <1>1 DEF Transaction
<1>3. Coherent(after)
  BY <1>1 DEF Coherent, Transaction
<1>4. tx' = [tx EXCEPT ![r] = after] /\ UNCHANGED db
  BY DEF CheckStock
<1>5. after \in Records
  BY <1>2, <1>3 DEF Records
<1> QED
  BY <1>4, <1>5, StepTyped

\* The increment of the cancel route keeps the types.
LEMMA RestockTyped ==
  ASSUME Typed, NEW r \in Requests, NEW u \in Usages, RestockUsage(r, u)
  PROVE  Typed'
<1> DEFINE s == tx[r]
           p == s.rows[u].part
           q == s.rows[u].quantity
           after == [s EXCEPT !.todo = s.todo \ {u},
                              !.done = s.done \cup {u},
                              !.held = s.held \cup {p},
                              !.delta = [s.delta EXCEPT ![p] = s.delta[p] + q]]
<1>1. Open(r) /\ u \in s.todo /\ s.kind = "routeCancel"
  BY DEF RestockUsage
<1>2. s \in Transaction /\ Coherent(s) /\ ~s.reading /\ s.rows[u] \in UsageRow
  BY <1>1, TodoFacts
<1>3. p \in Parts /\ q \in Nat
  BY <1>2, DeltaTypes
<1>4. [s.delta EXCEPT ![p] = s.delta[p] + q] \in [Parts -> Int]
  BY <1>2, <1>3 DEF Transaction
<1>5. after \in Transaction
  BY <1>2, <1>3, <1>4 DEF Transaction
<1>6. Coherent(after)
  <2>1. /\ after.todo = s.todo \ {u} /\ after.done = s.done \cup {u}
        /\ after.rows = s.rows /\ after.reading = s.reading /\ after.kind = s.kind
        /\ after.held = s.held \cup {p}
        /\ after.delta = [s.delta EXCEPT ![p] = s.delta[p] + q]
        /\ after.moved = s.moved
    BY <1>2 DEF Transaction
  <2>2. s.delta \in [Parts -> Int]
    BY <1>2 DEF Transaction
  <2> HIDE DEF after, p, q, s
  <2>3. \A x \in Parts : x \notin after.held => after.delta[x] = 0
    BY <1>2, <2>1, <2>2 DEF Coherent
  <2> QED
    BY <1>1, <1>2, <2>1, <2>3 DEF Coherent
<1>7. tx' = [tx EXCEPT ![r] = after] /\ UNCHANGED db
  BY DEF RestockUsage
<1>8. after \in Records
  BY <1>5, <1>6 DEF Records
<1> HIDE DEF after
<1> QED
  BY <1>7, <1>8, StepTyped

\* A commit makes what the record holds visible.
LEMMA CommitTyped ==
  ASSUME Typed, NEW r \in Requests, NEW kind \in Kinds, Commit(r, kind),
         tx[r].kind = "approve" => \A u \in tx[r].done : Live(u),
         status' \in [Tickets -> TicketStatus \cup {ABSENT}]
  PROVE  Typed'
<1> DEFINE s == tx[r]
<1>1. s \in Transaction /\ Coherent(s)
  BY DEF Commit, Typed, Open, Records
<1>2. \A u \in Usages : usage[u] \in UsageRow \cup {NoRow, DeletedRow}
  BY DEF Typed, TypeOK
<1>3. \A u \in s.done : Written(r, u) \in UsageRow \cup {NoRow, DeletedRow}
  <2> SUFFICES ASSUME NEW u \in s.done
               PROVE  Written(r, u) \in UsageRow \cup {NoRow, DeletedRow}
    OBVIOUS
  <2>1. CASE s.kind = "routeCancel"
    BY <1>1, <1>2, <2>1 DEF Written, Transaction
  <2>2. CASE s.kind \in Inserting
    BY <1>1, <2>2 DEF Written, Coherent
  <2>3. CASE s.kind \in Deleting
    BY <2>3 DEF Written
  <2>4. CASE s.kind = "approve"
    BY <2>4, ApprovedIsRow DEF Written, Live
  <2> QED
    BY <1>1, <2>1, <2>2, <2>3, <2>4 DEF Transaction
<1>4. usage' \in [Usages -> UsageRow \cup {NoRow, DeletedRow}]
  BY <1>2, <1>3 DEF Commit, AfterImage
<1>5. stock' \in [Parts -> Int]
  BY <1>1 DEF Commit, Typed, TypeOK, OnHand, Transaction
<1>6. charged' \in [Usages -> Int]
  BY <1>1 DEF Commit, Typed, TypeOK, Transaction
<1>7. tx' \in [Requests -> Records \cup {NoTx}]
  BY DEF Commit, Typed
<1> QED
  BY <1>4, <1>5, <1>6, <1>7 DEF Typed, TypeOK, Records

-----------------------------------------------------------------------------
(* Charges. *)

\* A step of one request that writes nothing visible only has its own record to
\* answer for.
LEMMA StepLedger ==
  ASSUME IInv, NEW r \in Requests, UNCHANGED <<usage, charged>>,
         \A x \in Requests : x # r => tx'[x] = tx[x],
         Open(r)' => Fresh(r)' /\ Moves(r)',
         \A b \in Requests : b # r /\ Open(r)' /\ Open(b) =>
           Reserved(r, b)' /\ Locked(r, b)'
  PROVE  ChargedExactly' /\ Ledger'
<1>1. ChargedExactly'
  BY DEF IInv, ChargedExactly, Live
<1>2. \A x \in Requests : x # r /\ Open(x)' => Open(x) /\ Fresh(x)' /\ Moves(x)'
  <2> SUFFICES ASSUME NEW x \in Requests, x # r, Open(x)'
               PROVE  Open(x) /\ Fresh(x)' /\ Moves(x)'
    OBVIOUS
  <2>1. tx'[x] = tx[x] /\ usage' = usage
    OBVIOUS
  <2>2. Open(x) /\ Fresh(x) /\ Moves(x)
    BY <2>1 DEF Open, IInv, Ledger
  <2>3. Fresh(x)'
    BY <2>1, <2>2 DEF Fresh
  <2>4. \A u \in Usages : Written(x, u)' = Written(x, u)
    BY <2>1 DEF Written
  <2>5. tx[x].done \subseteq Usages
    BY <2>2 DEF IInv, Typed, Records, Transaction, Open
  <2>6. Moves(x)'
    BY <2>1, <2>2, <2>4, <2>5 DEF Moves, Live
  <2> QED
    BY <2>2, <2>3, <2>6
<1>3. \A x, b \in Requests : x # r /\ b # r => /\ Reserved(x, b)' <=> Reserved(x, b)
                                             /\ Locked(x, b)' <=> Locked(x, b)
  BY DEF Reserved, Locked
<1>4. \A b \in Requests : /\ Reserved(r, b)' => Reserved(b, r)'
                          /\ Locked(r, b)' => Locked(b, r)'
  BY DEF Reserved, Locked
<1>5. \A x \in Requests : Open(x)' => Fresh(x)' /\ Moves(x)'
  BY <1>2
<1>6. \A x, b \in Requests : x # b /\ Open(x)' /\ Open(b)' =>
                              Reserved(x, b)' /\ Locked(x, b)'
  <2> SUFFICES ASSUME NEW x \in Requests, NEW b \in Requests, x # b,
                      Open(x)', Open(b)'
               PROVE  Reserved(x, b)' /\ Locked(x, b)'
    OBVIOUS
  <2>1. CASE x = r
    BY <1>2, <2>1
  <2>2. CASE b = r
    BY <1>2, <1>4, <2>2
  <2>3. CASE x # r /\ b # r
    BY <1>2, <1>3, <2>3 DEF IInv, Ledger
  <2> QED
    BY <2>1, <2>2, <2>3
<1> QED
  BY <1>1, <1>5, <1>6 DEF Ledger

\* A request that rolls back leaves nothing behind.
LEMMA RollbackLedger ==
  ASSUME IInv, NEW r \in Requests, Rollback(r)
  PROVE  IInv'
<1>1. Typed'
  BY StepTyped DEF Rollback, IInv
<1>2. tx' = [tx EXCEPT ![r] = NoTx] /\ UNCHANGED <<usage, charged>>
  BY DEF Rollback, db
<1>3. ~Open(r)' /\ \A x \in Requests : x # r => tx'[x] = tx[x]
  BY <1>2 DEF Open, IInv, Typed
<1>4. ChargedExactly' /\ Ledger'
  BY <1>2, <1>3, StepLedger
<1> QED
  BY <1>1, <1>4 DEF IInv

\* A request that begins has moved nothing, and its inserts are new.
LEMMA BeginLedger ==
  ASSUME IInv, NEW r \in Requests, NEW kind \in Kinds, NEW t, NEW reading, NEW rows,
         NEW todo \in SUBSET Usages, Begin(r, kind, t, reading, rows, todo),
         kind \in Inserting => todo \subseteq FreshUsages,
         kind \notin Inserting => \A u \in todo : Live(u)
  PROVE  ChargedExactly' /\ Ledger'
<1>1. UNCHANGED <<usage, charged>>
  BY DEF Begin, db
<1>2. \A x \in Requests : x # r => tx'[x] = tx[x]
  BY DEF Begin, IInv, Typed
<1>3. tx'[r].kind = kind /\ tx'[r].todo = todo /\ tx'[r].done = {}
  BY DEF Begin, IInv, Typed
<1>4. Fresh(r)'
  BY <1>1, <1>3, NullsAssumption DEF Fresh, FreshUsages, Live
<1>5. Moves(r)'
  BY <1>3 DEF Moves
<1>6. \A b \in Requests : b # r /\ Open(b) => Reserved(r, b)' /\ Locked(r, b)'
  BY <1>2, <1>3 DEF Reserved, Locked, FreshUsages
<1> QED
  BY <1>1, <1>2, <1>4, <1>5, <1>6, StepLedger

\* A request that arrives keeps the ledger.
LEMMA ArrivesLedger ==
  ASSUME IInv, NEW r \in Requests, Arrives(r)
  PROVE  IInv'
<1>1. Typed'
  BY ArrivesTyped DEF IInv
<1>2. \E kind \in Kinds, todo \in SUBSET Usages : \E t, reading, rows :
        /\ Begin(r, kind, t, reading, rows, todo)
        /\ kind \in Inserting => todo \subseteq FreshUsages
        /\ kind \notin Inserting => \A u \in todo : Live(u)
  <2>1. CASE \E t \in Tickets : \/ ApproveReadsTicket(r, t)
                               \/ RejectReadsTicket(r, t)
                               \/ RouteCancelReadsTicket(r, t)
    <3> PICK t \in Tickets : \/ ApproveReadsTicket(r, t)
                             \/ RejectReadsTicket(r, t)
                             \/ RouteCancelReadsTicket(r, t)
      BY <2>1
    <3>1. \E kind \in {"approve", "reject", "routeCancel"} :
            Begin(r, kind, t, TRUE, NothingNew, {})
      BY DEF ApproveReadsTicket, RejectReadsTicket, RouteCancelReadsTicket
    <3>2. {} \in SUBSET Usages /\ {"approve", "reject", "routeCancel"} \subseteq Kinds
      OBVIOUS
    <3> QED
      BY <3>1, <3>2
  <2>2. CASE \E t \in Tickets : CancelReads(r, t)
    <3> PICK t \in Tickets : CancelReads(r, t)
      BY <2>2
    <3> DEFINE S == IF status[t] = "CANCELLED" THEN {} ELSE UsagesOf(t)
    <3>1. S \in SUBSET Usages /\ \A u \in S : Live(u)
      BY DEF UsagesOf
    <3>2. Begin(r, "cancel", t, FALSE, Snapshot(S), S)
      BY DEF CancelReads
    <3> HIDE DEF S
    <3> QED
      BY <3>1, <3>2
  <2>3. CASE \E t \in Tickets : \E u \in Usages, p \in Parts, q \in Quantities :
               AddPartReads(r, t, u, p, q)
    BY <2>3 DEF AddPartReads
  <2>4. CASE \E t \in Tickets : \E S \in SUBSET Usages :
             \E item \in [S -> Parts \X Quantities] :
               CreateTicketOpens(r, t, S, item) \/ TemplateOpens(r, t, S, item)
    BY <2>4 DEF CreateTicketOpens, TemplateOpens, NewTicket
  <2>5. CASE \E u \in Usages : RemoveReads(r, u)
    <3> PICK u \in Usages : RemoveReads(r, u)
      BY <2>5
    <3> DEFINE t == usage[u].ticket
               rows == Snapshot({u})
    <3>1. Live(u) /\ Begin(r, "remove", t, FALSE, rows, {u})
      BY DEF RemoveReads
    <3>2. "remove" \in Kinds \ Inserting /\ {u} \in SUBSET Usages
      OBVIOUS
    <3> HIDE DEF t, rows
    <3> QED
      BY <3>1, <3>2
  <2>6. \/ \E t \in Tickets : \/ ApproveReadsTicket(r, t)
                            \/ RejectReadsTicket(r, t)
                            \/ RouteCancelReadsTicket(r, t)
        \/ \E t \in Tickets : CancelReads(r, t)
        \/ \E t \in Tickets : \E u \in Usages, p \in Parts, q \in Quantities :
             AddPartReads(r, t, u, p, q)
        \/ \E t \in Tickets : \E S \in SUBSET Usages :
             \E item \in [S -> Parts \X Quantities] :
               CreateTicketOpens(r, t, S, item) \/ TemplateOpens(r, t, S, item)
        \/ \E u \in Usages : RemoveReads(r, u)
    BY ONLY Arrives(r) DEF Arrives
  <2> QED
    BY ONLY <2>1, <2>2, <2>3, <2>4, <2>5, <2>6
<1>3. ChargedExactly' /\ Ledger'
  BY <1>2, BeginLedger
<1> QED
  BY <1>1, <1>3 DEF IInv

\* A statement keeps the ledger if it records, for the row it writes, what the
\* triggers take for the new image less what they took for the old one.
LEMMA WriteLedger ==
  ASSUME IInv, NEW r \in Requests, Open(r), NEW u \in tx[r].todo,
         tx[r].kind # "routeCancel", NEW p \in Parts, NEW d \in Int,
         NEW locks \in BOOLEAN, Write(r, u, p, d, locks),
         tx[r].kind \notin Inserting => Live(u),
         -d = ChargeOfRow(Written(r, u)) - ChargeOfRow(usage[u])
  PROVE  ChargedExactly' /\ Ledger'
<1> DEFINE s == tx[r]
           after == [s EXCEPT !.todo = s.todo \ {u},
                              !.done = s.done \cup {u},
                              !.held = IF locks THEN s.held \cup {p} ELSE s.held,
                              !.delta = [s.delta EXCEPT ![p] = s.delta[p] + d],
                              !.moved = [s.moved EXCEPT ![u] = -d]]
<1>1. /\ s \in Transaction /\ u \in Usages
      /\ Fresh(r) /\ Moves(r)
  BY DEF IInv, Typed, Records, Open, Transaction, Ledger
<1>2. tx' = [tx EXCEPT ![r] = after] /\ UNCHANGED <<usage, charged>>
  BY DEF Write, db
<1>3. /\ tx'[r] = after
      /\ \A x \in Requests : x # r => tx'[x] = tx[x]
  BY <1>2 DEF IInv, Typed
<1>4. /\ after.todo = s.todo \ {u} /\ after.done = s.done \cup {u}
      /\ after.rows = s.rows /\ after.kind = s.kind
      /\ after.moved = [s.moved EXCEPT ![u] = -d]
      /\ s.moved \in [Usages -> Int] /\ s.done \subseteq Usages
  BY <1>1 DEF Transaction
<1> HIDE DEF after, s
<1>5. Fresh(r)'
  BY <1>1, <1>2, <1>3, <1>4 DEF Fresh, s
<1>6. \A v \in Usages : Written(r, v)' = Written(r, v)
  BY <1>2, <1>3, <1>4 DEF Written, s
<1>7. \A v \in after.done :
        /\ s.kind \notin Inserting => Live(v)
        /\ after.moved[v] = ChargeOfRow(Written(r, v)) - ChargeOfRow(usage[v])
  <2> SUFFICES ASSUME NEW v \in after.done
               PROVE  /\ s.kind \notin Inserting => Live(v)
                      /\ after.moved[v] = ChargeOfRow(Written(r, v)) - ChargeOfRow(usage[v])
    OBVIOUS
  <2>1. CASE v = u
    BY <1>1, <1>4, <2>1 DEF s
  <2>2. CASE v # u
    BY <1>1, <1>4, <2>2 DEF Moves, s
  <2> QED
    BY <2>1, <2>2
<1>8. Moves(r)'
  <2>1. /\ \A v \in Usages : Live(v)' <=> Live(v)
        /\ after.done \subseteq Usages
    BY <1>1, <1>2, <1>4 DEF Live
  <2>2. \A v \in tx'[r].done : /\ tx'[r].kind \notin Inserting => Live(v)'
                              /\ tx'[r].moved[v] = ChargeOfRow(Written(r, v)')
                                                     - ChargeOfRow(usage'[v])
    BY <1>2, <1>3, <1>4, <1>6, <1>7, <2>1
  <2> QED
    BY <2>2 DEF Moves, ChargeOfRow
<1>9. ASSUME NEW b \in Requests, b # r, Open(b)
      PROVE  Reserved(r, b)' /\ Locked(r, b)'
  <2>1. Reserved(r, b) /\ Locked(r, b)
    BY <1>9 DEF IInv, Ledger
  <2>2. tx'[b] = tx[b]
    BY <1>3, <1>9
  <2>3. Reserved(r, b)'
    BY <1>3, <1>4, <2>1, <2>2 DEF Reserved, s
  <2>4. ~RowLockedBy(r, u, b)
    BY DEF Write
  <2>5. Locked(r, b)'
    BY <1>3, <1>4, <1>9, <2>1, <2>2, <2>4 DEF Locked, RowLockedBy, s
  <2> QED
    BY <2>3, <2>5
<1> QED
  BY <1>2, <1>3, <1>5, <1>8, <1>9, StepLedger

\* Inserting a usage keeps the ledger.
LEMMA InsertLedger ==
  ASSUME IInv, NEW r \in Requests, NEW u \in Usages, InsertUsage(r, u)
  PROVE  IInv'
<1> DEFINE new == tx[r].rows[u]
           d == InsertDelta(new)
           locks == LocksPart(SyncOnInsert(new))
<1>1. Open(r) /\ u \in tx[r].todo /\ tx[r].kind \in Inserting
  BY DEF InsertUsage
<1>2. new \in UsageRow /\ usage[u] = NoRow
  BY <1>1, TodoFacts DEF IInv, Ledger, Fresh
<1>3. d \in Int /\ new.part \in Parts /\ locks \in BOOLEAN
  BY <1>2, DeltaTypes DEF LocksPart
<1>4. -d = ChargeOfRow(Written(r, u)) - ChargeOfRow(usage[u])
  <2>1. Written(r, u) = new
    BY <1>1 DEF Written
  <2>2. ChargeOfRow(usage[u]) = 0
    BY <1>2, NullsAssumption DEF ChargeOfRow
  <2> HIDE DEF new
  <2>3. ChargeOfRow(new) = ChargeOf(new) /\ ChargeOf(new) \in Int
    BY <1>2, DeltaCharges DEF ChargeOfRow
  <2>4. -d = ChargeOf(new)
    BY <1>2, DeltaCharges
  <2> QED
    BY <2>1, <2>2, <2>3, <2>4
<1>5. Write(r, u, new.part, d, locks)
  BY DEF InsertUsage
<1> HIDE DEF d, locks
<1>6. ChargedExactly' /\ Ledger'
  BY <1>1, <1>3, <1>4, <1>5, WriteLedger
<1> QED
  BY <1>6, InsertTyped DEF IInv

\* Approving a usage keeps the ledger.
LEMMA ApproveLedger ==
  ASSUME IInv, NEW r \in Requests, NEW u \in Usages, ApproveUsage(r, u)
  PROVE  IInv'
<1> DEFINE old == usage[u]
           new == [old EXCEPT !.approved = TRUE]
           d == UpdateDelta(old, new)
           locks == LocksPart(SyncOnUpdate(old, new))
<1>1. Open(r) /\ u \in tx[r].todo /\ tx[r].kind = "approve" /\ Live(u)
  BY DEF ApproveUsage
<1>2. old \in UsageRow /\ new \in UsageRow
  BY <1>1, ApprovedIsRow DEF Live
<1>3. d \in Int /\ old.part \in Parts /\ locks \in BOOLEAN
  BY <1>2, DeltaTypes DEF LocksPart
<1>4. -d = ChargeOfRow(Written(r, u)) - ChargeOfRow(usage[u])
  <2>1. Written(r, u) = new
    BY <1>1 DEF Written
  <2>2. ChargeOfRow(usage[u]) = ChargeOf(old) /\ ChargeOfRow(new) = ChargeOf(new)
    BY <1>2 DEF ChargeOfRow
  <2>3. -d = ChargeOf(new) - ChargeOf(old)
    BY <1>2, DeltaCharges
  <2> QED
    BY <2>1, <2>2, <2>3
<1>5. Write(r, u, old.part, d, locks)
  BY DEF ApproveUsage
<1> HIDE DEF d, locks
<1>6. ChargedExactly' /\ Ledger'
  BY <1>1, <1>3, <1>4, <1>5, WriteLedger
<1> QED
  BY <1>6, ApproveTyped DEF IInv

\* Deleting a usage keeps the ledger.
LEMMA DeleteLedger ==
  ASSUME IInv, NEW r \in Requests, NEW u \in Usages, DeleteUsage(r, u)
  PROVE  IInv'
<1> DEFINE old == usage[u]
           d == DeleteDelta(old)
           locks == LocksPart(SyncOnDelete(old))
<1>1. Open(r) /\ u \in tx[r].todo /\ tx[r].kind \in Deleting /\ Live(u)
  BY DEF DeleteUsage
<1>2. old \in UsageRow
  BY <1>1 DEF Live
<1>3. d \in Int /\ old.part \in Parts /\ locks \in BOOLEAN
  BY <1>2, DeltaTypes DEF LocksPart
<1>4. -d = ChargeOfRow(Written(r, u)) - ChargeOfRow(usage[u])
  <2>1. Written(r, u) = DeletedRow
    BY <1>1 DEF Written
  <2>2. ChargeOfRow(DeletedRow) = 0
    BY NullsAssumption DEF ChargeOfRow
  <2>3. ChargeOfRow(usage[u]) = ChargeOf(old) /\ ChargeOf(old) \in Int
    BY <1>2, DeltaCharges DEF ChargeOfRow
  <2>4. -d = -ChargeOf(old)
    BY <1>2, DeltaCharges
  <2> QED
    BY <2>1, <2>2, <2>3, <2>4
<1>5. Write(r, u, old.part, d, locks)
  BY DEF DeleteUsage
<1> HIDE DEF d, locks
<1>6. ChargedExactly' /\ Ledger'
  BY <1>1, <1>3, <1>4, <1>5, WriteLedger
<1> QED
  BY <1>6, DeleteTyped DEF IInv

\* Reading, checking and restocking write no usage row.
LEMMA SilentLedger ==
  ASSUME IInv, NEW r \in Requests, NEW after, Open(r),
         tx' = [tx EXCEPT ![r] = after], UNCHANGED db,
         after.kind = tx[r].kind,
         \/ after.kind = "routeCancel"
         \/ after.done = tx[r].done /\ after.moved = tx[r].moved,
         after.kind \in Inserting => after.todo = tx[r].todo /\ after.rows = tx[r].rows,
         after.kind \notin Inserting =>
           \A u \in after.todo \cup after.done : usage[u] # NoRow
  PROVE  ChargedExactly' /\ Ledger'
<1>1. /\ UNCHANGED <<usage, charged>>
      /\ tx'[r] = after
      /\ \A x \in Requests : x # r => tx'[x] = tx[x]
  BY DEF db, IInv, Typed
<1>2. Fresh(r) /\ Moves(r) /\ tx[r] \in Transaction
  BY DEF IInv, Ledger, Typed, Records, Open
<1>3. Fresh(r)'
  BY <1>1, <1>2 DEF Fresh
<1>4. \A u \in Usages : after.kind # "routeCancel" /\ u \in after.done =>
                         Written(r, u)' = Written(r, u)
  BY <1>1, <1>2 DEF Written, Transaction
<1>5. Moves(r)'
  <2> SUFFICES ASSUME after.kind # "routeCancel", NEW u \in after.done
               PROVE  /\ after.kind \notin Inserting => Live(u)'
                      /\ after.moved[u] = ChargeOfRow(Written(r, u)') - ChargeOfRow(usage'[u])
    BY <1>1 DEF Moves, ChargeOfRow
  <2> QED
    BY <1>1, <1>2, <1>4 DEF Moves, Live, Transaction
<1>6. ASSUME NEW b \in Requests, b # r, Open(b)
      PROVE  Reserved(r, b)' /\ Locked(r, b)'
  <2>1. Reserved(r, b) /\ Locked(r, b) /\ tx'[b] = tx[b]
    BY <1>1, <1>6 DEF IInv, Ledger
  <2> QED
    BY <1>1, <2>1 DEF Reserved, Locked
<1> QED
  BY <1>1, <1>3, <1>5, <1>6, StepLedger

\* The steps that write no usage row keep the ledger.
LEMMA SilentSteps ==
  ASSUME IInv, NEW r \in Requests,
         \/ ApproveOrRejectReadsPending(r)
         \/ RouteCancelReadsUsages(r)
         \/ \E u \in Usages : CheckStock(r, u) \/ RestockUsage(r, u)
  PROVE  IInv'
<1> DEFINE s == tx[r]
<1>1. /\ Open(r) /\ Fresh(r) /\ s \in Transaction /\ Coherent(s)
      /\ \A u \in Usages : Live(u) => usage[u] # NoRow
  BY NullsAssumption DEF ApproveOrRejectReadsPending, RouteCancelReadsUsages, CheckStock,
     RestockUsage, IInv, Typed, Records, Open, Ledger, Live
<1>2. ASSUME NEW S \in SUBSET Usages, \A u \in S : Live(u), ReadUsages(r, S),
             s.kind \notin Inserting
      PROVE  IInv'
  <2> DEFINE after == [s EXCEPT !.reading = FALSE, !.rows = Snapshot(S), !.todo = S]
  <2>1. /\ after.kind = s.kind /\ after.todo = S
        /\ after.done = s.done /\ after.moved = s.moved
        /\ s.done = {}
    BY <1>1, <1>2 DEF ReadUsages, Transaction, Coherent
  <2>2. tx' = [tx EXCEPT ![r] = after] /\ UNCHANGED db
    BY <1>2 DEF ReadUsages
  <2> HIDE DEF after
  <2>3. ChargedExactly' /\ Ledger'
    BY <1>1, <1>2, <2>1, <2>2, SilentLedger
  <2> QED
    BY <1>2, <2>3, ReadUsagesTyped DEF IInv
<1>3. CASE ApproveOrRejectReadsPending(r)
  <2>1. /\ PendingOf(s.ticket) \in SUBSET Usages
        /\ \A u \in PendingOf(s.ticket) : Live(u)
    BY DEF PendingOf, UsagesOf
  <2> QED
    BY <1>2, <1>3, <2>1 DEF ApproveOrRejectReadsPending
<1>4. CASE RouteCancelReadsUsages(r)
  <2>1. /\ UsagesOf(s.ticket) \in SUBSET Usages
        /\ \A u \in UsagesOf(s.ticket) : Live(u)
    BY DEF UsagesOf
  <2> QED
    BY <1>2, <1>4, <2>1 DEF RouteCancelReadsUsages
<1>5. ASSUME NEW u \in Usages, CheckStock(r, u)
      PROVE  IInv'
  <2> DEFINE after == [s EXCEPT !.checked = s.checked \cup {u}]
  <2>1. /\ after.kind = s.kind /\ after.todo = s.todo /\ after.rows = s.rows
        /\ after.done = s.done /\ after.moved = s.moved
        /\ s.kind \in Inserting
    BY <1>1, <1>5 DEF CheckStock, Transaction
  <2>2. tx' = [tx EXCEPT ![r] = after] /\ UNCHANGED db
    BY <1>5 DEF CheckStock
  <2> HIDE DEF after
  <2>3. ChargedExactly' /\ Ledger'
    BY <1>1, <2>1, <2>2, SilentLedger
  <2> QED
    BY <1>5, <2>3, CheckTyped DEF IInv
<1>6. ASSUME NEW u \in Usages, RestockUsage(r, u)
      PROVE  IInv'
  <2> DEFINE p == s.rows[u].part
             after == [s EXCEPT !.todo = s.todo \ {u},
                                !.done = s.done \cup {u},
                                !.held = s.held \cup {p},
                                !.delta = [s.delta EXCEPT ![p] = s.delta[p]
                                                              + s.rows[u].quantity]]
  <2>1. /\ after.kind = s.kind /\ after.todo = s.todo \ {u}
        /\ after.done = s.done \cup {u}
        /\ s.kind = "routeCancel" /\ u \in s.todo
    BY <1>1, <1>6 DEF RestockUsage, Transaction
  <2>2. tx' = [tx EXCEPT ![r] = after] /\ UNCHANGED db
    BY <1>6 DEF RestockUsage
  <2> HIDE DEF after
  <2>3. \A v \in after.todo \cup after.done : usage[v] # NoRow
    BY <1>1, <2>1 DEF Fresh
  <2>4. ChargedExactly' /\ Ledger'
    BY <1>1, <2>1, <2>2, <2>3, SilentLedger
  <2> QED
    BY <1>6, <2>4, RestockTyped DEF IInv
<1> QED
  BY <1>3, <1>4, <1>5, <1>6

\* What a commit makes of each usage row.
LEMMA CommitRows ==
  ASSUME IInv, NEW r \in Requests, NEW kind \in Kinds, Commit(r, kind)
  PROVE  /\ tx[r].kind = kind /\ Coherent(tx[r]) /\ tx[r] \in Transaction
         /\ \A u \in Usages :
              \/ u \notin tx[r].done /\ usage'[u] = usage[u]
              \/ kind = "routeCancel" /\ usage'[u] = usage[u]
              \/ /\ u \in tx[r].done /\ usage'[u] = Written(r, u)
                 /\ \/ /\ kind \in Inserting /\ usage[u] = NoRow
                       /\ usage'[u] \in UsageRow
                    \/ /\ kind \in Deleting /\ Live(u)
                       /\ usage'[u] = DeletedRow
                    \/ /\ kind = "approve" /\ Live(u)
                       /\ usage'[u] = [usage[u] EXCEPT !.approved = TRUE]
<1>1. /\ tx[r].kind = kind /\ Coherent(tx[r]) /\ tx[r] \in Transaction
      /\ Fresh(r) /\ Moves(r)
  BY DEF Commit, IInv, Typed, Records, Open, Ledger
<1>2. \A u \in Usages : usage'[u] = IF u \in tx[r].done THEN Written(r, u) ELSE usage[u]
  BY DEF Commit, AfterImage
<1> SUFFICES ASSUME NEW u \in Usages, u \in tx[r].done, kind # "routeCancel"
             PROVE  \/ /\ kind \in Inserting /\ usage[u] = NoRow
                       /\ usage'[u] \in UsageRow
                    \/ /\ kind \in Deleting /\ Live(u)
                       /\ usage'[u] = DeletedRow
                    \/ /\ kind = "approve" /\ Live(u)
                       /\ usage'[u] = [usage[u] EXCEPT !.approved = TRUE]
  BY <1>1, <1>2 DEF Written
<1>3. CASE kind \in Inserting
  BY <1>1, <1>2, <1>3 DEF Written, Fresh, Coherent
<1>4. CASE kind \in Deleting
  BY <1>1, <1>2, <1>4 DEF Written, Moves
<1>5. CASE kind = "approve"
  BY <1>1, <1>2, <1>5 DEF Written, Moves
<1> QED
  BY <1>3, <1>4, <1>5

\* A commit turns what was moved for each usage into what is charged for it.
LEMMA CommitLedger ==
  ASSUME IInv, NEW r \in Requests, NEW kind \in Kinds, Commit(r, kind)
  PROVE  ChargedExactly' /\ Ledger'
<1>1. /\ tx[r].kind = kind /\ Coherent(tx[r]) /\ tx[r] \in Transaction
      /\ Open(r) /\ Moves(r)
  BY CommitRows DEF Commit, IInv, Ledger
<1>2. /\ ~Open(r)'
      /\ \A x \in Requests : x # r => tx'[x] = tx[x]
  BY DEF Commit, Open, IInv, Typed
<1>3. ASSUME NEW u \in Usages
      PROVE  charged'[u] = ChargeOfRow(usage'[u])
  <2>1. charged[u] = ChargeOfRow(usage[u]) /\ charged[u] \in Int
    BY DEF IInv, ChargedExactly, ChargeOfRow, Live, Typed, TypeOK
  <2>2. charged'[u] = charged[u] + tx[r].moved[u]
    BY DEF Commit
  <2>3. CASE u \in tx[r].done /\ kind # "routeCancel"
    <3>1. tx[r].moved[u] = ChargeOfRow(Written(r, u)) - ChargeOfRow(usage[u])
      BY <1>1, <2>3 DEF Moves
    <3>2. usage'[u] = Written(r, u)
      BY <2>3, CommitRows
    <3>3. ChargeOfRow(Written(r, u)) \in Int
      BY ChargeOfRowType
    <3> QED
      BY <2>1, <2>2, <3>1, <3>2, <3>3
  <2>4. CASE u \notin tx[r].done \/ kind = "routeCancel"
    <3>1. tx[r].moved[u] = 0
      BY <1>1, <2>4 DEF Coherent
    <3>2. usage'[u] = usage[u]
      BY <2>4, CommitRows
    <3> QED
      BY <2>1, <2>2, <3>1, <3>2
  <2> QED
    BY <2>3, <2>4
<1>4. ChargedExactly'
  BY <1>3 DEF ChargedExactly, ChargeOfRow, Live
<1>5. ASSUME NEW x \in Requests, Open(x)'
      PROVE  Fresh(x)' /\ Moves(x)'
  <2>1. /\ x # r /\ tx'[x] = tx[x] /\ Open(x) /\ Fresh(x) /\ Moves(x)
        /\ Reserved(r, x) /\ Locked(r, x)
        /\ tx[x] \in Transaction
    BY <1>1, <1>2, <1>5 DEF Open, IInv, Ledger, Typed, Records
  <2>2. Fresh(x)'
    <3> SUFFICES ASSUME NEW u \in tx[x].todo \cup tx[x].done
                 PROVE  tx[x].kind \in Inserting <=> usage'[u] = NoRow
      BY <2>1 DEF Fresh
    <3>1. u \in Usages /\ (tx[x].kind \in Inserting <=> usage[u] = NoRow)
      BY <2>1 DEF Fresh, Transaction
    <3>2. CASE tx[x].kind \in Inserting
      BY <1>1, <2>1, <3>1, <3>2, CommitRows, NullsAssumption DEF Reserved, Live
    <3>3. CASE tx[x].kind \notin Inserting
      <4>1. Live(u) => [usage[u] EXCEPT !.approved = TRUE] \in UsageRow
        BY ApprovedIsRow DEF Live
      <4> QED
        BY <1>1, <3>1, <3>3, <4>1, CommitRows, NullsAssumption
    <3> QED
      BY <3>2, <3>3
  <2>3. Moves(x)'
    <3> SUFFICES ASSUME tx[x].kind # "routeCancel", NEW u \in tx[x].done
                 PROVE  /\ tx[x].kind \notin Inserting => Live(u)'
                        /\ tx[x].moved[u] = ChargeOfRow(Written(x, u)')
                                              - ChargeOfRow(usage'[u])
      BY <2>1 DEF Moves, ChargeOfRow
    <3>1. u \in Usages
      BY <2>1 DEF Transaction
    <3>2. usage'[u] = usage[u]
      BY <1>1, <2>1, <3>1, CommitRows DEF Locked
    <3>3. Written(x, u)' = Written(x, u)
      BY <2>1, <3>2 DEF Written
    <3> QED
      BY <2>1, <3>2, <3>3 DEF Moves, Live
  <2> QED
    BY <2>2, <2>3
<1>6. ASSUME NEW x \in Requests, NEW b \in Requests, x # b, Open(x)', Open(b)'
      PROVE  Reserved(x, b)' /\ Locked(x, b)'
  <2>1. x # r /\ b # r /\ tx'[x] = tx[x] /\ tx'[b] = tx[b]
    BY <1>2, <1>6
  <2>2. Reserved(x, b) /\ Locked(x, b)
    BY <1>6, <2>1 DEF Open, IInv, Ledger
  <2> QED
    BY <2>1, <2>2 DEF Reserved, Locked
<1> QED
  BY <1>4, <1>5, <1>6 DEF Ledger

\* So does the commit of every handler, whatever it sets the status to.
LEMMA CommitSteps ==
  ASSUME IInv, NEW r \in Requests, NEW kind \in Kinds, Commit(r, kind),
         \/ UNCHANGED status
         \/ \E t \in Tickets, st \in TicketStatus : status' = [status EXCEPT ![t] = st]
  PROVE  IInv'
<1>1. Open(r) /\ (tx[r].kind = "approve" => \A u \in tx[r].done : Live(u))
  BY DEF Commit, IInv, Ledger, Moves
<1>2. status' \in [Tickets -> TicketStatus \cup {ABSENT}]
  BY DEF IInv, Typed, TypeOK
<1>3. Typed'
  BY <1>1, <1>2, CommitTyped DEF IInv
<1> QED
  BY <1>3, CommitLedger DEF IInv

\* Statements outside the interactive transactions leave the usages alone.
LEMMA SingleStatementSteps ==
  ASSUME IInv, SingleStatement
  PROVE  IInv'
<1>1. UNCHANGED <<usage, charged, tx>>
  BY DEF SingleStatement, RouteSetsStatus, RouteReopens, UpdateTicket, BulkUpdateTicketStatus,
     DeleteTicketRow, UpdatePart
<1>2. /\ status' \in [Tickets -> TicketStatus \cup {ABSENT}]
      /\ stock' \in [Parts -> Int]
  <2>1. StatusInputs \subseteq TicketStatus /\ StockCounts \subseteq Int
    BY InputsAssumption
  <2> QED
    BY <2>1 DEF IInv, Typed, TypeOK, SingleStatement, RouteSetsStatus, RouteReopens, UpdateTicket,
       BulkUpdateTicketStatus, DeleteTicketRow, UpdatePart
<1>3. Typed'
  BY <1>1, <1>2 DEF IInv, Typed, TypeOK
<1>4. ChargedExactly'
  BY <1>1 DEF IInv, ChargedExactly, Live
<1>5. Ledger'
  BY <1>1 DEF IInv, Ledger, Open, Fresh, Moves, Reserved, Locked, Live, Written
<1> QED
  BY <1>3, <1>4, <1>5 DEF IInv

\* Every step of a handler keeps the ledger.
LEMMA AdvancesLedger ==
  ASSUME IInv, NEW r \in Requests, Advances(r)
  PROVE  IInv'
<1>1. CASE \/ ApproveOrRejectReadsPending(r)
           \/ RouteCancelReadsUsages(r)
           \/ \E u \in Usages : CheckStock(r, u) \/ RestockUsage(r, u)
  BY <1>1, SilentSteps
<1>2. CASE \E u \in Usages : InsertUsage(r, u) \/ ApproveUsage(r, u) \/ DeleteUsage(r, u)
  BY <1>2, InsertLedger, ApproveLedger, DeleteLedger
<1>3. CASE \/ ApproveCommits(r) \/ RejectCommits(r) \/ CancelCommits(r)
           \/ RouteCancelCommits(r) \/ RemoveCommits(r) \/ AddPartCommits(r)
           \/ CreateCommits(r) \/ TemplateCommits(r)
  <2>1. Open(r) /\ tx[r].ticket \in Tickets
    BY <1>3 DEF ApproveCommits, RejectCommits, CancelCommits, RouteCancelCommits,
       RemoveCommits, AddPartCommits, CreateCommits, TemplateCommits, Commit,
       IInv, Typed, Records, Open, Transaction
  <2>2. /\ {"OPEN", "WAITING_APPROVAL", "IN_PROGRESS", "REJECTED", "CANCELLED"}
             \subseteq TicketStatus
        /\ StatusInputs \subseteq TicketStatus
    BY InputsAssumption DEF TicketStatus
  <2>3. /\ \E kind \in Kinds : Commit(r, kind)
        /\ \/ UNCHANGED status
           \/ \E st \in TicketStatus : status' = [status EXCEPT ![tx[r].ticket] = st]
    BY <1>3, <2>2 DEF ApproveCommits, RejectCommits, CancelCommits, RouteCancelCommits,
       RemoveCommits, AddPartCommits, CreateCommits, TemplateCommits, SetsStatus
  <2> QED
    BY <2>1, <2>3, CommitSteps
<1> QED
  BY <1>1, <1>2, <1>3 DEF Advances

\* A request that fails, is aborted or abandoned keeps the ledger.
LEMMA StopsLedger ==
  ASSUME IInv, NEW r \in Requests, Stops(r)
  PROVE  IInv'
  BY RollbackLedger DEF Stops, HandlerFails, DeadlockVictim, Abandoned

\* The ledger holds at the start, when nothing has been inserted.
LEMMA InitLedger == Init => IInv
<1> SUFFICES ASSUME Init PROVE IInv
  OBVIOUS
<1>1. Typed
  BY OpeningAssumption DEF Init, Typed, TypeOK
<1>2. ChargedExactly
  BY NullsAssumption DEF Init, ChargedExactly, Live
<1>3. Ledger
  BY DEF Init, Ledger, Open
<1> QED
  BY <1>1, <1>2, <1>3 DEF IInv

\* Every step keeps the ledger: the invariant is inductive.
LEMMA NextLedger == IInv /\ [Next]_vars => IInv'
<1> SUFFICES ASSUME IInv, [Next]_vars PROVE IInv'
  OBVIOUS
<1>1. CASE Next
  BY <1>1, ArrivesLedger, AdvancesLedger, StopsLedger, SingleStatementSteps DEF Next
<1>2. CASE UNCHANGED vars
  <2>1. Typed'
    BY <1>2 DEF vars, IInv, Typed, TypeOK
  <2>2. ChargedExactly'
    BY <1>2 DEF vars, IInv, ChargedExactly, Live
  <2>3. Ledger'
    BY <1>2 DEF vars, IInv, Ledger, Open, Fresh, Moves, Reserved, Locked, Live, Written
  <2> QED
    BY <2>1, <2>2, <2>3 DEF IInv
<1> QED
  BY <1>1, <1>2

\* The ledger invariant: what is charged for a usage and what each open request
\* has moved for it agree with its row, before and after every step.
THEOREM LedgerCorrect == Spec => []IInv
  BY InitLedger, NextLedger, PTL DEF Spec

-----------------------------------------------------------------------------
(* Results. *)

\* The rows, requests and stock always have their types.
THEOREM TypeCorrect == Spec => []TypeOK
<1>1. IInv => TypeOK
  BY DEF IInv, Typed
<1> QED
  BY <1>1, LedgerCorrect, PTL

\* Whatever triggers the database has, and however requests interleave, fail
\* and roll back, each usage row has been charged what they take for it, and a
\* deleted one has given everything back.
THEOREM ChargesCorrect == Spec => []ChargedExactly
<1>1. IInv => ChargedExactly
  BY DEF IInv
<1> QED
  BY <1>1, LedgerCorrect, PTL

\* Usage rows change when a request commits, and at no other step.
LEMMA OnlyCommitsWrite ==
  ASSUME Next
  PROVE  UNCHANGED usage \/ \E r \in Requests, kind \in Kinds : Commit(r, kind)
<1>1. ASSUME NEW r \in Requests, Arrives(r)
      PROVE  UNCHANGED usage
  BY <1>1 DEF Arrives, ApproveReadsTicket, RejectReadsTicket, RouteCancelReadsTicket,
     CancelReads, AddPartReads, CreateTicketOpens, TemplateOpens, NewTicket,
     RemoveReads, Begin, db
<1>2. ASSUME NEW r \in Requests, Advances(r)
      PROVE  UNCHANGED usage \/ \E kind \in Kinds : Commit(r, kind)
  <2>1. CASE \/ ApproveOrRejectReadsPending(r)
             \/ RouteCancelReadsUsages(r)
             \/ \E u \in Usages : CheckStock(r, u) \/ RestockUsage(r, u)
    BY <2>1 DEF ApproveOrRejectReadsPending, RouteCancelReadsUsages, ReadUsages,
       CheckStock, RestockUsage, db
  <2>2. CASE \E u \in Usages : \/ InsertUsage(r, u)
                               \/ ApproveUsage(r, u)
                               \/ DeleteUsage(r, u)
    BY <2>2 DEF InsertUsage, ApproveUsage, DeleteUsage, Write, db
  <2>3. CASE \/ ApproveCommits(r) \/ RejectCommits(r) \/ CancelCommits(r)
             \/ RouteCancelCommits(r) \/ RemoveCommits(r) \/ AddPartCommits(r)
             \/ CreateCommits(r) \/ TemplateCommits(r)
    BY <2>3 DEF ApproveCommits, RejectCommits, CancelCommits, RouteCancelCommits,
       RemoveCommits, AddPartCommits, CreateCommits, TemplateCommits
  <2> QED
    BY <1>2, <2>1, <2>2, <2>3 DEF Advances
<1>3. ASSUME NEW r \in Requests, Stops(r)
      PROVE  UNCHANGED usage
  BY <1>3 DEF Stops, HandlerFails, DeadlockVictim, Abandoned, Rollback, db
<1>4. CASE SingleStatement
  BY <1>4 DEF SingleStatement, RouteSetsStatus, RouteReopens, UpdateTicket, BulkUpdateTicketStatus,
     DeleteTicketRow, UpdatePart
<1> QED
  BY <1>1, <1>2, <1>3, <1>4 DEF Next

\* A usage row is inserted once, approved at most once, deleted for good, and
\* never changed otherwise.
THEOREM LifecycleCorrect == Spec => UsageLifecycle
<1> DEFINE Lives(u) == \/ usage'[u] = usage[u]
                       \/ usage[u] = NoRow
                       \/ Live(u) /\ usage'[u] = DeletedRow
                       \/ Live(u) /\ ~usage[u].approved
                            /\ usage'[u] = [usage[u] EXCEPT !.approved = TRUE]
<1>1. ASSUME IInv, NEW r \in Requests, NEW kind \in Kinds, Commit(r, kind),
             NEW u \in Usages
      PROVE  Lives(u)
  <2>1. Live(u) /\ usage[u].approved => [usage[u] EXCEPT !.approved = TRUE] = usage[u]
    BY DEF Live, UsageRow
  <2> QED
    BY <1>1, <2>1, CommitRows DEF UsageRow
<1>2. IInv /\ [Next]_vars => [\A u \in Usages : Lives(u)]_vars
  <2> SUFFICES ASSUME IInv, Next, NEW u \in Usages
               PROVE  Lives(u)
    BY DEF vars
  <2>1. CASE \E r \in Requests, kind \in Kinds : Commit(r, kind)
    BY <1>1, <2>1
  <2>2. CASE UNCHANGED usage
    BY <2>2
  <2> QED
    BY <2>1, <2>2, OnlyCommitsWrite
<1> QED
  BY <1>2, LedgerCorrect, PTL DEF Spec, UsageLifecycle
-----------------------------------------------------------------------------
(* Stock. *)

(***************************************************************************)
(* The guard of a decrement looks at the stock the statement sees, so what *)
(* is inductive speaks of that: what a request has taken and not committed *)
(* was there (Backed), unless the first migration's trigger takes what an  *)
(* insert asks for (Careful); and no part moves under two requests.        *)
(***************************************************************************)
Careful(r) == tx[r].kind \notin Inserting \/ "update_on_usage" \notin Installed

Backed(r) == \A p \in Parts : tx[r].delta[p] >= 0 \/ OnHand(r, p) >= 0

Exclusive(r, b) == tx[r].held \cap tx[b].held = {}

StockInv ==
  /\ \A r \in Requests : Open(r) /\ Careful(r) => Backed(r)
  /\ \A r, b \in Requests : r # b /\ Open(r) /\ Open(b) => Exclusive(r, b)

\* A decrement the guard lets through leaves something, or nothing, behind; only
\* an insert meets one without a guard.
LEMMA GuardedDeltas ==
  ASSUME NEW row \in UsageRow, NEW onHand \in Int
  PROVE  /\ "update_on_usage" \notin Installed /\ ~SyncRaises(onHand, SyncOnInsert(row))
              => InsertDelta(row) >= 0 \/ onHand + InsertDelta(row) >= 0
         /\ DeleteDelta(row) >= 0
         /\ \A image \in UsageRow :
              image.quantity = row.quantity /\ ~SyncRaises(onHand, SyncOnUpdate(row, image))
                => UpdateDelta(row, image) >= 0 \/ onHand + UpdateDelta(row, image) >= 0
<1>1. row.quantity \in Nat
  BY DeltaTypes
<1>2. /\ SyncOnInsert(row) \in Int /\ SyncOnDelete(row) \in Nat
      /\ \A image \in UsageRow : SyncOnUpdate(row, image) \in Int
  <2>1. \A image \in UsageRow : image.quantity \in Nat
    BY DeltaTypes
  <2> QED
    BY <1>1, <2>1 DEF SyncOnInsert, SyncOnDelete, SyncOnUpdate
<1>3. ASSUME NEW d \in Int, ~SyncRaises(onHand, d)
      PROVE  If("sync_inventory", d) >= 0 \/ onHand + If("sync_inventory", d) >= 0
  BY <1>3 DEF SyncRaises, If
<1>4. \A d \in Int : If("sync_inventory", d) \in Int /\ If("update_on_usage", d) \in Int
  BY DEF If
<1>5. DeleteDelta(row) >= 0
  BY <1>1, <1>2 DEF DeleteDelta, LegacyOnDelete, If
<1>6. ASSUME "update_on_usage" \notin Installed, ~SyncRaises(onHand, SyncOnInsert(row))
      PROVE  InsertDelta(row) >= 0 \/ onHand + InsertDelta(row) >= 0
  <2>1. InsertDelta(row) = If("sync_inventory", SyncOnInsert(row)) + 0
    BY <1>6 DEF InsertDelta, If
  <2>2. InsertDelta(row) = If("sync_inventory", SyncOnInsert(row))
    BY <1>2, <1>4, <2>1
  <2> QED
    BY <1>2, <1>3, <1>6, <2>2
<1>7. ASSUME NEW image \in UsageRow, image.quantity = row.quantity,
             ~SyncRaises(onHand, SyncOnUpdate(row, image))
      PROVE  UpdateDelta(row, image) >= 0 \/ onHand + UpdateDelta(row, image) >= 0
  <2>1. If("update_on_usage", LegacyOnUpdate(row, image)) = 0
    BY <1>1, <1>7 DEF LegacyOnUpdate, If
  <2>2. UpdateDelta(row, image) = If("sync_inventory", SyncOnUpdate(row, image))
    BY <1>2, <1>4, <2>1 DEF UpdateDelta
  <2> QED
    BY <1>2, <1>3, <1>7, <2>2
<1> QED
  BY <1>5, <1>6, <1>7

\* A step of one request that commits nothing answers for what it sees and holds.
LEMMA StepStock ==
  ASSUME StockInv, IInv, NEW r \in Requests, UNCHANGED stock,
         \A x \in Requests : x # r => tx'[x] = tx[x],
         Open(r)' /\ Careful(r)' => Backed(r)',
         \A b \in Requests : b # r /\ Open(r)' /\ Open(b) => Exclusive(r, b)'
  PROVE  StockInv'
<1>1. ASSUME NEW x \in Requests, x # r
      PROVE  /\ Open(x)' = Open(x)
             /\ Careful(x)' = Careful(x)
             /\ Backed(x)' = Backed(x)
  <2>1. tx'[x] = tx[x]
    BY <1>1
  <2>2. Open(x)' = Open(x)
    BY <2>1 DEF Open
  <2>3. Careful(x)' = Careful(x)
    BY <2>1 DEF Careful
  <2>4. Backed(x)' = Backed(x)
    BY <2>1 DEF Backed, OnHand
  <2> QED
    BY <2>2, <2>3, <2>4
<1>2. \A x \in Requests : Open(x)' /\ Careful(x)' => Backed(x)'
  BY <1>1 DEF StockInv
<1>3. ASSUME NEW x \in Requests, NEW b \in Requests, x # b, Open(x)', Open(b)'
      PROVE  Exclusive(x, b)'
  <2>1. CASE x = r
    BY <1>1, <1>3, <2>1
  <2>2. CASE b = r
    <3>1. Exclusive(b, x)'
      BY <1>1, <1>3, <2>2
    <3> QED
      BY <3>1 DEF Exclusive
  <2>3. CASE x # r /\ b # r
    <3>1. Exclusive(x, b)
      BY <1>1, <1>3, <2>3 DEF StockInv
    <3> QED
      BY <2>3, <3>1 DEF Exclusive
  <2> QED
    BY <2>1, <2>2, <2>3
<1> QED
  BY <1>2, <1>3 DEF StockInv

\* A request that moves nothing more than it already did, or ends.
LEMMA StillStock ==
  ASSUME StockInv, IInv, NEW r \in Requests, NEW after, UNCHANGED stock,
         tx' = [tx EXCEPT ![r] = after],
         \/ after = NoTx
         \/ after.held = {} /\ after.delta = [p \in Parts |-> 0]
         \/ /\ Open(r) /\ after.kind = tx[r].kind
            /\ after.held = tx[r].held /\ after.delta = tx[r].delta
  PROVE  StockInv'
<1>1. /\ tx'[r] = after
      /\ \A x \in Requests : x # r => tx'[x] = tx[x]
  BY DEF IInv, Typed
<1>2. ASSUME Open(r)', Careful(r)'
      PROVE  Backed(r)'
  <2>1. CASE after.delta = [q \in Parts |-> 0]
    BY <1>1, <2>1 DEF Backed
  <2>2. CASE Open(r) /\ after.kind = tx[r].kind /\ after.delta = tx[r].delta
    <3>1. Careful(r) /\ Backed(r)
      BY <1>1, <1>2, <2>2 DEF StockInv, Careful
    <3> QED
      BY <1>1, <2>2, <3>1 DEF Backed, OnHand
  <2> QED
    BY <1>1, <1>2, <2>1, <2>2 DEF Open
<1>3. ASSUME NEW b \in Requests, b # r, Open(r)', Open(b)
      PROVE  Exclusive(r, b)'
  <2>1. CASE after.held = {}
    BY <1>1, <2>1 DEF Exclusive
  <2>2. CASE Open(r) /\ after.held = tx[r].held
    BY <1>1, <1>3, <2>2 DEF Exclusive, StockInv
  <2> QED
    BY <1>1, <1>3, <2>1, <2>2 DEF Open
<1> QED
  BY <1>1, <1>2, <1>3, StepStock

\* A request that moves part p by d, which nobody else holds if it locks it.
LEMMA MoveStock ==
  ASSUME StockInv, IInv, NEW r \in Requests, Open(r), NEW p \in Parts, NEW d \in Int,
         Careful(r) => d >= 0 \/ OnHand(r, p) + d >= 0, NEW after, UNCHANGED stock,
         tx' = [tx EXCEPT ![r] = after], after.kind = tx[r].kind,
         after.delta = [tx[r].delta EXCEPT ![p] = tx[r].delta[p] + d],
         \/ after.held = tx[r].held
         \/ /\ after.held = tx[r].held \cup {p}
            /\ \A b \in Requests : ~PartLockedBy(r, p, b)
  PROVE  StockInv'
<1>1. /\ tx'[r] = after
      /\ \A x \in Requests : x # r => tx'[x] = tx[x]
  BY DEF IInv, Typed
<1>2. /\ stock \in [Parts -> Int] /\ tx[r].delta \in [Parts -> Int]
  BY DEF IInv, Typed, TypeOK, Open, Records, Transaction
<1>3. ASSUME Careful(r)', NEW q \in Parts
      PROVE  tx'[r].delta[q] >= 0 \/ OnHand(r, q)' >= 0
  <2>1. /\ OnHand(r, q)' = stock[q] + after.delta[q]
        /\ tx'[r].delta[q] = after.delta[q]
        /\ OnHand(r, q) = stock[q] + tx[r].delta[q]
    BY <1>1 DEF OnHand
  <2>2. Careful(r)
    BY <1>1, <1>3 DEF Careful
  <2>3. tx[r].delta[q] >= 0 \/ OnHand(r, q) >= 0
    BY <2>2 DEF StockInv, Backed
  <2>4. stock[q] \in Int /\ tx[r].delta[q] \in Int
    BY <1>2
  <2>5. CASE q = p
    <3>1. after.delta[q] = tx[r].delta[q] + d
      BY <1>2, <2>5
    <3>2. d >= 0 \/ OnHand(r, q) + d >= 0
      BY <2>2, <2>5
    <3> QED
      BY <2>1, <2>3, <2>4, <3>1, <3>2
  <2>6. CASE q # p
    <3>1. after.delta[q] = tx[r].delta[q]
      BY <1>2, <2>6
    <3> QED
      BY <2>1, <2>3, <3>1
  <2> QED
    BY <2>5, <2>6
<1>4. ASSUME NEW b \in Requests, b # r, Open(b)
      PROVE  Exclusive(r, b)'
  <2>1. Exclusive(r, b)
    BY <1>4 DEF StockInv
  <2>2. after.held = tx[r].held \/ p \notin tx[b].held
    BY <1>4 DEF PartLockedBy
  <2> QED
    BY <1>1, <1>4, <2>1, <2>2 DEF Exclusive
<1>5. Careful(r)' => Backed(r)'
  BY <1>3 DEF Backed
<1> QED
  BY <1>1, <1>4, <1>5, StepStock

\* A statement on a usage row keeps the stock invariant.
LEMMA WriteStock ==
  ASSUME StockInv, IInv, NEW r \in Requests, Open(r), NEW u \in Usages, NEW p \in Parts,
         NEW d \in Int, Careful(r) => d >= 0 \/ OnHand(r, p) + d >= 0, NEW locks \in BOOLEAN,
         Write(r, u, p, d, locks)
  PROVE  StockInv'
<1> DEFINE s == tx[r]
           after == [s EXCEPT !.todo = s.todo \ {u},
                              !.done = s.done \cup {u},
                              !.held = IF locks THEN s.held \cup {p} ELSE s.held,
                              !.delta = [s.delta EXCEPT ![p] = s.delta[p] + d],
                              !.moved = [s.moved EXCEPT ![u] = -d]]
<1>1. s \in Transaction
  BY DEF IInv, Typed, Records, Open
<1>2. /\ after.delta = [s.delta EXCEPT ![p] = s.delta[p] + d]
      /\ after.held = IF locks THEN s.held \cup {p} ELSE s.held
      /\ after.kind = s.kind
  BY <1>1 DEF Transaction
<1>3. /\ tx' = [tx EXCEPT ![r] = after] /\ UNCHANGED stock
      /\ locks => \A b \in Requests : ~PartLockedBy(r, p, b)
  BY DEF Write, db
<1> HIDE DEF after
<1> QED
  BY <1>2, <1>3, MoveStock

\* Inserting, approving and deleting usages keep the stock invariant.
LEMMA StatementStock ==
  ASSUME StockInv, IInv, NEW r \in Requests, NEW u \in Usages,
         InsertUsage(r, u) \/ ApproveUsage(r, u) \/ DeleteUsage(r, u)
  PROVE  StockInv'
<1>1. /\ Open(r) /\ u \in tx[r].todo
      /\ \A p \in Parts : OnHand(r, p) \in Int
  BY DEF InsertUsage, ApproveUsage, DeleteUsage, StockInv, OnHand, IInv, Typed, TypeOK,
     Open, Records, Transaction
<1>2. CASE InsertUsage(r, u)
  <2> DEFINE new == tx[r].rows[u]
             d == InsertDelta(new)
             locks == LocksPart(SyncOnInsert(new))
  <2>1. new \in UsageRow
    BY <1>1, TodoFacts DEF IInv
  <2>2. ~SyncRaises(OnHand(r, new.part), SyncOnInsert(new)) /\ tx[r].kind \in Inserting
    BY <1>2 DEF InsertUsage
  <2>3. Write(r, u, new.part, d, locks)
    BY <1>2 DEF InsertUsage
  <2> HIDE DEF new
  <2>4. d \in Int /\ new.part \in Parts /\ locks \in BOOLEAN
    BY <2>1, DeltaTypes DEF LocksPart
  <2>5. Careful(r) => d >= 0 \/ OnHand(r, new.part) + d >= 0
    BY <1>1, <2>1, <2>2, <2>4, GuardedDeltas DEF Careful
  <2> HIDE DEF d, locks
  <2> QED
    BY <1>1, <2>3, <2>4, <2>5, WriteStock
<1>3. CASE ApproveUsage(r, u)
  <2> DEFINE old == usage[u]
             new == [old EXCEPT !.approved = TRUE]
             d == UpdateDelta(old, new)
             locks == LocksPart(SyncOnUpdate(old, new))
  <2>1. /\ old \in UsageRow /\ new \in UsageRow
        /\ new.quantity = old.quantity
    BY <1>3, ApprovedIsRow DEF ApproveUsage, Live, UsageRow
  <2>2. ~SyncRaises(OnHand(r, old.part), SyncOnUpdate(old, new))
    BY <1>3 DEF ApproveUsage
  <2>3. Write(r, u, old.part, d, locks)
    BY <1>3 DEF ApproveUsage
  <2> HIDE DEF old, new
  <2>4. d \in Int /\ old.part \in Parts /\ locks \in BOOLEAN
    BY <2>1, DeltaTypes DEF LocksPart
  <2>5. d >= 0 \/ OnHand(r, old.part) + d >= 0
    BY <1>1, <2>1, <2>2, <2>4, GuardedDeltas
  <2> HIDE DEF d, locks
  <2> QED
    BY <1>1, <2>3, <2>4, <2>5, WriteStock
<1>4. CASE DeleteUsage(r, u)
  <2> DEFINE old == usage[u]
             d == DeleteDelta(old)
             locks == LocksPart(SyncOnDelete(old))
  <2>1. old \in UsageRow
    BY <1>4 DEF DeleteUsage, Live
  <2>2. Write(r, u, old.part, d, locks)
    BY <1>4 DEF DeleteUsage
  <2> HIDE DEF old
  <2>3. d \in Int /\ old.part \in Parts /\ locks \in BOOLEAN
    BY <2>1, DeltaTypes DEF LocksPart
  <2>4. d >= 0
    BY <1>1, <2>1, <2>3, GuardedDeltas
  <2> HIDE DEF d, locks
  <2> QED
    BY <1>1, <2>2, <2>3, <2>4, WriteStock
<1> QED
  BY <1>2, <1>3, <1>4

\* The increment of the cancel route keeps the stock invariant.
LEMMA RestockStock ==
  ASSUME StockInv, IInv, NEW r \in Requests, NEW u \in Usages, RestockUsage(r, u)
  PROVE  StockInv'
<1> DEFINE s == tx[r]
           p == s.rows[u].part
           q == s.rows[u].quantity
           after == [s EXCEPT !.todo = s.todo \ {u},
                              !.done = s.done \cup {u},
                              !.held = s.held \cup {p},
                              !.delta = [s.delta EXCEPT ![p] = s.delta[p] + q]]
<1>1. Open(r) /\ u \in s.todo /\ s \in Transaction /\ s.rows[u] \in UsageRow
  BY TodoFacts DEF RestockUsage, IInv
<1>2. p \in Parts /\ q \in Nat
  BY <1>1, DeltaTypes
<1>3. /\ after.delta = [s.delta EXCEPT ![p] = s.delta[p] + q]
      /\ after.held = s.held \cup {p}
      /\ after.kind = s.kind
  BY <1>1 DEF Transaction
<1>4. /\ tx' = [tx EXCEPT ![r] = after] /\ UNCHANGED stock
      /\ \A b \in Requests : ~PartLockedBy(r, p, b)
  BY DEF RestockUsage, db
<1> HIDE DEF after, p, q
<1>5. q \in Int /\ q >= 0 /\ p \in Parts /\ Open(r)
  BY <1>1, <1>2
<1>6. /\ after.delta = [tx[r].delta EXCEPT ![p] = tx[r].delta[p] + q]
      /\ after.held = tx[r].held \cup {p}
      /\ after.kind = tx[r].kind
  BY <1>3
<1> QED
  BY ONLY <1>4, <1>5, <1>6, MoveStock, StockInv, IInv, r \in Requests

\* A commit moves the parts the request held, and nobody else has moved those.
LEMMA CommitStock ==
  ASSUME StockInv, IInv, NEW r \in Requests, NEW kind \in Kinds, Commit(r, kind)
  PROVE  StockInv'
<1>1. /\ Open(r) /\ ~Open(r)' /\ stock' = [p \in Parts |-> OnHand(r, p)]
      /\ \A x \in Requests : x # r => tx'[x] = tx[x]
  BY DEF Commit, Open, IInv, Typed
<1>2. ASSUME NEW x \in Requests, Open(x)', Careful(x)', NEW p \in Parts
      PROVE  tx'[x].delta[p] >= 0 \/ OnHand(x, p)' >= 0
  <2>1. /\ x # r /\ tx'[x] = tx[x] /\ Open(x) /\ Exclusive(r, x)
        /\ Coherent(tx[x]) /\ Coherent(tx[r])
    BY <1>1, <1>2 DEF Open, StockInv, IInv, Typed, Records
  <2>2. tx[x].delta[p] >= 0 \/ OnHand(x, p) >= 0
    BY <1>2, <2>1 DEF StockInv, Careful, Backed
  <2>3. /\ stock[p] \in Int /\ tx[r].delta[p] \in Int /\ tx[x].delta[p] \in Int
    BY <1>1, <2>1 DEF IInv, Typed, TypeOK, Open, Records, Transaction
  <2>4. OnHand(x, p)' = stock[p] + tx[r].delta[p] + tx[x].delta[p]
    BY <1>1, <2>1 DEF OnHand
  <2>5. tx[r].delta[p] = 0 \/ tx[x].delta[p] = 0
    BY <2>1 DEF Coherent, Exclusive
  <2> QED
    BY <2>1, <2>2, <2>3, <2>4, <2>5 DEF OnHand
<1>3. \A x, b \in Requests : x # b /\ Open(x)' /\ Open(b)' => Exclusive(x, b)'
  BY <1>1 DEF Open, StockInv, Exclusive
<1> QED
  BY <1>2, <1>3 DEF StockInv, Backed

\* Statements outside the interactive transactions: only the part form moves
\* stock, and it waits for whoever holds the part.
LEMMA SingleStatementStock ==
  ASSUME StockInv, IInv, SingleStatement
  PROVE  StockInv'
<1>1. UNCHANGED tx
  BY DEF SingleStatement, RouteSetsStatus, RouteReopens, UpdateTicket,
     BulkUpdateTicketStatus, DeleteTicketRow, UpdatePart
<1>2. /\ \A r \in Requests : (Open(r)' <=> Open(r)) /\ (Careful(r)' <=> Careful(r))
      /\ \A x, b \in Requests : x # b /\ Open(x)' /\ Open(b)' => Exclusive(x, b)'
  BY <1>1 DEF StockInv, Open, Careful, Exclusive
<1>3. CASE UNCHANGED stock
  <2>1. \A r \in Requests : Open(r)' /\ Careful(r)' => Backed(r)'
    BY <1>1, <1>2, <1>3 DEF StockInv, Backed, OnHand
  <2> QED
    BY <1>2, <2>1 DEF StockInv
<1>4. ASSUME NEW p \in Parts, NEW n \in StockCounts, UpdatePart(p, n)
      PROVE  StockInv'
  <2>1. stock' = [stock EXCEPT ![p] = n]
    BY <1>4 DEF UpdatePart
  <2>2. \A q \in Parts : q # p => stock'[q] = stock[q]
    BY <2>1 DEF IInv, Typed, TypeOK
  <2>3. ASSUME NEW r \in Requests, Open(r)', Careful(r)', NEW q \in Parts
        PROVE  tx'[r].delta[q] >= 0 \/ OnHand(r, q)' >= 0
    <3>1. /\ Open(r) /\ Careful(r) /\ tx'[r] = tx[r]
          /\ p \notin tx[r].held /\ Coherent(tx[r])
      BY <1>1, <1>2, <1>4, <2>3 DEF UpdatePart, IInv, Typed, Open, Records
    <3>2. CASE q = p
      BY <3>1, <3>2 DEF Coherent
    <3>3. CASE q # p
      BY <2>2, <3>1, <3>3 DEF OnHand, StockInv, Backed
    <3> QED
      BY <3>2, <3>3
  <2> QED
    BY <1>2, <2>3 DEF StockInv, Backed
<1> QED
  BY <1>3, <1>4 DEF SingleStatement, RouteSetsStatus, RouteReopens, UpdateTicket,
     BulkUpdateTicketStatus, DeleteTicketRow

\* A request that arrives holds no part.
LEMMA ArrivesStock ==
  ASSUME StockInv, IInv, NEW r \in Requests, Arrives(r)
  PROVE  StockInv'
<1>1. \E kind, t, reading, rows, todo : Begin(r, kind, t, reading, rows, todo)
  BY DEF Arrives, ApproveReadsTicket, RejectReadsTicket, RouteCancelReadsTicket,
     CancelReads, AddPartReads, CreateTicketOpens, TemplateOpens, NewTicket, RemoveReads
<1>2. PICK kind, t, reading, rows, todo : Begin(r, kind, t, reading, rows, todo)
  BY <1>1
<1> DEFINE new == [kind |-> kind, ticket |-> t, seen |-> status[t],
                   reading |-> reading, rows |-> rows, todo |-> todo,
                   checked |-> {}, done |-> {}, held |-> {},
                   delta |-> [p \in Parts |-> 0], moved |-> [u \in Usages |-> 0]]
<1>3. tx' = [tx EXCEPT ![r] = new] /\ UNCHANGED stock
  BY <1>2 DEF Begin, db
<1>4. new.held = {} /\ new.delta = [p \in Parts |-> 0]
  OBVIOUS
<1> HIDE DEF new
<1> QED
  BY <1>3, <1>4, StillStock

\* Reads, stock checks and rollbacks move nothing.
LEMMA QuietStock ==
  ASSUME StockInv, IInv, NEW r \in Requests,
         \/ ApproveOrRejectReadsPending(r)
         \/ RouteCancelReadsUsages(r)
         \/ \E u \in Usages : CheckStock(r, u)
         \/ Stops(r)
  PROVE  StockInv'
<1> DEFINE s == tx[r]
<1>1. Open(r) => s \in Transaction
  BY DEF IInv, Typed, Records, Open
<1>2. ASSUME NEW S, ReadUsages(r, S)
      PROVE  StockInv'
  <2> DEFINE after == [s EXCEPT !.reading = FALSE, !.rows = Snapshot(S), !.todo = S]
  <2>1. Open(r) /\ tx' = [tx EXCEPT ![r] = after] /\ UNCHANGED stock
    BY <1>2 DEF ReadUsages, db
  <2>2. after.held = s.held /\ after.delta = s.delta /\ after.kind = s.kind
    BY <1>1, <2>1 DEF Transaction
  <2> HIDE DEF after
  <2> QED
    BY <2>1, <2>2, StillStock
<1>3. CASE ApproveOrRejectReadsPending(r) \/ RouteCancelReadsUsages(r)
  BY <1>2, <1>3 DEF ApproveOrRejectReadsPending, RouteCancelReadsUsages
<1>4. ASSUME NEW u \in Usages, CheckStock(r, u)
      PROVE  StockInv'
  <2> DEFINE after == [s EXCEPT !.checked = s.checked \cup {u}]
  <2>1. Open(r) /\ tx' = [tx EXCEPT ![r] = after] /\ UNCHANGED stock
    BY <1>4 DEF CheckStock, db
  <2>2. after.held = s.held /\ after.delta = s.delta /\ after.kind = s.kind
    BY <1>1, <2>1 DEF Transaction
  <2> HIDE DEF after
  <2> QED
    BY <2>1, <2>2, StillStock
<1>5. CASE Stops(r)
  <2>1. tx' = [tx EXCEPT ![r] = NoTx] /\ UNCHANGED stock
    BY <1>5 DEF Stops, HandlerFails, DeadlockVictim, Abandoned, Rollback, db
  <2> QED
    BY <2>1, StillStock
<1> QED
  BY <1>3, <1>4, <1>5

\* Every step of a handler keeps the stock invariant.
LEMMA AdvancesStock ==
  ASSUME StockInv, IInv, NEW r \in Requests, Advances(r)
  PROVE  StockInv'
<1>1. CASE \/ ApproveOrRejectReadsPending(r)
           \/ RouteCancelReadsUsages(r)
           \/ \E u \in Usages : CheckStock(r, u)
  BY <1>1, QuietStock
<1>2. CASE \E u \in Usages : RestockUsage(r, u)
  BY <1>2, RestockStock
<1>3. CASE \E u \in Usages : InsertUsage(r, u) \/ ApproveUsage(r, u) \/ DeleteUsage(r, u)
  BY <1>3, StatementStock
<1>4. CASE \E kind \in Kinds : Commit(r, kind)
  BY <1>4, CommitStock
<1>5. CASE \/ ApproveCommits(r) \/ RejectCommits(r) \/ CancelCommits(r)
           \/ RouteCancelCommits(r) \/ RemoveCommits(r) \/ AddPartCommits(r)
           \/ CreateCommits(r) \/ TemplateCommits(r)
  BY <1>4, <1>5 DEF ApproveCommits, RejectCommits, CancelCommits, RouteCancelCommits,
     RemoveCommits, AddPartCommits, CreateCommits, TemplateCommits
<1> QED
  BY <1>1, <1>2, <1>3, <1>5 DEF Advances

\* Stock moves when a request commits, or by the part form.
LEMMA OnlyCommitsStock ==
  ASSUME Next, stock' # stock
  PROVE  \/ \E p \in Parts, n \in StockCounts : UpdatePart(p, n)
         \/ \E r \in Requests :
              \/ ApproveCommits(r) \/ RejectCommits(r) \/ CancelCommits(r)
              \/ RouteCancelCommits(r) \/ RemoveCommits(r)
              \/ AddPartCommits(r) \/ CreateCommits(r) \/ TemplateCommits(r)
<1>1. ASSUME NEW r \in Requests, Arrives(r)
      PROVE  UNCHANGED stock
  BY <1>1 DEF Arrives, ApproveReadsTicket, RejectReadsTicket, RouteCancelReadsTicket,
     CancelReads, AddPartReads, CreateTicketOpens, TemplateOpens, NewTicket,
     RemoveReads, Begin, db
<1>2. ASSUME NEW r \in Requests,
             \/ ApproveOrRejectReadsPending(r) \/ RouteCancelReadsUsages(r)
             \/ \E u \in Usages : \/ CheckStock(r, u) \/ InsertUsage(r, u) \/ ApproveUsage(r, u)
                                  \/ DeleteUsage(r, u) \/ RestockUsage(r, u)
      PROVE  UNCHANGED stock
  BY <1>2 DEF ApproveOrRejectReadsPending, RouteCancelReadsUsages, ReadUsages,
     CheckStock, InsertUsage, ApproveUsage, DeleteUsage, RestockUsage, Write, db
<1>3. ASSUME NEW r \in Requests, Stops(r)
      PROVE  UNCHANGED stock
  BY <1>3 DEF Stops, HandlerFails, DeadlockVictim, Abandoned, Rollback, db
<1>4. CASE SingleStatement
  BY <1>4 DEF SingleStatement, RouteSetsStatus, RouteReopens, UpdateTicket,
     BulkUpdateTicketStatus, DeleteTicketRow
<1> QED
  BY <1>1, <1>2, <1>3, <1>4 DEF Next, Advances

LEMMA StockStep == IInv /\ StockInv /\ [Next]_vars => StockInv'
<1> SUFFICES ASSUME IInv, StockInv, [Next]_vars PROVE StockInv'
  OBVIOUS
<1>1. ASSUME NEW r \in Requests, Arrives(r) \/ Advances(r) \/ Stops(r)
      PROVE  StockInv'
  BY <1>1, ArrivesStock, AdvancesStock, QuietStock
<1>2. CASE SingleStatement
  BY <1>2, SingleStatementStock
<1>3. CASE UNCHANGED vars
  BY <1>3 DEF vars, StockInv, OnHand, Open, Exclusive, Careful, Backed
<1> QED
  BY <1>1, <1>2, <1>3 DEF Next

\* No approval takes parts.quantity below zero, nor does anything given back,
\* under any triggers and whatever moves the part meanwhile: only an insert does,
\* and only if the first migration's trigger is installed.
THEOREM OverdrawsCorrect == Spec => OnlyInsertsOverdraw
<1>1. Init => StockInv
  BY DEF Init, StockInv, Open
<1>2. ASSUME IInv, StockInv, [Next]_vars, NEW p \in Parts, stock'[p] < 0, stock'[p] < stock[p]
      PROVE  /\ "update_on_usage" \in Installed
             /\ \E r \in Requests :
                  /\ AddPartCommits(r) \/ CreateCommits(r) \/ TemplateCommits(r)
                  /\ p \in tx[r].held
  <2>1. stock \in [Parts -> Int]
    BY <1>2 DEF IInv, Typed, TypeOK
  <2>2. ASSUME NEW r \in Requests, NEW kind \in Kinds, Commit(r, kind)
        PROVE  ~Careful(r) /\ p \in tx[r].held /\ tx[r].kind = kind
    <3>1. /\ Open(r) /\ tx[r].kind = kind /\ stock'[p] = stock[p] + tx[r].delta[p]
          /\ tx[r].delta[p] \in Int /\ Coherent(tx[r])
      BY <1>2, <2>2 DEF Commit, OnHand, IInv, Typed, Open, Records, Transaction
    <3>2. tx[r].delta[p] < 0 /\ OnHand(r, p) < 0
      BY <1>2, <2>1, <3>1 DEF OnHand
    <3>3. ~Careful(r)
      BY <1>2, <2>1, <3>1, <3>2 DEF StockInv, Backed, OnHand
    <3>4. p \in tx[r].held
      BY <3>1, <3>2 DEF Coherent
    <3> QED
      BY <3>1, <3>3, <3>4
  <2>3. ASSUME NEW r \in Requests,
               \/ ApproveCommits(r) \/ RejectCommits(r) \/ CancelCommits(r)
               \/ RouteCancelCommits(r) \/ RemoveCommits(r)
        PROVE  FALSE
    <3>1. \E kind \in Kinds \ Inserting : Commit(r, kind)
      BY <2>3 DEF Kinds, Inserting, ApproveCommits, RejectCommits, CancelCommits,
                  RouteCancelCommits, RemoveCommits
    <3> QED
      BY <2>2, <3>1 DEF Careful
  <2>4. ASSUME NEW r \in Requests,
               AddPartCommits(r) \/ CreateCommits(r) \/ TemplateCommits(r)
        PROVE  "update_on_usage" \in Installed /\ p \in tx[r].held
    <3>1. \E kind \in Kinds : Commit(r, kind)
      BY <2>4 DEF Kinds, AddPartCommits, CreateCommits, TemplateCommits
    <3> QED
      BY <2>2, <3>1 DEF Careful
  <2>5. stock' # stock
    BY <1>2, <2>1
  <2>6. ASSUME NEW q \in Parts, NEW n \in StockCounts, UpdatePart(q, n)
        PROVE  FALSE
    <3>1. n \in Nat /\ stock' = [stock EXCEPT ![q] = n]
      BY <2>6, InputsAssumption DEF UpdatePart
    <3>2. stock'[p] = n \/ stock'[p] = stock[p]
      BY <2>1, <3>1
    <3> QED
      BY <1>2, <2>1, <3>1, <3>2
  <2>7. \E r \in Requests :
          \/ ApproveCommits(r) \/ RejectCommits(r) \/ CancelCommits(r)
          \/ RouteCancelCommits(r) \/ RemoveCommits(r)
          \/ AddPartCommits(r) \/ CreateCommits(r) \/ TemplateCommits(r)
    BY <1>2, <2>5, <2>6, OnlyCommitsStock DEF vars
  <2> QED
    BY <2>3, <2>4, <2>7
<1>3. StockInv /\ IInv /\ [Next]_vars =>
        [\A p \in Parts : stock'[p] < 0 /\ stock'[p] < stock[p] =>
           /\ "update_on_usage" \in Installed
           /\ \E r \in Requests :
                /\ AddPartCommits(r) \/ CreateCommits(r) \/ TemplateCommits(r)
                /\ p \in tx[r].held]_vars
  BY <1>2
<1> QED
  BY <1>1, <1>3, StockStep, LedgerCorrect, PTL DEF Spec, OnlyInsertsOverdraw

-----------------------------------------------------------------------------
(* Tickets of usages. *)

(***************************************************************************)
(* NoOrphanUsage is not inductive: a request in flight will make its       *)
(* inserts visible.  Knows says that they are for its own ticket, and that *)
(* a part added to a ticket, once inserted, keeps the ticket there.        *)
(***************************************************************************)
Knows(r) ==
  /\ tx[r].kind \in Inserting =>
       \A u \in tx[r].todo \cup tx[r].done : tx[r].rows[u].ticket = tx[r].ticket
  /\ tx[r].kind = "addPart" /\ tx[r].done # {} => Exists(tx[r].ticket)

AllKnow == \A r \in Requests : Open(r) => Knows(r)

OrphanInv == NoOrphanUsage /\ AllKnow

\* A step that writes one request only has that request to answer for.
LEMMA StepKnows ==
  ASSUME IInv, OrphanInv, NEW r \in Requests, UNCHANGED <<usage, status>>,
         \A x \in Requests : x # r => tx'[x] = tx[x],
         Open(r)' => Knows(r)'
  PROVE  OrphanInv'
<1>1. NoOrphanUsage'
  BY DEF OrphanInv, NoOrphanUsage, Live, Exists
<1>2. \A x \in Requests : x # r /\ Open(x)' => Knows(x)'
  BY DEF OrphanInv, AllKnow, Open, Knows, Exists
<1> QED
  BY <1>1, <1>2 DEF OrphanInv, AllKnow

\* A request that arrives names its ticket in the rows it will insert.
LEMMA BeginKnows ==
  ASSUME IInv, OrphanInv, NEW r \in Requests, NEW kind, NEW t, NEW reading, NEW rows,
         NEW todo, Begin(r, kind, t, reading, rows, todo),
         kind \in Inserting => \A u \in todo : rows[u].ticket = t
  PROVE  OrphanInv'
<1>1. UNCHANGED <<usage, status>> /\ \A x \in Requests : x # r => tx'[x] = tx[x]
  BY DEF Begin, db, IInv, Typed
<1>2. /\ tx'[r].kind = kind /\ tx'[r].todo = todo /\ tx'[r].done = {}
      /\ tx'[r].rows = rows /\ tx'[r].ticket = t
  BY DEF Begin, IInv, Typed
<1>3. Knows(r)'
  BY <1>2 DEF Knows
<1> QED
  BY <1>1, <1>3, StepKnows

LEMMA ArrivesKnows ==
  ASSUME IInv, OrphanInv, NEW r \in Requests, Arrives(r)
  PROVE  OrphanInv'
<1>1. ASSUME NEW t \in Tickets, NEW u \in Usages, NEW p \in Parts, NEW q \in Quantities,
             AddPartReads(r, t, u, p, q)
      PROVE  OrphanInv'
  <2> DEFINE rows == [NothingNew EXCEPT ![u] =
                        [ticket |-> t, part |-> p, quantity |-> q, approved |-> FALSE]]
  <2>1. \A v \in {u} : rows[v].ticket = t
    BY DEF NothingNew
  <2>2. Begin(r, "addPart", t, FALSE, rows, {u})
    BY <1>1 DEF AddPartReads
  <2> HIDE DEF rows
  <2> QED
    BY <2>1, <2>2, BeginKnows
<1>2. ASSUME NEW t \in Tickets, NEW S \in SUBSET Usages, NEW item \in [S -> Parts \X Quantities],
             NEW kind, NEW approved, NewTicket(r, kind, t, S, item, approved)
      PROVE  OrphanInv'
  <2> DEFINE rows == [u \in Usages |-> IF u \in S
                        THEN [ticket |-> t, part |-> item[u][1], quantity |-> item[u][2],
                              approved |-> approved]
                        ELSE NoRow]
  <2>1. \A v \in S : rows[v].ticket = t
    OBVIOUS
  <2>2. Begin(r, kind, t, FALSE, rows, S)
    BY <1>2 DEF NewTicket
  <2> HIDE DEF rows
  <2> QED
    BY <2>1, <2>2, BeginKnows
<1>3. ASSUME NEW t \in Tickets,
             \/ ApproveReadsTicket(r, t) \/ RejectReadsTicket(r, t)
             \/ RouteCancelReadsTicket(r, t) \/ CancelReads(r, t)
      PROVE  OrphanInv'
  <2>1. \E kind \in {"approve", "reject", "routeCancel", "cancel"} : \E reading, rows, todo :
          Begin(r, kind, t, reading, rows, todo)
    BY <1>3 DEF ApproveReadsTicket, RejectReadsTicket, RouteCancelReadsTicket, CancelReads
  <2> QED
    BY <2>1, BeginKnows
<1>4. ASSUME NEW u \in Usages, RemoveReads(r, u)
      PROVE  OrphanInv'
  BY <1>4, BeginKnows DEF RemoveReads
<1> QED
  BY <1>1, <1>2, <1>3, <1>4 DEF Arrives, CreateTicketOpens, TemplateOpens

\* A statement moves one row of the request's record from todo to done and keeps
\* its kind, its ticket and the rows it read.
LEMMA WriteRecord ==
  ASSUME IInv, NEW r \in Requests, tx[r] \in Transaction, NEW u, NEW p, NEW d, NEW locks,
         Write(r, u, p, d, locks)
  PROVE  /\ tx'[r].kind = tx[r].kind /\ tx'[r].ticket = tx[r].ticket
         /\ tx'[r].rows = tx[r].rows
         /\ tx'[r].todo = tx[r].todo \ {u} /\ tx'[r].done = tx[r].done \cup {u}
<1> DEFINE s == tx[r]
           after == [s EXCEPT !.todo = s.todo \ {u},
                              !.done = s.done \cup {u},
                              !.held = IF locks THEN s.held \cup {p} ELSE s.held,
                              !.delta = [s.delta EXCEPT ![p] = s.delta[p] + d],
                              !.moved = [s.moved EXCEPT ![u] = -d]]
<1>1. tx' = [tx EXCEPT ![r] = after]
  BY DEF Write
<1>2. /\ after.kind = s.kind /\ after.ticket = s.ticket /\ after.rows = s.rows
      /\ after.todo = s.todo \ {u} /\ after.done = s.done \cup {u}
  BY DEF Transaction
<1> HIDE DEF after
<1>3. tx'[r] = after
  BY <1>1 DEF IInv, Typed
<1> QED
  BY <1>2, <1>3

LEMMA RestockRecord ==
  ASSUME IInv, NEW r \in Requests, tx[r] \in Transaction, NEW u, RestockUsage(r, u)
  PROVE  /\ tx'[r].kind = tx[r].kind /\ tx'[r].rows = tx[r].rows
         /\ tx'[r].todo = tx[r].todo \ {u} /\ tx'[r].done = tx[r].done \cup {u}
<1> DEFINE s == tx[r]
           row == s.rows[u]
           after == [s EXCEPT !.todo = s.todo \ {u},
                              !.done = s.done \cup {u},
                              !.held = s.held \cup {row.part},
                              !.delta = [s.delta EXCEPT ![row.part] =
                                           s.delta[row.part] + row.quantity]]
<1>1. tx' = [tx EXCEPT ![r] = after]
  BY DEF RestockUsage
<1>2. /\ after.kind = s.kind /\ after.rows = s.rows
      /\ after.todo = s.todo \ {u} /\ after.done = s.done \cup {u}
  BY DEF Transaction
<1> HIDE DEF after
<1>3. tx'[r] = after
  BY <1>1 DEF IInv, Typed
<1> QED
  BY <1>2, <1>3

LEMMA CheckRecord ==
  ASSUME IInv, NEW r \in Requests, tx[r] \in Transaction, NEW u, CheckStock(r, u)
  PROVE  /\ tx'[r].kind = tx[r].kind /\ tx'[r].ticket = tx[r].ticket
         /\ tx'[r].rows = tx[r].rows
         /\ tx'[r].todo = tx[r].todo /\ tx'[r].done = tx[r].done
<1>1. tx' = [tx EXCEPT ![r] = [tx[r] EXCEPT !.checked = tx[r].checked \cup {u}]]
  BY DEF CheckStock
<1> QED
  BY <1>1 DEF IInv, Typed, Transaction

\* Statements that are not yet a commit write the request's own record, and only
\* an insert brings a row that was not there.
LEMMA StatementKnows ==
  ASSUME IInv, OrphanInv, NEW r \in Requests,
         \/ ApproveOrRejectReadsPending(r) \/ RouteCancelReadsUsages(r)
         \/ \E u \in Usages : \/ CheckStock(r, u) \/ InsertUsage(r, u) \/ ApproveUsage(r, u)
                              \/ DeleteUsage(r, u) \/ RestockUsage(r, u)
  PROVE  OrphanInv'
<1>1. UNCHANGED <<usage, status>> /\ \A x \in Requests : x # r => tx'[x] = tx[x]
  BY DEF ApproveOrRejectReadsPending, RouteCancelReadsUsages, ReadUsages, CheckStock,
     InsertUsage, ApproveUsage, DeleteUsage, RestockUsage, Write, db, IInv, Typed
<1>2. Open(r) /\ Knows(r) /\ tx[r] \in Transaction
  BY DEF ApproveOrRejectReadsPending, RouteCancelReadsUsages, CheckStock,
     InsertUsage, ApproveUsage, DeleteUsage, RestockUsage, IInv, Typed, Records, Open,
     OrphanInv, AllKnow
<1>3. CASE ApproveOrRejectReadsPending(r) \/ RouteCancelReadsUsages(r)
  <2>1. tx'[r].kind = tx[r].kind /\ tx[r].kind \notin Inserting
    BY <1>2, <1>3 DEF ApproveOrRejectReadsPending, RouteCancelReadsUsages, ReadUsages,
       IInv, Typed, Transaction
  <2> QED
    BY <1>1, <2>1, StepKnows DEF Knows
<1>4. ASSUME NEW u \in Usages, CheckStock(r, u)
      PROVE  OrphanInv'
  <2>1. /\ tx'[r].kind = tx[r].kind /\ tx'[r].todo = tx[r].todo /\ tx'[r].done = tx[r].done
        /\ tx'[r].rows = tx[r].rows /\ tx'[r].ticket = tx[r].ticket
    BY <1>2, <1>4, CheckRecord
  <2>2. Knows(r)'
    BY <1>1, <1>2, <2>1 DEF Knows, Exists
  <2> QED
    BY <1>1, <2>2, StepKnows
<1>5. ASSUME NEW u \in Usages, InsertUsage(r, u)
      PROVE  OrphanInv'
  <2>1. /\ tx'[r].kind = tx[r].kind /\ tx'[r].todo = tx[r].todo \ {u}
        /\ tx'[r].done = tx[r].done \cup {u}
        /\ tx'[r].rows = tx[r].rows /\ tx'[r].ticket = tx[r].ticket
    BY <1>2, <1>5, WriteRecord DEF InsertUsage
  <2>2. /\ tx[r].kind \in Inserting /\ u \in tx[r].todo
        /\ tx[r].kind = "addPart" => Exists(tx[r].rows[u].ticket)
    BY <1>5 DEF InsertUsage
  <2>3. Knows(r)'
    BY <1>1, <1>2, <2>1, <2>2 DEF Knows, Exists
  <2> QED
    BY <1>1, <2>3, StepKnows
<1>6. ASSUME NEW u \in Usages, ApproveUsage(r, u) \/ DeleteUsage(r, u) \/ RestockUsage(r, u)
      PROVE  OrphanInv'
  <2>1. tx[r].kind \notin Inserting
    BY <1>6 DEF ApproveUsage, DeleteUsage, RestockUsage, Inserting, Deleting
  <2>2. \/ RestockUsage(r, u)
        \/ \E p, d, locks : Write(r, u, p, d, locks)
    BY <1>6 DEF ApproveUsage, DeleteUsage
  <2>3. tx'[r].kind = tx[r].kind
    BY <1>2, <2>2, WriteRecord, RestockRecord
  <2>4. Knows(r)'
    BY <2>1, <2>3 DEF Knows, Inserting
  <2> QED
    BY <1>1, <2>4, StepKnows
<1> QED
  BY <1>3, <1>4, <1>5, <1>6

\* No commit makes a ticket go away, and one that inserts has its ticket there.
LEMMA CommitsFindTickets ==
  ASSUME IInv, OrphanInv, NEW r \in Requests,
         \/ ApproveCommits(r) \/ RejectCommits(r) \/ CancelCommits(r)
         \/ RouteCancelCommits(r) \/ RemoveCommits(r) \/ AddPartCommits(r)
         \/ CreateCommits(r) \/ TemplateCommits(r)
  PROVE  /\ \E kind \in Kinds : Commit(r, kind)
         /\ \A t \in Tickets : Exists(t) => Exists(t)'
         /\ tx[r].kind \in Inserting /\ tx[r].done # {} => status'[tx[r].ticket] # ABSENT
<1>1. /\ \E kind \in Kinds : Commit(r, kind)
      /\ Open(r) /\ Knows(r) /\ tx[r].ticket \in Tickets
  BY DEF ApproveCommits, RejectCommits, CancelCommits, RouteCancelCommits, RemoveCommits,
     AddPartCommits, CreateCommits, TemplateCommits, Commit, IInv, Typed, Records, Open,
     Transaction, OrphanInv, AllKnow
<1>2. ABSENT \notin TicketStatus /\ status \in [Tickets -> TicketStatus \cup {ABSENT}]
  BY DEF ABSENT, TicketStatus, IInv, Typed, TypeOK
<1> DEFINE Sets == \E st \in TicketStatus : status' = [status EXCEPT ![tx[r].ticket] = st]
<1>3. /\ \/ UNCHANGED status
         \/ Sets
      /\ tx[r].kind \in {"create", "template"} => Sets
  <2>1. /\ {"OPEN", "WAITING_APPROVAL", "IN_PROGRESS", "REJECTED", "CANCELLED"}
             \subseteq TicketStatus
        /\ StatusInputs \subseteq TicketStatus
    BY InputsAssumption DEF TicketStatus
  <2> QED
    BY <2>1 DEF ApproveCommits, RejectCommits, CancelCommits, RouteCancelCommits,
       RemoveCommits, AddPartCommits, CreateCommits, TemplateCommits, SetsStatus, Commit
<1>4. ASSUME Sets
      PROVE  status'[tx[r].ticket] # ABSENT /\ \A t \in Tickets : Exists(t) => Exists(t)'
  <2>1. PICK st \in TicketStatus : status' = [status EXCEPT ![tx[r].ticket] = st]
    BY <1>4
  <2>2. tx[r].ticket \in Tickets /\ st # ABSENT
    BY <1>1, <1>2
  <2> QED
    BY ONLY <1>2, <2>1, <2>2 DEF Exists
<1> HIDE DEF Sets
<1>5. \A t \in Tickets : Exists(t) => Exists(t)'
  BY <1>3, <1>4 DEF Exists
<1>6. tx[r].kind \in {"create", "template"} => status'[tx[r].ticket] # ABSENT
  BY <1>3, <1>4
<1>7. tx[r].kind = "addPart" /\ tx[r].done # {} => status'[tx[r].ticket] # ABSENT
  <2>1. tx[r].kind = "addPart" /\ tx[r].done # {} => Exists(tx[r].ticket)
    BY <1>1 DEF Knows
  <2>2. \A t \in Tickets : Exists(t) => status'[t] # ABSENT
    BY <1>5 DEF Exists
  <2> QED
    BY <1>1, <2>1, <2>2
<1>8. tx[r].kind \in Inserting /\ tx[r].done # {} => status'[tx[r].ticket] # ABSENT
  BY <1>6, <1>7 DEF Inserting
<1> QED
  BY <1>1, <1>5, <1>8

LEMMA CommitKnows ==
  ASSUME IInv, OrphanInv, NEW r \in Requests, NEW kind \in Kinds, Commit(r, kind),
         \A t \in Tickets : Exists(t) => Exists(t)',
         tx[r].kind \in Inserting /\ tx[r].done # {} => status'[tx[r].ticket] # ABSENT
  PROVE  OrphanInv'
<1>1. Open(r) /\ Knows(r) /\ Coherent(tx[r]) /\ tx[r].kind = kind
  BY CommitRows DEF Commit, OrphanInv, AllKnow
<1>2. ASSUME NEW u \in Usages, Live(u)'
      PROVE  Exists(usage[u].ticket)'
  <2>1. usage'[u] \in UsageRow /\ usage'[u].ticket \in Tickets
    BY <1>2 DEF Live, UsageRow
  <2>2. CASE usage'[u] = usage[u]
    BY <2>1, <2>2 DEF OrphanInv, NoOrphanUsage, Live
  <2>3. CASE u \in tx[r].done /\ kind \in Inserting /\ usage'[u] = Written(r, u)
    <3>1. usage'[u] = tx[r].rows[u]
      BY <1>1, <2>3 DEF Written
    <3>2. tx[r].rows[u].ticket = tx[r].ticket
      BY <1>1, <2>3 DEF Knows
    <3> QED
      BY <1>1, <2>3, <3>1, <3>2 DEF Exists
  <2>4. CASE Live(u) /\ usage'[u] = [usage[u] EXCEPT !.approved = TRUE]
    <3>1. usage'[u].ticket = usage[u].ticket
      BY <2>4 DEF Live, UsageRow
    <3> QED
      BY <2>1, <2>4, <3>1 DEF OrphanInv, NoOrphanUsage
  <2>5. usage'[u] # DeletedRow
    BY <2>1, NullsAssumption
  <2> QED
    BY <2>2, <2>3, <2>4, <2>5, CommitRows
<1>3. ASSUME NEW x \in Requests, Open(x)'
      PROVE  Knows(x)'
  <2>1. x # r /\ tx'[x] = tx[x] /\ Open(x)
    BY <1>3 DEF Commit, Open, IInv, Typed
  <2>2. Knows(x) /\ tx[x].ticket \in Tickets
    BY <2>1 DEF OrphanInv, AllKnow, IInv, Typed, Records, Transaction, Open
  <2> QED
    BY <2>1, <2>2 DEF Knows
<1> QED
  BY <1>2, <1>3 DEF OrphanInv, NoOrphanUsage, AllKnow

\* A ticket is deleted only when it has no usage and no insert in flight.
LEMMA SingleStatementKnows ==
  ASSUME IInv, OrphanInv, SingleStatement
  PROVE  OrphanInv'
<1>1. UNCHANGED <<usage, tx>>
  BY DEF SingleStatement, RouteSetsStatus, RouteReopens, UpdateTicket, BulkUpdateTicketStatus,
     DeleteTicketRow, UpdatePart
<1>2. ABSENT \notin TicketStatus /\ status \in [Tickets -> TicketStatus \cup {ABSENT}]
      /\ StatusInputs \subseteq TicketStatus
  BY InputsAssumption DEF ABSENT, TicketStatus, IInv, Typed, TypeOK
<1>3. /\ \A u \in Usages : Live(u) => usage[u].ticket \in Tickets
      /\ \A x \in Requests : Open(x) => tx[x].ticket \in Tickets
  BY DEF Live, UsageRow, IInv, Typed, Records, Transaction, Open
<1>4. CASE \A t \in Tickets : Exists(t) => Exists(t)'
  BY <1>1, <1>3, <1>4 DEF OrphanInv, NoOrphanUsage, AllKnow, Knows, Live, Open
<1>5. ASSUME NEW t \in Tickets, DeleteTicketRow(t)
      PROVE  OrphanInv'
  <2>1. \A x \in Tickets : x # t /\ Exists(x) => Exists(x)'
    BY <1>2, <1>5 DEF DeleteTicketRow, Exists
  <2>2. \A u \in Usages : Live(u) => usage[u].ticket # t
    BY <1>5 DEF DeleteTicketRow, UsagesOf
  <2>3. \A x \in Requests : Open(x) /\ tx[x].kind = "addPart" /\ tx[x].done # {}
                              => tx[x].ticket # t
    BY <1>5 DEF DeleteTicketRow
  <2>4. NoOrphanUsage'
    BY <1>1, <1>3, <2>1, <2>2 DEF OrphanInv, NoOrphanUsage, Live
  <2>5. AllKnow'
    BY <1>1, <1>3, <2>1, <2>3 DEF OrphanInv, AllKnow, Knows, Open
  <2> QED
    BY <2>4, <2>5 DEF OrphanInv
<1>6. (\A t \in Tickets : Exists(t) => Exists(t)') \/ \E t \in Tickets : DeleteTicketRow(t)
  BY <1>2 DEF SingleStatement, RouteSetsStatus, RouteReopens, UpdateTicket, BulkUpdateTicketStatus,
     UpdatePart, Exists
<1> QED
  BY <1>4, <1>5, <1>6

LEMMA NextKnows ==
  ASSUME IInv, OrphanInv, [Next]_vars
  PROVE  OrphanInv'
<1>1. ASSUME NEW r \in Requests, Advances(r)
      PROVE  OrphanInv'
  BY <1>1, StatementKnows, CommitsFindTickets, CommitKnows DEF Advances
<1>2. ASSUME NEW r \in Requests, Stops(r)
      PROVE  OrphanInv'
  <2>1. /\ UNCHANGED <<usage, status>> /\ ~Open(r)'
        /\ \A x \in Requests : x # r => tx'[x] = tx[x]
    BY <1>2 DEF Stops, HandlerFails, DeadlockVictim, Abandoned, Rollback, db, Open, IInv, Typed
  <2> QED
    BY <2>1, StepKnows
<1>3. CASE UNCHANGED vars
  BY <1>3 DEF vars, OrphanInv, NoOrphanUsage, AllKnow, Knows, Open, Live, Exists
<1> QED
  BY <1>1, <1>2, <1>3, ArrivesKnows, SingleStatementKnows DEF Next

\* A usage row always belongs to a ticket that exists, whatever deletions of
\* tickets race the handlers that insert parts.
THEOREM NoOrphansCorrect == Spec => []NoOrphanUsage
<1>1. Init => OrphanInv
  BY NullsAssumption DEF Init, OrphanInv, NoOrphanUsage, AllKnow, Open, Live
<1>2. IInv /\ OrphanInv /\ [Next]_vars => OrphanInv'
  BY NextKnows
<1>3. OrphanInv => NoOrphanUsage
  BY DEF OrphanInv
<1> QED
  BY <1>1, <1>2, <1>3, LedgerCorrect, PTL DEF Spec
-----------------------------------------------------------------------------
(* All or nothing. *)

(***************************************************************************)
(* ApprovesAllOrNothing speaks of a commit: what is inductive is what an   *)
(* approval in flight still knows of the rows it read.  It writes each of  *)
(* them before it commits, and a row it read pending is as it was, was     *)
(* approved by another approval, or is gone (Tracks).                      *)
(***************************************************************************)
Approved(row) == [row EXCEPT !.approved = TRUE]

Tracks(r) ==
  tx[r].kind = "approve" => \A u \in Usages : tx[r].rows[u] # NoRow =>
    /\ u \in tx[r].todo \cup tx[r].done
    /\ usage[u] \in {tx[r].rows[u], Approved(tx[r].rows[u]), DeletedRow}

AllTrack == \A r \in Requests : Open(r) => Tracks(r)

\* Approving a row twice changes nothing, and an approved row is a row.
LEMMA ApprovedFacts ==
  ASSUME NEW row \in UsageRow
  PROVE  /\ Approved(row) \in UsageRow
         /\ Approved(Approved(row)) = Approved(row)
  BY DEF UsageRow, Approved

\* A step that writes one request only has that request to answer for.
LEMMA StepTracks ==
  ASSUME IInv, AllTrack, NEW r \in Requests, UNCHANGED usage,
         \A x \in Requests : x # r => tx'[x] = tx[x],
         Open(r)' => Tracks(r)'
  PROVE  AllTrack'
  BY DEF AllTrack, Tracks, Open

\* An approval that arrives has read no usage yet.
LEMMA BeginTracks ==
  ASSUME IInv, AllTrack, NEW r \in Requests, NEW kind, NEW t, NEW reading, NEW rows,
         NEW todo, Begin(r, kind, t, reading, rows, todo),
         kind = "approve" => rows = NothingNew
  PROVE  AllTrack'
<1>1. UNCHANGED usage /\ \A x \in Requests : x # r => tx'[x] = tx[x]
  BY DEF Begin, db, IInv, Typed
<1>2. tx'[r].kind = kind /\ tx'[r].rows = rows
  BY DEF Begin, IInv, Typed
<1>3. \A u \in Usages : NothingNew[u] = NoRow
  BY DEF NothingNew
<1>4. Tracks(r)'
  BY <1>2, <1>3 DEF Tracks
<1> QED
  BY <1>1, <1>4, StepTracks

LEMMA ArrivesTracks ==
  ASSUME IInv, AllTrack, NEW r \in Requests, Arrives(r)
  PROVE  AllTrack'
<1>1. ASSUME NEW t \in Tickets, ApproveReadsTicket(r, t)
      PROVE  AllTrack'
  BY <1>1, BeginTracks DEF ApproveReadsTicket
<1>2. ASSUME NEW t \in Tickets,
             RejectReadsTicket(r, t) \/ RouteCancelReadsTicket(r, t) \/ CancelReads(r, t)
      PROVE  AllTrack'
  <2>1. \E kind \in {"reject", "routeCancel", "cancel"} : \E reading, rows, todo :
          Begin(r, kind, t, reading, rows, todo)
    BY <1>2 DEF RejectReadsTicket, RouteCancelReadsTicket, CancelReads
  <2> QED
    BY <2>1, BeginTracks
<1>3. ASSUME NEW t \in Tickets, NEW u \in Usages, NEW p \in Parts, NEW q \in Quantities,
             AddPartReads(r, t, u, p, q)
      PROVE  AllTrack'
  <2>1. \E kind \in {"addPart"} : \E rows, todo : Begin(r, kind, t, FALSE, rows, todo)
    BY <1>3 DEF AddPartReads
  <2> QED
    BY <2>1, BeginTracks
<1>4. ASSUME NEW t \in Tickets, NEW S \in SUBSET Usages, NEW item \in [S -> Parts \X Quantities],
             NEW kind \in {"create", "template"}, NEW approved,
             NewTicket(r, kind, t, S, item, approved)
      PROVE  AllTrack'
  <2>1. \E rows : Begin(r, kind, t, FALSE, rows, S)
    BY <1>4 DEF NewTicket
  <2> QED
    BY <2>1, BeginTracks
<1>5. ASSUME NEW u \in Usages, RemoveReads(r, u)
      PROVE  AllTrack'
  <2>1. \E kind \in {"remove"} : \E t, rows, todo : Begin(r, kind, t, FALSE, rows, todo)
    BY <1>5 DEF RemoveReads
  <2> QED
    BY <2>1, BeginTracks
<1> QED
  BY <1>1, <1>2, <1>3, <1>4, <1>5 DEF Arrives, CreateTicketOpens, TemplateOpens

\* The rows an approval reads are the rows it has to write, as they are; the
\* statements after that only move them from todo to done.
LEMMA StatementTracks ==
  ASSUME IInv, AllTrack, NEW r \in Requests,
         \/ ApproveOrRejectReadsPending(r) \/ RouteCancelReadsUsages(r)
         \/ \E u \in Usages : \/ CheckStock(r, u) \/ InsertUsage(r, u) \/ ApproveUsage(r, u)
                              \/ DeleteUsage(r, u) \/ RestockUsage(r, u)
  PROVE  AllTrack'
<1>1. UNCHANGED usage /\ \A x \in Requests : x # r => tx'[x] = tx[x]
  BY DEF ApproveOrRejectReadsPending, RouteCancelReadsUsages, ReadUsages, CheckStock,
     InsertUsage, ApproveUsage, DeleteUsage, RestockUsage, Write, db, IInv, Typed
<1>2. Open(r) /\ Tracks(r) /\ tx[r] \in Transaction
  BY DEF ApproveOrRejectReadsPending, RouteCancelReadsUsages, CheckStock,
     InsertUsage, ApproveUsage, DeleteUsage, RestockUsage, IInv, Typed, Records, Open,
     AllTrack
<1>3. CASE ApproveOrRejectReadsPending(r) \/ RouteCancelReadsUsages(r)
  <2>1. \E S \in SUBSET Usages : ReadUsages(r, S)
    BY <1>3 DEF ApproveOrRejectReadsPending, RouteCancelReadsUsages, PendingOf, UsagesOf
  <2>2. \E S \in SUBSET Usages : tx'[r].rows = Snapshot(S) /\ tx'[r].todo = S
    BY <1>2, <2>1 DEF ReadUsages, IInv, Typed, Transaction
  <2>3. Tracks(r)'
    BY <1>1, <2>2 DEF Tracks, Snapshot
  <2> QED
    BY <1>1, <2>3, StepTracks
<1>4. ASSUME NEW u \in Usages, \/ CheckStock(r, u) \/ InsertUsage(r, u) \/ ApproveUsage(r, u)
                               \/ DeleteUsage(r, u) \/ RestockUsage(r, u)
      PROVE  AllTrack'
  <2>1. /\ tx'[r].kind = tx[r].kind /\ tx'[r].rows = tx[r].rows
        /\ tx[r].todo \cup tx[r].done \subseteq tx'[r].todo \cup tx'[r].done
    <3>1. \/ CheckStock(r, u) \/ RestockUsage(r, u)
          \/ \E p, d, locks : Write(r, u, p, d, locks)
      BY <1>4 DEF InsertUsage, ApproveUsage, DeleteUsage
    <3> QED
      BY <1>2, <3>1, CheckRecord, WriteRecord, RestockRecord
  <2>2. Tracks(r)'
    BY <1>1, <1>2, <2>1 DEF Tracks
  <2> QED
    BY <1>1, <2>2, StepTracks
<1> QED
  BY <1>3, <1>4

\* Whatever another request commits, a row that was read pending was approved or
\* deleted by it, or is left as it was.
LEMMA CommitTracks ==
  ASSUME IInv, AllTrack, NEW r \in Requests, NEW kind \in Kinds, Commit(r, kind)
  PROVE  AllTrack'
<1> SUFFICES ASSUME NEW x \in Requests, Open(x)', tx'[x].kind = "approve",
                    NEW u \in Usages, tx'[x].rows[u] # NoRow
             PROVE  /\ u \in tx'[x].todo \cup tx'[x].done
                    /\ usage'[u] \in {tx'[x].rows[u], Approved(tx'[x].rows[u]), DeletedRow}
  BY DEF AllTrack, Tracks
<1> DEFINE row == tx[x].rows[u]
<1>1. tx'[x] = tx[x] /\ Open(x) /\ tx[x] \in Transaction /\ Coherent(tx[x])
  BY DEF Commit, Open, IInv, Typed, Records
<1>2. /\ u \in tx[x].todo \cup tx[x].done /\ row \in UsageRow
      /\ usage[u] \in {row, Approved(row), DeletedRow}
  BY <1>1 DEF AllTrack, Tracks, Coherent
<1>3. \/ usage'[u] = usage[u] \/ usage[u] = NoRow \/ usage'[u] = DeletedRow
      \/ Live(u) /\ usage'[u] = Approved(usage[u])
  BY CommitRows DEF Approved
<1>4. usage[u] # NoRow
  BY <1>2, ApprovedFacts, NullsAssumption
<1>5. Live(u) => usage[u] \in {row, Approved(row)}
  BY <1>2, NullsAssumption DEF Live
<1> QED
  BY <1>1, <1>2, <1>3, <1>4, <1>5, ApprovedFacts

LEMMA NextTracks ==
  ASSUME IInv, AllTrack, [Next]_vars
  PROVE  AllTrack'
<1>1. ASSUME NEW r \in Requests, Advances(r)
      PROVE  AllTrack'
  <2>1. CASE \E kind \in Kinds : Commit(r, kind)
    BY <2>1, CommitTracks
  <2> QED
    BY <1>1, <2>1, StatementTracks DEF Advances, ApproveCommits, RejectCommits,
       CancelCommits, RouteCancelCommits, RemoveCommits, AddPartCommits, CreateCommits,
       TemplateCommits
<1>2. ASSUME NEW r \in Requests, Stops(r)
      PROVE  AllTrack'
  <2>1. /\ UNCHANGED usage /\ ~Open(r)'
        /\ \A x \in Requests : x # r => tx'[x] = tx[x]
    BY <1>2 DEF Stops, HandlerFails, DeadlockVictim, Abandoned, Rollback, db, Open, IInv, Typed
  <2> QED
    BY <2>1, StepTracks
<1>3. CASE SingleStatement \/ UNCHANGED vars
  <2>1. UNCHANGED <<usage, tx>>
    BY <1>3 DEF vars, SingleStatement, RouteSetsStatus, RouteReopens, UpdateTicket, BulkUpdateTicketStatus,
       DeleteTicketRow, UpdatePart
  <2> QED
    BY <2>1 DEF AllTrack, Tracks, Open
<1> QED
  BY <1>1, <1>2, <1>3, ArrivesTracks DEF Next

\* An approval that commits approves every usage it read as pending, and each as
\* it read it, whatever was approved, deleted or added in between.
THEOREM ApprovesAllCorrect == Spec => ApprovesAllOrNothing
<1> DEFINE AllOrNothing ==
      \A r \in Requests : ApproveCommits(r) =>
        \A u \in Usages : tx[r].rows[u] # NoRow =>
          usage'[u] = [tx[r].rows[u] EXCEPT !.approved = TRUE]
<1>1. Init => AllTrack
  BY DEF Init, AllTrack, Open
<1>2. IInv /\ AllTrack /\ [Next]_vars => AllTrack'
  BY NextTracks
<1>3. IInv /\ AllTrack /\ [Next]_vars => [AllOrNothing]_vars
  <2> SUFFICES ASSUME IInv, AllTrack, NEW r \in Requests, ApproveCommits(r),
                      NEW u \in Usages, tx[r].rows[u] # NoRow
               PROVE  usage'[u] = [tx[r].rows[u] EXCEPT !.approved = TRUE]
    OBVIOUS
  <2> DEFINE row == tx[r].rows[u]
  <2>1. /\ Commit(r, "approve") /\ Open(r) /\ tx[r].kind = "approve" /\ tx[r].todo = {}
    BY DEF ApproveCommits, Commit
  <2>2. /\ u \in tx[r].done /\ row \in UsageRow
        /\ usage[u] \in {row, Approved(row), DeletedRow}
    BY <2>1 DEF AllTrack, Tracks, Coherent, IInv, Typed, Records, Open
  <2>3. Live(u) /\ usage'[u] = Approved(usage[u])
    BY <2>1, <2>2, CommitRows DEF Approved
  <2>4. usage[u] # DeletedRow
    BY <2>3, NullsAssumption DEF Live
  <2>5. usage'[u] = Approved(row)
    BY <2>2, <2>3, <2>4, ApprovedFacts
  <2> QED
    BY <2>5 DEF Approved
<1> QED
  BY <1>1, <1>2, <1>3, LedgerCorrect, PTL DEF Spec, ApprovesAllOrNothing

-----------------------------------------------------------------------------
(***************************************************************************)
(* StockFollowsUsages speaks of sums.  What a request has moved of a part  *)
(* is what it has moved for each of its rows of that part (AddsUp), and it *)
(* knows the part of each row, which nobody changes (KnowsParts).          *)
(***************************************************************************)
Effect(s, u, p) ==
  IF u \in s.done /\ s.rows[u].part = p
  THEN IF s.kind = "routeCancel" THEN s.rows[u].quantity ELSE -s.moved[u]
  ELSE 0
Effects(s, p) == [u \in Usages |-> Effect(s, u, p)]

AddsUp(s) == \A p \in Parts : s.delta[p] = SumFunctionOnSet(Effects(s, p), Usages)

KnowsParts(r) ==
  \A u \in Usages :
    /\ tx[r].rows[u] # NoRow => u \in tx[r].todo \cup tx[r].done
    /\ tx[r].kind \notin Inserting /\ u \in tx[r].todo \cup tx[r].done /\ Live(u) =>
         usage[u].part = tx[r].rows[u].part

Follows == \A r \in Requests : Open(r) => AddsUp(tx[r]) /\ KnowsParts(r)

\* What one row is charged, if it is of part p.
Share(u, p) == IF usage[u].part = p THEN ChargeOfRow(usage[u]) ELSE 0

LEMMA EffectType ==
  ASSUME NEW s \in Transaction, Coherent(s), NEW u \in Usages, NEW p
  PROVE  Effect(s, u, p) \in Int
  BY DeltaTypes DEF Effect, Transaction, Coherent

\* A request that has written nothing has moved nothing.
LEMMA NothingAdds ==
  ASSUME NEW s, s.done = {}, \A p \in Parts : s.delta[p] = 0
  PROVE  AddsUp(s)
<1> SUFFICES ASSUME NEW p \in Parts PROVE SumFunctionOnSet(Effects(s, p), Usages) = 0
  BY DEF AddsUp
<1>1. \A u \in Usages : Effects(s, p)[u] = 0
  BY DEF Effects, Effect
<1> QED
  BY <1>1, IdsAssumption, SumOfZeros

\* A statement adds to one part what it moves for one row of that part.
LEMMA StatementAdds ==
  ASSUME NEW s \in Transaction, NEW after \in Transaction, Coherent(s), Coherent(after),
         AddsUp(s), NEW u \in Usages, u \notin s.done, after.done = s.done \cup {u},
         after.kind = s.kind, after.rows = s.rows,
         \A v \in Usages : v # u => after.moved[v] = s.moved[v],
         NEW p0, p0 = s.rows[u].part,
         after.delta = [s.delta EXCEPT ![p0] = s.delta[p0] + Effect(after, u, p0)]
  PROVE  AddsUp(after)
<1> SUFFICES ASSUME NEW p \in Parts
             PROVE  after.delta[p] = SumFunctionOnSet(Effects(after, p), Usages)
  BY DEF AddsUp
<1> DEFINE f == Effects(s, p)
           h == Effects(after, p)
<1>1. \A v \in Usages : f[v] = Effect(s, v, p) /\ h[v] = Effect(after, v, p)
  BY DEF Effects
<1>2. \A v \in Usages : f[v] \in Int /\ h[v] \in Int
  BY <1>1, EffectType
<1>3. \A v \in Usages \ {u} : h[v] = f[v]
  BY <1>1 DEF Effect
<1>4. f[u] = 0 /\ h[u] = IF p = p0 THEN Effect(after, u, p0) ELSE 0
  BY <1>1 DEF Effect
<1> HIDE DEF f, h
<1>5. SumFunctionOnSet(h, Usages) = SumFunctionOnSet(f, Usages) + (h[u] - f[u])
  BY <1>2, <1>3, IdsAssumption, SumChanged
<1>6. s.delta \in [Parts -> Int] /\ s.delta[p] = SumFunctionOnSet(f, Usages)
  BY DEF AddsUp, Transaction, f
<1>7. after.delta[p] = s.delta[p] + (h[u] - f[u])
  BY <1>2, <1>4, <1>6
<1> QED
  BY <1>5, <1>6, <1>7 DEF h

\* A step that writes one request only has that request to answer for.
LEMMA StepFollows ==
  ASSUME IInv, Follows, NEW r \in Requests, UNCHANGED usage,
         \A x \in Requests : x # r => tx'[x] = tx[x],
         Open(r)' => AddsUp(tx'[r]) /\ KnowsParts(r)'
  PROVE  Follows'
<1> SUFFICES ASSUME NEW x \in Requests, Open(x)' PROVE AddsUp(tx'[x]) /\ KnowsParts(x)'
  BY DEF Follows, AddsUp, Effects, Effect
<1>1. CASE x # r
  BY <1>1 DEF Follows, KnowsParts, Open, Live
<1> QED
  BY <1>1

\* A request that begins has read its rows, or makes them up, and moved nothing.
LEMMA BeginFollows ==
  ASSUME IInv, Follows, NEW r \in Requests, NEW kind, NEW t, NEW reading, NEW rows, NEW todo,
         Begin(r, kind, t, reading, rows, todo),
         \A u \in Usages : rows[u] # NoRow => u \in todo,
         kind \in Inserting \/ \A u \in todo : rows[u] = usage[u]
  PROVE  Follows'
<1> DEFINE new == [kind |-> kind, ticket |-> t, seen |-> status[t], reading |-> reading,
                   rows |-> rows, todo |-> todo, checked |-> {}, done |-> {}, held |-> {},
                   delta |-> [p \in Parts |-> 0], moved |-> [u \in Usages |-> 0]]
<1>1. tx' = [tx EXCEPT ![r] = new] /\ UNCHANGED usage
  BY DEF Begin, db
<1>2. /\ new.done = {} /\ \A p \in Parts : new.delta[p] = 0
      /\ new.kind = kind /\ new.rows = rows /\ new.todo = todo
  OBVIOUS
<1> HIDE DEF new
<1>3. tx'[r] = new /\ \A x \in Requests : x # r => tx'[x] = tx[x]
  BY <1>1 DEF IInv, Typed
<1>4. AddsUp(new)
  BY <1>2, NothingAdds
<1>5. KnowsParts(r)'
  BY <1>1, <1>2, <1>3 DEF KnowsParts
<1> QED
  BY <1>1, <1>3, <1>4, <1>5, StepFollows

LEMMA ArrivesFollows ==
  ASSUME IInv, Follows, NEW r \in Requests, Arrives(r)
  PROVE  Follows'
<1>1. ASSUME NEW t \in Tickets, NEW u \in Usages, NEW p \in Parts, NEW q \in Quantities,
             AddPartReads(r, t, u, p, q)
      PROVE  Follows'
  <2> DEFINE rows == [NothingNew EXCEPT ![u] =
                        [ticket |-> t, part |-> p, quantity |-> q, approved |-> FALSE]]
  <2>1. \A v \in Usages : rows[v] # NoRow => v \in {u}
    BY DEF NothingNew
  <2>2. Begin(r, "addPart", t, FALSE, rows, {u})
    BY <1>1 DEF AddPartReads
  <2> HIDE DEF rows
  <2> QED
    BY <2>1, <2>2, BeginFollows
<1>2. ASSUME NEW t \in Tickets, NEW S \in SUBSET Usages, NEW item \in [S -> Parts \X Quantities],
             NEW kind \in Inserting, NEW approved, NewTicket(r, kind, t, S, item, approved)
      PROVE  Follows'
  <2> DEFINE rows == [u \in Usages |-> IF u \in S
                        THEN [ticket |-> t, part |-> item[u][1], quantity |-> item[u][2],
                              approved |-> approved]
                        ELSE NoRow]
  <2>1. \A v \in Usages : rows[v] # NoRow => v \in S
    OBVIOUS
  <2>2. Begin(r, kind, t, FALSE, rows, S)
    BY <1>2 DEF NewTicket
  <2> HIDE DEF rows
  <2> QED
    BY <2>1, <2>2, BeginFollows
<1>3. ASSUME NEW t \in Tickets,
             ApproveReadsTicket(r, t) \/ RejectReadsTicket(r, t) \/ RouteCancelReadsTicket(r, t)
      PROVE  Follows'
  <2>1. \A v \in Usages : NothingNew[v] = NoRow
    BY DEF NothingNew
  <2> QED
    BY <1>3, <2>1, BeginFollows DEF ApproveReadsTicket, RejectReadsTicket, RouteCancelReadsTicket
<1>4. ASSUME NEW kind, NEW t, NEW S \in SUBSET Usages, Begin(r, kind, t, FALSE, Snapshot(S), S)
      PROVE  Follows'
  <2>1. \A v \in Usages : Snapshot(S)[v] = IF v \in S THEN usage[v] ELSE NoRow
    BY DEF Snapshot
  <2>2. /\ \A v \in Usages : Snapshot(S)[v] # NoRow => v \in S
        /\ \A v \in S : Snapshot(S)[v] = usage[v]
    BY <2>1
  <2> QED
    BY <1>4, <2>2, BeginFollows
<1>5. ASSUME NEW t \in Tickets, CancelReads(r, t)
      PROVE  Follows'
  <2>1. (IF status[t] = "CANCELLED" THEN {} ELSE UsagesOf(t)) \in SUBSET Usages
    BY DEF UsagesOf
  <2> QED
    BY <1>4, <1>5, <2>1 DEF CancelReads
<1>6. ASSUME NEW u \in Usages, RemoveReads(r, u)
      PROVE  Follows'
  BY <1>4, <1>6 DEF RemoveReads
<1> QED
  BY <1>1, <1>2, <1>3, <1>5, <1>6 DEF Arrives, CreateTicketOpens, TemplateOpens

\* The statements before a commit: what is read is read as it is, and each write
\* adds up.
LEMMA ReadFollows ==
  ASSUME IInv, Follows, NEW r \in Requests, NEW S \in SUBSET Usages, ReadUsages(r, S),
         tx[r].kind \notin Inserting
  PROVE  Follows'
<1>1. /\ tx[r] \in Transaction /\ Coherent(tx[r]) /\ Open(r) /\ AddsUp(tx[r])
      /\ tx[r].reading /\ UNCHANGED usage
  BY DEF ReadUsages, IInv, Typed, Records, Open, Follows, db
<1> DEFINE after == [tx[r] EXCEPT !.reading = FALSE, !.rows = Snapshot(S), !.todo = S]
<1>2. /\ after.done = {} /\ tx[r].done = {} /\ after.delta = tx[r].delta
      /\ after.kind = tx[r].kind /\ after.rows = Snapshot(S) /\ after.todo = S
  BY <1>1 DEF Coherent, Transaction
<1>3. tx' = [tx EXCEPT ![r] = after]
  BY DEF ReadUsages
<1> HIDE DEF after
<1>4. tx'[r] = after /\ \A x \in Requests : x # r => tx'[x] = tx[x]
  BY <1>3 DEF IInv, Typed
<1>5. \A p \in Parts : after.delta[p] = 0
  <2> SUFFICES ASSUME NEW p \in Parts PROVE SumFunctionOnSet(Effects(tx[r], p), Usages) = 0
    BY <1>1, <1>2 DEF AddsUp
  <2>1. \A u \in Usages : Effects(tx[r], p)[u] = 0
    BY <1>2 DEF Effects, Effect
  <2> QED
    BY <2>1, IdsAssumption, SumOfZeros
<1>6. AddsUp(after)
  BY <1>2, <1>5, NothingAdds
<1>7. KnowsParts(r)'
  BY <1>1, <1>2, <1>4 DEF KnowsParts, Snapshot, Live
<1> QED
  BY <1>1, <1>4, <1>6, <1>7, StepFollows

LEMMA WriteFollows ==
  ASSUME IInv, Follows, NEW r \in Requests, Open(r), tx[r].kind # "routeCancel",
         NEW u \in tx[r].todo, NEW d \in Int, NEW locks, NEW p,
         p = tx[r].rows[u].part, Write(r, u, p, d, locks), Typed'
  PROVE  Follows'
<1> DEFINE s == tx[r]
           after == [s EXCEPT !.todo = s.todo \ {u},
                              !.done = s.done \cup {u},
                              !.held = IF locks THEN s.held \cup {p} ELSE s.held,
                              !.delta = [s.delta EXCEPT ![p] = s.delta[p] + d],
                              !.moved = [s.moved EXCEPT ![u] = -d]]
<1>1. /\ u \in Usages /\ u \notin s.done /\ s \in Transaction /\ Coherent(s)
      /\ AddsUp(s) /\ KnowsParts(r)
  BY TodoFacts DEF IInv, Follows
<1>2. tx' = [tx EXCEPT ![r] = after] /\ UNCHANGED usage
  BY DEF Write, db
<1>3. /\ after.todo = s.todo \ {u} /\ after.done = s.done \cup {u}
      /\ after.kind = s.kind /\ after.rows = s.rows
      /\ after.moved = [s.moved EXCEPT ![u] = -d]
      /\ after.delta = [s.delta EXCEPT ![p] = s.delta[p] + d]
  BY <1>1 DEF Transaction
<1>4. after \in Transaction
  <2>1. p \in Parts
    BY DeltaTypes, TodoFacts DEF IInv
  <2>2. /\ [s.delta EXCEPT ![p] = s.delta[p] + d] \in [Parts -> Int]
        /\ [s.moved EXCEPT ![u] = -d] \in [Usages -> Int]
    BY <1>1, <2>1 DEF Transaction
  <2> QED
    BY <1>1, <2>1, <2>2 DEF Transaction
<1> HIDE DEF after
<1>5. tx'[r] = after /\ \A x \in Requests : x # r => tx'[x] = tx[x]
  BY <1>2 DEF IInv, Typed
<1>6. Coherent(after)
  BY <1>5, <1>4, NullsAssumption DEF Typed, Records
<1>7. after.moved[u] = -d /\ \A v \in Usages : v # u => after.moved[v] = s.moved[v]
  BY <1>1, <1>3 DEF Transaction
<1>8. AddsUp(after)
  <2>1. Effect(after, u, p) = -(-d)
    BY <1>3, <1>7 DEF Effect
  <2>2. /\ after.delta = [s.delta EXCEPT ![p] = s.delta[p] + Effect(after, u, p)]
        /\ p = s.rows[u].part
    BY <1>3, <2>1
  <2>3. /\ s \in Transaction /\ Coherent(s) /\ AddsUp(s) /\ u \in Usages /\ u \notin s.done
        /\ after \in Transaction /\ Coherent(after) /\ after.done = s.done \cup {u}
        /\ after.kind = s.kind /\ after.rows = s.rows
    BY <1>1, <1>3, <1>4, <1>6
  <2>4. \A v \in Usages : v # u => after.moved[v] = s.moved[v]
    BY <1>7
  <2> HIDE DEF s
  <2> QED
    BY ONLY <2>2, <2>3, <2>4, StatementAdds
<1>9. KnowsParts(r)'
  BY <1>1, <1>2, <1>3, <1>5 DEF KnowsParts, Live
<1> QED
  BY <1>2, <1>5, <1>8, <1>9, StepFollows

\* The route's increments are for the rows it read.
LEMMA RestockFollows ==
  ASSUME IInv, Follows, NEW r \in Requests, NEW u \in Usages, RestockUsage(r, u)
  PROVE  Follows'
<1> DEFINE s == tx[r]
           p == s.rows[u].part
           d == s.rows[u].quantity
           after == [s EXCEPT !.todo = s.todo \ {u},
                              !.done = s.done \cup {u},
                              !.held = s.held \cup {p},
                              !.delta = [s.delta EXCEPT ![p] = s.delta[p] + d]]
<1>1. /\ Open(r) /\ u \in s.todo /\ s.kind = "routeCancel"
      /\ u \notin s.done /\ s \in Transaction /\ Coherent(s) /\ s.rows[u] \in UsageRow
      /\ AddsUp(s) /\ KnowsParts(r)
  BY TodoFacts DEF RestockUsage, IInv, Follows
<1>2. tx' = [tx EXCEPT ![r] = after] /\ UNCHANGED usage
  BY DEF RestockUsage, db
<1>3. /\ after.todo = s.todo \ {u} /\ after.done = s.done \cup {u}
      /\ after.kind = s.kind /\ after.rows = s.rows /\ after.moved = s.moved
      /\ after.delta = [s.delta EXCEPT ![p] = s.delta[p] + d]
  BY <1>1 DEF Transaction
<1>4. p \in Parts /\ d \in Int
  BY <1>1, DeltaTypes
<1>5. after \in Transaction
  <2>1. [s.delta EXCEPT ![p] = s.delta[p] + d] \in [Parts -> Int]
    BY <1>1, <1>4 DEF Transaction
  <2> QED
    BY <1>1, <1>4, <2>1 DEF Transaction
<1> HIDE DEF after
<1>6. tx'[r] = after /\ \A x \in Requests : x # r => tx'[x] = tx[x]
  BY <1>2 DEF IInv, Typed
<1>7. Coherent(after)
  BY <1>5, <1>6, NullsAssumption, RestockTyped DEF IInv, Typed, Records
<1>8. AddsUp(after)
  <2>1. Effect(after, u, p) = d
    BY <1>1, <1>3 DEF Effect
  <2>2. after.delta = [s.delta EXCEPT ![p] = s.delta[p] + Effect(after, u, p)]
    BY <1>3, <2>1
  <2> QED
    BY <1>1, <1>3, <1>5, <1>7, <2>2, StatementAdds
<1>9. KnowsParts(r)'
  BY <1>1, <1>2, <1>3, <1>6 DEF KnowsParts, Live
<1> QED
  BY <1>2, <1>6, <1>8, <1>9, StepFollows

LEMMA StatementFollows ==
  ASSUME IInv, Follows, NEW r \in Requests,
         \/ ApproveOrRejectReadsPending(r) \/ RouteCancelReadsUsages(r)
         \/ \E u \in Usages : \/ CheckStock(r, u) \/ InsertUsage(r, u) \/ ApproveUsage(r, u)
                              \/ DeleteUsage(r, u) \/ RestockUsage(r, u)
  PROVE  Follows'
<1>1. CASE ApproveOrRejectReadsPending(r) \/ RouteCancelReadsUsages(r)
  <2>1. tx[r].kind \notin Inserting /\ \E S \in SUBSET Usages : ReadUsages(r, S)
    BY <1>1 DEF ApproveOrRejectReadsPending, RouteCancelReadsUsages, PendingOf, UsagesOf
  <2> QED
    BY <2>1, ReadFollows
<1>2. ASSUME NEW u \in Usages, CheckStock(r, u)
      PROVE  Follows'
  <2>1. /\ Open(r) /\ tx[r] \in Transaction /\ AddsUp(tx[r]) /\ KnowsParts(r)
        /\ tx' = [tx EXCEPT ![r] = [tx[r] EXCEPT !.checked = tx[r].checked \cup {u}]]
        /\ UNCHANGED usage
    BY <1>2 DEF CheckStock, IInv, Typed, Records, Open, Follows, db
  <2>2. /\ tx'[r].kind = tx[r].kind /\ tx'[r].rows = tx[r].rows /\ tx'[r].todo = tx[r].todo
        /\ tx'[r].done = tx[r].done /\ tx'[r].delta = tx[r].delta
        /\ tx'[r].moved = tx[r].moved
        /\ \A x \in Requests : x # r => tx'[x] = tx[x]
    BY <2>1 DEF IInv, Typed, Transaction
  <2>3. AddsUp(tx'[r])
    BY <2>1, <2>2 DEF AddsUp, Effects, Effect
  <2>4. KnowsParts(r)'
    BY <2>1, <2>2 DEF KnowsParts, Live
  <2> QED
    BY <2>1, <2>2, <2>3, <2>4, StepFollows
<1>3. ASSUME NEW u \in Usages, InsertUsage(r, u)
      PROVE  Follows'
  <2> DEFINE new == tx[r].rows[u]
  <2>1. Open(r) /\ u \in tx[r].todo /\ tx[r].kind # "routeCancel" /\ new \in UsageRow
    BY <1>3, TodoFacts DEF InsertUsage, IInv
  <2>2. Write(r, u, new.part, InsertDelta(new), LocksPart(SyncOnInsert(new)))
    BY <1>3 DEF InsertUsage
  <2>3. InsertDelta(new) \in Int /\ Typed'
    BY <1>3, <2>1, DeltaTypes, InsertTyped DEF IInv
  <2> HIDE DEF new
  <2> QED
    BY <2>1, <2>2, <2>3, WriteFollows DEF new
<1>4. ASSUME NEW u \in Usages, ApproveUsage(r, u)
      PROVE  Follows'
  <2> DEFINE old == usage[u]
             new == [old EXCEPT !.approved = TRUE]
  <2>1. /\ Open(r) /\ u \in tx[r].todo /\ tx[r].kind = "approve"
        /\ old \in UsageRow /\ new \in UsageRow /\ old.part = tx[r].rows[u].part
    BY <1>4, ApprovedIsRow DEF ApproveUsage, Live, Follows, KnowsParts
  <2>2. Write(r, u, old.part, UpdateDelta(old, new), LocksPart(SyncOnUpdate(old, new)))
    BY <1>4 DEF ApproveUsage
  <2>3. UpdateDelta(old, new) \in Int /\ Typed'
    BY <1>4, <2>1, DeltaTypes, ApproveTyped DEF IInv
  <2> HIDE DEF old, new
  <2> QED
    BY <2>1, <2>2, <2>3, WriteFollows
<1>5. ASSUME NEW u \in Usages, DeleteUsage(r, u)
      PROVE  Follows'
  <2> DEFINE old == usage[u]
  <2>1. /\ Open(r) /\ u \in tx[r].todo /\ tx[r].kind \in Deleting
        /\ old \in UsageRow /\ old.part = tx[r].rows[u].part
    BY <1>5 DEF DeleteUsage, Live, Follows, KnowsParts
  <2>2. Write(r, u, old.part, DeleteDelta(old), LocksPart(SyncOnDelete(old)))
    BY <1>5 DEF DeleteUsage
  <2>3. DeleteDelta(old) \in Int /\ Typed'
    BY <1>5, <2>1, DeltaTypes, DeleteTyped DEF IInv
  <2> HIDE DEF old
  <2> QED
    BY <2>1, <2>2, <2>3, WriteFollows
<1> QED
  BY <1>1, <1>2, <1>3, <1>4, <1>5, RestockFollows

\* Nobody changes the part of a row, so what others know of their rows stays true.
LEMMA CommitFollows ==
  ASSUME IInv, Follows, NEW r \in Requests, NEW kind \in Kinds, Commit(r, kind)
  PROVE  Follows'
<1> SUFFICES ASSUME NEW x \in Requests, Open(x)' PROVE AddsUp(tx'[x]) /\ KnowsParts(x)'
  BY DEF Follows, AddsUp, Effects, Effect
<1>1. tx'[x] = tx[x] /\ Open(x) /\ x # r
  BY DEF Commit, Open, IInv, Typed
<1>2. AddsUp(tx'[x]) /\ KnowsParts(x) /\ Fresh(x)
  BY <1>1 DEF Follows, IInv, Ledger
<1>3. ASSUME NEW u \in Usages, usage[u] # NoRow, Live(u)'
      PROVE  Live(u) /\ usage'[u].part = usage[u].part
  <2>1. \/ usage'[u] = usage[u] \/ usage'[u] = DeletedRow
        \/ usage[u] \in UsageRow /\ usage'[u] = [usage[u] EXCEPT !.approved = TRUE]
    BY ONLY IInv, r \in Requests, kind \in Kinds, Commit(r, kind), u \in Usages,
       usage[u] # NoRow, CommitRows DEF Live
  <2>2. usage'[u] \in UsageRow /\ usage'[u] # DeletedRow
    BY <1>3, NullsAssumption DEF Live
  <2> QED
    BY <2>1, <2>2 DEF Live, UsageRow
<1>4. KnowsParts(x)'
  BY <1>1, <1>2, <1>3 DEF KnowsParts, Fresh
<1> QED
  BY <1>2, <1>4

LEMMA NextFollows ==
  ASSUME IInv, Follows, [Next]_vars
  PROVE  Follows'
<1>1. ASSUME NEW r \in Requests, Advances(r)
      PROVE  Follows'
  <2>1. CASE \E kind \in Kinds : Commit(r, kind)
    BY <2>1, CommitFollows
  <2> QED
    BY <1>1, <2>1, StatementFollows DEF Advances, ApproveCommits, RejectCommits,
       CancelCommits, RouteCancelCommits, RemoveCommits, AddPartCommits, CreateCommits,
       TemplateCommits
<1>2. ASSUME NEW r \in Requests, Stops(r)
      PROVE  Follows'
  <2>1. /\ UNCHANGED usage /\ ~Open(r)'
        /\ \A x \in Requests : x # r => tx'[x] = tx[x]
    BY <1>2 DEF Stops, HandlerFails, DeadlockVictim, Abandoned, Rollback, db, Open, IInv, Typed
  <2> QED
    BY <2>1, StepFollows
<1>3. CASE SingleStatement \/ UNCHANGED vars
  <2>1. UNCHANGED <<usage, tx>>
    BY <1>3 DEF vars, SingleStatement, RouteSetsStatus, RouteReopens, UpdateTicket, BulkUpdateTicketStatus,
       DeleteTicketRow, UpdatePart
  <2> QED
    BY <2>1 DEF Follows, AddsUp, Effects, Effect, KnowsParts, Open, Live
<1> QED
  BY <1>1, <1>2, <1>3, ArrivesFollows DEF Next

\* What usages have taken is a number of units, the sum of their shares.
LEMMA TakenSum ==
  ASSUME IInv, NEW p
  PROVE  /\ \A u \in Usages : Share(u, p) \in Int
         /\ Taken(p) = SumFunctionOnSet([u \in Usages |-> Share(u, p)], Usages)
         /\ Taken(p) \in Int
<1>1. \A u \in Usages : Share(u, p) \in Int
  BY ChargeOfRowType DEF Share
<1>2. Taken(p) = SumFunctionOnSet([u \in Usages |-> Share(u, p)], Usages)
  BY DEF Taken, Share, ChargeOfRow, Live, SumFunction
<1> DEFINE f == [u \in Usages |-> Share(u, p)]
<1>3. \A u \in Usages : f[u] \in Int
  BY <1>1
<1> HIDE DEF f
<1>4. SumFunctionOnSet(f, Usages) \in Int
  BY <1>3, IdsAssumption, SumType
<1> QED
  BY <1>1, <1>2, <1>4 DEF f

\* What a commit has moved for a row is what the row's share changes by.
LEMMA CommitShares ==
  ASSUME IInv, Follows, NEW r \in Requests, NEW kind \in Kinds \ {"routeCancel"},
         Commit(r, kind), NEW p, NEW u \in Usages
  PROVE  Effect(tx[r], u, p) = Share(u, p) - Share(u, p)'
<1>1. /\ tx[r].kind = kind /\ Coherent(tx[r]) /\ Open(r) /\ Moves(r) /\ KnowsParts(r)
      /\ tx[r] \in Transaction
  BY CommitRows DEF Commit, IInv, Ledger, Follows
<1>2. Share(u, p) \in Int
  BY ChargeOfRowType DEF Share
<1>3. CASE u \notin tx[r].done
  <2>1. usage'[u] = usage[u]
    BY <1>3, CommitRows
  <2> QED
    BY <1>2, <1>3, <2>1 DEF Effect, Share
<1>4. CASE u \in tx[r].done
  <2> DEFINE row == tx[r].rows[u]
             moved == tx[r].moved[u]
  <2>1. usage'[u] = Written(r, u) /\ row \in UsageRow
    BY <1>1, <1>4, CommitRows DEF Coherent
  <2>2. moved = ChargeOfRow(usage'[u]) - ChargeOfRow(usage[u])
    BY <1>1, <1>4, <2>1 DEF Moves
  <2>3. \A x : ChargeOfRow(x) \in Int
    BY ChargeOfRowType
  <2>4. (Live(u) => usage[u].part = row.part) /\ (Live(u)' => usage'[u].part = row.part)
    <3>1. CASE kind \in Inserting
      <4>1. usage[u] = NoRow /\ usage'[u] = row
        BY <1>1, <1>4, <3>1, CommitRows DEF Written
      <4> QED
        BY <4>1, NullsAssumption DEF Live
    <3>2. CASE kind \in Deleting
      <4>1. usage'[u] = DeletedRow
        BY <1>1, <1>4, <3>2, CommitRows
      <4> QED
        BY <1>1, <1>4, <3>2, <4>1, NullsAssumption DEF Live, KnowsParts
    <3>3. CASE kind = "approve"
      <4>1. Live(u) /\ usage'[u] = [usage[u] EXCEPT !.approved = TRUE]
        BY <1>1, <1>4, <3>3, CommitRows
      <4>2. usage[u].part = row.part
        BY <1>1, <1>4, <3>3, <4>1 DEF KnowsParts
      <4> QED
        BY <4>1, <4>2 DEF Live, UsageRow
    <3> QED
      BY <3>1, <3>2, <3>3
  <2>5. /\ Share(u, p) = IF row.part = p THEN ChargeOfRow(usage[u]) ELSE 0
        /\ Share(u, p)' = IF row.part = p THEN ChargeOfRow(usage'[u]) ELSE 0
    BY <2>4 DEF Share, Live, ChargeOfRow
  <2>6. Effect(tx[r], u, p) = IF row.part = p THEN -moved ELSE 0
    BY <1>1, <1>4 DEF Effect
  <2> HIDE DEF row, moved
  <2>7. ChargeOfRow(usage[u]) \in Int /\ ChargeOfRow(usage'[u]) \in Int
    BY <2>3
  <2> QED
    BY <2>2, <2>5, <2>6, <2>7
<1> QED
  BY <1>3, <1>4

\* So the stock moves by what the shares of all rows change by.
LEMMA CommitMovesStock ==
  ASSUME IInv, Follows, IInv', NEW r \in Requests, NEW kind \in Kinds \ {"routeCancel"},
         Commit(r, kind), NEW p \in Parts
  PROVE  stock'[p] = stock[p] + Taken(p) - Taken(p)'
<1> DEFINE f == Effects(tx[r], p)
           g == [u \in Usages |-> Share(u, p)]
           h == [u \in Usages |-> Share(u, p)']
<1>1. /\ \A u \in Usages : g[u] \in Int
      /\ Taken(p) = SumFunctionOnSet(g, Usages) /\ Taken(p) \in Int
  BY TakenSum
<1>2. /\ \A u \in Usages : h[u] \in Int
      /\ Taken(p)' = SumFunctionOnSet(h, Usages) /\ Taken(p)' \in Int
  <2>1. \A u \in Usages : Share(u, p)' \in Int
    BY ChargeOfRowType DEF Share
  <2>2. Taken(p)' = SumFunctionOnSet(h, Usages)
    BY DEF Taken, Share, ChargeOfRow, Live, SumFunction
  <2>3. \A u \in Usages : h[u] \in Int
    BY <2>1
  <2> HIDE DEF h
  <2> QED
    BY <2>2, <2>3, IdsAssumption, SumType
<1>3. \A u \in Usages : f[u] = g[u] - h[u]
  BY CommitShares DEF Effects
<1>4. stock'[p] = stock[p] + SumFunctionOnSet(f, Usages)
  BY DEF Commit, OnHand, Follows, AddsUp
<1> HIDE DEF f, g, h
<1>5. SumFunctionOnSet(f, Usages) = SumFunctionOnSet(g, Usages) - SumFunctionOnSet(h, Usages)
  BY <1>1, <1>2, <1>3, IdsAssumption, SumDifference
<1>6. stock[p] \in Int
  BY DEF IInv, Typed, TypeOK
<1> QED
  BY <1>1, <1>2, <1>4, <1>5, <1>6

\* The route's cancel adds the quantities of the rows it read.
LEMMA RouteCancelMovesStock ==
  ASSUME IInv, Follows, NEW r \in Requests, RouteCancelCommits(r), NEW p \in Parts
  PROVE  stock'[p] = stock[p] + Restocked(r, p)
<1>1. /\ Open(r) /\ Coherent(tx[r]) /\ KnowsParts(r) /\ AddsUp(tx[r])
      /\ tx[r].kind = "routeCancel" /\ tx[r].todo = {} /\ Commit(r, "routeCancel")
  BY DEF RouteCancelCommits, Commit, IInv, Typed, Records, Open, Follows
<1> DEFINE f == Effects(tx[r], p)
           g == [u \in Usages |-> LET row == tx[r].rows[u]
                                  IN IF row # NoRow /\ row.part = p THEN row.quantity ELSE 0]
<1>2. \A u \in Usages : u \in tx[r].done <=> tx[r].rows[u] # NoRow
  BY <1>1, NullsAssumption DEF KnowsParts, Coherent
<1>3. f = g
  BY <1>1, <1>2 DEF Effects, Effect
<1>4. Restocked(r, p) = SumFunctionOnSet(g, Usages)
  BY DEF Restocked, SumFunction
<1> QED
  BY <1>1, <1>3, <1>4 DEF Commit, OnHand, AddsUp

\* No other step but the part form moves the stock.
LEMMA OnlyCommitsMove ==
  ASSUME Next
  PROVE  \/ UNCHANGED <<usage, stock>>
         \/ \E p \in Parts, n \in StockCounts : UpdatePart(p, n)
         \/ \E r \in Requests : RouteCancelCommits(r)
         \/ \E r \in Requests, kind \in Kinds \ {"routeCancel"} : Commit(r, kind)
<1>1. ASSUME NEW r \in Requests, Arrives(r)
      PROVE  UNCHANGED <<usage, stock>>
  BY <1>1 DEF Arrives, ApproveReadsTicket, RejectReadsTicket, RouteCancelReadsTicket,
     CancelReads, AddPartReads, CreateTicketOpens, TemplateOpens, NewTicket,
     RemoveReads, Begin, db
<1>2. ASSUME NEW r \in Requests,
             \/ ApproveOrRejectReadsPending(r) \/ RouteCancelReadsUsages(r)
             \/ \E u \in Usages : \/ CheckStock(r, u) \/ InsertUsage(r, u) \/ ApproveUsage(r, u)
                                  \/ DeleteUsage(r, u) \/ RestockUsage(r, u)
      PROVE  UNCHANGED <<usage, stock>>
  BY <1>2 DEF ApproveOrRejectReadsPending, RouteCancelReadsUsages, ReadUsages,
     CheckStock, InsertUsage, ApproveUsage, DeleteUsage, RestockUsage, Write, db
<1>3. ASSUME NEW r \in Requests,
             \/ ApproveCommits(r) \/ RejectCommits(r) \/ CancelCommits(r)
             \/ RemoveCommits(r) \/ AddPartCommits(r)
             \/ CreateCommits(r) \/ TemplateCommits(r)
      PROVE  \E kind \in Kinds \ {"routeCancel"} : Commit(r, kind)
  BY <1>3 DEF ApproveCommits, RejectCommits, CancelCommits, RemoveCommits, AddPartCommits,
     CreateCommits, TemplateCommits
<1>4. ASSUME NEW r \in Requests, Stops(r)
      PROVE  UNCHANGED <<usage, stock>>
  BY <1>4 DEF Stops, HandlerFails, DeadlockVictim, Abandoned, Rollback, db
<1>5. CASE SingleStatement
  BY <1>5 DEF SingleStatement, RouteSetsStatus, RouteReopens, UpdateTicket, BulkUpdateTicketStatus,
     DeleteTicketRow
<1> QED
  BY <1>1, <1>2, <1>3, <1>4, <1>5 DEF Next, Advances

\* The stock of a part moves by exactly what its usages take or give back, or is
\* counted anew in the part form, or given back by the route's cancel for the
\* usages it read: no move is lost, and none is counted twice.
THEOREM StockFollowsCorrect == Spec => StockFollowsUsages
<1> DEFINE Moved(p) ==
      \/ stock'[p] = stock[p] + Taken(p) - Taken(p)'
      \/ \E n \in StockCounts : UpdatePart(p, n)
      \/ \E r \in Requests : RouteCancelCommits(r) /\ stock'[p] = stock[p] + Restocked(r, p)
<1>1. Init => Follows
  BY DEF Init, Follows, Open
<1>2. IInv /\ Follows /\ [Next]_vars => Follows'
  BY NextFollows
<1>3. IInv /\ Follows /\ [Next]_vars => [\A p \in Parts : Moved(p)]_vars
  <2> SUFFICES ASSUME IInv, Follows, Next, NEW p \in Parts PROVE Moved(p)
    BY DEF vars
  <2>1. ASSUME usage' = usage, stock'[p] = stock[p] PROVE Moved(p)
    <3>1. Taken(p)' = Taken(p)
      BY <2>1 DEF Taken, Live
    <3>2. stock[p] \in Int /\ Taken(p) \in Int
      BY TakenSum DEF IInv, Typed, TypeOK
    <3>3. stock[p] = stock[p] + Taken(p) - Taken(p)
      BY <3>2
    <3> QED
      BY <2>1, <3>1, <3>3
  <2>2. ASSUME NEW q \in Parts, NEW n \in StockCounts, UpdatePart(q, n) PROVE Moved(p)
    <3>1. usage' = usage /\ (q # p => stock'[p] = stock[p])
      BY <2>2 DEF UpdatePart, IInv, Typed, TypeOK
    <3> QED
      BY <2>1, <2>2, <3>1
  <2>3. ASSUME NEW r \in Requests, RouteCancelCommits(r) PROVE Moved(p)
    BY <2>3, RouteCancelMovesStock
  <2>4. ASSUME NEW r \in Requests, NEW kind \in Kinds \ {"routeCancel"}, Commit(r, kind)
        PROVE  Moved(p)
    <3>1. IInv'
      BY NextLedger
    <3> QED
      BY <2>4, <3>1, CommitMovesStock
  <2> QED
    BY <2>1, <2>2, <2>3, <2>4, OnlyCommitsMove
<1> QED
  BY <1>1, <1>2, <1>3, LedgerCorrect, PTL DEF Spec, StockFollowsUsages
=============================================================================
