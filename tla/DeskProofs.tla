----------------------------- MODULE DeskProofs -----------------------------
(* Proofs about Desk: its types, and that ticket numbers are unique.  Proofs  *)
(* about Alerts, which works over the desk's tickets: its types, and what it  *)
(* takes for a technician to be told twice in a day.                          *)
EXTENDS Alerts, FiniteSetTheorems, FunctionTheorems, TLAPS

\* Tickets a request has inserted, each under a number of its own, are seen by no
\* one else, and their numbers are not given to others.
OwnDraws(r) ==
  Does(r, "creates") =>
    /\ \A t \in Tickets : request[r].number[t] > 0 =>
         /\ ticket[t] = NoTicket
         /\ request[r].number[t] \notin Numbers
    /\ \A t, u \in Tickets :
         request[r].number[t] > 0 /\ request[r].number[t] = request[r].number[u] => t = u

Apart(q, r) ==
  q # r /\ Does(q, "creates") /\ Does(r, "creates") =>
    \A t, u \in Tickets :
      request[q].number[t] > 0 /\ request[r].number[u] > 0 =>
        /\ t # u
        /\ request[q].number[t] # request[r].number[u]

DrawsInv ==
  /\ \A r \in Requests : OwnDraws(r)
  /\ \A q, r \in Requests : Apart(q, r)

DeskInv ==
  /\ DeskTypeOK
  /\ DrawsInv
  /\ TicketNumbersUnique

-----------------------------------------------------------------------------
(* Numbers. *)

\* Some number of the set, or zero, is the highest.
HasHighest(U) == \E n \in U \cup {0} : \A m \in U \cup {0} : m <= n

\* A finite set of numbers has a highest: of those that had none, a smallest one
\* would have none without one of its members either.
LEMMA FiniteSetHasHighest ==
  ASSUME NEW S, IsFiniteSet(S), S \subseteq Nat
  PROVE  HasHighest(S)
<1> DEFINE R == StrictSubsetOrdering(S)
           Bad == {U \in FiniteSubsetsOf(S) : ~HasHighest(U)}
<1>1. S \in FiniteSubsetsOf(S)
  BY DEF FiniteSubsetsOf
<1>2. SUFFICES ASSUME Bad # {} PROVE FALSE
  BY <1>1
<1>3. IsWellFoundedOn(R, FiniteSubsetsOf(S))
  BY FS_StrictSubsetOrderingWellFounded
<1>4. PICK U \in Bad : \A V \in Bad : <<V, U>> \notin R
  <2>1. Bad \subseteq FiniteSubsetsOf(S)
    OBVIOUS
  <2> HIDE DEF R, Bad
  <2> QED
    BY <1>2, <1>3, <2>1, WFMin
<1>5. U \subseteq Nat /\ IsFiniteSet(U) /\ U \subseteq S /\ ~HasHighest(U)
  BY DEF FiniteSubsetsOf
<1>6. PICK x \in U : TRUE
  BY <1>5 DEF HasHighest
<1> DEFINE V == U \ {x}
<1>7. IsFiniteSet(V) /\ V \subseteq S /\ V # U /\ V \subseteq U
  BY <1>5, FS_RemoveElement
<1>8. V \in FiniteSubsetsOf(S) /\ <<V, U>> \in R
  BY <1>5, <1>7 DEF FiniteSubsetsOf, StrictSubsetOrdering
<1>9. PICK n \in V \cup {0} : \A m \in V \cup {0} : m <= n
  BY <1>4, <1>8 DEF HasHighest
<1>10. n \in Nat /\ x \in Nat
  BY <1>5, <1>9
<1>11. CASE x <= n
  <2>1. n \in U \cup {0} /\ \A m \in U \cup {0} : m <= n
    BY <1>9, <1>11
  <2> QED
    BY <1>5, <2>1 DEF HasHighest
<1>12. CASE n < x
  <2>1. \A m \in U \cup {0} : m <= x
    BY <1>5, <1>9, <1>10, <1>12
  <2> QED
    BY <1>5, <2>1 DEF HasHighest
<1> QED
  BY <1>10, <1>11, <1>12

\* The numbers of tickets and of a transaction are finitely many.
LEMMA NumbersFinite ==
  ASSUME DeskTypeOK
  PROVE  Numbers \subseteq Nat /\ IsFiniteSet(Numbers)
<1> DEFINE T == {t \in Tickets : Exists(t)}
           f == [t \in T |-> ticket[t].number]
<1>1. \A t \in T : ticket[t] \in TicketRow
  BY DEF DeskTypeOK, Exists
<1>2. Numbers \subseteq Nat
  BY <1>1 DEF Numbers, TicketRow
<1>3. IsFiniteSet(T)
  BY DeskAssumption, FS_Subset
<1>4. f \in Surjection(T, Numbers)
  BY DEF Surjection, Numbers
<1> HIDE DEF T, f
<1> QED
  BY <1>2, <1>3, <1>4, FS_Surjection

LEMMA DrawnFinite ==
  ASSUME DeskTypeOK, NEW r \in Requests
  PROVE  Drawn(r) \subseteq Nat \ {0} /\ IsFiniteSet(Drawn(r))
<1>1. CASE Does(r, "creates")
  <2> DEFINE f == request[r].number
             S == {request[r].number[t] : t \in Tickets}
  <2>1. f \in [Tickets -> Nat]
    BY <1>1 DEF DeskTypeOK, Does, Idle, Request
  <2>2. f \in Surjection(Tickets, S)
    BY <2>1 DEF Surjection
  <2>3. Drawn(r) = S \ {0} /\ S \subseteq Nat
    BY <1>1, <2>1 DEF Drawn
  <2> HIDE DEF f, S
  <2>4. IsFiniteSet(S)
    BY <2>2, DeskAssumption, FS_Surjection
  <2> QED
    BY <2>3, <2>4, FS_RemoveElement
<1>2. CASE ~Does(r, "creates")
  BY <1>2, FS_EmptySet DEF Drawn
<1> QED
  BY <1>1, <1>2

LEMMA HighestIs ==
  ASSUME NEW S, IsFiniteSet(S), S \subseteq Nat
  PROVE  /\ Highest(S) \in S \cup {0} /\ Highest(S) \in Nat
         /\ \A m \in S : m <= Highest(S)
<1>1. \E n \in S \cup {0} : \A m \in S \cup {0} : m <= n
  BY FiniteSetHasHighest DEF HasHighest
<1> DEFINE h == Highest(S)
<1>2. h \in S \cup {0} /\ \A m \in S \cup {0} : m <= h
  BY <1>1 DEF Highest
<1> HIDE DEF h
<1>3. h \in Nat /\ \A m \in S : m <= h
  BY <1>2
<1> QED
  BY <1>2, <1>3 DEF h

-----------------------------------------------------------------------------
(* Steps. *)

\* A step that leaves ids and numbers alone, and lets requests go, keeps the
\* invariant.
LEMMA RowsKeep ==
  ASSUME DeskInv, DeskTypeOK',
         \A t \in Tickets :
           /\ Exists(t)' <=> Exists(t)
           /\ Exists(t) => ticket'[t].number = ticket[t].number
           /\ ticket[t] = NoTicket => ticket'[t] = NoTicket,
         \A r \in Requests : request'[r] = request[r] \/ ~Does(r, "creates")'
  PROVE  DeskInv'
<1>1. Numbers' = Numbers
  BY DEF Numbers
<1>2. \A r \in Requests : Does(r, "creates")' => Does(r, "creates") /\ request'[r] = request[r]
  BY DEF Does, Idle
<1>3. \A r \in Requests : Drawn(r)' = Drawn(r) \/ Drawn(r)' = {}
  BY <1>2 DEF Drawn
<1>4. ASSUME NEW r \in Requests PROVE OwnDraws(r)'
  BY <1>1, <1>2 DEF DeskInv, DrawsInv, OwnDraws
<1>6. ASSUME NEW q \in Requests, NEW r \in Requests PROVE Apart(q, r)'
  <2>1. Apart(q, r)
    BY DEF DeskInv, DrawsInv
  <2> QED
    BY <1>2, <2>1 DEF Apart
<1>7. TicketNumbersUnique'
  BY DEF DeskInv, TicketNumbersUnique
<1> QED
  BY <1>4, <1>6, <1>7 DEF DeskInv, DrawsInv

\* Deleting tickets leaves the others their numbers.
LEMMA DeletesKeep ==
  ASSUME DeskInv, DeskTypeOK', NEW T \in SUBSET Tickets,
         request' = request,
         ticket' = [t \in Tickets |-> IF t \in T /\ Exists(t) THEN Deleted ELSE ticket[t]]
  PROVE  DeskInv'
<1>1. \A t \in Tickets :
        /\ Exists(t)' <=> Exists(t) /\ t \notin T
        /\ Exists(t)' => ticket'[t] = ticket[t]
        /\ ticket[t] = NoTicket => ticket'[t] = NoTicket
  BY DEF Exists
<1>2. Numbers' \subseteq Numbers
  BY <1>1 DEF Numbers
<1>3. \A r \in Requests : (Does(r, "creates")' <=> Does(r, "creates")) /\ Drawn(r)' = Drawn(r)
  BY DEF Does, Idle, Drawn
<1>4. ASSUME NEW r \in Requests PROVE OwnDraws(r)'
  BY <1>1, <1>2, <1>3 DEF DeskInv, DrawsInv, OwnDraws
<1>5. ASSUME NEW q \in Requests, NEW r \in Requests PROVE Apart(q, r)'
  <2>1. Apart(q, r)
    BY DEF DeskInv, DrawsInv
  <2> QED
    BY <1>3, <2>1 DEF Apart
<1>6. TicketNumbersUnique'
  BY <1>1 DEF DeskInv, TicketNumbersUnique
<1> QED
  BY <1>4, <1>5, <1>6 DEF DeskInv, DrawsInv

\* The next number is new: to the tickets there are, and to all who insert.
LEMMA NextIsNew ==
  ASSUME DeskInv, NEW r \in Requests, ~Waits(r, NextNumber(r))
  PROVE  /\ NextNumber(r) \in Nat \ {0}
         /\ NextNumber(r) \notin Numbers
         /\ \A q \in Requests : NextNumber(r) \notin Drawn(q)
<1> DEFINE S == Numbers \cup Drawn(r)
<1>1. IsFiniteSet(S) /\ S \subseteq Nat
  BY NumbersFinite, DrawnFinite, FS_Union DEF DeskInv
<1>2. NextNumber(r) = Highest(S) + 1
  BY DEF NextNumber
<1>3. \A q \in Requests \ {r} : NextNumber(r) \notin Drawn(q)
  BY DEF Waits
<1> HIDE DEF S
<1> DEFINE h == Highest(S)
<1>4. h \in Nat /\ \A m \in S : m <= h
  BY <1>1, HighestIs
<1>5. NextNumber(r) = h + 1
  BY <1>2
<1> HIDE DEF h
<1>6. h + 1 \notin S /\ h + 1 \in Nat \ {0}
  BY <1>1, <1>4
<1> QED
  BY <1>3, <1>5, <1>6 DEF S

\* Inserting a ticket keeps the invariant.
LEMMA InsertsKeeps ==
  ASSUME DeskInv, DeskTypeOK', NEW r \in Requests, NEW t \in Tickets,
         NEW row \in [status : TicketStatus, assignee : Assignees, due : BOOLEAN],
         Inserts(r, t, row)
  PROVE  DeskInv'
<1> DEFINE n == NextNumber(r)
           drawn == IF Idle(r) THEN [u \in Tickets |-> 0] ELSE request[r].number
           j == [step |-> "creates", row |-> row, number |-> [drawn EXCEPT ![t] = n]]
<1>1. /\ Idle(r) \/ Does(r, "creates")
      /\ ticket[t] = NoTicket
      /\ \A q \in Requests : Does(q, "creates") => request[q].number[t] = 0
      /\ ~Waits(r, n)
      /\ request' = [request EXCEPT ![r] = j]
      /\ UNCHANGED deskRows
  BY DEF Inserts, Takes
<1>2. /\ n \in Nat \ {0} /\ n \notin Numbers
      /\ \A q \in Requests : n \notin Drawn(q)
  BY <1>1, NextIsNew
<1> HIDE DEF n
<1>3. \A q \in Requests : Does(q, "creates") => request[q].number \in [Tickets -> Nat]
  BY DEF DeskInv, DeskTypeOK, Does, Idle, Request
<1>4. /\ drawn \in [Tickets -> Nat] /\ drawn[t] = 0
      /\ Drawn(r) = {drawn[u] : u \in Tickets} \ {0}
      /\ \A u \in Tickets : drawn[u] > 0 => Does(r, "creates") /\ drawn[u] = request[r].number[u]
  BY <1>1, <1>3 DEF Drawn, Does
<1> HIDE DEF drawn
<1>5. j \in Request
  <2>1. [drawn EXCEPT ![t] = n] \in [Tickets -> Nat]
    BY <1>2, <1>4
  <2> QED
    BY <2>1 DEF Request
<1>6. request'[r] = j /\ \A q \in Requests \ {r} : request'[q] = request[q]
  BY <1>1 DEF DeskInv, DeskTypeOK
<1>7. /\ Does(r, "creates")' /\ request'[r].number = [drawn EXCEPT ![t] = n]
      /\ \A q \in Requests \ {r} :
           (Does(q, "creates")' <=> Does(q, "creates")) /\ Drawn(q)' = Drawn(q)
  <2>1. j # NoRequest /\ j.step = "creates" /\ j.number = [drawn EXCEPT ![t] = n]
    BY <1>5, DeskAssumption
  <2> HIDE DEF j
  <2> QED
    BY <1>6, <2>1 DEF Does, Idle, Drawn
<1>8. Drawn(r)' = Drawn(r) \cup {n}
  <2> DEFINE f == [drawn EXCEPT ![t] = n]
  <2>1. Drawn(r)' = {f[u] : u \in Tickets} \ {0}
    BY <1>7 DEF Drawn
  <2>2. f[t] = n /\ \A u \in Tickets \ {t} : f[u] = drawn[u]
    BY <1>4
  <2> QED
    BY <1>2, <1>4, <2>1, <2>2
<1>9. /\ request'[r].number[t] = n
      /\ \A u \in Tickets \ {t} :
           request'[r].number[u] > 0 => /\ Does(r, "creates")
                                        /\ request[r].number[u] > 0
                                        /\ request'[r].number[u] = request[r].number[u]
                                        /\ request'[r].number[u] \in Drawn(r)
  BY <1>4, <1>7
<1>10. Numbers' = Numbers /\ ticket' = ticket
  BY <1>1 DEF deskRows, Numbers, Exists
<1>11. OwnDraws(r)'
  BY <1>1, <1>2, <1>7, <1>9, <1>10 DEF DeskInv, DrawsInv, OwnDraws
<1>12. ASSUME NEW q \in Requests, q # r PROVE OwnDraws(q)'
  BY <1>1, <1>6, <1>7, <1>10, <1>12 DEF DeskInv, DrawsInv, OwnDraws, deskRows, Does
<1>14. ASSUME NEW q \in Requests, q # r PROVE Apart(q, r)'
  <2> SUFFICES ASSUME Does(q, "creates"), NEW u \in Tickets, NEW v \in Tickets,
                      request[q].number[u] > 0, request'[r].number[v] > 0
               PROVE  u # v /\ request[q].number[u] # request'[r].number[v]
    BY <1>6, <1>7, <1>10, <1>14 DEF Apart
  <2>1. request[q].number[u] \in Drawn(q)
    BY <1>3 DEF Drawn
  <2>2. u # t /\ request[q].number[u] # n
    BY <1>1, <1>2, <1>14, <2>1
  <2>3. CASE v = t
    BY <1>9, <2>2, <2>3
  <2>4. CASE v # t
    <3>1. Apart(q, r) /\ Does(r, "creates") /\ request[r].number[v] > 0
      BY <1>9, <2>4 DEF DeskInv, DrawsInv
    <3> QED
      BY <1>9, <1>14, <2>2, <2>4, <3>1 DEF Apart
  <2> QED
    BY <2>3, <2>4
<1>15. ASSUME NEW p \in Requests, NEW q \in Requests PROVE Apart(p, q)'
  <2>1. CASE p = q
    BY <2>1 DEF Apart
  <2>2. CASE p # q /\ q = r
    BY <1>14, <2>2
  <2>3. CASE p # q /\ p = r
    BY <1>14, <2>3 DEF Apart
  <2>4. CASE p # r /\ q # r
    <3>1. Apart(p, q)
      BY DEF DeskInv, DrawsInv
    <3> QED
      BY <1>6, <1>7, <1>10, <2>4, <3>1 DEF Apart
  <2> QED
    BY <2>1, <2>2, <2>3, <2>4
<1>16. TicketNumbersUnique'
  BY <1>1, <1>10 DEF DeskInv, TicketNumbersUnique, Exists, deskRows
<1> QED
  BY <1>11, <1>12, <1>15, <1>16 DEF DeskInv, DrawsInv

\* Committing makes the numbers drawn those of tickets.
LEMMA CreateCommitsKeeps ==
  ASSUME DeskInv, DeskTypeOK', NEW r \in Requests, CreateCommits(r)
  PROVE  DeskInv'
<1> DEFINE number == request[r].number
<1>1. /\ Does(r, "creates")
      /\ \A t \in Tickets :
           IF number[t] > 0 THEN ticket'[t].number = number[t] ELSE ticket'[t] = ticket[t]
      /\ request' = [request EXCEPT ![r] = NoRequest]
  BY DEF CreateCommits, Takes
<1>2. /\ ~Does(r, "creates")' /\ Drawn(r)' = {}
      /\ \A q \in Requests \ {r} :
           /\ request'[q] = request[q]
           /\ (Does(q, "creates")' <=> Does(q, "creates")) /\ Drawn(q)' = Drawn(q)
  BY <1>1 DEF DeskInv, DeskTypeOK, Does, Idle, Drawn
<1>3. /\ number \in [Tickets -> Nat]
      /\ Drawn(r) = {number[t] : t \in Tickets} \ {0}
  BY <1>1 DEF DeskInv, DeskTypeOK, Does, Idle, Request, Drawn
<1>4. \A t \in Tickets : number[t] > 0 => ticket[t] = NoTicket /\ ~Exists(t) /\ Exists(t)'
  <2> SUFFICES ASSUME NEW t \in Tickets, number[t] > 0
               PROVE  ticket[t] = NoTicket /\ ~Exists(t) /\ Exists(t)'
    OBVIOUS
  <2>1. ticket[t] = NoTicket /\ ~Exists(t)
    BY <1>1 DEF DeskInv, DrawsInv, OwnDraws, Exists
  <2>2. request[r] \in Request
    BY <1>1 DEF DeskInv, DeskTypeOK, Does, Idle
  <2>3. request[r].row \in [status : TicketStatus, assignee : Assignees, due : BOOLEAN]
    BY <1>1, <2>2 DEF Request, Does
  <2>4. ticket'[t] = [status |-> request[r].row.status, assignee |-> request[r].row.assignee,
                      due |-> request[r].row.due, number |-> number[t]]
    BY DEF CreateCommits
  <2>5. ticket'[t] \in TicketRow
    BY <1>3, <2>3, <2>4 DEF TicketRow
  <2> QED
    BY <2>1, <2>5, DeskAssumption DEF Exists
<1> HIDE DEF number
<1>5. \A t \in Tickets :
        IF number[t] > 0 THEN ticket'[t].number = number[t]
                         ELSE ticket'[t] = ticket[t] /\ (Exists(t)' <=> Exists(t))
  BY <1>1 DEF Exists
<1>6. Numbers' = Numbers \cup Drawn(r)
  <2>1. ASSUME NEW t \in Tickets, Exists(t)' PROVE ticket'[t].number \in Numbers \cup Drawn(r)
    BY <1>3, <1>5, <2>1 DEF Numbers
  <2>2. ASSUME NEW t \in Tickets, Exists(t) PROVE ticket[t].number \in Numbers'
    BY <1>3, <1>4, <1>5, <2>2 DEF Numbers
  <2>3. ASSUME NEW m \in Drawn(r) PROVE m \in Numbers'
    <3>1. PICK t \in Tickets : number[t] = m /\ m \in Nat \ {0}
      BY <1>3, <2>3
    <3> QED
      BY <1>4, <1>5, <3>1 DEF Numbers
  <2> QED
    BY <2>1, <2>2, <2>3 DEF Numbers
<1>7. ASSUME NEW q \in Requests, q # r, Does(q, "creates"), NEW t \in Tickets,
             request[q].number[t] > 0
      PROVE  /\ ticket'[t] = NoTicket
             /\ request[q].number[t] \notin Numbers'
  <2>1. /\ ticket[t] = NoTicket /\ request[q].number[t] \notin Numbers
        /\ Apart(q, r) /\ Apart(r, q)
    BY <1>7 DEF DeskInv, DrawsInv, OwnDraws
  <2>2. ~(number[t] > 0)
    BY <1>1, <1>7, <2>1 DEF Apart, number
  <2>3. request[q].number[t] \notin Drawn(r)
    <3> SUFFICES ASSUME NEW u \in Tickets, number[u] \in Nat, number[u] > 0
                 PROVE  request[q].number[t] # number[u]
      BY <1>3
    <3> QED
      BY <1>1, <1>7, <2>1 DEF Apart, number
  <2> QED
    BY <1>5, <1>6, <2>1, <2>2, <2>3
<1>8. ASSUME NEW q \in Requests PROVE OwnDraws(q)'
  <2>1. CASE q = r
    BY <1>2, <2>1 DEF OwnDraws
  <2>2. CASE q # r
    BY <1>2, <1>7, <2>2 DEF DeskInv, DrawsInv, OwnDraws
  <2> QED
    BY <2>1, <2>2
<1>12. ASSUME NEW p \in Requests, NEW q \in Requests PROVE Apart(p, q)'
  <2>1. Apart(p, q)
    BY DEF DeskInv, DrawsInv
  <2> QED
    BY <1>1, <1>2, <2>1 DEF Apart
<1>13. TicketNumbersUnique'
  <2> SUFFICES ASSUME NEW t \in Tickets, NEW u \in Tickets, Exists(t)', Exists(u)',
                      ticket'[t].number = ticket'[u].number
               PROVE  t = u
    BY DEF TicketNumbersUnique
  <2>1. OwnDraws(r)
    BY DEF DeskInv, DrawsInv
  <2>2. CASE number[t] > 0 /\ number[u] > 0
    BY <1>1, <1>5, <2>1, <2>2 DEF OwnDraws, number
  <2>3. CASE number[t] > 0 /\ ~(number[u] > 0)
    BY <1>1, <1>5, <2>1, <2>3 DEF OwnDraws, number, Numbers
  <2>4. CASE ~(number[t] > 0) /\ number[u] > 0
    BY <1>1, <1>5, <2>1, <2>4 DEF OwnDraws, number, Numbers
  <2>5. CASE ~(number[t] > 0) /\ ~(number[u] > 0)
    BY <1>5, <2>5 DEF DeskInv, TicketNumbersUnique
  <2> QED
    BY <2>2, <2>3, <2>4, <2>5
<1> QED
  BY <1>8, <1>12, <1>13 DEF DeskInv, DrawsInv

-----------------------------------------------------------------------------
(* All steps together. *)

\* A request that takes another form, or ends, and a ticket that another row, keep
\* their types.
LEMMA RequestTyped ==
  ASSUME DeskTypeOK, UNCHANGED deskRows, NEW r \in Requests,
         NEW next \in Request \cup {NoRequest}, Takes(r, next)
  PROVE  DeskTypeOK'
BY DEF DeskTypeOK, deskRows, Takes

LEMMA UpdateTyped ==
  ASSUME DeskTypeOK, NEW t \in Tickets, NEW row \in TicketRow \cup {Deleted},
         Update(t, row), UNCHANGED away,
         request' = request \/ \E r \in Requests : Takes(r, NoRequest)
  PROVE  DeskTypeOK'
BY DEF DeskTypeOK, Update, Takes

\* Steps of a request that write nothing.
LEMMA SilentStepKeeps ==
  ASSUME DeskInv, NEW r \in Requests, UNCHANGED deskRows,
         NEW next \in Request \cup {NoRequest}, Takes(r, next),
         next # NoRequest => next.step # "creates"
  PROVE  DeskInv'
<1>1. DeskTypeOK'
  BY RequestTyped DEF DeskInv
<1>2. request'[r] = next /\ \A q \in Requests \ {r} : request'[q] = request[q]
  BY DEF DeskInv, DeskTypeOK, Takes
<1>3. \A q \in Requests : request'[q] = request[q] \/ ~Does(q, "creates")'
  BY <1>2 DEF Does, Idle
<1>4. \A t \in Tickets : ticket'[t] = ticket[t] /\ (Exists(t)' <=> Exists(t))
  BY DEF deskRows, Exists
<1> QED
  BY <1>1, <1>3, <1>4, RowsKeep DEF deskRows

\* One row written, its number left alone.
LEMMA RowWriteKeeps ==
  ASSUME DeskInv, NEW t \in Tickets, Exists(t), NEW row \in TicketRow,
         row.number = ticket[t].number,
         Update(t, row), UNCHANGED away,
         request' = request \/ \E r \in Requests : Takes(r, NoRequest)
  PROVE  DeskInv'
<1>1. DeskTypeOK'
  BY UpdateTyped DEF DeskInv, DeskTypeOK
<1>2. \A q \in Requests : request'[q] = request[q] \/ ~Does(q, "creates")'
  BY DEF DeskInv, DeskTypeOK, Takes, Does, Idle
<1>3. ticket'[t] = row /\ \A u \in Tickets \ {t} : ticket'[u] = ticket[u]
  BY DEF DeskInv, DeskTypeOK, Update
<1>4. Exists(t)' /\ ticket[t] # NoTicket
  BY <1>3, DeskAssumption DEF Exists
<1>5. \A u \in Tickets :
        /\ Exists(u)' <=> Exists(u)
        /\ Exists(u) => ticket'[u].number = ticket[u].number
        /\ ticket[u] = NoTicket => ticket'[u] = NoTicket
  BY <1>3, <1>4 DEF Exists
<1> QED
  BY <1>1, <1>2, <1>5, RowsKeep

LEMMA RowTyped ==
  ASSUME DeskInv, NEW t \in Tickets, Exists(t), NEW to \in TicketStatus, NEW u \in Assignees
  PROVE  /\ [ticket[t] EXCEPT !.status = to] \in TicketRow
         /\ [ticket[t] EXCEPT !.assignee = u] \in TicketRow
         /\ [ticket[t] EXCEPT !.status = to, !.assignee = u] \in TicketRow
         /\ [ticket[t] EXCEPT !.assignee = u, !.status = to] \in TicketRow
         /\ [ticket[t] EXCEPT !.status = to].number = ticket[t].number
         /\ [ticket[t] EXCEPT !.assignee = u].number = ticket[t].number
         /\ [ticket[t] EXCEPT !.status = to, !.assignee = u].number = ticket[t].number
         /\ [ticket[t] EXCEPT !.assignee = u, !.status = to].number = ticket[t].number
<1>1. ticket[t] \in TicketRow
  BY DEF DeskInv, DeskTypeOK, Exists
<1> QED
  BY <1>1 DEF TicketRow

\* What a request of the route does.
LEMMA RouteKeeps ==
  ASSUME DeskInv, NEW r \in Requests,
         \/ \E t \in Tickets, u \in Technicians : TakeReads(r, t, u) \/ AssignReads(r, t, u)
         \/ \E t \in Tickets : CancelReads(r, t)
         \/ TakeChecks(r) \/ TakeWrites(r) \/ CancelWrites(r) \/ Fails(r)
  PROVE  DeskInv'
<1>1. request[r] \in Request \cup {NoRequest} /\ ("CANCELLED" \in TicketStatus)
      /\ ("IN_PROGRESS" \in TicketStatus) /\ Technicians \subseteq Assignees /\ Nobody \in Assignees
  BY DEF DeskInv, DeskTypeOK, TicketStatus, Assignees
<1>2. ASSUME NEW t \in Tickets, NEW u \in Technicians, NEW step \in {"checks", "takes"},
             Takes(r, [step |-> step, ticket |-> t, technician |-> u]), UNCHANGED deskRows
      PROVE  DeskInv'
  <2> DEFINE next == [step |-> step, ticket |-> t, technician |-> u]
  <2>1. next \in Request /\ next.step # "creates"
    BY DEF Request
  <2> HIDE DEF next
  <2> QED
    BY <1>2, <2>1, SilentStepKeeps DEF next
<1>3. ASSUME NEW t \in Tickets, Takes(r, [step |-> "cancels", ticket |-> t]), UNCHANGED deskRows
      PROVE  DeskInv'
  <2> DEFINE next == [step |-> "cancels", ticket |-> t]
  <2>1. next \in Request /\ next.step # "creates"
    BY DEF Request
  <2> HIDE DEF next
  <2> QED
    BY <1>3, <2>1, SilentStepKeeps DEF next
<1>4. CASE Fails(r)
  BY <1>4, SilentStepKeeps DEF Fails
<1>5. CASE TakeChecks(r)
  <2>1. /\ request[r] \in Request /\ request[r].step = "checks"
        /\ Takes(r, [request[r] EXCEPT !.step = "takes"]) /\ UNCHANGED deskRows
    BY <1>1, <1>5 DEF TakeChecks, Does, Idle
  <2>2. [request[r] EXCEPT !.step = "takes"] \in Request
        /\ [request[r] EXCEPT !.step = "takes"].step # "creates"
    BY <2>1 DEF Request
  <2> QED
    BY <2>1, <2>2, SilentStepKeeps
<1>6. CASE TakeWrites(r)
  <2> DEFINE t == request[r].ticket
  <2>1. t \in Tickets /\ request[r].technician \in Technicians
    BY <1>1, <1>6 DEF TakeWrites, Does, Idle, Request
  <2>2. /\ Exists(t) /\ UNCHANGED away
        /\ Takes(r, NoRequest)
        /\ Update(t, [ticket[t] EXCEPT !.assignee = request[r].technician,
                                       !.status = "IN_PROGRESS"])
    BY <1>6 DEF TakeWrites
  <2> HIDE DEF t
  <2> QED
    BY <1>1, <2>1, <2>2, RowTyped, RowWriteKeeps
<1>7. CASE CancelWrites(r)
  <2> DEFINE t == request[r].ticket
  <2>1. t \in Tickets
    BY <1>1, <1>7 DEF CancelWrites, Does, Idle, Request
  <2>2. /\ Exists(t) /\ UNCHANGED away
        /\ Takes(r, NoRequest)
        /\ Update(t, [ticket[t] EXCEPT !.status = "CANCELLED", !.assignee = Nobody])
    BY <1>7 DEF CancelWrites
  <2> HIDE DEF t
  <2> QED
    BY <1>1, <2>1, <2>2, RowTyped, RowWriteKeeps
<1> QED
  BY <1>2, <1>3, <1>4, <1>5, <1>6, <1>7 DEF TakeReads, AssignReads, CancelReads

\* What is done to many tickets in one statement.
LEMMA BulkKeeps ==
  ASSUME DeskInv, NEW T \in SUBSET Tickets,
         \/ \E to \in Targets : BulkSetsStatus(T, to)
         \/ \E u \in Technicians : BulkAssigns(T, u)
  PROVE  DeskInv'
<1>1. UNCHANGED <<away, request>>
  BY DEF BulkSetsStatus, BulkAssigns
<1>2. PICK to \in TicketStatus, u \in Assignees :
        \/ ticket' = [t \in Tickets |-> IF t \in T /\ Exists(t)
                        THEN [ticket[t] EXCEPT !.status = to] ELSE ticket[t]]
        \/ ticket' = [t \in Tickets |-> IF t \in T /\ Exists(t)
                        THEN [ticket[t] EXCEPT !.assignee = u] ELSE ticket[t]]
  <2>1. "OPEN" \in TicketStatus /\ Nobody \in Assignees
    BY DEF TicketStatus, Assignees
  <2> QED
    BY <2>1, DeskAssumption DEF BulkSetsStatus, BulkAssigns, Assignees
<1>3. \A t \in Tickets :
        /\ ~Exists(t) => ticket'[t] = ticket[t]
        /\ Exists(t) => ticket'[t] \in TicketRow /\ ticket'[t].number = ticket[t].number
  <2> SUFFICES ASSUME NEW t \in Tickets
               PROVE  /\ ~Exists(t) => ticket'[t] = ticket[t]
                      /\ Exists(t) => /\ ticket'[t] \in TicketRow
                                      /\ ticket'[t].number = ticket[t].number
    OBVIOUS
  <2>1. \/ ticket'[t] = ticket[t]
        \/ Exists(t) /\ ticket'[t] = [ticket[t] EXCEPT !.status = to]
        \/ Exists(t) /\ ticket'[t] = [ticket[t] EXCEPT !.assignee = u]
    BY <1>2
  <2>2. Exists(t) => ticket[t] \in TicketRow
    BY DEF DeskInv, DeskTypeOK, Exists
  <2> QED
    BY <2>1, <2>2, RowTyped
<1>4. ticket' \in [Tickets -> TicketRow \cup {NoTicket, Deleted}]
  <2>1. \A t \in Tickets : ticket'[t] \in TicketRow \cup {NoTicket, Deleted}
    BY <1>3 DEF DeskInv, DeskTypeOK
  <2>2. ticket' = [t \in Tickets |-> ticket'[t]]
    BY <1>2
  <2> QED
    BY <2>1, <2>2
<1>5. DeskTypeOK'
  BY <1>1, <1>4 DEF DeskInv, DeskTypeOK
<1>6. \A t \in Tickets :
        /\ Exists(t)' <=> Exists(t)
        /\ Exists(t) => ticket'[t].number = ticket[t].number
        /\ ticket[t] = NoTicket => ticket'[t] = NoTicket
  BY <1>3, DeskAssumption DEF Exists
<1> QED
  BY <1>1, <1>5, <1>6, RowsKeep

LEMMA DeletionKeeps ==
  ASSUME DeskInv, (\E t \in Tickets : Deletes(t)) \/ \E T \in SUBSET Tickets : BulkDeletes(T)
  PROVE  DeskInv'
<1>1. PICK T \in SUBSET Tickets : BulkDeletes(T)
  <2>1. ASSUME NEW t \in Tickets, Deletes(t) PROVE BulkDeletes({t})
    <3>1. Exists(t) /\ UNCHANGED <<away, request>>
      BY <2>1 DEF Deletes
    <3>2. ticket' = [u \in Tickets |-> IF u \in {t} /\ Exists(u) THEN Deleted ELSE ticket[u]]
      BY <2>1, <3>1 DEF Deletes, Update, DeskInv, DeskTypeOK
    <3> QED
      BY <3>1, <3>2 DEF BulkDeletes
  <2> QED
    BY <2>1
<1>2. DeskTypeOK'
  BY <1>1 DEF DeskInv, DeskTypeOK, BulkDeletes
<1> QED
  BY <1>1, <1>2, DeletesKeep DEF BulkDeletes

LEMMA OpeningKeeps ==
  ASSUME DeskInv, NEW r \in Requests,
         \/ \E t \in Tickets, row \in Forms \cup Batches \cup Templates : Inserts(r, t, row)
         \/ CreateCommits(r)
  PROVE  DeskInv'
<1> DEFINE FormType == [status : TicketStatus, assignee : Assignees, due : BOOLEAN]
<1>1. ASSUME NEW t \in Tickets, NEW row \in Forms \cup Batches \cup Templates,
             Inserts(r, t, row)
      PROVE  DeskInv'
  <2>1. row \in FormType
    BY DeskAssumption DEF Forms, Batches, Templates, TicketStatus, Assignees
  <2> DEFINE n == NextNumber(r)
             drawn == IF Idle(r) THEN [u \in Tickets |-> 0] ELSE request[r].number
             number == [drawn EXCEPT ![t] = n]
             next == [step |-> "creates", row |-> row, number |-> number]
  <2>2. n \in Nat /\ Takes(r, next) /\ UNCHANGED deskRows
    BY <1>1, NextIsNew DEF Inserts
  <2>3. drawn \in [Tickets -> Nat]
    BY <1>1 DEF Inserts, Does, Idle, DeskInv, DeskTypeOK, Request
  <2> HIDE DEF n, drawn
  <2>4. number \in [Tickets -> Nat]
    BY <2>2, <2>3
  <2> HIDE DEF number
  <2>5. next \in Request
    BY <2>1, <2>4 DEF Request
  <2> HIDE DEF next
  <2>6. DeskTypeOK'
    BY <2>2, <2>5, RequestTyped DEF DeskInv
  <2> QED
    BY <1>1, <2>1, <2>6, InsertsKeeps
<1>2. CASE CreateCommits(r)
  <2>1. request[r] \in Request /\ request[r].step = "creates"
    BY <1>2 DEF CreateCommits, Does, Idle, DeskInv, DeskTypeOK
  <2> DEFINE number == request[r].number
             row == request[r].row
  <2>2. row \in FormType /\ number \in [Tickets -> Nat]
    BY <2>1 DEF Request
  <2>3. ticket' = [t \in Tickets |->
          IF number[t] > 0 THEN [status |-> row.status, assignee |-> row.assignee,
                                 due |-> row.due, number |-> number[t]]
                           ELSE ticket[t]]
    BY <1>2 DEF CreateCommits
  <2> HIDE DEF number, row
  <2>4. ticket' \in [Tickets -> TicketRow \cup {NoTicket, Deleted}]
    <3>1. \A n \in Nat : [status |-> row.status, assignee |-> row.assignee,
                          due |-> row.due, number |-> n] \in TicketRow
      BY <2>2 DEF TicketRow
    <3>2. \A t \in Tickets : ticket[t] \in TicketRow \cup {NoTicket, Deleted}
      BY DEF DeskInv, DeskTypeOK
    <3> HIDE DEF FormType
    <3> QED
      BY <2>2, <2>3, <3>1, <3>2
  <2>5. DeskTypeOK'
    BY <1>2, <2>4 DEF CreateCommits, Takes, DeskInv, DeskTypeOK
  <2> QED
    BY <1>2, <2>5, CreateCommitsKeeps
<1> QED
  BY <1>1, <1>2

LEMMA EditsKeep ==
  ASSUME DeskInv, NEW t \in Tickets, NEW to \in Targets,
         RouteSetsStatus(t, to) \/ \E u \in Assignees : Edits(t, to, u)
  PROVE  DeskInv'
<1>1. to \in TicketStatus /\ Exists(t)
  BY DeskAssumption DEF RouteSetsStatus, Edits
<1>2. CASE RouteSetsStatus(t, to)
  <2>1. Nobody \in Assignees
    BY DEF Assignees
  <2> QED
    BY <1>1, <1>2, <2>1, RowTyped, RowWriteKeeps DEF RouteSetsStatus
<1>3. ASSUME NEW u \in Assignees, Edits(t, to, u) PROVE DeskInv'
  BY <1>1, <1>3, RowTyped, RowWriteKeeps DEF Edits
<1> QED
  BY <1>2, <1>3

LEMMA AvailabilityKeeps ==
  ASSUME DeskInv, NEW u \in Technicians, SetsAvailability(u) PROVE DeskInv'
<1>1. DeskTypeOK' /\ UNCHANGED <<ticket, request>>
  BY DEF DeskInv, DeskTypeOK, SetsAvailability
<1>2. \A t \in Tickets : Exists(t)' <=> Exists(t)
  BY <1>1 DEF Exists
<1> QED
  BY <1>1, <1>2, RowsKeep

LEMMA DeskStarts == DeskInit => DeskInv
<1> SUFFICES ASSUME DeskInit PROVE DeskInv
  OBVIOUS
<1>1. DeskTypeOK /\ (\A t \in Tickets : ~Exists(t)) /\ (\A r \in Requests : ~Does(r, "creates"))
  BY DEF DeskInit, DeskTypeOK, Exists, Does, Idle
<1>2. TicketNumbersUnique
  BY <1>1 DEF TicketNumbersUnique
<1> QED
  BY <1>1, <1>2 DEF DeskInv, DrawsInv, OwnDraws, Apart

LEMMA DeskStepKeeps == DeskInv /\ [DeskNext]_deskVars => DeskInv'
<1> SUFFICES ASSUME DeskInv, [DeskNext]_deskVars PROVE DeskInv'
  OBVIOUS
<1>1. CASE UNCHANGED deskVars
  <2>1. DeskTypeOK' /\ \A t \in Tickets : Exists(t)' <=> Exists(t)
    BY <1>1 DEF deskVars, DeskInv, DeskTypeOK, Exists
  <2> QED
    BY <1>1, <2>1, RowsKeep DEF deskVars
<1>2. ASSUME NEW r \in Requests,
             \/ \E t \in Tickets, row \in Forms \cup Batches \cup Templates : Inserts(r, t, row)
             \/ \E t \in Tickets, u \in Technicians : TakeReads(r, t, u) \/ AssignReads(r, t, u)
             \/ \E t \in Tickets : CancelReads(r, t)
             \/ CreateCommits(r) \/ TakeChecks(r) \/ TakeWrites(r) \/ CancelWrites(r) \/ Fails(r)
      PROVE  DeskInv'
  BY <1>2, OpeningKeeps, RouteKeeps
<1>3. ASSUME NEW t \in Tickets,
             \E to \in Targets : RouteSetsStatus(t, to) \/ \E u \in Assignees : Edits(t, to, u)
      PROVE  DeskInv'
  BY <1>3, EditsKeep
<1>4. ASSUME NEW T \in SUBSET Tickets,
             (\E to \in Targets : BulkSetsStatus(T, to)) \/ \E u \in Technicians : BulkAssigns(T, u)
      PROVE  DeskInv'
  BY <1>4, BulkKeeps
<1> QED
  BY <1>1, <1>2, <1>3, <1>4, DeletionKeeps, AvailabilityKeeps DEF DeskNext

LEMMA DeskInvariant == DeskSpec => []DeskInv
BY DeskStarts, DeskStepKeeps, PTL DEF DeskSpec

\* Tickets and requests keep their types.
THEOREM DeskTypeCorrect == DeskSpec => []DeskTypeOK
<1>1. DeskInv => DeskTypeOK
  BY DEF DeskInv
<1> QED
  BY <1>1, DeskInvariant, PTL

\* No two tickets have one number, however many are opened, and deleted, at once.
THEOREM TicketNumbersCorrect == DeskSpec => []TicketNumbersUnique
<1>1. DeskInv => TicketNumbersUnique
  BY DEF DeskInv
<1> QED
  BY <1>1, DeskInvariant, PTL

-----------------------------------------------------------------------------
(* Alerts. *)

\* The job gives one alert at a time: first the e-mail about it, then the
\* notification.
RunShape ==
  run # NoRun => /\ \A a \in run.mail : /\ run.mail = {a} /\ run.email
                                        /\ run.inApp => run.note = {a}
                 /\ \A a \in run.note : run.note = {a}

\* The technician has been mailed and not notified yet; he has not been told at all.
Mailed(a) == run # NoRun /\ run.email /\ run.mail = {} /\ a \in run.note
Due(a) ==
  run # NoRun /\ (a \in run.mail \/ (a \in run.note /\ (run.mail # {} \/ ~run.email)))

\* Unless a notification was lost, who was told has one or is about to.
ToldOnce(a) ==
  a \notin lost => /\ told[a] <= 1
                   /\ told[a] = 1 => recent[a] > 0 \/ Mailed(a)
                   /\ Due(a) => told[a] = 0

AlertsInv == DeskInv /\ TypeOK /\ RunShape /\ \A a \in Alert : ToldOnce(a)

LEMMA AlertsStart == Init => AlertsInv
<1> SUFFICES ASSUME Init PROVE AlertsInv
  OBVIOUS
<1>1. DeskInv
  BY DeskStarts DEF Init
<1>2. TypeOK
  BY <1>1, AlertsAssumption DEF Init, TypeOK, DeskInv, Levels
<1>3. RunShape /\ \A a \in Alert : ToldOnce(a)
  BY DEF Init, RunShape, ToldOnce, Due
<1> QED
  BY <1>1, <1>2, <1>3 DEF AlertsInv

\* The desk does nothing to the job.
LEMMA DeskBesideAlerts ==
  ASSUME AlertsInv, [DeskNext]_deskVars, UNCHANGED alertVars PROVE AlertsInv'
<1>1. DeskInv'
  BY DeskStepKeeps DEF AlertsInv
<1>2. /\ UNCHANGED <<level, recent, email, inApp, run, told, lost, faults>>
      /\ TypeOK /\ RunShape /\ \A a \in Alert : ToldOnce(a)
  BY DEF alertVars, settings, history, AlertsInv
<1>3. TypeOK'
  BY <1>1, <1>2 DEF TypeOK, DeskInv
<1>4. RunShape' /\ \A a \in Alert : ToldOnce(a)'
  BY <1>2 DEF RunShape, ToldOnce, Due, Mailed
<1> QED
  BY <1>1, <1>3, <1>4 DEF AlertsInv

\* What neither gives an alert nor loses one: the clock of a ticket, the settings,
\* the job between two alerts.
LEMMA QuietKeeps ==
  ASSUME AlertsInv, TypeOK', UNCHANGED deskVars, UNCHANGED <<recent, told, lost>>,
         \/ UNCHANGED run
         \/ /\ run' # NoRun => run'.mail = {} /\ run'.note = {}
            /\ run # NoRun => run.mail = {} /\ run.note = {}
  PROVE  AlertsInv'
<1>1. DeskInv'
  BY DeskStepKeeps DEF AlertsInv
<1>2. RunShape'
  BY DEF AlertsInv, RunShape
<1>3. \A a \in Alert : ToldOnce(a)'
  BY DEF AlertsInv, ToldOnce, Due, Mailed
<1> QED
  BY <1>1, <1>2, <1>3 DEF AlertsInv

LEMMA ClockKeeps ==
  ASSUME AlertsInv,
         \/ SetsSLA \/ \E t \in Tickets : Ages(t)
         \/ \E a \in Alert : TurnsOld(a) \/ DeletesNotification(a)
  PROVE  AlertsInv'
<1>1. UNCHANGED <<deskVars, run, faults>> /\ DeskInv'
  <2>1. UNCHANGED <<deskVars, run, faults>>
    BY DEF SetsSLA, Ages, TurnsOld, DeletesNotification
  <2> QED
    BY <2>1, DeskStepKeeps DEF AlertsInv
<1>2. CASE SetsSLA
  <2>1. TypeOK'
    BY <1>1, <1>2 DEF SetsSLA, AlertsInv, DeskInv, TypeOK, history
  <2> QED
    BY <1>1, <1>2, <2>1, QuietKeeps DEF SetsSLA, history
<1>3. ASSUME NEW t \in Tickets, Ages(t) PROVE AlertsInv'
  <2>1. TypeOK'
    BY <1>1, <1>3 DEF Ages, AlertsInv, DeskInv, TypeOK, history, settings, Levels
  <2> QED
    BY <1>1, <1>3, <2>1, QuietKeeps DEF Ages, history
<1>4. ASSUME NEW a \in Alert, TurnsOld(a) \/ DeletesNotification(a) PROVE AlertsInv'
  <2>1. told[a] \in 0 .. 2 /\ recent[a] \in Nat /\ ToldOnce(a)
    BY DEF AlertsInv, TypeOK
  <2>2. /\ UNCHANGED <<level, email, inApp>>
        /\ told' \in [Alert -> 0 .. 2] /\ recent' \in [Alert -> Nat] /\ lost' \subseteq Alert
        /\ \A b \in Alert \ {a} : /\ told'[b] = told[b] /\ recent'[b] = recent[b]
                                  /\ b \in lost' <=> b \in lost
    <3>1. CASE TurnsOld(a)
      BY <2>1, <3>1 DEF TurnsOld, AlertsInv, TypeOK, settings, history
    <3>2. CASE DeletesNotification(a)
      BY <2>1, <3>2 DEF DeletesNotification, Loses, AlertsInv, TypeOK, settings
    <3> QED
      BY <1>4, <3>1, <3>2
  <2>3. a \notin lost' => told'[a] = 0 \/ (a \notin lost /\ told'[a] = told[a] /\ recent'[a] = recent[a])
    <3>1. CASE TurnsOld(a)
      BY <2>1, <3>1 DEF TurnsOld, AlertsInv, TypeOK, history, ToldOnce
    <3>2. CASE DeletesNotification(a)
      BY <2>1, <2>2, <3>2 DEF DeletesNotification, Loses
    <3> QED
      BY <1>4, <3>1, <3>2
  <2>4. TypeOK'
    BY <1>1, <2>2 DEF AlertsInv, DeskInv, TypeOK
  <2>5. RunShape'
    BY <1>1 DEF AlertsInv, RunShape
  <2>6. \A b \in Alert : (Mailed(b)' <=> Mailed(b)) /\ (Due(b)' <=> Due(b)) /\ ToldOnce(b)
    BY <1>1 DEF AlertsInv, Mailed, Due
  <2>7. ASSUME NEW b \in Alert PROVE ToldOnce(b)'
    BY <2>2, <2>3, <2>6 DEF ToldOnce
  <2> QED
    BY <1>1, <2>4, <2>5, <2>7 DEF AlertsInv
<1> QED
  BY <1>2, <1>3, <1>4

\* The job visits a ticket.
LEMMA VisitKeeps ==
  ASSUME AlertsInv, CronVisits PROVE AlertsInv'
<1>1. /\ run \in Run /\ run.mail = {} /\ run.note = {}
      /\ UNCHANGED <<deskVars, level, recent, email, inApp, told, lost, faults>> /\ DeskInv'
  <2>1. UNCHANGED <<deskVars, level, recent, email, inApp, told, lost, faults>>
    BY DEF CronVisits, settings, history
  <2>2. run \in Run /\ run.mail = {} /\ run.note = {}
    BY DEF CronVisits, Between, AlertsInv, TypeOK
  <2> QED
    BY <2>1, <2>2, DeskStepKeeps DEF AlertsInv
<1>2. PICK p \in run.todo :
        LET alert == [ticket |-> p[1], technician |-> p[2], level |-> level[p[1]]]
            due == level[p[1]] # "fine" /\ ~Known(alert)
        IN run' = [run EXCEPT !.todo = run.todo \ {p},
                              !.mail = IF due /\ run.email THEN {alert} ELSE {},
                              !.note = IF due /\ run.inApp THEN {alert} ELSE {}]
  BY DEF CronVisits
<1> DEFINE alert == [ticket |-> p[1], technician |-> p[2], level |-> level[p[1]]]
           due == level[p[1]] # "fine" /\ ~Known(alert)
           mail == IF due /\ run.email THEN {alert} ELSE {}
           note == IF due /\ run.inApp THEN {alert} ELSE {}
<1>3. p[1] \in Tickets /\ p[2] \in Technicians
  BY <1>1 DEF Run
<1>4. due => alert \in Alert /\ recent[alert] = 0
  <2>1. due => alert \in Alert
    BY <1>3 DEF Alert, AlertsInv, TypeOK
  <2> HIDE DEF alert
  <2> QED
    BY <2>1 DEF Known, AlertsInv, TypeOK
<1> HIDE DEF alert, due
<1>5. run' = [run EXCEPT !.todo = run.todo \ {p}, !.mail = mail, !.note = note]
  BY <1>2 DEF alert, due
<1>6. /\ mail \subseteq Alert /\ note \subseteq Alert
      /\ \A a \in mail : mail = {a} /\ run.email /\ (run.inApp => note = {a})
      /\ \A a \in note : note = {a}
      /\ \A a \in mail \cup note : recent[a] = 0
  BY <1>4
<1> HIDE DEF mail, note
<1>7. /\ run' \in Run /\ run' # NoRun /\ run'.mail = mail /\ run'.note = note
      /\ run'.email = run.email /\ run'.inApp = run.inApp
  BY <1>1, <1>5, <1>6, AlertsAssumption DEF Run
<1>8. TypeOK'
  BY <1>1, <1>7 DEF AlertsInv, DeskInv, TypeOK
<1>9. RunShape'
  BY <1>6, <1>7 DEF RunShape
<1>10. ASSUME NEW a \in Alert PROVE ToldOnce(a)'
  <2>1. ToldOnce(a) /\ ~Mailed(a) /\ told[a] \in 0 .. 2 /\ recent[a] \in Nat
    BY <1>1 DEF AlertsInv, Mailed, TypeOK
  <2>2. Due(a)' => recent[a] = 0
    BY <1>6, <1>7 DEF Due
  <2> QED
    BY <1>1, <2>1, <2>2 DEF ToldOnce
<1> QED
  BY <1>1, <1>8, <1>9, <1>10 DEF AlertsInv

\* The job gives its alert: an e-mail, a notification.
LEMMA AlertKeeps ==
  ASSUME AlertsInv, CronMails \/ CronNotes PROVE AlertsInv'
<1>1. /\ run \in Run /\ run # NoRun /\ RunShape
      /\ UNCHANGED <<deskVars, level, email, inApp, faults>> /\ DeskInv'
  <2>1. UNCHANGED <<deskVars, level, email, inApp, faults>> /\ run # NoRun
    BY DEF CronMails, CronNotes, settings
  <2> QED
    BY <2>1, DeskStepKeeps DEF AlertsInv, TypeOK
<1>2. \A a \in Alert : ToldOnce(a) /\ told[a] \in 0 .. 2 /\ recent[a] \in Nat
  BY DEF AlertsInv, TypeOK
<1>3. CASE CronMails
  <2>1. PICK a \in run.mail : Tells(a) /\ IF run.inApp THEN UNCHANGED lost ELSE Loses({a})
    BY <1>3 DEF CronMails
  <2>2. /\ a \in Alert /\ run.mail = {a} /\ run.email /\ (run.inApp => run.note = {a})
        /\ recent' = recent /\ run' = [run EXCEPT !.mail = {}]
    BY <1>1, <1>3, <2>1 DEF CronMails, RunShape, Run
  <2>3. /\ run' \in Run /\ run' # NoRun /\ run'.mail = {} /\ run'.note = run.note
        /\ run'.email = run.email /\ run'.inApp = run.inApp
    BY <1>1, <2>2, AlertsAssumption DEF Run
  <2>4. /\ told' \in [Alert -> 0 .. 2] /\ told'[a] = IF told[a] = 0 THEN 1 ELSE 2
        /\ \A b \in Alert \ {a} : told'[b] = told[b]
    BY <2>1, <2>2 DEF Tells, AlertsInv, TypeOK
  <2>5. IF run.inApp THEN lost' = lost ELSE lost' = lost \cup {a}
    BY <1>2, <2>1, <2>2, <2>4 DEF Loses
  <2>6. TypeOK'
    BY <1>1, <2>2, <2>3, <2>4, <2>5 DEF AlertsInv, DeskInv, TypeOK
  <2>7. RunShape'
    BY <1>1, <2>3 DEF RunShape
  <2>8. ToldOnce(a)'
    <3>1. a \notin lost => told[a] = 0
      BY <1>1, <1>2, <2>1, <2>2 DEF ToldOnce, Due
    <3>2. ~Due(a)' /\ (run.inApp => Mailed(a)')
      BY <2>2, <2>3 DEF Due, Mailed
    <3> QED
      BY <2>4, <2>5, <3>1, <3>2 DEF ToldOnce
  <2>9. ASSUME NEW b \in Alert, b # a PROVE ToldOnce(b)'
    <3>1. (Mailed(b)' \/ ~Mailed(b)) /\ ~Due(b)' /\ (b \in lost' <=> b \in lost)
      BY <1>1, <2>2, <2>3, <2>5, <2>9 DEF Mailed, Due
    <3> QED
      BY <1>2, <2>2, <2>4, <2>9, <3>1 DEF ToldOnce
  <2> QED
    BY <1>1, <2>6, <2>7, <2>8, <2>9 DEF AlertsInv
<1>4. CASE CronNotes
  <2>1. PICK a \in run.note : /\ recent' = [recent EXCEPT ![a] = recent[a] + 1]
                              /\ IF run.email THEN UNCHANGED told ELSE Tells(a)
    BY <1>4 DEF CronNotes
  <2>2. /\ a \in Alert /\ run.mail = {} /\ run.note = {a}
        /\ lost' = lost /\ run' = [run EXCEPT !.note = {}]
    BY <1>1, <1>4, <2>1 DEF CronNotes, RunShape, Run
  <2>3. run' \in Run /\ run' # NoRun /\ run'.mail = {} /\ run'.note = {}
    BY <1>1, <2>2, AlertsAssumption DEF Run
  <2>4. /\ told' \in [Alert -> 0 .. 2] /\ recent' \in [Alert -> Nat]
        /\ recent'[a] > 0
        /\ told'[a] = IF run.email THEN told[a] ELSE IF told[a] = 0 THEN 1 ELSE 2
        /\ \A b \in Alert \ {a} : told'[b] = told[b] /\ recent'[b] = recent[b]
    BY <1>2, <2>1, <2>2 DEF Tells, AlertsInv, TypeOK
  <2>5. TypeOK'
    BY <1>1, <2>2, <2>3, <2>4 DEF AlertsInv, DeskInv, TypeOK
  <2>6. RunShape' /\ \A b \in Alert : ~Due(b)'
    BY <2>3 DEF RunShape, Due
  <2>7. ToldOnce(a)'
    <3>1. a \notin lost => told[a] <= 1 /\ (~run.email => told[a] = 0)
      BY <1>1, <1>2, <2>2 DEF ToldOnce, Due
    <3>2. told[a] \in 0 .. 2
      BY <1>2, <2>2
    <3> QED
      BY <2>2, <2>4, <2>6, <3>1, <3>2 DEF ToldOnce
  <2>8. ASSUME NEW b \in Alert, b # a PROVE ToldOnce(b)'
    <3>1. ~Mailed(b)
      BY <2>2, <2>8 DEF Mailed
    <3> QED
      BY <1>2, <2>2, <2>4, <2>6, <2>8, <3>1 DEF ToldOnce
  <2> QED
    BY <1>1, <2>5, <2>6, <2>7, <2>8 DEF AlertsInv
<1> QED
  BY <1>3, <1>4

LEMMA DeathKeeps ==
  ASSUME AlertsInv, CronDies PROVE AlertsInv'
<1>1. /\ run \in Run /\ run # NoRun /\ run' = NoRun
      /\ UNCHANGED <<deskVars, level, recent, email, inApp, told>> /\ DeskInv'
      /\ faults' \in 0 .. MaxFaults
  <2>1. /\ UNCHANGED <<deskVars, level, recent, email, inApp, told>> /\ run # NoRun
        /\ run' = NoRun /\ faults' \in 0 .. MaxFaults
    BY AlertsAssumption DEF CronDies, settings, AlertsInv, TypeOK
  <2> QED
    BY <2>1, DeskStepKeeps DEF AlertsInv, TypeOK
<1>2. lost' = lost \cup {a \in IF run.email /\ run.mail = {} THEN run.note ELSE {} : told[a] > 0}
  BY <1>1 DEF CronDies, Loses
<1>3. TypeOK'
  BY <1>1, <1>2 DEF AlertsInv, DeskInv, TypeOK, Run
<1>4. ASSUME NEW a \in Alert PROVE ToldOnce(a)'
  <2>1. ToldOnce(a) /\ told[a] \in 0 .. 2
    BY DEF AlertsInv, TypeOK
  <2>2. ~Due(a)' /\ (a \notin lost' => a \notin lost /\ (Mailed(a) => told[a] = 0))
    BY <1>1, <1>2, <2>1 DEF Due, Mailed
  <2> QED
    BY <1>1, <2>1, <2>2 DEF ToldOnce
<1> QED
  BY <1>1, <1>3, <1>4 DEF AlertsInv, RunShape

LEMMA CronKeeps ==
  ASSUME AlertsInv, Cron \/ CronDies PROVE AlertsInv'
<1>1. CASE CronLists
  <2> DEFINE todo == {<<t, ticket[t].assignee>> :
                        t \in {u \in Tickets : Watched(u) /\ (email \/ inApp)}}
             next == [email |-> email, inApp |-> inApp, mail |-> {}, note |-> {}, todo |-> todo]
  <2>1. \A t \in Tickets : Watched(t) => ticket[t].assignee \in Technicians
    BY DEF Watched, Exists, AlertsInv, DeskInv, DeskTypeOK, TicketRow, Assignees
  <2>2. todo \subseteq Tickets \X Technicians
    BY <2>1
  <2> HIDE DEF todo
  <2>3. next \in Run /\ next.mail = {} /\ next.note = {}
    BY <2>2 DEF Run, AlertsInv, TypeOK
  <2>4. /\ run = NoRun /\ run' = next
        /\ UNCHANGED <<deskVars, level, recent, email, inApp, told, lost, faults>>
    BY <1>1 DEF CronLists, settings, history, todo
  <2> HIDE DEF next
  <2>5. DeskInv'
    BY <2>4, DeskStepKeeps DEF AlertsInv
  <2>6. TypeOK'
    BY <2>3, <2>4, <2>5 DEF AlertsInv, DeskInv, TypeOK
  <2> QED
    BY <2>3, <2>4, <2>6, QuietKeeps
<1>2. CASE CronEnds
  <2>1. /\ run' = NoRun /\ run.mail = {} /\ run.note = {}
        /\ UNCHANGED <<deskVars, level, recent, email, inApp, told, lost, faults>>
    BY <1>2 DEF CronEnds, Between, settings, history
  <2>2. DeskInv'
    BY <2>1, DeskStepKeeps DEF AlertsInv
  <2>3. TypeOK'
    BY <2>1, <2>2 DEF AlertsInv, DeskInv, TypeOK
  <2> QED
    BY <2>1, <2>3, QuietKeeps
<1> QED
  BY <1>1, <1>2, VisitKeeps, AlertKeeps, DeathKeeps DEF Cron

LEMMA AlertsStepKeeps == AlertsInv /\ [Next]_vars => AlertsInv'
<1> SUFFICES ASSUME AlertsInv, [Next]_vars PROVE AlertsInv'
  OBVIOUS
<1>1. CASE UNCHANGED vars
  BY <1>1, DeskBesideAlerts DEF vars
<1>2. CASE Next
  BY <1>2, DeskBesideAlerts, ClockKeeps, CronKeeps DEF Next
<1> QED
  BY <1>1, <1>2

LEMMA AlertsInvariant == Spec => []AlertsInv
BY AlertsStart, AlertsStepKeeps, PTL DEF Spec

\* Tickets, notifications and the job keep their types.
THEOREM AlertsTypeCorrect == Spec => []TypeOK
<1>1. AlertsInv => TypeOK
  BY DEF AlertsInv
<1> QED
  BY <1>1, AlertsInvariant, PTL

\* However often the job dies and is called again, a technician is told of a ticket
\* twice in a day, at one level, only if an alert left no notification behind.
THEOREM AlertsOnce == Spec => []OncePerDay
<1>1. AlertsInv => OncePerDay
  BY DEF AlertsInv, TypeOK, ToldOnce, OncePerDay
<1> QED
  BY <1>1, AlertsInvariant, PTL
=============================================================================
