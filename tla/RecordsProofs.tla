---------------------------- MODULE RecordsProofs ----------------------------
(* Proofs about Records.  The keys keep every reference true because a row *)
(* written but not committed locks what it refers to, and because only     *)
(* rows nothing refers to go along with another.                           *)
EXTENDS Records, FiniteSetTheorems, TLAPS

\* A row has what it cannot be without, and only belonging rows are a ticket's.
Sound(i, columns) ==
  /\ \A c \in Mandatory(i) : columns[c] # Null
  /\ columns["ticket"] # Null => i \in Belonging

\* Every row of table tb is sound and refers to rows of tb.
TableSound(tb) ==
  \A i \in Ids : tb[i] # NoRow =>
    Sound(i, tb[i]) /\ \A c \in Columns : tb[i][c] # Null => tb[tb[i][c]] # NoRow

\* What request q will write is sound; what it has written refers to rows of
\* the table or to its own.
RequestSound(q, tb) ==
  q # NoRequest =>
    /\ q.step \in {"adds", "begins"} => Sound(q.id, q.row)
    /\ q.step = "writes" =>
         /\ q.rows[q.id] # NoRow
         /\ \A i \in Ids : q.rows[i] # NoRow =>
              /\ Sound(i, q.rows[i])
              /\ \A c \in Columns : q.rows[i][c] # Null =>
                   tb[q.rows[i][c]] # NoRow \/ q.rows[q.rows[i][c]] # NoRow

\* The ids request q brings into the tables.
News(q) ==
  IF q = NoRequest THEN {}
  ELSE IF q.step \in {"adds", "registers", "begins"} THEN {q.id}
  ELSE IF q.step = "writes" THEN {i \in Ids : q.rows[i] # NoRow}
  ELSE {}

NewsAreNew ==
  /\ \A r \in Requests : \A i \in News(request[r]) : row[i] = NoRow
  /\ \A r, s \in Requests : r # s => News(request[r]) \cap News(request[s]) = {}

RecordsInv ==
  /\ TypeOK
  /\ TableSound(row)
  /\ \A r \in Requests : RequestSound(request[r], row)
  /\ NewsAreNew

-----------------------------------------------------------------------------
LEMMA ColumnNames ==
  Columns = {"customer", "assignee", "author", "part", "template", "ticket"}
  BY DEF Columns, Referred

LEMMA References ==
  /\ \A c \in Columns : Referred[c] \subseteq Ids
  /\ \A c \in Columns : Referred[c] \cap Belonging = {}
  /\ Referred["ticket"] = Tickets /\ Referred["template"] = Templates
  BY RecordsAssumption DEF Columns, Referred, Ids, Belonging

LEMMA RowColumns ==
  ASSUME NEW columns \in Row, NEW c \in Columns
  PROVE  columns[c] = Null \/ (columns[c] \in Referred[c] /\ columns[c] \in Ids)
  BY References DEF Row

LEMMA MakeRow ==
  ASSUME NEW columns, columns = [c \in Columns |-> columns[c]],
         \A c \in Columns : columns[c] \in Referred[c] \cup {Null}
  PROVE  columns \in Row
<1>1. \A c \in Columns : columns[c] \in Ids \cup {Null}
  BY References
<1>2. columns \in [Columns -> Ids \cup {Null}]
  BY <1>1
<1> QED
  BY <1>2 DEF Row

\* The rows the handlers make.
LEMMA NewRows ==
  /\ Alone \in Row
  /\ \A k \in Templates, p \in Parts : [Alone EXCEPT !.template = k, !.part = p] \in Row
  /\ \A t \in Tickets, p \in Parts : [Alone EXCEPT !.ticket = t, !.part = p] \in Row
  /\ \A t \in Tickets, k \in Templates : [Alone EXCEPT !.ticket = t, !.template = k] \in Row
  /\ \A t \in Tickets, u \in Users : [Alone EXCEPT !.ticket = t, !.author = u] \in Row
  /\ \A c \in Customers : [Alone EXCEPT !.customer = c] \in Row
  /\ \A c \in Customers, k \in Templates, u \in Users \cup {Null} :
       [Alone EXCEPT !.customer = c, !.template = k, !.assignee = u] \in Row
<1> USE ColumnNames
<1>0. \A c \in Columns : Alone[c] = Null
  BY DEF Alone
<1>1. Alone \in Row
  BY References DEF Alone, Row
<1>2. \A k \in Templates, p \in Parts : [Alone EXCEPT !["template"] = k, !["part"] = p] \in Row
  BY <1>1, References DEF Row, Referred, Ids
<1>3. \A t \in Tickets, p \in Parts : [Alone EXCEPT !["ticket"] = t, !["part"] = p] \in Row
  BY <1>1, References DEF Row, Referred, Ids
<1>4. \A t \in Tickets, k \in Templates : [Alone EXCEPT !["ticket"] = t, !["template"] = k] \in Row
  BY <1>1, References DEF Row, Referred, Ids
<1>5. \A t \in Tickets, u \in Users : [Alone EXCEPT !["ticket"] = t, !["author"] = u] \in Row
  BY <1>1, References DEF Row, Referred, Ids
<1>6. \A c \in Customers : [Alone EXCEPT !["customer"] = c] \in Row
  BY <1>1, References DEF Row, Referred, Ids
<1>7. \A c \in Customers, k \in Templates, u \in Users \cup {Null} :
       [Alone EXCEPT !["customer"] = c, !["template"] = k, !["assignee"] = u] \in Row
  BY <1>1, References DEF Row, Referred, Ids
<1> QED
  BY <1>1, <1>2, <1>3, <1>4, <1>5, <1>6, <1>7

LEMMA NewRowsSound ==
  /\ \A i \in Ids \ (Tickets \cup Belonging) : Sound(i, Alone)
  /\ \A i \in TemplateParts, k \in Templates, p \in Parts :
       Sound(i, [Alone EXCEPT !.template = k, !.part = p])
  /\ \A i \in PartUsages, t \in Tickets, p \in Parts :
       Sound(i, [Alone EXCEPT !.ticket = t, !.part = p])
  /\ \A i \in TicketServices, t \in Tickets, k \in Templates :
       Sound(i, [Alone EXCEPT !.ticket = t, !.template = k])
  /\ \A i \in TicketNotes, t \in Tickets, u \in Users :
       Sound(i, [Alone EXCEPT !.ticket = t, !.author = u])
  /\ \A t \in Tickets, c \in Customers : Sound(t, [Alone EXCEPT !.customer = c])
  /\ \A t \in Tickets, c \in Customers, k \in Templates, u \in Users \cup {Null} :
       Sound(t, [Alone EXCEPT !.customer = c, !.template = k, !.assignee = u])
<1> USE ColumnNames
<1>1. /\ \A c \in Columns : Alone[c] = Null
      /\ DOMAIN Alone = Columns
  BY DEF Alone
<1>2. Null \notin Ids
  BY RecordsAssumption
<1>3. \A i \in Ids \ (Tickets \cup Belonging) : Sound(i, Alone)
  BY <1>1 DEF Sound, Mandatory, Belonging
<1>4. \A i \in TemplateParts, k \in Templates, p \in Parts :
        Sound(i, [Alone EXCEPT !["template"] = k, !["part"] = p])
  BY <1>1, <1>2, References DEF Sound, Mandatory, Belonging, Ids
<1>5. \A i \in PartUsages, t \in Tickets, p \in Parts :
        Sound(i, [Alone EXCEPT !["ticket"] = t, !["part"] = p])
  BY <1>1, <1>2, References, RecordsAssumption DEF Sound, Mandatory, Belonging, Ids
<1>6. \A i \in TicketServices, t \in Tickets, k \in Templates :
        Sound(i, [Alone EXCEPT !["ticket"] = t, !["template"] = k])
  BY <1>1, <1>2, References, RecordsAssumption DEF Sound, Mandatory, Belonging, Ids
<1>7. \A i \in TicketNotes, t \in Tickets, u \in Users :
        Sound(i, [Alone EXCEPT !["ticket"] = t, !["author"] = u])
  BY <1>1, <1>2, References, RecordsAssumption DEF Sound, Mandatory, Belonging, Ids
<1>8. \A t \in Tickets, c \in Customers : Sound(t, [Alone EXCEPT !["customer"] = c])
  BY <1>1, <1>2 DEF Sound, Mandatory, Ids
<1>9. \A t \in Tickets, c \in Customers, k \in Templates, u \in Users \cup {Null} :
        Sound(t, [Alone EXCEPT !["customer"] = c, !["template"] = k, !["assignee"] = u])
  BY <1>1, <1>2 DEF Sound, Mandatory, Ids
<1> QED
  BY <1>3, <1>4, <1>5, <1>6, <1>7, <1>8, <1>9

\* A column a row cannot be without is never just forgotten.
LEMMA MandatoryNotForgotten ==
  ASSUME NEW i \in Ids, NEW c \in Mandatory(i)
  PROVE  OnDelete(i, c) \in {"restrict", "cascade"} /\ c \in Columns
  BY ColumnNames DEF OnDelete, Mandatory

-----------------------------------------------------------------------------
\* What is sound stays so when rows only come.
LEMMA RequestStaysSound ==
  ASSUME NEW q, NEW tb, NEW tb1,
         \A i : tb[i] # NoRow => tb1[i] # NoRow,
         RequestSound(q, tb)
  PROVE  RequestSound(q, tb1)
  BY DEF RequestSound

\* The request of r becomes q, of which every id is r's already or fresh.
LEMMA TakesKeeps ==
  ASSUME RecordsInv, NEW r \in Requests, NEW q \in Request \cup {NoRequest},
         request' = [request EXCEPT ![r] = q], UNCHANGED tables,
         RequestSound(q, row),
         \A i \in News(q) : i \in News(request[r]) \/ Fresh(i)
  PROVE  RecordsInv'
<1>1. request' \in [Requests -> Request \cup {NoRequest}]
  BY DEF RecordsInv, TypeOK
<1>2. TypeOK'
  BY <1>1 DEF RecordsInv, TypeOK, tables
<1>3. \A s \in Requests : request'[s] = IF s = r THEN q ELSE request[s]
  BY DEF RecordsInv, TypeOK
<1>4. \A i : Fresh(i) => row[i] = NoRow /\ \A s \in Requests : i \notin News(request[s])
  BY DEF Fresh, Present, Mentions, Idle, News
<1>5. NewsAreNew'
  BY <1>3, <1>4 DEF NewsAreNew, RecordsInv, tables
<1> QED
  BY <1>2, <1>3, <1>5 DEF RecordsInv, tables

\* A new row, fresh or brought by r.
LEMMA InsertKeeps ==
  ASSUME RecordsInv, NEW r, NEW i \in Ids, NEW columns \in Row,
         Insert(i, columns), Sound(i, columns),
         \/ /\ Fresh(i)
            /\ UNCHANGED request
         \/ /\ r \in Requests /\ News(request[r]) = {i}
            /\ request' = [request EXCEPT ![r] = NoRequest],
         email' \in [Users -> Emails \cup {Null}], active' \subseteq Templates
  PROVE  RecordsInv'
<1>1. row' \in [Ids -> Row \cup {NoRow}] /\ request' \in [Requests -> Request \cup {NoRequest}]
  BY DEF RecordsInv, TypeOK, Insert
<1>2. \A j \in Ids : row'[j] = IF j = i THEN columns ELSE row[j]
  BY DEF RecordsInv, TypeOK, Insert
<1>3. \A j \in Ids : row[j] # NoRow => row'[j] # NoRow
  BY <1>2, RecordsAssumption
<1>4. TableSound(row)'
  <2> SUFFICES ASSUME NEW j \in Ids, row'[j] # NoRow
               PROVE  /\ Sound(j, row'[j])
                      /\ \A c \in Columns : row'[j][c] # Null => row'[row'[j][c]] # NoRow
    BY DEF TableSound
  <2>1. row'[j] \in Row
    BY <1>1
  <2>2. CASE j = i
    <3>1. row'[j] = columns /\ \A c \in Columns : columns[c] # Null => row[columns[c]] # NoRow
      BY <1>2, <2>2 DEF Insert, Satisfied, Present
    <3> QED
      BY <1>3, <2>1, <2>2, <3>1, RowColumns
  <2>3. CASE j # i
    BY <1>2, <1>3, <2>1, <2>3, RowColumns DEF RecordsInv, TableSound
  <2> QED
    BY <2>2, <2>3
<1>5. ASSUME NEW s \in Requests PROVE RequestSound(request[s], row)'
  <2>1. request'[s] = request[s] \/ request'[s] = NoRequest
    BY DEF RecordsInv, TypeOK
  <2>2. CASE request'[s] = NoRequest
    BY <2>2 DEF RequestSound
  <2>3. ASSUME request'[s] = request[s], request[s] # NoRequest
        PROVE  RequestSound(request'[s], row')
    <3> DEFINE q == request[s]
    <3>1. q \in Request /\ RequestSound(q, row)
      BY <2>3 DEF RecordsInv, TypeOK
    <3>2. q.step = "writes" => q.rows \in [Ids -> Row \cup {NoRow}]
      BY <3>1 DEF Request
    <3> QED
      BY <1>3, <2>3, <3>1, <3>2, RowColumns DEF RequestSound
  <2> QED
    BY <2>1, <2>2, <2>3
<1>6. NewsAreNew'
  <2>1. CASE Fresh(i) /\ UNCHANGED request
    <3>1. \A s \in Requests : i \notin News(request[s])
      BY <2>1 DEF Fresh, Mentions, Idle, News
    <3>2. \A s \in Requests : News(request[s]) \subseteq Ids
      BY DEF RecordsInv, TypeOK, Request, News, Ids
    <3> QED
      BY <1>2, <2>1, <3>1, <3>2 DEF RecordsInv, NewsAreNew
  <2>2. CASE r \in Requests /\ News(request[r]) = {i} /\ request' = [request EXCEPT ![r] = NoRequest]
    <3>1. \A s \in Requests : request'[s] = IF s = r THEN NoRequest ELSE request[s]
      BY <2>2 DEF RecordsInv, TypeOK
    <3>2. \A s \in Requests : News(request[s]) \subseteq Ids
      BY DEF RecordsInv, TypeOK, Request, News, Ids
    <3>3. News(NoRequest) = {}
      BY DEF News
    <3>4. \A s \in Requests : s # r => i \notin News(request[s])
      BY <2>2 DEF RecordsInv, NewsAreNew
    <3> QED
      BY <1>2, <3>1, <3>2, <3>3, <3>4 DEF RecordsInv, NewsAreNew
  <2> QED
    BY <2>1, <2>2
<1> QED
  BY <1>1, <1>4, <1>5, <1>6 DEF RecordsInv, TypeOK

\* What goes with a row belongs to it.
LEMMA CascadeBelongs ==
  ASSUME RecordsInv, NEW k \in Ids, NEW i \in Referring(k, "cascade")
  PROVE  /\ i \in Belonging /\ row[i] # NoRow
         /\ \/ k \in Tickets /\ i \notin PartUsages
            \/ k \in Templates /\ i \in TemplateParts
<1>1. i \in Ids /\ row[i] # NoRow
  BY DEF Referring, Present
<1>2. row[i] \in Row /\ Sound(i, row[i])
  BY <1>1 DEF RecordsInv, TypeOK, TableSound
<1>3. PICK c \in Columns : row[i][c] = k /\ OnDelete(i, c) = "cascade"
  BY DEF Referring
<1>4. k # Null /\ k \in Referred[c]
  BY <1>2, <1>3, RowColumns, RecordsAssumption
<1>5. \/ c = "ticket" /\ i \notin PartUsages
      \/ c = "template" /\ i \in TemplateParts
  BY <1>3, ColumnNames DEF OnDelete
<1>6. CASE c = "ticket" /\ i \notin PartUsages
  BY <1>1, <1>2, <1>3, <1>4, <1>6, References DEF Sound
<1>7. CASE c = "template" /\ i \in TemplateParts
  BY <1>1, <1>4, <1>7, References DEF Belonging
<1> QED
  BY <1>5, <1>6, <1>7

LEMMA DeleteKeeps ==
  ASSUME RecordsInv, NEW r, NEW k \in Ids, Delete(k),
         \/ UNCHANGED request
         \/ request' = [request EXCEPT ![r] = NoRequest]
  PROVE  RecordsInv'
<1> DEFINE gone(i) == i = k \/ i \in Referring(k, "cascade")
           kept(i) == [c \in Columns |-> IF row[i][c] = k THEN Null ELSE row[i][c]]
<1>1. \A i \in Ids : row'[i] = IF gone(i) \/ row[i] = NoRow THEN NoRow ELSE kept(i)
  BY DEF Delete
<1>2. k # Null /\ NoRow \notin Row
  BY RecordsAssumption
<1>3. ASSUME NEW i \in Ids, ~gone(i), row[i] # NoRow PROVE kept(i) \in Row
  <2>1. row[i] \in Row
    BY <1>3 DEF RecordsInv, TypeOK
  <2>2. \A c \in Columns : kept(i)[c] \in Referred[c] \cup {Null}
    BY <2>1, RowColumns
  <2>3. kept(i) = [c \in Columns |-> kept(i)[c]]
    OBVIOUS
  <2> QED
    BY <2>2, <2>3, MakeRow
<1>4. row' \in [Ids -> Row \cup {NoRow}]
  <2>1. row' = [i \in Ids |-> row'[i]]
    BY DEF Delete
  <2> QED
    BY <1>1, <1>3, <2>1
<1>5. \A i \in Ids : row'[i] # NoRow => row[i] # NoRow /\ ~gone(i) /\ row'[i] = kept(i)
  BY <1>1
<1>6. \A i \in Ids : row[i] # NoRow /\ i # k /\ i \notin Belonging => row'[i] # NoRow
  BY <1>1, <1>2, <1>3, CascadeBelongs
<1>7. TableSound(row')
  <2> SUFFICES ASSUME NEW i \in Ids, row'[i] # NoRow
               PROVE  /\ Sound(i, row'[i])
                      /\ \A c \in Columns : row'[i][c] # Null => row'[row'[i][c]] # NoRow
    BY DEF TableSound
  <2>1. /\ row[i] # NoRow /\ row[i] \in Row /\ ~gone(i) /\ row'[i] = kept(i) /\ Sound(i, row[i])
        /\ \A c \in Columns : row[i][c] # Null => row[row[i][c]] # NoRow
    BY <1>5 DEF RecordsInv, TypeOK, TableSound
  <2>2. ASSUME NEW c \in Mandatory(i) PROVE row'[i][c] # Null
    <3>1. c \in Columns /\ OnDelete(i, c) \in {"restrict", "cascade"}
      BY MandatoryNotForgotten
    <3>2. row[i][c] # k
      <4>1. Referring(k, "restrict") = {}
        BY DEF Delete, MayGo
      <4> QED
        BY <2>1, <3>1, <4>1 DEF Referring, Present
    <3> QED
      BY <2>1, <2>2, <3>1, <3>2 DEF Sound
  <2>3. ASSUME NEW c \in Columns, row'[i][c] # Null PROVE row'[row'[i][c]] # NoRow
    <3>1. row'[i][c] = row[i][c] /\ row[i][c] # k /\ row[i][c] # Null
      BY <2>1, <2>3
    <3>2. row[i][c] \in Ids \ Belonging
      BY <2>1, <3>1, RowColumns, References
    <3> QED
      BY <1>6, <2>1, <3>1, <3>2
  <2>4. "ticket" \in Columns
    BY ColumnNames
  <2>5. row'[i]["ticket"] # Null => i \in Belonging
    BY <2>1, <2>4 DEF Sound
  <2> QED
    BY <2>2, <2>3, <2>5 DEF Sound
<1>8. ASSUME NEW s \in Requests PROVE request'[s] = request[s] \/ request'[s] = NoRequest
  BY DEF RecordsInv, TypeOK
<1>9. ASSUME NEW s \in Requests PROVE RequestSound(request'[s], row')
  <2>1. CASE request'[s] = NoRequest
    BY <2>1 DEF RequestSound
  <2>2. ASSUME request'[s] = request[s], request[s] # NoRequest
        PROVE  RequestSound(request'[s], row')
    <3> DEFINE q == request[s]
    <3>1. q \in Request /\ RequestSound(q, row)
      BY <2>2 DEF RecordsInv, TypeOK
    <3>2. q.step = "writes" => q.rows \in [Ids -> Row \cup {NoRow}]
      BY <3>1 DEF Request
    <3>3. q.step = "writes" =>
            \A i \in Ids : q.rows[i] # NoRow => \A c \in Columns : q.rows[i][c] # k
      BY <2>2 DEF Delete, MayGo, Locked, Does, Idle
    <3>4. ASSUME q.step = "writes", NEW i \in Ids, q.rows[i] # NoRow, NEW c \in Columns,
                 q.rows[i][c] # Null
          PROVE  row'[q.rows[i][c]] # NoRow \/ q.rows[q.rows[i][c]] # NoRow
      <4>1. q.rows[i][c] # k
        BY <3>3, <3>4
      <4>2. q.rows[i][c] \in Ids \ Belonging
        BY <3>2, <3>4, RowColumns, References
      <4>3. row[q.rows[i][c]] # NoRow \/ q.rows[q.rows[i][c]] # NoRow
        BY <2>2, <3>1, <3>4 DEF RequestSound
      <4> QED
        BY <1>6, <4>1, <4>2, <4>3
    <3> QED
      BY <2>2, <3>1, <3>4 DEF RequestSound
  <2> QED
    BY <1>8, <2>1, <2>2
<1>10. NewsAreNew'
  <2>1. \A s \in Requests : News(request'[s]) \subseteq News(request[s])
    BY <1>8 DEF News
  <2>2. \A s \in Requests : News(request[s]) \subseteq Ids
    BY DEF RecordsInv, TypeOK, Request, News, Ids
  <2>3. \A i \in Ids : row[i] = NoRow => row'[i] = NoRow
    BY <1>1
  <2> QED
    BY <2>1, <2>2, <2>3 DEF RecordsInv, NewsAreNew
<1>11. /\ email' \in [Users -> Emails \cup {Null}] /\ active' \subseteq Templates
       /\ request' \in [Requests -> Request \cup {NoRequest}]
  BY DEF Delete, RecordsInv, TypeOK
<1> QED
  BY <1>4, <1>7, <1>9, <1>10, <1>11 DEF RecordsInv, TypeOK

\* What a transaction wrote enters the tables together.
LEMMA CommitKeeps ==
  ASSUME RecordsInv, NEW r \in Requests, Commits(r) PROVE RecordsInv'
<1> DEFINE q == request[r]
<1>1. /\ q \in Request /\ q # NoRequest /\ q.step = "writes" /\ RequestSound(q, row)
      /\ q.rows \in [Ids -> Row \cup {NoRow}]
  <2>1. q \in Request /\ q # NoRequest /\ q.step = "writes" /\ RequestSound(q, row)
    BY DEF Commits, Does, Idle, RecordsInv, TypeOK
  <2> QED
    BY <2>1 DEF Request
<1>2. /\ row' = [i \in Ids |-> IF q.rows[i] = NoRow THEN row[i] ELSE q.rows[i]]
      /\ request' = [request EXCEPT ![r] = NoRequest]
      /\ UNCHANGED <<email, active>>
  BY DEF Commits, Ends, Takes
<1>3. \A i \in Ids : row[i] # NoRow => row'[i] # NoRow
  BY <1>2
<1>4. \A i \in Ids : q.rows[i] # NoRow => row'[i] # NoRow
  BY <1>2
<1>5. TypeOK'
  BY <1>1, <1>2 DEF RecordsInv, TypeOK
<1>6. TableSound(row)'
  <2> SUFFICES ASSUME NEW i \in Ids, row'[i] # NoRow
               PROVE  /\ Sound(i, row'[i])
                      /\ \A c \in Columns : row'[i][c] # Null => row'[row'[i][c]] # NoRow
    BY DEF TableSound
  <2>1. row'[i] \in Row
    BY <1>5 DEF TypeOK
  <2>2. CASE q.rows[i] = NoRow
    BY <1>2, <1>3, <2>1, <2>2, RowColumns DEF RecordsInv, TableSound
  <2>3. CASE q.rows[i] # NoRow
    <3>1. row'[i] = q.rows[i]
      BY <1>2, <2>3
    <3>2. \A c \in Columns : q.rows[i][c] # Null =>
            row[q.rows[i][c]] # NoRow \/ q.rows[q.rows[i][c]] # NoRow
      BY <1>1, <2>3 DEF RequestSound
    <3>3. Sound(i, q.rows[i])
      BY <1>1, <2>3 DEF RequestSound
    <3> QED
      BY <1>3, <1>4, <2>1, <3>1, <3>2, <3>3, RowColumns
  <2> QED
    BY <2>2, <2>3
<1>7. \A s \in Requests : request'[s] = IF s = r THEN NoRequest ELSE request[s]
  BY <1>2 DEF RecordsInv, TypeOK
<1>8. ASSUME NEW s \in Requests PROVE RequestSound(request'[s], row')
  <2>1. CASE request'[s] = NoRequest
    BY <2>1 DEF RequestSound
  <2>2. ASSUME request'[s] = request[s], request[s] # NoRequest
        PROVE  RequestSound(request'[s], row')
    <3> DEFINE o == request[s]
    <3>1. o \in Request /\ RequestSound(o, row)
      BY <2>2 DEF RecordsInv, TypeOK
    <3>2. o.step = "writes" => o.rows \in [Ids -> Row \cup {NoRow}]
      BY <3>1 DEF Request
    <3> QED
      BY <1>3, <2>2, <3>1, <3>2, RowColumns DEF RequestSound
  <2> QED
    BY <1>7, <2>1, <2>2
<1>9. NewsAreNew'
  <2>1. News(q) = {i \in Ids : q.rows[i] # NoRow} /\ News(NoRequest) = {}
    BY <1>1 DEF News
  <2>2. \A s \in Requests : News(request[s]) \subseteq Ids
    BY DEF RecordsInv, TypeOK, Request, News, Ids
  <2>3. \A s \in Requests : s # r => News(request[s]) \cap News(q) = {}
    BY DEF RecordsInv, NewsAreNew
  <2> QED
    BY <1>2, <1>7, <2>1, <2>2, <2>3 DEF RecordsInv, NewsAreNew
<1> QED
  BY <1>2, <1>5, <1>6, <1>8, <1>9 DEF RecordsInv

-----------------------------------------------------------------------------
\* Parts due to a template's tickets and copies are numbers.
LEMMA DueNumbers == \A k \in Templates : \A items \in SUBSET ItemsOf(k) : DueOf(items) \in Lines
<1> TAKE k \in Templates
<1> TAKE items \in SUBSET ItemsOf(k)
<1>1. ASSUME NEW p \in Parts PROVE Cardinality({i \in items : row[i].part = p}) \in Nat
  <2>1. {i \in items : row[i].part = p} \subseteq TemplateParts
    BY DEF ItemsOf
  <2> QED
    BY <2>1, FS_Subset, FS_CardinalityType, RecordsAssumption
<1> QED
  BY <1>1 DEF DueOf, Lines

\* A request that finds what it needs.
LEMMA ReadsKeep ==
  ASSUME RecordsInv, NEW r \in Requests,
         \/ \E k \in Customers : DeleteCustomerReads(r, k)
         \/ \E k \in Parts : DeletePartReads(r, k)
         \/ \E k \in Templates : DeleteTemplateReads(r, k)
         \/ \E u \in Users, e \in Emails : RegisterReads(r, u, e) \/ RenameReads(r, u, e)
  PROVE  RecordsInv'
<1>1. ASSUME NEW k \in Customers \cup Parts \cup Templates, UNCHANGED tables,
             Takes(r, [step |-> "deletes", id |-> k])
      PROVE  RecordsInv'
  <2> DEFINE q == [step |-> "deletes", id |-> k]
  <2>1. q \in Request /\ q # NoRequest
    BY RecordsAssumption DEF Request, Ids
  <2>2. RequestSound(q, row) /\ News(q) = {}
    BY <2>1 DEF RequestSound, News
  <2>3. request' = [request EXCEPT ![r] = q]
    BY <1>1 DEF Takes
  <2> HIDE DEF q
  <2> QED
    BY <1>1, <2>1, <2>2, <2>3, TakesKeeps
<1>2. ASSUME NEW u \in Users, NEW e \in Emails, NEW step \in {"registers", "renames"},
             UNCHANGED tables, step = "registers" => Fresh(u),
             Takes(r, [step |-> step, id |-> u, email |-> e])
      PROVE  RecordsInv'
  <2> DEFINE q == [step |-> step, id |-> u, email |-> e]
  <2>1. q \in Request /\ q # NoRequest /\ q.step = step /\ q.id = u
    BY RecordsAssumption DEF Request
  <2> HIDE DEF q
  <2>2. RequestSound(q, row) /\ \A i \in News(q) : Fresh(i)
    BY <1>2, <2>1 DEF RequestSound, News
  <2>3. request' = [request EXCEPT ![r] = q]
    BY <1>2 DEF Takes, q
  <2> QED
    BY <1>2, <2>1, <2>2, <2>3, TakesKeeps
<1> QED
  BY <1>1, <1>2 DEF DeleteCustomerReads, DeletePartReads, DeleteTemplateReads,
                    RegisterReads, RenameReads

LEMMA AddReadsKeep ==
  ASSUME RecordsInv, NEW r \in Requests,
         \/ \E i \in TemplateParts, k \in Templates, p \in Parts : AddItemReads(r, i, k, p)
         \/ \E i \in PartUsages, t \in Tickets, p \in Parts : AddUsageReads(r, i, t, p)
         \/ \E i \in TicketServices, t \in Tickets, k \in Templates : AddServiceReads(r, i, t, k)
         \/ \E i \in TicketNotes, t \in Tickets, u \in Users : AddNoteReads(r, i, t, u)
  PROVE  RecordsInv'
<1>1. ASSUME NEW i \in Ids, NEW columns \in Row, Fresh(i), Sound(i, columns),
             UNCHANGED tables, Takes(r, [step |-> "adds", id |-> i, row |-> columns])
      PROVE  RecordsInv'
  <2> DEFINE q == [step |-> "adds", id |-> i, row |-> columns]
  <2>1. q \in Request /\ q # NoRequest /\ q.step = "adds" /\ q.id = i /\ q.row = columns
    BY RecordsAssumption DEF Request
  <2> HIDE DEF q
  <2>2. RequestSound(q, row) /\ \A j \in News(q) : Fresh(j)
    BY <1>1, <2>1 DEF RequestSound, News
  <2>3. request' = [request EXCEPT ![r] = q]
    BY <1>1 DEF Takes, q
  <2> QED
    BY <1>1, <2>1, <2>2, <2>3, TakesKeeps
<1>2. ASSUME NEW i \in TemplateParts, NEW k \in Templates, NEW p \in Parts, AddItemReads(r, i, k, p)
      PROVE  RecordsInv'
  BY <1>1, <1>2, NewRows, NewRowsSound DEF AddItemReads, Ids
<1>3. ASSUME NEW i \in PartUsages, NEW t \in Tickets, NEW p \in Parts, AddUsageReads(r, i, t, p)
      PROVE  RecordsInv'
  BY <1>1, <1>3, NewRows, NewRowsSound DEF AddUsageReads, Ids
<1>4. ASSUME NEW i \in TicketServices, NEW t \in Tickets, NEW k \in Templates, AddServiceReads(r, i, t, k)
      PROVE  RecordsInv'
  BY <1>1, <1>4, NewRows, NewRowsSound DEF AddServiceReads, Ids
<1>5. ASSUME NEW i \in TicketNotes, NEW t \in Tickets, NEW u \in Users, AddNoteReads(r, i, t, u)
      PROVE  RecordsInv'
  BY <1>1, <1>5, NewRows, NewRowsSound DEF AddNoteReads, Ids
<1> QED
  BY <1>2, <1>3, <1>4, <1>5

LEMMA BeginReadsKeep ==
  ASSUME RecordsInv, NEW r \in Requests,
         \/ \E t \in Tickets, c \in Customers : OpenTicketReads(r, t, c)
         \/ \E t \in Tickets, c \in Customers, k \in Templates, u \in Users \cup {Null} :
              OpenFromTemplateReads(r, t, c, k, u)
         \/ \E copy, k \in Templates : DuplicateReads(r, copy, k)
  PROVE  RecordsInv'
<1>1. ASSUME NEW i \in Tickets \cup Templates, NEW columns \in Row, NEW due \in Lines,
             Fresh(i), Sound(i, columns), UNCHANGED tables,
             Takes(r, [step |-> "begins", id |-> i, row |-> columns, due |-> due])
      PROVE  RecordsInv'
  <2> DEFINE q == [step |-> "begins", id |-> i, row |-> columns, due |-> due]
  <2>1. q \in Request /\ q # NoRequest /\ q.step = "begins" /\ q.id = i /\ q.row = columns
    BY RecordsAssumption DEF Request
  <2> HIDE DEF q
  <2>2. RequestSound(q, row) /\ \A j \in News(q) : Fresh(j)
    BY <1>1, <2>1 DEF RequestSound, News
  <2>3. request' = [request EXCEPT ![r] = q]
    BY <1>1 DEF Takes, q
  <2> QED
    BY <1>1, <2>1, <2>2, <2>3, TakesKeeps
<1>2. ASSUME NEW t \in Tickets, NEW c \in Customers, OpenTicketReads(r, t, c) PROVE RecordsInv'
  <2>1. PICK due \in [Parts -> 0..MaxLines] :
          Takes(r, [step |-> "begins", id |-> t, row |-> [Alone EXCEPT !.customer = c], due |-> due])
    BY <1>2 DEF OpenTicketReads
  <2>2. due \in Lines
    BY RecordsAssumption DEF Lines
  <2> QED
    BY <1>1, <1>2, <2>1, <2>2, NewRows, NewRowsSound DEF OpenTicketReads
<1>3. ASSUME NEW t \in Tickets, NEW c \in Customers, NEW k \in Templates, NEW u \in Users \cup {Null},
             OpenFromTemplateReads(r, t, c, k, u)
      PROVE  RecordsInv'
  <2>1. PICK items \in SUBSET ItemsOf(k) :
          Takes(r, [step |-> "begins", id |-> t, due |-> DueOf(items),
                    row |-> [Alone EXCEPT !.customer = c, !.template = k, !.assignee = u]])
    BY <1>3 DEF OpenFromTemplateReads
  <2>2. DueOf(items) \in Lines
    BY DueNumbers
  <2> QED
    BY <1>1, <1>3, <2>1, <2>2, NewRows, NewRowsSound DEF OpenFromTemplateReads
<1>4. ASSUME NEW copy \in Templates, NEW k \in Templates, DuplicateReads(r, copy, k)
      PROVE  RecordsInv'
  <2>1. DueOf(ItemsOf(k)) \in Lines
    BY DueNumbers
  <2>2. Sound(copy, Alone)
    BY NewRowsSound, References, RecordsAssumption, ColumnNames DEF Ids
  <2> QED
    BY <1>1, <1>4, <2>1, <2>2, NewRows DEF DuplicateReads
<1> QED
  BY <1>2, <1>3, <1>4

\* A transaction writes its first row, its lines, or ends with nothing written.
LEMMA WritesKeep ==
  ASSUME RecordsInv, NEW r \in Requests,
         \/ InsertsHead(r) \/ Fails(r)
         \/ \E i \in TemplateParts \cup PartUsages, p \in Parts : InsertsLine(r, i, p)
  PROVE  RecordsInv'
<1> DEFINE q == request[r]
<1>0. q \in Request \cup {NoRequest} /\ RequestSound(q, row)
  BY DEF RecordsInv, TypeOK
<1>1. CASE InsertsHead(r)
  <2> DEFINE rows == [[i \in Ids |-> NoRow] EXCEPT ![q.id] = q.row]
             n == [step |-> "writes", id |-> q.id, due |-> q.due, rows |-> rows]
  <2>1. q \in Request /\ q # NoRequest /\ q.step = "begins"
    BY <1>0, <1>1 DEF InsertsHead, Does, Idle
  <2>2. q.id \in Ids /\ q.id \in Tickets \cup Templates /\ q.row \in Row /\ q.due \in Lines
    BY <2>1 DEF Request, Ids
  <2>3. rows \in [Ids -> Row \cup {NoRow}] /\ \A i \in Ids : rows[i] = IF i = q.id THEN q.row ELSE NoRow
    BY <2>2
  <2> HIDE DEF rows
  <2>4. n \in Request /\ n # NoRequest /\ n.step = "writes" /\ n.rows = rows /\ n.id = q.id
    BY <2>2, <2>3, RecordsAssumption DEF Request
  <2>5. request' = [request EXCEPT ![r] = n] /\ UNCHANGED tables
    BY <1>1 DEF InsertsHead, Takes, rows
  <2> HIDE DEF n
  <2>6. Sound(q.id, q.row) /\ \A c \in Columns : q.row[c] # Null => row[q.row[c]] # NoRow
    BY <1>0, <1>1, <2>1 DEF RequestSound, InsertsHead, Satisfied, Present
  <2>7. RequestSound(n, row)
    BY <2>2, <2>3, <2>4, <2>6, RecordsAssumption DEF RequestSound
  <2>8. \A i \in News(n) : i \in News(q)
    BY <2>1, <2>3, <2>4 DEF News
  <2> QED
    BY <2>4, <2>5, <2>7, <2>8, TakesKeeps
<1>2. CASE Fails(r)
  <2>1. request' = [request EXCEPT ![r] = NoRequest] /\ UNCHANGED tables
    BY <1>2 DEF Fails, Ends, Takes
  <2>2. RequestSound(NoRequest, row) /\ News(NoRequest) = {}
    BY DEF RequestSound, News
  <2> QED
    BY <2>1, <2>2, TakesKeeps
<1>3. ASSUME NEW i \in TemplateParts \cup PartUsages, NEW p \in Parts, InsertsLine(r, i, p)
      PROVE  RecordsInv'
  <2> DEFINE line == IF q.id \in Tickets THEN [Alone EXCEPT !.ticket = q.id, !.part = p]
                                         ELSE [Alone EXCEPT !.template = q.id, !.part = p]
             rows == [q.rows EXCEPT ![i] = line]
             due == [q.due EXCEPT ![p] = @ - 1]
             n == [step |-> "writes", id |-> q.id, due |-> due, rows |-> rows]
  <2>1. q \in Request /\ q # NoRequest /\ q.step = "writes"
    BY <1>0, <1>3 DEF InsertsLine, Does, Idle
  <2>2. /\ q.id \in Tickets \cup Templates /\ q.rows \in [Ids -> Row \cup {NoRow}] /\ q.due \in Lines
        /\ q = [step |-> "writes", id |-> q.id, due |-> q.due, rows |-> q.rows]
    BY <2>1 DEF Request
  <2>3. i \in Ids /\ q.due[p] > 0 /\ Fresh(i) /\ row[p] # NoRow /\ p \in Ids
    BY <1>3 DEF InsertsLine, Ids, Present
  <2>4. line \in Row /\ Sound(i, line)
    BY <1>3, <2>2, NewRows, NewRowsSound DEF InsertsLine
  <2>5. \A c \in Columns : line[c] \in {Null, q.id, p}
    BY ColumnNames DEF Alone
  <2>6. request' = [request EXCEPT ![r] = n] /\ UNCHANGED tables
    BY <1>3 DEF InsertsLine, Takes
  <2> HIDE DEF line
  <2>7. rows \in [Ids -> Row \cup {NoRow}] /\ \A j \in Ids : rows[j] = IF j = i THEN line ELSE q.rows[j]
    BY <2>2, <2>3, <2>4
  <2>8. due \in Lines
    BY <2>2, <2>3 DEF Lines
  <2> HIDE DEF rows, due
  <2>9. n \in Request /\ n # NoRequest /\ n.step = "writes" /\ n.rows = rows /\ n.id = q.id
    BY <2>2, <2>7, <2>8, RecordsAssumption DEF Request
  <2> HIDE DEF n
  <2>10. \A j \in News(n) : j \in News(q) \/ Fresh(j)
    BY <2>1, <2>3, <2>7, <2>9 DEF News
  <2>11. RequestSound(n, row)
    <3>1. /\ q.rows[q.id] # NoRow /\ q.id \in Ids /\ NoRow \notin Row
          /\ \A j \in Ids : q.rows[j] # NoRow =>
               /\ Sound(j, q.rows[j])
               /\ \A c \in Columns : q.rows[j][c] # Null =>
                    row[q.rows[j][c]] # NoRow \/ q.rows[q.rows[j][c]] # NoRow
      BY <1>0, <2>1, <2>2, RecordsAssumption DEF RequestSound, Ids
    <3>2. \A j \in Ids : q.rows[j] # NoRow => rows[j] # NoRow
      BY <2>4, <2>7, <3>1
    <3>3. \A c \in Columns : line[c] # Null => row[line[c]] # NoRow \/ rows[line[c]] # NoRow
      BY <2>3, <2>5, <3>1, <3>2
    <3>4. ASSUME NEW j \in Ids, rows[j] # NoRow, j # i
          PROVE  /\ Sound(j, rows[j])
                 /\ \A c \in Columns : rows[j][c] # Null =>
                      row[rows[j][c]] # NoRow \/ rows[rows[j][c]] # NoRow
      <4>1. rows[j] = q.rows[j] /\ rows[j] \in Row
        BY <2>7, <3>4
      <4> QED
        BY <3>1, <3>2, <3>4, <4>1, RowColumns
    <3>5. Sound(i, rows[i]) /\ rows[i] = line
      BY <2>3, <2>4, <2>7
    <3> QED
      BY <2>9, <3>1, <3>2, <3>3, <3>4, <3>5 DEF RequestSound
  <2> QED
    BY <2>6, <2>9, <2>10, <2>11, TakesKeeps
<1> QED
  BY <1>1, <1>2, <1>3

\* Rows that come one by one.
LEMMA InsertsKeep ==
  ASSUME RecordsInv,
         \/ \E k \in Customers : CreateCustomer(k)
         \/ \E k \in Parts : CreatePart(k)
         \/ \E k \in Templates, isActive \in BOOLEAN : CreateTemplate(k, isActive)
         \/ \E r \in Requests : Adds(r) \/ Registers(r)
  PROVE  RecordsInv'
<1>0. /\ email \in [Users -> Emails \cup {Null}] /\ active \subseteq Templates
  BY DEF RecordsInv, TypeOK
<1>1. ASSUME NEW k \in Customers \cup Parts \cup Templates, Fresh(k), Insert(k, Alone),
             UNCHANGED <<email, request>>, active' \subseteq Templates
      PROVE  RecordsInv'
  <2>1. k \in Ids \ (Tickets \cup Belonging)
    BY References, RecordsAssumption, ColumnNames DEF Ids, Referred
  <2>2. Sound(k, Alone) /\ Alone \in Row
    BY <2>1, NewRowsSound, NewRows
  <2> QED
    BY <1>0, <1>1, <2>1, <2>2, InsertKeeps
<1>2. ASSUME NEW k \in Customers, CreateCustomer(k) PROVE RecordsInv'
  BY <1>0, <1>1, <1>2 DEF CreateCustomer
<1>3. ASSUME NEW k \in Parts, CreatePart(k) PROVE RecordsInv'
  BY <1>0, <1>1, <1>3 DEF CreatePart
<1>4. ASSUME NEW k \in Templates, NEW isActive \in BOOLEAN, CreateTemplate(k, isActive) PROVE RecordsInv'
  BY <1>0, <1>1, <1>4 DEF CreateTemplate
<1>5. ASSUME NEW r \in Requests, Adds(r) PROVE RecordsInv'
  <2> DEFINE q == request[r]
  <2>1. q \in Request /\ q # NoRequest /\ q.step = "adds" /\ RequestSound(q, row)
    BY <1>5 DEF Adds, Does, Idle, RecordsInv, TypeOK
  <2>2. q.id \in Ids /\ q.row \in Row
    BY <2>1 DEF Request, Ids
  <2>3. Sound(q.id, q.row) /\ News(q) = {q.id}
    BY <2>1 DEF RequestSound, News
  <2>4. /\ Insert(q.id, q.row) /\ request' = [request EXCEPT ![r] = NoRequest]
        /\ UNCHANGED <<email, active>>
    BY <1>5 DEF Adds, Ends, Takes
  <2> QED
    BY <1>0, <2>2, <2>3, <2>4, InsertKeeps
<1>6. ASSUME NEW r \in Requests, Registers(r) PROVE RecordsInv'
  <2> DEFINE q == request[r]
  <2>1. q \in Request /\ q # NoRequest /\ q.step = "registers"
    BY <1>6 DEF Registers, Does, Idle, RecordsInv, TypeOK
  <2>2. q.id \in Users /\ q.email \in Emails
    BY <2>1 DEF Request
  <2>3. q.id \in Ids \ (Tickets \cup Belonging)
    BY <2>2, References, RecordsAssumption, ColumnNames DEF Ids, Referred
  <2>4. Sound(q.id, Alone) /\ Alone \in Row /\ News(q) = {q.id}
    BY <2>1, <2>3, NewRowsSound, NewRows DEF News
  <2>5. /\ Insert(q.id, Alone) /\ request' = [request EXCEPT ![r] = NoRequest]
        /\ email' = [email EXCEPT ![q.id] = q.email] /\ active' = active
    BY <1>6 DEF Registers, Ends, Takes
  <2>6. email' \in [Users -> Emails \cup {Null}]
    BY <1>0, <2>2, <2>5
  <2> QED
    BY <1>0, <2>3, <2>4, <2>5, <2>6, InsertKeeps
<1> QED
  BY <1>2, <1>3, <1>4, <1>5, <1>6

\* Rows that go, and edits.
LEMMA DeletesKeep ==
  ASSUME RecordsInv,
         \/ \E r \in Requests : Deletes(r)
         \/ \E k \in Users \cup Tickets \cup Belonging : DeleteOne(k)
  PROVE  RecordsInv'
<1>1. ASSUME NEW k \in Users \cup Tickets \cup Belonging, DeleteOne(k) PROVE RecordsInv'
  BY <1>1, DeleteKeeps DEF DeleteOne, Ids, Belonging
<1>2. ASSUME NEW r \in Requests, Deletes(r) PROVE RecordsInv'
  <2>1. request[r].id \in Ids
    BY <1>2 DEF Deletes, Does, Idle, RecordsInv, TypeOK, Request, Ids
  <2> QED
    BY <1>2, <2>1, DeleteKeeps DEF Deletes, Ends, Takes
<1> QED
  BY <1>1, <1>2

LEMMA EditsKeep ==
  ASSUME RecordsInv,
         \/ \E k \in Templates : ToggleTemplate(k)
         \/ \E t \in Tickets, u \in Users : Assign(t, u)
         \/ \E r \in Requests : Renames(r)
  PROVE  RecordsInv'
<1>1. ASSUME NEW k \in Templates, ToggleTemplate(k) PROVE RecordsInv'
  BY <1>1 DEF ToggleTemplate, RecordsInv, TypeOK, NewsAreNew
<1>2. ASSUME NEW t \in Tickets, NEW u \in Users, Assign(t, u) PROVE RecordsInv'
  <2> DEFINE columns == [row[t] EXCEPT !["assignee"] = u]
  <2>1. /\ t \in Ids /\ u \in Ids /\ row[t] # NoRow /\ row[u] # NoRow /\ row[t] \in Row
        /\ UNCHANGED <<email, active, request>>
    BY <1>2 DEF Assign, Present, Ids, RecordsInv, TypeOK
  <2>2. row' = [row EXCEPT ![t] = columns]
    BY <1>2 DEF Assign
  <2>3. columns \in Row /\ \A c \in Columns : columns[c] = IF c = "assignee" THEN u ELSE row[t][c]
    BY <2>1, ColumnNames DEF Row, Referred
  <2>4. Sound(t, columns)
    <3>1. Sound(t, row[t]) /\ u # Null
      BY <2>1, RecordsAssumption DEF RecordsInv, TableSound
    <3>2. Mandatory(t) \subseteq Columns /\ "ticket" \in Columns
      BY <2>1, MandatoryNotForgotten, ColumnNames
    <3> QED
      BY <2>3, <3>1, <3>2 DEF Sound
  <2> HIDE DEF columns
  <2>5. row' \in [Ids -> Row \cup {NoRow}] /\ \A i \in Ids : row'[i] = IF i = t THEN columns ELSE row[i]
    BY <2>1, <2>2, <2>3 DEF RecordsInv, TypeOK
  <2>6. \A i \in Ids : row'[i] # NoRow <=> row[i] # NoRow
    BY <2>1, <2>3, <2>5, RecordsAssumption
  <2>7. TableSound(row')
    <3> SUFFICES ASSUME NEW i \in Ids, row'[i] # NoRow
                 PROVE  /\ Sound(i, row'[i])
                        /\ \A c \in Columns : row'[i][c] # Null => row'[row'[i][c]] # NoRow
      BY DEF TableSound
    <3>1. row'[i] \in Row
      BY <2>5
    <3>2. /\ row[i] # NoRow /\ Sound(i, row[i])
          /\ \A c \in Columns : row[i][c] # Null => row[row[i][c]] # NoRow
      BY <2>6 DEF RecordsInv, TableSound
    <3> QED
      BY <2>1, <2>3, <2>4, <2>5, <2>6, <3>1, <3>2, RowColumns
  <2>8. ASSUME NEW s \in Requests PROVE RequestSound(request[s], row')
    <3>1. CASE request[s] = NoRequest
      BY <3>1 DEF RequestSound
    <3>2. CASE request[s] # NoRequest
      <4> DEFINE q == request[s]
      <4>1. q \in Request /\ RequestSound(q, row)
        BY <3>2 DEF RecordsInv, TypeOK
      <4>2. q.step = "writes" => q.rows \in [Ids -> Row \cup {NoRow}]
        BY <4>1 DEF Request
      <4> QED
        BY <2>6, <3>2, <4>1, <4>2, RowColumns DEF RequestSound
    <3> QED
      BY <3>1, <3>2
  <2>9. NewsAreNew'
    <3>1. \A s \in Requests : News(request[s]) \subseteq Ids
      BY DEF RecordsInv, TypeOK, Request, News, Ids
    <3> QED
      BY <2>1, <2>6, <3>1 DEF RecordsInv, NewsAreNew
  <2> QED
    BY <2>1, <2>5, <2>7, <2>8, <2>9 DEF RecordsInv, TypeOK
<1>3. ASSUME NEW r \in Requests, Renames(r) PROVE RecordsInv'
  <2> DEFINE q == request[r]
  <2>1. q \in Request /\ q # NoRequest /\ q.step = "renames"
    BY <1>3 DEF Renames, Does, Idle, RecordsInv, TypeOK
  <2>2. q.id \in Users /\ q.email \in Emails
    BY <2>1 DEF Request
  <2>3. email' = [email EXCEPT ![q.id] = q.email] /\ UNCHANGED <<row, active>>
    BY <1>3 DEF Renames
  <2>4. email' \in [Users -> Emails \cup {Null}]
    BY <2>2, <2>3 DEF RecordsInv, TypeOK
  <2>5. \A s \in Requests : request'[s] = IF s = r THEN NoRequest ELSE request[s]
    BY <1>3 DEF Renames, Ends, Takes, RecordsInv, TypeOK
  <2>6. request' \in [Requests -> Request \cup {NoRequest}]
    BY <1>3 DEF Renames, Ends, Takes, RecordsInv, TypeOK
  <2>7. NewsAreNew' /\ \A s \in Requests : RequestSound(request'[s], row')
    BY <2>3, <2>5 DEF NewsAreNew, News, RequestSound, RecordsInv
  <2> QED
    BY <2>3, <2>4, <2>6, <2>7 DEF RecordsInv, TypeOK
<1> QED
  BY <1>1, <1>2, <1>3

-----------------------------------------------------------------------------
LEMMA RecordsStart == Init => RecordsInv
<1> SUFFICES ASSUME Init PROVE RecordsInv
  OBVIOUS
<1>1. TypeOK
  BY DEF Init, TypeOK
<1>2. \A r \in Requests : request[r] = NoRequest
  BY DEF Init
<1> QED
  BY <1>1, <1>2 DEF Init, RecordsInv, TableSound, RequestSound, NewsAreNew, News

LEMMA RecordsStep == RecordsInv /\ [Next]_vars => RecordsInv'
<1> SUFFICES ASSUME RecordsInv, [Next]_vars PROVE RecordsInv'
  OBVIOUS
<1>1. CASE UNCHANGED vars
  BY <1>1 DEF vars, RecordsInv, TypeOK, NewsAreNew
<1>2. ASSUME NEW r \in Requests, Handles(r) PROVE RecordsInv'
  BY <1>2, ReadsKeep, AddReadsKeep, BeginReadsKeep, WritesKeep, InsertsKeep, DeletesKeep,
     EditsKeep, CommitKeeps DEF Handles
<1> QED
  BY <1>1, <1>2, InsertsKeep, DeletesKeep, EditsKeep DEF Next

\* Rows, addresses and requests keep their types, whatever the tables hold.
THEOREM RecordsTypeCorrect == Spec => []TypeOK
<1>1. RecordsInv => TypeOK
  BY DEF RecordsInv
<1> QED
  BY <1>1, RecordsStart, RecordsStep, PTL DEF Spec

\* Every reference points to a row that is there and mandatory ones are never
\* forgotten, however deletions race the handlers that write rows.
THEOREM ReferencesCorrect == Spec => []ReferencesHold
<1>1. RecordsInv => ReferencesHold
  <2> SUFFICES ASSUME RecordsInv, NEW i \in Ids, row[i] # NoRow
               PROVE  /\ \A c \in Columns : row[i][c] # Null => row[row[i][c]] # NoRow
                      /\ \A c \in Mandatory(i) : row[i][c] # Null
    BY DEF ReferencesHold, Present, Satisfied
  <2> QED
    BY DEF RecordsInv, TableSound, Sound
<1> QED
  BY <1>1, RecordsStart, RecordsStep, PTL DEF Spec

-----------------------------------------------------------------------------
\* What a step of WorkKept demands.
WorkStays ==
  /\ Gone \cap (Customers \cup Users \cup Parts \cup Templates) # {} =>
       Gone \cap (Tickets \cup PartUsages \cup TicketServices \cup TicketNotes) = {}
  /\ Gone \cap Tickets # {} => Gone \cap PartUsages = {}
  /\ \A t \in Tickets : Present(t) /\ t \notin Gone => row'[t].customer = row[t].customer

LEMMA NothingGone ==
  ASSUME Gone = {}, \A t \in Tickets : Present(t) => row'[t].customer = row[t].customer
  PROVE  WorkStays
  BY DEF WorkStays

LEMMA DeleteKeepsWork ==
  ASSUME RecordsInv, NEW k \in Ids, Delete(k) PROVE WorkStays
<1>1. Gone = {k} \cup Referring(k, "cascade")
  <2>1. \A i \in Ids : i \in Gone <=> row[i] # NoRow /\ row'[i] = NoRow
    BY DEF Gone, Present
  <2>2. row[k] # NoRow /\ Gone \subseteq Ids /\ Referring(k, "cascade") \subseteq Ids
    BY DEF Delete, MayGo, Present, Gone, Referring
  <2>3. ASSUME NEW i \in Ids, row[i] # NoRow, i # k, i \notin Referring(k, "cascade")
        PROVE  row'[i] # NoRow
    <3>1. row'[i] = [c \in Columns |-> IF row[i][c] = k THEN Null ELSE row[i][c]]
      BY <2>3 DEF Delete
    <3>2. row[i] \in Row
      BY <2>3 DEF RecordsInv, TypeOK
    <3>3. row'[i] \in Row
      <4>1. \A c \in Columns : row'[i][c] \in Referred[c] \cup {Null}
        BY <3>1, <3>2, RowColumns
      <4>2. row'[i] = [c \in Columns |-> row'[i][c]]
        BY <3>1
      <4> HIDE DEF Delete
      <4> QED
        BY <4>1, <4>2, MakeRow
    <3> QED
      BY <3>3, RecordsAssumption
  <2>4. ASSUME NEW i \in Ids, i = k \/ i \in Referring(k, "cascade")
        PROVE  row[i] # NoRow /\ row'[i] = NoRow
    BY <2>2, <2>4, CascadeBelongs DEF Delete
  <2> QED
    BY <2>1, <2>2, <2>3, <2>4
<1>2. \A i \in Referring(k, "cascade") :
         /\ i \in Belonging
         /\ \/ k \in Tickets /\ i \notin PartUsages
            \/ k \in Templates /\ i \in TemplateParts
  BY CascadeBelongs
<1>3. /\ (Customers \cup Users \cup Parts \cup Templates \cup Tickets) \cap Belonging = {}
      /\ Tickets \cap (Customers \cup Users \cup Parts \cup Templates) = {}
      /\ TemplateParts \cap (PartUsages \cup TicketServices \cup TicketNotes) = {}
  BY References, RecordsAssumption, ColumnNames DEF Referred
<1>4. \/ k \in Customers \cup Users \cup Parts \cup Templates
      \/ k \in Tickets
      \/ k \in Belonging
  BY DEF Ids, Belonging
<1>5. Gone \cap (Customers \cup Users \cup Parts \cup Templates) # {} =>
        Gone \cap (Tickets \cup PartUsages \cup TicketServices \cup TicketNotes) = {}
  BY <1>1, <1>2, <1>3, <1>4 DEF Belonging
<1>6. Gone \cap Tickets # {} => Gone \cap PartUsages = {}
  BY <1>1, <1>2, <1>3, <1>4 DEF Belonging
<1>7. ASSUME NEW t \in Tickets, Present(t), t \notin Gone PROVE row'[t].customer = row[t].customer
  <2>1. t \in Ids /\ row[t] # NoRow /\ t # k /\ t \notin Referring(k, "cascade")
    BY <1>1, <1>7 DEF Ids, Present
  <2>2. row'[t] = [c \in Columns |-> IF row[t][c] = k THEN Null ELSE row[t][c]]
    BY <2>1 DEF Delete
  <2>3. "customer" \in Columns /\ row[t]["customer"] # k
    BY <2>1, ColumnNames DEF Delete, MayGo, Referring, OnDelete, Present
  <2>4. row'[t]["customer"] = row[t]["customer"]
    BY <2>2, <2>3
  <2> QED
    BY <2>4
<1> QED
  BY <1>5, <1>6, <1>7 DEF WorkStays

\* Deleting a customer, user, part or template takes no work with it, a ticket
\* takes no part usage with it, and a ticket never changes its customer.
THEOREM WorkCorrect == Spec => WorkKept
<1>1. RecordsInv /\ [Next]_vars => [WorkStays]_vars
  <2> SUFFICES ASSUME RecordsInv, Next PROVE WorkStays
    BY DEF vars
  <2>1. CASE UNCHANGED row
    BY <2>1, NothingGone DEF Gone, Present
  <2>2. ASSUME NEW i, NEW columns, Insert(i, columns) PROVE WorkStays
    <3>1. \A j \in Ids : row[j] # NoRow => row'[j] = row[j]
      BY <2>2 DEF Insert, Present, RecordsInv, TypeOK
    <3> QED
      BY <3>1, NothingGone DEF Gone, Present, Ids
  <2>3. ASSUME NEW t \in Tickets, NEW u \in Users, Assign(t, u) PROVE WorkStays
    <3>1. row' = [row EXCEPT ![t] = [row[t] EXCEPT !["assignee"] = u]] /\ row[t] # NoRow
      BY <2>3 DEF Assign, Present
    <3>2. row[t] \in Row /\ t \in Ids
      BY <3>1 DEF RecordsInv, TypeOK, Ids
    <3> DEFINE columns == [row[t] EXCEPT !["assignee"] = u]
    <3>3. columns # NoRow /\ columns["customer"] = row[t]["customer"]
      <4>1. columns \in Row
        BY <3>2, ColumnNames DEF Row, Referred, Ids
      <4> QED
        BY <3>2, <4>1, ColumnNames, RecordsAssumption DEF Row
    <3>4. columns.customer = row[t].customer
      BY <3>3
    <3> HIDE DEF columns
    <3>5. \A j \in Ids : row'[j] = IF j = t THEN columns ELSE row[j]
      BY <3>1, <3>2 DEF columns, RecordsInv, TypeOK
    <3> QED
      BY <3>3, <3>4, <3>5, NothingGone DEF Gone, Present, Ids
  <2>4. ASSUME NEW r \in Requests, Commits(r) PROVE WorkStays
    <3> DEFINE q == request[r]
    <3>1. q \in Request /\ q # NoRequest /\ q.step = "writes"
      BY <2>4 DEF Commits, Does, Idle, RecordsInv, TypeOK
    <3>2. \A i \in Ids : q.rows[i] # NoRow => row[i] = NoRow
      BY <3>1 DEF RecordsInv, NewsAreNew, News
    <3>3. \A i \in Ids : row[i] # NoRow => row'[i] = row[i]
      BY <2>4, <3>2 DEF Commits
    <3> QED
      BY <3>3, NothingGone DEF Gone, Present, Ids
  <2>5. ASSUME NEW r \in Requests, Deletes(r) PROVE WorkStays
    <3>1. request[r].id \in Ids
      BY <2>5 DEF Deletes, Does, Idle, RecordsInv, TypeOK, Request, Ids
    <3> QED
      BY <2>5, <3>1, DeleteKeepsWork DEF Deletes
  <2>6. ASSUME NEW k \in Users \cup Tickets \cup Belonging, DeleteOne(k) PROVE WorkStays
    BY <2>6, DeleteKeepsWork DEF DeleteOne, Ids, Belonging
  <2>7. ASSUME NEW r \in Requests, Handles(r) PROVE WorkStays
    <3>1. UNCHANGED row \/ Commits(r) \/ Deletes(r) \/ Adds(r) \/ Registers(r)
      BY <2>7 DEF Handles, tables, DeleteCustomerReads, DeletePartReads, DeleteTemplateReads,
           AddItemReads, AddUsageReads, AddServiceReads, AddNoteReads, RegisterReads, RenameReads,
           OpenTicketReads, OpenFromTemplateReads, DuplicateReads, Renames, InsertsHead, Fails,
           InsertsLine
    <3> QED
      BY <2>1, <2>2, <2>4, <2>5, <2>7, <3>1 DEF Adds, Registers
  <2>8. CASE \/ \E k \in Customers : CreateCustomer(k)
             \/ \E k \in Parts : CreatePart(k)
             \/ \E k \in Templates :
                  ToggleTemplate(k) \/ \E isActive \in BOOLEAN : CreateTemplate(k, isActive)
    BY <2>1, <2>2, <2>8 DEF CreateCustomer, CreatePart, ToggleTemplate, CreateTemplate
  <2> QED
    BY <2>3, <2>6, <2>7, <2>8 DEF Next
<1>2. Spec => [][WorkStays]_vars
  BY <1>1, RecordsStart, RecordsStep, PTL DEF Spec
<1> QED
  BY <1>2, PTL DEF WorkKept, WorkStays

=============================================================================
