----------------------------- MODULE CashProofs -----------------------------
(* Proofs about CashRegisters: its types, and that the balance of the trigger  *)
(* and the one computed from the movements agree.                              *)
EXTENDS CashRegisters, TLAPS

\* Handlers in flight: a new register's id is its own, the others' registers
\* exist.  A register that does not exist has no entries.
CallsInv ==
  /\ \A k \in Clerks : call[k] # NoCall =>
       (Exists(call[k].register) <=> call[k].kind # "open")
  /\ \A j, k \in Clerks :
       Does(j, "open") /\ Does(k, "open") /\ call[j].register = call[k].register => j = k

NoEntriesYet == \A c \in Registers : ~Exists(c) => entries[c] = NoEntries

CashInv == CashTypeOK /\ CallsInv /\ NoEntriesYet /\ TriggerAgreesWithStats

\* What the trigger adds is what the columns' balance grows by.
LEMMA TriggerAddsUp ==
  ASSUME NEW columns \in Columns, NEW type \in EntryTypes, NEW amount \in Nat,
         NEW opening \in Int
  PROVE  Balance(opening, [columns EXCEPT ![type] = columns[type] + amount])
           = Balance(opening, columns) + SyncBalance(type, amount)
<1>1. /\ columns["INCOME"] \in Nat /\ columns["EXPENSE"] \in Nat
      /\ columns["WITHDRAWAL"] \in Nat
  BY DEF Columns, EntryTypes
<1>2. CASE type = "INCOME"
  BY <1>1, <1>2 DEF Columns, EntryTypes, Balance, SyncBalance
<1>3. CASE type = "EXPENSE"
  BY <1>1, <1>3 DEF Columns, EntryTypes, Balance, SyncBalance
<1>4. CASE type = "WITHDRAWAL"
  BY <1>1, <1>4 DEF Columns, EntryTypes, Balance, SyncBalance
<1> QED
  BY <1>2, <1>3, <1>4 DEF EntryTypes

\* An entry in a register that exists, whoever makes it, keeps the invariant.
LEMMA RecordEntryKeeps ==
  ASSUME CashInv, NEW c \in Registers, Exists(c),
         NEW type \in EntryTypes, NEW amount \in Nat, RecordEntry(c, type, amount)
  PROVE  /\ register' \in [Registers -> RegisterRow \cup {NoRegister}]
         /\ entries' \in [Registers -> Columns]
         /\ \A d \in Registers : Exists(d)' <=> Exists(d)
         /\ NoEntriesYet'
         /\ TriggerAgreesWithStats'
<1> DEFINE row == [register[c] EXCEPT
                     !.expected = register[c].expected + SyncBalance(type, amount)]
           columns == [entries[c] EXCEPT ![type] = entries[c][type] + amount]
<1>1. register[c] \in RegisterRow /\ entries[c] \in Columns
  BY DEF CashInv, CashTypeOK, Exists
<1>2. register[c].expected + SyncBalance(type, amount) \in Int
  BY <1>1 DEF RegisterRow, SyncBalance
<1>3. /\ row \in RegisterRow
      /\ row.expected = register[c].expected + SyncBalance(type, amount)
      /\ row.opening = register[c].opening /\ row.isOpen = register[c].isOpen
  BY <1>1, <1>2 DEF RegisterRow
<1>4. columns \in Columns
  BY <1>1 DEF Columns
<1>5. register' = [register EXCEPT ![c] = row] /\ entries' = [entries EXCEPT ![c] = columns]
  BY DEF RecordEntry
<1> HIDE DEF row
<1>6. /\ register' \in [Registers -> RegisterRow \cup {NoRegister}]
      /\ entries' \in [Registers -> Columns]
  BY <1>3, <1>4, <1>5 DEF CashInv, CashTypeOK
<1>7. /\ register'[c] = row /\ entries'[c] = columns
      /\ \A d \in Registers \ {c} : register'[d] = register[d] /\ entries'[d] = entries[d]
  BY <1>5 DEF CashInv, CashTypeOK
<1>8. \A d \in Registers : Exists(d)' <=> Exists(d)
  BY <1>3, <1>7, CashAssumption DEF Exists
<1>9. NoEntriesYet'
  BY <1>7, <1>8 DEF CashInv, NoEntriesYet
<1>10. TriggerAgreesWithStats'
  <2> SUFFICES ASSUME NEW d \in Registers, IsOpen(d)'
               PROVE  register'[d].expected + register'[d].opening
                        = Balance(register'[d].opening, entries'[d])
    BY DEF TriggerAgreesWithStats
  <2>1. CASE d # c
    BY <1>7, <2>1 DEF CashInv, TriggerAgreesWithStats, IsOpen, Exists
  <2>2. CASE d = c
    <3>1. register[c].expected + register[c].opening
            = Balance(register[c].opening, entries[c])
      BY <1>3, <1>7, <2>2 DEF CashInv, TriggerAgreesWithStats, IsOpen
    <3>2. Balance(register[c].opening, columns)
            = Balance(register[c].opening, entries[c]) + SyncBalance(type, amount)
      BY <1>1, TriggerAddsUp DEF RegisterRow
    <3>3. /\ register[c].expected \in Int /\ register[c].opening \in Int
          /\ SyncBalance(type, amount) \in Int
          /\ Balance(register[c].opening, entries[c]) \in Int
      BY <1>1 DEF RegisterRow, SyncBalance, Balance, Columns, EntryTypes
    <3> QED
      BY <1>3, <1>7, <2>2, <3>1, <3>2, <3>3
  <2> QED
    BY <2>1, <2>2
<1> QED
  BY <1>6, <1>8, <1>9, <1>10

\* A handler that only starts, reads or ends leaves the registers alone.
LEMMA CallStepKeeps ==
  ASSUME CashInv, NEW k \in Clerks, NEW next \in Call \cup {NoCall},
         call' = [call EXCEPT ![k] = next], UNCHANGED <<register, entries>>,
         next # NoCall => (Exists(next.register) <=> next.kind # "open"),
         next # NoCall /\ next.kind = "open" =>
           \A j \in Clerks \ {k} : Does(j, "open") => call[j].register # next.register
  PROVE  CashInv'
<1>1. /\ call'[k] = next /\ call' \in [Clerks -> Call \cup {NoCall}]
      /\ \A j \in Clerks \ {k} : call'[j] = call[j]
  BY DEF CashInv, CashTypeOK
<1>2. \A c \in Registers : (Exists(c)' <=> Exists(c)) /\ (IsOpen(c)' <=> IsOpen(c))
  BY DEF Exists, IsOpen
<1>3. CashTypeOK' /\ NoEntriesYet' /\ TriggerAgreesWithStats'
  BY <1>1, <1>2 DEF CashInv, CashTypeOK, NoEntriesYet, TriggerAgreesWithStats
<1>4. \A j \in Clerks : call'[j] # NoCall =>
        ((register'[call'[j].register] # NoRegister) <=> call'[j].kind # "open")
  BY <1>1 DEF CashInv, CallsInv, Exists
<1>5. \A i, j \in Clerks :
        Does(i, "open")' /\ Does(j, "open")' /\ call'[i].register = call'[j].register => i = j
  BY <1>1 DEF CashInv, CallsInv, Does
<1> QED
  BY <1>3, <1>4, <1>5 DEF CashInv, CallsInv, Exists

\* Steps of others that leave the registers alone keep it.
LEMMA CashUntouched ==
  ASSUME CashInv, UNCHANGED cashVars PROVE CashInv'
BY DEF cashVars, CashInv, CashTypeOK, CallsInv, NoEntriesYet, TriggerAgreesWithStats,
       Does, IsOpen, Exists

\* A movement recorded beside whatever the handlers of the registers do.
LEMMA CashCommits ==
  ASSUME CashInv, UNCHANGED call, NEW c \in Registers, Exists(c),
         NEW type \in EntryTypes, NEW amount \in Nat, RecordEntry(c, type, amount)
  PROVE  CashInv' /\ \A d \in Registers : Exists(d) => Exists(d)'
<1>1. /\ register' \in [Registers -> RegisterRow \cup {NoRegister}]
      /\ entries' \in [Registers -> Columns]
      /\ \A d \in Registers : Exists(d)' <=> Exists(d)
      /\ NoEntriesYet' /\ TriggerAgreesWithStats'
  BY RecordEntryKeeps
<1>2. \A k \in Clerks : call[k] # NoCall => call[k].register \in Registers
  BY DEF CashInv, CashTypeOK, Call
<1>3. \A k \in Clerks : call'[k] # NoCall =>
        ((register'[call'[k].register] # NoRegister) <=> call'[k].kind # "open")
  BY <1>1, <1>2 DEF CashInv, CallsInv, Exists
<1>4. \A j, k \in Clerks :
        Does(j, "open")' /\ Does(k, "open")' /\ call'[j].register = call'[k].register => j = k
  BY DEF CashInv, CallsInv, Does
<1> QED
  BY <1>1, <1>3, <1>4 DEF CashInv, CashTypeOK, CallsInv, Exists

\* Each step of a cash-register handler keeps the invariant, and no register
\* disappears.
LEMMA CashStepKeeps ==
  ASSUME CashInv, CashNext
  PROVE  CashInv' /\ \A c \in Registers : Exists(c) => Exists(c)'
<1> USE CashAssumption
<1>1. PICK k \in Clerks :
        \/ \E c \in Registers :
             \/ \E name \in RegisterNames, o \in Openings : OpenReads(k, c, name, o)
             \/ \E type \in EntryTypes, a \in Amounts : EntryReads(k, c, type, a)
             \/ \E n \in Counts : CloseReadsRegister(k, c, n)
        \/ OpenWrites(k) \/ EntryWrites(k)
        \/ CloseReadsEntries(k) \/ CloseWrites(k)
        \/ CallFails(k)
  BY DEF CashNext
<1>2. call[k] # NoCall => call[k] \in Call
  BY DEF CashInv, CashTypeOK
<1>3. ASSUME NEW c \in Registers, NEW name \in RegisterNames, NEW o \in Openings,
             OpenReads(k, c, name, o)
      PROVE  CashInv' /\ UNCHANGED register
  <2> DEFINE next == [kind |-> "open", register |-> c, name |-> name, opening |-> o]
  <2>1. next \in Call
    BY DEF Call
  <2>2. /\ call' = [call EXCEPT ![k] = next] /\ UNCHANGED <<register, entries>>
        /\ ~Exists(c)
        /\ \A j \in Clerks : Does(j, "open") => call[j].register # c
    BY <1>3 DEF OpenReads, Begins, FreshRegisters
  <2>3. next.register = c /\ next.kind = "open"
    OBVIOUS
  <2> HIDE DEF next
  <2> QED
    BY <2>1, <2>2, <2>3, CallStepKeeps
<1>4. ASSUME NEW c \in Registers, NEW type \in EntryTypes, NEW a \in Amounts,
             EntryReads(k, c, type, a)
      PROVE  CashInv' /\ UNCHANGED register
  <2> DEFINE next == [kind |-> "entry", register |-> c, type |-> type, amount |-> a]
  <2>1. next \in Call
    BY DEF Call
  <2>2. /\ call' = [call EXCEPT ![k] = next] /\ UNCHANGED <<register, entries>>
        /\ Exists(c)
    BY <1>4 DEF EntryReads, Begins, IsOpen
  <2>3. next.register = c /\ next.kind = "entry"
    OBVIOUS
  <2> HIDE DEF next
  <2> QED
    BY <2>1, <2>2, <2>3, CallStepKeeps
<1>5. ASSUME NEW c \in Registers, NEW n \in Counts, CloseReadsRegister(k, c, n)
      PROVE  CashInv' /\ UNCHANGED register
  <2> DEFINE next == [kind |-> "count", register |-> c, counted |-> n, seen |-> NoEntries]
  <2>1. next \in Call
    BY DEF Call, NoEntries, Columns
  <2>2. /\ call' = [call EXCEPT ![k] = next] /\ UNCHANGED <<register, entries>>
        /\ Exists(c)
    BY <1>5 DEF CloseReadsRegister, Begins, IsOpen
  <2>3. next.register = c /\ next.kind = "count"
    OBVIOUS
  <2> HIDE DEF next
  <2> QED
    BY <2>1, <2>2, <2>3, CallStepKeeps
<1>6. ASSUME CloseReadsEntries(k)
      PROVE  CashInv' /\ UNCHANGED register
  <2> DEFINE next == [call[k] EXCEPT !.kind = "close", !.seen = entries[call[k].register]]
  <2>1. call[k] \in Call /\ call[k].kind = "count" /\ Exists(call[k].register)
    BY <1>2, <1>6 DEF CloseReadsEntries, Does, CashInv, CallsInv
  <2>2. call[k].register \in Registers /\ entries[call[k].register] \in Columns
    BY <2>1 DEF Call, CashInv, CashTypeOK
  <2>3. next \in Call /\ next.register = call[k].register /\ next.kind = "close"
    BY <2>1, <2>2 DEF Call
  <2>4. call' = [call EXCEPT ![k] = next] /\ UNCHANGED <<register, entries>>
    BY <1>6 DEF CloseReadsEntries
  <2> HIDE DEF next
  <2> QED
    BY <2>1, <2>3, <2>4, CallStepKeeps
<1>7. ASSUME CallFails(k)
      PROVE  CashInv' /\ UNCHANGED register
  BY <1>7, CallStepKeeps DEF CallFails, Ends
<1>8. ASSUME EntryWrites(k)
      PROVE  CashInv' /\ \A c \in Registers : Exists(c) => Exists(c)'
  <2>1. call[k] \in Call /\ call[k].kind = "entry" /\ Exists(call[k].register)
    BY <1>2, <1>8 DEF EntryWrites, Does, CashInv, CallsInv
  <2>2. call[k].register \in Registers /\ call[k].type \in EntryTypes /\ call[k].amount \in Nat
    BY <2>1 DEF Call
  <2>3. /\ register' \in [Registers -> RegisterRow \cup {NoRegister}]
        /\ entries' \in [Registers -> Columns]
        /\ \A d \in Registers : Exists(d)' <=> Exists(d)
        /\ NoEntriesYet' /\ TriggerAgreesWithStats'
    BY <1>8, <2>1, <2>2, RecordEntryKeeps DEF EntryWrites
  <2>4. /\ call'[k] = NoCall /\ call' \in [Clerks -> Call \cup {NoCall}]
        /\ \A j \in Clerks \ {k} : call'[j] = call[j]
    BY <1>8 DEF EntryWrites, Ends, CashInv, CashTypeOK
  <2>5. \A j \in Clerks : call[j] # NoCall => call[j].register \in Registers
    BY DEF CashInv, CashTypeOK, Call
  <2>6. \A j \in Clerks : call'[j] # NoCall =>
          ((register'[call'[j].register] # NoRegister) <=> call'[j].kind # "open")
    BY <2>3, <2>4, <2>5 DEF CashInv, CallsInv, Exists
  <2>7. \A i, j \in Clerks :
          Does(i, "open")' /\ Does(j, "open")' /\ call'[i].register = call'[j].register => i = j
    BY <2>4 DEF CashInv, CallsInv, Does
  <2> QED
    BY <2>3, <2>4, <2>6, <2>7 DEF CashInv, CashTypeOK, CallsInv, Exists

<1>9. ASSUME OpenWrites(k)
      PROVE  CashInv' /\ \A c \in Registers : Exists(c) => Exists(c)'
  <2> DEFINE c == call[k].register
             row == [name |-> call[k].name, isOpen |-> TRUE, opening |-> call[k].opening,
                     closing |-> 0, expected |-> 0, difference |-> 0]
  <2>1. call[k] \in Call /\ call[k].kind = "open" /\ ~Exists(c)
    BY <1>2, <1>9 DEF OpenWrites, Does, CashInv, CallsInv
  <2>2. c \in Registers /\ call[k].name \in RegisterNames /\ call[k].opening \in Nat
    BY <2>1 DEF Call
  <2>3. /\ row \in RegisterRow /\ row.isOpen /\ row.expected = 0 /\ row.opening \in Nat
    BY <2>2 DEF RegisterRow
  <2>4. register' = [register EXCEPT ![c] = row] /\ UNCHANGED entries /\ Ends(k)
    BY <1>9 DEF OpenWrites
  <2> HIDE DEF row, c
  <2>5. /\ register'[c] = row /\ \A d \in Registers \ {c} : register'[d] = register[d]
        /\ register' \in [Registers -> RegisterRow \cup {NoRegister}]
    BY <2>2, <2>3, <2>4 DEF CashInv, CashTypeOK
  <2>6. /\ register'[c] # NoRegister
        /\ \A d \in Registers \ {c} : Exists(d)' <=> Exists(d)
    BY <2>3, <2>5 DEF Exists
  <2>7. /\ call'[k] = NoCall /\ call' \in [Clerks -> Call \cup {NoCall}]
        /\ \A j \in Clerks \ {k} : call'[j] = call[j]
    BY <2>4 DEF Ends, CashInv, CashTypeOK
  <2>8. \A j \in Clerks \ {k} : call[j] # NoCall =>
          call[j].register \in Registers \ {c}
    <3> SUFFICES ASSUME NEW j \in Clerks \ {k}, call[j] # NoCall
                 PROVE  call[j].register \in Registers \ {c}
      OBVIOUS
    <3>1. call[j].register \in Registers
      BY DEF CashInv, CashTypeOK, Call
    <3>2. CASE call[j].kind = "open"
      BY <1>9, <2>1, <3>1, <3>2 DEF CashInv, CallsInv, Does, OpenWrites, c
    <3>3. CASE call[j].kind # "open"
      BY <2>1, <3>1, <3>3 DEF CashInv, CallsInv
    <3> QED
      BY <3>2, <3>3
  <2>9. \A j \in Clerks : call'[j] # NoCall =>
          ((register'[call'[j].register] # NoRegister) <=> call'[j].kind # "open")
    BY <2>5, <2>7, <2>8 DEF CashInv, CallsInv, Exists
  <2>10. \A i, j \in Clerks :
          Does(i, "open")' /\ Does(j, "open")' /\ call'[i].register = call'[j].register => i = j
    BY <2>7 DEF CashInv, CallsInv, Does
  <2>11. NoEntriesYet'
    BY <2>4, <2>6 DEF CashInv, NoEntriesYet, Exists
  <2>12. TriggerAgreesWithStats'
    <3> SUFFICES ASSUME NEW d \in Registers, IsOpen(d)'
                 PROVE  register'[d].expected + register'[d].opening
                          = Balance(register'[d].opening, entries'[d])
      BY DEF TriggerAgreesWithStats
    <3>1. CASE d # c
      BY <2>4, <2>5, <3>1 DEF CashInv, TriggerAgreesWithStats, IsOpen, Exists
    <3>2. CASE d = c
      BY <2>1, <2>2, <2>3, <2>4, <2>5, <3>2
         DEF CashInv, NoEntriesYet, NoEntries, EntryTypes, Balance
    <3> QED
      BY <3>1, <3>2
  <2> QED
    BY <2>4, <2>5, <2>6, <2>7, <2>9, <2>10, <2>11, <2>12
       DEF CashInv, CashTypeOK, CallsInv, Exists
<1>10. ASSUME CloseWrites(k)
       PROVE  CashInv' /\ \A c \in Registers : Exists(c) => Exists(c)'
  <2> DEFINE c == call[k].register
             expected == Balance(register[c].opening, call[k].seen)
             row == [register[c] EXCEPT !.isOpen = FALSE, !.closing = call[k].counted,
                       !.expected = expected, !.difference = call[k].counted - expected]
  <2>1. call[k] \in Call /\ call[k].kind = "close" /\ Exists(c)
    BY <1>2, <1>10 DEF CloseWrites, Does, CashInv, CallsInv
  <2>2. c \in Registers /\ call[k].counted \in Nat /\ call[k].seen \in Columns
    BY <2>1 DEF Call
  <2>3. register[c] \in RegisterRow
    BY <2>1, <2>2 DEF Exists, CashInv, CashTypeOK
  <2>4. register[c].opening \in Nat
    BY <2>3 DEF RegisterRow
  <2>5. expected \in Int
    <3>1. /\ call[k].seen["INCOME"] \in Nat /\ call[k].seen["EXPENSE"] \in Nat
          /\ call[k].seen["WITHDRAWAL"] \in Nat
      BY <2>2 DEF Columns, EntryTypes
    <3> QED
      BY <2>4, <3>1 DEF Balance
  <2>6. register' = [register EXCEPT ![c] = row] /\ UNCHANGED entries /\ Ends(k)
    BY <1>10 DEF CloseWrites
  <2> HIDE DEF expected
  <2>7. row \in RegisterRow /\ ~row.isOpen
    <3>1. call[k].counted - expected \in Int
      BY <2>2, <2>5
    <3> QED
      BY <2>2, <2>3, <2>5, <3>1 DEF RegisterRow
  <2> HIDE DEF row, c
  <2>8. /\ register'[c] = row /\ \A d \in Registers \ {c} : register'[d] = register[d]
        /\ register' \in [Registers -> RegisterRow \cup {NoRegister}]
    BY <2>2, <2>6, <2>7 DEF CashInv, CashTypeOK
  <2>9. \A d \in Registers : Exists(d)' <=> Exists(d)
    BY <2>1, <2>7, <2>8 DEF Exists
  <2>10. /\ call'[k] = NoCall /\ call' \in [Clerks -> Call \cup {NoCall}]
         /\ \A j \in Clerks \ {k} : call'[j] = call[j]
    BY <2>6 DEF Ends, CashInv, CashTypeOK
  <2>11. \A j \in Clerks : call[j] # NoCall => call[j].register \in Registers
    BY DEF CashInv, CashTypeOK, Call
  <2>12. \A j \in Clerks : call'[j] # NoCall =>
          ((register'[call'[j].register] # NoRegister) <=> call'[j].kind # "open")
    BY <2>9, <2>10, <2>11 DEF CashInv, CallsInv, Exists
  <2>13. \A i, j \in Clerks :
          Does(i, "open")' /\ Does(j, "open")' /\ call'[i].register = call'[j].register => i = j
    BY <2>10 DEF CashInv, CallsInv, Does
  <2>14. NoEntriesYet'
    BY <2>6, <2>9 DEF CashInv, NoEntriesYet
  <2>15. TriggerAgreesWithStats'
    BY <2>6, <2>7, <2>8 DEF CashInv, TriggerAgreesWithStats, IsOpen, Exists
  <2> QED
    BY <2>6, <2>8, <2>9, <2>10, <2>12, <2>13, <2>14, <2>15
       DEF CashInv, CashTypeOK, CallsInv, Exists
<1> QED
  BY <1>1, <1>3, <1>4, <1>5, <1>6, <1>7, <1>8, <1>9, <1>10 DEF Exists

\* No register, no entries, no handler in flight.
LEMMA CashStarts == ASSUME CashInit PROVE CashInv
<1>1. NoEntries \in Columns
  BY DEF NoEntries, Columns
<1> QED
  BY <1>1, CashAssumption
     DEF CashInit, CashInv, CashTypeOK, CallsInv, NoEntriesYet, TriggerAgreesWithStats,
         Does, IsOpen, Exists

\* The invariant holds for good.
LEMMA CashInvariant == CashSpec => []CashInv
<1>1. CashInit => CashInv
  BY CashStarts
<1>2. CashInv /\ [CashNext]_cashVars => CashInv'
  <2>1. ASSUME CashInv, CashNext PROVE CashInv'
    BY <2>1, CashStepKeeps
  <2>2. ASSUME CashInv, UNCHANGED cashVars PROVE CashInv'
    BY <2>2 DEF cashVars, CashInv, CashTypeOK, CallsInv, NoEntriesYet,
                TriggerAgreesWithStats, Does, IsOpen, Exists
  <2> QED
    BY <2>1, <2>2
<1> QED
  BY <1>1, <1>2, PTL DEF CashSpec

\* The balance of an open register that sync_cash_register_balance keeps and the
\* one getCashRegisterStats computes agree, but for the opening balance.
THEOREM DrawerCorrect == CashSpec => [](CashTypeOK /\ TriggerAgreesWithStats)
<1>1. CashInv => CashTypeOK /\ TriggerAgreesWithStats
  BY DEF CashInv
<1> QED
  BY <1>1, CashInvariant, PTL

\* A movement leaves what the registers miss as it was: the trigger counts it.
LEMMA RecordEntryMissesNothing ==
  ASSUME CashInv, NEW d \in Registers, Exists(d),
         NEW type \in EntryTypes, NEW amount \in Nat, RecordEntry(d, type, amount)
  PROVE  \A c \in Registers : Missing(c)' = Missing(c)
<1> DEFINE columns == [entries[d] EXCEPT ![type] = entries[d][type] + amount]
           row == [register[d] EXCEPT
                     !.expected = register[d].expected + SyncBalance(type, amount)]
           base == IF register[d].isOpen THEN 0 ELSE register[d].opening
<1>1. register[d] \in RegisterRow /\ entries[d] \in Columns
  BY DEF CashInv, CashTypeOK, Exists
<1>2. /\ row.expected = register[d].expected + SyncBalance(type, amount)
      /\ row.isOpen = register[d].isOpen /\ row.opening = register[d].opening
      /\ row # NoRegister
  BY <1>1, CashAssumption DEF RegisterRow, SyncBalance
<1>3. base \in Int
  BY <1>1 DEF RegisterRow
<1>4. Balance(base, columns) = Balance(base, entries[d]) + SyncBalance(type, amount)
  BY <1>1, <1>3, TriggerAddsUp
<1>5. /\ register[d].expected \in Int /\ SyncBalance(type, amount) \in Int
      /\ Balance(base, entries[d]) \in Int
  BY <1>1, <1>3 DEF RegisterRow, SyncBalance, Balance, Columns, EntryTypes
<1>6. entries' = [entries EXCEPT ![d] = columns] /\ register' = [register EXCEPT ![d] = row]
  BY DEF RecordEntry
<1> HIDE DEF columns, row
<1> SUFFICES ASSUME NEW c \in Registers PROVE Missing(c)' = Missing(c)
  OBVIOUS
<1>7. CASE c = d
  <2>1. entries'[c] = columns /\ register'[c] = row
    BY <1>6, <1>7 DEF CashInv, CashTypeOK
  <2>2. /\ Missing(c) = Balance(base, entries[d]) - register[d].expected
        /\ Missing(c)' = Balance(base, columns) - row.expected
    BY <1>2, <1>7, <2>1 DEF Missing, IsOpen, Exists
  <2> QED
    BY <1>2, <1>4, <1>5, <2>2
<1>8. CASE c # d
  BY <1>6, <1>8 DEF CashInv, CashTypeOK, Missing, IsOpen, Exists
<1> QED
  BY <1>7, <1>8

\* What OnlyClosesMiss asks of a step, of one register.
Accounted(c) ==
  \/ Missing(c)' \in {0, Missing(c)}
  \/ \E k \in Clerks :
       /\ CloseWrites(k) /\ call[k].register = c
       /\ Missing(c)' = Balance(0, entries[c]) - Balance(0, call[k].seen)

LEMMA CashStepMisses ==
  ASSUME CashInv, CashNext PROVE \A c \in Registers : Accounted(c)
<1> USE CashAssumption
<1>1. ASSUME NEW k \in Clerks, EntryWrites(k)
      PROVE  \A c \in Registers : Accounted(c)
  <2>1. call[k] \in Call /\ call[k].kind = "entry" /\ Exists(call[k].register)
    BY <1>1 DEF EntryWrites, Does, CashInv, CashTypeOK, CallsInv
  <2>2. /\ call[k].register \in Registers /\ call[k].type \in EntryTypes
        /\ call[k].amount \in Nat
    BY <2>1 DEF Call
  <2> QED
    BY <1>1, <2>1, <2>2, RecordEntryMissesNothing DEF EntryWrites, Accounted
<1>2. ASSUME NEW k \in Clerks, OpenWrites(k), NEW c \in Registers PROVE Accounted(c)
  <2>1. call[k] \in Call /\ call[k].kind = "open" /\ ~Exists(call[k].register)
    BY <1>2 DEF OpenWrites, Does, CashInv, CashTypeOK, CallsInv
  <2>2. call[k].register \in Registers /\ call[k].name \in RegisterNames /\ call[k].opening \in Nat
    BY <2>1 DEF Call
  <2> DEFINE row == [name |-> call[k].name, isOpen |-> TRUE, opening |-> call[k].opening,
                     closing |-> 0, expected |-> 0, difference |-> 0]
  <2>3. row \in RegisterRow /\ row.isOpen /\ row.expected = 0
    BY <2>2 DEF RegisterRow
  <2>4. register' = [register EXCEPT ![call[k].register] = row] /\ UNCHANGED entries
    BY <1>2 DEF OpenWrites
  <2> HIDE DEF row
  <2>5. CASE c = call[k].register
    <3>1. register'[c] = row /\ entries'[c] = NoEntries
      BY <2>1, <2>4, <2>5 DEF CashInv, CashTypeOK, NoEntriesYet
    <3>2. Missing(c)' = 0
      BY <2>3, <3>1 DEF Missing, IsOpen, Exists, Balance, NoEntries, EntryTypes
    <3> QED
      BY <3>2 DEF Accounted
  <2>6. CASE c # call[k].register
    BY <2>2, <2>4, <2>6 DEF CashInv, CashTypeOK, Accounted, Missing, IsOpen, Exists
  <2> QED
    BY <2>5, <2>6
<1>3. ASSUME NEW k \in Clerks, CloseWrites(k), NEW c \in Registers PROVE Accounted(c)
  <2> DEFINE expected == Balance(register[c].opening, call[k].seen)
             row == [register[c] EXCEPT !.isOpen = FALSE, !.closing = call[k].counted,
                       !.expected = expected, !.difference = call[k].counted - expected]
  <2>1. call[k] \in Call /\ call[k].kind = "close" /\ Exists(call[k].register)
    BY <1>3 DEF CloseWrites, Does, CashInv, CashTypeOK, CallsInv
  <2>2. call[k].register \in Registers /\ call[k].seen \in Columns
    BY <2>1 DEF Call
  <2>3. CASE c = call[k].register
    <3>1. register[c] \in RegisterRow /\ entries[c] \in Columns
      BY <2>1, <2>3 DEF CashInv, CashTypeOK, Exists
    <3>2. /\ row.expected = expected /\ ~row.isOpen /\ row.opening = register[c].opening
          /\ row # NoRegister
      <4>1. /\ "expected" \in DOMAIN register[c] /\ "isOpen" \in DOMAIN register[c]
            /\ row.opening = register[c].opening /\ row.closing = call[k].counted
        BY <3>1 DEF RegisterRow
      <4>2. row.expected = expected /\ ~row.isOpen
        BY <3>1 DEF RegisterRow
      <4>3. call[k].counted \in Nat /\ expected \in Int /\ call[k].counted - expected \in Int
        <5>1. /\ call[k].seen["INCOME"] \in Nat /\ call[k].seen["EXPENSE"] \in Nat
              /\ call[k].seen["WITHDRAWAL"] \in Nat
          BY <2>2 DEF Columns, EntryTypes
        <5>2. register[c].opening \in Nat /\ call[k].counted \in Nat
          BY <2>1, <3>1 DEF RegisterRow, Call
        <5> QED
          BY <5>1, <5>2 DEF Balance
      <4> HIDE DEF expected
      <4>4. row \in RegisterRow
        BY <3>1, <4>3 DEF RegisterRow
      <4> QED
        BY <4>1, <4>2, <4>4
    <3>3. register' = [register EXCEPT ![c] = row] /\ UNCHANGED entries
      BY <1>3, <2>3 DEF CloseWrites
    <3> HIDE DEF row
    <3>4. register'[c] = row /\ entries'[c] = entries[c]
      BY <3>3 DEF CashInv, CashTypeOK
    <3>5. Missing(c)' = Balance(register[c].opening, entries[c]) - expected
      BY <3>2, <3>4 DEF Missing, IsOpen, Exists
    <3>6. /\ register[c].opening \in Nat
          /\ \A type \in EntryTypes : call[k].seen[type] \in Nat /\ entries[c][type] \in Nat
      BY <2>2, <3>1 DEF RegisterRow, Columns
    <3>7. Missing(c)' = Balance(0, entries[c]) - Balance(0, call[k].seen)
      BY <3>5, <3>6 DEF Balance, EntryTypes
    <3> QED
      BY <1>3, <2>3, <3>7 DEF Accounted
  <2>4. CASE c # call[k].register
    BY <1>3, <2>2, <2>4
       DEF CloseWrites, CashInv, CashTypeOK, Accounted, Missing, IsOpen, Exists
  <2> QED
    BY <2>3, <2>4
<1>4. \/ \E k \in Clerks : EntryWrites(k) \/ OpenWrites(k) \/ CloseWrites(k)
      \/ UNCHANGED <<register, entries>>
  BY DEF CashNext, OpenReads, EntryReads, CloseReadsRegister, Begins,
         CloseReadsEntries, CallFails
<1>5. ASSUME UNCHANGED <<register, entries>>, NEW c \in Registers PROVE Accounted(c)
  BY <1>5 DEF Accounted, Missing, IsOpen, Exists
<1> QED
  BY <1>1, <1>2, <1>3, <1>4, <1>5

\* The expected balance of a register lacks nothing but what was recorded between
\* the two statements of the close that wrote it.
THEOREM ClosesMissCorrect == CashSpec => OnlyClosesMiss
<1>1. CashInv /\ [CashNext]_cashVars => [\A c \in Registers : Accounted(c)]_cashVars
  BY CashStepMisses
<1> QED
  BY <1>1, CashInvariant, PTL DEF CashSpec, OnlyClosesMiss, Accounted
=============================================================================
