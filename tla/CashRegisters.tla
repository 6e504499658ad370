--------------------------- MODULE CashRegisters ---------------------------
(***************************************************************************)
(* Cash registers: opening one, recording movements in it, closing it      *)
(* against a count of the drawer.  Each handler is a few statements, each  *)
(* committed on its own, with nothing held from one to the next; the       *)
(* trigger on cash_transactions keeps expectedBalance.                     *)
(***************************************************************************)
EXTENDS Integers

CONSTANTS Registers,      \* cash_registers ids; each is used once
          Clerks,         \* cash-register requests in flight together
          RegisterNames,
          Openings,       \* opening balances clients give
          Counts,         \* closing balances clients count
          Amounts,        \* amounts of movements and payments
          MaxEntries,     \* bound: a clerk adds to a column below it
          NoRegister, NoCall

EntryTypes == {"INCOME", "EXPENSE", "WITHDRAWAL"}

RegisterRow == [name : RegisterNames, isOpen : BOOLEAN, opening : Nat,
                closing : Nat, expected : Int, difference : Int]

\* cash_transactions of a register, summed by type.
Columns == [EntryTypes -> Nat]
NoEntries == [type \in EntryTypes |-> 0]

\* A handler in flight, with what it was given and what it read.
Call ==
  [kind : {"open"}, register : Registers, name : RegisterNames, opening : Nat]
    \cup [kind : {"entry"}, register : Registers, type : EntryTypes, amount : Nat]
    \cup [kind : {"count", "close"}, register : Registers, counted : Nat, seen : Columns]

ASSUME CashAssumption ==
  /\ Openings \subseteq Nat /\ Counts \subseteq Nat     \* nonnegative in the schemas
  /\ Amounts \subseteq Nat \ {0}                        \* positive
  /\ MaxEntries \in Nat
  /\ NoRegister \notin RegisterRow \cup Registers /\ NoCall \notin Call

VARIABLES register,   \* cash_registers
          entries,    \* cash_transactions
          call        \* handlers in flight

cashVars == <<register, entries, call>>

\* Registers, their movements and the handlers in flight are well formed.
CashTypeOK ==
  /\ register \in [Registers -> RegisterRow \cup {NoRegister}]
  /\ entries \in [Registers -> Columns]
  /\ call \in [Clerks -> Call \cup {NoCall}]

CashInit ==
  /\ register = [c \in Registers |-> NoRegister]
  /\ entries = [c \in Registers |-> NoEntries]
  /\ call = [k \in Clerks |-> NoCall]

-----------------------------------------------------------------------------
Exists(c) == register[c] # NoRegister
IsOpen(c) == Exists(c) /\ register[c].isOpen

\* What closeCashRegister and getCashRegisterStats compute from the rows.
Balance(opening, columns) ==
  opening + columns["INCOME"] - columns["EXPENSE"] - columns["WITHDRAWAL"]

\* Mutant: a trigger that knows EXPENSE and forgets WITHDRAWAL.
SyncBalance_ForgetsWithdrawal(type, amount) ==
  CASE type = "INCOME" -> amount [] type = "EXPENSE" -> -amount [] OTHER -> 0

\* sync_cash_register_balance: INCOME adds, anything else subtracts.
SyncBalance(type, amount) == IF type = "INCOME" THEN amount ELSE -amount

\* Mutant: the trigger updates open registers only.
RecordEntry_OpenOnly(c, type, amount) ==
  /\ entries' = [entries EXCEPT ![c] =
       [entries[c] EXCEPT ![type] = entries[c][type] + amount]]
  /\ register' = [register EXCEPT ![c] =
       IF register[c].isOpen
       THEN [register[c] EXCEPT
               !.expected = register[c].expected + SyncBalance(type, amount)]
       ELSE register[c]]

\* The INSERT of a cash transaction, with its trigger: one statement, which no
\* longer asks whether the register is open.
RecordEntry(c, type, amount) ==
  /\ entries' = [entries EXCEPT ![c] =
       [entries[c] EXCEPT ![type] = entries[c][type] + amount]]
  /\ register' = [register EXCEPT ![c] =
       [register[c] EXCEPT
          !.expected = register[c].expected + SyncBalance(type, amount)]]

Does(k, kind) == call[k] # NoCall /\ call[k].kind = kind
Begins(k, c) ==
  /\ call[k] = NoCall
  /\ call' = [call EXCEPT ![k] = c]
  /\ UNCHANGED <<register, entries>>
Ends(k) == call' = [call EXCEPT ![k] = NoCall]

FreshRegisters == {c \in Registers :
  ~Exists(c) /\ \A k \in Clerks : Does(k, "open") => call[k].register # c}

\* Mutant: an opening balance with its sign turned.
OpenReads_Negative(k, c, name, opening) ==
  /\ c \in FreshRegisters
  /\ Begins(k, [kind |-> "open", register |-> c, name |-> name, opening |-> -opening])

\* openCashRegister: no open register of that name ...
OpenReads(k, c, name, opening) ==
  /\ c \in FreshRegisters
  /\ \A d \in Registers : IsOpen(d) => register[d].name # name
  /\ Begins(k, [kind |-> "open", register |-> c, name |-> name, opening |-> opening])

\* ... then the row.  The opening balance does not go into expectedBalance.
OpenWrites(k) ==
  /\ Does(k, "open")
  /\ register' = [register EXCEPT ![call[k].register] =
       [name |-> call[k].name, isOpen |-> TRUE, opening |-> call[k].opening,
        closing |-> 0, expected |-> 0, difference |-> 0]]
  /\ Ends(k)
  /\ UNCHANGED entries

\* registerCashTransaction.
EntryReads(k, c, type, amount) ==
  /\ IsOpen(c)
  /\ entries[c][type] < MaxEntries
  /\ Begins(k, [kind |-> "entry", register |-> c, type |-> type, amount |-> amount])

EntryWrites(k) ==
  /\ Does(k, "entry")
  /\ RecordEntry(call[k].register, call[k].type, call[k].amount)
  /\ Ends(k)

\* closeCashRegister reads the register, then its transactions (a second
\* query), and writes the balance it computed from them.
CloseReadsRegister(k, c, counted) ==
  /\ IsOpen(c)
  /\ Begins(k, [kind |-> "count", register |-> c, counted |-> counted, seen |-> NoEntries])

CloseReadsEntries(k) ==
  /\ Does(k, "count")
  /\ call' = [call EXCEPT ![k] =
       [call[k] EXCEPT !.kind = "close", !.seen = entries[call[k].register]]]
  /\ UNCHANGED <<register, entries>>

CloseWrites(k) ==
  /\ Does(k, "close")
  /\ LET c == call[k].register
         expected == Balance(register[c].opening, call[k].seen)
     IN register' = [register EXCEPT ![c] =
          [register[c] EXCEPT !.isOpen = FALSE, !.closing = call[k].counted,
             !.expected = expected, !.difference = call[k].counted - expected]]
  /\ Ends(k)
  /\ UNCHANGED entries

\* The process dies or the statement fails between two statements.
CallFails(k) == call[k] # NoCall /\ Ends(k) /\ UNCHANGED <<register, entries>>

CashNext ==
  \E k \in Clerks :
    \/ \E c \in Registers :
         \/ \E name \in RegisterNames, o \in Openings : OpenReads(k, c, name, o)
         \/ \E type \in EntryTypes, a \in Amounts : EntryReads(k, c, type, a)
         \/ \E n \in Counts : CloseReadsRegister(k, c, n)
    \/ OpenWrites(k) \/ EntryWrites(k)
    \/ CloseReadsEntries(k) \/ CloseWrites(k)
    \/ CallFails(k)

CashSpec == CashInit /\ [][CashNext]_cashVars

-----------------------------------------------------------------------------
(* Properties. *)

\* While a register is open, the balance the trigger keeps in the database and
\* the one getCashRegisterStats computes from the transactions agree, but for
\* the opening balance, which only the latter counts.
TriggerAgreesWithStats ==
  \A c \in Registers :
    IsOpen(c) => register[c].expected + register[c].opening
                   = Balance(register[c].opening, entries[c])

\* What the expected balance of a register lacks of the movements it has recorded.
Missing(c) ==
  IF Exists(c)
  THEN Balance(IF IsOpen(c) THEN 0 ELSE register[c].opening, entries[c]) - register[c].expected
  ELSE 0

\* The expected balance of a register lacks nothing but what was recorded between the
\* two statements of the close that wrote it: a movement the close has read is in its
\* sum, and one that comes after it is added by the trigger, to the closed register
\* too.
OnlyClosesMiss ==
  [][\A c \in Registers :
       \/ Missing(c)' \in {0, Missing(c)}
       \/ \E k \in Clerks :
            /\ CloseWrites(k) /\ call[k].register = c
            /\ Missing(c)' = Balance(0, entries[c]) - Balance(0, call[k].seen)]_cashVars
=============================================================================
