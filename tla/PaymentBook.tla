---------------------------- MODULE PaymentBook ----------------------------
(***************************************************************************)
(* What billing promises of its payments, requests, transactions and their *)
(* timers left out: payments are made one after the other, each under the  *)
(* next number, and cash is in a register before it counts as paid.        *)
(***************************************************************************)
EXTENDS Integers

CONSTANTS Invoices, Methods

VARIABLES paid,        \* of each invoice, by method
          recorded,    \* of each invoice, cash in the registers
          numbers,     \* given so far
          last         \* the last of them

book == <<paid, recorded, numbers, last>>

Init ==
  /\ paid = [i \in Invoices |-> [m \in Methods |-> 0]]
  /\ recorded = [i \in Invoices |-> 0]
  /\ numbers = {} /\ last = 0

\* Cash for an invoice goes into a register, for a payment that may never be.
Record(i) ==
  /\ recorded'[i] > recorded[i]
  /\ recorded' = [recorded EXCEPT ![i] = recorded'[i]]
  /\ UNCHANGED <<paid, numbers, last>>

Pay(i, m) ==
  /\ paid'[i][m] > paid[i][m]
  /\ paid' = [paid EXCEPT ![i] = [paid[i] EXCEPT ![m] = paid'[i][m]]]
  /\ m = "CASH" => paid'[i][m] <= recorded[i]
  /\ last' = last + 1
  /\ numbers' = numbers \cup {last'}
  /\ UNCHANGED recorded

Next == \E i \in Invoices : Record(i) \/ \E m \in Methods : Pay(i, m)

Spec == Init /\ [][Next]_book
=============================================================================
