---------------------------- MODULE StockLedger ----------------------------
(***************************************************************************)
(* What the counter promises of its stock, requests and transactions left  *)
(* out: a sale takes its units once and gives them back at most once, and  *)
(* a delivery adds what it records.                                        *)
(***************************************************************************)
EXTENDS Integers

CONSTANTS Parts, SaleIds, OpeningStock, NoUnits

Units == [part : Parts, quantity : Nat \ {0}]

VARIABLES onHand,      \* units of each part
          out,         \* the units each sale took
          back,        \* sales whose units came back
          delivered    \* units of each part that were delivered

ledger == <<onHand, out, back, delivered>>

Init ==
  /\ onHand = OpeningStock
  /\ out = [s \in SaleIds |-> NoUnits]
  /\ back = {}
  /\ delivered = [p \in Parts |-> 0]

Taken(s) == out[s] # NoUnits

Issue(s) ==
  /\ ~Taken(s)
  /\ out'[s] \in Units
  /\ out' = [out EXCEPT ![s] = out'[s]]
  /\ onHand' = [onHand EXCEPT ![out'[s].part] = onHand[out'[s].part] - out'[s].quantity]
  /\ UNCHANGED <<back, delivered>>

TakeBack(s) ==
  /\ Taken(s) /\ s \notin back
  /\ back' = back \cup {s}
  /\ onHand' = [onHand EXCEPT ![out[s].part] = onHand[out[s].part] + out[s].quantity]
  /\ UNCHANGED <<out, delivered>>

Deliver ==
  /\ delivered' \in [Parts -> Nat]
  /\ \A p \in Parts : delivered'[p] >= delivered[p]
  /\ onHand' = [p \in Parts |-> onHand[p] + (delivered'[p] - delivered[p])]
  /\ UNCHANGED <<out, back>>

Next == Deliver \/ \E s \in SaleIds : Issue(s) \/ TakeBack(s)

Spec == Init /\ [][Next]_ledger
=============================================================================
