----------------------------- MODULE Purchases -----------------------------
(***************************************************************************)
(* Purchase orders, and the stock their reception brings.  The reception   *)
(* is a READ COMMITTED transaction that reads the order on a connection of *)
(* its own and then increments, so two of them can both find it pending.   *)
(***************************************************************************)
EXTENDS Sales

CONSTANTS Orders,     \* purchase_orders ids; each is used once
          MaxDue,     \* bound: an order takes no item once it has as much
          NoOrder

OrderRow == [status : {"PENDING", "RECEIVED"}, due : [Parts -> Nat]]

OrderJob == [step : {"item"}, order : Orders, part : Parts, quantity : Nat]
              \cup [step : {"receives"}, order : Orders, due : [Parts -> Nat]]

ASSUME PurchasesAssumption ==
  /\ MaxDue \in Nat
  /\ NoOrder \notin OrderRow
  /\ NoJob \notin OrderJob

VARIABLES order,       \* purchase_orders, with the items of each added up
          delivered    \* history: what receptions have added to each part

orderVars == <<order, delivered>>

OrderTypeOK ==
  /\ order \in [Orders -> OrderRow \cup {NoOrder}]
  /\ delivered \in [Parts -> Nat]

OrderInit ==
  /\ order = [o \in Orders |-> NoOrder]
  /\ delivered = [p \in Parts |-> 0]

-----------------------------------------------------------------------------
Pending(o) == order[o] # NoOrder /\ order[o].status = "PENDING"

\* createPurchaseOrder.
OrderCreates(o) ==
  /\ order[o] = NoOrder
  /\ order' = [order EXCEPT ![o] = [status |-> "PENDING", due |-> [p \in Parts |-> 0]]]
  /\ UNCHANGED <<delivered, saleVars, cashVars>>

\* addPurchaseItem.
ItemReads(w, o, p, n) ==
  /\ Idle(w)
  /\ Pending(o) /\ order[o].due[p] < MaxDue
  /\ Takes(w, [step |-> "item", order |-> o, part |-> p, quantity |-> n])
  /\ UNCHANGED <<counter, cashVars, orderVars>>

ItemWrites(w) ==
  /\ At(w, "item")
  /\ LET o == job[w].order
         due == [order[o].due EXCEPT ![job[w].part] = order[o].due[job[w].part] + job[w].quantity]
     IN order' = [order EXCEPT ![o] = [order[o] EXCEPT !.due = due]]
  /\ Takes(w, NoJob)
  /\ UNCHANGED <<counter, cashVars, delivered>>

\* receivePurchaseOrder.
ReceiveReads(w, o) ==
  /\ Idle(w)
  /\ Pending(o)
  /\ Takes(w, [step |-> "receives", order |-> o, due |-> order[o].due])
  /\ UNCHANGED <<counter, cashVars, orderVars>>

\* Increments of the rows as they are, so no sale in between is undone.
ReceiveCommits(w) ==
  /\ At(w, "receives")
  /\ LET due == job[w].due IN
       /\ stock' = [p \in Parts |-> stock[p] + due[p]]
       /\ delivered' = [p \in Parts |-> delivered[p] + due[p]]
       /\ order' = [order EXCEPT ![job[w].order] =
            [order[job[w].order] EXCEPT !.status = "RECEIVED"]]
       /\ Commits(w, NoJob, {p \in Parts : due[p] > 0}, {})
  /\ UNCHANGED <<sale, noted, cashVars>>

OrderSteps(w) ==
  \/ \E o \in Orders :
       \/ \E p \in Parts, n \in Quantities : ItemReads(w, o, p, n)
       \/ ReceiveReads(w, o)
  \/ ItemWrites(w) \/ ReceiveCommits(w)
=============================================================================
