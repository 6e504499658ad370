---------------------------- MODULE PartTriggers ----------------------------
(***************************************************************************)
(* The PostgreSQL triggers on part_usages that keep parts.quantity, as the *)
(* migrations define them.  Each trigger is a pure operator: what it adds  *)
(* to the part's quantity for the row it fires on, and when it raises.     *)
(*                                                                         *)
(* Three migrations install three triggers and none is ever dropped, so a  *)
(* database built by `prisma migrate deploy` fires all of them:            *)
(*   prevent_negative  BEFORE INSERT           20260126020000              *)
(*   sync_inventory    AFTER INSERT/UPDATE/DEL 20260808120000              *)
(*   update_on_usage   AFTER INSERT/UPDATE/DEL 20260115202800              *)
(* Installed says which of them this database has.                         *)
(***************************************************************************)
EXTENDS Integers

CONSTANTS Tickets,      \* ticket ids
          Parts,        \* part ids
          Quantities,   \* quantities a client may ask for
          Installed     \* the triggers of this database

TriggerNames == {"prevent_negative", "sync_inventory", "update_on_usage"}

\* The zod schemas and addPartToTicket only let positive quantities through.
ASSUME QuantitiesAssumption == Quantities \subseteq Nat \ {0}
ASSUME InstalledAssumption == Installed \subseteq TriggerNames

\* A row of part_usages.
UsageRow == [ticket : Tickets, part : Parts, quantity : Quantities,
             approved : BOOLEAN]

If(trigger, amount) == IF trigger \in Installed THEN amount ELSE 0

-----------------------------------------------------------------------------
(* prevent_negative_stock: BEFORE INSERT, reads the quantity without a lock. *)
PreventRaises(onHand, new) ==
  /\ "prevent_negative" \in Installed
  /\ onHand - new.quantity < 0

(* trg_sync_part_inventory: the approval-aware trigger. *)
SyncOnInsert(new) == IF new.approved THEN -new.quantity ELSE 0

SyncOnUpdate(old, new) ==
  CASE ~old.approved /\ new.approved -> -new.quantity
    [] old.approved /\ ~new.approved -> new.quantity
    [] OTHER -> 0

SyncOnDelete(old) == IF old.approved THEN old.quantity ELSE 0

\* Mutant: the decrement has lost its guard.
SyncRaises_Unguarded(onHand, d) == FALSE

\* Its decrements are guarded by `quantity >= NEW.quantity`; a decrement that
\* matches no row raises.
SyncRaises(onHand, d) ==
  /\ "sync_inventory" \in Installed
  /\ d < 0
  /\ onHand + d < 0

(* update_stock_on_usage: the first trigger, unaware of approval. *)
LegacyOnInsert(new) == -new.quantity
LegacyOnUpdate(old, new) == old.quantity - new.quantity

\* Mutant: the first trigger's DELETE branch forgets to return the quantity.
LegacyOnDelete_NoReturn(old) == 0

LegacyOnDelete(old) == old.quantity

-----------------------------------------------------------------------------
(* What a statement on one row adds to parts.quantity, all AFTER triggers    *)
(* together.  sync_part_inventory_trigger fires before                       *)
(* trg_update_stock_on_usage (alphabetical order), so its guard sees the     *)
(* quantity before the other one moved it.                                   *)
InsertDelta(new) ==
  If("sync_inventory", SyncOnInsert(new)) + If("update_on_usage", LegacyOnInsert(new))

UpdateDelta(old, new) ==
  If("sync_inventory", SyncOnUpdate(old, new))
    + If("update_on_usage", LegacyOnUpdate(old, new))

DeleteDelta(old) ==
  If("sync_inventory", SyncOnDelete(old)) + If("update_on_usage", LegacyOnDelete(old))

\* Whether some trigger issues an UPDATE of the parts row, which locks it:
\* update_stock_on_usage always does, trg_sync_part_inventory when it moves it.
LocksPart(syncDelta) ==
  \/ "update_on_usage" \in Installed
  \/ "sync_inventory" \in Installed /\ syncDelta # 0
=============================================================================
