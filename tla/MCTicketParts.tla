--------------------------- MODULE MCTicketParts ---------------------------
(* Small instances of TicketParts for TLC. *)
EXTENDS TicketParts, TLC

TwoOfEach == [p \in Parts |-> 2]

\* The triggers of a database built by the whole migration chain.
MigrationChain == {"prevent_negative", "sync_inventory", "update_on_usage"}

Symmetry == Permutations(Tickets) \cup Permutations(Parts)
              \cup Permutations(Usages) \cup Permutations(Requests)
=============================================================================
