------------------------------- MODULE MCShop -------------------------------
(* Small instances of Shop for TLC. *)
EXTENDS Shop, TLC

FewUnits == [p \in Parts |-> 1]
QuoteOfOne == [q \in Quotes |-> [part |-> CHOOSE p \in Parts : TRUE, quantity |-> 1]]

Symmetry == Permutations(Workers) \cup Permutations(SaleIds) \cup Permutations(Quotes)
=============================================================================
