----------------------------- MODULE MCReturns -----------------------------
(* Small instances of Returns for TLC. *)
EXTENDS Returns, TLC

ThreeUnits == [p \in Parts |-> 3]

Symmetry == Permutations(SaleIds) \cup Permutations(NoteIds) \cup Permutations(Lines)
=============================================================================
