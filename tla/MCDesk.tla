------------------------------- MODULE MCDesk -------------------------------
(* Small instances of Desk for TLC. *)
EXTENDS Desk, TLC

Symmetry == Permutations(Tickets) \cup Permutations(Technicians) \cup Permutations(Requests)
=============================================================================
