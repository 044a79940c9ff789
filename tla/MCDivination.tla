---------------------------- MODULE MCDivination ----------------------------
(* Divination for TLC: requests and players are interchangeable.            *)
EXTENDS Divination, TLC

Symmetry == Permutations(Reqs) \cup Permutations(Players)
=============================================================================
