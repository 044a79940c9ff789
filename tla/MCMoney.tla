------------------------------- MODULE MCMoney -------------------------------
(* Money for TLC.  Requests and players are interchangeable.                *)
EXTENDS Money, TLC

Symmetry == Permutations(Reqs) \cup Permutations(Players)
=============================================================================
