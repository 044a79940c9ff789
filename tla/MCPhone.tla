------------------------------- MODULE MCPhone -------------------------------
(* Phone for TLC: requests, numbers and codes are interchangeable.          *)
EXTENDS Phone, TLC

Symmetry == Permutations(Reqs) \cup Permutations(Phones) \cup Permutations(Codes)
=============================================================================
