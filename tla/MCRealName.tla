----------------------------- MODULE MCRealName -----------------------------
(* RealName for TLC.  Two identity numbers are sent: one as it is, the other *)
(* as it is, with a small x, with one character mistyped, or with two        *)
(* neighbouring digits swapped.                                              *)
EXTENDS RealName, TLC

\* The specimens of GB 11643-1999: 11010519491231002X and 440524188001010014.
Specimen1 == <<49,49,48,49,48,53,49,57,52,57,49,50,51,49,48,48,50,88>>
Specimen2 == <<52,52,48,53,50,52,49,56,56,48,48,49,48,49,48,48,49,52>>

OneTyped(c) ==
    {[c EXCEPT ![i] = d] : i \in 1..17, d \in Digits}
      \cup {[c EXCEPT ![18] = d] : d \in Digits}

TwoSwapped(c) == {[c EXCEPT ![i] = c[i + 1], ![i + 1] = c[i]] : i \in 1..16}

MCCards == {Specimen1, Specimen2, [Specimen1 EXCEPT ![18] = 120]}
             \cup OneTyped(Specimen1) \cup TwoSwapped(Specimen1)

\* A name of the greatest legal length, and one that is not all Han.
MCNames == {[han |-> 8, others |-> 0], [han |-> 3, others |-> 1]}

Symmetry == Permutations(Reqs) \cup Permutations(Players)
=============================================================================
