------------------------------ MODULE CardCode ------------------------------
(***************************************************************************)
(* handles/setup/setup.go: what the real-name check accepts.  An identity   *)
(* number is a sequence of byte values; a name is what the check looks at,  *)
(* how many Han characters it has and how many others.                      *)
(***************************************************************************)
EXTENDS Integers, Sequences

coefficient == <<7, 9, 10, 5, 8, 4, 2, 1, 6, 3, 7, 9, 10, 5, 8, 4, 2>>

\* '1' '0' 'X' '9' ... '2'
code == <<49, 48, 88, 57, 56, 55, 54, 53, 52, 51, 50>>

ToUpper(b) == IF b \in 97..122 THEN b - 32 ELSE b

\* byte(b) - byte('0'), which wraps.
Digit(b) == (ToUpper(b) - 48) % 256

Sum(card, weight) ==
    LET t(i) == Digit(card[i]) * weight[i]
    IN  (t(1) + t(2) + t(3) + t(4) + t(5) + t(6)) + (t(7) + t(8) + t(9) + t(10) + t(11) + t(12))
          + (t(13) + t(14) + t(15) + t(16) + t(17))

CheckDigit(card, weight) == code[(Sum(card, weight) % 11) + 1]

\* Mutant: two coefficients are swapped.
checkCardCodeValidMistyped(card) ==
    Len(card) = 18 /\ CheckDigit(card, [coefficient EXCEPT ![2] = 10, ![3] = 9]) = ToUpper(card[18])

checkCardCodeValid(card) ==
    Len(card) = 18 /\ CheckDigit(card, coefficient) = ToUpper(card[18])

\* The comparison with ReplaceSensitiveWord's argument, which Go passes by value,
\* never fails, so the words a name is made of do not matter.
checkNameValid(name) == name.others = 0 /\ name.han \in 2..8

-----------------------------------------------------------------------------
(* Identity numbers as GB 11643 makes them, and what happens to them.       *)

Digits == 48..57
X == 88

\* Seventeen digits and a check character, for which the sum of the eighteen is one
\* modulo eleven.
Legal(card) ==
    /\ Len(card) = 18 /\ \A i \in 1..17 : card[i] \in Digits
    /\ ToUpper(card[18]) \in Digits \cup {X}
    /\ LET check == IF ToUpper(card[18]) = X THEN 10 ELSE Digit(card[18])
       IN  (Sum(card, coefficient) + check) % 11 = 1

\* Two spellings of one number: the check looks at both in capitals.
SameNumber(card, other) ==
    /\ Len(card) = Len(other)
    /\ \A i \in 1..Len(card) : ToUpper(card[i]) = ToUpper(other[i])

\* One digit is another, or the check character is any other.
Mistyped(card, typed) == \E i \in 1..18 :
    /\ typed = [card EXCEPT ![i] = typed[i]]
    /\ IF i = 18 THEN ToUpper(typed[i]) # ToUpper(card[i])
                 ELSE typed[i] \in Digits \ {card[i]}

\* Two neighbouring digits that are not the same change places.
Swapped(card, typed) == \E i \in 1..16 :
    /\ card[i] # card[i + 1]
    /\ typed = [card EXCEPT ![i] = card[i + 1], ![i + 1] = card[i]]
=============================================================================
