------------------------------- MODULE Wallet --------------------------------
(***************************************************************************)
(* What the money handlers promise a player: an advertisement that pays    *)
(* adds SeeEarnings to the balance and to the lifetime total, a withdrawal *)
(* moves an offered amount from the balance to the amounts withdrawn, and  *)
(* nothing else ever touches the three.                                    *)
(***************************************************************************)
EXTENDS Naturals
CONSTANTS Players, SeeEarnings, Amounts
VARIABLES balance, earned, taken

Init == /\ balance = [p \in Players |-> 0]
        /\ earned = [p \in Players |-> 0]
        /\ taken = [p \in Players |-> 0]

Earn(p) == /\ balance' = [balance EXCEPT ![p] = @ + SeeEarnings]
           /\ earned' = [earned EXCEPT ![p] = @ + SeeEarnings]
           /\ UNCHANGED taken

Withdraw(p, a) == /\ balance[p] >= a
                  /\ balance' = [balance EXCEPT ![p] = @ - a]
                  /\ taken' = [taken EXCEPT ![p] = @ + a]
                  /\ UNCHANGED earned

Next == \E p \in Players : Earn(p) \/ \E a \in Amounts : Withdraw(p, a)

Spec == Init /\ [][Next]_<<balance, earned, taken>>
=============================================================================
