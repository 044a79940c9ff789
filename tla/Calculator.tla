----------------------------- MODULE Calculator -----------------------------
(***************************************************************************)
(* One number of gamecfg/unumber.go and the methods that change it, called   *)
(* with one operand after another.                                          *)
(***************************************************************************)
EXTENDS Integers, UNumber

CONSTANTS Texts,       \* what operands are read from
          BigNumbers,  \* float64s the number may be read from
          MaxCalls     \* bound: the number of calls

\* A float64 is not so large that dividing it down would pass the last unit.
ASSUME CalculatorAssumption ==
    /\ \A t \in Texts : t.num \in Int
    /\ \A v \in BigNumbers : v \in Int /\ v < MaxFloat * Power[LZ]

VARIABLES n,        \* the number
          total     \* bound: calls so far
cvars == <<n, total>>

Operands == {ParseUNumber(t) : t \in Texts}

CInit == /\ n \in Operands \cup {ParseBigNumber(v) : v \in BigNumbers}
         /\ total = 0

Call == total < MaxCalls /\ total' = total + 1

AddTo(m) == Call /\ n' = Add(n, m)

\* Mutant: nothing is refused.
SubFromAnyway(m) == Call /\ n' = Sub(normalize(n), normalize(m))

\* A larger number is not subtracted.  The comparison normalizes both.
SubFrom(m) ==
    /\ Call
    /\ n' = IF Lt(n, m) THEN normalize(n) ELSE Sub(normalize(n), normalize(m))

\* Bound: the product's unit exists, and n is below MaxFloat.  Beyond the last unit
\* normalize leaves a product as it is, and String has no name for it.
MulBy(m) == /\ Call
            /\ n.U + m.U <= LZ /\ abs(n.V) < MaxFloat
            /\ n' = Mul(n, m)

\* A division by zero gives an infinity, which the numbers here do not have.
DivBy(m) == /\ Call
            /\ m.V # 0
            /\ n' = Div(n, m)

\* Any comparison normalizes the number.
Compare == Call /\ n' = normalize(n)

CNext == \/ \E m \in Operands : AddTo(m) \/ SubFrom(m) \/ MulBy(m) \/ DivBy(m)
         \/ Compare

CSpec == CInit /\ [][CNext]_cvars

-----------------------------------------------------------------------------
SameSign(x, y) == x.V >= 0 <=> y.V >= 0

(* Numbers of one sign ("the code below handles two numbers of the same     *)
(* sign", unumber.go:144) are ordered as what their normal forms stand for,  *)
(* whatever the units and the roundings on the way to them.                 *)
OrderExact == \A m \in Operands : SameSign(n, m) =>
    LET x == normalize(n)  y == normalize(m)
    IN  /\ Ge(n, m) <=> Value(x) >= Value(y)
        /\ Gt(n, m) <=> Value(x) > Value(y)

\* What the code itself made of a number: no loop of normalize changes it.
IsNormal(x) == normalize(x) = x

(* A sum of normal numbers that are not negative is below neither of them,   *)
(* although it is rounded and the smaller one may be ignored (unumber.go:385).*)
AddGrows == [][\A m \in Operands :
    AddTo(m) /\ IsNormal(n) /\ IsNormal(m) /\ n.V >= 0 /\ m.V >= 0
        => Ge(n', n) /\ Ge(n', m)]_cvars

(* No sequence of calls makes a number negative by subtracting: a larger one *)
(* is refused, although numbers are compared after they were rounded         *)
(* (unumber.go:91).                                                         *)
SubKeepsSign == [][\A m \in Operands :
    n.V >= 0 /\ m.V >= 0 /\ SubFrom(m) => n'.V >= 0]_cvars

-----------------------------------------------------------------------------
(* What the comments say and the code does not do.                           *)

(* "Different signs" (unumber.go:135), answered with true: a positive number  *)
(* is not below a negative one.                                             *)
SignsDecide == \A m \in Operands : n.V > 0 /\ m.V < 0 => Ge(n, m)

(* "Whether they are equal" (unumber.go:120): two numbers, neither of which   *)
(* is above the other, are.                                                  *)
EqualIsEqual == \A m \in Operands :
    SameSign(n, m) /\ Ge(n, m) /\ Le(n, m) => Equal(n, m)
=============================================================================
