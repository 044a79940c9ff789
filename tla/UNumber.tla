------------------------------- MODULE UNumber -------------------------------
(***************************************************************************)
(* gamecfg/unumber.go: numbers with a unit (raw, A, B, ..., LZ), each unit   *)
(* UnitOffest times the one before.  V is a float32: it counts the Scale-th *)
(* parts of one that the smallest float is, and whatever is computed is      *)
(* rounded to a float.  There are no infinities.                             *)
(***************************************************************************)
LOCAL INSTANCE Integers

CONSTANTS UnitOffest,  \* 1000 in the code
          LZ,          \* the last unit, 338 in the code
          Scale,       \* how many of the smallest floats one is, 2^149 in the code
          MaxFloat,    \* the largest float32, counted as V is
          Tolerance,   \* 0.000001 of line 127, counted as V is
          Round(_, _)  \* the float nearest to the first number by the second

ASSUME UNumberAssumption ==
    /\ UnitOffest \in Nat \ {0, 1} /\ LZ \in Nat
    /\ Scale \in Nat \ {0} /\ MaxFloat \in Nat \ {0} /\ Tolerance \in Nat

\* What is known of rounding: to one of the floats, the nearest, and alike on both
\* sides of zero; one and UnitOffest are floats.
RoundingOn(Dividends, Divisors) ==
    /\ \A p \in Dividends, q \in Divisors : /\ Round(p, q) \in Int
                                            /\ Round(Round(p, q), 1) = Round(p, q)
                                            /\ Round(-p, q) = -Round(p, q)
    /\ \A p, r \in Dividends, q, t \in Divisors : p * t <= r * q => Round(p, q) <= Round(r, t)
    /\ Round(Scale, 1) = Scale /\ Round(UnitOffest * Scale, 1) = UnitOffest * Scale
Rounding == RoundingOn(Int, Nat \ {0})

\* Next to one and to UnitOffest the floats lie so that only these are a unit apart.  So
\* they do for 24 bits and 1000.
LimitsOn(Numbers) == \A p \in Numbers : Round(p, 1) = p =>
    /\ Round(p, UnitOffest) = Scale => p = UnitOffest * Scale
    /\ Round(UnitOffest * p, 1) = UnitOffest * Scale => p = Scale
Limits == LimitsOn(Int)

\* UnitOffest to the k-th, multiplied up as Add does for its divisor.
Power[k \in Nat] == IF k = 0 THEN 1 ELSE UnitOffest * Power[k - 1]

RAW == 0
Units == RAW..LZ   \* raw, A, ..., Z, AA, ..., LZ
Number == [U : Nat, V : Int]
Zero == [U |-> RAW, V |-> 0]

\* What a number stands for, in Scale-th parts of one.
Value(x) == x.V * Power[x.U]

abs(v) == IF v < 0 THEN -v ELSE v

\* One float by or times UnitOffest.
divide(v) == Round(v, UnitOffest)
multiply(v) == Round(UnitOffest * v, 1)

\* The two loops of normalize: up while V is above UnitOffest, down while it is
\* below one.
raise[x \in Number] ==
    IF abs(x.V) > UnitOffest * Scale /\ x.U < LZ
    THEN raise[[U |-> x.U + 1, V |-> divide(x.V)]] ELSE x
lower[x \in Number] ==
    IF abs(x.V) < Scale /\ x.U > RAW
    THEN lower[[U |-> x.U - 1, V |-> multiply(x.V)]] ELSE x
normalize(x) == lower[raise[x]]

\* A float divided or multiplied k times, and rounded every time: d is <<v, k>>.
divided[d \in Int \X Nat] ==
    IF d[2] = 0 THEN d[1] ELSE divided[<<divide(d[1]), d[2] - 1>>]
multiplied[d \in Int \X Nat] ==
    IF d[2] = 0 THEN d[1] ELSE multiplied[<<multiply(d[1]), d[2] - 1>>]

valueByUnit(x, unit) ==
    IF x.U < unit THEN divided[<<x.V, unit - x.U>>] ELSE multiplied[<<x.V, x.U - unit>>]

-----------------------------------------------------------------------------
(* Arithmetic.                                                             *)

\* Mutant: the units are compared the wrong way.
LargerSwapped(x, y) == IF x.U > y.U THEN y ELSE x

\* The operand with the larger unit, and the other one.
Larger(x, y) == IF x.U > y.U THEN x ELSE y
Smaller(x, y) == IF x.U > y.U THEN y ELSE x

\* The operand with the smaller unit is brought to the larger one, by one division, or
\* ignored from four units on; then the other is the sum, as it is.
Add(x, y) ==
    LET new == Larger(x, y)
        adjust == Smaller(x, y)
        offest == new.U - adjust.U
    IN  IF offest <= 3
        THEN normalize([new EXCEPT !.V = Round(@ + Round(adjust.V, Power[offest]), 1)])
        ELSE new

Sub(x, y) == Add(x, [y EXCEPT !.V = -@])

Mul(x, y) == normalize([U |-> x.U + y.U, V |-> Round(x.V * y.V, Scale)])

\* A quotient of a smaller unit by a larger one is brought down to raw.
Div(x, y) ==
    LET value == Round((IF y.V < 0 THEN -x.V ELSE x.V) * Scale, abs(y.V))
    IN  normalize(IF x.U < y.U
                  THEN [U |-> RAW, V |-> divided[<<value, y.U - x.U>>]]
                  ELSE [U |-> x.U - y.U, V |-> value])

-----------------------------------------------------------------------------
(* Comparisons.  Both operands are normalized, and stay so.  The tests for   *)
(* opposite signs at their beginning compare a number with itself (n.V > 0  *)
(* && n.V < 0) and never hold.                                              *)

\* The answer when the units alone decide: the sign of the first number.
ByUnit(x, y) == LET diff == x.U - y.U
                IN  IF diff > 1 THEN x.V >= 0 ELSE ~ (x.V >= 0)

\* Mutant: neighbouring units are not compared by value.
FarApartOrNext(x, y) == x.U - y.U > 0 \/ x.U - y.U < -1

\* The units are not the same and not neighbours.
FarApart(x, y) == x.U - y.U > 1 \/ x.U - y.U < -1

Equal(m, n) == LET x == normalize(m)  y == normalize(n)
               IN  abs(Round(x.V - y.V, 1)) < Tolerance /\ x.U = y.U
Ge(m, n) == LET x == normalize(m)  y == normalize(n)
            IN  IF FarApart(x, y) THEN ByUnit(x, y) ELSE x.V >= valueByUnit(y, x.U)
Gt(m, n) == LET x == normalize(m)  y == normalize(n)
            IN  IF FarApart(x, y) THEN ByUnit(x, y) ELSE x.V > valueByUnit(y, x.U)
Le(m, n) == ~ Gt(m, n)
Lt(m, n) == ~ Ge(m, n)

-----------------------------------------------------------------------------
(* Reading.  A text is a number and a unit, or neither: "306.5A", "12".      *)

\* A unit that does not exist is no error: the number is taken as raw.
string2Unit(unit) == IF unit \in Units THEN unit ELSE RAW
ParseUNumber(text) == [U |-> string2Unit(text.unit), V |-> Round(text.num, 1)]

\* A float64 that is no float32 is divided down first, in float64s, which are exact here.
Floats(v) == CHOOSE u \in Units : /\ v < MaxFloat * Power[u]
                                  /\ \A k \in 0..(u - 1) : v >= MaxFloat * Power[k]
ParseBigNumber(v) == LET u == Floats(v) IN normalize([U |-> u, V |-> Round(v, Power[u])])
=============================================================================
