--------------------------- MODULE GameCfg_proofs ----------------------------
(***************************************************************************)
(* gamecfg: what numbers come to, in any sequence of calls, and what is      *)
(* loaded from a file, for every header, all rows and any number of loads.  *)
(***************************************************************************)
EXTENDS Calculator, Table, SequenceTheorems, FiniteSetTheorems, WellFoundedInduction, TLAPS
-----------------------------------------------------------------------------
(* Induction, over a set with a rank: every set of natural numbers has a      *)
(* least one, so a function that calls itself on arguments of a lower rank is  *)
(* defined, and what it keeps can be proved.                                 *)

\* A set of natural numbers has a least one.
LEMMA LeastNumber ==
    ASSUME NEW T \in SUBSET Nat, T # {} PROVE \E i \in T : \A j \in T : i <= j
<1>1. PICK i \in T : \A j \in T : ~ (<<j, i>> \in OpToRel(<, Nat))
  BY NatLessThanWellFounded, WFMin
<1>2. \A j \in T : ~ (j < i)
  BY <1>1 DEF OpToRel
<1> QED
  BY <1>2

\* A set that has every element whose lower ones it has has all of them.
LEMMA LowerFirst ==
    ASSUME NEW S, NEW rank \in [S -> Nat], NEW T,
           \A x \in S : (\A y \in S : rank[y] < rank[x] => y \in T) => x \in T
    PROVE  \A x \in S : x \in T
<1> DEFINE bad == {rank[x] : x \in {y \in S : y \notin T}}
<1> SUFFICES ASSUME NEW x \in S, x \notin T PROVE FALSE
  OBVIOUS
<1>1. bad \in SUBSET Nat /\ bad # {}
  OBVIOUS
<1>2. PICK i \in bad : \A j \in bad : i <= j
  <2> HIDE DEF bad
  <2> QED
    BY <1>1, LeastNumber
<1>3. PICK y \in S : y \notin T /\ i = rank[y]
  BY <1>2
<1>4. \A z \in S : rank[z] < rank[y] => z \in T
  <2> SUFFICES ASSUME NEW z \in S, rank[z] < rank[y], z \notin T PROVE FALSE
    OBVIOUS
  <2>1. rank[z] \in bad /\ rank[z] \in Nat /\ rank[y] \in Nat
    OBVIOUS
  <2>2. i <= rank[z]
    BY <1>2, <2>1
  <2> QED
    BY <1>3, <2>1, <2>2
<1> QED
  BY <1>3, <1>4

\* f is a function that calls itself: on a lower argument, in C, until it is out of C.
Below(f, i, S, C, step, rank, base, up) ==
    \A x \in S : rank[x] < i => f[x] = IF x \in C THEN up[x][f[step[x]]] ELSE base[x]
Obeys(f, S, C, step, base, up) ==
    \A x \in S : f[x] = IF x \in C THEN up[x][f[step[x]]] ELSE base[x]

LEMMA Partly ==
    ASSUME NEW S, NEW V, NEW C \in SUBSET S, NEW step \in [S -> S], NEW rank \in [S -> Nat],
           \A x \in C : rank[step[x]] < rank[x], NEW base \in [S -> V], NEW up \in [S -> [V -> V]]
    PROVE  \A i \in Nat : \E f \in [S -> V] : Below(f, i, S, C, step, rank, base, up)
<1> DEFINE To(f, i) == Below(f, i, S, C, step, rank, base, up)
           T == {i \in Nat : \E f \in [S -> V] : To(f, i)}
<1>1. 0 \in T
  <2>1. To(base, 0)
    BY DEF Below
  <2> HIDE DEF To
  <2> QED
    BY <2>1
<1>2. ASSUME NEW i \in T PROVE i + 1 \in T
  <2>1. PICK f \in [S -> V] : To(f, i)
    OBVIOUS
  <2> DEFINE g == [x \in S |-> IF rank[x] < i THEN f[x]
                               ELSE IF x \in C THEN up[x][f[step[x]]] ELSE base[x]]
  <2>2. g \in [S -> V]
    OBVIOUS
  <2>3. ASSUME NEW x \in S, rank[x] < i + 1
        PROVE  g[x] = IF x \in C THEN up[x][g[step[x]]] ELSE base[x]
    <3>1. g[x] = IF x \in C THEN up[x][f[step[x]]] ELSE base[x]
      BY <2>1 DEF Below
    <3>2. ASSUME x \in C PROVE g[step[x]] = f[step[x]]
      <4>1. rank[step[x]] < rank[x] /\ step[x] \in S /\ rank[step[x]] \in Nat /\ rank[x] \in Nat
        BY <3>2
      <4>2. rank[step[x]] < i
        BY <2>3, <4>1
      <4> QED
        BY <4>1, <4>2
    <3> HIDE DEF g
    <3> QED
      BY <3>1, <3>2
  <2>4. To(g, i + 1)
    BY <2>3 DEF Below
  <2> HIDE DEF To, g
  <2>5. \E h \in [S -> V] : To(h, i + 1)
    BY <2>2, <2>4
  <2> QED
    BY <2>5
<1> DEFINE id == [i \in Nat |-> i]
<1>3. \A i \in Nat : (\A j \in Nat : id[j] < id[i] => j \in T) => i \in T
  <2> HIDE DEF T
  <2> TAKE i \in Nat
  <2> HAVE \A j \in Nat : id[j] < id[i] => j \in T
  <2>1. CASE i = 0
    BY <1>1, <2>1
  <2>2. CASE i # 0
    <3>1. i - 1 \in T /\ (i - 1) + 1 = i
      BY <2>2
    <3>2. (i - 1) + 1 \in T
      BY <1>2, <3>1
    <3> QED
      BY <3>1, <3>2
  <2> QED
    BY <2>1, <2>2
<1>4. \A i \in Nat : i \in T
  <2>1. id \in [Nat -> Nat]
    OBVIOUS
  <2> HIDE DEF T, id
  <2> QED
    BY <1>3, <2>1, LowerFirst, Zenon
<1> QED
  BY <1>4

\* A function that calls itself on lower arguments exists.
LEMMA Recursion ==
    ASSUME NEW S, NEW V, NEW C \in SUBSET S, NEW step \in [S -> S], NEW rank \in [S -> Nat],
           \A x \in C : rank[step[x]] < rank[x], NEW base \in [S -> V], NEW up \in [S -> [V -> V]]
    PROVE  \E f \in [S -> V] : Obeys(f, S, C, step, base, up)
<1> DEFINE To(f, i) == Below(f, i, S, C, step, rank, base, up)
           F(i) == CHOOSE f \in [S -> V] : To(f, i)
<1>1. \A i \in Nat : F(i) \in [S -> V] /\ To(F(i), i)
  <2>1. \A i \in Nat : \E f \in [S -> V] : To(f, i)
    BY Partly, Zenon
  <2> HIDE DEF To
  <2> QED
    BY <2>1
<1> HIDE DEF F
<1>2. ASSUME NEW i \in Nat, NEW j \in Nat
      PROVE  \A x \in S : rank[x] < i /\ rank[x] < j => F(i)[x] = F(j)[x]
  <2> DEFINE T == {x \in S : rank[x] < i /\ rank[x] < j => F(i)[x] = F(j)[x]}
  <2>1. \A x \in S : (\A y \in S : rank[y] < rank[x] => y \in T) => x \in T
    <3> SUFFICES ASSUME NEW x \in S, \A y \in S : rank[y] < rank[x] => y \in T,
                        rank[x] < i, rank[x] < j
                 PROVE  F(i)[x] = F(j)[x]
      OBVIOUS
    <3>1. /\ F(i)[x] = IF x \in C THEN up[x][F(i)[step[x]]] ELSE base[x]
          /\ F(j)[x] = IF x \in C THEN up[x][F(j)[step[x]]] ELSE base[x]
      BY <1>1 DEF Below
    <3>2. ASSUME x \in C PROVE F(i)[step[x]] = F(j)[step[x]]
      <4>1. /\ step[x] \in S /\ rank[step[x]] < rank[x]
            /\ rank[step[x]] \in Nat /\ rank[x] \in Nat
        BY <3>2
      <4>2. step[x] \in T /\ rank[step[x]] < i /\ rank[step[x]] < j
        BY <4>1
      <4> QED
        BY <4>2
    <3> QED
      BY <3>1, <3>2
  <2>2. \A x \in S : x \in T
    <3> HIDE DEF T
    <3> QED
      BY <2>1, LowerFirst
  <2> QED
    BY <2>2
<1> DEFINE f == [x \in S |-> F(rank[x] + 1)[x]]
<1>3. f \in [S -> V]
  <2>1. \A x \in S : rank[x] + 1 \in Nat
    OBVIOUS
  <2> HIDE DEF To
  <2> QED
    BY <1>1, <2>1
<1>4. ASSUME NEW x \in S PROVE f[x] = IF x \in C THEN up[x][f[step[x]]] ELSE base[x]
  <2> DEFINE i == rank[x] + 1
  <2>1. i \in Nat /\ rank[x] < i /\ rank[x] \in Nat
    OBVIOUS
  <2>2. f[x] = IF x \in C THEN up[x][F(i)[step[x]]] ELSE base[x]
    BY <1>1, <2>1 DEF Below
  <2>3. ASSUME x \in C PROVE f[step[x]] = F(i)[step[x]]
    <3>1. step[x] \in S /\ rank[step[x]] < rank[x] /\ rank[step[x]] \in Nat
      BY <2>3
    <3> DEFINE j == rank[step[x]] + 1
    <3>2. j \in Nat /\ rank[step[x]] < i /\ rank[step[x]] < j /\ f[step[x]] = F(j)[step[x]]
      BY <2>1, <3>1
    <3> HIDE DEF f, i, j
    <3> QED
      BY <1>2, <2>1, <3>1, <3>2
  <2> HIDE DEF f, i
  <2> QED
    BY <2>2, <2>3
<1> HIDE DEF f
<1> QED
  BY <1>3, <1>4 DEF Obeys

-----------------------------------------------------------------------------
(* Loops, and the powers of UnitOffest.                                     *)

\* A loop over S goes on while it is in C and comes lower with every step.
Falls(S, C, step, rank) ==
    /\ C \in SUBSET S /\ step \in [S -> S] /\ rank \in [S -> Nat]
    /\ \A x \in C : rank[step[x]] < rank[x]

\* f is what it computes.
Loop(f, S, C, step) == \A x \in S : f[x] = IF x \in C THEN f[step[x]] ELSE x

\* It keeps T.
Keeps(T, C, step) == \A x \in T : x \in C => step[x] \in T

\* A loop keeps what each round keeps, and ends where it does not go on.
LEMMA LoopEnds ==
    ASSUME NEW S, NEW C, NEW step, NEW rank, Falls(S, C, step, rank),
           NEW f, Loop(f, S, C, step), NEW T, T \subseteq S, Keeps(T, C, step)
    PROVE  \A x \in T : f[x] \in T /\ f[x] \notin C
<1> USE DEF Falls
<1> DEFINE Good == {x \in S : x \in T => f[x] \in T /\ f[x] \notin C}
<1>1. \A x \in S : (\A y \in S : rank[y] < rank[x] => y \in Good) => x \in Good
  <2> SUFFICES ASSUME NEW x \in S, \A y \in S : rank[y] < rank[x] => y \in Good, x \in T
               PROVE  f[x] \in T /\ f[x] \notin C
    OBVIOUS
  <2>1. CASE x \notin C
    BY <2>1 DEF Loop
  <2>2. CASE x \in C
    <3>1. step[x] \in Good /\ step[x] \in T /\ f[x] = f[step[x]]
      BY <2>2 DEF Loop, Keeps
    <3> QED
      BY <3>1
  <2> QED
    BY <2>1, <2>2
<1>2. \A x \in S : x \in Good
  <2>1. rank \in [S -> Nat]
    OBVIOUS
  <2> HIDE DEF Good, Falls
  <2> QED
    BY <1>1, <2>1, LowerFirst, Zenon
<1> QED
  BY <1>2

Positive == Nat \ {0}

LEMMA PowerDefined ==
    /\ Power \in [Nat -> Positive]
    /\ \A k \in Nat : Power[k] = IF k = 0 THEN 1 ELSE UnitOffest * Power[k - 1]
<1> DEFINE C == Nat \ {0}
           step == [k \in Nat |-> IF k = 0 THEN 0 ELSE k - 1]
           rank == [k \in Nat |-> k]
           base == [k \in Nat |-> 1]
           up == [k \in Nat |-> [v \in Positive |-> UnitOffest * v]]
<1>1. \A k \in C : rank[step[k]] < rank[k]
  OBVIOUS
<1>2. C \in SUBSET Nat /\ step \in [Nat -> Nat] /\ rank \in [Nat -> Nat] /\ base \in [Nat -> Positive]
  BY DEF Positive
<1>3. up \in [Nat -> [Positive -> Positive]]
  <2>1. \A v \in Positive : UnitOffest * v \in Positive
    BY UNumberAssumption DEF Positive
  <2> QED
    BY <2>1
<1>4. PICK f \in [Nat -> Positive] : Obeys(f, Nat, C, step, base, up)
  <2> HIDE DEF C, step, rank, base, up
  <2> QED
    BY <1>1, <1>2, <1>3, Recursion
<1>5. \A k \in Nat : f[k] = IF k = 0 THEN 1 ELSE UnitOffest * f[k - 1]
  <2> TAKE k \in Nat
  <2>1. f[k] = IF k \in C THEN up[k][f[step[k]]] ELSE base[k]
    BY <1>4 DEF Obeys
  <2>2. CASE k = 0
    BY <2>1, <2>2
  <2>3. CASE k # 0
    <3>1. f[k] = up[k][f[k - 1]] /\ k - 1 \in Nat
      BY <2>1, <2>3
    <3>2. f[k - 1] \in Positive
      BY <3>1
    <3> QED
      BY <2>3, <3>1, <3>2
  <2> QED
    BY <2>2, <2>3
<1>6. f = [k \in Nat |-> IF k = 0 THEN 1 ELSE UnitOffest * f[k - 1]]
  BY <1>5
<1>7. Power = [k \in Nat |-> IF k = 0 THEN 1 ELSE UnitOffest * Power[k - 1]]
  BY <1>6 DEF Power
<1>8. \A k \in Nat : Power[k] = IF k = 0 THEN 1 ELSE UnitOffest * Power[k - 1]
  BY <1>7
<1>9. \A k \in Nat : Power[k] \in Positive
  <2>1. rank \in [Nat -> Nat]
    OBVIOUS
  <2>2. \A k \in Nat : (\A j \in Nat : rank[j] < rank[k] => Power[j] \in Positive)
                        => Power[k] \in Positive
    <3> TAKE k \in Nat
    <3> HAVE \A j \in Nat : rank[j] < rank[k] => Power[j] \in Positive
    <3>1. CASE k = 0
      BY <1>8, <3>1 DEF Positive
    <3>2. CASE k # 0
      <4>1. k - 1 \in Nat /\ Power[k - 1] \in Positive /\ Power[k] = UnitOffest * Power[k - 1]
        BY <1>8, <3>2
      <4> HIDE DEF rank
      <4> QED
        BY <4>1, UNumberAssumption DEF Positive
    <3> QED
      BY <3>1, <3>2
  <2> DEFINE T == {k \in Nat : Power[k] \in Positive}
  <2>3. \A k \in Nat : (\A j \in Nat : rank[j] < rank[k] => j \in T) => k \in T
    BY <2>2
  <2> HIDE DEF T, rank
  <2>4. \A k \in Nat : k \in T
    BY <2>1, <2>3, LowerFirst, Zenon
  <2> QED
    BY <2>4 DEF T
<1> QED
  BY <1>7, <1>8, <1>9

\* A loop that ends has a result.
LEMMA LoopDefined ==
    ASSUME NEW S, NEW C, NEW step, NEW rank, Falls(S, C, step, rank)
    PROVE  \E f \in [S -> S] : Loop(f, S, C, step)
<1> USE DEF Falls
<1> DEFINE base == [x \in S |-> x]
           up == [x \in S |-> [v \in S |-> v]]
<1>1. base \in [S -> S] /\ up \in [S -> [S -> S]]
  OBVIOUS
<1>2. PICK f \in [S -> S] : Obeys(f, S, C, step, base, up)
  <2> HIDE DEF base, up
  <2> QED
    BY <1>1, Recursion
<1>3. \A x \in S : f[x] = IF x \in C THEN f[step[x]] ELSE x
  <2> TAKE x \in S
  <2>1. f[x] = IF x \in C THEN up[x][f[step[x]]] ELSE base[x]
    BY <1>2 DEF Obeys
  <2>2. step[x] \in S /\ f[step[x]] \in S
    OBVIOUS
  <2> QED
    BY <2>1, <2>2
<1> QED
  BY <1>3 DEF Loop

LEMMA Times == \A a, b \in Int, c \in Nat : a <= b => a * c <= b * c
<1> SUFFICES ASSUME NEW a \in Int, NEW b \in Int, NEW c \in Nat, a <= b PROVE a * c <= b * c
  OBVIOUS
<1>1. (b - a) * c >= 0
  OBVIOUS
<1>2. (b - a) * c = b * c - a * c
  OBVIOUS
<1> QED
  BY <1>1, <1>2

LEMMA Constants == /\ Scale \in Nat /\ Scale >= 1 /\ UnitOffest \in Nat /\ UnitOffest >= 2 /\ LZ \in Nat
                   /\ UnitOffest * Scale \in Nat /\ -Scale \in Int
BY UNumberAssumption

-----------------------------------------------------------------------------
(* Rounding.                                                                *)

IsFloat(v) == v \in Int /\ Round(v, 1) = v

LEMMA Rounded ==
    ASSUME Rounding, NEW p \in Int, NEW q \in Positive
    PROVE  Round(p, q) \in Int /\ IsFloat(Round(p, q)) /\ Round(-p, q) = -Round(p, q)
BY DEF Rounding, RoundingOn, Positive, IsFloat

\* The nearest float is on the same side of every other one.
LEMMA RoundsBetween ==
    ASSUME Rounding, NEW p \in Int, NEW q \in Positive, NEW f, IsFloat(f)
    PROVE  /\ f * q <= p => f <= Round(p, q)
           /\ p <= f * q => Round(p, q) <= f
<1>1. f \in Int /\ Round(f, 1) = f /\ 1 \in Positive /\ p * 1 = p
  BY DEF IsFloat, Positive
<1>2. /\ f * q <= p * 1 => Round(f, 1) <= Round(p, q)
      /\ p * 1 <= f * q => Round(p, q) <= Round(f, 1)
  BY <1>1 DEF Rounding, RoundingOn, Positive
<1> QED
  BY <1>1, <1>2

LEMMA Floats0 ==
    ASSUME Rounding
    PROVE  /\ IsFloat(0) /\ IsFloat(Scale) /\ IsFloat(UnitOffest * Scale) /\ IsFloat(-Scale)
           /\ \A v : IsFloat(v) => IsFloat(-v)
<1>1. 1 \in Positive
  BY DEF Positive
<1>2. IsFloat(0)
  <2>1. \A p \in Int : Round(p, 1) \in Int /\ Round(-p, 1) = -Round(p, 1)
    BY <1>1, Rounded
  <2>2. \A p \in Int : -p = p => Round(p, 1) = -Round(p, 1)
    BY <2>1, Zenon
  <2>3. Round(0, 1) \in Int /\ Round(0, 1) = -Round(0, 1)
    BY <2>1, <2>2
  <2> QED
    BY <2>3 DEF IsFloat
<1>3. IsFloat(Scale) /\ IsFloat(UnitOffest * Scale)
  BY Constants DEF Rounding, RoundingOn, IsFloat
<1>4. ASSUME NEW v, IsFloat(v) PROVE IsFloat(-v)
  <2>1. v \in Int /\ Round(v, 1) = v
    BY <1>4 DEF IsFloat
  <2>2. Round(-v, 1) = -Round(v, 1)
    BY <1>1, <2>1, Rounded
  <2> QED
    BY <2>1, <2>2 DEF IsFloat
<1> QED
  BY <1>2, <1>3, <1>4

\* Zero is the least float of its sign.
LEMMA RoundsSign ==
    ASSUME Rounding, NEW p \in Int, NEW q \in Positive
    PROVE  p >= 0 => Round(p, q) >= 0
<1>1. 0 * q = 0 /\ IsFloat(0)
  BY Floats0 DEF Positive
<1>2. 0 * q <= p => 0 <= Round(p, q)
  BY <1>1, RoundsBetween
<1> QED
  BY <1>1, <1>2, Rounded

\* A division or multiplication by UnitOffest, each with the limit it does not cross.
LEMMA Divided ==
    ASSUME Rounding, NEW v \in Int
    PROVE  /\ divide(v) \in Int /\ IsFloat(divide(v)) /\ divide(-v) = -divide(v)
           /\ v >= 0 => divide(v) >= 0
           /\ v >= UnitOffest * Scale => divide(v) >= Scale
           /\ v <= UnitOffest * Scale => divide(v) <= Scale
<1>1. UnitOffest \in Positive /\ Scale * UnitOffest = UnitOffest * Scale
  BY Constants DEF Positive
<1>2. IsFloat(Scale)
  BY Floats0
<1>3. /\ Scale * UnitOffest <= v => Scale <= Round(v, UnitOffest)
      /\ v <= Scale * UnitOffest => Round(v, UnitOffest) <= Scale
  BY <1>1, <1>2, RoundsBetween
<1>4. /\ divide(v) \in Int /\ IsFloat(divide(v)) /\ divide(-v) = -divide(v)
      /\ v >= 0 => divide(v) >= 0
  BY <1>1, Rounded, RoundsSign DEF divide
<1> QED
  BY <1>1, <1>3, <1>4, Constants DEF divide

LEMMA Multiplied ==
    ASSUME Rounding, NEW v \in Int
    PROVE  /\ multiply(v) \in Int /\ IsFloat(multiply(v)) /\ multiply(-v) = -multiply(v)
           /\ v >= 0 => multiply(v) >= 0
           /\ v >= Scale => multiply(v) >= UnitOffest * Scale
           /\ v <= Scale => multiply(v) <= UnitOffest * Scale
           /\ IsFloat(v) /\ v > 0 => multiply(v) > 0
<1> DEFINE w == UnitOffest * v
           top == UnitOffest * Scale
<1>1. w \in Int /\ top \in Int /\ 1 \in Positive /\ top * 1 = top /\ w = v * UnitOffest
      /\ -w = UnitOffest * (-v) /\ v * 1 = v
  BY Constants DEF Positive
<1>2. IsFloat(top)
  BY Floats0
<1>3. /\ v >= Scale => top <= w
      /\ v <= Scale => w <= top
      /\ v >= 0 => 0 <= w
      /\ v >= 0 => v <= w
  <2>1. /\ v >= Scale => Scale * UnitOffest <= v * UnitOffest
        /\ v <= Scale => v * UnitOffest <= Scale * UnitOffest
        /\ v >= 0 => 0 * UnitOffest <= v * UnitOffest
    BY Constants, Times
  <2>2. v >= 0 => 1 * v <= UnitOffest * v
    BY Constants, Times
  <2> QED
    BY <1>1, <2>1, <2>2, Constants
<1> HIDE DEF w, top
<1>4. /\ top * 1 <= w => top <= Round(w, 1)
      /\ w <= top * 1 => Round(w, 1) <= top
      /\ IsFloat(v) /\ v * 1 <= w => v <= Round(w, 1)
  BY <1>1, <1>2, RoundsBetween
<1>5. /\ Round(w, 1) \in Int /\ IsFloat(Round(w, 1)) /\ Round(-w, 1) = -Round(w, 1)
      /\ w >= 0 => Round(w, 1) >= 0
  BY <1>1, Rounded, RoundsSign
<1>6. multiply(v) = Round(w, 1) /\ multiply(-v) = Round(-w, 1)
  BY <1>1 DEF multiply, w
<1>7. /\ v >= Scale => Round(w, 1) >= top
      /\ v <= Scale => Round(w, 1) <= top
      /\ v >= 0 => Round(w, 1) >= 0
  BY <1>1, <1>3, <1>4, <1>5, Constants
<1>8. IsFloat(v) /\ v > 0 => Round(w, 1) > 0
  <2>1. v > 0 => v <= w
    BY <1>3
  <2>2. IsFloat(v) /\ v > 0 => v <= Round(w, 1)
    BY <1>1, <1>4, <2>1
  <2> QED
    BY <1>5, <2>2
<1> QED
  BY <1>5, <1>6, <1>7, <1>8 DEF top

-----------------------------------------------------------------------------
(* The loops of normalize, as steps.                                         *)

GoesUp == {x \in Number : abs(x.V) > UnitOffest * Scale /\ x.U < LZ}
Up == [x \in Number |-> IF x \in GoesUp THEN [U |-> x.U + 1, V |-> divide(x.V)] ELSE x]
UpRank == [x \in Number |-> IF x.U <= LZ THEN LZ - x.U ELSE 0]
GoesDown == {x \in Number : abs(x.V) < Scale /\ x.U > RAW}
Down == [x \in Number |-> IF x \in GoesDown THEN [U |-> x.U - 1, V |-> multiply(x.V)] ELSE x]
DownRank == [x \in Number |-> x.U]

LEMMA UpSteps ==
    ASSUME Rounding
    PROVE  /\ Falls(Number, GoesUp, Up, UpRank) /\ GoesUp \subseteq Number /\ Up \in [Number -> Number]
           /\ \A x \in GoesUp : Up[x] = [U |-> x.U + 1, V |-> divide(x.V)]
<1>1. ASSUME NEW x \in Number PROVE [U |-> x.U + 1, V |-> divide(x.V)] \in Number
  <2>1. x.U \in Nat /\ x.V \in Int
    BY DEF Number
  <2>2. divide(x.V) \in Int
    BY <2>1, Divided
  <2> QED
    BY <2>1, <2>2 DEF Number
<1>2. GoesUp \in SUBSET Number /\ Up \in [Number -> Number]
  BY <1>1 DEF GoesUp, Up
<1>3. UpRank \in [Number -> Nat]
  BY Constants DEF UpRank, Number
<1>4. ASSUME NEW x \in GoesUp
      PROVE  UpRank[Up[x]] < UpRank[x] /\ Up[x] = [U |-> x.U + 1, V |-> divide(x.V)]
  <2>1. x \in Number /\ Up[x] = [U |-> x.U + 1, V |-> divide(x.V)]
    BY <1>2 DEF Up
  <2>2. Up[x] \in Number /\ Up[x].U = x.U + 1 /\ x.U \in Nat /\ x.U < LZ
    BY <1>1, <2>1 DEF GoesUp, Number
  <2>3. UpRank[Up[x]] = LZ - (x.U + 1) /\ UpRank[x] = LZ - x.U
    BY <2>1, <2>2, Constants DEF UpRank
  <2> QED
    BY <2>1, <2>2, <2>3, Constants
<1> QED
  BY <1>2, <1>3, <1>4 DEF Falls

LEMMA DownSteps ==
    ASSUME Rounding
    PROVE  /\ Falls(Number, GoesDown, Down, DownRank) /\ GoesDown \subseteq Number /\ Down \in [Number -> Number]
           /\ \A x \in GoesDown : Down[x] = [U |-> x.U - 1, V |-> multiply(x.V)]
<1>1. ASSUME NEW x \in GoesDown PROVE [U |-> x.U - 1, V |-> multiply(x.V)] \in Number
  <2>1. x.U \in Nat /\ x.V \in Int /\ x.U > 0
    BY DEF Number, GoesDown, RAW
  <2>2. multiply(x.V) \in Int
    BY <2>1, Multiplied
  <2> QED
    BY <2>1, <2>2 DEF Number
<1>2. GoesDown \in SUBSET Number /\ Down \in [Number -> Number]
  BY <1>1 DEF GoesDown, Down
<1>3. DownRank \in [Number -> Nat]
  BY DEF DownRank, Number
<1>4. ASSUME NEW x \in GoesDown
      PROVE  DownRank[Down[x]] < DownRank[x] /\ Down[x] = [U |-> x.U - 1, V |-> multiply(x.V)]
  <2>1. x \in Number /\ Down[x] = [U |-> x.U - 1, V |-> multiply(x.V)]
    BY <1>2 DEF Down
  <2>2. Down[x] \in Number /\ Down[x].U = x.U - 1 /\ x.U \in Nat
    BY <1>1, <2>1 DEF Number
  <2>3. DownRank[Down[x]] = x.U - 1 /\ DownRank[x] = x.U
    BY <2>1, <2>2 DEF DownRank
  <2> QED
    BY <2>1, <2>2, <2>3
<1> QED
  BY <1>2, <1>3, <1>4 DEF Falls

LEMMA RaiseDefined == ASSUME Rounding PROVE Loop(raise, Number, GoesUp, Up)
<1>1. PICK f \in [Number -> Number] : Loop(f, Number, GoesUp, Up)
  BY UpSteps, LoopDefined
<1>2. ASSUME NEW g
      PROVE  \A x \in Number : (IF x \in GoesUp THEN g[Up[x]] ELSE x)
               = IF abs(x.V) > UnitOffest * Scale /\ x.U < LZ
                 THEN g[[U |-> x.U + 1, V |-> divide(x.V)]] ELSE x
  BY UpSteps DEF GoesUp
<1>3. f = [x \in Number |-> IF abs(x.V) > UnitOffest * Scale /\ x.U < LZ
                            THEN f[[U |-> x.U + 1, V |-> divide(x.V)]] ELSE x]
  BY <1>1, <1>2 DEF Loop
<1>4. raise = [x \in Number |-> IF abs(x.V) > UnitOffest * Scale /\ x.U < LZ
                                THEN raise[[U |-> x.U + 1, V |-> divide(x.V)]] ELSE x]
  BY <1>3 DEF raise
<1>5. \A x \in Number : raise[x] = IF abs(x.V) > UnitOffest * Scale /\ x.U < LZ
                                THEN raise[[U |-> x.U + 1, V |-> divide(x.V)]] ELSE x
  BY <1>4
<1> QED
  BY <1>2, <1>5 DEF Loop

LEMMA LowerDefined == ASSUME Rounding PROVE Loop(lower, Number, GoesDown, Down)
<1>1. PICK f \in [Number -> Number] : Loop(f, Number, GoesDown, Down)
  BY DownSteps, LoopDefined
<1>2. ASSUME NEW g
      PROVE  \A x \in Number : (IF x \in GoesDown THEN g[Down[x]] ELSE x)
               = IF abs(x.V) < Scale /\ x.U > RAW
                 THEN g[[U |-> x.U - 1, V |-> multiply(x.V)]] ELSE x
  BY DownSteps DEF GoesDown
<1>3. f = [x \in Number |-> IF abs(x.V) < Scale /\ x.U > RAW
                            THEN f[[U |-> x.U - 1, V |-> multiply(x.V)]] ELSE x]
  BY <1>1, <1>2 DEF Loop
<1>4. lower = [x \in Number |-> IF abs(x.V) < Scale /\ x.U > RAW
                                THEN lower[[U |-> x.U - 1, V |-> multiply(x.V)]] ELSE x]
  BY <1>3 DEF lower
<1>5. \A x \in Number : lower[x] = IF abs(x.V) < Scale /\ x.U > RAW
                                THEN lower[[U |-> x.U - 1, V |-> multiply(x.V)]] ELSE x
  BY <1>4
<1> QED
  BY <1>2, <1>5 DEF Loop

\* The numbers divided and multiplied k times.
LEMMA TimesOver ==
    ASSUME NEW F \in [Int -> Int]
    PROVE  \E f \in [Int \X Nat -> Int] : \A d \in Int \X Nat :
               f[d] = IF d[2] = 0 THEN d[1] ELSE f[<<F[d[1]], d[2] - 1>>]
<1> DEFINE S == Int \X Nat
           C == {d \in S : d[2] # 0}
           step == [d \in S |-> IF d[2] = 0 THEN d ELSE <<F[d[1]], d[2] - 1>>]
           rank == [d \in S |-> d[2]]
           base == [d \in S |-> d[1]]
           up == [d \in S |-> [v \in Int |-> v]]
<1>1. \A d \in C : rank[step[d]] < rank[d]
  <2> TAKE d \in C
  <2>1. d \in S /\ d[1] \in Int /\ d[2] \in Nat /\ d[2] # 0
    OBVIOUS
  <2>2. step[d] = <<F[d[1]], d[2] - 1>> /\ step[d] \in S
    BY <2>1
  <2>3. rank[step[d]] = d[2] - 1 /\ rank[d] = d[2]
    BY <2>1, <2>2
  <2> HIDE DEF S, C, step, rank
  <2> QED
    BY <2>1, <2>3
<1>2. C \in SUBSET S /\ rank \in [S -> Nat] /\ base \in [S -> Int] /\ up \in [S -> [Int -> Int]]
  OBVIOUS
<1>3. step \in [S -> S]
  OBVIOUS
<1>4. PICK f \in [S -> Int] : Obeys(f, S, C, step, base, up)
  <2> HIDE DEF S, C, step, rank, base, up
  <2> QED
    BY <1>1, <1>2, <1>3, Recursion
<1>5. ASSUME NEW d \in S PROVE f[d] = IF d[2] = 0 THEN d[1] ELSE f[<<F[d[1]], d[2] - 1>>]
  <2>1. f[d] = IF d \in C THEN up[d][f[step[d]]] ELSE base[d]
    BY <1>4 DEF Obeys
  <2>2. step[d] \in S /\ f[step[d]] \in Int
    BY <1>3
  <2>3. up[d][f[step[d]]] = f[step[d]]
    <3> HIDE DEF S, step
    <3> QED
      BY <2>2
  <2>4. CASE d[2] = 0
    BY <2>1, <2>4
  <2>5. CASE d[2] # 0
    <3>1. d \in C /\ step[d] = <<F[d[1]], d[2] - 1>>
      BY <2>5
    <3> HIDE DEF S, C, step, base, up
    <3> QED
      BY <2>1, <2>3, <2>5, <3>1
  <2> QED
    BY <2>4, <2>5
<1> QED
  BY <1>5

LEMMA DividedOver ==
    ASSUME Rounding
    PROVE  \A d \in Int \X Nat :
               divided[d] = IF d[2] = 0 THEN d[1] ELSE divided[<<divide(d[1]), d[2] - 1>>]
<1> DEFINE F == [v \in Int |-> divide(v)]
           S == Int \X Nat
<1>1. F \in [Int -> Int]
  BY Divided
<1>2. PICK f \in [S -> Int] : \A d \in S : f[d] = IF d[2] = 0 THEN d[1] ELSE f[<<F[d[1]], d[2] - 1>>]
  BY <1>1, TimesOver
<1>3. \A d \in S : F[d[1]] = divide(d[1])
  OBVIOUS
<1>4. f = [d \in Int \X Nat |-> IF d[2] = 0 THEN d[1] ELSE f[<<divide(d[1]), d[2] - 1>>]]
  <2> HIDE DEF F
  <2> QED
    BY <1>2, <1>3
<1>5. divided = [d \in Int \X Nat |-> IF d[2] = 0 THEN d[1] ELSE divided[<<divide(d[1]), d[2] - 1>>]]
  BY <1>4 DEF divided
<1> QED
  BY <1>5

LEMMA MultipliedOver ==
    ASSUME Rounding
    PROVE  \A d \in Int \X Nat :
               multiplied[d] = IF d[2] = 0 THEN d[1] ELSE multiplied[<<multiply(d[1]), d[2] - 1>>]
<1> DEFINE F == [v \in Int |-> multiply(v)]
           S == Int \X Nat
<1>1. F \in [Int -> Int]
  BY Multiplied
<1>2. PICK f \in [S -> Int] : \A d \in S : f[d] = IF d[2] = 0 THEN d[1] ELSE f[<<F[d[1]], d[2] - 1>>]
  BY <1>1, TimesOver
<1>3. \A d \in S : F[d[1]] = multiply(d[1])
  OBVIOUS
<1>4. f = [d \in Int \X Nat |-> IF d[2] = 0 THEN d[1] ELSE f[<<multiply(d[1]), d[2] - 1>>]]
  <2> HIDE DEF F
  <2> QED
    BY <1>2, <1>3
<1>5. multiplied = [d \in Int \X Nat |-> IF d[2] = 0 THEN d[1]
                                         ELSE multiplied[<<multiply(d[1]), d[2] - 1>>]]
  BY <1>4 DEF multiplied
<1> QED
  BY <1>5

\* Among neighbours at most one division or multiplication is made.
LEMMA ByNeighbours ==
    ASSUME Rounding, NEW y \in Number, NEW u \in Nat
    PROVE  /\ y.U = u => valueByUnit(y, u) = y.V
           /\ y.U + 1 = u => valueByUnit(y, u) = divide(y.V)
           /\ y.U = u + 1 => valueByUnit(y, u) = multiply(y.V)
<1>1. y.U \in Nat /\ y.V \in Int
  BY DEF Number
<1>2. \A v \in Int : divided[<<v, 0>>] = v /\ multiplied[<<v, 0>>] = v
  <2> TAKE v \in Int
  <2>1. <<v, 0>> \in Int \X Nat /\ <<v, 0>>[1] = v /\ <<v, 0>>[2] = 0
    OBVIOUS
  <2> QED
    BY <2>1, DividedOver, MultipliedOver
<1>3. \A v \in Int : divided[<<v, 1>>] = divide(v) /\ multiplied[<<v, 1>>] = multiply(v)
  <2> TAKE v \in Int
  <2>1. <<v, 1>> \in Int \X Nat /\ <<v, 1>>[1] = v /\ <<v, 1>>[2] = 1 /\ 1 - 1 = 0 /\ 1 # 0
    OBVIOUS
  <2>2. divided[<<v, 1>>] = divided[<<divide(v), 0>>]
    BY <2>1, DividedOver
  <2>3. multiplied[<<v, 1>>] = multiplied[<<multiply(v), 0>>]
    BY <2>1, MultipliedOver
  <2>4. divide(v) \in Int /\ multiply(v) \in Int
    BY Divided, Multiplied
  <2> QED
    BY <1>2, <2>2, <2>3, <2>4
<1>4. y.U = u => ~ (y.U < u) /\ y.U - u = 0
  BY <1>1
<1>5. y.U + 1 = u => y.U < u /\ u - y.U = 1
  BY <1>1
<1>6. y.U = u + 1 => ~ (y.U < u) /\ y.U - u = 1
  BY <1>1
<1> QED
  BY <1>1, <1>2, <1>3, <1>4, <1>5, <1>6 DEF valueByUnit

-----------------------------------------------------------------------------
(* What normalize makes of a number.                                        *)

\* Numbers in the units there are, whose V is a float.
InUnits == {x \in Number : x.U <= LZ /\ IsFloat(x.V)}

\* Numbers of which neither loop changes anything.
Normal(x) == /\ x \in InUnits
             /\ abs(x.V) <= UnitOffest * Scale \/ x.U = LZ
             /\ x.U > RAW => abs(x.V) >= Scale

LEMMA Typed == \A x \in InUnits : /\ x \in Number /\ x.U \in Nat /\ x.V \in Int /\ x.U <= LZ
                                  /\ x = [U |-> x.U, V |-> x.V] /\ IsFloat(x.V) /\ -x.V \in Int
BY DEF InUnits, Number

LEMMA Made == \A u \in Nat : \A v : u <= LZ /\ IsFloat(v) => [U |-> u, V |-> v] \in InUnits
BY DEF InUnits, Number, IsFloat

LEMMA UpKeeps ==
    ASSUME Rounding, NEW x \in InUnits, x \in GoesUp
    PROVE  /\ Up[x] \in InUnits /\ Up[x].U = x.U + 1 /\ x.U < LZ
           /\ x.V >= 0 <=> Up[x].V >= 0
           /\ x.V >= 0 => Up[x].V >= Scale
<1>1. x.U \in Nat /\ x.V \in Int /\ x.U < LZ /\ abs(x.V) > UnitOffest * Scale
  BY Typed DEF GoesUp
<1>2. Up[x] = [U |-> x.U + 1, V |-> divide(x.V)]
  BY UpSteps
<1>3. divide(x.V) \in Int /\ IsFloat(divide(x.V)) /\ divide(-x.V) = -divide(x.V) /\ -x.V \in Int
  BY <1>1, Divided
<1>4. x.V >= 0 => divide(x.V) >= Scale
  BY <1>1, Divided, Constants DEF abs
<1>5. x.V < 0 => divide(x.V) < 0
  <2>1. x.V < 0 => -x.V >= UnitOffest * Scale
    BY <1>1, Constants DEF abs
  <2>2. x.V < 0 => divide(-x.V) >= Scale
    BY <1>3, <2>1, Divided
  <2> QED
    BY <1>3, <2>2, Constants
<1>6. Up[x] \in InUnits /\ Up[x].U = x.U + 1 /\ Up[x].V = divide(x.V)
  <2>1. x.U + 1 \in Nat /\ x.U + 1 <= LZ
    BY <1>1, Constants
  <2> QED
    BY <1>2, <1>3, <2>1, Made
<1> QED
  BY <1>1, <1>3, <1>4, <1>5, <1>6, Constants

LEMMA DownKeeps ==
    ASSUME Rounding, NEW x \in InUnits, x \in GoesDown
    PROVE  /\ Down[x] \in InUnits /\ Down[x].U = x.U - 1
           /\ x.V >= 0 <=> Down[x].V >= 0
           /\ abs(Down[x].V) <= UnitOffest * Scale
<1>1. x.U \in Nat /\ x.V \in Int /\ x.U <= LZ /\ x.U > 0 /\ abs(x.V) < Scale /\ IsFloat(x.V)
  BY Typed DEF GoesDown, RAW
<1>2. Down[x] = [U |-> x.U - 1, V |-> multiply(x.V)]
  BY DownSteps
<1> DEFINE v == x.V
           w == multiply(v)
<1>3. v \in Int /\ -v \in Int /\ -Scale <= v /\ v <= Scale
  BY <1>1, Constants DEF abs
<1>4. IsFloat(v) /\ IsFloat(-v)
  BY <1>1, Floats0
<1> HIDE DEF v
<1>5. w \in Int /\ IsFloat(w) /\ multiply(-v) = -w
  BY <1>3, Multiplied
<1>6. w <= UnitOffest * Scale /\ multiply(-v) <= UnitOffest * Scale
  <2>1. -v <= Scale
    BY <1>3, Constants
  <2> QED
    BY <1>3, <2>1, Multiplied
<1>7. v >= 0 => w >= 0
  BY <1>3, Multiplied
<1>8. v < 0 => multiply(-v) > 0
  <2>1. v < 0 => -v > 0
    BY <1>3
  <2> QED
    BY <1>3, <1>4, <2>1, Multiplied
<1> HIDE DEF w
<1>9. (v >= 0 <=> w >= 0) /\ abs(w) <= UnitOffest * Scale
  BY <1>3, <1>5, <1>6, <1>7, <1>8, Constants DEF abs
<1>10. Down[x] \in InUnits /\ Down[x].U = x.U - 1 /\ Down[x].V = w
  <2>1. x.U - 1 \in Nat /\ x.U - 1 <= LZ
    BY <1>1, Constants
  <2> QED
    BY <1>2, <1>5, <2>1, Made DEF v, w
<1> QED
  BY <1>9, <1>10 DEF v

LEMMA Normalized ==
    ASSUME Rounding, NEW x \in InUnits
    PROVE  Normal(normalize(x)) /\ (x.V >= 0 <=> normalize(x).V >= 0)
<1> DEFINE R == {y \in InUnits : x.V >= 0 <=> y.V >= 0}
           L == {y \in R : abs(y.V) <= UnitOffest * Scale \/ y.U = LZ}
<1>0. R \in SUBSET Number /\ L \in SUBSET Number /\ x \in R
  BY Typed
<1>1. raise[x] \in R /\ raise[x] \notin GoesUp
  <2>1. \A y \in R : y \in GoesUp => Up[y] \in R
    BY UpKeeps
  <2>2. Keeps(R, GoesUp, Up)
    BY <2>1 DEF Keeps
  <2> HIDE DEF R
  <2> QED
    BY <1>0, <2>2, UpSteps, RaiseDefined, LoopEnds
<1>2. raise[x] \in L
  <2> DEFINE z == raise[x]
  <2>1. z \in R /\ z \notin GoesUp
    BY <1>1
  <2> HIDE DEF z
  <2>2. z \in Number /\ z.U \in Nat /\ z.V \in Int /\ z.U <= LZ
    BY <2>1, Typed
  <2>3. abs(z.V) \in Int /\ UnitOffest * Scale \in Int
    BY <2>2, Constants DEF abs
  <2>4. z \in L
    BY <2>1, <2>2, <2>3, Constants DEF GoesUp
  <2> QED
    BY <2>4 DEF z
<1>3. lower[raise[x]] \in L /\ lower[raise[x]] \notin GoesDown
  <2>1. \A y \in L : y \in GoesDown => Down[y] \in L
    <3> TAKE y \in L
    <3> HAVE y \in GoesDown
    <3> QED
      BY DownKeeps
  <2>2. Keeps(L, GoesDown, Down)
    BY <2>1 DEF Keeps
  <2> HIDE DEF L
  <2> QED
    BY <1>0, <1>2, <2>2, DownSteps, LowerDefined, LoopEnds
<1> DEFINE z == normalize(x)
<1>4. z \in L /\ z \notin GoesDown
  BY <1>3 DEF normalize
<1> HIDE DEF z
<1>5. z \in InUnits /\ z \in Number /\ z.U \in Nat /\ z.V \in Int
  BY <1>4, Typed
<1>6. abs(z.V) \in Int
  BY <1>5 DEF abs
<1>7. Normal(z) /\ (x.V >= 0 <=> z.V >= 0)
  BY <1>4, <1>5, <1>6, Constants DEF Normal, GoesDown
<1> QED
  BY <1>7 DEF z

\* What is normal is left as it is, and what is left as it is, is normal.
LEMMA NormalStays ==
    ASSUME Rounding, NEW x \in InUnits
    PROVE  Normal(x) <=> normalize(x) = x
<1>1. ASSUME Normal(x) PROVE normalize(x) = x
  <2>1. x \in Number /\ x.V \in Int /\ x.U \in Nat
    BY Typed
  <2>2. abs(x.V) \in Int /\ UnitOffest * Scale \in Int
    BY <2>1, Constants DEF abs
  <2>3. x \notin GoesUp /\ x \notin GoesDown
    BY <1>1, <2>1, <2>2, Constants DEF Normal, GoesUp, GoesDown, RAW
  <2>4. raise[x] = x /\ lower[x] = x
    BY <2>1, <2>3, RaiseDefined, LowerDefined DEF Loop
  <2> QED
    BY <2>4 DEF normalize
<1> QED
  BY <1>1, Normalized

\* A number that is not negative has what a normal one has.
LEMMA Between ==
    ASSUME NEW x, Normal(x), x.V >= 0
    PROVE  /\ x.U > 0 => x.V >= Scale
           /\ x.U < LZ => x.V <= UnitOffest * Scale
BY Typed, Constants DEF Normal, abs, RAW

LEMMA SmallPowers ==
    /\ \A k \in Nat : Power[k] \in Nat /\ Power[k] >= 1
    /\ Power[0] = 1 /\ Power[1] = UnitOffest
    /\ \A k \in Nat : k >= 1 => Power[k] >= UnitOffest /\ Power[k] = UnitOffest * Power[k - 1]
<1>1. \A k \in Nat : Power[k] \in Nat /\ Power[k] >= 1
  BY PowerDefined DEF Positive
<1>2. Power[0] = 1
  BY PowerDefined
<1>3. ASSUME NEW k \in Nat, k >= 1 PROVE Power[k] >= UnitOffest /\ Power[k] = UnitOffest * Power[k - 1]
  <2>1. k - 1 \in Nat /\ Power[k] = UnitOffest * Power[k - 1]
    BY <1>3, PowerDefined
  <2>2. Power[k - 1] \in Nat /\ 1 <= Power[k - 1]
    BY <1>1, <2>1
  <2>3. 1 * UnitOffest <= Power[k - 1] * UnitOffest
    BY <2>2, Constants, Times
  <2> QED
    BY <2>1, <2>2, <2>3, Constants
<1>4. Power[1] = UnitOffest
  <2>1. Power[1] = UnitOffest * Power[1 - 1] /\ 1 - 1 = 0
    BY <1>3
  <2> QED
    BY <1>2, <2>1, Constants
<1> QED
  BY <1>1, <1>2, <1>3, <1>4

LEMMA NormalTyped ==
    ASSUME NEW x, Normal(x)
    PROVE  /\ x \in InUnits /\ x \in Number /\ x.U \in Nat /\ x.V \in Int /\ x.U <= LZ
           /\ x = [U |-> x.U, V |-> x.V] /\ IsFloat(x.V) /\ -x.V \in Int
           /\ Value(x) \in Int /\ Power[x.U] \in Nat /\ Power[x.U] >= 1 /\ Value(x) = x.V * Power[x.U]
BY Typed, SmallPowers DEF Normal, Value

-----------------------------------------------------------------------------
(* Comparisons.                                                             *)

LEMMA Products ==
    /\ \A a, b \in Int : a * b \in Int /\ a * b = b * a
    /\ \A a, b, c \in Int : (a * b) * c = a * (b * c)
    /\ \A a, b, c \in Int : (a + b) * c = a * c + b * c
OBVIOUS

\* Units add up.
LEMMA PowerSum == \A i, j \in Nat : Power[i + j] = Power[i] * Power[j]
<1> SUFFICES ASSUME NEW i \in Nat PROVE \A j \in Nat : Power[i + j] = Power[i] * Power[j]
  OBVIOUS
<1> DEFINE T == {j \in Nat : Power[i + j] = Power[i] * Power[j]}
           id == [j \in Nat |-> j]
<1>1. ASSUME NEW j \in Nat, \A k \in Nat : id[k] < id[j] => k \in T PROVE j \in T
  <2>1. CASE j = 0
    <3>1. i + 0 = i /\ Power[0] = 1 /\ Power[i] \in Nat
      BY SmallPowers
    <3> QED
      BY <2>1, <3>1
  <2>2. CASE j # 0
    <3>1. j - 1 \in Nat /\ id[j - 1] < id[j]
      BY <2>2
    <3>2. Power[i + (j - 1)] = Power[i] * Power[j - 1]
      BY <1>1, <3>1
    <3>3. i + j \in Nat /\ i + j >= 1 /\ (i + j) - 1 = i + (j - 1) /\ j >= 1
      BY <2>2
    <3>4. Power[i + j] = UnitOffest * Power[i + (j - 1)] /\ Power[j] = UnitOffest * Power[j - 1]
      BY <3>3, SmallPowers
    <3>5. Power[i] \in Int /\ Power[j - 1] \in Int /\ UnitOffest \in Int
      BY <3>1, SmallPowers, Constants
    <3>6. UnitOffest * (Power[i] * Power[j - 1]) = Power[i] * (UnitOffest * Power[j - 1])
      BY <3>5
    <3> QED
      BY <3>2, <3>4, <3>6
  <2> QED
    BY <2>1, <2>2
<1>2. \A j \in Nat : j \in T
  <2>1. id \in [Nat -> Nat]
    OBVIOUS
  <2> HIDE DEF T, id
  <2> QED
    BY <1>1, <2>1, LowerFirst, Zenon
<1> QED
  BY <1>2

LEMMA Cancel ==
    ASSUME NEW a \in Int, NEW b \in Int, NEW p \in Nat, p >= 1
    PROVE  (a <= b <=> a * p <= b * p) /\ (a < b <=> a * p < b * p) /\ (a = b <=> a * p = b * p)
<1>1. a <= b => a * p <= b * p
  BY Times
<1>2. b < a => b * p < a * p
  <2>1. b < a => (b + 1) * p <= a * p
    BY Times
  <2>2. (b + 1) * p = b * p + p
    OBVIOUS
  <2> QED
    BY <2>1, <2>2
<1>3. b <= a => b * p <= a * p
  BY Times
<1>4. a < b => a * p < b * p
  <2>1. a < b => (a + 1) * p <= b * p
    BY Times
  <2>2. (a + 1) * p = a * p + p
    OBVIOUS
  <2> QED
    BY <2>1, <2>2
<1>5. a * p \in Int /\ b * p \in Int
  OBVIOUS
<1> QED
  BY <1>1, <1>2, <1>3, <1>4, <1>5

\* The sign of what a number stands for is its own.
LEMMA ValueSign ==
    ASSUME NEW x \in InUnits
    PROVE  Value(x) \in Int /\ (Value(x) >= 0 <=> x.V >= 0) /\ (Value(x) > 0 <=> x.V > 0)
<1>1. x.V \in Int /\ x.U \in Nat
  BY Typed
<1>2. Power[x.U] \in Nat /\ Power[x.U] >= 1
  BY <1>1, SmallPowers
<1>3. 0 * Power[x.U] = 0 /\ Value(x) \in Int
  BY <1>1, <1>2 DEF Value
<1> QED
  BY <1>1, <1>2, <1>3, Cancel DEF Value

LEMMA Grows == \A i, j \in Nat : i <= j => Power[i] <= Power[j]
<1> SUFFICES ASSUME NEW i \in Nat, NEW j \in Nat, i <= j PROVE Power[i] <= Power[j]
  OBVIOUS
<1>1. j - i \in Nat /\ i + (j - i) = j
  OBVIOUS
<1>2. Power[i + (j - i)] = Power[i] * Power[j - i]
  BY <1>1, PowerSum
<1>3. Power[i] \in Nat /\ Power[j - i] \in Nat /\ 1 <= Power[j - i]
  BY <1>1, SmallPowers
<1>4. 1 * Power[i] <= Power[j - i] * Power[i]
  BY <1>3, Times
<1> QED
  BY <1>1, <1>2, <1>3, <1>4

\* Of normal numbers that are not negative, one k units below is worth k - 1 units less.
LEMMA WorthLess ==
    ASSUME NEW x, Normal(x), NEW y, Normal(y), x.V >= 0, y.V >= 0,
           NEW k \in Nat, y.U + k + 1 <= x.U
    PROVE  Value(y) * Power[k] <= Value(x)
<1>1. /\ x.U \in Nat /\ y.U \in Nat /\ x.V \in Int /\ y.V \in Int /\ x.U <= LZ /\ LZ \in Nat
      /\ Scale \in Nat /\ UnitOffest \in Nat
  BY NormalTyped, Constants
<1>2. x.V >= Scale /\ y.V <= UnitOffest * Scale
  <2>1. x.U > 0 /\ y.U < LZ
    BY <1>1
  <2> QED
    BY <2>1, Between
<1> DEFINE p == Power[y.U]
           q == Power[k]
<1>3. p \in Nat /\ q \in Nat /\ Power[x.U] \in Nat
  BY <1>1, SmallPowers
<1>4. (UnitOffest * p) * q <= Power[x.U]
  <2>1. /\ y.U + 1 \in Nat /\ y.U + 1 >= 1 /\ (y.U + 1) - 1 = y.U
        /\ (y.U + 1) + k \in Nat /\ (y.U + 1) + k <= x.U
    BY <1>1
  <2>2. Power[y.U + 1] = UnitOffest * Power[y.U]
    BY <2>1, SmallPowers
  <2>3. Power[(y.U + 1) + k] = Power[y.U + 1] * Power[k]
    BY <2>1, PowerSum
  <2>4. Power[(y.U + 1) + k] <= Power[x.U]
    BY <1>1, <2>1, Grows
  <2> QED
    BY <2>2, <2>3, <2>4
<1> HIDE DEF p, q
<1>5. y.V * (p * q) <= (UnitOffest * Scale) * (p * q)
  BY <1>1, <1>2, <1>3, Times, Products
<1>6. (UnitOffest * Scale) * (p * q) = ((UnitOffest * p) * q) * Scale
  BY <1>1, <1>3
<1>7. ((UnitOffest * p) * q) * Scale <= Power[x.U] * Scale
  BY <1>1, <1>3, <1>4, Times
<1>8. Scale * Power[x.U] <= x.V * Power[x.U]
  BY <1>1, <1>2, <1>3, Times
<1>9. Power[x.U] * Scale = Scale * Power[x.U]
  BY <1>1, <1>3
<1>10. Value(y) * q = y.V * (p * q) /\ Value(x) = x.V * Power[x.U]
  BY <1>1, <1>3, Products DEF Value, p
<1> DEFINE a == y.V * (p * q)
           b == ((UnitOffest * p) * q) * Scale
           c == Scale * Power[x.U]
           d == x.V * Power[x.U]
<1>11. a \in Int /\ b \in Int /\ c \in Int /\ d \in Int
  BY <1>1, <1>3, Products
<1>12. a <= b /\ b <= c /\ c <= d
  BY <1>5, <1>6, <1>7, <1>8, <1>9
<1> HIDE DEF a, b, c, d
<1>13. a <= d
  BY <1>11, <1>12
<1> QED
  BY <1>10, <1>13 DEF a, d, q

\* The larger unit decides.
LEMMA UnitsDecide ==
    ASSUME NEW x, Normal(x), NEW y, Normal(y), x.V >= 0, y.V >= 0, x.U - y.U > 1
    PROVE  Value(y) < Value(x)
<1>1. x \in InUnits /\ y \in InUnits /\ x.U \in Nat /\ y.U \in Nat /\ x.V \in Int
  BY NormalTyped
<1>2. Value(x) \in Int /\ Value(y) \in Int /\ Value(y) >= 0 /\ Value(x) > 0
  <2>1. x.V > 0
    <3>1. x.U > 0
      BY <1>1
    <3> QED
      BY <1>1, <3>1, Between, Constants
  <2> QED
    BY <1>1, <2>1, ValueSign
<1>3. Value(y) * Power[1] <= Value(x)
  <2>1. y.U + 1 + 1 <= x.U
    BY <1>1
  <2> QED
    BY <2>1, WorthLess
<1>4. 2 * Value(y) <= UnitOffest * Value(y)
  BY <1>2, Constants, Times
<1>5. Value(y) * UnitOffest = UnitOffest * Value(y) /\ UnitOffest * Value(y) \in Int
  BY <1>2, Constants
<1> QED
  BY <1>2, <1>3, <1>4, <1>5, SmallPowers

\* What the code compares: the units, or the first value with that of the second in its
\* unit.
AtLeast(x, y) == IF FarApart(x, y) THEN ByUnit(x, y) ELSE x.V >= valueByUnit(y, x.U)
Above(x, y) == IF FarApart(x, y) THEN ByUnit(x, y) ELSE x.V > valueByUnit(y, x.U)

\* Neighbours that are not negative are compared by value.
LEMMA NeighboursCompare ==
    ASSUME Rounding, Limits, NEW x, Normal(x), NEW y, Normal(y), x.V >= 0, y.V >= 0,
           ~ FarApart(x, y)
    PROVE  /\ x.V >= valueByUnit(y, x.U) <=> Value(x) >= Value(y)
           /\ x.V > valueByUnit(y, x.U) <=> Value(x) > Value(y)
<1> DEFINE a == x.V
           b == y.V
           top == UnitOffest * Scale
           w == valueByUnit(y, x.U)
<1>1. /\ x.U \in Nat /\ y.U \in Nat /\ a \in Int /\ b \in Int /\ top \in Int
      /\ x.U <= LZ /\ y.U <= LZ /\ LZ \in Nat /\ Scale \in Int /\ UnitOffest \in Nat /\ IsFloat(a) /\ IsFloat(b)
  BY NormalTyped, Constants
<1>2. CASE x.U = y.U
  <2>1. w = b
    BY <1>1, <1>2, NormalTyped, ByNeighbours
  <2>2. Value(x) = a * Power[x.U] /\ Value(y) = b * Power[x.U] /\ Power[x.U] \in Nat /\ Power[x.U] >= 1
    BY <1>2, NormalTyped
  <2> HIDE DEF a, b, w
  <2>3. /\ b <= a <=> b * Power[x.U] <= a * Power[x.U]
        /\ b < a <=> b * Power[x.U] < a * Power[x.U]
    BY <1>1, <2>2, Cancel
  <2>4. a * Power[x.U] \in Int /\ b * Power[x.U] \in Int
    BY <1>1, <2>2
  <2>5. /\ a >= w <=> Value(x) >= Value(y)
        /\ a > w <=> Value(x) > Value(y)
    BY <1>1, <2>1, <2>2, <2>3, <2>4
  <2> QED
    BY <2>5 DEF a, w
<1>3. CASE x.U = y.U + 1
  <2>1. Scale <= a /\ b <= top /\ 0 <= b
    <3>1. x.U > 0 /\ y.U < LZ
      BY <1>1, <1>3
    <3> QED
      BY <1>1, <3>1, Between
  <2>2. w = divide(b)
    BY <1>1, <1>3, NormalTyped, ByNeighbours
  <2>3. /\ w \in Int /\ w <= Scale
        /\ b >= top => w >= Scale
    BY <1>1, <2>1, <2>2, Divided
  <2>4. w = Scale => b = top
    BY <1>1, <2>2 DEF Limits, LimitsOn, IsFloat, divide
  <2> DEFINE p == Power[y.U]
  <2>5. p \in Nat /\ p >= 1 /\ Value(y) = b * p
    BY NormalTyped
  <2>6. Value(x) = a * (UnitOffest * p)
    <3>1. x.U >= 1 /\ x.U - 1 = y.U
      BY <1>1, <1>3
    <3> QED
      BY <1>1, <3>1, NormalTyped, SmallPowers
  <2> HIDE DEF a, b, w, p, top
  <2> DEFINE c == a * UnitOffest
  <2>7. c \in Int /\ Value(x) = c * p
    BY <1>1, <2>5, <2>6
  <2>8. top <= c /\ (a > Scale => top < c) /\ (a = Scale => top = c)
    <3>1. Scale * UnitOffest = top
      BY <1>1 DEF top
    <3>2. /\ Scale <= a <=> Scale * UnitOffest <= a * UnitOffest
          /\ Scale < a <=> Scale * UnitOffest < a * UnitOffest
          /\ Scale = a <=> Scale * UnitOffest = a * UnitOffest
      BY <1>1, Constants, Cancel
    <3> QED
      BY <1>1, <2>1, <3>1, <3>2
  <2> HIDE DEF c
  <2>9. /\ b <= c <=> b * p <= c * p
        /\ b < c <=> b * p < c * p
    BY <1>1, <2>5, <2>7, Cancel
  <2>10. b <= c /\ w <= a /\ (a > w <=> b < c)
    BY <1>1, <2>1, <2>3, <2>4, <2>7, <2>8
  <2>11. b * p \in Int /\ c * p \in Int
    BY <1>1, <2>5, <2>7
  <2>12. /\ a >= w <=> Value(x) >= Value(y)
         /\ a > w <=> Value(x) > Value(y)
    BY <1>1, <2>3, <2>5, <2>7, <2>9, <2>10, <2>11
  <2> QED
    BY <2>12 DEF a, w
<1>4. CASE y.U = x.U + 1
  <2>1. Scale <= b /\ a <= top /\ 0 <= a
    <3>1. y.U > 0 /\ x.U < LZ
      BY <1>1, <1>4
    <3> QED
      BY <1>1, <3>1, Between
  <2>2. w = multiply(b)
    BY <1>1, <1>4, NormalTyped, ByNeighbours
  <2>3. /\ w \in Int /\ top <= w
        /\ b <= Scale => w <= top
    BY <1>1, <2>1, <2>2, Multiplied
  <2>4. w = top => b = Scale
    BY <1>1, <2>2 DEF Limits, LimitsOn, IsFloat, multiply
  <2> DEFINE p == Power[x.U]
  <2>5. p \in Nat /\ p >= 1 /\ Value(x) = a * p
    BY NormalTyped
  <2>6. Value(y) = b * (UnitOffest * p)
    <3>1. y.U >= 1 /\ y.U - 1 = x.U
      BY <1>1, <1>4
    <3> QED
      BY <1>1, <3>1, NormalTyped, SmallPowers
  <2> HIDE DEF a, b, w, p, top
  <2> DEFINE c == b * UnitOffest
  <2>7. c \in Int /\ Value(y) = c * p
    BY <1>1, <2>5, <2>6
  <2>8. top <= c /\ (b > Scale => top < c) /\ (b = Scale => top = c)
    <3>1. Scale * UnitOffest = top
      BY <1>1 DEF top
    <3>2. /\ Scale <= b <=> Scale * UnitOffest <= b * UnitOffest
          /\ Scale < b <=> Scale * UnitOffest < b * UnitOffest
          /\ Scale = b <=> Scale * UnitOffest = b * UnitOffest
      BY <1>1, Constants, Cancel
    <3> QED
      BY <1>1, <2>1, <3>1, <3>2
  <2> HIDE DEF c
  <2>9. /\ c <= a <=> c * p <= a * p
        /\ c < a <=> c * p < a * p
    BY <1>1, <2>5, <2>7, Cancel
  <2>10. ~ (a > w) /\ ~ (c < a) /\ (a >= w <=> c <= a)
    BY <1>1, <2>1, <2>3, <2>4, <2>7, <2>8
  <2>11. a * p \in Int /\ c * p \in Int
    BY <1>1, <2>5, <2>7
  <2>12. /\ a >= w <=> Value(x) >= Value(y)
         /\ a > w <=> Value(x) > Value(y)
    BY <1>1, <2>3, <2>5, <2>7, <2>9, <2>10, <2>11
  <2> QED
    BY <2>12 DEF a, w
<1> QED
  BY <1>1, <1>2, <1>3, <1>4 DEF FarApart

\* Numbers that are not negative are compared by value.
LEMMA PositiveCompare ==
    ASSUME Rounding, Limits, NEW x, Normal(x), NEW y, Normal(y), x.V >= 0, y.V >= 0
    PROVE  /\ AtLeast(x, y) <=> Value(x) >= Value(y)
           /\ Above(x, y) <=> Value(x) > Value(y)
<1>1. x.U \in Nat /\ y.U \in Nat /\ Value(x) \in Int /\ Value(y) \in Int
  BY NormalTyped
<1>2. CASE x.U - y.U > 1
  <2>1. Value(y) < Value(x)
    BY <1>2, UnitsDecide
  <2>2. FarApart(x, y) /\ ByUnit(x, y)
    BY <1>2 DEF FarApart, ByUnit
  <2> QED
    BY <1>1, <2>1, <2>2 DEF AtLeast, Above
<1>3. CASE y.U - x.U > 1
  <2>1. Value(x) < Value(y)
    BY <1>3, UnitsDecide
  <2>2. FarApart(x, y) /\ ~ ByUnit(x, y)
    BY <1>1, <1>3 DEF FarApart, ByUnit
  <2> QED
    BY <1>1, <2>1, <2>2 DEF AtLeast, Above
<1>4. CASE ~ FarApart(x, y)
  BY <1>4, NeighboursCompare DEF AtLeast, Above
<1> QED
  BY <1>1, <1>2, <1>3, <1>4 DEF FarApart

\* The number as far below zero.
Negated(x) == [x EXCEPT !.V = -x.V]

LEMMA NegatedNormal ==
    ASSUME Rounding, NEW x, Normal(x)
    PROVE  /\ Normal(Negated(x)) /\ Negated(x).V = -x.V /\ Negated(x).U = x.U
           /\ Value(Negated(x)) = -Value(x)
<1>1. x \in InUnits /\ x.V \in Int /\ -x.V \in Int /\ x.U \in Nat /\ x.U <= LZ /\ x = [U |-> x.U, V |-> x.V]
  BY NormalTyped
<1> DEFINE z == Negated(x)
<1>2. z = [U |-> x.U, V |-> -x.V] /\ z.V = -x.V /\ z.U = x.U
  BY <1>1 DEF Negated
<1>3. z \in InUnits
  <2>1. IsFloat(-x.V)
    BY NormalTyped, Floats0
  <2> HIDE DEF z
  <2> QED
    BY <1>1, <1>2, <2>1, Made
<1> HIDE DEF z
<1>4. abs(z.V) = abs(x.V)
  BY <1>1, <1>2 DEF abs
<1>5. Normal(z)
  BY <1>2, <1>3, <1>4 DEF Normal
<1>6. Value(z) = -Value(x)
  <2>1. Power[x.U] \in Int
    BY <1>1, SmallPowers
  <2> QED
    BY <1>1, <1>2, <2>1 DEF Value
<1> QED
  BY <1>2, <1>5, <1>6 DEF z

\* Numbers of one sign are compared by value: below zero, as far from it, the other way
\* round.
LEMMA ComparesValues ==
    ASSUME Rounding, Limits, NEW x, Normal(x), NEW y, Normal(y), SameSign(x, y)
    PROVE  /\ AtLeast(x, y) <=> Value(x) >= Value(y)
           /\ Above(x, y) <=> Value(x) > Value(y)
<1>1. CASE x.V >= 0
  BY <1>1, PositiveCompare DEF SameSign
<1>2. CASE ~ (x.V >= 0)
  <2> DEFINE a == Negated(x)
             b == Negated(y)
  <2>1. /\ x.U \in Nat /\ y.U \in Nat /\ x.V \in Int /\ y.V \in Int /\ y \in Number
        /\ Value(x) \in Int /\ Value(y) \in Int /\ ~ (y.V >= 0)
    BY <1>2, NormalTyped DEF SameSign
  <2>2. /\ Normal(a) /\ a.V = -x.V /\ a.U = x.U /\ Value(a) = -Value(x)
        /\ Normal(b) /\ b.V = -y.V /\ b.U = y.U /\ Value(b) = -Value(y)
    BY NegatedNormal
  <2> HIDE DEF a, b
  <2>3. a.V >= 0 /\ b.V >= 0 /\ b \in Number
    BY <1>2, <2>1, <2>2, NormalTyped
  <2>4. /\ AtLeast(a, b) <=> Value(a) >= Value(b)
        /\ Above(a, b) <=> Value(a) > Value(b)
    BY <2>2, <2>3, PositiveCompare
  <2>5. FarApart(a, b) <=> FarApart(x, y)
    BY <2>2 DEF FarApart
  <2>6. CASE FarApart(x, y)
    <3>1. ByUnit(x, y) <=> ~ ByUnit(a, b)
      BY <1>2, <2>2, <2>3 DEF ByUnit
    <3>2. ByUnit(a, b) <=> Value(a) >= Value(b)
      BY <2>4, <2>5, <2>6 DEF AtLeast
    <3>3. ByUnit(a, b) <=> Value(a) > Value(b)
      BY <2>4, <2>5, <2>6 DEF Above
    <3> QED
      BY <2>1, <2>2, <2>6, <3>1, <3>2, <3>3 DEF AtLeast, Above
  <2>7. CASE ~ FarApart(x, y)
    <3> DEFINE v == valueByUnit(y, x.U)
               w == valueByUnit(b, a.U)
    <3>1. v \in Int /\ w = -v
      <4>1. y.U = x.U \/ y.U + 1 = x.U \/ y.U = x.U + 1
        BY <2>1, <2>7 DEF FarApart
      <4>2. CASE y.U = x.U
        BY <2>1, <2>2, <2>3, <4>2, ByNeighbours
      <4>3. CASE y.U + 1 = x.U
        BY <2>1, <2>2, <2>3, <4>3, ByNeighbours, Divided
      <4>4. CASE y.U = x.U + 1
        BY <2>1, <2>2, <2>3, <4>4, ByNeighbours, Multiplied
      <4> QED
        BY <4>1, <4>2, <4>3, <4>4
    <3>2. /\ AtLeast(x, y) <=> x.V >= v
          /\ Above(x, y) <=> x.V > v
      BY <2>7 DEF AtLeast, Above
    <3>3. /\ AtLeast(a, b) <=> a.V >= w
          /\ Above(a, b) <=> a.V > w
      BY <2>5, <2>7 DEF AtLeast, Above
    <3> HIDE DEF v, w
    <3> QED
      BY <2>1, <2>2, <2>4, <3>1, <3>2, <3>3
  <2> QED
    BY <2>6, <2>7
<1> QED
  BY <1>1, <1>2

LEMMA Compared ==
    ASSUME Rounding, Limits, NEW m \in InUnits, NEW l \in InUnits, SameSign(m, l)
    PROVE  LET x == normalize(m)  y == normalize(l)
           IN  /\ Ge(m, l) <=> Value(x) >= Value(y)
               /\ Gt(m, l) <=> Value(x) > Value(y)
<1> DEFINE x == normalize(m)
           y == normalize(l)
<1>1. Normal(x) /\ Normal(y) /\ (m.V >= 0 <=> x.V >= 0) /\ (l.V >= 0 <=> y.V >= 0)
  BY Normalized
<1>2. (Ge(m, l) <=> AtLeast(x, y)) /\ (Gt(m, l) <=> Above(x, y))
  BY DEF Ge, Gt, AtLeast, Above
<1> HIDE DEF x, y
<1>3. SameSign(x, y)
  BY <1>1 DEF SameSign
<1>4. /\ Ge(m, l) <=> Value(x) >= Value(y)
      /\ Gt(m, l) <=> Value(x) > Value(y)
  BY <1>1, <1>2, <1>3, ComparesValues
<1> QED
  BY <1>4 DEF x, y

-----------------------------------------------------------------------------
(* Sums and differences.                                                    *)

\* What Add computes of its operands.
Sum(new, adjust) == Round(new.V + Round(adjust.V, Power[new.U - adjust.U]), 1)

LEMMA SumFloat ==
    ASSUME Rounding, NEW x \in InUnits, NEW y \in InUnits, y.U <= x.U
    PROVE  /\ Sum(x, y) \in Int /\ IsFloat(Sum(x, y))
           /\ [x EXCEPT !.V = Sum(x, y)] = [U |-> x.U, V |-> Sum(x, y)]
           /\ [x EXCEPT !.V = Sum(x, y)] \in InUnits
<1>1. x.U \in Nat /\ y.U \in Nat /\ x.V \in Int /\ y.V \in Int /\ x = [U |-> x.U, V |-> x.V] /\ x.U <= LZ
  BY Typed
<1>2. Power[x.U - y.U] \in Positive /\ 1 \in Positive
  <2>1. x.U - y.U \in Nat
    BY <1>1
  <2> QED
    BY <2>1, SmallPowers DEF Positive
<1>3. Round(y.V, Power[x.U - y.U]) \in Int
  BY <1>1, <1>2, Rounded
<1>4. x.V + Round(y.V, Power[x.U - y.U]) \in Int
  BY <1>1, <1>3
<1>5. Sum(x, y) \in Int /\ IsFloat(Sum(x, y))
  BY <1>2, <1>4, Rounded DEF Sum
<1>6. [x EXCEPT !.V = Sum(x, y)] = [U |-> x.U, V |-> Sum(x, y)]
  BY <1>1
<1> QED
  BY <1>1, <1>5, <1>6, Made

\* The sum is the larger operand, or normal.
LEMMA Added ==
    ASSUME Rounding, NEW x \in InUnits, NEW y \in InUnits
    PROVE  LET new == Larger(x, y)  adjust == Smaller(x, y)
           IN  /\ new \in InUnits /\ adjust \in InUnits /\ adjust.U <= new.U
               /\ {new, adjust} = {x, y}
               /\ Add(x, y) = IF new.U - adjust.U <= 3
                              THEN normalize([new EXCEPT !.V = Sum(new, adjust)]) ELSE new
               /\ Normal(Add(x, y)) \/ Add(x, y) = new
<1> DEFINE new == Larger(x, y)
           adjust == Smaller(x, y)
<1>1. x.U \in Nat /\ y.U \in Nat
  BY Typed
<1>2. /\ new \in InUnits /\ adjust \in InUnits /\ adjust.U <= new.U
      /\ {new, adjust} = {x, y}
  <2>1. CASE x.U > y.U
    BY <1>1, <2>1 DEF Larger, Smaller
  <2>2. CASE ~ (x.U > y.U)
    BY <1>1, <2>2 DEF Larger, Smaller
  <2> QED
    BY <2>1, <2>2
<1>3. Add(x, y) = IF new.U - adjust.U <= 3
                  THEN normalize([new EXCEPT !.V = Sum(new, adjust)]) ELSE new
  BY DEF Add, Sum
<1> HIDE DEF new, adjust
<1>4. Normal(normalize([new EXCEPT !.V = Sum(new, adjust)]))
  BY <1>2, SumFloat, Normalized
<1> QED
  BY <1>2, <1>3, <1>4 DEF new, adjust

\* A normal number whose V becomes larger stands for no less.
LEMMA GrowsWithV ==
    ASSUME Rounding, NEW x, Normal(x), x.V >= 0, NEW v, IsFloat(v), v >= x.V
    PROVE  LET z == normalize([U |-> x.U, V |-> v])
           IN  Normal(z) /\ z.V >= 0 /\ Value(z) >= Value(x)
<1> DEFINE c == [U |-> x.U, V |-> v]
           T == {y \in InUnits : (y.U = x.U /\ y.V >= x.V) \/ (y.U > x.U /\ y.V >= Scale)}
<1>1. x.U \in Nat /\ x.V \in Int /\ x.U <= LZ /\ v \in Int
  BY NormalTyped DEF IsFloat
<1>2. c \in InUnits /\ c.U = x.U /\ c.V = v
  BY <1>1, Made
<1>3. c \in T /\ T \subseteq Number
  BY <1>2, Typed
<1>4. ASSUME NEW y \in T, y \in GoesUp PROVE Up[y] \in T
  <2>1. y \in InUnits /\ y.U \in Nat /\ y.V \in Int /\ y.U >= x.U
    BY <1>1, Typed
  <2>2. y.V >= 0
    BY <1>1, <2>1, Constants
  <2>3. Up[y] \in InUnits /\ Up[y].U = y.U + 1 /\ Up[y].V >= Scale
    BY <1>4, <2>1, <2>2, UpKeeps
  <2> QED
    BY <1>1, <2>1, <2>3
<1> DEFINE w == raise[c]
<1>5. w \in T
  <2>1. Keeps(T, GoesUp, Up)
    BY <1>4 DEF Keeps
  <2> HIDE DEF T, c
  <2> QED
    BY <1>3, <2>1, UpSteps, RaiseDefined, LoopEnds
<1> HIDE DEF w, c
<1>6. w \in InUnits /\ w \in Number /\ w.U \in Nat /\ w.V \in Int /\ w.U <= LZ
  BY <1>5, Typed
<1>7. w \notin GoesDown /\ w.V >= 0
  <2>1. w.U > RAW => w.V >= Scale
    BY <1>1, <1>5, <1>6, Between, Constants DEF RAW
  <2>2. w.V >= 0
    BY <1>1, <1>5, <1>6, Constants
  <2> QED
    BY <1>6, <2>1, <2>2, Constants DEF GoesDown, abs
<1>8. normalize(c) = w
  <2>1. lower[w] = w
    BY <1>6, <1>7, LowerDefined DEF Loop
  <2> QED
    BY <2>1 DEF normalize, w
<1>9. Normal(w)
  BY <1>2, <1>8, Normalized
<1>10. Value(w) >= Value(x)
  <2>1. CASE w.U = x.U /\ w.V >= x.V
    <3>1. Value(w) = w.V * Power[x.U] /\ Value(x) = x.V * Power[x.U] /\ Power[x.U] \in Nat
          /\ Value(w) \in Int /\ Value(x) \in Int
      BY <1>9, <2>1, NormalTyped
    <3>2. x.V * Power[x.U] <= w.V * Power[x.U]
      BY <1>1, <1>6, <2>1, <3>1, Times
    <3> QED
      BY <3>1, <3>2
  <2>2. CASE w.U > x.U /\ w.V >= Scale
    <3>1. x.U + 0 + 1 <= w.U
      BY <1>1, <1>6, <2>2
    <3>2. Value(x) * Power[0] <= Value(w)
      BY <1>7, <1>9, <3>1, WorthLess
    <3>3. Value(x) \in Int /\ Value(w) \in Int
      BY <1>9, NormalTyped
    <3> QED
      BY <3>2, <3>3, SmallPowers
  <2> QED
    BY <1>5, <2>1, <2>2
<1> QED
  BY <1>7, <1>8, <1>9, <1>10 DEF c

\* A sum of normal numbers that are not negative.
LEMMA SumAtLeast ==
    ASSUME Rounding, NEW x, Normal(x), NEW y, Normal(y), x.V >= 0, y.V >= 0
    PROVE  /\ Normal(Add(x, y)) /\ Add(x, y).V >= 0
           /\ Value(Add(x, y)) >= Value(x) /\ Value(Add(x, y)) >= Value(y)
<1> DEFINE new == Larger(x, y)
           adjust == Smaller(x, y)
           s == Sum(new, adjust)
<1>0. x \in InUnits /\ y \in InUnits
  BY NormalTyped
<1>1. /\ new \in InUnits /\ adjust \in InUnits /\ adjust.U <= new.U
      /\ {new, adjust} = {x, y}
      /\ Add(x, y) = IF new.U - adjust.U <= 3
                     THEN normalize([new EXCEPT !.V = s]) ELSE new
  BY <1>0, Added
<1>2. Normal(new) /\ Normal(adjust) /\ new.V >= 0 /\ adjust.V >= 0
  BY <1>1
<1>3. /\ s \in Int /\ IsFloat(s)
      /\ [new EXCEPT !.V = s] = [U |-> new.U, V |-> s]
  BY <1>1, SumFloat
<1>4. s >= new.V /\ (adjust.U = new.U => s >= adjust.V)
  <2>1. new.U \in Nat /\ adjust.U \in Nat /\ new.V \in Int /\ adjust.V \in Int
        /\ IsFloat(new.V) /\ IsFloat(adjust.V)
    BY <1>1, Typed
  <2> DEFINE o == new.U - adjust.U
             r == Round(adjust.V, Power[o])
  <2>2. o \in Nat /\ Power[o] \in Positive /\ 1 \in Positive
    <3>1. o \in Nat
      BY <1>1, <2>1
    <3> QED
      BY <3>1, SmallPowers DEF Positive
  <2>3. r \in Int /\ r >= 0
    BY <1>2, <2>1, <2>2, Rounded, RoundsSign
  <2>4. adjust.U = new.U => r = adjust.V
    <3>1. adjust.U = new.U => o = 0 /\ Power[o] = 1
      BY <2>1, SmallPowers
    <3> HIDE DEF o
    <3> QED
      BY <2>1, <3>1 DEF IsFloat
  <2>5. s = Round(new.V + r, 1)
    BY DEF Sum
  <2> HIDE DEF r, s
  <2>6. new.V + r \in Int /\ new.V * 1 <= new.V + r /\ (adjust.U = new.U => adjust.V * 1 <= new.V + r)
    BY <1>2, <2>1, <2>3, <2>4
  <2> QED
    BY <2>1, <2>2, <2>5, <2>6, RoundsBetween
<1> HIDE DEF new, adjust, s
<1> DEFINE z == Add(x, y)
<1>5. Normal(z) /\ z.V >= 0 /\ Value(z) >= Value(new)
  <2>1. CASE new.U - adjust.U <= 3
    <3>1. z = normalize([U |-> new.U, V |-> s])
      BY <1>1, <1>3, <2>1
    <3> HIDE DEF z
    <3> QED
      BY <1>2, <1>3, <1>4, <3>1, GrowsWithV
  <2>2. CASE ~ (new.U - adjust.U <= 3)
    <3>1. z = new /\ Value(new) \in Int
      BY <1>1, <1>2, <2>2, NormalTyped
    <3> HIDE DEF z
    <3> QED
      BY <1>2, <3>1
  <2> QED
    BY <2>1, <2>2
<1>6. Value(z) >= Value(adjust)
  <2>1. new.U \in Nat /\ adjust.U \in Nat /\ Value(new) \in Int /\ Value(adjust) \in Int
    BY <1>2, NormalTyped
  <2>2. CASE adjust.U < new.U
    <3>1. adjust.U + 0 + 1 <= new.U
      BY <2>1, <2>2
    <3>2. Value(adjust) * Power[0] <= Value(new)
      BY <1>2, <3>1, WorthLess
    <3>3. Value(z) \in Int
      BY <1>5, NormalTyped
    <3> HIDE DEF z
    <3> QED
      BY <1>5, <2>1, <3>2, <3>3, SmallPowers
  <2>3. CASE adjust.U = new.U
    <3>1. z = normalize([U |-> adjust.U, V |-> s])
      BY <1>1, <1>3, <2>1, <2>3
    <3> HIDE DEF z
    <3> QED
      BY <1>2, <1>3, <1>4, <2>3, <3>1, GrowsWithV
  <2> QED
    BY <1>1, <2>1, <2>2, <2>3
<1> HIDE DEF z
<1>7. Value(z) >= Value(x) /\ Value(z) >= Value(y)
  BY <1>1, <1>5, <1>6
<1> QED
  BY <1>5, <1>7 DEF z

\* What is left when a number is subtracted that is not above.
LEMMA SubSign ==
    ASSUME Rounding, Limits, NEW x, Normal(x), NEW y, Normal(y), x.V >= 0, y.V >= 0, AtLeast(x, y)
    PROVE  Sub(x, y).V >= 0
<1> DEFINE z == Negated(y)
           top == UnitOffest * Scale
<1>1. /\ x \in InUnits /\ x.U \in Nat /\ x.V \in Int /\ x.U <= LZ /\ IsFloat(x.V)
      /\ y.U \in Nat /\ y.V \in Int /\ y.U <= LZ /\ y \in Number /\ IsFloat(y.V)
  BY NormalTyped
<1>2. z \in InUnits /\ z.V = -y.V /\ z.U = y.U
  BY NegatedNormal, NormalTyped
<1>3. Sub(x, y) = Add(x, z)
  BY DEF Sub, Negated
<1> HIDE DEF z
<1>4. 1 \in Positive /\ IsFloat(-Scale) /\ top \in Int /\ Scale \in Nat /\ -Scale \in Int
  BY Floats0, Constants DEF Positive
<1>5. ASSUME NEW a \in InUnits, NEW b \in InUnits, b.U <= a.U, Larger(x, z) = a, Smaller(x, z) = b,
             a.V + Round(b.V, Power[a.U - b.U]) >= 0, a.V >= 0 \/ a.U - b.U <= 3
      PROVE  Add(x, z).V >= 0
  <2>1. a.V \in Int /\ b.V \in Int /\ a.U - b.U \in Nat
    BY <1>5, Typed
  <2>2. Power[a.U - b.U] \in Positive
    BY <2>1, SmallPowers DEF Positive
  <2>3. a.V + Round(b.V, Power[a.U - b.U]) \in Int
    BY <2>1, <2>2, Rounded
  <2>4. Sum(a, b) >= 0
    BY <1>4, <1>5, <2>3, RoundsSign DEF Sum
  <2>5. /\ [a EXCEPT !.V = Sum(a, b)] \in InUnits
        /\ [a EXCEPT !.V = Sum(a, b)] = [U |-> a.U, V |-> Sum(a, b)]
    BY <1>5, SumFloat
  <2>6. normalize([a EXCEPT !.V = Sum(a, b)]).V >= 0
    <3>1. [a EXCEPT !.V = Sum(a, b)].V >= 0
      BY <2>4, <2>5
    <3> QED
      BY <2>5, <3>1, Normalized
  <2>7. Add(x, z) = IF a.U - b.U <= 3 THEN normalize([a EXCEPT !.V = Sum(a, b)]) ELSE a
    BY <1>1, <1>2, <1>5, Added
  <2> QED
    BY <1>5, <2>6, <2>7
<1>6. CASE x.U > y.U
  <2>1. Larger(x, z) = x /\ Smaller(x, z) = z /\ z.U <= x.U
    BY <1>1, <1>2, <1>6 DEF Larger, Smaller
  <2>2. x.V >= Scale /\ y.V <= top
    <3>1. x.U > 0 /\ y.U < LZ
      BY <1>1, <1>6, Constants
    <3> QED
      BY <3>1, Between
  <2> DEFINE d == Power[x.U - y.U]
  <2>3. d \in Positive /\ d >= UnitOffest
    <3>1. x.U - y.U \in Nat /\ x.U - y.U >= 1
      BY <1>1, <1>6
    <3> QED
      BY <3>1, SmallPowers DEF Positive
  <2> HIDE DEF d
  <2>4. (-Scale) * d <= -y.V
    <3>1. UnitOffest * Scale <= d * Scale
      BY <2>3, Constants, Times DEF Positive
    <3>2. (-Scale) * d = -(d * Scale) /\ d * Scale \in Int
      BY <2>3, Constants DEF Positive
    <3> QED
      BY <1>1, <1>4, <2>2, <3>1, <3>2
  <2>5. -Scale <= Round(-y.V, d) /\ Round(-y.V, d) \in Int
    <3>1. -y.V \in Int
      BY <1>1
    <3> QED
      BY <1>4, <2>3, <2>4, <3>1, RoundsBetween, Rounded
  <2>6. x.V + Round(z.V, Power[x.U - z.U]) >= 0
    BY <1>1, <1>2, <1>4, <2>2, <2>5 DEF d
  <2> QED
    BY <1>1, <1>2, <1>3, <1>5, <2>1, <2>6
<1>7. CASE x.U = y.U
  <2>1. Larger(x, z) = z /\ Smaller(x, z) = x /\ x.U <= z.U /\ z.U - x.U = 0
    BY <1>1, <1>2, <1>7 DEF Larger, Smaller
  <2>2. x.V >= y.V
    <3>1. ~ FarApart(x, y) /\ valueByUnit(y, x.U) = y.V
      BY <1>1, <1>7, ByNeighbours DEF FarApart
    <3> QED
      BY <3>1 DEF AtLeast
  <2>3. z.V + Round(x.V, Power[z.U - x.U]) >= 0
    <3>1. Round(x.V, Power[z.U - x.U]) = x.V
      BY <1>1, <2>1, SmallPowers DEF IsFloat
    <3> QED
      BY <1>1, <1>2, <2>2, <3>1
  <2> QED
    BY <1>1, <1>2, <1>3, <1>5, <2>1, <2>3
<1>8. CASE x.U < y.U
  <2>1. y.U = x.U + 1 /\ x.V >= multiply(y.V)
    <3>1. ~ ByUnit(x, y)
      BY <1>1, <1>8 DEF ByUnit
    <3>2. ~ FarApart(x, y) /\ y.U = x.U + 1
      BY <1>1, <1>8, <3>1 DEF FarApart, AtLeast
    <3>3. valueByUnit(y, x.U) = multiply(y.V)
      BY <1>1, <3>2, ByNeighbours
    <3> QED
      BY <3>2, <3>3 DEF AtLeast
  <2>2. y.V >= Scale /\ x.V <= top
    <3>1. y.U > 0 /\ x.U < LZ
      BY <1>1, <2>1, Constants
    <3> QED
      BY <3>1, Between
  <2>3. multiply(y.V) \in Int /\ multiply(y.V) >= top
    BY <1>1, <2>2, Multiplied
  <2>4. x.V = top /\ multiply(y.V) = top
    BY <1>1, <1>4, <2>1, <2>2, <2>3
  <2>5. y.V = Scale
    BY <1>1, <2>4 DEF Limits, LimitsOn, IsFloat, multiply
  <2>6. divide(x.V) = Scale
    <3>1. divide(top) \in Int /\ divide(top) >= Scale /\ divide(top) <= Scale
      BY <1>4, Divided
    <3> QED
      BY <1>4, <2>4, <3>1
  <2>7. Larger(x, z) = z /\ Smaller(x, z) = x /\ x.U <= z.U /\ z.U - x.U = 1
    BY <1>1, <1>2, <2>1 DEF Larger, Smaller
  <2>8. z.V + Round(x.V, Power[z.U - x.U]) >= 0
    <3>1. Round(x.V, Power[z.U - x.U]) = Scale
      BY <2>6, <2>7, SmallPowers DEF divide
    <3> QED
      BY <1>2, <1>4, <2>5, <3>1
  <2> QED
    BY <1>1, <1>2, <1>3, <1>5, <2>7, <2>8
<1> QED
  BY <1>1, <1>6, <1>7, <1>8

-----------------------------------------------------------------------------
(* Every operation makes numbers of units that exist.                        *)

LEMMA OperandsInUnits == ASSUME Rounding PROVE Operands \subseteq InUnits
<1> SUFFICES ASSUME NEW t \in Texts PROVE ParseUNumber(t) \in InUnits
  BY DEF Operands
<1>1. t.num \in Int /\ 1 \in Positive
  BY CalculatorAssumption DEF Positive
<1>2. string2Unit(t.unit) \in Nat /\ string2Unit(t.unit) <= LZ
  BY Constants DEF string2Unit, Units, RAW
<1>3. IsFloat(Round(t.num, 1))
  BY <1>1, Rounded
<1> QED
  BY <1>2, <1>3, Made DEF ParseUNumber

\* What is divided down comes below MaxFloat before the units end.
LEMMA BigInUnits == ASSUME Rounding PROVE \A v \in BigNumbers : ParseBigNumber(v) \in InUnits
<1> SUFFICES ASSUME NEW v \in BigNumbers PROVE ParseBigNumber(v) \in InUnits
  OBVIOUS
<1>1. v \in Int /\ v < MaxFloat * Power[LZ] /\ LZ \in Nat
  BY CalculatorAssumption, Constants
<1> DEFINE bound == [k \in Nat |-> MaxFloat * Power[k]]
           T == {k \in Nat : v < bound[k]}
           Fits(u) == v < MaxFloat * Power[u] /\ \A k \in 0..(u - 1) : v >= MaxFloat * Power[k]
<1>2. \A k \in Nat : bound[k] \in Int
  BY SmallPowers, UNumberAssumption
<1>3. LZ \in T
  BY <1>1
<1>4. PICK u \in T : \A j \in T : u <= j
  <2> HIDE DEF T
  <2>1. T \in SUBSET Nat
    BY DEF T
  <2> QED
    BY <1>3, <2>1, LeastNumber
<1>5. u \in Nat /\ u <= LZ /\ v < bound[u]
  BY <1>3, <1>4
<1>6. \A k \in 0..(u - 1) : v >= bound[k]
  <2> SUFFICES ASSUME NEW k \in 0..(u - 1), ~ (v >= bound[k]) PROVE FALSE
    OBVIOUS
  <2>1. k \in Nat /\ ~ (u <= k)
    BY <1>5
  <2>2. bound[k] \in Int
    BY <1>2, <2>1
  <2> HIDE DEF bound
  <2>3. k \in T
    BY <1>1, <2>1, <2>2
  <2> QED
    BY <1>4, <2>1, <2>3
<1>7. u \in Units /\ Fits(u)
  <2>1. \A k \in 0..(u - 1) : k \in Nat
    OBVIOUS
  <2>2. u \in Units
    BY <1>5 DEF Units, RAW
  <2> QED
    BY <1>5, <1>6, <2>1, <2>2
<1>8. Floats(v) = CHOOSE k \in Units : Fits(k)
  BY DEF Floats
<1> HIDE DEF Fits
<1>9. Floats(v) \in Units
  BY <1>7, <1>8
<1>10. Floats(v) \in Nat /\ Floats(v) <= LZ
  BY <1>1, <1>9 DEF Units, RAW
<1>11. IsFloat(Round(v, Power[Floats(v)]))
  <2>1. Power[Floats(v)] \in Positive
    BY <1>10, SmallPowers DEF Positive
  <2> QED
    BY <1>1, <2>1, Rounded
<1>12. [U |-> Floats(v), V |-> Round(v, Power[Floats(v)])] \in InUnits
  BY <1>10, <1>11, Made
<1> QED
  BY <1>12, Normalized DEF ParseBigNumber, Normal

LEMMA AddInUnits == ASSUME Rounding, NEW x \in InUnits, NEW y \in InUnits PROVE Add(x, y) \in InUnits
BY Added DEF Normal

LEMMA SubInUnits == ASSUME Rounding, NEW x, Normal(x), NEW y, Normal(y) PROVE Sub(x, y) \in InUnits
<1>1. Sub(x, y) = Add(x, Negated(y))
  BY DEF Sub, Negated
<1> QED
  BY <1>1, NegatedNormal, NormalTyped, AddInUnits

LEMMA MulInUnits ==
    ASSUME Rounding, NEW x \in InUnits, NEW y \in InUnits, x.U + y.U <= LZ PROVE Mul(x, y) \in InUnits
<1>1. x.U + y.U \in Nat /\ x.V * y.V \in Int /\ Scale \in Positive
  <2>1. x.U \in Nat /\ y.U \in Nat /\ x.V \in Int /\ y.V \in Int
    BY Typed
  <2> QED
    BY <2>1, Products, Constants DEF Positive
<1>2. [U |-> x.U + y.U, V |-> Round(x.V * y.V, Scale)] \in InUnits
  BY <1>1, Rounded, Made
<1> QED
  BY <1>2, Normalized DEF Mul, Normal

\* However often a float is divided, it stays one.
LEMMA DividedFloat ==
    ASSUME Rounding, NEW v, IsFloat(v), NEW k \in Nat PROVE IsFloat(divided[<<v, k>>])
<1> DEFINE S == Int \X Nat
           rank == [d \in S |-> d[2]]
           T == {d \in S : IsFloat(d[1]) => IsFloat(divided[d])}
<1>1. ASSUME NEW d \in S, \A e \in S : rank[e] < rank[d] => e \in T PROVE d \in T
  <2> DEFINE e == <<divide(d[1]), d[2] - 1>>
  <2>1. d[1] \in Int /\ d[2] \in Nat
    OBVIOUS
  <2>2. divided[d] = IF d[2] = 0 THEN d[1] ELSE divided[e]
    BY DividedOver
  <2>3. CASE d[2] = 0
    BY <2>2, <2>3
  <2>4. CASE d[2] # 0
    <3>1. divide(d[1]) \in Int /\ IsFloat(divide(d[1]))
      BY <2>1, Divided
    <3>2. e \in S /\ e[1] = divide(d[1]) /\ rank[e] = d[2] - 1 /\ rank[d] = d[2]
      BY <2>1, <2>4, <3>1
    <3> HIDE DEF e, rank, S
    <3>3. e \in T
      BY <1>1, <2>1, <3>2
    <3> QED
      BY <2>2, <2>4, <3>1, <3>2, <3>3
  <2> QED
    BY <2>3, <2>4
<1>2. \A d \in S : d \in T
  <2>1. rank \in [S -> Nat]
    OBVIOUS
  <2>2. \A d \in S : (\A e \in S : rank[e] < rank[d] => e \in T) => d \in T
    BY <1>1
  <2> HIDE DEF S, rank, T
  <2> QED
    BY <2>1, <2>2, LowerFirst, Zenon
<1>3. <<v, k>> \in S /\ <<v, k>>[1] = v
  BY DEF IsFloat
<1> QED
  BY <1>2, <1>3

LEMMA DivInUnits ==
    ASSUME Rounding, NEW x \in InUnits, NEW y \in InUnits, y.V # 0 PROVE Div(x, y) \in InUnits
<1> DEFINE v == Round((IF y.V < 0 THEN -x.V ELSE x.V) * Scale, abs(y.V))
<1>1. x.U \in Nat /\ y.U \in Nat /\ x.V \in Int /\ y.V \in Int /\ x.U <= LZ /\ -x.V \in Int
  BY Typed
<1>2. IsFloat(v)
  <2>1. (IF y.V < 0 THEN -x.V ELSE x.V) * Scale \in Int /\ abs(y.V) \in Positive
    BY <1>1, Constants, Products DEF abs, Positive
  <2> QED
    BY <2>1, Rounded
<1> HIDE DEF v
<1>3. CASE x.U < y.U
  <2>1. IsFloat(divided[<<v, y.U - x.U>>])
    <3>1. y.U - x.U \in Nat
      BY <1>1, <1>3
    <3> QED
      BY <1>2, <3>1, DividedFloat
  <2>2. [U |-> RAW, V |-> divided[<<v, y.U - x.U>>]] \in InUnits
    BY <2>1, Made, Constants DEF RAW
  <2> QED
    BY <1>3, <2>2, Normalized DEF Div, v, Normal
<1>4. CASE ~ (x.U < y.U)
  <2>1. x.U - y.U \in Nat /\ x.U - y.U <= LZ
    BY <1>1, <1>4, Constants
  <2>2. [U |-> x.U - y.U, V |-> v] \in InUnits
    BY <1>2, <2>1, Made
  <2> QED
    BY <1>4, <2>2, Normalized DEF Div, v, Normal
<1> QED
  BY <1>3, <1>4

-----------------------------------------------------------------------------
(* The number through all calls.                                            *)

(* The number always has a unit that exists (unumber.go:25, String), and a V  *)
(* that is a float.                                                         *)
THEOREM UnitExists == ASSUME Rounding PROVE CSpec => [](n \in InUnits)
<1>1. CInit => n \in InUnits
  BY OperandsInUnits, BigInUnits DEF CInit
<1>2. n \in InUnits /\ [CNext]_cvars => (n \in InUnits)'
  <2> SUFFICES ASSUME n \in InUnits, [CNext]_cvars PROVE n' \in InUnits
    BY DEF InUnits, Number, IsFloat
  <2>1. ASSUME NEW m \in Operands, AddTo(m) PROVE n' \in InUnits
    BY <2>1, OperandsInUnits, AddInUnits DEF AddTo
  <2>2. ASSUME NEW m \in Operands, SubFrom(m) PROVE n' \in InUnits
    <3>1. Normal(normalize(n)) /\ Normal(normalize(m))
      BY OperandsInUnits, Normalized
    <3>2. Sub(normalize(n), normalize(m)) \in InUnits
      BY <3>1, SubInUnits
    <3>3. normalize(n) \in InUnits
      BY <3>1, NormalTyped
    <3> QED
      BY <2>2, <3>2, <3>3 DEF SubFrom
  <2>3. ASSUME NEW m \in Operands, MulBy(m) PROVE n' \in InUnits
    BY <2>3, OperandsInUnits, MulInUnits DEF MulBy
  <2>4. ASSUME NEW m \in Operands, DivBy(m) PROVE n' \in InUnits
    BY <2>4, OperandsInUnits, DivInUnits DEF DivBy
  <2>5. CASE Compare
    BY <2>5, Normalized DEF Compare, Normal
  <2>6. CASE UNCHANGED cvars
    BY <2>6 DEF cvars
  <2> QED
    BY <2>1, <2>2, <2>3, <2>4, <2>5, <2>6 DEF CNext
<1> QED
  BY <1>1, <1>2, PTL DEF CSpec

(* Against operands of its sign the number is ordered as what the normal      *)
(* forms stand for, however the code rounds (unumber.go:144).                *)
THEOREM ComparisonsAreExact == ASSUME Rounding, Limits PROVE CSpec => []OrderExact
<1>1. n \in InUnits => OrderExact
  BY OperandsInUnits, Compared DEF OrderExact
<1> QED
  BY <1>1, UnitExists, PTL

(* A sum of normal numbers is below neither of them, although it is rounded   *)
(* and the smaller one may be ignored (unumber.go:385).                      *)
THEOREM SumsGrow == ASSUME Rounding, Limits PROVE CSpec => AddGrows
<1>1. ASSUME n \in InUnits, NEW m \in Operands, AddTo(m), IsNormal(n), IsNormal(m), n.V >= 0, m.V >= 0
      PROVE  Ge(n', n) /\ Ge(n', m)
  <2>1. m \in InUnits /\ n' = Add(n, m)
    BY <1>1, OperandsInUnits DEF AddTo
  <2>2. normalize(n) = n /\ normalize(m) = m /\ Normal(n) /\ Normal(m)
    BY <1>1, <2>1, NormalStays DEF IsNormal
  <2>3. /\ Normal(n') /\ n'.V >= 0
        /\ Value(n') >= Value(n) /\ Value(n') >= Value(m)
    BY <1>1, <2>1, <2>2, SumAtLeast
  <2>4. n' \in InUnits /\ normalize(n') = n'
    BY <2>3, NormalStays, NormalTyped
  <2>5. SameSign(n', n) /\ SameSign(n', m)
    BY <1>1, <2>3 DEF SameSign
  <2> QED
    BY <1>1, <2>1, <2>2, <2>3, <2>4, <2>5, Compared
<1>2. n \in InUnits => [\A m \in Operands :
          AddTo(m) /\ IsNormal(n) /\ IsNormal(m) /\ n.V >= 0 /\ m.V >= 0
              => Ge(n', n) /\ Ge(n', m)]_cvars
  BY <1>1
<1> QED
  BY <1>2, UnitExists, PTL DEF AddGrows

(* No sequence of calls makes a number negative by subtracting.              *)
THEOREM SubStaysPositive == ASSUME Rounding, Limits PROVE CSpec => SubKeepsSign
<1>1. ASSUME n \in InUnits, NEW m \in Operands, n.V >= 0, m.V >= 0, SubFrom(m) PROVE n'.V >= 0
  <2> DEFINE x == normalize(n)
             y == normalize(m)
  <2>1. Normal(x) /\ x.V >= 0 /\ Normal(y) /\ y.V >= 0
    BY <1>1, OperandsInUnits, Normalized
  <2>2. CASE Lt(n, m)
    BY <1>1, <2>1, <2>2 DEF SubFrom
  <2>3. CASE ~ Lt(n, m)
    <3>1. n' = Sub(x, y)
      BY <1>1, <2>3 DEF SubFrom
    <3>2. AtLeast(x, y)
      BY <2>3 DEF Lt, Ge, AtLeast
    <3> HIDE DEF x, y
    <3> QED
      BY <2>1, <3>1, <3>2, SubSign
  <2> QED
    BY <2>2, <2>3
<1>2. n \in InUnits => [\A m \in Operands : n.V >= 0 /\ m.V >= 0 /\ SubFrom(m) => n'.V >= 0]_cvars
  BY <1>1
<1> QED
  BY <1>2, UnitExists, PTL DEF SubKeepsSign

-----------------------------------------------------------------------------
(* Tables.                                                                   *)

(* The id's column is one.                                                  *)
LEMMA TheIdColumn ==
    /\ IdColumn \in Columns
    /\ Header[IdColumn].array = Plain /\ Header[IdColumn].field = "CfgID"
    /\ \A c \in Columns : Header[c].array = Plain /\ Header[c].field = "CfgID" => c = IdColumn
<1>1. PICK c \in Columns : /\ Header[c].array = Plain /\ Header[c].field = "CfgID"
                           /\ \A d \in Columns : Header[d].array = Plain
                                /\ Header[d].field = "CfgID" => d = c
  BY TableAssumption
<1>2. /\ IdColumn \in Columns
      /\ Header[IdColumn].array = Plain /\ Header[IdColumn].field = "CfgID"
  BY <1>1 DEF IdColumn
<1> QED
  BY <1>1, <1>2

LEMMA Width == Len(Header) \in Nat /\ Columns = 1..Len(Header) /\ Columns \subseteq Nat
BY TableAssumption DEF Columns

\* The value of an id whose cell is empty.
NoId == ZeroOf(Header[IdColumn].type)

LEMMA IdOfRow == ASSUME NEW r PROVE r[IdColumn] = Empty => IdOf(r) = NoId
BY DEF IdOf, NoId, setField

LEMMA ZeroId == "CfgID" \in PlainFields /\ ZeroStruct.plain["CfgID"] = NoId
<1> DEFINE col == CHOOSE c \in Columns : Header[c].field = "CfgID" /\ Header[c].array = Plain
<1>1. "CfgID" \in PlainFields
  BY TheIdColumn DEF PlainFields
<1>2. col = IdColumn
  BY TheIdColumn
<1>3. ZeroStruct.plain["CfgID"] = ZeroOf(Header[col].type)
  BY <1>1 DEF ZeroStruct
<1> QED
  BY <1>1, <1>2, <1>3 DEF NoId

-----------------------------------------------------------------------------
(* Structs.                                                                *)

Values == {setField(t, v) : t \in {Header[c].type : c \in Columns},
                            v \in {Empty} \cup UNION {{r[c] : c \in Columns} : r \in Rows}}
            \cup {ZeroOf(Header[c].type) : c \in Columns}
Structs == [plain : [PlainFields -> Values], arrays : [Arrays -> Seq(Seq(Values))]]

\* What is read, what is being filled and what is stored.
Shape ==
    /\ read \in Seq(Rows) /\ hIdx \in 1..(Len(Header) + 2)
    /\ read = <<>> => hIdx = Len(Header) + 1
    /\ out \in Structs /\ array \in Seq(Structs)

LEMMA ValuesOfColumns ==
    /\ \A c \in Columns : ZeroOf(Header[c].type) \in Values
    /\ \A c, d \in Columns, r \in Rows : setField(Header[c].type, r[d]) \in Values
    /\ \A c \in Columns : setField(Header[c].type, Empty) \in Values
<1>1. \A c \in Columns : ZeroOf(Header[c].type) \in Values
  BY DEF Values
<1>2. \A c, d \in Columns, r \in Rows : setField(Header[c].type, r[d]) \in Values
  BY DEF Values
<1>3. \A c \in Columns : setField(Header[c].type, Empty) \in Values
  BY DEF Values
<1> QED
  BY <1>1, <1>2, <1>3

LEMMA ZeroTyped == ZeroStruct \in Structs
<1> DEFINE col(f) == CHOOSE c \in Columns : Header[c].field = f /\ Header[c].array = Plain
<1>1. ASSUME NEW f \in PlainFields PROVE ZeroOf(Header[col(f)].type) \in Values
  <2>1. PICK c \in Columns : Header[c].field = f /\ Header[c].array = Plain
    BY DEF PlainFields
  <2>2. col(f) \in Columns
    BY <2>1
  <2> QED
    BY <2>2, ValuesOfColumns, Zenon
<1>2. <<>> \in Seq(Seq(Values))
  OBVIOUS
<1> QED
  BY <1>1, <1>2 DEF ZeroStruct, Structs

\* Regular headers: where the elements of an array are.
LayoutOf(a, k, start) ==
    /\ 1 \in Elements(a)
    /\ \A e \in Elements(a) :
         /\ 1 <= e /\ ElementColumns(a, e) = start[e]..(start[e] + k - 1)
         /\ \A i \in 0..(k - 1) : Header[start[e] + i].field = Header[start[1] + i].field
         /\ \A f \in Elements(a) : e < f => start[e] + k <= start[f]
         /\ start[e] = start[1] + k => e \notin 10..19
    /\ \A i, j \in 0..(k - 1) :
         Header[start[1] + i].field = Header[start[1] + j].field => i = j
    /\ \A c \in Columns : Header[c].array = a => Header[c].field # ""

LEMMA Numbered == \A c \in Columns : Header[c].element \in Nat
<1>1. Header \in [1..Len(Header) -> [array : STRING, element : Nat, field : STRING, type : STRING]]
  BY TableAssumption, LenProperties, Zenon
<1> QED
  BY <1>1 DEF Columns

LEMMA ColumnOfElement ==
    ASSUME NEW c \in Columns, NEW a, Header[c].array = a
    PROVE  Header[c].element \in Elements(a) /\ c \in ElementColumns(a, Header[c].element)
BY DEF Elements, ElementColumns

\* The facts of a layout, in numbers.
LEMMA Placed ==
    ASSUME NEW a \in Arrays, NEW k \in Columns, NEW start \in [Elements(a) -> Columns],
           LayoutOf(a, k, start)
    PROVE  /\ k \in Nat /\ k >= 1 /\ 1 \in Elements(a)
           /\ \A e \in Elements(a) : /\ e \in Nat /\ e >= 1
                                     /\ start[e] \in Columns /\ start[e] \in Nat /\ start[e] >= 1
                                     /\ ElementColumns(a, e) = start[e]..(start[e] + k - 1)
           /\ \A e, f \in Elements(a) : e < f => start[e] + k <= start[f]
<1>1. \A e \in Elements(a) : e \in Nat
  BY Numbered DEF Elements
<1>2. k \in Nat /\ k >= 1 /\ \A c \in Columns : c \in Nat /\ c >= 1
  BY Width
<1>3. \A e \in Elements(a) : /\ 1 <= e /\ start[e] \in Columns
                            /\ ElementColumns(a, e) = start[e]..(start[e] + k - 1)
  BY DEF LayoutOf
<1>4. 1 \in Elements(a) /\ \A e, f \in Elements(a) : e < f => start[e] + k <= start[f]
  BY DEF LayoutOf
<1> QED
  BY <1>1, <1>2, <1>3, <1>4

\* The fields of an array are the columns of its first element.
LEMMA FirstElement ==
    ASSUME NEW a \in Arrays, NEW k \in Columns, NEW start \in [Elements(a) -> Columns],
           LayoutOf(a, k, start)
    PROVE  Begin(a) = start[1] /\ Span(start[1]) = k
<1> DEFINE s == start[1]
<1>1. /\ s \in Columns /\ k \in Nat /\ k >= 1 /\ s \in Nat /\ s >= 1
      /\ ElementColumns(a, 1) = s..(s + k - 1)
  BY Placed
<1>2. ASSUME NEW i \in 0..(k - 1)
      PROVE  s + i \in Columns /\ Header[s + i].array = a /\ Header[s + i].element = 1
  <2>1. s + i \in ElementColumns(a, 1)
    BY <1>1, <1>2
  <2> QED
    BY <2>1 DEF ElementColumns
<1>11. Header[s].array = a
  <2>1. 0 \in 0..(k - 1) /\ s + 0 = s
    BY <1>1
  <2>2. Header[s + 0].array = a
    BY <1>2, <2>1, Zenon
  <2> QED
    BY <2>1, <2>2
<1>3. ASSUME NEW c \in Columns, Header[c].array = a PROVE s <= c
  <2> DEFINE e == Header[c].element
  <2>1. e \in Elements(a) /\ c \in ElementColumns(a, e) /\ e \in Nat
    BY <1>3, ColumnOfElement, Numbered
  <2> HIDE DEF e
  <2>2. 1 <= e /\ start[e] \in Nat /\ start[e] <= c
    BY <1>1, <2>1, Placed
  <2>3. CASE e = 1
    BY <2>2, <2>3
  <2>4. CASE 1 < e
    <3>1. s + k <= start[e]
      BY <2>1, <2>4, Placed
    <3> QED
      BY <1>1, <1>3, <2>2, <3>1, Width
  <2> QED
    BY <2>1, <2>2, <2>3, <2>4
<1>4. Begin(a) = s
  <2>1. \A c \in Columns : (Header[c].array = a /\ \A d \in Columns : Header[d].array = a => c <= d)
                           => c = s
    BY <1>1, <1>3, <1>11, Width
  <2> QED
    BY <1>1, <1>3, <1>11, <2>1 DEF Begin
<1> DEFINE Fits(w) == /\ \A i \in 1..(w - 1) : Header[s + i].array = Header[s].array /\ First(s + i)
                      /\ s + w \in Columns => ~ (Header[s + w].array = Header[s].array /\ First(s + w))
<1>5. k \in 1..(Len(Header) - s + 1)
  <2>1. s + (k - 1) \in Columns
    BY <1>1, <1>2
  <2> QED
    BY <1>1, <2>1, Width
<1>6. \A i \in 0..(k - 1) : Header[s + i].array = Header[s].array /\ First(s + i)
  BY <1>1, <1>2, <1>11 DEF First
<1>7. s + k \in Columns => ~ (Header[s + k].array = Header[s].array /\ First(s + k))
  <2> SUFFICES ASSUME s + k \in Columns, Header[s + k].array = Header[s].array, First(s + k)
               PROVE  FALSE
    OBVIOUS
  <2> DEFINE e == Header[s + k].element
  <2>1. Header[s + k].array = a
    BY <1>11
  <2>2. e \in Elements(a) /\ s + k \in ElementColumns(a, e) /\ e \in Nat
    BY <2>1, ColumnOfElement, Numbered
  <2>7. First(s + k) => e \in {1} \cup 10..19
    BY DEF First
  <2> HIDE DEF e
  <2>3. 1 <= e /\ start[e] \in Nat /\ start[e] <= s + k /\ e # 1
    <3>1. e \in Elements(a) /\ s + k \in start[e]..(start[e] + k - 1) /\ 1 <= e
      BY <2>2, Placed
    <3>2. start[e] \in Nat
      BY <3>1, Placed
    <3>3. e # 1
      BY <1>1, <2>2
    <3> QED
      BY <3>1, <3>2, <3>3
  <2>4. s + k <= start[e]
    BY <2>2, <2>3, Placed
  <2>5. start[e] = s + k
    BY <1>1, <2>3, <2>4
  <2>6. e \notin 10..19
    BY <2>2, <2>5 DEF LayoutOf
  <2> QED
    BY <2>3, <2>6, <2>7
<1>8. Fits(k)
  BY <1>1, <1>6, <1>7
<1>9. ASSUME NEW w \in 1..(Len(Header) - s + 1), Fits(w) PROVE w = k
  <2>1. w \in Nat /\ w >= 1
    BY Width
  <2>2. CASE w < k
    <3>1. w \in 0..(k - 1)
      BY <1>1, <2>1, <2>2
    <3>2. s + w \in Columns /\ Header[s + w].array = Header[s].array /\ First(s + w)
      BY <1>2, <1>6, <3>1
    <3> QED
      BY <1>9, <3>2
  <2>3. CASE k < w
    <3>1. k \in 1..(w - 1)
      BY <1>1, <2>1, <2>3
    <3>2. Header[s + k].array = Header[s].array /\ First(s + k)
      BY <1>9, <3>1
    <3>3. s + k \in Columns
      BY <1>1, <1>9, <2>1, <2>3, Width
    <3> QED
      BY <1>7, <3>2, <3>3
  <2> QED
    BY <1>1, <2>1, <2>2, <2>3
<1>10. Span(s) = k
  BY <1>5, <1>8, <1>9 DEF Span
<1> QED
  BY <1>4, <1>10

LEMMA Fields ==
    ASSUME NEW a \in Arrays, NEW k \in Columns, NEW start \in [Elements(a) -> Columns],
           LayoutOf(a, k, start)
    PROVE  /\ DOMAIN FieldsList(a) = 1..k /\ Len(FieldsList(a)) = k
           /\ \A i \in 1..k : /\ start[1] + i - 1 \in Columns
                             /\ FieldsList(a)[i] = Header[start[1] + i - 1]
<1> DEFINE s == start[1]
<1>1. /\ s \in Nat /\ k \in Nat /\ k >= 1 /\ s >= 1
      /\ s + k - 1 \in Columns
  <2>1. s \in Nat /\ k \in Nat /\ k >= 1 /\ s >= 1 /\ ElementColumns(a, 1) = s..(s + k - 1)
    BY Placed
  <2>2. s + k - 1 \in ElementColumns(a, 1)
    BY <2>1
  <2> QED
    BY <2>1, <2>2 DEF ElementColumns
<1>2. FieldsList(a) = SubSeq(Header, s, s + k - 1)
  BY FirstElement DEF FieldsList
<1> HIDE DEF s
<1>4. \A i \in 1..k : s + i - 1 \in Columns
  BY <1>1, Width
<1>3. /\ DOMAIN FieldsList(a) = 1..k /\ Len(FieldsList(a)) = k
      /\ \A i \in 1..k : FieldsList(a)[i] = Header[s + i - 1]
  <2> DEFINE C == [array : STRING, element : Nat, field : STRING, type : STRING]
  <2>1. Header \in Seq(C)
    BY TableAssumption
  <2> HIDE DEF C
  <2>2. s \in 1..(Len(Header) + 1) /\ s + k - 1 \in (s - 1)..Len(Header)
    BY <1>1, Width
  <2>3. /\ Len(FieldsList(a)) = (s + k - 1) - s + 1
        /\ FieldsList(a) \in Seq(C)
        /\ \A i \in 1..((s + k - 1) - s + 1) : FieldsList(a)[i] = Header[s + i - 1]
    BY <1>2, <2>1, <2>2, SubSeqProperties
  <2>4. (s + k - 1) - s + 1 = k
    BY <1>1
  <2> QED
    BY <2>3, <2>4, LenProperties
<1> QED
  BY <1>3, <1>4 DEF s

-----------------------------------------------------------------------------
(* Steps.                                                                  *)

\* The element of k fields that the columns of r from h on make.
Taken(r, a, k, h) ==
    [i \in 1..k |-> setField(FieldsList(a)[i].type,
                              IF h + i - 1 \in Columns THEN r[h + i - 1] ELSE Empty)]

\* An element that is taken from the columns from hIdx on.
LEMMA Parsed ==
    ASSUME Shape, AtRow, NEW a \in Arrays, NEW k \in Columns,
           NEW start \in [Elements(a) -> Columns], LayoutOf(a, k, start)
    PROVE  LET p == parseArrayElement(a, hIdx)
           IN  /\ p.element \in Seq(Values) /\ p.last = hIdx + k - 1
               /\ p.element = Taken(row, a, k, hIdx)
<1> DEFINE cell(i) == IF hIdx + i - 1 \in Columns THEN row[hIdx + i - 1] ELSE Empty
           p == parseArrayElement(a, hIdx)
           el == [i \in 1..k |-> setField(FieldsList(a)[i].type, cell(i))]
<1>1. k \in Nat /\ DOMAIN FieldsList(a) = 1..k /\ Len(FieldsList(a)) = k
  BY Fields, Placed
<1>2. p.element = el /\ p.last = hIdx + k - 1
  BY <1>1 DEF parseArrayElement
<1>3. row \in Rows
  BY DEF Shape, AtRow, row
<1>4. \A i \in 1..k : setField(FieldsList(a)[i].type, cell(i)) \in Values
  <2> TAKE i \in 1..k
  <2>1. PICK c \in Columns : FieldsList(a)[i] = Header[c]
    BY Fields
  <2>2. CASE hIdx + i - 1 \in Columns
    BY <1>3, <2>1, <2>2, ValuesOfColumns
  <2>3. CASE hIdx + i - 1 \notin Columns
    BY <2>1, <2>3, ValuesOfColumns
  <2> QED
    BY <2>2, <2>3
<1> HIDE DEF cell
<1>5. el \in [1..k -> Values]
  BY <1>4
<1>6. el \in Seq(Values)
  BY <1>1, <1>5
<1> QED
  BY <1>2, <1>6 DEF cell, Taken

LEMMA NextColumn ==
    ASSUME AtRow, hIdx' = hIdx + 1
    PROVE  hIdx \in Columns /\ hIdx \in Nat /\ hIdx' \in 1..(Len(Header) + 2) /\ read # <<>>
<1>1. hIdx \in 1..Len(Header) /\ Len(Header) \in Nat
  BY Width DEF AtRow
<1> QED
  BY <1>1 DEF AtRow

LEMMA ShapeStep == ASSUME Regular, Shape, [TNext]_tvars PROVE Shape'
<1>1. ASSUME NEW r \in Rows, ReadRow(r) PROVE Shape'
  <2>1. read' \in Seq(Rows) /\ read' # <<>>
    BY <1>1 DEF ReadRow, Shape
  <2>2. hIdx' \in 1..(Len(Header) + 2) /\ out' \in Structs /\ array' = array
    BY <1>1, Width, ZeroTyped DEF ReadRow
  <2> QED
    BY <2>1, <2>2 DEF Shape
<1>2. CASE Discard
  <2>1. hIdx' \in 1..(Len(Header) + 2) /\ read # <<>> /\ UNCHANGED <<read, out, array>>
    BY <1>2, NextColumn DEF Discard
  <2> QED
    BY <2>1 DEF Shape
<1>3. CASE SetPlain
  <2>1. hIdx \in Columns /\ read # <<>>
    BY <1>3 DEF SetPlain, AtRow
  <2>5. row \in Rows
    BY <2>1, LenProperties DEF Shape, row
  <2>2. setField(Header[hIdx].type, row[hIdx]) \in Values
    BY <2>1, <2>5, ValuesOfColumns
  <2>3. out' \in Structs
    <3> DEFINE v == setField(Header[hIdx].type, row[hIdx])
    <3>1. out' = [out EXCEPT !.plain[Header[hIdx].field] = v]
      BY <1>3 DEF SetPlain
    <3> HIDE DEF v
    <3> QED
      BY <2>2, <3>1 DEF Shape, Structs, v
  <2>4. hIdx' \in 1..(Len(Header) + 2) /\ UNCHANGED <<read, array>>
    BY <1>3, NextColumn DEF SetPlain
  <2> QED
    BY <2>1, <2>3, <2>4 DEF Shape
<1>4. CASE SetElement
  <2> DEFINE a == Header[hIdx].array
             p == parseArrayElement(a, hIdx)
  <2>1. hIdx \in Columns /\ read # <<>> /\ a \in Arrays /\ AtRow
    BY <1>4 DEF SetElement, AtRow, HasField
  <2>2. PICK k \in Columns, start \in [Elements(a) -> Columns] : LayoutOf(a, k, start)
    BY <2>1, Regular DEF Regular, LayoutOf
  <2>3. p.element \in Seq(Values) /\ p.last = hIdx + k - 1
    BY <2>1, <2>2, Parsed
  <2>4. /\ out' = [out EXCEPT !.arrays[a] = Append(@, p.element)]
        /\ hIdx' = IF p.last < Len(Header) THEN p.last + 1 ELSE Len(Header) + 1
        /\ UNCHANGED <<read, map, array, loads>>
    BY <1>4 DEF SetElement
  <2> HIDE DEF a, p
  <2>5. out.arrays[a] \in Seq(Seq(Values))
    BY <2>1 DEF Shape, Structs
  <2>6. Append(out.arrays[a], p.element) \in Seq(Seq(Values))
    BY <2>3, <2>5
  <2>7. out' \in Structs
    BY <2>1, <2>4, <2>6 DEF Shape, Structs
  <2>8. hIdx' \in 1..(Len(Header) + 2)
    BY <2>1, <2>3, <2>4, Width
  <2> QED
    BY <2>1, <2>4, <2>7, <2>8 DEF Shape
<1>5. CASE Store
  BY <1>5, Width DEF Store, Shape
<1>6. CASE LoadAgain
  BY <1>6, Width DEF LoadAgain, Shape
<1>7. CASE UNCHANGED tvars
  BY <1>7 DEF tvars, Shape
<1> QED
  BY <1>1, <1>2, <1>3, <1>4, <1>5, <1>6, <1>7 DEF TNext

LEMMA ShapeInit == TInit => Shape
BY ZeroTyped, Width DEF TInit, Shape

LEMMA ShapeAlways == ASSUME Regular PROVE TSpec => []Shape
<1>1. Shape /\ [TNext]_tvars => Shape'
  BY ShapeStep, Regular
<1> QED
  BY <1>1, ShapeInit, PTL DEF TSpec

-----------------------------------------------------------------------------
(* The map.                                                                *)

\* The struct has the id as soon as its column is read.
IdRead == read # <<>> => out.plain["CfgID"] = IF IdColumn < hIdx THEN IdOf(row) ELSE NoId

\* How many rows of this load are stored.
Done == IF hIdx = Len(Header) + 2 THEN Len(read) ELSE IF read = <<>> THEN 0 ELSE Len(read) - 1

\* The map has the first w rows of this load, which are the last w of the array.
MapHas(w) ==
    /\ w <= Len(array)
    /\ DOMAIN map = {IdOf(read[k]) : k \in 1..w}
    /\ \A k \in 1..w : (\A l \in (k + 1)..w : IdOf(read[l]) # IdOf(read[k]))
                         => map[IdOf(read[k])] = array[Len(array) - w + k]

MapInv == Shape /\ IdRead /\ MapHas(Done)

\* A step within a row leaves what is stored.
LEMMA WithinRow ==
    ASSUME MapInv, AtRow, hIdx' \in 1..(Len(Header) + 1), UNCHANGED <<read, map, array>>
    PROVE  MapHas(Done)'
<1>1. Done = Len(read) - 1 /\ Done' = Len(read) - 1
  BY Width DEF AtRow, Done
<1> QED
  BY <1>1 DEF MapInv, MapHas

LEMMA MapStep == ASSUME Regular, IdFirst, MapInv, [TNext]_tvars PROVE IdRead' /\ MapHas(Done)'
<1> USE DEF MapInv
<1>1. ASSUME NEW r \in Rows, ReadRow(r) PROVE IdRead' /\ MapHas(Done)'
  <2>1. /\ read \in Seq(Rows) /\ read' = Append(read, r) /\ hIdx' = 1 /\ out' = ZeroStruct
        /\ UNCHANGED <<map, array>>
    BY <1>1 DEF ReadRow, Shape
  <2>2. Len(read) \in Nat /\ Len(read') = Len(read) + 1 /\ \A k \in 1..Len(read) : read'[k] = read[k]
    BY <2>1
  <2>3. Done = Len(read)
    BY <1>1, <2>1, Width DEF ReadRow, Shape, Done
  <2>4. Done' = Len(read) /\ read' # <<>>
    BY <2>1, <2>2, Width DEF Done
  <2>5. MapHas(Done)'
    BY <2>1, <2>2, <2>3, <2>4 DEF MapHas
  <2>6. ~ (IdColumn < 1)
    BY TheIdColumn, Width
  <2> QED
    BY <2>1, <2>5, <2>6, ZeroId DEF IdRead
<1>2. CASE Discard
  <2>1. /\ AtRow /\ hIdx' = hIdx + 1 /\ hIdx \in Columns /\ hIdx \in 1..Len(Header)
        /\ UNCHANGED <<read, out, map, array>>
    BY <1>2, Width DEF Discard, AtRow
  <2>2. MapHas(Done)'
    BY <2>1, WithinRow, Width
  <2>3. CASE hIdx = IdColumn
    <3>1. row[IdColumn] = Empty
      BY <1>2, <2>3, TheIdColumn DEF Discard, HasField
    <3>2. IdOf(row) = NoId
      BY <3>1, IdOfRow
    <3> QED
      BY <2>1, <2>2, <3>2 DEF IdRead, row
  <2>4. CASE hIdx # IdColumn
    <3>1. IdColumn < hIdx + 1 <=> IdColumn < hIdx
      BY <2>1, <2>4, TheIdColumn, Width
    <3> QED
      BY <2>1, <2>2, <3>1 DEF IdRead, row
  <2> QED
    BY <2>3, <2>4
<1>3. CASE SetPlain
  <2> DEFINE f == Header[hIdx].field
             v == setField(Header[hIdx].type, row[hIdx])
  <2>1. /\ AtRow /\ hIdx' = hIdx + 1 /\ hIdx \in Columns /\ hIdx \in 1..Len(Header)
        /\ UNCHANGED <<read, map, array>> /\ Header[hIdx].array = Plain
        /\ out' = [out EXCEPT !.plain[f] = v]
    BY <1>3, Width DEF SetPlain, AtRow
  <2>2. MapHas(Done)'
    BY <2>1, WithinRow, Width
  <2>3. CASE hIdx = IdColumn
    <3>1. f = "CfgID" /\ v = IdOf(row)
      BY <2>3, TheIdColumn DEF IdOf
    <3> HIDE DEF f, v
    <3>2. out'.plain["CfgID"] = IdOf(row)
      BY <2>1, <3>1, ZeroId DEF Shape, Structs
    <3>3. IdColumn < hIdx'
      BY <2>1, <2>3
    <3> QED
      BY <2>1, <2>2, <3>2, <3>3 DEF IdRead, row
  <2>4. CASE hIdx # IdColumn
    <3>1. IdColumn < hIdx + 1 <=> IdColumn < hIdx
      BY <2>1, <2>4, TheIdColumn, Width
    <3>2. f # "CfgID"
      BY <2>1, <2>4, TheIdColumn
    <3> HIDE DEF f, v
    <3>3. out'.plain["CfgID"] = out.plain["CfgID"]
      BY <2>1, <3>2, ZeroId DEF Shape, Structs
    <3> QED
      BY <2>1, <2>2, <3>1, <3>3 DEF IdRead, row
  <2> QED
    BY <2>3, <2>4
<1>4. CASE SetElement
  <2> DEFINE a == Header[hIdx].array
             p == parseArrayElement(a, hIdx)
  <2>1. /\ hIdx \in Columns /\ hIdx \in 1..Len(Header) /\ a # Plain /\ a \in Arrays /\ AtRow
        /\ UNCHANGED <<read, map, array>>
        /\ out' = [out EXCEPT !.arrays[a] = Append(@, p.element)]
        /\ hIdx' = IF p.last < Len(Header) THEN p.last + 1 ELSE Len(Header) + 1
    BY <1>4, Width DEF SetElement, AtRow, HasField
  <2>2. IdColumn < hIdx
    BY <2>1 DEF IdFirst
  <2>3. PICK k \in Columns, start \in [Elements(a) -> Columns] : LayoutOf(a, k, start)
    BY <2>1, Regular DEF Regular, LayoutOf
  <2>4. p.last = hIdx + k - 1
    BY <2>1, <2>3, Parsed
  <2> HIDE DEF a, p
  <2>5. hIdx' \in 1..(Len(Header) + 1) /\ hIdx < hIdx'
    BY <2>1, <2>4, Width
  <2>6. MapHas(Done)'
    BY <2>1, <2>5, WithinRow
  <2>7. IdColumn < hIdx'
    BY <2>1, <2>2, <2>5, TheIdColumn, Width
  <2>8. out'.plain = out.plain
    BY <2>1 DEF Shape, Structs
  <2> QED
    BY <2>1, <2>2, <2>6, <2>7, <2>8 DEF IdRead, row
<1>5. CASE Store
  <2> DEFINE id == out.plain["CfgID"]
             w == Len(read) - 1
  <2>1. /\ read \in Seq(Rows) /\ array \in Seq(Structs) /\ out \in Structs
        /\ read # <<>> /\ hIdx = Len(Header) + 1 /\ hIdx' = Len(Header) + 2
        /\ map' = [i \in DOMAIN map \cup {id} |-> IF i = id THEN out ELSE map[i]]
        /\ array' = Append(array, out) /\ UNCHANGED <<read, out>>
    BY <1>5 DEF Store, Shape
  <2>2. id = IdOf(read[w + 1])
    <3>1. IdColumn < hIdx
      BY <2>1, TheIdColumn, Width
    <3>2. w + 1 = Len(read)
      BY <2>1
    <3> QED
      BY <2>1, <3>1, <3>2 DEF IdRead, row
  <2>3. w \in Nat /\ Done = w /\ Done' = w + 1
    <3>1. Len(read) \in Nat \ {0}
      BY <2>1
    <3> QED
      BY <2>1, <3>1, Width DEF Done
  <2>4. /\ Len(array) \in Nat /\ Len(array') = Len(array) + 1 /\ array'[Len(array) + 1] = out
        /\ \A k \in 1..Len(array) : array'[k] = array[k]
    BY <2>1
  <2>5. MapHas(w)
    BY <2>3
  <2> HIDE DEF w, id
  <2>6. DOMAIN map' = {IdOf(read'[k]) : k \in 1..(w + 1)}
    <3>1. DOMAIN map' = {IdOf(read[k]) : k \in 1..w} \cup {IdOf(read[w + 1])}
      BY <2>1, <2>2, <2>5 DEF MapHas
    <3>2. 1..(w + 1) = (1..w) \cup {w + 1}
      BY <2>3
    <3> QED
      BY <2>1, <3>1, <3>2
  <2>7. ASSUME NEW k \in 1..(w + 1),
               \A l \in (k + 1)..(w + 1) : IdOf(read[l]) # IdOf(read[k])
        PROVE  map'[IdOf(read[k])] = array'[Len(array') - (w + 1) + k]
    <3>1. CASE k = w + 1
      <4>1. Len(array') - (w + 1) + k = Len(array) + 1
        BY <2>3, <2>4, <3>1
      <4>2. map'[id] = out
        BY <2>1
      <4> QED
        BY <2>2, <2>4, <3>1, <4>1, <4>2
    <3>2. CASE k \in 1..w
      <4>1. IdOf(read[k]) # id
        <5>1. w + 1 \in (k + 1)..(w + 1)
          BY <2>3, <3>2
        <5> QED
          BY <2>2, <2>7, <5>1
      <4>2. \A l \in (k + 1)..w : IdOf(read[l]) # IdOf(read[k])
        BY <2>3, <2>7, <3>2
      <4>3. IdOf(read[k]) \in DOMAIN map /\ map[IdOf(read[k])] = array[Len(array) - w + k]
        BY <2>5, <3>2, <4>2 DEF MapHas
      <4>4. map'[IdOf(read[k])] = map[IdOf(read[k])]
        BY <2>1, <4>1, <4>3
      <4>5. /\ Len(array') - (w + 1) + k = Len(array) - w + k
            /\ Len(array) - w + k \in 1..Len(array)
        BY <2>3, <2>4, <2>5, <3>2 DEF MapHas
      <4> QED
        BY <2>4, <4>3, <4>4, <4>5
    <3> QED
      BY <2>3, <2>7, <3>1, <3>2
  <2>8. w + 1 <= Len(array')
    BY <2>3, <2>4, <2>5 DEF MapHas
  <2>9. MapHas(Done)'
    BY <2>1, <2>3, <2>6, <2>7, <2>8 DEF MapHas
  <2>10. IdRead'
    <3>1. IdColumn < hIdx /\ IdColumn < hIdx'
      BY <2>1, TheIdColumn, Width
    <3> QED
      BY <2>1, <3>1 DEF IdRead, row
  <2> QED
    BY <2>9, <2>10
<1>6. CASE LoadAgain
  <2>1. read' = <<>> /\ hIdx' = Len(Header) + 1 /\ map' = << >> /\ UNCHANGED array
    BY <1>6 DEF LoadAgain, Remake
  <2>2. Done' = 0
    BY <2>1, Width DEF Done
  <2>3. Len(array) \in Nat
    BY DEF Shape
  <2>4. DOMAIN map' = {} /\ 1..0 = {}
    BY <2>1
  <2> QED
    BY <2>1, <2>2, <2>3, <2>4 DEF MapHas, IdRead
<1>7. CASE UNCHANGED tvars
  BY <1>7 DEF tvars, IdRead, MapHas, Done, row
<1> QED
  BY <1>1, <1>2, <1>3, <1>4, <1>5, <1>6, <1>7 DEF TNext

(* In any header that is laid out as arrays are, with its id before them,   *)
(* the map says what the rows said that the last load read, whatever they   *)
(* are; what stands behind a malformed row is not read.                     *)
THEOREM MapIsTheFile == ASSUME Regular, IdFirst PROVE TSpec => []MapAgrees
<1>1. TInit => MapInv
  <2> SUFFICES ASSUME TInit PROVE IdRead /\ MapHas(Done)
    BY ShapeInit DEF MapInv
  <2>1. Done = 0 /\ array = <<>> /\ map = << >> /\ read = <<>>
    BY Width DEF TInit, Done
  <2>2. Len(array) = 0 /\ DOMAIN map = {} /\ 1..0 = {}
    BY <2>1
  <2> QED
    BY <2>1, <2>2 DEF MapHas, IdRead
<1>2. MapInv /\ [TNext]_tvars => MapInv'
  BY ShapeStep, MapStep, Regular, IdFirst DEF MapInv
<1>3. MapInv => MapAgrees
  BY DEF MapInv, MapHas, MapAgrees, Done
<1> QED
  BY <1>1, <1>2, <1>3, PTL DEF TSpec

-----------------------------------------------------------------------------
(* The elements of an array.                                               *)

\* The elements a row has, and those whose columns all stand before column h.
There(r, a) == {e \in Elements(a) : \E c \in ElementColumns(a, e) : r[c] # Empty}
Behind(a, h) == {e \in Elements(a) : \A c \in ElementColumns(a, e) : c < h}

\* What an element should become.
Piece(r, a, e) ==
    [i \in DOMAIN FieldsList(a) |->
        setField(FieldsList(a)[i].type,
                 r[CHOOSE c \in ElementColumns(a, e) : Header[c].field = FieldsList(a)[i].field])]

\* A list of the elements of T in their order.
Rank(T, e) == Cardinality({d \in T : d <= e})
Listed(s, r, a, T) ==
    /\ IsFiniteSet(T) /\ Len(s) = Cardinality(T)
    /\ \A e \in T : Rank(T, e) \in 1..Len(s) /\ s[Rank(T, e)] = Piece(r, a, e)
    /\ \A j \in 1..Len(s) : \E e \in T : Rank(T, e) = j

\* Before column h is read the list has the elements behind h, and an element h stands
\* in the middle of is not there.
Tracked(s, r, a, h) ==
    /\ Listed(s, r, a, There(r, a) \cap Behind(a, h))
    /\ \A e \in There(r, a) : (\E c \in ElementColumns(a, e) : c < h)
                              => \A c \in ElementColumns(a, e) : c < h

\* Columns of other arrays do not matter.
LEMMA TrackAside ==
    ASSUME NEW s, NEW r, NEW a, NEW h, NEW g, Tracked(s, r, a, h),
           \A c \in Columns : Header[c].array = a => (c < h <=> c < g)
    PROVE  Tracked(s, r, a, g)
<1>1. \A e \in Elements(a) : \A c \in ElementColumns(a, e) : c < h <=> c < g
  BY DEF ElementColumns
<1>2. Behind(a, h) = Behind(a, g)
  BY <1>1 DEF Behind
<1>3. There(r, a) \subseteq Elements(a)
  BY DEF There
<1> QED
  BY <1>1, <1>2, <1>3 DEF Tracked

LEMMA TrackStart ==
    ASSUME NEW r, NEW a \in Arrays, NEW k \in Columns, NEW start \in [Elements(a) -> Columns],
           LayoutOf(a, k, start)
    PROVE  Tracked(<<>>, r, a, 1)
<1>1. \A e \in Elements(a) : start[e] \in ElementColumns(a, e)
  BY Placed
<1>2. \A e \in Elements(a) : \A c \in ElementColumns(a, e) : ~ (c < 1)
  BY Width DEF ElementColumns
<1>3. There(r, a) \cap Behind(a, 1) = {}
  BY <1>1, <1>2 DEF Behind
<1>4. IsFiniteSet({}) /\ Cardinality({}) = 0 /\ Len(<<>>) = 0 /\ 1..0 = {}
  BY FS_EmptySet
<1>5. Listed(<<>>, r, a, {})
  BY <1>4 DEF Listed
<1> QED
  BY <1>2, <1>3, <1>5 DEF Tracked, There

\* The next element in order makes the list longer by itself.
LEMMA ListMore ==
    ASSUME NEW r, NEW a, NEW s \in Seq(Seq(Values)), NEW T, T \subseteq Nat, Listed(s, r, a, T),
           NEW e \in Nat, \A d \in T : d < e, Piece(r, a, e) \in Seq(Values)
    PROVE  Listed(Append(s, Piece(r, a, e)), r, a, T \cup {e})
<1> DEFINE u == Append(s, Piece(r, a, e))
           U == T \cup {e}
<1>1. /\ u \in Seq(Seq(Values)) /\ Len(s) \in Nat /\ Len(u) = Len(s) + 1
      /\ u[Len(s) + 1] = Piece(r, a, e) /\ \A j \in 1..Len(s) : u[j] = s[j]
  OBVIOUS
<1>2. e \notin T
  OBVIOUS
<1>3. IsFiniteSet(U) /\ Cardinality(U) = Len(s) + 1
  BY <1>2, FS_AddElement DEF Listed
<1>4. ASSUME NEW d \in T PROVE Rank(U, d) = Rank(T, d)
  <2>1. {x \in U : x <= d} = {x \in T : x <= d}
    OBVIOUS
  <2> QED
    BY <2>1 DEF Rank
<1>5. Rank(U, e) = Len(s) + 1
  <2>1. \A x \in U : x <= e
    OBVIOUS
  <2>2. {x \in U : x <= e} = U
    BY <2>1, Zenon
  <2> QED
    BY <1>3, <2>2 DEF Rank
<1> HIDE DEF u, U
<1>6. ASSUME NEW d \in U PROVE Rank(U, d) \in 1..Len(u) /\ u[Rank(U, d)] = Piece(r, a, d)
  <2>1. CASE d = e
    BY <1>1, <1>5, <2>1
  <2>2. CASE d \in T
    <3>1. Rank(T, d) \in 1..Len(s) /\ s[Rank(T, d)] = Piece(r, a, d)
      BY <2>2 DEF Listed
    <3> QED
      BY <1>1, <1>4, <2>2, <3>1
  <2> QED
    BY <2>1, <2>2 DEF U
<1>7. ASSUME NEW j \in 1..Len(u) PROVE \E d \in U : Rank(U, d) = j
  <2>1. CASE j = Len(s) + 1
    BY <1>5, <2>1 DEF U
  <2>2. CASE j \in 1..Len(s)
    <3>1. PICK d \in T : Rank(T, d) = j
      BY <2>2 DEF Listed
    <3> QED
      BY <1>4, <3>1 DEF U
  <2> QED
    BY <1>1, <2>1, <2>2
<1>8. Len(u) = Cardinality(U)
  BY <1>1, <1>3
<1>9. Listed(u, r, a, U)
  BY <1>3, <1>6, <1>7, <1>8 DEF Listed
<1> QED
  BY <1>9 DEF u, U

\* At the end the list is what the row says.
LEMMA TrackEnd ==
    ASSUME NEW r, NEW a \in Arrays, NEW s \in Seq(Seq(Values)), NEW h \in Nat,
           h > Len(Header), Tracked(s, r, a, h)
    PROVE  s = Meant(r, a)
<1> DEFINE T == There(r, a)
           nth(j) == CHOOSE e \in T : Rank(T, e) = j
<1>1. \A e \in Elements(a) : \A c \in ElementColumns(a, e) : c < h
  BY Width DEF ElementColumns
<1>2. There(r, a) \cap Behind(a, h) = T
  BY <1>1 DEF There, Behind
<1>3. Listed(s, r, a, T)
  BY <1>2 DEF Tracked
<1>4. ASSUME NEW j \in 1..Len(s) PROVE s[j] = Piece(r, a, nth(j))
  <2>1. \E e \in T : Rank(T, e) = j
    BY <1>3 DEF Listed
  <2>2. nth(j) \in T /\ Rank(T, nth(j)) = j
    BY <2>1
  <2> HIDE DEF nth, T
  <2> QED
    BY <1>3, <2>2 DEF Listed
<1>5. Meant(r, a) = [j \in 1..Cardinality(T) |-> Piece(r, a, nth(j))]
  BY DEF Meant, There, Rank, Piece
<1>6. Cardinality(T) = Len(s)
  BY <1>3 DEF Listed
<1>7. s = [j \in 1..Len(s) |-> s[j]]
  OBVIOUS
<1> HIDE DEF nth, T
<1> QED
  BY <1>4, <1>5, <1>6, <1>7

\* An empty cell begins or continues an element that is not there.
LEMMA TrackEmpty ==
    ASSUME NEW r, WellFormed(r), NEW a \in Arrays, NEW k \in Columns,
           NEW start \in [Elements(a) -> Columns], LayoutOf(a, k, start), NEW s,
           NEW h \in Columns, Header[h].array = a, r[h] = Empty, Tracked(s, r, a, h)
    PROVE  Tracked(s, r, a, h + 1)
<1> DEFINE m == Header[h].element
<1>1. m \in Elements(a) /\ h \in ElementColumns(a, m) /\ h \in Nat
  BY ColumnOfElement, Width
<1>2. m \notin There(r, a)
  <2> SUFFICES ASSUME m \in There(r, a) PROVE FALSE
    OBVIOUS
  <2>1. \E c \in ElementColumns(a, m) : r[c] # Empty
    BY DEF There
  <2>2. PICK b \in ElementColumns(a, m) : r[b] # Empty /\ \A d \in ElementColumns(a, m) : b <= d
    BY <1>1, <2>1 DEF WellFormed
  <2>3. b <= h /\ b # h /\ b \in Nat
    BY <1>1, <2>2, Width DEF ElementColumns
  <2>4. b < h
    BY <1>1, <2>3
  <2>5. h < h
    BY <1>1, <2>2, <2>4 DEF Tracked
  <2> QED
    BY <1>1, <2>5
<1>3. \A e \in Elements(a) \ {m} : h \notin ElementColumns(a, e)
  BY DEF ElementColumns
<1> HIDE DEF m
<1>4. \A e \in There(r, a) : e \in Elements(a) \ {m}
  BY <1>2 DEF There
<1>5. \A e \in There(r, a) : \A c \in ElementColumns(a, e) : c < h <=> c < h + 1
  <2> TAKE e \in There(r, a)
  <2> TAKE c \in ElementColumns(a, e)
  <2>1. c # h /\ c \in Nat
    BY <1>3, <1>4, Width DEF ElementColumns
  <2> QED
    BY <1>1, <2>1
<1>6. There(r, a) \cap Behind(a, h) = There(r, a) \cap Behind(a, h + 1)
  BY <1>5 DEF There, Behind
<1> QED
  BY <1>5, <1>6 DEF Tracked

\* A cell that is not empty, in a list that is tracked, is the first of its element.
LEMMA AtFirst ==
    ASSUME NEW r, NEW a \in Arrays, NEW k \in Columns,
           NEW start \in [Elements(a) -> Columns], LayoutOf(a, k, start), NEW s,
           NEW h \in Columns, Header[h].array = a, r[h] # Empty, Tracked(s, r, a, h)
    PROVE  LET m == Header[h].element
           IN  m \in There(r, a) /\ m \in Elements(a) /\ start[m] = h
<1> DEFINE m == Header[h].element
<1>1. m \in Elements(a) /\ h \in ElementColumns(a, m) /\ h \in Nat
  BY ColumnOfElement, Width
<1>2. m \in There(r, a)
  BY <1>1 DEF There
<1> HIDE DEF m
<1>3. start[m] \in ElementColumns(a, m) /\ start[m] \in Nat /\ start[m] <= h
  BY <1>1, Placed
<1>4. ~ (start[m] < h)
  <2> SUFFICES ASSUME start[m] < h PROVE FALSE
    OBVIOUS
  <2>1. h < h
    BY <1>1, <1>2, <1>3 DEF Tracked
  <2> QED
    BY <1>1, <2>1
<1> QED
  BY <1>1, <1>2, <1>3, <1>4 DEF m

\* An element that is taken from its first column has its own cells.
LEMMA OwnCells ==
    ASSUME NEW r, NEW a \in Arrays, NEW k \in Columns,
           NEW start \in [Elements(a) -> Columns], LayoutOf(a, k, start),
           NEW e \in Elements(a)
    PROVE  Piece(r, a, e) = Taken(r, a, k, start[e])
<1>1. /\ k \in Nat /\ 1 \in Elements(a) /\ start[e] \in Nat /\ start[1] \in Nat
      /\ ElementColumns(a, e) = start[e]..(start[e] + k - 1)
      /\ DOMAIN FieldsList(a) = 1..k
  BY Placed, Fields
<1>2. ASSUME NEW i \in 1..k
      PROVE  /\ start[e] + i - 1 \in Columns
             /\ start[e] + i - 1
                  = CHOOSE c \in ElementColumns(a, e) : Header[c].field = FieldsList(a)[i].field
  <2> DEFINE c == start[e] + i - 1
  <2>1. c \in ElementColumns(a, e)
    BY <1>1
  <2>2. c \in Columns
    BY <2>1 DEF ElementColumns
  <2>3. \A j \in 0..(k - 1) : Header[start[e] + j].field = Header[start[1] + j].field
    BY DEF LayoutOf
  <2>4. i - 1 \in 0..(k - 1) /\ start[e] + (i - 1) = c /\ start[1] + (i - 1) = start[1] + i - 1
    BY <1>1
  <2>5. Header[c].field = Header[start[1] + (i - 1)].field
    BY <2>3, <2>4
  <2>6. FieldsList(a)[i].field = Header[start[1] + (i - 1)].field
    BY <2>4, Fields
  <2>7. ASSUME NEW d \in ElementColumns(a, e), Header[d].field = FieldsList(a)[i].field
        PROVE  d = c
    <3> DEFINE j == d - start[e]
    <3>1. d \in Int /\ j \in 0..(k - 1) /\ start[e] + j = d
      BY <1>1
    <3> HIDE DEF j
    <3>2. Header[start[1] + j].field = Header[start[1] + (i - 1)].field
      BY <2>3, <2>6, <2>7, <3>1
    <3>3. j = i - 1
      BY <2>4, <3>1, <3>2 DEF LayoutOf
    <3> QED
      BY <1>1, <3>1, <3>3
  <2> HIDE DEF c
  <2>8. c = CHOOSE d \in ElementColumns(a, e) : Header[d].field = FieldsList(a)[i].field
    BY <2>1, <2>5, <2>6, <2>7
  <2> QED
    BY <2>2, <2>8 DEF c
<1> DEFINE own(i) == r[CHOOSE c \in ElementColumns(a, e) : Header[c].field = FieldsList(a)[i].field]
           cell(i) == IF start[e] + i - 1 \in Columns THEN r[start[e] + i - 1] ELSE Empty
<1>3. ASSUME NEW i \in 1..k PROVE own(i) = cell(i)
  <2>1. own(i) = r[start[e] + i - 1]
    BY <1>2, Zenon
  <2>2. cell(i) = r[start[e] + i - 1]
    BY <1>2, Zenon
  <2> QED
    BY <2>1, <2>2
<1>4. Piece(r, a, e) = [i \in 1..k |-> setField(FieldsList(a)[i].type, own(i))]
  BY <1>1 DEF Piece
<1> HIDE DEF own, cell
<1>5. Piece(r, a, e) = [i \in 1..k |-> setField(FieldsList(a)[i].type, cell(i))]
  BY <1>3, <1>4
<1> QED
  BY <1>5 DEF cell, Taken

LEMMA TrackElement ==
    ASSUME NEW r, NEW a \in Arrays, NEW k \in Columns,
           NEW start \in [Elements(a) -> Columns], LayoutOf(a, k, start),
           NEW s \in Seq(Seq(Values)), NEW h \in Columns, Header[h].array = a, r[h] # Empty,
           Tracked(s, r, a, h), Piece(r, a, Header[h].element) \in Seq(Values)
    PROVE  /\ Tracked(Append(s, Piece(r, a, Header[h].element)), r, a, h + k)
           /\ \A c \in Columns : h <= c /\ c < h + k => Header[c].array = a
<1> DEFINE m == Header[h].element
           T == There(r, a) \cap Behind(a, h)
<1>1. /\ m \in There(r, a) /\ m \in Elements(a) /\ start[m] = h /\ h \in Nat /\ k \in Nat /\ k >= 1
      /\ ElementColumns(a, m) = h..(h + k - 1) /\ m \in Nat
  <2>1. m \in There(r, a) /\ m \in Elements(a) /\ start[m] = h
    BY AtFirst
  <2> HIDE DEF m
  <2>2. /\ k \in Nat /\ k >= 1 /\ m \in Nat /\ start[m] \in Nat
        /\ ElementColumns(a, m) = start[m]..(start[m] + k - 1)
    BY <2>1, Placed
  <2> QED
    BY <2>1, <2>2
<1>2. \A c \in Columns : h <= c /\ c < h + k => Header[c].array = a
  <2> TAKE c \in Columns
  <2> HAVE h <= c /\ c < h + k
  <2>1. c \in ElementColumns(a, m)
    BY <1>1, Width
  <2> QED
    BY <2>1 DEF ElementColumns
<1>3. Piece(r, a, m) \in Seq(Values)
  OBVIOUS
<1> HIDE DEF m
<1>4. ASSUME NEW e \in Elements(a), e < m
      PROVE  \A c \in ElementColumns(a, e) : c < h /\ c < h + k
  <2>1. start[e] + k <= h /\ start[e] \in Nat /\ ElementColumns(a, e) = start[e]..(start[e] + k - 1)
    BY <1>1, <1>4, Placed
  <2> QED
    BY <1>1, <2>1
<1>5. ASSUME NEW e \in Elements(a), m < e
      PROVE  \A c \in ElementColumns(a, e) : ~ (c < h) /\ ~ (c < h + k)
  <2>1. h + k <= start[e] /\ start[e] \in Nat /\ ElementColumns(a, e) = start[e]..(start[e] + k - 1)
    BY <1>1, <1>5, Placed
  <2> QED
    BY <1>1, <2>1
<1>6. \A e \in Elements(a) : e \in Nat /\ start[e] \in ElementColumns(a, e)
  BY Placed
<1>7. \A e \in Elements(a) : e < m \/ e = m \/ m < e
  BY <1>1, <1>6
<1>8. \A c \in ElementColumns(a, m) : c < h + k
  BY <1>1
<1>9. h \in ElementColumns(a, m) /\ ~ (h < h)
  BY <1>1
<1>10. There(r, a) \subseteq Elements(a)
  BY DEF There
<1>11. \A d \in T : d < m
  BY <1>5, <1>6, <1>7, <1>9, <1>10 DEF Behind
<1>12. There(r, a) \cap Behind(a, h + k) = T \cup {m}
  <2>1. ASSUME NEW e \in There(r, a), e \in Behind(a, h + k) PROVE e \in T \cup {m}
    <3>1. e \in Elements(a) /\ ~ (m < e)
      BY <1>5, <1>6, <1>10, <2>1 DEF Behind
    <3>2. e < m => e \in Behind(a, h)
      BY <1>4, <3>1 DEF Behind
    <3> QED
      BY <1>7, <3>1, <3>2
  <2>2. ASSUME NEW e \in T PROVE e \in Behind(a, h + k)
    BY <1>4, <1>10, <1>11 DEF Behind
  <2>3. m \in Behind(a, h + k)
    BY <1>1, <1>8 DEF Behind
  <2> QED
    BY <1>1, <2>1, <2>2, <2>3
<1>13. T \subseteq Nat
  BY <1>6, <1>10
<1>14. Listed(s, r, a, T)
  BY DEF Tracked
<1> HIDE DEF T
<1>15. Listed(Append(s, Piece(r, a, m)), r, a, T \cup {m})
  BY <1>1, <1>3, <1>11, <1>13, <1>14, ListMore
<1>16. \A e \in There(r, a) : (\E c \in ElementColumns(a, e) : c < h + k)
                             => \A c \in ElementColumns(a, e) : c < h + k
  BY <1>4, <1>5, <1>7, <1>8, <1>10
<1> QED
  BY <1>2, <1>12, <1>15, <1>16 DEF Tracked, m

AlignedInv == read # <<>> /\ WellFormed(row) => \A a \in Arrays : Tracked(out.arrays[a], row, a, hIdx)

LEMMA AlignedStep == ASSUME Regular, Shape, AlignedInv, [TNext]_tvars PROVE AlignedInv'
<1>1. ASSUME NEW r \in Rows, ReadRow(r) PROVE AlignedInv'
  <2>1. read' = Append(read, r) /\ hIdx' = 1 /\ out' = ZeroStruct
    BY <1>1 DEF ReadRow
  <2>2. ASSUME NEW a \in Arrays PROVE out'.arrays[a] = <<>> /\ Tracked(<<>>, row', a, 1)
    <3>1. PICK k \in Columns, start \in [Elements(a) -> Columns] : LayoutOf(a, k, start)
      BY Regular DEF Regular, LayoutOf
    <3>2. Tracked(<<>>, row', a, 1)
      BY <3>1, TrackStart
    <3> QED
      BY <2>1, <3>2 DEF ZeroStruct
  <2> QED
    BY <2>1, <2>2 DEF AlignedInv
<1> SUFFICES ASSUME read' # <<>>, WellFormed(row)', ~ \E r \in Rows : ReadRow(r),
                    NEW a \in Arrays
             PROVE  Tracked(out'.arrays[a], row', a, hIdx')
  BY <1>1 DEF AlignedInv
<1>2. ASSUME AtRow, UNCHANGED read
      PROVE  row' = row /\ Tracked(out.arrays[a], row, a, hIdx) /\ hIdx \in Columns /\ hIdx \in Nat
  BY <1>2, Width DEF AtRow, row, AlignedInv
<1>3. ASSUME AtRow, UNCHANGED read, hIdx' = hIdx + 1, out'.arrays[a] = out.arrays[a],
             Header[hIdx].array # a
      PROVE  Tracked(out'.arrays[a], row', a, hIdx')
  <2>1. \A c \in Columns : Header[c].array = a => (c < hIdx <=> c < hIdx')
    BY <1>2, <1>3, Width
  <2> QED
    BY <1>2, <1>3, <2>1, TrackAside
<1>4. PICK k \in Columns, start \in [Elements(a) -> Columns] : LayoutOf(a, k, start)
  BY Regular DEF Regular, LayoutOf
<1>5. CASE Discard
  <2>1. /\ AtRow /\ UNCHANGED <<read, out>> /\ hIdx' = hIdx + 1
        /\ row[hIdx] = Empty \/ ~ HasField(hIdx)
    BY <1>5 DEF Discard
  <2>2. CASE Header[hIdx].array = a
    <3>1. row[hIdx] = Empty
      BY <1>2, <1>4, <2>1, <2>2 DEF LayoutOf, HasField
    <3>2. WellFormed(row)
      BY <1>2, <2>1
    <3>3. Tracked(out.arrays[a], row, a, hIdx + 1)
      BY <1>2, <1>4, <2>1, <2>2, <3>1, <3>2, TrackEmpty
    <3> QED
      BY <1>2, <2>1, <3>3
  <2>3. CASE Header[hIdx].array # a
    BY <1>3, <2>1, <2>3
  <2> QED
    BY <2>2, <2>3
<1>6. CASE SetPlain
  <2>1. AtRow /\ UNCHANGED read /\ hIdx' = hIdx + 1 /\ Header[hIdx].array = Plain
    BY <1>6 DEF SetPlain
  <2>2. out'.arrays = out.arrays
    BY <1>6 DEF SetPlain, Shape, Structs
  <2>3. a # Plain
    BY DEF Arrays, Named
  <2> QED
    BY <1>3, <2>1, <2>2, <2>3
<1>7. CASE SetElement
  <2> DEFINE b == Header[hIdx].array
             p == parseArrayElement(b, hIdx)
  <2>1. /\ AtRow /\ UNCHANGED read /\ b \in Arrays /\ row[hIdx] # Empty /\ hIdx \in Columns
        /\ hIdx \in Nat /\ out' = [out EXCEPT !.arrays[b] = Append(@, p.element)]
        /\ hIdx' = IF p.last < Len(Header) THEN p.last + 1 ELSE Len(Header) + 1
    BY <1>7, Width DEF SetElement, AtRow, HasField
  <2>2. PICK w \in Columns, begin \in [Elements(b) -> Columns] : LayoutOf(b, w, begin)
    BY <2>1, Regular DEF Regular, LayoutOf
  <2>3. /\ p.last = hIdx + w - 1 /\ p.element \in Seq(Values)
        /\ p.element = Taken(row, b, w, hIdx)
    BY <2>1, <2>2, Parsed
  <2>4. row' = row /\ Tracked(out.arrays[b], row, b, hIdx)
    BY <2>1 DEF AlignedInv, row, AtRow
  <2> DEFINE m == Header[hIdx].element
  <2>5. m \in Elements(b) /\ begin[m] = hIdx
    BY <2>1, <2>2, <2>4, AtFirst
  <2>6. p.element = Piece(row, b, m)
    <3> HIDE DEF m, b
    <3>1. b \in Arrays /\ m \in Elements(b)
      BY <2>1, <2>5
    <3>2. Piece(row, b, m) = Taken(row, b, w, begin[m])
      BY <2>2, <3>1, OwnCells
    <3> QED
      BY <2>3, <2>5, <3>2
  <2>7. out.arrays[b] \in Seq(Seq(Values))
    BY <2>1 DEF Shape, Structs
  <2>8. /\ Tracked(Append(out.arrays[b], p.element), row, b, hIdx + w)
        /\ \A c \in Columns : hIdx <= c /\ c < hIdx + w => Header[c].array = b
    <3>1. p.element \in Seq(Values)
      BY <2>3
    <3> HIDE DEF p, b
    <3>2. Header[hIdx].array = b
      BY DEF b
    <3>3. Piece(row, b, Header[hIdx].element) = p.element
      BY <2>6
    <3>4. Piece(row, b, Header[hIdx].element) \in Seq(Values)
      BY <3>1, <3>3
    <3>5. b \in Arrays /\ row[hIdx] # Empty /\ hIdx \in Columns /\ Tracked(out.arrays[b], row, b, hIdx)
      BY <2>1, <2>4
    <3>6. w \in Columns /\ begin \in [Elements(b) -> Columns] /\ LayoutOf(b, w, begin)
      BY <2>2
    <3>7. /\ Tracked(Append(out.arrays[b], Piece(row, b, Header[hIdx].element)), row, b, hIdx + w)
          /\ \A c \in Columns : hIdx <= c /\ c < hIdx + w => Header[c].array = b
      BY <2>7, <3>2, <3>4, <3>5, <3>6, TrackElement
    <3> QED
      BY <3>3, <3>7
  <2>9. hIdx' = hIdx + w
    <3> HIDE DEF m, b, p
    <3>1. begin[m] + w - 1 \in Columns
      <4>1. begin[m] + w - 1 \in ElementColumns(b, m)
        <5>1. /\ begin[m] \in Nat /\ w \in Nat /\ w >= 1
              /\ ElementColumns(b, m) = begin[m]..(begin[m] + w - 1)
          BY <2>1, <2>2, <2>5, Placed
        <5> QED
          BY <5>1
      <4> QED
        BY <4>1 DEF ElementColumns
    <3>2. hIdx + w - 1 \in Columns /\ p.last = hIdx + w - 1
      BY <2>3, <2>5, <3>1
    <3>3. hIdx' = IF p.last < Len(Header) THEN p.last + 1 ELSE Len(Header) + 1
      BY <2>1
    <3>4. w \in Nat /\ hIdx \in Nat
      BY <2>1, Width
    <3> QED
      BY <3>2, <3>3, <3>4, Width
  <2> HIDE DEF b, p, m
  <2>10. CASE a = b
    <3>1. out'.arrays[b] = Append(out.arrays[b], p.element)
      BY <2>1 DEF Shape, Structs
    <3> QED
      BY <2>4, <2>8, <2>9, <2>10, <3>1
  <2>11. CASE a # b
    <3>1. out'.arrays[a] = out.arrays[a]
      BY <2>1, <2>11 DEF Shape, Structs
    <3>2. w \in Nat /\ w >= 1
      BY Width
    <3>3. \A c \in Columns : Header[c].array = a => (c < hIdx <=> c < hIdx')
      BY <2>1, <2>8, <2>9, <2>11, <3>2, Width
    <3>4. Tracked(out.arrays[a], row, a, hIdx)
      BY <1>2, <2>1
    <3> QED
      BY <2>4, <3>1, <3>3, <3>4, TrackAside
  <2> QED
    BY <2>10, <2>11
<1>8. CASE Store
  <2>1. /\ read # <<>> /\ hIdx = Len(Header) + 1 /\ hIdx' = Len(Header) + 2
        /\ UNCHANGED <<read, out>>
    BY <1>8 DEF Store
  <2>2. row' = row /\ Tracked(out.arrays[a], row, a, hIdx)
    BY <2>1 DEF row, AlignedInv
  <2>3. \A c \in Columns : c < hIdx <=> c < hIdx'
    BY <2>1, Width
  <2> QED
    BY <2>1, <2>2, <2>3, TrackAside
<1>9. CASE LoadAgain
  BY <1>9 DEF LoadAgain
<1>10. CASE UNCHANGED tvars
  BY <1>10 DEF tvars, row, AlignedInv
<1> QED
  BY <1>5, <1>6, <1>7, <1>8, <1>9, <1>10 DEF TNext

(* In any header whose arrays are laid out as arrays are, every well-formed  *)
(* row is read into them as it is meant: no cell ends in another element or  *)
(* another field.  Arrays are those with a field: one whose name begins with *)
(* that of the array it stands behind has none, and no cell of it is read.   *)
THEOREM RowsAreAligned == ASSUME Regular PROVE TSpec => []Aligned
<1>1. TInit => AlignedInv
  BY DEF TInit, AlignedInv
<1>2. Shape /\ AlignedInv /\ [TNext]_tvars => AlignedInv'
  BY AlignedStep, Regular
<1>3. Shape /\ AlignedInv => Aligned
  <2> SUFFICES ASSUME Shape, AlignedInv, read # <<>>, hIdx > Len(Header), WellFormed(row),
                      NEW a \in Arrays
               PROVE  out.arrays[a] = Meant(row, a)
    BY DEF Aligned
  <2>1. out.arrays[a] \in Seq(Seq(Values)) /\ hIdx \in Nat
    BY Width DEF Shape, Structs
  <2>2. Tracked(out.arrays[a], row, a, hIdx)
    BY DEF AlignedInv
  <2> QED
    BY <2>1, <2>2, TrackEnd
<1> QED
  BY <1>1, <1>2, <1>3, ShapeAlways, Regular, PTL DEF TSpec
=============================================================================
