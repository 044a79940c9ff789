------------------------------ MODULE MCGameCfg ------------------------------
(* gamecfg for TLC: a behaviour is either a calculation or the loading of a  *)
(* table, which share nothing but what a number is.                          *)
EXTENDS Calculator, Table

ASSUME MCHeaderAssumption == IdFirst /\ Regular

VARIABLE doing
vars == <<cvars, tvars, doing>>

\* Floats of four bits, rounded to the nearest and between two to the even one.
MCRound(p, q) ==
    LET size == IF p < 0 THEN -p ELSE p
        e == CHOOSE k \in 0..20 : /\ size < 2 ^ (k + 4) * q
                                  /\ k = 0 \/ size >= 2 ^ (k + 3) * q
        unit == q * 2 ^ e
        down == size \div unit
        left == 2 * (size % unit)
        m == IF left > unit \/ (left = unit /\ down % 2 = 1) THEN down + 1 ELSE down
    IN  (IF p < 0 THEN -m ELSE m) * 2 ^ e

\* It rounds as the theorems ask.
Sample == {0, 1, 7, 15, 16, 17, 31, 45, 63, 64, 65, 66, 67, 96, 184, 192, 200, 208, 575, 576, 577, 1000, 4097}
ASSUME MCRoundingAssumption ==
    RoundingOn(Sample \cup {-p : p \in Sample}, {1, 2, 3, 7, 9, 27, 64}) /\ LimitsOn(-4100..4100)

\* Of 64 parts: 1, 2, 3 (the limit of raw), 1A, 2B, 1E, 2F, -1, -2C, 27 raw, which is
\* not normal, and 1.06, which is no float.
One == 64
MCTexts == {[num |-> One, unit |-> 0], [num |-> 2 * One, unit |-> 0], [num |-> 3 * One, unit |-> 0],
            [num |-> One, unit |-> 1], [num |-> 2 * One, unit |-> 2],
            [num |-> One, unit |-> 5], [num |-> 2 * One, unit |-> 6],
            [num |-> -One, unit |-> 0], [num |-> -2 * One, unit |-> 3],
            [num |-> 27 * One, unit |-> 0], [num |-> One + 4, unit |-> 0]}

\* An id, a number with a unit, a comment, two awards of two fields, two tags, and an
\* array whose name begins with that of the tags.
Column(a, e, f, t) == [array |-> a, element |-> e, field |-> f, type |-> t]
MCHeader == << Column("", 0, "CfgID", "string"), Column("", 0, "power", "unumber"),
               Column("", 0, "", "string"),
               Column("awards", 1, "kind", "string"), Column("awards", 1, "num", "int"),
               Column("awards", 2, "kind", "string"), Column("awards", 2, "num", "int"),
               Column("tags", 1, "tag", "boolean"), Column("tags", 2, "tag", "boolean"), Column("tagsold", 1, "tag", "int") >>
MCLonger == {<<"tags", "tagsold">>}

Cell(k, num, unit) == [kind |-> k, num |-> num, unit |-> unit]
Word(i) == Cell("word", i, 0)
Row(id, power, k1, n1, k2, n2, t) ==
    <<Word(id), power, Word(9), k1, n1, k2, n2, t, Cell("yes", 0, 0), Cell("whole", 7, 0)>>
Present(c) == {Empty, c}
Fraction == Cell("fraction", One, 7)

\* With the id 1 every way to leave cells of the awards empty; a number of awards that
\* is none; a unit that does not exist.
MCRows == {Row(1, Empty, k1, n1, k2, n2, IF k1 = Empty THEN Word(5) ELSE Empty) :
             k1 \in Present(Word(3)), n1 \in Present(Cell("whole", 5, 0)),
             k2 \in Present(Word(4)), n2 \in Present(Cell("whole", 6, 0)) \cup {Fraction}}
          \cup {Row(2, Fraction, Empty, Empty, Word(4), Empty, t) : t \in Present(Word(5))}

Init == \/ doing = "sums" /\ CInit /\ TInit
        \/ doing = "table" /\ TInit /\ n = Zero /\ total = 0
Next == \/ doing = "sums" /\ CNext /\ UNCHANGED <<tvars, doing>>
        \/ doing = "table" /\ TNext /\ UNCHANGED <<cvars, doing>>
Spec == Init /\ [][Next]_vars
=============================================================================
