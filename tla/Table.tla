-------------------------------- MODULE Table --------------------------------
(***************************************************************************)
(* gamecfg: how a CSV file becomes a map and an array of structs.  Gen       *)
(* (gen.go) makes the struct and the load function from the file's first     *)
(* lines; parser.go and parser_helper.go fill a struct from a row.           *)
(***************************************************************************)
EXTENDS Integers, Sequences, FiniteSets, UNumber

CONSTANTS Header,    \* the columns: which array and element, which field, what type
          Longer,    \* <<a, b>>: the name of array b begins with that of a, and is longer
          Rows,      \* the rows a file may have
          MaxRows, MaxLoads  \* bounds: rows of all files, calls of LoadAll

Columns == 1..Len(Header)
Plain == ""          \* the array of a column that belongs to none
Empty == [kind |-> "empty", num |-> 0, unit |-> RAW]

\* A header has the id, as a field no other column is: two would not compile.  Nor
\* would two fields of one array: only those of longer names stand among its columns.
ASSUME TableAssumption ==
    /\ Header \in Seq([array : STRING, element : Nat, field : STRING, type : STRING])
    /\ \E c \in Columns : /\ Header[c].array = Plain /\ Header[c].field = "CfgID"
                          /\ \A d \in Columns : Header[d].array = Plain
                               /\ Header[d].field = "CfgID" => d = c
    /\ \A c, e \in Columns : Header[c].array = Header[e].array /\ Header[c].array # Plain =>
          \A d \in c..e : Header[d].array = Header[c].array
                             \/ <<Header[c].array, Header[d].array>> \in Longer

VARIABLES read,   \* the rows of this load, read so far
          hIdx,   \* the column of the last of them that comes next
          out,    \* the struct that is being filled
          map,    \* <Table>Map: by CfgID
          array,  \* <Table>Array
          loads
tvars == <<read, hIdx, out, map, array, loads>>

-----------------------------------------------------------------------------
(* What Gen makes of the header.                                           *)

\* An element's comment begins with its array and number, so 1 also begins those
\* of 10 to 19.
First(c) == Header[c].element \in {1} \cup 10..19

\* The columns of the first element of the array that begins at c, which are the
\* fields of its struct.
Span(c) == CHOOSE k \in 1..(Len(Header) - c + 1) :
    /\ \A i \in 1..(k - 1) : Header[c + i].array = Header[c].array /\ First(c + i)
    /\ c + k \in Columns => ~ (Header[c + k].array = Header[c].array /\ First(c + k))

Begin(a) == CHOOSE c \in Columns :
    Header[c].array = a /\ \A d \in Columns : Header[d].array = a => c <= d
FieldsList(a) == SubSeq(Header, Begin(a), Begin(a) + Span(Begin(a)) - 1)

Named == {Header[c].array : c \in Columns} \ {Plain}

\* Behind the first column of an array Gen skips the columns that begin with its name,
\* also those of arrays with longer names: these get no field.
Skipped(b) == \E a \in Named :
    /\ <<a, b>> \in Longer
    /\ \A c \in Begin(a)..Begin(b) : Header[c].array = a \/ <<a, Header[c].array>> \in Longer
    /\ Begin(a) < Begin(b)

Arrays == {b \in Named : ~ Skipped(b)}
HasField(c) == Header[c].field # "" /\ Header[c].array \in Arrays \cup {Plain}
PlainFields == {Header[c].field : c \in {d \in Columns : Header[d].array = Plain}} \ {""}

-----------------------------------------------------------------------------
(* setField.  A text that does not convert is an error nobody looks at: the  *)
(* field keeps its zero.                                                    *)

ZeroOf(type) == CASE type = "int" -> 0
                  [] type = "boolean" -> FALSE
                  [] type = "unumber" -> Zero
                  [] OTHER -> Empty

toInt(v) == IF v.kind = "whole" THEN v.num ELSE 0
toBool(v) == v.kind = "yes" \/ (v.kind = "whole" /\ v.num = 1)
toUNumber(v) == CASE v.kind = "whole" -> ParseUNumber([num |-> v.num * Scale, unit |-> v.unit])
                  [] v.kind = "fraction" -> ParseUNumber([num |-> v.num, unit |-> v.unit])
                  [] OTHER -> Zero

setField(type, v) == IF v = Empty THEN ZeroOf(type)
                     ELSE CASE type = "int" -> toInt(v)
                            [] type = "boolean" -> toBool(v)
                            [] type = "unumber" -> toUNumber(v)
                            [] OTHER -> v

ZeroStruct == [plain |-> [f \in PlainFields |->
                   ZeroOf(Header[CHOOSE c \in Columns : Header[c].field = f
                                        /\ Header[c].array = Plain].type)],
               arrays |-> [a \in Arrays |-> <<>>]]

-----------------------------------------------------------------------------
(* The load function and unmarshalRow.                                      *)

TInit == /\ read = <<>>
         /\ hIdx = Len(Header) + 1
         /\ out = ZeroStruct
         /\ map = << >>
         /\ array = <<>>
         /\ loads = 1

row == read[Len(read)]
AtRow == read # <<>> /\ hIdx \in Columns

ReadRow(r) ==
    /\ read = <<>> \/ hIdx = Len(Header) + 2
    /\ Len(array) < MaxRows
    /\ read' = Append(read, r)
    /\ hIdx' = 1
    /\ out' = ZeroStruct
    /\ UNCHANGED <<map, array, loads>>

\* An empty cell is discarded; so is a column the struct has no field for.
Discard ==
    /\ AtRow
    /\ row[hIdx] = Empty \/ ~ HasField(hIdx)
    /\ hIdx' = hIdx + 1
    /\ UNCHANGED <<read, out, map, array, loads>>

SetPlain ==
    /\ AtRow
    /\ row[hIdx] # Empty /\ Header[hIdx].array = Plain /\ HasField(hIdx)
    /\ out' = [out EXCEPT !.plain[Header[hIdx].field] = setField(Header[hIdx].type, row[hIdx])]
    /\ hIdx' = hIdx + 1
    /\ UNCHANGED <<read, map, array, loads>>

\* Mutant: the column after an element is taken for a part of it.
parseArrayElementLong(a, h) ==
    LET fields == FieldsList(a)
        cell(i) == IF h + i - 1 \in Columns THEN row[h + i - 1] ELSE Empty
    IN  [element |-> [i \in DOMAIN fields |-> setField(fields[i].type, cell(i))],
         last |-> h + Len(fields)]

\* An element takes its fields from the columns from h on, as far as there are
\* any, whichever element they are of.
parseArrayElement(a, h) ==
    LET fields == FieldsList(a)
        cell(i) == IF h + i - 1 \in Columns THEN row[h + i - 1] ELSE Empty
    IN  [element |-> [i \in DOMAIN fields |-> setField(fields[i].type, cell(i))],
         last |-> h + Len(fields) - 1]

SetElement ==
    /\ AtRow
    /\ row[hIdx] # Empty /\ Header[hIdx].array # Plain /\ HasField(hIdx)
    /\ LET parsed == parseArrayElement(Header[hIdx].array, hIdx)
       IN  /\ out' = [out EXCEPT !.arrays[Header[hIdx].array] = Append(@, parsed.element)]
           /\ hIdx' = IF parsed.last < Len(Header) THEN parsed.last + 1 ELSE Len(Header) + 1
    /\ UNCHANGED <<read, map, array, loads>>

\* The struct goes into the map, where a later row with its id replaces it, and
\* into the array, where both stay.
Store ==
    /\ read # <<>> /\ hIdx = Len(Header) + 1
    /\ map' = [i \in DOMAIN map \cup {out.plain["CfgID"]} |->
                 IF i = out.plain["CfgID"] THEN out ELSE map[i]]
    /\ array' = Append(array, out)
    /\ hIdx' = Len(Header) + 2
    /\ UNCHANGED <<read, out, loads>>

\* Mutant: the map of the last load is kept.
RemakeNothing == map

\* A load ends with the file, or silently at a row that csv.Reader refuses: what stands
\* behind that row is not loaded.  The next begins with an empty map and with the array
\* as it was.
Remake == << >>

LoadAgain ==
    /\ read # <<>> /\ hIdx = Len(Header) + 2
    /\ loads < MaxLoads
    /\ map' = Remake
    /\ read' = <<>>
    /\ hIdx' = Len(Header) + 1
    /\ loads' = loads + 1
    /\ UNCHANGED <<out, array>>

TNext == \/ \E r \in Rows : ReadRow(r)
         \/ Discard \/ SetPlain \/ SetElement \/ Store \/ LoadAgain

TSpec == TInit /\ [][TNext]_tvars

-----------------------------------------------------------------------------
(* What a row says.                                                         *)

ElementColumns(a, e) == {c \in Columns : Header[c].array = a /\ Header[c].element = e}
Elements(a) == {Header[c].element : c \in {d \in Columns : Header[d].array = a}}

\* No element begins with an empty cell and goes on with another.
WellFormed(r) == \A a \in Arrays : \A e \in Elements(a) :
    LET cs == ElementColumns(a, e)
    IN  (\E c \in cs : r[c] # Empty)
          => \E c \in cs : r[c] # Empty /\ \A d \in cs : c <= d

\* The elements that are not all empty, in their order, each made of its own cells.
Meant(r, a) ==
    LET there == {e \in Elements(a) : \E c \in ElementColumns(a, e) : r[c] # Empty}
        nth(k) == CHOOSE e \in there : Cardinality({d \in there : d <= e}) = k
        cell(e, f) == r[CHOOSE c \in ElementColumns(a, e) : Header[c].field = f.field]
    IN  [k \in 1..Cardinality(there) |->
           [i \in DOMAIN FieldsList(a) |->
              setField(FieldsList(a)[i].type, cell(nth(k), FieldsList(a)[i]))]]

(* A row whose elements all begin with a cell that is not empty, or are      *)
(* empty, is read as it was meant: every element has its own cells in its   *)
(* own fields, although elements are found by counting columns              *)
(* (parser.go:131).  An array that Gen gives no field is lost with its cells.*)
Aligned == read # <<>> /\ hIdx > Len(Header) /\ WellFormed(row) =>
    \A a \in Arrays : out.arrays[a] = Meant(row, a)

\* The id a row is stored under, in its column.
IdColumn == CHOOSE c \in Columns : Header[c].array = Plain /\ Header[c].field = "CfgID"
IdOf(r) == setField(Header[IdColumn].type, r[IdColumn])

\* The id stands before the arrays: behind one, an element that is read one column
\* too far right would swallow it.
IdFirst == \A c \in Columns : Header[c].array # Plain => IdColumn < c

\* The elements of an array are numbered from 1 and stand in their order; each has the
\* columns of the first, one beside the other, named alike.  (From 10 on a number begins
\* with the 1 that ends the first element.)
Regular == \A a \in Arrays : \E k \in Columns, start \in [Elements(a) -> Columns] :
    /\ 1 \in Elements(a)
    /\ \A e \in Elements(a) :
         /\ 1 <= e /\ ElementColumns(a, e) = start[e]..(start[e] + k - 1)
         /\ \A i \in 0..(k - 1) : Header[start[e] + i].field = Header[start[1] + i].field
         /\ \A f \in Elements(a) : e < f => start[e] + k <= start[f]
         /\ start[e] = start[1] + k => e \notin 10..19
    /\ \A i, j \in 0..(k - 1) :
         Header[start[1] + i].field = Header[start[1] + j].field => i = j
    /\ \A c \in Columns : Header[c].array = a => Header[c].field # ""

(* The map always says what the rows said that the last load read: the ids   *)
(* they have, and for an id that occurs twice the last of them; nothing of   *)
(* an earlier load is left (gen.go:325).                                    *)
MapAgrees == read # <<>> /\ hIdx = Len(Header) + 2 =>
    /\ DOMAIN map = {IdOf(read[k]) : k \in 1..Len(read)}
    /\ \A k \in 1..Len(read) :
         (\A l \in (k + 1)..Len(read) : IdOf(read[l]) # IdOf(read[k]))
           => map[IdOf(read[k])] = array[Len(array) - Len(read) + k]
=============================================================================
