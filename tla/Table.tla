------------------------------- MODULE Table --------------------------------
(***************************************************************************)
(* Fs2a::Table<T> (hdr/fs2a/Table.hpp): cells in one vector, row after     *)
(* row, behind a number of columns that is set once.  Indices and sizes    *)
(* are uint32_t, and so are their products and successors.                 *)
(***************************************************************************)
EXTENDS Integers, SequencesExt

CONSTANT Wide   \* number of values of uint32_t

ASSUME TableAssumption == Wide \in Nat \ {0}

\* The characters that are told apart: the separator, a quote, the two line end
\* characters, one with the eighth bit set, those that number a name, and the rest.
sep == "sep"
quote == "quote"
cr == "cr"
lf == "lf"
high == "high"
plain == "plain"
Digits == <<"0", "1", "2", "3", "4", "5", "6", "7", "8", "9">>
Char == {sep, quote, cr, lf, high, plain, "invalid", "_"} \cup ToSet(Digits)

Cell == Seq(Char)

\* cols_ and data_, as the constructor leaves them
Columnless == [cols |-> 0, data |-> <<>>]
Tables == [cols : Nat, data : Seq(Cell)]

NumRows(t) == IF t.cols = 0 THEN 0 ELSE Len(t.data) \div t.cols

\* vector::resize() cuts, or adds empty cells.
Resized(s, n) == [i \in 1..n |-> IF i <= Len(s) THEN s[i] ELSE <<>>]

\* rows(n), on a table that has columns
SetRows(t, n) == [t EXCEPT !.data = Resized(@, (t.cols * n) % Wide)]

\* cell() adds the rows up to the one it is asked for ...
Reached(t, row) == IF row >= NumRows(t) THEN SetRows(t, (row + 1) % Wide) ELSE t

\* ... and looks its cell up.
Index(t, col, row) == ((row * t.cols + col) % Wide) + 1

\* cell(col, row) = f; beyond the columns, cell() throws before it adds rows.
Assign(t, col, row, f) ==
    IF col >= t.cols THEN t
    ELSE LET g == Reached(t, row)
         IN  [g EXCEPT !.data = [i \in DOMAIN @ |-> IF i = Index(t, col, row) THEN f ELSE @[i]]]

\* The rows, as sequences of cells.
RowsOf(t) == [r \in 1..NumRows(t) |-> SubSeq(t.data, (r - 1) * t.cols + 1, r * t.cols)]
=============================================================================
