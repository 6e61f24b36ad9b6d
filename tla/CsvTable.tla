------------------------------ MODULE CsvTable ------------------------------
(***************************************************************************)
(* A program that writes a table with a CsvWriter, reads it back with      *)
(* readCSV(), and gives the result to a HeaderedTable, which it goes on    *)
(* using.  (Or it uses a HeaderedTable without all that.)                  *)
(***************************************************************************)
EXTENDS CsvWriter, HeaderedTable

CONSTANT MaxCells   \* bound: the cells of the rows that are read

\* The bounds leave out tables with more cells than can be counted.
ASSUME CsvTableAssumption ==
    /\ MaxCells \in 0..(MaxNames - 1)
    /\ 2 * MaxCells < Wide /\ MaxCells * MaxRows < Wide /\ 2 * MaxRows < Wide

vars == <<writerVars, tableVars>>

Init == WriterInit /\ TableInit

\* A program that has not begun to write, or is not going to write any more.
SomeSettings == CHOOSE k \in Settings : TRUE

\* Until it uses the table, the program writes.
Writes == table = Columnless /\ WriterNext /\ UNCHANGED tableVars

\* HeaderedTable t(readCSV(stream)), of whatever is written so far.
Reads == LET read == readCSV(writer.out)
         IN  /\ table = Columnless
             /\ ~read.thrown /\ read.t.cols * read.row <= MaxCells
             /\ table' = read.t
             /\ hdrs' = NoNames
             /\ given' = HeaderRow(read.t)
             /\ rewritten' = FALSE
             /\ writer' = NewWriter /\ settings' = SomeSettings /\ calls' = 0

Uses == writer = NewWriter /\ settings = SomeSettings /\ TableNext /\ UNCHANGED writerVars

Next == Writes \/ Reads \/ Uses

Spec == Init /\ [][Next]_vars

-----------------------------------------------------------------------------
(* Properties *)

\* The types of the writer, whose rows are rectangular, and of the table.
TypeOK == WriterTypeOK /\ TableTypeOK
=============================================================================
