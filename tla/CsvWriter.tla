----------------------------- MODULE CsvWriter ------------------------------
(***************************************************************************)
(* Fs2a::CsvWriter (src/CsvWriter.cpp): fields and headers, one at a time  *)
(* or several, become lines of text; the length of the first line sets the *)
(* number of columns, and later lines end by themselves.  What it writes   *)
(* is what readCSV() reads.                                                *)
(***************************************************************************)
EXTENDS ReadCSV

CONSTANTS Inputs,     \* the fields that are written, sequences of characters
          Settings,   \* CsvWriter::csvSettings_t
          MaxCalls    \* bound: calls with at least one field, and fields of a call

ASSUME CsvAssumption ==
    /\ Inputs \subseteq Cell
    /\ Settings \subseteq [carriageReturn : BOOLEAN, forceHeader : BOOLEAN,
                           quoting : {"never", "always", "needed"}]
    /\ MaxCalls \in Nat

VARIABLES writer,    \* the members of the CsvWriter, its output, and (history) the
                     \* rows it was given: those completed and the one begun
          settings,  \* settings_
          calls

writerVars == <<writer, settings, calls>>

Writer == [open : BOOLEAN, column : Nat, columns : Nat, lines : Nat, out : Seq(Char),
           rows : Seq(Seq(Inputs)), begun : Seq(Inputs), thrown : BOOLEAN]

Throws(w) == [w EXCEPT !.thrown = TRUE]
Write(w, s) == [w EXCEPT !.out = @ \o s]

\* endRow() writes a line end...
LineEnd(w) == [Write(w, IF settings.carriageReturn THEN <<cr, lf>> ELSE <<lf>>) EXCEPT
                  !.column = 0, !.lines = @ + 1,
                  !.columns = IF w.columns = 0 THEN w.column ELSE @,
                  !.rows = Append(@, w.begun), !.begun = <<>>]

\* Mutant of EndRow: rows of any length.
EndRowAnyway(w) == IF w.columns # 0 /\ w.column = 0 THEN w ELSE LineEnd(w)

\* ... unless there is one, and not when fields are missing.
EndRow(w) == CASE w.columns # 0 /\ w.column = 0                       -> w
               [] w.columns # 0 /\ w.column \notin {0, w.columns}     -> Throws(w)
               [] OTHER                                               -> LineEnd(w)

DoubleQuote(f) == FlattenSeq([i \in DOMAIN f |-> IF f[i] = quote THEN <<quote, quote>> ELSE <<f[i]>>])

HasAny(f, chars) == \E i \in DOMAIN f : f[i] \in chars

\* Mutant of NeedsQuotes: a quote alone is left as it is, doubled.
NeedsNoQuotes(f) == HasAny(f, {cr, lf, sep})

\* The characters "needed" quotes for
NeedsQuotes(f) == HasAny(f, {cr, lf, sep, quote})

\* What is printed of a field
ToPrint(f) ==
    LET surrounded == <<quote>> \o DoubleQuote(f) \o <<quote>>
    IN  CASE settings.quoting = "never"  -> f
          [] settings.quoting = "always" -> surrounded
          [] settings.quoting = "needed" -> IF NeedsQuotes(f) THEN surrounded ELSE DoubleQuote(f)

\* quotedField_(): checks first, then prints and counts, and ends a full row.
QuotedField(w, f) ==
    IF \/ "invalid" \in ToSet(f)
       \/ settings.quoting = "never" /\ HasAny(f, {cr, lf, sep})
    THEN Throws(w)
    ELSE LET printed == [Write(w, (IF w.column # 0 THEN <<sep>> ELSE <<>>) \o ToPrint(f)) EXCEPT
                            !.column = @ + 1, !.begun = Append(@, f)]
         IN  IF printed.columns # 0 /\ printed.column = printed.columns THEN EndRow(printed) ELSE printed

\* writeFields_(): none if they are too many, but those before one that throws.
WriteFields(w, fs) ==
    IF w.columns # 0 /\ w.column + Len(fs) > w.columns THEN Throws(w)
    ELSE LET after[n \in 0..Len(fs)] ==
                 IF n = 0 THEN w
                 ELSE IF after[n - 1].thrown THEN after[n - 1] ELSE QuotedField(after[n - 1], fs[n])
         IN  after[Len(fs)]

-----------------------------------------------------------------------------
NewWriter == [open |-> FALSE, column |-> 0, columns |-> 0, lines |-> 0, out |-> <<>>,
              rows |-> <<>>, begun |-> <<>>, thrown |-> FALSE]

WriterInit == /\ writer = NewWriter
              /\ settings \in Settings
              /\ calls = 0

Rows == UNION {[1..n -> Inputs] : n \in 1..2}

Counted == writer.open /\ calls < MaxCalls /\ calls' = calls + 1

\* The program sees the exception and goes on.
Goes(w) == writer' = [w EXCEPT !.thrown = FALSE]

\* destination(stream): nothing is written before it, and it does not change.
Destination == ~writer.open /\ writer' = [writer EXCEPT !.open = TRUE] /\ calls' = calls

\* field(), fields(): after the header, if there has to be one.
Field  == /\ Counted /\ (settings.forceHeader => writer.lines # 0)
          /\ \E f \in Inputs : Goes(QuotedField(writer, f))
Fields == /\ Counted /\ (settings.forceHeader => writer.lines # 0)
          /\ \E fs \in Rows : Goes(WriteFields(writer, fs))

\* header(), headers(): in the first line.
Header  == /\ Counted /\ writer.lines = 0
           /\ \E f \in Inputs : Goes(QuotedField(writer, f))
Headers == /\ Counted /\ writer.lines = 0
           /\ \E fs \in Rows : Goes(WriteFields(writer, fs))

\* endRow(), once more than there are other calls at most.
End == /\ writer.open /\ writer.lines <= calls
       /\ Goes(EndRow(writer)) /\ calls' = calls

WriterNext == settings' = settings /\ (Destination \/ Field \/ Fields \/ Header \/ Headers \/ End)

-----------------------------------------------------------------------------
(* Properties *)

\* Types, and the rows that have fields are rectangular, however they were put
\* together and whatever calls threw on the way.
WriterTypeOK == /\ writer \in Writer /\ settings \in Settings /\ calls \in 0..MaxCalls
                /\ writer.lines = Len(writer.rows) /\ writer.column = Len(writer.begun)
                /\ \A i \in DOMAIN writer.rows : Len(writer.rows[i]) \in {0, writer.columns}

\* Some rows CSV has no text for, or readCSV() reads otherwise: a row ended before
\* it began; one empty field, unless it is quoted; a quote at the start of a
\* field that is not to be quoted; and characters at the start of the header
\* that are taken for a byte order mark.
BeginsWith(f, c) == f # <<>> /\ f[1] = c
Legible(rows) ==
    /\ \A i \in DOMAIN rows : rows[i] # <<>> /\ (settings.quoting # "always" => rows[i] # <<<<>>>>)
    /\ settings.quoting = "never" =>
         \A i \in DOMAIN rows : \A j \in DOMAIN rows[i] : ~BeginsWith(rows[i][j], quote)
    /\ ~BeginsWith(rows[1][1], high)

\* readCSV() returns the rows that were written, whichever characters they hold
\* and however they are quoted, as long as a Table can count their cells and the
\* columns are fewer than those that are too many.
RoundTrip ==
    writer.begun = <<>> /\ writer.rows # <<>> /\ Legible(writer.rows)
        /\ writer.columns < MaxColumns /\ writer.columns * writer.lines < Wide
        => LET read == readCSV(writer.out) IN ~read.thrown /\ RowsOf(read.t) = writer.rows
=============================================================================
