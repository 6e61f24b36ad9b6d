------------------------------ MODULE ReadCSV -------------------------------
(***************************************************************************)
(* Fs2a::readCSV() (src/readCSV.cpp): one pass over the characters of a    *)
(* stream, with a look at the next one here and there, into a table whose  *)
(* first row holds the headers.  Line and character numbers, which only    *)
(* error messages use, are left out.                                       *)
(***************************************************************************)
EXTENDS Table

CONSTANT MaxColumns   \* UINT16_MAX, with which a header has too many columns

ASSUME ReadCSVAssumption == MaxColumns \in Nat \ {0}

eof == "EOF"   \* no character

\* What the last character was, the table, and the state of the stream.
\* (last_e::beginQuote is never assigned.)
Reader == [at : Nat, good : BOOLEAN, st : {"reading", "returned", "thrown"},
           header : BOOLEAN, quoted : BOOLEAN,
           last : {"endQuote", "fieldData", "separator", "startOfRecord"},
           f : Cell, h : Seq(Cell), col : Nat, row : Nat, t : Tables]

StartReading == [at |-> 1, good |-> TRUE, st |-> "reading", header |-> TRUE, quoted |-> FALSE,
                 last |-> "startOfRecord", f |-> <<>>, h |-> <<>>, col |-> 0, row |-> 0, t |-> Columnless]

\* read() or peek() at position i; both find the end of the stream.  (Where char is
\* signed, read() takes the byte 0xFF for it too.  No text here has such a byte: it is
\* not UTF-8, and CsvWriter writes nothing else.)
CharAt(s, i) == IF i <= Len(s) THEN s[i] ELSE eof
Looked(r, s, i) == [r EXCEPT !.good = r.good /\ i <= Len(s)]

FieldReady(r) ==
    [r EXCEPT !.f = <<>>,
              !.h = IF r.header THEN Append(@, r.f) ELSE @,
              !.t = IF r.header THEN @ ELSE Assign(@, r.col, r.row, r.f)]

Push(r, c, n) == [r EXCEPT !.f = Append(@, c), !.last = "fieldData", !.at = @ + n]

\* The next character is c, inside a quoted field.
Quoted(r, s, c) ==
    CASE c = eof -> [r EXCEPT !.st = "thrown"]
      [] c = cr /\ CharAt(s, r.at + 1) = lf -> Push(Push(r, cr, 1), lf, 1)
      [] c = cr /\ CharAt(s, r.at + 1) # lf -> Looked(Push(r, cr, 1), s, r.at + 1)
      [] c = quote /\ CharAt(s, r.at + 1) = quote -> Push(r, quote, 2)
      [] c = quote /\ CharAt(s, r.at + 1) # quote ->
            Looked([r EXCEPT !.quoted = FALSE, !.last = "endQuote", !.at = @ + 1], s, r.at + 1)
      [] OTHER -> Push(r, c, 1)

\* The columns of the header and the numbers of the rows are limited.
TooMany(r, done) == IF r.header THEN Len(done.h) >= MaxColumns ELSE r.row = Wide - 1

\* The end of a record: a line end, or that of the stream.
EndOfRecord(r, s, c) ==
    LET n    == IF c = cr /\ CharAt(s, r.at + 1) = lf THEN 2 ELSE 1
        read == [(IF c = cr THEN Looked(r, s, r.at + 1) ELSE r) EXCEPT !.at = @ + n]
        done == FieldReady(read)
    IN  IF r.last = "startOfRecord"
        THEN [read EXCEPT !.st = IF CharAt(s, read.at) = eof THEN "returned" ELSE "thrown"]
        ELSE IF TooMany(r, done) THEN [done EXCEPT !.st = "thrown"]
        ELSE [done EXCEPT !.t = IF r.header THEN [cols |-> Len(done.h), data |-> done.h] ELSE @, !.h = <<>>, !.header = FALSE,
                          !.row = @ + 1, !.col = 0, !.last = "startOfRecord"]

\* A separator: the field is stored before the columns are counted.
Separator(r) ==
    LET done == [FieldReady(r) EXCEPT !.last = "separator", !.at = @ + 1]
    IN  IF r.header THEN done
        ELSE IF r.col >= r.t.cols - 1 THEN [done EXCEPT !.st = "thrown"]
        ELSE [done EXCEPT !.col = @ + 1]

\* A quote outside a quoted field.
Quote(r) ==
    CASE r.last = "endQuote"  -> [r EXCEPT !.st = "thrown"]
      [] r.last = "fieldData" -> Push(r, quote, 1)
      [] OTHER                -> [r EXCEPT !.quoted = TRUE, !.f = <<>>, !.at = @ + 1]

\* One turn of the loop.
ReadOne(r, s) ==
    LET c    == CharAt(s, r.at)
        q    == Looked(r, s, r.at)
        skip == r.header /\ r.last = "startOfRecord" /\ c = high
    IN  CASE skip                              -> [q EXCEPT !.at = @ + 1]
          [] ~skip /\ r.quoted                 -> Quoted(q, s, c)
          [] ~r.quoted /\ c \in {cr, lf, eof}  -> EndOfRecord(q, s, c)
          [] ~r.quoted /\ c = quote            -> Quote(q)
          [] ~r.quoted /\ c = sep              -> Separator(q)
          [] OTHER                             -> Push(q, c, 1)

Turn(r, s) == IF r.good /\ r.st = "reading" THEN ReadOne(r, s) ELSE r

\* What n turns lead to.  Each takes a character, and the last one finds the end.
After(s) == LET after[n \in 0..(Len(s) + 1)] == IF n = 0 THEN StartReading ELSE Turn(after[n - 1], s)
            IN  after

\* readCSV(stream_i, separator_i) for the characters s: what it returns, or throws,
\* and how many rows it has counted.
readCSV(s) == LET end == After(s)[Len(s) + 1]
              IN  [thrown |-> end.st = "thrown", t |-> end.t, row |-> end.row]
=============================================================================
