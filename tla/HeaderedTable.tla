--------------------------- MODULE HeaderedTable ----------------------------
(***************************************************************************)
(* Fs2a::HeaderedTable (src/HeaderedTable.cpp): a Table of strings whose   *)
(* cells can be addressed by the name of their column, which is in row 0.  *)
(* The first such access makes the names unique, IN the table, and caches  *)
(* where they are; the Table's own functions know nothing of the cache.    *)
(***************************************************************************)
EXTENDS Table

CONSTANTS Texts,    \* what the program writes into cells
          MaxRows    \* bound: the rows it asks for

ASSUME HeaderedTableAssumption == Texts \subseteq Cell /\ MaxRows \in Nat

VARIABLES table,     \* cols_ and data_
          hdrs,      \* hdrs_: a function from names to columns
          given,     \* history: the headers, as the program gave them
          rewritten  \* history: it has changed one that was not empty, or cached

tableVars == <<table, hdrs, given, rewritten>>

NoNames == <<>>
HeaderRow(t) == IF NumRows(t) = 0 THEN <<>> ELSE SubSeq(t.data, 1, t.cols)

\* std::to_string(a), for the numbers a table of less than UINT16_MAX columns needs
MaxNames == 65534
to_string[a \in 0..MaxNames] ==
    IF a < 10 THEN <<Digits[a + 1]>> ELSE Append(to_string[a \div 10], Digits[(a % 10) + 1])

\* f with the first number that makes it a new name
Numbered(f, a) == f \o <<"_">> \o to_string[a]
UniqueName(names, f) ==
    LET a == CHOOSE n \in 0..Len(names) :
                /\ Numbered(f, n) \notin ToSet(names)
                /\ \A m \in 0..(n - 1) : Numbered(f, m) \in ToSet(names)
    IN  Numbered(f, a)

\* The loop over the columns d behind c, which renames those that are called like c,
Renamed(names, c) ==
    LET after[d \in 0..Len(names)] ==
            IF d = 0 THEN names
            ELSE LET s == after[d - 1]
                 IN  IF c < d /\ s[c] = s[d] THEN [s EXCEPT ![d] = UniqueName(s, @)] ELSE s
    IN  after[Len(names)]

\* in the loop over the columns c.
MadeUnique(names) ==
    LET after[c \in 0..Len(names)] == IF c = 0 THEN names ELSE Renamed(after[c - 1], c)
    IN  after[Len(names)]

WithHeader(t, names) == [t EXCEPT !.data = names \o SubSeq(@, t.cols + 1, Len(@))]

\* Mutant of Cache: an empty name leaves what was cached before it.
CacheUpToEmpty(names) ==
    LET n == CHOOSE k \in 0..Len(names) : /\ \A c \in 1..k : names[c] # <<>>
                                          /\ k = Len(names) \/ names[k + 1] = <<>>
    IN  [f \in {names[i] : i \in 1..n} |-> CHOOSE c \in 1..n : names[c] = f]

\* Nothing is cached, and cell() throws, when one of the names is empty.
Cache(names) == IF <<>> \in ToSet(names) THEN NoNames
                ELSE [f \in ToSet(names) |-> CHOOSE c \in DOMAIN names : names[c] = f]

-----------------------------------------------------------------------------
TableInit == table = Columnless /\ hdrs = NoNames /\ given = <<>> /\ rewritten = FALSE

\* Row 0 of the table becomes that of t by the program's doing: it names a column
\* that had no name before the names are cached, or it changes its mind.
Renames(t) ==
    LET old == HeaderRow(table)
        new == HeaderRow(t)
    IN  IF old = new THEN UNCHANGED <<given, rewritten>>
        ELSE /\ given' = [c \in 1..t.cols |->
                            IF c \in DOMAIN old /\ c \in DOMAIN new /\ old[c] = new[c] THEN given[c]
                            ELSE IF c \in DOMAIN new THEN new[c] ELSE <<>>]
             /\ rewritten' = \/ rewritten \/ hdrs # NoNames \/ new = <<>>
                             \/ \E c \in DOMAIN old : old[c] # <<>> /\ old[c] # new[c]

\* columns(n)
Columns(n) == /\ table.cols = 0
              /\ table' = [table EXCEPT !.cols = n]
              /\ UNCHANGED <<hdrs, given, rewritten>>

\* rows(n)
SetRowCount(n) == /\ table.cols # 0
                  /\ table' = SetRows(table, n)
                  /\ Renames(table')
                  /\ UNCHANGED hdrs

\* cell(col, row) = f
Put(col, row, f) == /\ table.cols # 0
                    /\ table' = Assign(table, col, row, f)
                    /\ Renames(table')
                    /\ UNCHANGED hdrs

\* cell(name, row), which the program reads or assigns f to.  An unknown name and
\* a header that is empty make it throw, after the names were made unique.
PutNamed(name, row, f) ==
    LET unique == IF hdrs = NoNames THEN MadeUnique(HeaderRow(table)) ELSE HeaderRow(table)
        read   == WithHeader(table, unique)
        cached == IF hdrs = NoNames THEN Cache(unique) ELSE hdrs
    IN  /\ NumRows(table) # 0 /\ name # <<>>
        /\ hdrs' = cached
        /\ IF name \in DOMAIN cached
           THEN \/ table' = Reached(read, row) /\ UNCHANGED rewritten
                \/ /\ table' = Assign(read, cached[name] - 1, row, f)
                   /\ rewritten' = (rewritten \/ (row = 0 /\ f # name))
           ELSE table' = read /\ UNCHANGED rewritten
        /\ UNCHANGED given

Names == Texts \cup {Numbered(f, 0) : f \in Texts}

TableNext == \/ \E n \in 1..2 : Columns(n)
             \/ \E n \in 0..MaxRows : SetRowCount(n)
             \/ \E row \in 0..(MaxRows - 1), f \in Texts :
                   \/ \E col \in 0..table.cols : Put(col, row, f)
                   \/ \E name \in Names : PutNamed(name, row, f)

-----------------------------------------------------------------------------
(* Properties *)

\* Types: the cells fill their rows, and the cache leads to columns.
TableTypeOK == /\ table \in Tables
               /\ table.cols # 0 => Len(table.data) % table.cols = 0
               /\ \A f \in DOMAIN hdrs : hdrs[f] \in 1..table.cols
               /\ rewritten \in BOOLEAN

\* Once a cell was found by name, every column has a name of its own that leads
\* to it: the one it was given, or that one with numbers behind it, whatever
\* attempts failed before on a header without a name.  A name that was given leads
\* to the first column that has it, by the program's doing or as a numbered one.  (A
\* second column without a name is given one by a failing attempt.  A program
\* that changes names later has to do without: the cache is not told.)
NamedColumns ==
    hdrs # NoNames /\ ~rewritten =>
        /\ DOMAIN hdrs = ToSet(HeaderRow(table))
        /\ \A c \in 1..table.cols :
              /\ hdrs[HeaderRow(table)[c]] = c
              /\ IsPrefix(given[c], HeaderRow(table)[c])
              /\ given[c] # <<>> => given[c] \in DOMAIN hdrs /\ hdrs[given[c]] <= c

\* Wherever the program assigns to a cell, near or far, this one has what was
\* assigned, all others have what they had, and those that are new are empty: as
\* long as all cells can be counted.  From there on the rows that are added are
\* too few, or the table shrinks, and other cells are lost.
CellsKept ==
    \A row \in 0..(Wide - 1), col \in 0..(table.cols - 1), f \in Texts :
        table.cols * (row + 1) < Wide =>
            LET t == Assign(table, col, row, f)
                At(x, c, r) == IF r < NumRows(x) THEN x.data[r * x.cols + c + 1] ELSE <<>>
            IN  /\ NumRows(t) = IF row < NumRows(table) THEN NumRows(table) ELSE row + 1
                /\ \A c \in 0..(table.cols - 1), r \in 0..(NumRows(t) - 1) :
                      At(t, c, r) = IF c = col /\ r = row THEN f ELSE At(table, c, r)

\* Cells are found where they are, by number and by name.
CellsFound == CellsKept /\ NamedColumns
=============================================================================
