------------------------------- MODULE Tokens -------------------------------
(***************************************************************************)
(* Fs2a::join() (hdr/fs2a/functions.hpp) and Tokenize() (src/Tokenize.cpp): *)
(* items to one text and back.  Texts are sequences of characters.         *)
(***************************************************************************)
EXTENDS Integers, SequencesExt

CONSTANTS Items,       \* what the program joins, as texts
          Separators,  \* the separators it puts between two of them; <<>> is the
                       \* default of the last one
          Delimiters,  \* the set of characters at which it takes the text apart
          MaxItems     \* bound

ASSUME TokensAssumption == <<>> \in Separators /\ MaxItems \in Nat

VARIABLE items

join(list, separator, last) ==
    FlattenSeq([i \in DOMAIN list |->
        (CASE i = 1                                -> <<>>
           [] i > 1 /\ i = Len(list) /\ last # <<>> -> last
           [] OTHER                                -> separator) \o list[i]])

\* The places where the tokens of a text begin, and where the one at i ends: at a
\* delimiter, or behind the text.
Begins(text) == SelectSeq([i \in DOMAIN text |-> i],
                          LAMBDA i : text[i] \notin Delimiters /\ (i = 1 \/ text[i - 1] \in Delimiters))
EndOf(text, i) == CHOOSE j \in i..Len(text) :
                     /\ \A k \in i..j : text[k] \notin Delimiters
                     /\ j = Len(text) \/ text[j + 1] \in Delimiters

\* The tokens are added to those that are there.
Tokenize(text, tokens) ==
    LET begins == Begins(text)
    IN  tokens \o [n \in DOMAIN begins |-> SubSeq(text, begins[n], EndOf(text, begins[n]))]

-----------------------------------------------------------------------------
TokensInit == items = <<>>

\* The program has another item, or other items.
MoreItems == \/ Len(items) < MaxItems /\ \E i \in Items : items' = Append(items, i)
             \/ items' = <<>>

-----------------------------------------------------------------------------
\* The tokens of what was joined are those of the items, one by one: a separator
\* of delimiters adds none and loses none, nor does it run two items together.
\* So they are the items themselves, if none is empty or has a delimiter.
JoinedReadBack ==
    \A separator \in Separators \ {<<>>}, last \in Separators :
        LET tokens == Tokenize(join(items, separator, last), <<>>)
            plain(i) == i # <<>> /\ ToSet(i) \cap Delimiters = {}
        IN  /\ tokens = FoldLeft(LAMBDA list, i : Tokenize(i, list), <<>>, items)
            /\ (\A n \in DOMAIN items : plain(items[n])) => tokens = items
=============================================================================
