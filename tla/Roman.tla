------------------------------- MODULE Roman --------------------------------
(***************************************************************************)
(* Fs2a::toRoman() (src/roman.cpp).  A Roman numeral is the number it      *)
(* stands for, and a text of them a sequence.                              *)
(***************************************************************************)
EXTENDS Integers, SequencesExt

CONSTANT Numbers   \* the numbers that the program converts

MaxNumber == 65535   \* of a uint16_t

ASSUME RomanAssumption == Numbers \subseteq 0..MaxNumber

VARIABLE number

\* Numeral v in the walk from M to I: as often as it fits, and then once more if
\* the first of I, X and C to do so, put in front of it, makes it fit.
Numeral(s, v) ==
    LET rem    == s.rem % v
        fronts == {j \in {1, 10, 100} : j < v /\ rem >= v - j}
        filled == s.out \o [k \in 1..(s.rem \div v) |-> v]
    IN  IF fronts = {} THEN [out |-> filled, rem |-> rem]
        ELSE LET j == CHOOSE f \in fronts : \A g \in fronts : f <= g
             IN  [out |-> filled \o <<j, v>>, rem |-> rem - (v - j)]

toRoman(n) == FoldLeft(Numeral, [out |-> <<>>, rem |-> n], <<1000, 500, 100, 50, 10, 5, 1>>).out

-----------------------------------------------------------------------------
RomanInit == number = 0

\* The program converts a number, and then another.
ToRoman == number' \in (IF number = 0 THEN Numbers ELSE {0})

-----------------------------------------------------------------------------
\* A reference: a numeral counts against a larger one behind it.
Counts(s, i) == IF i < Len(s) /\ s[i] < s[i + 1] THEN -s[i] ELSE s[i]
ValueOf(s)   == FoldLeft(+, 0, [i \in DOMAIN s |-> Counts(s, i)])

\* The numeral has the value of the number.  "The 5* numbers are never used as a
\* prefix", none of a larger one follows two smaller ones ("at most one
\* substraction is done"), and below 4000 none stands four times in a row.
RomanIsNumber ==
    LET s == toRoman(number)
        subtracted(i) == Counts(s, i) < 0
    IN  /\ ValueOf(s) = number
        /\ \A i \in DOMAIN s : subtracted(i) => s[i] \in {1, 10, 100} /\ (i > 1 => ~subtracted(i - 1))
        /\ \A i \in DOMAIN s : \A j \in DOMAIN s : i < j /\ s[i] < s[j] => j = i + 1
        /\ number < 4000 => \A i \in 4..Len(s) : {s[i - 1], s[i - 2], s[i - 3]} # {s[i]}
=============================================================================
