---------------------------- MODULE MCUtilities ----------------------------
(* A small instance of Utilities for TLC. *)
EXTENDS Utilities

\* Both ends of the range, leap years and none by each of the rules, the last
\* year of four digits and the one after it.
MCYears  == {0, 1899, 1900, 2000, 2023, 2024, 9999, 10000, 65535}
MCMonths == 0..13
MCDays   == {0, 1, 15, 28, 29, 30, 31, 32}

\* Both sides of UTC up to twelve hours from it, where weekday() is right, and
\* zones farther away that there are.
MCZones == {-720, -719, -300, 0, 60, 720, 721, 840}

On(y, m, d) == WriteDate([year |-> y, month |-> m, day |-> d])
MCDateTexts == {On(2024, 2, 29), On(2023, 2, 29), On(2023, 5, 31), On(10000, 1, 1), <<>>,
                <<2, 0, 2, 4, Colon, 1, Letter, Dash, 0, 9>>,    \* separators and the rest of a
                                                                 \* month are not looked at
                <<2, 0, 2, 4, Dash, Lead, 3, Dash, Letter, 9>>}  \* a number that is none

MCHours     == {0, 9, 22, 23, 24, 255}
MCMinutes   == {0, 1, 30, 59, 60}
MCAmounts   == {0, 1, 59, 60, 61, 1439, 65535}
MCTimeTexts == {<<7, Colon, 5>>, <<2, 9, Colon, 0, 0>>, <<1, 2, Colon, 6, 0>>, <<Colon, 0, 0>>, <<1, 2, 0, 0>>}

MCTimespecs == [sec : -1..1, nsec : 0..3]

MCAgainst == [dates |-> {d \in [year : {1900, 2023, 2024}, month : {1, 2, 12}, day : {1, 28, 29, 31}] : valid(d)},
              times |-> [hour : {0, 9, 23}, min : {0, 30, 59}]]

\* Bytes with all, no and alternating bits set, in data that end anywhere in the
\* group of three.
MCBytes == {0, 27, 228, 255}

\* All numbers that Roman numerals are made for, and some beyond.
MCNumbers == (0..3999) \cup {4000, 9999, 65535}

\* Items that are empty, and that have delimiters at their ends and within.
MCItems == {<<>>, <<"a">>, <<"a", "b">>, <<" ", "b">>, <<"a", " ", ",", "b">>}
MCSeparators == {<<>>, <<",", " ">>, <<" ">>}

\* A code of each length, and orders that begin, go on and end with the longest.
MCCodes  == [gt |-> ">", amp |-> "&", nbsp |-> " ", quest |-> "?"]
MCOrders == {<<"quest", "nbsp", "gt", "amp">>, <<"amp", "quest", "nbsp", "gt">>, <<"gt", "amp", "nbsp", "quest">>}

\* A code; one that yields another; after a lone ampersand, close and far; after
\* an unknown code that is long or short.
MCTexts == {<<"&", "quest", ";">>, <<"&", "amp", ";", "gt", ";">>, <<"&", "D", "&", "gt", ";">>,
            <<"R&D", "&", "Design", "&", "nbsp", ";">>, <<"&", "copyright", ";", "&", "gt", ";">>,
            <<"&", "x", ";", "&", "nbsp", ";", "&">>}

\* Two names for a key.
MCEnumLines == <<[value |-> "ALFA", index |-> 1], [value |-> "AKA", index |-> 1]>>

\* Lines of a profile: a comment, two of one name, one of each length a text can
\* go wrong with, and one that is too short to be seen.
Export(name, text) == [export |-> TRUE, name |-> name, text |-> text]
MCProfileLines == {[Export("", <<>>) EXCEPT !.export = FALSE],
                   Export("PATH", <<"q", "b", "q">>), Export("PATH", <<"q", "q">>),
                   Export("LANG", <<"q">>), Export("LANG", <<>>), Export("A", <<>>)}
MCProfiles  == UNION {[1..n -> MCProfileLines] : n \in 0..3}
MCEnvValues == {<<"x">>, <<"y">>}
=============================================================================
