----------------------------- MODULE NaiveDate ------------------------------
(***************************************************************************)
(* Fs2a::NaiveDate (src/NaiveDate.cpp): a year, a month and a day that are *)
(* set one by one or read from a text, and may well be no date together.   *)
(* A call that throws changes nothing.                                     *)
(***************************************************************************)
EXTENDS Numerals

CONSTANTS Years, Months, Days,  \* what the program passes to the setters
          DateTexts,            \* the texts it has read as dates
          Zones                 \* the offsets of local time, in minutes east of UTC

MaxYear   == 65535       \* of a uint16_t

ASSUME NaiveDateAssumption ==
    /\ DateTexts \subseteq Seq(Character)
    /\ Years \subseteq 0..MaxYear /\ Months \subseteq 0..255 /\ Days \subseteq 0..255
    /\ Zones \subseteq -720..840

VARIABLE date   \* year_, month_ and day_

Unset == [year |-> 0, month |-> 0, day |-> 0]
Initialized(d) == d.year # 0 /\ d.month # 0 /\ d.day # 0

leap(y) == y % 400 = 0 \/ (y % 100 # 0 /\ y % 4 = 0)

\* Mutant of days: the rule of the Julian calendar.
daysJulian(y, m) ==
    CASE m = 2 -> IF y % 4 = 0 THEN 29 ELSE 28
      [] m \in {4, 5, 6, 9, 11} -> 30
      [] OTHER -> 31

\* May has 30 days here, as in the code (of which nothing is stated: its 31st is
\* excepted wherever a property is about dates that exist).
days(y, m) == CASE m = 2 -> IF leap(y) THEN 29 ELSE 28
                [] m \in {4, 5, 6, 9, 11} -> 30
                [] OTHER -> 31

valid(d) == d.year >= 1900 /\ d.month \in 1..12 /\ d.day # 0 /\ d.day <= days(d.year, d.month)

\* iso8601(), of an initialized date
WriteDate(d) == Padded(d.year, 4) \o <<Dash>> \o Padded(d.month, 2) \o <<Dash>> \o Padded(d.day, 2)

\* iso8601(text): what stands in three places of ten characters, or Unset if it throws.
ReadDate(s) ==
    LET d == [year |-> Stoi(SubSeq(s, 1, 4)), month |-> Stoi(SubSeq(s, 6, 7)), day |-> Stoi(SubSeq(s, 9, 10))]
    IN  IF Len(s) = 10 /\ d.day \in 1..31 /\ valid(d) THEN d ELSE Unset

\* The comparisons, which throw unless both dates are valid
Earlier(a, b) == \/ a.year < b.year
                 \/ a.year = b.year /\ a.month < b.month
                 \/ a.year = b.year /\ a.month = b.month /\ a.day < b.day
NotLater(a, b) == \/ a.year < b.year
                  \/ a.year = b.year /\ a.month < b.month
                  \/ a.year = b.year /\ a.month = b.month /\ a.day <= b.day
SameDate(a, b) == a.year = b.year /\ a.month = b.month /\ a.day = b.day

-----------------------------------------------------------------------------
(* The C library: days since 1 January 1970, counting from a year that      *)
(* begins in March, and the weekday of a moment.                            *)

Epoch == 719469   \* the number of that day, counted from 1 March of the year 0

DayNumber(y, m, d) ==
    LET year == IF m <= 2 THEN y - 1 ELSE y
    IN  365 * year + (year \div 4) - (year \div 100) + (year \div 400)
          + ((153 * ((m + 9) % 12) + 2) \div 5) + d - Epoch

\* mktime() of an hour of a date in a zone, and gmtime() of that: a weekday
\* counted from Sunday.
LibraryWeekday(d, hour, zone) ==
    (DayNumber(d.year, d.month, d.day) + ((60 * hour - zone) \div 1440) + 4) % 7

\* It takes the noon of the date for the moment.
weekday(d, zone) == LibraryWeekday(d, 12, zone)

-----------------------------------------------------------------------------
DateInit == date = Unset

SetYear(y)  == y >= 1900 /\ date' = [date EXCEPT !.year = y]
SetMonth(m) == m \in 1..12 /\ date' = [date EXCEPT !.month = m]
SetDay(d)   == d \in 1..31 /\ date' = [date EXCEPT !.day = d]
Read(s)     == ReadDate(s) # Unset /\ date' = ReadDate(s)
Reset       == date' = Unset

\* A reference: a month ends where the next one begins.
MonthLength(y, m) == IF m = 12 THEN DayNumber(y + 1, 1, 1) - DayNumber(y, 12, 1)
                               ELSE DayNumber(y, m + 1, 1) - DayNumber(y, m, 1)
Exists(d) == d.year >= 1900 /\ d.month \in 1..12 /\ d.day \in 1..MonthLength(d.year, d.month)

\* date = NaiveDate::today(): some day of the real calendar
Today == /\ date' \in [year : Years, month : Months, day : Days]
         /\ Exists(date')

DateNext == \/ \E y \in Years : SetYear(y)
            \/ \E m \in Months : SetMonth(m)
            \/ \E d \in Days : SetDay(d)
            \/ \E s \in DateTexts : Read(s)
            \/ Reset \/ Today

-----------------------------------------------------------------------------
DateTypeOK == date \in [year : {0} \cup 1900..MaxYear, month : 0..12, day : 0..31]

\* A reference: Zeller's congruence, in which Saturday is 0.
Zeller(d) == LET early == d.month <= 2
                 y == IF early THEN d.year - 1 ELSE d.year
                 m == IF early THEN d.month + 12 ELSE d.month
             IN  (d.day + ((13 * (m + 1)) \div 5) + y + (y \div 4) - (y \div 100) + (y \div 400)) % 7

\* weekday() is that of the stored date, as long as the C library's local time is
\* less than twelve hours behind UTC and at most twelve ahead, so that local noon is
\* on the same day in UTC.  Nothing is stated of the other zones: there the function
\* gives the weekday of the day after or before, though a date is to have no zone.
OwnWeekday == valid(date) => \A z \in Zones : z \in -719..720 => (weekday(date, z) + 1) % 7 = Zeller(date)
=============================================================================
