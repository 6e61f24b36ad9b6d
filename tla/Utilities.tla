----------------------------- MODULE Utilities ------------------------------
(***************************************************************************)
(* A program that uses one of the parts of the library that stand alone,   *)
(* in any way this part allows: it keeps a date, a time or a timespec,     *)
(* encodes bytes, converts numbers, joins items, prepares a Child, or has  *)
(* threads that convert texts or look up the names of an enumeration.      *)
(***************************************************************************)
EXTENDS NaiveDate, NaiveTime, Timespec, Base64, Roman, Tokens, Entities, CoolEnum, ChildEnv

CONSTANT Against   \* the dates and times that the kept one is compared with

\* They are valid: a comparison with any other throws.
ASSUME UtilitiesAssumption ==
    /\ \A d \in Against.dates : d \in [year : 0..MaxYear, month : 0..255, day : 0..255] /\ valid(d)
    /\ \A t \in Against.times : t \in [hour : 0..255, min : 0..255] /\ validTime(t)

VARIABLE used      \* which of the parts it is

utilityVars == <<date, time, ts, bytes, number, items, entityVars, enumVars, childEnvVars, used>>

UtilitiesInit == /\ used \in {"date", "time", "timespec", "bytes", "number", "items", "entities", "enum", "child"}
                 /\ DateInit /\ TimeInit /\ TimespecInit /\ Base64Init /\ RomanInit /\ TokensInit
                 /\ EntitiesInit /\ EnumInit /\ ChildEnvInit
                 /\ used # "entities" => order = CHOOSE o \in Orders : TRUE
                 /\ used # "child" => profile = <<>>

UtilitiesNext == /\ used' = used
                 /\ IF used = "date"     THEN DateNext     ELSE UNCHANGED date
                 /\ IF used = "time"     THEN TimeNext     ELSE UNCHANGED time
                 /\ IF used = "timespec" THEN TimespecNext ELSE UNCHANGED ts
                 /\ IF used = "bytes"    THEN MoreBytes    ELSE UNCHANGED bytes
                 /\ IF used = "number"   THEN ToRoman      ELSE UNCHANGED number
                 /\ IF used = "items"    THEN MoreItems    ELSE UNCHANGED items
                 /\ IF used = "entities" THEN EntitiesNext ELSE UNCHANGED entityVars
                 /\ IF used = "enum"     THEN EnumNext     ELSE UNCHANGED enumVars
                 /\ IF used = "child"    THEN ChildEnvNext ELSE UNCHANGED childEnvVars

UtilitiesSpec == UtilitiesInit /\ [][UtilitiesNext]_utilityVars

-----------------------------------------------------------------------------
(* Properties *)

\* Fields keep their ranges or are unset; nanoseconds stay below a second, also
\* when sums carry and differences borrow.
UtilitiesTypeOK == /\ DateTypeOK /\ TimeTypeOK /\ TimespecTypeOK
                   /\ EntitiesTypeOK /\ EnumTypeOK /\ ChildEnvTypeOK

Day(d)    == DayNumber(d.year, d.month, d.day)
Minute(t) == t.hour * 60 + t.min
Nano(t)   == t.sec * Second + t.nsec

\* a and b compare like the numbers m and n: <, <= and = say so.
Agree(m, n, less, atMost, equal) == (less <=> m < n) /\ (atMost <=> m <= n) /\ (equal <=> m = n)

\* A date counts days, a time minutes, a timespec nanoseconds: comparisons, sums
\* and differences are those of the numbers, and a sum of minutes throws exactly
\* if it is past midnight.  (Of timespecs <, <= and = do: the other three comparisons
\* are wrong, see Complement.)  A Roman numeral has the value of its number, and a
\* date the weekday of its day, in the zones of OwnWeekday.
AsNumbers ==
    /\ valid(date) => \A d \in Against.dates :
          Agree(Day(date), Day(d), Earlier(date, d), NotLater(date, d), SameDate(date, d))
    /\ validTime(time) =>
          /\ \A t \in Against.times :
                /\ Agree(Minute(time), Minute(t), Before(time, t), NotAfter(time, t), SameTime(time, t))
                /\ TimeMinus(time, t) = Minute(time) - Minute(t)
          /\ \A n \in Amounts : IF Minute(time) + n >= 1440 THEN TimePlus(time, n) = NoTime
                                ELSE Minute(TimePlus(time, n)) = Minute(time) + n
    /\ used = "timespec" => \A t \in Timespecs :
          /\ Agree(Nano(ts), Nano(t), Less(ts, t), AtMost(ts, t), Equal(ts, t))
          /\ Nano(Added(ts, t)) = Nano(ts) + Nano(t)
          /\ Nano(Subtracted(ts, t)) = Nano(ts) - Nano(t)
    /\ RomanIsNumber
    /\ OwnWeekday

\* What is written is read back.  Of dates with a year of four digits, that of one
\* in the calendar gives the same date, and that of one that is not, which the setters
\* can put together, is refused: "@throws std::invalid_argument When the date was not
\* parsable or invalid" (NaiveDate.hpp:99).  This is not stated of 31 May, a valid date
\* that the code takes for none.  Times are read back, Base64 texts as well, also
\* broken into lines or cut, and so are joined items.
ReadBack ==
    /\ Initialized(date) /\ date.year <= 9999 /\ ~(date.month = 5 /\ date.day = 31) =>
          ReadDate(WriteDate(date)) = IF Exists(date) THEN date ELSE Unset
    /\ validTime(time) => ReadTime(WriteTime(time)) = time
    /\ Base64ReadBack /\ JoinedReadBack

\* What is computed once, at the first use, is right for every later one: codes
\* are replaced, names and keys found, and variables passed on, whatever is called
\* after the first call.  What a first call that overlapped another, ran out of
\* memory or threw can leave behind for ever is bounded.
FirstUseHolds == CodesReplaced /\ NamesAndKeys /\ EnvironmentComplete
=============================================================================
