----------------------------- MODULE NaiveTime ------------------------------
(***************************************************************************)
(* Fs2a::NaiveTime (src/NaiveTime.cpp): an hour and a minute, each unset   *)
(* until it is given.  A call that throws changes nothing.                 *)
(***************************************************************************)
EXTENDS Numerals

CONSTANTS Hours, Minutes,   \* what the program passes to the setters
          TimeTexts,        \* the texts it assigns to a time
          Amounts           \* the minutes it adds

MaxAmount == 65535   \* of a uint16_t

ASSUME NaiveTimeAssumption ==
    /\ TimeTexts \subseteq Seq(Character)
    /\ Hours \subseteq 0..255 /\ Minutes \subseteq 0..255 /\ Amounts \subseteq 0..MaxAmount

VARIABLE time   \* hour_ and min_

NoTime == [hour |-> 255, min |-> 255]
validTime(t) == t.hour <= 23 /\ t.min <= 59

\* operator std::string
WriteTime(t) == Padded(t.hour, 2) \o <<Colon>> \o Padded(t.min, 2)

\* The regular expression: one or two digits, a colon, one or two digits.
Matches(s, colon) ==
    LET h == SubSeq(s, 1, colon - 1)
        m == SubSeq(s, colon + 1, Len(s))
    IN  /\ s[colon] = Colon
        /\ Len(h) \in {1, 2} /\ ToSet(h) \subseteq Digit /\ (Len(h) = 2 => h[1] <= 2)
        /\ Len(m) \in {1, 2} /\ ToSet(m) \subseteq Digit /\ (Len(m) = 2 => m[1] <= 5)

\* operator=(text): NoTime if it throws.
ReadTime(s) ==
    LET times == {[hour |-> Stoi(SubSeq(s, 1, i - 1)), min |-> Stoi(SubSeq(s, i + 1, Len(s)))] :
                     i \in {j \in DOMAIN s : Matches(s, j)}}
    IN  IF Len(s) \in 3..5 /\ \E t \in times : validTime(t)
        THEN CHOOSE t \in times : validTime(t) ELSE NoTime

\* operator-
TimeMinus(a, b) == (a.hour * 60 + a.min) - (b.hour * 60 + b.min)

\* operator+=: NoTime if it throws.
TimePlus(t, n) == LET sum == t.hour * 60 + t.min + n
                  IN  IF (sum \div 60) > 23 THEN NoTime
                      ELSE [hour |-> sum \div 60, min |-> sum % 60]

\* The comparisons
Before(a, b)   == a.hour < b.hour \/ (a.hour = b.hour /\ a.min < b.min)
NotAfter(a, b) == a.hour < b.hour \/ (a.hour = b.hour /\ a.min <= b.min)
SameTime(a, b) == a.hour = b.hour /\ a.min = b.min

-----------------------------------------------------------------------------
TimeInit == time = NoTime

SetHour(h)   == h <= 23 /\ time' = [time EXCEPT !.hour = h]
SetMinute(m) == m <= 59 /\ time' = [time EXCEPT !.min = m]
AssignTime(s) == ReadTime(s) # NoTime /\ time' = ReadTime(s)
Add(n)       == validTime(time) /\ TimePlus(time, n) # NoTime /\ time' = TimePlus(time, n)
ResetTime    == time' = NoTime

TimeNext == \/ \E h \in Hours : SetHour(h)
            \/ \E m \in Minutes : SetMinute(m)
            \/ \E s \in TimeTexts : AssignTime(s)
            \/ \E n \in Amounts : Add(n)
            \/ ResetTime

TimeTypeOK == time \in [hour : 0..23 \cup {255}, min : 0..59 \cup {255}]
=============================================================================
