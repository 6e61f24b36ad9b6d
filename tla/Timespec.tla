------------------------------ MODULE Timespec ------------------------------
(***************************************************************************)
(* The operators for struct timespec (src/timespecops.cpp): comparisons,   *)
(* subtraction and addition of seconds and nanoseconds.                    *)
(***************************************************************************)
EXTENDS Integers

CONSTANTS Second,      \* the nanoseconds of a second
          Timespecs,   \* the values the program gets from its clocks
          MaxSeconds   \* bound: the sums and differences that are gone on with

ASSUME TimespecAssumption ==
    /\ Second \in Nat \ {0} /\ MaxSeconds \in Nat
    /\ Timespecs \subseteq [sec : Int, nsec : 0..(Second - 1)]

VARIABLE ts   \* a struct timespec

Less(a, b)   == a.sec < b.sec \/ (a.sec = b.sec /\ a.nsec < b.nsec)
Equal(a, b)  == a.sec = b.sec /\ a.nsec = b.nsec
AtMost(a, b) == Equal(a, b) \/ Less(a, b)

\* ~ of a bool, which is an int by then, and true again if it is not 0: these three
\* are true of any two times.  Nothing that could be stated of them as comparisons
\* holds, so that no property mentions them.
Complement(b) == (IF b THEN -2 ELSE -1) # 0

Greater(a, b)   == Complement(AtMost(a, b))
AtLeast(a, b)   == Complement(Less(a, b))
Different(a, b) == Complement(Equal(a, b))

\* Mutant of Subtracted: nothing is borrowed from the seconds.
SubtractedUnborrowed(a, b) ==
    IF a.nsec < b.nsec THEN [sec |-> a.sec - b.sec, nsec |-> a.nsec + Second - b.nsec]
    ELSE [sec |-> a.sec - b.sec, nsec |-> a.nsec - b.nsec]

\* operator-=
Subtracted(a, b) ==
    IF a.nsec < b.nsec THEN [sec |-> a.sec - b.sec - 1, nsec |-> a.nsec + Second - b.nsec]
    ELSE [sec |-> a.sec - b.sec, nsec |-> a.nsec - b.nsec]

\* Mutant of Added: a full second of nanoseconds is not carried.
AddedCarriesLate(a, b) ==
    LET nsec == a.nsec + b.nsec
    IN  IF nsec > Second THEN [sec |-> a.sec + b.sec + 1, nsec |-> nsec - Second]
        ELSE [sec |-> a.sec + b.sec, nsec |-> nsec]

\* operator+
Added(a, b) == LET nsec == a.nsec + b.nsec
               IN  IF nsec >= Second THEN [sec |-> a.sec + b.sec + 1, nsec |-> nsec - Second]
                   ELSE [sec |-> a.sec + b.sec, nsec |-> nsec]

-----------------------------------------------------------------------------
TimespecInit == ts = [sec |-> 0, nsec |-> 0]

Bounded(t) == t.sec \in -MaxSeconds..MaxSeconds

ReadClock  == ts' \in Timespecs
Advance(t) == ts' = Added(ts, t)
GoBack(t)  == ts' = Subtracted(ts, t)

TimespecNext == /\ \/ ReadClock
                   \/ \E t \in Timespecs : Advance(t) \/ GoBack(t)
                /\ Bounded(ts')

TimespecTypeOK == ts \in [sec : Int, nsec : 0..(Second - 1)]
=============================================================================
