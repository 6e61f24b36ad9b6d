------------------------------ MODULE CoolEnum ------------------------------
(***************************************************************************)
(* The two functions that COOLENUM_BEGIN ... COOLENUM_END (hdr/fs2a/       *)
(* CoolEnum.cpp.hpp) make for an enumeration, called by several threads:   *)
(* the name of a key and the key of a name, from two maps that the first   *)
(* look-up fills, without a lock.                                          *)
(***************************************************************************)
EXTENDS Integers, Sequences

CONSTANTS Seekers,   \* the threads
          EnumLines,   \* the COOLENUM lines: a sequence of [value |-> name, index |-> key]
          EnumKeys,    \* the keys that are looked up
          EnumNames    \* the names that are looked up

ASSUME CoolEnumAssumption == EnumLines # <<>> /\ EnumLines \in Seq([value : EnumNames, index : EnumKeys])

VARIABLES k2s, s2k,   \* the maps
          seek,       \* the look-up a thread is in, or was in last
          filled      \* (history) how the maps are filled: "well", "partly" if memory ran
                      \* out meanwhile, "raced" if two threads used them meanwhile

enumVars == <<k2s, s2k, seek, filled>>

Nothing  == [x \in {} |-> x]
Unnamed  == ""                              \* a std::string as it is constructed
NotFound == [thrown |-> "out_of_range"]
NoMemory == [thrown |-> "bad_alloc"]

Asked   == [key : EnumKeys] \cup [name : EnumNames]
Answers == Asked \cup {[name |-> Unnamed], NotFound, NoMemory}

AskedKey(q) == "key" \in DOMAIN q

InPlace(t, place)   == seek[t].at = place
Fills(t)            == seek[t].at \in {"k2s", "s2k"}
Line(t)             == EnumLines[seek[t].i]
GoesTo(t, place)    == seek' = [seek EXCEPT ![t].at = place]
Answered(t, answer) == seek' = [seek EXCEPT ![t] = [@ EXCEPT !.at = "idle", !.i = 1, !.got = answer]]

\* m[x] = y
With(m, x, y) == [z \in {x} \cup DOMAIN m |-> IF z = x THEN y ELSE m[z]]

\* A map that another thread is filling is used: from then on anything may be.
UsesMaps(t) == filled' = IF \E u \in Seekers \ {t} : Fills(u) THEN "raced" ELSE filled

EnumInit == /\ k2s = Nothing /\ s2k = Nothing /\ filled = "well"
            /\ seek = [t \in Seekers |-> [at |-> "new", i |-> 1, asked |-> CHOOSE q \in Asked : TRUE, got |-> NotFound]]

\* NAME_(key), NAME_(name)
LookUp(t) == /\ InPlace(t, "new") \/ InPlace(t, "idle")
             /\ \E q \in Asked : seek' = [seek EXCEPT ![t] = [@ EXCEPT !.at = "test", !.asked = q, !.got = NotFound]]
             /\ UNCHANGED <<k2s, s2k, filled>>

TestEmpty(t) == /\ InPlace(t, "test") /\ UsesMaps(t)
                /\ GoesTo(t, IF k2s = Nothing THEN "k2s" ELSE "find")
                /\ UNCHANGED <<k2s, s2k>>

\* (*k2s)[INDEX] = #VALUE
FillK2s(t) == /\ InPlace(t, "k2s") /\ UsesMaps(t)
              /\ k2s' = With(k2s, Line(t).index, Line(t).value)
              /\ GoesTo(t, "s2k")
              /\ UNCHANGED s2k

\* (*s2k)[#VALUE] = INDEX
FillS2k(t) == /\ InPlace(t, "s2k") /\ UsesMaps(t)
              /\ s2k' = With(s2k, Line(t).value, Line(t).index)
              /\ seek' = [seek EXCEPT ![t] = IF seek[t].i < Len(EnumLines) THEN [@ EXCEPT !.at = "k2s", !.i = seek[t].i + 1]
                                                                      ELSE [@ EXCEPT !.at = "find"]]
              /\ UNCHANGED k2s

\* Memory runs out, for an element of a map or for the name in it.  Nobody will
\* fill maps that are not empty.
FillFails(t) == /\ Fills(t)
                /\ \/ UNCHANGED k2s
                   \/ InPlace(t, "k2s") /\ k2s' = With(k2s, Line(t).index, Unnamed)
                /\ filled' = IF filled = "well" /\ k2s' # Nothing THEN "partly" ELSE filled
                /\ Answered(t, NoMemory)
                /\ UNCHANGED s2k

Find(t) ==
    LET q     == seek[t].asked
        found == IF AskedKey(q) THEN IF q.key \in DOMAIN k2s THEN [name |-> k2s[q.key]] ELSE NotFound
                                ELSE IF q.name \in DOMAIN s2k THEN [key |-> s2k[q.name]] ELSE NotFound
    IN  /\ InPlace(t, "find") /\ UsesMaps(t)
        /\ \E answer \in IF filled' = "raced" THEN Answers ELSE {found} : Answered(t, answer)
        /\ UNCHANGED <<k2s, s2k>>

EnumNext == \E t \in Seekers : \/ LookUp(t) \/ TestEmpty(t) \/ FillK2s(t) \/ FillS2k(t)
                               \/ FillFails(t) \/ Find(t)

-----------------------------------------------------------------------------
EnumTypeOK == /\ DOMAIN k2s \subseteq EnumKeys /\ DOMAIN s2k \subseteq EnumNames
              /\ \A k \in DOMAIN k2s : k2s[k] \in EnumNames \cup {Unnamed}
              /\ \A n \in DOMAIN s2k : s2k[n] \in EnumKeys
              /\ filled \in {"well", "partly", "raced"}
              /\ seek \in [Seekers -> [at : {"new", "idle", "test", "k2s", "s2k", "find"}, i : DOMAIN EnumLines,
                                       asked : Asked, got : Answers]]

\* What the enumeration says: the line with the name, the last line with the key.
Says(q) == {i \in DOMAIN EnumLines : IF AskedKey(q) THEN EnumLines[i].index = q.key ELSE EnumLines[i].value = q.name}
Said(q, i) == IF AskedKey(q) THEN [name |-> EnumLines[i].value] ELSE [key |-> EnumLines[i].index]
Right(q) == IF Says(q) = {} THEN NotFound ELSE Said(q, CHOOSE i \in Says(q) : \A j \in Says(q) : j <= i)

\* Every look-up gives what the enumeration says, or an exception if memory runs
\* out, provided that no thread looks up while another is at the first look-up.
\* If memory ran out during that one, later look-ups never give the name of
\* another key or the key of another name, but may find none, or an empty name.
RightAnswer(t) ==
    InPlace(t, "idle") =>
        LET q   == seek[t].asked
            got == seek[t].got
        IN  CASE filled = "well"   -> got \in {Right(q), NoMemory}
              [] filled = "partly" -> got \in {Said(q, i) : i \in Says(q)} \cup {NotFound, NoMemory, [name |-> Unnamed]}
              [] filled = "raced"  -> TRUE
NamesAndKeys == \A t \in Seekers : RightAnswer(t)
=============================================================================
