------------------------------ MODULE Entities ------------------------------
(***************************************************************************)
(* Fs2a::htmlCharEntRefCodes2ascii() (src/functions.cpp), called by        *)
(* several threads.  The length of the longest code is a static variable   *)
(* that the first call computes, without a lock.  A text is a sequence of  *)
(* words: the name of a code is one, an ampersand and a semicolon are, and *)
(* so is what is between them.                                             *)
(***************************************************************************)
EXTENDS Integers, SequencesExt, FiniteSetsExt

CONSTANTS Callers,   \* the threads
          hcerc2asc, \* the codes, and what each is replaced by
          Orders,    \* the sequences in which an iteration may go through them
          HtmlTexts  \* the texts that are converted

Codes == DOMAIN hcerc2asc

ASSUME EntitiesAssumption ==
    /\ Codes # {} /\ hcerc2asc \in [Codes -> STRING]
    /\ \A c \in Codes : Len(c) \in Nat \ {0} /\ c \notin {"&", ";"}
    /\ Orders \subseteq Seq(Codes) /\ \A o \in Orders : ToSet(o) = Codes
    /\ HtmlTexts \subseteq Seq(STRING) /\ \A s \in HtmlTexts : \A i \in DOMAIN s : Len(s[i]) \in Nat

VARIABLES maxlen,   \* the static variable
          order,    \* how hcerc2asc is laid out
          conv,     \* the call a thread is in, or was in last
          alone     \* (history) has no call met one that is at computing maxlen?

entityVars == <<maxlen, order, conv, alone>>

\* A call: where it is, the code it looks at, its parameter, its rv and amp.
NotCalling(t) == conv[t].at = "idle"

EntitiesInit ==
    /\ maxlen = 0 /\ order \in Orders /\ alone = TRUE
    /\ conv = [t \in Callers |-> [at |-> "idle", i |-> 1, text |-> <<>>, rv |-> <<>>, amp |-> 1]]

Convert(t) ==
    /\ NotCalling(t)
    /\ \E s \in HtmlTexts : conv' = [conv EXCEPT ![t] = [at |-> "test", i |-> 1, text |-> s, rv |-> s, amp |-> 1]]
    /\ UNCHANGED <<maxlen, order, alone>>

\* Mutant of TestMaxlen: it takes the longest code for known.
TestMaxlenNot(t) ==
    /\ conv[t].at = "test"
    /\ conv' = [conv EXCEPT ![t].at = "replace"]
    /\ UNCHANGED <<maxlen, order, alone>>

\* if (maxlen == 0)
TestMaxlen(t) ==
    /\ conv[t].at = "test"
    /\ conv' = [conv EXCEPT ![t].at = IF maxlen = 0 THEN "compare" ELSE "replace"]
    /\ alone' = (alone /\ \A u \in Callers \ {t} : conv[u].at \notin {"compare", "assign"})
    /\ UNCHANGED <<maxlen, order>>

\* To the next code of the iteration, if there is one.
NextCode(t) ==
    conv' = [conv EXCEPT ![t] = [@ EXCEPT !.at = IF conv[t].i = Len(order) THEN "replace" ELSE "compare", !.i = conv[t].i + 1]]

\* if (p.first.size() > maxlen) maxlen = p.first.size(), read and written apart
Compare(t) == /\ conv[t].at = "compare"
              /\ IF Len(order[conv[t].i]) > maxlen THEN conv' = [conv EXCEPT ![t].at = "assign"]
                                                   ELSE NextCode(t)
              /\ UNCHANGED <<maxlen, order, alone>>

AssignMaxlen(t) == /\ conv[t].at = "assign"
             /\ maxlen' = Len(order[conv[t].i])
             /\ NextCode(t)
             /\ UNCHANGED <<order, alone>>

Size(words)     == FoldLeft(LAMBDA n, w : n + Len(w), 0, words)
Places(s, w, i) == {j \in i..Len(s) : s[j] = w}

\* One turn of the loop: the next ampersand, and the first semicolon behind it.
\* Without either, the call returns.
Replace(t) ==
    LET s    == conv[t].rv
        amps == Places(s, "&", conv[t].amp)
        amp  == Min(amps)
        sc   == Min(Places(s, ";", amp))
        code == SubSeq(s, amp + 1, sc - 1)
        To(rv, i) == conv' = [conv EXCEPT ![t] = [@ EXCEPT !.rv = rv, !.amp = i]]
    IN  /\ conv[t].at = "replace"
        /\ IF amps = {} \/ Places(s, ";", amp) = {} THEN conv' = [conv EXCEPT ![t].at = "idle"]
           ELSE IF Size(code) > maxlen THEN To(s, amp + 1)
           ELSE IF \A c \in Codes : code # <<c>> THEN To(s, sc + 1)
           ELSE To(SubSeq(s, 1, amp - 1) \o <<hcerc2asc[code[1]]>> \o SubSeq(s, sc + 1, Len(s)), amp + 1)
        /\ UNCHANGED <<maxlen, order, alone>>

EntitiesNext == \E t \in Callers : \/ Convert(t) \/ TestMaxlen(t) \/ Compare(t) \/ AssignMaxlen(t) \/ Replace(t)

-----------------------------------------------------------------------------
EntitiesTypeOK == /\ maxlen \in {0} \cup {Len(c) : c \in Codes} /\ order \in Orders /\ alone \in BOOLEAN
                  /\ \A t \in Callers : /\ conv[t].at \in {"idle", "test", "compare", "assign", "replace"}
                                        /\ conv[t].text \in HtmlTexts \cup {<<>>}
                                        /\ conv[t].i \in 1..(Len(order) + 1)
                                        /\ conv[t].amp \in 1..(Len(conv[t].rv) + 1)

\* The places of s with a code, and s with the codes at some of them replaced.
CodesAt(s) == {i \in 1..(Len(s) - 2) : s[i] = "&" /\ s[i + 1] \in Codes /\ s[i + 2] = ";"}
Plain(s, R) == FlattenSeq([i \in DOMAIN s |->
    CASE i \in R                      -> <<hcerc2asc[s[i + 1]]>>
      [] i - 1 \in R \/ i - 2 \in R   -> <<>>
      [] OTHER                        -> <<s[i]>>])

\* A code is hidden by an ampersand so close before it that the code could be the
\* end of a longest one.
Hidden(s, i) == \E j \in Places(s, "&", 1) : /\ j < i /\ Places(SubSeq(s, j, i), ";", 1) = {}
                                             /\ Size(SubSeq(s, j + 1, i + 1)) <= Max({Len(c) : c \in Codes})

\* All codes but hidden ones are replaced, and what that yields is not taken for a
\* code again: once a first call has returned before another began.  Calls that
\* overlapped the first one's loop may leave codes as they are, these and all that
\* follow (two loops can leave a maxlen that is too small for ever), but nothing
\* else happens to a text.
CodesReplaced ==
    \A t \in Callers : NotCalling(t) =>
        LET s == conv[t].text
        IN  IF alone THEN conv[t].rv = Plain(s, {i \in CodesAt(s) : ~Hidden(s, i)})
            ELSE \E R \in SUBSET CodesAt(s) : conv[t].rv = Plain(s, R)
=============================================================================
