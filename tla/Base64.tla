------------------------------- MODULE Base64 -------------------------------
(***************************************************************************)
(* Fs2a::base64encode() and base64decode() (hdr/fs2a/Base64.hpp).  A text  *)
(* is a sequence of characters: a letter of the alphabet is the sextet it  *)
(* stands for.                                                             *)
(***************************************************************************)
EXTENDS Integers, SequencesExt

CONSTANTS Bytes,      \* the bytes that the program's data are made of
          MaxBytes    \* bound: the length of its data

ASSUME Base64Assumption == Bytes \subseteq 0..255 /\ MaxBytes \in Nat

VARIABLE bytes   \* the program's data

Pad     == 64   \* the equal sign
Skipped == 65   \* an end of line, or a backslash
Foreign == 66   \* any other character; the decoder takes a NUL for one too

ThrownData == <<-1>>   \* no data: an exception

\* The four characters for the bytes i + 1 to i + 3 of d, the last of which may
\* not be there.
Quad(d, i) ==
    LET byte(k) == IF i + k <= Len(d) THEN d[i + k] ELSE 0
    IN  <<byte(1) \div 4,
          (byte(1) % 4) * 16 + (byte(2) \div 16),
          IF i + 2 <= Len(d) THEN (byte(2) % 16) * 4 + (byte(3) \div 64) ELSE Pad,
          IF i + 3 <= Len(d) THEN byte(3) % 64 ELSE Pad>>

base64encode(d) == FlattenSeq([q \in 1..((Len(d) + 2) \div 3) |-> Quad(d, 3 * (q - 1))])

\* A sextet v completes the byte s.b, unless it is the first of four, and begins
\* the next one.
Sextet(s, v) ==
    [s EXCEPT !.data = IF s.offset = 0 THEN @ ELSE Append(@, s.b + (v \div 4^(3 - s.offset))),
              !.b = (v * 4^(s.offset + 1)) % 256,
              !.offset = (@ + 1) % 4]

\* One turn of the loop.  An equal sign that may stand where it does ends it.
Decode(s, c) ==
    CASE s.end # "none" \/ c = Skipped -> s
      [] s.end = "none" /\ c = Pad     -> [s EXCEPT !.end = IF s.offset < 2 THEN "throw" ELSE "return"]
      [] s.end = "none" /\ c = Foreign -> [s EXCEPT !.end = "throw"]
      [] s.end = "none" /\ c < Pad     -> Sextet(s, c)

base64decode(t) ==
    LET s == FoldLeft(Decode, [data |-> <<>>, b |-> 0, offset |-> 0, end |-> "none"], t)
    IN  IF s.end = "throw" THEN ThrownData ELSE s.data

-----------------------------------------------------------------------------
Base64Init == bytes = <<>>

\* The program has another byte, or other data.
MoreBytes == \/ Len(bytes) < MaxBytes /\ \E b \in Bytes : bytes' = Append(bytes, b)
             \/ bytes' = <<>>

-----------------------------------------------------------------------------
\* What base64encode() writes base64decode() reads: also with line ends and
\* backslashes anywhere, also without the equal signs at its end.  Cut anywhere,
\* it still has the bytes that were complete by then ("this assures we always
\* have the latest and complete data vector"); and a foreign character throws
\* unless an equal sign is before it.
Base64ReadBack ==
    LET t == base64encode(bytes)
        sextets(i) == Len(SelectSeq(SubSeq(t, 1, i), LAMBDA c : c # Pad))
    IN  /\ base64decode(t) = bytes
        /\ \A i \in 0..Len(t) :
              /\ base64decode(InsertAt(t, i + 1, Skipped)) = bytes
              /\ base64decode(SubSeq(t, 1, i)) = SubSeq(bytes, 1, (3 * sextets(i)) \div 4)
              /\ base64decode(InsertAt(t, i + 1, Foreign))
                    = IF i > 0 /\ t[i] = Pad THEN bytes ELSE ThrownData
=============================================================================
