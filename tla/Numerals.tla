------------------------------ MODULE Numerals ------------------------------
(***************************************************************************)
(* Numbers in texts, as the classes for dates and times write and read     *)
(* them: fmt::format("{:04d}") and std::stoi.  A character is the digit it *)
(* is, or one of the numbers that stand for the other characters.          *)
(***************************************************************************)
EXTENDS Integers, SequencesExt

Dash   == 10
Colon  == 11
Lead   == 12    \* a sign that std::stoi accepts, or a blank
Letter == 13    \* any other character

Digit == 0..9
Character == 0..Letter
NoNumber == -1  \* std::stoi throws, or returns a number below zero

\* "{:0wd}": as many digits as the number has, but at least w.
Padded(n, w) == LET digits == CHOOSE k \in w..(w + 5) : n < 10^k /\ (k = w \/ n >= 10^(k - 1))
                IN  [i \in 1..digits |-> (n \div 10^(digits - i)) % 10]

\* std::stoi: the digits the text begins with, behind a sign; the rest is ignored.
Stoi(s) == LET t == IF s # <<>> /\ Head(s) = Lead THEN Tail(s) ELSE s
               stop == SelectInSeq(t, LAMBDA c : c \notin Digit)
               digits == IF stop = 0 THEN t ELSE SubSeq(t, 1, stop - 1)
           IN  IF digits = <<>> THEN NoNumber ELSE FoldLeft(LAMBDA n, c : 10 * n + c, 0, digits)
=============================================================================
