------------------------------- MODULE MCChild ------------------------------
(* Small instances of Child for TLC: surroundings in which one thing fails, *)
(* and a logger that has a destination or, where that matters, none.        *)
EXTENDS Child

Kind(f, e, s, l) == [forkFails |-> f, execFails |-> e, signals |-> s, logs |-> l]
MCPrograms == {Kind(TRUE, FALSE, FALSE, TRUE)}
                 \cup {Kind(FALSE, TRUE, FALSE, l) : l \in BOOLEAN} \cup {Kind(FALSE, FALSE, TRUE, l) : l \in BOOLEAN}
=============================================================================
