---------------------------- MODULE MCObservable ----------------------------
(* Small instances of Observable for TLC. *)
EXTENDS Observable

CONSTANTS t1, t2, o1, o2

MCThreads   == {t1, t2}
MCObservers == {o1, o2}
MCValues    == {0, 1}
=============================================================================
