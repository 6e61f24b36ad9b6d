---------------------------- MODULE MCSemaphore ----------------------------
(* Small instances of Semaphore for TLC. *)
EXTENDS Semaphore

CONSTANTS t1, t2, t3

MCThreads     == {t1, t2, t3}
MCTwoThreads  == {t1, t2}

\* The counter starts empty, with one permit, or one below its wrap-around.
MCInitCounts  == {0, 1, Modulus - 1}
=============================================================================
