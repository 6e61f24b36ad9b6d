---------------------------- MODULE MCSingleton -----------------------------
(* Small instances of Singleton for TLC: an application object that logs in *)
(* its constructor and destructor, and the logger.                          *)
EXTENDS Singleton

MCClasses == {"app", "logger"}
\* One that leaves everything to exit(), and the two that do not.
MCPrograms == {[closes |-> FALSE, joins |-> TRUE], [closes |-> TRUE, joins |-> TRUE],
               [closes |-> TRUE, joins |-> FALSE]}

MCUses    == [c \in MCClasses |-> IF c = "app" THEN {"logger"} ELSE {}]
=============================================================================
