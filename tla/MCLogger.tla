------------------------------ MODULE MCLogger ------------------------------
(* Small instances of Logger for TLC. *)
EXTENDS Logger

CONSTANTS t1, t2

MCPriorities == {error}
MCAllLevels  == {debug}
MCMaxLevels  == {none, debug}
=============================================================================
