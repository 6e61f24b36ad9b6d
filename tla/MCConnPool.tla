----------------------------- MODULE MCConnPool -----------------------------
(* A small instance of ConnPool for TLC. *)
EXTENDS ConnPool, TLC

CONSTANTS c1, c2, db

MCConns  == {c1, c2}
MCParams == {AllParams, db}

\* Connections are only compared; threads, the keys of a pool, have an order.
Interchangeable == Permutations(MCConns)
=============================================================================
