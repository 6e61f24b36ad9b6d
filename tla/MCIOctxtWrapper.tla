-------------------------- MODULE MCIOctxtWrapper ---------------------------
(* Small instances of IOctxtWrapper for TLC. *)
EXTENDS IOctxtWrapper

Careful  == [restarts |-> FALSE, handlersCall |-> FALSE, spawnFails |-> FALSE]
\* Programs that restart the context, and of those: some with handlers that call
\* back, some that run out of threads.
MCPrograms == {[Careful EXCEPT !.restarts = TRUE],
               [Careful EXCEPT !.restarts = TRUE, !.handlersCall = TRUE],
               [Careful EXCEPT !.restarts = TRUE, !.spawnFails = TRUE]}
MCCareful  == {Careful}
=============================================================================
