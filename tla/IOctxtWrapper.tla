--------------------------- MODULE IOctxtWrapper ----------------------------
(***************************************************************************)
(* Fs2a::IOctxtWrapper (src/IOctxtWrapper.cpp): one boost io_context that  *)
(* is run by the caller (runHere) or by a set of threads (runThreads).     *)
(* All member functions take the recursive mutex mux_; runHere() keeps it  *)
(* while the context runs, stop() while it joins the threads.  The program *)
(* has context(), through which it posts handlers and may restart the      *)
(* context; handlers run on the threads inside io_context::run() and may   *)
(* call back.                                                              *)
(***************************************************************************)
EXTENDS Naturals, SequencesExt, FiniteSetsExt

CONSTANTS Clients,    \* threads of the program
          Workers,    \* what std::thread can be constructed as
          Programs,   \* the kinds of program that are modelled
          MaxQueue,   \* bound: handlers waiting in the context
          NoThread    \* a std::thread that represents no thread

ASSUME IOctxtAssumption ==
    /\ Clients \cap Workers = {} /\ IsFiniteSet(Clients \cup Workers)
    /\ NoThread \notin Clients \cup Workers
    /\ Programs \subseteq [restarts : BOOLEAN, handlersCall : BOOLEAN, spawnFails : BOOLEAN]
    /\ MaxQueue \in Nat

Threads == Clients \cup Workers

VARIABLES stack,     \* stack[t]: the functions t is in, innermost last
          stopped,   \* ioctxt_.stopped()
          queue,     \* how many handlers wait in ioctxt_
          guard,     \* work_ holds a work guard
          pool,      \* threads_
          gone,      \* the destructor has come to its end
          aborted,   \* std::terminate() was called
          wanted,    \* history: what the last stopWhenIdle() of the program asked for
          program    \* does it call restart(), do its handlers call the wrapper,
                     \* can the construction of a thread fail?

io   == <<stopped, queue, guard>>
vars == <<stack, stopped, queue, guard, pool, gone, aborted, wanted, program>>

\* A function: its parameter (a number of threads, "stop when idle", in stop()
\* how many threads are joined), and stop()'s local oldSWI.
Frame == [op : {"runHere", "runThreads", "stop", "stopWhenIdle", "destroy", "run", "handler"},
          at : {"lock", "run", "resize", "start", "idle", "halt", "join", "members",
                "enter", "loop", "body", "unlock"},
          n : Nat, old : BOOLEAN]

Calling(op, n) == [op |-> op, at |-> "lock", n |-> n, old |-> FALSE]
Running        == [op |-> "run", at |-> "enter", n |-> 0, old |-> FALSE]
Handler        == [op |-> "handler", at |-> "body", n |-> 0, old |-> FALSE]

Busy(t) == stack[t] # <<>>
Top(t)  == Last(stack[t])
At(t, op, l) == Busy(t) /\ Top(t).op = op /\ Top(t).at = l

\* t's stack with its innermost function at l; with another one called from there.
Moved(t, l)   == [stack EXCEPT ![t] = Append(Front(@), [Top(t) EXCEPT !.at = l])]
Calls(t, l, f) == [stack EXCEPT ![t] = Front(@) \o <<[Top(t) EXCEPT !.at = l], f>>]
Popped(t)     == [stack EXCEPT ![t] = Front(@)]

\* t owns mux_: a lock_guard of one of its functions is in scope.
Holds(t) == \E i \in DOMAIN stack[t] :
               stack[t][i].op \in {"runHere", "runThreads", "stop", "stopWhenIdle"} /\ stack[t][i].at # "lock"

\* Unfinished work, as the io_context counts it.
InHandler(t) == \E i \in DOMAIN stack[t] : stack[t][i].op = "handler"
Work == queue + Cardinality({t \in Threads : InHandler(t)}) + (IF guard THEN 1 ELSE 0)

-----------------------------------------------------------------------------
Init == /\ stack = [t \in Threads |-> <<>>]
        /\ stopped = FALSE /\ queue = 0 /\ guard = FALSE
        /\ pool = <<>>
        /\ gone = FALSE /\ aborted = FALSE
        /\ wanted = TRUE
        /\ program \in Programs

\* A thread of the program calls a member function, unless one destroys the
\* wrapper.
Call(t) ==
    /\ ~Busy(t)
    /\ \A u \in Clients : Busy(u) => stack[u][1].op # "destroy"
    /\ \E f \in {Calling("runHere", 0), Calling("stop", 0), Calling("stopWhenIdle", 0), Calling("stopWhenIdle", 1)}
                \cup {Calling("runThreads", n) : n \in 0..Cardinality(Workers)} :
          stack' = [stack EXCEPT ![t] = <<f>>]
    /\ UNCHANGED <<io, pool, gone, aborted, wanted>>

\* Mutant of CallDestroy: the destructor does not stop.
DestroyOnly(t) ==
    /\ \A u \in Clients : ~Busy(u)
    /\ stack' = [stack EXCEPT ![t] = <<[Calling("destroy", 0) EXCEPT !.at = "members"]>>]
    /\ UNCHANGED <<io, pool, gone, aborted, wanted>>

\* ~IOctxtWrapper() calls stop(); no other thread of the program is in a call.
CallDestroy(t) ==
    /\ \A u \in Clients : ~Busy(u)
    /\ stack' = [stack EXCEPT ![t] = <<[Calling("destroy", 0) EXCEPT !.at = "members"], Calling("stop", 0)>>]
    /\ UNCHANGED <<io, pool, gone, aborted, wanted>>

\* A handler calls back.  (Bound: one that calls neither runHere() nor runThreads().)
HandlerCalls(t) ==
    /\ At(t, "handler", "body")
    /\ program.handlersCall
    /\ \E f \in {Calling("stop", 0), Calling("stopWhenIdle", 0), Calling("stopWhenIdle", 1)} :
          stack' = [stack EXCEPT ![t] = Append(@, f)]
    /\ UNCHANGED <<io, pool, gone, aborted, wanted>>

\* Mutant of Lock: no lock_guard.
LockNot(t) ==
    /\ Busy(t) /\ Top(t).at = "lock"
    /\ stack' = CASE Top(t).op = "runHere"      -> Calls(t, "run", Calling("stop", 0))
                  [] Top(t).op = "runThreads"   -> Calls(t, "resize", Calling("stop", 0))
                  [] Top(t).op = "stop"         -> Moved(t, "idle")
                  [] Top(t).op = "stopWhenIdle" -> Moved(t, "idle")
    /\ UNCHANGED <<io, pool, gone, aborted, wanted>>

\* std::lock_guard grd(mux_), and the call of stop() that follows in two of them
Lock(t) ==
    /\ Busy(t) /\ Top(t).at = "lock"
    /\ \A u \in Threads \ {t} : ~Holds(u)
    /\ stack' = CASE Top(t).op = "runHere"      -> Calls(t, "run", Calling("stop", 0))
                  [] Top(t).op = "runThreads"   -> Calls(t, "resize", Calling("stop", 0))
                  [] Top(t).op = "stop"         -> Moved(t, "idle")
                  [] Top(t).op = "stopWhenIdle" -> Moved(t, "idle")
    /\ UNCHANGED <<io, pool, gone, aborted, wanted>>

\* work_->reset(); work_.reset(): a context without other work stops.
DropGuard == /\ guard' = FALSE
             /\ stopped' = (stopped \/ (guard /\ Work = 1))

\* stopWhenIdle(n = 1): releasing the guard stops a context without other work.
SetIdle(t) ==
    /\ At(t, "stopWhenIdle", "idle")
    /\ IF Top(t).n = 1 THEN DropGuard ELSE guard' = TRUE /\ stopped' = stopped
    /\ wanted' = (Top(t).n = 1)
    /\ stack' = Popped(t)
    /\ UNCHANGED <<queue, pool, gone, aborted>>

\* Mutant of StopIdle: stop() relies on ioctxt_.stop() alone.
StopNotIdle(t) ==
    /\ At(t, "stop", "idle")
    /\ stack' = [stack EXCEPT ![t] = Append(Front(@), [Top(t) EXCEPT !.at = "halt", !.old = ~guard])]
    /\ UNCHANGED <<io, pool, gone, aborted, wanted>>

\* oldSWI = stopWhenIdle(); if (!oldSWI) stopWhenIdle(true)
StopIdle(t) ==
    /\ At(t, "stop", "idle")
    /\ stack' = [stack EXCEPT ![t] = Append(Front(@), [Top(t) EXCEPT !.at = "halt", !.old = ~guard])]
    /\ DropGuard
    /\ UNCHANGED <<queue, pool, gone, aborted, wanted>>

\* if (!ioctxt_.stopped()) ioctxt_.stop()
Halt(t) ==
    /\ At(t, "stop", "halt")
    /\ stopped' = TRUE
    /\ stack' = Moved(t, "join")
    /\ UNCHANGED <<queue, guard, pool, gone, aborted, wanted>>

\* Mutant of Join: detaches the threads.
Detach(t) ==
    /\ At(t, "stop", "join")
    /\ Top(t).n < Len(pool)
    /\ pool[Top(t).n + 1] \notin {NoThread, t}
    /\ pool' = [pool EXCEPT ![Top(t).n + 1] = NoThread]
    /\ stack' = [stack EXCEPT ![t] = Append(Front(@), [Top(t) EXCEPT !.n = @ + 1])]
    /\ UNCHANGED <<io, gone, aborted, wanted>>

\* t.join() for the next of threads_ waits until the thread has ended
Join(t) ==
    /\ At(t, "stop", "join")
    /\ Top(t).n < Len(pool)
    /\ LET w == pool[Top(t).n + 1]
       IN  w \notin {NoThread, t} /\ ~Busy(w)
    /\ pool' = [pool EXCEPT ![Top(t).n + 1] = NoThread]
    /\ stack' = [stack EXCEPT ![t] = Append(Front(@), [Top(t) EXCEPT !.n = @ + 1])]
    /\ UNCHANGED <<io, gone, aborted, wanted>>

\* An exception leaves every function t is in: the guards release mux_.  On a
\* thread of the pool, and in the destructor, it ends the program.
Throw(t) == /\ stack' = [stack EXCEPT ![t] = <<>>]
            /\ aborted' = (aborted \/ t \in Workers \/ stack[t][1].op = "destroy")
            /\ UNCHANGED <<io, pool, gone, wanted>>

\* join() throws for a std::thread without a thread and for the caller itself.
JoinFails(t) ==
    /\ At(t, "stop", "join")
    /\ Top(t).n < Len(pool) /\ pool[Top(t).n + 1] \in {NoThread, t}
    /\ Throw(t)

\* Mutant of Restore: the guard is not restored.
RestoreIdle(t) ==
    /\ At(t, "stop", "join") /\ Top(t).n = Len(pool)
    /\ pool' = <<>>
    /\ stack' = Popped(t)
    /\ UNCHANGED <<io, gone, aborted, wanted>>

\* threads_.clear(); stopWhenIdle(oldSWI)
Restore(t) ==
    /\ At(t, "stop", "join") /\ Top(t).n = Len(pool)
    /\ pool' = <<>>
    /\ guard' = ~Top(t).old
    /\ stack' = Popped(t)
    /\ UNCHANGED <<stopped, queue, gone, aborted, wanted>>

\* runHere(): ioctxt_.run(), with mux_ held
RunHere(t) ==
    /\ At(t, "runHere", "run")
    /\ stack' = Calls(t, "unlock", Running)
    /\ UNCHANGED <<io, pool, gone, aborted, wanted>>

\* threads_.resize(numThreads_i), with threads that are none yet
Resize(t) ==
    /\ At(t, "runThreads", "resize")
    /\ pool' = [i \in 1..Top(t).n |-> NoThread]
    /\ stack' = Moved(t, IF Top(t).n = 0 THEN "unlock" ELSE "start")
    /\ UNCHANGED <<io, gone, aborted, wanted>>

\* The next t of threads_ gets a new thread, which calls ioctxt_.run()
Start(t) ==
    /\ At(t, "runThreads", "start")
    /\ LET i == CHOOSE j \in DOMAIN pool : pool[j] = NoThread /\ \A k \in 1..(j - 1) : pool[k] # NoThread
           w == CHOOSE v \in Workers : v \notin ToSet(pool)
       IN  /\ pool' = [pool EXCEPT ![i] = w]
           /\ stack' = [(IF i = Len(pool) THEN Moved(t, "unlock") ELSE stack) EXCEPT ![w] = <<Running>>]
    /\ UNCHANGED <<io, gone, aborted, wanted>>

\* The constructor of std::thread throws: what was started goes on, and
\* threads_ keeps the rest without a thread.
StartFails(t) == /\ At(t, "runThreads", "start") /\ program.spawnFails
                 /\ Throw(t)

\* The end of runHere() and runThreads()
Return(t) == /\ At(t, "runHere", "unlock") \/ At(t, "runThreads", "unlock")
             /\ stack' = Popped(t)
             /\ UNCHANGED <<io, pool, gone, aborted, wanted>>

Destroyed(t) == /\ At(t, "destroy", "members")
                /\ gone' = TRUE
                /\ stack' = Popped(t)
                /\ UNCHANGED <<io, pool, aborted, wanted>>

-----------------------------------------------------------------------------
(* boost::asio::io_context, and the program's use of context().             *)

Post(t) == /\ (t \in Clients /\ ~Busy(t)) \/ At(t, "handler", "body")
           /\ queue < MaxQueue
           /\ queue' = queue + 1
           /\ UNCHANGED <<stack, stopped, guard, pool, gone, aborted, wanted>>

\* restart() must not be called while a thread is inside run().
Restart(t) == /\ ~Busy(t) /\ program.restarts
              /\ \A u \in Threads, l \in {"loop", "body"} : \A i \in DOMAIN stack[u] : stack[u][i].at # l
              /\ stopped' = FALSE
              /\ UNCHANGED <<stack, queue, guard, pool, gone, aborted, wanted>>

\* run() stops a context that has no work.
Enter(t) == /\ At(t, "run", "enter")
            /\ stopped' = (stopped \/ Work = 0)
            /\ stack' = Moved(t, "loop")
            /\ UNCHANGED <<queue, guard, pool, gone, aborted, wanted>>

TakeHandler(t) == /\ At(t, "run", "loop") /\ ~stopped /\ queue > 0
                  /\ queue' = queue - 1
                  /\ stack' = [stack EXCEPT ![t] = Append(@, Handler)]
                  /\ UNCHANGED <<stopped, guard, pool, gone, aborted, wanted>>

HandlerEnds(t) == /\ At(t, "handler", "body")
                  /\ stopped' = (stopped \/ Work = 1)
                  /\ stack' = Popped(t)
                  /\ UNCHANGED <<queue, guard, pool, gone, aborted, wanted>>

RunEnds(t) == /\ At(t, "run", "loop") /\ stopped
              /\ stack' = Popped(t)
              /\ UNCHANGED <<io, pool, gone, aborted, wanted>>

-----------------------------------------------------------------------------
Alive == ~gone /\ ~aborted /\ program' = program

Step(t) == /\ Alive
           /\ \/ Lock(t) \/ SetIdle(t) \/ StopIdle(t) \/ Halt(t) \/ Join(t) \/ JoinFails(t) \/ Restore(t)
              \/ RunHere(t) \/ Resize(t) \/ Start(t) \/ StartFails(t) \/ Return(t) \/ Destroyed(t)
              \/ Enter(t) \/ TakeHandler(t) \/ HandlerEnds(t) \/ RunEnds(t)

\* What the program does of its own accord.
NewCall == Alive /\ \/ \E t \in Clients : Call(t) \/ CallDestroy(t) \/ Restart(t)
                    \/ \E t \in Threads : HandlerCalls(t) \/ Post(t)

Next == NewCall \/ \E t \in Threads : Step(t)

Spec == Init /\ [][Next]_vars

\* Threads go on, and handlers end.
FairSpec == Spec /\ \A t \in Threads : WF_vars(Step(t))

-----------------------------------------------------------------------------
(* Properties *)

InRunHere(t) == \E i \in DOMAIN stack[t] : stack[t][i].op = "runHere" /\ stack[t][i].at = "unlock"
InStop(t, l) == \E i \in DOMAIN stack[t] : stack[t][i].op = "stop" /\ stack[t][i].at = l

\* Threads can be made, and no handler calls the wrapper.  Otherwise a join() may throw,
\* of an entry that never became a thread or of the thread that calls it, or wait for a
\* handler that waits for mux_.
Polite == ~program.handlersCall /\ ~program.spawnFails

\* Types, and that one thread at most owns mux_.
TypeOK == /\ stack \in [Threads -> Seq(Frame)]
          /\ stopped \in BOOLEAN /\ guard \in BOOLEAN /\ queue \in 0..MaxQueue
          /\ pool \in Seq(Workers \cup {NoThread})
          /\ gone \in BOOLEAN /\ aborted \in BOOLEAN /\ wanted \in BOOLEAN
          /\ program \in Programs
          /\ \A t, u \in Threads : Holds(t) /\ Holds(u) => t = u

\* One generation of threads at a time: none is left when runHere() runs the
\* context, when runThreads() makes new ones, or when the members are destroyed,
\* whatever the handlers of the old ones were doing when stop() was called.
OneGeneration ==
    (gone \/ \E t \in Threads : InRunHere(t) \/ At(t, "runHere", "run") \/ At(t, "runThreads", "resize"))
        => \A w \in Workers : ~Busy(w)

\* In a polite program stop(), and so runHere() and runThreads(), leave alone what the
\* program chose with stopWhenIdle(), though they take the work guard away and put it
\* back.  (In others not: where join() throws out of stop(), the guard is not put back.)
GuardKept == Polite => \/ guard = ~wanted
                       \/ \E t \in Threads : InStop(t, "halt") \/ InStop(t, "join")

\* Every call of a polite program returns once it makes no more, also stop() while
\* threads run the context under a work guard; but not while another thread is in
\* runHere(), which keeps mux_.
CallsReturn ==
    Polite /\ <>[][~NewCall]_vars
        => <>[]((\A t \in Clients : ~Busy(t)) \/ (\E t \in Clients : InRunHere(t)))

\* "false if it should keep running forever": with a work guard, and handlers
\* that do not stop it, runHere() does not come back.
KeepsRunning == \A t \in Clients : At(t, "runHere", "unlock") => ~guard
=============================================================================
