-------------------------------- MODULE Child -------------------------------
(***************************************************************************)
(* Fs2a::Child::run() (src/Child.cpp) and Fs2a::run() (src/run.cpp): fork  *)
(* a process that executes a command, read what it prints if asked to, and *)
(* wait for it.  Several threads do so at once, so that a child inherits   *)
(* whatever descriptors the others have open at the fork; the system calls *)
(* may fail.  The library's argument checks throw before any of this.      *)
(***************************************************************************)
EXTENDS Integers, SequencesExt, FiniteSetsExt

CONSTANTS Threads,
          Programs,   \* the kinds of surroundings that are modelled
          MaxForks,   \* bound: processes forked in all
          MaxChunks,  \* bound: what a command writes
          PipeSize,   \* what a pipe holds
          NoThread

ASSUME ChildAssumption ==
    /\ Programs \subseteq [forkFails : BOOLEAN, execFails : BOOLEAN, signals : BOOLEAN, logs : BOOLEAN]
    /\ MaxForks \in Nat /\ MaxChunks \in Nat /\ PipeSize \in Nat \ {0} /\ NoThread \notin Threads

Pids   == 1..MaxForks
Chunks == {"text", "nul"}      \* written at once: text, or text that ends in a NUL
Failed == -1                   \* what fork() returns when it fails
Thrown == -1                   \* in the place of an exit status

VARIABLES pc,       \* where each thread is in run()
          capture,  \* capStdout_ || capStderr_
          child,    \* the pid fork() returned
          fds,      \* the ends of its pipe that the thread has open
          sent,     \* what was written to its pipe
          got,      \* how much of it was read
          output,   \* Child::output
          result,   \* what run() returned last, or Thrown
          proc,     \* the processes that were forked
          logger,   \* who holds the mutex of Singleton<Logger>
          program   \* can fork() fail, can what the child does before it is the
                    \* command fail, do signals interrupt read() and waitpid(), and
                    \* has the logger a destination?  (Without one log() throws.)

pipe == <<fds, sent, got, output>>
vars == <<pc, capture, child, fds, sent, got, output, result, proc, logger, program>>

\* A process: which call forked it, what the command has still to write, the
\* pipes of which it inherited the writing end, and whether another thread held
\* the logger's mutex when it was forked.
Process == [st : {"setup", "command", "exiting", "copy", "stuck", "zombie", "reaped"}, status : {Thrown, 0, 1},
            by : Threads, fn : {"Child", "run"}, todo : 0..MaxChunks, w : SUBSET Threads, locked : BOOLEAN]

Forked     == DOMAIN proc
Writers(t) == {p \in Forked : t \in proc[p].w}
Idle(t)    == pc[t] = "idle"

\* std::string = const char *: up to the first NUL
Text(s) == IF Contains(s, "nul") THEN SubSeq(s, 1, SelectInSeq(s, LAMBDA c : c = "nul")) ELSE s

-----------------------------------------------------------------------------
Init == /\ pc = [t \in Threads |-> "idle"]
        /\ capture = [t \in Threads |-> FALSE]
        /\ child = [t \in Threads |-> 0]
        /\ fds = [t \in Threads |-> {}]
        /\ sent = [t \in Threads |-> <<>>]
        /\ got = [t \in Threads |-> 0]
        /\ output = [t \in Threads |-> <<>>]
        /\ result = [t \in Threads |-> Thrown]
        /\ proc = <<>>
        /\ logger = NoThread
        /\ program \in Programs

\* A thread calls Child::run(), with or without capture, or Fs2a::run(), which begins
\* like the one without.  Its variables are new.  (Bound: a thread whose call has left
\* its pipe open, see ReadThrows, makes no other.  Nothing in run() depends on the
\* thread, so that the call may as well be one of another thread.)
Call(t) ==
    /\ Idle(t) /\ logger # t /\ fds[t] = {}
    /\ Len(proc) + Cardinality({u \in Threads : pc[u] \in {"pipe", "fork"}}) < MaxForks
    /\ \E c \in BOOLEAN : /\ capture' = [capture EXCEPT ![t] = c]
                          /\ pc' = [pc EXCEPT ![t] = IF c THEN "pipe" ELSE "fork"]
    /\ child' = [child EXCEPT ![t] = 0]
    /\ result' = [result EXCEPT ![t] = Thrown]
    /\ UNCHANGED <<pipe, proc, logger>>

\* t leaves run() by an exception.
Throw(t) == /\ pc' = [pc EXCEPT ![t] = "idle"]
            /\ result' = [result EXCEPT ![t] = Thrown]

Pipe(t) == /\ pc[t] = "pipe"
           /\ fds' = [fds EXCEPT ![t] = {"r", "w"}]
           /\ sent' = [sent EXCEPT ![t] = <<>>]
           /\ got' = [got EXCEPT ![t] = 0]
           /\ proc' = [p \in Forked |-> [proc[p] EXCEPT !.w = @ \ {t}]]  \* not of this pipe
           /\ pc' = [pc EXCEPT ![t] = "fork"]
           /\ UNCHANGED <<capture, child, output, result, logger>>

PipeFails(t) == /\ pc[t] = "pipe" /\ Throw(t)
                /\ UNCHANGED <<capture, child, pipe, proc, logger>>

AfterFork(t) == pc' = [pc EXCEPT ![t] = IF capture[t] THEN "close" ELSE "wait"]

\* The child has a copy of every descriptor, the logger's mutex as it is.
Fork(t) == /\ pc[t] = "fork"
           /\ \E f \in {"Child", "run"} :
                 /\ f = "run" => ~capture[t]
                 /\ proc' = Append(proc, [st |-> "setup", status |-> Thrown, by |-> t, fn |-> f, todo |-> 0,
                                          w |-> {u \in Threads : "w" \in fds[u]},
                                          locked |-> logger # NoThread])
           /\ child' = [child EXCEPT ![t] = Len(proc) + 1]
           /\ AfterFork(t)
           /\ UNCHANGED <<capture, pipe, result, logger>>

\* Fs2a::run() throws; Child::run() takes -1 for the pid of its child.
ForkFails(t) == /\ pc[t] = "fork" /\ program.forkFails
                /\ child' = [child EXCEPT ![t] = Failed]
                /\ \/ ~capture[t] /\ Throw(t)
                   \/ AfterFork(t) /\ UNCHANGED result
                /\ UNCHANGED <<capture, pipe, proc, logger>>


\* close(pipefds[1]); output.clear()
CloseWrite(t) == /\ pc[t] = "close"
                 /\ fds' = [fds EXCEPT ![t] = @ \ {"w"}]
                 /\ output' = [output EXCEPT ![t] = <<>>]
                 /\ pc' = [pc EXCEPT ![t] = "read"]
                 /\ UNCHANGED <<capture, child, sent, got, result, proc, logger>>

Read(t) == /\ pc[t] = "read" /\ got[t] < Len(sent[t])
           /\ got' = [got EXCEPT ![t] = @ + 1]
           /\ UNCHANGED <<pc, capture, child, fds, sent, output, result, proc, logger>>

\* output = data.data(); close(pipefds[0])
EndOfReading(t) == /\ output' = [output EXCEPT ![t] = Text(SubSeq(sent[t], 1, got[t]))]
                   /\ fds' = [fds EXCEPT ![t] = @ \ {"r"}]
                   /\ pc' = [pc EXCEPT ![t] = "wait"]
                   /\ UNCHANGED <<capture, child, sent, got, result, proc, logger>>

\* Mutant of ReadEnd: a short read is taken for the end.
ReadEndEarly(t) == /\ pc[t] = "read"
                   /\ got[t] = Len(sent[t])
                   /\ EndOfReading(t)

\* read() returns 0: nobody has the writing end open.
ReadEnd(t) == /\ pc[t] = "read"
              /\ got[t] = Len(sent[t]) /\ "w" \notin fds[t] /\ Writers(t) = {}
              /\ EndOfReading(t)

\* Mutant of ReadFails: the -1 is added to the position.
ReadCountsFailure(t) ==
    /\ pc[t] = "read" /\ program.signals
    /\ got' = [got EXCEPT ![t] = @ - 1]
    /\ pc' = [pc EXCEPT ![t] = "wait"]
    /\ UNCHANGED <<capture, child, fds, sent, output, result, proc, logger>>

\* read() is interrupted.  That is logged, which throws if the logger has no
\* destination: the reading end stays open, and nobody waits for the child.
ReadThrows(t) == /\ Throw(t)
                 /\ UNCHANGED <<capture, child, pipe, proc, logger>>

\* Mutant of ReadFails: it throws in any program, as other failures do.
ReadAlwaysThrows(t) == pc[t] = "read" /\ program.signals /\ ReadThrows(t)

\* With a destination what came so far is the output.
ReadFails(t) == /\ pc[t] = "read" /\ program.signals
                /\ \/ program.logs /\ EndOfReading(t)
                   \/ ~program.logs /\ ReadThrows(t)

\* Mutant of Wait: any child will do.
WaitForAny(t) ==
    /\ pc[t] = "wait"
    /\ \E p \in Forked : /\ proc[p].st = "zombie"
                         /\ proc' = [proc EXCEPT ![p].st = "reaped"]
                         /\ result' = [result EXCEPT ![t] = proc[p].status]
    /\ pc' = [pc EXCEPT ![t] = "idle"]
    /\ UNCHANGED <<capture, child, pipe, logger>>

\* waitpid() returns the thread's child: its exit status, or an exception if it
\* was killed.
Wait(t) ==
    /\ pc[t] = "wait"
    /\ \E p \in Forked : /\ p = child[t] /\ proc[p].st = "zombie"
                         /\ proc' = [proc EXCEPT ![p].st = "reaped"]
                         /\ result' = [result EXCEPT ![t] = proc[p].status]
    /\ pc' = [pc EXCEPT ![t] = "idle"]
    /\ UNCHANGED <<capture, child, pipe, logger>>

\* waitpid() fails: interrupted, or another thread has reaped the child.
WaitFails(t) ==
    /\ pc[t] = "wait" /\ child[t] # Failed
    /\ program.signals \/ proc[child[t]].st = "reaped"
    /\ Throw(t)
    /\ UNCHANGED <<capture, child, pipe, proc, logger>>

\* waitpid(-1) waits for any child.  Without one, or interrupted, it returns -1, as
\* fork() did, and the status is the 0 it was initialised with.
WaitAny(t) ==
    /\ pc[t] = "wait" /\ child[t] = Failed
    /\ \/ \E p \in Forked : /\ proc[p].st = "zombie"
                            /\ proc' = [proc EXCEPT ![p].st = "reaped"]
                            /\ Throw(t)
       \/ /\ program.signals \/ \A p \in Forked : proc[p].st = "reaped"
          /\ result' = [result EXCEPT ![t] = 0]
          /\ pc' = [pc EXCEPT ![t] = "idle"]
          /\ UNCHANGED proc
    /\ UNCHANGED <<capture, child, pipe, logger>>

-----------------------------------------------------------------------------
(* The child processes, which change nothing of their parent's but pipes.   *)

ofParent == <<pc, capture, child, fds, got, output, result, logger>>

Becomes(p, st)  == proc' = [proc EXCEPT ![p].st = st]
Dies(p, status) == proc' = [proc EXCEPT ![p] = [@ EXCEPT !.st = "zombie", !.status = status, !.w = {}]]

\* p's standard output or error is the pipe of the thread that forked it.
Piped(p) == proc[p].by \in proc[p].w
Writes(p, c) == sent' = [sent EXCEPT ![proc[p].by] = Append(@, c)]

\* dup2() of the pipe and execve() succeed: a command with so much to write.
Exec(p) == /\ proc[p].st = "setup"
           /\ \E n \in IF Piped(p) THEN 0..MaxChunks ELSE {0} :
                 proc' = [proc EXCEPT ![p] = [@ EXCEPT !.st = "command", !.todo = n]]
           /\ UNCHANGED <<sent, ofParent>>

\* execve() fails.  Child logs that, for which it needs the logger's mutex and
\* which may go to a captured stderr, and calls exit(1), which runs the exit handlers
\* and static destructors of the program in the child.  Fs2a::run() throws, and so
\* does log() without a destination, in a second copy of the program.
ExecFails(p) ==
    /\ proc[p].st = "setup" /\ program.execFails
    /\ LET logs == proc[p].fn = "Child" /\ ~proc[p].locked
       IN  \/ /\ logs /\ program.logs /\ Becomes(p, "exiting")
              /\ UNCHANGED sent \/ (Piped(p) /\ Writes(p, "text"))
           \/ logs /\ ~program.logs /\ Becomes(p, "copy") /\ UNCHANGED sent
           \/ proc[p].fn = "Child" /\ proc[p].locked /\ Becomes(p, "stuck") /\ UNCHANGED sent
           \/ proc[p].fn = "run" /\ Becomes(p, "copy") /\ UNCHANGED sent
    /\ UNCHANGED ofParent

\* dup2() or operator new fails: an exception of Child makes a copy as well.
SetupFails(p) == /\ proc[p].st = "setup" /\ program.execFails /\ proc[p].fn = "Child"
                 /\ Becomes(p, IF proc[p].locked THEN "stuck" ELSE "copy")
                 /\ UNCHANGED <<sent, ofParent>>

\* The command writes to its pipe, unless that is full.
Write(p) == /\ proc[p].st = "command" /\ proc[p].todo > 0
            /\ LET t == proc[p].by
               IN  Piped(p) /\ "r" \in fds[t] /\ Len(sent[t]) - got[t] < PipeSize
            /\ \E c \in Chunks : Writes(p, c)
            /\ proc' = [proc EXCEPT ![p].todo = @ - 1]
            /\ UNCHANGED ofParent

\* It exits when it has written everything, or is killed by SIGPIPE.
Exit(p) == /\ proc[p].st = "command"
           /\ \/ proc[p].todo = 0 /\ \E s \in {0, 1} : Dies(p, s)
              \/ proc[p].todo > 0 /\ "r" \notin fds[proc[p].by] /\ Dies(p, Thrown)
           /\ UNCHANGED <<sent, ofParent>>

\* A signal from anywhere kills it.
Killed(p) == /\ proc[p].st = "command" /\ Dies(p, Thrown)
             /\ UNCHANGED <<sent, ofParent>>

\* The copy of the program comes to its own end, or that of its exit handlers.
CopyEnds(p) == /\ \/ proc[p].st = "copy" /\ \E s \in {0, 1} : Dies(p, s)
                  \/ proc[p].st = "exiting" /\ Dies(p, 1)
               /\ UNCHANGED <<sent, ofParent>>

\* Another use of the logger by a thread of the program, which matters to a
\* child that fails.
Log(t) == /\ Idle(t) /\ program.execFails
          /\ \/ logger = NoThread /\ logger' = t
             \/ logger = t /\ logger' = NoThread
          /\ UNCHANGED <<pc, capture, child, pipe, result, proc>>

-----------------------------------------------------------------------------
Step(t) == \/ Pipe(t) \/ PipeFails(t) \/ Fork(t) \/ ForkFails(t) \/ CloseWrite(t)
           \/ Read(t) \/ ReadEnd(t) \/ ReadFails(t) \/ Wait(t) \/ WaitFails(t) \/ WaitAny(t)

ChildStep(p) == p \in Forked /\ (Exec(p) \/ ExecFails(p) \/ SetupFails(p) \/ Write(p) \/ Exit(p))

NewCall == \E t \in Threads : Call(t)

\* The bounds are reached and nothing goes on.
Quiet == /\ \A t \in Threads : Idle(t) /\ (Len(proc) = MaxForks \/ fds[t] # {})
         /\ UNCHANGED <<ofParent, sent, proc>>

Next == /\ program' = program
        /\ \/ NewCall \/ Quiet
           \/ \E t \in Threads : Step(t) \/ Log(t)
           \/ \E p \in Forked : ChildStep(p) \/ Killed(p) \/ CopyEnds(p)

Spec == Init /\ [][Next]_vars

\* Threads and commands go on; nothing is assumed of a copy of the program, nor of
\* its exit handlers.
FairSpec == /\ Spec
            /\ \A t \in Threads : WF_vars(program' = program /\ Step(t))
            /\ \A p \in Pids : WF_vars(program' = program /\ ChildStep(p))

-----------------------------------------------------------------------------
(* Properties *)

TypeOK == /\ pc \in [Threads -> {"idle", "pipe", "fork", "close", "read", "wait"}]
          /\ capture \in [Threads -> BOOLEAN]
          /\ child \in [Threads -> Pids \cup {0, Failed}]
          /\ fds \in [Threads -> SUBSET {"r", "w"}]
          /\ sent \in [Threads -> Seq(Chunks)] /\ output \in [Threads -> Seq(Chunks)]
          /\ got \in [Threads -> Nat]
          /\ \A t \in Threads : got[t] \in 0..Len(sent[t]) /\ Len(sent[t]) - got[t] <= PipeSize
          /\ result \in [Threads -> {Thrown, 0, 1}]
          /\ proc \in Seq(Process) /\ Len(proc) <= MaxForks
          /\ logger \in Threads \cup {NoThread} /\ program \in Programs

Returned(t) == Idle(t) /\ child[t] # 0 /\ result[t] # Thrown

\* "returns exit status of child": of the process this very call forked, however
\* many calls run at once, and even if signals interrupt them.  (It takes a
\* fork() that succeeds.)
StatusIsOwn ==
    ~program.forkFails => \A t \in Threads :
        Returned(t) => proc[child[t]].st = "reaped" /\ proc[child[t]].status = result[t]

\* A call that returns has read what its child wrote, to the end, and up to the
\* first NUL of it that is the output.  (Signals may cut it short.)
OutputComplete ==
    ~program.signals => \A t \in Threads :
        Returned(t) /\ capture[t] /\ child[t] # Failed
            => output[t] = Text(sent[t]) /\ proc[child[t]].todo = 0

\* In a program whose logger has a destination run() leaves no descriptor open,
\* however it ends; in one that has none this takes that no signal interrupts read(),
\* for the exception of log() would leave the pipe open.  In either, without signals
\* no child is left behind.
NothingLeft ==
    \A t \in Threads : Idle(t) =>
        /\ program.logs \/ ~program.signals => fds[t] = {}
        /\ program.signals \/ \A p \in Forked : proc[p].by = t => proc[p].st = "reaped"

\* run() returns when the commands do, although each of them may hold the writing
\* end of another's pipe and a pipe may be full; but not while a child waits for the
\* logger, has become a copy of the program, or runs its exit handlers, nor after a
\* call has left its pipe open, into which a command may be writing for ever.
CallsReturn ==
    <>[][~NewCall]_vars
        => <>[](\/ \A t \in Threads : Idle(t)
                \/ \E p \in Forked : proc[p].st \in {"stuck", "copy", "exiting"}
                \/ \E t \in Threads : Idle(t) /\ fds[t] # {})
=============================================================================
