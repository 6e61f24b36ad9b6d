------------------------------- MODULE Logger -------------------------------
(***************************************************************************)
(* Fs2a::Logger (src/Logger.cpp, hdr/fs2a/Logger.hpp): log() writes an     *)
(* entry to the destination stream() or syslog() chose.  They change four  *)
(* fields under mymux_; log() reads the fields one by one WITHOUT it, so a *)
(* call may see any mixture of the configurations in force while it runs.  *)
(***************************************************************************)
EXTENDS Naturals

CONSTANTS Threads,
          Streams,      \* the streams stream() is called with
          Strips,       \* the lengths stream() and syslog() are told to strip
          NameLength,   \* the length of the name of the file that logs
          Priorities, MaxLevels,   \* the levels log() and maxlevel() are called with
          Syslog, NoStream, NoThread

ASSUME LoggerAssumption ==
    /\ Strips \subseteq Nat /\ 0 \in Strips /\ NameLength \in Nat
    /\ Priorities \subseteq Nat /\ MaxLevels \subseteq Nat
    /\ Syslog \notin Streams /\ NoStream \notin Streams \cup {Syslog}
    /\ NoThread \notin Threads

\* enum loglevel_t: LOG_CRIT, which no message has, to LOG_DEBUG
none  == 2
error == 3
debug == 7

VARIABLES maxlevel, stream, strip, syslog,   \* maxlevel_, stream_, strip_, syslog_
          opened,     \* is the C library's connection to syslog open?
          alive,      \* is there a Logger? (it is a Singleton)
          owner,      \* the thread that holds mymux_
          pc, job,    \* pc[t], job[t]: the call t is in, and its arguments and locals
          out,        \* out[t]: what became of t's log(), until its next call
          config,     \* history: the configuration last completed
          during      \* history: the configurations t's log() overlaps

vars == <<maxlevel, stream, strip, syslog, opened, alive, owner, pc, job, out, config, during>>

\* A configuration, a call of stream() or syslog() for it, a call of log() (by
\* a macro that throws the entry, or by another).
Config(dest, n) == [dest |-> dest, strip |-> n]
Configs == {Config(NoStream, 0)} \cup {Config(d, n) : d \in Streams \cup {Syslog}, n \in Strips}
Job(target, pri, throws) == [target |-> target, pri |-> pri, throws |-> throws,
                             strip |-> 0, level |-> FALSE, stream |-> NoStream]

\* What becomes of log(): no entry and a null string; an exception; undefined
\* behaviour, from a null pointer; or an entry in a destination, with part
\* of the file name stripped, with or without the text of its level.
Outcome(kind, to, n, level) == [kind |-> kind, to |-> to, strip |-> n, level |-> level]
Silent(kind) == Outcome(kind, NoStream, 0, FALSE)

NoConfig == Config(NoStream, 0)
NoJob    == Job(NoConfig, debug, FALSE)

Logging == {"filter", "strip", "level", "route", "null", "write"}
InLog(t) == pc[t] \in Logging
Idle(t)  == pc[t] = "out"
GoTo(t, l) == pc' = [pc EXCEPT ![t] = l]

-----------------------------------------------------------------------------
Fresh == /\ maxlevel' = debug /\ stream' = NoStream /\ strip' = 0 /\ syslog' = FALSE
         /\ config' = NoConfig

Init == /\ maxlevel = debug /\ stream = NoStream /\ strip = 0 /\ syslog = FALSE
        /\ opened = FALSE
        /\ alive = TRUE
        /\ owner = NoThread
        /\ pc = [t \in Threads |-> "out"]
        /\ job = [t \in Threads |-> NoJob]
        /\ out = [t \in Threads |-> Silent("filtered")]
        /\ config = NoConfig
        /\ during = [t \in Threads |-> {}]

SetMaxlevel(t, l) ==
    /\ Idle(t) /\ alive
    /\ maxlevel' = l
    /\ UNCHANGED <<stream, strip, syslog, opened, alive, owner, pc, job, out, config, during>>

-----------------------------------------------------------------------------
(* log() *)

\* The configuration being installed counts as one the call overlaps.
CallLog(t, p, throws) ==
    /\ Idle(t) /\ alive
    /\ GoTo(t, "filter")
    /\ out' = [out EXCEPT ![t] = Silent("filtered")]
    /\ job' = [job EXCEPT ![t] = Job(NoConfig, p, throws)]
    /\ during' = [during EXCEPT ![t] =
          {config} \cup (IF owner = NoThread THEN {} ELSE {job[owner].target})]
    /\ UNCHANGED <<maxlevel, stream, strip, syslog, opened, alive, owner, config>>

Finish(t, o) == /\ GoTo(t, "out")
                /\ out' = [out EXCEPT ![t] = o]
                /\ job' = [job EXCEPT ![t] = NoJob]
                /\ UNCHANGED <<maxlevel, stream, strip, syslog, opened, alive, owner, config, during>>

GoOn(t, l, j) == /\ GoTo(t, l)
                 /\ job' = [job EXCEPT ![t] = j]
                 /\ UNCHANGED <<maxlevel, stream, strip, syslog, opened, alive, owner, out, config, during>>

\* Above the maximum there is no string; FET and FCET dereference it.
Filter(t) ==
    /\ pc[t] = "filter"
    /\ IF job[t].pri > maxlevel
       THEN Finish(t, Silent(IF job[t].throws THEN "null text" ELSE "filtered"))
       ELSE GoOn(t, "strip", job[t])

\* file_i.substr(strip_)
ReadStrip(t) ==
    /\ pc[t] = "strip"
    /\ IF strip > NameLength
       THEN Finish(t, Silent("out of range"))
       ELSE GoOn(t, "level", [job[t] EXCEPT !.strip = strip])

\* if (!syslog_), the first: add the level's text
ReadLevel(t) == /\ pc[t] = "level"
                /\ GoOn(t, "route", [job[t] EXCEPT !.level = ~syslog])

Entry(t, to) == Outcome("written", to, job[t].strip, job[t].level)

\* Mutant of Route: the destination is taken from stream_ alone.
RouteToStream(t) == /\ pc[t] = "route"
                    /\ GoOn(t, "null", job[t])

\* if (syslog_), the second
Route(t) == /\ pc[t] = "route"
            /\ IF syslog THEN Finish(t, Entry(t, Syslog)) ELSE GoOn(t, "null", job[t])

\* if (stream_ == nullptr)
TestNull(t) == /\ pc[t] = "null"
               /\ IF stream = NoStream
                  THEN Finish(t, Silent("no stream"))
                  ELSE GoOn(t, "write", [job[t] EXCEPT !.stream = stream])

\* *stream_: the compiler may use the value just tested or read it again.
Write(t) == /\ pc[t] = "write"
            /\ \E s \in {job[t].stream, stream} :
                  Finish(t, IF s = NoStream THEN Silent("crash") ELSE Entry(t, s))

-----------------------------------------------------------------------------
(* stream() and syslog() *)

CallConfigure(t, d, n) ==
    /\ Idle(t) /\ alive
    /\ GoTo(t, "lock")
    /\ job' = [job EXCEPT ![t] = Job(Config(d, n), debug, FALSE)]
    /\ during' = [during EXCEPT ![t] = {}]
    /\ out' = [out EXCEPT ![t] = Silent("filtered")]
    /\ UNCHANGED <<maxlevel, stream, strip, syslog, opened, alive, owner, config>>

\* Mutant of Lock: no guard.
LockNot(t) ==
    /\ pc[t] = "lock"
    /\ owner' = t
    /\ during' = [u \in Threads |-> IF InLog(u) THEN during[u] \cup {job[t].target} ELSE during[u]]
    /\ GoTo(t, IF job[t].target.dest # Syslog THEN (IF syslog THEN "closelog" ELSE "setstrip")
               ELSE IF syslog THEN "false" ELSE "setstrip")
    /\ UNCHANGED <<maxlevel, stream, strip, syslog, opened, alive, job, out, config>>

\* GRD(mymux_), and the test of syslog_ that follows
Lock(t) ==
    /\ pc[t] = "lock"
    /\ owner = NoThread
    /\ owner' = t
    /\ during' = [u \in Threads |-> IF InLog(u) THEN during[u] \cup {job[t].target} ELSE during[u]]
    /\ GoTo(t, IF job[t].target.dest # Syslog THEN (IF syslog THEN "closelog" ELSE "setstrip")
               ELSE IF syslog THEN "false" ELSE "setstrip")
    /\ UNCHANGED <<maxlevel, stream, strip, syslog, opened, alive, job, out, config>>

\* stream() closes syslog first
CloseLog(t) == /\ pc[t] = "closelog"
               /\ opened' = FALSE
               /\ GoTo(t, "nosyslog")
               /\ UNCHANGED <<maxlevel, stream, strip, syslog, alive, owner, job, out, config, during>>

\* Mutant of ClearSyslog: the connection is closed, the flag stays.
ClearSyslogNot(t) == /\ pc[t] = "nosyslog"
                     /\ GoTo(t, "setstrip")
                     /\ UNCHANGED <<maxlevel, stream, strip, syslog, opened, alive, owner, job, out, config, during>>

\* ... and then clears the flag
ClearSyslog(t) == /\ pc[t] = "nosyslog"
                  /\ syslog' = FALSE
                  /\ GoTo(t, "setstrip")
                  /\ UNCHANGED <<maxlevel, stream, strip, opened, alive, owner, job, out, config, during>>

SetStrip(t) == /\ pc[t] = "setstrip"
               /\ strip' = job[t].target.strip
               /\ GoTo(t, IF job[t].target.dest = Syslog THEN "openlog" ELSE "setstream")
               /\ UNCHANGED <<maxlevel, stream, syslog, opened, alive, owner, job, out, config, during>>

OpenLog(t) == /\ pc[t] = "openlog"
              /\ opened' = TRUE
              /\ GoTo(t, "setstream")
              /\ UNCHANGED <<maxlevel, stream, strip, syslog, alive, owner, job, out, config, during>>

\* Mutant of SetStream: the old stream goes before the new one comes.
SetStreamFromNull(t) ==
    /\ pc[t] = "setstream"
    /\ stream' = IF job[t].target.dest = Syslog \/ stream # NoStream THEN NoStream ELSE job[t].target.dest
    /\ GoTo(t, IF job[t].target.dest = Syslog THEN "setsyslog"
               ELSE IF stream # NoStream THEN "setstream" ELSE "unlock")
    /\ UNCHANGED <<maxlevel, strip, syslog, opened, alive, owner, job, out, config, during>>

\* stream_ = stream_i, or nullptr in syslog()
SetStream(t) ==
    /\ pc[t] = "setstream"
    /\ stream' = IF job[t].target.dest = Syslog THEN NoStream ELSE job[t].target.dest
    /\ GoTo(t, IF job[t].target.dest = Syslog THEN "setsyslog" ELSE "unlock")
    /\ UNCHANGED <<maxlevel, strip, syslog, opened, alive, owner, job, out, config, during>>

SetSyslog(t) == /\ pc[t] = "setsyslog"
                /\ syslog' = TRUE
                /\ GoTo(t, "unlock")
                /\ UNCHANGED <<maxlevel, stream, strip, opened, alive, owner, job, out, config, during>>

\* The end of the guard's scope; "false": syslog() found syslog open already.
Unlock(t) == /\ pc[t] \in {"unlock", "false"}
             /\ config' = IF pc[t] = "false" THEN config ELSE job[t].target
             /\ owner' = NoThread
             /\ GoTo(t, "out")
             /\ job' = [job EXCEPT ![t] = NoJob]
             /\ UNCHANGED <<maxlevel, stream, strip, syslog, opened, alive, out, during>>

-----------------------------------------------------------------------------
(* Singleton<Logger>::close() and a later instance(), while no call is in    *)
(* progress: Singleton has no way to know that one is.                       *)

\* Mutant of Destroy: no closelog().
DestroyOpen == /\ alive /\ \A t \in Threads : Idle(t)
               /\ alive' = FALSE
               /\ Fresh
               /\ UNCHANGED <<opened, owner, pc, job, out, during>>

Destroy == /\ alive /\ \A t \in Threads : Idle(t)
           /\ alive' = FALSE
           /\ opened' = (opened /\ ~syslog)
           /\ Fresh
           /\ UNCHANGED <<owner, pc, job, out, during>>

Construct == /\ ~alive
             /\ alive' = TRUE
             /\ Fresh
             /\ UNCHANGED <<opened, owner, pc, job, out, during>>

LogStep(t) == Filter(t) \/ ReadStrip(t) \/ ReadLevel(t) \/ Route(t) \/ TestNull(t) \/ Write(t)

ConfigStep(t) == \/ Lock(t) \/ CloseLog(t) \/ ClearSyslog(t) \/ SetStrip(t)
                 \/ OpenLog(t) \/ SetStream(t) \/ SetSyslog(t) \/ Unlock(t)

Next == \/ \E t \in Threads :
              \/ \E l \in MaxLevels : SetMaxlevel(t, l)
              \/ \E p \in Priorities, throws \in BOOLEAN : CallLog(t, p, throws)
              \/ \E d \in Streams \cup {Syslog}, n \in Strips : CallConfigure(t, d, n)
              \/ LogStep(t)
              \/ ConfigStep(t)
        \/ Destroy
        \/ Construct

Spec == Init /\ [][Next]_vars

-----------------------------------------------------------------------------
(* Properties *)

Jobs == [target : Configs, pri : Priorities \cup {debug}, throws : BOOLEAN,
         strip : Strips, level : BOOLEAN, stream : Streams \cup {NoStream}]

Outcomes == [kind : {"filtered", "null text", "out of range", "no stream", "crash", "written"},
             to : Streams \cup {Syslog, NoStream}, strip : Strips, level : BOOLEAN]

Configuring == {"false", "closelog", "nosyslog", "setstrip", "openlog", "setstream", "setsyslog", "unlock"}

\* Types; the mutex is held by whom its guard is in scope.
TypeOK == /\ maxlevel \in MaxLevels \cup {debug}
          /\ stream \in Streams \cup {NoStream} /\ strip \in Strips
          /\ syslog \in BOOLEAN /\ opened \in BOOLEAN /\ alive \in BOOLEAN
          /\ owner \in Threads \cup {NoThread}
          /\ pc \in [Threads -> {"out", "lock"} \cup Logging \cup Configuring]
          /\ job \in [Threads -> Jobs]
          /\ out \in [Threads -> Outcomes]
          /\ config \in Configs
          /\ during \in [Threads -> SUBSET Configs]
          /\ \A t \in Threads : pc[t] \in Configuring <=> owner = t

\* When nobody is reconfiguring, the four fields and the C library agree with
\* the last configuration completed, whatever came before it: never a stream
\* and syslog at once, nor neither; never a connection left open or closed early.
Settled ==
    owner = NoThread =>
       /\ syslog = (config.dest = Syslog) /\ opened = syslog
       /\ stream = (IF config.dest = Syslog THEN NoStream ELSE config.dest)
       /\ strip = config.strip

\* What log() must do with an entry that passes the filter under configuration c.
Expected(c) ==
    IF c.strip > NameLength THEN Silent("out of range")
    ELSE IF c.dest = NoStream THEN Silent("no stream")
    ELSE Outcome("written", c.dest, c.strip, c.dest # Syslog)

\* A call no reconfiguration overlapped did exactly that, although it took no lock.
ExactIfUndisturbed ==
    \A t \in Threads, c \in Configs :
       Idle(t) /\ during[t] = {c} /\ out[t].kind \notin {"filtered", "null text"}
          => out[t] = Expected(c)

\* Any call writes to a destination configured at some moment of the call, never
\* to one given up before it began.
CurrentDestination ==
    \A t \in Threads :
       Idle(t) /\ out[t].kind = "written" /\ during[t] # {}
          => \E c \in during[t] : out[t].to = c.dest

\* From stream to stream, a call that finds a destination configured when it
\* begins always writes its entry.  (For programs that never use syslog.)
NothingLost ==
    \A t \in Threads :
       Idle(t) /\ during[t] # {} /\ (\A c \in during[t] : c.dest \in Streams /\ c.strip <= NameLength)
          => out[t].kind \in {"written", "filtered", "null text"}

\* "Internal mutex to be MT safe": a call of log() finds a destination if one
\* was configured before it and another during it.
DestinationFound ==
    \A t \in Threads :
       (\A c \in during[t] : c.dest # NoStream) => out[t].kind \notin {"no stream", "crash"}
=============================================================================
