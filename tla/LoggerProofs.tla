---------------------------- MODULE LoggerProofs ----------------------------
(***************************************************************************)
(* Proofs about Logger, for any number of threads, streams and strip       *)
(* lengths.  The invariant has a part for the writers (what each field is  *)
(* worth at each point under the mutex) and a part for log() (what it has  *)
(* read so far belongs to configurations it overlaps).                     *)
(***************************************************************************)
EXTENDS Logger, TLAPS

\* The fields are as configuration c wants them.
Fields(c) == /\ syslog = (c.dest = Syslog) /\ opened = syslog
             /\ stream = (IF c.dest = Syslog THEN NoStream ELSE c.dest)
             /\ strip = c.strip

OldStream == stream = (IF config.dest = Syslog THEN NoStream ELSE config.dest)

\* What is done and what is left to do, at each point under the mutex.
Writer(t) ==
    LET c == job[t].target
    IN  /\ pc[t] = "false" => Fields(config)
        /\ pc[t] = "closelog" => c.dest # Syslog /\ config.dest = Syslog /\ Fields(config)
        /\ pc[t] = "nosyslog" => /\ c.dest # Syslog /\ config.dest = Syslog
                                 /\ syslog /\ ~opened /\ OldStream /\ strip = config.strip
        /\ pc[t] = "setstrip" => ~syslog /\ ~opened /\ OldStream /\ strip = config.strip
        /\ pc[t] = "openlog" => c.dest = Syslog /\ ~syslog /\ ~opened /\ OldStream /\ strip = c.strip
        /\ pc[t] = "setstream" => ~syslog /\ opened = (c.dest = Syslog) /\ OldStream /\ strip = c.strip
        /\ pc[t] = "setsyslog" => c.dest = Syslog /\ ~syslog /\ opened /\ stream = NoStream /\ strip = c.strip
        /\ pc[t] = "unlock" => Fields(c)
        /\ pc[t] \in {"setstrip", "openlog", "setstream", "setsyslog", "unlock"}
              => c.dest # Syslog \/ config.dest # Syslog

Writers == \A t \in Threads : owner = t => Writer(t)

\* stream() and syslog() have a destination; a Logger that is gone is not in use.
Targets == \A t \in Threads : pc[t] \in {"lock"} \cup Configuring => job[t].target.dest # NoStream
Unused  == ~alive => ~syslog /\ \A t \in Threads : Idle(t)

\* The configurations in force: the old one, and the one being installed.
Near == {config} \cup (IF owner = NoThread THEN {} ELSE {job[owner].target})

\* A log() under way overlaps these, and what it has read comes from those it
\* overlaps.
Reader(t) ==
    LET j == job[t]
        d == during[t]
    IN  /\ Near \subseteq d
        /\ pc[t] \in {"level", "route", "null", "write"} => j.strip <= NameLength /\ \E c \in d : j.strip = c.strip
        /\ pc[t] \in {"route", "null", "write"} => \E c \in d : j.level = (c.dest # Syslog)
        /\ pc[t] \in {"null", "write"} => \E c \in d : c.dest # Syslog
        /\ pc[t] = "write" => j.stream # NoStream /\ \E c \in d : j.stream = c.dest

Readers == \A t \in Threads : InLog(t) => Reader(t)

\* The inductive invariant is Shared /\ Readers /\ Results (see below).
Shared == TypeOK /\ Targets /\ Unused /\ Settled /\ Writers

-----------------------------------------------------------------------------
\* The locals of a thread outside of all calls are well typed.
LEMMA NoJobType == NoJob \in Jobs /\ NoConfig \in Configs
BY LoggerAssumption DEF NoJob, NoConfig, Jobs, Job, Configs, Config

\* The steps of log() change only the caller's program counter, locals and result.
LEMMA LogStepFrame ==
    ASSUME NEW t \in Threads, LogStep(t)
    PROVE  /\ maxlevel' = maxlevel /\ stream' = stream /\ strip' = strip /\ syslog' = syslog
           /\ opened' = opened /\ alive' = alive /\ owner' = owner /\ config' = config
           /\ during' = during /\ InLog(t)
           /\ \E l \in Logging \cup {"out"} : pc' = [pc EXCEPT ![t] = l]
           /\ \E j : job' = [job EXCEPT ![t] = j]
           /\ out' = out \/ \E o : out' = [out EXCEPT ![t] = o]
<1>1. ASSUME NEW o, Finish(t, o), InLog(t)
      PROVE  /\ maxlevel' = maxlevel /\ stream' = stream /\ strip' = strip /\ syslog' = syslog
             /\ opened' = opened /\ alive' = alive /\ owner' = owner /\ config' = config
             /\ during' = during /\ pc' = [pc EXCEPT ![t] = "out"]
             /\ job' = [job EXCEPT ![t] = NoJob] /\ out' = [out EXCEPT ![t] = o]
  BY <1>1 DEF Finish, GoTo
<1>2. ASSUME NEW l, NEW j, GoOn(t, l, j), InLog(t)
      PROVE  /\ maxlevel' = maxlevel /\ stream' = stream /\ strip' = strip /\ syslog' = syslog
             /\ opened' = opened /\ alive' = alive /\ owner' = owner /\ config' = config
             /\ during' = during /\ pc' = [pc EXCEPT ![t] = l]
             /\ job' = [job EXCEPT ![t] = j] /\ out' = out
  BY <1>2 DEF GoOn, GoTo
<1>3. InLog(t)
  BY DEF LogStep, Filter, ReadStrip, ReadLevel, Route, TestNull, Write, InLog, Logging
<1>4. (\E o : Finish(t, o)) \/ (\E l \in Logging : \E j : GoOn(t, l, j))
  <2>1. CASE Filter(t)
    BY <2>1, Zenon DEF Filter, Logging
  <2>2. CASE ReadStrip(t)
    BY <2>2, Zenon DEF ReadStrip, Logging
  <2>3. CASE ReadLevel(t)
    BY <2>3, Zenon DEF ReadLevel, Logging
  <2>4. CASE Route(t)
    BY <2>4, Zenon DEF Route, Logging
  <2>5. CASE TestNull(t)
    BY <2>5, Zenon DEF TestNull, Logging
  <2>6. CASE Write(t)
    BY <2>6, Zenon DEF Write, Logging
  <2>7. QED
    BY <2>1, <2>2, <2>3, <2>4, <2>5, <2>6 DEF LogStep
<1>5. CASE \E o : Finish(t, o)
  BY <1>1, <1>3, <1>5
<1>6. CASE \E l \in Logging : \E j : GoOn(t, l, j)
  BY <1>2, <1>3, <1>6
<1>7. QED
  BY <1>4, <1>5, <1>6

\* The initial states are well typed.
LEMMA TypeInit == Init => TypeOK
<1> SUFFICES ASSUME Init PROVE TypeOK
  OBVIOUS
<1>1. job \in [Threads -> Jobs] /\ config \in Configs
  BY NoJobType DEF Init
<1>2. out \in [Threads -> Outcomes]
  BY LoggerAssumption DEF Init, Outcomes, Silent, Outcome
<1>3. QED
  BY <1>1, <1>2, LoggerAssumption DEF Init, TypeOK, Configuring, Logging

\* The steps of log() keep the types.
LEMMA TypeLog ==
    ASSUME TypeOK, NEW t \in Threads, LogStep(t)
    PROVE  TypeOK'
<1> USE LoggerAssumption
<1>1. job[t] \in Jobs /\ NoJob \in Jobs
  BY NoJobType DEF TypeOK
<1>2. Silent("filtered") \in Outcomes /\ Silent("null text") \in Outcomes /\ Silent("out of range") \in Outcomes
      /\ Silent("no stream") \in Outcomes /\ Silent("crash") \in Outcomes
  BY DEF Silent, Outcome, Outcomes
<1>3. \A to \in Streams \cup {Syslog} : Entry(t, to) \in Outcomes
  BY <1>1 DEF Entry, Outcome, Outcomes, Jobs
<1>4. ASSUME NEW o \in Outcomes, Finish(t, o) PROVE job' \in [Threads -> Jobs] /\ out' \in [Threads -> Outcomes]
  BY <1>4, <1>1 DEF Finish, TypeOK
<1>5. ASSUME NEW l, NEW j \in Jobs, GoOn(t, l, j) PROVE job' \in [Threads -> Jobs] /\ out' \in [Threads -> Outcomes]
  BY <1>5 DEF GoOn, TypeOK
<1>6. /\ [job[t] EXCEPT !.strip = strip] \in Jobs
      /\ [job[t] EXCEPT !.level = ~syslog] \in Jobs
      /\ [job[t] EXCEPT !.stream = stream] \in Jobs
  BY <1>1 DEF Jobs, TypeOK
<1>7. job' \in [Threads -> Jobs] /\ out' \in [Threads -> Outcomes]
  <2>1. CASE Filter(t)
    BY <2>1, <1>1, <1>2, <1>3, <1>4, <1>5, <1>6, Zenon DEF Filter
  <2>2. CASE ReadStrip(t)
    BY <2>2, <1>1, <1>2, <1>3, <1>4, <1>5, <1>6, Zenon DEF ReadStrip
  <2>3. CASE ReadLevel(t)
    BY <2>3, <1>1, <1>2, <1>3, <1>4, <1>5, <1>6, Zenon DEF ReadLevel
  <2>4. CASE Route(t)
    BY <2>4, <1>1, <1>2, <1>3, <1>4, <1>5, <1>6, Zenon DEF Route
  <2>5. CASE TestNull(t)
    BY <2>5, <1>1, <1>2, <1>3, <1>4, <1>5, <1>6, Zenon DEF TestNull
  <2>6. CASE Write(t)
    <3>1. PICK s \in {job[t].stream, stream} :
             Finish(t, IF s = NoStream THEN Silent("crash") ELSE Entry(t, s))
      BY <2>6 DEF Write
    <3>2. s \in Streams \cup {NoStream}
      BY <1>1 DEF Jobs, TypeOK
    <3>3. QED
      BY <3>1, <3>2, <1>2, <1>3, <1>4, Zenon
  <2>7. QED
    BY <2>1, <2>2, <2>3, <2>4, <2>5, <2>6 DEF LogStep
<1>8. QED
  BY <1>7, LogStepFrame DEF TypeOK, InLog, Logging, Configuring

\* The steps of stream() and syslog() keep the types.
LEMMA TypeConfigure ==
    ASSUME TypeOK, NEW t \in Threads, ConfigStep(t)
    PROVE  TypeOK'
<1> USE LoggerAssumption
<1>1. job[t] \in Jobs /\ job[t].target \in Configs /\ NoJob \in Jobs
  BY NoJobType DEF TypeOK, Jobs
<1>2. job[t].target.strip \in Strips /\ job[t].target.dest \in Streams \cup {Syslog, NoStream}
  BY <1>1 DEF Configs, Config
<1>3. CASE Lock(t)
  BY <1>3, <1>1, <1>2 DEF Lock, GoTo, TypeOK, Configuring, Logging, InLog
<1>4. CASE CloseLog(t)
  BY <1>4, <1>1, <1>2 DEF CloseLog, GoTo, TypeOK, Configuring, Logging, InLog
<1>5. CASE ClearSyslog(t)
  BY <1>5, <1>1, <1>2 DEF ClearSyslog, GoTo, TypeOK, Configuring, Logging, InLog
<1>6. CASE SetStrip(t)
  BY <1>6, <1>1, <1>2 DEF SetStrip, GoTo, TypeOK, Configuring, Logging, InLog
<1>7. CASE OpenLog(t)
  BY <1>7, <1>1, <1>2 DEF OpenLog, GoTo, TypeOK, Configuring, Logging, InLog
<1>8. CASE SetStream(t)
  BY <1>8, <1>1, <1>2 DEF SetStream, GoTo, TypeOK, Configuring, Logging, InLog
<1>9. CASE SetSyslog(t)
  BY <1>9, <1>1, <1>2 DEF SetSyslog, GoTo, TypeOK, Configuring, Logging, InLog
<1>10. CASE Unlock(t)
  BY <1>10, <1>1, <1>2 DEF Unlock, GoTo, TypeOK, Configuring, Logging, InLog
<1>11. QED
  BY <1>3, <1>4, <1>5, <1>6, <1>7, <1>8, <1>9, <1>10 DEF ConfigStep

\* New calls keep the types.
LEMMA TypeCalls ==
    ASSUME TypeOK, NEW t \in Threads
    PROVE  /\ \A l \in MaxLevels : SetMaxlevel(t, l) => TypeOK'
           /\ \A p \in Priorities, throws \in BOOLEAN : CallLog(t, p, throws) => TypeOK'
           /\ \A d \in Streams \cup {Syslog}, n \in Strips : CallConfigure(t, d, n) => TypeOK'
<1> USE LoggerAssumption
<1>1. \A l \in MaxLevels : SetMaxlevel(t, l) => TypeOK'
  BY DEF SetMaxlevel, TypeOK
<1>2. ASSUME NEW p \in Priorities, NEW throws \in BOOLEAN, CallLog(t, p, throws)
      PROVE  TypeOK'
  <2>1. Job(NoConfig, p, throws) \in Jobs
    BY NoJobType DEF Job, Jobs
  <2>2. Silent("filtered") \in Outcomes
    BY DEF Silent, Outcome, Outcomes
  <2>3. owner # NoThread => job[owner].target \in Configs
    BY DEF TypeOK, Jobs
  <2>4. during' \in [Threads -> SUBSET Configs]
    BY <1>2, <2>3 DEF CallLog, TypeOK
  <2>5. QED
    BY <1>2, <2>1, <2>2, <2>4 DEF CallLog, GoTo, Idle, TypeOK, Configuring, Logging
<1>3. ASSUME NEW d \in Streams \cup {Syslog}, NEW n \in Strips, CallConfigure(t, d, n)
      PROVE  TypeOK'
  <2>1. Job(Config(d, n), debug, FALSE) \in Jobs
    BY DEF Job, Jobs, Configs, Config
  <2>2. Silent("filtered") \in Outcomes
    BY DEF Silent, Outcome, Outcomes
  <2>3. QED
    BY <1>3, <2>1, <2>2 DEF CallConfigure, GoTo, Idle, TypeOK, Configuring, Logging
<1>4. QED
  BY <1>1, <1>2, <1>3

\* Every step keeps the types.
LEMMA TypeStep == TypeOK /\ [Next]_vars => TypeOK'
<1> SUFFICES ASSUME TypeOK, [Next]_vars PROVE TypeOK'
  OBVIOUS
<1>1. ASSUME Destroy \/ Construct PROVE TypeOK'
  BY <1>1, NoJobType, LoggerAssumption DEF Destroy, Construct, Fresh, TypeOK
<1>2. CASE UNCHANGED vars
  BY <1>2 DEF vars, TypeOK
<1>3. QED
  BY <1>1, <1>2, TypeLog, TypeConfigure, TypeCalls DEF Next

\* Every state is well typed, and mymux_ is held by whom its guard is in scope.
THEOREM TypeCorrect == Spec => []TypeOK
BY TypeInit, TypeStep, PTL DEF Spec

-----------------------------------------------------------------------------
(* The writers. *)

\* Initially the fields are those of the configuration the constructor makes.
LEMMA SharedInit == Init => Shared
<1> SUFFICES ASSUME Init PROVE Shared
  OBVIOUS
<1>1. TypeOK
  BY TypeInit
<1>2. Targets /\ Unused /\ Settled /\ Writers
  BY LoggerAssumption DEF Init, Targets, Unused, Settled, Writers, NoConfig, Config, Configuring
<1>3. QED
  BY <1>1, <1>2 DEF Shared

\* log() changes no field.
LEMMA SharedLog ==
    ASSUME Shared, NEW t \in Threads, LogStep(t)
    PROVE  Shared'
<1>1. TypeOK'
  BY TypeLog DEF Shared
<1>2. PICK l \in Logging \cup {"out"} : pc' = [pc EXCEPT ![t] = l]
  BY LogStepFrame
<1>3. \A u \in Threads : u # t => pc'[u] = pc[u] /\ job'[u] = job[u]
  BY <1>2, LogStepFrame DEF Shared, TypeOK
<1>4. pc[t] \in Logging /\ pc'[t] \in Logging \cup {"out"} /\ owner # t
  BY <1>2, LogStepFrame DEF Shared, TypeOK, InLog, Logging, Configuring
<1>5. Targets'
  BY <1>3, <1>4 DEF Shared, Targets, Logging, Configuring
<1>6. Unused'
  BY <1>4, LogStepFrame DEF Shared, Unused, Idle, Logging
<1>7. Settled'
  BY LogStepFrame DEF Shared, Settled
<1>8. Writers'
  <2> SUFFICES ASSUME NEW u \in Threads, owner' = u PROVE Writer(u)'
    BY DEF Writers
  <2>1. owner = u /\ u # t
    BY <1>4, LogStepFrame
  <2>2. Writer(u)
    BY <2>1 DEF Shared, Writers
  <2>3. QED
    BY <1>3, <2>1, <2>2, LogStepFrame DEF Writer, Fields, OldStream
<1>9. QED
  BY <1>1, <1>5, <1>6, <1>7, <1>8 DEF Shared

\* The holder of the mutex moves the fields on to the next stage between two configurations.
LEMMA SharedConfigure ==
    ASSUME Shared, NEW t \in Threads, ConfigStep(t)
    PROVE  Shared'
<1> USE LoggerAssumption
<1>1. TypeOK'
  BY TypeConfigure DEF Shared
<1>2. pc[t] \in Configuring => owner = t /\ Writer(t)
  BY DEF Shared, TypeOK, Writers
<1>3. pc \in [Threads -> {"out", "lock"} \cup Logging \cup Configuring] /\ job[t] \in Jobs /\ job \in [Threads -> Jobs]
     /\ syslog \in BOOLEAN /\ opened \in BOOLEAN
  BY DEF Shared, TypeOK
<1>4. pc[t] \in {"lock"} \cup Configuring => job[t].target.dest # NoStream
  BY DEF Shared, Targets
<1>5. pc[t] # "out" /\ alive
  BY DEF Shared, Unused, Idle, ConfigStep, Lock, CloseLog, ClearSyslog, SetStrip, OpenLog, SetStream, SetSyslog, Unlock
<1>6. Targets'
  BY <1>3, <1>4 DEF Shared, Targets, Configuring, ConfigStep, GoTo,
     Lock, CloseLog, ClearSyslog, SetStrip, OpenLog, SetStream, SetSyslog, Unlock
<1>7. Unused'
  BY <1>5 DEF Unused, ConfigStep, Lock, CloseLog, ClearSyslog, SetStrip, OpenLog, SetStream, SetSyslog, Unlock
<1>8. Settled' /\ Writers'
  <2>1. CASE Lock(t)
    <3>1. Fields(config) /\ owner' = t
      BY <2>1 DEF Lock, Shared, Settled, Fields
    <3>2. Settled'
      BY <3>1 DEF Settled
    <3>3. Writer(t)'
      BY <2>1, <3>1, <1>3, <1>4 DEF Lock, GoTo, Writer, Fields, OldStream, Configuring
    <3>4. QED
      BY <3>1, <3>2, <3>3 DEF Writers
  <2>2. CASE CloseLog(t)
    <3>1. owner = t /\ owner' = t /\ Writer(t)
      BY <2>2, <1>2 DEF CloseLog, Configuring
    <3>2. Settled'
      BY <3>1 DEF Settled
    <3>3. Writer(t)'
      BY <2>2, <3>1, <1>3, <1>4 DEF CloseLog, GoTo, Writer, Fields, OldStream, Configuring
    <3>4. QED
      BY <3>1, <3>2, <3>3 DEF Writers
  <2>3. CASE ClearSyslog(t)
    <3>1. owner = t /\ owner' = t /\ Writer(t)
      BY <2>3, <1>2 DEF ClearSyslog, Configuring
    <3>2. Settled'
      BY <3>1 DEF Settled
    <3>3. Writer(t)'
      BY <2>3, <3>1, <1>3, <1>4 DEF ClearSyslog, GoTo, Writer, Fields, OldStream, Configuring
    <3>4. QED
      BY <3>1, <3>2, <3>3 DEF Writers
  <2>4. CASE SetStrip(t)
    <3>1. owner = t /\ owner' = t /\ Writer(t)
      BY <2>4, <1>2 DEF SetStrip, Configuring
    <3>2. Settled'
      BY <3>1 DEF Settled
    <3>3. Writer(t)'
      BY <2>4, <3>1, <1>3, <1>4 DEF SetStrip, GoTo, Writer, Fields, OldStream, Configuring
    <3>4. QED
      BY <3>1, <3>2, <3>3 DEF Writers
  <2>5. CASE OpenLog(t)
    <3>1. owner = t /\ owner' = t /\ Writer(t)
      BY <2>5, <1>2 DEF OpenLog, Configuring
    <3>2. Settled'
      BY <3>1 DEF Settled
    <3>3. Writer(t)'
      BY <2>5, <3>1, <1>3, <1>4 DEF OpenLog, GoTo, Writer, Fields, OldStream, Configuring
    <3>4. QED
      BY <3>1, <3>2, <3>3 DEF Writers
  <2>6. CASE SetStream(t)
    <3>1. owner = t /\ owner' = t /\ Writer(t)
      BY <2>6, <1>2 DEF SetStream, Configuring
    <3>2. Settled'
      BY <3>1 DEF Settled
    <3>3. Writer(t)'
      BY <2>6, <3>1, <1>3, <1>4 DEF SetStream, GoTo, Writer, Fields, OldStream, Configuring
    <3>4. QED
      BY <3>1, <3>2, <3>3 DEF Writers
  <2>7. CASE SetSyslog(t)
    <3>1. owner = t /\ owner' = t /\ Writer(t)
      BY <2>7, <1>2 DEF SetSyslog, Configuring
    <3>2. Settled'
      BY <3>1 DEF Settled
    <3>3. Writer(t)'
      BY <2>7, <3>1, <1>3, <1>4 DEF SetSyslog, GoTo, Writer, Fields, OldStream, Configuring
    <3>4. QED
      BY <3>1, <3>2, <3>3 DEF Writers
  <2>8. CASE Unlock(t)
    <3>1. owner = t /\ owner' = NoThread /\ Writer(t)
      BY <2>8, <1>2 DEF Unlock, Configuring
    <3>2. Settled'
      BY <2>8, <3>1 DEF Unlock, Writer, Fields, Settled
    <3>3. QED
      BY <3>1, <3>2 DEF Writers
  <2>9. QED
    BY <2>1, <2>2, <2>3, <2>4, <2>5, <2>6, <2>7, <2>8 DEF ConfigStep
<1>9. QED
  BY <1>1, <1>6, <1>7, <1>8 DEF Shared

\* With no call under way the mutex is free.
LEMMA Quiet == ASSUME TypeOK, \A t \in Threads : Idle(t) PROVE owner = NoThread
BY DEF TypeOK, Idle, Configuring

\* Every step keeps what is said of the fields.
LEMMA SharedStep == Shared /\ [Next]_vars => Shared'
<1> SUFFICES ASSUME Shared, [Next]_vars PROVE Shared'
  OBVIOUS
<1> USE LoggerAssumption
<1>1. TypeOK'
  BY TypeStep DEF Shared
<1>2. ASSUME NEW t \in Threads, NEW l \in MaxLevels, SetMaxlevel(t, l) PROVE Shared'
  BY <1>1, <1>2 DEF SetMaxlevel, Shared, Targets, Unused, Settled, Writers, Writer, Fields, OldStream, Idle
<1>3. ASSUME NEW t \in Threads, pc[t] = "out", pc'[t] \in {"filter", "lock"}, alive,
             pc'[t] = "lock" => job'[t].target.dest # NoStream,
             \A u \in Threads : u # t => pc'[u] = pc[u] /\ job'[u] = job[u],
             stream' = stream, strip' = strip, syslog' = syslog, opened' = opened, alive' = alive,
             owner' = owner, config' = config
      PROVE  Shared'
  <2>1. owner # t
    BY <1>3 DEF Shared, TypeOK, Configuring
  <2>2. Targets' /\ Unused' /\ Settled'
    BY <1>3 DEF Shared, Targets, Unused, Settled, Configuring
  <2>3. ASSUME NEW u \in Threads, owner' = u PROVE Writer(u)'
    <3>1. owner = u /\ u # t /\ Writer(u)
      BY <1>3, <2>1, <2>3 DEF Shared, Writers
    <3>2. QED
      BY <1>3, <3>1 DEF Writer, Fields, OldStream
  <2>4. QED
    BY <1>1, <2>2, <2>3 DEF Shared, Writers
<1>4. ASSUME NEW t \in Threads, NEW p \in Priorities, NEW throws \in BOOLEAN, CallLog(t, p, throws)
      PROVE  Shared'
  <2>1. pc \in [Threads -> {"out", "lock"} \cup Logging \cup Configuring] /\ job \in [Threads -> Jobs]
    BY DEF Shared, TypeOK
  <2>2. QED
    BY <1>3, <1>4, <2>1 DEF CallLog, Idle, GoTo
<1>5. ASSUME NEW t \in Threads, NEW d \in Streams \cup {Syslog}, NEW n \in Strips, CallConfigure(t, d, n)
      PROVE  Shared'
  <2>1. pc \in [Threads -> {"out", "lock"} \cup Logging \cup Configuring] /\ job \in [Threads -> Jobs]
    BY DEF Shared, TypeOK
  <2>2. Job(Config(d, n), debug, FALSE).target.dest # NoStream
    BY DEF Job, Config
  <2>3. QED
    BY <1>3, <1>5, <2>1, <2>2 DEF CallConfigure, Idle, GoTo
<1>6. ASSUME Destroy \/ Construct PROVE Shared'
  <2>1. \A t \in Threads : Idle(t)
    BY <1>6 DEF Destroy, Construct, Shared, Unused
  <2>2. owner = NoThread
    BY <2>1, Quiet DEF Shared
  <2>3. owner' = NoThread /\ pc' = pc /\ job' = job
    BY <1>6, <2>2 DEF Destroy, Construct
  <2>4. Targets' /\ Unused' /\ Writers'
    BY <1>6, <2>1, <2>3 DEF Destroy, Construct, Fresh, Shared, Targets, Unused, Writers, Idle, Configuring
  <2>5. opened = syslog /\ syslog \in BOOLEAN
    BY <2>2 DEF Shared, Settled, TypeOK
  <2>6. opened' = FALSE
    <3>1. CASE Destroy
      BY <3>1, <2>5 DEF Destroy
    <3>2. CASE Construct
      BY <3>2, <2>5, <2>2 DEF Construct, Shared, Settled, Unused
    <3>3. QED
      BY <1>6, <3>1, <3>2
  <2>7. Settled'
    <3>1. syslog' = FALSE /\ stream' = NoStream /\ strip' = 0 /\ config' = NoConfig
      BY <1>6 DEF Destroy, Construct, Fresh
    <3>2. NoConfig.dest = NoStream /\ NoConfig.strip = 0
      BY DEF NoConfig, Config
    <3>3. QED
      BY <2>6, <3>1, <3>2 DEF Settled
  <2>8. QED
    BY <1>1, <2>4, <2>7 DEF Shared
<1>7. CASE UNCHANGED vars
  BY <1>1, <1>7 DEF vars, Shared, Targets, Unused, Settled, Writers, Writer, Fields, OldStream, Idle
<1>8. QED
  BY <1>2, <1>4, <1>5, <1>6, <1>7, SharedLog, SharedConfigure DEF Next

\* At rest the fields and the C library agree with the last configuration.
THEOREM FieldsSettled == Spec => []Settled
<1>1. Shared => Settled
  BY DEF Shared
<1>2. QED
  BY <1>1, SharedInit, SharedStep, PTL DEF Spec

-----------------------------------------------------------------------------
(* The readers: whatever log() reads, it reads from a configuration nearby. *)

\* Each field has the value it has in the configuration completed last or the one being made.
LEMMA NearValues ==
    ASSUME Shared
    PROVE  /\ Near \subseteq Configs
           /\ \E c \in Near : strip = c.strip
           /\ \E c \in Near : syslog = (c.dest = Syslog)
           /\ stream # NoStream => \E c \in Near : stream = c.dest
           /\ stream = NoStream => \E c \in Near : c.dest \notin Streams
<1> USE LoggerAssumption
<1>1. config \in Near /\ (owner # NoThread => job[owner].target \in Near)
  BY DEF Near
<1>2. Near \subseteq Configs
  BY DEF Near, Shared, TypeOK, Jobs
<1>3. syslog \in BOOLEAN /\ opened \in BOOLEAN
  BY DEF Shared, TypeOK
<1>4. CASE owner = NoThread
  BY <1>1, <1>2, <1>3, <1>4 DEF Shared, Settled
<1>5. CASE owner \in Threads
  <2>1. Writer(owner) /\ pc[owner] \in Configuring
    BY <1>5 DEF Shared, Writers, TypeOK
  <2>2. \E c \in Near : strip = c.strip
    BY <1>1, <1>3, <1>5, <2>1 DEF Writer, Fields, OldStream, Configuring
  <2>3. \E c \in Near : syslog = (c.dest = Syslog)
    BY <1>1, <1>3, <1>5, <2>1 DEF Writer, Fields, OldStream, Configuring
  <2>4. stream # NoStream => \E c \in Near : stream = c.dest
    BY <1>1, <1>3, <1>5, <2>1 DEF Writer, Fields, OldStream, Configuring
  <2>5. stream = NoStream => \E c \in Near : c.dest \notin Streams
    BY <1>1, <1>3, <1>5, <2>1 DEF Writer, Fields, OldStream, Configuring
  <2>6. QED
    BY <1>2, <2>2, <2>3, <2>4, <2>5
<1>6. QED
  BY <1>4, <1>5 DEF Shared, TypeOK

\* A log() that does not move keeps what it has read, if nothing new comes near
\* that it does not count.
LEMMA ReaderKeeps ==
    ASSUME NEW u \in Threads, InLog(u)' => InLog(u) /\ Reader(u),
           pc'[u] = pc[u], InLog(u)' => job'[u] = job[u] /\ during[u] \subseteq during'[u],
           InLog(u)' => Near' \subseteq during'[u]
    PROVE  InLog(u)' => Reader(u)'
<1> SUFFICES ASSUME InLog(u)' PROVE Reader(u)'
  OBVIOUS
<1>1. Reader(u) /\ job'[u] = job[u] /\ during[u] \subseteq during'[u] /\ Near' \subseteq during'[u]
  OBVIOUS
<1>2. QED
  BY <1>1 DEF Reader

\* A step of log() reads what a configuration it overlaps has there.
LEMMA ReadersLog ==
    ASSUME Shared, Readers, NEW t \in Threads, LogStep(t)
    PROVE  Readers'
<1>1. pc \in [Threads -> {"out", "lock"} \cup Logging \cup Configuring]
      /\ job \in [Threads -> Jobs] /\ strip \in Strips /\ Strips \subseteq Nat /\ NameLength \in Nat
  BY LoggerAssumption DEF Shared, TypeOK
<1>2. owner # t /\ InLog(t)
  BY LogStepFrame DEF Shared, TypeOK, InLog, Logging, Configuring
<1>3. Reader(t)
  BY <1>2 DEF Readers
<1>4. \A u \in Threads : u # t => pc'[u] = pc[u] /\ job'[u] = job[u]
  BY <1>1, LogStepFrame
<1>5. Near' = Near
  <2>1. owner # NoThread => job'[owner] = job[owner]
    BY <1>2, <1>4 DEF Shared, TypeOK
  <2>2. QED
    BY <2>1, LogStepFrame DEF Near
<1>6. ASSUME NEW u \in Threads, u # t PROVE InLog(u)' => Reader(u)'
  <2>1. pc'[u] = pc[u] /\ job'[u] = job[u] /\ during' = during
    BY <1>4, <1>6, LogStepFrame
  <2>2. InLog(u)' => InLog(u) /\ Reader(u)
    BY <2>1 DEF Readers, InLog
  <2>3. InLog(u)' => Near' \subseteq during'[u]
    BY <2>1, <2>2, <1>5 DEF Reader
  <2>4. QED
    BY <2>1, <2>2, <2>3, ReaderKeeps
<1>7. InLog(t)' => Reader(t)'
  <2> DEFINE d == during[t]
  <2>1. Near \subseteq d /\ during'[t] = d
    BY <1>3, LogStepFrame DEF Reader
  <2>2. ASSUME NEW o, Finish(t, o) PROVE ~InLog(t)'
    BY <2>2, <1>1 DEF Finish, GoTo, InLog, Logging
  <2>3. ASSUME NEW l, NEW j, GoOn(t, l, j) PROVE pc'[t] = l /\ job'[t] = j
    BY <2>3, <1>1 DEF GoOn, GoTo
  <2>4. CASE Filter(t)
    <3>1. InLog(t)' => pc'[t] = "strip"
      BY <2>4, <2>2, <2>3 DEF Filter
    <3>2. QED
      BY <3>1, <2>1, <1>5 DEF Reader
  <2>5. CASE ReadStrip(t)
    <3>1. InLog(t)' => pc'[t] = "level" /\ job'[t] = [job[t] EXCEPT !.strip = strip] /\ ~(strip > NameLength)
      BY <2>5, <2>2, <2>3, Zenon DEF ReadStrip
    <3>2. InLog(t)' => job'[t].strip = strip
      BY <3>1, <1>1 DEF Jobs
    <3>3. \E c \in d : strip = c.strip
      BY <2>1, NearValues
    <3>4. QED
      BY <1>1, <3>1, <3>2, <3>3, <2>1, <1>5 DEF Reader
  <2>6. CASE ReadLevel(t)
    <3>1. pc[t] = "level" /\ pc'[t] = "route" /\ job'[t] = [job[t] EXCEPT !.level = ~syslog]
      BY <2>6, <2>3 DEF ReadLevel
    <3>2. job'[t].strip = job[t].strip /\ job'[t].level = ~syslog
      BY <3>1, <1>1 DEF Jobs
    <3>3. \E c \in d : (~syslog) = (c.dest # Syslog)
      <4>1. PICK c \in d : syslog = (c.dest = Syslog)
        BY <2>1, NearValues
      <4>2. QED
        BY <4>1
    <3>4. QED
      BY <1>3, <3>1, <3>2, <3>3, <2>1, <1>5 DEF Reader
  <2>7. CASE Route(t)
    <3>1. pc[t] = "route" /\ (InLog(t)' => pc'[t] = "null" /\ job'[t] = job[t] /\ ~syslog)
      BY <2>7, <2>2, <2>3, Zenon DEF Route
    <3>2. ~syslog => \E c \in d : c.dest # Syslog
      BY <2>1, NearValues
    <3>3. QED
      BY <1>3, <3>1, <3>2, <2>1, <1>5 DEF Reader
  <2>8. CASE TestNull(t)
    <3>1. pc[t] = "null" /\ (InLog(t)' => pc'[t] = "write" /\ stream # NoStream
                                          /\ job'[t] = [job[t] EXCEPT !.stream = stream])
      BY <2>8, <2>2, <2>3, Zenon DEF TestNull
    <3>2. InLog(t)' => job'[t].strip = job[t].strip /\ job'[t].level = job[t].level /\ job'[t].stream = stream
      BY <3>1, <1>1 DEF Jobs
    <3>3. stream # NoStream => \E c \in d : stream = c.dest
      BY <2>1, NearValues
    <3>4. QED
      BY <1>3, <3>1, <3>2, <3>3, <2>1, <1>5 DEF Reader
  <2>9. CASE Write(t)
    BY <2>9, <2>2 DEF Write
  <2>10. QED
    BY <2>4, <2>5, <2>6, <2>7, <2>8, <2>9 DEF LogStep
<1>8. QED
  BY <1>6, <1>7 DEF Readers

\* A step of stream() or syslog() makes configurations that the readers count as overlapping.
LEMMA ReadersConfigure ==
    ASSUME Shared, Readers, NEW t \in Threads, ConfigStep(t)
    PROVE  Readers'
<1>1. pc \in [Threads -> {"out", "lock"} \cup Logging \cup Configuring]
      /\ job \in [Threads -> Jobs] /\ during \in [Threads -> SUBSET Configs]
  BY DEF Shared, TypeOK
<1>2. ~InLog(t) /\ ~InLog(t)' /\ \A u \in Threads : u # t => pc'[u] = pc[u] /\ job'[u] = job[u]
  BY <1>1 DEF ConfigStep, GoTo, InLog, Logging,
     Lock, CloseLog, ClearSyslog, SetStrip, OpenLog, SetStream, SetSyslog, Unlock
<1>3. ASSUME NEW u \in Threads, InLog(u)' PROVE Reader(u)'
  <2>1. u # t /\ InLog(u) /\ Reader(u) /\ Near \subseteq during[u]
    BY <1>2, <1>3 DEF Readers, Reader, InLog
  <2>2. during[u] \subseteq during'[u] /\ Near' \subseteq during'[u]
    <3>1. CASE Lock(t)
      <4>1. during'[u] = during[u] \cup {job[t].target} /\ config' = config /\ job' = job /\ owner' = t
        BY <3>1, <2>1, <1>1 DEF Lock
      <4>2. config \in during[u]
        BY <2>1 DEF Near
      <4>3. QED
        BY <4>1, <4>2 DEF Near
    <3>2. CASE Unlock(t)
      <4>1. during' = during /\ owner' = NoThread /\ config' \in {config, job[t].target} /\ owner = t
        BY <3>2 DEF Unlock, Shared, TypeOK, Configuring
      <4>2. QED
        BY <4>1, <2>1, LoggerAssumption DEF Near
    <3>3. CASE ~Lock(t) /\ ~Unlock(t)
      <4>1. during' = during /\ owner' = owner /\ config' = config /\ job' = job
        BY <3>3 DEF ConfigStep, CloseLog, ClearSyslog, SetStrip, OpenLog, SetStream, SetSyslog
      <4>2. QED
        BY <4>1, <2>1 DEF Near
    <3>4. QED
      BY <3>1, <3>2, <3>3
  <2>3. QED
    BY <1>2, <1>3, <2>1, <2>2, ReaderKeeps
<1>4. QED
  BY <1>3 DEF Readers

\* Every step keeps what is said of the readers.
LEMMA ReadersStep == Shared /\ Readers /\ [Next]_vars => Readers'
<1> SUFFICES ASSUME Shared, Readers, [Next]_vars PROVE Readers'
  OBVIOUS
<1> USE LoggerAssumption
<1>1. pc \in [Threads -> {"out", "lock"} \cup Logging \cup Configuring]
      /\ job \in [Threads -> Jobs] /\ during \in [Threads -> SUBSET Configs]
  BY DEF Shared, TypeOK
<1>2. ASSUME pc' = pc, job' = job, during' = during, owner' = owner, config' = config
      PROVE  Readers'
  BY <1>2 DEF Readers, Reader, InLog, Near
<1>3. ASSUME NEW t \in Threads, NEW p \in Priorities, NEW throws \in BOOLEAN, CallLog(t, p, throws)
      PROVE  Readers'
  <2>1. owner # t
    BY <1>3 DEF CallLog, Idle, Shared, TypeOK, Configuring
  <2>2. owner' = owner /\ config' = config /\ pc' = [pc EXCEPT ![t] = "filter"]
        /\ during' = [during EXCEPT ![t] = Near]
        /\ \A u \in Threads : u # t => job'[u] = job[u]
    BY <1>1, <1>3 DEF CallLog, GoTo, Near
  <2>3. Near' = Near
    BY <2>1, <2>2 DEF Near, Shared, TypeOK
  <2>4. Reader(t)'
    BY <1>1, <2>2, <2>3 DEF Reader
  <2>5. ASSUME NEW u \in Threads, u # t PROVE InLog(u)' => Reader(u)'
    <3>1. pc'[u] = pc[u] /\ job'[u] = job[u] /\ during'[u] = during[u]
      BY <1>1, <2>2, <2>5
    <3>2. InLog(u)' => InLog(u) /\ Reader(u)
      BY <3>1 DEF InLog, Readers
    <3>3. InLog(u)' => Near' \subseteq during'[u]
      BY <3>1, <3>2, <2>3 DEF Reader
    <3>4. QED
      BY <3>1, <3>2, <3>3, ReaderKeeps
  <2>6. QED
    BY <2>4, <2>5 DEF Readers
<1>4. ASSUME NEW t \in Threads, NEW d \in Streams \cup {Syslog}, NEW n \in Strips, CallConfigure(t, d, n)
      PROVE  Readers'
  <2>1. owner # t
    BY <1>4 DEF CallConfigure, Idle, Shared, TypeOK, Configuring
  <2>2. owner' = owner /\ config' = config /\ pc' = [pc EXCEPT ![t] = "lock"]
        /\ during' = [during EXCEPT ![t] = {}]
        /\ \A u \in Threads : u # t => job'[u] = job[u]
    BY <1>1, <1>4 DEF CallConfigure, GoTo
  <2>3. Near' = Near
    BY <2>1, <2>2 DEF Near, Shared, TypeOK
  <2>4. ~InLog(t)'
    BY <1>1, <2>2 DEF InLog, Logging
  <2>5. ASSUME NEW u \in Threads, u # t PROVE InLog(u)' => Reader(u)'
    <3>1. pc'[u] = pc[u] /\ job'[u] = job[u] /\ during'[u] = during[u]
      BY <1>1, <2>2, <2>5
    <3>2. InLog(u)' => InLog(u) /\ Reader(u)
      BY <3>1 DEF InLog, Readers
    <3>3. InLog(u)' => Near' \subseteq during'[u]
      BY <3>1, <3>2, <2>3 DEF Reader
    <3>4. QED
      BY <3>1, <3>2, <3>3, ReaderKeeps
  <2>6. QED
    BY <2>4, <2>5 DEF Readers
<1>5. ASSUME NEW t \in Threads, NEW l \in MaxLevels, SetMaxlevel(t, l) PROVE Readers'
  BY <1>2, <1>5 DEF SetMaxlevel
<1>6. ASSUME Destroy \/ Construct PROVE Readers'
  BY <1>6 DEF Destroy, Construct, Shared, Unused, Idle, Readers, InLog, Logging
<1>7. CASE UNCHANGED vars
  BY <1>2, <1>7 DEF vars
<1>8. QED
  BY <1>3, <1>4, <1>5, <1>6, <1>7, ReadersLog, ReadersConfigure DEF Next

-----------------------------------------------------------------------------
(* The results. *)

\* What the three properties say of a call that ended with o after overlapping d.
Good(o, d) ==
    /\ o.kind \notin {"filtered", "null text"} => \A c \in Configs : d = {c} => o = Expected(c)
    /\ o.kind = "written" /\ d # {} => \E c \in d : o.to = c.dest
    /\ d # {} /\ (\A c \in d : c.dest \in Streams /\ c.strip <= NameLength)
          => o.kind \in {"written", "filtered", "null text"}

Results == \A t \in Threads : ~InLog(t) => Good(out[t], during[t])

\* What a configuration with a destination asks for.
LEMMA ExpectedWritten ==
    ASSUME NEW c \in Configs, c.strip \in Nat, c.strip <= NameLength, c.dest # NoStream
    PROVE  /\ c.dest = Syslog => Expected(c) = Outcome("written", c.dest, c.strip, FALSE)
           /\ c.dest # Syslog => Expected(c) = Outcome("written", c.dest, c.strip, TRUE)
<1>1. ~(c.strip > NameLength)
  BY LoggerAssumption
<1>2. Expected(c) = Outcome("written", c.dest, c.strip, c.dest # Syslog)
  BY <1>1, Zenon DEF Expected
<1>3. CASE c.dest = Syslog
  <2>1. (c.dest # Syslog) = FALSE
    BY <1>3
  <2>2. QED
    BY <1>2, <1>3, <2>1, Zenon
<1>4. CASE c.dest # Syslog
  <2>1. (c.dest # Syslog) = TRUE
    BY <1>4
  <2>2. QED
    BY <1>2, <1>4, <2>1, Zenon
<1>5. QED
  BY <1>3, <1>4

\* The kind of an entry that was written nowhere.
LEMMA SilentKind == \A k : Silent(k).kind = k
BY DEF Silent, Outcome

\* What a configuration asks for that has no destination, or strips more than there is.
LEMMA ExpectedSilent ==
    ASSUME NEW c \in Configs, c.strip \in Nat
    PROVE  /\ c.strip > NameLength => Expected(c) = Silent("out of range")
           /\ c.strip <= NameLength /\ c.dest = NoStream => Expected(c) = Silent("no stream")
<1>1. c.strip <= NameLength => ~(c.strip > NameLength)
  BY LoggerAssumption
<1>2. QED
  BY <1>1, Zenon DEF Expected

\* What is said of the results is the three properties.
LEMMA ResultsMean == Results => ExactIfUndisturbed /\ CurrentDestination /\ NothingLost
<1> SUFFICES ASSUME Results PROVE ExactIfUndisturbed /\ CurrentDestination /\ NothingLost
  OBVIOUS
<1>1. \A t \in Threads : Idle(t) => Good(out[t], during[t])
  BY DEF Results, Idle, InLog, Logging
<1>2. QED
  BY <1>1 DEF Good, ExactIfUndisturbed, CurrentDestination, NothingLost

\* A call of log() that ends has the outcome its locals lead to.
LEMMA ResultsLog ==
    ASSUME Shared, Readers, Results, NEW t \in Threads, LogStep(t)
    PROVE  Results'
<1> USE LoggerAssumption
<1> DEFINE d == during[t]
<1>1. pc \in [Threads -> {"out", "lock"} \cup Logging \cup Configuring]
      /\ job \in [Threads -> Jobs] /\ out \in [Threads -> Outcomes]
      /\ strip \in Nat /\ job[t].strip \in Nat /\ job[t].level \in BOOLEAN /\ d \subseteq Configs
  BY DEF Shared, TypeOK, Jobs
<1>2. InLog(t) /\ Reader(t) /\ Near \subseteq d
  BY LogStepFrame DEF Readers, Reader
<1>3. \A c \in d : c.strip \in Nat
  BY <1>1 DEF Configs, Config
<1>4. ASSUME NEW o, Finish(t, o) PROVE pc'[t] = "out" /\ out'[t] = o
  BY <1>4, <1>1 DEF Finish, GoTo
<1>5. ASSUME NEW l \in Logging, NEW j, GoOn(t, l, j) PROVE InLog(t)'
  BY <1>5, <1>1 DEF GoOn, GoTo, InLog, Logging
<1>6. ~InLog(t)' => Good(out'[t], d)
  <2>1. CASE Filter(t)
    <3>1. ~InLog(t)' => out'[t] \in {Silent("null text"), Silent("filtered")}
      BY <2>1, <1>4, <1>5 DEF Filter, Logging
    <3>2. QED
      BY <3>1, SilentKind DEF Good
  <2>2. CASE ReadStrip(t)
    <3>1. ~InLog(t)' => out'[t] = Silent("out of range") /\ strip > NameLength
      BY <2>2, <1>4, <1>5, Zenon DEF ReadStrip, Logging
    <3>2. PICK c \in d : strip = c.strip
      BY <1>2, NearValues
    <3>3. ~InLog(t)' => \A b \in Configs : d = {b} => out'[t] = Expected(b)
      BY <1>3, <3>1, <3>2, ExpectedSilent
    <3>4. Silent("out of range").kind = "out of range"
      BY SilentKind
    <3>5. strip > NameLength => ~(c.strip <= NameLength)
      BY <1>1, <3>2
    <3>6. QED
      BY <3>1, <3>3, <3>4, <3>5 DEF Good
  <2>3. CASE ReadLevel(t)
    BY <2>3, <1>5, Zenon DEF ReadLevel, Logging
  <2>4. CASE Route(t)
    <3>1. pc[t] = "route" /\ (~InLog(t)' => out'[t] = Entry(t, Syslog) /\ syslog)
      BY <2>4, <1>4, <1>5, Zenon DEF Route, Logging
    <3>2. PICK c \in d : syslog = (c.dest = Syslog)
      BY <1>2, NearValues
    <3>3. ASSUME NEW b \in Configs, d = {b}, ~InLog(t)' PROVE out'[t] = Expected(b)
      <4>1. job[t].strip = b.strip /\ b.strip <= NameLength /\ job[t].level = (b.dest # Syslog) /\ b.dest = Syslog
        BY <1>2, <3>1, <3>2, <3>3 DEF Reader
      <4>2. QED
        BY <1>3, <3>1, <3>3, <4>1, ExpectedWritten, LoggerAssumption DEF Entry
    <3>4. Entry(t, Syslog).kind = "written" /\ Entry(t, Syslog).to = Syslog
      BY DEF Entry, Outcome
    <3>5. QED
      BY <3>1, <3>2, <3>3, <3>4 DEF Good
  <2>5. CASE TestNull(t)
    <3>1. pc[t] = "null" /\ (~InLog(t)' => out'[t] = Silent("no stream") /\ stream = NoStream)
      BY <2>5, <1>4, <1>5, Zenon DEF TestNull, Logging
    <3>2. stream = NoStream => \E c \in d : c.dest \notin Streams
      BY <1>2, NearValues
    <3>3. ASSUME NEW b \in Configs, d = {b}, ~InLog(t)' PROVE out'[t] = Expected(b)
      <4>1. b.strip <= NameLength /\ b.dest # Syslog /\ b.dest \notin Streams
        BY <1>2, <3>1, <3>2, <3>3 DEF Reader
      <4>2. b.dest = NoStream
        BY <4>1 DEF Configs, Config
      <4>3. QED
        BY <1>3, <3>1, <3>3, <4>1, <4>2, ExpectedSilent
    <3>4. Silent("no stream").kind = "no stream"
      BY SilentKind
    <3>5. QED
      BY <3>1, <3>2, <3>3, <3>4 DEF Good
  <2>6. CASE Write(t)
    <3>1. PICK s \in {job[t].stream, stream} :
             Finish(t, IF s = NoStream THEN Silent("crash") ELSE Entry(t, s))
      BY <2>6 DEF Write
    <3>2. pc[t] = "write" /\ out'[t] = (IF s = NoStream THEN Silent("crash") ELSE Entry(t, s))
      BY <2>6, <3>1, <1>4 DEF Write
    <3>3. s # NoStream => \E c \in d : s = c.dest
      <4>1. CASE s = stream
        BY <4>1, <1>2, NearValues
      <4>2. CASE s = job[t].stream
        BY <4>2, <1>2, <3>2 DEF Reader
      <4>3. QED
        BY <4>1, <4>2
    <3>4. s = NoStream => \E c \in d : c.dest \notin Streams
      BY <1>2, <3>2, NearValues DEF Reader
    <3>5. ASSUME NEW b \in Configs, d = {b} PROVE out'[t] = Expected(b)
      <4>1. job[t].strip = b.strip /\ b.strip <= NameLength /\ job[t].level = (b.dest # Syslog) /\ b.dest # Syslog
            /\ job[t].stream = b.dest /\ b.dest # NoStream
        BY <1>2, <3>2, <3>5 DEF Reader
      <4>2. b.dest \in Streams
        BY <4>1 DEF Configs, Config
      <4>3. s = b.dest
        BY <4>2, <3>3, <3>4, <3>5
      <4>4. QED
        BY <1>3, <3>2, <3>5, <4>1, <4>3, ExpectedWritten DEF Entry
    <3>6. /\ \A x : Entry(t, x).kind = "written" /\ Entry(t, x).to = x
          /\ Silent("crash").kind = "crash"
      BY DEF Entry, Silent, Outcome
    <3>7. CASE s = NoStream
      <4>1. out'[t].kind = "crash" /\ \E c \in d : c.dest \notin Streams
        BY <3>2, <3>4, <3>6, <3>7
      <4>2. QED
        BY <4>1, <3>5 DEF Good
    <3>8. CASE s # NoStream
      <4>1. out'[t].kind = "written" /\ out'[t].to = s
        BY <3>2, <3>6, <3>8
      <4>2. QED
        BY <4>1, <3>3, <3>5, <3>8 DEF Good
    <3>9. QED
      BY <3>7, <3>8
  <2>7. QED
    BY <2>1, <2>2, <2>3, <2>4, <2>5, <2>6 DEF LogStep
<1>7. ASSUME NEW u \in Threads, u # t, ~InLog(u)' PROVE Good(out'[u], during'[u])
  <2>1. pc'[u] = pc[u] /\ out'[u] = out[u] /\ during' = during
    BY <1>1, <1>7, LogStepFrame
  <2>2. QED
    BY <1>7, <2>1 DEF Results, InLog
<1>8. QED
  BY <1>6, <1>7, LogStepFrame DEF Results

\* Every step keeps what is said of the results.
LEMMA ResultsStep == Shared /\ Readers /\ Results /\ [Next]_vars => Results'
<1> SUFFICES ASSUME Shared, Readers, Results, [Next]_vars PROVE Results'
  OBVIOUS
<1>1. pc \in [Threads -> {"out", "lock"} \cup Logging \cup Configuring]
      /\ out \in [Threads -> Outcomes] /\ during \in [Threads -> SUBSET Configs]
  BY DEF Shared, TypeOK
<1>2. ASSUME NEW t \in Threads, ConfigStep(t) PROVE Results'
  <2>1. out' = out /\ (\A u \in Threads : u # t => pc'[u] = pc[u])
    BY <1>1, <1>2 DEF ConfigStep, GoTo,
       Lock, CloseLog, ClearSyslog, SetStrip, OpenLog, SetStream, SetSyslog, Unlock
  <2>2. \A u \in Threads : ~InLog(u) => during'[u] = during[u]
    BY <1>1, <1>2 DEF ConfigStep, Lock, CloseLog, ClearSyslog, SetStrip, OpenLog, SetStream, SetSyslog, Unlock
  <2>3. ~InLog(t)
    BY <1>1, <1>2 DEF ConfigStep, InLog, Logging,
       Lock, CloseLog, ClearSyslog, SetStrip, OpenLog, SetStream, SetSyslog, Unlock
  <2>4. \A u \in Threads : ~InLog(u)' => ~InLog(u)
    BY <2>1, <2>3 DEF InLog
  <2>5. QED
    BY <2>1, <2>2, <2>4 DEF Results
<1>3. ASSUME NEW t \in Threads, pc'[t] \in {"filter", "lock"}, out'[t] = Silent("filtered"),
             pc'[t] = "lock" => during'[t] = {},
             \A u \in Threads : u # t => pc'[u] = pc[u] /\ out'[u] = out[u] /\ during'[u] = during[u]
      PROVE  Results'
  <2>1. pc'[t] = "lock" => Good(out'[t], during'[t])
    BY <1>1, <1>3, SilentKind DEF Good
  <2>2. QED
    BY <1>1, <1>3, <2>1 DEF Results, InLog, Logging
<1>4. ASSUME NEW t \in Threads, NEW p \in Priorities, NEW throws \in BOOLEAN, CallLog(t, p, throws)
      PROVE  Results'
  <2>1. /\ pc' = [pc EXCEPT ![t] = "filter"] /\ out' = [out EXCEPT ![t] = Silent("filtered")]
        /\ during' = [during EXCEPT ![t] = Near]
    BY <1>4 DEF CallLog, GoTo, Near
  <2>2. /\ pc'[t] = "filter" /\ out'[t] = Silent("filtered")
        /\ \A u \in Threads : u # t => pc'[u] = pc[u] /\ out'[u] = out[u] /\ during'[u] = during[u]
    BY <1>1, <2>1
  <2>3. QED
    BY <1>3, <2>2
<1>5. ASSUME NEW t \in Threads, NEW d \in Streams \cup {Syslog}, NEW n \in Strips, CallConfigure(t, d, n)
      PROVE  Results'
  <2>1. /\ pc' = [pc EXCEPT ![t] = "lock"] /\ out' = [out EXCEPT ![t] = Silent("filtered")]
        /\ during' = [during EXCEPT ![t] = {}]
    BY <1>5 DEF CallConfigure, GoTo
  <2>2. /\ pc'[t] = "lock" /\ out'[t] = Silent("filtered") /\ during'[t] = {}
        /\ \A u \in Threads : u # t => pc'[u] = pc[u] /\ out'[u] = out[u] /\ during'[u] = during[u]
    BY <1>1, <2>1
  <2>3. QED
    BY <1>3, <2>2
<1>6. ASSUME pc' = pc, out' = out, during' = during PROVE Results'
  BY <1>6 DEF Results, InLog
<1>7. ASSUME NEW t \in Threads, NEW l \in MaxLevels, SetMaxlevel(t, l) PROVE Results'
  BY <1>6, <1>7 DEF SetMaxlevel
<1>8. ASSUME Destroy \/ Construct PROVE Results'
  BY <1>6, <1>8 DEF Destroy, Construct
<1>9. CASE UNCHANGED vars
  BY <1>6, <1>9 DEF vars
<1>10. QED
  BY <1>2, <1>4, <1>5, <1>7, <1>8, <1>9, ResultsLog DEF Next

\* The invariant holds in every reachable state.
LEMMA IInvAlways == Spec => [](Shared /\ Readers /\ Results)
<1>1. Init => Readers /\ Results
  <2> SUFFICES ASSUME Init PROVE Readers /\ Results
    OBVIOUS
  <2>1. \A t \in Threads : ~InLog(t) /\ out[t] = Silent("filtered") /\ during[t] = {}
    BY DEF Init, InLog, Logging
  <2>2. QED
    BY <2>1, SilentKind DEF Readers, Results, Good
<1>2. QED
  BY <1>1, SharedInit, SharedStep, ReadersStep, ResultsStep, PTL DEF Spec

\* Without a lock, and whatever the interleaving: a call that no other
\* configuration overlaps does exactly what its configuration asks for.
THEOREM ExactLogging == Spec => []ExactIfUndisturbed
BY IInvAlways, ResultsMean, PTL

\* An entry goes to a destination configured while it was being logged.
THEOREM NoAbandonedDestination == Spec => []CurrentDestination
BY IInvAlways, ResultsMean, PTL

\* Switching from stream to stream loses no entry.
THEOREM NoEntryLost == Spec => []NothingLost
BY IInvAlways, ResultsMean, PTL
=============================================================================
