-------------------------------- MODULE ChildProofs ---------------------------
(***************************************************************************)
(* Theorems about Child, for any set of threads, any number of forks, any  *)
(* size of a pipe and every kind of surroundings.                          *)
(***************************************************************************)
EXTENDS Child, SequenceTheorems, FiniteSetTheorems, WellFoundedInduction, TLAPS

-----------------------------------------------------------------------------
(* Sets of natural numbers                                                   *)

\* A set of numbers that is not empty has a smallest one.
LEMMA SmallestNumber ==
    ASSUME NEW P \in SUBSET Nat, P # {}
    PROVE  \E m \in P : \A y \in P : m <= y
<1>. DEFINE R == OpToRel(<, Nat)
<1>1. IsWellFoundedOn(R, Nat)
    BY NatLessThanWellFounded
<1>2. \E x \in P : \A y \in P : ~ (<<y, x>> \in R)
  <2>. HIDE DEF R
  <2>. QED  BY <1>1, WFMin
<1>3. PICK x \in P : \A y \in P : ~ (<<y, x>> \in R)
    BY <1>2
<1>4. ASSUME NEW y \in P PROVE x <= y
  <2>1. x \in Nat /\ y \in Nat
      OBVIOUS
  <2>2. y < x => <<y, x>> \in R
      BY <2>1 DEF OpToRel
  <2>. HIDE DEF R
  <2>3. ~ (y < x)
      BY <1>3, <2>2
  <2>. QED  BY <2>1, <2>3
<1>. QED  BY <1>4

-----------------------------------------------------------------------------
(* The inductive invariant.                                                  *)

\* Every thread that is about to fork has its place within the bound.
Forking  == {t \in Threads : pc[t] \in {"pipe", "fork"}}
Reserved == IsFiniteSet(Forking) /\ Len(proc) + Cardinality(Forking) <= MaxForks

\* The calls with a child, or with the -1 of a fork() that failed.
Parent(t) == pc[t] \in {"close", "read", "wait"}
Live(p)   == proc[p].st \notin {"zombie", "reaped"}

\* A thread has the ends of its pipe open that it is to have, or the one that an
\* exception of log() has left.
Descriptors == \A t \in Threads :
                  /\ pc[t] \in {"pipe", "close", "read"} => capture[t]
                  /\ \/ fds[t] = IF capture[t] /\ pc[t] \in {"fork", "close"} THEN {"r", "w"}
                                 ELSE IF pc[t] = "read" THEN {"r"} ELSE {}
                     \/ pc[t] = "idle" /\ fds[t] = {"r"} /\ program.signals /\ ~program.logs

\* The pid a thread remembers is that of a process it has forked.
Own == \A t \in Threads :
          /\ child[t] \in Forked \cup {0, Failed}
          /\ child[t] \in Forked => proc[child[t]].by = t
          /\ child[t] = Failed => program.forkFails
          /\ Parent(t) => child[t] # 0

\* Until its child is dead, the pipe of a thread has a writer.
Attached == \A t \in Threads :
               Parent(t) /\ capture[t] /\ child[t] \in Forked /\ Live(child[t]) => t \in proc[child[t]].w

\* One process at most writes to a pipe, and nothing is in it before it begins.
OneWriter == /\ \A p, q \in Forked : Piped(p) /\ Piped(q) /\ proc[p].by = proc[q].by => p = q
             /\ \A p \in Forked : Piped(p) /\ proc[p].st = "setup" => sent[proc[p].by] = <<>>
             /\ \A t \in Threads : capture[t] /\ pc[t] = "fork" =>
                   sent[t] = <<>> /\ \A p \in Forked : proc[p].by = t => ~Piped(p)

\* A command that dies with something left to write was killed.
Unwritten == \A p \in Forked : proc[p].todo # 0 =>
                \/ proc[p].st = "command"
                \/ proc[p].st \in {"zombie", "reaped"} /\ proc[p].status = Thrown

\* Only the thread that forked a process reaps it, if fork() never fails.
Unreaped == ~program.forkFails =>
               \A t \in Threads : Parent(t) => child[t] \in Forked /\ proc[child[t]].st # "reaped"

\* What was read is all there is, and nobody can add to it.
Drained(t) == Writers(t) = {} /\ got[t] = Len(sent[t]) /\ output[t] = Text(sent[t])
Complete == ~program.signals =>
               \A t \in Threads : capture[t] =>
                  /\ pc[t] = "wait" \/ Returned(t) => Drained(t)
                  /\ Returned(t) /\ child[t] # Failed => proc[child[t]].todo = 0

\* Every process that is not reaped has a thread that will wait for it.
Awaited == ~program.signals =>
              \A p \in Forked : proc[p].st # "reaped" => child[proc[p].by] = p /\ Parent(proc[p].by)

IInv == /\ TypeOK /\ Reserved /\ Descriptors /\ Own /\ Attached /\ OneWriter /\ Unwritten
        /\ Unreaped /\ StatusIsOwn /\ Complete /\ Awaited

-----------------------------------------------------------------------------
(* Facts about the state.                                                    *)

\* Pids are positive, and none of them is the -1 of a fork() that failed.
LEMMA Numbers ==
    ASSUME proc \in Seq(Process)
    PROVE  /\ Len(proc) \in Nat /\ Forked = 1..Len(proc)
           /\ 0 \notin Forked /\ Failed \notin Forked /\ Len(proc) + 1 \notin Forked
           /\ \A p \in Forked : p \in Int /\ proc[p] \in Process
BY LenProperties, ElementOfSeq DEF Forked, Failed

\* A process whose record is replaced.
LEMMA Replaced ==
    ASSUME proc \in Seq(Process), NEW p \in Forked, NEW x \in Process, proc' = [proc EXCEPT ![p] = x]
    PROVE  /\ proc' \in Seq(Process) /\ Len(proc') = Len(proc) /\ Forked' = Forked
           /\ proc'[p] = x /\ \A q \in Forked : q # p => proc'[q] = proc[q]
<1>1. p \in 1..Len(proc) /\ Forked = 1..Len(proc)
    BY Numbers
<1>2. /\ proc' \in Seq(Process) /\ Len(proc') = Len(proc)
      /\ \A q \in 1..Len(proc) : proc'[q] = IF q = p THEN x ELSE proc[q]
    BY <1>1, ExceptSeq
<1>3. Forked' = 1..Len(proc')
    BY <1>2, LenProperties DEF Forked
<1>. QED  BY <1>1, <1>2, <1>3

\* What is kept of a text is a text.
LEMMA TextOfText ==
    ASSUME NEW s \in Seq(Chunks)
    PROVE  Text(s) \in Seq(Chunks)
<1>. DEFINE I == {i \in 1..Len(s) : s[i] = "nul"}
<1>1. CASE Contains(s, "nul")
  <2>1. I # {} /\ I \in SUBSET Nat
      BY <1>1, LenProperties DEF Contains
  <2>2. \E m \in I : \A y \in I : m <= y
    <3>. HIDE DEF I
    <3>. QED  BY <2>1, SmallestNumber
  <2>3. Min(I) \in I
    <3>. HIDE DEF I
    <3>. QED  BY <2>2 DEF Min
  <2>4. SelectInSeq(s, LAMBDA c : c = "nul") = Min(I)
      BY <2>1 DEF SelectInSeq
  <2>5. Text(s) = SubSeq(s, 1, Min(I))
      BY <1>1, <2>4 DEF Text
  <2>. DEFINE n == Min(I)
  <2>6. n \in 1..Len(s) /\ n \in Int
      BY <2>3, LenProperties
  <2>. HIDE DEF n
  <2>7. \A i \in 1..n : s[i] \in Chunks
      BY <2>6, ElementOfSeq, LenProperties
  <2>8. SubSeq(s, 1, n) \in Seq(Chunks)
      BY <2>6, <2>7, SubSeqProperties
  <2>. QED  BY <2>5, <2>8 DEF n
<1>2. CASE ~Contains(s, "nul")
    BY <1>2 DEF Text
<1>. QED  BY <1>1, <1>2

\* In the beginning nothing is forked.
LEMMA InitIInv == Init => IInv
<1>. SUFFICES ASSUME Init PROVE IInv
    OBVIOUS
<1>. USE DEF Init, Idle, Forked, Thrown, Failed, Pids
<1>1. <<>> \in Seq(Chunks) /\ <<>> \in Seq(Process) /\ Len(<<>>) = 0 /\ DOMAIN <<>> = {}
    BY EmptySeq
<1>2. TypeOK
    BY <1>1, ChildAssumption DEF TypeOK
<1>3. Forking = {}
    BY DEF Forking
<1>4. Reserved
    BY <1>1, <1>3, FS_EmptySet, ChildAssumption DEF Reserved
<1>5. Descriptors /\ Own /\ Attached /\ OneWriter /\ Unwritten
    BY <1>1 DEF Descriptors, Own, Attached, OneWriter, Unwritten, Parent, Piped
<1>6. Unreaped /\ StatusIsOwn /\ Complete /\ Awaited
    BY <1>1 DEF Unreaped, StatusIsOwn, Complete, Awaited, Parent, Returned
<1>. QED  BY <1>2, <1>4, <1>5, <1>6 DEF IInv

-----------------------------------------------------------------------------
(* The child processes.                                                      *)

\* A process that is alive goes on or dies: x is what becomes of it.
Turns(p, x) == /\ x \in Process /\ proc' = [proc EXCEPT ![p] = x]
               /\ Live(p) /\ x.st \notin {"setup", "reaped"} /\ x.by = proc[p].by
               /\ x.w = IF x.st = "zombie" THEN {} ELSE proc[p].w
               /\ x.todo # 0 => x.st = "command" \/ (x.st = "zombie" /\ x.status = Thrown)

\* What it writes fits into its pipe.
Fits(p, c) == /\ c \in Chunks /\ Piped(p) /\ Writes(p, c)
              /\ Len(sent[proc[p].by]) - got[proc[p].by] < PipeSize

\* What a process writes goes to the pipe of the thread that forked it, and to no other.
LEMMA PipeTyped ==
    ASSUME TypeOK, proc \in Seq(Process), NEW p \in Forked, NEW c, Fits(p, c)
    PROVE  /\ sent' \in [Threads -> Seq(Chunks)]
           /\ \A t \in Threads : t # proc[p].by => sent'[t] = sent[t]
           /\ Len(sent'[proc[p].by]) = Len(sent[proc[p].by]) + 1
<1>. DEFINE t == proc[p].by
<1>1. t \in Threads /\ sent \in [Threads -> Seq(Chunks)]
    BY Numbers DEF Process, TypeOK
<1>2. sent' = [sent EXCEPT ![t] = Append(@, c)] /\ c \in Chunks
    BY DEF Fits, Writes
<1>. HIDE DEF t
<1>3. Append(sent[t], c) \in Seq(Chunks) /\ Len(Append(sent[t], c)) = Len(sent[t]) + 1
    BY <1>1, <1>2, AppendProperties
<1>4. /\ sent' \in [Threads -> Seq(Chunks)]
      /\ \A u \in Threads : u # t => sent'[u] = sent[u]
      /\ Len(sent'[t]) = Len(sent[t]) + 1
    BY <1>1, <1>2, <1>3
<1>. QED  BY <1>4 DEF t

\* No step of a child disturbs what its parent relies on.
LEMMA ChildKeeps ==
    ASSUME IInv, program' = program, UNCHANGED ofParent,
           NEW p \in Forked, NEW x, Turns(p, x),
           UNCHANGED sent \/ \E c \in Chunks : Fits(p, c)
    PROVE  IInv'
<1>1. TypeOK /\ proc \in Seq(Process)
    BY DEF IInv, TypeOK
<1>2. /\ Forked = 1..Len(proc) /\ Failed \notin Forked /\ 0 \notin Forked
      /\ \A q \in Forked : proc[q] \in Process
    BY <1>1, Numbers
<1>3. /\ proc' \in Seq(Process) /\ Len(proc') = Len(proc) /\ Forked' = Forked
      /\ proc'[p] = x /\ \A q \in Forked : q # p => proc'[q] = proc[q]
    BY <1>1, Replaced DEF Turns
<1>4. UNCHANGED <<pc, capture, child, fds, got, output, result, logger>>
    BY DEF ofParent
<1>5. /\ \A q \in Forked : /\ proc'[q].by = proc[q].by /\ proc'[q].w \subseteq proc[q].w
                           /\ proc'[q].st = "setup" => proc[q].st = "setup"
                           /\ proc'[q].st = "reaped" <=> proc[q].st = "reaped"
      /\ \A q \in Forked : q # p => proc'[q] = proc[q]
      /\ proc[p].st # "reaped" /\ x.st # "setup"
    BY <1>2, <1>3 DEF Turns, Process, Live
<1>6. \A q \in Forked : Live(q)' => Live(q) /\ proc'[q].w = proc[q].w
    BY <1>3 DEF Live, Turns
<1>7. \A q \in Forked : Piped(q)' => Piped(q)
    BY <1>5 DEF Piped
<1>8. \A t \in Threads : Writers(t)' \subseteq Writers(t)
    BY <1>3, <1>5 DEF Writers
<1>9. /\ sent' \in [Threads -> Seq(Chunks)]
      /\ \A t \in Threads : sent'[t] # sent[t] => t = proc[p].by /\ Piped(p)
      /\ \A t \in Threads : Len(sent'[t]) - got[t] <= PipeSize /\ got[t] \in 0..Len(sent'[t])
  <2>1. CASE UNCHANGED sent
      BY <2>1, <1>1 DEF TypeOK
  <2>2. ASSUME NEW c \in Chunks, Fits(p, c) PROVE <1>9
    <3>1. /\ sent' \in [Threads -> Seq(Chunks)]
          /\ \A t \in Threads : t # proc[p].by => sent'[t] = sent[t]
          /\ Len(sent'[proc[p].by]) = Len(sent[proc[p].by]) + 1
        BY <1>1, <2>2, PipeTyped
    <3>2. \A t \in Threads : Len(sent[t]) \in Nat /\ got[t] \in 0..Len(sent[t]) /\ Len(sent[t]) - got[t] <= PipeSize
        BY <1>1, LenProperties DEF TypeOK
    <3>3. Piped(p) /\ Len(sent[proc[p].by]) - got[proc[p].by] < PipeSize
        BY <2>2 DEF Fits
    <3>4. PipeSize \in Nat
        BY ChildAssumption
    <3>5. ASSUME NEW t \in Threads
          PROVE  /\ sent'[t] # sent[t] => t = proc[p].by
                 /\ Len(sent'[t]) - got[t] <= PipeSize /\ got[t] \in 0..Len(sent'[t])
      <4>1. CASE t = proc[p].by
          BY <4>1, <3>1, <3>2, <3>3, <3>4
      <4>2. CASE t # proc[p].by
          BY <4>2, <3>1, <3>2
      <4>. QED  BY <4>1, <4>2
    <3>. QED  BY <3>1, <3>3, <3>5
  <2>. QED  BY <2>1, <2>2
<1>10. TypeOK'
    BY <1>1, <1>3, <1>4, <1>9 DEF TypeOK
<1>11. Reserved'
    BY <1>3, <1>4 DEF IInv, Reserved, Forking
<1>12. Descriptors'
    BY <1>4 DEF IInv, Descriptors
<1>13. Own' /\ Attached'
    BY <1>3, <1>4, <1>5, <1>6 DEF IInv, Own, Attached, Parent
<1>14. OneWriter'
  <2>1. \A q, r \in Forked : Piped(q)' /\ Piped(r)' /\ proc'[q].by = proc'[r].by => q = r
      BY <1>5, <1>7 DEF IInv, OneWriter
  <2>2. \A q \in Forked : Piped(q)' /\ proc'[q].st = "setup" => sent'[proc'[q].by] = <<>>
    <3>. SUFFICES ASSUME NEW q \in Forked, Piped(q)', proc'[q].st = "setup" PROVE sent'[proc'[q].by] = <<>>
        OBVIOUS
    <3>1. Piped(q) /\ q # p /\ proc[q].st = "setup" /\ proc'[q].by = proc[q].by /\ proc[q].by \in Threads
        BY <1>2, <1>3, <1>5, <1>7 DEF Process
    <3>2. sent[proc[q].by] = <<>> /\ ~(Piped(p) /\ proc[p].by = proc[q].by)
        BY <3>1 DEF IInv, OneWriter
    <3>. QED  BY <3>1, <3>2, <1>9
  <2>3. ASSUME NEW t \in Threads, capture[t], pc[t] = "fork"
        PROVE  sent'[t] = <<>> /\ \A q \in Forked : proc'[q].by = t => ~Piped(q)'
      BY <2>3, <1>5, <1>7, <1>9 DEF IInv, OneWriter
  <2>. QED  BY <2>1, <2>2, <2>3, <1>3, <1>4 DEF OneWriter
<1>15. Unwritten'
    BY <1>3 DEF IInv, Unwritten, Turns
<1>16. Unreaped'
    BY <1>3, <1>4, <1>5 DEF IInv, Unreaped, Parent
<1>17. StatusIsOwn'
  <2>. SUFFICES ASSUME ~program.forkFails, NEW t \in Threads, Returned(t)
                PROVE  proc'[child[t]].st = "reaped" /\ proc'[child[t]].status = result[t]
      BY <1>4 DEF StatusIsOwn, Returned, Idle
  <2>1. child[t] \in Forked
      BY DEF IInv, Own, Returned
  <2>2. proc[child[t]].st = "reaped" /\ proc[child[t]].status = result[t]
      BY DEF IInv, StatusIsOwn
  <2>. QED  BY <2>1, <2>2, <1>5
<1>18. Awaited'
    BY <1>3, <1>4, <1>5 DEF IInv, Awaited, Parent
<1>19. Complete'
  <2>. SUFFICES ASSUME ~program.signals, NEW t \in Threads, capture[t]
                PROVE  /\ (pc[t] = "wait" \/ Returned(t)) => Drained(t)'
                       /\ Returned(t) /\ child[t] # Failed => proc'[child[t]].todo = 0
      BY <1>4 DEF Complete, Returned, Idle
  <2>1. ASSUME pc[t] = "wait" \/ Returned(t) PROVE Drained(t)'
    <3>1. Drained(t)
        BY <2>1 DEF IInv, Complete
    <3>2. Writers(t) = {}
        BY <3>1 DEF Drained
    <3>3. sent'[t] = sent[t]
        BY <3>2, <1>9 DEF Piped, Writers
    <3>4. Writers(t)' = {}
        BY <3>2, <1>8
    <3>. QED  BY <3>1, <3>3, <3>4, <1>4 DEF Drained
  <2>2. ASSUME Returned(t), child[t] # Failed PROVE proc'[child[t]].todo = 0
    <3>1. child[t] \in Forked /\ proc[child[t]].by = t
        BY <2>2 DEF IInv, Own, Returned
    <3>2. proc[child[t]].st = "reaped"
        BY <2>2, <3>1 DEF IInv, Awaited, Parent, Returned, Idle
    <3>3. proc[child[t]].todo = 0
        BY <2>2 DEF IInv, Complete
    <3>. QED  BY <3>1, <3>2, <3>3, <1>5
  <2>. QED  BY <2>1, <2>2
<1>. QED  BY <1>10, <1>11, <1>12, <1>13, <1>14, <1>15, <1>16, <1>17, <1>18, <1>19 DEF IInv

\* The death of a process is one of the changes that ChildKeeps is about.
LEMMA Dying ==
    ASSUME IInv, NEW p \in Forked, Live(p), NEW s \in {Thrown, 0, 1}, Dies(p, s),
           proc[p].todo = 0 \/ s = Thrown
    PROVE  \E x : Turns(p, x)
<1>1. proc[p] \in Process
    BY Numbers DEF IInv, TypeOK
<1>. DEFINE x == [proc[p] EXCEPT !.st = "zombie", !.status = s, !.w = {}]
<1>2. x \in Process /\ x.st = "zombie" /\ x.by = proc[p].by /\ x.w = {}
      /\ x.status = s /\ x.todo = proc[p].todo
    BY <1>1 DEF Process
<1>3. proc' = [proc EXCEPT ![p] = x]
    BY DEF Dies
<1>. HIDE DEF x
<1>4. Turns(p, x)
    BY <1>2, <1>3 DEF Turns
<1>. QED  BY <1>4

\* So is a process between fork and exec that gets stuck, becomes a second copy of the
\* program or begins to exit.
LEMMA Becoming ==
    ASSUME IInv, NEW p \in Forked, Live(p), NEW s \in {"copy", "stuck", "exiting"}, Becomes(p, s), proc[p].todo = 0
    PROVE  \E x : Turns(p, x)
<1>1. proc[p] \in Process
    BY Numbers DEF IInv, TypeOK
<1>. DEFINE x == [proc[p] EXCEPT !.st = s]
<1>2. x \in Process /\ x.st = s /\ x.by = proc[p].by /\ x.w = proc[p].w /\ x.todo = proc[p].todo
    BY <1>1 DEF Process
<1>3. proc' = [proc EXCEPT ![p] = x]
    BY DEF Becomes
<1>. HIDE DEF x
<1>4. Turns(p, x)
    BY <1>2, <1>3 DEF Turns
<1>. QED  BY <1>4

\* execvpe() replaces the process, with so much still to be written.
LEMMA ExecKeeps ==
    ASSUME IInv, program' = program, NEW p \in Forked, Exec(p)
    PROVE  IInv'
<1>1. proc[p] \in Process
    BY Numbers DEF IInv, TypeOK
<1>2. PICK n \in IF Piped(p) THEN 0..MaxChunks ELSE {0} :
          proc' = [proc EXCEPT ![p] = [@ EXCEPT !.st = "command", !.todo = n]]
    BY DEF Exec
<1>. DEFINE x == [proc[p] EXCEPT !.st = "command", !.todo = n]
<1>3. n \in 0..MaxChunks
    BY <1>2, ChildAssumption
<1>4. x \in Process /\ x.st = "command" /\ x.by = proc[p].by /\ x.w = proc[p].w
    BY <1>1, <1>3 DEF Process
<1>5. proc' = [proc EXCEPT ![p] = x] /\ Live(p)
    BY <1>2 DEF Exec, Live
<1>. HIDE DEF x
<1>6. Turns(p, x) /\ UNCHANGED sent /\ UNCHANGED ofParent
    BY <1>4, <1>5 DEF Turns, Exec
<1>. QED  BY <1>6, ChildKeeps

\* A child that has not executed its command has written nothing yet: its
\* message fits into the pipe.
LEMMA ExecFailsKeeps ==
    ASSUME IInv, program' = program, NEW p \in Forked, ExecFails(p)
    PROVE  IInv'
<1>1. proc[p].st = "setup" /\ Live(p) /\ UNCHANGED ofParent
    BY DEF ExecFails, Live
<1>2. proc[p].todo = 0
    BY <1>1 DEF IInv, Unwritten
<1>3. (\E x : Turns(p, x)) /\ (UNCHANGED sent \/ (Piped(p) /\ Writes(p, "text")))
  <2>1. CASE Becomes(p, "exiting") /\ (UNCHANGED sent \/ (Piped(p) /\ Writes(p, "text")))
      BY <2>1, <1>1, <1>2, Becoming
  <2>2. CASE Becomes(p, "stuck") /\ UNCHANGED sent
      BY <2>2, <1>1, <1>2, Becoming
  <2>3. CASE Becomes(p, "copy") /\ UNCHANGED sent
      BY <2>3, <1>1, <1>2, Becoming
  <2>. QED  BY <2>1, <2>2, <2>3 DEF ExecFails
<1>4. ASSUME Piped(p), Writes(p, "text") PROVE Fits(p, "text")
  <2>1. sent[proc[p].by] = <<>> /\ proc[p].by \in Threads
      BY <1>1, <1>4, Numbers DEF IInv, OneWriter, TypeOK, Process
  <2>2. got[proc[p].by] \in 0..0 /\ PipeSize \in Nat \ {0} /\ Len(sent[proc[p].by]) = 0
      BY <2>1, EmptySeq, ChildAssumption DEF IInv, TypeOK
  <2>. QED  BY <1>4, <2>2 DEF Fits, Chunks
<1>5. UNCHANGED sent \/ \E c \in Chunks : Fits(p, c)
    BY <1>3, <1>4 DEF Chunks
<1>. QED  BY <1>1, <1>3, <1>5, ChildKeeps

\* The process gets stuck on the logger's mutex, or leaves run() as a copy of the program.
LEMMA SetupFailsKeeps ==
    ASSUME IInv, program' = program, NEW p \in Forked, SetupFails(p)
    PROVE  IInv'
<1>1. proc[p].st = "setup" /\ Live(p) /\ UNCHANGED ofParent /\ UNCHANGED sent
    BY DEF SetupFails, Live
<1>2. proc[p].todo = 0
    BY <1>1 DEF IInv, Unwritten
<1>3. \E s \in {"copy", "stuck"} : Becomes(p, s)
    BY DEF SetupFails
<1>4. \E x : Turns(p, x)
    BY <1>1, <1>2, <1>3, Becoming
<1>. QED  BY <1>1, <1>4, ChildKeeps

\* The command writes a chunk, for which the pipe has room.
LEMMA WriteKeeps ==
    ASSUME IInv, program' = program, NEW p \in Forked, Write(p)
    PROVE  IInv'
<1>1. proc[p] \in Process
    BY Numbers DEF IInv, TypeOK
<1>. DEFINE x == [proc[p] EXCEPT !.todo = @ - 1]
<1>2. /\ x \in Process /\ x.st = "command" /\ x.by = proc[p].by /\ x.w = proc[p].w
    BY <1>1, ChildAssumption DEF Process, Write
<1>3. proc' = [proc EXCEPT ![p] = x] /\ Live(p)
    BY DEF Write, Live
<1>. HIDE DEF x
<1>4. Turns(p, x) /\ UNCHANGED ofParent
    BY <1>2, <1>3 DEF Turns, Write
<1>5. \E c \in Chunks : Fits(p, c)
    BY DEF Write, Fits
<1>. QED  BY <1>4, <1>5, ChildKeeps

\* A command, or a copy of the program, dies.
LEMMA DeathKeeps ==
    ASSUME IInv, program' = program, NEW p \in Forked, Exit(p) \/ Killed(p) \/ CopyEnds(p)
    PROVE  IInv'
<1>1. Live(p) /\ UNCHANGED sent /\ UNCHANGED ofParent
    BY DEF Exit, Killed, CopyEnds, Live
<1>2. \E s \in {Thrown, 0, 1} : Dies(p, s) /\ (proc[p].todo = 0 \/ s = Thrown)
  <2>1. CASE Exit(p)
      BY <2>1 DEF Exit
  <2>2. CASE Killed(p)
      BY <2>2 DEF Killed
  <2>3. CASE CopyEnds(p)
      BY <2>3 DEF CopyEnds, IInv, Unwritten
  <2>. QED  BY <2>1, <2>2, <2>3
<1>3. \E x : Turns(p, x)
    BY <1>1, <1>2, Dying
<1>. QED  BY <1>1, <1>3, ChildKeeps

-----------------------------------------------------------------------------
(* The threads.                                                              *)


\* A thread calls run().
LEMMA CallKeeps ==
    ASSUME IInv, program' = program, NEW t \in Threads, Call(t)
    PROVE  IInv'
<1>1. /\ TypeOK /\ Idle(t) /\ fds[t] = {} /\ proc \in Seq(Process)
      /\ UNCHANGED <<fds, sent, got, output, proc, logger>>
      /\ child' = [child EXCEPT ![t] = 0] /\ result' = [result EXCEPT ![t] = Thrown]
    BY DEF IInv, TypeOK, Call, pipe
<1>2. PICK c \in BOOLEAN :
          /\ capture' = [capture EXCEPT ![t] = c]
          /\ pc' = [pc EXCEPT ![t] = IF c THEN "pipe" ELSE "fork"]
    BY DEF Call
<1>3. /\ pc'[t] \in {"pipe", "fork"} /\ (pc'[t] = "pipe" <=> capture'[t])
      /\ child'[t] = 0 /\ result'[t] = Thrown
      /\ \A u \in Threads : u # t => /\ pc'[u] = pc[u] /\ capture'[u] = capture[u]
                                     /\ child'[u] = child[u] /\ result'[u] = result[u]
      /\ ~capture'[t] \/ pc'[t] # "fork"
      /\ pc' \in [Threads -> {"idle", "pipe", "fork", "close", "read", "wait"}]
      /\ capture' \in [Threads -> BOOLEAN]
  <2>1. CASE c
      BY <2>1, <1>1, <1>2 DEF TypeOK
  <2>2. CASE ~c
      BY <2>2, <1>1, <1>2 DEF TypeOK
  <2>. QED  BY <2>1, <2>2
<1>4. pc[t] = "idle" /\ ~Parent(t) /\ ~Parent(t)' /\ ~Returned(t)'
    BY <1>1, <1>3 DEF Idle, Parent, Returned
<1>5. \A u \in Threads : u # t => /\ Parent(u)' <=> Parent(u)
                                  /\ Returned(u)' <=> Returned(u)
                                  /\ Idle(u)' <=> Idle(u)
    BY <1>1, <1>3 DEF Parent, Returned, Idle
<1>6. TypeOK'
    BY <1>1, <1>3 DEF TypeOK
<1>7. Reserved'
  <2>1. Forking' = Forking \cup {t} /\ t \notin Forking
      BY <1>3, <1>4 DEF Forking
  <2>2. IsFiniteSet(Forking) /\ Len(proc) + Cardinality(Forking) < MaxForks
      BY DEF IInv, Reserved, Call, Forking
  <2>3. IsFiniteSet(Forking') /\ Cardinality(Forking') = Cardinality(Forking) + 1
      BY <2>1, <2>2, FS_AddElement
  <2>4. Cardinality(Forking) \in Nat /\ Len(proc) \in Nat /\ MaxForks \in Nat
      BY <1>1, <2>2, FS_CardinalityType, LenProperties, ChildAssumption
  <2>. QED  BY <1>1, <2>2, <2>3, <2>4 DEF Reserved
<1>8. Descriptors'
    BY <1>1, <1>3, <1>4 DEF IInv, Descriptors
<1>9. Own'
  <2>1. Forked' = Forked /\ 0 \notin Forked /\ 0 # Failed
      BY <1>1, Numbers DEF Forked, Failed
  <2>2. ASSUME NEW u \in Threads
        PROVE  /\ child'[u] \in Forked \cup {0, Failed}
               /\ child'[u] \in Forked => proc[child'[u]].by = u
               /\ child'[u] = Failed => program.forkFails
               /\ Parent(u)' => child'[u] # 0
    <3>1. CASE u = t
        BY <3>1, <2>1, <1>3, <1>4
    <3>2. CASE u # t
        BY <3>2, <1>3, <1>5 DEF IInv, Own
    <3>. QED  BY <3>1, <3>2
  <2>. QED  BY <1>1, <2>1, <2>2 DEF Own
<1>10. Attached'
    BY <1>1, <1>3, <1>4, <1>5 DEF IInv, Attached, Forked, Live
<1>11. OneWriter'
    BY <1>1, <1>3 DEF IInv, OneWriter, Forked, Piped
<1>12. Unwritten'
    BY <1>1 DEF IInv, Unwritten, Forked
<1>13. Unreaped'
    BY <1>1, <1>3, <1>4, <1>5 DEF IInv, Unreaped, Forked
<1>14. StatusIsOwn'
    BY <1>1, <1>3, <1>4, <1>5 DEF IInv, StatusIsOwn
<1>15. Complete'
    BY <1>1, <1>3, <1>4, <1>5 DEF IInv, Complete, Drained, Writers, Forked
<1>16. Awaited'
  <2>1. ~program.signals => \A p \in Forked : proc[p].st # "reaped" => proc[p].by # t
      BY <1>4 DEF IInv, Awaited
  <2>2. \A p \in Forked : proc[p].by \in Threads
      BY <1>1, Numbers DEF Process
  <2>. QED  BY <1>1, <1>3, <1>5, <2>1, <2>2 DEF IInv, Awaited, Forked
<1>. QED  BY <1>6, <1>7, <1>8, <1>9, <1>10, <1>11, <1>12, <1>13, <1>14, <1>15, <1>16 DEF IInv

\* What t does in run() when it touches neither a process nor what is in a pipe,
\* and is not going to fork: others are not concerned.
LEMMA MoveKeeps ==
    ASSUME IInv, TypeOK', program' = program, UNCHANGED <<capture, sent, proc, logger>>,
           NEW t \in Threads,
           \A u \in Threads : u # t =>
              /\ pc'[u] = pc[u] /\ child'[u] = child[u] /\ fds'[u] = fds[u]
              /\ got'[u] = got[u] /\ output'[u] = output[u] /\ result'[u] = result[u],
           pc'[t] \notin {"pipe", "fork"},
           pc'[t] \in {"close", "read"} => capture[t],
           \/ fds'[t] = IF capture[t] /\ pc'[t] = "close" THEN {"r", "w"}
                        ELSE IF pc'[t] = "read" THEN {"r"} ELSE {}
           \/ pc'[t] = "idle" /\ fds'[t] = {"r"} /\ program.signals /\ ~program.logs,
           \/ child'[t] = child[t] /\ (Parent(t)' => Parent(t))
           \/ child'[t] = Failed /\ program.forkFails /\ ~Parent(t),
           Returned(t)' => child'[t] = Failed,
           ~program.signals /\ capture[t] /\ (pc'[t] = "wait" \/ Returned(t)') => Drained(t)',
           ~program.signals /\ Parent(t) /\ ~Parent(t)' =>
              \A p \in Forked : proc[p].by = t => proc[p].st = "reaped"
    PROVE  IInv'
<1>1. /\ TypeOK /\ proc \in Seq(Process) /\ Forked' = Forked
      /\ 0 \notin Forked /\ Failed \notin Forked /\ \A p \in Forked : proc[p].by \in Threads
    BY Numbers DEF IInv, TypeOK, Forked, Process
<1>2. \A u \in Threads : u # t =>
         /\ Parent(u)' <=> Parent(u)
         /\ Returned(u)' <=> Returned(u)
    BY DEF Parent, Returned, Idle
<1>3. \A u \in Threads : u # t => (Drained(u)' <=> Drained(u))
    BY <1>1 DEF Drained, Writers
<1>4. Reserved'
  <2>1. Forking' = Forking \ {t}
      BY DEF Forking
  <2>2. IsFiniteSet(Forking) /\ Len(proc) + Cardinality(Forking) <= MaxForks
      BY DEF IInv, Reserved
  <2>3. IsFiniteSet(Forking') /\ Cardinality(Forking') \in {Cardinality(Forking), Cardinality(Forking) - 1}
      BY <2>1, <2>2, FS_RemoveElement
  <2>4. Cardinality(Forking) \in Nat /\ Len(proc) \in Nat /\ MaxForks \in Nat
      BY <1>1, <2>2, FS_CardinalityType, LenProperties, ChildAssumption
  <2>. QED  BY <1>1, <2>2, <2>3, <2>4 DEF Reserved
<1>5. Descriptors'
    BY DEF IInv, Descriptors
<1>6. Own'
  <2>. SUFFICES ASSUME NEW u \in Threads
                PROVE  /\ child'[u] \in Forked \cup {0, Failed}
                       /\ child'[u] \in Forked => proc[child'[u]].by = u
                       /\ child'[u] = Failed => program.forkFails
                       /\ Parent(u)' => child'[u] # 0
      BY <1>1 DEF Own
  <2>1. CASE child'[u] = child[u] /\ (Parent(u)' => Parent(u))
      BY <2>1 DEF IInv, Own
  <2>2. CASE child'[u] = Failed /\ program.forkFails
      BY <2>2, <1>1 DEF Failed
  <2>. QED  BY <2>1, <2>2, <1>2
<1>7. Attached'
    BY <1>1, <1>2 DEF IInv, Attached, Live
<1>8. OneWriter'
    BY <1>1 DEF IInv, OneWriter, Piped
<1>9. Unwritten'
    BY <1>1 DEF IInv, Unwritten
<1>10. Unreaped'
    BY <1>1, <1>2 DEF IInv, Unreaped
<1>11. StatusIsOwn'
    BY <1>2, <1>6 DEF IInv, StatusIsOwn, Own
<1>12. Complete'
  <2>. SUFFICES ASSUME ~program.signals, NEW u \in Threads, capture[u]
                PROVE  /\ (pc'[u] = "wait" \/ Returned(u)') => Drained(u)'
                       /\ Returned(u)' /\ child'[u] # Failed => proc[child'[u]].todo = 0
      BY DEF Complete
  <2>1. CASE u = t
      BY <2>1
  <2>2. CASE u # t
      BY <2>2, <1>2, <1>3 DEF IInv, Complete
  <2>. QED  BY <2>1, <2>2
<1>13. Awaited'
  <2>. SUFFICES ASSUME ~program.signals, NEW p \in Forked, proc[p].st # "reaped"
                PROVE  child'[proc[p].by] = p /\ Parent(proc[p].by)'
      BY <1>1 DEF Awaited
  <2>1. child[proc[p].by] = p /\ Parent(proc[p].by) /\ proc[p].by \in Threads
      BY <1>1 DEF IInv, Awaited
  <2>2. CASE proc[p].by = t
      BY <2>1, <2>2
  <2>3. CASE proc[p].by # t
      BY <2>1, <2>3, <1>2
  <2>. QED  BY <2>2, <2>3
<1>. QED  BY <1>4, <1>5, <1>6, <1>7, <1>8, <1>9, <1>10, <1>11, <1>12, <1>13 DEF IInv

\* pipe() fails, and run() throws before there is a process.
LEMMA PipeFailsKeeps ==
    ASSUME IInv, program' = program, NEW t \in Threads, PipeFails(t)
    PROVE  IInv'
<1>1. TypeOK /\ UNCHANGED <<capture, child, fds, sent, got, output, proc, logger>>
    BY DEF IInv, PipeFails, pipe
<1>2. pc[t] = "pipe" /\ pc' = [pc EXCEPT ![t] = "idle"] /\ result' = [result EXCEPT ![t] = Thrown]
    BY DEF PipeFails, Throw
<1>3. TypeOK'
    BY <1>1, <1>2 DEF TypeOK
<1>4. /\ pc'[t] = "idle" /\ result'[t] = Thrown
      /\ \A u \in Threads : u # t => pc'[u] = pc[u] /\ result'[u] = result[u]
    BY <1>1, <1>2 DEF TypeOK
<1>5. ~Parent(t) /\ ~Parent(t)' /\ ~Returned(t)' /\ fds[t] = {}
    BY <1>2, <1>4 DEF Parent, Returned, IInv, Descriptors
<1>. QED  BY <1>1, <1>3, <1>4, <1>5, MoveKeeps

\* Fs2a::run() throws; Child::run() goes on with the -1 that fork() returned.
LEMMA ForkFailsKeeps ==
    ASSUME IInv, program' = program, NEW t \in Threads, ForkFails(t)
    PROVE  IInv'
<1>1. TypeOK /\ UNCHANGED <<capture, fds, sent, got, output, proc, logger>>
    BY DEF IInv, ForkFails, pipe
<1>2. pc[t] = "fork" /\ program.forkFails /\ child' = [child EXCEPT ![t] = Failed]
    BY DEF ForkFails
<1>3. \/ /\ ~capture[t] /\ pc' = [pc EXCEPT ![t] = "idle"] /\ result' = [result EXCEPT ![t] = Thrown]
      \/ /\ result' = result
         /\ pc' = [pc EXCEPT ![t] = IF capture[t] THEN "close" ELSE "wait"]
    BY DEF ForkFails, Throw, AfterFork
<1>4. /\ child'[t] = Failed
      /\ \A u \in Threads : u # t => pc'[u] = pc[u] /\ result'[u] = result[u] /\ child'[u] = child[u]
    BY <1>1, <1>2, <1>3 DEF TypeOK
<1>5. /\ pc'[t] \in {"idle", "close", "wait"} /\ (pc'[t] = "close" => capture[t])
      /\ (capture[t] => pc'[t] = "close") /\ ~Parent(t)
    BY <1>1, <1>2, <1>3 DEF TypeOK, Parent
<1>6. pc' \in [Threads -> {"idle", "pipe", "fork", "close", "read", "wait"}] /\ result' \in [Threads -> {Thrown, 0, 1}]
    BY <1>1, <1>3 DEF TypeOK
<1>7. TypeOK'
    BY <1>1, <1>2, <1>6 DEF TypeOK
<1>8. fds[t] = IF capture[t] THEN {"r", "w"} ELSE {}
    BY <1>2 DEF IInv, Descriptors
<1>9. ~(capture[t] /\ (pc'[t] = "wait" \/ Returned(t)'))
    BY <1>5 DEF Returned, Idle
<1>. QED  BY <1>1, <1>2, <1>4, <1>5, <1>7, <1>8, <1>9, MoveKeeps

\* The parent closes its writing end, before it reads.
LEMMA CloseWriteKeeps ==
    ASSUME IInv, program' = program, NEW t \in Threads, CloseWrite(t)
    PROVE  IInv'
<1>1. TypeOK /\ UNCHANGED <<capture, child, sent, got, result, proc, logger>>
    BY DEF IInv, CloseWrite
<1>2. /\ pc[t] = "close" /\ pc' = [pc EXCEPT ![t] = "read"]
      /\ fds' = [fds EXCEPT ![t] = @ \ {"w"}] /\ output' = [output EXCEPT ![t] = <<>>]
    BY DEF CloseWrite
<1>3. <<>> \in Seq(Chunks)
    BY EmptySeq
<1>4. TypeOK'
    BY <1>1, <1>2, <1>3 DEF TypeOK
<1>5. /\ pc'[t] = "read" /\ fds'[t] = fds[t] \ {"w"}
      /\ \A u \in Threads : u # t => pc'[u] = pc[u] /\ fds'[u] = fds[u] /\ output'[u] = output[u]
    BY <1>1, <1>2 DEF TypeOK
<1>6. capture[t] /\ fds[t] = {"r", "w"}
    BY <1>2 DEF IInv, Descriptors
<1>7. Parent(t) /\ Parent(t)' /\ ~Returned(t)' /\ fds'[t] = {"r"}
    BY <1>2, <1>5, <1>6 DEF Parent, Returned, Idle
<1>. QED  BY <1>1, <1>4, <1>5, <1>6, <1>7, MoveKeeps

\* The parent reads a chunk of what was sent.
LEMMA ReadKeeps ==
    ASSUME IInv, program' = program, NEW t \in Threads, Read(t)
    PROVE  IInv'
<1>1. TypeOK /\ UNCHANGED <<pc, capture, child, fds, sent, output, result, proc, logger>>
    BY DEF IInv, Read
<1>2. pc[t] = "read" /\ got[t] < Len(sent[t]) /\ got' = [got EXCEPT ![t] = @ + 1]
    BY DEF Read
<1>3. \A u \in Threads : u # t => got'[u] = got[u]
    BY <1>2
<1>4. \A u \in Threads : got'[u] \in 0..Len(sent[u]) /\ Len(sent[u]) - got'[u] <= PipeSize
  <2>1. \A u \in Threads : Len(sent[u]) \in Nat /\ got[u] \in 0..Len(sent[u]) /\ Len(sent[u]) - got[u] <= PipeSize
      BY <1>1, LenProperties DEF TypeOK
  <2>2. got'[t] \in {got[t], got[t] + 1}
      BY <1>2
  <2>3. PipeSize \in Nat
      BY ChildAssumption
  <2>. QED  BY <1>2, <1>3, <2>1, <2>2, <2>3
<1>5. TypeOK'
    BY <1>1, <1>2, <1>4 DEF TypeOK
<1>6. capture[t] /\ fds[t] = {"r"}
    BY <1>2 DEF IInv, Descriptors
<1>7. Parent(t) /\ Parent(t)' /\ ~Returned(t)'
    BY <1>1, <1>2 DEF Parent, Returned, Idle
<1>. QED  BY <1>1, <1>2, <1>3, <1>5, <1>6, <1>7, MoveKeeps

\* At the end of the text nobody is there to make it longer; an interrupted
\* read() knows nothing of that.
LEMMA ReadEndKeeps ==
    ASSUME IInv, program' = program, NEW t \in Threads,
           ReadEnd(t) \/ (ReadFails(t) /\ EndOfReading(t))
    PROVE  IInv'
<1>1. TypeOK /\ UNCHANGED <<capture, child, sent, got, result, proc, logger>> /\ EndOfReading(t)
    BY DEF IInv, ReadEnd, ReadFails, EndOfReading
<1>. DEFINE text == Text(SubSeq(sent[t], 1, got[t]))
<1>2. /\ pc[t] = "read" /\ pc' = [pc EXCEPT ![t] = "wait"]
      /\ fds' = [fds EXCEPT ![t] = @ \ {"r"}] /\ output' = [output EXCEPT ![t] = text]
    BY DEF ReadEnd, ReadFails, EndOfReading
<1>3. sent[t] \in Seq(Chunks) /\ got[t] \in 0..Len(sent[t]) /\ Len(sent[t]) \in Nat
    BY <1>1, LenProperties DEF TypeOK
<1>4. text \in Seq(Chunks)
  <2>1. \A i \in 1..got[t] : sent[t][i] \in Chunks
      BY <1>3, ElementOfSeq
  <2>2. SubSeq(sent[t], 1, got[t]) \in Seq(Chunks)
      BY <1>3, <2>1, SubSeqProperties
  <2>. QED  BY <2>2, TextOfText
<1>5. got[t] = Len(sent[t]) => text = Text(sent[t])
    BY <1>3, SubSeqFull
<1>. HIDE DEF text
<1>6. TypeOK'
    BY <1>1, <1>2, <1>4 DEF TypeOK
<1>7. /\ pc'[t] = "wait" /\ fds'[t] = fds[t] \ {"r"} /\ output'[t] = text
      /\ \A u \in Threads : u # t => pc'[u] = pc[u] /\ fds'[u] = fds[u] /\ output'[u] = output[u]
    BY <1>1, <1>2 DEF TypeOK
<1>8. capture[t] /\ fds[t] = {"r"}
    BY <1>2 DEF IInv, Descriptors
<1>9. Parent(t) /\ Parent(t)' /\ ~Returned(t)' /\ fds'[t] = {}
    BY <1>2, <1>7, <1>8 DEF Parent, Returned, Idle
<1>10. ~program.signals => Drained(t)'
  <2>1. ~program.signals => Writers(t) = {} /\ got[t] = Len(sent[t])
      BY DEF ReadEnd, ReadFails
  <2>2. Writers(t)' = Writers(t)
      BY <1>1 DEF Writers, Forked
  <2>. QED  BY <1>1, <1>5, <1>7, <2>1, <2>2 DEF Drained
<1>. QED  BY <1>1, <1>6, <1>7, <1>8, <1>9, <1>10, MoveKeeps

\* Without a destination log() throws, and the reading end stays open.
LEMMA ReadThrowsKeeps ==
    ASSUME IInv, program' = program, NEW t \in Threads,
           pc[t] = "read", program.signals, ~program.logs, ReadThrows(t)
    PROVE  IInv'
<1>1. /\ TypeOK /\ UNCHANGED <<capture, child, fds, sent, got, output, proc, logger>>
      /\ pc' = [pc EXCEPT ![t] = "idle"] /\ result' = [result EXCEPT ![t] = Thrown]
    BY DEF IInv, ReadThrows, Throw, pipe
<1>2. TypeOK'
    BY <1>1 DEF TypeOK
<1>3. /\ pc'[t] = "idle" /\ result'[t] = Thrown
      /\ \A u \in Threads : u # t => pc'[u] = pc[u] /\ result'[u] = result[u]
    BY <1>1 DEF TypeOK
<1>4. ~Parent(t)' /\ ~Returned(t)' /\ fds'[t] = {"r"}
    BY <1>1, <1>3 DEF Parent, Returned, IInv, Descriptors
<1>. QED  BY <1>1, <1>2, <1>3, <1>4, MoveKeeps

\* A read() that is interrupted is the end of the reading, or of the call.
LEMMA ReadFailsKeeps ==
    ASSUME IInv, program' = program, NEW t \in Threads, ReadFails(t)
    PROVE  IInv'
<1>1. CASE EndOfReading(t)
    BY <1>1, ReadEndKeeps
<1>2. CASE ~program.logs /\ ReadThrows(t)
    BY <1>2, ReadThrowsKeeps DEF ReadFails
<1>. QED  BY <1>1, <1>2 DEF ReadFails

\* t leaves run() after it has waited.
LEMMA LeaveKeeps ==
    ASSUME IInv, program' = program, NEW t \in Threads, pc[t] = "wait",
           UNCHANGED <<capture, child, fds, sent, got, output, proc, logger>>,
           pc' = [pc EXCEPT ![t] = "idle"],
           NEW r \in {Thrown, 0}, result' = [result EXCEPT ![t] = r],
           r # Thrown => child[t] = Failed,
           ~program.signals => \A p \in Forked : proc[p].by = t => proc[p].st = "reaped"
    PROVE  IInv'
<1>1. TypeOK
    BY DEF IInv
<1>2. TypeOK'
    BY <1>1 DEF TypeOK
<1>3. /\ pc'[t] = "idle" /\ result'[t] = r
      /\ \A u \in Threads : u # t => pc'[u] = pc[u] /\ result'[u] = result[u]
    BY <1>1 DEF TypeOK
<1>4. ~Parent(t)' /\ fds[t] = {} /\ (Returned(t)' => child'[t] = Failed)
    BY <1>3 DEF Parent, Returned, IInv, Descriptors
<1>5. ~program.signals /\ capture[t] => Drained(t)'
  <2>1. ~program.signals /\ capture[t] => Drained(t)
      BY DEF IInv, Complete
  <2>. QED  BY <2>1 DEF Drained, Writers, Forked
<1>. QED  BY <1>2, <1>3, <1>4, <1>5, MoveKeeps

\* waitpid() fails, for a signal or because another thread has reaped the process.
LEMMA WaitFailsKeeps ==
    ASSUME IInv, program' = program, NEW t \in Threads, WaitFails(t)
    PROVE  IInv'
<1>1. pc[t] = "wait" /\ child[t] # Failed /\ (program.signals \/ proc[child[t]].st = "reaped")
    BY DEF WaitFails
<1>2. /\ UNCHANGED <<capture, child, fds, sent, got, output, proc, logger>>
      /\ pc' = [pc EXCEPT ![t] = "idle"] /\ result' = [result EXCEPT ![t] = Thrown]
    BY DEF WaitFails, Throw, pipe
<1>3. ~program.signals => \A p \in Forked : proc[p].by = t => proc[p].st = "reaped"
    BY <1>1 DEF IInv, Awaited
<1>. QED  BY <1>1, <1>2, <1>3, LeaveKeeps

\* A thread takes or releases the logger's mutex: no process is touched.
LEMMA LogKeeps ==
    ASSUME IInv, program' = program, NEW t \in Threads, Log(t)
    PROVE  IInv'
<1>1. TypeOK /\ UNCHANGED <<pc, capture, child, fds, sent, got, output, result, proc>>
    BY DEF IInv, Log, pipe
<1>2. TypeOK'
    BY <1>1 DEF TypeOK, Log
<1>3. Reserved' /\ Descriptors' /\ Own' /\ Attached' /\ OneWriter' /\ Unwritten'
    BY <1>1 DEF IInv, Reserved, Forking, Descriptors, Own, Attached, OneWriter, Unwritten, Parent, Live, Piped, Forked
<1>4. Unreaped' /\ StatusIsOwn' /\ Complete' /\ Awaited'
    BY <1>1 DEF IInv, Unreaped, StatusIsOwn, Complete, Awaited, Drained, Writers, Parent, Returned, Idle, Forked
<1>. QED  BY <1>2, <1>3, <1>4 DEF IInv

\* t leaves run() with the process p, which is its child, or, if its fork()
\* failed, anybody's.
LEMMA ReapKeeps ==
    ASSUME IInv, program' = program, NEW t \in Threads, pc[t] = "wait",
           UNCHANGED <<capture, child, fds, sent, got, output, logger>>,
           pc' = [pc EXCEPT ![t] = "idle"],
           NEW p \in Forked, proc[p].st = "zombie", proc' = [proc EXCEPT ![p].st = "reaped"],
           NEW r, result' = [result EXCEPT ![t] = r],
           (child[t] = p /\ r = proc[p].status) \/ (child[t] = Failed /\ r = Thrown)
    PROVE  IInv'
<1>1. TypeOK /\ proc \in Seq(Process)
    BY DEF IInv, TypeOK
<1>2. 0 \notin Forked /\ Failed \notin Forked /\ \A q \in Forked : proc[q] \in Process
    BY <1>1, Numbers
<1>. DEFINE x == [proc[p] EXCEPT !.st = "reaped"]
<1>3. /\ x \in Process /\ x.st = "reaped" /\ x.by = proc[p].by /\ x.w = proc[p].w
      /\ x.todo = proc[p].todo /\ x.status = proc[p].status
    BY <1>2 DEF Process
<1>4. proc' = [proc EXCEPT ![p] = x]
    OBVIOUS
<1>. HIDE DEF x
<1>5. /\ proc' \in Seq(Process) /\ Len(proc') = Len(proc) /\ Forked' = Forked
      /\ proc'[p] = x /\ \A q \in Forked : q # p => proc'[q] = proc[q]
    BY <1>1, <1>3, <1>4, Replaced
<1>6. \A q \in Forked : /\ proc'[q].by = proc[q].by /\ proc'[q].w = proc[q].w
                        /\ proc'[q].todo = proc[q].todo /\ proc'[q].status = proc[q].status
                        /\ proc'[q].st = IF q = p THEN "reaped" ELSE proc[q].st
    BY <1>3, <1>5
<1>7. r \in {Thrown, 0, 1}
    BY <1>2 DEF Process
<1>8. TypeOK'
    BY <1>1, <1>5, <1>7 DEF TypeOK
<1>9. /\ pc'[t] = "idle" /\ result'[t] = r
      /\ \A u \in Threads : u # t => pc'[u] = pc[u] /\ result'[u] = result[u]
    BY <1>1 DEF TypeOK
<1>10. /\ Parent(t) /\ ~Parent(t)' /\ fds[t] = {}
       /\ \A u \in Threads : u # t => (Parent(u)' <=> Parent(u)) /\ (Returned(u)' <=> Returned(u))
    BY <1>9 DEF Parent, Returned, Idle, IInv, Descriptors
<1>11. \A u \in Threads : Drained(u)' <=> Drained(u)
    BY <1>5, <1>6 DEF Drained, Writers
<1>12. Forking' = Forking
    BY <1>9 DEF Forking
<1>13. Reserved' /\ Descriptors' /\ Own'
    BY <1>5, <1>6, <1>9, <1>10, <1>12 DEF IInv, Reserved, Descriptors, Own
<1>14. Attached' /\ Unwritten'
    BY <1>5, <1>6, <1>10 DEF IInv, Attached, Unwritten, Live
<1>15. OneWriter'
    BY <1>5, <1>6, <1>9 DEF IInv, OneWriter, Piped
<1>16. Unreaped'
  <2>. SUFFICES ASSUME ~program.forkFails, NEW u \in Threads, Parent(u)'
                PROVE  child[u] \in Forked /\ proc'[child[u]].st # "reaped"
      BY <1>5 DEF Unreaped
  <2>1. u # t /\ Parent(u)
      BY <1>10
  <2>2. child[t] = p /\ child[u] \in Forked /\ proc[child[u]].st # "reaped"
      BY <2>1 DEF IInv, Own, Unreaped
  <2>3. child[u] # p
      BY <2>1, <2>2 DEF IInv, Own
  <2>. QED  BY <2>2, <2>3, <1>6
<1>17. StatusIsOwn'
  <2>. SUFFICES ASSUME ~program.forkFails, NEW u \in Threads, Returned(u)'
                PROVE  proc'[child[u]].st = "reaped" /\ proc'[child[u]].status = result'[u]
      BY DEF StatusIsOwn
  <2>1. CASE u = t
      BY <2>1, <1>6, <1>9 DEF IInv, Own
  <2>2. CASE u # t
    <3>1. Returned(u) /\ result'[u] = result[u]
        BY <2>2, <1>9, <1>10
    <3>2. child[u] \in Forked
        BY <3>1 DEF IInv, Own, Returned
    <3>3. proc[child[u]].st = "reaped" /\ proc[child[u]].status = result[u]
        BY <3>1 DEF IInv, StatusIsOwn
    <3>. QED  BY <3>1, <3>2, <3>3, <1>6
  <2>. QED  BY <2>1, <2>2
<1>18. Complete'
  <2>. SUFFICES ASSUME ~program.signals, NEW u \in Threads, capture[u]
                PROVE  /\ (pc'[u] = "wait" \/ Returned(u)') => Drained(u)
                       /\ Returned(u)' /\ child[u] # Failed => proc'[child[u]].todo = 0
      BY <1>11 DEF Complete
  <2>1. CASE u = t
    <3>1. Drained(t)
        BY <2>1 DEF IInv, Complete
    <3>2. ASSUME Returned(t)', child[t] # Failed PROVE proc'[p].todo = 0
      <4>1. proc[p].status # Thrown
          BY <3>2, <1>9 DEF Returned
      <4>2. proc[p].todo = 0
          BY <4>1 DEF IInv, Unwritten
      <4>. QED  BY <4>2, <1>6
    <3>. QED  BY <2>1, <3>1, <3>2
  <2>2. CASE u # t
    <3>1. (pc'[u] = "wait" <=> pc[u] = "wait") /\ (Returned(u)' <=> Returned(u))
        BY <2>2, <1>9, <1>10
    <3>2. Returned(u) /\ child[u] # Failed => child[u] \in Forked /\ proc[child[u]].todo = 0
        BY DEF IInv, Own, Complete, Returned
    <3>3. pc[u] = "wait" \/ Returned(u) => Drained(u)
        BY DEF IInv, Complete
    <3>. QED  BY <3>1, <3>2, <3>3, <1>6
  <2>. QED  BY <2>1, <2>2
<1>19. Awaited'
  <2>. SUFFICES ASSUME ~program.signals, NEW q \in Forked, proc'[q].st # "reaped"
                PROVE  child[proc[q].by] = q /\ Parent(proc[q].by)'
      BY <1>5, <1>6 DEF Awaited
  <2>1. q # p /\ child[proc[q].by] = q /\ Parent(proc[q].by) /\ proc[q].by \in Threads
      BY <1>2, <1>6 DEF IInv, Awaited, Process
  <2>2. proc[q].by # t
      BY <2>1, <1>2
  <2>. QED  BY <2>1, <2>2, <1>10
<1>. QED  BY <1>8, <1>13, <1>14, <1>15, <1>16, <1>17, <1>18, <1>19 DEF IInv

\* waitpid() returns the status of the process that was forked for this call.
LEMMA WaitKeeps ==
    ASSUME IInv, program' = program, NEW t \in Threads, Wait(t)
    PROVE  IInv'
<1>1. PICK p \in Forked : /\ p = child[t] /\ proc[p].st = "zombie"
                          /\ proc' = [proc EXCEPT ![p].st = "reaped"]
                          /\ result' = [result EXCEPT ![t] = proc[p].status]
    BY DEF Wait
<1>2. /\ pc[t] = "wait" /\ pc' = [pc EXCEPT ![t] = "idle"]
      /\ UNCHANGED <<capture, child, fds, sent, got, output, logger>>
    BY DEF Wait, pipe
<1>3. PICK r : r = proc[p].status
    OBVIOUS
<1>4. result' = [result EXCEPT ![t] = r]
    BY <1>1, <1>3
<1>5. (child[t] = p /\ r = proc[p].status) \/ (child[t] = Failed /\ r = Thrown)
    BY <1>1, <1>3
<1>. QED  BY <1>1, <1>2, <1>4, <1>5, ReapKeeps

\* waitpid(-1) after a failed fork() reaps the process of another call, finds none, or is
\* interrupted.
LEMMA WaitAnyKeeps ==
    ASSUME IInv, program' = program, NEW t \in Threads, WaitAny(t)
    PROVE  IInv'
<1>1. /\ pc[t] = "wait" /\ child[t] = Failed /\ pc' = [pc EXCEPT ![t] = "idle"]
      /\ UNCHANGED <<capture, child, fds, sent, got, output, logger>>
    BY DEF WaitAny, pipe, Throw
<1>2. CASE \E p \in Forked : /\ proc[p].st = "zombie"
                             /\ proc' = [proc EXCEPT ![p].st = "reaped"]
                             /\ Throw(t)
  <2>1. PICK p \in Forked : /\ proc[p].st = "zombie"
                            /\ proc' = [proc EXCEPT ![p].st = "reaped"]
                            /\ Throw(t)
      BY <1>2
  <2>2. result' = [result EXCEPT ![t] = Thrown]
      BY <2>1 DEF Throw
  <2>. QED  BY <1>1, <2>1, <2>2, ReapKeeps
<1>3. CASE /\ program.signals \/ \A p \in Forked : proc[p].st = "reaped"
           /\ result' = [result EXCEPT ![t] = 0]
           /\ UNCHANGED proc
    BY <1>1, <1>3, LeaveKeeps
<1>. QED  BY <1>2, <1>3 DEF WaitAny

\* A new pipe is empty, and of the processes there are none has an end of it.
LEMMA PipeKeeps ==
    ASSUME IInv, program' = program, NEW t \in Threads, Pipe(t)
    PROVE  IInv'
<1>1. /\ TypeOK /\ proc \in Seq(Process) /\ pc[t] = "pipe"
      /\ UNCHANGED <<capture, child, output, result, logger>>
    BY DEF IInv, TypeOK, Pipe
<1>2. /\ Len(proc) \in Nat /\ Forked = 1..Len(proc)
      /\ \A q \in Forked : proc[q] \in Process
    BY <1>1, Numbers
<1>3. proc' = [p \in Forked |-> [proc[p] EXCEPT !.w = @ \ {t}]]
    BY DEF Pipe
<1>4. \A q \in Forked : /\ proc'[q] \in Process
                        /\ proc'[q].by = proc[q].by /\ proc'[q].w = proc[q].w \ {t}
                        /\ proc'[q].todo = proc[q].todo /\ proc'[q].status = proc[q].status
                        /\ proc'[q].st = proc[q].st
    BY <1>2, <1>3 DEF Process
<1>5. proc' \in Seq(Process) /\ Len(proc') = Len(proc) /\ Forked' = Forked
  <2>1. proc' \in [1..Len(proc) -> Process]
      BY <1>2, <1>3, <1>4
  <2>2. proc' \in Seq(Process)
      BY <1>2, <2>1, SeqDef
  <2>. QED  BY <1>2, <2>1, <2>2, LenProperties DEF Forked
<1>6. /\ pc' = [pc EXCEPT ![t] = "fork"] /\ fds' = [fds EXCEPT ![t] = {"r", "w"}]
      /\ sent' = [sent EXCEPT ![t] = <<>>] /\ got' = [got EXCEPT ![t] = 0]
    BY DEF Pipe
<1>7. /\ pc'[t] = "fork" /\ fds'[t] = {"r", "w"} /\ sent'[t] = <<>> /\ got'[t] = 0
      /\ \A u \in Threads : u # t => /\ pc'[u] = pc[u] /\ fds'[u] = fds[u]
                                     /\ sent'[u] = sent[u] /\ got'[u] = got[u]
    BY <1>1, <1>6 DEF TypeOK
<1>8. TypeOK'
  <2>1. <<>> \in Seq(Chunks) /\ Len(<<>>) = 0 /\ PipeSize \in Nat
      BY EmptySeq, ChildAssumption
  <2>2. sent' \in [Threads -> Seq(Chunks)]
      BY <1>1, <1>6, <2>1 DEF TypeOK
  <2>3. \A u \in Threads : got'[u] \in 0..Len(sent'[u]) /\ Len(sent'[u]) - got'[u] <= PipeSize
    <3>. SUFFICES ASSUME NEW u \in Threads
                  PROVE  got'[u] \in 0..Len(sent'[u]) /\ Len(sent'[u]) - got'[u] <= PipeSize
        OBVIOUS
    <3>1. CASE u = t
        BY <3>1, <1>7, <2>1
    <3>2. CASE u # t
        BY <3>2, <1>1, <1>7 DEF TypeOK
    <3>. QED  BY <3>1, <3>2
  <2>. QED  BY <1>1, <1>5, <1>6, <2>2, <2>3 DEF TypeOK
<1>9. /\ ~Parent(t) /\ ~Parent(t)' /\ ~Returned(t)' /\ capture[t]
      /\ \A u \in Threads : u # t => (Parent(u)' <=> Parent(u)) /\ (Returned(u)' <=> Returned(u))
    BY <1>1, <1>7 DEF Parent, Returned, Idle, IInv, Descriptors
<1>10. Forking' = Forking
    BY <1>1, <1>7 DEF Forking
<1>11. Reserved' /\ Descriptors' /\ Own'
  <2>1. \A u \in Threads : pc'[u] \in {"pipe", "close", "read"} => capture[u]
      BY <1>7 DEF IInv, Descriptors
  <2>2. ASSUME NEW u \in Threads
        PROVE  \/ fds'[u] = IF capture[u] /\ pc'[u] \in {"fork", "close"} THEN {"r", "w"}
                            ELSE IF pc'[u] = "read" THEN {"r"} ELSE {}
               \/ pc'[u] = "idle" /\ fds'[u] = {"r"} /\ program.signals /\ ~program.logs
    <3>1. CASE u = t
        BY <3>1, <1>7, <1>9
    <3>2. CASE u # t
        BY <3>2, <1>7 DEF IInv, Descriptors
    <3>. QED  BY <3>1, <3>2
  <2>3. Descriptors'
      BY <1>1, <2>1, <2>2 DEF Descriptors
  <2>4. Reserved'
      BY <1>5, <1>10 DEF IInv, Reserved
  <2>5. Own'
      BY <1>1, <1>4, <1>5, <1>9 DEF IInv, Own
  <2>. QED  BY <2>3, <2>4, <2>5
<1>12. Attached' /\ Unwritten' /\ Unreaped'
    BY <1>1, <1>4, <1>5, <1>9 DEF IInv, Attached, Unwritten, Unreaped, Live
<1>13. \A q \in Forked : Piped(q)' => Piped(q) /\ proc[q].by # t
    BY <1>4 DEF Piped
<1>14. OneWriter'
  <2>1. \A p, q \in Forked : Piped(p)' /\ Piped(q)' /\ proc'[p].by = proc'[q].by => p = q
      BY <1>4, <1>13 DEF IInv, OneWriter
  <2>2. ASSUME NEW p \in Forked, Piped(p)', proc'[p].st = "setup" PROVE sent'[proc'[p].by] = <<>>
      BY <2>2, <1>2, <1>4, <1>7, <1>13 DEF IInv, OneWriter, Process
  <2>3. ASSUME NEW u \in Threads, capture[u], pc'[u] = "fork"
        PROVE  sent'[u] = <<>> /\ \A p \in Forked : proc'[p].by = u => ~Piped(p)'
      BY <2>3, <1>4, <1>7, <1>13 DEF IInv, OneWriter
  <2>. QED  BY <1>1, <1>5, <2>1, <2>2, <2>3 DEF OneWriter
<1>15. StatusIsOwn'
  <2>. SUFFICES ASSUME ~program.forkFails, NEW u \in Threads, Returned(u)'
                PROVE  proc'[child[u]].st = "reaped" /\ proc'[child[u]].status = result[u]
      BY <1>1 DEF StatusIsOwn
  <2>1. Returned(u)
      BY <1>9
  <2>2. child[u] \in Forked /\ proc[child[u]].st = "reaped" /\ proc[child[u]].status = result[u]
      BY <2>1 DEF IInv, Own, StatusIsOwn, Returned
  <2>. QED  BY <2>2, <1>4
<1>16. Complete'
  <2>. SUFFICES ASSUME ~program.signals, NEW u \in Threads, capture[u]
                PROVE  /\ (pc'[u] = "wait" \/ Returned(u)') => Drained(u)'
                       /\ Returned(u)' /\ child[u] # Failed => proc'[child[u]].todo = 0
      BY <1>1 DEF Complete
  <2>1. pc'[u] = "wait" \/ Returned(u)' => u # t
      BY <1>7, <1>9
  <2>2. u # t => (Drained(u) => Drained(u)')
      BY <1>1, <1>4, <1>5, <1>7 DEF Drained, Writers
  <2>3. pc'[u] = "wait" \/ Returned(u)' => Drained(u)'
      BY <2>1, <2>2, <1>7, <1>9 DEF IInv, Complete
  <2>4. ASSUME Returned(u)', child[u] # Failed PROVE proc'[child[u]].todo = 0
    <3>1. Returned(u)
        BY <2>4, <1>9
    <3>2. child[u] \in Forked /\ proc[child[u]].todo = 0
        BY <2>4, <3>1 DEF IInv, Own, Complete, Returned
    <3>. QED  BY <3>2, <1>4
  <2>. QED  BY <2>3, <2>4
<1>17. Awaited'
    BY <1>1, <1>2, <1>4, <1>5, <1>9 DEF IInv, Awaited, Process
<1>. QED  BY <1>8, <1>11, <1>12, <1>14, <1>15, <1>16, <1>17 DEF IInv

\* A new process has the writing ends that are open, and its place was reserved.
LEMMA ForkKeeps ==
    ASSUME IInv, program' = program, NEW t \in Threads, Fork(t)
    PROVE  IInv'
<1>1. /\ TypeOK /\ proc \in Seq(Process) /\ pc[t] = "fork"
      /\ UNCHANGED <<capture, fds, sent, got, output, result, logger>>
    BY DEF IInv, TypeOK, Fork, pipe
<1>n. PICK n : n = Len(proc) + 1
    OBVIOUS
<1>w. PICK w : w = {u \in Threads : "w" \in fds[u]}
    OBVIOUS
<1>f. PICK f \in {"Child", "run"} :
          proc' = Append(proc, [st |-> "setup", status |-> Thrown, by |-> t, fn |-> f, todo |-> 0,
                                w |-> {u \in Threads : "w" \in fds[u]}, locked |-> logger # NoThread])
    BY DEF Fork
<1>x. PICK x : x = [st |-> "setup", status |-> Thrown, by |-> t, fn |-> f, todo |-> 0,
                    w |-> w, locked |-> logger # NoThread]
    OBVIOUS
<1>2. /\ Len(proc) \in Nat /\ Forked = 1..Len(proc) /\ n \notin Forked
      /\ 0 \notin Forked /\ Failed \notin Forked /\ n \notin {0, Failed}
      /\ \A q \in Forked : proc[q] \in Process
    BY <1>1, <1>n, Numbers DEF Failed
<1>3. /\ proc' = Append(proc, x) /\ child' = [child EXCEPT ![t] = n]
      /\ pc' = [pc EXCEPT ![t] = IF capture[t] THEN "close" ELSE "wait"]
    BY <1>n, <1>w, <1>f, <1>x DEF Fork, AfterFork
<1>4. /\ x \in Process /\ x.st = "setup" /\ x.by = t /\ x.todo = 0 /\ x.w = w
    BY <1>1, <1>w, <1>x, ChildAssumption DEF Process, TypeOK
<1>5. \A u \in Threads : u \in w <=> capture[u] /\ pc[u] \in {"fork", "close"}
  <2>1. \A u \in Threads : IF capture[u] /\ pc[u] \in {"fork", "close"} THEN fds[u] = {"r", "w"}
                           ELSE fds[u] \in {{"r"}, {}}
      BY DEF IInv, Descriptors
  <2>2. ASSUME NEW u \in Threads PROVE "w" \in fds[u] <=> capture[u] /\ pc[u] \in {"fork", "close"}
    <3>1. CASE capture[u] /\ pc[u] \in {"fork", "close"}
        BY <2>1, <3>1
    <3>2. CASE ~(capture[u] /\ pc[u] \in {"fork", "close"})
        BY <2>1, <3>2
    <3>. QED  BY <3>1, <3>2
  <2>. QED  BY <2>2, <1>w
<1>6. /\ proc' \in Seq(Process) /\ Len(proc') = n /\ proc'[n] = x
      /\ \A q \in Forked : proc'[q] = proc[q]
    BY <1>1, <1>2, <1>3, <1>4, <1>n, AppendProperties
<1>7. Forked' = Forked \cup {n}
  <2>1. Forked' = 1..n
      BY <1>6, LenProperties DEF Forked
  <2>. QED  BY <1>2, <1>n, <2>1
<1>8. /\ child'[t] = n /\ pc'[t] = IF capture[t] THEN "close" ELSE "wait"
      /\ \A u \in Threads : u # t => pc'[u] = pc[u] /\ child'[u] = child[u]
    BY <1>1, <1>3 DEF TypeOK
<1>9. /\ pc'[t] \in {"close", "wait"} /\ (pc'[t] = "close" <=> capture[t])
      /\ ~Parent(t) /\ Parent(t)' /\ ~Returned(t)'
    BY <1>1, <1>8 DEF Parent, Returned, Idle
<1>10. \A u \in Threads : u # t => (Parent(u)' <=> Parent(u)) /\ (Returned(u)' <=> Returned(u))
    BY <1>1, <1>8 DEF Parent, Returned, Idle
<1>11. Reserved' /\ n <= MaxForks
  <2>1. t \in Forking /\ Forking' = Forking \ {t}
      BY <1>1, <1>8, <1>9 DEF Forking
  <2>2. IsFiniteSet(Forking) /\ Len(proc) + Cardinality(Forking) <= MaxForks
      BY DEF IInv, Reserved
  <2>3. IsFiniteSet(Forking') /\ Cardinality(Forking') = Cardinality(Forking) - 1
      BY <2>1, <2>2, FS_RemoveElement
  <2>4. Cardinality(Forking) \in Nat /\ Cardinality(Forking') \in Nat /\ MaxForks \in Nat
      BY <2>2, <2>3, FS_CardinalityType, ChildAssumption
  <2>. QED  BY <1>2, <1>6, <1>n, <2>2, <2>3, <2>4 DEF Reserved
<1>12. TypeOK'
  <2>1. n \in Pids
      BY <1>2, <1>11, <1>n, ChildAssumption DEF Pids
  <2>2. child' \in [Threads -> Pids \cup {0, Failed}]
      BY <1>1, <1>3, <2>1 DEF TypeOK
  <2>3. pc' \in [Threads -> {"idle", "pipe", "fork", "close", "read", "wait"}]
      BY <1>1, <1>3 DEF TypeOK
  <2>. QED  BY <1>1, <1>6, <1>11, <2>2, <2>3 DEF TypeOK
<1>13. Descriptors'
  <2>1. ASSUME NEW u \in Threads
        PROVE  \/ fds[u] = IF capture[u] /\ pc'[u] \in {"fork", "close"} THEN {"r", "w"}
                           ELSE IF pc'[u] = "read" THEN {"r"} ELSE {}
               \/ pc'[u] = "idle" /\ fds[u] = {"r"} /\ program.signals /\ ~program.logs
    <3>1. fds[t] = IF capture[t] THEN {"r", "w"} ELSE {}
        BY <1>1 DEF IInv, Descriptors
    <3>2. CASE u = t
        BY <3>1, <3>2, <1>9
    <3>3. CASE u # t
        BY <3>3, <1>8 DEF IInv, Descriptors
    <3>. QED  BY <3>2, <3>3
  <2>. QED  BY <1>1, <1>8, <1>9, <2>1 DEF IInv, Descriptors
<1>14. Own'
  <2>. SUFFICES ASSUME NEW u \in Threads
                PROVE  /\ child'[u] \in Forked \cup {n, 0, Failed}
                       /\ child'[u] \in Forked \cup {n} => proc'[child'[u]].by = u
                       /\ child'[u] = Failed => program.forkFails
                       /\ Parent(u)' => child'[u] # 0
      BY <1>7 DEF Own
  <2>1. CASE u = t
      BY <2>1, <1>2, <1>4, <1>6, <1>8
  <2>2. CASE u # t
    <3>1. /\ child[u] \in Forked \cup {0, Failed} /\ (child[u] = Failed => program.forkFails)
          /\ child[u] \in Forked => proc[child[u]].by = u
          /\ Parent(u) => child[u] # 0
        BY DEF IInv, Own
    <3>2. child'[u] = child[u] /\ (Parent(u)' <=> Parent(u)) /\ child[u] # n
        BY <2>2, <3>1, <1>2, <1>8, <1>10
    <3>. QED  BY <3>1, <3>2, <1>6
  <2>. QED  BY <2>1, <2>2
<1>15. Attached'
  <2>. SUFFICES ASSUME NEW u \in Threads, Parent(u)', capture[u], child'[u] \in Forked', Live(child[u])'
                PROVE  u \in proc'[child'[u]].w
      BY <1>1 DEF Attached
  <2>1. CASE u = t
      BY <2>1, <1>1, <1>4, <1>5, <1>6, <1>8
  <2>2. CASE u # t
    <3>1. child[u] \in Forked
      <4>1. child[u] \in Forked \cup {n} /\ child[u] \in Forked \cup {0, Failed}
          BY <2>2, <1>7, <1>8 DEF IInv, Own
      <4>. QED  BY <4>1, <1>2
    <3>. QED  BY <2>2, <3>1, <1>6, <1>8, <1>10 DEF IInv, Attached, Live
  <2>. QED  BY <2>1, <2>2
<1>16. /\ \A q \in Forked : Piped(q)' <=> Piped(q)
       /\ Piped(n)' => capture[t]
    BY <1>1, <1>4, <1>5, <1>6 DEF Piped
<1>17. OneWriter'
  <2>1. capture[t] => sent[t] = <<>> /\ \A q \in Forked : proc[q].by = t => ~Piped(q)
      BY <1>1 DEF IInv, OneWriter
  <2>2. ASSUME NEW p \in Forked', NEW q \in Forked', Piped(p)', Piped(q)', proc'[p].by = proc'[q].by PROVE p = q
    <3>1. CASE p \in Forked /\ q \in Forked
        BY <2>2, <3>1, <1>6, <1>16 DEF IInv, OneWriter
    <3>2. CASE p = n \/ q = n
        BY <2>1, <2>2, <3>2, <1>4, <1>6, <1>7, <1>16
    <3>. QED  BY <3>1, <3>2, <1>7
  <2>3. ASSUME NEW p \in Forked', Piped(p)', proc'[p].st = "setup" PROVE sent[proc'[p].by] = <<>>
    <3>1. CASE p \in Forked
        BY <2>3, <3>1, <1>6, <1>16 DEF IInv, OneWriter
    <3>2. CASE p = n
        BY <2>1, <2>3, <3>2, <1>4, <1>6, <1>16
    <3>. QED  BY <3>1, <3>2, <1>7
  <2>4. ASSUME NEW u \in Threads, capture[u], pc'[u] = "fork"
        PROVE  sent[u] = <<>> /\ \A p \in Forked' : proc'[p].by = u => ~Piped(p)'
    <3>1. u # t
        BY <2>4, <1>9
    <3>2. sent[u] = <<>> /\ \A p \in Forked : proc[p].by = u => ~Piped(p)
        BY <2>4, <3>1, <1>8 DEF IInv, OneWriter
    <3>. QED  BY <3>1, <3>2, <1>4, <1>6, <1>7, <1>16
  <2>. QED  BY <1>1, <2>2, <2>3, <2>4 DEF OneWriter
<1>18. Unwritten'
    BY <1>4, <1>6, <1>7 DEF IInv, Unwritten
<1>19. Unreaped'
    BY <1>4, <1>6, <1>7, <1>8, <1>10 DEF IInv, Unreaped
<1>20. StatusIsOwn'
  <2>. SUFFICES ASSUME ~program.forkFails, NEW u \in Threads, Returned(u)'
                PROVE  proc'[child'[u]].st = "reaped" /\ proc'[child'[u]].status = result[u]
      BY <1>1 DEF StatusIsOwn
  <2>1. u # t /\ Returned(u) /\ child'[u] = child[u]
      BY <1>8, <1>9, <1>10
  <2>2. child[u] \in Forked /\ proc[child[u]].st = "reaped" /\ proc[child[u]].status = result[u]
      BY <2>1 DEF IInv, Own, StatusIsOwn, Returned
  <2>. QED  BY <2>1, <2>2, <1>6
<1>21. Complete'
  <2>. SUFFICES ASSUME ~program.signals, NEW u \in Threads, capture[u]
                PROVE  /\ (pc'[u] = "wait" \/ Returned(u)') => Drained(u)'
                       /\ Returned(u)' /\ child'[u] # Failed => proc'[child'[u]].todo = 0
      BY <1>1 DEF Complete
  <2>1. pc'[u] = "wait" \/ Returned(u)' => u # t /\ (pc[u] = "wait" \/ Returned(u))
      BY <1>8, <1>9, <1>10
  <2>2. ASSUME pc'[u] = "wait" \/ Returned(u)' PROVE Drained(u)'
    <3>1. Drained(u) /\ u \notin w
        BY <2>1, <2>2, <1>5 DEF IInv, Complete, Returned, Idle
    <3>2. Writers(u)' = {}
        BY <3>1, <1>4, <1>6, <1>7 DEF Drained, Writers
    <3>. QED  BY <3>1, <3>2, <1>1 DEF Drained
  <2>3. ASSUME Returned(u)', child'[u] # Failed PROVE proc'[child'[u]].todo = 0
    <3>1. Returned(u) /\ child'[u] = child[u]
        BY <2>1, <2>3, <1>8, <1>9, <1>10
    <3>2. child[u] \in Forked /\ proc[child[u]].todo = 0
        BY <2>3, <3>1 DEF IInv, Own, Complete, Returned
    <3>. QED  BY <3>1, <3>2, <1>6
  <2>. QED  BY <2>2, <2>3
<1>22. Awaited'
  <2>. SUFFICES ASSUME ~program.signals, NEW p \in Forked', proc'[p].st # "reaped"
                PROVE  child'[proc'[p].by] = p /\ Parent(proc[p].by)'
      BY DEF Awaited
  <2>1. CASE p = n
      BY <2>1, <1>4, <1>6, <1>8, <1>9
  <2>2. CASE p \in Forked
    <3>1. child[proc[p].by] = p /\ Parent(proc[p].by) /\ proc[p].by \in Threads
        BY <2>2, <1>2, <1>6 DEF IInv, Awaited, Process
    <3>. QED  BY <2>2, <3>1, <1>6, <1>8, <1>9, <1>10
  <2>. QED  BY <2>1, <2>2, <1>7
<1>. QED  BY <1>11, <1>12, <1>13, <1>14, <1>15, <1>17, <1>18, <1>19, <1>20, <1>21, <1>22 DEF IInv

\* What changes nothing keeps the invariant.
LEMMA Unchanged ==
    ASSUME IInv, UNCHANGED vars
    PROVE  IInv'
<1>1. TypeOK' /\ Reserved' /\ Descriptors' /\ Own' /\ Attached' /\ OneWriter' /\ Unwritten'
    BY DEF IInv, vars, pipe, TypeOK, Reserved, Forking, Descriptors, Own, Attached, OneWriter, Unwritten, Parent, Live, Piped, Forked
<1>2. Unreaped' /\ StatusIsOwn' /\ Complete' /\ Awaited'
    BY DEF IInv, vars, pipe, Unreaped, StatusIsOwn, Complete, Awaited, Drained, Writers, Parent, Returned, Idle, Forked
<1>. QED  BY <1>1, <1>2 DEF IInv

\* Every step keeps the invariant.
LEMMA StepIInv == IInv /\ [Next]_vars => IInv'
<1>. SUFFICES ASSUME IInv, [Next]_vars PROVE IInv'
    OBVIOUS
<1>1. CASE Next
  <2>1. program' = program
      BY <1>1 DEF Next
  <2>2. CASE NewCall
      BY <2>1, <2>2, CallKeeps DEF NewCall
  <2>3. CASE Quiet
      BY <2>1, <2>3, Unchanged DEF Quiet, ofParent, vars, pipe
  <2>4. ASSUME NEW t \in Threads, Step(t) PROVE IInv'
      BY <2>1, <2>4, PipeKeeps, PipeFailsKeeps, ForkKeeps, ForkFailsKeeps, CloseWriteKeeps,
         ReadKeeps, ReadEndKeeps, ReadFailsKeeps, WaitKeeps, WaitFailsKeeps, WaitAnyKeeps DEF Step
  <2>5. ASSUME NEW t \in Threads, Log(t) PROVE IInv'
      BY <2>1, <2>5, LogKeeps
  <2>6. ASSUME NEW p \in Forked, ChildStep(p) PROVE IInv'
      BY <2>1, <2>6, ExecKeeps, ExecFailsKeeps, SetupFailsKeeps, WriteKeeps, DeathKeeps DEF ChildStep
  <2>7. ASSUME NEW p \in Forked, Killed(p) \/ CopyEnds(p) PROVE IInv'
      BY <2>1, <2>7, DeathKeeps
  <2>. QED  BY <1>1, <2>2, <2>3, <2>4, <2>5, <2>6, <2>7 DEF Next
<1>2. CASE UNCHANGED vars
    BY <1>2, Unchanged
<1>. QED  BY <1>1, <1>2

\* The invariant holds in every reachable state.
LEMMA Invariant == Spec => []IInv
BY InitIInv, StepIInv, PTL DEF Spec

-----------------------------------------------------------------------------
(* The theorems.                                                             *)

\* Types, however many processes are forked at once: no more than the pids there
\* are, and never more in a pipe than it holds.
THEOREM ChildTypes == Spec => []TypeOK
<1>1. IInv => TypeOK
    BY DEF IInv
<1>. QED  BY <1>1, Invariant, PTL

\* run() returns the status of the process it has forked itself, which it has
\* waited for, if fork() does not fail.
THEOREM OwnStatus == Spec => []StatusIsOwn
<1>1. IInv => StatusIsOwn
    BY DEF IInv
<1>. QED  BY <1>1, Invariant, PTL

\* If signals do not interrupt it, a call that captures returns with all that
\* its child had to write, although other processes may have held its pipe open.
THEOREM WholeOutput == Spec => []OutputComplete
<1>1. IInv => OutputComplete
    BY DEF IInv, Complete, Drained, OutputComplete
<1>. QED  BY <1>1, Invariant, PTL

\* A call that is over has closed its descriptors, unless a signal interrupted read()
\* in a program whose logger has no destination; and no process it has forked is
\* left, unless signals interrupt read() and waitpid().
THEOREM NothingIsLeft == Spec => []NothingLeft
<1>1. IInv => NothingLeft
  <2>. SUFFICES ASSUME IInv, NEW t \in Threads, Idle(t)
                PROVE  /\ program.logs \/ ~program.signals => fds[t] = {}
                       /\ program.signals \/ \A p \in Forked : proc[p].by = t => proc[p].st = "reaped"
      BY DEF NothingLeft
  <2>1. pc[t] = "idle" /\ ~Parent(t)
      BY DEF Idle, Parent
  <2>2. program.logs \/ ~program.signals => fds[t] = {}
      BY <2>1 DEF IInv, Descriptors
  <2>. QED  BY <2>1, <2>2 DEF IInv, Awaited
<1>. QED  BY <1>1, Invariant, PTL
=============================================================================
