-------------------------- MODULE UtilitiesProofs --------------------------
(***************************************************************************)
(* Theorems about the parts of the library that stand alone: Semaphore,    *)
(* for every finite set of threads, every width of the counter and every   *)
(* initial count; and Utilities, for any texts, numbers, profiles, codes   *)
(* and enumerations and any number of threads.                             *)
(***************************************************************************)
EXTENDS Semaphore, Utilities, SequenceTheorems, FiniteSetTheorems, WellFoundedInduction, TLAPS

-----------------------------------------------------------------------------
(* The inductive invariant.  NoStrandedPermit alone is not inductive: it     *)
(* needs to know that whoever touches the counter holds the mutex, and what  *)
(* the thread that holds it has read.                                        *)

\* The mutex protects the statements it is meant to protect.
LockOK == \A t \in Threads : pc[t] \in Critical <=> owner = t

\* A thread is at statements of the function it executes.
OpOK == \A t \in Threads :
           /\ pc[t] = "idle" <=> op[t] = "none"
           /\ pc[t] \in {"relock", "test", "wait", "take", "asleep"} => op[t] = "dec"

\* What the holder of the mutex has read of the counter is still true.
ReadOK == \A t \in Threads : /\ pc[t] = "wait" => count = 0
                             /\ pc[t] = "take" => Destructing \/ count > 0

IInv == TypeOK /\ LockOK /\ OpOK /\ ReadOK /\ NoStrandedPermit

-----------------------------------------------------------------------------
\* The counter's increment and decrement, modulo its width.
LEMMA CountArithmetic ==
  ASSUME NEW c \in 0..(Modulus - 1)
  PROVE  /\ (c + 1) % Modulus \in 0..(Modulus - 1)
         /\ (c + 1) % Modulus <= c + 1
         /\ (c + Modulus - 1) % Modulus \in 0..(Modulus - 1)
         /\ c > 0 => (c + Modulus - 1) % Modulus = c - 1
  <1>1. Modulus \in Nat \ {0}
    BY SemaphoreAssumption
  <1>2. (c + 1) % Modulus = IF c + 1 = Modulus THEN 0 ELSE c + 1
    BY <1>1, SMT
  <1>3. (c + Modulus - 1) % Modulus = IF c = 0 THEN Modulus - 1 ELSE c - 1
    BY <1>1, SMT
  <1> QED
    BY <1>1, <1>2, <1>3


\* The initial states satisfy the invariant.
LEMMA InitIInv == Init => IInv
  <1> SUFFICES ASSUME Init PROVE IInv
    OBVIOUS
  <1>1. TypeOK
    BY SemaphoreAssumption DEF Init, TypeOK, Critical, Operations, Outcomes, Outcome, NoOutcome
  <1>2. LockOK /\ OpOK /\ ReadOK
    BY SemaphoreAssumption DEF Init, LockOK, OpOK, ReadOK, Critical
  <1>3. Asleep = {}
    BY DEF Init, Asleep
  <1> QED
    BY <1>1, <1>2, <1>3 DEF IInv, NoStrandedPermit

\* Every step keeps the types.
LEMMA TypeStep == TypeOK /\ [Next]_vars => TypeOK'
  <1> SUFFICES ASSUME TypeOK, [Next]_vars PROVE TypeOK'
    OBVIOUS
  <1> USE SemaphoreAssumption DEF TypeOK, Critical, Operations, Outcomes, Outcome, NoOutcome
  <1>1. ASSUME NEW t \in Threads, NEW o \in Operations, Call(t, o) PROVE TypeOK'
    BY <1>1 DEF Call
  <1>2. ASSUME NEW t \in Threads, CheckFlag(t) PROVE TypeOK'
    BY <1>2 DEF CheckFlag, Return
  <1>3. ASSUME NEW t \in Threads, Lock(t) PROVE TypeOK'
    <2>1. PICK place \in Critical : pc' = [pc EXCEPT ![t] = place]
      BY <1>3 DEF Lock
    <2>2. owner' \in Threads \cup {NoThread} /\ UNCHANGED <<count, dtor, op, ret>>
      BY <1>3 DEF Lock
    <2> QED
      BY <2>1, <2>2
  <1>4. ASSUME NEW t \in Threads, DecTest(t) PROVE TypeOK'
    BY <1>4 DEF DecTest
  <1>5. ASSUME NEW t \in Threads, DecWait(t) PROVE TypeOK'
    BY <1>5 DEF DecWait
  <1>6. ASSUME NEW t \in Threads, DecTake(t) PROVE TypeOK'
    <2>1. count' \in 0..(Modulus - 1)
      BY <1>6, CountArithmetic DEF DecTake
    <2>2. PICK out \in Outcomes : Return(t, out)
      <3>1. Outcome("thrown", 0) \in Outcomes /\ Outcome("done", 0) \in Outcomes
        OBVIOUS
      <3> QED
        BY <1>6, <3>1 DEF DecTake
    <2> QED
      BY <2>1, <2>2 DEF Return
  <1>7. ASSUME NEW t \in Threads, IncBody(t) PROVE TypeOK'
    BY <1>7, CountArithmetic DEF IncBody, LeaveInc, Asleep
  <1>8. ASSUME NEW t \in Threads, TryDecBody(t) PROVE TypeOK'
    <2>1. count' \in 0..(Modulus - 1)
      <3>1. (count + Modulus - 1) % Modulus \in 0..(Modulus - 1)
        BY CountArithmetic
      <3> QED
        BY <1>8, <3>1 DEF TryDecBody
    <2>2. PICK out \in Outcomes : Return(t, out)
      <3>1. Outcome("refused", 0) \in Outcomes /\ Outcome("done", 0) \in Outcomes
        OBVIOUS
      <3> QED
        BY <1>8, <3>1 DEF TryDecBody
    <2> QED
      BY <2>1, <2>2 DEF Return
  <1>9. ASSUME NEW t \in Threads, CountBody(t) PROVE TypeOK'
    BY <1>9 DEF CountBody, Return
  <1>10. ASSUME NEW t \in Threads, SpuriousWake(t) PROVE TypeOK'
    BY <1>10 DEF SpuriousWake
  <1>11. ASSUME SetFlag PROVE TypeOK'
    BY <1>11 DEF SetFlag
  <1>12. ASSUME NotifyAll PROVE TypeOK'
    BY <1>12 DEF NotifyAll
  <1>13. ASSUME UNCHANGED vars PROVE TypeOK'
    BY <1>13 DEF vars
  <1> QED
    BY <1>1, <1>2, <1>3, <1>4, <1>5, <1>6, <1>7, <1>8, <1>9, <1>10, <1>11, <1>12, <1>13
       DEF Next, Step

\* Who holds the mutex is where the mutex is held, and the values that thread
\* has read are protected: no other thread changes the counter.
LEMMA ControlStep ==
  TypeOK /\ LockOK /\ OpOK /\ ReadOK /\ [Next]_vars => LockOK' /\ OpOK' /\ ReadOK'
  <1> DEFINE Good == LockOK /\ OpOK /\ ReadOK
  <1> SUFFICES ASSUME TypeOK, LockOK, OpOK, ReadOK, [Next]_vars PROVE Good'
    OBVIOUS
  <1> USE SemaphoreAssumption DEF TypeOK, LockOK, OpOK, ReadOK, Critical, Destructing
  <1>1. ASSUME NEW t \in Threads, NEW o \in Operations, Call(t, o) PROVE Good'
    BY <1>1 DEF Call, Operations
  <1>2. ASSUME NEW t \in Threads, CheckFlag(t) PROVE Good'
    BY <1>2 DEF CheckFlag, Return
  <1>3. ASSUME NEW t \in Threads, Lock(t) PROVE Good'
    BY <1>3 DEF Lock
  <1>4. ASSUME NEW t \in Threads, DecTest(t) PROVE Good'
    BY <1>4 DEF DecTest
  <1>5. ASSUME NEW t \in Threads, DecWait(t) PROVE Good'
    BY <1>5 DEF DecWait
  <1>6. ASSUME NEW t \in Threads, DecTake(t) PROVE Good'
    BY <1>6, CountArithmetic DEF DecTake, Return
  <1>7. ASSUME NEW t \in Threads, IncBody(t) PROVE Good'
    BY <1>7, CountArithmetic DEF IncBody, LeaveInc, Asleep
  <1>8. ASSUME NEW t \in Threads, TryDecBody(t) PROVE Good'
    BY <1>8, CountArithmetic DEF TryDecBody, Return
  <1>9. ASSUME NEW t \in Threads, CountBody(t) PROVE Good'
    BY <1>9 DEF CountBody, Return
  <1>10. ASSUME NEW t \in Threads, SpuriousWake(t) PROVE Good'
    BY <1>10 DEF SpuriousWake
  <1>11. ASSUME SetFlag PROVE Good'
    BY <1>11 DEF SetFlag
  <1>12. ASSUME NotifyAll PROVE Good'
    BY <1>12 DEF NotifyAll, Asleep
  <1>13. ASSUME UNCHANGED vars PROVE Good'
    BY <1>13 DEF vars
  <1> QED
    BY <1>1, <1>2, <1>3, <1>4, <1>5, <1>6, <1>7, <1>8, <1>9, <1>10, <1>11, <1>12, <1>13
       DEF Next, Step

\* The set of claimants is finite before and after a step.
LEMMA ClaimantsFinite ==
  /\ IsFiniteSet(Claimants) /\ Cardinality(Claimants) \in Nat
  /\ IsFiniteSet(Claimants') /\ Cardinality(Claimants') \in Nat
  <1>1. IsFiniteSet(Claimants) /\ IsFiniteSet(Claimants')
    BY SemaphoreAssumption, FS_Subset DEF Claimants
  <1> QED
    BY <1>1, FS_CardinalityType

\* What the proof of a step needs to know of the set of claimants.
LEMMA ClaimantsGrow == Claimants \subseteq Claimants' => Cardinality(Claimants) <= Cardinality(Claimants')
  BY ClaimantsFinite, FS_Subset

\* One claimant more.
LEMMA ClaimantsGain ==
  ASSUME NEW s, s \notin Claimants, Claimants' = Claimants \cup {s}
  PROVE  Cardinality(Claimants') = Cardinality(Claimants) + 1
  BY ClaimantsFinite, FS_AddElement

\* One claimant less.
LEMMA ClaimantsLose ==
  ASSUME NEW s, s \in Claimants, Claimants' = Claimants \ {s}
  PROVE  Cardinality(Claimants') = Cardinality(Claimants) - 1
  BY ClaimantsFinite, FS_RemoveElement

\* A step that adds no permit and takes no claimant away preserves the
\* invariant, unless it puts a thread to sleep.
LEMMA QuietStep ==
  ASSUME TypeOK, NoStrandedPermit, Destructing => Destructing',
         count' = count \/ (TypeOK' /\ count' <= count),
         Asleep' \subseteq Asleep, Claimants \subseteq Claimants'
  PROVE  NoStrandedPermit'
  BY ClaimantsFinite, ClaimantsGrow DEF TypeOK, NoStrandedPermit

\* No step strands a permit.
LEMMA PermitStep == IInv /\ [Next]_vars => NoStrandedPermit'
  <1> SUFFICES ASSUME IInv, [Next]_vars PROVE NoStrandedPermit'
    OBVIOUS
  <1>0. TypeOK /\ LockOK /\ OpOK /\ ReadOK /\ NoStrandedPermit /\ TypeOK'
    BY TypeStep DEF IInv
  <1> USE <1>0, SemaphoreAssumption
  <1>1. ASSUME NEW t \in Threads, NEW o \in Operations, Call(t, o) PROVE NoStrandedPermit'
    BY <1>1, QuietStep DEF Call, Asleep, Claimants, Destructing, TypeOK
  <1>2. ASSUME NEW t \in Threads, CheckFlag(t) PROVE NoStrandedPermit'
    BY <1>2, QuietStep DEF CheckFlag, Return, Asleep, Claimants, Destructing, TypeOK
  <1>3. ASSUME NEW t \in Threads, Lock(t) PROVE NoStrandedPermit'
    BY <1>3, QuietStep DEF Lock, Asleep, Claimants, Destructing, TypeOK, OpOK
  <1>4. ASSUME NEW t \in Threads, DecTest(t) PROVE NoStrandedPermit'
    <2>1. CASE pc'[t] = "take"
      BY <1>4, <2>1, QuietStep DEF DecTest, Asleep, Claimants, Destructing, TypeOK
    <2>2. CASE count = 0
      BY <1>4, <2>2, ClaimantsFinite DEF DecTest, NoStrandedPermit
    <2> QED
      BY <1>4, <2>1, <2>2 DEF DecTest, TypeOK
  <1>5. ASSUME NEW t \in Threads, DecWait(t) PROVE NoStrandedPermit'
    BY <1>5, ClaimantsFinite DEF DecWait, ReadOK, NoStrandedPermit
  <1>6. ASSUME NEW t \in Threads, DecTake(t) PROVE NoStrandedPermit'
    <2>1. CASE Destructing
      BY <1>6, <2>1 DEF DecTake, Return, NoStrandedPermit, Destructing
    <2>2. CASE ~Destructing
      <3>1. count' = count - 1
        BY <1>6, <2>2, CountArithmetic DEF DecTake, ReadOK, TypeOK
      <3>2. t \in Claimants /\ Claimants' = Claimants \ {t}
        BY <1>6, <2>2 DEF DecTake, Return, Claimants, TypeOK
      <3>3. Asleep' = Asleep
        BY <1>6, <2>2 DEF DecTake, Return, Asleep, TypeOK
      <3>4. Cardinality(Claimants') = Cardinality(Claimants) - 1
        BY <3>2, ClaimantsLose
      <3> QED
        BY <2>2, <3>1, <3>3, <3>4, ClaimantsFinite DEF NoStrandedPermit, TypeOK
    <2> QED
      BY <2>1, <2>2
  <1>7. ASSUME NEW t \in Threads, IncBody(t) PROVE NoStrandedPermit'
    <2>1. count' <= count + 1 /\ Destructing' = Destructing
      <3>1. (count + 1) % Modulus <= count + 1
        BY CountArithmetic DEF TypeOK
      <3> QED
        BY <1>7, <3>1 DEF IncBody, LeaveInc, Destructing
    <2>2. CASE Asleep = {}
      <3>1. Asleep' = {}
        BY <1>7, <2>2 DEF IncBody, LeaveInc, Asleep, TypeOK
      <3> QED
        BY <3>1 DEF NoStrandedPermit
    <2>3. ASSUME NEW s \in Asleep, pc' = [pc EXCEPT ![t] = "idle", ![s] = "relock"]
          PROVE  NoStrandedPermit'
      <3>1. s \notin Claimants /\ Claimants' = Claimants \cup {s}
        BY <1>7, <2>3 DEF IncBody, LeaveInc, Claimants, Asleep, TypeOK
      <3>2. ~Destructing' => count <= Cardinality(Claimants)
        BY <2>1, <2>3 DEF NoStrandedPermit
      <3>3. Cardinality(Claimants') = Cardinality(Claimants) + 1
        BY <3>1, ClaimantsGain
      <3> QED
        BY <2>1, <3>2, <3>3, ClaimantsFinite DEF NoStrandedPermit, TypeOK
    <2> QED
      BY <1>7, <2>2, <2>3 DEF IncBody, LeaveInc
  <1>8. ASSUME NEW t \in Threads, TryDecBody(t) PROVE NoStrandedPermit'
    <2>1. count' <= count
      <3>1. count \in Nat /\ (count > 0 => (count + Modulus - 1) % Modulus = count - 1)
        BY CountArithmetic DEF TypeOK
      <3> QED
        BY <1>8, <3>1 DEF TryDecBody
    <2> QED
      BY <1>8, <2>1, QuietStep DEF TryDecBody, Return, Asleep, Claimants, Destructing, TypeOK
  <1>9. ASSUME NEW t \in Threads, CountBody(t) PROVE NoStrandedPermit'
    BY <1>9, QuietStep DEF CountBody, Return, Asleep, Claimants, Destructing, TypeOK
  <1>10. ASSUME NEW t \in Threads, SpuriousWake(t) PROVE NoStrandedPermit'
    BY <1>10, QuietStep DEF SpuriousWake, Asleep, Claimants, Destructing, TypeOK
  <1>11. ASSUME SetFlag PROVE NoStrandedPermit'
    BY <1>11 DEF SetFlag, NoStrandedPermit, Destructing
  <1>12. ASSUME NotifyAll PROVE NoStrandedPermit'
    BY <1>12 DEF NotifyAll, NoStrandedPermit, Destructing
  <1>13. ASSUME UNCHANGED vars PROVE NoStrandedPermit'
    BY <1>13, QuietStep DEF vars, Asleep, Claimants, Destructing
  <1> QED
    BY <1>1, <1>2, <1>3, <1>4, <1>5, <1>6, <1>7, <1>8, <1>9, <1>10, <1>11, <1>12, <1>13
       DEF Next, Step

\* Every step keeps the invariant.
LEMMA Inductive == IInv /\ [Next]_vars => IInv'
  BY TypeStep, ControlStep, PermitStep DEF IInv

\* The invariant holds in every reachable state.
LEMMA Invariance == Spec => []IInv
  BY InitIInv, Inductive, PTL DEF Spec

-----------------------------------------------------------------------------
(* The theorems. *)

\* Every reachable state is well typed: in particular the counter stays within
\* its width and is never decremented below zero.
THEOREM TypeCorrect == Spec => []TypeOK
  <1>1. IInv => TypeOK
    BY DEF IInv
  <1> QED
    BY <1>1, Invariance, PTL

\* inc() and the wait loop of dec() lose no wakeup, for any number of threads.
THEOREM NoLostWakeup == Spec => []NoStrandedPermit
  <1>1. IInv => NoStrandedPermit
    BY DEF IInv
  <1> QED
    BY <1>1, Invariance, PTL

-----------------------------------------------------------------------------
(* The semaphore implements the counting semaphore.                          *)

\* A semaphore that has just been made is a counting semaphore that has.
LEMMA InitRefines == Init => AbsInit
  BY DEF Init, AbsInit, Destructing

\* Every step of the code is one step of the promise, or invisible to it.
LEMMA StepRefines == IInv /\ [Next]_vars => [AbsNext]_absVars
  <1> SUFFICES ASSUME IInv, [Next]_vars PROVE [AbsNext]_absVars
    OBVIOUS
  <1> USE SemaphoreAssumption DEF IInv, TypeOK, OpOK, Critical, Destructing
  <1>1. ASSUME NEW t \in Threads, NEW o \in Operations, Call(t, o) PROVE AbsNext
    <2>1. Request(t, o)
      BY <1>1 DEF Call, Request
    <2> QED
      BY <2>1 DEF AbsNext
  <1>2. ASSUME NEW t \in Threads, CheckFlag(t) PROVE [AbsNext]_absVars
    <2>1. CASE Destructing
      <3>1. Throw(t)
        BY <1>2, <2>1 DEF CheckFlag, Return, Throw, Reply
      <3> QED
        BY <3>1 DEF AbsNext
    <2>2. CASE ~Destructing
      BY <1>2, <2>2 DEF CheckFlag, absVars
    <2> QED
      BY <2>1, <2>2
  <1>3. ASSUME NEW t \in Threads, Lock(t) \/ DecTest(t) \/ DecWait(t) \/ SpuriousWake(t)
        PROVE  UNCHANGED absVars
    BY <1>3 DEF Lock, DecTest, DecWait, SpuriousWake, absVars
  <1>4. ASSUME NEW t \in Threads, DecTake(t) PROVE AbsNext
    <2>1. CASE Destructing
      <3>1. Throw(t)
        BY <1>4, <2>1 DEF DecTake, Return, Throw, Reply
      <3> QED
        BY <3>1 DEF AbsNext
    <2>2. CASE ~Destructing
      <3>1. count > 0 /\ count' = count - 1
        BY <1>4, <2>2, CountArithmetic DEF DecTake, ReadOK
      <3>2. Acquire(t)
        BY <1>4, <2>2, <3>1 DEF DecTake, Return, Acquire, Reply
      <3> QED
        BY <3>2 DEF AbsNext
    <2> QED
      BY <2>1, <2>2
  <1>5. ASSUME NEW t \in Threads, IncBody(t) PROVE AbsNext
    <2>1. Release(t)
      BY <1>5 DEF IncBody, LeaveInc, Release, Reply
    <2> QED
      BY <2>1 DEF AbsNext
  <1>6. ASSUME NEW t \in Threads, TryDecBody(t) PROVE AbsNext
    <2>1. CASE count = 0
      <3>1. Refuse(t)
        BY <1>6, <2>1 DEF TryDecBody, Return, Refuse, Reply
      <3> QED
        BY <3>1 DEF AbsNext
    <2>2. CASE count # 0
      <3>1. count > 0 /\ (count + Modulus - 1) % Modulus = count - 1
        BY <2>2, CountArithmetic
      <3>2. Acquire(t)
        BY <1>6, <2>2, <3>1 DEF TryDecBody, Return, Acquire, Reply
      <3> QED
        BY <3>2 DEF AbsNext
    <2> QED
      BY <2>1, <2>2
  <1>7. ASSUME NEW t \in Threads, CountBody(t) PROVE AbsNext
    <2>1. Observe(t)
      BY <1>7 DEF CountBody, Return, Observe, Reply
    <2> QED
      BY <2>1 DEF AbsNext
  <1>8. ASSUME SetFlag PROVE AbsNext
    <2>1. Close
      BY <1>8 DEF SetFlag, Close
    <2> QED
      BY <2>1 DEF AbsNext
  <1>9. ASSUME NotifyAll PROVE UNCHANGED absVars
    BY <1>9 DEF NotifyAll, absVars
  <1>10. ASSUME UNCHANGED vars PROVE UNCHANGED absVars
    BY <1>10 DEF vars, absVars
  <1> QED
    BY <1>1, <1>2, <1>3, <1>4, <1>5, <1>6, <1>7, <1>8, <1>9, <1>10 DEF Next, Step

\* Every call takes effect at one moment between its invocation and its
\* return: a permit is taken only when there is one, try_dec() fails only when
\* there is none, exceptions come only after the destructor has begun.
THEOREM ImplementsCountingSemaphore == Spec => AbsSpec
  BY InitRefines, StepRefines, Invariance, PTL DEF Spec, AbsSpec

-----------------------------------------------------------------------------
(* Induction, and functions that are defined by recursion.                   *)

\* A set of numbers that is not empty has a smallest one.
LEMMA SmallestNumber ==
    ASSUME NEW P \in SUBSET Nat, P # {}
    PROVE  \E m \in P : \A y \in P : m <= y
<1>. DEFINE R == OpToRel(<, Nat)
<1>1. IsWellFoundedOn(R, Nat)
    BY NatLessThanWellFounded
<1>2. \E x \in P : \A y \in P : ~ (<<y, x>> \in R)
  <2>. HIDE DEF R
  <2>. QED  BY <1>1, WFMin
<1>3. PICK x \in P : \A y \in P : ~ (<<y, x>> \in R)
    BY <1>2
<1>4. ASSUME NEW y \in P PROVE x <= y
  <2>1. x \in Nat /\ y \in Nat
      OBVIOUS
  <2>2. y < x => <<y, x>> \in R
      BY <2>1 DEF OpToRel
  <2>. HIDE DEF R
  <2>3. ~ (y < x)
      BY <1>3, <2>2
  <2>. QED  BY <2>1, <2>3
<1>. QED  BY <1>4

\* A set of numbers that has 0 and the successor of each member has them all.
LEMMA NatInd ==
    ASSUME NEW T \in SUBSET Nat, 0 \in T, \A n \in T : n + 1 \in T
    PROVE  T = Nat
<1>. DEFINE U == Nat \ T
<1>1. ASSUME U # {} PROVE FALSE
  <2>1. U \in SUBSET Nat
      OBVIOUS
  <2>2. PICK x \in U : \A y \in U : x <= y
    <3>. HIDE DEF U
    <3>. QED  BY <1>1, <2>1, SmallestNumber
  <2>3. x \in Nat /\ x # 0
      BY <2>2
  <2>4. x - 1 \in Nat /\ x - 1 + 1 = x /\ ~(x <= x - 1)
      BY <2>3
  <2>5. x - 1 \in U
      BY <2>2, <2>4
  <2>. QED  BY <2>2, <2>4, <2>5
<1>. QED  BY <1>1

\* f begins with x and goes on from each value to the next as g says; there is such
\* a function.
Iterates(f, N, x, g) == f[0] = x /\ \A n \in 1..N : f[n] = g[n][f[n - 1]]

LEMMA Recursion ==
    ASSUME NEW N \in Nat, NEW S, NEW x \in S, NEW g \in [1..N -> [S -> S]]
    PROVE  \E f \in [0..N -> S] : Iterates(f, N, x, g)
<1>. DEFINE Up(m) == \E f \in [0..m -> S] : f[0] = x /\ \A n \in 1..m : f[n] = g[n][f[n - 1]]
            T == {m \in Nat : m <= N => Up(m)}
<1>1. 0 \in T
  <2>. DEFINE f == [n \in 0..0 |-> x]
  <2>1. f \in [0..0 -> S] /\ f[0] = x /\ \A n \in 1..0 : f[n] = g[n][f[n - 1]]
      OBVIOUS
  <2>. HIDE DEF f
  <2>2. Up(0)
      BY <2>1
  <2>. QED  BY <2>2
<1>2. ASSUME NEW m \in T PROVE m + 1 \in T
  <2>. SUFFICES ASSUME m + 1 <= N PROVE Up(m + 1)
    <3>. HIDE DEF Up
    <3>. QED  OBVIOUS
  <2>0. Up(m)
    <3>. HIDE DEF Up
    <3>. QED  OBVIOUS
  <2>1. PICK f \in [0..m -> S] : f[0] = x /\ \A n \in 1..m : f[n] = g[n][f[n - 1]]
      BY <2>0
  <2>2. m \in Nat /\ m \in 0..m /\ m + 1 \in 1..N /\ m + 1 \notin 0..m
      OBVIOUS
  <2>3. PICK y : y = g[m + 1][f[m]]
      OBVIOUS
  <2>4. y \in S
      BY <2>1, <2>2, <2>3
  <2>. DEFINE h == [n \in 0..(m + 1) |-> IF n = m + 1 THEN y ELSE f[n]]
  <2>5. \A n \in 0..(m + 1) : n = m + 1 \/ n \in 0..m
      BY <2>2
  <2>6. h \in [0..(m + 1) -> S]
      BY <2>1, <2>4, <2>5
  <2>7. (\A n \in 0..m : h[n] = f[n]) /\ h[m + 1] = y
      BY <2>2
  <2>. HIDE DEF h
  <2>8. ASSUME NEW n \in 1..(m + 1) PROVE h[n] = g[n][h[n - 1]]
    <3>1. CASE n = m + 1
      <4>1. n - 1 = m
          BY <3>1, <2>2
      <4>. QED  BY <3>1, <4>1, <2>3, <2>7, <2>2
    <3>2. CASE n # m + 1
      <4>1. n \in 1..m /\ n - 1 \in 0..m /\ n \in 0..m
          BY <3>2, <2>2
      <4>. QED  BY <4>1, <2>1, <2>7
    <3>. QED  BY <3>1, <3>2
  <2>9. h[0] = x
      BY <2>1, <2>2, <2>7
  <2>. QED  BY <2>6, <2>8, <2>9
<1>3. T = Nat
  <2>1. T \in SUBSET Nat
      OBVIOUS
  <2>. HIDE DEF T
  <2>. QED  BY <1>1, <1>2, <2>1, NatInd
<1>4. PICK f \in [0..N -> S] : f[0] = x /\ \A n \in 1..N : f[n] = g[n][f[n - 1]]
    BY <1>3
<1>. QED  BY <1>4 DEF Iterates


-----------------------------------------------------------------------------
(* Folds over sequences: as FoldLeft is defined, over the sets of their      *)
(* places, the largest of which comes last.                                  *)

\* A set of numbers up to N that is not empty has a largest one.
LEMMA LargestNumber ==
    ASSUME NEW N \in Nat, NEW P \in SUBSET (1..N), P # {}
    PROVE  Max(P) \in P /\ \A y \in P : y <= Max(P)
<1>1. \E i \in P : \A j \in P : i >= j
  <2>. DEFINE Q == {N - j : j \in P}
  <2>0. \A j \in P : N - j \in Nat
      OBVIOUS
  <2>1. Q \in SUBSET Nat /\ Q # {}
      BY <2>0
  <2>2. PICK m \in Q : \A y \in Q : m <= y
    <3>. HIDE DEF Q
    <3>. QED  BY <2>1, SmallestNumber
  <2>3. PICK i \in P : m = N - i
      OBVIOUS
  <2>4. \A j \in P : N - i <= N - j
      BY <2>2, <2>3
  <2>5. \A j \in P : i >= j
      BY <2>4
  <2>. QED  BY <2>5
<1>2. Max(P) \in P /\ \A y \in P : Max(P) >= y
    BY <1>1 DEF Max
<1>3. \A y \in P : y <= Max(P)
    BY <1>2
<1>. QED  BY <1>2, <1>3

\* The largest of the first n numbers is n.
LEMMA LargestIsLast ==
    ASSUME NEW N \in Nat, NEW n \in 1..N
    PROVE  Max(1..n) = n /\ (1..n) \ {n} = 1..(n - 1) /\ 1..n # {} /\ 1..n \in SUBSET (1..N)
<1>1. 1..n \in SUBSET (1..N) /\ n \in 1..n /\ 1..n # {}
    OBVIOUS
<1>2. Max(1..n) \in 1..n /\ n <= Max(1..n)
    BY <1>1, LargestNumber
<1>. QED  BY <1>1, <1>2

\* f goes through a set of numbers from x on as g says; there is such a function.
GoesThrough(f, N, x, g) ==
    /\ f[{}] = x
    /\ \A s \in SUBSET (1..N) : s # {} => f[s] = g[Max(s)][f[s \ {Max(s)}]]

LEMMA SetRecursion ==
    ASSUME NEW N \in Nat, NEW V, NEW x \in V, NEW g \in [1..N -> [V -> V]]
    PROVE  \E f \in [SUBSET (1..N) -> V] : GoesThrough(f, N, x, g)
<1>. DEFINE Up(m) == \E f \in [SUBSET (1..m) -> V] : GoesThrough(f, m, x, g)
            T == {m \in Nat : m <= N => Up(m)}
<1>1. 0 \in T
  <2>. DEFINE f == [s \in SUBSET (1..0) |-> x]
  <2>0. SUBSET (1..0) = {{}}
      OBVIOUS
  <2>1. f \in [SUBSET (1..0) -> V] /\ f[{}] = x
      BY <2>0
  <2>. HIDE DEF f
  <2>2. Up(0)
      BY <2>0, <2>1 DEF GoesThrough
  <2>. QED  BY <2>2
<1>2. ASSUME NEW m \in T PROVE m + 1 \in T
  <2>. SUFFICES ASSUME m + 1 <= N PROVE Up(m + 1)
    <3>. HIDE DEF Up
    <3>. QED  OBVIOUS
  <2>0. m \in Nat /\ m <= N /\ Up(m)
    <3>. HIDE DEF Up
    <3>. QED  OBVIOUS
  <2>1. PICK f \in [SUBSET (1..m) -> V] : GoesThrough(f, m, x, g)
      BY <2>0
  <2>. DEFINE n == m + 1
              h == [s \in SUBSET (1..n) |-> IF n \in s THEN g[n][f[s \ {n}]] ELSE f[s]]
  <2>2. n \in 1..N /\ n \notin 1..m /\ 1..n = (1..m) \cup {n} /\ n \in Nat /\ \A i \in 1..n : i <= n
      BY <2>0
  <2>3. \A s \in SUBSET (1..n) : s \ {n} \in SUBSET (1..m) /\ (n \notin s => s \in SUBSET (1..m))
    <3>. HIDE DEF n
    <3>. QED  BY <2>2
  <2>4. h \in [SUBSET (1..n) -> V]
    <3>1. \A s \in SUBSET (1..n) : (IF n \in s THEN g[n][f[s \ {n}]] ELSE f[s]) \in V
      <4>. HIDE DEF n
      <4>. QED  BY <2>1, <2>2, <2>3
    <3>. QED  BY <3>1
  <2>5. \A s \in SUBSET (1..m) : s \in SUBSET (1..n) /\ n \notin s /\ h[s] = f[s]
    <3>. HIDE DEF n
    <3>. QED  BY <2>2
  <2>6. \A s \in SUBSET (1..n) : n \in s => h[s] = g[n][f[s \ {n}]]
      OBVIOUS
  <2>. HIDE DEF h
  <2>7. h[{}] = x
      BY <2>1, <2>5 DEF GoesThrough
  <2>8. ASSUME NEW s \in SUBSET (1..n), s # {} PROVE h[s] = g[Max(s)][h[s \ {Max(s)}]]
    <3>1. Max(s) \in s /\ \A y \in s : y <= Max(s)
      <4>. HIDE DEF n
      <4>. QED  BY <2>2, <2>8, LargestNumber
    <3>2. CASE n \in s
      <4>1. Max(s) = n
        <5>. HIDE DEF n
        <5>1. Max(s) \in 1..n /\ n <= Max(s)
            BY <3>1, <3>2
        <5>2. Max(s) <= n /\ Max(s) \in Int /\ n \in Int
            BY <5>1, <2>2
        <5>. QED  BY <5>1, <5>2
      <4>. HIDE DEF n
      <4>2. h[s \ {n}] = f[s \ {n}]
          BY <2>3, <2>5
      <4>. QED  BY <2>6, <3>2, <4>1, <4>2
    <3>3. CASE n \notin s
      <4>. HIDE DEF n
      <4>1. s \in SUBSET (1..m) /\ s \ {Max(s)} \in SUBSET (1..m)
          BY <2>3, <3>3
      <4>2. f[s] = g[Max(s)][f[s \ {Max(s)}]]
          BY <2>1, <2>8, <4>1 DEF GoesThrough
      <4>. QED  BY <2>5, <4>1, <4>2
    <3>. QED  BY <3>2, <3>3
  <2>. HIDE DEF n
  <2>9. Up(n)
      BY <2>4, <2>7, <2>8 DEF GoesThrough
  <2>. QED  BY <2>9 DEF n
<1>3. T = Nat
  <2>1. T \in SUBSET Nat
      OBVIOUS
  <2>. HIDE DEF T
  <2>. QED  BY <1>1, <1>2, <2>1, NatInd
<1>4. Up(N)
  <2>1. N \in T /\ N <= N
    <3>. HIDE DEF T
    <3>. QED  BY <1>3
  <2>. HIDE DEF Up
  <2>. QED  BY <2>1
<1>. QED  BY <1>4

\* Induction over the numbers up to N
LEMMA UpTo ==
    ASSUME NEW N \in Nat, NEW P \in SUBSET (0..N), 0 \in P, \A n \in 1..N : n - 1 \in P => n \in P
    PROVE  P = 0..N
<1>. DEFINE T == {n \in Nat : n <= N => n \in P}
<1>1. 0 \in T
    OBVIOUS
<1>2. ASSUME NEW n \in T PROVE n + 1 \in T
  <2>. SUFFICES ASSUME n + 1 <= N PROVE n + 1 \in P
      OBVIOUS
  <2>1. n + 1 \in 1..N /\ n + 1 - 1 = n /\ n \in P
      OBVIOUS
  <2>. QED  BY <2>1
<1>3. T = Nat
  <2>1. T \in SUBSET Nat
      OBVIOUS
  <2>. HIDE DEF T
  <2>. QED  BY <1>1, <1>2, <2>1, NatInd
<1>4. \A n \in 0..N : n \in P
    BY <1>3
<1>. QED  BY <1>4

\* The sequences of a sequence one after another: p[i] are the first i of them.
Joins(p, ss) == p[0] = <<>> /\ \A i \in 1..Len(ss) : p[i] = p[i - 1] \o ss[i]

\* FlattenSeq() joins them one by one.
LEMMA Flattened ==
    ASSUME NEW S, NEW ss \in Seq(Seq(S))
    PROVE  \E p \in [0..Len(ss) -> Seq(S)] : Joins(p, ss) /\ FlattenSeq(ss) = p[Len(ss)]
<1>. DEFINE N == Len(ss)
            C == Seq(S)
            g == [i \in 1..N |-> [y \in C |-> y \o ss[i]]]
            Body(f) == [i \in 1..N |-> IF i = 1 THEN ss[i] ELSE f[i - 1] \o ss[i]]
<1>1. N \in Nat /\ (\A i \in 1..N : ss[i] \in C)
    BY LenProperties, ElementOfSeq
<1>2. <<>> \in C
    BY EmptySeq
<1>3. g \in [1..N -> [C -> C]]
  <2>1. \A i \in 1..N, y \in C : y \o ss[i] \in C
      BY <1>1, ConcatProperties
  <2>. HIDE DEF N, C
  <2>. QED  BY <2>1
<1>4. PICK p \in [0..N -> C] : Iterates(p, N, <<>>, g)
  <2>. HIDE DEF N, C, g
  <2>. QED  BY <1>1, <1>2, <1>3, Recursion
<1>5. \A i \in 0..N : i = 0 \/ (i \in 1..N /\ i - 1 \in 0..N)
    BY <1>1
<1>6. p[0] = <<>> /\ \A i \in 1..N : p[i] = p[i - 1] \o ss[i]
  <2>1. \A i \in 1..N : i - 1 \in 0..N
      BY <1>1
  <2>2. \A i \in 1..N, y \in C : g[i][y] = y \o ss[i]
      OBVIOUS
  <2>3. p[0] = <<>> /\ \A i \in 1..N : p[i] = g[i][p[i - 1]]
      BY <1>4 DEF Iterates
  <2>. HIDE DEF N, C, g
  <2>. QED  BY <2>1, <2>2, <2>3
<1>7. Joins(p, ss)
    BY <1>6 DEF Joins
<1>8. CASE N = 0
  <2>1. ss = <<>>
      BY <1>8, EmptySeq
  <2>. QED  BY <1>1, <1>6, <1>7, <1>8, <2>1 DEF FlattenSeq
<1>9. CASE N # 0
  <2>. DEFINE f == [i \in 1..N |-> p[i]]
  <2>1. 1 \in 1..N /\ 0 \in 0..N /\ \A i \in 1..N : i # 1 => i - 1 \in 1..N
      BY <1>1, <1>9
  <2>2. \A i \in 1..N : p[i] = IF i = 1 THEN ss[i] ELSE p[i - 1] \o ss[i]
    <3>1. p[1] = ss[1]
      <4>0. p[1] = p[1 - 1] \o ss[1]
        <5>. HIDE DEF N
        <5>. QED  BY <1>6, <2>1
      <4>1. p[1] = <<>> \o ss[1]
        <5>1. 1 - 1 = 0
            OBVIOUS
        <5>2. p[1] = p[0] \o ss[1]
          <6>. HIDE DEF N
          <6>. QED  BY <4>0, <5>1
        <5>. QED  BY <1>6, <5>2
      <4>2. ss[1] \in Seq(S)
          BY <1>1, <2>1
      <4>. QED  BY <4>1, <4>2, ConcatEmptySeq
    <3>. QED  BY <1>6, <3>1
  <2>3. f = Body(f)
    <3>. HIDE DEF N
    <3>. QED  BY <2>1, <2>2
  <2>4. PICK h : h = CHOOSE k : k = Body(k)
      OBVIOUS
  <2>5. h = Body(h)
    <3>. HIDE DEF Body
    <3>. QED  BY <2>3, <2>4
  <2>6. FlattenSeq(ss) = h[N]
      BY <1>9, <2>4 DEF FlattenSeq
  <2>7. \A i \in 1..N : h[i] = IF i = 1 THEN ss[i] ELSE h[i - 1] \o ss[i]
    <3>. HIDE DEF N
    <3>. QED  BY <2>5
  <2>. DEFINE P == {i \in 0..N : i # 0 => h[i] = p[i]}
  <2>8. 0 \in P
      BY <1>1
  <2>9. ASSUME NEW i \in 1..N, i - 1 \in P PROVE i \in P
    <3>1. i \in 0..N /\ i # 0 /\ (i # 1 => i - 1 # 0)
        BY <1>1
    <3>2. CASE i = 1
        BY <2>2, <2>7, <3>1, <3>2
    <3>3. CASE i # 1
      <4>1. h[i - 1] = p[i - 1]
          BY <2>9, <3>1, <3>3
      <4>. HIDE DEF N
      <4>2. h[i] = p[i]
          BY <2>2, <2>7, <3>3, <4>1
      <4>. QED  BY <3>1, <4>2
    <3>. QED  BY <3>2, <3>3
  <2>10. P = 0..N
    <3>1. P \in SUBSET (0..N)
        OBVIOUS
    <3>. HIDE DEF P, N
    <3>. QED  BY <1>1, <2>8, <2>9, <3>1, UpTo
  <2>11. h[N] = p[N]
      BY <1>1, <1>9, <2>10
  <2>. QED  BY <1>7, <2>6, <2>11
<1>. QED  BY <1>8, <1>9

-----------------------------------------------------------------------------
(* The names and the keys of an enumeration.                                 *)

\* The keys and the names of the lines
KeyOf  == [j \in DOMAIN EnumLines |-> EnumLines[j].index]
NameOf == [j \in DOMAIN EnumLines |-> EnumLines[j].value]
LastLine == Len(EnumLines)

\* m is what the first i lines make of an empty map from x to y: of two lines with
\* one x the last one counts.
LastOf(m, x, y, i, v) == \E j \in 1..i : x[j] = v /\ y[j] = m[v] /\ \A h \in 1..i : x[h] = v => h <= j
MapOf(m, x, y, i) == /\ \A v : v \in DOMAIN m <=> \E j \in 1..i : x[j] = v
                     /\ \A v \in DOMAIN m : LastOf(m, x, y, i, v)

LEMMA EnumLinesAre ==
    /\ LastLine \in Nat \ {0} /\ DOMAIN EnumLines = 1..LastLine
    /\ KeyOf \in [1..LastLine -> EnumKeys] /\ NameOf \in [1..LastLine -> EnumNames]
    /\ \A j \in 1..LastLine : KeyOf[j] = EnumLines[j].index /\ NameOf[j] = EnumLines[j].value
<1>1. EnumLines \in Seq([value : EnumNames, index : EnumKeys]) /\ EnumLines # <<>>
    BY CoolEnumAssumption
<1>2. LastLine \in Nat /\ DOMAIN EnumLines = 1..LastLine
    BY <1>1, LenProperties DEF LastLine
<1>3. LastLine # 0
    BY <1>1, EmptySeq DEF LastLine
<1>4. \A j \in 1..LastLine : EnumLines[j] \in [value : EnumNames, index : EnumKeys]
    BY <1>1, <1>2, ElementOfSeq DEF LastLine
<1>5. \A j \in 1..LastLine : EnumLines[j].value \in EnumNames /\ EnumLines[j].index \in EnumKeys
    BY <1>4
<1>. QED  BY <1>2, <1>3, <1>5 DEF KeyOf, NameOf

\* A line more
LEMMA LineFilled ==
    ASSUME NEW n \in Nat, NEW x, NEW y, NEW i \in 1..n, NEW m, MapOf(m, x, y, i - 1)
    PROVE  MapOf(With(m, x[i], y[i]), x, y, i)
<1>. DEFINE w == With(m, x[i], y[i])
<1>1. /\ \A v : v \in DOMAIN m <=> \E j \in 1..(i - 1) : x[j] = v
      /\ \A v \in DOMAIN m : LastOf(m, x, y, i - 1, v)
    BY DEF MapOf
<1>2. /\ \A v : v \in DOMAIN w <=> (v = x[i] \/ v \in DOMAIN m)
      /\ w[x[i]] = y[i] /\ \A v \in DOMAIN m : v # x[i] => w[v] = m[v]
    BY DEF With
<1>. HIDE DEF w
<1>3. 1..i = 1..(i - 1) \cup {i} /\ i \in 1..i /\ i - 1 \in Nat /\ \A j \in 1..(i - 1) : j \in Nat /\ j <= i
    OBVIOUS
<1>4. ASSUME NEW v PROVE v \in DOMAIN w <=> \E j \in 1..i : x[j] = v
    BY <1>1, <1>2, <1>3
<1>5. ASSUME NEW v \in DOMAIN w PROVE LastOf(w, x, y, i, v)
  <2>1. CASE v = x[i]
    <3>1. \A h \in 1..i : h <= i
        OBVIOUS
    <3>. QED  BY <2>1, <3>1, <1>2, <1>3 DEF LastOf
  <2>2. CASE v # x[i]
    <3>1. v \in DOMAIN m /\ w[v] = m[v]
        BY <2>2, <1>2
    <3>2. PICK j \in 1..(i - 1) : x[j] = v /\ y[j] = m[v] /\ \A h \in 1..(i - 1) : x[h] = v => h <= j
        BY <3>1, <1>1 DEF LastOf
    <3>3. j \in 1..i /\ \A h \in 1..i : x[h] = v => h <= j
        BY <3>2, <2>2, <1>3
    <3>. QED  BY <3>1, <3>2, <3>3 DEF LastOf
  <2>. QED  BY <2>1, <2>2
<1>6. MapOf(w, x, y, i)
    BY <1>4, <1>5 DEF MapOf
<1>. QED  BY <1>6 DEF w

LEMMA NoLineFilled ==
    ASSUME NEW x, NEW y, NEW m, m = Nothing
    PROVE  MapOf(m, x, y, 0)
<1>1. DOMAIN m = {} /\ 1..0 = {}
    BY DEF Nothing
<1>. QED  BY <1>1 DEF MapOf

\* The keys and names that are asked for
LEMMA QuestionsAre ==
    ASSUME NEW q \in Asked
    PROVE  /\ AskedKey(q) => q.key \in EnumKeys /\ q = [key |-> q.key]
           /\ ~AskedKey(q) => q.name \in EnumNames /\ q = [name |-> q.name]
BY DEF Asked, AskedKey

\* What the maps give, once they are filled, is what the enumeration says.
LEMMA FoundIsRight ==
    ASSUME NEW q \in Asked, MapOf(k2s, KeyOf, NameOf, LastLine), MapOf(s2k, NameOf, KeyOf, LastLine)
    PROVE  (IF AskedKey(q) THEN IF q.key \in DOMAIN k2s THEN [name |-> k2s[q.key]] ELSE NotFound
                           ELSE IF q.name \in DOMAIN s2k THEN [key |-> s2k[q.name]] ELSE NotFound) = Right(q)
<1>. USE EnumLinesAre
<1>1. ASSUME NEW j \in 1..LastLine, j \in Says(q), \A h \in Says(q) : h <= j
      PROVE  Right(q) = Said(q, j)
  <2>1. Says(q) # {} /\ \A h \in Says(q) : h \in Int
      BY <1>1 DEF Says
  <2>2. \A i \in Says(q) : (\A h \in Says(q) : h <= i) => i = j
      BY <1>1, <2>1
  <2>3. (CHOOSE i \in Says(q) : \A h \in Says(q) : h <= i) = j
      BY <1>1, <2>2
  <2>. QED  BY <2>1, <2>3 DEF Right
<1>2. CASE AskedKey(q)
  <2>1. \A j \in 1..LastLine : j \in Says(q) <=> KeyOf[j] = q.key
      BY <1>2 DEF Says
  <2>2. CASE q.key \in DOMAIN k2s
    <3>1. PICK j \in 1..LastLine : KeyOf[j] = q.key /\ NameOf[j] = k2s[q.key] /\ \A h \in 1..LastLine : KeyOf[h] = q.key => h <= j
        BY <2>2 DEF MapOf, LastOf
    <3>2. j \in Says(q) /\ \A h \in Says(q) : h <= j
      <4>1. \A h \in Says(q) : h \in 1..LastLine
          BY DEF Says
      <4>. QED  BY <4>1, <3>1, <2>1
    <3>3. Right(q) = Said(q, j)
        BY <1>1, <3>2
    <3>. QED  BY <3>1, <3>3, <1>2, <2>2 DEF Said
  <2>3. CASE q.key \notin DOMAIN k2s
    <3>1. Says(q) = {}
      <4>1. \A j \in 1..LastLine : KeyOf[j] # q.key
          BY <2>3 DEF MapOf
      <4>. QED  BY <4>1, <1>2 DEF Says
    <3>. QED  BY <3>1, <1>2, <2>3 DEF Right
  <2>. QED  BY <2>2, <2>3
<1>3. CASE ~AskedKey(q)
  <2>1. \A j \in 1..LastLine : j \in Says(q) <=> NameOf[j] = q.name
      BY <1>3 DEF Says
  <2>2. CASE q.name \in DOMAIN s2k
    <3>1. PICK j \in 1..LastLine : NameOf[j] = q.name /\ KeyOf[j] = s2k[q.name] /\ \A h \in 1..LastLine : NameOf[h] = q.name => h <= j
        BY <2>2 DEF MapOf, LastOf
    <3>2. j \in Says(q) /\ \A h \in Says(q) : h <= j
      <4>1. \A h \in Says(q) : h \in 1..LastLine
          BY DEF Says
      <4>. QED  BY <4>1, <3>1, <2>1
    <3>3. Right(q) = Said(q, j)
        BY <1>1, <3>2
    <3>. QED  BY <3>1, <3>3, <1>3, <2>2 DEF Said
  <2>3. CASE q.name \notin DOMAIN s2k
    <3>1. Says(q) = {}
      <4>1. \A j \in 1..LastLine : NameOf[j] # q.name
          BY <2>3 DEF MapOf
      <4>. QED  BY <4>1, <1>3 DEF Says
    <3>. QED  BY <3>1, <1>3, <2>3 DEF Right
  <2>. QED  BY <2>2, <2>3
<1>. QED  BY <1>2, <1>3

\* A right answer is what some line says, or that there is none.
LEMMA RightIsSaid ==
    ASSUME NEW q \in Asked
    PROVE  Right(q) \in {Said(q, i) : i \in Says(q)} \cup {NotFound}
<1>1. ASSUME Says(q) # {} PROVE \E i \in Says(q) : \A j \in Says(q) : j <= i
  <2>0. Says(q) \subseteq 1..LastLine /\ LastLine \in Nat
      BY EnumLinesAre DEF Says
  <2>. DEFINE P == {LastLine - j : j \in Says(q)}
  <2>1. P \in SUBSET Nat /\ P # {}
      BY <1>1, <2>0
  <2>2. PICK m \in P : \A y \in P : m <= y
    <3>. HIDE DEF P
    <3>. QED  BY <2>1, SmallestNumber
  <2>3. PICK i \in Says(q) : m = LastLine - i
      OBVIOUS
  <2>4. \A j \in Says(q) : LastLine - i <= LastLine - j
      BY <2>2, <2>3
  <2>5. \A j \in Says(q) : j <= i
      BY <2>4, <2>0
  <2>. QED  BY <2>5
<1>. QED  BY <1>1 DEF Right

-----------------------------------------------------------------------------
(* The invariant of an enumeration.                                          *)

\* A thread that is at the first look-up is the only one, unless two have raced.
OneFills == filled # "raced" => \A t, u \in Seekers : Fills(t) /\ Fills(u) => t = u

\* How far the maps are filled while all goes well
KeysFilled(i)  == MapOf(k2s, KeyOf, NameOf, i)
NamesFilled(i) == MapOf(s2k, NameOf, KeyOf, i)
MapsComplete == KeysFilled(LastLine) /\ NamesFilled(LastLine)

\* A look-up begins with the first line.
FromTheFirst == \A t \in Seekers : (InPlace(t, "new") \/ InPlace(t, "idle") \/ InPlace(t, "test")) => seek[t].i = 1

WellFilled ==
    filled = "well" => \A t \in Seekers :
        /\ InPlace(t, "k2s") => KeysFilled(seek[t].i - 1) /\ NamesFilled(seek[t].i - 1)
        /\ InPlace(t, "s2k") => KeysFilled(seek[t].i) /\ NamesFilled(seek[t].i - 1)
        /\ InPlace(t, "find") => MapsComplete /\ \A u \in Seekers : ~Fills(u)

WellBetween ==
    filled = "well" /\ (\A t \in Seekers : ~Fills(t)) => (k2s = Nothing /\ NamesFilled(0)) \/ MapsComplete

\* What maps that have been filled in part have is right, but for empty names; none
\* will go on with them.
TrueOrEmpty  == \A k \in DOMAIN k2s : k2s[k] = Unnamed \/ \E j \in 1..LastLine : KeyOf[j] = k /\ NameOf[j] = k2s[k]
TrueNames    == \A n \in DOMAIN s2k : \E j \in 1..LastLine : NameOf[j] = n /\ KeyOf[j] = s2k[n]
PartlyFilled == filled = "partly" => k2s # Nothing /\ (\A t \in Seekers : ~Fills(t)) /\ TrueOrEmpty /\ TrueNames

EnumIInv == EnumTypeOK /\ FromTheFirst /\ OneFills /\ WellFilled /\ WellBetween /\ PartlyFilled /\ NamesAndKeys

\* A thread at a map has the line it fills in.
LEMMA LineFacts ==
    ASSUME EnumTypeOK, NEW t \in Seekers
    PROVE  /\ seek[t].i \in 1..LastLine /\ seek[t].i - 1 \in Nat
           /\ Line(t).index = KeyOf[seek[t].i] /\ Line(t).value = NameOf[seek[t].i]
           /\ Line(t).index \in EnumKeys /\ Line(t).value \in EnumNames
<1>1. seek[t].i \in 1..LastLine
    BY EnumLinesAre DEF EnumTypeOK
<1>2. KeyOf[seek[t].i] \in EnumKeys /\ NameOf[seek[t].i] \in EnumNames
    BY <1>1, EnumLinesAre
<1>. QED  BY <1>1, <1>2, EnumLinesAre DEF Line

\* What has been filled in is right.
LEMMA FilledIsTrue ==
    ASSUME EnumTypeOK, NEW i \in 0..LastLine, NEW j \in 0..LastLine, KeysFilled(i), NamesFilled(j)
    PROVE  TrueOrEmpty /\ TrueNames
<1>0. 1..i \subseteq 1..LastLine /\ 1..j \subseteq 1..LastLine
    BY EnumLinesAre
<1>1. TrueOrEmpty
    BY <1>0 DEF KeysFilled, MapOf, LastOf, TrueOrEmpty
<1>2. TrueNames
    BY <1>0 DEF NamesFilled, MapOf, LastOf, TrueNames
<1>. QED  BY <1>1, <1>2

\* Maps that are complete are not empty.
LEMMA CompleteIsFilled ==
    ASSUME MapsComplete
    PROVE  k2s # Nothing
<1>1. 1 \in 1..LastLine
    BY EnumLinesAre
<1>2. KeyOf[1] \in DOMAIN k2s
    BY <1>1 DEF MapsComplete, KeysFilled, MapOf
<1>3. DOMAIN Nothing = {}
    BY DEF Nothing
<1>. QED  BY <1>2, <1>3

-----------------------------------------------------------------------------
(* The steps of a look-up keep to their types.                               *)

LEMMA EnumTypeInit ==
    EnumInit => EnumTypeOK
<1>. SUFFICES ASSUME EnumInit PROVE EnumTypeOK
    OBVIOUS
<1>1. k2s = Nothing /\ s2k = Nothing /\ filled = "well"
    BY DEF EnumInit
<1>2. DOMAIN Nothing = {}
    BY DEF Nothing
<1>3. (CHOOSE q \in Asked : TRUE) \in Asked
  <2>1. KeyOf[1] \in EnumKeys
      BY EnumLinesAre
  <2>2. [key |-> KeyOf[1]] \in Asked
      BY <2>1 DEF Asked
  <2>. QED  BY <2>2
<1>4. 1 \in DOMAIN EnumLines
    BY EnumLinesAre
<1>5. PICK q : q = CHOOSE p \in Asked : TRUE
    OBVIOUS
<1>6. seek = [t \in Seekers |-> [at |-> "new", i |-> 1, asked |-> q, got |-> NotFound]]
    BY <1>5 DEF EnumInit
<1>7. NotFound \in Answers
    BY DEF Answers
<1>8. seek \in [Seekers -> [at : {"new", "idle", "test", "k2s", "s2k", "find"}, i : DOMAIN EnumLines,
                            asked : Asked, got : Answers]]
    BY <1>3, <1>4, <1>5, <1>6, <1>7
<1>. QED  BY <1>1, <1>2, <1>8 DEF EnumTypeOK

\* A thread of any type
Seeking == [at : {"new", "idle", "test", "k2s", "s2k", "find"}, i : DOMAIN EnumLines, asked : Asked, got : Answers]

LEMMA EnumTypeStep ==
    ASSUME EnumTypeOK, NEW t \in Seekers,
           LookUp(t) \/ TestEmpty(t) \/ FillK2s(t) \/ FillS2k(t) \/ FillFails(t) \/ Find(t)
    PROVE  EnumTypeOK'
<1>0. /\ DOMAIN k2s \subseteq EnumKeys /\ DOMAIN s2k \subseteq EnumNames
      /\ (\A k \in DOMAIN k2s : k2s[k] \in EnumNames \cup {Unnamed})
      /\ (\A n \in DOMAIN s2k : s2k[n] \in EnumKeys)
      /\ filled \in {"well", "partly", "raced"} /\ seek \in [Seekers -> Seeking]
    BY DEF EnumTypeOK, Seeking
<1>s. seek[t] \in Seeking
    BY <1>0
<1>l. /\ Line(t).index \in EnumKeys /\ Line(t).value \in EnumNames
    BY LineFacts
<1>f. filled' \in {"well", "partly", "raced"}
    BY <1>0 DEF LookUp, TestEmpty, FillK2s, FillS2k, FillFails, Find, UsesMaps
<1>k. /\ (DOMAIN k2s \subseteq EnumKeys)'
      /\ (\A k \in DOMAIN k2s : k2s[k] \in EnumNames \cup {Unnamed})'
  <2>1. ASSUME NEW y \in EnumNames \cup {Unnamed}, k2s' = With(k2s, Line(t).index, y)
        PROVE  /\ (DOMAIN k2s \subseteq EnumKeys)'
               /\ (\A k \in DOMAIN k2s : k2s[k] \in EnumNames \cup {Unnamed})'
      BY <2>1, <1>0, <1>l DEF With
  <2>2. CASE UNCHANGED k2s
      BY <2>2, <1>0
  <2>3. UNCHANGED k2s \/ \E y \in EnumNames \cup {Unnamed} : k2s' = With(k2s, Line(t).index, y)
      BY <1>l DEF LookUp, TestEmpty, FillK2s, FillS2k, FillFails, Find
  <2>. QED  BY <2>1, <2>2, <2>3
<1>n. /\ (DOMAIN s2k \subseteq EnumNames)'
      /\ (\A n \in DOMAIN s2k : s2k[n] \in EnumKeys)'
  <2>1. ASSUME s2k' = With(s2k, Line(t).value, Line(t).index)
        PROVE  /\ (DOMAIN s2k \subseteq EnumNames)'
               /\ (\A n \in DOMAIN s2k : s2k[n] \in EnumKeys)'
      BY <2>1, <1>0, <1>l DEF With
  <2>2. CASE UNCHANGED s2k
      BY <2>2, <1>0
  <2>3. UNCHANGED s2k \/ s2k' = With(s2k, Line(t).value, Line(t).index)
      BY DEF LookUp, TestEmpty, FillK2s, FillS2k, FillFails, Find
  <2>. QED  BY <2>1, <2>2, <2>3
<1>g. \E r \in Seeking : seek' = [seek EXCEPT ![t] = r]
  <2>1. \A p \in {"new", "idle", "test", "k2s", "s2k", "find"} : [seek[t] EXCEPT !.at = p] \in Seeking
      BY <1>s DEF Seeking
  <2>2. ASSUME NEW a \in Answers PROVE [seek[t] EXCEPT !.at = "idle", !.i = 1, !.got = a] \in Seeking
    <3>1. 1 \in DOMAIN EnumLines
        BY EnumLinesAre
    <3>. QED  BY <1>s, <3>1 DEF Seeking
  <2>3. CASE LookUp(t)
    <3>1. PICK q \in Asked : seek' = [seek EXCEPT ![t] = [@ EXCEPT !.at = "test", !.asked = q, !.got = NotFound]]
        BY <2>3 DEF LookUp
    <3>2. [seek[t] EXCEPT !.at = "test", !.asked = q, !.got = NotFound] \in Seeking
        BY <1>s DEF Seeking, Answers
    <3>. QED  BY <3>1, <3>2
  <2>4. CASE TestEmpty(t)
    <3>1. PICK p \in {"k2s", "find"} : seek' = [seek EXCEPT ![t].at = p]
        BY <2>4 DEF TestEmpty, GoesTo
    <3>. QED  BY <3>1, <2>1
  <2>5. CASE FillK2s(t)
      BY <2>5, <2>1 DEF FillK2s, GoesTo
  <2>6. CASE FillS2k(t)
    <3>1. CASE seek[t].i < Len(EnumLines)
      <4>1. seek[t].i \in 1..LastLine
          BY LineFacts
      <4>2. seek[t].i + 1 \in DOMAIN EnumLines
          BY <3>1, <4>1, EnumLinesAre DEF LastLine
      <4>3. [seek[t] EXCEPT !.at = "k2s", !.i = seek[t].i + 1] \in Seeking
          BY <4>2, <1>s DEF Seeking
      <4>4. seek' = [seek EXCEPT ![t] = [seek[t] EXCEPT !.at = "k2s", !.i = seek[t].i + 1]]
          BY <2>6, <3>1, <1>0 DEF FillS2k
      <4>. QED  BY <4>3, <4>4
    <3>2. CASE ~(seek[t].i < Len(EnumLines))
      <4>1. seek' = [seek EXCEPT ![t] = [seek[t] EXCEPT !.at = "find"]]
          BY <2>6, <3>2, <1>0 DEF FillS2k
      <4>. QED  BY <4>1, <2>1
    <3>. QED  BY <3>1, <3>2
  <2>7. CASE FillFails(t)
    <3>1. NoMemory \in Answers
        BY DEF Answers
    <3>. QED  BY <2>7, <2>2, <3>1 DEF FillFails, Answered
  <2>8. CASE Find(t)
    <3>. DEFINE q     == seek[t].asked
                found == IF AskedKey(q) THEN IF q.key \in DOMAIN k2s THEN [name |-> k2s[q.key]] ELSE NotFound
                                        ELSE IF q.name \in DOMAIN s2k THEN [key |-> s2k[q.name]] ELSE NotFound
    <3>1. found \in Answers
      <4>1. q \in Asked
          BY <1>s DEF Seeking
      <4>2. \A y \in EnumNames \cup {Unnamed} : [name |-> y] \in Answers
          BY DEF Answers, Asked
      <4>3. \A y \in EnumKeys : [key |-> y] \in Answers
          BY DEF Answers, Asked
      <4>4. NotFound \in Answers
          BY DEF Answers
      <4>. HIDE DEF q
      <4>. QED  BY <1>0, <4>2, <4>3, <4>4
    <3>2. PICK a \in Answers : Answered(t, a)
      <4>1. \E a \in IF filled' = "raced" THEN Answers ELSE {found} : Answered(t, a)
          BY <2>8 DEF Find
      <4>. HIDE DEF found
      <4>. QED  BY <3>1, <4>1
    <3>. QED  BY <3>2, <2>2 DEF Answered
  <2>. QED  BY <2>3, <2>4, <2>5, <2>6, <2>7, <2>8
<1>h. seek' \in [Seekers -> Seeking]
    BY <1>g, <1>0
<1>. QED  BY <1>f, <1>k, <1>n, <1>h DEF EnumTypeOK, Seeking

-----------------------------------------------------------------------------
(* Each step keeps the invariant.                                            *)

\* A step of one thread leaves the others where they are.
OthersStay(t) == \A u \in Seekers \ {t} : seek'[u] = seek[u]

Moves(t, place, i) == /\ OthersStay(t) /\ seek'[t].at = place /\ seek'[t].i = i

LEMMA EnumMoves ==
    ASSUME EnumTypeOK, NEW t \in Seekers
    PROVE  /\ LookUp(t)    => Moves(t, "test", seek[t].i)
           /\ TestEmpty(t) => Moves(t, IF k2s = Nothing THEN "k2s" ELSE "find", seek[t].i)
           /\ FillK2s(t)   => Moves(t, "s2k", seek[t].i)
           /\ FillS2k(t)   => IF seek[t].i < LastLine THEN Moves(t, "k2s", seek[t].i + 1) ELSE Moves(t, "find", seek[t].i)
           /\ FillFails(t) => Moves(t, "idle", 1) /\ seek'[t].got = NoMemory
           /\ Find(t)      => Moves(t, "idle", 1) /\ seek'[t].asked = seek[t].asked
<1>0. seek \in [Seekers -> Seeking] /\ seek[t] \in Seeking
    BY DEF EnumTypeOK, Seeking
<1>r. ASSUME NEW r, seek' = [seek EXCEPT ![t] = r] PROVE seek'[t] = r /\ OthersStay(t)
    BY <1>r, <1>0 DEF OthersStay
<1>1. ASSUME LookUp(t) PROVE Moves(t, "test", seek[t].i)
  <2>1. PICK q \in Asked : seek' = [seek EXCEPT ![t] = [seek[t] EXCEPT !.at = "test", !.asked = q, !.got = NotFound]]
      BY <1>1 DEF LookUp
  <2>. QED  BY <2>1, <1>0 DEF Moves, OthersStay, Seeking
<1>2. ASSUME TestEmpty(t) PROVE Moves(t, IF k2s = Nothing THEN "k2s" ELSE "find", seek[t].i)
  <2>1. seek' = [seek EXCEPT ![t] = [seek[t] EXCEPT !.at = IF k2s = Nothing THEN "k2s" ELSE "find"]]
      BY <1>2, <1>0 DEF TestEmpty, GoesTo
  <2>. QED  BY <2>1, <1>0 DEF Moves, OthersStay, Seeking
<1>3. ASSUME FillK2s(t) PROVE Moves(t, "s2k", seek[t].i)
  <2>1. seek' = [seek EXCEPT ![t] = [seek[t] EXCEPT !.at = "s2k"]]
      BY <1>3, <1>0 DEF FillK2s, GoesTo
  <2>. QED  BY <2>1, <1>0 DEF Moves, OthersStay, Seeking
<1>4. ASSUME FillS2k(t)
      PROVE  IF seek[t].i < LastLine THEN Moves(t, "k2s", seek[t].i + 1) ELSE Moves(t, "find", seek[t].i)
  <2>1. CASE seek[t].i < Len(EnumLines)
    <3>1. seek' = [seek EXCEPT ![t] = [seek[t] EXCEPT !.at = "k2s", !.i = seek[t].i + 1]]
        BY <1>4, <2>1, <1>0 DEF FillS2k
    <3>. QED  BY <2>1, <3>1, <1>0 DEF Moves, OthersStay, Seeking, LastLine
  <2>2. CASE ~(seek[t].i < Len(EnumLines))
    <3>1. seek' = [seek EXCEPT ![t] = [seek[t] EXCEPT !.at = "find"]]
        BY <1>4, <2>2, <1>0 DEF FillS2k
    <3>. QED  BY <2>2, <3>1, <1>0 DEF Moves, OthersStay, Seeking, LastLine
  <2>. QED  BY <2>1, <2>2
<1>a. ASSUME NEW a, Answered(t, a)
      PROVE  Moves(t, "idle", 1) /\ seek'[t].got = a /\ seek'[t].asked = seek[t].asked
    BY <1>a, <1>0 DEF Answered, Moves, OthersStay, Seeking
<1>5. ASSUME FillFails(t) PROVE Moves(t, "idle", 1) /\ seek'[t].got = NoMemory
    BY <1>5, <1>a DEF FillFails
<1>6. ASSUME Find(t) PROVE Moves(t, "idle", 1) /\ seek'[t].asked = seek[t].asked
  <2>1. PICK a : Answered(t, a)
      BY <1>6 DEF Find
  <2>. QED  BY <2>1, <1>a
<1>. QED  BY <1>1, <1>2, <1>3, <1>4, <1>5, <1>6

EnumStep(t) == LookUp(t) \/ TestEmpty(t) \/ FillK2s(t) \/ FillS2k(t) \/ FillFails(t) \/ Find(t)

\* What threads that stay where they are fill in
LEMMA OthersFill ==
    ASSUME NEW t, OthersStay(t)
    PROVE  \A u \in Seekers \ {t} : Fills(u)' = Fills(u) /\ (\A place : InPlace(u, place)' = InPlace(u, place))
BY DEF OthersStay, Fills, InPlace

LEMMA FirstKept ==
    ASSUME EnumTypeOK, FromTheFirst, NEW t \in Seekers, EnumStep(t)
    PROVE  FromTheFirst'
<1>1. ASSUME NEW place, NEW i, Moves(t, place, i), place \in {"new", "idle", "test"} => i = 1 PROVE FromTheFirst'
    BY <1>1 DEF Moves, OthersStay, FromTheFirst, InPlace
<1>2. CASE LookUp(t)
    BY <1>1, <1>2, EnumMoves DEF LookUp, FromTheFirst
<1>3. CASE TestEmpty(t)
  <2>1. PICK p : p = IF k2s = Nothing THEN "k2s" ELSE "find"
      OBVIOUS
  <2>. QED  BY <1>1, <1>3, <2>1, EnumMoves
<1>4. CASE FillK2s(t) \/ FillFails(t) \/ Find(t)
    BY <1>1, <1>4, EnumMoves
<1>5. CASE FillS2k(t)
    BY <1>1, <1>5, EnumMoves
<1>. QED  BY <1>2, <1>3, <1>4, <1>5 DEF EnumStep

LEMMA OneFillsKept ==
    ASSUME EnumTypeOK, OneFills, NEW t \in Seekers, EnumStep(t)
    PROVE  OneFills'
<1>1. ASSUME NEW place, NEW i, Moves(t, place, i), filled' \in {filled, "raced"} \/ filled = "well",
             place \notin {"k2s", "s2k"} \/ \A u \in Seekers \ {t} : ~Fills(u)
      PROVE  OneFills'
    BY <1>1 DEF Moves, OthersStay, OneFills, Fills
<1>2. CASE filled' = "raced"
    BY <1>2 DEF OneFills
<1>3. ASSUME UsesMaps(t), filled' # "raced" PROVE filled' = filled /\ \A u \in Seekers \ {t} : ~Fills(u)
    BY <1>3 DEF UsesMaps
<1>4. CASE LookUp(t)
  <2>1. Moves(t, "test", seek[t].i) /\ filled' = filled
      BY <1>4, EnumMoves DEF LookUp
  <2>. QED  BY <1>1, <2>1
<1>5. ASSUME TestEmpty(t), filled' # "raced" PROVE OneFills'
  <2>1. PICK p : p = IF k2s = Nothing THEN "k2s" ELSE "find"
      OBVIOUS
  <2>2. Moves(t, p, seek[t].i) /\ UsesMaps(t)
      BY <1>5, <2>1, EnumMoves DEF TestEmpty
  <2>. QED  BY <1>1, <1>3, <1>5, <2>2
<1>6. ASSUME FillK2s(t), filled' # "raced" PROVE OneFills'
  <2>1. Moves(t, "s2k", seek[t].i) /\ UsesMaps(t)
      BY <1>6, EnumMoves DEF FillK2s
  <2>. QED  BY <1>1, <1>3, <1>6, <2>1
<1>7. ASSUME FillS2k(t), filled' # "raced" PROVE OneFills'
  <2>1. (Moves(t, "k2s", seek[t].i + 1) \/ Moves(t, "find", seek[t].i)) /\ UsesMaps(t)
      BY <1>7, EnumMoves DEF FillS2k
  <2>. QED  BY <1>1, <1>3, <1>7, <2>1
<1>8. CASE FillFails(t)
  <2>1. Moves(t, "idle", 1) /\ (filled' = filled \/ filled = "well")
      BY <1>8, EnumMoves DEF FillFails
  <2>. QED  BY <1>1, <2>1
<1>9. ASSUME Find(t), filled' # "raced" PROVE OneFills'
  <2>1. Moves(t, "idle", 1) /\ UsesMaps(t)
      BY <1>9, EnumMoves DEF Find
  <2>. QED  BY <1>1, <1>3, <1>9, <2>1
<1>. QED  BY <1>2, <1>4, <1>5, <1>6, <1>7, <1>8, <1>9 DEF EnumStep

\* What holds of one thread while all goes well
WellAt(u) == /\ InPlace(u, "k2s") => KeysFilled(seek[u].i - 1) /\ NamesFilled(seek[u].i - 1)
             /\ InPlace(u, "s2k") => KeysFilled(seek[u].i) /\ NamesFilled(seek[u].i - 1)
             /\ InPlace(u, "find") => MapsComplete /\ \A v \in Seekers : ~Fills(v)

\* Nothing ever goes well again.
LEMMA WellBefore ==
    ASSUME EnumTypeOK, NEW t \in Seekers, EnumStep(t), filled' = "well"
    PROVE  filled = "well" /\ (UsesMaps(t) => \A u \in Seekers \ {t} : ~Fills(u))
<1>1. CASE UsesMaps(t)
    BY <1>1 DEF UsesMaps
<1>2. CASE UNCHANGED filled
    BY <1>2 DEF UsesMaps
<1>3. CASE FillFails(t)
    BY <1>3 DEF FillFails, UsesMaps
<1>. QED  BY <1>1, <1>2, <1>3 DEF EnumStep, LookUp, TestEmpty, FillK2s, FillS2k, Find

\* The maps do not change but for a line that is filled in.
LEMMA SameMaps ==
    ASSUME UNCHANGED k2s
    PROVE  \A i : KeysFilled(i)' <=> KeysFilled(i)
BY DEF KeysFilled, MapOf, LastOf

LEMMA SameNames ==
    ASSUME UNCHANGED s2k
    PROVE  \A i : NamesFilled(i)' <=> NamesFilled(i)
BY DEF NamesFilled, MapOf, LastOf

LEMMA WellFilledKept ==
    ASSUME EnumTypeOK, FromTheFirst, WellFilled, WellBetween, OneFills, NEW t \in Seekers, EnumStep(t)
    PROVE  WellFilled'
<1>. SUFFICES ASSUME filled' = "well" PROVE \A u \in Seekers : WellAt(u)'
    BY DEF WellFilled, WellAt
<1>1. filled = "well" /\ (UsesMaps(t) => \A u \in Seekers \ {t} : ~Fills(u)) /\ \A u \in Seekers : WellAt(u)
    BY WellBefore DEF WellFilled, WellAt
<1>o. ASSUME OthersStay(t), UNCHANGED k2s, UNCHANGED s2k, ~Fills(t)' \/ \A u \in Seekers : ~InPlace(u, "find")
      PROVE  \A u \in Seekers \ {t} : WellAt(u)'
  <2>. SUFFICES ASSUME NEW u \in Seekers \ {t} PROVE WellAt(u)'
      OBVIOUS
  <2>0. WellAt(u) /\ seek'[u] = seek[u] /\ \A v \in Seekers \ {t} : Fills(v)' = Fills(v)
      BY <1>1, <1>o, OthersFill DEF OthersStay
  <2>k. (\A i : KeysFilled(i)' <=> KeysFilled(i)) /\ (\A i : NamesFilled(i)' <=> NamesFilled(i))
      BY <1>o, SameMaps, SameNames
  <2>1. PICK i : i = seek[u].i
      OBVIOUS
  <2>2. InPlace(u, "k2s")' => (KeysFilled(seek[u].i - 1) /\ NamesFilled(seek[u].i - 1))'
    <3>. SUFFICES ASSUME InPlace(u, "k2s")' PROVE (KeysFilled(seek[u].i - 1) /\ NamesFilled(seek[u].i - 1))'
        OBVIOUS
    <3>1. KeysFilled(i - 1) /\ NamesFilled(i - 1)
        BY <2>0, <2>1 DEF WellAt, InPlace
    <3>2. KeysFilled(i - 1)' /\ NamesFilled(i - 1)'
        BY <2>k, <3>1
    <3>. QED  BY <2>0, <2>1, <3>2 DEF KeysFilled, NamesFilled
  <2>3. InPlace(u, "s2k")' => (KeysFilled(seek[u].i) /\ NamesFilled(seek[u].i - 1))'
    <3>. SUFFICES ASSUME InPlace(u, "s2k")' PROVE (KeysFilled(seek[u].i) /\ NamesFilled(seek[u].i - 1))'
        OBVIOUS
    <3>1. KeysFilled(i) /\ NamesFilled(i - 1)
        BY <2>0, <2>1 DEF WellAt, InPlace
    <3>2. KeysFilled(i)' /\ NamesFilled(i - 1)'
        BY <2>k, <3>1
    <3>. QED  BY <2>0, <2>1, <3>2 DEF KeysFilled, NamesFilled
  <2>4. InPlace(u, "find")' => (MapsComplete /\ \A v \in Seekers : ~Fills(v))'
    <3>. SUFFICES ASSUME InPlace(u, "find")' PROVE (MapsComplete /\ \A v \in Seekers : ~Fills(v))'
        OBVIOUS
    <3>1. InPlace(u, "find") /\ MapsComplete /\ \A v \in Seekers : ~Fills(v)
        BY <2>0 DEF WellAt, InPlace
    <3>2. MapsComplete'
        BY <2>k, <3>1 DEF MapsComplete
    <3>. QED  BY <2>0, <3>1, <3>2, <1>o
  <2>. QED  BY <2>2, <2>3, <2>4 DEF WellAt
<1>n. ASSUME Fills(t) PROVE (\A u \in Seekers : ~InPlace(u, "find")) /\ \A u \in Seekers \ {t} : ~Fills(u)
    BY <1>1, <1>n DEF WellAt, OneFills
\* Without another thread at the maps
<1>m. ASSUME OthersStay(t), \A u \in Seekers \ {t} : ~Fills(u) /\ ~InPlace(u, "find")
      PROVE  \A u \in Seekers \ {t} : WellAt(u)'
  <2>1. \A u \in Seekers \ {t} : ~Fills(u)' /\ ~InPlace(u, "find")'
      BY <1>m, OthersFill
  <2>2. \A u \in Seekers \ {t} : ~InPlace(u, "k2s")' /\ ~InPlace(u, "s2k")' /\ ~InPlace(u, "find")'
      BY <2>1 DEF Fills, InPlace
  <2>. QED  BY <2>2 DEF WellAt
<1>4. CASE LookUp(t)
  <2>1. Moves(t, "test", seek[t].i) /\ UNCHANGED k2s /\ UNCHANGED s2k
      BY <1>4, EnumMoves DEF LookUp
  <2>2. OthersStay(t) /\ seek'[t].at = "test"
      BY <2>1 DEF Moves
  <2>3. ~Fills(t)' /\ WellAt(t)'
      BY <2>2 DEF Fills, WellAt, InPlace
  <2>. QED  BY <1>o, <2>1, <2>2, <2>3
<1>5. CASE TestEmpty(t)
  <2>0. UsesMaps(t) /\ UNCHANGED k2s /\ UNCHANGED s2k /\ InPlace(t, "test")
      BY <1>5 DEF TestEmpty
  <2>1. (\A u \in Seekers : ~Fills(u)) /\ seek[t].i = 1
      BY <2>0, <1>1 DEF Fills, InPlace, FromTheFirst
  <2>2. (k2s = Nothing /\ NamesFilled(0)) \/ MapsComplete
      BY <2>1, <1>1 DEF WellBetween
  <2>3. CASE k2s = Nothing
    <3>1. Moves(t, "k2s", seek[t].i)
        BY <1>5, <2>3, EnumMoves
    <3>2. OthersStay(t) /\ seek'[t].at = "k2s" /\ seek'[t].i = 1
        BY <3>1, <2>1 DEF Moves
    <3>3. ~MapsComplete
        BY <2>3, CompleteIsFilled
    <3>4. \A u \in Seekers : ~InPlace(u, "find")
        BY <1>1, <3>3 DEF WellAt
    <3>5. KeysFilled(0) /\ NamesFilled(0)
        BY <2>2, <2>3, <3>3, NoLineFilled DEF KeysFilled
    <3>6. KeysFilled(0)' /\ NamesFilled(0)'
        BY <3>5, <2>0, SameMaps, SameNames
    <3>7. WellAt(t)'
        BY <3>2, <3>6 DEF WellAt, InPlace, KeysFilled, NamesFilled
    <3>. QED  BY <1>o, <2>0, <3>2, <3>4, <3>7
  <2>4. CASE k2s # Nothing
    <3>1. Moves(t, "find", seek[t].i)
        BY <1>5, <2>4, EnumMoves
    <3>2. OthersStay(t) /\ seek'[t].at = "find"
        BY <3>1 DEF Moves
    <3>3. ~Fills(t)' /\ MapsComplete'
        BY <3>2, <2>0, <2>2, <2>4, SameMaps, SameNames DEF Fills, MapsComplete
    <3>4. \A v \in Seekers : ~Fills(v)'
        BY <3>2, <3>3, <2>1, OthersFill
    <3>5. WellAt(t)'
        BY <3>2, <3>3, <3>4 DEF WellAt, InPlace
    <3>. QED  BY <1>o, <2>0, <3>2, <3>3, <3>5
  <2>. QED  BY <2>3, <2>4
<1>6. CASE FillK2s(t)
  <2>0. InPlace(t, "k2s") /\ Fills(t) /\ k2s' = With(k2s, Line(t).index, Line(t).value) /\ UNCHANGED s2k
      BY <1>6 DEF FillK2s, Fills, InPlace
  <2>1. Moves(t, "s2k", seek[t].i)
      BY <1>6, EnumMoves
  <2>2. PICK i : i = seek[t].i
      OBVIOUS
  <2>3. OthersStay(t) /\ seek'[t].at = "s2k" /\ seek'[t].i = i
      BY <2>1, <2>2 DEF Moves
  <2>4. i \in 1..LastLine /\ k2s' = With(k2s, KeyOf[i], NameOf[i]) /\ MapOf(k2s, KeyOf, NameOf, i - 1) /\ NamesFilled(i - 1)
      BY <2>0, <2>2, <1>1, LineFacts DEF WellAt, KeysFilled
  <2>5. KeysFilled(i)'
      BY <2>4, LineFilled, EnumLinesAre DEF KeysFilled
  <2>6. NamesFilled(i - 1)'
      BY <2>0, <2>4, SameNames
  <2>7. WellAt(t)'
      BY <2>3, <2>5, <2>6 DEF WellAt, InPlace, KeysFilled, NamesFilled
  <2>. QED  BY <1>m, <1>n, <2>0, <2>3, <2>7
<1>7. CASE FillS2k(t)
  <2>0. InPlace(t, "s2k") /\ Fills(t) /\ s2k' = With(s2k, Line(t).value, Line(t).index) /\ UNCHANGED k2s
      BY <1>7 DEF FillS2k, Fills, InPlace
  <2>2. PICK i : i = seek[t].i
      OBVIOUS
  <2>4. i \in 1..LastLine /\ s2k' = With(s2k, NameOf[i], KeyOf[i]) /\ KeysFilled(i) /\ MapOf(s2k, NameOf, KeyOf, i - 1)
      BY <2>0, <2>2, <1>1, LineFacts DEF WellAt, NamesFilled
  <2>5. NamesFilled(i)'
      BY <2>4, LineFilled, EnumLinesAre DEF NamesFilled
  <2>6. KeysFilled(i)'
      BY <2>0, <2>4, SameMaps
  <2>7. CASE i < LastLine
    <3>1. Moves(t, "k2s", seek[t].i + 1)
        BY <1>7, <2>2, <2>7, EnumMoves
    <3>2. OthersStay(t) /\ seek'[t].at = "k2s" /\ seek'[t].i - 1 = i
        BY <3>1, <2>2, <2>4 DEF Moves
    <3>3. WellAt(t)'
        BY <3>2, <2>5, <2>6 DEF WellAt, InPlace, KeysFilled, NamesFilled
    <3>. QED  BY <1>m, <1>n, <2>0, <3>2, <3>3
  <2>8. CASE ~(i < LastLine)
    <3>1. Moves(t, "find", seek[t].i) /\ i = LastLine
        BY <1>7, <2>2, <2>4, <2>8, EnumMoves, EnumLinesAre
    <3>2. OthersStay(t) /\ seek'[t].at = "find"
        BY <3>1 DEF Moves
    <3>3. MapsComplete'
        BY <3>1, <2>5, <2>6 DEF MapsComplete
    <3>4. \A v \in Seekers : ~Fills(v)'
      <4>1. ~Fills(t)'
          BY <3>2 DEF Fills
      <4>. QED  BY <4>1, <3>2, <1>n, <2>0, OthersFill
    <3>5. WellAt(t)'
        BY <3>2, <3>3, <3>4 DEF WellAt, InPlace
    <3>. QED  BY <1>m, <1>n, <2>0, <3>2, <3>5
  <2>. QED  BY <2>7, <2>8
<1>8. CASE FillFails(t)
  <2>1. Moves(t, "idle", 1) /\ Fills(t)
      BY <1>8, EnumMoves DEF FillFails
  <2>2. OthersStay(t) /\ seek'[t].at = "idle"
      BY <2>1 DEF Moves
  <2>3. WellAt(t)'
      BY <2>2 DEF WellAt, InPlace
  <2>. QED  BY <1>m, <1>n, <2>1, <2>2, <2>3
<1>9. CASE Find(t)
  <2>1. Moves(t, "idle", 1) /\ UNCHANGED k2s /\ UNCHANGED s2k
      BY <1>9, EnumMoves DEF Find
  <2>2. OthersStay(t) /\ seek'[t].at = "idle"
      BY <2>1 DEF Moves
  <2>3. WellAt(t)' /\ ~Fills(t)'
      BY <2>2 DEF WellAt, InPlace, Fills
  <2>. QED  BY <1>o, <2>1, <2>2, <2>3
<1>. QED  BY <1>4, <1>5, <1>6, <1>7, <1>8, <1>9 DEF EnumStep

\* Maps without a thread at them
LEMMA WellBetweenKept ==
    ASSUME EnumTypeOK, FromTheFirst, WellFilled, WellFilled', WellBetween, OneFills, NEW t \in Seekers, EnumStep(t)
    PROVE  WellBetween'
<1>. SUFFICES ASSUME filled' = "well", \A u \in Seekers : ~Fills(u)' PROVE (k2s = Nothing /\ NamesFilled(0))' \/ MapsComplete'
    BY DEF WellBetween
<1>1. filled = "well" /\ \A u \in Seekers : WellAt(u) /\ WellAt(u)'
    BY WellBefore DEF WellFilled, WellAt
<1>f. CASE seek'[t].at = "find"
    BY <1>1, <1>f DEF WellAt, InPlace
<1>s. ASSUME UNCHANGED k2s, UNCHANGED s2k, ~Fills(t), OthersStay(t)
      PROVE  (k2s = Nothing /\ NamesFilled(0))' \/ MapsComplete'
  <2>1. \A u \in Seekers : ~Fills(u)
      BY <1>s, OthersFill
  <2>2. (k2s = Nothing /\ NamesFilled(0)) \/ MapsComplete
      BY <2>1, <1>1 DEF WellBetween
  <2>. QED  BY <2>2, <1>s, SameMaps, SameNames DEF MapsComplete
<1>4. CASE LookUp(t)
  <2>1. UNCHANGED k2s /\ UNCHANGED s2k /\ ~Fills(t) /\ Moves(t, "test", seek[t].i)
      BY <1>4, EnumMoves DEF LookUp, Fills, InPlace
  <2>. QED  BY <2>1, <1>s DEF Moves
<1>5. CASE TestEmpty(t)
  <2>1. seek'[t].at \in {"k2s", "find"}
      BY <1>5, EnumMoves DEF Moves
  <2>2. seek'[t].at # "k2s"
      BY DEF Fills
  <2>. QED  BY <2>1, <2>2, <1>f
<1>6. CASE FillK2s(t)
  <2>1. seek'[t].at = "s2k"
      BY <1>6, EnumMoves DEF Moves
  <2>. QED  BY <2>1 DEF Fills
<1>7. CASE FillS2k(t)
  <2>1. seek'[t].at \in {"k2s", "find"}
      BY <1>7, EnumMoves DEF Moves
  <2>2. seek'[t].at # "k2s"
      BY DEF Fills
  <2>. QED  BY <2>1, <2>2, <1>f
<1>8. CASE FillFails(t)
  <2>1. k2s' = Nothing /\ UNCHANGED s2k /\ Fills(t)
      BY <1>8, <1>1 DEF FillFails
  <2>2. UNCHANGED k2s
    <3>1. \A x, y : x \in DOMAIN With(k2s, x, y)
        BY DEF With
    <3>2. DOMAIN Nothing = {}
        BY DEF Nothing
    <3>3. \A x, y : With(k2s, x, y) # Nothing
        BY <3>1, <3>2
    <3>. QED  BY <2>1, <3>3, <1>8 DEF FillFails
  <2>3. PICK i : i = seek[t].i
      OBVIOUS
  <2>4. i \in 1..LastLine /\ i - 1 \in Nat
      BY <2>3, LineFacts
  <2>5. ASSUME NEW n \in Nat, n # 0, KeysFilled(n) PROVE FALSE
    <3>1. 1 \in 1..n
        BY <2>5
    <3>2. KeyOf[1] \in DOMAIN k2s
        BY <2>5, <3>1 DEF KeysFilled, MapOf
    <3>. QED  BY <2>1, <2>2, <3>2 DEF Nothing
  <2>6. CASE InPlace(t, "k2s")
    <3>1. KeysFilled(i - 1) /\ NamesFilled(i - 1)
        BY <1>1, <2>3, <2>6 DEF WellAt
    <3>2. i - 1 = 0
        BY <2>4, <2>5, <3>1
    <3>3. NamesFilled(0)
        BY <3>1, <3>2
    <3>. QED  BY <2>1, <3>3, SameNames
  <2>7. CASE InPlace(t, "s2k")
      BY <1>1, <2>3, <2>4, <2>5, <2>7 DEF WellAt
  <2>. QED  BY <2>1, <2>6, <2>7 DEF Fills, InPlace
<1>9. CASE Find(t)
  <2>1. UNCHANGED k2s /\ UNCHANGED s2k /\ ~Fills(t) /\ Moves(t, "idle", 1)
      BY <1>9, EnumMoves DEF Find, Fills, InPlace
  <2>. QED  BY <2>1, <1>s DEF Moves
<1>. QED  BY <1>4, <1>5, <1>6, <1>7, <1>8, <1>9 DEF EnumStep

\* Maps that were filled in part
LEMMA PartlyFilledKept ==
    ASSUME EnumTypeOK, WellFilled, OneFills, PartlyFilled, NEW t \in Seekers, EnumStep(t)
    PROVE  PartlyFilled'
<1>. SUFFICES ASSUME filled' = "partly"
              PROVE  k2s' # Nothing /\ (\A u \in Seekers : ~Fills(u)') /\ TrueOrEmpty' /\ TrueNames'
    BY DEF PartlyFilled
<1>1. CASE filled = "partly"
  <2>1. k2s # Nothing /\ (\A u \in Seekers : ~Fills(u)) /\ TrueOrEmpty /\ TrueNames
      BY <1>1 DEF PartlyFilled
  <2>2. ~FillK2s(t) /\ ~FillS2k(t) /\ ~FillFails(t)
      BY <2>1 DEF FillK2s, FillS2k, FillFails, Fills, InPlace
  <2>3. UNCHANGED k2s /\ UNCHANGED s2k
      BY <2>2 DEF EnumStep, LookUp, TestEmpty, Find
  <2>4. OthersStay(t) /\ seek'[t].at \in {"test", "find", "idle"}
      BY <2>1, <2>2, EnumMoves DEF EnumStep, Moves
  <2>5. \A u \in Seekers : ~Fills(u)'
    <3>1. ~Fills(t)'
        BY <2>4 DEF Fills
    <3>. QED  BY <3>1, <2>1, <2>4, OthersFill
  <2>. QED  BY <2>1, <2>3, <2>5 DEF TrueOrEmpty, TrueNames
<1>2. CASE filled # "partly"
  <2>1. FillFails(t) /\ filled = "well" /\ k2s' # Nothing
    <3>1. ~UsesMaps(t) /\ ~(UNCHANGED filled)
        BY <1>2 DEF UsesMaps
    <3>2. FillFails(t)
        BY <3>1 DEF EnumStep, LookUp, TestEmpty, FillK2s, FillS2k, Find
    <3>. QED  BY <3>1, <3>2, <1>2 DEF FillFails
  <2>2. Fills(t) /\ UNCHANGED s2k
      BY <2>1 DEF FillFails
  <2>3. OthersStay(t) /\ seek'[t].at = "idle"
      BY <2>1, EnumMoves DEF Moves
  <2>4. \A u \in Seekers : ~Fills(u)'
    <3>1. ~Fills(t)'
        BY <2>3 DEF Fills
    <3>2. \A u \in Seekers \ {t} : ~Fills(u)
        BY <2>1, <2>2 DEF OneFills
    <3>. QED  BY <3>1, <3>2, <2>3, OthersFill
  <2>5. PICK i : i = seek[t].i
      OBVIOUS
  <2>6. i \in 1..LastLine /\ i \in 0..LastLine /\ i - 1 \in 0..LastLine
    <3>1. i \in 1..LastLine /\ LastLine \in Nat
        BY <2>5, LineFacts, EnumLinesAre
    <3>. QED  BY <3>1
  <2>7. TrueOrEmpty /\ TrueNames
    <3>1. CASE InPlace(t, "k2s")
      <4>1. KeysFilled(i - 1) /\ NamesFilled(i - 1)
          BY <2>1, <2>5, <3>1 DEF WellFilled
      <4>. QED  BY <4>1, <2>6, FilledIsTrue
    <3>2. CASE InPlace(t, "s2k")
      <4>1. KeysFilled(i) /\ NamesFilled(i - 1)
          BY <2>1, <2>5, <3>2 DEF WellFilled
      <4>. QED  BY <4>1, <2>6, FilledIsTrue
    <3>. QED  BY <3>1, <3>2, <2>2 DEF Fills, InPlace
  <2>8. TrueOrEmpty'
    <3>1. CASE UNCHANGED k2s
        BY <3>1, <2>7 DEF TrueOrEmpty
    <3>2. CASE k2s' = With(k2s, Line(t).index, Unnamed)
        BY <3>2, <2>7 DEF TrueOrEmpty, With
    <3>. QED  BY <3>1, <3>2, <2>1 DEF FillFails
  <2>9. TrueNames'
      BY <2>2, <2>7 DEF TrueNames
  <2>. QED  BY <2>1, <2>4, <2>8, <2>9
<1>. QED  BY <1>1, <1>2

LEMMA RightAnswersKept ==
    ASSUME EnumIInv, NEW t \in Seekers, EnumStep(t)
    PROVE  NamesAndKeys'
<1>. SUFFICES ASSUME NEW u \in Seekers PROVE RightAnswer(u)'
    BY DEF NamesAndKeys
<1>0. seek[u].asked \in Asked /\ seek[t].asked \in Asked /\ filled \in {"well", "partly", "raced"} /\ RightAnswer(u)
    BY DEF EnumIInv, EnumTypeOK, NamesAndKeys
<1>f. filled' \in {filled, "raced"} \/ (filled = "well" /\ filled' = "partly")
    BY DEF EnumStep, LookUp, TestEmpty, FillK2s, FillS2k, FillFails, Find, UsesMaps
<1>r. CASE filled' = "raced"
    BY <1>r DEF RightAnswer
<1>1. ASSUME u # t, filled' # "raced" PROVE RightAnswer(u)'
  <2>1. seek'[u] = seek[u]
    <3>1. OthersStay(t)
        BY EnumMoves DEF EnumStep, EnumIInv, Moves
    <3>. QED  BY <1>1, <3>1 DEF OthersStay
  <2>. SUFFICES ASSUME InPlace(u, "idle") PROVE RightAnswer(u)'
      BY <2>1 DEF RightAnswer, InPlace
  <2>q. PICK q \in Asked : q = seek[u].asked
      BY <1>0
  <2>g. PICK got : got = seek[u].got
      OBVIOUS
  <2>2. CASE filled' = "well"
    <3>1. filled = "well" /\ got \in {Right(q), NoMemory}
        BY <1>0, <1>f, <2>2, <2>q, <2>g DEF RightAnswer
    <3>. QED  BY <3>1, <2>1, <2>2, <2>q, <2>g DEF RightAnswer
  <2>3. CASE filled' = "partly"
    <3>1. got \in {Said(q, i) : i \in Says(q)} \cup {NotFound, NoMemory, [name |-> Unnamed]}
      <4>1. CASE filled = "well"
        <5>1. got \in {Right(q), NoMemory}
            BY <1>0, <4>1, <2>q, <2>g DEF RightAnswer
        <5>. QED  BY <5>1, RightIsSaid
      <4>2. CASE filled = "partly"
          BY <1>0, <4>2, <2>q, <2>g DEF RightAnswer
      <4>. QED  BY <4>1, <4>2, <1>f, <2>3
    <3>. QED  BY <3>1, <2>1, <2>3, <2>q, <2>g DEF RightAnswer
  <2>. QED  BY <1>0, <1>1, <1>f, <2>2, <2>3
<1>2. ASSUME u = t, filled' # "raced" PROVE RightAnswer(u)'
  <2>1. CASE LookUp(t)
    <3>1. seek'[t].at = "test"
        BY <2>1, EnumMoves DEF Moves, EnumIInv
    <3>. QED  BY <3>1, <1>2 DEF RightAnswer, InPlace
  <2>2. CASE TestEmpty(t) \/ FillK2s(t) \/ FillS2k(t)
    <3>1. seek'[t].at \in {"k2s", "s2k", "find"}
        BY <2>2, EnumMoves DEF Moves, EnumIInv
    <3>. QED  BY <3>1, <1>2 DEF RightAnswer, InPlace
  <2>3. CASE FillFails(t)
    <3>1. seek'[t].got = NoMemory
        BY <2>3, EnumMoves DEF EnumIInv
    <3>. QED  BY <3>1, <1>2, <1>0, <1>f DEF RightAnswer
  <2>4. CASE Find(t)
    <3>q. PICK q \in Asked : q = seek[t].asked
        BY <1>0
    <3>. DEFINE found == IF AskedKey(q) THEN IF q.key \in DOMAIN k2s THEN [name |-> k2s[q.key]] ELSE NotFound
                                        ELSE IF q.name \in DOMAIN s2k THEN [key |-> s2k[q.name]] ELSE NotFound
    <3>1. InPlace(t, "find") /\ filled' = filled /\ Answered(t, found)
      <4>1. InPlace(t, "find") /\ UsesMaps(t) /\ \E a \in {found} : Answered(t, a)
          BY <2>4, <3>q, <1>2 DEF Find
      <4>. HIDE DEF found
      <4>. QED  BY <4>1, <1>2 DEF UsesMaps
    <3>2. seek'[t].got = found /\ seek'[t].asked = q
      <4>. HIDE DEF found
      <4>. QED  BY <3>1, <3>q DEF Answered, EnumIInv, EnumTypeOK
    <3>3. CASE filled = "well"
      <4>1. MapsComplete
          BY <3>1, <3>3 DEF EnumIInv, WellFilled
      <4>2. found = Right(q)
          BY <4>1, FoundIsRight DEF MapsComplete, KeysFilled, NamesFilled
      <4>. HIDE DEF found
      <4>. QED  BY <3>1, <3>2, <3>3, <4>2, <1>2 DEF RightAnswer
    <3>4. CASE filled = "partly"
      <4>1. TrueOrEmpty /\ TrueNames
          BY <3>4 DEF EnumIInv, PartlyFilled
      <4>2. found \in {Said(q, i) : i \in Says(q)} \cup {NotFound, NoMemory, [name |-> Unnamed]}
        <5>1. CASE AskedKey(q)
          <6>1. CASE q.key \in DOMAIN k2s
            <7>1. found = [name |-> k2s[q.key]]
                BY <5>1, <6>1
            <7>2. k2s[q.key] = Unnamed \/ \E j \in 1..LastLine : KeyOf[j] = q.key /\ NameOf[j] = k2s[q.key]
                BY <4>1, <6>1 DEF TrueOrEmpty
            <7>3. ASSUME NEW j \in 1..LastLine, KeyOf[j] = q.key, NameOf[j] = k2s[q.key]
                  PROVE  j \in Says(q) /\ found = Said(q, j)
                BY <7>1, <7>3, <5>1, EnumLinesAre DEF Says, Said
            <7>. HIDE DEF found
            <7>. QED  BY <7>1, <7>2, <7>3
          <6>2. CASE q.key \notin DOMAIN k2s
              BY <5>1, <6>2
          <6>. QED  BY <6>1, <6>2
        <5>2. CASE ~AskedKey(q)
          <6>1. CASE q.name \in DOMAIN s2k
            <7>1. found = [key |-> s2k[q.name]]
                BY <5>2, <6>1
            <7>2. \E j \in 1..LastLine : NameOf[j] = q.name /\ KeyOf[j] = s2k[q.name]
                BY <4>1, <6>1 DEF TrueNames
            <7>3. ASSUME NEW j \in 1..LastLine, NameOf[j] = q.name, KeyOf[j] = s2k[q.name]
                  PROVE  j \in Says(q) /\ found = Said(q, j)
                BY <7>1, <7>3, <5>2, EnumLinesAre DEF Says, Said
            <7>. HIDE DEF found
            <7>. QED  BY <7>2, <7>3
          <6>2. CASE q.name \notin DOMAIN s2k
              BY <5>2, <6>2
          <6>. QED  BY <6>1, <6>2
        <5>. QED  BY <5>1, <5>2
      <4>. HIDE DEF found
      <4>. QED  BY <3>1, <3>2, <3>4, <4>2, <1>2 DEF RightAnswer
    <3>. QED  BY <1>0, <1>2, <3>1, <3>3, <3>4
  <2>. QED  BY <2>1, <2>2, <2>3, <2>4 DEF EnumStep
<1>. QED  BY <1>r, <1>1, <1>2

LEMMA EnumIInvInit ==
    EnumInit => EnumIInv
<1>. SUFFICES ASSUME EnumInit PROVE EnumIInv
    OBVIOUS
<1>1. EnumTypeOK
    BY EnumTypeInit
<1>2. k2s = Nothing /\ s2k = Nothing /\ filled = "well" /\ \A t \in Seekers : seek[t].at = "new" /\ seek[t].i = 1
    BY DEF EnumInit
<1>3. \A t \in Seekers : ~Fills(t) /\ ~InPlace(t, "k2s") /\ ~InPlace(t, "s2k") /\ ~InPlace(t, "find") /\ ~InPlace(t, "idle")
    BY <1>2 DEF Fills, InPlace
<1>4. FromTheFirst /\ OneFills /\ WellFilled /\ PartlyFilled
    BY <1>2, <1>3 DEF FromTheFirst, OneFills, WellFilled, PartlyFilled
<1>5. WellBetween
    BY <1>2, NoLineFilled DEF WellBetween, NamesFilled
<1>6. NamesAndKeys
    BY <1>3 DEF NamesAndKeys, RightAnswer
<1>. QED  BY <1>1, <1>4, <1>5, <1>6 DEF EnumIInv

LEMMA EnumIInvStep ==
    EnumIInv /\ [EnumNext]_enumVars => EnumIInv'
<1>1. ASSUME EnumIInv, NEW t \in Seekers, EnumStep(t) PROVE EnumIInv'
  <2>. USE DEF EnumIInv
  <2>1. EnumTypeOK'
      BY <1>1, EnumTypeStep DEF EnumStep
  <2>2. FromTheFirst'
      BY <1>1, FirstKept
  <2>3. OneFills'
      BY <1>1, OneFillsKept
  <2>4. WellFilled'
      BY <1>1, WellFilledKept
  <2>5. WellBetween'
      BY <1>1, <2>4, WellBetweenKept
  <2>6. PartlyFilled'
      BY <1>1, PartlyFilledKept
  <2>7. NamesAndKeys'
      BY <1>1, RightAnswersKept
  <2>. QED  BY <2>1, <2>2, <2>3, <2>4, <2>5, <2>6, <2>7
<1>2. ASSUME EnumIInv, UNCHANGED enumVars PROVE EnumIInv'
  <2>0. k2s' = k2s /\ s2k' = s2k /\ seek' = seek /\ filled' = filled
      BY <1>2 DEF enumVars
  <2>1. EnumTypeOK' /\ FromTheFirst' /\ OneFills'
      BY <1>2, <2>0 DEF EnumIInv, EnumTypeOK, FromTheFirst, OneFills, InPlace, Fills
  <2>2. WellFilled'
      BY <1>2, <2>0 DEF EnumIInv, WellFilled, InPlace, Fills, KeysFilled, NamesFilled, MapsComplete, MapOf, LastOf
  <2>3. WellBetween'
      BY <1>2, <2>0 DEF EnumIInv, WellBetween, Fills, KeysFilled, NamesFilled, MapsComplete, MapOf, LastOf
  <2>4. PartlyFilled'
      BY <1>2, <2>0 DEF EnumIInv, PartlyFilled, Fills, TrueOrEmpty, TrueNames
  <2>5. NamesAndKeys'
      BY <1>2, <2>0 DEF EnumIInv, NamesAndKeys, RightAnswer, InPlace
  <2>. QED  BY <2>1, <2>2, <2>3, <2>4, <2>5 DEF EnumIInv
<1>. QED  BY <1>1, <1>2 DEF EnumNext, EnumStep

-----------------------------------------------------------------------------
(* The profile                                                               *)

ProfileLine == [export : BOOLEAN, name : STRING, text : Seq(STRING)]
Settings    == UNION {[D -> Seq(STRING)] : D \in SUBSET STRING}
ReadState   == [env : Settings, thrown : BOOLEAN]

LEMMA InSettings ==
    ASSUME NEW e \in Settings
    PROVE  /\ DOMAIN e \subseteq STRING /\ e = [v \in DOMAIN e |-> e[v]]
           /\ \A v \in DOMAIN e : e[v] \in Seq(STRING)
<1>1. PICK D \in SUBSET STRING : e \in [D -> Seq(STRING)]
    BY DEF Settings
<1>. QED  BY <1>1

LEMMA IntoSettings ==
    ASSUME NEW D \in SUBSET STRING, NEW e \in [D -> Seq(STRING)]
    PROVE  e \in Settings
BY DEF Settings

LEMMA OverSettings ==
    ASSUME NEW e \in Settings, NEW d \in Settings
    PROVE  Over(e, d) \in Settings
<1>1. /\ DOMAIN e \subseteq STRING /\ \A v \in DOMAIN e : e[v] \in Seq(STRING)
      /\ DOMAIN d \subseteq STRING /\ \A v \in DOMAIN d : d[v] \in Seq(STRING)
    BY InSettings
<1>2. PICK D : D = DOMAIN e \cup DOMAIN d
    OBVIOUS
<1>3. Over(e, d) \in [D -> Seq(STRING)]
    BY <1>1, <1>2 DEF Over
<1>4. D \in SUBSET STRING
    BY <1>1, <1>2
<1>. QED  BY <1>3, <1>4, IntoSettings

LEMMA OneSetting ==
    ASSUME NEW v \in STRING, NEW x \in Seq(STRING)
    PROVE  Setting(v, x) \in Settings
<1>1. Setting(v, x) \in [{v} -> Seq(STRING)] /\ {v} \in SUBSET STRING
    BY DEF Setting
<1>. QED  BY <1>1, IntoSettings

LEMMA ValueIsText ==
    ASSUME NEW l \in ProfileLine
    PROVE  Value(l) \in Seq(STRING)
<1>1. l.text \in Seq(STRING)
    BY DEF ProfileLine
<1>2. PICK t \in Seq(STRING) : t = l.text
    BY <1>1
<1>3. Len(t) \in Nat /\ \A i \in 1..Len(t) : t[i] \in STRING
    BY LenProperties, ElementOfSeq
<1>4. Len(t) - 1 \in Int /\ 2 \in Int
    BY <1>3
<1>5. SubSeq(t, 2, Len(t) - 1) = [i \in 1..(IF 2 <= Len(t) - 1 THEN Len(t) - 2 ELSE 0) |-> t[i + 1]]
    BY <1>3 DEF SubSeq
<1>6. PICK n \in Nat : n = IF 2 <= Len(t) - 1 THEN Len(t) - 2 ELSE 0
  <2>1. CASE 2 <= Len(t) - 1
    <3>1. Len(t) - 2 \in Nat
        BY <1>3, <2>1
    <3>. QED  BY <2>1, <3>1
  <2>2. CASE ~(2 <= Len(t) - 1)
      BY <2>2
  <2>. QED  BY <2>1, <2>2
<1>7. \A i \in 1..n : i + 1 \in 1..Len(t)
    BY <1>3, <1>6
<1>8. \A i \in 1..n : t[i + 1] \in STRING
    BY <1>3, <1>7
<1>9. [i \in 1..n |-> t[i + 1]] \in Seq(STRING)
    BY <1>8
<1>. QED  BY <1>2, <1>5, <1>6, <1>9 DEF Value

LEMMA LineRead ==
    ASSUME NEW s \in ReadState, NEW l \in ProfileLine
    PROVE  ReadLine(s, l) \in ReadState
<1>1. s.env \in Settings /\ s.thrown \in BOOLEAN
    BY DEF ReadState
<1>2. l.name \in STRING /\ Value(l) \in Seq(STRING)
    BY ValueIsText DEF ProfileLine
<1>3. Over(s.env, Setting(l.name, Value(l))) \in Settings
    BY <1>1, <1>2, OneSetting, OverSettings
<1>4. PICK e \in Settings : e = Over(s.env, Setting(l.name, Value(l)))
    BY <1>3
<1>5. ReadLine(s, l) \in {s, [s EXCEPT !.thrown = TRUE], [s EXCEPT !.env = e]}
    BY <1>4 DEF ReadLine
<1>. QED  BY <1>1, <1>5 DEF ReadState

\* Reading a profile goes from line to line.
LEMMA ProfileRead ==
    ASSUME NEW b \in ReadState, NEW s \in Seq(ProfileLine)
    PROVE  \E p \in [0..Len(s) -> ReadState] :
              /\ p[0] = b /\ \A n \in 1..Len(s) : p[n] = ReadLine(p[n - 1], s[n])
              /\ FoldLeft(ReadLine, b, s) = p[Len(s)]
<1>. DEFINE N == Len(s)
            g == [i \in 1..N |-> [v \in ReadState |-> ReadLine(v, s[i])]]
            Body(k) == [x \in SUBSET DOMAIN s |-> IF x = {} THEN b ELSE ReadLine(k[x \ {Max(x)}], s[Max(x)])]
<1>1. N \in Nat /\ DOMAIN s = 1..N /\ \A i \in 1..N : s[i] \in ProfileLine
    BY LenProperties, ElementOfSeq
<1>2. g \in [1..N -> [ReadState -> ReadState]]
  <2>1. \A i \in 1..N, v \in ReadState : ReadLine(v, s[i]) \in ReadState
      BY <1>1, LineRead
  <2>. HIDE DEF N
  <2>. QED  BY <2>1
<1>3. \A i \in 1..N, v \in ReadState : g[i][v] = ReadLine(v, s[i])
    OBVIOUS
<1>4. PICK f \in [SUBSET (1..N) -> ReadState] : GoesThrough(f, N, b, g)
  <2>. HIDE DEF N, g
  <2>. QED  BY <1>1, <1>2, SetRecursion
<1>. HIDE DEF g, N
<1>5. \A x \in SUBSET (1..N) : x # {} => Max(x) \in 1..N /\ x \ {Max(x)} \in SUBSET (1..N)
    BY <1>1, LargestNumber
<1>6. \A x \in SUBSET (1..N) : f[x] = IF x = {} THEN b ELSE ReadLine(f[x \ {Max(x)}], s[Max(x)])
    BY <1>3, <1>4, <1>5 DEF GoesThrough
<1>7. f = Body(f)
    BY <1>1, <1>6
<1>8. PICK h : h = CHOOSE k : k = Body(k)
    OBVIOUS
<1>9. h = Body(h)
  <2>. HIDE DEF Body
  <2>. QED  BY <1>7, <1>8
<1>10. FoldLeft(ReadLine, b, s) = h[DOMAIN s]
    BY <1>8 DEF FoldLeft, MapThenFoldSet
<1>11. h[{}] = b /\ \A x \in SUBSET (1..N) : x # {} => h[x] = ReadLine(h[x \ {Max(x)}], s[Max(x)])
    BY <1>1, <1>9
<1>. DEFINE p == [n \in 0..N |-> h[1..n]]
<1>12. p[0] = b
    BY <1>1, <1>11
<1>13. \A n \in 1..N : p[n] = ReadLine(p[n - 1], s[n])
  <2>. SUFFICES ASSUME NEW n \in 1..N PROVE p[n] = ReadLine(p[n - 1], s[n])
      OBVIOUS
  <2>1. Max(1..n) = n /\ (1..n) \ {n} = 1..(n - 1) /\ 1..n # {} /\ 1..n \in SUBSET (1..N)
      BY <1>1, LargestIsLast
  <2>2. n \in 0..N /\ n - 1 \in 0..N
      BY <1>1
  <2>3. h[1..n] = ReadLine(h[1..(n - 1)], s[n])
      BY <1>11, <2>1
  <2>. QED  BY <2>2, <2>3
<1>14. FoldLeft(ReadLine, b, s) = p[N]
    BY <1>1, <1>10
<1>. HIDE DEF p
<1>15. \A n \in 0..N : p[n] \in ReadState
  <2>. DEFINE T == {n \in Nat : n <= N => p[n] \in ReadState}
  <2>1. 0 \in T
      BY <1>12
  <2>2. ASSUME NEW n \in T PROVE n + 1 \in T
    <3>1. CASE n + 1 <= N
      <4>1. n + 1 \in 1..N /\ n + 1 - 1 = n /\ p[n] \in ReadState
          BY <3>1, <1>1
      <4>2. p[n + 1] = ReadLine(p[n], s[n + 1]) /\ s[n + 1] \in ProfileLine
          BY <1>1, <1>13, <4>1
      <4>. QED  BY <4>1, <4>2, LineRead
    <3>. QED  BY <3>1
  <2>3. T = Nat
    <3>1. T \in SUBSET Nat
        OBVIOUS
    <3>. HIDE DEF T
    <3>. QED  BY <2>1, <2>2, <3>1, NatInd
  <2>. QED  BY <2>3, <1>1
<1>16. p \in [0..N -> ReadState]
    BY <1>15 DEF p
<1>. QED  BY <1>12, <1>13, <1>14, <1>16 DEF N

\* The lines of s that are read, up to the first n: what is of interest before a
\* broken one.
Seen(s, n) == {i \in 1..n : Interesting(s[i]) /\ \A j \in 1..i : ~Broken(s[j])}

\* e is b and, beside it, for each name of a line in L the value of the first one.
FirstIn(e, s, L, v) == \E i \in L : s[i].name = v /\ e[v] = Value(s[i]) /\ \A j \in L : s[j].name = v => i <= j
BesideLines(e, b, s, L) ==
    /\ \A v : v \in DOMAIN e <=> v \in DOMAIN b \/ \E i \in L : s[i].name = v
    /\ \A v \in DOMAIN b : e[v] = b[v]
    /\ \A v \in DOMAIN e : v \notin DOMAIN b => FirstIn(e, s, L, v)

LEMMA LinesRead ==
    ASSUME NEW b \in Settings, NEW s \in Seq(ProfileLine), NEW p \in [0..Len(s) -> ReadState],
           p[0] = [env |-> b, thrown |-> FALSE], \A n \in 1..Len(s) : p[n] = ReadLine(p[n - 1], s[n]),
           NEW N \in 0..Len(s)
    PROVE  /\ p[N].thrown <=> \E j \in 1..N : Broken(s[j])
           /\ BesideLines(p[N].env, b, s, Seen(s, N))
<1>. DEFINE Right0(n) == /\ p[n].thrown <=> \E j \in 1..n : Broken(s[j])
                         /\ BesideLines(p[n].env, b, s, Seen(s, n))
            T == {n \in Nat : n <= Len(s) => Right0(n)}
<1>0. Len(s) \in Nat
    BY LenProperties
<1>1. 0 \in T
  <2>1. p[0].thrown = FALSE /\ p[0].env = b /\ 1..0 = {} /\ Seen(s, 0) = {}
      BY DEF Seen
  <2>2. BesideLines(p[0].env, b, s, {})
      BY <2>1 DEF BesideLines
  <2>. QED  BY <2>1, <2>2
<1>2. ASSUME NEW m \in T PROVE m + 1 \in T
  <2>. SUFFICES ASSUME m + 1 <= Len(s) PROVE Right0(m + 1)
    <3>. HIDE DEF Right0
    <3>. QED  OBVIOUS
  <2>0. m \in Nat /\ m <= Len(s) /\ Right0(m)
    <3>1. m \in Nat /\ m <= Len(s)
        BY <1>0
    <3>. HIDE DEF Right0
    <3>. QED  BY <3>1
  <2>n. PICK n \in 1..Len(s) : n = m + 1
      BY <2>0, <1>0
  <2>1. /\ p[n] = ReadLine(p[m], s[n]) /\ p[m] \in ReadState
        /\ n \notin 1..m /\ 1..n = (1..m) \cup {n} /\ \A i \in 1..m : i <= n
    <3>1. m \in 0..Len(s) /\ n - 1 = m
        BY <2>0, <2>n, <1>0
    <3>2. n \notin 1..m /\ 1..n = (1..m) \cup {n} /\ \A i \in 1..m : i <= n
        BY <2>0, <2>n, <1>0
    <3>. QED  BY <3>1, <3>2
  <2>2. (p[m].thrown <=> \E j \in 1..m : Broken(s[j])) /\ BesideLines(p[m].env, b, s, Seen(s, m)) /\ p[m].env \in Settings
      BY <2>0, <2>1 DEF ReadState
  <2>3. Seen(s, n) = IF Interesting(s[n]) /\ (\A j \in 1..n : ~Broken(s[j])) THEN Seen(s, m) \cup {n} ELSE Seen(s, m)
      BY <2>1 DEF Seen
  <2>4. CASE p[m].thrown \/ ~Interesting(s[n])
    <3>1. p[n] = p[m] /\ Seen(s, n) = Seen(s, m)
        BY <2>1, <2>2, <2>3, <2>4 DEF ReadLine
    <3>2. p[n].thrown <=> \E j \in 1..n : Broken(s[j])
        BY <2>1, <2>2, <2>4, <3>1 DEF Broken
    <3>. QED  BY <2>2, <2>n, <3>1, <3>2
  <2>5. CASE ~p[m].thrown /\ Broken(s[n])
    <3>1. p[n].env = p[m].env /\ p[n].thrown = TRUE /\ Seen(s, n) = Seen(s, m)
        BY <2>1, <2>3, <2>5 DEF ReadLine, Broken, ReadState
    <3>2. p[n].thrown <=> \E j \in 1..n : Broken(s[j])
        BY <2>1, <2>5, <3>1
    <3>. QED  BY <2>2, <2>n, <3>1, <3>2
  <2>6. CASE ~p[m].thrown /\ Interesting(s[n]) /\ ~Broken(s[n])
    <3>0. PICK d : d = Setting(s[n].name, Value(s[n]))
        OBVIOUS
    <3>1. p[n].env = Over(p[m].env, d) /\ p[n].thrown = FALSE
        BY <2>1, <2>6, <3>0 DEF ReadLine, ReadState
    <3>2. \A j \in 1..n : ~Broken(s[j])
        BY <2>1, <2>2, <2>6
    <3>3. Seen(s, n) = Seen(s, m) \cup {n} /\ \A i \in Seen(s, m) : i \in 1..m /\ i <= n
        BY <2>1, <2>3, <2>6, <3>2 DEF Seen
    <3>4. PICK a : a = p[m].env
        OBVIOUS
    <3>5. PICK e : e = Over(a, d)
        OBVIOUS
    <3>6. DOMAIN d = {s[n].name} /\ d[s[n].name] = Value(s[n])
        BY <3>0 DEF Setting
    <3>7. /\ \A v : v \in DOMAIN e <=> v \in DOMAIN a \/ v = s[n].name
          /\ \A v \in DOMAIN a : e[v] = a[v]
          /\ s[n].name \notin DOMAIN a => e[s[n].name] = Value(s[n])
        BY <3>5, <3>6 DEF Over
    <3>8. BesideLines(a, b, s, Seen(s, m))
        BY <2>2, <3>4
    <3>9. \A v : v \in DOMAIN e <=> v \in DOMAIN b \/ \E i \in Seen(s, n) : s[i].name = v
        BY <3>3, <3>7, <3>8 DEF BesideLines
    <3>10. \A v \in DOMAIN b : e[v] = b[v]
        BY <3>7, <3>8 DEF BesideLines
    <3>11. ASSUME NEW v \in DOMAIN e, v \notin DOMAIN b PROVE FirstIn(e, s, Seen(s, n), v)
      <4>1. CASE v \in DOMAIN a
        <5>1. PICK i \in Seen(s, m) : s[i].name = v /\ a[v] = Value(s[i]) /\ \A j \in Seen(s, m) : s[j].name = v => i <= j
            BY <3>8, <3>11, <4>1 DEF BesideLines, FirstIn
        <5>2. i \in Seen(s, n) /\ \A j \in Seen(s, n) : s[j].name = v => i <= j
            BY <3>3, <5>1
        <5>. QED  BY <3>7, <4>1, <5>1, <5>2 DEF FirstIn
      <4>2. CASE v \notin DOMAIN a
        <5>1. v = s[n].name /\ e[v] = Value(s[n])
            BY <3>7, <3>11, <4>2
        <5>2. \A j \in Seen(s, m) : s[j].name # v
            BY <3>8, <4>2 DEF BesideLines
        <5>3. n \in Seen(s, n) /\ \A j \in Seen(s, n) : s[j].name = v => n <= j
            BY <3>3, <5>2
        <5>. QED  BY <5>1, <5>3 DEF FirstIn
      <4>. QED  BY <4>1, <4>2
    <3>12. BesideLines(e, b, s, Seen(s, n))
        BY <3>9, <3>10, <3>11 DEF BesideLines
    <3>13. p[n].env = e
        BY <3>1, <3>4, <3>5
    <3>14. p[n].thrown <=> \E j \in 1..n : Broken(s[j])
        BY <3>1, <3>2
    <3>. QED  BY <2>n, <3>12, <3>13, <3>14
  <2>. QED  BY <2>2, <2>4, <2>5, <2>6, <2>1 DEF ReadState
<1>3. T = Nat
  <2>1. T \in SUBSET Nat
      OBVIOUS
  <2>. HIDE DEF T
  <2>. QED  BY <1>1, <1>2, <2>1, NatInd
<1>4. N \in T /\ N <= Len(s)
  <2>. HIDE DEF T
  <2>. QED  BY <1>0, <1>3
<1>. HIDE DEF Right0
<1>5. Right0(N)
    BY <1>4
<1>. QED  BY <1>5 DEF Right0

\* The lines before the first broken one are those that are read.
LEMMA WholeLines ==
    ASSUME NEW s \in Seq(ProfileLine)
    PROVE  \E m \in 0..Len(s) : /\ Whole(s) = [i \in 1..m |-> s[i]]
                                /\ Seen(s, Len(s)) = {i \in 1..m : Interesting(s[i])}
<1>. DEFINE broken == {i \in DOMAIN s : Broken(s[i])}
            first  == CHOOSE i \in broken : \A j \in broken : i <= j
<1>0. Len(s) \in Nat /\ DOMAIN s = 1..Len(s)
    BY LenProperties
<1>1. ASSUME broken # {} PROVE first \in broken /\ \A j \in broken : first <= j
  <2>1. broken \in SUBSET Nat
      BY <1>0
  <2>2. \E i \in broken : \A j \in broken : i <= j
    <3>. HIDE DEF broken
    <3>. QED  BY <1>1, <2>1, SmallestNumber
  <2>. HIDE DEF broken
  <2>. QED  BY <2>2
<1>2. PICK m : m = IF broken = {} THEN Len(s) ELSE first - 1
  <2>. HIDE DEF broken, first
  <2>. QED  OBVIOUS
<1>3. m \in 0..Len(s) /\ \A i \in 1..Len(s) : i <= m <=> \A j \in 1..i : ~Broken(s[j])
  <2>1. CASE broken = {}
      BY <2>1, <1>0, <1>2
  <2>2. CASE broken # {}
    <3>1. m = first - 1 /\ first \in 1..Len(s) /\ Broken(s[first]) /\ \A j \in 1..Len(s) : Broken(s[j]) => first <= j
      <4>. HIDE DEF first
      <4>. QED  BY <1>0, <1>1, <1>2, <2>2
    <3>. HIDE DEF first, broken
    <3>2. \A i \in 1..Len(s) : i <= m => \A j \in 1..i : j \in 1..Len(s) /\ ~(first <= j)
        BY <1>0, <3>1
    <3>3. \A i \in 1..Len(s) : ~(i <= m) => first \in 1..i
        BY <1>0, <3>1
    <3>. QED  BY <1>0, <3>1, <3>2, <3>3
  <2>. QED  BY <2>1, <2>2
<1>4. Whole(s) = SubSeq(s, 1, m)
    BY <1>2 DEF Whole
<1>. HIDE DEF first, broken
<1>5. SubSeq(s, 1, m) = [i \in 1..m |-> s[i]]
    BY <1>0, <1>3 DEF SubSeq
<1>6. Seen(s, Len(s)) = {i \in 1..m : Interesting(s[i])}
  <2>1. \A i \in 1..m : i \in 1..Len(s) /\ i <= m
      BY <1>0, <1>3
  <2>2. \A i \in 1..Len(s) : i <= m => i \in 1..m
      BY <1>0, <1>3
  <2>. QED  BY <1>3, <2>1, <2>2 DEF Seen
<1>. QED  BY <1>3, <1>4, <1>5, <1>6

\* Reading a profile adds to the environment what its whole lines define.
LEMMA ProfileDefines ==
    ASSUME NEW b \in Settings, NEW s \in Seq(ProfileLine)
    PROVE  FoldLeft(ReadLine, [env |-> b, thrown |-> FALSE], s).env = Over(b, Defined(Whole(s)))
<1>1. [env |-> b, thrown |-> FALSE] \in ReadState
    BY DEF ReadState
<1>2. PICK p \in [0..Len(s) -> ReadState] :
              /\ p[0] = [env |-> b, thrown |-> FALSE] /\ \A n \in 1..Len(s) : p[n] = ReadLine(p[n - 1], s[n])
              /\ FoldLeft(ReadLine, [env |-> b, thrown |-> FALSE], s) = p[Len(s)]
    BY <1>1, ProfileRead
<1>3. Len(s) \in Nat /\ Len(s) \in 0..Len(s)
    BY LenProperties
<1>4. PICK e \in Settings : e = p[Len(s)].env
    BY <1>2, <1>3 DEF ReadState
<1>5. PICK m \in 0..Len(s) : Whole(s) = [i \in 1..m |-> s[i]] /\ Seen(s, Len(s)) = {i \in 1..m : Interesting(s[i])}
    BY WholeLines
<1>6. PICK L : L = {i \in 1..m : Interesting(s[i])}
    OBVIOUS
<1>7. BesideLines(e, b, s, L)
  <2>1. BesideLines(p[Len(s)].env, b, s, Seen(s, Len(s)))
      BY <1>2, <1>3, LinesRead
  <2>. QED  BY <2>1, <1>4, <1>5, <1>6
<1>8. PICK w : w = Whole(s)
    OBVIOUS
<1>9. DOMAIN w = 1..m /\ \A i \in 1..m : w[i] = s[i]
    BY <1>5, <1>8
<1>. DEFINE lines(v) == {i \in DOMAIN w : Interesting(w[i]) /\ w[i].name = v}
            names    == {w[i].name : i \in {j \in DOMAIN w : Interesting(w[j])}}
            first(v) == CHOOSE i \in lines(v) : \A j \in lines(v) : i <= j
<1>10. Defined(w) = [v \in names |-> Value(w[first(v)])]
    BY DEF Defined
<1>11. \A v : v \in names <=> \E i \in L : s[i].name = v
    BY <1>6, <1>9
<1>12. \A v, i : i \in lines(v) <=> i \in L /\ s[i].name = v
    BY <1>6, <1>9
<1>13. ASSUME NEW v \in DOMAIN e, v \notin DOMAIN b PROVE v \in names /\ e[v] = Value(w[first(v)])
  <2>1. PICK i \in L : s[i].name = v /\ e[v] = Value(s[i]) /\ \A j \in L : s[j].name = v => i <= j
      BY <1>7, <1>13 DEF BesideLines, FirstIn
  <2>2. L \subseteq Int
      BY <1>6
  <2>3. i \in lines(v) /\ \A j \in lines(v) : i <= j
      BY <1>12, <2>1
  <2>4. lines(v) \subseteq Int
      BY <1>12, <2>2
  <2>5. first(v) = i
    <3>1. first(v) \in lines(v) /\ \A j \in lines(v) : first(v) <= j
      <4>. HIDE DEF lines
      <4>. QED  BY <2>3
    <3>. HIDE DEF lines, first
    <3>2. first(v) <= i /\ i <= first(v) /\ i \in Int /\ first(v) \in Int
        BY <2>3, <2>4, <3>1
    <3>. QED  BY <3>2
  <2>6. w[i] = s[i]
      BY <1>6, <1>9
  <2>. HIDE DEF first, names, lines
  <2>. QED  BY <1>11, <2>1, <2>5, <2>6
<1>. HIDE DEF lines, names, first
<1>14. PICK d : d = [v \in names |-> Value(w[first(v)])]
    OBVIOUS
<1>15. DOMAIN d = names /\ \A v \in names : d[v] = Value(w[first(v)])
    BY <1>14
<1>16. PICK o : o = Over(b, d)
    OBVIOUS
<1>17. o = [v \in DOMAIN b \cup names |-> IF v \in DOMAIN b THEN b[v] ELSE d[v]]
    BY <1>15, <1>16 DEF Over
<1>18. DOMAIN e = DOMAIN b \cup names
    BY <1>7, <1>11 DEF BesideLines
<1>19. \A v \in DOMAIN e : e[v] = o[v]
    BY <1>7, <1>13, <1>15, <1>17, <1>18 DEF BesideLines
<1>20. e = [v \in DOMAIN e |-> e[v]]
    BY InSettings
<1>21. e = o
    BY <1>17, <1>18, <1>19, <1>20
<1>. QED  BY <1>2, <1>4, <1>8, <1>10, <1>14, <1>16, <1>21

-----------------------------------------------------------------------------
(* The invariant of the environment.                                         *)

AsTold   == env = told /\ ~readable /\ ~passed
AsRead   == env = Over(told, IF readable THEN Defined(Whole(profile)) ELSE NoSettings)
EnvIInv  == /\ ChildEnvTypeOK /\ profile \in Seq(ProfileLine) /\ env \in Settings /\ told \in Settings
            /\ IF triedEnv THEN AsRead ELSE AsTold

LEMMA EnvIsComplete ==
    EnvIInv => EnvironmentComplete
BY DEF EnvIInv, AsTold, AsRead, EnvironmentComplete

LEMMA NothingOver ==
    ASSUME NEW e \in Settings
    PROVE  Over(e, NoSettings) = e
<1>1. DOMAIN NoSettings = {}
    BY DEF NoSettings
<1>2. Over(e, NoSettings) = [v \in DOMAIN e |-> e[v]]
    BY <1>1 DEF Over
<1>. QED  BY <1>2, InSettings

LEMMA OverOver ==
    ASSUME NEW a, NEW b, NEW c
    PROVE  Over(a, Over(b, c)) = Over(Over(a, b), c) /\ DOMAIN Over(a, b) = DOMAIN a \cup DOMAIN b
BY DEF Over

LEMMA EnvIInvInit ==
    ChildEnvInit => EnvIInv
<1>. SUFFICES ASSUME ChildEnvInit PROVE EnvIInv
    OBVIOUS
<1>1. profile \in Profiles /\ profile \in Seq(ProfileLine)
    BY ChildEnvAssumption DEF ChildEnvInit, ProfileLine
<1>2. NoSettings \in [{} -> Seq(STRING)] /\ {} \in SUBSET STRING
    BY DEF NoSettings
<1>3. NoSettings \in Settings
    BY <1>2, IntoSettings
<1>4. DOMAIN NoSettings = {}
    BY DEF NoSettings
<1>. QED  BY <1>1, <1>3, <1>4 DEF ChildEnvInit, EnvIInv, ChildEnvTypeOK, AsTold

LEMMA EnvIInvStep ==
    EnvIInv /\ [ChildEnvNext]_childEnvVars => EnvIInv'
<1>. SUFFICES ASSUME EnvIInv, [ChildEnvNext]_childEnvVars PROVE EnvIInv'
    OBVIOUS
<1>. USE DEF EnvIInv
<1>1. CASE Command
  <2>1. UNCHANGED <<profile, env, triedEnv, told, readable, passed>> /\ command' = TRUE
      BY <1>1 DEF Command
  <2>. QED  BY <2>1 DEF ChildEnvTypeOK, AsTold, AsRead
<1>2. CASE AddEnv
  <2>1. PICK v \in Variables, x \in EnvValues : env' = Over(Setting(v, x), env) /\ told' = Over(Setting(v, x), told)
      BY <1>2 DEF AddEnv
  <2>2. UNCHANGED <<profile, command, triedEnv, readable>> /\ passed' = FALSE
      BY <1>2 DEF AddEnv
  <2>3. PICK d \in Settings : d = Setting(v, x) /\ DOMAIN d = {v}
    <3>1. v \in STRING /\ x \in Seq(STRING)
        BY ChildEnvAssumption
    <3>. QED  BY <3>1, OneSetting DEF Setting
  <2>4. env' \in Settings /\ told' \in Settings
      BY <2>1, <2>3, OverSettings
  <2>5. DOMAIN env' = {v} \cup DOMAIN env /\ DOMAIN told' = {v} \cup DOMAIN told
      BY <2>1, <2>3, OverOver, ZenonT(60)
  <2>6. ChildEnvTypeOK'
      BY <2>2, <2>5 DEF ChildEnvTypeOK
  <2>7. CASE triedEnv
    <3>0. PICK r : r = IF readable THEN Defined(Whole(profile)) ELSE NoSettings
        OBVIOUS
    <3>1. env = Over(told, r)
        BY <2>7, <3>0 DEF AsRead
    <3>2. env' = Over(told', r)
      <4>0. PICK t : t = told
          OBVIOUS
      <4>1. Over(d, Over(t, r)) = Over(Over(d, t), r)
          BY DEF Over
      <4>2. env' = Over(d, env) /\ told' = Over(d, told)
          BY <2>1, <2>3
      <4>. QED  BY <3>1, <4>0, <4>1, <4>2
    <3>. QED  BY <2>2, <2>4, <2>6, <2>7, <3>0, <3>2 DEF AsRead
  <2>8. CASE ~triedEnv
      BY <2>1, <2>2, <2>4, <2>6, <2>8 DEF AsTold
  <2>. QED  BY <2>7, <2>8
<1>3. CASE FirstRun
  <2>1. UNCHANGED <<profile, command, told>> /\ triedEnv' = TRUE /\ ~triedEnv
      BY <1>3 DEF FirstRun
  <2>2. AsTold
      BY <2>1
  <2>3. CASE readable' = FALSE /\ env' = env /\ passed' \in BOOLEAN
    <3>1. AsRead'
        BY <2>1, <2>2, <2>3, NothingOver DEF AsTold, AsRead
    <3>. QED  BY <2>1, <2>2, <2>3, <3>1 DEF ChildEnvTypeOK
  <2>4. CASE readable' = TRUE /\ env' = readEnv.env /\ passed' = ~readEnv.thrown
    <3>0. env' = Over(env, Defined(Whole(profile)))
        BY <2>4, ProfileDefines DEF readEnv
    <3>1. AsRead'
        BY <2>1, <2>2, <2>4, <3>0 DEF AsTold, AsRead
    <3>2. PICK p \in [0..Len(profile) -> ReadState] : readEnv = p[Len(profile)]
      <4>1. [env |-> env, thrown |-> FALSE] \in ReadState
          BY DEF ReadState
      <4>. QED  BY <4>1, ProfileRead DEF readEnv
    <3>3. readEnv \in ReadState
      <4>1. Len(profile) \in 0..Len(profile)
          BY LenProperties
      <4>. QED  BY <3>2, <4>1
    <3>4. env' \in Settings /\ passed' \in BOOLEAN
        BY <2>4, <3>3 DEF ReadState
    <3>5. DOMAIN told \subseteq DOMAIN env'
      <4>1. PICK r : r = Defined(Whole(profile))
          OBVIOUS
      <4>2. env' = Over(env, r)
          BY <3>0, <4>1
      <4>3. DOMAIN Over(env, r) = DOMAIN env \cup DOMAIN r
          BY OverOver
      <4>. QED  BY <2>2, <4>2, <4>3 DEF AsTold
    <3>6. ChildEnvTypeOK'
        BY <2>1, <2>4, <3>4, <3>5 DEF ChildEnvTypeOK
    <3>. QED  BY <2>1, <3>1, <3>4, <3>6
  <2>. QED  BY <1>3, <2>3, <2>4 DEF FirstRun
<1>4. CASE LaterRun
  <2>1. UNCHANGED <<profile, command, env, triedEnv, told, readable>> /\ passed' = TRUE /\ triedEnv
      BY <1>4 DEF LaterRun
  <2>. QED  BY <2>1 DEF ChildEnvTypeOK, AsRead
<1>5. CASE UNCHANGED childEnvVars
    BY <1>5 DEF childEnvVars, ChildEnvTypeOK, AsTold, AsRead
<1>. QED  BY <1>1, <1>2, <1>3, <1>4, <1>5 DEF ChildEnvNext

-----------------------------------------------------------------------------
(* Numbers in texts                                                          *)

NumberOf(d) == FoldLeft(LAMBDA n, c : 10 * n + c, 0, d)

\* The number of a text of digits goes from digit to digit.
LEMMA DigitsRead ==
    ASSUME NEW d \in Seq(Digit)
    PROVE  \E p \in [0..Len(d) -> Nat] :
              /\ p[0] = 0 /\ \A n \in 1..Len(d) : p[n] = 10 * p[n - 1] + d[n]
              /\ NumberOf(d) = p[Len(d)]
<1>. DEFINE N == Len(d)
            g == [i \in 1..N |-> [v \in Nat |-> 10 * v + d[i]]]
            Body(k) == [x \in SUBSET DOMAIN d |-> IF x = {} THEN 0 ELSE 10 * k[x \ {Max(x)}] + d[Max(x)]]
<1>1. N \in Nat /\ DOMAIN d = 1..N /\ \A i \in 1..N : d[i] \in 0..9
    BY LenProperties, ElementOfSeq DEF Digit
<1>2. g \in [1..N -> [Nat -> Nat]]
  <2>1. \A i \in 1..N, v \in Nat : 10 * v + d[i] \in Nat
      BY <1>1
  <2>. HIDE DEF N
  <2>. QED  BY <2>1
<1>3. \A i \in 1..N, v \in Nat : g[i][v] = 10 * v + d[i]
    OBVIOUS
<1>4. PICK f \in [SUBSET (1..N) -> Nat] : GoesThrough(f, N, 0, g)
  <2>. HIDE DEF N, g
  <2>. QED  BY <1>1, <1>2, SetRecursion
<1>. HIDE DEF g, N
<1>5. \A x \in SUBSET (1..N) : x # {} => Max(x) \in 1..N /\ x \ {Max(x)} \in SUBSET (1..N)
    BY <1>1, LargestNumber
<1>6. \A x \in SUBSET (1..N) : f[x] = IF x = {} THEN 0 ELSE 10 * f[x \ {Max(x)}] + d[Max(x)]
    BY <1>3, <1>4, <1>5 DEF GoesThrough
<1>7. f = Body(f)
    BY <1>1, <1>6
<1>8. PICK h : h = CHOOSE k : k = Body(k)
    OBVIOUS
<1>9. h = Body(h)
  <2>. HIDE DEF Body
  <2>. QED  BY <1>7, <1>8
<1>10. NumberOf(d) = h[DOMAIN d]
    BY <1>8 DEF FoldLeft, MapThenFoldSet, NumberOf
<1>11. h[{}] = 0 /\ \A x \in SUBSET (1..N) : x # {} => h[x] = 10 * h[x \ {Max(x)}] + d[Max(x)]
    BY <1>1, <1>9
<1>. DEFINE p == [n \in 0..N |-> h[1..n]]
<1>12. p[0] = 0
    BY <1>1, <1>11
<1>13. \A n \in 1..N : p[n] = 10 * p[n - 1] + d[n]
  <2>. SUFFICES ASSUME NEW n \in 1..N PROVE p[n] = 10 * p[n - 1] + d[n]
      OBVIOUS
  <2>1. Max(1..n) = n /\ (1..n) \ {n} = 1..(n - 1) /\ 1..n # {} /\ 1..n \in SUBSET (1..N)
      BY <1>1, LargestIsLast
  <2>2. n \in 0..N /\ n - 1 \in 0..N
      BY <1>1
  <2>3. h[1..n] = 10 * h[1..(n - 1)] + d[n]
      BY <1>11, <2>1
  <2>. QED  BY <2>2, <2>3
<1>14. NumberOf(d) = p[N]
    BY <1>1, <1>10
<1>. HIDE DEF p
<1>15. \A n \in 0..N : p[n] \in Nat
  <2>. DEFINE T == {n \in Nat : n <= N => p[n] \in Nat}
  <2>1. 0 \in T
      BY <1>12
  <2>2. ASSUME NEW n \in T PROVE n + 1 \in T
    <3>1. CASE n + 1 <= N
      <4>1. n + 1 \in 1..N /\ n + 1 - 1 = n /\ p[n] \in Nat
          BY <3>1, <1>1
      <4>2. p[n + 1] = 10 * p[n] + d[n + 1] /\ d[n + 1] \in 0..9
          BY <1>1, <1>13, <4>1
      <4>3. PICK x \in Nat, y \in 0..9 : x = p[n] /\ y = d[n + 1]
          BY <4>1, <4>2
      <4>4. 10 * x + y \in Nat
          OBVIOUS
      <4>5. p[n + 1] \in Nat
          BY <4>2, <4>3, <4>4
      <4>. QED  BY <4>5
    <3>. QED  BY <3>1
  <2>3. T = Nat
    <3>1. T \in SUBSET Nat
        OBVIOUS
    <3>. HIDE DEF T
    <3>. QED  BY <2>1, <2>2, <3>1, NatInd
  <2>. QED  BY <2>3, <1>1
<1>16. p \in [0..N -> Nat]
    BY <1>15 DEF p
<1>. QED  BY <1>12, <1>13, <1>14, <1>16 DEF N

\* Numbers of up to four digits
LEMMA ShortNumbers ==
    ASSUME NEW d \in Seq(Digit), Len(d) <= 4
    PROVE  /\ NumberOf(d) \in Nat /\ NumberOf(d) <= 9999
           /\ Len(d) = 1 => NumberOf(d) = d[1]
           /\ Len(d) = 2 => NumberOf(d) = 10 * d[1] + d[2]
           /\ Len(d) = 4 => NumberOf(d) = 1000 * d[1] + 100 * d[2] + 10 * d[3] + d[4]
<1>1. PICK p \in [0..Len(d) -> Nat] :
              /\ p[0] = 0 /\ \A n \in 1..Len(d) : p[n] = 10 * p[n - 1] + d[n]
              /\ NumberOf(d) = p[Len(d)]
    BY DigitsRead
<1>2. Len(d) \in Nat /\ \A i \in 1..Len(d) : d[i] \in 0..9
    BY LenProperties, ElementOfSeq DEF Digit
<1>3. PICK N \in Nat : N = Len(d) /\ N <= 4
    BY <1>2
<1>4. \A i \in 1..N : d[i] \in 0..9 /\ p[i] = 10 * p[i - 1] + d[i]
    BY <1>1, <1>2, <1>3
<1>5. ASSUME NEW i \in 1..4, i <= N, NEW x \in Nat, p[i - 1] = x
      PROVE  \E y \in 0..9 : d[i] = y /\ p[i] = 10 * x + y
  <2>1. i \in 1..N
      BY <1>5
  <2>. QED  BY <1>4, <1>5, <2>1
<1>r. NumberOf(d) = p[N]
    BY <1>1, <1>3
<1>7. PICK a \in 0..9 : N >= 1 => d[1] = a /\ p[1] = a
  <2>1. CASE N >= 1
    <3>1. 1 \in 1..4 /\ 0 \in Nat /\ p[1 - 1] = 0
        BY <1>1
    <3>2. PICK a \in 0..9 : d[1] = a /\ p[1] = 10 * 0 + a
        BY <1>5, <2>1, <3>1
    <3>. QED  BY <3>2
  <2>. QED  BY <2>1
<1>8. PICK b \in 0..9 : N >= 2 => d[2] = b /\ p[2] = 10 * a + b
  <2>1. CASE N >= 2
    <3>1. 2 \in 1..4 /\ a \in Nat /\ p[2 - 1] = a
        BY <1>7, <2>1
    <3>2. PICK b \in 0..9 : d[2] = b /\ p[2] = 10 * a + b
        BY <1>5, <2>1, <3>1
    <3>. QED  BY <3>2
  <2>. QED  BY <2>1
<1>9. PICK c \in 0..9 : N >= 3 => d[3] = c /\ p[3] = 10 * (10 * a + b) + c
  <2>1. CASE N >= 3
    <3>1. PICK x \in Nat : x = 10 * a + b
        OBVIOUS
    <3>2. 3 \in 1..4 /\ p[3 - 1] = x
        BY <1>8, <2>1, <3>1
    <3>3. PICK c \in 0..9 : d[3] = c /\ p[3] = 10 * x + c
        BY <1>5, <2>1, <3>2
    <3>. QED  BY <3>1, <3>3
  <2>. QED  BY <2>1
<1>10. PICK e \in 0..9 : N >= 4 => d[4] = e /\ p[4] = 10 * (10 * (10 * a + b) + c) + e
  <2>1. CASE N >= 4
    <3>1. PICK x \in Nat : x = 10 * (10 * a + b) + c
        OBVIOUS
    <3>2. 4 \in 1..4 /\ p[4 - 1] = x
        BY <1>9, <2>1, <3>1
    <3>3. PICK e \in 0..9 : d[4] = e /\ p[4] = 10 * x + e
        BY <1>5, <2>1, <3>2
    <3>. QED  BY <3>1, <3>3
  <2>. QED  BY <2>1
<1>11. /\ N = 0 => NumberOf(d) = 0
       /\ N = 1 => NumberOf(d) = a
       /\ N = 2 => NumberOf(d) = 10 * a + b
       /\ N = 3 => NumberOf(d) = 10 * (10 * a + b) + c
       /\ N = 4 => NumberOf(d) = 10 * (10 * (10 * a + b) + c) + e
    BY <1>1, <1>r, <1>7, <1>8, <1>9, <1>10
<1>12. NumberOf(d) \in Nat /\ NumberOf(d) <= 9999
  <2>1. 10 * a + b <= 99 /\ 10 * (10 * a + b) + c <= 999 /\ 10 * (10 * (10 * a + b) + c) + e <= 9999
      OBVIOUS
  <2>2. 10 * a + b \in Nat /\ 10 * (10 * a + b) + c \in Nat /\ 10 * (10 * (10 * a + b) + c) + e \in Nat
      OBVIOUS
  <2>3. N \in {0, 1, 2, 3, 4}
      BY <1>3
  <2>. QED  BY <2>1, <2>2, <2>3, <1>11
<1>13. Len(d) = 1 => NumberOf(d) = d[1]
    BY <1>3, <1>7, <1>11
<1>14. Len(d) = 2 => NumberOf(d) = 10 * d[1] + d[2]
    BY <1>3, <1>7, <1>8, <1>11
<1>15. Len(d) = 4 => NumberOf(d) = 1000 * d[1] + 100 * d[2] + 10 * d[3] + d[4]
  <2>. SUFFICES ASSUME Len(d) = 4 PROVE NumberOf(d) = 1000 * d[1] + 100 * d[2] + 10 * d[3] + d[4]
      OBVIOUS
  <2>1. d[1] = a /\ d[2] = b /\ d[3] = c /\ d[4] = e
      BY <1>3, <1>7, <1>8, <1>9, <1>10
  <2>2. NumberOf(d) = 10 * (10 * (10 * a + b) + c) + e
      BY <1>3, <1>11
  <2>3. 10 * (10 * (10 * a + b) + c) + e = 1000 * a + 100 * b + 10 * c + e
      OBVIOUS
  <2>. QED  BY <2>1, <2>2, <2>3
<1>. QED  BY <1>12, <1>13, <1>14, <1>15

\* Four digits make a number that is short.
LEMMA ShortNumber ==
    ASSUME NEW d \in Seq(Digit), Len(d) <= 4
    PROVE  NumberOf(d) \in Nat /\ NumberOf(d) <= 9999
BY ShortNumbers

\* std::stoi of digits
LEMMA StoiOfDigits ==
    ASSUME NEW s \in Seq(Digit), s # <<>>
    PROVE  Stoi(s) = NumberOf(s)
<1>1. Len(s) \in Nat /\ \A i \in 1..Len(s) : s[i] \in Digit
    BY LenProperties, ElementOfSeq
<1>2. Len(s) # 0
    BY EmptySeq
<1>3. Head(s) = s[1] /\ s[1] \in 0..9
  <2>1. 1 \in 1..Len(s)
      BY <1>1, <1>2
  <2>. QED  BY <1>1, <2>1, HeadTailProperties DEF Digit
<1>4. Head(s) # Lead
    BY <1>3 DEF Lead
<1>5. {i \in 1..Len(s) : s[i] \notin Digit} = {}
    BY <1>1
<1>6. SelectInSeq(s, LAMBDA c : c \notin Digit) = 0
    BY <1>5 DEF SelectInSeq
<1>. QED  BY <1>4, <1>6 DEF Stoi, NumberOf

\* std::stoi of up to four characters
LEMMA StoiIsShort ==
    ASSUME NEW s \in Seq(Character), Len(s) <= 4
    PROVE  Stoi(s) \in Int /\ -1 <= Stoi(s) /\ Stoi(s) <= 9999
<1>1. Len(s) \in Nat /\ \A i \in 1..Len(s) : s[i] \in Character
    BY LenProperties, ElementOfSeq
<1>2. PICK t : t = IF s # <<>> /\ Head(s) = Lead THEN Tail(s) ELSE s
    OBVIOUS
<1>3. t \in Seq(Character) /\ Len(t) <= 4
  <2>1. s # <<>> => Tail(s) \in Seq(Character) /\ Len(Tail(s)) = Len(s) - 1
      BY HeadTailProperties
  <2>. QED  BY <1>1, <1>2, <2>1
<1>4. Len(t) \in Nat /\ \A i \in 1..Len(t) : t[i] \in Character
    BY <1>3, LenProperties, ElementOfSeq
<1>5. PICK I : I = {i \in 1..Len(t) : t[i] \notin Digit}
    OBVIOUS
<1>6. PICK stop : stop = SelectInSeq(t, LAMBDA c : c \notin Digit)
    OBVIOUS
<1>7. stop = IF I # {} THEN Min(I) ELSE 0
    BY <1>5, <1>6 DEF SelectInSeq
<1>8. PICK d : d = IF stop = 0 THEN t ELSE SubSeq(t, 1, stop - 1)
    OBVIOUS
<1>9. d \in Seq(Digit) /\ Len(d) <= 4
  <2>1. CASE I = {}
    <3>1. d = t /\ \A i \in 1..Len(t) : t[i] \in Digit
        BY <1>5, <1>7, <1>8, <2>1
    <3>2. t = [i \in 1..Len(t) |-> t[i]]
        BY <1>3
    <3>3. t \in [1..Len(t) -> Digit]
        BY <3>1, <3>2
    <3>. QED  BY <1>3, <1>4, <3>1, <3>3
  <2>2. CASE I # {}
    <3>1. stop \in I /\ \A j \in I : stop <= j
      <4>1. I \in SUBSET Nat
          BY <1>5
      <4>2. \E i \in I : \A j \in I : i =< j
          BY <2>2, <4>1, SmallestNumber
      <4>. QED  BY <1>7, <2>2, <4>2 DEF Min
    <3>2. stop \in 1..Len(t)
        BY <1>5, <3>1
    <3>3. d = SubSeq(t, 1, stop - 1)
        BY <1>8, <3>2
    <3>4. \A i \in 1..(stop - 1) : i \in 1..Len(t) /\ ~(stop <= i)
        BY <1>4, <3>2
    <3>5. \A i \in 1..(stop - 1) : t[i] \in Digit
        BY <1>5, <3>1, <3>4
    <3>6. d = [i \in 1..(stop - 1) |-> t[i]] /\ stop - 1 \in Nat
        BY <3>2, <3>3, <1>4 DEF SubSeq
    <3>7. d \in Seq(Digit) /\ Len(d) = stop - 1
        BY <3>5, <3>6
    <3>. QED  BY <3>7, <3>2, <1>3, <1>4
  <2>. QED  BY <2>1, <2>2
<1>10. Stoi(s) = IF d = <<>> THEN NoNumber ELSE NumberOf(d)
    BY <1>2, <1>6, <1>8 DEF Stoi, NumberOf
<1>11. NumberOf(d) \in Nat /\ NumberOf(d) <= 9999
    BY ONLY <1>9, ShortNumber
<1>. QED  BY <1>10, <1>11 DEF NoNumber

-----------------------------------------------------------------------------
(* Days as numbers                                                           *)

\* The days of the years before y, which begin in March; and one more in a leap
\* year
YearDays(y) == 365 * y + (y \div 4) - (y \div 100) + (y \div 400)
LeapDay(y)  == IF leap(y) THEN 1 ELSE 0

\* From one year to the next
LEMMA YearLength ==
    ASSUME NEW y \in Nat \ {0}
    PROVE  /\ YearDays(y) = YearDays(y - 1) + 365 + LeapDay(y)
           /\ YearDays(y) \in Int /\ YearDays(y - 1) \in Int
<1>1. y \div 4 = ((y - 1) \div 4) + (IF y % 4 = 0 THEN 1 ELSE 0)
    OBVIOUS
<1>2. y \div 100 = ((y - 1) \div 100) + (IF y % 100 = 0 THEN 1 ELSE 0)
    OBVIOUS
<1>3. y \div 400 = ((y - 1) \div 400) + (IF y % 400 = 0 THEN 1 ELSE 0)
    OBVIOUS
<1>4. (y % 400 = 0 => y % 100 = 0) /\ (y % 100 = 0 => y % 4 = 0)
    OBVIOUS
<1>5. /\ y \div 4 \in Int /\ y \div 100 \in Int /\ y \div 400 \in Int
      /\ (y - 1) \div 4 \in Int /\ (y - 1) \div 100 \in Int /\ (y - 1) \div 400 \in Int
    OBVIOUS
<1>6. LeapDay(y) = (IF y % 4 = 0 THEN 1 ELSE 0) - (IF y % 100 = 0 THEN 1 ELSE 0) + (IF y % 400 = 0 THEN 1 ELSE 0)
    BY <1>4 DEF LeapDay, leap
<1>. QED  BY <1>1, <1>2, <1>3, <1>5, <1>6 DEF YearDays

LEMMA YearsGrow ==
    ASSUME NEW a \in Nat, NEW b \in Nat, a <= b
    PROVE  YearDays(a) <= YearDays(b) /\ YearDays(a) \in Int /\ YearDays(b) \in Int
<1>1. a \div 4 <= b \div 4 /\ a \div 400 <= b \div 400
    OBVIOUS
<1>2. (b \div 100) - (a \div 100) <= b - a
    OBVIOUS
<1>3. /\ a \div 4 \in Int /\ a \div 100 \in Int /\ a \div 400 \in Int
      /\ b \div 4 \in Int /\ b \div 100 \in Int /\ b \div 400 \in Int
    OBVIOUS
<1>. QED  BY <1>1, <1>2, <1>3 DEF YearDays

\* How many days before a month begins: March comes after a leap day.
Begin(m) == CASE m = 1 -> 306 [] m = 2 -> 337 [] m = 3 -> 365 [] m = 4 -> 396 [] m = 5 -> 426 [] m = 6 -> 457
              [] m = 7 -> 487 [] m = 8 -> 518 [] m = 9 -> 549 [] m = 10 -> 579 [] m = 11 -> 610 [] m = 12 -> 640

LEMMA DayIs ==
    ASSUME NEW y \in Nat \ {0}, NEW m \in 1..12, NEW d \in Int
    PROVE  DayNumber(y, m, d) = YearDays(y - 1) + Begin(m) + (IF m <= 2 THEN 0 ELSE LeapDay(y)) + d - Epoch
<1>1. PICK p \in Int : p = YearDays(y - 1)
    BY YearLength
<1>2. PICK q \in Int : q = YearDays(y)
    BY YearLength
<1>3. PICK l \in Int : l = LeapDay(y)
    BY DEF LeapDay
<1>4. q = p + 365 + l
    BY <1>1, <1>2, <1>3, YearLength
<1>5. PICK mm \in Int : mm = (153 * ((m + 9) % 12) + 2) \div 5
    OBVIOUS
<1>e. Epoch \in Int
    BY SMT DEF Epoch
<1>6. DayNumber(y, m, d) = (IF m <= 2 THEN p ELSE q) + mm + d - Epoch
    BY <1>1, <1>2, <1>5 DEF DayNumber, YearDays
<1>7. Begin(m) \in Int /\ Begin(m) = mm + IF m <= 2 THEN 0 ELSE 365
    BY <1>5 DEF Begin
<1>. QED  BY <1>e, <1>1, <1>3, <1>4, <1>6, <1>7

LEMMA EpochIsNumber ==
    Epoch \in Int
BY SMT DEF Epoch

\* A date as its day in the days of its year
Parts(y, m, d, p, l) == /\ p = YearDays(y - 1) /\ (l = 1 <=> leap(y))
                        /\ DayNumber(y, m, d) = p + Begin(m) + (IF m <= 2 THEN 0 ELSE l) + d - Epoch

LEMMA DayParts ==
    ASSUME NEW y \in Nat \ {0}, NEW m \in 1..12, NEW d \in Int
    PROVE  \E p \in Int, l \in {0, 1} : Parts(y, m, d, p, l)
<1>1. YearDays(y - 1) \in Int
    BY YearLength
<1>2. LeapDay(y) \in {0, 1} /\ (LeapDay(y) = 1 <=> leap(y))
    BY DEF LeapDay
<1>3. DayNumber(y, m, d) = YearDays(y - 1) + Begin(m) + (IF m <= 2 THEN 0 ELSE LeapDay(y)) + d - Epoch
    BY DayIs
<1>. QED  BY <1>1, <1>2, <1>3 DEF Parts

\* The days of a month end where the next month begins, at the latest; May ends a
\* day before.
LEMMA MonthEnds ==
    ASSUME NEW m \in 1..12, NEW y \in Nat, NEW l \in {0, 1}, l = 1 <=> leap(y), NEW n \in 1..12, m < n
    PROVE  /\ days(y, m) \in 28..31 /\ Begin(m) \in Int /\ Begin(n) \in Int
           /\ Begin(m) + (IF m <= 2 THEN 0 ELSE l) + days(y, m) <= Begin(n) + (IF n <= 2 THEN 0 ELSE l)
<1>1. PICK dd \in 28..31 : dd = days(y, m)
    BY DEF days
<1>2. dd = CASE m = 2 -> 28 + l [] m \in {4, 5, 6, 9, 11} -> 30 [] OTHER -> 31
    BY <1>1 DEF days
<1>3. m \in {1, 2, 3, 4, 5, 6, 7, 8, 9, 10, 11, 12} /\ n \in {1, 2, 3, 4, 5, 6, 7, 8, 9, 10, 11, 12}
    OBVIOUS
<1>4. Begin(m) \in Int /\ Begin(n) \in Int
    BY DEF Begin
<1>5. Begin(m) + (IF m <= 2 THEN 0 ELSE l) + dd <= Begin(n) + (IF n <= 2 THEN 0 ELSE l)
  <2>1. m = 2 => dd = 28 + l
      BY <1>2
  <2>2. m \in {4, 6, 9, 11} => dd = 30
      BY <1>2
  <2>3. dd <= 31
      OBVIOUS
  <2>. QED  BY <1>3, <2>1, <2>2, <2>3 DEF Begin
<1>. QED  BY <1>1, <1>4, <1>5

\* A date of the calendar
Dated(d) == d \in [year : Nat, month : Nat, day : Nat] /\ valid(d)

LEMMA DatedParts ==
    ASSUME NEW d, Dated(d)
    PROVE  d.year \in Nat \ {0} /\ d.month \in 1..12 /\ d.day \in Nat \ {0} /\ d.day <= days(d.year, d.month)
BY DEF Dated, valid

\* Earlier dates have smaller numbers: within a month, a year and beyond.
LEMMA EarlierIsLess ==
    ASSUME NEW a, Dated(a), NEW b, Dated(b), Earlier(a, b)
    PROVE  /\ DayNumber(a.year, a.month, a.day) \in Int /\ DayNumber(b.year, b.month, b.day) \in Int
           /\ DayNumber(a.year, a.month, a.day) < DayNumber(b.year, b.month, b.day)
<1>1. PICK ya \in Nat \ {0}, ma \in 1..12, da \in Nat \ {0} :
              a.year = ya /\ a.month = ma /\ a.day = da /\ da <= days(ya, ma)
    BY DatedParts
<1>2. PICK yb \in Nat \ {0}, mb \in 1..12, db \in Nat \ {0} :
              b.year = yb /\ b.month = mb /\ b.day = db /\ db <= days(yb, mb)
    BY DatedParts
<1>3. PICK pa \in Int, la \in {0, 1} :
              /\ pa = YearDays(ya - 1) /\ (la = 1 <=> leap(ya))
              /\ DayNumber(ya, ma, da) = pa + Begin(ma) + (IF ma <= 2 THEN 0 ELSE la) + da - Epoch
  <2>1. da \in Int
      OBVIOUS
  <2>. QED  BY <2>1, DayParts DEF Parts
<1>4. PICK pb \in Int, lb \in {0, 1} :
              /\ pb = YearDays(yb - 1) /\ (lb = 1 <=> leap(yb))
              /\ DayNumber(yb, mb, db) = pb + Begin(mb) + (IF mb <= 2 THEN 0 ELSE lb) + db - Epoch
  <2>1. db \in Int
      OBVIOUS
  <2>. QED  BY <2>1, DayParts DEF Parts
<1>5. Begin(ma) \in 306..640 /\ Begin(mb) \in 306..640 /\ Epoch \in Int
    BY EpochIsNumber DEF Begin
<1>6. ya < yb \/ (ya = yb /\ ma < mb) \/ (ya = yb /\ ma = mb /\ da < db)
    BY <1>1, <1>2 DEF Earlier
<1>7. ASSUME ya < yb PROVE DayNumber(ya, ma, da) < DayNumber(yb, mb, db)
  <2>1. PICK q \in Int : q = YearDays(ya) /\ q = pa + 365 + la
    <3>1. YearDays(ya) = YearDays(ya - 1) + 365 + LeapDay(ya) /\ YearDays(ya) \in Int
        BY YearLength
    <3>2. LeapDay(ya) = la
        BY <1>3 DEF LeapDay
    <3>. QED  BY <3>1, <3>2, <1>3
  <2>2. q <= pb
    <3>1. ya \in Nat /\ yb - 1 \in Nat /\ ya <= yb - 1
        BY <1>7
    <3>2. YearDays(ya) <= YearDays(yb - 1)
        BY <3>1, YearsGrow
    <3>. QED  BY <3>2, <2>1, <1>4
  <2>3. Begin(ma) + (IF ma <= 2 THEN 0 ELSE la) + da <= 671 + la
    <3>1. PICK dd \in Int : dd = days(ya, ma) /\ dd <= 31
        BY DEF days
    <3>2. da <= 31 /\ (ma = 2 => da <= 29)
        BY <1>1, <3>1 DEF days
    <3>3. ma \in {1, 2, 3, 4, 5, 6, 7, 8, 9, 10, 11, 12}
        OBVIOUS
    <3>. QED  BY <3>2, <3>3 DEF Begin
  <2>4. DayNumber(ya, ma, da) <= pa + 671 + la - Epoch
    <3>1. PICK x \in Int : x = Begin(ma) + (IF ma <= 2 THEN 0 ELSE la) + da
        BY <1>5
    <3>2. DayNumber(ya, ma, da) = pa + x - Epoch
        BY <1>3, <1>5, <3>1
    <3>. QED  BY <1>5, <2>3, <3>1, <3>2
  <2>5. DayNumber(yb, mb, db) >= pb + 307 - Epoch /\ DayNumber(yb, mb, db) \in Int
      BY <1>4, <1>5
  <2>6. DayNumber(ya, ma, da) \in Int
      BY <1>3, <1>5
  <2>. QED  BY <1>5, <2>1, <2>2, <2>4, <2>5, <2>6
<1>8. ASSUME ya = yb, pa = pb, la = lb PROVE ma < mb => DayNumber(ya, ma, da) < DayNumber(yb, mb, db)
  <2>. SUFFICES ASSUME ma < mb PROVE DayNumber(ya, ma, da) < DayNumber(yb, mb, db)
      OBVIOUS
  <2>1. PICK dd \in 28..31 : dd = days(ya, ma) /\ Begin(ma) + (IF ma <= 2 THEN 0 ELSE la) + dd <= Begin(mb) + (IF mb <= 2 THEN 0 ELSE la)
      BY <1>3, MonthEnds
  <2>2. PICK x \in Int : x = Begin(ma) + (IF ma <= 2 THEN 0 ELSE la)
      BY <1>5
  <2>z. PICK z \in Int : z = Begin(mb) + (IF mb <= 2 THEN 0 ELSE la)
      BY <1>5
  <2>3. x + dd <= z /\ da <= dd
      BY <1>1, <2>1, <2>2, <2>z
  <2>4. DayNumber(ya, ma, da) = pa + x + da - Epoch /\ DayNumber(yb, mb, db) = pa + z + db - Epoch
      BY <1>3, <1>4, <1>5, <1>8, <2>2, <2>z, SMTT(30)
  <2>. QED  BY <1>5, <2>3, <2>4
<1>9. ASSUME ya = yb, pa = pb, la = lb PROVE ma = mb /\ da < db => DayNumber(ya, ma, da) < DayNumber(yb, mb, db)
    BY <1>3, <1>4, <1>5, <1>9
<1>10. ya = yb => pa = pb /\ la = lb
    BY <1>3, <1>4
<1>11. DayNumber(ya, ma, da) \in Int /\ DayNumber(yb, mb, db) \in Int
    BY <1>3, <1>4, <1>5
<1>. QED  BY <1>1, <1>2, <1>6, <1>7, <1>8, <1>9, <1>10, <1>11

\* so comparing dates compares their numbers.
LEMMA DatesCompare ==
    ASSUME NEW a, Dated(a), NEW b, Dated(b)
    PROVE  \E m, n \in Int : /\ m = DayNumber(a.year, a.month, a.day) /\ n = DayNumber(b.year, b.month, b.day)
                             /\ Earlier(a, b) <=> m < n
                             /\ NotLater(a, b) <=> m <= n
                             /\ SameDate(a, b) <=> m = n
<1>1. PICK ya \in Nat \ {0}, ma \in 1..12, da \in Nat \ {0} : a.year = ya /\ a.month = ma /\ a.day = da
    BY DatedParts
<1>2. PICK yb \in Nat \ {0}, mb \in 1..12, db \in Nat \ {0} : b.year = yb /\ b.month = mb /\ b.day = db
    BY DatedParts
<1>3. DayNumber(ya, ma, da) \in Int /\ DayNumber(yb, mb, db) \in Int
  <2>1. \A y \in Nat \ {0}, m \in 1..12, d \in Nat \ {0} : DayNumber(y, m, d) \in Int
    <3>. SUFFICES ASSUME NEW y \in Nat \ {0}, NEW m \in 1..12, NEW d \in Nat \ {0} PROVE DayNumber(y, m, d) \in Int
        OBVIOUS
    <3>0. d \in Int
        OBVIOUS
    <3>1. PICK p \in Int, l \in {0, 1} : Parts(y, m, d, p, l)
        BY <3>0, DayParts
    <3>2. Begin(m) \in Int /\ Epoch \in Int
        BY EpochIsNumber DEF Begin
    <3>. QED  BY <3>1, <3>2 DEF Parts
  <2>. QED  BY <2>1
<1>4. PICK m \in Int, n \in Int : m = DayNumber(a.year, a.month, a.day) /\ n = DayNumber(b.year, b.month, b.day)
    BY <1>1, <1>2, <1>3
<1>5. Earlier(a, b) => m < n
    BY <1>4, EarlierIsLess
<1>6. Earlier(b, a) => n < m
    BY <1>4, EarlierIsLess
<1>7. SameDate(a, b) => m = n
    BY <1>4 DEF SameDate
<1>8. Earlier(a, b) \/ Earlier(b, a) \/ SameDate(a, b)
    BY <1>1, <1>2 DEF Earlier, SameDate
<1>9. NotLater(a, b) <=> Earlier(a, b) \/ SameDate(a, b)
    BY <1>1, <1>2 DEF Earlier, NotLater, SameDate
<1>10. (Earlier(a, b) <=> m < n) /\ (NotLater(a, b) <=> m <= n) /\ (SameDate(a, b) <=> m = n)
    BY <1>5, <1>6, <1>7, <1>8, <1>9
<1>. QED  BY <1>4, <1>10

-----------------------------------------------------------------------------
(* Weekdays                                                                  *)

\* Whole weeks do not count.
LEMMA WholeWeeks ==
    ASSUME NEW a \in Int, NEW k \in Int
    PROVE  (a + 7 * k) % 7 = a % 7
OBVIOUS

\* Zeller's congruence without its remainder
ZellerSum(d) == LET early == d.month <= 2
                    y == IF early THEN d.year - 1 ELSE d.year
                    m == IF early THEN d.month + 12 ELSE d.month
                IN  d.day + ((13 * (m + 1)) \div 5) + y + (y \div 4) - (y \div 100) + (y \div 400)

\* It counts days from a Saturday.
LEMMA ZellerCounts ==
    ASSUME NEW d, Dated(d)
    PROVE  \E k \in Int : /\ ZellerSum(d) \in Int /\ DayNumber(d.year, d.month, d.day) \in Int
                          /\ DayNumber(d.year, d.month, d.day) + 5 = ZellerSum(d) + 7 * k
<1>1. PICK y \in Nat \ {0}, m \in 1..12, day \in Nat \ {0} : d.year = y /\ d.month = m /\ d.day = day
    BY DatedParts
<1>2. PICK z \in Nat : z = IF m <= 2 THEN y - 1 ELSE y
    OBVIOUS
<1>3. PICK mm \in Int : mm = IF m <= 2 THEN m + 12 ELSE m
    OBVIOUS
<1>4. PICK c \in Int : c = (z \div 4) - (z \div 100) + (z \div 400)
    OBVIOUS
<1>5. PICK a \in Int : a = (153 * ((m + 9) % 12) + 2) \div 5
    OBVIOUS
<1>6. PICK b \in Int : b = (13 * (mm + 1)) \div 5
    OBVIOUS
<1>7. DayNumber(y, m, day) = 365 * z + c + a + day - Epoch
  <2>1. DayNumber(y, m, day) = 365 * z + (z \div 4) - (z \div 100) + (z \div 400) + a + day - Epoch
      BY <1>2, <1>5 DEF DayNumber
  <2>2. /\ z \div 4 \in Int /\ z \div 100 \in Int /\ z \div 400 \in Int
      OBVIOUS
  <2>. QED  BY <1>4, <2>1, <2>2, EpochIsNumber
<1>8. ZellerSum(d) = day + b + z + c
  <2>1. ZellerSum(d) = day + b + z + (z \div 4) - (z \div 100) + (z \div 400)
      BY <1>1, <1>2, <1>3, <1>6 DEF ZellerSum
  <2>2. /\ z \div 4 \in Int /\ z \div 100 \in Int /\ z \div 400 \in Int
      OBVIOUS
  <2>. QED  BY <1>4, <2>1, <2>2
<1>9. m \in {1, 2, 3, 4, 5, 6, 7, 8, 9, 10, 11, 12}
    OBVIOUS
<1>10. PICK e \in Int : a - b = 7 * e + 4
  <2>1. (a - b) % 7 = 4
      BY <1>3, <1>5, <1>6, <1>9
  <2>. QED  BY <2>1
<1>11. PICK k \in Int : Epoch = 7 * k + 2
  <2>1. Epoch = 7 * 102781 + 2
      BY SMT DEF Epoch
  <2>2. 102781 \in Int
      BY SMT
  <2>. QED  BY <2>1, <2>2, SMT
<1>12. DayNumber(y, m, day) + 5 = ZellerSum(d) + 7 * (52 * z + e + 1 - k)
    BY <1>7, <1>8, <1>10, <1>11
<1>13. 52 * z + e + 1 - k \in Int /\ ZellerSum(d) \in Int /\ DayNumber(y, m, day) \in Int
    BY <1>7, <1>8, EpochIsNumber
<1>. QED  BY <1>1, <1>12, <1>13

\* In these zones local noon is on the same day in UTC,
LEMMA NoonInZone ==
    ASSUME NEW z \in -719..720
    PROVE  (60 * 12 - z) \div 1440 = 0
OBVIOUS

\* so the library's weekday is the one of the day.
LEMMA WeekdayIsOwn ==
    ASSUME NEW d, Dated(d), NEW z \in -719..720
    PROVE  (weekday(d, z) + 1) % 7 = Zeller(d)
<1>1. PICK s \in Int, n \in Int, k \in Int :
          s = ZellerSum(d) /\ n = DayNumber(d.year, d.month, d.day) /\ n + 5 = s + 7 * k
    BY ZellerCounts
<1>2. PICK o \in Int : o = (60 * 12 - z) \div 1440 /\ o = 0
    BY NoonInZone
<1>3. PICK w \in Int : w = n + o + 4
    OBVIOUS
<1>4. weekday(d, z) = w % 7
    BY <1>1, <1>2, <1>3 DEF weekday, LibraryWeekday
<1>5. Zeller(d) = s % 7
    BY <1>1 DEF Zeller, ZellerSum
<1>6. ((w % 7) + 1) % 7 = (w + 1) % 7
    OBVIOUS
<1>7. w + 1 = s + 7 * k
    BY <1>1, <1>2, <1>3
<1>8. (w + 1) % 7 = s % 7
    BY <1>7, WholeWeeks
<1>. QED  BY <1>4, <1>5, <1>6, <1>8

-----------------------------------------------------------------------------
(* Times as minutes, timespecs as nanoseconds *)

ATime(t) == t \in [hour : Nat, min : Nat] /\ validTime(t)

LEMMA TimesCompare ==
    ASSUME NEW a, ATime(a), NEW b, ATime(b)
    PROVE  \E m, n \in Int : /\ m = a.hour * 60 + a.min /\ n = b.hour * 60 + b.min
                             /\ Before(a, b) <=> m < n
                             /\ NotAfter(a, b) <=> m <= n
                             /\ SameTime(a, b) <=> m = n
                             /\ TimeMinus(a, b) = m - n
<1>1. PICK ha \in Nat, ma \in Nat : a.hour = ha /\ a.min = ma /\ ha <= 23 /\ ma <= 59
    BY DEF ATime, validTime
<1>2. PICK hb \in Nat, mb \in Nat : b.hour = hb /\ b.min = mb /\ hb <= 23 /\ mb <= 59
    BY DEF ATime, validTime
<1>3. PICK m \in Int : m = ha * 60 + ma
    OBVIOUS
<1>4. PICK n \in Int : n = hb * 60 + mb
    OBVIOUS
<1>5. Before(a, b) <=> m < n
    BY <1>1, <1>2, <1>3, <1>4 DEF Before
<1>6. NotAfter(a, b) <=> m <= n
    BY <1>1, <1>2, <1>3, <1>4 DEF NotAfter
<1>7. SameTime(a, b) <=> m = n
    BY <1>1, <1>2, <1>3, <1>4 DEF SameTime
<1>8. TimeMinus(a, b) = m - n
    BY <1>1, <1>2, <1>3, <1>4 DEF TimeMinus
<1>9. m = a.hour * 60 + a.min /\ n = b.hour * 60 + b.min
    BY <1>1, <1>2, <1>3, <1>4
<1>. QED  BY <1>5, <1>6, <1>7, <1>8, <1>9

\* A sum of minutes is the number of its minutes, up to midnight.
LEMMA MinutesAdded ==
    ASSUME NEW t, ATime(t), NEW n \in Nat
    PROVE  \E m \in Int :
              /\ m = t.hour * 60 + t.min
              /\ m + n >= 1440 => TimePlus(t, n) = NoTime
              /\ m + n < 1440 => /\ ATime(TimePlus(t, n)) /\ TimePlus(t, n).hour * 60 + TimePlus(t, n).min = m + n
<1>1. PICK h \in Nat, u \in Nat : t.hour = h /\ t.min = u /\ h <= 23 /\ u <= 59
    BY DEF ATime, validTime
<1>2. PICK s \in Nat : s = h * 60 + u + n
    OBVIOUS
<1>3. PICK q \in Nat, r \in Nat : q = s \div 60 /\ r = s % 60 /\ r <= 59 /\ s = 60 * q + r
    OBVIOUS
<1>4. TimePlus(t, n) = IF q > 23 THEN NoTime ELSE [hour |-> q, min |-> r]
    BY <1>1, <1>2, <1>3 DEF TimePlus
<1>5. q > 23 <=> s >= 1440
    BY <1>3
<1>6. PICK m \in Int : m = h * 60 + u
    OBVIOUS
<1>7. m + n = s
    BY <1>2, <1>6
<1>8. q <= 23 => ATime(TimePlus(t, n)) /\ TimePlus(t, n).hour * 60 + TimePlus(t, n).min = m + n
  <2>. SUFFICES ASSUME q <= 23 PROVE ATime(TimePlus(t, n)) /\ TimePlus(t, n).hour * 60 + TimePlus(t, n).min = m + n
      OBVIOUS
  <2>1. TimePlus(t, n) = [hour |-> q, min |-> r]
      BY <1>4
  <2>2. q * 60 + r = m + n
      BY <1>3, <1>7
  <2>3. TimePlus(t, n).hour = q /\ TimePlus(t, n).min = r
      BY <2>1
  <2>. QED  BY <1>3, <2>1, <2>2, <2>3 DEF ATime, validTime
<1>. QED  BY <1>1, <1>3, <1>4, <1>5, <1>6, <1>7, <1>8

ASpec(t) == t \in [sec : Int, nsec : Nat] /\ t.nsec < Second

\* The second decides over the nanoseconds.
LEMMA SecondDecides ==
    ASSUME NEW a \in Int, NEW b \in Int, a < b,
           NEW c \in Nat, NEW d \in Nat, c < Second
    PROVE  a * Second + c < b * Second + d
<1>1. Second \in Nat \ {0}
    BY TimespecAssumption
<1>2. PICK e \in Nat : b = a + 1 + e
  <2>1. b - a - 1 \in Nat /\ b = a + 1 + (b - a - 1)
      OBVIOUS
  <2>. QED  BY <2>1
<1>3. (a + 1 + e) * Second = a * Second + Second + e * Second
    BY <1>1
<1>4. a * Second \in Int /\ e * Second \in Nat
    BY <1>1
<1>. QED  BY <1>1, <1>2, <1>3, <1>4

Nanos(t) == t.sec * Second + t.nsec

LEMMA TimespecsCompare ==
    ASSUME NEW a, ASpec(a), NEW b, ASpec(b)
    PROVE  \E m, n \in Int : /\ m = Nanos(a) /\ n = Nanos(b)
                             /\ Less(a, b) <=> m < n
                             /\ AtMost(a, b) <=> m <= n
                             /\ Equal(a, b) <=> m = n
<1>1. PICK sa \in Int, na \in Nat : a.sec = sa /\ a.nsec = na /\ na < Second
    BY DEF ASpec
<1>2. PICK sb \in Int, nb \in Nat : b.sec = sb /\ b.nsec = nb /\ nb < Second
    BY DEF ASpec
<1>3. Second \in Nat
    BY TimespecAssumption
<1>4. PICK p \in Int : p = sa * Second
    BY <1>3
<1>5. PICK q \in Int : q = sb * Second
    BY <1>3
<1>6. PICK m \in Int : m = p + na /\ m = Nanos(a)
    BY <1>1, <1>4 DEF Nanos
<1>7. PICK n \in Int : n = q + nb /\ n = Nanos(b)
    BY <1>2, <1>5 DEF Nanos
<1>8. sa < sb => m < n
    BY <1>1, <1>2, <1>4, <1>5, <1>6, <1>7, SecondDecides
<1>9. sb < sa => n < m
    BY <1>1, <1>2, <1>4, <1>5, <1>6, <1>7, SecondDecides
<1>10. sa = sb => p = q
    BY <1>4, <1>5
<1>11. Less(a, b) <=> m < n
    BY <1>1, <1>2, <1>6, <1>7, <1>8, <1>9, <1>10 DEF Less
<1>12. Equal(a, b) <=> m = n
    BY <1>1, <1>2, <1>6, <1>7, <1>8, <1>9, <1>10 DEF Equal
<1>13. AtMost(a, b) <=> m <= n
    BY <1>11, <1>12 DEF AtMost
<1>. QED  BY <1>6, <1>7, <1>11, <1>12, <1>13

\* Sums carry and differences borrow a whole second.
LEMMA TimespecsAdded ==
    ASSUME NEW a, ASpec(a), NEW b, ASpec(b)
    PROVE  /\ ASpec(Added(a, b)) /\ Nanos(Added(a, b)) = Nanos(a) + Nanos(b)
           /\ ASpec(Subtracted(a, b)) /\ Nanos(Subtracted(a, b)) = Nanos(a) - Nanos(b)
<1>1. PICK sa \in Int, na \in Nat : a.sec = sa /\ a.nsec = na /\ na < Second
    BY DEF ASpec
<1>2. PICK sb \in Int, nb \in Nat : b.sec = sb /\ b.nsec = nb /\ nb < Second
    BY DEF ASpec
<1>3. Second \in Nat
    BY TimespecAssumption
<1>4. PICK p \in Int : p = sa * Second
    BY <1>3
<1>5. PICK q \in Int : q = sb * Second
    BY <1>3
<1>6. /\ (sa + sb) * Second = p + q /\ (sa + sb + 1) * Second = p + q + Second
      /\ (sa - sb) * Second = p - q /\ (sa - sb - 1) * Second = p - q - Second
    BY <1>3, <1>4, <1>5
<1>7. Nanos(a) = p + na /\ Nanos(b) = q + nb
    BY <1>1, <1>2, <1>4, <1>5 DEF Nanos
<1>8. PICK x \in Nat : x = na + nb
    OBVIOUS
<1>9. ASpec(Added(a, b)) /\ Nanos(Added(a, b)) = Nanos(a) + Nanos(b)
  <2>1. CASE x >= Second
    <3>1. Added(a, b) = [sec |-> sa + sb + 1, nsec |-> x - Second]
        BY <1>1, <1>2, <1>8, <2>1 DEF Added
    <3>2. Added(a, b).sec = sa + sb + 1 /\ Added(a, b).nsec = x - Second
        BY <3>1
    <3>3. Nanos(Added(a, b)) = (p + q + Second) + (x - Second)
        BY <1>6, <3>2 DEF Nanos
    <3>4. x - Second \in Nat /\ x - Second < Second
        BY <1>1, <1>2, <1>3, <1>8, <2>1
    <3>. QED  BY <1>3, <1>7, <1>8, <3>1, <3>3, <3>4 DEF ASpec
  <2>2. CASE ~(x >= Second)
    <3>1. Added(a, b) = [sec |-> sa + sb, nsec |-> x]
        BY <1>1, <1>2, <1>8, <2>2 DEF Added
    <3>2. Added(a, b).sec = sa + sb /\ Added(a, b).nsec = x
        BY <3>1
    <3>3. Nanos(Added(a, b)) = (p + q) + x
        BY <1>6, <3>2 DEF Nanos
    <3>. QED  BY <1>3, <1>7, <1>8, <2>2, <3>1, <3>3 DEF ASpec
  <2>. QED  BY <2>1, <2>2
<1>10. ASpec(Subtracted(a, b)) /\ Nanos(Subtracted(a, b)) = Nanos(a) - Nanos(b)
  <2>1. CASE na < nb
    <3>1. Subtracted(a, b) = [sec |-> sa - sb - 1, nsec |-> na + Second - nb]
        BY <1>1, <1>2, <2>1 DEF Subtracted
    <3>2. Subtracted(a, b).sec = sa - sb - 1 /\ Subtracted(a, b).nsec = na + Second - nb
        BY <3>1
    <3>3. Nanos(Subtracted(a, b)) = (p - q - Second) + (na + Second - nb)
        BY <1>6, <3>2 DEF Nanos
    <3>4. na + Second - nb \in Nat /\ na + Second - nb < Second
        BY <1>1, <1>2, <1>3, <2>1
    <3>. QED  BY <1>3, <1>7, <3>1, <3>3, <3>4 DEF ASpec
  <2>2. CASE ~(na < nb)
    <3>1. Subtracted(a, b) = [sec |-> sa - sb, nsec |-> na - nb]
        BY <1>1, <1>2, <2>2 DEF Subtracted
    <3>2. Subtracted(a, b).sec = sa - sb /\ Subtracted(a, b).nsec = na - nb
        BY <3>1
    <3>3. Nanos(Subtracted(a, b)) = (p - q) + (na - nb)
        BY <1>6, <3>2 DEF Nanos
    <3>4. na - nb \in Nat /\ na - nb < Second
        BY <1>1, <1>2, <1>3, <2>2
    <3>. QED  BY <1>3, <1>7, <3>1, <3>3, <3>4 DEF ASpec
  <2>. QED  BY <2>1, <2>2
<1>. QED  BY <1>9, <1>10

-----------------------------------------------------------------------------
(* Types *)

LEMMA TimespecTypeStep ==
    ASSUME TimespecTypeOK, TimespecNext
    PROVE  TimespecTypeOK'
<1>0. Second \in Nat \ {0} /\ Timespecs \subseteq [sec : Int, nsec : 0..(Second - 1)]
    BY TimespecAssumption
<1>s. \A n \in 0..(Second - 1) : n \in Nat /\ n < Second
    BY <1>0
<1>1. ASpec(ts)
    BY <1>s DEF TimespecTypeOK, ASpec
<1>2. \A t \in Timespecs : ASpec(t)
    BY <1>0, <1>s DEF ASpec
<1>3. \A t : ASpec(t) => t \in [sec : Int, nsec : 0..(Second - 1)]
    BY <1>0 DEF ASpec
<1>4. ASpec(ts')
    BY <1>1, <1>2, TimespecsAdded DEF TimespecNext, ReadClock, Advance, GoBack
<1>. QED  BY <1>3, <1>4 DEF TimespecTypeOK

\* A text of digits is one of a text's.
LEMMA TextOfDigits ==
    ASSUME NEW s \in Seq(Character), ToSet(s) \subseteq Digit
    PROVE  s \in Seq(Digit)
<1>1. Len(s) \in Nat /\ s = [i \in 1..Len(s) |-> s[i]]
    BY LenProperties
<1>2. \A i \in 1..Len(s) : s[i] \in Digit
    BY <1>1, LenProperties DEF ToSet
<1>. QED  BY <1>1, <1>2

LEMMA ReadTimeType ==
    ASSUME NEW s \in Seq(Character)
    PROVE  ReadTime(s) \in [hour : 0..23 \cup {255}, min : 0..59 \cup {255}]
<1>. DEFINE times == {[hour |-> Stoi(SubSeq(s, 1, i - 1)), min |-> Stoi(SubSeq(s, i + 1, Len(s)))] :
                         i \in {j \in DOMAIN s : Matches(s, j)}}
<1>0. Len(s) \in Nat /\ DOMAIN s = 1..Len(s)
    BY LenProperties
<1>1. ASSUME NEW i \in DOMAIN s, Matches(s, i)
      PROVE  Stoi(SubSeq(s, 1, i - 1)) \in Nat /\ Stoi(SubSeq(s, i + 1, Len(s))) \in Nat
  <2>1. SubSeq(s, 1, i - 1) \in Seq(Character) /\ SubSeq(s, i + 1, Len(s)) \in Seq(Character)
    <3>1. \A j \in 1..(i - 1) : s[j] \in Character
        BY <1>0, ElementOfSeq
    <3>2. \A j \in (i + 1)..Len(s) : s[j] \in Character
        BY <1>0, ElementOfSeq
    <3>. QED  BY <1>0, <3>1, <3>2, SubSeqProperties
  <2>2. \A d \in Seq(Character) : Len(d) \in {1, 2} /\ ToSet(d) \subseteq Digit => Stoi(d) \in Nat
    <3>. SUFFICES ASSUME NEW d \in Seq(Character), Len(d) \in {1, 2}, ToSet(d) \subseteq Digit PROVE Stoi(d) \in Nat
        OBVIOUS
    <3>1. d \in Seq(Digit)
        BY TextOfDigits
    <3>2. \A n \in {1, 2} : n # 0 /\ n <= 4
        OBVIOUS
    <3>3. d # <<>>
        BY <3>2, EmptySeq
    <3>4. Len(d) <= 4
        BY <3>2
    <3>. QED  BY <3>1, <3>3, <3>4, StoiOfDigits, ShortNumber
  <2>. QED  BY <1>1, <2>1, <2>2 DEF Matches
<1>2. \A t \in times : t \in [hour : Nat, min : Nat]
    BY <1>1
<1>3. ReadTime(s) = IF Len(s) \in 3..5 /\ \E t \in times : validTime(t) THEN CHOOSE t \in times : validTime(t) ELSE NoTime
    BY DEF ReadTime
<1>. HIDE DEF times
<1>4. ReadTime(s) = NoTime \/ (ReadTime(s) \in times /\ validTime(ReadTime(s)))
    BY <1>3
<1>5. \A t \in [hour : Nat, min : Nat] : validTime(t) => t \in [hour : 0..23 \cup {255}, min : 0..59 \cup {255}]
  <2>. SUFFICES ASSUME NEW t \in [hour : Nat, min : Nat], validTime(t)
                PROVE  t \in [hour : 0..23 \cup {255}, min : 0..59 \cup {255}]
      OBVIOUS
  <2>1. PICK h \in Nat, m \in Nat : t.hour = h /\ t.min = m
      OBVIOUS
  <2>2. h <= 23 /\ m <= 59
      BY <2>1 DEF validTime
  <2>3. t = [hour |-> h, min |-> m]
      BY <2>1
  <2>4. h \in 0..23 /\ m \in 0..59
      BY <2>2
  <2>. QED  BY <2>3, <2>4
<1>6. NoTime \in [hour : 0..23 \cup {255}, min : 0..59 \cup {255}]
    BY DEF NoTime
<1>. QED  BY <1>2, <1>4, <1>5, <1>6

LEMMA TimeTypeStep ==
    ASSUME TimeTypeOK, TimeNext
    PROVE  TimeTypeOK'
<1>. DEFINE T == [hour : 0..23 \cup {255}, min : 0..59 \cup {255}]
<1>0. NoTime \in T
    BY DEF NoTime
<1>1. \A h \in Hours : SetHour(h) => time' \in T
  <2>1. \A h \in Hours : h <= 23 => h \in 0..23
      BY NaiveTimeAssumption
  <2>. QED  BY <2>1 DEF SetHour, TimeTypeOK
<1>2. \A m \in Minutes : SetMinute(m) => time' \in T
  <2>1. \A m \in Minutes : m <= 59 => m \in 0..59
      BY NaiveTimeAssumption
  <2>. QED  BY <2>1 DEF SetMinute, TimeTypeOK
<1>3. ASSUME NEW s \in TimeTexts, AssignTime(s) PROVE time' \in T
  <2>1. s \in Seq(Character)
      BY NaiveTimeAssumption
  <2>2. ReadTime(s) \in T
      BY <2>1, <1>0, ReadTimeType
  <2>. QED  BY <1>3, <2>2 DEF AssignTime
<1>4. ASSUME NEW n \in Amounts, Add(n) PROVE time' \in T
  <2>1. n \in Nat
    <3>1. MaxAmount \in Int
        BY SMT DEF MaxAmount
    <3>. QED  BY <3>1, NaiveTimeAssumption
  <2>2. ATime(time)
      BY <1>4 DEF Add, TimeTypeOK, ATime
  <2>3. TimePlus(time, n) = NoTime \/ ATime(TimePlus(time, n))
      BY <2>1, <2>2, MinutesAdded
  <2>4. \A t : ATime(t) => t \in T
      BY DEF ATime, validTime
  <2>. QED  BY <1>4, <2>3, <2>4 DEF Add
<1>5. ResetTime => time' \in T
    BY <1>0 DEF ResetTime
<1>. QED  BY <1>1, <1>2, <1>3, <1>4, <1>5 DEF TimeNext, TimeTypeOK

DateValues == [year : {0} \cup 1900..MaxYear, month : 0..12, day : 0..31]

LEMMA MaxYearIsLarge ==
    MaxYear \in Int /\ 9999 <= MaxYear
BY SMT DEF MaxYear

\* What is read is a date.
LEMMA ReadDateType ==
    ASSUME NEW s \in Seq(Character), ReadDate(s) # Unset
    PROVE  ReadDate(s) \in DateValues
<1>1. PICK y, m, d : y = Stoi(SubSeq(s, 1, 4)) /\ m = Stoi(SubSeq(s, 6, 7)) /\ d = Stoi(SubSeq(s, 9, 10))
    OBVIOUS
<1>2. PICK v : v = [year |-> y, month |-> m, day |-> d]
    OBVIOUS
<1>3. Len(s) = 10 /\ d \in 1..31 /\ valid(v) /\ ReadDate(s) = v
    BY <1>1, <1>2 DEF ReadDate
<1>4. \A i \in 1..4 : s[i] \in Character
  <2>1. \A i \in 1..Len(s) : s[i] \in Character
      BY ElementOfSeq
  <2>2. \A i \in 1..4 : i \in 1..10
      OBVIOUS
  <2>. QED  BY <1>3, <2>1, <2>2
<1>5. SubSeq(s, 1, 4) \in Seq(Character) /\ Len(SubSeq(s, 1, 4)) = 4
  <2>1. 1 \in Int /\ 4 \in Int /\ 1 <= 4 + 1
      OBVIOUS
  <2>2. /\ SubSeq(s, 1, 4) \in Seq(Character)
        /\ Len(SubSeq(s, 1, 4)) = IF 1 <= 4 THEN 4 - 1 + 1 ELSE 0
      BY <1>4, <2>1, SubSeqProperties
  <2>. QED  BY <2>2
<1>6. y \in Int /\ y <= 9999
  <2>1. PICK t : t = SubSeq(s, 1, 4)
      OBVIOUS
  <2>2. t \in Seq(Character) /\ Len(t) <= 4
      BY <1>5, <2>1
  <2>3. Stoi(t) \in Int /\ Stoi(t) <= 9999
      BY ONLY <2>2, StoiIsShort
  <2>. QED  BY <1>1, <2>1, <2>3
<1>7. y >= 1900 /\ m \in 1..12
    BY <1>2, <1>3 DEF valid
<1>8. y \in 1900..MaxYear
    BY <1>6, <1>7, MaxYearIsLarge
<1>. QED  BY <1>2, <1>3, <1>7, <1>8 DEF DateValues

\* No month of the real calendar has more than 31 days.
LEMMA MonthIsShort ==
    ASSUME NEW y \in Nat \ {0}, NEW m \in 1..12
    PROVE  MonthLength(y, m) \in Int /\ MonthLength(y, m) <= 31
<1>1. PICK p \in Int, l \in {0, 1} : Parts(y, m, 1, p, l)
    BY DayParts, SMTT(30)
<1>2. Epoch \in Int
    BY EpochIsNumber
<1>3. CASE m = 12
  <2>1. y + 1 \in Nat \ {0} /\ y + 1 - 1 = y
      OBVIOUS
  <2>2. PICK q \in Int : q = YearDays(y) /\ q = p + 365 + l
      BY <1>1, YearLength DEF Parts, LeapDay
  <2>3. DayNumber(y + 1, 1, 1) = q + 306 + 0 + 1 - Epoch
    <3>1. PICK z \in Nat \ {0} : z = y + 1 /\ z - 1 = y
        OBVIOUS
    <3>2. 1 \in 1..12 /\ 1 \in Int /\ Begin(1) = 306
        BY DEF Begin
    <3>3. DayNumber(z, 1, 1) = YearDays(z - 1) + Begin(1) + (IF 1 <= 2 THEN 0 ELSE LeapDay(z)) + 1 - Epoch
        BY <3>2, DayIs
    <3>4. YearDays(z - 1) = q
        BY <2>2, <3>1
    <3>6. PICK k \in Int : k = LeapDay(z)
        BY DEF LeapDay
    <3>5. DayNumber(z, 1, 1) = q + 306 + 0 + 1 - Epoch
        BY <1>2, <3>2, <3>3, <3>4, <3>6
    <3>. QED  BY <3>1, <3>5
  <2>4. DayNumber(y, 12, 1) = p + 640 + l + 1 - Epoch
      BY <1>1, <1>3 DEF Parts, Begin
  <2>5. MonthLength(y, 12) = DayNumber(y + 1, 1, 1) - DayNumber(y, 12, 1)
      BY DEF MonthLength
  <2>. QED  BY <1>2, <1>3, <2>2, <2>3, <2>4, <2>5
<1>4. CASE m # 12
  <2>1. m + 1 \in 1..12
      BY <1>4
  <2>2. PICK q \in Int, k \in {0, 1} : Parts(y, m + 1, 1, q, k)
      BY <2>1, DayParts, SMTT(30)
  <2>3. q = p /\ k = l
      BY <1>1, <2>2 DEF Parts
  <2>4. DayNumber(y, m, 1) = p + Begin(m) + (IF m <= 2 THEN 0 ELSE l) + 1 - Epoch
      BY <1>1 DEF Parts
  <2>5. DayNumber(y, m + 1, 1) = p + Begin(m + 1) + (IF m + 1 <= 2 THEN 0 ELSE l) + 1 - Epoch
      BY <2>2, <2>3 DEF Parts
  <2>6. m \in {1, 2, 3, 4, 5, 6, 7, 8, 9, 10, 11}
      BY <1>4
  <2>7. PICK b \in Int, c \in Int : b = Begin(m) /\ c = Begin(m + 1) /\ (m = 2 => c - b = 28) /\ c - b <= 31
      BY <2>6 DEF Begin
  <2>8. MonthLength(y, m) = DayNumber(y, m + 1, 1) - DayNumber(y, m, 1)
      BY <1>4 DEF MonthLength
  <2>9. MonthLength(y, m) = c - b + (IF m = 2 THEN l ELSE 0)
      BY <1>2, <2>4, <2>5, <2>6, <2>7, <2>8
  <2>. QED  BY <2>7, <2>9
<1>. QED  BY <1>3, <1>4

LEMMA DateTypeStep ==
    ASSUME DateTypeOK, DateNext
    PROVE  DateTypeOK'
<1>0. DateTypeOK <=> date \in DateValues
    BY DEF DateTypeOK, DateValues
<1>a. /\ \A y \in Years : y \in Int /\ 0 <= y /\ y <= MaxYear
      /\ Months \subseteq Int /\ Days \subseteq Int
    BY MaxYearIsLarge, NaiveDateAssumption
<1>1. \A y \in Years : SetYear(y) => date' \in DateValues
  <2>1. \A y \in Years : y >= 1900 => y \in 1900..MaxYear
      BY <1>a, MaxYearIsLarge
  <2>. QED  BY <1>0, <2>1 DEF SetYear, DateValues
<1>2. \A m \in Months : SetMonth(m) => date' \in DateValues
    BY <1>0 DEF SetMonth, DateValues
<1>3. \A d \in Days : SetDay(d) => date' \in DateValues
    BY <1>0 DEF SetDay, DateValues
<1>4. \A s \in DateTexts : Read(s) => date' \in DateValues
    BY NaiveDateAssumption, ReadDateType DEF Read
<1>5. Reset => date' \in DateValues
    BY MaxYearIsLarge DEF Reset, Unset, DateValues
<1>6. ASSUME Today PROVE date' \in DateValues
  <2>1. PICK y \in Years, m \in Months, d \in Days : date' = [year |-> y, month |-> m, day |-> d]
      BY <1>6 DEF Today
  <2>2. y >= 1900 /\ m \in 1..12 /\ d \in 1..MonthLength(y, m)
      BY <1>6, <2>1 DEF Today, Exists
  <2>3. y \in Nat \ {0} /\ y \in 1900..MaxYear
      BY <1>a, <2>2, MaxYearIsLarge
  <2>4. MonthLength(y, m) \in Int /\ MonthLength(y, m) <= 31
      BY <2>2, <2>3, MonthIsShort
  <2>5. d \in 1..31
      BY <2>2, <2>4
  <2>. QED  BY <2>1, <2>2, <2>3, <2>5 DEF DateValues
<1>7. date' \in DateValues
    BY <1>1, <1>2, <1>3, <1>4, <1>5, <1>6 DEF DateNext
<1>. QED  BY <1>7 DEF DateTypeOK, DateValues

-----------------------------------------------------------------------------
(* The replaced codes of a text                                              *)

Word == STRING

\* Words that have a length
Words == {w \in Seq(Word) : \A i \in DOMAIN w : Len(w[i]) \in Nat}

\* They join like texts.
LEMMA WordsJoin ==
    \A x, y, z \in Seq(Word) : (x \o y) \o z = x \o (y \o z)
<1>. SUFFICES ASSUME NEW x \in Seq(Word), NEW y \in Seq(Word), NEW z \in Seq(Word)
              PROVE  (x \o y) \o z = x \o (y \o z)
    OBVIOUS
<1>. QED  BY ConcatAssociative

\* Their size adds up.
LEMMA SizesAdd ==
    ASSUME NEW d \in Words
    PROVE  \E p \in [0..Len(d) -> Nat] :
              /\ p[0] = 0 /\ \A n \in 1..Len(d) : p[n] = p[n - 1] + Len(d[n])
              /\ Size(d) = p[Len(d)]
<1>. DEFINE N == Len(d)
            g == [i \in 1..N |-> [v \in Nat |-> v + Len(d[i])]]
            Body(k) == [x \in SUBSET DOMAIN d |-> IF x = {} THEN 0 ELSE k[x \ {Max(x)}] + Len(d[Max(x)])]
<1>0. d \in Seq(Word) /\ \A i \in DOMAIN d : Len(d[i]) \in Nat
    BY DEF Words
<1>1. N \in Nat /\ DOMAIN d = 1..N /\ \A i \in 1..N : Len(d[i]) \in Nat
    BY <1>0, LenProperties
<1>2. g \in [1..N -> [Nat -> Nat]]
  <2>1. \A i \in 1..N, v \in Nat : v + Len(d[i]) \in Nat
      BY <1>1
  <2>. HIDE DEF N
  <2>. QED  BY <2>1
<1>3. \A i \in 1..N, v \in Nat : g[i][v] = v + Len(d[i])
    OBVIOUS
<1>4. PICK f \in [SUBSET (1..N) -> Nat] : GoesThrough(f, N, 0, g)
  <2>. HIDE DEF N, g
  <2>. QED  BY <1>1, <1>2, SetRecursion
<1>. HIDE DEF g, N
<1>5. \A x \in SUBSET (1..N) : x # {} => Max(x) \in 1..N /\ x \ {Max(x)} \in SUBSET (1..N)
    BY <1>1, LargestNumber
<1>6. \A x \in SUBSET (1..N) : f[x] = IF x = {} THEN 0 ELSE f[x \ {Max(x)}] + Len(d[Max(x)])
    BY <1>3, <1>4, <1>5 DEF GoesThrough
<1>7. f = Body(f)
    BY <1>1, <1>6
<1>8. PICK h : h = CHOOSE k : k = Body(k)
    OBVIOUS
<1>9. h = Body(h)
  <2>. HIDE DEF Body
  <2>. QED  BY <1>7, <1>8
<1>10. Size(d) = h[DOMAIN d]
    BY <1>8 DEF FoldLeft, MapThenFoldSet, Size
<1>11. h[{}] = 0 /\ \A x \in SUBSET (1..N) : x # {} => h[x] = h[x \ {Max(x)}] + Len(d[Max(x)])
    BY <1>1, <1>9
<1>. DEFINE p == [n \in 0..N |-> h[1..n]]
<1>12. p[0] = 0
    BY <1>1, <1>11
<1>13. \A n \in 1..N : p[n] = p[n - 1] + Len(d[n])
  <2>. SUFFICES ASSUME NEW n \in 1..N PROVE p[n] = p[n - 1] + Len(d[n])
      OBVIOUS
  <2>1. Max(1..n) = n /\ (1..n) \ {n} = 1..(n - 1) /\ 1..n # {} /\ 1..n \in SUBSET (1..N)
      BY <1>1, LargestIsLast
  <2>2. n \in 0..N /\ n - 1 \in 0..N
      BY <1>1
  <2>3. h[1..n] = h[1..(n - 1)] + Len(d[n])
      BY <1>11, <2>1
  <2>. QED  BY <2>2, <2>3
<1>14. Size(d) = p[N]
    BY <1>1, <1>10
<1>. HIDE DEF p
<1>15. \A n \in 0..N : p[n] \in Nat
  <2>. DEFINE T == {n \in 0..N : p[n] \in Nat}
  <2>1. 0 \in T
      BY <1>1, <1>12
  <2>2. ASSUME NEW n \in 1..N, n - 1 \in T PROVE n \in T
    <3>1. PICK x \in Nat : x = p[n - 1]
        BY <2>2
    <3>2. PICK y \in Nat : y = Len(d[n])
        BY <1>1
    <3>3. p[n] = x + y /\ n \in 0..N
        BY <1>1, <1>13, <3>1, <3>2
    <3>. QED  BY <3>3
  <2>3. T = 0..N
    <3>1. T \in SUBSET (0..N)
        OBVIOUS
    <3>. HIDE DEF T
    <3>. QED  BY <1>1, <2>1, <2>2, <3>1, UpTo
  <2>. QED  BY <2>3
<1>16. p \in [0..N -> Nat]
    BY <1>15 DEF p
<1>. QED  BY <1>12, <1>13, <1>14, <1>16 DEF N

LEMMA SizeIsNumber ==
    ASSUME NEW d \in Words
    PROVE  Size(d) \in Nat
<1>1. Len(d) \in Nat /\ Len(d) \in 0..Len(d)
    BY LenProperties DEF Words
<1>. QED  BY <1>1, SizesAdd

LEMMA OneItem ==
    ASSUME NEW S, NEW c \in S
    PROVE  <<c>> \in Seq(S) /\ Len(<<c>>) = 1 /\ <<c>>[1] = c
OBVIOUS

LEMMA SizeOfOne ==
    ASSUME NEW c \in Word, Len(c) \in Nat
    PROVE  Size(<<c>>) = Len(c)
<1>1. PICK d : d = <<c>>
    OBVIOUS
<1>2. d \in Seq(Word) /\ Len(d) = 1 /\ d[1] = c /\ DOMAIN d = {1}
  <2>1. <<c>> \in Seq(Word) /\ Len(<<c>>) = 1 /\ <<c>>[1] = c
      BY OneItem
  <2>2. d \in Seq(Word) /\ Len(d) = 1 /\ d[1] = c
      BY <1>1, <2>1
  <2>3. DOMAIN d = 1..1
      BY <2>2, LenProperties
  <2>4. 1..1 = {1}
      OBVIOUS
  <2>. QED  BY <2>2, <2>3, <2>4
<1>3. d \in Words
    BY <1>2 DEF Words
<1>4. PICK p \in [0..Len(d) -> Nat] :
              /\ p[0] = 0 /\ \A n \in 1..Len(d) : p[n] = p[n - 1] + Len(d[n])
              /\ Size(d) = p[Len(d)]
    BY <1>3, SizesAdd
<1>5. PICK l \in Nat : l = Len(c)
    OBVIOUS
<1>6. p[1] = p[1 - 1] + Len(d[1]) /\ 1 - 1 = 0
  <2>1. 1 \in 1..Len(d) /\ 1 - 1 = 0
      BY <1>2
  <2>. QED  BY <1>4, <2>1
<1>7. p[1] = 0 + l
    BY <1>2, <1>4, <1>5, <1>6
<1>. QED  BY <1>1, <1>2, <1>4, <1>5, <1>7

\* What stands for each word of a text, once the codes at the places R are replaced
Piece(s, R, i) == CASE i \in R                    -> <<hcerc2asc[s[i + 1]]>>
                    [] i - 1 \in R \/ i - 2 \in R -> <<>>
                    [] OTHER                      -> <<s[i]>>
Pieces(s, R) == [i \in DOMAIN s |-> Piece(s, R, i)]

\* The places of a code
LEMMA CodePlaces ==
    ASSUME NEW s \in Seq(Word), NEW i \in CodesAt(s)
    PROVE  /\ i \in 1..Len(s) /\ i + 1 \in 1..Len(s) /\ i + 2 \in 1..Len(s)
           /\ s[i] = "&" /\ s[i + 1] \in Codes /\ s[i + 2] = ";"
           /\ s[i + 1] # "&" /\ s[i + 1] # ";"
<1>1. i \in 1..(Len(s) - 2) /\ s[i] = "&" /\ s[i + 1] \in Codes /\ s[i + 2] = ";"
    BY DEF CodesAt
<1>2. PICK L \in Nat : L = Len(s)
    BY LenProperties
<1>3. i \in 1..L /\ i + 1 \in 1..L /\ i + 2 \in 1..L
  <2>1. i \in 1..(L - 2)
      BY <1>1, <1>2
  <2>. QED  BY <2>1
<1>4. s[i + 1] # "&" /\ s[i + 1] # ";"
    BY <1>1, EntitiesAssumption
<1>. QED  BY <1>1, <1>2, <1>3, <1>4

LEMMA PiecesAre ==
    ASSUME NEW s \in Seq(Word), NEW R \in SUBSET CodesAt(s)
    PROVE  /\ Pieces(s, R) \in Seq(Seq(Word)) /\ Len(Pieces(s, R)) = Len(s)
           /\ Plain(s, R) = FlattenSeq(Pieces(s, R))
           /\ \A i \in 1..Len(s) : Pieces(s, R)[i] = Piece(s, R, i)
           /\ \A i \in R : /\ Piece(s, R, i) = <<hcerc2asc[s[i + 1]]>> /\ hcerc2asc[s[i + 1]] \in Word
                           /\ Piece(s, R, i + 1) = <<>> /\ Piece(s, R, i + 2) = <<>>
           /\ \A i \in 1..Len(s) : i \notin R /\ i - 1 \notin R /\ i - 2 \notin R => Piece(s, R, i) = <<s[i]>>
<1>1. Len(s) \in Nat /\ DOMAIN s = 1..Len(s) /\ \A i \in 1..Len(s) : s[i] \in Word
    BY LenProperties, ElementOfSeq
<1>2. \A i \in R : /\ i \in 1..Len(s) /\ i + 1 \in 1..Len(s) /\ i + 2 \in 1..Len(s)
                   /\ s[i] = "&" /\ s[i + 1] \in Codes /\ s[i + 2] = ";"
                   /\ s[i + 1] # "&" /\ s[i + 1] # ";"
    BY CodePlaces
<1>3. \A c \in Codes : hcerc2asc[c] \in Word
    BY EntitiesAssumption DEF Word
<1>i. R \subseteq Int
  <2>1. \A i \in 1..Len(s) : i \in Int
      BY <1>1
  <2>. QED  BY <1>2, <2>1
<1>4. ASSUME NEW i \in R PROVE i + 1 \notin R /\ i + 2 \notin R /\ i - 1 \notin R /\ i - 2 \notin R
  <2>1. i \in Int /\ i - 1 + 1 = i /\ i - 2 + 2 = i
    <3>1. i \in Int
        BY <1>i
    <3>. QED  BY <3>1
  <2>2. s[i] = "&" /\ s[i + 1] # "&" /\ s[i + 2] = ";"
      BY <1>2
  <2>3. i - 1 \in R => s[i] # "&"
    <3>1. i - 1 \in R => s[i - 1 + 1] # "&"
        BY <1>2
    <3>. QED  BY <2>1, <3>1
  <2>4. i - 2 \in R => s[i] = ";"
    <3>1. i - 2 \in R => s[i - 2 + 2] = ";"
        BY <1>2
    <3>. QED  BY <2>1, <3>1
  <2>5. i + 1 \in R => s[i + 1] = "&"
      BY <1>2
  <2>6. i + 2 \in R => s[i + 2] = "&"
      BY <1>2
  <2>. QED  BY <2>2, <2>3, <2>4, <2>5, <2>6
<1>5. \A i \in R : i - 1 + 1 = i /\ i + 1 - 1 = i /\ i + 2 - 2 = i
    BY <1>i
<1>6. \A j : j \in R /\ ~(j - 1 \in R \/ j - 2 \in R) => Piece(s, R, j) = <<hcerc2asc[s[j + 1]]>>
    BY DEF Piece
<1>7. \A j : j \notin R /\ (j - 1 \in R \/ j - 2 \in R) => Piece(s, R, j) = <<>>
    BY DEF Piece
<1>8. \A j : j \notin R /\ ~(j - 1 \in R \/ j - 2 \in R) => Piece(s, R, j) = <<s[j]>>
    BY DEF Piece
<1>9. ASSUME NEW i \in 1..Len(s) PROVE Piece(s, R, i) \in Seq(Word)
  <2>1. CASE i \in R
    <3>1. Piece(s, R, i) = <<hcerc2asc[s[i + 1]]>>
        BY <1>4, <1>6, <2>1
    <3>2. s[i + 1] \in Codes
        BY <1>2, <2>1
    <3>3. hcerc2asc[s[i + 1]] \in Word
        BY <1>3, <3>2
    <3>. QED  BY <3>1, <3>3, OneItem
  <2>2. CASE i \notin R /\ (i - 1 \in R \/ i - 2 \in R)
    <3>1. Piece(s, R, i) = <<>>
        BY <1>7, <2>2
    <3>. QED  BY <3>1, EmptySeq
  <2>3. CASE i \notin R /\ ~(i - 1 \in R \/ i - 2 \in R)
    <3>1. Piece(s, R, i) = <<s[i]>>
        BY <1>8, <2>3
    <3>2. s[i] \in Word
        BY <1>1
    <3>. QED  BY <3>1, <3>2, OneItem
  <2>. QED  BY <2>1, <2>2, <2>3
<1>10. /\ Pieces(s, R) \in Seq(Seq(Word)) /\ Len(Pieces(s, R)) = Len(s)
       /\ \A i \in 1..Len(s) : Pieces(s, R)[i] = Piece(s, R, i)
    BY <1>1, <1>9 DEF Pieces
<1>11. Plain(s, R) = FlattenSeq(Pieces(s, R))
    BY DEF Plain, Pieces, Piece
<1>12. ASSUME NEW i \in R
       PROVE  /\ Piece(s, R, i) = <<hcerc2asc[s[i + 1]]>> /\ hcerc2asc[s[i + 1]] \in Word
              /\ Piece(s, R, i + 1) = <<>> /\ Piece(s, R, i + 2) = <<>>
  <2>1. Piece(s, R, i) = <<hcerc2asc[s[i + 1]]>> /\ hcerc2asc[s[i + 1]] \in Word
    <3>1. s[i + 1] \in Codes
        BY <1>2
    <3>. QED  BY <1>3, <1>4, <1>6, <3>1
  <2>2. i + 1 \notin R /\ i + 1 - 1 \in R
      BY <1>4, <1>5
  <2>3. i + 2 \notin R /\ i + 2 - 2 \in R
      BY <1>4, <1>5
  <2>4. Piece(s, R, i + 1) = <<>>
    <3>1. PICK m \in Int : m = i + 1 /\ m - 1 = i
        BY <1>i
    <3>2. m \notin R /\ m - 1 \in R
        BY <2>2, <3>1
    <3>. QED  BY <1>7, <3>1, <3>2
  <2>5. Piece(s, R, i + 2) = <<>>
    <3>1. PICK m \in Int : m = i + 2 /\ m - 2 = i
        BY <1>i
    <3>2. m \notin R /\ m - 2 \in R
        BY <2>3, <3>1
    <3>. QED  BY <1>7, <3>1, <3>2
  <2>. QED  BY <2>1, <2>4, <2>5
<1>. QED  BY <1>8, <1>10, <1>11, <1>12

-----------------------------------------------------------------------------
(* Sequences that are joined                                                 *)

LEMMA OneBehind ==
    ASSUME NEW S, NEW x \in Seq(S), NEW y \in Seq(S), NEW e \in S
    PROVE  (x \o y) \o <<e>> = x \o (y \o <<e>>)
<1>1. PICK z \in Seq(S) : z = <<e>>
    BY OneItem
<1>2. (x \o y) \o z = x \o (y \o z)
    BY WordsJoin
<1>. QED  BY <1>1, <1>2

\* What is joined of pieces that are alike is alike.
LEMMA JoinedAlike ==
    ASSUME NEW S, NEW a \in Seq(Seq(S)), NEW b \in Seq(Seq(S)), NEW k \in Nat, k <= Len(a), k <= Len(b),
           \A i \in 1..k : a[i] = b[i],
           NEW p, Joins(p, a), NEW q, Joins(q, b)
    PROVE  \A i \in 0..k : p[i] = q[i]
<1>1. Len(a) \in Nat /\ Len(b) \in Nat
    BY LenProperties
<1>. DEFINE T == {i \in 0..k : p[i] = q[i]}
<1>2. 0 \in T
    BY DEF Joins
<1>3. ASSUME NEW i \in 1..k, i - 1 \in T PROVE i \in T
  <2>1. i \in 1..Len(a) /\ i \in 1..Len(b) /\ i \in 0..k
      BY <1>1
  <2>2. p[i] = p[i - 1] \o a[i] /\ q[i] = q[i - 1] \o b[i]
      BY <2>1 DEF Joins
  <2>. QED  BY <1>3, <2>1, <2>2
<1>4. T = 0..k
  <2>1. T \in SUBSET (0..k)
      OBVIOUS
  <2>. HIDE DEF T
  <2>. QED  BY <1>2, <1>3, <2>1, UpTo
<1>. QED  BY <1>4

\* From where the pieces are those of a sequence, it follows as it is.
LEMMA JoinedRest ==
    ASSUME NEW S, NEW a \in Seq(Seq(S)), NEW s \in Seq(S), Len(a) = Len(s),
           NEW k \in 1..(Len(s) + 1), \A i \in k..Len(s) : a[i] = <<s[i]>>,
           NEW p \in [0..Len(s) -> Seq(S)], Joins(p, a)
    PROVE  \A n \in (k - 1)..Len(s) : p[n] = p[k - 1] \o SubSeq(s, k, n)
<1>1. PICK L \in Nat : L = Len(s)
    BY LenProperties
<1>. DEFINE T == {n \in 0..L : n >= k - 1 => p[n] = p[k - 1] \o SubSeq(s, k, n)}
<1>0. k \in 1..(L + 1) /\ k - 1 \in 0..L
    BY <1>1
<1>2. \A i \in 0..L : p[i] \in Seq(S)
    BY <1>1
<1>3. p[k - 1] = p[k - 1] \o SubSeq(s, k, k - 1)
  <2>1. SubSeq(s, k, k - 1) = <<>>
      BY <1>0, SubSeqEmpty
  <2>. QED  BY <1>0, <1>2, <2>1, ConcatEmptySeq
<1>4. ASSUME NEW n \in 0..L, n = k - 1 PROVE n \in T
    BY <1>3, <1>4
<1>5. 0 \in T
  <2>1. CASE k - 1 = 0
      BY <1>0, <1>4, <2>1
  <2>2. CASE k - 1 # 0
      BY <1>0, <2>2
  <2>. QED  BY <2>1, <2>2
<1>6. ASSUME NEW n \in 1..L, n - 1 \in T PROVE n \in T
  <2>0. n \in 0..L /\ n - 1 \in 0..L
      OBVIOUS
  <2>1. CASE n = k - 1
      BY <1>4, <2>0, <2>1
  <2>2. CASE n < k - 1
      BY <1>0, <2>0, <2>2
  <2>3. CASE n >= k
    <3>1. p[n - 1] = p[k - 1] \o SubSeq(s, k, n - 1)
      <4>1. n - 1 >= k - 1
          BY <1>0, <2>3
      <4>. QED  BY <1>6, <4>1
    <3>2. k \in 1..Len(s) /\ n \in k..Len(s) /\ n \in 1..Len(a)
        BY <1>0, <1>1, <2>3
    <3>3. SubSeq(s, k, n) = SubSeq(s, k, n - 1) \o <<s[n]>>
        BY <3>2, SubSeqRecursiveSecond
    <3>4. p[n] = p[n - 1] \o <<s[n]>>
        BY <3>2 DEF Joins
    <3>5. SubSeq(s, k, n - 1) \in Seq(S)
      <4>1. \A i \in k..(n - 1) : s[i] \in S
        <5>1. \A i \in k..(n - 1) : i \in 1..Len(s)
            BY <1>0, <1>1
        <5>. QED  BY <5>1, ElementOfSeq
      <4>2. k \in Int /\ n - 1 \in Int
          BY <1>0
      <4>. QED  BY <4>1, <4>2, SubSeqProperties
    <3>6. s[n] \in S
        BY <1>1, ElementOfSeq
    <3>7. <<s[n]>> \in Seq(S)
        BY <3>6, OneItem
    <3>8. p[k - 1] \in Seq(S)
        BY <1>0, <1>2
    <3>9. (p[k - 1] \o SubSeq(s, k, n - 1)) \o <<s[n]>> = p[k - 1] \o (SubSeq(s, k, n - 1) \o <<s[n]>>)
      <4>1. PICK e \in S : e = s[n]
          BY <3>6
      <4>2. \A x, y \in Seq(S) : (x \o y) \o <<e>> = x \o (y \o <<e>>)
          BY OneBehind, SMTT(30)
      <4>3. PICK x \in Seq(S) : x = p[k - 1]
          BY <3>8
      <4>4. PICK y \in Seq(S) : y = SubSeq(s, k, n - 1)
          BY <3>5
      <4>5. (x \o y) \o <<e>> = x \o (y \o <<e>>)
          BY <4>2
      <4>. QED  BY <4>1, <4>3, <4>4, <4>5
    <3>10. p[n] = p[k - 1] \o SubSeq(s, k, n)
        BY <3>1, <3>3, <3>4, <3>9
    <3>. QED  BY <2>0, <3>10, Zenon
  <2>. HIDE DEF T
  <2>. QED  BY <1>0, <1>1, <2>0, <2>1, <2>2, <2>3
<1>7. T = 0..L
  <2>1. T \in SUBSET (0..L)
      OBVIOUS
  <2>. HIDE DEF T
  <2>. QED  BY <1>5, <1>6, <2>1, UpTo
<1>8. \A n \in (k - 1)..L : n \in 0..L /\ n >= k - 1
    BY <1>0
<1>. QED  BY <1>1, <1>7, <1>8

-----------------------------------------------------------------------------
(* A call that stands in its text                                            *)

\* With the codes at R replaced and k the next place of the text s, a call has rv
\* and amp: what is behind amp is as it was.
Stands(s, rv, amp, R, p, k) ==
    /\ R \in SUBSET CodesAt(s) /\ p \in [0..Len(s) -> Seq(Word)] /\ Joins(p, Pieces(s, R))
    /\ k \in 1..(Len(s) + 1) /\ \A i \in R : i + 2 < k
    /\ rv = p[k - 1] \o SubSeq(s, k, Len(s)) /\ amp = Len(p[k - 1]) + 1

\* Where pieces are as they were
LEMMA PiecesBehind ==
    ASSUME NEW s \in Seq(Word), NEW R \in SUBSET CodesAt(s), NEW k \in Nat, \A i \in R : i + 2 < k
    PROVE  \A i \in k..Len(s) : i \in 1..Len(s) => Pieces(s, R)[i] = <<s[i]>>
<1>. SUFFICES ASSUME NEW i \in k..Len(s), i \in 1..Len(s) PROVE Pieces(s, R)[i] = <<s[i]>>
    OBVIOUS
<1>1. i \in Int /\ k <= i
    OBVIOUS
<1>2. \A j \in R : j \in Int
  <2>1. \A j \in CodesAt(s) : j \in 1..Len(s) /\ Len(s) \in Nat
      BY CodePlaces, LenProperties
  <2>. QED  BY <2>1
<1>3. i \notin R
  <2>1. i \in R => i + 2 < k
      OBVIOUS
  <2>. QED  BY <1>1, <2>1
<1>4. i - 1 \notin R
  <2>1. i - 1 \in R => i - 1 + 2 < k
      OBVIOUS
  <2>. QED  BY <1>1, <2>1
<1>5. i - 2 \notin R
  <2>1. i - 2 \in R => i - 2 + 2 < k
      OBVIOUS
  <2>. QED  BY <1>1, <2>1
<1>. QED  BY <1>3, <1>4, <1>5, PiecesAre

LEMMA StandsPlain ==
    ASSUME NEW s \in Seq(Word), NEW rv, NEW amp, NEW R, NEW p, NEW k, Stands(s, rv, amp, R, p, k)
    PROVE  rv = Plain(s, R)
<1>0. Len(s) \in Nat
    BY LenProperties
<1>1. PICK a \in Seq(Seq(Word)) : a = Pieces(s, R) /\ Len(a) = Len(s) /\ Plain(s, R) = FlattenSeq(a)
    BY PiecesAre DEF Stands
<1>2. PICK q \in [0..Len(s) -> Seq(Word)] : Joins(q, a) /\ FlattenSeq(a) = q[Len(s)]
    BY <1>1, Flattened
<1>3. Joins(p, a) /\ p \in [0..Len(s) -> Seq(Word)] /\ k \in 1..(Len(s) + 1)
    BY <1>1 DEF Stands
<1>4. \A i \in 0..Len(s) : p[i] = q[i]
  <2>1. Len(s) <= Len(a) /\ \A i \in 1..Len(s) : a[i] = a[i]
      BY <1>0, <1>1
  <2>. QED  BY <1>0, <1>2, <1>3, <2>1, JoinedAlike
<1>5. \A i \in k..Len(s) : a[i] = <<s[i]>>
  <2>1. k \in Nat /\ \A i \in k..Len(s) : i \in 1..Len(s)
      BY <1>0, <1>3
  <2>2. R \in SUBSET CodesAt(s) /\ \A i \in R : i + 2 < k
      BY DEF Stands
  <2>. QED  BY <1>1, <2>1, <2>2, PiecesBehind
<1>6. p[Len(s)] = p[k - 1] \o SubSeq(s, k, Len(s))
  <2>1. Len(s) \in (k - 1)..Len(s)
      BY <1>0, <1>3
  <2>. QED  BY <1>1, <1>3, <1>5, <2>1, JoinedRest, ZenonT(40)
<1>7. Len(s) \in 0..Len(s)
    BY <1>0
<1>. QED  BY <1>1, <1>2, <1>4, <1>6, <1>7 DEF Stands

\* What is behind amp is what is behind the place in the text.
LEMMA StandsAsItWas ==
    ASSUME NEW s \in Seq(Word), NEW rv, NEW amp, NEW R, NEW p, NEW k, Stands(s, rv, amp, R, p, k)
    PROVE  /\ k \in 1..(Len(s) + 1) /\ amp \in Nat \ {0}
           /\ rv \in Seq(Word) /\ Len(rv) = (amp - 1) + (Len(s) + 1 - k)
           /\ \A i \in k..Len(s) : rv[amp + (i - k)] = s[i]
<1>1. PICK L \in Nat : L = Len(s)
    BY LenProperties
<1>2. k \in 1..(L + 1) /\ k - 1 \in 0..L
    BY <1>1 DEF Stands
<1>3. PICK x \in Seq(Word) : x = p[k - 1]
    BY <1>1, <1>2 DEF Stands
<1>4. PICK n \in Nat : n = Len(x)
    BY LenProperties
<1>5. amp = n + 1
    BY <1>3, <1>4 DEF Stands
<1>6. PICK y \in Seq(Word) : /\ y = SubSeq(s, k, Len(s)) /\ Len(y) = L + 1 - k
                               /\ \A i \in 1..(L + 1 - k) : y[i] = s[k + i - 1]
  <2>1. \A i \in k..L : s[i] \in Word
    <3>1. \A i \in k..L : i \in 1..Len(s)
        BY <1>1, <1>2
    <3>. QED  BY <3>1, ElementOfSeq
  <2>2. k \in Int /\ L \in Int
      BY <1>2
  <2>3. /\ SubSeq(s, k, L) \in Seq(Word) /\ Len(SubSeq(s, k, L)) = (IF k <= L THEN L - k + 1 ELSE 0)
        /\ \A i \in 1..(L - k + 1) : SubSeq(s, k, L)[i] = s[k + i - 1]
      BY <2>1, <2>2, SubSeqProperties
  <2>4. (IF k <= L THEN L - k + 1 ELSE 0) = L + 1 - k /\ L - k + 1 = L + 1 - k
      BY <1>2
  <2>5. Len(SubSeq(s, k, L)) = L + 1 - k /\ \A i \in 1..(L + 1 - k) : SubSeq(s, k, L)[i] = s[k + i - 1]
      BY <2>3, <2>4
  <2>. QED  BY <1>1, <2>3, <2>5
<1>7. rv = x \o y
    BY <1>3, <1>6 DEF Stands
<1>8. /\ rv \in Seq(Word) /\ Len(rv) = n + (L + 1 - k)
      /\ \A j \in 1..(n + (L + 1 - k)) : rv[j] = IF j <= n THEN x[j] ELSE y[j - n]
    BY <1>4, <1>6, <1>7, ConcatProperties, SMTT(30)
<1>9. ASSUME NEW i \in k..L PROVE rv[amp + (i - k)] = s[i]
  <2>1. PICK j \in Int : j = amp + (i - k)
      BY <1>2, <1>5
  <2>2. j \in 1..(n + (L + 1 - k)) /\ ~(j <= n) /\ j - n = i - k + 1 /\ i - k + 1 \in 1..(L + 1 - k) /\ k + (i - k + 1) - 1 = i
      BY <1>2, <1>5, <2>1
  <2>3. rv[j] = y[i - k + 1]
      BY <1>8, <2>2
  <2>4. y[i - k + 1] = s[k + (i - k + 1) - 1]
      BY <1>6, <2>2
  <2>. QED  BY <2>1, <2>2, <2>3, <2>4
<1>10. (amp - 1) + (Len(s) + 1 - k) = n + (L + 1 - k)
    BY <1>1, <1>2, <1>5
<1>. QED  BY <1>1, <1>2, <1>5, <1>8, <1>9, <1>10

LEMMA SubText ==
    ASSUME NEW S, NEW s \in Seq(S), NEW k \in 1..(Len(s) + 1), NEW n \in (k - 1)..Len(s)
    PROVE  SubSeq(s, k, n) \in Seq(S) /\ Len(SubSeq(s, k, n)) = n + 1 - k
<1>1. PICK L \in Nat : L = Len(s)
    BY LenProperties
<1>2. k \in Int /\ n \in Int /\ k \in 1..(L + 1) /\ n \in (k - 1)..L
    BY <1>1
<1>3. \A i \in k..n : s[i] \in S
  <2>1. \A i \in k..n : i \in 1..Len(s)
      BY <1>1, <1>2
  <2>. QED  BY <2>1, ElementOfSeq
<1>4. (IF k <= n THEN n - k + 1 ELSE 0) = n + 1 - k
    BY <1>2
<1>. QED  BY <1>2, <1>3, <1>4, SubSeqProperties

\* Both move on over words that stay.
LEMMA MovesOn ==
    ASSUME NEW s \in Seq(Word), NEW rv, NEW amp, NEW R, NEW p, NEW k, Stands(s, rv, amp, R, p, k),
           NEW m \in k..(Len(s) + 1)
    PROVE  Stands(s, rv, amp + (m - k), R, p, m)
<1>1. PICK L \in Nat : L = Len(s)
    BY LenProperties
<1>2. k \in 1..(L + 1) /\ k - 1 \in 0..L /\ m \in k..(L + 1)
    BY <1>1 DEF Stands
<1>3. PICK a \in Seq(Seq(Word)) : a = Pieces(s, R) /\ Len(a) = Len(s)
    BY PiecesAre DEF Stands
<1>4. \A i \in k..Len(s) : a[i] = <<s[i]>>
  <2>1. k \in Nat /\ \A i \in k..Len(s) : i \in 1..Len(s)
      BY <1>1, <1>2
  <2>2. R \in SUBSET CodesAt(s) /\ \A i \in R : i + 2 < k
      BY DEF Stands
  <2>. QED  BY <1>3, <2>1, <2>2, PiecesBehind
<1>5. p[m - 1] = p[k - 1] \o SubSeq(s, k, m - 1)
  <2>1. m - 1 \in (k - 1)..Len(s)
      BY <1>1, <1>2
  <2>2. p \in [0..Len(s) -> Seq(Word)] /\ Joins(p, a) /\ k \in 1..(Len(s) + 1)
      BY <1>3 DEF Stands
  <2>. QED  BY <1>3, <1>4, <2>1, <2>2, JoinedRest, ZenonT(40)
<1>6. PICK x \in Seq(Word) : x = p[k - 1]
    BY <1>1, <1>2 DEF Stands
<1>7. PICK y \in Seq(Word) : y = SubSeq(s, k, m - 1) /\ Len(y) = m - k
  <2>1. k \in 1..(Len(s) + 1) /\ m - 1 \in (k - 1)..Len(s) /\ m - 1 + 1 - k = m - k
      BY <1>1, <1>2
  <2>2. SubSeq(s, k, m - 1) \in Seq(Word) /\ Len(SubSeq(s, k, m - 1)) = m - 1 + 1 - k
      BY <2>1, SubText
  <2>. QED  BY <2>1, <2>2
<1>8. PICK z \in Seq(Word) : z = SubSeq(s, m, Len(s))
  <2>1. m \in 1..(Len(s) + 1) /\ Len(s) \in (m - 1)..Len(s)
      BY <1>1, <1>2
  <2>. QED  BY <2>1, SubText
<1>9. y \o z = SubSeq(s, k, Len(s))
  <2>1. k \in 1..(Len(s) + 1) /\ m - 1 \in (k - 1)..Len(s) /\ Len(s) \in (m - 1)..Len(s) /\ m - 1 + 1 = m
      BY <1>1, <1>2
  <2>2. SubSeq(s, k, m - 1) \o SubSeq(s, m - 1 + 1, Len(s)) = SubSeq(s, k, Len(s))
      BY <2>1, ConcatAdjacentSubSeq
  <2>. QED  BY <1>7, <1>8, <2>1, <2>2
<1>10. (x \o y) \o z = x \o (y \o z)
    BY WordsJoin, ZenonT(60)
<1>11. rv = p[m - 1] \o SubSeq(s, m, Len(s))
    BY <1>5, <1>6, <1>7, <1>8, <1>9, <1>10 DEF Stands
<1>12. amp + (m - k) = Len(p[m - 1]) + 1
  <2>1. PICK n \in Nat : n = Len(x)
      BY LenProperties
  <2>2. Len(x \o y) = n + (m - k)
      BY <1>7, <2>1, ConcatProperties
  <2>3. amp = n + 1
      BY <1>6, <2>1 DEF Stands
  <2>4. Len(p[m - 1]) = n + (m - k)
      BY <1>5, <1>6, <1>7, <2>2
  <2>. QED  BY <1>2, <2>3, <2>4
<1>13. \A i \in R : i + 2 < m
  <2>1. \A i \in R : i \in Int
    <3>1. \A j \in CodesAt(s) : j \in 1..Len(s) /\ Len(s) \in Nat
        BY CodePlaces, LenProperties
    <3>2. R \in SUBSET CodesAt(s)
        BY DEF Stands
    <3>. QED  BY <3>1, <3>2
  <2>2. \A i \in R : i + 2 < k
      BY DEF Stands
  <2>. QED  BY <1>2, <2>1, <2>2
<1>14. m \in 1..(Len(s) + 1)
    BY <1>1, <1>2
<1>. QED  BY <1>11, <1>12, <1>13, <1>14 DEF Stands

\* JoinedAlike for texts
LEMMA WordsJoinedAlike ==
    \A a \in Seq(Seq(Word)), b \in Seq(Seq(Word)), k \in Nat :
        k <= Len(a) /\ k <= Len(b) /\ (\A i \in 1..k : a[i] = b[i]) =>
            \A p, q : Joins(p, a) /\ Joins(q, b) => \A i \in 0..k : p[i] = q[i]
BY JoinedAlike

\* A code that is replaced at amp
LEMMA Replaces ==
    ASSUME NEW s \in Seq(Word), NEW rv, NEW amp, NEW R, NEW p, NEW a, Stands(s, rv, amp, R, p, a),
           a \in CodesAt(s)
    PROVE  \E q : Stands(s, SubSeq(rv, 1, amp - 1) \o <<hcerc2asc[s[a + 1]]>> \o SubSeq(rv, amp + 3, Len(rv)),
                         amp + 1, R \cup {a}, q, a + 3)
<1>1. PICK L \in Nat : L = Len(s)
    BY LenProperties
<1>2. a \in 1..L /\ a + 1 \in 1..L /\ a + 2 \in 1..L /\ a - 1 \in 0..L /\ a + 3 \in 1..(L + 1)
  <2>1. a \in 1..Len(s) /\ a + 2 \in 1..Len(s)
      BY CodePlaces
  <2>2. a \in 1..L /\ a + 2 \in 1..L
      BY <1>1, <2>1
  <2>. QED  BY <2>2
<1>3. PICK T \in SUBSET CodesAt(s) : T = R \cup {a}
    BY DEF Stands
<1>4. R \in SUBSET CodesAt(s) /\ \A i \in R : i \in Int /\ i + 2 < a
  <2>1. \A j \in CodesAt(s) : j \in 1..Len(s) /\ Len(s) \in Nat
      BY CodePlaces, LenProperties
  <2>. QED  BY <2>1 DEF Stands
<1>5. PICK ps \in Seq(Seq(Word)) : /\ ps = Pieces(s, R) /\ Len(ps) = L
                                     /\ \A i \in 1..L : ps[i] = Piece(s, R, i)
    BY <1>1, <1>4, PiecesAre
<1>6. PICK qs \in Seq(Seq(Word)) : /\ qs = Pieces(s, T) /\ Len(qs) = L
                                     /\ \A i \in 1..L : qs[i] = Piece(s, T, i)
                                     /\ qs[a] = <<hcerc2asc[s[a + 1]]>> /\ hcerc2asc[s[a + 1]] \in Word
                                     /\ qs[a + 1] = <<>> /\ qs[a + 2] = <<>>
  <2>1. a \in T
      BY <1>3
  <2>2. /\ Pieces(s, T) \in Seq(Seq(Word)) /\ Len(Pieces(s, T)) = Len(s)
        /\ \A i \in 1..Len(s) : Pieces(s, T)[i] = Piece(s, T, i)
        /\ Piece(s, T, a) = <<hcerc2asc[s[a + 1]]>> /\ hcerc2asc[s[a + 1]] \in Word
        /\ Piece(s, T, a + 1) = <<>> /\ Piece(s, T, a + 2) = <<>>
      BY <2>1, PiecesAre
  <2>. QED  BY <1>1, <1>2, <2>2
<1>7. PICK q \in [0..L -> Seq(Word)] : Joins(q, qs)
    BY <1>6, Flattened
<1>8. q[a - 1] = p[a - 1]
  <2>1. ASSUME NEW i \in 1..(a - 1) PROVE qs[i] = ps[i]
    <3>1. i \in 1..L /\ i # a /\ i - 1 # a /\ i - 2 # a
        BY <1>2
    <3>2. (i \in T <=> i \in R) /\ (i - 1 \in T <=> i - 1 \in R) /\ (i - 2 \in T <=> i - 2 \in R)
        BY <1>3, <3>1
    <3>3. Piece(s, T, i) = Piece(s, R, i)
        BY <3>2 DEF Piece
    <3>. QED  BY <1>5, <1>6, <3>1, <3>3
  <2>2. a - 1 \in Nat /\ a - 1 <= Len(ps) /\ a - 1 <= Len(qs) /\ a - 1 \in 0..(a - 1)
      BY <1>2, <1>5, <1>6
  <2>3. Joins(p, ps)
      BY <1>5 DEF Stands
  <2>4. PICK k \in Nat : k = a - 1
      BY <2>2
  <2>5. \A i \in 1..k : qs[i] = ps[i]
      BY <2>1, <2>4
  <2>6. /\ qs \in Seq(Seq(Word)) /\ ps \in Seq(Seq(Word))
        /\ k \in Nat /\ k <= Len(qs) /\ k <= Len(ps)
      BY <1>5, <1>6, <2>2, <2>4
  <2>7. Joins(q, qs)
      BY <1>7
  <2>8. \A y, z : Joins(y, qs) /\ Joins(z, ps) => \A i \in 0..k : y[i] = z[i]
      BY ONLY <2>5, <2>6, WordsJoinedAlike
  <2>9. \A i \in 0..k : q[i] = p[i]
      BY ONLY <2>3, <2>7, <2>8
  <2>. QED  BY <2>2, <2>4, <2>9
<1>9. PICK x \in Seq(Word) : x = p[a - 1]
    BY <1>1, <1>2 DEF Stands
<1>10. PICK w \in Word : w = hcerc2asc[s[a + 1]]
  <2>1. s[a + 1] \in Codes
      BY CodePlaces
  <2>2. hcerc2asc[s[a + 1]] \in Word
      BY <2>1, EntitiesAssumption DEF Word
  <2>. QED  BY <2>2
<1>11. /\ \A i \in 1..L : q[i] = q[i - 1] \o qs[i]
       /\ \A i \in 0..L : q[i] \in Seq(Word)
  <2>1. Len(qs) = L
      BY <1>6
  <2>2. \A i \in 1..Len(qs) : q[i] = q[i - 1] \o qs[i]
      BY <1>7 DEF Joins
  <2>3. \A i \in 0..L : q[i] \in Seq(Word)
      BY <1>7
  <2>. QED  BY <2>1, <2>2, <2>3
<1>12. q[a] = x \o <<w>>
    BY <1>2, <1>6, <1>8, <1>9, <1>10, <1>11
<1>13. q[a + 2] = x \o <<w>>
  <2>1. q[a + 1] = q[a]
    <3>1. PICK m \in 1..L : m = a + 1 /\ m - 1 = a
        BY <1>2
    <3>2. qs[m] = <<>>
        BY <1>6, <3>1
    <3>3. q[m] = q[a] \o <<>>
        BY <1>11, <3>1, <3>2
    <3>4. q[a] \in Seq(Word)
        BY <1>2, <1>11
    <3>5. q[a] \o <<>> = q[a]
        BY <3>4, ConcatEmptySeq
    <3>. QED  BY <3>1, <3>3, <3>5
  <2>2. q[a + 2] = q[a + 1]
    <3>1. PICK m \in 1..L : m = a + 2 /\ m - 1 = a + 1
        BY <1>2
    <3>2. qs[m] = <<>>
        BY <1>6, <3>1
    <3>3. q[m] = q[a + 1] \o <<>>
        BY <1>11, <3>1, <3>2
    <3>4. q[a + 1] \in Seq(Word)
        BY <1>2, <1>11
    <3>5. q[a + 1] \o <<>> = q[a + 1]
        BY <3>4, ConcatEmptySeq
    <3>. QED  BY <3>1, <3>3, <3>5
  <2>. QED  BY <1>12, <2>1, <2>2
<1>14. PICK n \in Nat : n = Len(x)
    BY LenProperties
<1>15. amp = n + 1
    BY <1>9, <1>14 DEF Stands
<1>16. x \o <<w>> \in Seq(Word) /\ Len(x \o <<w>>) = n + 1
    BY <1>14, OneItem, ConcatProperties
<1>17. PICK y \in Seq(Word) : y = SubSeq(s, a, L) /\ Len(y) = L + 1 - a
  <2>1. a \in 1..(Len(s) + 1) /\ L \in (a - 1)..Len(s)
      BY <1>1, <1>2
  <2>. QED  BY <2>1, SubText, ZenonT(60)
<1>18. rv = x \o y
    BY <1>1, <1>9, <1>17 DEF Stands
<1>19. SubSeq(rv, 1, amp - 1) = x
  <2>1. CASE n = 0
    <3>1. x = <<>>
        BY <1>14, <2>1, EmptySeq
    <3>. QED  BY <1>15, <2>1, <3>1, SubSeqEmpty
  <2>2. CASE n # 0
    <3>1. 1 \in 1..Len(x) /\ n \in 1..Len(x)
        BY <1>14, <2>2
    <3>2. SubSeq(x \o y, 1, n) = SubSeq(x, 1, n)
        BY <3>1, SubSeqOfConcat1
    <3>3. SubSeq(x, 1, n) = x
        BY <1>14, SubSeqFull
    <3>4. amp - 1 = n
        BY <1>15
    <3>. QED  BY <1>18, <3>2, <3>3, <3>4
  <2>. QED  BY <2>1, <2>2
<1>20. Len(rv) = n + (L + 1 - a)
    BY <1>14, <1>17, <1>18, ConcatProperties
<1>21. SubSeq(rv, amp + 3, Len(rv)) = SubSeq(s, a + 3, L)
  <2>1. CASE a + 3 = L + 1
    <3>1. amp + 3 \in Int /\ Len(rv) \in Int /\ Len(rv) < amp + 3 /\ a + 3 \in Int /\ L < a + 3
        BY <1>2, <1>15, <1>20, <2>1
    <3>2. SubSeq(rv, amp + 3, Len(rv)) = <<>>
        BY <3>1, SubSeqEmpty
    <3>3. SubSeq(s, a + 3, L) = <<>>
        BY <3>1, SubSeqEmpty, SMTT(30)
    <3>. QED  BY <3>2, <3>3
  <2>2. CASE a + 3 # L + 1
    <3>1. a + 3 \in 1..L
        BY <1>2, <2>2
    <3>2. /\ amp + 3 \in (Len(x) + 1)..(Len(x) + Len(y)) /\ Len(rv) \in (Len(x) + 1)..(Len(x) + Len(y))
          /\ (amp + 3) - Len(x) = 4 /\ Len(rv) - Len(x) = L + 1 - a
      <4>1. PICK v \in Int : v = amp + 3 /\ v = n + 4
          BY <1>15
      <4>2. PICK h \in Int : h = L + 1 - a /\ h >= 4
          BY <1>2, <3>1
      <4>3. PICK z \in Int : z = Len(rv) /\ z = n + h
          BY <1>20, <4>2
      <4>4. v \in (n + 1)..(n + h) /\ z \in (n + 1)..(n + h) /\ v - n = 4 /\ z - n = h
        <5>1. v = n + 4 /\ z = n + h
            BY <4>1, <4>3
        <5>2. h >= 4
            BY <4>2
        <5>. QED  BY <5>1, <5>2
      <4>. QED  BY <1>14, <1>17, <4>1, <4>2, <4>3, <4>4
    <3>3. SubSeq(x \o y, amp + 3, Len(rv)) = SubSeq(y, (amp + 3) - Len(x), Len(rv) - Len(x))
        BY <3>2, SubSeqOfConcat2, ZenonT(60)
    <3>4. SubSeq(x \o y, amp + 3, Len(rv)) = SubSeq(y, 4, L + 1 - a)
        BY <3>2, <3>3
    <3>5. /\ a \in 1..Len(s) /\ L \in 1..Len(s) /\ 4 \in 1..(L - a + 1) /\ L + 1 - a \in 1..(L - a + 1)
          /\ a + 4 - 1 = a + 3 /\ a + (L + 1 - a) - 1 = L
        BY <1>1, <1>2, <3>1
    <3>6. SubSeq(SubSeq(s, a, L), 4, L + 1 - a) = SubSeq(s, a + 4 - 1, a + (L + 1 - a) - 1)
        BY <3>5, SubSeqOfSubSeq
    <3>7. SubSeq(y, 4, L + 1 - a) = SubSeq(s, a + 3, L)
        BY <1>17, <3>5, <3>6
    <3>. QED  BY <1>18, <3>4, <3>7
  <2>. QED  BY <2>1, <2>2
<1>22. \A i \in T : i + 2 < a + 3
    BY <1>2, <1>3, <1>4
<1>23. Stands(s, (x \o <<w>>) \o SubSeq(s, a + 3, L), amp + 1, T, q, a + 3)
  <2>1. PICK k \in 1..(Len(s) + 1) : k = a + 3 /\ k - 1 = a + 2
      BY <1>1, <1>2
  <2>2. q \in [0..Len(s) -> Seq(Word)] /\ Joins(q, Pieces(s, T))
      BY <1>1, <1>6, <1>7
  <2>3. PICK z \in Seq(Word) : z = x \o <<w>> /\ Len(z) = n + 1
      BY <1>16
  <2>4. q[k - 1] = z
      BY <1>13, <2>1, <2>3
  <2>5. PICK m : m = amp + 1
      OBVIOUS
  <2>6. m = Len(z) + 1
      BY <1>15, <2>3, <2>5
  <2>7. PICK r : r = z \o SubSeq(s, k, Len(s))
      OBVIOUS
  <2>8. \A i \in T : i + 2 < k
      BY <1>22, <2>1
  <2>9. T \in SUBSET CodesAt(s)
      OBVIOUS
  <2>10. r = q[k - 1] \o SubSeq(s, k, Len(s)) /\ m = Len(q[k - 1]) + 1
      BY <2>4, <2>6, <2>7
  <2>11. Stands(s, r, m, T, q, k)
      BY <2>1, <2>2, <2>8, <2>9, <2>10 DEF Stands
  <2>12. r = (x \o <<w>>) \o SubSeq(s, a + 3, L)
      BY <1>1, <2>1, <2>3, <2>7
  <2>. QED  BY <2>1, <2>5, <2>11, <2>12
<1>. QED  BY <1>3, <1>10, <1>19, <1>21, <1>23

-----------------------------------------------------------------------------
(* One turn of the loop                                                      *)

\* The first word w of s from k on is at a.
FirstOf(s, w, k, a) == a \in k..Len(s) /\ s[a] = w /\ \A j \in k..Len(s) : j < a => s[j] # w

LEMMA FirstPlace ==
    ASSUME NEW s \in Seq(Word), NEW w, NEW k \in Nat, Places(s, w, k) # {}
    PROVE  FirstOf(s, w, k, Min(Places(s, w, k)))
<1>1. PICK L \in Nat : L = Len(s)
    BY LenProperties
<1>. DEFINE P == Places(s, w, k)
<1>2. P \in SUBSET Nat /\ P # {} /\ \A j : j \in P <=> j \in k..L /\ s[j] = w
    BY <1>1 DEF Places
<1>. HIDE DEF P
<1>3. PICK m \in P : \A y \in P : m <= y
    BY <1>2, SmallestNumber
<1>4. Min(P) \in P /\ \A y \in P : Min(P) <= y
    BY <1>3 DEF Min
<1>5. PICK a \in Nat : a = Min(P)
    BY <1>2, <1>4
<1>6. a \in k..L /\ s[a] = w
    BY <1>2, <1>4, <1>5
<1>7. ASSUME NEW j \in k..L, j < a PROVE s[j] # w
  <2>1. j \in Nat
      OBVIOUS
  <2>2. s[j] = w => a <= j
      BY <1>2, <1>4, <1>5
  <2>. QED  BY <1>5, <1>7, <2>1, <2>2
<1>8. FirstOf(s, w, k, a)
    BY <1>1, <1>6, <1>7 DEF FirstOf
<1>. QED  BY <1>5, <1>8 DEF P

\* Places of rv behind amp are places of the text.
LEMMA InText ==
    ASSUME NEW s \in Seq(Word), NEW rv, NEW amp, NEW R, NEW p, NEW k, Stands(s, rv, amp, R, p, k)
    PROVE  /\ k \in Nat /\ amp \in Nat /\ rv \in Seq(Word)
           /\ \A n \in amp..Len(rv) : n - amp + k \in k..Len(s) /\ rv[n] = s[n - amp + k]
           /\ \A i \in k..Len(s) : amp + (i - k) \in amp..Len(rv) /\ rv[amp + (i - k)] = s[i]
<1>1. PICK L \in Nat : L = Len(s)
    BY LenProperties
<1>2. k \in 1..(L + 1) /\ amp \in Nat /\ rv \in Seq(Word)
    BY <1>1, StandsAsItWas
<1>3. PICK M \in Nat : M = Len(rv)
    BY <1>2, LenProperties
<1>4. M = (amp - 1) + (L + 1 - k)
    BY <1>1, <1>3, StandsAsItWas
<1>5. \A i \in k..L : rv[amp + (i - k)] = s[i]
    BY <1>1, StandsAsItWas
<1>6. \A i \in k..L : amp + (i - k) \in amp..M
    BY <1>2, <1>4
<1>7. ASSUME NEW n \in amp..M PROVE n - amp + k \in k..L /\ rv[n] = s[n - amp + k]
  <2>1. PICK i \in Int : i = n - amp + k
      BY <1>2
  <2>2. i \in k..L /\ amp + (i - k) = n
      BY <1>2, <1>4, <2>1
  <2>. QED  BY <1>5, <2>1, <2>2
<1>. QED  BY <1>1, <1>2, <1>3, <1>5, <1>6, <1>7

\* Places of the text from k on, in rv
Behind(s, rv, amp, k) ==
    \A i \in k..Len(s) : amp + (i - k) \in amp..Len(rv) /\ rv[amp + (i - k)] = s[i]

LEMMA TextIsBehind ==
    ASSUME NEW s \in Seq(Word), NEW rv, NEW amp, NEW R, NEW p, NEW k, Stands(s, rv, amp, R, p, k)
    PROVE  Behind(s, rv, amp, k)
BY InText DEF Behind

LEMMA FirstInText ==
    ASSUME NEW s \in Seq(Word), NEW rv, NEW amp, NEW R, NEW p, NEW k, Stands(s, rv, amp, R, p, k),
           NEW m \in k..Len(s), NEW w, NEW q, FirstOf(rv, w, amp + (m - k), q)
    PROVE  /\ q - amp + k \in m..Len(s) /\ q = amp + ((q - amp + k) - k)
           /\ FirstOf(s, w, m, q - amp + k)
<1>1. PICK L \in Nat : L = Len(s)
    BY LenProperties
<1>2. /\ k \in Nat /\ amp \in Nat /\ rv \in Seq(Word)
      /\ \A n \in amp..Len(rv) : n - amp + k \in k..Len(s) /\ rv[n] = s[n - amp + k]
      /\ \A i \in k..Len(s) : amp + (i - k) \in amp..Len(rv) /\ rv[amp + (i - k)] = s[i]
    BY InText
<1>3. PICK M \in Nat : M = Len(rv)
    BY <1>2, LenProperties
<1>4. /\ \A n \in amp..M : n - amp + k \in k..L /\ rv[n] = s[n - amp + k]
      /\ \A i \in k..L : amp + (i - k) \in amp..M /\ rv[amp + (i - k)] = s[i]
    BY <1>1, <1>2, <1>3
<1>5. q \in (amp + (m - k))..M /\ rv[q] = w /\ \A j \in (amp + (m - k))..M : j < q => rv[j] # w
    BY <1>3 DEF FirstOf
<1>6. m \in k..L /\ m \in Int /\ q \in Int
    BY <1>1, <1>2, <1>5
<1>7. q \in amp..M
    BY <1>2, <1>5, <1>6
<1>8. PICK a \in k..L : a = q - amp + k /\ rv[q] = s[a]
    BY <1>4, <1>7
<1>9. a \in m..L /\ q = amp + (a - k)
    BY <1>2, <1>5, <1>6, <1>8
<1>10. ASSUME NEW j \in m..L, j < a PROVE s[j] # w
  <2>1. j \in k..L
      BY <1>2, <1>6
  <2>2. PICK i \in amp..M : i = amp + (j - k) /\ rv[i] = s[j]
      BY <1>4, <2>1
  <2>3. k \in Nat /\ amp \in Nat
      BY <1>2
  <2>4. amp + (m - k) <= i /\ i < q
      BY <1>6, <1>9, <1>10, <2>2, <2>3, SMTT(30)
  <2>5. i \in (amp + (m - k))..M
      BY <1>6, <2>2, <2>3, <2>4
  <2>. QED  BY <1>5, <2>2, <2>4, <2>5
<1>11. FirstOf(s, w, m, a)
    BY <1>1, <1>5, <1>8, <1>9, <1>10 DEF FirstOf
<1>. QED  BY <1>1, <1>8, <1>9, <1>11

\* What is between two places of rv, from amp on, is what is between two of the text,
\* from k on.
PartsAlike(s, rv, amp, k) ==
    \A a \in k..Len(s) : \A b \in (a - 1)..Len(s) : \A c, d \in Int :
        c = amp + (a - k) /\ d = amp + (b - k) => SubSeq(rv, c, d) = SubSeq(s, a, b)

\* What is between two places of rv is what is between them in the text.
LEMMA PartOfText ==
    ASSUME NEW s \in Seq(Word), NEW rv, NEW amp, NEW R, NEW p, NEW k, Stands(s, rv, amp, R, p, k)
    PROVE  PartsAlike(s, rv, amp, k)
<1>1. PICK L \in Nat : L = Len(s)
    BY LenProperties
<1>2. /\ k \in 1..(L + 1) /\ amp \in Nat /\ amp >= 1 /\ rv \in Seq(Word)
    BY <1>1, StandsAsItWas
<1>3. PICK M \in Nat : M = Len(rv) /\ M = (amp - 1) + (L + 1 - k)
  <2>1. Len(rv) \in Nat
      BY <1>2, LenProperties
  <2>2. Len(rv) = (amp - 1) + (L + 1 - k)
      BY <1>1, StandsAsItWas
  <2>. QED  BY <2>1, <2>2
<1>s. \A v \in k..L : rv[amp + (v - k)] = s[v]
    BY <1>1, StandsAsItWas
<1>h. SUFFICES ASSUME NEW a \in k..Len(s), NEW b \in (a - 1)..Len(s), NEW c \in Int, NEW d \in Int,
                      c = amp + (a - k), d = amp + (b - k)
               PROVE  SubSeq(rv, c, d) = SubSeq(s, a, b)
    BY SMTT(30) DEF PartsAlike
<1>4. a \in k..L /\ b \in (a - 1)..L
    BY <1>1
<1>7. PICK n \in Nat : n = b + 1 - a
    BY <1>2, <1>4
<1>8. a \in Int /\ b \in Int /\ d + 1 - c = n
    BY <1>h, <1>2, <1>4, <1>7
<1>9. c \in 1..(M + 1) /\ d \in (c - 1)..M /\ a \in 1..(L + 1)
    BY <1>h, <1>2, <1>3, <1>4
<1>10. PICK x \in Seq(Word) : x = SubSeq(rv, c, d) /\ Len(x) = n
    BY <1>2, <1>3, <1>8, <1>9, SubText, ZenonT(40)
<1>11. PICK y \in Seq(Word) : y = SubSeq(s, a, b) /\ Len(y) = n
    BY <1>1, <1>4, <1>7, <1>9, SubText, ZenonT(40)
<1>12. ASSUME NEW i \in 1..n PROVE x[i] = y[i]
  <2>1. PICK j \in Int : j = a + i - 1
      BY <1>8
  <2>2. j \in k..L /\ c + i - 1 = amp + (j - k)
      BY <1>h, <1>2, <1>4, <1>7, <2>1
  <2>3. rv[c + i - 1] = s[j]
    <3>1. rv[amp + (j - k)] = s[j]
        BY <1>s, <2>2
    <3>. QED  BY <2>2, <3>1
  <2>4. \A v \in c..d : rv[v] \in Word
    <3>1. \A v \in c..d : v \in 1..Len(rv)
        BY <1>3, <1>9
    <3>. QED  BY <1>2, <3>1, ElementOfSeq
  <2>5. \A v \in a..b : s[v] \in Word
    <3>1. \A v \in a..b : v \in 1..Len(s)
        BY <1>1, <1>2, <1>4
    <3>. QED  BY <3>1, ElementOfSeq
  <2>6. i \in 1..(d - c + 1) /\ i \in 1..(b - a + 1)
      BY <1>7, <1>8
  <2>7. SubSeq(rv, c, d)[i] = rv[c + i - 1]
    <3>1. \A v \in 1..(d - c + 1) : SubSeq(rv, c, d)[v] = rv[c + v - 1]
        BY <2>4, SubSeqProperties
    <3>. QED  BY <2>6, <3>1
  <2>8. SubSeq(s, a, b)[i] = s[a + i - 1]
      BY <1>8, <2>5, <2>6, SubSeqProperties
  <2>. QED  BY <1>10, <1>11, <2>1, <2>3, <2>7, <2>8
<1>13. x = y
    BY <1>10, <1>11, <1>12, SeqEqual
<1>. QED  BY <1>10, <1>11, <1>13

-----------------------------------------------------------------------------
(* Codes that are hidden, and those that are not                             *)

\* The words that begin and end a code
Amp  == "&"
Semi == ";"

LEMMA CodeWords ==
    ASSUME NEW s \in Seq(Word), NEW i \in CodesAt(s)
    PROVE  /\ i \in 1..Len(s) /\ i + 1 \in 1..Len(s) /\ i + 2 \in 1..Len(s)
           /\ s[i] = Amp /\ s[i + 1] \in Codes /\ s[i + 2] = Semi
           /\ s[i + 1] # Amp /\ s[i + 1] # Semi
BY CodePlaces DEF Amp, Semi

LEMMA AmpIsNotSemi == Amp # Semi
BY DEF Amp, Semi

Longest == Max({Len(c) : c \in Codes})

LongestKnown == Longest \in Nat /\ \A c \in Codes : Len(c) <= Longest

\* From j on the first code that could be meant is too long.
FarFrom(s, j) == \E b : FirstOf(s, Semi, j, b) /\ Size(SubSeq(s, j + 1, b - 1)) > Longest

\* No ampersand before k hides a code behind k.
Passed(s, k) == \A j \in 1..(k - 1) : s[j] = Amp => (\E i \in j..(k - 1) : s[i] = Semi) \/ FarFrom(s, j)

\* The codes before k were replaced, but hidden ones were not.
GotTo(s, R, k) == R = {i \in CodesAt(s) : ~Hidden(s, i) /\ i < k} /\ Passed(s, k)

LEMMA PartSize ==
    ASSUME NEW s \in Words, NEW a \in 1..(Len(s) + 1), NEW b \in (a - 1)..Len(s)
    PROVE  Size(SubSeq(s, a, b)) \in Nat
<1>1. s \in Seq(Word) /\ \A i \in DOMAIN s : Len(s[i]) \in Nat
    BY DEF Words
<1>2. PICK L \in Nat : L = Len(s) /\ DOMAIN s = 1..L
    BY <1>1, LenProperties
<1>3. a \in 1..(L + 1) /\ b \in (a - 1)..L /\ a \in Int /\ b \in Int
    BY <1>2
<1>4. PICK n \in Nat : n = b + 1 - a
    BY <1>3
<1>5. PICK x \in Seq(Word) : x = SubSeq(s, a, b) /\ Len(x) = n
    BY <1>1, <1>4, SubText
<1>6. ASSUME NEW i \in 1..n PROVE Len(x[i]) \in Nat
  <2>1. PICK j \in Int : j = a + i - 1
      BY <1>3
  <2>2. j \in 1..L /\ i \in 1..(b - a + 1)
      BY <1>3, <1>4, <2>1
  <2>3. \A v \in a..b : s[v] \in Word
    <3>1. \A v \in a..b : v \in 1..Len(s)
        BY <1>2, <1>3
    <3>. QED  BY <1>1, <3>1, ElementOfSeq
  <2>4. SubSeq(s, a, b)[i] = s[a + i - 1]
      BY <1>3, <2>2, <2>3, SubSeqProperties, SMTT(30)
  <2>5. x[i] = s[j]
      BY <1>5, <2>1, <2>4
  <2>6. Len(s[j]) \in Nat
      BY <1>1, <1>2, <2>2
  <2>. QED  BY <2>5, <2>6
<1>7. x \in Words
    BY <1>5, <1>6, LenProperties DEF Words
<1>. QED  BY <1>5, <1>7, SizeIsNumber

LEMMA HiddenBy ==
    ASSUME NEW s \in Seq(Word), NEW i \in CodesAt(s)
    PROVE  Hidden(s, i) <=> \E j \in 1..Len(s) : /\ j < i /\ s[j] = Amp /\ \A m \in j..i : s[m] # Semi
                                                 /\ Size(SubSeq(s, j + 1, i + 1)) <= Longest
<1>1. PICK L \in Nat : L = Len(s)
    BY LenProperties
<1>2. i \in 1..L
    BY <1>1, CodeWords
<1>3. ASSUME NEW j \in 1..L, j < i
      PROVE  Places(SubSeq(s, j, i), Semi, 1) = {} <=> \A m \in j..i : s[m] # Semi
  <2>1. PICK n \in Nat : n = i + 1 - j
      BY <1>2, <1>3
  <2>2. PICK x \in Seq(Word) : x = SubSeq(s, j, i) /\ Len(x) = n
    <3>1. j \in 1..(Len(s) + 1) /\ i \in (j - 1)..Len(s)
        BY <1>1, <1>2, <1>3
    <3>. QED  BY <2>1, <3>1, SubText, ZenonT(60)
  <2>3. \A v \in 1..n : x[v] = s[j + v - 1]
    <3>1. \A m \in j..i : s[m] \in Word
      <4>1. \A m \in j..i : m \in 1..Len(s)
          BY <1>1, <1>2
      <4>. QED  BY <4>1, ElementOfSeq
    <3>2. j \in Int /\ i \in Int /\ i - j + 1 = n
        BY <1>2, <2>1
    <3>3. \A v \in 1..(i - j + 1) : SubSeq(s, j, i)[v] = s[j + v - 1]
        BY <3>1, <3>2, SubSeqProperties
    <3>. QED  BY <2>2, <3>2, <3>3
  <2>4. Places(x, Semi, 1) = {} <=> \A v \in 1..n : x[v] # Semi
      BY <2>2 DEF Places
  <2>5. ASSUME \A v \in 1..n : x[v] # Semi, NEW m \in j..i PROVE s[m] # Semi
    <3>1. PICK v \in Int : v = m - j + 1
        OBVIOUS
    <3>2. v \in 1..n /\ j + v - 1 = m
        BY <1>2, <2>1, <3>1
    <3>3. x[v] = s[j + v - 1] /\ x[v] # Semi
        BY <2>3, <2>5, <3>2
    <3>. QED  BY <3>2, <3>3
  <2>6. ASSUME \A m \in j..i : s[m] # Semi, NEW v \in 1..n PROVE x[v] # Semi
    <3>1. j + v - 1 \in j..i
        BY <1>2, <2>1
    <3>. QED  BY <2>3, <2>6, <3>1
  <2>. QED  BY <2>2, <2>4, <2>5, <2>6
<1>4. \A j : j \in Places(s, Amp, 1) <=> j \in 1..L /\ s[j] = Amp
    BY <1>1 DEF Places
<1>5. Hidden(s, i) <=> \E j \in 1..L : /\ s[j] = Amp /\ j < i /\ Places(SubSeq(s, j, i), Semi, 1) = {}
                                       /\ Size(SubSeq(s, j + 1, i + 1)) <= Longest
    BY <1>4 DEF Hidden, Longest, Amp, Semi
<1>. QED  BY <1>1, <1>3, <1>5

LEMMA OneWord ==
    ASSUME NEW s \in Seq(Word), NEW m \in 1..Len(s)
    PROVE  SubSeq(s, m, m) = <<s[m]>> /\ s[m] \in Word
<1>1. PICK L \in Nat : L = Len(s)
    BY LenProperties
<1>2. m \in Int /\ m \in 1..(L + 1) /\ m \in (m - 1)..L /\ m + 1 - m = 1 /\ 1 \in 1..(m - m + 1) /\ m + 1 - 1 = m
    BY <1>1
<1>3. s[m] \in Word
    BY ElementOfSeq
<1>4. PICK x \in Seq(Word) : x = SubSeq(s, m, m) /\ Len(x) = 1
  <2>1. SubSeq(s, m, m) \in Seq(Word) /\ Len(SubSeq(s, m, m)) = m + 1 - m
      BY <1>1, <1>2, SubText
  <2>. QED  BY <1>2, <2>1
<1>5. x[1] = s[m]
  <2>1. \A v \in m..m : s[v] \in Word
      BY <1>2, <1>3
  <2>2. \A v \in 1..(m - m + 1) : SubSeq(s, m, m)[v] = s[m + v - 1]
      BY <1>2, <2>1, SubSeqProperties
  <2>3. SubSeq(s, m, m)[1] = s[m + 1 - 1]
      BY <1>2, <2>2
  <2>. QED  BY <1>2, <1>4, <2>3
<1>6. PICK y \in Seq(Word) : y = <<s[m]>> /\ Len(y) = 1 /\ y[1] = s[m]
    BY <1>3, OneItem
<1>7. x = y
  <2>1. \A v \in 1..Len(x) : x[v] = y[v]
      BY <1>4, <1>5, <1>6
  <2>. QED  BY <1>4, <1>6, <2>1, SeqEqual
<1>. QED  BY <1>3, <1>4, <1>6, <1>7

\* The first semicolon behind a code is its own.
LEMMA CodeEnds ==
    ASSUME NEW s \in Seq(Word), NEW i \in CodesAt(s), NEW a \in Nat, a <= i, NEW b, FirstOf(s, Semi, a, b)
    PROVE  b < i \/ b = i + 2
<1>1. PICK L \in Nat : L = Len(s)
    BY LenProperties
<1>2. b \in a..L /\ s[b] = Semi /\ \A j \in a..L : j < b => s[j] # Semi
    BY <1>1 DEF FirstOf
<1>3. i \in 1..L /\ i + 2 \in 1..L /\ s[i] = Amp /\ s[i + 1] # Semi /\ s[i + 2] = Semi
  <2>1. i \in 1..Len(s) /\ i + 2 \in 1..Len(s) /\ s[i] = Amp /\ s[i + 1] # Semi /\ s[i + 2] = Semi
      BY CodeWords
  <2>. QED  BY <1>1, <2>1
<1>4. ~(i + 2 < b)
  <2>1. i + 2 \in a..L
      BY <1>3
  <2>. QED  BY <1>2, <1>3, <2>1
<1>5. b # i /\ b # i + 1
    BY <1>2, <1>3, AmpIsNotSemi
<1>. QED  BY <1>2, <1>3, <1>4, <1>5

\* A code is not too long.
LEMMA CodeThere ==
    ASSUME NEW s \in Seq(Word), NEW a \in CodesAt(s), NEW b, FirstOf(s, Semi, a, b), LongestKnown
    PROVE  /\ b = a + 2 /\ SubSeq(s, a + 1, b - 1) = <<s[a + 1]>> /\ s[a + 1] \in Codes
           /\ Size(<<s[a + 1]>>) \in Nat /\ Size(<<s[a + 1]>>) <= Longest
<1>1. PICK L \in Nat : L = Len(s)
    BY LenProperties
<1>2. a \in 1..L /\ a + 1 \in 1..L /\ s[a + 1] \in Codes
  <2>1. a \in 1..Len(s) /\ a + 1 \in 1..Len(s) /\ s[a + 1] \in Codes
      BY CodeWords
  <2>. QED  BY <1>1, <2>1
<1>3. b = a + 2
  <2>1. a \in Nat /\ a <= a
    <3>1. a \in 1..L
        BY <1>2
    <3>. QED  BY <3>1
  <2>2. b < a \/ b = a + 2
      BY <2>1, CodeEnds
  <2>3. b \in a..L
      BY <1>1 DEF FirstOf
  <2>. QED  BY <2>1, <2>2, <2>3
<1>4. SubSeq(s, a + 1, b - 1) = <<s[a + 1]>>
  <2>1. PICK m \in 1..Len(s) : m = a + 1 /\ b - 1 = m
      BY <1>1, <1>2, <1>3
  <2>2. SubSeq(s, m, m) = <<s[m]>>
      BY OneWord
  <2>. QED  BY <2>1, <2>2
<1>5. PICK c \in Codes : c = s[a + 1]
    BY <1>2
<1>6. c \in Word /\ Len(c) \in Nat
  <2>1. PICK m \in 1..Len(s) : m = a + 1
      BY <1>1, <1>2
  <2>2. s[m] \in Word
      BY OneWord
  <2>3. Len(c) \in Nat
      BY EntitiesAssumption
  <2>. QED  BY <1>5, <2>1, <2>2, <2>3
<1>7. Size(<<c>>) = Len(c)
    BY <1>6, SizeOfOne
<1>8. Len(c) <= Longest
    BY DEF LongestKnown
<1>. QED  BY <1>2, <1>3, <1>4, <1>5, <1>6, <1>7, <1>8

\* Moving on over words that neither are codes to replace nor hide codes behind them
LEMMA Advances ==
    ASSUME NEW s \in Seq(Word), NEW R, NEW k \in 1..(Len(s) + 1), GotTo(s, R, k), NEW n \in k..(Len(s) + 1),
           NEW Q, \A i \in CodesAt(s) : i >= k /\ i < n => (i \in Q <=> ~Hidden(s, i)),
           \A i \in Q : i \in CodesAt(s) /\ i >= k /\ i < n,
           \A j \in k..(n - 1) : s[j] = Amp => (\E i \in j..(n - 1) : s[i] = Semi) \/ FarFrom(s, j)
    PROVE  GotTo(s, R \cup Q, n)
<1>1. PICK L \in Nat : L = Len(s)
    BY LenProperties
<1>2. k \in Int /\ n \in Int /\ k >= 1 /\ k <= n
  <2>1. k \in 1..(L + 1) /\ n \in k..(L + 1)
      BY <1>1
  <2>. QED  BY <2>1
<1>3. \A i \in CodesAt(s) : i \in Int
  <2>1. \A i \in CodesAt(s) : i \in 1..L
    <3>. SUFFICES ASSUME NEW i \in CodesAt(s) PROVE i \in 1..L
        OBVIOUS
    <3>. QED  BY <1>1, CodeWords
  <2>2. \A i \in 1..L : i \in Int
      OBVIOUS
  <2>. QED  BY <2>1, <2>2
<1>4. R = {i \in CodesAt(s) : ~Hidden(s, i) /\ i < k}
    BY DEF GotTo
<1>5. ASSUME NEW i \in CodesAt(s) PROVE i \in R \cup Q <=> ~Hidden(s, i) /\ i < n
  <2>0. i \in Int
      BY <1>3
  <2>1. CASE i < k
    <3>1. i < n /\ ~(i >= k)
        BY <1>2, <2>0, <2>1
    <3>2. i \notin Q
        BY <3>1
    <3>. QED  BY <1>4, <2>1, <3>1, <3>2
  <2>2. CASE i >= k /\ i < n
    <3>1. ~(i < k)
        BY <1>2, <2>0, <2>2
    <3>. QED  BY <1>4, <2>2, <3>1
  <2>3. CASE i >= n
    <3>1. ~(i < n) /\ ~(i < k)
        BY <1>2, <2>0, <2>3
    <3>. QED  BY <1>4, <3>1
  <2>. QED  BY <1>2, <2>0, <2>1, <2>2, <2>3
<1>6. R \cup Q = {i \in CodesAt(s) : ~Hidden(s, i) /\ i < n}
    BY <1>4, <1>5
<1>7. ASSUME NEW j \in 1..(n - 1), s[j] = Amp
      PROVE  (\E i \in j..(n - 1) : s[i] = Semi) \/ FarFrom(s, j)
  <2>1. CASE j \in 1..(k - 1)
    <3>1. (\E i \in j..(k - 1) : s[i] = Semi) \/ FarFrom(s, j)
        BY <1>7, <2>1 DEF GotTo, Passed
    <3>2. \A i \in j..(k - 1) : i \in j..(n - 1)
        BY <1>2
    <3>. QED  BY <3>1, <3>2
  <2>2. CASE j \notin 1..(k - 1)
    <3>1. j \in k..(n - 1)
        BY <1>2, <2>2
    <3>. QED  BY <1>7, <3>1
  <2>. QED  BY <2>1, <2>2
<1>8. Passed(s, n)
    BY <1>7 DEF Passed
<1>. QED  BY <1>6, <1>8 DEF GotTo

\* What Replace() finds: the next ampersand, and the first semicolon behind it
Found(s, k, a, b) == FirstOf(s, Amp, k, a) /\ FirstOf(s, Semi, a, b)

LEMMA FoundAt ==
    ASSUME NEW s \in Seq(Word), NEW k \in 1..(Len(s) + 1), NEW a, NEW b, Found(s, k, a, b),
           NEW L \in Nat, L = Len(s)
    PROVE  /\ k \in Nat /\ a \in Nat /\ b \in Nat /\ 1 <= k /\ k <= a /\ a < b /\ b <= L
           /\ s[a] = Amp /\ s[b] = Semi
           /\ \A j \in Int : k <= j /\ j < a => s[j] # Amp
           /\ \A j \in Int : a <= j /\ j < b => s[j] # Semi
           /\ \A i \in CodesAt(s) : i \in Nat /\ (i >= k => i >= a) /\ (i >= a => b < i \/ b = i + 2)
<1>1. k \in 1..(L + 1)
    OBVIOUS
<1>2. a \in k..L /\ s[a] = Amp /\ \A j \in k..L : j < a => s[j] # Amp
    BY DEF Found, FirstOf
<1>3. b \in a..L /\ s[b] = Semi /\ \A j \in a..L : j < b => s[j] # Semi
    BY DEF Found, FirstOf
<1>4. k \in Nat /\ a \in Nat /\ b \in Nat /\ 1 <= k /\ k <= a /\ a <= b /\ b <= L
    BY <1>1, <1>2, <1>3
<1>5. a < b
  <2>1. a # b
      BY <1>2, <1>3, AmpIsNotSemi
  <2>. QED  BY <1>4, <2>1
<1>6. ASSUME NEW j \in Int, k <= j, j < a PROVE s[j] # Amp
  <2>1. j \in k..L
      BY <1>4, <1>6
  <2>. QED  BY <1>2, <1>6, <2>1
<1>7. ASSUME NEW j \in Int, a <= j, j < b PROVE s[j] # Semi
  <2>1. j \in a..L
      BY <1>4, <1>7
  <2>. QED  BY <1>3, <1>7, <2>1
<1>8. ASSUME NEW i \in CodesAt(s) PROVE i \in Nat /\ (i >= k => i >= a) /\ (i >= a => b < i \/ b = i + 2)
  <2>1. i \in 1..L /\ s[i] = Amp
    <3>1. i \in 1..Len(s) /\ s[i] = Amp
        BY CodeWords
    <3>. QED  BY <3>1
  <2>2. i \in Nat /\ i \in Int
      BY <2>1
  <2>3. i >= k => i >= a
      BY <1>4, <1>6, <2>1, <2>2
  <2>4. ASSUME i >= a PROVE b < i \/ b = i + 2
    <3>1. a <= i /\ a \in Nat
        BY <1>4, <2>2, <2>4
    <3>2. FirstOf(s, Semi, a, b)
        BY DEF Found
    <3>. QED  BY <3>1, <3>2, CodeEnds
  <2>. QED  BY <2>2, <2>3, <2>4
<1>. QED  BY <1>2, <1>3, <1>4, <1>5, <1>6, <1>7, <1>8

\* An ampersand too far from the next semicolon to begin a code
LEMMA GoesOn ==
    ASSUME NEW s \in Words, NEW R, NEW k \in 1..(Len(s) + 1), GotTo(s, R, k), LongestKnown,
           NEW a, NEW b, Found(s, k, a, b), Size(SubSeq(s, a + 1, b - 1)) > Longest
    PROVE  GotTo(s, R, a + 1)
<1>0. s \in Seq(Word)
    BY DEF Words
<1>1. PICK L \in Nat : L = Len(s)
    BY <1>0, LenProperties
<1>2. /\ k \in Nat /\ a \in Nat /\ b \in Nat /\ 1 <= k /\ k <= a /\ a < b /\ b <= L
      /\ \A j \in Int : k <= j /\ j < a => s[j] # Amp
      /\ \A i \in CodesAt(s) : i \in Nat /\ (i >= k => i >= a)
    BY <1>0, <1>1, FoundAt
<1>3. FirstOf(s, Semi, a, b)
    BY DEF Found
<1>4. a \notin CodesAt(s)
  <2>. SUFFICES ASSUME a \in CodesAt(s) PROVE FALSE
      OBVIOUS
  <2>1. /\ SubSeq(s, a + 1, b - 1) = <<s[a + 1]>>
        /\ Size(<<s[a + 1]>>) \in Nat /\ Size(<<s[a + 1]>>) <= Longest
      BY <1>0, <1>3, CodeThere
  <2>2. PICK z \in Nat : z = Size(SubSeq(s, a + 1, b - 1)) /\ z <= Longest
      BY <2>1
  <2>3. z > Longest /\ Longest \in Nat
      BY <2>2 DEF LongestKnown
  <2>. QED  BY <2>2, <2>3
<1>5. PICK n \in k..(L + 1) : n = a + 1 /\ n - 1 = a
    BY <1>2
<1>6. \A i \in CodesAt(s) : ~(i >= k /\ i < n)
  <2>. SUFFICES ASSUME NEW i \in CodesAt(s), i >= k, i < n PROVE FALSE
      OBVIOUS
  <2>1. i \in Nat /\ i >= a /\ i # a
      BY <1>2, <1>4
  <2>. QED  BY <1>2, <1>5, <2>1
<1>7. \A j \in k..(n - 1) : s[j] = Amp => (\E i \in j..(n - 1) : s[i] = Semi) \/ FarFrom(s, j)
  <2>. SUFFICES ASSUME NEW j \in k..(n - 1), s[j] = Amp PROVE FarFrom(s, j)
      OBVIOUS
  <2>1. j \in Int /\ k <= j /\ j <= a
      BY <1>2, <1>5
  <2>2. j = a
      BY <1>2, <2>1
  <2>. QED  BY <1>3, <2>2 DEF FarFrom
<1>8. GotTo(s, R \cup {}, n)
  <2>1. n \in k..(Len(s) + 1)
      BY <1>1, <1>5
  <2>2. /\ \A i \in CodesAt(s) : i >= k /\ i < n => (i \in {} <=> ~Hidden(s, i))
        /\ \A i \in {} : i \in CodesAt(s) /\ i >= k /\ i < n
      BY <1>6
  <2>. QED  BY <1>0, <1>7, <2>1, <2>2, Advances
<1>. QED  BY <1>5, <1>8

\* Words that are no code, though they could be one
LEMMA Skips ==
    ASSUME NEW s \in Words, NEW R, NEW k \in 1..(Len(s) + 1), GotTo(s, R, k), LongestKnown,
           NEW a, NEW b, Found(s, k, a, b), Size(SubSeq(s, a + 1, b - 1)) <= Longest,
           \A c \in Codes : SubSeq(s, a + 1, b - 1) # <<c>>
    PROVE  GotTo(s, R, b + 1)
<1>0. s \in Seq(Word)
    BY DEF Words
<1>1. PICK L \in Nat : L = Len(s)
    BY <1>0, LenProperties
<1>2. /\ k \in Nat /\ a \in Nat /\ b \in Nat /\ 1 <= k /\ k <= a /\ a < b /\ b <= L
      /\ s[a] = Amp /\ s[b] = Semi
      /\ \A j \in Int : k <= j /\ j < a => s[j] # Amp
      /\ \A j \in Int : a <= j /\ j < b => s[j] # Semi
      /\ \A i \in CodesAt(s) : i \in Nat /\ (i >= k => i >= a) /\ (i >= a => b < i \/ b = i + 2)
    BY <1>0, <1>1, FoundAt
<1>3. FirstOf(s, Semi, a, b)
    BY DEF Found
<1>4. PICK n \in k..(L + 1) : n = b + 1 /\ n - 1 = b
    BY <1>2
<1>5. ASSUME NEW i \in CodesAt(s), i >= k, i < n PROVE Hidden(s, i)
  <2>1. i \in Nat /\ i >= a /\ b = i + 2
      BY <1>2, <1>4, <1>5
  <2>2. i # a
    <3>. SUFFICES ASSUME i = a PROVE FALSE
        OBVIOUS
    <3>1. SubSeq(s, a + 1, b - 1) = <<s[a + 1]>> /\ s[a + 1] \in Codes
        BY <1>0, <1>3, CodeThere
    <3>. QED  BY <3>1
  <2>3. a \in 1..L /\ a < i /\ \A m \in a..i : m \in Int /\ a <= m /\ m < b
      BY <1>2, <2>1, <2>2
  <2>4. \A m \in a..i : s[m] # Semi
      BY <1>2, <2>3
  <2>5. Size(SubSeq(s, a + 1, i + 1)) <= Longest
    <3>1. i + 1 = b - 1
        BY <1>2, <2>1
    <3>. QED  BY <3>1
  <2>. QED  BY <1>0, <1>1, <1>2, <2>3, <2>4, <2>5, HiddenBy
<1>6. \A j \in k..(n - 1) : s[j] = Amp => (\E i \in j..(n - 1) : s[i] = Semi) \/ FarFrom(s, j)
  <2>. SUFFICES ASSUME NEW j \in k..(n - 1) PROVE \E i \in j..(n - 1) : s[i] = Semi
      OBVIOUS
  <2>1. b \in j..(n - 1)
      BY <1>2, <1>4
  <2>. QED  BY <1>2, <2>1
<1>7. GotTo(s, R \cup {}, n)
  <2>1. n \in k..(Len(s) + 1)
      BY <1>1, <1>4
  <2>2. /\ \A i \in CodesAt(s) : i >= k /\ i < n => (i \in {} <=> ~Hidden(s, i))
        /\ \A i \in {} : i \in CodesAt(s) /\ i >= k /\ i < n
      BY <1>5
  <2>. QED  BY <1>0, <1>6, <2>1, <2>2, Advances
<1>. QED  BY <1>4, <1>7

\* A code that is found is one of the text,
LEMMA FindsCode ==
    ASSUME NEW s \in Seq(Word), NEW k \in 1..(Len(s) + 1),
           NEW a, NEW b, Found(s, k, a, b), NEW c \in Codes, SubSeq(s, a + 1, b - 1) = <<c>>
    PROVE  a \in CodesAt(s) /\ b = a + 2 /\ s[a + 1] = c
<1>1. PICK L \in Nat : L = Len(s)
    BY LenProperties
<1>2. /\ k \in Nat /\ a \in Nat /\ b \in Nat /\ 1 <= k /\ k <= a /\ a < b /\ b <= L
      /\ s[a] = Amp /\ s[b] = Semi
    BY <1>1, FoundAt
<1>3. Len(<<c>>) = 1
    BY OneItem
<1>4. b = a + 2
  <2>1. PICK x \in Int : x = a + 1
      BY <1>2
  <2>2. PICK y \in Int : y = b - 1
      BY <1>2
  <2>3. x \in 1..(L + 1) /\ y \in (x - 1)..L
      BY <1>2, <2>1, <2>2
  <2>4. Len(SubSeq(s, x, y)) = y + 1 - x
      BY <1>1, <2>3, SubText
  <2>5. y + 1 - x = 1
      BY <1>3, <2>1, <2>2, <2>4
  <2>. QED  BY <1>2, <2>1, <2>2, <2>5
<1>5. s[a + 1] = c
  <2>1. PICK m \in 1..Len(s) : m = a + 1 /\ b - 1 = m
      BY <1>1, <1>2, <1>4
  <2>2. SubSeq(s, m, m) = <<s[m]>>
      BY OneWord
  <2>3. <<s[m]>>[1] = <<c>>[1]
      BY <2>1, <2>2
  <2>4. <<s[m]>>[1] = s[m] /\ <<c>>[1] = c
      OBVIOUS
  <2>. QED  BY <2>1, <2>3, <2>4
<1>6. a \in 1..(Len(s) - 2) /\ s[a + 2] = Semi
    BY <1>1, <1>2, <1>4
<1>7. a \in CodesAt(s)
  <2>1. s[a] = "&" /\ s[a + 2] = ";"
      BY <1>2, <1>6 DEF Amp, Semi
  <2>2. a \in 1..(Len(s) - 2) /\ s[a + 1] \in Codes
      BY <1>5, <1>6
  <2>. QED  BY <2>1, <2>2 DEF CodesAt
<1>. QED  BY <1>4, <1>5, <1>7

\* and not a hidden one.
LEMMA Takes ==
    ASSUME NEW s \in Words, NEW R, NEW k \in 1..(Len(s) + 1), GotTo(s, R, k), LongestKnown,
           NEW a, NEW b, Found(s, k, a, b), NEW c \in Codes, SubSeq(s, a + 1, b - 1) = <<c>>
    PROVE  GotTo(s, R \cup {a}, a + 3)
<1>0. s \in Seq(Word)
    BY DEF Words
<1>1. PICK L \in Nat : L = Len(s)
    BY <1>0, LenProperties
<1>2. /\ k \in Nat /\ a \in Nat /\ b \in Nat /\ 1 <= k /\ k <= a /\ a < b /\ b <= L
      /\ s[a] = Amp /\ s[b] = Semi
      /\ \A j \in Int : k <= j /\ j < a => s[j] # Amp
      /\ \A j \in Int : a <= j /\ j < b => s[j] # Semi
      /\ \A i \in CodesAt(s) : i \in Nat /\ (i >= k => i >= a) /\ (i >= a => b < i \/ b = i + 2)
    BY <1>0, <1>1, FoundAt
<1>3. a \in CodesAt(s) /\ b = a + 2 /\ s[a + 1] = c
    BY <1>0, FindsCode
<1>4. PICK n \in k..(L + 1) : n = a + 3 /\ n - 1 = b
    BY <1>2, <1>3
<1>5. ~Hidden(s, a)
  <2>. SUFFICES ASSUME Hidden(s, a) PROVE FALSE
      OBVIOUS
  <2>1. PICK j \in 1..Len(s) : /\ j < a /\ s[j] = Amp /\ \A m \in j..a : s[m] # Semi
                               /\ Size(SubSeq(s, j + 1, a + 1)) <= Longest
      BY <1>0, <1>3, HiddenBy
  <2>2. j \in 1..L /\ j \in Nat
    <3>1. j \in 1..L
        BY <1>1
    <3>. QED  BY <3>1
  <2>3. j \in 1..(k - 1)
      BY <1>2, <2>1, <2>2
  <2>4. ~\E i \in j..(k - 1) : s[i] = Semi
    <3>1. \A i \in j..(k - 1) : i \in j..a
        BY <1>2, <2>2
    <3>. QED  BY <2>1, <3>1
  <2>5. FarFrom(s, j)
      BY <2>1, <2>3, <2>4 DEF GotTo, Passed
  <2>6. PICK e : FirstOf(s, Semi, j, e) /\ Size(SubSeq(s, j + 1, e - 1)) > Longest
      BY <2>5 DEF FarFrom
  <2>7. e \in j..L /\ s[e] = Semi
      BY <1>1, <2>6 DEF FirstOf
  <2>8. e < a \/ e = a + 2
    <3>1. j \in Nat /\ j <= a
        BY <1>2, <2>1, <2>2
    <3>. QED  BY <1>0, <1>3, <2>6, <3>1, CodeEnds
  <2>9. ~(e < a)
    <3>1. e < a => e \in j..a
        BY <1>2, <2>2, <2>7
    <3>. QED  BY <2>1, <2>7, <3>1
  <2>10. e - 1 = a + 1
      BY <1>2, <2>8, <2>9
  <2>11. Size(SubSeq(s, j + 1, a + 1)) \in Nat
    <3>1. PICK x \in Int : x = j + 1
        BY <2>2
    <3>2. PICK y \in Int : y = a + 1
        BY <1>2
    <3>3. x \in 1..(L + 1) /\ y \in (x - 1)..L
        BY <1>2, <1>3, <2>1, <2>2, <3>1, <3>2
    <3>4. Size(SubSeq(s, x, y)) \in Nat
        BY <1>1, <3>3, PartSize
    <3>. QED  BY <3>1, <3>2, <3>4
  <2>12. PICK z \in Nat : z = Size(SubSeq(s, j + 1, a + 1)) /\ z <= Longest
      BY <2>1, <2>11
  <2>13. z > Longest /\ Longest \in Nat
      BY <2>6, <2>10, <2>12 DEF LongestKnown
  <2>. QED  BY <2>12, <2>13
<1>6. ASSUME NEW i \in CodesAt(s), i >= k, i < n PROVE i = a
    BY <1>2, <1>3, <1>4, <1>6
<1>7. \A j \in k..(n - 1) : s[j] = Amp => (\E i \in j..(n - 1) : s[i] = Semi) \/ FarFrom(s, j)
  <2>. SUFFICES ASSUME NEW j \in k..(n - 1) PROVE \E i \in j..(n - 1) : s[i] = Semi
      OBVIOUS
  <2>1. b \in j..(n - 1)
      BY <1>2, <1>4
  <2>. QED  BY <1>2, <2>1
<1>8. GotTo(s, R \cup {a}, n)
  <2>1. n \in k..(Len(s) + 1)
      BY <1>1, <1>4
  <2>2. \A i \in CodesAt(s) : i >= k /\ i < n => (i \in {a} <=> ~Hidden(s, i))
      BY <1>5, <1>6
  <2>3. \A i \in {a} : i \in CodesAt(s) /\ i >= k /\ i < n
    <3>1. a >= k /\ a < n
        BY <1>2, <1>4
    <3>. QED  BY <1>3, <3>1
  <2>. QED  BY <1>0, <1>7, <2>1, <2>2, <2>3, Advances
<1>. QED  BY <1>4, <1>8

\* Without a next code nothing is left to replace.
LEMMA Finishes ==
    ASSUME NEW s \in Seq(Word), NEW R, NEW k \in 1..(Len(s) + 1), GotTo(s, R, k),
           \/ Places(s, Amp, k) = {}
           \/ \E a : FirstOf(s, Amp, k, a) /\ Places(s, Semi, a) = {}
    PROVE  R = {i \in CodesAt(s) : ~Hidden(s, i)}
<1>1. PICK L \in Nat : L = Len(s)
    BY LenProperties
<1>2. k \in 1..(L + 1)
    BY <1>1
<1>3. ASSUME NEW i \in CodesAt(s), ~(i < k) PROVE FALSE
  <2>1. i \in 1..L /\ i + 2 \in 1..L /\ s[i] = Amp /\ s[i + 2] = Semi
    <3>1. i \in 1..Len(s) /\ i + 2 \in 1..Len(s) /\ s[i] = Amp /\ s[i + 2] = Semi
        BY CodeWords
    <3>. QED  BY <1>1, <3>1
  <2>2. i \in k..L
      BY <1>2, <1>3, <2>1
  <2>3. i \in Places(s, Amp, k)
      BY <1>1, <2>1, <2>2 DEF Places
  <2>4. PICK a : FirstOf(s, Amp, k, a) /\ Places(s, Semi, a) = {}
      BY <2>3
  <2>5. a \in k..L /\ \A j \in k..L : j < a => s[j] # Amp
      BY <1>1, <2>4 DEF FirstOf
  <2>6. ~(i < a)
      BY <2>1, <2>2, <2>5
  <2>7. i + 2 \in a..L
      BY <1>2, <2>1, <2>5, <2>6
  <2>8. i + 2 \in Places(s, Semi, a)
      BY <1>1, <2>1, <2>7 DEF Places
  <2>. QED  BY <2>4, <2>8
<1>4. \A i \in CodesAt(s) : i < k
    BY <1>3
<1>. QED  BY <1>4 DEF GotTo

-----------------------------------------------------------------------------
(* The calls                                                                 *)

Waiting  == {"idle", "test"}
Counting == {"compare", "assign"}

Conversion == [at : {"idle", "test", "compare", "assign", "replace"}, i : Nat, text : HtmlTexts \cup {<<>>},
               rv : Seq(Word), amp : Nat]

Unhidden(s) == {i \in CodesAt(s) : ~Hidden(s, i)}

\* A call before the loop, in it and after it; l is the number of codes.
CallIn(c, l, a) ==
    /\ c.i \in 1..(l + 1) /\ c.amp \in 1..(Len(c.rv) + 1)
    /\ c.at = "test" => c.i = 1
    /\ c.at \in Counting => c.i \in 1..l
    /\ c.at # "idle" => c.text \in HtmlTexts
    /\ c.at \in Counting \cup {"test"} => c.rv = c.text /\ c.amp = 1
    /\ c.at = "replace" => \E R, p, k : Stands(c.text, c.rv, c.amp, R, p, k) /\ (a => GotTo(c.text, R, k))
    /\ c.at = "idle" => IF a THEN c.rv = Plain(c.text, Unhidden(c.text))
                             ELSE \E R \in SUBSET CodesAt(c.text) : c.rv = Plain(c.text, R)

LEMMA TextsAre ==
    ASSUME NEW s \in HtmlTexts
    PROVE  s \in Words /\ s \in Seq(Word) /\ Len(s) \in Nat
<1>1. s \in Seq(STRING) /\ \A i \in DOMAIN s : Len(s[i]) \in Nat
    BY EntitiesAssumption
<1>2. s \in Seq(Word)
    BY <1>1 DEF Word
<1>. QED  BY <1>1, <1>2, LenProperties DEF Words

LEMMA OrdersAre ==
    ASSUME NEW o \in Orders
    PROVE  /\ Len(o) \in Nat \ {0} /\ \A i \in 1..Len(o) : o[i] \in Codes /\ Len(o[i]) \in Nat \ {0}
           /\ \A c \in Codes : \E i \in 1..Len(o) : o[i] = c
<1>1. o \in Seq(Codes) /\ ToSet(o) = Codes /\ Codes # {} /\ \A c \in Codes : Len(c) \in Nat \ {0}
    BY EntitiesAssumption
<1>2. Len(o) \in Nat /\ DOMAIN o = 1..Len(o) /\ \A i \in 1..Len(o) : o[i] \in Codes
    BY <1>1, LenProperties, ElementOfSeq
<1>3. \A c \in Codes : \E i \in 1..Len(o) : o[i] = c
    BY <1>1, <1>2 DEF ToSet
<1>4. Len(o) # 0
  <2>1. PICK c \in Codes : TRUE
      BY <1>1
  <2>2. 1..Len(o) # {}
      BY <1>3, <2>1
  <2>. QED  BY <1>2, <2>2
<1>. QED  BY <1>1, <1>2, <1>3, <1>4

\* A call that did not overlap a first one is also one that may have.
LEMMA CallMayHave ==
    ASSUME NEW c, NEW l, NEW a, CallIn(c, l, a)
    PROVE  CallIn(c, l, FALSE)
<1>1. Unhidden(c.text) \in SUBSET CodesAt(c.text)
    BY DEF Unhidden
<1>. QED  BY <1>1 DEF CallIn

LEMMA StandsFirst ==
    ASSUME NEW s \in Seq(Word)
    PROVE  \E p : Stands(s, s, 1, {}, p, 1) /\ GotTo(s, {}, 1)
<1>1. PICK L \in Nat : L = Len(s)
    BY LenProperties
<1>2. {} \in SUBSET CodesAt(s)
    OBVIOUS
<1>3. PICK a \in Seq(Seq(Word)) : a = Pieces(s, {}) /\ Len(a) = L
    BY <1>1, <1>2, PiecesAre
<1>4. PICK p \in [0..L -> Seq(Word)] : Joins(p, a)
    BY <1>3, Flattened
<1>5. p[0] = <<>>
    BY <1>4 DEF Joins
<1>6. s = <<>> \o s /\ SubSeq(s, 1, L) = s /\ Len(<<>>) + 1 = 1 /\ 1 - 1 = 0
    BY <1>1, ConcatEmptySeq, SubSeqFull, EmptySeq
<1>7. 1 \in 1..(Len(s) + 1)
    BY <1>1
<1>8. Stands(s, s, 1, {}, p, 1)
    BY <1>1, <1>2, <1>3, <1>4, <1>5, <1>6, <1>7 DEF Stands
<1>9. GotTo(s, {}, 1)
  <2>1. \A i \in CodesAt(s) : ~(i < 1)
    <3>1. \A i \in CodesAt(s) : i \in 1..L
      <4>. SUFFICES ASSUME NEW i \in CodesAt(s) PROVE i \in 1..L
          OBVIOUS
      <4>. QED  BY <1>1, CodeWords
    <3>2. \A i \in 1..L : ~(i < 1)
        OBVIOUS
    <3>. QED  BY <3>1, <3>2
  <2>2. 1..(1 - 1) = {}
      OBVIOUS
  <2>. QED  BY <2>1, <2>2 DEF GotTo, Passed
<1>. QED  BY <1>8, <1>9

\* A call begins the loop.
LEMMA LoopBegins ==
    ASSUME NEW c \in Conversion, NEW l \in Nat, NEW a, CallIn(c, l, a), c.at \in Counting \cup {"test"},
           NEW i \in 1..(l + 1), NEW d \in Conversion, d.at = "replace", d.i = i, d.text = c.text, d.rv = c.rv, d.amp = c.amp
    PROVE  CallIn(d, l, a)
<1>1. c.rv = c.text /\ c.amp = 1 /\ c.text \in HtmlTexts /\ c.amp \in 1..(Len(c.rv) + 1)
  <2>1. c.at # "idle"
      BY DEF Counting
  <2>. QED  BY <2>1 DEF CallIn
<1>2. c.text \in Seq(Word)
    BY <1>1, TextsAre
<1>3. \E p : Stands(c.text, c.text, 1, {}, p, 1) /\ GotTo(c.text, {}, 1)
    BY <1>2, StandsFirst
<1>4. \E R, p, k : Stands(d.text, d.rv, d.amp, R, p, k) /\ (a => GotTo(d.text, R, k))
    BY <1>1, <1>3
<1>5. d.at \notin Counting /\ d.at # "test" /\ d.at # "idle"
    BY DEF Counting
<1>. QED  BY <1>1, <1>4, <1>5 DEF CallIn

\* A call can go on with rv and i.
GoesOnWith(s, rv, i, a) == \E R, p, k : Stands(s, rv, i, R, p, k) /\ (a => GotTo(s, R, k))

\* The three ways in which it goes on
Turns(s, rv, e, f, code, m, al) ==
    /\ Size(code) > m => GoesOnWith(s, rv, e + 1, al)
    /\ ~(Size(code) > m) /\ (\A c \in Codes : code # <<c>>) => GoesOnWith(s, rv, f + 1, al)
    /\ ~(Size(code) > m) /\ ~(\A c \in Codes : code # <<c>>)
          => GoesOnWith(s, SubSeq(rv, 1, e - 1) \o <<hcerc2asc[code[1]]>> \o SubSeq(rv, f + 1, Len(rv)), e + 1, al)

\* A turn of the loop
LEMMA LoopTurns ==
    ASSUME NEW s \in HtmlTexts, NEW rv, NEW amp, NEW R, NEW p, NEW k, Stands(s, rv, amp, R, p, k),
           NEW al, al => LongestKnown /\ GotTo(s, R, k), NEW m \in Nat, al => m = Longest,
           NEW e, e = Min(Places(rv, Amp, amp)), Places(rv, Amp, amp) # {},
           NEW f, f = Min(Places(rv, Semi, e)), Places(rv, Semi, e) # {},
           NEW code, code = SubSeq(rv, e + 1, f - 1)
    PROVE  Turns(s, rv, e, f, code, m, al)
<1>0. s \in Words /\ s \in Seq(Word)
    BY TextsAre
<1>1. PICK L \in Nat : L = Len(s)
    BY <1>0, LenProperties
<1>2. k \in 1..(L + 1) /\ k \in Nat /\ amp \in Nat /\ rv \in Seq(Word)
  <2>1. k \in 1..(Len(s) + 1)
      BY <1>0, StandsAsItWas
  <2>. QED  BY <1>0, <1>1, <2>1, InText
<1>3. FirstOf(rv, Amp, amp, e)
    BY <1>2, FirstPlace
<1>4. PICK M \in Nat : M = Len(rv)
    BY <1>2, LenProperties
<1>5. e \in amp..M
    BY <1>3, <1>4 DEF FirstOf
<1>6. FirstOf(rv, Semi, e, f)
  <2>1. e \in Nat
      BY <1>2, <1>5
  <2>. QED  BY <1>2, <2>1, FirstPlace
<1>7. PICK a \in k..L : a = e - amp + k /\ e = amp + (a - k)
  <2>1. e - amp + k \in k..L
      BY <1>0, <1>1, <1>4, <1>5, InText
  <2>. QED  BY <1>2, <1>5, <2>1
<1>8. FirstOf(s, Amp, k, a)
  <2>1. k \in k..L /\ amp + (k - k) = amp
      BY <1>2, <1>7
  <2>2. k \in k..Len(s) /\ FirstOf(rv, Amp, amp + (k - k), e)
      BY <1>1, <1>3, <2>1
  <2>. QED  BY <1>0, <1>7, <2>2, FirstInText
<1>9. PICK b \in a..L : b = f - amp + k /\ f = amp + (b - k) /\ FirstOf(s, Semi, a, b)
  <2>1. a \in k..Len(s) /\ FirstOf(rv, Semi, amp + (a - k), f)
      BY <1>1, <1>6, <1>7
  <2>2. /\ f - amp + k \in a..Len(s) /\ f = amp + ((f - amp + k) - k)
        /\ FirstOf(s, Semi, a, f - amp + k)
      BY <1>0, <2>1, FirstInText
  <2>. QED  BY <1>1, <2>2
<1>10. Found(s, k, a, b)
    BY <1>8, <1>9 DEF Found
<1>11. /\ a \in Nat /\ b \in Nat /\ a < b /\ k \in 1..(Len(s) + 1)
       /\ e \in Nat /\ f \in Nat
  <2>1. k \in 1..(Len(s) + 1)
      BY <1>1, <1>2
  <2>2. a \in Nat /\ b \in Nat /\ a < b
      BY <1>0, <1>1, <1>10, <2>1, FoundAt
  <2>3. \A u, v, w \in Nat : v <= u => w + (u - v) \in Nat
      OBVIOUS
  <2>4. k <= a /\ k <= b
      BY <1>2, <1>7, <2>2
  <2>5. e \in Nat /\ f \in Nat
    <3>1. amp + (a - k) \in Nat /\ amp + (b - k) \in Nat
        BY <1>2, <2>2, <2>3, <2>4
    <3>. QED  BY <1>7, <1>9, <3>1
  <2>. QED  BY <2>1, <2>2, <2>5
<1>n. /\ k \in Int /\ a \in Int /\ b \in Int /\ e \in Int /\ f \in Int /\ amp \in Int
      /\ 1 <= k /\ k <= a /\ a < b /\ b <= L /\ e = amp + (a - k) /\ f = amp + (b - k)
  <2>1. k \in Int /\ a \in Int /\ b \in Int /\ e \in Int /\ f \in Int /\ amp \in Int
      BY <1>2, <1>11
  <2>2. 1 <= k
      BY <1>2
  <2>3. k <= a /\ b <= L
      BY <1>2, <1>7, <1>9
  <2>. QED  BY <1>7, <1>9, <1>11, <2>1, <2>2, <2>3
<1>12. code = SubSeq(s, a + 1, b - 1)
  <2>1. PICK x \in Int : x = a + 1
      BY <1>n
  <2>2. PICK y \in Int : y = b - 1
      BY <1>n
  <2>3. CASE x \in k..L
    <3>1. y \in (x - 1)..L
        BY <1>n, <2>1, <2>2
    <3>2. x \in k..Len(s) /\ y \in (x - 1)..Len(s)
        BY <1>1, <2>3, <3>1
    <3>3. PICK v \in Int : v = e + 1 /\ v = amp + (x - k)
        BY <1>n, <2>1
    <3>4. PICK w \in Int : w = f - 1 /\ w = amp + (y - k)
        BY <1>n, <2>2
    <3>5. PartsAlike(s, rv, amp, k)
        BY <1>0, PartOfText
    <3>6. SubSeq(rv, v, w) = SubSeq(s, x, y)
        BY <3>2, <3>3, <3>4, <3>5 DEF PartsAlike
    <3>. QED  BY <2>1, <2>2, <3>3, <3>4, <3>6
  <2>4. x \in k..L
      BY <1>n, <2>1
  <2>. QED  BY <2>3, <2>4
<1>13. PICK n \in k..(Len(s) + 1) : n = a + 1
  <2>1. a + 1 \in k..(L + 1)
      BY <1>n
  <2>. QED  BY <1>1, <2>1
<1>14. PICK o \in k..(Len(s) + 1) : o = b + 1
  <2>1. b + 1 \in k..(L + 1)
      BY <1>n
  <2>. QED  BY <1>1, <2>1
<1>15. Stands(s, rv, e + 1, R, p, n)
  <2>1. Stands(s, rv, amp + (n - k), R, p, n)
      BY <1>0, MovesOn
  <2>2. amp + (n - k) = e + 1
      BY <1>n, <1>13
  <2>. QED  BY <2>1, <2>2
<1>16. Stands(s, rv, f + 1, R, p, o)
  <2>1. Stands(s, rv, amp + (o - k), R, p, o)
      BY <1>0, MovesOn
  <2>2. amp + (o - k) = f + 1
      BY <1>n, <1>14, SMTT(30)
  <2>. QED  BY <2>1, <2>2
<1>17. Stands(s, rv, e, R, p, a)
  <2>1. a \in k..(Len(s) + 1)
    <3>1. a \in k..(L + 1)
        BY <1>2, <1>7
    <3>. QED  BY <1>1, <3>1
  <2>2. Stands(s, rv, amp + (a - k), R, p, a)
      BY <1>0, <2>1, MovesOn
  <2>. QED  BY <1>7, <2>2
<1>18. ASSUME Size(code) > m PROVE al => GotTo(s, R, n)
    BY <1>0, <1>10, <1>11, <1>12, <1>13, <1>18, GoesOn
<1>19. ASSUME ~(Size(code) > m), \A c \in Codes : code # <<c>> PROVE al => GotTo(s, R, o)
  <2>. SUFFICES ASSUME al PROVE GotTo(s, R, o)
      OBVIOUS
  <2>1. Size(code) \in Nat
    <3>1. PICK x \in Int : x = a + 1
        BY <1>n
    <3>2. PICK y \in Int : y = b - 1
        BY <1>n
    <3>3. x \in 1..(L + 1) /\ y \in (x - 1)..L
        BY <1>n, <3>1, <3>2
    <3>4. Size(SubSeq(s, x, y)) \in Nat
        BY <1>0, <1>1, <3>3, PartSize
    <3>. QED  BY <1>12, <3>1, <3>2, <3>4
  <2>2. Size(code) <= m
    <3>1. PICK z \in Nat : z = Size(code)
        BY <2>1
    <3>. QED  BY <1>19, <3>1
  <2>3. Size(SubSeq(s, a + 1, b - 1)) <= Longest /\ \A c \in Codes : SubSeq(s, a + 1, b - 1) # <<c>>
      BY <1>12, <1>19, <2>2
  <2>4. GotTo(s, R, b + 1)
      BY <1>0, <1>10, <1>11, <2>3, Skips
  <2>. QED  BY <1>14, <2>4
<1>20. ASSUME NEW c \in Codes, code = <<c>>
       PROVE  \E R2, p2, k2 : /\ Stands(s, SubSeq(rv, 1, e - 1) \o <<hcerc2asc[code[1]]>> \o SubSeq(rv, f + 1, Len(rv)),
                                        e + 1, R2, p2, k2)
                              /\ (al => GotTo(s, R2, k2))
  <2>0. SubSeq(s, a + 1, b - 1) = <<c>> /\ k \in 1..(Len(s) + 1)
      BY <1>11, <1>12, <1>20
  <2>1. a \in CodesAt(s) /\ b = a + 2 /\ s[a + 1] = c
      BY <1>0, <1>10, <2>0, FindsCode
  <2>2. f + 1 = e + 3
      BY <1>n, <2>1, SMTT(30)
  <2>3. code[1] = s[a + 1]
    <3>1. <<c>>[1] = c
        OBVIOUS
    <3>. QED  BY <1>20, <2>1, <3>1
  <2>4. \E q : Stands(s, SubSeq(rv, 1, e - 1) \o <<hcerc2asc[s[a + 1]]>> \o SubSeq(rv, e + 3, Len(rv)),
                      e + 1, R \cup {a}, q, a + 3)
      BY <1>0, <1>17, <2>1, Replaces
  <2>5. al => GotTo(s, R \cup {a}, a + 3)
    <3>. SUFFICES ASSUME al PROVE GotTo(s, R \cup {a}, a + 3)
        OBVIOUS
    <3>. QED  BY <1>0, <1>10, <1>11, <1>12, <1>20, Takes
  <2>6. \E q : Stands(s, SubSeq(rv, 1, e - 1) \o <<hcerc2asc[code[1]]>> \o SubSeq(rv, f + 1, Len(rv)),
                      e + 1, R \cup {a}, q, a + 3)
      BY <2>2, <2>3, <2>4
  <2>. QED  BY <2>5, <2>6
<1>21. Size(code) > m => GoesOnWith(s, rv, e + 1, al)
    BY <1>15, <1>18 DEF GoesOnWith
<1>22. ~(Size(code) > m) /\ (\A c \in Codes : code # <<c>>) => GoesOnWith(s, rv, f + 1, al)
    BY <1>16, <1>19 DEF GoesOnWith
<1>23. ASSUME NEW c \in Codes, code = <<c>>
       PROVE  GoesOnWith(s, SubSeq(rv, 1, e - 1) \o <<hcerc2asc[code[1]]>> \o SubSeq(rv, f + 1, Len(rv)), e + 1, al)
    BY <1>20, <1>23 DEF GoesOnWith
<1>. QED  BY <1>21, <1>22, <1>23 DEF Turns

EntTypes == /\ maxlen \in {0} \cup {Len(c) : c \in Codes} /\ order \in Orders /\ alone \in BOOLEAN
            /\ conv \in [Callers -> Conversion]

CallsKept == \A t \in Callers : CallIn(conv[t], Len(order), alone)

\* How far the one thread has got that computes maxlen, unless calls overlapped:
\* nobody began, u is at it, or it is done.
NobodyCounts == maxlen = 0 /\ \A t \in Callers : conv[t].at \in Waiting
CountsAlone(u) == /\ conv[u].at \in Counting /\ \A t \in Callers \ {u} : conv[t].at \in Waiting
                  /\ \A j \in 1..(conv[u].i - 1) : Len(order[j]) <= maxlen
                  /\ conv[u].at = "assign" => Len(order[conv[u].i]) > maxlen
CountIsDone    == /\ \A t \in Callers : conv[t].at \notin Counting
                  /\ \A c \in Codes : Len(c) <= maxlen

OneCounts == alone => NobodyCounts \/ (\E u \in Callers : CountsAlone(u)) \/ CountIsDone

EntIInv == EntTypes /\ CallsKept /\ OneCounts

LEMMA PlacesWords == Waiting \cap Counting = {} /\ "replace" \notin Waiting /\ "replace" \notin Counting
BY DEF Waiting, Counting

LEMMA MaxlenIsNumber ==
    ASSUME EntTypes
    PROVE  maxlen \in Nat
<1>1. \A c \in Codes : Len(c) \in Nat
    BY EntitiesAssumption
<1>. QED  BY <1>1 DEF EntTypes

LEMMA CountedIsLongest ==
    ASSUME EntTypes, CountIsDone
    PROVE  maxlen = Longest /\ LongestKnown /\ maxlen # 0
<1>1. Codes # {} /\ \A c \in Codes : Len(c) \in Nat \ {0}
    BY EntitiesAssumption
<1>2. maxlen \in Nat
    BY MaxlenIsNumber
<1>3. \A c \in Codes : Len(c) <= maxlen
    BY DEF CountIsDone
<1>. DEFINE P == {Len(c) : c \in Codes}
<1>4. \A n \in P : n \in Nat /\ n # 0 /\ n <= maxlen
    BY <1>1, <1>3
<1>5. P # {} /\ maxlen \in {0} \cup P
    BY <1>1 DEF EntTypes
<1>6. Longest = Max(P)
    BY DEF Longest
<1>. HIDE DEF P
<1>7. maxlen # 0
  <2>1. PICK n \in P : TRUE
      BY <1>5
  <2>2. n \in Nat /\ n # 0 /\ n <= maxlen
      BY <1>4
  <2>. QED  BY <1>2, <2>2
<1>8. maxlen \in P
    BY <1>5, <1>7
<1>9. \A n \in P : (\A y \in P : n >= y) => n = maxlen
  <2>. SUFFICES ASSUME NEW n \in P, \A y \in P : n >= y PROVE n = maxlen
      OBVIOUS
  <2>1. n \in Nat /\ n <= maxlen /\ n >= maxlen
      BY <1>4, <1>8
  <2>. QED  BY <1>2, <2>1
<1>10. \A y \in P : maxlen >= y
    BY <1>2, <1>4
<1>11. Max(P) = maxlen
  <2>1. Max(P) \in P /\ \A y \in P : Max(P) >= y
      BY <1>8, <1>10 DEF Max
  <2>. QED  BY <1>9, <2>1
<1>. QED  BY <1>2, <1>3, <1>6, <1>7, <1>11 DEF LongestKnown

\* A step changes one call.
LEMMA OneCall ==
    ASSUME conv \in [Callers -> Conversion], NEW t \in Callers, NEW d \in Conversion, conv' = [conv EXCEPT ![t] = d]
    PROVE  conv' \in [Callers -> Conversion] /\ conv'[t] = d /\ \A u \in Callers \ {t} : conv'[u] = conv[u]
OBVIOUS

LEMMA CallsKeptBy ==
    ASSUME EntIInv, NEW t \in Callers, NEW d \in Conversion, conv' = [conv EXCEPT ![t] = d],
           alone' => alone, alone \in BOOLEAN, alone' \in BOOLEAN, order' = order, CallIn(d, Len(order), alone')
    PROVE  CallsKept'
<1>1. /\ conv' \in [Callers -> Conversion] /\ conv'[t] = d /\ \A u \in Callers \ {t} : conv'[u] = conv[u]
    BY OneCall DEF EntIInv, EntTypes
<1>2. \A u \in Callers : CallIn(conv[u], Len(order), alone)
    BY DEF EntIInv, CallsKept
<1>3. ASSUME NEW u \in Callers \ {t} PROVE CallIn(conv'[u], Len(order), alone')
  <2>1. CASE alone' = alone
      BY <1>1, <1>2, <2>1
  <2>2. CASE alone' = FALSE
    <3>1. CallIn(conv[u], Len(order), FALSE)
        BY <1>2, CallMayHave
    <3>. QED  BY <1>1, <2>2, <3>1
  <2>. QED  BY <2>1, <2>2
<1>. QED  BY <1>1, <1>3 DEF CallsKept

LEMMA EntIInvInit ==
    ASSUME EntitiesInit
    PROVE  EntIInv
<1>1. <<>> \in Seq(Word) /\ Len(<<>>) = 0
    BY EmptySeq
<1>2. EntTypes
    BY <1>1 DEF EntitiesInit, EntTypes, Conversion
<1>3. \A t \in Callers : CallIn(conv[t], Len(order), alone)
  <2>. SUFFICES ASSUME NEW t \in Callers PROVE CallIn(conv[t], Len(order), alone)
      OBVIOUS
  <2>0. conv[t] = [at |-> "idle", i |-> 1, text |-> <<>>, rv |-> <<>>, amp |-> 1] /\ alone = TRUE
      BY DEF EntitiesInit
  <2>1. conv[t].at = "idle" /\ conv[t].i = 1 /\ conv[t].text = <<>> /\ conv[t].rv = <<>> /\ conv[t].amp = 1
      BY <2>0
  <2>2. 1 \in 1..(Len(order) + 1) /\ 1 \in 1..(Len(<<>>) + 1)
    <3>1. Len(order) \in Nat
        BY OrdersAre DEF EntitiesInit
    <3>. QED  BY <1>1, <3>1
  <2>3. PICK s \in Seq(Word) : s = <<>> /\ Len(s) = 0
      BY <1>1
  <2>4. s = Plain(s, Unhidden(s))
    <3>1. PICK p : Stands(s, s, 1, {}, p, 1) /\ GotTo(s, {}, 1)
        BY StandsFirst
    <3>2. s = Plain(s, {})
        BY <3>1, StandsPlain
    <3>3. {} = Unhidden(s)
      <4>1. \A i \in CodesAt(s) : FALSE
        <5>. SUFFICES ASSUME NEW i \in CodesAt(s) PROVE FALSE
            OBVIOUS
        <5>1. i \in 1..Len(s)
            BY CodeWords
        <5>. QED  BY <2>3, <5>1
      <4>. QED  BY <4>1 DEF Unhidden
    <3>. QED  BY <3>2, <3>3
  <2>5. "idle" \notin Counting \cup {"test"}
      BY DEF Counting
  <2>. QED  BY <2>0, <2>1, <2>2, <2>3, <2>4, <2>5 DEF CallIn
<1>4. NobodyCounts
    BY DEF EntitiesInit, NobodyCounts, Waiting
<1>. QED  BY <1>2, <1>3, <1>4 DEF EntIInv, CallsKept, OneCounts

LEMMA ConvertKeeps ==
    ASSUME EntIInv, NEW t \in Callers, Convert(t)
    PROVE  EntIInv'
<1>1. PICK s \in HtmlTexts : conv' = [conv EXCEPT ![t] = [at |-> "test", i |-> 1, text |-> s, rv |-> s, amp |-> 1]]
    BY DEF Convert
<1>2. conv[t].at = "idle" /\ maxlen' = maxlen /\ order' = order /\ alone' = alone
    BY DEF Convert, NotCalling
<1>3. s \in Seq(Word)
    BY TextsAre
<1>4. PICK d \in Conversion : d = [at |-> "test", i |-> 1, text |-> s, rv |-> s, amp |-> 1]
    BY <1>3 DEF Conversion
<1>5. d.at = "test" /\ d.i = 1 /\ d.text = s /\ d.rv = s /\ d.amp = 1
    BY <1>4
<1>6. conv \in [Callers -> Conversion] /\ alone \in BOOLEAN /\ order \in Orders
    BY DEF EntIInv, EntTypes
<1>7. CallIn(d, Len(order), alone')
  <2>1. 1 \in 1..(Len(order) + 1) /\ 1 \in 1..(Len(s) + 1)
    <3>1. Len(order) \in Nat /\ Len(s) \in Nat
        BY <1>6, OrdersAre, TextsAre
    <3>. QED  BY <3>1
  <2>2. "test" \notin Counting
      BY DEF Counting
  <2>. QED  BY <1>5, <2>1, <2>2 DEF CallIn
<1>8. conv' = [conv EXCEPT ![t] = d]
    BY <1>1, <1>4
<1>9. conv' \in [Callers -> Conversion] /\ conv'[t] = d /\ \A u \in Callers \ {t} : conv'[u] = conv[u]
    BY <1>6, <1>8, OneCall
<1>10. CallsKept'
    BY <1>2, <1>6, <1>7, <1>8, CallsKeptBy
<1>11. EntTypes'
    BY <1>2, <1>9 DEF EntIInv, EntTypes
<1>12. "test" \in Waiting /\ "idle" \notin Counting /\ "test" \notin Counting
    BY DEF Waiting, Counting
<1>13. NobodyCounts => NobodyCounts'
    BY <1>2, <1>5, <1>9, <1>12 DEF NobodyCounts
<1>14. ASSUME NEW u \in Callers, CountsAlone(u) PROVE CountsAlone(u)'
  <2>1. u # t
      BY <1>2, <1>12, <1>14 DEF CountsAlone
  <2>2. conv'[u] = conv[u]
      BY <1>9, <2>1
  <2>. QED  BY <1>2, <1>5, <1>9, <1>12, <1>14, <2>2 DEF CountsAlone
<1>15. CountIsDone => CountIsDone'
    BY <1>2, <1>5, <1>9, <1>12 DEF CountIsDone
<1>16. OneCounts'
    BY <1>2, <1>13, <1>14, <1>15 DEF EntIInv, OneCounts
<1>. QED  BY <1>10, <1>11, <1>16 DEF EntIInv

LEMMA TestMaxlenKeeps ==
    ASSUME EntIInv, NEW t \in Callers, TestMaxlen(t)
    PROVE  EntIInv'
<1>1. PICK c \in Conversion : c = conv[t]
    BY DEF EntIInv, EntTypes
<1>2. /\ c.at = "test" /\ maxlen' = maxlen /\ order' = order
      /\ conv' = [conv EXCEPT ![t] = [c EXCEPT !.at = IF maxlen = 0 THEN "compare" ELSE "replace"]]
      /\ alone' = (alone /\ \A u \in Callers \ {t} : conv[u].at \notin Counting)
    BY <1>1 DEF TestMaxlen, Counting
<1>3. PICK d \in Conversion : d = [c EXCEPT !.at = IF maxlen = 0 THEN "compare" ELSE "replace"]
    BY DEF Conversion
<1>4. /\ d.at = IF maxlen = 0 THEN "compare" ELSE "replace"
      /\ d.i = c.i /\ d.text = c.text /\ d.rv = c.rv /\ d.amp = c.amp
    BY <1>3 DEF Conversion
<1>5. conv \in [Callers -> Conversion] /\ alone \in BOOLEAN /\ order \in Orders
    BY DEF EntIInv, EntTypes
<1>6. PICK l \in Nat \ {0} : l = Len(order)
    BY <1>5, OrdersAre
<1>7. CallIn(c, l, alone)
    BY <1>1, <1>6 DEF EntIInv, CallsKept
<1>8. alone' \in BOOLEAN /\ (alone' => alone)
    BY <1>2, <1>5
<1>9. CallIn(c, l, alone')
  <2>1. CallIn(c, l, FALSE)
      BY <1>7, CallMayHave
  <2>2. CASE alone' = alone
      BY <1>7, <2>2
  <2>3. CASE alone' = FALSE
      BY <2>1, <2>3
  <2>. QED  BY <1>5, <1>8, <2>2, <2>3
<1>10. CallIn(d, l, alone')
  <2>1. CASE maxlen = 0
    <3>1. d.at = "compare"
        BY <1>4, <2>1
    <3>2. 1 \in 1..l
        BY <1>6
    <3>3. c.i = 1 /\ c.rv = c.text /\ c.amp = 1 /\ c.text \in HtmlTexts /\ c.i \in 1..(l + 1) /\ c.amp \in 1..(Len(c.rv) + 1)
        BY <1>2, <1>9 DEF CallIn
    <3>. QED  BY <1>4, <3>1, <3>2, <3>3 DEF CallIn
  <2>2. CASE maxlen # 0
    <3>1. d.at = "replace"
        BY <1>4, <2>2
    <3>2. c.i \in 1..(l + 1) /\ c.at \in Counting \cup {"test"}
        BY <1>2, <1>9 DEF CallIn
    <3>3. l \in Nat
        BY <1>6
    <3>. QED  BY <1>4, <1>9, <3>1, <3>2, <3>3, LoopBegins
  <2>. QED  BY <2>1, <2>2
<1>11. conv' = [conv EXCEPT ![t] = d]
    BY <1>2, <1>3
<1>12. conv' \in [Callers -> Conversion] /\ conv'[t] = d /\ \A u \in Callers \ {t} : conv'[u] = conv[u]
    BY <1>5, <1>11, OneCall
<1>13. CallsKept'
    BY <1>2, <1>5, <1>6, <1>8, <1>10, <1>11, CallsKeptBy
<1>14. EntTypes'
    BY <1>2, <1>8, <1>12 DEF EntIInv, EntTypes
<1>15. OneCounts'
  <2>. SUFFICES ASSUME alone' PROVE NobodyCounts' \/ (\E u \in Callers : CountsAlone(u)') \/ CountIsDone'
      BY DEF OneCounts
  <2>1. alone /\ \A u \in Callers \ {t} : conv[u].at \notin Counting
      BY <1>2
  <2>2. ~\E u \in Callers : CountsAlone(u)
    <3>1. \A u \in Callers : conv[u].at \notin Counting
        BY <1>1, <1>2, <2>1 DEF Counting
    <3>. QED  BY <3>1 DEF CountsAlone
  <2>3. CASE NobodyCounts
    <3>1. d.at = "compare" /\ maxlen = 0
        BY <1>4, <2>3 DEF NobodyCounts
    <3>2. \A u \in Callers \ {t} : conv'[u].at \in Waiting
        BY <1>12, <2>3 DEF NobodyCounts
    <3>3. d.i = 1
        BY <1>2, <1>4, <1>7 DEF CallIn
    <3>4. \A j \in 1..(d.i - 1) : FALSE
        BY <3>3
    <3>5. CountsAlone(t)'
        BY <1>12, <3>1, <3>2, <3>4 DEF CountsAlone, Counting
    <3>. QED  BY <3>5
  <2>4. CASE CountIsDone
    <3>1. maxlen # 0
        BY <2>4, CountedIsLongest DEF EntIInv
    <3>2. d.at \notin Counting
        BY <1>4, <3>1 DEF Counting
    <3>3. CountIsDone'
        BY <1>2, <1>12, <2>4, <3>2 DEF CountIsDone
    <3>. QED  BY <3>3
  <2>. QED  BY <2>1, <2>2, <2>3, <2>4 DEF EntIInv, OneCounts
<1>. QED  BY <1>13, <1>14, <1>15 DEF EntIInv

\* To the next code, or out of the first loop
LEMMA NextCodeKeeps ==
    ASSUME EntIInv, NEW t \in Callers, conv[t].at \in Counting, NextCode(t), alone' = alone, order' = order
    PROVE  \E d \in Conversion : /\ conv' = [conv EXCEPT ![t] = d]
                                 /\ d.at = (IF conv[t].i = Len(order) THEN "replace" ELSE "compare")
                                 /\ d.i = conv[t].i + 1 /\ conv[t].i \in 1..Len(order)
                                 /\ CallsKept'
<1>1. PICK c \in Conversion : c = conv[t]
    BY DEF EntIInv, EntTypes
<1>2. conv \in [Callers -> Conversion] /\ alone \in BOOLEAN /\ order \in Orders
    BY DEF EntIInv, EntTypes
<1>3. PICK l \in Nat \ {0} : l = Len(order)
    BY <1>2, OrdersAre
<1>4. conv' = [conv EXCEPT ![t] = [c EXCEPT !.at = IF c.i = l THEN "replace" ELSE "compare", !.i = c.i + 1]]
    BY <1>1, <1>3 DEF NextCode
<1>5. CallIn(c, l, alone)
    BY <1>1, <1>3 DEF EntIInv, CallsKept
<1>6. c.at \in Counting /\ c.i \in 1..l /\ c.rv = c.text /\ c.amp = 1 /\ c.text \in HtmlTexts /\ c.amp \in 1..(Len(c.rv) + 1)
  <2>1. c.at \in Counting /\ c.at # "idle"
      BY <1>1 DEF Counting
  <2>. QED  BY <1>5, <2>1 DEF CallIn
<1>7. c.i + 1 \in Nat /\ c.i + 1 \in 1..(l + 1) /\ (c.i # l => c.i + 1 \in 1..l)
  <2>1. PICK n \in 1..l : n = c.i
      BY <1>6
  <2>. QED  BY <2>1
<1>8. PICK d \in Conversion : d = [c EXCEPT !.at = IF c.i = l THEN "replace" ELSE "compare", !.i = c.i + 1]
    BY <1>7 DEF Conversion
<1>9. /\ d.at = IF c.i = l THEN "replace" ELSE "compare"
      /\ d.i = c.i + 1 /\ d.text = c.text /\ d.rv = c.rv /\ d.amp = c.amp
    BY <1>8 DEF Conversion
<1>10. CallIn(d, l, alone)
  <2>1. CASE c.i = l
    <3>1. d.at = "replace"
        BY <1>9, <2>1
    <3>2. d.i \in 1..(l + 1) /\ c.at \in Counting \cup {"test"} /\ l \in Nat
        BY <1>3, <1>6, <1>7, <1>9
    <3>. QED  BY <1>5, <1>9, <3>1, <3>2, LoopBegins
  <2>2. CASE c.i # l
    <3>1. d.at = "compare" /\ d.i \in 1..l /\ d.i \in 1..(l + 1)
        BY <1>7, <1>9, <2>2
    <3>. QED  BY <1>6, <1>9, <3>1 DEF CallIn
  <2>. QED  BY <2>1, <2>2
<1>11. conv' = [conv EXCEPT ![t] = d]
    BY <1>4, <1>8
<1>12. CallsKept'
    BY <1>2, <1>3, <1>10, <1>11, CallsKeptBy
<1>. QED  BY <1>1, <1>3, <1>6, <1>9, <1>11, <1>12

\* The first i codes were compared.
LEMMA ComparedTo ==
    ASSUME EntIInv, NEW t \in Callers, NEW d \in Conversion, conv' = [conv EXCEPT ![t] = d], order' = order,
           NEW i \in 1..Len(order), d.at = IF i = Len(order) THEN "replace" ELSE "compare", d.i = i + 1,
           \A u \in Callers \ {t} : conv[u].at \in Waiting,
           \A j \in 1..i : Len(order[j]) <= maxlen'
    PROVE  (\E u \in Callers : CountsAlone(u)') \/ CountIsDone'
<1>1. conv' \in [Callers -> Conversion] /\ conv'[t] = d /\ \A u \in Callers \ {t} : conv'[u] = conv[u]
    BY OneCall DEF EntIInv, EntTypes
<1>2. order \in Orders
    BY DEF EntIInv, EntTypes
<1>3. CASE i = Len(order)
  <2>1. d.at = "replace" /\ "replace" \notin Counting /\ \A x \in Waiting : x \notin Counting
      BY <1>3, PlacesWords
  <2>2. \A u \in Callers : conv'[u].at \notin Counting
      BY <1>1, <2>1
  <2>3. \A c \in Codes : Len(c) <= maxlen'
      BY <1>2, <1>3, OrdersAre
  <2>. QED  BY <2>2, <2>3 DEF CountIsDone
<1>4. CASE i # Len(order)
  <2>1. d.at = "compare" /\ "compare" \in Counting /\ "compare" # "assign"
      BY <1>4 DEF Counting
  <2>2. d.i - 1 = i
    <3>1. PICK l \in Nat : l = Len(order)
        BY <1>2, OrdersAre
    <3>2. i \in 1..l
        BY <3>1
    <3>. QED  BY <3>2
  <2>3. \A j \in 1..(d.i - 1) : Len(order[j]) <= maxlen'
      BY <2>2
  <2>4. CountsAlone(t)'
      BY <1>1, <2>1, <2>3 DEF CountsAlone
  <2>. QED  BY <2>4
<1>. QED  BY <1>3, <1>4

\* Who compares, if no calls overlapped, is the one that counts.
LEMMA TheOneCounts ==
    ASSUME EntIInv, NEW t \in Callers, conv[t].at \in Counting, alone
    PROVE  CountsAlone(t)
<1>1. ~NobodyCounts /\ ~CountIsDone
    BY PlacesWords DEF NobodyCounts, CountIsDone
<1>2. PICK u \in Callers : CountsAlone(u)
    BY <1>1 DEF EntIInv, OneCounts
<1>3. u = t
    BY <1>2, PlacesWords DEF CountsAlone
<1>. QED  BY <1>2, <1>3

LEMMA CompareKeeps ==
    ASSUME EntIInv, NEW t \in Callers, Compare(t)
    PROVE  EntIInv'
<1>1. PICK c \in Conversion : c = conv[t]
    BY DEF EntIInv, EntTypes
<1>2. /\ c.at = "compare" /\ maxlen' = maxlen /\ order' = order /\ alone' = alone
      /\ IF Len(order[c.i]) > maxlen THEN conv' = [conv EXCEPT ![t] = [c EXCEPT !.at = "assign"]] ELSE NextCode(t)
    BY <1>1 DEF Compare
<1>3. conv \in [Callers -> Conversion] /\ alone \in BOOLEAN /\ order \in Orders
    BY DEF EntIInv, EntTypes
<1>4. conv[t].at \in Counting
    BY <1>1, <1>2 DEF Counting
<1>5. alone => CountsAlone(t)
    BY <1>4, TheOneCounts
<1>6. PICK l \in Nat \ {0} : l = Len(order)
    BY <1>3, OrdersAre
<1>7. CallIn(c, l, alone)
    BY <1>1, <1>6 DEF EntIInv, CallsKept
<1>8. c.i \in 1..l /\ c.rv = c.text /\ c.amp = 1 /\ c.text \in HtmlTexts /\ c.amp \in 1..(Len(c.rv) + 1) /\ c.i \in 1..(l + 1)
  <2>1. c.at \in Counting /\ c.at # "idle"
      BY <1>2 DEF Counting
  <2>. QED  BY <1>7, <2>1 DEF CallIn
<1>9. CASE Len(order[c.i]) > maxlen
  <2>1. conv' = [conv EXCEPT ![t] = [c EXCEPT !.at = "assign"]]
      BY <1>2, <1>9
  <2>2. PICK d \in Conversion : d = [c EXCEPT !.at = "assign"]
      BY DEF Conversion
  <2>3. d.at = "assign" /\ d.i = c.i /\ d.text = c.text /\ d.rv = c.rv /\ d.amp = c.amp
      BY <2>2 DEF Conversion
  <2>4. CallIn(d, l, alone)
      BY <1>8, <2>3 DEF CallIn
  <2>5. conv' = [conv EXCEPT ![t] = d]
      BY <2>1, <2>2
  <2>6. conv' \in [Callers -> Conversion] /\ conv'[t] = d /\ \A u \in Callers \ {t} : conv'[u] = conv[u]
      BY <1>3, <2>5, OneCall
  <2>7. CallsKept'
      BY <1>2, <1>3, <1>6, <2>4, <2>5, CallsKeptBy
  <2>8. EntTypes'
      BY <1>2, <2>6 DEF EntIInv, EntTypes
  <2>9. alone => CountsAlone(t)'
      BY <1>1, <1>2, <1>5, <1>9, <2>3, <2>6 DEF CountsAlone, Counting
  <2>10. OneCounts'
      BY <1>2, <2>9 DEF OneCounts
  <2>. QED  BY <2>7, <2>8, <2>10 DEF EntIInv
<1>10. CASE ~(Len(order[c.i]) > maxlen)
  <2>1. NextCode(t)
      BY <1>2, <1>10
  <2>2. PICK d \in Conversion : /\ conv' = [conv EXCEPT ![t] = d]
                                /\ d.at = (IF conv[t].i = Len(order) THEN "replace" ELSE "compare")
                                /\ d.i = conv[t].i + 1 /\ conv[t].i \in 1..Len(order)
                                /\ CallsKept'
      BY <1>2, <1>4, <2>1, NextCodeKeeps
  <2>3. conv' \in [Callers -> Conversion]
      BY <1>3, <2>2, OneCall
  <2>4. EntTypes'
      BY <1>2, <2>3 DEF EntIInv, EntTypes
  <2>5. ASSUME alone PROVE (\E u \in Callers : CountsAlone(u)') \/ CountIsDone'
    <3>1. PICK i \in 1..l : i = c.i
        BY <1>8
    <3>2. (\A u \in Callers \ {t} : conv[u].at \in Waiting) /\ \A j \in 1..(i - 1) : Len(order[j]) <= maxlen
        BY <1>1, <1>5, <2>5, <3>1 DEF CountsAlone
    <3>3. Len(order[i]) <= maxlen
      <4>1. Len(order[i]) \in Nat /\ maxlen \in Nat
          BY <1>3, <1>6, MaxlenIsNumber, OrdersAre DEF EntIInv
      <4>. QED  BY <1>10, <3>1, <4>1
    <3>4. \A j \in 1..i : j \in 1..(i - 1) \/ j = i
        OBVIOUS
    <3>5. \A j \in 1..i : Len(order[j]) <= maxlen'
        BY <1>2, <3>2, <3>3, <3>4
    <3>6. i \in 1..Len(order) /\ d.at = (IF i = Len(order) THEN "replace" ELSE "compare") /\ d.i = i + 1
        BY <1>1, <1>6, <2>2, <3>1
    <3>. QED  BY <1>2, <2>2, <3>2, <3>5, <3>6, ComparedTo
  <2>6. OneCounts'
      BY <1>2, <2>5 DEF OneCounts
  <2>. QED  BY <2>2, <2>4, <2>6 DEF EntIInv
<1>. QED  BY <1>9, <1>10

LEMMA AssignMaxlenKeeps ==
    ASSUME EntIInv, NEW t \in Callers, AssignMaxlen(t)
    PROVE  EntIInv'
<1>1. PICK c \in Conversion : c = conv[t]
    BY DEF EntIInv, EntTypes
<1>2. c.at = "assign" /\ maxlen' = Len(order[c.i]) /\ order' = order /\ alone' = alone /\ NextCode(t)
    BY <1>1 DEF AssignMaxlen
<1>3. conv \in [Callers -> Conversion] /\ alone \in BOOLEAN /\ order \in Orders
    BY DEF EntIInv, EntTypes
<1>4. conv[t].at \in Counting
    BY <1>1, <1>2 DEF Counting
<1>5. alone => CountsAlone(t)
    BY <1>4, TheOneCounts
<1>6. PICK d \in Conversion : /\ conv' = [conv EXCEPT ![t] = d]
                              /\ d.at = (IF conv[t].i = Len(order) THEN "replace" ELSE "compare")
                              /\ d.i = conv[t].i + 1 /\ conv[t].i \in 1..Len(order)
                              /\ CallsKept'
    BY <1>2, <1>4, NextCodeKeeps
<1>7. PICK l \in Nat \ {0} : l = Len(order)
    BY <1>3, OrdersAre
<1>8. PICK i \in 1..l : i = c.i
    BY <1>1, <1>6, <1>7
<1>9. order[i] \in Codes /\ Len(order[i]) \in Nat
    BY <1>3, <1>7, OrdersAre
<1>10. conv' \in [Callers -> Conversion]
    BY <1>3, <1>6, OneCall
<1>11. EntTypes'
    BY <1>2, <1>8, <1>9, <1>10 DEF EntIInv, EntTypes
<1>12. ASSUME alone PROVE (\E u \in Callers : CountsAlone(u)') \/ CountIsDone'
  <2>1. /\ \A u \in Callers \ {t} : conv[u].at \in Waiting
        /\ \A j \in 1..(i - 1) : Len(order[j]) <= maxlen
        /\ Len(order[i]) > maxlen
      BY <1>1, <1>2, <1>5, <1>8, <1>12 DEF CountsAlone
  <2>2. PICK n \in Nat : n = maxlen
      BY MaxlenIsNumber DEF EntIInv
  <2>3. PICK m \in Nat : m = Len(order[i])
      BY <1>9
  <2>4. n < m /\ maxlen' = m
      BY <1>2, <1>8, <2>1, <2>2, <2>3
  <2>5. ASSUME NEW j \in 1..i PROVE Len(order[j]) <= maxlen'
    <3>1. CASE j = i
        BY <2>3, <2>4, <3>1
    <3>2. CASE j # i
      <4>1. j \in 1..(i - 1) /\ j \in 1..l
          BY <3>2
      <4>2. PICK k \in Nat : k = Len(order[j])
          BY <1>3, <1>7, <4>1, OrdersAre
      <4>3. k <= n
          BY <2>1, <2>2, <4>1, <4>2
      <4>. QED  BY <2>4, <4>2, <4>3
    <3>. QED  BY <3>1, <3>2
  <2>6. i \in 1..Len(order) /\ d.at = (IF i = Len(order) THEN "replace" ELSE "compare") /\ d.i = i + 1
      BY <1>1, <1>6, <1>7, <1>8
  <2>. QED  BY <1>2, <1>6, <2>1, <2>5, <2>6, ComparedTo
<1>13. OneCounts'
    BY <1>2, <1>12 DEF OneCounts
<1>. QED  BY <1>6, <1>11, <1>13 DEF EntIInv

\* Nobody counts where somebody replaces, if no calls overlapped.
LEMMA LoopAfterCount ==
    ASSUME EntIInv, NEW t \in Callers, conv[t].at = "replace", alone
    PROVE  CountIsDone
<1>1. ~NobodyCounts
    BY PlacesWords DEF NobodyCounts
<1>2. ~\E u \in Callers : CountsAlone(u)
    BY PlacesWords DEF CountsAlone
<1>. QED  BY <1>1, <1>2 DEF EntIInv, OneCounts

\* A turn of the loop, and the end of it
LEMMA TurnKeeps ==
    ASSUME EntIInv, NEW t \in Callers, conv[t].at = "replace", NEW d \in Conversion, conv' = [conv EXCEPT ![t] = d],
           d.at \in {"replace", "idle"}, CallIn(d, Len(order), alone),
           maxlen' = maxlen, order' = order, alone' = alone
    PROVE  EntIInv'
<1>1. conv \in [Callers -> Conversion] /\ alone \in BOOLEAN
    BY DEF EntIInv, EntTypes
<1>2. conv' \in [Callers -> Conversion] /\ conv'[t] = d /\ \A u \in Callers \ {t} : conv'[u] = conv[u]
    BY <1>1, OneCall
<1>3. CallsKept'
    BY <1>1, CallsKeptBy
<1>4. EntTypes'
    BY <1>2 DEF EntIInv, EntTypes
<1>5. ASSUME alone PROVE CountIsDone'
  <2>1. CountIsDone
      BY <1>5, LoopAfterCount
  <2>2. d.at \notin Counting
      BY DEF Counting
  <2>. QED  BY <1>2, <2>1, <2>2 DEF CountIsDone
<1>6. OneCounts'
    BY <1>5 DEF OneCounts
<1>. QED  BY <1>3, <1>4, <1>6 DEF EntIInv

LEMMA ReplaceKeeps ==
    ASSUME EntIInv, NEW t \in Callers, Replace(t)
    PROVE  EntIInv'
<1>1. PICK c \in Conversion : c = conv[t]
    BY DEF EntIInv, EntTypes
<1>. DEFINE s    == c.rv
            amps == Places(s, Amp, c.amp)
            amp  == Min(amps)
            semi == Places(s, Semi, amp)
            sc   == Min(semi)
            code == SubSeq(s, amp + 1, sc - 1)
            To(rv, i) == conv' = [conv EXCEPT ![t] = [c EXCEPT !.rv = rv, !.amp = i]]
            new  == SubSeq(s, 1, amp - 1) \o <<hcerc2asc[code[1]]>> \o SubSeq(s, sc + 1, Len(s))
<1>2. conv[t].at = "replace" /\ c.at = "replace" /\ maxlen' = maxlen /\ order' = order /\ alone' = alone
    BY <1>1 DEF Replace
<1>3. IF amps = {} \/ semi = {} THEN conv' = [conv EXCEPT ![t] = [c EXCEPT !.at = "idle"]]
      ELSE IF Size(code) > maxlen THEN To(s, amp + 1)
      ELSE IF \A x \in Codes : code # <<x>> THEN To(s, sc + 1)
      ELSE To(new, amp + 1)
    BY <1>1 DEF Replace, Amp, Semi
<1>4. conv \in [Callers -> Conversion] /\ alone \in BOOLEAN /\ order \in Orders /\ maxlen \in Nat
    BY MaxlenIsNumber DEF EntIInv, EntTypes
<1>5. PICK l \in Nat \ {0} : l = Len(order)
    BY <1>4, OrdersAre
<1>6. CallIn(c, l, alone)
    BY <1>1, <1>5 DEF EntIInv, CallsKept
<1>7. c.i \in 1..(l + 1) /\ c.text \in HtmlTexts /\ \E R, p, k : Stands(c.text, c.rv, c.amp, R, p, k) /\ (alone => GotTo(c.text, R, k))
  <2>1. c.at # "idle"
      BY <1>2
  <2>. QED  BY <1>2, <1>6, <2>1 DEF CallIn
<1>8. PICK R, p, k : Stands(c.text, c.rv, c.amp, R, p, k) /\ (alone => GotTo(c.text, R, k))
    BY <1>7
<1>9. PICK text \in Seq(Word) : text = c.text /\ text \in HtmlTexts
    BY <1>7, TextsAre
<1>10. alone => LongestKnown /\ maxlen = Longest
    BY <1>2, LoopAfterCount, CountedIsLongest DEF EntIInv
\* A call that goes on
<1>11. ASSUME NEW rv, NEW i, To(rv, i),
              GoesOnWith(text, rv, i, alone)
       PROVE  EntIInv'
  <2>1. PICK R2, p2, k2 : Stands(text, rv, i, R2, p2, k2) /\ (alone => GotTo(text, R2, k2))
      BY <1>11 DEF GoesOnWith
  <2>2. i \in Nat \ {0} /\ rv \in Seq(Word) /\ k2 \in 1..(Len(text) + 1) /\ Len(rv) = (i - 1) + (Len(text) + 1 - k2)
      BY <2>1, StandsAsItWas
  <2>3. i \in 1..(Len(rv) + 1)
    <3>1. PICK L \in Nat : L = Len(text)
        BY LenProperties
    <3>2. k2 \in 1..(L + 1) /\ Len(rv) = (i - 1) + (L + 1 - k2)
        BY <2>2, <3>1
    <3>3. PICK n \in Nat : n = L + 1 - k2
        BY <3>2
    <3>4. PICK m \in Nat : m = i - 1
        BY <2>2
    <3>5. Len(rv) = m + n /\ i = m + 1
        BY <2>2, <3>2, <3>3, <3>4
    <3>. QED  BY <3>5
  <2>4. PICK d \in Conversion : d = [c EXCEPT !.rv = rv, !.amp = i]
      BY <2>2 DEF Conversion
  <2>5. d.at = "replace" /\ d.i = c.i /\ d.text = text /\ d.rv = rv /\ d.amp = i
      BY <1>2, <1>9, <2>4 DEF Conversion
  <2>6. CallIn(d, l, alone)
    <3>1. \E R3, p3, k3 : Stands(d.text, d.rv, d.amp, R3, p3, k3) /\ (alone => GotTo(d.text, R3, k3))
        BY <2>1, <2>5
    <3>2. d.at \notin Counting /\ d.at # "test" /\ d.at # "idle"
        BY <2>5 DEF Counting
    <3>. QED  BY <1>7, <1>9, <2>3, <2>5, <3>1, <3>2 DEF CallIn
  <2>7. conv' = [conv EXCEPT ![t] = d]
      BY <1>11, <2>4
  <2>8. d.at \in {"replace", "idle"}
      BY <2>5
  <2>. QED  BY <1>2, <1>5, <2>6, <2>7, <2>8, TurnKeeps
<1>12. CASE amps = {} \/ semi = {}
  <2>1. conv' = [conv EXCEPT ![t] = [c EXCEPT !.at = "idle"]]
      BY <1>3, <1>12
  <2>2. PICK d \in Conversion : d = [c EXCEPT !.at = "idle"]
      BY DEF Conversion
  <2>3. d.at = "idle" /\ d.i = c.i /\ d.text = text /\ d.rv = c.rv /\ d.amp = c.amp
      BY <1>9, <2>2 DEF Conversion
  <2>4. c.rv = Plain(text, R) /\ R \in SUBSET CodesAt(text)
      BY <1>8, <1>9, StandsPlain DEF Stands
  <2>5. alone => R = Unhidden(text)
    <3>. SUFFICES ASSUME alone PROVE R = Unhidden(text)
        OBVIOUS
    <3>1. Stands(text, s, c.amp, R, p, k) /\ GotTo(text, R, k)
        BY <1>8, <1>9
    <3>2. k \in Nat /\ k \in 1..(Len(text) + 1) /\ s \in Seq(Word) /\ c.amp \in Nat
        BY <3>1, InText, StandsAsItWas
    <3>3. PICK L \in Nat : L = Len(text)
        BY LenProperties
    <3>4. PICK e \in Nat : e = c.amp
        BY <3>2
    <3>7. Behind(text, s, c.amp, k)
        BY <3>1, TextIsBehind
    <3>5. CASE amps = {}
      <4>1. ASSUME NEW i \in Places(text, Amp, k) PROVE FALSE
        <5>1. i \in k..Len(text) /\ text[i] = Amp
            BY <4>1 DEF Places
        <5>2. PICK j : j = c.amp + (i - k)
            OBVIOUS
        <5>3. j \in c.amp..Len(s) /\ s[j] = text[i]
            BY <3>7, <5>1, <5>2 DEF Behind
        <5>4. j \in amps
            BY <5>1, <5>3 DEF Places
        <5>. QED  BY <3>5, <5>4
      <4>2. Places(text, Amp, k) = {}
          BY <4>1
      <4>. QED  BY <3>1, <3>2, <4>2, Finishes DEF Unhidden
    <3>6. CASE amps # {} /\ semi = {}
      <4>1. FirstOf(s, Amp, c.amp, amp)
          BY <3>2, <3>6, FirstPlace
      <4>2. amp \in c.amp..Len(s)
          BY <4>1 DEF FirstOf
      <4>3. amp - c.amp + k \in k..Len(text)
          BY <3>1, <4>2, InText
      <4>4. FirstOf(s, Amp, c.amp + (k - k), amp) /\ k \in k..Len(text)
        <5>1. c.amp + (k - k) = c.amp
            BY <3>2
        <5>2. k \in k..Len(text)
          <6>1. amp - c.amp + k \in k..L
              BY <3>3, <4>3
          <6>2. k \in k..L
              BY <3>2, <6>1
          <6>. QED  BY <3>3, <6>2
        <5>. QED  BY <4>1, <5>1, <5>2
      <4>5. PICK a : a = amp - c.amp + k
          OBVIOUS
      <4>6. a \in k..Len(text) /\ amp = c.amp + (a - k) /\ FirstOf(text, Amp, k, a)
          BY <3>1, <4>4, <4>5, FirstInText
      <4>7. ASSUME NEW i \in Places(text, Semi, a) PROVE FALSE
        <5>1. i \in a..Len(text) /\ text[i] = Semi
            BY <4>7 DEF Places
        <5>2. i \in k..Len(text) /\ i \in Int /\ a <= i /\ k \in Int /\ a \in Int
          <6>1. i \in a..L /\ a \in k..L
              BY <3>3, <4>6, <5>1
          <6>2. i \in k..L /\ i \in Int /\ a <= i /\ k \in Int /\ a \in Int
              BY <3>2, <6>1
          <6>. QED  BY <3>3, <6>2
        <5>3. PICK j : j = c.amp + (i - k)
            OBVIOUS
        <5>4. j \in c.amp..Len(s) /\ s[j] = text[i]
            BY <3>7, <5>2, <5>3 DEF Behind
        <5>5. j \in amp..Len(s)
          <6>1. PICK M \in Nat : M = Len(s)
              BY <3>2, LenProperties
          <6>2. PICK x \in Int : x = amp /\ x = e + (a - k)
              BY <3>4, <4>6, <5>2
          <6>3. j \in e..M /\ j = e + (i - k)
              BY <3>4, <5>3, <5>4, <6>1
          <6>4. j \in x..M
              BY <5>2, <6>2, <6>3
          <6>. QED  BY <6>1, <6>2, <6>4
        <5>6. j \in semi
            BY <5>1, <5>4, <5>5 DEF Places
        <5>. QED  BY <3>6, <5>6
      <4>8. Places(text, Semi, a) = {}
          BY <4>7
      <4>. QED  BY <3>1, <3>2, <4>6, <4>8, Finishes DEF Unhidden
    <3>. QED  BY <1>12, <3>5, <3>6
  <2>6. CallIn(d, l, alone)
    <3>1. d.at \notin Counting /\ d.at # "test" /\ d.at # "replace"
        BY <2>3 DEF Counting
    <3>2. c.amp \in 1..(Len(c.rv) + 1)
        BY <1>6 DEF CallIn
    <3>3. IF alone THEN d.rv = Plain(d.text, Unhidden(d.text)) ELSE \E Q \in SUBSET CodesAt(d.text) : d.rv = Plain(d.text, Q)
        BY <2>3, <2>4, <2>5
    <3>. QED  BY <1>7, <2>3, <3>1, <3>2, <3>3 DEF CallIn
  <2>7. conv' = [conv EXCEPT ![t] = d]
      BY <2>1, <2>2
  <2>8. d.at \in {"replace", "idle"}
      BY <2>3
  <2>. QED  BY <1>2, <1>5, <2>6, <2>7, <2>8, TurnKeeps
<1>13. CASE amps # {} /\ semi # {}
  <2>0. Stands(text, s, c.amp, R, p, k) /\ (alone => LongestKnown /\ GotTo(text, R, k))
      BY <1>8, <1>9, <1>10
  <2>1. PICK e : e = amp
      OBVIOUS
  <2>2. PICK f : f = sc
      OBVIOUS
  <2>3. PICK x : x = code
      OBVIOUS
  <2>4. /\ e = Min(Places(s, Amp, c.amp)) /\ Places(s, Amp, c.amp) # {}
        /\ f = Min(Places(s, Semi, e)) /\ Places(s, Semi, e) # {}
        /\ x = SubSeq(s, e + 1, f - 1)
      BY <1>13, <2>1, <2>2, <2>3
  <2>5. /\ Size(x) > maxlen => GoesOnWith(text, s, e + 1, alone)
        /\ ~(Size(x) > maxlen) /\ (\A v \in Codes : x # <<v>>) => GoesOnWith(text, s, f + 1, alone)
        /\ ~(Size(x) > maxlen) /\ ~(\A v \in Codes : x # <<v>>)
             => GoesOnWith(text, SubSeq(s, 1, e - 1) \o <<hcerc2asc[x[1]]>> \o SubSeq(s, f + 1, Len(s)), e + 1, alone)
    <3>1. Turns(text, s, e, f, x, maxlen, alone)
        BY <1>4, <1>9, <1>10, <2>0, <2>4, LoopTurns
    <3>. QED  BY <3>1 DEF Turns
  <2>6. new = SubSeq(s, 1, e - 1) \o <<hcerc2asc[x[1]]>> \o SubSeq(s, f + 1, Len(s))
      BY <2>1, <2>2, <2>3
  <2>7. /\ Size(x) > maxlen => To(s, e + 1)
        /\ ~(Size(x) > maxlen) /\ (\A v \in Codes : x # <<v>>) => To(s, f + 1)
        /\ ~(Size(x) > maxlen) /\ ~(\A v \in Codes : x # <<v>>) => To(new, e + 1)
      BY <1>3, <1>13, <2>1, <2>2, <2>3
  <2>. HIDE DEF s, amps, amp, semi, sc, code, new, To
  <2>8. CASE Size(x) > maxlen
      BY <1>11, <2>5, <2>7, <2>8
  <2>9. CASE ~(Size(x) > maxlen) /\ (\A v \in Codes : x # <<v>>)
      BY <1>11, <2>5, <2>7, <2>9
  <2>10. CASE ~(Size(x) > maxlen) /\ ~(\A v \in Codes : x # <<v>>)
      BY <1>11, <2>5, <2>6, <2>7, <2>10
  <2>. QED  BY <2>8, <2>9, <2>10
<1>. QED  BY <1>12, <1>13

LEMMA EntIInvStep ==
    EntIInv /\ [EntitiesNext]_entityVars => EntIInv'
<1>1. ASSUME EntIInv, EntitiesNext PROVE EntIInv'
  <2>1. PICK t \in Callers : Convert(t) \/ TestMaxlen(t) \/ Compare(t) \/ AssignMaxlen(t) \/ Replace(t)
      BY <1>1 DEF EntitiesNext
  <2>. QED  BY <1>1, <2>1, ConvertKeeps, TestMaxlenKeeps, CompareKeeps, AssignMaxlenKeeps, ReplaceKeeps
<1>2. ASSUME EntIInv, UNCHANGED entityVars PROVE EntIInv'
  <2>1. maxlen' = maxlen /\ order' = order /\ conv' = conv /\ alone' = alone
      BY <1>2 DEF entityVars
  <2>2. EntTypes'
      BY <1>2, <2>1 DEF EntIInv, EntTypes
  <2>3. CallsKept'
      BY <1>2, <2>1 DEF EntIInv, CallsKept
  <2>4. OneCounts'
      BY <1>2, <2>1 DEF EntIInv, OneCounts, NobodyCounts, CountsAlone, CountIsDone
  <2>. QED  BY <2>2, <2>3, <2>4 DEF EntIInv
<1>. QED  BY <1>1, <1>2

LEMMA CodesAreReplaced == EntIInv => CodesReplaced
<1>. SUFFICES ASSUME EntIInv, NEW t \in Callers, conv[t].at = "idle"
              PROVE  LET s == conv[t].text
                     IN  IF alone THEN conv[t].rv = Plain(s, {i \in CodesAt(s) : ~Hidden(s, i)})
                         ELSE \E R \in SUBSET CodesAt(s) : conv[t].rv = Plain(s, R)
    BY DEF CodesReplaced, NotCalling
<1>1. CallIn(conv[t], Len(order), alone)
    BY DEF EntIInv, CallsKept
<1>. QED  BY <1>1 DEF CallIn, Unhidden

LEMMA EntitiesTyped == EntIInv => EntitiesTypeOK
<1>. SUFFICES ASSUME EntIInv PROVE EntitiesTypeOK
    OBVIOUS
<1>1. ASSUME NEW t \in Callers
      PROVE  /\ conv[t].at \in {"idle", "test", "compare", "assign", "replace"}
             /\ conv[t].text \in HtmlTexts \cup {<<>>}
             /\ conv[t].i \in 1..(Len(order) + 1)
             /\ conv[t].amp \in 1..(Len(conv[t].rv) + 1)
  <2>1. CallIn(conv[t], Len(order), alone) /\ conv[t] \in Conversion
      BY DEF EntIInv, CallsKept, EntTypes
  <2>2. conv[t].at \in {"idle", "test", "compare", "assign", "replace"} /\ conv[t].text \in HtmlTexts \cup {<<>>}
      BY <2>1 DEF Conversion
  <2>3. conv[t].i \in 1..(Len(order) + 1) /\ conv[t].amp \in 1..(Len(conv[t].rv) + 1)
      BY <2>1 DEF CallIn
  <2>. QED  BY <2>2, <2>3
<1>. QED  BY <1>1 DEF EntIInv, EntTypes, EntitiesTypeOK

-----------------------------------------------------------------------------
(* The value of a Roman numeral                                              *)

\* p[n] is the sum of the first n numbers of c, for each n up to N.
IsSum(p, c, N) == /\ p[0] = 0 /\ \A n \in 1..N : p[n] = p[n - 1] + c[n]
                  /\ \A n \in 0..N : p[n] \in Int

\* The fold of + is a sum.
LEMMA SumsUp ==
    ASSUME NEW N \in Nat, NEW c \in [1..N -> Int]
    PROVE  \E p : IsSum(p, c, N) /\ FoldLeft(+, 0, c) = p[N]
<1>. DEFINE g == [i \in 1..N |-> [v \in Int |-> v + c[i]]]
            Body(k) == [x \in SUBSET DOMAIN c |-> IF x = {} THEN 0 ELSE k[x \ {Max(x)}] + c[Max(x)]]
<1>1. DOMAIN c = 1..N /\ \A i \in 1..N : c[i] \in Int
    OBVIOUS
<1>2. g \in [1..N -> [Int -> Int]]
    BY <1>1
<1>3. \A i \in 1..N, v \in Int : g[i][v] = v + c[i]
    OBVIOUS
<1>4. PICK f \in [SUBSET (1..N) -> Int] : GoesThrough(f, N, 0, g)
  <2>1. PICK x \in Int : x = 0
      OBVIOUS
  <2>. HIDE DEF g
  <2>2. \E f \in [SUBSET (1..N) -> Int] : GoesThrough(f, N, x, g)
      BY <1>2, SetRecursion
  <2>. QED  BY <2>1, <2>2
<1>. HIDE DEF g
<1>5. \A x \in SUBSET (1..N) : x # {} => Max(x) \in 1..N /\ x \ {Max(x)} \in SUBSET (1..N)
    BY LargestNumber
<1>6. \A x \in SUBSET (1..N) : f[x] = IF x = {} THEN 0 ELSE f[x \ {Max(x)}] + c[Max(x)]
    BY <1>3, <1>4, <1>5 DEF GoesThrough
<1>7. f = Body(f)
    BY <1>1, <1>6
<1>8. PICK h : h = CHOOSE k : k = Body(k)
    OBVIOUS
<1>9. h = Body(h)
  <2>. HIDE DEF Body
  <2>. QED  BY <1>7, <1>8
<1>10. FoldLeft(+, 0, c) = h[DOMAIN c]
    BY <1>8 DEF FoldLeft, MapThenFoldSet
<1>11. h[{}] = 0 /\ \A x \in SUBSET (1..N) : x # {} => h[x] = h[x \ {Max(x)}] + c[Max(x)]
    BY <1>1, <1>9
<1>. DEFINE p == [n \in 0..N |-> h[1..n]]
<1>12. p[0] = 0
    BY <1>11
<1>13. \A n \in 1..N : p[n] = p[n - 1] + c[n]
  <2>. SUFFICES ASSUME NEW n \in 1..N PROVE p[n] = p[n - 1] + c[n]
      OBVIOUS
  <2>1. Max(1..n) = n /\ (1..n) \ {n} = 1..(n - 1) /\ 1..n # {} /\ 1..n \in SUBSET (1..N)
      BY LargestIsLast
  <2>2. n \in 0..N /\ n - 1 \in 0..N
      OBVIOUS
  <2>3. h[1..n] = h[1..(n - 1)] + c[n]
      BY <1>11, <2>1
  <2>. QED  BY <2>2, <2>3
<1>14. FoldLeft(+, 0, c) = p[N]
  <2>1. p[N] = h[1..N]
      OBVIOUS
  <2>2. FoldLeft(+, 0, c) = h[1..N]
      BY <1>1, <1>10
  <2>. QED  BY <2>1, <2>2
<1>. HIDE DEF p
<1>15. \A n \in 0..N : p[n] \in Int
  <2>. DEFINE T == {n \in 0..N : p[n] \in Int}
  <2>1. 0 \in T
      BY <1>12
  <2>2. ASSUME NEW n \in 1..N, n - 1 \in T PROVE n \in T
    <3>1. PICK x \in Int : x = p[n - 1]
        BY <2>2
    <3>2. PICK y \in Int : y = c[n]
        BY <1>1
    <3>3. p[n] = x + y /\ n \in 0..N
        BY <1>13, <3>1, <3>2
    <3>. QED  BY <3>3
  <2>3. T = 0..N
    <3>1. T \in SUBSET (0..N)
        OBVIOUS
    <3>. HIDE DEF T
    <3>. QED  BY <2>1, <2>2, <3>1, UpTo
  <2>. QED  BY <2>3
<1>. QED  BY <1>12, <1>13, <1>14, <1>15 DEF IsSum

\* Sums of the same numbers are the same.
LEMMA SumsAlike ==
    \A N \in Nat : \A c, d : (\A i \in 1..N : c[i] = d[i]) =>
        \A p, q : IsSum(p, c, N) /\ IsSum(q, d, N) => p[N] = q[N]
<1>. SUFFICES ASSUME NEW N \in Nat, NEW c, NEW d, \A i \in 1..N : c[i] = d[i],
                     NEW p, NEW q, IsSum(p, c, N), IsSum(q, d, N)
              PROVE  p[N] = q[N]
    OBVIOUS
<1>. DEFINE T == {n \in 0..N : p[n] = q[n]}
<1>1. 0 \in T
    BY DEF IsSum
<1>2. ASSUME NEW n \in 1..N, n - 1 \in T PROVE n \in T
    BY <1>2 DEF IsSum
<1>3. T = 0..N
  <2>1. T \in SUBSET (0..N)
      OBVIOUS
  <2>. HIDE DEF T
  <2>. QED  BY <1>1, <1>2, <2>1, UpTo
<1>. QED  BY <1>3

\* What each numeral of s counts for
Counted(s) == [i \in DOMAIN s |-> Counts(s, i)]

LEMMA CountedType ==
    ASSUME NEW s \in Seq(Nat)
    PROVE  /\ Len(s) \in Nat /\ DOMAIN s = 1..Len(s)
           /\ Counted(s) \in [1..Len(s) -> Int]
           /\ \A i \in 1..Len(s) : Counted(s)[i] = Counts(s, i)
<1>1. PICK N \in Nat : N = Len(s) /\ DOMAIN s = 1..N
    BY LenProperties
<1>2. \A i \in 1..N : Counts(s, i) \in Int
  <2>. SUFFICES ASSUME NEW i \in 1..N PROVE Counts(s, i) \in Int
      OBVIOUS
  <2>1. PICK a \in Nat : a = s[i]
      BY <1>1, ElementOfSeq
  <2>2. -a \in Int
      OBVIOUS
  <2>. QED  BY <2>1, <2>2 DEF Counts
<1>. QED  BY <1>1, <1>2 DEF Counted

LEMMA ValueIsSum ==
    ASSUME NEW s \in Seq(Nat)
    PROVE  \E p : IsSum(p, Counted(s), Len(s)) /\ ValueOf(s) = p[Len(s)] /\ ValueOf(s) \in Int
<1>1. PICK p : IsSum(p, Counted(s), Len(s)) /\ FoldLeft(+, 0, Counted(s)) = p[Len(s)]
    BY CountedType, SumsUp
<1>2. ValueOf(s) = FoldLeft(+, 0, Counted(s))
    BY DEF ValueOf, Counted
<1>3. p[Len(s)] \in Int
  <2>1. PICK N \in Nat : N = Len(s)
      BY LenProperties
  <2>2. \A n \in 0..N : p[n] \in Int
      BY <1>1, <2>1 DEF IsSum
  <2>3. N \in 0..N
      OBVIOUS
  <2>. QED  BY <2>1, <2>2, <2>3
<1>. QED  BY <1>1, <1>2, <1>3

\* Without numerals there is no value.
LEMMA NoValue == ValueOf(<<>>) = 0
<1>1. <<>> \in Seq(Nat) /\ Len(<<>>) = 0
    OBVIOUS
<1>2. PICK p : IsSum(p, Counted(<<>>), Len(<<>>)) /\ ValueOf(<<>>) = p[Len(<<>>)]
    BY <1>1, ValueIsSum
<1>. QED  BY <1>1, <1>2 DEF IsSum

\* A numeral behind ones that are not smaller adds its value.
LEMMA OneMoreCounts ==
    ASSUME NEW s \in Seq(Nat), NEW y \in Nat, s # <<>> => y <= s[Len(s)]
    PROVE  /\ Append(s, y) \in Seq(Nat) /\ Len(Append(s, y)) = Len(s) + 1 /\ Append(s, y)[Len(s) + 1] = y
           /\ ValueOf(Append(s, y)) = ValueOf(s) + y
<1>. DEFINE t == Append(s, y)
<1>1. PICK N \in Nat : N = Len(s) /\ DOMAIN s = 1..N
    BY LenProperties
<1>2. t \in Seq(Nat) /\ Len(t) = N + 1 /\ t[N + 1] = y /\ \A i \in 1..N : t[i] = s[i]
    BY <1>1, AppendProperties
<1>. HIDE DEF t
<1>3. PICK p : IsSum(p, Counted(s), N) /\ ValueOf(s) = p[N]
    BY <1>1, ValueIsSum
<1>4. PICK q : IsSum(q, Counted(t), N + 1) /\ ValueOf(t) = q[N + 1]
    BY <1>2, ValueIsSum
<1>5. \A i \in 1..N : s[i] \in Nat
    BY <1>1, ElementOfSeq
<1>6. \A i \in 1..N : Counts(t, i) = Counts(s, i)
  <2>. SUFFICES ASSUME NEW i \in 1..N PROVE Counts(t, i) = Counts(s, i)
      OBVIOUS
  <2>1. CASE i = N
    <3>1. ~(s[i] < y)
      <4>1. s # <<>> /\ y <= s[N] /\ s[N] \in Nat
          BY <1>1, <1>5
      <4>. QED  BY <2>1, <4>1
    <3>2. t[i] = s[i] /\ t[i + 1] = y
        BY <1>2, <2>1
    <3>3. ~(i < Len(s))
        BY <1>1, <2>1
    <3>. QED  BY <3>1, <3>2, <3>3 DEF Counts
  <2>2. CASE i # N
    <3>1. i + 1 \in 1..N /\ i < N /\ i < N + 1
        BY <2>2
    <3>2. t[i] = s[i] /\ t[i + 1] = s[i + 1]
        BY <1>2, <3>1
    <3>. QED  BY <1>1, <1>2, <3>1, <3>2 DEF Counts
  <2>. QED  BY <2>1, <2>2
<1>7. Counts(t, N + 1) = y
    BY <1>2 DEF Counts
<1>8. \A i \in 1..N : Counted(s)[i] = Counted(t)[i]
  <2>1. \A i \in 1..N : i \in 1..(N + 1)
      OBVIOUS
  <2>. QED  BY <1>1, <1>2, <1>6, <2>1, CountedType
<1>9. IsSum(q, Counted(t), N)
  <2>1. \A i \in 0..N : i \in 0..(N + 1)
      OBVIOUS
  <2>2. \A i \in 1..N : i \in 1..(N + 1)
      OBVIOUS
  <2>. QED  BY <1>4, <2>1, <2>2 DEF IsSum
<1>10. p[N] = q[N]
  <2>1. PICK c, d : c = Counted(s) /\ d = Counted(t)
      OBVIOUS
  <2>2. IsSum(p, c, N) /\ IsSum(q, d, N) /\ \A i \in 1..N : c[i] = d[i]
      BY <1>3, <1>8, <1>9, <2>1
  <2>3. N \in Nat
      OBVIOUS
  <2>4. \A f1, f2 : IsSum(f1, c, N) /\ IsSum(f2, d, N) => f1[N] = f2[N]
      BY ONLY <2>2, <2>3, SumsAlike, ZenonT(40)
  <2>. QED  BY ONLY <2>2, <2>4
<1>11. q[N + 1] = q[N] + y
  <2>1. N + 1 \in 1..(N + 1) /\ N + 1 - 1 = N
      OBVIOUS
  <2>2. Counted(t)[N + 1] = y
      BY <1>2, <1>7, <2>1, CountedType
  <2>. QED  BY <1>4, <2>1, <2>2 DEF IsSum
<1>. QED  BY <1>1, <1>2, <1>3, <1>4, <1>10, <1>11 DEF t

\* And one that is smaller than the one behind it counts against it.
LEMMA PairCounts ==
    ASSUME NEW s \in Seq(Nat), NEW j \in Nat, NEW v \in Nat, j < v, s # <<>> => j <= s[Len(s)]
    PROVE  LET t == s \o <<j, v>>
           IN  /\ t \in Seq(Nat) /\ Len(t) = Len(s) + 2 /\ t[Len(s) + 1] = j /\ t[Len(s) + 2] = v
               /\ \A i \in 1..Len(s) : t[i] = s[i]
               /\ ValueOf(t) = ValueOf(s) + (v - j)
<1>. DEFINE r == Append(s, j)
            t == s \o <<j, v>>
<1>1. PICK N \in Nat : N = Len(s) /\ DOMAIN s = 1..N
    BY LenProperties
<1>2. r \in Seq(Nat) /\ Len(r) = N + 1 /\ r[N + 1] = j /\ ValueOf(r) = ValueOf(s) + j
    BY <1>1, OneMoreCounts
<1>2a. \A i \in 1..N : r[i] = s[i]
    BY <1>1, AppendProperties
<1>3. t \in Seq(Nat) /\ Len(t) = N + 2 /\ t[N + 1] = j /\ t[N + 2] = v /\ \A i \in 1..N : t[i] = s[i]
  <2>1. <<j, v>> \in Seq(Nat) /\ Len(<<j, v>>) = 2
      OBVIOUS
  <2>2. t \in Seq(Nat) /\ Len(t) = N + 2 /\ \A i \in 1..(N + 2) : t[i] = IF i <= N THEN s[i] ELSE <<j, v>>[i - N]
      BY <1>1, <2>1, ConcatProperties
  <2>3. N + 1 \in 1..(N + 2) /\ N + 2 \in 1..(N + 2) /\ ~(N + 1 <= N) /\ ~(N + 2 <= N) /\ N + 1 - N = 1 /\ N + 2 - N = 2
      OBVIOUS
  <2>4. t[N + 1] = j /\ t[N + 2] = v
      BY <2>2, <2>3
  <2>5. \A i \in 1..N : i \in 1..(N + 2) /\ i <= N
      OBVIOUS
  <2>. QED  BY <2>2, <2>4, <2>5
<1>. HIDE DEF r, t
<1>4. PICK p : IsSum(p, Counted(r), N + 1) /\ ValueOf(r) = p[N + 1]
    BY <1>2, ValueIsSum
<1>5. PICK q : IsSum(q, Counted(t), N + 2) /\ ValueOf(t) = q[N + 2]
    BY <1>3, ValueIsSum
<1>6. \A i \in 1..N : Counts(t, i) = Counts(r, i)
  <2>. SUFFICES ASSUME NEW i \in 1..N PROVE Counts(t, i) = Counts(r, i)
      OBVIOUS
  <2>1. i < N + 1 /\ i < N + 2 /\ (i + 1 \in 1..N \/ i + 1 = N + 1)
      OBVIOUS
  <2>2. t[i] = r[i] /\ t[i + 1] = r[i + 1]
      BY <1>2, <1>2a, <1>3, <2>1
  <2>. QED  BY <1>2, <1>3, <2>1, <2>2 DEF Counts
<1>7. Counts(r, N + 1) = j /\ Counts(t, N + 1) = -j /\ Counts(t, N + 2) = v
  <2>1. N + 1 < N + 2 /\ N + 1 + 1 = N + 2 /\ ~(N + 1 < N + 1) /\ ~(N + 2 < N + 2)
      OBVIOUS
  <2>. QED  BY <1>2, <1>3, <2>1 DEF Counts
<1>8. \A i \in 1..N : Counted(r)[i] = Counted(t)[i]
  <2>1. \A i \in 1..N : i \in 1..(N + 1) /\ i \in 1..(N + 2)
      OBVIOUS
  <2>. QED  BY <1>2, <1>3, <1>6, <2>1, CountedType
<1>9. IsSum(p, Counted(r), N) /\ IsSum(q, Counted(t), N)
  <2>1. \A i \in 0..N : i \in 0..(N + 1) /\ i \in 0..(N + 2)
      OBVIOUS
  <2>2. \A i \in 1..N : i \in 1..(N + 1) /\ i \in 1..(N + 2)
      OBVIOUS
  <2>. QED  BY <1>4, <1>5, <2>1, <2>2 DEF IsSum
<1>10. p[N] = q[N] /\ p[N] \in Int
  <2>0. PICK c, d : c = Counted(r) /\ d = Counted(t)
      OBVIOUS
  <2>a. IsSum(p, c, N) /\ IsSum(q, d, N) /\ \A i \in 1..N : c[i] = d[i]
      BY <1>8, <1>9, <2>0
  <2>b. N \in Nat
      OBVIOUS
  <2>c. \A f1, f2 : IsSum(f1, c, N) /\ IsSum(f2, d, N) => f1[N] = f2[N]
      BY ONLY <2>a, <2>b, SumsAlike, ZenonT(40)
  <2>1. p[N] = q[N]
      BY ONLY <2>a, <2>c
  <2>. QED  BY <1>9, <2>1 DEF IsSum
<1>11. p[N + 1] = p[N] + j /\ q[N + 2] = q[N] - j + v
  <2>1. N + 1 \in 1..(N + 1) /\ N + 1 \in 1..(N + 2) /\ N + 2 \in 1..(N + 2) /\ N + 1 - 1 = N /\ N + 2 - 1 = N + 1
      OBVIOUS
  <2>2. Counted(r)[N + 1] = j /\ Counted(t)[N + 1] = -j /\ Counted(t)[N + 2] = v
      BY <1>2, <1>3, <1>7, <2>1, CountedType
  <2>3. p[N + 1] = p[N] + j /\ q[N + 1] = q[N] + (-j) /\ q[N + 2] = q[N + 1] + v
      BY <1>4, <1>5, <2>1, <2>2, SMTT(30) DEF IsSum
  <2>. QED  BY <1>10, <2>3
<1>12. PICK a \in Int : a = ValueOf(s)
    BY ValueIsSum
<1>13. ValueOf(t) = ValueOf(s) + (v - j)
  <2>1. PICK x \in Int : x = p[N]
      BY <1>10
  <2>2. p[N + 1] = x + j /\ q[N + 2] = x - j + v
      BY <1>10, <1>11, <2>1
  <2>3. p[N + 1] = a + j
      BY <1>2, <1>4, <1>12
  <2>4. x = a
      BY <2>2, <2>3
  <2>5. ValueOf(t) = a + (v - j)
      BY <1>5, <2>2, <2>4
  <2>. QED  BY <1>12, <2>5
<1>. QED  BY <1>1, <1>3, <1>13 DEF t

Times(v, q) == [k \in 1..q |-> v]

\* w is s with v behind it, q times.
Filled(w, s, v, q) ==
    /\ w \in Seq(Nat) /\ Len(w) = Len(s) + q
    /\ \A i \in 1..Len(s) : w[i] = s[i]
    /\ \A i \in (Len(s) + 1)..(Len(s) + q) : w[i] = v

LEMMA NumbersJoin ==
    \A a, b \in Seq(Nat) :
        /\ a \o b \in Seq(Nat) /\ Len(a \o b) = Len(a) + Len(b)
        /\ \A i \in 1..(Len(a) + Len(b)) : (a \o b)[i] = IF i <= Len(a) THEN a[i] ELSE b[i - Len(a)]
BY ConcatProperties

LEMMA FilledUp ==
    ASSUME NEW s \in Seq(Nat), NEW v \in Nat, NEW q \in Nat
    PROVE  Filled(s \o Times(v, q), s, v, q)
<1>1. PICK N \in Nat : N = Len(s)
    BY LenProperties
<1>2. PICK u \in Seq(Nat) : u = Times(v, q) /\ Len(u) = q /\ \A i \in 1..q : u[i] = v
  <2>1. Times(v, q) \in [1..q -> Nat] /\ \A i \in 1..q : Times(v, q)[i] = v
      BY DEF Times
  <2>2. PICK u : u = Times(v, q)
      OBVIOUS
  <2>3. u \in [1..q -> Nat]
      BY <2>1, <2>2
  <2>4. u \in Seq(Nat) /\ Len(u) = q
      BY <2>3
  <2>. QED  BY <2>1, <2>2, <2>4
<1>3. s \o u \in Seq(Nat) /\ Len(s \o u) = N + q /\ \A i \in 1..(N + q) : (s \o u)[i] = IF i <= N THEN s[i] ELSE u[i - N]
  <2>1. /\ s \o u \in Seq(Nat) /\ Len(s \o u) = Len(s) + Len(u)
        /\ \A i \in 1..(Len(s) + Len(u)) : (s \o u)[i] = IF i <= Len(s) THEN s[i] ELSE u[i - Len(s)]
      BY NumbersJoin
  <2>2. Len(s) = N /\ Len(u) = q
      BY <1>1, <1>2
  <2>. QED  BY <2>1, <2>2
<1>4. \A i \in 1..N : i \in 1..(N + q) /\ i <= N
    OBVIOUS
<1>5. \A i \in (N + 1)..(N + q) : i \in 1..(N + q) /\ ~(i <= N) /\ i - N \in 1..q
    OBVIOUS
<1>6. \A i \in (N + 1)..(N + q) : (s \o u)[i] = v
    BY <1>2, <1>3, <1>5
<1>7. \A i \in 1..N : (s \o u)[i] = s[i]
    BY <1>3, <1>4
<1>. QED  BY <1>1, <1>2, <1>3, <1>6, <1>7 DEF Filled

\* The value grows by each of them.
LEMMA FilledCounts ==
    ASSUME NEW s \in Seq(Nat), NEW v \in Nat, NEW q \in Nat, s # <<>> => v <= s[Len(s)]
    PROVE  ValueOf(s \o Times(v, q)) = ValueOf(s) + q * v
<1>. DEFINE T == {n \in 0..q : ValueOf(s \o Times(v, n)) = ValueOf(s) + n * v}
<1>0. PICK a \in Int : a = ValueOf(s)
    BY ValueIsSum
<1>1. 0 \in T
  <2>1. Times(v, 0) = <<>>
      BY DEF Times
  <2>2. s \o <<>> = s
      OBVIOUS
  <2>3. a + 0 * v = a /\ 0 \in 0..q
      OBVIOUS
  <2>4. s \o Times(v, 0) = s
      BY <2>1, <2>2
  <2>5. ValueOf(s \o Times(v, 0)) = ValueOf(s) + 0 * v
      BY <1>0, <2>3, <2>4
  <2>. QED  BY <2>3, <2>5
<1>2. ASSUME NEW n \in 1..q, n - 1 \in T PROVE n \in T
  <2>. DEFINE r == s \o Times(v, n - 1)
              t == s \o Times(v, n)
  <2>1. n - 1 \in Nat /\ n \in Nat
      OBVIOUS
  <2>2. Filled(r, s, v, n - 1) /\ Filled(t, s, v, n)
      BY <2>1, FilledUp
  <2>3. ValueOf(r) = a + (n - 1) * v
      BY <1>0, <1>2
  <2>. HIDE DEF r, t
  <2>4. PICK N \in Nat : N = Len(s)
      BY LenProperties
  <2>5. r \in Seq(Nat) /\ Len(r) = N + (n - 1) /\ \A i \in 1..N : r[i] = s[i]
      BY <2>2, <2>4 DEF Filled
  <2>6. \A i \in (N + 1)..(N + (n - 1)) : r[i] = v
      BY <2>2, <2>4 DEF Filled
  <2>7. r # <<>> => v <= r[Len(r)]
    <3>. SUFFICES ASSUME r # <<>> PROVE v <= r[Len(r)]
        OBVIOUS
    <3>1. N + (n - 1) # 0
        BY <2>5
    <3>2. CASE n = 1
      <4>1. Len(r) = N /\ N \in 1..N /\ s # <<>>
          BY <2>1, <2>4, <2>5, <3>1, <3>2
      <4>. QED  BY <2>4, <2>5, <4>1
    <3>3. CASE n # 1
      <4>1. N + (n - 1) \in (N + 1)..(N + (n - 1))
          BY <3>3
      <4>. QED  BY <2>5, <2>6, <4>1
    <3>. QED  BY <3>2, <3>3
  <2>8. /\ Append(r, v) \in Seq(Nat) /\ Len(Append(r, v)) = N + n /\ Append(r, v)[N + n] = v
        /\ ValueOf(Append(r, v)) = ValueOf(r) + v
    <3>1. N + (n - 1) + 1 = N + n
        OBVIOUS
    <3>. QED  BY <2>5, <2>7, <3>1, OneMoreCounts
  <2>k. \A i \in 1..(N + (n - 1)) : Append(r, v)[i] = r[i]
      BY <2>5, AppendProperties
  <2>9. t = Append(r, v)
    <3>1. t \in Seq(Nat) /\ Len(t) = N + n
        BY <2>2, <2>4 DEF Filled
    <3>2. ASSUME NEW i \in 1..(N + n) PROVE t[i] = Append(r, v)[i]
      <4>1. CASE i \in 1..N
        <5>1. i \in 1..(N + (n - 1))
            BY <4>1
        <5>. QED  BY <2>2, <2>4, <2>5, <2>k, <4>1, <5>1 DEF Filled
      <4>2. CASE i \in (N + 1)..(N + (n - 1))
        <5>1. i \in 1..(N + (n - 1)) /\ i \in (N + 1)..(N + n)
            BY <4>2
        <5>. QED  BY <2>2, <2>4, <2>5, <2>6, <2>k, <4>2, <5>1 DEF Filled
      <4>3. CASE i = N + n
        <5>1. i \in (N + 1)..(N + n)
            BY <4>3
        <5>2. t[i] = v
            BY <2>2, <2>4, <5>1 DEF Filled
        <5>3. Append(r, v)[i] = v
            BY <2>8, <4>3
        <5>. QED  BY <5>2, <5>3
      <4>. HIDE DEF T
      <4>4. i \in 1..N \/ i \in (N + 1)..(N + (n - 1)) \/ i = N + n
          OBVIOUS
      <4>. QED  BY <4>1, <4>2, <4>3, <4>4
    <3>. QED  BY <2>8, <3>1, <3>2, SeqEqual
  <2>10. (n - 1) * v + v = n * v
      BY <2>1
  <2>11. (n - 1) * v \in Int /\ n * v \in Int
      BY <2>1
  <2>12. ValueOf(t) = a + n * v
      BY <2>3, <2>8, <2>9, <2>10, <2>11
  <2>. QED  BY <1>0, <2>12 DEF t
<1>3. T = 0..q
  <2>1. T \in SUBSET (0..q)
      OBVIOUS
  <2>. HIDE DEF T
  <2>. QED  BY <1>1, <1>2, <2>1, UpTo
<1>. QED  BY <1>3

-----------------------------------------------------------------------------
(* The form of a Roman numeral                                               *)

Fronts == {1, 10, 100}

Subtracts(s, i) == i < Len(s) /\ s[i] < s[i + 1]

\* Only I, X and C stand before a larger one, at most one of them, and directly;
\* and none stands four times.
OneBefore(s) == \A i \in 1..Len(s) : Subtracts(s, i) => s[i] \in Fronts /\ (i > 1 => ~Subtracts(s, i - 1))
NoneLater(s) == \A i, j \in 1..Len(s) : i < j /\ s[i] < s[j] => j = i + 1
NoFour(s) == \A i \in 4..Len(s) : ~(s[i - 1] = s[i] /\ s[i - 2] = s[i] /\ s[i - 3] = s[i])
Formed(s) == OneBefore(s) /\ NoneLater(s)

\* A numeral that is smaller than the last one and not larger than any keeps the form.
LEMMA FilledForm ==
    ASSUME NEW s \in Seq(Nat), NEW v \in Nat, NEW q \in Nat, NEW w, Filled(w, s, v, q), Formed(s),
           s # <<>> => v < s[Len(s)], q # 0 => \A i \in 1..Len(s) : v <= s[i]
    PROVE  Formed(w) /\ (q <= 3 /\ NoFour(s) => NoFour(w)) /\ (q # 0 => w[Len(w)] = v)
<1>1. PICK N \in Nat : N = Len(s)
    BY LenProperties
<1>2. /\ w \in Seq(Nat) /\ Len(w) = N + q
      /\ \A i \in 1..N : w[i] = s[i]
      /\ \A i \in (N + 1)..(N + q) : w[i] = v
    BY <1>1 DEF Filled
<1>3. \A i \in 1..N : s[i] \in Nat
    BY <1>1, ElementOfSeq
<1>4. N # 0 => v < s[N]
  <2>1. N # 0 => s # <<>>
      BY <1>1
  <2>. QED  BY <1>1, <2>1
<1>5. ASSUME NEW i \in 1..(N + q) PROVE w[i] \in Nat /\ ((i \in 1..N /\ w[i] = s[i]) \/ (i \in (N + 1)..(N + q) /\ w[i] = v))
  <2>1. i \in 1..N \/ i \in (N + 1)..(N + q)
      OBVIOUS
  <2>. QED  BY <1>2, <1>3, <2>1
<1>6. ASSUME NEW i \in 1..(N + q), i < N + q, w[i] < w[i + 1] PROVE i < N /\ Subtracts(s, i)
  <2>1. i + 1 \in 1..(N + q)
      BY <1>6
  <2>2. CASE i \in (N + 1)..(N + q)
    <3>1. i + 1 \in (N + 1)..(N + q)
        BY <1>6, <2>2
    <3>2. w[i] = v /\ w[i + 1] = v
        BY <1>2, <2>2, <3>1
    <3>. QED  BY <1>6, <3>2
  <2>3. CASE i = N
    <3>1. i + 1 \in (N + 1)..(N + q) /\ N # 0
        BY <1>6, <2>3
    <3>2. w[i] = s[N] /\ w[i + 1] = v
        BY <1>2, <2>3, <3>1
    <3>. QED  BY <1>3, <1>4, <1>6, <2>3, <3>1, <3>2
  <2>4. CASE i \in 1..N /\ i # N
    <3>1. i + 1 \in 1..N /\ i < N
        BY <2>4
    <3>2. w[i] = s[i] /\ w[i + 1] = s[i + 1]
        BY <1>2, <2>4, <3>1
    <3>. QED  BY <1>1, <1>6, <3>1, <3>2 DEF Subtracts
  <2>5. i \in 1..N \/ i \in (N + 1)..(N + q)
      OBVIOUS
  <2>. QED  BY <2>2, <2>3, <2>4, <2>5
<1>7. \A i \in 1..(N + q) : Subtracts(w, i) => i < N /\ Subtracts(s, i)
    BY <1>2, <1>6 DEF Subtracts
<1>8. OneBefore(w)
  <2>. SUFFICES ASSUME NEW i \in 1..(N + q), Subtracts(w, i) PROVE w[i] \in Fronts /\ (i > 1 => ~Subtracts(w, i - 1))
      BY <1>2 DEF OneBefore
  <2>1. i \in 1..N /\ Subtracts(s, i)
      BY <1>7
  <2>2. w[i] = s[i] /\ s[i] \in Fronts /\ (i > 1 => ~Subtracts(s, i - 1))
      BY <1>1, <1>2, <2>1 DEF Formed, OneBefore
  <2>3. i > 1 => i - 1 \in 1..(N + q)
      OBVIOUS
  <2>. QED  BY <1>7, <2>2, <2>3
<1>9. NoneLater(w)
  <2>. SUFFICES ASSUME NEW i \in 1..(N + q), NEW j \in 1..(N + q), i < j, w[i] < w[j] PROVE j = i + 1
      BY <1>2 DEF NoneLater
  <2>1. CASE j \in 1..N
    <3>1. i \in 1..N
        BY <2>1
    <3>2. w[i] = s[i] /\ w[j] = s[j]
        BY <1>2, <2>1, <3>1
    <3>. QED  BY <1>1, <2>1, <3>1, <3>2 DEF Formed, NoneLater
  <2>2. CASE j \in (N + 1)..(N + q)
    <3>1. w[j] = v /\ q # 0
        BY <1>2, <2>2
    <3>2. v <= w[i]
      <4>1. (w[i] = s[i] /\ i \in 1..N) \/ w[i] = v
          BY <1>5
      <4>2. \A h \in 1..N : v <= s[h]
          BY <1>1, <3>1
      <4>. QED  BY <4>1, <4>2
    <3>3. w[i] \in Nat
        BY <1>5
    <3>. QED  BY <3>1, <3>2, <3>3
  <2>3. j \in 1..N \/ j \in (N + 1)..(N + q)
      OBVIOUS
  <2>. QED  BY <2>1, <2>2, <2>3
<1>10. ASSUME q <= 3, NoFour(s) PROVE NoFour(w)
  <2>. SUFFICES ASSUME NEW i \in 4..(N + q), w[i - 1] = w[i], w[i - 2] = w[i], w[i - 3] = w[i] PROVE FALSE
      BY <1>2 DEF NoFour
  <2>1. CASE i \in 1..N
    <3>1. i \in 4..N /\ i - 1 \in 1..N /\ i - 2 \in 1..N /\ i - 3 \in 1..N
        BY <2>1
    <3>2. w[i] = s[i] /\ w[i - 1] = s[i - 1] /\ w[i - 2] = s[i - 2] /\ w[i - 3] = s[i - 3]
        BY <1>2, <3>1
    <3>. QED  BY <1>1, <1>10, <3>1, <3>2 DEF NoFour
  <2>2. CASE i \in (N + 1)..(N + q)
    <3>1. N # 0 /\ N \in 1..N /\ (N = i - 1 \/ N = i - 2 \/ N = i - 3)
        BY <1>10, <2>2
    <3>2. w[N] = w[i]
        BY <3>1
    <3>3. w[N] = s[N] /\ w[i] = v
        BY <1>2, <2>2, <3>1
    <3>4. s[N] \in Nat /\ v < s[N] /\ s[N] = v
        BY <1>3, <1>4, <3>1, <3>2, <3>3
    <3>. QED  BY <3>4
  <2>3. i \in 1..N \/ i \in (N + 1)..(N + q)
      OBVIOUS
  <2>. QED  BY <2>1, <2>2, <2>3
<1>11. q # 0 => w[N + q] = v
  <2>1. q # 0 => N + q \in (N + 1)..(N + q)
      OBVIOUS
  <2>. QED  BY <1>2, <2>1
<1>. QED  BY <1>2, <1>8, <1>9, <1>10, <1>11 DEF Formed

\* A pair of a front and a numeral that is not larger than any keeps the form.
LEMMA PairForm ==
    ASSUME NEW s \in Seq(Nat), NEW j \in Fronts, NEW v \in Nat, j < v, \A i \in 1..Len(s) : v <= s[i], Formed(s),
           NEW t \in Seq(Nat), Len(t) = Len(s) + 2, t[Len(s) + 1] = j, t[Len(s) + 2] = v,
           \A i \in 1..Len(s) : t[i] = s[i]
    PROVE  Formed(t) /\ (NoFour(s) => NoFour(t))
<1>1. PICK N \in Nat : N = Len(s)
    BY LenProperties
<1>2. /\ Len(t) = N + 2 /\ t[N + 1] = j /\ t[N + 2] = v
      /\ \A i \in 1..N : t[i] = s[i] /\ s[i] \in Nat /\ v <= s[i]
    BY <1>1, ElementOfSeq
<1>3. j \in Nat
    BY DEF Fronts
<1>4. \A i \in 1..(N + 2) : i \in 1..N \/ i = N + 1 \/ i = N + 2
    OBVIOUS
<1>5. ASSUME NEW i \in 1..(N + 2), Subtracts(t, i) PROVE (i \in 1..N /\ i # N /\ Subtracts(s, i)) \/ i = N + 1
  <2>1. i < N + 2 /\ t[i] < t[i + 1]
      BY <1>2, <1>5 DEF Subtracts
  <2>2. CASE i = N
    <3>1. i \in 1..N /\ i + 1 = N + 1
        BY <2>2
    <3>2. t[i] \in Nat /\ v <= t[i] /\ t[i + 1] = j
        BY <1>2, <3>1
    <3>. QED  BY <1>3, <2>1, <3>2
  <2>3. CASE i \in 1..N /\ i # N
    <3>1. i + 1 \in 1..N /\ i < N
        BY <2>3
    <3>2. t[i] = s[i] /\ t[i + 1] = s[i + 1]
        BY <1>2, <2>3, <3>1
    <3>. QED  BY <1>1, <2>1, <2>3, <3>1, <3>2 DEF Subtracts
  <2>. QED  BY <1>4, <2>1, <2>2, <2>3
<1>6. OneBefore(t)
  <2>. SUFFICES ASSUME NEW i \in 1..(N + 2), Subtracts(t, i) PROVE t[i] \in Fronts /\ (i > 1 => ~Subtracts(t, i - 1))
      BY <1>2 DEF OneBefore
  <2>1. CASE i = N + 1
    <3>1. i > 1 => i - 1 \in 1..(N + 2) /\ i - 1 = N
        BY <2>1
    <3>2. ~(i - 1 \in 1..N /\ i - 1 # N) /\ i - 1 # N + 1
        BY <2>1
    <3>3. i > 1 => ~Subtracts(t, i - 1)
        BY <1>5, <3>1, <3>2
    <3>. QED  BY <1>2, <2>1, <3>3
  <2>2. CASE i \in 1..N /\ i # N /\ Subtracts(s, i)
    <3>1. s[i] \in Fronts /\ (i > 1 => ~Subtracts(s, i - 1))
        BY <1>1, <2>2 DEF Formed, OneBefore
    <3>2. i > 1 => i - 1 \in 1..(N + 2) /\ i - 1 # N + 1
        BY <2>2
    <3>. QED  BY <1>2, <1>5, <2>2, <3>1, <3>2
  <2>. QED  BY <1>5, <2>1, <2>2
<1>7. NoneLater(t)
  <2>. SUFFICES ASSUME NEW i \in 1..(N + 2), NEW k \in 1..(N + 2), i < k, t[i] < t[k] PROVE k = i + 1
      BY <1>2 DEF NoneLater
  <2>1. CASE i \in 1..N /\ k \in 1..N
      BY <1>1, <1>2, <2>1 DEF Formed, NoneLater
  <2>2. CASE i \in 1..N /\ k \notin 1..N
    <3>1. t[k] = j \/ t[k] = v
        BY <1>2, <1>4, <2>2
    <3>2. t[i] \in Nat /\ v <= t[i]
        BY <1>2, <2>2
    <3>. QED  BY <1>3, <3>1, <3>2, SMTT(30)
  <2>3. CASE i \notin 1..N
      BY <1>4, <2>3
  <2>. QED  BY <2>1, <2>2, <2>3
<1>8. ASSUME NoFour(s) PROVE NoFour(t)
  <2>. SUFFICES ASSUME NEW i \in 4..(N + 2), t[i - 1] = t[i], t[i - 2] = t[i], t[i - 3] = t[i] PROVE FALSE
      BY <1>2 DEF NoFour
  <2>1. CASE i \in 4..N
    <3>1. i - 1 \in 1..N /\ i - 2 \in 1..N /\ i - 3 \in 1..N /\ i \in 1..N
        BY <2>1
    <3>. QED  BY <1>1, <1>2, <1>8, <2>1, <3>1 DEF NoFour
  <2>2. CASE i = N + 1
    <3>1. i - 1 = N /\ N \in 1..N
        BY <2>2
    <3>2. t[i - 1] \in Nat /\ v <= t[i - 1] /\ t[i] = j
        BY <1>2, <2>2, <3>1
    <3>. QED  BY <1>3, <3>2
  <2>3. CASE i = N + 2
    <3>1. i - 1 = N + 1
        BY <2>3
    <3>. QED  BY <1>2, <1>3, <2>3, <3>1
  <2>4. i \in 4..N \/ i = N + 1 \/ i = N + 2
      OBVIOUS
  <2>. QED  BY <2>1, <2>2, <2>3, <2>4
<1>. QED  BY <1>6, <1>7, <1>8 DEF Formed

-----------------------------------------------------------------------------
(* The walk from M to I                                                      *)

Steps == <<1000, 500, 100, 50, 10, 5, 1>>
Few   == 4000

\* What is left after numeral u is less than four times v.
LeavesFew(u, v) == u <= 4 * v \/ \E j \in Fronts : j < u /\ u - j <= 4 * v

LEMMA StepsAre ==
    /\ Steps \in Seq(Nat) /\ Len(Steps) = 7 /\ DOMAIN Steps = 1..7 /\ Steps[7] = 1 /\ 4 * Steps[1] = Few
    /\ \A k \in 1..7 : Steps[k] \in Nat \ {0} /\ \A j \in Fronts : j < Steps[k] => 5 * j <= Steps[k]
    /\ \A k \in 2..7 : k - 1 \in 1..7 /\ Steps[k] < Steps[k - 1] /\ LeavesFew(Steps[k - 1], Steps[k])
<1>1. Steps \in Seq(Nat) /\ Len(Steps) = 7 /\ DOMAIN Steps = 1..7 /\ Steps[7] = 1 /\ 4 * Steps[1] = Few
    BY DEF Steps, Few
<1>2. ASSUME NEW k \in 1..7
      PROVE  Steps[k] \in Nat \ {0} /\ \A j \in Fronts : j < Steps[k] => 5 * j <= Steps[k]
  <2>1. Steps[k] \in {1000, 500, 100, 50, 10, 5, 1}
      BY DEF Steps
  <2>. QED  BY <2>1 DEF Fronts
<1>3. ASSUME NEW k \in 2..7 PROVE k - 1 \in 1..7 /\ Steps[k] < Steps[k - 1] /\ LeavesFew(Steps[k - 1], Steps[k])
  <2>1. \/ Steps[k - 1] = 1000 /\ Steps[k] = 500
        \/ Steps[k - 1] = 500 /\ Steps[k] = 100
        \/ Steps[k - 1] = 100 /\ Steps[k] = 50
        \/ Steps[k - 1] = 50 /\ Steps[k] = 10
        \/ Steps[k - 1] = 10 /\ Steps[k] = 5
        \/ Steps[k - 1] = 5 /\ Steps[k] = 1
      BY DEF Steps
  <2>. QED  BY <2>1 DEF LeavesFew, Fronts
<1>. QED  BY <1>1, <1>2, <1>3

\* What is left, m, is less than numeral u and does not reach it with a front.
Below(m, u) == m < u /\ \A j \in Fronts : j < u => m < u - j

\* After the first k steps, o is written and m left of n.
Walked(k, o, m, n) ==
    /\ o \in Seq(Nat) /\ m \in Nat /\ ValueOf(o) + m = n /\ Formed(o)
    /\ n < Few => NoFour(o)
    /\ \A i \in 1..Len(o) : m < o[i] /\ (o[i] \in Fronts \/ (k # 0 /\ Steps[k] <= o[i]))
    /\ IF k = 0 THEN o = <<>> ELSE (o # <<>> => Steps[k] <= o[Len(o)]) /\ Below(m, Steps[k])

\* Before a step
LEMMA BeforeStep ==
    ASSUME NEW k \in 1..7, NEW o, NEW m, NEW n \in Nat, Walked(k - 1, o, m, n), NEW v, v = Steps[k]
    PROVE  /\ o # <<>> => v < o[Len(o)]
           /\ \A i \in 1..Len(o) : o[i] \in Fronts \/ v <= o[i]
           /\ n < Few => m < 4 * v
<1>1. v \in Nat \ {0} /\ o \in Seq(Nat) /\ m \in Nat
    BY StepsAre DEF Walked
<1>2. CASE k = 1
  <2>1. k - 1 = 0
      BY <1>2
  <2>2. o = <<>> /\ ValueOf(o) + m = n
      BY <2>1 DEF Walked
  <2>3. m = n /\ Len(o) = 0
      BY <1>1, <2>2, NoValue
  <2>4. 4 * v = Few
      BY <1>2, StepsAre
  <2>. QED  BY <2>2, <2>3, <2>4
<1>3. CASE k # 1
  <2>1. k \in 2..7 /\ k - 1 # 0
      BY <1>3
  <2>2. PICK u \in Nat : u = Steps[k - 1] /\ v < u /\ LeavesFew(u, v)
      BY <2>1, StepsAre
  <2>3. (o # <<>> => u <= o[Len(o)]) /\ Below(m, u) /\ \A i \in 1..Len(o) : o[i] \in Fronts \/ u <= o[i]
      BY <2>1, <2>2 DEF Walked
  <2>4. PICK N \in Nat : N = Len(o) /\ DOMAIN o = 1..N
      BY <1>1, LenProperties
  <2>5. \A i \in 1..N : o[i] \in Nat
      BY <1>1, <2>4, ElementOfSeq
  <2>6. ASSUME o # <<>> PROVE v < o[Len(o)]
    <3>1. N \in 1..N
        BY <1>1, <2>4, <2>6
    <3>2. o[N] \in Nat /\ u <= o[N]
        BY <2>3, <2>4, <2>5, <2>6, <3>1
    <3>. QED  BY <1>1, <2>2, <2>4, <3>2
  <2>7. \A i \in 1..N : o[i] \in Fronts \/ v <= o[i]
      BY <1>1, <2>2, <2>3, <2>4, <2>5
  <2>8. m < 4 * v
    <3>1. CASE u <= 4 * v
        BY <1>1, <2>2, <2>3, <3>1 DEF Below
    <3>2. CASE \E j \in Fronts : j < u /\ u - j <= 4 * v
      <4>1. PICK j \in Fronts : j < u /\ u - j <= 4 * v
          BY <3>2
      <4>2. m < u - j /\ j \in Nat
          BY <2>3, <4>1 DEF Below, Fronts
      <4>. QED  BY <1>1, <2>2, <4>1, <4>2
    <3>. QED  BY <2>2, <3>1, <3>2 DEF LeavesFew
  <2>. QED  BY <2>4, <2>6, <2>7, <2>8
<1>. QED  BY <1>2, <1>3

\* How often v fits into m
LEMMA Fits ==
    ASSUME NEW m \in Nat, NEW v \in Nat \ {0}
    PROVE  /\ m \div v \in Nat /\ m % v \in Nat /\ m % v < v /\ m = (m \div v) * v + (m % v)
           /\ m \div v # 0 => v <= m
           /\ m < 4 * v => m \div v <= 3
<1>1. PICK q \in Int, r \in Int : q = m \div v /\ r = m % v /\ m = q * v + r /\ 0 <= r /\ r < v
    BY SMT
<1>2. q >= 0
  <2>1. CASE q < 0
    <3>1. q + 1 <= 0
        BY <2>1
    <3>2. (q + 1) * v <= 0
        BY <3>1, SMT
    <3>3. (q + 1) * v = q * v + v
        BY SMT
    <3>. QED  BY <1>1, <3>2, <3>3
  <2>. QED  BY <2>1
<1>3. q # 0 => v <= m
  <2>. SUFFICES ASSUME q # 0 PROVE v <= m
      OBVIOUS
  <2>1. q - 1 \in Nat
      BY <1>2
  <2>2. (q - 1) * v >= 0
      BY <2>1, SMT
  <2>3. (q - 1) * v = q * v - v
      BY SMT
  <2>4. q * v \in Int
      OBVIOUS
  <2>. QED  BY <1>1, <2>2, <2>3, <2>4
<1>4. m < 4 * v => q <= 3
  <2>. SUFFICES ASSUME m < 4 * v, q > 3 PROVE FALSE
      OBVIOUS
  <2>1. q - 4 \in Nat
      OBVIOUS
  <2>2. (q - 4) * v >= 0
      BY <2>1, SMT
  <2>3. (q - 4) * v = q * v - 4 * v
      BY SMT
  <2>4. q * v \in Int
      OBVIOUS
  <2>. QED  BY <1>1, <2>2, <2>3, <2>4
<1>. QED  BY <1>1, <1>2, <1>3, <1>4

\* The fronts with which r reaches v
Reaching(r, v) == {j \in Fronts : j < v /\ r >= v - j}

\* One step
LEMMA NumeralSteps ==
    ASSUME NEW s \in [out : Seq(Nat), rem : Nat], NEW v \in Nat \ {0}
    PROVE  \E q, r \in Nat :
              /\ q = s.rem \div v /\ r = s.rem % v
              /\ \/ /\ Reaching(r, v) = {}
                    /\ Numeral(s, v) = [out |-> s.out \o Times(v, q), rem |-> r]
                 \/ \E j \in Reaching(r, v) :
                       Numeral(s, v) = [out |-> (s.out \o Times(v, q)) \o <<j, v>>, rem |-> r - (v - j)]
<1>1. PICK m \in Nat : m = s.rem
    OBVIOUS
<1>2. PICK q \in Nat, r \in Nat : q = m \div v /\ r = m % v
    BY Fits
<1>3. CASE Reaching(r, v) = {}
  <2>1. Numeral(s, v) = [out |-> s.out \o Times(v, q), rem |-> r]
      BY <1>1, <1>2, <1>3 DEF Numeral, Reaching, Fronts, Times
  <2>. QED  BY <1>1, <1>2, <1>3, <2>1
<1>4. CASE Reaching(r, v) # {}
  <2>1. Reaching(r, v) \in SUBSET Nat
      BY DEF Reaching, Fronts
  <2>2. \E f \in Reaching(r, v) : \A g \in Reaching(r, v) : f <= g
      BY <1>4, <2>1, SmallestNumber
  <2>3. PICK j : j = CHOOSE f \in Reaching(r, v) : \A g \in Reaching(r, v) : f <= g
      OBVIOUS
  <2>4. j \in Reaching(r, v)
      BY <2>2, <2>3
  <2>5. Numeral(s, v) = [out |-> (s.out \o Times(v, q)) \o <<j, v>>, rem |-> r - (v - j)]
      BY <1>1, <1>2, <1>4, <2>3 DEF Numeral, Reaching, Fronts, Times
  <2>. QED  BY <1>1, <1>2, <2>4, <2>5
<1>. QED  BY <1>1, <1>2, <1>3, <1>4

LEMMA PairsOfNumbers == \A j, v \in Nat : <<j, v>> \in Seq(Nat)
OBVIOUS

LEMMA NumeralType ==
    ASSUME NEW s \in [out : Seq(Nat), rem : Nat], NEW v \in Nat \ {0}
    PROVE  Numeral(s, v) \in [out : Seq(Nat), rem : Nat]
<1>1. PICK q \in Nat, r \in Nat :
              /\ q = s.rem \div v /\ r = s.rem % v
              /\ \/ /\ Reaching(r, v) = {}
                    /\ Numeral(s, v) = [out |-> s.out \o Times(v, q), rem |-> r]
                 \/ \E j \in Reaching(r, v) :
                       Numeral(s, v) = [out |-> (s.out \o Times(v, q)) \o <<j, v>>, rem |-> r - (v - j)]
    BY NumeralSteps
<1>2. PICK f \in Seq(Nat) : f = s.out \o Times(v, q)
  <2>1. PICK o \in Seq(Nat) : o = s.out
      OBVIOUS
  <2>2. Filled(o \o Times(v, q), o, v, q)
      BY FilledUp
  <2>. QED  BY <2>1, <2>2 DEF Filled
<1>3. ASSUME NEW j \in Reaching(r, v) PROVE f \o <<j, v>> \in Seq(Nat) /\ r - (v - j) \in Nat
  <2>1. j \in Nat /\ j < v /\ r >= v - j
      BY DEF Reaching, Fronts
  <2>2. PICK b \in Seq(Nat) : b = <<j, v>>
      BY <2>1, PairsOfNumbers
  <2>3. f \o b \in Seq(Nat)
      BY NumbersJoin
  <2>. QED  BY <2>1, <2>2, <2>3
<1>4. CASE Numeral(s, v) = [out |-> s.out \o Times(v, q), rem |-> r]
    BY <1>2, <1>4
<1>5. ASSUME NEW j \in Reaching(r, v),
             Numeral(s, v) = [out |-> (s.out \o Times(v, q)) \o <<j, v>>, rem |-> r - (v - j)]
      PROVE  Numeral(s, v) \in [out : Seq(Nat), rem : Nat]
    BY <1>2, <1>3, <1>5
<1>. QED  BY <1>1, <1>4, <1>5

\* Each step keeps what has been reached.
LEMMA OnWithWalk ==
    ASSUME NEW k \in 1..7, NEW s \in [out : Seq(Nat), rem : Nat], NEW n \in Nat, Walked(k - 1, s.out, s.rem, n)
    PROVE  Walked(k, Numeral(s, Steps[k]).out, Numeral(s, Steps[k]).rem, n)
<1>1. PICK v \in Nat \ {0} : v = Steps[k] /\ \A j \in Fronts : j < v => 5 * j <= v
    BY StepsAre
<1>2. PICK o \in Seq(Nat), m \in Nat : o = s.out /\ m = s.rem
    OBVIOUS
<1>3. /\ o # <<>> => v < o[Len(o)]
      /\ \A i \in 1..Len(o) : o[i] \in Fronts \/ v <= o[i]
      /\ n < Few => m < 4 * v
    BY <1>1, <1>2, BeforeStep
<1>4. PICK N \in Nat : N = Len(o)
    BY LenProperties
<1>5. /\ ValueOf(o) + m = n /\ Formed(o) /\ (n < Few => NoFour(o))
      /\ \A i \in 1..N : m < o[i]
    BY <1>2, <1>4 DEF Walked
<1>6. PICK q \in Nat, r \in Nat :
              /\ q = s.rem \div v /\ r = s.rem % v
              /\ \/ /\ Reaching(r, v) = {}
                    /\ Numeral(s, v) = [out |-> s.out \o Times(v, q), rem |-> r]
                 \/ \E j \in Reaching(r, v) :
                       Numeral(s, v) = [out |-> (s.out \o Times(v, q)) \o <<j, v>>, rem |-> r - (v - j)]
    BY NumeralSteps
<1>7. r < v /\ m = q * v + r /\ (q # 0 => v <= m) /\ (m < 4 * v => q <= 3)
    BY <1>2, <1>6, Fits
<1>8. PICK p \in Nat : p = q * v
    OBVIOUS
<1>9. m = p + r
    BY <1>7, <1>8
<1>10. PICK f \in Seq(Nat) : f = o \o Times(v, q) /\ Filled(f, o, v, q)
  <2>1. Filled(o \o Times(v, q), o, v, q)
      BY FilledUp
  <2>2. o \o Times(v, q) \in Seq(Nat)
      BY <2>1 DEF Filled
  <2>. QED  BY <2>1, <2>2
<1>11. PICK a \in Int : a = ValueOf(o)
    BY ValueIsSum
<1>12. \A i \in 1..N : o[i] \in Nat
    BY <1>4, ElementOfSeq
<1>13. o # <<>> => N \in 1..N /\ o[N] \in Nat /\ v <= o[N] /\ v < o[N]
  <2>1. o # <<>> => N \in 1..N
      BY <1>4
  <2>. QED  BY <1>3, <1>4, <1>12, <2>1
<1>14. ValueOf(f) = a + p
    BY <1>4, <1>8, <1>10, <1>11, <1>13, FilledCounts
<1>15. ASSUME q # 0 \/ Reaching(r, v) # {} PROVE \A i \in 1..N : v <= o[i]
  <2>. SUFFICES ASSUME NEW i \in 1..N, o[i] \in Fronts, o[i] < v PROVE FALSE
      BY <1>3, <1>4, <1>12
  <2>1. PICK x \in Nat : x = o[i] /\ x < v /\ 5 * x <= v /\ m < x
      BY <1>1, <1>5, <1>12
  <2>2. CASE q # 0
      BY <1>7, <2>1, <2>2
  <2>3. CASE Reaching(r, v) # {}
    <3>1. PICK j \in Nat : j < v /\ r >= v - j /\ 5 * j <= v
        BY <1>1, <2>3, SMTT(30) DEF Reaching, Fronts
    <3>. QED  BY <1>9, <2>1, <3>1
  <2>. QED  BY <1>15, <2>2, <2>3
<1>16. Formed(f) /\ (q <= 3 /\ NoFour(o) => NoFour(f)) /\ (q # 0 => f[Len(f)] = v)
    BY <1>3, <1>4, <1>5, <1>10, <1>15, FilledForm
<1>17. n < Few => NoFour(f)
    BY <1>3, <1>5, <1>7, <1>16
<1>18. /\ Len(f) = N + q
       /\ \A i \in 1..N : f[i] = o[i]
       /\ \A i \in (N + 1)..(N + q) : f[i] = v
    BY <1>4, <1>10 DEF Filled
<1>19. \A i \in 1..(N + q) : i \in 1..N \/ i \in (N + 1)..(N + q)
    OBVIOUS
<1>20. \A i \in 1..(N + q) : f[i] \in Nat /\ (f[i] \in Fronts \/ v <= f[i]) /\ r < f[i]
  <2>. SUFFICES ASSUME NEW i \in 1..(N + q) PROVE f[i] \in Nat /\ (f[i] \in Fronts \/ v <= f[i]) /\ r < f[i]
      OBVIOUS
  <2>1. CASE i \in 1..N
    <3>1. f[i] = o[i] /\ o[i] \in Nat /\ m < o[i] /\ (o[i] \in Fronts \/ v <= o[i])
        BY <1>3, <1>4, <1>5, <1>12, <1>18, <2>1
    <3>. QED  BY <1>9, <3>1
  <2>2. CASE i \in (N + 1)..(N + q)
      BY <1>7, <1>18, <2>2
  <2>. QED  BY <1>19, <2>1, <2>2
<1>21. f # <<>> => v <= f[N + q]
  <2>1. CASE q # 0
      BY <1>16, <1>18, <2>1
  <2>2. CASE q = 0
    <3>1. N + q = N
        BY <2>2
    <3>2. f # <<>> => N # 0
        BY <1>18, <3>1
    <3>3. N # 0 => o # <<>> /\ N \in 1..N
        BY <1>4
    <3>. QED  BY <1>13, <1>18, <3>1, <3>2, <3>3
  <2>. QED  BY <2>1, <2>2
<1>k. k # 0
    OBVIOUS
<1>22. CASE Reaching(r, v) = {} /\ Numeral(s, v) = [out |-> s.out \o Times(v, q), rem |-> r]
  <2>1. Numeral(s, v).out = f /\ Numeral(s, v).rem = r
      BY <1>2, <1>10, <1>22
  <2>2. ValueOf(f) + r = n
      BY <1>5, <1>9, <1>11, <1>14
  <2>3. Below(r, v)
    <3>1. \A j \in Fronts : j < v => ~(r >= v - j)
        BY <1>22 DEF Reaching
    <3>2. \A j \in Fronts : j \in Nat
        BY DEF Fronts
    <3>3. \A j \in Fronts : j < v => r < v - j
        BY <3>1, <3>2
    <3>. QED  BY <1>7, <3>3 DEF Below
  <2>4. Walked(k, f, r, n)
      BY <1>k, <1>1, <1>16, <1>17, <1>18, <1>20, <1>21, <2>2, <2>3 DEF Walked
  <2>. QED  BY <1>1, <2>1, <2>4
<1>23. ASSUME NEW j \in Reaching(r, v),
              Numeral(s, v) = [out |-> (s.out \o Times(v, q)) \o <<j, v>>, rem |-> r - (v - j)]
       PROVE  Walked(k, Numeral(s, v).out, Numeral(s, v).rem, n)
  <2>1. j \in Fronts /\ j \in Nat /\ j < v /\ r >= v - j /\ 5 * j <= v
      BY <1>1, SMTT(30) DEF Reaching, Fronts
  <2>2. PICK d \in Nat : d = r - (v - j) /\ d < j
      BY <1>7, <2>1
  <2>3. PICK t : t = f \o <<j, v>>
      OBVIOUS
  <2>4. Numeral(s, v).out = t /\ Numeral(s, v).rem = d
    <3>1. Numeral(s, v) = [out |-> f \o <<j, v>>, rem |-> r - (v - j)]
        BY <1>2, <1>10, <1>23
    <3>2. Numeral(s, v) = [out |-> t, rem |-> d]
        BY <2>2, <2>3, <3>1
    <3>. QED  BY <3>2
  <2>5. f # <<>> => j <= f[Len(f)]
    <3>1. f # <<>> => N + q \in 1..(N + q)
        BY <1>18
    <3>2. f # <<>> => f[N + q] \in Nat /\ v <= f[N + q]
        BY <1>20, <1>21, <3>1
    <3>. QED  BY <1>18, <2>1, <3>2
  <2>6. /\ t \in Seq(Nat) /\ Len(t) = N + q + 2 /\ t[N + q + 1] = j /\ t[N + q + 2] = v
        /\ \A i \in 1..(N + q) : t[i] = f[i]
        /\ ValueOf(t) = ValueOf(f) + (v - j)
    <3>1. LET b == f \o <<j, v>>
          IN  /\ b \in Seq(Nat) /\ Len(b) = Len(f) + 2 /\ b[Len(f) + 1] = j /\ b[Len(f) + 2] = v
              /\ \A i \in 1..Len(f) : b[i] = f[i]
              /\ ValueOf(b) = ValueOf(f) + (v - j)
        BY <2>1, <2>5, PairCounts
    <3>2. /\ t \in Seq(Nat) /\ Len(t) = Len(f) + 2 /\ t[Len(f) + 1] = j /\ t[Len(f) + 2] = v
          /\ \A i \in 1..Len(f) : t[i] = f[i]
          /\ ValueOf(t) = ValueOf(f) + (v - j)
        BY <2>3, <3>1
    <3>3. Len(f) = N + q
        BY <1>18
    <3>. QED  BY <3>2, <3>3
  <2>7. \A i \in 1..(N + q) : v <= f[i]
    <3>1. Reaching(r, v) # {}
        OBVIOUS
    <3>2. \A i \in 1..N : v <= o[i]
        BY <1>15, <3>1
    <3>3. ASSUME NEW i \in 1..(N + q) PROVE v <= f[i]
      <4>1. CASE i \in 1..N
          BY <1>18, <3>2, <4>1
      <4>2. CASE i \in (N + 1)..(N + q)
        <5>1. f[i] = v
            BY <1>18, <4>2
        <5>. QED  BY <5>1
      <4>. QED  BY <1>19, <4>1, <4>2
    <3>. QED  BY <3>3
  <2>8. Formed(t) /\ (NoFour(f) => NoFour(t))
    <3>1. Len(f) = N + q
        BY <1>18
    <3>2. /\ \A i \in 1..Len(f) : v <= f[i]
          /\ Len(t) = Len(f) + 2 /\ t[Len(f) + 1] = j /\ t[Len(f) + 2] = v
          /\ \A i \in 1..Len(f) : t[i] = f[i]
        BY <2>6, <2>7, <3>1
    <3>. QED  BY <1>16, <2>1, <2>6, <3>2, PairForm
  <2>9. ValueOf(t) + d = n
    <3>1. a + m = n
        BY <1>5, <1>11
    <3>2. ValueOf(t) = a + p + (v - j)
        BY <1>14, <2>6
    <3>. QED  BY <1>9, <2>1, <2>2, <3>1, <3>2
  <2>10. ASSUME NEW i \in 1..(N + q + 2) PROVE d < t[i] /\ (t[i] \in Fronts \/ v <= t[i])
    <3>1. CASE i \in 1..(N + q)
      <4>1. t[i] = f[i] /\ f[i] \in Nat /\ r < f[i] /\ v <= f[i]
          BY <1>20, <2>6, <2>7, <3>1
      <4>. QED  BY <2>1, <2>2, <4>1
    <3>2. CASE i = N + q + 1
        BY <2>1, <2>2, <2>6, <3>2
    <3>3. CASE i = N + q + 2
        BY <2>1, <2>2, <2>6, <3>3, SMTT(30)
    <3>. QED  BY <3>1, <3>2, <3>3
  <2>11. Below(d, v)
    <3>1. \A h \in Fronts : h \in Nat /\ (h < v => 5 * h <= v)
        BY <1>1 DEF Fronts
    <3>. QED  BY <2>1, <2>2, <3>1 DEF Below
  <2>12. Walked(k, t, d, n)
    <3>1. t # <<>> => v <= t[Len(t)]
        BY <2>6
    <3>2. n < Few => NoFour(t)
        BY <1>17, <2>8
    <3>3. \A i \in 1..Len(t) : d < t[i] /\ (t[i] \in Fronts \/ (k # 0 /\ Steps[k] <= t[i]))
      <4>1. Len(t) = N + q + 2
          BY <2>6
      <4>. QED  BY <1>k, <1>1, <2>10, <4>1
    <3>4. t \in Seq(Nat) /\ d \in Nat
        BY <2>6
    <3>. QED  BY <1>k, <1>1, <2>8, <2>9, <2>11, <3>1, <3>2, <3>3, <3>4 DEF Walked
  <2>. QED  BY <2>4, <2>12
<1>. QED  BY <1>1, <1>6, <1>22, <1>23

\* The fold of toRoman() takes one step after another.
LEMMA NumeralsWritten ==
    ASSUME NEW n \in Nat
    PROVE  \E p \in [0..7 -> [out : Seq(Nat), rem : Nat]] :
              /\ p[0] = [out |-> <<>>, rem |-> n] /\ \A k \in 1..7 : p[k] = Numeral(p[k - 1], Steps[k])
              /\ toRoman(n) = p[7].out
<1>0. PICK b \in [out : Seq(Nat), rem : Nat] : b = [out |-> <<>>, rem |-> n]
  <2>1. <<>> \in Seq(Nat)
      OBVIOUS
  <2>. QED  BY <2>1
<1>. DEFINE V == [out : Seq(Nat), rem : Nat]
            g == [i \in 1..7 |-> [x \in V |-> Numeral(x, Steps[i])]]
            Body(k) == [x \in SUBSET DOMAIN Steps |-> IF x = {} THEN b ELSE Numeral(k[x \ {Max(x)}], Steps[Max(x)])]
<1>1. DOMAIN Steps = 1..7 /\ \A k \in 1..7 : Steps[k] \in Nat \ {0}
    BY StepsAre
<1>2. g \in [1..7 -> [V -> V]]
  <2>1. \A k \in 1..7, x \in V : Numeral(x, Steps[k]) \in V
      BY <1>1, NumeralType
  <2>. HIDE DEF V
  <2>. QED  BY <2>1
<1>3. \A k \in 1..7, x \in V : g[k][x] = Numeral(x, Steps[k])
    OBVIOUS
<1>4. PICK f \in [SUBSET (1..7) -> V] : GoesThrough(f, 7, b, g)
  <2>1. PICK N \in Nat : N = 7
      OBVIOUS
  <2>2. b \in V /\ g \in [1..N -> [V -> V]]
      BY <1>2, <2>1
  <2>. HIDE DEF g, V
  <2>3. \E f \in [SUBSET (1..N) -> V] : GoesThrough(f, N, b, g)
      BY <2>2, SetRecursion
  <2>. QED  BY <2>1, <2>3
<1>. HIDE DEF g, V
<1>5. \A x \in SUBSET (1..7) : x # {} => Max(x) \in 1..7 /\ x \ {Max(x)} \in SUBSET (1..7)
    BY LargestNumber
<1>6. \A x \in SUBSET (1..7) : f[x] = IF x = {} THEN b ELSE Numeral(f[x \ {Max(x)}], Steps[Max(x)])
    BY <1>3, <1>4, <1>5 DEF GoesThrough
<1>7. f = Body(f)
    BY <1>1, <1>6
<1>8. PICK h : h = CHOOSE k : k = Body(k)
    OBVIOUS
<1>9. h = Body(h)
  <2>. HIDE DEF Body
  <2>. QED  BY <1>7, <1>8
<1>10. FoldLeft(Numeral, b, Steps) = h[DOMAIN Steps]
    BY <1>8 DEF FoldLeft, MapThenFoldSet
<1>11. h[{}] = b /\ \A x \in SUBSET (1..7) : x # {} => h[x] = Numeral(h[x \ {Max(x)}], Steps[Max(x)])
    BY <1>1, <1>9
<1>. HIDE DEF Body
<1>. DEFINE p == [k \in 0..7 |-> h[1..k]]
<1>12. p[0] = b
    BY <1>11
<1>13. \A k \in 1..7 : p[k] = Numeral(p[k - 1], Steps[k])
  <2>. SUFFICES ASSUME NEW k \in 1..7 PROVE p[k] = Numeral(p[k - 1], Steps[k])
      OBVIOUS
  <2>1. Max(1..k) = k /\ (1..k) \ {k} = 1..(k - 1) /\ 1..k # {} /\ 1..k \in SUBSET (1..7)
      BY LargestIsLast
  <2>2. k \in 0..7 /\ k - 1 \in 0..7
      OBVIOUS
  <2>3. h[1..k] = Numeral(h[1..(k - 1)], Steps[k])
      BY <1>11, <2>1
  <2>. QED  BY <2>2, <2>3
<1>14. toRoman(n) = p[7].out
  <2>1. toRoman(n) = FoldLeft(Numeral, b, Steps).out
      BY <1>0 DEF toRoman, Steps
  <2>2. p[7] = h[1..7]
      OBVIOUS
  <2>. HIDE DEF p
  <2>3. FoldLeft(Numeral, b, Steps) = p[7]
      BY <1>1, <1>10, <2>2
  <2>. QED  BY <2>1, <2>3
<1>15. p = [k \in 0..7 |-> p[k]]
    OBVIOUS
<1>. HIDE DEF p
<1>16. \A k \in 0..7 : p[k] \in V
  <2>. DEFINE T == {k \in 0..7 : p[k] \in V}
  <2>0. b \in V
      BY DEF V
  <2>1. 0 \in T
      BY <1>12, <2>0
  <2>2. ASSUME NEW k \in 1..7, k - 1 \in T PROVE k \in T
    <3>1. PICK x : x = p[k - 1]
        OBVIOUS
    <3>2. x \in V /\ Steps[k] \in Nat \ {0}
        BY <1>1, <2>2, <3>1
    <3>3. Numeral(x, Steps[k]) \in V
        BY <3>2, NumeralType DEF V
    <3>4. p[k] = Numeral(x, Steps[k]) /\ k \in 0..7
        BY <1>13, <3>1
    <3>. QED  BY <3>3, <3>4
  <2>3. T = 0..7
    <3>1. PICK N \in Nat : N = 7
        OBVIOUS
    <3>2. T \in SUBSET (0..N) /\ 0 \in T /\ \A k \in 1..N : k - 1 \in T => k \in T
        BY <2>1, <2>2, <3>1
    <3>. HIDE DEF T
    <3>3. T = 0..N
        BY <3>2, UpTo
    <3>. QED  BY <3>1, <3>3
  <2>. QED  BY <2>3
<1>17. p \in [0..7 -> V]
    BY <1>15, <1>16
<1>. QED  BY <1>0, <1>12, <1>13, <1>14, <1>17 DEF V

\* After all of them nothing is left.
LEMMA AllWalked ==
    ASSUME NEW n \in Nat
    PROVE  /\ toRoman(n) \in Seq(Nat) /\ ValueOf(toRoman(n)) = n /\ Formed(toRoman(n))
           /\ n < Few => NoFour(toRoman(n))
<1>1. PICK p \in [0..7 -> [out : Seq(Nat), rem : Nat]] :
              /\ p[0] = [out |-> <<>>, rem |-> n] /\ \A k \in 1..7 : p[k] = Numeral(p[k - 1], Steps[k])
              /\ toRoman(n) = p[7].out
    BY NumeralsWritten
<1>. DEFINE T == {k \in 0..7 : Walked(k, p[k].out, p[k].rem, n)}
<1>2. 0 \in T
  <2>1. Len(<<>>) = 0 /\ <<>> \in Seq(Nat)
      OBVIOUS
  <2>2. OneBefore(<<>>) /\ NoneLater(<<>>) /\ NoFour(<<>>)
      BY <2>1 DEF OneBefore, NoneLater, NoFour
  <2>3. Walked(0, <<>>, n, n)
      BY <2>1, <2>2, NoValue DEF Walked, Formed
  <2>4. p[0].out = <<>> /\ p[0].rem = n
      BY <1>1
  <2>. QED  BY <2>3, <2>4
<1>3. ASSUME NEW k \in 1..7, k - 1 \in T PROVE k \in T
  <2>0. k - 1 \in 0..7 /\ k \in 0..7
    <3>1. PICK N \in Nat : N = 7
        OBVIOUS
    <3>2. \A i \in 1..N : i - 1 \in 0..N /\ i \in 0..N
        OBVIOUS
    <3>. QED  BY <3>1, <3>2
  <2>1. PICK s \in [out : Seq(Nat), rem : Nat] : s = p[k - 1]
    <3>1. p \in [0..7 -> [out : Seq(Nat), rem : Nat]]
        OBVIOUS
    <3>. QED  BY ONLY <2>0, <3>1
  <2>2. Walked(k - 1, s.out, s.rem, n)
      BY <1>3, <2>1
  <2>3. Walked(k, Numeral(s, Steps[k]).out, Numeral(s, Steps[k]).rem, n)
      BY <2>2, OnWithWalk
  <2>4. p[k] = Numeral(s, Steps[k])
    <3>1. \A i \in 1..7 : p[i] = Numeral(p[i - 1], Steps[i])
        BY <1>1
    <3>2. p[k] = Numeral(p[k - 1], Steps[k])
        BY <3>1
    <3>. QED  BY <2>1, <3>2
  <2>. QED  BY <2>0, <2>3, <2>4
<1>4. 7 \in T
  <2>1. PICK N \in Nat : N = 7
      OBVIOUS
  <2>2. T \in SUBSET (0..N) /\ 0 \in T /\ \A k \in 1..N : k - 1 \in T => k \in T
      BY <1>2, <1>3, <2>1
  <2>. HIDE DEF T
  <2>3. T = 0..N
      BY <2>2, UpTo
  <2>. QED  BY <2>1, <2>3
<1>5. PICK o, m : o = toRoman(n) /\ m = p[7].rem /\ Walked(7, o, m, n)
    BY <1>1, <1>4
<1>6. PICK a \in Int : a = ValueOf(o)
    BY <1>5, ValueIsSum DEF Walked
<1>7. m \in Nat /\ m < 1 /\ a + m = n
    BY <1>5, <1>6, StepsAre DEF Walked, Below
<1>. HIDE DEF T
<1>8. a = n
  <2>1. m = 0
      BY <1>7
  <2>. QED  BY <1>7, <2>1
<1>. QED  BY <1>5, <1>6, <1>8 DEF Walked

\* What toRoman() writes is the number, for every number.
LEMMA RomanRight == number \in Nat => RomanIsNumber
<1>. SUFFICES ASSUME number \in Nat PROVE RomanIsNumber
    OBVIOUS
<1>1. PICK s \in Seq(Nat) : /\ s = toRoman(number) /\ ValueOf(s) = number /\ Formed(s)
                            /\ (number < Few => NoFour(s))
    BY AllWalked
<1>2. PICK N \in Nat : N = Len(s) /\ DOMAIN s = 1..N
    BY LenProperties
<1>3. \A i \in 1..N : s[i] \in Nat
    BY <1>2, ElementOfSeq
<1>b. \A i \in 1..N : Subtracts(s, i) => s[i] \in Fronts /\ (i > 1 => ~Subtracts(s, i - 1))
  <2>1. OneBefore(s)
      BY <1>1 DEF Formed
  <2>. QED  BY ONLY <1>2, <2>1 DEF OneBefore
<1>n. \A i, j \in 1..N : i < j /\ s[i] < s[j] => j = i + 1
  <2>1. NoneLater(s)
      BY <1>1 DEF Formed
  <2>. QED  BY ONLY <1>2, <2>1 DEF NoneLater
<1>f. number < 4000 => \A i \in 4..N : ~(s[i - 1] = s[i] /\ s[i - 2] = s[i] /\ s[i - 3] = s[i])
  <2>1. number < 4000 => NoFour(s)
      BY <1>1 DEF Few
  <2>. QED  BY ONLY <1>2, <2>1 DEF NoFour
<1>4. \A i \in 1..N : Counts(s, i) < 0 => Subtracts(s, i)
  <2>. SUFFICES ASSUME NEW i \in 1..N, Counts(s, i) < 0, ~Subtracts(s, i) PROVE FALSE
      OBVIOUS
  <2>1. Counts(s, i) = s[i]
      BY DEF Counts, Subtracts
  <2>. QED  BY <1>3, <2>1
<1>5. \A i \in 1..N : Subtracts(s, i) => Counts(s, i) < 0
  <2>. SUFFICES ASSUME NEW i \in 1..N, Subtracts(s, i) PROVE Counts(s, i) < 0
      OBVIOUS
  <2>1. Counts(s, i) = -s[i]
      BY DEF Counts, Subtracts
  <2>2. s[i] \in Fronts
      BY <1>b
  <2>3. s[i] = 1 \/ s[i] = 10 \/ s[i] = 100
      BY <2>2 DEF Fronts
  <2>. QED  BY <2>1, <2>3
<1>6. \A i \in 1..N : i > 1 => i - 1 \in 1..N
    OBVIOUS
<1>7. \A i \in DOMAIN s : Counts(s, i) < 0 => s[i] \in {1, 10, 100} /\ (i > 1 => ~(Counts(s, i - 1) < 0))
  <2>. SUFFICES ASSUME NEW i \in 1..N, Counts(s, i) < 0
                PROVE  s[i] \in {1, 10, 100} /\ (i > 1 => ~(Counts(s, i - 1) < 0))
      BY <1>2
  <2>1. Subtracts(s, i)
      BY <1>4
  <2>2. s[i] \in Fronts /\ (i > 1 => ~Subtracts(s, i - 1))
      BY <1>b, <2>1
  <2>3. s[i] \in {1, 10, 100}
      BY <2>2 DEF Fronts
  <2>4. i > 1 => ~(Counts(s, i - 1) < 0)
      BY <1>4, <1>6, <2>2
  <2>. QED  BY <2>3, <2>4
<1>8. \A i \in DOMAIN s : \A j \in DOMAIN s : i < j /\ s[i] < s[j] => j = i + 1
    BY <1>2, <1>n
<1>9. number < 4000 => \A i \in 4..Len(s) : {s[i - 1], s[i - 2], s[i - 3]} # {s[i]}
  <2>1. ASSUME number < 4000, NEW i \in 4..N PROVE {s[i - 1], s[i - 2], s[i - 3]} # {s[i]}
    <3>1. ~(s[i - 1] = s[i] /\ s[i - 2] = s[i] /\ s[i - 3] = s[i])
        BY <1>f, <2>1
    <3>2. PICK a, b, c, d : a = s[i - 1] /\ b = s[i - 2] /\ c = s[i - 3] /\ d = s[i]
        OBVIOUS
    <3>3. {a, b, c} # {d}
      <4>1. ~(a = d /\ b = d /\ c = d)
          BY <3>1, <3>2
      <4>. QED  BY ONLY <4>1
    <3>. QED  BY <3>2, <3>3
  <2>. DEFINE Apart(i) == {s[i - 1], s[i - 2], s[i - 3]} # {s[i]}
  <2>2. number < 4000 => \A i \in 4..N : Apart(i)
      BY <2>1, Zenon
  <2>. HIDE DEF Apart
  <2>3. number < 4000 => \A i \in 4..Len(s) : Apart(i)
      BY <1>2, <2>2
  <2>. QED  BY <2>3, Zenon DEF Apart
<1>. DEFINE WellWritten(t) ==
               /\ ValueOf(t) = number
               /\ \A i \in DOMAIN t : Counts(t, i) < 0 => t[i] \in {1, 10, 100} /\ (i > 1 => ~(Counts(t, i - 1) < 0))
               /\ \A i \in DOMAIN t : \A j \in DOMAIN t : i < j /\ t[i] < t[j] => j = i + 1
               /\ number < 4000 => \A i \in 4..Len(t) : {t[i - 1], t[i - 2], t[i - 3]} # {t[i]}
<1>10. WellWritten(s)
    BY <1>1, <1>7, <1>8, <1>9, Zenon
<1>11. WellWritten(toRoman(number)) => RomanIsNumber
    BY Zenon DEF RomanIsNumber
<1>. HIDE DEF WellWritten
<1>. QED  BY <1>1, <1>10, <1>11

-----------------------------------------------------------------------------
(* Utilities: each part keeps its own invariant, whichever of them is used.  *)

UtilitiesIInv == /\ DateTypeOK /\ TimeTypeOK /\ TimespecTypeOK /\ number \in Nat
                 /\ EntIInv /\ EnumIInv /\ EnvIInv

LEMMA NumbersAre == \A n \in Numbers : n \in Nat
<1>1. MaxNumber \in Int
    BY SMT DEF MaxNumber
<1>. QED  BY <1>1, RomanAssumption

LEMMA UtilitiesInitIInv == UtilitiesInit => UtilitiesIInv
<1>. SUFFICES ASSUME UtilitiesInit PROVE UtilitiesIInv
    OBVIOUS
<1>1. /\ DateInit /\ TimeInit /\ TimespecInit /\ RomanInit
      /\ EntitiesInit /\ EnumInit /\ ChildEnvInit
    BY DEF UtilitiesInit
<1>2. DateTypeOK
    BY <1>1, MaxYearIsLarge DEF DateInit, Unset, DateTypeOK
<1>3. TimeTypeOK
    BY <1>1 DEF TimeInit, NoTime, TimeTypeOK
<1>4. TimespecTypeOK
  <2>1. Second \in Nat \ {0}
      BY TimespecAssumption
  <2>. QED  BY <1>1, <2>1 DEF TimespecInit, TimespecTypeOK
<1>5. number \in Nat
    BY <1>1 DEF RomanInit
<1>. QED  BY <1>1, <1>2, <1>3, <1>4, <1>5, EntIInvInit, EnumIInvInit, EnvIInvInit DEF UtilitiesIInv

\* A step is one of the part that is used, and leaves the others alone.
LEMMA UtilitiesStepIInv == UtilitiesIInv /\ [UtilitiesNext]_utilityVars => UtilitiesIInv'
<1>. SUFFICES ASSUME UtilitiesIInv, [UtilitiesNext]_utilityVars PROVE UtilitiesIInv'
    OBVIOUS
<1>1. /\ DateNext \/ UNCHANGED date
      /\ TimeNext \/ UNCHANGED time
      /\ TimespecNext \/ UNCHANGED ts
      /\ ToRoman \/ UNCHANGED number
      /\ [EntitiesNext]_entityVars /\ [EnumNext]_enumVars /\ [ChildEnvNext]_childEnvVars
    BY DEF UtilitiesNext, utilityVars
<1>2. DateTypeOK'
  <2>1. CASE DateNext
      BY <2>1, DateTypeStep DEF UtilitiesIInv
  <2>2. CASE UNCHANGED date
      BY <2>2 DEF UtilitiesIInv, DateTypeOK
  <2>. QED  BY <1>1, <2>1, <2>2
<1>3. TimeTypeOK'
  <2>1. CASE TimeNext
      BY <2>1, TimeTypeStep DEF UtilitiesIInv
  <2>2. CASE UNCHANGED time
      BY <2>2 DEF UtilitiesIInv, TimeTypeOK
  <2>. QED  BY <1>1, <2>1, <2>2
<1>4. TimespecTypeOK'
  <2>1. CASE TimespecNext
      BY <2>1, TimespecTypeStep DEF UtilitiesIInv
  <2>2. CASE UNCHANGED ts
      BY <2>2 DEF UtilitiesIInv, TimespecTypeOK
  <2>. QED  BY <1>1, <2>1, <2>2
<1>5. number' \in Nat
  <2>1. number \in Nat
      BY DEF UtilitiesIInv
  <2>2. CASE ToRoman
    <3>1. number' \in Numbers \/ number' = 0
        BY <2>2 DEF ToRoman
    <3>. QED  BY <3>1, NumbersAre
  <2>3. CASE UNCHANGED number
      BY <2>1, <2>3
  <2>. QED  BY <1>1, <2>2, <2>3
<1>. QED  BY <1>1, <1>2, <1>3, <1>4, <1>5, EntIInvStep, EnumIInvStep, EnvIInvStep DEF UtilitiesIInv

LEMMA UtilitiesInvariant == UtilitiesSpec => []UtilitiesIInv
<1>. QED  BY UtilitiesInitIInv, UtilitiesStepIInv, PTL DEF UtilitiesSpec

\* Whatever the program does with it, a date, a time and a timespec have fields in
\* their ranges, or unset ones; a call that converts a text is at a place the loops
\* have, with the texts it was given; and a look-up is at one of the lines, with
\* maps between the keys and the names of the enumeration.
THEOREM UtilitiesTypes == UtilitiesSpec => []UtilitiesTypeOK
<1>1. UtilitiesIInv => UtilitiesTypeOK
    BY EntitiesTyped DEF UtilitiesIInv, EnumIInv, EnvIInv, UtilitiesTypeOK
<1>. QED  BY <1>1, UtilitiesInvariant, PTL

\* What is computed once, at the first use, is right ever after.  Of any table of
\* codes, in whatever order it is gone through, the codes of a text are replaced, if
\* no call met one that was computing the length of the longest; if one did, codes
\* may stay, but nothing else happens to a text.  Of any enumeration, every look-up
\* gives what the enumeration says, if none met the first one; if memory ran out at
\* that one, never the name of another key.  And of any profile, a run() passes on
\* what stands before the first broken line, and what the program set instead.
THEOREM FirstUseIsRight == UtilitiesSpec => []FirstUseHolds
<1>1. UtilitiesIInv => FirstUseHolds
    BY CodesAreReplaced, EnvIsComplete DEF UtilitiesIInv, EnumIInv, FirstUseHolds
<1>. QED  BY <1>1, UtilitiesInvariant, PTL

-----------------------------------------------------------------------------
(* What comparisons, sums and differences say                                *)

LEMMA AgainstAre ==
    /\ \A d \in Against.dates : Dated(d)
    /\ \A t \in Against.times : ATime(t)
<1>1. ASSUME NEW d \in Against.dates PROVE Dated(d)
  <2>1. d \in [year : 0..MaxYear, month : 0..255, day : 0..255] /\ valid(d)
      BY UtilitiesAssumption
  <2>2. d \in [year : Nat, month : Nat, day : Nat]
      BY <2>1, MaxYearIsLarge
  <2>. QED  BY <2>1, <2>2 DEF Dated
<1>2. ASSUME NEW t \in Against.times PROVE ATime(t)
  <2>1. t \in [hour : 0..255, min : 0..255] /\ validTime(t)
      BY UtilitiesAssumption
  <2>2. t \in [hour : Nat, min : Nat]
      BY <2>1
  <2>. QED  BY <2>1, <2>2 DEF ATime
<1>. QED  BY <1>1, <1>2

LEMMA AmountsAre == \A n \in Amounts : n \in Nat
<1>1. MaxAmount \in Int
    BY SMT DEF MaxAmount
<1>. QED  BY <1>1, NaiveTimeAssumption

LEMMA KeptDate == DateTypeOK /\ valid(date) => Dated(date)
<1>. SUFFICES ASSUME DateTypeOK, valid(date) PROVE Dated(date)
    OBVIOUS
<1>1. date \in [year : Nat, month : Nat, day : Nat]
    BY MaxYearIsLarge DEF DateTypeOK
<1>. QED  BY <1>1 DEF Dated

LEMMA KeptTime == TimeTypeOK /\ validTime(time) => ATime(time)
<1>. SUFFICES ASSUME TimeTypeOK, validTime(time) PROVE ATime(time)
    OBVIOUS
<1>1. time \in [hour : Nat, min : Nat]
    BY DEF TimeTypeOK
<1>. QED  BY <1>1 DEF ATime

LEMMA KeptSpec == TimespecTypeOK => ASpec(ts)
BY TimespecAssumption DEF TimespecTypeOK, ASpec

LEMMA ClocksAre == \A t \in Timespecs : ASpec(t)
BY TimespecAssumption DEF ASpec

LEMMA DatesAsNumbers ==
    ASSUME DateTypeOK, valid(date), NEW d \in Against.dates
    PROVE  Agree(Day(date), Day(d), Earlier(date, d), NotLater(date, d), SameDate(date, d))
<1>1. Dated(date) /\ Dated(d)
    BY KeptDate, AgainstAre
<1>2. PICK m \in Int, n \in Int :
          /\ m = DayNumber(date.year, date.month, date.day) /\ n = DayNumber(d.year, d.month, d.day)
          /\ Earlier(date, d) <=> m < n
          /\ NotLater(date, d) <=> m <= n
          /\ SameDate(date, d) <=> m = n
    BY <1>1, DatesCompare
<1>. QED  BY <1>2 DEF Agree, Day

LEMMA TimesAsNumbers ==
    ASSUME TimeTypeOK, validTime(time)
    PROVE  /\ \A t \in Against.times :
                 /\ Agree(Minute(time), Minute(t), Before(time, t), NotAfter(time, t), SameTime(time, t))
                 /\ TimeMinus(time, t) = Minute(time) - Minute(t)
           /\ \A n \in Amounts : IF Minute(time) + n >= 1440 THEN TimePlus(time, n) = NoTime
                                 ELSE Minute(TimePlus(time, n)) = Minute(time) + n
<1>1. ASSUME NEW t \in Against.times
      PROVE  /\ Agree(Minute(time), Minute(t), Before(time, t), NotAfter(time, t), SameTime(time, t))
             /\ TimeMinus(time, t) = Minute(time) - Minute(t)
  <2>1. ATime(time) /\ ATime(t)
      BY KeptTime, AgainstAre
  <2>2. PICK m \in Int, n \in Int :
            /\ m = time.hour * 60 + time.min /\ n = t.hour * 60 + t.min
            /\ Before(time, t) <=> m < n
            /\ NotAfter(time, t) <=> m <= n
            /\ SameTime(time, t) <=> m = n
            /\ TimeMinus(time, t) = m - n
      BY <2>1, TimesCompare
  <2>. QED  BY <2>2 DEF Agree, Minute
<1>2. ASSUME NEW n \in Amounts
      PROVE  IF Minute(time) + n >= 1440 THEN TimePlus(time, n) = NoTime
             ELSE Minute(TimePlus(time, n)) = Minute(time) + n
  <2>1. ATime(time) /\ n \in Nat
      BY KeptTime, AmountsAre
  <2>2. PICK m \in Int :
            /\ m = time.hour * 60 + time.min
            /\ m + n >= 1440 => TimePlus(time, n) = NoTime
            /\ m + n < 1440 => /\ ATime(TimePlus(time, n))
                               /\ TimePlus(time, n).hour * 60 + TimePlus(time, n).min = m + n
      BY <2>1, MinutesAdded
  <2>3. Minute(time) = m
      BY <2>2 DEF Minute
  <2>4. CASE m + n >= 1440
      BY <2>2, <2>3, <2>4
  <2>5. CASE ~(m + n >= 1440)
    <3>1. m + n < 1440
        BY <2>1, <2>5
    <3>2. Minute(TimePlus(time, n)) = m + n
        BY <2>2, <3>1 DEF Minute
    <3>. QED  BY <2>3, <2>5, <3>2
  <2>. QED  BY <2>4, <2>5
<1>. QED  BY <1>1, <1>2

LEMMA TimespecsAsNumbers ==
    ASSUME TimespecTypeOK, NEW t \in Timespecs
    PROVE  /\ Agree(Nano(ts), Nano(t), Less(ts, t), AtMost(ts, t), Equal(ts, t))
           /\ Nano(Added(ts, t)) = Nano(ts) + Nano(t)
           /\ Nano(Subtracted(ts, t)) = Nano(ts) - Nano(t)
<1>1. ASpec(ts) /\ ASpec(t)
    BY KeptSpec, ClocksAre
<1>2. PICK m \in Int, n \in Int : /\ m = Nanos(ts) /\ n = Nanos(t)
                                  /\ Less(ts, t) <=> m < n
                                  /\ AtMost(ts, t) <=> m <= n
                                  /\ Equal(ts, t) <=> m = n
    BY <1>1, TimespecsCompare
<1>3. Nano(ts) = m /\ Nano(t) = n
    BY <1>2 DEF Nano, Nanos
<1>4. Agree(Nano(ts), Nano(t), Less(ts, t), AtMost(ts, t), Equal(ts, t))
    BY <1>2, <1>3 DEF Agree
<1>5. Nanos(Added(ts, t)) = Nanos(ts) + Nanos(t) /\ Nanos(Subtracted(ts, t)) = Nanos(ts) - Nanos(t)
    BY <1>1, TimespecsAdded
<1>6. Nano(Added(ts, t)) = Nano(ts) + Nano(t) /\ Nano(Subtracted(ts, t)) = Nano(ts) - Nano(t)
    BY <1>5 DEF Nano, Nanos
<1>. QED  BY <1>4, <1>6

LEMMA WeekdaysAreOwn == DateTypeOK => OwnWeekday
<1>. SUFFICES ASSUME DateTypeOK, valid(date) PROVE OwnWeekday
    BY DEF OwnWeekday
<1>. DEFINE Own(d, z) == (weekday(d, z) + 1) % 7 = Zeller(d)
<1>1. \A d : Dated(d) => \A z \in -719..720 : Own(d, z)
    BY WeekdayIsOwn, Zenon
<1>2. (\A z \in Zones : z \in -719..720 => Own(date, z)) => OwnWeekday
    BY DEF OwnWeekday
<1>. HIDE DEF Own
<1>3. Dated(date)
    BY KeptDate
<1>. QED  BY <1>1, <1>2, <1>3, Zenon

\* Of any dates, times and timespecs, comparisons (of timespecs <, <= and = only), sums
\* and differences are those of the numbers they stand for: days, minutes and
\* nanoseconds.  The weekday of any date is that of Zeller's congruence, in the zones
\* where noon is on the same day in UTC.  And the Roman numeral of any number has its
\* value, with one numeral at most before a larger one.
THEOREM NumbersAgree == UtilitiesSpec => []AsNumbers
<1>1. UtilitiesIInv => AsNumbers
  <2>. SUFFICES ASSUME UtilitiesIInv PROVE AsNumbers
      OBVIOUS
  <2>1. DateTypeOK /\ TimeTypeOK /\ TimespecTypeOK /\ number \in Nat
      BY DEF UtilitiesIInv
  <2>2. valid(date) => \A d \in Against.dates :
            Agree(Day(date), Day(d), Earlier(date, d), NotLater(date, d), SameDate(date, d))
      BY <2>1, DatesAsNumbers
  <2>3. \A t \in Timespecs :
            /\ Agree(Nano(ts), Nano(t), Less(ts, t), AtMost(ts, t), Equal(ts, t))
            /\ Nano(Added(ts, t)) = Nano(ts) + Nano(t)
            /\ Nano(Subtracted(ts, t)) = Nano(ts) - Nano(t)
      BY <2>1, TimespecsAsNumbers
  <2>4. RomanIsNumber /\ OwnWeekday
      BY <2>1, RomanRight, WeekdaysAreOwn
  <2>. QED  BY <2>1, <2>2, <2>3, <2>4, TimesAsNumbers DEF AsNumbers
<1>. QED  BY <1>1, UtilitiesInvariant, PTL

==============================================================================
