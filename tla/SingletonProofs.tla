-------------------------- MODULE SingletonProofs ---------------------------
(***************************************************************************)
(* Theorems about Singleton, for any number of threads and classes, and    *)
(* any relation of which constructor or destructor asks for which other    *)
(* singleton; the last one is for destructors that ask for no other than   *)
(* their constructors did.                                                 *)
(***************************************************************************)
EXTENDS Singleton, SequenceTheorems, TLAPS

-----------------------------------------------------------------------------
(* Sequences used as stacks                                                  *)

\* The last element of a non-empty sequence.
LEMMA TopOfStack ==
    ASSUME NEW S, NEW s \in Seq(S), s # <<>>
    PROVE  /\ Len(s) \in Nat /\ Len(s) >= 1
           /\ Last(s) = s[Len(s)] /\ Last(s) \in S
BY EmptySeq, ElementOfSeq, LenProperties DEF Last

\* What is left of it without the last element.
LEMMA FrontOfStack ==
    ASSUME NEW S, NEW s \in Seq(S), s # <<>>
    PROVE  /\ Front(s) \in Seq(S) /\ Len(Front(s)) = Len(s) - 1
           /\ \A i \in 1..(Len(s) - 1) : Front(s)[i] = s[i]
<1>. DEFINE n == Len(s) - 1
<1>1. n \in Nat
    BY TopOfStack
<1>2. \A i \in 1..n : s[i] \in S
    BY <1>1, ElementOfSeq, TopOfStack
<1>. HIDE DEF n
<1>3. /\ SubSeq(s, 1, n) \in Seq(S)
      /\ Len(SubSeq(s, 1, n)) = IF 1 <= n THEN n - 1 + 1 ELSE 0
      /\ \A i \in 1..(n - 1 + 1) : SubSeq(s, 1, n)[i] = s[1 + i - 1]
    BY <1>1, <1>2, SubSeqProperties
<1>4. Len(SubSeq(s, 1, n)) = n /\ \A i \in 1..n : SubSeq(s, 1, n)[i] = s[i]
    BY <1>1, <1>3
<1>. QED  BY <1>3, <1>4 DEF Front, n

\* A sequence whose last element was replaced.
LEMMA TopReplaced ==
    ASSUME NEW S, NEW s \in Seq(S), s # <<>>, NEW x \in S
    PROVE  LET r == Append(Front(s), x)
           IN  /\ r \in Seq(S) /\ Len(r) = Len(s) /\ r[Len(s)] = x
               /\ \A i \in 1..(Len(s) - 1) : r[i] = s[i]
BY FrontOfStack, TopOfStack, AppendProperties

\* The same with one more element behind it.
LEMMA CallPushed ==
    ASSUME NEW S, NEW s \in Seq(S), s # <<>>, NEW x \in S, NEW y \in S
    PROVE  LET r == Front(s) \o <<x, y>>
           IN  /\ r \in Seq(S) /\ Len(r) = Len(s) + 1 /\ r[Len(s)] = x /\ r[Len(s) + 1] = y
               /\ \A i \in 1..(Len(s) - 1) : r[i] = s[i]
BY FrontOfStack, TopOfStack, ConcatProperties

-----------------------------------------------------------------------------
(* The inductive invariant.                                                  *)

Typed == /\ instance \in [Classes -> Nat] /\ made \in [Classes -> Nat]
         /\ mux \in [Classes -> Threads \cup {NoThread}]
         /\ stack \in [Threads -> Seq(Frame)]
         /\ alive \subseteq Objects
         /\ handlers \in Seq(Classes)
         /\ exiter \in Threads \cup {NoThread} /\ over \in BOOLEAN /\ program \in Programs

Depths(t) == 1..Len(stack[t])

\* Call i of t is past its lock on the mutex of c.
Inside(t, i, c) == stack[t][i].c = c /\ stack[t][i].at # "lock"

\* The mutex of c is held by the thread that is inside a call of Singleton<c>,
\* which is inside one of them only: a second one would wait for the first.
Locked == \A t \in Threads, c \in Classes :
              /\ mux[c] = t <=> \E i \in Depths(t) : Inside(t, i, c)
              /\ \A i, j \in Depths(t) : Inside(t, i, c) /\ Inside(t, j, c) => i = j

\* What a call knows of the instance pointer, from its test on.
Knows(f) == /\ f.at \in {"ctor", "register"} => f.op = "instance"
            /\ f.at = "dtor" => f.op = "close"
            /\ f.at = "ctor" => instance[f.c] = 0
            /\ f.at \in {"register", "dtor"} => instance[f.c] # 0
            /\ f.at = "unlock" /\ f.op = "instance" => instance[f.c] # 0

\* A call that has called another one is in its constructor or destructor.
Stages == \A t \in Threads : \A i \in Depths(t) :
              /\ Knows(stack[t][i])
              /\ i # Len(stack[t]) => stack[t][i].at \in {"ctor", "dtor"}

Pointed == alive = {<<c, instance[c]>> : c \in {d \in Classes : instance[d] # 0}}

\* An object's close() is registered, is about to be, or is running at exit.
Closing(f, c) == f.c = c /\ f.op = "close" /\ f.at \in {"lock", "test", "dtor"}
InHand(c) == \/ \E n \in DOMAIN handlers : handlers[n] = c
             \/ \E t \in Threads : \E i \in Depths(t) : stack[t][i].c = c /\ stack[t][i].at = "register"
             \/ exiter \in Threads /\ \E i \in Depths(exiter) : Closing(stack[exiter][i], c)
Registered == \A c \in Classes : instance[c] # 0 => InHand(c)

AfterExit == over => exiter \in Threads /\ stack[exiter] = <<>> /\ handlers = <<>>

IInv == Typed /\ Locked /\ Stages /\ Pointed /\ Registered /\ AfterExit

-----------------------------------------------------------------------------
(* Stacks *)

Places == {"lock", "test", "ctor", "register", "dtor", "unlock"}

\* The calls a thread is in have their type, the innermost one included.
LEMMA Calls ==
    ASSUME Typed, NEW t \in Threads
    PROVE  /\ Len(stack[t]) \in Nat
           /\ \A i \in Depths(t) : stack[t][i] \in Frame
           /\ Busy(t) => Len(stack[t]) \in Depths(t) /\ Top(t) = stack[t][Len(stack[t])] /\ Top(t) \in Frame
           /\ ~Busy(t) => stack[t] = <<>> /\ Depths(t) = {}
<1>1. stack[t] \in Seq(Frame)
    BY DEF Typed
<1>2. Len(stack[t]) \in Nat /\ \A i \in Depths(t) : stack[t][i] \in Frame
    BY <1>1, LenProperties, ElementOfSeq DEF Depths
<1>3. CASE Busy(t)
    BY <1>1, <1>2, <1>3, TopOfStack DEF Busy, Top, Depths
<1>4. CASE ~Busy(t)
    BY <1>1, <1>2, <1>4, EmptySeq DEF Busy, Depths
<1>. QED  BY <1>2, <1>3, <1>4

\* The innermost call of t goes on to another place, and nothing else of the
\* stacks changes.
LEMMA GoesOn ==
    ASSUME Typed, NEW t \in Threads, Busy(t),
           NEW l \in Places, NEW uses \in SUBSET Classes, GoTo(t, l, uses)
    PROVE  /\ stack' \in [Threads -> Seq(Frame)]
           /\ \A u \in Threads : Len(stack'[u]) = Len(stack[u])
           /\ \A u \in Threads : \A i \in Depths(u) :
                 /\ u # t \/ i # Len(stack[t]) => stack'[u][i] = stack[u][i]
                 /\ stack'[u][i].c = stack[u][i].c /\ stack'[u][i].op = stack[u][i].op
           /\ stack'[t][Len(stack[t])].at = l /\ stack'[t][Len(stack[t])].todo = uses
<1>. DEFINE f == [Top(t) EXCEPT !.at = l, !.todo = uses]
            s == stack[t]
<1>1. s \in Seq(Frame) /\ s # <<>> /\ Top(t) \in Frame /\ Top(t) = s[Len(s)] /\ Len(s) \in Nat
    BY Calls DEF Typed, Busy
<1>2. f \in Frame /\ f.at = l /\ f.todo = uses /\ f.c = Top(t).c /\ f.op = Top(t).op
    BY <1>1 DEF Frame, Places
<1>3. /\ Append(Front(s), f) \in Seq(Frame) /\ Len(Append(Front(s), f)) = Len(s)
      /\ Append(Front(s), f)[Len(s)] = f
      /\ \A i \in 1..(Len(s) - 1) : Append(Front(s), f)[i] = s[i]
    BY <1>1, <1>2, TopReplaced
<1>4. stack' = [stack EXCEPT ![t] = Append(Front(s), f)]
    BY DEF GoTo
<1>5. /\ stack' \in [Threads -> Seq(Frame)] /\ stack'[t] = Append(Front(s), f)
      /\ \A u \in Threads \ {t} : stack'[u] = stack[u]
    BY <1>3, <1>4 DEF Typed
<1>. HIDE DEF f, s
<1>6. \A i \in 1..Len(s) : i # Len(s) => i \in 1..(Len(s) - 1)
    BY <1>1
<1>. QED  BY <1>1, <1>2, <1>3, <1>5, <1>6 DEF Depths, s

\* An object stays in hand if its registration and the calls that take care of
\* it do.
LEMMA HandKept ==
    ASSUME NEW d \in Classes, InHand(d), exiter' = exiter,
           \A k \in DOMAIN handlers : k \in DOMAIN handlers' /\ handlers'[k] = handlers[k],
           \A u \in Threads : \A i \in Depths(u) :
               /\ i \in Depths(u)'
               /\ stack[u][i].c = d /\ stack[u][i].at = "register"
                     => stack'[u][i].c = d /\ stack'[u][i].at = "register"
               /\ Closing(stack[u][i], d) => Closing(stack'[u][i], d)
    PROVE  InHand(d)'
<1>1. CASE \E n \in DOMAIN handlers : handlers[n] = d
    BY <1>1 DEF InHand
<1>2. CASE \E t \in Threads : \E i \in Depths(t) : stack[t][i].c = d /\ stack[t][i].at = "register"
  <2>1. PICK t \in Threads : \E i \in Depths(t) : stack[t][i].c = d /\ stack[t][i].at = "register"
      BY <1>2
  <2>2. \E i \in Depths(t)' : stack'[t][i].c = d /\ stack'[t][i].at = "register"
      BY <2>1
  <2>. QED  BY <2>2 DEF InHand
<1>3. CASE exiter \in Threads /\ \E i \in Depths(exiter) : Closing(stack[exiter][i], d)
  <2>1. \E i \in Depths(exiter)' : Closing(stack'[exiter'][i], d)
      BY <1>3
  <2>. QED  BY <1>3, <2>1 DEF InHand, Closing
<1>. QED  BY <1>1, <1>2, <1>3 DEF InHand

\* The innermost call of t, past its lock, is the only one inside its class.
LEMMA OnlyInside ==
    ASSUME Typed, Locked, NEW t \in Threads, Busy(t), Top(t).at # "lock"
    PROVE  \A u \in Threads : \A i \in Depths(u) :
               Inside(u, i, Top(t).c) => u = t /\ i = Len(stack[t])
<1>1. /\ Len(stack[t]) \in Depths(t) /\ Inside(t, Len(stack[t]), Top(t).c)
      /\ Top(t).c \in Classes
    BY Calls DEF Inside, Frame
<1>. QED  BY <1>1 DEF Locked

\* When it goes on, and does not unlock, everybody is inside what he was in.
LEMMA StillLocked ==
    ASSUME Typed, Locked, NEW t \in Threads, Busy(t), Top(t).at # "lock",
           NEW l \in Places \ {"lock"}, NEW uses \in SUBSET Classes, GoTo(t, l, uses), mux' = mux
    PROVE  Locked'
<1>1. /\ \A u \in Threads : Depths(u)' = Depths(u)
      /\ \A u \in Threads : \A i \in Depths(u) :
            /\ u # t \/ i # Len(stack[t]) => stack'[u][i] = stack[u][i]
            /\ stack'[u][i].c = stack[u][i].c
      /\ stack'[t][Len(stack[t])].at # "lock"
    BY GoesOn DEF Depths
<1>2. stack[t][Len(stack[t])].at # "lock"
    BY Calls
<1>3. \A u \in Threads, c \in Classes : \A i \in Depths(u) : Inside(u, i, c)' <=> Inside(u, i, c)
    BY <1>1, <1>2 DEF Inside
<1>. QED  BY <1>1, <1>3 DEF Locked

-----------------------------------------------------------------------------
(* One lemma per action. *)

\* A thread that finds the mutex free is alone inside the class.
LEMMA LockKeeps ==
    ASSUME IInv, NEW t \in Threads, Lock(t), program' = program
    PROVE  IInv'
<1>. DEFINE n == Len(stack[t])
            c == Top(t).c
<1>1. GoTo(t, "test", {}) /\ Busy(t) /\ Typed
    BY DEF Lock, At, IInv
<1>2. /\ n \in Depths(t) /\ Top(t) = stack[t][n] /\ Top(t) \in Frame /\ c \in Classes
      /\ \A u \in Threads : Len(stack[u]) \in Nat /\ \A i \in Depths(u) : stack[u][i] \in Frame
    BY <1>1, Calls DEF Frame
<1>3. /\ stack' \in [Threads -> Seq(Frame)]
      /\ \A u \in Threads : Len(stack'[u]) = Len(stack[u])
      /\ \A u \in Threads : \A i \in Depths(u) :
            /\ u # t \/ i # n => stack'[u][i] = stack[u][i]
            /\ stack'[u][i].c = stack[u][i].c /\ stack'[u][i].op = stack[u][i].op
      /\ stack'[t][n].at = "test"
    BY <1>1, GoesOn DEF Places
<1>4. stack[t][n].at = "lock" /\ mux[c] = NoThread /\ mux' = [mux EXCEPT ![c] = t]
    BY <1>2 DEF Lock, At
<1>5. UNCHANGED <<instance, alive, made, handlers, exiter, over, program>>
    BY DEF Lock
<1>. HIDE DEF n, c
<1>6. Typed'
    BY <1>1, <1>2, <1>3, <1>4, <1>5 DEF Typed
<1>7. Locked'
  <2>1. c = stack[t][n].c
    BY <1>2 DEF c
  <2>2. \A u \in Threads : \A i \in Depths(u) : ~Inside(u, i, c)
    BY <1>2, <1>4, SingletonAssumption DEF IInv, Locked, c
  <2>3. \A u \in Threads, i \in Nat, d \in Classes :
            i \in Depths(u) => (Inside(u, i, d)' <=> Inside(u, i, d) \/ (u = t /\ i = n /\ d = c))
    BY <1>2, <1>3, <1>4, <2>1 DEF Inside
  <2>4. \A u \in Threads : Depths(u)' = Depths(u) /\ Depths(u) \subseteq Nat
    BY <1>2, <1>3 DEF Depths
  <2>. QED  BY <1>1, <1>2, <1>4, <2>2, <2>3, <2>4 DEF IInv, Locked, Typed
<1>8. Stages'
    BY <1>2, <1>3, <1>4, <1>5 DEF IInv, Stages, Knows, Depths
<1>9. Pointed' /\ AfterExit'
  <2>1. stack[t] # <<>>
    BY <1>1 DEF Busy
  <2>. QED  BY <1>1, <1>3, <1>5, <2>1 DEF IInv, Pointed, AfterExit, Lock
<1>10. Registered'
  <2>. SUFFICES ASSUME NEW d \in Classes, instance[d] # 0 PROVE InHand(d)'
      BY <1>5 DEF Registered
  <2>1. \A u \in Threads : \A i \in Depths(u) :
            /\ i \in Depths(u)'
            /\ stack[u][i].c = d /\ stack[u][i].at = "register"
                  => stack'[u][i].c = d /\ stack'[u][i].at = "register"
            /\ Closing(stack[u][i], d) => Closing(stack'[u][i], d)
      BY <1>2, <1>3, <1>4 DEF Depths, Closing
  <2>2. InHand(d)
      BY DEF IInv, Registered
  <2>. QED  BY <1>5, <2>1, <2>2, HandKept
<1>. QED  BY <1>6, <1>7, <1>8, <1>9, <1>10 DEF IInv

\* The test reads a pointer only the holder of the mutex changes.
LEMMA TestKeeps ==
    ASSUME IInv, NEW t \in Threads, Test(t), program' = program
    PROVE  IInv'
<1>. DEFINE n == Len(stack[t])
            c == Top(t).c
<1>1. Busy(t) /\ Top(t).at = "test" /\ Typed /\ Locked
    BY DEF Test, At, IInv
<1>2. /\ n \in Depths(t) /\ Top(t) = stack[t][n] /\ Top(t) \in Frame /\ c \in Classes
      /\ \A u \in Threads : Len(stack[u]) \in Nat /\ \A i \in Depths(u) : stack[u][i] \in Frame
    BY <1>1, Calls DEF Frame
<1>3. PICK l \in Places \ {"lock"}, uses \in SUBSET Classes :
         /\ GoTo(t, l, uses)
         /\ \/ l = "ctor" /\ Top(t).op = "instance" /\ instance[c] = 0
            \/ l = "dtor" /\ Top(t).op = "close" /\ instance[c] # 0
            \/ /\ l = "unlock"
               /\ Top(t).op = "instance" => instance[c] # 0
               /\ Top(t).op = "close" => instance[c] = 0
    BY <1>2, SingletonAssumption DEF Test, Places
<1>4. /\ stack' \in [Threads -> Seq(Frame)]
      /\ \A u \in Threads : Len(stack'[u]) = Len(stack[u])
      /\ \A u \in Threads : \A i \in Depths(u) :
            /\ u # t \/ i # n => stack'[u][i] = stack[u][i]
            /\ stack'[u][i].c = stack[u][i].c /\ stack'[u][i].op = stack[u][i].op
      /\ stack'[t][n].at = l
    BY <1>1, <1>3, GoesOn
<1>5. UNCHANGED <<instance, mux, alive, made, handlers, exiter, over, program>>
    BY DEF Test
<1>. HIDE DEF n
<1>6. Typed'
    BY <1>1, <1>4, <1>5 DEF Typed
<1>7. Locked'
    BY <1>1, <1>3, <1>5, StillLocked
<1>8. Stages'
    BY <1>2, <1>3, <1>4, <1>5 DEF IInv, Stages, Knows, Depths
<1>9. Pointed' /\ AfterExit'
  <2>1. stack[t] # <<>>
    BY <1>1 DEF Busy
  <2>2. Pointed'
    BY <1>5 DEF IInv, Pointed
  <2>3. AfterExit'
    BY <1>2, <1>4, <1>5, <2>1, EmptySeq DEF IInv, AfterExit, Typed
  <2>. QED  BY <2>2, <2>3
<1>10. Registered'
  <2>. SUFFICES ASSUME NEW d \in Classes, instance[d] # 0 PROVE InHand(d)'
      BY <1>5 DEF Registered
  <2>1. \A u \in Threads : \A i \in Depths(u) :
            /\ i \in Depths(u)'
            /\ stack[u][i].c = d /\ stack[u][i].at = "register"
                  => stack'[u][i].c = d /\ stack'[u][i].at = "register"
            /\ Closing(stack[u][i], d) => Closing(stack'[u][i], d)
      BY <1>1, <1>2, <1>3, <1>4 DEF Depths, Closing
  <2>2. InHand(d)
      BY DEF IInv, Registered
  <2>. QED  BY <1>5, <2>1, <2>2, HandKept
<1>. QED  BY <1>6, <1>7, <1>8, <1>9, <1>10 DEF IInv

\* The new object is what the pointer points to; register is next.
LEMMA ConstructKeeps ==
    ASSUME IInv, NEW t \in Threads, Construct(t), program' = program
    PROVE  IInv'
<1>. DEFINE n == Len(stack[t])
            c == Top(t).c
<1>1. Busy(t) /\ Top(t).at = "ctor" /\ Typed /\ Locked /\ GoTo(t, "register", {})
    BY DEF Construct, At, IInv
<1>2. /\ n \in Depths(t) /\ Top(t) = stack[t][n] /\ Top(t) \in Frame /\ c \in Classes
      /\ \A u \in Threads : Len(stack[u]) \in Nat /\ \A i \in Depths(u) : stack[u][i] \in Frame
    BY <1>1, Calls DEF Frame
<1>3. /\ stack' \in [Threads -> Seq(Frame)]
      /\ \A u \in Threads : Len(stack'[u]) = Len(stack[u])
      /\ \A u \in Threads : \A i \in Depths(u) :
            /\ u # t \/ i # n => stack'[u][i] = stack[u][i]
            /\ stack'[u][i].c = stack[u][i].c /\ stack'[u][i].op = stack[u][i].op
      /\ stack'[t][n].at = "register"
    BY <1>1, GoesOn DEF Places
<1>4. /\ made' = [made EXCEPT ![c] = @ + 1]
      /\ instance' = [instance EXCEPT ![c] = made[c] + 1]
      /\ alive' = alive \cup {<<c, made[c] + 1>>}
      /\ UNCHANGED <<mux, handlers, exiter, over, program>>
    BY DEF Construct
<1>5. /\ instance[c] = 0 /\ Top(t).op = "instance"
      /\ \A u \in Threads : \A i \in Depths(u) : Inside(u, i, c) => u = t /\ i = n
    BY <1>1, <1>2, OnlyInside DEF IInv, Stages, Knows
<1>. HIDE DEF n, c
<1>6. Typed' /\ made[c] + 1 \in Nat \ {0}
    BY <1>1, <1>2, <1>3, <1>4 DEF Typed, Objects
<1>7. Locked'
    BY <1>1, <1>4, StillLocked DEF Places
<1>8. Stages'
  <2>. SUFFICES ASSUME NEW u \in Threads, NEW i \in Depths(u)
                PROVE  /\ Knows(stack[u][i])'
                       /\ i # Len(stack[u]) => stack'[u][i].at \in {"ctor", "dtor"}
      BY <1>3 DEF Stages, Depths
  <2>1. CASE u = t /\ i = n
    <3>1. stack'[u][i].c = c /\ stack'[u][i].op = "instance" /\ stack'[u][i].at = "register"
        BY <1>2, <1>3, <1>5, <2>1 DEF c
    <3>2. instance'[c] # 0
        BY <1>1, <1>2, <1>4, <1>6 DEF Typed
    <3>. QED  BY <2>1, <3>1, <3>2 DEF Knows, n
  <2>2. CASE ~(u = t /\ i = n)
    <3>1. stack'[u][i] = stack[u][i] /\ stack[u][i] \in Frame /\ ~Inside(u, i, c)
        BY <1>2, <1>3, <1>5, <2>2
    <3>2. stack[u][i].at # "lock" => instance'[stack[u][i].c] = instance[stack[u][i].c]
        BY <1>1, <1>4, <3>1 DEF Inside, Frame, Typed
    <3>. QED  BY <3>1, <3>2 DEF IInv, Stages, Knows
  <2>. QED  BY <2>1, <2>2
<1>9. Pointed' /\ AfterExit'
  <2>1. Pointed'
    BY <1>1, <1>2, <1>4, <1>5, <1>6 DEF IInv, Pointed, Typed
  <2>2. stack[t] # <<>>
    BY <1>1 DEF Busy
  <2>3. AfterExit'
    BY <1>3, <1>4, <2>2, EmptySeq DEF IInv, AfterExit, Typed
  <2>. QED  BY <2>1, <2>3
<1>10. Registered'
  <2>. SUFFICES ASSUME NEW d \in Classes, instance'[d] # 0 PROVE InHand(d)'
      BY DEF Registered
  <2>1. CASE d = c
      BY <1>2, <1>3, <2>1 DEF InHand, Depths, c
  <2>2. CASE d # c
    <3>1. \A u \in Threads : \A i \in Depths(u) :
            /\ i \in Depths(u)'
            /\ stack[u][i].c = d /\ stack[u][i].at = "register"
                  => stack'[u][i].c = d /\ stack'[u][i].at = "register"
            /\ Closing(stack[u][i], d) => Closing(stack'[u][i], d)
        BY <1>2, <1>3, <2>2 DEF Depths, Closing, c
    <3>2. InHand(d)
        BY <1>1, <1>4, <2>2 DEF IInv, Registered, Typed
    <3>. QED  BY <1>4, <3>1, <3>2, HandKept
  <2>. QED  BY <2>1, <2>2
<1>. QED  BY <1>6, <1>7, <1>8, <1>9, <1>10 DEF IInv

\* From here on the list of handlers is what takes care of the object.
LEMMA RegisterKeeps ==
    ASSUME IInv, NEW t \in Threads, Register(t), ~over, program' = program
    PROVE  IInv'
<1>. DEFINE n == Len(stack[t])
            c == Top(t).c
<1>1. Busy(t) /\ Top(t).at = "register" /\ Typed /\ Locked /\ GoTo(t, "unlock", {})
    BY DEF Register, At, IInv
<1>2. /\ n \in Depths(t) /\ Top(t) = stack[t][n] /\ Top(t) \in Frame /\ c \in Classes
      /\ \A u \in Threads : Len(stack[u]) \in Nat /\ \A i \in Depths(u) : stack[u][i] \in Frame
    BY <1>1, Calls DEF Frame
<1>3. /\ stack' \in [Threads -> Seq(Frame)]
      /\ \A u \in Threads : Len(stack'[u]) = Len(stack[u])
      /\ \A u \in Threads : \A i \in Depths(u) :
            /\ u # t \/ i # n => stack'[u][i] = stack[u][i]
            /\ stack'[u][i].c = stack[u][i].c /\ stack'[u][i].op = stack[u][i].op
      /\ stack'[t][n].at = "unlock"
    BY <1>1, GoesOn DEF Places
<1>4. handlers' = Append(handlers, c) /\ UNCHANGED <<instance, mux, alive, made, exiter, over, program>>
    BY DEF Register
<1>5. /\ handlers' \in Seq(Classes) /\ Len(handlers) \in Nat /\ Len(handlers') = Len(handlers) + 1
      /\ handlers'[Len(handlers) + 1] = c
      /\ \A i \in 1..Len(handlers) : handlers'[i] = handlers[i]
    BY <1>1, <1>2, <1>4, AppendProperties, LenProperties DEF Typed
<1>. HIDE DEF n, c
<1>6. Typed'
    BY <1>1, <1>3, <1>4, <1>5 DEF Typed
<1>7. Locked'
    BY <1>1, <1>4, StillLocked DEF Places
<1>8. Stages'
    BY <1>1, <1>2, <1>3, <1>4 DEF IInv, Stages, Knows, Depths
<1>9. Pointed' /\ AfterExit'
  <2>1. Pointed'
    BY <1>4 DEF IInv, Pointed
  <2>. QED  BY <1>4, <2>1 DEF AfterExit
<1>10. Registered'
  <2>. SUFFICES ASSUME NEW d \in Classes, instance[d] # 0 PROVE InHand(d)'
      BY <1>4 DEF Registered
  <2>1. DOMAIN handlers = 1..Len(handlers) /\ DOMAIN handlers' = 1..(Len(handlers) + 1)
      BY <1>1, <1>5, LenProperties DEF Typed
  <2>2. CASE d = c
      BY <1>5, <2>1, <2>2 DEF InHand
  <2>3. CASE d # c
    <3>1. \A u \in Threads : \A i \in Depths(u) :
            /\ i \in Depths(u)'
            /\ stack[u][i].c = d /\ stack[u][i].at = "register"
                  => stack'[u][i].c = d /\ stack'[u][i].at = "register"
            /\ Closing(stack[u][i], d) => Closing(stack'[u][i], d)
        BY <1>2, <1>3, <2>3 DEF Depths, Closing, c
    <3>2. InHand(d)
        BY DEF IInv, Registered
    <3>3. \A k \in DOMAIN handlers : k \in DOMAIN handlers' /\ handlers'[k] = handlers[k]
        BY <1>5, <2>1
    <3>. QED  BY <1>4, <3>1, <3>2, <3>3, HandKept
  <2>. QED  BY <2>2, <2>3
<1>. QED  BY <1>6, <1>7, <1>8, <1>9, <1>10 DEF IInv

\* Object and pointer go together, with every other class untouched.
LEMMA DestroyKeeps ==
    ASSUME IInv, NEW t \in Threads, Destroy(t), program' = program
    PROVE  IInv'
<1>. DEFINE n == Len(stack[t])
            c == Top(t).c
<1>1. Busy(t) /\ Top(t).at = "dtor" /\ Typed /\ Locked /\ GoTo(t, "unlock", {})
    BY DEF Destroy, At, IInv
<1>2. /\ n \in Depths(t) /\ Top(t) = stack[t][n] /\ Top(t) \in Frame /\ c \in Classes
      /\ \A u \in Threads : Len(stack[u]) \in Nat /\ \A i \in Depths(u) : stack[u][i] \in Frame
    BY <1>1, Calls DEF Frame
<1>3. /\ stack' \in [Threads -> Seq(Frame)]
      /\ \A u \in Threads : Len(stack'[u]) = Len(stack[u])
      /\ \A u \in Threads : \A i \in Depths(u) :
            /\ u # t \/ i # n => stack'[u][i] = stack[u][i]
            /\ stack'[u][i].c = stack[u][i].c /\ stack'[u][i].op = stack[u][i].op
      /\ stack'[t][n].at = "unlock"
    BY <1>1, GoesOn DEF Places
<1>4. /\ alive' = alive \ {<<c, instance[c]>>}
      /\ instance' = [instance EXCEPT ![c] = 0]
      /\ UNCHANGED <<mux, made, handlers, exiter, over, program>>
    BY DEF Destroy
<1>5. /\ instance[c] # 0 /\ Top(t).op = "close"
      /\ \A u \in Threads : \A i \in Depths(u) : Inside(u, i, c) => u = t /\ i = n
    BY <1>1, <1>2, OnlyInside DEF IInv, Stages, Knows
<1>. HIDE DEF n, c
<1>6. Typed'
    BY <1>1, <1>3, <1>4 DEF Typed
<1>7. Locked'
    BY <1>1, <1>4, StillLocked DEF Places
<1>8. Stages'
  <2>. SUFFICES ASSUME NEW u \in Threads, NEW i \in Depths(u)
                PROVE  /\ Knows(stack[u][i])'
                       /\ i # Len(stack[u]) => stack'[u][i].at \in {"ctor", "dtor"}
      BY <1>3 DEF Stages, Depths
  <2>1. CASE u = t /\ i = n
    <3>1. stack'[u][i].op = "close" /\ stack'[u][i].at = "unlock"
        BY <1>2, <1>3, <1>5, <2>1
    <3>. QED  BY <2>1, <3>1 DEF Knows, n
  <2>2. CASE ~(u = t /\ i = n)
    <3>1. stack'[u][i] = stack[u][i] /\ stack[u][i] \in Frame /\ ~Inside(u, i, c)
        BY <1>2, <1>3, <1>5, <2>2
    <3>2. stack[u][i].at # "lock" => instance'[stack[u][i].c] = instance[stack[u][i].c]
        BY <1>1, <1>4, <3>1 DEF Inside, Frame, Typed
    <3>. QED  BY <3>1, <3>2 DEF IInv, Stages, Knows
  <2>. QED  BY <2>1, <2>2
<1>9. Pointed' /\ AfterExit'
  <2>1. Pointed'
    BY <1>1, <1>2, <1>4, <1>5 DEF IInv, Pointed, Typed
  <2>2. stack[t] # <<>>
    BY <1>1 DEF Busy
  <2>3. AfterExit'
    BY <1>3, <1>4, <2>2, EmptySeq DEF IInv, AfterExit, Typed
  <2>. QED  BY <2>1, <2>3
<1>10. Registered'
  <2>. SUFFICES ASSUME NEW d \in Classes, instance'[d] # 0 PROVE InHand(d)'
      BY DEF Registered
  <2>1. d # c /\ instance[d] # 0
      BY <1>1, <1>2, <1>4 DEF Typed
  <2>2. \A u \in Threads : \A i \in Depths(u) :
            /\ i \in Depths(u)'
            /\ stack[u][i].c = d /\ stack[u][i].at = "register"
                  => stack'[u][i].c = d /\ stack'[u][i].at = "register"
            /\ Closing(stack[u][i], d) => Closing(stack'[u][i], d)
      BY <1>2, <1>3, <2>1 DEF Depths, Closing, c
  <2>3. InHand(d)
      BY <2>1 DEF IInv, Registered
  <2>. QED  BY <1>4, <2>2, <2>3, HandKept
<1>. QED  BY <1>6, <1>7, <1>8, <1>9, <1>10 DEF IInv

\* The constructor or destructor that t is in asks for another singleton.
LEMMA UseKeeps ==
    ASSUME IInv, NEW t \in Threads, Use(t), program' = program
    PROVE  IInv'
<1>. DEFINE n == Len(stack[t])
            s == stack[t]
<1>1. Busy(t) /\ Top(t).at \in {"ctor", "dtor"} /\ Typed /\ Locked
    BY DEF Use, At, IInv
<1>2. /\ n \in Depths(t) /\ Top(t) = s[n] /\ Top(t) \in Frame /\ n \in Nat
      /\ \A u \in Threads : Len(stack[u]) \in Nat /\ \A i \in Depths(u) : stack[u][i] \in Frame
    BY <1>1, Calls
<1>3. PICK d \in Top(t).todo :
         stack' = [stack EXCEPT ![t] = Front(s) \o <<[Top(t) EXCEPT !.todo = @ \ {d}], Calling("instance", d)>>]
    BY DEF Use
<1>. DEFINE f == [Top(t) EXCEPT !.todo = @ \ {d}]
            g == Calling("instance", d)
<1>4. /\ f \in Frame /\ f.c = Top(t).c /\ f.op = Top(t).op /\ f.at = Top(t).at
      /\ g \in Frame /\ g.c \in Classes /\ g.op = "instance" /\ g.at = "lock"
    BY <1>2 DEF Frame, Calling
<1>. HIDE DEF f, g
<1>5. LET r == Front(s) \o <<f, g>>
      IN  /\ r \in Seq(Frame) /\ Len(r) = n + 1 /\ r[n] = f /\ r[n + 1] = g
          /\ \A i \in 1..(n - 1) : r[i] = s[i]
  <2>1. s \in Seq(Frame) /\ s # <<>> /\ n = Len(s)
    BY <1>1 DEF Typed, Busy
  <2>. HIDE DEF s, n
  <2>2. LET r == Front(s) \o <<f, g>>
        IN  /\ r \in Seq(Frame) /\ Len(r) = Len(s) + 1 /\ r[Len(s)] = f /\ r[Len(s) + 1] = g
            /\ \A i \in 1..(Len(s) - 1) : r[i] = s[i]
    BY <1>4, <2>1, CallPushed
  <2>. QED  BY <2>1, <2>2
<1>6. /\ stack' \in [Threads -> Seq(Frame)] /\ stack'[t] = Front(s) \o <<f, g>>
      /\ \A u \in Threads \ {t} : stack'[u] = stack[u]
    BY <1>1, <1>3, <1>5 DEF Typed, f, g
<1>7. /\ Len(stack'[t]) = n + 1 /\ stack'[t][n] = f /\ stack'[t][n + 1] = g
      /\ \A i \in 1..(n - 1) : stack'[t][i] = stack[t][i]
    BY <1>5, <1>6
<1>8. UNCHANGED <<instance, mux, alive, made, handlers, exiter, over, program>>
    BY DEF Use
<1>. HIDE DEF s
<1>9. /\ \A u \in Threads : Depths(u) \subseteq Depths(u)' /\ (u # t => Depths(u)' = Depths(u))
      /\ Depths(t)' = Depths(t) \cup {n + 1}
      /\ \A u \in Threads : \A i \in Depths(u) :
            /\ stack'[u][i].c = stack[u][i].c /\ stack'[u][i].op = stack[u][i].op
            /\ stack'[u][i].at = stack[u][i].at
  <2>1. Depths(t) = 1..n /\ Depths(t)' = 1..(n + 1) /\ \A i \in 1..n : i = n \/ i \in 1..(n - 1)
    BY <1>2, <1>7 DEF Depths
  <2>2. \A u \in Threads \ {t} : Depths(u)' = Depths(u)
    BY <1>6 DEF Depths
  <2>3. 1..(n + 1) = 1..n \cup {n + 1}
    BY <1>2
  <2>4. \A i \in Depths(t) : /\ stack'[t][i].c = stack[t][i].c /\ stack'[t][i].op = stack[t][i].op
                             /\ stack'[t][i].at = stack[t][i].at
    BY <1>2, <1>4, <1>7, <2>1 DEF s
  <2>. QED  BY <1>6, <2>1, <2>2, <2>3, <2>4
<1>10. Typed'
    BY <1>1, <1>6, <1>8 DEF Typed
<1>11. Locked'
  <2>1. \A u \in Threads, c \in Classes :
            /\ \A i \in Depths(u) : Inside(u, i, c)' <=> Inside(u, i, c)
            /\ \A i \in Depths(u)' : Inside(u, i, c)' => i \in Depths(u)
      BY <1>4, <1>7, <1>9 DEF Inside
  <2>. QED  BY <1>1, <1>8, <1>9, <2>1 DEF Locked
<1>12. Stages'
  <2>. SUFFICES ASSUME NEW u \in Threads, NEW i \in Depths(u)'
                PROVE  /\ Knows(stack[u][i])'
                       /\ i # Len(stack'[u]) => stack'[u][i].at \in {"ctor", "dtor"}
      BY DEF Stages
  <2>1. CASE i \in Depths(u)
    <3>1. Knows(stack[u][i])'
        BY <1>8, <1>9, <2>1 DEF IInv, Stages, Knows
    <3>2. u # t => (i # Len(stack'[u]) => stack'[u][i].at \in {"ctor", "dtor"})
        BY <1>6, <2>1 DEF IInv, Stages
    <3>3. u = t => stack'[u][i].at \in {"ctor", "dtor"}
        BY <1>1, <1>2, <1>9, <2>1 DEF IInv, Stages, s
    <3>. QED  BY <3>1, <3>2, <3>3
  <2>2. CASE u = t /\ i = n + 1
      BY <1>4, <1>7, <2>2 DEF Knows
  <2>. QED  BY <1>9, <2>1, <2>2
<1>13. Pointed' /\ AfterExit'
  <2>1. Pointed'
    BY <1>8 DEF IInv, Pointed
  <2>2. stack[t] # <<>>
    BY <1>1 DEF Busy
  <2>3. AfterExit'
    BY <1>6, <1>8, <2>2 DEF IInv, AfterExit
  <2>. QED  BY <2>1, <2>3
<1>14. Registered'
  <2>. SUFFICES ASSUME NEW e \in Classes, instance[e] # 0 PROVE InHand(e)'
      BY <1>8 DEF Registered
  <2>1. InHand(e)
      BY DEF IInv, Registered
  <2>. QED  BY <1>8, <1>9, <2>1, HandKept DEF Closing
<1>. QED  BY <1>10, <1>11, <1>12, <1>13, <1>14 DEF IInv

\* new T() throws: t leaves all its calls, none of which is a close().
LEMMA ConstructFailsKeeps ==
    ASSUME IInv, NEW t \in Threads, ConstructFails(t), program' = program
    PROVE  IInv'
<1>1. /\ Busy(t) /\ Top(t).at = "ctor" /\ Typed
      /\ stack' = [stack EXCEPT ![t] = <<>>]
      /\ mux' = [c \in Classes |-> IF mux[c] = t THEN NoThread ELSE mux[c]]
      /\ UNCHANGED <<instance, alive, made, handlers, exiter, over, program>>
    BY DEF ConstructFails, At, IInv
<1>2. /\ Len(stack[t]) \in Depths(t) /\ Top(t) = stack[t][Len(stack[t])]
      /\ \A u \in Threads : \A i \in Depths(u) : stack[u][i] \in Frame
      /\ \A i \in Depths(t) : i \in DOMAIN stack[t]
    BY <1>1, Calls, LenProperties DEF Depths, Typed
<1>3. /\ stack' \in [Threads -> Seq(Frame)] /\ stack'[t] = <<>>
      /\ \A u \in Threads \ {t} : stack'[u] = stack[u] /\ Depths(u)' = Depths(u)
      /\ Depths(t)' = {}
    BY <1>1, EmptySeq DEF Typed, Depths
<1>4. Typed'
    BY <1>1, <1>3 DEF Typed
<1>5. Locked'
    BY <1>1, <1>3, SingletonAssumption DEF IInv, Locked, Inside, Typed
<1>6. Stages'
    BY <1>1, <1>3 DEF IInv, Stages, Knows
<1>7. Pointed' /\ AfterExit'
    BY <1>1, <1>3 DEF IInv, Pointed, AfterExit
<1>8. Registered'
  <2>. SUFFICES ASSUME NEW d \in Classes, instance[d] # 0 PROVE InHand(d)'
      BY <1>1 DEF Registered
  <2>1. \A i \in Depths(t) : stack[t][i].op = "instance" /\ stack[t][i].at # "register"
      BY <1>1, <1>2 DEF ConstructFails, IInv, Stages
  <2>2. InHand(d)
      BY DEF IInv, Registered
  <2>3. CASE \E k \in DOMAIN handlers : handlers[k] = d
      BY <1>1, <2>3 DEF InHand
  <2>4. CASE \E u \in Threads : \E i \in Depths(u) : stack[u][i].c = d /\ stack[u][i].at = "register"
    <3>1. PICK u \in Threads : \E i \in Depths(u) : stack[u][i].c = d /\ stack[u][i].at = "register"
        BY <2>4
    <3>2. \E i \in Depths(u)' : stack'[u][i].c = d /\ stack'[u][i].at = "register"
        BY <1>3, <2>1, <3>1
    <3>. QED  BY <3>2 DEF InHand
  <2>5. CASE exiter \in Threads /\ \E i \in Depths(exiter) : Closing(stack[exiter][i], d)
    <3>1. exiter # t
        BY <2>1, <2>5 DEF Closing
    <3>. QED  BY <1>1, <1>3, <2>5, <3>1 DEF InHand, Closing
  <2>. QED  BY <2>2, <2>3, <2>4, <2>5 DEF InHand
<1>. QED  BY <1>4, <1>5, <1>6, <1>7, <1>8 DEF IInv

\* A call ends; nobody but t was inside its class.
LEMMA ReturnKeeps ==
    ASSUME IInv, NEW t \in Threads, Return(t), program' = program
    PROVE  IInv'
<1>. DEFINE n == Len(stack[t])
            c == Top(t).c
<1>1. /\ Busy(t) /\ Top(t).at = "unlock" /\ Typed /\ Locked
      /\ stack' = [stack EXCEPT ![t] = Front(@)]
      /\ mux' = [mux EXCEPT ![c] = NoThread]
      /\ UNCHANGED <<instance, alive, made, handlers, exiter, over, program>>
    BY DEF Return, At, IInv
<1>2. /\ n \in Depths(t) /\ Top(t) = stack[t][n] /\ Top(t) \in Frame /\ c \in Classes /\ n \in Nat
      /\ \A u \in Threads : Len(stack[u]) \in Nat /\ \A i \in Depths(u) : stack[u][i] \in Frame
    BY <1>1, Calls DEF Frame
<1>3. \A u \in Threads : \A i \in Depths(u) : Inside(u, i, c) => u = t /\ i = n
    BY <1>1, OnlyInside
<1>4. /\ Front(stack[t]) \in Seq(Frame) /\ Len(Front(stack[t])) = n - 1
      /\ \A i \in 1..(n - 1) : Front(stack[t])[i] = stack[t][i]
    BY <1>1, FrontOfStack DEF Typed, Busy
<1>5. /\ stack' \in [Threads -> Seq(Frame)]
      /\ stack'[t] = Front(stack[t])
      /\ \A u \in Threads \ {t} : stack'[u] = stack[u]
    BY <1>1, <1>4 DEF Typed
<1>. HIDE DEF n, c
<1>6. /\ \A u \in Threads \ {t} : Depths(u)' = Depths(u)
      /\ Depths(t)' = Depths(t) \ {n} /\ n \notin Depths(t)'
      /\ \A u \in Threads : \A i \in Depths(u)' : stack'[u][i] = stack[u][i] /\ i \in Depths(u)
  <2>1. \A u \in Threads \ {t} : Depths(u)' = Depths(u)
    BY <1>5 DEF Depths
  <2>2. Depths(t)' = 1..(n - 1) /\ Depths(t) = 1..n
    BY <1>4, <1>5 DEF Depths, n
  <2>3. 1..(n - 1) = (1..n) \ {n}
    BY <1>2
  <2>. QED  BY <1>4, <1>5, <2>1, <2>2, <2>3
<1>7. Typed'
    BY <1>1, <1>2, <1>5 DEF Typed
<1>8. Locked'
  <2>1. \A u \in Threads, d \in Classes, i \in Nat :
           i \in Depths(u)' /\ Inside(u, i, d)' <=> i \in Depths(u) /\ Inside(u, i, d) /\ d # c
    <3>. TAKE u \in Threads, d \in Classes, i \in Nat
    <3>1. Inside(t, n, c) /\ (Inside(t, n, d) => d = c)
        BY <1>1, <1>2 DEF Inside, c
    <3>2. i \in Depths(u)' => (Inside(u, i, d)' <=> Inside(u, i, d))
        BY <1>6 DEF Inside
    <3>. QED  BY <1>3, <1>6, <3>1, <3>2
  <2>2. \A u \in Threads : Depths(u) \subseteq Nat /\ Depths(u)' \subseteq Nat
      BY <1>2, <1>6 DEF Depths
  <2>3. \A u \in Threads, d \in Classes :
            mux'[d] = u <=> mux[d] = u /\ d # c
      BY <1>1, <1>2, SingletonAssumption DEF Typed
  <2>. QED  BY <1>1, <2>1, <2>2, <2>3 DEF Locked
<1>9. Stages'
    BY <1>1, <1>2, <1>5, <1>6 DEF IInv, Stages, Knows, n
<1>10. Pointed' /\ AfterExit'
  <2>1. stack[t] # <<>>
    BY <1>1 DEF Busy
  <2>. QED  BY <1>1, <1>5, <2>1 DEF IInv, Pointed, AfterExit
<1>11. Registered'
  <2>. SUFFICES ASSUME NEW d \in Classes, instance[d] # 0 PROVE InHand(d)'
      BY <1>1 DEF Registered
  <2>1. InHand(d)
      BY DEF IInv, Registered
  <2>2. \A u \in Threads : \A i \in Depths(u) :
            stack[u][i].at # "unlock" => i \in Depths(u)' /\ stack'[u][i] = stack[u][i]
      BY <1>1, <1>2, <1>6
  <2>3. CASE \E k \in DOMAIN handlers : handlers[k] = d
      BY <1>1, <2>3 DEF InHand
  <2>4. CASE \E u \in Threads : \E i \in Depths(u) : stack[u][i].c = d /\ stack[u][i].at = "register"
    <3>1. PICK u \in Threads : \E i \in Depths(u) : stack[u][i].c = d /\ stack[u][i].at = "register"
        BY <2>4
    <3>2. \E i \in Depths(u)' : stack'[u][i].c = d /\ stack'[u][i].at = "register"
        BY <2>2, <3>1
    <3>. QED  BY <3>2 DEF InHand
  <2>5. CASE exiter \in Threads /\ \E i \in Depths(exiter) : Closing(stack[exiter][i], d)
    <3>1. PICK u \in Threads : u = exiter /\ \E i \in Depths(u) : Closing(stack[u][i], d)
        BY <2>5
    <3>2. \E i \in Depths(u)' : Closing(stack'[u][i], d)
        BY <2>2, <3>1 DEF Closing
    <3>3. u = exiter'
        BY <1>1, <3>1
    <3>. QED  BY <3>2, <3>3 DEF InHand, Closing, Depths
  <2>. QED  BY <2>1, <2>3, <2>4, <2>5 DEF InHand
<1>. QED  BY <1>7, <1>8, <1>9, <1>10, <1>11 DEF IInv

-----------------------------------------------------------------------------
(* The calls the program makes, and exit().                                  *)

\* A thread that is in no call starts one: it holds no mutex yet.
LEMMA CallStarts ==
    ASSUME Typed, Locked, Stages, NEW t \in Threads, ~Busy(t), NEW c \in Classes,
           NEW op \in {"instance", "close", "is_constructed"},
           stack' = [stack EXCEPT ![t] = <<Calling(op, c)>>], UNCHANGED <<instance, mux>>
    PROVE  /\ stack' \in [Threads -> Seq(Frame)]
           /\ stack'[t] = <<Calling(op, c)>> /\ Depths(t)' = {1} /\ Depths(t) = {}
           /\ \A u \in Threads \ {t} : stack'[u] = stack[u] /\ Depths(u)' = Depths(u)
           /\ Locked' /\ Stages'
<1>. DEFINE f == Calling(op, c)
<1>1. f \in Frame /\ f.at = "lock"
    BY DEF Calling, Frame
<1>. HIDE DEF f
<1>2. <<f>> \in Seq(Frame) /\ Len(<<f>>) = 1 /\ <<f>>[1] = f
    BY <1>1
<1>3. /\ stack' \in [Threads -> Seq(Frame)] /\ stack'[t] = <<f>>
      /\ \A u \in Threads \ {t} : stack'[u] = stack[u] /\ Depths(u)' = Depths(u)
    BY <1>2 DEF Typed, Depths, f
<1>4. Depths(t)' = {1} /\ Depths(t) = {}
    BY <1>2, <1>3, Calls DEF Depths
<1>5. \A i \in Depths(t)', d \in Classes : ~Inside(t, i, d)'
    BY <1>1, <1>2, <1>3, <1>4 DEF Inside
<1>6. Locked'
    BY <1>3, <1>4, <1>5 DEF Locked, Inside
<1>7. Stages'
  <2>1. Knows(f)' /\ Len(stack'[t]) = 1 /\ stack'[t][1] = f
    BY <1>1, <1>2, <1>3 DEF Knows, f
  <2>. QED  BY <1>3, <1>4, <2>1 DEF Stages, Knows
<1>. QED  BY <1>3, <1>4, <1>6, <1>7 DEF f

\* The program calls a function.
LEMMA CallKeeps ==
    ASSUME IInv, NEW t \in Threads, NEW c \in Classes,
           NEW op \in {"instance", "close", "is_constructed"}, Call(t, c, op), program' = program
    PROVE  IInv'
<1>1. /\ ~Busy(t) /\ t # exiter /\ ~over /\ Typed /\ Locked /\ Stages
      /\ stack' = [stack EXCEPT ![t] = <<Calling(op, c)>>]
      /\ UNCHANGED <<instance, mux, alive, made, handlers, exiter, over, program>>
    BY DEF Call, IInv
<1>2. /\ stack' \in [Threads -> Seq(Frame)] /\ Depths(t) = {}
      /\ \A u \in Threads \ {t} : stack'[u] = stack[u] /\ Depths(u)' = Depths(u)
      /\ Locked' /\ Stages'
    BY <1>1, CallStarts
<1>3. Typed' /\ Pointed' /\ AfterExit'
    BY <1>1, <1>2 DEF IInv, Typed, Pointed, AfterExit
<1>4. Registered'
  <2>. SUFFICES ASSUME NEW d \in Classes, instance[d] # 0 PROVE InHand(d)'
      BY <1>1 DEF Registered
  <2>1. InHand(d)
      BY DEF IInv, Registered
  <2>2. \A u \in Threads : \A i \in Depths(u) : i \in Depths(u)' /\ stack'[u][i] = stack[u][i]
      BY <1>2
  <2>3. CASE \E k \in DOMAIN handlers : handlers[k] = d
      BY <1>1, <2>3 DEF InHand
  <2>4. CASE \E u \in Threads : \E i \in Depths(u) : stack[u][i].c = d /\ stack[u][i].at = "register"
    <3>1. PICK u \in Threads : \E i \in Depths(u) : stack[u][i].c = d /\ stack[u][i].at = "register"
        BY <2>4
    <3>2. \E i \in Depths(u)' : stack'[u][i].c = d /\ stack'[u][i].at = "register"
        BY <2>2, <3>1
    <3>. QED  BY <3>2 DEF InHand
  <2>5. CASE exiter \in Threads /\ \E i \in Depths(exiter) : Closing(stack[exiter][i], d)
    <3>1. PICK u \in Threads : u = exiter /\ \E i \in Depths(u) : Closing(stack[u][i], d)
        BY <2>5
    <3>2. u = exiter' /\ \E i \in Depths(u)' : Closing(stack'[u][i], d)
        BY <1>1, <2>2, <3>1 DEF Closing
    <3>. QED  BY <3>2 DEF InHand, Closing, Depths
  <2>. QED  BY <2>1, <2>3, <2>4, <2>5 DEF InHand
<1>. QED  BY <1>2, <1>3, <1>4 DEF IInv

\* exit() is called.
LEMMA ExitKeeps ==
    ASSUME IInv, NEW t \in Threads, Exit(t), program' = program
    PROVE  IInv'
<1>1. /\ exiter = NoThread /\ exiter' = t /\ ~over
      /\ UNCHANGED <<instance, mux, stack, alive, made, handlers, over, program>>
    BY SingletonAssumption DEF Exit, IInv, AfterExit
<1>2. Typed' /\ Locked' /\ Pointed' /\ AfterExit'
    BY <1>1 DEF IInv, Typed, Locked, Inside, Depths, Pointed, AfterExit
<1>3. Stages'
    BY <1>1 DEF IInv, Stages, Knows, Depths
<1>4. Registered'
  <2>. SUFFICES ASSUME NEW d \in Classes, instance[d] # 0 PROVE InHand(d)'
      BY <1>1 DEF Registered
  <2>1. InHand(d) /\ exiter \notin Threads
      BY <1>1, SingletonAssumption DEF IInv, Registered
  <2>. QED  BY <1>1, <2>1 DEF InHand, Depths
<1>. QED  BY <1>2, <1>3, <1>4 DEF IInv

\* exit() takes the last registered close() off the list and is inside it.
LEMMA RunHandlerKeeps ==
    ASSUME IInv, NEW t \in Threads, RunHandler(t), ~over, program' = program
    PROVE  IInv'
<1>. DEFINE c == Last(handlers)
<1>1. /\ t = exiter /\ ~Busy(t) /\ handlers # <<>> /\ Typed /\ Locked /\ Stages
      /\ handlers' = Front(handlers)
      /\ stack' = [stack EXCEPT ![t] = <<Calling("close", c)>>]
      /\ UNCHANGED <<instance, mux, alive, made, exiter, over, program>>
    BY DEF RunHandler, IInv
<1>2. /\ c \in Classes /\ c = handlers[Len(handlers)] /\ handlers' \in Seq(Classes)
      /\ Len(handlers') = Len(handlers) - 1 /\ Len(handlers) \in Nat
      /\ \A k \in 1..(Len(handlers) - 1) : handlers'[k] = handlers[k]
    BY <1>1, TopOfStack, FrontOfStack DEF Typed
<1>. HIDE DEF c
<1>3. /\ stack' \in [Threads -> Seq(Frame)] /\ Depths(t) = {}
      /\ stack'[t] = <<Calling("close", c)>> /\ Depths(t)' = {1}
      /\ \A u \in Threads \ {t} : stack'[u] = stack[u] /\ Depths(u)' = Depths(u)
      /\ Locked' /\ Stages'
    BY <1>1, <1>2, CallStarts
<1>4. Typed' /\ Pointed' /\ AfterExit'
    BY <1>1, <1>2, <1>3 DEF IInv, Typed, Pointed, AfterExit
<1>5. Registered'
  <2>. SUFFICES ASSUME NEW d \in Classes, instance[d] # 0 PROVE InHand(d)'
      BY <1>1 DEF Registered
  <2>1. InHand(d)
      BY DEF IInv, Registered
  <2>2. \A u \in Threads : \A i \in Depths(u) : i \in Depths(u)' /\ stack'[u][i] = stack[u][i]
      BY <1>3
  <2>3. CASE \E k \in DOMAIN handlers : handlers[k] = d
    <3>1. PICK k \in 1..Len(handlers) : handlers[k] = d
        BY <1>1, <2>3, LenProperties DEF Typed
    <3>2. CASE k = Len(handlers)
      <4>1. 1 \in Depths(t)' /\ Closing(stack'[t][1], d)
          BY <1>2, <1>3, <3>1, <3>2 DEF Closing, Calling
      <4>2. t = exiter'
          BY <1>1
      <4>. QED  BY <4>1, <4>2 DEF InHand, Closing, Depths
    <3>3. CASE k # Len(handlers)
      <4>1. k \in 1..(Len(handlers) - 1) /\ k \in 1..Len(handlers')
          BY <1>2, <3>1, <3>3
      <4>2. k \in DOMAIN handlers' /\ handlers'[k] = d
          BY <1>2, <3>1, <4>1, LenProperties
      <4>. QED  BY <4>2 DEF InHand
    <3>. QED  BY <3>2, <3>3
  <2>4. CASE \E u \in Threads : \E i \in Depths(u) : stack[u][i].c = d /\ stack[u][i].at = "register"
    <3>1. PICK u \in Threads : \E i \in Depths(u) : stack[u][i].c = d /\ stack[u][i].at = "register"
        BY <2>4
    <3>2. \E i \in Depths(u)' : stack'[u][i].c = d /\ stack'[u][i].at = "register"
        BY <2>2, <3>1
    <3>. QED  BY <3>2 DEF InHand
  <2>5. ~ \E i \in Depths(exiter) : Closing(stack[exiter][i], d)
      BY <1>1, <1>3
  <2>. QED  BY <2>1, <2>3, <2>4, <2>5 DEF InHand
<1>. QED  BY <1>3, <1>4, <1>5 DEF IInv

\* The process ends with exit() in no call and nothing registered.
LEMMA EndKeeps ==
    ASSUME IInv, NEW t \in Threads, End(t), program' = program
    PROVE  IInv'
<1>1. /\ t = exiter /\ ~Busy(t) /\ handlers = <<>> /\ over' = TRUE
      /\ UNCHANGED <<instance, mux, stack, alive, made, handlers, exiter, program>>
    BY DEF End
<1>2. Typed' /\ Locked' /\ Pointed' /\ AfterExit'
    BY <1>1 DEF IInv, Typed, Locked, Inside, Depths, Pointed, AfterExit, Busy
<1>3. Stages' /\ Registered'
    BY <1>1 DEF IInv, Stages, Knows, Registered, InHand, Depths
<1>. QED  BY <1>2, <1>3 DEF IInv

-----------------------------------------------------------------------------
(* The inductive invariant, and what follows from it.                        *)

\* The invariant holds before the first call.
LEMMA InitIInv == Init => IInv
<1>. SUFFICES ASSUME Init PROVE IInv
    OBVIOUS
<1>1. \A t \in Threads : Depths(t) = {}
    BY EmptySeq DEF Init, Depths
<1>2. Typed
    BY EmptySeq DEF Init, Typed
<1>3. Locked /\ Stages
    BY <1>1, SingletonAssumption DEF Init, Locked, Stages
<1>4. Pointed /\ Registered /\ AfterExit
    BY DEF Init, Pointed, Registered, AfterExit
<1>. QED  BY <1>2, <1>3, <1>4 DEF IInv

\* Every step keeps it.
LEMMA StepIInv == IInv /\ [Next]_vars => IInv'
<1>. SUFFICES ASSUME IInv, [Next]_vars PROVE IInv'
    OBVIOUS
<1>1. CASE NewCall
    BY <1>1, CallKeeps DEF NewCall
<1>2. ASSUME NEW t \in Threads, Step(t) PROVE IInv'
  <2>1. ~over /\ program' = program
      BY <1>2 DEF Step
  <2>2. CASE Lock(t)           BY <2>1, <2>2, LockKeeps
  <2>3. CASE Test(t)           BY <2>1, <2>3, TestKeeps
  <2>4. CASE Use(t)            BY <2>1, <2>4, UseKeeps
  <2>5. CASE Construct(t)      BY <2>1, <2>5, ConstructKeeps
  <2>6. CASE ConstructFails(t) BY <2>1, <2>6, ConstructFailsKeeps
  <2>7. CASE Register(t)       BY <2>1, <2>7, RegisterKeeps
  <2>8. CASE Destroy(t)        BY <2>1, <2>8, DestroyKeeps
  <2>9. CASE Return(t)         BY <2>1, <2>9, ReturnKeeps
  <2>10. CASE RunHandler(t)    BY <2>1, <2>10, RunHandlerKeeps
  <2>. QED  BY <1>2, <2>2, <2>3, <2>4, <2>5, <2>6, <2>7, <2>8, <2>9, <2>10 DEF Step
<1>3. ASSUME NEW t \in Threads, Leave(t) PROVE IInv'
    BY <1>3, ExitKeeps, EndKeeps DEF Leave
<1>4. CASE UNCHANGED vars
  <2>1. Typed' /\ Locked' /\ Pointed' /\ AfterExit'
      BY <1>4 DEF vars, IInv, Typed, Locked, Inside, Depths, Pointed, AfterExit
  <2>2. Stages' /\ Registered'
      BY <1>4 DEF vars, IInv, Stages, Knows, Registered, InHand, Depths
  <2>. QED  BY <2>1, <2>2 DEF IInv
<1>. QED  BY <1>1, <1>2, <1>3, <1>4 DEF Next, Ended

\* The invariant of the proof holds in every state of every program.
LEMMA Invariant == Spec => []IInv
BY InitIInv, StepIInv, PTL DEF Spec

\* The state has its types, and a class's mutex is held by the thread whose
\* guard is in scope, for any nesting of constructors and destructors.
THEOREM TypeCorrect == Spec => []TypeOK
<1>1. IInv => TypeOK
  <2>. SUFFICES ASSUME IInv PROVE TypeOK
      OBVIOUS
  <2>1. \A t \in Threads : DOMAIN stack[t] = Depths(t)
      BY LenProperties DEF IInv, Typed, Depths
  <2>2. \A c \in Classes, t \in Threads :
           mux[c] = t <=> \E i \in DOMAIN stack[t] : stack[t][i].c = c /\ stack[t][i].at # "lock"
      BY <2>1 DEF IInv, Locked, Inside
  <2>. QED  BY <2>2 DEF TypeOK, IInv, Typed
<1>. QED  BY <1>1, Invariant, PTL

\* What there is of a class is what its pointer points to: however the calls of
\* the threads interleave, no second object is made, none is lost and none is
\* destroyed twice, and instance() has an object to return.
THEOREM OneInstanceAlways == Spec => []OneInstance
<1>1. IInv => OneInstance
  <2>. SUFFICES ASSUME IInv PROVE OneInstance
      OBVIOUS
  <2>1. ASSUME NEW t \in Threads, At(t, "unlock"), Top(t).op = "instance"
        PROVE  instance[Top(t).c] # 0
      BY <2>1, Calls DEF IInv, Stages, Knows, At
  <2>. QED  BY <2>1 DEF OneInstance, IInv, Pointed
<1>. QED  BY <1>1, Invariant, PTL

\* When the process ends, an object that is still there is one whose constructor
\* has returned on another thread and whose close() is not registered yet.
THEOREM NothingLeftAtExit == Spec => []NoneLeft
<1>1. IInv => NoneLeft
  <2>. SUFFICES ASSUME IInv, over, NEW c \in Classes, instance[c] # 0
                PROVE  \E t \in Threads : \E i \in DOMAIN stack[t] :
                          stack[t][i].c = c /\ stack[t][i].at = "register"
      BY DEF NoneLeft
  <2>1. exiter \in Threads /\ stack[exiter] = <<>> /\ handlers = <<>> /\ InHand(c)
      BY DEF IInv, AfterExit, Registered
  <2>2. ~ \E k \in DOMAIN handlers : handlers[k] = c
      BY <2>1, EmptySeq
  <2>3. Depths(exiter) = {}
      BY <2>1, EmptySeq DEF Depths
  <2>4. \A t \in Threads : DOMAIN stack[t] = Depths(t)
      BY LenProperties DEF IInv, Typed, Depths
  <2>. QED  BY <2>1, <2>2, <2>3, <2>4 DEF InHand
<1>. QED  BY <1>1, Invariant, PTL

-----------------------------------------------------------------------------
(* The order of destruction at exit, for programs that join their threads    *)
(* first and do not call close() themselves.                                 *)

\* The close() of c is registered.
Kept(c) == \E k \in DOMAIN handlers : handlers[k] = c

\* It is registered once, behind those of the singletons the constructor uses.
Ordered == \A k \in DOMAIN handlers :
               /\ instance[handlers[k]] # 0
               /\ \A j \in DOMAIN handlers : handlers[j] = handlers[k] => j = k
               /\ \A d \in CtorUses[handlers[k]] : \E j \in 1..(k - 1) : handlers[j] = d

\* Call i of t is waiting for the instance() of d it has called.
Called(t, i, d) == i + 1 \in Depths(t) /\ stack[t][i + 1].op = "instance" /\ stack[t][i + 1].c = d

\* Before exit(): what a constructor has asked for is registered, or being asked
\* for, and its own object is registered when instance() returns it.
Asks(t, i) == LET f == stack[t][i] IN
    /\ f.op # "close"
    /\ f.at = "ctor" => \A d \in CtorUses[f.c] : d \in f.todo \/ Kept(d) \/ Called(t, i, d)
    /\ f.at = "register" => ~Kept(f.c) /\ \A d \in CtorUses[f.c] : Kept(d)
    /\ f.at = "unlock" /\ f.op = "instance" => Kept(f.c)
Working == exiter = NoThread => \A t \in Threads : \A i \in Depths(t) : Asks(t, i)

\* From exit() on: close() is run for an object whose used ones are still
\* registered, so that the calls its destructor makes find theirs.
Finds(t, i) == LET f == stack[t][i] IN
    /\ f.at \notin {"ctor", "register"}
    /\ f.op = "instance" => Kept(f.c)
    /\ f.op = "close" /\ f.at \in {"lock", "test", "dtor"}
          => ~Kept(f.c) /\ \A d \in CtorUses[f.c] : Kept(d)
    /\ f.at = "dtor" => f.todo \subseteq CtorUses[f.c]
Exiting == exiter # NoThread =>
               /\ \A t \in Threads \ {exiter} : stack[t] = <<>>
               /\ \A i \in Depths(exiter) : Finds(exiter, i)

InOrder == Ordered /\ Working /\ Exiting

\* Registered close()s stay in order while nothing is registered or run and what
\* they are to destroy is there.
LEMMA OrderStays ==
    ASSUME Ordered, handlers' = handlers, \A c \in Classes : Kept(c) => instance'[c] # 0,
           Typed
    PROVE  Ordered'
<1>1. \A k \in DOMAIN handlers : handlers[k] \in Classes /\ Kept(handlers[k])
    BY LenProperties, ElementOfSeq DEF Typed, Kept
<1>. QED  BY <1>1 DEF Ordered

\* Someone who is in a call when exit() was called is the one who called it.
LEMMA OnlyExiter ==
    ASSUME InOrder, NEW t \in Threads, Busy(t), exiter # NoThread
    PROVE  t = exiter
BY DEF InOrder, Exiting, Busy

\* The innermost call of t goes on, and no close() is registered or run.
LEMMA GoesOnInOrder ==
    ASSUME Typed, InOrder, NEW t \in Threads, Busy(t),
           NEW l \in Places, NEW uses \in SUBSET Classes, GoTo(t, l, uses),
           handlers' = handlers, exiter' = exiter,
           \A i : i = Len(stack[t])
                    => (exiter = NoThread => Asks(t, i)') /\ (exiter # NoThread => Finds(t, i)')
    PROVE  Working' /\ Exiting'
<1>. DEFINE n == Len(stack[t])
<1>1. /\ stack' \in [Threads -> Seq(Frame)]
      /\ \A u \in Threads : Len(stack'[u]) = Len(stack[u])
      /\ \A u \in Threads : \A i \in Depths(u) :
            /\ u # t \/ i # n => stack'[u][i] = stack[u][i]
            /\ stack'[u][i].c = stack[u][i].c /\ stack'[u][i].op = stack[u][i].op
    BY GoesOn
<1>2. \A u \in Threads : Depths(u)' = Depths(u)
    BY <1>1 DEF Depths
<1>3. \A c : Kept(c)' <=> Kept(c)
    BY DEF Kept
<1>4. \A u \in Threads : \A i, d : Called(u, i, d) => Called(u, i, d)'
    BY <1>1, <1>2 DEF Called
<1>. HIDE DEF n
<1>5. Working'
  <2>. SUFFICES ASSUME exiter = NoThread, NEW u \in Threads, NEW i \in Depths(u) PROVE Asks(u, i)'
      BY <1>2 DEF Working
  <2>1. CASE u = t /\ i = n
    <3>1. Asks(t, i)'
        BY <2>1 DEF n
    <3>. QED  BY <2>1, <3>1 DEF Asks, Called, Depths
  <2>2. CASE u # t \/ i # n
    <3>1. Asks(u, i) /\ stack'[u][i] = stack[u][i]
        BY <1>1, <2>2 DEF InOrder, Working
    <3>. QED  BY <1>3, <1>4, <3>1 DEF Asks
  <2>. QED  BY <2>1, <2>2
<1>6. Exiting'
  <2>. SUFFICES ASSUME exiter # NoThread PROVE Exiting'
      BY DEF Exiting
  <2>1. t = exiter
      BY OnlyExiter
  <2>2. \A u \in Threads \ {exiter} : stack'[u] = <<>>
      BY <1>1, <2>1, EmptySeq DEF InOrder, Exiting
  <2>3. \A i \in Depths(t) : Finds(t, i)'
    <3>1. TAKE i \in Depths(t)
    <3>2. CASE i = n
        BY <3>2 DEF n
    <3>3. CASE i # n
      <4>1. Finds(t, i) /\ stack'[t][i] = stack[t][i]
          BY <1>1, <2>1, <3>3 DEF InOrder, Exiting
      <4>. QED  BY <1>3, <4>1 DEF Finds
    <3>. QED  BY <3>2, <3>3
  <2>. QED  BY <1>2, <2>1, <2>2, <2>3 DEF Exiting
<1>. QED  BY <1>5, <1>6

\* A lock is taken, or found free; nothing of the order depends on it.
LEMMA LockInOrder ==
    ASSUME IInv, InOrder, NEW t \in Threads, Lock(t)
    PROVE  InOrder'
<1>. PICK n : n = Len(stack[t])
    OBVIOUS
<1>1. /\ Busy(t) /\ Top(t).at = "lock" /\ Typed /\ GoTo(t, "test", {})
      /\ UNCHANGED <<instance, handlers, exiter>>
    BY DEF Lock, At, IInv
<1>2. /\ n \in Depths(t) /\ Top(t) = stack[t][n] /\ Top(t) \in Frame
      /\ stack'[t][n].at = "test"
      /\ stack'[t][n].c = stack[t][n].c /\ stack'[t][n].op = stack[t][n].op
    BY <1>1, Calls, GoesOn DEF Places
<1>3. exiter = NoThread => Asks(t, n)'
    BY <1>2 DEF InOrder, Working, Asks
<1>4. exiter # NoThread => Finds(t, n)'
  <2>. SUFFICES ASSUME exiter # NoThread PROVE Finds(t, n)'
      OBVIOUS
  <2>1. Finds(t, n)
      BY <1>1, <1>2, OnlyExiter DEF InOrder, Exiting
  <2>. QED  BY <1>1, <1>2, <2>1 DEF Finds, Kept
<1>5. Working' /\ Exiting'
  <2>1. \A i : i = n => (exiter = NoThread => Asks(t, i)') /\ (exiter # NoThread => Finds(t, i)')
      BY <1>3, <1>4
  <2>. QED  BY <1>1, <2>1, GoesOnInOrder DEF Places
<1>6. Ordered'
  <2>1. \A c \in Classes : Kept(c) => instance'[c] # 0
      BY <1>1 DEF InOrder, Ordered, Kept
  <2>. QED  BY <1>1, <2>1, OrderStays DEF InOrder
<1>. QED  BY <1>5, <1>6 DEF InOrder

\* The test: instance() finds an object and its close() registered, or begins to
\* construct one; at exit it does not have to.
LEMMA TestInOrder ==
    ASSUME IInv, InOrder, NEW t \in Threads, Test(t),
           \A c \in Classes : DtorUses[c] \subseteq CtorUses[c]
    PROVE  InOrder'
<1>. PICK n, c, op : n = Len(stack[t]) /\ c = Top(t).c /\ op = Top(t).op
    OBVIOUS
<1>1. /\ Busy(t) /\ Top(t).at = "test" /\ Typed /\ Locked
      /\ UNCHANGED <<instance, handlers, exiter>>
    BY DEF Test, At, IInv
<1>2. n \in Depths(t) /\ Top(t) = stack[t][n] /\ Top(t) \in Frame /\ c \in Classes
    BY <1>1, Calls DEF Frame
<1>3. PICK l \in Places, uses \in SUBSET Classes :
         /\ GoTo(t, l, uses)
         /\ \/ l = "ctor" /\ op = "instance" /\ instance[c] = 0 /\ uses = CtorUses[c]
            \/ l = "dtor" /\ op = "close" /\ uses = DtorUses[c]
            \/ l = "unlock" /\ (op = "instance" => instance[c] # 0)
    BY <1>2, SingletonAssumption DEF Test, Places
<1>4. /\ stack'[t][n].at = l /\ stack'[t][n].todo = uses
      /\ stack'[t][n].c = c /\ stack'[t][n].op = op
    BY <1>1, <1>2, <1>3, GoesOn
<1>5. \A d : Kept(d)' <=> Kept(d)
    BY <1>1 DEF Kept
<1>6. exiter = NoThread => Asks(t, n)'
  <2>. SUFFICES ASSUME exiter = NoThread PROVE Asks(t, n)'
      OBVIOUS
  <2>1. op # "close"
      BY <1>2 DEF InOrder, Working, Asks
  <2>2. instance[c] # 0 => Kept(c)
    <3>. SUFFICES ASSUME instance[c] # 0 PROVE Kept(c)
        OBVIOUS
    <3>1. InHand(c)
        BY <1>2 DEF IInv, Registered
    <3>2. ~ \E u \in Threads : \E i \in Depths(u) : stack[u][i].c = c /\ stack[u][i].at = "register"
        BY <1>1, <1>2, OnlyInside DEF Inside
    <3>. QED  BY <3>1, <3>2, SingletonAssumption DEF InHand, Kept
  <2>. QED  BY <1>3, <1>4, <1>5, <2>1, <2>2 DEF Asks
<1>7. exiter # NoThread => Finds(t, n)'
  <2>. SUFFICES ASSUME exiter # NoThread PROVE Finds(t, n)'
      OBVIOUS
  <2>1. Finds(t, n)
      BY <1>1, <1>2, OnlyExiter DEF InOrder, Exiting
  <2>2. op = "instance" => instance[c] # 0
      BY <1>2, <2>1 DEF Finds, InOrder, Ordered, Kept
  <2>. QED  BY <1>1, <1>2, <1>3, <1>4, <1>5, <2>1, <2>2 DEF Finds
<1>8. Working' /\ Exiting'
  <2>1. \A i : i = n => (exiter = NoThread => Asks(t, i)') /\ (exiter # NoThread => Finds(t, i)')
      BY <1>6, <1>7
  <2>. QED  BY <1>1, <1>3, <2>1, GoesOnInOrder
<1>9. Ordered'
  <2>1. \A d \in Classes : Kept(d) => instance'[d] # 0
      BY <1>1 DEF InOrder, Ordered, Kept
  <2>. QED  BY <1>1, <2>1, OrderStays DEF InOrder
<1>. QED  BY <1>8, <1>9 DEF InOrder

\* Once exit() was called nobody is in a constructor, or has just left one.
LEMMA NotExiting ==
    ASSUME Typed, InOrder, NEW t \in Threads, Busy(t), Top(t).at \in {"ctor", "register"}
    PROVE  exiter = NoThread
<1>. SUFFICES ASSUME exiter # NoThread PROVE FALSE
    OBVIOUS
<1>1. t = exiter /\ Len(stack[t]) \in Depths(t) /\ Top(t) = stack[t][Len(stack[t])]
    BY OnlyExiter, Calls
<1>. QED  BY <1>1 DEF InOrder, Exiting, Finds

\* The constructor has asked for all it uses: their close()s are registered.
LEMMA ConstructInOrder ==
    ASSUME IInv, InOrder, NEW t \in Threads, Construct(t)
    PROVE  InOrder'
<1>. PICK n, c : n = Len(stack[t]) /\ c = Top(t).c
    OBVIOUS
<1>1. /\ Busy(t) /\ Top(t).at = "ctor" /\ Top(t).todo = {} /\ Typed /\ GoTo(t, "register", {})
      /\ instance' = [instance EXCEPT ![c] = made[c] + 1]
      /\ UNCHANGED <<handlers, exiter>>
    BY DEF Construct, At, IInv
<1>2. /\ n \in Depths(t) /\ Top(t) = stack[t][n] /\ Top(t) \in Frame /\ c \in Classes
      /\ n \in Nat
    BY <1>1, Calls DEF Frame
<1>3. /\ stack'[t][n].at = "register"
      /\ stack'[t][n].c = c /\ stack'[t][n].op = stack[t][n].op
    BY <1>1, <1>2, GoesOn DEF Places
<1>4. \A d : Kept(d)' <=> Kept(d)
    BY <1>1 DEF Kept
<1>5. exiter = NoThread
    BY <1>1, NotExiting
<1>6. ~Kept(c)
    BY <1>1, <1>2 DEF IInv, Stages, Knows, InOrder, Ordered, Kept
<1>7. \A d \in CtorUses[c] : Kept(d)
  <2>1. Asks(t, n)
      BY <1>2, <1>5 DEF InOrder, Working
  <2>2. \A d : ~Called(t, n, d)
      BY <1>2 DEF Called, Depths
  <2>. QED  BY <1>1, <1>2, <2>1, <2>2 DEF Asks
<1>8. Asks(t, n)'
  <2>1. Asks(t, n)
      BY <1>2, <1>5 DEF InOrder, Working
  <2>. QED  BY <1>3, <1>4, <1>6, <1>7, <2>1 DEF Asks
<1>9. Working' /\ Exiting'
  <2>1. \A i : i = n => (exiter = NoThread => Asks(t, i)') /\ (exiter # NoThread => Finds(t, i)')
      BY <1>5, <1>8
  <2>. QED  BY <1>1, <2>1, GoesOnInOrder DEF Places
<1>10. Ordered'
  <2>1. \A d \in Classes : Kept(d) => instance'[d] # 0
      BY <1>1, <1>6 DEF InOrder, Ordered, Kept, IInv, Typed
  <2>. QED  BY <1>1, <2>1, OrderStays DEF InOrder
<1>. QED  BY <1>9, <1>10 DEF InOrder

\* The new object is destroyed before those its constructor used.
LEMMA RegisterInOrder ==
    ASSUME IInv, InOrder, NEW t \in Threads, Register(t)
    PROVE  InOrder'
<1>. PICK n, c, m : n = Len(stack[t]) /\ c = Top(t).c /\ m = Len(handlers)
    OBVIOUS
<1>1. /\ Busy(t) /\ Top(t).at = "register" /\ Typed /\ Locked /\ GoTo(t, "unlock", {})
      /\ handlers' = Append(handlers, c)
      /\ UNCHANGED <<instance, exiter>>
    BY DEF Register, At, IInv
<1>2. n \in Depths(t) /\ Top(t) = stack[t][n] /\ Top(t) \in Frame /\ c \in Classes
    BY <1>1, Calls DEF Frame
<1>3. /\ \A u \in Threads : Len(stack'[u]) = Len(stack[u])
      /\ \A u \in Threads : \A i \in Depths(u) :
            /\ u # t \/ i # n => stack'[u][i] = stack[u][i]
            /\ stack'[u][i].c = stack[u][i].c /\ stack'[u][i].op = stack[u][i].op
      /\ stack'[t][n].at = "unlock"
    BY <1>1, GoesOn DEF Places
<1>4. /\ m \in Nat /\ DOMAIN handlers = 1..m /\ DOMAIN handlers' = 1..(m + 1)
      /\ handlers'[m + 1] = c /\ \A k \in 1..m : handlers'[k] = handlers[k]
    BY <1>1, <1>2, AppendProperties, LenProperties DEF Typed
<1>5. exiter = NoThread /\ exiter' = NoThread
    BY <1>1, NotExiting
<1>6. /\ instance[c] # 0 /\ ~Kept(c)
      /\ \A d \in CtorUses[c] : Kept(d)
    BY <1>1, <1>2, <1>5 DEF IInv, Stages, Knows, InOrder, Working, Asks
<1>7. \A d : Kept(d)' <=> Kept(d) \/ d = c
  <2>1. 1..(m + 1) = (1..m) \cup {m + 1}
      BY <1>4
  <2>. QED  BY <1>4, <2>1 DEF Kept
<1>8. Ordered'
  <2>. SUFFICES ASSUME NEW k \in 1..(m + 1)
                PROVE  /\ instance[handlers'[k]] # 0
                       /\ \A j \in 1..(m + 1) : handlers'[j] = handlers'[k] => j = k
                       /\ \A d \in CtorUses[handlers'[k]] : \E j \in 1..(k - 1) : handlers'[j] = d
    <3>1. DOMAIN handlers' = 1..(m + 1) /\ instance' = instance
        BY <1>1, <1>4
    <3>. QED  BY <3>1 DEF Ordered
  <2>1. CASE k = m + 1
    <3>1. \A j \in 1..m : handlers'[j] # c
        BY <1>4, <1>6 DEF Kept
    <3>2. \A d \in CtorUses[c] : \E j \in 1..m : handlers'[j] = d
        BY <1>4, <1>6 DEF Kept
    <3>. QED  BY <1>4, <1>6, <2>1, <3>1, <3>2
  <2>2. CASE k \in 1..m
    <3>1. /\ instance[handlers[k]] # 0
          /\ \A j \in 1..m : handlers[j] = handlers[k] => j = k
          /\ \A d \in CtorUses[handlers[k]] : \E j \in 1..(k - 1) : handlers[j] = d
        BY <1>4, <2>2 DEF InOrder, Ordered
    <3>2. handlers'[k] = handlers[k] /\ handlers'[k] # c /\ 1..(k - 1) \subseteq 1..m
        BY <1>4, <1>6, <2>2 DEF Kept
    <3>3. \A d \in CtorUses[handlers[k]] : \E j \in 1..(k - 1) : handlers'[j] = d
        BY <1>4, <3>1, <3>2
    <3>4. \A j \in 1..(m + 1) : handlers'[j] = handlers'[k] => j = k
        BY <1>4, <3>1, <3>2
    <3>. QED  BY <3>1, <3>2, <3>3, <3>4
  <2>. QED  BY <1>4, <2>1, <2>2
<1>9. Working'
  <2>1. \A u \in Threads : Depths(u)' = Depths(u)
      BY <1>3 DEF Depths
  <2>. SUFFICES ASSUME NEW u \in Threads, NEW i \in Depths(u) PROVE Asks(u, i)'
      BY <2>1 DEF Working
  <2>2. Asks(u, i)
      BY <1>5 DEF InOrder, Working
  <2>3. CASE u = t /\ i = n
      BY <1>2, <1>3, <1>7, <2>2, <2>3 DEF Asks
  <2>4. CASE u # t \/ i # n
    <3>1. stack'[u][i] = stack[u][i]
        BY <1>3, <2>4
    <3>2. stack[u][i].at = "register" => stack[u][i].c # c
        BY <1>1, <2>4, OnlyInside DEF Inside
    <3>3. \A d : Called(u, i, d) => Called(u, i, d)'
        BY <1>3, <2>1 DEF Called
    <3>. QED  BY <1>7, <2>2, <3>1, <3>2, <3>3 DEF Asks
  <2>. QED  BY <2>3, <2>4
<1>. QED  BY <1>5, <1>8, <1>9 DEF InOrder, Exiting

\* Its close() has been taken off the list when the object is destroyed.
LEMMA DestroyInOrder ==
    ASSUME IInv, InOrder, NEW t \in Threads, Destroy(t)
    PROVE  InOrder'
<1>. PICK n, c : n = Len(stack[t]) /\ c = Top(t).c
    OBVIOUS
<1>1. /\ Busy(t) /\ Top(t).at = "dtor" /\ Typed /\ GoTo(t, "unlock", {})
      /\ instance' = [instance EXCEPT ![c] = 0]
      /\ UNCHANGED <<handlers, exiter>>
    BY DEF Destroy, At, IInv
<1>2. n \in Depths(t) /\ Top(t) = stack[t][n] /\ Top(t) \in Frame /\ c \in Classes
    BY <1>1, Calls DEF Frame
<1>3. /\ stack'[t][n].at = "unlock"
      /\ stack'[t][n].c = c /\ stack'[t][n].op = stack[t][n].op
    BY <1>1, <1>2, GoesOn DEF Places
<1>4. stack[t][n].op = "close"
    BY <1>1, <1>2 DEF IInv, Stages, Knows
<1>5. exiter # NoThread
    BY <1>2, <1>4 DEF InOrder, Working, Asks
<1>6. ~Kept(c)
    BY <1>1, <1>2, <1>4, <1>5, OnlyExiter DEF InOrder, Exiting, Finds
<1>7. Finds(t, n)'
    BY <1>3, <1>4 DEF Finds
<1>8. Working' /\ Exiting'
  <2>1. \A i : i = n => (exiter = NoThread => Asks(t, i)') /\ (exiter # NoThread => Finds(t, i)')
      BY <1>5, <1>7
  <2>. QED  BY <1>1, <2>1, GoesOnInOrder DEF Places
<1>9. Ordered'
  <2>1. \A d \in Classes : Kept(d) => instance'[d] # 0
      BY <1>1, <1>6 DEF InOrder, Ordered, Kept, IInv, Typed
  <2>. QED  BY <1>1, <2>1, OrderStays DEF InOrder
<1>. QED  BY <1>8, <1>9 DEF InOrder

\* What a constructor or, at exit, a destructor asks for is on top of it.
LEMMA UseInOrder ==
    ASSUME IInv, InOrder, NEW t \in Threads, Use(t)
    PROVE  InOrder'
<1>. PICK n : n = Len(stack[t])
    OBVIOUS
<1>1. /\ Busy(t) /\ Top(t).at \in {"ctor", "dtor"} /\ Typed
      /\ UNCHANGED <<instance, handlers, exiter>>
    BY DEF Use, At, IInv
<1>2. n \in Depths(t) /\ Top(t) = stack[t][n] /\ Top(t) \in Frame /\ n \in Nat
    BY <1>1, Calls
<1>3. PICK d \in Top(t).todo :
         stack' = [stack EXCEPT ![t] = Front(@) \o <<[Top(t) EXCEPT !.todo = @ \ {d}], Calling("instance", d)>>]
    BY DEF Use
<1>4. PICK f, g : f = [Top(t) EXCEPT !.todo = @ \ {d}] /\ g = Calling("instance", d)
    OBVIOUS
<1>5. /\ f \in Frame /\ f.c = Top(t).c /\ f.op = Top(t).op /\ f.at = Top(t).at /\ f.todo = Top(t).todo \ {d}
      /\ g \in Frame /\ g.c = d /\ g.op = "instance" /\ g.at = "lock"
    BY <1>2, <1>4 DEF Frame, Calling
<1>6. /\ \A u \in Threads \ {t} : stack'[u] = stack[u] /\ Depths(u)' = Depths(u)
      /\ Depths(t)' = Depths(t) \cup {n + 1} /\ n + 1 \notin Depths(t)
      /\ stack'[t][n] = f /\ stack'[t][n + 1] = g
      /\ \A i \in Depths(t) : i # n => stack'[t][i] = stack[t][i]
  <2>1. stack[t] \in Seq(Frame) /\ stack[t] # <<>>
    BY <1>1 DEF Typed, Busy
  <2>2. PICK s, r : s = stack[t] /\ r = Front(s) \o <<f, g>>
    OBVIOUS
  <2>3. /\ Len(r) = n + 1 /\ r[n] = f /\ r[n + 1] = g
        /\ \A i \in 1..(n - 1) : r[i] = s[i]
    <3>1. s \in Seq(Frame) /\ s # <<>> /\ n = Len(s) /\ f \in Frame /\ g \in Frame
        BY <1>5, <2>1, <2>2
    <3>2. LET q == Front(s) \o <<f, g>>
          IN  /\ Len(q) = Len(s) + 1 /\ q[Len(s)] = f /\ q[Len(s) + 1] = g
              /\ \A i \in 1..(Len(s) - 1) : q[i] = s[i]
        BY ONLY <3>1, CallPushed
    <3>. QED  BY <2>2, <3>1, <3>2
  <2>4. stack' = [stack EXCEPT ![t] = r]
    BY <1>3, <1>4, <2>2
  <2>5. stack'[t] = r /\ \A u \in Threads \ {t} : stack'[u] = stack[u]
    BY <1>1, <2>4 DEF Typed
  <2>6. Depths(t) = 1..n /\ Depths(t)' = 1..(n + 1)
    BY <2>3, <2>5 DEF Depths
  <2>7. /\ 1..(n + 1) = (1..n) \cup {n + 1} /\ n + 1 \notin 1..n
        /\ \A i \in 1..n : i # n => i \in 1..(n - 1)
    BY <1>2
  <2>. QED  BY <2>2, <2>3, <2>5, <2>6, <2>7 DEF Depths
<1>7. \A e : Kept(e)' <=> Kept(e)
    BY <1>1 DEF Kept
<1>8. Ordered'
  <2>1. \A e \in Classes : Kept(e) => instance'[e] # 0
      BY <1>1 DEF InOrder, Ordered, Kept
  <2>. QED  BY <1>1, <2>1, OrderStays DEF InOrder
<1>9. Working'
  <2>. SUFFICES ASSUME exiter = NoThread, NEW u \in Threads, NEW i \in Depths(u)' PROVE Asks(u, i)'
      BY <1>1 DEF Working
  <2>1. CASE u = t /\ i = n + 1
    <3>1. stack'[u][i] = g
        BY <1>6, <2>1
    <3>. QED  BY <1>5, <3>1 DEF Asks
  <2>2. CASE u = t /\ i = n
    <3>1. Asks(t, n)
        BY <1>2 DEF InOrder, Working
    <3>2. stack'[u][i] = f /\ \A e : ~Called(t, n, e)
        BY <1>6, <2>2 DEF Called
    <3>3. Called(u, i, d)'
        BY <1>2, <1>5, <1>6, <2>2 DEF Called
    <3>. QED  BY <1>2, <1>5, <1>7, <3>1, <3>2, <3>3 DEF Asks
  <2>3. CASE i \in Depths(u) /\ (u = t => i # n)
    <3>1. Asks(u, i) /\ stack'[u][i] = stack[u][i]
        BY <1>6, <2>3 DEF InOrder, Working
    <3>2. \A e : Called(u, i, e) => Called(u, i, e)'
      <4>. SUFFICES ASSUME NEW e, Called(u, i, e) PROVE Called(u, i, e)'
          OBVIOUS
      <4>1. CASE u # t
          BY <1>6, <4>1 DEF Called
      <4>2. CASE u = t
        <5>1. stack'[t][i + 1].op = stack[t][i + 1].op /\ stack'[t][i + 1].c = stack[t][i + 1].c
            BY <1>2, <1>5, <1>6, <4>2 DEF Called
        <5>. QED  BY <1>6, <4>2, <5>1 DEF Called
      <4>. QED  BY <4>1, <4>2
    <3>. QED  BY <1>7, <3>1, <3>2 DEF Asks
  <2>. QED  BY <1>6, <2>1, <2>2, <2>3
<1>10. Exiting'
  <2>. SUFFICES ASSUME exiter # NoThread PROVE Exiting'
      BY <1>1 DEF Exiting
  <2>1. t = exiter /\ \A u \in Threads \ {t} : stack'[u] = <<>>
      BY <1>1, <1>6, OnlyExiter DEF InOrder, Exiting
  <2>2. Finds(t, n) /\ Top(t).op = "close" /\ Top(t).at = "dtor"
      BY <1>1, <1>2, <2>1 DEF InOrder, Exiting, Finds, IInv, Stages, Knows
  <2>3. Kept(d)
      BY <1>2, <2>2 DEF Finds
  <2>4. ASSUME NEW i \in Depths(t)' PROVE Finds(t, i)'
    <3>1. CASE i = n + 1
      <4>1. stack'[t][i] = g
          BY <1>6, <3>1
      <4>. QED  BY <1>5, <1>7, <2>3, <4>1 DEF Finds
    <3>2. CASE i = n
      <4>1. stack'[t][i] = f
          BY <1>6, <3>2
      <4>. QED  BY <1>2, <1>5, <1>7, <2>2, <4>1 DEF Finds
    <3>3. CASE i \in Depths(t) /\ i # n
      <4>1. Finds(t, i) /\ stack'[t][i] = stack[t][i]
          BY <1>6, <2>1, <3>3 DEF InOrder, Exiting
      <4>. QED  BY <1>7, <4>1 DEF Finds
    <3>. QED  BY <1>6, <3>1, <3>2, <3>3
  <2>. QED  BY <1>1, <2>1, <2>4 DEF Exiting
<1>. QED  BY <1>8, <1>9, <1>10 DEF InOrder

\* An exception leaves every call t is in; no close() was registered by them.
LEMMA ConstructFailsInOrder ==
    ASSUME IInv, InOrder, NEW t \in Threads, ConstructFails(t)
    PROVE  InOrder'
<1>1. /\ Busy(t) /\ Top(t).at = "ctor" /\ Typed
      /\ stack' = [stack EXCEPT ![t] = <<>>]
      /\ UNCHANGED <<instance, handlers, exiter>>
    BY DEF ConstructFails, At, IInv
<1>2. /\ stack'[t] = <<>> /\ Depths(t)' = {}
      /\ \A u \in Threads \ {t} : stack'[u] = stack[u] /\ Depths(u)' = Depths(u)
    BY <1>1, EmptySeq DEF Typed, Depths
<1>3. exiter = NoThread
    BY <1>1, NotExiting
<1>4. \A d : Kept(d)' <=> Kept(d)
    BY <1>1 DEF Kept
<1>5. Working'
  <2>. SUFFICES ASSUME NEW u \in Threads, NEW i \in Depths(u)' PROVE Asks(u, i)'
      BY DEF Working
  <2>1. u # t /\ Asks(u, i) /\ stack'[u] = stack[u] /\ Depths(u)' = Depths(u)
      BY <1>2, <1>3 DEF InOrder, Working
  <2>. QED  BY <1>4, <2>1 DEF Asks, Called
<1>6. Ordered'
  <2>1. \A d \in Classes : Kept(d) => instance'[d] # 0
      BY <1>1 DEF InOrder, Ordered, Kept
  <2>. QED  BY <1>1, <2>1, OrderStays DEF InOrder
<1>. QED  BY <1>1, <1>3, <1>5, <1>6 DEF InOrder, Exiting

\* instance() returns to a constructor an object whose close() is registered.
LEMMA ReturnInOrder ==
    ASSUME IInv, InOrder, NEW t \in Threads, Return(t)
    PROVE  InOrder'
<1>. PICK n : n = Len(stack[t])
    OBVIOUS
<1>1. /\ Busy(t) /\ Top(t).at = "unlock" /\ Typed
      /\ stack' = [stack EXCEPT ![t] = Front(@)]
      /\ UNCHANGED <<instance, handlers, exiter>>
    BY DEF Return, At, IInv
<1>2. n \in Depths(t) /\ Top(t) = stack[t][n] /\ n \in Nat
    BY <1>1, Calls
<1>3. /\ \A u \in Threads \ {t} : stack'[u] = stack[u] /\ Depths(u)' = Depths(u)
      /\ Depths(t)' = Depths(t) \ {n}
      /\ \A i \in Depths(t) : i # n => stack'[t][i] = stack[t][i]
  <2>1. PICK r : r = Front(stack[t])
    OBVIOUS
  <2>2. Len(r) = n - 1 /\ \A i \in 1..(n - 1) : r[i] = stack[t][i]
    BY <1>1, <2>1, FrontOfStack DEF Typed, Busy
  <2>3. stack'[t] = r /\ \A u \in Threads \ {t} : stack'[u] = stack[u]
    BY <1>1, <2>1 DEF Typed
  <2>4. Depths(t) = 1..n /\ Depths(t)' = 1..(n - 1)
    BY <2>2, <2>3 DEF Depths
  <2>5. 1..(n - 1) = (1..n) \ {n}
    BY <1>2
  <2>. QED  BY <2>2, <2>3, <2>4, <2>5 DEF Depths
<1>4. \A d : Kept(d)' <=> Kept(d)
    BY <1>1 DEF Kept
<1>5. Working'
  <2>. SUFFICES ASSUME exiter = NoThread, NEW u \in Threads, NEW i \in Depths(u)' PROVE Asks(u, i)'
      BY <1>1 DEF Working
  <2>1. Asks(u, i) /\ stack'[u][i] = stack[u][i]
      BY <1>3 DEF InOrder, Working
  <2>2. ASSUME NEW d, Called(u, i, d) PROVE Called(u, i, d)' \/ Kept(d)
    <3>1. CASE u = t /\ i + 1 = n
      <4>1. Asks(t, n) /\ stack[t][n].op = "instance" /\ stack[t][n].c = d
          BY <1>2, <2>2, <3>1 DEF InOrder, Working, Called
      <4>. QED  BY <1>1, <1>2, <4>1 DEF Asks
    <3>2. CASE u = t /\ i + 1 # n
        BY <1>3, <2>2, <3>2 DEF Called
    <3>3. CASE u # t
        BY <1>3, <2>2, <3>3 DEF Called
    <3>. QED  BY <3>1, <3>2, <3>3
  <2>. QED  BY <1>4, <2>1, <2>2 DEF Asks
<1>6. Exiting'
  <2>. SUFFICES ASSUME exiter # NoThread PROVE Exiting'
      BY <1>1 DEF Exiting
  <2>1. t = exiter /\ \A u \in Threads \ {t} : stack'[u] = <<>>
      BY <1>1, <1>3, OnlyExiter DEF InOrder, Exiting
  <2>2. ASSUME NEW i \in Depths(t)' PROVE Finds(t, i)'
    <3>1. Finds(t, i) /\ stack'[t][i] = stack[t][i]
        BY <1>3, <2>1 DEF InOrder, Exiting
    <3>. QED  BY <1>4, <3>1 DEF Finds
  <2>. QED  BY <1>1, <2>1, <2>2 DEF Exiting
<1>7. Ordered'
  <2>1. \A d \in Classes : Kept(d) => instance'[d] # 0
      BY <1>1 DEF InOrder, Ordered, Kept
  <2>. QED  BY <1>1, <2>1, OrderStays DEF InOrder
<1>. QED  BY <1>5, <1>6, <1>7 DEF InOrder

\* The program makes no call once exit() was called, and none of close().
LEMMA CallInOrder ==
    ASSUME IInv, InOrder, NEW t \in Threads, NEW c \in Classes,
           NEW op \in {"instance", "close", "is_constructed"}, Call(t, c, op),
           program.joins, ~program.closes
    PROVE  InOrder'
<1>1. /\ ~Busy(t) /\ exiter = NoThread /\ op # "close" /\ Typed /\ Locked /\ Stages
      /\ stack' = [stack EXCEPT ![t] = <<Calling(op, c)>>]
      /\ UNCHANGED <<instance, mux, handlers, exiter>>
    BY DEF Call, IInv
<1>2. /\ stack'[t] = <<Calling(op, c)>> /\ Depths(t)' = {1}
      /\ \A u \in Threads \ {t} : stack'[u] = stack[u] /\ Depths(u)' = Depths(u)
    BY <1>1, CallStarts
<1>3. \A d : Kept(d)' <=> Kept(d)
    BY <1>1 DEF Kept
<1>4. Working'
  <2>. SUFFICES ASSUME NEW u \in Threads, NEW i \in Depths(u)' PROVE Asks(u, i)'
      BY DEF Working
  <2>1. CASE u = t
    <3>1. stack'[u][i] = Calling(op, c)
        BY <1>2, <2>1
    <3>. QED  BY <1>1, <3>1 DEF Asks, Calling
  <2>2. CASE u # t
    <3>1. Asks(u, i) /\ stack'[u] = stack[u] /\ Depths(u)' = Depths(u)
        BY <1>1, <1>2, <2>2 DEF InOrder, Working
    <3>. QED  BY <1>3, <3>1 DEF Asks, Called
  <2>. QED  BY <2>1, <2>2
<1>5. Ordered'
  <2>1. \A d \in Classes : Kept(d) => instance'[d] # 0
      BY <1>1 DEF InOrder, Ordered, Kept
  <2>. QED  BY <1>1, <2>1, OrderStays DEF InOrder
<1>. QED  BY <1>1, <1>4, <1>5 DEF InOrder, Exiting

\* exit() is called when the threads are joined: nobody is in a call.
LEMMA ExitInOrder ==
    ASSUME IInv, InOrder, NEW t \in Threads, Exit(t), program.joins
    PROVE  InOrder'
<1>1. /\ exiter' = t /\ t # NoThread /\ Typed /\ UNCHANGED <<instance, stack, handlers>>
      /\ \A u \in Threads : ~Busy(u)
    BY SingletonAssumption DEF Exit, IInv
<1>2. \A u \in Threads : stack'[u] = <<>> /\ Depths(u)' = {}
    BY <1>1, Calls DEF Depths
<1>3. Working' /\ Exiting'
    BY <1>1, <1>2 DEF Working, Exiting
<1>4. Ordered'
  <2>1. \A d \in Classes : Kept(d) => instance'[d] # 0
      BY <1>1 DEF InOrder, Ordered, Kept
  <2>. QED  BY <1>1, <2>1, OrderStays DEF InOrder
<1>. QED  BY <1>3, <1>4 DEF InOrder

\* exit() runs the last close(): what the constructor used is before it.
LEMMA RunHandlerInOrder ==
    ASSUME IInv, InOrder, NEW t \in Threads, RunHandler(t)
    PROVE  InOrder'
<1>. PICK c, m : c = Last(handlers) /\ m = Len(handlers)
    OBVIOUS
<1>1. /\ t = exiter /\ ~Busy(t) /\ handlers # <<>> /\ Typed /\ Locked /\ Stages
      /\ handlers' = Front(handlers)
      /\ stack' = [stack EXCEPT ![t] = <<Calling("close", c)>>]
      /\ UNCHANGED <<instance, mux, exiter>>
    BY DEF RunHandler, IInv
<1>2. /\ c \in Classes /\ m \in Nat /\ m >= 1 /\ c = handlers[m]
      /\ handlers' \in Seq(Classes) /\ Len(handlers') = m - 1
      /\ \A k \in 1..(m - 1) : handlers'[k] = handlers[k]
    BY <1>1, TopOfStack, FrontOfStack DEF Typed
<1>3. /\ stack'[t] = <<Calling("close", c)>> /\ Depths(t)' = {1}
      /\ \A u \in Threads \ {t} : stack'[u] = stack[u]
    BY <1>1, <1>2, CallStarts
<1>4. DOMAIN handlers = 1..m /\ DOMAIN handlers' = 1..(m - 1) /\ 1..m = (1..(m - 1)) \cup {m}
    BY <1>1, <1>2, LenProperties DEF Typed
<1>5. exiter # NoThread
    BY <1>1, SingletonAssumption
<1>6. ~Kept(c)' /\ \A d \in CtorUses[c] : Kept(d)'
  <2>1. /\ \A j \in 1..m : handlers[j] = c => j = m
        /\ \A d \in CtorUses[c] : \E j \in 1..(m - 1) : handlers[j] = d
      BY <1>2, <1>4 DEF InOrder, Ordered
  <2>2. \A j \in 1..(m - 1) : j \in 1..m /\ j # m
      BY <1>2
  <2>3. \A j \in 1..(m - 1) : handlers'[j] # c
      BY <1>2, <2>1, <2>2
  <2>. QED  BY <1>2, <1>4, <2>1, <2>3 DEF Kept
<1>7. Ordered'
  <2>1. DOMAIN handlers' = 1..(m - 1) /\ instance' = instance
      BY <1>1, <1>4
  <2>. SUFFICES ASSUME NEW k \in 1..(m - 1)
                PROVE  /\ instance[handlers'[k]] # 0
                       /\ \A j \in 1..(m - 1) : handlers'[j] = handlers'[k] => j = k
                       /\ \A d \in CtorUses[handlers'[k]] : \E j \in 1..(k - 1) : handlers'[j] = d
      BY <2>1 DEF Ordered
  <2>2. /\ instance[handlers[k]] # 0
        /\ \A j \in 1..m : handlers[j] = handlers[k] => j = k
        /\ \A d \in CtorUses[handlers[k]] : \E j \in 1..(k - 1) : handlers[j] = d
      BY <1>4 DEF InOrder, Ordered
  <2>3. 1..(k - 1) \subseteq 1..(m - 1) /\ 1..(m - 1) \subseteq 1..m
      BY <1>2
  <2>. QED  BY <1>2, <2>2, <2>3
<1>8. Exiting'
  <2>1. \A u \in Threads \ {t} : stack'[u] = <<>>
      BY <1>1, <1>3, <1>5 DEF InOrder, Exiting
  <2>2. ASSUME NEW i \in Depths(t)' PROVE Finds(t, i)'
    <3>1. stack'[t][i] = Calling("close", c)
        BY <1>3, <2>2
    <3>. QED  BY <1>6, <3>1 DEF Finds, Calling
  <2>. QED  BY <1>1, <2>1, <2>2 DEF Exiting
<1>. QED  BY <1>1, <1>5, <1>7, <1>8 DEF InOrder, Working

\* Every step of such a program keeps the order.
LEMMA NextInOrder ==
    ASSUME IInv, InOrder, [Next]_vars, program.joins, ~program.closes,
           \A c \in Classes : DtorUses[c] \subseteq CtorUses[c]
    PROVE  InOrder'
<1>1. CASE NewCall
    BY <1>1, CallInOrder DEF NewCall
<1>2. ASSUME NEW t \in Threads, Step(t) PROVE InOrder'
  <2>1. CASE Lock(t)           BY <2>1, LockInOrder
  <2>2. CASE Test(t)           BY <2>2, TestInOrder
  <2>3. CASE Use(t)            BY <2>3, UseInOrder
  <2>4. CASE Construct(t)      BY <2>4, ConstructInOrder
  <2>5. CASE ConstructFails(t) BY <2>5, ConstructFailsInOrder
  <2>6. CASE Register(t)       BY <2>6, RegisterInOrder
  <2>7. CASE Destroy(t)        BY <2>7, DestroyInOrder
  <2>8. CASE Return(t)         BY <2>8, ReturnInOrder
  <2>9. CASE RunHandler(t)     BY <2>9, RunHandlerInOrder
  <2>. QED  BY <1>2, <2>1, <2>2, <2>3, <2>4, <2>5, <2>6, <2>7, <2>8, <2>9 DEF Step
<1>3. ASSUME UNCHANGED <<instance, stack, handlers, exiter>> PROVE InOrder'
  <2>1. \A t \in Threads : \A i, d : Depths(t)' = Depths(t) /\ (Called(t, i, d)' <=> Called(t, i, d))
      BY <1>3 DEF Depths, Called
  <2>2. \A d : Kept(d)' <=> Kept(d)
      BY <1>3 DEF Kept
  <2>3. Ordered'
      BY <1>3 DEF InOrder, Ordered
  <2>4. Working'
      BY <1>3, <2>1, <2>2 DEF InOrder, Working, Asks
  <2>5. Exiting'
      BY <1>3, <2>2 DEF InOrder, Exiting, Finds, Depths
  <2>. QED  BY <2>3, <2>4, <2>5 DEF InOrder
<1>4. ASSUME NEW t \in Threads, Leave(t) PROVE InOrder'
  <2>1. CASE Exit(t)
      BY <2>1, ExitInOrder
  <2>2. CASE End(t)
      BY <1>3, <2>2 DEF End
  <2>. QED  BY <1>4, <2>1, <2>2 DEF Leave
<1>5. CASE UNCHANGED vars
    BY <1>3, <1>5 DEF vars
<1>. QED  BY <1>1, <1>2, <1>4, <1>5 DEF Next, Ended

\* The handlers of such a program stay in order to the end of the process.
LEMMA AlwaysInOrder ==
    ASSUME \A c \in Classes : DtorUses[c] \subseteq CtorUses[c]
    PROVE  Spec => [](program.joins /\ ~program.closes => InOrder)
<1>. DEFINE J == program.joins /\ ~program.closes => InOrder
<1>1. Init => J
  <2>. SUFFICES ASSUME Init PROVE InOrder
      OBVIOUS
  <2>1. \A t \in Threads : Depths(t) = {}
      BY EmptySeq DEF Init, Depths
  <2>2. DOMAIN handlers = {}
      BY DEF Init
  <2>. QED  BY <2>1, <2>2 DEF Init, InOrder, Ordered, Working, Exiting
<1>2. IInv /\ J /\ [Next]_vars => J'
  <2>. SUFFICES ASSUME IInv, J, [Next]_vars, (program.joins /\ ~program.closes)' PROVE InOrder'
      OBVIOUS
  <2>1. program' = program
      BY DEF Next, NewCall, Step, Leave, Ended, vars
  <2>. QED  BY <2>1, NextInOrder
<1>. HIDE DEF J
<1>3. Spec => []J
    BY <1>1, <1>2, Invariant, PTL DEF Spec
<1>. QED  BY <1>3 DEF J

\* exit() constructs nothing, in a program that has joined its threads and leaves
\* close() to it, when no destructor asks for a singleton its constructor did not
\* use: every close() runs before those of the singletons its object uses.
THEOREM OrderOfExit ==
    ASSUME \A c \in Classes : DtorUses[c] \subseteq CtorUses[c]
    PROVE  Spec => ExitConstructsNothing
<1>. DEFINE J == program.joins /\ ~program.closes => InOrder
            Kind == exiter # NoThread /\ program.joins /\ ~program.closes
<1>1. IInv /\ J /\ [Next]_vars => [Kind => made' = made]_vars
  <2>. SUFFICES ASSUME IInv, InOrder, Next, exiter # NoThread PROVE made' = made
      OBVIOUS
  <2>1. ASSUME NEW t \in Threads, Construct(t) PROVE FALSE
      BY <2>1, NotExiting DEF Construct, At, IInv
  <2>2. CASE NewCall
      BY <2>2 DEF NewCall, Call
  <2>3. ASSUME NEW t \in Threads, Step(t) PROVE made' = made
      BY <2>1, <2>3 DEF Step, Lock, Test, Use, ConstructFails, Register, Destroy, Return, RunHandler
  <2>4. ASSUME NEW t \in Threads, Leave(t) PROVE made' = made
      BY <2>4 DEF Leave, Exit, End
  <2>. QED  BY <2>2, <2>3, <2>4 DEF Next, Ended, vars
<1>2. Spec => []J
    BY AlwaysInOrder
<1>. HIDE DEF J
<1>3. Spec => [][Kind => made' = made]_vars
    BY <1>1, <1>2, Invariant, PTL DEF Spec
<1>. QED  BY <1>3 DEF ExitConstructsNothing, Kind
=============================================================================
