------------------------ MODULE IOctxtWrapperProofs -------------------------
(***************************************************************************)
(* Theorems about IOctxtWrapper, for any number of threads of the program  *)
(* and of the pool, any number of handlers and every kind of program.      *)
(***************************************************************************)
EXTENDS IOctxtWrapper, SequenceTheorems, FiniteSetTheorems, WellFoundedInduction, TLAPS

-----------------------------------------------------------------------------
(* Sets of natural numbers, and sequences used as stacks                    *)

\* A set of numbers that is not empty has a smallest one.
LEMMA SmallestNumber ==
    ASSUME NEW P \in SUBSET Nat, P # {}
    PROVE  \E m \in P : \A y \in P : m <= y
<1>. DEFINE R == OpToRel(<, Nat)
<1>1. IsWellFoundedOn(R, Nat)
    BY NatLessThanWellFounded
<1>2. \E x \in P : \A y \in P : ~ (<<y, x>> \in R)
  <2>. HIDE DEF R
  <2>. QED  BY <1>1, WFMin
<1>3. PICK x \in P : \A y \in P : ~ (<<y, x>> \in R)
    BY <1>2
<1>4. ASSUME NEW y \in P PROVE x <= y
  <2>1. x \in Nat /\ y \in Nat
      OBVIOUS
  <2>2. y < x => <<y, x>> \in R
      BY <2>1 DEF OpToRel
  <2>. HIDE DEF R
  <2>3. ~ (y < x)
      BY <1>3, <2>2
  <2>. QED  BY <2>1, <2>3
<1>. QED  BY <1>4

\* The last element of a non-empty sequence.
LEMMA TopOfStack ==
    ASSUME NEW S, NEW s \in Seq(S), s # <<>>
    PROVE  /\ Len(s) \in Nat /\ Len(s) >= 1
           /\ Last(s) = s[Len(s)] /\ Last(s) \in S
BY EmptySeq, ElementOfSeq, LenProperties DEF Last

\* What is left of it without the last element.
LEMMA FrontOfStack ==
    ASSUME NEW S, NEW s \in Seq(S), s # <<>>
    PROVE  /\ Front(s) \in Seq(S) /\ Len(Front(s)) = Len(s) - 1
           /\ \A i \in 1..(Len(s) - 1) : Front(s)[i] = s[i]
<1>. DEFINE n == Len(s) - 1
<1>1. n \in Nat
    BY TopOfStack
<1>2. \A i \in 1..n : s[i] \in S
    BY <1>1, ElementOfSeq, TopOfStack
<1>. HIDE DEF n
<1>3. /\ SubSeq(s, 1, n) \in Seq(S)
      /\ Len(SubSeq(s, 1, n)) = IF 1 <= n THEN n - 1 + 1 ELSE 0
      /\ \A i \in 1..(n - 1 + 1) : SubSeq(s, 1, n)[i] = s[1 + i - 1]
    BY <1>1, <1>2, SubSeqProperties
<1>4. Len(SubSeq(s, 1, n)) = n /\ \A i \in 1..n : SubSeq(s, 1, n)[i] = s[i]
    BY <1>1, <1>3
<1>. QED  BY <1>3, <1>4 DEF Front, n

\* A sequence whose last element was replaced.
LEMMA TopReplaced ==
    ASSUME NEW S, NEW s \in Seq(S), s # <<>>, NEW x \in S
    PROVE  LET r == Append(Front(s), x)
           IN  /\ r \in Seq(S) /\ Len(r) = Len(s) /\ r[Len(s)] = x
               /\ \A i \in 1..(Len(s) - 1) : r[i] = s[i]
BY FrontOfStack, TopOfStack, AppendProperties

\* The same with one more element behind it.
LEMMA CallPushed ==
    ASSUME NEW S, NEW s \in Seq(S), s # <<>>, NEW x \in S, NEW y \in S
    PROVE  LET r == Front(s) \o <<x, y>>
           IN  /\ r \in Seq(S) /\ Len(r) = Len(s) + 1 /\ r[Len(s)] = x /\ r[Len(s) + 1] = y
               /\ \A i \in 1..(Len(s) - 1) : r[i] = s[i]
BY FrontOfStack, TopOfStack, ConcatProperties

\* A sequence without its last element, by positions.
LEMMA Popping ==
    ASSUME NEW S, NEW s \in Seq(S), s # <<>>
    PROVE  /\ Front(s) \in Seq(S) /\ Len(Front(s)) = Len(s) - 1
           /\ 1..Len(Front(s)) = (1..Len(s)) \ {Len(s)}
           /\ \A i \in 1..Len(Front(s)) : Front(s)[i] = s[i]
<1>1. Front(s) \in Seq(S) /\ Len(Front(s)) = Len(s) - 1 /\ \A i \in 1..(Len(s) - 1) : Front(s)[i] = s[i]
    BY FrontOfStack
<1>2. 1..(Len(s) - 1) = (1..Len(s)) \ {Len(s)}
    BY TopOfStack
<1>. QED  BY <1>1, <1>2

-----------------------------------------------------------------------------
(* The inductive invariant.                                                  *)

Typed == /\ stack \in [Threads -> Seq(Frame)]
         /\ stopped \in BOOLEAN /\ guard \in BOOLEAN /\ queue \in 0..MaxQueue
         /\ pool \in Seq(Workers \cup {NoThread})
         /\ gone \in BOOLEAN /\ aborted \in BOOLEAN /\ wanted \in BOOLEAN
         /\ program \in Programs

Depths(t) == 1..Len(stack[t])

\* Where a function can be, and with which parameter.
Legal(f) == /\ f.op = "runHere"      => f.at \in {"lock", "run", "unlock"}
            /\ f.op = "runThreads"   => f.at \in {"lock", "resize", "start", "unlock"} /\ f.n <= Cardinality(Workers)
            /\ f.op = "stop"         => f.at \in {"lock", "idle", "halt", "join"} /\ (f.at # "join" => f.n = 0)
            /\ f.op = "stopWhenIdle" => f.at \in {"lock", "idle"}
            /\ f.op = "destroy"      => f.at = "members"
            /\ f.op = "run"          => f.at \in {"enter", "loop"}
            /\ f.op = "handler"      => f.at = "body"

\* f can be inside a call of g.
Over(f, g) == \/ f.op = "runHere" /\ f.at = "run" /\ g.op = "stop"
              \/ f.op = "runHere" /\ f.at = "unlock" /\ g.op = "run"
              \/ f.op = "runThreads" /\ f.at = "resize" /\ g.op = "stop"
              \/ f.op = "destroy" /\ g.op = "stop"
              \/ f.op = "run" /\ f.at = "loop" /\ g.op = "handler"
              \/ f.op = "handler" /\ g.op \in {"stop", "stopWhenIdle"}

\* Threads of the pool are in run(), those of the program in member functions.
First(t, f) == f.op # "handler" /\ (f.op = "run" <=> t \in Workers)

Shape == \A t \in Threads :
            /\ \A i \in Depths(t) : Legal(stack[t][i]) /\ (i = 1 => First(t, stack[t][i]))
            /\ \A i, j \in Depths(t) : j = i + 1 =>
                  /\ Over(stack[t][i], stack[t][j])
                  /\ stack[t][i].op = "handler" => program.handlersCall

Locking(f)  == f.op \in {"runHere", "runThreads", "stop", "stopWhenIdle"} /\ f.at # "lock"
Joining(f)  == f.op = "stop" /\ f.at = "join"
Halting(f)  == f.op = "stop" /\ f.at = "halt"
Starting(f) == f.op = "runThreads" /\ f.at = "start"
\* stop() has returned to f, or f runs the context after that.
Cleared(f, top) == \/ f.op = "runHere" /\ f.at = "unlock"
                   \/ f.op = "runHere" /\ f.at = "run" /\ top
                   \/ f.op = "runThreads" /\ f.at = "resize" /\ top
                   \/ f.op = "destroy" /\ top

Mutex == \A t, u \in Threads : \A i \in Depths(t), j \in Depths(u) :
            Locking(stack[t][i]) /\ Locking(stack[u][j]) => t = u

\* The destructor is alone.
Alone == \A t, u \in Clients : Busy(t) /\ Busy(u) /\ stack[t][1].op = "destroy" => t = u

\* threads_ has every thread that runs, and none once stop() has returned.
Pooled == /\ Len(pool) <= Cardinality(Workers)
          /\ \A w \in Workers : Busy(w) => \E k \in 1..Len(pool) : pool[k] = w
          /\ gone => pool = <<>>
          /\ \A t \in Threads : \A i \in Depths(t) :
                /\ Cleared(stack[t][i], i = Len(stack[t])) => pool = <<>>
                /\ Starting(stack[t][i]) => Len(pool) > 0 /\ pool[Len(pool)] = NoThread
                /\ Joining(stack[t][i]) => /\ stack[t][i].n <= Len(pool)
                                           /\ \A k \in 1..stack[t][i].n : pool[k] = NoThread

\* Between taking the work guard away and putting it back stop() knows which it
\* was; entries without a thread are those not started and those joined.
Kept == Polite =>
          /\ \/ guard = ~wanted
             \/ \E t \in Threads : \E i \in Depths(t) : Halting(stack[t][i]) \/ Joining(stack[t][i])
          /\ \A t \in Threads : \A i \in Depths(t) :
                Halting(stack[t][i]) \/ Joining(stack[t][i]) => stack[t][i].old = wanted
          /\ \A k \in 1..Len(pool) : pool[k] = NoThread =>
                \E t \in Threads : \E i \in Depths(t) :
                   \/ Starting(stack[t][i])
                   \/ Joining(stack[t][i]) /\ k <= stack[t][i].n

IInv == Typed /\ Shape /\ Mutex /\ Alone /\ Pooled /\ Kept

-----------------------------------------------------------------------------
(* Stacks *)

\* The functions a thread is in have their type, the innermost one included.
LEMMA Frames ==
    ASSUME Typed, NEW t \in Threads
    PROVE  /\ Len(stack[t]) \in Nat /\ DOMAIN stack[t] = Depths(t)
           /\ \A i \in Depths(t) : stack[t][i] \in Frame
           /\ Busy(t) => /\ Len(stack[t]) \in Depths(t) /\ 1 \in Depths(t)
                         /\ Top(t) = stack[t][Len(stack[t])] /\ Top(t) \in Frame
           /\ ~Busy(t) => stack[t] = <<>> /\ Len(stack[t]) = 0 /\ Depths(t) = {}
<1>1. stack[t] \in Seq(Frame)
    BY DEF Typed
<1>. HIDE DEF Frame
<1>2. Len(stack[t]) \in Nat /\ DOMAIN stack[t] = Depths(t) /\ \A i \in Depths(t) : stack[t][i] \in Frame
    BY <1>1, LenProperties, ElementOfSeq DEF Depths
<1>3. CASE Busy(t)
    BY <1>1, <1>2, <1>3, TopOfStack DEF Busy, Top, Depths
<1>4. CASE ~Busy(t)
    BY <1>1, <1>2, <1>4, EmptySeq DEF Busy, Depths
<1>. QED  BY <1>2, <1>3, <1>4

\* Which function can be where: stop() and stopWhenIdle() call nothing, the
\* others are called by the program, and handlers call stop() if they call.
LEMMA Positions ==
    ASSUME Typed, Shape, NEW t \in Threads, NEW i \in Depths(t)
    PROVE  /\ stack[t][i].op \in {"stop", "stopWhenIdle"} \/ Starting(stack[t][i]) => i = Len(stack[t])
           /\ stack[t][i].op \in {"runHere", "runThreads", "destroy"} => i = 1 /\ t \in Clients
           /\ stack[t][i].op = "stop" /\ ~program.handlersCall => t \in Clients
<1>1. i \in Nat /\ Len(stack[t]) \in Nat /\ i >= 1 /\ i <= Len(stack[t])
    BY Frames DEF Depths
<1>2. ASSUME i # Len(stack[t]) PROVE \E j \in Depths(t) : Over(stack[t][i], stack[t][j])
  <2>1. i + 1 \in Depths(t)
      BY <1>1, <1>2 DEF Depths
  <2>. QED  BY <2>1 DEF Shape
<1>3. ASSUME NEW k \in Depths(t), k # 1
      PROVE  \E j \in Depths(t) : /\ Over(stack[t][j], stack[t][k])
                                  /\ stack[t][j].op = "handler" => program.handlersCall
  <2>1. k - 1 \in Depths(t) /\ k = (k - 1) + 1
      BY <1>1, <1>3 DEF Depths
  <2>. QED  BY <2>1 DEF Shape
<1>4. 1 \in Depths(t) /\ First(t, stack[t][1]) /\ t \in Clients \cup Workers
    BY <1>1 DEF Shape, Depths, Threads
<1>5. stack[t][i].op \in {"stop", "stopWhenIdle"} \/ Starting(stack[t][i]) => i = Len(stack[t])
    BY <1>2 DEF Over, Starting
<1>6. \A k \in Depths(t) : stack[t][k].op \in {"runHere", "runThreads", "destroy"} => k = 1 /\ t \in Clients
    BY <1>3, <1>4 DEF Over, First
<1>7. ASSUME stack[t][i].op = "stop", ~program.handlersCall, i # 1 PROVE t \in Clients
  <2>1. \E j \in Depths(t) : stack[t][j].op \in {"runHere", "runThreads", "destroy"}
      BY <1>3, <1>7 DEF Over
  <2>. QED  BY <1>6, <2>1
<1>8. stack[t][i].op = "stop" /\ i = 1 => t \in Clients
    BY <1>4 DEF First
<1>. QED  BY <1>5, <1>6, <1>7, <1>8

\* The innermost function of t becomes x, and the other functions stay.
LEMMA TopBecomes ==
    ASSUME Typed, Shape, NEW t \in Threads, Busy(t), program' = program,
           NEW x \in Frame, x.op = Top(t).op, Legal(x),
           stack' = [stack EXCEPT ![t] = Append(Front(@), x)]
    PROVE  /\ stack' \in [Threads -> Seq(Frame)] /\ Shape'
           /\ \A u \in Threads : Len(stack'[u]) = Len(stack[u]) /\ Depths(u)' = Depths(u)
           /\ \A u \in Threads : \A i \in Depths(u) :
                 stack'[u][i] = IF u = t /\ i = Len(stack[t]) THEN x ELSE stack[u][i]
<1>. DEFINE s == stack[t]
            n == Len(s)
            r == Append(Front(s), x)
<1>1. s \in Seq(Frame) /\ s # <<>> /\ n \in Nat /\ n \in Depths(t) /\ Top(t) = s[n] /\ Depths(t) = 1..n
    BY Frames DEF Typed, Busy, Depths
<1>2. r \in Seq(Frame) /\ Len(r) = n /\ r[n] = x /\ \A i \in 1..(n - 1) : r[i] = s[i]
  <2>. HIDE DEF Frame, s
  <2>. QED  BY <1>1, TopReplaced
<1>3. /\ stack' \in [Threads -> Seq(Frame)] /\ stack'[t] = r
      /\ \A u \in Threads \ {t} : stack'[u] = stack[u]
    BY <1>2 DEF Typed
<1>. HIDE DEF r
<1>4. \A u \in Threads : Len(stack'[u]) = Len(stack[u]) /\ Depths(u)' = Depths(u)
    BY <1>2, <1>3 DEF Depths
<1>5. \A i \in Depths(t) : r[i] = IF i = n THEN x ELSE s[i]
  <2>1. \A i \in 1..n : i = n \/ i \in 1..(n - 1)
      BY <1>1
  <2>. HIDE DEF s, n
  <2>. QED  BY <1>1, <1>2, <2>1
<1>6. \A u \in Threads : \A i \in Depths(u) :
         stack'[u][i] = IF u = t /\ i = n THEN x ELSE stack[u][i]
    BY <1>3, <1>5
<1>7. Shape'
  <2>0. n = Len(stack[t])
      OBVIOUS
  <2>. HIDE DEF s, n
  <2>1. ASSUME NEW u \in Threads, NEW i \in Depths(u)
        PROVE  /\ stack'[u][i].op = stack[u][i].op
               /\ Legal(stack'[u][i]) /\ (i = 1 => First(u, stack'[u][i]))
    <3>1. Legal(stack[u][i]) /\ (i = 1 => First(u, stack[u][i]))
        BY DEF Shape
    <3>2. CASE u = t /\ i = n
      <4>1. stack'[u][i] = x /\ stack[u][i] = Top(t)
          BY <1>1, <1>6, <2>0, <3>2 DEF s
      <4>. QED  BY <3>1, <4>1 DEF First
    <3>3. CASE ~(u = t /\ i = n)
      <4>1. stack'[u][i] = stack[u][i]
          BY <1>6, <3>3
      <4>. QED  BY <3>1, <4>1
    <3>. QED  BY <3>2, <3>3
  <2>3. ASSUME NEW u \in Threads, NEW i \in Depths(u), NEW j \in Depths(u), j = i + 1
        PROVE  /\ Over(stack'[u][i], stack'[u][j])
               /\ stack'[u][i].op = "handler" => program.handlersCall
    <3>1. i # Len(stack[u])
        BY <2>3, Frames DEF Depths
    <3>2. ~(u = t /\ i = n)
        BY <2>0, <3>1
    <3>4. stack'[u][i] = stack[u][i]
        BY <1>6, <3>2
    <3>3. Over(stack[u][i], stack[u][j]) /\ (stack[u][i].op = "handler" => program.handlersCall)
        BY <2>3 DEF Shape
    <3>. QED  BY <2>1, <3>4, <3>3 DEF Over
  <2>. QED  BY <1>4, <2>1, <2>3 DEF Shape
<1>. QED  BY <1>3, <1>4, <1>6, <1>7

\* The innermost function of t becomes x and calls g.
LEMMA TopCalls ==
    ASSUME Typed, Shape, NEW t \in Threads, Busy(t), program' = program,
           NEW x \in Frame, x.op = Top(t).op, Legal(x),
           NEW g \in Frame, Legal(g), Over(x, g), x.op = "handler" => program.handlersCall,
           \/ stack' = [stack EXCEPT ![t] = Front(@) \o <<x, g>>]
           \/ x = Top(t) /\ stack' = [stack EXCEPT ![t] = Append(@, g)]
    PROVE  /\ stack' \in [Threads -> Seq(Frame)] /\ Shape'
           /\ \A u \in Threads \ {t} : stack'[u] = stack[u] /\ Depths(u)' = Depths(u)
           /\ Len(stack'[t]) = Len(stack[t]) + 1
           /\ Depths(t)' = Depths(t) \cup {Len(stack[t]) + 1} /\ Len(stack[t]) + 1 \notin Depths(t)
           /\ stack'[t][Len(stack[t])] = x /\ stack'[t][Len(stack[t]) + 1] = g
           /\ \A i \in Depths(t) : i # Len(stack[t]) => stack'[t][i] = stack[t][i]
<1>. DEFINE s == stack[t]
            n == Len(s)
<1>1. s \in Seq(Frame) /\ s # <<>> /\ n \in Nat /\ n >= 1 /\ n \in Depths(t) /\ Top(t) = s[n] /\ Depths(t) = 1..n
    BY Frames DEF Typed, Busy, Depths
<1>2. PICK r \in Seq(Frame) : /\ stack' = [stack EXCEPT ![t] = r]
                              /\ Len(r) = n + 1 /\ r[n] = x /\ r[n + 1] = g
                              /\ \A i \in 1..(n - 1) : r[i] = s[i]
  <2>1. CASE stack' = [stack EXCEPT ![t] = Front(@) \o <<x, g>>]
    <3>. DEFINE r == Front(s) \o <<x, g>>
    <3>1. /\ r \in Seq(Frame) /\ Len(r) = Len(s) + 1 /\ r[Len(s)] = x /\ r[Len(s) + 1] = g
          /\ \A i \in 1..(Len(s) - 1) : r[i] = s[i]
      <4>1. s \in Seq(Frame) /\ s # <<>>
          BY <1>1
      <4>. HIDE DEF s, Frame
      <4>. QED  BY <4>1, CallPushed
    <3>2. stack' = [stack EXCEPT ![t] = r]
        BY <2>1
    <3>. HIDE DEF r
    <3>. QED  BY <3>1, <3>2
  <2>2. CASE x = Top(t) /\ stack' = [stack EXCEPT ![t] = Append(@, g)]
    <3>. DEFINE r == Append(s, g)
    <3>1. /\ r \in Seq(Frame) /\ Len(r) = n + 1 /\ r[n + 1] = g
          /\ \A i \in 1..n : r[i] = s[i]
      <4>1. s \in Seq(Frame)
          BY <1>1
      <4>. HIDE DEF s, Frame
      <4>. QED  BY <4>1, AppendProperties
    <3>2. stack' = [stack EXCEPT ![t] = r]
        BY <2>2
    <3>3. n \in 1..n /\ \A i \in 1..(n - 1) : i \in 1..n
        BY <1>1
    <3>4. r[n] = x
        BY <1>1, <2>2, <3>1, <3>3
    <3>. HIDE DEF r
    <3>. QED  BY <3>1, <3>2, <3>3, <3>4
  <2>. QED  BY <2>1, <2>2
<1>3. /\ stack' \in [Threads -> Seq(Frame)] /\ stack'[t] = r
      /\ \A u \in Threads \ {t} : stack'[u] = stack[u] /\ Depths(u)' = Depths(u)
    BY <1>2 DEF Typed, Depths
<1>4. Depths(t)' = 1..(n + 1) /\ 1..(n + 1) = (1..n) \cup {n + 1} /\ n + 1 \notin 1..n
    BY <1>1, <1>2, <1>3 DEF Depths
<1>5. \A i \in Depths(t) : i # n => r[i] = s[i]
  <2>1. \A i \in Depths(t) : i # n => i \in 1..(n - 1)
      BY <1>1
  <2>. QED  BY <1>2, <2>1
<1>6. n = Len(stack[t])
    OBVIOUS
<1>. HIDE DEF s, n
<1>7. Shape'
  <2>1. ASSUME NEW u \in Threads, u # t
        PROVE  /\ \A i \in Depths(u)' : Legal(stack'[u][i]) /\ (i = 1 => First(u, stack'[u][i]))
               /\ \A i, j \in Depths(u)' : j = i + 1 =>
                     /\ Over(stack'[u][i], stack'[u][j])
                     /\ stack'[u][i].op = "handler" => program.handlersCall
      BY <1>3, <2>1 DEF Shape
  <2>2. /\ \A i \in 1..n : Legal(s[i]) /\ (i = 1 => First(t, s[i]))
        /\ \A i, j \in 1..n : j = i + 1 =>
              /\ Over(s[i], s[j])
              /\ s[i].op = "handler" => program.handlersCall
      BY <1>1 DEF Shape, s
  <2>3. \A i \in 1..n : r[i].op = s[i].op /\ Legal(r[i])
    <3>. TAKE i \in 1..n
    <3>1. CASE i = n
        BY <1>1, <1>2, <3>1
    <3>2. CASE i # n
        BY <1>1, <1>5, <2>2, <3>2
    <3>. QED  BY <3>1, <3>2
  <2>4. ASSUME NEW i \in 1..(n + 1) PROVE Legal(r[i]) /\ (i = 1 => First(t, r[i]))
    <3>1. CASE i \in 1..n
        BY <2>2, <2>3, <3>1 DEF First
    <3>2. CASE i = n + 1
        BY <1>1, <1>2, <3>2
    <3>. QED  BY <1>4, <3>1, <3>2
  <2>5. ASSUME NEW i \in 1..(n + 1), NEW j \in 1..(n + 1), j = i + 1
        PROVE  Over(r[i], r[j]) /\ (r[i].op = "handler" => program.handlersCall)
    <3>1. CASE i = n
        BY <1>2, <2>5, <3>1
    <3>2. CASE i # n
      <4>1. i \in 1..n /\ j \in 1..n
          BY <1>1, <2>5, <3>2
      <4>2. r[i] = s[i]
          BY <1>1, <1>5, <3>2, <4>1
      <4>. QED  BY <2>2, <2>3, <2>5, <4>1, <4>2 DEF Over
    <3>. QED  BY <3>1, <3>2
  <2>6. /\ \A i \in Depths(t)' : Legal(stack'[t][i]) /\ (i = 1 => First(t, stack'[t][i]))
        /\ \A i, j \in Depths(t)' : j = i + 1 =>
              /\ Over(stack'[t][i], stack'[t][j])
              /\ stack'[t][i].op = "handler" => program.handlersCall
      BY <1>3, <1>4, <2>4, <2>5
  <2>. QED  BY <2>1, <2>6 DEF Shape
<1>. QED  BY <1>1, <1>2, <1>3, <1>4, <1>5, <1>6, <1>7 DEF s

\* The innermost function of t returns.
LEMMA TopPops ==
    ASSUME Typed, Shape, NEW t \in Threads, Busy(t), program' = program, stack' = Popped(t)
    PROVE  /\ stack' \in [Threads -> Seq(Frame)] /\ Shape'
           /\ \A u \in Threads \ {t} : stack'[u] = stack[u] /\ Depths(u)' = Depths(u)
           /\ Len(stack'[t]) = Len(stack[t]) - 1
           /\ Depths(t)' = Depths(t) \ {Len(stack[t])}
           /\ \A i \in Depths(t)' : stack'[t][i] = stack[t][i]
<1>. DEFINE s == stack[t]
            n == Len(s)
            r == Front(s)
<1>1. s \in Seq(Frame) /\ s # <<>>
    BY DEF Typed, Busy
<1>2. r \in Seq(Frame) /\ Len(r) = n - 1 /\ 1..Len(r) = (1..n) \ {n} /\ \A i \in 1..Len(r) : r[i] = s[i]
  <2>. HIDE DEF s, Frame
  <2>. QED  BY <1>1, Popping
<1>3. /\ stack' \in [Threads -> Seq(Frame)] /\ stack'[t] = r
      /\ \A u \in Threads \ {t} : stack'[u] = stack[u] /\ Depths(u)' = Depths(u)
    BY <1>2 DEF Popped, Typed, Depths
<1>4. Depths(t)' = Depths(t) \ {n} /\ \A i \in Depths(t)' : stack'[t][i] = s[i]
    BY <1>2, <1>3 DEF Depths
<1>5. \A u \in Threads : \A i \in Depths(u)' : i \in Depths(u) /\ stack'[u][i] = stack[u][i]
    BY <1>3, <1>4
<1>6. Shape'
    BY <1>5 DEF Shape
<1>. QED  BY <1>2, <1>3, <1>4, <1>6

\* t leaves everything it is in.
LEMMA Clears ==
    ASSUME Typed, Shape, NEW t \in Threads, program' = program, stack' = [stack EXCEPT ![t] = <<>>]
    PROVE  /\ stack' \in [Threads -> Seq(Frame)] /\ Shape'
           /\ \A u \in Threads \ {t} : stack'[u] = stack[u] /\ Depths(u)' = Depths(u)
           /\ Depths(t)' = {} /\ ~Busy(t)'
<1>1. /\ stack' \in [Threads -> Seq(Frame)] /\ stack'[t] = <<>>
      /\ \A u \in Threads \ {t} : stack'[u] = stack[u] /\ Depths(u)' = Depths(u)
    BY EmptySeq DEF Typed, Depths
<1>2. Depths(t)' = {} /\ ~Busy(t)'
    BY <1>1, EmptySeq DEF Depths, Busy
<1>3. Shape'
  <2>1. \A u \in Threads : \A i \in Depths(u)' : i \in Depths(u) /\ stack'[u][i] = stack[u][i]
      BY <1>1, <1>2
  <2>. QED  BY <2>1 DEF Shape
<1>. QED  BY <1>1, <1>2, <1>3

-----------------------------------------------------------------------------
(* Steps that leave the pool and the work guard alone *)

\* stop() has taken the work guard away, or threads_ has entries without a thread.
Marked(f) == Halting(f) \/ Joining(f) \/ Starting(f)

\* A step changes the stack of t only: what must hold of it for Mutex, Pooled and
\* the part of Kept about the pool to stay.
LEMMA PoolStays ==
    ASSUME IInv, NEW t \in Threads, pool' = pool, program' = program, gone' => pool = <<>>,
           \A u \in Threads \ {t} : stack'[u] = stack[u] /\ Depths(u)' = Depths(u),
           t \in Workers /\ Busy(t)' => Busy(t),
           \A i \in Depths(t)' :
              /\ Cleared(stack'[t][i], i = Len(stack'[t])) => pool = <<>>
              /\ Locking(stack'[t][i]) =>
                    \/ \E j \in Depths(t) : Locking(stack[t][j])
                    \/ \A u \in Threads \ {t} : \A j \in Depths(u) : ~Locking(stack[u][j])
              /\ Marked(stack'[t][i]) => i \in Depths(t) /\ stack'[t][i] = stack[t][i],
           \A i \in Depths(t) : Marked(stack[t][i]) => i \in Depths(t)' /\ stack'[t][i] = stack[t][i]
    PROVE  /\ Mutex' /\ Pooled'
           /\ Polite => \A k \in 1..Len(pool) : pool[k] = NoThread =>
                 (\E u \in Threads : \E i \in Depths(u) :
                     \/ Starting(stack[u][i])
                     \/ Joining(stack[u][i]) /\ k <= stack[u][i].n)'
<1>1. Mutex'
  <2>1. SUFFICES ASSUME NEW u \in Threads, NEW v \in Threads, NEW i \in Depths(u)', NEW j \in Depths(v)',
                        Locking(stack'[u][i]), Locking(stack'[v][j]), u # v
                 PROVE  FALSE
      BY DEF Mutex
  <2>2. CASE u = t
    <3>1. j \in Depths(v) /\ Locking(stack[v][j]) /\ v \in Threads \ {t}
        BY <2>1, <2>2
    <3>2. \E k \in Depths(t) : Locking(stack[t][k])
        BY <2>1, <2>2, <3>1
    <3>. QED  BY <3>1, <3>2 DEF IInv, Mutex
  <2>3. CASE v = t
    <3>1. i \in Depths(u) /\ Locking(stack[u][i]) /\ u \in Threads \ {t}
        BY <2>1, <2>3
    <3>2. \E k \in Depths(t) : Locking(stack[t][k])
        BY <2>1, <2>3, <3>1
    <3>. QED  BY <3>1, <3>2 DEF IInv, Mutex
  <2>4. CASE u # t /\ v # t
      BY <2>1, <2>4 DEF IInv, Mutex
  <2>. QED  BY <2>2, <2>3, <2>4
<1>2. Pooled'
  <2>1. \A w \in Workers : Busy(w)' => Busy(w)
    <3>. TAKE w \in Workers
    <3>1. CASE w = t
        BY <3>1
    <3>2. CASE w # t
        BY <3>2 DEF Threads, Busy
    <3>. QED  BY <3>1, <3>2
  <2>2. ASSUME NEW u \in Threads, NEW i \in Depths(u)'
        PROVE  /\ Cleared(stack'[u][i], i = Len(stack'[u])) => pool = <<>>
               /\ Starting(stack'[u][i]) => Len(pool) > 0 /\ pool[Len(pool)] = NoThread
               /\ Joining(stack'[u][i]) => /\ stack'[u][i].n <= Len(pool)
                                           /\ \A k \in 1..stack'[u][i].n : pool[k] = NoThread
    <3>1. CASE u = t
        BY <2>2, <3>1 DEF IInv, Pooled, Marked
    <3>2. CASE u # t
        BY <2>2, <3>2 DEF IInv, Pooled
    <3>. QED  BY <3>1, <3>2
  <2>. QED  BY <2>1, <2>2 DEF IInv, Pooled
<1>3. ASSUME NEW u \in Threads, NEW i \in Depths(u), Marked(stack[u][i])
      PROVE  i \in Depths(u)' /\ stack'[u][i] = stack[u][i]
  <2>1. CASE u = t
      BY <1>3, <2>1
  <2>2. CASE u # t
      BY <1>3, <2>2
  <2>. QED  BY <2>1, <2>2
<1>4. ASSUME Polite, NEW k \in 1..Len(pool), pool[k] = NoThread
      PROVE  (\E u \in Threads : \E i \in Depths(u) :
                     \/ Starting(stack[u][i])
                     \/ Joining(stack[u][i]) /\ k <= stack[u][i].n)'
  <2>1. PICK u \in Threads : \E i \in Depths(u) :
                     \/ Starting(stack[u][i])
                     \/ Joining(stack[u][i]) /\ k <= stack[u][i].n
      BY <1>4 DEF IInv, Kept
  <2>2. PICK i \in Depths(u) : \/ Starting(stack[u][i])
                               \/ Joining(stack[u][i]) /\ k <= stack[u][i].n
      BY <2>1
  <2>3. i \in Depths(u)' /\ stack'[u][i] = stack[u][i]
      BY <1>3, <2>2 DEF Marked
  <2>. QED  BY <2>2, <2>3
<1>. QED  BY <1>1, <1>2, <1>4

\* If the work guard stays as well, so does Kept.
LEMMA KeptStays ==
    ASSUME IInv, NEW t \in Threads, pool' = pool, program' = program, guard' = guard, wanted' = wanted,
           gone' => pool = <<>>,
           \A u \in Threads \ {t} : stack'[u] = stack[u] /\ Depths(u)' = Depths(u),
           t \in Workers /\ Busy(t)' => Busy(t),
           \A i \in Depths(t)' :
              /\ Cleared(stack'[t][i], i = Len(stack'[t])) => pool = <<>>
              /\ Locking(stack'[t][i]) =>
                    \/ \E j \in Depths(t) : Locking(stack[t][j])
                    \/ \A u \in Threads \ {t} : \A j \in Depths(u) : ~Locking(stack[u][j])
              /\ Marked(stack'[t][i]) => i \in Depths(t) /\ stack'[t][i] = stack[t][i],
           \A i \in Depths(t) : Marked(stack[t][i]) => i \in Depths(t)' /\ stack'[t][i] = stack[t][i]
    PROVE  Mutex' /\ Pooled' /\ Kept'
<1>1. /\ Mutex' /\ Pooled'
      /\ Polite => \A k \in 1..Len(pool) : pool[k] = NoThread =>
            (\E u \in Threads : \E i \in Depths(u) :
                \/ Starting(stack[u][i])
                \/ Joining(stack[u][i]) /\ k <= stack[u][i].n)'
    BY PoolStays
<1>2. ASSUME NEW u \in Threads, NEW i \in Depths(u), Marked(stack[u][i])
      PROVE  i \in Depths(u)' /\ stack'[u][i] = stack[u][i]
  <2>1. CASE u = t
      BY <1>2, <2>1
  <2>2. CASE u # t
      BY <1>2, <2>2
  <2>. QED  BY <2>1, <2>2
<1>3. ASSUME NEW u \in Threads, NEW i \in Depths(u)', Marked(stack'[u][i])
      PROVE  i \in Depths(u) /\ stack'[u][i] = stack[u][i]
  <2>1. CASE u = t
      BY <1>3, <2>1
  <2>2. CASE u # t
      BY <1>3, <2>2
  <2>. QED  BY <2>1, <2>2
<1>4. ASSUME Polite
      PROVE  \/ guard' = ~wanted'
             \/ (\E u \in Threads : \E i \in Depths(u) : Halting(stack[u][i]) \/ Joining(stack[u][i]))'
    BY <1>2, <1>4 DEF IInv, Kept, Marked
<1>5. ASSUME Polite, NEW u \in Threads, NEW i \in Depths(u)', (Halting(stack[u][i]) \/ Joining(stack[u][i]))'
      PROVE  stack'[u][i].old = wanted'
    BY <1>3, <1>5 DEF IInv, Kept, Marked
<1>6. Polite' = Polite
    BY DEF Polite
<1>. QED  BY <1>1, <1>4, <1>5, <1>6 DEF Kept

\* The destructor stays alone while no thread of the program begins a call.
LEMMA AloneStays ==
    ASSUME Alone, \A u \in Clients : Busy(u)' => Busy(u) /\ stack'[u][1].op = stack[u][1].op
    PROVE  Alone'
BY DEF Alone

\* mux_ is free for t.
Free(t) == \A u \in Threads \ {t} : \A j \in Depths(u) : ~Locking(stack[u][j])

\* What most steps leave alone.
Same == pool' = pool /\ guard' = guard /\ wanted' = wanted /\ gone' = gone /\ program' = program

\* The first function of a thread and whether it is in any.
LEMMA HeadStays ==
    ASSUME Typed, stack' \in [Threads -> Seq(Frame)],
           NEW u \in Threads, Depths(u)' \subseteq Depths(u),
           1 \in Depths(u)' => stack'[u][1].op = stack[u][1].op
    PROVE  Busy(u)' => Busy(u) /\ stack'[u][1].op = stack[u][1].op
<1>1. Busy(u)' => 1 \in Depths(u)'
  <2>1. stack'[u] \in Seq(Frame)
      OBVIOUS
  <2>. HIDE DEF Frame
  <2>2. stack'[u] # <<>> => Len(stack'[u]) \in Nat /\ Len(stack'[u]) >= 1
      BY <2>1, TopOfStack
  <2>. QED  BY <2>2 DEF Busy, Depths
<1>2. ~Busy(u) => Depths(u) = {}
    BY Frames
<1>. QED  BY <1>1, <1>2

\* Steps in which the innermost function only comes to another point.
LEMMA BecomesKeeps ==
    ASSUME IInv, NEW t \in Threads, Busy(t), Same,
           NEW x \in Frame, x.op = Top(t).op, Legal(x),
           stack' = [stack EXCEPT ![t] = Append(Front(@), x)],
           ~Marked(Top(t)), ~Marked(x), ~Cleared(x, TRUE), Locking(x) => Locking(Top(t)) \/ Free(t)
    PROVE  stack' \in [Threads -> Seq(Frame)] /\ Shape' /\ Mutex' /\ Alone' /\ Pooled' /\ Kept'
<1>. DEFINE n == Len(stack[t])
<1>1. Typed /\ Shape
    BY DEF IInv
<1>2. /\ stack' \in [Threads -> Seq(Frame)] /\ Shape'
      /\ \A u \in Threads : Len(stack'[u]) = Len(stack[u]) /\ Depths(u)' = Depths(u)
      /\ \A u \in Threads : \A i \in Depths(u) :
            stack'[u][i] = IF u = t /\ i = n THEN x ELSE stack[u][i]
  <2>1. program' = program
      BY DEF Same
  <2>. HIDE DEF Frame
  <2>. QED  BY <1>1, <2>1, TopBecomes
<1>3. n \in Depths(t) /\ Top(t) = stack[t][n]
    BY <1>1, Frames
<1>. HIDE DEF n, Frame
<1>4. \A u \in Threads \ {t} : stack'[u] = stack[u]
    BY DEF IInv, Typed
<1>5. \A i \in Depths(t)' : /\ i \in Depths(t)
                            /\ i = n => stack'[t][i] = x
                            /\ i # n => stack'[t][i] = stack[t][i]
    BY <1>2
<1>6. \A u \in Threads : Busy(u)' => Busy(u) /\ stack'[u][1].op = stack[u][1].op
  <2>. TAKE u \in Threads
  <2>1. 1 \in Depths(u)' => stack'[u][1].op = stack[u][1].op
      BY <1>2, <1>3
  <2>. QED  BY <1>1, <1>2, <2>1, HeadStays
<1>7. Alone'
    BY <1>6, AloneStays DEF IInv, Threads
<1>8. ASSUME NEW i \in Depths(t)'
      PROVE  /\ Cleared(stack'[t][i], i = Len(stack'[t])) => pool = <<>>
             /\ Locking(stack'[t][i]) =>
                   \/ \E j \in Depths(t) : Locking(stack[t][j])
                   \/ \A u \in Threads \ {t} : \A j \in Depths(u) : ~Locking(stack[u][j])
             /\ Marked(stack'[t][i]) => i \in Depths(t) /\ stack'[t][i] = stack[t][i]
  <2>1. CASE i = n
    <3>1. stack'[t][i] = x
        BY <1>5, <2>1
    <3>. QED  BY <1>3, <3>1 DEF Cleared, Free
  <2>2. CASE i # n
    <3>1. i \in Depths(t) /\ stack'[t][i] = stack[t][i] /\ Len(stack'[t]) = Len(stack[t])
        BY <1>2, <1>5, <2>2
    <3>. QED  BY <3>1 DEF IInv, Pooled
  <2>. QED  BY <2>1, <2>2
<1>9. \A i \in Depths(t) : Marked(stack[t][i]) => i \in Depths(t)' /\ stack'[t][i] = stack[t][i]
    BY <1>2, <1>3, <1>5
<1>10. gone' => pool = <<>>
    BY DEF IInv, Pooled, Same
<1>11. Mutex' /\ Pooled' /\ Kept'
    BY <1>2, <1>4, <1>6, <1>8, <1>9, <1>10, KeptStays DEF Same
<1>. QED  BY <1>2, <1>7, <1>11

\* Steps in which it calls another function, which waits for mux_ or does not take it.
LEMMA CallsKeeps ==
    ASSUME IInv, NEW t \in Threads, Busy(t), Same,
           NEW x \in Frame, x.op = Top(t).op, Legal(x),
           NEW g \in Frame, Legal(g), Over(x, g), x.op = "handler" => program.handlersCall,
           \/ stack' = [stack EXCEPT ![t] = Front(@) \o <<x, g>>]
           \/ x = Top(t) /\ stack' = [stack EXCEPT ![t] = Append(@, g)],
           ~Marked(Top(t)), ~Marked(x), ~Marked(g), Cleared(x, FALSE) => pool = <<>>, ~Cleared(g, TRUE),
           Locking(x) => Locking(Top(t)) \/ Free(t), ~Locking(g)
    PROVE  stack' \in [Threads -> Seq(Frame)] /\ Shape' /\ Mutex' /\ Alone' /\ Pooled' /\ Kept'
<1>. DEFINE n == Len(stack[t])
<1>1. Typed /\ Shape
    BY DEF IInv
<1>2. /\ stack' \in [Threads -> Seq(Frame)] /\ Shape'
      /\ \A u \in Threads \ {t} : stack'[u] = stack[u] /\ Depths(u)' = Depths(u)
      /\ Len(stack'[t]) = n + 1
      /\ Depths(t)' = Depths(t) \cup {n + 1} /\ n + 1 \notin Depths(t)
      /\ stack'[t][n] = x /\ stack'[t][n + 1] = g
      /\ \A i \in Depths(t) : i # n => stack'[t][i] = stack[t][i]
  <2>1. program' = program
      BY DEF Same
  <2>. HIDE DEF Frame
  <2>. QED  BY <1>1, <2>1, TopCalls
<1>3. n \in Depths(t) /\ Top(t) = stack[t][n] /\ 1 \in Depths(t)
    BY <1>1, Frames
<1>. HIDE DEF n, Frame
<1>4. \A u \in Threads : Busy(u)' => Busy(u) /\ stack'[u][1].op = stack[u][1].op
  <2>. TAKE u \in Threads
  <2>1. CASE u = t
      BY <1>2, <1>3, <2>1
  <2>2. CASE u # t
      BY <1>2, <2>2 DEF Busy
  <2>. QED  BY <2>1, <2>2
<1>5. Alone'
    BY <1>4, AloneStays DEF IInv, Threads
<1>6. ASSUME NEW i \in Depths(t)'
      PROVE  /\ Cleared(stack'[t][i], i = Len(stack'[t])) => pool = <<>>
             /\ Locking(stack'[t][i]) =>
                   \/ \E j \in Depths(t) : Locking(stack[t][j])
                   \/ \A u \in Threads \ {t} : \A j \in Depths(u) : ~Locking(stack[u][j])
             /\ Marked(stack'[t][i]) => i \in Depths(t) /\ stack'[t][i] = stack[t][i]
  <2>1. CASE i = n + 1
    <3>1. stack'[t][i] = g
        BY <1>2, <2>1
    <3>. QED  BY <3>1 DEF Cleared
  <2>2. CASE i = n
    <3>1. stack'[t][i] = x /\ i # Len(stack'[t])
        BY <1>2, <1>3, <2>2
    <3>. QED  BY <1>3, <3>1 DEF Cleared, Free
  <2>3. CASE i # n /\ i # n + 1
    <3>1. i \in Depths(t) /\ stack'[t][i] = stack[t][i] /\ i # Len(stack'[t])
        BY <1>2, <2>3
    <3>2. Cleared(stack[t][i], FALSE) => Cleared(stack[t][i], i = Len(stack[t]))
        BY DEF Cleared
    <3>. QED  BY <3>1, <3>2 DEF IInv, Pooled
  <2>. QED  BY <2>1, <2>2, <2>3
<1>7. \A i \in Depths(t) : Marked(stack[t][i]) => i \in Depths(t)' /\ stack'[t][i] = stack[t][i]
    BY <1>2, <1>3
<1>8. gone' => pool = <<>>
    BY DEF IInv, Pooled, Same
<1>9. Mutex' /\ Pooled' /\ Kept'
    BY <1>2, <1>4, <1>6, <1>7, <1>8, KeptStays DEF Same
<1>. QED  BY <1>2, <1>5, <1>9

\* Steps in which it returns.
LEMMA PopKeeps ==
    ASSUME IInv, NEW t \in Threads, Busy(t), pool' = pool, program' = program, gone' => pool = <<>>,
           stack' = Popped(t), ~Marked(Top(t)),
           \A i \in Depths(t) : Len(stack[t]) = i + 1 /\ Cleared(stack[t][i], TRUE) => pool = <<>>
    PROVE  /\ stack' \in [Threads -> Seq(Frame)] /\ Shape' /\ Mutex' /\ Alone' /\ Pooled'
           /\ guard' = guard /\ wanted' = wanted => Kept'
           /\ Polite => \A k \in 1..Len(pool) : pool[k] = NoThread =>
                 (\E u \in Threads : \E i \in Depths(u) :
                     \/ Starting(stack[u][i])
                     \/ Joining(stack[u][i]) /\ k <= stack[u][i].n)'
<1>. DEFINE n == Len(stack[t])
<1>1. Typed /\ Shape
    BY DEF IInv
<1>2. /\ stack' \in [Threads -> Seq(Frame)] /\ Shape'
      /\ \A u \in Threads \ {t} : stack'[u] = stack[u] /\ Depths(u)' = Depths(u)
      /\ Len(stack'[t]) = n - 1
      /\ Depths(t)' = Depths(t) \ {n}
      /\ \A i \in Depths(t)' : stack'[t][i] = stack[t][i]
    BY <1>1, TopPops
<1>3. n \in Depths(t) /\ Top(t) = stack[t][n] /\ n \in Nat /\ Depths(t) \subseteq Nat
    BY <1>1, Frames DEF Depths
<1>. HIDE DEF n
<1>4. \A u \in Threads : Busy(u)' => Busy(u) /\ stack'[u][1].op = stack[u][1].op
  <2>. TAKE u \in Threads
  <2>1. Depths(u)' \subseteq Depths(u)
      BY <1>2
  <2>2. 1 \in Depths(u)' => stack'[u][1].op = stack[u][1].op
      BY <1>2
  <2>. QED  BY <1>1, <1>2, <2>1, <2>2, HeadStays
<1>5. Alone'
    BY <1>4, AloneStays DEF IInv, Threads
<1>6. ASSUME NEW i \in Depths(t)'
      PROVE  /\ Cleared(stack'[t][i], i = Len(stack'[t])) => pool = <<>>
             /\ Locking(stack'[t][i]) =>
                   \/ \E j \in Depths(t) : Locking(stack[t][j])
                   \/ \A u \in Threads \ {t} : \A j \in Depths(u) : ~Locking(stack[u][j])
             /\ Marked(stack'[t][i]) => i \in Depths(t) /\ stack'[t][i] = stack[t][i]
  <2>1. i \in Depths(t) /\ i # n /\ stack'[t][i] = stack[t][i] /\ i \in Nat
      BY <1>2, <1>3
  <2>2. Cleared(stack'[t][i], i = Len(stack'[t])) => pool = <<>>
    <3>1. CASE i = Len(stack'[t])
      <4>1. Len(stack[t]) = i + 1
          BY <1>2, <1>3, <2>1, <3>1 DEF n
      <4>2. Cleared(stack'[t][i], i = Len(stack'[t])) => Cleared(stack[t][i], TRUE)
          BY <2>1 DEF Cleared
      <4>. QED  BY <2>1, <4>1, <4>2
    <3>2. CASE i # Len(stack'[t])
      <4>1. Cleared(stack'[t][i], i = Len(stack'[t])) => Cleared(stack[t][i], i = Len(stack[t]))
          BY <2>1, <3>2 DEF Cleared
      <4>. QED  BY <2>1, <4>1 DEF IInv, Pooled
    <3>. QED  BY <3>1, <3>2
  <2>. QED  BY <2>1, <2>2
<1>7. \A i \in Depths(t) : Marked(stack[t][i]) => i \in Depths(t)' /\ stack'[t][i] = stack[t][i]
    BY <1>2, <1>3
<1>8. /\ Mutex' /\ Pooled'
      /\ Polite => \A k \in 1..Len(pool) : pool[k] = NoThread =>
            (\E u \in Threads : \E i \in Depths(u) :
                \/ Starting(stack[u][i])
                \/ Joining(stack[u][i]) /\ k <= stack[u][i].n)'
    BY <1>2, <1>4, <1>6, <1>7, PoolStays
<1>9. ASSUME guard' = guard, wanted' = wanted PROVE Kept'
    BY <1>2, <1>4, <1>6, <1>7, <1>9, KeptStays
<1>. QED  BY <1>2, <1>5, <1>8, <1>9

\* A thread that was in no function begins with those of r.
LEMMA Begins ==
    ASSUME Typed, Shape, NEW t \in Threads, program' = program,
           NEW r \in Seq(Frame), stack' = [stack EXCEPT ![t] = r],
           \A i \in 1..Len(r) : Legal(r[i]) /\ (i = 1 => First(t, r[i])),
           \A i, j \in 1..Len(r) : j = i + 1 => Over(r[i], r[j]) /\ r[i].op # "handler"
    PROVE  /\ stack' \in [Threads -> Seq(Frame)] /\ Shape'
           /\ \A u \in Threads \ {t} : stack'[u] = stack[u] /\ Depths(u)' = Depths(u)
           /\ stack'[t] = r /\ Depths(t)' = 1..Len(r)
<1>1. /\ stack' \in [Threads -> Seq(Frame)] /\ stack'[t] = r
      /\ \A u \in Threads \ {t} : stack'[u] = stack[u]
    BY DEF Typed
<1>2. /\ \A u \in Threads \ {t} : stack'[u] = stack[u] /\ Depths(u)' = Depths(u)
      /\ Depths(t)' = 1..Len(r)
    BY <1>1 DEF Depths
<1>3. ASSUME NEW u \in Threads
      PROVE  /\ \A i \in Depths(u)' : Legal(stack'[u][i]) /\ (i = 1 => First(u, stack'[u][i]))
             /\ \A i, j \in Depths(u)' : j = i + 1 =>
                   /\ Over(stack'[u][i], stack'[u][j])
                   /\ stack'[u][i].op = "handler" => program.handlersCall
  <2>1. CASE u = t
      BY <1>1, <1>2, <2>1
  <2>2. CASE u # t
      BY <1>2, <2>2 DEF Shape
  <2>. QED  BY <2>1, <2>2
<1>4. Shape'
    BY <1>3 DEF Shape
<1>. QED  BY <1>1, <1>2, <1>4

\* Calls by threads of the program.
LEMMA BeginKeeps ==
    ASSUME IInv, NEW t \in Clients, ~Busy(t), Same,
           NEW r \in Seq(Frame), stack' = [stack EXCEPT ![t] = r],
           \A i \in 1..Len(r) : /\ Legal(r[i]) /\ (i = 1 => First(t, r[i]))
                                /\ ~Marked(r[i]) /\ ~Locking(r[i]) /\ ~Cleared(r[i], i = Len(r)),
           \A i, j \in 1..Len(r) : j = i + 1 => Over(r[i], r[j]) /\ r[i].op # "handler"
    PROVE  /\ stack' \in [Threads -> Seq(Frame)] /\ Shape' /\ Mutex' /\ Pooled' /\ Kept'
           /\ stack'[t] = r /\ \A u \in Threads \ {t} : stack'[u] = stack[u]
<1>1. Typed /\ Shape /\ t \in Threads /\ program' = program
    BY DEF IInv, Threads, Same
<1>2. /\ stack' \in [Threads -> Seq(Frame)] /\ Shape'
      /\ \A u \in Threads \ {t} : stack'[u] = stack[u] /\ Depths(u)' = Depths(u)
      /\ stack'[t] = r /\ Depths(t)' = 1..Len(r)
  <2>. HIDE DEF Frame
  <2>. QED  BY <1>1, Begins
<1>3. t \notin Workers
    BY IOctxtAssumption
<1>4. Depths(t) = {}
    BY <1>1, Frames
<1>5. ASSUME NEW i \in Depths(t)'
      PROVE  /\ Cleared(stack'[t][i], i = Len(stack'[t])) => pool = <<>>
             /\ Locking(stack'[t][i]) =>
                   \/ \E j \in Depths(t) : Locking(stack[t][j])
                   \/ \A u \in Threads \ {t} : \A j \in Depths(u) : ~Locking(stack[u][j])
             /\ Marked(stack'[t][i]) => i \in Depths(t) /\ stack'[t][i] = stack[t][i]
    BY <1>2
<1>6. gone' => pool = <<>>
    BY DEF IInv, Pooled, Same
<1>7. Mutex' /\ Pooled' /\ Kept'
    BY <1>1, <1>2, <1>3, <1>4, <1>5, <1>6, KeptStays DEF Same
<1>. QED  BY <1>2, <1>7

-----------------------------------------------------------------------------
(* The actions, one by one *)

\* Holds(), by positions.
LEMMA Holding ==
    ASSUME Typed, NEW u \in Threads, ~Holds(u), NEW j \in Depths(u)
    PROVE  ~Locking(stack[u][j])
BY Frames DEF Holds, Locking

\* A function that comes to another point.
LEMMA MovedFrame ==
    ASSUME NEW f \in Frame,
           NEW l \in {"lock", "run", "resize", "start", "idle", "halt", "join", "members",
                      "enter", "loop", "body", "unlock"}
    PROVE  LET x == [f EXCEPT !.at = l]
           IN  x \in Frame /\ x.op = f.op /\ x.at = l /\ x.n = f.n /\ x.old = f.old
BY DEF Frame

\* The functions that are called.
LEMMA CalledFrames ==
    /\ \A op \in {"runHere", "stop", "stopWhenIdle", "destroy"}, n \in Nat :
          /\ Calling(op, n) \in Frame /\ Calling(op, n).op = op
          /\ Calling(op, n).at = "lock" /\ Calling(op, n).n = n
    /\ \A n \in Nat : /\ Calling("runThreads", n) \in Frame /\ Calling("runThreads", n).op = "runThreads"
                      /\ Calling("runThreads", n).at = "lock" /\ Calling("runThreads", n).n = n
    /\ Running \in Frame /\ Running.op = "run" /\ Running.at = "enter"
    /\ Handler \in Frame /\ Handler.op = "handler" /\ Handler.at = "body"
BY DEF Calling, Running, Handler, Frame

\* The innermost function is one of those of the thread.
LEMMA Innermost ==
    ASSUME IInv, NEW t \in Threads, Busy(t)
    PROVE  /\ Top(t) \in Frame /\ Legal(Top(t))
           /\ Len(stack[t]) \in Depths(t) /\ Top(t) = stack[t][Len(stack[t])]
           /\ Cleared(Top(t), TRUE) => pool = <<>>
<1>1. Top(t) \in Frame /\ Len(stack[t]) \in Depths(t) /\ Top(t) = stack[t][Len(stack[t])]
    BY Frames DEF IInv
<1>2. Legal(Top(t))
    BY <1>1 DEF IInv, Shape
<1>3. Cleared(Top(t), TRUE) => pool = <<>>
    BY <1>1 DEF IInv, Pooled
<1>. QED  BY <1>1, <1>2, <1>3

\* A thread of the program calls a member function: it owns nothing yet.
LEMMA CallStep ==
    ASSUME IInv, NEW t \in Clients, Call(t), program' = program
    PROVE  IInv'
<1>1. PICK f \in {Calling("runHere", 0), Calling("stop", 0), Calling("stopWhenIdle", 0), Calling("stopWhenIdle", 1)}
                 \cup {Calling("runThreads", n) : n \in 0..Cardinality(Workers)} :
             stack' = [stack EXCEPT ![t] = <<f>>]
    BY DEF Call
<1>2. /\ f \in Frame /\ f.at = "lock" /\ f.op \in {"runHere", "stop", "stopWhenIdle", "runThreads"}
      /\ f.op = "stop" => f.n = 0
      /\ f.op = "runThreads" => f.n <= Cardinality(Workers)
  <2>1. CASE f \in {Calling("runHere", 0), Calling("stop", 0), Calling("stopWhenIdle", 0), Calling("stopWhenIdle", 1)}
    <3>. HIDE DEF Frame
    <3>. QED  BY <2>1, CalledFrames
  <2>2. CASE f \in {Calling("runThreads", n) : n \in 0..Cardinality(Workers)}
    <3>1. PICK n \in 0..Cardinality(Workers) : f = Calling("runThreads", n)
        BY <2>2
    <3>2. n \in Nat /\ n <= Cardinality(Workers)
      <4>1. IsFiniteSet(Workers)
          BY IOctxtAssumption, FS_Subset
      <4>2. Cardinality(Workers) \in Nat
          BY <4>1, FS_CardinalityType
      <4>. QED  BY <4>2
    <3>. QED  BY <3>1, <3>2, CalledFrames
  <2>. QED  BY <2>1, <2>2
<1>3. t \notin Workers /\ t \in Threads
    BY IOctxtAssumption DEF Threads
<1>. DEFINE r == <<f>>
<1>4. r \in Seq(Frame) /\ Len(r) = 1 /\ r[1] = f
  <2>. HIDE DEF Frame
  <2>. QED  BY <1>2
<1>5. /\ \A i \in 1..Len(r) : /\ Legal(r[i]) /\ (i = 1 => First(t, r[i]))
                              /\ ~Marked(r[i]) /\ ~Locking(r[i]) /\ ~Cleared(r[i], i = Len(r))
      /\ \A i, j \in 1..Len(r) : j = i + 1 => Over(r[i], r[j]) /\ r[i].op # "handler"
  <2>1. \A i \in 1..Len(r) : r[i] = f /\ i = 1
      BY <1>4
  <2>2. Legal(f) /\ First(t, f) /\ ~Marked(f) /\ ~Locking(f) /\ ~Cleared(f, TRUE)
      BY <1>2, <1>3 DEF Legal, First, Marked, Halting, Joining, Starting, Locking, Cleared
  <2>3. \A i, j \in 1..Len(r) : j # i + 1
      BY <1>4
  <2>. HIDE DEF r
  <2>4. ASSUME NEW i \in 1..Len(r)
        PROVE  /\ Legal(r[i]) /\ (i = 1 => First(t, r[i]))
               /\ ~Marked(r[i]) /\ ~Locking(r[i]) /\ ~Cleared(r[i], i = Len(r))
    <3>1. r[i] = f /\ (i = Len(r)) = TRUE
        BY <1>4, <2>1
    <3>. QED  BY <2>2, <3>1
  <2>. QED  BY <2>3, <2>4
<1>6. ~Busy(t) /\ Same /\ \A u \in Clients : Busy(u) => stack[u][1].op # "destroy"
    BY DEF Call, Same, io
<1>7. /\ stack' \in [Threads -> Seq(Frame)] /\ Shape' /\ Mutex' /\ Pooled' /\ Kept'
      /\ stack'[t] = r /\ \A u \in Threads \ {t} : stack'[u] = stack[u]
  <2>1. stack' = [stack EXCEPT ![t] = r]
      BY <1>1
  <2>. HIDE DEF r, Frame
  <2>. QED  BY <1>4, <1>5, <1>6, <2>1, BeginKeeps
<1>8. Alone'
    BY <1>2, <1>4, <1>6, <1>7 DEF Alone, Busy, Threads
<1>9. Typed'
    BY <1>7 DEF IInv, Typed, Call, io
<1>. QED  BY <1>7, <1>8, <1>9 DEF IInv

\* The destructor begins while no other thread of the program is in a call.
LEMMA CallDestroyStep ==
    ASSUME IInv, NEW t \in Clients, CallDestroy(t), program' = program
    PROVE  IInv'
<1>. DEFINE d == [Calling("destroy", 0) EXCEPT !.at = "members"]
            c == Calling("stop", 0)
            r == <<d, c>>
<1>1. /\ d \in Frame /\ d.op = "destroy" /\ d.at = "members"
      /\ c \in Frame /\ c.op = "stop" /\ c.at = "lock" /\ c.n = 0
  <2>1. /\ Calling("destroy", 0) \in Frame /\ Calling("destroy", 0).op = "destroy"
        /\ c \in Frame /\ c.op = "stop" /\ c.at = "lock" /\ c.n = 0
      BY CalledFrames
  <2>. HIDE DEF Frame
  <2>. QED  BY <2>1, MovedFrame
<1>2. stack' = [stack EXCEPT ![t] = r] /\ Same /\ \A u \in Clients : ~Busy(u)
    BY DEF CallDestroy, Same, io
<1>3. t \notin Workers /\ t \in Threads
    BY IOctxtAssumption DEF Threads
<1>. HIDE DEF d, c
<1>4. r \in Seq(Frame) /\ Len(r) = 2 /\ r[1] = d /\ r[2] = c
  <2>. HIDE DEF Frame
  <2>. QED  BY <1>1
<1>5. /\ \A i \in 1..Len(r) : /\ Legal(r[i]) /\ (i = 1 => First(t, r[i]))
                              /\ ~Marked(r[i]) /\ ~Locking(r[i]) /\ ~Cleared(r[i], i = Len(r))
      /\ \A i, j \in 1..Len(r) : j = i + 1 => Over(r[i], r[j]) /\ r[i].op # "handler"
  <2>1. \A i \in 1..Len(r) : i = 1 \/ i = 2
      BY <1>4
  <2>2. /\ Legal(d) /\ First(t, d) /\ ~Marked(d) /\ ~Locking(d) /\ ~Cleared(d, FALSE)
        /\ Legal(c) /\ ~Marked(c) /\ ~Locking(c) /\ ~Cleared(c, TRUE)
        /\ Over(d, c) /\ d.op # "handler"
      BY <1>1, <1>3 DEF Legal, First, Marked, Halting, Joining, Starting, Locking, Cleared, Over
  <2>3. (1 = Len(r)) = FALSE /\ (2 = Len(r)) = TRUE
      BY <1>4
  <2>4. \A i, j \in 1..Len(r) : j = i + 1 => i = 1 /\ j = 2
      BY <1>4
  <2>. HIDE DEF r
  <2>5. ASSUME NEW i \in 1..Len(r)
        PROVE  /\ Legal(r[i]) /\ (i = 1 => First(t, r[i]))
               /\ ~Marked(r[i]) /\ ~Locking(r[i]) /\ ~Cleared(r[i], i = Len(r))
    <3>1. CASE i = 1
        BY <1>4, <2>2, <2>3, <3>1
    <3>2. CASE i = 2
        BY <1>4, <2>2, <2>3, <3>2
    <3>. QED  BY <2>1, <3>1, <3>2
  <2>. QED  BY <1>4, <2>2, <2>4, <2>5
<1>. HIDE DEF r
<1>6. /\ stack' \in [Threads -> Seq(Frame)] /\ Shape' /\ Mutex' /\ Pooled' /\ Kept'
      /\ stack'[t] = r /\ \A u \in Threads \ {t} : stack'[u] = stack[u]
  <2>1. ~Busy(t)
      BY <1>2
  <2>. HIDE DEF Frame
  <2>. QED  BY <1>2, <1>4, <1>5, <2>1, BeginKeeps
<1>7. Alone'
    BY <1>2, <1>6 DEF Alone, Busy, Threads
<1>8. Typed'
    BY <1>6 DEF IInv, Typed, CallDestroy, io
<1>. QED  BY <1>6, <1>7, <1>8 DEF IInv

\* A handler calls stop() or stopWhenIdle().
LEMMA HandlerCallsStep ==
    ASSUME IInv, NEW t \in Threads, HandlerCalls(t), program' = program
    PROVE  IInv'
<1>1. PICK g \in {Calling("stop", 0), Calling("stopWhenIdle", 0), Calling("stopWhenIdle", 1)} :
             stack' = [stack EXCEPT ![t] = Append(@, g)]
    BY DEF HandlerCalls
<1>2. g \in Frame /\ g.at = "lock" /\ g.op \in {"stop", "stopWhenIdle"} /\ (g.op = "stop" => g.n = 0)
  <2>. HIDE DEF Frame
  <2>. QED  BY CalledFrames
<1>3. Busy(t) /\ Top(t).op = "handler" /\ Top(t).at = "body" /\ Same /\ program.handlersCall
    BY DEF HandlerCalls, At, Same, io
<1>4. Top(t) \in Frame /\ Legal(Top(t))
    BY <1>3, Innermost
<1>5. /\ Legal(g) /\ Over(Top(t), g) /\ ~Marked(Top(t)) /\ ~Marked(g)
      /\ ~Cleared(Top(t), FALSE) /\ ~Cleared(g, TRUE) /\ ~Locking(Top(t)) /\ ~Locking(g)
    BY <1>2, <1>3 DEF Legal, Over, Marked, Halting, Joining, Starting, Locking, Cleared
<1>6. stack' \in [Threads -> Seq(Frame)] /\ Shape' /\ Mutex' /\ Alone' /\ Pooled' /\ Kept'
  <2>. HIDE DEF Frame
  <2>. QED  BY <1>1, <1>2, <1>3, <1>4, <1>5, CallsKeeps
<1>. QED  BY <1>6 DEF IInv, Typed, HandlerCalls, io

\* mux_ is taken when no other thread owns it; runHere() and runThreads() go on into stop().
LEMMA LockStep ==
    ASSUME IInv, NEW t \in Threads, Lock(t), program' = program
    PROVE  IInv'
<1>1. Busy(t) /\ Top(t).at = "lock" /\ Same
    BY DEF Lock, Same, io
<1>2. Top(t) \in Frame /\ Legal(Top(t))
    BY <1>1, Innermost
<1>3. Top(t).op \in {"runHere", "runThreads", "stop", "stopWhenIdle"}
    BY <1>1, <1>2 DEF Legal, Frame
<1>4. Free(t)
    BY Holding DEF Lock, Free, IInv
<1>5. ~Marked(Top(t))
    BY <1>1 DEF Marked, Halting, Joining, Starting
<1>6. stack' \in [Threads -> Seq(Frame)] /\ Shape' /\ Mutex' /\ Alone' /\ Pooled' /\ Kept'
  <2>1. CASE Top(t).op = "runHere"
    <3>. DEFINE x == [Top(t) EXCEPT !.at = "run"]
                g == Calling("stop", 0)
    <3>1. x \in Frame /\ x.op = Top(t).op /\ x.at = "run" /\ x.n = Top(t).n
        BY <1>2, MovedFrame
    <3>2. g \in Frame /\ g.op = "stop" /\ g.at = "lock" /\ g.n = 0
        BY CalledFrames
    <3>3. stack' = [stack EXCEPT ![t] = Front(@) \o <<x, g>>]
        BY <2>1 DEF Lock, Calls
    <3>. HIDE DEF x, g
    <3>4. /\ Legal(x) /\ Legal(g) /\ Over(x, g) /\ x.op # "handler"
          /\ ~Marked(x) /\ ~Marked(g) /\ ~Cleared(x, FALSE) /\ ~Cleared(g, TRUE) /\ ~Locking(g)
        BY <1>2, <2>1, <3>1, <3>2 DEF Legal, Over, Marked, Halting, Joining, Starting, Locking, Cleared
    <3>. HIDE DEF Frame
    <3>. QED  BY <1>1, <1>4, <1>5, <3>1, <3>2, <3>3, <3>4, CallsKeeps
  <2>2. CASE Top(t).op = "runThreads"
    <3>. DEFINE x == [Top(t) EXCEPT !.at = "resize"]
                g == Calling("stop", 0)
    <3>1. x \in Frame /\ x.op = Top(t).op /\ x.at = "resize" /\ x.n = Top(t).n
        BY <1>2, MovedFrame
    <3>2. g \in Frame /\ g.op = "stop" /\ g.at = "lock" /\ g.n = 0
        BY CalledFrames
    <3>3. stack' = [stack EXCEPT ![t] = Front(@) \o <<x, g>>]
        BY <2>2 DEF Lock, Calls
    <3>. HIDE DEF x, g
    <3>4. /\ Legal(x) /\ Legal(g) /\ Over(x, g) /\ x.op # "handler"
          /\ ~Marked(x) /\ ~Marked(g) /\ ~Cleared(x, FALSE) /\ ~Cleared(g, TRUE) /\ ~Locking(g)
        BY <1>2, <2>2, <3>1, <3>2 DEF Legal, Over, Marked, Halting, Joining, Starting, Locking, Cleared
    <3>. HIDE DEF Frame
    <3>. QED  BY <1>1, <1>4, <1>5, <3>1, <3>2, <3>3, <3>4, CallsKeeps
  <2>3. CASE Top(t).op \in {"stop", "stopWhenIdle"}
    <3>. DEFINE x == [Top(t) EXCEPT !.at = "idle"]
    <3>1. x \in Frame /\ x.op = Top(t).op /\ x.at = "idle" /\ x.n = Top(t).n
        BY <1>2, MovedFrame
    <3>2. stack' = [stack EXCEPT ![t] = Append(Front(@), x)]
        BY <2>3 DEF Lock, Moved
    <3>. HIDE DEF x
    <3>3. Legal(x) /\ ~Marked(x) /\ ~Cleared(x, TRUE)
        BY <1>1, <1>2, <2>3, <3>1 DEF Legal, Marked, Halting, Joining, Starting, Cleared
    <3>. HIDE DEF Frame
    <3>. QED  BY <1>1, <1>4, <1>5, <3>1, <3>2, <3>3, BecomesKeeps
  <2>. QED  BY <1>3, <2>1, <2>2, <2>3
<1>. QED  BY <1>6 DEF IInv, Typed, Lock, io

\* runHere() runs the context after its stop() has emptied threads_.
LEMMA RunHereStep ==
    ASSUME IInv, NEW t \in Threads, RunHere(t), program' = program
    PROVE  IInv'
<1>1. Busy(t) /\ Top(t).op = "runHere" /\ Top(t).at = "run" /\ Same
    BY DEF RunHere, At, Same, io
<1>2. Top(t) \in Frame /\ Legal(Top(t)) /\ pool = <<>>
    BY <1>1, Innermost DEF Cleared
<1>. DEFINE x == [Top(t) EXCEPT !.at = "unlock"]
<1>3. x \in Frame /\ x.op = "runHere" /\ x.at = "unlock"
    BY <1>1, <1>2, MovedFrame
<1>4. Running \in Frame /\ Running.op = "run" /\ Running.at = "enter"
    BY CalledFrames
<1>5. stack' = [stack EXCEPT ![t] = Front(@) \o <<x, Running>>]
    BY DEF RunHere, Calls
<1>. HIDE DEF x
<1>6. /\ Legal(x) /\ Legal(Running) /\ Over(x, Running) /\ ~Marked(Top(t)) /\ ~Marked(x) /\ ~Marked(Running)
      /\ ~Cleared(Running, TRUE) /\ Locking(Top(t)) /\ ~Locking(Running)
    BY <1>1, <1>3, <1>4 DEF Legal, Over, Marked, Halting, Joining, Starting, Locking, Cleared
<1>7. stack' \in [Threads -> Seq(Frame)] /\ Shape' /\ Mutex' /\ Alone' /\ Pooled' /\ Kept'
  <2>. HIDE DEF Frame
  <2>. QED  BY <1>1, <1>2, <1>3, <1>4, <1>5, <1>6, CallsKeeps
<1>. QED  BY <1>7 DEF IInv, Typed, RunHere, io

\* A thread comes into the loop of io_context::run().
LEMMA EnterStep ==
    ASSUME IInv, NEW t \in Threads, Enter(t), program' = program
    PROVE  IInv'
<1>1. Busy(t) /\ Top(t).op = "run" /\ Top(t).at = "enter" /\ Same
    BY DEF Enter, At, Same
<1>2. Top(t) \in Frame
    BY <1>1, Innermost
<1>. DEFINE x == [Top(t) EXCEPT !.at = "loop"]
<1>3. x \in Frame /\ x.op = "run" /\ x.at = "loop"
    BY <1>1, <1>2, MovedFrame
<1>4. stack' = [stack EXCEPT ![t] = Append(Front(@), x)]
    BY DEF Enter, Moved
<1>. HIDE DEF x
<1>5. Legal(x) /\ ~Marked(Top(t)) /\ ~Marked(x) /\ ~Cleared(x, TRUE) /\ ~Locking(x)
    BY <1>1, <1>3 DEF Legal, Marked, Halting, Joining, Starting, Locking, Cleared
<1>6. stack' \in [Threads -> Seq(Frame)] /\ Shape' /\ Mutex' /\ Alone' /\ Pooled' /\ Kept'
  <2>. HIDE DEF Frame
  <2>. QED  BY <1>1, <1>2, <1>3, <1>4, <1>5, BecomesKeeps
<1>. QED  BY <1>6 DEF IInv, Typed, Enter

\* io_context::run() takes a handler.
LEMMA TakeHandlerStep ==
    ASSUME IInv, NEW t \in Threads, TakeHandler(t), program' = program
    PROVE  IInv'
<1>1. Busy(t) /\ Top(t).op = "run" /\ Top(t).at = "loop" /\ Same
    BY DEF TakeHandler, At, Same
<1>2. Top(t) \in Frame /\ Legal(Top(t))
    BY <1>1, Innermost
<1>3. Handler \in Frame /\ Handler.op = "handler" /\ Handler.at = "body"
    BY CalledFrames
<1>4. /\ Legal(Handler) /\ Over(Top(t), Handler) /\ ~Marked(Top(t)) /\ ~Marked(Handler)
      /\ ~Cleared(Top(t), FALSE) /\ ~Cleared(Handler, TRUE) /\ ~Locking(Top(t)) /\ ~Locking(Handler)
    BY <1>1, <1>3 DEF Legal, Over, Marked, Halting, Joining, Starting, Locking, Cleared
<1>5. stack' = [stack EXCEPT ![t] = Append(@, Handler)]
    BY DEF TakeHandler
<1>6. stack' \in [Threads -> Seq(Frame)] /\ Shape' /\ Mutex' /\ Alone' /\ Pooled' /\ Kept'
  <2>. HIDE DEF Frame
  <2>. QED  BY <1>1, <1>2, <1>3, <1>4, <1>5, CallsKeeps
<1>7. queue' \in 0..MaxQueue
  <2>1. queue \in 0..MaxQueue /\ queue > 0 /\ queue' = queue - 1 /\ MaxQueue \in Nat
      BY IOctxtAssumption DEF IInv, Typed, TakeHandler
  <2>. QED  BY <2>1
<1>. QED  BY <1>6, <1>7 DEF IInv, Typed, TakeHandler

\* What a function called by another one returns to.
LEMMA Below ==
    ASSUME IInv, NEW t \in Threads, Busy(t), NEW i \in Depths(t), Len(stack[t]) = i + 1
    PROVE  Over(stack[t][i], Top(t))
BY Innermost DEF IInv, Shape

\* runHere() and runThreads() return to the program.
LEMMA ReturnStep ==
    ASSUME IInv, NEW t \in Threads, Return(t), program' = program
    PROVE  IInv'
<1>1. Busy(t) /\ Top(t).op \in {"runHere", "runThreads"} /\ Top(t).at = "unlock" /\ Same
    BY DEF Return, At, Same, io
<1>2. ~Marked(Top(t))
    BY <1>1 DEF Marked, Halting, Joining, Starting
<1>3. \A i \in Depths(t) : Len(stack[t]) = i + 1 => FALSE
    BY <1>1, Below DEF Over
<1>4. gone' => pool = <<>>
    BY <1>1 DEF IInv, Pooled, Same
<1>5. stack' \in [Threads -> Seq(Frame)] /\ Shape' /\ Mutex' /\ Alone' /\ Pooled' /\ Kept'
  <2>1. stack' = Popped(t)
      BY DEF Return
  <2>. HIDE DEF Frame
  <2>. QED  BY <1>1, <1>2, <1>3, <1>4, <2>1, PopKeeps DEF Same
<1>. QED  BY <1>5 DEF IInv, Typed, Return, io

\* The destructor ends, with threads_ empty since its stop() returned.
LEMMA DestroyedStep ==
    ASSUME IInv, NEW t \in Threads, Destroyed(t), program' = program
    PROVE  IInv'
<1>1. Busy(t) /\ Top(t).op = "destroy" /\ pool' = pool /\ guard' = guard /\ wanted' = wanted
    BY DEF Destroyed, At, io
<1>2. ~Marked(Top(t))
    BY <1>1 DEF Marked, Halting, Joining, Starting
<1>3. \A i \in Depths(t) : Len(stack[t]) = i + 1 => FALSE
    BY <1>1, Below DEF Over
<1>4. pool = <<>>
    BY <1>1, Innermost DEF Cleared
<1>5. stack' \in [Threads -> Seq(Frame)] /\ Shape' /\ Mutex' /\ Alone' /\ Pooled' /\ Kept'
  <2>1. stack' = Popped(t)
      BY DEF Destroyed
  <2>. HIDE DEF Frame
  <2>. QED  BY <1>1, <1>2, <1>3, <1>4, <2>1, PopKeeps
<1>. QED  BY <1>5 DEF IInv, Typed, Destroyed, io

\* A handler returns to io_context::run().
LEMMA HandlerEndsStep ==
    ASSUME IInv, NEW t \in Threads, HandlerEnds(t), program' = program
    PROVE  IInv'
<1>1. Busy(t) /\ Top(t).op = "handler" /\ Top(t).at = "body" /\ Same
    BY DEF HandlerEnds, At, Same
<1>2. ~Marked(Top(t))
    BY <1>1 DEF Marked, Halting, Joining, Starting
<1>3. \A i \in Depths(t) : Len(stack[t]) = i + 1 => ~Cleared(stack[t][i], TRUE)
    BY <1>1, Below DEF Over, Cleared
<1>4. gone' => pool = <<>>
    BY <1>1 DEF IInv, Pooled, Same
<1>5. stack' \in [Threads -> Seq(Frame)] /\ Shape' /\ Mutex' /\ Alone' /\ Pooled' /\ Kept'
  <2>1. stack' = Popped(t)
      BY DEF HandlerEnds
  <2>. HIDE DEF Frame
  <2>. QED  BY <1>1, <1>2, <1>3, <1>4, <2>1, PopKeeps DEF Same
<1>. QED  BY <1>5 DEF IInv, Typed, HandlerEnds

\* io_context::run() returns, to runHere() or at the end of the thread.
LEMMA RunEndsStep ==
    ASSUME IInv, NEW t \in Threads, RunEnds(t), program' = program
    PROVE  IInv'
<1>1. Busy(t) /\ Top(t).op = "run" /\ Top(t).at = "loop" /\ Same
    BY DEF RunEnds, At, Same, io
<1>2. ~Marked(Top(t))
    BY <1>1 DEF Marked, Halting, Joining, Starting
<1>3. ASSUME NEW i \in Depths(t), Len(stack[t]) = i + 1 PROVE pool = <<>>
  <2>1. stack[t][i].op = "runHere" /\ stack[t][i].at = "unlock"
      BY <1>1, <1>3, Below DEF Over
  <2>2. Cleared(stack[t][i], i = Len(stack[t]))
      BY <2>1 DEF Cleared
  <2>. QED  BY <2>2 DEF IInv, Pooled
<1>4. gone' => pool = <<>>
    BY <1>1 DEF IInv, Pooled, Same
<1>5. stack' \in [Threads -> Seq(Frame)] /\ Shape' /\ Mutex' /\ Alone' /\ Pooled' /\ Kept'
  <2>1. stack' = Popped(t)
      BY DEF RunEnds
  <2>. HIDE DEF Frame
  <2>. QED  BY <1>1, <1>2, <1>3, <1>4, <2>1, PopKeeps DEF Same
<1>. QED  BY <1>5 DEF IInv, Typed, RunEnds, io

\* While t owns mux_ only its innermost function can be marked, in the states
\* before and after a step of t.
LEMMA OwnerMarks ==
    ASSUME IInv, NEW t \in Threads, Busy(t), Locking(Top(t))
    PROVE  /\ \A u \in Threads \ {t} : \A i \in Depths(u) : ~Locking(stack[u][i])
           /\ \A u \in Threads : \A i \in Depths(u) : Marked(stack[u][i]) => u = t /\ i = Len(stack[t])
<1>1. Len(stack[t]) \in Depths(t) /\ Top(t) = stack[t][Len(stack[t])]
    BY Innermost
<1>2. \A u \in Threads \ {t} : \A i \in Depths(u) : ~Locking(stack[u][i])
    BY <1>1 DEF IInv, Mutex
<1>3. ASSUME NEW u \in Threads, NEW i \in Depths(u), Marked(stack[u][i])
      PROVE  u = t /\ i = Len(stack[t])
  <2>1. Locking(stack[u][i])
      BY <1>3 DEF Marked, Halting, Joining, Starting, Locking
  <2>2. u = t
      BY <1>2, <2>1
  <2>3. stack[u][i].op \in {"stop", "stopWhenIdle"} \/ Starting(stack[u][i])
      BY <1>3 DEF Marked, Halting, Joining
  <2>4. i = Len(stack[u])
      BY <2>3, Positions DEF IInv
  <2>. QED  BY <2>2, <2>4
<1>. QED  BY <1>2, <1>3

\* Steps of stop() and runThreads() in which the owner of mux_ only comes to another
\* point: no other thread is between two of them.
LEMMA OwnerBecomes ==
    ASSUME IInv, NEW t \in Threads, Busy(t), Locking(Top(t)), program' = program,
           NEW x \in Frame, x.op = Top(t).op, Legal(x), ~Cleared(x, TRUE),
           stack' = [stack EXCEPT ![t] = Append(Front(@), x)]
    PROVE  /\ stack' \in [Threads -> Seq(Frame)] /\ Shape' /\ Mutex' /\ Alone'
           /\ Len(stack[t]) \in Depths(t)' /\ stack'[t][Len(stack[t])] = x
           /\ \A u \in Threads : Busy(u)' => Busy(u)
           /\ \A u \in Threads : \A i \in Depths(u)' :
                 /\ Marked(stack'[u][i]) => u = t /\ stack'[u][i] = x
                 /\ Cleared(stack'[u][i], i = Len(stack'[u])) =>
                       i \in Depths(u) /\ Cleared(stack[u][i], i = Len(stack[u])) /\ ~(u = t /\ i = Len(stack[t]))
<1>. DEFINE n == Len(stack[t])
<1>1. Typed /\ Shape
    BY DEF IInv
<1>2. /\ stack' \in [Threads -> Seq(Frame)] /\ Shape'
      /\ \A u \in Threads : Len(stack'[u]) = Len(stack[u]) /\ Depths(u)' = Depths(u)
      /\ \A u \in Threads : \A i \in Depths(u) :
            stack'[u][i] = IF u = t /\ i = n THEN x ELSE stack[u][i]
  <2>. HIDE DEF Frame
  <2>. QED  BY <1>1, TopBecomes
<1>3. n \in Depths(t) /\ Top(t) = stack[t][n]
    BY Innermost
<1>4. /\ \A u \in Threads \ {t} : \A i \in Depths(u) : ~Locking(stack[u][i])
      /\ \A u \in Threads : \A i \in Depths(u) : Marked(stack[u][i]) => u = t /\ i = n
    BY OwnerMarks
<1>5. n = Len(stack[t])
    OBVIOUS
<1>. HIDE DEF n, Frame
<1>6. ASSUME NEW u \in Threads, NEW i \in Depths(u)'
      PROVE  /\ i \in Depths(u) /\ Len(stack'[u]) = Len(stack[u])
             /\ \/ u = t /\ i = n /\ stack'[u][i] = x
                \/ ~(u = t /\ i = n) /\ stack'[u][i] = stack[u][i]
  <2>1. i \in Depths(u) /\ Len(stack'[u]) = Len(stack[u])
      BY <1>2
  <2>2. CASE u = t /\ i = n
      BY <1>2, <2>1, <2>2
  <2>3. CASE ~(u = t /\ i = n)
      BY <1>2, <2>1, <2>3
  <2>. QED  BY <2>1, <2>2, <2>3
<1>7. \A u \in Threads : Busy(u)' => Busy(u) /\ stack'[u][1].op = stack[u][1].op
  <2>. TAKE u \in Threads
  <2>1. 1 \in Depths(u)' => stack'[u][1].op = stack[u][1].op
      BY <1>3, <1>6
  <2>2. Depths(u)' \subseteq Depths(u)
      BY <1>2
  <2>. QED  BY <1>1, <1>2, <2>1, <2>2, HeadStays
<1>8. Alone'
    BY <1>7, AloneStays DEF IInv, Threads
<1>9. Mutex'
  <2>1. \A u \in Threads : \A i \in Depths(u)' : Locking(stack'[u][i]) => u = t
      BY <1>4, <1>6
  <2>. QED  BY <2>1 DEF Mutex
<1>10. ASSUME NEW u \in Threads, NEW i \in Depths(u)'
       PROVE  /\ Marked(stack'[u][i]) => u = t /\ stack'[u][i] = x
              /\ Cleared(stack'[u][i], i = Len(stack'[u])) =>
                    i \in Depths(u) /\ Cleared(stack[u][i], i = Len(stack[u])) /\ ~(u = t /\ i = n)
  <2>1. CASE u = t /\ i = n
    <3>1. stack'[u][i] = x
        BY <1>6, <2>1
    <3>2. ~Cleared(x, i = Len(stack'[u]))
        BY DEF Cleared
    <3>. QED  BY <2>1, <3>1, <3>2
  <2>2. CASE ~(u = t /\ i = n)
      BY <1>4, <1>6, <2>2
  <2>. QED  BY <2>1, <2>2
<1>. QED  BY <1>2, <1>3, <1>5, <1>6, <1>7, <1>8, <1>9, <1>10

\* The owner of mux_ returns from its innermost function: nothing is marked any more.
LEMMA OwnerPops ==
    ASSUME IInv, NEW t \in Threads, Busy(t), Locking(Top(t)), program' = program, stack' = Popped(t)
    PROVE  /\ stack' \in [Threads -> Seq(Frame)] /\ Shape' /\ Mutex' /\ Alone'
           /\ \A u \in Threads : Busy(u)' => Busy(u)
           /\ \A u \in Threads : \A i \in Depths(u)' : ~Marked(stack'[u][i])
<1>. DEFINE n == Len(stack[t])
<1>1. Typed /\ Shape
    BY DEF IInv
<1>2. /\ stack' \in [Threads -> Seq(Frame)] /\ Shape'
      /\ \A u \in Threads \ {t} : stack'[u] = stack[u] /\ Depths(u)' = Depths(u)
      /\ Depths(t)' = Depths(t) \ {n}
      /\ \A i \in Depths(t)' : stack'[t][i] = stack[t][i]
    BY <1>1, TopPops
<1>3. /\ \A u \in Threads \ {t} : \A i \in Depths(u) : ~Locking(stack[u][i])
      /\ \A u \in Threads : \A i \in Depths(u) : Marked(stack[u][i]) => u = t /\ i = n
    BY OwnerMarks
<1>. HIDE DEF n
<1>4. ASSUME NEW u \in Threads, NEW i \in Depths(u)'
      PROVE  i \in Depths(u) /\ stack'[u][i] = stack[u][i] /\ ~(u = t /\ i = n)
  <2>1. CASE u = t
      BY <1>2, <2>1
  <2>2. CASE u # t
      BY <1>2, <2>2
  <2>. QED  BY <2>1, <2>2
<1>5. \A u \in Threads : Busy(u)' => Busy(u) /\ stack'[u][1].op = stack[u][1].op
  <2>. TAKE u \in Threads
  <2>1. 1 \in Depths(u)' => stack'[u][1].op = stack[u][1].op
      BY <1>4
  <2>2. Depths(u)' \subseteq Depths(u)
      BY <1>4
  <2>. QED  BY <1>1, <1>2, <2>1, <2>2, HeadStays
<1>6. Alone'
    BY <1>5, AloneStays DEF IInv, Threads
<1>7. Mutex'
  <2>1. \A u \in Threads : \A i \in Depths(u)' : Locking(stack'[u][i]) => u = t
      BY <1>3, <1>4
  <2>. QED  BY <2>1 DEF Mutex
<1>8. \A u \in Threads : \A i \in Depths(u)' : ~Marked(stack'[u][i])
    BY <1>3, <1>4
<1>. QED  BY <1>2, <1>5, <1>6, <1>7, <1>8

\* stopWhenIdle() sets the work guard; nobody is between taking it away and putting it back.
LEMMA SetIdleStep ==
    ASSUME IInv, NEW t \in Threads, SetIdle(t), program' = program
    PROVE  IInv'
<1>1. Busy(t) /\ Top(t).op = "stopWhenIdle" /\ Top(t).at = "idle" /\ stack' = Popped(t) /\ pool' = pool
    BY DEF SetIdle, At
<1>2. Top(t) \in Frame /\ Locking(Top(t)) /\ ~Marked(Top(t))
    BY <1>1, Innermost DEF Locking, Marked, Halting, Joining, Starting
<1>3. \A i \in Depths(t) : Len(stack[t]) = i + 1 => ~Cleared(stack[t][i], TRUE)
    BY <1>1, Below DEF Over, Cleared
<1>4. gone' => pool = <<>>
    BY DEF IInv, Pooled, SetIdle
<1>5. /\ stack' \in [Threads -> Seq(Frame)] /\ Shape' /\ Mutex' /\ Alone' /\ Pooled'
      /\ Polite => \A k \in 1..Len(pool) : pool[k] = NoThread =>
            (\E u \in Threads : \E i \in Depths(u) :
                \/ Starting(stack[u][i])
                \/ Joining(stack[u][i]) /\ k <= stack[u][i].n)'
  <2>. HIDE DEF Frame
  <2>. QED  BY <1>1, <1>2, <1>3, <1>4, PopKeeps
<1>6. \A u \in Threads : \A i \in Depths(u)' : ~Marked(stack'[u][i])
    BY <1>1, <1>2, OwnerPops
<1>7. Typed'
    BY <1>5 DEF IInv, Typed, SetIdle, DropGuard
<1>8. guard' = ~wanted'
  <2>1. CASE Top(t).n = 1
      BY <2>1 DEF SetIdle, DropGuard
  <2>2. CASE Top(t).n # 1
      BY <2>2 DEF SetIdle
  <2>. QED  BY <2>1, <2>2
<1>9. Kept'
  <2>1. Polite' = Polite
      BY DEF Polite
  <2>. QED  BY <1>1, <1>5, <1>6, <1>8, <2>1 DEF Kept, Marked
<1>. QED  BY <1>5, <1>7, <1>9 DEF IInv

\* stop() remembers the work guard and takes it away.
LEMMA StopIdleStep ==
    ASSUME IInv, NEW t \in Threads, StopIdle(t), program' = program
    PROVE  IInv'
<1>. DEFINE x == [Top(t) EXCEPT !.at = "halt", !.old = ~guard]
<1>1. /\ Busy(t) /\ Top(t).op = "stop" /\ Top(t).at = "idle"
      /\ stack' = [stack EXCEPT ![t] = Append(Front(@), x)]
    BY DEF StopIdle, At
<1>2. Top(t) \in Frame /\ Legal(Top(t)) /\ Locking(Top(t)) /\ ~Marked(Top(t))
    BY <1>1, Innermost DEF Locking, Marked, Halting, Joining, Starting
<1>3. x \in Frame /\ x.op = "stop" /\ x.at = "halt" /\ x.n = Top(t).n /\ x.old = ~guard
    BY <1>1, <1>2 DEF Frame, IInv, Typed
<1>. HIDE DEF x
<1>4. Legal(x) /\ ~Cleared(x, TRUE) /\ Halting(x) /\ ~Joining(x) /\ ~Starting(x)
    BY <1>1, <1>2, <1>3 DEF Legal, Cleared, Halting, Joining, Starting
<1>5. /\ stack' \in [Threads -> Seq(Frame)] /\ Shape' /\ Mutex' /\ Alone'
      /\ Len(stack[t]) \in Depths(t)' /\ stack'[t][Len(stack[t])] = x
      /\ \A u \in Threads : Busy(u)' => Busy(u)
      /\ \A u \in Threads : \A i \in Depths(u)' :
            /\ Marked(stack'[u][i]) => u = t /\ stack'[u][i] = x
            /\ Cleared(stack'[u][i], i = Len(stack'[u])) =>
                  i \in Depths(u) /\ Cleared(stack[u][i], i = Len(stack[u])) /\ ~(u = t /\ i = Len(stack[t]))
  <2>1. x.op = Top(t).op
      BY <1>1, <1>3
  <2>. HIDE DEF Frame
  <2>. QED  BY <1>1, <1>2, <1>3, <1>4, <2>1, OwnerBecomes
<1>6. \A u \in Threads : \A i \in Depths(u) : ~Marked(stack[u][i])
    BY <1>1, <1>2, OwnerMarks, Innermost
<1>7. Typed'
    BY <1>5 DEF IInv, Typed, StopIdle, DropGuard
<1>8. Pooled'
  <2>1. pool' = pool /\ gone' = gone
      BY DEF StopIdle
  <2>2. \A u \in Threads : \A i \in Depths(u)' :
           /\ ~Starting(stack'[u][i]) /\ ~Joining(stack'[u][i])
           /\ Cleared(stack'[u][i], i = Len(stack'[u])) => pool = <<>>
      BY <1>4, <1>5 DEF Marked, IInv, Pooled
  <2>. QED  BY <1>5, <2>1, <2>2 DEF IInv, Pooled, Threads
<1>9. Kept'
  <2>1. SUFFICES ASSUME Polite PROVE Kept'
      BY DEF Kept, Polite
  <2>2. pool' = pool /\ wanted' = wanted
      BY DEF StopIdle
  <2>3. guard = ~wanted
      BY <1>6, <2>1 DEF IInv, Kept, Marked
  <2>4. x.old = wanted
      BY <1>3, <2>3 DEF IInv, Typed
  <2>5. (\E u \in Threads : \E i \in Depths(u) : Halting(stack[u][i]) \/ Joining(stack[u][i]))'
      BY <1>4, <1>5
  <2>6. \A u \in Threads : \A i \in Depths(u)' :
           Halting(stack'[u][i]) \/ Joining(stack'[u][i]) => stack'[u][i].old = wanted
      BY <1>5, <2>4 DEF Marked
  <2>7. \A k \in 1..Len(pool) : pool[k] # NoThread
      BY <1>6, <2>1 DEF IInv, Kept, Marked
  <2>. QED  BY <2>2, <2>5, <2>6, <2>7 DEF Kept
<1>. QED  BY <1>5, <1>7, <1>8, <1>9 DEF IInv

\* stop() stops the context and comes to its joins, of which none is done.
LEMMA HaltStep ==
    ASSUME IInv, NEW t \in Threads, Halt(t), program' = program
    PROVE  IInv'
<1>. DEFINE x == [Top(t) EXCEPT !.at = "join"]
<1>1. /\ Busy(t) /\ Top(t).op = "stop" /\ Top(t).at = "halt"
      /\ stack' = [stack EXCEPT ![t] = Append(Front(@), x)]
    BY DEF Halt, At, Moved
<1>2. Top(t) \in Frame /\ Legal(Top(t)) /\ Locking(Top(t)) /\ Halting(Top(t))
    BY <1>1, Innermost DEF Locking, Halting
<1>3. x \in Frame /\ x.op = "stop" /\ x.at = "join" /\ x.n = Top(t).n /\ x.old = Top(t).old
    BY <1>1, <1>2, MovedFrame
<1>. HIDE DEF x
<1>4. Legal(x) /\ ~Cleared(x, TRUE) /\ ~Halting(x) /\ Joining(x) /\ ~Starting(x) /\ x.n = 0
    BY <1>1, <1>2, <1>3 DEF Legal, Cleared, Halting, Joining, Starting
<1>5. /\ stack' \in [Threads -> Seq(Frame)] /\ Shape' /\ Mutex' /\ Alone'
      /\ Len(stack[t]) \in Depths(t)' /\ stack'[t][Len(stack[t])] = x
      /\ \A u \in Threads : Busy(u)' => Busy(u)
      /\ \A u \in Threads : \A i \in Depths(u)' :
            /\ Marked(stack'[u][i]) => u = t /\ stack'[u][i] = x
            /\ Cleared(stack'[u][i], i = Len(stack'[u])) =>
                  i \in Depths(u) /\ Cleared(stack[u][i], i = Len(stack[u])) /\ ~(u = t /\ i = Len(stack[t]))
  <2>1. x.op = Top(t).op
      BY <1>1, <1>3
  <2>. HIDE DEF Frame
  <2>. QED  BY <1>1, <1>2, <1>3, <1>4, <2>1, OwnerBecomes
<1>6. \A u \in Threads : \A i \in Depths(u) : Marked(stack[u][i]) => u = t /\ stack[u][i] = Top(t)
    BY <1>1, <1>2, OwnerMarks, Innermost
<1>7. Typed'
    BY <1>5 DEF IInv, Typed, Halt
<1>8. Pooled'
  <2>1. pool' = pool /\ gone' = gone
      BY DEF Halt
  <2>2. \A u \in Threads : \A i \in Depths(u)' :
           /\ ~Starting(stack'[u][i])
           /\ Joining(stack'[u][i]) => stack'[u][i].n = 0
           /\ Cleared(stack'[u][i], i = Len(stack'[u])) => pool = <<>>
      BY <1>4, <1>5 DEF Marked, IInv, Pooled
  <2>3. Len(pool) \in Nat
      BY DEF IInv, Typed
  <2>4. \A u \in Threads : \A i \in Depths(u)' : Joining(stack'[u][i]) =>
           stack'[u][i].n <= Len(pool) /\ \A k \in 1..stack'[u][i].n : pool[k] = NoThread
      BY <2>2, <2>3
  <2>. QED  BY <1>5, <2>1, <2>2, <2>4 DEF IInv, Pooled, Threads
<1>9. Kept'
  <2>1. SUFFICES ASSUME Polite PROVE Kept'
      BY DEF Kept, Polite
  <2>2. pool' = pool /\ wanted' = wanted
      BY DEF Halt
  <2>3. Top(t).old = wanted
      BY <1>1, <1>2, <2>1, Innermost DEF IInv, Kept
  <2>4. (\E u \in Threads : \E i \in Depths(u) : Halting(stack[u][i]) \/ Joining(stack[u][i]))'
      BY <1>4, <1>5
  <2>5. \A u \in Threads : \A i \in Depths(u)' :
           Halting(stack'[u][i]) \/ Joining(stack'[u][i]) => stack'[u][i].old = wanted
      BY <1>3, <1>5, <2>3 DEF Marked
  <2>6. \A k \in 1..Len(pool) : pool[k] # NoThread
      BY <1>1, <1>6, <2>1 DEF IInv, Kept, Marked, Starting, Joining
  <2>. QED  BY <2>2, <2>4, <2>5, <2>6 DEF Kept
<1>. QED  BY <1>5, <1>7, <1>8, <1>9 DEF IInv

\* Where join() is, and what it finds.
LEMMA AtJoin ==
    ASSUME IInv, NEW t \in Threads, At(t, "stop", "join")
    PROVE  /\ Busy(t) /\ Top(t) \in Frame /\ Locking(Top(t)) /\ Joining(Top(t))
           /\ Top(t).n \in Nat /\ Top(t).n <= Len(pool) /\ Len(pool) \in Nat
           /\ \A k \in 1..Top(t).n : pool[k] = NoThread
           /\ \A u \in Threads : \A i \in Depths(u) : Marked(stack[u][i]) => u = t /\ stack[u][i] = Top(t)
           /\ Polite => /\ Top(t).old = wanted /\ t \in Clients
                        /\ \A k \in 1..Len(pool) : pool[k] = NoThread => k <= Top(t).n
<1>1. Busy(t) /\ Top(t).op = "stop" /\ Top(t).at = "join"
    BY DEF At
<1>2. Top(t) \in Frame /\ Len(stack[t]) \in Depths(t) /\ Top(t) = stack[t][Len(stack[t])]
    BY <1>1, Innermost
<1>3. Locking(Top(t)) /\ Joining(Top(t)) /\ ~Starting(Top(t))
    BY <1>1 DEF Locking, Joining, Starting
<1>4. Top(t).n \in Nat /\ Len(pool) \in Nat
    BY <1>2 DEF Frame, IInv, Typed
<1>5. Top(t).n <= Len(pool) /\ \A k \in 1..Top(t).n : pool[k] = NoThread
    BY <1>2, <1>3 DEF IInv, Pooled
<1>6. \A u \in Threads : \A i \in Depths(u) : Marked(stack[u][i]) => u = t /\ stack[u][i] = Top(t)
    BY <1>1, <1>2, <1>3, OwnerMarks
<1>7. ASSUME Polite
      PROVE  /\ Top(t).old = wanted /\ t \in Clients
             /\ \A k \in 1..Len(pool) : pool[k] = NoThread => k <= Top(t).n
  <2>1. Top(t).old = wanted
      BY <1>2, <1>3, <1>7 DEF IInv, Kept
  <2>2. t \in Clients
      BY <1>1, <1>2, <1>7, Positions DEF IInv, Polite
  <2>3. \A k \in 1..Len(pool) : pool[k] = NoThread => k <= Top(t).n
      BY <1>3, <1>6, <1>7 DEF IInv, Kept, Marked
  <2>. QED  BY <2>1, <2>2, <2>3
<1>. QED  BY <1>1, <1>2, <1>3, <1>4, <1>5, <1>6, <1>7

\* A join: the entry has no thread any more, and the thread it had has ended.
LEMMA JoinStep ==
    ASSUME IInv, NEW t \in Threads, Join(t), program' = program
    PROVE  IInv'
<1>. DEFINE x == [Top(t) EXCEPT !.n = @ + 1]
            m == Top(t).n + 1
            w == pool[m]
<1>1. /\ At(t, "stop", "join") /\ Top(t).op = "stop" /\ Top(t).at = "join" /\ Top(t).n < Len(pool)
      /\ w # NoThread /\ ~Busy(w)
      /\ pool' = [pool EXCEPT ![m] = NoThread]
      /\ stack' = [stack EXCEPT ![t] = Append(Front(@), x)]
      /\ gone' = gone /\ guard' = guard /\ wanted' = wanted
    BY DEF Join, At, io
<1>2. /\ Busy(t) /\ Top(t) \in Frame /\ Locking(Top(t)) /\ Joining(Top(t))
      /\ Top(t).n \in Nat /\ Top(t).n <= Len(pool) /\ Len(pool) \in Nat
      /\ \A k \in 1..Top(t).n : pool[k] = NoThread
      /\ \A u \in Threads : \A i \in Depths(u) : Marked(stack[u][i]) => u = t /\ stack[u][i] = Top(t)
      /\ Polite => /\ Top(t).old = wanted /\ t \in Clients
                   /\ \A k \in 1..Len(pool) : pool[k] = NoThread => k <= Top(t).n
  <2>. HIDE DEF Frame
  <2>. QED  BY <1>1, AtJoin
<1>3. x \in Frame /\ x.op = "stop" /\ x.at = "join" /\ x.n = m /\ x.old = Top(t).old
    BY <1>1, <1>2 DEF Frame
<1>4. m \in 1..Len(pool) /\ m \in Nat /\ \A k \in 1..m : k = m \/ k \in 1..Top(t).n
    BY <1>1, <1>2
<1>5. pool' \in Seq(Workers \cup {NoThread}) /\ Len(pool') = Len(pool)
      /\ \A k \in 1..Len(pool) : pool'[k] = IF k = m THEN NoThread ELSE pool[k]
    BY <1>1, <1>4, ExceptSeq DEF IInv, Typed
<1>. HIDE DEF x, m
<1>6. Legal(x) /\ ~Cleared(x, TRUE) /\ ~Halting(x) /\ Joining(x) /\ ~Starting(x)
    BY <1>3 DEF Legal, Cleared, Halting, Joining, Starting
<1>7. /\ stack' \in [Threads -> Seq(Frame)] /\ Shape' /\ Mutex' /\ Alone'
      /\ Len(stack[t]) \in Depths(t)' /\ stack'[t][Len(stack[t])] = x
      /\ \A u \in Threads : Busy(u)' => Busy(u)
      /\ \A u \in Threads : \A i \in Depths(u)' :
            /\ Marked(stack'[u][i]) => u = t /\ stack'[u][i] = x
            /\ Cleared(stack'[u][i], i = Len(stack'[u])) =>
                  i \in Depths(u) /\ Cleared(stack[u][i], i = Len(stack[u])) /\ ~(u = t /\ i = Len(stack[t]))
  <2>1. x.op = Top(t).op
      BY <1>1, <1>3
  <2>. HIDE DEF Frame
  <2>. QED  BY <1>1, <1>2, <1>3, <1>6, <2>1, OwnerBecomes
<1>8. Typed'
    BY <1>5, <1>7 DEF IInv, Typed, Join, io
<1>9. pool # <<>>
    BY <1>4, EmptySeq
<1>10. Pooled'
  <2>1. \A v \in Workers : Busy(v)' => \E k \in 1..Len(pool) : pool'[k] = v
    <3>. TAKE v \in Workers
    <3>. HAVE Busy(v)'
    <3>1. Busy(v)
        BY <1>7 DEF Threads
    <3>2. PICK k \in 1..Len(pool) : pool[k] = v
        BY <3>1 DEF IInv, Pooled
    <3>3. k # m
        BY <1>1, <3>1, <3>2
    <3>. QED  BY <1>5, <3>2, <3>3
  <2>2. \A u \in Threads : \A i \in Depths(u)' :
           /\ ~Starting(stack'[u][i])
           /\ Joining(stack'[u][i]) => stack'[u][i].n = m
           /\ ~Cleared(stack'[u][i], i = Len(stack'[u]))
      BY <1>3, <1>6, <1>7, <1>9 DEF Marked, IInv, Pooled
  <2>3. m <= Len(pool) /\ \A k \in 1..m : pool'[k] = NoThread
    <3>1. \A k \in 1..m : k \in 1..Len(pool)
        BY <1>4, <1>2
    <3>. QED  BY <1>2, <1>4, <1>5, <3>1
  <2>4. gone' => pool' = <<>>
      BY <1>1, <1>9 DEF IInv, Pooled
  <2>. QED  BY <1>5, <2>1, <2>2, <2>3, <2>4 DEF IInv, Pooled
<1>11. Kept'
  <2>1. SUFFICES ASSUME Polite PROVE Kept'
      BY DEF Kept, Polite
  <2>2. (\E u \in Threads : \E i \in Depths(u) : Halting(stack[u][i]) \/ Joining(stack[u][i]))'
      BY <1>6, <1>7
  <2>3. \A u \in Threads : \A i \in Depths(u)' :
           Halting(stack'[u][i]) \/ Joining(stack'[u][i]) => stack'[u][i].old = wanted'
    <3>1. x.old = wanted'
        BY <1>1, <1>2, <1>3, <2>1
    <3>. QED  BY <1>7, <3>1 DEF Marked
  <2>4. ASSUME NEW k \in 1..Len(pool), pool'[k] = NoThread PROVE k <= m
    <3>1. CASE k = m
        BY <1>4, <3>1
    <3>2. CASE k # m
      <4>1. k <= Top(t).n
          BY <1>2, <1>5, <2>1, <2>4, <3>2
      <4>. QED  BY <1>2, <4>1 DEF m
    <3>. QED  BY <3>1, <3>2
  <2>5. \A k \in 1..Len(pool') : pool'[k] = NoThread =>
           (\E u \in Threads : \E i \in Depths(u) : Joining(stack[u][i]) /\ k <= stack[u][i].n)'
      BY <1>3, <1>5, <1>6, <1>7, <2>4
  <2>. QED  BY <2>2, <2>3, <2>5 DEF Kept
<1>. QED  BY <1>7, <1>8, <1>10, <1>11 DEF IInv

\* stop() has joined all of threads_: it empties it and puts the work guard back.
LEMMA RestoreStep ==
    ASSUME IInv, NEW t \in Threads, Restore(t), program' = program
    PROVE  IInv'
<1>1. /\ At(t, "stop", "join") /\ Top(t).n = Len(pool) /\ pool' = <<>> /\ guard' = ~Top(t).old
      /\ stack' = Popped(t) /\ wanted' = wanted
    BY DEF Restore
<1>2. /\ Busy(t) /\ Top(t) \in Frame /\ Locking(Top(t))
      /\ \A k \in 1..Top(t).n : pool[k] = NoThread
      /\ Polite => Top(t).old = wanted
  <2>. HIDE DEF Frame
  <2>. QED  BY <1>1, AtJoin
<1>3. /\ stack' \in [Threads -> Seq(Frame)] /\ Shape' /\ Mutex' /\ Alone'
      /\ \A u \in Threads : Busy(u)' => Busy(u)
      /\ \A u \in Threads : \A i \in Depths(u)' : ~Marked(stack'[u][i])
  <2>. HIDE DEF Frame
  <2>. QED  BY <1>1, <1>2, OwnerPops
<1>4. Len(pool') = 0 /\ pool' \in Seq(Workers \cup {NoThread})
    BY <1>1
<1>5. Typed'
  <2>1. guard' \in BOOLEAN
      BY <1>1
  <2>. QED  BY <1>3, <1>4, <2>1 DEF IInv, Typed, Restore
<1>6. Pooled'
  <2>1. \A w \in Workers : ~Busy(w)'
      BY <1>1, <1>2, <1>3, IOctxtAssumption DEF IInv, Pooled, Threads
  <2>2. 0 <= Cardinality(Workers)
    <3>1. IsFiniteSet(Workers)
        BY IOctxtAssumption, FS_Subset
    <3>2. Cardinality(Workers) \in Nat
        BY <3>1, FS_CardinalityType
    <3>. QED  BY <3>2
  <2>. QED  BY <1>1, <1>3, <1>4, <2>1, <2>2 DEF Pooled, Marked
<1>7. Kept'
  <2>1. SUFFICES ASSUME Polite PROVE Kept'
      BY DEF Kept, Polite
  <2>2. guard' = ~wanted'
      BY <1>1, <1>2, <2>1
  <2>. QED  BY <1>3, <1>4, <2>2 DEF Kept, Marked
<1>. QED  BY <1>3, <1>5, <1>6, <1>7 DEF IInv

\* An exception: never in a polite program.
LEMMA ThrowStep ==
    ASSUME IInv, NEW t \in Threads, Throw(t), ~Polite, program' = program
    PROVE  IInv'
<1>1. /\ stack' = [stack EXCEPT ![t] = <<>>] /\ pool' = pool /\ gone' = gone
      /\ aborted' \in BOOLEAN
    BY DEF Throw, IInv, Typed
<1>2. /\ stack' \in [Threads -> Seq(Frame)] /\ Shape'
      /\ \A u \in Threads \ {t} : stack'[u] = stack[u] /\ Depths(u)' = Depths(u)
      /\ Depths(t)' = {} /\ ~Busy(t)'
  <2>. HIDE DEF Frame
  <2>. QED  BY <1>1, Clears DEF IInv
<1>3. \A u \in Threads : \A i \in Depths(u)' : i \in Depths(u) /\ stack'[u] = stack[u]
    BY <1>2
<1>4. \A u \in Threads : Busy(u)' => Busy(u) /\ stack'[u] = stack[u]
    BY <1>2 DEF Busy
<1>5. Alone'
    BY <1>4, AloneStays DEF IInv, Threads
<1>6. Mutex'
    BY <1>3 DEF IInv, Mutex
<1>7. Pooled'
    BY <1>1, <1>3, <1>4 DEF IInv, Pooled, Threads
<1>8. Kept'
    BY DEF Kept, Polite
<1>9. Typed'
    BY <1>1, <1>2 DEF IInv, Typed, Throw, io
<1>. QED  BY <1>2, <1>5, <1>6, <1>7, <1>8, <1>9 DEF IInv

\* join() throws for an entry without a thread only if thread construction failed,
\* and for the calling thread only if a handler called stop().
LEMMA JoinFailsStep ==
    ASSUME IInv, NEW t \in Threads, JoinFails(t), program' = program
    PROVE  IInv'
<1>1. /\ At(t, "stop", "join") /\ Top(t).n < Len(pool) /\ Throw(t)
      /\ pool[Top(t).n + 1] \in {NoThread, t}
    BY DEF JoinFails
<1>2. /\ Top(t).n \in Nat /\ Len(pool) \in Nat
      /\ Polite => /\ t \in Clients
                   /\ \A k \in 1..Len(pool) : pool[k] = NoThread => k <= Top(t).n
    BY <1>1, AtJoin
<1>3. Top(t).n + 1 \in 1..Len(pool)
    BY <1>1, <1>2
<1>4. pool[Top(t).n + 1] \in Workers \cup {NoThread}
    BY <1>3, ElementOfSeq DEF IInv, Typed
<1>5. ASSUME Polite PROVE FALSE
  <2>1. pool[Top(t).n + 1] = t
      BY <1>1, <1>2, <1>3, <1>5
  <2>. QED  BY <1>2, <1>4, <1>5, <2>1, IOctxtAssumption DEF Threads
<1>. QED  BY <1>1, <1>5, ThrowStep

\* Thread construction fails only in programs in which it can.
LEMMA StartFailsStep ==
    ASSUME IInv, NEW t \in Threads, StartFails(t), program' = program
    PROVE  IInv'
BY ThrowStep DEF StartFails, Polite

\* runThreads() resizes threads_ after its stop() has emptied it.
LEMMA ResizeStep ==
    ASSUME IInv, NEW t \in Threads, Resize(t), ~gone, program' = program
    PROVE  IInv'
<1>. DEFINE l == IF Top(t).n = 0 THEN "unlock" ELSE "start"
            n == Top(t).n
            x == [Top(t) EXCEPT !.at = l]
<1>1. /\ Busy(t) /\ Top(t).op = "runThreads" /\ Top(t).at = "resize"
      /\ stack' = [stack EXCEPT ![t] = Append(Front(@), x)]
      /\ pool' = [i \in 1..n |-> NoThread] /\ gone' = gone /\ guard' = guard /\ wanted' = wanted
    BY DEF Resize, At, Moved, io
<1>2. Top(t) \in Frame /\ Legal(Top(t)) /\ Locking(Top(t)) /\ ~Marked(Top(t)) /\ pool = <<>>
    BY <1>1, Innermost DEF Locking, Marked, Halting, Joining, Starting, Cleared
<1>3. /\ x \in Frame /\ x.op = "runThreads" /\ x.n = n /\ x.old = Top(t).old
      /\ n = 0 => x.at = "unlock"
      /\ n # 0 => x.at = "start"
  <2>1. CASE n = 0
      BY <1>1, <1>2, <2>1 DEF Frame
  <2>2. CASE n # 0
      BY <1>1, <1>2, <2>2 DEF Frame
  <2>. QED  BY <2>1, <2>2
<1>4. n \in Nat /\ n <= Cardinality(Workers)
    BY <1>1, <1>2 DEF Frame, Legal
<1>. HIDE DEF l, n, x
<1>5. /\ pool' \in Seq(Workers \cup {NoThread}) /\ Len(pool') = n
      /\ \A k \in 1..n : pool'[k] = NoThread
    BY <1>1, <1>4
<1>6. Legal(x) /\ ~Cleared(x, TRUE) /\ ~Halting(x) /\ ~Joining(x) /\ (n # 0 <=> Starting(x))
    BY <1>3, <1>4 DEF Legal, Cleared, Halting, Joining, Starting
<1>7. /\ stack' \in [Threads -> Seq(Frame)] /\ Shape' /\ Mutex' /\ Alone'
      /\ Len(stack[t]) \in Depths(t)' /\ stack'[t][Len(stack[t])] = x
      /\ \A u \in Threads : Busy(u)' => Busy(u)
      /\ \A u \in Threads : \A i \in Depths(u)' :
            /\ Marked(stack'[u][i]) => u = t /\ stack'[u][i] = x
            /\ Cleared(stack'[u][i], i = Len(stack'[u])) =>
                  i \in Depths(u) /\ Cleared(stack[u][i], i = Len(stack[u])) /\ ~(u = t /\ i = Len(stack[t]))
  <2>1. x.op = Top(t).op
      BY <1>1, <1>3
  <2>. HIDE DEF Frame
  <2>. QED  BY <1>1, <1>2, <1>3, <1>6, <2>1, OwnerBecomes
<1>8. \A u \in Threads : \A i \in Depths(u) : ~Marked(stack[u][i])
    BY <1>1, <1>2, OwnerMarks, Innermost
<1>9. t \in Clients
    BY <1>1, <1>2, Innermost, Positions DEF IInv
<1>10. \A u \in Threads : \A i \in Depths(u)' : ~Cleared(stack'[u][i], i = Len(stack'[u]))
  <2>1. SUFFICES ASSUME NEW u \in Threads, NEW i \in Depths(u)', Cleared(stack'[u][i], i = Len(stack'[u]))
                 PROVE  FALSE
      OBVIOUS
  <2>2. i \in Depths(u) /\ Cleared(stack[u][i], i = Len(stack[u])) /\ ~(u = t /\ i = Len(stack[t]))
      BY <1>7, <2>1
  <2>3. CASE stack[u][i].op # "destroy"
    <3>1. Locking(stack[u][i])
        BY <2>2, <2>3 DEF Cleared, Locking
    <3>2. u = t
        BY <1>1, <1>2, <2>2, <3>1, OwnerMarks
    <3>3. i = 1 /\ Len(stack[t]) = 1
        BY <1>1, <2>2, <2>3, <3>2, Innermost, Positions DEF IInv, Cleared
    <3>. QED  BY <2>2, <3>2, <3>3
  <2>4. CASE stack[u][i].op = "destroy"
    <3>1. i = 1 /\ u \in Clients /\ Busy(u)
        BY <2>2, <2>4, Positions, Frames DEF IInv
    <3>2. u = t
        BY <1>1, <1>9, <2>4, <3>1 DEF IInv, Alone
    <3>3. stack[t][1].op = "runThreads"
        BY <1>1, Innermost, Positions DEF IInv
    <3>. QED  BY <2>4, <3>1, <3>2, <3>3
  <2>. QED  BY <2>3, <2>4
<1>11. Typed'
    BY <1>5, <1>7 DEF IInv, Typed, Resize, io
<1>12. Pooled'
  <2>1. \A w \in Workers : ~Busy(w)'
    <3>1. Len(pool) = 0
        BY <1>2
    <3>. QED  BY <1>7, <3>1 DEF IInv, Pooled, Threads
  <2>2. gone' => pool' = <<>>
      BY <1>1
  <2>. QED  BY <1>4, <1>5, <1>6, <1>7, <1>10, <2>1, <2>2 DEF Pooled, Marked
<1>13. Kept'
  <2>1. SUFFICES ASSUME Polite PROVE Kept'
      BY DEF Kept, Polite
  <2>2. guard' = ~wanted'
      BY <1>1, <1>8, <2>1 DEF IInv, Kept, Marked
  <2>3. \A u \in Threads : \A i \in Depths(u)' : ~Halting(stack'[u][i]) /\ ~Joining(stack'[u][i])
      BY <1>6, <1>7 DEF Marked
  <2>4. \A k \in 1..Len(pool') : pool'[k] = NoThread =>
           (\E u \in Threads : \E i \in Depths(u) : Starting(stack[u][i]))'
      BY <1>4, <1>5, <1>6, <1>7
  <2>. QED  BY <2>2, <2>3, <2>4 DEF Kept
<1>. QED  BY <1>7, <1>11, <1>12, <1>13 DEF IInv

\* While threads_ has an entry without a thread, not every thread is in it.
LEMMA FreeWorker ==
    ASSUME Typed, Len(pool) > 0, Len(pool) <= Cardinality(Workers), pool[Len(pool)] = NoThread
    PROVE  \E v \in Workers : v \notin ToSet(pool)
<1>1. SUFFICES ASSUME \A v \in Workers : v \in ToSet(pool) PROVE FALSE
    OBVIOUS
<1>. DEFINE m == Len(pool) - 1
<1>2. Len(pool) \in Nat /\ m \in Nat /\ DOMAIN pool = 1..Len(pool)
    BY LenProperties DEF Typed
<1>3. IsFiniteSet(Workers) /\ Cardinality(Workers) \in Nat
  <2>1. IsFiniteSet(Workers)
      BY IOctxtAssumption, FS_Subset
  <2>. QED  BY <2>1, FS_CardinalityType
<1>4. \A v \in Workers : \E k \in 1..m : pool[k] = v
  <2>. TAKE v \in Workers
  <2>1. PICK k \in 1..Len(pool) : pool[k] = v
      BY <1>1, <1>2 DEF ToSet
  <2>2. k # Len(pool)
      BY <2>1, IOctxtAssumption
  <2>3. \A L \in Nat : \A j \in 1..L : j # L => j \in 1..(L - 1)
      OBVIOUS
  <2>4. k \in 1..m
    <3>. HIDE DEF m
    <3>1. m = Len(pool) - 1
        BY DEF m
    <3>. QED  BY <1>2, <2>2, <2>3, <3>1
  <2>. QED  BY <2>1, <2>4
<1>. HIDE DEF m
<1>. DEFINE f == [v \in Workers |-> CHOOSE k \in 1..m : pool[k] = v]
<1>5. f \in [Workers -> 1..m] /\ \A v \in Workers : pool[f[v]] = v
    BY <1>4
<1>6. IsFiniteSet(1..m) /\ Cardinality(1..m) < Cardinality(Workers)
  <2>1. IsFiniteSet(1..m) /\ Cardinality(1..m) = m
      BY <1>2, FS_Interval
  <2>2. m < Cardinality(Workers)
      BY <1>2, <1>3 DEF m
  <2>. QED  BY <2>1, <2>2
<1>. HIDE DEF f
<1>7. \E x, y \in Workers : x # y /\ f[x] = f[y]
  <2>. DEFINE T == 1..m
  <2>1. f \in [Workers -> T] /\ IsFiniteSet(T) /\ Cardinality(T) < Cardinality(Workers)
      BY <1>5, <1>6
  <2>. HIDE DEF T
  <2>. QED  BY <1>3, <2>1, FS_PigeonHole
<1>. QED  BY <1>5, <1>7

\* runThreads() starts a thread in the first entry without one.
LEMMA StartStep ==
    ASSUME IInv, NEW t \in Threads, Start(t), ~gone, program' = program
    PROVE  IInv'
<1>. DEFINE i == CHOOSE j \in DOMAIN pool : pool[j] = NoThread /\ \A k \in 1..(j - 1) : pool[k] # NoThread
            W == CHOOSE v \in Workers : v \notin ToSet(pool)
            n == Len(stack[t])
            x == [Top(t) EXCEPT !.at = "unlock"]
            s == IF i = Len(pool) THEN Append(Front(stack[t]), x) ELSE stack[t]
            y == IF i = Len(pool) THEN x ELSE Top(t)
<1>0. PICK w : w = W
    OBVIOUS
<1>1. /\ Busy(t) /\ Top(t).op = "runThreads" /\ Top(t).at = "start"
      /\ pool' = [pool EXCEPT ![i] = w]
      /\ stack' = [(IF i = Len(pool) THEN Moved(t, "unlock") ELSE stack) EXCEPT ![w] = <<Running>>]
      /\ gone' = gone /\ guard' = guard /\ wanted' = wanted
    BY <1>0 DEF Start, At, io
<1>2. /\ Top(t) \in Frame /\ Legal(Top(t)) /\ Locking(Top(t)) /\ Starting(Top(t)) /\ ~Halting(Top(t)) /\ ~Joining(Top(t))
      /\ n \in Depths(t) /\ Top(t) = stack[t][n] /\ n \in Nat /\ n >= 1 /\ Depths(t) = 1..n
  <2>1. /\ Top(t) \in Frame /\ Legal(Top(t)) /\ n \in Depths(t) /\ Top(t) = stack[t][n]
      BY <1>1, Innermost
  <2>2. Locking(Top(t)) /\ Starting(Top(t)) /\ ~Halting(Top(t)) /\ ~Joining(Top(t))
      BY <1>1 DEF Locking, Halting, Joining, Starting
  <2>3. n \in Nat
      BY Frames DEF IInv
  <2>. QED  BY <2>1, <2>2, <2>3 DEF Depths
<1>3. Len(pool) > 0 /\ pool[Len(pool)] = NoThread /\ Len(pool) <= Cardinality(Workers) /\ Len(pool) \in Nat
      /\ DOMAIN pool = 1..Len(pool)
    BY <1>2, LenProperties DEF IInv, Pooled, Typed
<1>4. /\ i \in 1..Len(pool) /\ pool[i] = NoThread /\ \A k \in 1..(i - 1) : pool[k] # NoThread
  <2>. DEFINE P == {j \in 1..Len(pool) : pool[j] = NoThread}
  <2>1. P \in SUBSET Nat /\ Len(pool) \in P
      BY <1>3
  <2>2. PICK m \in P : \A z \in P : m <= z
    <3>. HIDE DEF P
    <3>. QED  BY <2>1, SmallestNumber
  <2>3. \A k \in 1..(m - 1) : k \in 1..Len(pool) /\ ~(m <= k)
      BY <1>3
  <2>4. \E j \in DOMAIN pool : pool[j] = NoThread /\ \A k \in 1..(j - 1) : pool[k] # NoThread
      BY <1>3, <2>2, <2>3
  <2>. QED  BY <1>3, <2>4
<1>5. w \in Workers /\ \A k \in 1..Len(pool) : pool[k] # w
  <2>1. \E v \in Workers : v \notin ToSet(pool)
      BY <1>3, FreeWorker DEF IInv
  <2>2. w \in Workers /\ w \notin ToSet(pool)
      BY <1>0, <2>1
  <2>. QED  BY <1>3, <2>2 DEF ToSet
<1>6. t \in Clients /\ t # w /\ w \in Threads /\ w # NoThread /\ w \notin Clients
  <2>1. t \in Clients
      BY <1>1, <1>2, Positions DEF IInv
  <2>. QED  BY <1>5, <2>1, IOctxtAssumption DEF Threads
<1>7. ~Busy(w)
    BY <1>5 DEF IInv, Pooled
<1>. HIDE DEF i, W
<1>8. x \in Frame /\ x.op = "runThreads" /\ x.at = "unlock" /\ x.n = Top(t).n
    BY <1>1, <1>2, MovedFrame
<1>. HIDE DEF x
<1>9. Legal(x) /\ ~Marked(x) /\ ~Cleared(x, TRUE)
    BY <1>2, <1>1, <1>8 DEF Legal, Cleared, Marked, Halting, Joining, Starting
<1>10. /\ y \in Frame /\ y.op = "runThreads" /\ Legal(y) /\ ~Cleared(y, TRUE) /\ ~Halting(y) /\ ~Joining(y)
       /\ i = Len(pool) => ~Marked(y)
       /\ i # Len(pool) => y = Top(t)
  <2>1. CASE i = Len(pool)
      BY <1>8, <1>9, <2>1 DEF Marked
  <2>2. CASE i # Len(pool)
      BY <1>1, <1>2, <2>2 DEF Cleared
  <2>. QED  BY <2>1, <2>2
<1>11. s \in Seq(Frame) /\ Len(s) = n /\ s[n] = y /\ \A k \in 1..(n - 1) : s[k] = stack[t][k]
  <2>1. CASE i = Len(pool)
    <3>1. stack[t] \in Seq(Frame) /\ stack[t] # <<>>
        BY <1>1 DEF IInv, Typed, Busy
    <3>2. LET r == Append(Front(stack[t]), x)
          IN  /\ r \in Seq(Frame) /\ Len(r) = Len(stack[t]) /\ r[Len(stack[t])] = x
              /\ \A k \in 1..(Len(stack[t]) - 1) : r[k] = stack[t][k]
      <4>. HIDE DEF Frame
      <4>. QED  BY <1>8, <3>1, TopReplaced
    <3>. QED  BY <2>1, <3>2
  <2>2. CASE i # Len(pool)
      BY <1>2, <2>2 DEF IInv, Typed
  <2>. QED  BY <2>1, <2>2
<1>12. Running \in Frame /\ Running.op = "run" /\ Running.at = "enter"
    BY CalledFrames
<1>. DEFINE r == <<Running>>
<1>13. r \in Seq(Frame) /\ Len(r) = 1 /\ r[1] = Running /\ r # <<>>
  <2>. HIDE DEF Frame
  <2>. QED  BY <1>12
<1>14. /\ stack' \in [Threads -> Seq(Frame)] /\ stack'[t] = s /\ stack'[w] = r
       /\ \A u \in Threads \ {t, w} : stack'[u] = stack[u]
  <2>1. CASE i = Len(pool)
    <3>1. stack' = [Moved(t, "unlock") EXCEPT ![w] = r]
        BY <1>1, <2>1
    <3>2. Moved(t, "unlock") = [stack EXCEPT ![t] = s]
        BY <2>1 DEF Moved, x
    <3>. HIDE DEF s, r, Frame
    <3>3. stack \in [Threads -> Seq(Frame)]
        BY DEF IInv, Typed
    <3>. QED  BY <1>6, <1>11, <1>13, <3>1, <3>2, <3>3
  <2>2. CASE i # Len(pool)
    <3>1. stack' = [stack EXCEPT ![w] = r] /\ s = stack[t]
        BY <1>1, <2>2
    <3>. HIDE DEF s, r, Frame
    <3>2. stack \in [Threads -> Seq(Frame)]
        BY DEF IInv, Typed
    <3>. QED  BY <1>6, <1>13, <3>1, <3>2
  <2>. QED  BY <2>1, <2>2
<1>. HIDE DEF s, r, y
<1>15. /\ Depths(t)' = Depths(t) /\ Depths(w)' = {1} /\ Len(stack'[t]) = n
       /\ \A u \in Threads \ {t, w} : Depths(u)' = Depths(u)
  <2>1. 1..1 = {1}
      OBVIOUS
  <2>. QED  BY <1>2, <1>11, <1>13, <1>14, <2>1 DEF Depths
<1>16. \A k \in Depths(t) : k # n => stack'[t][k] = stack[t][k]
  <2>1. \A k \in 1..n : k # n => k \in 1..(n - 1)
      BY <1>2
  <2>. HIDE DEF n
  <2>. QED  BY <1>2, <1>11, <1>14, <2>1
<1>17. stack'[t][n] = y /\ stack'[w][1] = Running
    BY <1>11, <1>13, <1>14
<1>17a. n = Len(stack[t])
    OBVIOUS
<1>. HIDE DEF n
\* Each function is Running, y, or as it was.
<1>18. ASSUME NEW u \in Threads, NEW k \in Depths(u)'
       PROVE  \/ u = w /\ k = 1 /\ stack'[u][k] = Running
              \/ u = t /\ k = n /\ stack'[u][k] = y
              \/ /\ u # w /\ ~(u = t /\ k = n) /\ k \in Depths(u) /\ stack'[u][k] = stack[u][k]
                 /\ Len(stack'[u]) = Len(stack[u])
  <2>1. CASE u = w
      BY <1>15, <1>17, <2>1
  <2>2. CASE u = t
      BY <1>6, <1>15, <1>16, <1>17, <1>17a, <2>2
  <2>3. CASE u # w /\ u # t
      BY <1>14, <1>15, <2>3
  <2>. QED  BY <2>1, <2>2, <2>3
<1>19. /\ \A u \in Threads \ {t} : \A k \in Depths(u) : ~Locking(stack[u][k])
       /\ \A u \in Threads : \A k \in Depths(u) : Marked(stack[u][k]) => u = t /\ k = n
    BY <1>1, <1>2, <1>17a, OwnerMarks
<1>20. ~Locking(Running) /\ ~Marked(Running) /\ ~Cleared(Running, TRUE) /\ Legal(Running) /\ First(w, Running)
    BY <1>5, <1>12 DEF Locking, Marked, Halting, Joining, Starting, Cleared, Legal, First
<1>21. Mutex'
  <2>1. \A u \in Threads : \A k \in Depths(u)' : Locking(stack'[u][k]) => u = t
      BY <1>18, <1>19, <1>20
  <2>. QED  BY <2>1 DEF Mutex
<1>22. \A u \in Clients : Busy(u)' => Busy(u) /\ stack'[u][1].op = stack[u][1].op
  <2>. TAKE u \in Clients
  <2>1. CASE u = t
    <3>1. 1 \in Depths(t)
        BY <1>2
    <3>2. stack'[t][1].op = stack[t][1].op
      <4>1. CASE n = 1
          BY <1>1, <1>2, <1>10, <1>17, <4>1
      <4>2. CASE n # 1
          BY <1>16, <3>1, <4>2
      <4>. QED  BY <4>1, <4>2
    <3>. QED  BY <1>1, <2>1, <3>2
  <2>2. CASE u # t
      BY <1>6, <1>14, <2>2 DEF Busy, Threads
  <2>. QED  BY <2>1, <2>2
<1>23. Alone'
    BY <1>22, AloneStays DEF IInv
<1>24. Shape'
  <2>1. ASSUME NEW u \in Threads, NEW k \in Depths(u)'
        PROVE  Legal(stack'[u][k]) /\ (k = 1 => First(u, stack'[u][k]))
    <3>1. CASE u = w /\ k = 1 /\ stack'[u][k] = Running
        BY <1>20, <3>1
    <3>2. CASE u = t /\ k = n /\ stack'[u][k] = y
        BY <1>1, <1>2, <1>10, <3>2 DEF IInv, Shape, First
    <3>3. CASE k \in Depths(u) /\ stack'[u][k] = stack[u][k]
        BY <3>3 DEF IInv, Shape
    <3>. QED  BY <1>18, <3>1, <3>2, <3>3
  <2>2. ASSUME NEW u \in Threads, NEW j \in Depths(u)', NEW k \in Depths(u)', k = j + 1
        PROVE  Over(stack'[u][j], stack'[u][k]) /\ (stack'[u][j].op = "handler" => program.handlersCall)
    <3>1. CASE u = w
      <4>1. j = 1 /\ k = 1
          BY <1>15, <3>1
      <4>. QED  BY <2>2, <4>1
    <3>2. CASE u = t
      <4>1. j \in 1..n /\ k \in 1..n /\ j # n
          BY <1>2, <1>15, <2>2, <3>2
      <4>2. stack'[t][j] = stack[t][j] /\ Over(stack[t][j], stack[t][k])
            /\ (stack[t][j].op = "handler" => program.handlersCall)
          BY <1>2, <1>16, <2>2, <4>1 DEF IInv, Shape
      <4>3. stack'[t][k].op = stack[t][k].op
        <5>1. CASE k = n
            BY <1>1, <1>2, <1>10, <1>17, <5>1
        <5>2. CASE k # n
            BY <1>2, <1>16, <4>1, <5>2
        <5>. QED  BY <5>1, <5>2
      <4>. QED  BY <3>2, <4>2, <4>3 DEF Over
    <3>3. CASE u # w /\ u # t
        BY <1>14, <1>15, <2>2, <3>3 DEF IInv, Shape
    <3>. QED  BY <3>1, <3>2, <3>3
  <2>. QED  BY <2>1, <2>2 DEF Shape
<1>25. /\ pool' \in Seq(Workers \cup {NoThread}) /\ Len(pool') = Len(pool)
       /\ \A k \in 1..Len(pool) : pool'[k] = IF k = i THEN w ELSE pool[k]
    BY <1>1, <1>4, <1>5, ExceptSeq DEF IInv, Typed
<1>26. Typed'
    BY <1>14, <1>25 DEF IInv, Typed, Start, io
<1>27. Pooled'
  <2>1. \A v \in Workers : Busy(v)' => \E k \in 1..Len(pool) : pool'[k] = v
    <3>. TAKE v \in Workers
    <3>1. CASE v = w
        BY <1>4, <1>25, <3>1
    <3>2. CASE v # w
      <4>1. Busy(v)' => Busy(v)
          BY <1>6, <1>14, <3>2, IOctxtAssumption DEF Busy, Threads
      <4>2. Busy(v) => \E k \in 1..Len(pool) : pool[k] = v
          BY DEF IInv, Pooled
      <4>3. \A k \in 1..Len(pool) : pool[k] = v => k # i
          BY <1>4, IOctxtAssumption
      <4>. QED  BY <1>25, <4>1, <4>2, <4>3
    <3>. QED  BY <3>1, <3>2
  <2>2. pool # <<>>
      BY <1>3
  <2>3. ASSUME NEW u \in Threads, NEW k \in Depths(u)'
        PROVE  /\ ~Cleared(stack'[u][k], k = Len(stack'[u]))
               /\ Starting(stack'[u][k]) => pool'[Len(pool)] = NoThread
               /\ ~Joining(stack'[u][k])
    <3>1. CASE u = w /\ k = 1 /\ stack'[u][k] = Running
        BY <1>20, <3>1 DEF Cleared, Marked
    <3>2. CASE u = t /\ k = n /\ stack'[u][k] = y
      <4>1. ~Cleared(stack'[u][k], k = Len(stack'[u]))
          BY <1>10, <3>2 DEF Cleared
      <4>2. Starting(y) => i # Len(pool)
          BY <1>10 DEF Marked
      <4>3. Len(pool) \in 1..Len(pool)
          BY <1>3
      <4>. QED  BY <1>3, <1>10, <1>25, <3>2, <4>1, <4>2, <4>3
    <3>3. CASE /\ ~(u = t /\ k = n) /\ k \in Depths(u) /\ stack'[u][k] = stack[u][k]
               /\ Len(stack'[u]) = Len(stack[u])
      <4>1. ~Marked(stack[u][k])
          BY <1>19, <3>3
      <4>. QED  BY <2>2, <3>3, <4>1 DEF IInv, Pooled, Marked
    <3>. QED  BY <1>18, <3>1, <3>2, <3>3
  <2>4. ~gone'
      BY <1>1
  <2>. QED  BY <1>3, <1>25, <2>1, <2>3, <2>4 DEF Pooled
<1>28. Kept'
  <2>1. SUFFICES ASSUME Polite PROVE Kept'
      BY DEF Kept, Polite
  <2>2. \A u \in Threads : \A k \in Depths(u) : ~Halting(stack[u][k]) /\ ~Joining(stack[u][k])
      BY <1>2, <1>19 DEF Marked
  <2>3. guard' = ~wanted'
      BY <1>1, <2>1, <2>2 DEF IInv, Kept
  <2>4. \A u \in Threads : \A k \in Depths(u)' : ~Halting(stack'[u][k]) /\ ~Joining(stack'[u][k])
      BY <1>10, <1>18, <1>20, <2>2 DEF Marked
  <2>5. ASSUME NEW k \in 1..Len(pool), pool'[k] = NoThread
        PROVE  (\E u \in Threads : \E j \in Depths(u) : Starting(stack[u][j]))'
    <3>1. k # i /\ pool[k] = NoThread
        BY <1>6, <1>25, <2>5
    <3>2. i # Len(pool)
      <4>1. \A L \in Nat : \A j, h \in 1..L : h # j /\ h \notin 1..(j - 1) => j # L
          OBVIOUS
      <4>. QED  BY <1>3, <1>4, <3>1, <4>1
    <3>3. Starting(y) /\ n \in Depths(t)'
        BY <1>2, <1>10, <1>15, <3>2
    <3>. QED  BY <1>17, <3>3
  <2>. QED  BY <1>25, <2>3, <2>4, <2>5 DEF Kept
<1>. QED  BY <1>21, <1>23, <1>24, <1>26, <1>27, <1>28 DEF IInv

\* Steps that change neither stacks nor the pool.
LEMMA StackStays ==
    ASSUME IInv, UNCHANGED stack, Same, queue' \in 0..MaxQueue, stopped' \in BOOLEAN, aborted' \in BOOLEAN
    PROVE  IInv'
<1>1. \A t \in Threads : stack'[t] = stack[t] /\ Depths(t)' = Depths(t) /\ Busy(t)' = Busy(t)
    BY DEF Depths, Busy
<1>2. Polite' = Polite
    BY DEF Polite, Same
<1>3. Typed'
    BY DEF IInv, Typed, Same
<1>4. Shape' /\ Mutex'
    BY <1>1 DEF IInv, Shape, Mutex, Same
<1>5. Alone'
    BY <1>1 DEF IInv, Alone, Threads
<1>6. Pooled'
    BY <1>1 DEF IInv, Pooled, Threads, Same
<1>7. Kept'
    BY <1>1, <1>2 DEF IInv, Kept, Same
<1>. QED  BY <1>3, <1>4, <1>5, <1>6, <1>7 DEF IInv

\* The program posts a handler.
LEMMA PostStep ==
    ASSUME IInv, NEW t \in Threads, Post(t), program' = program
    PROVE  IInv'
<1>1. queue' \in 0..MaxQueue
  <2>1. queue \in 0..MaxQueue /\ queue < MaxQueue /\ queue' = queue + 1 /\ MaxQueue \in Nat
      BY IOctxtAssumption DEF IInv, Typed, Post
  <2>. QED  BY <2>1
<1>2. UNCHANGED stack /\ Same /\ stopped' \in BOOLEAN /\ aborted' \in BOOLEAN
    BY DEF Post, Same, IInv, Typed
<1>. QED  BY <1>1, <1>2, StackStays

\* The program restarts the context.
LEMMA RestartStep ==
    ASSUME IInv, NEW t \in Threads, Restart(t), program' = program
    PROVE  IInv'
<1>1. UNCHANGED stack /\ Same /\ queue' \in 0..MaxQueue /\ stopped' \in BOOLEAN /\ aborted' \in BOOLEAN
    BY DEF Restart, Same, IInv, Typed
<1>. QED  BY <1>1, StackStays

-----------------------------------------------------------------------------
(* The invariant *)

\* The invariant holds at the start,
LEMMA InitIInv == Init => IInv
<1>. SUFFICES ASSUME Init PROVE IInv
    OBVIOUS
<1>1. \A t \in Threads : stack[t] = <<>> /\ Depths(t) = {} /\ ~Busy(t)
    BY DEF Init, Depths, Busy
<1>2. pool = <<>> /\ Len(pool) = 0 /\ pool \in Seq(Workers \cup {NoThread})
    BY DEF Init
<1>3. 0 <= Cardinality(Workers)
  <2>1. IsFiniteSet(Workers)
      BY IOctxtAssumption, FS_Subset
  <2>2. Cardinality(Workers) \in Nat
      BY <2>1, FS_CardinalityType
  <2>. QED  BY <2>2
<1>4. Typed
  <2>1. stack \in [Threads -> Seq(Frame)]
    <3>. HIDE DEF Frame
    <3>. QED  BY DEF Init
  <2>2. queue \in 0..MaxQueue
      BY IOctxtAssumption DEF Init
  <2>. QED  BY <1>2, <2>1, <2>2 DEF Init, Typed
<1>5. Shape /\ Mutex
    BY <1>1 DEF Shape, Mutex
<1>6. Alone
    BY <1>1 DEF Alone, Threads
<1>7. Pooled
    BY <1>1, <1>2, <1>3 DEF Pooled, Threads
<1>8. Kept
  <2>1. guard = ~wanted
      BY DEF Init
  <2>2. \A k \in 1..Len(pool) : FALSE
      BY <1>2
  <2>. QED  BY <1>1, <2>1, <2>2 DEF Kept
<1>. QED  BY <1>4, <1>5, <1>6, <1>7, <1>8 DEF IInv

\* and every step keeps it.
LEMMA StepIInv == IInv /\ [Next]_vars => IInv'
<1>. SUFFICES ASSUME IInv, [Next]_vars PROVE IInv'
    OBVIOUS
<1>1. CASE UNCHANGED vars
  <2>1. UNCHANGED stack /\ Same /\ queue' \in 0..MaxQueue /\ stopped' \in BOOLEAN /\ aborted' \in BOOLEAN
      BY <1>1 DEF vars, Same, IInv, Typed
  <2>. QED  BY <2>1, StackStays
<1>2. CASE NewCall
  <2>1. program' = program
      BY <1>2 DEF NewCall, Alive
  <2>2. ASSUME NEW t \in Clients, Call(t) \/ CallDestroy(t) \/ Restart(t) PROVE IInv'
    <3>1. t \in Threads
        BY DEF Threads
    <3>. QED  BY <2>1, <2>2, <3>1, CallStep, CallDestroyStep, RestartStep
  <2>3. ASSUME NEW t \in Threads, HandlerCalls(t) \/ Post(t) PROVE IInv'
      BY <2>1, <2>3, HandlerCallsStep, PostStep
  <2>. QED  BY <1>2, <2>2, <2>3 DEF NewCall
<1>3. ASSUME NEW t \in Threads, Step(t) PROVE IInv'
  <2>1. program' = program /\ ~gone
      BY <1>3 DEF Step, Alive
  <2>2. CASE Lock(t) \/ SetIdle(t) \/ StopIdle(t) \/ Halt(t) \/ Join(t) \/ JoinFails(t) \/ Restore(t)
      BY <2>1, <2>2, LockStep, SetIdleStep, StopIdleStep, HaltStep, JoinStep, JoinFailsStep, RestoreStep
  <2>3. CASE RunHere(t) \/ Resize(t) \/ Start(t) \/ StartFails(t) \/ Return(t) \/ Destroyed(t)
      BY <2>1, <2>3, RunHereStep, ResizeStep, StartStep, StartFailsStep, ReturnStep, DestroyedStep
  <2>4. CASE Enter(t) \/ TakeHandler(t) \/ HandlerEnds(t) \/ RunEnds(t)
      BY <2>1, <2>4, EnterStep, TakeHandlerStep, HandlerEndsStep, RunEndsStep
  <2>. QED  BY <1>3, <2>2, <2>3, <2>4 DEF Step
<1>. QED  BY <1>1, <1>2, <1>3 DEF Next

\* So it holds in every reachable state.
THEOREM Invariant == Spec => []IInv
<1>1. Init => IInv
    BY InitIInv
<1>2. IInv /\ [Next]_vars => IInv'
    BY StepIInv
<1>. QED  BY <1>1, <1>2, PTL DEF Spec

-----------------------------------------------------------------------------
(* What follows from it *)

\* The variables have their types, and one thread at most owns mux_, however
\* its functions are nested.
THEOREM TypeCorrect == Spec => []TypeOK
<1>1. IInv => TypeOK
  <2>. SUFFICES ASSUME IInv PROVE TypeOK
      OBVIOUS
  <2>1. ASSUME NEW t \in Threads, NEW u \in Threads, Holds(t), Holds(u) PROVE t = u
    <3>1. \A v \in Threads : Holds(v) => \E i \in Depths(v) : Locking(stack[v][i])
        BY Frames DEF IInv, Holds, Locking
    <3>. QED  BY <2>1, <3>1 DEF IInv, Mutex
  <2>. QED  BY <2>1 DEF IInv, Typed, TypeOK
<1>. QED  BY <1>1, Invariant, PTL

\* No thread of an earlier generation runs when the context is run by runHere(),
\* when runThreads() makes its threads, and when the members are destroyed.
THEOREM OneGenerationAlways == Spec => []OneGeneration
<1>1. IInv => OneGeneration
  <2>. SUFFICES ASSUME IInv, gone \/ \E t \in Threads : \/ InRunHere(t) \/ At(t, "runHere", "run")
                                                         \/ At(t, "runThreads", "resize")
                PROVE  \A w \in Workers : ~Busy(w)
      BY DEF OneGeneration
  <2>1. ASSUME NEW t \in Threads, InRunHere(t) PROVE pool = <<>>
    <3>1. PICK i \in Depths(t) : stack[t][i].op = "runHere" /\ stack[t][i].at = "unlock"
        BY <2>1, Frames DEF IInv, InRunHere
    <3>2. Cleared(stack[t][i], i = Len(stack[t]))
        BY <3>1 DEF Cleared
    <3>. QED  BY <3>2 DEF IInv, Pooled
  <2>2. ASSUME NEW t \in Threads, At(t, "runHere", "run") \/ At(t, "runThreads", "resize") PROVE pool = <<>>
      BY <2>2, Innermost DEF At, Cleared
  <2>3. pool = <<>>
      BY <2>1, <2>2 DEF IInv, Pooled
  <2>4. Len(pool) = 0
      BY <2>3
  <2>. QED  BY <2>4 DEF IInv, Pooled
<1>. QED  BY <1>1, Invariant, PTL

\* In a program that can make threads, and whose handlers do not call the wrapper, the
\* work guard is what it asked for, unless a stop() is under way: that remembers what
\* to put back.
THEOREM GuardRestored == Spec => []GuardKept
<1>1. IInv => GuardKept
  <2>. SUFFICES ASSUME IInv, Polite, guard # ~wanted
                PROVE  \E t \in Threads : InStop(t, "halt") \/ InStop(t, "join")
      BY DEF GuardKept
  <2>1. PICK t \in Threads : \E i \in Depths(t) : Halting(stack[t][i]) \/ Joining(stack[t][i])
      BY DEF IInv, Kept
  <2>2. PICK i \in Depths(t) : Halting(stack[t][i]) \/ Joining(stack[t][i])
      BY <2>1
  <2>3. i \in DOMAIN stack[t]
      BY <2>2, Frames DEF IInv
  <2>. QED  BY <2>2, <2>3 DEF InStop, Halting, Joining
<1>. QED  BY <1>1, Invariant, PTL
=============================================================================
