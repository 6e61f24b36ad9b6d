----------------------------- MODULE Singleton ------------------------------
(***************************************************************************)
(* Fs2a::Singleton<T> (hdr/fs2a/Singleton.hpp), for several classes T at   *)
(* once: each has an instance pointer and a mutex, held while T's          *)
(* constructor or destructor runs.  Those may use other singletons (most   *)
(* log, and Logger is one), and every construction registers close() with  *)
(* atexit(), so that exit() destroys what it finds in reverse order.       *)
(***************************************************************************)
EXTENDS Naturals, SequencesExt

CONSTANTS Threads, Classes,
          CtorUses, DtorUses,  \* the singletons T's constructor, destructor asks for
          Programs,            \* the kinds of program that are modelled
          MaxMade,             \* bound: the program makes no call once a class has
                               \* been constructed this often
          NoThread

ASSUME SingletonAssumption ==
    /\ CtorUses \in [Classes -> SUBSET Classes] /\ DtorUses \in [Classes -> SUBSET Classes]
    /\ Programs \subseteq [closes : BOOLEAN, joins : BOOLEAN]
    /\ MaxMade \in Nat /\ NoThread \notin Threads

VARIABLES instance,   \* instance[c]: instance_a, 0 for nullptr, n for the n-th object
          mux,        \* mux[c]: the thread that holds mux_a
          stack,      \* stack[t]: the member functions t is in, innermost last
          alive,      \* objects constructed and not destroyed
          made,       \* made[c]: how many objects of c were constructed
          handlers,   \* what atexit() has registered, last registration last
          exiter,     \* the thread that called exit()
          over,       \* exit() has run the last handler: the process ends
          program     \* does the program call close() itself, and does it join
                      \* its threads before it calls exit()?

vars == <<instance, mux, stack, alive, made, handlers, exiter, over, program>>

Objects == Classes \X Nat

\* A call: of which function of Singleton<c>, where it is, and which singletons
\* the constructor or destructor it runs has not asked for yet.
Frame == [c : Classes, op : {"instance", "close", "is_constructed"},
          at : {"lock", "test", "ctor", "register", "dtor", "unlock"},
          todo : SUBSET Classes]

Calling(op, c) == [c |-> c, op |-> op, at |-> "lock", todo |-> {}]

Busy(t)  == stack[t] # <<>>
Top(t)   == Last(stack[t])
At(t, l) == Busy(t) /\ Top(t).at = l
GoTo(t, l, uses) == stack' = [stack EXCEPT ![t] = Append(Front(@), [Top(t) EXCEPT !.at = l, !.todo = uses])]

-----------------------------------------------------------------------------
Init == /\ instance = [c \in Classes |-> 0]
        /\ mux = [c \in Classes |-> NoThread]
        /\ stack = [t \in Threads |-> <<>>]
        /\ alive = {}
        /\ made = [c \in Classes |-> 0]
        /\ handlers = <<>>
        /\ exiter = NoThread
        /\ over = FALSE
        /\ program \in Programs

\* The program calls a function of Singleton<c>.
Call(t, c, op) ==
    /\ ~Busy(t) /\ t # exiter /\ ~over
    /\ program.joins => exiter = NoThread
    /\ op = "close" => program.closes
    /\ \A d \in Classes : made[d] < MaxMade
    /\ stack' = [stack EXCEPT ![t] = <<Calling(op, c)>>]
    /\ UNCHANGED <<instance, mux, alive, made, handlers, exiter, over>>

\* Mutant of Lock: no guard.
LockNot(t) == /\ At(t, "lock")
              /\ mux' = [mux EXCEPT ![Top(t).c] = t]
              /\ GoTo(t, "test", {})
              /\ UNCHANGED <<instance, alive, made, handlers, exiter, over>>

\* GRD(mux_a)
Lock(t) == /\ At(t, "lock")
           /\ mux[Top(t).c] = NoThread
           /\ mux' = [mux EXCEPT ![Top(t).c] = t]
           /\ GoTo(t, "test", {})
           /\ UNCHANGED <<instance, alive, made, handlers, exiter, over>>

\* The test of instance_a each of them begins with.
Test(t) ==
    /\ At(t, "test")
    /\ LET c == Top(t).c
       IN  CASE Top(t).op = "instance" /\ instance[c] = 0 -> GoTo(t, "ctor", CtorUses[c])
             [] Top(t).op = "close" /\ instance[c] # 0    -> GoTo(t, "dtor", DtorUses[c])
             [] OTHER                                     -> GoTo(t, "unlock", {})
    /\ UNCHANGED <<instance, mux, alive, made, handlers, exiter, over>>

\* T's constructor or destructor asks for another singleton.
Use(t) == /\ At(t, "ctor") \/ At(t, "dtor")
          /\ \E d \in Top(t).todo :
                stack' = [stack EXCEPT ![t] = Front(@) \o <<[Top(t) EXCEPT !.todo = @ \ {d}],
                                                            Calling("instance", d)>>]
          /\ UNCHANGED <<instance, mux, alive, made, handlers, exiter, over>>

\* instance_a = new T()
Construct(t) ==
    /\ At(t, "ctor") /\ Top(t).todo = {}
    /\ LET c == Top(t).c
       IN  /\ made' = [made EXCEPT ![c] = @ + 1]
           /\ instance' = [instance EXCEPT ![c] = made[c] + 1]
           /\ alive' = alive \cup {<<c, made[c] + 1>>}
    /\ GoTo(t, "register", {})
    /\ UNCHANGED <<mux, handlers, exiter, over>>

\* Mutant of ConstructFails: the guard is not released.
ConstructFailsLocked(t) ==
    /\ At(t, "ctor") /\ Top(t).todo = {}
    /\ \A i \in DOMAIN stack[t] : stack[t][i].op = "instance"
    /\ stack' = [stack EXCEPT ![t] = <<>>]
    /\ UNCHANGED <<instance, mux, alive, made, handlers, exiter, over>>

\* new T() throws, and the exception leaves every call t is in; the guards
\* release their mutexes.  (Inside a destructor it would end the program.)
ConstructFails(t) ==
    /\ At(t, "ctor") /\ Top(t).todo = {}
    /\ \A i \in DOMAIN stack[t] : stack[t][i].op = "instance"
    /\ stack' = [stack EXCEPT ![t] = <<>>]
    /\ mux' = [c \in Classes |-> IF mux[c] = t THEN NoThread ELSE mux[c]]
    /\ UNCHANGED <<instance, alive, made, handlers, exiter, over>>

\* Mutants of Register: for the first object of a class only; as if atexit()
\* had been called before new T().
RegisterOnce(t) ==
    /\ At(t, "register")
    /\ handlers' = IF made[Top(t).c] > 1 THEN handlers ELSE Append(handlers, Top(t).c)
    /\ GoTo(t, "unlock", {})
    /\ UNCHANGED <<instance, mux, alive, made, exiter, over>>

RegisterEarly(t) ==
    /\ At(t, "register")
    /\ handlers' = SelectSeq(handlers, LAMBDA d : d \notin CtorUses[Top(t).c])
                   \o <<Top(t).c>> \o SelectSeq(handlers, LAMBDA d : d \in CtorUses[Top(t).c])
    /\ GoTo(t, "unlock", {})
    /\ UNCHANGED <<instance, mux, alive, made, exiter, over>>

\* atexit(Singleton<T>::close)
Register(t) ==
    /\ At(t, "register")
    /\ handlers' = Append(handlers, Top(t).c)
    /\ GoTo(t, "unlock", {})
    /\ UNCHANGED <<instance, mux, alive, made, exiter, over>>

\* delete instance_a; instance_a = nullptr
Destroy(t) ==
    /\ At(t, "dtor") /\ Top(t).todo = {}
    /\ alive' = alive \ {<<Top(t).c, instance[Top(t).c]>>}
    /\ instance' = [instance EXCEPT ![Top(t).c] = 0]
    /\ GoTo(t, "unlock", {})
    /\ UNCHANGED <<mux, made, handlers, exiter, over>>

\* The return value, the object instance_a points to, is read and the guard's
\* scope ends.
Return(t) ==
    /\ At(t, "unlock")
    /\ mux' = [mux EXCEPT ![Top(t).c] = NoThread]
    /\ stack' = [stack EXCEPT ![t] = Front(@)]
    /\ UNCHANGED <<instance, alive, made, handlers, exiter, over>>

-----------------------------------------------------------------------------
(* exit(), as glibc does it: handlers run last first, on the thread that    *)
(* called it, those that are registered meanwhile included.                 *)

Exit(t) == /\ ~Busy(t) /\ exiter = NoThread
           /\ program.joins => \A u \in Threads : ~Busy(u)
           /\ exiter' = t
           /\ UNCHANGED <<instance, mux, stack, alive, made, handlers, over>>

RunHandler(t) ==
    /\ t = exiter /\ ~Busy(t) /\ handlers # <<>>
    /\ handlers' = Front(handlers)
    /\ stack' = [stack EXCEPT ![t] = <<Calling("close", Last(handlers))>>]
    /\ UNCHANGED <<instance, mux, alive, made, exiter, over>>

End(t) == /\ t = exiter /\ ~Busy(t) /\ handlers = <<>> /\ ~over
          /\ over' = TRUE
          /\ UNCHANGED <<instance, mux, stack, alive, made, handlers, exiter>>

Ended == over /\ UNCHANGED vars

Step(t) == /\ ~over /\ program' = program
           /\ \/ Lock(t) \/ Test(t) \/ Use(t) \/ Construct(t) \/ ConstructFails(t)
              \/ Register(t) \/ Destroy(t) \/ Return(t) \/ RunHandler(t)

NewCall == /\ program' = program
           /\ \E t \in Threads, c \in Classes :
                 \/ Call(t, c, "instance") \/ Call(t, c, "close") \/ Call(t, c, "is_constructed")

Leave(t) == program' = program /\ (Exit(t) \/ End(t))

Next == NewCall \/ (\E t \in Threads : Step(t) \/ Leave(t)) \/ Ended

Spec == Init /\ [][Next]_vars

\* A thread inside a call or running handlers goes on; constructors return.
FairSpec == Spec /\ \A t \in Threads : WF_vars(Step(t))

-----------------------------------------------------------------------------
(* Properties *)

\* Types, and the lock discipline: mux_a is held by whom its guard is in scope.
TypeOK == /\ instance \in [Classes -> Nat] /\ made \in [Classes -> Nat]
          /\ mux \in [Classes -> Threads \cup {NoThread}]
          /\ stack \in [Threads -> Seq(Frame)]
          /\ alive \subseteq Objects
          /\ handlers \in Seq(Classes)
          /\ exiter \in Threads \cup {NoThread} /\ over \in BOOLEAN /\ program \in Programs
          /\ \A c \in Classes, t \in Threads :
                mux[c] = t <=> \E i \in DOMAIN stack[t] : stack[t][i].c = c /\ stack[t][i].at # "lock"

\* What there is of a class is the object its pointer points to, and instance()
\* has one to return: two threads asking at once never get two, and a close()
\* racing an instance() neither loses one nor leaves a pointer to a destroyed one.
OneInstance ==
    /\ alive = {<<c, instance[c]>> : c \in {d \in Classes : instance[d] # 0}}
    /\ \A t \in Threads : At(t, "unlock") /\ Top(t).op = "instance" => instance[Top(t).c] # 0

\* Every object is destroyed when the process ends, one constructed while exit()
\* runs included; only a construction that exit() overtakes is left.
NoneLeft ==
    over => \A c \in Classes : instance[c] # 0 =>
               \E t \in Threads : \E i \in DOMAIN stack[t] : stack[t][i].c = c /\ stack[t][i].at = "register"

\* A destructor finds the singletons its constructor used still there at exit:
\* the order of registration makes exit() destroy the user before the used.
\* (For programs that join their threads first and do not call close().)
ExitConstructsNothing ==
    [][exiter # NoThread /\ program.joins /\ ~program.closes => made' = made]_vars

\* When the program makes no more calls, all return and exit() comes to its end:
\* neither a throwing constructor nor nested construction blocks a mutex.
CallsReturn ==
    <>[][~NewCall]_vars => <>[](over \/ \A t \in Threads : ~Busy(t))
=============================================================================
