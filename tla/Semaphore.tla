----------------------------- MODULE Semaphore -----------------------------
(***************************************************************************)
(* Fs2a::Semaphore (src/Semaphore.cpp): a uint16_t counter, an atomic      *)
(* destruction flag, a mutex and a condition variable.                     *)
(*                                                                         *)
(* A thread executes one member function at a time, one atomic step per    *)
(* program counter value.  A step is cut where another thread, or the      *)
(* destructor (which does NOT take the mutex), can come in between: after  *)
(* the unlocked test of the flag, before the mutex is acquired, between    *)
(* the predicate of dec()'s wait loop and the wait itself, and between the *)
(* loop and the decrement.                                                 *)
(***************************************************************************)
EXTENDS Naturals, FiniteSets

CONSTANTS Threads,     \* the threads that share the semaphore
          NoThread,    \* the owner of a free mutex
          Modulus,     \* number of values of count_a: 2^16 in the code
          InitCounts   \* the arguments the constructor is called with

ASSUME SemaphoreAssumption == /\ IsFiniteSet(Threads)
                              /\ NoThread \notin Threads
                              /\ Modulus \in Nat \ {0}
                              /\ InitCounts \subseteq 0..(Modulus - 1)

VARIABLES count,       \* count_a
          dtor,        \* progress of ~Semaphore()
          owner,       \* the thread that holds mux_a, or NoThread
          pc,          \* pc[t]: where t is inside the member function
          op,          \* op[t]: the member function t executes, or "none"
          ret          \* ret[t]: how the last call of t ended

vars == <<count, dtor, owner, pc, op, ret>>

\* destructing_a, set by the first statement of the destructor
Destructing == dtor # "alive"

\* The refinement mapping: what a caller of the class sees of its state.
INSTANCE CountingSemaphore WITH permits <- count, closing <- Destructing,
                                request <- op, result <- ret

\* The threads blocked in convar_a.wait(): they hold no lock and cannot move.
Asleep == {t \in Threads : pc[t] = "asleep"}

\* The threads in dec() that will (again) look at the counter before sleeping.
Claimants == {t \in Threads : pc[t] \in {"relock", "test", "take"}}

\* Program counter values at which a thread holds mux_a
Critical == {"test", "wait", "take", "body"}

-----------------------------------------------------------------------------
Init == /\ count \in InitCounts
        /\ dtor = "alive"
        /\ owner = NoThread
        /\ pc = [t \in Threads |-> "idle"]
        /\ op = [t \in Threads |-> "none"]
        /\ ret = [t \in Threads |-> NoOutcome]

\* t leaves the member function, releasing the mutex if it holds it.
Return(t, out) == /\ pc' = [pc EXCEPT ![t] = "idle"]
                  /\ op' = [op EXCEPT ![t] = "none"]
                  /\ ret' = [ret EXCEPT ![t] = out]
                  /\ owner' = IF owner = t THEN NoThread ELSE owner
                  /\ UNCHANGED dtor

Call(t, o) == /\ pc[t] = "idle"
              /\ pc' = [pc EXCEPT ![t] = "check"]
              /\ op' = [op EXCEPT ![t] = o]
              /\ ret' = [ret EXCEPT ![t] = NoOutcome]
              /\ UNCHANGED <<count, dtor, owner>>

\* if (destructing_a) throw: read before the mutex is taken
CheckFlag(t) == /\ pc[t] = "check"
                /\ \/ /\ Destructing
                      /\ Return(t, Outcome("thrown", 0))
                   \/ /\ ~Destructing
                      /\ pc' = [pc EXCEPT ![t] = "lock"]
                      /\ UNCHANGED <<dtor, owner, op, ret>>
                /\ UNCHANGED count

\* Mutant of Lock: "if" instead of "while" around the wait.
LockAfterWaitTakes(t) ==
    /\ pc[t] \in {"lock", "relock"}
    /\ owner = NoThread
    /\ owner' = t
    /\ pc' = [pc EXCEPT ![t] = IF pc[t] = "relock" THEN "take"
                               ELSE IF op[t] = "dec" THEN "test" ELSE "body"]
    /\ UNCHANGED <<count, dtor, op, ret>>

\* unique_lock's constructor, and the reacquisition inside wait()
Lock(t) == /\ pc[t] \in {"lock", "relock"}
           /\ owner = NoThread
           /\ owner' = t
           /\ pc' = [pc EXCEPT ![t] = IF op[t] = "dec" THEN "test" ELSE "body"]
           /\ UNCHANGED <<count, dtor, op, ret>>

\* while (destructing_a == false && count_a == 0)
DecTest(t) == /\ pc[t] = "test"
              /\ pc' = [pc EXCEPT ![t] = IF ~Destructing /\ count = 0 THEN "wait" ELSE "take"]
              /\ UNCHANGED <<count, dtor, owner, op, ret>>

\* convar_a.wait(lck): unlock and fall asleep, atomically
DecWait(t) == /\ pc[t] = "wait"
              /\ pc' = [pc EXCEPT ![t] = "asleep"]
              /\ owner' = NoThread
              /\ UNCHANGED <<count, dtor, op, ret>>

\* The second test of the flag, then count_a--
DecTake(t) == /\ pc[t] = "take"
              /\ \/ /\ Destructing
                    /\ Return(t, Outcome("thrown", 0))
                    /\ UNCHANGED count
                 \/ /\ ~Destructing
                    /\ count' = (count + Modulus - 1) % Modulus
                    /\ Return(t, Outcome("done", 0))

\* t leaves inc() with the new count; notify_one(), if called, wakes any one
\* of the sleepers.
LeaveInc(t, newCount, notify) ==
    /\ pc[t] = "body" /\ op[t] = "inc"
    /\ count' = newCount
    /\ op' = [op EXCEPT ![t] = "none"]
    /\ ret' = [ret EXCEPT ![t] = Outcome("done", 0)]
    /\ owner' = NoThread
    /\ \/ /\ ~notify \/ Asleep = {}
          /\ pc' = [pc EXCEPT ![t] = "idle"]
       \/ /\ notify
          /\ \E s \in Asleep : pc' = [pc EXCEPT ![t] = "idle", ![s] = "relock"]
    /\ UNCHANGED dtor

\* Mutants of IncBody: no wrap-around; notify only when the count was zero.
IncUnbounded(t) == LeaveInc(t, count + 1, TRUE)
IncNotifiesFromZero(t) == LeaveInc(t, (count + 1) % Modulus, count = 0)

\* count_a++; notify_one(); unlock.  The mutex is held over the three, and a
\* notify_all of the destructor in between wakes whom notify_one would have.
IncBody(t) == LeaveInc(t, (count + 1) % Modulus, TRUE)

TryDecBody(t) == /\ pc[t] = "body" /\ op[t] = "try_dec"
                 /\ \/ /\ count = 0
                       /\ Return(t, Outcome("refused", 0))
                       /\ UNCHANGED count
                    \/ /\ count # 0
                       /\ count' = (count + Modulus - 1) % Modulus
                       /\ Return(t, Outcome("done", 0))

CountBody(t) == /\ pc[t] = "body" /\ op[t] = "count"
                /\ Return(t, Outcome("done", count))
                /\ UNCHANGED count

\* C++ lets wait() return without a notification.
SpuriousWake(t) == /\ pc[t] = "asleep"
                   /\ pc' = [pc EXCEPT ![t] = "relock"]
                   /\ UNCHANGED <<count, dtor, owner, op, ret>>

-----------------------------------------------------------------------------
\* ~Semaphore(): destructing_a = true ...
SetFlag == /\ dtor = "alive"
           /\ dtor' = "flagged"
           /\ UNCHANGED <<count, owner, pc, op, ret>>

\* Mutant of NotifyAll: notify_one().
NotifyOnlyOne == /\ dtor = "flagged"
                 /\ dtor' = "notified"
                 /\ \/ Asleep = {} /\ UNCHANGED pc
                    \/ \E s \in Asleep : pc' = [pc EXCEPT ![s] = "relock"]
                 /\ UNCHANGED <<count, owner, op, ret>>

\* ... and convar_a.notify_all(), without the mutex.
NotifyAll == /\ dtor = "flagged"
             /\ dtor' = "notified"
             /\ pc' = [t \in Threads |-> IF t \in Asleep THEN "relock" ELSE pc[t]]
             /\ UNCHANGED <<count, owner, op, ret>>

-----------------------------------------------------------------------------
\* A step of t inside a member function; the scheduler owes t these.
Step(t) == \/ CheckFlag(t) \/ Lock(t)
           \/ DecTest(t) \/ DecWait(t) \/ DecTake(t)
           \/ IncBody(t) \/ TryDecBody(t) \/ CountBody(t)

Next == \/ \E t \in Threads : \/ \E o \in Operations : Call(t, o)
                              \/ Step(t)
                              \/ SpuriousWake(t)
        \/ SetFlag
        \/ NotifyAll

Spec == Init /\ [][Next]_vars

\* A thread that can run does run; the destructor, once begun, goes on.
\* Nobody is obliged to call, to destroy, or to wake spuriously, and mux_a
\* is only weakly fair: std::mutex promises no more.
Fairness == /\ \A t \in Threads : WF_vars(Step(t))
            /\ WF_vars(NotifyAll)

FairSpec == Spec /\ Fairness
-----------------------------------------------------------------------------
(* Properties *)

\* Every variable has its type.
TypeOK == /\ count \in 0..(Modulus - 1)
          /\ dtor \in {"alive", "flagged", "notified"}
          /\ owner \in Threads \cup {NoThread}
          /\ pc \in [Threads -> Critical \cup {"idle", "check", "lock", "relock", "asleep"}]
          /\ op \in [Threads -> Operations \cup {"none"}]
          /\ ret \in [Threads -> Outcomes]

\* No lost wakeup: while a thread sleeps in dec(), every permit in the counter
\* has a thread of its own that is on its way to look at the counter.  So a
\* permit is never left in the counter while the thread that waits for it
\* sleeps, whatever inc(), try_dec(), new dec() calls and spurious wakeups
\* come in between.
NoStrandedPermit ==
    ~Destructing /\ Asleep # {} => count <= Cardinality(Claimants)

\* If the calls stop, the threads left blocked in dec() are blocked for good
\* reason: either the counter is empty or nobody sleeps.
SleepersNeedPermits ==
    <>[][\A t \in Threads, o \in Operations : ~Call(t, o)]_vars
        => <>[](Asleep = {} \/ count = 0 \/ Destructing)

\* The destructor ends the calls it finds blocked: a thread asleep in dec()
\* when the flag is set leaves dec() (with the exception).
DestructionEndsWaits ==
    \A t \in Threads :
        (dtor = "flagged" /\ pc[t] = "asleep") ~> (pc[t] = "idle" /\ ret[t].how = "thrown")

-----------------------------------------------------------------------------
(* What the header and the messages of the exceptions say, and the code does *)
(* not do.                                                                   *)

\* Once the destructor has notified, nobody sleeps on its condition variable
\* any more: dec() is to fail with "Semaphore is being destroyed while
\* decreasing counter".
NobodySleepsAfterDestruction == dtor = "notified" => Asleep = {}
=============================================================================
