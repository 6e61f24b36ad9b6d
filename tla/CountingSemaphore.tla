------------------------- MODULE CountingSemaphore -------------------------
(***************************************************************************)
(* What Fs2a::Semaphore promises its callers: a counter of permits in      *)
(* which every call takes effect at ONE moment between its invocation and  *)
(* its return, with the documented outcome.  No lock, no condition         *)
(* variable and no sleeping thread appears here; Semaphore.tla, which has  *)
(* all three, is shown to implement this module.                           *)
(***************************************************************************)
EXTENDS Naturals

CONSTANTS Threads,     \* the threads that share the semaphore
          Modulus,     \* the counter wraps at this value (2^16 in the code)
          InitCounts   \* the counts the semaphore may be constructed with

Operations == {"dec", "inc", "try_dec", "count"}

Outcome(how, value) == [how |-> how, value |-> value]
NoOutcome == Outcome("none", 0)
Outcomes  == [how : {"none", "done", "refused", "thrown"}, value : 0..(Modulus - 1)]

VARIABLES permits,     \* the permits available
          closing,     \* the destructor has begun
          request,     \* request[t]: the operation t is executing, or "none"
          result       \* result[t]: how the last call of t ended

absVars == <<permits, closing, request, result>>

AbsTypeOK == /\ permits \in 0..(Modulus - 1)
             /\ closing \in BOOLEAN
             /\ request \in [Threads -> Operations \cup {"none"}]
             /\ result \in [Threads -> Outcomes]

AbsInit == /\ permits \in InitCounts
           /\ closing = FALSE
           /\ request = [t \in Threads |-> "none"]
           /\ result = [t \in Threads |-> NoOutcome]

Request(t, o) == /\ request[t] = "none"
                 /\ request' = [request EXCEPT ![t] = o]
                 /\ result' = [result EXCEPT ![t] = NoOutcome]
                 /\ UNCHANGED <<permits, closing>>

\* The call of t ends with the given outcome.
Reply(t, out) == /\ request' = [request EXCEPT ![t] = "none"]
                 /\ result' = [result EXCEPT ![t] = out]
                 /\ UNCHANGED closing

\* A permit is taken only when there is one.
Acquire(t) == /\ request[t] \in {"dec", "try_dec"}
              /\ permits > 0
              /\ permits' = permits - 1
              /\ Reply(t, Outcome("done", 0))

\* try_dec() fails only when there is none.
Refuse(t) == /\ request[t] = "try_dec"
             /\ permits = 0
             /\ Reply(t, Outcome("refused", 0))
             /\ UNCHANGED permits

Release(t) == /\ request[t] = "inc"
              /\ permits' = (permits + 1) % Modulus
              /\ Reply(t, Outcome("done", 0))

\* count() returns the permits of one moment of the call.
Observe(t) == /\ request[t] = "count"
              /\ Reply(t, Outcome("done", permits))
              /\ UNCHANGED permits

\* A call fails with an exception only once the destructor has begun.
Throw(t) == /\ request[t] # "none"
            /\ closing
            /\ Reply(t, Outcome("thrown", 0))
            /\ UNCHANGED permits

Close == /\ closing' = TRUE
         /\ UNCHANGED <<permits, request, result>>

AbsNext == \/ \E t \in Threads :
                 \/ \E o \in Operations : Request(t, o)
                 \/ Acquire(t) \/ Refuse(t) \/ Release(t) \/ Observe(t) \/ Throw(t)
           \/ Close

AbsSpec == AbsInit /\ [][AbsNext]_absVars
=============================================================================
