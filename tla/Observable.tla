----------------------------- MODULE Observable -----------------------------
(***************************************************************************)
(* Fs2a::Observable<T> and Fs2a::Observer<T> (hdr/fs2a/Observable.hpp,     *)
(* hdr/fs2a/Observer.hpp): a value, and a list of weak pointers to the     *)
(* observers that want to know when it changes.                            *)
(*                                                                         *)
(* set() changes the value and copies the list under mux_, unlocks, and    *)
(* calls the observers one by one, handing each a REFERENCE to value_.     *)
(* Between two calls anything may happen: other threads set, register,     *)
(* deregister and drop observers, and so may the callbacks themselves,     *)
(* which run on the stack of the set() that called them.  Every call waits *)
(* for mux_ at its beginning, and a set() that met an expired pointer once *)
(* more at its end.                                                        *)
(***************************************************************************)
EXTENDS Naturals, SequencesExt, FiniteSetsExt

CONSTANTS Threads, Observers, Values,
          Transient,             \* the observers that the program may deregister or drop
          MaxSets,               \* bound on the set() calls under way, nested, on
                                 \* several threads, or waiting to begin
          NoThread, NoObserver

ASSUME ObservableAssumption == /\ MaxSets \in Nat \ {0}
                               /\ Transient \subseteq Observers
                               /\ NoThread \notin Threads
                               /\ NoObserver \notin Observers

VARIABLES value,      \* value_
          observers,  \* observers_
          owner,      \* the thread that holds mux_
          stack,      \* stack[t]: the set() calls t is in, innermost last
          asks,       \* asks[t]: the call t has made and waits for mux_ in
          owned,      \* the observers some shared_ptr of the program keeps alive
          seen,       \* seen[o]: the value o was last told
          owed        \* history: registered at the last change, and ever since

vars == <<value, observers, owner, stack, asks, owned, seen, owed>>

\* A call of set(value_i): where it is, the rest of its copy of the list,
\* whether it met an expired pointer, the observer it is calling (kept alive by
\* spo) and whether that one has read the value yet.
Frame == [value_i : Values, at : {"locked", "loop"}, todo : Seq(Observers), found : BOOLEAN,
          now : Observers \cup {NoObserver}, told : BOOLEAN]

NoCall   == [op |-> "none"]
OnList   == [op : {"add"}, o : Observers] \cup [op : {"remove"}, o : Transient]
Setting  == [op : {"set"}, value_i : Values]

\* weak_ptr::lock() succeeds: a shared_ptr of the program, spo of a set(), or psp of
\* a call that waits for mux_ keeps o alive.
Calling(t, o) == \E i \in DOMAIN stack[t] : stack[t][i].now = o
Asking(t, o)  == asks[t] \in OnList /\ asks[t].o = o
Alive(o) == o \in owned \/ \E t \in Threads : Calling(t, o) \/ Asking(t, o)
Expired == {o \in Observers : ~Alive(o)}

Busy(t) == stack[t] # <<>>
Top(t)  == Last(stack[t])
SetTop(t, f) == stack' = [stack EXCEPT ![t] = [@ EXCEPT ![Len(@)] = f]]
\* How many set() calls are under way, on all threads, or about to begin.
Sets == FoldFunction(LAMBDA s, n : Len(s) + n, 0, stack) + Cardinality({t \in Threads : asks[t] \in Setting})
InCallback(t) == Busy(t) /\ Top(t).now # NoObserver

\* t runs code of the program: outside the class, or in a callback.
Running(t) == asks[t] = NoCall /\ (~Busy(t) \/ InCallback(t))

-----------------------------------------------------------------------------
Init == /\ value \in Values
        /\ observers = <<>>
        /\ owner = NoThread
        /\ stack = [t \in Threads |-> <<>>]
        /\ asks = [t \in Threads |-> NoCall]
        /\ owned = Observers
        /\ seen = [o \in Observers |-> value]
        /\ owed = {}

\* s without the elements of X
Erased(s, X) ==
    LET kept[i \in 0..Len(s)] == IF i = 0 THEN <<>>
                                 ELSE IF s[i] \in X THEN kept[i - 1] ELSE Append(kept[i - 1], s[i])
    IN  kept[Len(s)]

\* add/removeObserver() walk the list up to the observer they look for and
\* erase the expired pointers on the way.
Swept(o) ==
    IF \E i \in 1..Len(observers) : observers[i] = o
    THEN LET i == CHOOSE i \in 1..Len(observers) : observers[i] = o
         IN  [before |-> Erased(SubSeq(observers, 1, i), Expired \cup {o}),
              after |-> SubSeq(observers, i + 1, Len(observers))]
    ELSE [before |-> Erased(observers, Expired), after |-> <<>>]

\* The program calls one of the three, with an observer that has not expired (or it
\* returns at once) ...
Ask(t, call) == /\ Running(t)
                /\ asks' = [asks EXCEPT ![t] = call]
                /\ UNCHANGED <<value, observers, owner, stack, owned, seen, owed>>

CallOnList(t, call) == Alive(call.o) /\ Ask(t, call)
CallSet(t, call)    == Sets < MaxSets /\ Ask(t, call)

\* ... and the call gets the mutex.
Gets(t, calls) == /\ asks[t] \in calls /\ owner = NoThread
                  /\ asks' = [asks EXCEPT ![t] = NoCall]

\* Mutant of AddObserver: no search for a duplicate.
AddAlways(t) == /\ Gets(t, OnList) /\ asks[t].op = "add"
                /\ observers' = Append(observers, asks[t].o)
                /\ UNCHANGED <<value, owner, stack, owned, seen, owed>>

\* A duplicate stays where it is; a new observer goes to the end.
AddObserver(t) ==
    /\ Gets(t, OnList) /\ asks[t].op = "add"
    /\ observers' = Swept(asks[t].o).before \o <<asks[t].o>> \o Swept(asks[t].o).after
    /\ UNCHANGED <<value, owner, stack, owned, seen, owed>>

RemoveObserver(t) ==
    /\ Gets(t, OnList) /\ asks[t].op = "remove"
    /\ observers' = Swept(asks[t].o).before \o Swept(asks[t].o).after
    /\ owed' = owed \ {asks[t].o}
    /\ UNCHANGED <<value, owner, stack, owned, seen>>

-----------------------------------------------------------------------------
(* set() *)

\* An equal value changes nothing.
SetEqual(t) == /\ Gets(t, Setting) /\ asks[t].value_i = value
               /\ UNCHANGED <<value, observers, owner, stack, owned, seen, owed>>

\* Under the mutex: compare, assign, copy.
Set(t) ==
    /\ Gets(t, Setting) /\ asks[t].value_i # value
    /\ value' = asks[t].value_i
    /\ owner' = t
    /\ stack' = [stack EXCEPT ![t] = Append(@,
           [value_i |-> asks[t].value_i, at |-> "locked", todo |-> observers, found |-> FALSE,
            now |-> NoObserver, told |-> FALSE])]
    /\ owed' = ToSet(observers)
    /\ UNCHANGED <<observers, owned, seen>>

\* Mutant of Unlock: the mutex is held over the callbacks.
KeepLock(t) == /\ Busy(t) /\ Top(t).at = "locked"
               /\ SetTop(t, [Top(t) EXCEPT !.at = "loop"])
               /\ UNCHANGED <<value, observers, owner, asks, owned, seen, owed>>

\* "so we can unlock the mutex for deadlock prevention"
Unlock(t) == /\ Busy(t) /\ Top(t).at = "locked"
             /\ SetTop(t, [Top(t) EXCEPT !.at = "loop"])
             /\ owner' = NoThread
             /\ UNCHANGED <<value, observers, asks, owned, seen, owed>>

AtNext(t) == Busy(t) /\ Top(t).at = "loop" /\ Top(t).now = NoObserver /\ Top(t).todo # <<>>

\* Mutant of Skip: no test of the result of lock().
CallNull(t) == /\ AtNext(t)
               /\ ~Alive(Head(Top(t).todo))
               /\ SetTop(t, [Top(t) EXCEPT !.todo = Tail(@), !.told = TRUE])
               /\ UNCHANGED <<value, observers, owner, asks, owned, seen, owed>>

Skip(t) == /\ AtNext(t)
           /\ ~Alive(Head(Top(t).todo))
           /\ SetTop(t, [Top(t) EXCEPT !.todo = Tail(@), !.found = TRUE])
           /\ UNCHANGED <<value, observers, owner, asks, owned, seen, owed>>

\* spo->observableChanged(value_) begins ...
Notify(t) == /\ AtNext(t)
             /\ Alive(Head(Top(t).todo))
             /\ SetTop(t, [Top(t) EXCEPT !.todo = Tail(@), !.now = Head(Top(t).todo)])
             /\ UNCHANGED <<value, observers, owner, asks, owned, seen, owed>>

\* Mutant of Tell: observableChanged(value_i) instead of (value_).
TellOwnValue(t) == /\ InCallback(t) /\ Running(t) /\ ~Top(t).told
                   /\ seen' = [seen EXCEPT ![Top(t).now] = Top(t).value_i]
                   /\ SetTop(t, [Top(t) EXCEPT !.told = TRUE])
                   /\ UNCHANGED <<value, observers, owner, asks, owned, owed>>

\* ... reads the value through the reference ...
Tell(t) == /\ InCallback(t) /\ Running(t) /\ ~Top(t).told
           /\ seen' = [seen EXCEPT ![Top(t).now] = value]
           /\ SetTop(t, [Top(t) EXCEPT !.told = TRUE])
           /\ UNCHANGED <<value, observers, owner, asks, owned, owed>>

\* ... and returns, dropping the reference that kept the observer alive.
Told(t) == /\ InCallback(t) /\ Running(t) /\ Top(t).told
           /\ SetTop(t, [Top(t) EXCEPT !.now = NoObserver, !.told = FALSE])
           /\ UNCHANGED <<value, observers, owner, asks, owned, seen, owed>>

Return(t) == stack' = [stack EXCEPT ![t] = Front(@)]

AtEnd(t) == Busy(t) /\ Top(t).at = "loop" /\ Top(t).now = NoObserver /\ Top(t).todo = <<>>

\* if (foundExpired): lock again and remove_if expired
Sweep(t) == /\ AtEnd(t) /\ Top(t).found
            /\ owner = NoThread
            /\ observers' = Erased(observers, Expired)
            /\ Return(t)
            /\ UNCHANGED <<value, owner, asks, owned, seen, owed>>

Finish(t) == /\ AtEnd(t) /\ ~Top(t).found
             /\ Return(t)
             /\ UNCHANGED <<value, observers, owner, asks, owned, seen, owed>>

-----------------------------------------------------------------------------
\* The program drops its last shared_ptr to o, on whatever thread.
Drop(o) == /\ o \in owned
           /\ owned' = owned \ {o}
           /\ UNCHANGED <<value, observers, owner, stack, asks, seen, owed>>

Step(t) == \/ AddObserver(t) \/ RemoveObserver(t) \/ SetEqual(t) \/ Set(t) \/ Unlock(t)
           \/ Skip(t) \/ Notify(t) \/ Tell(t) \/ Told(t) \/ Sweep(t) \/ Finish(t)

NewCall == \E t \in Threads : \/ \E call \in OnList : CallOnList(t, call)
                              \/ \E call \in Setting : CallSet(t, call)

Next == \/ NewCall
        \/ \E t \in Threads : Step(t)
        \/ \E o \in Transient : Drop(o)

Spec == Init /\ [][Next]_vars

\* A call goes on, callbacks return, and a mutex that stays free is got.
FairSpec == Spec /\ \A t \in Threads : WF_vars(Step(t))

-----------------------------------------------------------------------------
(* Properties *)

TypeOK == /\ value \in Values
          /\ observers \in Seq(Observers)
          /\ owner \in Threads \cup {NoThread}
          /\ stack \in [Threads -> Seq(Frame)]
          /\ \A t \in Threads : \A i \in DOMAIN stack[t] :
                stack[t][i].told => stack[t][i].now # NoObserver
          /\ asks \in [Threads -> {NoCall} \cup OnList \cup Setting]
          /\ owned \in SUBSET Observers
          /\ seen \in [Observers -> Values]
          /\ owed \in SUBSET Observers

\* An observer is registered at most once, however registrations, expiries and
\* sweeps mix, so it is called once per change.
NoDuplicates == IsInjective(observers)

\* No observer misses a change or is left with an outdated value: one that was
\* registered at the last change (and still is) either knows the present value
\* or has a call coming in some set() under way.  It is the reference to value_
\* that makes this true: two set() calls may reach an observer in either order.
UpdateOnItsWay ==
    \A o \in owed :
        \/ seen[o] = value
        \/ ~Alive(o)
        \/ \E t \in Threads : \E i \in DOMAIN stack[t] :
               LET f == stack[t][i]
               IN  o \in ToSet(f.todo) \/ (f.now = o /\ ~f.told)

\* When the program makes no more calls, every one that it has made returns, also
\* those that callbacks make of the observable that calls them, which need the mutex
\* its set() had.  (While others take it again and again, one can wait for ever.)
CallsReturn ==
    <>[][~NewCall]_vars => <>[](\A t \in Threads : ~Busy(t) /\ asks[t] = NoCall)
=============================================================================
