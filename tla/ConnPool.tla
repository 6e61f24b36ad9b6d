------------------------------ MODULE ConnPool ------------------------------
(***************************************************************************)
(* Fs2a::ConnPool<T> (hdr/fs2a/ConnPool.hpp): connections pooled per       *)
(* connection string and keyed, within a pool, by the id of the thread     *)
(* that uses them.  A handle is a std::shared_ptr; a connection is idle    *)
(* when the pool holds the only reference (use_count() == 1).              *)
(*                                                                         *)
(* get() and purge() run under mux_a, but handles are copied and dropped   *)
(* without it, so the scans over use_count() race with releases: each      *)
(* entry is tested in a step of its own.  Connecting happens under mux_a   *)
(* as well, and may throw.                                                 *)
(***************************************************************************)
EXTENDS Naturals, FiniteSets

CONSTANTS Threads,    \* thread ids (numbers: a map iterates them in order)
          Params,     \* connection strings
          AllParams,  \* "", for which purge() means every pool
          Conns,      \* names for the connections open at one time
          NoThread, NoConn, NoParam

ASSUME ConnPoolAssumption == /\ Threads \subseteq Nat
                             /\ NoThread \notin Threads
                             /\ NoConn \notin Conns
                             /\ NoParam \notin Params

VARIABLES pool,       \* pool_a[params][tid]; NoConn where the map has no key
          held,       \* held[t]: the connections t has a handle to
          opened,     \* opened[c]: the params c was made with, or NoParam
          owner,      \* the thread that holds mux_a
          pc, arg,    \* where each thread is, and the params it called with
          scan,       \* keys the owner of mux_a has yet to test
          found,      \* purge_(): idles
          cur, todo,  \* purge(): the pool being purged, the pools to go
          alive,      \* ~ConnPool() has not run
          handed,     \* history: in use, and a handle went to another thread
          idleAtLock  \* history: idle connections when mux_a was taken

pools   == <<pool, opened>>
users   == <<held, handed>>
purging == <<found, cur, todo>>
vars == <<pools, users, owner, pc, arg, scan, purging, alive, idleAtLock>>

\* shared_ptr::use_count() == 1, for a connection in the pool
Idle(c) == \A t \in Threads : c \notin held[t]

Keys(p) == {j \in Threads : pool[p][j] # NoConn}
ConnsIn(p) == {pool[p][j] : j \in Keys(p)}

\* No handle left and not in the pool: the connection is closed, and its name
\* can stand for the next one made.  Conns bounds the connections open at once.
Fresh == {c \in Conns : Idle(c) /\ \A p \in Params : c \notin ConnsIn(p)}

\* The pools a purge with this argument covers
Covered(p) == IF p = AllParams THEN Params ELSE {p}

-----------------------------------------------------------------------------
Init == /\ pool = [p \in Params |-> [t \in Threads |-> NoConn]]
        /\ held = [t \in Threads |-> {}]
        /\ opened = [c \in Conns |-> NoParam]
        /\ owner = NoThread
        /\ pc = [t \in Threads |-> "out"]
        /\ arg = [t \in Threads |-> NoParam]
        /\ scan = {} /\ found = {} /\ cur = NoParam /\ todo = {}
        /\ alive = TRUE
        /\ handed = {} /\ idleAtLock = {}

Call(t, p, where) == /\ alive
                     /\ pc[t] = "out"
                     /\ pc' = [pc EXCEPT ![t] = where]
                     /\ arg' = [arg EXCEPT ![t] = p]
                     /\ UNCHANGED <<pools, users, owner, scan, purging, alive, idleAtLock>>

CallGet(t, p)   == Call(t, p, "get")
CallPurge(t, p) == Call(t, p, "purge")

\* lock_guard's destructor: on return and on an exception alike
Unlock(t) == /\ owner' = NoThread
             /\ pc' = [pc EXCEPT ![t] = "out"]
             /\ arg' = [arg EXCEPT ![t] = NoParam]
             /\ scan' = {} /\ idleAtLock' = {}

-----------------------------------------------------------------------------
(* get() *)

\* Mutant of LockGet: the loop starts after the first entry.
LockGetSkipsFirst(t) ==
    /\ pc[t] = "get"
    /\ owner = NoThread
    /\ owner' = t
    /\ pc' = [pc EXCEPT ![t] = "find"]
    /\ scan' = {j \in Keys(arg[t]) : \E k \in Keys(arg[t]) : k < j}
    /\ idleAtLock' = {c \in ConnsIn(arg[t]) : Idle(c)}
    /\ UNCHANGED <<pools, users, arg, purging, alive>>

LockGet(t) == /\ pc[t] = "get"
              /\ owner = NoThread
              /\ owner' = t
              /\ pc' = [pc EXCEPT ![t] = "find"]
              /\ scan' = Keys(arg[t])
              /\ idleAtLock' = {c \in ConnsIn(arg[t]) : Idle(c)}
              /\ UNCHANGED <<pools, users, arg, purging, alive>>

\* Mutant of GetOwn: operator[] instead of find(), a null handle for a new key.
GetOwnOrNull(t) ==
    /\ pc[t] = "find"
    /\ Keys(arg[t]) # {}
    /\ held' = [held EXCEPT ![t] = @ \cup {pool[arg[t]][t]}]
    /\ Unlock(t)
    /\ UNCHANGED <<pools, handed, purging, alive>>

\* The entry of the calling thread is returned whoever uses it.
GetOwn(t) == LET c == pool[arg[t]][t] IN
             /\ pc[t] = "find"
             /\ c # NoConn
             /\ held' = [held EXCEPT ![t] = @ \cup {c}]
             /\ Unlock(t)
             /\ UNCHANGED <<pools, handed, purging, alive>>

\* The loop over the other entries, in key order: test one of them.
Scanning(t, j) == /\ pc[t] = "find"
                  /\ pool[arg[t]][t] = NoConn
                  /\ j \in scan
                  /\ \A k \in scan : j <= k

ScanBusy(t, j) == /\ Scanning(t, j)
                  /\ ~Idle(pool[arg[t]][j])
                  /\ scan' = scan \ {j}
                  /\ UNCHANGED <<pools, users, owner, pc, arg, purging, alive, idleAtLock>>

\* Mutant of TakeIdle: a busy connection is taken too.
TakeAny(t, j) ==
    LET c == pool[arg[t]][j] IN
    /\ Scanning(t, j)
    /\ pool' = [pool EXCEPT ![arg[t]] = [@ EXCEPT ![j] = NoConn, ![t] = c]]
    /\ held' = [held EXCEPT ![t] = @ \cup {c}]
    /\ Unlock(t)
    /\ UNCHANGED <<opened, handed, purging, alive>>

\* A free one: it moves from the key of its last user to the caller's.
TakeIdle(t, j) == LET c == pool[arg[t]][j] IN
                  /\ Scanning(t, j)
                  /\ Idle(c)
                  /\ pool' = [pool EXCEPT ![arg[t]] = [@ EXCEPT ![j] = NoConn, ![t] = c]]
                  /\ held' = [held EXCEPT ![t] = @ \cup {c}]
                  /\ Unlock(t)
                  /\ UNCHANGED <<opened, handed, purging, alive>>

MustConnect(t) == /\ pc[t] = "find"
                  /\ pool[arg[t]][t] = NoConn
                  /\ scan = {}

\* new T(params_i) succeeds ...
Connect(t, c) == /\ MustConnect(t)
                 /\ c \in Fresh
                 /\ opened' = [opened EXCEPT ![c] = arg[t]]
                 /\ pool' = [pool EXCEPT ![arg[t]] = [@ EXCEPT ![t] = c]]
                 /\ held' = [held EXCEPT ![t] = @ \cup {c}]
                 /\ Unlock(t)
                 /\ UNCHANGED <<handed, purging, alive>>

\* ... or throws, and get() with it.
ConnectFails(t) == /\ MustConnect(t)
                   /\ Unlock(t)
                   /\ UNCHANGED <<pools, users, purging, alive>>

-----------------------------------------------------------------------------
(* purge() *)

\* Mutant of LockPurge: "" is taken for the name of a pool.
LockPurgeLiteral(t) == /\ pc[t] = "purge"
                       /\ owner = NoThread
                       /\ owner' = t
                       /\ pc' = [pc EXCEPT ![t] = "pools"]
                       /\ todo' = {arg[t]}
                       /\ idleAtLock' = {c \in UNION {ConnsIn(p) : p \in Covered(arg[t])} : Idle(c)}
                       /\ UNCHANGED <<pools, users, arg, scan, found, cur, alive>>

LockPurge(t) == /\ pc[t] = "purge"
                /\ owner = NoThread
                /\ owner' = t
                /\ pc' = [pc EXCEPT ![t] = "pools"]
                /\ todo' = Covered(arg[t])
                /\ idleAtLock' = {c \in UNION {ConnsIn(p) : p \in Covered(arg[t])} : Idle(c)}
                /\ UNCHANGED <<pools, users, arg, scan, found, cur, alive>>

\* purge_() on the next pool
PurgePool(t, p) == /\ pc[t] = "pools"
                   /\ p \in todo
                   /\ todo' = todo \ {p}
                   /\ cur' = p
                   /\ scan' = Keys(p)
                   /\ found' = {}
                   /\ pc' = [pc EXCEPT ![t] = "test"]
                   /\ UNCHANGED <<pools, users, owner, arg, alive, idleAtLock>>

\* Mutant of PurgeTest: use_count() <= 2, one user tolerated.
PurgeTestOffByOne(t, j) ==
    /\ pc[t] = "test"
    /\ j \in scan
    /\ scan' = scan \ {j}
    /\ found' = IF Cardinality({u \in Threads : pool[cur][j] \in held[u]}) <= 1
                THEN found \cup {j} ELSE found
    /\ UNCHANGED <<pools, users, owner, pc, arg, cur, todo, alive, idleAtLock>>

\* ... tests every entry ...
PurgeTest(t, j) == /\ pc[t] = "test"
                   /\ j \in scan
                   /\ scan' = scan \ {j}
                   /\ found' = IF Idle(pool[cur][j]) THEN found \cup {j} ELSE found
                   /\ UNCHANGED <<pools, users, owner, pc, arg, cur, todo, alive, idleAtLock>>

\* ... and then erases the ones found idle.  A pool left empty is erased too:
\* here, as for get(), an empty pool and no pool are the same.
PurgeErase(t) == /\ pc[t] = "test"
                 /\ scan = {}
                 /\ pool' = [pool EXCEPT ![cur] =
                        [j \in Threads |-> IF j \in found THEN NoConn ELSE @[j]]]
                 /\ found' = {} /\ cur' = NoParam
                 /\ pc' = [pc EXCEPT ![t] = "pools"]
                 /\ UNCHANGED <<opened, users, owner, arg, scan, todo, alive, idleAtLock>>

PurgeDone(t) == /\ pc[t] = "pools"
                /\ todo = {}
                /\ Unlock(t)
                /\ UNCHANGED <<pools, users, purging, alive>>

-----------------------------------------------------------------------------
(* The users of the pool, between their calls *)

\* t drops its handles to c.  A connection nobody uses is nobody's any more.
Release(t, c) == /\ pc[t] = "out"
                 /\ c \in held[t]
                 /\ held' = [held EXCEPT ![t] = @ \ {c}]
                 /\ handed' = IF \A u \in Threads \ {t} : c \notin held[u]
                              THEN handed \ {c} ELSE handed
                 /\ UNCHANGED <<pools, owner, pc, arg, scan, purging, alive, idleAtLock>>

\* t gives u a copy of its handle.
HandOver(t, u, c) == /\ t # u
                     /\ pc[t] = "out" /\ pc[u] = "out"
                     /\ c \in held[t]
                     /\ held' = [held EXCEPT ![u] = @ \cup {c}]
                     /\ handed' = handed \cup {c}
                     /\ UNCHANGED <<pools, owner, pc, arg, scan, purging, alive, idleAtLock>>

\* ~ConnPool(): purge(), then the map goes.  Handles outlive the pool.
Destroy == /\ alive
           /\ \A t \in Threads : pc[t] = "out"
           /\ alive' = FALSE
           /\ pool' = [p \in Params |-> [t \in Threads |-> NoConn]]
           /\ UNCHANGED <<opened, users, owner, pc, arg, scan, purging, idleAtLock>>

\* The end: no pool and no handles.
Gone == /\ ~alive
        /\ \A t \in Threads : held[t] = {}
        /\ UNCHANGED vars

-----------------------------------------------------------------------------
\* A step of t inside get() or purge()
Step(t) == \/ LockGet(t) \/ GetOwn(t) \/ ConnectFails(t)
           \/ \E j \in Threads : ScanBusy(t, j) \/ TakeIdle(t, j) \/ PurgeTest(t, j)
           \/ \E c \in Conns : Connect(t, c)
           \/ LockPurge(t) \/ PurgeErase(t) \/ PurgeDone(t)
           \/ \E p \in Params : PurgePool(t, p)

NewCall == \E t \in Threads, p \in Params : CallGet(t, p) \/ CallPurge(t, p)

Next == \/ NewCall
        \/ \E t \in Threads : \/ Step(t)
                              \/ \E c \in Conns : \/ Release(t, c)
                                                  \/ \E u \in Threads : HandOver(t, u, c)
        \/ Destroy
        \/ Gone

Spec == Init /\ [][Next]_vars

-----------------------------------------------------------------------------
(* Properties *)

TypeOK ==
    /\ pool \in [Params -> [Threads -> Conns \cup {NoConn}]]
    /\ held \in [Threads -> SUBSET Conns]
    /\ opened \in [Conns -> Params \cup {NoParam}]
    /\ owner \in Threads \cup {NoThread}
    /\ pc \in [Threads -> {"out", "get", "find", "purge", "pools", "test"}]
    /\ arg \in [Threads -> Params \cup {NoParam}]
    /\ scan \in SUBSET Threads /\ found \in SUBSET Threads
    /\ cur \in Params \cup {NoParam} /\ todo \in SUBSET Params
    /\ alive \in BOOLEAN
    /\ handed \in SUBSET Conns /\ idleAtLock \in SUBSET Conns

\* While the pool lives it knows every connection somebody uses, under the
\* connection string it was made with: purge() never drops one that is in use,
\* even if the last handle goes, or a new one is made, while it looks.
UsedIsPooled ==
    alive => \A t \in Threads : \A c \in held[t] :
                 opened[c] # NoParam /\ c \in ConnsIn(opened[c])

\* get() never gives two threads the same connection: two threads use one
\* only if a thread that used it handed it over.
Exclusive ==
    \A t, u \in Threads : t # u => held[t] \cap held[u] \subseteq handed

\* get() connects only if no connection of the pool was idle when it took the
\* mutex, whatever is released while it looks.
ConnectOnlyIfNoneIdle ==
    \A t \in Threads : MustConnect(t) => idleAtLock = {}

\* purge() leaves no connection that was idle when it took the mutex.
PurgeIsComplete ==
    \A t \in Threads : pc[t] = "pools" /\ todo = {} =>
        idleAtLock \cap UNION {ConnsIn(p) : p \in Params} = {}
=============================================================================
