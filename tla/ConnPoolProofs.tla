--------------------------- MODULE ConnPoolProofs ---------------------------
(***************************************************************************)
(* Theorems about ConnPool, for every set of threads, connection strings   *)
(* and connections.                                                        *)
(***************************************************************************)
EXTENDS ConnPool, TLAPS

-----------------------------------------------------------------------------
(* The inductive invariant.                                                  *)

\* mux_a is held exactly inside the bodies of get() and purge(), which work on
\* a pool that exists.
Control == \A t \in Threads :
    /\ pc[t] \in {"find", "pools", "test"} <=> owner = t
    /\ pc[t] # "out" => arg[t] \in Params /\ alive
    /\ pc[t] = "test" => cur \in Params

\* A connection has one place: one pool, the one it was made for, and one key.
OnePlace ==
    \A p, q \in Params, j, k \in Threads :
        pool[p][j] = pool[q][k] /\ pool[p][j] # NoConn
            => p = q /\ j = k /\ opened[pool[p][j]] = p

\* A connection that was never handed over is keyed by the thread that uses
\* it, and only connections in use count as handed over.
KeyedByUser ==
    /\ alive => \A t \in Threads : \A c \in held[t] \ handed :
                    opened[c] \in Params /\ pool[opened[c]][t] = c
    /\ \A c \in handed : ~Idle(c)

\* While the mutex is held nobody can start to use an idle connection.
StillIdle == /\ \A c \in idleAtLock : Idle(c)
             /\ owner = NoThread => idleAtLock = {}
             /\ \A t \in Threads : pc[t] = "test" =>
                    \A j \in found : pool[cur][j] # NoConn => Idle(pool[cur][j])

\* get(): the idle connections are at keys the loop has not reached.
ScanAhead ==
    \A t \in Threads : pc[t] = "find" =>
        /\ scan \subseteq Keys(arg[t])
        /\ pool[arg[t]][t] = NoConn =>
               \A c \in idleAtLock : \E j \in scan : pool[arg[t]][j] = c

\* purge(): they are in pools or at keys still to test, or are about to be
\* erased, or have been.
PurgeAhead ==
    \A t \in Threads : pc[t] \in {"pools", "test"} =>
        \A c \in idleAtLock : \A p \in Params, j \in Threads :
            pool[p][j] = c =>
                p \in todo \/ (pc[t] = "test" /\ p = cur /\ j \in scan \cup found)

IInv == /\ TypeOK /\ Control /\ UsedIsPooled /\ OnePlace /\ Exclusive
        /\ KeyedByUser /\ StillIdle /\ ScanAhead /\ PurgeAhead

-----------------------------------------------------------------------------
\* An empty pool satisfies the invariant.
LEMMA InitIInv == Init => IInv
  <1> SUFFICES ASSUME Init PROVE IInv
    OBVIOUS
  <1> USE ConnPoolAssumption DEF Init
  <1>1. TypeOK /\ Control
    BY DEF TypeOK, Control
  <1>2. UsedIsPooled /\ OnePlace /\ Exclusive /\ KeyedByUser
    BY DEF UsedIsPooled, OnePlace, Exclusive, KeyedByUser
  <1>3. StillIdle /\ ScanAhead /\ PurgeAhead
    BY DEF StillIdle, ScanAhead, PurgeAhead
  <1> QED
    BY <1>1, <1>2, <1>3 DEF IInv

\* Every step keeps the types.
LEMMA TypeStep == TypeOK /\ Control /\ ScanAhead /\ [Next]_vars => TypeOK'
  <1> SUFFICES ASSUME TypeOK, Control, ScanAhead, [Next]_vars PROVE TypeOK'
    OBVIOUS
  <1> USE ConnPoolAssumption DEF TypeOK, Control, pools, users, purging
  <1>1. ASSUME NEW t \in Threads, NEW p \in Params, CallGet(t, p) \/ CallPurge(t, p) PROVE TypeOK'
    <2>1. CASE CallGet(t, p)
      BY <2>1 DEF CallGet, Call
    <2>2. CASE CallPurge(t, p)
      BY <2>2 DEF CallPurge, Call
    <2> QED
      BY <1>1, <2>1, <2>2
  <1>2. ASSUME NEW t \in Threads, LockGet(t) PROVE TypeOK'
    BY <1>2 DEF LockGet, Keys, ConnsIn
  <1>3. ASSUME NEW t \in Threads, GetOwn(t) PROVE TypeOK'
    BY <1>3 DEF GetOwn, Unlock
  <1>4. ASSUME NEW t \in Threads, NEW j \in Threads, ScanBusy(t, j) PROVE TypeOK'
    BY <1>4 DEF ScanBusy, Scanning
  <1>5. ASSUME NEW t \in Threads, NEW j \in Threads, TakeIdle(t, j) PROVE TypeOK'
    <2>1. arg[t] \in Params /\ pool[arg[t]][j] \in Conns
      BY <1>5 DEF TakeIdle, Scanning, ScanAhead, Keys
    <2> QED
      BY <1>5, <2>1 DEF TakeIdle, Scanning, Unlock
  <1>6. ASSUME NEW t \in Threads, NEW c \in Conns, Connect(t, c) PROVE TypeOK'
    BY <1>6 DEF Connect, MustConnect, Unlock
  <1>7. ASSUME NEW t \in Threads, ConnectFails(t) PROVE TypeOK'
    BY <1>7 DEF ConnectFails, MustConnect, Unlock
  <1>8. ASSUME NEW t \in Threads, LockPurge(t) PROVE TypeOK'
    BY <1>8 DEF LockPurge, Covered, Keys, ConnsIn
  <1>9. ASSUME NEW t \in Threads, NEW p \in Params, PurgePool(t, p) PROVE TypeOK'
    BY <1>9 DEF PurgePool, Keys
  <1>10. ASSUME NEW t \in Threads, NEW j \in Threads, PurgeTest(t, j) PROVE TypeOK'
    BY <1>10 DEF PurgeTest
  <1>11. ASSUME NEW t \in Threads, PurgeErase(t) PROVE TypeOK'
    BY <1>11 DEF PurgeErase
  <1>12. ASSUME NEW t \in Threads, PurgeDone(t) PROVE TypeOK'
    BY <1>12 DEF PurgeDone, Unlock
  <1>13. ASSUME NEW t \in Threads, NEW c \in Conns, Release(t, c) PROVE TypeOK'
    BY <1>13 DEF Release
  <1>14. ASSUME NEW t \in Threads, NEW u \in Threads, NEW c \in Conns, HandOver(t, u, c) PROVE TypeOK'
    BY <1>14 DEF HandOver
  <1>15. ASSUME Destroy PROVE TypeOK'
    BY <1>15 DEF Destroy
  <1>16. ASSUME Gone \/ UNCHANGED vars PROVE TypeOK'
    BY <1>16 DEF Gone, vars, pools, users, purging
  <1> QED
    BY <1>1, <1>2, <1>3, <1>4, <1>5, <1>6, <1>7, <1>8, <1>9, <1>10, <1>11, <1>12, <1>13, <1>14, <1>15, <1>16 DEF Next, NewCall, Step

\* One thread at most is past the mutex, and the locals of the scans are its own.
LEMMA ControlStep == TypeOK /\ Control /\ [Next]_vars => Control'
  <1> SUFFICES ASSUME TypeOK, Control, [Next]_vars PROVE Control'
    OBVIOUS
  <1> USE ConnPoolAssumption DEF TypeOK, Control, pools, users, purging
  <1>1. ASSUME NEW t \in Threads, NEW p \in Params, CallGet(t, p) \/ CallPurge(t, p) PROVE Control'
    BY <1>1 DEF CallGet, CallPurge, Call
  <1>2. ASSUME NEW t \in Threads, LockGet(t) PROVE Control'
    BY <1>2 DEF LockGet, Keys, ConnsIn
  <1>3. ASSUME NEW t \in Threads, GetOwn(t) PROVE Control'
    BY <1>3 DEF GetOwn, Unlock
  <1>4. ASSUME NEW t \in Threads, NEW j \in Threads, ScanBusy(t, j) PROVE Control'
    BY <1>4 DEF ScanBusy, Scanning
  <1>5. ASSUME NEW t \in Threads, NEW j \in Threads, TakeIdle(t, j) PROVE Control'
    BY <1>5 DEF TakeIdle, Scanning, Unlock
  <1>6. ASSUME NEW t \in Threads, NEW c \in Conns, Connect(t, c) PROVE Control'
    BY <1>6 DEF Connect, MustConnect, Unlock
  <1>7. ASSUME NEW t \in Threads, ConnectFails(t) PROVE Control'
    BY <1>7 DEF ConnectFails, MustConnect, Unlock
  <1>8. ASSUME NEW t \in Threads, LockPurge(t) PROVE Control'
    BY <1>8 DEF LockPurge, Covered, Keys, ConnsIn
  <1>9. ASSUME NEW t \in Threads, NEW p \in Params, PurgePool(t, p) PROVE Control'
    BY <1>9 DEF PurgePool, Keys
  <1>10. ASSUME NEW t \in Threads, NEW j \in Threads, PurgeTest(t, j) PROVE Control'
    BY <1>10 DEF PurgeTest
  <1>11. ASSUME NEW t \in Threads, PurgeErase(t) PROVE Control'
    BY <1>11 DEF PurgeErase
  <1>12. ASSUME NEW t \in Threads, PurgeDone(t) PROVE Control'
    BY <1>12 DEF PurgeDone, Unlock
  <1>13. ASSUME NEW t \in Threads, NEW c \in Conns, Release(t, c) PROVE Control'
    BY <1>13 DEF Release
  <1>14. ASSUME NEW t \in Threads, NEW u \in Threads, NEW c \in Conns, HandOver(t, u, c) PROVE Control'
    BY <1>14 DEF HandOver
  <1>15. ASSUME Destroy PROVE Control'
    BY <1>15 DEF Destroy
  <1>16. ASSUME Gone \/ UNCHANGED vars PROVE Control'
    BY <1>16 DEF Gone, vars, pools, users, purging
  <1> QED
    BY <1>1, <1>2, <1>3, <1>4, <1>5, <1>6, <1>7, <1>8, <1>9, <1>10, <1>11, <1>12, <1>13, <1>14, <1>15, <1>16 DEF Next, NewCall, Step
-----------------------------------------------------------------------------
(* Pools and users.                                                          *)

\* What GetOwn and TakeIdle hand out was made for the params asked for.
LEMMA PoolEntry ==
  ASSUME TypeOK, OnePlace, NEW p \in Params, NEW j \in Threads, pool[p][j] # NoConn
  PROVE  pool[p][j] \in Conns /\ opened[pool[p][j]] = p /\ pool[p][j] \in ConnsIn(p)
  BY DEF TypeOK, OnePlace, ConnsIn, Keys

\* Steps that touch neither the pool nor what was opened keep connections in their place.
LEMMA OnePlaceKept ==
  ASSUME OnePlace, pool' = pool, opened' = opened
  PROVE  OnePlace'
  BY DEF OnePlace

\* What is used stays pooled, in one place, under the key of its user, after every step.
LEMMA DataStep ==
  IInv /\ [Next]_vars => UsedIsPooled' /\ OnePlace' /\ Exclusive' /\ KeyedByUser'
  <1> DEFINE Data == UsedIsPooled /\ OnePlace /\ Exclusive /\ KeyedByUser
  <1> SUFFICES ASSUME IInv, [Next]_vars PROVE Data'
    OBVIOUS
  <1>0. TypeOK /\ Control /\ Data /\ StillIdle /\ ScanAhead /\ TypeOK'
    BY TypeStep DEF IInv
  <1> USE ConnPoolAssumption
  <1>1. ASSUME pool' = pool, opened' = opened, held' = held, handed' = handed, alive' = alive
        PROVE  Data'
    BY <1>0, <1>1 DEF UsedIsPooled, OnePlace, Exclusive, KeyedByUser, Idle, ConnsIn, Keys
  <1>2. ASSUME NEW t \in Threads, GetOwn(t) PROVE Data'
    <2> DEFINE c == pool[arg[t]][t]
    <2>1. /\ arg[t] \in Params /\ alive /\ alive' /\ c \in Conns /\ opened[c] = arg[t]
          /\ c \in ConnsIn(arg[t])
          /\ held' = [held EXCEPT ![t] = @ \cup {c}]
          /\ pool' = pool /\ opened' = opened /\ handed' = handed
      BY <1>0, <1>2, PoolEntry DEF GetOwn, Control, pools
    <2>2. UsedIsPooled'
      BY <1>0, <2>1 DEF TypeOK, UsedIsPooled, ConnsIn, Keys
    <2>3. OnePlace'
      BY <1>0, <2>1, OnePlaceKept
    <2>4. KeyedByUser'
      BY <1>0, <2>1 DEF TypeOK, KeyedByUser, Idle
    <2>5. ASSUME NEW u \in Threads, u # t, c \in held[u] PROVE c \in handed
      BY <1>0, <2>1, <2>5 DEF TypeOK, OnePlace, KeyedByUser
    <2>6. Exclusive'
      BY <1>0, <2>1, <2>5 DEF TypeOK, Exclusive
    <2> QED
      BY <2>2, <2>3, <2>4, <2>6
  <1>3. ASSUME NEW t \in Threads, NEW j \in Threads, TakeIdle(t, j) PROVE Data'
    <2> DEFINE c == pool[arg[t]][j]
    <2>1. /\ arg[t] \in Params /\ alive /\ alive'
          /\ pool[arg[t]][t] = NoConn /\ c # NoConn /\ t # j
      BY <1>0, <1>3 DEF TakeIdle, Scanning, Control, ScanAhead, Keys
    <2>2. /\ c \in Conns /\ opened[c] = arg[t] /\ Idle(c)
          /\ held' = [held EXCEPT ![t] = @ \cup {c}]
          /\ UNCHANGED <<opened, handed>>
      BY <1>0, <1>3, <2>1, PoolEntry DEF TakeIdle
    <2>3. \A p \in Params, k \in Threads :
              pool'[p][k] = IF p = arg[t] THEN IF k = t THEN c ELSE IF k = j THEN NoConn ELSE pool[p][k]
                                          ELSE pool[p][k]
      BY <1>0, <1>3, <2>1 DEF TakeIdle, TypeOK
    <2>4. OnePlace'
      <3> SUFFICES ASSUME NEW p \in Params, NEW q \in Params, NEW k \in Threads, NEW l \in Threads,
                          pool'[p][k] = pool'[q][l], pool'[p][k] # NoConn
                   PROVE  p = q /\ k = l /\ opened[pool'[p][k]] = p
        BY <2>2 DEF OnePlace
      <3> DEFINE old(r, i) == IF r = arg[t] /\ i = t THEN j ELSE i
      <3>1. old(p, k) \in Threads /\ old(q, l) \in Threads
        OBVIOUS
      <3>2. pool[p][old(p, k)] = pool'[p][k] /\ pool[q][old(q, l)] = pool'[q][l]
        BY <2>1, <2>3
      <3>3. p = q /\ old(p, k) = old(q, l) /\ opened[pool'[p][k]] = p
        BY <1>0, <3>1, <3>2 DEF OnePlace
      <3>4. k = l
        BY <2>1, <2>3, <3>3
      <3> QED
        BY <3>3, <3>4
    <2>5. \A u \in Threads : c \notin held[u]
      BY <2>2 DEF Idle
    <2>6. UsedIsPooled'
      <3> SUFFICES ASSUME NEW u \in Threads, NEW d \in held'[u]
                   PROVE  opened[d] # NoParam /\ (d \in ConnsIn(opened[d]))'
        BY <2>2 DEF UsedIsPooled
      <3>1. CASE d = c
        <4>1. pool'[arg[t]][t] = c
          BY <2>1, <2>3
        <4>2. opened[c] # NoParam
          BY <2>1, <2>2, ConnPoolAssumption
        <4> QED
          BY <3>1, <4>1, <4>2, <2>1, <2>2 DEF ConnsIn, Keys
      <3>2. CASE d # c
        <4>1. d \in held[u] /\ d \in Conns
          BY <3>2, <2>2, <1>0 DEF TypeOK
        <4>2. opened[d] \in Params /\ \E k \in Threads : pool[opened[d]][k] = d /\ d # NoConn
          BY <4>1, <2>1, <1>0 DEF UsedIsPooled, ConnsIn, Keys, TypeOK
        <4> QED
          BY <3>2, <4>1, <4>2, <2>1, <2>2, <2>3 DEF ConnsIn, Keys
      <3> QED
        BY <3>1, <3>2
    <2>7. KeyedByUser'
      <3>1. \A u \in Threads : \A d \in held'[u] \ handed :
                opened[d] \in Params /\ pool'[opened[d]][u] = d
        <4> SUFFICES ASSUME NEW u \in Threads, NEW d \in held'[u] \ handed
                     PROVE  opened[d] \in Params /\ pool'[opened[d]][u] = d
          OBVIOUS
        <4>1. CASE d = c
          BY <4>1, <2>1, <2>2, <2>3, <2>5, <1>0 DEF TypeOK
        <4>2. CASE d # c
          <5>1. d \in held[u] /\ d \in Conns
            BY <4>2, <2>2, <1>0 DEF TypeOK
          <5>2. opened[d] \in Params /\ pool[opened[d]][u] = d
            BY <5>1, <2>1, <1>0 DEF KeyedByUser
          <5> QED
            BY <4>2, <5>1, <5>2, <2>1, <2>3, ConnPoolAssumption
        <4> QED
          BY <4>1, <4>2
      <3>2. \A d \in handed : ~Idle(d)'
        BY <1>0, <2>2 DEF KeyedByUser, Idle, TypeOK
      <3> QED
        BY <3>1, <3>2, <2>2 DEF KeyedByUser
    <2>8. Exclusive'
      BY <1>0, <2>2, <2>5 DEF Exclusive, TypeOK
    <2> QED
      BY <2>4, <2>6, <2>7, <2>8
  <1>4. ASSUME NEW t \in Threads, NEW c \in Conns, Connect(t, c) PROVE Data'
    <2>1. /\ arg[t] \in Params /\ alive /\ alive' /\ pool[arg[t]][t] = NoConn
          /\ opened' = [opened EXCEPT ![c] = arg[t]]
          /\ held' = [held EXCEPT ![t] = @ \cup {c}]
          /\ UNCHANGED handed
      BY <1>0, <1>4 DEF Connect, MustConnect, Control
    <2>2. \A p \in Params, k \in Threads :
              pool'[p][k] = IF p = arg[t] /\ k = t THEN c ELSE pool[p][k]
      BY <1>0, <1>4, <2>1 DEF Connect, TypeOK
    <2>3. /\ \A u \in Threads : c \notin held[u]
          /\ \A p \in Params, k \in Threads : pool[p][k] # c
          /\ c # NoConn
      BY <1>4 DEF Connect, Fresh, Idle, ConnsIn, Keys
    <2>4. OnePlace'
      <3> SUFFICES ASSUME NEW p \in Params, NEW q \in Params, NEW k \in Threads, NEW l \in Threads,
                          pool'[p][k] = pool'[q][l], pool'[p][k] # NoConn
                   PROVE  p = q /\ k = l /\ opened'[pool'[p][k]] = p
        BY DEF OnePlace
      <3>1. CASE pool'[p][k] = c
        <4>1. pool'[p][k] # pool[p][k] /\ pool'[q][l] # pool[q][l]
          BY <3>1, <2>3
        <4>2. p = arg[t] /\ k = t /\ q = arg[t] /\ l = t
          BY <4>1, <2>2
        <4>3. opened'[c] = arg[t]
          BY <1>0, <2>1 DEF TypeOK
        <4> QED
          BY <3>1, <4>2, <4>3
      <3>2. CASE pool'[p][k] # c
        <4>1. pool[p][k] = pool'[p][k] /\ pool[q][l] = pool'[q][l]
          BY <3>2, <2>2
        <4>2. p = q /\ k = l /\ opened[pool[p][k]] = p
          BY <1>0, <4>1 DEF OnePlace
        <4>3. pool[p][k] \in Conns
          BY <1>0, <4>1 DEF TypeOK
        <4> QED
          BY <3>2, <4>1, <4>2, <4>3, <1>0, <2>1 DEF TypeOK
      <3> QED
        BY <3>1, <3>2
    <2>5. UsedIsPooled'
      <3> SUFFICES ASSUME NEW u \in Threads, NEW d \in held'[u]
                   PROVE  opened'[d] # NoParam /\ (d \in ConnsIn(opened[d]))'
        BY DEF UsedIsPooled
      <3>1. CASE d = c
        BY <3>1, <2>1, <2>2, <2>3, <1>0 DEF ConnsIn, Keys, TypeOK
      <3>2. CASE d # c
        <4>1. d \in held[u] /\ d \in Conns /\ opened'[d] = opened[d]
          BY <3>2, <2>1, <1>0 DEF TypeOK
        <4>2. opened[d] \in Params /\ \E k \in Threads : pool[opened[d]][k] = d /\ d # NoConn
          BY <4>1, <2>1, <1>0 DEF UsedIsPooled, ConnsIn, Keys, TypeOK
        <4> QED
          BY <4>1, <4>2, <2>1, <2>2 DEF ConnsIn, Keys
      <3> QED
        BY <3>1, <3>2
    <2>6. KeyedByUser'
      BY <1>0, <2>1, <2>2, <2>3 DEF KeyedByUser, Idle, TypeOK
    <2>7. Exclusive'
      BY <1>0, <2>1, <2>3 DEF Exclusive, TypeOK
    <2> QED
      BY <2>4, <2>5, <2>6, <2>7
  <1>5. ASSUME NEW t \in Threads, PurgeErase(t) PROVE Data'
    <2>1. /\ cur \in Params /\ alive /\ alive' = alive
          /\ opened' = opened /\ held' = held /\ handed' = handed
          /\ \A j \in found : pool[cur][j] # NoConn => Idle(pool[cur][j])
      BY <1>0, <1>5 DEF PurgeErase, Control, StillIdle, users
    <2>2. \A p \in Params, k \in Threads :
              pool'[p][k] = IF p = cur /\ k \in found THEN NoConn ELSE pool[p][k]
      BY <1>0, <1>5, <2>1 DEF PurgeErase, TypeOK
    <2>3. OnePlace'
      <3> SUFFICES ASSUME NEW p \in Params, NEW q \in Params, NEW k \in Threads, NEW l \in Threads,
                          pool'[p][k] = pool'[q][l], pool'[p][k] # NoConn
                   PROVE  p = q /\ k = l /\ opened[pool'[p][k]] = p
        BY <2>1 DEF OnePlace
      <3>1. pool[p][k] = pool'[p][k] /\ pool[q][l] = pool'[q][l]
        BY <2>2
      <3>2. OnePlace
        BY <1>0
      <3>3. p = q /\ k = l /\ opened[pool[p][k]] = p
        BY <3>1, <3>2 DEF OnePlace
      <3> QED
        BY <3>1, <3>3
    <2>4. ASSUME NEW u \in Threads, NEW d \in held[u], NEW p \in Params, NEW k \in Threads,
                 pool[p][k] = d
          PROVE  pool'[p][k] = d
      BY <1>0, <2>1, <2>2, <2>4 DEF Idle, TypeOK
    <2>5. UsedIsPooled'
      BY <1>0, <2>1, <2>4 DEF UsedIsPooled, ConnsIn, Keys, TypeOK
    <2>6. KeyedByUser'
      <3>1. ASSUME NEW u \in Threads, NEW d \in held[u], d \notin handed
            PROVE  opened[d] \in Params /\ pool'[opened[d]][u] = d
        <4>1. opened[d] \in Params /\ pool[opened[d]][u] = d
          BY <1>0, <2>1, <3>1 DEF KeyedByUser
        <4> QED
          BY <2>4, <4>1
      <3> QED
        BY <1>0, <2>1, <3>1 DEF KeyedByUser, Idle
    <2>7. Exclusive'
      BY <1>0, <2>1 DEF Exclusive
    <2> QED
      BY <2>3, <2>5, <2>6, <2>7
  <1>6. ASSUME NEW t \in Threads, NEW c \in Conns, Release(t, c) PROVE Data'
    <2>1. /\ held' = [held EXCEPT ![t] = @ \ {c}]
          /\ pool' = pool /\ opened' = opened /\ alive' = alive
          /\ handed' = IF \A u \in Threads \ {t} : c \notin held[u] THEN handed \ {c} ELSE handed
      BY <1>6 DEF Release, pools
    <2>2. OnePlace'
      BY <1>0, <2>1, OnePlaceKept
    <2>3. UsedIsPooled'
      BY <1>0, <2>1 DEF UsedIsPooled, ConnsIn, Keys, TypeOK
    <2>4. KeyedByUser'
      BY <1>0, <2>1 DEF KeyedByUser, Idle, TypeOK
    <2>5. Exclusive'
      BY <1>0, <2>1 DEF Exclusive, TypeOK
    <2> QED
      BY <2>2, <2>3, <2>4, <2>5
  <1>7. ASSUME NEW t \in Threads, NEW u \in Threads, NEW c \in Conns, HandOver(t, u, c)
        PROVE  Data'
    <2>1. /\ held' = [held EXCEPT ![u] = @ \cup {c}] /\ c \in held[t] /\ t # u
          /\ handed' = handed \cup {c}
          /\ pool' = pool /\ opened' = opened /\ alive' = alive
      BY <1>7 DEF HandOver, pools
    <2>2. OnePlace'
      BY <1>0, <2>1, OnePlaceKept
    <2>3. UsedIsPooled'
      BY <1>0, <2>1 DEF UsedIsPooled, ConnsIn, Keys, TypeOK
    <2>4. KeyedByUser'
      BY <1>0, <2>1 DEF KeyedByUser, Idle, TypeOK
    <2>5. Exclusive'
      BY <1>0, <2>1 DEF Exclusive, TypeOK
    <2> QED
      BY <2>2, <2>3, <2>4, <2>5
  <1>8. ASSUME Destroy PROVE Data'
    BY <1>0, <1>8 DEF Destroy, UsedIsPooled, OnePlace, Exclusive, KeyedByUser, Idle, users
  <1>9. ASSUME NEW t \in Threads, NEW p \in Params,
               CallGet(t, p) \/ CallPurge(t, p) \/ PurgePool(t, p)
        PROVE  Data'
    BY <1>1, <1>9 DEF CallGet, CallPurge, Call, PurgePool, pools, users
  <1>10. ASSUME NEW t \in Threads, NEW j \in Threads, ScanBusy(t, j) \/ PurgeTest(t, j)
         PROVE  Data'
    BY <1>1, <1>10 DEF ScanBusy, PurgeTest, pools, users
  <1>11. ASSUME NEW t \in Threads,
                LockGet(t) \/ ConnectFails(t) \/ LockPurge(t) \/ PurgeDone(t)
         PROVE  Data'
    BY <1>1, <1>11 DEF LockGet, ConnectFails, LockPurge, PurgeDone, pools, users
  <1>12. ASSUME Gone \/ UNCHANGED vars PROVE Data'
    BY <1>1, <1>12 DEF Gone, vars, pools, users
  <1>13. Data'
    BY <1>2, <1>3, <1>4, <1>5, <1>6, <1>7, <1>8, <1>9, <1>10, <1>11, <1>12
       DEF Next, NewCall, Step
  <1> QED
    BY <1>13
-----------------------------------------------------------------------------
(* The scans.                                                                *)

\* What the scan under the mutex found idle stays idle until the scan takes it.
LEMMA StillIdleStep == IInv /\ [Next]_vars => StillIdle'
  <1> SUFFICES ASSUME IInv, [Next]_vars PROVE StillIdle'
    OBVIOUS
  <1>0. TypeOK /\ Control /\ StillIdle
    BY DEF IInv
  <1> USE ConnPoolAssumption DEF StillIdle, TypeOK, Control, Idle, pools, users, purging
  <1>1. ASSUME NEW t \in Threads, NEW p \in Params, CallGet(t, p) \/ CallPurge(t, p) PROVE StillIdle'
    BY <1>0, <1>1 DEF CallGet, CallPurge, Call
  <1>2. ASSUME NEW t \in Threads, LockGet(t) PROVE StillIdle'
    BY <1>0, <1>2 DEF LockGet
  <1>3. ASSUME NEW t \in Threads, GetOwn(t) PROVE StillIdle'
    BY <1>0, <1>3 DEF GetOwn, Unlock
  <1>4. ASSUME NEW t \in Threads, NEW j \in Threads, ScanBusy(t, j) PROVE StillIdle'
    BY <1>0, <1>4 DEF ScanBusy, Scanning
  <1>5. ASSUME NEW t \in Threads, NEW j \in Threads, TakeIdle(t, j) PROVE StillIdle'
    BY <1>0, <1>5 DEF TakeIdle, Scanning, Unlock
  <1>6. ASSUME NEW t \in Threads, NEW c \in Conns, Connect(t, c) PROVE StillIdle'
    BY <1>0, <1>6 DEF Connect, MustConnect, Unlock
  <1>7. ASSUME NEW t \in Threads, ConnectFails(t) PROVE StillIdle'
    BY <1>0, <1>7 DEF ConnectFails, MustConnect, Unlock
  <1>8. ASSUME NEW t \in Threads, LockPurge(t) PROVE StillIdle'
    BY <1>0, <1>8 DEF LockPurge, Covered
  <1>9. ASSUME NEW t \in Threads, NEW p \in Params, PurgePool(t, p) PROVE StillIdle'
    BY <1>0, <1>9 DEF PurgePool
  <1>10. ASSUME NEW t \in Threads, NEW j \in Threads, PurgeTest(t, j) PROVE StillIdle'
    BY <1>0, <1>10 DEF PurgeTest
  <1>11. ASSUME NEW t \in Threads, PurgeErase(t) PROVE StillIdle'
    BY <1>0, <1>11 DEF PurgeErase
  <1>12. ASSUME NEW t \in Threads, PurgeDone(t) PROVE StillIdle'
    BY <1>0, <1>12 DEF PurgeDone, Unlock
  <1>13. ASSUME NEW t \in Threads, NEW c \in Conns, Release(t, c) PROVE StillIdle'
    BY <1>0, <1>13 DEF Release
  <1>14. ASSUME NEW t \in Threads, NEW u \in Threads, NEW c \in Conns, HandOver(t, u, c) PROVE StillIdle'
    BY <1>0, <1>14 DEF HandOver
  <1>15. ASSUME Destroy PROVE StillIdle'
    BY <1>0, <1>15 DEF Destroy
  <1>16. ASSUME Gone \/ UNCHANGED vars PROVE StillIdle'
    BY <1>0, <1>16 DEF Gone, vars
  <1> QED
    BY <1>1, <1>2, <1>3, <1>4, <1>5, <1>6, <1>7, <1>8, <1>9, <1>10, <1>11, <1>12, <1>13, <1>14, <1>15, <1>16
       DEF Next, NewCall, Step

\* What was idle when get() took the mutex is ahead of its scan, or was found.
LEMMA ScanAheadStep == IInv /\ [Next]_vars => ScanAhead'
  <1> SUFFICES ASSUME IInv, [Next]_vars PROVE ScanAhead'
    OBVIOUS
  <1>0. TypeOK /\ Control /\ StillIdle /\ ScanAhead
    BY DEF IInv
  <1> USE ConnPoolAssumption DEF ScanAhead, TypeOK, Control, Keys, ConnsIn, pools, users, purging
  <1>1. ASSUME NEW t \in Threads, NEW p \in Params, CallGet(t, p) \/ CallPurge(t, p) PROVE ScanAhead'
    <2>1. CASE CallGet(t, p)
      BY <1>0, <2>1 DEF CallGet, Call
    <2>2. CASE CallPurge(t, p)
      BY <1>0, <2>2 DEF CallPurge, Call
    <2> QED
      BY <1>1, <2>1, <2>2
  <1>2. ASSUME NEW t \in Threads, LockGet(t) PROVE ScanAhead'
    BY <1>0, <1>2 DEF LockGet
  <1>3. ASSUME NEW t \in Threads, GetOwn(t) PROVE ScanAhead'
    BY <1>0, <1>3 DEF GetOwn, Unlock
  <1>4. ASSUME NEW t \in Threads, NEW j \in Threads, ScanBusy(t, j) PROVE ScanAhead'
    <2>1. \A c \in idleAtLock : pool[arg[t]][j] # c
      BY <1>0, <1>4 DEF ScanBusy, StillIdle
    <2> QED
      BY <1>0, <1>4, <2>1 DEF ScanBusy, Scanning
  <1>5. ASSUME NEW t \in Threads, NEW j \in Threads, TakeIdle(t, j) PROVE ScanAhead'
    BY <1>0, <1>5 DEF TakeIdle, Scanning, Unlock
  <1>6. ASSUME NEW t \in Threads, NEW c \in Conns, Connect(t, c) PROVE ScanAhead'
    BY <1>0, <1>6 DEF Connect, MustConnect, Unlock
  <1>7. ASSUME NEW t \in Threads, ConnectFails(t) PROVE ScanAhead'
    BY <1>0, <1>7 DEF ConnectFails, MustConnect, Unlock
  <1>8. ASSUME NEW t \in Threads, LockPurge(t) PROVE ScanAhead'
    BY <1>0, <1>8 DEF LockPurge, Covered
  <1>9. ASSUME NEW t \in Threads, NEW p \in Params, PurgePool(t, p) PROVE ScanAhead'
    BY <1>0, <1>9 DEF PurgePool
  <1>10. ASSUME NEW t \in Threads, NEW j \in Threads, PurgeTest(t, j) PROVE ScanAhead'
    BY <1>0, <1>10 DEF PurgeTest
  <1>11. ASSUME NEW t \in Threads, PurgeErase(t) PROVE ScanAhead'
    BY <1>0, <1>11 DEF PurgeErase
  <1>12. ASSUME NEW t \in Threads, PurgeDone(t) PROVE ScanAhead'
    BY <1>0, <1>12 DEF PurgeDone, Unlock
  <1>13. ASSUME NEW t \in Threads, NEW c \in Conns, Release(t, c) PROVE ScanAhead'
    BY <1>0, <1>13 DEF Release
  <1>14. ASSUME NEW t \in Threads, NEW u \in Threads, NEW c \in Conns, HandOver(t, u, c) PROVE ScanAhead'
    BY <1>0, <1>14 DEF HandOver
  <1>15. ASSUME Destroy PROVE ScanAhead'
    BY <1>0, <1>15 DEF Destroy
  <1>16. ASSUME Gone \/ UNCHANGED vars PROVE ScanAhead'
    <2>1. pool' = pool /\ pc' = pc /\ arg' = arg /\ scan' = scan /\ idleAtLock' = idleAtLock
      BY <1>16 DEF Gone, vars
    <2> QED
      BY <1>0, <2>1
  <1> QED
    BY <1>1, <1>2, <1>3, <1>4, <1>5, <1>6, <1>7, <1>8, <1>9, <1>10, <1>11, <1>12, <1>13, <1>14, <1>15, <1>16
       DEF Next, NewCall, Step

\* What was idle when purge() took the mutex is ahead of its scan, or was noted or closed.
LEMMA PurgeAheadStep == IInv /\ [Next]_vars => PurgeAhead'
  <1> SUFFICES ASSUME IInv, [Next]_vars PROVE PurgeAhead'
    OBVIOUS
  <1>0. TypeOK /\ Control /\ StillIdle /\ PurgeAhead /\ OnePlace
    BY DEF IInv
  <1> USE ConnPoolAssumption DEF PurgeAhead, TypeOK, Control, Keys, ConnsIn, pools, users, purging
  <1>1. ASSUME NEW t \in Threads, NEW p \in Params, CallGet(t, p) \/ CallPurge(t, p) PROVE PurgeAhead'
    BY <1>0, <1>1 DEF CallGet, CallPurge, Call
  <1>2. ASSUME NEW t \in Threads, LockGet(t) PROVE PurgeAhead'
    BY <1>0, <1>2 DEF LockGet
  <1>3. ASSUME NEW t \in Threads, GetOwn(t) PROVE PurgeAhead'
    BY <1>0, <1>3 DEF GetOwn, Unlock
  <1>4. ASSUME NEW t \in Threads, NEW j \in Threads, ScanBusy(t, j) PROVE PurgeAhead'
    BY <1>0, <1>4 DEF ScanBusy, Scanning
  <1>5. ASSUME NEW t \in Threads, NEW j \in Threads, TakeIdle(t, j) PROVE PurgeAhead'
    BY <1>0, <1>5 DEF TakeIdle, Scanning, Unlock
  <1>6. ASSUME NEW t \in Threads, NEW c \in Conns, Connect(t, c) PROVE PurgeAhead'
    BY <1>0, <1>6 DEF Connect, MustConnect, Unlock
  <1>7. ASSUME NEW t \in Threads, ConnectFails(t) PROVE PurgeAhead'
    BY <1>0, <1>7 DEF ConnectFails, MustConnect, Unlock
  <1>8. ASSUME NEW t \in Threads, LockPurge(t) PROVE PurgeAhead'
    <2>1. ASSUME NEW c \in idleAtLock', NEW p \in Params, NEW j \in Threads, pool[p][j] = c
          PROVE  p \in Covered(arg[t])
      <3>1. PICK q \in Covered(arg[t]) : c \in ConnsIn(q)
        BY <1>8 DEF LockPurge
      <3>2. q \in Params
        BY <1>0, <1>8, <3>1 DEF LockPurge, Covered
      <3> QED
        BY <1>0, <2>1, <3>1, <3>2 DEF OnePlace
    <2> QED
      BY <1>0, <1>8, <2>1 DEF LockPurge
  <1>9. ASSUME NEW t \in Threads, NEW p \in Params, PurgePool(t, p) PROVE PurgeAhead'
    BY <1>0, <1>9 DEF PurgePool
  <1>10. ASSUME NEW t \in Threads, NEW j \in Threads, PurgeTest(t, j) PROVE PurgeAhead'
    <2>1. pool[cur][j] \in idleAtLock => found' = found \cup {j}
      BY <1>0, <1>10 DEF PurgeTest, StillIdle
    <2> QED
      BY <1>0, <1>10, <2>1 DEF PurgeTest
  <1>11. ASSUME NEW t \in Threads, PurgeErase(t) PROVE PurgeAhead'
    BY <1>0, <1>11 DEF PurgeErase
  <1>12. ASSUME NEW t \in Threads, PurgeDone(t) PROVE PurgeAhead'
    BY <1>0, <1>12 DEF PurgeDone, Unlock
  <1>13. ASSUME NEW t \in Threads, NEW c \in Conns, Release(t, c) PROVE PurgeAhead'
    BY <1>0, <1>13 DEF Release
  <1>14. ASSUME NEW t \in Threads, NEW u \in Threads, NEW c \in Conns, HandOver(t, u, c) PROVE PurgeAhead'
    BY <1>0, <1>14 DEF HandOver
  <1>15. ASSUME Destroy PROVE PurgeAhead'
    BY <1>0, <1>15 DEF Destroy
  <1>16. ASSUME Gone \/ UNCHANGED vars PROVE PurgeAhead'
    BY <1>0, <1>16 DEF Gone, vars
  <1> QED
    BY <1>1, <1>2, <1>3, <1>4, <1>5, <1>6, <1>7, <1>8, <1>9, <1>10, <1>11, <1>12, <1>13, <1>14, <1>15, <1>16
       DEF Next, NewCall, Step

\* Every step keeps the invariant.
LEMMA Inductive == IInv /\ [Next]_vars => IInv'
  <1> SUFFICES ASSUME IInv, [Next]_vars PROVE IInv'
    OBVIOUS
  <1>1. TypeOK' /\ Control'
    BY TypeStep, ControlStep DEF IInv
  <1> QED
    BY <1>1, DataStep, StillIdleStep, ScanAheadStep, PurgeAheadStep DEF IInv

\* The invariant holds in every reachable state.
LEMMA Invariance == Spec => []IInv
  BY InitIInv, Inductive, PTL DEF Spec

-----------------------------------------------------------------------------
(* The theorems.                                                             *)

\* Every reachable state is well typed: no null handle is given out or kept.
THEOREM TypeCorrect == Spec => []TypeOK
  <1>1. IInv => TypeOK
    BY DEF IInv
  <1> QED
    BY <1>1, Invariance, PTL

\* purge() never drops a connection in use.
THEOREM UsedConnectionsStay == Spec => []UsedIsPooled
  <1>1. IInv => UsedIsPooled
    BY DEF IInv
  <1> QED
    BY <1>1, Invariance, PTL

\* Two threads share a connection only after one gave it to another.
THEOREM ExclusiveUse == Spec => []Exclusive
  <1>1. IInv => Exclusive
    BY DEF IInv
  <1> QED
    BY <1>1, Invariance, PTL

\* get() connects only when no connection of the pool was idle.
THEOREM NoNeedlessConnect == Spec => []ConnectOnlyIfNoneIdle
  <1>1. IInv => ConnectOnlyIfNoneIdle
    BY DEF IInv, ScanAhead, ConnectOnlyIfNoneIdle, MustConnect
  <1> QED
    BY <1>1, Invariance, PTL

\* purge() closes every connection that was idle when it began.
THEOREM PurgeCompletes == Spec => []PurgeIsComplete
  <1>1. IInv => PurgeIsComplete
    BY DEF IInv, PurgeAhead, PurgeIsComplete, ConnsIn, Keys
  <1> QED
    BY <1>1, Invariance, PTL
=============================================================================
