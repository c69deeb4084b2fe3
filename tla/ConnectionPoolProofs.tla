------------------------ MODULE ConnectionPoolProofs ------------------------
(***************************************************************************)
(* Proofs about ConnectionPool, for any number of threads and handles and  *)
(* any bounds: the rwlock excludes, a connection has one user, a           *)
(* transaction ends with its request, sessions are bounded by the threads  *)
(* and the leaked trees, and a request keeps all or none of the statements *)
(* that succeeded as long as the server drops no session.                  *)
(***************************************************************************)
EXTENDS ConnectionPool, SequenceTheorems, FiniteSetTheorems, TLAPS

-----------------------------------------------------------------------------
(* The pool as a list                                                      *)

\* Taking the first connection off the list leaves the others, shifted.
LEMMA TailPool ==
  ASSUME NEW S, NEW s \in Seq(S), s # <<>>
  PROVE  /\ Tail(s) \in Seq(S)
         /\ Head(s) \in S
         /\ Head(s) = s[1]
         /\ 1 \in DOMAIN s
         /\ DOMAIN Tail(s) = 1 .. (Len(s) - 1)
         /\ DOMAIN s = 1 .. Len(s)
         /\ \A i \in DOMAIN Tail(s) : i + 1 \in DOMAIN s /\ Tail(s)[i] = s[i + 1]
  <1>1. Len(s) \in Nat /\ Len(s) > 0 /\ DOMAIN s = 1 .. Len(s)
    BY EmptySeq, LenProperties
  <1>2. /\ Tail(s) \in Seq(S) /\ Len(Tail(s)) = Len(s) - 1
        /\ \A i \in 1 .. Len(Tail(s)) : Tail(s)[i] = s[i + 1]
    BY HeadTailProperties
  <1>3. Head(s) \in S /\ Head(s) = s[1]
    BY HeadTailProperties, <1>1 
  <1>4. DOMAIN Tail(s) = 1 .. (Len(s) - 1)
    BY <1>2, LenProperties
  <1> QED  BY <1>1, <1>2, <1>3, <1>4

\* Prepending a connection keeps the list and adds one element in front.
LEMMA PrependPool ==
  ASSUME NEW S, NEW s \in Seq(S), NEW c \in S
  PROVE  /\ <<c>> \o s \in Seq(S)
         /\ DOMAIN (<<c>> \o s) = 1 .. (Len(s) + 1)
         /\ DOMAIN s = 1 .. Len(s)
         /\ Len(s) \in Nat
         /\ (<<c>> \o s)[1] = c
         /\ \A i \in DOMAIN (<<c>> \o s) :
               i # 1 => i - 1 \in DOMAIN s /\ (<<c>> \o s)[i] = s[i - 1]
  <1>1. <<c>> \in Seq(S) /\ Len(<<c>>) = 1 /\ <<c>>[1] = c
    OBVIOUS
  <1>2. Len(s) \in Nat /\ DOMAIN s = 1 .. Len(s)
    BY LenProperties
  <1>3. /\ <<c>> \o s \in Seq(S) /\ Len(<<c>> \o s) = 1 + Len(s)
        /\ \A i \in 1 .. (1 + Len(s)) :
              (<<c>> \o s)[i] = IF i <= 1 THEN <<c>>[i] ELSE s[i - 1]
    BY ConcatProperties, <1>1, <1>2, Zenon
  <1>4. DOMAIN (<<c>> \o s) = 1 .. (Len(s) + 1)
    BY <1>2, <1>3, LenProperties
  <1> QED  BY <1>1, <1>2, <1>3, <1>4

-----------------------------------------------------------------------------
(* The inductive invariant                                                 *)

\* Who holds the rwlock: a reading request in its locked section holds it
\* once, a nested one twice (a leaked tree adds to that and is never taken
\* off), and the writing request that holds it holds it alone.
LockInv ==
    /\ \A t \in Threads : outer[t] # NoConn => pc[t] # "idle" /\ ~transaction[t]
    /\ \A t \in Threads : outer[t] # NoConn => readers[t] >= 1
    /\ \A t \in Threads : pc[t] \in LockSteps /\ ~transaction[t] => readers[t] >= 1
    /\ \A t \in Threads :
          pc[t] \in LockSteps /\ ~transaction[t] /\ outer[t] # NoConn => readers[t] >= 2
    /\ \A t \in Threads : writer = t <=> pc[t] \in LockSteps /\ transaction[t]
    /\ writer # NoThread => \A t \in Threads : readers[t] = 0

\* Every handle has at most one owner: a request, the query its callback runs
\* in, or a leaked tree.
OwnInv ==
    /\ \A t \in Threads : conn[t] = NoConn <=> pc[t] \notin ConnSteps
    /\ \A t, u \in Threads : t # u /\ conn[t] # NoConn => conn[t] # conn[u]
    /\ \A t, u \in Threads : t # u /\ outer[t] # NoConn => outer[t] # outer[u]
    /\ \A t, u \in Threads : outer[t] # NoConn => outer[t] # conn[u]
    /\ \A t \in Threads : conn[t] \notin lost /\ outer[t] \notin lost
    /\ \A t \in Threads : outer[t] # NoConn => t \in Nesters

\* Only handles that exist are owned or pooled.
BornInv ==
    /\ \A t \in Threads : conn[t] # NoConn => session[conn[t]] # "unborn"
    /\ \A t \in Threads : outer[t] # NoConn => session[outer[t]] # "unborn"
    /\ \A c \in lost : session[c] # "unborn"
    /\ \A i \in DOMAIN pool : session[pool[i]] # "unborn"

\* A pooled handle has no owner and is pooled once.
FreeInv ==
    /\ \A i \in DOMAIN pool : pool[i] \notin lost
    /\ \A i \in DOMAIN pool : \A t \in Threads : conn[t] # pool[i]
    /\ \A i \in DOMAIN pool : \A t \in Threads : outer[t] # pool[i]
    /\ \A i, j \in DOMAIN pool : pool[i] = pool[j] => i = j

ConnInv == OwnInv /\ BornInv /\ FreeInv

\* A transaction lives in an open session of a writing request in progress.
TxInv ==
    /\ \A t \in Threads : pc[t] = "begin" => transaction[t]
    /\ \A c \in Conns : inTx[c] =>
        /\ session[c] = "open"
        /\ \E t \in Threads : conn[t] = c /\ transaction[t] /\ pc[t] = "using"

\* What the counters of statements say while no session has been dropped.
DataInv ==
    /\ \A c \in Conns : ~inTx[c] => pending[c] = 0
    /\ \A t \in Threads : pc[t] \notin {"using", "give", "unlock"} =>
                              issued[t] = 0 /\ kept[t] = 0 /\ failed[t] = 0
    /\ \A t \in Threads : pc[t] \notin {"give", "unlock"} => outcome[t] = "none"
    /\ drops = 0 =>
        /\ \A c \in Conns : session[c] \in {"unborn", "open"}
        /\ \A t \in Threads : pc[t] = "using" /\ transaction[t] =>
              inTx[conn[t]] /\ pending[conn[t]] + failed[t] = issued[t] /\ kept[t] = 0
        /\ \A t \in Threads :
              /\ outcome[t] = "commit" => kept[t] + failed[t] = issued[t]
              /\ outcome[t] = "rollback" => kept[t] = 0

\* The connection a thread owns is one of Conns.
LEMMA OwnedConn ==
  ASSUME TypeOK, ConnInv, NEW t \in Threads, pc[t] \in ConnSteps
  PROVE  conn[t] \in Conns /\ session[conn[t]] # "unborn"
  BY DEF TypeOK, ConnInv, OwnInv, BornInv

\* dbi_conn_new() makes a handle nobody has.
LEMMA FreshConn ==
  ASSUME TypeOK, ConnInv, NEW t \in Threads, Create(t)
  PROVE  /\ Fresh \in Conns /\ session[Fresh] = "unborn"
         /\ session' = [session EXCEPT ![Fresh] = "open"]
         /\ conn' = [conn EXCEPT ![t] = Fresh]
  BY DEF Create, Fresh

\* Every step keeps the variables in their types.
LEMMA TypeStep ==
  ASSUME TypeOK, ConnInv, LockInv, [Next]_vars
  PROVE  TypeOK'
  <1>1. ASSUME NEW t \in Threads, NEW w \in BOOLEAN, Request(t, w) PROVE TypeOK'
    BY <1>1
    DEF Request, Goto, TypeOK, Steps, LockSteps, SessionStates, Outcomes, treeVars, lockVars, requestVars, dataVars
  <1>2. ASSUME NEW t \in Threads, WriterLock(t) PROVE TypeOK'
    BY <1>2
    DEF WriterLock, Goto, TypeOK, Steps, LockSteps, SessionStates, Outcomes, treeVars, lockVars, requestVars, dataVars
  <1>3. ASSUME NEW t \in Threads, ReaderLock(t) PROVE TypeOK'
    BY <1>3
    DEF ReaderLock, Goto, TypeOK, Steps, LockSteps, SessionStates, Outcomes, treeVars, lockVars, requestVars, dataVars
  <1>4. ASSUME NEW t \in Threads, Reuse(t) PROVE TypeOK'
    BY <1>4, TailPool
    DEF Reuse, Goto, AfterPool, TypeOK, Steps, LockSteps, SessionStates, Outcomes, treeVars, lockVars, requestVars, dataVars
  <1>5. ASSUME NEW t \in Threads, Discard(t) PROVE TypeOK'
    <2>1. pool' \in Seq(Conns) /\ Head(pool) \in Conns
      BY <1>5, TailPool DEF Discard, TypeOK
    <2>2. pc' \in [Threads -> Steps]
      BY <1>5 DEF Discard, Goto, AfterPool, TypeOK, Steps, LockSteps
    <2>3. conn' \in [Threads -> Conns \cup {NoConn}] /\ session' \in [Conns -> SessionStates]
      BY <1>5, <2>1 DEF Discard, TypeOK, SessionStates
    <2>5. UNCHANGED <<alive, treeVars, requestVars, lockVars, inTx, dataVars, drops>>
      BY <1>5 DEF Discard
    <2> QED
      BY <2>1, <2>2, <2>3, <2>5 DEF TypeOK, treeVars, lockVars, requestVars, dataVars
  <1>6. ASSUME NEW t \in Threads, Crash(t) PROVE TypeOK'
    BY <1>6
    DEF Crash, Goto, TypeOK, Steps, LockSteps, SessionStates, Outcomes, treeVars, lockVars, requestVars, dataVars
  <1>7. ASSUME NEW t \in Threads, PoolEmpty(t) PROVE TypeOK'
    BY <1>7
    DEF PoolEmpty, Goto, TypeOK, Steps, LockSteps, SessionStates, Outcomes, treeVars, lockVars, requestVars, dataVars
  <1>8. ASSUME NEW t \in Threads, Create(t) PROVE TypeOK'
    <2>1. Fresh \in Conns
      BY <1>8, FreshConn
    <2> QED
      BY <1>8, <2>1
      DEF Create, Goto, AfterPool, TypeOK, Steps, LockSteps, SessionStates, Outcomes, treeVars, lockVars, requestVars, dataVars
  <1>9. ASSUME NEW t \in Threads, CreateFails(t) PROVE TypeOK'
    BY <1>9
    DEF CreateFails, Goto, TypeOK, Steps, LockSteps, SessionStates, Outcomes, treeVars, lockVars, requestVars, dataVars
  <1>10. ASSUME NEW t \in Threads, Begin(t) PROVE TypeOK'
    <2>1. conn[t] \in Conns
      BY <1>10, OwnedConn DEF Begin, ConnSteps
    <2> QED
      BY <1>10, <2>1 DEF Begin, Goto, TypeOK, Steps, LockSteps, SessionStates, treeVars, lockVars, requestVars, dataVars
  <1>11. ASSUME NEW t \in Threads, Statement(t) PROVE TypeOK'
    <2>1. conn[t] \in Conns
      BY <1>11, OwnedConn DEF Statement, ConnSteps
    <2>a. issued' \in [Threads -> Nat]
      BY <1>11 DEF Statement, TypeOK
    <2>b. session' = session \/ session' = [session EXCEPT ![conn[t]] = "open"]
      BY <1>11 DEF Statement
    <2>2. issued' \in [Threads -> Nat] /\ session' \in [Conns -> SessionStates]
      BY <2>1, <2>a, <2>b DEF TypeOK, SessionStates
    <2>3. pending' \in [Conns -> Nat] /\ kept' \in [Threads -> Nat]
      <3>1. \/ pending' = [pending EXCEPT ![conn[t]] = pending[conn[t]] + 1] /\ kept' = kept
            \/ kept' = [kept EXCEPT ![t] = kept[t] + 1] /\ pending' = pending
            \/ kept' = kept /\ pending' = pending
        BY <1>11 DEF Statement
      <3>2. pending \in [Conns -> Nat] /\ kept \in [Threads -> Nat]
        BY DEF TypeOK
      <3>3. pending[conn[t]] + 1 \in Nat /\ kept[t] + 1 \in Nat
        BY <2>1, <3>2
      <3>4. pending' \in [Conns -> Nat]
        BY <3>1, <3>2, <3>3, Zenon
      <3>5. kept' \in [Threads -> Nat]
        BY <3>1, <3>2, <3>3, Zenon
      <3> QED  BY <3>4, <3>5
    <2>4. failed' \in [Threads -> Nat]
      <3>1. failed' = failed \/ failed' = [failed EXCEPT ![t] = failed[t] + 1]
        BY <1>11 DEF Statement
      <3>2. failed \in [Threads -> Nat]
        BY DEF TypeOK
      <3>3. failed[t] + 1 \in Nat
        BY <3>2
      <3> QED  BY <3>1, <3>2, <3>3, Zenon
    <2> QED
      BY <1>11, <2>2, <2>3, <2>4 DEF Statement, TypeOK, treeVars, lockVars, requestVars
  <1>12. ASSUME NEW t \in Threads, NEW how \in {"commit", "rollback"}, EndTransaction(t, how) PROVE TypeOK'
    <2>1. conn[t] \in Conns
      BY <1>12, OwnedConn DEF EndTransaction, ConnSteps
    <2>2. outcome' \in [Threads -> Outcomes] /\ session' \in [Conns -> SessionStates]
      BY <1>12, <2>1 DEF EndTransaction, TypeOK, SessionStates, Outcomes
    <2>3. pending' \in [Conns -> Nat] /\ inTx' \in [Conns -> BOOLEAN]
      <3>1. pending' = [pending EXCEPT ![conn[t]] = 0] \/ pending' = pending
        BY <1>12 DEF EndTransaction
      <3>0. pending \in [Conns -> Nat] /\ 0 \in Nat
        BY DEF TypeOK
      <3>2. pending' \in [Conns -> Nat]
        BY <3>0, <3>1, Zenon
      <3>3. inTx' = [inTx EXCEPT ![conn[t]] = FALSE] \/ inTx' = inTx
        BY <1>12 DEF EndTransaction
      <3>4. inTx' \in [Conns -> BOOLEAN]
        BY <3>3, Zenon DEF TypeOK
      <3> QED  BY <3>2, <3>4
    <2>4. kept' \in [Threads -> Nat]
      <3>1. \/ kept' = [kept EXCEPT ![t] = kept[t] + pending[conn[t]]]
            \/ kept' = [kept EXCEPT ![t] = kept[t]]
            \/ kept' = kept
        BY <1>12 DEF EndTransaction
      <3> QED  BY <2>1, <3>1 DEF TypeOK
    <2> QED
      BY <1>12, <2>2, <2>3, <2>4 DEF EndTransaction, Goto, TypeOK, Steps, LockSteps, treeVars, lockVars
  <1>13. ASSUME NEW t \in Threads, EndReading(t) PROVE TypeOK'
    BY <1>13
    DEF EndReading, Goto, TypeOK, Steps, LockSteps, SessionStates, Outcomes, treeVars, lockVars, requestVars, dataVars
  <1>14. ASSUME NEW t \in Threads, Give(t) PROVE TypeOK'
    <2>1. conn[t] \in Conns
      BY <1>14, OwnedConn DEF Give, ConnSteps
    <2>2. <<conn[t]>> \o pool \in Seq(Conns)
      BY <2>1, PrependPool DEF TypeOK
    <2> QED
      BY <1>14, <2>2 DEF Give, Goto, TypeOK, Steps, LockSteps, treeVars, lockVars, requestVars, dataVars
  <1>15. ASSUME NEW t \in Threads, Unlock(t) PROVE TypeOK'
    <2>1. ~transaction[t] => readers[t] - 1 \in Nat
      BY <1>15 DEF Unlock, LockInv, LockSteps, TypeOK
    <2>2. readers' \in [Threads -> Nat]
      BY <1>15, <2>1 DEF Unlock, TypeOK
    <2>3. writer' \in Threads \cup {NoThread}
      BY <1>15 DEF Unlock, TypeOK
    <2> QED
      BY <1>15, <2>2, <2>3
      DEF Unlock, EndTree, Goto, TypeOK, Steps, LockSteps, SessionStates, Outcomes, treeVars, lockVars, requestVars, dataVars
  <1>16. ASSUME NEW t \in Threads, Leak(t) PROVE TypeOK'
    <2>1. conn[t] \in Conns
      BY <1>16, OwnedConn DEF Leak, ConnSteps
    <2> QED
      BY <1>16, <2>1
      DEF Leak, EndTree, Goto, TypeOK, Steps, LockSteps, SessionStates, Outcomes, treeVars, lockVars, requestVars, dataVars
  <1>17. ASSUME NEW t \in Threads, Nest(t) PROVE TypeOK'
    BY <1>17
    DEF Nest, Goto, Nested, TypeOK, Steps, LockSteps, SessionStates, Outcomes, treeVars, lockVars, requestVars, dataVars
  <1>18. ASSUME NEW c \in Conns, Drop(c) PROVE TypeOK'
    BY <1>18
    DEF Drop, Goto, TypeOK, Steps, LockSteps, SessionStates, Outcomes, treeVars, lockVars, requestVars, dataVars
  <1>19. CASE UNCHANGED vars
    BY <1>19 DEF vars, TypeOK, Steps, LockSteps, SessionStates, Outcomes
  <1> QED
    BY <1>1, <1>2, <1>3, <1>4, <1>5, <1>6, <1>7, <1>8, <1>9, <1>10, <1>11, <1>12, <1>13, <1>14, <1>15, <1>16, <1>17, <1>18, <1>19
    DEF Next, Running, Dead, Stuck, Step, Acquire, Finish, Release, Die

\* Every step keeps the bookkeeping of the rwlock.
LEMMA LockStep ==
  ASSUME TypeOK, LockInv, ConnInv, [Next]_vars
  PROVE  LockInv'
  <1>1. ASSUME NEW t \in Threads, NEW w \in BOOLEAN, Request(t, w) PROVE LockInv'
    BY <1>1
    DEF Request, Goto, TypeOK, LockInv, LockSteps, treeVars, lockVars, requestVars, dataVars
  <1>2. ASSUME NEW t \in Threads, WriterLock(t) PROVE LockInv'
    BY <1>2, ThreadsAssumption
    DEF WriterLock, Goto, TypeOK, LockInv, LockSteps, treeVars, lockVars, requestVars, dataVars
  <1>3. ASSUME NEW t \in Threads, ReaderLock(t) PROVE LockInv'
    BY <1>3, ThreadsAssumption
    DEF ReaderLock, Goto, TypeOK, LockInv, LockSteps, treeVars, lockVars, requestVars, dataVars
  <1>4. ASSUME NEW t \in Threads, Reuse(t) PROVE LockInv'
    BY <1>4
    DEF Reuse, Goto, AfterPool, TypeOK, LockInv, LockSteps, treeVars, lockVars, requestVars, dataVars
  <1>5. ASSUME NEW t \in Threads, Discard(t) PROVE LockInv'
    BY <1>5
    DEF Discard, Goto, AfterPool, TypeOK, LockInv, LockSteps, treeVars, lockVars, requestVars, dataVars
  <1>6. ASSUME NEW t \in Threads, Crash(t) PROVE LockInv'
    BY <1>6
    DEF Crash, Goto, TypeOK, LockInv, LockSteps, treeVars, lockVars, requestVars, dataVars
  <1>7. ASSUME NEW t \in Threads, PoolEmpty(t) PROVE LockInv'
    BY <1>7
    DEF PoolEmpty, Goto, TypeOK, LockInv, LockSteps, treeVars, lockVars, requestVars, dataVars
  <1>8. ASSUME NEW t \in Threads, Create(t) PROVE LockInv'
    BY <1>8
    DEF Create, Goto, AfterPool, TypeOK, LockInv, LockSteps, treeVars, lockVars, requestVars, dataVars
  <1>9. ASSUME NEW t \in Threads, CreateFails(t) PROVE LockInv'
    BY <1>9
    DEF CreateFails, Goto, TypeOK, LockInv, LockSteps, treeVars, lockVars, requestVars, dataVars
  <1>10. ASSUME NEW t \in Threads, Begin(t) PROVE LockInv'
    BY <1>10
    DEF Begin, Goto, Reachable, Unreachable, TypeOK, LockInv, LockSteps, treeVars, lockVars, requestVars, dataVars
  <1>11. ASSUME NEW t \in Threads, Statement(t) PROVE LockInv'
    BY <1>11
    DEF Statement, Goto, Reachable, Unreachable, StillInTx, TypeOK, LockInv, LockSteps, treeVars, lockVars, requestVars, dataVars
  <1>12. ASSUME NEW t \in Threads, NEW how \in {"commit", "rollback"}, EndTransaction(t, how) PROVE LockInv'
    BY <1>12
    DEF EndTransaction, Goto, Reachable, Unreachable, StillInTx, TypeOK, LockInv, LockSteps, treeVars, lockVars, requestVars, dataVars
  <1>13. ASSUME NEW t \in Threads, EndReading(t) PROVE LockInv'
    BY <1>13
    DEF EndReading, Goto, TypeOK, LockInv, LockSteps, treeVars, lockVars, requestVars, dataVars
  <1>14. ASSUME NEW t \in Threads, Give(t) PROVE LockInv'
    BY <1>14
    DEF Give, Goto, TypeOK, LockInv, LockSteps, treeVars, lockVars, requestVars, dataVars
  <1>15. ASSUME NEW t \in Threads, Unlock(t) PROVE LockInv'
    BY SMTT(40), <1>15, ThreadsAssumption
    DEF Unlock, Goto, EndTree, Nested, TypeOK, LockInv, LockSteps, treeVars, lockVars, requestVars, dataVars
  <1>16. ASSUME NEW t \in Threads, Leak(t) PROVE LockInv'
    BY <1>16
    DEF Leak, Goto, EndTree, Nested, TypeOK, LockInv, LockSteps, treeVars, lockVars, requestVars, dataVars
  <1>17. ASSUME NEW t \in Threads, Nest(t) PROVE LockInv'
    BY <1>17
    DEF Nest, Goto, Nested, TypeOK, LockInv, LockSteps, treeVars, lockVars, requestVars, dataVars
  <1>18. ASSUME NEW c \in Conns, Drop(c) PROVE LockInv'
    BY <1>18
    DEF Drop, Goto, TypeOK, LockInv, LockSteps, treeVars, lockVars, requestVars, dataVars
  <1>19. CASE UNCHANGED vars
    BY <1>19 DEF vars, TypeOK, LockInv, LockSteps
  <1> QED
    BY <1>1, <1>2, <1>3, <1>4, <1>5, <1>6, <1>7, <1>8, <1>9, <1>10, <1>11, <1>12, <1>13, <1>14, <1>15, <1>16, <1>17, <1>18, <1>19
    DEF Next, Running, Dead, Stuck, Step, Acquire, Finish, Release, Die

\* Taking the first pooled connection moves it from the pool to its thread.
LEMMA TakeStep ==
  ASSUME TypeOK, ConnInv, NEW t \in Threads, Reuse(t) \/ Discard(t)
  PROVE  ConnInv'
  <1> DEFINE h == Head(pool)
  <1>1. /\ h \in Conns /\ h = pool[1] /\ 1 \in DOMAIN pool
        /\ DOMAIN pool' \subseteq Nat \ {0}
        /\ \A i \in DOMAIN pool' : i + 1 \in DOMAIN pool /\ pool'[i] = pool[i + 1]
    <2>1. pool \in Seq(Conns) /\ pool # <<>> /\ pool' = Tail(pool)
      BY DEF Reuse, Discard, TypeOK
    <2> QED  BY <2>1, TailPool
  <1>2. /\ pc[t] = "take" /\ pc'[t] \in ConnSteps
        /\ \A u \in Threads \ {t} : pc'[u] = pc[u] /\ conn'[u] = conn[u]
        /\ conn'[t] = h
    BY <1>1 DEF Reuse, Discard, Goto, AfterPool, TypeOK, ConnSteps
  <1>3. outer' = outer /\ lost' = lost
    BY DEF Reuse, Discard, treeVars
  <1>4. /\ session[h] # "unborn" /\ session'[h] # "unborn"
        /\ \A c \in Conns \ {h} : session'[c] = session[c]
    BY <1>1 DEF Reuse, Discard, TypeOK
  <1>5. conn[t] = NoConn
    BY <1>2 DEF ConnInv, OwnInv, ConnSteps
  <1>6. \A i \in DOMAIN pool' : pool'[i] # h /\ pool'[i] \in Conns
    <2> SUFFICES ASSUME NEW i \in DOMAIN pool' PROVE pool'[i] # h /\ pool'[i] \in Conns
      OBVIOUS
    <2>1. i \in Nat \ {0} /\ i + 1 # 1
      BY <1>1
    <2> QED  BY <1>1, <2>1 DEF ConnInv, FreeInv, TypeOK
  <1>7. h \notin lost /\ \A u \in Threads : conn[u] # h /\ outer[u] # h
    BY <1>1 DEF ConnInv, FreeInv
  <1> HIDE DEF h
  <1>8. OwnInv'
    BY <1>1, <1>2, <1>3, <1>5, <1>7, ConnsAssumption DEF ConnInv, OwnInv
  <1>9. BornInv'
    <2>1. ASSUME NEW u \in Threads, conn'[u] # NoConn PROVE session'[conn'[u]] # "unborn"
      <3>1. CASE u = t
        BY <1>2, <1>4, <3>1
      <3>2. CASE u # t
        <4>1. conn[u] \in Conns \ {h} /\ conn'[u] = conn[u] /\ session[conn[u]] # "unborn"
          BY <1>2, <1>7, <2>1, <3>2 DEF ConnInv, BornInv, TypeOK
        <4> QED  BY <1>4, <4>1
      <3> QED  BY <3>1, <3>2
    <2>2. ASSUME NEW u \in Threads, outer'[u] # NoConn PROVE session'[outer'[u]] # "unborn"
      <3>1. outer[u] \in Conns \ {h} /\ session[outer[u]] # "unborn"
        BY <1>3, <1>7, <2>2 DEF ConnInv, BornInv, TypeOK
      <3> QED  BY <1>3, <1>4, <3>1
    <2>3. ASSUME NEW c \in lost' PROVE session'[c] # "unborn"
      <3>1. c \in Conns \ {h} /\ session[c] # "unborn"
        BY <1>3, <1>7 DEF ConnInv, BornInv, TypeOK
      <3> QED  BY <1>4, <3>1
    <2>4. \A i \in DOMAIN pool' : session'[pool'[i]] # "unborn"
      BY <1>1, <1>4, <1>6 DEF ConnInv, BornInv
    <2> QED  BY <2>1, <2>2, <2>3, <2>4 DEF BornInv
  <1>10. FreeInv'
    <2>1. \A i \in DOMAIN pool' : pool'[i] \notin lost'
      BY <1>1, <1>3 DEF ConnInv, FreeInv
    <2>2. \A i \in DOMAIN pool' : \A u \in Threads : conn'[u] # pool'[i]
      BY <1>1, <1>2, <1>6 DEF ConnInv, FreeInv
    <2>3. \A i \in DOMAIN pool' : \A u \in Threads : outer'[u] # pool'[i]
      BY <1>1, <1>3 DEF ConnInv, FreeInv
    <2>4. ASSUME NEW i \in DOMAIN pool', NEW j \in DOMAIN pool', pool'[i] = pool'[j]
          PROVE  i = j
      <3>1. i + 1 = j + 1
        BY <1>1, <2>4 DEF ConnInv, FreeInv
      <3> QED  BY <1>1, <3>1
    <2> QED  BY <2>1, <2>2, <2>3, <2>4 DEF FreeInv
  <1> QED  BY <1>8, <1>9, <1>10 DEF ConnInv

\* A step that changes no owner and makes no handle keeps every owner.
LEMMA SameOwners ==
  ASSUME ConnInv, UNCHANGED <<conn, outer, lost, pool>>,
         \A t \in Threads : pc'[t] \in ConnSteps <=> pc[t] \in ConnSteps,
         \A t \in Threads : conn[t] # NoConn => session'[conn[t]] # "unborn",
         \A t \in Threads : outer[t] # NoConn => session'[outer[t]] # "unborn",
         \A c \in lost : session'[c] # "unborn",
         \A i \in DOMAIN pool : session'[pool[i]] # "unborn"
  PROVE  ConnInv'
  <1>1. OwnInv'
    BY DEF ConnInv, OwnInv
  <1>2. BornInv'
    BY DEF BornInv
  <1>3. FreeInv'
    BY DEF ConnInv, FreeInv
  <1> QED  BY <1>1, <1>2, <1>3 DEF ConnInv

\* A session that exists goes on existing whatever becomes of it.
LEMMA SessionChange ==
  ASSUME TypeOK, ConnInv, NEW k \in Conns, NEW how \in SessionStates \ {"unborn"},
         session' = session \/ session' = [session EXCEPT ![k] = how]
  PROVE  /\ \A t \in Threads : conn[t] # NoConn => session'[conn[t]] # "unborn"
         /\ \A t \in Threads : outer[t] # NoConn => session'[outer[t]] # "unborn"
         /\ \A c \in lost : session'[c] # "unborn"
         /\ \A i \in DOMAIN pool : session'[pool[i]] # "unborn"
  <1>1. \A c \in Conns : session[c] # "unborn" => session'[c] # "unborn"
    BY DEF TypeOK
  <1>2. \A i \in DOMAIN pool : pool[i] \in Conns
    BY LenProperties DEF TypeOK
  <1>3. \A t \in Threads : conn[t] # NoConn => conn[t] \in Conns
    BY DEF TypeOK
  <1>4. \A t \in Threads : outer[t] # NoConn => outer[t] \in Conns
    BY DEF TypeOK
  <1>5. lost \subseteq Conns
    BY DEF TypeOK
  <1> QED  BY <1>1, <1>2, <1>3, <1>4, <1>5 DEF ConnInv, BornInv

\* Every step keeps handles with a single owner.
LEMMA ConnStep ==
  ASSUME TypeOK, ConnInv, [Next]_vars
  PROVE  ConnInv'
  <1>1. ASSUME NEW t \in Threads, NEW w \in BOOLEAN, Request(t, w) PROVE ConnInv'
    <2>1. UNCHANGED <<conn, outer, lost, pool>>
      BY <1>1 DEF Request, treeVars
    <2>2. \A u \in Threads : pc'[u] \in ConnSteps <=> pc[u] \in ConnSteps
      BY <1>1 DEF Request, Goto, TypeOK, ConnSteps
    <2>3. session' = session
      BY <1>1 DEF Request
    <2> QED  BY <2>1, <2>2, <2>3, SameOwners DEF ConnInv, BornInv
  <1>2. ASSUME NEW t \in Threads, WriterLock(t) PROVE ConnInv'
    <2>1. UNCHANGED <<conn, outer, lost, pool>>
      BY <1>2 DEF WriterLock, treeVars
    <2>2. \A u \in Threads : pc'[u] \in ConnSteps <=> pc[u] \in ConnSteps
      BY <1>2 DEF WriterLock, Goto, TypeOK, ConnSteps
    <2>3. session' = session
      BY <1>2 DEF WriterLock
    <2> QED  BY <2>1, <2>2, <2>3, SameOwners DEF ConnInv, BornInv
  <1>3. ASSUME NEW t \in Threads, ReaderLock(t) PROVE ConnInv'
    <2>1. UNCHANGED <<conn, outer, lost, pool>>
      BY <1>3 DEF ReaderLock, treeVars
    <2>2. \A u \in Threads : pc'[u] \in ConnSteps <=> pc[u] \in ConnSteps
      BY <1>3 DEF ReaderLock, Goto, TypeOK, ConnSteps
    <2>3. session' = session
      BY <1>3 DEF ReaderLock
    <2> QED  BY <2>1, <2>2, <2>3, SameOwners DEF ConnInv, BornInv
  <1>4. ASSUME NEW t \in Threads, Reuse(t) PROVE ConnInv'
    BY <1>4, TakeStep
  <1>5. ASSUME NEW t \in Threads, Discard(t) PROVE ConnInv'
    BY <1>5, TakeStep
  <1>6. ASSUME NEW t \in Threads, Crash(t) PROVE ConnInv'
    <2>1. UNCHANGED <<conn, outer, lost, pool>>
      BY <1>6 DEF Crash, treeVars
    <2>2. \A u \in Threads : pc'[u] \in ConnSteps <=> pc[u] \in ConnSteps
      BY <1>6 DEF Crash, Goto, TypeOK, ConnSteps
    <2>3. session' = session
      BY <1>6 DEF Crash
    <2> QED  BY <2>1, <2>2, <2>3, SameOwners DEF ConnInv, BornInv
  <1>7. ASSUME NEW t \in Threads, PoolEmpty(t) PROVE ConnInv'
    <2>1. UNCHANGED <<conn, outer, lost, pool>>
      BY <1>7 DEF PoolEmpty, treeVars
    <2>2. \A u \in Threads : pc'[u] \in ConnSteps <=> pc[u] \in ConnSteps
      BY <1>7 DEF PoolEmpty, Goto, TypeOK, ConnSteps
    <2>3. session' = session
      BY <1>7 DEF PoolEmpty
    <2> QED  BY <2>1, <2>2, <2>3, SameOwners DEF ConnInv, BornInv
  <1>8. ASSUME NEW t \in Threads, Create(t) PROVE ConnInv'
    <2>1. /\ Fresh \in Conns /\ session[Fresh] = "unborn"
          /\ session' = [session EXCEPT ![Fresh] = "open"]
          /\ conn' = [conn EXCEPT ![t] = Fresh]
      BY <1>8, FreshConn
    <2>2. PICK c \in Conns : /\ session[c] = "unborn"
                             /\ session' = [session EXCEPT ![c] = "open"]
                             /\ conn' = [conn EXCEPT ![t] = c]
      BY <2>1
    <2>3. /\ UNCHANGED <<outer, lost, pool>> /\ c # NoConn
          /\ pc'[t] \in ConnSteps /\ \A u \in Threads \ {t} : pc'[u] = pc[u]
      BY <1>8, ConnsAssumption DEF Create, Goto, AfterPool, TypeOK, ConnSteps, treeVars
    <2>4. \A i \in DOMAIN pool : pool[i] \in Conns /\ pool[i] # c
      BY <2>2, LenProperties DEF ConnInv, BornInv, TypeOK
    <2>5. c \notin lost /\ \A u \in Threads : conn[u] # c /\ outer[u] # c
      BY <2>2, <2>3 DEF ConnInv, BornInv
    <2>6. conn'[t] = c /\ \A u \in Threads \ {t} : conn'[u] = conn[u]
      BY <2>2 DEF TypeOK
    <2>7. session'[c] # "unborn" /\ \A d \in Conns \ {c} : session'[d] = session[d]
      BY <2>2 DEF TypeOK
    <2>8. OwnInv'
      BY <2>3, <2>5, <2>6 DEF ConnInv, OwnInv
    <2>9. BornInv'
      <3>1. \A u \in Threads : outer[u] # NoConn => outer[u] \in Conns \ {c}
        BY <2>5 DEF TypeOK
      <3>2. \A u \in Threads \ {t} : conn[u] # NoConn => conn[u] \in Conns \ {c}
        BY <2>5 DEF TypeOK
      <3>3. lost \subseteq Conns \ {c}
        BY <2>5 DEF TypeOK
      <3> QED  BY <2>3, <2>4, <2>6, <2>7, <3>1, <3>2, <3>3 DEF ConnInv, BornInv
    <2>10. FreeInv'
      BY <2>3, <2>4, <2>6 DEF ConnInv, FreeInv
    <2> QED  BY <2>8, <2>9, <2>10 DEF ConnInv
  <1>9. ASSUME NEW t \in Threads, CreateFails(t) PROVE ConnInv'
    <2>1. UNCHANGED <<conn, outer, lost, pool>>
      BY <1>9 DEF CreateFails, treeVars
    <2>2. \A u \in Threads : pc'[u] \in ConnSteps <=> pc[u] \in ConnSteps
      BY <1>9 DEF CreateFails, Goto, TypeOK, ConnSteps
    <2>3. session' = session
      BY <1>9 DEF CreateFails
    <2> QED  BY <2>1, <2>2, <2>3, SameOwners DEF ConnInv, BornInv
  <1>10. ASSUME NEW t \in Threads, Begin(t) PROVE ConnInv'
    <2>1. UNCHANGED <<conn, outer, lost, pool>>
      BY <1>10 DEF Begin, treeVars
    <2>2. \A u \in Threads : pc'[u] \in ConnSteps <=> pc[u] \in ConnSteps
      BY <1>10 DEF Begin, Goto, TypeOK, ConnSteps
    <2>3. conn[t] \in Conns
      BY <1>10, OwnedConn DEF Begin, ConnSteps
    <2>4. session' = session \/ session' = [session EXCEPT ![conn[t]] = "open"]
      BY <1>10 DEF Begin
    <2> QED  BY <2>3, <2>1, <2>2, <2>4, SessionChange, SameOwners DEF SessionStates
  <1>11. ASSUME NEW t \in Threads, Statement(t) PROVE ConnInv'
    <2>1. UNCHANGED <<conn, outer, lost, pool>>
      BY <1>11 DEF Statement, treeVars
    <2>2. \A u \in Threads : pc'[u] \in ConnSteps <=> pc[u] \in ConnSteps
      BY <1>11 DEF Statement, Goto, TypeOK, ConnSteps
    <2>3. conn[t] \in Conns
      BY <1>11, OwnedConn DEF Statement, ConnSteps
    <2>4. session' = session \/ session' = [session EXCEPT ![conn[t]] = "open"]
      BY <1>11 DEF Statement
    <2> QED  BY <2>3, <2>1, <2>2, <2>4, SessionChange, SameOwners DEF SessionStates
  <1>12. ASSUME NEW t \in Threads, NEW how \in {"commit", "rollback"}, EndTransaction(t, how) PROVE ConnInv'
    <2>1. UNCHANGED <<conn, outer, lost, pool>>
      BY <1>12 DEF EndTransaction, treeVars
    <2>2. \A u \in Threads : pc'[u] \in ConnSteps <=> pc[u] \in ConnSteps
      BY <1>12 DEF EndTransaction, Goto, TypeOK, ConnSteps
    <2>3. conn[t] \in Conns
      BY <1>12, OwnedConn DEF EndTransaction, ConnSteps
    <2>4. session' = session \/ session' = [session EXCEPT ![conn[t]] = "open"]
      BY <1>12 DEF EndTransaction
    <2> QED  BY <2>3, <2>1, <2>2, <2>4, SessionChange, SameOwners DEF SessionStates
  <1>13. ASSUME NEW t \in Threads, EndReading(t) PROVE ConnInv'
    <2>1. UNCHANGED <<conn, outer, lost, pool>>
      BY <1>13 DEF EndReading, treeVars
    <2>2. \A u \in Threads : pc'[u] \in ConnSteps <=> pc[u] \in ConnSteps
      BY <1>13 DEF EndReading, Goto, TypeOK, ConnSteps
    <2>3. session' = session
      BY <1>13 DEF EndReading
    <2> QED  BY <2>1, <2>2, <2>3, SameOwners DEF ConnInv, BornInv
  <1>14. ASSUME NEW t \in Threads, Give(t) PROVE ConnInv'
    <2> DEFINE h == conn[t]
    <2>1. h \in Conns /\ session[h] # "unborn" /\ h # NoConn
      BY <1>14, OwnedConn, ConnsAssumption DEF Give, ConnSteps
    <2>2. /\ DOMAIN pool' \subseteq Nat \ {0} /\ DOMAIN pool \subseteq Nat /\ pool'[1] = h
          /\ \A i \in DOMAIN pool' : i # 1 => i - 1 \in DOMAIN pool /\ pool'[i] = pool[i - 1]
      BY SMTT(40), <1>14, <2>1, PrependPool DEF Give, TypeOK
    <2>3. /\ pc'[t] = "unlock" /\ conn'[t] = NoConn /\ session' = session
          /\ \A u \in Threads \ {t} : pc'[u] = pc[u] /\ conn'[u] = conn[u]
      BY <1>14 DEF Give, Goto, TypeOK
    <2>4. outer' = outer /\ lost' = lost
      BY <1>14 DEF Give, treeVars
    <2>5. \A i \in DOMAIN pool : pool[i] \in Conns
      BY LenProperties DEF TypeOK
    <2>6. h \notin lost /\ \A u \in Threads : outer[u] # h
      BY <2>1 DEF ConnInv, OwnInv
    <2>7. \A u \in Threads \ {t} : conn[u] # h
      BY <2>1 DEF ConnInv, OwnInv
    <2> HIDE DEF h
    <2>8. OwnInv'
      <3>0. NoConn \notin lost
        BY ConnsAssumption DEF TypeOK
      <3>1. \A u \in Threads : (conn'[u] = NoConn) <=> (pc'[u] \notin ConnSteps)
        BY <2>3, <2>4 DEF ConnInv, OwnInv, ConnSteps
      <3>2. \A u, v \in Threads : u # v /\ conn'[u] # NoConn => conn'[u] # conn'[v]
        BY <2>3, <2>4 DEF ConnInv, OwnInv
      <3>3. \A u, v \in Threads : u # v /\ outer'[u] # NoConn => outer'[u] # outer'[v]
        BY <2>3, <2>4 DEF ConnInv, OwnInv
      <3>4. \A u, v \in Threads : outer'[u] # NoConn => outer'[u] # conn'[v]
        BY <2>3, <2>4 DEF ConnInv, OwnInv
      <3>5. \A u \in Threads : conn'[u] \notin lost' /\ outer'[u] \notin lost'
        BY <2>3, <2>4, <3>0 DEF ConnInv, OwnInv
      <3>6. \A u \in Threads : outer'[u] # NoConn => u \in Nesters
        BY <2>3, <2>4 DEF ConnInv, OwnInv
      <3> QED  BY <3>1, <3>2, <3>3, <3>4, <3>5, <3>6 DEF OwnInv
    <2>9. BornInv'
      BY <2>1, <2>2, <2>3, <2>4 DEF ConnInv, BornInv
    <2>10. \A i \in DOMAIN pool' : pool'[i] \notin lost' /\ pool'[i] # NoConn
      BY <2>1, <2>2, <2>4, <2>5, <2>6, ConnsAssumption DEF ConnInv, FreeInv
    <2>11. \A i \in DOMAIN pool' : \A u \in Threads : outer'[u] # pool'[i]
      BY <2>2, <2>4, <2>6 DEF ConnInv, FreeInv
    <2>12. \A i \in DOMAIN pool' : \A u \in Threads : conn'[u] # pool'[i]
      <3> SUFFICES ASSUME NEW i \in DOMAIN pool', NEW u \in Threads
                   PROVE  conn'[u] # pool'[i]
        OBVIOUS
      <3>1. CASE u = t
        BY <2>3, <2>10, <3>1
      <3>2. CASE u # t
        BY <2>2, <2>3, <2>7, <3>2 DEF ConnInv, FreeInv
      <3> QED  BY <3>1, <3>2
    <2>13. ASSUME NEW i \in DOMAIN pool', NEW j \in DOMAIN pool', pool'[i] = pool'[j]
           PROVE  i = j
      <3>0. \A n \in DOMAIN pool : pool[n] # h
        BY DEF ConnInv, FreeInv, h
      <3>1. CASE i # 1 /\ j # 1
        <4>1. i - 1 = j - 1
          BY <2>2, <2>13, <3>1 DEF ConnInv, FreeInv
        <4> QED  BY <2>2, <4>1
      <3>2. CASE i = 1 \/ j = 1
        BY <2>2, <2>13, <3>0, <3>2
      <3> QED  BY <3>1, <3>2
    <2>14. FreeInv'
      BY <2>10, <2>11, <2>12, <2>13 DEF FreeInv
    <2> QED  BY <2>8, <2>9, <2>14 DEF ConnInv
  <1>15. ASSUME NEW t \in Threads, Unlock(t) PROVE ConnInv'
    <2>1. /\ pc'[t] = (IF outer[t] # NoConn THEN "using" ELSE "idle")
          /\ conn'[t] = outer[t] /\ outer'[t] = NoConn
          /\ \A u \in Threads \ {t} : pc'[u] = pc[u] /\ conn'[u] = conn[u] /\ outer'[u] = outer[u]
      BY <1>15 DEF Unlock, EndTree, Nested, Goto, TypeOK
    <2>2. pool' = pool /\ session' = session
      BY <1>15 DEF Unlock
    <2>3. lost' = lost /\ conn[t] = NoConn
      BY <1>15 DEF Unlock, ConnInv, OwnInv, ConnSteps
    <2>4. OwnInv'
      <3>0. NoConn \notin lost
        BY ConnsAssumption DEF TypeOK
      <3>1. \A u \in Threads : (conn'[u] = NoConn) <=> (pc'[u] \notin ConnSteps)
        BY <2>1, <2>3 DEF ConnInv, OwnInv, ConnSteps
      <3>2. \A u, v \in Threads : u # v /\ conn'[u] # NoConn => conn'[u] # conn'[v]
        BY <2>1, <2>3 DEF ConnInv, OwnInv
      <3>3. \A u, v \in Threads : u # v /\ outer'[u] # NoConn => outer'[u] # outer'[v]
        BY <2>1, <2>3 DEF ConnInv, OwnInv
      <3>4. \A u, v \in Threads : outer'[u] # NoConn => outer'[u] # conn'[v]
        BY <2>1, <2>3 DEF ConnInv, OwnInv
      <3>5. \A u \in Threads : conn'[u] \notin lost' /\ outer'[u] \notin lost'
        BY <2>1, <2>3, <3>0 DEF ConnInv, OwnInv
      <3>6. \A u \in Threads : outer'[u] # NoConn => u \in Nesters
        BY <2>1, <2>3 DEF ConnInv, OwnInv
      <3> QED  BY <3>1, <3>2, <3>3, <3>4, <3>5, <3>6 DEF OwnInv
    <2>5. BornInv'
      BY <2>1, <2>2, <2>3 DEF ConnInv, BornInv
    <2>6. \A i \in DOMAIN pool : pool[i] \in Conns
      BY LenProperties DEF TypeOK
    <2>7. FreeInv'
      BY <2>1, <2>2, <2>3, <2>6, ConnsAssumption DEF ConnInv, FreeInv
    <2> QED  BY <2>4, <2>5, <2>7 DEF ConnInv
  <1>16. ASSUME NEW t \in Threads, Leak(t) PROVE ConnInv'
    <2>1. /\ pc'[t] = (IF outer[t] # NoConn THEN "using" ELSE "idle")
          /\ conn'[t] = outer[t] /\ outer'[t] = NoConn
          /\ \A u \in Threads \ {t} : pc'[u] = pc[u] /\ conn'[u] = conn[u] /\ outer'[u] = outer[u]
      BY <1>16 DEF Leak, EndTree, Nested, Goto, TypeOK
    <2>2. pool' = pool /\ session' = session
      BY <1>16 DEF Leak
    <2>3. /\ lost' = lost \cup {conn[t]} /\ conn[t] \in Conns /\ conn[t] # NoConn
          /\ session[conn[t]] # "unborn"
      BY <1>16, OwnedConn, ConnsAssumption DEF Leak, ConnSteps
    <2>4. \A u \in Threads : outer[u] # conn[t] /\ (u # t => conn[u] # conn[t])
      BY <2>3 DEF ConnInv, OwnInv
    <2>5. OwnInv'
      <3>0. NoConn \notin lost
        BY ConnsAssumption DEF TypeOK
      <3>1. \A u \in Threads : (conn'[u] = NoConn) <=> (pc'[u] \notin ConnSteps)
        BY <2>1, <2>3, <2>4 DEF ConnInv, OwnInv, ConnSteps
      <3>2. \A u, v \in Threads : u # v /\ conn'[u] # NoConn => conn'[u] # conn'[v]
        BY <2>1, <2>3, <2>4 DEF ConnInv, OwnInv
      <3>3. \A u, v \in Threads : u # v /\ outer'[u] # NoConn => outer'[u] # outer'[v]
        BY <2>1, <2>3, <2>4 DEF ConnInv, OwnInv
      <3>4. \A u, v \in Threads : outer'[u] # NoConn => outer'[u] # conn'[v]
        BY <2>1, <2>3, <2>4 DEF ConnInv, OwnInv
      <3>5. \A u \in Threads : conn'[u] \notin lost' /\ outer'[u] \notin lost'
        BY <2>1, <2>3, <2>4, <3>0 DEF ConnInv, OwnInv
      <3>6. \A u \in Threads : outer'[u] # NoConn => u \in Nesters
        BY <2>1, <2>3, <2>4 DEF ConnInv, OwnInv
      <3> QED  BY <3>1, <3>2, <3>3, <3>4, <3>5, <3>6 DEF OwnInv
    <2>6. BornInv'
      BY <2>1, <2>2, <2>3 DEF ConnInv, BornInv
    <2>7. \A i \in DOMAIN pool : pool[i] \in Conns
      BY LenProperties DEF TypeOK
    <2>8. FreeInv'
      BY <2>1, <2>2, <2>3, <2>7, ConnsAssumption DEF ConnInv, FreeInv
    <2> QED  BY <2>5, <2>6, <2>8 DEF ConnInv
  <1>17. ASSUME NEW t \in Threads, Nest(t) PROVE ConnInv'
    <2>1. /\ pc'[t] = "wait" /\ conn'[t] = NoConn /\ outer'[t] = conn[t] /\ outer[t] = NoConn
          /\ \A u \in Threads \ {t} : pc'[u] = pc[u] /\ conn'[u] = conn[u] /\ outer'[u] = outer[u]
      BY <1>17 DEF Nest, Nested, Goto, TypeOK
    <2>2. pool' = pool /\ session' = session /\ lost' = lost /\ t \in Nesters
      BY <1>17 DEF Nest
    <2>3. conn[t] \in Conns /\ conn[t] # NoConn /\ session[conn[t]] # "unborn"
      BY <1>17, OwnedConn, ConnsAssumption DEF Nest, ConnSteps
    <2>4. OwnInv'
      <3>0. NoConn \notin lost
        BY ConnsAssumption DEF TypeOK
      <3>1. \A u \in Threads : (conn'[u] = NoConn) <=> (pc'[u] \notin ConnSteps)
        BY <2>1, <2>2, <2>3 DEF ConnInv, OwnInv, ConnSteps
      <3>2. \A u, v \in Threads : u # v /\ conn'[u] # NoConn => conn'[u] # conn'[v]
        BY <2>1, <2>2, <2>3 DEF ConnInv, OwnInv
      <3>3. \A u, v \in Threads : u # v /\ outer'[u] # NoConn => outer'[u] # outer'[v]
        BY <2>1, <2>2, <2>3 DEF ConnInv, OwnInv
      <3>4. \A u, v \in Threads : outer'[u] # NoConn => outer'[u] # conn'[v]
        BY <2>1, <2>2, <2>3 DEF ConnInv, OwnInv
      <3>5. \A u \in Threads : conn'[u] \notin lost' /\ outer'[u] \notin lost'
        BY <2>1, <2>2, <2>3, <3>0 DEF ConnInv, OwnInv
      <3>6. \A u \in Threads : outer'[u] # NoConn => u \in Nesters
        BY <2>1, <2>2, <2>3 DEF ConnInv, OwnInv
      <3> QED  BY <3>1, <3>2, <3>3, <3>4, <3>5, <3>6 DEF OwnInv
    <2>5. BornInv'
      BY <2>1, <2>2, <2>3 DEF ConnInv, BornInv
    <2>6. \A i \in DOMAIN pool : pool[i] \in Conns
      BY LenProperties DEF TypeOK
    <2>7. FreeInv'
      BY <2>1, <2>2, <2>3, <2>6, ConnsAssumption DEF ConnInv, FreeInv
    <2> QED  BY <2>4, <2>5, <2>7 DEF ConnInv
  <1>18. ASSUME NEW c \in Conns, Drop(c) PROVE ConnInv'
    <2>1. UNCHANGED <<conn, outer, lost, pool>>
      BY <1>18 DEF Drop, treeVars
    <2>2. \A u \in Threads : pc'[u] \in ConnSteps <=> pc[u] \in ConnSteps
      BY <1>18 DEF Drop, Goto, TypeOK, ConnSteps
    <2>4. session' = session \/ session' = [session EXCEPT ![c] = "dead"]
      BY <1>18 DEF Drop
    <2> QED  BY <2>1, <2>2, <2>4, SessionChange, SameOwners DEF SessionStates
  <1>19. CASE UNCHANGED vars
    BY <1>19 DEF vars, TypeOK, ConnInv, OwnInv, BornInv, FreeInv, ConnSteps
  <1> QED
    BY <1>1, <1>2, <1>3, <1>4, <1>5, <1>6, <1>7, <1>8, <1>9, <1>10, <1>11, <1>12, <1>13, <1>14, <1>15, <1>16, <1>17, <1>18, <1>19
    DEF Next, Running, Dead, Stuck, Step, Acquire, Finish, Release, Die

\* Every step keeps transactions inside their request.
LEMMA TxStep ==
  ASSUME TypeOK, ConnInv, TxInv, TypeOK', [Next]_vars
  PROVE  TxInv'
  <1>1. ASSUME NEW t \in Threads, NEW w \in BOOLEAN, Request(t, w) PROVE TxInv'
    BY <1>1
    DEF Request, Goto, TypeOK, ConnInv, OwnInv, TxInv, ConnSteps, treeVars, lockVars, requestVars, dataVars
  <1>2. ASSUME NEW t \in Threads, WriterLock(t) PROVE TxInv'
    BY <1>2
    DEF WriterLock, Goto, TypeOK, ConnInv, OwnInv, TxInv, ConnSteps, treeVars, lockVars, requestVars, dataVars
  <1>3. ASSUME NEW t \in Threads, ReaderLock(t) PROVE TxInv'
    BY <1>3
    DEF ReaderLock, Goto, TypeOK, ConnInv, OwnInv, TxInv, ConnSteps, treeVars, lockVars, requestVars, dataVars
  <1>4. ASSUME NEW t \in Threads, Reuse(t) PROVE TxInv'
    BY <1>4
    DEF Reuse, Goto, AfterPool, TypeOK, ConnInv, OwnInv, TxInv, ConnSteps, treeVars, lockVars, requestVars, dataVars
  <1>5. ASSUME NEW t \in Threads, Discard(t) PROVE TxInv'
    <2>1. /\ pc[t] = "take" /\ pc' = [pc EXCEPT ![t] = AfterPool(t)]
          /\ conn' = [conn EXCEPT ![t] = Head(pool)]
          /\ session' = [session EXCEPT ![Head(pool)] = "closed"]
          /\ session[Head(pool)] \in {"dead", "closed"}
          /\ UNCHANGED <<transaction, inTx, issued, kept, pending, outcome, drops>>
      BY <1>5 DEF Discard, Goto, requestVars, dataVars
    <2>2. Head(pool) \in Conns
      BY <1>5, TailPool DEF Discard, TypeOK
    <2>3. \A u \in Threads : u # t => pc'[u] = pc[u] /\ conn'[u] = conn[u]
      BY <2>1 DEF TypeOK
    <2>4. \A u \in Threads : pc'[u] = "begin" => transaction'[u]
      BY <2>1, <2>3 DEF AfterPool, TypeOK, TxInv
    <2>5. ASSUME NEW c \in Conns, inTx'[c]
          PROVE  /\ session'[c] = "open"
                 /\ \E u \in Threads : conn'[u] = c /\ transaction'[u] /\ pc'[u] = "using"
      <3>1. PICK u \in Threads : conn[u] = c /\ transaction[u] /\ pc[u] = "using"
        BY <2>1, <2>5 DEF TxInv
      <3>2. session[c] = "open" /\ c # Head(pool) /\ u # t
        BY <2>1, <2>5, <3>1 DEF TxInv
      <3> QED  BY <2>1, <2>3, <3>1, <3>2 DEF TypeOK
    <2> QED  BY <2>4, <2>5 DEF TxInv
  <1>6. ASSUME NEW t \in Threads, Crash(t) PROVE TxInv'
    BY <1>6
    DEF Crash, Goto, TypeOK, ConnInv, OwnInv, TxInv, ConnSteps, treeVars, lockVars, requestVars, dataVars
  <1>7. ASSUME NEW t \in Threads, PoolEmpty(t) PROVE TxInv'
    BY <1>7
    DEF PoolEmpty, Goto, TypeOK, ConnInv, OwnInv, TxInv, ConnSteps, treeVars, lockVars, requestVars, dataVars
  <1>8. ASSUME NEW t \in Threads, Create(t) PROVE TxInv'
    <2>1. /\ Fresh \in Conns /\ session[Fresh] = "unborn" /\ conn' = [conn EXCEPT ![t] = Fresh]
          /\ session' = [session EXCEPT ![Fresh] = "open"]
      BY <1>8, FreshConn
    <2>2. /\ UNCHANGED <<transaction, inTx>>
          /\ pc[t] = "create" /\ pc' = [pc EXCEPT ![t] = AfterPool(t)]
      BY <1>8 DEF Create, Goto, requestVars
    <2>3. \A u \in Threads : u # t => pc'[u] = pc[u] /\ conn'[u] = conn[u]
      BY <2>1, <2>2 DEF TypeOK
    <2>4. \A u \in Threads : pc'[u] = "begin" => transaction'[u]
      BY <2>2, <2>3 DEF AfterPool, TypeOK, TxInv
    <2>5. ASSUME NEW c \in Conns, inTx'[c]
          PROVE  /\ session'[c] = "open"
                 /\ \E u \in Threads : conn'[u] = c /\ transaction'[u] /\ pc'[u] = "using"
      <3>1. PICK u \in Threads : conn[u] = c /\ transaction[u] /\ pc[u] = "using"
        BY <2>2, <2>5 DEF TxInv
      <3>2. session[c] = "open" /\ c # Fresh /\ u # t
        BY <2>1, <2>2, <2>5, <3>1 DEF TxInv
      <3> QED  BY <2>1, <2>2, <2>3, <3>1, <3>2 DEF TypeOK
    <2> QED  BY <2>4, <2>5 DEF TxInv
  <1>9. ASSUME NEW t \in Threads, CreateFails(t) PROVE TxInv'
    BY <1>9
    DEF CreateFails, Goto, TypeOK, ConnInv, OwnInv, TxInv, ConnSteps, treeVars, lockVars, requestVars, dataVars
  <1>10. ASSUME NEW t \in Threads, Begin(t) PROVE TxInv'
    BY <1>10
    DEF Begin, Goto, Reachable, Unreachable, TypeOK, ConnInv, OwnInv, TxInv, ConnSteps, treeVars, lockVars, requestVars, dataVars
  <1>11. ASSUME NEW t \in Threads, Statement(t) PROVE TxInv'
    <2>1. /\ UNCHANGED <<pc, conn, transaction, inTx>>
          /\ session' = session \/ session' = [session EXCEPT ![conn[t]] = "open"]
      BY <1>11 DEF Statement, requestVars
    <2>2. \A c \in Conns : session[c] = "open" => session'[c] = "open"
      BY <2>1 DEF TypeOK
    <2> QED  BY <2>1, <2>2 DEF TxInv
  <1>12. ASSUME NEW t \in Threads, NEW how \in {"commit", "rollback"}, EndTransaction(t, how) PROVE TxInv'
    BY <1>12
    DEF EndTransaction, Goto, Reachable, Unreachable, StillInTx, TypeOK, ConnInv, OwnInv, TxInv, ConnSteps, treeVars, lockVars, requestVars, dataVars
  <1>13. ASSUME NEW t \in Threads, EndReading(t) PROVE TxInv'
    BY <1>13
    DEF EndReading, Goto, TypeOK, ConnInv, OwnInv, TxInv, ConnSteps, treeVars, lockVars, requestVars, dataVars
  <1>14. ASSUME NEW t \in Threads, Give(t) PROVE TxInv'
    BY <1>14
    DEF Give, Goto, TypeOK, ConnInv, OwnInv, TxInv, ConnSteps, treeVars, lockVars, requestVars, dataVars
  <1>15. ASSUME NEW t \in Threads, Unlock(t) PROVE TxInv'
    <2>1. /\ pc[t] # "begin" /\ pc'[t] # "begin" /\ (pc[t] = "using" => ~transaction[t])
          /\ \A u \in Threads \ {t} : pc'[u] = pc[u] /\ conn'[u] = conn[u] /\ transaction'[u] = transaction[u]
      BY <1>15 DEF Unlock, EndTree, Goto, TypeOK, requestVars
    <2>2. UNCHANGED <<inTx, session>>
      BY <1>15 DEF Unlock
    <2> QED  BY <2>1, <2>2 DEF TxInv
  <1>16. ASSUME NEW t \in Threads, Leak(t) PROVE TxInv'
    <2>1. /\ pc[t] # "begin" /\ pc'[t] # "begin" /\ (pc[t] = "using" => ~transaction[t])
          /\ \A u \in Threads \ {t} : pc'[u] = pc[u] /\ conn'[u] = conn[u] /\ transaction'[u] = transaction[u]
      BY <1>16 DEF Leak, EndTree, Goto, TypeOK, requestVars
    <2>2. UNCHANGED <<inTx, session>>
      BY <1>16 DEF Leak
    <2> QED  BY <2>1, <2>2 DEF TxInv
  <1>17. ASSUME NEW t \in Threads, Nest(t) PROVE TxInv'
    <2>1. /\ pc[t] # "begin" /\ pc'[t] # "begin" /\ (pc[t] = "using" => ~transaction[t])
          /\ \A u \in Threads \ {t} : pc'[u] = pc[u] /\ conn'[u] = conn[u] /\ transaction'[u] = transaction[u]
      BY <1>17 DEF Nest, Goto, TypeOK, requestVars
    <2>2. UNCHANGED <<inTx, session>>
      BY <1>17 DEF Nest
    <2> QED  BY <2>1, <2>2 DEF TxInv
  <1>18. ASSUME NEW c \in Conns, Drop(c) PROVE TxInv'
    BY <1>18
    DEF Drop, Goto, TypeOK, ConnInv, OwnInv, TxInv, ConnSteps, treeVars, lockVars, requestVars, dataVars
  <1>19. CASE UNCHANGED vars
    BY <1>19 DEF vars, TypeOK, ConnInv, OwnInv, TxInv, ConnSteps
  <1> QED
    BY <1>1, <1>2, <1>3, <1>4, <1>5, <1>6, <1>7, <1>8, <1>9, <1>10, <1>11, <1>12, <1>13, <1>14, <1>15, <1>16, <1>17, <1>18, <1>19
    DEF Next, Running, Dead, Stuck, Step, Acquire, Finish, Release, Die

\* A request that has got its connection has issued nothing yet.
LEMMA GotConn ==
  ASSUME TypeOK, DataInv, NEW t \in Threads, NEW h \in Conns, NEW how, drops = 0 => how = "open",
         pc[t] \in {"take", "create"}, pc' = [pc EXCEPT ![t] = AfterPool(t)],
         conn' = [conn EXCEPT ![t] = h], session' = [session EXCEPT ![h] = how],
         UNCHANGED <<transaction, inTx, issued, kept, failed, pending, outcome, drops>>
  PROVE  DataInv'
  <1>1. /\ pc'[t] \in {"begin", "using"} /\ (pc'[t] = "using" => ~transaction[t])
        /\ \A u \in Threads \ {t} : pc'[u] = pc[u] /\ conn'[u] = conn[u]
    BY DEF AfterPool, TypeOK
  <1>2. \A c \in Conns : ~inTx'[c] => pending'[c] = 0
    BY DEF DataInv
  <1>3. \A u \in Threads : pc'[u] \notin {"using", "give", "unlock"} =>
                             issued'[u] = 0 /\ kept'[u] = 0 /\ failed'[u] = 0
    BY <1>1 DEF DataInv
  <1>4. \A u \in Threads : pc'[u] \notin {"give", "unlock"} => outcome'[u] = "none"
    BY <1>1 DEF DataInv
  <1>5. ASSUME drops' = 0
        PROVE  /\ \A c \in Conns : session'[c] \in {"unborn", "open"}
               /\ \A u \in Threads : pc'[u] = "using" /\ transaction'[u] =>
                     inTx'[conn'[u]] /\ pending'[conn'[u]] + failed'[u] = issued'[u] /\ kept'[u] = 0
               /\ \A u \in Threads :
                     /\ outcome'[u] = "commit" => kept'[u] + failed'[u] = issued'[u]
                     /\ outcome'[u] = "rollback" => kept'[u] = 0
    <2>1. \A c \in Conns : session'[c] \in {"unborn", "open"}
      BY <1>5 DEF DataInv, TypeOK
    <2>2. ASSUME NEW u \in Threads, pc'[u] = "using", transaction'[u]
          PROVE  inTx'[conn'[u]] /\ pending'[conn'[u]] + failed'[u] = issued'[u] /\ kept'[u] = 0
      <3>1. u # t /\ pc[u] = "using" /\ transaction[u] /\ conn'[u] = conn[u]
        BY <1>1, <2>2
      <3> QED  BY <1>5, <3>1 DEF DataInv
    <2>3. \A u \in Threads : /\ outcome'[u] = "commit" => kept'[u] + failed'[u] = issued'[u]
                             /\ outcome'[u] = "rollback" => kept'[u] = 0
      BY <1>5 DEF DataInv
    <2> QED  BY <2>1, <2>2, <2>3, Zenon
  <1> QED  BY <1>2, <1>3, <1>4, <1>5 DEF DataInv

\* Every step keeps the account of statements.
LEMMA DataStep ==
  ASSUME TypeOK, ConnInv, TxInv, DataInv, TypeOK', [Next]_vars
  PROVE  DataInv'
  <1>1. ASSUME NEW t \in Threads, NEW w \in BOOLEAN, Request(t, w) PROVE DataInv'
    BY SMTT(40), <1>1
    DEF Request, Goto, TypeOK, ConnInv, OwnInv, BornInv, TxInv, DataInv, ConnSteps, Outcomes, treeVars, lockVars, requestVars, dataVars
  <1>2. ASSUME NEW t \in Threads, WriterLock(t) PROVE DataInv'
    BY <1>2
    DEF WriterLock, Goto, TypeOK, ConnInv, OwnInv, BornInv, TxInv, DataInv, ConnSteps, Outcomes, treeVars, lockVars, requestVars, dataVars
  <1>3. ASSUME NEW t \in Threads, ReaderLock(t) PROVE DataInv'
    BY <1>3
    DEF ReaderLock, Goto, TypeOK, ConnInv, OwnInv, BornInv, TxInv, DataInv, ConnSteps, Outcomes, treeVars, lockVars, requestVars, dataVars
  <1>4. ASSUME NEW t \in Threads, Reuse(t) PROVE DataInv'
    <2>0. Head(pool) \in Conns
      BY <1>4, TailPool DEF Reuse, TypeOK
    <2>1. conn' = [conn EXCEPT ![t] = Head(pool)] /\ session' = [session EXCEPT ![Head(pool)] = "open"]
      BY <1>4 DEF Reuse
    <2>2. /\ pc[t] \in {"take", "create"} /\ pc' = [pc EXCEPT ![t] = AfterPool(t)]
          /\ UNCHANGED <<transaction, inTx, issued, kept, failed, pending, outcome, drops>>
      BY <1>4 DEF Reuse, Goto, requestVars, dataVars
    <2> QED  BY <2>0, <2>1, <2>2, GotConn
  <1>5. ASSUME NEW t \in Threads, Discard(t) PROVE DataInv'
    <2>0. Head(pool) \in Conns
      BY <1>5, TailPool DEF Discard, TypeOK
    <2>1. conn' = [conn EXCEPT ![t] = Head(pool)] /\ session' = [session EXCEPT ![Head(pool)] = "closed"]
      BY <1>5 DEF Discard
    <2>2. /\ pc[t] \in {"take", "create"} /\ pc' = [pc EXCEPT ![t] = AfterPool(t)]
          /\ UNCHANGED <<transaction, inTx, issued, kept, failed, pending, outcome, drops>>
      BY <1>5 DEF Discard, Goto, requestVars, dataVars
    <2>3. drops # 0
      BY <1>5, <2>0 DEF Discard, TypeOK, DataInv
    <2> QED  BY <2>0, <2>1, <2>2, <2>3, GotConn
  <1>6. ASSUME NEW t \in Threads, Crash(t) PROVE DataInv'
    BY <1>6
    DEF Crash, Goto, TypeOK, ConnInv, OwnInv, BornInv, TxInv, DataInv, ConnSteps, Outcomes, treeVars, lockVars, requestVars, dataVars
  <1>7. ASSUME NEW t \in Threads, PoolEmpty(t) PROVE DataInv'
    BY <1>7
    DEF PoolEmpty, Goto, TypeOK, ConnInv, OwnInv, BornInv, TxInv, DataInv, ConnSteps, Outcomes, treeVars, lockVars, requestVars, dataVars
  <1>8. ASSUME NEW t \in Threads, Create(t) PROVE DataInv'
    <2>1. Fresh \in Conns /\ conn' = [conn EXCEPT ![t] = Fresh] /\ session' = [session EXCEPT ![Fresh] = "open"]
      BY <1>8, FreshConn
    <2>2. /\ pc[t] \in {"take", "create"} /\ pc' = [pc EXCEPT ![t] = AfterPool(t)]
          /\ UNCHANGED <<transaction, inTx, issued, kept, failed, pending, outcome, drops>>
      BY <1>8 DEF Create, Goto, requestVars, dataVars
    <2> QED  BY <2>1, <2>2, GotConn
  <1>9. ASSUME NEW t \in Threads, CreateFails(t) PROVE DataInv'
    BY <1>9
    DEF CreateFails, Goto, TypeOK, ConnInv, OwnInv, BornInv, TxInv, DataInv, ConnSteps, Outcomes, treeVars, lockVars, requestVars, dataVars
  <1>10. ASSUME NEW t \in Threads, Begin(t) PROVE DataInv'
    <2> DEFINE k == conn[t]
    <2>1. k \in Conns /\ session[k] # "unborn" /\ pc[t] = "begin" /\ k # NoConn
      BY <1>10, OwnedConn, ConnsAssumption DEF Begin, ConnSteps
    <2>2. /\ pc' = [pc EXCEPT ![t] = "using"]
          /\ UNCHANGED <<conn, transaction, issued, kept, failed, pending, outcome, drops>>
      BY <1>10 DEF Begin, Goto, requestVars, dataVars
    <2>3. \/ /\ session' = [session EXCEPT ![k] = "open"]
             /\ inTx' = [inTx EXCEPT ![k] = TRUE]
          \/ session[k] \in {"dead", "closed"} /\ session' = session /\ inTx' = inTx
      BY <1>10 DEF Begin, Unreachable
    <2>4. ~inTx[k]
      BY <2>1 DEF TxInv, ConnInv, OwnInv
    <2>5. pc'[t] = "using" /\ \A u \in Threads \ {t} : pc'[u] = pc[u]
      BY <2>2 DEF TypeOK
    <2>6. pending[k] = 0 /\ issued[t] = 0 /\ kept[t] = 0 /\ failed[t] = 0 /\ outcome[t] = "none"
      BY <2>1, <2>4 DEF DataInv
    <2>7. \A c \in Conns : inTx[c] => inTx'[c]
      BY <2>3, <2>4 DEF TypeOK
    <2>8. \A c \in Conns : ~inTx'[c] => pending'[c] = 0
      BY <2>2, <2>7 DEF DataInv
    <2>9. \A u \in Threads : pc'[u] \notin {"using", "give", "unlock"} =>
                              issued'[u] = 0 /\ kept'[u] = 0 /\ failed'[u] = 0
      BY <2>2, <2>5 DEF DataInv
    <2>10. \A u \in Threads : pc'[u] \notin {"give", "unlock"} => outcome'[u] = "none"
      BY <2>2, <2>5, <2>6 DEF DataInv
    <2>11. ASSUME drops' = 0
           PROVE  /\ \A c \in Conns : session'[c] \in {"unborn", "open"}
                  /\ \A u \in Threads : pc'[u] = "using" /\ transaction'[u] =>
                        inTx'[conn'[u]] /\ pending'[conn'[u]] + failed'[u] = issued'[u] /\ kept'[u] = 0
                  /\ \A u \in Threads :
                        /\ outcome'[u] = "commit" => kept'[u] + failed'[u] = issued'[u]
                        /\ outcome'[u] = "rollback" => kept'[u] = 0
      <3>1. \A c \in Conns : session[c] \in {"unborn", "open"}
        BY <2>2, <2>11 DEF DataInv
      <3>2. session' = [session EXCEPT ![k] = "open"] /\ inTx' = [inTx EXCEPT ![k] = TRUE]
        BY <2>1, <2>3, <3>1
      <3>3. \A c \in Conns : session'[c] \in {"unborn", "open"}
        BY <3>1, <3>2 DEF TypeOK
      <3>4. ASSUME NEW u \in Threads, pc'[u] = "using", transaction'[u]
            PROVE  inTx'[conn'[u]] /\ pending'[conn'[u]] + failed'[u] = issued'[u] /\ kept'[u] = 0
        <4>1. CASE u = t
          <5>1. inTx'[k]
            BY <2>1, <3>2 DEF TypeOK
          <5> QED  BY <2>2, <2>6, <4>1, <5>1
        <4>2. CASE u # t
          <5>1. inTx[conn[u]] /\ pending[conn[u]] + failed[u] = issued[u] /\ kept[u] = 0
            BY <2>2, <2>5, <2>11, <3>4, <4>2 DEF DataInv
          <5>2. conn[u] \in Conns
            BY <2>2, <2>5, <3>4, <4>2, OwnedConn DEF ConnSteps
          <5> QED  BY <2>2, <2>7, <5>1, <5>2
        <4> QED  BY <4>1, <4>2
      <3>5. \A u \in Threads : /\ outcome'[u] = "commit" => kept'[u] + failed'[u] = issued'[u]
                               /\ outcome'[u] = "rollback" => kept'[u] = 0
        BY <2>2, <2>11 DEF DataInv
      <3> QED  BY <3>3, <3>4, <3>5, Zenon
    <2> QED  BY <2>8, <2>9, <2>10, <2>11 DEF DataInv
  <1>11. ASSUME NEW t \in Threads, Statement(t) PROVE DataInv'
    <2> DEFINE k == conn[t]
    <2>1. k \in Conns /\ pc[t] = "using"
      BY <1>11, OwnedConn DEF Statement, ConnSteps
    <2>2. /\ pc' = pc /\ outcome' = outcome /\ inTx' = inTx /\ drops' = drops
          /\ conn' = conn /\ transaction' = transaction
          /\ issued' = [issued EXCEPT ![t] = issued[t] + 1]
      BY <1>11 DEF Statement, requestVars
    <2>3. /\ \A u \in Threads \ {t} : kept'[u] = kept[u] /\ issued'[u] = issued[u] /\ failed'[u] = failed[u]
          /\ \A c \in Conns \ {k} : pending'[c] = pending[c] /\ session'[c] = session[c]
          /\ ~inTx[k] => pending'[k] = pending[k]
          /\ session[k] = "open" => session'[k] = "open"
      <3>1. \/ kept' = kept
            \/ kept' = [kept EXCEPT ![t] = kept[t] + 1]
        BY <1>11 DEF Statement
      <3>2. \/ pending' = pending
            \/ inTx[k] /\ pending' = [pending EXCEPT ![k] = pending[k] + 1]
        BY <1>11 DEF Statement, StillInTx
      <3>3. session' = session \/ session' = [session EXCEPT ![k] = "open"]
        BY <1>11 DEF Statement
      <3>4. \A u \in Threads \ {t} : kept'[u] = kept[u] /\ issued'[u] = issued[u] /\ failed'[u] = failed[u]
        <4>1. failed' = failed \/ failed' = [failed EXCEPT ![t] = failed[t] + 1]
          BY <1>11 DEF Statement
        <4>2. \A u \in Threads \ {t} : failed'[u] = failed[u]
          BY <4>1 DEF TypeOK
        <4>3. \A u \in Threads \ {t} : kept'[u] = kept[u]
          BY <3>1 DEF TypeOK
        <4>4. \A u \in Threads \ {t} : issued'[u] = issued[u]
          BY <2>2 DEF TypeOK
        <4> QED  BY <4>2, <4>3, <4>4, Zenon
      <3>5. \A c \in Conns \ {k} : pending'[c] = pending[c]
        BY <3>2 DEF TypeOK
      <3>6. /\ \A c \in Conns \ {k} : session'[c] = session[c]
            /\ session[k] = "open" => session'[k] = "open"
        BY <2>1, <3>3 DEF TypeOK
      <3> QED  BY <3>2, <3>4, <3>5, <3>6
    <2>4. \A c \in Conns : ~inTx'[c] => pending'[c] = 0
      BY <2>2, <2>3 DEF DataInv
    <2>5. \A u \in Threads : pc'[u] \notin {"using", "give", "unlock"} =>
                              issued'[u] = 0 /\ kept'[u] = 0 /\ failed'[u] = 0
      BY <2>1, <2>2, <2>3 DEF DataInv
    <2>6. \A u \in Threads : pc'[u] \notin {"give", "unlock"} => outcome'[u] = "none"
      BY <2>2 DEF DataInv
    <2>7. ASSUME drops' = 0
          PROVE  /\ \A c \in Conns : session'[c] \in {"unborn", "open"}
                 /\ \A u \in Threads : pc'[u] = "using" /\ transaction'[u] =>
                       inTx'[conn'[u]] /\ pending'[conn'[u]] + failed'[u] = issued'[u] /\ kept'[u] = 0
                 /\ \A u \in Threads :
                       /\ outcome'[u] = "commit" => kept'[u] + failed'[u] = issued'[u]
                       /\ outcome'[u] = "rollback" => kept'[u] = 0
      <3>1. session[k] = "open" /\ \A c \in Conns : session[c] \in {"unborn", "open"}
        BY <2>1, <2>2, <2>7, OwnedConn DEF DataInv, ConnSteps
      <3>2. ASSUME transaction[t]
            PROVE  inTx[k] /\ pending'[k] + failed'[t] = issued'[t] /\ kept'[t] = 0
        <4>1. inTx[k] /\ pending[k] + failed[t] = issued[t] /\ kept[t] = 0
          BY <2>1, <2>2, <2>7, <3>2 DEF DataInv
        <4>2. \/ pending' = [pending EXCEPT ![k] = pending[k] + 1] /\ failed' = failed /\ kept' = kept
              \/ pending' = pending /\ failed' = [failed EXCEPT ![t] = failed[t] + 1] /\ kept' = kept
          BY <1>11, <3>1, <4>1 DEF Statement, Unreachable, StillInTx
        <4>3. pending \in [Conns -> Nat] /\ failed \in [Threads -> Nat] /\ issued \in [Threads -> Nat]
          BY DEF TypeOK
        <4>4. pending'[k] + failed'[t] = pending[k] + failed[t] + 1
          BY <2>1, <4>2, <4>3
        <4>5. issued'[t] = issued[t] + 1
          BY <2>2, <4>3
        <4> QED  BY <4>1, <4>2, <4>4, <4>5
      <3>3. \A c \in Conns : session'[c] \in {"unborn", "open"}
        BY <2>3, <3>1
      <3>4. ASSUME NEW u \in Threads, pc'[u] = "using", transaction'[u]
            PROVE  inTx'[conn'[u]] /\ pending'[conn'[u]] + failed'[u] = issued'[u] /\ kept'[u] = 0
        <4>1. CASE u = t
          BY <2>1, <2>2, <3>2, <3>4, <4>1
        <4>2. CASE u # t
          <5>1. conn[u] \in Conns \ {k}
            BY <2>1, <2>2, <3>4, <4>2, ConnsAssumption DEF ConnInv, OwnInv, ConnSteps, TypeOK
          <5> QED  BY <2>2, <2>3, <2>7, <3>4, <4>2, <5>1 DEF DataInv
        <4> QED  BY <4>1, <4>2
      <3>5. ASSUME NEW u \in Threads
            PROVE  /\ outcome'[u] = "commit" => kept'[u] + failed'[u] = issued'[u]
                   /\ outcome'[u] = "rollback" => kept'[u] = 0
        <4>1. outcome[t] = "none" /\ outcome' = outcome
          BY <2>1, <2>2 DEF DataInv
        <4> QED  BY <2>2, <2>3, <2>7, <4>1 DEF DataInv
      <3> QED  BY <3>3, <3>4, <3>5, Zenon
    <2> QED
      BY <2>4, <2>5, <2>6, <2>7 DEF DataInv
  <1>12. ASSUME NEW t \in Threads, NEW how \in {"commit", "rollback"}, EndTransaction(t, how) PROVE DataInv'
    <2> DEFINE k == conn[t]
    <2>1. k \in Conns /\ session[k] # "unborn" /\ pc[t] = "using" /\ transaction[t]
      BY <1>12, OwnedConn DEF EndTransaction, ConnSteps
    <2>2. /\ pc' = [pc EXCEPT ![t] = "give"] /\ outcome' = [outcome EXCEPT ![t] = how]
          /\ drops' = drops /\ conn' = conn /\ transaction' = transaction /\ issued' = issued /\ failed' = failed
      BY <1>12 DEF EndTransaction, Goto
    <2>3. \/ /\ session' = [session EXCEPT ![k] = "open"]
             /\ inTx' = [inTx EXCEPT ![k] = FALSE]
             /\ pending' = [pending EXCEPT ![k] = 0]
             /\ kept' = [kept EXCEPT ![t] =
                   IF how = "commit" /\ StillInTx(k) THEN kept[t] + pending[k] ELSE kept[t]]
          \/ /\ session[k] \in {"dead", "closed"}
             /\ session' = session /\ inTx' = inTx /\ pending' = pending /\ kept' = kept
      BY <1>12 DEF EndTransaction, Unreachable
    <2>4. \A c \in Conns : ~inTx'[c] => pending'[c] = 0
      BY SMTT(40), <2>1, <2>3 DEF DataInv, TypeOK
    <2>5. \A u \in Threads \ {t} : /\ kept'[u] = kept[u] /\ outcome'[u] = outcome[u]
                                   /\ pc'[u] = pc[u]
      BY SMTT(40), <2>1, <2>2, <2>3 DEF TypeOK
    <2>6. \A u \in Threads : pc'[u] \notin {"using", "give", "unlock"} =>
                              issued'[u] = 0 /\ kept'[u] = 0 /\ failed'[u] = 0
      BY <2>2, <2>5 DEF DataInv, TypeOK
    <2>7. \A u \in Threads : pc'[u] \notin {"give", "unlock"} => outcome'[u] = "none"
      BY <2>2, <2>5 DEF DataInv, TypeOK
    <2>8. ASSUME drops' = 0
          PROVE  /\ \A c \in Conns : session'[c] \in {"unborn", "open"}
                 /\ \A u \in Threads : pc'[u] = "using" /\ transaction'[u] =>
                       inTx'[conn'[u]] /\ pending'[conn'[u]] + failed'[u] = issued'[u] /\ kept'[u] = 0
                 /\ \A u \in Threads :
                       /\ outcome'[u] = "commit" => kept'[u] + failed'[u] = issued'[u]
                       /\ outcome'[u] = "rollback" => kept'[u] = 0
      <3>1. /\ \A c \in Conns : session[c] \in {"unborn", "open"}
            /\ session[k] = "open" /\ inTx[k] /\ pending[k] + failed[t] = issued[t] /\ kept[t] = 0
        BY <2>1, <2>2, <2>8 DEF DataInv
      <3>2. /\ session' = [session EXCEPT ![k] = "open"]
            /\ inTx' = [inTx EXCEPT ![k] = FALSE]
            /\ pending' = [pending EXCEPT ![k] = 0]
            /\ kept' = [kept EXCEPT ![t] =
                   IF how = "commit" THEN kept[t] + pending[k] ELSE kept[t]]
        BY <2>3, <3>1 DEF StillInTx
      <3>3. kept'[t] = IF how = "commit" THEN pending[k] ELSE 0
        BY <2>1, <3>1, <3>2 DEF TypeOK
      <3>4. \A c \in Conns : session'[c] \in {"unborn", "open"}
        BY <3>1, <3>2
      <3>5. ASSUME NEW u \in Threads, pc'[u] = "using", transaction'[u]
            PROVE  inTx'[conn'[u]] /\ pending'[conn'[u]] + failed'[u] = issued'[u] /\ kept'[u] = 0
        <4>1. u # t /\ pc[u] = "using" /\ transaction[u]
          BY <2>2, <2>5, <3>5 DEF TypeOK
        <4>2. conn[u] \in Conns \ {k}
          BY <2>1, <4>1, ConnsAssumption DEF ConnInv, OwnInv, ConnSteps, TypeOK
        <4> QED  BY <2>2, <2>5, <2>8, <3>2, <4>1, <4>2 DEF DataInv, TypeOK
      <3>6. ASSUME NEW u \in Threads
            PROVE  /\ outcome'[u] = "commit" => kept'[u] + failed'[u] = issued'[u]
                   /\ outcome'[u] = "rollback" => kept'[u] = 0
        <4>1. CASE u = t
          BY <2>2, <3>1, <3>3, <4>1 DEF TypeOK
        <4>2. CASE u # t
          BY <2>2, <2>5, <2>8, <4>2 DEF DataInv
        <4> QED  BY <4>1, <4>2
      <3> QED  BY <3>4, <3>5, <3>6, Zenon
    <2> QED
      BY <2>4, <2>6, <2>7, <2>8 DEF DataInv
  <1>13. ASSUME NEW t \in Threads, EndReading(t) PROVE DataInv'
    BY <1>13
    DEF EndReading, Goto, TypeOK, ConnInv, OwnInv, BornInv, TxInv, DataInv, ConnSteps, Outcomes, treeVars, lockVars, requestVars, dataVars
  <1>14. ASSUME NEW t \in Threads, Give(t) PROVE DataInv'
    BY <1>14
    DEF Give, Goto, TypeOK, ConnInv, OwnInv, BornInv, TxInv, DataInv, ConnSteps, Outcomes, treeVars, lockVars, requestVars, dataVars
  <1>15. ASSUME NEW t \in Threads, Unlock(t) PROVE DataInv'
    BY <1>15
    DEF Unlock, Goto, EndTree, Nested, TypeOK, ConnInv, OwnInv, BornInv, TxInv, DataInv, ConnSteps, Outcomes, treeVars, lockVars, requestVars, dataVars
  <1>16. ASSUME NEW t \in Threads, Leak(t) PROVE DataInv'
    BY <1>16
    DEF Leak, Goto, EndTree, Nested, TypeOK, ConnInv, OwnInv, BornInv, TxInv, DataInv, ConnSteps, Outcomes, treeVars, lockVars, requestVars, dataVars
  <1>17. ASSUME NEW t \in Threads, Nest(t) PROVE DataInv'
    BY <1>17
    DEF Nest, Goto, Nested, TypeOK, ConnInv, OwnInv, BornInv, TxInv, DataInv, ConnSteps, Outcomes, treeVars, lockVars, requestVars, dataVars
  <1>18. ASSUME NEW c \in Conns, Drop(c) PROVE DataInv'
    BY <1>18
    DEF Drop, Goto, TypeOK, ConnInv, OwnInv, BornInv, TxInv, DataInv, ConnSteps, Outcomes, treeVars, lockVars, requestVars, dataVars
  <1>19. CASE UNCHANGED vars
    BY <1>19 DEF vars, TypeOK, ConnInv, OwnInv, BornInv, TxInv, DataInv, ConnSteps, Outcomes
  <1> QED
    BY <1>1, <1>2, <1>3, <1>4, <1>5, <1>6, <1>7, <1>8, <1>9, <1>10, <1>11, <1>12, <1>13, <1>14, <1>15, <1>16, <1>17, <1>18, <1>19
    DEF Next, Running, Dead, Stuck, Step, Acquire, Finish, Release, Die

-----------------------------------------------------------------------------
(* How many sessions there are                                             *)

\* No session is forgotten: each is in the pool, in some request's hands or in
\* a leaked tree.
PoolInv ==
    /\ \A c \in Live : \/ c \in Pooled \cup lost
                       \/ \E t \in Threads : conn[t] = c \/ outer[t] = c
    /\ IsFiniteSet(Live) /\ IsFiniteSet(lost)
    /\ SessionsAreWarranted

\* Threads are finitely many, and so are those that nest.
LEMMA FinitelyMany ==
  IsFiniteSet(Threads) /\ IsFiniteSet(Nesters) /\ IsFiniteSet(Creators)
  BY ThreadsAssumption, NestersAssumption, FS_Subset DEF Creators

\* Losing sessions and creators, or leaking trees, keeps the bound.
LEMMA FewerSessions ==
  ASSUME PoolInv, Live' \subseteq Live, Creators' \subseteq Creators,
         IsFiniteSet(lost'), lost \subseteq lost'
  PROVE  IsFiniteSet(Live') /\ SessionsAreWarranted'
  <1>1. IsFiniteSet(Threads) /\ IsFiniteSet(Nesters) /\ IsFiniteSet(Creators) /\ IsFiniteSet(Live)
    BY FinitelyMany DEF PoolInv
  <1>2. /\ IsFiniteSet(Live') /\ Cardinality(Live') <= Cardinality(Live)
        /\ IsFiniteSet(Creators') /\ Cardinality(Creators') <= Cardinality(Creators)
        /\ IsFiniteSet(lost) /\ Cardinality(lost) <= Cardinality(lost')
    BY <1>1, FS_Subset
  <1>3. /\ Cardinality(Live) \in Nat /\ Cardinality(Live') \in Nat
        /\ Cardinality(Creators) \in Nat /\ Cardinality(Creators') \in Nat
        /\ Cardinality(lost) \in Nat /\ Cardinality(lost') \in Nat
        /\ Cardinality(Threads) \in Nat /\ Cardinality(Nesters) \in Nat
    BY <1>1, <1>2, FS_CardinalityType
  <1> QED  BY <1>2, <1>3 DEF PoolInv, SessionsAreWarranted

\* A union has no more elements than its parts together.
LEMMA UnionIsSmaller ==
  ASSUME NEW A, NEW B, IsFiniteSet(A), IsFiniteSet(B)
  PROVE  IsFiniteSet(A \cup B) /\ Cardinality(A \cup B) <= Cardinality(A) + Cardinality(B)
  <1>1. /\ IsFiniteSet(A \cup B)
        /\ Cardinality(A \cup B) = Cardinality(A) + Cardinality(B) - Cardinality(A \cap B)
    BY FS_Union
  <1>2. IsFiniteSet(A \cap B)
    BY FS_Subset
  <1>3. Cardinality(A) \in Nat /\ Cardinality(B) \in Nat /\ Cardinality(A \cap B) \in Nat
    BY <1>2, FS_CardinalityType
  <1> QED  BY <1>1, <1>3

\* A thread that finds the pool empty may make one session more: the others
\* are leaked, or in use by threads about to make none, or held by the queries
\* that callbacks run in.
LEMMA EmptyPoolLeavesRoom ==
  ASSUME TypeOK, ConnInv, PoolInv, NEW t \in Threads, PoolEmpty(t)
  PROVE  SessionsAreWarranted'
  <1> DEFINE Users == {u \in Threads : conn[u] \in Live}
             Used == {c \in Live : \E u \in Threads : conn[u] = c}
             use == [u \in Users |-> conn[u]]
             Holding == {u \in Nesters : outer[u] \in Live}
             Held == {c \in Live : \E u \in Nesters : outer[u] = c}
             hold == [u \in Holding |-> outer[u]]
  <1>1. Live' = Live /\ Creators' \subseteq Threads /\ lost' = lost
    BY DEF PoolEmpty, Live, Creators, treeVars
  <1>2. Live \subseteq (Used \cup Held) \cup lost
    <2>1. \A u \in Threads : outer[u] # NoConn => u \in Nesters
      BY DEF ConnInv, OwnInv
    <2>2. NoConn \notin Live
      BY ConnsAssumption DEF Live
    <2>3. Pooled = {}
      BY DEF PoolEmpty, Pooled
    <2> QED  BY <2>1, <2>2, <2>3 DEF PoolInv
  <1>3. use \in Surjection(Users, Used) /\ hold \in Surjection(Holding, Held)
    BY DEF Surjection
  <1>4. /\ IsFiniteSet(Users) /\ IsFiniteSet(Creators') /\ IsFiniteSet(Threads)
        /\ IsFiniteSet(Holding) /\ IsFiniteSet(Nesters)
    BY <1>1, FinitelyMany, FS_Subset
  <1>5. /\ IsFiniteSet(Used) /\ Cardinality(Used) <= Cardinality(Users)
        /\ IsFiniteSet(Held) /\ Cardinality(Held) <= Cardinality(Holding)
    BY <1>3, <1>4, FS_Surjection
  <1>6. Users \cap Creators' = {}
    <2> SUFFICES ASSUME NEW u \in Users PROVE pc'[u] # "create"
      BY DEF Creators
    <2>1. conn[u] # NoConn
      BY ConnsAssumption DEF Live
    <2>2. pc[u] \in ConnSteps /\ u # t
      BY <2>1 DEF ConnInv, OwnInv, PoolEmpty, ConnSteps
    <2> QED  BY <2>2 DEF PoolEmpty, Goto, TypeOK, ConnSteps
  <1>7. Cardinality(Users \cup Creators') = Cardinality(Users) + Cardinality(Creators')
    <2>1. Cardinality(Users \cup Creators') =
             Cardinality(Users) + Cardinality(Creators') - Cardinality(Users \cap Creators')
      BY <1>4, FS_Union
    <2>2. Cardinality(Users \cap Creators') = 0
      BY <1>6, FS_EmptySet
    <2>3. Cardinality(Users) \in Nat /\ Cardinality(Creators') \in Nat
      BY <1>4, FS_CardinalityType
    <2> QED  BY <2>1, <2>2, <2>3
  <1>8. Cardinality(Users \cup Creators') <= Cardinality(Threads)
    <2>1. Users \cup Creators' \subseteq Threads
      BY <1>1
    <2> QED  BY <2>1, <1>4, FS_Subset
  <1>9. Cardinality(Holding) <= Cardinality(Nesters)
    BY <1>4, FS_Subset
  <1>10. IsFiniteSet(lost)
    BY DEF PoolInv
  <1> HIDE DEF Users, use, Used, Holding, Held, hold
  <1>11. /\ IsFiniteSet(Used \cup Held)
         /\ Cardinality(Used \cup Held) <= Cardinality(Used) + Cardinality(Held)
    BY <1>5, UnionIsSmaller
  <1>12. /\ IsFiniteSet((Used \cup Held) \cup lost)
         /\ Cardinality((Used \cup Held) \cup lost) <= Cardinality(Used \cup Held) + Cardinality(lost)
    BY <1>10, <1>11, UnionIsSmaller
  <1>13. Cardinality(Live) <= Cardinality((Used \cup Held) \cup lost)
    BY <1>2, <1>12, FS_Subset
  <1>14. /\ Cardinality(Users) \in Nat /\ Cardinality(Creators') \in Nat
         /\ Cardinality(Live) \in Nat /\ Cardinality(Threads) \in Nat
         /\ Cardinality(Used) \in Nat /\ Cardinality(Held) \in Nat
         /\ Cardinality(Holding) \in Nat /\ Cardinality(Nesters) \in Nat
         /\ Cardinality(lost) \in Nat
    BY <1>4, <1>5, <1>10, FS_CardinalityType DEF PoolInv
  <1>15. Cardinality(Used \cup Held) \in Nat /\ Cardinality((Used \cup Held) \cup lost) \in Nat
    BY <1>11, <1>12, FS_CardinalityType
  <1>16. Cardinality(Live) + Cardinality(Creators')
            <= Cardinality(Threads) + Cardinality(Nesters) + Cardinality(lost)
    BY <1>5, <1>7, <1>8, <1>9, <1>11, <1>12, <1>13, <1>14, <1>15
  <1> QED  BY <1>1, <1>16 DEF SessionsAreWarranted

\* Every step keeps the sessions accounted for and bounded.
LEMMA PoolStep ==
  ASSUME TypeOK, ConnInv, PoolInv, [Next]_vars
  PROVE  PoolInv'
  <1>1. ASSUME NEW t \in Threads,
               \/ \E w \in BOOLEAN : Request(t, w)
               \/ WriterLock(t) \/ ReaderLock(t) \/ Die(t) \/ EndReading(t)
        PROVE  PoolInv'
    <2>1. UNCHANGED <<conn, outer, lost, pool, session>>
      BY <1>1 DEF Request, WriterLock, ReaderLock, Die, Crash, CreateFails, EndReading, treeVars
    <2>2. Creators' \subseteq Creators
      BY <1>1 DEF Request, WriterLock, ReaderLock, Die, Crash, CreateFails, EndReading,
                  Goto, Creators, TypeOK
    <2>3. Live' = Live /\ Pooled' = Pooled
      BY <2>1 DEF Live, Pooled
    <2> QED  BY <2>1, <2>2, <2>3, FewerSessions DEF PoolInv
  <1>2. ASSUME NEW t \in Threads, NEW how \in {"commit", "rollback"},
               Begin(t) \/ Statement(t) \/ EndTransaction(t, how)
        PROVE  PoolInv'
    <2>1. UNCHANGED <<conn, outer, lost, pool>> /\ Creators' \subseteq Creators
      BY <1>2 DEF Begin, Statement, EndTransaction, Goto, Creators, TypeOK, requestVars, treeVars
    <2>2. Live' = Live
      BY <1>2 DEF Begin, Statement, EndTransaction, Live, Reachable, TypeOK
    <2>3. Pooled' = Pooled
      BY <2>1 DEF Pooled
    <2> QED  BY <2>1, <2>2, <2>3, FewerSessions DEF PoolInv
  <1>3. ASSUME NEW t \in Threads, Reuse(t) \/ Discard(t) PROVE PoolInv'
    <2>1. /\ pool # <<>> /\ pool' = Tail(pool) /\ conn' = [conn EXCEPT ![t] = Head(pool)]
          /\ UNCHANGED <<outer, lost>>
      BY <1>3 DEF Reuse, Discard, treeVars
    <2>2. Pooled \subseteq Pooled' \cup {Head(pool)}
      <3>1. /\ Head(pool) = pool[1] /\ DOMAIN pool' = 1 .. (Len(pool) - 1)
            /\ DOMAIN pool = 1 .. Len(pool) /\ Len(pool) \in Nat
            /\ \A i \in DOMAIN pool' : pool'[i] = pool[i + 1]
        BY <2>1, TailPool, LenProperties DEF TypeOK
      <3>2. ASSUME NEW i \in DOMAIN pool, i # 1 PROVE pool[i] \in Pooled'
        <4>1. i - 1 \in DOMAIN pool' /\ pool'[i - 1] = pool[i]
          BY <3>1, <3>2
        <4> QED  BY <4>1 DEF Pooled
      <3> QED  BY <3>1, <3>2 DEF Pooled
    <2>3. conn[t] = NoConn /\ pc[t] = "take"
      BY <1>3 DEF Reuse, Discard, ConnInv, OwnInv, ConnSteps
    <2>a. Live' \subseteq Live
      BY <1>3 DEF Reuse, Discard, Live, TypeOK
    <2>b. Creators' \subseteq Creators
      BY <1>3 DEF Reuse, Discard, Creators, Goto, AfterPool, TypeOK
    <2>4. \A c \in Live' : \/ c \in Pooled' \cup lost'
                           \/ \E u \in Threads : conn'[u] = c \/ outer'[u] = c
      <3> SUFFICES ASSUME NEW c \in Live', c \notin Pooled' \cup lost'
                   PROVE  \E u \in Threads : conn'[u] = c \/ outer'[u] = c
        OBVIOUS
      <3>1. CASE c = Head(pool)
        BY <2>1, <3>1 DEF TypeOK
      <3>2. CASE c # Head(pool)
        <4>1. PICK u \in Threads : conn[u] = c \/ outer[u] = c
          BY <2>1, <2>2, <2>a, <3>2 DEF PoolInv
        <4>2. conn[t] # c
          BY <2>3, ConnsAssumption DEF Live
        <4> QED  BY <2>1, <4>1, <4>2 DEF TypeOK
      <3> QED  BY <3>1, <3>2
    <2>5. IsFiniteSet(lost')
      BY <2>1 DEF PoolInv
    <2> QED  BY <2>1, <2>a, <2>b, <2>4, <2>5, FewerSessions DEF PoolInv
  <1>4. ASSUME NEW t \in Threads, PoolEmpty(t) PROVE PoolInv'
    <2>1. Live' = Live /\ Pooled' = Pooled /\ conn' = conn /\ outer' = outer /\ lost' = lost
      BY <1>4 DEF PoolEmpty, Live, Pooled, treeVars
    <2> QED  BY <1>4, <2>1, EmptyPoolLeavesRoom DEF PoolInv
  <1>5. ASSUME NEW t \in Threads, Create(t) PROVE PoolInv'
    <2>0. /\ Fresh \in Conns /\ session[Fresh] = "unborn"
          /\ session' = [session EXCEPT ![Fresh] = "open"]
          /\ conn' = [conn EXCEPT ![t] = Fresh]
      BY <1>5, FreshConn
    <2>1. PICK c \in Conns : /\ session[c] = "unborn"
                             /\ session' = [session EXCEPT ![c] = "open"]
                             /\ conn' = [conn EXCEPT ![t] = c]
      BY <2>0
    <2>2. Live' = Live \cup {c} /\ c \notin Live
      BY <2>1 DEF Live, TypeOK
    <2>3. Creators' = Creators \ {t} /\ t \in Creators /\ Pooled' = Pooled
      BY <1>5 DEF Create, Goto, AfterPool, Creators, Pooled, TypeOK
    <2>4. conn[t] = NoConn /\ UNCHANGED <<outer, lost>>
      BY <1>5 DEF Create, ConnInv, OwnInv, ConnSteps, treeVars
    <2>5. \A d \in Live' : \/ d \in Pooled' \cup lost'
                           \/ \E u \in Threads : conn'[u] = d \/ outer'[u] = d
      <3> SUFFICES ASSUME NEW d \in Live, d \notin Pooled \cup lost
                   PROVE  \E u \in Threads : conn'[u] = d \/ outer'[u] = d
        BY <2>1, <2>2, <2>3, <2>4 DEF TypeOK
      <3>1. PICK u \in Threads : conn[u] = d \/ outer[u] = d
        BY DEF PoolInv
      <3>2. conn[t] # d
        BY <2>4, ConnsAssumption DEF Live
      <3> QED  BY <2>1, <2>4, <3>1, <3>2 DEF TypeOK
    <2>6. IsFiniteSet(Creators) /\ IsFiniteSet(Live) /\ IsFiniteSet(lost)
      BY FinitelyMany DEF PoolInv
    <2>7. /\ IsFiniteSet(Live') /\ Cardinality(Live') = Cardinality(Live) + 1
          /\ Cardinality(Creators') = Cardinality(Creators) - 1
      BY <2>2, <2>3, <2>6, FS_AddElement, FS_RemoveElement
    <2>8. /\ Cardinality(Live) \in Nat /\ Cardinality(Creators) \in Nat
          /\ Cardinality(Threads) \in Nat /\ Cardinality(Nesters) \in Nat
          /\ Cardinality(lost) \in Nat
      BY <2>6, FinitelyMany, FS_CardinalityType
    <2>9. SessionsAreWarranted'
      BY <2>4, <2>7, <2>8 DEF SessionsAreWarranted, PoolInv
    <2> QED  BY <2>4, <2>5, <2>6, <2>7, <2>9 DEF PoolInv
  <1>6. ASSUME NEW t \in Threads, Give(t) PROVE PoolInv'
    <2>1. /\ pool' = <<conn[t]>> \o pool /\ conn' = [conn EXCEPT ![t] = NoConn]
          /\ session' = session /\ conn[t] \in Conns /\ UNCHANGED <<outer, lost>>
      BY <1>6, OwnedConn DEF Give, ConnSteps, treeVars
    <2>2. Pooled \cup {conn[t]} \subseteq Pooled'
      <3>1. /\ DOMAIN pool' = 1 .. (Len(pool) + 1) /\ DOMAIN pool = 1 .. Len(pool)
            /\ Len(pool) \in Nat /\ pool'[1] = conn[t]
            /\ \A i \in DOMAIN pool' : i # 1 => pool'[i] = pool[i - 1]
        BY <2>1, PrependPool DEF TypeOK
      <3>2. ASSUME NEW i \in DOMAIN pool PROVE pool[i] \in Pooled'
        <4>1. i + 1 \in DOMAIN pool' /\ pool'[i + 1] = pool[i]
          BY <3>1
        <4> QED  BY <4>1 DEF Pooled
      <3> QED  BY <3>1, <3>2 DEF Pooled
    <2>3. Live' = Live /\ Creators' \subseteq Creators
      BY <1>6 DEF Give, Live, Creators, Goto, TypeOK
    <2>4. \A c \in Live' : \/ c \in Pooled' \cup lost'
                           \/ \E u \in Threads : conn'[u] = c \/ outer'[u] = c
      BY <2>1, <2>2, <2>3 DEF PoolInv, TypeOK
    <2>5. IsFiniteSet(lost')
      BY <2>1 DEF PoolInv
    <2> QED  BY <2>1, <2>3, <2>4, <2>5, FewerSessions DEF PoolInv
  <1>7. ASSUME NEW t \in Threads, Unlock(t) \/ Leak(t) PROVE PoolInv'
    <2>1. /\ conn'[t] = outer[t] /\ outer'[t] = NoConn
          /\ \A u \in Threads \ {t} : conn'[u] = conn[u] /\ outer'[u] = outer[u]
      BY <1>7 DEF Unlock, Leak, EndTree, TypeOK
    <2>2. pool' = pool /\ session' = session /\ Creators' \subseteq Creators
      BY <1>7 DEF Unlock, Leak, EndTree, Goto, Creators, TypeOK
    <2>3. Live' = Live /\ Pooled' = Pooled
      BY <2>2 DEF Live, Pooled
    <2>4. lost \subseteq lost' /\ (conn[t] # NoConn => conn[t] \in lost') /\ IsFiniteSet(lost')
      <3>1. CASE Unlock(t)
        BY <3>1 DEF Unlock, ConnInv, OwnInv, ConnSteps, PoolInv
      <3>2. CASE Leak(t)
        <4>1. lost' = lost \cup {conn[t]} /\ IsFiniteSet(lost)
          BY <3>2 DEF Leak, PoolInv
        <4> QED  BY <4>1, FS_AddElement
      <3> QED  BY <1>7, <3>1, <3>2
    <2>5. NoConn \notin Live
      BY ConnsAssumption DEF Live
    <2>6. \A c \in Live' : \/ c \in Pooled' \cup lost'
                           \/ \E u \in Threads : conn'[u] = c \/ outer'[u] = c
      BY <2>1, <2>3, <2>4, <2>5 DEF PoolInv
    <2> QED  BY <2>2, <2>3, <2>4, <2>6, FewerSessions DEF PoolInv
  <1>8. ASSUME NEW t \in Threads, Nest(t) PROVE PoolInv'
    <2>1. /\ outer'[t] = conn[t] /\ outer[t] = NoConn
          /\ \A u \in Threads \ {t} : conn'[u] = conn[u] /\ outer'[u] = outer[u]
      BY <1>8 DEF Nest, Nested, TypeOK
    <2>2. pool' = pool /\ session' = session /\ lost' = lost /\ Creators' \subseteq Creators
      BY <1>8 DEF Nest, Goto, Creators, TypeOK
    <2>3. Live' = Live /\ Pooled' = Pooled
      BY <2>2 DEF Live, Pooled
    <2>4. NoConn \notin Live
      BY ConnsAssumption DEF Live
    <2>5. \A c \in Live' : \/ c \in Pooled' \cup lost'
                           \/ \E u \in Threads : conn'[u] = c \/ outer'[u] = c
      BY <2>1, <2>2, <2>3, <2>4 DEF PoolInv
    <2>6. IsFiniteSet(lost')
      BY <2>2 DEF PoolInv
    <2> QED  BY <2>2, <2>3, <2>5, <2>6, FewerSessions DEF PoolInv
  <1>9. ASSUME NEW c \in Conns, Drop(c) PROVE PoolInv'
    <2>1. UNCHANGED <<conn, outer, lost, pool, pc>> /\ Live' = Live
      BY <1>9 DEF Drop, Live, TypeOK, treeVars
    <2>2. Pooled' = Pooled /\ Creators' = Creators
      BY <2>1 DEF Pooled, Creators
    <2> QED  BY <2>1, <2>2, FewerSessions DEF PoolInv
  <1>10. CASE UNCHANGED vars
    <2>1. /\ Live' = Live /\ Pooled' = Pooled /\ Creators' = Creators
          /\ conn' = conn /\ outer' = outer /\ lost' = lost
      BY <1>10 DEF vars, Live, Pooled, Creators
    <2> QED  BY <2>1, FewerSessions DEF PoolInv
  <1> QED
    BY <1>1, <1>2, <1>3, <1>4, <1>5, <1>6, <1>7, <1>8, <1>9, <1>10
    DEF Next, Running, Dead, Stuck, Step, Acquire, Finish, Release

-----------------------------------------------------------------------------
(* Theorems                                                                *)

\* What every reachable state satisfies.
IInv == TypeOK /\ LockInv /\ ConnInv /\ TxInv /\ DataInv /\ PoolInv

\* It holds when the daemon starts: no lock is held and the pool is empty.
LEMMA InitIInv == Init => IInv
  <1> SUFFICES ASSUME Init PROVE IInv
    OBVIOUS
  <1>1. TypeOK
    BY DEF Init, TypeOK, Steps, SessionStates, Outcomes
  <1>2. LockInv
    BY ThreadsAssumption DEF Init, LockInv, LockSteps
  <1>3. ConnInv
    BY DEF Init, ConnInv, OwnInv, BornInv, FreeInv, ConnSteps
  <1>4. TxInv
    BY DEF Init, TxInv
  <1>5. DataInv
    BY DEF Init, DataInv
  <1>6. PoolInv
    <2>1. Live = {} /\ Creators = {} /\ lost = {}
      BY DEF Init, Live, Creators
    <2>2. Cardinality(Threads) \in Nat /\ Cardinality(Nesters) \in Nat
      BY FinitelyMany, FS_CardinalityType
    <2> QED  BY <2>1, <2>2, FS_EmptySet DEF PoolInv, SessionsAreWarranted
  <1> QED  BY <1>1, <1>2, <1>3, <1>4, <1>5, <1>6 DEF IInv

\* The inductive invariant: each part rests on the type and on the ownership
\* of connections.
THEOREM Invariance == Spec => []IInv
  <1>1. Init => IInv
    BY InitIInv
  <1>2. IInv /\ [Next]_vars => IInv'
    <2> SUFFICES ASSUME IInv, [Next]_vars PROVE IInv'
      OBVIOUS
    <2>1. TypeOK'
      BY TypeStep DEF IInv
    <2>2. LockInv'
      BY LockStep DEF IInv
    <2>3. ConnInv'
      BY ConnStep DEF IInv
    <2>4. TxInv'
      BY <2>1, TxStep DEF IInv
    <2>5. DataInv'
      BY <2>1, DataStep DEF IInv
    <2>6. PoolInv'
      BY PoolStep DEF IInv
    <2> QED  BY <2>1, <2>2, <2>3, <2>4, <2>5, <2>6 DEF IInv
  <1> QED  BY <1>1, <1>2, PTL DEF Spec

\* The variables of the pool keep their types.
THEOREM TypeCorrect == Spec => []TypeOK
  <1>1. IInv => TypeOK
    BY DEF IInv
  <1> QED  BY <1>1, Invariance, PTL

\* tagsistant_query_rwlock: a request that started a transaction runs alone.
THEOREM WritersRunAlone == Spec => []WriterExclusion
  <1>1. IInv => WriterExclusion
    <2> SUFFICES ASSUME IInv, NEW t \in Holders, transaction[t]
                 PROVE  writer = t /\ Holders = {t}
      BY DEF WriterExclusion
    <2>1. t \in Threads /\ pc[t] \in LockSteps
      BY DEF Holders, Nested, IInv, LockInv
    <2>2. writer = t /\ writer # NoThread
      BY <2>1, ThreadsAssumption DEF IInv, LockInv
    <2>3. \A u \in Threads : readers[u] = 0
      BY <2>2 DEF IInv, LockInv
    <2>4. ASSUME NEW u \in Holders PROVE u = t
      <3>1. u \in Threads /\ ~(readers[u] >= 1)
        BY <2>3 DEF Holders, Nested
      <3>2. outer[u] = NoConn /\ (pc[u] \in LockSteps => transaction[u])
        BY <3>1 DEF IInv, LockInv
      <3>3. pc[u] \in LockSteps /\ transaction[u]
        BY <3>2 DEF Holders, Nested
      <3> QED  BY <2>2, <3>1, <3>3 DEF IInv, LockInv
    <2> QED  BY <2>2, <2>4
  <1> QED  BY <1>1, Invariance, PTL

\* The pool hands every connection to one query at a time.
THEOREM ConnectionsAreExclusive == Spec => []ExclusiveConnection
  <1>1. IInv => ExclusiveConnection
    <2> SUFFICES ASSUME IInv PROVE ExclusiveConnection
      OBVIOUS
    <2>1. \A t \in Threads : {conn[t], outer[t]} \cap (Pooled \cup lost) = {}
      BY DEF IInv, ConnInv, OwnInv, FreeInv, Pooled
    <2>2. lost \cap Pooled = {}
      BY DEF IInv, ConnInv, FreeInv, Pooled
    <2> QED  BY <2>1, <2>2 DEF IInv, ConnInv, OwnInv, FreeInv, ExclusiveConnection, Nested
  <1> QED  BY <1>1, Invariance, PTL

\* No transaction is left open on a connection that has been given back.
THEOREM TransactionsEndWithTheirRequest == Spec => []NoStrayTransaction
  <1>1. IInv => NoStrayTransaction
    BY DEF IInv, TxInv, NoStrayTransaction
  <1> QED  BY <1>1, Invariance, PTL

\* tagsistant_db_connection() makes a connection only when the pool is empty:
\* sessions, made or being made, are never more than the threads can use at
\* once, with one more for each thread in tagsistant_fix_checksums() and one
\* for each tree the deduplication kernel has leaked.
THEOREM SessionsAreBounded == Spec => []SessionsAreWarranted
  <1>1. IInv => SessionsAreWarranted
    BY DEF IInv, PoolInv
  <1> QED  BY <1>1, Invariance, PTL

\* Without dropped sessions a committed request has kept all its statements
\* but those the database refused, and a rolled back one none.
THEOREM RequestsAreAtomic == Spec => []AllOrNothing
  <1>1. IInv => AllOrNothing
    BY DEF IInv, DataInv, AllOrNothing
  <1> QED  BY <1>1, Invariance, PTL
=============================================================================
