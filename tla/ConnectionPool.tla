--------------------------- MODULE ConnectionPool ---------------------------
(***************************************************************************)
(* The database access layer of src/src/sql.c: the global GRWLock          *)
(* tagsistant_query_rwlock, the list tagsistant_connection_pool guarded by *)
(* tagsistant_connection_pool_lock, the DBI connections it recycles and    *)
(* the SQL transaction each writing request runs.                          *)
(*                                                                         *)
(* A FUSE handler (or the autotagging thread) makes one request at a time: *)
(* tagsistant_querytree_new() acquires a lock and a connection,            *)
(* tagsistant_querytree_destroy() ends the transaction and gives both      *)
(* back.  Two requests are different.  The deduplication kernel never      *)
(* destroys the tree of an object it cannot open: lock and connection are  *)
(* lost.  tagsistant_fix_checksums() keeps a lock and a connection of its  *)
(* own while its callback runs that kernel, tree and all, for each row.    *)
(*                                                                         *)
(* Everything done while the pool mutex is held is one action: no code     *)
(* touches the list without it.  The counter connections, which only       *)
(* /stats/connections prints, is left out.                                 *)
(***************************************************************************)
EXTENDS Integers, Sequences, FiniteSets

CONSTANTS
    Threads,        \* FUSE worker threads and the autotagging thread
    Conns,          \* the dbi_conn handles that can be created
    Nesters,        \* the threads that run tagsistant_fix_checksums()
    NoThread,       \* "nobody" for the writer side of the lock
    NoConn,         \* the NULL dbi_conn
    MaxStatements,  \* bound: statements issued by one writing request
    MaxQueries,     \* bound: statements issued by one reading request
    MaxDrops,       \* bound: sessions the server drops (0: SQLite, a local file)
    MaxLeaks        \* bound: query trees that are never destroyed

ASSUME ThreadsAssumption == IsFiniteSet(Threads) /\ NoThread \notin Threads
ASSUME NestersAssumption == Nesters \subseteq Threads
ASSUME ConnsAssumption == NoConn \notin Conns
ASSUME BoundsAssumption ==
    /\ MaxStatements \in Nat /\ MaxQueries \in Nat
    /\ MaxDrops \in Nat /\ MaxLeaks \in Nat

VARIABLES
    alive,       \* FALSE once the process has called exit() or crashed
    pc,          \* [Threads -> step inside querytree_new .. querytree_destroy]
    transaction, \* [Threads -> BOOLEAN]: qtree->transaction_started
    conn,        \* [Threads -> dbi_conn or NULL]: qtree->dbi
    outer,       \* [Threads -> dbi_conn or NULL]: what fix_checksums() holds
                 \* while its callback has a query tree
    lost,        \* connections of query trees never destroyed
    writer,      \* thread holding tagsistant_query_rwlock for writing
    readers,     \* [Threads -> Nat]: how often each holds it for reading
    pool,        \* tagsistant_connection_pool, first element first
    session,     \* [Conns -> "unborn" | "open" | "dead" | "closed"]
    inTx,        \* [Conns -> BOOLEAN]: a transaction is open in the session
    issued,      \* [Threads -> Nat]: statements issued by the request
    pending,     \* [Conns -> Nat]: statements inside the open transaction
    kept,        \* [Threads -> Nat]: statements of the request made durable
    failed,      \* [Threads -> Nat]: statements of the request without effect
    outcome,     \* [Threads -> how the request was ended]
    drops        \* sessions dropped so far

lockVars    == <<writer, readers>>
requestVars == <<transaction, outcome>>
treeVars    == <<outer, lost>>
dataVars    == <<issued, pending, kept, failed>>
vars == <<alive, pc, transaction, conn, outer, lost, writer, readers, pool,
          session, inTx, issued, pending, kept, failed,
          outcome, drops>>

\* Steps in which a thread owns the rwlock ...
LockSteps == {"take", "create", "begin", "using", "give", "unlock"}
\* ... and, within them, the steps in which it owns a connection.
ConnSteps == {"begin", "using", "give"}
Steps == {"idle", "wait"} \cup LockSteps

SessionStates == {"unborn", "open", "dead", "closed"}
Outcomes == {"none", "commit", "rollback", "release"}

Nested == {t \in Threads : outer[t] # NoConn}
Holders == {t \in Threads : pc[t] \in LockSteps} \cup Nested
Creators == {t \in Threads : pc[t] = "create"}
Live == {c \in Conns : session[c] \in {"open", "dead"}}
Pooled == {pool[i] : i \in DOMAIN pool}

TypeOK ==
    /\ alive \in BOOLEAN
    /\ pc \in [Threads -> Steps]
    /\ transaction \in [Threads -> BOOLEAN]
    /\ conn \in [Threads -> Conns \cup {NoConn}]
    /\ writer \in Threads \cup {NoThread}
    /\ outer \in [Threads -> Conns \cup {NoConn}]
    /\ lost \in SUBSET Conns
    /\ readers \in [Threads -> Nat]
    /\ pool \in Seq(Conns)
    /\ session \in [Conns -> SessionStates]
    /\ inTx \in [Conns -> BOOLEAN]
    /\ issued \in [Threads -> Nat]
    /\ pending \in [Conns -> Nat]
    /\ kept \in [Threads -> Nat]
    /\ failed \in [Threads -> Nat]
    /\ outcome \in [Threads -> Outcomes]
    /\ drops \in Nat

Init ==
    /\ alive = TRUE
    /\ pc = [t \in Threads |-> "idle"]
    /\ transaction = [t \in Threads |-> FALSE]
    /\ conn = [t \in Threads |-> NoConn]
    /\ writer = NoThread
    /\ outer = [t \in Threads |-> NoConn]
    /\ lost = {}
    /\ readers = [t \in Threads |-> 0]
    /\ pool = <<>>
    /\ session = [c \in Conns |-> "unborn"]
    /\ inTx = [c \in Conns |-> FALSE]
    /\ issued = [t \in Threads |-> 0]
    /\ pending = [c \in Conns |-> 0]
    /\ kept = [t \in Threads |-> 0]
    /\ failed = [t \in Threads |-> 0]
    /\ outcome = [t \in Threads |-> "none"]
    /\ drops = 0

Goto(t, step) == pc' = [pc EXCEPT ![t] = step]

-----------------------------------------------------------------------------
(* tagsistant_db_connection(start_transaction)                             *)

\* A handler calls tagsistant_querytree_new(path, .., start_transaction, 1, ..).
Request(t, start_transaction) ==
    /\ pc[t] = "idle"
    /\ Goto(t, "wait")
    /\ transaction' = [transaction EXCEPT ![t] = start_transaction]
    /\ UNCHANGED <<alive, treeVars, outcome, conn, lockVars, pool, session,
                   inTx, dataVars, drops>>

\* Mutant: the writer does not wait for the readers.
WriterLockAmongReaders(t) ==
    /\ pc[t] = "wait" /\ transaction[t]
    /\ writer = NoThread
    /\ writer' = t
    /\ Goto(t, "take")
    /\ UNCHANGED <<alive, treeVars, requestVars, conn, readers, pool, session,
                   inTx, dataVars, drops>>

\* g_rw_lock_writer_lock()
WriterLock(t) ==
    /\ pc[t] = "wait" /\ transaction[t]
    /\ writer = NoThread /\ \A u \in Threads : readers[u] = 0
    /\ writer' = t
    /\ Goto(t, "take")
    /\ UNCHANGED <<alive, treeVars, requestVars, conn, readers, pool, session,
                   inTx, dataVars, drops>>

\* g_rw_lock_reader_lock()
ReaderLock(t) ==
    /\ pc[t] = "wait" /\ ~transaction[t]
    /\ writer = NoThread
    /\ readers' = [readers EXCEPT ![t] = @ + 1]
    /\ Goto(t, "take")
    /\ UNCHANGED <<alive, treeVars, requestVars, conn, writer, pool, session,
                   inTx, dataVars, drops>>

\* What follows the pool walk once dbi is not NULL.
AfterPool(t) == IF transaction[t] THEN "begin" ELSE "using"

\* The first pooled connection answers the ping, or reconnects: it is reused.
Reuse(t) ==
    /\ pc[t] = "take" /\ pool # <<>>
    /\ session[Head(pool)] \in {"open", "dead"}
    /\ session' = [session EXCEPT ![Head(pool)] = "open"]
    /\ conn' = [conn EXCEPT ![t] = Head(pool)]
    /\ pool' = Tail(pool)
    /\ Goto(t, AfterPool(t))
    /\ UNCHANGED <<alive, treeVars, requestVars, lockVars, inTx,
                   dataVars, drops>>

\* It is dead and cannot reconnect: it is closed and unlinked.  The loop then
\* reads pool->next of the link g_list_delete_link() has just cleared and
\* freed: it sees the NULL left there and ends, with dbi still set to the
\* closed connection (a crash on the freed memory is Crash below).
Discard(t) ==
    /\ pc[t] = "take" /\ pool # <<>>
    /\ session[Head(pool)] \in {"dead", "closed"}
    /\ session' = [session EXCEPT ![Head(pool)] = "closed"]
    /\ conn' = [conn EXCEPT ![t] = Head(pool)]
    /\ pool' = Tail(pool)
    /\ Goto(t, AfterPool(t))
    /\ UNCHANGED <<alive, treeVars, requestVars, lockVars, inTx, dataVars,
                   drops>>

\* Reading the freed link, or a connection already closed, is undefined.
Crash(t) ==
    /\ pc[t] = "take" /\ pool # <<>>
    /\ session[Head(pool)] \in {"dead", "closed"}
    /\ alive' = FALSE
    /\ UNCHANGED <<pc, treeVars, requestVars, conn, lockVars, pool, session,
                   inTx, dataVars, drops>>

\* The pool is empty: dbi stays NULL and a connection has to be made.
PoolEmpty(t) ==
    /\ pc[t] = "take" /\ pool = <<>>
    /\ Goto(t, "create")
    /\ UNCHANGED <<alive, treeVars, requestVars, conn, lockVars, pool,
                   session, inTx, dataVars, drops>>

\* The handle dbi_conn_new() makes: one not used before, whichever it is.
Fresh == CHOOSE c \in Conns : session[c] = "unborn"

\* dbi_conn_new() and dbi_conn_connect() succeed.
Create(t) ==
    /\ pc[t] = "create"
    /\ \E c \in Conns : session[c] = "unborn"
    /\ session' = [session EXCEPT ![Fresh] = "open"]
    /\ conn' = [conn EXCEPT ![t] = Fresh]
    /\ Goto(t, AfterPool(t))
    /\ UNCHANGED <<alive, treeVars, requestVars, lockVars, pool, inTx,
                   dataVars, drops>>

\* No driver, no handle or no connection: exit(1), locks held or not.
CreateFails(t) ==
    /\ pc[t] = "create"
    /\ alive' = FALSE
    /\ UNCHANGED <<pc, treeVars, requestVars, conn, lockVars, pool, session,
                   inTx, dataVars, drops>>

-----------------------------------------------------------------------------
(* tagsistant_real_query()                                                 *)

\* dbi_conn_ping() or, failing that, dbi_conn_connect() succeeds.
Reachable(c) == session[c] \in {"open", "dead"}

\* Neither does: the statement is skipped and 0 returned, which no caller checks.
Unreachable(c) == session[c] \in {"dead", "closed"}

\* The session a statement runs in: a reconnection starts a fresh one, where
\* the transaction begun on the dropped one no longer exists.
StillInTx(c) == session[c] = "open" /\ inTx[c]

\* Mutant: "begin transaction" is never sent.
BeginForgotten(t) ==
    /\ pc[t] = "begin"
    /\ Goto(t, "using")
    /\ UNCHANGED <<alive, treeVars, requestVars, conn, lockVars, pool,
                   session, inTx, dataVars, drops>>

\* "begin transaction" / "start transaction"
Begin(t) ==
    LET c == conn[t] IN
    /\ pc[t] = "begin"
    /\ \/ /\ Reachable(c)
          /\ session' = [session EXCEPT ![c] = "open"]
          /\ inTx' = [inTx EXCEPT ![c] = TRUE]
       \/ /\ Unreachable(c)
          /\ UNCHANGED <<session, inTx>>
    /\ Goto(t, "using")
    /\ UNCHANGED <<alive, treeVars, requestVars, conn, lockVars, pool,
                   dataVars, drops>>

\* One insert, update or delete of the handler: dbi_conn_query() runs it, or
\* returns NULL, which is logged and not reported, or is never called because
\* the server cannot be reached.  The handler goes on in all three cases.
Statement(t) ==
    LET c == conn[t] IN
    /\ pc[t] = "using"
    /\ issued[t] < (IF transaction[t] THEN MaxStatements ELSE MaxQueries)
    /\ issued' = [issued EXCEPT ![t] = @ + 1]
    /\ \/ /\ Reachable(c)
          /\ session' = [session EXCEPT ![c] = "open"]
          /\ IF StillInTx(c)
             THEN pending' = [pending EXCEPT ![c] = @ + 1] /\ UNCHANGED kept
             ELSE kept' = [kept EXCEPT ![t] = @ + 1] /\ UNCHANGED pending
          /\ UNCHANGED failed
       \/ /\ Reachable(c)
          /\ session' = [session EXCEPT ![c] = "open"]
          /\ failed' = [failed EXCEPT ![t] = @ + 1]
          /\ UNCHANGED <<pending, kept>>
       \/ /\ Unreachable(c)
          /\ failed' = [failed EXCEPT ![t] = @ + 1]
          /\ UNCHANGED <<session, pending, kept>>
    /\ UNCHANGED <<alive, treeVars, pc, requestVars, conn, lockVars, pool,
                   inTx, drops>>

-----------------------------------------------------------------------------
(* tagsistant_querytree_destroy(qtree, commit_transaction)                 *)

\* Mutant: the tree is destroyed without a commit or a rollback.
EndTransactionForgotten(t, how) ==
    /\ pc[t] = "using" /\ transaction[t]
    /\ outcome' = [outcome EXCEPT ![t] = how]
    /\ Goto(t, "give")
    /\ UNCHANGED <<alive, treeVars, transaction, conn, lockVars, pool,
                   session, inTx, dataVars, drops>>

\* "commit" or "rollback" on the request's connection.
EndTransaction(t, how) ==
    LET c == conn[t] IN
    /\ pc[t] = "using" /\ transaction[t]
    /\ outcome' = [outcome EXCEPT ![t] = how]
    /\ \/ /\ Reachable(c)
          /\ session' = [session EXCEPT ![c] = "open"]
          /\ inTx' = [inTx EXCEPT ![c] = FALSE]
          /\ pending' = [pending EXCEPT ![c] = 0]
          /\ kept' = [kept EXCEPT ![t] =
                        IF how = "commit" /\ StillInTx(c) THEN @ + pending[c] ELSE @]
       \/ /\ Unreachable(c)
          /\ UNCHANGED <<session, inTx, pending, kept>>
    /\ Goto(t, "give")
    /\ UNCHANGED <<alive, treeVars, transaction, conn, lockVars, pool, issued,
                   failed, drops>>

\* A request without a transaction has nothing to end.
EndReading(t) ==
    /\ pc[t] = "using" /\ ~transaction[t]
    /\ outcome' = [outcome EXCEPT ![t] = "release"]
    /\ Goto(t, "give")
    /\ UNCHANGED <<alive, treeVars, transaction, conn, lockVars, pool,
                   session, inTx, dataVars, drops>>

\* Mutant: the connection is pooled but the query tree keeps using it.
GiveAndKeep(t) ==
    /\ pc[t] = "give"
    /\ pool' = <<conn[t]>> \o pool
    /\ Goto(t, "unlock")
    /\ UNCHANGED <<alive, treeVars, requestVars, conn, lockVars, session,
                   inTx, dataVars, drops>>

\* Mutant: the connection is forgotten instead of pooled.
GiveForgotten(t) ==
    /\ pc[t] = "give"
    /\ conn' = [conn EXCEPT ![t] = NoConn]
    /\ Goto(t, "unlock")
    /\ UNCHANGED <<alive, treeVars, requestVars, lockVars, pool, session,
                   inTx, dataVars, drops>>

\* tagsistant_db_connection_release(): first the pool, under its mutex ...
Give(t) ==
    /\ pc[t] = "give"
    /\ pool' = <<conn[t]>> \o pool
    /\ conn' = [conn EXCEPT ![t] = NoConn]
    /\ Goto(t, "unlock")
    /\ UNCHANGED <<alive, treeVars, requestVars, lockVars, session, inTx,
                   dataVars, drops>>

\* The query tree is gone; its thread goes on with nothing or, in the callback
\* of tagsistant_fix_checksums(), with the connection of the outer query.
EndTree(t) ==
    /\ Goto(t, IF t \in Nested THEN "using" ELSE "idle")
    /\ conn' = [conn EXCEPT ![t] = outer[t]]
    /\ outer' = [outer EXCEPT ![t] = NoConn]
    /\ transaction' = [transaction EXCEPT ![t] = FALSE]
    /\ outcome' = [outcome EXCEPT ![t] = "none"]
    /\ issued' = [issued EXCEPT ![t] = 0]
    /\ kept' = [kept EXCEPT ![t] = 0]
    /\ failed' = [failed EXCEPT ![t] = 0]

\* Mutant: the writer side is never unlocked.
UnlockReaders(t) ==
    /\ pc[t] = "unlock"
    /\ readers' = [readers EXCEPT ![t] = IF transaction[t] THEN @ ELSE @ - 1]
    /\ EndTree(t)
    /\ UNCHANGED <<alive, lost, writer, pool, session, inTx, pending, drops>>

\* Mutant: tagsistant_db_connection_release() runs twice for a query tree.
UnlockTwice(t) ==
    /\ pc[t] = "unlock"
    /\ IF transaction[t]
       THEN writer' = NoThread /\ UNCHANGED readers
       ELSE readers' = [readers EXCEPT ![t] = @ - 1] /\ UNCHANGED writer
    /\ Goto(t, "give")
    /\ UNCHANGED <<alive, treeVars, requestVars, conn, pool, session, inTx,
                   dataVars, drops>>

\* ... then g_rw_lock_writer_unlock() or g_rw_lock_reader_unlock(): the same
\* pthread call, which drops whichever side the thread holds.
Unlock(t) ==
    /\ pc[t] = "unlock"
    /\ IF transaction[t]
       THEN writer' = NoThread /\ UNCHANGED readers
       ELSE readers' = [readers EXCEPT ![t] = @ - 1] /\ UNCHANGED writer
    /\ EndTree(t)
    /\ UNCHANGED <<alive, lost, pool, session, inTx,
                   pending, drops>>

\* tagsistant_deduplication_kernel() cannot open the object: it returns and
\* the tree it made to read is never destroyed.
Leak(t) ==
    /\ pc[t] = "using" /\ ~transaction[t]
    /\ Cardinality(lost) < MaxLeaks
    /\ lost' = lost \cup {conn[t]}
    /\ EndTree(t)
    /\ UNCHANGED <<alive, lockVars, pool, session, inTx,
                   pending, drops>>

\* tagsistant_fix_checksums_callback() runs the kernel for a row of the query
\* tagsistant_fix_checksums() is still reading, lock and connection held.
Nest(t) ==
    /\ t \in Nesters \ Nested
    /\ pc[t] = "using" /\ ~transaction[t]
    /\ outer' = [outer EXCEPT ![t] = conn[t]]
    /\ conn' = [conn EXCEPT ![t] = NoConn]
    /\ Goto(t, "wait")
    /\ issued' = [issued EXCEPT ![t] = 0]
    /\ kept' = [kept EXCEPT ![t] = 0]
    /\ failed' = [failed EXCEPT ![t] = 0]
    /\ UNCHANGED <<alive, lost, requestVars, lockVars, pool, session, inTx,
                   pending, drops>>

-----------------------------------------------------------------------------
\* The server ends a session: its transaction is rolled back on the server.
Drop(c) ==
    /\ drops < MaxDrops
    /\ session[c] = "open"
    /\ session' = [session EXCEPT ![c] = "dead"]
    /\ inTx' = [inTx EXCEPT ![c] = FALSE]
    /\ pending' = [pending EXCEPT ![c] = 0]
    /\ drops' = drops + 1
    /\ UNCHANGED <<alive, treeVars, pc, requestVars, conn, lockVars, pool,
                   issued, kept, failed>>

Acquire(t) == \/ Reuse(t) \/ Discard(t) \/ PoolEmpty(t) \/ Create(t)
              \/ Begin(t)
Finish(t) == \/ \E how \in {"commit", "rollback"} : EndTransaction(t, how)
             \/ EndReading(t)
Release(t) == Give(t) \/ Unlock(t)
Die(t) == Crash(t) \/ CreateFails(t)

Step(t) ==
    \/ \E w \in BOOLEAN : Request(t, w)
    \/ WriterLock(t) \/ ReaderLock(t)
    \/ Acquire(t) \/ Die(t)
    \/ Statement(t) \/ Nest(t)
    \/ Finish(t) \/ Release(t) \/ Leak(t)

Running == /\ alive
           /\ \/ \E t \in Threads : Step(t)
              \/ \E c \in Conns : Drop(c)
Dead == ~alive /\ UNCHANGED vars
\* Every thread wants to write and a leaked tree holds the lock for reading.
Stuck == /\ alive /\ lost # {}
         /\ \A t \in Threads : pc[t] = "wait" /\ transaction[t]
         /\ UNCHANGED vars
Next == Running \/ Dead \/ Stuck

Spec == Init /\ [][Next]_vars

-----------------------------------------------------------------------------
(* Properties                                                              *)

\* A writing request runs alone: while the thread that started a transaction
\* holds the rwlock, no other thread is between lock and unlock, so no query
\* of another handler sees its intermediate statements.
WriterExclusion ==
    \A t \in Holders : transaction[t] =>
        /\ writer = t
        /\ Holders = {t}

\* A dbi_conn is used by one query at a time: it is in one qtree, or held by
\* tagsistant_fix_checksums(), or in a leaked qtree, or once in the pool.
ExclusiveConnection ==
    /\ \A t, u \in Threads : t # u /\ conn[t] # NoConn => conn[t] # conn[u]
    /\ \A t, u \in Threads : t # u /\ outer[t] # NoConn => outer[t] # outer[u]
    /\ \A t \in Nested : \A u \in Threads : outer[t] # conn[u]
    /\ \A t \in Threads : {conn[t], outer[t]} \cap (Pooled \cup lost) = {}
    /\ lost \cap Pooled = {}
    /\ \A i, j \in DOMAIN pool : pool[i] = pool[j] => i = j

\* A transaction never outlives its request: a session in a transaction
\* belongs to a writing request still in progress, so a connection recycled
\* through the pool never carries another request's statements.
NoStrayTransaction ==
    \A c \in Conns : inTx[c] =>
        \E t \in Threads : conn[t] = c /\ transaction[t] /\ pc[t] = "using"

\* Sessions are as many as the connections the threads can hold at once, one
\* each and a second one inside tagsistant_fix_checksums(), plus the leaked
\* ones: a connection is only made by a thread that found the pool empty.
SessionsAreWarranted ==
    Cardinality(Live) + Cardinality(Creators)
        <= Cardinality(Threads) + Cardinality(Nesters) + Cardinality(lost)

\* With a database that does not drop sessions, a committed request has kept
\* every statement that did not fail and a rolled back one none: the error
\* tagsistant_real_query() only logs costs that statement and no other.
AllOrNothing ==
    (drops = 0) =>
        \A t \in Threads :
            /\ outcome[t] = "commit" => kept[t] + failed[t] = issued[t]
            /\ outcome[t] = "rollback" => kept[t] = 0

\* sql.c:240 "check if the connection is still alive": the connection the
\* walk returns has not been closed.
HandsOutUsableConnection ==
    \A t \in Threads : pc[t] = "begin" => session[conn[t]] # "closed"

-----------------------------------------------------------------------------
(* Fairness: a handler runs to its end (no step of it blocks but the lock), *)
(* tagsistant_fix_checksums() reads finitely many rows, and glibc's rwlock   *)
(* admits the readers that wait when a writer leaves.                        *)
Fairness == \A t \in Threads :
    /\ WF_vars(alive /\ (Acquire(t) \/ Finish(t) \/ Release(t)))
    /\ SF_vars(alive /\ t \notin Nested /\ EndReading(t))
    /\ SF_vars(alive /\ ReaderLock(t))

FairSpec == Spec /\ Fairness

\* A reading request that waits for the lock ends, whatever writers do.
ReadersAreServed ==
    \A t \in Threads :
        (pc[t] = "wait" /\ ~transaction[t]) ~> (pc[t] = "idle" \/ ~alive)
=============================================================================
