----------------------------- MODULE FileHandle ------------------------------
(***************************************************************************)
(* The descriptors behind open(), read(), write() and flush()              *)
(* (src/src/fuse_operations), with TAGSISTANT_ENABLE_FILE_HANDLE_CACHING:  *)
(* open() stores its descriptor in fi->fh, read() and write() use it or    *)
(* open the file again, flush() closes it; release() is not registered.    *)
(*                                                                         *)
(* FUSE hands every handler a copy of fuse_file_info.  What open() stores  *)
(* in it is kept for the handle; what read(), write() and flush() store is *)
(* not, so after them fh still holds the number open() got.  The system    *)
(* gives a new descriptor the lowest free number, to a handler or to       *)
(* another thread of the daemon: a connection to the database, a journal   *)
(* of SQLite, a file an extractor looks at.  Queries and locks are left    *)
(* out: readers share the lock.                                            *)
(***************************************************************************)
EXTENDS Integers, FiniteSets, FiniteSetsExt

CONSTANTS
    Handles, Files, Special, NoFile, Values, Empty,  \* as in OpenFiles
    Foreign,      \* what the other threads open: the database
    Free,         \* a descriptor number not in use
    MaxFd,        \* bound: descriptors of the process (RLIMIT_NOFILE)
    MaxOthers,    \* bound: descriptors of the other threads at a time
    MaxLost,      \* bound: no list is opened and no call fails after so many losses
    Environments  \* what the applications and the disk may do:
                  \*   errors: a pread() or pwrite() can fail
                  \*   shared: a dup()ed descriptor or a mapping outlives a close()

ASSUME FilesAssumption ==
    /\ Special \notin Files
    /\ Foreign \notin Files \cup {Special}
    /\ NoFile \notin Files \cup {Special, Foreign}
ASSUME ValuesAssumption == Empty \in Values
ASSUME FdAssumption == MaxFd \in Nat \ {0}
ASSUME FreeAssumption == Free \notin Files \cup {Special, Foreign, NoFile}
ASSUME BoundsAssumption == MaxOthers \in Nat /\ MaxLost \in Nat
ASSUME EnvironmentsAssumption == Environments \subseteq [errors: BOOLEAN, shared: BOOLEAN]

Fds == 1 .. MaxFd   \* 0 stands for no handle, as in the code

VARIABLES
    env,      \* the environment of this behaviour
    opened,   \* [Handles -> file the application opened, NoFile]
    content,  \* what the archive files and those of the database hold
    reply,    \* [Handles -> what its last read(), or checksum, saw while it is open]
    desc,     \* [Fds -> file the descriptor is open on, Free]
    others,   \* the numbers the other threads got from open(2) and did not close
    lost,     \* numbers no handle knows any more, counted as they are lost
    fh,       \* [Handles -> fi->fh as the kernel keeps it]
    pc,       \* [Handles -> step of the request in progress]
    op,       \* [Handles -> "read" or the value to write]
    local     \* [Handles -> the handler's variable fh, or fd when hashing]

promised == <<opened, content, reply>>
handled == <<fh, pc, op, local>>
vars == <<env, promised, desc, others, lost, handled>>

TypeOK ==
    /\ env \in Environments
    /\ opened \in [Handles -> Files \cup {Special, NoFile}]
    /\ content \in [Files \cup {Special, Foreign} -> Values]
    /\ reply \in [Handles -> Values]
    /\ desc \in [Fds -> Files \cup {Special, Foreign, Free}]
    /\ others \subseteq Fds /\ lost \in Nat
    /\ fh \in [Handles -> Fds \cup {0}]
    /\ pc \in [Handles -> {"idle", "close", "reopen", "retry", "dedup", "hash", "hashed"}]
    /\ op \in [Handles -> Values \cup {"read"}]
    /\ local \in [Handles -> Fds \cup {0}]

Init ==
    /\ env \in Environments
    /\ opened = [h \in Handles |-> NoFile]
    /\ content = [f \in Files \cup {Special, Foreign} |-> Empty]
    /\ reply = [h \in Handles |-> Empty]
    /\ desc = [d \in Fds |-> Free] /\ others = {} /\ lost = 0
    /\ fh = [h \in Handles |-> 0]
    /\ pc = [h \in Handles |-> "idle"]
    /\ op = [h \in Handles |-> "read"]
    /\ local = [h \in Handles |-> 0]

-----------------------------------------------------------------------------
(* The system calls                                                        *)

FreeFds == {d \in Fds : desc[d] = Free}

\* open(2): the lowest free number; there may be none.
SysOpen(f, d) ==
    /\ FreeFds # {} /\ d = Min(FreeFds)
    /\ desc' = [desc EXCEPT ![d] = f]

\* close(2): a number that is not open is EBADF, and ignored.
SysClose(d) == desc' = [e \in Fds |-> IF e = d THEN Free ELSE desc[e]]

\* What pread(2) or pwrite(2) on a descriptor can do: stats/ files and lists
\* are opened read only, a database is not.
Possible(d, o) ==
    d \in Fds /\ desc[d] # Free /\ (o # "read" => desc[d] # Special)
Refused(d, o) == ~Possible(d, o) \/ env.errors

Transfer(h, d, o) ==
    IF o = "read"
    THEN reply' = [reply EXCEPT ![h] = content[desc[d]]] /\ UNCHANGED content
    ELSE content' = [content EXCEPT ![desc[d]] = o] /\ UNCHANGED reply

-----------------------------------------------------------------------------
(* open()                                                                  *)

CanOpen(h) == pc[h] = "idle" /\ opened[h] = NoFile

\* Mutant: the descriptor is closed, as without caching, but its number kept.
OpenClosed(h, f) ==
    /\ CanOpen(h)
    /\ \E d \in Fds : d \in FreeFds /\ d = Min(FreeFds) /\ fh' = [fh EXCEPT ![h] = d]
    /\ opened' = [opened EXCEPT ![h] = f]
    /\ UNCHANGED <<env, content, reply, desc, others, lost, pc, op, local>>

\* An object.
Open(h, f) ==
    /\ CanOpen(h)
    /\ \E d \in Fds : SysOpen(f, d) /\ fh' = [fh EXCEPT ![h] = d]
    /\ opened' = [opened EXCEPT ![h] = f]
    /\ UNCHANGED <<env, content, reply, others, lost, pc, op, local>>

\* A stats/ file: tags.sql is opened for want of anything better.
OpenStats(h) == Open(h, Special)

\* A .tags list: tags.sql again, but its descriptor is not stored.
OpenList(h) ==
    /\ CanOpen(h) /\ lost < MaxLost
    /\ \E d \in Fds : SysOpen(Special, d)
    /\ opened' = [opened EXCEPT ![h] = Special]
    /\ lost' = lost + 1
    /\ UNCHANGED <<env, content, reply, others, handled>>

-----------------------------------------------------------------------------
(* read() and write() on an object.  Lists and stats/ files are answered   *)
(* from the database.                                                      *)

\* pread(fi->fh) or pwrite(fi->fh)
Try(h, o) ==
    /\ pc[h] = "idle" /\ opened[h] \in Files
    /\ Possible(fh[h], o) /\ Transfer(h, fh[h], o)
    /\ UNCHANGED <<env, opened, desc, others, lost, handled>>

TryFails(h, o) ==
    /\ pc[h] = "idle" /\ opened[h] \in Files
    /\ Refused(fh[h], o) /\ lost < MaxLost
    /\ pc' = [pc EXCEPT ![h] = "close"]
    /\ op' = [op EXCEPT ![h] = o]
    /\ UNCHANGED <<env, promised, desc, others, lost, fh, local>>

\* if (fh) close(fh)
CloseFailed(h) ==
    /\ pc[h] = "close"
    /\ SysClose(fh[h])
    /\ pc' = [pc EXCEPT ![h] = "reopen"]
    /\ UNCHANGED <<env, promised, others, lost, fh, op, local>>

\* The handler is done, and with it its variables.
Answered(h) ==
    /\ pc' = [pc EXCEPT ![h] = "idle"]
    /\ op' = [op EXCEPT ![h] = "read"]
    /\ local' = [local EXCEPT ![h] = 0]

\* The file is opened again by its path.
Reopen(h) ==
    /\ pc[h] = "reopen"
    /\ \E d \in Fds : SysOpen(opened[h], d) /\ local' = [local EXCEPT ![h] = d]
    /\ pc' = [pc EXCEPT ![h] = "retry"]
    /\ UNCHANGED <<env, promised, others, lost, fh, op>>

\* Or it cannot be: -1 passes for a handle, and the call on it fails.
ReopenFails(h) ==
    /\ pc[h] = "reopen" /\ (FreeFds = {} \/ env.errors)
    /\ Answered(h)
    /\ UNCHANGED <<env, promised, desc, others, lost, fh>>

\* The new number is stored in the copy: the kernel keeps that of open().
Forgotten(h) == lost' = IF local[h] = fh[h] THEN lost ELSE lost + 1

\* The second attempt.
Retry(h) ==
    /\ pc[h] = "retry"
    /\ Possible(local[h], op[h]) /\ Transfer(h, local[h], op[h])
    /\ Answered(h) /\ Forgotten(h)
    /\ UNCHANGED <<env, opened, desc, others, fh>>

RetryFails(h) ==
    /\ pc[h] = "retry"
    /\ Refused(local[h], op[h])
    /\ Answered(h) /\ Forgotten(h)
    /\ UNCHANGED <<env, promised, desc, others, fh>>

-----------------------------------------------------------------------------
(* flush(), called by every close(2) of a descriptor of the handle         *)

\* After the last one the kernel forgets the handle.
Closed(h) ==
    \/ /\ opened' = [opened EXCEPT ![h] = NoFile]
       /\ reply' = [reply EXCEPT ![h] = Empty]
       /\ fh' = [fh EXCEPT ![h] = 0]
    \/ env.shared /\ UNCHANGED <<opened, reply, fh>>

\* Mutant: the descriptor is left to release().
FlushOnly(h) ==
    /\ pc[h] = "idle" /\ opened[h] # NoFile
    /\ Closed(h)
    /\ UNCHANGED <<env, content, desc, others, lost, pc, op, local>>

\* An object with a checksum, or no object.
Flush(h) ==
    /\ pc[h] = "idle" /\ opened[h] # NoFile
    /\ SysClose(fh[h])
    /\ Closed(h)
    /\ UNCHANGED <<env, content, others, lost, pc, op, local>>

\* An object without checksum: tagsistant_deduplication_kernel() follows.
FlushDedup(h) ==
    /\ pc[h] = "idle" /\ opened[h] \in Files
    /\ SysClose(fh[h])
    /\ pc' = [pc EXCEPT ![h] = "dedup"]
    /\ UNCHANGED <<env, promised, others, lost, fh, op, local>>

KernelOpen(h) ==
    /\ pc[h] = "dedup"
    /\ \E d \in Fds : SysOpen(opened[h], d) /\ local' = [local EXCEPT ![h] = d]
    /\ pc' = [pc EXCEPT ![h] = "hash"]
    /\ UNCHANGED <<env, promised, others, lost, fh, op>>

\* No descriptor: nothing is hashed, close(-1) does nothing.
KernelOpenFails(h) ==
    /\ pc[h] = "dedup" /\ FreeFds = {}
    /\ Answered(h)
    /\ Closed(h)
    /\ UNCHANGED <<env, content, desc, others, lost>>

\* read() until the end of the file.
KernelRead(h) ==
    /\ pc[h] = "hash"
    /\ IF Possible(local[h], "read") THEN Transfer(h, local[h], "read")
                                     ELSE UNCHANGED <<content, reply>>
    /\ pc' = [pc EXCEPT ![h] = "hashed"]
    /\ UNCHANGED <<env, opened, desc, others, lost, fh, op, local>>

KernelClose(h) ==
    /\ pc[h] = "hashed"
    /\ SysClose(local[h])
    /\ Answered(h)
    /\ Closed(h)
    /\ UNCHANGED <<env, content, others, lost>>

-----------------------------------------------------------------------------
(* The other threads: tagsistant_db_connection() creates a connection,     *)
(* SQLite opens and closes its journal at every transaction that writes.   *)

OtherOpen ==
    /\ Cardinality(others) < MaxOthers
    /\ \E d \in Fds : SysOpen(Foreign, d) /\ others' = others \cup {d}
    /\ UNCHANGED <<env, promised, lost, handled>>

\* Whatever the number stands for by now.
OtherClose(d) ==
    /\ d \in others
    /\ SysClose(d)
    /\ others' = others \ {d}
    /\ UNCHANGED <<env, promised, lost, handled>>

-----------------------------------------------------------------------------
Ops == Values \cup {"read"}

HandleStep(h) ==
    \/ \E f \in Files : Open(h, f)
    \/ OpenStats(h) \/ OpenList(h)
    \/ \E o \in Ops : Try(h, o) \/ TryFails(h, o)
    \/ CloseFailed(h) \/ Reopen(h) \/ ReopenFails(h)
    \/ Retry(h) \/ RetryFails(h)
    \/ Flush(h) \/ FlushDedup(h)
    \/ KernelOpen(h) \/ KernelOpenFails(h) \/ KernelRead(h) \/ KernelClose(h)

Next ==
    \/ \E h \in Handles : HandleStep(h)
    \/ OtherOpen
    \/ \E d \in others : OtherClose(d)

Spec == Init /\ [][Next]_vars

-----------------------------------------------------------------------------
(* Properties                                                              *)

Promise == INSTANCE OpenFiles WITH opened <- opened, content <- content, reply <- reply

\* No call on an open descriptor fails, and the first close() of a handle is
\* the last.  Without either a number is closed that is still used afterwards.
Careful == ~env.errors /\ ~env.shared

\* ChangeLog:146-147: open(), read() and write() "reuse the filehandle by
\* saving it in fuse_file_info.fh".  Seen from the applications nothing shows:
\* every read(), write() and checksum reaches the file of its handle and no
\* other, although numbers are closed and given out again all the time, to
\* handles and to other threads, and no write() reaches the database.
HandlesReachTheirFiles ==
    Promise!Init /\ [][Careful => Promise!Next]_promised

\* The same wherever a call can fail and a handle can be shared: it does not
\* hold (FileHandleErrors.cfg, FileHandleShared.cfg).
NothingEverShows == Promise!Spec

\* A descriptor on a user's file or on tags.sql serves a handle or a request
\* in progress, but for one at most for every .tags list (open.c:51-55) and for
\* every second attempt that got another number (read.c:102, write.c:96):
\* nothing else runs the daemon out of them, whatever fails and whoever shares.
LeaksAreCounted ==
    Cardinality({d \in Fds :
        /\ desc[d] \in Files \cup {Special}
        /\ ~ \E h \in Handles : opened[h] # NoFile /\ fh[h] = d
        /\ ~ \E h \in Handles : pc[h] # "idle" /\ local[h] = d}) <= lost

\* Two handles at rest never hold the same number, nor one of another thread:
\* what a flush() closes is not another's file, and not the database.
NumbersAreDistinct ==
    Careful =>
        \A h \in Handles : pc[h] = "idle" /\ fh[h] # 0 =>
            /\ fh[h] \notin others
            /\ \A k \in Handles \ {h} : pc[k] = "idle" => fh[h] # fh[k]
=============================================================================
