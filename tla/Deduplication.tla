---------------------------- MODULE Deduplication ----------------------------
(***************************************************************************)
(* Checksums, inline deduplication and the autotagging queue:              *)
(* src/src/deduplication.c with the handlers that feed it (mknod, open,    *)
(* write, truncate, flush, unlink).                                        *)
(*                                                                         *)
(* Reading requests share tagsistant_query_rwlock, so the statements of    *)
(* tagsistant_deduplication_kernel() interleave with every other reading   *)
(* request: one action per statement.  mknod, unlink and the autotagging   *)
(* thread run in a transaction, alone (ConnectionPool, WriterExclusion):   *)
(* one action each, enabled when no reader is inside.                      *)
(***************************************************************************)
EXTENDS Integers, Sequences, FiniteSets, FiniteSetsExt

CONSTANTS
    Clients,      \* processes using the mounted file system
    PathsOf,      \* [Clients -> set of store/ paths]: [tags, name] records
    Tags,         \* tags a user applies
    AutoTag,      \* the tag an autotagging plugin applies
    Contents,     \* what a file can hold; SHA1 is taken as injective
    Empty,        \* the content of a new or truncated file
    NoSum,        \* objects.checksum = ''
    Truncates,    \* clients call truncate() on a path
    SharesHandle, \* a descriptor is dup()ed: it is closed, and flushed, twice
    Unlinks,      \* clients remove files
    MaxInode,     \* bound: objects ever created
    MaxOpens      \* bound: open() calls

ASSUME ContentsAssumption == Empty \in Contents /\ NoSum \notin Contents
ASSUME TagsAssumption == AutoTag \notin Tags
ASSUME PathsAssumption == PathsOf \in [Clients -> SUBSET [tags: SUBSET Tags, name: STRING]]
ASSUME DedupBounds == MaxInode \in Nat /\ MaxOpens \in Nat

Inodes == 1 .. MaxInode
Paths == UNION {PathsOf[c] : c \in Clients}
NoPath == [tags |-> {}, name |-> "none"]

VARIABLES
    row,        \* inodes with a row in objects
    objectname, \* objects.objectname
    checksum,   \* objects.checksum
    tagging,    \* the tagging table: {<<inode, tag>>}
    content,    \* what the archive file of an inode holds
    linked,     \* inodes whose archive file has a name under archive/
    nextInode,  \* autoincrement of objects.inode
    pc,         \* where each client is
    path,       \* [Clients -> path of its open file]
    fh,         \* [Clients -> inode fi->fh is open on, 0 if none]
    cur,        \* [Clients -> qtree->inode in the kernel]
    hex,        \* [Clients -> checksum computed by the kernel]
    main,       \* [Clients -> main_inode]
    owed,       \* history: the tags cur had when the duplicate was found
    leaked,     \* query trees never destroyed: read locks never released
    queue,      \* tagsistant_autotagging_queue
    opens       \* open() calls so far

objectVars == <<row, objectname, checksum>>
fileVars == <<content, linked>>
kernelVars == <<cur, hex, main, owed>>
vars == <<row, objectname, checksum, tagging, content, linked, nextInode, pc,
          path, fh, cur, hex, main, owed, leaked, queue, opens>>

\* Steps inside a reading request.
ReaderSteps == {"opening", "hash", "checksum", "select", "move", "deltag",
                "delobj", "unlink", "autotag"}
Steps == {"idle", "opened", "dedup"} \cup ReaderSteps

TypeOK ==
    /\ row \subseteq Inodes /\ linked \subseteq Inodes
    /\ objectname \in [Inodes -> {p.name : p \in Paths \cup {NoPath}}]
    /\ checksum \in [Inodes -> Contents \cup {NoSum}]
    /\ tagging \subseteq (Inodes \cup {0}) \X (Tags \cup {AutoTag})
    /\ content \in [Inodes -> Contents]
    /\ nextInode \in 1 .. MaxInode + 1
    /\ pc \in [Clients -> Steps]
    /\ path \in [Clients -> Paths \cup {NoPath}]
    /\ fh \in [Clients -> Inodes \cup {0}]
    /\ cur \in [Clients -> Inodes \cup {0}]
    /\ hex \in [Clients -> Contents \cup {NoSum}]
    /\ main \in [Clients -> Inodes \cup {0}]
    /\ owed \in [Clients -> SUBSET (Tags \cup {AutoTag})]
    /\ leaked \in Nat
    /\ queue \in Seq(Paths)
    /\ opens \in 0 .. MaxOpens

Init ==
    /\ row = {} /\ linked = {} /\ tagging = {}
    /\ objectname = [i \in Inodes |-> NoPath.name]
    /\ checksum = [i \in Inodes |-> NoSum]
    /\ content = [i \in Inodes |-> Empty]
    /\ nextInode = 1
    /\ pc = [c \in Clients |-> "idle"]
    /\ path = [c \in Clients |-> NoPath]
    /\ fh = [c \in Clients |-> 0]
    /\ cur = [c \in Clients |-> 0]
    /\ hex = [c \in Clients |-> NoSum]
    /\ main = [c \in Clients |-> 0]
    /\ owed = [c \in Clients |-> {}]
    /\ leaked = 0
    /\ queue = <<>>
    /\ opens = 0

Goto(c, step) == pc' = [pc EXCEPT ![c] = step]

\* Nobody holds the rwlock for reading: a transaction can start.
WriterFree == leaked = 0 /\ \A c \in Clients : pc[c] \notin ReaderSteps

TagsOf(i) == {t \in Tags \cup {AutoTag} : <<i, t>> \in tagging}

\* The inodes tagsistant_querytree_new() can find for a path without inode.
Resolves(p) == {i \in row : objectname[i] = p.name /\ p.tags \subseteq TagsOf(i)}

\* tagsistant_querytree_check_tagging_consistency()
Exists(p) == Resolves(p) # {}

-----------------------------------------------------------------------------
(* Handlers                                                                *)

\* mknod(): called after a lookup that found nothing under the path.
Mknod(c, p) ==
    /\ pc[c] = "idle" /\ WriterFree
    /\ ~Exists(p) /\ nextInode \in Inodes
    /\ row' = row \cup {nextInode}
    /\ objectname' = [objectname EXCEPT ![nextInode] = p.name]
    /\ tagging' = tagging \cup ({nextInode} \X p.tags)
    /\ linked' = linked \cup {nextInode}
    /\ nextInode' = nextInode + 1
    /\ UNCHANGED <<checksum, content, pc, path, fh, kernelVars, leaked, queue,
                   opens>>

\* open() for writing: the archive file is opened first ...
OpenFile(c, p) ==
    /\ pc[c] = "idle" /\ opens < MaxOpens
    /\ \E i \in Resolves(p) :
        /\ i \in linked
        /\ fh' = [fh EXCEPT ![c] = i]
        /\ cur' = [cur EXCEPT ![c] = i]
    /\ path' = [path EXCEPT ![c] = p]
    /\ opens' = opens + 1
    /\ Goto(c, "opening")
    /\ UNCHANGED <<objectVars, tagging, fileVars, nextInode, hex, main, owed,
                   leaked, queue>>

\* Mutant: open() for writing leaves the old checksum.
OpenKeepsChecksum(c) ==
    /\ pc[c] = "opening"
    /\ cur' = [cur EXCEPT ![c] = 0]
    /\ Goto(c, "opened")
    /\ UNCHANGED <<objectVars, tagging, fileVars, nextInode, path, fh, hex,
                   main, owed, leaked, queue, opens>>

\* ... then tagsistant_invalidate_object_checksum(), and the handler returns.
OpenInvalidate(c) ==
    /\ pc[c] = "opening"
    /\ checksum' = [checksum EXCEPT ![cur[c]] = NoSum]
    /\ cur' = [cur EXCEPT ![c] = 0]
    /\ Goto(c, "opened")
    /\ UNCHANGED <<row, objectname, tagging, fileVars, nextInode, path, fh, hex,
                   main, owed, leaked, queue, opens>>

\* write(): through fi->fh or, once flush() has closed it, through the path
\* again.  A path that no longer resolves fails, handle or not.
Write(c, v) ==
    /\ pc[c] = "opened" /\ Resolves(path[c]) # {}
    /\ \E i \in IF fh[c] # 0 THEN {fh[c]} ELSE Resolves(path[c]) \cap linked :
        /\ content' = [content EXCEPT ![i] = v]
        /\ fh' = [fh EXCEPT ![c] = i]
    /\ UNCHANGED <<objectVars, tagging, linked, nextInode, pc, path, kernelVars,
                   leaked, queue, opens>>

\* truncate() by path: the checksum is left alone.
Truncate(c, p) ==
    /\ Truncates /\ pc[c] = "idle"
    /\ \E i \in Resolves(p) \cap linked :
        content' = [content EXCEPT ![i] = Empty]
    /\ UNCHANGED <<objectVars, tagging, linked, nextInode, pc, path, fh,
                   kernelVars, leaked, queue, opens>>

\* unlink(): the tags of the path go, the object with its last tag.
Unlink(c, p) ==
    /\ Unlinks /\ pc[c] = "idle" /\ WriterFree
    /\ \E i \in Resolves(p) :
        /\ tagging' = tagging \ ({i} \X p.tags)
        /\ LET gone == IF TagsOf(i) \subseteq p.tags THEN {i} ELSE {}
           IN row' = row \ gone /\ linked' = linked \ gone
    /\ UNCHANGED <<objectname, checksum, content, nextInode, pc, path, fh,
                   kernelVars, leaked, queue, opens>>

\* After the last close() the handle is gone; a dup()ed descriptor still
\* reaches the file.
Closed(c) ==
    \/ /\ Goto(c, "idle")
       /\ path' = [path EXCEPT ![c] = NoPath]
    \/ /\ SharesHandle
       /\ Goto(c, "opened")
       /\ UNCHANGED path

\* flush(): any object of that name without a checksum asks for deduplication.
Flush(c) ==
    /\ pc[c] = "opened"
    /\ SharesHandle => opens < MaxOpens
    /\ opens' = IF SharesHandle THEN opens + 1 ELSE opens
    /\ fh' = [fh EXCEPT ![c] = 0]
    /\ IF /\ Resolves(path[c]) # {}
          /\ \E i \in row : objectname[i] = path[c].name /\ checksum[i] = NoSum
       THEN Goto(c, "dedup") /\ UNCHANGED path
       ELSE Closed(c)
    /\ UNCHANGED <<objectVars, tagging, fileVars, nextInode, kernelVars, leaked,
                   queue>>

-----------------------------------------------------------------------------
(* tagsistant_deduplication_kernel(path)                                   *)

\* tagsistant_querytree_new() takes the read lock and open() finds the file.
KernelOpen(c) ==
    /\ pc[c] = "dedup"
    /\ \E i \in Resolves(path[c]) \cap linked : cur' = [cur EXCEPT ![c] = i]
    /\ Goto(c, "hash")
    /\ UNCHANGED <<objectVars, tagging, fileVars, nextInode, path, fh, hex, main,
                   owed, leaked, queue, opens>>

\* open() fails: the query tree is not destroyed and its read lock stays taken.
KernelOpenFails(c) ==
    /\ pc[c] = "dedup"
    /\ Resolves(path[c]) = {} \/ ~ (Resolves(path[c]) \subseteq linked)
    /\ leaked' = leaked + 1
    /\ Closed(c)
    /\ UNCHANGED <<objectVars, tagging, fileVars, nextInode, fh, kernelVars,
                   queue, opens>>

\* The file is read and hashed.
KernelHash(c) ==
    /\ pc[c] = "hash"
    /\ hex' = [hex EXCEPT ![c] = content[cur[c]]]
    /\ Goto(c, "checksum")
    /\ UNCHANGED <<objectVars, tagging, fileVars, nextInode, path, fh, cur, main,
                   owed, leaked, queue, opens>>

\* update objects set checksum = hex where inode = cur
KernelChecksum(c) ==
    /\ pc[c] = "checksum"
    /\ checksum' = IF cur[c] \in row
                   THEN [checksum EXCEPT ![cur[c]] = hex[c]] ELSE checksum
    /\ Goto(c, "select")
    /\ UNCHANGED <<row, objectname, tagging, fileVars, nextInode, path, fh,
                   kernelVars, leaked, queue, opens>>

\* find_duplicates(): the first inode with that checksum.
FirstWith(h) ==
    LET same == {i \in row : checksum[i] = h}
    IN IF same = {} THEN 0 ELSE Min(same)

KernelSelect(c) ==
    /\ pc[c] = "select"
    /\ main' = [main EXCEPT ![c] = FirstWith(hex[c])]
    /\ IF main'[c] \in {0, cur[c]}
       THEN Goto(c, "autotag") /\ UNCHANGED owed
       ELSE Goto(c, "move") /\ owed' = [owed EXCEPT ![c] = TagsOf(cur[c])]
    /\ UNCHANGED <<objectVars, tagging, fileVars, nextInode, path, fh, cur, hex,
                   leaked, queue, opens>>

\* update tagging set inode = main where inode = cur: one statement, which
\* fails as a whole when main already has one of the tags (Tagging_key).
KernelMove(c) ==
    LET i == cur[c]
        m == main[c]
    IN
    /\ pc[c] = "move"
    /\ tagging' = IF TagsOf(i) \cap TagsOf(m) # {}
                  THEN tagging
                  ELSE {e \in tagging : e[1] # i} \cup ({m} \X TagsOf(i))
    /\ Goto(c, "deltag")
    /\ UNCHANGED <<objectVars, fileVars, nextInode, path, fh, kernelVars, leaked,
                   queue, opens>>

\* delete from tagging where inode = cur
KernelDeleteTagging(c) ==
    /\ pc[c] = "deltag"
    /\ tagging' = {e \in tagging : e[1] # cur[c]}
    /\ Goto(c, "delobj")
    /\ UNCHANGED <<objectVars, fileVars, nextInode, path, fh, kernelVars, leaked,
                   queue, opens>>

\* Mutant: the file is not scheduled for unlink.
KernelDeleteRowOnly(c) ==
    /\ pc[c] = "delobj"
    /\ row' = row \ {cur[c]}
    /\ Goto(c, "autotag")
    /\ UNCHANGED <<objectname, checksum, tagging, fileVars, nextInode, path, fh,
                   kernelVars, leaked, queue, opens>>

\* delete from objects where inode = cur; schedule_for_unlink = 1
KernelDeleteObject(c) ==
    /\ pc[c] = "delobj"
    /\ row' = row \ {cur[c]}
    /\ Goto(c, "unlink")
    /\ UNCHANGED <<objectname, checksum, tagging, fileVars, nextInode, path, fh,
                   kernelVars, leaked, queue, opens>>

KernelReset(c) ==
    /\ cur' = [cur EXCEPT ![c] = 0]
    /\ hex' = [hex EXCEPT ![c] = NoSum]
    /\ main' = [main EXCEPT ![c] = 0]
    /\ owed' = [owed EXCEPT ![c] = {}]

\* tagsistant_querytree_destroy() unlinks the archive file, then unlocks.
KernelUnlink(c) ==
    /\ pc[c] = "unlink"
    /\ linked' = linked \ {cur[c]}
    /\ KernelReset(c)
    /\ Closed(c)
    /\ UNCHANGED <<objectVars, tagging, content, nextInode, fh, leaked, queue,
                   opens>>

\* Not a duplicate: the path is pushed on the autotagging queue, then destroy.
KernelAutotag(c) ==
    /\ pc[c] = "autotag"
    /\ queue' = Append(queue, path[c])
    /\ KernelReset(c)
    /\ Closed(c)
    /\ UNCHANGED <<objectVars, tagging, fileVars, nextInode, fh, leaked, opens>>

\* Mutant: the path is read but never taken off the queue.
AutotagPeeks ==
    /\ queue # <<>> /\ WriterFree
    /\ \E i \in Resolves(Head(queue)) : tagging' = tagging \cup {<<i, AutoTag>>}
    /\ UNCHANGED <<objectVars, fileVars, nextInode, pc, path, fh, kernelVars,
                   leaked, queue, opens>>

\* tagsistant_process(), a transaction: the path is resolved again, and
\* qtree->inode is 0 if the object is gone or renamed.
Process(p) ==
    \E i \in IF Exists(p) THEN Resolves(p) ELSE {0} :
        \/ tagging' = tagging \cup {<<i, AutoTag>>}
        \/ UNCHANGED tagging        \* no plugin for its MIME type

\* The autotagging thread: the next path of the queue.
Autotag ==
    /\ queue # <<>> /\ WriterFree
    /\ Process(Head(queue))
    /\ queue' = Tail(queue)
    /\ UNCHANGED <<objectVars, fileVars, nextInode, pc, path, fh, kernelVars,
                   leaked, opens>>

-----------------------------------------------------------------------------
Kernel(c) == \/ KernelOpen(c) \/ KernelOpenFails(c) \/ KernelHash(c)
             \/ KernelChecksum(c) \/ KernelSelect(c) \/ KernelMove(c)
             \/ KernelDeleteTagging(c) \/ KernelDeleteObject(c)
             \/ KernelUnlink(c) \/ KernelAutotag(c)

User(c) == \/ \E p \in PathsOf[c] : Mknod(c, p) \/ OpenFile(c, p)
                                    \/ Truncate(c, p) \/ Unlink(c, p)
           \/ \E v \in Contents : Write(c, v)

Next == \/ \E c \in Clients : User(c) \/ OpenInvalidate(c) \/ Flush(c) \/ Kernel(c)
        \/ Autotag

Spec == Init /\ [][Next]_vars

\* A handler that has started runs to its end; the autotagging thread runs
\* whenever the lock lets it.
Fairness == /\ \A c \in Clients : WF_vars(OpenInvalidate(c) \/ Kernel(c))
            /\ WF_vars(Autotag)

FairSpec == Spec /\ Fairness

-----------------------------------------------------------------------------
(* Properties                                                              *)

\* Database and archive agree: a row always has its file, and a file without
\* a row is one a kernel is about to unlink.
FilesMatchRows ==
    /\ row \subseteq linked
    /\ \A i \in linked \ row :
         \E c \in Clients : pc[c] = "unlink" /\ cur[c] = i

\* docs/tagsistant_0.6.txt:70-72: two files are merged "provided that the two
\* files do not diverge in the meantime": until its row is deleted, the
\* removed file and the surviving one hold the same bytes.
OnlyIdenticalFilesMerge ==
    \A c \in Clients : pc[c] \in {"move", "deltag", "delobj"} =>
        content[main[c]] = content[cur[c]]

\* docs/tagsistant_0.6.txt:32-33: the removed file "transfers to the first one
\* all its set of tags".
AllTagsTransferred ==
    \A c \in Clients : pc[c] = "unlink" => owed[c] \subseteq TagsOf(main[c])

\* ChangeLog:60-65: after a touch "each file will be rescanned for tags": what
\* is submitted to the autotagging queue is processed.
QueueIsDrained == (queue # <<>>) ~> (queue = <<>>)
=============================================================================
