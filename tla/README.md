# A TLA+ model of Tagsistant

Tagsistant is a semantic file system: directories are tags, a path is a query,
and the same file appears wherever its tags match. It is a FUSE daemon: a
multi-threaded loop calls one handler per system call
(`src/src/fuse_operations/*.c`), every handler turns its path into a query tree
(`src/src/path_resolution.c`), talks to SQLite or MySQL through libDBI
(`src/src/sql.c`) and touches the real files under `archive/`.

The modules follow the configuration the repository builds: tag_id cache,
autotagging, inline deduplication and file handle caching on; query tree,
and_set and reasoner caches off (`src/src/tagsistant.h`).

## 1. Inventory

| Part | State it keeps | Operations | What makes it correct |
|---|---|---|---|
| Database access (`sql.c`, end of `path_resolution.c`) | `tagsistant_query_rwlock`, the list of idle connections, the transaction open in each session | `tagsistant_db_connection()`, `tagsistant_real_query()`, `tagsistant_querytree_destroy()`, `tagsistant_db_connection_release()` | a writer is alone; a connection has one user; a transaction ends with its request; a request loses nothing but what the database refused; sessions are no more than warranted; readers are served |
| Catalogue (`sql.c`, `utils.c`, the handlers) | tables tags, objects, tagging, relations; the tag_id cache; files under `archive/` | mknod, mkdir, symlink, link, unlink, rmdir, rename | every tagged object exists; a row has its file and a file its row; a file with another tag survives unlink; ids in tables and cache belong to live tags; a kill does bounded damage |
| Deduplication and autotagging (`deduplication.c`, `plugin.c`, open/write/truncate/flush) | objects.checksum, tagging, file handles, the autotagging queue and its thread | open (drops the checksum), flush (runs the kernel), the kernel's statements, the autotagging thread | only files that are equal are merged; no tag is lost; no read lock is leaked; every queued path is processed |
| Queries (`path_resolution.c`) | the query tree: or nodes, and nodes, chains of grouped and negated tags, parser flags | `tagsistant_querytree_parse_store()`, `tagsistant_guess_inode_from_and_set()`, `tagsistant_querytree_traverse()` | a query finds the files it describes and no others; a file is found by the query that created it; a wrong query is reported |
| Reasoner (`reasoner.c`) | the chains `->related` and `->negated` of a tag, the relations table | `tagsistant_reasoner()`, `tagsistant_reasoner_inner()` | it finds exactly the implied tags, ends on cyclic relations, lists no tag twice |
| Aliases (`sql.c`, `path_resolution.c`, alias branches of the handlers) | the aliases table | create, write, truncate, rename, unlink, getattr; `tagsistant_expand_path()` | a query is expanded to what its aliases stand for, and the expansion ends |
| File handles (open/read/write/flush) | `fi->fh`, the descriptors of the process | open() stores a descriptor, read() and write() use or replace it, flush() closes it, the deduplication kernel opens its own | a handle always reaches the file it was opened on; a number is not closed by two; what is leaked can be counted |
| Listings and attributes (`readdir.c`, `getattr.c`) | none of their own; they read the tables and fill the tag_id cache | readdir and getattr below `tags/`, `relations/`, `stats/`, `alias/` and incomplete `store/` paths | what is listed can be entered, what was created is listed, what was removed is gone, what is offered parses |
| Plugins (`plugin.c`, `plugins/*.c`) | the list of plugins, a filter for each | loading, `tagsistant_process()` | the tags of a file are those of the most specific plugins for what it holds, whatever order they were found in |
| Start-up and shutdown (`tagsistant.c`, `utils.c`, `sql.c`, `tagsistant_fix_checksums()`) | options, `repository.ini`, the choice of a database, the autotagging thread | main() step by step, fork, unmount, kill | a repository stays on one database; a start-up ends; missing checksums are repaired; requests are answered |

**How they interact.** Every handler calls `tagsistant_querytree_new()`, which
takes the rwlock (for writing when the handler asks for a transaction) and a
connection, expands aliases, parses the path, reasons about each tag and looks
up the inode; the handler then issues its statements and its system call, and
`tagsistant_querytree_destroy()` commits or rolls back and gives connection and
lock back. `flush()` runs the deduplication kernel, which queues the path for
the autotagging thread, a further client of the same lock and pool.

**What is hard.** Readers share the lock, so the statements of the
deduplication kernel, of `link()`, of `open()`, and of `write()` on an alias
interleave with one another. The lock protects against other writers only, not
against a kill between the archive and the database, nor against a cache that a
rollback does not undo. Sessions can be dropped by a MySQL server in the middle
of a request. Cycles in relations and in aliases are data users can write.
FUSE hands each call a copy of the handle, so descriptor numbers that were
closed are used again. The process forks after it has started a thread. The
list `hazards` in `PROJECT.json` names each of these at its line.

## 2. Modules

| Module | Models | Checked by |
|---|---|---|
| `ConnectionPool` | rwlock, pool, sessions, transactions; one action per critical section or statement | `MCConnectionPool`, proofs in `ConnectionPoolProofs` |
| `Catalog` | the tables, the cache and `archive/`, statement by statement: one request with a transaction, or any number of `link()`s, at a time | `MCCatalog`, proofs in `CatalogProofs` |
| `Deduplication` | clients that create, write, truncate, close and remove files, the kernel statement by statement, the autotagging thread | `MCDeduplication`, proofs in `DeduplicationProofs` |
| `QueryTree` | the parser as a token machine, the lookup, the tags given to a new file | itself, proofs in `QueryTreeProofs` |
| `Reasoner` | the chain walk row by row, between edits of the relations table | itself, proofs in `ReasonerProofs` |
| `Alias` | expansion, one replacement a step, and the requests that edit aliases | `MCAlias`, proofs in `AliasProofs` |
| `Store` | abstract: the catalogue by name, one step for each request, link() in pieces | `Catalog` implements it |
| `OpenFiles` | abstract: what a handle promises an application | `FileHandle` implements it |
| `FileHandle` | descriptor numbers over open, read, write, flush, the kernel and the other threads of the daemon | `MCFileHandle`, proofs in `FileHandleProofs` |
| `Plugins` | operators: load order, filters, the chain for a MIME type, the tags of a file | extended by `Daemon` |
| `Daemon` | the life of the process: main(), repository.ini, fork, autotagging thread, requests, unmount, kill | `MCDaemon`, proofs in `DaemonProofs` |
| `Listing` | readdir against getattr, while mkdir and rmdir change tags and relations | itself |

Where modules meet they share a result instead of being composed step by step:
`ConnectionPool` shows (and proves) that a request with a transaction is alone
between lock and unlock. `Catalog` therefore runs one request with a transaction
at a time, and the link()s, which ask for none, beside each other and beside
readers but not beside such a request; `Reasoner` lets relations change only
between two queries, `Deduplication` makes mknod, unlink and autotagging one
action each that waits for the readers, `Alias` builds the same rule into
`TakeLock`, and a request of `Listing` or `Daemon` is one step (unlink() in
`Daemon` two, since its two sides can be separated by a kill). `Daemon` composes
the kernel of `Deduplication`, as one step, with `Plugins`, the autotagging
thread and the lock.

### ConnectionPool

`pc[t]` is the place of thread `t` between `querytree_new()` and
`querytree_destroy()`. `Request`, `WriterLock`, `ReaderLock` take the lock;
`Reuse`, `Discard`, `PoolEmpty` and `Crash` are the walk of the pool, each as
one step since the mutex is held; `Create` opens a connection outside it;
`Begin`, `Statement`, `EndTransaction`, `EndReading`, `Give`, `Unlock` follow.
`Drop` is the server closing a session; `Reachable`/`Unreachable` are what
`dbi_conn_ping()`/`dbi_conn_connect()` then find. A `Statement` may also be
refused by the database: `tagsistant_real_query()` logs it and the request goes
on. `issued`, `pending`, `kept` and `failed` count statements, so that atomicity
can be stated. Begin, commit and rollback are taken to succeed in a session that
lives; an error that ends the transaction too is a `Drop`.

Two requests do not end as they began. `Leak` is the deduplication kernel on an
object it cannot open: its tree is never destroyed, so that its connection
(`lost`) and its read lock are gone. `Nest` is the callback of
`tagsistant_fix_checksums()`, which makes a tree while the outer query keeps a
lock and a connection of its own (`outer`); `EndTree` goes back to that one.

### Catalog

Tables are functions and sets; a tag is a record `[ns, kv]`, so that triple
tags share the namespace row the code caches under one key. `pc` is the
statement the request has reached; `saved` is what SQLite restores when a
transaction is rolled back or the process killed (`Crash`); `cache` is what it
does not restore until a restart. `DiskFails` lets system calls fail. The
`Admissible` guard stands for the kernel, which walks a path with getattr()
before it calls a handler; `Races` lets a tag vanish after that walk.

A thread in `link()` (`LinkStart` to `LinkDone` or `LinkFailed`) has its own
`lreq`, `lpc`, `ltodo` and `lino`. It holds the read lock, so other link()s and
lookups run beside it, and each of its statements is in `saved` at once. `stray`
remembers the objects of link()s that failed or were killed half-way, which keep
their rows without a file: `CrashDamage` counts one object for each kill, and
these apart.

`RequestsAreAtomic` is the refinement: the committed state, with ids translated
to names, is a behaviour of `Store`. A transaction maps to one step of `Store`
when it commits and to none when it is rolled back or killed; a link() maps to
`LinkNew` and one `LinkTagged` for each tag.

The two deletes of `DeleteObject` are one step, as nothing can be seen between
them inside the transaction. `Relate` makes both tags of an incomplete triple
relation and relates none (`whole`). Two things are left out: a statement the
database refuses (`ConnectionPool` has it; here, after a refused insert,
`last_insert_id` would be that of an earlier object), and the branch of rename()
below `tags/`, whose statement names no tag because only `store/` paths set
`last_tag`.

### Deduplication

`content` and `checksum` are separate, SHA1 being injective. A client holds a
handle between open and flush; with `SharesHandle` it flushes twice, as dup()
does. `leaked` counts query trees that are never destroyed, each a read lock no
writer ever gets past.

### QueryTree

`path` is any sequence of up to `MaxTokens` tokens, chosen at the start, and
`read` how many of them the parser has read; the one file of that name is tagged
in every way. `Described` holds of the paths the ChangeLog explains and the
error messages of the parser allow. A reference meaning, after the ChangeLog, is
defined on the path apart from the tree, and the properties compare the two.

### Reasoner

`rows` is what the SQL query has not handed to the callback yet; the order is
free. `pos` is the node the recursion is at. `StandsFor` and its closure are
defined on the relations table alone, and compared with the chain. So is
`Hidden`: the tags the start tag excludes and does not itself stand for. The two
queries are asked in this order, and of a tag that is both the exclusion is
dropped as a duplicate: such a tag stays related, and the properties say so.

### Alias

A path is a sequence of tokens. `Match` finds the leftmost alias, `Replace` is
one call of the regex callback (with its own select), `Replaced` starts over.
`Prefix` says which names begin with which other, since the pattern is not
anchored. `Meaning` replaces all aliases at once, in as many rounds as there are
names, and is the reference.

### FileHandle and OpenFiles

`desc` is the table of descriptors of the process, and open(2) takes the lowest
free number, as POSIX has it, for handlers and for the other threads: a new
connection to the database, a journal of SQLite, a file libextractor looks at
(`OtherOpen`, `OtherClose`; `others` are the numbers they hold). `fh[h]` is what
FUSE keeps for a handle: open() sets it; what read(), write() and flush() store
goes into a copy. `local` is the handler's own variable. A read() or write()
that fails closes the number, opens the file again by its path and tries once
more (`TryFails`, `CloseFailed`, `Reopen`, `Retry`); if another thread took the
number in between, the new one differs and is forgotten (`Forgotten`), which
`lost` counts as it counts the descriptors of `.tags` lists. flush() closes and,
for an object without a checksum, goes through the kernel (`FlushDedup` to
`KernelClose`). `opened`, `content` and `reply` are the variables of
`OpenFiles`, so the refinement `HandlesReachTheirFiles` maps each to itself and
hides the descriptors. It is stated where no call fails and no handle is shared
(`Careful`); `LeaksAreCounted` whatever fails and whoever shares.

### Plugins and Daemon

`Plugins` holds the type, section, default filter, fixed tags, namespace and
result of each shipped plugin; a file is the sequence of keywords libextractor
finds in it. `LoadedList` is the list in the order of loading, `Chain` and
`Autotags` are `tagsistant_process()`; `InForce` and `ExpectedTags` state what
the comments say of it, without lists.

`phase` in `Daemon` is how far main() has come. The repository (`ini`, `sum`,
`tags`, `files`) outlives the process; everything else is lost in `Gone`, which
is exit(), unmount or kill. `Mount` is fuse_main(): in the background the child
goes on with a copy of the memory, locks included, and without the autotagging
thread. `Kernel` is the deduplication kernel, with the read lock it leaks when
the object cannot be opened, and the checksum of a directory, computed from a
buffer nothing has written. Tags move with a merge only if the two objects share
none: the one update is refused otherwise, and the delete that follows drops
them. `data` is what a file holds and `Write` changes it; `held` is what it held
when the thread extracted its keywords, before it asked for the lock. Plugins
only add tags (`plugin.c:369`), so a rewritten file keeps those of its old
content: `past` collects what an object, or one merged into it with equal
content, has ever held, and `dropped` the objects whose place in the queue died
with a process. One application has a file open at a time; truncate() is in
`Deduplication`. The thread that tags the path of an object removed meanwhile
would insert rows for inode 0: they are left out. `fair` in an environment
chooses between the two kinds of rwlock: glib promises neither.

### Listing

A tag is the sequence of its tokens, and a row with an empty key or value the
shorter sequence: the rows a lookup with NULL accepts are then those it is a
prefix of, which is how `Matching` and `GetTagId` are written. `ParseRelations`
and `ParseStore` are the two parsers as far as tags go (a fold over the tokens),
`Getattr` and `Readdir` the two handlers, each with a case for each root
directory. A client walks from directory to directory, following what readdir()
shows, and makes and removes tags, triple tags and relations on the way.
`Answer(TRUE, ...)` is the list of related tags, whose statement is refused
because `tagsistant_real_query()` escapes the quotes in its arguments.

## 3. Runs

| Run | Shows |
|---|---|
| `pool` | a server that drops a session, which is revived or discarded, and refuses statements, a thread in `tagsistant_fix_checksums()`, a leaked tree: writers are alone, a connection has one user, no transaction outlives its request, sessions are never more than threads, nested connections and leaked trees together, a request whose session lives loses only the statements the database refused, and a waiting reader is served although writers keep coming |
| `catalog` | files, links, tags and relations made, moved and removed, two link()s at a time, with system calls that fail and a kill anywhere: tagged objects exist, the cache answers truthfully, ids are live, a kill leaves at most one object and its file in disagreement besides those of link()s, and what the database keeps is what whole requests of `Store` lead to: unlink spares tagged files, rename retags, a symbolic link has one row |
| `dedup_sequential` | one client: only equal files are merged, and the autotagging queue is drained, which takes that no read lock is leaked |
| `dedup_concurrent` | two clients on the same files, double flush, truncate, unlink: rows keep their files |
| `query` | every path of six tokens over three tags: described queries parse, without negations (or with one after the first tag) they are exact, described files are found, created files are found again |
| `query_negation` | finding, section 6 |
| `reasoner` | every relations table of up to four rows over three tags: exactly the implied tags, no tag twice, an excluded tag related only by a row of its own, and the recursion ends, cycles included |
| `alias` | nested and repeated aliases edited by a second thread: undisturbed queries expand to what they stand for, and expansions end as long as no alias contains itself |
| `files` | two handles on two files, another thread that opens and closes descriptors, a list that uses one up, with and without errors, retries and dup(): without them the daemon implements `OpenFiles` and no two handles at rest hold the same number; with them too, only lists and second attempts leak descriptors |
| `daemon` | two or three launches with failing steps, a kill anywhere, two plugin orders, files made, merged, opened, rewritten and removed, in the foreground and in the background: one database unless repository.ini was lost, checksums repaired before the mount, tags as the plugins in force say of what a file has held, start-ups end, requests are answered |
| `daemon_background` | finding |
| `listing` | every walk of up to six tokens (four below `store/`) with up to three tags and two relations: what is listed can be entered, every relation can be entered, what was created is listed, what was removed is gone, offered paths parse |

**Bounds.** `pool`: two threads are a reader and a writer in conflict, or two
readers on the pool; one of them can nest. Four handles are one for each thread,
a second for the one that nests and a fourth for a leaked tree; one drop is
enough to kill a session in use or in the pool, two statements to lose one of
them. The proofs remove the bound for the safety properties. `catalog`: two
inodes and four tag ids over two tag names let an id be freed and given away
again, which is where the cache can go wrong; two link()s share tags and fill
both inodes. `Deduplication`: three or four inodes give a file, its duplicate
and a third that meets a stale checksum. `query`: six tokens hold two
alternatives with a group or a negation in each. `reasoner`: three tags and four
rows hold a cycle with an exclusion; larger tables are covered by the proof.
`alias`: two aliases, one inside the other, give every order of leftmost
replacement. `MaxPath` stops an expansion that grows for ever; the largest
expansion without a cycle is shorter. `files`: three descriptors for two handles
and one of another thread let a retry, the kernel or the database take the
number another handle has closed, and let lists use all of them up; `MaxLost`
stops calls that fail once a number is lost, or the third would be the last.
Errors and dup()ed descriptors, where the promise fails (section 6), are one of
the two environments of the run. `daemon`: each behaviour has one of five
environments, so that faults, service, removal, background and an unreachable
database are not multiplied: three launches and a kill lose and rewrite
repository.ini; three objects, two of them alike, are merged while they are
queued, and rewritten with either of two contents; four working plugins and a
broken one cover a chain that ends early, one that does not, and the keyword
buffer at its limit. `listing`: two flat tags and one triple tag; three ids
allow removal and creation under the same name; six tokens hold a relation
between two triple tags' prefixes.

**Deadlock** is checked, except in runs where the system may really stop: after
exit() or a crash of the daemon, when bounded work is used up (in `Daemon` the
launches), in `FileHandle` where lists may have used up every descriptor, and in
`Alias` when an expansion goes round in circles with the lock held.

**Fairness.** *ConnectionPool*: weak fairness of the steps of a request in
progress (a thread of the FUSE loop runs), and strong fairness of taking the
read lock (the lock behind `GRWLock` lets waiting readers in when a writer
leaves). `tagsistant_fix_checksums()` has finitely many rows to read, so its
outer query ends too. No client has to make requests. *Deduplication*: weak
fairness of the steps of a handler in progress and of the autotagging thread.
*Reasoner*: weak fairness of the steps of one function call. *Alias*: weak
fairness of serving a request. *Daemon*: weak fairness of "the process takes a
step", main(), thread and request together: it does not stop while one of its
threads can go on. Launches and requests are bounded, so this cannot starve one
thread for ever. Nobody has to launch, unmount, kill or ask for anything.

Every property of a passing run has a mutant in `PROJECT.json`: a plausible
slip in the code under which TLC finds the property violated. The operators
marked *Mutant* in the modules are these forms; nothing else uses them. `TypeOK`
of every module holds under the configuration of its run; it is among the run's
properties in `pool` and `catalog`, and proved in those and wherever section 4
needs it.

## 4. Proofs

A theorem holds for every value of the constants that satisfies the `ASSUME`s of
the module it is about. These only say what a constant is: finite sets of
threads and handles, natural bounds, marks (`NoConn`, `Free`, `NoSum`...) that
are not also values, requests with the fields their handler reads
(`WellFormed` in `Catalog`), paths made of tokens, environments with the fields
the model uses. TLC evaluates each of them in a run. The bounds that keep TLC
finite are parameters like the others, so that a theorem is about any number of
tags, inodes, launches, kills and retries.

Every invariant named below was checked by TLC on the configuration of its run
before it was proved. Every proof has a lemma for each group of actions and a
last theorem `Spec => []...` that puts them together.

| Module | Theorem | Property | Hypothesis |
|---|---|---|---|
| `ConnectionPoolProofs` | `TypeCorrect` | `TypeOK` | |
| | `WritersRunAlone` | `WriterExclusion` | |
| | `ConnectionsAreExclusive` | `ExclusiveConnection` | |
| | `TransactionsEndWithTheirRequest` | `NoStrayTransaction` | |
| | `SessionsAreBounded` | `SessionsAreWarranted` | |
| | `RequestsAreAtomic` | `AllOrNothing` | |
| `ReasonerProofs` | `ReasonerIsExact` | `ReasonsExactly` | |
| | `ReasonerNoTagTwice` | `NoTagTwice` | |
| | `ReasonerHides` | `ExcludedIsNotRelated` | |
| `CatalogProofs` | `CatalogTypes` | `TypeOK` | |
| | `NoOrphanTaggings` | `TaggedObjectsExist` | |
| | `DamageIsCounted` | `CrashDamage` | |
| | `CacheIsCoherent` | `CacheCoherent` | `Plain` |
| | `TaggedByLiveIds` | `IdsAreLive` | `Plain` |
| | `OtherTagsSpareTheFile` | `UnlinkSparesTagged` | `Plain` |
| | `CatalogImplementsStore` | `RequestsAreAtomic` | `Plain` |
| `DeduplicationProofs` | `ArchiveMatchesObjects` | `FilesMatchRows` | |
| | `MergedFilesAreIdentical` | `OnlyIdenticalFilesMerge` | `Undisturbed` |
| `FileHandleProofs` | `LostNumbersAreCounted` | `LeaksAreCounted` | |
| | `HandlesDoNotShareNumbers` | `NumbersAreDistinct` | |
| | `CacheImplementsOpenFiles` | `HandlesReachTheirFiles` | |
| `DaemonProofs` | `DatabaseStays` | `OneDatabase` | |
| | `ChecksumsAreFixed` | `ChecksumsFixed` | |
| | `AutotagsExpected` | `AutotagsAsExpected` | `NoDirectories`, `AllFound`, `FiltersLeft` |
| `AliasProofs` | `AliasStays` | `AliasStaysForGetattr` | |
| | `AliasesExpandExactly` | `ExpandsExactly` | `Prefix = {}`, `Names` finite |
| `QueryTreeProofs` | `DescribedParse` | `DescribedQueriesParse` | |
| | `FilesFound` | `DescribedFilesFound` | |
| | `FirstNegations` | `NegationOfFirstTag` | |
| | `CreatedFound` | `CreatedFileIsFound` | |

### The hypotheses

Each is a predicate on constants that the run of the same property satisfies,
and each part of it is needed: without it TLC finds a counterexample.

- `Plain` (`Catalog`): no tag vanishes between the kernel's lookup and the call
  (with `Races = TRUE` the cache keeps a rolled back id); relations are spelt as
  `IS_VALID_RELATION` wants (`CatalogMisspelt.cfg`); a bare tagname that is
  looked up, or renamed, is not also a namespace (`CatalogMachine.cfg` for the
  renaming; `Triples` as `Lookups`, with mkdir and rmdir of a namespace and its
  triple tag, for the lookup).
- `Undisturbed` (`Deduplication`): one client (`DedupDiverge.cfg`), which does
  not truncate by path (`DedupTruncate.cfg`) and does not dup() its handles
  (`DedupSequential.cfg` with `SharesHandle = TRUE` and five opens).
- `NoDirectories`, `AllFound` and `FiltersLeft` (`Daemon`): no object is a
  directory, whose checksum may be that of any file (`DaemonDirs.cfg`); readdir()
  returns every installed plugin, in any order; the filter of a plugin that is
  loaded is not edited, since it is asked for before repository.ini is read
  (`DaemonFilters.cfg`).
- `Prefix = {}` (`Alias`): no name of an alias is the beginning of another, which
  the expression built from it would match as well (`AliasPrefix.cfg`).

`NumbersAreDistinct` and `HandlesReachTheirFiles` carry their condition,
`Careful`, within: no call on an open descriptor fails (`FileHandleErrors.cfg`)
and no dup()ed handle is closed twice (`FileHandleShared.cfg`).

### The arguments

`ConnectionPoolProofs`: none of the properties is inductive alone. The invariant
is `IInv`, the conjunction of the type, `LockInv` (the lock's holders are the
threads at steps inside it, so the writer is the only one when there is one),
`ConnInv` (the pool has no duplicates, no owned handle is pooled, owned handles
are pairwise different, unborn handles are nowhere), `TxInv` (a transaction is
open only in the connection of a thread between Begin and the end of its
transaction), `DataInv` (issued = pending + kept + failed while nothing was
dropped) and `PoolInv` (every live session is pooled, owned, held by a query
below, or lost). A thread creates a connection only after it found the pool
empty, with every live session in the hands of another thread or of its own
outer query, or lost: that is why sessions stay within the bound, although two
threads may be creating at once.

`ReasonerProofs`: the invariant adds `Control` (where the walk is), `Direct`
(while the start node is current the chain holds its direct neighbours), `Sound`
(every closed set that contains the start tag's admissible neighbours contains
the chain) and `Complete` (every neighbour of a node that was passed, or is not
among the rows to come, is known). `Hiding` compares the
`->negated` chain of the start node with `Hidden`, which is read off the
relations table (`NegatedChainIsHidden`): the first query is asked before the
second, so a tag the start tag stands for is in the related chain by then. The
closure is stated with quantification over closed sets, so no induction is
needed.

`CatalogProofs`: `BaseInv` holds whatever is asked. It says that the tables now
and the tables a rollback goes back to are both in order (`TablesOK`,
`SavedInv`), which handler can be at which step and that the bounds leave room
for the rows it will insert (`RequestInv`), that link()s run only while no
transaction is open, each on an object of its own (`LinkInv`), and how the
object in hand differs from what it was (`ObjectInv`); only then does a rollback
or a kill preserve anything. `DamageInv` states the damage against the tables
that the request would leave behind, the old ones until the system call on the
archive and the new ones after it; it leaves out the objects of link()s, in
progress or stopped half-way (`stray`). `IdInv` adds that ids in use name one
row each, now and after a rollback, that the cache is coherent, and `KeepsTags`:
the tags of a path exist from the start, so that a request that can still fail
has created none, and going back cannot leave the cache ahead of the table. That
is the step `Plain` is for.

The same module shows the refinement. `ProgressInv` says, for each operation and
step, by names instead of ids, how far the tables are from those the request
began with (`CreateInv`, `UntagInv`, `RenameInv`, `UnlinkInv`, `RmtagInv`...).
It follows that every step of a transaction but the last leaves the state of
`Store` alone, that the commit is the step of `Store` of the same name, and that
a rollback or kill is none; a link() has no transaction, and each of its
statements is a step of `Store`. `OtherTagsSpareTheFile` is a by-product.

`DeduplicationProofs`: `FilesInv` adds to `FilesMatchRows` that a kernel about
to unlink has deleted the row already (`UnlinkInv`), that a handler in progress
works on an inode (`CurInv`) and under a path of the file system (`PathInv`),
for any clients; no new row can take the inode meanwhile, since mknod() waits
for the readers. `FreshInv` and `MergeInv` say that a checksum is that of the
content except in the file being written, which has none, and that what the
kernel has read stays true until it deletes a row.

`FileHandleProofs`: `Holds(h)` is the number a handle answers for, `fi->fh` or
the handler's variable depending on the step. `LeakInv` bounds by `lost` the
numbers on a file or on tags.sql that no handle holds; each action frees its
number or hands it on, and the two that do not are counted. `OwnInv` says, under
`Careful`, that the number a handle holds is open on its own file, and neither
another handle's nor another thread's: a number is then closed only with its
handle, so nobody's open() can be given it. The refinement maps the variables of
`OpenFiles` to themselves, and each action to the one of the same name or to a
stutter.

`DaemonProofs`: `DatabaseInv` counts the databases used against the losses of
repository.ini phase by phase: while the file names none, one of them has been
paid for in advance. `FixInv` says that a readable object without a checksum is
still on the list `tagsistant_fix_checksums()` works through; `ServiceInv`, that
no request comes in between.

For `AutotagsExpected`, `PluginsInv` says that from `LoadPlugins` on the list
holds every plugin that can be loaded, whatever the order, and that the filters
in memory and in repository.ini are the defaults; `RowsInv`, that a checksum is
that of the object's own data (a file being rewritten has none), that an object
has a row in one database, and none before it is created, and that the kernel
and the requests work on objects that have one. `AutoInv` is about the tags.
`TagsInv`: those of an object are earned by some of the contents it has held;
two objects the kernel merges hold the same, so tags that move are earned by the
other as well. `HeldInv`: what the thread has in hand is something the object
has held. `SettledInv`: an object with a checksum has the tags of its present
content, or waits in the queue, or is in the thread's hands with that content,
or is one that a process dropped. That the chain built from the list runs the
plugins `ExpectedTags` speaks of is shown for the walk over the list, one plugin
at a time.

`AliasProofs`: `LockInv` (a request with a transaction is alone) is what
`AliasStaysForGetattr` rests on; `StepInv` and `TypeInv` are what the steps
assume of one another. `AliasAssumption` leaves names, values, paths, prefixes
and bounds free.

`AliasesExpandExactly` relates two orders of rewriting: the code replaces one
name at a time, from the left, and reads the table each time; `Meaning` replaces
all of them, round after round. The invariant `ExpandInv` says of a query that
met no edit that the path it asked for `Leads` to what it holds now: whatever
that comes to after any number of rounds, if no alias is left in it, the path
comes to as well. A replacement keeps this, because a round treats the tokens of
a path apart (`AfterJoined`) and an alias after one round more is its value
(`AfterToken`). When the handler runs no alias is left, so the path is what some
number of rounds makes of the one asked for. As many rounds as there are names
are enough (`PlainMeaning`): the set of names that are fully replaced grows
with every round until it stops for good.

`QueryTreeProofs`: the invariant compares the tree with the path, as far as it
was read. `FlagsInv` ties the parser's flags to the last tokens and the number
of alternatives to the `+` signs; `NodesInv` gives every tag that is not negated
a node of its alternative, shared exactly by the tags of a group, and leaves no
node or chain without such a tag; `NegatedInv` and `FirstInv` say what hangs
from `->negated`, and that a negation right after the first tag of an
alternative is the head of the chain, the only one the lookup reads. At the end
of the path the tree can be read off the path, and finding a file is what the
path means: in one direction for any negation, in both where the lookup sees
all of them.

Where a proof goes over a sequence or a number, induction is by a first
counterexample: the natural numbers are well-founded, so a set that contains 0
and is closed under the successor has no smallest number outside it. The same
argument (`Recursion` in `AliasProofs`) shows that a function defined by
recursion is what its equations say.

### Only model-checked

- Liveness: `ReadersAreServed`, `QueueIsDrained`, `ReasonerReturns`,
  `ExpansionEnds`, `StartUpEnds`, `RequestsServed`. The prover does not do
  fairness or ENABLED.
- The five properties of `Listing`. They compare `Readdir` with `Getattr` on the
  path the client is in, that is, two case distinctions over the roots, each on
  top of a parser that folds over the tokens, and they hold only if tags, signs,
  relations and operators are different strings, which the run's constants give
  and no assumption of the module states. A proof needs what `ParseStore` makes
  of one token more, as in `QueryTreeProofs`, for a larger parser state.

## 5. Plan

Done, in this order: `ConnectionPool`, `Catalog`, `Deduplication`, `QueryTree`,
`Reasoner`, `Alias`, `FileHandle` over `OpenFiles`, `Store` under `Catalog`,
`Plugins` and `Daemon`, `Listing`; the proofs of section 4. Next:

1. Proofs: of `Listing`, first that rows, ids and cache agree, which
   `RelationsCanBeEntered` and `RemovedIsGone` rest on, then `OfferedPathsParse`
   along the lines of `QueryTreeProofs`; the control invariants of `Daemon` (a
   process has one autotagging thread at most, the lock's holders are where they
   say).
2. Explicit inodes in object names (`NN___name`) and homonyms in `Catalog`, with
   the uninitialised `tmp_inode`.
3. The comparison operators of triple tags in the lookup of `QueryTree`, and the
   composition of `QueryTree` with `Reasoner` (`@` instead of `@@`).

## 6. What the runs found

Two of them are runs that end in a violation; `findings` in `PROJECT.json`
quotes the line each contradicts. The others are kept as further configurations
that are not among the runs: `tlc -config <name>.cfg <module>` ends in a
violation of the one property the configuration names.

Runs:

- `query_negation`: most negated tags are ignored by the lookup.
- `daemon_background`: without `-f` the process that serves requests has no
  autotagging thread, because it is started before fuse_main() forks.

Further configurations:

- `ConnectionPoolClosed.cfg` (`MCConnectionPool`): a dead pooled connection is
  closed, unlinked and returned.
- `CatalogMisspelt.cfg` (`MCCatalog`): a refused relation leaves a rolled back tag
  id in the cache; a later unlink() deletes a file that has another tag.
- `CatalogMachine.cfg` (`MCCatalog`): renaming a namespace leaves its triple
  tags cached.
- `DedupDiverge.cfg` (`MCDeduplication`): a write while the kernel runs merges
  files that differ.
- `DedupTags.cfg` (`MCDeduplication`): if two equal files share a tag the other
  tags of one are lost.
- `DedupTruncate.cfg` (`MCDeduplication`): truncate() leaves a stale checksum,
  which merges files that differ.
- `DedupLeak.cfg` (`MCDeduplication`): a file removed before the kernel opens it
  leaks a read lock.
- `QueryWrong.cfg` (`QueryTree`): some wrong queries dereference NULL.
- `AliasCircle.cfg` (`MCAlias`): aliases that name each other hang the request and,
  with it, all writers.
- `AliasPrefix.cfg` (`MCAlias`): `=a/=ab` expands the second alias as the first.
- `AliasTarget.cfg` (`MCAlias`): the new path of a rename() loses its aliases.
- `FileHandleShared.cfg` (`MCFileHandle`): after the first of two close()s of a
  dup()ed descriptor its number is given to another file; a write through the
  second goes there.
- `FileHandleErrors.cfg` (`MCFileHandle`): the same after a failed write, whose
  retry closes a number that stays in `fi->fh`; the number may also go to the
  database.
- `DaemonFork.cfg` (`MCDaemon`): the child inherits the write lock of a thread it
  does not have, and no request is answered.
- `DaemonKilled.cfg` (`MCDaemon`): a kill in unlink() leaves a row without a file;
  the next start-up leaks a read lock on it and no writer is served.
- `DaemonFairLock.cfg` (`MCDaemon`): with a lock that lets waiting writers go first
  `tagsistant_fix_checksums()` and the autotagging thread wait for each other.
- `DaemonFilters.cfg` (`MCDaemon`): plugins are initialised before repository.ini
  is read, so the filters in it are never used.
- `DaemonWrongDb.cfg` (`MCDaemon`): a database that cannot be reached is recorded
  in repository.ini and wins over `--db` ever after.
- `DaemonDirs.cfg` (`MCDaemon`): the checksum of a directory is that of memory
  nothing has written; two directories, or a directory and a file, can be merged.
- `ListingRelations.cfg` (`Listing`): existing relations are not listed below their
  first tag.

Seen while modelling, without a configuration of its own: each open() of a
`.tags` list leaks a descriptor (`open.c:52`), which `LeaksAreCounted` counts; a
file that is rewritten keeps the tags of its old content (`plugin.c:369` only
adds); a link() that fails leaves its row without a file, since the transaction
is asked for on the tree that gets no connection (`link.c:44`); a dangling
symbolic link makes `tagsistant_fix_checksums()` leak a read lock, as a row
without a file does; rmdir() of `store/a/b` removes both tags (`rmdir.c:65`);
objects can be created below `archive/` (`mkdir.c:46`); an alias renamed over
another stays where it was, with success reported (`rename.c:144`); operators
are offered in `store/` itself, since the path is compared with `/tags`
(`readdir.c:147`, comment at `:227`); a prefix of a removed triple tag is still
found through the cache; the key of an earlier triple tag hides the second one
of the same path; a relation with a triple tag cannot be removed by rmdir(); a
token that is no operator makes readdir() list the operators again, which
getattr() then takes for values; getattr() answers for the triple tag whatever
follows it in a `store/` path. In `Deduplication` a write after flush() goes
through the path: that is the EBADF branch of `FileHandle`, when the number was
not given out again.

## 7. Not modelled

libextractor and the matching of regular expressions (external; a file is its
keywords, a filter a set of names), the code that lists the files of a complete
query (`tagsistant_RDS_new()` is called by the source and is not part of this
commit), explicit inodes in object names, access, readlink, statfs, chmod, chown
and utime (one system call each), the content of `stats/` files and lists, SQL
text and its escaping beyond the quotes readdir() trips over, upgrades of an old
schema, logging, options other than `--db` and `-f`, and the data race inside
the hash table of the tag_id cache, whose outcomes are those of a corrupted
GHashTable.
