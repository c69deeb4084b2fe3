------------------------------- MODULE Daemon --------------------------------
(***************************************************************************)
(* The life of the daemon: what main() does before fuse_main() (src/src/   *)
(* tagsistant.c, with repository.ini in utils.c, the database in sql.c and *)
(* tagsistant_deduplication_init()), the autotagging thread it starts, and *)
(* the requests served until the repository is unmounted or the process    *)
(* dies.  The repository outlives the process.                             *)
(*                                                                         *)
(* Queries, the pool and the statements of a request are in the other      *)
(* modules: here a request is one step, except unlink(), which can die     *)
(* between its two sides.                                                  *)
(***************************************************************************)
EXTENDS Plugins, FiniteSets, FiniteSetsExt

CONSTANTS
    MaxInode,      \* bound: objects ever created
    Kind,          \* [Inodes -> "file", "dir", "link", "broken" (a dangling link)]
    Contents,      \* what a file can hold
    Data,          \* [Inodes -> what the object, or the link's target, holds at first]
    Databases,     \* values of --db
    Sqlite,        \* "sqlite3::::"
    None,          \* no --db option, no key in repository.ini, no request
    Absent, NoSum, \* no row in objects; checksum = ''
    Junk,          \* the checksum of a directory, see Checksums
    Installed,     \* the plugins in PLUGINS_DIR
    BrokenPlugins, \* those that cannot be loaded
    Environments   \* what happens to the daemon, records by name:
                   \*   dbs, fg: the values of --db and -f it is launched with
                   \*   down:    databases that cannot be reached
                   \*   faults:  system calls of the start-up can fail
                   \*   launches: bound, starts of the daemon
                   \*   objects: bound, objects the users create
                   \*   opens:   bound, objects opened again for writing
                   \*   rewrites: contents the users write into open files
                   \*   edits:   filters the user writes in repository.ini
                   \*   unlinks: users remove objects
                   \*   kills:   bound, how often the process is killed
                   \*   fair:    the rwlock lets a waiting writer go first
                   \*   found:   orders in which readdir() returns the plugins

Inodes == 1 .. MaxInode

ASSUME DataAssumption ==
    /\ MaxInode \in Nat
    /\ Kind \in [Inodes -> {"file", "dir", "link", "broken"}]
    /\ Data \in [Inodes -> Contents]
ASSUME DatabasesAssumption == Sqlite \in Databases /\ None \notin Databases
ASSUME SumsAssumption == NoSum # Absent /\ NoSum \notin {Junk} \cup Contents
ASSUME EnvironmentsAssumption ==
    \A e \in DOMAIN Environments :
        /\ Environments[e].dbs \subseteq Databases \cup {None}
        /\ Environments[e].rewrites \subseteq Contents
ASSUME PluginsAssumption == BrokenPlugins \subseteq Installed /\ Installed \subseteq Shipped

VARIABLES
    env,       \* the name of the environment of this behaviour
    \* the repository
    ini,       \* repository.ini: [db, filters]
    sum,       \* [Databases -> [Inodes -> objects.checksum]]
    tags,      \* [Databases -> [Inodes -> tags of the object]]
    files,     \* objects with a file under archive/
    data,      \* [Inodes -> what the object holds]
    made,      \* objects created so far: they are numbered in order
    \* the process
    phase,     \* how far main() has come
    args,      \* its command line: [db, fg]
    db,        \* tagsistant.dboptions
    kf,        \* the filters in tagsistant_ini
    plugins,   \* tagsistant.plugins
    filters,   \* [plugin -> its regular expression]
    todo,      \* rows tagsistant_fix_checksums() has still to see
    queue,     \* tagsistant_autotagging_queue
    thread,    \* where the autotagging thread is
    cur,       \* the object it works on
    held,      \* what the object held when its keywords were extracted
    readers,   \* read locks held on tagsistant_query_rwlock
    writer,    \* who holds it for writing
    req,       \* the request in progress: [op, o]
    \* history
    launches, kills, opens,
    used,      \* databases the repository has been mounted on
    torn,      \* times repository.ini was left without a database
    lacking,   \* the process found objects without a checksum
    past,      \* [Inodes -> what the object has ever held, or one with the same
               \* content that was merged into it]
    dropped    \* objects that were to be autotagged by a process that has gone

Env == Environments[env]
contents == <<data, past>>
repository == <<ini, sum, tags, files, made, contents>>
config == <<args, db, kf, plugins, filters>>
hand == <<cur, held>>
work == <<todo, queue, thread, hand, dropped>>
locks == <<readers, writer>>
history == <<launches, kills, opens, used, torn, lacking>>
vars == <<env, repository, phase, config, work, locks, req, history>>

StartUp == {"prepare", "plugins", "ini", "truncate", "save", "connect", "thread", "fix", "fork"}
NoFilters == [s \in IniSections |-> NoFilter]
NoIni == [db |-> None, filters |-> NoFilters]
Rows(d) == {o \in Inodes : sum[d][o] # Absent}

\* The object waits in the queue, or the thread is at work on it.
Busy == {"extract", "lock", "tag"}
Awaited(o) == (\E n \in DOMAIN queue : queue[n] = o) \/ (cur = o /\ thread \in Busy)

TypeOK ==
    /\ env \in DOMAIN Environments
    /\ ini.db \in Databases \cup {None} /\ DOMAIN ini.filters = IniSections
    /\ \A d \in Databases : \A o \in Inodes : sum[d][o] # Absent => o <= made
    /\ files \subseteq 1 .. made /\ made \in 0 .. MaxInode
    /\ data \in [Inodes -> Contents] /\ \A o \in Inodes : data[o] \in past[o]
    /\ phase \in StartUp \cup {"off", "mounted"}
    /\ db \in Databases \cup {None}
    /\ phase \in {"truncate", "save", "connect", "thread", "fix", "fork", "mounted"}
            => db \in Databases
    /\ plugins \in Seq(Installed \ BrokenPlugins)
    /\ todo \subseteq Inodes /\ queue \in Seq(Inodes)
    /\ thread \in {"none", "idle", "extract", "lock", "tag"}
    /\ readers \in Nat /\ writer \in {"none", "thread", "client"}

Init ==
    /\ env \in DOMAIN Environments
    /\ ini = NoIni
    /\ sum = [d \in Databases |-> [o \in Inodes |-> Absent]]
    /\ tags = [d \in Databases |-> [o \in Inodes |-> {}]]
    /\ files = {} /\ made = 0
    /\ data = Data /\ past = [o \in Inodes |-> {Data[o]}]
    /\ phase = "off"
    /\ args = [db |-> None, fg |-> FALSE] /\ db = None /\ kf = NoFilters
    /\ plugins = <<>> /\ filters = <<>>
    /\ todo = {} /\ queue = <<>> /\ thread = "none" /\ cur = 0 /\ held = None
    /\ readers = 0 /\ writer = "none" /\ req = None
    /\ launches = 0 /\ kills = 0 /\ opens = 0
    /\ used = {} /\ torn = 0 /\ lacking = FALSE /\ dropped = {}

\* The process is gone, and with it everything it had in memory.
Gone ==
    /\ phase' = "off"
    /\ args' = [db |-> None, fg |-> FALSE] /\ db' = None /\ kf' = NoFilters
    /\ plugins' = <<>> /\ filters' = <<>>
    /\ todo' = {} /\ queue' = <<>> /\ thread' = "none" /\ cur' = 0 /\ held' = None
    /\ dropped' = dropped \cup {o \in Inodes : Awaited(o)}
    /\ readers' = 0 /\ writer' = "none" /\ req' = None

-----------------------------------------------------------------------------
(* main(), up to the database                                              *)

Launch(d, f) ==
    /\ phase = "off" /\ launches < Env.launches
    /\ args' = [db |-> d, fg |-> f]
    /\ launches' = launches + 1
    /\ phase' = "prepare"
    /\ lacking' = FALSE
    /\ UNCHANGED <<env, repository, db, kf, plugins, filters, work, locks, req,
                   kills, opens, used, torn>>

\* The mount point, the repository, tags.sql and archive/ are there or made.
Prepare ==
    /\ phase = "prepare"
    /\ phase' = "plugins"
    /\ UNCHANGED <<env, repository, config, work, locks, req, history>>

\* Or exit(): a directory cannot be made; no database; fuse_main() fails.
Exit(step) ==
    /\ phase = step
    /\ Gone
    /\ UNCHANGED <<env, repository, history>>

PrepareFails == Env.faults /\ Exit("prepare")

\* The plugins are initialised before repository.ini is read: tagsistant_ini is
\* still NULL and kf empty.
LoadPlugins ==
    /\ phase = "plugins"
    /\ \E found \in Env.found :
        plugins' = LoadedList(found, Installed \ BrokenPlugins)
    /\ filters' = [p \in Installed \ BrokenPlugins |-> FilterOf(p, kf)]
    /\ phase' = "ini"
    /\ UNCHANGED <<env, repository, args, db, kf, work, locks, req, history>>

\* Mutant: the command line wins over repository.ini.
ParseIniArgsFirst ==
    /\ phase = "ini"
    /\ db' = IF args.db # None THEN args.db ELSE IF ini.db # None THEN ini.db ELSE Sqlite
    /\ kf' = [s \in IniSections |->
                  IF ini.filters[s] # NoFilter THEN ini.filters[s] ELSE IniDefault(s)]
    /\ phase' = "truncate"
    /\ UNCHANGED <<env, repository, args, plugins, filters, work, locks, req, history>>

\* tagsistant_manage_repository_ini(): the file wins over the command line.
ParseIni ==
    /\ phase = "ini"
    /\ db' = IF ini.db # None THEN ini.db ELSE IF args.db # None THEN args.db ELSE Sqlite
    /\ kf' = [s \in IniSections |->
                  IF ini.filters[s] # NoFilter THEN ini.filters[s] ELSE IniDefault(s)]
    /\ phase' = "truncate"
    /\ UNCHANGED <<env, repository, args, plugins, filters, work, locks, req, history>>

\* tagsistant_save_repository_ini() truncates the file ...
TruncateIni ==
    /\ phase = "truncate"
    /\ ini' = NoIni
    /\ phase' = "save"
    /\ UNCHANGED <<env, sum, tags, files, made, contents, config, work, locks, req, history>>

\* ... or cannot open it, and goes on ...
TruncateFails ==
    /\ phase = "truncate" /\ Env.faults
    /\ torn' = IF ini.db = None THEN torn + 1 ELSE torn
    /\ phase' = "connect"
    /\ UNCHANGED <<env, repository, config, work, locks, req, launches, kills,
                   opens, used, lacking>>

\* ... then writes it ...
SaveIni ==
    /\ phase = "save"
    /\ ini' = [db |-> db, filters |-> kf]
    /\ phase' = "connect"
    /\ UNCHANGED <<env, sum, tags, files, made, contents, config, work, locks, req, history>>

\* ... or fails to, and goes on.
SaveFails ==
    /\ phase = "save" /\ Env.faults
    /\ torn' = torn + 1
    /\ phase' = "connect"
    /\ UNCHANGED <<env, repository, config, work, locks, req, launches, kills,
                   opens, used, lacking>>

\* tagsistant_db_init() and tagsistant_create_schema()
Connect ==
    /\ phase = "connect" /\ db \notin Env.down
    /\ used' = used \cup {db}
    /\ phase' = "thread"
    /\ UNCHANGED <<env, repository, config, work, locks, req, launches, kills,
                   opens, torn, lacking>>

ConnectFails == db \in Env.down /\ Exit("connect")

-----------------------------------------------------------------------------
(* tagsistant_deduplication_kernel(), as one step of a reading request     *)

\* A directory can be opened but not read: g_checksum_update() gets the length
\* -1 and takes the buffer, which nothing has written, for a string.
Checksums(o) == IF Kind[o] = "dir" THEN {Junk} \cup Contents ELSE {data[o]}

CanBeOpened(o) == o \in files /\ Kind[o] # "broken"

\* The object gets its checksum; then it is queued for autotagging, unless it
\* has the checksum of an earlier one: its tags are moved to that one, in one
\* statement that moves none of them when they have one in common, and those left
\* are deleted with its row and its file.  unlink() does not delete a directory.
Deduplicate(o, h) ==
    LET table == [sum[db] EXCEPT ![o] = h]
        main == Min({p \in Rows(db) : table[p] = h})
        moved == IF tags[db][main] \cap tags[db][o] = {} THEN tags[db][o] ELSE {}
        merged == [tags[db] EXCEPT ![main] = @ \cup moved, ![o] = {}]
    IN IF main = o
       THEN /\ sum' = [sum EXCEPT ![db] = table]
            /\ queue' = Append(queue, o)
            /\ dropped' = dropped \ {o}
            /\ UNCHANGED <<tags, files, past>>
       ELSE /\ sum' = [sum EXCEPT ![db] = [table EXCEPT ![o] = Absent]]
            /\ tags' = [tags EXCEPT ![db] = merged]
            /\ files' = IF Kind[o] = "dir" THEN files ELSE files \ {o}
            /\ past' = [past EXCEPT ![main] = @ \cup {c \in past[o] : data[main] = data[o]}]
            /\ UNCHANGED <<queue, dropped>>

\* The object cannot be opened: the query tree is never destroyed, and its read
\* lock never released.
Kernel(o) ==
    \/ /\ CanBeOpened(o)
       /\ \E h \in Checksums(o) : Deduplicate(o, h)
       /\ UNCHANGED readers
    \/ /\ ~CanBeOpened(o)
       /\ readers' = readers + 1
       /\ UNCHANGED <<sum, tags, files, queue, past, dropped>>

-----------------------------------------------------------------------------
(* tagsistant_deduplication_init()                                         *)

\* Mutant: the select finds nothing.
StartThreadNoRows ==
    /\ phase = "thread"
    /\ thread' = "idle"
    /\ todo' = {}
    /\ readers' = readers + 1
    /\ phase' = "fix"
    /\ UNCHANGED <<env, repository, config, queue, hand, dropped, writer, req, history>>

\* The autotagging thread starts; tagsistant_fix_checksums() takes the read lock
\* and selects the objects without a checksum.
StartThread ==
    /\ phase = "thread"
    /\ thread' = "idle"
    /\ todo' = {o \in Rows(db) : sum[db][o] = NoSum}
    /\ lacking' = (todo' # {})
    /\ readers' = readers + 1
    /\ phase' = "fix"
    /\ UNCHANGED <<env, repository, config, queue, hand, dropped, writer, req,
                   launches, kills, opens, used, torn>>

\* Mutant: the kernel asks for a transaction.
FixRowAsWriter(o) ==
    /\ phase = "fix" /\ o \in todo
    /\ readers = 0 /\ writer = "none"
    /\ Kernel(o)
    /\ todo' = todo \ {o}
    /\ UNCHANGED <<env, ini, made, data, phase, config, thread, hand, writer, req, history>>

\* tagsistant_fix_checksums_callback(): the kernel takes the read lock again
\* while it is held, which a lock that lets waiting writers go first refuses.
FixRow(o) ==
    /\ phase = "fix" /\ o \in todo
    /\ writer = "none" /\ ~(Env.fair /\ thread = "lock")
    /\ Kernel(o)
    /\ todo' = todo \ {o}
    /\ UNCHANGED <<env, ini, made, data, phase, config, thread, hand, writer, req, history>>

\* Mutant: the lock is not released.
FixDoneLocked ==
    /\ phase = "fix" /\ todo = {}
    /\ phase' = "fork"
    /\ UNCHANGED <<env, repository, config, work, locks, req, history>>

\* The lock is released with g_rw_lock_writer_unlock(), which releases either.
FixDone ==
    /\ phase = "fix" /\ todo = {}
    /\ readers' = readers - 1
    /\ phase' = "fork"
    /\ UNCHANGED <<env, repository, config, work, writer, req, history>>

-----------------------------------------------------------------------------
(* fuse_main()                                                             *)

\* In the foreground the process stays; otherwise a child goes on, with a copy
\* of the memory, locks included, and without the other thread.
Mount ==
    /\ phase = "fork"
    /\ phase' = "mounted"
    /\ thread' = IF args.fg THEN thread ELSE "none"
    /\ dropped' = IF args.fg THEN dropped ELSE dropped \cup {o \in {cur} : thread \in Busy}
    /\ UNCHANGED <<env, repository, config, todo, queue, hand, locks, req, history>>

MountFails == Env.faults /\ Exit("fork")

\* fuse_main() returns and main() with it, whatever the thread is doing.
Unmount ==
    /\ req = None
    /\ Exit("mounted")

Kill ==
    /\ phase # "off" /\ kills < Env.kills
    /\ kills' = kills + 1
    /\ torn' = IF phase = "save" THEN torn + 1 ELSE torn
    /\ Gone
    /\ UNCHANGED <<env, repository, launches, opens, used, lacking>>

\* The user changes a filter in repository.ini.
EditIni(s, f) ==
    /\ phase = "off" /\ ini.db # None
    /\ ini' = [ini EXCEPT !.filters[s] = f]
    /\ UNCHANGED <<env, sum, tags, files, made, contents, phase, config, work, locks, req,
                   history>>

-----------------------------------------------------------------------------
(* tagsistant_autotagging_loop()                                           *)

\* g_async_queue_pop(); the processor mutex is taken.
Pop ==
    /\ thread = "idle" /\ queue # <<>>
    /\ cur' = Head(queue) /\ queue' = Tail(queue)
    /\ thread' = "extract"
    /\ UNCHANGED <<env, repository, phase, config, todo, held, dropped, locks, req, history>>

HasMime == cur \in files /\ MimeTypes(data[cur]) # {}

\* The keywords are extracted before the lock is asked for.
Extract ==
    /\ thread = "extract"
    /\ held' = IF HasMime THEN data[cur] ELSE held
    /\ thread' = IF HasMime THEN "lock" ELSE "idle"
    /\ UNCHANGED <<env, repository, phase, config, todo, queue, cur, dropped, locks,
                   req, history>>

\* The query tree needs a transaction.
LockForTags ==
    /\ thread = "lock" /\ readers = 0 /\ writer = "none"
    /\ writer' = "thread"
    /\ thread' = "tag"
    /\ UNCHANGED <<env, repository, phase, config, todo, queue, hand, dropped, readers,
                   req, history>>

\* The chain runs and the transaction is committed.  The path of an object that was
\* removed or merged meanwhile leads nowhere: what the code then inserts, tags of
\* inode 0 or of an object with the same path, is left out.
Tag ==
    /\ thread = "tag"
    /\ tags' = [tags EXCEPT ![db][cur] =
           IF cur \in Rows(db) THEN @ \cup Autotags(plugins, held, filters) ELSE @]
    /\ writer' = "none"
    /\ thread' = "idle"
    /\ UNCHANGED <<env, ini, sum, files, made, contents, phase, config, todo, queue,
                   hand, dropped, readers, req, history>>

-----------------------------------------------------------------------------
(* Requests of the users                                                   *)

NewRequest(op, o) ==
    /\ phase = "mounted" /\ req = None
    /\ req' = [op |-> op, o |-> o]
    /\ UNCHANGED <<env, repository, phase, config, work, locks>>

AskCreate ==
    /\ NewRequest("create", made + 1)
    /\ made < Env.objects
    /\ UNCHANGED history

AskOpen(o) ==
    /\ NewRequest("open", o)
    /\ opens < Env.opens /\ o \in Rows(db) \cap files /\ Kind[o] = "file"
    /\ opens' = opens + 1
    /\ UNCHANGED <<launches, kills, used, torn, lacking>>

\* One application has it open for writing.
AskWrite(o) ==
    /\ NewRequest("write", o)
    /\ o \in Rows(db) \cap files /\ Kind[o] = "file" /\ sum[db][o] = NoSum
    /\ Env.rewrites # {}
    /\ UNCHANGED history

AskClose(o) ==
    /\ NewRequest("close", o)
    /\ o \in Rows(db) \cap files /\ Kind[o] = "file" /\ sum[db][o] = NoSum
    /\ UNCHANGED history

AskUnlink(o) ==
    /\ NewRequest("unlink", o)
    /\ Env.unlinks /\ o \in Rows(db) \cap files
    /\ UNCHANGED history

Serving(op) == req # None /\ req.op = op

\* mknod(), mkdir() and symlink()
Create ==
    /\ Serving("create") /\ readers = 0 /\ writer = "none"
    /\ made' = made + 1
    /\ sum' = [sum EXCEPT ![db][req.o] = NoSum]
    /\ files' = files \cup {req.o}
    /\ req' = None
    /\ UNCHANGED <<env, ini, tags, contents, phase, config, work, locks, history>>

\* open() for writing drops the checksum.
Open ==
    /\ Serving("open") /\ writer = "none"
    /\ sum' = [sum EXCEPT ![db][req.o] = IF @ = Absent THEN Absent ELSE NoSum]
    /\ req' = None
    /\ UNCHANGED <<env, ini, tags, files, made, contents, phase, config, work, locks, history>>

\* write(): the object holds something else.
Write ==
    /\ Serving("write") /\ writer = "none"
    /\ \E c \in Env.rewrites :
        /\ data' = [data EXCEPT ![req.o] = c]
        /\ past' = [past EXCEPT ![req.o] = @ \cup {c}]
    /\ req' = None
    /\ UNCHANGED <<env, ini, sum, tags, files, made, phase, config, work, locks, history>>

\* flush() of an object without a checksum.
Close ==
    /\ Serving("close") /\ writer = "none"
    /\ Kernel(req.o)
    /\ req' = None
    /\ UNCHANGED <<env, ini, made, data, phase, config, todo, thread, hand, writer, history>>

\* unlink(): the rows are deleted in the transaction, the file at once ...
UnlinkFile ==
    /\ Serving("unlink") /\ readers = 0 /\ writer = "none"
    /\ writer' = "client"
    /\ files' = files \ {req.o}
    /\ UNCHANGED <<env, ini, sum, tags, made, contents, phase, config, work, readers, req,
                   history>>

\* ... then the transaction is committed.
UnlinkCommit ==
    /\ writer = "client"
    /\ sum' = [sum EXCEPT ![db][req.o] = Absent]
    /\ tags' = [tags EXCEPT ![db][req.o] = {}]
    /\ writer' = "none"
    /\ req' = None
    /\ UNCHANGED <<env, ini, files, made, contents, phase, config, work, readers, history>>

-----------------------------------------------------------------------------
MainStep ==
    \/ Prepare \/ PrepareFails \/ LoadPlugins \/ ParseIni
    \/ TruncateIni \/ TruncateFails \/ SaveIni \/ SaveFails
    \/ Connect \/ ConnectFails \/ StartThread
    \/ \E o \in Inodes : FixRow(o)
    \/ FixDone \/ Mount \/ MountFails

ThreadStep == Pop \/ Extract \/ LockForTags \/ Tag

Serve == Create \/ Open \/ Write \/ Close \/ UnlinkFile \/ UnlinkCommit

UserStep ==
    \/ \E d \in Env.dbs, f \in Env.fg : Launch(d, f)
    \/ Unmount \/ Kill
    \/ \E e \in Env.edits : EditIni(e.section, e.filter)
    \/ AskCreate
    \/ \E o \in Inodes : AskOpen(o) \/ AskWrite(o) \/ AskClose(o) \/ AskUnlink(o)

Next == MainStep \/ ThreadStep \/ Serve \/ UserStep

\* The process does not stop while one of its threads can go on; the users do
\* what they please.  Launches and requests are bounded, so that no thread can
\* keep another from its turn for ever.
Spec == Init /\ [][Next]_vars /\ WF_vars(MainStep \/ ThreadStep \/ Serve)

-----------------------------------------------------------------------------
(* Properties                                                              *)

\* "Ignoring command line --db parameter in favor of repository.ini"
\* (utils.c:315): whatever the command lines say, a repository is mounted on
\* one database; another one for every time repository.ini could not be written
\* or was lost between open(O_TRUNC) and write(), by a kill or a full disk.
OneDatabase == Cardinality(used) <= 1 + torn

\* "called once() after starting to fix object entries lacking the checksum"
\* (deduplication.c:305): when the file system is about to be mounted every
\* object that can be read has one, whatever was killed before.
ChecksumsFixed == phase = "fork" =>
    \A o \in Rows(db) : CanBeOpened(o) => sum[db][o] # NoSum

\* The tags the plugins in force give, with the filters of repository.ini, for
\* one content or another.
TagsFor(S) == UNION {ExpectedTags(Installed \ BrokenPlugins, c, ini.filters) : c \in S}

\* Whatever order the plugins were found in, and whoever was reopened, rewritten,
\* queued twice, merged or killed: the tags of an object are those expected for
\* some of what it has held, or one merged into it with the same content: the
\* tags of an old content are never taken off (plugin.c:369 only adds).  Once it
\* has its checksum and the thread is done with it, those for what it holds now
\* are among them, unless the process that had queued it has gone.
AutotagsAsExpected == \A d \in Databases, o \in Inodes :
    /\ \E S \in SUBSET past[o] : tags[d][o] = TagsFor(S)
    /\ sum[d][o] \notin {Absent, NoSum} /\ o \in files \ dropped /\ ~Awaited(o)
           => TagsFor({data[o]}) \subseteq tags[d][o]

\* A start-up ends: fixing checksums, with its read lock taken twice, never waits
\* for the autotagging thread, which waits for it.
StartUpEnds == phase \in StartUp ~> phase \in {"mounted", "off"}

\* A request is answered, and not kept waiting by a lock: in the foreground, and
\* in the background if the start-up gave the autotagging thread nothing to do.
RequestsServed == (req # None /\ (args.fg \/ ~lacking)) ~> req = None

\* ChangeLog:60-65, after a touch "Each file will be rescanned for tags and
\* deduplicated too": however the daemon was started.
TouchedFilesRescanned == (queue # <<>> /\ phase = "mounted")
                            ~> (queue = <<>> \/ phase # "mounted")

\* ChangeLog:154-156, "the plugins save their filter regexp in the
\* repository.ini file": what the user writes there is what the plugins use.
FiltersFollowIni == phase = "mounted" =>
    \A p \in Installed \ BrokenPlugins : filters[p] = FilterOf(p, ini.filters)

\* Every request is answered, however the daemon was started.
AllRequestsServed == req # None ~> req = None

\* A database is recorded in repository.ini when it has been used.
RecordedDatabaseWorks == phase = "off" => ini.db \in used \cup {None}

\* Objects of different kinds are never merged.
KindsStaySeparate == \A o \in files :
    Kind[o] # "file" => \E d \in Databases : o \in Rows(d)
=============================================================================
