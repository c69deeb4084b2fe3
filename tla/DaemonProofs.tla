---------------------------- MODULE DaemonProofs -----------------------------
(***************************************************************************)
(* Proofs about Daemon, for any objects, databases and plugins and any     *)
(* environment: a repository changes its database only when repository.ini *)
(* was lost, and no start-up leaves a readable object without a checksum.  *)
(* And, where the filters are left alone and no object is a directory, the *)
(* tags an object has are those the comments on the plugins describe.      *)
(***************************************************************************)
EXTENDS Daemon, FiniteSetTheorems, SequenceTheorems, NaturalsInduction,
        WellFoundedInduction, TLAPS

-----------------------------------------------------------------------------
(* The database                                                            *)

\* The database is chosen, by tagsistant_manage_repository_ini().
Chosen == {"truncate", "save", "connect", "thread", "fix", "fork", "mounted"}

\* What repository.ini names is what was used; where it names none, one of the
\* databases used, or the one in hand, has been paid for by a loss.
DatabaseInv ==
    /\ IsFiniteSet(used) /\ torn \in Nat /\ ini = [db |-> ini.db, filters |-> ini.filters]
    /\ phase \in Chosen => db # None /\ ini.db \in {db, None}
    /\ phase = "save" => ini.db = None /\ Cardinality(used \cup {db}) <= 1 + torn
    /\ ini.db # None => Cardinality(used \cup {ini.db}) <= 1 + torn
    /\ ini.db = None /\ phase # "save" => Cardinality(used) <= torn
    /\ ini.db = None /\ phase = "connect" => Cardinality(used \cup {db}) <= torn

\* One more makes at most one more.
LEMMA OneMore ==
  ASSUME NEW S, IsFiniteSet(S), NEW x
  PROVE  /\ IsFiniteSet(S \cup {x})
         /\ Cardinality(S) \in Nat /\ Cardinality(S \cup {x}) \in Nat
         /\ Cardinality(S) <= Cardinality(S \cup {x})
         /\ Cardinality(S \cup {x}) <= Cardinality(S) + 1
  <1>1. IsFiniteSet(S \cup {x}) /\ Cardinality(S \cup {x}) \in {Cardinality(S), Cardinality(S) + 1}
    BY FS_AddElement
  <1> QED  BY <1>1, FS_CardinalityType

\* A step that leaves the database alone, in the same phase or from one of the
\* phases without one to another, or from one of the phases with one to another.
LEMMA DatabaseKept ==
  ASSUME DatabaseInv, ini' = ini \/ ini' = [db |-> ini.db, filters |-> ini'.filters], used' = used, torn' = torn,
         \/ phase' = phase /\ db' = db
         \/ phase' \notin Chosen /\ phase # "save"
         \/ phase \in Chosen \ {"save"} /\ phase' \in {"thread", "fix", "fork", "mounted"} /\ db' = db
  PROVE  DatabaseInv'
  BY DEF DatabaseInv, Chosen

\* tagsistant_manage_repository_ini()
LEMMA ParseIniDatabase ==
  ASSUME DatabaseInv, ParseIni
  PROVE  DatabaseInv'
  <1>1. /\ phase = "ini" /\ phase' = "truncate" /\ UNCHANGED <<ini, used, torn>>
        /\ db' # None /\ ini.db \in {db', None}
    BY DatabasesAssumption DEF ParseIni, repository, history
  <1> QED  BY <1>1 DEF DatabaseInv, Chosen

\* tagsistant_save_repository_ini()
LEMMA SaveDatabase ==
  ASSUME DatabaseInv, TruncateIni \/ TruncateFails \/ SaveIni \/ SaveFails
  PROVE  DatabaseInv'
  <1>1. /\ Cardinality(used) \in Nat /\ Cardinality(used \cup {db}) \in Nat
        /\ Cardinality(used) <= Cardinality(used \cup {db})
        /\ Cardinality(used \cup {db}) <= Cardinality(used) + 1
    BY OneMore DEF DatabaseInv
  <1>2. CASE TruncateIni
    <2>1. /\ phase = "truncate" /\ phase' = "save" /\ db' = db /\ used' = used
          /\ ini' = NoIni /\ torn' = torn
      BY <1>2 DEF TruncateIni, config, history
    <2> QED  BY <1>1, <2>1 DEF DatabaseInv, Chosen, NoIni
  <1>3. CASE TruncateFails
    BY <1>1, <1>3 DEF TruncateFails, DatabaseInv, Chosen, repository, config
  <1>4. CASE SaveIni
    BY <1>1, <1>4 DEF SaveIni, DatabaseInv, Chosen, config, history
  <1>5. CASE SaveFails
    BY <1>1, <1>5 DEF SaveFails, DatabaseInv, Chosen, repository, config
  <1> QED  BY <1>2, <1>3, <1>4, <1>5

\* tagsistant_db_init()
LEMMA ConnectDatabase ==
  ASSUME DatabaseInv, Connect
  PROVE  DatabaseInv'
  <1>1. /\ phase = "connect" /\ phase' = "thread" /\ used' = used \cup {db}
        /\ UNCHANGED <<ini, db, torn>>
    BY DEF Connect, repository, config
  <1>2. IsFiniteSet(used') /\ used' \cup {db} = used'
    BY <1>1, OneMore DEF DatabaseInv
  <1> QED  BY <1>1, <1>2 DEF DatabaseInv, Chosen

\* exit() and unmount, and a kill, which can leave repository.ini empty.
LEMMA EndDatabase ==
  ASSUME DatabaseInv, PrepareFails \/ ConnectFails \/ MountFails \/ Unmount \/ Kill
  PROVE  DatabaseInv'
  <1>1. CASE PrepareFails \/ ConnectFails \/ MountFails \/ Unmount
    <2>1. /\ phase' \notin Chosen /\ phase # "save" /\ UNCHANGED <<ini, used, torn>>
      BY <1>1 DEF PrepareFails, ConnectFails, MountFails, Unmount, Exit, Gone, Chosen, repository, history
    <2> QED  BY <2>1, DatabaseKept
  <1>2. CASE Kill
    <2>1. /\ phase' = "off" /\ UNCHANGED <<ini, used>>
          /\ torn' = IF phase = "save" THEN torn + 1 ELSE torn
      BY <1>2 DEF Kill, Gone, repository
    <2>2. /\ Cardinality(used) \in Nat /\ Cardinality(used \cup {db}) \in Nat
          /\ Cardinality(used) <= Cardinality(used \cup {db})
      BY OneMore DEF DatabaseInv
    <2> QED  BY <2>1, <2>2 DEF DatabaseInv, Chosen
  <1> QED  BY <1>1, <1>2

\* Every step keeps the account of losses.
LEMMA DatabaseStep ==
  ASSUME DatabaseInv, [Next]_vars
  PROVE  DatabaseInv'
  <1>1. CASE UNCHANGED vars
    BY <1>1, DatabaseKept DEF vars, repository, config, history
  <1>2. CASE MainStep
    <2>1. ASSUME Prepare \/ LoadPlugins \/ StartThread \/ FixDone \/ Mount \/ (\E o \in Inodes : FixRow(o))
          PROVE  DatabaseInv'
      <3>1. UNCHANGED <<ini, db, used, torn>>
        BY <2>1 DEF Prepare, LoadPlugins, StartThread, FixDone, Mount, FixRow, repository, config, history
      <3>2. \/ phase' = phase
            \/ phase' \notin Chosen /\ phase # "save"
            \/ phase \in Chosen \ {"save"} /\ phase' \in {"thread", "fix", "fork", "mounted"}
        BY <2>1 DEF Prepare, LoadPlugins, StartThread, FixDone, Mount, FixRow, Chosen
      <3> QED  BY <3>1, <3>2, DatabaseKept
    <2> QED
      BY <1>2, <2>1, ParseIniDatabase, SaveDatabase, ConnectDatabase, EndDatabase DEF MainStep
  <1>3. CASE ThreadStep \/ Serve
    <2>1. UNCHANGED <<ini, db, used, torn, phase>>
      BY <1>3
      DEF ThreadStep, Serve, Pop, Extract, LockForTags, Tag, Create, Open, Write, Close, UnlinkFile, UnlinkCommit,
          repository, config, history
    <2> QED  BY <2>1, DatabaseKept
  <1>4. CASE UserStep
    <2>1. ASSUME NEW d \in Env.dbs, NEW f \in Env.fg, Launch(d, f) PROVE DatabaseInv'
      <3>1. phase = "off" /\ phase' = "prepare" /\ UNCHANGED <<ini, used, torn>>
        BY <2>1 DEF Launch, repository
      <3> QED  BY <3>1, DatabaseKept DEF Chosen
    <2>2. ASSUME NEW e \in Env.edits, EditIni(e.section, e.filter) PROVE DatabaseInv'
      <3>1. phase' = phase /\ phase = "off" /\ UNCHANGED <<db, used, torn>>
        BY <2>2 DEF EditIni, config, history
      <3>2. ini' = [ini EXCEPT !.filters[e.section] = e.filter]
        BY <2>2 DEF EditIni
      <3>3. ini' = [db |-> ini.db, filters |-> ini'.filters]
        BY <3>2 DEF DatabaseInv
      <3> QED  BY <3>1, <3>3, DatabaseKept
    <2>3. ASSUME AskCreate \/ (\E o \in Inodes : AskOpen(o) \/ AskWrite(o) \/ AskClose(o) \/ AskUnlink(o))
          PROVE  DatabaseInv'
      <3>1. UNCHANGED <<ini, db, used, torn, phase>>
        BY <2>3 DEF AskCreate, AskOpen, AskWrite, AskClose, AskUnlink, NewRequest, repository, config, history
      <3> QED  BY <3>1, DatabaseKept
    <2> QED  BY <1>4, <2>1, <2>2, <2>3, EndDatabase DEF UserStep
  <1> QED  BY <1>1, <1>2, <1>3, <1>4 DEF Next

\* The invariant holds.
THEOREM DatabaseHolds == Spec => []DatabaseInv
  <1>1. Init => DatabaseInv
    BY FS_EmptySet DEF Init, DatabaseInv, Chosen, NoIni
  <1>2. DatabaseInv /\ [Next]_vars => DatabaseInv'
    BY DatabaseStep
  <1> QED  BY <1>1, <1>2, PTL DEF Spec

\* Whatever the command lines say, a repository is mounted on one database, and
\* on another one only for a repository.ini that could not be written or was
\* lost between open(O_TRUNC) and write().
THEOREM DatabaseStays == Spec => []OneDatabase
  <1>1. DatabaseInv => OneDatabase
    <2> SUFFICES ASSUME DatabaseInv PROVE Cardinality(used) <= 1 + torn
      BY DEF OneDatabase
    <2>1. /\ Cardinality(used) \in Nat /\ torn \in Nat
          /\ Cardinality(used \cup {db}) \in Nat /\ Cardinality(used) <= Cardinality(used \cup {db})
          /\ Cardinality(used \cup {ini.db}) \in Nat /\ Cardinality(used) <= Cardinality(used \cup {ini.db})
      BY OneMore DEF DatabaseInv
    <2> QED  BY <2>1 DEF DatabaseInv
  <1> QED  BY <1>1, DatabaseHolds, PTL

-----------------------------------------------------------------------------
(* Missing checksums                                                       *)

Sums == {Absent, NoSum, Junk} \cup Contents

\* The database in hand has a table, and requests come when the file system is
\* mounted, not before.
ServiceInv ==
    /\ env \in DOMAIN Environments
    /\ sum \in [Databases -> [Inodes -> Sums]] /\ data \in [Inodes -> Contents]
    /\ args.db \in Databases \cup {None} /\ ini.db \in Databases \cup {None}
    /\ phase \in Chosen => db \in Databases
    /\ phase # "mounted" => req = None /\ writer # "client"
    /\ Serving("close") \/ Serving("write") => req.o \in Inodes

\* An object that could be read and has no checksum is still to be seen.
FixInv ==
    /\ phase \in {"fix", "fork"} =>
        \A o \in Rows(db) : CanBeOpened(o) /\ sum[db][o] = NoSum => o \in todo
    /\ phase = "fork" => todo = {}

\* What the kernel does to the table of checksums.
LEMMA KernelSums ==
  ASSUME ServiceInv, db \in Databases, NEW o \in Inodes, Kernel(o)
  PROVE  /\ sum' \in [Databases -> [Inodes -> Sums]] /\ files' \subseteq files
         /\ \A p \in Inodes : p # o => sum'[db][p] = sum[db][p]
         /\ CanBeOpened(o) => sum'[db][o] # NoSum
  <1>1. CASE ~CanBeOpened(o)
    BY <1>1 DEF Kernel, ServiceInv
  <1>2. ASSUME NEW h \in Checksums(o), Deduplicate(o, h)
        PROVE  /\ sum' \in [Databases -> [Inodes -> Sums]] /\ files' \subseteq files
               /\ \A p \in Inodes : p # o => sum'[db][p] = sum[db][p]
               /\ sum'[db][o] # NoSum
    <2>1. h \in Sums /\ h # NoSum /\ Absent \in Sums /\ Absent # NoSum
      <3>1. data[o] \in Contents
        BY DEF ServiceInv
      <3>2. h \in {Junk} \cup Contents
        BY <1>2, <3>1, Zenon DEF Checksums
      <3> QED  BY <3>2, SumsAssumption DEF Sums
    <2> DEFINE table == [sum[db] EXCEPT ![o] = h]
    <2>2. /\ \/ sum' = [sum EXCEPT ![db] = table]
             \/ sum' = [sum EXCEPT ![db] = [table EXCEPT ![o] = Absent]]
          /\ files' \subseteq files
      BY <1>2 DEF Deduplicate
    <2>3. sum[db] \in [Inodes -> Sums] /\ table \in [Inodes -> Sums]
      BY <2>1 DEF ServiceInv
    <2>4. /\ table[o] = h /\ \A p \in Inodes : p # o => table[p] = sum[db][p]
      BY <2>3
    <2> HIDE DEF table
    <2>5. CASE sum' = [sum EXCEPT ![db] = table]
      BY <2>1, <2>2, <2>3, <2>4, <2>5 DEF ServiceInv
    <2>6. CASE sum' = [sum EXCEPT ![db] = [table EXCEPT ![o] = Absent]]
      <3>1. /\ [table EXCEPT ![o] = Absent] \in [Inodes -> Sums]
            /\ [table EXCEPT ![o] = Absent][o] = Absent
            /\ \A p \in Inodes : p # o => [table EXCEPT ![o] = Absent][p] = sum[db][p]
        BY <2>1, <2>3, <2>4
      <3> QED  BY <2>1, <2>2, <2>6, <3>1 DEF ServiceInv
    <2> QED  BY <2>2, <2>5, <2>6
  <1> QED  BY <1>1, <1>2 DEF Kernel

\* Every step keeps the tables, the database and the order of the start-up.
LEMMA ServiceStep ==
  ASSUME DatabaseInv, ServiceInv, [Next]_vars
  PROVE  ServiceInv'
  <1>1. CASE UNCHANGED vars
    BY <1>1 DEF vars, repository, contents, config, locks, ServiceInv, Serving
  <1>2. CASE MainStep
    <2>1. ASSUME Prepare \/ LoadPlugins \/ TruncateFails \/ SaveFails \/ Connect \/ StartThread \/ FixDone \/ Mount
          PROVE  ServiceInv'
      <3>1. UNCHANGED <<env, ini, sum, data, args, db, req, writer>>
        BY <2>1 DEF Prepare, LoadPlugins, TruncateFails, SaveFails, Connect, StartThread, FixDone, Mount,
                    repository, contents, config, locks
      <3>2. phase # "mounted" /\ (phase' \in Chosen => phase \in Chosen)
        BY <2>1 DEF Prepare, LoadPlugins, TruncateFails, SaveFails, Connect, StartThread, FixDone, Mount, Chosen
      <3> QED  BY <3>1, <3>2 DEF ServiceInv, Serving
    <2>2. ASSUME PrepareFails \/ ConnectFails \/ MountFails PROVE ServiceInv'
      BY <2>2 DEF PrepareFails, ConnectFails, MountFails, Exit, Gone, repository, contents, ServiceInv, Serving, Chosen
    <2>3. ASSUME ParseIni PROVE ServiceInv'
      BY <2>3, DatabasesAssumption DEF ParseIni, repository, contents, locks, ServiceInv, Serving, Chosen
    <2>4. ASSUME TruncateIni \/ SaveIni PROVE ServiceInv'
      BY <2>4 DEF TruncateIni, SaveIni, NoIni, contents, config, locks, ServiceInv, Serving, Chosen
    <2>5. ASSUME NEW o \in Inodes, FixRow(o) PROVE ServiceInv'
      <3>1. phase = "fix" /\ Kernel(o) /\ UNCHANGED <<env, ini, data, phase, args, db, writer, req>>
        BY <2>5 DEF FixRow, config
      <3>2. sum' \in [Databases -> [Inodes -> Sums]]
        BY <3>1, KernelSums DEF ServiceInv, Chosen
      <3> QED  BY <3>1, <3>2 DEF ServiceInv, Serving
    <2> QED  BY <1>2, <2>1, <2>2, <2>3, <2>4, <2>5 DEF MainStep
  <1>3. CASE ThreadStep
    <2>1. UNCHANGED <<env, ini, sum, data, args, db, req, phase>> /\ writer' \in {writer, "thread", "none"}
      BY <1>3 DEF ThreadStep, Pop, Extract, LockForTags, Tag, repository, contents, config, locks
    <2> QED  BY <2>1 DEF ServiceInv, Serving
  <1>4. CASE Serve
    <2>1. /\ UNCHANGED <<env, ini, args, db, phase>> /\ req' \in {req, None}
      BY <1>4 DEF Serve, Create, Open, Write, Close, UnlinkFile, UnlinkCommit, config
    <2>2. phase = "mounted" /\ db \in Databases
      BY <1>4 DEF Serve, Create, Open, Write, Close, UnlinkFile, UnlinkCommit, Serving, ServiceInv, Chosen
    <2>3. sum' \in [Databases -> [Inodes -> Sums]]
      <3>1. CASE Close
        BY <2>2, <3>1, KernelSums DEF Close, ServiceInv
      <3>2. CASE UnlinkFile \/ Write
        BY <3>2 DEF UnlinkFile, Write, ServiceInv
      <3>3. CASE Create \/ Open \/ UnlinkCommit
        <4>1. PICK v : sum' = [sum EXCEPT ![db][req.o] = v] /\ v \in Sums
          BY <3>3 DEF Create, Open, UnlinkCommit, Sums
        <4> QED  BY <2>2, <4>1 DEF ServiceInv
      <3> QED  BY <1>4, <3>1, <3>2, <3>3 DEF Serve
    <2>4. data' \in [Inodes -> Contents]
      <3>1. CASE Write
        <4>1. PICK c \in Contents : data' = [data EXCEPT ![req.o] = c]
          BY <3>1, EnvironmentsAssumption DEF Write, Env, ServiceInv
        <4> QED  BY <4>1 DEF ServiceInv
      <3>2. CASE Create \/ Open \/ Close \/ UnlinkFile \/ UnlinkCommit
        BY <3>2 DEF Create, Open, Close, UnlinkFile, UnlinkCommit, contents, ServiceInv
      <3> QED  BY <1>4, <3>1, <3>2 DEF Serve
    <2> QED  BY <2>1, <2>2, <2>3, <2>4 DEF ServiceInv, Serving
  <1>5. CASE UserStep
    <2>1. ASSUME NEW d \in Env.dbs, NEW f \in Env.fg, Launch(d, f) PROVE ServiceInv'
      <3>1. d \in Databases \cup {None}
        BY <2>1, EnvironmentsAssumption DEF Env, ServiceInv
      <3> QED  BY <2>1, <3>1 DEF Launch, repository, contents, locks, ServiceInv, Serving, Chosen
    <2>2. ASSUME NEW e \in Env.edits, EditIni(e.section, e.filter) PROVE ServiceInv'
      <3>1. /\ UNCHANGED <<env, sum, data, phase, args, db, req, writer>>
            /\ ini' = [ini EXCEPT !.filters[e.section] = e.filter]
        BY <2>2 DEF EditIni, contents, config, locks
      <3>2. ini'.db = ini.db
        BY <2>2, <3>1 DEF DatabaseInv
      <3> QED  BY <3>1, <3>2 DEF ServiceInv, Serving
    <2>3. ASSUME AskCreate \/ (\E o \in Inodes : AskOpen(o) \/ AskWrite(o) \/ AskClose(o) \/ AskUnlink(o))
          PROVE  ServiceInv'
      <3>1. UNCHANGED <<env, ini, sum, data, args, db, phase, writer>> /\ phase = "mounted"
        BY <2>3 DEF AskCreate, AskOpen, AskWrite, AskClose, AskUnlink, NewRequest, repository, contents, config, locks
      <3>2. req'.op \in {"close", "write"} => req'.o \in Inodes
        BY <2>3 DEF AskCreate, AskOpen, AskWrite, AskClose, AskUnlink, NewRequest
      <3> QED  BY <3>1, <3>2 DEF ServiceInv, Serving
    <2>4. ASSUME Unmount \/ Kill PROVE ServiceInv'
      BY <2>4 DEF Unmount, Kill, Exit, Gone, repository, contents, ServiceInv, Serving, Chosen
    <2> QED  BY <1>5, <2>1, <2>2, <2>3, <2>4 DEF UserStep
  <1> QED  BY <1>1, <1>2, <1>3, <1>4, <1>5 DEF Next

\* Every step of tagsistant_fix_checksums() leaves fewer objects to be seen, and
\* nothing else makes new ones before the file system is mounted.
LEMMA FixStep ==
  ASSUME ServiceInv, FixInv, [Next]_vars
  PROVE  FixInv'
  <1>1. ASSUME UNCHANGED <<sum, db, files, phase, todo>> PROVE FixInv'
    BY <1>1 DEF FixInv, Rows, CanBeOpened
  <1>2. ASSUME phase' \notin {"fix", "fork"} PROVE FixInv'
    BY <1>2 DEF FixInv
  <1>3. CASE UNCHANGED vars
    BY <1>1, <1>3 DEF vars, repository, config, work
  <1>4. CASE MainStep
    <2>1. ASSUME StartThread PROVE FixInv'
      BY <2>1 DEF StartThread, repository, config, FixInv, Rows, CanBeOpened
    <2>2. ASSUME NEW o \in Inodes, FixRow(o) PROVE FixInv'
      <3>1. phase = "fix" /\ Kernel(o) /\ todo' = todo \ {o} /\ UNCHANGED <<phase, db>>
        BY <2>2 DEF FixRow, config
      <3>2. db \in Databases
        BY <3>1 DEF ServiceInv, Chosen
      <3>3. /\ files' \subseteq files /\ \A p \in Inodes : p # o => sum'[db][p] = sum[db][p]
            /\ CanBeOpened(o) => sum'[db][o] # NoSum
        BY <3>1, <3>2, KernelSums
      <3>4. ASSUME NEW p \in Rows(db)', CanBeOpened(p)', sum'[db'][p] = NoSum PROVE p \in todo'
        <4>1. p \in Inodes /\ CanBeOpened(p) /\ sum'[db][p] # Absent
          BY <3>1, <3>3, <3>4 DEF Rows, CanBeOpened
        <4>2. p # o
          BY <3>1, <3>3, <3>4, <4>1
        <4> QED  BY <3>1, <3>3, <3>4, <4>1, <4>2 DEF FixInv, Rows
      <3> QED  BY <3>1, <3>4 DEF FixInv
    <2>3. ASSUME FixDone PROVE FixInv'
      BY <2>3 DEF FixDone, repository, config, work, FixInv, Rows, CanBeOpened
    <2>4. ASSUME Prepare \/ PrepareFails \/ LoadPlugins \/ ParseIni \/ TruncateIni \/ TruncateFails \/ SaveIni
                 \/ SaveFails \/ Connect \/ ConnectFails \/ Mount \/ MountFails
          PROVE  phase' \notin {"fix", "fork"}
      BY <2>4 DEF Prepare, PrepareFails, LoadPlugins, ParseIni, TruncateIni, TruncateFails, SaveIni,
                  SaveFails, Connect, ConnectFails, Mount, MountFails, Exit, Gone
    <2> QED  BY <1>2, <1>4, <2>1, <2>2, <2>3, <2>4 DEF MainStep
  <1>5. CASE ThreadStep
    <2>1. UNCHANGED <<sum, db, files, phase, todo>>
      BY <1>5 DEF ThreadStep, Pop, Extract, LockForTags, Tag, repository, config
    <2> QED  BY <1>1, <2>1
  <1>6. CASE Serve
    <2>1. phase = "mounted" /\ phase' = phase
      BY <1>6 DEF Serve, Create, Open, Write, Close, UnlinkFile, UnlinkCommit, Serving, ServiceInv
    <2> QED  BY <1>2, <2>1
  <1>7. CASE UserStep
    <2>1. phase' \in {"off", "prepare", "mounted"}
      BY <1>7 DEF UserStep, Launch, Unmount, Kill, Exit, Gone, EditIni, AskCreate, AskOpen, AskWrite, AskClose,
                  AskUnlink, NewRequest
    <2> QED  BY <1>2, <2>1
  <1> QED  BY <1>3, <1>4, <1>5, <1>6, <1>7 DEF Next

\* When the file system is about to be mounted every object that can be read
\* has a checksum, whatever was killed before.
THEOREM ChecksumsAreFixed == Spec => []ChecksumsFixed
  <1>1. Init => ServiceInv /\ FixInv
    <2> SUFFICES ASSUME Init PROVE ServiceInv /\ FixInv
      OBVIOUS
    <2>1. sum \in [Databases -> [Inodes -> Sums]]
      BY DEF Init, Sums
    <2> QED  BY <2>1, DataAssumption DEF Init, ServiceInv, FixInv, Chosen, NoIni, Serving
  <1>2. DatabaseInv /\ ServiceInv /\ [Next]_vars => ServiceInv'
    BY ServiceStep
  <1>3. ServiceInv /\ FixInv /\ [Next]_vars => FixInv'
    BY FixStep
  <1>4. FixInv => ChecksumsFixed
    BY DEF FixInv, ChecksumsFixed
  <1> QED  BY <1>1, <1>2, <1>3, <1>4, DatabaseHolds, PTL DEF Spec

-----------------------------------------------------------------------------
(* The plugins                                                             *)

Loads == Installed \ BrokenPlugins
Listed(s) == {s[n] : n \in DOMAIN s}

\* What the theorem asks of the environment.  No object is a directory: the
\* checksum of one may be anybody's.  readdir() returns every installed plugin.
\* The user leaves the filters of the loaded plugins as they are: they have been
\* asked for before repository.ini is read.
NoDirectories == \A o \in Inodes : Kind[o] # "dir"
AllFound ==
    \A e \in DOMAIN Environments : \A found \in Environments[e].found :
        found \in Seq(Installed) /\ Listed(found) = Installed
FiltersLeft ==
    \A e \in DOMAIN Environments : \A d \in Environments[e].edits : \A p \in Loads :
        Of[p].section # d.section

\* The filters of the loaded plugins are absent or the ones they fall back on.
Defaults(f) ==
    /\ DOMAIN f = IniSections
    /\ \A p \in Loads : Of[p].section \in IniSections =>
                            f[Of[p].section] \in {NoFilter, IniDefault(Of[p].section)}

\* The tags for one content or another, and what has been given for some of P.
TagsOf(c) == ExpectedTags(Loads, c, NoFilters)
Given(S) == UNION {TagsOf(c) : c \in S}
Earned(P, T) == \E S \in SUBSET P : T = Given(S)

PluginsInv ==
    /\ Defaults(ini.filters) /\ Defaults(kf)
    /\ phase \notin {"off", "prepare", "plugins"} =>
        /\ plugins \in Seq(Loads) /\ Listed(plugins) = Loads
        /\ \A p \in Loads : filters[p] = Of[p].default
    /\ thread # "none" => phase \in {"fix", "fork", "mounted"}

\* A checksum is that of the object's own data.
OwnSums == \A d \in Databases, o \in Inodes : sum[d][o] \in {Absent, NoSum, data[o]}

\* An object has a row in one database, and none before it is created.
OneRow ==
    /\ made \in Nat
    /\ \A d \in Databases, o \in Inodes : sum[d][o] # Absent => o <= made
    /\ \A d, e \in Databases, o \in Inodes :
            sum[d][o] # Absent /\ sum[e][o] # Absent => d = e

\* An object on which the kernel works has a row, one that is being written to has
\* no checksum, one that is being created is new.
RequestInv ==
    /\ phase = "fix" => todo \subseteq Rows(db)
    /\ Serving("close") => req.o \in Rows(db)
    /\ Serving("write") => sum[db][req.o] = NoSum
    /\ Serving("create") => req.o = made + 1

RowsInv == OwnSums /\ OneRow /\ RequestInv

TagsInv ==
    /\ tags = [d \in Databases |-> [o \in Inodes |-> tags[d][o]]]
    /\ \A d \in Databases, o \in Inodes : Earned(past[o], tags[d][o])

\* What the thread holds is, or was, in the object it works on.
HeldInv ==
    /\ past = [o \in Inodes |-> past[o]] /\ \A o \in Inodes : data[o] \in past[o]
    /\ queue \in Seq(Inodes) /\ (thread \in Busy => cur \in Inodes)
    /\ thread \in {"lock", "tag"} => held \in past[cur]
    /\ queue # <<>> => phase \in {"fix", "fork", "mounted"}

\* The tags for what the object holds now are still to come.
Coming(o) ==
    \/ o \in Listed(queue)
    \/ cur = o /\ (thread = "extract" \/ (thread \in {"lock", "tag"} /\ held = data[o]))

\* They have come, or will.
SettledInv == \A d \in Databases, o \in Inodes :
    sum[d][o] \notin {Absent, NoSum} /\ o \in files /\ o \notin dropped
        => TagsOf(data[o]) \subseteq tags[d][o] \/ (d = db /\ Coming(o))

\* A number at which a set of numbers begins.
LEMMA LeastOf ==
  ASSUME NEW S, S \subseteq Nat, S # {}
  PROVE  \E x \in S : \A y \in S : x <= y
  <1>1. PICK x \in S : \A y \in S : <<y, x>> \notin OpToRel(<, Nat)
    BY NatLessThanWellFounded, WFMin, Zenon
  <1>2. \A y \in S : ~ (y < x)
    BY <1>1, Zenon DEF OpToRel
  <1>3. \A y \in S : x <= y
    BY <1>2
  <1> QED  BY <1>3

Loading(g, found, loads, m) ==
    g = [n \in 0 .. m |->
            IF n = 0 THEN <<>>
            ELSE IF found[n] \in loads THEN <<found[n]>> \o g[n - 1] ELSE g[n - 1]]

LEMMA IsLoading ==
  ASSUME NEW found, NEW loads
  PROVE  LoadedList(found, loads) = (CHOOSE g : Loading(g, found, loads, Len(found)))[Len(found)]
  BY DEF LoadedList, Loading

LEMMA LoadingExists ==
  ASSUME NEW found, NEW loads, NEW m \in Nat
  PROVE  \E g : Loading(g, found, loads, m)
  <1> DEFINE Bad == {k \in Nat : ~ \E g : Loading(g, found, loads, k)}
  <1>1. ASSUME Bad # {} PROVE FALSE
    <2>1. PICK k \in Bad : \A y \in Bad : k <= y
      BY <1>1, LeastOf, Zenon
    <2>2. k \in Nat /\ ~ \E g : Loading(g, found, loads, k)
      BY <2>1, Zenon
    <2>3. CASE k = 0
      <3> DEFINE g == [n \in 0 .. 0 |-> <<>>]
      <3>1. Loading(g, found, loads, 0)
        BY DEF Loading
      <3> QED  BY <2>2, <2>3, <3>1, Zenon
    <2>4. CASE k # 0
      <3>1. k - 1 \in Nat /\ ~ (k <= k - 1)
        BY <2>2, <2>4
      <3>2. k - 1 \notin Bad
        BY <2>1, <3>1, Zenon
      <3>3. PICK h : Loading(h, found, loads, k - 1)
        BY <3>1, <3>2, Zenon
      <3> DEFINE last == IF found[k] \in loads THEN <<found[k]>> \o h[k - 1] ELSE h[k - 1]
                 g == [n \in 0 .. k |-> IF n = k THEN last ELSE h[n]]
                 step(n) == IF n = 0 THEN <<>>
                            ELSE IF found[n] \in loads THEN <<found[n]>> \o g[n - 1] ELSE g[n - 1]
      <3>4. ASSUME NEW n \in 0 .. k
            PROVE  g[n] = step(n)
        <4>1. CASE n = k
          <5>1. g[k] = last /\ g[k - 1] = h[k - 1]
            BY <2>2, <2>4
          <5> HIDE DEF g
          <5> QED  BY <2>4, <4>1, <5>1
        <4>2. CASE n # k
          <5>1. n \in 0 .. k - 1 /\ (n # 0 => n - 1 \in 0 .. k - 1 /\ n - 1 # k /\ n - 1 \in 0 .. k)
            BY <2>2, <4>2
          <5>2. g[n] = h[n] /\ (n # 0 => g[n - 1] = h[n - 1])
            BY <4>2, <5>1
          <5>3. h[n] = IF n = 0 THEN <<>>
                       ELSE IF found[n] \in loads THEN <<found[n]>> \o h[n - 1] ELSE h[n - 1]
            BY <3>3, <5>1 DEF Loading
          <5> HIDE DEF g
          <5> QED  BY <5>2, <5>3
        <4> QED  BY <4>1, <4>2
      <3>5. g = [n \in 0 .. k |-> step(n)]
        BY <3>4
      <3>6. Loading(g, found, loads, k)
        BY <3>5 DEF Loading
      <3> QED  BY <2>2, <3>6
    <2> QED  BY <2>3, <2>4
  <1> QED  BY <1>1, Zenon

LEMMA OneMoreListed ==
  ASSUME NEW S, NEW x \in S, NEW s \in Seq(S), NEW t, t = <<x>> \o s
  PROVE  t \in Seq(S) /\ Listed(t) = {x} \cup Listed(s)
  <1>1. <<x>> \in Seq(S) /\ Len(<<x>>) = 1 /\ <<x>>[1] = x
    OBVIOUS
  <1>2. /\ t \in Seq(S) /\ Len(t) = 1 + Len(s)
        /\ \A i \in 1 .. 1 + Len(s) : t[i] = IF i <= 1 THEN <<x>>[i] ELSE s[i - 1]
    BY <1>1, ConcatProperties
  <1>3. Len(s) \in Nat /\ DOMAIN s = 1 .. Len(s) /\ DOMAIN t = 1 .. 1 + Len(s)
    BY <1>2, LenProperties
  <1>4. /\ t[1] = x /\ 1 \in DOMAIN t /\ \A i \in DOMAIN s : i + 1 \in DOMAIN t /\ t[i + 1] = s[i]
    BY <1>1, <1>2, <1>3
  <1>5. \A i \in DOMAIN t : i = 1 \/ (i - 1 \in DOMAIN s /\ t[i] = s[i - 1])
    <2> SUFFICES ASSUME NEW i \in 1 .. 1 + Len(s), i # 1
                 PROVE  i - 1 \in 1 .. Len(s) /\ t[i] = s[i - 1]
      BY <1>3, Zenon
    <2>1. ~(i <= 1) /\ i - 1 \in 1 .. Len(s)
      BY <1>3
    <2> QED  BY <1>2, <2>1, Zenon
  <1>6. Listed(t) = {x} \cup Listed(s)
    <2>1. ASSUME NEW i \in DOMAIN t PROVE t[i] \in {x} \cup Listed(s)
      BY <1>4, <1>5, Zenon DEF Listed
    <2>2. ASSUME NEW i \in DOMAIN s PROVE s[i] \in Listed(t)
      <3>1. i + 1 \in DOMAIN t /\ t[i + 1] = s[i]
        BY <1>4, Zenon
      <3> QED  BY <3>1, Zenon DEF Listed
    <2>3. x \in Listed(t)
      BY <1>4, Zenon DEF Listed
    <2>4. Listed(t) \subseteq {x} \cup Listed(s)
      BY <2>1, Zenon DEF Listed
    <2>5. {x} \cup Listed(s) \subseteq Listed(t)
      BY <2>2, <2>3, Zenon DEF Listed
    <2> QED  BY <2>4, <2>5, Zenon
  <1> QED  BY <1>2, <1>6

LEMMA AllLoaded ==
  ASSUME NEW A, NEW found \in Seq(A), NEW loads
  PROVE  /\ LoadedList(found, loads) \in Seq(loads)
         /\ Listed(LoadedList(found, loads)) = Listed(found) \cap loads
  <1>1. Len(found) \in Nat /\ DOMAIN found = 1 .. Len(found)
    BY LenProperties
  <1>2. PICK g : Loading(g, found, loads, Len(found)) /\ LoadedList(found, loads) = g[Len(found)]
    <2>1. \E g : Loading(g, found, loads, Len(found))
      BY <1>1, LoadingExists, Zenon
    <2>2. Loading(CHOOSE g : Loading(g, found, loads, Len(found)), found, loads, Len(found))
      BY <2>1, Zenon
    <2> QED  BY <2>2, IsLoading, Zenon
  <1>3. \A n \in 0 .. Len(found) :
          g[n] = IF n = 0 THEN <<>>
                 ELSE IF found[n] \in loads THEN <<found[n]>> \o g[n - 1] ELSE g[n - 1]
    BY <1>2 DEF Loading
  <1> DEFINE First(n) == {found[k] : k \in 1 .. n}
             Good(n) == g[n] \in Seq(loads) /\ Listed(g[n]) = First(n) \cap loads
             Bad == {n \in 0 .. Len(found) : ~Good(n)}
  <1>4. ASSUME Bad # {} PROVE FALSE
    <2>1. Bad \subseteq Nat
      BY <1>1
    <2>2. PICK n \in Bad : \A y \in Bad : n <= y
      BY <1>4, <2>1, LeastOf, Zenon
    <2>3. n \in 0 .. Len(found) /\ ~Good(n)
      BY <2>2, Zenon
    <2>6. g[n] = IF n = 0 THEN <<>>
                 ELSE IF found[n] \in loads THEN <<found[n]>> \o g[n - 1] ELSE g[n - 1]
      BY <1>3, <2>3, Zenon
    <2>4. CASE n = 0
      <3>1. g[0] = <<>> /\ 1 .. 0 = {}
        <4>1. 1 .. 0 = {}
          OBVIOUS
        <4> QED  BY <2>4, <2>6, <4>1, Zenon
      <3>2. Listed(g[0]) = {} /\ First(0) = {}
        BY <3>1 DEF Listed
      <3>3. g[0] \in Seq(loads)
        BY <3>1, EmptySeq
      <3> QED  BY <2>3, <2>4, <3>2, <3>3, Zenon
    <2>5. CASE n # 0
      <3>1. n - 1 \in 0 .. Len(found) /\ ~(n <= n - 1) /\ 1 .. n = (1 .. n - 1) \cup {n}
        BY <1>1, <2>3, <2>5
      <3>2. Good(n - 1)
        BY <2>2, <3>1, Zenon
      <3>3. First(n) = First(n - 1) \cup {found[n]}
        BY <3>1, Zenon
      <3>4. CASE found[n] \in loads
        <4>1. g[n] = <<found[n]>> \o g[n - 1]
          BY <2>5, <2>6, <3>4, Zenon
        <4>2. g[n] \in Seq(loads) /\ Listed(g[n]) = {found[n]} \cup Listed(g[n - 1])
          <5>1. found[n] \in loads /\ g[n - 1] \in Seq(loads)
            BY <3>2, <3>4, Zenon
          <5>2. \A x \in loads : \A s \in Seq(loads) : \A t :
                  t = <<x>> \o s => t \in Seq(loads) /\ Listed(t) = {x} \cup Listed(s)
            BY OneMoreListed, Zenon
          <5> QED  BY <4>1, <5>1, <5>2, Zenon
        <4> HIDE DEF First
        <4> QED  BY <2>3, <3>2, <3>3, <3>4, <4>2, Zenon
      <3>5. CASE found[n] \notin loads
        <4>1. g[n] = g[n - 1]
          BY <2>5, <2>6, <3>5, Zenon
        <4> HIDE DEF First
        <4> QED  BY <2>3, <3>2, <3>3, <3>5, <4>1, Zenon
      <3> QED  BY <3>4, <3>5
    <2> QED  BY <2>4, <2>5
  <1>5. Len(found) \in 0 .. Len(found)
    BY <1>1
  <1>6. Good(Len(found))
    BY <1>4, <1>5, Zenon
  <1>7. First(Len(found)) = Listed(found)
    BY <1>1, Zenon DEF Listed
  <1> QED  BY <1>2, <1>6, <1>7, Zenon

\* The types the plugins declare are all different.
LEMMA ShippedPlugins ==
  Shipped = {"jpeg", "gif", "png", "photo", "html", "xml", "pdf", "mp3", "ogg", "generic"}
  BY DEF Shipped, Of

LEMMA MimesDiffer ==
  ASSUME NEW p \in Shipped, NEW q \in Shipped, Of[p].mime = Of[q].mime
  PROVE  p = q
  BY ShippedPlugins DEF Of, Plugin, AnyMime

\* A section that repository.ini is given is that of the type of its plugin.
LEMMA SectionsOfMimes ==
  ASSUME NEW p \in Shipped, Of[p].section \in IniSections
  PROVE  Of[p].section = Of[p].mime
  BY ShippedPlugins DEF Of, Plugin, AnyMime, IniSections

LEMMA LoadsShipped == Loads \subseteq Shipped
  BY PluginsAssumption DEF Loads

\* So the filter a plugin asks for is the one it falls back on.
LEMMA DefaultFilter ==
  ASSUME NEW f, Defaults(f), NEW p \in Loads
  PROVE  FilterOf(p, f) = Of[p].default
  <1>1. p \in Shipped
    BY LoadsShipped
  <1>2. CASE Of[p].section \in IniSections
    <2>1. Of[p].section = Of[p].mime
      BY <1>1, <1>2, SectionsOfMimes, Zenon
    <2>2. (CHOOSE q \in Shipped : Of[q].mime = Of[p].section) = p
      BY <1>1, <2>1, MimesDiffer, Zenon
    <2>3. IniDefault(Of[p].section) = Of[p].default
      BY <2>2, Zenon DEF IniDefault
    <2>4. f[Of[p].section] \in {NoFilter, Of[p].default}
      BY <1>2, <2>3, Zenon DEF Defaults
    <2> QED  BY <2>4, Zenon DEF FilterOf
  <1>3. CASE Of[p].section \notin IniSections
    BY <1>3, Zenon DEF FilterOf, Defaults
  <1> QED  BY <1>2, <1>3, Zenon

LEMMA NoFiltersDefault == Defaults(NoFilters)
  BY Zenon DEF Defaults, NoFilters

\* The walk in which a plugin has its turn first is its rank.
LEMMA RankWalks ==
  ASSUME NEW p, NEW mime
  PROVE  /\ Rank(p, mime) \in 1 .. 4
         /\ Rank(p, mime) < 4 => Rank(p, mime) \in 1 .. 3
                                 /\ Of[p].mime = Walks(mime)[Rank(p, mime)]
         /\ \A w \in 1 .. 3 : Of[p].mime = Walks(mime)[w] => Rank(p, mime) <= w
  <1> DEFINE m == Of[p].mime
             g == GenericMime(mime)
             any == AnyMime
  <1>1. Rank(p, mime) = IF m = mime THEN 1 ELSE IF m = g THEN 2 ELSE IF m = any THEN 3 ELSE 4
    BY Zenon DEF Rank
  <1>2. Walks(mime) = <<mime, g, any>>
    BY Zenon DEF Walks
  <1> HIDE DEF m, g, any
  <1>3. Walks(mime)[1] = mime /\ Walks(mime)[2] = g /\ Walks(mime)[3] = any
    BY <1>2
  <1>4. /\ Rank(p, mime) \in 1 .. 4
        /\ Rank(p, mime) < 4 => Rank(p, mime) \in 1 .. 3 /\ m = Walks(mime)[Rank(p, mime)]
    BY <1>1, <1>3
  <1>5. ASSUME NEW w \in 1 .. 3, m = Walks(mime)[w] PROVE Rank(p, mime) <= w
    BY <1>1, <1>3, <1>5
  <1> QED  BY <1>4, <1>5, Zenon DEF m

\* The chain of tagsistant_process(), in whatever order the plugins are listed, runs
\* the plugins in force.
LEMMA ChainIsInForce ==
  ASSUME NEW list \in Seq(Loads), Listed(list) = Loads, NEW mime
  PROVE  Chain(list, mime) = InForce(Loads, mime)
  <1>1. Len(list) \in Nat /\ DOMAIN list = 1 .. Len(list)
    BY LenProperties
  <1>2. DOMAIN list \subseteq Nat /\ \A n \in DOMAIN list : list[n] \in Loads
    <2>1. DOMAIN list \subseteq Nat
      BY <1>1
    <2> QED  BY <2>1, Zenon DEF Listed
  <1>3. ASSUME NEW n \in DOMAIN list, NEW w \in 1 .. 3, Runs(list, mime, w, n)
        PROVE  list[n] \in InForce(Loads, mime)
    <2>1. Of[list[n]].mime = Walks(mime)[w]
      BY <1>3, Zenon DEF Runs, Visits
    <2>2. Rank(list[n], mime) <= w /\ Rank(list[n], mime) \in 1 .. 4
      BY <2>1, RankWalks, Zenon
    <2>3. ASSUME NEW q \in Loads, Of[q].stop, Rank(q, mime) < 4
          PROVE  Rank(list[n], mime) <= Rank(q, mime)
      <3>1. PICK k \in DOMAIN list : list[k] = q
        BY Zenon DEF Listed
      <3>2. Rank(q, mime) \in 1 .. 3 /\ Of[q].mime = Walks(mime)[Rank(q, mime)]
        BY <2>3, RankWalks, Zenon
      <3>3. w < Rank(q, mime) \/ w = Rank(q, mime)
        BY <1>3, <2>3, <3>1, <3>2, Zenon DEF Runs, Visits
      <3> QED  BY <2>2, <3>2, <3>3
    <2>4. Rank(list[n], mime) < 4
      BY <2>2
    <2> QED  BY <1>2, <2>3, <2>4, Zenon DEF InForce
  <1>4. ASSUME NEW p \in InForce(Loads, mime)
        PROVE  \E n \in DOMAIN list : list[n] = p /\ \E w \in 1 .. 3 : Runs(list, mime, w, n)
    <2>1. p \in Loads /\ Rank(p, mime) < 4
      BY Zenon DEF InForce
    <2> DEFINE Places == {k \in DOMAIN list : list[k] = p}
               w == Rank(p, mime)
    <2>2. Places # {} /\ Places \subseteq Nat
      BY <1>2, <2>1, Zenon DEF Listed
    <2>3. PICK n \in Places : \A k \in Places : n <= k
      BY <2>2, LeastOf, Zenon
    <2>4. n \in DOMAIN list /\ list[n] = p
      BY <2>3, Zenon
    <2>5. w \in 1 .. 3 /\ Of[p].mime = Walks(mime)[w]
      BY <2>1, RankWalks, Zenon
    <2>6. ASSUME NEW v \in 1 .. 3, NEW k \in DOMAIN list, Visits(list, mime, v, k), Of[list[k]].stop
          PROVE  w < v \/ (w = v /\ n <= k)
      <3>1. list[k] \in Loads /\ Of[list[k]].mime = Walks(mime)[v]
        BY <1>2, <2>6, Zenon DEF Visits
      <3>2. Rank(list[k], mime) <= v /\ Rank(list[k], mime) \in 1 .. 4
        BY <3>1, RankWalks, Zenon
      <3>3. Rank(list[k], mime) < 4
        BY <3>2
      <3>4. w <= Rank(list[k], mime)
        BY <2>6, <3>1, <3>3, Zenon DEF InForce
      <3>5. w <= v
        BY <2>5, <3>2, <3>4
      <3>6. CASE w = v
        <4>1. list[k] = p
          BY <2>1, <2>5, <3>1, <3>6, LoadsShipped, MimesDiffer, Zenon
        <4> QED  BY <2>3, <3>6, <4>1, Zenon
      <3>7. CASE w # v
        <4> HIDE DEF w
        <4> QED  BY <2>5, <3>5, <3>7
      <3> QED  BY <3>6, <3>7
    <2>7. Runs(list, mime, w, n)
      BY <2>4, <2>5, <2>6, Zenon DEF Runs, Visits
    <2> QED  BY <2>4, <2>5, <2>7, Zenon
  <1> QED  BY <1>3, <1>4, Zenon DEF Chain

\* So what they give is what is expected.
LEMMA ExpectedWith ==
  ASSUME NEW f, Defaults(f), NEW file
  PROVE  ExpectedTags(Loads, file, f) = ExpectedTags(Loads, file, NoFilters)
  <1>1. \A p \in InForce(Loads, MimeType(file)) : FilterOf(p, f) = FilterOf(p, NoFilters)
    BY DefaultFilter, NoFiltersDefault, Zenon DEF InForce
  <1> DEFINE S == InForce(Loads, MimeType(file))
  <1> HIDE DEF S
  <1>2. {TagsBy(p, file, FilterOf(p, f)) : p \in S} = {TagsBy(p, file, FilterOf(p, NoFilters)) : p \in S}
    BY <1>1, Zenon DEF S
  <1> QED  BY <1>2, Zenon DEF ExpectedTags, S

LEMMA AutotagsGiven ==
  ASSUME NEW list \in Seq(Loads), Listed(list) = Loads, NEW fs,
         \A p \in Loads : fs[p] = Of[p].default, NEW file
  PROVE  Autotags(list, file, fs) = ExpectedTags(Loads, file, NoFilters)
  <1> DEFINE S == InForce(Loads, MimeType(file))
  <1>1. Chain(list, MimeType(file)) = S
    BY ChainIsInForce, Zenon
  <1>2. \A p \in S : fs[p] = FilterOf(p, NoFilters)
    BY DefaultFilter, NoFiltersDefault, Zenon DEF InForce
  <1> HIDE DEF S
  <1>3. {TagsBy(p, file, fs[p]) : p \in S} = {TagsBy(p, file, FilterOf(p, NoFilters)) : p \in S}
    BY <1>2, Zenon
  <1> QED  BY <1>1, <1>3, Zenon DEF Autotags, ExpectedTags, S

\* The filters in force are the defaults, in the file and in memory, from the first
\* start-up on.
LEMMA PluginsStep ==
  ASSUME AllFound, FiltersLeft, DatabaseInv, ServiceInv, PluginsInv, [Next]_vars
  PROVE  PluginsInv'
  <1>1. ASSUME UNCHANGED <<ini, kf, phase, plugins, filters>>, thread' # "none" => thread # "none"
        PROVE  PluginsInv'
    BY <1>1 DEF PluginsInv
  <1>2. CASE UNCHANGED vars
    BY <1>1, <1>2 DEF vars, repository, config, work
  <1>3. ASSUME Gone, ini' = ini PROVE PluginsInv'
    BY <1>3, NoFiltersDefault DEF Gone, PluginsInv
  <1>4. CASE MainStep
    <2>1. CASE Prepare
      BY <2>1 DEF Prepare, repository, config, work, PluginsInv
    <2>2. CASE PrepareFails \/ ConnectFails \/ MountFails
      BY <1>3, <2>2 DEF PrepareFails, ConnectFails, MountFails, Exit, repository
    <2>3. CASE LoadPlugins
      <3>1. PICK found \in Env.found : plugins' = LoadedList(found, Loads)
        BY <2>3, Zenon DEF LoadPlugins, Loads
      <3>2. found \in Seq(Installed) /\ Listed(found) = Installed
        BY Zenon DEF AllFound, Env, ServiceInv
      <3>3. plugins' \in Seq(Loads) /\ Listed(plugins') = Installed \cap Loads
        BY <3>1, <3>2, AllLoaded, Zenon
      <3>4. Listed(plugins') = Loads
        BY <3>3, Zenon DEF Loads
      <3>5. filters' = [p \in Loads |-> FilterOf(p, kf)]
        BY <2>3, Zenon DEF LoadPlugins, Loads
      <3>6. \A p \in Loads : filters'[p] = Of[p].default
        BY <3>5, DefaultFilter, Zenon DEF PluginsInv
      <3>7. phase = "plugins" /\ phase' = "ini" /\ UNCHANGED <<ini, kf, thread>>
        BY <2>3 DEF LoadPlugins, repository, work
      <3>8. thread' = "none"
        BY <3>7 DEF PluginsInv
      <3> QED  BY <3>3, <3>4, <3>6, <3>7, <3>8, Zenon DEF PluginsInv
    <2>4. CASE ParseIni
      <3>1. /\ phase = "ini" /\ phase' = "truncate" /\ UNCHANGED <<ini, plugins, filters, thread>>
            /\ kf' = [s \in IniSections |->
                        IF ini.filters[s] # NoFilter THEN ini.filters[s] ELSE IniDefault(s)]
        BY <2>4 DEF ParseIni, repository, work
      <3>2. Defaults(kf')
        <4>1. Defaults(ini.filters)
          BY Zenon DEF PluginsInv
        <4> QED  BY <3>1, <4>1, Zenon DEF Defaults
      <3> QED  BY <3>1, <3>2 DEF PluginsInv
    <2>5. CASE TruncateIni \/ SaveIni
      <3>1. /\ phase' \in {"save", "connect"} /\ phase \in {"truncate", "save"}
            /\ UNCHANGED <<kf, plugins, filters, thread>> /\ ini'.filters \in {NoFilters, kf}
        BY <2>5 DEF TruncateIni, SaveIni, NoIni, config, work
      <3>2. Defaults(ini'.filters)
        BY <3>1, NoFiltersDefault, Zenon DEF PluginsInv
      <3> QED  BY <3>1, <3>2 DEF PluginsInv
    <2>6. CASE TruncateFails \/ SaveFails \/ Connect
      <3>1. /\ phase' \in {"connect", "thread"} /\ phase \in {"truncate", "save", "connect"}
            /\ UNCHANGED <<ini, kf, plugins, filters, thread>>
        BY <2>6 DEF TruncateFails, SaveFails, Connect, repository, config, work
      <3> QED  BY <3>1 DEF PluginsInv
    <2>7. CASE StartThread \/ FixDone \/ Mount \/ \E o \in Inodes : FixRow(o)
      <3>1. /\ phase' \in {"fix", "fork", "mounted"} /\ phase \in {"thread", "fix", "fork"}
            /\ UNCHANGED <<ini, kf, plugins, filters>>
        BY <2>7 DEF StartThread, FixDone, Mount, FixRow, repository, config
      <3> QED  BY <3>1 DEF PluginsInv
    <2> QED  BY <1>4, <2>1, <2>2, <2>3, <2>4, <2>5, <2>6, <2>7 DEF MainStep
  <1>5. CASE ThreadStep
    <2>1. UNCHANGED <<ini, kf, phase, plugins, filters>> /\ thread # "none"
      BY <1>5 DEF ThreadStep, Pop, Extract, LockForTags, Tag, repository, config
    <2> QED  BY <1>1, <2>1
  <1>6. CASE Serve
    <2>1. UNCHANGED <<ini, kf, phase, plugins, filters, thread>>
      BY <1>6 DEF Serve, Create, Open, Write, Close, UnlinkFile, UnlinkCommit, config, work
    <2> QED  BY <1>1, <2>1
  <1>7. CASE UserStep
    <2>1. ASSUME NEW d \in Env.dbs, NEW f \in Env.fg, Launch(d, f) PROVE PluginsInv'
      BY <2>1 DEF Launch, repository, work, PluginsInv
    <2>2. ASSUME NEW e \in Env.edits, EditIni(e.section, e.filter) PROVE PluginsInv'
      <3>1. /\ ini' = [ini EXCEPT !.filters[e.section] = e.filter]
            /\ UNCHANGED <<kf, phase, plugins, filters, thread>>
        BY <2>2 DEF EditIni, config, work
      <3>2. ini'.filters = [ini.filters EXCEPT ![e.section] = e.filter]
        BY <3>1 DEF DatabaseInv
      <3>3. \A p \in Loads : Of[p].section # e.section
        BY Zenon DEF FiltersLeft, Env, ServiceInv
      <3>4. Defaults(ini.filters)
        BY Zenon DEF PluginsInv
      <3> DEFINE old == ini.filters
                 new == ini'.filters
      <3>5. DOMAIN new = DOMAIN old /\ \A s \in DOMAIN old : s # e.section => new[s] = old[s]
        BY <3>2
      <3> HIDE DEF old, new
      <3>6. Defaults(new)
        BY <3>3, <3>4, <3>5, Zenon DEF Defaults, old
      <3> QED  BY <3>1, <3>6 DEF PluginsInv, new
    <2>3. ASSUME AskCreate \/ (\E o \in Inodes : AskOpen(o) \/ AskWrite(o) \/ AskClose(o) \/ AskUnlink(o))
          PROVE  PluginsInv'
      <3>1. UNCHANGED <<ini, kf, phase, plugins, filters, thread>>
        BY <2>3 DEF AskCreate, AskOpen, AskWrite, AskClose, AskUnlink, NewRequest, repository, config, work
      <3> QED  BY <1>1, <3>1
    <2>4. ASSUME Unmount \/ Kill PROVE PluginsInv'
      BY <1>3, <2>4 DEF Unmount, Kill, Exit, repository
    <2> QED  BY <1>7, <2>1, <2>2, <2>3, <2>4 DEF UserStep
  <1> QED  BY <1>2, <1>4, <1>5, <1>6, <1>7 DEF Next

\* The tags of an object, as a step may change them.
LEMMA TagsFunction ==
  ASSUME TagsInv, NEW d \in Databases
  PROVE  /\ DOMAIN tags = Databases /\ DOMAIN tags[d] = Inodes
         /\ tags = [e \in Databases |-> tags[e]] /\ tags[d] = [o \in Inodes |-> tags[d][o]]
  <1>1. tags = [e \in Databases |-> [o \in Inodes |-> tags[e][o]]]
    BY Zenon DEF TagsInv
  <1>2. DOMAIN tags = Databases /\ tags[d] = [o \in Inodes |-> tags[d][o]]
    BY <1>1
  <1>3. DOMAIN tags[d] = Inodes
    BY <1>2
  <1>4. tags = [e \in Databases |-> tags[e]]
    BY <1>1
  <1> QED  BY <1>2, <1>3, <1>4, Zenon

\* What is given joins up.
LEMMA EarnedNone ==
  ASSUME NEW P
  PROVE  Earned(P, {})
  <1>1. Given({}) = {}
    BY DEF Given
  <1> QED  BY <1>1 DEF Earned

LEMMA EarnedOne ==
  ASSUME NEW P, NEW c \in P
  PROVE  Earned(P, TagsOf(c))
  <1>1. Given({c}) = TagsOf(c)
    BY Zenon DEF Given
  <1> QED  BY <1>1, Zenon DEF Earned

LEMMA EarnedMore ==
  ASSUME NEW P, NEW Q, P \subseteq Q, NEW T, Earned(P, T)
  PROVE  Earned(Q, T)
  BY DEF Earned

LEMMA EarnedBoth ==
  ASSUME NEW P, NEW T, NEW U, Earned(P, T), Earned(P, U)
  PROVE  Earned(P, T \cup U)
  <1>1. PICK A \in SUBSET P : T = Given(A)
    BY DEF Earned
  <1>2. PICK B \in SUBSET P : U = Given(B)
    BY DEF Earned
  <1>3. Given(A \cup B) = Given(A) \cup Given(B)
    BY Zenon DEF Given
  <1>4. A \cup B \in SUBSET P
    BY <1>1, <1>2
  <1> QED  BY <1>1, <1>2, <1>3, <1>4, Zenon DEF Earned

\* The tags of the objects of one database are replaced.
WithTags(d, new) == [tags EXCEPT ![d] = new]

LEMMA TagsReplaced ==
  ASSUME TagsInv, NEW d \in Databases, NEW new, new = [o \in Inodes |-> new[o]],
         \A o \in Inodes : Earned(past'[o], new[o]), \A o \in Inodes : past[o] \subseteq past'[o],
         tags' = WithTags(d, new)
  PROVE  /\ TagsInv'
         /\ \A o \in Inodes : tags'[d][o] = new[o]
         /\ \A e \in Databases : e # d => tags'[e] = tags[e]
  <1>1. /\ DOMAIN tags = Databases /\ tags = [e \in Databases |-> tags[e]]
    BY TagsFunction, Zenon
  <1>2. /\ DOMAIN tags' = Databases /\ tags' = [e \in Databases |-> tags'[e]]
        /\ tags'[d] = new /\ \A e \in Databases : e # d => tags'[e] = tags[e]
    BY <1>1 DEF WithTags
  <1>3. \A e \in Databases : tags'[e] = [o \in Inodes |-> tags'[e][o]]
    <2> SUFFICES ASSUME NEW e \in Databases PROVE tags'[e] = [o \in Inodes |-> tags'[e][o]]
      BY Zenon
    <2>1. CASE e = d
      BY <1>2, <2>1, Zenon
    <2>2. CASE e # d
      <3>1. tags[e] = [o \in Inodes |-> tags[e][o]]
        BY TagsFunction, Zenon
      <3> QED  BY <1>2, <2>2, <3>1, Zenon
    <2> QED  BY <2>1, <2>2
  <1>4. tags' = [e \in Databases |-> [o \in Inodes |-> tags'[e][o]]]
    BY <1>2, <1>3, Zenon
  <1>5. ASSUME NEW e \in Databases, NEW o \in Inodes PROVE Earned(past'[o], tags'[e][o])
    <2>1. CASE e = d
      BY <1>2, <2>1, Zenon
    <2>2. CASE e # d
      <3>1. Earned(past[o], tags[e][o]) /\ past[o] \subseteq past'[o]
        BY Zenon DEF TagsInv
      <3>2. Earned(past'[o], tags[e][o])
        BY <3>1, EarnedMore, Zenon
      <3> QED  BY <1>2, <2>2, <3>2, Zenon
    <2> QED  BY <2>1, <2>2
  <1>6. TagsInv'
    BY <1>4, <1>5, Zenon DEF TagsInv
  <1> QED  BY <1>2, <1>6, Zenon

\* Objects that hold more keep their tags.
LEMMA TagsKept ==
  ASSUME TagsInv, tags' = tags, \A o \in Inodes : past[o] \subseteq past'[o]
  PROVE  TagsInv'
  <1> SUFFICES ASSUME NEW d \in Databases, NEW o \in Inodes PROVE Earned(past'[o], tags[d][o])
    BY Zenon DEF TagsInv
  <1>1. Earned(past[o], tags[d][o]) /\ past[o] \subseteq past'[o]
    BY Zenon DEF TagsInv
  <1> QED  BY <1>1, EarnedMore, Zenon

\* One checksum is changed.
WithSum(o, v) == [sum EXCEPT ![db] = [sum[db] EXCEPT ![o] = v]]
OnlySum(o, v) ==
    \A e \in Databases, p \in Inodes : sum'[e][p] = IF e = db /\ p = o THEN v ELSE sum[e][p]

LEMMA SumReplaced ==
  ASSUME ServiceInv, db \in Databases, NEW o, NEW v, sum' = WithSum(o, v)
  PROVE  OnlySum(o, v)
  <1>1. sum \in [Databases -> [Inodes -> Sums]]
    BY Zenon DEF ServiceInv
  <1> QED  BY <1>1 DEF WithSum, OnlySum

\* o is merged into main, and new are the tags then.
Merges(o, main, new) ==
    /\ sum' = WithSum(o, Absent)
    /\ files' \subseteq files
    /\ past' = [past EXCEPT ![main] = @ \cup past[o]]
    /\ tags' = WithTags(db, new) /\ new = [p \in Inodes |-> new[p]]
    /\ new[o] = {} /\ new[main] \in {tags[db][main], tags[db][main] \cup tags[db][o]}
    /\ \A p \in Inodes : p # o /\ p # main => new[p] = tags[db][p]
    /\ UNCHANGED <<queue, dropped>>

\* The kernel does nothing, gives an object its checksum and queues it, or merges
\* it into one that holds the same.
LEMMA KernelDoes ==
  ASSUME NoDirectories, ServiceInv, OwnSums, TagsInv, HeldInv, db \in Databases, NEW o \in Inodes,
         o \in Rows(db), Kernel(o)
  PROVE  \/ UNCHANGED <<sum, tags, files, queue, past, dropped>>
         \/ /\ sum' = WithSum(o, data[o])
            /\ queue' = Append(queue, o) /\ dropped' = dropped \ {o}
            /\ UNCHANGED <<tags, files, past>>
         \/ \E main \in Inodes \ {o} : \E new : Merges(o, main, new)
  <1>1. CASE ~CanBeOpened(o)
    BY <1>1, Zenon DEF Kernel
  <1>2. CASE CanBeOpened(o)
    <2> DEFINE h == data[o]
               table == [sum[db] EXCEPT ![o] = h]
               S == {p \in Rows(db) : table[p] = h}
               main == Min(S)
               moved == IF tags[db][main] \cap tags[db][o] = {} THEN tags[db][o] ELSE {}
               new == [tags[db] EXCEPT ![main] = @ \cup moved, ![o] = {}]
    <2>1. Deduplicate(o, h)
      <3>1. PICK x \in Checksums(o) : Deduplicate(o, x)
        BY <1>2, Zenon DEF Kernel
      <3>2. x = h
        BY <3>1, Zenon DEF Checksums, NoDirectories
      <3> QED  BY <3>1, <3>2, Zenon
    <2>2. sum[db] \in [Inodes -> Sums] /\ sum \in [Databases -> [Inodes -> Sums]]
      BY DEF ServiceInv
    <2>3. table[o] = h /\ (\A p \in Inodes : p # o => table[p] = sum[db][p]) /\ DOMAIN table = Inodes
      BY <2>2
    <2>4. h # NoSum
      <3>1. h \in Contents
        BY DEF ServiceInv
      <3> QED  BY <3>1, SumsAssumption
    <2>5. CASE main = o
      BY <2>1, <2>5, Zenon DEF Deduplicate, WithSum
    <2>6. CASE main # o
      <3>1. /\ sum' = [sum EXCEPT ![db] = [table EXCEPT ![o] = Absent]]
            /\ tags' = [tags EXCEPT ![db] = new]
            /\ files' \in {files, files \ {o}}
            /\ past' = [past EXCEPT ![main] = @ \cup {c \in past[o] : data[main] = data[o]}]
            /\ UNCHANGED <<queue, dropped>>
        BY <2>1, <2>6, Zenon DEF Deduplicate
      <3>2. main \in S
        <4>1. o \in S
          BY <2>3, Zenon
        <4>2. S \subseteq Nat
          BY DataAssumption DEF Rows, Inodes
        <4> HIDE DEF S
        <4>3. PICK x \in S : \A y \in S : x <= y
          BY <4>1, <4>2, LeastOf, Zenon
        <4> QED  BY <4>3, Zenon DEF Min
      <3>3. main \in Inodes /\ sum[db][main] # Absent /\ sum[db][main] = h
        BY <2>3, <2>6, <3>2, Zenon DEF Rows
      <3>4. sum[db][main] \in {Absent, NoSum, data[main]}
        BY <3>3, Zenon DEF OwnSums
      <3>5. data[main] = data[o]
        BY <2>4, <3>3, <3>4, Zenon
      <3>6. tags[db] = [p \in Inodes |-> tags[db][p]]
        BY TagsFunction, Zenon
      <3> HIDE DEF main
      <3>7. past' = [past EXCEPT ![main] = @ \cup past[o]]
        <4>1. {c \in past[o] : data[main] = data[o]} = past[o]
          BY <3>5, Zenon
        <4> QED  BY <3>1, <4>1, Zenon
      <3>8. sum' = WithSum(o, Absent)
        <4>1. [table EXCEPT ![o] = Absent] = [sum[db] EXCEPT ![o] = Absent]
          BY <2>2
        <4> QED  BY <3>1, <4>1, Zenon DEF WithSum
      <3>9. /\ new = [p \in Inodes |-> new[p]]
            /\ new[o] = {} /\ new[main] = tags[db][main] \cup moved
            /\ \A p \in Inodes : p # o /\ p # main => new[p] = tags[db][p]
        <4> DEFINE old == tags[db]
                   mid == [old EXCEPT ![main] = @ \cup moved]
        <4>1. old = [p \in Inodes |-> old[p]] /\ main \in Inodes /\ main # o
          BY <2>6, <3>3, <3>6, Zenon
        <4>2. new = [mid EXCEPT ![o] = {}]
          OBVIOUS
        <4> HIDE DEF old, new, moved
        <4>3. /\ mid = [p \in Inodes |-> mid[p]] /\ mid[main] = old[main] \cup moved
              /\ \A p \in Inodes : p # main => mid[p] = old[p]
          BY <4>1
        <4> HIDE DEF mid
        <4>4. /\ new = [p \in Inodes |-> new[p]] /\ new[o] = {}
              /\ \A p \in Inodes : p # o => new[p] = mid[p]
          BY <4>2, <4>3
        <4> QED  BY <4>1, <4>3, <4>4, Zenon DEF old
      <3>10. moved \in {{}, tags[db][o]}
        BY Zenon
      <3>11. tags' = WithTags(db, new)
        BY <3>1, Zenon DEF WithTags
      <3> HIDE DEF new, moved
      <3>12. new[main] \in {tags[db][main], tags[db][main] \cup tags[db][o]}
        BY <3>9, <3>10
      <3>13. main \in Inodes \ {o} /\ files' \subseteq files
        BY <2>6, <3>1, <3>3
      <3>14. Merges(o, main, new)
        BY <3>1, <3>7, <3>8, <3>9, <3>11, <3>12, <3>13, Zenon DEF Merges
      <3> QED  BY <3>13, <3>14, Zenon
    <2> QED  BY <2>5, <2>6
  <1> QED  BY <1>1, <1>2

\* Checksums come and go, in the database in hand, on objects that have rows there
\* or are new.
LEMMA RowsChanged ==
  ASSUME OwnSums, OneRow, made' \in Nat, made <= made',
         \A d \in Databases, o \in Inodes :
            \/ sum'[d][o] = Absent
            \/ /\ d = db /\ sum'[d][o] \in {NoSum, data'[o]}
               /\ sum[d][o] # Absent \/ (o = made + 1 /\ made' = made + 1)
            \/ sum'[d][o] = sum[d][o] /\ data'[o] = data[o]
  PROVE  OwnSums' /\ OneRow'
  <1>1. OwnSums'
    BY DEF OwnSums
  <1>2. ASSUME NEW d \in Databases, NEW o \in Inodes, sum'[d][o] # Absent PROVE o <= made'
    <2>1. sum[d][o] # Absent => o <= made
      BY DEF OneRow
    <2>2. o \in Int /\ made \in Nat
      BY DataAssumption DEF Inodes, OneRow
    <2> QED  BY <1>2, <2>1, <2>2
  <1>3. ASSUME NEW d \in Databases, NEW e \in Databases, NEW o \in Inodes,
               sum'[d][o] # Absent, sum'[e][o] # Absent, e # db
        PROVE  d = e
    <2>1. sum[e][o] # Absent
      BY <1>3
    <2>2. o <= made /\ made \in Nat
      BY <2>1 DEF OneRow
    <2>3. o # made + 1
      BY <2>2
    <2>4. sum[d][o] # Absent
      BY <1>3, <2>3
    <2> QED  BY <2>1, <2>4 DEF OneRow
  <1>4. ASSUME NEW d \in Databases, NEW e \in Databases, NEW o \in Inodes,
               sum'[d][o] # Absent, sum'[e][o] # Absent
        PROVE  d = e
    <2>1. CASE e # db
      BY <1>3, <1>4, <2>1
    <2>2. CASE e = db /\ d # db
      BY <1>3, <1>4, <2>2
    <2> QED  BY <2>1, <2>2
  <1>5. OneRow'
    BY <1>2, <1>4 DEF OneRow
  <1> QED  BY <1>1, <1>5

LEMMA KernelRows ==
  ASSUME NoDirectories, ServiceInv, OwnSums, OneRow, TagsInv, HeldInv, db \in Databases,
         NEW o \in Inodes, o \in Rows(db), Kernel(o), data' = data, made' = made
  PROVE  OwnSums' /\ OneRow'
  <1>1. CASE sum' = sum
    BY <1>1 DEF OwnSums, OneRow
  <1>2. ASSUME NEW v \in {data[o], Absent}, sum' = WithSum(o, v)
        PROVE  OwnSums' /\ OneRow'
    <2>1. OnlySum(o, v)
      BY <1>2, SumReplaced, Zenon
    <2>2. sum[db][o] # Absent
      BY DEF Rows
    <2>3. made' \in Nat /\ made <= made'
      BY DEF OneRow
    <2> QED  BY <1>2, <2>1, <2>2, <2>3, RowsChanged DEF OnlySum
  <1> QED  BY <1>1, <1>2, KernelDoes, Zenon DEF Merges

\* A request that writes one checksum, or a file.
LEMMA ServedRows ==
  ASSUME ServiceInv, RowsInv, db \in Databases, Create \/ Open \/ Write \/ UnlinkCommit
  PROVE  OwnSums' /\ OneRow'
  <1> USE DEF RowsInv
  <1>0. made \in Nat
    BY DEF OneRow
  <1>1. CASE Write
    <2>1. /\ Serving("write") /\ sum' = sum /\ made' = made
          /\ \E c : data' = [data EXCEPT ![req.o] = c]
      BY <1>1 DEF Write
    <2>2. req.o \in Inodes /\ sum[db][req.o] = NoSum
      BY <2>1 DEF ServiceInv, RequestInv
    <2>3. \A p \in Inodes : p # req.o => data'[p] = data[p]
      BY <2>1 DEF ServiceInv
    <2>4. \A d \in Databases : d # db => sum[d][req.o] = Absent
      BY <2>2, SumsAssumption DEF OneRow
    <2> QED  BY <1>0, <2>1, <2>2, <2>3, <2>4, RowsChanged, SumsAssumption
  <1>2. CASE Create
    <2>1. /\ Serving("create") /\ made' = made + 1 /\ data' = data
          /\ sum' = WithSum(req.o, NoSum)
      BY <1>2 DEF Create, contents, WithSum
    <2>2. req.o = made + 1
      BY <2>1 DEF RequestInv
    <2>3. OnlySum(made + 1, NoSum)
      BY <2>1, <2>2, SumReplaced, Zenon
    <2>4. made' \in Nat /\ made <= made'
      BY <1>0, <2>1
    <2> QED  BY <2>1, <2>3, <2>4, RowsChanged DEF OnlySum
  <1>3. CASE Open \/ UnlinkCommit
    <2>1. PICK v : /\ sum' = [sum EXCEPT ![db][req.o] = v] /\ v \in {Absent, NoSum}
                   /\ sum[db][req.o] = Absent => v = Absent
      BY <1>3 DEF Open, UnlinkCommit
    <2>2. sum' = WithSum(req.o, v)
      BY <2>1 DEF WithSum
    <2>4. OnlySum(req.o, v)
      BY <2>2, SumReplaced, Zenon
    <2>5. made' = made /\ data' = data
      BY <1>3 DEF Open, UnlinkCommit, contents
    <2> QED  BY <1>0, <2>1, <2>4, <2>5, RowsChanged DEF OnlySum
  <1> QED  BY <1>1, <1>2, <1>3

\* The objects without a checksum, the one that is being closed or written to and
\* the one that is being created stay as they are until their turn comes.
LEMMA RowsStep ==
  ASSUME NoDirectories, ServiceInv, RowsInv, TagsInv, HeldInv, [Next]_vars
  PROVE  RowsInv'
  <1>1. ASSUME UNCHANGED <<sum, db, made, data, phase, todo, req>> PROVE RowsInv'
    BY <1>1 DEF RowsInv, RequestInv, OneRow, OwnSums, Rows, Serving
  <1>2. ASSUME UNCHANGED <<sum, made, data>>, phase' # "fix", req' = None PROVE RowsInv'
    BY <1>2 DEF RowsInv, RequestInv, OneRow, OwnSums, Serving
  <1>3. CASE UNCHANGED vars
    BY <1>1, <1>3 DEF vars, repository, contents, config, work
  <1>4. CASE MainStep
    <2>1. phase # "mounted" /\ req = None
      <3>1. phase # "mounted"
        BY <1>4 DEF MainStep, Prepare, PrepareFails, LoadPlugins, ParseIni, TruncateIni, TruncateFails, SaveIni,
                    SaveFails, Connect, ConnectFails, StartThread, FixRow, FixDone, Mount, MountFails, Exit
      <3> QED  BY <3>1 DEF ServiceInv
    <2>2. CASE StartThread
      <3>1. phase' = "fix" /\ todo' \subseteq Rows(db) /\ UNCHANGED <<sum, db, made, data, req>>
        BY <2>2 DEF StartThread, repository, contents, config
      <3> QED  BY <2>1, <3>1 DEF RowsInv, RequestInv, OneRow, OwnSums, Rows, Serving
    <2>3. ASSUME NEW o \in Inodes, FixRow(o) PROVE RowsInv'
      <3>1. /\ phase = "fix" /\ o \in todo /\ Kernel(o) /\ todo' = todo \ {o}
            /\ UNCHANGED <<phase, db, made, data, req>>
        BY <2>3 DEF FixRow, config
      <3>2. db \in Databases /\ todo \subseteq Rows(db) /\ OwnSums /\ OneRow
        BY <3>1 DEF ServiceInv, Chosen, RowsInv, RequestInv
      <3>3. \A p \in Inodes : p # o => sum'[db][p] = sum[db][p]
        BY <3>1, <3>2, KernelSums, Zenon
      <3>4. OwnSums' /\ OneRow'
        BY <3>1, <3>2, KernelRows, Zenon
      <3>5. todo' \subseteq Rows(db)'
        BY <3>1, <3>2, <3>3 DEF Rows
      <3> QED  BY <2>1, <3>1, <3>4, <3>5, Zenon DEF RowsInv, RequestInv, Serving
    <2>4. CASE Prepare \/ PrepareFails \/ LoadPlugins \/ ParseIni \/ TruncateIni \/ TruncateFails \/ SaveIni
               \/ SaveFails \/ Connect \/ ConnectFails \/ FixDone \/ Mount \/ MountFails
      <3>1. UNCHANGED <<sum, made, data>> /\ phase' # "fix" /\ req' \in {req, None}
        BY <2>4 DEF Prepare, PrepareFails, LoadPlugins, ParseIni, TruncateIni, TruncateFails, SaveIni,
                    SaveFails, Connect, ConnectFails, FixDone, Mount, MountFails, Exit, Gone, repository, contents
      <3> QED  BY <1>2, <2>1, <3>1
    <2> QED  BY <1>4, <2>2, <2>3, <2>4 DEF MainStep
  <1>5. CASE ThreadStep
    <2>1. UNCHANGED <<sum, db, made, data, phase, todo, req>>
      BY <1>5 DEF ThreadStep, Pop, Extract, LockForTags, Tag, repository, contents, config
    <2> QED  BY <1>1, <2>1
  <1>6. CASE Serve
    <2>1. phase = "mounted" /\ db \in Databases /\ phase' = phase
      BY <1>6 DEF Serve, Create, Open, Write, Close, UnlinkFile, UnlinkCommit, Serving, ServiceInv, Chosen
    <2>2. CASE UnlinkFile
      <3>1. UNCHANGED <<sum, db, made, data, phase, todo, req>>
        BY <2>2 DEF UnlinkFile, contents, config, work
      <3> QED  BY <1>1, <3>1
    <2>3. OwnSums /\ OneRow
      BY DEF RowsInv
    <2>4. ASSUME OwnSums', OneRow', req' = None PROVE RowsInv'
      BY <2>1, <2>4 DEF RowsInv, RequestInv, Serving
    <2>5. CASE Create \/ Open \/ Write \/ UnlinkCommit
      <3>1. req' = None
        BY <2>5 DEF Create, Open, Write, UnlinkCommit
      <3> QED  BY <2>1, <2>4, <2>5, <3>1, ServedRows, Zenon
    <2>6. CASE Close
      <3>1. req' = None /\ Kernel(req.o) /\ Serving("close") /\ UNCHANGED <<made, data>>
        BY <2>6 DEF Close
      <3>2. req.o \in Inodes /\ req.o \in Rows(db)
        BY <3>1 DEF ServiceInv, RowsInv, RequestInv
      <3>3. OwnSums' /\ OneRow'
        BY <2>1, <2>3, <3>1, <3>2, KernelRows, Zenon
      <3> QED  BY <2>4, <3>1, <3>3
    <2> QED  BY <1>6, <2>2, <2>5, <2>6 DEF Serve
  <1>7. CASE UserStep
    <2>1. ASSUME NEW d \in Env.dbs, NEW f \in Env.fg, Launch(d, f) PROVE RowsInv'
      BY <1>2, <2>1 DEF Launch, repository, contents, ServiceInv
    <2>2. ASSUME NEW e \in Env.edits, EditIni(e.section, e.filter) PROVE RowsInv'
      BY <1>1, <2>2 DEF EditIni, contents, config, work
    <2>3. ASSUME AskCreate \/ (\E o \in Inodes : AskOpen(o) \/ AskWrite(o) \/ AskClose(o) \/ AskUnlink(o))
          PROVE  RowsInv'
      <3>1. UNCHANGED <<sum, db, made, data, phase>> /\ phase = "mounted"
        BY <2>3 DEF AskCreate, AskOpen, AskWrite, AskClose, AskUnlink, NewRequest, repository, contents, config
      <3>2. /\ req'.op = "close" => req'.o \in Rows(db)
            /\ req'.op = "write" => sum[db][req'.o] = NoSum
            /\ req'.op = "create" => req'.o = made + 1
        BY <2>3 DEF AskCreate, AskOpen, AskWrite, AskClose, AskUnlink, NewRequest
      <3>3. OwnSums' /\ OneRow'
        BY <3>1 DEF RowsInv, OwnSums, OneRow
      <3>4. RequestInv'
        BY <3>1, <3>2 DEF RequestInv, Rows, Serving
      <3> QED  BY <3>3, <3>4 DEF RowsInv
    <2>4. ASSUME Unmount \/ Kill PROVE RowsInv'
      BY <1>2, <2>4 DEF Unmount, Kill, Exit, Gone, repository, contents
    <2> QED  BY <1>7, <2>1, <2>2, <2>3, <2>4 DEF UserStep
  <1> QED  BY <1>3, <1>4, <1>5, <1>6, <1>7 DEF Next

\* The tags of the objects, those in the hands of the thread and those to come.
AutoInv == TagsInv /\ HeldInv /\ SettledInv

\* A step that leaves the objects, the queue and the thread alone.
LEMMA QuietAuto ==
  ASSUME AutoInv, UNCHANGED <<sum, tags, files, data, past, queue, thread, cur, held, dropped, db>>,
         queue # <<>> => phase' \in {"fix", "fork", "mounted"}
  PROVE  AutoInv'
  <1>1. TagsInv'
    BY Zenon DEF AutoInv, TagsInv
  <1>2. HeldInv'
    BY DEF AutoInv, HeldInv, Busy
  <1>3. SettledInv'
    BY DEF AutoInv, SettledInv, Coming
  <1> QED  BY <1>1, <1>2, <1>3 DEF AutoInv

\* The process is gone: what was still to come is lost.
LEMMA GoneAuto ==
  ASSUME AutoInv, Gone, UNCHANGED repository
  PROVE  AutoInv'
  <1>1. UNCHANGED <<sum, tags, files, data, past>>
    BY DEF repository, contents
  <1>2. TagsInv'
    BY <1>1, Zenon DEF AutoInv, TagsInv
  <1>3. queue' = <<>> /\ thread' = "none" /\ dropped' = dropped \cup {o \in Inodes : Awaited(o)}
    BY DEF Gone
  <1>4. HeldInv'
    BY <1>1, <1>3, EmptySeq DEF AutoInv, HeldInv, Busy
  <1>5. SettledInv'
    <2> SUFFICES ASSUME NEW d \in Databases, NEW o \in Inodes, sum[d][o] \notin {Absent, NoSum},
                        o \in files, o \notin dropped, ~Awaited(o)
                 PROVE  TagsOf(data[o]) \subseteq tags[d][o]
      BY <1>1, <1>3 DEF SettledInv
    <2>1. ~Coming(o)
      BY DEF Coming, Awaited, Busy, Listed
    <2> QED  BY <2>1 DEF AutoInv, SettledInv
  <1> QED  BY <1>2, <1>4, <1>5 DEF AutoInv

\* The database is chosen: nothing is to come.
LEMMA ParseIniAuto ==
  ASSUME PluginsInv, AutoInv, ParseIni
  PROVE  AutoInv'
  <1>1. UNCHANGED <<sum, tags, files, data, past, queue, thread, cur, held, dropped>>
    BY DEF ParseIni, repository, contents, work, hand
  <1>2. queue = <<>> /\ thread = "none"
    BY DEF ParseIni, PluginsInv, AutoInv, HeldInv
  <1>3. TagsInv'
    BY <1>1, Zenon DEF AutoInv, TagsInv
  <1>4. HeldInv'
    BY <1>1, <1>2 DEF AutoInv, HeldInv, Busy
  <1>5. \A o : ~Coming(o)
    BY <1>2 DEF Coming, Listed
  <1>6. SettledInv'
    BY <1>1, <1>5 DEF AutoInv, SettledInv
  <1> QED  BY <1>3, <1>4, <1>6 DEF AutoInv

\* The thread starts idle, and is lost in the fork with what it had in hand.
LEMMA StartAuto ==
  ASSUME PluginsInv, AutoInv, StartThread \/ Mount
  PROVE  AutoInv'
  <1>1. /\ UNCHANGED <<sum, tags, files, data, past, queue, cur, held, db>>
        /\ phase' \in {"fix", "mounted"}
    BY DEF StartThread, Mount, repository, contents, config, hand
  <1>2. TagsInv'
    BY <1>1, Zenon DEF AutoInv, TagsInv
  <1>3. CASE StartThread
    <2>1. thread = "none" /\ thread' = "idle" /\ dropped' = dropped
      BY <1>3 DEF StartThread, PluginsInv
    <2>2. HeldInv'
      BY <1>1, <2>1 DEF AutoInv, HeldInv, Busy
    <2>3. SettledInv'
      BY <1>1, <2>1 DEF AutoInv, SettledInv, Coming
    <2> QED  BY <1>2, <2>2, <2>3 DEF AutoInv
  <1>4. CASE Mount
    <2>1. \/ thread' = thread /\ dropped' = dropped
          \/ thread' = "none" /\ dropped' = dropped \cup {o \in {cur} : thread \in Busy}
      BY <1>4 DEF Mount
    <2>2. HeldInv'
      BY <1>1, <2>1 DEF AutoInv, HeldInv, Busy
    <2>3. SettledInv'
      BY <1>1, <2>1 DEF AutoInv, SettledInv, Coming, Busy
    <2> QED  BY <1>2, <2>2, <2>3 DEF AutoInv
  <1> QED  BY <1>3, <1>4

\* The queue, as g_async_queue_push() and g_async_queue_pop() leave it.
LEMMA Pushed ==
  ASSUME NEW S, NEW s \in Seq(S), NEW x \in S
  PROVE  Append(s, x) \in Seq(S) /\ Listed(Append(s, x)) = Listed(s) \cup {x}
  <1>1. /\ Append(s, x) \in Seq(S) /\ Len(Append(s, x)) = Len(s) + 1
        /\ Append(s, x)[Len(s) + 1] = x /\ \A i \in 1 .. Len(s) : Append(s, x)[i] = s[i]
    BY AppendProperties
  <1>2. Len(s) \in Nat /\ DOMAIN s = 1 .. Len(s) /\ DOMAIN Append(s, x) = 1 .. Len(s) + 1
    BY <1>1, LenProperties
  <1>3. 1 .. Len(s) + 1 = (1 .. Len(s)) \cup {Len(s) + 1}
    BY <1>2
  <1> DEFINE t == Append(s, x)
  <1>4. DOMAIN t = DOMAIN s \cup {Len(s) + 1} /\ t[Len(s) + 1] = x /\ \A i \in DOMAIN s : t[i] = s[i]
    BY <1>1, <1>2, <1>3
  <1> HIDE DEF t
  <1>5. Listed(t) = Listed(s) \cup {x}
    BY <1>4, ZenonT(60) DEF Listed
  <1> QED  BY <1>1, <1>5 DEF t

LEMMA Popped ==
  ASSUME NEW S, NEW s \in Seq(S), s # <<>>
  PROVE  /\ Head(s) \in S /\ Tail(s) \in Seq(S)
         /\ \A x \in Listed(s) : x = Head(s) \/ x \in Listed(Tail(s))
  <1>1. /\ Head(s) \in S /\ Tail(s) \in Seq(S) /\ Len(Tail(s)) = Len(s) - 1
        /\ Head(s) = s[1] /\ \A i \in 1 .. Len(Tail(s)) : Tail(s)[i] = s[i + 1]
    BY HeadTailProperties
  <1>2. Len(s) \in Nat /\ DOMAIN s = 1 .. Len(s) /\ DOMAIN Tail(s) = 1 .. Len(s) - 1
    BY <1>1, LenProperties
  <1>3. ASSUME NEW i \in DOMAIN s, i # 1 PROVE s[i] \in Listed(Tail(s))
    <2>1. i - 1 \in DOMAIN Tail(s) /\ i - 1 \in 1 .. Len(Tail(s)) /\ (i - 1) + 1 = i
      BY <1>1, <1>2, <1>3
    <2>2. Tail(s)[i - 1] = s[i]
      BY <1>1, <2>1
    <2> QED  BY <2>1, <2>2 DEF Listed
  <1>4. \A x \in Listed(s) : x = Head(s) \/ x \in Listed(Tail(s))
    BY <1>1, <1>3, Zenon DEF Listed
  <1> QED  BY <1>1, <1>4

\* The object into which another is merged has its own tags, and may get more.
LEMMA MergeAuto ==
  ASSUME ServiceInv, AutoInv, db \in Databases, NEW o \in Inodes, NEW main \in Inodes \ {o}, NEW new,
         Merges(o, main, new), UNCHANGED <<data, db, phase, thread, cur, held>>
  PROVE  AutoInv'
  <1>1. OnlySum(o, Absent)
    <2>1. sum' = WithSum(o, Absent)
      BY Zenon DEF Merges
    <2> QED  BY <2>1, SumReplaced, Zenon
  <1>2. /\ past = [p \in Inodes |-> past[p]] /\ past' = [past EXCEPT ![main] = @ \cup past[o]]
        /\ tags' = WithTags(db, new) /\ new = [p \in Inodes |-> new[p]]
        /\ UNCHANGED <<queue, dropped>>
    BY Zenon DEF Merges, AutoInv, HeldInv
  <1>3. /\ past' = [p \in Inodes |-> past'[p]] /\ past'[main] = past[main] \cup past[o]
        /\ \A p \in Inodes : p # main => past'[p] = past[p]
    BY <1>2
  <1>4. \A p \in Inodes : past[p] \subseteq past'[p]
    BY <1>3
  <1>5. ASSUME NEW p \in Inodes PROVE Earned(past'[p], new[p])
    <2>1. \A q \in Inodes : Earned(past[q], tags[db][q])
      BY Zenon DEF AutoInv, TagsInv
    <2>2. CASE p = o
      <3>1. new[p] = {}
        BY <2>2, Zenon DEF Merges
      <3> QED  BY <3>1, EarnedNone, Zenon
    <2>3. CASE p = main
      <3>1. past[main] \subseteq past'[p] /\ past[o] \subseteq past'[p]
        BY <1>3, <2>3
      <3>2. Earned(past'[p], tags[db][main]) /\ Earned(past'[p], tags[db][o])
        BY <2>1, <3>1, EarnedMore, Zenon
      <3>3. Earned(past'[p], tags[db][main] \cup tags[db][o])
        BY <3>2, EarnedBoth, Zenon
      <3> QED  BY <2>3, <3>2, <3>3, Zenon DEF Merges
    <2>4. CASE p # o /\ p # main
      <3>1. new[p] = tags[db][p] /\ past'[p] = past[p]
        BY <1>3, <2>4, Zenon DEF Merges
      <3> QED  BY <2>1, <3>1, Zenon
    <2> QED  BY <2>2, <2>3, <2>4
  <1>6. /\ TagsInv'
        /\ \A p \in Inodes : tags'[db][p] = new[p]
        /\ \A e \in Databases : e # db => tags'[e] = tags[e]
    BY <1>2, <1>4, <1>5, TagsReplaced, Zenon DEF AutoInv
  <1>7. HeldInv'
    BY <1>2, <1>3, <1>4 DEF AutoInv, HeldInv, Busy
  <1>8. ASSUME NEW d \in Databases, NEW p \in Inodes, sum'[d][p] \notin {Absent, NoSum},
               p \in files', p \notin dropped'
        PROVE  TagsOf(data[p]) \subseteq tags'[d][p] \/ (d = db /\ Coming(p)')
    <2>1. ~(d = db /\ p = o) /\ sum[d][p] \notin {Absent, NoSum}
      BY <1>1, <1>8 DEF OnlySum
    <2>2. p \in files /\ p \notin dropped
      BY <1>2, <1>8 DEF Merges
    <2>3. Coming(p)' <=> Coming(p)
      BY <1>2 DEF Coming
    <2>4. tags[d][p] \subseteq tags'[d][p]
      <3>1. CASE d # db
        BY <1>6, <3>1, Zenon
      <3>2. CASE d = db
        <4>1. tags[db][p] \subseteq new[p]
          <5>1. p # o
            BY <2>1, <3>2
          <5> QED  BY <5>1, Zenon DEF Merges
        <4> QED  BY <1>6, <3>2, <4>1, Zenon
      <3> QED  BY <3>1, <3>2
    <2> QED  BY <2>1, <2>2, <2>3, <2>4 DEF AutoInv, SettledInv
  <1>9. SettledInv'
    BY <1>8 DEF SettledInv
  <1> QED  BY <1>6, <1>7, <1>9 DEF AutoInv

\* The kernel queues the object, or merges it into one that holds the same.
LEMMA KernelAuto ==
  ASSUME NoDirectories, ServiceInv, OwnSums, OneRow, AutoInv, db \in Databases, NEW o \in Inodes,
         o \in Rows(db), Kernel(o), UNCHANGED <<data, db, phase, thread, cur, held>>,
         phase \in {"fix", "mounted"}
  PROVE  AutoInv'
  <1>1. CASE UNCHANGED <<sum, tags, files, queue, past, dropped>>
    BY <1>1, QuietAuto
  <1>2. CASE /\ sum' = WithSum(o, data[o])
             /\ queue' = Append(queue, o) /\ dropped' = dropped \ {o}
             /\ UNCHANGED <<tags, files, past>>
    <2>1. OnlySum(o, data[o])
      BY <1>2, SumReplaced, Zenon
    <2>2. queue' \in Seq(Inodes) /\ Listed(queue') = Listed(queue) \cup {o}
      <3>1. queue \in Seq(Inodes)
        BY DEF AutoInv, HeldInv
      <3> QED  BY <1>2, <3>1, Pushed, ZenonT(60)
    <2>3. TagsInv'
      BY <1>2, Zenon DEF AutoInv, TagsInv
    <2>4. HeldInv'
      BY <1>2, <2>2 DEF AutoInv, HeldInv, Busy
    <2>5. ASSUME NEW d \in Databases, NEW p \in Inodes, sum'[d][p] \notin {Absent, NoSum},
                 p \in files, p \notin dropped'
          PROVE  TagsOf(data[p]) \subseteq tags[d][p] \/ (d = db /\ Coming(p)')
      <3>1. CASE p = o /\ d = db
        BY <2>2, <3>1 DEF Coming
      <3>2. CASE p = o /\ d # db
        <4>1. sum[d][o] # Absent /\ sum[db][o] # Absent
          BY <2>1, <2>5, <3>2 DEF OnlySum, Rows
        <4> QED  BY <3>2, <4>1 DEF OneRow
      <3>3. CASE p # o
        <4>1. sum[d][p] \notin {Absent, NoSum} /\ p \notin dropped
          BY <1>2, <2>1, <2>5, <3>3 DEF OnlySum
        <4>2. Coming(p) => Coming(p)'
          BY <2>2 DEF Coming
        <4> QED  BY <2>5, <4>1, <4>2 DEF AutoInv, SettledInv
      <3> QED  BY <3>1, <3>2, <3>3
    <2>6. SettledInv'
      BY <1>2, <2>5 DEF SettledInv
    <2> QED  BY <2>3, <2>4, <2>6 DEF AutoInv
  <1>3. ASSUME NEW main \in Inodes \ {o}, NEW new, Merges(o, main, new) PROVE AutoInv'
    BY <1>3, MergeAuto
  <1> QED  BY <1>1, <1>2, <1>3, KernelDoes, Zenon DEF AutoInv

\* tagsistant_autotagging_loop(), up to the lock.
LEMMA ThreadAuto ==
  ASSUME ServiceInv, PluginsInv, AutoInv, Pop \/ Extract \/ LockForTags
  PROVE  AutoInv'
  <1>1. UNCHANGED <<sum, tags, files, data, past, dropped, db, phase>>
    BY DEF Pop, Extract, LockForTags, repository, contents, config, hand
  <1>2. TagsInv'
    BY <1>1, Zenon DEF AutoInv, TagsInv
  <1>3. CASE Pop
    <2>1. /\ thread = "idle" /\ thread' = "extract" /\ queue # <<>> /\ held' = held
          /\ cur' = Head(queue) /\ queue' = Tail(queue)
      BY <1>3 DEF Pop
    <2>2. /\ cur' \in Inodes /\ queue' \in Seq(Inodes)
          /\ \A o \in Listed(queue) : o = cur' \/ o \in Listed(queue')
      <3>1. queue \in Seq(Inodes)
        BY DEF AutoInv, HeldInv
      <3> QED  BY <2>1, <3>1, Popped, Zenon
    <2>3. HeldInv'
      BY <1>1, <2>1, <2>2 DEF AutoInv, HeldInv, Busy
    <2>4. \A o \in Inodes : Coming(o) => o = cur' \/ o \in Listed(queue')
      BY <2>1, <2>2 DEF Coming
    <2>5. SettledInv'
      BY <1>1, <2>1, <2>4 DEF AutoInv, SettledInv, Coming
    <2> QED  BY <1>2, <2>3, <2>5 DEF AutoInv
  <1>4. CASE Extract
    <2>1. /\ thread = "extract" /\ UNCHANGED <<queue, cur>>
          /\ thread' = IF HasMime THEN "lock" ELSE "idle"
          /\ held' = IF HasMime THEN data[cur] ELSE held
      BY <1>4 DEF Extract
    <2>2. HeldInv'
      BY <1>1, <2>1 DEF AutoInv, HeldInv, Busy
    <2>3. cur \in files /\ ~HasMime => TagsOf(data[cur]) = {}
      BY Zenon DEF HasMime, TagsOf, ExpectedTags
    <2>4. ASSUME NEW d \in Databases, NEW o \in Inodes, sum[d][o] \notin {Absent, NoSum},
                 o \in files, o \notin dropped
          PROVE  TagsOf(data[o]) \subseteq tags[d][o] \/ (d = db /\ Coming(o)')
      <3>1. TagsOf(data[o]) \subseteq tags[d][o] \/ (d = db /\ Coming(o))
        BY <2>4 DEF AutoInv, SettledInv
      <3>2. CASE o = cur
        <4>1. CASE HasMime
          BY <1>1, <2>1, <3>1, <3>2, <4>1 DEF Coming
        <4>2. CASE ~HasMime
          BY <2>3, <2>4, <3>2, <4>2, Zenon
        <4> QED  BY <4>1, <4>2
      <3>3. CASE o # cur
        BY <2>1, <3>1, <3>3 DEF Coming
      <3> QED  BY <3>2, <3>3
    <2>5. SettledInv'
      BY <1>1, <2>4 DEF SettledInv
    <2> QED  BY <1>2, <2>2, <2>5 DEF AutoInv
  <1>5. CASE LockForTags
    <2>1. thread = "lock" /\ thread' = "tag" /\ UNCHANGED <<queue, cur, held>>
      BY <1>5 DEF LockForTags, hand
    <2>2. HeldInv'
      BY <1>1, <2>1 DEF AutoInv, HeldInv, Busy
    <2>3. SettledInv'
      BY <1>1, <2>1 DEF AutoInv, SettledInv, Coming
    <2> QED  BY <1>2, <2>2, <2>3 DEF AutoInv
  <1> QED  BY <1>3, <1>4, <1>5

\* tagsistant_process() has run the chain: the object has the tags for what the
\* thread holds.
LEMMA TagAuto ==
  ASSUME ServiceInv, PluginsInv, AutoInv, Tag
  PROVE  AutoInv'
  <1>1. /\ thread = "tag" /\ thread' = "idle" /\ phase \in {"fix", "fork", "mounted"}
        /\ UNCHANGED <<sum, files, data, past, queue, cur, held, dropped, db, phase>>
    BY DEF Tag, PluginsInv, contents, config, hand
  <1>2. /\ db \in Databases /\ plugins \in Seq(Loads) /\ Listed(plugins) = Loads
        /\ \A p \in Loads : filters[p] = Of[p].default
    <2>1. phase \in Chosen /\ phase \notin {"off", "prepare", "plugins"}
      BY <1>1 DEF Chosen
    <2> QED  BY <2>1, Zenon DEF ServiceInv, PluginsInv
  <1>3. Autotags(plugins, held, filters) = TagsOf(held)
    <2>1. Autotags(plugins, held, filters) = ExpectedTags(Loads, held, NoFilters)
      BY <1>2, AutotagsGiven, ZenonT(60)
    <2> QED  BY <2>1, Zenon DEF TagsOf
  <1>4. cur \in Inodes /\ held \in past[cur]
    BY <1>1 DEF AutoInv, HeldInv, Busy
  <1> DEFINE given == TagsOf(held)
             old == tags[db]
             new == [old EXCEPT ![cur] = IF cur \in Rows(db) THEN old[cur] \cup given ELSE old[cur]]
  <1>5. old = [o \in Inodes |-> old[o]]
    BY <1>2, TagsFunction, Zenon DEF AutoInv
  <1>6. tags' = WithTags(db, new)
    <2>1. tags' = [tags EXCEPT ![db][cur] = IF cur \in Rows(db) THEN @ \cup given ELSE @]
      BY <1>3, Zenon DEF Tag
    <2> HIDE DEF given
    <2> QED  BY <2>1 DEF WithTags
  <1> HIDE DEF given, old
  <1>7. /\ new = [o \in Inodes |-> new[o]]
        /\ \A o \in Inodes : o # cur => new[o] = old[o]
        /\ new[cur] = IF cur \in Rows(db) THEN old[cur] \cup given ELSE old[cur]
    BY <1>4, <1>5
  <1> HIDE DEF new
  <1>8. ASSUME NEW o \in Inodes PROVE Earned(past'[o], new[o])
    <2>1. Earned(past[o], old[o]) /\ past' = past
      BY <1>1, <1>2, Zenon DEF AutoInv, TagsInv, old
    <2>2. CASE o # cur
      BY <1>7, <2>1, <2>2, Zenon
    <2>3. CASE o = cur
      <3>1. Earned(past[o], given)
        BY <1>4, <2>3, EarnedOne, Zenon DEF given
      <3>2. Earned(past[o], old[o] \cup given)
        BY <2>1, <3>1, EarnedBoth, Zenon
      <3> QED  BY <1>7, <2>1, <2>3, <3>2, Zenon
    <2> QED  BY <2>2, <2>3
  <1>9. \A o \in Inodes : past[o] \subseteq past'[o]
    BY <1>1
  <1>10. /\ TagsInv'
         /\ \A o \in Inodes : tags'[db][o] = new[o]
         /\ \A e \in Databases : e # db => tags'[e] = tags[e]
    BY <1>2, <1>6, <1>7, <1>8, <1>9, TagsReplaced, Zenon DEF AutoInv
  <1>11. HeldInv'
    BY <1>1 DEF AutoInv, HeldInv, Busy
  <1>12. ASSUME NEW d \in Databases, NEW o \in Inodes, sum[d][o] \notin {Absent, NoSum},
                o \in files, o \notin dropped
         PROVE  TagsOf(data[o]) \subseteq tags'[d][o] \/ (d = db /\ Coming(o)')
    <2>1. TagsOf(data[o]) \subseteq tags[d][o] \/ (d = db /\ Coming(o))
      BY <1>12 DEF AutoInv, SettledInv
    <2>2. tags[d][o] \subseteq tags'[d][o]
      <3>1. CASE d # db
        BY <1>10, <3>1, Zenon
      <3>2. CASE d = db
        <4>1. old[o] \subseteq new[o]
          BY <1>7, Zenon
        <4> QED  BY <1>10, <3>2, <4>1, Zenon DEF old
      <3> QED  BY <3>1, <3>2
    <2>3. CASE d = db /\ o = cur /\ held = data[o]
      <3>1. given \subseteq new[o]
        <4>1. cur \in Rows(db)
          BY <1>12, <2>3 DEF Rows
        <4> QED  BY <1>7, <2>3, <4>1, Zenon
      <3> QED  BY <1>10, <2>3, <3>1, Zenon DEF given
    <2>4. CASE ~(d = db /\ o = cur /\ held = data[o])
      <3>1. d = db /\ Coming(o) => Coming(o)'
        BY <1>1, <2>4 DEF Coming
      <3> QED  BY <2>1, <2>2, <3>1
    <2> QED  BY <2>3, <2>4
  <1>13. SettledInv'
    BY <1>1, <1>12 DEF SettledInv
  <1> QED  BY <1>10, <1>11, <1>13 DEF AutoInv

\* unlink() takes the tags with the row.
LEMMA UnlinkAuto ==
  ASSUME ServiceInv, AutoInv, db \in Databases, UnlinkCommit
  PROVE  AutoInv'
  <1> DEFINE o == req.o
             old == tags[db]
             new == [old EXCEPT ![o] = {}]
  <1>1. tags' = WithTags(db, new)
    BY DEF UnlinkCommit, WithTags
  <1>2. old = [p \in Inodes |-> old[p]]
    BY TagsFunction, Zenon DEF AutoInv
  <1>3. sum' = WithSum(o, Absent)
    BY DEF UnlinkCommit, WithSum
  <1>4. UNCHANGED <<files, data, past, queue, thread, cur, held, dropped, db, phase>>
    BY DEF UnlinkCommit, contents, config, work, hand
  <1> HIDE DEF o, old
  <1>5. /\ new = [p \in Inodes |-> new[p]] /\ \A p \in Inodes : new[p] \in {old[p], {}}
        /\ \A p \in Inodes : p # o => new[p] = old[p]
    BY <1>2
  <1> HIDE DEF new
  <1>6. ASSUME NEW p \in Inodes PROVE Earned(past'[p], new[p])
    <2>1. Earned(past[p], old[p]) /\ Earned(past[p], {})
      BY EarnedNone, Zenon DEF AutoInv, TagsInv, old
    <2> QED  BY <1>4, <1>5, <2>1, Zenon
  <1>7. \A p \in Inodes : past[p] \subseteq past'[p]
    BY <1>4
  <1>8. /\ TagsInv'
        /\ \A p \in Inodes : tags'[db][p] = new[p]
        /\ \A e \in Databases : e # db => tags'[e] = tags[e]
    BY <1>1, <1>5, <1>6, <1>7, TagsReplaced, Zenon DEF AutoInv
  <1>9. OnlySum(o, Absent)
    BY <1>3, SumReplaced, Zenon
  <1>10. HeldInv'
    BY <1>4 DEF AutoInv, HeldInv, Busy
  <1>11. ASSUME NEW d \in Databases, NEW p \in Inodes, sum'[d][p] \notin {Absent, NoSum},
                p \in files, p \notin dropped
         PROVE  TagsOf(data[p]) \subseteq tags'[d][p] \/ (d = db /\ Coming(p)')
    <2>1. ~(d = db /\ p = o) /\ sum[d][p] \notin {Absent, NoSum}
      BY <1>9, <1>11 DEF OnlySum
    <2>2. Coming(p)' <=> Coming(p)
      BY <1>4 DEF Coming
    <2>3. tags'[d][p] = tags[d][p]
      BY <1>5, <1>8, <2>1, Zenon DEF old
    <2> QED  BY <1>11, <2>1, <2>2, <2>3 DEF AutoInv, SettledInv
  <1>12. SettledInv'
    BY <1>4, <1>11 DEF SettledInv
  <1> QED  BY <1>8, <1>10, <1>12 DEF AutoInv

\* The other requests leave the tags alone; an object that is written to has no
\* checksum, in the only database in which it has a row.
LEMMA ServedAuto ==
  ASSUME ServiceInv, RowsInv, AutoInv, db \in Databases, Create \/ Open \/ Write \/ UnlinkFile
  PROVE  AutoInv'
  <1>1. UNCHANGED <<tags, queue, thread, cur, held, dropped, db, phase>>
    BY DEF Create, Open, Write, UnlinkFile, config, work, hand
  <1>2. CASE UnlinkFile
    <2>1. UNCHANGED <<sum, data, past>> /\ files' \subseteq files
      BY <1>2 DEF UnlinkFile, contents
    <2>2. TagsInv'
      BY <1>1, <2>1, Zenon DEF AutoInv, TagsInv
    <2>3. HeldInv'
      BY <1>1, <2>1 DEF AutoInv, HeldInv, Busy
    <2>4. SettledInv'
      BY <1>1, <2>1 DEF AutoInv, SettledInv, Coming
    <2> QED  BY <2>2, <2>3, <2>4 DEF AutoInv
  <1>3. CASE Create \/ Open
    <2>1. UNCHANGED <<data, past>>
      BY <1>3 DEF Create, Open, contents
    <2>2. PICK v \in {Absent, NoSum} : sum' = WithSum(req.o, v)
      BY <1>3 DEF Create, Open, WithSum
    <2>3. OnlySum(req.o, v)
      BY <2>2, SumReplaced, Zenon
    <2>4. \A p \in files' : p \in files \/ (p = req.o /\ p = made + 1)
      BY <1>3 DEF Create, Open, RowsInv, RequestInv
    <2>5. TagsInv'
      BY <1>1, <2>1, Zenon DEF AutoInv, TagsInv
    <2>6. HeldInv'
      BY <1>1, <2>1 DEF AutoInv, HeldInv, Busy
    <2>7. ASSUME NEW d \in Databases, NEW p \in Inodes, sum'[d][p] \notin {Absent, NoSum},
                 p \in files', p \notin dropped
          PROVE  TagsOf(data[p]) \subseteq tags[d][p] \/ (d = db /\ Coming(p)')
      <3>1. sum[d][p] \notin {Absent, NoSum} /\ ~(d = db /\ p = req.o)
        BY <2>3, <2>7 DEF OnlySum
      <3>2. p \in files
        <4>1. p # made + 1
          <5>1. p <= made /\ made \in Nat
            BY <3>1 DEF RowsInv, OneRow
          <5> QED  BY <5>1
        <4> QED  BY <2>4, <2>7, <4>1
      <3>3. Coming(p)' <=> Coming(p)
        BY <1>1, <2>1 DEF Coming
      <3> QED  BY <2>7, <3>1, <3>2, <3>3 DEF AutoInv, SettledInv
    <2>8. SettledInv'
      BY <1>1, <2>1, <2>7 DEF SettledInv
    <2> QED  BY <2>5, <2>6, <2>8 DEF AutoInv
  <1>4. CASE Write
    <2>1. PICK c : /\ data' = [data EXCEPT ![req.o] = c]
                   /\ past' = [past EXCEPT ![req.o] = @ \cup {c}]
      BY <1>4 DEF Write
    <2>2. Serving("write") /\ UNCHANGED <<sum, files>>
      BY <1>4 DEF Write
    <2>3. req.o \in Inodes /\ sum[db][req.o] = NoSum
      BY <2>2 DEF ServiceInv, RowsInv, RequestInv
    <2>4. \A d \in Databases : sum[d][req.o] \in {Absent, NoSum}
      BY <2>3, SumsAssumption DEF RowsInv, OneRow
    <2>5. /\ past' = [p \in Inodes |-> past'[p]] /\ past'[req.o] = past[req.o] \cup {c}
          /\ data'[req.o] = c
          /\ \A p \in Inodes : p # req.o => past'[p] = past[p] /\ data'[p] = data[p]
      <3>1. past = [p \in Inodes |-> past[p]] /\ data \in [Inodes -> Contents]
        BY DEF AutoInv, HeldInv, ServiceInv
      <3> QED  BY <2>1, <2>3, <3>1
    <2>6. \A p \in Inodes : past[p] \subseteq past'[p] /\ data'[p] \in past'[p]
      BY <2>5 DEF AutoInv, HeldInv
    <2>7. TagsInv'
      BY <1>1, <2>6, TagsKept, Zenon DEF AutoInv
    <2>8. HeldInv'
      BY <1>1, <2>5, <2>6 DEF AutoInv, HeldInv, Busy
    <2>9. ASSUME NEW d \in Databases, NEW p \in Inodes, sum[d][p] \notin {Absent, NoSum},
                 p \in files, p \notin dropped
          PROVE  TagsOf(data'[p]) \subseteq tags[d][p] \/ (d = db /\ Coming(p)')
      <3>1. p # req.o
        BY <2>4, <2>9
      <3>2. data'[p] = data[p]
        BY <2>5, <3>1
      <3>3. Coming(p)' <=> Coming(p)
        BY <1>1, <3>2 DEF Coming
      <3> QED  BY <2>9, <3>2, <3>3 DEF AutoInv, SettledInv
    <2>10. SettledInv'
      BY <1>1, <2>2, <2>9 DEF SettledInv
    <2> QED  BY <2>7, <2>8, <2>10 DEF AutoInv
  <1> QED  BY <1>2, <1>3, <1>4

\* Every step keeps the tags, and what is to come of them.
LEMMA AutoStep ==
  ASSUME NoDirectories, ServiceInv, PluginsInv, RowsInv, AutoInv, [Next]_vars
  PROVE  AutoInv'
  <1>1. ASSUME UNCHANGED <<repository, work, db>>,
               phase \in {"fix", "fork", "mounted"} => phase' \in {"fix", "fork", "mounted"}
        PROVE  AutoInv'
    <2>1. UNCHANGED <<sum, tags, files, data, past, queue, thread, cur, held, dropped, db>>
      BY <1>1 DEF repository, contents, work, hand
    <2>2. queue # <<>> => phase' \in {"fix", "fork", "mounted"}
      BY <1>1 DEF AutoInv, HeldInv
    <2> QED  BY <2>1, <2>2, QuietAuto
  <1>2. ASSUME UNCHANGED <<sum, tags, files, made, contents, work, db>>, phase' = phase \/ phase \in {"truncate", "save"}
        PROVE  AutoInv'
    <2>1. UNCHANGED <<sum, tags, files, data, past, queue, thread, cur, held, dropped, db>>
      BY <1>2 DEF contents, work, hand
    <2>2. queue # <<>> => phase' \in {"fix", "fork", "mounted"}
      BY <1>2 DEF AutoInv, HeldInv
    <2> QED  BY <2>1, <2>2, QuietAuto
  <1>3. CASE UNCHANGED vars
    BY <1>1, <1>3 DEF vars, config
  <1>4. CASE MainStep
    <2>1. CASE Prepare \/ LoadPlugins \/ TruncateFails \/ SaveFails \/ Connect
      BY <1>1, <2>1 DEF Prepare, LoadPlugins, TruncateFails, SaveFails, Connect, config
    <2>2. CASE FixDone
      BY <1>1, <2>2 DEF FixDone, config
    <2>3. CASE TruncateIni \/ SaveIni
      BY <1>2, <2>3 DEF TruncateIni, SaveIni, config
    <2>4. CASE PrepareFails \/ ConnectFails \/ MountFails
      BY <2>4, GoneAuto DEF PrepareFails, ConnectFails, MountFails, Exit
    <2>5. CASE StartThread \/ Mount
      BY <2>5, StartAuto
    <2>6. ASSUME NEW o \in Inodes, FixRow(o) PROVE AutoInv'
      <3>1. phase = "fix" /\ Kernel(o) /\ UNCHANGED <<data, db, phase, thread, cur, held>>
        BY <2>6 DEF FixRow, config, hand
      <3>2. db \in Databases /\ o \in Rows(db) /\ OwnSums /\ OneRow
        BY <2>6 DEF FixRow, ServiceInv, Chosen, RowsInv, RequestInv
      <3> QED  BY <3>1, <3>2, KernelAuto
    <2> QED  BY <1>4, <2>1, <2>2, <2>3, <2>4, <2>5, <2>6, ParseIniAuto DEF MainStep
  <1>5. CASE ThreadStep
    BY <1>5, ThreadAuto, TagAuto DEF ThreadStep
  <1>6. CASE Serve
    <2>1. phase = "mounted" /\ db \in Databases
      BY <1>6 DEF Serve, Create, Open, Write, Close, UnlinkFile, UnlinkCommit, Serving, ServiceInv, Chosen
    <2>2. CASE Close
      <3>1. /\ Kernel(req.o) /\ req.o \in Inodes /\ req.o \in Rows(db) /\ OwnSums /\ OneRow
            /\ UNCHANGED <<data, db, phase, thread, cur, held>>
        BY <2>2 DEF Close, ServiceInv, RowsInv, RequestInv, config, hand
      <3> QED  BY <2>1, <3>1, KernelAuto
    <2> QED  BY <1>6, <2>1, <2>2, ServedAuto, UnlinkAuto DEF Serve
  <1>7. CASE UserStep
    <2>1. ASSUME NEW d \in Env.dbs, NEW f \in Env.fg, Launch(d, f) PROVE AutoInv'
      BY <1>1, <2>1 DEF Launch
    <2>2. ASSUME NEW e \in Env.edits, EditIni(e.section, e.filter) PROVE AutoInv'
      BY <1>2, <2>2 DEF EditIni, config
    <2>3. ASSUME AskCreate \/ (\E o \in Inodes : AskOpen(o) \/ AskWrite(o) \/ AskClose(o) \/ AskUnlink(o))
          PROVE  AutoInv'
      BY <1>1, <2>3 DEF AskCreate, AskOpen, AskWrite, AskClose, AskUnlink, NewRequest, config
    <2>4. ASSUME Unmount \/ Kill PROVE AutoInv'
      BY <2>4, GoneAuto DEF Unmount, Kill, Exit
    <2> QED  BY <1>7, <2>1, <2>2, <2>3, <2>4 DEF UserStep
  <1> QED  BY <1>3, <1>4, <1>5, <1>6, <1>7 DEF Next

\* Whatever order readdir() returned the plugins in, whoever was rewritten, killed,
\* restarted, merged or queued twice: the tags of an object are those expected for
\* some of what it has held, and those for what it holds now once the thread is
\* done with it.  Directories, whose checksum may be anybody's, and edited filters
\* of loaded plugins are the two things the code does not cope with, and the
\* hypotheses leave out.
THEOREM AutotagsExpected ==
  ASSUME NoDirectories, AllFound, FiltersLeft
  PROVE  Spec => []AutotagsAsExpected
  <1>1. Init => ServiceInv /\ PluginsInv /\ RowsInv /\ AutoInv
    <2> SUFFICES ASSUME Init PROVE ServiceInv /\ PluginsInv /\ RowsInv /\ AutoInv
      OBVIOUS
    <2>1. sum = [d \in Databases |-> [o \in Inodes |-> Absent]]
      BY DEF Init
    <2>2. ServiceInv
      <3>1. sum \in [Databases -> [Inodes -> Sums]]
        BY <2>1 DEF Sums
      <3> QED  BY <3>1, DataAssumption DEF Init, ServiceInv, Chosen, NoIni, Serving
    <2>3. PluginsInv
      BY NoFiltersDefault DEF Init, PluginsInv, NoIni
    <2>4. RowsInv
      <3>1. OwnSums /\ OneRow
        BY <2>1 DEF Init, OwnSums, OneRow
      <3>2. RequestInv
        BY DEF Init, RequestInv, Serving
      <3> QED  BY <3>1, <3>2 DEF RowsInv
    <2>5. TagsInv
      <3>1. tags = [d \in Databases |-> [o \in Inodes |-> {}]]
        BY DEF Init
      <3>2. \A d \in Databases, o \in Inodes : tags[d][o] = {}
        BY <3>1
      <3>3. tags = [d \in Databases |-> [o \in Inodes |-> tags[d][o]]]
        BY <3>1
      <3> QED  BY <3>2, <3>3, EarnedNone, Zenon DEF TagsInv
    <2>6. HeldInv
      BY EmptySeq DEF Init, HeldInv, Busy
    <2>7. SettledInv
      BY <2>1 DEF SettledInv
    <2> QED  BY <2>2, <2>3, <2>4, <2>5, <2>6, <2>7 DEF AutoInv
  <1>2. DatabaseInv /\ ServiceInv /\ [Next]_vars => ServiceInv'
    BY ServiceStep
  <1>3. DatabaseInv /\ ServiceInv /\ PluginsInv /\ [Next]_vars => PluginsInv'
    BY PluginsStep
  <1>4. ServiceInv /\ RowsInv /\ AutoInv /\ [Next]_vars => RowsInv'
    BY RowsStep DEF AutoInv
  <1>5. ServiceInv /\ PluginsInv /\ RowsInv /\ AutoInv /\ [Next]_vars => AutoInv'
    BY AutoStep
  <1>6. PluginsInv /\ AutoInv => AutotagsAsExpected
    <2> SUFFICES ASSUME PluginsInv, AutoInv, NEW d \in Databases, NEW o \in Inodes
                 PROVE  /\ \E S \in SUBSET past[o] : tags[d][o] = TagsFor(S)
                        /\ sum[d][o] \notin {Absent, NoSum} /\ o \in files \ dropped /\ ~Awaited(o)
                               => TagsFor({data[o]}) \subseteq tags[d][o]
      BY Zenon DEF AutotagsAsExpected
    <2>1. Defaults(ini.filters)
      BY Zenon DEF PluginsInv
    <2>2. \A c : ExpectedTags(Loads, c, ini.filters) = TagsOf(c)
      BY <2>1, ExpectedWith, Zenon DEF TagsOf
    <2>3. \A S : TagsFor(S) = Given(S)
      BY <2>2, Zenon DEF TagsFor, Given, Loads
    <2>4. \E S \in SUBSET past[o] : tags[d][o] = TagsFor(S)
      BY <2>3, Zenon DEF AutoInv, TagsInv, Earned
    <2>5. ASSUME sum[d][o] \notin {Absent, NoSum}, o \in files \ dropped, ~Awaited(o)
          PROVE  TagsFor({data[o]}) \subseteq tags[d][o]
      <3>1. ~Coming(o)
        BY <2>5 DEF Coming, Awaited, Busy, Listed
      <3>2. TagsOf(data[o]) \subseteq tags[d][o]
        BY <2>5, <3>1 DEF AutoInv, SettledInv
      <3>3. Given({data[o]}) = TagsOf(data[o])
        BY Zenon DEF Given
      <3> QED  BY <2>3, <3>2, <3>3, Zenon
    <2> QED  BY <2>4, <2>5
  <1> QED  BY <1>1, <1>2, <1>3, <1>4, <1>5, <1>6, DatabaseHolds, PTL DEF Spec
=============================================================================
