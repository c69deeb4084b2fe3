------------------------------- MODULE Catalog -------------------------------
(***************************************************************************)
(* The catalogue Tagsistant keeps of its archive: the tags, objects,       *)
(* tagging and relations tables, the tag_id cache in front of the tags     *)
(* table (src/src/sql.c) and the files under archive/, as the handlers of  *)
(* src/src/fuse_operations change them: mknod, mkdir, symlink, link,       *)
(* unlink, rmdir and rename.                                               *)
(*                                                                         *)
(* A handler that starts a transaction runs alone (ConnectionPool,         *)
(* WriterExclusion), so one such request is in progress at a time; each    *)
(* statement, or pass of a loop over the tags of its path, is a step, and  *)
(* the process may be killed between any two.  SQLite undoes an open       *)
(* transaction, autoincrement counters included; it does not undo what     *)
(* was done under archive/, and nothing undoes the cache.  link() asks for *)
(* no transaction and takes the read lock only: its statements are durable *)
(* one by one, and several link()s run beside each other.                  *)
(***************************************************************************)
EXTENDS Integers, Sequences, FiniteSets

CONSTANTS
    TagNames,   \* rows the tags table may have: [ns, kv] records
    NoKV,       \* key = value = '': a flat tag, or a bare namespace
    ObjNames,   \* object names
    NoName,     \* no row for that inode
    NoTarget,   \* objects.symlink = ''
    Targets,    \* what symbolic links point to
    Requests,   \* calls that start a transaction; their fields depend on the op
    Linkers,    \* threads that may be in link()
    Links,      \* what they are asked for: [tags, name] of the new path
    Lookups,    \* tags whose path is looked up with getattr() or readdir()
    DiskFails,  \* system calls on archive/ may fail
    Races,      \* a tag may be removed after the kernel has looked it up
    MaxTag, MaxInode, MaxCrashes  \* bounds on rows created, and on crashes

ASSUME CatalogBounds == MaxTag \in Nat /\ MaxInode \in Nat /\ MaxCrashes \in Nat
ASSUME NamesAssumption == NoName \notin ObjNames /\ NoTarget \notin Targets
ASSUME TagNamesAssumption == \A k \in TagNames : k = [ns |-> k.ns, kv |-> k.kv]

Ids == 1 .. MaxTag
Inodes == 1 .. MaxInode

VARIABLES
    tags,      \* [TagNames -> tag_id of the row, 0 without one]
    tagSeq,    \* last tag_id assigned
    objects,   \* [Inodes -> objects.objectname, NoName without a row]
    target,    \* [Inodes -> objects.symlink]
    inodeSeq,  \* last inode assigned
    tagging,   \* {<<inode, tag_id>>}
    relations, \* {<<tag1_id, tag2_id>>}: one kind of relation is enough here
    saved,     \* the tables when the transaction began
    cache,     \* tagsistant_tag_cache: [TagNames -> tag_id, 0 if absent]
    files,     \* {<<inode, name>>}: the files under archive/
    req,       \* the request in progress
    pc,        \* its step
    todo,      \* tags of the path still to be traversed
    ino,       \* qtree->inode, or check_inode in symlink()
    disk,      \* do_unlink, do_rmdir: the file has to be touched too
    ok,        \* res # -1
    lreq,      \* [Linkers -> the link() the thread is in, NoLink]
    lpc,       \* [Linkers -> its step]
    ltodo,     \* [Linkers -> tags of its path still to be traversed]
    lino,      \* [Linkers -> the inode it was given]
    crashes,   \* times the process was killed
    stray      \* history: inodes of link()s that failed or were killed half-way

linkVars == <<lreq, lpc, ltodo, lino>>
tables == <<tags, tagSeq, objects, target, inodeSeq, tagging, relations>>
vars == <<tags, tagSeq, objects, target, inodeSeq, tagging, relations, saved,
          cache, files, req, pc, todo, ino, disk, ok, lreq, lpc, ltodo, lino,
          crashes, stray>>

Tables == [tags |-> tags, tagSeq |-> tagSeq, objects |-> objects,
           target |-> target, inodeSeq |-> inodeSeq, tagging |-> tagging,
           relations |-> relations]

Steps == {"idle", "symlink", "insert", "retitle", "untag", "tag", "target",
          "check", "delete", "disk", "mktag", "rmtag", "mvtag", "relate", "unrelate", "end"}
LinkSteps == {"idle", "insert", "tag", "disk"}

NoLink == [tags |-> <<>>, name |-> NoName]

TypeOK ==
    /\ tags \in [TagNames -> 0 .. MaxTag] /\ tagSeq \in 0 .. MaxTag
    /\ objects \in [Inodes -> ObjNames \cup {NoName}]
    /\ target \in [Inodes -> Targets \cup {NoTarget}]
    /\ inodeSeq \in 0 .. MaxInode
    /\ tagging \subseteq Inodes \X Ids
    /\ relations \subseteq Ids \X Ids
    /\ cache \in [TagNames -> 0 .. MaxTag]
    /\ files \subseteq Inodes \X ObjNames
    /\ pc \in Steps
    /\ todo \in Seq(TagNames)
    /\ ino \in 0 .. MaxInode
    /\ disk \in BOOLEAN /\ ok \in BOOLEAN
    /\ lreq \in [Linkers -> Links \cup {NoLink}]
    /\ lpc \in [Linkers -> LinkSteps]
    /\ ltodo \in [Linkers -> Seq(TagNames)]
    /\ lino \in [Linkers -> 0 .. MaxInode]
    /\ crashes \in 0 .. MaxCrashes /\ stray \subseteq Inodes

NoRequest == [op |-> "none"]
Empty == [k \in TagNames |-> 0]

Init ==
    /\ tags = Empty /\ tagSeq = 0
    /\ objects = [i \in Inodes |-> NoName]
    /\ target = [i \in Inodes |-> NoTarget]
    /\ inodeSeq = 0
    /\ tagging = {} /\ relations = {}
    /\ saved = Tables
    /\ cache = Empty
    /\ files = {}
    /\ req = NoRequest /\ pc = "idle" /\ todo = <<>> /\ ino = 0
    /\ disk = FALSE /\ ok = TRUE
    /\ lreq = [l \in Linkers |-> NoLink] /\ lpc = [l \in Linkers |-> "idle"]
    /\ ltodo = [l \in Linkers |-> <<>>] /\ lino = [l \in Linkers |-> 0]
    /\ crashes = 0 /\ stray = {}

-----------------------------------------------------------------------------
(* sql.c                                                                   *)

\* tagsistant_sql_get_tag_id() with key and value given: the row of that name.
GetTagId(k) == IF cache[k] # 0 THEN cache[k] ELSE tags[k]

\* With NULL for them, any row of that tagname will do.
RowsNamed(k) == {tags[j] : j \in {j \in TagNames : j.ns = k.ns}} \ {0}

\* Whatever is found is cached.
Cached(k, id) == cache' = [cache EXCEPT ![k] = id]

\* getattr() or readdir() on the path of a tag.  They take the read lock, so
\* they run beside link() too.
Lookup(k) ==
    /\ pc = "idle"
    /\ cache[k] = 0
    /\ \E id \in IF k.kv = NoKV THEN RowsNamed(k) ELSE {tags[k]} \ {0} :
        Cached(k, id)
    /\ UNCHANGED <<tables, saved, files, req, pc, todo, ino, disk, ok, linkVars,
                   crashes, stray>>

\* tagsistant_sql_create_tag(): a duplicate is refused by Tag_key.
CreateTag(k) ==
    IF tags[k] = 0
    THEN tags' = [tags EXCEPT ![k] = tagSeq + 1] /\ tagSeq' = tagSeq + 1
    ELSE UNCHANGED <<tags, tagSeq>>

\* The id a tag has once it has been looked up and, failing that, created.
FoundOrCreated(k) == IF GetTagId(k) # 0 THEN GetTagId(k) ELSE tagSeq + 1

-----------------------------------------------------------------------------
(* tagsistant_querytree_new(): the tags of the path are looked up, then    *)
(* the object that carries all of them.                                    *)

TagSet(ts) == {ts[n] : n \in DOMAIN ts}

Parsed(ts) == [k \in TagNames |-> IF k \in TagSet(ts) THEN GetTagId(k) ELSE cache[k]]

Named(n) == {i \in Inodes : objects[i] = n}
NamedAs(n, id) == {i \in Named(n) : <<i, id>> \in tagging}

\* tagsistant_guess_inode_from_and_set(): each tag proposes an object of that
\* name (the last row the database returns); they have to agree.
Guess(ts, n) ==
    LET proposed(k) == NamedAs(n, GetTagId(k))
        agreed == {i \in Inodes : \A k \in TagSet(ts) : i \in proposed(k)}
    IN IF ts = <<>> THEN {0}
       ELSE agreed \cup
            (IF agreed # {} /\ \A k \in TagSet(ts) : proposed(k) \subseteq agreed
                            /\ Cardinality(agreed) = 1 THEN {} ELSE {0})

\* store/ALL/@/name: the name alone decides.
GuessAll(n) == IF Named(n) = {} THEN {0} ELSE Named(n)

Creates == {"mknod", "symlink"}

\* The fields of a request.  A path to an object to be removed or moved names
\* a tag, or it is below store/ALL/.
WellFormed(r) ==
    /\ r.op \in Creates \cup {"unlink", "unlinkAll", "rename", "mktag", "rmtag", "mvtag",
                              "relate", "unrelate"}
    /\ r.tags \in Seq(TagNames)
    /\ r.op \in Creates \cup {"unlink", "unlinkAll", "rename"} => r.name \in ObjNames
    /\ r.op = "symlink" => r.target \in Targets
    /\ r.op \in {"unlink", "rename", "rmtag"} => r.tags # <<>>
    /\ r.op = "rename" => r.toTags \in Seq(TagNames) \ {<<>>} /\ r.toName \in ObjNames
    /\ r.op \in {"mktag", "mvtag"} => Len(r.tags) = 1
    /\ r.op = "mvtag" => /\ r.to \in TagNames
                         /\ \A j \in TagNames : j.ns = r.to.ns =>
                               [j EXCEPT !.ns = r.tags[1].ns] \in TagNames
    /\ r.op \in {"relate", "unrelate"} => Len(r.tags) = 2 /\ r.valid \in BOOLEAN
    /\ r.op = "relate" => r.whole \in BOOLEAN

ASSUME RequestsAssumption == \A r \in Requests : WellFormed(r)
ASSUME LinksAssumption ==
    \A r \in Links : r = [tags |-> r.tags, name |-> r.name]
                     /\ r.tags \in Seq(TagNames) /\ r.name \in ObjNames
ASSUME LookupsAssumption == Lookups \subseteq TagNames

\* The step each handler starts with.
First(op) ==
    CASE op = "mknod" -> "insert"
      [] op = "unlink" -> "untag"
      [] op = "unlinkAll" -> "delete"
      [] op = "rename" -> "retitle"
      [] OTHER -> op

\* The kernel walks a path with getattr() before it makes the call, so the tags
\* that lead to the object, or to the relation, have been found.
Walked(r) ==
    CASE r.op \in Creates \cup {"unlink"} -> TagSet(r.tags)
      [] r.op = "rename" -> TagSet(r.tags) \cup TagSet(r.toTags)
      [] r.op = "relate" -> {r.tags[1]}
      [] r.op = "unrelate" -> TagSet(r.tags)
      [] OTHER -> {}

\* What the kernel asks for, within the bounds on rows.
Admissible(r) ==
    /\ r.op \in Creates => inodeSeq < MaxInode
    /\ r.op \in Creates \cup {"mktag", "relate"} => tagSeq + Len(r.tags) <= MaxTag
    /\ r.op = "rename" => tagSeq + Len(r.toTags) <= MaxTag
    /\ Races \/ \A k \in Walked(r) : GetTagId(k) # 0

\* The request takes the write lock, so no link() is in progress.  mkdir(),
\* rmdir() and rename() of a tag look nothing up before they start: the kernel's
\* getattr() did.
Start(r) ==
    /\ pc = "idle" /\ (\A l \in Linkers : lpc[l] = "idle") /\ Admissible(r)
    /\ req' = r /\ saved' = Tables /\ todo' = r.tags
    /\ disk' = TRUE /\ ok' = TRUE
    /\ IF r.op \in Creates \cup {"unlink", "unlinkAll", "rename"}
       THEN /\ cache' = Parsed(r.tags)
            /\ ino' \in CASE r.op \in Creates -> {0}  \* a new one is assigned
                          [] r.op = "unlinkAll" -> GuessAll(r.name)
                          [] OTHER -> Guess(r.tags, r.name)
       ELSE ino' = 0 /\ UNCHANGED cache
    /\ pc' = First(r.op)
    /\ UNCHANGED <<tables, files, linkVars, crashes, stray>>

-----------------------------------------------------------------------------
(* Objects                                                                 *)

requestRest == <<saved, req, lreq, lpc, ltodo, lino, crashes, stray>>

\* What follows the loop over the tags of the path: symlink() records the
\* target of a new link, an existing one needs nothing more.
AfterTags == IF ~disk THEN "end" ELSE IF req.op = "symlink" THEN "target" ELSE "disk"

\* tagsistant_inner_create_and_tag_object(): insert into objects.
InsertObject ==
    /\ inodeSeq' = inodeSeq + 1
    /\ objects' = [objects EXCEPT ![inodeSeq + 1] = req.name]
    /\ ino' = inodeSeq + 1
    /\ todo' = req.tags
    /\ pc' = IF req.tags = <<>> THEN AfterTags ELSE "tag"
    /\ UNCHANGED <<tags, tagSeq, target, tagging, relations, requestRest, cache,
                   files, disk, ok>>

Insert == pc = "insert" /\ InsertObject

\* symlink(): an object that already points there is tagged instead.
SymlinkNew ==
    /\ pc = "symlink"
    /\ \A i \in Inodes : objects[i] # NoName => target[i] # req.target
    /\ InsertObject

SymlinkKnown ==
    /\ pc = "symlink"
    /\ \E i \in Inodes : /\ objects[i] # NoName /\ target[i] = req.target
                         /\ ino' = i
    /\ disk' = FALSE
    /\ todo' = req.tags
    /\ pc' = IF req.tags = <<>> THEN "end" ELSE "tag"
    /\ UNCHANGED <<tables, requestRest, cache, files, ok>>

\* tagsistant_sql_tag_object() on the next tag of the path.
TagObject ==
    LET k == Head(todo)
        id == FoundOrCreated(k)
    IN
    /\ pc = "tag"
    /\ IF GetTagId(k) = 0 THEN CreateTag(k) ELSE UNCHANGED <<tags, tagSeq>>
    /\ Cached(k, id)
    /\ tagging' = tagging \cup {<<ino, id>>}
    /\ todo' = Tail(todo)
    /\ pc' = IF Tail(todo) = <<>> THEN AfterTags ELSE "tag"
    /\ UNCHANGED <<objects, target, inodeSeq, relations, requestRest, files, ino,
                   disk, ok>>

\* update objects set symlink = target where inode = ino
SetTarget ==
    /\ pc = "target"
    /\ target' = [target EXCEPT ![ino] = req.target]
    /\ pc' = "disk"
    /\ UNCHANGED <<tags, tagSeq, objects, inodeSeq, tagging, relations,
                   requestRest, cache, files, todo, ino, disk, ok>>

\* tagsistant_sql_untag_object() on the next tag of the path.
UntagObject ==
    LET id == GetTagId(Head(todo))
        more == Tail(todo) # <<>>
    IN
    /\ pc = "untag"
    /\ Cached(Head(todo), id)
    /\ tagging' = tagging \ {<<ino, id>>}
    /\ todo' = IF ~more /\ req.op = "rename" THEN req.toTags ELSE Tail(todo)
    /\ pc' = IF more THEN "untag" ELSE IF req.op = "rename" THEN "tag" ELSE "check"
    /\ UNCHANGED <<tags, tagSeq, objects, target, inodeSeq, relations,
                   requestRest, files, ino, disk, ok>>

Drop(i) ==
    /\ objects' = [j \in Inodes |-> IF j = i THEN NoName ELSE objects[j]]
    /\ target' = [j \in Inodes |-> IF j = i THEN NoTarget ELSE target[j]]

\* Mutant: the object goes whatever tags are left.
CheckNothing ==
    /\ pc = "check"
    /\ Drop(ino)
    /\ pc' = "disk"
    /\ UNCHANGED <<tags, tagSeq, inodeSeq, tagging, relations, requestRest,
                   cache, files, todo, ino, disk, ok>>

\* tagsistant_object_is_tagged()
IsTagged(i) == \E id \in Ids : <<i, id>> \in tagging

\* unlink() and rmdir(): an object still tagged elsewhere survives.
CheckTagged ==
    /\ pc = "check"
    /\ IF IsTagged(ino)
       THEN disk' = FALSE /\ pc' = "end" /\ UNCHANGED <<objects, target>>
       ELSE Drop(ino) /\ pc' = "disk" /\ UNCHANGED disk
    /\ UNCHANGED <<tags, tagSeq, inodeSeq, tagging, relations, requestRest,
                   cache, files, todo, ino, ok>>

\* tagsistant_full_untag_object()
FullUntag(i) == tagging' = {e \in tagging : e[1] # i}

\* unlink() below store/ALL/: the object goes with all its tags, by two deletes
\* in the one transaction.
DeleteObject ==
    /\ pc = "delete"
    /\ Drop(ino)
    /\ FullUntag(ino)
    /\ pc' = "disk"
    /\ UNCHANGED <<tags, tagSeq, inodeSeq, relations, requestRest, cache, files,
                   todo, ino, disk, ok>>

\* Mutant: a source that was not found is renamed and tagged all the same.
RenameUnchecked ==
    /\ pc = "retitle"
    /\ objects' = [i \in Inodes |-> IF i = ino THEN req.toName ELSE objects[i]]
    /\ pc' = "untag"
    /\ UNCHANGED <<tags, tagSeq, target, inodeSeq, tagging, relations,
                   requestRest, cache, files, todo, ino, disk, ok>>

\* rename(): the destination is never resolved (its query tree has no
\* connection), so two unresolved paths are taken for the same object.
RenameObject ==
    /\ pc = "retitle"
    /\ IF ino = 0
       THEN pc' = "end" /\ UNCHANGED objects
       ELSE pc' = "untag" /\ objects' = [objects EXCEPT ![ino] = req.toName]
    /\ UNCHANGED <<tags, tagSeq, target, inodeSeq, tagging, relations,
                   requestRest, cache, files, todo, ino, disk, ok>>

-----------------------------------------------------------------------------
(* The archive: one system call on <inode>___<name>.                       *)

File == <<ino, req.name>>

\* EEXIST on one side, ENOENT on the other.
DiskPossible == IF req.op \in Creates THEN File \notin files ELSE File \in files

DiskDone ==
    /\ pc = "disk" /\ DiskPossible
    /\ files' = CASE req.op \in Creates -> files \cup {File}
                  [] req.op = "rename" -> (files \ {File}) \cup {<<ino, req.toName>>}
                  [] OTHER -> files \ {File}
    /\ pc' = "end"
    /\ UNCHANGED <<tables, requestRest, cache, todo, ino, disk, ok>>

\* Mutant: the result of the system call is not looked at.
DiskFailedIgnored ==
    /\ pc = "disk" /\ (DiskFails \/ ~DiskPossible)
    /\ pc' = "end"
    /\ UNCHANGED <<tables, requestRest, cache, files, todo, ino, disk, ok>>

DiskFailed ==
    /\ pc = "disk" /\ (DiskFails \/ ~DiskPossible)
    /\ ok' = FALSE
    /\ pc' = "end"
    /\ UNCHANGED <<tables, requestRest, cache, files, todo, ino, disk>>

-----------------------------------------------------------------------------
(* Tags and relations                                                      *)

\* What tagsistant_querytree_parse_tags() and _parse_relations() leave in the
\* query tree: the tag a tags/ path names, and the two a relation is between,
\* flat or triple.
NamedTag == req.tags[1]
LeftTag == req.tags[1]
RightTag == req.tags[2]

\* mkdir() of a tag.
MakeTag ==
    /\ pc = "mktag"
    /\ CreateTag(NamedTag)
    /\ pc' = "end"
    /\ UNCHANGED <<objects, target, inodeSeq, tagging, relations, requestRest,
                   cache, files, todo, ino, disk, ok>>

\* Mutant: the cache entry of a removed tag stays.
DeleteTagStaleCache ==
    LET id == GetTagId(Head(todo)) IN
    /\ pc = "rmtag"
    /\ tags' = [tags EXCEPT ![Head(todo)] = 0]
    /\ tagging' = {e \in tagging : e[2] # id}
    /\ relations' = {e \in relations : id \notin {e[1], e[2]}}
    /\ todo' = Tail(todo)
    /\ pc' = IF Tail(todo) = <<>> THEN "end" ELSE "rmtag"
    /\ UNCHANGED <<tagSeq, objects, target, inodeSeq, requestRest, cache, files,
                   ino, disk, ok>>

\* Mutant: the objects keep the id of a removed tag.
DeleteTagRowOnly ==
    LET id == GetTagId(Head(todo)) IN
    /\ pc = "rmtag"
    /\ Cached(Head(todo), 0)
    /\ tags' = [tags EXCEPT ![Head(todo)] = 0]
    /\ relations' = {e \in relations : id \notin {e[1], e[2]}}
    /\ todo' = Tail(todo)
    /\ pc' = IF Tail(todo) = <<>> THEN "end" ELSE "rmtag"
    /\ UNCHANGED <<tagSeq, objects, target, inodeSeq, tagging, requestRest,
                   files, ino, disk, ok>>

\* rmdir(): tagsistant_sql_delete_tag() on the next tag of the path.
DeleteTag ==
    LET k == Head(todo)
        id == GetTagId(k)
    IN
    /\ pc = "rmtag"
    /\ Cached(k, 0)
    /\ tags' = [tags EXCEPT ![k] = 0]
    /\ tagging' = {e \in tagging : e[2] # id}
    /\ relations' = {e \in relations : id \notin {e[1], e[2]}}
    /\ todo' = Tail(todo)
    /\ pc' = IF Tail(todo) = <<>> THEN "end" ELSE "rmtag"
    /\ UNCHANGED <<tagSeq, objects, target, inodeSeq, requestRest, files, ino,
                   disk, ok>>

\* rename() of store/from as store/to: every row of that tagname, flat tag or
\* namespace, unless Tag_key refuses one of them.  One cache entry is dropped.
\* (Below tags/ the same statement is given last_tag, which only store/ paths
\* set: it names no tag and is left out.)
RenameTag ==
    LET from == NamedTag
        to == req.to
        was(j) == [j EXCEPT !.ns = from.ns]
        moves == {j \in TagNames : j.ns = to.ns /\ tags[was(j)] # 0}
    IN
    /\ pc = "mvtag"
    /\ tags' = IF \E j \in moves : tags[j] # 0
               THEN tags
               ELSE [j \in TagNames |->
                        IF j \in moves THEN tags[was(j)]
                        ELSE IF j.ns = from.ns THEN 0 ELSE tags[j]]
    /\ Cached(from, 0)
    /\ pc' = "end"
    /\ UNCHANGED <<tagSeq, objects, target, inodeSeq, tagging, relations,
                   requestRest, files, todo, ino, disk, ok>>

\* mkdir() below relations/: the second tag is created if need be, then the
\* relation is checked; RELATION_PATTERN lets more pass than IS_VALID_RELATION.
\* A triple tag that lacks its key or its value is made, and not related.
Relate ==
    LET k1 == LeftTag
        k2 == RightTag
        id1 == GetTagId(k1)
        id2 == FoundOrCreated(k2)
    IN
    /\ pc = "relate"
    /\ IF GetTagId(k2) = 0 THEN CreateTag(k2) ELSE UNCHANGED <<tags, tagSeq>>
    /\ cache' = [cache EXCEPT ![k1] = id1, ![k2] = id2]
    /\ IF id1 # 0 /\ req.valid
       THEN /\ relations' = IF req.whole THEN relations \cup {<<id1, id2>>} ELSE relations
            /\ UNCHANGED ok
       ELSE ok' = FALSE /\ UNCHANGED relations
    /\ pc' = "end"
    /\ UNCHANGED <<objects, target, inodeSeq, tagging, requestRest, files, todo,
                   ino, disk>>

\* rmdir() below relations/
Unrelate ==
    LET id1 == GetTagId(LeftTag)
        id2 == GetTagId(RightTag)
    IN
    /\ pc = "unrelate"
    /\ cache' = Parsed(req.tags)
    /\ IF 0 \notin {id1, id2} /\ req.valid
       THEN relations' = relations \ {<<id1, id2>>} /\ UNCHANGED ok
       ELSE ok' = FALSE /\ UNCHANGED relations
    /\ pc' = "end"
    /\ UNCHANGED <<tags, tagSeq, objects, target, inodeSeq, tagging, requestRest,
                   files, todo, ino, disk>>

-----------------------------------------------------------------------------
(* tagsistant_querytree_destroy()                                          *)

\* Mutant: a transaction that is not undone.
RestoreNothing(s) == UNCHANGED tables

Restore(s) ==
    /\ tags' = s.tags /\ tagSeq' = s.tagSeq
    /\ objects' = s.objects /\ target' = s.target /\ inodeSeq' = s.inodeSeq
    /\ tagging' = s.tagging /\ relations' = s.relations

Forget == /\ req' = NoRequest /\ pc' = "idle" /\ todo' = <<>> /\ ino' = 0
          /\ disk' = FALSE /\ ok' = TRUE

Commit ==
    /\ pc = "end" /\ ok
    /\ saved' = Tables
    /\ Forget
    /\ UNCHANGED <<tables, cache, files, linkVars, crashes, stray>>

Rollback ==
    /\ pc = "end" /\ ~ok
    /\ Restore(saved)
    /\ Forget
    /\ UNCHANGED <<saved, cache, files, linkVars, crashes, stray>>

-----------------------------------------------------------------------------
(* link(): no transaction, the read lock                                   *)

linkRest == <<req, pc, todo, ino, disk, ok, crashes>>

\* A request of its own in every thread, while no transaction is open.  Within
\* the bounds: each link() in progress finds room for its object.
LinkStart(l, r) ==
    /\ pc = "idle" /\ lpc[l] = "idle"
    /\ inodeSeq + Cardinality({m \in Linkers : lpc[m] = "insert"}) < MaxInode
    /\ Races \/ \A k \in TagSet(r.tags) : GetTagId(k) # 0
    /\ cache' = Parsed(r.tags)
    /\ lreq' = [lreq EXCEPT ![l] = r]
    /\ ltodo' = [ltodo EXCEPT ![l] = r.tags]
    /\ lpc' = [lpc EXCEPT ![l] = "insert"]
    /\ UNCHANGED <<tables, saved, files, lino, linkRest, stray>>

\* tagsistant_force_create_and_tag_object(): each statement stands by itself.
LinkInsert(l) ==
    /\ lpc[l] = "insert" /\ inodeSeq < MaxInode
    /\ inodeSeq' = inodeSeq + 1
    /\ objects' = [objects EXCEPT ![inodeSeq + 1] = lreq[l].name]
    /\ lino' = [lino EXCEPT ![l] = inodeSeq + 1]
    /\ lpc' = [lpc EXCEPT ![l] = IF ltodo[l] = <<>> THEN "disk" ELSE "tag"]
    /\ saved' = [Tables EXCEPT !.objects = objects', !.inodeSeq = inodeSeq']
    /\ UNCHANGED <<tags, tagSeq, target, tagging, relations, cache, files, lreq, ltodo,
                   linkRest, stray>>

LinkTag(l) ==
    LET k == Head(ltodo[l])
        id == FoundOrCreated(k)
    IN
    /\ lpc[l] = "tag" /\ (GetTagId(k) # 0 \/ tagSeq < MaxTag)
    /\ IF GetTagId(k) = 0 THEN CreateTag(k) ELSE UNCHANGED <<tags, tagSeq>>
    /\ Cached(k, id)
    /\ tagging' = tagging \cup {<<lino[l], id>>}
    /\ ltodo' = [ltodo EXCEPT ![l] = Tail(@)]
    /\ lpc' = [lpc EXCEPT ![l] = IF Tail(ltodo[l]) = <<>> THEN "disk" ELSE "tag"]
    /\ saved' = [Tables EXCEPT !.tags = tags', !.tagSeq = tagSeq', !.tagging = tagging']
    /\ UNCHANGED <<objects, target, inodeSeq, relations, files, lreq, lino, linkRest, stray>>

LinkForget(l) == /\ lreq' = [lreq EXCEPT ![l] = NoLink] /\ lpc' = [lpc EXCEPT ![l] = "idle"]
                 /\ ltodo' = [ltodo EXCEPT ![l] = <<>>] /\ lino' = [lino EXCEPT ![l] = 0]

\* link(2), under a name that no other file has.
LinkDone(l) ==
    /\ lpc[l] = "disk"
    /\ files' = files \cup {<<lino[l], lreq[l].name>>}
    /\ LinkForget(l)
    /\ UNCHANGED <<tables, saved, cache, linkRest, stray>>

\* If it fails, the rows stay.
LinkFailed(l) ==
    /\ lpc[l] = "disk" /\ DiskFails
    /\ stray' = stray \cup {lino[l]}
    /\ LinkForget(l)
    /\ UNCHANGED <<tables, saved, cache, files, linkRest>>

LinkStep(l) == \/ \E r \in Links : LinkStart(l, r)
               \/ LinkInsert(l) \/ LinkTag(l) \/ LinkDone(l) \/ LinkFailed(l)

\* The objects of link()s in progress.
Linking == {lino[l] : l \in {m \in Linkers : lpc[m] \in {"tag", "disk"}}}

-----------------------------------------------------------------------------
\* The process is killed and mounted again: the database rolls back, the
\* cache starts empty, the archive is as it was left, and so is what the
\* link()s in progress had done.
Crash ==
    /\ pc # "idle" \/ \E l \in Linkers : lpc[l] # "idle"
    /\ crashes < MaxCrashes
    /\ crashes' = crashes + 1
    /\ Restore(saved)
    /\ cache' = Empty
    /\ Forget
    /\ lreq' = [l \in Linkers |-> NoLink] /\ lpc' = [l \in Linkers |-> "idle"]
    /\ ltodo' = [l \in Linkers |-> <<>>] /\ lino' = [l \in Linkers |-> 0]
    /\ stray' = stray \cup Linking
    /\ UNCHANGED <<saved, files>>

Object == \/ Insert \/ SymlinkNew \/ SymlinkKnown \/ TagObject \/ SetTarget
          \/ UntagObject \/ CheckTagged \/ DeleteObject \/ RenameObject
          \/ DiskDone \/ DiskFailed
Tag == MakeTag \/ DeleteTag \/ RenameTag \/ Relate \/ Unrelate
Destroy == Commit \/ Rollback

Next == \/ \E r \in Requests : Start(r)
        \/ \E k \in Lookups : Lookup(k)
        \/ Object \/ Tag \/ Destroy
        \/ \E l \in Linkers : LinkStep(l)
        \/ Crash

Spec == Init /\ [][Next]_vars

-----------------------------------------------------------------------------
(* Properties                                                              *)

\* No row of the tagging table outlives the object it tags, whatever fails
\* and wherever the process is killed.
TaggedObjectsExist == \A e \in tagging : objects[e[1]] # NoName

\* sql.c promises that a cached tag_id is the one the tags table would return
\* (ChangeLog:54 "fixed tag_id caching").
CacheCoherent == \A k \in TagNames : cache[k] # 0 => cache[k] = tags[k]

LiveIds == {tags[k] : k \in TagNames} \ {0}

\* An object is only ever tagged, and a tag only ever related, by a tag that
\* exists: no object is found under an id that will mean something else later.
IdsAreLive == /\ \A e \in tagging : e[2] \in LiveIds
              /\ \A e \in relations : {e[1], e[2]} \subseteq LiveIds

Rows == {<<i, objects[i]>> : i \in {j \in Inodes : objects[j] # NoName}}

\* Between requests every object has its file, under its own name, and every
\* file its object, system calls that fail included.  A kill damages one object
\* at most, besides those of the link()s it stops half-way, and a link() that
\* fails only the one it made; no later request spreads the damage.
CrashDamage ==
    pc = "idle" =>
        LET damaged == {e[1] : e \in (files \ Rows) \cup (Rows \ files)}
        IN Cardinality(damaged \ (stray \cup Linking)) <= crashes

\* test_suite.pl:131-132: a file deleted under one tag is "still available in
\* the other": unlink() only drops an object all of whose tags, when the
\* request began, were in the path.
UnlinkSparesTagged ==
    (pc = "disk" /\ req.op = "unlink" /\ ino # 0) =>
        \A k \in TagNames :
            (saved.tags[k] # 0 /\ <<ino, saved.tags[k]>> \in saved.tagging)
                => k \in TagSet(req.tags)

TagsIn(t, g, i) == {k \in TagNames : t[k] # 0 /\ <<i, t[k]>> \in g}

NameOf(id) == CHOOSE k \in TagNames : saved.tags[k] = id

Promise == INSTANCE Store WITH
    known <- {k \in TagNames : saved.tags[k] # 0},
    name <- saved.objects,
    points <- saved.target,
    tagged <- [i \in Inodes |-> TagsIn(saved.tags, saved.tagging, i)],
    related <- {<<NameOf(e[1]), NameOf(e[2])>> : e \in saved.relations}

\* The catalogue implements Store: whatever fails and wherever the process is
\* killed, what the database keeps of a request is all of it or nothing, on
\* the object and the tags its path names, although the statements go by ids,
\* many of which the cache supplies; a link() is kept piece by piece.  Moving
\* a file will "untag the file with all the tag contained in original path and
\* tag it with all the tags contained in the destination path"
\* (test_suite.pl:108-111); of a new link to a path "the tags of the new one
\* are applied to the existing object" (ChangeLog:161-163).
RequestsAreAtomic == Promise!Spec
=============================================================================
