---------------------------- MODULE CatalogProofs ----------------------------
(***************************************************************************)
(* Proofs about Catalog, for any tags, objects and requests and any number *)
(* of failures and kills: what holds whatever is asked (types, no tag on   *)
(* an object that is gone, what a kill can damage), and what holds of the  *)
(* ids and their cache where tags go by their full names (Plain).  Under   *)
(* Plain, too, Catalog implements Store: what the database keeps of a      *)
(* request is all of it or nothing, by the names in its path.              *)
(***************************************************************************)
EXTENDS Catalog, SequenceTheorems, FiniteSetTheorems, TLAPS

-----------------------------------------------------------------------------
(* The inductive invariant, whatever is asked                              *)

\* What the database never contains: a tag on an object that is gone, an
\* object numbered beyond the counter, a target without its object.
TablesOK(s) ==
    /\ s.tags \in [TagNames -> 0 .. MaxTag] /\ s.tagSeq \in 0 .. MaxTag
    /\ s.objects \in [Inodes -> ObjNames \cup {NoName}]
    /\ s.target \in [Inodes -> Targets \cup {NoTarget}]
    /\ s.inodeSeq \in 0 .. MaxInode
    /\ s.tagging \subseteq Inodes \X Ids
    /\ s.relations \subseteq Ids \X Ids
    /\ \A e \in s.tagging : s.objects[e[1]] # NoName
    /\ \A i \in Inodes : s.objects[i] # NoName => i <= s.inodeSeq
    /\ \A i \in Inodes : s.objects[i] = NoName => s.target[i] = NoTarget

\* So do the tables a transaction would go back to.
SavedInv ==
    /\ saved = [tags |-> saved.tags, tagSeq |-> saved.tagSeq, objects |-> saved.objects,
                target |-> saved.target, inodeSeq |-> saved.inodeSeq,
                tagging |-> saved.tagging, relations |-> saved.relations]
    /\ TablesOK(saved)
    /\ pc = "idle" => saved = Tables

\* The handlers that come to each step.
StepsOf(op) ==
    CASE op = "mknod" -> {"insert", "tag", "disk", "end"}
      [] op = "symlink" -> {"symlink", "tag", "target", "disk", "end"}
      [] op = "unlink" -> {"untag", "check", "disk", "end"}
      [] op = "unlinkAll" -> {"delete", "disk", "end"}
      [] op = "rename" -> {"retitle", "untag", "tag", "disk", "end"}
      [] op = "none" -> {"idle"}
      [] OTHER -> {op, "end"}

\* The request in progress, and the room the bounds leave for its rows.
RequestInv ==
    /\ req = NoRequest \/ req \in Requests
    /\ pc \in StepsOf(req.op)
    /\ pc # "end" => ok
    /\ pc \in {"retitle", "tag", "untag", "rmtag"} => todo # <<>>
    /\ pc \in {"tag", "target"} \/ (pc = "untag" /\ req.op = "rename") =>
            ino \in Inodes /\ objects[ino] # NoName
    /\ pc \in {"insert", "symlink"} => inodeSeq < MaxInode
    /\ pc \in {"insert", "symlink", "mktag", "relate"} => tagSeq + Len(req.tags) <= MaxTag
    /\ pc = "tag" => tagSeq + Len(todo) <= MaxTag
    /\ pc \in {"retitle", "untag"} /\ req.op = "rename" => tagSeq + Len(req.toTags) <= MaxTag

\* link()s run while no transaction is open, each on an object of its own.
LinkInv ==
    /\ pc # "idle" => \A l \in Linkers : lpc[l] = "idle"
    /\ \A l \in Linkers : lpc[l] # "idle" => lreq[l] \in Links
    /\ \A l \in Linkers : lpc[l] = "tag" => ltodo[l] # <<>>
    /\ \A l \in Linkers : lpc[l] # "idle" => TagSet(ltodo[l]) \subseteq TagSet(lreq[l].tags)
    /\ \A l \in Linkers : lpc[l] \in {"tag", "disk"} =>
            lino[l] \in Inodes /\ objects[lino[l]] = lreq[l].name
    /\ \A l, m \in Linkers : lpc[l] \in {"tag", "disk"} /\ lpc[m] \in {"tag", "disk"}
                                /\ lino[l] = lino[m] => l = m

\* What the object in hand was when the request began, and is now.
ObjectInv ==
    /\ \A i \in Inodes : i # ino => objects[i] = saved.objects[i]
    /\ pc \in {"insert", "symlink"} => ino = 0
    /\ pc \in {"insert", "symlink", "target", "untag", "check", "delete", "disk"}
            \/ req.op = "rename" => disk
    /\ req.op \in Creates /\ pc \notin {"insert", "symlink"} /\ disk =>
            /\ ino \in Inodes /\ saved.objects[ino] = NoName
            /\ objects[ino] = req.name
    /\ req.op \in {"unlink", "unlinkAll", "rename"} /\ ino # 0 =>
            saved.objects[ino] = req.name
    /\ req.op = "rename" /\ pc \in {"untag", "tag", "disk"} =>
            ino # 0 /\ objects[ino] = req.toName
    /\ req.op \in {"unlink", "unlinkAll"} /\ ino # 0 /\ pc = "disk" =>
            objects[ino] = NoName
    /\ pc \in {"insert", "symlink", "retitle", "check", "delete"}
            \/ (pc = "untag" /\ req.op = "unlink") => objects = saved.objects
    /\ ~disk \/ req.op \notin Creates \cup {"unlink", "unlinkAll", "rename"} =>
            objects = saved.objects

\* The objects whose row and file do not agree, link()s that stopped half-way
\* left out; one in progress has no file yet.
Expected(objs, i) == IF objs[i] = NoName \/ i \in Linking THEN {} ELSE {objs[i]}

Damaged(objs) ==
    {i \in Inodes \ stray : {n \in ObjNames : <<i, n>> \in files} # Expected(objs, i)}

\* Up to the system call on the archive the damage is that of the tables the
\* request began with; after it, that of the tables it will commit.
DamageInv ==
    IF pc = "end" /\ ok
    THEN /\ Cardinality(Damaged(objects)) <= crashes
         /\ Damaged(saved.objects) \ {ino} \subseteq Damaged(objects)
    ELSE Cardinality(Damaged(saved.objects)) <= crashes

BaseInv == TypeOK /\ TablesOK(Tables) /\ SavedInv /\ RequestInv /\ LinkInv /\ ObjectInv

-----------------------------------------------------------------------------
(* The inductive invariant on ids                                          *)

\* The name of a tag is all there is to it: no other row shares its tagname.
Unambiguous(k) == \A j \in TagNames : j.ns = k.ns => j = k

\* Bare tagnames are looked up, and renamed, only where they are not also
\* namespaces, relations are spelt right, and no tag is removed between the
\* kernel's lookup and the call.
Plain ==
    /\ ~Races
    /\ \A k \in Lookups : k.kv = NoKV => Unambiguous(k)
    /\ \A r \in Requests :
            /\ r.op = "relate" => r.valid
            /\ r.op = "mvtag" => Unambiguous(r.tags[1]) /\ Unambiguous(r.to)

\* Ids in use name one row each.
IdsOK(s) ==
    /\ \A j, k \in TagNames : s.tags[j] = s.tags[k] /\ s.tags[j] # 0 => j = k
    /\ \A k \in TagNames : s.tags[k] <= s.tagSeq
    /\ LET live == {s.tags[k] : k \in TagNames} \ {0}
       IN /\ \A e \in s.tagging : e[2] \in live
          /\ \A e \in s.relations : e[1] \in live /\ e[2] \in live

\* The tags of the path exist from the start, so that a request that can fail
\* creates none, and going back changes nothing the cache holds.
KeepsTags ==
    /\ req.op \in Creates \cup {"unlink", "unlinkAll", "rename", "unrelate"} => tags = saved.tags
    /\ pc # "idle" /\ req.op \in Creates \cup {"unlink", "rename"} =>
            /\ \A k \in TagSet(req.tags) : tags[k] # 0
            /\ \A k \in TagSet(todo) : tags[k] # 0
    /\ pc # "idle" /\ req.op = "rename" => \A k \in TagSet(req.toTags) : tags[k] # 0
    /\ pc = "relate" => tags[req.tags[1]] # 0
    /\ pc = "end" /\ ~ok => tags = saved.tags

IdInv == IdsOK(Tables) /\ IdsOK(saved) /\ CacheCoherent /\ KeepsTags

-----------------------------------------------------------------------------
(* Requests and paths                                                      *)

\* The next tag of a path and those after it.
LEMMA NextTag ==
  ASSUME NEW ts \in Seq(TagNames), ts # <<>>
  PROVE  /\ Head(ts) \in TagNames /\ Tail(ts) \in Seq(TagNames)
         /\ Len(ts) \in Nat /\ Len(ts) >= 1 /\ Len(Tail(ts)) = Len(ts) - 1
         /\ TagSet(ts) = {Head(ts)} \cup TagSet(Tail(ts))
         /\ Tail(ts) = <<>> => TagSet(Tail(ts)) = {}
  <1>1. /\ Head(ts) \in TagNames /\ Tail(ts) \in Seq(TagNames) /\ Head(ts) = ts[1]
        /\ Len(Tail(ts)) = Len(ts) - 1
        /\ \A i \in 1 .. Len(Tail(ts)) : Tail(ts)[i] = ts[i + 1]
    BY HeadTailProperties
  <1>2. Len(ts) \in Nat /\ Len(ts) >= 1 /\ DOMAIN ts = 1 .. Len(ts)
    BY EmptySeq, LenProperties
  <1>3. DOMAIN Tail(ts) = 1 .. (Len(ts) - 1)
    BY <1>1, LenProperties
  <1>4. TagSet(ts) \subseteq {Head(ts)} \cup TagSet(Tail(ts))
    <2> SUFFICES ASSUME NEW n \in 1 .. Len(ts), n # 1 PROVE ts[n] \in TagSet(Tail(ts))
      BY <1>1, <1>2 DEF TagSet
    <2>1. n - 1 \in DOMAIN Tail(ts) /\ Tail(ts)[n - 1] = ts[n]
      BY <1>1, <1>2, <1>3
    <2> QED  BY <2>1 DEF TagSet
  <1>5. {Head(ts)} \cup TagSet(Tail(ts)) \subseteq TagSet(ts)
    <2>1. 1 \in DOMAIN ts
      BY <1>2
    <2>2. \A n \in DOMAIN Tail(ts) : n + 1 \in DOMAIN ts /\ Tail(ts)[n] = ts[n + 1]
      BY <1>1, <1>2, <1>3
    <2> QED  BY <1>1, <2>1, <2>2 DEF TagSet
  <1>6. Tail(ts) = <<>> => DOMAIN Tail(ts) = {}
    OBVIOUS
  <1> QED  BY <1>1, <1>2, <1>4, <1>5, <1>6 DEF TagSet

\* A path consists of tags; an empty one of none.
LEMMA PathTags ==
  ASSUME NEW ts \in Seq(TagNames)
  PROVE  /\ Len(ts) \in Nat /\ TagSet(ts) \subseteq TagNames
         /\ \A n \in 1 .. Len(ts) : ts[n] \in TagNames /\ ts[n] \in TagSet(ts)
         /\ ts = <<>> => TagSet(ts) = {}
  <1>1. Len(ts) \in Nat /\ DOMAIN ts = 1 .. Len(ts) /\ \A n \in 1 .. Len(ts) : ts[n] \in TagNames
    BY LenProperties, ElementOfSeq
  <1>2. ts = <<>> => DOMAIN ts = {}
    OBVIOUS
  <1> QED  BY <1>1, <1>2 DEF TagSet

\* While a request is in progress it is one of those asked for, and its step
\* says which.
LEMMA RequestFacts ==
  ASSUME RequestInv, pc # "idle"
  PROVE  /\ req \in Requests /\ WellFormed(req)
         /\ pc = "insert" => req.op = "mknod"
         /\ pc = "symlink" => req.op = "symlink"
         /\ pc = "tag" => req.op \in Creates \cup {"rename"}
         /\ pc = "target" => req.op = "symlink"
         /\ pc = "untag" => req.op \in {"unlink", "rename"}
         /\ pc = "check" => req.op = "unlink"
         /\ pc = "delete" => req.op = "unlinkAll"
         /\ pc = "retitle" => req.op = "rename"
         /\ pc = "disk" => req.op \in Creates \cup {"unlink", "unlinkAll", "rename"}
         /\ pc \in {"mktag", "rmtag", "mvtag", "relate", "unrelate"} => req.op = pc
  <1>1. req \in Requests
    BY DEF RequestInv, NoRequest, StepsOf
  <1>2. WellFormed(req)
    BY <1>1, RequestsAssumption
  <1>3. \/ req.op = "mknod" \/ req.op = "symlink" \/ req.op = "unlink"
        \/ req.op = "unlinkAll" \/ req.op = "rename"
        \/ req.op \in {"mktag", "rmtag", "mvtag", "relate", "unrelate"}
    BY <1>2 DEF WellFormed, Creates
  <1>4. pc \in StepsOf(req.op)
    BY DEF RequestInv
  <1>5. CASE req.op = "mknod"
    <2>1. pc \in {"insert", "tag", "disk", "end"}
      BY <1>4, <1>5 DEF StepsOf
    <2> QED  BY <1>1, <1>2, <1>5, <2>1 DEF Creates
  <1>6. CASE req.op = "symlink"
    <2>1. pc \in {"symlink", "tag", "target", "disk", "end"}
      BY <1>4, <1>6 DEF StepsOf
    <2> QED  BY <1>1, <1>2, <1>6, <2>1 DEF Creates
  <1>7. CASE req.op = "unlink"
    <2>1. pc \in {"untag", "check", "disk", "end"}
      BY <1>4, <1>7 DEF StepsOf
    <2> QED  BY <1>1, <1>2, <1>7, <2>1
  <1>8. CASE req.op = "unlinkAll"
    <2>1. pc \in {"delete", "disk", "end"}
      BY <1>4, <1>8 DEF StepsOf
    <2> QED  BY <1>1, <1>2, <1>8, <2>1
  <1>9. CASE req.op = "rename"
    <2>1. pc \in {"retitle", "untag", "tag", "disk", "end"}
      BY <1>4, <1>9 DEF StepsOf
    <2> QED  BY <1>1, <1>2, <1>9, <2>1
  <1>10. CASE req.op \in {"mktag", "rmtag", "mvtag", "relate", "unrelate"}
    <2>1. pc \in {req.op, "end"}
      BY <1>4, <1>10 DEF StepsOf
    <2> QED  BY <1>1, <1>2, <1>10, <2>1
  <1> QED  BY <1>3, <1>5, <1>6, <1>7, <1>8, <1>9, <1>10

\* Ids come from the cache or the table.
LEMMA TagIdType ==
  ASSUME TypeOK, NEW k \in TagNames
  PROVE  GetTagId(k) \in 0 .. MaxTag
  BY DEF GetTagId, TypeOK

-----------------------------------------------------------------------------
(* Every step keeps the invariant                                          *)

\* The rows in terms of the variables.
LEMMA CurrentTables ==
  TablesOK(Tables) <=>
    /\ tags \in [TagNames -> 0 .. MaxTag] /\ tagSeq \in 0 .. MaxTag
    /\ objects \in [Inodes -> ObjNames \cup {NoName}]
    /\ target \in [Inodes -> Targets \cup {NoTarget}]
    /\ inodeSeq \in 0 .. MaxInode
    /\ tagging \subseteq Inodes \X Ids
    /\ relations \subseteq Ids \X Ids
    /\ \A e \in tagging : objects[e[1]] # NoName
    /\ \A i \in Inodes : objects[i] # NoName => i <= inodeSeq
    /\ \A i \in Inodes : objects[i] = NoName => target[i] = NoTarget
  BY DEF TablesOK, Tables

\* The same of the next state.
LEMMA NextTables ==
  ASSUME TypeOK',
         \A e \in tagging' : objects'[e[1]] # NoName,
         \A i \in Inodes : objects'[i] # NoName => i <= inodeSeq',
         \A i \in Inodes : objects'[i] = NoName => target'[i] = NoTarget
  PROVE  TablesOK(Tables)'
  BY DEF TypeOK, TablesOK, Tables

\* A step inside a request leaves the tables to go back to alone.
LEMMA SavedKept ==
  ASSUME SavedInv, saved' = saved, pc' # "idle"
  PROVE  SavedInv'
  BY DEF SavedInv, TablesOK

\* There is no link() in progress for it to disturb.
LEMMA LinkKept ==
  ASSUME LinkInv, pc # "idle", UNCHANGED <<lreq, lpc, ltodo, lino>>
  PROVE  LinkInv'
  BY DEF LinkInv

\* The new object is named, numbered beyond all others, and not tagged yet.
LEMMA InsertBase ==
  ASSUME BaseInv, pc \in {"insert", "symlink"}, InsertObject
  PROVE  BaseInv'
  <1> DEFINE n == inodeSeq + 1
  <1> USE CatalogBounds, NamesAssumption
  <1>1. /\ req \in Requests /\ WellFormed(req) /\ pc # "idle" /\ req.name \in ObjNames
        /\ req.tags \in Seq(TagNames) /\ req.op \in Creates
        /\ pc = "insert" => req.op = "mknod"
        /\ pc = "symlink" => req.op = "symlink"
    BY RequestFacts DEF BaseInv, WellFormed, Creates
  <1>2. /\ n \in Inodes /\ objects[n] = NoName /\ ino' = n /\ inodeSeq' = n
        /\ saved.objects[n] = NoName
        /\ objects' = [objects EXCEPT ![n] = req.name] /\ ino = 0
    BY DEF BaseInv, TypeOK, RequestInv, ObjectInv, InsertObject, Inodes, TablesOK, Tables
  <1>3. pc' \in {"tag", "disk", "target", "end"} /\ (pc' = "target" => req.op = "symlink")
        /\ (pc' = "tag" <=> req.tags # <<>>) /\ (pc' = "end" => ~disk)
    BY DEF InsertObject, AfterTags
  <1>4. TypeOK'
    BY SMTT(40), <1>1, <1>2, <1>3 DEF BaseInv, TypeOK, InsertObject, requestRest, Steps, Inodes
  <1>5. TablesOK(Tables)'
    <2>1. /\ tagging' = tagging /\ target' = target /\ inodeSeq \in Nat
          /\ objects \in [Inodes -> ObjNames \cup {NoName}]
          /\ tagging \subseteq Inodes \X Ids
      BY DEF InsertObject, BaseInv, TypeOK
    <2>2. /\ \A e \in tagging : objects[e[1]] # NoName
          /\ \A i \in Inodes : objects[i] # NoName => i <= inodeSeq
          /\ \A i \in Inodes : objects[i] = NoName => target[i] = NoTarget
      BY CurrentTables DEF BaseInv
    <2>3. \A i \in Inodes : objects'[i] = IF i = n THEN req.name ELSE objects[i]
      BY <1>2, <2>1
    <2>4. req.name # NoName
      BY <1>1
    <2>5. \A i \in Inodes : objects'[i] # NoName => i <= inodeSeq'
      BY <1>2, <2>1, <2>2, <2>3 DEF Inodes
    <2> QED  BY <1>4, <2>1, <2>2, <2>3, <2>4, <2>5, NextTables
  <1>6. SavedInv'
    BY <1>3, SavedKept DEF BaseInv, InsertObject, requestRest
  <1>7. RequestInv'
    BY SMTT(40), <1>1, <1>2, <1>3, EmptySeq DEF BaseInv, RequestInv, StepsOf, InsertObject, requestRest, Creates, TypeOK, Inodes
  <1>8. LinkInv'
    BY <1>1, LinkKept DEF BaseInv, InsertObject, requestRest
  <1>9. ObjectInv'
    <2>1. saved' = saved /\ req' = req /\ disk' = disk
      BY DEF InsertObject, requestRest
    <2>2. objects \in [Inodes -> ObjNames \cup {NoName}] /\ 0 \notin Inodes
      BY DEF BaseInv, TypeOK, Inodes
    <2>3. \A i \in Inodes : i # ino' => objects'[i] = saved'.objects[i]
      BY <1>2, <2>1, <2>2 DEF BaseInv, ObjectInv
    <2>4. objects'[n] = req.name
      BY <1>2, <2>2
    <2>5. disk
      BY <1>1, <1>2 DEF BaseInv, ObjectInv
    <2> QED  BY <1>1, <1>2, <1>3, <2>1, <2>3, <2>4, <2>5 DEF ObjectInv, Creates
  <1> QED  BY <1>4, <1>5, <1>6, <1>7, <1>8, <1>9 DEF BaseInv

\* symlink() of a known target takes the object there is.
LEMMA SymlinkKnownBase ==
  ASSUME BaseInv, SymlinkKnown
  PROVE  BaseInv'
  <1> USE CatalogBounds, NamesAssumption
  <1>1. /\ pc = "symlink" /\ req \in Requests /\ WellFormed(req) /\ req.op = "symlink"
        /\ req.tags \in Seq(TagNames)
    BY RequestFacts DEF BaseInv, SymlinkKnown, WellFormed
  <1>2. /\ ino' \in Inodes /\ objects[ino'] # NoName /\ ino = 0
        /\ pc' = (IF req.tags = <<>> THEN "end" ELSE "tag")
    BY <1>1 DEF BaseInv, SymlinkKnown, ObjectInv
  <1>3. TypeOK'
    <2>1. ino' \in 0 .. MaxInode /\ pc' \in Steps
      BY <1>2 DEF Inodes, Steps
    <2>2. disk' = FALSE /\ todo' = req.tags /\ UNCHANGED <<tables, requestRest, cache, files, ok>>
      BY DEF SymlinkKnown
    <2> QED  BY <1>1, <2>1, <2>2 DEF BaseInv, TypeOK, requestRest, tables
  <1>4. TablesOK(Tables)'
    BY DEF BaseInv, SymlinkKnown, tables, TablesOK, Tables
  <1>5. SavedInv'
    BY <1>2, SavedKept DEF BaseInv, SymlinkKnown, requestRest
  <1>6. RequestInv'
    BY <1>1, <1>2 DEF BaseInv, RequestInv, StepsOf, SymlinkKnown, requestRest, tables
  <1>7. LinkInv'
    BY LinkKept DEF BaseInv, SymlinkKnown, requestRest
  <1>8. ObjectInv'
    <2>1. disk' = FALSE /\ saved' = saved /\ req' = req /\ objects' = objects /\ pc' \in {"tag", "end"}
      BY <1>2 DEF SymlinkKnown, requestRest, tables
    <2>2. objects = saved.objects
      BY <1>1 DEF BaseInv, ObjectInv
    <2> QED  BY <1>1, <2>1, <2>2 DEF ObjectInv, Creates
  <1> QED  BY <1>3, <1>4, <1>5, <1>6, <1>7, <1>8 DEF BaseInv

\* Tagging an object that exists, perhaps with a new tag.
LEMMA TagObjectBase ==
  ASSUME BaseInv, TagObject
  PROVE  BaseInv'
  <1> DEFINE k == Head(todo)
             id == FoundOrCreated(k)
  <1> USE CatalogBounds, NamesAssumption
  <1>1. /\ pc = "tag" /\ req \in Requests /\ WellFormed(req) /\ req.op \in Creates \cup {"rename"}
    BY RequestFacts DEF BaseInv, TagObject, WellFormed
  <1>2. /\ todo # <<>> /\ todo \in Seq(TagNames) /\ ino \in Inodes /\ objects[ino] # NoName
        /\ tagSeq + Len(todo) <= MaxTag
    BY <1>1 DEF BaseInv, RequestInv, TypeOK
  <1>3. /\ k \in TagNames /\ Tail(todo) \in Seq(TagNames) /\ Len(todo) \in Nat /\ Len(todo) >= 1
        /\ Len(Tail(todo)) = Len(todo) - 1
    BY <1>2, NextTag
  <1>4. id \in Ids /\ tags' \in [TagNames -> 0 .. MaxTag]
        /\ tagSeq' \in 0 .. MaxTag /\ tagSeq' <= tagSeq + 1
    <2>1. GetTagId(k) \in 0 .. MaxTag /\ tagSeq \in 0 .. MaxTag /\ tagSeq + 1 \in 1 .. MaxTag
          /\ tags \in [TagNames -> 0 .. MaxTag]
      BY SMTT(40), <1>2, <1>3, TagIdType DEF BaseInv, TypeOK
    <2>2. id \in Ids
      BY <2>1 DEF FoundOrCreated, Ids
    <2>3. (tags' = tags /\ tagSeq' = tagSeq) \/ CreateTag(k)
      BY DEF TagObject
    <2> QED  BY <1>3, <2>1, <2>2, <2>3 DEF CreateTag
  <1>5. pc' \in {"tag", "disk", "target", "end"} /\ (pc' = "target" => req.op = "symlink")
        /\ (pc' = "tag" <=> todo' # <<>>) /\ todo' = Tail(todo)
        /\ (pc' = "end" => ~disk) /\ (pc' \in {"disk", "target"} => disk)
    BY DEF TagObject, AfterTags
  <1>6. TypeOK'
    <2>1. cache' \in [TagNames -> 0 .. MaxTag]
      <3>1. cache' = [cache EXCEPT ![k] = id]
        BY DEF TagObject, Cached
      <3> QED  BY <1>3, <1>4, <3>1 DEF BaseInv, TypeOK, Ids
    <2>2. tagging' \subseteq Inodes \X Ids
      <3>1. tagging' = tagging \cup {<<ino, id>>}
        BY DEF TagObject
      <3> QED  BY <1>2, <1>4, <3>1 DEF BaseInv, TypeOK
    <2>3. pc' \in Steps /\ todo' \in Seq(TagNames)
      BY <1>3, <1>5 DEF Steps
    <2> QED  BY <1>4, <2>1, <2>2, <2>3 DEF BaseInv, TypeOK, TagObject, requestRest
  <1>7. TablesOK(Tables)'
    <2>1. \A e \in tagging' : e \in tagging \/ e[1] = ino
      BY DEF TagObject
    <2>2. objects' = objects /\ target' = target /\ inodeSeq' = inodeSeq
      BY DEF TagObject
    <2> QED  BY <1>2, <1>6, <2>1, <2>2, CurrentTables DEF BaseInv, TypeOK, TablesOK, Tables
  <1>8. SavedInv'
    BY <1>5, SavedKept DEF BaseInv, TagObject, requestRest
  <1>9. pc' \in StepsOf(req.op)
    BY <1>1, <1>5 DEF StepsOf, Creates, TagObject, AfterTags, requestRest, BaseInv, ObjectInv
  <1>10. RequestInv'
    <2>1. /\ req' = req /\ ino' = ino /\ objects' = objects /\ ok' = ok
          /\ tagSeq' + Len(todo') <= MaxTag
      BY <1>2, <1>3, <1>4, <1>5 DEF TagObject, requestRest, BaseInv, TypeOK
    <2> QED  BY <1>1, <1>2, <1>5, <1>9, <2>1 DEF BaseInv, RequestInv
  <1>11. LinkInv'
    BY LinkKept DEF BaseInv, TagObject, requestRest
  <1>12. ObjectInv'
    BY <1>1, <1>2, <1>5 DEF BaseInv, ObjectInv, TagObject, requestRest, Creates
  <1> QED  BY <1>6, <1>7, <1>8, <1>10, <1>11, <1>12 DEF BaseInv

\* The target of a new link.
LEMMA SetTargetBase ==
  ASSUME BaseInv, SetTarget
  PROVE  BaseInv'
  <1> USE CatalogBounds, NamesAssumption
  <1>1. /\ pc = "target" /\ req \in Requests /\ WellFormed(req) /\ req.op = "symlink"
        /\ req.target \in Targets
    BY RequestFacts DEF BaseInv, SetTarget, WellFormed
  <1>2. ino \in Inodes /\ objects[ino] # NoName /\ pc' = "disk"
    BY <1>1 DEF BaseInv, RequestInv, SetTarget
  <1>3. TypeOK'
    BY <1>1, <1>2 DEF BaseInv, TypeOK, SetTarget, requestRest, Steps
  <1>4. TablesOK(Tables)'
    BY <1>2, <1>3, CurrentTables DEF BaseInv, TypeOK, SetTarget, TablesOK, Tables
  <1>5. SavedInv'
    BY <1>2, SavedKept DEF BaseInv, SetTarget, requestRest
  <1>6. RequestInv' /\ LinkInv' /\ ObjectInv'
    BY <1>1, <1>2, LinkKept DEF BaseInv, RequestInv, ObjectInv, SetTarget, requestRest, StepsOf, Creates
  <1> QED  BY <1>3, <1>4, <1>5, <1>6 DEF BaseInv

\* Untagging goes on to the new tags of a rename, or to the check.
LEMMA UntagObjectBase ==
  ASSUME BaseInv, UntagObject
  PROVE  BaseInv'
  <1> USE CatalogBounds, NamesAssumption
  <1>1. /\ pc = "untag" /\ req \in Requests /\ WellFormed(req) /\ req.op \in {"unlink", "rename"}
        /\ req.op = "rename" => req.toTags \in Seq(TagNames) /\ req.toTags # <<>>
    BY RequestFacts DEF BaseInv, UntagObject, WellFormed
  <1>2. /\ todo # <<>> /\ todo \in Seq(TagNames)
    BY <1>1 DEF BaseInv, RequestInv, TypeOK
  <1>3. /\ Head(todo) \in TagNames /\ Tail(todo) \in Seq(TagNames)
    BY <1>2, NextTag
  <1>4. /\ pc' \in {"untag", "tag", "check"} /\ (pc' = "untag" => todo' # <<>> /\ todo' = Tail(todo))
        /\ (pc' = "tag" => req.op = "rename" /\ todo' = req.toTags)
        /\ (pc' = "check" => req.op = "unlink" /\ todo' = Tail(todo))
    BY <1>1 DEF UntagObject
  <1>5. TypeOK'
    <2>1. cache' \in [TagNames -> 0 .. MaxTag]
      BY <1>3, TagIdType DEF BaseInv, TypeOK, UntagObject, Cached
    <2>2. tagging' \subseteq Inodes \X Ids /\ pc' \in Steps /\ todo' \in Seq(TagNames)
      BY <1>1, <1>3, <1>4 DEF BaseInv, TypeOK, UntagObject, Steps
    <2> QED  BY <2>1, <2>2 DEF BaseInv, TypeOK, UntagObject, requestRest
  <1>6. TablesOK(Tables)'
    BY <1>5, CurrentTables DEF BaseInv, TypeOK, UntagObject, TablesOK, Tables
  <1>7. SavedInv'
    BY <1>4, SavedKept DEF BaseInv, UntagObject, requestRest
  <1>8. RequestInv'
    BY <1>1, <1>2, <1>4 DEF BaseInv, RequestInv, UntagObject, requestRest, StepsOf
  <1>9. LinkInv'
    BY LinkKept DEF BaseInv, UntagObject, requestRest
  <1>10. ObjectInv'
    BY <1>1, <1>4 DEF BaseInv, ObjectInv, UntagObject, requestRest, Creates
  <1> QED  BY <1>5, <1>6, <1>7, <1>8, <1>9, <1>10 DEF BaseInv

\* The rows left when an object without tags is dropped.
LEMMA DropRows ==
  ASSUME TypeOK, Drop(ino)
  PROVE  /\ objects' \in [Inodes -> ObjNames \cup {NoName}]
         /\ target' \in [Inodes -> Targets \cup {NoTarget}]
         /\ \A i \in Inodes : i # ino => objects'[i] = objects[i] /\ target'[i] = target[i]
         /\ ino \in Inodes => objects'[ino] = NoName /\ target'[ino] = NoTarget
  BY DEF Drop, TypeOK

\* The check drops an object no tag is left on.
LEMMA CheckTaggedBase ==
  ASSUME BaseInv, CheckTagged
  PROVE  BaseInv'
  <1> USE CatalogBounds, NamesAssumption
  <1>1. /\ pc = "check" /\ req \in Requests /\ req.op = "unlink"
    BY RequestFacts DEF BaseInv, CheckTagged
  <1>2. /\ objects = saved.objects /\ TypeOK /\ ino \in 0 .. MaxInode
        /\ (ino # 0 => saved.objects[ino] = req.name)
        /\ saved' = saved /\ req' = req /\ ino' = ino
    BY <1>1 DEF BaseInv, ObjectInv, TypeOK, CheckTagged, requestRest
  <1>3. CASE IsTagged(ino)
    <2>1. disk' = FALSE /\ pc' = "end" /\ UNCHANGED <<objects, target>>
      BY <1>3 DEF CheckTagged
    <2>2. TypeOK'
      BY <2>1 DEF BaseInv, TypeOK, CheckTagged, requestRest, Steps
    <2>3. TablesOK(Tables)'
      BY <2>1 DEF BaseInv, CheckTagged, TablesOK, Tables
    <2>4. SavedInv'
      BY <1>2, <2>1, SavedKept DEF BaseInv
    <2>5. RequestInv' /\ LinkInv' /\ ObjectInv'
      BY <1>1, <1>2, <2>1, LinkKept DEF BaseInv, RequestInv, ObjectInv, CheckTagged, requestRest, StepsOf, Creates
    <2> QED  BY <2>2, <2>3, <2>4, <2>5 DEF BaseInv
  <1>4. CASE ~IsTagged(ino)
    <2>1. Drop(ino) /\ pc' = "disk" /\ disk' = disk
      BY <1>4 DEF CheckTagged
    <2>2. TypeOK'
      BY <1>2, <2>1, DropRows DEF BaseInv, TypeOK, CheckTagged, requestRest, Steps
    <2>3. \A e \in tagging : e[1] \in Inodes /\ e[1] # ino
      <3>1. \A e \in tagging : e = <<e[1], e[2]>> /\ e[1] \in Inodes /\ e[2] \in Ids
        BY <1>2 DEF TypeOK
      <3> QED  BY <1>4, <3>1 DEF IsTagged
    <2>4. TablesOK(Tables)'
      <3>1. tagging' = tagging /\ inodeSeq' = inodeSeq
        BY DEF CheckTagged
      <3>2. /\ \A e \in tagging : objects[e[1]] # NoName
            /\ \A i \in Inodes : objects[i] # NoName => i <= inodeSeq
            /\ \A i \in Inodes : objects[i] = NoName => target[i] = NoTarget
        BY CurrentTables DEF BaseInv
      <3> QED  BY <1>2, <2>1, <2>2, <2>3, <3>1, <3>2, DropRows, NextTables
    <2>5. SavedInv'
      BY <1>2, <2>1, SavedKept DEF BaseInv
    <2>6. RequestInv' /\ LinkInv'
      BY <1>1, <1>2, <2>1, LinkKept DEF BaseInv, RequestInv, CheckTagged, requestRest, StepsOf
    <2>7. ObjectInv'
      <3>1. \A i \in Inodes : i # ino => objects'[i] = saved.objects[i]
        BY <1>2, <2>1, DropRows
      <3>2. ino # 0 => objects'[ino] = NoName
        BY <1>2, <2>1, DropRows DEF Inodes
      <3>3. disk
        BY <1>1 DEF BaseInv, ObjectInv
      <3> QED  BY <1>1, <1>2, <2>1, <3>1, <3>2, <3>3 DEF ObjectInv, Creates
    <2> QED  BY <2>2, <2>4, <2>5, <2>6, <2>7 DEF BaseInv
  <1> QED  BY <1>3, <1>4

\* unlink() below store/ALL/ takes the tags along.
LEMMA DeleteObjectBase ==
  ASSUME BaseInv, DeleteObject
  PROVE  BaseInv'
  <1> USE CatalogBounds, NamesAssumption
  <1>1. /\ pc = "delete" /\ req \in Requests /\ req.op = "unlinkAll"
    BY RequestFacts DEF BaseInv, DeleteObject
  <1>2. /\ objects = saved.objects /\ TypeOK /\ ino \in 0 .. MaxInode
        /\ (ino # 0 => saved.objects[ino] = req.name)
        /\ saved' = saved /\ req' = req /\ ino' = ino /\ pc' = "disk" /\ Drop(ino)
    BY <1>1 DEF BaseInv, ObjectInv, TypeOK, DeleteObject, requestRest
  <1>3. TypeOK'
    BY <1>2, DropRows DEF BaseInv, TypeOK, DeleteObject, requestRest, Steps, FullUntag
  <1>4. \A e \in tagging' : e \in tagging /\ e[1] \in Inodes /\ e[1] # ino
    BY <1>2 DEF TypeOK, DeleteObject, FullUntag
  <1>5. TablesOK(Tables)'
    <2>1. inodeSeq' = inodeSeq
      BY DEF DeleteObject
    <2>2. /\ \A e \in tagging : objects[e[1]] # NoName
          /\ \A i \in Inodes : objects[i] # NoName => i <= inodeSeq
          /\ \A i \in Inodes : objects[i] = NoName => target[i] = NoTarget
      BY CurrentTables DEF BaseInv
    <2> QED  BY <1>2, <1>3, <1>4, <2>1, <2>2, DropRows, NextTables
  <1>6. SavedInv'
    BY <1>2, SavedKept DEF BaseInv
  <1>7. RequestInv' /\ LinkInv'
    BY <1>1, <1>2, LinkKept DEF BaseInv, RequestInv, DeleteObject, requestRest, StepsOf
  <1>8. ObjectInv'
    <2>1. \A i \in Inodes : i # ino => objects'[i] = saved.objects[i]
      BY <1>2, DropRows
    <2>2. ino # 0 => objects'[ino] = NoName
      BY <1>2, DropRows DEF Inodes
    <2>3. disk /\ disk' = disk
      BY <1>1 DEF BaseInv, ObjectInv, DeleteObject
    <2> QED  BY <1>1, <1>2, <2>1, <2>2, <2>3 DEF ObjectInv, Creates
  <1> QED  BY <1>3, <1>5, <1>6, <1>7, <1>8 DEF BaseInv

\* rename() gives the object its new name.
LEMMA RenameObjectBase ==
  ASSUME BaseInv, RenameObject
  PROVE  BaseInv'
  <1> USE CatalogBounds, NamesAssumption
  <1>1. /\ pc = "retitle" /\ req \in Requests /\ req.op = "rename" /\ WellFormed(req)
        /\ req.toName \in ObjNames /\ req.tags # <<>> /\ req.name \in ObjNames
    BY RequestFacts DEF BaseInv, RenameObject, WellFormed
  <1>2. /\ objects = saved.objects /\ TypeOK /\ ino \in 0 .. MaxInode
        /\ (ino # 0 => saved.objects[ino] = req.name)
        /\ saved' = saved /\ req' = req /\ ino' = ino /\ todo' = todo
        /\ pc' = IF ino = 0 THEN "end" ELSE "untag"
        /\ objects' = IF ino = 0 THEN objects ELSE [objects EXCEPT ![ino] = req.toName]
    BY <1>1 DEF BaseInv, ObjectInv, TypeOK, RenameObject, requestRest
  <1>3. TypeOK'
    BY <1>1, <1>2 DEF BaseInv, TypeOK, RenameObject, requestRest, Steps
  <1>4. TablesOK(Tables)'
    <2>1. /\ tagging' = tagging /\ target' = target /\ inodeSeq' = inodeSeq
          /\ objects \in [Inodes -> ObjNames \cup {NoName}]
          /\ tagging \subseteq Inodes \X Ids
      BY DEF RenameObject, BaseInv, TypeOK
    <2>2. /\ \A e \in tagging : objects[e[1]] # NoName
          /\ \A i \in Inodes : objects[i] # NoName => i <= inodeSeq
          /\ \A i \in Inodes : objects[i] = NoName => target[i] = NoTarget
      BY CurrentTables DEF BaseInv
    <2>3. \A i \in Inodes : objects'[i] = NoName <=> objects[i] = NoName
      BY <1>1, <1>2, <2>1
    <2>4. \A e \in tagging : e[1] \in Inodes
      BY <2>1
    <2> QED  BY <1>3, <2>1, <2>2, <2>3, <2>4, NextTables
  <1>5. SavedInv'
    BY <1>2, SavedKept DEF BaseInv
  <1>6. RequestInv'
    BY <1>1, <1>2 DEF BaseInv, RequestInv, RenameObject, requestRest, StepsOf, Inodes, TypeOK
  <1>7. LinkInv'
    BY LinkKept DEF BaseInv, RenameObject, requestRest
  <1>8. ObjectInv'
    <2>1. \A i \in Inodes : i # ino => objects'[i] = saved.objects[i]
      BY <1>2 DEF TypeOK
    <2>2. ino # 0 => objects'[ino] = req.toName
      BY <1>2 DEF TypeOK, Inodes
    <2>3. disk /\ disk' = disk
      BY <1>1 DEF BaseInv, ObjectInv, RenameObject
    <2> QED  BY <1>1, <1>2, <2>1, <2>2, <2>3 DEF ObjectInv, Creates
  <1> QED  BY <1>3, <1>4, <1>5, <1>6, <1>7, <1>8 DEF BaseInv

\* The system call on the archive touches no table.
LEMMA DiskBase ==
  ASSUME BaseInv, DiskDone \/ DiskFailed
  PROVE  BaseInv'
  <1> USE CatalogBounds, NamesAssumption
  <1>1. /\ pc = "disk" /\ pc' = "end" /\ req \in Requests /\ WellFormed(req)
        /\ UNCHANGED <<tables, requestRest, cache, todo, ino, disk>>
        /\ req.op \in Creates \cup {"unlink", "unlinkAll", "rename"}
    BY RequestFacts DEF BaseInv, DiskDone, DiskFailed
  <1>2. TypeOK'
    <2>1. files' \subseteq Inodes \X ObjNames
      <3>1. CASE DiskDone
        <4>1. req.name \in ObjNames /\ (req.op = "rename" => req.toName \in ObjNames)
          BY <1>1 DEF WellFormed
        <4>2. CASE req.op \in Creates
          <5>1. ino \in Inodes /\ files' = files \cup {<<ino, req.name>>}
            BY <1>1, <3>1, <4>2 DEF BaseInv, ObjectInv, RequestInv, DiskDone, File
          <5> QED  BY <4>1, <5>1 DEF BaseInv, TypeOK
        <4>3. CASE req.op = "rename"
          <5>1. ino \in Inodes /\ files' \subseteq files \cup {<<ino, req.toName>>}
            BY <1>1, <3>1, <4>3 DEF BaseInv, ObjectInv, TypeOK, DiskDone, File, Inodes, Creates
          <5> QED  BY <4>1, <4>3, <5>1 DEF BaseInv, TypeOK
        <4>4. CASE req.op \in {"unlink", "unlinkAll"}
          BY <3>1, <4>4 DEF BaseInv, TypeOK, DiskDone, Creates
        <4> QED  BY <1>1, <4>2, <4>3, <4>4
      <3>2. CASE DiskFailed
        BY <3>2 DEF BaseInv, TypeOK, DiskFailed
      <3> QED  BY <3>1, <3>2
    <2>2. ok' \in BOOLEAN
      BY DEF BaseInv, TypeOK, DiskDone, DiskFailed
    <2> QED  BY <1>1, <2>1, <2>2 DEF BaseInv, TypeOK, requestRest, tables, Steps
  <1>3. TablesOK(Tables)'
    BY <1>1 DEF BaseInv, TablesOK, Tables, tables
  <1>4. SavedInv'
    BY <1>1, SavedKept DEF BaseInv, requestRest
  <1>5. RequestInv' /\ LinkInv'
    BY <1>1, LinkKept DEF BaseInv, RequestInv, requestRest, tables, StepsOf, Creates
  <1>6. ObjectInv'
    BY <1>1 DEF BaseInv, ObjectInv, requestRest, tables
  <1> QED  BY <1>2, <1>3, <1>4, <1>5, <1>6 DEF BaseInv

\* A step on tags or relations: objects and counters of objects stay, and so
\* does the room the bounds leave.
LEMMA TagStepBase ==
  ASSUME BaseInv, pc \in {"mktag", "rmtag", "mvtag", "relate", "unrelate"},
         pc' = "end" \/ (pc = "rmtag" /\ pc' = "rmtag" /\ todo' # <<>> /\ ok' = ok),
         UNCHANGED <<objects, target, inodeSeq, requestRest, files, ino, disk>>,
         tags' \in [TagNames -> 0 .. MaxTag], tagSeq' \in 0 .. MaxTag,
         tagging' \subseteq tagging, relations' \subseteq Ids \X Ids,
         cache' \in [TagNames -> 0 .. MaxTag], ok' \in BOOLEAN, todo' \in Seq(TagNames)
  PROVE  BaseInv'
  <1> USE CatalogBounds, NamesAssumption
  <1>1. /\ req \in Requests /\ req.op = pc /\ saved' = saved /\ req' = req
    BY RequestFacts DEF BaseInv, requestRest
  <1>2. TypeOK'
    BY DEF BaseInv, TypeOK, requestRest, Steps
  <1>3. TablesOK(Tables)'
    BY <1>2, CurrentTables DEF BaseInv, TypeOK, TablesOK, Tables
  <1>4. SavedInv'
    BY <1>1, SavedKept DEF BaseInv
  <1>5. RequestInv'
    BY <1>1 DEF BaseInv, RequestInv, StepsOf
  <1>6. LinkInv'
    BY <1>1, LinkKept DEF BaseInv, requestRest
  <1>7. ObjectInv'
    BY <1>1 DEF BaseInv, ObjectInv, Creates
  <1> QED  BY <1>2, <1>3, <1>4, <1>5, <1>6, <1>7 DEF BaseInv

\* A tag is made where there was none, with the next id.
LEMMA CreateTagType ==
  ASSUME TypeOK, NEW k \in TagNames, CreateTag(k), tagSeq < MaxTag
  PROVE  tags' \in [TagNames -> 0 .. MaxTag] /\ tagSeq' \in 0 .. MaxTag
  <1>1. tags \in [TagNames -> 0 .. MaxTag] /\ tagSeq \in 0 .. MaxTag /\ tagSeq + 1 \in 0 .. MaxTag
    BY CatalogBounds DEF TypeOK
  <1>2. CASE tags[k] = 0
    BY <1>1, <1>2 DEF CreateTag
  <1>3. CASE tags[k] # 0
    BY <1>1, <1>3 DEF CreateTag
  <1> QED  BY <1>2, <1>3

\* mkdir() of a tag.
LEMMA MakeTagBase ==
  ASSUME BaseInv, MakeTag
  PROVE  BaseInv'
  <1>1. pc = "mktag" /\ WellFormed(req) /\ req.op = "mktag"
    BY RequestFacts DEF BaseInv, MakeTag
  <1>2. req.tags \in Seq(TagNames) /\ Len(req.tags) = 1
    BY <1>1 DEF WellFormed
  <1>3. NamedTag \in TagNames
    BY <1>2, PathTags DEF NamedTag
  <1>4. tagSeq < MaxTag
    BY <1>1, <1>2, CatalogBounds DEF BaseInv, RequestInv, TypeOK
  <1>5. tags' \in [TagNames -> 0 .. MaxTag] /\ tagSeq' \in 0 .. MaxTag
    BY <1>3, <1>4, CreateTagType DEF BaseInv, MakeTag
  <1> QED  BY <1>1, <1>5, TagStepBase DEF MakeTag, BaseInv, TypeOK

\* rmdir() of the next tag: what it tagged and was related to goes with it.
LEMMA DeleteTagBase ==
  ASSUME BaseInv, DeleteTag
  PROVE  BaseInv'
  <1>1. pc = "rmtag" /\ todo # <<>> /\ todo \in Seq(TagNames)
    BY DEF BaseInv, RequestInv, TypeOK, DeleteTag
  <1>2. Head(todo) \in TagNames /\ Tail(todo) \in Seq(TagNames)
    BY <1>1, NextTag
  <1>3. /\ tags' \in [TagNames -> 0 .. MaxTag] /\ cache' \in [TagNames -> 0 .. MaxTag]
    <2>1. tags' = [tags EXCEPT ![Head(todo)] = 0] /\ cache' = [cache EXCEPT ![Head(todo)] = 0]
      BY DEF DeleteTag, Cached
    <2>2. /\ tags \in [TagNames -> 0 .. MaxTag] /\ cache \in [TagNames -> 0 .. MaxTag]
          /\ 0 \in 0 .. MaxTag
      BY CatalogBounds DEF BaseInv, TypeOK
    <2> QED  BY <2>1, <2>2
  <1>4. /\ tagging' \subseteq tagging /\ relations' \subseteq Ids \X Ids
        /\ todo' = Tail(todo) /\ (pc' = "end" \/ (pc' = "rmtag" /\ todo' # <<>>))
    BY DEF BaseInv, TypeOK, DeleteTag
  <1>5. tagSeq' \in 0 .. MaxTag /\ ok' \in BOOLEAN /\ ok' = ok
    BY DEF BaseInv, TypeOK, DeleteTag
  <1> QED  BY <1>1, <1>2, <1>3, <1>4, <1>5, TagStepBase DEF DeleteTag

\* The name a row had before rename() gave it the tagname of another tag.
LEMMA RenamedFrom ==
  ASSUME pc = "mvtag", RequestInv, NEW j \in TagNames, j.ns = req.to.ns
  PROVE  [j EXCEPT !.ns = NamedTag.ns] \in TagNames /\ NamedTag \in TagNames /\ req.to \in TagNames
  <1>1. WellFormed(req) /\ req.op = "mvtag"
    BY RequestFacts
  <1>2. req.tags \in Seq(TagNames) /\ Len(req.tags) = 1
    BY <1>1 DEF WellFormed
  <1>3. NamedTag \in TagNames
    BY <1>2, PathTags DEF NamedTag
  <1> QED  BY <1>1, <1>3 DEF WellFormed, NamedTag

\* rename() of a tag moves rows and makes none.
LEMMA RenameTagBase ==
  ASSUME BaseInv, RenameTag
  PROVE  BaseInv'
  <1> DEFINE was(j) == [j EXCEPT !.ns = NamedTag.ns]
             moves == {j \in TagNames : j.ns = req.to.ns /\ tags[was(j)] # 0}
  <1>1. pc = "mvtag" /\ WellFormed(req) /\ req.op = "mvtag"
    BY RequestFacts DEF BaseInv, RenameTag
  <1>2. req.to \in TagNames /\ NamedTag \in TagNames
    <2>1. req.to \in TagNames
      BY <1>1 DEF WellFormed
    <2> QED  BY <1>1, <2>1, RenamedFrom DEF BaseInv
  <1>3. \A j \in moves : was(j) \in TagNames
    BY <1>1, RenamedFrom DEF BaseInv
  <1>4. tags' = IF \E j \in moves : tags[j] # 0
                THEN tags
                ELSE [j \in TagNames |-> IF j \in moves THEN tags[was(j)]
                                         ELSE IF j.ns = NamedTag.ns THEN 0 ELSE tags[j]]
    BY DEF RenameTag
  <1>5. tags' \in [TagNames -> 0 .. MaxTag]
    <2>1. tags \in [TagNames -> 0 .. MaxTag] /\ 0 \in 0 .. MaxTag
      BY CatalogBounds DEF BaseInv, TypeOK
    <2>2. \A j \in moves : tags[was(j)] \in 0 .. MaxTag
      BY <1>3, <2>1
    <2> HIDE DEF moves, was
    <2> QED  BY <1>4, <2>1, <2>2
  <1>6. cache' \in [TagNames -> 0 .. MaxTag]
    BY <1>2, CatalogBounds DEF BaseInv, TypeOK, RenameTag, Cached
  <1>7. /\ pc' = "end" /\ UNCHANGED <<tagSeq, objects, target, inodeSeq, tagging, relations,
                                     requestRest, files, todo, ino, disk, ok>>
    BY DEF RenameTag
  <1> QED  BY <1>1, <1>5, <1>6, <1>7, TagStepBase DEF BaseInv, TypeOK

\* mkdir() below relations/, which may make the second tag.
LEMMA RelateBase ==
  ASSUME BaseInv, Relate
  PROVE  BaseInv'
  <1> DEFINE k1 == LeftTag
             k2 == RightTag
             id2 == FoundOrCreated(k2)
  <1>1. pc = "relate" /\ WellFormed(req) /\ req.op = "relate"
    BY RequestFacts DEF BaseInv, Relate
  <1>2. req.tags \in Seq(TagNames) /\ Len(req.tags) = 2
    BY <1>1 DEF WellFormed
  <1>3. k1 \in TagNames /\ k2 \in TagNames
    BY <1>2, PathTags DEF LeftTag, RightTag
  <1>4. tagSeq \in Nat /\ tagSeq + 2 <= MaxTag /\ TypeOK
    BY <1>1, <1>2, CatalogBounds DEF BaseInv, RequestInv, TypeOK
  <1>5. GetTagId(k1) \in 0 .. MaxTag /\ GetTagId(k2) \in 0 .. MaxTag
    BY <1>3, <1>4, TagIdType
  <1>6. id2 \in Ids
    BY <1>4, <1>5, CatalogBounds DEF FoundOrCreated, Ids
  <1>7. tags' \in [TagNames -> 0 .. MaxTag] /\ tagSeq' \in 0 .. MaxTag
    <2>1. (tags' = tags /\ tagSeq' = tagSeq) \/ CreateTag(k2)
      BY DEF Relate
    <2>2. CASE tags' = tags /\ tagSeq' = tagSeq
      BY <1>4, <2>2 DEF TypeOK
    <2>3. CASE CreateTag(k2)
      <3>1. tagSeq < MaxTag
        BY <1>4, CatalogBounds
      <3> QED  BY <1>3, <1>4, <2>3, <3>1, CreateTagType
    <2> QED  BY <2>1, <2>2, <2>3
  <1>8. cache' \in [TagNames -> 0 .. MaxTag]
    <2>1. cache' = [cache EXCEPT ![k1] = GetTagId(k1), ![k2] = id2]
      BY DEF Relate
    <2>2. cache \in [TagNames -> 0 .. MaxTag] /\ id2 \in 0 .. MaxTag
      BY <1>4, <1>6 DEF TypeOK, Ids
    <2> HIDE DEF k1, k2, id2
    <2> DEFINE first == [cache EXCEPT ![k1] = GetTagId(k1)]
    <2>3. first \in [TagNames -> 0 .. MaxTag]
      BY <1>5, <2>2
    <2>4. cache' = [first EXCEPT ![k2] = id2]
      BY <2>1
    <2> HIDE DEF first
    <2> QED  BY <2>2, <2>3, <2>4
  <1>9. relations' \subseteq Ids \X Ids /\ ok' \in BOOLEAN
    <2>1. \/ GetTagId(k1) # 0 /\ relations' = relations \cup {<<GetTagId(k1), id2>>} /\ ok' = ok
          \/ ok' = ok /\ relations' = relations
          \/ ok' = FALSE /\ relations' = relations
      BY DEF Relate
    <2>2. GetTagId(k1) # 0 => GetTagId(k1) \in Ids
      BY <1>5, CatalogBounds DEF Ids
    <2> HIDE DEF k1, k2, id2
    <2>3. relations \subseteq Ids \X Ids /\ ok \in BOOLEAN
      BY <1>4 DEF TypeOK
    <2>4. CASE GetTagId(k1) # 0 /\ relations' = relations \cup {<<GetTagId(k1), id2>>} /\ ok' = ok
      BY <1>6, <2>2, <2>3, <2>4
    <2>5. CASE (ok' = FALSE \/ ok' = ok) /\ relations' = relations
      BY <2>3, <2>5
    <2> QED  BY <2>1, <2>4, <2>5
  <1>10. /\ pc' = "end" /\ UNCHANGED <<objects, target, inodeSeq, tagging, requestRest, files, todo,
                                      ino, disk>>
    BY DEF Relate
  <1> QED  BY <1>1, <1>4, <1>7, <1>8, <1>9, <1>10, TagStepBase DEF TypeOK

\* What the parser leaves in the cache.
LEMMA ParsedType ==
  ASSUME TypeOK, NEW ts
  PROVE  Parsed(ts) \in [TagNames -> 0 .. MaxTag]
  BY TagIdType DEF Parsed, TypeOK

\* rmdir() below relations/.
LEMMA UnrelateBase ==
  ASSUME BaseInv, Unrelate
  PROVE  BaseInv'
  <1>1. pc = "unrelate" /\ cache' = Parsed(req.tags) /\ pc' = "end" /\ relations' \subseteq relations
    BY DEF Unrelate
  <1>2. cache' \in [TagNames -> 0 .. MaxTag] /\ relations' \subseteq Ids \X Ids
    BY <1>1, ParsedType DEF BaseInv, TypeOK
  <1>3. ok' \in BOOLEAN
    BY DEF BaseInv, TypeOK, Unrelate
  <1>4. UNCHANGED <<tags, tagSeq, objects, target, inodeSeq, tagging, requestRest,
                    files, todo, ino, disk>>
    BY DEF Unrelate
  <1> QED  BY <1>1, <1>2, <1>3, <1>4, TagStepBase DEF BaseInv, TypeOK

\* getattr() and readdir() change the cache alone.
LEMMA LookupBase ==
  ASSUME BaseInv, NEW k \in Lookups, Lookup(k)
  PROVE  BaseInv'
  <1>1. k \in TagNames
    BY LookupsAssumption
  <1>2. PICK id : id \in (IF k.kv = NoKV THEN RowsNamed(k) ELSE {tags[k]} \ {0}) /\ Cached(k, id)
    BY DEF Lookup
  <1>3. id \in 0 .. MaxTag
    BY <1>1, <1>2 DEF RowsNamed, BaseInv, TypeOK
  <1>4. UNCHANGED <<tables, saved, files, req, pc, todo, ino, disk, ok, linkVars, crashes, stray>>
    BY DEF Lookup
  <1>5. TypeOK'
    BY <1>1, <1>2, <1>3, <1>4 DEF BaseInv, TypeOK, Cached, tables, linkVars
  <1>6. TablesOK(Tables)'
    BY <1>4 DEF BaseInv, TablesOK, Tables, tables
  <1>7. SavedInv'
    BY <1>4 DEF BaseInv, SavedInv, TablesOK, Tables, tables
  <1>8. RequestInv' /\ LinkInv' /\ ObjectInv'
    BY <1>4 DEF BaseInv, RequestInv, LinkInv, ObjectInv, tables, linkVars
  <1> QED  BY <1>5, <1>6, <1>7, <1>8 DEF BaseInv

\* A path that resolves names an object of that name.
LEMMA GuessProperties ==
  ASSUME NEW ts \in Seq(TagNames), NEW n, NEW i \in Guess(ts, n) \cup GuessAll(n), i # 0
  PROVE  i \in Inodes /\ objects[i] = n
  <1>1. CASE i \in GuessAll(n)
    BY <1>1 DEF GuessAll, Named
  <1>2. CASE i \in Guess(ts, n)
    <2>1. ts # <<>>
      BY <1>2 DEF Guess
    <2>2. /\ i \in Inodes /\ \A k \in TagSet(ts) : i \in NamedAs(n, GetTagId(k))
      BY <1>2, <2>1 DEF Guess
    <2>3. Head(ts) \in TagSet(ts)
      BY <2>1, NextTag
    <2> QED  BY <2>2, <2>3 DEF NamedAs, Named
  <1> QED  BY <1>1, <1>2

\* A request that starts.
LEMMA StartBase ==
  ASSUME BaseInv, NEW r \in Requests, Start(r)
  PROVE  BaseInv'
  <1> USE CatalogBounds, NamesAssumption
  <1>1. /\ WellFormed(r) /\ pc = "idle" /\ Admissible(r) /\ req' = r /\ saved' = Tables
        /\ todo' = r.tags /\ disk' = TRUE /\ ok' = TRUE /\ pc' = First(r.op)
        /\ UNCHANGED <<tables, files, lreq, lpc, ltodo, lino, crashes, stray>>
        /\ \A l \in Linkers : lpc[l] = "idle"
    BY RequestsAssumption DEF Start, linkVars
  <1>2. /\ r.tags \in Seq(TagNames)
        /\ r.op = "mknod" \/ r.op \in {"symlink", "unlink", "unlinkAll", "rename",
              "mktag", "rmtag", "mvtag", "relate", "unrelate"}
    BY <1>1 DEF WellFormed, Creates
  <1>3. /\ r.op = "mknod" => pc' = "insert"
        /\ r.op = "unlink" => pc' = "untag"
        /\ r.op = "unlinkAll" => pc' = "delete"
        /\ r.op = "rename" => pc' = "retitle"
        /\ r.op \in {"symlink", "mktag", "rmtag", "mvtag", "relate", "unrelate"} => pc' = r.op
    BY <1>1 DEF First
  <1>4. cache' \in [TagNames -> 0 .. MaxTag]
    BY ParsedType DEF Start, BaseInv, TypeOK
  <1>5. /\ r.op \in Creates \cup {"mktag", "rmtag", "mvtag", "relate", "unrelate"} => ino' = 0
        /\ r.op \in {"unlink", "rename"} => ino' \in Guess(r.tags, r.name)
        /\ r.op = "unlinkAll" => ino' \in GuessAll(r.name)
    BY DEF Start, Creates
  <1>6. ino' \in Inodes \/ ino' = 0
    <2>1. CASE r.op \in {"unlink", "unlinkAll", "rename"}
      <3>1. ino' \in Guess(r.tags, r.name) \cup GuessAll(r.name)
        BY <1>5, <2>1
      <3> QED  BY <1>2, <3>1, GuessProperties
    <2>2. CASE r.op \notin {"unlink", "unlinkAll", "rename"}
      BY <1>2, <1>5, <2>2 DEF Creates
    <2> QED  BY <2>1, <2>2
  <1>7. ASSUME r.op \in {"unlink", "unlinkAll", "rename"}, ino' # 0 PROVE objects[ino'] = r.name
    <2>1. ino' \in Guess(r.tags, r.name) \cup GuessAll(r.name)
      BY <1>5, <1>7
    <2> QED  BY <1>2, <1>7, <2>1, GuessProperties
  <1>8. TypeOK'
    <2>1. ino' \in 0 .. MaxInode /\ pc' \in Steps
      BY <1>2, <1>3, <1>6 DEF Inodes, Steps
    <2> QED  BY <1>1, <1>2, <1>4, <2>1 DEF BaseInv, TypeOK, tables
  <1>9. TablesOK(Tables)'
    BY <1>1 DEF BaseInv, TablesOK, Tables, tables
  <1>10. SavedInv'
    <2>1. pc' # "idle"
      BY <1>2, <1>3
    <2>2. TablesOK(saved)'
      BY <1>1 DEF BaseInv, TablesOK
    <2> QED  BY <1>1, <2>1, <2>2 DEF SavedInv, Tables
  <1>11. RequestInv'
    <2>1. pc' \in StepsOf(r.op)
      BY <1>2, <1>3 DEF StepsOf
    <2>2. /\ tagSeq' = tagSeq /\ inodeSeq' = inodeSeq
          /\ pc' \notin {"tag", "target"} /\ ~(pc' = "untag" /\ r.op = "rename")
          /\ pc' \in {"insert", "symlink"} => r.op \in Creates
          /\ pc' \in {"mktag", "relate", "rmtag"} => r.op = pc'
          /\ pc' = "retitle" => r.op = "rename"
          /\ pc' = "untag" => r.op = "unlink"
      BY <1>1, <1>2, <1>3 DEF tables, Creates
    <2>3. /\ pc' \in {"insert", "symlink"} => inodeSeq < MaxInode
          /\ pc' \in {"insert", "symlink", "mktag", "relate"} => tagSeq + Len(r.tags) <= MaxTag
          /\ r.op = "rename" => tagSeq + Len(r.toTags) <= MaxTag
      BY <1>1, <2>2 DEF Admissible
    <2>4. pc' \in {"retitle", "untag", "rmtag"} => r.tags # <<>>
      BY <1>1, <1>2, <1>3 DEF WellFormed
    <2> QED  BY <1>1, <2>1, <2>2, <2>3, <2>4 DEF RequestInv
  <1>12. LinkInv'
    BY <1>1 DEF LinkInv
  <1>13. ObjectInv'
    <2>1. objects' = saved'.objects /\ objects' = objects
      BY <1>1 DEF Tables, tables
    <2>2. pc' \notin {"tag", "target", "disk", "end"} /\ (pc' \in {"insert", "symlink"} => ino' = 0)
      BY <1>2, <1>3, <1>5 DEF Creates
    <2>3. /\ r.op \in Creates => pc' \in {"insert", "symlink"}
          /\ r.op = "rename" => pc' = "retitle"
      BY <1>2, <1>3 DEF Creates
    <2> QED  BY <1>1, <1>7, <2>1, <2>2, <2>3 DEF ObjectInv
  <1> QED  BY <1>8, <1>9, <1>10, <1>11, <1>12, <1>13 DEF BaseInv

\* Between requests: the tables are those a transaction would go back to.
LEMMA IdleBase ==
  ASSUME BaseInv, Forget, TablesOK(Tables)', saved' = Tables',
         cache' \in [TagNames -> 0 .. MaxTag], files' = files,
         crashes' \in 0 .. MaxCrashes, stray' \subseteq Inodes, \A l \in Linkers : lpc'[l] = "idle",
         lreq' \in [Linkers -> Links \cup {NoLink}], lpc' \in [Linkers -> LinkSteps],
         ltodo' \in [Linkers -> Seq(TagNames)], lino' \in [Linkers -> 0 .. MaxInode]
  PROVE  BaseInv'
  <1> USE CatalogBounds, NamesAssumption
  <1>1. TypeOK'
    <2>1. TablesOK(Tables)' =>
            /\ tags' \in [TagNames -> 0 .. MaxTag] /\ tagSeq' \in 0 .. MaxTag
            /\ objects' \in [Inodes -> ObjNames \cup {NoName}]
            /\ target' \in [Inodes -> Targets \cup {NoTarget}]
            /\ inodeSeq' \in 0 .. MaxInode
            /\ tagging' \subseteq Inodes \X Ids
            /\ relations' \subseteq Ids \X Ids
      BY DEF TablesOK, Tables
    <2>2. files' \subseteq Inodes \X ObjNames /\ pc' \in Steps /\ ino' \in 0 .. MaxInode
      BY DEF BaseInv, TypeOK, Forget, Steps
    <2>3. todo' \in Seq(TagNames)
      BY EmptySeq DEF Forget
    <2>4. disk' \in BOOLEAN /\ ok' \in BOOLEAN
      BY DEF Forget
    <2> QED  BY <2>1, <2>2, <2>3, <2>4 DEF TypeOK
  <1>2. SavedInv'
    BY DEF SavedInv, Tables, TablesOK
  <1>3. RequestInv'
    BY DEF RequestInv, Forget, NoRequest, StepsOf
  <1>4. saved.objects' = objects' /\ saved.inodeSeq' = inodeSeq'
    BY DEF Tables
  <1>5. LinkInv'
    BY DEF LinkInv
  <1>6. ObjectInv'
    BY <1>4 DEF ObjectInv, Forget, NoRequest, Creates
  <1> QED  BY <1>1, <1>2, <1>3, <1>5, <1>6 DEF BaseInv

\* A request ends, or the process does.
LEMMA EndBase ==
  ASSUME BaseInv, Commit \/ Rollback \/ Crash
  PROVE  BaseInv'
  <1> USE CatalogBounds
  <1>1. \/ saved' = Tables /\ UNCHANGED tables
        \/ Restore(saved) /\ saved' = saved
    BY DEF Commit, Rollback, Crash
  <1>2. TablesOK(Tables)' /\ saved' = Tables'
    <2>1. CASE saved' = Tables /\ UNCHANGED tables
      BY <2>1 DEF BaseInv, TablesOK, Tables, tables
    <2>2. CASE Restore(saved) /\ saved' = saved
      BY <2>2 DEF BaseInv, SavedInv, TablesOK, Tables, Restore
    <2> QED  BY <1>1, <2>1, <2>2
  <1>3. /\ Forget /\ files' = files /\ cache' \in [TagNames -> 0 .. MaxTag]
        /\ crashes' \in 0 .. MaxCrashes
    BY DEF Commit, Rollback, Crash, BaseInv, TypeOK, Empty
  <1>4. /\ stray' \subseteq Inodes /\ (\A l \in Linkers : lpc'[l] = "idle")
        /\ lreq' \in [Linkers -> Links \cup {NoLink}] /\ lpc' \in [Linkers -> LinkSteps]
        /\ ltodo' \in [Linkers -> Seq(TagNames)] /\ lino' \in [Linkers -> 0 .. MaxInode]
    <2>1. CASE Commit \/ Rollback
      <3>1. UNCHANGED <<lreq, lpc, ltodo, lino, stray>> /\ pc # "idle"
        BY <2>1 DEF Commit, Rollback, linkVars
      <3> QED  BY <3>1 DEF BaseInv, TypeOK, LinkInv
    <2>2. CASE Crash
      <3>1. /\ lreq' = [l \in Linkers |-> NoLink] /\ lpc' = [l \in Linkers |-> "idle"]
            /\ ltodo' = [l \in Linkers |-> <<>>] /\ lino' = [l \in Linkers |-> 0]
            /\ stray' = stray \cup Linking
        BY <2>2 DEF Crash
      <3>2. Linking \subseteq Inodes
        BY DEF BaseInv, LinkInv, Linking
      <3>3. <<>> \in Seq(TagNames)
        BY EmptySeq
      <3> QED  BY <3>1, <3>2, <3>3 DEF BaseInv, TypeOK, LinkSteps
    <2> QED  BY <2>1, <2>2
  <1> QED  BY <1>2, <1>3, <1>4, IdleBase

\* The steps of link(), between transactions: what it writes is there to stay.
LEMMA BesideBase ==
  ASSUME BaseInv, pc = "idle", UNCHANGED linkRest, TypeOK', TablesOK(Tables)', saved' = Tables',
         LinkInv'
  PROVE  BaseInv'
  <1>1. UNCHANGED <<req, pc, todo, ino, disk, ok, crashes>>
    BY DEF linkRest
  <1>2. SavedInv'
    BY DEF SavedInv, Tables, TablesOK
  <1>3. req = NoRequest \/ req \in Requests
    BY DEF BaseInv, RequestInv
  <1>4. pc \in StepsOf(req.op) /\ ok
    BY DEF BaseInv, RequestInv
  <1>5. RequestInv'
    BY <1>1, <1>3, <1>4 DEF RequestInv
  <1>6. saved'.objects = objects'
    BY DEF Tables
  <1>7. req.op \notin Creates \cup {"unlink", "unlinkAll", "rename"}
    BY <1>4 DEF StepsOf, Creates
  <1>8. ObjectInv'
    BY <1>1, <1>6, <1>7 DEF ObjectInv, Creates
  <1> QED  BY <1>2, <1>5, <1>8 DEF BaseInv

\* link() starts: its tags are looked up.
LEMMA LinkStartBase ==
  ASSUME BaseInv, NEW l \in Linkers, NEW r \in Links, LinkStart(l, r)
  PROVE  BaseInv'
  <1>1. /\ pc = "idle" /\ lpc[l] = "idle" /\ cache' = Parsed(r.tags)
        /\ lreq' = [lreq EXCEPT ![l] = r] /\ ltodo' = [ltodo EXCEPT ![l] = r.tags]
        /\ lpc' = [lpc EXCEPT ![l] = "insert"]
        /\ UNCHANGED <<tables, saved, files, lino, linkRest, stray>>
    BY DEF LinkStart
  <1>2. UNCHANGED <<tags, tagSeq, objects, target, inodeSeq, tagging, relations, req, pc, todo,
                    ino, disk, ok, crashes>>
    BY <1>1 DEF tables, linkRest
  <1>3. r.tags \in Seq(TagNames)
    BY LinksAssumption
  <1>4. cache' \in [TagNames -> 0 .. MaxTag]
    BY <1>1, ParsedType DEF BaseInv
  <1>5. TypeOK'
    BY <1>1, <1>2, <1>3, <1>4 DEF BaseInv, TypeOK, LinkSteps
  <1>6. TablesOK(Tables)' /\ Tables' = Tables
    BY <1>2 DEF BaseInv, TablesOK, Tables
  <1>7. saved' = Tables'
    BY <1>1, <1>6 DEF BaseInv, SavedInv
  <1>8. /\ \A m \in Linkers \ {l} : lreq'[m] = lreq[m] /\ lpc'[m] = lpc[m] /\ ltodo'[m] = ltodo[m]
        /\ lpc'[l] = "insert" /\ lreq'[l] = r /\ ltodo'[l] = r.tags
    BY <1>1 DEF BaseInv, TypeOK
  <1>9. LinkInv'
    BY <1>1, <1>2, <1>8 DEF BaseInv, LinkInv
  <1> QED  BY <1>1, <1>5, <1>6, <1>7, <1>9, BesideBase

\* Its object is numbered beyond all others.
LEMMA LinkInsertBase ==
  ASSUME BaseInv, NEW l \in Linkers, LinkInsert(l)
  PROVE  BaseInv'
  <1> DEFINE n == inodeSeq + 1
             name == lreq[l].name
  <1> USE CatalogBounds, NamesAssumption
  <1>1. /\ lpc[l] = "insert" /\ inodeSeq < MaxInode /\ inodeSeq' = n
        /\ objects' = [objects EXCEPT ![n] = name]
        /\ lino' = [lino EXCEPT ![l] = n]
        /\ lpc' = [lpc EXCEPT ![l] = IF ltodo[l] = <<>> THEN "disk" ELSE "tag"]
        /\ saved' = [Tables EXCEPT !.objects = objects', !.inodeSeq = inodeSeq']
        /\ UNCHANGED <<tags, tagSeq, target, tagging, relations, cache, files, lreq, ltodo, stray>>
        /\ UNCHANGED linkRest
    BY DEF LinkInsert
  <1>2. UNCHANGED <<req, pc, todo, ino, disk, ok, crashes>>
    BY <1>1 DEF linkRest
  <1>3. pc = "idle" /\ lreq[l] \in Links /\ name \in ObjNames /\ name # NoName
    <2>1. pc = "idle" /\ lreq[l] \in Links
      BY <1>1 DEF BaseInv, LinkInv
    <2> QED  BY <2>1, LinksAssumption
  <1>4. n \in Inodes /\ inodeSeq \in Nat /\ n \in 0 .. MaxInode
    <2>1. inodeSeq \in 0 .. MaxInode
      BY DEF BaseInv, TypeOK
    <2>2. inodeSeq < MaxInode
      BY <1>1
    <2> QED  BY <2>1, <2>2 DEF Inodes
  <1>5. objects \in [Inodes -> ObjNames \cup {NoName}] /\ lpc \in [Linkers -> LinkSteps]
        /\ lino \in [Linkers -> 0 .. MaxInode] /\ tagging \subseteq Inodes \X Ids
    BY DEF BaseInv, TypeOK
  <1>6. /\ \A e \in tagging : objects[e[1]] # NoName
        /\ \A i \in Inodes : objects[i] # NoName => i <= inodeSeq
        /\ \A i \in Inodes : objects[i] = NoName => target[i] = NoTarget
    BY CurrentTables DEF BaseInv
  <1>7. objects[n] = NoName
    BY <1>4, <1>6
  <1>8. \A i \in Inodes : objects'[i] = IF i = n THEN name ELSE objects[i]
    BY <1>1, <1>5
  <1> HIDE DEF n, name
  <1>9. TypeOK'
    <2>1. objects' \in [Inodes -> ObjNames \cup {NoName}]
      BY <1>1, <1>3, <1>4, <1>5
    <2>2. lpc' \in [Linkers -> LinkSteps]
      BY <1>1, <1>5 DEF LinkSteps
    <2>3. lino' \in [Linkers -> 0 .. MaxInode] /\ inodeSeq' \in 0 .. MaxInode
      BY <1>1, <1>4, <1>5
    <2> QED  BY <1>1, <1>2, <2>1, <2>2, <2>3 DEF BaseInv, TypeOK
  <1>10. TablesOK(Tables)'
    <2>1. \A i \in Inodes : objects'[i] # NoName => i <= inodeSeq'
      <3>1. inodeSeq < n
        BY <1>4 DEF n
      <3> QED  BY <1>1, <1>4, <1>6, <1>8, <3>1 DEF Inodes
    <2>2. \A e \in tagging' : objects'[e[1]] # NoName
      BY <1>1, <1>3, <1>5, <1>6, <1>8
    <2>3. \A i \in Inodes : objects'[i] = NoName => target'[i] = NoTarget
      BY <1>1, <1>3, <1>6, <1>8
    <2> QED  BY <1>9, <2>1, <2>2, <2>3, NextTables
  <1>11. saved' = Tables'
    BY <1>1 DEF Tables
  <1>12. /\ \A m \in Linkers \ {l} : lpc'[m] = lpc[m] /\ lino'[m] = lino[m]
         /\ lpc'[l] \in {"tag", "disk"} /\ (lpc'[l] = "tag" => ltodo[l] # <<>>) /\ lino'[l] = n
    BY <1>1, <1>5
  <1>13. \A m \in Linkers : lpc[m] \in {"tag", "disk"} =>
            /\ lreq[m] \in Links /\ lino[m] \in Inodes /\ objects[lino[m]] = lreq[m].name
            /\ lino[m] # n
    <2> SUFFICES ASSUME NEW m \in Linkers, lpc[m] \in {"tag", "disk"}
                 PROVE  /\ lreq[m] \in Links /\ lino[m] \in Inodes /\ objects[lino[m]] = lreq[m].name
                        /\ lino[m] # n
      OBVIOUS
    <2>1. lreq[m] \in Links /\ lino[m] \in Inodes /\ objects[lino[m]] = lreq[m].name
      BY DEF BaseInv, LinkInv
    <2>2. lreq[m].name # NoName
      BY <2>1, LinksAssumption
    <2> QED  BY <1>7, <2>1, <2>2
  <1>14. LinkInv'
    <2>1. \A m \in Linkers : lpc'[m] # "idle" => lreq'[m] \in Links
      BY <1>1, <1>3, <1>12 DEF BaseInv, LinkInv
    <2>2. \A m \in Linkers : lpc'[m] = "tag" => ltodo'[m] # <<>>
      BY <1>1, <1>12 DEF BaseInv, LinkInv
    <2>3. \A m \in Linkers : lpc'[m] \in {"tag", "disk"} =>
            lino'[m] \in Inodes /\ objects'[lino'[m]] = lreq'[m].name
      BY <1>1, <1>4, <1>8, <1>12, <1>13 DEF name
    <2>4. \A k, m \in Linkers : lpc'[k] \in {"tag", "disk"} /\ lpc'[m] \in {"tag", "disk"}
                                /\ lino'[k] = lino'[m] => k = m
      BY <1>12, <1>13 DEF BaseInv, LinkInv
    <2>5. \A m \in Linkers : lpc'[m] # "idle" => TagSet(ltodo'[m]) \subseteq TagSet(lreq'[m].tags)
      BY <1>1, <1>12 DEF BaseInv, LinkInv
    <2> QED  BY <1>2, <1>3, <2>1, <2>2, <2>3, <2>4, <2>5 DEF LinkInv
  <1> QED  BY <1>1, <1>3, <1>9, <1>10, <1>11, <1>14, BesideBase

\* Its object exists when it is tagged.
LEMMA LinkTagBase ==
  ASSUME BaseInv, NEW l \in Linkers, LinkTag(l)
  PROVE  BaseInv'
  <1> DEFINE k == Head(ltodo[l])
             id == FoundOrCreated(k)
  <1> USE CatalogBounds
  <1>1. /\ lpc[l] = "tag" /\ (GetTagId(k) # 0 \/ tagSeq < MaxTag)
        /\ IF GetTagId(k) = 0 THEN CreateTag(k) ELSE UNCHANGED <<tags, tagSeq>>
        /\ Cached(k, id)
        /\ tagging' = tagging \cup {<<lino[l], id>>}
        /\ ltodo' = [ltodo EXCEPT ![l] = Tail(ltodo[l])]
        /\ lpc' = [lpc EXCEPT ![l] = IF Tail(ltodo[l]) = <<>> THEN "disk" ELSE "tag"]
        /\ saved' = [Tables EXCEPT !.tags = tags', !.tagSeq = tagSeq', !.tagging = tagging']
        /\ UNCHANGED <<objects, target, inodeSeq, relations, files, lreq, lino, stray>>
        /\ UNCHANGED linkRest
    BY DEF LinkTag
  <1>2. UNCHANGED <<req, pc, todo, ino, disk, ok, crashes>>
    BY <1>1 DEF linkRest
  <1>3. /\ pc = "idle" /\ lino[l] \in Inodes /\ ltodo[l] # <<>> /\ lreq[l] \in Links
        /\ objects[lino[l]] = lreq[l].name
    BY <1>1 DEF BaseInv, LinkInv
  <1>4. ltodo[l] \in Seq(TagNames) /\ ltodo \in [Linkers -> Seq(TagNames)]
        /\ lpc \in [Linkers -> LinkSteps]
    BY DEF BaseInv, TypeOK
  <1>5. k \in TagNames /\ Tail(ltodo[l]) \in Seq(TagNames)
    BY <1>3, <1>4, NextTag
  <1> HIDE DEF k
  <1>6. tags' \in [TagNames -> 0 .. MaxTag] /\ tagSeq' \in 0 .. MaxTag /\ id \in Ids
    <2>1. tags \in [TagNames -> 0 .. MaxTag] /\ tagSeq \in 0 .. MaxTag /\ GetTagId(k) \in 0 .. MaxTag
      BY <1>5, TagIdType DEF BaseInv, TypeOK
    <2>2. CASE GetTagId(k) # 0
      BY <1>1, <2>1, <2>2 DEF FoundOrCreated, Ids
    <2>3. CASE GetTagId(k) = 0
      <3>1. CreateTag(k) /\ tagSeq < MaxTag
        BY <1>1, <2>3
      <3>2. tags' \in [TagNames -> 0 .. MaxTag] /\ tagSeq' \in 0 .. MaxTag
        BY <1>5, <3>1, CreateTagType DEF BaseInv
      <3>3. tagSeq + 1 \in Ids
        BY <2>1, <3>1 DEF Ids
      <3>4. id = tagSeq + 1
        BY <2>3 DEF FoundOrCreated
      <3> QED  BY <3>2, <3>3, <3>4
    <2> QED  BY <2>2, <2>3
  <1> HIDE DEF id
  <1>7. cache' \in [TagNames -> 0 .. MaxTag]
    <2>1. cache \in [TagNames -> 0 .. MaxTag]
      BY DEF BaseInv, TypeOK
    <2>2. id \in 0 .. MaxTag
      BY <1>6 DEF Ids
    <2>3. cache' = [cache EXCEPT ![k] = id]
      BY <1>1 DEF Cached
    <2> QED  BY <2>1, <2>2, <2>3
  <1>8. tagging' \subseteq Inodes \X Ids
    <2>1. tagging \subseteq Inodes \X Ids
      BY DEF BaseInv, TypeOK
    <2>2. tagging' = tagging \cup {<<lino[l], id>>}
      BY <1>1
    <2> QED  BY <1>3, <1>6, <2>1, <2>2
  <1>9. ltodo' \in [Linkers -> Seq(TagNames)] /\ lpc' \in [Linkers -> LinkSteps]
    BY <1>1, <1>4, <1>5 DEF LinkSteps
  <1>10. TypeOK'
    BY <1>1, <1>2, <1>6, <1>7, <1>8, <1>9 DEF BaseInv, TypeOK
  <1>11. TablesOK(Tables)'
    <2>1. /\ \A e \in tagging : objects[e[1]] # NoName
          /\ \A i \in Inodes : objects[i] # NoName => i <= inodeSeq
          /\ \A i \in Inodes : objects[i] = NoName => target[i] = NoTarget
      BY CurrentTables DEF BaseInv
    <2>2. objects[lino[l]] # NoName
      BY <1>3, LinksAssumption, NamesAssumption
    <2>3. \A e \in tagging' : objects'[e[1]] # NoName
      BY <1>1, <2>1, <2>2
    <2> QED  BY <1>1, <1>10, <2>1, <2>3, NextTables
  <1>12. saved' = Tables'
    BY <1>1 DEF Tables
  <1>13. /\ \A m \in Linkers \ {l} : lpc'[m] = lpc[m] /\ ltodo'[m] = ltodo[m]
         /\ lpc'[l] \in {"tag", "disk"} /\ (lpc'[l] = "tag" => ltodo'[l] # <<>>)
    BY <1>1, <1>4
  <1>14. \A m \in Linkers : lpc'[m] \in {"tag", "disk"} => lpc[m] \in {"tag", "disk"}
    BY <1>1, <1>13
  <1>15. LinkInv'
    <2>1. \A m \in Linkers : lpc'[m] # "idle" => lreq'[m] \in Links
      BY <1>1, <1>3, <1>13 DEF BaseInv, LinkInv
    <2>2. \A m \in Linkers : lpc'[m] = "tag" => ltodo'[m] # <<>>
      BY <1>13 DEF BaseInv, LinkInv
    <2>3. \A m \in Linkers : lpc'[m] \in {"tag", "disk"} =>
            lino'[m] \in Inodes /\ objects'[lino'[m]] = lreq'[m].name
      BY <1>1, <1>14 DEF BaseInv, LinkInv
    <2>4. \A i, m \in Linkers : lpc'[i] \in {"tag", "disk"} /\ lpc'[m] \in {"tag", "disk"}
                                /\ lino'[i] = lino'[m] => i = m
      BY <1>1, <1>14 DEF BaseInv, LinkInv
    <2>5. TagSet(ltodo'[l]) \subseteq TagSet(ltodo[l])
      BY <1>1, <1>3, <1>4, NextTag
    <2>6. \A m \in Linkers : lpc'[m] # "idle" => TagSet(ltodo'[m]) \subseteq TagSet(lreq'[m].tags)
      BY <1>1, <1>13, <2>5 DEF BaseInv, LinkInv
    <2> QED  BY <1>2, <1>3, <2>1, <2>2, <2>3, <2>4, <2>6 DEF LinkInv
  <1> QED  BY <1>1, <1>3, <1>10, <1>11, <1>12, <1>15, BesideBase

\* It ends, with its file or without.
LEMMA LinkEndBase ==
  ASSUME BaseInv, NEW l \in Linkers, LinkDone(l) \/ LinkFailed(l)
  PROVE  BaseInv'
  <1>1. /\ lpc[l] = "disk" /\ UNCHANGED <<tables, saved, cache>> /\ UNCHANGED linkRest
        /\ lreq' = [lreq EXCEPT ![l] = NoLink] /\ lpc' = [lpc EXCEPT ![l] = "idle"]
        /\ ltodo' = [ltodo EXCEPT ![l] = <<>>] /\ lino' = [lino EXCEPT ![l] = 0]
    BY DEF LinkDone, LinkFailed, LinkForget
  <1>2. UNCHANGED <<tags, tagSeq, objects, target, inodeSeq, tagging, relations, req, pc, todo,
                    ino, disk, ok, crashes>>
    BY <1>1 DEF tables, linkRest
  <1>3. /\ pc = "idle" /\ lino[l] \in Inodes /\ lreq[l] \in Links
        /\ lreq[l].name \in ObjNames
    <2>1. pc = "idle" /\ lino[l] \in Inodes /\ lreq[l] \in Links
      BY <1>1 DEF BaseInv, LinkInv
    <2> QED  BY <2>1, LinksAssumption
  <1>4. files' \subseteq Inodes \X ObjNames /\ stray' \subseteq Inodes
    BY <1>3 DEF LinkDone, LinkFailed, BaseInv, TypeOK
  <1>5. /\ lreq' \in [Linkers -> Links \cup {NoLink}] /\ lpc' \in [Linkers -> LinkSteps]
        /\ ltodo' \in [Linkers -> Seq(TagNames)] /\ lino' \in [Linkers -> 0 .. MaxInode]
    <2>1. <<>> \in Seq(TagNames) /\ 0 \in 0 .. MaxInode
      BY EmptySeq, CatalogBounds
    <2> QED  BY <1>1, <2>1 DEF BaseInv, TypeOK, LinkSteps
  <1>6. TypeOK'
    BY <1>1, <1>2, <1>4, <1>5 DEF BaseInv, TypeOK
  <1>7. TablesOK(Tables)' /\ Tables' = Tables
    BY <1>2 DEF BaseInv, TablesOK, Tables
  <1>8. saved' = Tables'
    BY <1>1, <1>3, <1>7 DEF BaseInv, SavedInv
  <1>9. /\ \A m \in Linkers \ {l} : /\ lreq'[m] = lreq[m] /\ lpc'[m] = lpc[m]
                                    /\ ltodo'[m] = ltodo[m] /\ lino'[m] = lino[m]
        /\ lpc'[l] = "idle"
    BY <1>1 DEF BaseInv, TypeOK
  <1>10. LinkInv'
    BY <1>2, <1>3, <1>9 DEF BaseInv, LinkInv
  <1> QED  BY <1>1, <1>3, <1>6, <1>7, <1>8, <1>10, BesideBase

\* Nothing moves.
LEMMA StutterBase ==
  ASSUME BaseInv, UNCHANGED vars
  PROVE  BaseInv'
  <1>1. TypeOK' /\ TablesOK(Tables)'
    BY DEF BaseInv, TypeOK, TablesOK, Tables, vars
  <1>2. SavedInv'
    BY DEF BaseInv, SavedInv, TablesOK, Tables, vars
  <1>3. RequestInv' /\ LinkInv' /\ ObjectInv'
    BY DEF BaseInv, RequestInv, LinkInv, ObjectInv, vars
  <1> QED  BY <1>1, <1>2, <1>3 DEF BaseInv

\* Every step keeps the invariant.
LEMMA BaseStep ==
  ASSUME BaseInv, [Next]_vars
  PROVE  BaseInv'
  <1>1. ASSUME Insert \/ SymlinkNew PROVE BaseInv'
    BY <1>1, InsertBase DEF Insert, SymlinkNew
  <1> QED
    BY <1>1, SymlinkKnownBase, TagObjectBase, SetTargetBase, UntagObjectBase, CheckTaggedBase,
       DeleteObjectBase, RenameObjectBase, DiskBase, MakeTagBase, DeleteTagBase, RenameTagBase,
       RelateBase, UnrelateBase, LookupBase, StartBase, EndBase, StutterBase,
       LinkStartBase, LinkInsertBase, LinkTagBase, LinkEndBase
    DEF Next, Object, Tag, Destroy, LinkStep

\* The first state has no rows and no request.
LEMMA BaseInit ==
  ASSUME Init
  PROVE  BaseInv
  <1> USE CatalogBounds
  <1>1. TypeOK
    <2>1. /\ tags \in [TagNames -> 0 .. MaxTag] /\ cache \in [TagNames -> 0 .. MaxTag]
          /\ objects \in [Inodes -> ObjNames \cup {NoName}]
          /\ target \in [Inodes -> Targets \cup {NoTarget}]
      BY DEF Init, Empty
    <2>2. todo \in Seq(TagNames)
      BY EmptySeq DEF Init
    <2>3. /\ disk \in BOOLEAN /\ ok \in BOOLEAN
          /\ tagging \subseteq Inodes \X Ids /\ relations \subseteq Ids \X Ids
          /\ files \subseteq Inodes \X ObjNames
      BY DEF Init
    <2>4. /\ lreq \in [Linkers -> Links \cup {NoLink}] /\ lpc \in [Linkers -> LinkSteps]
          /\ ltodo \in [Linkers -> Seq(TagNames)] /\ lino \in [Linkers -> 0 .. MaxInode]
      BY EmptySeq DEF Init, LinkSteps
    <2> QED  BY <2>1, <2>2, <2>3, <2>4 DEF Init, TypeOK, Steps
  <1>2. TablesOK(Tables)
    BY <1>1, CurrentTables DEF Init, TypeOK
  <1>3. SavedInv
    BY <1>2 DEF Init, SavedInv, Tables
  <1>4. saved.objects = objects /\ saved.inodeSeq = inodeSeq
    BY DEF Init, Tables
  <1>5. RequestInv
    BY DEF Init, RequestInv, NoRequest, StepsOf
  <1>6. LinkInv /\ ObjectInv
    BY <1>4 DEF Init, LinkInv, ObjectInv, NoRequest, Creates
  <1> QED  BY <1>1, <1>2, <1>3, <1>5, <1>6 DEF BaseInv

\* The invariant holds of every state, whatever is asked.
THEOREM BaseHolds == Spec => []BaseInv
  <1>1. Init => BaseInv
    BY BaseInit
  <1>2. BaseInv /\ [Next]_vars => BaseInv'
    BY BaseStep
  <1> QED  BY <1>1, <1>2, PTL DEF Spec

-----------------------------------------------------------------------------
(* Results that hold whatever is asked                                     *)

\* The catalogue's variables keep their types.
THEOREM CatalogTypes == Spec => []TypeOK
  <1>1. BaseInv => TypeOK
    BY DEF BaseInv
  <1> QED  BY <1>1, BaseHolds, PTL

\* No row of the tagging table outlives the object it tags: not at any moment
\* of any handler, not after a rollback and not after a kill.
THEOREM NoOrphanTaggings == Spec => []TaggedObjectsExist
  <1>1. BaseInv => TaggedObjectsExist
    BY CurrentTables DEF BaseInv, TaggedObjectsExist
  <1> QED  BY <1>1, BaseHolds, PTL

-----------------------------------------------------------------------------
(* Rows and files                                                          *)

\* There are finitely many objects, so damage can be counted.
LEMMA DamageCounts ==
  ASSUME NEW S, NEW T, T \subseteq Inodes, S \subseteq T
  PROVE  /\ IsFiniteSet(S) /\ IsFiniteSet(T)
         /\ Cardinality(S) \in Nat /\ Cardinality(T) \in Nat
         /\ Cardinality(S) <= Cardinality(T)
  <1>1. IsFiniteSet(Inodes)
    BY CatalogBounds, FS_Interval DEF Inodes
  <1>2. IsFiniteSet(T)
    BY <1>1, FS_Subset
  <1>3. IsFiniteSet(S) /\ Cardinality(S) <= Cardinality(T)
    BY <1>2, FS_Subset
  <1> QED  BY <1>2, <1>3, FS_CardinalityType

\* One more object, at most one more count.
LEMMA DamageOfOneMore ==
  ASSUME NEW S, NEW T, NEW i, S \subseteq Inodes, T \subseteq Inodes, S \ {i} \subseteq T
  PROVE  Cardinality(S) <= Cardinality(T) + 1
  <1>1. IsFiniteSet(T) /\ Cardinality(T) \in Nat
    BY DamageCounts
  <1>2. /\ IsFiniteSet(T \cup {i})
        /\ Cardinality(T \cup {i}) = (IF i \in T THEN Cardinality(T) ELSE Cardinality(T) + 1)
    BY <1>1, FS_AddElement
  <1>3. S \subseteq T \cup {i}
    OBVIOUS
  <1>4. Cardinality(S) <= Cardinality(T \cup {i}) /\ Cardinality(S) \in Nat
    BY <1>2, <1>3, FS_Subset, FS_CardinalityType
  <1> QED  BY <1>1, <1>2, <1>4

\* Two versions of a table that differ in one object agree on the damage of
\* the others.
LEMMA DamageElsewhere ==
  ASSUME NEW f, NEW g, NEW i, \A j \in Inodes : j # i => f[j] = g[j]
  PROVE  Damaged(f) \subseteq Inodes /\ Damaged(f) \ {i} \subseteq Damaged(g)
  BY DEF Damaged, Expected

\* The link()s in progress, while none moves.
LEMMA SameLinking ==
  ASSUME UNCHANGED <<lpc, lino>>
  PROVE  Linking' = Linking
  BY DEF Linking

\* A transaction runs beside no link().
LEMMA NoLinking ==
  ASSUME BaseInv, pc # "idle"
  PROVE  Linking = {}
  BY DEF BaseInv, LinkInv, Linking

\* A step that leaves the archive alone, and ends the request, if it does, with
\* the objects it began with.
LEMMA DamageKept ==
  ASSUME DamageInv, UNCHANGED <<saved, files, lpc, lino, crashes, stray>>, pc # "end",
         pc' # "end" \/ objects' = saved.objects
  PROVE  DamageInv'
  <1>1. Cardinality(Damaged(saved.objects)) <= crashes
    BY DEF DamageInv
  <1>2. Damaged(saved.objects)' = Damaged(saved.objects)
    BY SameLinking DEF Damaged, Expected
  <1>3. CASE objects' = saved.objects
    <2>1. Damaged(objects)' = Damaged(saved.objects)
      BY <1>3, SameLinking DEF Damaged, Expected
    <2> QED  BY <1>1, <1>2, <2>1 DEF DamageInv
  <1>4. CASE pc' # "end"
    BY <1>1, <1>2, <1>4 DEF DamageInv
  <1> QED  BY <1>3, <1>4

\* The system call does in the archive what the tables will commit.
LEMMA DiskDoneDamage ==
  ASSUME BaseInv, DamageInv, DiskDone
  PROVE  DamageInv'
  <1> DEFINE before(i) == {n \in ObjNames : <<i, n>> \in files}
             after(i) == {n \in ObjNames : <<i, n>> \in files'}
  <1>1. /\ pc = "disk" /\ pc' = "end" /\ DiskPossible /\ WellFormed(req)
        /\ UNCHANGED <<tables, requestRest, ino, disk, ok>>
        /\ req.op \in Creates \cup {"unlink", "unlinkAll", "rename"}
    BY RequestFacts DEF BaseInv, DiskDone
  <1>2. req.name \in ObjNames /\ (req.op = "rename" => req.toName \in ObjNames)
    BY <1>1 DEF WellFormed
  <1>3. ino \in Inodes /\ disk
    BY <1>1 DEF BaseInv, ObjectInv, TypeOK, DiskPossible, File
  <1>4. \A i \in Inodes : i # ino => after(i) = before(i) /\ objects[i] = saved.objects[i]
    <2>1. \A i, n : i # ino => (<<i, n>> \in files' <=> <<i, n>> \in files)
      BY <1>1 DEF DiskDone, File, Creates
    <2> QED  BY <2>1 DEF BaseInv, ObjectInv
  <1>5. before(ino) = (IF saved.objects[ino] = NoName THEN {} ELSE {saved.objects[ino]})
          => after(ino) = (IF objects[ino] = NoName THEN {} ELSE {objects[ino]})
    <2> USE NamesAssumption
    <2>1. CASE req.op \in Creates
      <3>1. saved.objects[ino] = NoName /\ objects[ino] = req.name /\ files' = files \cup {<<ino, req.name>>}
        BY <1>1, <1>3, <2>1 DEF BaseInv, ObjectInv, DiskDone, File
      <3> QED  BY <1>2, <3>1
    <2>2. CASE req.op = "rename"
      <3>1. /\ saved.objects[ino] = req.name /\ objects[ino] = req.toName
            /\ files' = (files \ {<<ino, req.name>>}) \cup {<<ino, req.toName>>}
        BY <1>1, <1>3, <2>2 DEF BaseInv, ObjectInv, DiskDone, File, Creates
      <3> QED  BY <1>2, <2>2, <3>1
    <2>3. CASE req.op \in {"unlink", "unlinkAll"}
      <3>1. ino # 0
        BY <1>3, CatalogBounds DEF Inodes
      <3>2. /\ saved.objects[ino] = req.name /\ objects[ino] = NoName
            /\ files' = files \ {<<ino, req.name>>}
        BY <1>1, <2>3, <3>1 DEF BaseInv, ObjectInv, DiskDone, File, Creates
      <3> QED  BY <1>2, <3>2
    <2> QED  BY <1>1, <2>1, <2>2, <2>3
  <1>6. Damaged(objects)' \subseteq Damaged(saved.objects)
    <2>1. objects' = objects /\ stray' = stray /\ Linking = {} /\ Linking' = {}
      BY <1>1, NoLinking, SameLinking DEF tables, requestRest
    <2> QED  BY <1>3, <1>4, <1>5, <2>1 DEF Damaged, Expected
  <1>7. Damaged(saved.objects)' \ {ino'} \subseteq Damaged(objects)'
    <2>1. objects' = objects /\ saved' = saved /\ ino' = ino
      BY <1>1 DEF tables, requestRest
    <2> QED  BY <1>4, <2>1 DEF Damaged, Expected
  <1>8. Cardinality(Damaged(saved.objects)) <= crashes
    BY <1>1 DEF DamageInv
  <1>9. Cardinality(Damaged(objects)') <= Cardinality(Damaged(saved.objects))
        /\ Cardinality(Damaged(objects)') \in Nat /\ Cardinality(Damaged(saved.objects)) \in Nat
    <2>1. Damaged(saved.objects) \subseteq Inodes
      BY DEF Damaged
    <2> QED  BY <1>6, <2>1, DamageCounts
  <1>10. Cardinality(Damaged(objects)') <= crashes'
    BY <1>1, <1>8, <1>9, CatalogBounds DEF requestRest, BaseInv, TypeOK
  <1>11. ok'
    BY <1>1 DEF BaseInv, RequestInv
  <1> QED  BY <1>1, <1>7, <1>10, <1>11 DEF DamageInv

\* At the end of a request, or of the process, one object more is damaged at
\* most, and only where it is counted; the link()s a kill stops become strays.
LEMMA EndDamage ==
  ASSUME BaseInv, DamageInv, Commit \/ Rollback \/ Crash
  PROVE  DamageInv'
  <1> DEFINE now == Cardinality(Damaged(objects))
             then == Cardinality(Damaged(saved.objects))
  <1>1. pc' = "idle" /\ files' = files
    BY DEF Commit, Rollback, Crash, Forget
  <1>2. now \in Nat /\ then \in Nat /\ now <= then + 1 /\ crashes \in Nat
    <2>1. \A j \in Inodes : j # ino => objects[j] = saved.objects[j]
      BY DEF BaseInv, ObjectInv
    <2>2. /\ Damaged(objects) \subseteq Inodes /\ Damaged(saved.objects) \subseteq Inodes
          /\ Damaged(objects) \ {ino} \subseteq Damaged(saved.objects)
      BY <2>1, DamageElsewhere
    <2>3. now \in Nat /\ then \in Nat
      BY <2>2, DamageCounts
    <2>4. now <= then + 1
      BY <2>2, DamageOfOneMore
    <2>5. crashes \in Nat
      BY DEF BaseInv, TypeOK
    <2> QED  BY <2>3, <2>4, <2>5
  <1>3. IF pc = "end" /\ ok THEN now <= crashes /\ then <= now + 1
                            ELSE then <= crashes
    <2>1. CASE pc = "end" /\ ok
      <3>1. /\ Damaged(objects) \subseteq Inodes /\ Damaged(saved.objects) \subseteq Inodes
            /\ Damaged(saved.objects) \ {ino} \subseteq Damaged(objects)
        BY <2>1 DEF DamageInv, Damaged
      <3>2. then <= now + 1
        BY <3>1, DamageOfOneMore
      <3> QED  BY <2>1, <3>2 DEF DamageInv
    <2>2. CASE ~(pc = "end" /\ ok)
      BY <2>2 DEF DamageInv
    <2> QED  BY <2>1, <2>2
  <1>4. Cardinality(Damaged(saved.objects)') <= crashes'
    <2> HIDE DEF now, then
    <2>1. CASE Commit
      <3>1. /\ pc = "end" /\ ok /\ saved'.objects = objects
            /\ UNCHANGED <<lpc, lino, crashes, stray>>
        BY <2>1 DEF Commit, Tables, linkVars
      <3>2. now <= crashes
        BY <1>3, <3>1
      <3>3. Cardinality(Damaged(saved.objects)') = now
        BY <1>1, <3>1, SameLinking DEF Damaged, Expected, now
      <3> QED  BY <3>1, <3>2, <3>3
    <2>2. CASE Rollback
      <3>1. ~ok /\ UNCHANGED <<saved, lpc, lino, crashes, stray>>
        BY <2>2 DEF Rollback, linkVars
      <3>2. then <= crashes
        BY <1>3, <3>1
      <3>3. Cardinality(Damaged(saved.objects)') = then
        BY <1>1, <3>1, SameLinking DEF Damaged, Expected, then
      <3> QED  BY <3>1, <3>2, <3>3
    <2>3. CASE Crash
      <3>1. crashes' = crashes + 1 /\ stray' = stray \cup Linking /\ saved' = saved
        BY <2>3 DEF Crash
      <3>2. Linking' = {}
        BY <2>3 DEF Crash, Linking
      <3>3. Damaged(saved.objects)' \subseteq Damaged(saved.objects)
        BY <1>1, <3>1, <3>2 DEF Damaged, Expected
      <3>4. Damaged(saved.objects) \subseteq Inodes
        BY DEF Damaged
      <3>5. Cardinality(Damaged(saved.objects)') <= then /\ Cardinality(Damaged(saved.objects)') \in Nat
        BY <3>3, <3>4, DamageCounts DEF then
      <3> QED  BY <1>2, <1>3, <3>1, <3>5
    <2> QED  BY <2>1, <2>2, <2>3
  <1> QED  BY <1>1, <1>4 DEF DamageInv

\* Where the damage between two steps of link() only goes down, it stays counted.
LEMMA DamageBeside ==
  ASSUME BaseInv, DamageInv, pc = "idle", UNCHANGED linkRest,
         Damaged(saved.objects)' \subseteq Damaged(saved.objects)
  PROVE  DamageInv'
  <1>1. pc' = "idle" /\ crashes' = crashes
    BY DEF linkRest
  <1>2. Cardinality(Damaged(saved.objects)) <= crashes
    BY DEF DamageInv
  <1>3. Damaged(saved.objects) \subseteq Inodes
    BY DEF Damaged
  <1>4. /\ Cardinality(Damaged(saved.objects)') <= Cardinality(Damaged(saved.objects))
        /\ Cardinality(Damaged(saved.objects)') \in Nat /\ Cardinality(Damaged(saved.objects)) \in Nat
    BY <1>3, DamageCounts
  <1>5. crashes \in Nat
    BY DEF BaseInv, TypeOK
  <1>6. Cardinality(Damaged(saved.objects)') <= crashes'
    BY <1>1, <1>2, <1>4, <1>5
  <1> QED  BY <1>1, <1>6 DEF DamageInv

\* The object link() inserts had no row, and has none to answer for until its
\* file is there.
LEMMA LinkInsertDamage ==
  ASSUME BaseInv, BaseInv', DamageInv, NEW l \in Linkers, LinkInsert(l)
  PROVE  DamageInv'
  <1> DEFINE n == inodeSeq + 1
  <1>1. /\ lpc[l] = "insert" /\ UNCHANGED <<files, linkRest, stray>>
        /\ objects' = [objects EXCEPT ![n] = lreq[l].name]
        /\ lino' = [lino EXCEPT ![l] = n]
        /\ lpc' = [lpc EXCEPT ![l] = IF ltodo[l] = <<>> THEN "disk" ELSE "tag"]
    BY DEF LinkInsert
  <1>2. pc = "idle" /\ pc' = "idle"
    BY <1>1 DEF BaseInv, LinkInv, linkRest
  <1>3. saved.objects = objects /\ saved'.objects = objects'
    BY <1>2 DEF BaseInv, SavedInv, Tables
  <1>4. objects[n] = NoName \/ n \notin Inodes
    <2>1. \A i \in Inodes : objects[i] # NoName => i <= inodeSeq
      BY CurrentTables DEF BaseInv
    <2>2. inodeSeq \in Nat
      BY CatalogBounds DEF BaseInv, TypeOK
    <2> QED  BY <2>1, <2>2
  <1> HIDE DEF n
  <1>5. Linking' = Linking \cup {n}
    <2>1. /\ \A m \in Linkers \ {l} : lpc'[m] = lpc[m] /\ lino'[m] = lino[m]
          /\ lpc'[l] \in {"tag", "disk"} /\ lino'[l] = n
      BY <1>1 DEF BaseInv, TypeOK
    <2>2. lpc[l] \notin {"tag", "disk"}
      BY <1>1
    <2> QED  BY <2>1, <2>2 DEF Linking
  <1>6. \A i \in Inodes \ {n} : objects'[i] = objects[i]
    BY <1>1 DEF BaseInv, TypeOK
  <1>7. \A i \in Inodes : Expected(saved.objects, i)' = Expected(saved.objects, i)
    BY <1>3, <1>4, <1>5, <1>6 DEF Expected
  <1>8. Damaged(saved.objects)' \subseteq Damaged(saved.objects)
    BY <1>1, <1>7 DEF Damaged
  <1> QED  BY <1>1, <1>2, <1>8, DamageBeside

\* link() ends: its object has its file, or is a stray from now on.
LEMMA LinkEndDamage ==
  ASSUME BaseInv, BaseInv', DamageInv, NEW l \in Linkers, LinkDone(l) \/ LinkFailed(l)
  PROVE  DamageInv'
  <1> PICK n : n = lino[l]
    OBVIOUS
  <1> DEFINE before(i) == {m \in ObjNames : <<i, m>> \in files}
             after(i) == {m \in ObjNames : <<i, m>> \in files'}
  <1>1. /\ lpc[l] = "disk" /\ UNCHANGED <<tables, saved, linkRest>>
        /\ lpc' = [lpc EXCEPT ![l] = "idle"] /\ lino' = [lino EXCEPT ![l] = 0]
        /\ \/ files' = files \cup {<<n, lreq[l].name>>} /\ stray' = stray
           \/ files' = files /\ stray' = stray \cup {n}
    BY DEF LinkDone, LinkFailed, LinkForget
  <1>2. pc = "idle" /\ n \in Inodes /\ lreq[l] \in Links /\ objects[n] = lreq[l].name
    BY <1>1 DEF BaseInv, LinkInv
  <1>3. lreq[l].name \in ObjNames /\ saved.objects = objects
    BY <1>2, LinksAssumption DEF BaseInv, SavedInv, Tables
  <1>4. n \in Linking
    BY <1>1 DEF Linking
  <1>5. \A m \in Linkers \ {l} : lpc'[m] = lpc[m] /\ lino'[m] = lino[m]
    BY <1>1 DEF BaseInv, TypeOK
  <1>6. lpc'[l] = "idle"
    BY <1>1 DEF BaseInv, TypeOK
  <1>7. Linking' = Linking \ {n}
    <2>1. \A m \in Linkers \ {l} : lpc[m] \in {"tag", "disk"} => lino[m] # n
      BY <1>1 DEF BaseInv, LinkInv
    <2> QED  BY <1>5, <1>6, <2>1 DEF Linking
  <1> DEFINE was(i) == IF objects[i] = NoName \/ i \in Linking THEN {} ELSE {objects[i]}
             is(i) == IF objects[i] = NoName \/ i \in Linking \ {n} THEN {} ELSE {objects[i]}
  <1>8. /\ Damaged(saved.objects) = {i \in Inodes \ stray : before(i) # was(i)}
        /\ Damaged(saved.objects)' = {i \in Inodes \ stray' : after(i) # is(i)}
    BY <1>1, <1>3, <1>7 DEF Damaged, Expected
  <1>9. \A i \in Inodes \ {n} : after(i) = before(i) /\ is(i) = was(i)
    BY <1>1
  <1>10. was(n) = {} /\ is(n) = {objects[n]}
    BY <1>2, <1>3, <1>4, NamesAssumption
  <1>11. before(n) = {} => n \in stray' \/ after(n) = {objects[n]}
    BY <1>1, <1>2, <1>3
  <1>12. stray \subseteq stray'
    BY <1>1
  <1>13. Damaged(saved.objects)' \subseteq Damaged(saved.objects)
    <2> HIDE DEF before, after, was, is
    <2> SUFFICES ASSUME NEW i \in Inodes, i \notin stray', after(i) # is(i)
                 PROVE  before(i) # was(i)
      BY <1>8, <1>12
    <2>1. CASE i = n
      BY <1>10, <1>11, <2>1
    <2>2. CASE i # n
      BY <1>9, <2>2
    <2> QED  BY <2>1, <2>2
  <1> QED  BY <1>1, <1>2, <1>13, DamageBeside

\* The other steps of link() touch neither rows of objects nor files.
LEMMA LinkDamage ==
  ASSUME BaseInv, BaseInv', DamageInv, NEW l \in Linkers, LinkStep(l)
  PROVE  DamageInv'
  <1>1. ASSUME NEW r \in Links, LinkStart(l, r) PROVE DamageInv'
    <2>1. /\ pc = "idle" /\ lpc[l] = "idle" /\ lpc' = [lpc EXCEPT ![l] = "insert"]
          /\ UNCHANGED <<saved, files, lino, linkRest, stray>>
      BY <1>1 DEF LinkStart
    <2>2. \A m \in Linkers : lpc'[m] \in {"tag", "disk"} <=> lpc[m] \in {"tag", "disk"}
      BY <2>1 DEF BaseInv, TypeOK
    <2>3. Linking' = Linking
      BY <2>1, <2>2 DEF Linking
    <2>4. Damaged(saved.objects)' \subseteq Damaged(saved.objects)
      BY <2>1, <2>3 DEF Damaged, Expected
    <2> QED  BY <2>1, <2>4, DamageBeside
  <1>2. ASSUME LinkTag(l) PROVE DamageInv'
    <2>1. /\ lpc[l] = "tag" /\ UNCHANGED <<objects, files, lino, linkRest, stray>>
          /\ lpc' = [lpc EXCEPT ![l] = IF Tail(ltodo[l]) = <<>> THEN "disk" ELSE "tag"]
      BY <1>2 DEF LinkTag
    <2>2. pc = "idle" /\ pc' = "idle"
      BY <2>1 DEF BaseInv, LinkInv, linkRest
    <2>3. \A m \in Linkers : lpc'[m] \in {"tag", "disk"} <=> lpc[m] \in {"tag", "disk"}
      BY <2>1 DEF BaseInv, TypeOK
    <2>4. Linking' = Linking
      BY <2>1, <2>3 DEF Linking
    <2>5. saved'.objects = saved.objects
      BY <2>1, <2>2 DEF BaseInv, SavedInv, Tables
    <2>6. Damaged(saved.objects)' \subseteq Damaged(saved.objects)
      BY <2>1, <2>4, <2>5 DEF Damaged, Expected
    <2> QED  BY <2>1, <2>2, <2>6, DamageBeside
  <1> QED  BY <1>1, <1>2, LinkInsertDamage, LinkEndDamage DEF LinkStep

\* Every step keeps the damage counted.
LEMMA DamageStep ==
  ASSUME BaseInv, BaseInv', DamageInv, [Next]_vars
  PROVE  DamageInv'
  <1>1. ASSUME Insert \/ SymlinkNew PROVE DamageInv'
    <2>1. pc # "end" /\ pc' # "end"
      BY <1>1 DEF Insert, SymlinkNew, InsertObject, AfterTags, BaseInv, ObjectInv
    <2> QED  BY <1>1, <2>1, DamageKept DEF Insert, SymlinkNew, InsertObject, requestRest
  <1>2. ASSUME SymlinkKnown PROVE DamageInv'
    <2>1. pc # "end" /\ objects' = saved.objects
      BY <1>2 DEF SymlinkKnown, BaseInv, ObjectInv, tables
    <2> QED  BY <1>2, <2>1, DamageKept DEF SymlinkKnown, requestRest
  <1>3. ASSUME TagObject \/ UntagObject PROVE DamageInv'
    <2>1. pc # "end" /\ saved' = saved /\ (pc' = "end" => ~disk')
      BY <1>3 DEF TagObject, UntagObject, AfterTags, requestRest
    <2>2. pc' = "end" => objects' = saved.objects
      BY <2>1 DEF BaseInv, ObjectInv
    <2> QED  BY <1>3, <2>1, <2>2, DamageKept DEF TagObject, UntagObject, requestRest
  <1>4. ASSUME SetTarget \/ DeleteObject PROVE DamageInv'
    BY <1>4, DamageKept DEF SetTarget, DeleteObject, requestRest
  <1>5. ASSUME CheckTagged \/ RenameObject PROVE DamageInv'
    <2>1. pc # "end" /\ (pc' # "end" \/ objects' = saved.objects)
      BY <1>5 DEF CheckTagged, RenameObject, BaseInv, ObjectInv
    <2> QED  BY <1>5, <2>1, DamageKept DEF CheckTagged, RenameObject, requestRest
  <1>6. ASSUME DiskFailed PROVE DamageInv'
    <2>1. pc # "end" /\ ok' = FALSE /\ UNCHANGED <<saved, files, lpc, lino, crashes, stray>>
      BY <1>6 DEF DiskFailed, requestRest
    <2>2. Cardinality(Damaged(saved.objects)) <= crashes
      BY <2>1 DEF DamageInv
    <2> QED  BY <2>1, <2>2, SameLinking DEF DamageInv, Damaged, Expected
  <1>7. ASSUME Tag PROVE DamageInv'
    <2>1. /\ pc \in {"mktag", "rmtag", "mvtag", "relate", "unrelate"} /\ objects' = objects
          /\ UNCHANGED requestRest /\ files' = files
      BY <1>7 DEF Tag, MakeTag, DeleteTag, RenameTag, Relate, Unrelate
    <2>2. req.op = pc
      BY <2>1, RequestFacts DEF BaseInv
    <2>3. objects = saved.objects
      BY <2>1, <2>2 DEF BaseInv, ObjectInv, Creates
    <2> QED  BY <2>1, <2>3, DamageKept DEF requestRest
  <1>8. ASSUME NEW r \in Requests, Start(r) PROVE DamageInv'
    <2>1. /\ pc = "idle" /\ saved' = saved /\ UNCHANGED <<files, lpc, lino, crashes, stray>>
          /\ pc' = First(r.op)
      BY <1>8 DEF Start, BaseInv, SavedInv, linkVars
    <2>2. pc' # "end"
      BY <2>1, RequestsAssumption DEF First, WellFormed, Creates
    <2> QED  BY <2>1, <2>2, DamageKept
  <1>9. ASSUME NEW k \in Lookups, Lookup(k) PROVE DamageInv'
    <2>1. UNCHANGED <<objects, saved, files, pc, ino, ok, lpc, lino, crashes, stray>>
      BY <1>9 DEF Lookup, tables, linkVars
    <2> QED  BY <2>1, SameLinking DEF DamageInv, Damaged, Expected
  <1>10. CASE UNCHANGED vars
    <2>1. UNCHANGED <<objects, saved, files, pc, ino, ok, lpc, lino, crashes, stray>>
      BY <1>10 DEF vars
    <2> QED  BY <2>1, SameLinking DEF DamageInv, Damaged, Expected
  <1> QED
    BY <1>1, <1>2, <1>3, <1>4, <1>5, <1>6, <1>7, <1>8, <1>9, <1>10, DiskDoneDamage, EndDamage,
       LinkDamage
    DEF Next, Object, Destroy

\* Between requests every object has its file, under its own name, and every
\* file its object, but for one object for each kill, and those of the link()s
\* in progress, that failed, or that a kill stopped half-way.
THEOREM DamageIsCounted == Spec => []CrashDamage
  <1>1. Init => DamageInv
    <2> SUFFICES ASSUME Init PROVE DamageInv
      OBVIOUS
    <2>1. Damaged(saved.objects) = {}
      BY DEF Init, Damaged, Expected, Tables
    <2>2. Cardinality({}) = 0
      BY FS_EmptySet
    <2> QED  BY <2>1, <2>2 DEF Init, DamageInv
  <1>2. BaseInv /\ BaseInv' /\ DamageInv /\ [Next]_vars => DamageInv'
    BY DamageStep
  <1>3. BaseInv /\ DamageInv => CrashDamage
    <2> DEFINE Wrong == {e[1] : e \in (files \ Rows) \cup (Rows \ files)}
               Counted == Wrong \ (stray \cup Linking)
    <2> SUFFICES ASSUME BaseInv, DamageInv, pc = "idle"
                 PROVE  Cardinality(Counted) <= crashes
      BY DEF CrashDamage
    <2>1. objects = saved.objects
      BY DEF BaseInv, SavedInv, Tables
    <2>2. Cardinality(Damaged(objects)) <= crashes
      BY <2>1 DEF DamageInv
    <2>3. Counted \subseteq Damaged(objects)
      <3>1. ASSUME NEW e \in files \ Rows, e[1] \notin stray \cup Linking PROVE e[1] \in Damaged(objects)
        <4>1. PICK i \in Inodes, n \in ObjNames : e = <<i, n>>
          BY DEF BaseInv, TypeOK
        <4>2. objects[i] # n
          BY <4>1, <3>1, NamesAssumption DEF Rows
        <4> QED  BY <3>1, <4>1, <4>2 DEF Damaged, Expected
      <3>2. ASSUME NEW e \in Rows \ files, e[1] \notin stray \cup Linking PROVE e[1] \in Damaged(objects)
        <4>1. PICK i \in Inodes : objects[i] # NoName /\ e = <<i, objects[i]>>
          BY DEF Rows
        <4> QED  BY <3>2, <4>1 DEF Damaged, Expected
      <3> QED  BY <3>1, <3>2
    <2>4. Damaged(objects) \subseteq Inodes
      BY DEF Damaged
    <2>5. crashes \in Nat
      BY DEF BaseInv, TypeOK
    <2> QED  BY <2>2, <2>3, <2>4, <2>5, DamageCounts
  <1> QED  BY <1>1, <1>2, <1>3, BaseHolds, PTL DEF Spec

-----------------------------------------------------------------------------
(* Ids and their cache                                                     *)

\* Where the cache is coherent an id is the row's.
LEMMA CoherentId ==
  ASSUME TypeOK, CacheCoherent, NEW k \in TagNames
  PROVE  GetTagId(k) = tags[k]
  BY DEF GetTagId, CacheCoherent

\* The condition on ids in terms of the variables.
LEMMA CurrentIds ==
  IdsOK(Tables) <=>
    /\ \A j, k \in TagNames : tags[j] = tags[k] /\ tags[j] # 0 => j = k
    /\ \A k \in TagNames : tags[k] <= tagSeq
    /\ \A e \in tagging : e[2] \in LiveIds
    /\ \A e \in relations : e[1] \in LiveIds /\ e[2] \in LiveIds
  BY DEF IdsOK, Tables, LiveIds

\* Rows added under live ids, or removed, keep ids live.
LEMMA IdsKept ==
  ASSUME IdsOK(Tables), tags' = tags, tagSeq' = tagSeq,
         \A e \in tagging' : e \in tagging \/ e[2] \in LiveIds,
         \A e \in relations' : e \in relations \/ (e[1] \in LiveIds /\ e[2] \in LiveIds)
  PROVE  IdsOK(Tables)'
  <1>1. /\ \A e \in tagging' : e[2] \in LiveIds
        /\ \A e \in relations' : e[1] \in LiveIds /\ e[2] \in LiveIds
    BY CurrentIds
  <1>2. LiveIds' = LiveIds
    BY DEF LiveIds
  <1> QED  BY <1>1, <1>2, CurrentIds DEF IdsOK, Tables, LiveIds

\* The cache takes the row's id.
LEMMA CacheKept ==
  ASSUME TypeOK, CacheCoherent, tags' = tags, NEW k \in TagNames,
         cache' = [cache EXCEPT ![k] = tags[k]] \/ cache' = [cache EXCEPT ![k] = 0]
  PROVE  CacheCoherent'
  BY DEF CacheCoherent, TypeOK

\* A step inside a request that changes no tag.
LEMMA IdStepKept ==
  ASSUME IdInv, UNCHANGED <<tags, tagSeq, saved, req>>, pc # "idle", pc' # "idle", CacheCoherent',
         \A e \in tagging' : e \in tagging \/ e[2] \in LiveIds,
         \A e \in relations' : e \in relations \/ (e[1] \in LiveIds /\ e[2] \in LiveIds),
         req.op \in Creates \cup {"unlink", "rename"} =>
            \A k \in TagSet(todo') : tags[k] # 0,
         pc' = "relate" => pc = "relate",
         pc' = "end" => ok' \/ tags = saved.tags
  PROVE  IdInv'
  <1>1. IdsOK(Tables)'
    BY IdsKept DEF IdInv
  <1>2. IdsOK(saved)'
    BY DEF IdInv, IdsOK
  <1>3. KeepsTags'
    BY DEF IdInv, KeepsTags
  <1> QED  BY <1>1, <1>2, <1>3 DEF IdInv

\* A tag that is missing gets an id no other tag has, or had.
LEMMA CreateTagIds ==
  ASSUME TypeOK, IdsOK(Tables), CacheCoherent, NEW k \in TagNames, CreateTag(k)
  PROVE  /\ \A j \in TagNames : j # k => tags'[j] = tags[j]
         /\ tags'[k] # 0 /\ (tags[k] # 0 => tags'[k] = tags[k])
         /\ (tags[k] = 0 => tags'[k] = tagSeq + 1)
         /\ \A i, j \in TagNames : tags'[i] = tags'[j] /\ tags'[i] # 0 => i = j
         /\ \A j \in TagNames : tags'[j] <= tagSeq'
         /\ LiveIds \subseteq LiveIds'
         /\ \A j \in TagNames : cache[j] # 0 => cache[j] = tags'[j]
  <1>1. /\ \A i, j \in TagNames : tags[i] = tags[j] /\ tags[i] # 0 => i = j
        /\ \A j \in TagNames : tags[j] <= tagSeq
    BY CurrentIds
  <1>2. /\ tags \in [TagNames -> 0 .. MaxTag] /\ tagSeq \in 0 .. MaxTag
        /\ tagSeq \in Nat /\ \A j \in TagNames : tags[j] \in Nat
    BY CatalogBounds DEF TypeOK
  <1>3. \A j \in TagNames : cache[j] # 0 => cache[j] = tags[j]
    BY DEF CacheCoherent
  <1>4. CASE tags[k] # 0
    <2>1. tags' = tags /\ tagSeq' = tagSeq
      BY <1>4 DEF CreateTag
    <2> QED  BY <1>1, <1>2, <1>3, <1>4, <2>1 DEF LiveIds
  <1>5. CASE tags[k] = 0
    <2>1. tags' = [tags EXCEPT ![k] = tagSeq + 1] /\ tagSeq' = tagSeq + 1
      BY <1>5 DEF CreateTag
    <2>2. tags'[k] = tagSeq + 1 /\ \A j \in TagNames : j # k => tags'[j] = tags[j]
      BY <1>2, <2>1
    <2>3. \A j \in TagNames : j # k => tags[j] # tagSeq + 1
      BY <1>1, <1>2
    <2>4. \A i, j \in TagNames : tags'[i] = tags'[j] /\ tags'[i] # 0 => i = j
      BY <1>1, <1>2, <2>2, <2>3
    <2>5. \A j \in TagNames : tags'[j] <= tagSeq'
      BY <1>1, <1>2, <2>1, <2>2
    <2>6. LiveIds \subseteq LiveIds'
      BY <1>5, <2>2 DEF LiveIds
    <2>7. tags'[k] # 0
      BY <1>2, <2>2
    <2> QED  BY <1>3, <1>5, <2>2, <2>4, <2>5, <2>6, <2>7
  <1> QED  BY <1>4, <1>5

\* Handlers on objects: every tag of the path exists.
LEMMA ObjectIds ==
  ASSUME BaseInv, IdInv, Object
  PROVE  IdInv'
  <1> USE DEF BaseInv
  <1>1. ASSUME Insert \/ SymlinkNew \/ SymlinkKnown PROVE IdInv'
    <2>1. /\ pc \in {"insert", "symlink"} /\ pc' \in {"tag", "disk", "target", "end"}
          /\ todo' = req.tags /\ UNCHANGED <<tags, tagSeq, tagging, relations, requestRest, cache, ok>>
      BY <1>1 DEF Insert, SymlinkNew, SymlinkKnown, InsertObject, AfterTags, tables
    <2>2. req.op \in Creates /\ ok
      BY <2>1, RequestFacts DEF Creates, RequestInv
    <2>3. CacheCoherent'
      BY <2>1 DEF IdInv, CacheCoherent
    <2>4. \A k \in TagSet(todo') : tags[k] # 0
      BY <2>1, <2>2 DEF IdInv, KeepsTags
    <2> QED  BY <2>1, <2>2, <2>3, <2>4, IdStepKept DEF requestRest
  <1>2. ASSUME TagObject PROVE IdInv'
    <2> DEFINE k == Head(todo)
    <2>1. pc = "tag" /\ todo # <<>> /\ todo \in Seq(TagNames) /\ req.op \in Creates \cup {"rename"} /\ ok
      BY <1>2, RequestFacts DEF TagObject, RequestInv, TypeOK
    <2>2. k \in TagNames /\ TagSet(todo) = {k} \cup TagSet(Tail(todo))
      BY <2>1, NextTag
    <2>3. tags[k] # 0 /\ GetTagId(k) = tags[k] /\ \A j \in TagSet(Tail(todo)) : tags[j] # 0
      BY <2>1, <2>2, CoherentId DEF IdInv, KeepsTags
    <2>4. /\ UNCHANGED <<tags, tagSeq, relations, requestRest, ok>>
          /\ cache' = [cache EXCEPT ![k] = tags[k]] /\ tagging' = tagging \cup {<<ino, tags[k]>>}
          /\ todo' = Tail(todo) /\ pc' \in {"tag", "disk", "target", "end"}
      BY <1>2, <2>3 DEF TagObject, FoundOrCreated, Cached, AfterTags
    <2>5. CacheCoherent'
      BY <2>2, <2>4, CacheKept DEF IdInv
    <2>6. tags[k] \in LiveIds
      BY <2>2, <2>3 DEF LiveIds
    <2> HIDE DEF k
    <2> QED  BY <2>1, <2>3, <2>4, <2>5, <2>6, IdStepKept DEF requestRest
  <1>3. ASSUME UntagObject PROVE IdInv'
    <2> DEFINE k == Head(todo)
    <2>1. pc = "untag" /\ todo # <<>> /\ todo \in Seq(TagNames) /\ req.op \in {"unlink", "rename"}
      BY <1>3, RequestFacts DEF UntagObject, RequestInv, TypeOK
    <2>2. k \in TagNames /\ TagSet(todo) = {k} \cup TagSet(Tail(todo))
      BY <2>1, NextTag
    <2>3. GetTagId(k) = tags[k]
      BY <2>2, CoherentId DEF IdInv
    <2>4. /\ UNCHANGED <<tags, tagSeq, relations, requestRest, ok>>
          /\ cache' = [cache EXCEPT ![k] = tags[k]] /\ tagging' \subseteq tagging
          /\ todo' = Tail(todo) \/ (req.op = "rename" /\ todo' = req.toTags)
          /\ pc' \in {"untag", "tag", "check"}
      BY <1>3, <2>3 DEF UntagObject, Cached
    <2>5. CacheCoherent'
      BY <2>2, <2>4, CacheKept DEF IdInv
    <2>6. \A j \in TagSet(todo') : tags[j] # 0
      BY <2>1, <2>2, <2>4 DEF IdInv, KeepsTags
    <2> HIDE DEF k
    <2> QED  BY <2>1, <2>4, <2>5, <2>6, IdStepKept DEF requestRest
  <1>4. ASSUME SetTarget \/ CheckTagged \/ DeleteObject \/ RenameObject \/ DiskDone \/ DiskFailed
        PROVE  IdInv'
    <2>1. /\ pc \in {"target", "check", "delete", "retitle", "disk"}
          /\ pc' \in {"disk", "end", "untag"}
          /\ UNCHANGED <<tags, tagSeq, relations, requestRest, cache, todo>>
          /\ tagging' \subseteq tagging
      BY <1>4 DEF SetTarget, CheckTagged, DeleteObject, RenameObject, DiskDone, DiskFailed, FullUntag, tables
    <2>2. req.op \in Creates \cup {"unlink", "unlinkAll", "rename"}
      BY <2>1, RequestFacts DEF Creates
    <2>3. tags = saved.tags /\ CacheCoherent'
          /\ (req.op \in Creates \cup {"unlink", "rename"} => \A j \in TagSet(todo) : tags[j] # 0)
      BY <2>1, <2>2 DEF IdInv, KeepsTags, CacheCoherent
    <2> QED  BY <2>1, <2>3, IdStepKept DEF requestRest
  <1> QED  BY <1>1, <1>2, <1>3, <1>4 DEF Object

\* The end of a request on tags that did not fail.
LEMMA TagEndIds ==
  ASSUME IdInv, RequestInv, pc \in {"mktag", "rmtag", "mvtag", "relate"},
         pc' \in {"end", "rmtag"}, UNCHANGED <<saved, req, ok>>,
         CacheCoherent', IdsOK(Tables)'
  PROVE  IdInv'
  <1>1. req.op = pc /\ ok
    BY RequestFacts DEF RequestInv
  <1>2. IdsOK(saved)'
    BY DEF IdInv, IdsOK
  <1>3. KeepsTags'
    BY <1>1 DEF KeepsTags, Creates
  <1> QED  BY <1>2, <1>3 DEF IdInv

\* A new tag has an id nobody else has, and the cache does not know it yet.
LEMMA MakeTagIds ==
  ASSUME BaseInv, IdInv, MakeTag
  PROVE  IdInv'
  <1> DEFINE k == NamedTag
  <1>1. pc = "mktag" /\ WellFormed(req) /\ req.op = "mktag"
    BY RequestFacts DEF BaseInv, MakeTag
  <1>2. req.tags \in Seq(TagNames) /\ Len(req.tags) = 1
    BY <1>1 DEF WellFormed
  <1>3. k \in TagNames
    BY <1>2, PathTags DEF NamedTag
  <1>4. CreateTag(k) /\ pc' = "end" /\ UNCHANGED <<tagging, relations, requestRest, cache, ok>>
    BY DEF MakeTag
  <1>5. /\ \A i, j \in TagNames : tags'[i] = tags'[j] /\ tags'[i] # 0 => i = j
        /\ \A j \in TagNames : tags'[j] <= tagSeq'
        /\ LiveIds \subseteq LiveIds'
        /\ \A j \in TagNames : cache[j] # 0 => cache[j] = tags'[j]
    BY <1>3, <1>4, CreateTagIds DEF BaseInv, IdInv
  <1>6. IdsOK(Tables)'
    <2>1. /\ \A e \in tagging' : e[2] \in LiveIds'
          /\ \A e \in relations' : e[1] \in LiveIds' /\ e[2] \in LiveIds'
      BY <1>4, <1>5, CurrentIds DEF IdInv
    <2> QED  BY <1>5, <2>1 DEF IdsOK, Tables, LiveIds
  <1>7. CacheCoherent'
    BY <1>4, <1>5 DEF CacheCoherent
  <1> QED  BY <1>1, <1>4, <1>6, <1>7, TagEndIds DEF BaseInv, requestRest

\* A tag leaves no trace of its id, in the tables or the cache.
LEMMA DeleteTagIds ==
  ASSUME BaseInv, IdInv, DeleteTag
  PROVE  IdInv'
  <1> DEFINE k == Head(todo)
  <1>1. pc = "rmtag" /\ todo # <<>> /\ todo \in Seq(TagNames) /\ TypeOK
    BY DEF BaseInv, RequestInv, TypeOK, DeleteTag
  <1>2. k \in TagNames
    BY <1>1, NextTag
  <1>3. GetTagId(k) = tags[k]
    BY <1>1, <1>2, CoherentId DEF IdInv
  <1>4. /\ cache' = [cache EXCEPT ![k] = 0] /\ tags' = [tags EXCEPT ![k] = 0] /\ tagSeq' = tagSeq
        /\ tagging' = {e \in tagging : e[2] # tags[k]}
        /\ relations' = {e \in relations : tags[k] \notin {e[1], e[2]}}
        /\ pc' \in {"end", "rmtag"} /\ UNCHANGED <<requestRest, ok>>
    BY <1>3 DEF DeleteTag, Cached
  <1>5. /\ \A i, j \in TagNames : tags[i] = tags[j] /\ tags[i] # 0 => i = j
        /\ \A j \in TagNames : tags[j] <= tagSeq
        /\ \A e \in tagging : e[2] \in LiveIds
        /\ \A e \in relations : e[1] \in LiveIds /\ e[2] \in LiveIds
    BY CurrentIds DEF IdInv
  <1>6. /\ tags'[k] = 0 /\ \A j \in TagNames : j # k => tags'[j] = tags[j]
        /\ tagSeq \in Nat
    BY <1>1, <1>2, <1>4, CatalogBounds DEF TypeOK
  <1>7. \A id \in LiveIds : id # tags[k] => id \in LiveIds'
    BY <1>6 DEF LiveIds
  <1> HIDE DEF k
  <1>8. IdsOK(Tables)'
    <2>1. /\ \A e \in tagging' : e[2] \in LiveIds'
          /\ \A e \in relations' : e[1] \in LiveIds' /\ e[2] \in LiveIds'
      BY <1>4, <1>5, <1>7
    <2>2. /\ \A i, j \in TagNames : tags'[i] = tags'[j] /\ tags'[i] # 0 => i = j
          /\ \A j \in TagNames : tags'[j] <= tagSeq'
      BY <1>4, <1>5, <1>6
    <2> QED  BY <2>1, <2>2 DEF IdsOK, Tables, LiveIds
  <1>9. CacheCoherent'
    BY <1>1, <1>2, <1>4, <1>6 DEF IdInv, CacheCoherent, TypeOK
  <1> QED  BY <1>1, <1>4, <1>8, <1>9, TagEndIds DEF BaseInv, requestRest

\* A tag that is not also a namespace takes its id to its new name.
LEMMA PlainRename ==
  ASSUME Plain, BaseInv, RenameTag
  PROVE  /\ NamedTag \in TagNames /\ req.to \in TagNames
         /\ \/ tags' = tags
            \/ /\ tags[NamedTag] # 0 /\ tags[req.to] = 0
               /\ tags' = [tags EXCEPT ![NamedTag] = 0, ![req.to] = tags[NamedTag]]
         /\ tags[NamedTag] # 0 /\ tags[req.to] # 0 => tags' = tags
         /\ tags[NamedTag] = 0 => tags' = tags
         /\ tags[NamedTag] # 0 /\ tags[req.to] = 0 =>
               tags' = [tags EXCEPT ![NamedTag] = 0, ![req.to] = tags[NamedTag]]
  <1> DEFINE from == NamedTag
             to == req.to
             was(j) == [j EXCEPT !.ns = from.ns]
             moves == {j \in TagNames : j.ns = to.ns /\ tags[was(j)] # 0}
  <1>1. pc = "mvtag" /\ WellFormed(req) /\ req.op = "mvtag" /\ req \in Requests
    BY RequestFacts DEF BaseInv, RenameTag
  <1>2. to \in TagNames
    BY <1>1 DEF WellFormed
  <1>3. from \in TagNames /\ was(to) \in TagNames
    BY <1>1, <1>2, RenamedFrom DEF BaseInv
  <1>4. Unambiguous(from) /\ Unambiguous(to)
    BY <1>1 DEF Plain, NamedTag
  <1>5. was(to) = from
    <2>1. was(to).ns = from.ns
      <3>1. to = [ns |-> to.ns, kv |-> to.kv]
        BY <1>2, TagNamesAssumption
      <3> QED  BY <3>1
    <2> QED  BY <1>3, <1>4, <2>1 DEF Unambiguous
  <1>6. moves = (IF tags[from] # 0 THEN {to} ELSE {})
    <2>1. \A j \in TagNames : j.ns = to.ns => j = to
      BY <1>4 DEF Unambiguous
    <2> QED  BY <1>2, <1>5, <2>1
  <1>7. \A j \in TagNames : j.ns = from.ns <=> j = from
    BY <1>4 DEF Unambiguous
  <1>8. tags' = IF \E j \in moves : tags[j] # 0
                THEN tags
                ELSE [j \in TagNames |-> IF j \in moves THEN tags[was(j)]
                                         ELSE IF j.ns = from.ns THEN 0 ELSE tags[j]]
    BY DEF RenameTag
  <1>9. tags \in [TagNames -> 0 .. MaxTag]
    BY DEF BaseInv, TypeOK
  <1>10. tags[from] # 0 /\ tags[to] # 0 => tags' = tags
    BY <1>6, <1>8
  <1>11. tags[from] = 0 => tags' = tags
    <2> SUFFICES ASSUME tags[from] = 0 PROVE tags' = tags
      OBVIOUS
    <2>1. moves = {}
      BY <1>6
    <2>2. tags' = [j \in TagNames |-> IF j.ns = from.ns THEN 0 ELSE tags[j]]
      BY <1>8, <2>1
    <2> HIDE DEF moves, was, from, to
    <2> QED  BY <1>7, <1>9, <2>2
  <1>12. ASSUME tags[from] # 0, tags[to] = 0
         PROVE  tags' = [tags EXCEPT ![from] = 0, ![to] = tags[from]]
    <2>1. moves = {to}
      BY <1>6, <1>12
    <2>2. tags' = [j \in TagNames |-> IF j \in moves THEN tags[was(j)]
                                      ELSE IF j.ns = from.ns THEN 0 ELSE tags[j]]
      BY <1>8, <1>12, <2>1
    <2>3. tags' = [j \in TagNames |-> IF j = to THEN tags[from]
                                      ELSE IF j = from THEN 0 ELSE tags[j]]
      BY <1>5, <1>7, <2>1, <2>2
    <2> HIDE DEF moves, was, from, to
    <2> QED  BY <1>2, <1>3, <1>9, <2>3
  <1> QED  BY <1>2, <1>3, <1>10, <1>11, <1>12

\* A renamed tag keeps its id, and the old name leaves the cache.
LEMMA RenameTagIds ==
  ASSUME Plain, BaseInv, IdInv, RenameTag
  PROVE  IdInv'
  <1> DEFINE from == NamedTag
             to == req.to
  <1>1. /\ from \in TagNames /\ to \in TagNames
        /\ \/ tags' = tags
           \/ tags[from] # 0 /\ tags[to] = 0 /\ tags' = [tags EXCEPT ![from] = 0, ![to] = tags[from]]
    BY PlainRename
  <1>2. /\ pc = "mvtag" /\ pc' = "end" /\ cache' = [cache EXCEPT ![from] = 0]
        /\ UNCHANGED <<tagSeq, tagging, relations, requestRest, ok>>
    BY DEF RenameTag, Cached
  <1>3. /\ \A i, j \in TagNames : tags[i] = tags[j] /\ tags[i] # 0 => i = j
        /\ \A j \in TagNames : tags[j] <= tagSeq
        /\ \A e \in tagging : e[2] \in LiveIds
        /\ \A e \in relations : e[1] \in LiveIds /\ e[2] \in LiveIds
    BY CurrentIds DEF IdInv
  <1>4. TypeOK /\ tags \in [TagNames -> 0 .. MaxTag] /\ tagSeq \in Nat
    BY CatalogBounds DEF BaseInv, TypeOK
  <1> HIDE DEF from, to
  <1>5. IdsOK(Tables)' /\ CacheCoherent'
    <2>1. CASE tags' = tags
      <3>1. IdsOK(Tables)'
        BY <1>2, <2>1, IdsKept DEF IdInv
      <3>2. CacheCoherent'
        BY <1>1, <1>2, <1>4, <2>1, CacheKept DEF IdInv
      <3> QED  BY <3>1, <3>2
    <2>2. CASE tags[from] # 0 /\ tags[to] = 0 /\ tags' = [tags EXCEPT ![from] = 0, ![to] = tags[from]]
      <3>1. /\ tags'[from] = 0 /\ tags'[to] = tags[from]
            /\ \A j \in TagNames : j \notin {from, to} => tags'[j] = tags[j]
        BY <1>1, <1>4, <2>2
      <3>2. LiveIds \subseteq LiveIds'
        <4> SUFFICES ASSUME NEW j \in TagNames, tags[j] # 0 PROVE tags[j] \in LiveIds'
          BY DEF LiveIds
        <4> QED  BY <1>1, <2>2, <3>1 DEF LiveIds
      <3>3. /\ \A i, j \in TagNames : tags'[i] = tags'[j] /\ tags'[i] # 0 => i = j
            /\ \A j \in TagNames : tags'[j] <= tagSeq'
        BY <1>1, <1>2, <1>3, <1>4, <2>2, <3>1
      <3>4. /\ \A e \in tagging' : e[2] \in LiveIds'
            /\ \A e \in relations' : e[1] \in LiveIds' /\ e[2] \in LiveIds'
        BY <1>2, <1>3, <3>2
      <3>5. IdsOK(Tables)'
        BY <3>3, <3>4 DEF IdsOK, Tables, LiveIds
      <3>6. CacheCoherent'
        BY <1>1, <1>2, <1>4, <2>2, <3>1 DEF IdInv, CacheCoherent, TypeOK
      <3> QED  BY <3>5, <3>6
    <2> QED  BY <1>1, <2>1, <2>2
  <1> QED  BY <1>2, <1>5, TagEndIds DEF BaseInv, requestRest

\* What mkdir() below relations/ does where the relation is spelt right.
LEMMA PlainRelate ==
  ASSUME Plain, BaseInv, IdInv, Relate
  PROVE  /\ LeftTag \in TagNames /\ RightTag \in TagNames /\ tags[LeftTag] # 0
         /\ CreateTag(RightTag)
         /\ tags'[LeftTag] = tags[LeftTag]
         /\ cache' = [cache EXCEPT ![LeftTag] = tags'[LeftTag], ![RightTag] = tags'[RightTag]]
         /\ relations' = relations \cup (IF req.whole THEN {<<tags'[LeftTag], tags'[RightTag]>>} ELSE {})
         /\ ok' = ok
  <1> DEFINE k1 == LeftTag
             k2 == RightTag
  <1>1. pc = "relate" /\ WellFormed(req) /\ req.op = "relate" /\ req \in Requests
    BY RequestFacts DEF BaseInv, Relate
  <1>2. req.tags \in Seq(TagNames) /\ Len(req.tags) = 2
    BY <1>1 DEF WellFormed
  <1>3. k1 \in TagNames /\ k2 \in TagNames
    BY <1>2, PathTags DEF LeftTag, RightTag
  <1>4. tags[k1] # 0 /\ req.valid /\ TypeOK
    BY <1>1 DEF IdInv, KeepsTags, LeftTag, Plain, BaseInv
  <1>5. GetTagId(k1) = tags[k1] /\ GetTagId(k2) = tags[k2]
    BY <1>3, <1>4, CoherentId DEF IdInv
  <1>6. CreateTag(k2)
    BY <1>5 DEF Relate, CreateTag
  <1>7. tags'[k1] = tags[k1] /\ FoundOrCreated(k2) = tags'[k2]
    BY <1>3, <1>4, <1>5, <1>6, CreateTagIds DEF IdInv, FoundOrCreated
  <1>8. /\ cache' = [cache EXCEPT ![k1] = GetTagId(k1), ![k2] = FoundOrCreated(k2)]
        /\ relations' = (IF req.whole THEN relations \cup {<<GetTagId(k1), FoundOrCreated(k2)>>}
                                      ELSE relations)
        /\ ok' = ok
    BY <1>4, <1>5 DEF Relate
  <1> HIDE DEF k1, k2
  <1>9. /\ cache' = [cache EXCEPT ![k1] = tags'[k1], ![k2] = tags'[k2]]
        /\ relations' = relations \cup (IF req.whole THEN {<<tags'[k1], tags'[k2]>>} ELSE {})
    BY <1>5, <1>7, <1>8
  <1> QED  BY <1>3, <1>4, <1>6, <1>7, <1>8, <1>9 DEF k1, k2

\* Relations are between ids of tags that exist.
LEMMA RelateIds ==
  ASSUME Plain, BaseInv, IdInv, Relate
  PROVE  IdInv'
  <1> DEFINE k1 == LeftTag
             k2 == RightTag
  <1>1. /\ k1 \in TagNames /\ k2 \in TagNames /\ tags[k1] # 0 /\ CreateTag(k2)
        /\ tags'[k1] = tags[k1] /\ cache' = [cache EXCEPT ![k1] = tags'[k1], ![k2] = tags'[k2]]
        /\ relations' = relations \cup (IF req.whole THEN {<<tags'[k1], tags'[k2]>>} ELSE {})
        /\ ok' = ok
    BY PlainRelate
  <1>2. pc = "relate" /\ pc' = "end" /\ UNCHANGED <<tagging, requestRest>>
    BY DEF Relate
  <1>3. /\ \A i, j \in TagNames : tags'[i] = tags'[j] /\ tags'[i] # 0 => i = j
        /\ \A j \in TagNames : tags'[j] <= tagSeq'
        /\ LiveIds \subseteq LiveIds' /\ tags'[k2] # 0
        /\ \A j \in TagNames : cache[j] # 0 => cache[j] = tags'[j]
    BY <1>1, CreateTagIds DEF BaseInv, IdInv
  <1> HIDE DEF k1, k2
  <1>4. tags'[k1] \in LiveIds' /\ tags'[k2] \in LiveIds'
    BY <1>1, <1>3 DEF LiveIds
  <1>5. IdsOK(Tables)'
    <2>1. /\ \A e \in tagging : e[2] \in LiveIds
          /\ \A e \in relations : e[1] \in LiveIds /\ e[2] \in LiveIds
      BY CurrentIds DEF IdInv
    <2>2. /\ \A e \in tagging' : e[2] \in LiveIds'
          /\ \A e \in relations' : e[1] \in LiveIds' /\ e[2] \in LiveIds'
      BY <1>1, <1>2, <1>3, <1>4, <2>1
    <2> QED  BY <1>3, <2>2 DEF IdsOK, Tables, LiveIds
  <1>6. CacheCoherent'
    <2>1. cache \in [TagNames -> 0 .. MaxTag]
      BY DEF BaseInv, TypeOK
    <2> QED  BY <1>1, <1>3, <2>1 DEF CacheCoherent
  <1> QED  BY <1>1, <1>2, <1>5, <1>6, TagEndIds DEF BaseInv, requestRest

\* The parser caches the rows' ids.
LEMMA ParsedCoherent ==
  ASSUME TypeOK, CacheCoherent, NEW ts, cache' = Parsed(ts), tags' = tags
  PROVE  CacheCoherent'
  BY CoherentId DEF CacheCoherent, Parsed

\* rmdir() below relations/ only reads ids.
LEMMA UnrelateIds ==
  ASSUME BaseInv, IdInv, Unrelate
  PROVE  IdInv'
  <1>1. /\ pc = "unrelate" /\ pc' = "end" /\ cache' = Parsed(req.tags) /\ relations' \subseteq relations
        /\ UNCHANGED <<tags, tagSeq, tagging, requestRest>>
    BY DEF Unrelate
  <1>2. req.op = "unrelate"
    BY <1>1, RequestFacts DEF BaseInv
  <1>3. tags = saved.tags
    BY <1>2 DEF IdInv, KeepsTags
  <1>4. CacheCoherent'
    BY <1>1, ParsedCoherent DEF BaseInv, IdInv
  <1> QED  BY <1>1, <1>2, <1>3, <1>4, IdStepKept DEF requestRest, Creates

\* A tag that is looked up is cached with its own id.
LEMMA LookupIds ==
  ASSUME Plain, BaseInv, IdInv, NEW k \in Lookups, Lookup(k)
  PROVE  IdInv'
  <1>1. k \in TagNames
    BY LookupsAssumption
  <1>2. PICK id : id \in (IF k.kv = NoKV THEN RowsNamed(k) ELSE {tags[k]} \ {0}) /\ Cached(k, id)
    BY DEF Lookup
  <1>3. id = tags[k]
    <2>1. CASE k.kv = NoKV
      <3>1. \A j \in TagNames : j.ns = k.ns => j = k
        BY <2>1 DEF Plain, Unambiguous
      <3> QED  BY <1>2, <2>1, <3>1 DEF RowsNamed
    <2>2. CASE k.kv # NoKV
      BY <1>2, <2>2
    <2> QED  BY <2>1, <2>2
  <1>4. UNCHANGED <<tables, saved, req, pc, todo, ok>>
    BY DEF Lookup
  <1>5. CacheCoherent'
    BY <1>1, <1>2, <1>3, <1>4, CacheKept DEF Cached, BaseInv, IdInv, tables
  <1>6. IdsOK(Tables)'
    BY <1>4, IdsKept DEF IdInv, tables
  <1>7. IdsOK(saved)' /\ KeepsTags'
    BY <1>4 DEF IdInv, IdsOK, KeepsTags, tables
  <1> QED  BY <1>5, <1>6, <1>7 DEF IdInv

\* The kernel's lookups have found the tags of the path.
LEMMA StartIds ==
  ASSUME Plain, BaseInv, IdInv, NEW r \in Requests, Start(r)
  PROVE  IdInv'
  <1>1. /\ WellFormed(r) /\ pc = "idle" /\ Admissible(r) /\ req' = r /\ saved' = Tables
        /\ todo' = r.tags /\ ok' = TRUE /\ pc' = First(r.op) /\ UNCHANGED tables
        /\ cache' = Parsed(r.tags) \/ cache' = cache
    BY RequestsAssumption DEF Start
  <1>2. r.tags \in Seq(TagNames) /\ TagSet(r.tags) \subseteq TagNames
    BY <1>1, PathTags DEF WellFormed
  <1>3. \A k \in Walked(r) : GetTagId(k) # 0
    BY <1>1 DEF Plain, Admissible
  <1>4. CacheCoherent'
    <2>1. CASE cache' = Parsed(r.tags)
      BY <1>1, <2>1, ParsedCoherent DEF BaseInv, IdInv, tables
    <2>2. CASE cache' = cache
      BY <1>1, <2>2 DEF IdInv, CacheCoherent, tables
    <2> QED  BY <1>1, <2>1, <2>2
  <1>5. IdsOK(Tables)' /\ IdsOK(saved)'
    BY <1>1 DEF IdInv, IdsOK, Tables, tables
  <1>6. KeepsTags'
    <2>1. tags' = tags /\ saved'.tags = tags
      BY <1>1 DEF Tables, tables
    <2>2. r.op \in Creates \cup {"unlink", "rename"} => \A k \in TagSet(r.tags) : tags[k] # 0
      <3> SUFFICES ASSUME r.op \in Creates \cup {"unlink", "rename"}, NEW k \in TagSet(r.tags)
                   PROVE  tags[k] # 0
        OBVIOUS
      <3>1. k \in Walked(r)
        BY DEF Walked, Creates
      <3> QED  BY <1>2, <1>3, <3>1, CoherentId DEF BaseInv, IdInv
    <2>3. r.op = "rename" => \A k \in TagSet(r.toTags) : tags[k] # 0
      <3> SUFFICES ASSUME r.op = "rename", NEW k \in TagSet(r.toTags)
                   PROVE  tags[k] # 0
        OBVIOUS
      <3>1. k \in Walked(r)
        BY DEF Walked, Creates
      <3>2. k \in TagNames
        BY <1>1, PathTags DEF WellFormed
      <3> QED  BY <1>3, <3>1, <3>2, CoherentId DEF BaseInv, IdInv
    <2>4. r.op = "relate" => tags[r.tags[1]] # 0
      <3> SUFFICES ASSUME r.op = "relate" PROVE tags[r.tags[1]] # 0
        OBVIOUS
      <3>1. r.tags[1] \in Walked(r)
        BY DEF Walked, Creates
      <3>2. Len(r.tags) = 2
        BY <1>1 DEF WellFormed
      <3>3. r.tags[1] \in TagNames
        BY <1>2, <3>2, PathTags
      <3> QED  BY <1>3, <3>1, <3>3, CoherentId DEF BaseInv, IdInv
    <2>5. pc' = "relate" => r.op = "relate"
      BY <1>1 DEF First, WellFormed, Creates
    <2> QED  BY <1>1, <2>1, <2>2, <2>3, <2>4, <2>5 DEF KeepsTags
  <1> QED  BY <1>4, <1>5, <1>6 DEF IdInv

\* Going back changes no tag the cache knows; a kill empties the cache.
LEMMA EndIds ==
  ASSUME BaseInv, IdInv, Commit \/ Rollback \/ Crash
  PROVE  IdInv'
  <1>1. \/ saved' = Tables /\ UNCHANGED tables
        \/ Restore(saved) /\ saved' = saved
    BY DEF Commit, Rollback, Crash
  <1>2. IdsOK(Tables)' /\ IdsOK(saved)'
    <2>1. CASE saved' = Tables /\ UNCHANGED tables
      BY <2>1 DEF IdInv, IdsOK, Tables, tables
    <2>2. CASE Restore(saved) /\ saved' = saved
      BY <2>2 DEF IdInv, IdsOK, Tables, Restore
    <2> QED  BY <1>1, <2>1, <2>2
  <1>3. CacheCoherent'
    <2>1. CASE Crash
      BY <2>1 DEF Crash, Empty, CacheCoherent
    <2>2. CASE Commit
      BY <2>2 DEF Commit, tables, IdInv, CacheCoherent
    <2>3. CASE Rollback
      <3>1. tags = saved.tags /\ cache' = cache
        BY <2>3 DEF Rollback, IdInv, KeepsTags
      <3>2. tags' = tags
        BY <1>1, <3>1 DEF tables, Restore
      <3> QED  BY <3>1, <3>2 DEF IdInv, CacheCoherent
    <2> QED  BY <2>1, <2>2, <2>3
  <1>4. KeepsTags'
    BY DEF Commit, Rollback, Crash, Forget, NoRequest, KeepsTags, Creates
  <1> QED  BY <1>2, <1>3, <1>4 DEF IdInv

\* link()s run between requests, and bind them to nothing.
LEMMA BesideIds ==
  ASSUME BaseInv, BaseInv', pc = "idle", UNCHANGED linkRest, IdsOK(Tables)', CacheCoherent'
  PROVE  IdInv'
  <1>1. pc' = "idle" /\ pc' \in StepsOf(req'.op) /\ saved' = Tables'
    BY DEF BaseInv, RequestInv, SavedInv, linkRest
  <1>2. req'.op \notin Creates \cup {"unlink", "unlinkAll", "rename", "unrelate"}
    BY <1>1 DEF StepsOf, Creates
  <1>3. KeepsTags'
    BY <1>1, <1>2 DEF KeepsTags
  <1>4. IdsOK(saved)'
    BY <1>1
  <1> QED  BY <1>3, <1>4 DEF IdInv

\* What link() does to the next tag of its path.
LEMMA PlainLinkTag ==
  ASSUME BaseInv, IdInv, NEW l \in Linkers, LinkTag(l), NEW k, k = Head(ltodo[l])
  PROVE  /\ k \in TagNames /\ k \in TagSet(lreq[l].tags) /\ CreateTag(k)
         /\ cache' = [cache EXCEPT ![k] = tags'[k]]
         /\ tagging' = tagging \cup {<<lino[l], tags'[k]>>}
  <1>1. /\ lpc[l] = "tag"
        /\ IF GetTagId(k) = 0 THEN CreateTag(k) ELSE UNCHANGED <<tags, tagSeq>>
        /\ cache' = [cache EXCEPT ![k] = FoundOrCreated(k)]
        /\ tagging' = tagging \cup {<<lino[l], FoundOrCreated(k)>>}
    BY DEF LinkTag, Cached
  <1>2. /\ ltodo[l] # <<>> /\ ltodo[l] \in Seq(TagNames)
        /\ TagSet(ltodo[l]) \subseteq TagSet(lreq[l].tags)
    BY <1>1 DEF BaseInv, LinkInv, TypeOK
  <1>3. k \in TagNames /\ k \in TagSet(lreq[l].tags)
    BY <1>2, NextTag
  <1>4. GetTagId(k) = tags[k]
    BY <1>3, CoherentId DEF BaseInv, IdInv
  <1>5. CreateTag(k)
    BY <1>1, <1>4 DEF CreateTag
  <1>6. FoundOrCreated(k) = tags'[k]
    BY <1>3, <1>4, <1>5, CreateTagIds DEF BaseInv, IdInv, FoundOrCreated
  <1> QED  BY <1>1, <1>3, <1>5, <1>6

\* Its tags are looked up like those of any path, and made if they are missing.
LEMMA LinkIds ==
  ASSUME BaseInv, BaseInv', IdInv, NEW l \in Linkers, LinkStep(l)
  PROVE  IdInv'
  <1>1. ASSUME NEW r \in Links, LinkStart(l, r) PROVE IdInv'
    <2>1. /\ pc = "idle" /\ cache' = Parsed(r.tags) /\ UNCHANGED linkRest
          /\ UNCHANGED <<tags, tagSeq, tagging, relations>>
      BY <1>1 DEF LinkStart, tables
    <2>2. CacheCoherent'
      BY <2>1, ParsedCoherent DEF BaseInv, IdInv
    <2>3. IdsOK(Tables)'
      BY <2>1, IdsKept DEF IdInv
    <2> QED  BY <2>1, <2>2, <2>3, BesideIds
  <1>2. ASSUME LinkInsert(l) \/ LinkDone(l) \/ LinkFailed(l) PROVE IdInv'
    <2>1. /\ lpc[l] # "idle" /\ UNCHANGED <<tags, tagSeq, tagging, relations, cache>>
          /\ UNCHANGED linkRest
      BY <1>2 DEF LinkInsert, LinkDone, LinkFailed, tables
    <2>2. pc = "idle"
      BY <2>1 DEF BaseInv, LinkInv
    <2>3. CacheCoherent'
      BY <2>1 DEF IdInv, CacheCoherent
    <2>4. IdsOK(Tables)'
      BY <2>1, IdsKept DEF IdInv
    <2> QED  BY <2>1, <2>2, <2>3, <2>4, BesideIds
  <1>3. ASSUME LinkTag(l) PROVE IdInv'
    <2> DEFINE k == Head(ltodo[l])
    <2>1. /\ k \in TagNames /\ CreateTag(k) /\ cache' = [cache EXCEPT ![k] = tags'[k]]
          /\ tagging' = tagging \cup {<<lino[l], tags'[k]>>}
      BY <1>3, PlainLinkTag
    <2>2. lpc[l] = "tag" /\ relations' = relations /\ UNCHANGED linkRest
      BY <1>3 DEF LinkTag
    <2>3. pc = "idle"
      BY <2>2 DEF BaseInv, LinkInv
    <2> HIDE DEF k
    <2>4. /\ \A i, j \in TagNames : tags'[i] = tags'[j] /\ tags'[i] # 0 => i = j
          /\ \A j \in TagNames : tags'[j] <= tagSeq'
          /\ LiveIds \subseteq LiveIds' /\ tags'[k] # 0
          /\ \A j \in TagNames : cache[j] # 0 => cache[j] = tags'[j]
      BY <2>1, CreateTagIds DEF BaseInv, IdInv
    <2>5. tags'[k] \in LiveIds'
      BY <2>1, <2>4 DEF LiveIds
    <2>6. IdsOK(Tables)'
      <3>1. /\ \A e \in tagging : e[2] \in LiveIds
            /\ \A e \in relations : e[1] \in LiveIds /\ e[2] \in LiveIds
        BY CurrentIds DEF IdInv
      <3>2. /\ \A e \in tagging' : e[2] \in LiveIds'
            /\ \A e \in relations' : e[1] \in LiveIds' /\ e[2] \in LiveIds'
        BY <2>1, <2>2, <2>4, <2>5, <3>1
      <3> QED  BY <2>4, <3>2 DEF IdsOK, Tables, LiveIds
    <2>7. CacheCoherent'
      <3>1. cache \in [TagNames -> 0 .. MaxTag]
        BY DEF BaseInv, TypeOK
      <3> QED  BY <2>1, <2>4, <3>1 DEF CacheCoherent
    <2> QED  BY <2>2, <2>3, <2>6, <2>7, BesideIds
  <1> QED  BY <1>1, <1>2, <1>3 DEF LinkStep

\* Every step keeps ids and cache in order.
LEMMA IdStep ==
  ASSUME Plain, BaseInv, BaseInv', IdInv, [Next]_vars
  PROVE  IdInv'
  <1>1. CASE UNCHANGED vars
    BY <1>1 DEF vars, IdInv, IdsOK, Tables, CacheCoherent, KeepsTags
  <1> QED
    BY <1>1, ObjectIds, MakeTagIds, DeleteTagIds, RenameTagIds, RelateIds, UnrelateIds, LookupIds,
       StartIds, EndIds, LinkIds
    DEF Next, Tag, Destroy

\* An empty catalogue.
LEMMA IdInit ==
  ASSUME Init
  PROVE  IdInv
  <1>1. \A k \in TagNames : tags[k] = 0 /\ cache[k] = 0
    BY DEF Init, Empty
  <1>2. IdsOK(Tables) /\ saved = Tables
    BY <1>1, CurrentIds DEF Init
  <1>3. CacheCoherent /\ KeepsTags
    BY <1>1 DEF Init, CacheCoherent, KeepsTags, NoRequest, Creates
  <1> QED  BY <1>2, <1>3 DEF IdInv

\* Where tags go by their full names the invariant holds of every state.
THEOREM IdsHold ==
  ASSUME Plain
  PROVE  Spec => []IdInv
  <1>1. Init => IdInv
    BY IdInit
  <1>2. BaseInv /\ BaseInv' /\ IdInv /\ [Next]_vars => IdInv'
    BY IdStep
  <1> QED  BY <1>1, <1>2, BaseHolds, PTL DEF Spec

\* A cached tag_id is the one the tags table would return: failures, rollbacks
\* and kills included.
THEOREM CacheIsCoherent ==
  ASSUME Plain
  PROVE  Spec => []CacheCoherent
  <1>1. IdInv => CacheCoherent
    BY DEF IdInv
  <1> QED  BY <1>1, IdsHold, PTL

\* Objects are tagged, and tags related, by tags that exist.
THEOREM TaggedByLiveIds ==
  ASSUME Plain
  PROVE  Spec => []IdsAreLive
  <1>1. IdInv => IdsAreLive
    BY CurrentIds DEF IdInv, IdsAreLive
  <1> QED  BY <1>1, IdsHold, PTL

-----------------------------------------------------------------------------
(* The tables by name.  Each step of a handler does one thing to one name, *)
(* the invariant says how far the request has come, and only the step that *)
(* ends it, or a statement of link(), changes the tables Store is about.   *)

KnownIn(s) == {k \in TagNames : s.tags[k] # 0}

TaggedIn(s) == [i \in Inodes |-> TagsIn(s.tags, s.tagging, i)]

RelatedIn(s) ==
    {p \in TagNames \X TagNames :
        /\ s.tags[p[1]] # 0 /\ s.tags[p[2]] # 0
        /\ <<s.tags[p[1]], s.tags[p[2]]>> \in s.relations}

\* Now, and when the request began.
Known == KnownIn(Tables)
Tagged == TaggedIn(Tables)
Related == RelatedIn(Tables)
WasKnown == KnownIn(saved)
WasTagged == TaggedIn(saved)
WasRelated == RelatedIn(saved)

ObjectOps == Creates \cup {"unlink", "unlinkAll", "rename"}
TagOps == {"mktag", "rmtag", "mvtag", "relate", "unrelate"}

-----------------------------------------------------------------------------
(* How far a request has come                                              *)

SameTags == Known = WasKnown /\ Tagged = WasTagged
SameRelations == Related = WasRelated
SameObjects == objects = saved.objects /\ target = saved.target

\* Nothing has been done yet.
BeginInv ==
    pc \in {"idle", "insert", "symlink", "retitle", "delete", "mktag", "mvtag", "relate", "unrelate"}
        => SameTags /\ SameRelations /\ SameObjects

\* What is still to be traversed is of the path.
TodoInv ==
    /\ pc \in {"retitle", "untag", "rmtag"} \/ (pc = "tag" /\ req.op # "rename") =>
            TagSet(todo) \subseteq TagSet(req.tags)
    /\ pc = "tag" /\ req.op = "rename" => TagSet(todo) \subseteq TagSet(req.toTags)

\* A request on an object touches no other object and no relation.
OthersInv ==
    req.op \in ObjectOps =>
        /\ SameRelations
        /\ \A i \in Inodes : i # ino =>
                Tagged[i] = WasTagged[i] /\ target[i] = saved.target[i]
        /\ pc \in {"target", "check", "disk", "end"} /\ ino # 0 /\ req.op # "unlinkAll" =>
                todo = <<>>

\* mknod(), symlink(): the object has the tags traversed so far.
CreateInv ==
    req.op \in Creates /\ pc \notin {"insert", "symlink"} =>
        /\ ino \in Inodes
        /\ WasTagged[ino] \subseteq Tagged[ino]
        /\ Tagged[ino] \subseteq WasTagged[ino] \cup TagSet(req.tags)
        /\ TagSet(req.tags) \subseteq Tagged[ino] \cup TagSet(todo)
        /\ target[ino] = IF disk /\ req.op = "symlink" /\ pc \in {"disk", "end"}
                         THEN req.target ELSE saved.target[ino]
        /\ ~disk => req.op = "symlink" /\ saved.target[ino] = req.target
        /\ disk /\ req.op = "symlink" => \A i \in Inodes : saved.target[i] # req.target

\* unlink() and the first half of rename(): the tags traversed so far are gone,
\* and they were there.
UntagInv ==
    req.op \in {"unlink", "rename"} /\ ino # 0 =>
        /\ TagSet(req.tags) \subseteq WasTagged[ino]
        /\ req.op = "unlink" \/ pc \in {"retitle", "untag"} =>
            /\ Tagged[ino] \subseteq WasTagged[ino]
            /\ WasTagged[ino] \subseteq Tagged[ino] \cup TagSet(req.tags)
            /\ Tagged[ino] \cap TagSet(req.tags) \subseteq TagSet(todo)

\* rename(): the object keeps its other tags and gets the new ones.
RenameInv ==
    req.op = "rename" =>
        /\ target = saved.target
        /\ ino = 0 => pc \in {"retitle", "end"} /\ SameTags /\ SameObjects
        /\ ino # 0 /\ pc \in {"tag", "disk", "end"} =>
            /\ objects[ino] = req.toName
            /\ WasTagged[ino] \ TagSet(req.tags) \subseteq Tagged[ino]
            /\ Tagged[ino] \subseteq (WasTagged[ino] \ TagSet(req.tags)) \cup TagSet(req.toTags)
            /\ TagSet(req.toTags) \subseteq Tagged[ino] \cup TagSet(todo)

\* unlink(): an object goes when no tag is left on it.
UnlinkInv ==
    req.op \in {"unlink", "unlinkAll"} =>
        /\ pc \in {"untag", "check"} => target = saved.target
        /\ pc = "end" /\ ok => ino # 0
        /\ ~disk => req.op = "unlink" /\ pc = "end" /\ Tagged[ino] # {} /\ target = saved.target
        /\ pc \in {"disk", "end"} /\ disk /\ ino # 0 =>
                Tagged[ino] = {} /\ objects[ino] = NoName /\ target[ino] = NoTarget

\* Requests on tags leave the objects as they are.
TagInv ==
    req.op \in TagOps => target = saved.target

\* rmdir() of tags: those traversed so far are gone, and all that named them.
RmtagInv ==
    req.op = "rmtag" =>
        /\ Known \subseteq WasKnown
        /\ WasKnown \subseteq Known \cup TagSet(req.tags)
        /\ Known \cap TagSet(req.tags) \subseteq TagSet(todo)
        /\ pc = "end" => todo = <<>>
        /\ Tagged = [i \in Inodes |-> WasTagged[i] \cap Known]
        /\ Related = WasRelated \cap (Known \X Known)

\* A row takes another name with all it has.
Moved(from, to) ==
    LET now(k) == IF k = from THEN to ELSE k
    IN /\ from \in WasKnown /\ to \in TagNames \ WasKnown
       /\ Known = {now(k) : k \in WasKnown}
       /\ Tagged = [i \in Inodes |-> {now(k) : k \in WasTagged[i]}]
       /\ Related = {<<now(p[1]), now(p[2])>> : p \in WasRelated}

\* The other requests on tags have one step.
OneStepInv ==
    /\ req.op = "mktag" /\ pc = "end" =>
        /\ Known = WasKnown \cup {req.tags[1]}
        /\ Tagged = WasTagged /\ SameRelations
    /\ req.op = "mvtag" /\ pc = "end" =>
        (SameTags /\ SameRelations) \/ Moved(req.tags[1], req.to)
    /\ req.op = "relate" /\ pc = "end" =>
        /\ req.tags[1] \in WasKnown
        /\ Known = WasKnown \cup {req.tags[2]}
        /\ Tagged = WasTagged
        /\ Related = WasRelated \cup (IF req.whole THEN {<<req.tags[1], req.tags[2]>>} ELSE {})
    /\ req.op = "unrelate" /\ pc = "end" /\ ok =>
        /\ req.valid /\ {req.tags[1], req.tags[2]} \subseteq Known
        /\ SameTags
        /\ Related = WasRelated \ {<<req.tags[1], req.tags[2]>>}

ObjectProgress == OthersInv /\ CreateInv /\ UntagInv /\ RenameInv /\ UnlinkInv
TagProgress == TagInv /\ RmtagInv /\ OneStepInv
ProgressInv == BeginInv /\ TodoInv /\ ObjectProgress /\ TagProgress

-----------------------------------------------------------------------------
(* What statements on ids do to names                                      *)

\* The tables by name, spelt out.
LEMMA ByName ==
  /\ Known = {k \in TagNames : tags[k] # 0}
  /\ Tagged = [i \in Inodes |-> {k \in TagNames : tags[k] # 0 /\ <<i, tags[k]>> \in tagging}]
  /\ Related = {p \in TagNames \X TagNames :
                    /\ tags[p[1]] # 0 /\ tags[p[2]] # 0
                    /\ <<tags[p[1]], tags[p[2]]>> \in relations}
  BY DEF Known, KnownIn, Tagged, TaggedIn, TagsIn, Related, RelatedIn, Tables

\* The same after a step.
LEMMA ByNameNext ==
  /\ Known' = {k \in TagNames : tags'[k] # 0}
  /\ Tagged' = [i \in Inodes |-> {k \in TagNames : tags'[k] # 0 /\ <<i, tags'[k]>> \in tagging'}]
  /\ Related' = {p \in TagNames \X TagNames :
                    /\ tags'[p[1]] # 0 /\ tags'[p[2]] # 0
                    /\ <<tags'[p[1]], tags'[p[2]]>> \in relations'}
  BY DEF Known, KnownIn, Tagged, TaggedIn, TagsIn, Related, RelatedIn, Tables

\* What the request began with does not move under it.
LEMMA WasKept ==
  ASSUME saved' = saved
  PROVE  WasKnown' = WasKnown /\ WasTagged' = WasTagged /\ WasRelated' = WasRelated
  BY DEF WasKnown, WasTagged, WasRelated, KnownIn, TaggedIn, TagsIn, RelatedIn

\* An id has one name.
LEMMA OneName ==
  ASSUME IdInv, NEW j \in TagNames, NEW k \in TagNames, tags[j] = tags[k], tags[j] # 0
  PROVE  j = k
  BY CurrentIds DEF IdInv

\* Statements on other tables leave the names alone.
LEMMA SameNames ==
  ASSUME tags' = tags
  PROVE  /\ Known' = Known
         /\ tagging' = tagging => Tagged' = Tagged
         /\ relations' = relations => Related' = Related
  BY ByName, ByNameNext

\* insert into tagging
LEMMA TagByName ==
  ASSUME IdInv, NEW i \in Inodes, NEW k \in TagNames, tags[k] # 0, tags' = tags,
         tagging' = tagging \cup {<<i, tags[k]>>}
  PROVE  /\ Tagged'[i] = Tagged[i] \cup {k}
         /\ \A j \in Inodes : j # i => Tagged'[j] = Tagged[j]
  <1>1. \A j \in Inodes, l \in TagNames :
            tags[l] # 0 => (<<j, tags[l]>> \in tagging' <=>
                                <<j, tags[l]>> \in tagging \/ (j = i /\ l = k))
    BY OneName
  <1> QED  BY <1>1, ByName, ByNameNext

\* delete from tagging
LEMMA UntagByName ==
  ASSUME IdInv, NEW i, NEW k \in TagNames, tags' = tags,
         tagging' = tagging \ {<<i, tags[k]>>}
  PROVE  /\ i \in Inodes => Tagged'[i] = Tagged[i] \ {k}
         /\ \A j \in Inodes : j # i => Tagged'[j] = Tagged[j]
  <1>1. \A j \in Inodes, l \in TagNames :
            tags[l] # 0 => (<<j, tags[l]>> \in tagging' <=>
                                <<j, tags[l]>> \in tagging /\ ~(j = i /\ l = k))
    BY OneName
  <1> QED  BY <1>1, ByName, ByNameNext

\* tagsistant_full_untag_object()
LEMMA FullUntagByName ==
  ASSUME NEW i, tags' = tags, FullUntag(i)
  PROVE  /\ i \in Inodes => Tagged'[i] = {}
         /\ \A j \in Inodes : j # i => Tagged'[j] = Tagged[j]
  <1>1. \A j \in Inodes, l \in TagNames :
            <<j, tags[l]>> \in tagging' <=> <<j, tags[l]>> \in tagging /\ j # i
    BY DEF FullUntag
  <1> QED  BY <1>1, ByName, ByNameNext

\* insert into tags
LEMMA CreateByName ==
  ASSUME BaseInv, IdInv, NEW k \in TagNames, CreateTag(k)
  PROVE  /\ Known' = Known \cup {k}
         /\ tagging' = tagging => Tagged' = Tagged
         /\ relations' = relations => Related' = Related
         /\ \A j, l \in TagNames : relations' = relations \cup {<<tags'[j], tags'[l]>>} /\ tags'[j] # 0 /\ tags'[l] # 0
                => Related' = Related \cup {<<j, l>>}
         /\ \A i \in Inodes : tagging' = tagging \cup {<<i, tags'[k]>>}
                => Tagged' = [Tagged EXCEPT ![i] = Tagged[i] \cup {k}]
  <1>1. /\ \A j \in TagNames : j # k => tags'[j] = tags[j]
        /\ tags'[k] # 0 /\ (tags[k] # 0 => tags'[k] = tags[k])
        /\ (tags[k] = 0 => tags'[k] = tagSeq + 1)
        /\ \A i, j \in TagNames : tags'[i] = tags'[j] /\ tags'[i] # 0 => i = j
    BY CreateTagIds DEF BaseInv, IdInv
  <1>2. /\ \A e \in tagging : e[2] \in LiveIds
        /\ \A e \in relations : e[1] \in LiveIds /\ e[2] \in LiveIds
        /\ \A id \in LiveIds : \E j \in TagNames : id = tags[j] /\ tags[j] # 0
    BY CurrentIds DEF IdInv, LiveIds
  <1>3. tags[k] = 0 => tags'[k] \notin LiveIds
    BY <1>1, <1>2
  <1>4. \A i, l : l \in TagNames => (<<i, tags'[l]>> \in tagging <=> tags[l] # 0 /\ <<i, tags[l]>> \in tagging)
    BY <1>1, <1>2, <1>3
  <1>5. \A j, l \in TagNames :
            <<tags'[j], tags'[l]>> \in relations
                <=> tags[j] # 0 /\ tags[l] # 0 /\ <<tags[j], tags[l]>> \in relations
    BY <1>1, <1>2, <1>3
  <1>6. Known' = Known \cup {k}
    BY <1>1, ByName, ByNameNext
  <1>7. tagging' = tagging => Tagged' = Tagged
    BY <1>1, <1>4, ByName, ByNameNext
  <1>8. relations' = relations => Related' = Related
    BY <1>1, <1>5, ByName, ByNameNext
  <1>9. ASSUME NEW j \in TagNames, NEW l \in TagNames, tags'[j] # 0, tags'[l] # 0,
               relations' = relations \cup {<<tags'[j], tags'[l]>>}
        PROVE  Related' = Related \cup {<<j, l>>}
    <2>1. \A a, b \in TagNames : tags'[a] # 0 /\ tags'[b] # 0 =>
             (<<tags'[a], tags'[b]>> \in relations' <=>
                    <<tags'[a], tags'[b]>> \in relations \/ (a = j /\ b = l))
      BY <1>1, <1>9
    <2> QED  BY <1>1, <1>5, <1>9, <2>1, ByName, ByNameNext
  <1>10. ASSUME NEW i \in Inodes, tagging' = tagging \cup {<<i, tags'[k]>>}
         PROVE  Tagged' = [Tagged EXCEPT ![i] = Tagged[i] \cup {k}]
    <2>1. \A j \in Inodes, l \in TagNames : tags'[l] # 0 =>
             (<<j, tags'[l]>> \in tagging' <=> <<j, tags'[l]>> \in tagging \/ (j = i /\ l = k))
      BY <1>1, <1>10
    <2>2. \A j \in Inodes : Tagged'[j] = IF j = i THEN Tagged[j] \cup {k} ELSE Tagged[j]
      BY <1>1, <1>4, <2>1, ByName, ByNameNext
    <2>3. Tagged' = [j \in Inodes |-> Tagged'[j]] /\ Tagged = [j \in Inodes |-> Tagged[j]]
      BY ByName, ByNameNext
    <2> QED  BY <2>2, <2>3
  <1> QED  BY <1>6, <1>7, <1>8, <1>9, <1>10

\* delete from tags, and from the tables that refer to the tag
LEMMA DeleteByName ==
  ASSUME BaseInv, IdInv, NEW k \in TagNames, tags' = [tags EXCEPT ![k] = 0],
         tagging' = {e \in tagging : e[2] # tags[k]},
         relations' = {e \in relations : tags[k] \notin {e[1], e[2]}}
  PROVE  /\ Known' = Known \ {k}
         /\ Tagged' = [i \in Inodes |-> Tagged[i] \ {k}]
         /\ Related' = Related \cap (Known' \X Known')
  <1>1. /\ tags'[k] = 0 /\ \A j \in TagNames : j # k => tags'[j] = tags[j]
    BY DEF BaseInv, TypeOK
  <1>2. \A j \in TagNames : j # k /\ tags[j] # 0 => tags[j] # tags[k]
    BY OneName
  <1>3. Known' = Known \ {k}
    BY <1>1, ByName, ByNameNext
  <1>4. \A i \in Inodes : \A j \in TagNames :
            tags'[j] # 0 /\ <<i, tags'[j]>> \in tagging'
                <=> tags[j] # 0 /\ <<i, tags[j]>> \in tagging /\ j # k
    BY <1>1, <1>2
  <1>5. \A j, l \in TagNames :
            tags'[j] # 0 /\ tags'[l] # 0 /\ <<tags'[j], tags'[l]>> \in relations'
                <=> tags[j] # 0 /\ tags[l] # 0 /\ <<tags[j], tags[l]>> \in relations /\ j # k /\ l # k
    BY <1>1, <1>2
  <1>6. Tagged' = [i \in Inodes |-> Tagged[i] \ {k}]
    BY <1>4, ByName, ByNameNext
  <1>7. Related' = Related \cap (Known' \X Known')
    <2>1. Known' = {j \in TagNames : tags[j] # 0 /\ j # k}
      BY <1>3, ByName
    <2> QED  BY <1>5, <2>1, ByName, ByNameNext
  <1> QED  BY <1>3, <1>6, <1>7

\* delete from relations
LEMMA UnrelateByName ==
  ASSUME IdInv, NEW j \in TagNames, NEW l \in TagNames, tags[j] # 0, tags[l] # 0, tags' = tags,
         relations' = relations \ {<<tags[j], tags[l]>>}
  PROVE  Related' = Related \ {<<j, l>>}
  <1>1. \A a, b \in TagNames : tags[a] # 0 /\ tags[b] # 0 =>
            (<<tags[a], tags[b]>> \in relations' <=>
                <<tags[a], tags[b]>> \in relations /\ ~(a = j /\ b = l))
    BY OneName
  <1> QED  BY <1>1, ByName, ByNameNext

\* update tags set tagname
LEMMA MoveByName ==
  ASSUME BaseInv, IdInv, NEW from \in TagNames, NEW to \in TagNames, tags[from] # 0, tags[to] = 0,
         tags' = [tags EXCEPT ![from] = 0, ![to] = tags[from]], UNCHANGED <<tagging, relations>>
  PROVE  LET now(k) == IF k = from THEN to ELSE k
         IN /\ Known' = {now(k) : k \in Known}
            /\ Tagged' = [i \in Inodes |-> {now(k) : k \in Tagged[i]}]
            /\ Related' = {<<now(p[1]), now(p[2])>> : p \in Related}
  <1> DEFINE now(k) == IF k = from THEN to ELSE k
             was(k) == IF k = to THEN from ELSE k
  <1>1. /\ tags'[from] = 0 /\ tags'[to] = tags[from]
        /\ \A k \in TagNames : k # from /\ k # to => tags'[k] = tags[k]
    BY DEF BaseInv, TypeOK
  <1>2. \A k \in TagNames : tags[k] # 0 => now(k) \in TagNames /\ tags'[now(k)] = tags[k]
    BY <1>1
  <1>3. \A k \in TagNames : tags'[k] # 0 =>
            was(k) \in TagNames /\ tags[was(k)] = tags'[k] /\ now(was(k)) = k
    BY <1>1
  <1>4. Known' = {now(k) : k \in Known}
    <2>1. ASSUME NEW k \in Known PROVE now(k) \in Known'
      <3>1. k \in TagNames /\ tags[k] # 0
        BY <2>1, ByName
      <3>2. now(k) \in TagNames /\ tags'[now(k)] # 0
        BY <1>2, <3>1
      <3> QED  BY <3>2, ByNameNext
    <2>2. ASSUME NEW k \in Known' PROVE was(k) \in Known /\ k = now(was(k))
      <3>1. k \in TagNames /\ tags'[k] # 0
        BY <2>2, ByNameNext
      <3>2. was(k) \in TagNames /\ tags[was(k)] # 0 /\ now(was(k)) = k
        BY <1>3, <3>1
      <3> QED  BY <3>2, ByName
    <2> HIDE DEF now, was
    <2> QED  BY <2>1, <2>2
  <1>5. Tagged' = [i \in Inodes |-> {now(k) : k \in Tagged[i]}]
    <2>1. \A i \in Inodes : Tagged'[i] = {now(k) : k \in Tagged[i]}
      <3> SUFFICES ASSUME NEW i \in Inodes PROVE Tagged'[i] = {now(k) : k \in Tagged[i]}
        OBVIOUS
      <3>1. Tagged[i] = {k \in TagNames : tags[k] # 0 /\ <<i, tags[k]>> \in tagging}
        BY ByName
      <3>2. Tagged'[i] = {k \in TagNames : tags'[k] # 0 /\ <<i, tags'[k]>> \in tagging}
        BY ByNameNext
      <3>3. ASSUME NEW k \in Tagged[i] PROVE now(k) \in Tagged'[i]
        <4>1. k \in TagNames /\ tags[k] # 0 /\ <<i, tags[k]>> \in tagging
          BY <3>1, <3>3
        <4>2. now(k) \in TagNames /\ tags'[now(k)] = tags[k]
          BY <1>2, <4>1
        <4> HIDE DEF now
        <4> QED  BY <3>2, <4>1, <4>2
      <3>4. ASSUME NEW k \in Tagged'[i] PROVE was(k) \in Tagged[i] /\ k = now(was(k))
        <4>1. k \in TagNames /\ tags'[k] # 0 /\ <<i, tags'[k]>> \in tagging
          BY <3>2, <3>4
        <4>2. was(k) \in TagNames /\ tags[was(k)] = tags'[k] /\ now(was(k)) = k
          BY <1>3, <4>1
        <4> HIDE DEF was, now
        <4> QED  BY <3>1, <4>1, <4>2
      <3> HIDE DEF now, was
      <3> QED  BY <3>3, <3>4
    <2> QED  BY <2>1, ByNameNext
  <1>6. Related' = {<<now(p[1]), now(p[2])>> : p \in Related}
    <2>1. ASSUME NEW p \in Related PROVE <<now(p[1]), now(p[2])>> \in Related'
      <3>1. /\ p \in TagNames \X TagNames /\ tags[p[1]] # 0 /\ tags[p[2]] # 0
            /\ <<tags[p[1]], tags[p[2]]>> \in relations
        BY <2>1, ByName
      <3>2. /\ now(p[1]) \in TagNames /\ tags'[now(p[1])] = tags[p[1]]
            /\ now(p[2]) \in TagNames /\ tags'[now(p[2])] = tags[p[2]]
        BY <1>2, <3>1
      <3>3. \A a, b \in TagNames :
                tags'[a] # 0 /\ tags'[b] # 0 /\ <<tags'[a], tags'[b]>> \in relations => <<a, b>> \in Related'
        <4> SUFFICES ASSUME NEW a \in TagNames, NEW b \in TagNames, tags'[a] # 0, tags'[b] # 0,
                            <<tags'[a], tags'[b]>> \in relations
                     PROVE  <<a, b>> \in Related'
          OBVIOUS
        <4>1. PICK q \in TagNames \X TagNames : q = <<a, b>>
          OBVIOUS
        <4>2. tags'[q[1]] # 0 /\ tags'[q[2]] # 0 /\ <<tags'[q[1]], tags'[q[2]]>> \in relations'
          BY <4>1
        <4> QED  BY <4>1, <4>2, ByNameNext
      <3> HIDE DEF now
      <3> QED  BY <3>1, <3>2, <3>3
    <2>2. ASSUME NEW q \in Related' PROVE \E p \in Related : q = <<now(p[1]), now(p[2])>>
      <3>1. /\ q \in TagNames \X TagNames /\ tags'[q[1]] # 0 /\ tags'[q[2]] # 0
            /\ <<tags'[q[1]], tags'[q[2]]>> \in relations
        BY ByNameNext
      <3>2. <<was(q[1]), was(q[2])>> \in Related
        BY <1>3, <3>1, ByName
      <3>3. q = <<now(was(q[1])), now(was(q[2]))>>
        BY <1>3, <3>1
      <3> QED  BY <3>2, <3>3
    <2> DEFINE moved(p) == <<now(p[1]), now(p[2])>>
    <2>3. /\ \A p \in Related : moved(p) \in Related'
          /\ \A q \in Related' : \E p \in Related : q = moved(p)
      BY <2>1, <2>2
    <2> HIDE DEF moved
    <2>4. Related' = {moved(p) : p \in Related}
      BY <2>3
    <2> QED  BY <2>4 DEF moved
  <1> QED  BY <1>4, <1>5, <1>6 DEF now

-----------------------------------------------------------------------------
(* Every step of a request keeps account of it                             *)

\* For a request on an object the conditions on tags say nothing.
LEMMA ObjectRequest ==
  ASSUME req.op \in ObjectOps, req' = req, TodoInv', ObjectProgress',
         pc' \in {"tag", "target", "untag", "check", "disk", "end"}
  PROVE  ProgressInv'
  BY DEF ProgressInv, BeginInv, TagProgress, TagInv, RmtagInv, OneStepInv, ObjectOps, TagOps, Creates

\* The path is traversed from its beginning.
LEMMA InsertProgress ==
  ASSUME BaseInv, BaseInv', IdInv, ProgressInv, Insert \/ SymlinkNew
  PROVE  ProgressInv'
  <1>1. /\ pc \in {"insert", "symlink"} /\ InsertObject
        /\ pc = "symlink" => \A i \in Inodes : objects[i] # NoName => target[i] # req.target
    BY DEF Insert, SymlinkNew
  <1>2. /\ req.op \in Creates /\ (req.op = "symlink" => pc = "symlink" /\ req.target \in Targets)
        /\ WellFormed(req) /\ disk
    BY <1>1, RequestFacts DEF BaseInv, ObjectInv, Creates, WellFormed
  <1>3. /\ Known = WasKnown /\ Tagged = WasTagged /\ Related = WasRelated
        /\ objects = saved.objects /\ target = saved.target
    BY <1>1 DEF ProgressInv, BeginInv, SameTags, SameRelations, SameObjects
  <1>4. /\ saved' = saved /\ req' = req /\ target' = target /\ disk' = disk
        /\ todo' = req.tags /\ pc' \in {"tag", "disk", "target"} /\ (pc' # "tag" => todo' = <<>>)
        /\ pc' = "disk" => req.op # "symlink"
    BY <1>1, <1>2 DEF InsertObject, requestRest, AfterTags
  <1>5. Known' = Known /\ Tagged' = Tagged /\ Related' = Related
    BY <1>1, SameNames DEF InsertObject
  <1>6. WasKnown' = WasKnown /\ WasTagged' = WasTagged /\ WasRelated' = WasRelated
    BY <1>4, WasKept
  <1>7. ino' \in Inodes
    BY <1>2, <1>4 DEF BaseInv, ObjectInv
  <1>8. req.op = "symlink" => \A i \in Inodes : saved.target[i] # req.target
    BY <1>1, <1>2, <1>3, CurrentTables, NamesAssumption DEF BaseInv
  <1>9. OthersInv'
    BY <1>3, <1>4, <1>5, <1>6 DEF OthersInv, SameRelations
  <1>10. CreateInv'
    BY <1>2, <1>3, <1>4, <1>5, <1>6, <1>7, <1>8 DEF CreateInv
  <1>11. UntagInv' /\ RenameInv' /\ UnlinkInv'
    BY <1>2, <1>4 DEF UntagInv, RenameInv, UnlinkInv, Creates
  <1>12. TodoInv'
    BY <1>2, <1>4 DEF TodoInv, Creates
  <1> QED  BY <1>2, <1>4, <1>9, <1>10, <1>11, <1>12, ObjectRequest DEF ObjectProgress, ObjectOps

\* symlink() to a known target: the existing object will be tagged.
LEMMA SymlinkKnownProgress ==
  ASSUME BaseInv, BaseInv', IdInv, ProgressInv, SymlinkKnown
  PROVE  ProgressInv'
  <1>1. /\ pc = "symlink" /\ ino' \in Inodes /\ target[ino'] = req.target /\ disk' = FALSE
        /\ todo' = req.tags /\ pc' \in {"end", "tag"} /\ (pc' # "tag" => todo' = <<>>)
        /\ UNCHANGED <<tables, requestRest>>
    BY DEF SymlinkKnown
  <1>2. req.op = "symlink"
    BY <1>1, RequestFacts DEF BaseInv
  <1>3. /\ Known = WasKnown /\ Tagged = WasTagged /\ Related = WasRelated
        /\ objects = saved.objects /\ target = saved.target
    BY <1>1 DEF ProgressInv, BeginInv, SameTags, SameRelations, SameObjects
  <1>4. saved' = saved /\ req' = req /\ target' = target
    BY <1>1 DEF tables, requestRest
  <1>5. Known' = Known /\ Tagged' = Tagged /\ Related' = Related
    BY <1>1, SameNames DEF tables
  <1>6. WasKnown' = WasKnown /\ WasTagged' = WasTagged /\ WasRelated' = WasRelated
    BY <1>4, WasKept
  <1>7. OthersInv'
    BY <1>1, <1>3, <1>4, <1>5, <1>6 DEF OthersInv, SameRelations
  <1>8. CreateInv'
    BY <1>1, <1>2, <1>3, <1>4, <1>5, <1>6 DEF CreateInv
  <1>9. UntagInv' /\ RenameInv' /\ UnlinkInv'
    BY <1>2, <1>4 DEF UntagInv, RenameInv, UnlinkInv
  <1>10. TodoInv'
    BY <1>1, <1>2, <1>4 DEF TodoInv
  <1> QED  BY <1>1, <1>2, <1>4, <1>7, <1>8, <1>9, <1>10, ObjectRequest DEF ObjectProgress, ObjectOps, Creates

\* One tag of the path is given to the object.
LEMMA TagObjectProgress ==
  ASSUME BaseInv, BaseInv', IdInv, ProgressInv, TagObject
  PROVE  ProgressInv'
  <1> DEFINE k == Head(todo)
  <1>1. /\ pc = "tag" /\ todo # <<>> /\ todo \in Seq(TagNames) /\ req.op \in Creates \cup {"rename"}
        /\ ino \in Inodes /\ ino # 0
    BY RequestFacts, CatalogBounds DEF BaseInv, TagObject, RequestInv, TypeOK, Inodes
  <1>2. k \in TagNames /\ TagSet(todo) = {k} \cup TagSet(Tail(todo))
    BY <1>1, NextTag
  <1>3. tags[k] # 0 /\ GetTagId(k) = tags[k]
    BY <1>1, <1>2, CoherentId DEF IdInv, KeepsTags, BaseInv
  <1>4. /\ tags' = tags /\ relations' = relations /\ objects' = objects /\ target' = target
        /\ saved' = saved /\ req' = req /\ ino' = ino /\ disk' = disk
        /\ tagging' = tagging \cup {<<ino, tags[k]>>} /\ todo' = Tail(todo)
    BY <1>3 DEF TagObject, FoundOrCreated, requestRest
  <1>5. /\ pc' \in {"tag", "disk", "target", "end"} /\ (pc' # "tag" => todo' = <<>>)
        /\ (pc' = "end" => ~disk) /\ (pc' \in {"disk", "target"} => disk)
        /\ (pc' = "disk" => req.op # "symlink") /\ (pc' = "target" => req.op = "symlink")
    BY DEF TagObject, AfterTags
  <1>6. Known' = Known /\ Related' = Related
    BY <1>4, SameNames
  <1>7. Tagged'[ino] = Tagged[ino] \cup {k} /\ \A j \in Inodes : j # ino => Tagged'[j] = Tagged[j]
    BY <1>1, <1>2, <1>3, <1>4, TagByName
  <1>8. WasKnown' = WasKnown /\ WasTagged' = WasTagged /\ WasRelated' = WasRelated
    BY <1>4, WasKept
  <1> HIDE DEF k
  <1>9. req.op \in ObjectOps /\ TodoInv'
    <2>1. TodoInv'
      BY <1>1, <1>2, <1>4, <1>5 DEF ProgressInv, TodoInv
    <2> QED  BY <1>1, <2>1 DEF ObjectOps
  <1>10. OthersInv'
    BY <1>4, <1>5, <1>6, <1>7, <1>8, <1>9 DEF ProgressInv, ObjectProgress, OthersInv, SameRelations
  <1>11. CASE req.op \in Creates
    <2>1. k \in TagSet(req.tags)
      BY <1>1, <1>2, <1>11 DEF ProgressInv, TodoInv, Creates
    <2>2. CreateInv'
      BY <1>1, <1>2, <1>4, <1>5, <1>7, <1>8, <1>11, <2>1 DEF ProgressInv, ObjectProgress, CreateInv
    <2>3. UntagInv' /\ RenameInv' /\ UnlinkInv'
      BY <1>4, <1>11 DEF UntagInv, RenameInv, UnlinkInv, Creates
    <2> QED  BY <1>4, <1>5, <1>9, <1>10, <2>2, <2>3, ObjectRequest DEF ObjectProgress
  <1>12. CASE req.op = "rename"
    <2>1. k \in TagSet(req.toTags)
      BY <1>1, <1>2, <1>12 DEF ProgressInv, TodoInv
    <2>2. RenameInv'
      BY <1>1, <1>2, <1>4, <1>5, <1>7, <1>8, <1>12, <2>1 DEF ProgressInv, ObjectProgress, RenameInv
    <2>3. UntagInv'
      BY <1>1, <1>4, <1>5, <1>8, <1>12 DEF ProgressInv, ObjectProgress, UntagInv
    <2>4. CreateInv' /\ UnlinkInv'
      BY <1>4, <1>12 DEF CreateInv, UnlinkInv, Creates
    <2> QED  BY <1>4, <1>5, <1>9, <1>10, <2>2, <2>3, <2>4, ObjectRequest DEF ObjectProgress
  <1> QED  BY <1>1, <1>11, <1>12

\* symlink() records where its object points.
LEMMA SetTargetProgress ==
  ASSUME BaseInv, BaseInv', IdInv, ProgressInv, SetTarget
  PROVE  ProgressInv'
  <1>1. /\ pc = "target" /\ pc' = "disk" /\ target' = [target EXCEPT ![ino] = req.target]
        /\ UNCHANGED <<tags, tagging, relations, objects, saved, req, ino, disk, todo>>
    BY DEF SetTarget, requestRest
  <1>2. req.op = "symlink" /\ ino \in Inodes /\ target \in [Inodes -> Targets \cup {NoTarget}] /\ disk
    BY <1>1, RequestFacts DEF BaseInv, RequestInv, TypeOK, ObjectInv
  <1>3. target'[ino] = req.target /\ \A i \in Inodes : i # ino => target'[i] = target[i]
    BY <1>1, <1>2
  <1>4. Known' = Known /\ Tagged' = Tagged /\ Related' = Related
    BY <1>1, SameNames
  <1>5. WasKnown' = WasKnown /\ WasTagged' = WasTagged /\ WasRelated' = WasRelated
    BY <1>1, WasKept
  <1>6. OthersInv'
    BY <1>1, <1>2, <1>3, <1>4, <1>5 DEF ProgressInv, ObjectProgress, OthersInv, SameRelations
  <1>7. CreateInv'
    BY <1>1, <1>2, <1>3, <1>4, <1>5 DEF ProgressInv, ObjectProgress, CreateInv, Creates
  <1>8. UntagInv' /\ RenameInv' /\ UnlinkInv' /\ TodoInv'
    BY <1>1, <1>2 DEF UntagInv, RenameInv, UnlinkInv, TodoInv
  <1> QED  BY <1>1, <1>2, <1>6, <1>7, <1>8, ObjectRequest DEF ObjectProgress, ObjectOps, Creates

\* One tag of the path is taken from the object.
LEMMA UntagObjectProgress ==
  ASSUME BaseInv, BaseInv', IdInv, ProgressInv, UntagObject
  PROVE  ProgressInv'
  <1> DEFINE k == Head(todo)
  <1>1. /\ pc = "untag" /\ todo # <<>> /\ todo \in Seq(TagNames) /\ req.op \in {"unlink", "rename"}
        /\ ino = 0 \/ ino \in Inodes
    BY RequestFacts, CatalogBounds DEF BaseInv, UntagObject, RequestInv, TypeOK, Inodes
  <1>2. /\ k \in TagNames /\ TagSet(todo) = {k} \cup TagSet(Tail(todo))
        /\ Tail(todo) = <<>> => TagSet(Tail(todo)) = {}
    BY <1>1, NextTag
  <1>3. GetTagId(k) = tags[k]
    BY <1>2, CoherentId DEF IdInv, BaseInv
  <1>4. /\ tags' = tags /\ relations' = relations /\ objects' = objects /\ target' = target
        /\ saved' = saved /\ req' = req /\ ino' = ino /\ disk' = disk
        /\ tagging' = tagging \ {<<ino, tags[k]>>}
    BY <1>3 DEF UntagObject, requestRest
  <1>5. \/ pc' = "untag" /\ todo' = Tail(todo)
        \/ pc' = "check" /\ todo' = Tail(todo) /\ Tail(todo) = <<>> /\ req.op = "unlink"
        \/ pc' = "tag" /\ todo' = req.toTags /\ Tail(todo) = <<>> /\ req.op = "rename"
    BY <1>1 DEF UntagObject
  <1>6. Known' = Known /\ Related' = Related
    BY <1>4, SameNames
  <1>7. /\ ino # 0 => Tagged'[ino] = Tagged[ino] \ {k}
        /\ \A j \in Inodes : j # ino => Tagged'[j] = Tagged[j]
    BY <1>1, <1>2, <1>4, UntagByName
  <1>8. WasKnown' = WasKnown /\ WasTagged' = WasTagged /\ WasRelated' = WasRelated
    BY <1>4, WasKept
  <1>9. k \in TagSet(req.tags)
    BY <1>1, <1>2 DEF ProgressInv, TodoInv
  <1> HIDE DEF k
  <1>10. OthersInv'
    BY <1>1, <1>4, <1>5, <1>6, <1>7, <1>8 DEF ProgressInv, ObjectProgress, OthersInv, SameRelations, ObjectOps
  <1>11. UntagInv'
    BY <1>1, <1>2, <1>4, <1>5, <1>7, <1>8, <1>9 DEF ProgressInv, ObjectProgress, UntagInv
  <1>12. RenameInv'
    <2>1. CASE req.op = "unlink"
      BY <1>4, <2>1 DEF RenameInv
    <2>2. CASE req.op = "rename"
      <3>1. target' = saved'.target /\ ino # 0 /\ objects[ino] = req.toName
        BY <1>1, <1>4, <2>2 DEF ProgressInv, ObjectProgress, RenameInv, BaseInv, ObjectInv
      <3>2. pc' = "tag" => /\ Tagged'[ino] = WasTagged[ino] \ TagSet(req.tags)
                           /\ TagSet(todo') = TagSet(req.toTags)
        <4> SUFFICES ASSUME pc' = "tag" PROVE Tagged'[ino] = WasTagged[ino] \ TagSet(req.tags)
          BY <1>5
        <4>1. TagSet(todo) = {k}
          BY <1>2, <1>5
        <4>2. /\ Tagged[ino] \subseteq WasTagged[ino] /\ Tagged[ino] \cap TagSet(req.tags) \subseteq {k}
              /\ WasTagged[ino] \subseteq Tagged[ino] \cup TagSet(req.tags)
          BY <1>1, <2>2, <3>1, <4>1 DEF ProgressInv, ObjectProgress, UntagInv
        <4> QED  BY <1>7, <1>9, <3>1, <4>2
      <3> QED  BY <1>4, <1>5, <1>8, <2>2, <3>1, <3>2 DEF RenameInv
    <2> QED  BY <1>1, <2>1, <2>2
  <1>13. UnlinkInv'
    BY <1>1, <1>4, <1>5 DEF ProgressInv, ObjectProgress, UnlinkInv
  <1>14. CreateInv' /\ TodoInv' /\ req.op \in ObjectOps
    BY <1>1, <1>2, <1>4, <1>5 DEF ProgressInv, CreateInv, TodoInv, Creates, ObjectOps
  <1> QED  BY <1>4, <1>5, <1>10, <1>11, <1>12, <1>13, <1>14, ObjectRequest DEF ObjectProgress

\* No tag is left on the object exactly when tagsistant_object_is_tagged() says so.
LEMMA TaggedIsTagged ==
  ASSUME BaseInv, IdInv, NEW i \in Inodes
  PROVE  IsTagged(i) <=> Tagged[i] # {}
  <1>1. \A e \in tagging : e[2] \in LiveIds
    BY CurrentIds DEF IdInv
  <1>2. ASSUME IsTagged(i) PROVE Tagged[i] # {}
    <2>1. PICK id \in Ids : <<i, id>> \in tagging
      BY <1>2 DEF IsTagged
    <2>2. id \in LiveIds
      BY <1>1, <2>1
    <2>3. PICK k \in TagNames : tags[k] = id /\ tags[k] # 0
      BY <2>2 DEF LiveIds
    <2>4. k \in Tagged[i]
      BY <2>1, <2>3, ByName
    <2> QED  BY <2>4
  <1>3. ASSUME NEW k \in Tagged[i] PROVE IsTagged(i)
    <2>1. <<i, tags[k]>> \in tagging
      BY <1>3, ByName
    <2>2. tags[k] \in Ids
      BY <2>1 DEF BaseInv, TypeOK
    <2> QED  BY <2>1, <2>2 DEF IsTagged
  <1> QED  BY <1>2, <1>3

\* unlink(): an object without tags goes.
LEMMA CheckTaggedProgress ==
  ASSUME BaseInv, BaseInv', IdInv, ProgressInv, CheckTagged
  PROVE  ProgressInv'
  <1>1. /\ pc = "check" /\ req.op = "unlink" /\ disk /\ TypeOK
        /\ ino = 0 \/ ino \in Inodes
    BY RequestFacts, CatalogBounds DEF BaseInv, CheckTagged, TypeOK, Inodes, ObjectInv
  <1>2. UNCHANGED <<tags, tagging, relations, saved, req, ino, todo, ok>>
    BY DEF CheckTagged, requestRest
  <1>3. Known' = Known /\ Tagged' = Tagged /\ Related' = Related
    BY <1>2, SameNames
  <1>4. WasKnown' = WasKnown /\ WasTagged' = WasTagged /\ WasRelated' = WasRelated
    BY <1>2, WasKept
  <1>5. target = saved.target
    BY <1>1 DEF ProgressInv, ObjectProgress, UnlinkInv
  <1>6. \/ /\ disk' = FALSE /\ pc' = "end" /\ objects' = objects /\ target' = target
           /\ ino \in Inodes /\ Tagged[ino] # {}
        \/ /\ disk' = disk /\ pc' = "disk"
           /\ \A i \in Inodes : i # ino => target'[i] = target[i]
           /\ ino # 0 => objects'[ino] = NoName /\ target'[ino] = NoTarget /\ Tagged[ino] = {}
    <2>1. CASE IsTagged(ino)
      <3>1. ino \in Inodes
        BY <2>1 DEF IsTagged, BaseInv, TypeOK
      <3> QED  BY <2>1, <3>1, TaggedIsTagged DEF CheckTagged
    <2>2. CASE ~IsTagged(ino)
      <3>1. Drop(ino) /\ pc' = "disk" /\ disk' = disk
        BY <2>2 DEF CheckTagged
      <3>2. ino # 0 => Tagged[ino] = {}
        BY <1>1, <2>2, TaggedIsTagged
      <3> QED  BY <1>1, <3>1, <3>2, DropRows
    <2> QED  BY <2>1, <2>2
  <1>7. OthersInv'
    BY <1>1, <1>2, <1>3, <1>4, <1>5, <1>6 DEF ProgressInv, ObjectProgress, OthersInv, SameRelations, ObjectOps
  <1>8. UntagInv'
    BY <1>1, <1>2, <1>3, <1>4 DEF ProgressInv, ObjectProgress, UntagInv
  <1>9. UnlinkInv'
    <2>1. ino \in Inodes => ino # 0
      BY CatalogBounds DEF Inodes
    <2> QED  BY <1>1, <1>2, <1>3, <1>5, <1>6, <2>1 DEF UnlinkInv
  <1>10. CreateInv' /\ RenameInv' /\ TodoInv' /\ req.op \in ObjectOps
    BY <1>1, <1>2, <1>6 DEF CreateInv, RenameInv, TodoInv, Creates, ObjectOps
  <1> QED  BY <1>2, <1>6, <1>7, <1>8, <1>9, <1>10, ObjectRequest DEF ObjectProgress

\* unlink() below store/ALL/.
LEMMA DeleteObjectProgress ==
  ASSUME BaseInv, BaseInv', IdInv, ProgressInv, DeleteObject
  PROVE  ProgressInv'
  <1>1. /\ pc = "delete" /\ req.op = "unlinkAll" /\ disk /\ TypeOK
        /\ ino = 0 \/ ino \in Inodes
    BY RequestFacts, CatalogBounds DEF BaseInv, DeleteObject, TypeOK, Inodes, ObjectInv
  <1>2. /\ pc' = "disk" /\ Drop(ino) /\ FullUntag(ino)
        /\ UNCHANGED <<tags, relations, saved, req, ino, disk, todo, ok>>
    BY DEF DeleteObject, requestRest
  <1>3. Known' = Known /\ Related' = Related
    BY <1>2, SameNames
  <1>4. /\ ino # 0 => Tagged'[ino] = {}
        /\ \A j \in Inodes : j # ino => Tagged'[j] = Tagged[j]
    BY <1>1, <1>2, FullUntagByName
  <1>5. WasKnown' = WasKnown /\ WasTagged' = WasTagged /\ WasRelated' = WasRelated
    BY <1>2, WasKept
  <1>6. /\ \A i \in Inodes : i # ino => target'[i] = target[i]
        /\ ino # 0 => objects'[ino] = NoName /\ target'[ino] = NoTarget
    BY <1>1, <1>2, DropRows
  <1>7. OthersInv'
    BY <1>1, <1>2, <1>3, <1>4, <1>5, <1>6
    DEF ProgressInv, ObjectProgress, OthersInv, SameRelations, ObjectOps
  <1>8. UnlinkInv'
    BY <1>1, <1>2, <1>4, <1>6 DEF UnlinkInv
  <1>9. CreateInv' /\ UntagInv' /\ RenameInv' /\ TodoInv' /\ req.op \in ObjectOps
    BY <1>1, <1>2 DEF CreateInv, UntagInv, RenameInv, TodoInv, Creates, ObjectOps
  <1> QED  BY <1>2, <1>7, <1>8, <1>9, ObjectRequest DEF ObjectProgress

\* rename() starts with the name of the object.
LEMMA RenameObjectProgress ==
  ASSUME BaseInv, BaseInv', IdInv, ProgressInv, RenameObject
  PROVE  ProgressInv'
  <1>1. pc = "retitle" /\ req.op = "rename" /\ (ino = 0 \/ ino \in Inodes)
    BY RequestFacts, CatalogBounds DEF BaseInv, RenameObject, TypeOK, Inodes
  <1>2. /\ pc' = (IF ino = 0 THEN "end" ELSE "untag") /\ (ino = 0 => objects' = objects)
        /\ UNCHANGED <<tags, tagging, relations, target, saved, req, ino, disk, todo, ok>>
    BY DEF RenameObject, requestRest
  <1>3. Known' = Known /\ Tagged' = Tagged /\ Related' = Related
    BY <1>2, SameNames
  <1>4. WasKnown' = WasKnown /\ WasTagged' = WasTagged /\ WasRelated' = WasRelated
    BY <1>2, WasKept
  <1>5. /\ Known = WasKnown /\ Tagged = WasTagged /\ Related = WasRelated
        /\ objects = saved.objects /\ target = saved.target
    BY <1>1 DEF ProgressInv, BeginInv, SameTags, SameRelations, SameObjects
  <1>6. OthersInv'
    BY <1>1, <1>2, <1>3, <1>4, <1>5 DEF OthersInv, SameRelations
  <1>7. UntagInv'
    BY <1>1, <1>2, <1>3, <1>4 DEF ProgressInv, ObjectProgress, UntagInv
  <1>8. RenameInv'
    BY <1>1, <1>2, <1>3, <1>4, <1>5 DEF RenameInv, SameTags, SameObjects
  <1>9. CreateInv' /\ UnlinkInv' /\ req.op \in ObjectOps
    BY <1>1, <1>2 DEF CreateInv, UnlinkInv, Creates, ObjectOps
  <1>10. TodoInv'
    BY <1>1, <1>2 DEF ProgressInv, TodoInv
  <1> QED  BY <1>2, <1>6, <1>7, <1>8, <1>9, <1>10, ObjectRequest DEF ObjectProgress

\* The system call on archive/ leaves the tables alone.
LEMMA DiskProgress ==
  ASSUME BaseInv, BaseInv', IdInv, ProgressInv, DiskDone \/ DiskFailed
  PROVE  ProgressInv'
  <1>1. /\ pc = "disk" /\ pc' = "end" /\ req.op \in ObjectOps /\ disk
        /\ UNCHANGED <<tags, tagging, relations, objects, target, saved, req, ino, disk, todo>>
    BY RequestFacts DEF BaseInv, DiskDone, DiskFailed, tables, requestRest, ObjectOps, ObjectInv
  <1>2. Known' = Known /\ Tagged' = Tagged /\ Related' = Related
    BY <1>1, SameNames
  <1>3. WasKnown' = WasKnown /\ WasTagged' = WasTagged /\ WasRelated' = WasRelated
    BY <1>1, WasKept
  <1>4. req.op \in {"unlink", "unlinkAll"} /\ ok' => ino # 0
    <2> SUFFICES ASSUME req.op \in {"unlink", "unlinkAll"}, ok' PROVE ino # 0
      OBVIOUS
    <2>1. File \in files
      BY DEF DiskDone, DiskFailed, DiskPossible, Creates
    <2> QED  BY <2>1, CatalogBounds DEF File, BaseInv, TypeOK, Inodes
  <1>5. OthersInv'
    BY <1>1, <1>2, <1>3 DEF ProgressInv, ObjectProgress, OthersInv, SameRelations
  <1>6. CreateInv'
    BY <1>1, <1>2, <1>3 DEF ProgressInv, ObjectProgress, CreateInv
  <1>7. UntagInv'
    BY <1>1, <1>2, <1>3 DEF ProgressInv, ObjectProgress, UntagInv
  <1>8. RenameInv'
    BY <1>1, <1>2, <1>3 DEF ProgressInv, ObjectProgress, RenameInv, SameTags, SameObjects
  <1>9. UnlinkInv'
    BY <1>1, <1>2, <1>4 DEF ProgressInv, ObjectProgress, UnlinkInv
  <1>10. TodoInv'
    BY <1>1 DEF TodoInv
  <1> QED  BY <1>1, <1>5, <1>6, <1>7, <1>8, <1>9, <1>10, ObjectRequest DEF ObjectProgress

\* For a request on tags the conditions on objects say nothing.
LEMMA TagRequest ==
  ASSUME req.op \in TagOps, req' = req, TodoInv', TagProgress', pc' \in {"rmtag", "end"}
  PROVE  ProgressInv'
  BY DEF ProgressInv, BeginInv, ObjectProgress, OthersInv, CreateInv, UntagInv, RenameInv, UnlinkInv,
         ObjectOps, TagOps, Creates

\* A request with a single step.
LEMMA OneStepProgress ==
  ASSUME BaseInv, ProgressInv, pc \in {"mktag", "mvtag", "relate", "unrelate"}, pc' = "end",
         UNCHANGED <<target, saved, req>>, OneStepInv'
  PROVE  ProgressInv'
  <1>1. req.op = pc /\ target = saved.target
    BY RequestFacts DEF BaseInv, ProgressInv, BeginInv, SameObjects
  <1>2. TodoInv' /\ TagInv' /\ RmtagInv' /\ req.op \in TagOps
    BY <1>1 DEF TodoInv, TagInv, RmtagInv, TagOps
  <1> QED  BY <1>2, TagRequest DEF TagProgress

\* mkdir() of a tag.
LEMMA MakeTagProgress ==
  ASSUME BaseInv, IdInv, ProgressInv, MakeTag
  PROVE  ProgressInv'
  <1>1. pc = "mktag" /\ WellFormed(req) /\ req.op = "mktag"
    BY RequestFacts DEF BaseInv, MakeTag
  <1>2. req.tags \in Seq(TagNames) /\ Len(req.tags) = 1
    BY <1>1 DEF WellFormed
  <1>3. req.tags[1] \in TagNames
    BY <1>2, PathTags
  <1>4. /\ CreateTag(req.tags[1]) /\ pc' = "end"
        /\ UNCHANGED <<tagging, relations, target, saved, req>>
    BY DEF MakeTag, NamedTag, requestRest
  <1>5. Known' = Known \cup {req.tags[1]} /\ Tagged' = Tagged /\ Related' = Related
    BY <1>3, <1>4, CreateByName
  <1>6. WasKnown' = WasKnown /\ WasTagged' = WasTagged /\ WasRelated' = WasRelated
    BY <1>4, WasKept
  <1>7. Known = WasKnown /\ Tagged = WasTagged /\ Related = WasRelated
    BY <1>1 DEF ProgressInv, BeginInv, SameTags, SameRelations
  <1>8. OneStepInv'
    BY <1>1, <1>4, <1>5, <1>6, <1>7 DEF OneStepInv, SameRelations
  <1> QED  BY <1>1, <1>4, <1>8, OneStepProgress

\* rmdir() of the next tag of the path.
LEMMA DeleteTagProgress ==
  ASSUME BaseInv, IdInv, ProgressInv, DeleteTag
  PROVE  ProgressInv'
  <1> DEFINE k == Head(todo)
  <1>1. pc = "rmtag" /\ todo # <<>> /\ todo \in Seq(TagNames) /\ req.op = "rmtag"
    BY RequestFacts DEF BaseInv, RequestInv, TypeOK, DeleteTag
  <1>2. k \in TagNames /\ TagSet(todo) = {k} \cup TagSet(Tail(todo))
    BY <1>1, NextTag
  <1>3. GetTagId(k) = tags[k]
    BY <1>2, CoherentId DEF IdInv, BaseInv
  <1>4. /\ tags' = [tags EXCEPT ![k] = 0]
        /\ tagging' = {e \in tagging : e[2] # tags[k]}
        /\ relations' = {e \in relations : tags[k] \notin {e[1], e[2]}}
        /\ todo' = Tail(todo) /\ pc' = (IF Tail(todo) = <<>> THEN "end" ELSE "rmtag")
        /\ UNCHANGED <<target, saved, req>>
    BY <1>3 DEF DeleteTag, requestRest
  <1>5. /\ Known' = Known \ {k}
        /\ Tagged' = [i \in Inodes |-> Tagged[i] \ {k}]
        /\ Related' = Related \cap (Known' \X Known')
    BY <1>2, <1>4, DeleteByName
  <1>6. WasKnown' = WasKnown /\ WasTagged' = WasTagged /\ WasRelated' = WasRelated
    BY <1>4, WasKept
  <1>7. k \in TagSet(req.tags)
    BY <1>1, <1>2 DEF ProgressInv, TodoInv
  <1>8. /\ Known \subseteq WasKnown /\ WasKnown \subseteq Known \cup TagSet(req.tags)
        /\ Known \cap TagSet(req.tags) \subseteq TagSet(todo)
        /\ Tagged = [i \in Inodes |-> WasTagged[i] \cap Known]
        /\ Related = WasRelated \cap (Known \X Known)
    BY <1>1 DEF ProgressInv, TagProgress, RmtagInv
  <1> HIDE DEF k
  <1>9. RmtagInv'
    <2>1. /\ Known' \subseteq WasKnown /\ WasKnown \subseteq Known' \cup TagSet(req.tags)
          /\ Known' \cap TagSet(req.tags) \subseteq TagSet(todo')
      BY <1>2, <1>4, <1>5, <1>7, <1>8
    <2>2. Tagged' = [i \in Inodes |-> WasTagged[i] \cap Known']
      BY <1>5, <1>8
    <2>3. Related' = WasRelated \cap (Known' \X Known')
      BY <1>5, <1>8
    <2>4. pc' = "end" => todo' = <<>>
      BY <1>4
    <2> QED  BY <1>4, <1>6, <2>1, <2>2, <2>3, <2>4 DEF RmtagInv
  <1>10. TagInv' /\ OneStepInv' /\ TodoInv' /\ req.op \in TagOps
    BY <1>1, <1>2, <1>4 DEF ProgressInv, TagProgress, TagInv, OneStepInv, TodoInv, TagOps
  <1> QED  BY <1>4, <1>9, <1>10, TagRequest DEF TagProgress

\* rename() of a tag.
LEMMA RenameTagProgress ==
  ASSUME Plain, BaseInv, IdInv, ProgressInv, RenameTag
  PROVE  ProgressInv'
  <1> DEFINE from == req.tags[1]
             to == req.to
  <1>1. /\ from \in TagNames /\ to \in TagNames
        /\ \/ tags' = tags
           \/ tags[from] # 0 /\ tags[to] = 0 /\ tags' = [tags EXCEPT ![from] = 0, ![to] = tags[from]]
    BY PlainRename DEF NamedTag
  <1>2. pc = "mvtag" /\ pc' = "end" /\ UNCHANGED <<tagging, relations, target, saved, req>>
    BY DEF RenameTag, requestRest
  <1>3. req.op = "mvtag"
    BY <1>2, RequestFacts DEF BaseInv
  <1>4. WasKnown' = WasKnown /\ WasTagged' = WasTagged /\ WasRelated' = WasRelated
    BY <1>2, WasKept
  <1>5. Known = WasKnown /\ Tagged = WasTagged /\ Related = WasRelated
    BY <1>2 DEF ProgressInv, BeginInv, SameTags, SameRelations
  <1>6. (SameTags /\ SameRelations)' \/ Moved(req.tags[1], req.to)'
    <2>1. CASE tags' = tags
      BY <1>2, <1>4, <1>5, <2>1, SameNames DEF SameTags, SameRelations
    <2>2. CASE tags[from] # 0 /\ tags[to] = 0 /\ tags' = [tags EXCEPT ![from] = 0, ![to] = tags[from]]
      <3>1. LET now(k) == IF k = from THEN to ELSE k
            IN /\ Known' = {now(k) : k \in Known}
               /\ Tagged' = [i \in Inodes |-> {now(k) : k \in Tagged[i]}]
               /\ Related' = {<<now(p[1]), now(p[2])>> : p \in Related}
        BY <1>1, <1>2, <2>2, MoveByName
      <3>2. from \in WasKnown' /\ to \in TagNames \ WasKnown'
        BY <1>1, <1>4, <1>5, <2>2, ByName
      <3>3. req.tags' = req.tags /\ req.to' = req.to
        BY <1>2
      <3> QED  BY <1>4, <1>5, <3>1, <3>2, <3>3 DEF Moved
    <2> QED  BY <1>1, <2>1, <2>2
  <1>7. OneStepInv'
    BY <1>2, <1>3, <1>6 DEF OneStepInv
  <1> QED  BY <1>2, <1>7, OneStepProgress

\* mkdir() below relations/.
LEMMA RelateProgress ==
  ASSUME Plain, BaseInv, IdInv, ProgressInv, Relate
  PROVE  ProgressInv'
  <1> DEFINE k1 == req.tags[1]
             k2 == req.tags[2]
  <1>1. /\ k1 \in TagNames /\ k2 \in TagNames /\ tags[k1] # 0 /\ CreateTag(k2)
        /\ tags'[k1] = tags[k1]
        /\ relations' = relations \cup (IF req.whole THEN {<<tags'[k1], tags'[k2]>>} ELSE {})
    BY PlainRelate DEF LeftTag, RightTag
  <1>2. pc = "relate" /\ pc' = "end" /\ UNCHANGED <<tagging, target, saved, req>>
    BY DEF Relate, requestRest
  <1>3. req.op = "relate"
    BY <1>2, RequestFacts DEF BaseInv
  <1>4. WasKnown' = WasKnown /\ WasTagged' = WasTagged /\ WasRelated' = WasRelated
    BY <1>2, WasKept
  <1>5. Known = WasKnown /\ Tagged = WasTagged /\ Related = WasRelated
    BY <1>2 DEF ProgressInv, BeginInv, SameTags, SameRelations
  <1>6. tags'[k2] # 0
    BY <1>1, CreateTagIds DEF BaseInv, IdInv
  <1> HIDE DEF k1, k2
  <1>7. /\ Known' = Known \cup {k2} /\ Tagged' = Tagged
        /\ Related' = Related \cup (IF req.whole THEN {<<k1, k2>>} ELSE {})
    <2>1. Known' = Known \cup {k2} /\ Tagged' = Tagged
      BY <1>1, <1>2, CreateByName
    <2>2. CASE req.whole
      BY <1>1, <1>6, <2>1, <2>2, CreateByName
    <2>3. CASE ~req.whole
      <3>1. relations' = relations
        BY <1>1, <2>3
      <3>2. Related' = Related
        BY <1>1, <3>1, CreateByName
      <3> QED  BY <2>1, <2>3, <3>2
    <2> QED  BY <2>2, <2>3
  <1>8. k1 \in WasKnown
    BY <1>1, <1>5, ByName
  <1>9. OneStepInv'
    BY <1>2, <1>3, <1>4, <1>5, <1>7, <1>8 DEF OneStepInv, k1, k2
  <1> QED  BY <1>2, <1>9, OneStepProgress

\* rmdir() below relations/.
LEMMA UnrelateProgress ==
  ASSUME BaseInv, IdInv, ProgressInv, Unrelate
  PROVE  ProgressInv'
  <1> DEFINE k1 == req.tags[1]
             k2 == req.tags[2]
  <1>1. pc = "unrelate" /\ pc' = "end" /\ UNCHANGED <<tags, tagging, target, saved, req>>
    BY DEF Unrelate, requestRest
  <1>2. req.op = "unrelate" /\ WellFormed(req) /\ ok
    BY <1>1, RequestFacts DEF BaseInv, RequestInv
  <1>3. req.tags \in Seq(TagNames) /\ Len(req.tags) = 2
    BY <1>2 DEF WellFormed
  <1>4. k1 \in TagNames /\ k2 \in TagNames
    BY <1>3, PathTags
  <1>5. GetTagId(k1) = tags[k1] /\ GetTagId(k2) = tags[k2]
    BY <1>4, CoherentId DEF BaseInv, IdInv
  <1>6. WasKnown' = WasKnown /\ WasTagged' = WasTagged /\ WasRelated' = WasRelated
    BY <1>1, WasKept
  <1>7. Known = WasKnown /\ Tagged = WasTagged /\ Related = WasRelated
    BY <1>1 DEF ProgressInv, BeginInv, SameTags, SameRelations
  <1>8. Known' = Known /\ Tagged' = Tagged
    BY <1>1, SameNames
  <1>9. ASSUME ok' PROVE /\ req.valid /\ tags[k1] # 0 /\ tags[k2] # 0
                         /\ Related' = Related \ {<<k1, k2>>}
    <2>1. req.valid /\ tags[k1] # 0 /\ tags[k2] # 0 /\ relations' = relations \ {<<tags[k1], tags[k2]>>}
      BY <1>5, <1>9 DEF Unrelate, LeftTag, RightTag
    <2> QED  BY <1>1, <1>4, <2>1, UnrelateByName
  <1>10. ok' => {k1, k2} \subseteq Known
    BY <1>4, <1>9, ByName
  <1>11. OneStepInv'
    BY <1>1, <1>2, <1>6, <1>7, <1>8, <1>9, <1>10 DEF OneStepInv, SameTags
  <1> QED  BY <1>1, <1>11, OneStepProgress

\* Right after a table is saved, it is as it was.
LEMMA JustSaved ==
  ASSUME saved' = Tables'
  PROVE  /\ Known' = WasKnown' /\ Tagged' = WasTagged' /\ Related' = WasRelated'
         /\ objects' = saved'.objects /\ target' = saved'.target
  <1>1. Known' = WasKnown' /\ Tagged' = WasTagged' /\ Related' = WasRelated'
    BY DEF Known, WasKnown, Tagged, WasTagged, Related, WasRelated, KnownIn, TaggedIn, TagsIn, RelatedIn
  <1> QED  BY <1>1 DEF Tables

\* A path that resolves names an object by tags it has.
LEMMA GuessTags ==
  ASSUME BaseInv, IdInv, NEW ts \in Seq(TagNames), NEW n, NEW i \in Guess(ts, n), i # 0
  PROVE  i \in Inodes /\ TagSet(ts) \subseteq Tagged[i]
  <1>1. ts # <<>>
    BY DEF Guess
  <1>2. i \in Inodes /\ \A k \in TagSet(ts) : i \in NamedAs(n, GetTagId(k))
    BY <1>1 DEF Guess
  <1>3. ASSUME NEW k \in TagSet(ts) PROVE k \in Tagged[i]
    <2>1. k \in TagNames
      BY PathTags
    <2>2. <<i, tags[k]>> \in tagging
      BY <1>2, <2>1, CoherentId DEF NamedAs, BaseInv, IdInv
    <2>3. tags[k] # 0
      BY <2>2, CatalogBounds DEF BaseInv, TypeOK, Ids
    <2> QED  BY <1>2, <2>1, <2>2, <2>3, ByName
  <1> QED  BY <1>2, <1>3

\* A request begins with the tables it found.
LEMMA StartProgress ==
  ASSUME BaseInv, BaseInv', IdInv, ProgressInv, NEW r \in Requests, Start(r)
  PROVE  ProgressInv'
  <1>1. /\ WellFormed(r) /\ req' = r /\ saved' = Tables
        /\ todo' = r.tags /\ disk' = TRUE /\ pc' = First(r.op) /\ UNCHANGED tables
        /\ r.op \in {"unlink", "rename"} => ino' \in Guess(r.tags, r.name)
    BY RequestsAssumption DEF Start, Creates
  <1>2. saved' = Tables'
    BY <1>1 DEF Tables, tables
  <1>3. /\ Known' = WasKnown' /\ Tagged' = WasTagged' /\ Related' = WasRelated'
        /\ objects' = saved'.objects /\ target' = saved'.target
    BY <1>2, JustSaved
  <1>4. r.tags \in Seq(TagNames)
    BY <1>1 DEF WellFormed
  <1>5. Tagged' = Tagged
    BY <1>1, SameNames DEF tables
  <1>6. r.op \in {"unlink", "rename"} /\ ino' # 0 => TagSet(r.tags) \subseteq Tagged'[ino']
    BY <1>1, <1>4, <1>5, GuessTags
  <1>7. /\ pc' \in {"insert", "symlink", "retitle", "untag", "delete", "mktag", "rmtag", "mvtag",
                    "relate", "unrelate"}
        /\ r.op \in Creates => pc' \in {"insert", "symlink"}
        /\ r.op = "rename" => pc' = "retitle"
    BY <1>1 DEF First, WellFormed, Creates
  <1>8. BeginInv' /\ OthersInv' /\ CreateInv' /\ TagInv' /\ OneStepInv'
    BY <1>1, <1>3, <1>7
    DEF BeginInv, SameTags, SameRelations, SameObjects, OthersInv, CreateInv, TagInv, OneStepInv
  <1>9. TodoInv'
    BY <1>1, <1>7 DEF TodoInv
  <1>10. UntagInv'
    BY <1>1, <1>3, <1>6 DEF UntagInv
  <1>11. RenameInv' /\ UnlinkInv'
    BY <1>1, <1>3, <1>7 DEF RenameInv, UnlinkInv, SameTags, SameObjects
  <1>12. RmtagInv'
    <2>1. /\ Tagged' = [i \in Inodes |-> Tagged'[i] \cap Known']
          /\ Related' = Related' \cap (Known' \X Known')
      BY ByNameNext
    <2> QED  BY <1>1, <1>3, <1>7, <2>1 DEF RmtagInv
  <1> QED  BY <1>8, <1>9, <1>10, <1>11, <1>12 DEF ProgressInv, ObjectProgress, TagProgress

\* Between requests there is nothing to account for.
LEMMA IdleProgress ==
  ASSUME saved' = Tables', req' = NoRequest, pc' = "idle"
  PROVE  ProgressInv'
  <1>1. BeginInv'
    BY JustSaved DEF BeginInv, SameTags, SameRelations, SameObjects
  <1>2. TodoInv' /\ OthersInv' /\ CreateInv' /\ UntagInv' /\ RenameInv' /\ UnlinkInv'
    BY DEF NoRequest, TodoInv, OthersInv, CreateInv, UntagInv, RenameInv, UnlinkInv, ObjectOps, Creates
  <1>3. TagInv' /\ RmtagInv' /\ OneStepInv'
    BY DEF NoRequest, TagInv, RmtagInv, OneStepInv, TagOps
  <1> QED  BY <1>1, <1>2, <1>3 DEF ProgressInv, ObjectProgress, TagProgress

\* A request that has ended, or was killed, leaves nothing to account for.
LEMMA EndProgress ==
  ASSUME BaseInv, BaseInv', Commit \/ Rollback \/ Crash
  PROVE  ProgressInv'
  BY IdleProgress DEF Commit, Rollback, Crash, Forget, BaseInv, SavedInv

\* A step that leaves the tables and the request alone.
LEMMA QuietProgress ==
  ASSUME ProgressInv, UNCHANGED <<tables, saved, req, pc, todo, ino, disk, ok>>
  PROVE  ProgressInv'
  <1>1. Known' = Known /\ Tagged' = Tagged /\ Related' = Related
    BY SameNames DEF tables
  <1>2. WasKnown' = WasKnown /\ WasTagged' = WasTagged /\ WasRelated' = WasRelated
    BY WasKept
  <1>3. BeginInv' /\ TodoInv'
    BY <1>1, <1>2 DEF ProgressInv, BeginInv, TodoInv, SameTags, SameRelations, SameObjects, tables
  <1>4. OthersInv' /\ CreateInv' /\ UntagInv'
    BY <1>1, <1>2
    DEF ProgressInv, ObjectProgress, OthersInv, CreateInv, UntagInv, SameRelations, tables
  <1>5. RenameInv' /\ UnlinkInv'
    BY <1>1, <1>2 DEF ProgressInv, ObjectProgress, RenameInv, UnlinkInv, SameTags, SameObjects, tables
  <1>6. TagInv' /\ RmtagInv'
    BY <1>1, <1>2 DEF ProgressInv, TagProgress, TagInv, RmtagInv, tables
  <1>7. OneStepInv'
    BY <1>1, <1>2 DEF ProgressInv, TagProgress, OneStepInv, Moved, SameTags, SameRelations
  <1> QED  BY <1>3, <1>4, <1>5, <1>6, <1>7 DEF ProgressInv, ObjectProgress, TagProgress

\* So do the steps of link(), which run between requests.
LEMMA LinkProgress ==
  ASSUME BaseInv, BaseInv', NEW l \in Linkers, LinkStep(l)
  PROVE  ProgressInv'
  <1>1. pc = "idle" /\ UNCHANGED linkRest
    BY DEF LinkStep, LinkStart, LinkInsert, LinkTag, LinkDone, LinkFailed, BaseInv, LinkInv
  <1>2. pc' = "idle" /\ req' = req
    BY <1>1 DEF linkRest
  <1>3. saved' = Tables'
    BY <1>2 DEF BaseInv, SavedInv
  <1>4. req = NoRequest
    <2>1. (req = NoRequest \/ req \in Requests) /\ pc \in StepsOf(req.op)
      BY DEF BaseInv, RequestInv
    <2>2. ASSUME req \in Requests PROVE FALSE
      <3>1. req.op \in Creates \cup {"unlink", "unlinkAll", "rename", "mktag", "rmtag", "mvtag",
                                    "relate", "unrelate"}
        BY <2>2, RequestsAssumption DEF WellFormed
      <3> QED  BY <1>1, <2>1, <3>1 DEF StepsOf, Creates
    <2> QED  BY <2>1, <2>2
  <1> QED  BY <1>2, <1>3, <1>4, IdleProgress

\* Every step keeps account of the request.
LEMMA ProgressStep ==
  ASSUME Plain, BaseInv, BaseInv', IdInv, ProgressInv, [Next]_vars
  PROVE  ProgressInv'
  <1>1. ASSUME NEW k \in Lookups, Lookup(k) PROVE ProgressInv'
    BY <1>1, QuietProgress DEF Lookup
  <1>2. CASE UNCHANGED vars
    BY <1>2, QuietProgress DEF vars, tables
  <1> QED
    BY <1>1, <1>2, InsertProgress, SymlinkKnownProgress, TagObjectProgress, SetTargetProgress,
       UntagObjectProgress, CheckTaggedProgress, DeleteObjectProgress, RenameObjectProgress,
       DiskProgress, MakeTagProgress, DeleteTagProgress, RenameTagProgress, RelateProgress,
       UnrelateProgress, StartProgress, EndProgress, LinkProgress
    DEF Next, Object, Tag, Destroy

\* The invariant of the refinement.
THEOREM ProgressHolds ==
  ASSUME Plain
  PROVE  Spec => []ProgressInv
  <1>1. Init => ProgressInv
    <2> SUFFICES ASSUME Init PROVE ProgressInv
      OBVIOUS
    <2>1. saved = Tables /\ req = NoRequest /\ pc = "idle"
      BY DEF Init
    <2>2. /\ Known = WasKnown /\ Tagged = WasTagged /\ Related = WasRelated
          /\ objects = saved.objects /\ target = saved.target
      BY <2>1 DEF Known, WasKnown, Tagged, WasTagged, Related, WasRelated, Tables
    <2>3. BeginInv
      BY <2>1, <2>2 DEF BeginInv, SameTags, SameRelations, SameObjects
    <2>4. TodoInv /\ OthersInv /\ CreateInv /\ UntagInv /\ RenameInv /\ UnlinkInv
      BY <2>1 DEF NoRequest, TodoInv, OthersInv, CreateInv, UntagInv, RenameInv, UnlinkInv, ObjectOps, Creates
    <2>5. TagInv /\ RmtagInv /\ OneStepInv
      BY <2>1 DEF NoRequest, TagInv, RmtagInv, OneStepInv, TagOps
    <2> QED  BY <2>3, <2>4, <2>5 DEF ProgressInv, ObjectProgress, TagProgress
  <1>2. BaseInv /\ BaseInv' /\ IdInv /\ ProgressInv /\ [Next]_vars => ProgressInv'
    BY ProgressStep
  <1> QED  BY <1>1, <1>2, BaseHolds, IdsHold, PTL DEF Spec

\* unlink() drops an object only when all the tags it had when the request
\* began are in the path: a file deleted under one tag is still available under
\* the others.
THEOREM OtherTagsSpareTheFile ==
  ASSUME Plain
  PROVE  Spec => []UnlinkSparesTagged
  <1>1. BaseInv /\ ProgressInv => UnlinkSparesTagged
    <2> SUFFICES ASSUME BaseInv, ProgressInv, pc = "disk", req.op = "unlink", ino # 0,
                        NEW k \in TagNames, saved.tags[k] # 0, <<ino, saved.tags[k]>> \in saved.tagging
                 PROVE  k \in TagSet(req.tags)
      BY DEF UnlinkSparesTagged
    <2>1. ino \in Inodes /\ disk
      BY CatalogBounds DEF BaseInv, TypeOK, Inodes, ObjectInv
    <2>2. k \in WasTagged[ino]
      BY <2>1 DEF WasTagged, TaggedIn, TagsIn
    <2>3. Tagged[ino] = {} /\ WasTagged[ino] \subseteq Tagged[ino] \cup TagSet(req.tags)
      BY <2>1 DEF ProgressInv, ObjectProgress, UntagInv, UnlinkInv
    <2> QED  BY <2>2, <2>3
  <1> QED  BY <1>1, BaseHolds, ProgressHolds, PTL

-----------------------------------------------------------------------------
(* Store's state                                                           *)

\* What Store's variables stand for.
StoreVars ==
    <<{k \in TagNames : saved.tags[k] # 0}, saved.objects, saved.target,
      [i \in Inodes |-> TagsIn(saved.tags, saved.tagging, i)],
      {<<NameOf(e[1]), NameOf(e[2])>> : e \in saved.relations}>>

\* Ids of related tags can be read back as names.
LEMMA RelationNames ==
  ASSUME NEW s, TablesOK(s), IdsOK(s)
  PROVE  LET named(id) == CHOOSE k \in TagNames : s.tags[k] = id
         IN {<<named(e[1]), named(e[2])>> : e \in s.relations} = RelatedIn(s)
  <1> DEFINE named(id) == CHOOSE k \in TagNames : s.tags[k] = id
  <1>1. \A j, k \in TagNames : s.tags[j] = s.tags[k] /\ s.tags[j] # 0 => j = k
    BY DEF IdsOK
  <1>2. \A k \in TagNames : s.tags[k] # 0 => named(s.tags[k]) = k
    <2> SUFFICES ASSUME NEW k \in TagNames, s.tags[k] # 0 PROVE named(s.tags[k]) = k
      OBVIOUS
    <2>1. named(s.tags[k]) \in TagNames /\ s.tags[named(s.tags[k])] = s.tags[k]
      OBVIOUS
    <2> QED  BY <1>1, <2>1
  <1>3. \A e \in s.relations : \E p \in TagNames \X TagNames :
            /\ s.tags[p[1]] = e[1] /\ s.tags[p[2]] = e[2] /\ e[1] # 0 /\ e[2] # 0
            /\ e = <<s.tags[p[1]], s.tags[p[2]]>>
    <2> SUFFICES ASSUME NEW e \in s.relations
                 PROVE  \E p \in TagNames \X TagNames :
                            /\ s.tags[p[1]] = e[1] /\ s.tags[p[2]] = e[2] /\ e[1] # 0 /\ e[2] # 0
                            /\ e = <<s.tags[p[1]], s.tags[p[2]]>>
      OBVIOUS
    <2>1. e = <<e[1], e[2]>>
      BY DEF TablesOK
    <2>2. PICK j \in TagNames : e[1] = s.tags[j] /\ s.tags[j] # 0
      BY DEF IdsOK
    <2>3. PICK k \in TagNames : e[2] = s.tags[k] /\ s.tags[k] # 0
      BY DEF IdsOK
    <2>4. <<j, k>> \in TagNames \X TagNames /\ <<j, k>>[1] = j /\ <<j, k>>[2] = k
      OBVIOUS
    <2> QED  BY <2>1, <2>2, <2>3, <2>4
  <1> HIDE DEF named
  <1>4. ASSUME NEW e \in s.relations PROVE <<named(e[1]), named(e[2])>> \in RelatedIn(s)
    <2>1. PICK p \in TagNames \X TagNames :
            /\ s.tags[p[1]] = e[1] /\ s.tags[p[2]] = e[2] /\ e[1] # 0 /\ e[2] # 0
            /\ e = <<s.tags[p[1]], s.tags[p[2]]>>
      BY <1>3, <1>4
    <2>2. named(e[1]) = p[1] /\ named(e[2]) = p[2] /\ p = <<p[1], p[2]>>
      BY <1>2, <2>1
    <2>3. p \in RelatedIn(s)
      BY <1>4, <2>1 DEF RelatedIn
    <2> QED  BY <2>2, <2>3
  <1>5. ASSUME NEW p \in RelatedIn(s)
        PROVE  \E e \in s.relations : p = <<named(e[1]), named(e[2])>>
    <2>1. /\ p \in TagNames \X TagNames /\ s.tags[p[1]] # 0 /\ s.tags[p[2]] # 0
          /\ <<s.tags[p[1]], s.tags[p[2]]>> \in s.relations
      BY <1>5 DEF RelatedIn
    <2>2. PICK e \in s.relations : e = <<s.tags[p[1]], s.tags[p[2]]>>
      BY <2>1
    <2>3. e[1] = s.tags[p[1]] /\ e[2] = s.tags[p[2]] /\ p = <<p[1], p[2]>>
      BY <2>1, <2>2
    <2> QED  BY <1>2, <2>1, <2>3
  <1> DEFINE both(e) == <<named(e[1]), named(e[2])>>
  <1>6. /\ \A e \in s.relations : both(e) \in RelatedIn(s)
        /\ \A p \in RelatedIn(s) : \E e \in s.relations : p = both(e)
    BY <1>4, <1>5
  <1> HIDE DEF both
  <1>7. {both(e) : e \in s.relations} = RelatedIn(s)
    BY <1>6
  <1> QED  BY <1>7 DEF both, named

\* The state Store speaks of, before and after a step that saves the tables.
LEMMA StoreState ==
  ASSUME BaseInv, BaseInv', IdInv, IdInv', saved' = Tables
  PROVE  /\ {k \in TagNames : saved.tags[k] # 0} = WasKnown
         /\ [i \in Inodes |-> TagsIn(saved.tags, saved.tagging, i)] = WasTagged
         /\ {<<NameOf(e[1]), NameOf(e[2])>> : e \in saved.relations} = WasRelated
         /\ {k \in TagNames : saved.tags[k] # 0}' = Known
         /\ [i \in Inodes |-> TagsIn(saved.tags, saved.tagging, i)]' = Tagged
         /\ {<<NameOf(e[1]), NameOf(e[2])>> : e \in saved.relations}' = Related
         /\ saved'.objects = objects /\ saved'.target = target
  <1>1. TablesOK(saved) /\ IdsOK(saved) /\ TablesOK(saved') /\ IdsOK(saved')
    BY DEF BaseInv, SavedInv, IdInv, TablesOK, IdsOK
  <1>2. {<<NameOf(e[1]), NameOf(e[2])>> : e \in saved.relations} = WasRelated
    BY <1>1, RelationNames DEF NameOf, WasRelated
  <1>3. {<<NameOf(e[1]), NameOf(e[2])>> : e \in saved.relations}' = RelatedIn(saved')
    BY <1>1, RelationNames DEF NameOf
  <1>4. RelatedIn(saved') = Related
    BY DEF Related
  <1> QED
    BY <1>2, <1>3, <1>4
    DEF WasKnown, WasTagged, Known, Tagged, KnownIn, TaggedIn, TagsIn, Tables

\* Between requests the tables are saved as they are.
LEMMA IdleState ==
  ASSUME BaseInv, BaseInv', IdInv, IdInv', saved = Tables, saved' = Tables'
  PROVE  /\ {k \in TagNames : saved.tags[k] # 0} = Known
         /\ [i \in Inodes |-> TagsIn(saved.tags, saved.tagging, i)] = Tagged
         /\ {<<NameOf(e[1]), NameOf(e[2])>> : e \in saved.relations} = Related
         /\ saved.objects = objects /\ saved.target = target
         /\ {k \in TagNames : saved.tags[k] # 0}' = Known'
         /\ [i \in Inodes |-> TagsIn(saved.tags, saved.tagging, i)]' = Tagged'
         /\ {<<NameOf(e[1]), NameOf(e[2])>> : e \in saved.relations}' = Related'
         /\ saved'.objects = objects' /\ saved'.target = target'
  <1>1. TablesOK(saved) /\ IdsOK(saved) /\ TablesOK(saved') /\ IdsOK(saved')
    BY DEF BaseInv, SavedInv, IdInv, TablesOK, IdsOK
  <1>2. {<<NameOf(e[1]), NameOf(e[2])>> : e \in saved.relations} = RelatedIn(saved)
    BY <1>1, RelationNames DEF NameOf
  <1>3. {<<NameOf(e[1]), NameOf(e[2])>> : e \in saved.relations}' = RelatedIn(saved')
    BY <1>1, RelationNames DEF NameOf
  <1>4. RelatedIn(saved) = Related
    BY DEF Related
  <1>5. RelatedIn(saved') = Related'
    BY DEF Related, RelatedIn, Tables
  <1>6. saved.objects = objects /\ saved.target = target /\ saved'.objects = objects' /\ saved'.target = target'
    BY DEF Tables
  <1>7. saved.tags = tags /\ saved.tagging = tagging /\ saved'.tags = tags' /\ saved'.tagging = tagging'
    BY DEF Tables
  <1> QED  BY <1>2, <1>3, <1>4, <1>5, <1>6, <1>7, ByName, ByNameNext DEF TagsIn

-----------------------------------------------------------------------------
(* What a request has done when its tables are saved is what Store says    *)

\* The tags of a path are those Store speaks of.
LEMMA PathSet ==
  ASSUME NEW ts
  PROVE  Promise!SetOf(ts) = TagSet(ts)
  BY DEF Promise!SetOf, TagSet

\* Requests on objects make no tag: those of their paths were there.
LEMMA ObjectTagsKnown ==
  ASSUME BaseInv, IdInv, pc # "idle", req.op \in ObjectOps
  PROVE  /\ Known = WasKnown
         /\ req.op # "unlinkAll" => TagSet(req.tags) \subseteq Known
         /\ req.op = "rename" => TagSet(req.toTags) \subseteq Known
  <1>1. tags = saved.tags
    BY DEF IdInv, KeepsTags, ObjectOps
  <1>2. Known = WasKnown
    BY <1>1 DEF Known, WasKnown, KnownIn, Tables
  <1>3. WellFormed(req)
    BY RequestFacts DEF BaseInv
  <1>4. TagSet(req.tags) \subseteq TagNames
    BY <1>3, PathTags DEF WellFormed
  <1>5. req.op = "rename" => TagSet(req.toTags) \subseteq TagNames
    BY <1>3, PathTags DEF WellFormed
  <1> QED
    BY <1>2, <1>4, <1>5, ByName DEF IdInv, KeepsTags, ObjectOps, Creates

\* A new object, with the tags it has been given so far.
LEMMA NewIsNew ==
  ASSUME BaseInv, BaseInv', IdInv, IdInv', ProgressInv, saved' = Tables,
         pc \notin {"idle", "insert", "symlink"}, req.op \in Creates, disk
  PROVE  /\ ino \in Inodes /\ Tagged[ino] \subseteq TagSet(req.tags)
         /\ pc = "end" => Tagged[ino] = TagSet(req.tags)
         /\ req.op # "symlink" => target[ino] = NoTarget
         /\ req.op = "symlink" /\ pc = "end" =>
                target[ino] = req.target /\ \A i \in Inodes : saved.target[i] # req.target
         /\ \A t, ts : t = target[ino] /\ ts = Tagged[ino] => Promise!New(ino, req.name, t, ts)
  <1>1. /\ ino \in Inodes /\ saved.objects[ino] = NoName /\ objects[ino] = req.name
        /\ \A i \in Inodes : i # ino => objects[i] = saved.objects[i]
    BY DEF BaseInv, ObjectInv
  <1>2. /\ objects \in [Inodes -> ObjNames \cup {NoName}] /\ target \in [Inodes -> Targets \cup {NoTarget}]
        /\ TablesOK(saved)
    BY DEF BaseInv, TypeOK, SavedInv
  <1>3. saved.target[ino] = NoTarget /\ WasTagged[ino] = {}
    <2>1. \A e \in saved.tagging : e[1] # ino
      BY <1>1, <1>2 DEF TablesOK
    <2>2. \A id : <<ino, id>> \notin saved.tagging
      <3> SUFFICES ASSUME NEW id, <<ino, id>> \in saved.tagging PROVE FALSE
        OBVIOUS
      <3>1. <<ino, id>>[1] = ino
        OBVIOUS
      <3> QED  BY <2>1, <3>1
    <2> QED  BY <1>1, <1>2, <2>2 DEF TablesOK, WasTagged, TaggedIn, TagsIn
  <1>4. /\ Tagged[ino] \subseteq TagSet(req.tags)
        /\ TagSet(req.tags) \subseteq Tagged[ino] \cup TagSet(todo)
        /\ target[ino] = IF req.op = "symlink" /\ pc \in {"disk", "end"} THEN req.target ELSE NoTarget
        /\ req.op = "symlink" => \A i \in Inodes : saved.target[i] # req.target
    BY <1>3 DEF ProgressInv, ObjectProgress, CreateInv
  <1>5. /\ WasRelated = Related
        /\ \A i \in Inodes : i # ino => Tagged[i] = WasTagged[i] /\ target[i] = saved.target[i]
    BY DEF ProgressInv, ObjectProgress, OthersInv, SameRelations, ObjectOps
  <1>6. pc = "end" => Tagged[ino] = TagSet(req.tags)
    <2>1. ino # 0 /\ req.op # "unlinkAll"
      BY <1>1 DEF Inodes, Creates
    <2>2. pc = "end" => todo = <<>>
      BY <2>1 DEF ProgressInv, ObjectProgress, OthersInv, ObjectOps
    <2>3. pc = "end" => TagSet(todo) = {}
      BY <2>2 DEF TagSet
    <2> QED  BY <1>4, <2>3
  <1>7. Known = WasKnown /\ TagSet(req.tags) \subseteq Known
    BY ObjectTagsKnown DEF ObjectOps, Creates
  <1>8. /\ objects = [saved.objects EXCEPT ![ino] = req.name]
        /\ target = [saved.target EXCEPT ![ino] = target[ino]]
        /\ Tagged = [WasTagged EXCEPT ![ino] = Tagged[ino]]
    <2>1. Tagged = [i \in Inodes |-> Tagged[i]] /\ WasTagged = [i \in Inodes |-> WasTagged[i]]
      BY DEF Tagged, WasTagged, TaggedIn
    <2>2. /\ saved.objects \in [Inodes -> ObjNames \cup {NoName}]
          /\ saved.target \in [Inodes -> Targets \cup {NoTarget}]
      BY <1>2 DEF TablesOK
    <2>3. objects = [saved.objects EXCEPT ![ino] = req.name]
      BY <1>1, <1>2, <2>2
    <2>4. target = [saved.target EXCEPT ![ino] = target[ino]]
      BY <1>1, <1>2, <1>5, <2>2
    <2>5. Tagged = [WasTagged EXCEPT ![ino] = Tagged[ino]]
      BY <1>1, <1>5, <2>1
    <2> QED  BY <2>3, <2>4, <2>5
  <1>9. Known = WasKnown \cup Tagged[ino]
    BY <1>4, <1>7
  <1>10. ASSUME NEW t, NEW ts, t = target[ino], ts = Tagged[ino] PROVE Promise!New(ino, req.name, t, ts)
    BY <1>1, <1>5, <1>8, <1>9, <1>10, StoreState DEF Promise!New
  <1> QED  BY <1>1, <1>4, <1>6, <1>10

\* mknod(), when it ends.
LEMMA MknodServed ==
  ASSUME BaseInv, BaseInv', IdInv, IdInv', ProgressInv, saved' = Tables,
         pc = "end", req.op = "mknod"
  PROVE  Promise!Served(req)
  <1>1. disk
    BY DEF ProgressInv, ObjectProgress, CreateInv, Creates
  <1>2. /\ ino \in Inodes /\ Tagged[ino] = TagSet(req.tags) /\ target[ino] = NoTarget
        /\ \A t, ts : t = target[ino] /\ ts = Tagged[ino] => Promise!New(ino, req.name, t, ts)
    BY <1>1, NewIsNew DEF Creates
  <1>3. Promise!New(ino, req.name, NoTarget, Promise!SetOf(req.tags))
    BY <1>2, PathSet DEF Promise!New
  <1>4. Promise!Mknod(req)
    BY <1>2, <1>3 DEF Promise!Mknod, Promise!New
  <1> QED  BY <1>4 DEF Promise!Served

\* symlink(): a new object, or new tags on the one that points there.
LEMMA SymlinkServed ==
  ASSUME BaseInv, BaseInv', IdInv, IdInv', ProgressInv, saved' = Tables,
         pc = "end", req.op = "symlink"
  PROVE  Promise!Served(req)
  <1>1. ASSUME disk PROVE Promise!Symlink(req)
    <2>1. /\ ino \in Inodes /\ Tagged[ino] = TagSet(req.tags)
          /\ target[ino] = req.target /\ \A i \in Inodes : saved.target[i] # req.target
          /\ \A t, ts : t = target[ino] /\ ts = Tagged[ino] => Promise!New(ino, req.name, t, ts)
      BY <1>1, NewIsNew DEF Creates
    <2>2. Promise!New(ino, req.name, req.target, Promise!SetOf(req.tags))
      BY <2>1, PathSet DEF Promise!New
    <2> QED  BY <2>1, <2>2 DEF Promise!Symlink
  <1>2. ASSUME ~disk PROVE Promise!Symlink(req)
    <2>1. /\ ino \in Inodes /\ saved.target[ino] = req.target /\ target[ino] = saved.target[ino]
          /\ WasTagged[ino] \subseteq Tagged[ino]
          /\ Tagged[ino] \subseteq WasTagged[ino] \cup TagSet(req.tags)
          /\ TagSet(req.tags) \subseteq Tagged[ino] \cup TagSet(todo)
      BY <1>2 DEF ProgressInv, ObjectProgress, CreateInv, Creates
    <2>2. /\ WasRelated = Related /\ todo = <<>>
          /\ \A i \in Inodes : i # ino => Tagged[i] = WasTagged[i] /\ target[i] = saved.target[i]
      BY <2>1 DEF ProgressInv, ObjectProgress, OthersInv, SameRelations, ObjectOps, Creates, Inodes
    <2>3. TagSet(todo) = {}
      BY <2>2 DEF TagSet
    <2>4. Tagged[ino] = WasTagged[ino] \cup TagSet(req.tags)
      BY <2>1, <2>3
    <2>5. objects = saved.objects
      BY <1>2 DEF BaseInv, ObjectInv
    <2>6. target = saved.target
      <3>1. target \in [Inodes -> Targets \cup {NoTarget}] /\ saved.target \in [Inodes -> Targets \cup {NoTarget}]
        BY DEF BaseInv, TypeOK, SavedInv, TablesOK
      <3> QED  BY <2>1, <2>2, <3>1
    <2>7. Tagged = [WasTagged EXCEPT ![ino] = @ \cup TagSet(req.tags)]
      <3>1. Tagged = [i \in Inodes |-> Tagged[i]] /\ WasTagged = [i \in Inodes |-> WasTagged[i]]
        BY DEF Tagged, WasTagged, TaggedIn
      <3> QED  BY <2>1, <2>2, <2>4, <3>1
    <2>8. Known = WasKnown \cup TagSet(req.tags)
      BY ObjectTagsKnown DEF ObjectOps, Creates
    <2> QED  BY <2>1, <2>2, <2>5, <2>6, <2>7, <2>8, StoreState, PathSet DEF Promise!Symlink
  <1> QED  BY <1>1, <1>2 DEF Promise!Served

\* unlink(): the object keeps its other tags, or goes.
LEMMA UnlinkServed ==
  ASSUME BaseInv, BaseInv', IdInv, IdInv', ProgressInv, saved' = Tables,
         pc = "end", ok, req.op = "unlink"
  PROVE  Promise!Served(req)
  <1>1. ino \in Inodes /\ ino # 0
    BY CatalogBounds DEF ProgressInv, ObjectProgress, UnlinkInv, BaseInv, TypeOK, Inodes
  <1>2. /\ WasRelated = Related /\ todo = <<>>
        /\ \A i \in Inodes : i # ino => Tagged[i] = WasTagged[i] /\ target[i] = saved.target[i]
    BY <1>1 DEF ProgressInv, ObjectProgress, OthersInv, SameRelations, ObjectOps
  <1>3. TagSet(todo) = {}
    BY <1>2 DEF TagSet
  <1>4. /\ TagSet(req.tags) \subseteq WasTagged[ino]
        /\ Tagged[ino] = WasTagged[ino] \ TagSet(req.tags)
    BY <1>1, <1>3 DEF ProgressInv, ObjectProgress, UntagInv
  <1>5. /\ saved.objects[ino] = req.name
        /\ \A i \in Inodes : i # ino => objects[i] = saved.objects[i]
        /\ ~disk => objects = saved.objects
    BY <1>1 DEF BaseInv, ObjectInv
  <1>6. /\ ~disk => Tagged[ino] # {} /\ target = saved.target
        /\ disk => Tagged[ino] = {} /\ objects[ino] = NoName /\ target[ino] = NoTarget
    BY <1>1 DEF ProgressInv, ObjectProgress, UnlinkInv
  <1>7. /\ objects \in [Inodes -> ObjNames \cup {NoName}] /\ target \in [Inodes -> Targets \cup {NoTarget}]
        /\ saved.objects \in [Inodes -> ObjNames \cup {NoName}]
        /\ saved.target \in [Inodes -> Targets \cup {NoTarget}]
    BY DEF BaseInv, TypeOK, SavedInv, TablesOK
  <1>8. Tagged = [WasTagged EXCEPT ![ino] = @ \ TagSet(req.tags)]
    <2>1. Tagged = [i \in Inodes |-> Tagged[i]] /\ WasTagged = [i \in Inodes |-> WasTagged[i]]
      BY DEF Tagged, WasTagged, TaggedIn
    <2> QED  BY <1>1, <1>2, <1>4, <2>1
  <1>9. Known = WasKnown
    BY ObjectTagsKnown DEF ObjectOps
  <1>10. IF WasTagged[ino] \subseteq TagSet(req.tags)
         THEN /\ objects = [saved.objects EXCEPT ![ino] = NoName]
              /\ target = [saved.target EXCEPT ![ino] = NoTarget]
         ELSE objects = saved.objects /\ target = saved.target
    <2>1. disk <=> WasTagged[ino] \subseteq TagSet(req.tags)
      BY <1>1, <1>2, <1>4, <1>6 DEF BaseInv, TypeOK
    <2>2. CASE disk
      <3>1. objects = [saved.objects EXCEPT ![ino] = NoName]
        BY <1>1, <1>2, <1>5, <1>6, <1>7, <2>2
      <3>2. target = [saved.target EXCEPT ![ino] = NoTarget]
        BY <1>1, <1>2, <1>4, <1>6, <1>7, <2>2
      <3> QED  BY <2>1, <2>2, <3>1, <3>2
    <2>3. CASE ~disk
      BY <1>5, <1>6, <2>1, <2>3
    <2> QED  BY <2>2, <2>3
  <1>11. Promise!Unlink(req)
    BY <1>1, <1>2, <1>4, <1>5, <1>8, <1>9, <1>10, StoreState, PathSet DEF Promise!Unlink, Promise!Gone
  <1> QED  BY <1>11 DEF Promise!Served

\* unlink() below store/ALL/.
LEMMA UnlinkAllServed ==
  ASSUME BaseInv, BaseInv', IdInv, IdInv', ProgressInv, saved' = Tables,
         pc = "end", ok, req.op = "unlinkAll"
  PROVE  Promise!Served(req)
  <1>1. ino \in Inodes /\ ino # 0
    BY CatalogBounds DEF ProgressInv, ObjectProgress, UnlinkInv, BaseInv, TypeOK, Inodes
  <1>2. /\ WasRelated = Related
        /\ \A i \in Inodes : i # ino => Tagged[i] = WasTagged[i] /\ target[i] = saved.target[i]
    BY DEF ProgressInv, ObjectProgress, OthersInv, SameRelations, ObjectOps
  <1>3. /\ saved.objects[ino] = req.name
        /\ \A i \in Inodes : i # ino => objects[i] = saved.objects[i]
    BY <1>1 DEF BaseInv, ObjectInv
  <1>4. disk
    BY DEF ProgressInv, ObjectProgress, UnlinkInv
  <1>5. Tagged[ino] = {} /\ objects[ino] = NoName /\ target[ino] = NoTarget
    BY <1>1, <1>4 DEF ProgressInv, ObjectProgress, UnlinkInv
  <1>6. /\ objects \in [Inodes -> ObjNames \cup {NoName}] /\ target \in [Inodes -> Targets \cup {NoTarget}]
        /\ saved.objects \in [Inodes -> ObjNames \cup {NoName}]
        /\ saved.target \in [Inodes -> Targets \cup {NoTarget}]
    BY DEF BaseInv, TypeOK, SavedInv, TablesOK
  <1>7. Tagged = [WasTagged EXCEPT ![ino] = {}]
    <2>1. Tagged = [i \in Inodes |-> Tagged[i]] /\ WasTagged = [i \in Inodes |-> WasTagged[i]]
      BY DEF Tagged, WasTagged, TaggedIn
    <2> QED  BY <1>1, <1>2, <1>5, <2>1
  <1>8. Known = WasKnown
    BY ObjectTagsKnown DEF ObjectOps
  <1>9. /\ objects = [saved.objects EXCEPT ![ino] = NoName]
        /\ target = [saved.target EXCEPT ![ino] = NoTarget]
    BY <1>1, <1>2, <1>3, <1>5, <1>6
  <1>10. Promise!UnlinkAll(req)
    BY <1>1, <1>2, <1>3, <1>7, <1>8, <1>9, StoreState DEF Promise!UnlinkAll, Promise!Gone
  <1> QED  BY <1>10 DEF Promise!Served

\* rename() of an object that was found.
LEMMA RenameServed ==
  ASSUME BaseInv, BaseInv', IdInv, IdInv', ProgressInv, saved' = Tables,
         pc = "end", req.op = "rename", ino # 0
  PROVE  Promise!Served(req)
  <1>1. ino \in Inodes
    BY CatalogBounds DEF BaseInv, TypeOK, Inodes
  <1>2. /\ WasRelated = Related /\ todo = <<>>
        /\ \A i \in Inodes : i # ino => Tagged[i] = WasTagged[i]
    BY DEF ProgressInv, ObjectProgress, OthersInv, SameRelations, ObjectOps
  <1>3. TagSet(todo) = {}
    BY <1>2 DEF TagSet
  <1>4. /\ saved.objects[ino] = req.name
        /\ \A i \in Inodes : i # ino => objects[i] = saved.objects[i]
    BY DEF BaseInv, ObjectInv
  <1>5. /\ target = saved.target /\ objects[ino] = req.toName
        /\ TagSet(req.tags) \subseteq WasTagged[ino]
        /\ Tagged[ino] = (WasTagged[ino] \ TagSet(req.tags)) \cup TagSet(req.toTags)
    BY <1>3 DEF ProgressInv, ObjectProgress, RenameInv, UntagInv
  <1>6. objects = [saved.objects EXCEPT ![ino] = req.toName]
    <2>1. /\ objects \in [Inodes -> ObjNames \cup {NoName}]
          /\ saved.objects \in [Inodes -> ObjNames \cup {NoName}]
      BY DEF BaseInv, TypeOK, SavedInv, TablesOK
    <2> QED  BY <1>1, <1>4, <1>5, <2>1
  <1>7. Tagged = [WasTagged EXCEPT ![ino] = (@ \ TagSet(req.tags)) \cup TagSet(req.toTags)]
    <2>1. Tagged = [i \in Inodes |-> Tagged[i]] /\ WasTagged = [i \in Inodes |-> WasTagged[i]]
      BY DEF Tagged, WasTagged, TaggedIn
    <2> QED  BY <1>1, <1>2, <1>5, <2>1
  <1>8. Known = WasKnown \cup TagSet(req.toTags)
    BY ObjectTagsKnown DEF ObjectOps
  <1>9. Promise!Rename(req)
    BY <1>1, <1>2, <1>4, <1>5, <1>6, <1>7, <1>8, StoreState, PathSet DEF Promise!Rename
  <1> QED  BY <1>9 DEF Promise!Served

\* Requests on tags leave the objects alone.
LEMMA TagRequestObjects ==
  ASSUME BaseInv, ProgressInv, req.op \in TagOps
  PROVE  objects = saved.objects /\ target = saved.target
  BY DEF BaseInv, ObjectInv, ProgressInv, TagProgress, TagInv, TagOps, Creates

\* The tags of a path of one or two.
LEMMA ShortPaths ==
  ASSUME NEW ts \in Seq(TagNames)
  PROVE  /\ Len(ts) = 1 => ts[1] \in TagNames /\ TagSet(ts) = {ts[1]}
         /\ Len(ts) = 2 => ts[1] \in TagNames /\ ts[2] \in TagNames /\ TagSet(ts) = {ts[1], ts[2]}
  <1>1. DOMAIN ts = 1 .. Len(ts)
    BY LenProperties
  <1>2. \A n \in 1 .. Len(ts) : ts[n] \in TagNames
    BY PathTags
  <1>3. Len(ts) = 1 => DOMAIN ts = {1}
    BY <1>1
  <1>4. Len(ts) = 2 => DOMAIN ts = {1, 2}
    BY <1>1
  <1> QED  BY <1>1, <1>2, <1>3, <1>4 DEF TagSet

\* mkdir() of a tag.
LEMMA MktagServed ==
  ASSUME BaseInv, BaseInv', IdInv, IdInv', ProgressInv, saved' = Tables,
         pc = "end", req.op = "mktag"
  PROVE  Promise!Served(req)
  <1>1. objects = saved.objects /\ target = saved.target
    BY TagRequestObjects DEF TagOps
  <1>2. WellFormed(req)
    BY RequestFacts DEF BaseInv
  <1>3. TagSet(req.tags) = {req.tags[1]}
    BY <1>2, ShortPaths DEF WellFormed
  <1>4. Known = WasKnown \cup {req.tags[1]} /\ Tagged = WasTagged /\ Related = WasRelated
    BY DEF ProgressInv, TagProgress, OneStepInv, SameRelations
  <1>5. Promise!Mktag(req)
    BY <1>1, <1>3, <1>4, StoreState, PathSet DEF Promise!Mktag
  <1> QED  BY <1>5 DEF Promise!Served

\* rmdir() of tags.
LEMMA RmtagServed ==
  ASSUME BaseInv, BaseInv', IdInv, IdInv', ProgressInv, saved' = Tables,
         pc = "end", req.op = "rmtag"
  PROVE  Promise!Served(req)
  <1>1. objects = saved.objects /\ target = saved.target
    BY TagRequestObjects DEF TagOps
  <1>2. TagSet(todo) = {}
    BY DEF ProgressInv, TagProgress, RmtagInv, TagSet
  <1>3. /\ Known = WasKnown \ TagSet(req.tags)
        /\ Tagged = [i \in Inodes |-> WasTagged[i] \cap Known]
        /\ Related = WasRelated \cap (Known \X Known)
    BY <1>2 DEF ProgressInv, TagProgress, RmtagInv
  <1>4. /\ \A i \in Inodes : WasTagged[i] \subseteq WasKnown
        /\ WasRelated \subseteq WasKnown \X WasKnown
    BY DEF WasTagged, WasKnown, WasRelated, KnownIn, TaggedIn, TagsIn, RelatedIn
  <1>5. Tagged = [i \in Inodes |-> WasTagged[i] \ TagSet(req.tags)]
    BY <1>3, <1>4
  <1>6. Related = {e \in WasRelated : {e[1], e[2]} \cap TagSet(req.tags) = {}}
    <2>1. \A e \in WasRelated : e = <<e[1], e[2]>> /\ e[1] \in WasKnown /\ e[2] \in WasKnown
      BY <1>4
    <2>2. \A e \in WasRelated : e \in Known \X Known <=> {e[1], e[2]} \cap TagSet(req.tags) = {}
      BY <1>3, <2>1
    <2> QED  BY <1>3, <2>2
  <1>7. Promise!Rmtag(req)
    BY <1>1, <1>3, <1>5, <1>6, StoreState, PathSet DEF Promise!Rmtag
  <1> QED  BY <1>7 DEF Promise!Served

\* mkdir() below relations/.
LEMMA RelateServed ==
  ASSUME Plain, BaseInv, BaseInv', IdInv, IdInv', ProgressInv, saved' = Tables,
         pc = "end", req.op = "relate"
  PROVE  Promise!Served(req)
  <1>1. objects = saved.objects /\ target = saved.target
    BY TagRequestObjects DEF TagOps
  <1>2. WellFormed(req) /\ req.valid
    BY RequestFacts DEF BaseInv, Plain
  <1>3. TagSet(req.tags) = {req.tags[1], req.tags[2]}
    BY <1>2, ShortPaths DEF WellFormed
  <1>4. /\ req.tags[1] \in WasKnown /\ Known = WasKnown \cup {req.tags[2]} /\ Tagged = WasTagged
        /\ Related = WasRelated \cup (IF req.whole THEN {<<req.tags[1], req.tags[2]>>} ELSE {})
    BY DEF ProgressInv, TagProgress, OneStepInv
  <1>5. Known = WasKnown \cup TagSet(req.tags)
    BY <1>3, <1>4
  <1>6. Related = IF req.whole THEN WasRelated \cup {<<req.tags[1], req.tags[2]>>} ELSE WasRelated
    BY <1>4
  <1>7. Promise!Relate(req)
    BY <1>1, <1>2, <1>4, <1>5, <1>6, StoreState, PathSet DEF Promise!Relate
  <1> QED  BY <1>7 DEF Promise!Served

\* rmdir() below relations/.
LEMMA UnrelateServed ==
  ASSUME BaseInv, BaseInv', IdInv, IdInv', ProgressInv, saved' = Tables,
         pc = "end", ok, req.op = "unrelate"
  PROVE  Promise!Served(req)
  <1>1. objects = saved.objects /\ target = saved.target
    BY TagRequestObjects DEF TagOps
  <1>2. WellFormed(req)
    BY RequestFacts DEF BaseInv
  <1>3. TagSet(req.tags) = {req.tags[1], req.tags[2]}
    BY <1>2, ShortPaths DEF WellFormed
  <1>4. /\ req.valid /\ {req.tags[1], req.tags[2]} \subseteq Known
        /\ Known = WasKnown /\ Tagged = WasTagged
        /\ Related = WasRelated \ {<<req.tags[1], req.tags[2]>>}
    BY DEF ProgressInv, TagProgress, OneStepInv, SameTags
  <1>5. TagSet(req.tags) \subseteq WasKnown
    BY <1>3, <1>4
  <1>6. Promise!Unrelate(req)
    BY <1>1, <1>4, <1>5, StoreState, PathSet DEF Promise!Unrelate
  <1> QED  BY <1>6 DEF Promise!Served

\* rename() of a tag that is not also a namespace.
LEMMA MvtagServed ==
  ASSUME Plain, BaseInv, BaseInv', IdInv, IdInv', ProgressInv, saved' = Tables,
         pc = "end", req.op = "mvtag", Moved(req.tags[1], req.to)
  PROVE  Promise!Served(req)
  <1> DEFINE from == req.tags[1]
             to == req.to
             move(k) == IF k = from THEN to ELSE k
             now(k) == IF k.ns = from.ns THEN [k EXCEPT !.ns = to.ns] ELSE k
  <1>1. objects = saved.objects /\ target = saved.target
    BY TagRequestObjects DEF TagOps
  <1>2. WellFormed(req) /\ req \in Requests
    BY RequestFacts DEF BaseInv
  <1>3. /\ from \in WasKnown /\ to \in TagNames /\ to \notin WasKnown
        /\ Known = {move(k) : k \in WasKnown}
        /\ Tagged = [i \in Inodes |-> {move(k) : k \in WasTagged[i]}]
        /\ Related = {<<move(p[1]), move(p[2])>> : p \in WasRelated}
    BY DEF Moved
  <1>4. from \in TagNames /\ WasKnown \subseteq TagNames
    BY <1>3 DEF WasKnown, KnownIn
  <1>5. \A j \in TagNames : j.ns = from.ns => j = from
    BY <1>2 DEF Plain, Unambiguous
  <1>6. [from EXCEPT !.ns = to.ns] = to
    <2>1. [to EXCEPT !.ns = from.ns] \in TagNames
      BY <1>2, <1>3 DEF WellFormed
    <2>2. from = [ns |-> from.ns, kv |-> from.kv] /\ to = [ns |-> to.ns, kv |-> to.kv]
      BY <1>3, <1>4, TagNamesAssumption
    <2>3. [to EXCEPT !.ns = from.ns] = [ns |-> from.ns, kv |-> to.kv]
      BY <2>2
    <2>4. [to EXCEPT !.ns = from.ns] = from
      BY <1>5, <2>1, <2>3
    <2>5. from.kv = to.kv
      BY <2>3, <2>4
    <2>6. [from EXCEPT !.ns = to.ns] = [ns |-> to.ns, kv |-> from.kv]
      BY <2>2
    <2> QED  BY <2>2, <2>5, <2>6
  <1>7. \A k \in TagNames : now(k) = move(k)
    BY <1>5, <1>6
  <1>8. \A k \in WasKnown : k.ns = from.ns => now(k) \notin WasKnown
    BY <1>3, <1>4, <1>5, <1>6
  <1>9. /\ \A i \in Inodes : WasTagged[i] \subseteq TagNames
        /\ WasRelated \subseteq TagNames \X TagNames
    BY DEF WasTagged, WasRelated, TaggedIn, TagsIn, RelatedIn
  <1> HIDE DEF now, move
  <1>10. Known = {now(k) : k \in WasKnown}
    BY <1>3, <1>4, <1>7
  <1>11. Tagged = [i \in Inodes |-> {now(k) : k \in WasTagged[i]}]
    <2>1. \A i \in Inodes : {move(k) : k \in WasTagged[i]} = {now(k) : k \in WasTagged[i]}
      BY <1>7, <1>9
    <2> QED  BY <1>3, <2>1
  <1>12. Related = {<<now(p[1]), now(p[2])>> : p \in WasRelated}
    <2>1. \A p \in WasRelated : <<move(p[1]), move(p[2])>> = <<now(p[1]), now(p[2])>>
      BY <1>7, <1>9
    <2> DEFINE moved(p) == <<move(p[1]), move(p[2])>>
               renamed(p) == <<now(p[1]), now(p[2])>>
    <2>2. \A p \in WasRelated : moved(p) = renamed(p)
      BY <2>1
    <2>3. Related = {moved(p) : p \in WasRelated}
      BY <1>3
    <2> HIDE DEF moved, renamed
    <2>4. Related = {renamed(p) : p \in WasRelated}
      BY <2>2, <2>3
    <2> QED  BY <2>4 DEF renamed
  <1>13. Promise!Mvtag(req)
    BY <1>1, <1>8, <1>10, <1>11, <1>12, StoreState, Zenon DEF Promise!Mvtag, now
  <1> QED  BY <1>13 DEF Promise!Served

\* The request in progress is one that Store knows of.
LEMMA ServedIsNext ==
  ASSUME req \in Requests, Promise!Served(req)
  PROVE  Promise!Next
  BY Zenon
  DEF Promise!Next, Promise!Served, Promise!Mknod, Promise!Symlink, Promise!New,
      Promise!Unlink, Promise!UnlinkAll, Promise!Gone, Promise!Rename, Promise!Mktag,
      Promise!Rmtag, Promise!Mvtag, Promise!Relate, Promise!Unrelate, Promise!SetOf

\* What a request leaves when it has come to its end is what Store says.
LEMMA CommitServes ==
  ASSUME Plain, BaseInv, BaseInv', IdInv, IdInv', ProgressInv, Commit
  PROVE  [Promise!Next]_StoreVars
  <1>1. pc = "end" /\ ok /\ saved' = Tables
    BY DEF Commit
  <1>2. req \in Requests /\ WellFormed(req)
    BY <1>1, RequestFacts DEF BaseInv
  <1>3. Promise!Served(req) => Promise!Next
    BY <1>2, ServedIsNext
  <1>4. ASSUME req.op = "rename", ino = 0 PROVE UNCHANGED StoreVars
    <2>1. /\ Known = WasKnown /\ Tagged = WasTagged /\ Related = WasRelated
          /\ objects = saved.objects /\ target = saved.target
      BY <1>4 DEF ProgressInv, ObjectProgress, RenameInv, OthersInv, SameTags, SameObjects,
                  SameRelations, ObjectOps
    <2> QED  BY <1>1, <2>1, StoreState DEF StoreVars
  <1>5. ASSUME req.op = "mvtag", ~Moved(req.tags[1], req.to) PROVE UNCHANGED StoreVars
    <2>1. /\ Known = WasKnown /\ Tagged = WasTagged /\ Related = WasRelated
      BY <1>1, <1>5 DEF ProgressInv, TagProgress, OneStepInv, SameTags, SameRelations
    <2>2. objects = saved.objects /\ target = saved.target
      BY <1>5, TagRequestObjects DEF TagOps
    <2> QED  BY <1>1, <2>1, <2>2, StoreState DEF StoreVars
  <1>6. \/ req.op = "mknod" \/ req.op = "symlink" \/ req.op = "unlink"
        \/ req.op = "unlinkAll" \/ req.op = "rename" \/ req.op = "mktag" \/ req.op = "rmtag"
        \/ req.op = "mvtag" \/ req.op = "relate" \/ req.op = "unrelate"
    BY <1>2 DEF WellFormed, Creates
  <1> QED
    BY <1>1, <1>3, <1>4, <1>5, <1>6, MknodServed, SymlinkServed, UnlinkServed, UnlinkAllServed,
       RenameServed, MktagServed, RmtagServed, MvtagServed, RelateServed, UnrelateServed

\* link() inserts an object no tag is on yet.
LEMMA LinkInsertServed ==
  ASSUME BaseInv, BaseInv', IdInv, IdInv', NEW l \in Linkers, LinkInsert(l)
  PROVE  \E r \in Links : Promise!LinkNew(r)
  <1> DEFINE i == inodeSeq + 1
             n == lreq[l].name
  <1>1. /\ lpc[l] = "insert" /\ inodeSeq < MaxInode /\ objects' = [objects EXCEPT ![i] = n]
        /\ UNCHANGED <<tags, tagSeq, target, tagging, relations>> /\ UNCHANGED linkRest
    BY DEF LinkInsert
  <1>2. pc = "idle" /\ pc' = "idle" /\ lreq[l] \in Links
    BY <1>1 DEF BaseInv, LinkInv, linkRest
  <1>3. saved = Tables /\ saved' = Tables'
    BY <1>2 DEF BaseInv, SavedInv
  <1>4. i \in Inodes /\ inodeSeq \in Nat
    <2>1. inodeSeq \in 0 .. MaxInode
      BY DEF BaseInv, TypeOK
    <2> QED  BY <1>1, <2>1, CatalogBounds DEF Inodes
  <1>5. objects[i] = NoName /\ target[i] = NoTarget /\ \A e \in tagging : e[1] # i
    <2>1. /\ \A e \in tagging : objects[e[1]] # NoName
          /\ \A j \in Inodes : objects[j] # NoName => j <= inodeSeq
          /\ \A j \in Inodes : objects[j] = NoName => target[j] = NoTarget
      BY CurrentTables DEF BaseInv
    <2>2. objects[i] = NoName
      BY <1>4, <2>1
    <2> QED  BY <1>4, <2>1, <2>2
  <1>6. Known' = Known /\ Tagged' = Tagged /\ Related' = Related
    BY <1>1, SameNames
  <1> HIDE DEF i
  <1>7. Tagged[i] = {}
    <2>1. \A id : <<i, id>> \notin tagging
      <3> SUFFICES ASSUME NEW id, <<i, id>> \in tagging PROVE FALSE
        OBVIOUS
      <3>1. <<i, id>>[1] = i
        OBVIOUS
      <3> QED  BY <1>5, <3>1
    <2> QED  BY <1>4, <2>1, ByName
  <1>8. Tagged' = [Tagged EXCEPT ![i] = {}] /\ target' = [target EXCEPT ![i] = NoTarget]
    <2>1. Tagged = [j \in Inodes |-> Tagged[j]]
      BY ByName
    <2>2. target \in [Inodes -> Targets \cup {NoTarget}]
      BY DEF BaseInv, TypeOK
    <2> QED  BY <1>1, <1>4, <1>5, <1>6, <1>7, <2>1, <2>2
  <1>9. Known' = Known \cup {}
    BY <1>6
  <1>10. Promise!New(i, n, NoTarget, {})
    BY <1>1, <1>3, <1>5, <1>6, <1>8, <1>9, IdleState DEF Promise!New
  <1>11. PICK r \in Links : r = lreq[l]
    BY <1>2
  <1>12. Promise!LinkNew(r)
    BY <1>4, <1>10, <1>11 DEF Promise!LinkNew
  <1> QED  BY <1>12

\* It gives its object the next tag of its path.
LEMMA LinkTagServed ==
  ASSUME BaseInv, BaseInv', IdInv, IdInv', NEW l \in Linkers, LinkTag(l)
  PROVE  \E r \in Links : Promise!LinkTagged(r)
  <1> DEFINE i == lino[l]
             k == Head(ltodo[l])
  <1>1. /\ lpc[l] = "tag" /\ UNCHANGED <<objects, target, relations>> /\ UNCHANGED linkRest
    BY DEF LinkTag
  <1>2. /\ pc = "idle" /\ pc' = "idle" /\ lreq[l] \in Links /\ i \in Inodes
        /\ objects[i] = lreq[l].name
    BY <1>1 DEF BaseInv, LinkInv, linkRest
  <1>3. saved = Tables /\ saved' = Tables'
    BY <1>2 DEF BaseInv, SavedInv
  <1>4. /\ k \in TagNames /\ k \in TagSet(lreq[l].tags) /\ CreateTag(k)
        /\ tagging' = tagging \cup {<<i, tags'[k]>>}
    BY PlainLinkTag
  <1> HIDE DEF i, k
  <1>5. /\ Known' = Known \cup {k} /\ Related' = Related
        /\ Tagged' = [Tagged EXCEPT ![i] = Tagged[i] \cup {k}]
    BY <1>1, <1>2, <1>4, CreateByName
  <1>6. PICK r \in Links : r = lreq[l]
    BY <1>2
  <1>7. k \in Promise!SetOf(r.tags)
    BY <1>4, <1>6, PathSet
  <1>8. Promise!LinkTagged(r)
    BY <1>1, <1>2, <1>3, <1>5, <1>6, <1>7, IdleState DEF Promise!LinkTagged
  <1> QED  BY <1>8

\* The steps of link(), one by one.
LEMMA LinkServed ==
  ASSUME BaseInv, BaseInv', IdInv, IdInv', NEW l \in Linkers, LinkStep(l)
  PROVE  Promise!Next \/ saved' = saved
  <1>1. ASSUME LinkInsert(l) PROVE Promise!Next
    <2>1. \E r \in Links : Promise!LinkNew(r)
      BY <1>1, LinkInsertServed
    <2> QED  BY <2>1 DEF Promise!Next
  <1>2. ASSUME LinkTag(l) PROVE Promise!Next
    <2>1. \E r \in Links : Promise!LinkTagged(r)
      BY <1>2, LinkTagServed
    <2> QED  BY <2>1 DEF Promise!Next
  <1>3. ASSUME (\E r \in Links : LinkStart(l, r)) \/ LinkDone(l) \/ LinkFailed(l) PROVE saved' = saved
    BY <1>3 DEF LinkStart, LinkDone, LinkFailed
  <1> QED  BY <1>1, <1>2, <1>3 DEF LinkStep

\* The other steps change nothing Store speaks of.
LEMMA SavedUnchanged ==
  ASSUME saved' = saved
  PROVE  UNCHANGED StoreVars
  BY DEF StoreVars, NameOf

\* Every step is one of Store's, or none.
LEMMA StepIsServed ==
  ASSUME Plain, BaseInv, BaseInv', IdInv, IdInv', ProgressInv, [Next]_vars
  PROVE  [Promise!Next]_StoreVars
  <1>1. ASSUME NEW r \in Requests, Start(r) PROVE saved' = saved
    BY <1>1 DEF Start, BaseInv, SavedInv
  <1>2. ASSUME Object \/ Tag \/ (\E k \in Lookups : Lookup(k)) PROVE saved' = saved
    BY <1>2
    DEF Object, Tag, Lookup, Insert, InsertObject, SymlinkNew, SymlinkKnown, TagObject, SetTarget,
        UntagObject, CheckTagged, DeleteObject, RenameObject, DiskDone, DiskFailed, MakeTag,
        DeleteTag, RenameTag, Relate, Unrelate, requestRest
  <1>3. ASSUME Rollback \/ Crash PROVE saved' = saved
    BY <1>3 DEF Rollback, Crash
  <1>4. ASSUME UNCHANGED vars PROVE saved' = saved
    BY <1>4 DEF vars
  <1> QED  BY <1>1, <1>2, <1>3, <1>4, CommitServes, LinkServed, SavedUnchanged DEF Next, Destroy

\* Catalog implements Store: whatever fails and wherever the process is killed,
\* the database keeps all of a request or nothing of it, on the names in its
\* path and no others.  (link() excepted, which has no transaction: its object and
\* each of its tags are kept one by one, and Store says so.)
THEOREM CatalogImplementsStore ==
  ASSUME Plain
  PROVE  Spec => RequestsAreAtomic
  <1>1. Init => Promise!Init
    <2> SUFFICES ASSUME Init PROVE Promise!Init
      OBVIOUS
    <2>1. /\ saved.tags = Empty /\ saved.objects = objects /\ saved.target = target
          /\ saved.tagging = {} /\ saved.relations = {}
      BY DEF Init, Tables
    <2>2. {k \in TagNames : saved.tags[k] # 0} = {}
      BY <2>1 DEF Empty
    <2>3. [i \in Inodes |-> TagsIn(saved.tags, saved.tagging, i)] = [i \in Inodes |-> {}]
      BY <2>1 DEF TagsIn
    <2>4. {<<NameOf(e[1]), NameOf(e[2])>> : e \in saved.relations} = {}
      BY <2>1
    <2> QED  BY <2>1, <2>2, <2>3, <2>4 DEF Init, Promise!Init
  <1>2. BaseInv /\ BaseInv' /\ IdInv /\ IdInv' /\ ProgressInv /\ [Next]_vars => [Promise!Next]_StoreVars
    BY StepIsServed
  <1> QED
    BY <1>1, <1>2, BaseHolds, IdsHold, ProgressHolds, PTL DEF Spec, RequestsAreAtomic, Promise!Spec, StoreVars
=============================================================================
