-------------------------------- MODULE Store --------------------------------
(***************************************************************************)
(* What the catalogue promises its users, by name and in one step for each *)
(* request: a request is carried out as a whole or not at all, it does     *)
(* what its path says, and nothing else changes; link() alone may be seen  *)
(* half-way.  No ids, no cache, no transactions, no archive.               *)
(***************************************************************************)
CONSTANTS TagNames, ObjNames, NoName, Targets, NoTarget, Inodes, Requests, Links

VARIABLES
    known,    \* the tags there are
    name,     \* [Inodes -> name of the object, NoName]
    points,   \* [Inodes -> target of a symbolic link]
    tagged,   \* [Inodes -> its tags]
    related   \* {<<tag, tag>>}

Init == /\ known = {}
        /\ name = [i \in Inodes |-> NoName]
        /\ points = [i \in Inodes |-> NoTarget]
        /\ tagged = [i \in Inodes |-> {}]
        /\ related = {}

SetOf(ts) == {ts[n] : n \in DOMAIN ts}

\* A new object; tags of its path that are missing are made.
New(i, n, t, ts) ==
    /\ name[i] = NoName
    /\ name' = [name EXCEPT ![i] = n]
    /\ points' = [points EXCEPT ![i] = t]
    /\ tagged' = [tagged EXCEPT ![i] = ts]
    /\ known' = known \cup ts
    /\ UNCHANGED related

Mknod(r) == \E i \in Inodes : New(i, r.name, NoTarget, SetOf(r.tags))

\* One object for each target, whatever the name.
Symlink(r) ==
    \/ /\ \A i \in Inodes : points[i] # r.target
       /\ \E i \in Inodes : New(i, r.name, r.target, SetOf(r.tags))
    \/ \E i \in Inodes :
        /\ points[i] = r.target
        /\ tagged' = [tagged EXCEPT ![i] = @ \cup SetOf(r.tags)]
        /\ known' = known \cup SetOf(r.tags)
        /\ UNCHANGED <<name, points, related>>

Gone(i) == /\ name' = [name EXCEPT ![i] = NoName]
           /\ points' = [points EXCEPT ![i] = NoTarget]

\* The path names an object by tags it has.
Unlink(r) ==
    \E i \in Inodes :
        /\ name[i] = r.name /\ SetOf(r.tags) \subseteq tagged[i]
        /\ tagged' = [tagged EXCEPT ![i] = @ \ SetOf(r.tags)]
        /\ IF tagged[i] \subseteq SetOf(r.tags) THEN Gone(i) ELSE UNCHANGED <<name, points>>
        /\ UNCHANGED <<known, related>>

UnlinkAll(r) ==
    \E i \in Inodes : /\ name[i] = r.name /\ Gone(i)
                      /\ tagged' = [tagged EXCEPT ![i] = {}]
                      /\ UNCHANGED <<known, related>>

Rename(r) ==
    \E i \in Inodes :
        /\ name[i] = r.name /\ SetOf(r.tags) \subseteq tagged[i]
        /\ name' = [name EXCEPT ![i] = r.toName]
        /\ tagged' = [tagged EXCEPT ![i] = (@ \ SetOf(r.tags)) \cup SetOf(r.toTags)]
        /\ known' = known \cup SetOf(r.toTags)
        /\ UNCHANGED <<points, related>>

Mktag(r) == known' = known \cup SetOf(r.tags) /\ UNCHANGED <<name, points, tagged, related>>

Rmtag(r) ==
    /\ known' = known \ SetOf(r.tags)
    /\ tagged' = [i \in Inodes |-> tagged[i] \ SetOf(r.tags)]
    /\ related' = {e \in related : {e[1], e[2]} \cap SetOf(r.tags) = {}}
    /\ UNCHANGED <<name, points>>

\* A tag or a whole namespace takes another name, and keeps what it had.
Mvtag(r) ==
    LET from == r.tags[1].ns
        now(k) == IF k.ns = from THEN [k EXCEPT !.ns = r.to.ns] ELSE k
        all(ks) == {now(k) : k \in ks}
    IN
    /\ \A k \in known : k.ns = from => now(k) \notin known
    /\ known' = all(known)
    /\ tagged' = [i \in Inodes |-> all(tagged[i])]
    /\ related' = {<<now(e[1]), now(e[2])>> : e \in related}
    /\ UNCHANGED <<name, points>>

Relate(r) ==
    /\ r.valid /\ r.tags[1] \in known
    /\ related' = IF r.whole THEN related \cup {<<r.tags[1], r.tags[2]>>} ELSE related
    /\ known' = known \cup SetOf(r.tags)
    /\ UNCHANGED <<name, points, tagged>>

Unrelate(r) ==
    /\ r.valid /\ SetOf(r.tags) \subseteq known
    /\ related' = related \ {<<r.tags[1], r.tags[2]>>}
    /\ UNCHANGED <<known, name, points, tagged>>

Served(r) ==
    CASE r.op = "mknod" -> Mknod(r)
      [] r.op = "symlink" -> Symlink(r)
      [] r.op = "unlink" -> Unlink(r)
      [] r.op = "unlinkAll" -> UnlinkAll(r)
      [] r.op = "rename" -> Rename(r)
      [] r.op = "mktag" -> Mktag(r)
      [] r.op = "rmtag" -> Rmtag(r)
      [] r.op = "mvtag" -> Mvtag(r)
      [] r.op = "relate" -> Relate(r)
      [] r.op = "unrelate" -> Unrelate(r)

\* link() has no transaction: its object appears first, then its tags one by
\* one, and it may stop anywhere.
LinkNew(r) == \E i \in Inodes : New(i, r.name, NoTarget, {})

LinkTagged(r) ==
    \E i \in Inodes, k \in SetOf(r.tags) :
        /\ name[i] = r.name
        /\ tagged' = [tagged EXCEPT ![i] = @ \cup {k}]
        /\ known' = known \cup {k}
        /\ UNCHANGED <<name, points, related>>

Next == \/ \E r \in Requests : Served(r)
        \/ \E r \in Links : LinkNew(r) \/ LinkTagged(r)

Spec == Init /\ [][Next]_<<known, name, points, tagged, related>>
=============================================================================
