------------------------------- MODULE Listing -------------------------------
(***************************************************************************)
(* What the directories of a mounted repository show and what can be      *)
(* entered: readdir() (src/src/fuse_operations/readdir.c) against          *)
(* getattr() (getattr.c), while tags and relations are created and removed *)
(* with mkdir() and rmdir().  The two read the same tables, one with lists *)
(* of rows, the other through tagsistant_sql_get_tag_id() and its cache.   *)
(*                                                                         *)
(* A tag is the sequence of its tokens: <<"jazz">>, or namespace, key and  *)
(* value.  A row whose key or value is '' is the sequence without it, so   *)
(* the rows a lookup with NULL accepts are the ones it is a prefix of.     *)
(* One client walks the tree, the path it is in grows token by token;      *)
(* requests are atomic (ConnectionPool).  Complete queries (@) end the     *)
(* walk, archive/ is a directory of the disk and aliases are fixed.        *)
(***************************************************************************)
EXTENDS Integers, Sequences, SequencesExt, FiniteSets

CONSTANTS
    Flat, Namespaces, Keys, Values,  \* tokens of tags
    Lookalikes, \* not relations, but TAGSISTANT_RELATION_PATTERN lets them pass
    Typed,      \* tokens the user types below relations/
    Skipped,    \* tokens like others: checked, but not followed
    Aliases,    \* the aliases of the repository
    MaxTag,     \* bound: tags created,
    MaxRelations, \* relations at a time,
    MaxDepth,   \* tokens of a path,
    MaxStore    \* and of one below store/

ASSUME ListingBounds == MaxTag \in Nat /\ MaxRelations \in Nat /\ MaxDepth \in Nat /\ MaxStore \in Nat
ASSUME ListingTokens == Flat \cap Namespaces = {}

Names == {<<t>> : t \in Flat \cup Namespaces} \cup (Namespaces \X Keys)
         \cup (Namespaces \X Keys \X Values)
Ids == 1 .. MaxTag

Roots == {"alias", "archive", "relations", "stats", "store", "tags"}
Relations == {"excludes", "includes", "is_equivalent"}
Operators == {"eq", "inc", "gt", "lt"}
Delimiters == {"@", "@@"}

VARIABLES
    rows,      \* the tags table: [Names -> tag_id, 0 without a row]
    tagSeq,    \* last tag_id assigned
    relations, \* {<<tag1_id, relation, tag2_id>>}
    cache,     \* tagsistant_tag_cache: [Names -> tag_id, 0 if absent]
    path,      \* the directory the client is in
    last       \* history: the request just served, [op, at, ok]

vars == <<rows, tagSeq, relations, cache, path, last>>

Nothing == [op |-> "none", at |-> <<>>, ok |-> TRUE]

Init ==
    /\ rows = [n \in Names |-> 0] /\ tagSeq = 0 /\ relations = {}
    /\ cache = [n \in Names |-> 0]
    /\ path = <<>>
    /\ last = Nothing

-----------------------------------------------------------------------------
(* sql.c                                                                   *)

\* Mutant: NULL is looked for as ''.
MatchingExactly(n) == {rows[n]} \ {0}

\* The rows a lookup accepts: a key or value that is NULL is not asked for.
Matching(n) == {rows[r] : r \in {r \in Names : IsPrefix(n, r)}} \ {0}

\* tagsistant_sql_get_tag_id(): the ids it may return, none if it returns 0.
GetTagId(n) ==
    IF n \notin Names THEN {}
    ELSE IF cache[n] # 0 THEN {cache[n]} ELSE Matching(n)

\* What it finds is cached: the caches that may result from lookups.
Caches(looked) ==
    LET found == {n \in looked : GetTagId(n) # {}}
        choices == {id \in [found -> Ids] : \A n \in found : id[n] \in GetTagId(n)}
    IN {[n \in Names |-> IF n \in found THEN id[n] ELSE cache[n]] : id \in choices}

\* tagsistant_real_query(): the quotes of the format are kept, those of the
\* arguments are escaped.  A statement whose conditions are arguments is refused.
Answer(quotesInArguments, answer) == IF quotesInArguments THEN {} ELSE answer

-----------------------------------------------------------------------------
(* path_resolution.c                                                       *)

Upto(s, n) == SubSeq(s, 1, IF Len(s) < n THEN Len(s) ELSE n)

\* A tag at the head of s: namespace, key and value as far as they are there.
TagAt(s) == IF s = <<>> THEN <<>> ELSE IF s[1] \in Namespaces THEN Upto(s, 3) ELSE <<s[1]>>
IsComplete(n) == n # <<>> /\ (n[1] \in Namespaces => Len(n) = 3)

\* tagsistant_querytree_parse_relations(): a token that is no relation ends the
\* parsing, with what was read before it.
ParseRelations(s) ==
    LET left == TagAt(s)
        rest == SubSeq(s, Len(left) + 1, Len(s))
        known == rest # <<>> /\ rest[1] \in Relations \cup Lookalikes
        right == IF known THEN TagAt(Tail(rest)) ELSE <<>>
    IN [left |-> left,
        relation |-> IF known THEN rest[1] ELSE "none",
        right |-> right,
        malformed |-> known /\ Len(rest) > 1 + Len(right)]

\* tagsistant_querytree_parse_store() after some tokens of the path.
StoreStart ==
    [tag |-> <<>>,        \* qtree->namespace, key, value
     operator |-> "none", \* qtree->operator
     slot |-> "tag",      \* what the next token is taken for
     nodes |-> {},        \* tags of the ->next chains of all alternatives
     set |-> {},          \* those of the last one
     looked |-> {},       \* tags looked up
     group |-> "dont_add", negate |-> FALSE, error |-> "none"]

\* The tag n has been read: its node is appended to the tree.
Placed(q, n) ==
    LET onlyNext == ~q.negate /\ q.group # "add_to"
        joined == IF onlyNext THEN {n} ELSE {}
    IN [q EXCEPT !.looked = @ \cup {n}, !.slot = "tag", !.negate = FALSE,
                 !.nodes = @ \cup joined, !.set = @ \cup joined,
                 !.group = IF @ = "add_new" THEN "add_to" ELSE @,
                 !.error = IF onlyNext \/ q.set # {} THEN "none"
                           ELSE IF q.negate THEN "negation first" ELSE "crash"]

\* One token more.  In a triple tag whatever comes is the key, the operator and
\* the value; neither of the first two is checked.
ReadToken(q, t) ==
    CASE q.error # "none" -> q
      [] q.slot = "key" -> [q EXCEPT !.tag = Append(@, t), !.slot = "operator"]
      [] q.slot = "operator" ->
            [q EXCEPT !.operator = IF t \in Operators THEN t ELSE @, !.slot = "value"]
      [] q.slot = "value" -> Placed([q EXCEPT !.tag = Append(@, t)], Append(q.tag, t))
      [] t = "-" -> IF q.negate \/ q.group # "dont_add"
                    THEN [q EXCEPT !.error = "negation"] ELSE [q EXCEPT !.negate = TRUE]
      [] t = "+" -> [q EXCEPT !.set = {}]
      [] t = "{" -> IF q.group # "dont_add"
                    THEN [q EXCEPT !.error = "nested group"] ELSE [q EXCEPT !.group = "add_new"]
      [] t = "}" -> IF q.group = "dont_add"
                    THEN [q EXCEPT !.error = "no group"] ELSE [q EXCEPT !.group = "dont_add"]
      [] t \in Delimiters -> q
      [] t \in Namespaces -> [q EXCEPT !.tag = <<t>>, !.slot = "key"]
      [] OTHER -> Placed(q, <<t>>)

\* The path may end in the middle of a triple tag.
ParseStore(s) ==
    LET q == FoldLeft(ReadToken, StoreStart, s)
    IN IF q.slot = "tag" \/ q.error # "none" THEN q ELSE Placed(q, q.tag)

-----------------------------------------------------------------------------
(* getattr()                                                               *)

\* tagsistant_valid_relation(): of is_equivalent both alternatives it asks for
\* are the same row.
ValidRelation(i, relation, j) == <<i, relation, j>> \in relations

GetattrTags(s) ==
    s # <<>> => (s[1] \in Namespaces \/ Len(s) = 1) /\ GetTagId(TagAt(s)) # {}

GetattrRelations(s) ==
    LET q == ParseRelations(s)
    IN s # <<>> =>
        /\ ~q.malformed
        /\ GetTagId(q.left) # {}
        /\ q.right # <<>> => GetTagId(q.right) # {}
        /\ IsComplete(q.right) =>
              \E i \in GetTagId(q.left), j \in GetTagId(q.right) :
                  ValidRelation(i, q.relation, j)

\* A store/ path without @, or one that ends in it.
GetattrStore(s) ==
    LET q == ParseStore(s)
        tokens == IF s # <<>> /\ Last(s) \in Delimiters THEN Front(s) ELSE s
    IN CASE q.error # "none" -> q.error # "crash"
         [] tokens = <<>> -> TRUE
         [] Last(tokens) \in {"ALL", "+", "-", "{", "}"} \cup Aliases -> TRUE
         [] q.tag = <<>> -> GetTagId(<<Last(tokens)>>) # {}
         [] OTHER -> GetTagId(q.tag) # {} \/ q.operator \in {"gt", "lt", "inc"}

StatsFiles == {"configuration", "connections", "objects", "relations", "tags"}

Getattr(p) ==
    CASE Len(p) < 2 -> TRUE
      [] p[1] = "alias" -> p[2] \in Aliases
      [] p[1] = "stats" -> Len(p) = 2 /\ p[2] \in StatsFiles \cup {"cached_queries"}
      [] p[1] = "tags" -> GetattrTags(Tail(p))
      [] p[1] = "relations" -> GetattrRelations(Tail(p))
      [] p[1] = "store" -> GetattrStore(Tail(p))
      [] OTHER -> FALSE

\* The tags it looks up: a right tag only once the left one was found.
GetattrLooks(p) ==
    LET q == ParseRelations(Tail(p))
        names == CASE p[1] = "tags" -> {TagAt(Tail(p))}
                   [] p[1] = "relations" /\ q.malformed -> {}
                   [] p[1] = "relations" ->
                        {q.left} \cup (IF GetTagId(q.left) # {} THEN {q.right} ELSE {})
                   [] p[1] = "store" -> ParseStore(Tail(p)).looked
                   [] OTHER -> {}
    IN names \cap Names

-----------------------------------------------------------------------------
(* readdir()                                                               *)

\* select distinct ... from tags: what follows n in the rows that start with n.
NextTokens(n) ==
    {r[Len(n) + 1] : r \in {r \in Names : rows[r] # 0 /\ IsStrictPrefix(n, r)}}

ReaddirTags(s) ==
    IF s # <<>> /\ s[1] \notin Namespaces THEN {} ELSE NextTokens(TagAt(s))

\* What the statements on three tables ask for: the tags related to left.
RelatedTokens(left, relation, right) ==
    {r[Len(right) + 1] : r \in {r \in Names :
        /\ rows[r] # 0 /\ IsStrictPrefix(right, r)
        /\ left \in Names /\ <<rows[left], relation, rows[r]>> \in relations}}

ReaddirRelations(s) ==
    LET q == ParseRelations(s)
    IN CASE IsComplete(q.right) -> {}
         [] q.relation # "none" -> Answer(TRUE, RelatedTokens(q.left, q.relation, q.right))
         [] IsComplete(q.left) -> Relations
         [] OTHER -> NextTokens(q.left)

\* is_inside_tag_group(): a "{" and no brace after it.
IsInsideTagGroup(s) ==
    \E i \in DOMAIN s : s[i] = "{" /\ \A j \in DOMAIN s : j > i => s[j] \notin {"{", "}"}

\* tagsistant_do_add_operators(): full_path is compared with "/tags", which no
\* store/ path is.
DoAddOperators(q, s) ==
    /\ s = <<>> \/ Last(s) \notin {"+", "-"} \cup Delimiters
    /\ Len(q.tag) \in {0, 3}

\* Mutant: the group is forgotten.
OffersAlways(q, s) ==
    IF ~DoAddOperators(q, s) THEN {}
    ELSE Delimiters \cup (IF Contains(s, "ALL") THEN {} ELSE {"+", "-", "{"})

Offers(q, s) ==
    IF ~DoAddOperators(q, s) THEN {}
    ELSE IF IsInsideTagGroup(s) THEN {"}"}
    ELSE Delimiters \cup (IF Contains(s, "ALL") THEN {} ELSE {"+", "-", "{"})

\* tagsistant_add_entry_to_dir() leaves out what the last and_set has already.
NotInSet(q, tokens) == {t \in tokens : <<t>> \notin q.set}

Everything(q) == {"ALL"} \cup NotInSet(q, NextTokens(<<>>)) \cup Aliases

ReaddirStore(s) ==
    LET q == ParseStore(s)
    IN Offers(q, s) \cup
       CASE Contains(s, "ALL") -> {}
         [] Len(q.tag) \in {0, 3} -> Everything(q)
         [] q.operator # "none" ->
                IF Len(q.tag) = 2 THEN NotInSet(q, NextTokens(q.tag)) ELSE {}
         [] Len(q.tag) = 2 -> Operators
         [] OTHER -> NotInSet(q, NextTokens(q.tag))

Readdir(p) ==
    CASE p = <<>> -> Roots
      [] p[1] = "alias" -> Aliases
      [] p[1] = "stats" -> StatsFiles
      [] p[1] = "tags" -> ReaddirTags(Tail(p))
      [] p[1] = "relations" -> ReaddirRelations(Tail(p))
      [] p[1] = "store" -> ReaddirStore(Tail(p))
      [] OTHER -> {}

-----------------------------------------------------------------------------
(* Requests                                                                *)

TagTokens == Flat \cup Namespaces \cup Keys \cup Values
Tokens == TagTokens \cup Roots \cup Relations \cup Operators \cup Lookalikes \cup Typed \cup Aliases
          \cup {"ALL", "+", "-", "{", "}"}

\* stats/ and alias/ hold files.
IsDirectory(p) == ~(p # <<>> /\ p[1] \in {"stats", "alias"} /\ Len(p) > 1)

\* The user follows what readdir() shows.  Of a relation it does not show the
\* second tags: the user knows their names.
Shown(p) ==
    Readdir(p) \cup
    (IF p # <<>> /\ p[1] = "relations" /\ ParseRelations(Tail(p)).relation # "none"
     THEN Typed ELSE {})

Depth == IF path # <<>> /\ path[1] = "store" THEN MaxStore ELSE MaxDepth

\* The kernel asks for a name before it uses it; complete queries end the walk.
Enter(t) ==
    LET p == Append(path, t)
    IN
    /\ Len(path) < Depth
    /\ cache' \in Caches(GetattrLooks(p))
    /\ path' = IF Getattr(p) /\ IsDirectory(p) THEN p ELSE path
    /\ last' = Nothing
    /\ UNCHANGED <<rows, tagSeq, relations>>

\* Back to the mount point.
Leave ==
    /\ path # <<>>
    /\ path' = <<>> /\ last' = Nothing
    /\ UNCHANGED <<rows, tagSeq, relations, cache>>

\* readdir() builds a querytree too; below store/ that looks tags up.
List ==
    /\ path # <<>> /\ path[1] = "store"
    /\ cache' \in Caches(ParseStore(Tail(path)).looked \cap Names)
    /\ last' = Nothing
    /\ UNCHANGED <<rows, tagSeq, relations, path>>

Served(op, at, ok) == last' = [op |-> op, at |-> at, ok |-> ok]

\* Mutant: below store/ the last token is the tag.
CreatedTagFlat(p) == IF p[1] = "tags" THEN TagAt(Tail(p)) ELSE <<Last(p)>>

\* mkdir() below tags/ or store/: tagsistant_sql_create_tag().
CreatedTag(p) ==
    LET q == ParseStore(Tail(p))
    IN IF p[1] = "tags" THEN TagAt(Tail(p))
       ELSE IF q.tag # <<>> THEN q.tag ELSE <<Last(p)>>

Absent(p) == Len(path) > 0 /\ Len(path) <= Depth /\ ~Getattr(p)

MkdirTag(t) ==
    LET p == Append(path, t)
        n == CreatedTag(p)
    IN
    /\ Absent(p) /\ path[1] \in {"tags", "store"}
    /\ n \in Names /\ tagSeq < MaxTag
    /\ ~(path[1] = "tags" /\ Len(path) > 1 /\ path[2] \in Flat)  \* EROFS
    /\ cache' \in Caches(GetattrLooks(p))
    /\ IF rows[n] = 0
       THEN rows' = [rows EXCEPT ![n] = tagSeq + 1] /\ tagSeq' = tagSeq + 1
       ELSE UNCHANGED <<rows, tagSeq>>
    /\ Served("mkdir", p, TRUE)
    /\ UNCHANGED <<relations, path>>

\* A plugin tags a file with a triple tag: tagsistant_sql_tag_object() creates it
\* whole, and caches its id.
Autotag(n) ==
    /\ Len(n) = 3 /\ GetTagId(n) = {} /\ tagSeq < MaxTag
    /\ rows' = [rows EXCEPT ![n] = tagSeq + 1] /\ tagSeq' = tagSeq + 1
    /\ cache' = [cache EXCEPT ![n] = tagSeq + 1]
    /\ last' = Nothing
    /\ UNCHANGED <<relations, path>>

\* The id of the right tag, which is created if it is missing.
RightId(q, c) == IF GetTagId(q.right) = {} THEN tagSeq + 1 ELSE c[q.right]

\* mkdir() below relations/: the right tag is created if it is missing.  If the
\* relation is refused the transaction is rolled back, the cache is not.
MkdirRelation(t) ==
    LET p == Append(path, t)
        q == ParseRelations(Tail(p))
        new == GetTagId(q.right) = {}
        ok == q.relation \in Relations
    IN
    /\ Absent(p) /\ path[1] = "relations" /\ ~q.malformed
    /\ q.right \in Names /\ (new => tagSeq < MaxTag)
    /\ Cardinality(relations) < MaxRelations
    /\ \E c \in Caches({q.left, q.right}) :
        /\ cache' = [c EXCEPT ![q.right] = RightId(q, c)]
        /\ relations' = IF ok /\ IsComplete(q.right)
                        THEN relations \cup {<<c[q.left], q.relation, RightId(q, c)>>}
                        ELSE relations
    /\ IF ok /\ new
       THEN rows' = [rows EXCEPT ![q.right] = tagSeq + 1] /\ tagSeq' = tagSeq + 1
       ELSE UNCHANGED <<rows, tagSeq>>
    /\ Served("mkdir", p, ok)
    /\ UNCHANGED path

\* Mutant: the cache is not told.
DeletedUnknown(c, S) ==
    LET ids == {IF c[n] # 0 THEN c[n] ELSE rows[n] : n \in S}
    IN /\ rows' = [n \in Names |-> IF n \in S THEN 0 ELSE rows[n]]
       /\ cache' = c
       /\ relations' = {r \in relations : r[1] \notin ids /\ r[3] \notin ids}

\* Mutant: the relations stay.
DeletedAlone(c, S) ==
    /\ rows' = [n \in Names |-> IF n \in S THEN 0 ELSE rows[n]]
    /\ cache' = [n \in Names |-> IF n \in S THEN 0 ELSE c[n]]
    /\ UNCHANGED relations

\* tagsistant_sql_delete_tag() on the tags S, from a cache c.  The id whose
\* relations go is the one the cache has.
Deleted(c, S) ==
    LET ids == {IF c[n] # 0 THEN c[n] ELSE rows[n] : n \in S}
    IN /\ rows' = [n \in Names |-> IF n \in S THEN 0 ELSE rows[n]]
       /\ cache' = [n \in Names |-> IF n \in S THEN 0 ELSE c[n]]
       /\ relations' = {r \in relations : r[1] \notin ids /\ r[3] \notin ids}

\* rmdir() of the directory the client was in: it walks again from the root.
Removes(ok) ==
    /\ Len(path) > 1
    /\ path' = IF ok THEN <<>> ELSE path
    /\ Served("rmdir", path, ok)

RmdirTag ==
    /\ Removes(TRUE) /\ path[1] = "tags" /\ TagAt(Tail(path)) \in Names
    /\ \E c \in Caches(GetattrLooks(path)) : Deleted(c, {TagAt(Tail(path))})
    /\ UNCHANGED tagSeq

\* rmdir() of an incomplete store/ path: every tag of its ->next chains goes.
RmdirStore ==
    LET nodes == ParseStore(Tail(path)).nodes \cap Names
    IN
    /\ Removes(TRUE) /\ path[1] = "store"
    /\ \E c \in Caches(GetattrLooks(path)) : Deleted(c, nodes)
    /\ UNCHANGED tagSeq

\* Only a relation between two flat tags can be removed.
RmdirRelation ==
    LET q == ParseRelations(Tail(path))
        ok == q.right # <<>> /\ q.left[1] \in Flat /\ q.right[1] \in Flat
    IN
    /\ Removes(ok) /\ path[1] = "relations"
    /\ cache' \in Caches(GetattrLooks(path))
    /\ relations' = IF ok THEN relations \ {<<cache'[q.left], q.relation, cache'[q.right]>>}
                    ELSE relations
    /\ UNCHANGED <<rows, tagSeq>>

Next ==
    \/ \E t \in Shown(path) \ (Delimiters \cup Skipped) : Enter(t)
    \/ \E t \in TagTokens : MkdirTag(t) \/ MkdirRelation(t)
    \/ \E n \in Names : Autotag(n)
    \/ Leave \/ List \/ RmdirTag \/ RmdirStore \/ RmdirRelation

Spec == Init /\ [][Next]_vars

-----------------------------------------------------------------------------
(* Properties                                                              *)

TypeOK ==
    /\ rows \in [Names -> 0 .. MaxTag] /\ tagSeq \in 0 .. MaxTag
    /\ relations \subseteq Ids \X Relations \X Ids
    /\ cache \in [Names -> 0 .. MaxTag]
    /\ path \in Seq(Tokens)
    /\ last.op \in {"none", "mkdir", "rmdir"}

\* What readdir() shows in a directory that exists, getattr() finds: the lists
\* are made from the tables, the answers from the parser and the cache.
ListedCanBeEntered ==
    \A t \in Readdir(path) : Getattr(Append(path, t))

\* Every row of the relations table is a directory: both of its tags exist, and
\* the lookups of getattr() arrive at the ids it was created with.
RelationsCanBeEntered ==
    \A r \in relations : \E l, m \in Names :
        /\ rows[l] = r[1] /\ rows[m] = r[3]
        /\ Getattr(<<"relations">> \o l \o <<r[2]>> \o m)

Triples(p) == Cardinality({i \in DOMAIN p : p[i] \in Namespaces})

\* A tag that mkdir() has just created below tags/, or below store/ as the first
\* triple tag of a path without ALL, is listed where it was created.
CreatedIsListed ==
    last.op = "mkdir" /\ last.at[1] # "relations" /\ Triples(last.at) <= 1
        /\ ~Contains(last.at, "ALL")
        => Last(last.at) \in Readdir(Front(last.at))

\* After a successful rmdir() of a tag or relation the directory is no longer
\* found, neither by its name nor through an id left in the cache.
RemovedIsGone ==
    last.op = "rmdir" /\ last.ok /\ last.at[1] # "store"
        /\ (last.at[1] = "tags" => IsComplete(TagAt(Tail(last.at))))
        => ~Getattr(last.at)

\* A user who follows what readdir() offers never gets a query the parser
\* refuses or crashes on, a negation in first position excepted.
OfferedPathsParse ==
    path # <<>> /\ path[1] = "store"
        => ParseStore(Tail(path)).error \in {"none", "negation first"}

-----------------------------------------------------------------------------
(* A statement the code does not keep: ListingRelations.cfg.               *)

\* A relation just created is listed below its first tag.
RelationsAreListed ==
    last.op = "mkdir" /\ last.ok /\ last.at[1] = "relations"
        /\ IsComplete(ParseRelations(Tail(last.at)).right)
        => Last(last.at) \in Readdir(Front(last.at))
=============================================================================
