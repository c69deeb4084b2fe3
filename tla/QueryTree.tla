------------------------------ MODULE QueryTree ------------------------------
(***************************************************************************)
(* Queries of src/src/path_resolution.c.  A path store/<tokens>/@@/<name>  *)
(* is parsed token by token into a tree (tagsistant_querytree_parse_store) *)
(* and the tree decides which file of that name is meant                   *)
(* (tagsistant_guess_inode_from_and_set) and which tags a file created     *)
(* there receives (tagsistant_querytree_traverse).  Flat tags only, and    *)
(* @@: no reasoning (module Reasoner).                                     *)
(*                                                                         *)
(* The path is any of up to MaxTokens tokens; one file bears the name,     *)
(* tagged in every possible way.                                           *)
(***************************************************************************)
EXTENDS Integers, Sequences, FiniteSets, FiniteSetsExt

CONSTANTS
    Tags,       \* the tags in use
    MaxTokens   \* bound: tokens of a path

ASSUME MaxTokensAssumption == MaxTokens \in Nat
ASSUME TokensAssumption == Tags \cap {"+", "-", "{", "}"} = {}

VARIABLES
    tree,            \* qtree->tree: a sequence of and_sets, each a sequence of
                     \* and nodes [tag, related, negated]
    tag_group,       \* TAGSISTANT_TAG_GROUP_...: "dont_add", "add_new", "add_to"
    negate_next_tag, \* qtree->negate_next_tag
    pc,              \* "parse", "error", "parsed", "crashed", then the outcome
    path,            \* the tokens up to "@@"
    read,            \* how many of them have been read: __TOKEN is the next
    file             \* the tags of the file looked up

vars == <<tree, tag_group, negate_next_tag, pc, path, read, file>>

Nodes == [tag : Tags, related : Seq(Tags), negated : Seq(Tags)]
Tokens == Tags \cup {"+", "-", "{", "}"}
Paths == UNION {[1 .. n -> Tokens] : n \in 0 .. MaxTokens}
Outcomes == {"found", "missing"}

TypeOK ==
    /\ tree \in Seq(Seq(Nodes)) /\ tree # <<>>
    /\ tag_group \in {"dont_add", "add_new", "add_to"}
    /\ negate_next_tag \in BOOLEAN
    /\ pc \in {"parse", "error", "parsed", "crashed"} \cup Outcomes
    /\ path \in Seq(Tokens) /\ read \in 0 .. Len(path)
    /\ file \subseteq Tags

Init ==
    /\ tree = << <<>> >>        \* one or node, and_set = NULL
    /\ tag_group = "dont_add"
    /\ negate_next_tag = FALSE
    /\ pc = "parse"
    /\ path \in Paths /\ read = 0
    /\ file = {}

LastOr == tree[Len(tree)]
LastAnd == LastOr[Len(LastOr)]

-----------------------------------------------------------------------------
(* tagsistant_querytree_parse_store()                                      *)

Read(token) ==
    /\ pc = "parse" /\ read < Len(path) /\ path[read + 1] = token
    /\ read' = read + 1
    /\ UNCHANGED <<path, file>>

\* TAGSISTANT_ABORT_STORE_PARSING()
Abort == pc' = "error" /\ UNCHANGED <<tree, tag_group, negate_next_tag>>

Negate ==
    /\ Read("-")
    /\ IF negate_next_tag \/ tag_group # "dont_add"
       THEN Abort
       ELSE negate_next_tag' = TRUE /\ UNCHANGED <<tree, tag_group, pc>>

\* A new or node; the tag group, if one is open, stays open.
NewAndSet ==
    /\ Read("+")
    /\ tree' = Append(tree, <<>>)
    /\ UNCHANGED <<tag_group, negate_next_tag, pc>>

GroupBegin ==
    /\ Read("{")
    /\ IF tag_group # "dont_add"
       THEN Abort
       ELSE tag_group' = "add_new" /\ UNCHANGED <<tree, negate_next_tag, pc>>

\* Mutant: "}" does not close the group.
GroupEndIgnored ==
    /\ Read("}")
    /\ IF tag_group = "dont_add" THEN Abort ELSE UNCHANGED <<tree, tag_group, negate_next_tag, pc>>

GroupEnd ==
    /\ Read("}")
    /\ IF tag_group = "dont_add"
       THEN Abort
       ELSE tag_group' = "dont_add" /\ UNCHANGED <<tree, negate_next_tag, pc>>

ReplaceLast(and) == [tree EXCEPT ![Len(tree)][Len(LastOr)] = and]

NextGroup == IF tag_group = "add_new" THEN "add_to" ELSE tag_group

\* "-" before it: appended to the ->negated chain of the last and node.
NegatedTag(t) ==
    /\ Read(t) /\ negate_next_tag
    /\ IF LastOr = <<>>
       THEN /\ pc' = "error" /\ negate_next_tag' = FALSE
            /\ UNCHANGED <<tree, tag_group>>
       ELSE /\ tree' = ReplaceLast([LastAnd EXCEPT !.negated = Append(@, t)])
            /\ negate_next_tag' = FALSE
            /\ tag_group' = NextGroup
            /\ UNCHANGED pc

\* Not the first of its group: appended to the ->related chain of the last and
\* node.  There is none if a "+" came after the first tag of the group.
GroupedTag(t) ==
    /\ Read(t) /\ ~negate_next_tag /\ tag_group = "add_to"
    /\ IF LastOr = <<>>
       THEN pc' = "crashed" /\ UNCHANGED tree
       ELSE /\ tree' = ReplaceLast([LastAnd EXCEPT !.related = Append(@, t)])
            /\ UNCHANGED pc
    /\ UNCHANGED <<tag_group, negate_next_tag>>

NextTag(t) ==
    /\ Read(t) /\ ~negate_next_tag /\ tag_group # "add_to"
    /\ tree' = [tree EXCEPT ![Len(tree)] =
                    Append(@, [tag |-> t, related |-> <<>>, negated |-> <<>>])]
    /\ tag_group' = NextGroup
    /\ UNCHANGED <<negate_next_tag, pc>>

\* "@@" ends the query.
Delimiter ==
    /\ pc = "parse" /\ read = Len(path)
    /\ pc' = "parsed"
    /\ UNCHANGED <<tree, tag_group, negate_next_tag, path, read, file>>

-----------------------------------------------------------------------------
(* tagsistant_guess_inode_from_and_set() for a file with the tags f        *)

\* Mutant: the ->related chain is not followed.
NodeMatchesAlone(and, f) == and.tag \in f

\* tagsistant_check_single_tagging() on the node, then along ->related.
NodeMatches(and, f) ==
    and.tag \in f \/ \E i \in DOMAIN and.related : and.related[i] \in f

\* Mutant: no negated tag is looked at.
NoneNegated(and_set) == {}

\* The second step starts at and_set->negated and follows ->next, which the
\* parser never sets there: one negated tag is looked at.
FirstNegated(and_set) ==
    IF and_set[1].negated = <<>> THEN {} ELSE {and_set[1].negated[1]}

AndSetMatches(and_set, f) ==
    /\ \A i \in DOMAIN and_set : NodeMatches(and_set[i], f)
    /\ FirstNegated(and_set) \cap f = {}

\* The and_sets are tried in order until one matches; an empty one is a NULL
\* pointer, dereferenced by the second step.
Deciding(tr, f) == {n \in DOMAIN tr : tr[n] = <<>> \/ AndSetMatches(tr[n], f)}

Outcome(tr, f) ==
    IF Deciding(tr, f) = {} THEN "missing"
    ELSE IF tr[Min(Deciding(tr, f))] = <<>> THEN "crashed" ELSE "found"

LookUp(f) ==
    /\ pc = "parsed"
    /\ file' = f
    /\ pc' = Outcome(tree, f)
    /\ UNCHANGED <<tree, tag_group, negate_next_tag, path, read>>

\* Mutant: only the first tag of each and_set is applied.
TraversedFirst(tr) == {tr[n][1].tag : n \in {k \in DOMAIN tr : tr[k] # <<>>}}

\* The tags tagsistant_querytree_traverse() gives to a file created there: the
\* nodes of each and_set, not what hangs from ->related or ->negated.
Traversed(tr) == UNION {{tr[n][i].tag : i \in DOMAIN tr[n]} : n \in DOMAIN tr}

Next == \/ Negate \/ NewAndSet \/ GroupBegin \/ GroupEnd
        \/ \E t \in Tags : NegatedTag(t) \/ GroupedTag(t) \/ NextTag(t)
        \/ Delimiter
        \/ \E f \in SUBSET Tags : LookUp(f)

Spec == Init /\ [][Next]_vars

-----------------------------------------------------------------------------
(* What the documentation says a path p means, read off its tokens.        *)

TagsAt(p) == {i \in DOMAIN p : p[i] \in Tags}
Count(p, token, i) == Cardinality({j \in 1 .. i : p[j] = token})

\* Tags of one alternative of the query lie between the same "+" ...
AndSetOf(p, i) == Count(p, "+", i)
\* ... and tags of one group between the same braces.
Opened(p, i) == Count(p, "{", i)
Closed(p, i) == Count(p, "}", i)
InGroup(p, i) == Opened(p, i) > Closed(p, i)
SameGroup(p, i, j) ==
    i = j \/ (InGroup(p, i) /\ InGroup(p, j) /\ Opened(p, i) = Opened(p, j))
NegatedAt(p, i) == i > 1 /\ p[i - 1] = "-"

\* Queries the ChangeLog describes and the syntax errors of path_resolution.h:408-427
\* do not rule out: groups do not nest and are closed, "-" and "{" come before
\* a tag, neither "+" nor "-" is inside a group, "-" neither starts a query nor
\* follows a "+", and no alternative is empty.
Described(p) ==
    /\ \A i \in DOMAIN p :
        /\ Opened(p, i) - Closed(p, i) \in 0 .. 1
        /\ p[i] \in {"-", "{"} => i < Len(p) /\ p[i + 1] \in Tags
        /\ p[i] \in {"+", "-"} => ~InGroup(p, i)
        /\ p[i] = "-" => i > 1 /\ p[i - 1] # "+"
    /\ Opened(p, Len(p)) = Closed(p, Len(p))
    /\ \A n \in 0 .. AndSetOf(p, Len(p)) : \E i \in TagsAt(p) : AndSetOf(p, i) = n

\* ChangeLog:19-25 for "-", ChangeLog:76-94 for groups.
Matches(p, f) ==
    \E n \in 0 .. AndSetOf(p, Len(p)) :
        \A i \in {k \in TagsAt(p) : AndSetOf(p, k) = n} :
            IF NegatedAt(p, i) THEN p[i] \notin f
            ELSE \E j \in TagsAt(p) :
                    SameGroup(p, i, j) /\ AndSetOf(p, j) = n /\ p[j] \in f

Negations(p) == {i \in DOMAIN p : p[i] = "-"}

-----------------------------------------------------------------------------
(* Properties                                                              *)

\* No file a described query means is lost, whatever the query negates: the
\* and_sets the parser builds, tried in order, find it.
DescribedFilesFound ==
    (pc \in Outcomes /\ Described(path) /\ Matches(path, file)) => pc = "found"

\* Without negations, or with one right after the first tag of an alternative,
\* a described query finds exactly the files it describes: groups mean what
\* their expansion into alternatives means, and the negated tag excludes.
NegationOfFirstTag ==
    (/\ pc \in Outcomes /\ Described(path)
     /\ \A i \in Negations(path) : i = 2 \/ path[i - 2] = "+") =>
        (pc = "found" <=> Matches(path, file))

\* A file created through a described query without negations is found there:
\* open() after mknod() succeeds.
CreatedFileIsFound ==
    (pc = "parsed" /\ Described(path) /\ Negations(path) = {}) =>
        Outcome(tree, Traversed(tree)) = "found"

\* A described query neither fails to parse, at any of its tokens, nor stops
\* the daemon.
DescribedQueriesParse ==
    Described(path) => pc # "error" /\ pc # "crashed"

\* ChangeLog:19-25: "~/myfiles/store/t1/t2/-/t3/@@ returns the files tagged as
\* t1 and t2 but not tagged as t3".
NegationExcludes ==
    (pc \in Outcomes /\ Described(path)) => (pc = "found" => Matches(path, file))

\* ChangeLog:131-133: "when a query is syntactically wrong, Tagsistant list only
\* one file called "error"": it does not stop the daemon.
WrongQueriesReported == pc # "crashed"
=============================================================================
