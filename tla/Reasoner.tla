------------------------------ MODULE Reasoner ------------------------------
(***************************************************************************)
(* src/src/reasoner.c: for a tag of a query, the relations table is walked *)
(* to find the tags that stand for it (includes, is_equivalent) and the    *)
(* tags that exclude a file (excludes).                                    *)
(*                                                                         *)
(* The reasoner extends the ->related chain of the start node while it     *)
(* walks it, and the ->negated chain of each node it passes.  It runs      *)
(* inside one query tree, so mkdir() and rmdir() below relations/, which   *)
(* take the write lock, only run between two reasonings (ConnectionPool,   *)
(* WriterExclusion).  One row handed to the SQL callback is one step; the  *)
(* database returns the rows of a query in any order.                      *)
(***************************************************************************)
EXTENDS Integers, Sequences, FiniteSets

CONSTANTS
    Tags,         \* tag ids
    MaxRelations  \* bound: rows of the relations table

ASSUME ReasonerAssumption == IsFiniteSet(Tags) /\ MaxRelations \in Nat

Kinds == {"includes", "excludes", "is_equivalent"}

VARIABLES
    relations, \* the relations table: <<tag1_id, relation, tag2_id>>
    start,     \* reasoning->start_node
    related,   \* the ->related chain that starts at it
    negated,   \* [Tags -> tags in the ->negated chain of that node]
    pos,       \* reasoning->current_node: 0 the start node, else a place in related
    rows,      \* rows of the current query not yet handed to the callback
    phase      \* "idle", "positive", "negative" (reasoning->negate), "done"

tree == <<start, related, negated>>
vars == <<relations, start, related, negated, pos, rows, phase>>

InChain == {related[i] : i \in DOMAIN related}
NoneNegated == [t \in Tags |-> {}]

TypeOK ==
    /\ relations \subseteq Tags \X Kinds \X Tags
    /\ start \in Tags
    /\ related \in Seq(Tags)
    /\ negated \in [Tags -> SUBSET Tags]
    /\ pos \in 0 .. Len(related)
    /\ rows \subseteq Tags
    /\ phase \in {"idle", "positive", "negative", "done"}

Init ==
    /\ relations = {}
    /\ start \in Tags
    /\ related = <<>>
    /\ negated = NoneNegated
    /\ pos = 0
    /\ rows = {}
    /\ phase = "idle"

-----------------------------------------------------------------------------
(* mkdir() and rmdir() below relations/                                    *)

Relate(t, kind, u) ==
    /\ phase = "idle"
    /\ <<t, kind, u>> \notin relations /\ Cardinality(relations) < MaxRelations
    /\ relations' = relations \cup {<<t, kind, u>>}
    /\ UNCHANGED <<tree, pos, rows, phase>>

Unrelate(t, kind, u) ==
    /\ phase = "idle"
    /\ <<t, kind, u>> \in relations
    /\ relations' = relations \ {<<t, kind, u>>}
    /\ UNCHANGED <<tree, pos, rows, phase>>

-----------------------------------------------------------------------------
(* tagsistant_reasoner_inner()                                             *)

\* Mutant: is_equivalent is read in one direction only.
PositiveRowsOneWay(t) ==
    {u \in Tags : \E kind \in {"includes", "is_equivalent"} : <<t, kind, u>> \in relations}

\* The union query: includes and is_equivalent from t, is_equivalent to it.
PositiveRows(t) ==
    {u \in Tags : \/ <<t, "includes", u>> \in relations
                  \/ <<t, "is_equivalent", u>> \in relations
                  \/ <<u, "is_equivalent", t>> \in relations}

\* The second query.
ExcludedRows(t) == {u \in Tags : <<t, "excludes", u>> \in relations}

Current == IF pos = 0 THEN start ELSE related[pos]

\* tagsistant_querytree_parse_store() calls the reasoner on a new and node.
Reason(t) ==
    /\ phase = "idle"
    /\ start' = t
    /\ related' = <<>> /\ negated' = NoneNegated
    /\ pos' = 0
    /\ rows' = PositiveRows(t)
    /\ phase' = "positive"
    /\ UNCHANGED relations

\* Mutant: the chain is not searched for duplicates.
KnownExceptChain(u) == u = start \/ u \in negated[start]

\* Mutant: excluded tags are not taken into account.
KnownExceptNegated(u) == u = start \/ u \in InChain

\* The duplicate check of tagsistant_add_reasoned_tag(): the start node and the
\* two chains that hang from it.
Known(u) == u = start \/ u \in InChain \/ u \in negated[start]

AddRelated(u) ==
    /\ phase = "positive" /\ u \in rows
    /\ related' = IF Known(u) THEN related ELSE Append(related, u)
    /\ rows' = rows \ {u}
    /\ UNCHANGED <<relations, start, negated, pos, phase>>

SelectExcluded ==
    /\ phase = "positive" /\ rows = {}
    /\ rows' = ExcludedRows(Current)
    /\ phase' = "negative"
    /\ UNCHANGED <<relations, tree, pos>>

AddNegated(u) ==
    /\ phase = "negative" /\ u \in rows
    /\ negated' = IF Known(u) THEN negated
                  ELSE [negated EXCEPT ![Current] = @ \cup {u}]
    /\ rows' = rows \ {u}
    /\ UNCHANGED <<relations, start, related, pos, phase>>

\* Mutant: current_node is not moved.
NextNodeStays ==
    /\ phase = "negative" /\ rows = {} /\ pos < Len(related)
    /\ rows' = PositiveRows(Current)
    /\ phase' = "positive"
    /\ UNCHANGED <<relations, tree, pos>>

\* The recursive call on current_node->related ...
NextNode ==
    /\ phase = "negative" /\ rows = {} /\ pos < Len(related)
    /\ pos' = pos + 1
    /\ rows' = PositiveRows(related[pos + 1])
    /\ phase' = "positive"
    /\ UNCHANGED <<relations, tree>>

\* ... or the end of the chain.
Return ==
    /\ phase = "negative" /\ rows = {} /\ pos = Len(related)
    /\ phase' = "done"
    /\ UNCHANGED <<relations, tree, pos, rows>>

\* The query is answered and the tree destroyed.
Destroy ==
    /\ phase = "done"
    /\ related' = <<>> /\ negated' = NoneNegated
    /\ pos' = 0
    /\ phase' = "idle"
    /\ UNCHANGED <<relations, start, rows>>

Inner == \/ \E u \in Tags : AddRelated(u) \/ AddNegated(u)
         \/ SelectExcluded \/ NextNode \/ Return

Edit == \E t, u \in Tags, kind \in Kinds : Relate(t, kind, u) \/ Unrelate(t, kind, u)

Next == Edit \/ (\E t \in Tags : Reason(t)) \/ Inner \/ Destroy

Spec == Init /\ [][Next]_vars

\* The reasoner is one function call: it runs.
FairSpec == Spec /\ WF_vars(Inner)

-----------------------------------------------------------------------------
(* Properties                                                              *)

\* What the relations say, apart from how the reasoner asks: t stands for u.
StandsFor(t, u) ==
    \/ \E kind \in {"includes", "is_equivalent"} : <<t, kind, u>> \in relations
    \/ <<u, "is_equivalent", t>> \in relations

\* A set of tags that lacks none its members stand for, but the hidden ones.
Closed(S, hidden) ==
    \A t \in S : \A u \in Tags \ hidden : StandsFor(t, u) => u \in S

\* The least such set with the start tag in it.
Implied(hidden) ==
    {u \in Tags : \A S \in SUBSET Tags :
                     (start \in S /\ Closed(S, hidden)) => u \in S}

\* The tags the start tag hides: those it excludes, by a row of the relations
\* table, and does not itself stand for.  The two queries are asked in this
\* order, so of a tag both excluded and stood for the exclusion is the duplicate
\* that tagsistant_add_reasoned_tag() drops: such a tag counts as related.
Hidden ==
    {u \in Tags \ {start} : <<start, "excludes", u>> \in relations /\ ~StandsFor(start, u)}

\* The reasoner of reasoner.c finds the tags the relations imply, all of them
\* and no other, cycles included and in whatever order the rows arrive: those
\* reached from the start tag without passing through a tag it hides.
ReasonsExactly ==
    phase = "done" => InChain \cup {start} = Implied(Hidden)

\* No tag enters the chain twice: this is what ends the recursion when
\* relations form a cycle.
NoTagTwice ==
    /\ \A i, j \in DOMAIN related : related[i] = related[j] => i = j
    /\ start \notin InChain

\* A tag the start tag excludes is never taken for related through another
\* tag, at any time and in whatever order the rows arrive: if it is in the
\* chain, the relations table relates the start tag itself to it.
ExcludedIsNotRelated ==
    \A u \in InChain : <<start, "excludes", u>> \in relations => StandsFor(start, u)

\* The reasoner returns.
ReasonerReturns == (phase = "positive") ~> (phase = "done")
=============================================================================
