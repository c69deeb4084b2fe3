--------------------------- MODULE ReasonerProofs ---------------------------
(***************************************************************************)
(* The reasoner is exact for any set of tags and any relations.            *)
(*                                                                         *)
(* ReasonsExactly speaks of the end of a reasoning; the invariant has to   *)
(* say what holds on the way.  Sound: what is in the chain is in every set *)
(* that is closed under the relations.  Complete: the nodes already passed *)
(* have all their neighbours known, and those of the current node are      *)
(* known or among the rows still to come.  The start node is special: only *)
(* there may the set of hidden tags grow, and until then the chain holds   *)
(* nothing but direct neighbours of it.  These parts speak of the ->negated *)
(* chain of the start node; Hiding ties that chain to the relations table: *)
(* it holds hidden tags only, and all of them once the node is passed.     *)
(***************************************************************************)
EXTENDS Reasoner, TLAPS

Node(i) == IF i = 0 THEN start ELSE related[i]

Direct == pos = 0 => \A i \in DOMAIN related : StandsFor(start, related[i])

Sound ==
    \A S \in SUBSET Tags :
        (start \in S /\ Closed(S, negated[start])) => \A i \in DOMAIN related : related[i] \in S

Passed(i) == i < pos \/ (i = pos /\ phase \in {"negative", "done"})

Complete ==
    phase # "idle" =>
        /\ \A i \in 0 .. pos : Passed(i) =>
                \A u \in Tags : StandsFor(Node(i), u) => Known(u)
        /\ phase = "positive" =>
                \A u \in Tags : StandsFor(Node(pos), u) => Known(u) \/ u \in rows

Control ==
    /\ phase = "idle" => related = <<>> /\ pos = 0
    /\ phase = "positive" => \A u \in rows : StandsFor(Node(pos), u)
    /\ phase = "done" => pos = Len(related)
    /\ start \notin negated[start]

\* The two chains of the start node share no tag.
Apart == InChain \cap negated[start] = {}

Hiding ==
    /\ negated[start] \subseteq Hidden
    /\ phase = "idle" => negated[start] = {}
    /\ (phase = "negative" /\ pos = 0) =>
            /\ Hidden \subseteq negated[start] \cup rows
            /\ rows \subseteq ExcludedRows(start)
    /\ (pos > 0 \/ phase = "done") => Hidden \subseteq negated[start]

\* The invariant of the chains.
IInv ==
    /\ TypeOK
    /\ NoTagTwice
    /\ Apart
    /\ Control
    /\ Direct
    /\ Sound
    /\ Complete

-----------------------------------------------------------------------------
\* What is known once a tag has been appended to the chain.
LEMMA AppendChain ==
    ASSUME NEW s \in Seq(Tags), NEW u \in Tags
    PROVE  /\ Append(s, u) \in Seq(Tags)
           /\ Len(Append(s, u)) = Len(s) + 1
           /\ DOMAIN s = 1 .. Len(s)
           /\ DOMAIN Append(s, u) = 1 .. Len(s) + 1
           /\ \A i \in 1 .. Len(s) : Append(s, u)[i] = s[i]
           /\ Append(s, u)[Len(s) + 1] = u
           /\ Len(s) \in Nat
  OBVIOUS

\* The union query asks what the relations mean.
LEMMA RowsStandFor ==
    ASSUME NEW t, NEW u \in Tags
    PROVE  u \in PositiveRows(t) <=> StandsFor(t, u)
  BY DEF PositiveRows, StandsFor

\* The chain is empty when the daemon starts.
LEMMA InitIInv == ASSUME Init PROVE IInv
  <1>1. TypeOK
    BY DEF Init, TypeOK, NoneNegated
  <1>2. NoTagTwice /\ Apart
    BY DEF Init, NoTagTwice, Apart, InChain
  <1>3. Control /\ Direct /\ Sound /\ Complete
    BY DEF Init, Control, Direct, Sound, Complete, NoneNegated
  <1> QED BY <1>1, <1>2, <1>3 DEF IInv

\* mkdir() and rmdir() below relations/ change the table only between two
\* reasonings, when there is no chain.
LEMMA EditStep ==
    ASSUME IInv, NEW t \in Tags, NEW u \in Tags, NEW kind \in Kinds,
           Relate(t, kind, u) \/ Unrelate(t, kind, u)
    PROVE  IInv'
  <1> USE DEF IInv
  <1>1. /\ phase = "idle" /\ UNCHANGED <<tree, pos, rows, phase>>
        /\ relations' \subseteq Tags \X Kinds \X Tags
    BY DEF Relate, Unrelate, TypeOK, Kinds
  <1>2. related = <<>> /\ pos = 0
    BY <1>1 DEF Control
  <1>3. TypeOK'
    BY <1>1 DEF TypeOK, tree
  <1>4. NoTagTwice' /\ Apart'
    BY <1>1 DEF NoTagTwice, Apart, InChain, tree
  <1>5. Control' /\ Direct' /\ Sound' /\ Complete'
    BY <1>1, <1>2 DEF Control, Direct, Sound, Complete, tree
  <1> QED BY <1>3, <1>4, <1>5

\* A reasoning starts with an empty chain and the neighbours of its start tag.
LEMMA ReasonStep ==
    ASSUME IInv, NEW t \in Tags, Reason(t)
    PROVE  IInv'
  <1>1. TypeOK'
    BY DEF IInv, Reason, TypeOK, NoneNegated, PositiveRows
  <1>2. NoTagTwice' /\ Apart'
    BY DEF Reason, NoTagTwice, Apart, InChain
  <1>3. Direct' /\ Sound'
    BY DEF Reason, Direct, Sound
  <1>4. Control'
    BY DEF Reason, Control, NoneNegated, Node, PositiveRows, StandsFor
  <1>5. Complete'
    BY DEF Reason, Complete, Passed, Node, PositiveRows, StandsFor
  <1> QED BY <1>1, <1>2, <1>3, <1>4, <1>5 DEF IInv

\* The end of a query empties the chain.
LEMMA DestroyStep ==
    ASSUME IInv, Destroy
    PROVE  IInv'
  <1>1. TypeOK'
    BY DEF IInv, Destroy, TypeOK, NoneNegated
  <1>2. NoTagTwice' /\ Apart'
    BY DEF IInv, TypeOK, Destroy, NoTagTwice, Apart, InChain
  <1>3. Direct' /\ Sound' /\ Complete' /\ Control'
    BY DEF IInv, TypeOK, Destroy, Direct, Sound, Complete, Control, NoneNegated
  <1> QED BY <1>1, <1>2, <1>3 DEF IInv

-----------------------------------------------------------------------------
(* tagsistant_reasoner_inner()                                             *)

\* A row of the positive query whose tag is known changes nothing; a new tag
\* is implied by the node it was found from, and becomes known.
LEMMA AddRelatedStep ==
    ASSUME IInv, NEW u \in Tags, AddRelated(u)
    PROVE  IInv'
  <1>0. /\ phase = "positive" /\ u \in rows /\ rows' = rows \ {u}
        /\ UNCHANGED <<relations, start, negated, pos, phase>>
    BY DEF AddRelated
  <1>t. TypeOK
    BY DEF IInv
  <1>1. CASE Known(u)
    <2>1. related' = related
      BY <1>1 DEF AddRelated
    <2>2. TypeOK'
      BY <1>0, <1>t, <2>1 DEF TypeOK
    <2>3. NoTagTwice' /\ Apart' /\ Direct' /\ Sound'
      BY <1>0, <2>1 DEF IInv, NoTagTwice, Apart, Direct, Sound,
                        InChain, Closed, StandsFor
    <2>4. Control'
      BY <1>0, <2>1 DEF IInv, Control, Node, StandsFor
    <2>5. Complete'
      BY <1>0, <1>1, <2>1 DEF IInv, Complete, Passed, Node, StandsFor, Known, InChain
    <2> QED BY <2>2, <2>3, <2>4, <2>5 DEF IInv
  <1>2. CASE ~Known(u)
    <2>1. related' = Append(related, u)
      BY <1>2 DEF AddRelated
    <2> DEFINE n == Len(related)
    <2>2. /\ related' \in Seq(Tags) /\ n \in Nat /\ Len(related') = n + 1
          /\ DOMAIN related = 1 .. n /\ DOMAIN related' = 1 .. n + 1
          /\ \A i \in 1 .. n : related'[i] = related[i]
          /\ related'[n + 1] = u
      BY <2>1, <1>t, AppendChain DEF TypeOK
    <2>3. pos \in 0 .. n
      BY <1>t DEF TypeOK
    <2>4. \A i \in DOMAIN related : related[i] # u
      BY <1>2 DEF Known, InChain
    <2>5. u # start /\ u \notin negated[start]
      BY <1>2 DEF Known
    <2> HIDE DEF n
    <2>6. Node(pos)' = Node(pos) /\ \A i \in 0 .. pos : Node(i)' = Node(i)
      BY <2>2, <2>3, <1>0 DEF Node
    <2>7. InChain' = InChain \cup {u}
      <3>1. \A x : x \in InChain' <=> \E i \in 1 .. n + 1 : related'[i] = x
        BY <2>2 DEF InChain
      <3>2. \A x : x \in InChain <=> \E i \in 1 .. n : related[i] = x
        BY <2>2 DEF InChain
      <3>3. \A i \in 1 .. n + 1 : i \in 1 .. n \/ i = n + 1
        BY <2>2
      <3>4. \A i \in 1 .. n : i \in 1 .. n + 1
        BY <2>2
      <3>5. n + 1 \in 1 .. n + 1
        BY <2>2
      <3> QED BY <3>1, <3>2, <3>3, <3>4, <3>5, <2>2
    <2>8. \A x : Known(x)' <=> (Known(x) \/ x = u)
      BY <2>7, <1>0 DEF Known
    <2>9. TypeOK'
      BY <1>0, <1>t, <2>2, <2>3 DEF TypeOK
    <2>10. NoTagTwice'
      <3>1. \A i, j \in 1 .. n + 1 : related'[i] = related'[j] => i = j
        BY <2>2, <2>4 DEF IInv, NoTagTwice
      <3>2. start' \notin InChain'
        BY <2>7, <2>5, <1>0 DEF IInv, NoTagTwice
      <3> QED BY <3>1, <3>2, <2>2 DEF NoTagTwice
    <2>11. Apart'
      BY <2>7, <2>5, <1>0 DEF IInv, Apart
    <2>12. StandsFor(Node(pos), u)
      BY <1>0 DEF IInv, Control
    <2>13. Direct'
      <3>1. ASSUME pos = 0, NEW i \in 1 .. n + 1 PROVE StandsFor(start, related'[i])
        BY <3>1, <2>2, <2>12 DEF IInv, Direct, Node
      <3> QED BY <3>1, <2>2, <1>0 DEF Direct, StandsFor
    <2>14. Sound'
      <3>1. SUFFICES ASSUME NEW S \in SUBSET Tags, start \in S,
                            Closed(S, negated[start])
                     PROVE  \A i \in 1 .. n + 1 : related'[i] \in S
        BY <1>0, <2>2 DEF Sound, Closed, StandsFor
      <3>2. \A i \in 1 .. n : related[i] \in S
        BY <3>1, <2>2 DEF IInv, Sound
      <3>3. Node(pos) \in S
        BY <3>1, <3>2, <2>2, <2>3 DEF Node
      <3>4. u \in S
        BY <3>1, <3>3, <2>5, <2>12 DEF Closed
      <3> QED BY <3>2, <3>4, <2>2
    <2>15. Control'
      BY <1>0, <2>6 DEF IInv, Control, StandsFor
    <2>16. Complete'
      BY <1>0, <2>3, <2>6, <2>8 DEF IInv, Complete, Passed, StandsFor
    <2> QED BY <2>9, <2>10, <2>11, <2>13, <2>14, <2>15, <2>16 DEF IInv
  <1> QED BY <1>1, <1>2

\* Every neighbour of the current node is known: the node has been passed.
LEMMA SelectExcludedStep ==
    ASSUME IInv, SelectExcluded
    PROVE  IInv'
  <1>1. /\ phase = "positive" /\ rows = {} /\ phase' = "negative"
        /\ rows' \subseteq Tags
        /\ UNCHANGED <<relations, start, related, negated, pos>>
    BY DEF SelectExcluded, ExcludedRows, tree
  <1>2. TypeOK'
    BY <1>1 DEF IInv, TypeOK
  <1>3. NoTagTwice' /\ Apart' /\ Direct' /\ Sound' /\ Control'
    BY <1>1 DEF IInv, NoTagTwice, Apart, Direct, Sound, Control,
                InChain, Closed, StandsFor
  <1>4. pos \in Nat
    BY DEF IInv, TypeOK
  <1>5. Complete'
    BY <1>1, <1>4 DEF IInv, Complete, Passed, Node, StandsFor, Known, InChain
  <1> QED BY <1>2, <1>3, <1>5 DEF IInv

\* A tag is hidden from the start node only while it is the current one, and
\* then the chain holds direct neighbours, none of which is hidden.
LEMMA AddNegatedStep ==
    ASSUME IInv, NEW u \in Tags, AddNegated(u)
    PROVE  IInv'
  <1>0. /\ phase = "negative" /\ u \in rows /\ rows' = rows \ {u}
        /\ UNCHANGED <<relations, start, related, pos, phase>>
    BY DEF AddNegated
  <1>t. TypeOK
    BY DEF IInv
  <1>1. CASE Known(u)
    <2>1. negated' = negated
      BY <1>1 DEF AddNegated
    <2>2. TypeOK'
      BY <1>0, <1>t, <2>1 DEF TypeOK
    <2>3. NoTagTwice' /\ Apart' /\ Direct' /\ Sound' /\ Control'
      BY <1>0, <2>1 DEF IInv, NoTagTwice, Apart, Direct, Sound,
                        Control, InChain, Closed, StandsFor
    <2>4. Complete'
      BY <1>0, <2>1 DEF IInv, Complete, Passed, Node, StandsFor, Known, InChain
    <2> QED BY <2>2, <2>3, <2>4 DEF IInv
  <1>2. CASE ~Known(u)
    <2>1. negated' = [negated EXCEPT ![Current] = @ \cup {u}]
      BY <1>2 DEF AddNegated
    <2>2. Current \in Tags
      BY <1>t DEF TypeOK, Current
    <2>3. u # start /\ u \notin InChain
      BY <1>2 DEF Known
    <2>4. TypeOK'
      BY <1>0, <1>t, <2>1, <2>2 DEF TypeOK
    <2>5. InChain' = InChain
      BY <1>0 DEF InChain
    <2>6. NoTagTwice' /\ Direct'
      BY <1>0 DEF IInv, NoTagTwice, Direct, InChain, StandsFor
    <2>7. negated'[start] \subseteq negated[start] \cup {u}
      BY <1>t, <2>1, <2>2 DEF TypeOK
    <2>8. negated[start] \subseteq negated'[start]
      BY <1>t, <2>1, <2>2 DEF TypeOK
    <2>9. Apart'
      BY <1>0, <2>3, <2>5, <2>7 DEF IInv, Apart
    <2>10. Control'
      BY <1>0, <2>3, <2>7 DEF IInv, Control
    <2>11. Complete'
      BY <1>0, <2>5, <2>8 DEF IInv, Complete, Passed, Node, StandsFor, Known
    <2>12. Sound'
      <3>1. CASE pos = 0
        <4>1. SUFFICES ASSUME NEW S \in SUBSET Tags, start \in S,
                              Closed(S, negated'[start]), NEW i \in DOMAIN related
                       PROVE  related[i] \in S
          BY <1>0 DEF Sound, Closed, StandsFor
        <4>2. StandsFor(start, related[i])
          BY <3>1 DEF IInv, Direct
        <4>3. related[i] \in Tags \ negated'[start]
          BY <1>0, <1>t, <2>5, <2>9 DEF TypeOK, Apart, InChain
        <4> QED BY <4>1, <4>2, <4>3 DEF Closed
      <3>2. CASE pos # 0
        <4>1. Current \in InChain
          BY <1>t, <3>2 DEF TypeOK, Current, InChain
        <4>2. Current # start
          BY <4>1 DEF IInv, NoTagTwice
        <4>3. negated'[start] = negated[start]
          BY <1>t, <2>1, <4>2 DEF TypeOK
        <4> QED BY <1>0, <4>3 DEF IInv, Sound, Closed, StandsFor
      <3> QED BY <3>1, <3>2
    <2> QED BY <2>4, <2>6, <2>9, <2>10, <2>11, <2>12 DEF IInv
  <1> QED BY <1>1, <1>2

\* The next node becomes the current one, with all its neighbours to come.
LEMMA NextNodeStep ==
    ASSUME IInv, NextNode
    PROVE  IInv'
  <1>1. /\ phase = "negative" /\ pos < Len(related) /\ pos' = pos + 1
        /\ rows' = PositiveRows(related[pos + 1]) /\ phase' = "positive"
        /\ UNCHANGED <<relations, start, related, negated>>
    BY DEF NextNode, tree
  <1>2. pos \in Nat /\ Len(related) \in Nat /\ related \in Seq(Tags)
    BY DEF IInv, TypeOK
  <1>3. rows' \subseteq Tags
    BY <1>1 DEF PositiveRows
  <1>4. TypeOK'
    BY <1>1, <1>2, <1>3 DEF IInv, TypeOK
  <1>5. NoTagTwice' /\ Apart' /\ Sound'
    BY <1>1 DEF IInv, NoTagTwice, Apart, Sound, InChain, Closed,
                StandsFor
  <1>6. Direct'
    BY <1>1, <1>2 DEF Direct
  <1>7. Node(pos)' = related[pos + 1]
    BY <1>1, <1>2 DEF Node
  <1>8. \A u \in Tags : u \in rows' <=> StandsFor(Node(pos), u)'
    BY <1>1, <1>7, RowsStandFor DEF StandsFor
  <1>9. Control'
    BY <1>1, <1>3, <1>8 DEF IInv, Control
  <1>10. ASSUME NEW i \in 0 .. pos + 1, Passed(i)', NEW u \in Tags, StandsFor(Node(i), u)'
         PROVE  Known(u)'
    <2>1. i \in 0 .. pos /\ Passed(i)
      BY <1>1, <1>2, <1>10 DEF Passed
    <2>2. StandsFor(Node(i), u)
      BY <1>1, <1>10 DEF StandsFor, Node
    <2>3. Known(u)
      BY <1>1, <2>1, <2>2 DEF IInv, Complete
    <2> QED BY <1>1, <2>3 DEF Known, InChain
  <1>11. Complete'
    BY <1>1, <1>8, <1>10 DEF Complete
  <1> QED BY <1>4, <1>5, <1>6, <1>9, <1>11 DEF IInv

\* The end of the chain.
LEMMA ReturnStep ==
    ASSUME IInv, Return
    PROVE  IInv'
  <1>1. /\ phase = "negative" /\ pos = Len(related) /\ phase' = "done"
        /\ UNCHANGED <<relations, start, related, negated, pos, rows>>
    BY DEF Return, tree
  <1>2. TypeOK'
    BY <1>1 DEF IInv, TypeOK
  <1>3. NoTagTwice' /\ Apart' /\ Direct' /\ Sound' /\ Control'
    BY <1>1 DEF IInv, NoTagTwice, Apart, Direct, Sound, Control,
                InChain, Closed, StandsFor
  <1>4. Complete'
    BY <1>1 DEF IInv, Complete, Passed, Node, StandsFor, Known, InChain
  <1> QED BY <1>2, <1>3, <1>4 DEF IInv

-----------------------------------------------------------------------------
\* The invariant holds throughout, for any relations, edited at any time
\* between two reasonings.
THEOREM ReasonerInvariance == Spec => []IInv
  <1>1. Init => IInv
    BY InitIInv
  <1>2. IInv /\ [Next]_vars => IInv'
    <2> SUFFICES ASSUME IInv, [Next]_vars PROVE IInv'
      OBVIOUS
    <2>1. CASE Edit
      BY <2>1, EditStep DEF Edit
    <2>2. CASE \E t \in Tags : Reason(t)
      BY <2>2, ReasonStep
    <2>3. CASE Inner
      <3>1. CASE \E u \in Tags : AddRelated(u)
        BY <3>1, AddRelatedStep
      <3>2. CASE \E u \in Tags : AddNegated(u)
        BY <3>2, AddNegatedStep
      <3>3. CASE SelectExcluded
        BY <3>3, SelectExcludedStep
      <3>4. CASE NextNode
        BY <3>4, NextNodeStep
      <3>5. CASE Return
        BY <3>5, ReturnStep
      <3> QED BY <2>3, <3>1, <3>2, <3>3, <3>4, <3>5 DEF Inner
    <2>4. CASE Destroy
      BY <2>4, DestroyStep
    <2>5. CASE UNCHANGED vars
      <3>1. TypeOK' /\ NoTagTwice' /\ Apart' /\ Control'
        BY <2>5 DEF vars, IInv, TypeOK, NoTagTwice, Apart,
                    Control, InChain, Node, StandsFor
      <3>2. Direct' /\ Sound'
        BY <2>5 DEF vars, IInv, Direct, Sound, Closed, StandsFor
      <3>3. Complete'
        BY <2>5 DEF vars, IInv, Complete, Passed, Node, Known, InChain, StandsFor
      <3> QED BY <3>1, <3>2, <3>3 DEF IInv
    <2> QED BY <2>1, <2>2, <2>3, <2>4, <2>5 DEF Next
  <1> QED BY <1>1, <1>2, PTL DEF Spec

-----------------------------------------------------------------------------
(* What the ->negated chain of the start node has to do with the table     *)

\* Hidden depends on the table and the start tag only.
LEMMA HiddenSame ==
    ASSUME relations' = relations, start' = start
    PROVE  Hidden' = Hidden /\ \A t : ExcludedRows(t)' = ExcludedRows(t)
  BY DEF Hidden, StandsFor, ExcludedRows

\* A tag taken from an excludes row of the start tag is hidden, since every
\* tag the start tag stands for is known by then.
LEMMA HidingAddNegated ==
    ASSUME IInv, Hiding, NEW u \in Tags, AddNegated(u)
    PROVE  Hiding'
  <1>0. /\ phase = "negative" /\ u \in rows /\ rows' = rows \ {u}
        /\ UNCHANGED <<relations, start, related, pos, phase>>
    BY DEF AddNegated
  <1>1. Hidden' = Hidden /\ ExcludedRows(start)' = ExcludedRows(start)
    BY <1>0, HiddenSame
  <1>t. TypeOK /\ NoTagTwice
    BY DEF IInv
  <1>2. CASE pos = 0
    <2>1. Current = start /\ start \in Tags
      BY <1>2, <1>t DEF Current, TypeOK
    <2>2. u \in ExcludedRows(start) /\ rows' \subseteq ExcludedRows(start)
      BY <1>0, <1>2 DEF Hiding
    <2>3. \A v \in Tags : StandsFor(start, v) => Known(v)
      <3>1. Passed(0) /\ Node(0) = start /\ 0 \in 0 .. pos
        BY <1>0, <1>2 DEF Passed, Node
      <3> QED BY <1>0, <3>1 DEF IInv, Complete
    <2>4. CASE Known(u)
      <3>1. negated' = negated
        BY <2>4 DEF AddNegated
      <3>2. u \in Hidden => u \in negated[start]
        <4>1. u \in InChain => StandsFor(start, u)
          BY <1>2 DEF IInv, Direct, InChain
        <4>2. u \in Hidden => u # start /\ ~StandsFor(start, u)
          BY DEF Hidden
        <4> QED BY <4>1, <4>2, <2>4 DEF Known
      <3> QED BY <1>0, <1>1, <1>2, <2>2, <3>1, <3>2 DEF Hiding
    <2>5. CASE ~Known(u)
      <3>1. negated'[start] = negated[start] \cup {u}
        BY <2>1, <2>5, <1>t DEF AddNegated, TypeOK
      <3>2. u \in Hidden
        BY <2>2, <2>3, <2>5 DEF Hidden, ExcludedRows, Known
      <3> QED BY <1>0, <1>1, <1>2, <2>2, <3>1, <3>2 DEF Hiding
    <2> QED BY <2>4, <2>5
  <1>3. CASE pos # 0
    <2>1. Current \in InChain /\ Current \in Tags
      BY <1>t, <1>3 DEF TypeOK, Current, InChain
    <2>2. Current # start
      BY <2>1, <1>t DEF NoTagTwice
    <2>3. negated'[start] = negated[start]
      BY <1>t, <2>1, <2>2 DEF AddNegated, TypeOK
    <2> QED BY <1>0, <1>1, <1>3, <2>3 DEF Hiding
  <1> QED BY <1>2, <1>3

\* The other steps of a reasoning leave that chain alone; once the rows of the
\* start tag are used up, it holds every hidden tag.
LEMMA HidingStep ==
    ASSUME IInv, Hiding, [Next]_vars
    PROVE  Hiding'
  <1>t. TypeOK
    BY DEF IInv
  <1>p. pos \in Nat
    BY <1>t DEF TypeOK
  <1>1. CASE Edit
    <2>1. phase = "idle" /\ UNCHANGED <<start, negated, pos, rows, phase>>
      BY <1>1 DEF Edit, Relate, Unrelate, tree
    <2>2. negated[start] = {} /\ pos = 0
      BY <2>1 DEF Hiding, IInv, Control
    <2> QED BY <2>1, <2>2 DEF Hiding
  <1>2. CASE \E t \in Tags : Reason(t)
    <2>1. PICK t \in Tags : Reason(t)
      BY <1>2
    <2>2. negated'[start'] = {} /\ pos' = 0 /\ phase' = "positive"
      BY <2>1 DEF Reason, NoneNegated
    <2> QED BY <2>2 DEF Hiding
  <1>3. CASE \E u \in Tags : AddRelated(u)
    <2>1. phase = "positive" /\ UNCHANGED <<relations, start, negated, pos, phase>>
      BY <1>3 DEF AddRelated
    <2> QED BY <2>1, HiddenSame DEF Hiding
  <1>4. CASE \E u \in Tags : AddNegated(u)
    BY <1>4, HidingAddNegated
  <1>5. CASE SelectExcluded
    <2>1. /\ phase = "positive" /\ phase' = "negative" /\ rows' = ExcludedRows(Current)
          /\ UNCHANGED <<relations, start, negated, pos>>
      BY <1>5 DEF SelectExcluded, tree
    <2>2. Hidden' = Hidden /\ ExcludedRows(start)' = ExcludedRows(start)
      BY <2>1, HiddenSame
    <2>3. Hidden \subseteq ExcludedRows(start)
      BY DEF Hidden, ExcludedRows
    <2>4. pos = 0 => rows' = ExcludedRows(start)
      BY <2>1 DEF Current
    <2> QED BY <2>1, <2>2, <2>3, <2>4 DEF Hiding
  <1>6. CASE NextNode \/ Return
    <2>1. /\ phase = "negative" /\ rows = {} /\ phase' \in {"positive", "done"}
          /\ pos' \in Nat
          /\ UNCHANGED <<relations, start, negated>>
      BY <1>6, <1>p DEF NextNode, Return, tree
    <2>2. Hidden' = Hidden
      BY <2>1, HiddenSame
    <2>3. Hidden \subseteq negated[start] /\ negated[start] \subseteq Hidden
      BY <2>1, <1>p DEF Hiding
    <2> QED BY <2>1, <2>2, <2>3 DEF Hiding
  <1>7. CASE Destroy
    <2>1. negated'[start'] = {} /\ pos' = 0 /\ phase' = "idle"
      BY <1>7, <1>t DEF Destroy, NoneNegated, TypeOK
    <2> QED BY <2>1 DEF Hiding
  <1>8. CASE UNCHANGED vars
    <2>1. UNCHANGED <<relations, start, negated, pos, rows, phase>>
      BY <1>8 DEF vars
    <2> QED BY <2>1, HiddenSame DEF Hiding
  <1> QED BY <1>1, <1>2, <1>3, <1>4, <1>5, <1>6, <1>7, <1>8 DEF Next, Inner

\* The ->negated chain of the start node holds the tags the table hides, no
\* other ever and all of them from the second node on.
THEOREM NegatedChainIsHidden == Spec => []Hiding
  <1>1. Init => Hiding
    BY DEF Init, Hiding, NoneNegated
  <1>2. IInv /\ Hiding /\ [Next]_vars => Hiding'
    BY HidingStep
  <1> QED BY <1>1, <1>2, ReasonerInvariance, PTL DEF Spec

\* At the end of a reasoning the chain and its start tag form a closed set
\* (Complete) that lies in every closed set (Sound): the least one.
LEMMA ExactAtTheEnd == ASSUME IInv, Hiding PROVE ReasonsExactly
  <1> SUFFICES ASSUME phase = "done"
               PROVE  InChain \cup {start} = Implied(negated[start])
    <2>1. ASSUME phase = "done" PROVE negated[start] = Hidden
      BY <2>1 DEF Hiding
    <2> QED BY <2>1 DEF ReasonsExactly
  <1> DEFINE R == InChain \cup {start}
  <1>1. /\ related \in Seq(Tags) /\ start \in Tags /\ pos = Len(related)
        /\ Len(related) \in Nat /\ DOMAIN related = 1 .. Len(related)
    BY DEF IInv, TypeOK, Control
  <1>2. R \in SUBSET Tags
    BY <1>1 DEF InChain
  <1>3. Closed(R, negated[start])
    <2>1. SUFFICES ASSUME NEW t \in R, NEW u \in Tags \ negated[start], StandsFor(t, u)
                   PROVE  u \in R
      BY DEF Closed
    <2>2. PICK i \in 0 .. pos : t = Node(i)
      <3>1. CASE t = start
        BY <3>1, <1>1 DEF Node
      <3>2. CASE t \in InChain
        BY <3>2, <1>1 DEF Node, InChain
      <3> QED BY <3>1, <3>2
    <2>3. Passed(i)
      BY <1>1, <2>2 DEF Passed
    <2>4. Known(u)
      BY <2>1, <2>2, <2>3 DEF IInv, Complete
    <2> QED BY <2>1, <2>4 DEF Known
  <1>4. ASSUME NEW u \in R PROVE u \in Implied(negated[start])
    <2>1. ASSUME NEW S \in SUBSET Tags, start \in S, Closed(S, negated[start])
          PROVE  u \in S
      BY <2>1 DEF IInv, Sound, InChain
    <2> QED BY <1>2, <2>1 DEF Implied
  <1>5. ASSUME NEW u \in Implied(negated[start]) PROVE u \in R
    BY <1>2, <1>3 DEF Implied
  <1> QED BY <1>4, <1>5

\* While the start node is the current one the chain holds tags it stands for;
\* later its ->negated chain holds every tag it hides, and shares none with it.
LEMMA ExcludedApart == ASSUME IInv, Hiding PROVE ExcludedIsNotRelated
  <1> SUFFICES ASSUME NEW u \in InChain, <<start, "excludes", u>> \in relations
               PROVE  StandsFor(start, u)
    BY DEF ExcludedIsNotRelated
  <1>1. CASE pos = 0
    BY <1>1 DEF IInv, Direct, InChain
  <1>2. CASE pos # 0
    <2>1. Hidden \subseteq negated[start]
      BY <1>2 DEF IInv, TypeOK, Hiding
    <2>2. u \notin Hidden
      BY <2>1 DEF IInv, Apart
    <2>3. u \in Tags \ {start}
      BY DEF IInv, TypeOK, NoTagTwice, InChain
    <2> QED BY <2>2, <2>3 DEF Hidden
  <1> QED BY <1>1, <1>2

\* For any tags and any relations, cycles included, the reasoner of reasoner.c
\* finds exactly the tags the relations table implies.
THEOREM ReasonerIsExact == Spec => []ReasonsExactly
  <1>1. IInv /\ Hiding => ReasonsExactly
    BY ExactAtTheEnd
  <1> QED BY <1>1, ReasonerInvariance, NegatedChainIsHidden, PTL

\* No tag enters the chain twice, which is what ends the recursion.
THEOREM ReasonerNoTagTwice == Spec => []NoTagTwice
  <1>1. IInv => NoTagTwice
    BY DEF IInv
  <1> QED BY <1>1, ReasonerInvariance, PTL

\* For any tags and any relations, a tag with an excludes row of the start tag
\* is in the chain only if another row relates the start tag itself to it.
THEOREM ReasonerHides == Spec => []ExcludedIsNotRelated
  <1>1. IInv /\ Hiding => ExcludedIsNotRelated
    BY ExcludedApart
  <1> QED BY <1>1, ReasonerInvariance, NegatedChainIsHidden, PTL
=============================================================================
