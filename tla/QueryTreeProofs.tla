--------------------------- MODULE QueryTreeProofs ---------------------------
(***************************************************************************)
(* Proofs about QueryTree, for any tags and paths of any length: a query   *)
(* the documentation describes is parsed to its end, and the tree means    *)
(* what the tokens of the path mean.                                       *)
(*                                                                         *)
(* The tree is compared with the path after every token: the invariant     *)
(* says which and_set, which node and which chain each tag read so far     *)
(* has gone to, and that nothing else is there.                            *)
(***************************************************************************)
EXTENDS QueryTree, FiniteSetTheorems, SequenceTheorems, NaturalsInduction,
        WellFoundedInduction, TLAPS

-----------------------------------------------------------------------------
(* The inductive invariant                                                 *)

\* The tags among the first r tokens, and those without a "-" before them.
TagsRead(p, r) == {i \in 1 .. r : p[i] \in Tags}
Positive(p, r) == {i \in TagsRead(p, r) : ~NegatedAt(p, i)}

\* The tags of which a node asks for one.
NodeTags(and) == {and.tag} \cup {and.related[k] : k \in DOMAIN and.related}

\* The parser's flags after r tokens.
FlagsInv(p, r, tr, tg, neg) ==
    /\ Len(tr) = AndSetOf(p, r) + 1
    /\ neg <=> r > 0 /\ p[r] = "-"
    /\ tg = IF ~InGroup(p, r) THEN "dont_add"
            ELSE IF p[r] = "{" THEN "add_new" ELSE "add_to"

\* An alternative of which a tag has been read, negated or not, has a node.
StartedInv(p, r, tr) ==
    \A i \in 1 .. r : p[i] \in Tags \cup {"}"} => tr[AndSetOf(p, i) + 1] # <<>>

\* at[i] is the node the tag at i has gone to: the tags of a group share one,
\* and the group that is open has the last.
Placed(p, r, tr, at) ==
    \A i \in Positive(p, r) :
        /\ at[i] \in DOMAIN tr[AndSetOf(p, i) + 1]
        /\ p[i] \in NodeTags(tr[AndSetOf(p, i) + 1][at[i]])
Covered(p, r, tr, at) ==
    \A n \in DOMAIN tr : \A k \in DOMAIN tr[n] : \A t \in NodeTags(tr[n][k]) :
        \E i \in Positive(p, r) : AndSetOf(p, i) = n - 1 /\ at[i] = k /\ p[i] = t
Grouped(p, r, at) ==
    \A i, j \in Positive(p, r) :
        AndSetOf(p, i) = AndSetOf(p, j) => (at[i] = at[j] <=> SameGroup(p, i, j))
OpenLast(p, r, tr, at) ==
    InGroup(p, r) /\ p[r] # "{" => r \in Positive(p, r) /\ at[r] = Len(tr[Len(tr)])

Laid(p, r, tr, at) ==
    Placed(p, r, tr, at) /\ Covered(p, r, tr, at) /\ Grouped(p, r, at) /\ OpenLast(p, r, tr, at)

NodesInv(p, r, tr) == \E at \in [Positive(p, r) -> Nat] : Laid(p, r, tr, at)

\* What hangs from ->negated was negated in the same alternative.
NegatedInv(p, r, tr) ==
    \A n \in DOMAIN tr : \A k \in DOMAIN tr[n] : \A m \in DOMAIN tr[n][k].negated :
        \E i \in TagsRead(p, r) :
            NegatedAt(p, i) /\ AndSetOf(p, i) = n - 1 /\ p[i] = tr[n][k].negated[m]

\* A negation right after the first tag of an alternative is the first of the
\* chain the lookup reads.
Starts(p, i) == i = 1 \/ p[i - 1] = "+"
Fresh(and_set) == Len(and_set) = 1 /\ and_set[1].negated = <<>>

SecondNegated(p, i) == NegatedAt(p, i) /\ i > 2 /\ Starts(p, i - 2)
FirstOfChain(p, i, tr) ==
    /\ tr[AndSetOf(p, i) + 1][1].negated # <<>>
    /\ tr[AndSetOf(p, i) + 1][1].negated[1] = p[i]

FirstInv(p, r, tr) ==
    /\ r = 0 \/ p[r] = "+" => tr[Len(tr)] = <<>>
    /\ r > 0 /\ p[r] \in Tags /\ Starts(p, r) => Fresh(tr[Len(tr)])
    /\ r > 1 /\ p[r] = "-" /\ Starts(p, r - 1) => Fresh(tr[Len(tr)])
    /\ \A i \in TagsRead(p, r) : SecondNegated(p, i) => FirstOfChain(p, i, tr)

TreeInv(p, r, tr, tg, neg) ==
    /\ FlagsInv(p, r, tr, tg, neg) /\ StartedInv(p, r, tr) /\ NodesInv(p, r, tr)
    /\ NegatedInv(p, r, tr) /\ FirstInv(p, r, tr)

\* A query that has been parsed has been read to its end.
DoneInv ==
    pc \in {"parsed"} \cup Outcomes =>
        read = Len(path) /\ (pc \in Outcomes => pc = Outcome(tree, file))

IInv ==
    /\ TypeOK /\ DoneInv
    /\ Described(path) =>
        pc \notin {"error", "crashed"} /\ TreeInv(path, read, tree, tag_group, negate_next_tag)

-----------------------------------------------------------------------------
(* Counting the tokens of a path                                           *)

LEMMA CountFinite ==
  ASSUME NEW p, NEW token, NEW i \in Nat
  PROVE  IsFiniteSet({j \in 1 .. i : p[j] = token}) /\ Count(p, token, i) \in Nat
  <1>1. IsFiniteSet(1 .. i)
    BY FS_Interval
  <1>2. IsFiniteSet({j \in 1 .. i : p[j] = token})
    BY <1>1, FS_Subset, Zenon
  <1> QED  BY <1>2, FS_CardinalityType DEF Count

LEMMA CountZero ==
  ASSUME NEW p, NEW token
  PROVE  Count(p, token, 0) = 0
  <1>1. {j \in 1 .. 0 : p[j] = token} = {}
    OBVIOUS
  <1> QED  BY <1>1, FS_EmptySet DEF Count

LEMMA CountStep ==
  ASSUME NEW p, NEW token, NEW i \in Nat
  PROVE  Count(p, token, i + 1) =
            IF p[i + 1] = token THEN Count(p, token, i) + 1 ELSE Count(p, token, i)
  <1> DEFINE S == {j \in 1 .. i : p[j] = token}
             T == {j \in 1 .. i + 1 : p[j] = token}
  <1>1. IsFiniteSet(S)
    BY CountFinite
  <1>2. CASE p[i + 1] = token
    <2>1. T = S \cup {i + 1} /\ i + 1 \notin S
      BY <1>2
    <2> QED  BY <1>1, <1>2, <2>1, FS_AddElement DEF Count
  <1>3. CASE p[i + 1] # token
    <2>1. T = S
      BY <1>3
    <2> QED  BY <1>3, <2>1 DEF Count
  <1> QED  BY <1>2, <1>3

LEMMA CountGrows ==
  ASSUME NEW p, NEW token, NEW i \in Nat, NEW j \in Nat, i <= j
  PROVE  Count(p, token, i) <= Count(p, token, j)
  <1> DEFINE S == {k \in 1 .. i : p[k] = token}
             T == {k \in 1 .. j : p[k] = token}
  <1>1. S \in SUBSET T
    OBVIOUS
  <1>2. IsFiniteSet(T)
    BY CountFinite
  <1> HIDE DEF S, T
  <1>3. Cardinality(S) <= Cardinality(T)
    BY <1>1, <1>2, FS_Subset
  <1> QED  BY <1>3 DEF Count, S, T

LEMMA NoneCounted ==
  ASSUME NEW p
  PROVE  Opened(p, 0) = 0 /\ Closed(p, 0) = 0 /\ AndSetOf(p, 0) = 0
  BY CountZero, Zenon DEF Opened, Closed, AndSetOf

\* What makes a query a described one, at one of its tokens.
LEMMA DescribedAt ==
  ASSUME NEW p \in Seq(Tokens), Described(p), NEW i \in 1 .. Len(p)
  PROVE  /\ p[i] \in Tokens
         /\ Opened(p, i) - Closed(p, i) \in 0 .. 1
         /\ p[i] \in {"-", "{"} => i < Len(p) /\ p[i + 1] \in Tags
         /\ p[i] \in {"+", "-"} => ~InGroup(p, i)
         /\ p[i] = "-" => i > 1 /\ p[i - 1] # "+"
  <1>1. DOMAIN p = 1 .. Len(p)
    BY LenProperties
  <1>2. p[i] \in Tokens
    BY ElementOfSeq
  <1> QED  BY <1>1, <1>2, Zenon DEF Described

\* What each kind of token does to the counts.
LEMMA Braces ==
  ASSUME NEW p \in Seq(Tokens), Described(p), NEW r \in 0 .. Len(p)
  PROVE  /\ Opened(p, r) \in Nat /\ Closed(p, r) \in Nat /\ AndSetOf(p, r) \in Nat
         /\ Opened(p, r) - Closed(p, r) \in 0 .. 1
         /\ InGroup(p, r) <=> Opened(p, r) = Closed(p, r) + 1
  <1>1. Len(p) \in Nat /\ DOMAIN p = 1 .. Len(p)
    BY LenProperties
  <1>0. r \in Nat
    BY <1>1
  <1>2. Opened(p, r) \in Nat /\ Closed(p, r) \in Nat /\ AndSetOf(p, r) \in Nat
    BY <1>0, CountFinite, Zenon DEF Opened, Closed, AndSetOf
  <1>3. Opened(p, r) - Closed(p, r) \in 0 .. 1
    <2>1. CASE r = 0
      BY <2>1, NoneCounted
    <2>2. CASE r # 0
      <3>1. r \in 1 .. Len(p)
        BY <1>1, <2>2
      <3> QED  BY <3>1, DescribedAt, Zenon
    <2> QED  BY <2>1, <2>2
  <1> QED  BY <1>2, <1>3 DEF InGroup

LEMMA NoGroupAtFirst ==
  ASSUME NEW p
  PROVE  ~InGroup(p, 0)
  BY NoneCounted DEF InGroup

LEMMA NextCounts ==
  ASSUME NEW p \in Seq(Tokens), Described(p), NEW r \in 0 .. Len(p), r < Len(p)
  PROVE  /\ r + 1 \in 1 .. Len(p) /\ p[r + 1] \in Tokens
         /\ p[r + 1] # "+" => AndSetOf(p, r + 1) = AndSetOf(p, r)
         /\ p[r + 1] = "+" => AndSetOf(p, r + 1) = AndSetOf(p, r) + 1
         /\ p[r + 1] # "{" => Opened(p, r + 1) = Opened(p, r)
         /\ p[r + 1] = "{" => Opened(p, r + 1) = Opened(p, r) + 1
         /\ p[r + 1] \notin {"{", "}"} => (InGroup(p, r + 1) <=> InGroup(p, r))
         /\ p[r + 1] = "{" => InGroup(p, r + 1) /\ ~InGroup(p, r)
         /\ p[r + 1] = "}" => ~InGroup(p, r + 1) /\ InGroup(p, r)
  <1>1. Len(p) \in Nat /\ DOMAIN p = 1 .. Len(p)
    BY LenProperties
  <1>2. r \in Nat /\ r + 1 \in 1 .. Len(p) /\ r + 1 \in 0 .. Len(p) /\ p[r + 1] \in Tokens
    BY <1>1, ElementOfSeq
  <1>4. /\ Opened(p, r + 1) = IF p[r + 1] = "{" THEN Opened(p, r) + 1 ELSE Opened(p, r)
        /\ Closed(p, r + 1) = IF p[r + 1] = "}" THEN Closed(p, r) + 1 ELSE Closed(p, r)
        /\ AndSetOf(p, r + 1) = IF p[r + 1] = "+" THEN AndSetOf(p, r) + 1 ELSE AndSetOf(p, r)
    BY <1>2, CountStep, Zenon DEF Opened, Closed, AndSetOf
  <1>5. p[r + 1] \notin {"{", "}"} => (InGroup(p, r + 1) <=> InGroup(p, r))
    BY <1>4 DEF InGroup
  <1>8. /\ Opened(p, r) \in Nat /\ Closed(p, r) \in Nat
        /\ Opened(p, r) - Closed(p, r) \in 0 .. 1 /\ Opened(p, r + 1) - Closed(p, r + 1) \in 0 .. 1
        /\ InGroup(p, r) <=> Opened(p, r) = Closed(p, r) + 1
        /\ InGroup(p, r + 1) <=> Opened(p, r + 1) = Closed(p, r + 1) + 1
    BY <1>2, Braces, Zenon
  <1>9. /\ p[r + 1] = "{" => Opened(p, r + 1) = Opened(p, r) + 1 /\ Closed(p, r + 1) = Closed(p, r)
        /\ p[r + 1] = "}" => Opened(p, r + 1) = Opened(p, r) /\ Closed(p, r + 1) = Closed(p, r) + 1
    BY <1>4, Zenon
  <1>6. p[r + 1] = "{" => InGroup(p, r + 1) /\ ~InGroup(p, r)
    <2> SUFFICES ASSUME Opened(p, r + 1) = Opened(p, r) + 1, Closed(p, r + 1) = Closed(p, r)
                 PROVE  InGroup(p, r + 1) /\ ~InGroup(p, r)
      BY <1>9, Zenon
    <2> QED  BY <1>8
  <1>7. p[r + 1] = "}" => ~InGroup(p, r + 1) /\ InGroup(p, r)
    <2> SUFFICES ASSUME Opened(p, r + 1) = Opened(p, r), Closed(p, r + 1) = Closed(p, r) + 1
                 PROVE  ~InGroup(p, r + 1) /\ InGroup(p, r)
      BY <1>9, Zenon
    <2> QED  BY <1>8
  <1> QED  BY <1>2, <1>4, <1>5, <1>6, <1>7

\* What may come before a token that is no tag, and inside a group.
LEMMA Syntax ==
  ASSUME NEW p \in Seq(Tokens), Described(p), NEW r \in 1 .. Len(p)
  PROVE  /\ p[r] \in Tokens
         /\ p[r] \in {"-", "{"} => r < Len(p) /\ p[r + 1] \in Tags
         /\ p[r] \in {"+", "-"} => ~InGroup(p, r)
         /\ p[r] = "-" => r > 1 /\ p[r - 1] # "+"
         /\ p[r] = "{" => InGroup(p, r)
         /\ p[r] = "}" => ~InGroup(p, r) /\ InGroup(p, r - 1) /\ r > 1
  <1>1. Len(p) \in Nat /\ DOMAIN p = 1 .. Len(p)
    BY LenProperties
  <1>2. PICK q \in 0 .. Len(p) : q < Len(p) /\ r = q + 1 /\ r - 1 = q
    BY <1>1
  <1>3. p[q + 1] = "{" => InGroup(p, q + 1)
    BY <1>2, NextCounts, Zenon
  <1>4. p[q + 1] = "}" => ~InGroup(p, q + 1) /\ InGroup(p, q)
    BY <1>2, NextCounts, Zenon
  <1>5. ~InGroup(p, 0)
    BY NoneCounted DEF InGroup
  <1>6. p[r] = "}" => q # 0
    BY <1>2, <1>4, <1>5, Zenon
  <1>7. q # 0 => r > 1
    BY <1>2
  <1> QED  BY <1>2, <1>3, <1>4, <1>6, <1>7, DescribedAt, Zenon

\* The tokens a described query has before one that is no tag.
LEMMA BeforeNoTag ==
  ASSUME NEW p \in Seq(Tokens), Described(p), NEW r \in 0 .. Len(p), r < Len(p),
         p[r + 1] \notin Tags, r > 0
  PROVE  p[r] \in Tags \cup {"+", "}"}
  <1>1. r \in 1 .. Len(p)
    BY LenProperties
  <1>2. p[r] \in Tokens /\ (p[r] \in {"-", "{"} => p[r + 1] \in Tags)
    BY <1>1, Syntax, Zenon
  <1> QED  BY <1>2, Zenon DEF Tokens

\* The tags read when one more token is.
LEMMA OneMoreRead ==
  ASSUME NEW p \in Seq(Tokens), NEW r \in 0 .. Len(p), r < Len(p)
  PROVE  /\ p[r + 1] \notin Tags =>
              TagsRead(p, r + 1) = TagsRead(p, r) /\ Positive(p, r + 1) = Positive(p, r)
         /\ p[r + 1] \in Tags => TagsRead(p, r + 1) = TagsRead(p, r) \cup {r + 1}
         /\ p[r + 1] \in Tags /\ ~NegatedAt(p, r + 1) =>
              Positive(p, r + 1) = Positive(p, r) \cup {r + 1}
         /\ NegatedAt(p, r + 1) => Positive(p, r + 1) = Positive(p, r)
         /\ r + 1 \notin Positive(p, r)
  <1>1. Len(p) \in Nat
    BY LenProperties
  <1>2. 1 .. r + 1 = (1 .. r) \cup {r + 1} /\ r + 1 \notin 1 .. r
    BY <1>1
  <1> HIDE DEF NegatedAt
  <1> QED  BY <1>2, Zenon DEF TagsRead, Positive

\* The alternatives of the tags read are in the tree.
LEMMA AlternativesRead ==
  ASSUME NEW p \in Seq(Tokens), NEW r \in 0 .. Len(p), NEW i \in 0 .. r
  PROVE  AndSetOf(p, i) + 1 \in 1 .. AndSetOf(p, r) + 1 /\ AndSetOf(p, i) \in Nat
  <1>1. i \in Nat /\ r \in Nat /\ i <= r
    BY LenProperties
  <1>2. AndSetOf(p, i) \in Nat /\ AndSetOf(p, r) \in Nat /\ AndSetOf(p, i) <= AndSetOf(p, r)
    BY <1>1, CountFinite, CountGrows, Zenon DEF AndSetOf
  <1> QED  BY <1>2

-----------------------------------------------------------------------------
(* The tree                                                                *)

Trees == Seq(Seq(Nodes))

LEMMA TreeShape ==
  ASSUME NEW tr \in Trees, tr # <<>>
  PROVE  /\ Len(tr) \in Nat \ {0} /\ DOMAIN tr = 1 .. Len(tr)
         /\ \A n \in 1 .. Len(tr) :
              /\ tr[n] \in Seq(Nodes) /\ Len(tr[n]) \in Nat /\ DOMAIN tr[n] = 1 .. Len(tr[n])
              /\ tr[n] # <<>> <=> Len(tr[n]) > 0
              /\ \A k \in 1 .. Len(tr[n]) : tr[n][k] \in Nodes
  <1>1. Len(tr) \in Nat \ {0} /\ DOMAIN tr = 1 .. Len(tr)
    BY LenProperties, EmptySeq DEF Trees
  <1>2. \A n \in 1 .. Len(tr) : tr[n] \in Seq(Nodes)
    BY ElementOfSeq DEF Trees
  <1>3. \A s \in Seq(Nodes) :
          /\ Len(s) \in Nat /\ DOMAIN s = 1 .. Len(s) /\ (s # <<>> <=> Len(s) > 0)
          /\ \A k \in 1 .. Len(s) : s[k] \in Nodes
    BY LenProperties, EmptySeq, ElementOfSeq
  <1> QED  BY <1>1, <1>2, <1>3, Zenon

\* The last and_set replaced.
WithLast(tr, new) == [tr EXCEPT ![Len(tr)] = new]

LEMMA SetLast ==
  ASSUME NEW tr \in Trees, tr # <<>>, NEW new \in Seq(Nodes)
  PROVE  /\ WithLast(tr, new) \in Trees /\ WithLast(tr, new) # <<>>
         /\ Len(WithLast(tr, new)) = Len(tr) /\ WithLast(tr, new)[Len(tr)] = new
         /\ \A n \in 1 .. Len(tr) : n # Len(tr) => WithLast(tr, new)[n] = tr[n]
  <1>1. tr \in Seq(Seq(Nodes)) /\ Len(tr) \in 1 .. Len(tr)
    BY TreeShape DEF Trees
  <1>2. /\ WithLast(tr, new) \in Seq(Seq(Nodes)) /\ Len(WithLast(tr, new)) = Len(tr)
        /\ \A n \in 1 .. Len(tr) : WithLast(tr, new)[n] = IF n = Len(tr) THEN new ELSE tr[n]
    BY <1>1, ExceptSeq DEF WithLast
  <1>3. WithLast(tr, new) # <<>>
    BY <1>1, <1>2, EmptySeq
  <1> QED  BY <1>1, <1>2, <1>3 DEF Trees

\* A node at the end of the last and_set.
WithNode(tr, and) == [tr EXCEPT ![Len(tr)] = Append(@, and)]

LEMMA NewNode ==
  ASSUME NEW tr \in Trees, tr # <<>>, NEW and \in Nodes, NEW tr2, tr2 = WithNode(tr, and)
  PROVE  /\ tr2 \in Trees /\ tr2 # <<>> /\ Len(tr2) = Len(tr)
         /\ \A n \in 1 .. Len(tr) : n # Len(tr) => tr2[n] = tr[n]
         /\ Len(tr2[Len(tr)]) = Len(tr[Len(tr)]) + 1
         /\ \A k \in 1 .. Len(tr[Len(tr)]) : tr2[Len(tr)][k] = tr[Len(tr)][k]
         /\ tr2[Len(tr)][Len(tr[Len(tr)]) + 1] = and
  <1> DEFINE L == Len(tr)
             new == Append(tr[L], and)
  <1>1. L \in Nat \ {0} /\ DOMAIN tr = 1 .. L /\ tr[L] \in Seq(Nodes)
    BY TreeShape
  <1>2. /\ new \in Seq(Nodes) /\ Len(new) = Len(tr[L]) + 1 /\ new[Len(tr[L]) + 1] = and
        /\ \A k \in 1 .. Len(tr[L]) : new[k] = tr[L][k]
    BY <1>1, AppendProperties
  <1>3. /\ tr2 \in Trees /\ tr2 # <<>> /\ Len(tr2) = L /\ tr2[L] = new
        /\ \A n \in 1 .. L : n # L => tr2[n] = tr[n]
    <2>1. new \in Seq(Nodes) /\ tr2 = WithLast(tr, new)
      BY <1>2, Zenon DEF WithLast, WithNode
    <2> HIDE DEF new
    <2>2. /\ WithLast(tr, new) \in Trees /\ WithLast(tr, new) # <<>>
          /\ Len(WithLast(tr, new)) = Len(tr) /\ WithLast(tr, new)[Len(tr)] = new
          /\ \A n \in 1 .. Len(tr) : n # Len(tr) => WithLast(tr, new)[n] = tr[n]
      BY <2>1, SetLast
    <2> QED  BY <2>1, <2>2, Zenon
  <1> QED  BY <1>2, <1>3, Zenon

\* The last node of the last and_set replaced.
LastNode(tr) == tr[Len(tr)][Len(tr[Len(tr)])]
WithLastNode(tr, and) == [tr EXCEPT ![Len(tr)][Len(tr[Len(tr)])] = and]

LEMMA LastReplaced ==
  ASSUME NEW tr \in Trees, tr # <<>>, tr[Len(tr)] # <<>>, NEW and \in Nodes, NEW tr2,
         tr2 = WithLastNode(tr, and)
  PROVE  /\ tr2 \in Trees /\ tr2 # <<>> /\ Len(tr2) = Len(tr)
         /\ \A n \in 1 .. Len(tr) : n # Len(tr) => tr2[n] = tr[n]
         /\ Len(tr2[Len(tr)]) = Len(tr[Len(tr)])
         /\ \A k \in 1 .. Len(tr[Len(tr)]) :
              tr2[Len(tr)][k] = IF k = Len(tr[Len(tr)]) THEN and ELSE tr[Len(tr)][k]
  <1> DEFINE L == Len(tr)
             M == Len(tr[L])
             new == [tr[L] EXCEPT ![M] = and]
  <1>1. /\ L \in Nat \ {0} /\ DOMAIN tr = 1 .. L /\ tr[L] \in Seq(Nodes)
        /\ M \in Nat \ {0} /\ DOMAIN tr[L] = 1 .. M
    BY TreeShape
  <1>2. tr2 = [tr EXCEPT ![L] = new]
    BY DEF WithLastNode
  <1>3. new = [tr[L] EXCEPT ![M] = and]
    OBVIOUS
  <1> HIDE DEF new
  <1>4. /\ new \in Seq(Nodes) /\ Len(new) = M
        /\ \A k \in 1 .. M : new[k] = IF k = M THEN and ELSE tr[L][k]
    BY <1>1, <1>3, ExceptSeq, LenProperties
  <1>5. /\ tr2 \in Trees /\ tr2 # <<>> /\ Len(tr2) = L /\ tr2[L] = new
        /\ \A n \in 1 .. L : n # L => tr2[n] = tr[n]
    <2>1. new \in Seq(Nodes) /\ tr2 = WithLast(tr, new)
      BY <1>2, <1>4, Zenon DEF WithLast
    <2>2. /\ WithLast(tr, new) \in Trees /\ WithLast(tr, new) # <<>>
          /\ Len(WithLast(tr, new)) = Len(tr) /\ WithLast(tr, new)[Len(tr)] = new
          /\ \A n \in 1 .. Len(tr) : n # Len(tr) => WithLast(tr, new)[n] = tr[n]
      BY <2>1, SetLast
    <2> QED  BY <2>1, <2>2, Zenon
  <1> QED  BY <1>4, <1>5, Zenon

\* An and_set at the end of the tree.
LEMMA NewOr ==
  ASSUME NEW tr \in Trees, tr # <<>>, NEW tr2, tr2 = Append(tr, <<>>)
  PROVE  /\ tr2 \in Trees /\ tr2 # <<>> /\ Len(tr2) = Len(tr) + 1 /\ tr2[Len(tr) + 1] = <<>>
         /\ \A n \in 1 .. Len(tr) : tr2[n] = tr[n]
  <1>1. <<>> \in Seq(Nodes)
    BY EmptySeq
  <1> QED  BY <1>1, AppendProperties, EmptySeq DEF Trees

-----------------------------------------------------------------------------
(* What a token leaves as it is                                            *)

\* A path read up to r, and its tree.
Ready(p, r, tr) ==
    /\ p \in Seq(Tokens) /\ Described(p) /\ r \in 0 .. Len(p) /\ r < Len(p)
    /\ tr \in Trees /\ tr # <<>> /\ Len(tr) = AndSetOf(p, r) + 1

LEMMA ReadyIndices ==
  ASSUME NEW p, NEW r, NEW tr, Ready(p, r, tr)
  PROVE  /\ r \in Nat /\ r + 1 \in 1 .. Len(p) /\ Len(p) \in Nat
         /\ \A i \in 1 .. r : AndSetOf(p, i) + 1 \in 1 .. Len(tr) /\ AndSetOf(p, i) \in Nat
         /\ AndSetOf(p, r) + 1 = Len(tr) /\ AndSetOf(p, r) \in Nat
         /\ Len(tr) \in Nat \ {0} /\ Len(tr) \in 1 .. Len(tr)
  <1>1. p \in Seq(Tokens) /\ r \in 0 .. Len(p) /\ r < Len(p) /\ Len(tr) = AndSetOf(p, r) + 1
    BY DEF Ready
  <1>2. Len(p) \in Nat
    BY <1>1, LenProperties
  <1>3. Len(tr) \in Nat \ {0}
    BY TreeShape DEF Ready
  <1>4. r \in Nat /\ r + 1 \in 1 .. Len(p) /\ \A i \in 1 .. r : i \in 0 .. r
    BY <1>1, <1>2
  <1>5. r \in 0 .. r
    BY <1>4
  <1>6. /\ \A i \in 1 .. r : AndSetOf(p, i) + 1 \in 1 .. AndSetOf(p, r) + 1 /\ AndSetOf(p, i) \in Nat
        /\ AndSetOf(p, r) \in Nat
    BY <1>1, <1>4, <1>5, AlternativesRead, Zenon
  <1> QED  BY <1>1, <1>2, <1>3, <1>4, <1>6

LEMMA UpToNext ==
  ASSUME NEW r \in Nat
  PROVE  \A i \in 1 .. r + 1 : i \in 1 .. r \/ i = r + 1
  OBVIOUS

LEMMA InRange ==
  ASSUME NEW r \in Nat, NEW n \in Nat, r # 0, r < n
  PROVE  r \in 1 .. n /\ r > 0 /\ r \in 1 .. r
  OBVIOUS

LEMMA StartedStep ==
  ASSUME NEW p, NEW r, NEW tr, NEW tr2, Ready(p, r, tr), StartedInv(p, r, tr),
         \A n \in 1 .. Len(tr) : tr[n] # <<>> => tr2[n] # <<>>,
         p[r + 1] \in Tags \cup {"}"} => tr2[AndSetOf(p, r + 1) + 1] # <<>>
  PROVE  StartedInv(p, r + 1, tr2)
  <1>0. r \in Nat
    BY ReadyIndices, Zenon
  <1>1. \A i \in 1 .. r + 1 : i \in 1 .. r \/ i = r + 1
    BY <1>0, UpToNext, Zenon
  <1>2. \A i \in 1 .. r : AndSetOf(p, i) + 1 \in 1 .. Len(tr)
    BY ReadyIndices, Zenon
  <1> QED  BY <1>1, <1>2, Zenon DEF StartedInv

\* The same nodes, and perhaps an empty and_set.
SameNodes(tr, tr2) ==
    /\ Len(tr2) \in Nat /\ Len(tr) <= Len(tr2) /\ DOMAIN tr2 = 1 .. Len(tr2)
    /\ \A n \in 1 .. Len(tr) :
        /\ DOMAIN tr2[n] = DOMAIN tr[n]
        /\ \A k \in DOMAIN tr[n] : NodeTags(tr2[n][k]) = NodeTags(tr[n][k])
    /\ \A n \in 1 .. Len(tr2) : n \notin 1 .. Len(tr) => DOMAIN tr2[n] = {}

LEMMA NodesKept ==
  ASSUME NEW p, NEW r, NEW tr, NEW tr2, Ready(p, r, tr), NodesInv(p, r, tr), SameNodes(tr, tr2),
         Positive(p, r + 1) = Positive(p, r), ~(InGroup(p, r + 1) /\ p[r + 1] # "{")
  PROVE  NodesInv(p, r + 1, tr2)
  <1>1. PICK at \in [Positive(p, r) -> Nat] : Laid(p, r, tr, at)
    BY Zenon DEF NodesInv
  <1>2. \A i \in Positive(p, r) : AndSetOf(p, i) + 1 \in 1 .. Len(tr)
    BY ReadyIndices, Zenon DEF Positive, TagsRead
  <1>3. DOMAIN tr = 1 .. Len(tr) /\ DOMAIN tr2 = 1 .. Len(tr2)
    BY TreeShape, Zenon DEF Ready, SameNodes
  <1>4. Placed(p, r + 1, tr2, at)
    <2> SUFFICES ASSUME NEW i \in Positive(p, r)
                 PROVE  /\ at[i] \in DOMAIN tr2[AndSetOf(p, i) + 1]
                        /\ p[i] \in NodeTags(tr2[AndSetOf(p, i) + 1][at[i]])
      BY Zenon DEF Placed
    <2>1. /\ at[i] \in DOMAIN tr[AndSetOf(p, i) + 1]
          /\ p[i] \in NodeTags(tr[AndSetOf(p, i) + 1][at[i]])
      BY <1>1, Zenon DEF Laid, Placed
    <2> QED  BY <1>2, <2>1, Zenon DEF SameNodes
  <1>5. Covered(p, r + 1, tr2, at)
    <2> SUFFICES ASSUME NEW n \in DOMAIN tr2, NEW k \in DOMAIN tr2[n], NEW t \in NodeTags(tr2[n][k])
                 PROVE  \E i \in Positive(p, r + 1) : AndSetOf(p, i) = n - 1 /\ at[i] = k /\ p[i] = t
      BY Zenon DEF Covered
    <2>1. n \in 1 .. Len(tr)
      BY <1>3, Zenon DEF SameNodes
    <2>2. n \in DOMAIN tr /\ k \in DOMAIN tr[n] /\ t \in NodeTags(tr[n][k])
      BY <1>3, <2>1, Zenon DEF SameNodes
    <2>3. PICK i \in Positive(p, r) : AndSetOf(p, i) = n - 1 /\ at[i] = k /\ p[i] = t
      BY <1>1, <2>2, ZenonT(60) DEF Laid, Covered
    <2> QED  BY <2>3, Zenon
  <1>6. Grouped(p, r + 1, at) /\ OpenLast(p, r + 1, tr2, at)
    BY <1>1, Zenon DEF Laid, Grouped, OpenLast
  <1> QED  BY <1>1, <1>4, <1>5, <1>6, Zenon DEF NodesInv, Laid

\* Chains of negated tags: nothing new, or nothing in them.
NegatedKept(tr, tr2) ==
    \A n \in DOMAIN tr2 : \A k \in DOMAIN tr2[n] :
        \/ n \in DOMAIN tr /\ k \in DOMAIN tr[n] /\ tr2[n][k].negated = tr[n][k].negated
        \/ tr2[n][k].negated = <<>>

LEMMA NegatedStays ==
  ASSUME NEW p, NEW r, NEW tr, NEW tr2, Ready(p, r, tr), NegatedInv(p, r, tr), NegatedKept(tr, tr2)
  PROVE  NegatedInv(p, r + 1, tr2)
  <1>1. DOMAIN << >> = {}
    OBVIOUS
  <1>2. TagsRead(p, r) \subseteq TagsRead(p, r + 1)
    <2>1. 1 .. r \subseteq 1 .. r + 1
      BY ReadyIndices
    <2> QED  BY <2>1, Zenon DEF TagsRead
  <1> SUFFICES ASSUME NEW n \in DOMAIN tr2, NEW k \in DOMAIN tr2[n], NEW m \in DOMAIN tr2[n][k].negated
               PROVE  \E i \in TagsRead(p, r + 1) : /\ NegatedAt(p, i) /\ AndSetOf(p, i) = n - 1
                                                    /\ p[i] = tr2[n][k].negated[m]
    BY Zenon DEF NegatedInv
  <1>3. n \in DOMAIN tr /\ k \in DOMAIN tr[n] /\ tr2[n][k].negated = tr[n][k].negated
    BY <1>1, Zenon DEF NegatedKept
  <1>4. m \in DOMAIN tr[n][k].negated
    BY <1>3, Zenon
  <1>5. PICK i \in TagsRead(p, r) : /\ NegatedAt(p, i) /\ AndSetOf(p, i) = n - 1
                                    /\ p[i] = tr[n][k].negated[m]
    BY <1>3, <1>4, Zenon DEF NegatedInv
  <1> QED  BY <1>2, <1>3, <1>5, Zenon

\* The first negated tag of an and_set, once there is one, stays.
FirstKept(tr, tr2) ==
    \A n \in 1 .. Len(tr) : tr[n] # <<>> /\ tr[n][1].negated # <<>> =>
        tr2[n][1].negated # <<>> /\ tr2[n][1].negated[1] = tr[n][1].negated[1]

LEMMA FirstStays ==
  ASSUME NEW p, NEW r, NEW tr, NEW tr2, Ready(p, r, tr), StartedInv(p, r, tr), FirstInv(p, r, tr),
         FirstKept(tr, tr2)
  PROVE  \A i \in TagsRead(p, r) : SecondNegated(p, i) => FirstOfChain(p, i, tr2)
  <1> SUFFICES ASSUME NEW i \in TagsRead(p, r), SecondNegated(p, i)
               PROVE  FirstOfChain(p, i, tr2)
    OBVIOUS
  <1>1. i \in 1 .. r /\ p[i] \in Tags
    BY Zenon DEF TagsRead
  <1>2. AndSetOf(p, i) + 1 \in 1 .. Len(tr) /\ tr[AndSetOf(p, i) + 1] # <<>>
    BY <1>1, ReadyIndices, Zenon DEF StartedInv
  <1>3. FirstOfChain(p, i, tr)
    BY Zenon DEF FirstInv
  <1> QED  BY <1>2, <1>3, Zenon DEF FirstKept, FirstOfChain

-----------------------------------------------------------------------------
(* The tokens one by one                                                   *)

\* The situation before a token is read.
Before(p, r, tr, tg, neg) ==
    /\ p \in Seq(Tokens) /\ Described(p) /\ r \in 0 .. Len(p) /\ r < Len(p)
    /\ tr \in Trees /\ tr # <<>> /\ TreeInv(p, r, tr, tg, neg)

LEMMA IsReady ==
  ASSUME NEW p, NEW r, NEW tr, NEW tg, NEW neg, Before(p, r, tr, tg, neg)
  PROVE  /\ Ready(p, r, tr) /\ p \in Seq(Tokens) /\ Described(p) /\ r \in 0 .. Len(p) /\ r < Len(p)
         /\ tr \in Trees /\ tr # <<>> /\ r \in Nat /\ r + 1 \in 1 .. Len(p) /\ r + 1 \in Nat
         /\ Len(p) \in Nat
         /\ FlagsInv(p, r, tr, tg, neg) /\ StartedInv(p, r, tr) /\ NodesInv(p, r, tr)
         /\ NegatedInv(p, r, tr) /\ FirstInv(p, r, tr)
  <1>1. Ready(p, r, tr)
    BY Zenon DEF Before, Ready, TreeInv, FlagsInv
  <1>2. r \in Nat /\ r + 1 \in 1 .. Len(p) /\ Len(p) \in Nat
    BY <1>1, ReadyIndices, Zenon
  <1>3. r + 1 \in Nat
    BY <1>2
  <1> QED  BY <1>1, <1>2, <1>3, Zenon DEF Before, TreeInv

LEMMA SignsAreNoTags == "+" \notin Tags /\ "-" \notin Tags /\ "{" \notin Tags /\ "}" \notin Tags
  BY TokensAssumption, Zenon

\* A tree that stays the same.
LEMMA SameTree ==
  ASSUME NEW tr \in Trees, tr # <<>>
  PROVE  SameNodes(tr, tr) /\ NegatedKept(tr, tr) /\ FirstKept(tr, tr)
  <1>1. SameNodes(tr, tr)
    <2>1. Len(tr) \in Nat /\ DOMAIN tr = 1 .. Len(tr)
      BY TreeShape, Zenon
    <2>2. Len(tr) <= Len(tr)
      BY <2>1
    <2> QED  BY <2>1, <2>2, Zenon DEF SameNodes
  <1> QED  BY <1>1, Zenon DEF NegatedKept, FirstKept

\* After a token that is no tag there is no "-" pending.
LEMMA NoPending ==
  ASSUME NEW p, NEW r, NEW tr, NEW tg, NEW neg, Before(p, r, tr, tg, neg), p[r + 1] \notin Tags
  PROVE  ~neg /\ (r > 0 => p[r] \in Tags \cup {"+", "}"})
  <1>1. r > 0 => p[r] \in Tags \cup {"+", "}"}
    BY IsReady, BeforeNoTag, Zenon
  <1>2. r > 0 => p[r] # "-"
    BY <1>1, SignsAreNoTags, Zenon
  <1> QED  BY <1>1, <1>2, IsReady, Zenon DEF FlagsInv

\* The first conjuncts of FirstInv, for a token that cannot start anything.
LEMMA FirstAfter ==
  ASSUME NEW p, NEW r, NEW tr, NEW tr2, NEW tg, NEW neg, Before(p, r, tr, tg, neg),
         FirstKept(tr, tr2), p[r + 1] = "+" => tr2[Len(tr2)] = <<>>,
         p[r + 1] \in Tags /\ Starts(p, r + 1) => Fresh(tr2[Len(tr2)]),
         p[r + 1] = "-" /\ Starts(p, r) => Fresh(tr2[Len(tr2)]),
         ~(p[r + 1] \in Tags /\ NegatedAt(p, r + 1))
  PROVE  FirstInv(p, r + 1, tr2)
  <1>1. r \in Nat /\ r + 1 > 0 /\ r + 1 # 0 /\ (r + 1) - 1 = r
    <2>1. r \in Nat
      BY IsReady, Zenon
    <2> QED  BY <2>1
  <1>2. \A i \in TagsRead(p, r + 1) : SecondNegated(p, i) => i \in TagsRead(p, r)
    <2>1. \A i \in 1 .. r + 1 : i \in 1 .. r \/ i = r + 1
      BY <1>1, UpToNext, Zenon
    <2> QED  BY <2>1, Zenon DEF TagsRead, SecondNegated
  <1>3. Ready(p, r, tr) /\ StartedInv(p, r, tr) /\ FirstInv(p, r, tr)
    BY IsReady, Zenon
  <1>4. \A i \in TagsRead(p, r) : SecondNegated(p, i) => FirstOfChain(p, i, tr2)
    BY <1>3, FirstStays, Zenon
  <1> QED  BY <1>1, <1>2, <1>4, Zenon DEF FirstInv

\* "-": no group is open and no other "-" is pending, so it is taken.
LEMMA NegateStep ==
  ASSUME NEW p, NEW r, NEW tr, NEW tg, NEW neg, Before(p, r, tr, tg, neg), p[r + 1] = "-"
  PROVE  ~neg /\ tg = "dont_add" /\ TreeInv(p, r + 1, tr, tg, TRUE)
  <1>1. Len(tr) = AndSetOf(p, r) + 1 /\ ~neg
    <2>1. ~neg
      BY SignsAreNoTags, NoPending, Zenon
    <2> QED  BY <2>1, IsReady, Zenon DEF FlagsInv
  <1>2. AndSetOf(p, r + 1) = AndSetOf(p, r) /\ (InGroup(p, r + 1) <=> InGroup(p, r))
    BY IsReady, NextCounts, Zenon
  <1>3. ~InGroup(p, r + 1) /\ r + 1 > 1 /\ p[(r + 1) - 1] # "+"
    BY IsReady, Syntax, Zenon
  <1>4. r \in Nat /\ r > 0 /\ (r + 1) - 1 = r /\ r + 1 > 0 /\ r \in 1 .. Len(p)
    <2>1. r \in Nat /\ r + 1 \in 1 .. Len(p) /\ r + 1 > 1
      BY <1>3, IsReady, Zenon
    <2> QED  BY <2>1
  <1>5. FlagsInv(p, r + 1, tr, tg, TRUE) /\ tg = "dont_add"
    BY <1>1, <1>2, <1>3, <1>4, IsReady, Zenon DEF FlagsInv
  <1>6. StartedInv(p, r + 1, tr)
    BY IsReady, StartedStep, SignsAreNoTags, Zenon
  <1>7. NodesInv(p, r + 1, tr)
    <2>1. Positive(p, r + 1) = Positive(p, r)
      BY IsReady, OneMoreRead, SignsAreNoTags, Zenon
    <2> QED  BY <1>3, <2>1, IsReady, SameTree, NodesKept, Zenon
  <1>8. NegatedInv(p, r + 1, tr)
    BY IsReady, SameTree, NegatedStays, Zenon
  <1>9. FirstInv(p, r + 1, tr)
    <2>1. ASSUME Starts(p, r)
          PROVE  Fresh(tr[Len(tr)])
      <3>1. p[r] \in Tags \cup {"}"}
        BY <1>3, <1>4, SignsAreNoTags, NoPending, Zenon
      <3>2. p[r] # "}"
        <4>1. SUFFICES ASSUME p[r] = "}" PROVE FALSE
          OBVIOUS
        <4>2. InGroup(p, r - 1) /\ r > 1
          BY <1>4, <4>1, IsReady, Syntax, Zenon
        <4>3. r - 1 \in 1 .. Len(p) /\ r # 1
          BY <1>4, <4>2
        <4>4. p[r - 1] = "+"
          BY <2>1, <4>3, Zenon DEF Starts
        <4> QED  BY <4>2, <4>3, <4>4, IsReady, Syntax, Zenon
      <3> QED  BY <1>4, <2>1, <3>1, <3>2, IsReady, Zenon DEF FirstInv
    <2> QED  BY <2>1, IsReady, SameTree, FirstAfter, SignsAreNoTags, Zenon
  <1> QED  BY <1>1, <1>5, <1>6, <1>7, <1>8, <1>9, Zenon DEF TreeInv

\* "+": no group is open, and the new and_set is empty.
LEMMA NewAndSetStep ==
  ASSUME NEW p, NEW r, NEW tr, NEW tg, NEW neg, Before(p, r, tr, tg, neg), p[r + 1] = "+",
         NEW tr2, tr2 = Append(tr, <<>>)
  PROVE  tr2 \in Trees /\ tr2 # <<>> /\ TreeInv(p, r + 1, tr2, tg, neg)
  <1>1. Len(tr) = AndSetOf(p, r) + 1 /\ ~neg
    <2>1. ~neg
      BY SignsAreNoTags, NoPending, Zenon
    <2> QED  BY <2>1, IsReady, Zenon DEF FlagsInv
  <1>2. AndSetOf(p, r + 1) = AndSetOf(p, r) + 1 /\ (InGroup(p, r + 1) <=> InGroup(p, r))
    BY IsReady, NextCounts, Zenon
  <1>3. ~InGroup(p, r + 1)
    BY IsReady, Syntax, Zenon
  <1>4. /\ tr2 \in Trees /\ tr2 # <<>> /\ Len(tr2) = Len(tr) + 1 /\ tr2[Len(tr) + 1] = <<>>
        /\ \A n \in 1 .. Len(tr) : tr2[n] = tr[n]
    <2>1. tr \in Trees /\ tr # <<>>
      BY IsReady, Zenon
    <2> QED  BY <2>1, NewOr, Zenon
  <1>5. FlagsInv(p, r + 1, tr2, tg, neg)
    BY <1>1, <1>2, <1>3, <1>4, IsReady, Zenon DEF FlagsInv
  <1>6. StartedInv(p, r + 1, tr2)
    BY <1>4, IsReady, StartedStep, SignsAreNoTags, Zenon
  <1>7. SameNodes(tr, tr2) /\ NegatedKept(tr, tr2) /\ FirstKept(tr, tr2)
    <2>1. /\ Len(tr) \in Nat /\ DOMAIN tr = 1 .. Len(tr) /\ Len(tr2) \in Nat /\ DOMAIN tr2 = 1 .. Len(tr2)
          /\ DOMAIN << >> = {}
      <3>1. DOMAIN << >> = {}
        OBVIOUS
      <3>2. tr \in Trees /\ tr # <<>>
        BY IsReady, Zenon
      <3> QED  BY <1>4, <3>1, <3>2, TreeShape, Zenon
    <2>2. Len(tr) <= Len(tr2) /\ \A n \in 1 .. Len(tr2) : n \in 1 .. Len(tr) \/ n = Len(tr) + 1
      BY <1>4, <2>1
    <2>3. \A n \in 1 .. Len(tr2) : n \notin 1 .. Len(tr) => DOMAIN tr2[n] = {}
      BY <1>4, <2>1, <2>2, Zenon
    <2>4. SameNodes(tr, tr2)
      BY <1>4, <2>1, <2>2, <2>3, Zenon DEF SameNodes
    <2>5. NegatedKept(tr, tr2)
      BY <1>4, <2>1, <2>3, Zenon DEF NegatedKept
    <2> QED  BY <1>4, <2>4, <2>5, Zenon DEF FirstKept
  <1>8. NodesInv(p, r + 1, tr2)
    <2>1. Positive(p, r + 1) = Positive(p, r)
      BY IsReady, OneMoreRead, SignsAreNoTags, Zenon
    <2> QED  BY <1>3, <1>7, <2>1, IsReady, NodesKept, Zenon
  <1>9. NegatedInv(p, r + 1, tr2)
    BY <1>7, IsReady, NegatedStays, Zenon
  <1>10. FirstInv(p, r + 1, tr2)
    BY <1>4, <1>7, IsReady, FirstAfter, SignsAreNoTags, Zenon
  <1> QED  BY <1>4, <1>5, <1>6, <1>8, <1>9, <1>10, Zenon DEF TreeInv

\* "{" and "}": groups do not nest, and one that ends has a tag.
LEMMA GroupBeginStep ==
  ASSUME NEW p, NEW r, NEW tr, NEW tg, NEW neg, Before(p, r, tr, tg, neg), p[r + 1] = "{"
  PROVE  tg = "dont_add" /\ TreeInv(p, r + 1, tr, "add_new", neg)
  <1>1. Len(tr) = AndSetOf(p, r) + 1 /\ ~neg
    <2>1. ~neg
      BY SignsAreNoTags, NoPending, Zenon
    <2> QED  BY <2>1, IsReady, Zenon DEF FlagsInv
  <1>2. AndSetOf(p, r + 1) = AndSetOf(p, r) /\ InGroup(p, r + 1) /\ ~InGroup(p, r)
    BY IsReady, NextCounts, Zenon
  <1>3. FlagsInv(p, r + 1, tr, "add_new", neg) /\ tg = "dont_add"
    BY <1>1, <1>2, IsReady, Zenon DEF FlagsInv
  <1>4. StartedInv(p, r + 1, tr)
    BY IsReady, StartedStep, SignsAreNoTags, Zenon
  <1>5. NodesInv(p, r + 1, tr)
    <2>1. Positive(p, r + 1) = Positive(p, r)
      BY IsReady, OneMoreRead, SignsAreNoTags, Zenon
    <2> QED  BY <2>1, IsReady, SameTree, NodesKept, Zenon
  <1>6. NegatedInv(p, r + 1, tr)
    BY IsReady, SameTree, NegatedStays, Zenon
  <1>7. FirstInv(p, r + 1, tr)
    BY IsReady, SameTree, FirstAfter, SignsAreNoTags, Zenon
  <1> QED  BY <1>3, <1>4, <1>5, <1>6, <1>7, Zenon DEF TreeInv

LEMMA GroupEndStep ==
  ASSUME NEW p, NEW r, NEW tr, NEW tg, NEW neg, Before(p, r, tr, tg, neg), p[r + 1] = "}"
  PROVE  tg # "dont_add" /\ TreeInv(p, r + 1, tr, "dont_add", neg)
  <1>1. Len(tr) = AndSetOf(p, r) + 1 /\ ~neg
    <2>1. ~neg
      BY SignsAreNoTags, NoPending, Zenon
    <2> QED  BY <2>1, IsReady, Zenon DEF FlagsInv
  <1>2. AndSetOf(p, r + 1) = AndSetOf(p, r) /\ ~InGroup(p, r + 1) /\ InGroup(p, r)
    BY IsReady, NextCounts, Zenon
  <1>3. FlagsInv(p, r + 1, tr, "dont_add", neg) /\ tg # "dont_add"
    BY <1>1, <1>2, IsReady, Zenon DEF FlagsInv
  <1>4. p[r] \in Tags /\ r \in 1 .. r
    <2>1. ~InGroup(p, 0)
      BY NoGroupAtFirst, Zenon
    <2>2. r \in Nat /\ r # 0 /\ r < Len(p) /\ Len(p) \in Nat
      BY <1>2, <2>1, IsReady, Zenon
    <2>3. r \in 1 .. Len(p) /\ r > 0 /\ r \in 1 .. r
      BY <2>2, InRange, Zenon
    <2>4. p[r] # "+" /\ p[r] # "}"
      BY <1>2, <2>3, IsReady, Syntax, Zenon
    <2> QED  BY <2>3, <2>4, NoPending, SignsAreNoTags, Zenon
  <1>5. StartedInv(p, r + 1, tr)
    <2>1. tr[AndSetOf(p, r + 1) + 1] # <<>>
      BY <1>2, <1>4, IsReady, Zenon DEF StartedInv
    <2> QED  BY <2>1, IsReady, StartedStep, Zenon
  <1>6. NodesInv(p, r + 1, tr)
    <2>1. Positive(p, r + 1) = Positive(p, r)
      BY IsReady, OneMoreRead, SignsAreNoTags, Zenon
    <2>2. ~(InGroup(p, r + 1) /\ p[r + 1] # "{")
      BY <1>2, Zenon
    <2> QED  BY <2>1, <2>2, IsReady, SameTree, NodesKept, Zenon
  <1>7. NegatedInv(p, r + 1, tr)
    BY IsReady, SameTree, NegatedStays, Zenon
  <1>8. FirstInv(p, r + 1, tr)
    BY IsReady, SameTree, FirstAfter, SignsAreNoTags, Zenon
  <1> QED  BY <1>3, <1>5, <1>6, <1>7, <1>8, Zenon DEF TreeInv

\* A node with one more negated, or one more related, tag.
WithNegated(and, t) == [and EXCEPT !.negated = Append(@, t)]
WithRelated(and, t) == [and EXCEPT !.related = Append(@, t)]

LEMMA OneMoreNegated ==
  ASSUME NEW and \in Nodes, NEW t \in Tags
  PROVE  /\ WithNegated(and, t) \in Nodes /\ NodeTags(WithNegated(and, t)) = NodeTags(and)
         /\ and.negated \in Seq(Tags) /\ WithNegated(and, t).negated \in Seq(Tags)
         /\ WithNegated(and, t).negated # <<>>
         /\ Len(WithNegated(and, t).negated) = Len(and.negated) + 1
         /\ \A m \in 1 .. Len(and.negated) : WithNegated(and, t).negated[m] = and.negated[m]
         /\ WithNegated(and, t).negated[Len(and.negated) + 1] = t
  <1>1. and.negated \in Seq(Tags)
    BY DEF Nodes
  <1>2. /\ WithNegated(and, t).negated = Append(and.negated, t)
        /\ WithNegated(and, t).tag = and.tag /\ WithNegated(and, t).related = and.related
    BY DEF Nodes, WithNegated
  <1>3. /\ Append(and.negated, t) \in Seq(Tags) /\ Append(and.negated, t) # <<>>
        /\ Len(Append(and.negated, t)) = Len(and.negated) + 1
        /\ \A m \in 1 .. Len(and.negated) : Append(and.negated, t)[m] = and.negated[m]
        /\ Append(and.negated, t)[Len(and.negated) + 1] = t
    BY <1>1, AppendProperties
  <1>4. WithNegated(and, t) \in Nodes
    BY <1>3 DEF Nodes, WithNegated
  <1> QED  BY <1>1, <1>2, <1>3, <1>4, Zenon DEF NodeTags

LEMMA OneMoreRelated ==
  ASSUME NEW and \in Nodes, NEW t \in Tags
  PROVE  /\ WithRelated(and, t) \in Nodes /\ NodeTags(WithRelated(and, t)) = NodeTags(and) \cup {t}
         /\ WithRelated(and, t).negated = and.negated
  <1>1. and.related \in Seq(Tags)
    BY DEF Nodes
  <1>2. /\ WithRelated(and, t).related = Append(and.related, t)
        /\ WithRelated(and, t).tag = and.tag /\ WithRelated(and, t).negated = and.negated
    BY DEF Nodes, WithRelated
  <1> DEFINE old == and.related
             new == Append(and.related, t)
  <1>3. /\ new \in Seq(Tags) /\ Len(new) = Len(old) + 1 /\ new[Len(old) + 1] = t
        /\ \A m \in 1 .. Len(old) : new[m] = old[m]
    BY <1>1, AppendProperties
  <1>4. WithRelated(and, t) \in Nodes
    BY <1>3 DEF Nodes, WithRelated
  <1>5. /\ DOMAIN old = 1 .. Len(old) /\ DOMAIN new = 1 .. Len(new) /\ Len(old) \in Nat
    BY <1>1, <1>3, LenProperties
  <1> HIDE DEF old, new
  <1>6. {new[m] : m \in DOMAIN new} = {old[m] : m \in DOMAIN old} \cup {t}
    <2>1. DOMAIN new = DOMAIN old \cup {Len(old) + 1}
      BY <1>3, <1>5
    <2>2. \A m \in DOMAIN old : new[m] = old[m]
      BY <1>3, <1>5, Zenon
    <2>3. new[Len(old) + 1] = t
      BY <1>3, Zenon
    <2> QED  BY <2>1, <2>2, <2>3
  <1>7. /\ NodeTags(and) = {and.tag} \cup {old[m] : m \in DOMAIN old}
        /\ NodeTags(WithRelated(and, t)) = {and.tag} \cup {new[m] : m \in DOMAIN new}
    BY <1>2, Zenon DEF NodeTags, old, new
  <1> QED  BY <1>2, <1>4, <1>6, <1>7, Zenon

\* A "-" has a node to hang its tag from.
LEMMA NegationHasNode ==
  ASSUME NEW p, NEW r, NEW tr, NEW tg, NEW neg, Before(p, r, tr, tg, neg), neg
  PROVE  tr[Len(tr)] # <<>> /\ p[r] = "-" /\ r > 1 /\ r \in 1 .. Len(p) /\ ~InGroup(p, r)
  <1>1. p[r] = "-" /\ r > 0 /\ r \in Nat /\ Len(p) \in Nat /\ r < Len(p)
    BY IsReady, Zenon DEF FlagsInv
  <1>2. r \in 1 .. Len(p)
    BY <1>1
  <1>3. r > 1 /\ p[r - 1] # "+" /\ ~InGroup(p, r)
    BY <1>1, <1>2, IsReady, Syntax, Zenon
  <1>4. PICK q \in 1 .. r : r = q + 1 /\ r - 1 = q /\ q < Len(p) /\ q \in 0 .. Len(p) /\ q > 0
    BY <1>1, <1>3
  <1>5. p[q] \in Tags \cup {"}"}
    BY <1>1, <1>3, <1>4, IsReady, BeforeNoTag, SignsAreNoTags, Zenon
  <1>6. tr[AndSetOf(p, q) + 1] # <<>>
    BY <1>4, <1>5, IsReady, Zenon DEF StartedInv
  <1>7. AndSetOf(p, r) = AndSetOf(p, q)
    BY <1>1, <1>4, IsReady, NextCounts, Zenon
  <1> QED  BY <1>1, <1>2, <1>3, <1>6, <1>7, IsReady, Zenon DEF FlagsInv

\* Node M of and_set L, the last ones, was old and is new; the rest of the
\* tree is as it was.
Replaced(tr, tr2, L, M, old, new) ==
    /\ tr2 \in Trees /\ tr2 # <<>> /\ Len(tr2) = L /\ old \in Nodes
    /\ DOMAIN tr2 = 1 .. L /\ DOMAIN tr = 1 .. L /\ L \in 1 .. L /\ L \in Nat /\ M \in Nat
    /\ \A n \in 1 .. L :
        /\ DOMAIN tr2[n] = DOMAIN tr[n] /\ DOMAIN tr[n] = 1 .. Len(tr[n])
        /\ tr[n] # <<>> <=> Len(tr[n]) > 0
        /\ tr[n] # <<>> => tr2[n] # <<>>
        /\ \A k \in DOMAIN tr[n] :
            \/ tr2[n][k] = tr[n][k] /\ ~(n = L /\ k = M)
            \/ n = L /\ k = M /\ tr2[n][k] = new /\ tr[n][k] = old
    /\ tr2[L][M] = new /\ Len(tr2[L]) = M /\ M \in DOMAIN tr[L]

LEMMA NodeReplaced ==
  ASSUME NEW tr \in Trees, tr # <<>>, tr[Len(tr)] # <<>>, NEW and \in Nodes, NEW tr2,
         tr2 = WithLastNode(tr, and)
  PROVE  Replaced(tr, tr2, Len(tr), Len(tr[Len(tr)]), LastNode(tr), and)
  <1> DEFINE L == Len(tr)
             M == Len(tr[L])
  <1>1. /\ L \in Nat \ {0} /\ DOMAIN tr = 1 .. L
        /\ \A n \in 1 .. L : /\ Len(tr[n]) \in Nat /\ DOMAIN tr[n] = 1 .. Len(tr[n])
                             /\ tr[n] # <<>> <=> Len(tr[n]) > 0
                             /\ \A k \in 1 .. Len(tr[n]) : tr[n][k] \in Nodes
    BY TreeShape, Zenon
  <1>2. L \in 1 .. L /\ L \in Nat
    BY <1>1
  <1>3. M \in Nat /\ M > 0 /\ DOMAIN tr[L] = 1 .. M
    BY <1>1, <1>2, Zenon
  <1>4. M \in 1 .. M
    BY <1>3
  <1>5. LastNode(tr) \in Nodes /\ LastNode(tr) = tr[L][M]
    BY <1>1, <1>2, <1>4, Zenon DEF LastNode
  <1>6. /\ tr2 \in Trees /\ tr2 # <<>> /\ Len(tr2) = L
        /\ \A n \in 1 .. L : n # L => tr2[n] = tr[n]
        /\ Len(tr2[L]) = M
        /\ \A k \in 1 .. M : tr2[L][k] = IF k = M THEN and ELSE tr[L][k]
    BY LastReplaced
  <1>7. /\ DOMAIN tr2 = 1 .. L
        /\ \A n \in 1 .. L : DOMAIN tr2[n] = 1 .. Len(tr2[n]) /\ (tr2[n] # <<>> <=> Len(tr2[n]) > 0)
    BY <1>6, TreeShape, Zenon
  <1>8. \A n \in 1 .. L : DOMAIN tr2[n] = DOMAIN tr[n] /\ (tr[n] # <<>> => tr2[n] # <<>>)
    BY <1>1, <1>2, <1>3, <1>6, <1>7, ZenonT(60)
  <1>9. ASSUME NEW n \in 1 .. L, NEW k \in DOMAIN tr[n]
        PROVE  \/ tr2[n][k] = tr[n][k] /\ ~(n = L /\ k = M)
               \/ n = L /\ k = M /\ tr2[n][k] = and /\ tr[n][k] = LastNode(tr)
    <2>1. CASE n # L
      BY <1>6, <2>1, Zenon
    <2>2. CASE n = L
      <3>1. k \in 1 .. M
        BY <1>3, <1>9, <2>2, Zenon
      <3> QED  BY <1>5, <1>6, <2>2, <3>1, Zenon
    <2> QED  BY <2>1, <2>2
  <1>10. tr2[L][M] = and
    BY <1>4, <1>6, Zenon
  <1> HIDE DEF L, M
  <1>11. Replaced(tr, tr2, L, M, LastNode(tr), and)
    BY <1>1, <1>2, <1>3, <1>4, <1>5, <1>6, <1>7, <1>8, <1>9, <1>10, ZenonT(60) DEF Replaced
  <1> QED  BY <1>11, Zenon DEF L, M

\* A tag after "-" goes to the end of a chain, and if it is the second tag of
\* its alternative it is the first of the chain the lookup reads.
LEMMA NegatedTagStep ==
  ASSUME NEW p, NEW r, NEW tr, NEW tg, NEW neg, Before(p, r, tr, tg, neg), neg,
         p[r + 1] \in Tags, NEW tr2, tr2 = WithLastNode(tr, WithNegated(LastNode(tr), p[r + 1]))
  PROVE  /\ tr[Len(tr)] # <<>> /\ tg = "dont_add" /\ tr2 \in Trees /\ tr2 # <<>>
         /\ TreeInv(p, r + 1, tr2, tg, FALSE)
  <1> DEFINE t == p[r + 1]
             L == Len(tr)
             M == Len(tr[L])
             old == LastNode(tr)
             new == WithNegated(old, t)
  <1>0. /\ Ready(p, r, tr) /\ p \in Seq(Tokens) /\ Described(p) /\ r \in 0 .. Len(p) /\ r < Len(p)
        /\ tr \in Trees /\ tr # <<>> /\ r \in Nat /\ r + 1 \in 1 .. Len(p) /\ r + 1 \in Nat
        /\ FlagsInv(p, r, tr, tg, neg) /\ StartedInv(p, r, tr) /\ NodesInv(p, r, tr)
        /\ NegatedInv(p, r, tr) /\ FirstInv(p, r, tr)
    BY IsReady, Zenon
  <1>1. /\ tr[L] # <<>> /\ p[r] = "-" /\ r > 1 /\ r \in 1 .. Len(p) /\ ~InGroup(p, r)
        /\ r \in Nat /\ tr \in Trees /\ tr # <<>>
    BY NegationHasNode, <1>0, Zenon
  <1>2. t # "+" /\ t # "-" /\ t # "{" /\ t # "}"
    BY SignsAreNoTags, Zenon
  <1>3. /\ AndSetOf(p, r + 1) = AndSetOf(p, r) /\ (InGroup(p, r + 1) <=> InGroup(p, r))
        /\ L = AndSetOf(p, r) + 1
    <2>1. L = AndSetOf(p, r) + 1
      BY <1>0, Zenon DEF FlagsInv
    <2> QED  BY <1>0, <1>2, <2>1, NextCounts, Zenon
  <1>4. tg = "dont_add"
    BY <1>1, <1>0, Zenon DEF FlagsInv
  <1>5. (r + 1) - 1 = r /\ r + 1 > 1 /\ r + 1 # 1 /\ r + 1 # 0 /\ r + 1 > 0 /\ r + 1 > 2 /\ (r + 1) - 2 = r - 1
    BY <1>1
  <1>6. NegatedAt(p, r + 1)
    BY <1>1, <1>5, Zenon DEF NegatedAt
  <1>7. old \in Nodes
    <2>1. /\ L \in 1 .. L
          /\ \A n \in 1 .. L : /\ Len(tr[n]) \in Nat /\ (tr[n] # <<>> <=> Len(tr[n]) > 0)
                               /\ \A k \in 1 .. Len(tr[n]) : tr[n][k] \in Nodes
      BY <1>1, <1>0, ReadyIndices, TreeShape, Zenon
    <2>2. M \in Nat /\ M > 0
      BY <1>1, <2>1, Zenon
    <2>3. M \in 1 .. M
      BY <2>2
    <2> QED  BY <2>1, <2>3, Zenon DEF LastNode
  <1>8. /\ new \in Nodes /\ NodeTags(new) = NodeTags(old) /\ old.negated \in Seq(Tags) /\ new.negated \in Seq(Tags)
        /\ new.negated # <<>> /\ Len(new.negated) = Len(old.negated) + 1
        /\ \A m \in 1 .. Len(old.negated) : new.negated[m] = old.negated[m]
        /\ new.negated[Len(old.negated) + 1] = t
    BY <1>7, OneMoreNegated, Zenon
  <1>9. /\ DOMAIN old.negated = 1 .. Len(old.negated) /\ Len(old.negated) \in Nat
        /\ DOMAIN new.negated = 1 .. Len(old.negated) + 1
    BY <1>8, LenProperties
  <1> HIDE DEF t, L, M, old, new
  <1>16. Replaced(tr, tr2, L, M, old, new)
    <2>1. /\ tr2 = WithLastNode(tr, new) /\ new \in Nodes /\ tr[Len(tr)] # <<>>
          /\ tr \in Trees /\ tr # <<>>
      BY <1>1, <1>8, Zenon DEF t, L, old, new
    <2> QED  BY <2>1, NodeReplaced, Zenon DEF L, M, old
  <1>10. /\ tr2 \in Trees /\ tr2 # <<>> /\ Len(tr2) = L
         /\ DOMAIN tr2 = 1 .. L /\ DOMAIN tr = 1 .. L /\ L \in 1 .. L /\ L \in Nat /\ M \in Nat
         /\ \A n \in 1 .. L :
              /\ DOMAIN tr2[n] = DOMAIN tr[n] /\ DOMAIN tr[n] = 1 .. Len(tr[n])
              /\ tr[n] # <<>> <=> Len(tr[n]) > 0
              /\ tr[n] # <<>> => tr2[n] # <<>>
              /\ \A k \in DOMAIN tr[n] :
                   \/ tr2[n][k] = tr[n][k] /\ ~(n = L /\ k = M)
                   \/ n = L /\ k = M /\ tr2[n][k] = new /\ tr[n][k] = old
         /\ tr2[L][M] = new /\ Len(tr2[L]) = M /\ M \in DOMAIN tr[L]
    BY <1>16, Zenon DEF Replaced
  <1>11. FlagsInv(p, r + 1, tr2, tg, FALSE)
    BY <1>1, <1>2, <1>3, <1>4, <1>10, Zenon DEF FlagsInv, t
  <1>12. StartedInv(p, r + 1, tr2)
    <2>1. tr2[AndSetOf(p, r + 1) + 1] # <<>>
      BY <1>1, <1>3, <1>10, Zenon
    <2>2. \A n \in 1 .. Len(tr) : tr[n] # <<>> => tr2[n] # <<>>
      BY <1>10, Zenon DEF L
    <2> QED  BY <1>0, <2>1, <2>2, StartedStep, Zenon
  <1>13. NodesInv(p, r + 1, tr2)
    <2>1. Positive(p, r + 1) = Positive(p, r)
      BY <1>6, <1>0, OneMoreRead, Zenon
    <2>2. L <= L
      BY <1>10
    <2>3. SameNodes(tr, tr2)
      BY <1>8, <1>10, <2>2, Zenon DEF SameNodes, L
    <2> QED  BY <1>1, <1>3, <2>1, <2>3, <1>0, NodesKept, Zenon
  <1>14. NegatedInv(p, r + 1, tr2)
    <2> SUFFICES ASSUME NEW n \in DOMAIN tr2, NEW k \in DOMAIN tr2[n], NEW m \in DOMAIN tr2[n][k].negated
                 PROVE  \E i \in TagsRead(p, r + 1) :
                            NegatedAt(p, i) /\ AndSetOf(p, i) = n - 1 /\ p[i] = tr2[n][k].negated[m]
      BY Zenon DEF NegatedInv
    <2>1. n \in DOMAIN tr /\ k \in DOMAIN tr[n]
      BY <1>10, Zenon
    <2>2. TagsRead(p, r + 1) = TagsRead(p, r) \cup {r + 1}
      BY <1>0, OneMoreRead, Zenon
    <2>3. CASE m \in DOMAIN tr[n][k].negated /\ tr2[n][k].negated[m] = tr[n][k].negated[m]
      <3>1. PICK i \in TagsRead(p, r) :
              NegatedAt(p, i) /\ AndSetOf(p, i) = n - 1 /\ p[i] = tr[n][k].negated[m]
        <4>1. NegatedInv(p, r, tr)
          BY <1>0, Zenon
        <4> QED  BY <2>1, <2>3, <4>1, Zenon DEF NegatedInv
      <3> QED  BY <2>2, <2>3, <3>1, Zenon
    <2>4. CASE n = L /\ tr2[n][k].negated[m] = t
      <3>1. AndSetOf(p, r + 1) = n - 1
        <4>1. AndSetOf(p, r) \in Nat
          BY <1>0, ReadyIndices, Zenon
        <4> QED  BY <1>3, <2>4, <4>1
      <3> QED  BY <1>6, <2>2, <2>4, <3>1, Zenon DEF t
    <2>5. \A x \in DOMAIN new.negated : x \in DOMAIN old.negated \/ x = Len(old.negated) + 1
      BY <1>9
    <2>6. \/ tr2[n][k] = tr[n][k]
          \/ n = L /\ tr2[n][k] = new /\ tr[n][k] = old
      <3>1. n \in 1 .. L
        BY <1>10, Zenon
      <3> QED  BY <1>10, <2>1, <3>1, ZenonT(60)
    <2> QED  BY <1>8, <1>9, <2>3, <2>4, <2>5, <2>6, Zenon
  <1>15. FirstInv(p, r + 1, tr2)
    <2>1. FirstKept(tr, tr2)
      <3> SUFFICES ASSUME NEW n \in 1 .. Len(tr), tr[n] # <<>>, tr[n][1].negated # <<>>
                   PROVE  tr2[n][1].negated # <<>> /\ tr2[n][1].negated[1] = tr[n][1].negated[1]
        BY Zenon DEF FirstKept
      <3>1. Len(tr[n]) > 0 /\ DOMAIN tr[n] = 1 .. Len(tr[n]) /\ Len(tr[n]) \in Nat
        BY <1>1, <1>10, TreeShape, Zenon DEF L
      <3>2. 1 \in DOMAIN tr[n]
        BY <3>1
      <3>3. CASE tr2[n][1] = tr[n][1]
        BY <3>3, Zenon
      <3>4. CASE tr2[n][1] = new /\ tr[n][1] = old
        <4>1. old.negated # <<>>
          BY <3>4, Zenon
        <4>2. 1 \in 1 .. Len(old.negated)
          BY <1>8, <1>9, <4>1, EmptySeq
        <4> QED  BY <1>8, <3>4, <4>2, Zenon
      <3> QED  BY <1>10, <3>2, <3>3, <3>4, Zenon DEF L
    <2>2. \A i \in TagsRead(p, r) : SecondNegated(p, i) => FirstOfChain(p, i, tr2)
      BY <2>1, <1>0, FirstStays, Zenon
    <2>3. SecondNegated(p, r + 1) => FirstOfChain(p, r + 1, tr2)
      <3> SUFFICES ASSUME SecondNegated(p, r + 1)
                   PROVE  FirstOfChain(p, r + 1, tr2)
        OBVIOUS
      <3>1. Starts(p, r - 1)
        BY <1>5, Zenon DEF SecondNegated
      <3>2. Fresh(tr[L])
        BY <1>1, <3>1, <1>0, Zenon DEF FirstInv, L
      <3>3. M = 1 /\ old.negated = <<>>
        BY <3>2, Zenon DEF Fresh, M, old, LastNode, L
      <3>4. Len(old.negated) + 1 = 1
        BY <3>3
      <3>5. tr2[AndSetOf(p, r + 1) + 1][1] = new
        BY <1>3, <1>10, <3>3, Zenon
      <3> QED  BY <1>8, <3>3, <3>4, <3>5, Zenon DEF FirstOfChain, t
    <2>4. \A i \in TagsRead(p, r + 1) : i \in TagsRead(p, r) \/ i = r + 1
      BY <1>0, OneMoreRead, ZenonT(60)
    <2>5. ~Starts(p, r + 1)
      BY <1>1, <1>5, Zenon DEF Starts
    <2> QED  BY <1>2, <1>5, <2>2, <2>3, <2>4, <2>5, Zenon DEF FirstInv, t
  <1> QED  BY <1>1, <1>4, <1>10, <1>11, <1>12, <1>13, <1>14, <1>15, Zenon DEF TreeInv, L

\* A tag t goes to node k of and_set L, and nothing else changes.
Kept(tr, tr2, L) ==
    \A n \in 1 .. L : \A x \in DOMAIN tr[n] :
        x \in DOMAIN tr2[n] /\ NodeTags(tr[n][x]) \subseteq NodeTags(tr2[n][x])
Added(tr, tr2, L, k, t) ==
    /\ k \in DOMAIN tr2[L] /\ t \in NodeTags(tr2[L][k]) /\ k = Len(tr2[Len(tr2)])
    /\ \A n \in DOMAIN tr2 : \A x \in DOMAIN tr2[n] : \A u \in NodeTags(tr2[n][x]) :
        \/ n \in DOMAIN tr /\ x \in DOMAIN tr[n] /\ u \in NodeTags(tr[n][x])
        \/ n = L /\ x = k /\ u = t

LEMMA CoveredAt ==
  ASSUME NEW p, NEW r, NEW tr, NEW at, Covered(p, r, tr, at),
         NEW n \in DOMAIN tr, NEW x \in DOMAIN tr[n], NEW t \in NodeTags(tr[n][x])
  PROVE  \E i \in Positive(p, r) : AndSetOf(p, i) = n - 1 /\ at[i] = x /\ p[i] = t
  BY ZenonT(60) DEF Covered

\* Then the tags are laid out as they should.
LEMMA TagLaid ==
  ASSUME NEW p, NEW r, NEW tr, NEW tr2, Ready(p, r, tr), NEW at \in [Positive(p, r) -> Nat],
         Laid(p, r, tr, at), Positive(p, r + 1) = Positive(p, r) \cup {r + 1},
         r + 1 \notin Positive(p, r), NEW L, L = Len(tr), L = AndSetOf(p, r + 1) + 1, NEW k \in Nat,
         Kept(tr, tr2, L), Added(tr, tr2, L, k, p[r + 1]),
         \A i \in Positive(p, r) :
            AndSetOf(p, i) = AndSetOf(p, r + 1) => (at[i] = k <=> SameGroup(p, i, r + 1))
  PROVE  NodesInv(p, r + 1, tr2)
  <1> DEFINE all == Positive(p, r + 1)
             to == [i \in all |-> IF i = r + 1 THEN k ELSE at[i]]
  <1>1. \A i \in all : i \in Positive(p, r) \/ i = r + 1
    BY Zenon
  <1>2. r + 1 \in all /\ \A i \in Positive(p, r) : i \in all /\ i # r + 1
    BY Zenon
  <1>3. to[r + 1] = k /\ \A i \in Positive(p, r) : to[i] = at[i]
    BY <1>2, Zenon
  <1>4. to \in [all -> Nat]
    BY <1>1, Zenon
  <1> HIDE DEF to, all
  <1>5. \A i \in Positive(p, r) : AndSetOf(p, i) + 1 \in 1 .. L
    BY ReadyIndices, ZenonT(60) DEF Positive, TagsRead
  <1>6. Placed(p, r + 1, tr2, to)
    <2> SUFFICES ASSUME NEW i \in all
                 PROVE  /\ to[i] \in DOMAIN tr2[AndSetOf(p, i) + 1]
                        /\ p[i] \in NodeTags(tr2[AndSetOf(p, i) + 1][to[i]])
      BY Zenon DEF Placed, all
    <2>1. CASE i \in Positive(p, r)
      <3>1. /\ at[i] \in DOMAIN tr[AndSetOf(p, i) + 1]
            /\ p[i] \in NodeTags(tr[AndSetOf(p, i) + 1][at[i]])
        BY <2>1, Zenon DEF Laid, Placed
      <3>2. /\ at[i] \in DOMAIN tr2[AndSetOf(p, i) + 1]
            /\ p[i] \in NodeTags(tr2[AndSetOf(p, i) + 1][at[i]])
        BY <1>5, <2>1, <3>1, Zenon DEF Kept
      <3>3. to[i] = at[i]
        BY <1>3, <2>1, Zenon
      <3> QED  BY <3>2, <3>3, Zenon
    <2>2. CASE i = r + 1
      BY <1>3, <2>2, Zenon DEF Added
    <2> QED  BY <1>1, <2>1, <2>2, Zenon
  <1>7. Covered(p, r + 1, tr2, to)
    <2> SUFFICES ASSUME NEW n \in DOMAIN tr2, NEW x \in DOMAIN tr2[n], NEW t \in NodeTags(tr2[n][x])
                 PROVE  \E i \in Positive(p, r + 1) : AndSetOf(p, i) = n - 1 /\ to[i] = x /\ p[i] = t
      BY Zenon DEF Covered
    <2>1. CASE n \in DOMAIN tr /\ x \in DOMAIN tr[n] /\ t \in NodeTags(tr[n][x])
      <3>1. PICK i \in Positive(p, r) : AndSetOf(p, i) = n - 1 /\ at[i] = x /\ p[i] = t
        <4>1. Covered(p, r, tr, at)
          BY Zenon DEF Laid
        <4> QED  BY <2>1, <4>1, CoveredAt
      <3> QED  BY <1>2, <1>3, <3>1, Zenon DEF all
    <2>2. CASE n = L /\ x = k /\ t = p[r + 1]
      <3>1. AndSetOf(p, r + 1) = n - 1
        <4>1. r + 1 \in Nat
          <5>1. r \in Nat
            BY ReadyIndices, Zenon
          <5> QED  BY <5>1
        <4>2. AndSetOf(p, r + 1) \in Nat
          BY <4>1, CountFinite, Zenon DEF AndSetOf
        <4>3. n = AndSetOf(p, r + 1) + 1
          BY <2>2, Zenon
        <4> QED  BY <4>2, <4>3
      <3> QED  BY <1>2, <1>3, <2>2, <3>1, Zenon DEF all
    <2> QED  BY <2>1, <2>2, Zenon DEF Added
  <1>8. Grouped(p, r + 1, to)
    <2> SUFFICES ASSUME NEW i \in all, NEW j \in all, AndSetOf(p, i) = AndSetOf(p, j)
                 PROVE  to[i] = to[j] <=> SameGroup(p, i, j)
      BY Zenon DEF Grouped, all
    <2>1. CASE i \in Positive(p, r) /\ j \in Positive(p, r)
      <3>1. at[i] = at[j] <=> SameGroup(p, i, j)
        BY <2>1, Zenon DEF Laid, Grouped
      <3> QED  BY <1>3, <2>1, <3>1, Zenon
    <2>2. CASE i = r + 1 /\ j \in Positive(p, r)
      <3>1. at[j] = k <=> SameGroup(p, j, i)
        BY <2>2, Zenon
      <3> QED  BY <1>3, <2>2, <3>1, Zenon DEF SameGroup
    <2>3. CASE i \in Positive(p, r) /\ j = r + 1
      BY <1>3, <2>3, Zenon
    <2>4. CASE i = j
      BY <2>4, Zenon DEF SameGroup
    <2> QED  BY <1>1, <2>1, <2>2, <2>3, <2>4, Zenon
  <1>9. OpenLast(p, r + 1, tr2, to)
    BY <1>2, <1>3, Zenon DEF OpenLast, Added, all
  <1> QED  BY <1>4, <1>6, <1>7, <1>8, <1>9, Zenon DEF NodesInv, Laid, all

\* A tag inside a group that has one already, and the first of a group or a
\* tag outside any.
LEMMA GroupGoesOn ==
  ASSUME NEW p \in Seq(Tokens), Described(p), NEW r \in 0 .. Len(p), r < Len(p),
         p[r + 1] \in Tags, InGroup(p, r), NEW i \in 1 .. r
  PROVE  SameGroup(p, i, r + 1) <=> SameGroup(p, i, r)
  <1>1. Opened(p, r + 1) = Opened(p, r) /\ InGroup(p, r + 1)
    BY NextCounts, SignsAreNoTags, Zenon
  <1>2. i # r + 1
    BY LenProperties
  <1> QED  BY <1>1, <1>2, Zenon DEF SameGroup

LEMMA Earlier ==
  ASSUME NEW n \in Nat, NEW r \in 0 .. n, r < n, NEW i \in 1 .. r
  PROVE  /\ i # r + 1 /\ r \in Nat /\ r > 0 /\ i \in Nat
         /\ \E q \in 0 .. n : r = q + 1 /\ q < n /\ q \in Nat /\ (i # r => i <= q)
  <1>1. r - 1 \in 0 .. n /\ r = (r - 1) + 1 /\ r - 1 < n /\ r - 1 \in Nat /\ (i # r => i <= r - 1)
    OBVIOUS
  <1>2. i # r + 1 /\ r \in Nat /\ r > 0 /\ i \in Nat
    OBVIOUS
  <1> QED  BY <1>1, <1>2, Zenon

LEMMA Below ==
  ASSUME NEW a \in Nat, NEW b \in Nat, NEW c, a <= b, c = b + 1
  PROVE  a # c
  OBVIOUS

LEMMA GroupStarts ==
  ASSUME NEW p \in Seq(Tokens), Described(p), NEW r \in 0 .. Len(p), r < Len(p),
         p[r + 1] \in Tags, InGroup(p, r) => p[r] = "{", NEW i \in 1 .. r, p[i] \in Tags
  PROVE  ~SameGroup(p, i, r + 1)
  <1>1. Opened(p, r + 1) = Opened(p, r) /\ (InGroup(p, r + 1) <=> InGroup(p, r))
    BY NextCounts, SignsAreNoTags, Zenon
  <1>0. Len(p) \in Nat
    BY LenProperties, Zenon
  <1>2. i # r + 1 /\ r \in Nat /\ r > 0
    BY <1>0, Earlier, Zenon
  <1>3. CASE ~InGroup(p, r)
    BY <1>1, <1>2, <1>3, Zenon DEF SameGroup
  <1>4. CASE InGroup(p, r)
    <2>1. p[r] = "{" /\ i # r
      BY <1>4, SignsAreNoTags, Zenon
    <2>2. PICK q \in 0 .. Len(p) : r = q + 1 /\ q < Len(p) /\ q \in Nat /\ (i # r => i <= q)
      BY <1>0, Earlier, Zenon
    <2>3. Opened(p, r) = Opened(p, q) + 1
      BY <2>1, <2>2, NextCounts, Zenon
    <2>4. i \in Nat /\ i <= q
      BY <1>0, <2>1, <2>2, Earlier, Zenon
    <2>5. Opened(p, i) \in Nat /\ Opened(p, q) \in Nat /\ Opened(p, i) <= Opened(p, q)
      BY <2>2, <2>4, CountFinite, CountGrows, Zenon DEF Opened
    <2>6. Opened(p, i) # Opened(p, r)
      BY <2>3, <2>5, Below, Zenon
    <2> QED  BY <1>1, <1>2, <2>6, Zenon DEF SameGroup
  <1> QED  BY <1>3, <1>4

\* A tag without a "-" before it.
PositiveNext(p, r, tr) ==
    /\ ~NegatedAt(p, r + 1) /\ Positive(p, r + 1) = Positive(p, r) \cup {r + 1}
    /\ r + 1 \notin Positive(p, r)
    /\ AndSetOf(p, r + 1) = AndSetOf(p, r) /\ (InGroup(p, r + 1) <=> InGroup(p, r))
    /\ Len(tr) = AndSetOf(p, r + 1) + 1
    /\ p[r + 1] # "+" /\ p[r + 1] # "-" /\ p[r + 1] # "{" /\ p[r + 1] # "}"

LEMMA PositiveTag ==
  ASSUME NEW p, NEW r, NEW tr, NEW tg, NEW neg, Before(p, r, tr, tg, neg), neg = FALSE, p[r + 1] \in Tags
  PROVE  PositiveNext(p, r, tr)
  <1>0. /\ Ready(p, r, tr) /\ p \in Seq(Tokens) /\ Described(p) /\ r \in 0 .. Len(p) /\ r < Len(p)
        /\ tr \in Trees /\ tr # <<>> /\ r \in Nat /\ r + 1 \in 1 .. Len(p) /\ r + 1 \in Nat
        /\ FlagsInv(p, r, tr, tg, neg) /\ StartedInv(p, r, tr) /\ NodesInv(p, r, tr)
        /\ NegatedInv(p, r, tr) /\ FirstInv(p, r, tr) /\ Len(p) \in Nat
    BY IsReady, Zenon
  <1>1. p[r + 1] # "+" /\ p[r + 1] # "-" /\ p[r + 1] # "{" /\ p[r + 1] # "}"
    BY SignsAreNoTags, Zenon
  <1>2. AndSetOf(p, r + 1) = AndSetOf(p, r) /\ (InGroup(p, r + 1) <=> InGroup(p, r))
    BY <1>0, <1>1, NextCounts, Zenon
  <1>3. (r + 1) - 1 = r /\ (r + 1 > 1 => r > 0)
    <2>1. r \in Nat
      BY <1>0, Zenon
    <2> QED  BY <2>1
  <1>4. ~NegatedAt(p, r + 1)
    BY <1>0, <1>3, Zenon DEF NegatedAt, FlagsInv
  <1>5. Len(tr) = AndSetOf(p, r) + 1
    BY <1>0, Zenon DEF FlagsInv
  <1>6. Positive(p, r + 1) = Positive(p, r) \cup {r + 1} /\ r + 1 \notin Positive(p, r)
    BY <1>0, <1>4, OneMoreRead, Zenon
  <1> QED  BY <1>1, <1>2, <1>4, <1>5, <1>6, Zenon DEF PositiveNext

\* A further tag of a group goes to the last node, which its group has made.
LEMMA GroupedTagStep ==
  ASSUME NEW p, NEW r, NEW tr, NEW tg, NEW neg, Before(p, r, tr, tg, neg), neg = FALSE, tg = "add_to",
         p[r + 1] \in Tags, NEW tr2, tr2 = WithLastNode(tr, WithRelated(LastNode(tr), p[r + 1]))
  PROVE  /\ tr[Len(tr)] # <<>> /\ tr2 \in Trees /\ tr2 # <<>>
         /\ TreeInv(p, r + 1, tr2, tg, neg)
  <1> DEFINE t == p[r + 1]
             L == Len(tr)
             M == Len(tr[L])
             old == LastNode(tr)
             new == WithRelated(old, t)
  <1>0. /\ Ready(p, r, tr) /\ p \in Seq(Tokens) /\ Described(p) /\ r \in 0 .. Len(p) /\ r < Len(p)
        /\ tr \in Trees /\ tr # <<>> /\ r \in Nat /\ r + 1 \in 1 .. Len(p) /\ r + 1 \in Nat
        /\ FlagsInv(p, r, tr, tg, neg) /\ StartedInv(p, r, tr) /\ NodesInv(p, r, tr)
        /\ NegatedInv(p, r, tr) /\ FirstInv(p, r, tr) /\ Len(p) \in Nat
    BY IsReady, Zenon
  <1>1. /\ Positive(p, r + 1) = Positive(p, r) \cup {r + 1} /\ r + 1 \notin Positive(p, r)
        /\ AndSetOf(p, r + 1) = AndSetOf(p, r) /\ (InGroup(p, r + 1) <=> InGroup(p, r))
        /\ L = AndSetOf(p, r + 1) + 1 /\ t # "+" /\ t # "-" /\ t # "{" /\ t # "}" /\ ~NegatedAt(p, r + 1)
    <2>1. PositiveNext(p, r, tr)
      BY PositiveTag, Zenon
    <2> QED  BY <2>1, Zenon DEF PositiveNext
  <1>2. InGroup(p, r) /\ p[r] # "{"
    BY <1>0, Zenon DEF FlagsInv
  <1>3. PICK at \in [Positive(p, r) -> Nat] : Laid(p, r, tr, at)
    BY <1>0, Zenon DEF NodesInv
  <1>4. r \in Positive(p, r) /\ at[r] = M
    BY <1>2, <1>3, Zenon DEF Laid, OpenLast
  <1>5. M \in DOMAIN tr[L]
    BY <1>1, <1>3, <1>4, Zenon DEF Laid, Placed
  <1>6. /\ L \in 1 .. L
        /\ \A n \in 1 .. L : /\ Len(tr[n]) \in Nat /\ (tr[n] # <<>> <=> Len(tr[n]) > 0)
                             /\ DOMAIN tr[n] = 1 .. Len(tr[n])
                             /\ \A k \in 1 .. Len(tr[n]) : tr[n][k] \in Nodes
    BY <1>0, ReadyIndices, TreeShape, Zenon
  <1>7. old \in Nodes /\ tr[L] # <<>>
    <2>1. M \in 1 .. M /\ M \in Nat
      BY <1>5, <1>6, Zenon
    <2>2. M > 0
      BY <2>1
    <2> QED  BY <1>6, <2>1, <2>2, Zenon DEF LastNode
  <1>8. new \in Nodes /\ NodeTags(new) = NodeTags(old) \cup {t} /\ new.negated = old.negated
    BY <1>7, OneMoreRelated, Zenon
  <1> HIDE DEF t, L, M, old, new
  <1>9. Replaced(tr, tr2, L, M, old, new)
    <2>1. /\ tr2 = WithLastNode(tr, new) /\ new \in Nodes /\ tr[Len(tr)] # <<>>
          /\ tr \in Trees /\ tr # <<>>
      BY <1>0, <1>7, <1>8, Zenon DEF t, L, old, new
    <2> QED  BY <2>1, NodeReplaced, Zenon DEF L, M, old
  <1>10. /\ tr2 \in Trees /\ tr2 # <<>> /\ Len(tr2) = L /\ DOMAIN tr2 = 1 .. L /\ DOMAIN tr = 1 .. L
         /\ L \in 1 .. L /\ M \in Nat
         /\ \A n \in 1 .. L :
              /\ DOMAIN tr2[n] = DOMAIN tr[n] /\ (tr[n] # <<>> => tr2[n] # <<>>)
              /\ \A k \in DOMAIN tr[n] :
                   \/ tr2[n][k] = tr[n][k] /\ ~(n = L /\ k = M)
                   \/ n = L /\ k = M /\ tr2[n][k] = new /\ tr[n][k] = old
         /\ tr2[L][M] = new /\ Len(tr2[L]) = M /\ M \in DOMAIN tr[L]
    BY <1>9, Zenon DEF Replaced
  <1>11. FlagsInv(p, r + 1, tr2, tg, neg)
    BY <1>1, <1>2, <1>10, Zenon DEF FlagsInv, t
  <1>12. StartedInv(p, r + 1, tr2)
    <2>1. tr2[AndSetOf(p, r + 1) + 1] # <<>>
      BY <1>1, <1>7, <1>10, Zenon
    <2>2. \A n \in 1 .. Len(tr) : tr[n] # <<>> => tr2[n] # <<>>
      BY <1>10, Zenon DEF L
    <2> QED  BY <1>0, <2>1, <2>2, StartedStep, Zenon
  <1>13. NodesInv(p, r + 1, tr2)
    <2>1. Kept(tr, tr2, L)
      <3> SUFFICES ASSUME NEW n \in 1 .. L, NEW x \in DOMAIN tr[n]
                   PROVE  x \in DOMAIN tr2[n] /\ NodeTags(tr[n][x]) \subseteq NodeTags(tr2[n][x])
        BY Zenon DEF Kept
      <3>1. x \in DOMAIN tr2[n]
        BY <1>10, Zenon
      <3>2. tr2[n][x] = tr[n][x] \/ (tr2[n][x] = new /\ tr[n][x] = old)
        BY <1>10, ZenonT(60)
      <3> QED  BY <1>8, <3>1, <3>2, Zenon
    <2>2. Added(tr, tr2, L, M, t)
      <3>1. M \in DOMAIN tr2[L] /\ t \in NodeTags(tr2[L][M]) /\ M = Len(tr2[Len(tr2)])
        BY <1>8, <1>10, Zenon
      <3>2. ASSUME NEW n \in DOMAIN tr2, NEW x \in DOMAIN tr2[n], NEW u \in NodeTags(tr2[n][x])
            PROVE  \/ n \in DOMAIN tr /\ x \in DOMAIN tr[n] /\ u \in NodeTags(tr[n][x])
                   \/ n = L /\ x = M /\ u = t
        <4>1. n \in 1 .. L /\ n \in DOMAIN tr /\ x \in DOMAIN tr[n]
          BY <1>10, Zenon
        <4>2. CASE tr2[n][x] = tr[n][x]
          BY <4>1, <4>2, Zenon
        <4>3. CASE n = L /\ x = M /\ tr2[n][x] = new /\ tr[n][x] = old
          BY <1>8, <4>1, <4>3, Zenon
        <4>4. \/ tr2[n][x] = tr[n][x]
              \/ n = L /\ x = M /\ tr2[n][x] = new /\ tr[n][x] = old
          BY <1>10, <4>1, Zenon
        <4> QED  BY <4>2, <4>3, <4>4, Zenon
      <3> QED  BY <3>1, <3>2, Zenon DEF Added
    <2>3. ASSUME NEW i \in Positive(p, r), AndSetOf(p, i) = AndSetOf(p, r + 1)
          PROVE  at[i] = M <=> SameGroup(p, i, r + 1)
      <3>1. at[i] = at[r] <=> SameGroup(p, i, r)
        BY <1>1, <1>3, <1>4, <2>3, Zenon DEF Laid, Grouped
      <3>2. i \in 1 .. r
        BY Zenon DEF Positive, TagsRead
      <3>3. SameGroup(p, i, r + 1) <=> SameGroup(p, i, r)
        BY <1>0, <1>2, <3>2, GroupGoesOn, Zenon
      <3> QED  BY <1>4, <3>1, <3>3, Zenon
    <2>4. Added(tr, tr2, L, M, p[r + 1])
      BY <2>2, Zenon DEF t
    <2>5. L = Len(tr) /\ L = AndSetOf(p, r + 1) + 1
      BY <1>1, Zenon DEF L
    <2>6. \A i \in Positive(p, r) :
            AndSetOf(p, i) = AndSetOf(p, r + 1) => (at[i] = M <=> SameGroup(p, i, r + 1))
      BY <2>3, Zenon
    <2>7. Ready(p, r, tr) /\ M \in Nat
      BY <1>0, <1>10, Zenon
    <2> QED  BY <1>1, <1>3, <2>1, <2>4, <2>5, <2>6, <2>7, TagLaid, Zenon
  <1>14. NegatedInv(p, r + 1, tr2)
    <2>1. NegatedKept(tr, tr2)
      <3> SUFFICES ASSUME NEW n \in DOMAIN tr2, NEW k \in DOMAIN tr2[n]
                   PROVE  /\ n \in DOMAIN tr /\ k \in DOMAIN tr[n]
                          /\ tr2[n][k].negated = tr[n][k].negated
        BY Zenon DEF NegatedKept
      <3>1. n \in 1 .. L /\ n \in DOMAIN tr /\ k \in DOMAIN tr[n]
        BY <1>10, Zenon
      <3>2. tr2[n][k] = tr[n][k] \/ (tr2[n][k] = new /\ tr[n][k] = old)
        BY <1>10, <3>1, ZenonT(60)
      <3> QED  BY <1>8, <3>1, <3>2, ZenonT(60)
    <2> QED  BY <1>0, <2>1, NegatedStays, Zenon
  <1>15. FirstInv(p, r + 1, tr2)
    <2>1. FirstKept(tr, tr2)
      <3> SUFFICES ASSUME NEW n \in 1 .. L, tr[n] # <<>>
                   PROVE  tr2[n][1].negated = tr[n][1].negated
        BY Zenon DEF FirstKept, L
      <3>1. Len(tr[n]) > 0 /\ DOMAIN tr[n] = 1 .. Len(tr[n]) /\ Len(tr[n]) \in Nat
        BY <1>6, Zenon
      <3>2. 1 \in DOMAIN tr[n]
        BY <3>1
      <3>3. tr2[n][1] = tr[n][1] \/ (tr2[n][1] = new /\ tr[n][1] = old)
        BY <1>10, <3>2, ZenonT(60)
      <3> QED  BY <1>8, <3>3, Zenon
    <2>2. ~Starts(p, r + 1)
      <3>1. r \in 1 .. r
        BY <1>4, Zenon DEF Positive, TagsRead
      <3>2. r \in 1 .. Len(p) /\ r + 1 # 1 /\ (r + 1) - 1 = r
        <4>1. r \in Nat /\ Len(p) \in Nat /\ r < Len(p)
          BY <1>0, Zenon
        <4> QED  BY <3>1, <4>1
      <3>3. p[r] # "+"
        BY <1>0, <1>2, <3>2, Syntax, Zenon
      <3> QED  BY <3>2, <3>3, Zenon DEF Starts
    <2> QED  BY <1>1, <2>1, <2>2, FirstAfter, Zenon DEF t
  <1> QED  BY <1>7, <1>10, <1>11, <1>12, <1>13, <1>14, <1>15, Zenon DEF TreeInv, L

\* and is node M + 1 of and_set L, the last ones; the rest is as it was.
Grown(tr, tr2, L, M, and) ==
    /\ tr2 \in Trees /\ tr2 # <<>> /\ Len(tr2) = L /\ L \in 1 .. L /\ M \in Nat /\ M + 1 \in Nat
    /\ DOMAIN tr2 = 1 .. L /\ DOMAIN tr = 1 .. L
    /\ DOMAIN tr[L] = 1 .. M /\ DOMAIN tr2[L] = DOMAIN tr[L] \cup {M + 1} /\ M + 1 \notin DOMAIN tr[L]
    /\ Len(tr2[L]) = M + 1 /\ tr2[L] # <<>> /\ tr2[L][M + 1] = and
    /\ \A n \in 1 .. L : n # L => tr2[n] = tr[n]
    /\ \A n \in 1 .. L : \A k \in DOMAIN tr[n] : k \in DOMAIN tr2[n] /\ tr2[n][k] = tr[n][k]
    /\ \A n \in 1 .. L : tr[n] # <<>> => tr2[n] # <<>> /\ 1 \in DOMAIN tr[n]

LEMMA TreeGrows ==
  ASSUME NEW tr \in Trees, tr # <<>>, NEW and \in Nodes, NEW tr2, tr2 = WithNode(tr, and)
  PROVE  Grown(tr, tr2, Len(tr), Len(tr[Len(tr)]), and)
  <1> DEFINE L == Len(tr)
             M == Len(tr[L])
  <1>1. /\ L \in Nat \ {0} /\ DOMAIN tr = 1 .. L
        /\ \A n \in 1 .. L : /\ Len(tr[n]) \in Nat /\ DOMAIN tr[n] = 1 .. Len(tr[n])
                             /\ tr[n] # <<>> <=> Len(tr[n]) > 0
    BY TreeShape, Zenon
  <1>2. L \in 1 .. L
    BY <1>1
  <1>3. M \in Nat /\ DOMAIN tr[L] = 1 .. M
    BY <1>1, <1>2, Zenon
  <1>4. /\ tr2 \in Trees /\ tr2 # <<>> /\ Len(tr2) = L
        /\ \A n \in 1 .. L : n # L => tr2[n] = tr[n]
        /\ Len(tr2[L]) = M + 1 /\ tr2[L][M + 1] = and
        /\ \A k \in 1 .. M : tr2[L][k] = tr[L][k]
    BY NewNode, SMTT(40)
  <1>5. /\ DOMAIN tr2 = 1 .. L
        /\ \A n \in 1 .. L : DOMAIN tr2[n] = 1 .. Len(tr2[n]) /\ (tr2[n] # <<>> <=> Len(tr2[n]) > 0)
    BY <1>4, TreeShape, Zenon
  <1>6. /\ M + 1 \in Nat /\ M + 1 > 0 /\ 1 .. M + 1 = (1 .. M) \cup {M + 1} /\ M + 1 \notin 1 .. M
    BY <1>3
  <1>7. DOMAIN tr2[L] = DOMAIN tr[L] \cup {M + 1} /\ M + 1 \notin DOMAIN tr[L] /\ tr2[L] # <<>>
    BY <1>2, <1>3, <1>4, <1>5, <1>6, Zenon
  <1>8. ASSUME NEW n \in 1 .. L, NEW k \in DOMAIN tr[n]
        PROVE  k \in DOMAIN tr2[n] /\ tr2[n][k] = tr[n][k]
    BY <1>3, <1>4, <1>7, <1>8, Zenon
  <1>9. ASSUME NEW n \in 1 .. L, tr[n] # <<>>
        PROVE  tr2[n] # <<>> /\ 1 \in DOMAIN tr[n]
    <2>1. Len(tr[n]) \in Nat /\ Len(tr[n]) > 0 /\ DOMAIN tr[n] = 1 .. Len(tr[n])
      BY <1>1, <1>9, Zenon
    <2>2. 1 \in DOMAIN tr[n]
      BY <2>1
    <2> QED  BY <1>4, <1>7, <1>9, <2>2, Zenon
  <1> HIDE DEF L, M
  <1>10. Grown(tr, tr2, L, M, and)
    BY <1>1, <1>2, <1>3, <1>4, <1>5, <1>6, <1>7, <1>8, <1>9, Zenon DEF Grown
  <1> QED  BY <1>10, Zenon DEF L, M

\* Any other tag makes a node, of its own or for the group that starts.
LEMMA NextTagStep ==
  ASSUME NEW p, NEW r, NEW tr, NEW tg, NEW neg, Before(p, r, tr, tg, neg), neg = FALSE,
         tg # "add_to", p[r + 1] \in Tags, NEW tr2,
         tr2 = WithNode(tr, [tag |-> p[r + 1], related |-> <<>>, negated |-> <<>>])
  PROVE  /\ tr2 \in Trees /\ tr2 # <<>>
         /\ TreeInv(p, r + 1, tr2, IF tg = "add_new" THEN "add_to" ELSE tg, neg)
  <1> DEFINE t == p[r + 1]
             L == Len(tr)
             M == Len(tr[L])
             new == [tag |-> p[r + 1], related |-> <<>>, negated |-> <<>>]
             tg2 == IF tg = "add_new" THEN "add_to" ELSE tg
  <1>0. /\ Ready(p, r, tr) /\ p \in Seq(Tokens) /\ Described(p) /\ r \in 0 .. Len(p) /\ r < Len(p)
        /\ tr \in Trees /\ tr # <<>> /\ r \in Nat /\ r + 1 \in 1 .. Len(p) /\ r + 1 \in Nat
        /\ FlagsInv(p, r, tr, tg, neg) /\ StartedInv(p, r, tr) /\ NodesInv(p, r, tr)
        /\ NegatedInv(p, r, tr) /\ FirstInv(p, r, tr) /\ Len(p) \in Nat
    BY IsReady, Zenon
  <1>1. /\ Positive(p, r + 1) = Positive(p, r) \cup {r + 1} /\ r + 1 \notin Positive(p, r)
        /\ AndSetOf(p, r + 1) = AndSetOf(p, r) /\ (InGroup(p, r + 1) <=> InGroup(p, r))
        /\ L = AndSetOf(p, r + 1) + 1 /\ t # "+" /\ t # "-" /\ t # "{" /\ t # "}" /\ ~NegatedAt(p, r + 1)
    <2>1. PositiveNext(p, r, tr)
      BY PositiveTag, Zenon
    <2> QED  BY <2>1, Zenon DEF PositiveNext
  <1>2. InGroup(p, r) => p[r] = "{" /\ tg = "add_new"
    BY <1>0, Zenon DEF FlagsInv
  <1>3. ~InGroup(p, r) => tg = "dont_add"
    BY <1>0, Zenon DEF FlagsInv
  <1>4. new \in Nodes /\ NodeTags(new) = {t} /\ new.negated = <<>>
    <2>1. new \in Nodes
      BY EmptySeq DEF Nodes
    <2>2. new.tag = t /\ new.related = <<>> /\ new.negated = <<>>
      OBVIOUS
    <2>3. DOMAIN new.related = {}
      BY <2>2
    <2> HIDE DEF new, t
    <2> QED  BY <2>1, <2>2, <2>3, Zenon DEF NodeTags
  <1>5. Grown(tr, tr2, L, M, new)
    <2>1. tr2 = WithNode(tr, new)
      OBVIOUS
    <2> HIDE DEF new
    <2> QED  BY <1>0, <1>4, <2>1, TreeGrows, Zenon
  <1> HIDE DEF t, L, M, new
  <1>5a. /\ \A n \in 1 .. L : n # L => tr2[n] = tr[n]
         /\ \A n \in 1 .. L : \A k \in DOMAIN tr[n] : k \in DOMAIN tr2[n] /\ tr2[n][k] = tr[n][k]
         /\ DOMAIN tr2[L] = DOMAIN tr[L] \cup {M + 1} /\ tr2[L][M + 1] = new
         /\ DOMAIN tr2 = 1 .. L /\ DOMAIN tr = 1 .. L
    BY <1>5, Zenon DEF Grown
  <1>5b. ASSUME NEW n \in DOMAIN tr2, NEW x \in DOMAIN tr2[n]
         PROVE  \/ n \in DOMAIN tr /\ x \in DOMAIN tr[n] /\ tr2[n][x] = tr[n][x]
                \/ n = L /\ x = M + 1 /\ tr2[n][x] = new
    <2>1. CASE n = L
      <3>1. x \in DOMAIN tr[L] \/ x = M + 1
        BY <1>5a, <2>1, Zenon
      <3> QED  BY <1>5a, <2>1, <3>1, Zenon
    <2>2. CASE n # L
      BY <1>5a, <2>2, Zenon
    <2> QED  BY <2>1, <2>2, Zenon
  <1>6. FlagsInv(p, r + 1, tr2, tg2, neg)
    <2>1. Len(tr2) = AndSetOf(p, r + 1) + 1
      BY <1>1, <1>5, Zenon DEF Grown
    <2>2. tg2 = IF ~InGroup(p, r + 1) THEN "dont_add" ELSE IF p[r + 1] = "{" THEN "add_new" ELSE "add_to"
      BY <1>1, <1>2, <1>3, Zenon DEF t
    <2> QED  BY <1>1, <2>1, <2>2, Zenon DEF FlagsInv, t
  <1>7. StartedInv(p, r + 1, tr2)
    <2>1. tr2[AndSetOf(p, r + 1) + 1] # <<>>
      BY <1>1, <1>5, Zenon DEF Grown
    <2>2. \A n \in 1 .. Len(tr) : tr[n] # <<>> => tr2[n] # <<>>
      BY <1>5, Zenon DEF L, Grown
    <2> QED  BY <1>0, <2>1, <2>2, StartedStep, Zenon
  <1>8. NodesInv(p, r + 1, tr2)
    <2>1. Kept(tr, tr2, L)
      <3> SUFFICES ASSUME NEW n \in 1 .. L, NEW x \in DOMAIN tr[n]
                   PROVE  x \in DOMAIN tr2[n] /\ NodeTags(tr[n][x]) \subseteq NodeTags(tr2[n][x])
        BY Zenon DEF Kept
      <3>1. x \in DOMAIN tr2[n] /\ tr2[n][x] = tr[n][x]
        BY <1>5a, Zenon
      <3> QED  BY <3>1, Zenon
    <2>2. Added(tr, tr2, L, M + 1, t)
      <3>1. M + 1 \in DOMAIN tr2[L] /\ t \in NodeTags(tr2[L][M + 1]) /\ M + 1 = Len(tr2[Len(tr2)])
        BY <1>4, <1>5, Zenon DEF Grown
      <3>2. ASSUME NEW n \in DOMAIN tr2, NEW x \in DOMAIN tr2[n], NEW u \in NodeTags(tr2[n][x])
            PROVE  \/ n \in DOMAIN tr /\ x \in DOMAIN tr[n] /\ u \in NodeTags(tr[n][x])
                   \/ n = L /\ x = M + 1 /\ u = t
        <4>1. CASE n \in DOMAIN tr /\ x \in DOMAIN tr[n] /\ tr2[n][x] = tr[n][x]
          BY <4>1, Zenon
        <4>2. CASE n = L /\ x = M + 1 /\ tr2[n][x] = new
          BY <1>4, <4>2, Zenon
        <4> QED  BY <1>5b, <4>1, <4>2, Zenon
      <3> QED  BY <3>1, <3>2, Zenon DEF Added
    <2>3. Added(tr, tr2, L, M + 1, p[r + 1])
      BY <2>2, Zenon DEF t
    <2>4. PICK at \in [Positive(p, r) -> Nat] : Laid(p, r, tr, at)
      BY <1>0, Zenon DEF NodesInv
    <2>5. ASSUME NEW i \in Positive(p, r), AndSetOf(p, i) = AndSetOf(p, r + 1)
          PROVE  at[i] = M + 1 <=> SameGroup(p, i, r + 1)
      <3>1. at[i] \in DOMAIN tr[L]
        BY <1>1, <2>4, <2>5, Zenon DEF Laid, Placed
      <3>2. at[i] # M + 1
        BY <1>5, <3>1, Zenon DEF Grown
      <3>3. i \in 1 .. r /\ p[i] \in Tags
        BY Zenon DEF Positive, TagsRead
      <3>4. ~SameGroup(p, i, r + 1)
        BY <1>0, <1>2, <3>3, GroupStarts, Zenon
      <3> QED  BY <3>2, <3>4, Zenon
    <2>6. \A i \in Positive(p, r) :
            AndSetOf(p, i) = AndSetOf(p, r + 1) => (at[i] = M + 1 <=> SameGroup(p, i, r + 1))
      BY <2>5, Zenon
    <2>7. Ready(p, r, tr) /\ M + 1 \in Nat /\ L = Len(tr) /\ L = AndSetOf(p, r + 1) + 1
      BY <1>0, <1>1, <1>5, Zenon DEF Grown, L
    <2> QED  BY <1>1, <2>1, <2>3, <2>4, <2>6, <2>7, TagLaid, Zenon
  <1>9. NegatedInv(p, r + 1, tr2)
    <2>1. NegatedKept(tr, tr2)
      <3> SUFFICES ASSUME NEW n \in DOMAIN tr2, NEW k \in DOMAIN tr2[n]
                   PROVE  \/ n \in DOMAIN tr /\ k \in DOMAIN tr[n] /\ tr2[n][k].negated = tr[n][k].negated
                          \/ tr2[n][k].negated = <<>>
        BY Zenon DEF NegatedKept
      <3>1. CASE n \in DOMAIN tr /\ k \in DOMAIN tr[n] /\ tr2[n][k] = tr[n][k]
        BY <3>1, Zenon
      <3>2. CASE n = L /\ k = M + 1 /\ tr2[n][k] = new
        BY <1>4, <3>2, Zenon
      <3> QED  BY <1>5b, <3>1, <3>2, Zenon
    <2> QED  BY <1>0, <2>1, NegatedStays, Zenon
  <1>10. FirstInv(p, r + 1, tr2)
    <2>1. FirstKept(tr, tr2)
      <3>1. \A n \in 1 .. L : tr[n] # <<>> => 1 \in DOMAIN tr[n]
        BY <1>5, Zenon DEF Grown
      <3> QED  BY <1>5a, <3>1, ZenonT(60) DEF FirstKept, L
    <2>2. ASSUME Starts(p, r + 1)
          PROVE  Fresh(tr2[Len(tr2)])
      <3>1. (r + 1) - 1 = r /\ (r + 1 = 1 => r = 0)
        <4>1. r \in Nat
          BY <1>0, Zenon
        <4> QED  BY <4>1
      <3>2. tr[L] = <<>>
        BY <1>0, <2>2, <3>1, Zenon DEF Starts, FirstInv, L
      <3>3. M = 0
        BY <3>2 DEF M
      <3>4. M + 1 = 1
        BY <3>3
      <3> QED  BY <1>4, <1>5, <3>4, Zenon DEF Fresh, Grown
    <2> QED  BY <1>1, <2>1, <2>2, FirstAfter, Zenon DEF t
  <1> QED  BY <1>5, <1>6, <1>7, <1>8, <1>9, <1>10, Zenon DEF TreeInv, Grown
-----------------------------------------------------------------------------
(* The invariant holds at first and after every step                       *)

LEMMA NoneRead ==
  ASSUME NEW p
  PROVE  TagsRead(p, 0) = {} /\ Positive(p, 0) = {} /\ 1 .. 0 = {}
  <1>1. 1 .. 0 = {}
    OBVIOUS
  <1> QED  BY <1>1, Zenon DEF TagsRead, Positive

LEMMA EmptyTree ==
  ASSUME NEW tr, tr = << <<>> >>
  PROVE  /\ tr \in Trees /\ tr # <<>> /\ Len(tr) = 1
         /\ DOMAIN tr = {1} /\ tr[1] = <<>> /\ DOMAIN tr[1] = {}
  <1>1. <<>> \in Seq(Nodes)
    BY EmptySeq
  <1>2. tr \in Seq(Seq(Nodes))
    BY <1>1
  <1>3. tr # <<>> /\ Len(tr) = 1 /\ tr[1] = <<>>
    OBVIOUS
  <1>4. DOMAIN tr = 1 .. 1
    OBVIOUS
  <1>5. DOMAIN tr = {1}
    BY <1>4
  <1>6. DOMAIN tr[1] = {}
    BY <1>3
  <1> QED  BY <1>2, <1>3, <1>5, <1>6, Zenon DEF Trees

LEMMA FirstTree ==
  ASSUME NEW p, NEW tr, tr = << <<>> >>
  PROVE  TreeInv(p, 0, tr, "dont_add", FALSE)
  <1>1. /\ Len(tr) = 1 /\ DOMAIN tr = {1} /\ tr[1] = <<>> /\ DOMAIN tr[1] = {}
    BY EmptyTree, Zenon
  <1>2. /\ TagsRead(p, 0) = {} /\ Positive(p, 0) = {} /\ 1 .. 0 = {} /\ ~InGroup(p, 0)
        /\ AndSetOf(p, 0) = 0
    BY NoneRead, NoneCounted, NoGroupAtFirst, Zenon
  <1>3. ~(0 > 0) /\ ~(0 > 1) /\ 0 + 1 = 1
    OBVIOUS
  <1>4. FlagsInv(p, 0, tr, "dont_add", FALSE)
    BY <1>1, <1>2, <1>3, Zenon DEF FlagsInv
  <1>5. StartedInv(p, 0, tr)
    BY <1>2, Zenon DEF StartedInv
  <1>6. NodesInv(p, 0, tr)
    <2> DEFINE at == [i \in Positive(p, 0) |-> 0]
    <2>1. at \in [Positive(p, 0) -> Nat]
      OBVIOUS
    <2> HIDE DEF at
    <2>2. Placed(p, 0, tr, at) /\ Grouped(p, 0, at) /\ OpenLast(p, 0, tr, at)
      BY <1>2, Zenon DEF Placed, Grouped, OpenLast
    <2>3. Covered(p, 0, tr, at)
      <3> SUFFICES ASSUME NEW n \in DOMAIN tr, NEW k \in DOMAIN tr[n] PROVE FALSE
        BY Zenon DEF Covered
      <3> QED  BY <1>1, Zenon
    <2> QED  BY <2>1, <2>2, <2>3, Zenon DEF NodesInv, Laid
  <1>7. NegatedInv(p, 0, tr)
    <2> SUFFICES ASSUME NEW n \in DOMAIN tr, NEW k \in DOMAIN tr[n] PROVE FALSE
      BY Zenon DEF NegatedInv
    <2> QED  BY <1>1, Zenon
  <1>8. FirstInv(p, 0, tr)
    BY <1>1, <1>2, <1>3, Zenon DEF FirstInv
  <1> QED  BY <1>4, <1>5, <1>6, <1>7, <1>8, Zenon DEF TreeInv

LEMMA Initially ==
  Init => IInv
  <1> SUFFICES ASSUME Init PROVE IInv
    OBVIOUS
  <1>1. tree \in Seq(Seq(Nodes)) /\ tree # <<>>
    <2>1. tree = << <<>> >>
      BY Zenon DEF Init
    <2> QED  BY <2>1, EmptyTree, Zenon DEF Trees
  <1>2. path \in Seq(Tokens) /\ read \in 0 .. Len(path)
    <2>1. PICK n \in 0 .. MaxTokens : path \in [1 .. n -> Tokens]
      BY Zenon DEF Init, Paths
    <2>2. n \in Nat
      BY MaxTokensAssumption
    <2>3. path \in Seq(Tokens)
      BY <2>1, <2>2 DEF Seq
    <2>4. Len(path) \in Nat
      BY <2>3, LenProperties
    <2> QED  BY <2>3, <2>4 DEF Init
  <1>3. TypeOK
    BY <1>1, <1>2 DEF Init, TypeOK
  <1>4. DoneInv
    BY DEF Init, DoneInv, Outcomes
  <1>5. TreeInv(path, read, tree, tag_group, negate_next_tag)
    BY FirstTree, Zenon DEF Init
  <1>6. pc \notin {"error", "crashed"}
    BY DEF Init
  <1> QED  BY <1>3, <1>4, <1>5, <1>6, Zenon DEF IInv

\* What reading a token leaves alone.
LEMMA Reads ==
  ASSUME TypeOK, NEW token, Read(token)
  PROVE  /\ path' = path /\ file' = file /\ read' = read + 1 /\ pc = "parse"
         /\ read < Len(path) /\ path[read + 1] = token
         /\ path \in Seq(Tokens) /\ read \in 0 .. Len(path) /\ read' \in 0 .. Len(path)
  <1>1. Len(path) \in Nat
    BY LenProperties DEF TypeOK
  <1> QED  BY <1>1 DEF Read, TypeOK

\* What the types of the tree come to.
LEMMA Typed ==
  ASSUME TypeOK
  PROVE  /\ tree \in Trees /\ tree # <<>>
         /\ tag_group \in {"dont_add", "add_new", "add_to"} /\ negate_next_tag \in BOOLEAN
  BY Zenon DEF TypeOK, Trees

\* A token read keeps the types, whatever the query.
LEMMA ReadTypes ==
  ASSUME TypeOK, NEW token, Read(token), tree' \in Trees, tree' # <<>>,
         tag_group' \in {"dont_add", "add_new", "add_to"}, negate_next_tag' \in BOOLEAN,
         pc' \in {"parse", "error", "crashed"}
  PROVE  TypeOK' /\ DoneInv'
  <1>1. path' \in Seq(Tokens) /\ read' \in 0 .. Len(path')
    BY Reads, Zenon
  <1>2. file' \subseteq Tags
    BY Reads, Zenon DEF TypeOK
  <1>3. TypeOK'
    <2>1. pc' \in {"parse", "error", "parsed", "crashed"} \cup Outcomes
      BY Zenon
    <2> QED  BY <1>1, <1>2, <2>1, Zenon DEF TypeOK, Trees
  <1>4. pc' \notin {"parsed"} \cup Outcomes
    BY DEF Outcomes
  <1>5. DoneInv'
    BY <1>4, Zenon DEF DoneInv
  <1> QED  BY <1>3, <1>5

LEMMA NextGroupTypes ==
  ASSUME TypeOK
  PROVE  NextGroup \in {"dont_add", "add_new", "add_to"}
  BY Zenon DEF NextGroup, TypeOK

LEMMA LastTypes ==
  ASSUME TypeOK, LastOr # <<>>
  PROVE  /\ tree[Len(tree)] # <<>> /\ LastNode(tree) \in Nodes /\ LastAnd = LastNode(tree)
         /\ \A and : ReplaceLast(and) = WithLastNode(tree, and)
  <1>1. tree \in Trees /\ tree # <<>> /\ tree[Len(tree)] # <<>>
    BY Typed, Zenon DEF LastOr
  <1>2. /\ Len(tree) \in Nat \ {0}
        /\ \A n \in 1 .. Len(tree) :
              /\ Len(tree[n]) \in Nat /\ (tree[n] # <<>> <=> Len(tree[n]) > 0)
              /\ \A k \in 1 .. Len(tree[n]) : tree[n][k] \in Nodes
    BY <1>1, TreeShape, Zenon
  <1>3. Len(tree) \in 1 .. Len(tree)
    BY <1>2
  <1>4. Len(tree[Len(tree)]) \in Nat /\ Len(tree[Len(tree)]) > 0
    BY <1>1, <1>2, <1>3, Zenon
  <1>5. Len(tree[Len(tree)]) \in 1 .. Len(tree[Len(tree)])
    BY <1>4
  <1>6. LastNode(tree) \in Nodes
    BY <1>2, <1>3, <1>5, Zenon DEF LastNode
  <1> QED  BY <1>1, <1>6, Zenon DEF LastNode, LastAnd, LastOr, ReplaceLast, WithLastNode
\* A token read keeps the invariant if it keeps the types and the tree.
LEMMA ReadKeeps ==
  ASSUME IInv, NEW token, Read(token), tree' \in Trees, tree' # <<>>,
         tag_group' \in {"dont_add", "add_new", "add_to"}, negate_next_tag' \in BOOLEAN,
         pc' \in {"parse", "error", "crashed"},
         Described(path) =>
            pc' = "parse" /\ TreeInv(path, read + 1, tree', tag_group', negate_next_tag')
  PROVE  IInv'
  <1>1. TypeOK
    BY Zenon DEF IInv
  <1>2. path' = path /\ read' = read + 1
    BY <1>1, Reads, Zenon
  <1>3. TypeOK' /\ DoneInv'
    BY <1>1, ReadTypes, Zenon
  <1>4. ASSUME Described(path')
        PROVE  /\ pc' \notin {"error", "crashed"}
               /\ TreeInv(path', read', tree', tag_group', negate_next_tag')
    <2>1. Described(path)
      BY <1>2, <1>4, Zenon
    <2>2. pc' = "parse" /\ TreeInv(path, read + 1, tree', tag_group', negate_next_tag')
      BY <2>1, Zenon
    <2>3. pc' \notin {"error", "crashed"}
      BY <2>2
    <2> QED  BY <1>2, <2>2, <2>3, Zenon
  <1> QED  BY <1>3, <1>4, Zenon DEF IInv

\* The state in which a token is read.
LEMMA ReadFrom ==
  ASSUME IInv, NEW token, Read(token)
  PROVE  /\ TypeOK /\ pc = "parse" /\ path[read + 1] = token
         /\ tree \in Trees /\ tree # <<>>
         /\ tag_group \in {"dont_add", "add_new", "add_to"} /\ negate_next_tag \in BOOLEAN
         /\ Described(path) => Before(path, read, tree, tag_group, negate_next_tag)
  <1>1. TypeOK
    BY Zenon DEF IInv
  <1>2. Described(path) => Before(path, read, tree, tag_group, negate_next_tag)
    BY <1>1, Reads, Typed, Zenon DEF IInv, Before
  <1> QED  BY <1>1, <1>2, Reads, Typed, Zenon

LEMMA NegateKeeps ==
  ASSUME IInv, Negate
  PROVE  IInv'
  <1>1. Read("-")
    BY Zenon DEF Negate
  <1>2. /\ pc = "parse" /\ path[read + 1] = "-" /\ tree \in Trees /\ tree # <<>>
        /\ tag_group \in {"dont_add", "add_new", "add_to"} /\ negate_next_tag \in BOOLEAN
        /\ Described(path) => Before(path, read, tree, tag_group, negate_next_tag)
    BY <1>1, ReadFrom, Zenon
  <1>3. Described(path) =>
          ~negate_next_tag /\ tag_group = "dont_add" /\ TreeInv(path, read + 1, tree, tag_group, TRUE)
    BY <1>2, NegateStep, Zenon
  <1>4. CASE negate_next_tag \/ tag_group # "dont_add"
    <2>1. pc' = "error" /\ tree' = tree /\ tag_group' = tag_group /\ negate_next_tag' = negate_next_tag
      BY <1>4, Zenon DEF Negate, Abort
    <2>2. ~Described(path)
      BY <1>3, <1>4, Zenon
    <2> QED  BY <1>1, <1>2, <2>1, <2>2, ReadKeeps, Zenon
  <1>5. CASE ~(negate_next_tag \/ tag_group # "dont_add")
    <2>1. pc' = pc /\ tree' = tree /\ tag_group' = tag_group /\ negate_next_tag' = TRUE
      BY <1>5, Zenon DEF Negate
    <2> QED  BY <1>1, <1>2, <1>3, <2>1, ReadKeeps, Zenon
  <1> QED  BY <1>4, <1>5, Zenon

LEMMA NewAndSetKeeps ==
  ASSUME IInv, NewAndSet
  PROVE  IInv'
  <1>1. /\ Read("+") /\ tree' = Append(tree, <<>>) /\ tag_group' = tag_group
        /\ negate_next_tag' = negate_next_tag /\ pc' = pc
    BY Zenon DEF NewAndSet
  <1>2. /\ pc = "parse" /\ path[read + 1] = "+" /\ tree \in Trees /\ tree # <<>>
        /\ tag_group \in {"dont_add", "add_new", "add_to"} /\ negate_next_tag \in BOOLEAN
        /\ Described(path) => Before(path, read, tree, tag_group, negate_next_tag)
    BY <1>1, ReadFrom, Zenon
  <1>3. Described(path) => TreeInv(path, read + 1, tree', tag_group, negate_next_tag)
    BY <1>1, <1>2, NewAndSetStep, Zenon
  <1>4. tree' \in Trees /\ tree' # <<>>
    BY <1>1, <1>2, NewOr, Zenon
  <1> QED  BY <1>1, <1>2, <1>3, <1>4, ReadKeeps, Zenon

LEMMA GroupBeginKeeps ==
  ASSUME IInv, GroupBegin
  PROVE  IInv'
  <1>1. Read("{")
    BY Zenon DEF GroupBegin
  <1>2. /\ pc = "parse" /\ path[read + 1] = "{" /\ tree \in Trees /\ tree # <<>>
        /\ tag_group \in {"dont_add", "add_new", "add_to"} /\ negate_next_tag \in BOOLEAN
        /\ Described(path) => Before(path, read, tree, tag_group, negate_next_tag)
    BY <1>1, ReadFrom, Zenon
  <1>3. Described(path) =>
          tag_group = "dont_add" /\ TreeInv(path, read + 1, tree, "add_new", negate_next_tag)
    BY <1>2, GroupBeginStep, Zenon
  <1>4. CASE tag_group # "dont_add"
    <2>1. pc' = "error" /\ tree' = tree /\ tag_group' = tag_group /\ negate_next_tag' = negate_next_tag
      BY <1>4, Zenon DEF GroupBegin, Abort
    <2> QED  BY <1>1, <1>2, <1>3, <1>4, <2>1, ReadKeeps, Zenon
  <1>5. CASE tag_group = "dont_add"
    <2>1. pc' = pc /\ tree' = tree /\ tag_group' = "add_new" /\ negate_next_tag' = negate_next_tag
      BY <1>5, Zenon DEF GroupBegin
    <2> QED  BY <1>1, <1>2, <1>3, <2>1, ReadKeeps, Zenon
  <1> QED  BY <1>4, <1>5, Zenon

LEMMA GroupEndKeeps ==
  ASSUME IInv, GroupEnd
  PROVE  IInv'
  <1>1. Read("}")
    BY Zenon DEF GroupEnd
  <1>2. /\ pc = "parse" /\ path[read + 1] = "}" /\ tree \in Trees /\ tree # <<>>
        /\ tag_group \in {"dont_add", "add_new", "add_to"} /\ negate_next_tag \in BOOLEAN
        /\ Described(path) => Before(path, read, tree, tag_group, negate_next_tag)
    BY <1>1, ReadFrom, Zenon
  <1>3. Described(path) =>
          tag_group # "dont_add" /\ TreeInv(path, read + 1, tree, "dont_add", negate_next_tag)
    BY <1>2, GroupEndStep, Zenon
  <1>4. CASE tag_group = "dont_add"
    <2>1. pc' = "error" /\ tree' = tree /\ tag_group' = tag_group /\ negate_next_tag' = negate_next_tag
      BY <1>4, Zenon DEF GroupEnd, Abort
    <2> QED  BY <1>1, <1>2, <1>3, <1>4, <2>1, ReadKeeps, Zenon
  <1>5. CASE tag_group # "dont_add"
    <2>1. pc' = pc /\ tree' = tree /\ tag_group' = "dont_add" /\ negate_next_tag' = negate_next_tag
      BY <1>5, Zenon DEF GroupEnd
    <2> QED  BY <1>1, <1>2, <1>3, <2>1, ReadKeeps, Zenon
  <1> QED  BY <1>4, <1>5, Zenon

LEMMA NegatedTagKeeps ==
  ASSUME IInv, NEW t \in Tags, NegatedTag(t)
  PROVE  IInv'
  <1>1. Read(t) /\ negate_next_tag
    BY Zenon DEF NegatedTag
  <1>2. /\ TypeOK /\ pc = "parse" /\ path[read + 1] = t /\ tree \in Trees /\ tree # <<>>
        /\ tag_group \in {"dont_add", "add_new", "add_to"} /\ negate_next_tag \in BOOLEAN
        /\ Described(path) => Before(path, read, tree, tag_group, negate_next_tag)
    BY <1>1, ReadFrom, Zenon
  <1>3. CASE LastOr = <<>>
    <2>1. pc' = "error" /\ tree' = tree /\ tag_group' = tag_group /\ negate_next_tag' = FALSE
      BY <1>3, Zenon DEF NegatedTag
    <2>2. Described(path) => tree[Len(tree)] # <<>>
      BY <1>1, <1>2, NegationHasNode, Zenon
    <2>3. ~Described(path)
      BY <1>3, <2>2, Zenon DEF LastOr
    <2> QED  BY <1>1, <1>2, <2>1, <2>3, ReadKeeps, Zenon
  <1>4. CASE LastOr # <<>>
    <2>1. /\ tree' = ReplaceLast(WithNegated(LastAnd, t)) /\ tag_group' = NextGroup
          /\ negate_next_tag' = FALSE /\ pc' = pc
      BY <1>4, Zenon DEF NegatedTag, WithNegated
    <2>2. tree' = WithLastNode(tree, WithNegated(LastNode(tree), t)) /\ LastNode(tree) \in Nodes
      BY <1>2, <1>4, <2>1, LastTypes, Zenon
    <2>3. WithNegated(LastNode(tree), t) \in Nodes
      BY <2>2, OneMoreNegated, Zenon
    <2>4. tree' \in Trees /\ tree' # <<>>
      BY <1>2, <1>4, <2>2, <2>3, LastReplaced, Zenon DEF LastOr
    <2>5. tag_group' \in {"dont_add", "add_new", "add_to"}
      BY <1>2, <2>1, NextGroupTypes, Zenon
    <2>6. ASSUME Described(path)
          PROVE  TreeInv(path, read + 1, tree', tag_group', FALSE)
      <3>1. tag_group = "dont_add" /\ TreeInv(path, read + 1, tree', tag_group, FALSE)
        BY <1>1, <1>2, <2>2, <2>6, NegatedTagStep, Zenon
      <3>2. tag_group' = tag_group
        BY <2>1, <3>1 DEF NextGroup
      <3> QED  BY <3>1, <3>2, Zenon
    <2> QED  BY <1>1, <1>2, <2>1, <2>4, <2>5, <2>6, ReadKeeps, Zenon
  <1> QED  BY <1>3, <1>4, Zenon

LEMMA GroupedTagKeeps ==
  ASSUME IInv, NEW t \in Tags, GroupedTag(t)
  PROVE  IInv'
  <1>1. /\ Read(t) /\ ~negate_next_tag /\ tag_group = "add_to"
        /\ tag_group' = tag_group /\ negate_next_tag' = negate_next_tag
    BY Zenon DEF GroupedTag
  <1>2. /\ TypeOK /\ pc = "parse" /\ path[read + 1] = t /\ tree \in Trees /\ tree # <<>>
        /\ tag_group \in {"dont_add", "add_new", "add_to"} /\ negate_next_tag \in BOOLEAN
        /\ Described(path) => Before(path, read, tree, tag_group, negate_next_tag)
    BY <1>1, ReadFrom, Zenon
  <1>3. negate_next_tag = FALSE
    BY <1>1, <1>2, Zenon
  <1>4. CASE LastOr = <<>>
    <2>1. pc' = "crashed" /\ tree' = tree
      BY <1>4, Zenon DEF GroupedTag
    <2>2. Described(path) => tree[Len(tree)] # <<>>
      BY <1>1, <1>2, <1>3, GroupedTagStep, Zenon
    <2>3. ~Described(path)
      BY <1>4, <2>2, Zenon DEF LastOr
    <2> QED  BY <1>1, <1>2, <2>1, <2>3, ReadKeeps, Zenon
  <1>5. CASE LastOr # <<>>
    <2>1. tree' = ReplaceLast(WithRelated(LastAnd, t)) /\ pc' = pc
      BY <1>5, Zenon DEF GroupedTag, WithRelated
    <2>2. tree' = WithLastNode(tree, WithRelated(LastNode(tree), t)) /\ LastNode(tree) \in Nodes
      BY <1>2, <1>5, <2>1, LastTypes, Zenon
    <2>3. WithRelated(LastNode(tree), t) \in Nodes
      BY <2>2, OneMoreRelated, Zenon
    <2>4. tree' \in Trees /\ tree' # <<>>
      BY <1>2, <1>5, <2>2, <2>3, LastReplaced, Zenon DEF LastOr
    <2>5. Described(path) => TreeInv(path, read + 1, tree', tag_group, negate_next_tag)
      BY <1>1, <1>2, <1>3, <2>2, GroupedTagStep, Zenon
    <2> QED  BY <1>1, <1>2, <2>1, <2>4, <2>5, ReadKeeps, Zenon
  <1> QED  BY <1>4, <1>5, Zenon

LEMMA NextTagKeeps ==
  ASSUME IInv, NEW t \in Tags, NextTag(t)
  PROVE  IInv'
  <1> DEFINE new == [tag |-> t, related |-> <<>>, negated |-> <<>>]
  <1>1. /\ Read(t) /\ ~negate_next_tag /\ tag_group # "add_to"
        /\ tag_group' = NextGroup /\ negate_next_tag' = negate_next_tag /\ pc' = pc
        /\ tree' = WithNode(tree, new)
    BY Zenon DEF NextTag, WithNode
  <1>2. /\ TypeOK /\ pc = "parse" /\ path[read + 1] = t /\ tree \in Trees /\ tree # <<>>
        /\ tag_group \in {"dont_add", "add_new", "add_to"} /\ negate_next_tag \in BOOLEAN
        /\ Described(path) => Before(path, read, tree, tag_group, negate_next_tag)
    BY <1>1, ReadFrom, Zenon
  <1>3. negate_next_tag = FALSE
    BY <1>1, <1>2, Zenon
  <1>4. tree' \in Trees /\ tree' # <<>>
    <2>1. new \in Nodes
      BY EmptySeq DEF Nodes
    <2> HIDE DEF new
    <2> QED  BY <1>1, <1>2, <2>1, NewNode, Zenon
  <1>5. tag_group' \in {"dont_add", "add_new", "add_to"}
    BY <1>1, <1>2, NextGroupTypes, Zenon
  <1>6. Described(path) => TreeInv(path, read + 1, tree', NextGroup, negate_next_tag)
    BY <1>1, <1>2, <1>3, NextTagStep, Zenon DEF NextGroup
  <1> HIDE DEF new
  <1> QED  BY <1>1, <1>2, <1>4, <1>5, <1>6, ReadKeeps, Zenon
-----------------------------------------------------------------------------
(* The tree of a query that has been read to its end                       *)

ReadOut(p, tr) ==
    /\ p \in Seq(Tokens) /\ Described(p) /\ tr \in Trees /\ tr # <<>>
    /\ Len(tr) = AndSetOf(p, Len(p)) + 1 /\ StartedInv(p, Len(p), tr) /\ NodesInv(p, Len(p), tr)
    /\ NegatedInv(p, Len(p), tr) /\ FirstInv(p, Len(p), tr)

LEMMA TagsAreRead ==
  ASSUME NEW p \in Seq(Tokens)
  PROVE  TagsAt(p) = TagsRead(p, Len(p)) /\ DOMAIN p = 1 .. Len(p) /\ Len(p) \in Nat
  <1>1. DOMAIN p = 1 .. Len(p) /\ Len(p) \in Nat
    BY LenProperties
  <1> QED  BY <1>1, Zenon DEF TagsAt, TagsRead

LEMMA PlusOne ==
  ASSUME NEW n \in Nat, NEW i \in 1 .. n + 1
  PROVE  i - 1 \in 0 .. n /\ (i - 1) + 1 = i
  OBVIOUS

LEMMA MinusOne ==
  ASSUME NEW n \in Nat, NEW i \in 0 .. n
  PROVE  i + 1 \in 1 .. n + 1 /\ (i + 1) - 1 = i
  OBVIOUS

\* The and_sets are the alternatives, and none is empty.
LEMMA AllStarted ==
  ASSUME NEW p, NEW tr, ReadOut(p, tr)
  PROVE  /\ AndSetOf(p, Len(p)) \in Nat /\ DOMAIN tr = 1 .. AndSetOf(p, Len(p)) + 1
         /\ \A n \in DOMAIN tr : tr[n] # <<>> /\ 1 \in DOMAIN tr[n]
  <1>1. p \in Seq(Tokens) /\ Described(p) /\ tr \in Trees /\ tr # <<>>
    BY Zenon DEF ReadOut
  <1>2. TagsAt(p) = TagsRead(p, Len(p)) /\ Len(p) \in Nat
    BY <1>1, TagsAreRead, Zenon
  <1>3. AndSetOf(p, Len(p)) \in Nat
    BY <1>2, CountFinite, Zenon DEF AndSetOf
  <1>4. DOMAIN tr = 1 .. AndSetOf(p, Len(p)) + 1
    BY <1>1, TreeShape, Zenon DEF ReadOut
  <1>5. ASSUME NEW n \in DOMAIN tr
        PROVE  tr[n] # <<>> /\ 1 \in DOMAIN tr[n]
    <2>1. n - 1 \in 0 .. AndSetOf(p, Len(p)) /\ (n - 1) + 1 = n
      BY <1>3, <1>4, PlusOne, Zenon
    <2>2. PICK i \in TagsAt(p) : AndSetOf(p, i) = n - 1
      BY <1>1, <2>1, Zenon DEF Described
    <2>3. i \in 1 .. Len(p) /\ p[i] \in Tags \cup {"}"}
      BY <1>2, Zenon DEF TagsRead
    <2>4. tr[AndSetOf(p, i) + 1] # <<>>
      BY <2>3, Zenon DEF ReadOut, StartedInv
    <2>5. tr[n] # <<>>
      BY <2>1, <2>2, <2>4, Zenon
    <2>6. Len(tr[n]) \in Nat /\ Len(tr[n]) > 0 /\ DOMAIN tr[n] = 1 .. Len(tr[n])
      BY <1>1, <2>5, TreeShape, Zenon
    <2>7. 1 \in DOMAIN tr[n]
      BY <2>6
    <2> QED  BY <2>5, <2>7
  <1> QED  BY <1>3, <1>4, <1>5, Zenon

\* A node matches when the file has one of its tags.
LEMMA NodeAsks ==
  ASSUME NEW and, NEW f
  PROVE  NodeMatches(and, f) <=> \E t \in NodeTags(and) : t \in f
  BY Zenon DEF NodeMatches, NodeTags

LEMMA TagMinusOne ==
  ASSUME NEW n \in Nat, NEW j \in 1 .. n, j > 1
  PROVE  \E q \in 1 .. n : q \in 0 .. n /\ j = q + 1 /\ j - 1 = q /\ q < n
  <1>1. j - 1 \in 1 .. n /\ j - 1 \in 0 .. n /\ j = (j - 1) + 1 /\ j - 1 < n
    OBVIOUS
  <1> QED  BY <1>1, Zenon

\* What shares a group with a tag that is not negated is not negated.
LEMMA GroupPositive ==
  ASSUME NEW p \in Seq(Tokens), Described(p), NEW i \in Positive(p, Len(p)), NEW j \in TagsAt(p),
         SameGroup(p, i, j)
  PROVE  j \in Positive(p, Len(p))
  <1>1. TagsAt(p) = TagsRead(p, Len(p)) /\ Len(p) \in Nat /\ j \in 1 .. Len(p) /\ p[j] \in Tags
    BY TagsAreRead, Zenon DEF TagsRead
  <1>2. CASE i = j
    BY <1>2, Zenon
  <1>3. CASE i # j
    <2>1. InGroup(p, j)
      BY <1>3, Zenon DEF SameGroup
    <2>2. ASSUME NegatedAt(p, j) PROVE FALSE
      <3>1. j > 1 /\ p[j - 1] = "-"
        BY <2>2, Zenon DEF NegatedAt
      <3>2. PICK q \in 1 .. Len(p) : q \in 0 .. Len(p) /\ j = q + 1 /\ j - 1 = q /\ q < Len(p)
        BY <1>1, <3>1, TagMinusOne, Zenon
      <3>3. ~InGroup(p, q)
        BY <3>1, <3>2, Syntax, Zenon
      <3>4. p[q + 1] \notin {"{", "}"}
        BY <1>1, <3>2, SignsAreNoTags, Zenon
      <3>5. InGroup(p, q + 1) <=> InGroup(p, q)
        BY <3>2, <3>4, NextCounts, Zenon
      <3> QED  BY <2>1, <3>2, <3>3, <3>5, Zenon
    <2> QED  BY <1>1, <2>2, Zenon DEF Positive
  <1> QED  BY <1>2, <1>3

\* The nodes of an and_set ask for what the tags of its alternative ask for.
Asked(p, n, f) ==
    \A i \in Positive(p, Len(p)) : AndSetOf(p, i) = n =>
        \E j \in TagsAt(p) : SameGroup(p, i, j) /\ AndSetOf(p, j) = n /\ p[j] \in f

LEMMA NodesAsk ==
  ASSUME NEW p, NEW tr, ReadOut(p, tr), NEW n \in DOMAIN tr, NEW f
  PROVE  (\A k \in DOMAIN tr[n] : NodeMatches(tr[n][k], f)) <=> Asked(p, n - 1, f)
  <1>1. p \in Seq(Tokens) /\ Described(p)
    BY Zenon DEF ReadOut
  <1>2. PICK at \in [Positive(p, Len(p)) -> Nat] : Laid(p, Len(p), tr, at)
    BY Zenon DEF ReadOut, NodesInv
  <1>3. /\ Placed(p, Len(p), tr, at) /\ Covered(p, Len(p), tr, at) /\ Grouped(p, Len(p), at)
    BY <1>2, Zenon DEF Laid
  <1>4. TagsAt(p) = TagsRead(p, Len(p))
    BY <1>1, TagsAreRead, Zenon
  <1>5. (n - 1) + 1 = n
    BY AllStarted, PlusOne, Zenon
  <1>6. ASSUME NEW i \in Positive(p, Len(p)), AndSetOf(p, i) = n - 1
        PROVE  at[i] \in DOMAIN tr[n] /\ p[i] \in NodeTags(tr[n][at[i]])
    BY <1>3, <1>5, <1>6, Zenon DEF Placed
  <1>7. ASSUME \A k \in DOMAIN tr[n] : NodeMatches(tr[n][k], f), NEW i \in Positive(p, Len(p)),
               AndSetOf(p, i) = n - 1
        PROVE  \E j \in TagsAt(p) : SameGroup(p, i, j) /\ AndSetOf(p, j) = n - 1 /\ p[j] \in f
    <2>0. at[i] \in DOMAIN tr[n]
      BY <1>6, <1>7, Zenon
    <2>1. PICK t \in NodeTags(tr[n][at[i]]) : t \in f
      BY <1>7, <2>0, NodeAsks, Zenon
    <2>2. PICK j \in Positive(p, Len(p)) : AndSetOf(p, j) = n - 1 /\ at[j] = at[i] /\ p[j] = t
      BY <1>3, <2>0, <2>1, ZenonT(60) DEF Covered
    <2>3. SameGroup(p, i, j)
      BY <1>3, <1>7, <2>2, Zenon DEF Grouped
    <2>4. j \in TagsAt(p)
      BY <1>4, Zenon DEF Positive
    <2> QED  BY <2>1, <2>2, <2>3, <2>4, Zenon
  <1>8. ASSUME Asked(p, n - 1, f), NEW k \in DOMAIN tr[n]
        PROVE  NodeMatches(tr[n][k], f)
    <2>1. tr[n][k].tag \in NodeTags(tr[n][k])
      BY Zenon DEF NodeTags
    <2>2. PICK i \in Positive(p, Len(p)) :
            AndSetOf(p, i) = n - 1 /\ at[i] = k /\ p[i] = tr[n][k].tag
      BY <1>3, <2>1, Zenon DEF Covered
    <2>3. PICK j \in TagsAt(p) : SameGroup(p, i, j) /\ AndSetOf(p, j) = n - 1 /\ p[j] \in f
      BY <1>8, <2>2, Zenon DEF Asked
    <2>4. j \in Positive(p, Len(p))
      BY <1>1, <2>3, GroupPositive, Zenon
    <2>5. at[j] = k
      BY <1>3, <2>2, <2>3, <2>4, Zenon DEF Grouped
    <2>6. p[j] \in NodeTags(tr[n][k])
      BY <1>6, <2>3, <2>4, <2>5, Zenon
    <2> QED  BY <2>3, <2>6, NodeAsks, Zenon
  <1> QED  BY <1>7, <1>8, Zenon DEF Asked

\* One alternative of what a query means.
AlternativeMatches(p, n, f) ==
    \A i \in {k \in TagsAt(p) : AndSetOf(p, k) = n} :
        IF NegatedAt(p, i) THEN p[i] \notin f
        ELSE \E j \in TagsAt(p) :
                SameGroup(p, i, j) /\ AndSetOf(p, j) = n /\ p[j] \in f

LEMMA ByAlternatives ==
  ASSUME NEW p, NEW f
  PROVE  Matches(p, f) <=> \E n \in 0 .. AndSetOf(p, Len(p)) : AlternativeMatches(p, n, f)
  BY Zenon DEF Matches, AlternativeMatches

LEMMA AlternativeAsks ==
  ASSUME NEW p \in Seq(Tokens), NEW n, NEW f
  PROVE  AlternativeMatches(p, n, f) <=>
            /\ Asked(p, n, f)
            /\ \A i \in TagsAt(p) : NegatedAt(p, i) /\ AndSetOf(p, i) = n => p[i] \notin f
  <1>1. TagsAt(p) = TagsRead(p, Len(p))
    BY TagsAreRead, Zenon
  <1>2. Positive(p, Len(p)) = {i \in TagsAt(p) : ~NegatedAt(p, i)}
    BY <1>1, Zenon DEF Positive
  <1> QED  BY <1>2, Zenon DEF AlternativeMatches, Asked
\* The negated tag an and_set's lookup reads, if any.
LEMMA NegatedRead ==
  ASSUME NEW p, NEW tr, ReadOut(p, tr), NEW n \in DOMAIN tr, NEW t \in FirstNegated(tr[n])
  PROVE  \E i \in TagsAt(p) : NegatedAt(p, i) /\ AndSetOf(p, i) = n - 1 /\ p[i] = t
  <1>1. p \in Seq(Tokens) /\ tr \in Trees /\ tr # <<>> /\ NegatedInv(p, Len(p), tr)
    BY Zenon DEF ReadOut
  <1>2. tr[n] # <<>> /\ 1 \in DOMAIN tr[n]
    BY AllStarted, Zenon
  <1>3. tr[n][1].negated # <<>> /\ t = tr[n][1].negated[1]
    BY Zenon DEF FirstNegated
  <1>4. tr[n][1] \in Nodes
    BY <1>1, <1>2, TreeShape, Zenon
  <1>5. tr[n][1].negated \in Seq(Tags)
    BY <1>4 DEF Nodes
  <1>6. 1 \in DOMAIN tr[n][1].negated
    BY <1>3, <1>5, EmptySeq, LenProperties
  <1>7. \E i \in TagsRead(p, Len(p)) :
           NegatedAt(p, i) /\ AndSetOf(p, i) = n - 1 /\ p[i] = tr[n][1].negated[1]
    BY <1>1, <1>2, <1>6, Zenon DEF NegatedInv
  <1>8. TagsAt(p) = TagsRead(p, Len(p))
    BY <1>1, TagsAreRead, Zenon
  <1> QED  BY <1>3, <1>7, <1>8, Zenon

\* The lookup accepts at least what an alternative means ...
LEMMA NoneLost ==
  ASSUME NEW p, NEW tr, ReadOut(p, tr), NEW n \in DOMAIN tr, NEW f,
         AlternativeMatches(p, n - 1, f)
  PROVE  AndSetMatches(tr[n], f)
  <1>1. p \in Seq(Tokens)
    BY Zenon DEF ReadOut
  <1>2. /\ Asked(p, n - 1, f)
        /\ \A i \in TagsAt(p) : NegatedAt(p, i) /\ AndSetOf(p, i) = n - 1 => p[i] \notin f
    BY <1>1, AlternativeAsks, Zenon
  <1>3. \A k \in DOMAIN tr[n] : NodeMatches(tr[n][k], f)
    BY <1>2, NodesAsk, Zenon
  <1>4. ASSUME NEW t \in FirstNegated(tr[n]), t \in f PROVE FALSE
    <2>1. PICK i \in TagsAt(p) : NegatedAt(p, i) /\ AndSetOf(p, i) = n - 1 /\ p[i] = t
      BY NegatedRead
    <2> QED  BY <1>2, <1>4, <2>1, Zenon
  <1>5. FirstNegated(tr[n]) \cap f = {}
    BY <1>4, Zenon
  <1> QED  BY <1>3, <1>5, Zenon DEF AndSetMatches

\* ... and no more, if every negation comes after the first tag.
OnFirstTags(p) == \A i \in Negations(p) : i = 2 \/ p[i - 2] = "+"

LEMMA Third ==
  ASSUME NEW n \in Nat, NEW i \in 1 .. n, i > 1, i - 1 > 1
  PROVE  /\ i > 2 /\ i - 1 \in 1 .. n /\ (i - 1) - 2 = i - 3 /\ (i - 2) - 1 = i - 3
         /\ i - 1 = 2 => i - 2 = 1
  OBVIOUS

LEMMA NegationAfter ==
  ASSUME NEW p \in Seq(Tokens), Described(p), NEW i \in TagsAt(p), NegatedAt(p, i)
  PROVE  i - 1 \in Negations(p) /\ i > 1 /\ i - 1 > 1
  <1>1. i \in 1 .. Len(p) /\ Len(p) \in Nat /\ DOMAIN p = 1 .. Len(p)
    BY TagsAreRead, Zenon DEF TagsRead
  <1>2. i > 1 /\ p[i - 1] = "-"
    BY Zenon DEF NegatedAt
  <1>3. PICK q \in 1 .. Len(p) : i - 1 = q
    BY <1>1, <1>2, TagMinusOne, ZenonT(60)
  <1>4. q > 1
    BY <1>2, <1>3, Syntax, Zenon
  <1> QED  BY <1>1, <1>2, <1>3, <1>4, Zenon DEF Negations

LEMMA FirstTagNegated ==
  ASSUME NEW p, NEW tr, ReadOut(p, tr), OnFirstTags(p), NEW n \in DOMAIN tr,
         NEW i \in TagsAt(p), NegatedAt(p, i), AndSetOf(p, i) = n - 1
  PROVE  p[i] \in FirstNegated(tr[n])
  <1>1. p \in Seq(Tokens) /\ Described(p) /\ FirstInv(p, Len(p), tr)
    BY Zenon DEF ReadOut
  <1>2. i \in 1 .. Len(p) /\ Len(p) \in Nat /\ i \in TagsRead(p, Len(p))
    BY <1>1, TagsAreRead, Zenon DEF TagsRead
  <1>3. i - 1 \in Negations(p) /\ i > 1 /\ i - 1 > 1
    BY <1>1, NegationAfter, Zenon
  <1>4. /\ i > 2 /\ (i - 1) - 2 = i - 3 /\ (i - 2) - 1 = i - 3 /\ (i - 1 = 2 => i - 2 = 1)
    BY <1>2, <1>3, Third, Zenon
  <1>5. i - 1 = 2 \/ p[(i - 1) - 2] = "+"
    BY <1>3, Zenon DEF OnFirstTags
  <1>6. Starts(p, i - 2)
    BY <1>4, <1>5, Zenon DEF Starts
  <1>7. SecondNegated(p, i)
    BY <1>4, <1>6, Zenon DEF SecondNegated
  <1>8. FirstOfChain(p, i, tr)
    BY <1>1, <1>2, <1>7, Zenon DEF FirstInv
  <1>9. (n - 1) + 1 = n
    <2>1. AndSetOf(p, Len(p)) \in Nat /\ n \in 1 .. AndSetOf(p, Len(p)) + 1
      BY AllStarted, Zenon
    <2> QED  BY <2>1
  <1> QED  BY <1>8, <1>9, Zenon DEF FirstOfChain, FirstNegated

LEMMA NoneMore ==
  ASSUME NEW p, NEW tr, ReadOut(p, tr), OnFirstTags(p), NEW n \in DOMAIN tr, NEW f,
         AndSetMatches(tr[n], f)
  PROVE  AlternativeMatches(p, n - 1, f)
  <1>1. p \in Seq(Tokens)
    BY Zenon DEF ReadOut
  <1>2. /\ \A k \in DOMAIN tr[n] : NodeMatches(tr[n][k], f)
        /\ FirstNegated(tr[n]) \cap f = {}
    BY Zenon DEF AndSetMatches
  <1>3. Asked(p, n - 1, f)
    BY <1>2, NodesAsk, Zenon
  <1>4. ASSUME NEW i \in TagsAt(p), NegatedAt(p, i), AndSetOf(p, i) = n - 1
        PROVE  p[i] \notin f
    <2>1. p[i] \in FirstNegated(tr[n])
      BY <1>4, FirstTagNegated, Zenon
    <2> QED  BY <1>2, <2>1, Zenon
  <1> QED  BY <1>1, <1>3, <1>4, AlternativeAsks, Zenon

\* Trying the and_sets in order comes to asking whether one of them matches.
LEMMA LeastIn ==
  ASSUME NEW S, S \subseteq Nat, S # {}
  PROVE  Min(S) \in S
  <1>1. PICK x \in S : \A y \in S : <<y, x>> \notin OpToRel(<, Nat)
    BY NatLessThanWellFounded, WFMin, Zenon
  <1>2. \A y \in S : ~ (y < x)
    BY <1>1, Zenon DEF OpToRel
  <1>3. \A y \in S : x <= y
    BY <1>2
  <1> QED  BY <1>3 DEF Min

LEMMA OutcomeTypes ==
  ASSUME NEW tr, NEW f
  PROVE  Outcome(tr, f) \in {"found", "missing", "crashed"}
  BY DEF Outcome

LEMMA FoundIff ==
  ASSUME NEW p, NEW tr, ReadOut(p, tr), NEW f
  PROVE  /\ Outcome(tr, f) \in Outcomes
         /\ Outcome(tr, f) = "found" <=> \E n \in DOMAIN tr : AndSetMatches(tr[n], f)
  <1>1. /\ AndSetOf(p, Len(p)) \in Nat /\ DOMAIN tr = 1 .. AndSetOf(p, Len(p)) + 1
        /\ \A n \in DOMAIN tr : tr[n] # <<>>
    BY AllStarted, Zenon
  <1>2. DOMAIN tr \subseteq Nat
    BY <1>1
  <1>3. Deciding(tr, f) = {n \in DOMAIN tr : AndSetMatches(tr[n], f)}
    BY <1>1, Zenon DEF Deciding
  <1>4. CASE Deciding(tr, f) = {}
    <2>1. Outcome(tr, f) = "missing"
      BY <1>4, Zenon DEF Outcome
    <2>2. ~ \E n \in DOMAIN tr : AndSetMatches(tr[n], f)
      BY <1>3, <1>4, Zenon
    <2>3. Outcome(tr, f) \in Outcomes /\ Outcome(tr, f) # "found"
      BY <2>1 DEF Outcomes
    <2> QED  BY <2>2, <2>3, Zenon
  <1>5. CASE Deciding(tr, f) # {}
    <2>1. Deciding(tr, f) \subseteq Nat
      BY <1>2, <1>3, Zenon
    <2>2. Min(Deciding(tr, f)) \in Deciding(tr, f)
      BY <1>5, <2>1, LeastIn, Zenon
    <2>3. tr[Min(Deciding(tr, f))] # <<>>
      BY <1>1, <1>3, <2>2, Zenon
    <2>4. Outcome(tr, f) = "found"
      BY <1>5, <2>3 DEF Outcome
    <2>5. \E n \in DOMAIN tr : AndSetMatches(tr[n], f)
      BY <1>3, <2>2, Zenon
    <2> QED  BY <2>4, <2>5, Zenon DEF Outcomes
  <1> QED  BY <1>4, <1>5, Zenon

LEMMA FoundIfMeant ==
  ASSUME NEW p, NEW tr, ReadOut(p, tr), NEW f, Matches(p, f)
  PROVE  Outcome(tr, f) = "found"
  <1>1. AndSetOf(p, Len(p)) \in Nat /\ DOMAIN tr = 1 .. AndSetOf(p, Len(p)) + 1
    BY AllStarted, Zenon
  <1>2. PICK n \in 0 .. AndSetOf(p, Len(p)) : AlternativeMatches(p, n, f)
    BY ByAlternatives, Zenon
  <1>3. n + 1 \in DOMAIN tr /\ (n + 1) - 1 = n
    BY <1>1, MinusOne, Zenon
  <1>4. AlternativeMatches(p, (n + 1) - 1, f)
    BY <1>2, <1>3, Zenon
  <1>5. AndSetMatches(tr[n + 1], f)
    BY <1>3, <1>4, NoneLost, Zenon
  <1> QED  BY <1>3, <1>5, FoundIff, Zenon

LEMMA MeantIfFound ==
  ASSUME NEW p, NEW tr, ReadOut(p, tr), OnFirstTags(p), NEW f, Outcome(tr, f) = "found"
  PROVE  Matches(p, f)
  <1>1. AndSetOf(p, Len(p)) \in Nat /\ DOMAIN tr = 1 .. AndSetOf(p, Len(p)) + 1
    BY AllStarted, Zenon
  <1>2. PICK n \in DOMAIN tr : AndSetMatches(tr[n], f)
    BY FoundIff, Zenon
  <1>3. n - 1 \in 0 .. AndSetOf(p, Len(p))
    BY <1>1, PlusOne, Zenon
  <1>4. AlternativeMatches(p, n - 1, f)
    BY <1>2, NoneMore, Zenon
  <1> QED  BY <1>3, <1>4, ByAlternatives, Zenon

\* A file that bears the tags of every node is found, if none is negated.
LEMMA TraversedIsFound ==
  ASSUME NEW p, NEW tr, ReadOut(p, tr), Negations(p) = {}
  PROVE  Outcome(tr, Traversed(tr)) = "found"
  <1>1. AndSetOf(p, Len(p)) \in Nat /\ DOMAIN tr = 1 .. AndSetOf(p, Len(p)) + 1
    BY AllStarted, Zenon
  <1>2. 1 \in DOMAIN tr
    BY <1>1
  <1>3. \A k \in DOMAIN tr[1] : NodeMatches(tr[1][k], Traversed(tr))
    <2> SUFFICES ASSUME NEW k \in DOMAIN tr[1] PROVE tr[1][k].tag \in Traversed(tr)
      BY Zenon DEF NodeMatches
    <2>1. tr[1][k].tag \in {tr[1][i].tag : i \in DOMAIN tr[1]}
      BY Zenon
    <2> QED  BY <1>2, <2>1, Zenon DEF Traversed
  <1>4. ASSUME NEW t \in FirstNegated(tr[1]) PROVE FALSE
    <2>1. PICK i \in TagsAt(p) : NegatedAt(p, i)
      BY <1>2, NegatedRead, Zenon
    <2>2. i - 1 \in Negations(p)
      BY <2>1, NegationAfter, Zenon DEF ReadOut
    <2> QED  BY <2>2, Zenon
  <1>5. AndSetMatches(tr[1], Traversed(tr))
    BY <1>3, <1>4, Zenon DEF AndSetMatches
  <1> QED  BY <1>2, <1>5, FoundIff, Zenon

-----------------------------------------------------------------------------
(* The end of the query, and the lookup                                    *)

LEMMA InvReadOut ==
  ASSUME IInv, Described(path), pc \in {"parsed"} \cup Outcomes
  PROVE  ReadOut(path, tree)
  <1>1. TypeOK /\ read = Len(path) /\ TreeInv(path, read, tree, tag_group, negate_next_tag)
    BY Zenon DEF IInv, DoneInv
  <1>2. path \in Seq(Tokens) /\ tree \in Trees /\ tree # <<>>
    BY <1>1, Typed, Zenon DEF TypeOK
  <1> QED  BY <1>1, <1>2, Zenon DEF ReadOut, TreeInv, FlagsInv

LEMMA DelimiterKeeps ==
  ASSUME IInv, Delimiter
  PROVE  IInv'
  <1>1. /\ pc' = "parsed" /\ read = Len(path) /\ tree' = tree /\ tag_group' = tag_group
        /\ negate_next_tag' = negate_next_tag /\ path' = path /\ read' = read /\ file' = file
    BY Zenon DEF Delimiter
  <1>2. TypeOK'
    <2>1. TypeOK /\ pc' \in {"parse", "error", "parsed", "crashed"} \cup Outcomes
      BY <1>1, Zenon DEF IInv
    <2> QED  BY <1>1, <2>1, Zenon DEF TypeOK
  <1>3. pc' \notin Outcomes /\ pc' \notin {"error", "crashed"}
    BY <1>1 DEF Outcomes
  <1>4. DoneInv'
    BY <1>1, <1>3, Zenon DEF DoneInv
  <1> QED  BY <1>1, <1>2, <1>3, <1>4, Zenon DEF IInv

LEMMA LookUpKeeps ==
  ASSUME IInv, NEW f \in SUBSET Tags, LookUp(f)
  PROVE  IInv'
  <1>1. /\ pc = "parsed" /\ pc' = Outcome(tree, f) /\ file' = f /\ tree' = tree
        /\ tag_group' = tag_group /\ negate_next_tag' = negate_next_tag
        /\ path' = path /\ read' = read
    BY Zenon DEF LookUp
  <1>2. TypeOK /\ read = Len(path)
    BY <1>1, Zenon DEF IInv, DoneInv
  <1>3. pc' \in {"parse", "error", "parsed", "crashed"} \cup Outcomes
    <2>1. pc' \in {"found", "missing", "crashed"}
      BY <1>1, OutcomeTypes, Zenon
    <2> QED  BY <2>1, Zenon DEF Outcomes
  <1>4. TypeOK'
    BY <1>1, <1>2, <1>3, Zenon DEF TypeOK
  <1>5. DoneInv'
    BY <1>1, <1>2, Zenon DEF DoneInv
  <1>6. ASSUME Described(path')
        PROVE  /\ pc' \notin {"error", "crashed"}
               /\ TreeInv(path', read', tree', tag_group', negate_next_tag')
    <2>1. Described(path)
      BY <1>1, <1>6, Zenon
    <2>2. ReadOut(path, tree)
      BY <1>1, <2>1, InvReadOut, Zenon
    <2>3. pc' \in Outcomes
      BY <1>1, <2>2, FoundIff, Zenon
    <2>4. pc' \notin {"error", "crashed"}
      BY <2>3 DEF Outcomes
    <2> QED  BY <1>1, <2>1, <2>4, Zenon DEF IInv
  <1> QED  BY <1>4, <1>5, <1>6, Zenon DEF IInv

LEMMA NextKeeps ==
  IInv /\ [Next]_vars => IInv'
  <1> SUFFICES ASSUME IInv, [Next]_vars PROVE IInv'
    OBVIOUS
  <1>1. CASE Negate
    BY <1>1, NegateKeeps, Zenon
  <1>2. CASE NewAndSet
    BY <1>2, NewAndSetKeeps, Zenon
  <1>3. CASE GroupBegin
    BY <1>3, GroupBeginKeeps, Zenon
  <1>4. CASE GroupEnd
    BY <1>4, GroupEndKeeps, Zenon
  <1>5. ASSUME NEW t \in Tags, NegatedTag(t) \/ GroupedTag(t) \/ NextTag(t)
        PROVE  IInv'
    BY <1>5, NegatedTagKeeps, GroupedTagKeeps, NextTagKeeps, Zenon
  <1>6. CASE Delimiter
    BY <1>6, DelimiterKeeps, Zenon
  <1>7. ASSUME NEW f \in SUBSET Tags, LookUp(f)
        PROVE  IInv'
    BY <1>7, LookUpKeeps, Zenon
  <1>8. CASE UNCHANGED vars
    BY <1>8, Zenon DEF vars, IInv, TypeOK, DoneInv
  <1> QED  BY <1>1, <1>2, <1>3, <1>4, <1>5, <1>6, <1>7, <1>8, Zenon DEF Next

-----------------------------------------------------------------------------
(* What follows                                                            *)

\* The invariant above holds of every query: in particular the tree and the flags
\* of parse_store() always have their types, and a described query's tree always
\* agrees with the tokens read.
THEOREM QueryInvariant == Spec => []IInv
  <1> QED  BY Initially, NextKeeps, PTL DEF Spec

\* tagsistant_querytree_parse_store() refuses no described query, at any of its
\* tokens, and neither it nor the lookup follows a NULL and_set in one.
THEOREM DescribedParse == Spec => []DescribedQueriesParse
  <1>1. IInv => DescribedQueriesParse
    BY Zenon DEF IInv, DescribedQueriesParse
  <1> QED  BY <1>1, QueryInvariant, PTL

\* tagsistant_guess_inode_from_and_set() finds every file a described query means:
\* the one negated tag it looks at was negated in that alternative.
THEOREM FilesFound == Spec => []DescribedFilesFound
  <1>1. IInv => DescribedFilesFound
    <2> SUFFICES ASSUME IInv, pc \in Outcomes, Described(path), Matches(path, file)
                 PROVE  pc = "found"
      BY Zenon DEF DescribedFilesFound
    <2>1. ReadOut(path, tree)
      BY InvReadOut, Zenon
    <2>2. pc = Outcome(tree, file)
      BY Zenon DEF IInv, DoneInv
    <2> QED  BY <2>1, <2>2, FoundIfMeant, Zenon
  <1> QED  BY <1>1, QueryInvariant, PTL

\* It finds no other file, if every negation comes right after the first tag of an
\* alternative: that tag is then the one it looks at.
THEOREM FirstNegations == Spec => []NegationOfFirstTag
  <1>1. IInv => NegationOfFirstTag
    <2> SUFFICES ASSUME IInv, pc \in Outcomes, Described(path), OnFirstTags(path)
                 PROVE  pc = "found" <=> Matches(path, file)
      BY Zenon DEF NegationOfFirstTag, OnFirstTags
    <2>1. ReadOut(path, tree)
      BY InvReadOut, Zenon
    <2>2. pc = Outcome(tree, file)
      BY Zenon DEF IInv, DoneInv
    <2> QED  BY <2>1, <2>2, FoundIfMeant, MeantIfFound, Zenon
  <1> QED  BY <1>1, QueryInvariant, PTL

\* The tags tagsistant_querytree_traverse() gives a file created through a described
\* query without negations are enough for the same query to find it.
THEOREM CreatedFound == Spec => []CreatedFileIsFound
  <1>1. IInv => CreatedFileIsFound
    <2> SUFFICES ASSUME IInv, pc = "parsed", Described(path), Negations(path) = {}
                 PROVE  Outcome(tree, Traversed(tree)) = "found"
      BY Zenon DEF CreatedFileIsFound
    <2>1. ReadOut(path, tree)
      BY InvReadOut, Zenon
    <2> QED  BY <2>1, TraversedIsFound, Zenon
  <1> QED  BY <1>1, QueryInvariant, PTL
=============================================================================
