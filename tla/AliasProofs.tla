----------------------------- MODULE AliasProofs -----------------------------
(***************************************************************************)
(* Proofs about Alias, for any threads, names, values and paths: types;    *)
(* that the alias a getattr() has found is there when it asks for its      *)
(* length, although write() and truncate() run beside it; and that a query *)
(* is expanded to what its aliases stand for.                              *)
(*                                                                         *)
(* The last is about all replacements of one alias at a time, in whatever  *)
(* order nested aliases come up, against the rounds of Meaning, which      *)
(* replace all at once.  What a round makes of a path, token by token, and *)
(* how many rounds are enough is shown first; induction over numbers and   *)
(* paths is by a first counterexample.                                     *)
(***************************************************************************)
EXTENDS Alias, SequenceTheorems, FiniteSetTheorems, NaturalsInduction, WellFoundedInduction, TLAPS

Call == [op : {"none"} \cup Ops,
         step : {"idle", "lock", "expand", "replace", "handler", "length"},
         alias : Names \cup {Missing}, value : Seq(Token), path : Seq(Token),
         pattern : Names \cup {Missing}, done : Seq(Token)]

TypeInv ==
    /\ aliases \in [Names -> Seq(Token) \cup {Missing}]
    /\ call \in [Threads -> Call]
    /\ stale \subseteq Threads /\ edits \in 0 .. MaxEdits

\* What a request at each of its steps has at hand.
StepInv ==
    \A t \in Threads :
        /\ call[t].step \in {"expand", "replace"} => call[t].op \in StoreOps
        /\ call[t].step = "replace" => call[t].pattern \in Names
        /\ call[t].step = "length" => call[t].op = "getattr"
        /\ call[t].op \in AliasOps => call[t].alias \in Names
        /\ call[t].op = "rename" => call[t].pattern \in Names

\* The lock: a request with a transaction is alone.
LockInv ==
    \A t, u \in Threads :
        t # u /\ Serving(t) /\ Serving(u) =>
            ~StartsTransaction(call[t].op) /\ ~StartsTransaction(call[u].op)

IInv == TypeInv /\ StepInv /\ LockInv /\ AliasStaysForGetattr

-----------------------------------------------------------------------------
(* Recursion                                                               *)

\* A number at which a set of numbers begins.
LEMMA LeastOf ==
  ASSUME NEW S, S \subseteq Nat, S # {}
  PROVE  \E x \in S : \A y \in S : x <= y
  <1>1. PICK x \in S : \A y \in S : <<y, x>> \notin OpToRel(<, Nat)
    BY NatLessThanWellFounded, WFMin, Zenon
  <1>2. \A y \in S : ~ (y < x)
    BY <1>1, Zenon DEF OpToRel
  <1>3. \A y \in S : x <= y
    BY <1>2
  <1> QED  BY <1>3

\* What holds of 0, and of n + 1 if it holds of n, holds of all numbers.
LEMMA Induction ==
  ASSUME NEW S, 0 \in S, \A n \in Nat : n \in S => n + 1 \in S
  PROVE  Nat \subseteq S
  <1> DEFINE Bad == Nat \ S
  <1> SUFFICES ASSUME Bad # {} PROVE FALSE
    OBVIOUS
  <1>1. PICK k \in Bad : \A y \in Bad : k <= y
    BY LeastOf
  <1>2. k \in Nat /\ k # 0
    BY <1>1
  <1>3. k - 1 \in Nat /\ ~ (k <= k - 1) /\ (k - 1) + 1 = k
    BY <1>2
  <1>4. k - 1 \in S
    BY <1>1, <1>3
  <1> QED  BY <1>1, <1>3, <1>4

\* The first values of a function that is defined by recursion.
Begins(h, m, S, b, F) ==
    h \in [0 .. m -> S] /\ h[0] = b /\ \A n \in 0 .. m - 1 : h[n + 1] = F[<<n, h[n]>>]

LEMMA BeginningsExist ==
  ASSUME NEW S, NEW b \in S, NEW F \in [Nat \X S -> S]
  PROVE  \A m \in Nat : \E h : Begins(h, m, S, b, F)
  <1> DEFINE Good == {m \in Nat : \E h : Begins(h, m, S, b, F)}
  <1>1. 0 \in Good
    <2> DEFINE h == [n \in 0 .. 0 |-> b]
    <2>1. Begins(h, 0, S, b, F)
      BY DEF Begins
    <2> HIDE DEF h
    <2> QED  BY <2>1
  <1>2. ASSUME NEW m \in Nat, m \in Good PROVE m + 1 \in Good
    <2>1. PICK h : Begins(h, m, S, b, F)
      BY <1>2
    <2> DEFINE g == [n \in 0 .. m + 1 |-> IF n = m + 1 THEN F[<<m, h[m]>>] ELSE h[n]]
    <2>2. h[m] \in S /\ F[<<m, h[m]>>] \in S
      BY <2>1 DEF Begins
    <2>3. g \in [0 .. m + 1 -> S] /\ g[0] = b
      BY <2>1, <2>2 DEF Begins
    <2>4. ASSUME NEW n \in 0 .. m PROVE g[n + 1] = F[<<n, g[n]>>]
      <3>1. CASE n = m
        <4>1. g[m + 1] = F[<<m, h[m]>>] /\ g[m] = h[m]
          OBVIOUS
        <4> QED  BY <3>1, <4>1
      <3>2. CASE n # m
        <4>1. n \in 0 .. m - 1 /\ n + 1 \in 0 .. m + 1 /\ n + 1 # m + 1 /\ n # m + 1 /\ n \in 0 .. m + 1
          BY <3>2
        <4>2. g[n + 1] = h[n + 1] /\ g[n] = h[n]
          BY <4>1
        <4>3. h[n + 1] = F[<<n, h[n]>>]
          BY <2>1, <4>1 DEF Begins
        <4> QED  BY <4>2, <4>3
      <3> QED  BY <3>1, <3>2
    <2> HIDE DEF g
    <2>5. Begins(g, m + 1, S, b, F)
      BY <2>3, <2>4 DEF Begins
    <2> QED  BY <2>5
  <1> HIDE DEF Good
  <1>3. Nat \subseteq Good
    BY <1>1, <1>2, Induction
  <1> QED  BY <1>3 DEF Good

LEMMA BeginningsAgree ==
  ASSUME NEW S, NEW b, NEW F, NEW m \in Nat, NEW h, NEW g,
         Begins(h, m, S, b, F), Begins(g, m + 1, S, b, F)
  PROVE  h[m] = g[m]
  <1> DEFINE Good == {n \in Nat : n <= m => h[n] = g[n]}
  <1>1. 0 \in Good
    BY DEF Begins
  <1>2. ASSUME NEW n \in Nat, n \in Good PROVE n + 1 \in Good
    <2> SUFFICES ASSUME n + 1 <= m PROVE h[n + 1] = g[n + 1]
      OBVIOUS
    <2>1. n \in 0 .. m - 1 /\ n \in 0 .. (m + 1) - 1 /\ n <= m
      OBVIOUS
    <2>2. h[n] = g[n]
      BY <1>2, <2>1
    <2>3. h[n + 1] = F[<<n, h[n]>>] /\ g[n + 1] = F[<<n, g[n]>>]
      BY <2>1 DEF Begins
    <2> QED  BY <2>2, <2>3
  <1> HIDE DEF Good
  <1>3. Nat \subseteq Good
    BY <1>1, <1>2, Induction
  <1> QED  BY <1>3 DEF Good

\* A function on the numbers may be defined by recursion.
Recurs(g, S, b, F) ==
    g \in [Nat -> S] /\ g[0] = b /\ \A n \in Nat : g[n + 1] = F[<<n, g[n]>>]

LEMMA Recursion ==
  ASSUME NEW S, NEW b \in S, NEW F, F \in [Nat \X S -> S]
  PROVE  \E g : Recurs(g, S, b, F)
  <1> DEFINE H(m) == CHOOSE h : Begins(h, m, S, b, F)
             g == [m \in Nat |-> H(m)[m]]
  <1>1. \A m \in Nat : Begins(H(m), m, S, b, F)
    BY BeginningsExist, Zenon
  <1> HIDE DEF H
  <1>2. \A m \in Nat : H(m)[m] \in S
    BY <1>1 DEF Begins
  <1>3. g \in [Nat -> S]
    BY <1>2
  <1>4. g[0] = b
    <2>1. H(0)[0] = b
      BY <1>1 DEF Begins
    <2> QED  BY <2>1
  <1>5. ASSUME NEW n \in Nat PROVE g[n + 1] = F[<<n, g[n]>>]
    <2>1. Begins(H(n), n, S, b, F) /\ Begins(H(n + 1), n + 1, S, b, F)
      BY <1>1
    <2>2. H(n)[n] = H(n + 1)[n]
      BY <2>1, BeginningsAgree
    <2>3. H(n + 1)[n + 1] = F[<<n, H(n + 1)[n]>>]
      BY <2>1 DEF Begins
    <2> QED  BY <2>2, <2>3
  <1> HIDE DEF g
  <1>6. Recurs(g, S, b, F)
    BY <1>3, <1>4, <1>5 DEF Recurs
  <1> QED  BY <1>6

-----------------------------------------------------------------------------
(* FlattenSeq                                                              *)

\* The parts that flattening s comes to.
Flattening(f, s) ==
    f = [i \in 1 .. Len(s) |-> IF i = 1 THEN s[i] ELSE f[i - 1] \o s[i]]

LEMMA FlattenIs ==
  ASSUME NEW s, Len(s) # 0
  PROVE  FlattenSeq(s) = (CHOOSE f : Flattening(f, s))[Len(s)]
  BY DEF FlattenSeq, Flattening

LEMMA FlatteningExists ==
  ASSUME NEW T, NEW s \in Seq(Seq(T)), Len(s) # 0
  PROVE  \E f : Flattening(f, s)
  <1> DEFINE F == [x \in Nat \X Seq(T) |-> IF x[1] + 2 <= Len(s) THEN x[2] \o s[x[1] + 2] ELSE x[2]]
  <1>1. Len(s) \in Nat /\ \A i \in 1 .. Len(s) : s[i] \in Seq(T)
    BY LenProperties, ElementOfSeq
  <1>2. F \in [Nat \X Seq(T) -> Seq(T)]
    <2> SUFFICES ASSUME NEW n \in Nat, NEW q \in Seq(T), n + 2 <= Len(s)
                 PROVE  q \o s[n + 2] \in Seq(T)
      OBVIOUS
    <2>1. s[n + 2] \in Seq(T)
      BY <1>1
    <2> QED  BY <2>1, ConcatProperties
  <1>3. \A n \in Nat, q \in Seq(T) : n + 2 <= Len(s) => F[<<n, q>>] = q \o s[n + 2]
    OBVIOUS
  <1> HIDE DEF F
  <1>4. s[1] \in Seq(T)
    BY <1>1
  <1>5. PICK g \in [Nat -> Seq(T)] : g[0] = s[1] /\ \A n \in Nat : g[n + 1] = F[<<n, g[n]>>]
    <2>1. \E g : Recurs(g, Seq(T), s[1], F)
      BY <1>2, <1>4, Recursion, Zenon
    <2> QED  BY <2>1, Zenon DEF Recurs
  <1> DEFINE f == [i \in 1 .. Len(s) |-> g[i - 1]]
  <1>6. ASSUME NEW i \in 1 .. Len(s) PROVE f[i] = IF i = 1 THEN s[i] ELSE f[i - 1] \o s[i]
    <2>1. CASE i = 1
      BY <1>1, <1>5, <2>1
    <2>2. CASE i # 1
      <3>1. i - 2 \in Nat /\ (i - 2) + 2 = i /\ (i - 2) + 1 = i - 1 /\ i <= Len(s) /\ i - 1 \in 1 .. Len(s)
        BY <1>1, <2>2
      <3>2. g[i - 1] = F[<<i - 2, g[i - 2]>>]
        BY <1>5, <3>1
      <3>3. F[<<i - 2, g[i - 2]>>] = g[i - 2] \o s[i]
        BY <1>3, <1>5, <3>1
      <3>4. f[i] = g[i - 1] /\ f[i - 1] = g[i - 2]
        BY <1>1, <3>1
      <3> QED  BY <2>2, <3>2, <3>3, <3>4
    <2> QED  BY <2>1, <2>2
  <1>7. f = [i \in 1 .. Len(s) |-> f[i]]
    OBVIOUS
  <1> HIDE DEF f
  <1>8. Flattening(f, s)
    BY <1>6, <1>7 DEF Flattening
  <1> QED  BY <1>8

LEMMA FlattenParts ==
  ASSUME NEW T, NEW s \in Seq(Seq(T)), Len(s) # 0
  PROVE  \E f : /\ FlattenSeq(s) = f[Len(s)]
                /\ f[1] = s[1] /\ \A i \in 2 .. Len(s) : f[i] = f[i - 1] \o s[i]
                /\ \A i \in 1 .. Len(s) : f[i] \in Seq(T)
  <1> DEFINE f == CHOOSE f : Flattening(f, s)
  <1>1. Flattening(f, s)
    BY FlatteningExists, Zenon
  <1>2. FlattenSeq(s) = f[Len(s)]
    BY FlattenIs
  <1> HIDE DEF f
  <1>3. Len(s) \in Nat /\ \A i \in 1 .. Len(s) : s[i] \in Seq(T)
    BY LenProperties, ElementOfSeq
  <1>4. f[1] = s[1] /\ \A i \in 2 .. Len(s) : f[i] = f[i - 1] \o s[i]
    <2>1. \A i \in 1 .. Len(s) : f[i] = IF i = 1 THEN s[i] ELSE f[i - 1] \o s[i]
      BY <1>1, Zenon DEF Flattening
    <2>2. 1 \in 1 .. Len(s) /\ \A i \in 2 .. Len(s) : i \in 1 .. Len(s) /\ i # 1
      BY <1>3
    <2> QED  BY <2>1, <2>2, Zenon
  <1> DEFINE Good == {n \in Nat : n + 1 <= Len(s) => f[n + 1] \in Seq(T)}
  <1>5. 0 \in Good
    BY <1>3, <1>4
  <1>6. ASSUME NEW n \in Nat, n \in Good PROVE n + 1 \in Good
    <2> SUFFICES ASSUME n + 2 <= Len(s) PROVE f[n + 2] \in Seq(T)
      OBVIOUS
    <2>1. n + 2 \in 2 .. Len(s) /\ (n + 2) - 1 = n + 1 /\ n + 1 <= Len(s) /\ n + 2 \in 1 .. Len(s)
      BY <1>3
    <2>2. f[n + 2] = f[n + 1] \o s[n + 2] /\ f[n + 1] \in Seq(T) /\ s[n + 2] \in Seq(T)
      BY <1>3, <1>4, <1>6, <2>1
    <2> QED  BY <2>2, ConcatProperties
  <1> HIDE DEF Good
  <1>7. Nat \subseteq Good
    BY <1>5, <1>6, Induction
  <1>8. \A i \in 1 .. Len(s) : f[i] \in Seq(T)
    <2> SUFFICES ASSUME NEW i \in 1 .. Len(s) PROVE f[i] \in Seq(T)
      OBVIOUS
    <2>1. i - 1 \in Nat /\ (i - 1) + 1 = i /\ i <= Len(s)
      BY <1>3
    <2> QED  BY <1>7, <2>1 DEF Good
  <1> QED  BY <1>2, <1>4, <1>8

\* Flattening one sequence more.
LEMMA FlattenAppend ==
  ASSUME NEW T, NEW s \in Seq(Seq(T)), NEW x \in Seq(T), NEW u, u = s \o <<x>>
  PROVE  /\ FlattenSeq(s) \in Seq(T)
         /\ FlattenSeq(u) = FlattenSeq(s) \o x
  <1>1. Len(s) \in Nat /\ <<x>> \in Seq(Seq(T)) /\ Len(<<x>>) = 1 /\ <<x>>[1] = x
    BY LenProperties
  <1>2. /\ u \in Seq(Seq(T)) /\ Len(u) = Len(s) + 1
        /\ \A i \in 1 .. Len(s) : u[i] = s[i]
        /\ u[Len(s) + 1] = x
    BY <1>1, ConcatProperties
  <1>3. PICK g : /\ FlattenSeq(u) = g[Len(u)]
                 /\ g[1] = u[1] /\ \A i \in 2 .. Len(u) : g[i] = g[i - 1] \o u[i]
                 /\ \A i \in 1 .. Len(u) : g[i] \in Seq(T)
    <2>1. Len(u) # 0
      BY <1>1, <1>2
    <2> QED  BY <1>2, <2>1, FlattenParts, Zenon
  <1>4. CASE Len(s) = 0
    <2>1. s = <<>> /\ FlattenSeq(s) = <<>>
      BY <1>4, EmptySeq DEF FlattenSeq
    <2>2. FlattenSeq(u) = x
      BY <1>2, <1>3, <1>4
    <2> QED  BY <2>1, <2>2, EmptySeq, ConcatEmptySeq
  <1>5. CASE Len(s) # 0
    <2>1. PICK f : /\ FlattenSeq(s) = f[Len(s)]
                   /\ f[1] = s[1] /\ \A i \in 2 .. Len(s) : f[i] = f[i - 1] \o s[i]
                   /\ \A i \in 1 .. Len(s) : f[i] \in Seq(T)
      BY <1>5, FlattenParts
    <2> DEFINE Good == {n \in Nat : n + 1 <= Len(s) => f[n + 1] = g[n + 1]}
    <2>2. 0 \in Good
      BY <1>1, <1>2, <1>3, <1>5, <2>1
    <2>3. ASSUME NEW n \in Nat, n \in Good PROVE n + 1 \in Good
      <3> SUFFICES ASSUME n + 2 <= Len(s) PROVE f[n + 2] = g[n + 2]
        OBVIOUS
      <3>1. /\ n + 2 \in 2 .. Len(s) /\ (n + 2) - 1 = n + 1 /\ n + 1 <= Len(s) /\ n + 2 \in 1 .. Len(s)
            /\ n + 2 \in 2 .. Len(u)
        BY <1>1, <1>2
      <3>2. f[n + 2] = f[n + 1] \o s[n + 2]
        BY <2>1, <3>1
      <3>3. g[n + 2] = g[n + 1] \o u[n + 2]
        BY <1>3, <3>1
      <3>4. s[n + 2] = u[n + 2] /\ f[n + 1] = g[n + 1]
        BY <1>2, <2>3, <3>1
      <3> QED  BY <3>2, <3>3, <3>4
    <2> HIDE DEF Good
    <2>4. Nat \subseteq Good
      BY <2>2, <2>3, Induction
    <2>5. Len(s) - 1 \in Nat /\ (Len(s) - 1) + 1 = Len(s) /\ Len(s) <= Len(s)
      BY <1>1, <1>5
    <2>6. f[Len(s)] = g[Len(s)]
      BY <2>4, <2>5 DEF Good
    <2>7. g[Len(u)] = g[Len(s)] \o x
      <3>1. Len(u) \in 2 .. Len(u) /\ Len(u) - 1 = Len(s) /\ u[Len(u)] = x
        BY <1>1, <1>2, <1>5
      <3>2. g[Len(u)] = g[Len(u) - 1] \o u[Len(u)]
        BY <1>3, <3>1, Zenon
      <3> QED  BY <3>1, <3>2, Zenon
    <2>8. Len(s) \in 1 .. Len(s)
      BY <1>1, <1>5
    <2> QED  BY <1>3, <2>1, <2>6, <2>7, <2>8, Zenon
  <1> QED  BY <1>4, <1>5

-----------------------------------------------------------------------------
(* The model's operators                                                   *)

\* The first of some places in a path.
LEMMA FirstPlace ==
  ASSUME NEW p \in Seq(Token), NEW S, S \subseteq DOMAIN p, S # {}
  PROVE  Min(S) \in S /\ Min(S) \in 1 .. Len(p) /\ Len(p) \in Nat
  <1>1. Len(p) \in Nat /\ DOMAIN p = 1 .. Len(p)
    BY LenProperties
  <1>2. S \subseteq Nat
    BY <1>1
  <1>3. \E x \in S : \A y \in S : x <= y
    BY <1>2, LeastOf
  <1>4. Min(S) \in S
    BY <1>3 DEF Min
  <1> QED  BY <1>1, <1>4

\* A part of a path is a path.
LEMMA PartOfPath ==
  ASSUME NEW p \in Seq(Token), NEW m \in Int, NEW n \in Int, 1 <= m, n <= Len(p)
  PROVE  SubSeq(p, m, n) \in Seq(Token)
  <1>1. \A i \in m .. n : p[i] \in Token
    BY ElementOfSeq, LenProperties
  <1> QED  BY <1>1, SubSeqProperties

-----------------------------------------------------------------------------
(* A round of replacements                                                 *)

Table == [Names -> Seq(Token) \cup {Missing}]
Path == Seq(Token)

\* No alias is left.
Plain(p) == \A i \in DOMAIN p : p[i] \notin Names

\* A path and one token more.
LEMMA OneMoreToken ==
  ASSUME NEW p \in Path, NEW x \in Token, NEW q, q = p \o <<x>>
  PROVE  /\ q \in Path /\ Len(p) \in Nat /\ Len(q) = Len(p) + 1
         /\ DOMAIN p = 1 .. Len(p) /\ DOMAIN q = 1 .. Len(p) + 1
         /\ \A i \in 1 .. Len(p) : q[i] = p[i]
         /\ q[Len(p) + 1] = x
  <1>1. Len(p) \in Nat /\ <<x>> \in Path /\ Len(<<x>>) = 1 /\ <<x>>[1] = x /\ DOMAIN p = 1 .. Len(p)
    BY LenProperties DEF Path
  <1>2. /\ q \in Path /\ Len(q) = Len(p) + 1
        /\ \A i \in 1 .. Len(p) + 1 : q[i] = IF i <= Len(p) THEN p[i] ELSE <<x>>[i - Len(p)]
    BY <1>1, ConcatProperties DEF Path
  <1>3. DOMAIN q = 1 .. Len(p) + 1
    BY <1>2, LenProperties DEF Path
  <1> QED  BY <1>1, <1>2, <1>3

\* Every path but the empty one is of that kind.
LEMMA LastToken ==
  ASSUME NEW q \in Path, q # <<>>
  PROVE  \E p \in Path, x \in Token : q = p \o <<x>> /\ Len(q) = Len(p) + 1 /\ Len(p) \in Nat
  <1>1. PICK p \in Path, x \in Token : q = Append(p, x)
    BY SequenceEmptyOrAppend DEF Path
  <1>2. q = p \o <<x>>
    BY <1>1, AppendIsConcat DEF Path
  <1> QED  BY <1>2, OneMoreToken

\* What holds of the empty path, and of a path with one token more, holds of all.
LEMMA PathInduction ==
  ASSUME NEW S, <<>> \in S,
         \A p \in Path, x \in Token : p \in S => p \o <<x>> \in S
  PROVE  Path \subseteq S
  <1> DEFINE Good == {n \in Nat : \A q \in Path : Len(q) = n => q \in S}
  <1>1. 0 \in Good
    BY EmptySeq DEF Path
  <1>2. ASSUME NEW n \in Nat, n \in Good PROVE n + 1 \in Good
    <2> SUFFICES ASSUME NEW q \in Path, Len(q) = n + 1 PROVE q \in S
      OBVIOUS
    <2>1. q # <<>>
      BY EmptySeq DEF Path
    <2>2. PICK p \in Path, x \in Token : q = p \o <<x>> /\ Len(q) = Len(p) + 1 /\ Len(p) \in Nat
      BY <2>1, LastToken
    <2>3. Len(p) = n
      BY <2>2
    <2>4. p \in S
      BY <1>2, <2>3
    <2> QED  BY <2>2, <2>4
  <1> HIDE DEF Good
  <1>3. Nat \subseteq Good
    BY <1>1, <1>2, Induction
  <1>4. ASSUME NEW q \in Path PROVE q \in S
    <2>1. Len(q) \in Nat
      BY LenProperties DEF Path
    <2> QED  BY <1>3, <2>1 DEF Good
  <1> QED  BY <1>4

\* Concatenation of paths.
LEMMA Joined ==
  ASSUME NEW p \in Path, NEW q \in Path
  PROVE  p \o q \in Path
  BY ConcatProperties DEF Path

Associates(p, q, r) == (p \o q) \o r = p \o (q \o r)

LEMMA JoinedTwice ==
  ASSUME NEW p \in Path, NEW q \in Path, NEW r \in Path
  PROVE  Associates(p, q, r)
  <1>1. (p \o q) \o r = p \o (q \o r)
    BY ConcatAssociative, SMTT(40) DEF Path
  <1> QED  BY <1>1, Zenon DEF Associates

LEMMA JoinedEmpty ==
  ASSUME NEW p \in Path
  PROVE  <<>> \in Path /\ p \o <<>> = p /\ <<>> \o p = p
  BY EmptySeq, ConcatEmptySeq DEF Path

LEMMA ValueType ==
  ASSUME NEW A \in Table, NEW x \in Token
  PROVE  ValueOf(A, x) \in Path /\ <<x>> \in Path
  <1>1. <<x>> \in Seq(Token) /\ <<>> \in Seq(Token)
    BY EmptySeq
  <1> QED  BY <1>1 DEF ValueOf, Table, Path

\* A round goes token by token.
LEMMA RoundOfAppend ==
  ASSUME NEW A \in Table, NEW p \in Path, NEW x \in Token
  PROVE  /\ AllReplaced(A, p) \in Path
         /\ AllReplaced(A, p \o <<x>>) = AllReplaced(A, p) \o ValueOf(A, x)
  <1> DEFINE q == p \o <<x>>
  <1>1. /\ q \in Path /\ Len(p) \in Nat /\ DOMAIN p = 1 .. Len(p) /\ DOMAIN q = 1 .. Len(p) + 1
        /\ \A i \in 1 .. Len(p) : q[i] = p[i]
        /\ q[Len(p) + 1] = x
    <2>1. q = p \o <<x>>
      OBVIOUS
    <2> HIDE DEF q
    <2>2. q \in Path
      BY <2>1, OneMoreToken
    <2>3. Len(p) \in Nat /\ DOMAIN p = 1 .. Len(p) /\ DOMAIN q = 1 .. Len(p) + 1
      BY <2>1, OneMoreToken
    <2>4. (\A i \in 1 .. Len(p) : q[i] = p[i]) /\ q[Len(p) + 1] = x
      BY <2>1, OneMoreToken
    <2> QED  BY <2>2, <2>3, <2>4
  <1> DEFINE s == [i \in DOMAIN p |-> ValueOf(A, p[i])]
             u == [i \in DOMAIN q |-> ValueOf(A, q[i])]
             v == ValueOf(A, x)
  <1>2. \A i \in 1 .. Len(p) : p[i] \in Token
    BY <1>1, ElementOfSeq DEF Path
  <1>3. v \in Path /\ \A i \in 1 .. Len(p) : ValueOf(A, p[i]) \in Path
    BY <1>2, ValueType
  <1>4. AllReplaced(A, p) = FlattenSeq(s) /\ AllReplaced(A, q) = FlattenSeq(u)
    BY Zenon DEF AllReplaced
  <1> HIDE DEF q, v
  <1>5. s \in Seq(Path) /\ Len(s) = Len(p) /\ \A i \in 1 .. Len(p) : s[i] = ValueOf(A, p[i])
    BY <1>1, <1>3
  <1>6. /\ DOMAIN u = 1 .. Len(p) + 1 /\ u[Len(p) + 1] = v
        /\ \A i \in 1 .. Len(p) : u[i] = ValueOf(A, p[i])
    BY <1>1 DEF v
  <1>7. u \in Seq(Path) /\ Len(u) = Len(p) + 1
    <2>1. u \in [1 .. Len(p) + 1 -> Path]
      <3>1. \A i \in 1 .. Len(p) + 1 : ValueOf(A, q[i]) \in Path
        <4>1. \A i \in 1 .. Len(p) + 1 : i \in 1 .. Len(p) \/ i = Len(p) + 1
          BY <1>1
        <4> QED  BY <1>1, <1>3, <4>1 DEF v
      <3> QED  BY <1>1, <3>1
    <2> QED  BY <1>1, <2>1
  <1> HIDE DEF s, u
  <1>8. u = s \o <<v>>
    <2>1. <<v>> \in Seq(Path) /\ Len(<<v>>) = 1 /\ <<v>>[1] = v
      BY <1>3
    <2> DEFINE w == s \o <<v>>
    <2>2. /\ w \in Seq(Path) /\ Len(w) = Len(p) + 1
          /\ \A i \in 1 .. Len(p) + 1 : w[i] = IF i <= Len(p) THEN s[i] ELSE <<v>>[i - Len(p)]
      BY <1>5, <2>1, ConcatProperties
    <2> HIDE DEF w
    <2>3. \A i \in 1 .. Len(u) : u[i] = w[i]
      BY <1>1, <1>5, <1>6, <1>7, <2>1, <2>2
    <2>4. u = w
      BY <1>7, <2>2, <2>3, SeqEqual
    <2> QED  BY <2>4 DEF w
  <1>9. FlattenSeq(s) \in Path /\ FlattenSeq(u) = FlattenSeq(s) \o v
    <2>1. s \in Seq(Seq(Token)) /\ v \in Seq(Token)
      BY <1>3, <1>5 DEF Path
    <2>2. FlattenSeq(s) \in Seq(Token) /\ FlattenSeq(u) = FlattenSeq(s) \o v
      <3>1. \A w : w = s \o <<v>> => FlattenSeq(s) \in Seq(Token) /\ FlattenSeq(w) = FlattenSeq(s) \o v
        BY <2>1, FlattenAppend
      <3> QED  BY <1>8, <3>1
    <2> QED  BY <2>2 DEF Path
  <1> QED  BY <1>4, <1>9 DEF q, v

LEMMA RoundOfNothing ==
  ASSUME NEW A
  PROVE  AllReplaced(A, <<>>) = <<>>
  <1> DEFINE s == [i \in DOMAIN <<>> |-> ValueOf(A, <<>>[i])]
  <1>1. s = <<>>
    OBVIOUS
  <1>2. AllReplaced(A, <<>>) = FlattenSeq(s)
    BY Zenon DEF AllReplaced
  <1> HIDE DEF s
  <1>3. Len(s) = 0
    BY <1>1
  <1> QED  BY <1>1, <1>2, <1>3 DEF FlattenSeq

\* An alias alone becomes its value.
LEMMA RoundOfToken ==
  ASSUME NEW A \in Table, NEW x \in Token
  PROVE  AllReplaced(A, <<x>>) = ValueOf(A, x)
  <1>1. <<>> \in Path /\ <<x>> \in Path /\ ValueOf(A, x) \in Path
    BY ValueType, JoinedEmpty
  <1>2. AllReplaced(A, <<>> \o <<x>>) = AllReplaced(A, <<>>) \o ValueOf(A, x)
    BY <1>1, RoundOfAppend, Zenon
  <1>3. <<>> \o <<x>> = <<x>> /\ <<>> \o ValueOf(A, x) = ValueOf(A, x)
    BY <1>1, JoinedEmpty, Zenon
  <1> QED  BY <1>2, <1>3, RoundOfNothing, Zenon

LEMMA RoundType ==
  ASSUME NEW A \in Table, NEW p \in Path
  PROVE  AllReplaced(A, p) \in Path
  <1> DEFINE S == {q \in Path : AllReplaced(A, q) \in Path}
  <1>1. <<>> \in S
    BY JoinedEmpty, RoundOfNothing
  <1>2. ASSUME NEW q \in Path, NEW x \in Token PROVE q \o <<x>> \in S
    <2>1. q \o <<x>> \in Path
      BY ValueType, Joined
    <2>2. AllReplaced(A, q) \in Path /\ ValueOf(A, x) \in Path
      BY RoundOfAppend, ValueType
    <2>3. AllReplaced(A, q \o <<x>>) \in Path
      BY <2>2, RoundOfAppend, Joined
    <2> QED  BY <2>1, <2>3
  <1> HIDE DEF S
  <1>3. Path \subseteq S
    BY <1>1, <1>2, PathInduction
  <1> QED  BY <1>3 DEF S

\* A round of two paths together is the round of each.
LEMMA RoundOfJoined ==
  ASSUME NEW A \in Table, NEW p \in Path, NEW q \in Path
  PROVE  AllReplaced(A, p \o q) = AllReplaced(A, p) \o AllReplaced(A, q)
  <1> DEFINE R(r) == AllReplaced(A, r)
             S == {r \in Path : R(p \o r) = R(p) \o R(r)}
  <1>1. R(p) \in Path
    BY RoundType
  <1>2. <<>> \in S
    BY <1>1, JoinedEmpty, RoundOfNothing
  <1>3. ASSUME NEW r \in Path, NEW x \in Token, r \in S PROVE r \o <<x>> \in S
    <2>1. <<x>> \in Path /\ ValueOf(A, x) \in Path /\ R(r) \in Path /\ p \o r \in Path /\ r \o <<x>> \in Path
      BY ValueType, RoundType, Joined
    <2>2. p \o (r \o <<x>>) = (p \o r) \o <<x>>
      <3>1. Associates(p, r, <<x>>)
        BY <2>1, JoinedTwice
      <3> QED  BY <3>1, Zenon DEF Associates
    <2>3. R((p \o r) \o <<x>>) = R(p \o r) \o ValueOf(A, x)
      BY <2>1, RoundOfAppend
    <2>4. R(r \o <<x>>) = R(r) \o ValueOf(A, x)
      BY RoundOfAppend
    <2>5. R(p \o r) = R(p) \o R(r)
      BY <1>3
    <2> DEFINE a == R(p)
               b == R(r)
               c == ValueOf(A, x)
    <2>6. (a \o b) \o c = a \o (b \o c)
      <3>1. a \in Path /\ b \in Path /\ c \in Path
        BY <1>1, <2>1
      <3> HIDE DEF a, b, c
      <3>2. Associates(a, b, c)
        BY <3>1, JoinedTwice
      <3> QED  BY <3>2, Zenon DEF Associates
    <2> HIDE DEF R
    <2>7. R(p \o (r \o <<x>>)) = R(p) \o R(r \o <<x>>)
      BY <2>2, <2>3, <2>4, <2>5, <2>6
    <2> QED  BY <2>1, <2>7
  <1> HIDE DEF S
  <1>4. Path \subseteq S
    BY <1>2, <1>3, PathInduction
  <1> QED  BY <1>4 DEF S

\* Where no alias is left there is nothing to replace.
LEMMA PlainAppend ==
  ASSUME NEW p \in Path, NEW x \in Token
  PROVE  Plain(p \o <<x>>) <=> Plain(p) /\ x \notin Names
  <1> DEFINE q == p \o <<x>>
  <1>1. /\ Len(p) \in Nat /\ DOMAIN p = 1 .. Len(p) /\ DOMAIN q = 1 .. Len(p) + 1
        /\ \A i \in 1 .. Len(p) : q[i] = p[i]
        /\ q[Len(p) + 1] = x
    <2>1. q = p \o <<x>>
      OBVIOUS
    <2> HIDE DEF q
    <2> QED  BY <2>1, OneMoreToken
  <1> HIDE DEF q
  <1>2. \A i \in 1 .. Len(p) + 1 : i \in 1 .. Len(p) \/ i = Len(p) + 1
    BY <1>1
  <1>3. 1 .. Len(p) \subseteq 1 .. Len(p) + 1 /\ Len(p) + 1 \in 1 .. Len(p) + 1
    BY <1>1
  <1>4. Plain(q) <=> Plain(p) /\ x \notin Names
    BY <1>1, <1>2, <1>3, Zenon DEF Plain
  <1> QED  BY <1>4 DEF q

LEMMA PlainJoined ==
  ASSUME NEW p \in Path, NEW q \in Path
  PROVE  Plain(p \o q) <=> Plain(p) /\ Plain(q)
  <1> DEFINE S == {r \in Path : Plain(p \o r) <=> Plain(p) /\ Plain(r)}
  <1>1. <<>> \in S
    <2>1. Plain(<<>>)
      BY DEF Plain
    <2> QED  BY <2>1, JoinedEmpty
  <1>2. ASSUME NEW r \in Path, NEW x \in Token, r \in S PROVE r \o <<x>> \in S
    <2>1. <<x>> \in Path /\ p \o r \in Path /\ r \o <<x>> \in Path
      <3>1. <<x>> \in Path
        BY DEF Path
      <3> QED  BY <3>1, Joined
    <2>2. p \o (r \o <<x>>) = (p \o r) \o <<x>>
      <3>1. Associates(p, r, <<x>>)
        BY <2>1, JoinedTwice
      <3> QED  BY <3>1, Zenon DEF Associates
    <2>3. Plain((p \o r) \o <<x>>) <=> Plain(p \o r) /\ x \notin Names
      BY <2>1, PlainAppend
    <2>4. Plain(r \o <<x>>) <=> Plain(r) /\ x \notin Names
      BY PlainAppend
    <2>5. Plain(p \o r) <=> Plain(p) /\ Plain(r)
      BY <1>2
    <2> QED  BY <2>1, <2>2, <2>3, <2>4, <2>5
  <1> HIDE DEF S
  <1>3. Path \subseteq S
    BY <1>1, <1>2, PathInduction
  <1> QED  BY <1>3 DEF S

LEMMA PlainStays ==
  ASSUME NEW A \in Table, NEW p \in Path, Plain(p)
  PROVE  AllReplaced(A, p) = p
  <1> DEFINE S == {q \in Path : Plain(q) => AllReplaced(A, q) = q}
  <1>1. <<>> \in S
    BY RoundOfNothing, JoinedEmpty
  <1>2. ASSUME NEW q \in Path, NEW x \in Token, q \in S PROVE q \o <<x>> \in S
    <2>1. q \o <<x>> \in Path
      BY ValueType, Joined
    <2> SUFFICES ASSUME Plain(q \o <<x>>) PROVE AllReplaced(A, q \o <<x>>) = q \o <<x>>
      BY <2>1
    <2>2. Plain(q) /\ x \notin Names
      BY PlainAppend
    <2>3. ValueOf(A, x) = <<x>> /\ AllReplaced(A, q) = q
      BY <1>2, <2>2 DEF ValueOf
    <2> QED  BY <2>3, RoundOfAppend
  <1> HIDE DEF S
  <1>3. Path \subseteq S
    BY <1>1, <1>2, PathInduction
  <1> QED  BY <1>3 DEF S

-----------------------------------------------------------------------------
(* Round after round                                                       *)

IsRounds(f, table, p) ==
    f = [k \in Nat |-> IF k = 0 THEN p ELSE AllReplaced(table, f[k - 1])]
Rounds(table, p) == CHOOSE f : IsRounds(f, table, p)

\* The path after k rounds.
After(table, p, k) == Rounds(table, p)[k]

LEMMA MeaningIs ==
  ASSUME NEW A, NEW p
  PROVE  Meaning(A, p) = After(A, p, Cardinality(Names))
  BY Zenon DEF Meaning, After, Rounds, IsRounds

LEMMA RoundsExist ==
  ASSUME NEW A \in Table, NEW p \in Path
  PROVE  \E f : IsRounds(f, A, p)
  <1> DEFINE F == [x \in Nat \X Path |-> AllReplaced(A, x[2])]
  <1>1. \A q \in Path : AllReplaced(A, q) \in Path
    BY RoundType
  <1>2. F \in [Nat \X Path -> Path]
    BY <1>1
  <1>3. \A n \in Nat, q \in Path : F[<<n, q>>] = AllReplaced(A, q)
    OBVIOUS
  <1> HIDE DEF F
  <1>4. PICK g : Recurs(g, Path, p, F)
    BY <1>2, Recursion, Zenon
  <1>5. g \in [Nat -> Path] /\ g[0] = p /\ \A n \in Nat : g[n + 1] = F[<<n, g[n]>>]
    BY <1>4, Zenon DEF Recurs
  <1>6. ASSUME NEW k \in Nat PROVE g[k] = IF k = 0 THEN p ELSE AllReplaced(A, g[k - 1])
    <2>1. CASE k = 0
      BY <1>5, <2>1
    <2>2. CASE k # 0
      <3>1. k - 1 \in Nat /\ (k - 1) + 1 = k
        BY <2>2
      <3>2. g[k - 1] \in Path /\ g[(k - 1) + 1] = F[<<k - 1, g[k - 1]>>]
        BY <1>5, <3>1
      <3>3. F[<<k - 1, g[k - 1]>>] = AllReplaced(A, g[k - 1])
        BY <1>3, <3>1, <3>2
      <3> QED  BY <2>2, <3>1, <3>2, <3>3
    <2> QED  BY <2>1, <2>2
  <1>7. g = [k \in Nat |-> g[k]]
    BY <1>5
  <1>8. IsRounds(g, A, p)
    BY <1>6, <1>7 DEF IsRounds
  <1> QED  BY <1>8

LEMMA AfterStart ==
  ASSUME NEW A \in Table, NEW p \in Path
  PROVE  After(A, p, 0) = p
  <1> DEFINE f == Rounds(A, p)
  <1>1. IsRounds(f, A, p)
    BY RoundsExist, Zenon DEF Rounds
  <1> HIDE DEF f
  <1>2. f[0] = p
    BY <1>1 DEF IsRounds
  <1> QED  BY <1>2 DEF f, After

LEMMA AfterNext ==
  ASSUME NEW A \in Table, NEW p \in Path, NEW k \in Nat
  PROVE  After(A, p, k + 1) = AllReplaced(A, After(A, p, k))
  <1> DEFINE f == Rounds(A, p)
  <1>1. IsRounds(f, A, p)
    BY RoundsExist, Zenon DEF Rounds
  <1> HIDE DEF f
  <1>2. \A j \in Nat : f[j] = IF j = 0 THEN p ELSE AllReplaced(A, f[j - 1])
    BY <1>1, Zenon DEF IsRounds
  <1>3. k + 1 \in Nat /\ k + 1 # 0 /\ (k + 1) - 1 = k
    OBVIOUS
  <1>4. f[k + 1] = AllReplaced(A, f[(k + 1) - 1])
    BY <1>2, <1>3, Zenon
  <1>5. f[k + 1] = AllReplaced(A, f[k])
    BY <1>3, <1>4
  <1> QED  BY <1>5 DEF f, After

LEMMA AfterType ==
  ASSUME NEW A \in Table, NEW p \in Path, NEW k \in Nat
  PROVE  After(A, p, k) \in Path
  <1> DEFINE S == {j \in Nat : After(A, p, j) \in Path}
  <1>1. 0 \in S
    BY AfterStart
  <1>2. ASSUME NEW j \in Nat, j \in S PROVE j + 1 \in S
    BY <1>2, AfterNext, RoundType
  <1> HIDE DEF S
  <1>3. Nat \subseteq S
    BY <1>1, <1>2, Induction
  <1> QED  BY <1>3 DEF S

\* The parts of a path do not meet.
LEMMA AfterJoined ==
  ASSUME NEW A \in Table, NEW p \in Path, NEW q \in Path, NEW k \in Nat
  PROVE  After(A, p \o q, k) = After(A, p, k) \o After(A, q, k)
  <1> DEFINE S == {j \in Nat : After(A, p \o q, j) = After(A, p, j) \o After(A, q, j)}
  <1>1. p \o q \in Path
    BY Joined
  <1>2. 0 \in S
    BY <1>1, AfterStart
  <1>3. ASSUME NEW j \in Nat, j \in S PROVE j + 1 \in S
    <2> DEFINE a == After(A, p, j)
               b == After(A, q, j)
    <2>1. a \in Path /\ b \in Path
      BY AfterType
    <2>2. After(A, p \o q, j) = a \o b
      BY <1>3
    <2>3. After(A, p \o q, j + 1) = AllReplaced(A, After(A, p \o q, j))
      BY <1>1, AfterNext
    <2>4. After(A, p, j + 1) = AllReplaced(A, a) /\ After(A, q, j + 1) = AllReplaced(A, b)
      BY AfterNext
    <2> HIDE DEF a, b
    <2>5. AllReplaced(A, a \o b) = AllReplaced(A, a) \o AllReplaced(A, b)
      BY <2>1, RoundOfJoined
    <2>6. After(A, p \o q, j + 1) = After(A, p, j + 1) \o After(A, q, j + 1)
      BY <2>2, <2>3, <2>4, <2>5
    <2>7. j + 1 \in Nat
      OBVIOUS
    <2> QED  BY <2>6, <2>7
  <1> HIDE DEF S
  <1>4. Nat \subseteq S
    BY <1>2, <1>3, Induction
  <1> QED  BY <1>4 DEF S

\* One round now or one round more.
LEMMA AfterRound ==
  ASSUME NEW A \in Table, NEW p \in Path, NEW k \in Nat
  PROVE  After(A, AllReplaced(A, p), k) = After(A, p, k + 1)
  <1> DEFINE q == AllReplaced(A, p)
             S == {j \in Nat : After(A, q, j) = After(A, p, j + 1)}
  <1>1. q \in Path
    BY RoundType
  <1>2. 0 \in S
    <2>1. After(A, q, 0) = q
      BY <1>1, AfterStart
    <2>2. After(A, p, 0 + 1) = AllReplaced(A, After(A, p, 0))
      BY AfterNext
    <2> QED  BY <2>1, <2>2, AfterStart
  <1> HIDE DEF q
  <1>3. ASSUME NEW j \in Nat, j \in S PROVE j + 1 \in S
    <2>1. After(A, q, j + 1) = AllReplaced(A, After(A, q, j))
      BY <1>1, AfterNext
    <2>2. j + 1 \in Nat
      OBVIOUS
    <2>3. After(A, p, (j + 1) + 1) = AllReplaced(A, After(A, p, j + 1))
      BY <2>2, AfterNext
    <2> QED  BY <1>3, <2>1, <2>2, <2>3
  <1> HIDE DEF S
  <1>4. Nat \subseteq S
    BY <1>2, <1>3, Induction
  <1> QED  BY <1>4 DEF S, q

LEMMA AfterNothing ==
  ASSUME NEW A \in Table, NEW k \in Nat
  PROVE  After(A, <<>>, k) = <<>>
  <1> DEFINE S == {j \in Nat : After(A, <<>>, j) = <<>>}
  <1>1. <<>> \in Path
    BY EmptySeq DEF Path
  <1>2. 0 \in S
    BY <1>1, AfterStart
  <1>3. ASSUME NEW j \in Nat, j \in S PROVE j + 1 \in S
    BY <1>1, <1>3, AfterNext, RoundOfNothing
  <1> HIDE DEF S
  <1>4. Nat \subseteq S
    BY <1>2, <1>3, Induction
  <1> QED  BY <1>4 DEF S

\* Once no alias is left, nothing changes.
LEMMA AfterPlain ==
  ASSUME NEW A \in Table, NEW p \in Path, NEW k \in Nat, Plain(After(A, p, k)), NEW i \in Nat
  PROVE  After(A, p, k + i) = After(A, p, k)
  <1> DEFINE S == {j \in Nat : After(A, p, k + j) = After(A, p, k)}
  <1>1. 0 \in S
    OBVIOUS
  <1>2. ASSUME NEW j \in Nat, j \in S PROVE j + 1 \in S
    <2>1. k + j \in Nat /\ (k + j) + 1 = k + (j + 1) /\ j + 1 \in Nat
      OBVIOUS
    <2>2. After(A, p, (k + j) + 1) = AllReplaced(A, After(A, p, k + j))
      BY <2>1, AfterNext
    <2>3. AllReplaced(A, After(A, p, k)) = After(A, p, k)
      BY AfterType, PlainStays
    <2> QED  BY <1>2, <2>1, <2>2, <2>3
  <1> HIDE DEF S
  <1>3. Nat \subseteq S
    BY <1>1, <1>2, Induction
  <1> QED  BY <1>3 DEF S

LEMMA AfterPlainLater ==
  ASSUME NEW A \in Table, NEW p \in Path, NEW k \in Nat, NEW j \in Nat, k <= j, Plain(After(A, p, k))
  PROVE  After(A, p, j) = After(A, p, k)
  <1>1. j - k \in Nat /\ k + (j - k) = j
    OBVIOUS
  <1>2. After(A, p, k + (j - k)) = After(A, p, k)
    BY <1>1, AfterPlain
  <1> QED  BY <1>1, <1>2

\* An alias in k + 1 rounds is its value in k.
LEMMA AfterToken ==
  ASSUME NEW A \in Table, NEW x \in Token, NEW k \in Nat
  PROVE  After(A, <<x>>, k + 1) = After(A, ValueOf(A, x), k)
  <1>1. <<x>> \in Path
    BY ValueType
  <1>2. After(A, AllReplaced(A, <<x>>), k) = After(A, <<x>>, k + 1)
    BY <1>1, AfterRound
  <1> QED  BY <1>2, RoundOfToken

\* A path is plain after k rounds if each of its tokens is.
LEMMA PlainByToken ==
  ASSUME NEW A \in Table, NEW p \in Path, NEW k \in Nat
  PROVE  Plain(After(A, p, k)) <=> \A i \in DOMAIN p : Plain(After(A, <<p[i]>>, k))
  <1> DEFINE Pl(x) == Plain(After(A, <<x>>, k))
             All(q) == \A i \in DOMAIN q : Pl(q[i])
             S == {q \in Path : Plain(After(A, q, k)) <=> All(q)}
  <1>1. <<>> \in S
    <2>1. Plain(<<>>) /\ All(<<>>) /\ <<>> \in Path
      BY EmptySeq DEF Plain, Path
    <2> QED  BY <2>1, AfterNothing
  <1>2. ASSUME NEW q \in Path, NEW x \in Token, q \in S PROVE q \o <<x>> \in S
    <2> DEFINE u == q \o <<x>>
    <2>1. <<x>> \in Path /\ u \in Path
      BY ValueType, Joined
    <2>2. After(A, q, k) \in Path /\ After(A, <<x>>, k) \in Path
      BY <2>1, AfterType
    <2>3. Plain(After(A, u, k)) <=> Plain(After(A, q, k)) /\ Pl(x)
      <3> DEFINE a == After(A, q, k)
                 b == After(A, <<x>>, k)
      <3>1. After(A, u, k) = a \o b
        <4>1. \A y \in Path : After(A, q \o y, k) = After(A, q, k) \o After(A, y, k)
          BY AfterJoined
        <4> QED  BY <2>1, <4>1, Zenon
      <3>2. a \in Path /\ b \in Path
        BY <2>2
      <3> HIDE DEF a, b, u
      <3>3. Plain(a \o b) <=> Plain(a) /\ Plain(b)
        BY <3>2, PlainJoined
      <3> QED  BY <3>1, <3>3 DEF a, b
    <2>4. u = q \o <<x>>
      OBVIOUS
    <2> HIDE DEF u, Pl
    <2>5. Len(q) \in Nat /\ DOMAIN q = 1 .. Len(q) /\ DOMAIN u = 1 .. Len(q) + 1
      BY <2>4, OneMoreToken
    <2>6. (\A i \in 1 .. Len(q) : u[i] = q[i]) /\ u[Len(q) + 1] = x
      BY <2>4, OneMoreToken
    <2>7. \A i \in 1 .. Len(q) + 1 : i \in 1 .. Len(q) \/ i = Len(q) + 1
      BY <2>5
    <2>8. 1 .. Len(q) \subseteq 1 .. Len(q) + 1 /\ Len(q) + 1 \in 1 .. Len(q) + 1
      BY <2>5
    <2>9. All(u) <=> All(q) /\ Pl(x)
      BY <2>5, <2>6, <2>7, <2>8, Zenon
    <2> HIDE DEF All
    <2>10. Plain(After(A, u, k)) <=> All(u)
      BY <1>2, <2>3, <2>9
    <2>11. u \in S
      BY <2>1, <2>10
    <2> QED  BY <2>4, <2>11
  <1> HIDE DEF S
  <1>3. Path \subseteq S
    BY <1>1, <1>2, PathInduction
  <1> QED  BY <1>3 DEF S

-----------------------------------------------------------------------------
(* As many rounds as there are aliases are enough                          *)

\* The aliases that are fully replaced after k rounds.
Settled(table, k) == {n \in Names : Plain(After(table, <<n>>, k))}

LEMMA TagSettled ==
  ASSUME NEW A \in Table, NEW x \in Token, x \notin Names, NEW k \in Nat
  PROVE  Plain(After(A, <<x>>, k))
  <1>1. <<x>> \in Path
    BY ValueType
  <1>2. Plain(<<x>>) /\ After(A, <<x>>, 0) = <<x>>
    BY <1>1, AfterStart DEF Plain
  <1>3. After(A, <<x>>, k) = After(A, <<x>>, 0)
    BY <1>1, <1>2, AfterPlainLater
  <1> QED  BY <1>2, <1>3

LEMMA SettledGrows ==
  ASSUME NEW A \in Table, NEW k \in Nat
  PROVE  Settled(A, k) \subseteq Settled(A, k + 1)
  <1> SUFFICES ASSUME NEW n \in Names, Plain(After(A, <<n>>, k))
               PROVE  Plain(After(A, <<n>>, k + 1))
    BY DEF Settled
  <1>1. <<n>> \in Path
    BY ValueType DEF Token
  <1> QED  BY <1>1, AfterPlain

\* Whether a path is plain depends on which aliases are settled.
LEMMA PlainBySettled ==
  ASSUME NEW A \in Table, NEW p \in Path, NEW k \in Nat, NEW j \in Nat,
         Settled(A, k) \subseteq Settled(A, j), Plain(After(A, p, k))
  PROVE  Plain(After(A, p, j))
  <1>1. ASSUME NEW i \in DOMAIN p PROVE Plain(After(A, <<p[i]>>, j))
    <2>1. p[i] \in Token
      BY ElementOfSeq, LenProperties DEF Path
    <2>2. Plain(After(A, <<p[i]>>, k))
      BY PlainByToken
    <2>3. CASE p[i] \in Names
      BY <2>2, <2>3 DEF Settled
    <2>4. CASE p[i] \notin Names
      BY <2>1, <2>4, TagSettled
    <2> QED  BY <2>3, <2>4
  <1> QED  BY <1>1, PlainByToken

LEMMA SettledStops ==
  ASSUME NEW A \in Table, NEW k \in Nat, NEW j \in Nat, Settled(A, k) \subseteq Settled(A, j)
  PROVE  Settled(A, k + 1) \subseteq Settled(A, j + 1)
  <1> SUFFICES ASSUME NEW n \in Names, Plain(After(A, <<n>>, k + 1))
               PROVE  Plain(After(A, <<n>>, j + 1))
    BY DEF Settled
  <1>1. n \in Token /\ ValueOf(A, n) \in Path
    BY ValueType DEF Token
  <1>2. Plain(After(A, ValueOf(A, n), k))
    BY <1>1, AfterToken
  <1>3. Plain(After(A, ValueOf(A, n), j))
    BY <1>1, <1>2, PlainBySettled
  <1> QED  BY <1>1, <1>3, AfterToken

LEMMA SettledForGood ==
  ASSUME NEW A \in Table, NEW k \in Nat, Settled(A, k + 1) \subseteq Settled(A, k), NEW i \in Nat
  PROVE  Settled(A, k + i) \subseteq Settled(A, k)
  <1> DEFINE S == {j \in Nat : Settled(A, k + j) \subseteq Settled(A, k)}
  <1>1. 0 \in S
    OBVIOUS
  <1>2. ASSUME NEW j \in Nat, j \in S PROVE j + 1 \in S
    <2>1. k + j \in Nat /\ (k + j) + 1 = k + (j + 1) /\ j + 1 \in Nat
      OBVIOUS
    <2>2. Settled(A, (k + j) + 1) \subseteq Settled(A, k + 1)
      BY <1>2, <2>1, SettledStops
    <2> QED  BY <2>1, <2>2
  <1> HIDE DEF S
  <1>3. Nat \subseteq S
    BY <1>1, <1>2, Induction
  <1> QED  BY <1>3 DEF S

\* While new aliases settle, there are as many as rounds.
LEMMA SettledCount ==
  ASSUME NEW A \in Table, IsFiniteSet(Names), NEW K \in Nat,
         \A k \in Nat : k <= K => ~ (Settled(A, k + 1) \subseteq Settled(A, k)),
         NEW k \in Nat, k <= K + 1
  PROVE  Cardinality(Settled(A, k)) >= k
  <1> DEFINE C(j) == Cardinality(Settled(A, j))
             S == {j \in Nat : j <= K + 1 => C(j) >= j}
  <1>1. \A j \in Nat : IsFiniteSet(Settled(A, j)) /\ C(j) \in Nat
    <2>1. \A j \in Nat : Settled(A, j) \subseteq Names
      BY DEF Settled
    <2> QED  BY <2>1, FS_Subset, FS_CardinalityType
  <1>2. 0 \in S
    BY <1>1
  <1>3. ASSUME NEW j \in Nat, j \in S PROVE j + 1 \in S
    <2> SUFFICES ASSUME j + 1 <= K + 1 PROVE C(j + 1) >= j + 1
      OBVIOUS
    <2>1. j <= K /\ j <= K + 1
      OBVIOUS
    <2>2. Settled(A, j) \subseteq Settled(A, j + 1) /\ Settled(A, j) # Settled(A, j + 1)
      BY <2>1, SettledGrows
    <2>3. IsFiniteSet(Settled(A, j + 1))
      BY <1>1
    <2>4. C(j) < C(j + 1)
      <3> DEFINE U == Settled(A, j)
                 V == Settled(A, j + 1)
      <3>1. U \subseteq V /\ U # V /\ IsFiniteSet(V) /\ Cardinality(U) \in Nat /\ Cardinality(V) \in Nat
        BY <1>1, <2>2, <2>3
      <3> HIDE DEF U, V
      <3>2. Cardinality(U) <= Cardinality(V) /\ (Cardinality(V) = Cardinality(U) => V = U)
        BY <3>1, FS_Subset
      <3>3. Cardinality(U) < Cardinality(V)
        BY <3>1, <3>2
      <3> QED  BY <3>3 DEF U, V
    <2>5. C(j) \in Nat /\ C(j + 1) \in Nat /\ C(j) >= j
      BY <1>1, <1>3, <2>1
    <2> HIDE DEF C
    <2> QED  BY <2>4, <2>5
  <1> HIDE DEF S
  <1>4. Nat \subseteq S
    BY <1>2, <1>3, Induction
  <1> QED  BY <1>4 DEF S

LEMMA SettledInTime ==
  ASSUME NEW A \in Table, IsFiniteSet(Names)
  PROVE  /\ Cardinality(Names) \in Nat
         /\ \E k \in Nat : k <= Cardinality(Names) /\ Settled(A, k + 1) \subseteq Settled(A, k)
  <1> DEFINE K == Cardinality(Names)
  <1>1. K \in Nat
    BY FS_CardinalityType
  <1> HIDE DEF K
  <1>2. SUFFICES ASSUME \A k \in Nat : k <= K => ~ (Settled(A, k + 1) \subseteq Settled(A, k))
                 PROVE  FALSE
    BY <1>1 DEF K
  <1>3. K + 1 \in Nat /\ K + 1 <= K + 1
    BY <1>1
  <1>4. Cardinality(Settled(A, K + 1)) >= K + 1
    BY <1>1, <1>2, <1>3, SettledCount
  <1>5. Settled(A, K + 1) \subseteq Names
    BY DEF Settled
  <1>6. Cardinality(Settled(A, K + 1)) <= Cardinality(Names) /\ IsFiniteSet(Settled(A, K + 1))
    BY <1>5, FS_Subset
  <1>7. Cardinality(Settled(A, K + 1)) \in Nat
    BY <1>6, FS_CardinalityType
  <1> QED  BY <1>1, <1>4, <1>6, <1>7 DEF K

\* A path that is ever plain is plain after these rounds, and is its meaning.
LEMMA PlainMeaning ==
  ASSUME IsFiniteSet(Names), NEW A \in Table, NEW p \in Path, NEW m \in Nat, Plain(After(A, p, m))
  PROVE  Meaning(A, p) = After(A, p, m)
  <1> DEFINE K == Cardinality(Names)
  <1>1. K \in Nat /\ \E k \in Nat : k <= K /\ Settled(A, k + 1) \subseteq Settled(A, k)
    BY SettledInTime
  <1>2. Meaning(A, p) = After(A, p, K)
    BY MeaningIs
  <1> HIDE DEF K
  <1>3. PICK k \in Nat : k <= K /\ Settled(A, k + 1) \subseteq Settled(A, k)
    BY <1>1
  <1>4. CASE m <= K
    BY <1>1, <1>2, <1>4, AfterPlainLater
  <1>5. CASE ~ (m <= K)
    <2>1. m - k \in Nat /\ k + (m - k) = m /\ K <= m
      BY <1>1, <1>3, <1>5
    <2>2. Settled(A, k + (m - k)) \subseteq Settled(A, k)
      BY <1>3, <2>1, SettledForGood
    <2>3. Settled(A, m) \subseteq Settled(A, k)
      BY <2>1, <2>2
    <2>4. Plain(After(A, p, k))
      BY <2>3, PlainBySettled
    <2>5. After(A, p, K) = After(A, p, k)
      BY <1>1, <1>3, <2>4, AfterPlainLater
    <2>6. After(A, p, m) = After(A, p, k)
      <3>1. k <= m
        BY <1>1, <1>3, <1>5
      <3> QED  BY <2>4, <3>1, AfterPlainLater
    <2> QED  BY <1>2, <2>5, <2>6
  <1> QED  BY <1>4, <1>5
-----------------------------------------------------------------------------
(* One replacement at a time                                               *)

\* Whatever q comes to when no alias is left, p comes to as well.
Leads(table, p, q) ==
    \A k \in Nat : Plain(After(table, q, k)) =>
        \E m \in Nat : After(table, p, m) = After(table, q, k)

LEMMA LeadsNowhere ==
  ASSUME NEW A, NEW p
  PROVE  Leads(A, p, p)
  BY DEF Leads

LEMMA LeadsOn ==
  ASSUME NEW A, NEW p, NEW q, NEW r, Leads(A, p, q), Leads(A, q, r)
  PROVE  Leads(A, p, r)
  <1> SUFFICES ASSUME NEW k \in Nat, Plain(After(A, r, k))
               PROVE  \E m \in Nat : After(A, p, m) = After(A, r, k)
    BY Zenon DEF Leads
  <1>1. PICK j \in Nat : After(A, q, j) = After(A, r, k)
    BY Zenon DEF Leads
  <1>2. Plain(After(A, q, j))
    BY <1>1, Zenon
  <1>3. PICK m \in Nat : After(A, p, m) = After(A, q, j)
    BY <1>2, Zenon DEF Leads
  <1> QED  BY <1>1, <1>3, Zenon

LEMMA LeadsToMeaning ==
  ASSUME IsFiniteSet(Names), NEW A \in Table, NEW p \in Path, NEW q \in Path, Leads(A, p, q), Plain(q)
  PROVE  Meaning(A, p) = q
  <1>1. After(A, q, 0) = q
    BY AfterStart
  <1>2. PICK m \in Nat : After(A, p, m) = q
    <2>1. Plain(After(A, q, 0)) /\ 0 \in Nat
      BY <1>1
    <2>2. \E m \in Nat : After(A, p, m) = After(A, q, 0)
      BY <2>1, Zenon DEF Leads
    <2> QED  BY <1>1, <2>2
  <1> QED  BY <1>2, PlainMeaning

LEMMA PlainParts ==
  ASSUME NEW x \in Path, NEW y \in Path, NEW z \in Path, Plain((x \o y) \o z)
  PROVE  Plain(x) /\ Plain(y) /\ Plain(z)
  <1>1. x \o y \in Path
    BY Joined
  <1>2. Plain(x \o y) /\ Plain(z)
    BY <1>1, PlainJoined
  <1> QED  BY <1>2, PlainJoined

\* Replacing one alias, wherever it stands.
LEMMA LeadsByReplacing ==
  ASSUME NEW A \in Table, NEW x \in Path, NEW n \in Token, NEW z \in Path, NEW v, v = ValueOf(A, n)
  PROVE  Leads(A, (x \o <<n>>) \o z, (x \o v) \o z)
  <1>1. <<n>> \in Path /\ v \in Path
    BY ValueType
  <1> SUFFICES ASSUME NEW k \in Nat, Plain(After(A, (x \o v) \o z, k))
               PROVE  After(A, (x \o <<n>>) \o z, k + 1) = After(A, (x \o v) \o z, k)
    <2>1. \A k \in Nat : k + 1 \in Nat
      OBVIOUS
    <2> QED  BY <2>1, Zenon DEF Leads
  <1> DEFINE a == After(A, x, k)
             b == After(A, v, k)
             c == After(A, z, k)
  <1>2. a \in Path /\ b \in Path /\ c \in Path
    BY <1>1, AfterType
  <1>0. \A y \in Path, j \in Nat :
          After(A, (x \o y) \o z, j) = (After(A, x, j) \o After(A, y, j)) \o After(A, z, j)
    <2> SUFFICES ASSUME NEW y \in Path, NEW j \in Nat
                 PROVE  After(A, (x \o y) \o z, j) = (After(A, x, j) \o After(A, y, j)) \o After(A, z, j)
      OBVIOUS
    <2>1. x \o y \in Path
      BY Joined
    <2>2. After(A, (x \o y) \o z, j) = After(A, x \o y, j) \o After(A, z, j)
      BY <2>1, AfterJoined
    <2>3. After(A, x \o y, j) = After(A, x, j) \o After(A, y, j)
      BY AfterJoined
    <2> QED  BY <2>2, <2>3
  <1>3. After(A, (x \o v) \o z, k) = (a \o b) \o c
    BY <1>1, <1>0, Zenon
  <1>4. k + 1 \in Nat /\ k <= k + 1
    OBVIOUS
  <1>5. After(A, (x \o <<n>>) \o z, k + 1)
            = (After(A, x, k + 1) \o After(A, <<n>>, k + 1)) \o After(A, z, k + 1)
    BY <1>1, <1>4, <1>0, Zenon
  <1>6. After(A, <<n>>, k + 1) = b
    BY AfterToken
  <1>7. Plain(a) /\ Plain(c)
    <2>1. Plain((a \o b) \o c)
      BY <1>3
    <2> HIDE DEF a, b, c
    <2> QED  BY <1>2, <2>1, PlainParts
  <1>8. After(A, x, k + 1) = a /\ After(A, z, k + 1) = c
    BY <1>4, <1>7, AfterPlainLater
  <1> QED  BY <1>3, <1>5, <1>6, <1>8

\* An alias stands for a path, perhaps an empty one.
LEMMA ExpansionType ==
  ASSUME TypeInv, NEW t \in Threads, NEW n \in Names
  PROVE  Expansion(t, n) \in Seq(Token)
  BY EmptySeq DEF Expansion, TypeInv

\* A request that begins.
LEMMA NoCallType == NoCall \in Call
  BY EmptySeq DEF NoCall, Call

-----------------------------------------------------------------------------
(* The invariant                                                           *)

\* A new request waits for the lock.
LEMMA RequestStep ==
  ASSUME IInv, NEW t \in Threads, NEW c \in Call, Request(t, c), c.step = "lock",
         c.op \in AliasOps => c.alias \in Names, c.op = "rename" => c.pattern \in Names
  PROVE  IInv'
  <1>1. call' = [call EXCEPT ![t] = c] /\ UNCHANGED <<aliases, stale>>
    BY DEF Request
  <1>2. edits' \in 0 .. MaxEdits
    BY AliasAssumption DEF Request, IInv, TypeInv
  <1>3. call' \in [Threads -> Call] /\ call'[t] = c /\ \A u \in Threads : u # t => call'[u] = call[u]
    BY <1>1 DEF IInv, TypeInv
  <1>4. TypeInv'
    BY <1>1, <1>2, <1>3 DEF IInv, TypeInv
  <1>5. StepInv'
    BY <1>3 DEF IInv, StepInv
  <1>6. LockInv'
    BY <1>3 DEF IInv, LockInv, Serving
  <1>7. AliasStaysForGetattr'
    BY <1>1, <1>3 DEF IInv, AliasStaysForGetattr
  <1> QED  BY <1>4, <1>5, <1>6, <1>7 DEF IInv

\* The lock lets a writer in alone, or readers together.
LEMMA TakeLockStep ==
  ASSUME IInv, NEW t \in Threads, TakeLock(t)
  PROVE  IInv'
  <1>1. /\ call[t].step = "lock" /\ UNCHANGED <<aliases, edits>> /\ stale' = stale \ {t}
        /\ call' = [call EXCEPT ![t].step = IF call[t].op \in StoreOps THEN "expand" ELSE "handler"]
        /\ \A u \in Threads \ {t} :
              Serving(u) => ~StartsTransaction(call[t].op) /\ ~StartsTransaction(call[u].op)
    BY DEF TakeLock
  <1>2. /\ call' \in [Threads -> Call] /\ \A u \in Threads : u # t => call'[u] = call[u]
        /\ call'[t].op = call[t].op /\ call'[t].alias = call[t].alias /\ call'[t].pattern = call[t].pattern
        /\ call'[t].step = IF call[t].op \in StoreOps THEN "expand" ELSE "handler"
    <2> DEFINE s == IF call[t].op \in StoreOps THEN "expand" ELSE "handler"
               c == [call[t] EXCEPT !.step = s]
    <2>1. s \in {"expand", "handler"} /\ call' = [call EXCEPT ![t] = c] /\ call[t] \in Call
      BY <1>1 DEF IInv, TypeInv
    <2>2. s = IF call[t].op \in StoreOps THEN "expand" ELSE "handler"
      OBVIOUS
    <2> HIDE DEF s
    <2>3. /\ c \in Call /\ c.step = s /\ c.op = call[t].op /\ c.alias = call[t].alias
          /\ c.pattern = call[t].pattern
      BY <2>1 DEF Call
    <2> HIDE DEF c
    <2> QED  BY <2>1, <2>2, <2>3 DEF IInv, TypeInv
  <1>3. TypeInv'
    BY <1>1, <1>2 DEF IInv, TypeInv
  <1>4. StepInv'
    BY <1>2 DEF IInv, StepInv
  <1>5. LockInv'
    BY <1>1, <1>2 DEF IInv, LockInv, Serving
  <1>6. AliasStaysForGetattr'
    BY <1>1, <1>2 DEF IInv, AliasStaysForGetattr
  <1> QED  BY <1>3, <1>4, <1>5, <1>6 DEF IInv

\* A step of a request that holds the lock and leaves the table alone.
LEMMA ReadingStep ==
  ASSUME IInv, NEW t \in Threads, Serving(t), UNCHANGED <<aliases, stale, edits>>,
         NEW c \in Call, call' = [call EXCEPT ![t] = c],
         c.step \in {"expand", "replace"} => c.op \in StoreOps,
         c.step = "replace" => c.pattern \in Names,
         c.step = "length" => c.op = "getattr" /\ aliases[c.alias] # Missing,
         c = NoCall \/ (/\ c.op = call[t].op /\ c.alias = call[t].alias
                        /\ c.op = "rename" => c.pattern = call[t].pattern)
  PROVE  IInv'
  <1>1. call' \in [Threads -> Call] /\ call'[t] = c /\ \A u \in Threads : u # t => call'[u] = call[u]
    BY DEF IInv, TypeInv
  <1>2. TypeInv'
    BY <1>1 DEF IInv, TypeInv
  <1>3. c = NoCall => c.op = "none" /\ c.step = "idle"
    BY DEF NoCall
  <1>4. StepInv'
    <2>1. /\ c.op \in AliasOps => c.alias \in Names
          /\ c.op = "rename" => c.pattern \in Names
      BY <1>3 DEF IInv, StepInv, AliasOps
    <2> QED  BY <1>1, <2>1 DEF IInv, StepInv
  <1>5. LockInv'
    BY <1>1, <1>3 DEF IInv, LockInv, Serving
  <1>6. AliasStaysForGetattr'
    BY <1>1 DEF IInv, AliasStaysForGetattr
  <1> QED  BY <1>2, <1>4, <1>5, <1>6 DEF IInv

\* tagsistant_expand_path()
LEMMA ExpandStep ==
  ASSUME IInv, NEW t \in Threads, Match(t) \/ Replace(t) \/ Replaced(t) \/ Expanded(t)
  PROVE  IInv'
  <1>1. /\ call[t] \in Call /\ call[t].path \in Seq(Token) /\ call[t].done \in Seq(Token)
        /\ call[t].step \in {"expand", "replace"} /\ call[t].op \in StoreOps
        /\ call[t].op # "rename" /\ Serving(t) /\ TypeInv
    BY DEF IInv, TypeInv, StepInv, Call, StoreOps, Match, Replace, Replaced, Expanded, Serving
  <1>2. CASE Match(t)
    <2> DEFINE S == AliasesIn(call[t].path)
               c == [call[t] EXCEPT !.step = "replace", !.pattern = call[t].path[Min(S)], !.done = <<>>]
    <2>1. /\ S # {} /\ S \subseteq DOMAIN call[t].path /\ \A i \in S : call[t].path[i] \in Names
          /\ UNCHANGED <<aliases, stale, edits>>
      BY <1>2 DEF Match, AliasesIn
    <2>2. call[t].path[Min(S)] \in Names
      BY <1>1, <2>1, FirstPlace
    <2> HIDE DEF S
    <2>3. call' = [call EXCEPT ![t] = c]
      BY <1>2 DEF Match, S, IInv, TypeInv
    <2>4. /\ c \in Call /\ c.step = "replace" /\ c.pattern \in Names /\ c.op = call[t].op
          /\ c.alias = call[t].alias
      BY <1>1, <2>2, EmptySeq DEF Call
    <2> HIDE DEF c
    <2> QED  BY <1>1, <2>1, <2>3, <2>4, ReadingStep
  <1>3. CASE Replace(t)
    <2> DEFINE i == Min(MatchesIn(t))
               rest == IF call[t].path[i] = call[t].pattern THEN <<>> ELSE <<Debris>>
               done == call[t].done \o SubSeq(call[t].path, 1, i - 1)
                        \o Expansion(t, call[t].pattern) \o rest
               path == SubSeq(call[t].path, i + 1, Len(call[t].path))
               c == [call[t] EXCEPT !.done = done, !.path = path]
    <2>1. /\ MatchesIn(t) # {} /\ MatchesIn(t) \subseteq DOMAIN call[t].path
          /\ call[t].step = "replace" /\ UNCHANGED <<aliases, stale, edits>>
      BY <1>3 DEF Replace, MatchesIn
    <2>2. i \in 1 .. Len(call[t].path) /\ Len(call[t].path) \in Nat
      BY <1>1, <2>1, FirstPlace
    <2>3. call[t].pattern \in Names
      BY <2>1 DEF IInv, StepInv
    <2>4. rest \in Seq(Token)
      <3>1. Debris \in Token
        BY DEF Token
      <3> QED  BY <3>1, EmptySeq
    <2>5. SubSeq(call[t].path, 1, i - 1) \in Seq(Token) /\ path \in Seq(Token)
      BY <1>1, <2>2, PartOfPath
    <2>6. Expansion(t, call[t].pattern) \in Seq(Token)
      BY <1>1, <2>3, ExpansionType
    <2>7. call' = [call EXCEPT ![t] = c]
      BY <1>3 DEF Replace, IInv, TypeInv
    <2>8. done \in Seq(Token)
      <3> HIDE DEF rest, i
      <3> QED  BY <1>1, <2>4, <2>5, <2>6, ConcatProperties
    <2> HIDE DEF i, rest, done, path
    <2>9. /\ c \in Call /\ c.step = "replace" /\ c.pattern \in Names /\ c.op = call[t].op
          /\ c.alias = call[t].alias
      BY <1>1, <2>1, <2>3, <2>5, <2>8 DEF Call
    <2> HIDE DEF c
    <2> QED  BY <1>1, <2>1, <2>7, <2>9, ReadingStep
  <1>4. CASE Replaced(t)
    <2> DEFINE path == call[t].done \o call[t].path
               c == [call[t] EXCEPT !.step = "expand", !.path = path, !.done = <<>>, !.pattern = Missing]
    <2>1. path \in Seq(Token)
      BY <1>1, ConcatProperties
    <2>2. call' = [call EXCEPT ![t] = c] /\ UNCHANGED <<aliases, stale, edits>>
      BY <1>4 DEF Replaced, IInv, TypeInv
    <2> HIDE DEF path
    <2>3. c \in Call /\ c.step = "expand" /\ c.op = call[t].op /\ c.alias = call[t].alias
      BY <1>1, <2>1, EmptySeq DEF Call
    <2> HIDE DEF c
    <2> QED  BY <1>1, <2>2, <2>3, ReadingStep
  <1>5. CASE Expanded(t)
    <2> DEFINE c == [call[t] EXCEPT !.step = "handler"]
    <2>1. call' = [call EXCEPT ![t] = c] /\ UNCHANGED <<aliases, stale, edits>>
      BY <1>5 DEF Expanded, IInv, TypeInv
    <2>2. c \in Call /\ c.step = "handler" /\ c.op = call[t].op /\ c.alias = call[t].alias
      BY <1>1 DEF Call
    <2> HIDE DEF c
    <2> QED  BY <1>1, <2>1, <2>2, ReadingStep
  <1> QED  BY <1>2, <1>3, <1>4, <1>5

\* The end of a request on store/, and getattr() of an alias.
LEMMA AnswerStep ==
  ASSUME IInv, NEW t \in Threads, Answer(t) \/ GetattrExists(t) \/ GetattrLength(t)
  PROVE  IInv'
  <1>1. call[t] \in Call /\ Serving(t) /\ UNCHANGED <<aliases, stale, edits>>
    BY DEF IInv, TypeInv, Answer, GetattrExists, GetattrLength, Handles, Serving
  <1>2. CASE call' = [call EXCEPT ![t] = NoCall]
    <2>1. NoCall.step = "idle"
      BY DEF NoCall
    <2> QED  BY <1>1, <1>2, <2>1, NoCallType, ReadingStep
  <1>3. CASE GetattrExists(t) /\ aliases[call[t].alias] # Missing
    <2> DEFINE c == [call[t] EXCEPT !.step = "length"]
    <2>1. call' = [call EXCEPT ![t] = c] /\ call[t].op = "getattr"
      BY <1>3 DEF GetattrExists, Handles, IInv, TypeInv
    <2>2. c \in Call /\ c.step = "length" /\ c.op = call[t].op /\ c.alias = call[t].alias
      BY <1>1 DEF Call
    <2> HIDE DEF c
    <2> QED  BY <1>1, <1>3, <2>1, <2>2, ReadingStep
  <1> QED
    BY <1>2, <1>3 DEF Answer, GetattrExists, GetattrLength, IInv, TypeInv

\* A request that edits the table: alone, or removing nothing.
LEMMA SaveStep ==
  ASSUME IInv, NEW t \in Threads, Serving(t), NEW table \in [Names -> Seq(Token) \cup {Missing}],
         Save(t, table),
         \/ StartsTransaction(call[t].op)
         \/ \A n \in Names : aliases[n] # Missing => table[n] # Missing
  PROVE  IInv'
  <1>1. /\ aliases' = table /\ call' = [call EXCEPT ![t] = NoCall] /\ edits' = edits
        /\ stale' \subseteq stale \cup Threads
    BY DEF Save
  <1>2. /\ call' \in [Threads -> Call] /\ call'[t] = NoCall
        /\ \A u \in Threads : u # t => call'[u] = call[u]
    BY <1>1, NoCallType DEF IInv, TypeInv
  <1>3. NoCall.op = "none" /\ NoCall.step = "idle"
    BY DEF NoCall
  <1>4. TypeInv'
    BY <1>1, <1>2 DEF IInv, TypeInv
  <1>5. StepInv'
    BY <1>2, <1>3 DEF IInv, StepInv, AliasOps
  <1>6. LockInv'
    BY <1>2, <1>3 DEF IInv, LockInv, Serving
  <1>7. AliasStaysForGetattr'
    <2> SUFFICES ASSUME NEW u \in Threads, call'[u].step = "length"
                 PROVE  aliases'[call'[u].alias] # Missing
      BY DEF AliasStaysForGetattr
    <2>1. u # t /\ call'[u] = call[u] /\ Serving(u)
      BY <1>2, <1>3 DEF Serving
    <2>2. ~StartsTransaction(call[t].op)
      BY <2>1 DEF IInv, LockInv
    <2>3. call[u].alias \in Names /\ aliases[call[u].alias] # Missing
      BY <2>1 DEF IInv, StepInv, AliasStaysForGetattr, AliasOps
    <2> QED  BY <1>1, <2>1, <2>2, <2>3
  <1> QED  BY <1>4, <1>5, <1>6, <1>7 DEF IInv

\* mknod(), unlink(), rename(), write() and truncate() of an alias.
LEMMA EditStep ==
  ASSUME IInv, NEW t \in Threads, Create(t) \/ Delete(t) \/ Rename(t) \/ Write(t) \/ Truncate(t)
  PROVE  IInv'
  <1>1. /\ Serving(t) /\ call[t].alias \in Names /\ call[t].value \in Seq(Token)
        /\ Rename(t) => call[t].pattern \in Names
    BY DEF IInv, TypeInv, StepInv, Call, AliasOps, Create, Delete, Rename, Write, Truncate, Handles, Serving
  <1>2. <<>> \in Seq(Token) /\ Missing \notin Seq(Token)
    BY EmptySeq, QueriesAssumption
  <1>3. aliases \in [Names -> Seq(Token) \cup {Missing}]
    BY DEF IInv, TypeInv
  <1>4. CASE Create(t)
    <2> DEFINE table == [aliases EXCEPT ![call[t].alias] = IF @ = Missing THEN <<>> ELSE @]
    <2>1. table \in [Names -> Seq(Token) \cup {Missing}]
      BY <1>1, <1>2, <1>3
    <2>2. Save(t, table) /\ StartsTransaction(call[t].op)
      BY <1>4 DEF Create, Handles, StartsTransaction
    <2> QED  BY <1>1, <2>1, <2>2, SaveStep
  <1>5. CASE Delete(t)
    <2> DEFINE table == [aliases EXCEPT ![call[t].alias] = Missing]
    <2>1. table \in [Names -> Seq(Token) \cup {Missing}]
      BY <1>1, <1>3
    <2>2. Save(t, table) /\ StartsTransaction(call[t].op)
      BY <1>5 DEF Delete, Handles, StartsTransaction
    <2> QED  BY <1>1, <2>1, <2>2, SaveStep
  <1>6. CASE Rename(t)
    <2>1. Renamed(call[t].alias, call[t].pattern) \in [Names -> Seq(Token) \cup {Missing}]
      BY <1>1, <1>3, <1>6 DEF Renamed
    <2>2. Save(t, Renamed(call[t].alias, call[t].pattern)) /\ StartsTransaction(call[t].op)
      BY <1>6 DEF Rename, Handles, StartsTransaction
    <2> QED  BY <1>1, <2>1, <2>2, SaveStep
  <1>7. ASSUME NEW v \in Seq(Token), Save(t, Set(call[t].alias, v)) PROVE IInv'
    <2>1. /\ Set(call[t].alias, v) \in [Names -> Seq(Token) \cup {Missing}]
          /\ \A n \in Names : aliases[n] # Missing => Set(call[t].alias, v)[n] # Missing
      BY <1>1, <1>2, <1>3, <1>7 DEF Set
    <2> QED  BY <1>1, <1>7, <2>1, SaveStep
  <1> QED  BY <1>1, <1>2, <1>4, <1>5, <1>6, <1>7 DEF Write, Truncate

\* The invariant holds from the start and every step keeps it.
THEOREM AliasInvHolds == Spec => []IInv
  <1>1. Init => IInv
    <2> SUFFICES ASSUME Init PROVE IInv
      OBVIOUS
    <2>1. call = [t \in Threads |-> NoCall] /\ NoCall.op = "none" /\ NoCall.step = "idle"
      BY DEF Init, NoCall
    <2>2. TypeInv
      BY <2>1, NoCallType, AliasAssumption DEF Init, TypeInv
    <2> QED  BY <2>1, <2>2 DEF IInv, StepInv, LockInv, AliasStaysForGetattr, Serving, AliasOps
  <1>2. IInv /\ [Next]_vars => IInv'
    <2> SUFFICES ASSUME IInv, [Next]_vars PROVE IInv'
      OBVIOUS
    <2>1. CASE UNCHANGED vars
      BY <2>1 DEF vars, IInv, TypeInv, StepInv, LockInv, AliasStaysForGetattr, Serving
    <2>2. ASSUME NEW t \in Threads, NEW op \in Ops \cap StoreOps, NEW p \in Paths, StoreRequest(t, op, p)
          PROVE  IInv'
      <3> DEFINE c == [NoCall EXCEPT !.op = op, !.step = "lock", !.value = p, !.path = p]
      <3>1. p \in Seq(Token)
        BY <2>2, QueriesAssumption
      <3>2. c \in Call /\ c.step = "lock" /\ c.op = op
        BY <2>2, <3>1, NoCallType DEF Call
      <3>3. op \notin AliasOps
        BY <2>2 DEF StoreOps, AliasOps
      <3>4. Request(t, c)
        BY <2>2 DEF StoreRequest
      <3> HIDE DEF c
      <3> QED  BY <2>2, <3>2, <3>3, <3>4, RequestStep DEF AliasOps
    <2>3. ASSUME NEW t \in Threads, NEW op \in Ops, NEW n \in Names, NEW v \in Seq(Token),
                 NEW to \in Names \cup {Missing}, op = "rename" => to \in Names,
                 AliasRequest(t, op, n, v, to)
          PROVE  IInv'
      <3> DEFINE c == [NoCall EXCEPT !.op = op, !.step = "lock", !.alias = n, !.value = v, !.pattern = to]
      <3>1. c \in Call /\ c.step = "lock" /\ c.op = op /\ c.alias = n /\ c.pattern = to
        BY <2>3, NoCallType DEF Call
      <3>2. Request(t, c)
        BY <2>3 DEF AliasRequest
      <3> HIDE DEF c
      <3> QED  BY <2>3, <3>1, <3>2, RequestStep
    <2>4. ASSUME NEW t \in Threads, Serve(t) PROVE IInv'
      BY <2>4, TakeLockStep, ExpandStep, AnswerStep, EditStep DEF Serve
    <2> QED
      BY <2>1, <2>2, <2>3, <2>4, EmptySeq, QueriesAssumption DEF Next
  <1> QED  BY <1>1, <1>2, PTL DEF Spec

\* strlen() in tagsistant_sql_alias_get_length() gets a string: unlink() and
\* rename() wait for the getattr() that has found the alias, and the requests
\* that do not wait remove none.
THEOREM AliasStays == Spec => []AliasStaysForGetattr
  BY AliasInvHolds, PTL DEF IInv

-----------------------------------------------------------------------------
(* Expansion                                                               *)

\* What a query holds at each of its steps, and how it came from the path
\* the client asked for: no replacement loses what the path stands for.
Shape(c) ==
    c.op \in {"query", "update"} =>
        /\ c.step = "lock" => c.path = c.value /\ c.done = <<>>
        /\ c.step = "expand" => c.done = <<>>
        /\ c.step = "handler" => c.done = <<>> /\ Plain(c.path)

Faithful(table, c) ==
    c.op \in {"query", "update"} /\ c.step \in {"expand", "replace", "handler"} =>
        Leads(table, c.value, c.done \o c.path)

ExpandInv == \A t \in Threads : Shape(call[t]) /\ (t \notin stale => Faithful(aliases, call[t]))

\* A step of one request that leaves the table alone.
LEMMA OneRequest ==
  ASSUME TypeInv, ExpandInv, NEW t \in Threads, NEW c, call' = [call EXCEPT ![t] = c],
         aliases' = aliases, \A u \in Threads : u # t => (u \in stale' <=> u \in stale),
         Shape(c), t \notin stale' => Faithful(aliases, c)
  PROVE  ExpandInv'
  <1>1. call'[t] = c /\ \A u \in Threads : u # t => call'[u] = call[u]
    BY DEF TypeInv
  <1> SUFFICES ASSUME NEW u \in Threads
               PROVE  Shape(call'[u]) /\ (u \notin stale' => Faithful(aliases', call'[u]))
    BY Zenon DEF ExpandInv
  <1>2. CASE u = t
    BY <1>1, <1>2
  <1>3. CASE u # t
    <2>1. call'[u] = call[u] /\ (u \notin stale' => u \notin stale)
      BY <1>1, <1>3
    <2> QED  BY <2>1 DEF ExpandInv
  <1> QED  BY <1>2, <1>3

\* Requests on alias/ are not expanded.
LEMMA NotExpanded ==
  ASSUME NEW c, c.op \notin {"query", "update"}, NEW A
  PROVE  Shape(c) /\ Faithful(A, c)
  BY Zenon DEF Shape, Faithful

LEMMA IdleNotExpanded ==
  ASSUME NEW A
  PROVE  Shape(NoCall) /\ Faithful(A, NoCall)
  <1>1. NoCall.op = "none"
    BY DEF NoCall
  <1> QED  BY <1>1 DEF Shape, Faithful

\* An edit: whoever is being served has met it.
LEMMA SaveExpandStep ==
  ASSUME TypeInv, ExpandInv, NEW t \in Threads, NEW table, Save(t, table)
  PROVE  ExpandInv'
  <1>1. /\ aliases' = table /\ call' = [call EXCEPT ![t] = NoCall]
        /\ stale' = IF table = aliases THEN stale ELSE stale \cup {u \in Threads \ {t} : Serving(u)}
    BY DEF Save
  <1>2. call'[t] = NoCall /\ \A u \in Threads : u # t => call'[u] = call[u]
    BY <1>1 DEF TypeInv
  <1> SUFFICES ASSUME NEW u \in Threads
               PROVE  Shape(call'[u]) /\ (u \notin stale' => Faithful(aliases', call'[u]))
    BY Zenon DEF ExpandInv
  <1>3. CASE u = t
    BY <1>2, <1>3, IdleNotExpanded
  <1>4. CASE u # t
    <2>1. call'[u] = call[u] /\ Shape(call[u]) /\ (u \notin stale => Faithful(aliases, call[u]))
      BY <1>2, <1>4 DEF ExpandInv
    <2>2. CASE table = aliases
      BY <1>1, <2>1, <2>2
    <2>3. CASE table # aliases
      <3>1. u \notin stale' => ~Serving(u)
        BY <1>1, <1>4, <2>3
      <3>2. ~Serving(u) => call[u].step \notin {"expand", "replace", "handler"}
        BY DEF Serving
      <3>3. ~Serving(u) => Faithful(aliases', call[u])
        BY <3>2, Zenon DEF Faithful
      <3> QED  BY <2>1, <3>1, <3>3
    <2> QED  BY <2>2, <2>3
  <1> QED  BY <1>3, <1>4

\* A path around one of its tokens.
LEMMA Around ==
  ASSUME NEW p \in Path, NEW i \in 1 .. Len(p)
  PROVE  /\ SubSeq(p, 1, i - 1) \in Path /\ SubSeq(p, i + 1, Len(p)) \in Path
         /\ p = (SubSeq(p, 1, i - 1) \o <<p[i]>>) \o SubSeq(p, i + 1, Len(p))
  <1>1. Len(p) \in Nat /\ i \in Nat /\ 1 <= i /\ i <= Len(p)
    BY LenProperties DEF Path
  <1>2. SubSeq(p, 1, i - 1) \in Path /\ SubSeq(p, i + 1, Len(p)) \in Path
    BY <1>1, PartOfPath DEF Path
  <1>3. p[i] \in Token
    BY <1>1, ElementOfSeq DEF Path
  <1> DEFINE x == SubSeq(p, 1, i - 1)
             z == SubSeq(p, i + 1, Len(p))
             y == x \o <<p[i]>>
             w == y \o z
  <1>4. /\ Len(x) = i - 1 /\ \A j \in 1 .. i - 1 : x[j] = p[j]
    BY <1>1, SubSeqProperties DEF Path
  <1>5. /\ Len(z) = Len(p) - i /\ \A j \in 1 .. Len(p) - i : z[j] = p[i + j]
    <2>1. /\ SubSeq(p, i + 1, Len(p)) = [j \in 1 .. Len(p) - i |-> p[i + j]]
      BY <1>1 DEF Path
    <2> QED  BY <1>1, <2>1
  <1>6. y = x \o <<p[i]>> /\ w = y \o z /\ x \in Path /\ z \in Path
    BY <1>2
  <1> HIDE DEF x, y, z, w
  <1>7. y \in Path /\ Len(y) = i
    <2>1. y \in Path /\ Len(y) = Len(x) + 1
      BY <1>3, <1>6, OneMoreToken
    <2> QED  BY <1>1, <1>4, <2>1
  <1>8. (\A j \in 1 .. i - 1 : y[j] = p[j]) /\ y[i] = p[i]
    <2>1. (\A j \in 1 .. Len(x) : y[j] = x[j]) /\ y[Len(x) + 1] = p[i]
      BY <1>3, <1>6, OneMoreToken
    <2>2. Len(x) + 1 = i
      BY <1>1, <1>4
    <2> QED  BY <1>4, <2>1, <2>2
  <1>9. /\ w \in Path /\ Len(w) = Len(p)
        /\ \A j \in 1 .. Len(p) : w[j] = IF j <= i THEN y[j] ELSE z[j - i]
    <2>1. /\ w \in Path /\ Len(w) = Len(y) + Len(z)
          /\ \A j \in 1 .. Len(y) + Len(z) : w[j] = IF j <= Len(y) THEN y[j] ELSE z[j - Len(y)]
      BY <1>6, <1>7, ConcatProperties DEF Path
    <2>2. Len(y) + Len(z) = Len(p)
      BY <1>1, <1>5, <1>7
    <2> QED  BY <1>7, <2>1, <2>2
  <1>10. ASSUME NEW j \in 1 .. Len(p) PROVE w[j] = p[j]
    <2>1. CASE j < i
      BY <1>1, <1>8, <1>9, <2>1
    <2>2. CASE j = i
      BY <1>1, <1>8, <1>9, <2>2
    <2>3. CASE j > i
      <3>1. j - i \in 1 .. Len(p) - i /\ i + (j - i) = j /\ ~ (j <= i)
        BY <1>1, <2>3
      <3>2. w[j] = z[j - i]
        BY <1>9, <3>1
      <3>3. z[j - i] = p[i + (j - i)]
        BY <1>5, <3>1
      <3> QED  BY <3>1, <3>2, <3>3
    <2> QED  BY <1>1, <2>1, <2>2, <2>3
  <1>11. w = p
    BY <1>9, <1>10, SeqEqual DEF Path
  <1> QED  BY <1>2, <1>11 DEF w, y, x, z

\* One call of the callback replaces one alias.
LEMMA ReplacesOne ==
  ASSUME NEW A \in Table, NEW d \in Path, NEW p \in Path, NEW i \in 1 .. Len(p), NEW v, v = ValueOf(A, p[i]),
         NEW x, x = SubSeq(p, 1, i - 1), NEW z, z = SubSeq(p, i + 1, Len(p))
  PROVE  /\ v \in Path /\ x \in Path /\ z \in Path
         /\ Leads(A, d \o p, ((d \o x) \o v) \o z)
  <1>1. p[i] \in Token
    BY ElementOfSeq DEF Path
  <1> DEFINE y == <<p[i]>>
  <1>2. x \in Path /\ z \in Path /\ p = (x \o y) \o z
    BY Around
  <1>3. v \in Path /\ y \in Path
    BY <1>1, ValueType
  <1>4. d \o x \in Path /\ x \o y \in Path
    BY <1>2, <1>3, Joined
  <1>5. d \o p = ((d \o x) \o y) \o z
    <2> HIDE DEF y
    <2> DEFINE u == x \o y
    <2>1. d \o (u \o z) = (d \o u) \o z
      <3>1. u \in Path
        BY <1>4
      <3> HIDE DEF u
      <3>2. Associates(d, u, z)
        BY <1>2, <3>1, JoinedTwice
      <3> QED  BY <3>2, Zenon DEF Associates
    <2>2. d \o (x \o y) = (d \o x) \o y
      <3>1. Associates(d, x, y)
        BY <1>2, <1>3, JoinedTwice
      <3> QED  BY <3>1, Zenon DEF Associates
    <2> QED  BY <1>2, <2>1, <2>2
  <1> DEFINE e == d \o x
             n == p[i]
  <1>6. Leads(A, (e \o <<n>>) \o z, (e \o v) \o z)
    <2>1. e \in Path /\ n \in Token /\ v = ValueOf(A, n)
      BY <1>1, <1>4
    <2> HIDE DEF e, n
    <2> QED  BY <1>2, <2>1, LeadsByReplacing
  <1> QED  BY <1>2, <1>3, <1>5, <1>6

\* A query gets the lock: nothing is replaced yet.
LEMMA TakeLockExpandStep ==
  ASSUME IInv, ExpandInv, NEW t \in Threads, TakeLock(t)
  PROVE  ExpandInv'
  <1> DEFINE s == IF call[t].op \in StoreOps THEN "expand" ELSE "handler"
             c == [call[t] EXCEPT !.step = s]
  <1>1. TypeInv /\ call[t] \in Call /\ call[t].step = "lock" /\ call' = [call EXCEPT ![t] = c]
    BY DEF TakeLock, IInv, TypeInv
  <1>2. aliases' = aliases /\ aliases \in Table /\ stale' = stale \ {t}
    BY DEF TakeLock, IInv, TypeInv, Table
  <1>3. call[t].op \in {"query", "update"} => s = "expand"
    BY DEF StoreOps
  <1> HIDE DEF s
  <1>4. c.op = call[t].op /\ c.step = s /\ c.value = call[t].value /\ c.path = call[t].path /\ c.done = call[t].done
    BY <1>1 DEF Call
  <1>5. c.value \in Path
    BY <1>1, <1>4 DEF Call, Path
  <1> HIDE DEF c
  <1>6. c.op \in {"query", "update"} => c.path = c.value /\ c.done = <<>> /\ c.step = "expand"
    BY <1>1, <1>3, <1>4 DEF ExpandInv, Shape
  <1>7. Shape(c)
    BY <1>6 DEF Shape
  <1>8. Faithful(aliases, c)
    <2> SUFFICES ASSUME c.op \in {"query", "update"} PROVE Leads(aliases, c.value, c.done \o c.path)
      BY Zenon DEF Faithful
    <2>1. c.done \o c.path = c.value
      BY <1>5, <1>6, JoinedEmpty
    <2> QED  BY <2>1, LeadsNowhere
  <1> QED  BY <1>1, <1>2, <1>7, <1>8, OneRequest

\* tagsistant_expand_path(): the leftmost alias is found.
LEMMA MatchExpandStep ==
  ASSUME IInv, ExpandInv, NEW t \in Threads, Match(t)
  PROVE  ExpandInv'
  <1> DEFINE m == call[t].path[Min(AliasesIn(call[t].path))]
             c == [call[t] EXCEPT !.step = "replace", !.pattern = m, !.done = <<>>]
  <1>1. TypeInv /\ call[t] \in Call /\ call[t].step = "expand" /\ call' = [call EXCEPT ![t] = c]
    BY DEF Match, IInv, TypeInv
  <1>2. aliases' = aliases /\ stale' = stale
    BY DEF Match
  <1> HIDE DEF m
  <1>3. c.op = call[t].op /\ c.step = "replace" /\ c.value = call[t].value /\ c.path = call[t].path /\ c.done = <<>>
    BY <1>1 DEF Call
  <1> HIDE DEF c
  <1>4. Shape(c)
    BY <1>3 DEF Shape
  <1>5. ASSUME t \notin stale PROVE Faithful(aliases, c)
    <2> SUFFICES ASSUME c.op \in {"query", "update"} PROVE Leads(aliases, c.value, c.done \o c.path)
      BY Zenon DEF Faithful
    <2>1. call[t].done = <<>>
      BY <1>1, <1>3 DEF ExpandInv, Shape
    <2>2. Leads(aliases, call[t].value, call[t].done \o call[t].path)
      BY <1>1, <1>3, <1>5 DEF ExpandInv, Faithful
    <2> QED  BY <1>3, <2>1, <2>2
  <1> QED  BY <1>1, <1>2, <1>4, <1>5, OneRequest

\* One alias is replaced by what the table says now.
LEMMA ReplaceExpandStep ==
  ASSUME Prefix = {}, IInv, ExpandInv, NEW t \in Threads, Replace(t)
  PROVE  ExpandInv'
  <1> DEFINE p == call[t].path
             i == Min(MatchesIn(t))
             rest == IF call[t].path[i] = call[t].pattern THEN <<>> ELSE <<Debris>>
             v == Expansion(t, call[t].pattern)
             x == SubSeq(p, 1, i - 1)
             z == SubSeq(p, i + 1, Len(p))
             done == ((call[t].done \o x) \o v) \o rest
             c == [call[t] EXCEPT !.done = done, !.path = z]
  <1>1. TypeInv /\ call[t] \in Call /\ call[t].step = "replace" /\ call' = [call EXCEPT ![t] = c]
    BY DEF Replace, IInv, TypeInv
  <1>2. aliases' = aliases /\ stale' = stale /\ aliases \in Table
    BY DEF Replace, IInv, TypeInv, Table
  <1>3. p \in Path /\ call[t].done \in Path /\ call[t].value \in Path
    BY <1>1 DEF Call, Path
  <1>4. MatchesIn(t) # {} /\ MatchesIn(t) \subseteq DOMAIN p
    BY DEF Replace, MatchesIn
  <1>5. i \in MatchesIn(t) /\ i \in 1 .. Len(p)
    BY <1>3, <1>4, FirstPlace DEF Path
  <1>6. p[i] = call[t].pattern /\ rest = <<>>
    <2>1. Matches(call[t].pattern, p[i])
      BY <1>5 DEF MatchesIn
    <2>2. p[i] = call[t].pattern
      BY <2>1 DEF Matches
    <2> QED  BY <2>2
  <1>7. p[i] \in Names
    BY <1>1, <1>6 DEF IInv, StepInv
  <1> HIDE DEF i, rest
  <1>8. c.op = call[t].op /\ c.step = "replace" /\ c.value = call[t].value /\ c.path = z /\ c.done = done
    <2> HIDE DEF done, z
    <2> QED  BY <1>1 DEF Call
  <1> HIDE DEF c
  <1>9. Shape(c)
    BY <1>8 DEF Shape
  <1>10. ASSUME t \notin stale PROVE Faithful(aliases, c)
    <2> SUFFICES ASSUME c.op \in {"query", "update"} PROVE Leads(aliases, c.value, c.done \o c.path)
      BY Zenon DEF Faithful
    <2>1. v = ValueOf(aliases, p[i])
      <3>1. call[t].op # "target"
        BY <1>8
      <3> QED  BY <1>6, <1>7, <3>1 DEF Expansion, ValueOf
    <2> HIDE DEF v
    <2>2. x = SubSeq(p, 1, i - 1) /\ z = SubSeq(p, i + 1, Len(p))
      OBVIOUS
    <2> DEFINE d == call[t].done
    <2>3. d \in Path
      BY <1>3
    <2>4. Leads(aliases, call[t].value, d \o p)
      BY <1>1, <1>8, <1>10 DEF ExpandInv, Faithful
    <2> HIDE DEF x, z, p, d
    <2>5. v \in Path /\ x \in Path /\ z \in Path
      <3>1. v \in Path
        BY <1>2, <1>7, <2>1, ValueType DEF Token
      <3>2. x \in Path /\ z \in Path
        BY <1>3, <1>5, <2>2, Around
      <3> QED  BY <3>1, <3>2
    <2>6. Leads(aliases, d \o p, ((d \o x) \o v) \o z)
      BY <1>2, <1>3, <1>5, <2>1, <2>2, <2>3, ReplacesOne
    <2>7. (d \o x) \o v \in Path
      BY <2>3, <2>5, Joined
    <2>8. done = (d \o x) \o v
      <3>1. done = ((d \o x) \o v) \o <<>>
        BY <1>6 DEF d
      <3> HIDE DEF done
      <3> QED  BY <2>7, <3>1, JoinedEmpty
    <2> DEFINE r == ((d \o x) \o v) \o z
    <2>9. r = c.done \o c.path
      BY <1>8, <2>8
    <2>10. Leads(aliases, d \o p, r)
      BY <2>6
    <2> HIDE DEF r, done
    <2>11. Leads(aliases, call[t].value, r)
      BY <2>4, <2>10, LeadsOn, Zenon
    <2> QED  BY <1>8, <2>9, <2>11
  <1> QED  BY <1>1, <1>2, <1>9, <1>10, OneRequest

\* The replaced path is searched again, or is what the handler gets.
LEMMA ReplacedExpandStep ==
  ASSUME IInv, ExpandInv, NEW t \in Threads, Replaced(t)
  PROVE  ExpandInv'
  <1> DEFINE r == call[t].done \o call[t].path
             c == [call[t] EXCEPT !.step = "expand", !.path = r, !.done = <<>>, !.pattern = Missing]
  <1>1. TypeInv /\ call[t] \in Call /\ call[t].step = "replace" /\ call' = [call EXCEPT ![t] = c]
    BY DEF Replaced, IInv, TypeInv
  <1>2. aliases' = aliases /\ stale' = stale
    BY DEF Replaced
  <1>3. r \in Path
    BY <1>1, ConcatProperties DEF Call, Path
  <1>4. r = call[t].done \o call[t].path
    OBVIOUS
  <1> HIDE DEF r
  <1>5. c.op = call[t].op /\ c.step = "expand" /\ c.value = call[t].value /\ c.path = r /\ c.done = <<>>
    BY <1>1 DEF Call
  <1> HIDE DEF c
  <1>6. Shape(c)
    BY <1>5 DEF Shape
  <1>7. ASSUME t \notin stale PROVE Faithful(aliases, c)
    <2> SUFFICES ASSUME c.op \in {"query", "update"} PROVE Leads(aliases, c.value, c.done \o c.path)
      BY Zenon DEF Faithful
    <2>1. Leads(aliases, call[t].value, call[t].done \o call[t].path)
      BY <1>1, <1>5, <1>7 DEF ExpandInv, Faithful
    <2>2. c.done \o c.path = r
      BY <1>3, <1>5, JoinedEmpty
    <2> QED  BY <1>4, <1>5, <2>1, <2>2
  <1> QED  BY <1>1, <1>2, <1>6, <1>7, OneRequest

LEMMA ExpandedExpandStep ==
  ASSUME IInv, ExpandInv, NEW t \in Threads, Expanded(t)
  PROVE  ExpandInv'
  <1> DEFINE c == [call[t] EXCEPT !.step = "handler"]
  <1>1. TypeInv /\ call[t] \in Call /\ call[t].step = "expand" /\ call' = [call EXCEPT ![t] = c]
    BY DEF Expanded, IInv, TypeInv
  <1>2. aliases' = aliases /\ stale' = stale
    BY DEF Expanded
  <1>3. c.op = call[t].op /\ c.step = "handler" /\ c.value = call[t].value
    BY <1>1 DEF Call
  <1>4. c.path = call[t].path /\ c.done = call[t].done
    BY <1>1 DEF Call
  <1>5. Plain(call[t].path)
    BY DEF Expanded, AliasesIn, Plain
  <1> HIDE DEF c
  <1>6. Shape(c)
    BY <1>1, <1>3, <1>4, <1>5 DEF ExpandInv, Shape
  <1>7. ASSUME t \notin stale PROVE Faithful(aliases, c)
    <2> SUFFICES ASSUME c.op \in {"query", "update"} PROVE Leads(aliases, c.value, c.done \o c.path)
      BY Zenon DEF Faithful
    <2>1. Leads(aliases, call[t].value, call[t].done \o call[t].path)
      BY <1>1, <1>3, <1>7 DEF ExpandInv, Faithful
    <2> QED  BY <1>3, <1>4, <2>1
  <1> QED  BY <1>1, <1>2, <1>6, <1>7, OneRequest

\* The other steps begin or end a request, or edit the table.
LEMMA OtherExpandStep ==
  ASSUME IInv, ExpandInv, NEW t \in Threads,
         \/ Answer(t) \/ GetattrExists(t) \/ GetattrLength(t)
         \/ Create(t) \/ Delete(t) \/ Write(t) \/ Truncate(t) \/ Rename(t)
  PROVE  ExpandInv'
  <1>1. TypeInv /\ call[t] \in Call
    BY DEF IInv, TypeInv
  <1>2. CASE Create(t) \/ Delete(t) \/ Write(t) \/ Truncate(t) \/ Rename(t)
    <2>1. \E table : Save(t, table)
      BY <1>2, Zenon DEF Create, Delete, Write, Truncate, Rename
    <2> QED  BY <1>1, <2>1, SaveExpandStep
  <1>3. CASE call' = [call EXCEPT ![t] = NoCall] /\ UNCHANGED <<aliases, stale, edits>>
    BY <1>1, <1>3, IdleNotExpanded, OneRequest
  <1>4. CASE GetattrExists(t) /\ aliases[call[t].alias] # Missing
    <2> DEFINE c == [call[t] EXCEPT !.step = "length"]
    <2>1. call' = [call EXCEPT ![t] = c] /\ UNCHANGED <<aliases, stale, edits>> /\ call[t].op = "getattr"
      BY <1>1, <1>4 DEF GetattrExists, Handles, TypeInv
    <2>2. c.op = "getattr"
      BY <1>1, <2>1 DEF Call
    <2> HIDE DEF c
    <2>3. Shape(c) /\ Faithful(aliases, c)
      BY <2>2, NotExpanded
    <2> QED  BY <1>1, <2>1, <2>3, OneRequest
  <1> QED
    BY <1>2, <1>3, <1>4 DEF Answer, GetattrExists, GetattrLength

LEMMA RequestExpandStep ==
  ASSUME IInv, ExpandInv, NEW t \in Threads, NEW c, Request(t, c), Shape(c), c.step = "lock"
  PROVE  ExpandInv'
  <1>1. TypeInv /\ call' = [call EXCEPT ![t] = c] /\ aliases' = aliases /\ stale' = stale
    BY DEF Request, IInv
  <1>2. Faithful(aliases, c)
    BY DEF Faithful
  <1> QED  BY <1>1, <1>2, OneRequest

LEMMA ExpandInvHolds ==
  ASSUME Prefix = {}
  PROVE  Spec => []ExpandInv
  <1>1. Init => ExpandInv
    <2> SUFFICES ASSUME Init, NEW t \in Threads PROVE Shape(call[t]) /\ Faithful(aliases, call[t])
      BY DEF ExpandInv
    <2>1. call[t] = NoCall
      BY DEF Init
    <2> QED  BY <2>1, IdleNotExpanded
  <1>2. IInv /\ ExpandInv /\ [Next]_vars => ExpandInv'
    <2> SUFFICES ASSUME IInv, ExpandInv, [Next]_vars PROVE ExpandInv'
      OBVIOUS
    <2>1. CASE UNCHANGED vars
      BY <2>1 DEF vars, ExpandInv
    <2>2. ASSUME NEW t \in Threads, NEW op, NEW p, StoreRequest(t, op, p) PROVE ExpandInv'
      <3> DEFINE c == [NoCall EXCEPT !.op = op, !.step = "lock", !.value = p, !.path = p]
      <3>1. c.step = "lock" /\ c.value = p /\ c.path = p /\ c.done = <<>>
        BY DEF NoCall
      <3>2. Request(t, c)
        BY <2>2 DEF StoreRequest
      <3> HIDE DEF c
      <3>3. Shape(c)
        BY <3>1 DEF Shape
      <3> QED  BY <3>1, <3>2, <3>3, RequestExpandStep
    <2>3. ASSUME NEW t \in Threads, NEW op, NEW n, NEW v, NEW to, AliasRequest(t, op, n, v, to) PROVE ExpandInv'
      <3> DEFINE c == [NoCall EXCEPT !.op = op, !.step = "lock", !.alias = n, !.value = v, !.pattern = to]
      <3>1. c.step = "lock" /\ c.op = op
        BY DEF NoCall
      <3>2. Request(t, c) /\ op \in AliasOps
        BY <2>3 DEF AliasRequest
      <3> HIDE DEF c
      <3>3. c.op \notin {"query", "update"}
        BY <3>1, <3>2 DEF AliasOps
      <3>4. Shape(c)
        BY <3>3, Zenon DEF Shape
      <3> QED  BY <3>1, <3>2, <3>4, RequestExpandStep
    <2>4. ASSUME NEW t \in Threads, Serve(t) PROVE ExpandInv'
      BY <2>4, TakeLockExpandStep, MatchExpandStep, ReplaceExpandStep, ReplacedExpandStep,
         ExpandedExpandStep, OtherExpandStep DEF Serve
    <2> QED  BY <2>1, <2>2, <2>3, <2>4 DEF Next
  <1> QED  BY <1>1, <1>2, AliasInvHolds, PTL DEF Spec

\* "When the user includes the alias in a query it gets expanded": whatever
\* the aliases hold and however often the callback runs, the path that reaches
\* the parser is what the aliases stand for, unless the table was edited in
\* between.  No name may be the beginning of another: the expression that
\* tagsistant_expand_path() builds from a name also matches the longer one.
THEOREM AliasesExpandExactly ==
  ASSUME Prefix = {}, IsFiniteSet(Names)
  PROVE  Spec => []ExpandsExactly
  <1>1. IInv /\ ExpandInv => ExpandsExactly
    <2> SUFFICES ASSUME IInv, ExpandInv, NEW t \in Threads, call[t].op \in {"query", "update"},
                        call[t].step = "handler", t \notin stale
                 PROVE  call[t].path = Meaning(aliases, call[t].value)
      BY DEF ExpandsExactly, Exact, Handles
    <2>1. aliases \in Table /\ call[t].path \in Path /\ call[t].value \in Path
      BY DEF IInv, TypeInv, Call, Table, Path
    <2>2. call[t].done = <<>> /\ Plain(call[t].path)
      BY DEF ExpandInv, Shape
    <2>3. Leads(aliases, call[t].value, call[t].done \o call[t].path)
      BY DEF ExpandInv, Faithful
    <2>4. Leads(aliases, call[t].value, call[t].path)
      BY <2>1, <2>2, <2>3, JoinedEmpty
    <2> QED  BY <2>1, <2>2, <2>4, LeadsToMeaning
  <1> QED  BY <1>1, AliasInvHolds, ExpandInvHolds, PTL
=============================================================================
