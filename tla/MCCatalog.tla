------------------------------ MODULE MCCatalog ------------------------------
(* Catalog for TLC: the tag names and the requests of each run.            *)
EXTENDS Catalog, TLC

A == [ns |-> "a", kv |-> NoKV]
B == [ns |-> "b", kv |-> NoKV]
C == [ns |-> "c", kv |-> NoKV]
FlatTags == {A, B}
ThreeTags == {A, B, C}

\* Namespaces m: and n:, with one key=value pair besides the bare row.
M == [ns |-> "m:", kv |-> NoKV]
N == [ns |-> "n:", kv |-> NoKV]
M1 == [ns |-> "m:", kv |-> "year=2000"]
N1 == [ns |-> "n:", kv |-> "year=2000"]
Triples == {M, N, M1, N1}

Mknod(ts, n) == [op |-> "mknod", tags |-> ts, name |-> n]
Link(ts, n) == [tags |-> ts, name |-> n]
Symlink(ts, n, t) == [op |-> "symlink", tags |-> ts, name |-> n, target |-> t]
UnlinkFile(ts, n) == [op |-> "unlink", tags |-> ts, name |-> n]
UnlinkAll(n) == [op |-> "unlinkAll", tags |-> <<>>, name |-> n]
Rename(ts, n, us, m) ==
    [op |-> "rename", tags |-> ts, name |-> n, toTags |-> us, toName |-> m]
Mktag(k) == [op |-> "mktag", tags |-> <<k>>]
Rmtag(ts) == [op |-> "rmtag", tags |-> ts]
Mvtag(k, j) == [op |-> "mvtag", tags |-> <<k>>, to |-> j]
Relation(op, k, j, v) == [op |-> op, tags |-> <<k, j>>, valid |-> v, whole |-> TRUE]
Unfinished(k, j) == [op |-> "relate", tags |-> <<k, j>>, valid |-> TRUE, whole |-> FALSE]

\* Files under one or two tags, and symbolic links.
FileWork == {Mktag(A), Mktag(B),
             Mknod(<<A>>, "f"), Mknod(<<A, B>>, "f"), Symlink(<<B>>, "g", "t"),
             UnlinkFile(<<A>>, "f"), UnlinkFile(<<B>>, "f"), UnlinkFile(<<B>>, "g"),
             Rename(<<A>>, "f", <<B>>, "g"), UnlinkAll("g")}
\* Tags made, removed, renamed and related while files are tagged and linked.
TagWork == {Mktag(A), Mktag(B), Rmtag(<<A>>), Rmtag(<<A, B>>), Mvtag(A, B),
            Mvtag(B, A), Relation("relate", A, B, TRUE),
            Relation("unrelate", A, B, TRUE), Unfinished(A, B), Mknod(<<A>>, "f")}
\* Two threads link a file under the same tags at the same time.
SomeLinks == {Link(<<A, B>>, "g")}
AllWork == FileWork \cup TagWork
\* A relation RELATION_PATTERN lets pass and IS_VALID_RELATION refuses.
Misspelt == {Mktag(A), Mktag(C), Relation("relate", A, B, FALSE),
             Mknod(<<C>>, "f"), UnlinkFile(<<B>>, "f")}
\* A namespace is renamed.
Machine == {Mktag(M1), Mvtag(M, N)}
ExactLookups == {M1, N1}
=============================================================================
