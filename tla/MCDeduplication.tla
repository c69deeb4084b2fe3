--------------------------- MODULE MCDeduplication ---------------------------
(* Deduplication with one or two clients and a handful of paths, for TLC.  *)
EXTENDS Deduplication, TLC

CONSTANTS c1, c2, t1, t2, full

OneClient == {c1}
TwoClients == {c1, c2}

PathA == [tags |-> {t1}, name |-> "a"]
PathB == [tags |-> {t2}, name |-> "b"]
\* store/t1/t2/@/b: an object that shares t1 with PathA.
PathBoth == [tags |-> {t1, t2}, name |-> "b"]

\* One client with two files, clients with a file each, clients sharing both.
Alone == (c1 :> {PathA, PathB})
AloneCommonTag == (c1 :> {PathA, PathBoth})
Separate == (c1 :> {PathA}) @@ (c2 :> {PathB})
Shared == (c1 :> {PathA, PathB}) @@ (c2 :> {PathA, PathB})
=============================================================================
