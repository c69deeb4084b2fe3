-------------------------- MODULE MCConnectionPool --------------------------
(* ConnectionPool on a few threads, for TLC.                               *)
EXTENDS ConnectionPool

CONSTANTS t1, t2, c1, c2, c3, c4

OneThread == {t1}
TwoThreads == {t1, t2}
TwoConns == {c1, c2}
ThreeConns == {c1, c2, c3}
FourConns == {c1, c2, c3, c4}
=============================================================================
