---------------------------- MODULE MCFileHandle -----------------------------
(* FileHandle for TLC: what the applications and the disk may do.          *)
EXTENDS FileHandle, TLC

CONSTANTS h1, h2, f1, f2, v

Two == {h1, h2}
TwoFiles == {f1, f2}
Contents == {Empty, v}
Symmetry == Permutations(Two) \cup Permutations(TwoFiles)

Env(e, s) == [errors |-> e, shared |-> s]

\* Nothing out of the ordinary; or a full disk, and descriptors that were dup()ed.
FairAndFoul == {Env(FALSE, FALSE), Env(TRUE, TRUE)}
\* Nothing but a dup()ed descriptor.
OnlyShared == {Env(FALSE, TRUE)}
\* Nothing but a disk that is full.
OnlyErrors == {Env(TRUE, FALSE)}
=============================================================================
