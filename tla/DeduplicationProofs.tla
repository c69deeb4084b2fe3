------------------------- MODULE DeduplicationProofs -------------------------
(***************************************************************************)
(* Proofs about Deduplication.  That the archive and the objects table     *)
(* agree holds for any clients, truncations, removals and shared handles.  *)
(* That only identical files are merged holds for one client that neither  *)
(* truncates by path nor shares its handles; each of the three breaks it   *)
(* (DedupDiverge, DedupTruncate).                                          *)
(***************************************************************************)
EXTENDS Deduplication, FiniteSetTheorems, TLAPS

-----------------------------------------------------------------------------
(* The inductive invariants                                                *)

\* A handler in the middle of a request works on an inode.
CurInv ==
    \A c \in Clients : pc[c] \in ReaderSteps => cur[c] \in Inodes

\* An open file was opened under a path of the file system.
PathInv ==
    \A c \in Clients : pc[c] # "idle" => path[c] \in Paths

\* What a kernel is about to unlink has lost its row already.
UnlinkInv ==
    \A c \in Clients : pc[c] = "unlink" => cur[c] \notin row

FilesInv == TypeOK /\ CurInv /\ PathInv /\ UnlinkInv /\ FilesMatchRows

\* The clients and calls under which checksums can be trusted.
Undisturbed ==
    /\ \A c, d \in Clients : c = d
    /\ ~Truncates /\ ~SharesHandle

\* A checksum is that of the content, except in the file being written, which
\* has none.
FreshInv ==
    /\ \A i \in Inodes : checksum[i] \in {NoSum, content[i]}
    /\ \A c \in Clients : pc[c] = "opening" => fh[c] = cur[c]
    /\ \A c \in Clients : pc[c] = "opened" => fh[c] \in Inodes /\ checksum[fh[c]] = NoSum

\* What the kernel read is what the file still holds, and what the file it
\* merges with holds.
MergeInv ==
    /\ \A c \in Clients : pc[c] \in {"checksum", "select", "move", "deltag", "delobj"} =>
            hex[c] = content[cur[c]]
    /\ \A c \in Clients : pc[c] \in {"move", "deltag", "delobj"} =>
            main[c] \in Inodes /\ content[main[c]] = hex[c]

-----------------------------------------------------------------------------
(* The model's operators                                                   *)

\* find_duplicates() returns an inode that has the checksum, or none.
LEMMA FirstWithProperties ==
  ASSUME TypeOK, NEW h
  PROVE  /\ FirstWith(h) \in row \cup {0}
         /\ FirstWith(h) # 0 => checksum[FirstWith(h)] = h
  <1> DEFINE S == {i \in row : checksum[i] = h}
  <1>1. S \subseteq Nat
    <2>1. Inodes \subseteq Nat
      BY DedupBounds DEF Inodes
    <2> QED  BY <2>1 DEF TypeOK
  <1>2. CASE S = {}
    BY <1>2 DEF FirstWith
  <1>3. CASE S # {}
    <2>1. PICK x \in S : \A y \in S : <<y, x>> \notin OpToRel(<, Nat)
      BY <1>1, <1>3, NatLessThanWellFounded, WFMin, Zenon
    <2>2. \A y \in S : ~ (y < x)
      BY <1>1, <2>1, Zenon DEF OpToRel
    <2>3. \A y \in S : x <= y
      BY <1>1, <2>2
    <2>4. Min(S) \in S
      BY <2>3 DEF Min
    <2>5. FirstWith(h) = Min(S)
      BY <1>3 DEF FirstWith
    <2> QED  BY <2>4, <2>5
  <1> QED  BY <1>2, <1>3

\* A path that resolves names an object with a row.
LEMMA ResolvesProperties ==
  ASSUME TypeOK, NEW p, NEW i \in Resolves(p)
  PROVE  i \in row /\ i \in Inodes
  BY DEF Resolves, TypeOK

\* The paths of the clients, and what they consist of.
LEMMA PathProperties ==
  ASSUME NEW c \in Clients, NEW p \in PathsOf[c]
  PROVE  p \in Paths /\ p.tags \subseteq Tags /\ p.name \in {q.name : q \in Paths \cup {NoPath}}
  BY PathsAssumption DEF Paths

\* The end of flush() frees the handle or, while it is shared, keeps it.
LEMMA ClosedProperties ==
  ASSUME TypeOK, NEW c \in Clients, Closed(c)
  PROVE  /\ pc' \in [Clients -> Steps] /\ path' \in [Clients -> Paths \cup {NoPath}]
         /\ pc'[c] \in {"idle", "opened"}
         /\ ~SharesHandle => pc'[c] = "idle"
         /\ \A d \in Clients : d # c => pc'[d] = pc[d]
  BY DEF Closed, Goto, TypeOK, Steps

-----------------------------------------------------------------------------
(* Types                                                                   *)

\* Every step keeps the variables in their types.
LEMMA TypeStep ==
  ASSUME TypeOK, CurInv, PathInv, [Next]_vars
  PROVE  TypeOK'
  <1> USE DedupBounds, ContentsAssumption
  <1>1. ASSUME NEW c \in Clients, NEW p \in PathsOf[c], Mknod(c, p) PROVE TypeOK'
    <2>1. /\ p.tags \subseteq Tags /\ p.name \in {q.name : q \in Paths \cup {NoPath}}
          /\ nextInode \in Inodes
      BY <1>1, PathProperties DEF Mknod
    <2>2. tagging' \subseteq (Inodes \cup {0}) \X (Tags \cup {AutoTag})
      BY <1>1, <2>1 DEF Mknod, TypeOK
    <2>3. nextInode' \in 1 .. MaxInode + 1
      BY <1>1, <2>1 DEF Mknod, Inodes
    <2> QED
      BY <1>1, <2>1, <2>2, <2>3 DEF Mknod, TypeOK, kernelVars
  <1>2. ASSUME NEW c \in Clients, NEW p \in PathsOf[c], OpenFile(c, p) PROVE TypeOK'
    <2>1. PICK i \in Resolves(p) : fh' = [fh EXCEPT ![c] = i] /\ cur' = [cur EXCEPT ![c] = i]
      BY <1>2 DEF OpenFile
    <2>2. i \in Inodes /\ p \in Paths
      BY <2>1, ResolvesProperties, PathProperties
    <2>3. opens' \in 0 .. MaxOpens
      BY <1>2 DEF OpenFile, TypeOK
    <2> QED
      BY <1>2, <2>1, <2>2, <2>3 DEF OpenFile, Goto, TypeOK, Steps, ReaderSteps, objectVars, fileVars
  <1>3. ASSUME NEW c \in Clients, NEW p \in PathsOf[c], Truncate(c, p) PROVE TypeOK'
    BY <1>3 DEF Truncate, TypeOK, objectVars, kernelVars
  <1>4. ASSUME NEW c \in Clients, NEW p \in PathsOf[c], Unlink(c, p) PROVE TypeOK'
    BY <1>4 DEF Unlink, TypeOK, kernelVars
  <1>5. ASSUME NEW c \in Clients, NEW v \in Contents, Write(c, v) PROVE TypeOK'
    <2>1. PICK i : /\ content' = [content EXCEPT ![i] = v] /\ fh' = [fh EXCEPT ![c] = i]
                   /\ i \in IF fh[c] # 0 THEN {fh[c]} ELSE Resolves(path[c]) \cap linked
      BY <1>5 DEF Write
    <2>2. i \in Inodes
      BY <2>1 DEF TypeOK
    <2> QED
      BY <1>5, <2>1, <2>2 DEF Write, TypeOK, objectVars, kernelVars
  <1>6. ASSUME NEW c \in Clients, OpenInvalidate(c) PROVE TypeOK'
    BY <1>6 DEF OpenInvalidate, Goto, TypeOK, Steps, fileVars
  <1>7. ASSUME NEW c \in Clients, Flush(c) PROVE TypeOK'
    <2>1. pc' \in [Clients -> Steps] /\ path' \in [Clients -> Paths \cup {NoPath}]
      <3>1. CASE Closed(c)
        BY <3>1, ClosedProperties
      <3>2. CASE Goto(c, "dedup") /\ UNCHANGED path
        BY <3>2 DEF Goto, TypeOK, Steps
      <3> QED  BY <1>7, <3>1, <3>2 DEF Flush
    <2>2. opens' \in 0 .. MaxOpens
      BY <1>7 DEF Flush, TypeOK
    <2> QED
      BY <1>7, <2>1, <2>2 DEF Flush, TypeOK, objectVars, fileVars, kernelVars
  <1>8. ASSUME NEW c \in Clients, KernelOpen(c) PROVE TypeOK'
    <2>1. PICK i \in Resolves(path[c]) : cur' = [cur EXCEPT ![c] = i]
      BY <1>8 DEF KernelOpen
    <2>2. i \in Inodes
      BY ResolvesProperties
    <2> QED
      BY <1>8, <2>1, <2>2 DEF KernelOpen, Goto, TypeOK, Steps, ReaderSteps, objectVars, fileVars
  <1>9. ASSUME NEW c \in Clients, KernelOpenFails(c) PROVE TypeOK'
    BY <1>9, ClosedProperties DEF KernelOpenFails, TypeOK, objectVars, fileVars, kernelVars
  <1>10. ASSUME NEW c \in Clients, KernelHash(c) PROVE TypeOK'
    <2>1. cur[c] \in Inodes
      BY <1>10 DEF KernelHash, CurInv, ReaderSteps
    <2> QED
      BY <1>10, <2>1 DEF KernelHash, Goto, TypeOK, Steps, ReaderSteps, objectVars, fileVars
  <1>11. ASSUME NEW c \in Clients, KernelChecksum(c) PROVE TypeOK'
    BY <1>11 DEF KernelChecksum, Goto, TypeOK, Steps, ReaderSteps, fileVars, kernelVars
  <1>12. ASSUME NEW c \in Clients, KernelSelect(c) PROVE TypeOK'
    <2>1. FirstWith(hex[c]) \in Inodes \cup {0}
      BY FirstWithProperties DEF TypeOK
    <2>2. TagsOf(cur[c]) \subseteq Tags \cup {AutoTag}
      BY DEF TagsOf
    <2>a. pc' \in [Clients -> Steps]
      BY <1>12 DEF KernelSelect, Goto, TypeOK, Steps, ReaderSteps
    <2>b. owed' = owed \/ owed' = [owed EXCEPT ![c] = TagsOf(cur[c])]
      BY <1>12 DEF KernelSelect
    <2>3. pc' \in [Clients -> Steps] /\ owed' \in [Clients -> SUBSET (Tags \cup {AutoTag})]
      BY <2>2, <2>a, <2>b DEF TypeOK
    <2> QED
      BY <1>12, <2>1, <2>3 DEF KernelSelect, TypeOK, objectVars, fileVars
  <1>13. ASSUME NEW c \in Clients, KernelMove(c) PROVE TypeOK'
    <2>1. tagging' \subseteq (Inodes \cup {0}) \X (Tags \cup {AutoTag})
      BY <1>13 DEF KernelMove, TypeOK, TagsOf
    <2> QED
      BY <1>13, <2>1 DEF KernelMove, Goto, TypeOK, Steps, ReaderSteps, objectVars, fileVars, kernelVars
  <1>14. ASSUME NEW c \in Clients, KernelDeleteTagging(c) PROVE TypeOK'
    BY <1>14 DEF KernelDeleteTagging, Goto, TypeOK, Steps, ReaderSteps, objectVars, fileVars, kernelVars
  <1>15. ASSUME NEW c \in Clients, KernelDeleteObject(c) PROVE TypeOK'
    BY <1>15 DEF KernelDeleteObject, Goto, TypeOK, Steps, ReaderSteps, fileVars, kernelVars
  <1>16. ASSUME NEW c \in Clients, KernelUnlink(c) PROVE TypeOK'
    BY <1>16, ClosedProperties DEF KernelUnlink, KernelReset, TypeOK, objectVars
  <1>17. ASSUME NEW c \in Clients, KernelAutotag(c) PROVE TypeOK'
    <2>1. path[c] \in Paths
      BY <1>17 DEF KernelAutotag, PathInv, ReaderSteps
    <2> QED
      BY <1>17, <2>1, ClosedProperties DEF KernelAutotag, KernelReset, TypeOK, objectVars, fileVars
  <1>18. ASSUME Autotag PROVE TypeOK'
    <2>1. tagging' \subseteq (Inodes \cup {0}) \X (Tags \cup {AutoTag})
      BY <1>18 DEF Autotag, Process, Exists, Resolves, TypeOK
    <2>2. queue' \in Seq(Paths)
      BY <1>18 DEF Autotag, TypeOK
    <2> QED
      BY <1>18, <2>1, <2>2 DEF Autotag, TypeOK, objectVars, fileVars, kernelVars
  <1>19. CASE UNCHANGED vars
    BY <1>19 DEF vars, TypeOK
  <1> QED
    BY <1>1, <1>2, <1>3, <1>4, <1>5, <1>6, <1>7, <1>8, <1>9, <1>10, <1>11, <1>12, <1>13, <1>14, <1>15,
       <1>16, <1>17, <1>18, <1>19
    DEF Next, User, Kernel

-----------------------------------------------------------------------------
(* Database and archive                                                    *)

\* Every step keeps the handlers on their paths and inodes.
LEMMA CurStep ==
  ASSUME TypeOK, CurInv, PathInv, [Next]_vars
  PROVE  CurInv' /\ PathInv'
  <1> USE DEF CurInv, PathInv
  <1>1. ASSUME NEW c \in Clients, NEW p \in PathsOf[c],
               Mknod(c, p) \/ Truncate(c, p) \/ Unlink(c, p)
        PROVE  CurInv' /\ PathInv'
    BY <1>1 DEF Mknod, Truncate, Unlink, kernelVars
  <1>2. ASSUME NEW c \in Clients, NEW p \in PathsOf[c], OpenFile(c, p)
        PROVE  CurInv' /\ PathInv'
    <2>1. PICK i \in Resolves(p) : cur' = [cur EXCEPT ![c] = i]
      BY <1>2 DEF OpenFile
    <2>2. i \in Inodes /\ p \in Paths
      BY <2>1, ResolvesProperties, PathProperties
    <2> QED  BY <1>2, <2>1, <2>2 DEF OpenFile, Goto, TypeOK
  <1>3. ASSUME NEW c \in Clients, NEW v \in Contents, Write(c, v)
        PROVE  CurInv' /\ PathInv'
    BY <1>3 DEF Write, kernelVars
  <1>4. ASSUME NEW c \in Clients, OpenInvalidate(c) PROVE CurInv' /\ PathInv'
    BY <1>4 DEF OpenInvalidate, Goto, TypeOK, ReaderSteps
  <1>5. ASSUME NEW c \in Clients, Flush(c) PROVE CurInv' /\ PathInv'
    BY <1>5 DEF Flush, Closed, Goto, TypeOK, ReaderSteps, kernelVars
  <1>6. ASSUME NEW c \in Clients, KernelOpen(c) PROVE CurInv' /\ PathInv'
    BY <1>6, ResolvesProperties DEF KernelOpen, Goto, TypeOK
  <1>7. ASSUME NEW c \in Clients, KernelOpenFails(c) PROVE CurInv' /\ PathInv'
    <2>1. Closed(c) /\ cur' = cur /\ pc[c] = "dedup"
      BY <1>7 DEF KernelOpenFails, kernelVars
    <2> QED  BY <2>1 DEF Closed, Goto, TypeOK, ReaderSteps
  <1>8. ASSUME NEW c \in Clients, KernelHash(c) \/ KernelSelect(c)
        PROVE  CurInv' /\ PathInv'
    BY <1>8 DEF KernelHash, KernelSelect, Goto, TypeOK, ReaderSteps
  <1>9. ASSUME NEW c \in Clients,
               KernelChecksum(c) \/ KernelMove(c) \/ KernelDeleteTagging(c) \/ KernelDeleteObject(c)
        PROVE  CurInv' /\ PathInv'
    BY <1>9 DEF KernelChecksum, KernelMove, KernelDeleteTagging, KernelDeleteObject,
                Goto, TypeOK, ReaderSteps, kernelVars
  <1>10. ASSUME NEW c \in Clients, KernelUnlink(c) \/ KernelAutotag(c)
         PROVE  CurInv' /\ PathInv'
    BY <1>10 DEF KernelUnlink, KernelAutotag, KernelReset, Closed, Goto, TypeOK, ReaderSteps
  <1>11. ASSUME Autotag PROVE CurInv' /\ PathInv'
    BY <1>11 DEF Autotag, kernelVars
  <1>12. CASE UNCHANGED vars
    BY <1>12 DEF vars
  <1> QED
    BY <1>1, <1>2, <1>3, <1>4, <1>5, <1>6, <1>7, <1>8, <1>9, <1>10, <1>11, <1>12
    DEF Next, User, Kernel

\* Every step keeps rows and files together.
LEMMA FilesStep ==
  ASSUME TypeOK, CurInv, UnlinkInv, FilesMatchRows, [Next]_vars
  PROVE  UnlinkInv' /\ FilesMatchRows'
  <1> USE DEF UnlinkInv, FilesMatchRows
  <1>1. ASSUME NEW c \in Clients, NEW p \in PathsOf[c], Mknod(c, p) \/ Unlink(c, p)
        PROVE  UnlinkInv' /\ FilesMatchRows'
    <2>1. \A d \in Clients : pc[d] # "unlink" /\ pc'[d] = pc[d]
      BY <1>1 DEF Mknod, Unlink, WriterFree, ReaderSteps
    <2>2. row' \subseteq linked' /\ linked' \ row' \subseteq linked \ row
      BY <1>1 DEF Mknod, Unlink
    <2> QED  BY <2>1, <2>2
  <1>2. ASSUME NEW c \in Clients, NEW p \in PathsOf[c], OpenFile(c, p) \/ Truncate(c, p)
        PROVE  UnlinkInv' /\ FilesMatchRows'
    BY <1>2 DEF OpenFile, Truncate, Goto, TypeOK, objectVars, fileVars, kernelVars
  <1>3. ASSUME NEW c \in Clients, NEW v \in Contents, Write(c, v)
        PROVE  UnlinkInv' /\ FilesMatchRows'
    BY <1>3 DEF Write, objectVars, kernelVars
  <1>4. ASSUME NEW c \in Clients, OpenInvalidate(c) \/ KernelOpen(c) \/ KernelHash(c) \/ KernelSelect(c)
        PROVE  UnlinkInv' /\ FilesMatchRows'
    BY <1>4 DEF OpenInvalidate, KernelOpen, KernelHash, KernelSelect, Goto, TypeOK, objectVars, fileVars
  <1>5. ASSUME NEW c \in Clients, Flush(c) \/ KernelOpenFails(c)
        PROVE  UnlinkInv' /\ FilesMatchRows'
    BY <1>5 DEF Flush, KernelOpenFails, Closed, Goto, TypeOK, objectVars, fileVars, kernelVars
  <1>6. ASSUME NEW c \in Clients, KernelChecksum(c) \/ KernelMove(c) \/ KernelDeleteTagging(c)
        PROVE  UnlinkInv' /\ FilesMatchRows'
    BY <1>6 DEF KernelChecksum, KernelMove, KernelDeleteTagging, Goto, TypeOK, objectVars, fileVars, kernelVars
  <1>7. ASSUME NEW c \in Clients, KernelDeleteObject(c)
        PROVE  UnlinkInv' /\ FilesMatchRows'
    <2>1. pc'[c] = "unlink" /\ \A d \in Clients : d # c => pc'[d] = pc[d]
      BY <1>7 DEF KernelDeleteObject, Goto, TypeOK
    <2>2. row' = row \ {cur[c]} /\ linked' = linked /\ cur' = cur
      BY <1>7 DEF KernelDeleteObject, fileVars, kernelVars
    <2>3. pc[c] = "delobj"
      BY <1>7 DEF KernelDeleteObject
    <2> QED  BY <2>1, <2>2, <2>3
  <1>8. ASSUME NEW c \in Clients, KernelUnlink(c)
        PROVE  UnlinkInv' /\ FilesMatchRows'
    <2>1. pc'[c] # "unlink" /\ \A d \in Clients : d # c => pc'[d] = pc[d] /\ cur'[d] = cur[d]
      BY <1>8, ClosedProperties DEF KernelUnlink, KernelReset, TypeOK
    <2>2. row' = row /\ linked' = linked \ {cur[c]} /\ cur[c] \notin row
      BY <1>8 DEF KernelUnlink, objectVars
    <2> QED  BY <2>1, <2>2
  <1>9. ASSUME NEW c \in Clients, KernelAutotag(c)
        PROVE  UnlinkInv' /\ FilesMatchRows'
    <2>1. /\ pc[c] # "unlink" /\ pc'[c] # "unlink"
          /\ \A d \in Clients : d # c => pc'[d] = pc[d] /\ cur'[d] = cur[d]
      BY <1>9, ClosedProperties DEF KernelAutotag, KernelReset, TypeOK
    <2>2. row' = row /\ linked' = linked
      BY <1>9 DEF KernelAutotag, objectVars, fileVars
    <2> QED  BY <2>1, <2>2
  <1>10. ASSUME Autotag PROVE UnlinkInv' /\ FilesMatchRows'
    BY <1>10 DEF Autotag, objectVars, fileVars, kernelVars
  <1>11. CASE UNCHANGED vars
    BY <1>11 DEF vars
  <1> QED
    BY <1>1, <1>2, <1>3, <1>4, <1>5, <1>6, <1>7, <1>8, <1>9, <1>10, <1>11
    DEF Next, User, Kernel

\* The invariant on types, rows and files holds throughout.
LEMMA FilesInvHolds == Spec => []FilesInv
  <1>1. Init => FilesInv
    <2> SUFFICES ASSUME Init PROVE FilesInv
      OBVIOUS
    <2>1. NoPath.name \in {q.name : q \in Paths \cup {NoPath}} /\ <<>> \in Seq(Paths)
      OBVIOUS
    <2>2. 1 \in 1 .. MaxInode + 1 /\ 0 \in 0 .. MaxOpens
      BY DedupBounds
    <2>3. TypeOK
      BY <2>1, <2>2, ContentsAssumption DEF Init, TypeOK, Steps
    <2> QED
      BY <2>3 DEF Init, FilesInv, CurInv, PathInv, UnlinkInv, FilesMatchRows, ReaderSteps
  <1>2. FilesInv /\ [Next]_vars => FilesInv'
    BY TypeStep, CurStep, FilesStep DEF FilesInv
  <1> QED  BY <1>1, <1>2, PTL DEF Spec

\* The variables of the deduplication keep their types.
THEOREM DedupTypes == Spec => []TypeOK
  <1>1. FilesInv => TypeOK
    BY DEF FilesInv
  <1> QED  BY <1>1, FilesInvHolds, PTL

\* However clients, kernels and the autotagging thread interleave, an object
\* with a row has its file, and a file without a row is about to be unlinked
\* by the kernel that deleted the row (deduplication.c:84-105).
THEOREM ArchiveMatchesObjects == Spec => []FilesMatchRows
  <1>1. FilesInv => FilesMatchRows
    BY DEF FilesInv
  <1> QED  BY <1>1, FilesInvHolds, PTL

-----------------------------------------------------------------------------
(* Merging                                                                 *)

\* Every step keeps the checksums current and the kernel's findings true.
LEMMA MergeStep ==
  ASSUME Undisturbed, TypeOK, CurInv, FreshInv, MergeInv, [Next]_vars
  PROVE  FreshInv' /\ MergeInv'
  <1> USE DEF FreshInv, MergeInv
  <1>a. \A c, d \in Clients : c = d
    BY DEF Undisturbed
  <1>1. ASSUME NEW c \in Clients, NEW p \in PathsOf[c],
               Mknod(c, p) \/ Truncate(c, p) \/ Unlink(c, p)
        PROVE  FreshInv' /\ MergeInv'
    BY <1>1 DEF Mknod, Truncate, Unlink, kernelVars, Undisturbed
  <1>2. ASSUME NEW c \in Clients, NEW p \in PathsOf[c], OpenFile(c, p)
        PROVE  FreshInv' /\ MergeInv'
    BY <1>a, <1>2 DEF OpenFile, Goto, TypeOK, objectVars, fileVars
  <1>3. ASSUME NEW c \in Clients, NEW v \in Contents, Write(c, v)
        PROVE  FreshInv' /\ MergeInv'
    <2>1. fh[c] \in Inodes /\ checksum[fh[c]] = NoSum /\ pc[c] = "opened"
      BY <1>3 DEF Write
    <2>2. fh[c] # 0
      BY <2>1, DedupBounds DEF Inodes
    <2>3. content' = [content EXCEPT ![fh[c]] = v] /\ fh' = [fh EXCEPT ![c] = fh[c]]
      BY <1>3, <2>2 DEF Write
    <2>4. UNCHANGED <<checksum, pc, cur, hex, main>>
      BY <1>3 DEF Write, objectVars, kernelVars
    <2> QED  BY <1>a, <2>1, <2>3, <2>4 DEF TypeOK
  <1>4. ASSUME NEW c \in Clients, OpenInvalidate(c) PROVE FreshInv' /\ MergeInv'
    <2>1. fh[c] = cur[c] /\ cur[c] \in Inodes
      BY <1>4 DEF OpenInvalidate, CurInv, ReaderSteps
    <2> QED
      BY <1>a, <1>4, <2>1 DEF OpenInvalidate, Goto, TypeOK, fileVars
  <1>5. ASSUME NEW c \in Clients, Flush(c) PROVE FreshInv' /\ MergeInv'
    <2>1. pc'[c] \in {"idle", "dedup"}
      BY <1>5, ClosedProperties DEF Flush, Goto, TypeOK, Undisturbed
    <2>2. checksum' = checksum /\ content' = content
      BY <1>5 DEF Flush, objectVars, fileVars
    <2> QED  BY <1>a, <2>1, <2>2
  <1>6. ASSUME NEW c \in Clients, KernelOpen(c) PROVE FreshInv' /\ MergeInv'
    <2>1. pc'[c] = "hash" /\ checksum' = checksum /\ content' = content
      BY <1>6 DEF KernelOpen, Goto, TypeOK, objectVars, fileVars
    <2> QED  BY <1>a, <2>1
  <1>7. ASSUME NEW c \in Clients, KernelOpenFails(c) \/ KernelUnlink(c) \/ KernelAutotag(c)
        PROVE  FreshInv' /\ MergeInv'
    <2>1. pc'[c] = "idle"
      BY <1>7, ClosedProperties DEF KernelOpenFails, KernelUnlink, KernelAutotag, Undisturbed
    <2>2. checksum' = checksum /\ content' = content
      BY <1>7 DEF KernelOpenFails, KernelUnlink, KernelAutotag, objectVars, fileVars
    <2> QED  BY <1>a, <2>1, <2>2
  <1>8. ASSUME NEW c \in Clients, KernelHash(c) PROVE FreshInv' /\ MergeInv'
    <2>1. pc'[c] = "checksum" /\ hex'[c] = content[cur[c]]
      BY <1>8 DEF KernelHash, Goto, TypeOK
    <2>2. checksum' = checksum /\ content' = content /\ cur' = cur
      BY <1>8 DEF KernelHash, objectVars, fileVars
    <2> QED  BY <1>a, <2>1, <2>2
  <1>9. ASSUME NEW c \in Clients, KernelChecksum(c) PROVE FreshInv' /\ MergeInv'
    <2>1. pc[c] = "checksum" /\ pc'[c] = "select" /\ hex[c] = content[cur[c]]
      BY <1>9 DEF KernelChecksum, Goto, TypeOK
    <2>2. content' = content /\ cur' = cur /\ hex' = hex /\ main' = main
      BY <1>9 DEF KernelChecksum, fileVars, kernelVars
    <2>3. \A i \in Inodes : checksum'[i] \in {NoSum, content[i]}
      BY <1>9, <2>1 DEF KernelChecksum, TypeOK
    <2> QED  BY <1>a, <2>1, <2>2, <2>3
  <1>10. ASSUME NEW c \in Clients, KernelSelect(c) PROVE FreshInv' /\ MergeInv'
    <2>1. /\ pc[c] = "select" /\ hex[c] = content[cur[c]] /\ cur[c] \in Inodes
          /\ pc'[c] \in {"autotag", "move"}
          /\ pc'[c] = "move" => main'[c] # 0
      BY <1>10 DEF KernelSelect, Goto, TypeOK, CurInv, ReaderSteps
    <2>2. content' = content /\ cur' = cur /\ hex' = hex /\ checksum' = checksum
      BY <1>10 DEF KernelSelect, objectVars, fileVars
    <2>3. main'[c] = FirstWith(hex[c])
      BY <1>10 DEF KernelSelect, TypeOK
    <2>4. hex[c] \in Contents
      BY <2>1 DEF TypeOK
    <2>5. pc'[c] = "move" => main'[c] \in Inodes /\ content[main'[c]] = hex[c]
      BY <2>1, <2>3, <2>4, FirstWithProperties, ContentsAssumption DEF TypeOK
    <2> QED  BY <1>a, <2>1, <2>2, <2>5
  <1>11. ASSUME NEW c \in Clients, KernelMove(c) \/ KernelDeleteTagging(c) \/ KernelDeleteObject(c)
         PROVE  FreshInv' /\ MergeInv'
    <2>1. pc[c] \in {"move", "deltag", "delobj"} /\ pc'[c] \in {"deltag", "delobj", "unlink"}
      BY <1>11 DEF KernelMove, KernelDeleteTagging, KernelDeleteObject, Goto, TypeOK
    <2>2. /\ content' = content /\ checksum' = checksum /\ cur' = cur /\ hex' = hex
          /\ main' = main /\ fh' = fh
      BY <1>11 DEF KernelMove, KernelDeleteTagging, KernelDeleteObject, objectVars, fileVars, kernelVars
    <2> QED  BY <1>a, <2>1, <2>2
  <1>12. ASSUME Autotag PROVE FreshInv' /\ MergeInv'
    BY <1>12 DEF Autotag, objectVars, fileVars, kernelVars
  <1>13. CASE UNCHANGED vars
    BY <1>13 DEF vars
  <1> QED
    BY <1>1, <1>2, <1>3, <1>4, <1>5, <1>6, <1>7, <1>8, <1>9, <1>10, <1>11, <1>12, <1>13
    DEF Next, User, Kernel

\* Where one client works on files it neither truncates by path nor shares,
\* the file a duplicate is merged into holds the same bytes until the row of
\* the duplicate is gone, whatever it wrote, removed and flushed before.
THEOREM MergedFilesAreIdentical == Undisturbed => (Spec => []OnlyIdenticalFilesMerge)
  <1> SUFFICES ASSUME Undisturbed PROVE Spec => []OnlyIdenticalFilesMerge
    OBVIOUS
  <1>1. Init => FreshInv /\ MergeInv
    BY DEF Init, FreshInv, MergeInv
  <1>2. FilesInv /\ FreshInv /\ MergeInv /\ [Next]_vars => (FreshInv /\ MergeInv)'
    BY MergeStep DEF FilesInv
  <1>3. MergeInv => OnlyIdenticalFilesMerge
    BY DEF MergeInv, OnlyIdenticalFilesMerge
  <1> QED  BY <1>1, <1>2, <1>3, FilesInvHolds, PTL DEF Spec
=============================================================================
