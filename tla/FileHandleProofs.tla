-------------------------- MODULE FileHandleProofs ---------------------------
(***************************************************************************)
(* Proofs about FileHandle, for any number of handles, files, descriptors  *)
(* and other threads: what the daemon can lose of its descriptors whatever *)
(* fails, and, as long as no call fails and no handle is shared, that the  *)
(* cached descriptors serve the handles as OpenFiles promises.             *)
(***************************************************************************)
EXTENDS FileHandle, FiniteSetTheorems, TLAPS

-----------------------------------------------------------------------------
(* The inductive invariant                                                 *)

\* The number a handle answers for: fi->fh at rest and until a failed call has
\* closed it, the handler's own variable afterwards.
Holds(h) == IF pc[h] \in {"idle", "close"} THEN fh[h] ELSE local[h]

\* A handle that is not open has nothing; one that is open on an object has
\* the number of open(), and only such a one has a request in progress.
HandleInv ==
    \A h \in Handles :
        /\ opened[h] = NoFile => fh[h] = 0 /\ pc[h] = "idle"
        /\ opened[h] \in Files => fh[h] # 0
        /\ pc[h] # "idle" => opened[h] \in Files
        /\ local[h] # 0 <=> pc[h] \in {"retry", "hash", "hashed"}

\* The numbers open on a user's file, or on tags.sql, that no handle answers
\* for.  A number in fi->fh alone does not count while its request holds another:
\* it was closed, and whoever got it since may lose it.
Unserved ==
    {d \in Fds : desc[d] \in Files \cup {Special} /\ \A h \in Handles : Holds(h) # d}

LeakInv == Cardinality(Unserved) <= lost

\* No call fails and no handle is shared: what a handle answers for is open on
\* its file, is nobody else's, and what the other threads opened is still theirs.
OwnInv ==
    Careful =>
        /\ \A h \in Handles : pc[h] \notin {"close", "reopen", "retry"}
        /\ \A h \in Handles : Holds(h) # 0 =>
               desc[Holds(h)] = opened[h] /\ Holds(h) \notin others
        /\ \A h, k \in Handles : h # k /\ Holds(h) # 0 => Holds(h) # Holds(k)
        /\ \A d \in others : desc[d] = Foreign

IInv == TypeOK /\ HandleInv /\ LeakInv /\ OwnInv

-----------------------------------------------------------------------------
(* The system calls                                                        *)

\* open(2) takes a free number.
LEMMA OpenTakesFree ==
  ASSUME TypeOK, NEW f \in Files \cup {Special, Foreign}, NEW d \in Fds, SysOpen(f, d)
  PROVE  /\ desc[d] = Free
         /\ desc' \in [Fds -> Files \cup {Special, Foreign, Free}]
         /\ desc'[d] = f
         /\ \A e \in Fds : e # d => desc'[e] = desc[e]
  <1>1. FreeFds \subseteq Nat /\ FreeFds # {}
    BY FdAssumption DEF SysOpen, FreeFds, Fds
  <1>2. PICK x \in FreeFds : \A y \in FreeFds : <<y, x>> \notin OpToRel(<, Nat)
    BY <1>1, NatLessThanWellFounded, WFMin, Zenon
  <1>3. \A y \in FreeFds : ~ (y < x)
    BY <1>1, <1>2, Zenon DEF OpToRel
  <1>4. \A y \in FreeFds : x <= y
    BY <1>1, <1>3
  <1>5. d \in FreeFds
    BY <1>4 DEF SysOpen, Min
  <1> QED  BY <1>5 DEF SysOpen, FreeFds, TypeOK

\* close(2) frees the number and leaves the others.
LEMMA CloseFrees ==
  ASSUME TypeOK, NEW d, SysClose(d)
  PROVE  /\ desc' \in [Fds -> Files \cup {Special, Foreign, Free}]
         /\ d \in Fds => desc'[d] = Free
         /\ \A e \in Fds : e # d => desc'[e] = desc[e]
  BY DEF SysClose, TypeOK

\* pread() and pwrite() leave the files and the replies in their types.
LEMMA TransferTypes ==
  ASSUME TypeOK, NEW h \in Handles, NEW d, NEW o \in Ops, Possible(d, o), Transfer(h, d, o)
  PROVE  /\ content' \in [Files \cup {Special, Foreign} -> Values]
         /\ reply' \in [Handles -> Values]
  <1>1. desc[d] \in Files \cup {Special, Foreign}
    BY DEF Possible, TypeOK
  <1> QED  BY <1>1 DEF Transfer, Ops, TypeOK

\* The end of flush(): the handle is gone, or shared and kept.
LEMMA ClosedHandle ==
  ASSUME TypeOK, NEW h \in Handles, Closed(h)
  PROVE  /\ opened' \in [Handles -> Files \cup {Special, NoFile}]
         /\ reply' \in [Handles -> Values]
         /\ fh' \in [Handles -> Fds \cup {0}]
         /\ \A k \in Handles : k # h => opened'[k] = opened[k] /\ fh'[k] = fh[k]
         /\ \/ opened'[h] = opened[h] /\ fh'[h] = fh[h] /\ env.shared
            \/ opened'[h] = NoFile /\ fh'[h] = 0
  BY ValuesAssumption DEF Closed, TypeOK

-----------------------------------------------------------------------------
(* Steps                                                                   *)

\* A step in the service of a handle: the other handles keep what they have,
\* and so do all descriptors but the one the handle answers for before and the
\* one after.  When nothing fails that one is its own, or was free.
Serves(h) ==
    /\ env' = env /\ others' = others
    /\ \A k \in Handles : k # h => /\ opened'[k] = opened[k] /\ fh'[k] = fh[k]
                                    /\ pc'[k] = pc[k] /\ local'[k] = local[k]
    /\ opened'[h] = NoFile => fh'[h] = 0 /\ pc'[h] = "idle"
    /\ opened'[h] \in Files => fh'[h] # 0
    /\ pc'[h] # "idle" => opened'[h] \in Files
    /\ local'[h] # 0 <=> pc'[h] \in {"retry", "hash", "hashed"}
    /\ \A e \in Fds : e \notin {Holds(h), Holds(h)'} => desc'[e] = desc[e]
    /\ Careful =>
          /\ pc'[h] \notin {"close", "reopen", "retry"}
          /\ Holds(h)' \in {0, Holds(h)} \/ desc[Holds(h)'] = Free
          /\ Holds(h)' # 0 => desc'[Holds(h)'] = opened'[h]

\* The number it answered for before is closed, or is still the one.
Releases(h) == Holds(h) # Holds(h)' /\ Holds(h) # 0 => desc'[Holds(h)] = Free

\* The count of lost numbers keeps up with them.
LEMMA CountKeepsUp ==
  ASSUME TypeOK, TypeOK', LeakInv, NEW x,
         \/ Unserved' \subseteq Unserved /\ lost' = lost
         \/ Unserved' \subseteq Unserved \cup {x} /\ lost' = lost + 1
  PROVE  LeakInv'
  <1>1. IsFiniteSet(Fds)
    BY FS_Interval, FdAssumption DEF Fds
  <1>2. Unserved \subseteq Fds
    BY DEF Unserved
  <1>3. IsFiniteSet(Unserved) /\ Cardinality(Unserved) \in Nat
    BY <1>1, <1>2, FS_Subset, FS_CardinalityType
  <1>4. lost \in Nat /\ lost' \in Nat
    BY DEF TypeOK
  <1>5. CASE Unserved' \subseteq Unserved /\ lost' = lost
    <2>1. Cardinality(Unserved') <= Cardinality(Unserved)
      BY <1>3, <1>5, FS_Subset
    <2>2. Cardinality(Unserved') \in Nat
      BY <1>3, <1>5, FS_Subset, FS_CardinalityType
    <2> QED  BY <1>3, <1>4, <1>5, <2>1, <2>2 DEF LeakInv
  <1>6. CASE Unserved' \subseteq Unserved \cup {x} /\ lost' = lost + 1
    <2> DEFINE A == Unserved \cup {x}
    <2>1. IsFiniteSet(A) /\ Cardinality(A) \in Nat /\ Cardinality(A) <= Cardinality(Unserved) + 1
      <3>1. IsFiniteSet(A)
        BY <1>3, FS_AddElement
      <3>2. CASE x \in Unserved
        <4>1. A = Unserved
          BY <3>2
        <4>2. Cardinality(A) = Cardinality(Unserved)
          BY <4>1
        <4> HIDE DEF A
        <4> QED  BY <1>3, <3>1, <4>2
      <3>3. CASE x \notin Unserved
        <4>1. Cardinality(A) = Cardinality(Unserved) + 1
          BY <1>3, <3>3, FS_AddElement
        <4> QED  BY <1>3, <3>1, <4>1
      <3> QED  BY <3>2, <3>3
    <2>2. Cardinality(Unserved') <= Cardinality(A) /\ Cardinality(Unserved') \in Nat
      <3>1. Unserved' \subseteq A
        BY <1>6
      <3> HIDE DEF A
      <3> QED  BY <2>1, <3>1, FS_Subset, FS_CardinalityType
    <2>3. Cardinality(Unserved) <= lost
      BY DEF LeakInv
    <2> HIDE DEF A
    <2>4. Cardinality(Unserved') <= lost'
      BY <1>3, <1>4, <1>6, <2>1, <2>2, <2>3
    <2> QED  BY <2>4 DEF LeakInv
  <1> QED  BY <1>5, <1>6

\* A step in the service of a handle keeps what the invariant says of numbers.
LEMMA ServesOwn ==
  ASSUME IInv, TypeOK', NEW h \in Handles, Serves(h)
  PROVE  HandleInv' /\ OwnInv'
  <1> USE DEF IInv
  <1>0. /\ 0 \notin Fds /\ NoFile \notin Files /\ Free \notin Files
        /\ Free # Special /\ Free # Foreign
    BY FdAssumption, FilesAssumption, FreeAssumption DEF Fds
  <1>1. HandleInv'
    BY DEF HandleInv, Serves
  <1>2. OwnInv'
    <2> SUFFICES ASSUME Careful
                 PROVE  /\ \A k \in Handles : pc'[k] \notin {"close", "reopen", "retry"}
                        /\ \A k \in Handles : Holds(k)' # 0 =>
                               desc'[Holds(k)'] = opened'[k] /\ Holds(k)' \notin others
                        /\ \A k, j \in Handles : k # j /\ Holds(k)' # 0 => Holds(k)' # Holds(j)'
                        /\ \A d \in others : desc'[d] = Foreign
      BY DEF OwnInv, Careful, Serves
    <2>1. \A k \in Handles : k # h => Holds(k)' = Holds(k)
      BY DEF Serves, Holds
    <2>2. \A k \in Handles : Holds(k) \in Fds \cup {0} /\ Holds(k)' \in Fds \cup {0}
      BY DEF Holds, TypeOK
    <2>3. \A k \in Handles : Holds(k) # 0 => desc[Holds(k)] # Free
      BY FreeAssumption DEF OwnInv, TypeOK
    <2>4. \A k \in Handles : k # h /\ Holds(k) # 0 => Holds(k) \notin {Holds(h), Holds(h)'}
      BY <2>3 DEF OwnInv, Serves
    <2>5. \A k \in Handles : k # h /\ Holds(k) # 0 => desc'[Holds(k)] = desc[Holds(k)]
      BY <2>2, <2>4 DEF Serves
    <2>6. \A d \in others : d \in Fds /\ d # Holds(h) /\ d # Holds(h)'
      BY <1>0 DEF OwnInv, Serves, TypeOK
    <2>7. \A k \in Handles : pc'[k] \notin {"close", "reopen", "retry"}
      BY DEF OwnInv, Serves
    <2>8. \A k \in Handles : Holds(k)' # 0 =>
               desc'[Holds(k)'] = opened'[k] /\ Holds(k)' \notin others
      BY <2>1, <2>5, <2>6 DEF OwnInv, Serves
    <2>9. \A k, j \in Handles : k # j /\ Holds(k)' # 0 => Holds(k)' # Holds(j)'
      BY <2>1, <2>4 DEF OwnInv
    <2>10. \A d \in others : desc'[d] = Foreign
      BY <2>6 DEF OwnInv, Serves
    <2> QED  BY <2>7, <2>8, <2>9, <2>10
  <1> QED  BY <1>1, <1>2

\* If it also closes what it no longer answers for, nothing is lost.
LEMMA ServesInv ==
  ASSUME IInv, TypeOK', NEW h \in Handles, Serves(h), Releases(h), lost' = lost
  PROVE  IInv'
  <1> USE DEF IInv
  <1>0. 0 \notin Fds /\ Free \notin Files \cup {Special}
    BY FdAssumption, FreeAssumption DEF Fds
  <1>1. \A k \in Handles : k # h => Holds(k)' = Holds(k)
    BY DEF Serves, Holds
  <1>2. ASSUME NEW e \in Unserved' PROVE e \in Unserved
    <2>1. /\ e \in Fds /\ desc'[e] \in Files \cup {Special}
          /\ \A k \in Handles : Holds(k)' # e
      BY <1>2 DEF Unserved
    <2>2. e # Holds(h)
      BY <2>1, <1>0 DEF Releases
    <2>3. desc'[e] = desc[e]
      BY <2>1, <2>2 DEF Serves
    <2> QED  BY <1>1, <2>1, <2>2, <2>3 DEF Unserved
  <1>3. LeakInv'
    BY <1>2, CountKeepsUp
  <1> QED  BY <1>3, ServesOwn

\* No handle is open, and no descriptor.
LEMMA InitInv ==
  ASSUME Init
  PROVE  IInv
  <1>1. TypeOK
    BY ValuesAssumption DEF Init, TypeOK, Fds
  <1>2. \A h \in Handles : Holds(h) = 0
    BY DEF Init, Holds
  <1>3. HandleInv
    BY FilesAssumption DEF Init, HandleInv
  <1>4. OwnInv
    BY <1>2 DEF Init, OwnInv
  <1>5. Unserved = {}
    BY FreeAssumption DEF Unserved, Init
  <1>6. LeakInv
    BY <1>5, FS_EmptySet DEF LeakInv, Init
  <1> QED  BY <1>1, <1>3, <1>4, <1>6 DEF IInv

-----------------------------------------------------------------------------
(* Every action keeps the invariant                                        *)

\* open() of an object or of a stats/ file.
LEMMA OpenInv ==
  ASSUME IInv, NEW h \in Handles, NEW f \in Files \cup {Special}, Open(h, f)
  PROVE  IInv'
  <1> USE DEF IInv
  <1>0. /\ 0 \notin Fds /\ NoFile \notin Files \cup {Special}
    BY FdAssumption, FilesAssumption DEF Fds
  <1>1. PICK d \in Fds : SysOpen(f, d) /\ fh' = [fh EXCEPT ![h] = d]
    BY DEF Open
  <1>2. /\ desc[d] = Free
        /\ desc' \in [Fds -> Files \cup {Special, Foreign, Free}]
        /\ desc'[d] = f
        /\ \A e \in Fds : e # d => desc'[e] = desc[e]
    BY <1>1, OpenTakesFree
  <1>3. /\ opened[h] = NoFile /\ pc[h] = "idle" /\ fh[h] = 0 /\ local[h] = 0
        /\ opened' = [opened EXCEPT ![h] = f]
        /\ UNCHANGED <<env, content, reply, others, lost, pc, op, local>>
    BY DEF Open, CanOpen, HandleInv
  <1>4. TypeOK'
    BY <1>1, <1>2, <1>3 DEF TypeOK
  <1>5. Holds(h) = 0 /\ Holds(h)' = d
    BY <1>1, <1>3 DEF Holds, TypeOK
  <1>6. Serves(h)
    BY <1>0, <1>1, <1>2, <1>3, <1>5 DEF Serves, TypeOK
  <1> QED  BY <1>3, <1>4, <1>5, <1>6, ServesInv DEF Releases

\* open() of a .tags list: the number belongs to nobody, and is counted.
LEMMA OpenListInv ==
  ASSUME IInv, NEW h \in Handles, OpenList(h)
  PROVE  IInv'
  <1> USE DEF IInv
  <1>0. /\ 0 \notin Fds /\ NoFile \notin Files \cup {Special} /\ Special \notin Files
        /\ Free \notin Files \cup {Special, Foreign, NoFile}
    BY FdAssumption, FilesAssumption, FreeAssumption DEF Fds
  <1>1. PICK d \in Fds : SysOpen(Special, d)
    BY DEF OpenList
  <1>2. /\ desc[d] = Free
        /\ desc' \in [Fds -> Files \cup {Special, Foreign, Free}]
        /\ desc'[d] = Special
        /\ \A e \in Fds : e # d => desc'[e] = desc[e]
    BY <1>1, OpenTakesFree
  <1>3. /\ opened[h] = NoFile /\ pc[h] = "idle" /\ fh[h] = 0 /\ local[h] = 0
        /\ opened' = [opened EXCEPT ![h] = Special]
        /\ lost' = lost + 1
        /\ UNCHANGED <<env, content, reply, others, fh, pc, op, local>>
    BY DEF OpenList, CanOpen, HandleInv, handled
  <1>4. TypeOK'
    BY <1>2, <1>3 DEF TypeOK
  <1>5. \A k \in Handles : Holds(k)' = Holds(k)
    BY <1>3 DEF Holds
  <1>6. HandleInv'
    BY <1>0, <1>3 DEF HandleInv, TypeOK
  <1>7. LeakInv'
    <2>1. Unserved' \subseteq Unserved \cup {d}
      BY <1>2, <1>5 DEF Unserved
    <2> QED  BY <1>3, <1>4, <2>1, CountKeepsUp
  <1>8. OwnInv'
    <2> SUFFICES ASSUME Careful PROVE OwnInv'
      BY <1>3 DEF OwnInv, Careful
    <2>1. Holds(h) = 0
      BY <1>3 DEF Holds
    <2>2. \A k \in Handles : Holds(k) # 0 =>
              Holds(k) \in Fds /\ Holds(k) # d /\ opened'[k] = opened[k]
      BY <1>0, <1>2, <1>3, <2>1 DEF OwnInv, TypeOK, Holds
    <2>3. \A e \in others : e \in Fds /\ e # d
      BY <1>0, <1>2 DEF OwnInv, TypeOK
    <2> QED  BY <1>2, <1>3, <1>5, <2>2, <2>3 DEF OwnInv
  <1> QED  BY <1>4, <1>6, <1>7, <1>8

\* The steps of read() and write().
LEMMA RequestInv ==
  ASSUME IInv, NEW h \in Handles,
         \/ \E o \in Ops : Try(h, o) \/ TryFails(h, o)
         \/ CloseFailed(h) \/ Reopen(h) \/ ReopenFails(h)
         \/ Retry(h) \/ RetryFails(h)
  PROVE  IInv'
  <1> USE DEF IInv
  <1>0. /\ 0 \notin Fds /\ NoFile \notin Files /\ Free \notin Files
        /\ Foreign \notin Files /\ Free # Special /\ Free # Foreign
    BY FdAssumption, FilesAssumption, FreeAssumption DEF Fds
  <1>1. ASSUME NEW o \in Ops, Try(h, o) PROVE IInv'
    <2>1. content' \in [Files \cup {Special, Foreign} -> Values] /\ reply' \in [Handles -> Values]
      BY <1>1, TransferTypes DEF Try
    <2>2. UNCHANGED <<env, opened, desc, others, lost, fh, pc, op, local>>
      BY <1>1 DEF Try, handled
    <2>3. TypeOK'
      BY <2>1, <2>2 DEF TypeOK
    <2>4. Holds(h)' = Holds(h)
      BY <2>2 DEF Holds
    <2>5. Serves(h)
      BY <2>2, <2>4 DEF Serves, HandleInv, OwnInv
    <2> QED  BY <2>2, <2>3, <2>4, <2>5, ServesInv DEF Releases
  <1>2. ASSUME NEW o \in Ops, TryFails(h, o) PROVE IInv'
    <2>1. opened[h] \in Files /\ pc[h] = "idle" /\ fh[h] \in Fds
      BY <1>2 DEF TryFails, HandleInv, TypeOK
    <2>2. /\ UNCHANGED <<env, opened, content, reply, desc, others, lost, fh, local>>
          /\ pc' = [pc EXCEPT ![h] = "close"] /\ op' = [op EXCEPT ![h] = o]
      BY <1>2 DEF TryFails, promised
    <2>3. TypeOK'
      BY <2>2 DEF TypeOK, Ops
    <2>4. Holds(h) = fh[h] /\ Holds(h)' = fh[h]
      BY <2>1, <2>2 DEF Holds, TypeOK
    <2>5. ~Careful
      <3>1. ASSUME Careful PROVE Possible(fh[h], o)
        BY <1>0, <2>1, <2>4, <3>1, FilesAssumption DEF Possible, OwnInv
      <3> QED  BY <1>2, <3>1 DEF TryFails, Refused, Careful
    <2>6. Serves(h)
      BY <2>1, <2>2, <2>4, <2>5, <1>0 DEF Serves, HandleInv, TypeOK
    <2> QED  BY <2>2, <2>3, <2>4, <2>6, ServesInv DEF Releases
  <1>3. ASSUME CloseFailed(h) PROVE IInv'
    <2>1. /\ pc[h] = "close" /\ opened[h] \in Files /\ fh[h] \in Fds /\ local[h] = 0 /\ ~Careful
      BY <1>3 DEF CloseFailed, HandleInv, TypeOK, OwnInv
    <2>2. /\ UNCHANGED <<env, opened, content, reply, others, lost, fh, op, local>>
          /\ pc' = [pc EXCEPT ![h] = "reopen"] /\ SysClose(fh[h])
      BY <1>3 DEF CloseFailed, promised
    <2>3. /\ desc' \in [Fds -> Files \cup {Special, Foreign, Free}]
          /\ desc'[fh[h]] = Free
          /\ \A e \in Fds : e # fh[h] => desc'[e] = desc[e]
      BY <2>1, <2>2, CloseFrees
    <2>4. TypeOK'
      BY <2>2, <2>3 DEF TypeOK
    <2>5. Holds(h) = fh[h] /\ Holds(h)' = 0
      BY <2>1, <2>2 DEF Holds, TypeOK
    <2>6. Serves(h)
      BY <1>0, <2>1, <2>2, <2>3, <2>5 DEF Serves, TypeOK
    <2> QED  BY <2>2, <2>3, <2>4, <2>5, <2>6, ServesInv DEF Releases
  <1>4. ASSUME Reopen(h) PROVE IInv'
    <2>1. /\ pc[h] = "reopen" /\ opened[h] \in Files /\ fh[h] \in Fds /\ local[h] = 0 /\ ~Careful
      BY <1>4 DEF Reopen, HandleInv, TypeOK, OwnInv
    <2>2. PICK d \in Fds : SysOpen(opened[h], d) /\ local' = [local EXCEPT ![h] = d]
      BY <1>4 DEF Reopen
    <2>3. /\ UNCHANGED <<env, opened, content, reply, others, lost, fh, op>>
          /\ pc' = [pc EXCEPT ![h] = "retry"]
      BY <1>4 DEF Reopen, promised
    <2>4. /\ desc' \in [Fds -> Files \cup {Special, Foreign, Free}]
          /\ \A e \in Fds : e # d => desc'[e] = desc[e]
      BY <2>1, <2>2, OpenTakesFree
    <2>5. TypeOK'
      BY <2>2, <2>3, <2>4 DEF TypeOK
    <2>6. Holds(h) = 0 /\ Holds(h)' = d
      BY <2>1, <2>2, <2>3 DEF Holds, TypeOK
    <2>7. Serves(h)
      BY <1>0, <2>1, <2>2, <2>3, <2>4, <2>6 DEF Serves, TypeOK
    <2> QED  BY <2>3, <2>5, <2>6, <2>7, ServesInv DEF Releases
  <1>5. ASSUME ReopenFails(h) PROVE IInv'
    <2>1. /\ pc[h] = "reopen" /\ opened[h] \in Files /\ fh[h] \in Fds /\ local[h] = 0 /\ ~Careful
      BY <1>5 DEF ReopenFails, HandleInv, TypeOK, OwnInv
    <2>2. /\ UNCHANGED <<env, opened, content, reply, desc, others, lost, fh>>
          /\ pc' = [pc EXCEPT ![h] = "idle"] /\ op' = [op EXCEPT ![h] = "read"]
          /\ local' = [local EXCEPT ![h] = 0]
      BY <1>5 DEF ReopenFails, Answered, promised
    <2>3. TypeOK'
      BY <2>2 DEF TypeOK
    <2>4. Holds(h) = 0 /\ Holds(h)' = fh[h]
      BY <2>1, <2>2 DEF Holds, TypeOK
    <2>5. Serves(h)
      BY <1>0, <2>1, <2>2, <2>4 DEF Serves, TypeOK
    <2> QED  BY <2>2, <2>3, <2>4, <2>5, ServesInv DEF Releases
  <1>6. ASSUME Retry(h) \/ RetryFails(h) PROVE IInv'
    <2>1. /\ pc[h] = "retry" /\ opened[h] \in Files /\ fh[h] \in Fds /\ ~Careful
          /\ op[h] \in Ops
      BY <1>6 DEF Retry, RetryFails, HandleInv, TypeOK, OwnInv, Ops
    <2>2. /\ UNCHANGED <<env, opened, desc, others, fh>>
          /\ pc' = [pc EXCEPT ![h] = "idle"] /\ op' = [op EXCEPT ![h] = "read"]
          /\ local' = [local EXCEPT ![h] = 0]
          /\ lost' = IF local[h] = fh[h] THEN lost ELSE lost + 1
      BY <1>6 DEF Retry, RetryFails, Answered, Forgotten, promised
    <2>3. content' \in [Files \cup {Special, Foreign} -> Values] /\ reply' \in [Handles -> Values]
      <3>1. CASE Retry(h)
        BY <2>1, <3>1, TransferTypes DEF Retry
      <3>2. CASE RetryFails(h)
        BY <3>2 DEF RetryFails, promised, TypeOK
      <3> QED  BY <1>6, <3>1, <3>2
    <2>4. lost' \in Nat
      BY <2>2 DEF TypeOK
    <2>5. TypeOK'
      BY <2>2, <2>3, <2>4 DEF TypeOK
    <2>6. Holds(h) = local[h] /\ Holds(h)' = fh[h]
      BY <2>1, <2>2 DEF Holds, TypeOK
    <2>7. Serves(h)
      BY <1>0, <2>1, <2>2, <2>6 DEF Serves, TypeOK
    <2>8. \A k \in Handles : k # h => Holds(k)' = Holds(k)
      BY <2>2 DEF Holds, TypeOK
    <2>9. CASE local[h] = fh[h]
      BY <2>2, <2>5, <2>6, <2>7, <2>9, ServesInv DEF Releases
    <2>10. CASE local[h] # fh[h]
      <3>1. Unserved' \subseteq Unserved \cup {local[h]}
        BY <2>2, <2>6, <2>8 DEF Unserved
      <3>2. LeakInv'
        BY <2>2, <2>5, <2>10, <3>1, CountKeepsUp
      <3> QED  BY <2>5, <2>7, <3>2, ServesOwn
    <2> QED  BY <2>9, <2>10
  <1> QED  BY <1>1, <1>2, <1>3, <1>4, <1>5, <1>6

\* The steps of flush().
LEMMA FlushInv ==
  ASSUME IInv, NEW h \in Handles,
         \/ Flush(h) \/ FlushDedup(h)
         \/ KernelOpen(h) \/ KernelOpenFails(h) \/ KernelRead(h) \/ KernelClose(h)
  PROVE  IInv'
  <1> USE DEF IInv
  <1>0. /\ 0 \notin Fds /\ NoFile \notin Files /\ NoFile # Special
    BY FdAssumption, FilesAssumption DEF Fds
  <1>1. ASSUME Flush(h) PROVE IInv'
    <2>1. /\ pc[h] = "idle" /\ SysClose(fh[h]) /\ Closed(h)
          /\ UNCHANGED <<env, content, others, lost, pc, op, local>>
      BY <1>1 DEF Flush
    <2>2. /\ desc' \in [Fds -> Files \cup {Special, Foreign, Free}]
          /\ fh[h] \in Fds => desc'[fh[h]] = Free
          /\ \A e \in Fds : e # fh[h] => desc'[e] = desc[e]
      BY <2>1, CloseFrees
    <2>3. /\ opened' \in [Handles -> Files \cup {Special, NoFile}]
          /\ reply' \in [Handles -> Values]
          /\ fh' \in [Handles -> Fds \cup {0}]
          /\ \A k \in Handles : k # h => opened'[k] = opened[k] /\ fh'[k] = fh[k]
          /\ \/ opened'[h] = opened[h] /\ fh'[h] = fh[h] /\ env.shared
             \/ opened'[h] = NoFile /\ fh'[h] = 0
      BY <2>1, ClosedHandle
    <2>4. TypeOK'
      BY <2>1, <2>2, <2>3 DEF TypeOK
    <2>5. Holds(h) = fh[h] /\ Holds(h)' = fh'[h] /\ fh[h] \in Fds \cup {0}
      BY <2>1 DEF Holds, TypeOK
    <2>6. Serves(h)
      BY <1>0, <2>1, <2>2, <2>3, <2>5 DEF Serves, HandleInv, Careful
    <2>7. Releases(h)
      BY <2>2, <2>5 DEF Releases
    <2> QED  BY <2>1, <2>4, <2>6, <2>7, ServesInv
  <1>2. ASSUME FlushDedup(h) PROVE IInv'
    <2>1. /\ pc[h] = "idle" /\ opened[h] \in Files /\ fh[h] \in Fds /\ local[h] = 0
      BY <1>2 DEF FlushDedup, HandleInv, TypeOK
    <2>2. /\ UNCHANGED <<env, opened, content, reply, others, lost, fh, op, local>>
          /\ pc' = [pc EXCEPT ![h] = "dedup"] /\ SysClose(fh[h])
      BY <1>2 DEF FlushDedup, promised
    <2>3. /\ desc' \in [Fds -> Files \cup {Special, Foreign, Free}]
          /\ desc'[fh[h]] = Free
          /\ \A e \in Fds : e # fh[h] => desc'[e] = desc[e]
      BY <2>1, <2>2, CloseFrees
    <2>4. TypeOK'
      BY <2>2, <2>3 DEF TypeOK
    <2>5. Holds(h) = fh[h] /\ Holds(h)' = 0
      BY <2>1, <2>2 DEF Holds, TypeOK
    <2>6. Serves(h)
      BY <1>0, <2>1, <2>2, <2>3, <2>5 DEF Serves, TypeOK
    <2> QED  BY <2>2, <2>3, <2>4, <2>5, <2>6, ServesInv DEF Releases
  <1>3. ASSUME KernelOpen(h) PROVE IInv'
    <2>1. /\ pc[h] = "dedup" /\ opened[h] \in Files /\ fh[h] \in Fds /\ local[h] = 0
      BY <1>3 DEF KernelOpen, HandleInv, TypeOK
    <2>2. PICK d \in Fds : SysOpen(opened[h], d) /\ local' = [local EXCEPT ![h] = d]
      BY <1>3 DEF KernelOpen
    <2>3. /\ UNCHANGED <<env, opened, content, reply, others, lost, fh, op>>
          /\ pc' = [pc EXCEPT ![h] = "hash"]
      BY <1>3 DEF KernelOpen, promised
    <2>4. /\ desc[d] = Free /\ desc'[d] = opened[h]
          /\ desc' \in [Fds -> Files \cup {Special, Foreign, Free}]
          /\ \A e \in Fds : e # d => desc'[e] = desc[e]
      BY <2>1, <2>2, OpenTakesFree
    <2>5. TypeOK'
      BY <2>2, <2>3, <2>4 DEF TypeOK
    <2>6. Holds(h) = 0 /\ Holds(h)' = d
      BY <2>1, <2>2, <2>3 DEF Holds, TypeOK
    <2>7. Serves(h)
      BY <1>0, <2>1, <2>2, <2>3, <2>4, <2>6 DEF Serves, TypeOK
    <2> QED  BY <2>3, <2>5, <2>6, <2>7, ServesInv DEF Releases
  <1>4. ASSUME KernelOpenFails(h) PROVE IInv'
    <2>1. /\ pc[h] = "dedup" /\ opened[h] \in Files /\ fh[h] \in Fds /\ local[h] = 0
      BY <1>4 DEF KernelOpenFails, HandleInv, TypeOK
    <2>2. /\ UNCHANGED <<env, content, desc, others, lost>> /\ Closed(h)
          /\ pc' = [pc EXCEPT ![h] = "idle"] /\ op' = [op EXCEPT ![h] = "read"]
          /\ local' = [local EXCEPT ![h] = 0]
      BY <1>4 DEF KernelOpenFails, Answered
    <2>3. /\ opened' \in [Handles -> Files \cup {Special, NoFile}]
          /\ reply' \in [Handles -> Values]
          /\ fh' \in [Handles -> Fds \cup {0}]
          /\ \A k \in Handles : k # h => opened'[k] = opened[k] /\ fh'[k] = fh[k]
          /\ \/ opened'[h] = opened[h] /\ fh'[h] = fh[h] /\ env.shared
             \/ opened'[h] = NoFile /\ fh'[h] = 0
      BY <2>2, ClosedHandle
    <2>4. TypeOK'
      BY <2>2, <2>3 DEF TypeOK
    <2>5. Holds(h) = 0 /\ Holds(h)' = fh'[h]
      BY <2>1, <2>2 DEF Holds, TypeOK
    <2>6. Serves(h)
      BY <1>0, <2>1, <2>2, <2>3, <2>5 DEF Serves, TypeOK, Careful
    <2> QED  BY <2>2, <2>4, <2>5, <2>6, ServesInv DEF Releases
  <1>5. ASSUME KernelRead(h) PROVE IInv'
    <2>1. /\ pc[h] = "hash" /\ opened[h] \in Files /\ fh[h] \in Fds /\ local[h] \in Fds
      BY <1>5 DEF KernelRead, HandleInv, TypeOK
    <2>2. /\ UNCHANGED <<env, opened, desc, others, lost, fh, op, local>>
          /\ pc' = [pc EXCEPT ![h] = "hashed"]
      BY <1>5 DEF KernelRead
    <2>3. content' \in [Files \cup {Special, Foreign} -> Values] /\ reply' \in [Handles -> Values]
      <3>1. CASE Possible(local[h], "read")
        BY <1>5, <3>1, TransferTypes DEF KernelRead, Ops
      <3>2. CASE ~Possible(local[h], "read")
        BY <1>5, <3>2 DEF KernelRead, TypeOK
      <3> QED  BY <3>1, <3>2
    <2>4. TypeOK'
      BY <2>2, <2>3 DEF TypeOK
    <2>5. Holds(h) = local[h] /\ Holds(h)' = local[h]
      BY <2>1, <2>2 DEF Holds, TypeOK
    <2>6. Serves(h)
      BY <1>0, <2>1, <2>2, <2>5 DEF Serves, TypeOK, OwnInv
    <2> QED  BY <2>2, <2>4, <2>5, <2>6, ServesInv DEF Releases
  <1>6. ASSUME KernelClose(h) PROVE IInv'
    <2>1. /\ pc[h] = "hashed" /\ opened[h] \in Files /\ fh[h] \in Fds /\ local[h] \in Fds
      BY <1>6 DEF KernelClose, HandleInv, TypeOK
    <2>2. /\ UNCHANGED <<env, content, others, lost>> /\ Closed(h) /\ SysClose(local[h])
          /\ pc' = [pc EXCEPT ![h] = "idle"] /\ op' = [op EXCEPT ![h] = "read"]
          /\ local' = [local EXCEPT ![h] = 0]
      BY <1>6 DEF KernelClose, Answered
    <2>3. /\ desc' \in [Fds -> Files \cup {Special, Foreign, Free}]
          /\ desc'[local[h]] = Free
          /\ \A e \in Fds : e # local[h] => desc'[e] = desc[e]
      BY <2>1, <2>2, CloseFrees
    <2>4. /\ opened' \in [Handles -> Files \cup {Special, NoFile}]
          /\ reply' \in [Handles -> Values]
          /\ fh' \in [Handles -> Fds \cup {0}]
          /\ \A k \in Handles : k # h => opened'[k] = opened[k] /\ fh'[k] = fh[k]
          /\ \/ opened'[h] = opened[h] /\ fh'[h] = fh[h] /\ env.shared
             \/ opened'[h] = NoFile /\ fh'[h] = 0
      BY <2>2, ClosedHandle
    <2>5. TypeOK'
      BY <2>2, <2>3, <2>4 DEF TypeOK
    <2>6. Holds(h) = local[h] /\ Holds(h)' = fh'[h]
      BY <2>1, <2>2 DEF Holds, TypeOK
    <2>7. Serves(h)
      BY <1>0, <2>1, <2>2, <2>3, <2>4, <2>6 DEF Serves, TypeOK, Careful
    <2> QED  BY <2>2, <2>3, <2>5, <2>6, <2>7, ServesInv DEF Releases
  <1> QED  BY <1>1, <1>2, <1>3, <1>4, <1>5, <1>6

\* The other threads take free numbers, and close what was open on their own.
LEMMA OthersInv ==
  ASSUME IInv, OtherOpen \/ \E d \in others : OtherClose(d)
  PROVE  IInv'
  <1> USE DEF IInv
  <1>0. /\ 0 \notin Fds /\ Foreign \notin Files \cup {Special}
        /\ NoFile \notin Files \cup {Special, Foreign}
        /\ Free \notin Files \cup {Special, Foreign, NoFile}
    BY FdAssumption, FilesAssumption, FreeAssumption DEF Fds
  <1>1. UNCHANGED <<env, opened, content, reply, lost, fh, pc, op, local>>
    BY DEF OtherOpen, OtherClose, promised, handled
  <1>2. \A h \in Handles : Holds(h)' = Holds(h)
    BY <1>1 DEF Holds
  <1>3. HandleInv'
    BY <1>1 DEF HandleInv
  <1>4. \A h \in Handles : Holds(h) \in Fds \cup {0}
    BY DEF Holds, TypeOK
  <1>5. ASSUME OtherOpen PROVE IInv'
    <2>1. PICK d \in Fds : SysOpen(Foreign, d) /\ others' = others \cup {d}
      BY <1>5 DEF OtherOpen
    <2>2. /\ desc[d] = Free
          /\ desc' \in [Fds -> Files \cup {Special, Foreign, Free}]
          /\ desc'[d] = Foreign
          /\ \A e \in Fds : e # d => desc'[e] = desc[e]
      BY <2>1, OpenTakesFree
    <2>3. TypeOK'
      BY <1>1, <2>1, <2>2 DEF TypeOK
    <2>4. Unserved' \subseteq Unserved
      BY <1>0, <1>2, <2>2 DEF Unserved
    <2>5. LeakInv'
      BY <1>1, <2>3, <2>4, CountKeepsUp
    <2>6. OwnInv'
      <3> SUFFICES ASSUME Careful PROVE OwnInv'
        BY <1>1 DEF OwnInv, Careful
      <3>1. \A h \in Handles : Holds(h) # 0 => Holds(h) \in Fds /\ Holds(h) # d
        BY <1>0, <1>4, <2>2 DEF OwnInv, TypeOK
      <3>2. \A e \in others : e \in Fds /\ e # d
        BY <1>0, <2>2 DEF OwnInv, TypeOK
      <3> QED  BY <1>1, <1>2, <2>1, <2>2, <3>1, <3>2 DEF OwnInv
    <2> QED  BY <1>3, <2>3, <2>5, <2>6
  <1>6. ASSUME NEW d \in others, OtherClose(d) PROVE IInv'
    <2>1. d \in Fds /\ SysClose(d) /\ others' = others \ {d}
      BY <1>6 DEF OtherClose, TypeOK
    <2>2. /\ desc' \in [Fds -> Files \cup {Special, Foreign, Free}]
          /\ desc'[d] = Free
          /\ \A e \in Fds : e # d => desc'[e] = desc[e]
      BY <2>1, CloseFrees
    <2>3. TypeOK'
      BY <1>1, <2>1, <2>2 DEF TypeOK
    <2>4. Unserved' \subseteq Unserved
      BY <1>0, <1>2, <2>2 DEF Unserved
    <2>5. LeakInv'
      BY <1>1, <2>3, <2>4, CountKeepsUp
    <2>6. OwnInv'
      <3> SUFFICES ASSUME Careful PROVE OwnInv'
        BY <1>1 DEF OwnInv, Careful
      <3>1. \A h \in Handles : Holds(h) # 0 => Holds(h) \in Fds /\ Holds(h) # d
        BY <1>4, <1>6 DEF OwnInv
      <3>2. \A e \in others' : e \in Fds /\ e # d /\ e \in others
        BY <2>1 DEF TypeOK
      <3> QED  BY <1>1, <1>2, <2>1, <2>2, <3>1, <3>2 DEF OwnInv
    <2> QED  BY <1>3, <2>3, <2>5, <2>6
  <1> QED  BY <1>5, <1>6

\* Every step keeps the invariant.
LEMMA NextInv ==
  ASSUME IInv, [Next]_vars
  PROVE  IInv'
  <1>1. ASSUME NEW h \in Handles, NEW f \in Files, Open(h, f) PROVE IInv'
    BY <1>1, OpenInv
  <1>2. ASSUME NEW h \in Handles, OpenStats(h) PROVE IInv'
    BY <1>2, OpenInv DEF OpenStats
  <1>3. ASSUME NEW h \in Handles, HandleStep(h) PROVE IInv'
    BY <1>1, <1>2, <1>3, OpenListInv, RequestInv, FlushInv DEF HandleStep
  <1>4. ASSUME UNCHANGED vars PROVE IInv'
    <2>1. UNCHANGED <<env, opened, content, reply, desc, others, lost, fh, pc, op, local>>
      BY <1>4 DEF vars, promised, handled
    <2>2. \A h \in Handles : Holds(h)' = Holds(h)
      BY <2>1 DEF Holds
    <2>3. TypeOK' /\ HandleInv'
      BY <2>1 DEF IInv, TypeOK, HandleInv
    <2>4. Unserved' = Unserved
      BY <2>1, <2>2 DEF Unserved
    <2>5. LeakInv' /\ OwnInv'
      BY <2>1, <2>2, <2>4 DEF IInv, LeakInv, OwnInv, Careful
    <2> QED  BY <2>3, <2>5 DEF IInv
  <1> QED  BY <1>3, <1>4, OthersInv DEF Next

\* The inductive invariant holds throughout.
LEMMA InvHolds == Spec => []IInv
  <1>1. Init => IInv
    BY InitInv
  <1>2. IInv /\ [Next]_vars => IInv'
    BY NextInv
  <1> QED  BY <1>1, <1>2, PTL DEF Spec

-----------------------------------------------------------------------------
(* The theorems                                                            *)

\* The variables stay in their types, whatever fails and whoever shares; no
\* request is left on a handle without a file.
THEOREM HandleTypes == Spec => []TypeOK
  <1>1. IInv => TypeOK
    BY DEF IInv
  <1> QED  BY <1>1, InvHolds, PTL

\* Whatever the number of handles and descriptors, whatever fails, whoever
\* shares a handle and whatever other threads open and close: the numbers that
\* serve nobody are no more than the .tags lists opened (open.c:51-55) and the
\* second attempts that got another number (read.c:102).
THEOREM LostNumbersAreCounted == Spec => []LeaksAreCounted
  <1>1. ASSUME IInv PROVE LeaksAreCounted
    <2> DEFINE S == {d \in Fds :
                      /\ desc[d] \in Files \cup {Special}
                      /\ ~ \E h \in Handles : opened[h] # NoFile /\ fh[h] = d
                      /\ ~ \E h \in Handles : pc[h] # "idle" /\ local[h] = d}
    <2>1. S \subseteq Unserved
      <3> SUFFICES ASSUME NEW d \in S, NEW h \in Handles, Holds(h) = d PROVE FALSE
        BY DEF Unserved
      <3>1. 0 \notin Fds
        BY FdAssumption DEF Fds
      <3> QED  BY <1>1, <3>1 DEF Holds, IInv, HandleInv
    <2>2. IsFiniteSet(Fds)
      BY FS_Interval, FdAssumption DEF Fds
    <2>3. IsFiniteSet(Unserved) /\ Cardinality(Unserved) \in Nat
      <3>1. Unserved \subseteq Fds
        BY DEF Unserved
      <3> QED  BY <2>2, <3>1, FS_Subset, FS_CardinalityType
    <2>4. Cardinality(S) <= Cardinality(Unserved) /\ Cardinality(S) \in Nat
      <3> HIDE DEF S
      <3> QED  BY <2>1, <2>3, FS_Subset, FS_CardinalityType
    <2>5. Cardinality(Unserved) <= lost /\ lost \in Nat
      BY <1>1 DEF IInv, LeakInv, TypeOK
    <2>6. Cardinality(S) <= lost
      <3> HIDE DEF S
      <3> QED  BY <2>3, <2>4, <2>5
    <2> QED  BY <2>6 DEF LeaksAreCounted
  <1> QED  BY <1>1, InvHolds, PTL

\* Two handles at rest never have the same number in fi->fh, nor one of another
\* thread: the close() of one flush() is never that of another's descriptor.
THEOREM HandlesDoNotShareNumbers == Spec => []NumbersAreDistinct
  <1>1. ASSUME IInv PROVE NumbersAreDistinct
    BY <1>1 DEF IInv, OwnInv, Holds, NumbersAreDistinct
  <1> QED  BY <1>1, InvHolds, PTL

\* With nothing that fails and nothing shared, a read() or write() through a
\* number that is open, and the checksum, reach the file of the handle.
LEMMA ServedByOwnFile ==
  ASSUME IInv, Careful, NEW h \in Handles, opened[h] \in Files
  PROVE  /\ pc[h] = "idle" => desc[fh[h]] = opened[h]
         /\ pc[h] = "hash" => local[h] \in Fds /\ desc[local[h]] = opened[h]
         /\ pc[h] # "retry"
  BY DEF IInv, OwnInv, HandleInv, Holds, TypeOK

\* A transfer on the handle's own file is a read or a write of OpenFiles.
LEMMA TransferIsPromised ==
  ASSUME NEW h \in Handles, NEW d, NEW o \in Ops, Transfer(h, d, o),
         opened[h] \in Files, desc[d] = opened[h], opened' = opened
  PROVE  Promise!Next
  <1>1. CASE o = "read"
    BY <1>1 DEF Transfer, Promise!Next, Promise!Read
  <1>2. CASE o # "read"
    BY <1>2 DEF Transfer, Promise!Next, Promise!Write, Ops
  <1> QED  BY <1>1, <1>2

\* The end of flush() is a close, or nothing while others share the handle.
LEMMA ClosedIsPromised ==
  ASSUME NEW h \in Handles, Closed(h), UNCHANGED content
  PROVE  [Promise!Next]_promised
  BY DEF Closed, Promise!Next, Promise!Close, promised

\* Every step is a step of OpenFiles on what the applications see, or none.
LEMMA StepIsPromised ==
  ASSUME IInv, Careful, [Next]_vars
  PROVE  [Promise!Next]_promised
  <1>1. ASSUME NEW h \in Handles, NEW f \in Files \cup {Special}, Open(h, f)
        PROVE  Promise!Next
    BY <1>1 DEF Open, CanOpen, Promise!Next, Promise!Open
  <1>2. ASSUME NEW h \in Handles, OpenList(h) PROVE Promise!Next
    BY <1>2 DEF OpenList, CanOpen, Promise!Next, Promise!Open
  <1>3. ASSUME NEW h \in Handles, NEW o \in Ops, Try(h, o) PROVE Promise!Next
    <2>1. opened[h] \in Files /\ pc[h] = "idle" /\ Transfer(h, fh[h], o) /\ opened' = opened
      BY <1>3 DEF Try
    <2>2. desc[fh[h]] = opened[h]
      BY <2>1, ServedByOwnFile
    <2> QED  BY <2>1, <2>2, TransferIsPromised
  <1>4. ASSUME NEW h \in Handles, Retry(h) \/ RetryFails(h) PROVE FALSE
    <2>1. pc[h] = "retry" /\ opened[h] \in Files
      BY <1>4 DEF Retry, RetryFails, IInv, HandleInv
    <2> QED  BY <2>1, ServedByOwnFile
  <1>5. ASSUME NEW h \in Handles, KernelRead(h) PROVE Promise!Next
    <2>1. opened[h] \in Files /\ pc[h] = "hash" /\ opened' = opened
      BY <1>5 DEF KernelRead, IInv, HandleInv
    <2>2. local[h] \in Fds /\ desc[local[h]] = opened[h]
      BY <2>1, ServedByOwnFile
    <2>3. Possible(local[h], "read")
      BY <2>1, <2>2, FreeAssumption DEF Possible
    <2>4. Transfer(h, local[h], "read") /\ "read" \in Ops
      BY <1>5, <2>3 DEF KernelRead, Ops
    <2> QED  BY <2>1, <2>2, <2>4, TransferIsPromised
  <1>6. ASSUME NEW h \in Handles, Flush(h) \/ KernelOpenFails(h) \/ KernelClose(h)
        PROVE  [Promise!Next]_promised
    BY <1>6, ClosedIsPromised DEF Flush, KernelOpenFails, KernelClose
  <1>7. ASSUME NEW h \in Handles,
               \/ \E o \in Ops : TryFails(h, o)
               \/ CloseFailed(h) \/ Reopen(h) \/ ReopenFails(h)
               \/ FlushDedup(h) \/ KernelOpen(h)
        PROVE  UNCHANGED promised
    BY <1>7 DEF TryFails, CloseFailed, Reopen, ReopenFails, FlushDedup, KernelOpen
  <1>8. ASSUME OtherOpen \/ (\E d \in others : OtherClose(d)) \/ UNCHANGED vars
        PROVE  UNCHANGED promised
    BY <1>8 DEF OtherOpen, OtherClose, vars
  <1> QED
    BY <1>1, <1>2, <1>3, <1>4, <1>5, <1>6, <1>7, <1>8 DEF Next, HandleStep, OpenStats

\* The cached descriptors implement OpenFiles as long as no call fails and no
\* handle is shared: through any number of opens, closes and checksums, and
\* whatever other threads open and close, every read(), write() and checksum
\* reaches the file its handle was opened on.
THEOREM CacheImplementsOpenFiles == Spec => HandlesReachTheirFiles
  <1>1. Init => Promise!Init
    BY DEF Init, Promise!Init
  <1>2. IInv /\ [Next]_vars => [Careful => Promise!Next]_promised
    BY StepIsPromised DEF promised
  <1> QED
    BY <1>1, <1>2, InvHolds, PTL DEF Spec, HandlesReachTheirFiles
=============================================================================
