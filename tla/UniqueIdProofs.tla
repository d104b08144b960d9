--------------------------- MODULE UniqueIdProofs ---------------------------
(***************************************************************************)
(* Proofs about UniqueId, for any pids and any range of ids.  The theorems *)
(* about ids need ~KillAtWrite: a process killed between its truncate and  *)
(* its close leaves an empty file behind, and IdExclusion is lost.         *)
(***************************************************************************)
EXTENDS UniqueId, TLAPS

(* Type correctness, whatever the kills. *)
LEMMA TypeInit == Init => TypeOK
  <1> SUFFICES ASSUME Init
               PROVE  TypeOK
    OBVIOUS
  <1> USE ConstantsAssumption DEF Init, TypeOK, EmptyFile
  <1>1. canUsePs \in BOOLEAN /\ unread \in SUBSET Ids
    OBVIOUS
  <1> QED
    BY <1>1

LEMMA TypeStep == TypeOK /\ [Next]_vars => TypeOK'
  <1> SUFFICES ASSUME TypeOK, [Next]_vars
               PROVE  TypeOK'
    OBVIOUS
  <1> USE ConstantsAssumption DEF TypeOK, Dtr, EmptyFile
  <1>1. ASSUME NEW p \in Pids, Start(p)
        PROVE  TypeOK'
    BY <1>1 DEF Start, buffer
  <1>2. ASSUME NEW p \in Pids, ForeignExit(p)
        PROVE  TypeOK'
    BY <1>2 DEF ForeignExit, buffer
  <1>3. ASSUME NEW p \in Pids, Lock(p)
        PROVE  TypeOK'
    BY <1>3 DEF Lock
  <1>4. ASSUME NEW p \in Pids, NEW i \in Ids, ReadLine(p, i)
        PROVE  TypeOK'
    BY <1>4 DEF ReadLine
  <1>5. ASSUME NEW p \in Pids, TakeId(p)
        PROVE  TypeOK'
    BY <1>5 DEF TakeId
  <1>6. ASSUME NEW p \in Pids, WriteBack(p)
        PROVE  TypeOK'
    BY <1>6 DEF WriteBack, NoBuffer
  <1>7. ASSUME NEW p \in Pids, NoneVacant(p)
        PROVE  TypeOK'
    BY <1>7 DEF NoneVacant, NoBuffer
  <1>8. ASSUME NEW p \in Pids, Retry(p)
        PROVE  TypeOK'
    BY <1>8 DEF Retry, buffer
  <1>9. ASSUME NEW p \in Pids, Finish(p) \/ LockForRelease(p)
        PROVE  TypeOK'
    BY <1>9 DEF Finish, LockForRelease, buffer
  <1>10. ASSUME NEW p \in Pids, DropLine(p)
        PROVE  TypeOK'
    BY <1>10 DEF DropLine
  <1>11. ASSUME NEW p \in Pids, Release(p)
        PROVE  TypeOK'
    BY <1>11 DEF Release, NoBuffer
  <1>12. ASSUME NEW p \in Pids, Kill(p)
        PROVE  TypeOK'
    BY <1>12 DEF Kill, NoBuffer, buffer
  <1>13. CASE UNCHANGED vars
    BY <1>13 DEF vars, buffer
  <1> QED
    BY <1>1, <1>2, <1>3, <1>4, <1>5, <1>6, <1>7, <1>8, <1>9, <1>10, <1>11,
       <1>12, <1>13 DEF Next, Request, GiveBack

THEOREM TypeCorrect == Spec => []TypeOK
  BY TypeInit, TypeStep, PTL DEF Spec

-----------------------------------------------------------------------------
(* The inductive step, one lemma per action that touches the id file or    *)
(* the lock.  Each names the parts of IInv besides TypeOK.                 *)
IdParts == SemInv /\ IdInv /\ FileInv /\ ScanInv /\ WriteInv /\ ReleaseInv

LEMMA LockStep ==
  ASSUME IInv, NEW p \in Pids, Lock(p)
  PROVE  IdParts'
  <1> USE ConstantsAssumption DEF IInv, TypeOK, Dtr, InSem, Owning, Writing, Lock
  <1>1. SemInv' /\ IdInv'
    BY DEF SemInv, IdInv
  <1>2. \A q \in Pids : pc[q] \notin Writing
    BY DEF SemInv
  <1>3. FileInv'
    BY <1>2 DEF FileInv
  <1>4. ScanInv'
    BY <1>2 DEF FileInv, ScanInv, SemInv
  <1>5. WriteInv' /\ ReleaseInv'
    BY <1>2 DEF WriteInv, ReleaseInv
  <1> QED
    BY <1>1, <1>3, <1>4, <1>5 DEF IdParts

LEMMA ReadLineStep ==
  ASSUME IInv, NEW p \in Pids, NEW i \in Ids, ReadLine(p, i)
  PROVE  IdParts'
  <1> USE ConstantsAssumption DEF IInv, TypeOK, Dtr, InSem, Owning, Writing, ReadLine
  <1>1. SemInv' /\ IdInv'
    BY DEF SemInv, IdInv
  <1>2. \A q \in Pids : pc[q] \notin Writing
    BY DEF SemInv
  <1>3. FileInv'
    BY DEF FileInv
  <1>4. ASSUME NEW q \in Pids, id[q] # NoId
        PROVE  id[q] \in unread' \/ taken'[id[q]] = q
    <2>1. CASE id[q] = i
      <3>1. file[i] = q /\ Listed(q)
        BY <1>2, <1>4, <2>1 DEF FileInv, IdInv, Listed
      <3> QED
        BY <2>1, <3>1
    <2>2. CASE id[q] # i
      BY <1>4, <2>2 DEF ScanInv
    <2> QED
      BY <2>1, <2>2
  <1>5. ScanInv'
    BY <1>4 DEF ScanInv
  <1>6. WriteInv' /\ ReleaseInv'
    BY <1>2 DEF WriteInv, ReleaseInv
  <1> QED
    BY <1>1, <1>3, <1>5, <1>6 DEF IdParts

LEMMA TakeIdStep ==
  ASSUME IInv, NEW p \in Pids, TakeId(p)
  PROVE  IdParts'
  <1> USE ConstantsAssumption DEF IInv, TypeOK, Dtr, InSem, Owning, Writing, TakeId
  <1>1. SemInv' /\ IdInv'
    BY DEF SemInv, IdInv
  <1>2. FileInv'
    BY DEF FileInv
  <1>3. ScanInv' /\ ReleaseInv'
    BY DEF ScanInv, ReleaseInv, SemInv
  <1>4. PICK i \in Ids : /\ FirstVacant(taken, i)
                         /\ ret' = i
                         /\ taken' = [taken EXCEPT ![i] = p]
    OBVIOUS
  <1>5. ASSUME NEW q \in Pids, id[q] # NoId
        PROVE  taken'[id[q]] = q
    <2>1. taken[id[q]] = q
      BY <1>5 DEF ScanInv
    <2>2. id[q] # i
      BY <1>4, <2>1 DEF FirstVacant
    <2> QED
      BY <1>4, <1>5, <2>1, <2>2
  <1>6. WriteInv'
    BY <1>4, <1>5 DEF WriteInv, SemInv
  <1> QED
    BY <1>1, <1>2, <1>3, <1>6 DEF IdParts

LEMMA WriteBackStep ==
  ASSUME IInv, NEW p \in Pids, WriteBack(p)
  PROVE  IdParts'
  <1> USE ConstantsAssumption DEF IInv, TypeOK, Dtr, InSem, Owning, Writing, WriteBack, NoBuffer
  <1>1. SemInv' /\ IdInv'
    BY DEF SemInv, IdInv, WriteInv
  <1>2. \A q \in Pids : pc'[q] \notin InSem
    BY DEF SemInv
  <1>3. FileInv'
    BY DEF FileInv, WriteInv
  <1>4. ScanInv' /\ WriteInv' /\ ReleaseInv'
    BY <1>2 DEF ScanInv, WriteInv, ReleaseInv
  <1> QED
    BY <1>1, <1>3, <1>4 DEF IdParts

LEMMA DropLineStep ==
  ASSUME IInv, NEW p \in Pids, DropLine(p)
  PROVE  IdParts'
  <1> USE ConstantsAssumption DEF IInv, TypeOK, Dtr, InSem, Owning, Writing, DropLine
  <1>1. SemInv' /\ IdInv'
    BY DEF SemInv, IdInv
  <1>2. \A q \in Pids : pc[q] \notin Writing
    BY DEF SemInv
  <1>3. FileInv' /\ ScanInv' /\ WriteInv'
    BY DEF FileInv, ScanInv, WriteInv, SemInv
  <1>4. \A q \in Pids : id[q] # NoId => file[id[q]] = q
    BY <1>2 DEF FileInv
  <1>5. id[p] \in Ids
    BY DEF IdInv
  <1>6. ReleaseInv'
    BY <1>4, <1>5 DEF ReleaseInv, SemInv
  <1> QED
    BY <1>1, <1>3, <1>6 DEF IdParts

LEMMA ReleaseStep ==
  ASSUME IInv, NEW p \in Pids, Release(p)
  PROVE  IdParts'
  <1> USE ConstantsAssumption DEF IInv, TypeOK, Dtr, InSem, Owning, Writing, Release, NoBuffer
  <1>1. SemInv' /\ IdInv'
    BY DEF SemInv, IdInv
  <1>2. \A q \in Pids : pc'[q] \notin InSem
    BY DEF SemInv
  <1>3. FileInv'
    BY DEF FileInv, ReleaseInv
  <1>4. ScanInv' /\ WriteInv' /\ ReleaseInv'
    BY <1>2 DEF ScanInv, WriteInv, ReleaseInv
  <1> QED
    BY <1>1, <1>3, <1>4 DEF IdParts

LEMMA KillStep ==
  ASSUME IInv, ~KillAtWrite, NEW p \in Pids, Kill(p)
  PROVE  IdParts'
  <1> USE ConstantsAssumption DEF IInv, TypeOK, Dtr, InSem, Owning, Writing, Kill, NoBuffer, buffer
  <1>1. SemInv' /\ IdInv'
    BY DEF SemInv, IdInv
  <1>2. FileInv'
    BY DEF FileInv
  <1>3. ScanInv' /\ WriteInv' /\ ReleaseInv'
    BY DEF ScanInv, WriteInv, ReleaseInv, SemInv
  <1> QED
    BY <1>1, <1>2, <1>3 DEF IdParts

(* The steps that leave the file and the buffers alone. *)
LEMMA OtherStep ==
  ASSUME IInv, NEW p \in Pids,
         \/ Start(p) \/ ForeignExit(p) \/ Retry(p) \/ Finish(p)
         \/ LockForRelease(p) \/ NoneVacant(p)
  PROVE  IdParts'
  <1> USE ConstantsAssumption DEF IInv, TypeOK, Dtr, InSem, Owning, Writing,
          Start, ForeignExit, Retry, Finish, LockForRelease, NoneVacant, NoBuffer, buffer
  <1>1. SemInv' /\ IdInv'
    BY DEF SemInv, IdInv
  <1>2. FileInv'
    BY DEF FileInv
  <1>3. ScanInv' /\ WriteInv' /\ ReleaseInv'
    BY DEF ScanInv, WriteInv, ReleaseInv, SemInv
  <1> QED
    BY <1>1, <1>2, <1>3 DEF IdParts

-----------------------------------------------------------------------------
(* IInv is inductive as long as nobody is killed while it rewrites the file.*)
LEMMA InductiveInvariant == ~KillAtWrite /\ Spec => []IInv
  <1> SUFFICES ASSUME ~KillAtWrite
               PROVE  Spec => []IInv
    OBVIOUS
  <1>1. Init => IInv
    <2>1. Init => IdParts
      BY ConstantsAssumption DEF Init, IdParts, SemInv, IdInv, FileInv, ScanInv,
        WriteInv, ReleaseInv, InSem, Owning, Writing
    <2> QED
      BY <2>1, TypeInit DEF IInv, IdParts
  <1>2. IInv /\ [Next]_vars => IInv'
    <2> SUFFICES ASSUME IInv, [Next]_vars
                 PROVE  IInv'
      OBVIOUS
    <2>1. TypeOK'
      BY TypeStep DEF IInv
    <2>2. CASE UNCHANGED vars
      BY <2>1, <2>2 DEF vars, buffer, IInv, SemInv, IdInv, FileInv, ScanInv,
        WriteInv, ReleaseInv
    <2>3. ASSUME Next
          PROVE  IdParts'
      BY <2>3, LockStep, ReadLineStep, TakeIdStep, WriteBackStep, DropLineStep,
        ReleaseStep, KillStep, OtherStep DEF Next, Request, GiveBack
    <2> QED
      BY <2>1, <2>2, <2>3 DEF IInv, IdParts
  <1> QED
    BY <1>1, <1>2, PTL DEF Spec

(* Two running processes never work under the same id. *)
THEOREM IdExclusionHolds == ~KillAtWrite /\ Spec => []IdExclusion
  <1>1. IInv => IdExclusion
    <2> SUFFICES ASSUME IInv, NEW p \in Pids, NEW q \in Pids,
                        p # q, id[p] # NoId, id[p] = id[q]
                 PROVE  FALSE
      BY DEF IdExclusion
    <2> USE ConstantsAssumption DEF IInv, TypeOK
    <2>1. CASE \A r \in Pids : pc[r] \notin Writing
      BY <2>1 DEF FileInv
    <2>2. ASSUME NEW r \in Pids, pc[r] = "write"
          PROVE  FALSE
      BY <2>2 DEF WriteInv
    <2>3. ASSUME NEW r \in Pids, pc[r] = "rwrite"
          PROVE  FALSE
      BY <2>3 DEF ReleaseInv
    <2> QED
      BY <2>1, <2>2, <2>3 DEF Writing
  <1> QED
    BY <1>1, InductiveInvariant, PTL

(* A release deletes the line of its own process, and no rewrite loses a   *)
(* running owner's line.                                                   *)
THEOREM FileHolds ==
  ~KillAtWrite /\ Spec => [](ReleasesOwnLine /\ FileRecordsOwners)
  <1>1. IInv => ReleasesOwnLine /\ FileRecordsOwners
    <2> SUFFICES ASSUME IInv
                 PROVE  ReleasesOwnLine /\ FileRecordsOwners
      OBVIOUS
    <2> USE ConstantsAssumption DEF IInv, TypeOK, SemInv, IdInv, FileInv, InSem,
          Writing, Owning
    <2>1. ReleasesOwnLine
      BY DEF ReleasesOwnLine
    <2>2. FileRecordsOwners
      BY DEF FileRecordsOwners
    <2> QED
      BY <2>1, <2>2
  <1> QED
    BY <1>1, InductiveInvariant, PTL

-----------------------------------------------------------------------------
(* The id file implements the allocator: ids are handed over only by their *)
(* owners.                                                                 *)
OwnersKnown ==
  \A i \in Ids : /\ OwnerOf(i) \in Pids \cup {NoPid}
                 /\ \A p \in Pids : OwnerOf(i) = p <=> id[p] = i

LEMMA OwnerIsUnique == TypeOK /\ IdExclusion => OwnersKnown
  <1> SUFFICES ASSUME TypeOK, IdExclusion, NEW i \in Ids
               PROVE  /\ OwnerOf(i) \in Pids \cup {NoPid}
                      /\ \A p \in Pids : OwnerOf(i) = p <=> id[p] = i
    BY DEF OwnersKnown
  <1>1. CASE \E p \in Pids : id[p] = i
    <2>1. OwnerOf(i) \in Pids /\ id[OwnerOf(i)] = i
      BY <1>1 DEF OwnerOf
    <2> QED
      BY <2>1, ConstantsAssumption DEF IdExclusion
  <1>2. CASE ~ \E p \in Pids : id[p] = i
    BY <1>2, ConstantsAssumption DEF OwnerOf
  <1> QED
    BY <1>1, <1>2

THEOREM AllocatorImplemented == ~KillAtWrite /\ Spec => ImplementsAllocator
  <1> SUFFICES ASSUME ~KillAtWrite
               PROVE  Spec => ImplementsAllocator
    OBVIOUS
  <1> USE ConstantsAssumption
  <1>1. Init => Allocator!Init
    BY DEF Init, Allocator!Init, OwnerOf
  <1>2. /\ TypeOK /\ IdExclusion /\ IdInv /\ WriteInv
        /\ OwnersKnown /\ OwnersKnown'
        /\ [Next]_vars
        => [Allocator!Next]_([i \in Ids |-> OwnerOf(i)])
    <2> SUFFICES ASSUME TypeOK, IdExclusion, IdInv, WriteInv,
                        OwnersKnown, OwnersKnown',
                        [Next]_vars
                 PROVE  [Allocator!Next]_([i \in Ids |-> OwnerOf(i)])
      OBVIOUS
    <2>1. CASE id' = id
      BY <2>1 DEF OwnerOf
    <2>2. ASSUME NEW p \in Pids, WriteBack(p)
          PROVE  Allocator!Acquire(p, ret)
      <3>1. ret \in Ids /\ id[p] = NoId /\ id' = [id EXCEPT ![p] = ret]
        BY <2>2 DEF WriteBack, WriteInv, IdInv, Owning
      <3>2. \A q \in Pids : id[q] # ret
        BY <2>2, <3>1 DEF WriteBack, WriteInv
      <3>3. \A i \in Ids : OwnerOf(i)' = IF i = ret THEN p ELSE OwnerOf(i)
        BY <3>1, <3>2 DEF OwnersKnown, TypeOK
      <3>4. OwnerOf(ret) = NoPid /\ \A j \in Ids : OwnerOf(j) # p
        BY <3>1, <3>2 DEF OwnersKnown
      <3> QED
        BY <3>1, <3>3, <3>4 DEF Allocator!Acquire
    <2>3. ASSUME NEW p \in Pids, id[p] # NoId, id' = [id EXCEPT ![p] = NoId]
          PROVE  Allocator!Release(p, id[p])
      <3>1. id[p] \in Ids
        BY <2>3 DEF TypeOK
      <3>2. \A i \in Ids : OwnerOf(i)' = IF i = id[p] THEN NoPid ELSE OwnerOf(i)
        BY <2>3, <3>1 DEF OwnersKnown, TypeOK, IdExclusion
      <3> QED
        BY <3>1, <3>2 DEF OwnersKnown, Allocator!Release
    <2>4. \/ id' = id
          \/ \E p \in Pids : WriteBack(p)
          \/ \E p \in Pids : id[p] # NoId /\ id' = [id EXCEPT ![p] = NoId]
      BY DEF TypeOK, Next, vars, Request, GiveBack, Start, ForeignExit, Lock,
        ReadLine, TakeId, NoneVacant, Retry, Finish, LockForRelease, DropLine,
        Release, Kill, IdInv, Owning
    <2>5. \A p \in Pids : WriteBack(p) => ret \in Ids
      BY DEF WriteBack, WriteInv
    <2>6. \A p \in Pids : id[p] # NoId => id[p] \in Ids
      BY DEF TypeOK
    <2> QED
      BY <2>1, <2>2, <2>3, <2>4, <2>5, <2>6 DEF Allocator!Next
  <1> QED
    BY <1>1, <1>2, OwnerIsUnique, InductiveInvariant, IdExclusionHolds, PTL
      DEF ImplementsAllocator, Allocator!Spec, Spec, IInv
=============================================================================
