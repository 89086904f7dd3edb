---------------------------- MODULE ProcFdProofs ----------------------------
(***************************************************************************)
(* Proofs about /proc/PID/fd and fdinfo, for any table size and any number *)
(* of readers and lookups: the references to the files_struct are exactly  *)
(* those of its owner and of the walkers that use it, and so what a lookup *)
(* finds was open, a listing is complete and nothing stays open.           *)
(***************************************************************************)
EXTENDS ProcFd, FiniteSetTheorems, TLAPS

-----------------------------------------------------------------------------
(* Counting the references.                                                *)

\* Who holds a reference can be counted.
LEMMA HoldersFinite ==
    /\ IsFiniteSet(Looping) /\ Cardinality(Looping) \in Nat
    /\ IsFiniteSet(Checking) /\ Cardinality(Checking) \in Nat
<1>1. IsFiniteSet(Walkers)
  BY FiniteAssumption, FS_Union DEF Walkers
<1> QED
  BY <1>1, FiniteAssumption, FS_Subset, FS_CardinalityType DEF Looping, Checking

\* A walker comes into a set that goes with its place in the code, or leaves it.
LEMMA OneMore ==
    ASSUME NEW S, NEW w, IsFiniteSet(S), NEW in \in BOOLEAN
    PROVE  Cardinality(IF in THEN S \cup {w} ELSE S \ {w})
             = Cardinality(S) + (IF in THEN 1 ELSE 0) - (IF w \in S THEN 1 ELSE 0)
<1>1. Cardinality(S) \in Nat
  BY FS_CardinalityType
<1>2. CASE in
  <2>1. Cardinality(S \cup {w}) = IF w \in S THEN Cardinality(S) ELSE Cardinality(S) + 1
    BY FS_AddElement
  <2> QED
    BY <1>1, <1>2, <2>1
<1>3. CASE ~ in
  <2>1. Cardinality(S \ {w}) = IF w \in S THEN Cardinality(S) - 1 ELSE Cardinality(S)
    BY FS_RemoveElement
  <2> QED
    BY <1>1, <1>3, <2>1
<1> QED
  BY <1>2, <1>3

\* Only w moves: the other walkers hold what they held.
OnlyMoves(w) == pc' = [pc EXCEPT ![w] = pc'[w]]

LEMMA Moves ==
    ASSUME MutexTypeOK, NEW w \in Walkers, OnlyMoves(w)
    PROVE  /\ Cardinality(Looping') = Cardinality(Looping)
                 + (IF w \in Readers /\ pc'[w] \notin BeforeLoop THEN 1 ELSE 0)
                 - (IF w \in Readers /\ pc[w] \notin BeforeLoop THEN 1 ELSE 0)
           /\ Cardinality(Checking') = Cardinality(Checking)
                 + (IF pc'[w] \in Checks THEN 1 ELSE 0) - (IF pc[w] \in Checks THEN 1 ELSE 0)
<1>1. Looping' = IF w \in Readers /\ pc'[w] \notin BeforeLoop THEN Looping \cup {w} ELSE Looping \ {w}
  BY DEF Looping, OnlyMoves, MutexTypeOK, Walkers
<1>2. Checking' = IF pc'[w] \in Checks THEN Checking \cup {w} ELSE Checking \ {w}
  BY DEF Checking, OnlyMoves, MutexTypeOK
<1>3. /\ w \in Looping <=> w \in Readers /\ pc[w] \notin BeforeLoop
      /\ w \in Checking <=> pc[w] \in Checks
  BY DEF Looping, Checking
<1>4. /\ (w \in Readers /\ pc'[w] \notin BeforeLoop) \in BOOLEAN
      /\ (pc'[w] \in Checks) \in BOOLEAN
  OBVIOUS
<1>5. Cardinality(Looping') = Cardinality(Looping)
        + (IF w \in Readers /\ pc'[w] \notin BeforeLoop THEN 1 ELSE 0)
        - (IF w \in Looping THEN 1 ELSE 0)
  BY <1>1, <1>4, HoldersFinite, OneMore, Zenon
<1>6. Cardinality(Checking') = Cardinality(Checking)
        + (IF pc'[w] \in Checks THEN 1 ELSE 0) - (IF w \in Checking THEN 1 ELSE 0)
  BY <1>2, <1>4, HoldersFinite, OneMore, Zenon
<1> QED
  BY <1>3, <1>5, <1>6

\* put_files_struct() of a walker: the process, while it has files, keeps the
\* table, and the last one closes what is open.
LEMMA PutKeeps ==
    ASSUME IInv, NEW w \in Walkers, w \in Looping \/ w \in Checking, PutFiles
    PROVE  /\ open' \subseteq open
           /\ HasFiles => open' = open
           /\ count' = 0 => open' = {}
           /\ count \in Int /\ count' = count - 1
<1>1. count >= (IF HasFiles THEN 1 ELSE 0) + 1 /\ count \in Int
  <2>1. Cardinality(Looping) + Cardinality(Checking) >= 1
    BY HoldersFinite, FS_EmptySet
  <2> QED
    BY <2>1, HoldersFinite DEF IInv, FilesCounted
<1> QED
  BY <1>1 DEF PutFiles

\* While the process has its files, they are not without a reference.
LEMMA OwnerCounts == IInv /\ HasFiles => count \in Int /\ count >= 1
  BY HoldersFinite DEF IInv, FilesCounted

-----------------------------------------------------------------------------
(* The invariant.                                                          *)

\* What a step leaves alone, it keeps.
LEMMA Untouched ==
    ASSUME IInv
    PROVE  /\ UNCHANGED <<dir, life, max_fds, open, count>> => ProcessTypeOK'
           /\ UNCHANGED <<hash, inos, dent>> => DcacheTypeOK'
           /\ UNCHANGED <<i_mutex, pc>> => MutexTypeOK' /\ Roles'
           /\ UNCHANGED <<name, f_pos, wasOpen, listed, stable, ended>> => WalkTypeOK'
           /\ UNCHANGED <<f_pos, max_fds, pc>> => LoopPosition'
           /\ UNCHANGED <<count, life, pc>> => FilesCounted'
           /\ UNCHANGED <<count, open>> => LastPutCloses'
           /\ UNCHANGED <<stable, open, life>> => StableOpen'
           /\ UNCHANGED <<stable, f_pos, listed, ended>> => ListedSoFar'
           /\ UNCHANGED <<pc, name, open, life, wasOpen>> => SeenOpen' /\ NeverClosed'
<1>1. UNCHANGED <<dir, life, max_fds, open, count>> => ProcessTypeOK'
  BY DEF IInv, TypeOK, ProcessTypeOK
<1>2. UNCHANGED <<hash, inos, dent>> => DcacheTypeOK'
  BY DEF IInv, TypeOK, DcacheTypeOK
<1>3. UNCHANGED <<i_mutex, pc>> => MutexTypeOK' /\ Roles'
  BY DEF IInv, TypeOK, MutexTypeOK, Roles
<1>4. UNCHANGED <<name, f_pos, wasOpen, listed, stable, ended>> => WalkTypeOK'
  BY DEF IInv, TypeOK, WalkTypeOK
<1>5. UNCHANGED <<f_pos, max_fds, pc>> => LoopPosition'
  BY DEF IInv, LoopPosition
<1>6. UNCHANGED <<count, life, pc>> => FilesCounted'
  BY DEF IInv, FilesCounted, HasFiles, Looping, Checking
<1>7. UNCHANGED <<count, open>> => LastPutCloses'
  BY DEF IInv, LastPutCloses
<1>8. UNCHANGED <<stable, open, life>> => StableOpen'
  BY DEF IInv, StableOpen, HasFiles
<1>9. UNCHANGED <<stable, f_pos, listed, ended>> => ListedSoFar'
  BY DEF IInv, ListedSoFar
<1>10. UNCHANGED <<pc, name, open, life, wasOpen>> => SeenOpen' /\ NeverClosed'
  BY DEF IInv, SeenOpen, NeverClosed, HasFiles
<1> QED
  BY <1>1, <1>2, <1>3, <1>4, <1>5, <1>6, <1>7, <1>8, <1>9, <1>10

\* Opening and closing, a growing table, the exit and memory pressure.
LEMMA EnvironmentSteps ==
  ASSUME IInv, Environment
  PROVE  IInv'
<1>1. ASSUME NEW f \in Fds, OpenFd(f) PROVE IInv'
  <2>1. ProcessTypeOK'
    BY <1>1 DEF OpenFd, IInv, TypeOK, ProcessTypeOK
  <2>2. WalkTypeOK'
    BY <1>1 DEF OpenFd, walk, IInv, TypeOK, WalkTypeOK
  <2>3. LastPutCloses'
    <3>1. count # 0
      BY <1>1, OwnerCounts DEF OpenFd
    <3> QED
      BY <1>1, <3>1 DEF OpenFd, LastPutCloses
  <2>4. StableOpen'
    BY <1>1 DEF OpenFd, IInv, StableOpen, HasFiles
  <2>5. SeenOpen' /\ NeverClosed'
    BY <1>1 DEF OpenFd, walk, IInv, SeenOpen, NeverClosed
  <2> QED
    BY <1>1, <2>1, <2>2, <2>3, <2>4, <2>5, Untouched DEF OpenFd, dcache, walk, IInv, TypeOK
<1>2. ASSUME NEW f \in Fds, CloseFd(f) PROVE IInv'
  <2>1. ProcessTypeOK'
    BY <1>2 DEF CloseFd, IInv, TypeOK, ProcessTypeOK
  <2>2. WalkTypeOK'
    BY <1>2 DEF CloseFd, walk, IInv, TypeOK, WalkTypeOK
  <2>3. LastPutCloses'
    BY <1>2 DEF CloseFd, IInv, LastPutCloses
  <2>4. StableOpen'
    BY <1>2 DEF CloseFd, IInv, StableOpen, HasFiles
  <2>5. ListedSoFar'
    BY <1>2 DEF CloseFd, walk, IInv, ListedSoFar
  <2>6. SeenOpen' /\ NeverClosed'
    BY <1>2 DEF CloseFd, walk, IInv, SeenOpen, NeverClosed
  <2> QED
    BY <1>2, <2>1, <2>2, <2>3, <2>4, <2>5, <2>6, Untouched DEF CloseFd, dcache, walk, IInv,
       TypeOK
<1>3. CASE Grow
  <2>1. ProcessTypeOK'
    BY <1>3, FdAssumption DEF Grow, IInv, TypeOK, ProcessTypeOK
  <2>2. LoopPosition'
    BY <1>3 DEF Grow, walk, IInv, TypeOK, LoopPosition, WalkTypeOK, ProcessTypeOK
  <2> QED
    BY <1>3, <2>1, <2>2, Untouched DEF Grow, dcache, walk, history, IInv, TypeOK
<1>4. CASE exit_files
  <2>1. ProcessTypeOK'
    <3>1. count' \in Int
      BY <1>4 DEF exit_files, PutFiles
    <3>2. open' \subseteq open
      BY <1>4 DEF exit_files, PutFiles
    <3> QED
      BY <1>4, <3>1, <3>2 DEF exit_files, IInv, TypeOK, ProcessTypeOK
  <2>2. WalkTypeOK'
    BY <1>4 DEF exit_files, walk, IInv, TypeOK, WalkTypeOK
  <2>3. FilesCounted'
    <3>1. Looping' = Looping /\ Checking' = Checking
      BY <1>4 DEF exit_files, walk, Looping, Checking
    <3> QED
      BY <1>4, <3>1, HoldersFinite DEF exit_files, PutFiles, IInv, FilesCounted, HasFiles
  <2>4. LastPutCloses'
    BY <1>4 DEF exit_files, PutFiles, IInv, TypeOK, LastPutCloses, ProcessTypeOK
  <2>5. StableOpen'
    BY <1>4 DEF exit_files, StableOpen
  <2>6. ListedSoFar'
    BY <1>4 DEF exit_files, ListedSoFar
  <2>7. SeenOpen' /\ NeverClosed'
    BY <1>4 DEF exit_files, PutFiles, walk, IInv, SeenOpen, NeverClosed, HasFiles
  <2> QED
    BY <1>4, <2>1, <2>2, <2>3, <2>4, <2>5, <2>6, <2>7, Untouched DEF exit_files, dcache,
       walk, IInv, TypeOK
<1>5. CASE release_task
  <2>1. ProcessTypeOK'
    BY <1>5 DEF release_task, IInv, TypeOK, ProcessTypeOK
  <2>2. FilesCounted'
    <3>1. Looping' = Looping /\ Checking' = Checking
      BY <1>5 DEF release_task, walk, Looping, Checking
    <3> QED
      BY <1>5, <3>1 DEF release_task, IInv, FilesCounted, HasFiles
  <2>3. StableOpen'
    BY <1>5 DEF release_task, history, IInv, StableOpen, HasFiles
  <2>4. SeenOpen' /\ NeverClosed'
    BY <1>5 DEF release_task, walk, history, IInv, SeenOpen, NeverClosed, HasFiles
  <2> QED
    BY <1>5, <2>1, <2>2, <2>3, <2>4, Untouched DEF release_task, dcache, walk, history,
       IInv, TypeOK
<1>6. ASSUME NEW d \in hash, Shrink(d) PROVE IInv'
  <2>1. DcacheTypeOK'
    BY <1>6 DEF Shrink, walk, IInv, TypeOK, DcacheTypeOK
  <2> QED
    BY <1>6, <2>1, Untouched DEF Shrink, process, walk, history, IInv, TypeOK
<1> QED
  BY <1>1, <1>2, <1>3, <1>4, <1>5, <1>6 DEF Environment

\* Making an entry and looking at it again.
LEMMA InstantiateSteps ==
  ASSUME IInv, NEW w \in Walkers, Instantiate(w)
  PROVE  IInv'
<1>1. CASE MakeInode(w)
  <2>1. DcacheTypeOK'
    BY <1>1 DEF MakeInode, NoEntry, IInv, TypeOK, DcacheTypeOK
  <2>2. MutexTypeOK' /\ Roles'
    BY <1>1, RoleAssumption DEF MakeInode, NoEntry, Unlock, Go, IInv, TypeOK, MutexTypeOK,
       Roles, Locked, PCs, Walkers
  <2>3. LoopPosition'
    BY <1>1 DEF MakeInode, NoEntry, Go, process, IInv, TypeOK, LoopPosition, MutexTypeOK,
       BeforeLoop, Walkers
  <2>4. FilesCounted'
    <3>1. OnlyMoves(w)
      BY <1>1 DEF MakeInode, NoEntry, Go, OnlyMoves
    <3> QED
      BY <1>1, <3>1, Moves, HoldersFinite DEF MakeInode, NoEntry, Go, process, IInv, TypeOK,
         FilesCounted, HasFiles, BeforeLoop, Checks, MutexTypeOK
  <2>5. SeenOpen' /\ NeverClosed'
    BY <1>1 DEF MakeInode, NoEntry, Go, process, history, IInv, TypeOK, SeenOpen,
       NeverClosed, HasFiles, MutexTypeOK, Checks, Walkers
  <2> QED
    BY <1>1, <2>1, <2>2, <2>3, <2>4, <2>5, Untouched DEF MakeInode, process, history, IInv,
       TypeOK
<1>2. CASE InstantiateFiles(w)
  <2>1. ProcessTypeOK'
    BY <1>2 DEF InstantiateFiles, GetFiles, IInv, TypeOK, ProcessTypeOK
  <2>2. DcacheTypeOK'
    BY <1>2 DEF InstantiateFiles, GetFiles, NoEntry, IInv, TypeOK, DcacheTypeOK
  <2>3. MutexTypeOK' /\ Roles'
    BY <1>2, RoleAssumption DEF InstantiateFiles, GetFiles, NoEntry, Unlock, Go, IInv,
       TypeOK, MutexTypeOK, Roles, Locked, PCs, Walkers
  <2>4. LoopPosition'
    BY <1>2 DEF InstantiateFiles, GetFiles, NoEntry, Go, IInv, TypeOK, LoopPosition,
       MutexTypeOK, BeforeLoop, Walkers
  <2>5. FilesCounted'
    <3>1. OnlyMoves(w)
      BY <1>2 DEF InstantiateFiles, GetFiles, NoEntry, Go, OnlyMoves
    <3> QED
      BY <1>2, <3>1, Moves, HoldersFinite DEF InstantiateFiles, GetFiles, NoEntry, Go, IInv,
         TypeOK, FilesCounted, HasFiles, BeforeLoop, Checks, MutexTypeOK
  <2>6. LastPutCloses'
    <3>1. CASE HasFiles
      BY <1>2, <3>1, OwnerCounts DEF InstantiateFiles, GetFiles, LastPutCloses
    <3>2. CASE ~ HasFiles
      BY <1>2, <3>2 DEF InstantiateFiles, GetFiles, IInv, LastPutCloses
    <3> QED
      BY <3>1, <3>2
  <2>7. SeenOpen' /\ NeverClosed'
    BY <1>2 DEF InstantiateFiles, GetFiles, NoEntry, Go, history, IInv, TypeOK, SeenOpen,
       NeverClosed, HasFiles, MutexTypeOK, Checks, Walkers
  <2> QED
    BY <1>2, <2>1, <2>2, <2>3, <2>4, <2>5, <2>6, <2>7, Untouched DEF InstantiateFiles,
       history, IInv, TypeOK
<1>3. CASE InstantiateCheck(w)
  <2>0. /\ open' \subseteq open /\ (HasFiles => open' = open)
        /\ count' = 0 => open' = {}
        /\ count \in Int /\ count' = count - 1
    BY <1>3, PutKeeps DEF InstantiateCheck, Checking, Checks
  <2>1. ProcessTypeOK'
    BY <1>3, <2>0 DEF InstantiateCheck, IInv, TypeOK, ProcessTypeOK
  <2>2. DcacheTypeOK'
    BY <1>3, <2>0 DEF InstantiateCheck, NoEntry, IInv, TypeOK, DcacheTypeOK
  <2>3. MutexTypeOK' /\ Roles'
    BY <1>3, <2>0, RoleAssumption DEF InstantiateCheck, NoEntry, Unlock, Go, IInv, TypeOK,
       MutexTypeOK, Roles, Locked, PCs, Walkers
  <2>4. LoopPosition'
    BY <1>3, <2>0 DEF InstantiateCheck, NoEntry, Go, IInv, TypeOK, LoopPosition,
       MutexTypeOK, BeforeLoop, Walkers
  <2>5. FilesCounted'
    <3>1. OnlyMoves(w)
      BY <1>3 DEF InstantiateCheck, NoEntry, Go, OnlyMoves
    <3> QED
      BY <1>3, <3>1, Moves, HoldersFinite, <2>0 DEF InstantiateCheck, NoEntry, Go, history,
         IInv, TypeOK, FilesCounted, HasFiles, ProcessTypeOK, BeforeLoop, Checks,
         MutexTypeOK
  <2>6. LastPutCloses'
    BY <1>3, <2>0 DEF LastPutCloses
  <2>7. StableOpen'
    BY <1>3, <2>0 DEF InstantiateCheck, history, IInv, StableOpen, HasFiles
  <2>8. SeenOpen' /\ NeverClosed'
    BY <1>3, <2>0 DEF InstantiateCheck, NoEntry, Go, history, IInv, TypeOK, SeenOpen,
       NeverClosed, HasFiles, MutexTypeOK, Checks, Walkers
  <2> QED
    BY <1>3, <2>1, <2>2, <2>3, <2>4, <2>5, <2>6, <2>7, <2>8, Untouched DEF InstantiateCheck,
       history, IInv, TypeOK
<1>4. CASE InstantiateAdd(w)
  <2>1. DcacheTypeOK'
    <3>1. fd(w) \in Fds
      BY <1>4, FdAssumption DEF InstantiateAdd, IInv, TypeOK, ProcessTypeOK, WalkTypeOK,
         LoopPosition, BeforeLoop, Fds, fd, Walkers
    <3>2. [fd |-> fd(w), ino |-> inos + 1, kind |-> Kind(w)] \in Dentry
      BY <1>4, <3>1, FdAssumption DEF InstantiateAdd, IInv, TypeOK, DcacheTypeOK, Dentry,
         Kind
    <3> QED
      BY <1>4, <3>2, FdAssumption DEF InstantiateAdd, IInv, TypeOK, DcacheTypeOK
  <2>2. MutexTypeOK' /\ Roles'
    BY <1>4 DEF InstantiateAdd, Go, IInv, TypeOK, MutexTypeOK, Roles, Locked, PCs
  <2>3. LoopPosition'
    BY <1>4 DEF InstantiateAdd, Go, process, IInv, LoopPosition, BeforeLoop
  <2>4. FilesCounted'
    <3>1. OnlyMoves(w)
      BY <1>4 DEF InstantiateAdd, Go, OnlyMoves
    <3> QED
      BY <1>4, <3>1, Moves, HoldersFinite DEF InstantiateAdd, Go, process, IInv, TypeOK,
         FilesCounted, HasFiles, BeforeLoop, Checks
  <2>5. SeenOpen' /\ NeverClosed'
    BY <1>4 DEF InstantiateAdd, Go, process, history, IInv, SeenOpen, NeverClosed, HasFiles,
       Checks
  <2> QED
    BY <1>4, <2>1, <2>2, <2>3, <2>4, <2>5, Untouched DEF InstantiateAdd, process, history,
       IInv, TypeOK
<1>5. CASE RevalidateFiles(w)
  <2>1. ProcessTypeOK'
    BY <1>5 DEF RevalidateFiles, GetFiles, IInv, TypeOK, ProcessTypeOK
  <2>2. DcacheTypeOK'
    BY <1>5 DEF RevalidateFiles, GetFiles, NoEntry, Drop, IInv, TypeOK, DcacheTypeOK
  <2>3. MutexTypeOK' /\ Roles'
    BY <1>5, RoleAssumption DEF RevalidateFiles, GetFiles, NoEntry, Unlock, Go, IInv,
       TypeOK, MutexTypeOK, Roles, Locked, PCs, Walkers
  <2>4. LoopPosition'
    BY <1>5 DEF RevalidateFiles, GetFiles, NoEntry, Go, IInv, TypeOK, LoopPosition,
       MutexTypeOK, BeforeLoop, Walkers
  <2>5. FilesCounted'
    <3>1. OnlyMoves(w)
      BY <1>5 DEF RevalidateFiles, GetFiles, NoEntry, Go, OnlyMoves
    <3> QED
      BY <1>5, <3>1, Moves, HoldersFinite DEF RevalidateFiles, GetFiles, NoEntry, Go,
         history, IInv, TypeOK, FilesCounted, HasFiles, BeforeLoop, Checks, MutexTypeOK
  <2>6. LastPutCloses'
    <3>1. CASE HasFiles
      BY <1>5, <3>1, OwnerCounts DEF RevalidateFiles, GetFiles, LastPutCloses
    <3>2. CASE ~ HasFiles
      BY <1>5, <3>2 DEF RevalidateFiles, GetFiles, IInv, LastPutCloses
    <3> QED
      BY <3>1, <3>2
  <2>7. SeenOpen' /\ NeverClosed'
    BY <1>5 DEF RevalidateFiles, GetFiles, NoEntry, Go, history, IInv, TypeOK, SeenOpen,
       NeverClosed, HasFiles, MutexTypeOK, Checks, Walkers
  <2> QED
    BY <1>5, <2>1, <2>2, <2>3, <2>4, <2>5, <2>6, <2>7, Untouched DEF RevalidateFiles,
       history, IInv, TypeOK
<1>6. CASE RevalidateCheck(w)
  <2>0. /\ open' \subseteq open /\ (HasFiles => open' = open)
        /\ count' = 0 => open' = {}
        /\ count \in Int /\ count' = count - 1
    BY <1>6, PutKeeps DEF RevalidateCheck, Checking, Checks
  <2>1. ProcessTypeOK'
    BY <1>6, <2>0 DEF RevalidateCheck, IInv, TypeOK, ProcessTypeOK
  <2>2. DcacheTypeOK'
    BY <1>6, <2>0 DEF RevalidateCheck, GoodEntry, NoEntry, Drop, IInv, TypeOK, DcacheTypeOK
  <2>3. MutexTypeOK' /\ Roles'
    BY <1>6, <2>0, RoleAssumption DEF RevalidateCheck, GoodEntry, NoEntry, Unlock, Go, IInv,
       TypeOK, MutexTypeOK, Roles, Locked, PCs, Walkers
  <2>4. LoopPosition'
    BY <1>6, <2>0 DEF RevalidateCheck, GoodEntry, NoEntry, Go, IInv, TypeOK, LoopPosition,
       MutexTypeOK, BeforeLoop, Walkers
  <2>5. FilesCounted'
    <3>1. OnlyMoves(w)
      BY <1>6 DEF RevalidateCheck, GoodEntry, NoEntry, Go, OnlyMoves
    <3> QED
      BY <1>6, <3>1, Moves, HoldersFinite, <2>0 DEF RevalidateCheck, GoodEntry, NoEntry,
         Drop, Go, IInv, TypeOK, FilesCounted, HasFiles, BeforeLoop, Checks, MutexTypeOK,
         Walkers
  <2>6. LastPutCloses'
    BY <1>6, <2>0 DEF LastPutCloses
  <2>7. StableOpen'
    BY <1>6, <2>0 DEF RevalidateCheck, history, IInv, StableOpen, HasFiles
  <2>8. SeenOpen' /\ NeverClosed'
    <3>1. SeenOpen'
      BY <1>6, <2>0 DEF RevalidateCheck, GoodEntry, NoEntry, Go, history, IInv, TypeOK,
         SeenOpen, HasFiles, MutexTypeOK, Checks, Walkers
    <3>2. NeverClosed'
      <4> SUFFICES ASSUME NEW l \in Lookers, pc'[l] \in {"have", "info_check"} PROVE wasOpen[l]
        BY <1>6 DEF RevalidateCheck, history, NeverClosed
      <4>1. CASE l = w
        <5>1. name[w] \in open
          BY <1>6, <4>1, RoleAssumption DEF RevalidateCheck, NoEntry, Go, IInv, TypeOK,
             MutexTypeOK, StillOpen, fcheck, fd
        <5> QED
          BY <1>6, <4>1, <5>1 DEF RevalidateCheck, IInv, SeenOpen, Checks
      <4>2. CASE l # w
        BY <1>6, <4>2 DEF RevalidateCheck, GoodEntry, NoEntry, Go, IInv, TypeOK,
           MutexTypeOK, NeverClosed, Walkers
      <4> QED
        BY <4>1, <4>2
    <3> QED
      BY <3>1, <3>2
  <2> QED
    BY <1>6, <2>1, <2>2, <2>3, <2>4, <2>5, <2>6, <2>7, <2>8, Untouched DEF RevalidateCheck,
       history, IInv, TypeOK
<1> QED
  BY <1>1, <1>2, <1>3, <1>4, <1>5, <1>6 DEF Instantiate

\* A path walk to an entry, and its use.
LEMMA LookupSteps ==
  ASSUME IInv, NEW w \in Lookers, Lookup(w)
  PROVE  IInv'
<1>1. ASSUME NEW f \in Fds, LookupStart(w, f) PROVE IInv'
  <2>1. DcacheTypeOK'
    BY <1>1 DEF LookupStart, d_lookup, dcache, IInv, TypeOK, DcacheTypeOK
  <2>2. MutexTypeOK' /\ Roles'
    BY <1>1, RoleAssumption DEF LookupStart, Go, dcache, IInv, TypeOK, MutexTypeOK, Roles,
       Locked, PCs, Walkers
  <2>3. WalkTypeOK'
    BY <1>1 DEF LookupStart, IInv, TypeOK, WalkTypeOK
  <2>4. LoopPosition'
    BY <1>1, RoleAssumption DEF LookupStart, Go, process, IInv, TypeOK, LoopPosition,
       MutexTypeOK, Walkers
  <2>5. FilesCounted'
    <3>1. OnlyMoves(w) /\ w \in Walkers
      BY <1>1 DEF LookupStart, Go, OnlyMoves, Walkers
    <3>2. pc[w] = "idle" /\ pc'[w] \in {"reval", "need_lookup"}
      BY <1>1 DEF LookupStart, Go, IInv, TypeOK, MutexTypeOK, Walkers
    <3>3. w \notin Readers /\ count' = count /\ life' = life
      BY <1>1, RoleAssumption DEF LookupStart, process
    <3>4. Cardinality(Looping') = Cardinality(Looping) /\ Cardinality(Checking') = Cardinality(Checking)
      BY <3>1, <3>2, <3>3, Moves, HoldersFinite DEF IInv, TypeOK, Checks
    <3> QED
      BY <3>3, <3>4 DEF IInv, FilesCounted, HasFiles
  <2>6. SeenOpen' /\ NeverClosed'
    BY <1>1 DEF LookupStart, Go, process, IInv, TypeOK, SeenOpen, NeverClosed, HasFiles,
       MutexTypeOK, WalkTypeOK, Checks, Walkers
  <2> QED
    BY <1>1, <2>1, <2>2, <2>3, <2>4, <2>5, <2>6, Untouched DEF LookupStart, process, IInv,
       TypeOK
<1>2. CASE RealLookup(w)
  <2>1. DcacheTypeOK'
    BY <1>2 DEF RealLookup, d_lookup, IInv, TypeOK, DcacheTypeOK
  <2>2. MutexTypeOK' /\ Roles'
    BY <1>2, RoleAssumption DEF RealLookup, Go, IInv, TypeOK, MutexTypeOK, Roles, Locked,
       PCs, Walkers
  <2>3. LoopPosition'
    BY <1>2 DEF RealLookup, Go, process, IInv, TypeOK, LoopPosition, MutexTypeOK,
       BeforeLoop, Walkers
  <2>4. FilesCounted'
    <3>1. OnlyMoves(w)
      BY <1>2 DEF RealLookup, Go, OnlyMoves
    <3> QED
      BY <1>2, <3>1, Moves, HoldersFinite DEF RealLookup, Go, process, IInv, TypeOK,
         FilesCounted, HasFiles, Checks, MutexTypeOK, Roles, Walkers
  <2>5. SeenOpen' /\ NeverClosed'
    BY <1>2 DEF RealLookup, Go, process, history, IInv, TypeOK, SeenOpen, NeverClosed,
       HasFiles, MutexTypeOK, Checks, Walkers
  <2> QED
    BY <1>2, <2>1, <2>2, <2>3, <2>4, <2>5, Untouched DEF RealLookup, process, history, IInv,
       TypeOK
<1>3. CASE Dput(w)
  <2>1. DcacheTypeOK'
    BY <1>3 DEF Dput, Release, DputEntry, IInv, TypeOK, DcacheTypeOK
  <2>2. MutexTypeOK' /\ Roles'
    BY <1>3 DEF Dput, Release, Go, IInv, TypeOK, MutexTypeOK, Roles, Locked, PCs, Walkers
  <2>3. LoopPosition'
    BY <1>3 DEF Dput, Release, Go, process, IInv, LoopPosition, BeforeLoop
  <2>4. FilesCounted'
    <3>1. OnlyMoves(w)
      BY <1>3 DEF Dput, Release, Go, OnlyMoves
    <3> QED
      BY <1>3, <3>1, Moves, HoldersFinite DEF Dput, Release, Go, process, IInv, TypeOK,
         FilesCounted, HasFiles, Checks, Roles, Walkers
  <2>5. SeenOpen' /\ NeverClosed'
    BY <1>3 DEF Dput, Release, Go, process, history, IInv, SeenOpen, NeverClosed, HasFiles
  <2> QED
    BY <1>3, <2>1, <2>2, <2>3, <2>4, <2>5, Untouched DEF Dput, process, history, IInv,
       TypeOK
<1>4. CASE InfoFiles(w)
  <2>1. ProcessTypeOK'
    BY <1>4 DEF InfoFiles, GetFiles, IInv, TypeOK, ProcessTypeOK
  <2>2. DcacheTypeOK'
    BY <1>4 DEF InfoFiles, GetFiles, Release, DputEntry, IInv, TypeOK, DcacheTypeOK
  <2>3. MutexTypeOK' /\ Roles'
    BY <1>4 DEF InfoFiles, GetFiles, Release, Go, IInv, TypeOK, MutexTypeOK, Roles, Locked,
       PCs, Walkers
  <2>4. LoopPosition'
    BY <1>4 DEF InfoFiles, GetFiles, Release, Go, IInv, TypeOK, LoopPosition, MutexTypeOK,
       BeforeLoop, Walkers
  <2>5. FilesCounted'
    <3>1. OnlyMoves(w)
      BY <1>4 DEF InfoFiles, GetFiles, Release, Go, OnlyMoves
    <3> QED
      BY <1>4, <3>1, Moves, HoldersFinite DEF InfoFiles, GetFiles, Release, Go, IInv,
         TypeOK, FilesCounted, HasFiles, Checks, MutexTypeOK, Roles, Walkers
  <2>6. LastPutCloses'
    <3>1. CASE HasFiles
      BY <1>4, <3>1, OwnerCounts DEF InfoFiles, GetFiles, LastPutCloses
    <3>2. CASE ~ HasFiles
      BY <1>4, <3>2 DEF InfoFiles, GetFiles, IInv, LastPutCloses
    <3> QED
      BY <3>1, <3>2
  <2>7. SeenOpen' /\ NeverClosed'
    BY <1>4 DEF InfoFiles, GetFiles, Release, Go, history, IInv, TypeOK, SeenOpen,
       NeverClosed, HasFiles, MutexTypeOK, Walkers
  <2> QED
    BY <1>4, <2>1, <2>2, <2>3, <2>4, <2>5, <2>6, <2>7, Untouched DEF InfoFiles, history,
       IInv, TypeOK
<1>5. CASE InfoCheck(w)
  <2>0. /\ open' \subseteq open /\ (HasFiles => open' = open)
        /\ count' = 0 => open' = {}
        /\ count \in Int /\ count' = count - 1
    BY <1>5, PutKeeps DEF InfoCheck, Checking, Checks, Walkers
  <2>1. ProcessTypeOK'
    BY <1>5, <2>0 DEF InfoCheck, IInv, TypeOK, ProcessTypeOK
  <2>2. DcacheTypeOK'
    BY <1>5, <2>0 DEF InfoCheck, Release, DputEntry, IInv, TypeOK, DcacheTypeOK
  <2>3. MutexTypeOK' /\ Roles'
    BY <1>5, <2>0 DEF InfoCheck, Release, Go, IInv, TypeOK, MutexTypeOK, Roles, Locked, PCs,
       Walkers
  <2>4. LoopPosition'
    BY <1>5, <2>0 DEF InfoCheck, Release, Go, IInv, LoopPosition, BeforeLoop
  <2>5. FilesCounted'
    <3>1. OnlyMoves(w)
      BY <1>5 DEF InfoCheck, Release, Go, OnlyMoves
    <3> QED
      BY <1>5, <3>1, Moves, HoldersFinite, <2>0 DEF InfoCheck, Release, Go, IInv, TypeOK,
         FilesCounted, HasFiles, Checks, MutexTypeOK, Roles, Walkers
  <2>6. LastPutCloses'
    BY <1>5, <2>0 DEF LastPutCloses
  <2>7. StableOpen'
    BY <1>5, <2>0 DEF InfoCheck, history, IInv, StableOpen, HasFiles
  <2>8. SeenOpen' /\ NeverClosed'
    BY <1>5, <2>0 DEF InfoCheck, Release, Go, history, IInv, SeenOpen, NeverClosed, HasFiles
  <2> QED
    BY <1>5, <2>1, <2>2, <2>3, <2>4, <2>5, <2>6, <2>7, <2>8, Untouched DEF InfoCheck,
       history, IInv, TypeOK
<1> QED
  BY <1>1, <1>2, <1>3, <1>4, <1>5 DEF Lookup

\* Every step of proc_readfd_common().
LEMMA ReaddirSteps ==
  ASSUME IInv, NEW w \in Readers, Readdir(w)
  PROVE  IInv'
<1>1. CASE ReaddirStart(w)
  <2>1. MutexTypeOK' /\ Roles'
    BY <1>1, RoleAssumption DEF ReaddirStart, Go, IInv, TypeOK, MutexTypeOK, Roles, Locked,
       PCs, Walkers
  <2>2. WalkTypeOK'
    BY <1>1, FdAssumption DEF ReaddirStart, IInv, TypeOK, WalkTypeOK, ProcessTypeOK, Fds
  <2>3. LoopPosition'
    BY <1>1 DEF ReaddirStart, Go, process, IInv, LoopPosition, BeforeLoop
  <2>4. FilesCounted'
    <3>1. OnlyMoves(w)
      BY <1>1 DEF ReaddirStart, Go, OnlyMoves
    <3> QED
      BY <1>1, <3>1, Moves, HoldersFinite DEF ReaddirStart, Go, process, IInv, TypeOK,
         FilesCounted, HasFiles, BeforeLoop, Checks, Walkers
  <2>5. StableOpen'
    BY <1>1 DEF ReaddirStart, process, IInv, StableOpen, HasFiles
  <2>6. ListedSoFar'
    BY <1>1 DEF ReaddirStart, IInv, TypeOK, ListedSoFar, WalkTypeOK, ProcessTypeOK, Fds
  <2>7. SeenOpen' /\ NeverClosed'
    BY <1>1, RoleAssumption DEF ReaddirStart, Go, process, IInv, SeenOpen, NeverClosed,
       HasFiles
  <2> QED
    BY <1>1, <2>1, <2>2, <2>3, <2>4, <2>5, <2>6, <2>7, Untouched DEF ReaddirStart, process,
       IInv, TypeOK
<1>2. CASE Rewind(w)
  <2>1. WalkTypeOK'
    BY <1>2, FdAssumption DEF Rewind, IInv, TypeOK, WalkTypeOK
  <2>2. LoopPosition'
    BY <1>2 DEF Rewind, process, IInv, TypeOK, LoopPosition, ProcessTypeOK, BeforeLoop
  <2>3. StableOpen'
    BY <1>2 DEF Rewind, process, IInv, StableOpen, HasFiles
  <2>4. ListedSoFar'
    BY <1>2 DEF Rewind, IInv, TypeOK, ListedSoFar, WalkTypeOK
  <2> QED
    BY <1>2, <2>1, <2>2, <2>3, <2>4, Untouched DEF Rewind, process, dcache, IInv, TypeOK
<1>3. CASE Dots(w)
  <2>1. DcacheTypeOK'
    BY <1>3 DEF Dots, Return, DputEntry, IInv, TypeOK, DcacheTypeOK
  <2>2. MutexTypeOK' /\ Roles'
    BY <1>3, RoleAssumption DEF Dots, Return, Unlock, Go, IInv, TypeOK, MutexTypeOK, Roles,
       Locked, PCs, Walkers
  <2>3. WalkTypeOK'
    BY <1>3, FdAssumption DEF Dots, history, IInv, TypeOK, WalkTypeOK
  <2>4. LoopPosition'
    BY <1>3 DEF Dots, Return, Go, process, IInv, TypeOK, LoopPosition, WalkTypeOK,
       MutexTypeOK, ProcessTypeOK, BeforeLoop, Walkers
  <2>5. FilesCounted'
    <3>1. OnlyMoves(w)
      BY <1>3 DEF Dots, Return, Go, IInv, TypeOK, MutexTypeOK, OnlyMoves
    <3> QED
      BY <1>3, <3>1, Moves, HoldersFinite DEF Dots, Return, Go, process, IInv, TypeOK,
         FilesCounted, HasFiles, BeforeLoop, Checks, MutexTypeOK, Walkers
  <2>6. ListedSoFar'
    BY <1>3 DEF Dots, history, IInv, TypeOK, ListedSoFar, WalkTypeOK, Fds
  <2>7. SeenOpen' /\ NeverClosed'
    BY <1>3 DEF Dots, Return, Go, process, history, IInv, TypeOK, SeenOpen, NeverClosed,
       HasFiles, MutexTypeOK, Walkers
  <2> QED
    BY <1>3, <2>1, <2>2, <2>3, <2>4, <2>5, <2>6, <2>7, Untouched DEF Dots, process, history,
       IInv, TypeOK
<1>4. CASE ReadFiles(w)
  <2>1. ProcessTypeOK'
    BY <1>4 DEF ReadFiles, GetFiles, IInv, TypeOK, ProcessTypeOK
  <2>2. DcacheTypeOK'
    BY <1>4 DEF ReadFiles, GetFiles, Return, DputEntry, IInv, TypeOK, DcacheTypeOK
  <2>3. MutexTypeOK' /\ Roles'
    BY <1>4, RoleAssumption DEF ReadFiles, GetFiles, Return, Unlock, Go, IInv, TypeOK,
       MutexTypeOK, Roles, Locked, PCs, Walkers
  <2>4. LoopPosition'
    BY <1>4 DEF ReadFiles, GetFiles, Return, Go, IInv, TypeOK, LoopPosition, MutexTypeOK,
       BeforeLoop, Walkers
  <2>5. FilesCounted'
    <3>1. OnlyMoves(w)
      BY <1>4 DEF ReadFiles, GetFiles, Return, Go, OnlyMoves
    <3> QED
      BY <1>4, <3>1, Moves, HoldersFinite DEF ReadFiles, GetFiles, Return, Go, IInv, TypeOK,
         FilesCounted, HasFiles, BeforeLoop, Checks, MutexTypeOK, Walkers
  <2>6. LastPutCloses'
    <3>1. CASE HasFiles
      BY <1>4, <3>1, OwnerCounts DEF ReadFiles, GetFiles, LastPutCloses
    <3>2. CASE ~ HasFiles
      BY <1>4, <3>2 DEF ReadFiles, GetFiles, IInv, LastPutCloses
    <3> QED
      BY <3>1, <3>2
  <2>7. SeenOpen' /\ NeverClosed'
    BY <1>4 DEF ReadFiles, GetFiles, Return, Go, history, IInv, TypeOK, SeenOpen,
       NeverClosed, HasFiles, MutexTypeOK, Walkers
  <2> QED
    BY <1>4, <2>1, <2>2, <2>3, <2>4, <2>5, <2>6, <2>7, Untouched DEF ReadFiles, history,
       IInv, TypeOK
<1>5. CASE SkipFd(w)
  <2>1. WalkTypeOK'
    <3>1. f_pos[w] + 1 \in 0 .. MaxFds + 2
      BY <1>5, FdAssumption DEF SkipFd, fd, IInv, TypeOK, WalkTypeOK, ProcessTypeOK
    <3> QED
      BY <1>5, <3>1 DEF SkipFd, NextFd, history, IInv, TypeOK, WalkTypeOK
  <2>2. LoopPosition'
    BY <1>5 DEF SkipFd, NextFd, fd, process, IInv, TypeOK, LoopPosition, WalkTypeOK,
       ProcessTypeOK
  <2>3. ListedSoFar'
    <3>1. f_pos[w] - 2 \notin stable[w]
      BY <1>5 DEF SkipFd, fcheck, fd, IInv, StableOpen
    <3> QED
      BY <1>5, <3>1 DEF SkipFd, NextFd, history, IInv, TypeOK, ListedSoFar, WalkTypeOK, Fds
  <2> QED
    BY <1>5, <2>1, <2>2, <2>3, Untouched DEF SkipFd, process, dcache, history, IInv, TypeOK
<1>6. CASE FoundFd(w)
  <2>1. MutexTypeOK' /\ Roles'
    BY <1>6 DEF FoundFd, Go, dcache, IInv, TypeOK, MutexTypeOK, Roles, Locked, PCs, Walkers
  <2>2. LoopPosition'
    BY <1>6 DEF FoundFd, Go, fd, process, IInv, LoopPosition, BeforeLoop
  <2>3. FilesCounted'
    <3>1. OnlyMoves(w)
      BY <1>6 DEF FoundFd, Go, OnlyMoves
    <3> QED
      BY <1>6, <3>1, Moves, HoldersFinite DEF FoundFd, Go, process, IInv, TypeOK,
         FilesCounted, HasFiles, BeforeLoop, Checks, Walkers
  <2>4. SeenOpen' /\ NeverClosed'
    BY <1>6 DEF FoundFd, Go, process, history, IInv, SeenOpen, NeverClosed, HasFiles, Roles
  <2> QED
    BY <1>6, <2>1, <2>2, <2>3, <2>4, Untouched DEF FoundFd, process, dcache, history, IInv,
       TypeOK
<1>7. CASE FillLookup(w)
  <2>1. DcacheTypeOK'
    BY <1>7 DEF FillLookup, d_lookup, dcache, IInv, TypeOK, DcacheTypeOK
  <2>2. MutexTypeOK' /\ Roles'
    BY <1>7 DEF FillLookup, Go, dcache, IInv, TypeOK, MutexTypeOK, Roles, Locked, PCs,
       Walkers
  <2>3. LoopPosition'
    BY <1>7 DEF FillLookup, Go, process, IInv, TypeOK, LoopPosition, MutexTypeOK,
       BeforeLoop, Walkers
  <2>4. FilesCounted'
    <3>1. OnlyMoves(w)
      BY <1>7 DEF FillLookup, Go, OnlyMoves
    <3> QED
      BY <1>7, <3>1, Moves, HoldersFinite DEF FillLookup, Go, process, IInv, TypeOK,
         FilesCounted, HasFiles, BeforeLoop, Checks, MutexTypeOK, Walkers
  <2>5. SeenOpen' /\ NeverClosed'
    BY <1>7 DEF FillLookup, Go, process, history, IInv, TypeOK, SeenOpen, NeverClosed,
       HasFiles, MutexTypeOK, Roles, Walkers
  <2> QED
    BY <1>7, <2>1, <2>2, <2>3, <2>4, <2>5, Untouched DEF FillLookup, process, history, IInv,
       TypeOK
<1>8. CASE ReportFd(w)
  <2>1. DcacheTypeOK'
    BY <1>8 DEF ReportFd, DputEntry, IInv, TypeOK, DcacheTypeOK
  <2>2. MutexTypeOK' /\ Roles'
    BY <1>8 DEF ReportFd, Go, IInv, TypeOK, MutexTypeOK, Roles, Locked, PCs, Walkers
  <2>3. WalkTypeOK'
    <3>1. f_pos[w] + 1 \in 0 .. MaxFds + 2 /\ fd(w) \in Fds
      BY <1>8, FdAssumption DEF ReportFd, fd, Fds, IInv, TypeOK, WalkTypeOK, ProcessTypeOK,
         LoopPosition, BeforeLoop
    <3> QED
      BY <1>8, <3>1 DEF ReportFd, NextFd, IInv, TypeOK, WalkTypeOK
  <2>4. LoopPosition'
    BY <1>8 DEF ReportFd, NextFd, Go, process, IInv, TypeOK, LoopPosition, WalkTypeOK,
       MutexTypeOK, ProcessTypeOK, BeforeLoop, Walkers
  <2>5. FilesCounted'
    <3>1. OnlyMoves(w)
      BY <1>8 DEF ReportFd, Go, OnlyMoves
    <3> QED
      BY <1>8, <3>1, Moves, HoldersFinite DEF ReportFd, Go, process, IInv, TypeOK,
         FilesCounted, HasFiles, BeforeLoop, Checks, Walkers
  <2>6. ListedSoFar'
    BY SMTT(20), <1>8 DEF ReportFd, NextFd, fd, IInv, TypeOK, ListedSoFar, WalkTypeOK, Fds
  <2>7. SeenOpen' /\ NeverClosed'
    BY <1>8 DEF ReportFd, Go, process, IInv, SeenOpen, NeverClosed, HasFiles, Roles
  <2> QED
    BY <1>8, <2>1, <2>2, <2>3, <2>4, <2>5, <2>6, <2>7, Untouched DEF ReportFd, process,
       IInv, TypeOK
<1>9. CASE BufferFull(w)
  <2>0. /\ open' \subseteq open /\ (HasFiles => open' = open)
        /\ count' = 0 => open' = {}
        /\ count \in Int /\ count' = count - 1
    BY <1>9, PutKeeps DEF BufferFull, Looping, BeforeLoop, Walkers
  <2>1. ProcessTypeOK'
    BY <1>9, <2>0 DEF BufferFull, IInv, TypeOK, ProcessTypeOK
  <2>2. DcacheTypeOK'
    BY <1>9, <2>0 DEF BufferFull, Return, DputEntry, IInv, TypeOK, DcacheTypeOK
  <2>3. MutexTypeOK' /\ Roles'
    BY <1>9, <2>0, RoleAssumption DEF BufferFull, Return, Unlock, Go, IInv, TypeOK,
       MutexTypeOK, Roles, Locked, PCs, Walkers
  <2>4. LoopPosition'
    BY <1>9, <2>0 DEF BufferFull, Return, Go, IInv, LoopPosition, BeforeLoop
  <2>5. FilesCounted'
    <3>1. OnlyMoves(w)
      BY <1>9 DEF BufferFull, Return, Go, OnlyMoves
    <3> QED
      BY <1>9, <3>1, Moves, HoldersFinite, <2>0 DEF BufferFull, Return, Go, IInv, TypeOK,
         FilesCounted, HasFiles, ProcessTypeOK, BeforeLoop, Checks, MutexTypeOK, Walkers
  <2>6. LastPutCloses'
    BY <1>9, <2>0 DEF LastPutCloses
  <2>7. StableOpen'
    BY <1>9, <2>0 DEF BufferFull, history, IInv, StableOpen, HasFiles
  <2>8. SeenOpen' /\ NeverClosed'
    BY <1>9, <2>0 DEF BufferFull, Return, Go, history, IInv, SeenOpen, NeverClosed, HasFiles
  <2> QED
    BY <1>9, <2>1, <2>2, <2>3, <2>4, <2>5, <2>6, <2>7, <2>8, Untouched DEF BufferFull,
       history, IInv, TypeOK
<1>10. CASE EndOfTable(w)
  <2>0. /\ open' \subseteq open /\ (HasFiles => open' = open)
        /\ count' = 0 => open' = {}
        /\ count \in Int /\ count' = count - 1
    BY <1>10, PutKeeps DEF EndOfTable, Looping, BeforeLoop, Walkers
  <2>1. ProcessTypeOK'
    BY <1>10, <2>0 DEF EndOfTable, IInv, TypeOK, ProcessTypeOK
  <2>2. DcacheTypeOK'
    BY <1>10, <2>0 DEF EndOfTable, Return, DputEntry, IInv, TypeOK, DcacheTypeOK
  <2>3. MutexTypeOK' /\ Roles'
    BY <1>10, <2>0, RoleAssumption DEF EndOfTable, Return, Unlock, Go, IInv, TypeOK,
       MutexTypeOK, Roles, Locked, PCs, Walkers
  <2>4. WalkTypeOK'
    BY <1>10, <2>0 DEF EndOfTable, IInv, TypeOK, WalkTypeOK
  <2>5. LoopPosition'
    BY <1>10, <2>0 DEF EndOfTable, Return, Go, IInv, LoopPosition, BeforeLoop
  <2>6. FilesCounted'
    <3>1. OnlyMoves(w)
      BY <1>10 DEF EndOfTable, Return, Go, OnlyMoves
    <3> QED
      BY <1>10, <3>1, Moves, HoldersFinite, <2>0 DEF EndOfTable, Return, Go, IInv, TypeOK,
         FilesCounted, HasFiles, BeforeLoop, Checks, MutexTypeOK, Walkers
  <2>7. LastPutCloses'
    BY <1>10, <2>0 DEF LastPutCloses
  <2>8. StableOpen'
    BY <1>10, <2>0 DEF EndOfTable, IInv, StableOpen, HasFiles
  <2>9. ListedSoFar'
    <3>1. \A f \in stable[w] : f < f_pos[w] - 2
      <4>1. f_pos[w] \in Int /\ max_fds \in Int /\ f_pos[w] - 2 >= max_fds
        BY <1>10 DEF EndOfTable, fd, IInv, TypeOK, WalkTypeOK, ProcessTypeOK
      <4>2. stable[w] \subseteq 0 .. max_fds - 1
        BY DEF IInv, TypeOK, StableOpen, ProcessTypeOK
      <4> QED
        BY <4>1, <4>2
    <3> QED
      BY <1>10, <3>1 DEF EndOfTable, IInv, ListedSoFar
  <2>10. SeenOpen' /\ NeverClosed'
    BY <1>10, <2>0 DEF EndOfTable, Return, Go, IInv, SeenOpen, NeverClosed, HasFiles
  <2> QED
    BY <1>10, <2>1, <2>2, <2>3, <2>4, <2>5, <2>6, <2>7, <2>8, <2>9, <2>10 DEF IInv, TypeOK
<1> QED
  BY <1>1, <1>2, <1>3, <1>4, <1>5, <1>6, <1>7, <1>8, <1>9, <1>10 DEF Readdir

\* Every step, and no step, keeps the invariant.
LEMMA StepIInv == IInv /\ [Next]_vars => IInv'
<1> SUFFICES ASSUME IInv, [Next]_vars PROVE IInv'
  OBVIOUS
<1>1. CASE Next
  BY <1>1, EnvironmentSteps, InstantiateSteps, LookupSteps, ReaddirSteps DEF Next
<1>2. CASE UNCHANGED vars
  BY <1>2, Untouched DEF vars, process, dcache, walk, history, IInv, TypeOK
<1> QED
  BY <1>1, <1>2

\* The references, the position of every reader and what every lookup may find
\* are as the invariant says, always.
THEOREM Inductive == Spec => []IInv
<1>1. Init => IInv
  <2> SUFFICES ASSUME Init PROVE IInv
    OBVIOUS
  <2>1. ProcessTypeOK /\ DcacheTypeOK
    BY FdAssumption DEF Init, ProcessTypeOK, DcacheTypeOK
  <2>2. MutexTypeOK /\ Roles
    BY RoleAssumption DEF Init, MutexTypeOK, Roles, Locked, PCs, Walkers
  <2>3. WalkTypeOK /\ LoopPosition
    BY FdAssumption DEF Init, WalkTypeOK, LoopPosition, BeforeLoop, Fds, Walkers
  <2>4. FilesCounted
    <3>1. Looping = {} /\ Checking = {}
      BY DEF Init, Looping, Checking, BeforeLoop, Checks, Walkers
    <3> QED
      BY <3>1, FS_EmptySet DEF Init, FilesCounted, HasFiles
  <2>5. LastPutCloses /\ StableOpen /\ ListedSoFar
    BY DEF Init, LastPutCloses, StableOpen, ListedSoFar
  <2>6. SeenOpen /\ NeverClosed
    BY DEF Init, SeenOpen, NeverClosed, Walkers
  <2> QED
    BY <2>1, <2>2, <2>3, <2>4, <2>5, <2>6 DEF IInv, TypeOK
<1> QED
  BY <1>1, StepIInv, PTL DEF Spec

\* What a lookup finds, from the cache or made anew, was open while it looked.
THEOREM NothingClosedFound == Spec => []NeverClosed
<1>1. IInv => NeverClosed
  BY DEF IInv
<1> QED
  BY <1>1, Inductive, PTL

\* A pass to the end of the table lists every descriptor that stayed open.
THEOREM NothingOpenMissed == Spec => []ListingComplete
<1>1. IInv => ListingComplete
  BY DEF IInv, ListedSoFar, ListingComplete
<1> QED
  BY <1>1, Inductive, PTL

\* The files_struct has exactly the references of its owner and its users.
THEOREM NoFilesLeaked == Spec => []FilesCounted
<1>1. IInv => FilesCounted
  BY DEF IInv
<1> QED
  BY <1>1, Inductive, PTL

\* No file of a dead process stays open when the last walker has left.
THEOREM AllClosed == Spec => []FilesClosed
<1>1. IInv => FilesClosed
  BY FS_EmptySet DEF IInv, FilesCounted, LastPutCloses, FilesClosed
<1> QED
  BY <1>1, Inductive, PTL
=============================================================================
