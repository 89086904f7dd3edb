-------------------------- MODULE ProcDcacheProofs --------------------------
(***************************************************************************)
(* Proofs about the cached entries of /proc and of the task directories,   *)
(* for any number of tasks, walkers and pid numbers, and about their flush *)
(* when a task is released, for any nesting of pid namespaces.             *)
(***************************************************************************)
EXTENDS ProcDcache, ProcFlushTask, TLAPS

\* Tasks are made, flushed and detached, and memory pressure takes entries away:
\* the walkers stay where they are.
LEMMA TaskSteps ==
  ASSUME IInv,
         (\E p \in Pids : Fork(p) \/ proc_flush_task(p) \/ Unhash(p)) \/ \E d \in hash : Shrink(d)
  PROVE  IInv'
<1>1. ASSUME NEW p \in Pids, Fork(p) PROVE IInv'
  <2>1. TypeOK'
    BY <1>1 DEF Fork, IInv, TypeOK, ids, walk
  <2>2. Found'
    BY <1>1 DEF Fork, IInv, Found, ids, walk
  <2>3. (NameFree /\ InodeLeft /\ OneDentryPerName)'
    BY <1>1 DEF Fork, IInv, NameFree, InodeLeft, OneDentryPerName, walk
  <2>4. (StillGone /\ NeverTheDead)'
    BY <1>1 DEF Fork, IInv, StillGone, NeverTheDead, walk
  <2>5. OnlyItsThreads'
    BY <1>1 DEF Fork, IInv, OnlyItsThreads, ids, walk
  <2> QED
    BY <2>1, <2>2, <2>3, <2>4, <2>5 DEF IInv
<1>2. ASSUME NEW p \in Pids, proc_flush_task(p) PROVE IInv'
  <2>1. TypeOK'
    BY <1>2 DEF proc_flush_task, Flushed, IInv, TypeOK, ids, walk
  <2>2. Found'
    BY <1>2 DEF proc_flush_task, IInv, Found, ids, walk
  <2>3. (NameFree /\ InodeLeft /\ OneDentryPerName)'
    BY <1>2 DEF proc_flush_task, Flushed, IInv, NameFree, InodeLeft, OneDentryPerName, walk
  <2>4. (StillGone /\ NeverTheDead)'
    BY <1>2 DEF proc_flush_task, IInv, StillGone, NeverTheDead, walk
  <2>5. OnlyItsThreads'
    BY <1>2 DEF proc_flush_task, Flushed, IInv, OnlyItsThreads, ids, walk
  <2> QED
    BY <2>1, <2>2, <2>3, <2>4, <2>5 DEF IInv
<1>3. ASSUME NEW p \in Pids, Unhash(p) PROVE IInv'
  <2>1. TypeOK'
    BY <1>3 DEF Unhash, IInv, TypeOK, ids, walk
  <2>2. Found'
    BY <1>3 DEF Unhash, IInv, Found, ids, walk
  <2>3. (NameFree /\ InodeLeft /\ OneDentryPerName)'
    BY <1>3 DEF Unhash, IInv, NameFree, InodeLeft, OneDentryPerName, walk
  <2>4. (StillGone /\ NeverTheDead)'
    BY <1>3 DEF Unhash, IInv, StillGone, NeverTheDead, walk
  <2>5. OnlyItsThreads'
    BY <1>3 DEF Unhash, IInv, OnlyItsThreads, ids, walk
  <2> QED
    BY <2>1, <2>2, <2>3, <2>4, <2>5 DEF IInv
<1>4. ASSUME NEW d \in hash, Shrink(d) PROVE IInv'
  <2>1. TypeOK'
    BY <1>4 DEF Shrink, IInv, TypeOK, ids, walk
  <2>2. Found'
    BY <1>4 DEF Shrink, IInv, Found, ids, walk
  <2>3. (NameFree /\ InodeLeft /\ OneDentryPerName)'
    BY <1>4 DEF Shrink, IInv, NameFree, InodeLeft, OneDentryPerName, walk
  <2>4. (StillGone /\ NeverTheDead)'
    BY <1>4 DEF Shrink, IInv, StillGone, NeverTheDead, walk
  <2>5. OnlyItsThreads'
    BY <1>4 DEF Shrink, IInv, OnlyItsThreads, ids, walk
  <2> QED
    BY <2>1, <2>2, <2>3, <2>4, <2>5 DEF IInv
<1> QED
  BY <1>1, <1>2, <1>3, <1>4

\* Every step of a path walk keeps the invariant.
LEMMA WalkSteps ==
  ASSUME IInv, NEW w \in Walkers, PathWalk(w)
  PROVE  IInv'
<1>1. ASSUME NEW n \in Nrs, LookupStart(w, n) PROVE IInv'
  <2>1. TypeOK'
    BY <1>1 DEF LookupStart, d_lookup, Go, IInv, TypeOK, PCs, Locked, ids
  <2>2. Found'
    BY <1>1, NoneAssumption DEF LookupStart, d_lookup, Go, IInv, TypeOK, Found, Dentry, ids
  <2>3. (NameFree /\ InodeLeft /\ OneDentryPerName)'
    BY <1>1 DEF LookupStart, Go, IInv, TypeOK, NameFree, InodeLeft, OneDentryPerName
  <2>4. (StillGone /\ NeverTheDead)'
    BY <1>1 DEF LookupStart, Go, IInv, TypeOK, StillGone, NeverTheDead
  <2>5. OnlyItsThreads'
    BY <1>1 DEF LookupStart, d_lookup, IInv, TypeOK, OnlyItsThreads, ids
  <2> QED
    BY <2>1, <2>2, <2>3, <2>4, <2>5 DEF IInv
<1>2. CASE Revalidate(w)
  <2>1. TypeOK'
    BY <1>2 DEF Revalidate, DropIfDead, Go, IInv, TypeOK, PCs, Locked, ids
  <2>2. Found'
    BY <1>2 DEF Revalidate, Go, IInv, TypeOK, Found, ids
  <2>3. (NameFree /\ InodeLeft /\ OneDentryPerName)'
    BY <1>2 DEF Revalidate, DropIfDead, Go, IInv, TypeOK, NameFree, InodeLeft,
       OneDentryPerName
  <2>4. (StillGone /\ NeverTheDead)'
    BY <1>2 DEF Revalidate, Revalidates, Go, IInv, TypeOK, StillGone, NeverTheDead, Alive
  <2>5. OnlyItsThreads'
    BY <1>2 DEF Revalidate, DropIfDead, IInv, TypeOK, OnlyItsThreads, ids
  <2> QED
    BY <2>1, <2>2, <2>3, <2>4, <2>5 DEF IInv
<1>3. CASE RealLookup(w)
  <2>1. TypeOK'
    BY <1>3, NoneAssumption DEF RealLookup, d_lookup, Go, IInv, TypeOK, PCs, Locked, ids
  <2>2. Found'
    BY <1>3, NoneAssumption DEF RealLookup, d_lookup, Go, IInv, TypeOK, Found, Dentry, ids
  <2>3. (NameFree /\ InodeLeft /\ OneDentryPerName)'
    BY <1>3 DEF RealLookup, d_lookup, Go, IInv, TypeOK, NameFree, InodeLeft,
       OneDentryPerName
  <2>4. (StillGone /\ NeverTheDead)'
    BY <1>3 DEF RealLookup, Go, IInv, TypeOK, StillGone, NeverTheDead
  <2>5. OnlyItsThreads'
    BY <1>3 DEF RealLookup, d_lookup, IInv, TypeOK, OnlyItsThreads, ids
  <2> QED
    BY <2>1, <2>2, <2>3, <2>4, <2>5 DEF IInv
<1>4. CASE RevalidateAgain(w)
  <2>1. TypeOK'
    BY <1>4 DEF RevalidateAgain, DropIfDead, Finish, Go, IInv, TypeOK, PCs, Locked, ids
  <2>2. Found'
    BY <1>4 DEF RevalidateAgain, Finish, Go, IInv, TypeOK, Found, ids
  <2>3. (NameFree /\ InodeLeft /\ OneDentryPerName)'
    BY <1>4 DEF RevalidateAgain, DropIfDead, Finish, Go, IInv, TypeOK, NameFree, InodeLeft,
       OneDentryPerName
  <2>4. (StillGone /\ NeverTheDead)'
    BY <1>4 DEF RevalidateAgain, Revalidates, Finish, Go, IInv, TypeOK, StillGone,
       NeverTheDead, Alive
  <2>5. OnlyItsThreads'
    BY <1>4 DEF RevalidateAgain, DropIfDead, Finish, IInv, TypeOK, OnlyItsThreads, ids
  <2> QED
    BY <2>1, <2>2, <2>3, <2>4, <2>5 DEF IInv
<1>5. CASE proc_pid_lookup(w)
  <2>1. TypeOK'
    BY <1>5, NoneAssumption DEF proc_pid_lookup, LookupTask, find_task_by_pid_ns, Finish,
       Go, IInv, TypeOK, PCs, Locked, ids
  <2>2. Found'
    BY <1>5, NoneAssumption DEF proc_pid_lookup, LookupTask, find_task_by_pid_ns, Finish,
       Go, IInv, TypeOK, Found, ids
  <2>3. (NameFree /\ InodeLeft /\ OneDentryPerName)'
    BY <1>5 DEF proc_pid_lookup, Finish, Go, IInv, TypeOK, NameFree, InodeLeft,
       OneDentryPerName
  <2>4. (StillGone /\ NeverTheDead)'
    BY <1>5 DEF proc_pid_lookup, Finish, Go, IInv, TypeOK, StillGone, NeverTheDead
  <2>5. OnlyItsThreads'
    BY <1>5 DEF proc_pid_lookup, Finish, IInv, TypeOK, OnlyItsThreads, ids
  <2> QED
    BY <2>1, <2>2, <2>3, <2>4, <2>5 DEF IInv
<1>6. CASE Instantiate(w)
  <2>1. TypeOK'
    BY <1>6, NoneAssumption DEF Instantiate, MakeInode, Go, IInv, TypeOK, PCs, Locked, ids
  <2>2. Found'
    BY <1>6 DEF Instantiate, MakeInode, Go, IInv, TypeOK, Found, ids
  <2>3. (NameFree /\ InodeLeft /\ OneDentryPerName)'
    BY <1>6 DEF Instantiate, MakeInode, Go, IInv, TypeOK, NameFree, InodeLeft,
       OneDentryPerName
  <2>4. (StillGone /\ NeverTheDead)'
    BY <1>6 DEF Instantiate, MakeInode, Go, IInv, TypeOK, StillGone, NeverTheDead
  <2>5. OnlyItsThreads'
    BY <1>6 DEF Instantiate, MakeInode, IInv, OnlyItsThreads, ids
  <2> QED
    BY <2>1, <2>2, <2>3, <2>4, <2>5 DEF IInv
<1>7. CASE InstantiateAdd(w)
  <2>1. TypeOK'
    BY <1>7, InoAssumption DEF InstantiateAdd, Add, Go, IInv, TypeOK, Found, InodeLeft,
       Dentry, PCs, Locked, ids
  <2>2. Found'
    BY <1>7, NoneAssumption, InoAssumption DEF InstantiateAdd, Add, Go, IInv, TypeOK, Found,
       InodeLeft, ids
  <2>3. (NameFree /\ InodeLeft /\ OneDentryPerName)'
    BY <1>7 DEF InstantiateAdd, Add, Go, IInv, TypeOK, NameFree, InodeLeft,
       OneDentryPerName, Locked
  <2>4. (StillGone /\ NeverTheDead)'
    BY <1>7 DEF InstantiateAdd, Add, Go, IInv, StillGone, NeverTheDead
  <2>5. OnlyItsThreads'
    BY <1>7 DEF InstantiateAdd, Add, IInv, Found, OnlyItsThreads, ids
  <2> QED
    BY <2>1, <2>2, <2>3, <2>4, <2>5 DEF IInv
<1>8. CASE CloseRace(w)
  <2>1. TypeOK'
    BY <1>8, NoneAssumption DEF CloseRace, DropIfDead, Finish, Go, IInv, TypeOK, PCs,
       Locked, ids
  <2>2. Found'
    BY <1>8 DEF CloseRace, Finish, Go, IInv, TypeOK, Found, ids
  <2>3. (NameFree /\ InodeLeft /\ OneDentryPerName)'
    BY <1>8 DEF CloseRace, DropIfDead, Finish, Go, IInv, TypeOK, NameFree, InodeLeft,
       OneDentryPerName
  <2>4. (StillGone /\ NeverTheDead)'
    BY <1>8 DEF CloseRace, Revalidates, Finish, Go, IInv, TypeOK, StillGone, NeverTheDead,
       Alive
  <2>5. OnlyItsThreads'
    BY <1>8 DEF CloseRace, DropIfDead, Finish, IInv, TypeOK, OnlyItsThreads, ids
  <2> QED
    BY <2>1, <2>2, <2>3, <2>4, <2>5 DEF IInv
<1>9. CASE Dput(w)
  <2>1. TypeOK'
    BY <1>9 DEF Dput, Finish, Go, IInv, TypeOK, PCs, Locked, ids
  <2>2. Found'
    BY <1>9 DEF Dput, Finish, Go, IInv, TypeOK, Found, ids
  <2>3. (NameFree /\ InodeLeft /\ OneDentryPerName)'
    BY <1>9 DEF Dput, Finish, Go, IInv, NameFree, InodeLeft, OneDentryPerName
  <2>4. (StillGone /\ NeverTheDead)'
    BY <1>9 DEF Dput, Finish, Go, IInv, TypeOK, StillGone, NeverTheDead
  <2>5. OnlyItsThreads'
    BY <1>9 DEF Dput, Finish, IInv, OnlyItsThreads, ids
  <2> QED
    BY <2>1, <2>2, <2>3, <2>4, <2>5 DEF IInv
<1> QED
  BY <1>1, <1>2, <1>3, <1>4, <1>5, <1>6, <1>7, <1>8, <1>9 DEF PathWalk

\* Every step of a readdir keeps the invariant.
LEMMA ListingSteps ==
  ASSUME IInv, NEW w \in Walkers, Readdir(w)
  PROVE  IInv'
<1>1. ASSUME NEW p \in Pids, ReaddirAt(w, p) PROVE IInv'
  <2>1. TypeOK'
    BY <1>1, NoneAssumption DEF ReaddirAt, Go, IInv, TypeOK, PCs, Locked, ids
  <2>2. Found'
    BY <1>1, NoneAssumption DEF ReaddirAt, Listed, Go, IInv, TypeOK, Found, ids
  <2>3. (NameFree /\ InodeLeft /\ OneDentryPerName)'
    BY <1>1 DEF ReaddirAt, Go, IInv, NameFree, InodeLeft, OneDentryPerName
  <2>4. (StillGone /\ NeverTheDead)'
    BY <1>1 DEF ReaddirAt, Go, IInv, StillGone, NeverTheDead
  <2>5. OnlyItsThreads'
    BY <1>1 DEF ReaddirAt, IInv, OnlyItsThreads, ids
  <2> QED
    BY <2>1, <2>2, <2>3, <2>4, <2>5 DEF IInv
<1>2. CASE FillLookup(w)
  <2>1. TypeOK'
    BY <1>2 DEF FillLookup, d_lookup, Go, IInv, TypeOK, PCs, Locked, ids
  <2>2. Found'
    BY <1>2, NoneAssumption DEF FillLookup, d_lookup, Go, IInv, TypeOK, Found, Dentry, ids
  <2>3. (NameFree /\ InodeLeft /\ OneDentryPerName)'
    BY <1>2 DEF FillLookup, d_lookup, Go, IInv, TypeOK, NameFree, InodeLeft,
       OneDentryPerName
  <2>4. (StillGone /\ NeverTheDead)'
    BY <1>2 DEF FillLookup, Go, IInv, TypeOK, StillGone, NeverTheDead
  <2>5. OnlyItsThreads'
    BY <1>2 DEF FillLookup, d_lookup, IInv, TypeOK, OnlyItsThreads, ids
  <2> QED
    BY <2>1, <2>2, <2>3, <2>4, <2>5 DEF IInv
<1>3. CASE FillInstantiate(w)
  <2>1. TypeOK'
    BY <1>3 DEF FillInstantiate, MakeInode, Go, IInv, TypeOK, PCs, Locked, ids
  <2>2. Found'
    BY <1>3 DEF FillInstantiate, MakeInode, Go, IInv, TypeOK, Found, ids
  <2>3. (NameFree /\ InodeLeft /\ OneDentryPerName)'
    BY <1>3 DEF FillInstantiate, MakeInode, Go, IInv, TypeOK, NameFree, InodeLeft,
       OneDentryPerName
  <2>4. (StillGone /\ NeverTheDead)'
    BY <1>3 DEF FillInstantiate, MakeInode, Go, IInv, TypeOK, StillGone, NeverTheDead
  <2>5. OnlyItsThreads'
    BY <1>3 DEF FillInstantiate, MakeInode, IInv, OnlyItsThreads, ids
  <2> QED
    BY <2>1, <2>2, <2>3, <2>4, <2>5 DEF IInv
<1>4. CASE FillAdd(w)
  <2>1. TypeOK'
    BY <1>4, InoAssumption DEF FillAdd, Add, Go, IInv, TypeOK, Found, InodeLeft, Dentry,
       PCs, Locked, ids
  <2>2. Found'
    BY <1>4, NoneAssumption, InoAssumption DEF FillAdd, Add, Go, IInv, TypeOK, Found,
       InodeLeft, ids
  <2>3. (NameFree /\ InodeLeft /\ OneDentryPerName)'
    BY <1>4 DEF FillAdd, Add, Go, IInv, TypeOK, NameFree, InodeLeft, OneDentryPerName,
       Locked
  <2>4. (StillGone /\ NeverTheDead)'
    BY <1>4 DEF FillAdd, Add, Go, IInv, StillGone, NeverTheDead
  <2>5. OnlyItsThreads'
    BY <1>4 DEF FillAdd, Add, IInv, Found, OnlyItsThreads, ids
  <2> QED
    BY <2>1, <2>2, <2>3, <2>4, <2>5 DEF IInv
<1>5. CASE FillCloseRace(w)
  <2>1. TypeOK'
    BY <1>5 DEF FillCloseRace, DropIfDead, Go, IInv, TypeOK, PCs, Locked, ids
  <2>2. Found'
    BY <1>5 DEF FillCloseRace, Go, IInv, TypeOK, Found, ids
  <2>3. (NameFree /\ InodeLeft /\ OneDentryPerName)'
    BY <1>5 DEF FillCloseRace, DropIfDead, Go, IInv, TypeOK, NameFree, InodeLeft,
       OneDentryPerName
  <2>4. (StillGone /\ NeverTheDead)'
    BY <1>5 DEF FillCloseRace, Go, IInv, TypeOK, StillGone, NeverTheDead
  <2>5. OnlyItsThreads'
    BY <1>5 DEF FillCloseRace, DropIfDead, IInv, TypeOK, OnlyItsThreads, ids
  <2> QED
    BY <2>1, <2>2, <2>3, <2>4, <2>5 DEF IInv
<1>6. CASE FillFail(w)
  <2>1. TypeOK'
    BY <1>6, NoneAssumption DEF FillFail, Finish, Go, IInv, TypeOK, PCs, Locked, ids
  <2>2. Found'
    BY <1>6 DEF FillFail, Finish, Go, IInv, Found, ids
  <2>3. (NameFree /\ InodeLeft /\ OneDentryPerName)'
    BY <1>6 DEF FillFail, Finish, Go, IInv, NameFree, InodeLeft, OneDentryPerName
  <2>4. (StillGone /\ NeverTheDead)'
    BY <1>6 DEF FillFail, Finish, Go, IInv, StillGone, NeverTheDead
  <2>5. OnlyItsThreads'
    BY <1>6 DEF FillFail, Finish, IInv, OnlyItsThreads, ids
  <2> QED
    BY <2>1, <2>2, <2>3, <2>4, <2>5 DEF IInv
<1>7. CASE Report(w)
  <2>1. TypeOK'
    BY <1>7, NoneAssumption DEF Report, Finish, Go, IInv, TypeOK, PCs, Locked, ids
  <2>2. Found'
    BY <1>7 DEF Report, Finish, Go, IInv, TypeOK, Found, ids
  <2>3. (NameFree /\ InodeLeft /\ OneDentryPerName)'
    BY <1>7 DEF Report, Finish, Go, IInv, NameFree, InodeLeft, OneDentryPerName
  <2>4. (StillGone /\ NeverTheDead)'
    BY <1>7 DEF Report, Finish, Go, IInv, StillGone, NeverTheDead
  <2>5. OnlyItsThreads'
    BY <1>7 DEF Report, Finish, IInv, OnlyItsThreads, ids
  <2> QED
    BY <2>1, <2>2, <2>3, <2>4, <2>5 DEF IInv
<1> QED
  BY <1>1, <1>2, <1>3, <1>4, <1>5, <1>6, <1>7 DEF Readdir

\* Every step, and no step, keeps the invariant.
LEMMA StepIInv == IInv /\ [Next]_vars => IInv'
<1> SUFFICES ASSUME IInv, [Next]_vars PROVE IInv'
  OBVIOUS
<1>1. CASE Next
  BY <1>1, TaskSteps, WalkSteps, ListingSteps DEF Next
<1>2. CASE UNCHANGED vars
  BY <1>2 DEF vars, ids, walk, IInv, TypeOK, Found, NameFree, InodeLeft, StillGone,
     NeverTheDead, OneDentryPerName, OnlyItsThreads
<1> QED
  BY <1>1, <1>2

\* What the mutex of the directory and the revalidation of entries establish
\* holds always, in /proc and in every task directory.
THEOREM Inductive == Spec => []IInv
<1>1. Init => IInv
  BY NoneAssumption, InoAssumption DEF Init, IInv, TypeOK, Found, NameFree, InodeLeft,
     StillGone, NeverTheDead, OneDentryPerName, OnlyItsThreads, PCs, Locked
<1> QED
  BY <1>1, StepIInv, PTL DEF Spec

\* A path walk never ends at a task that was gone when it began: of any number
\* of tasks, walkers and reuses of a number (pid_revalidate()).
THEOREM NoDeadTaskReached == Spec => []NeverTheDead
<1>1. IInv => NeverTheDead
  BY DEF IInv
<1> QED
  BY <1>1, Inductive, PTL

\* Lookups and readdirs that race for a name instantiate it once.
THEOREM NoSecondDentry == Spec => []OneDentryPerName
<1>1. IInv => OneDentryPerName
  BY DEF IInv
<1> QED
  BY <1>1, Inductive, PTL

\* /proc/TGID/task shows threads of its own group only (proc_task_lookup()).
THEOREM NoForeignThread == Spec => []OnlyItsThreads
<1>1. IInv => OnlyItsThreads
  BY DEF IInv
<1> QED
  BY <1>1, Inductive, PTL

-----------------------------------------------------------------------------
(* The flush of a task's entries when it is released.                      *)

\* A cached entry is /proc/nr of its task, or /proc/tg/task/nr.
LEMMA EntryForms ==
  ASSUME NEW e \in Entries
  PROVE  /\ e.task \in Tasks /\ e.ns \in 0 .. level[e.task]
         /\ e = PidEntry(e.task, e.ns) \/ e = TaskEntry(e.task, e.ns)
BY DEF Entries, PidEntry, TaskEntry

\* Whatever d_drop() takes away under a number that t has in the namespace is
\* t's own directory, or one below it of a thread t leads.
LEMMA DroppedIsOwn ==
  ASSUME NEW t \in Tasks, NEW ns \in 0 .. level[t], NEW e \in Below(ns, <<numbers[t][ns]>>),
         dcache \subseteq Entries
  PROVE  e.task \in Tasks /\ (e.task = t \/ group_leader[e.task] = t)
<1>1. e \in Entries /\ e.ns = ns /\ e.path[1] = numbers[t][ns]
  BY DEF Below
<1>2. e.task \in Tasks /\ ns \in 0 .. level[e.task]
  BY <1>1, EntryForms
<1>3. CASE e = PidEntry(e.task, e.ns)
  <2>1. numbers[e.task][ns] = numbers[t][ns]
    BY <1>1, <1>3 DEF PidEntry
  <2> QED
    BY <1>2, <2>1, NumbersAssumption
<1>4. CASE e = TaskEntry(e.task, e.ns)
  <2>1. numbers[group_leader[e.task]][ns] = numbers[t][ns]
    BY <1>1, <1>4 DEF TaskEntry
  <2>2. group_leader[e.task] \in Tasks /\ ns <= level[group_leader[e.task]]
    BY <1>2, LeaderAssumption
  <2> QED
    BY <1>2, <2>1, <2>2, NumbersAssumption
<1> QED
  BY <1>1, <1>3, <1>4, EntryForms

\* d_drop() of /proc/nr takes the directory of the task itself away.
LEMMA OwnIsDropped ==
  ASSUME NEW t, NEW ns
  PROVE  PidEntry(t, ns) \notin dcache \ Below(ns, <<numbers[t][ns]>>)
BY DEF PidEntry, Below

\* A path walk caches an entry: what was flushed before is back as recached.
LEMMA CacheInv ==
  ASSUME FlushInv, NEW e \in Entries, Cache(e)
  PROVE  FlushInv'
<1>1. FlushTypeOK'
  BY DEF FlushInv, FlushTypeOK, Cache
<1>2. FlushedThrough'
  <2> SUFFICES ASSUME NEW t \in Tasks, NEW ns \in Through(t), PidEntry(t, ns) \in dcache'
               PROVE  PidEntry(t, ns) \in recached'
    BY DEF FlushedThrough, Through, Cache
  <2>1. CASE PidEntry(t, ns) = e
    BY <2>1 DEF Cache, PidEntry, Through
  <2>2. CASE PidEntry(t, ns) \in dcache
    BY <2>2 DEF FlushInv, FlushedThrough, Cache
  <2> QED
    BY <2>1, <2>2 DEF Cache
<1>3. InOrder'
  BY DEF FlushInv, InOrder, Cache
<1> QED
  BY <1>1, <1>2, <1>3 DEF FlushInv

\* The loop moves on from a namespace whose /proc/nr is flushed.
LEMMA NextNsInv ==
  ASSUME FlushInv, NEW t \in Tasks, fpc[t] \in {"pid", "tgid"}, NextNs(t),
         dcache' \subseteq dcache, UNCHANGED <<alive, mounted, recached>>,
         PidEntry(t, i[t]) \in dcache' => PidEntry(t, i[t]) \in recached
  PROVE  FlushInv'
<1> DEFINE l == i[t]
<1>0. l \in Nat /\ l <= level[t] /\ level[t] \in Nat
  BY LevelAssumption DEF FlushInv, FlushTypeOK
<1>1. CASE LoopEnds(t)
  <2>1. fpc' = [fpc EXCEPT ![t] = "done"] /\ i' = i
    BY <1>1 DEF NextNs
  <2>2. FlushTypeOK'
    BY <2>1 DEF FlushInv, FlushTypeOK
  <2>3. \A ns \in 0 .. level[t] : ns = l \/ ns \in Through(t)
    BY <1>0, <1>1 DEF Through, LoopEnds
  <2>4. FlushedThrough'
    <3> SUFFICES ASSUME NEW u \in Tasks, NEW ns \in Through(u)', PidEntry(u, ns) \in dcache'
                 PROVE  PidEntry(u, ns) \in recached
      BY DEF FlushedThrough
    <3>1. CASE u = t
      BY <2>3, <3>1 DEF FlushInv, FlushedThrough, Through
    <3>2. CASE u # t
      <4>1. ns \in Through(u)
        BY <2>1, <3>2 DEF Through
      <4> QED
        BY <4>1 DEF FlushInv, FlushedThrough
    <3> QED
      BY <3>1, <3>2
  <2>5. InOrder'
    BY <2>1 DEF FlushInv, InOrder
  <2> QED
    BY <2>2, <2>4, <2>5 DEF FlushInv
<1>2. CASE ~LoopEnds(t)
  <2>1. fpc' = [fpc EXCEPT ![t] = "pid"] /\ i' = [i EXCEPT ![t] = l + 1]
    BY <1>2 DEF NextNs
  <2>2. FlushTypeOK'
    BY <1>0, <1>2, <2>1 DEF FlushInv, FlushTypeOK, LoopEnds
  <2>3. \A ns \in Through(t)' : ns = l \/ ns \in Through(t)
    BY <1>0, <2>1 DEF Through, FlushInv, FlushTypeOK
  <2>4. FlushedThrough'
    <3> SUFFICES ASSUME NEW u \in Tasks, NEW ns \in Through(u)', PidEntry(u, ns) \in dcache'
                 PROVE  PidEntry(u, ns) \in recached
      BY DEF FlushedThrough
    <3>1. CASE u = t
      BY <2>3, <3>1 DEF FlushInv, FlushedThrough
    <3>2. CASE u # t
      <4>1. ns \in Through(u)
        BY <2>1, <3>2 DEF Through
      <4> QED
        BY <4>1 DEF FlushInv, FlushedThrough
    <3> QED
      BY <3>1, <3>2
  <2>5. InOrder'
    BY <2>1 DEF FlushInv, InOrder
  <2> QED
    BY <2>2, <2>4, <2>5 DEF FlushInv
<1> QED
  BY <1>1, <1>2

\* Every step of a task's release keeps the invariant.
LEMMA ReleaseInv ==
  ASSUME FlushInv, NEW t \in Tasks, release_task(t)
  PROVE  FlushInv'
<1>1. CASE FlushStart(t)
  <2>1. FlushTypeOK'
    <3>1. level[t] \in Nat
      BY LevelAssumption
    <3> QED
      BY <1>1, <3>1 DEF FlushStart, FlushInv, FlushTypeOK
  <2>2. FlushedThrough'
    <3> SUFFICES ASSUME NEW u \in Tasks, NEW ns \in Through(u)', PidEntry(u, ns) \in dcache
                 PROVE  PidEntry(u, ns) \in recached
      BY <1>1 DEF FlushedThrough, FlushStart
    <3>1. u # t
      BY <1>1 DEF FlushStart, Through, FlushInv, FlushTypeOK
    <3>2. ns \in Through(u)
      BY <1>1, <3>1 DEF FlushStart, Through
    <3> QED
      BY <3>2 DEF FlushInv, FlushedThrough
  <2>3. InOrder'
    <3>1. ASSUME NEW u \in Tasks, group_leader[u] = t, u # t PROVE u \notin alive
      BY <1>1, <3>1, LeaderAssumption DEF FlushStart, thread_group_leader
    <3> QED
      BY <1>1, <3>1 DEF FlushStart, FlushInv, InOrder
  <2> QED
    BY <2>1, <2>2, <2>3 DEF FlushInv
<1>2. CASE FlushPid(t)
  <2>1. PidEntry(t, i[t]) \notin dcache'
    BY <1>2, OwnIsDropped DEF FlushPid, FlushesPid
  <2>2. CASE thread_group_leader(t)
    <3>1. fpc' = [fpc EXCEPT ![t] = "tgid"] /\ UNCHANGED <<i, alive, mounted, recached>>
      BY <1>2, <2>2 DEF FlushPid
    <3>2. FlushTypeOK'
      BY <1>2, <3>1 DEF FlushPid, FlushInv, FlushTypeOK
    <3>3. FlushedThrough'
      <4> SUFFICES ASSUME NEW u \in Tasks, NEW ns \in Through(u)', PidEntry(u, ns) \in dcache'
                   PROVE  PidEntry(u, ns) \in recached
        BY <3>1 DEF FlushedThrough
      <4>1. ns \in Through(u) \/ (u = t /\ ns = i[t])
        BY <1>2, <3>1 DEF FlushPid, FlushInv, FlushTypeOK, Through
      <4> QED
        BY <1>2, <2>1, <4>1 DEF FlushPid, FlushInv, FlushedThrough
    <3>4. InOrder'
      BY <1>2, <3>1 DEF FlushPid, FlushInv, InOrder
    <3> QED
      BY <3>2, <3>3, <3>4 DEF FlushInv
  <2>3. CASE ~thread_group_leader(t)
    BY <1>2, <2>1, <2>3, NextNsInv DEF FlushPid
  <2> QED
    BY <2>2, <2>3
<1>3. CASE FlushTgid(t)
  <2>1. i[t] \in Through(t)
    BY <1>3 DEF FlushTgid, FlushInv, FlushTypeOK, Through
  <2>2. PidEntry(t, i[t]) \in dcache' => PidEntry(t, i[t]) \in recached
    BY <1>3, <2>1 DEF FlushTgid, FlushInv, FlushedThrough
  <2> QED
    BY <1>3, <2>2, NextNsInv DEF FlushTgid
<1>4. CASE Released(t)
  <2>1. dcache' \subseteq dcache /\ mounted' \subseteq mounted
    BY <1>4 DEF Released
  <2>2. FlushTypeOK'
    BY <1>4, <2>1 DEF Released, FlushInv, FlushTypeOK
  <2>3. FlushedThrough'
    BY <1>4, <2>1 DEF Released, FlushInv, FlushedThrough, Through
  <2>4. InOrder'
    BY <1>4 DEF Released, FlushInv, InOrder
  <2> QED
    BY <2>2, <2>3, <2>4 DEF FlushInv
<1> QED
  BY <1>1, <1>2, <1>3, <1>4 DEF release_task

\* proc_flush_task(): FlushInv is inductive.
THEOREM FlushInductive == FlushSpec => []FlushInv
<1>1. FlushInit => FlushInv
  BY DEF FlushInit, FlushInv, FlushTypeOK, FlushedThrough, InOrder
<1>2. FlushInv /\ [FlushNext]_flushVars => FlushInv'
  <2> SUFFICES ASSUME FlushInv, [FlushNext]_flushVars
               PROVE  FlushInv'
    OBVIOUS
  <2>1. CASE FlushNext
    BY <2>1, CacheInv, ReleaseInv DEF FlushNext
  <2>2. CASE UNCHANGED flushVars
    BY <2>2 DEF flushVars, FlushInv, FlushTypeOK, FlushedThrough, Through, InOrder
  <2> QED
    BY <2>1, <2>2
<1> QED
  BY <1>1, <1>2, PTL DEF FlushSpec

\* PidFlushed: when proc_flush_task() is through its loop, /proc/pid is in the
\* dcache of no namespace's mount, unless a walk has cached it again.
THEOREM PidEntriesFlushed == FlushSpec => []PidFlushed
<1>1. FlushInv => PidFlushed
  BY DEF FlushInv, FlushedThrough, Through, PidFlushed
<1> QED
  BY <1>1, FlushInductive, PTL

\* An entry that a step takes away belongs to a task under flush, or to the
\* namespace whose init task leaves.
LEMMA TakenAway ==
  ASSUME FlushInv, [FlushNext]_flushVars, NEW e \in dcache \ dcache'
  PROVE  fpc[e.task] # "no" \/ \E t \in alive \ alive' : level[t] = e.ns
<1>0. e \in Entries /\ e.task \in Tasks /\ dcache \subseteq Entries
  BY EntryForms DEF FlushInv, FlushTypeOK
<1>1. CASE UNCHANGED flushVars
  BY <1>1 DEF flushVars
<1>2. ASSUME NEW f \in Entries, Cache(f) PROVE FALSE
  BY <1>2 DEF Cache
<1>3. ASSUME NEW t \in Tasks, FlushStart(t) PROVE FALSE
  BY <1>3 DEF FlushStart
<1>4. ASSUME NEW t \in Tasks, fpc[t] # "no",
             e.task \in Tasks /\ (e.task = t \/ group_leader[e.task] = t)
      PROVE  fpc[e.task] # "no"
  BY <1>4 DEF FlushInv, InOrder
<1>5. ASSUME NEW t \in Tasks, FlushPid(t) PROVE fpc[e.task] # "no"
  <2>1. e \in Below(i[t], <<numbers[t][i[t]]>>)
    BY <1>5 DEF FlushPid, FlushesPid
  <2>2. i[t] \in 0 .. level[t]
    BY <1>5 DEF FlushPid, FlushInv, FlushTypeOK
  <2>3. e.task \in Tasks /\ (e.task = t \/ group_leader[e.task] = t)
    BY <1>0, <2>1, <2>2, DroppedIsOwn
  <2>4. fpc[t] # "no"
    BY <1>5 DEF FlushPid
  <2> QED
    BY <1>4, <2>3, <2>4
<1>6. ASSUME NEW t \in Tasks, FlushTgid(t) PROVE fpc[e.task] # "no"
  <2> DEFINE g == group_leader[t]
  <2>1. e \in Below(i[t], <<numbers[g][i[t]], numbers[t][i[t]]>>)
    BY <1>6 DEF FlushTgid
  <2>2. i[t] \in 0 .. level[t]
    BY <1>6 DEF FlushTgid, FlushInv, FlushTypeOK
  <2>3. e.ns = i[t] /\ Len(e.path) >= 2 /\ e.path[2] = numbers[t][i[t]]
    BY <2>1 DEF Below
  <2>4. e = TaskEntry(e.task, e.ns) /\ e.ns \in 0 .. level[e.task]
    BY <1>0, <2>3, EntryForms DEF PidEntry
  <2>5. numbers[e.task][i[t]] = numbers[t][i[t]]
    BY <2>3, <2>4 DEF TaskEntry
  <2>6. e.task = t
    BY <1>0, <2>2, <2>3, <2>4, <2>5, NumbersAssumption
  <2> QED
    BY <1>6, <2>6 DEF FlushTgid
<1>7. ASSUME NEW t \in Tasks, Released(t) PROVE \E u \in alive \ alive' : level[u] = e.ns
  <2>1. level[t] = e.ns
    BY <1>7 DEF Released
  <2> QED
    BY <1>7, <2>1 DEF Released
<1> QED
  BY <1>1, <1>2, <1>3, <1>5, <1>6, <1>7 DEF FlushNext, release_task

\* FlushOnlyOwn: proc_flush_task_mnt() drops no entry of a task that stays, and
\* takes no number of one namespace for that of another.
THEOREM FlushKeepsOthers == FlushSpec => FlushOnlyOwn
<1> DEFINE Own == \A e \in dcache \ dcache' :
                    \/ fpc[e.task] # "no"
                    \/ \E t \in alive \ alive' : level[t] = e.ns
<1>1. FlushInv /\ [FlushNext]_flushVars => Own
  BY TakenAway
<1>2. [][Own]_flushVars => FlushOnlyOwn
  BY DEF FlushOnlyOwn
<1> HIDE DEF Own
<1> QED
  BY <1>1, <1>2, FlushInductive, PTL DEF FlushSpec
=============================================================================
