-------------------------- MODULE ProcPidentProofs --------------------------
(***************************************************************************)
(* Proofs about the directories with a fixed table, for any number of      *)
(* readers and lookers, any build and any positions: a pass through the    *)
(* table is exact, nothing is found of a task that is gone, and no way out *)
(* keeps the task.                                                         *)
(***************************************************************************)
EXTENDS ProcPident, FiniteSetTheorems, SequenceTheorems, TLAPS

-----------------------------------------------------------------------------
(* No table is as long as an int can count.                                *)

Names == {"task", "fd", "fdinfo", "net", "environ", "auxv", "status", "personality", "limits",
          "sched", "syscall", "cmdline", "stat", "statm", "maps", "numa_maps", "mem", "cwd", "root",
          "exe", "mounts", "mountinfo", "mountstats", "clear_refs", "smaps", "pagemap", "attr",
          "wchan", "stack", "schedstat", "latency", "cpuset", "cgroup", "oom_score", "oom_adj",
          "loginuid", "sessionid", "make-it-fail", "coredump_filter", "io", "current", "prev",
          "exec", "fscreate", "keycreate", "sockcreate", "self"}

AtMost(s, n) == s \in Seq(Names) /\ Len(s) <= n

\* Two parts of a table, one after the other.
LEMMA Joined ==
    ASSUME NEW s, NEW t, NEW m \in Nat, NEW n \in Nat, AtMost(s, m), AtMost(t, n)
    PROVE  AtMost(s \o t, m + n)
  BY DEF AtMost

\* An #ifdef leaves its entries or none.
LEMMA IfdefAtMost ==
    ASSUME NEW build, NEW config, NEW names, NEW n \in Nat, AtMost(names, n)
    PROVE  AtMost(Ifdef(build, config, names), n)
<1>1. << >> \in Seq(Names) /\ Len(<< >>) = 0 /\ Len(names) \in Nat
  OBVIOUS
<1> QED
  BY <1>1 DEF Ifdef, AtMost

\* The entries tgid_base_stuff and tid_base_stuff share, up to mountinfo.
LEMMA MiddleAtMost == ASSUME NEW build PROVE AtMost(MiddlePart(build), 18)
<1>1. AtMost(<<"environ", "auxv", "status", "personality", "limits">>, 5)
  BY DEF AtMost, Names
<1>2. AtMost(<<"cmdline", "stat", "statm", "maps">>, 4)
  BY DEF AtMost, Names
<1>3. AtMost(<<"mem", "cwd", "root", "exe", "mounts", "mountinfo">>, 6)
  BY DEF AtMost, Names
<1>4. AtMost(<<"sched">>, 1) /\ AtMost(<<"syscall">>, 1) /\ AtMost(<<"numa_maps">>, 1)
  BY DEF AtMost, Names
<1> QED
  BY <1>1, <1>2, <1>3, <1>4, IfdefAtMost, Joined DEF MiddlePart

\* And behind it.
LEMMA LastAtMost == ASSUME NEW build PROVE AtMost(LastPart(build), 15)
<1>1. AtMost(<<"clear_refs", "smaps", "pagemap">>, 3)
  BY DEF AtMost, Names
<1>2. AtMost(<<"oom_score", "oom_adj">>, 2) /\ AtMost(<<"loginuid", "sessionid">>, 2)
  BY DEF AtMost, Names
<1>3. /\ AtMost(<<"attr">>, 1) /\ AtMost(<<"wchan">>, 1) /\ AtMost(<<"stack">>, 1)
      /\ AtMost(<<"schedstat">>, 1) /\ AtMost(<<"latency">>, 1) /\ AtMost(<<"cpuset">>, 1)
      /\ AtMost(<<"cgroup">>, 1) /\ AtMost(<<"make-it-fail">>, 1)
  BY DEF AtMost, Names
<1> QED
  BY <1>1, <1>2, <1>3, IfdefAtMost, Joined DEF LastPart

\* ARRAY_SIZE() of every table of every build.
LEMMA TableAtMost ==
    ASSUME NEW t \in Tables, NEW build
    PROVE  AtMost(Compiled(t, build), 40)
<1>1. /\ AtMost(<<"task", "fd", "fdinfo">>, 3) /\ AtMost(<<"net">>, 1)
      /\ AtMost(<<"mountstats">>, 1) /\ AtMost(<<"coredump_filter">>, 1)
      /\ AtMost(<<"io">>, 1) /\ AtMost(<<"fd", "fdinfo">>, 2)
  BY DEF AtMost, Names
<1>2. AtMost(tgid_base_stuff(build), 40)
  BY <1>1, MiddleAtMost, LastAtMost, IfdefAtMost, Joined DEF tgid_base_stuff
<1>3. AtMost(tid_base_stuff(build), 36)
  BY <1>1, MiddleAtMost, LastAtMost, IfdefAtMost, Joined DEF tid_base_stuff
<1>4. AtMost(attr_dir_stuff, 6) /\ AtMost(proc_base_stuff, 1)
  BY DEF AtMost, Names, attr_dir_stuff, proc_base_stuff
<1>5. ASSUME NEW s, NEW n \in Nat, AtMost(s, n), n <= 40 PROVE AtMost(s, 40)
  BY <1>5 DEF AtMost
<1>6. CASE t = "tgid"
  BY <1>2, <1>6 DEF Compiled
<1>7. CASE t = "tid"
  BY <1>3, <1>5, <1>7 DEF Compiled
<1>8. CASE t = "attr"
  BY <1>4, <1>5, <1>8 DEF Compiled
<1>9. CASE t = "root"
  BY <1>4, <1>5, <1>9 DEF Compiled
<1> QED
  BY <1>6, <1>7, <1>8, <1>9 DEF Tables

\* The index of any entry fits an int.
LEMMA NentsFit == TypeOK => nents \in Nat /\ nents + 3 < Wrap
<1> SUFFICES ASSUME TypeOK PROVE nents \in Nat /\ nents + 3 < Wrap
  OBVIOUS
<1>1. AtMost(ents, 40)
  BY TableAtMost DEF TypeOK, TaskTypeOK
<1> QED
  BY <1>1, WrapAssumption DEF AtMost, nents

\* f_pos and the int it is truncated to go up together below the wrap.
LEMMA TruncatedStep ==
    ASSUME NEW pos \in Nat
    PROVE  /\ Truncated(pos) \in 0 .. Wrap - 1
           /\ Truncated(pos) + 1 < Wrap => Truncated(pos + 1) = Truncated(pos) + 1
  BY WrapAssumption DEF Truncated

\* The index a position stands for is one of the table, or its end.
LEMMA CursorOf ==
    ASSUME TypeOK, NEW pos \in Nat
    PROVE  FirstIndex(pos) \in 0 .. nents
  BY NentsFit, TruncatedStep DEF FirstIndex

-----------------------------------------------------------------------------
(* The invariant.                                                          *)

\* The task goes, and entries go from the cache: no walk or listing notices.
LEMMA EnvironmentSteps ==
  ASSUME IInv, Release \/ \E n \in hash : Shrink(n)
  PROVE  IInv'
<1>1. CASE Release
  <2>1. TaskTypeOK' /\ LooksTypeOK'
    <3>1. usage' \in Int
      BY <1>1 DEF Release
    <3>2. alive' \in BOOLEAN
      BY <1>1 DEF Release
    <3> QED
      BY <1>1, <3>1, <3>2 DEF Release, table, looks, IInv, TypeOK, TaskTypeOK, LooksTypeOK
  <2>2. MutexTypeOK' /\ Roles'
    BY <1>1 DEF Release, IInv, TypeOK, MutexTypeOK, Roles
  <2>3. FilesTypeOK'
    BY <1>1 DEF Release, table, files, IInv, TypeOK, FilesTypeOK, nents
  <2>4. PassSoFar'
    BY <1>1 DEF Release, table, files, IInv, PassSoFar, PassOf, FirstIndex, nents
  <2>5. StillGone'
    BY <1>1 DEF Release, looks, IInv, StillGone
  <2> QED
    BY <2>1, <2>2, <2>3, <2>4, <2>5 DEF IInv, TypeOK
<1>2. ASSUME NEW n \in hash, Shrink(n) PROVE IInv'
  <2>1. TaskTypeOK' /\ LooksTypeOK'
    BY <1>2 DEF Shrink, table, taskVars, looks, IInv, TypeOK, TaskTypeOK, LooksTypeOK
  <2>2. MutexTypeOK' /\ Roles'
    BY <1>2 DEF Shrink, IInv, TypeOK, MutexTypeOK, Roles
  <2>3. FilesTypeOK'
    BY <1>2 DEF Shrink, table, files, IInv, TypeOK, FilesTypeOK, nents
  <2>4. PassSoFar'
    BY <1>2 DEF Shrink, table, files, IInv, PassSoFar, PassOf, FirstIndex, nents
  <2>5. StillGone'
    BY <1>2 DEF Shrink, taskVars, looks, IInv, StillGone
  <2> QED
    BY <2>1, <2>2, <2>3, <2>4, <2>5 DEF IInv, TypeOK
<1> QED
  BY <1>1, <1>2

\* Every step of proc_pident_readdir() keeps the invariant.
LEMMA ReaddirSteps ==
  ASSUME IInv, NEW r \in Readers, proc_pident_readdir(r)
  PROVE  IInv'
<1>1. ASSUME NEW pos \in Seeks, Seek(r, pos) PROVE IInv'
  <2>1. TaskTypeOK' /\ LooksTypeOK'
    BY <1>1 DEF Seek, table, taskVars, looks, IInv, TypeOK, TaskTypeOK, LooksTypeOK
  <2>2. MutexTypeOK' /\ Roles'
    BY <1>1 DEF Seek, IInv, TypeOK, MutexTypeOK, Roles
  <2>3. FilesTypeOK'
    BY <1>1, SeekAssumption, CursorOf DEF Seek, table, IInv, TypeOK, FilesTypeOK, nents
  <2>4. PassSoFar'
    <3>1. ASSUME NEW q \in Readers PROVE PassOf(q)'
      <4>1. CASE q = r
        <5>1. FirstIndex(pos) \in 0 .. nents
          BY SeekAssumption, CursorOf DEF IInv
        <5> QED
          BY <1>1, <4>1, <5>1 DEF Seek, IInv, TypeOK, FilesTypeOK, PassOf, FirstIndex,
             nents, Filling, table
      <4>2. CASE q # r
        BY <1>1, <4>2 DEF Seek, IInv, PassSoFar, PassOf, FirstIndex, nents, table
      <4> QED
        BY <4>1, <4>2
    <3> QED
      BY <3>1 DEF PassSoFar
  <2>5. StillGone'
    BY <1>1 DEF Seek, taskVars, looks, IInv, StillGone
  <2> QED
    BY <2>1, <2>2, <2>3, <2>4, <2>5 DEF IInv, TypeOK
<1>2. CASE ReaddirStart(r)
  <2>1. TaskTypeOK' /\ LooksTypeOK'
    BY <1>2 DEF ReaddirStart, table, looks, IInv, TypeOK, TaskTypeOK, LooksTypeOK
  <2>2. MutexTypeOK' /\ Roles'
    BY <1>2, NoneAssumption DEF ReaddirStart, Go, IInv, TypeOK, MutexTypeOK, Roles, Holding,
       Locked, Procs
  <2>3. FilesTypeOK'
    <3>1. f_pos[r] \in Nat /\ Truncated(f_pos[r]) \in Int
      BY TruncatedStep DEF IInv, TypeOK, FilesTypeOK
    <3> QED
      BY <1>2, <3>1 DEF ReaddirStart, files, table, IInv, TypeOK, FilesTypeOK, nents
  <2>4. PassSoFar'
    BY <1>2 DEF ReaddirStart, Go, table, files, IInv, TypeOK, FilesTypeOK, PassSoFar,
       PassOf, Filling, FirstIndex, nents
  <2>5. StillGone'
    BY <1>2, NoneAssumption DEF ReaddirStart, Go, looks, IInv, StillGone
  <2> QED
    BY <2>1, <2>2, <2>3, <2>4, <2>5 DEF IInv, TypeOK
<1>3. CASE Dots(r)
  <2>1. TaskTypeOK' /\ LooksTypeOK'
    BY <1>3 DEF Dots, Leave, table, looks, IInv, TypeOK, TaskTypeOK, LooksTypeOK
  <2>2. MutexTypeOK' /\ Roles'
    BY <1>3, NoneAssumption DEF Dots, Leave, Go, IInv, TypeOK, MutexTypeOK, Roles, Holding,
       Locked, Procs
  <2>3. FilesTypeOK'
    <3>1. (f_pos \in [Readers -> Nat] /\ idx \in [Readers -> Int])'
      BY <1>3 DEF Dots, IInv, TypeOK, FilesTypeOK
    <3>2. nents' = nents /\ (from \in [Readers -> 0 .. nents])'
      BY <1>3 DEF Dots, table, IInv, TypeOK, FilesTypeOK, nents
    <3>3. (listed \in [Readers -> SUBSET (0 .. nents - 1)])'
      BY <1>3, <3>2 DEF Dots, IInv, TypeOK, FilesTypeOK
    <3>4. (eof \in [Readers -> BOOLEAN])'
      BY <1>3 DEF Dots, IInv, TypeOK, FilesTypeOK
    <3> QED
      BY <3>1, <3>2, <3>3, <3>4 DEF FilesTypeOK
  <2>4. PassSoFar'
    <3>1. ASSUME NEW q \in Readers PROVE PassOf(q)'
      <4>1. CASE q = r
        <5>0. f_pos[r] \in Nat /\ Truncated(f_pos[r]) = idx[r] /\ idx[r] < 2 /\ nents \in Nat
          BY <1>3, NentsFit DEF Dots, IInv, TypeOK, FilesTypeOK, PassSoFar, PassOf
        <5>1. /\ f_pos[r] \in Nat /\ Truncated(f_pos[r]) = idx[r] /\ idx[r] < 2
              /\ Truncated(f_pos[r] + 1) = idx[r] + 1 /\ idx[r] >= 0 /\ nents \in Nat
          BY <5>0, TruncatedStep, WrapAssumption
        <5>2. from[r] = 0 /\ listed[r] = {} /\ (eof[r] => nents = 0)
          BY <5>1 DEF IInv, TypeOK, FilesTypeOK, PassSoFar, PassOf, FirstIndex
        <5> QED
          BY <1>3, <4>1, <5>1, <5>2 DEF Dots, Leave, Go, IInv, TypeOK, MutexTypeOK,
             FilesTypeOK, PassOf, FirstIndex, nents, Filling, table
      <4>2. CASE q # r
        BY <1>3, <4>2 DEF Dots, Leave, Go, IInv, TypeOK, MutexTypeOK, FilesTypeOK,
           PassSoFar, PassOf, FirstIndex, nents, Procs, table
      <4> QED
        BY <4>1, <4>2
    <3> QED
      BY <3>1 DEF PassSoFar
  <2>5. StillGone'
    BY <1>3 DEF Dots, Leave, Go, looks, IInv, TypeOK, MutexTypeOK, StillGone, Procs
  <2> QED
    BY <2>1, <2>2, <2>3, <2>4, <2>5 DEF IInv, TypeOK
<1>4. CASE Default(r)
  <2>1. TaskTypeOK' /\ LooksTypeOK'
    BY <1>4 DEF Default, AtEnd, Leave, table, looks, IInv, TypeOK, TaskTypeOK, LooksTypeOK
  <2>2. MutexTypeOK' /\ Roles'
    BY <1>4, NoneAssumption DEF Default, AtEnd, Leave, Go, IInv, TypeOK, MutexTypeOK, Roles,
       Holding, Locked, Filling, Procs
  <2>3. FilesTypeOK'
    <3>1. (f_pos \in [Readers -> Nat] /\ idx \in [Readers -> Int])'
      BY <1>4 DEF Default, IInv, TypeOK, FilesTypeOK
    <3>2. nents' = nents /\ (from \in [Readers -> 0 .. nents])'
      BY <1>4 DEF Default, table, IInv, TypeOK, FilesTypeOK, nents
    <3>3. (listed \in [Readers -> SUBSET (0 .. nents - 1)])'
      BY <1>4, <3>2 DEF Default, IInv, TypeOK, FilesTypeOK
    <3>4. (eof \in [Readers -> BOOLEAN])'
      BY <1>4 DEF Default, AtEnd, IInv, TypeOK, FilesTypeOK
    <3> QED
      BY <3>1, <3>2, <3>3, <3>4 DEF FilesTypeOK
  <2>4. PassSoFar'
    <3>1. ASSUME NEW q \in Readers PROVE PassOf(q)'
      <4>1. CASE q = r
        <5>1. f_pos[r] \in Nat /\ Truncated(f_pos[r]) = idx[r] /\ idx[r] >= 2 /\ nents \in Nat /\ idx[r] \in Int
          BY <1>4, NentsFit DEF Default, IInv, TypeOK, FilesTypeOK, PassSoFar, PassOf
        <5>2. FirstIndex(f_pos[r]) = IF idx[r] - 2 >= nents THEN nents ELSE idx[r] - 2
          BY <5>1 DEF FirstIndex
        <5>3. /\ from[r] <= FirstIndex(f_pos[r]) /\ listed[r] = from[r] .. FirstIndex(f_pos[r]) - 1
              /\ eof[r] => FirstIndex(f_pos[r]) = nents
          BY DEF IInv, PassSoFar, PassOf
        <5> QED
          BY <1>4, <4>1, <5>1, <5>2, <5>3 DEF Default, PastTheEnd, AtEnd, Leave, Go, IInv,
             TypeOK, MutexTypeOK, FilesTypeOK, PassOf, FirstIndex, nents, Filling, Procs,
             table
      <4>2. CASE q # r
        BY <1>4, <4>2 DEF Default, AtEnd, Leave, Go, IInv, TypeOK, MutexTypeOK, FilesTypeOK,
           PassSoFar, PassOf, FirstIndex, nents, Procs, table
      <4> QED
        BY <4>1, <4>2
    <3> QED
      BY <3>1 DEF PassSoFar
  <2>5. StillGone'
    BY <1>4 DEF Default, AtEnd, Leave, Go, looks, IInv, TypeOK, MutexTypeOK, StillGone,
       Procs
  <2> QED
    BY <2>1, <2>2, <2>3, <2>4, <2>5 DEF IInv, TypeOK
<1>5. CASE FillLookup(r)
  <2>1. TaskTypeOK' /\ LooksTypeOK'
    BY <1>5 DEF FillLookup, table, taskVars, looks, IInv, TypeOK, TaskTypeOK, LooksTypeOK
  <2>2. MutexTypeOK' /\ Roles'
    BY <1>5 DEF FillLookup, Go, IInv, TypeOK, MutexTypeOK, Roles, Holding, Locked, Filling,
       Procs
  <2>3. FilesTypeOK'
    BY <1>5 DEF FillLookup, table, files, IInv, TypeOK, FilesTypeOK, nents
  <2>4. PassSoFar'
    BY <1>5 DEF FillLookup, Go, table, files, IInv, TypeOK, MutexTypeOK, PassSoFar, PassOf,
       Filling, Procs, FirstIndex, nents
  <2>5. StillGone'
    BY <1>5 DEF FillLookup, Go, taskVars, looks, IInv, TypeOK, MutexTypeOK, StillGone, Procs
  <2> QED
    BY <2>1, <2>2, <2>3, <2>4, <2>5 DEF IInv, TypeOK
<1>6. CASE FillInstantiate(r)
  <2>1. TaskTypeOK' /\ LooksTypeOK'
    BY <1>6 DEF FillInstantiate, table, taskVars, looks, IInv, TypeOK, TaskTypeOK,
       LooksTypeOK
  <2>2. MutexTypeOK' /\ Roles'
    BY <1>6 DEF FillInstantiate, Go, IInv, TypeOK, MutexTypeOK, Roles, Holding, Locked,
       Filling, Procs
  <2>3. FilesTypeOK'
    BY <1>6 DEF FillInstantiate, table, files, IInv, TypeOK, FilesTypeOK, nents
  <2>4. PassSoFar'
    BY <1>6 DEF FillInstantiate, Go, table, files, IInv, TypeOK, MutexTypeOK, PassSoFar,
       PassOf, Filling, Procs, FirstIndex, nents
  <2>5. StillGone'
    BY <1>6 DEF FillInstantiate, Go, taskVars, looks, IInv, TypeOK, MutexTypeOK, StillGone,
       Procs
  <2> QED
    BY <2>1, <2>2, <2>3, <2>4, <2>5 DEF IInv, TypeOK
<1>7. CASE FillAdd(r)
  <2>1. TaskTypeOK' /\ LooksTypeOK'
    BY <1>7 DEF FillAdd, Hashed, table, taskVars, looks, IInv, TypeOK, TaskTypeOK,
       LooksTypeOK
  <2>2. MutexTypeOK' /\ Roles'
    BY <1>7 DEF FillAdd, Go, IInv, TypeOK, MutexTypeOK, Roles, Holding, Locked, Filling,
       Procs
  <2>3. FilesTypeOK'
    BY <1>7 DEF FillAdd, table, files, IInv, TypeOK, FilesTypeOK, nents
  <2>4. PassSoFar'
    BY <1>7 DEF FillAdd, Go, table, files, IInv, PassSoFar, PassOf, Filling, FirstIndex,
       nents
  <2>5. StillGone'
    BY <1>7 DEF FillAdd, Go, taskVars, looks, IInv, StillGone
  <2> QED
    BY <2>1, <2>2, <2>3, <2>4, <2>5 DEF IInv, TypeOK
<1>8. CASE FillCloseRace(r)
  <2>1. TaskTypeOK' /\ LooksTypeOK'
    BY <1>8 DEF FillCloseRace, Dropped, table, taskVars, looks, IInv, TypeOK, TaskTypeOK,
       LooksTypeOK
  <2>2. MutexTypeOK' /\ Roles'
    BY <1>8 DEF FillCloseRace, Go, IInv, TypeOK, MutexTypeOK, Roles, Holding, Locked,
       Filling, Procs
  <2>3. FilesTypeOK'
    BY <1>8 DEF FillCloseRace, table, files, IInv, TypeOK, FilesTypeOK, nents
  <2>4. PassSoFar'
    BY <1>8 DEF FillCloseRace, Go, table, files, IInv, PassSoFar, PassOf, Filling,
       FirstIndex, nents
  <2>5. StillGone'
    BY <1>8 DEF FillCloseRace, Go, taskVars, looks, IInv, StillGone
  <2> QED
    BY <2>1, <2>2, <2>3, <2>4, <2>5 DEF IInv, TypeOK
<1>9. CASE Emit(r)
  <2>1. TaskTypeOK' /\ LooksTypeOK'
    BY <1>9 DEF Emit, dput, AtEnd, Leave, table, looks, IInv, TypeOK, TaskTypeOK,
       LooksTypeOK
  <2>2. MutexTypeOK' /\ Roles'
    BY <1>9, NoneAssumption DEF Emit, AtEnd, Leave, Go, IInv, TypeOK, MutexTypeOK, Roles,
       Holding, Locked, Filling, Procs
  <2>3. FilesTypeOK'
    <3>1. (f_pos \in [Readers -> Nat] /\ idx \in [Readers -> Int])'
      BY <1>9 DEF Emit, MovesOn, IInv, TypeOK, FilesTypeOK
    <3>2. nents' = nents /\ (from \in [Readers -> 0 .. nents])'
      BY <1>9 DEF Emit, table, IInv, TypeOK, FilesTypeOK, nents
    <3>3. (listed \in [Readers -> SUBSET (0 .. nents - 1)])'
      BY <1>9, <3>2 DEF Emit, IInv, TypeOK, FilesTypeOK, PassSoFar, PassOf, Filling
    <3>4. (eof \in [Readers -> BOOLEAN])'
      BY <1>9 DEF Emit, AtEnd, IInv, TypeOK, FilesTypeOK
    <3> QED
      BY <3>1, <3>2, <3>3, <3>4 DEF FilesTypeOK
  <2>4. PassSoFar'
    <3>1. ASSUME NEW q \in Readers PROVE PassOf(q)'
      <4>1. CASE q = r
        <5>1. /\ f_pos[r] \in Nat /\ idx[r] \in 0 .. nents - 1 /\ nents \in Nat
              /\ Truncated(f_pos[r]) = idx[r] + 2 /\ Truncated(f_pos[r] + 1) = idx[r] + 3
          <6>1. f_pos[r] \in Nat /\ idx[r] \in 0 .. nents - 1 /\ Truncated(f_pos[r]) = idx[r] + 2
            BY <1>9 DEF Emit, IInv, TypeOK, FilesTypeOK, PassSoFar, PassOf, Filling
          <6>2. nents \in Nat /\ nents + 3 < Wrap
            BY NentsFit DEF IInv
          <6> QED
            BY <6>1, <6>2, TruncatedStep, WrapAssumption
        <5>2. FirstIndex(f_pos[r]) = idx[r] /\ FirstIndex(f_pos[r] + 1) = idx[r] + 1
          BY <5>1 DEF FirstIndex
        <5>3. from[r] <= idx[r] /\ from[r] \in Nat /\ listed[r] = from[r] .. idx[r] - 1 /\ ~ eof[r]
          BY <5>1, <5>2 DEF IInv, TypeOK, FilesTypeOK, PassSoFar, PassOf
        <5>4. listed[r] \cup {idx[r]} = from[r] .. idx[r]
          BY <5>1, <5>3
        <5>5. /\ f_pos'[r] = f_pos[r] + 1 /\ idx'[r] = idx[r] + 1 /\ nents' = nents
              /\ listed'[r] = from[r] .. idx[r] /\ from'[r] = from[r]
          BY <1>9, <5>4 DEF Emit, MovesOn, IInv, TypeOK, FilesTypeOK, nents, table
        <5>6. FirstIndex(f_pos[r])' = idx[r] + 1 /\ Truncated(f_pos[r])' = idx[r] + 3
          BY <5>1, <5>2, <5>5 DEF FirstIndex, Truncated
        <5>7. \/ pc'[r] = "fill" /\ idx[r] + 1 < nents /\ ~ eof'[r]
              \/ pc'[r] = "idle" /\ ~ (idx[r] + 1 < nents)
          BY <1>9, <5>3 DEF Emit, AtEnd, Leave, Go, IInv, TypeOK, MutexTypeOK, Procs
        <5>8. PassOf(r)'
          <6>1. /\ from'[r] <= FirstIndex(f_pos[r])'
                /\ listed'[r] = from'[r] .. FirstIndex(f_pos[r])' - 1
            BY <5>1, <5>3, <5>5, <5>6
          <6>2. pc'[r] # "switch"
            BY <5>7
          <6>3. pc'[r] \in Filling
                  => idx'[r] \in 0 .. nents' - 1 /\ Truncated(f_pos[r])' = idx'[r] + 2
            BY <5>1, <5>5, <5>6, <5>7 DEF Filling
          <6>4. eof'[r] => FirstIndex(f_pos[r])' = nents'
            BY <5>1, <5>5, <5>6, <5>7
          <6> QED
            BY <6>1, <6>2, <6>3, <6>4 DEF PassOf
        <5> QED
          BY <4>1, <5>8
      <4>2. CASE q # r
        BY <1>9, <4>2 DEF Emit, MovesOn, AtEnd, Leave, Go, IInv, TypeOK, MutexTypeOK,
           FilesTypeOK, PassSoFar, PassOf, FirstIndex, nents, Procs, table
      <4> QED
        BY <4>1, <4>2
    <3> QED
      BY <3>1 DEF PassSoFar
  <2>5. StillGone'
    BY <1>9 DEF Emit, AtEnd, Leave, Go, looks, IInv, TypeOK, MutexTypeOK, StillGone, Procs
  <2> QED
    BY <2>1, <2>2, <2>3, <2>4, <2>5 DEF IInv, TypeOK
<1>10. CASE BufferFull(r)
  <2>1. TaskTypeOK' /\ LooksTypeOK'
    BY <1>10 DEF BufferFull, dput, Leave, table, looks, IInv, TypeOK, TaskTypeOK,
       LooksTypeOK
  <2>2. MutexTypeOK' /\ Roles'
    BY <1>10, NoneAssumption DEF BufferFull, Leave, Go, IInv, TypeOK, MutexTypeOK, Roles,
       Holding, Locked, Procs
  <2>3. FilesTypeOK'
    BY <1>10 DEF BufferFull, table, files, IInv, TypeOK, FilesTypeOK, nents
  <2>4. PassSoFar'
    BY <1>10 DEF BufferFull, Leave, Go, table, files, IInv, PassSoFar, PassOf, Filling,
       FirstIndex, nents
  <2>5. StillGone'
    BY <1>10 DEF BufferFull, Leave, Go, looks, IInv, StillGone
  <2> QED
    BY <2>1, <2>2, <2>3, <2>4, <2>5 DEF IInv, TypeOK
<1> QED
  BY <1>1, <1>2, <1>3, <1>4, <1>5, <1>6, <1>7, <1>8, <1>9, <1>10 DEF proc_pident_readdir

\* Every step of a path walk keeps the invariant.
LEMMA WalkSteps ==
  ASSUME IInv, NEW l \in Lookers, PathWalk(l)
  PROVE  IInv'
<1>1. ASSUME NEW n \in Wanted, LookupStart(l, n) PROVE IInv'
  <2>1. TaskTypeOK' /\ LooksTypeOK'
    BY <1>1 DEF LookupStart, table, taskVars, IInv, TypeOK, TaskTypeOK, LooksTypeOK
  <2>2. MutexTypeOK' /\ Roles'
    BY <1>1, NoneAssumption DEF LookupStart, Go, IInv, TypeOK, MutexTypeOK, Roles, Holding,
       Locked, Filling, Procs
  <2>3. FilesTypeOK'
    BY <1>1 DEF LookupStart, table, files, IInv, TypeOK, FilesTypeOK, nents
  <2>4. PassSoFar'
    BY <1>1 DEF LookupStart, Go, table, files, IInv, PassSoFar, PassOf, Filling, FirstIndex,
       nents
  <2>5. StillGone'
    BY <1>1 DEF LookupStart, Go, taskVars, IInv, TypeOK, MutexTypeOK, LooksTypeOK,
       StillGone, Procs
  <2> QED
    BY <2>1, <2>2, <2>3, <2>4, <2>5 DEF IInv, TypeOK
<1>2. CASE Revalidate(l)
  <2>1. TaskTypeOK' /\ LooksTypeOK'
    BY <1>2 DEF Revalidate, Dropped, table, taskVars, looks, IInv, TypeOK, TaskTypeOK,
       LooksTypeOK
  <2>2. MutexTypeOK' /\ Roles'
    BY <1>2 DEF Revalidate, Go, IInv, TypeOK, MutexTypeOK, Roles, Holding, Locked, Filling,
       Procs
  <2>3. FilesTypeOK'
    BY <1>2 DEF Revalidate, table, files, IInv, TypeOK, FilesTypeOK, nents
  <2>4. PassSoFar'
    BY <1>2 DEF Revalidate, Go, table, files, IInv, TypeOK, MutexTypeOK, PassSoFar, PassOf,
       Filling, Procs, FirstIndex, nents
  <2>5. StillGone'
    BY <1>2 DEF Revalidate, Revalidates, Go, taskVars, looks, IInv, TypeOK, MutexTypeOK,
       StillGone, Procs
  <2> QED
    BY <2>1, <2>2, <2>3, <2>4, <2>5 DEF IInv, TypeOK
<1>3. CASE RealLookup(l)
  <2>1. TaskTypeOK' /\ LooksTypeOK'
    BY <1>3 DEF RealLookup, table, taskVars, looks, IInv, TypeOK, TaskTypeOK, LooksTypeOK
  <2>2. MutexTypeOK' /\ Roles'
    BY <1>3, NoneAssumption DEF RealLookup, Go, IInv, TypeOK, MutexTypeOK, Roles, Holding,
       Locked, Filling, Procs
  <2>3. FilesTypeOK'
    BY <1>3 DEF RealLookup, table, files, IInv, TypeOK, FilesTypeOK, nents
  <2>4. PassSoFar'
    BY <1>3 DEF RealLookup, Go, table, files, IInv, TypeOK, MutexTypeOK, PassSoFar, PassOf,
       Filling, Procs, FirstIndex, nents
  <2>5. StillGone'
    BY <1>3 DEF RealLookup, Go, taskVars, looks, IInv, TypeOK, MutexTypeOK, StillGone, Procs
  <2> QED
    BY <2>1, <2>2, <2>3, <2>4, <2>5 DEF IInv, TypeOK
<1>4. CASE Search(l)
  <2>1. TaskTypeOK' /\ LooksTypeOK'
    BY <1>4 DEF Search, table, looks, IInv, TypeOK, TaskTypeOK, LooksTypeOK
  <2>2. MutexTypeOK' /\ Roles'
    BY <1>4, NoneAssumption DEF Search, Go, IInv, TypeOK, MutexTypeOK, Roles, Holding,
       Locked, Filling, Procs
  <2>3. FilesTypeOK'
    BY <1>4 DEF Search, table, files, IInv, TypeOK, FilesTypeOK, nents
  <2>4. PassSoFar'
    BY <1>4 DEF Search, Go, table, files, IInv, TypeOK, MutexTypeOK, PassSoFar, PassOf,
       Filling, Procs, FirstIndex, nents
  <2>5. StillGone'
    BY <1>4 DEF Search, Go, looks, IInv, TypeOK, MutexTypeOK, StillGone, Procs
  <2> QED
    BY <2>1, <2>2, <2>3, <2>4, <2>5 DEF IInv, TypeOK
<1>5. CASE Instantiate(l)
  <2>1. TaskTypeOK' /\ LooksTypeOK'
    BY <1>5 DEF Instantiate, Leave, table, looks, IInv, TypeOK, TaskTypeOK, LooksTypeOK
  <2>2. MutexTypeOK' /\ Roles'
    BY <1>5, NoneAssumption DEF Instantiate, Leave, Go, IInv, TypeOK, MutexTypeOK, Roles,
       Holding, Locked, Filling, Procs
  <2>3. FilesTypeOK'
    BY <1>5 DEF Instantiate, table, files, IInv, TypeOK, FilesTypeOK, nents
  <2>4. PassSoFar'
    BY <1>5 DEF Instantiate, Leave, Go, table, files, IInv, TypeOK, MutexTypeOK, PassSoFar,
       PassOf, Filling, Procs, FirstIndex, nents
  <2>5. StillGone'
    BY <1>5 DEF Instantiate, Leave, Go, looks, IInv, TypeOK, MutexTypeOK, StillGone, Procs
  <2> QED
    BY <2>1, <2>2, <2>3, <2>4, <2>5 DEF IInv, TypeOK
<1>6. CASE Add(l)
  <2>1. TaskTypeOK' /\ LooksTypeOK'
    BY <1>6 DEF Add, Hashed, table, taskVars, looks, IInv, TypeOK, TaskTypeOK, LooksTypeOK
  <2>2. MutexTypeOK' /\ Roles'
    BY <1>6 DEF Add, Go, IInv, TypeOK, MutexTypeOK, Roles, Holding, Locked, Filling, Procs
  <2>3. FilesTypeOK'
    BY <1>6 DEF Add, table, files, IInv, TypeOK, FilesTypeOK, nents
  <2>4. PassSoFar'
    BY <1>6 DEF Add, Go, table, files, IInv, PassSoFar, PassOf, Filling, FirstIndex, nents
  <2>5. StillGone'
    BY <1>6 DEF Add, Go, taskVars, looks, IInv, StillGone
  <2> QED
    BY <2>1, <2>2, <2>3, <2>4, <2>5 DEF IInv, TypeOK
<1>7. CASE BaseAdd(l)
  <2>1. TaskTypeOK' /\ LooksTypeOK'
    BY <1>7 DEF BaseAdd, Hashed, table, looks, IInv, TypeOK, TaskTypeOK, LooksTypeOK
  <2>2. MutexTypeOK' /\ Roles'
    BY <1>7, NoneAssumption DEF BaseAdd, Go, IInv, TypeOK, MutexTypeOK, Roles, Holding,
       Locked, Filling, Procs
  <2>3. FilesTypeOK'
    BY <1>7 DEF BaseAdd, table, files, IInv, TypeOK, FilesTypeOK, nents
  <2>4. PassSoFar'
    BY <1>7 DEF BaseAdd, Go, table, files, IInv, PassSoFar, PassOf, Filling, FirstIndex,
       nents
  <2>5. StillGone'
    BY <1>7 DEF BaseAdd, Go, looks, IInv, StillGone
  <2> QED
    BY <2>1, <2>2, <2>3, <2>4, <2>5 DEF IInv, TypeOK
<1>8. CASE CloseRace(l)
  <2>1. TaskTypeOK' /\ LooksTypeOK'
    BY <1>8 DEF CloseRace, Dropped, table, looks, IInv, TypeOK, TaskTypeOK, LooksTypeOK
  <2>2. MutexTypeOK' /\ Roles'
    BY <1>8, NoneAssumption DEF CloseRace, Go, IInv, TypeOK, MutexTypeOK, Roles, Holding,
       Locked, Filling, Procs
  <2>3. FilesTypeOK'
    BY <1>8 DEF CloseRace, table, files, IInv, TypeOK, FilesTypeOK, nents
  <2>4. PassSoFar'
    BY <1>8 DEF CloseRace, Go, table, files, IInv, PassSoFar, PassOf, Filling, FirstIndex,
       nents
  <2>5. StillGone'
    BY <1>8 DEF CloseRace, Go, looks, IInv, StillGone
  <2> QED
    BY <2>1, <2>2, <2>3, <2>4, <2>5 DEF IInv, TypeOK
<1>9. CASE Dput(l)
  <2>1. TaskTypeOK' /\ LooksTypeOK'
    BY <1>9 DEF Dput, dput, table, taskVars, looks, IInv, TypeOK, TaskTypeOK, LooksTypeOK
  <2>2. MutexTypeOK' /\ Roles'
    BY <1>9 DEF Dput, Go, IInv, TypeOK, MutexTypeOK, Roles, Holding, Locked, Filling, Procs
  <2>3. FilesTypeOK'
    BY <1>9 DEF Dput, table, files, IInv, TypeOK, FilesTypeOK, nents
  <2>4. PassSoFar'
    BY <1>9 DEF Dput, Go, table, files, IInv, PassSoFar, PassOf, Filling, FirstIndex, nents
  <2>5. StillGone'
    BY <1>9 DEF Dput, Go, taskVars, looks, IInv, StillGone
  <2> QED
    BY <2>1, <2>2, <2>3, <2>4, <2>5 DEF IInv, TypeOK
<1> QED
  BY <1>1, <1>2, <1>3, <1>4, <1>5, <1>6, <1>7, <1>8, <1>9 DEF PathWalk, proc_pident_lookup,
     proc_base_lookup

\* Every step, and no step, keeps the invariant.
LEMMA StepIInv == IInv /\ [Next]_vars => IInv'
<1> SUFFICES ASSUME IInv, [Next]_vars PROVE IInv'
  OBVIOUS
<1>1. CASE Next
  BY <1>1, EnvironmentSteps, ReaddirSteps, WalkSteps DEF Next
<1>2. CASE UNCHANGED vars
  BY <1>2 DEF vars, table, taskVars, files, looks, IInv, TypeOK, TaskTypeOK, MutexTypeOK,
     FilesTypeOK, LooksTypeOK, Roles, PassSoFar, PassOf, StillGone, nents, FirstIndex
<1> QED
  BY <1>1, <1>2

\* The position of every reader, and what every walk may find, are as the
\* invariant says, always.
THEOREM Inductive == Spec => []IInv
<1>1. Init => IInv
  <2> SUFFICES ASSUME Init PROVE IInv
    OBVIOUS
  <2>1. TypeOK
    <3>1. TaskTypeOK /\ LooksTypeOK
      BY DEF Init, TaskTypeOK, LooksTypeOK
    <3>2. nents \in Nat
      BY <3>1 DEF nents
    <3>3. MutexTypeOK
      BY NoneAssumption DEF Init, MutexTypeOK, Procs, Locked, Holding
    <3>4. FilesTypeOK
      BY <3>2 DEF Init, FilesTypeOK
    <3> QED
      BY <3>1, <3>3, <3>4 DEF TypeOK
  <2>2. Roles /\ StillGone
    BY DEF Init, Roles, StillGone, Procs, Filling
  <2>3. PassSoFar
    <3>1. Truncated(0) = 0
      BY WrapAssumption DEF Truncated
    <3> QED
      BY <2>1, <3>1 DEF Init, PassSoFar, PassOf, FirstIndex, Filling, Procs
  <2> QED
    BY <2>1, <2>2, <2>3 DEF IInv
<1> QED
  BY <1>1, StepIInv, PTL DEF Spec

\* Wherever a reader seeks to, proc_pident_readdir() stays inside its table.
THEOREM NeverOutsideTheTable == Spec => []IndexInTable
<1>1. IInv => IndexInTable
  BY DEF IInv, Roles, PassSoFar, PassOf, IndexInTable, Holding
<1> QED
  BY <1>1, Inductive, PTL

\* A pass hands out every entry from its start on, none of them twice, cut
\* into any number of calls by full buffers.
THEOREM PassIsExact == Spec => []PassExact
<1>1. IInv => PassExact
  <2> SUFFICES ASSUME IInv, NEW r \in Readers
               PROVE  /\ pc[r] = "emit" => idx[r] \notin listed[r]
                      /\ eof[r] => listed[r] = from[r] .. nents - 1
    BY DEF PassExact
  <2>1. ASSUME pc[r] = "emit" PROVE FirstIndex(f_pos[r]) = idx[r] /\ idx[r] \in Int
    BY <2>1, NentsFit DEF IInv, PassSoFar, PassOf, FirstIndex, Filling
  <2> QED
    BY <2>1 DEF IInv, TypeOK, FilesTypeOK, PassSoFar, PassOf
<1> QED
  BY <1>1, Inductive, PTL

\* A path walk that starts after the task is gone finds nothing.
THEOREM NothingDeadFound == Spec => []NothingOfTheDead
<1>1. IInv => NothingOfTheDead
  BY DEF IInv, StillGone, NothingOfTheDead
<1> QED
  BY <1>1, Inductive, PTL

-----------------------------------------------------------------------------
(* The references to the task_struct.                                      *)

Holders == {x \in Procs : pc[x] \in Holding}

\* Who is between get_proc_task() and put_task_struct() can be counted.
LEMMA HoldersFinite == IsFiniteSet(Holders) /\ Cardinality(Holders) \in Nat
<1>1. IsFiniteSet(Procs)
  BY FiniteAssumption, FS_Union DEF Procs
<1> QED
  BY <1>1, FS_Subset, FS_CardinalityType DEF Holders

\* A step of x takes, puts or keeps the reference with its way through the code.
LEMMA Follows ==
    ASSUME TypeOK, NEW x \in Procs, NEW at, Go(x, at)
    PROVE  /\ pc[x] \in Holding /\ at \in Holding => Cardinality(Holders') = Cardinality(Holders)
           /\ pc[x] \in Holding /\ at \notin Holding => Cardinality(Holders') = Cardinality(Holders) - 1
           /\ pc[x] \notin Holding /\ at \in Holding => Cardinality(Holders') = Cardinality(Holders) + 1
           /\ pc[x] \notin Holding /\ at \notin Holding => Cardinality(Holders') = Cardinality(Holders)
<1>1. Holders' = IF at \in Holding THEN Holders \cup {x} ELSE Holders \ {x}
  BY DEF Holders, Go, TypeOK, MutexTypeOK
<1>2. x \in Holders <=> pc[x] \in Holding
  BY DEF Holders
<1> QED
  BY <1>1, <1>2, HoldersFinite, FS_AddElement, FS_RemoveElement

\* TaskCounted with the set of holders named.
LEMMA Counted ==
    TaskCounted <=> usage = Cardinality(Holders) + (IF alive THEN 1 ELSE 0)
  BY DEF TaskCounted, Holders

\* Every operation keeps the count.
LEMMA StepCounted == IInv /\ TaskCounted /\ [Next]_vars => TaskCounted'
<1> SUFFICES ASSUME IInv, TaskCounted, [Next]_vars
             PROVE  usage' = Cardinality(Holders') + (IF alive' THEN 1 ELSE 0)
  BY DEF TaskCounted, Holders
<1>0. /\ TypeOK /\ usage \in Int /\ Cardinality(Holders) \in Nat
      /\ usage = Cardinality(Holders) + (IF alive THEN 1 ELSE 0)
  BY Counted, HoldersFinite DEF IInv
<1>1. CASE Release
  <2>1. Holders' = Holders
    BY <1>1 DEF Release, Holders
  <2> QED
    BY <1>0, <1>1, <2>1 DEF Release
<1>2. CASE pc' = pc /\ UNCHANGED taskVars
  BY <1>0, <1>2 DEF taskVars, Holders
<1>3. ASSUME NEW r \in Readers, ReaddirStart(r)
      PROVE usage' = Cardinality(Holders') + (IF alive' THEN 1 ELSE 0)
  BY <1>0, <1>3, Follows DEF ReaddirStart, Holding, Procs
<1>4. ASSUME NEW r \in Readers, Dots(r)
      PROVE usage' = Cardinality(Holders') + (IF alive' THEN 1 ELSE 0)
  <2>1. CASE Leave(r)
    BY <1>0, <1>4, <2>1, Follows DEF Dots, Leave, Holding, Procs
  <2>2. CASE pc' = pc /\ usage' = usage
    BY <1>0, <1>4, <2>2 DEF Dots, Holders
  <2> QED
    BY <1>4, <2>1, <2>2 DEF Dots
<1>5. ASSUME NEW r \in Readers, Default(r)
      PROVE usage' = Cardinality(Holders') + (IF alive' THEN 1 ELSE 0)
  BY <1>0, <1>5, Follows DEF Default, AtEnd, Leave, Holding, Procs
<1>6. ASSUME NEW r \in Readers, FillLookup(r)
      PROVE usage' = Cardinality(Holders') + (IF alive' THEN 1 ELSE 0)
  BY <1>0, <1>6, Follows DEF FillLookup, Holding, Procs, taskVars
<1>7. ASSUME NEW r \in Readers, FillInstantiate(r)
      PROVE usage' = Cardinality(Holders') + (IF alive' THEN 1 ELSE 0)
  BY <1>0, <1>7, Follows DEF FillInstantiate, Holding, Procs, taskVars
<1>8. ASSUME NEW r \in Readers, FillAdd(r)
      PROVE usage' = Cardinality(Holders') + (IF alive' THEN 1 ELSE 0)
  BY <1>0, <1>8, Follows DEF FillAdd, Holding, Procs, taskVars
<1>9. ASSUME NEW r \in Readers, FillCloseRace(r)
      PROVE usage' = Cardinality(Holders') + (IF alive' THEN 1 ELSE 0)
  BY <1>0, <1>9, Follows DEF FillCloseRace, Holding, Procs, taskVars
<1>10. ASSUME NEW r \in Readers, Emit(r)
      PROVE usage' = Cardinality(Holders') + (IF alive' THEN 1 ELSE 0)
  BY <1>0, <1>10, Follows DEF Emit, AtEnd, Leave, Holding, Procs
<1>11. ASSUME NEW r \in Readers, BufferFull(r)
      PROVE usage' = Cardinality(Holders') + (IF alive' THEN 1 ELSE 0)
  BY <1>0, <1>11, Follows DEF BufferFull, Leave, Holding, Procs
<1>12. ASSUME NEW l \in Lookers, NEW n \in Wanted, LookupStart(l, n)
      PROVE usage' = Cardinality(Holders') + (IF alive' THEN 1 ELSE 0)
  BY <1>0, <1>12, Follows DEF LookupStart, Holding, Procs, taskVars
<1>13. ASSUME NEW l \in Lookers, Revalidate(l)
      PROVE usage' = Cardinality(Holders') + (IF alive' THEN 1 ELSE 0)
  BY <1>0, <1>13, Follows DEF Revalidate, Holding, Procs, taskVars
<1>14. ASSUME NEW l \in Lookers, RealLookup(l)
      PROVE usage' = Cardinality(Holders') + (IF alive' THEN 1 ELSE 0)
  BY <1>0, <1>14, Follows DEF RealLookup, Holding, Procs, taskVars
<1>15. ASSUME NEW l \in Lookers, Search(l)
      PROVE usage' = Cardinality(Holders') + (IF alive' THEN 1 ELSE 0)
  BY <1>0, <1>15, Follows DEF Search, Holding, Procs
<1>16. ASSUME NEW l \in Lookers, Instantiate(l)
      PROVE usage' = Cardinality(Holders') + (IF alive' THEN 1 ELSE 0)
  BY <1>0, <1>16, Follows DEF Instantiate, Leave, Holding, Procs
<1>17. ASSUME NEW l \in Lookers, Add(l)
      PROVE usage' = Cardinality(Holders') + (IF alive' THEN 1 ELSE 0)
  BY <1>0, <1>17, Follows DEF Add, Holding, Procs, taskVars
<1>18. ASSUME NEW l \in Lookers, BaseAdd(l)
      PROVE usage' = Cardinality(Holders') + (IF alive' THEN 1 ELSE 0)
  BY <1>0, <1>18, Follows DEF BaseAdd, Holding, Procs
<1>19. ASSUME NEW l \in Lookers, CloseRace(l)
      PROVE usage' = Cardinality(Holders') + (IF alive' THEN 1 ELSE 0)
  BY <1>0, <1>19, Follows DEF CloseRace, Holding, Procs
<1>20. ASSUME NEW l \in Lookers, Dput(l)
      PROVE usage' = Cardinality(Holders') + (IF alive' THEN 1 ELSE 0)
  BY <1>0, <1>20, Follows DEF Dput, Holding, Procs, taskVars
<1>21. CASE Next
  <2>1. CASE \E r \in Readers : proc_pident_readdir(r)
    <3>1. \A r \in Readers, pos \in Seeks : Seek(r, pos) => pc' = pc /\ UNCHANGED taskVars
      BY DEF Seek
    <3> QED
      BY <2>1, <3>1, <1>2, <1>3, <1>4, <1>5, <1>6, <1>7, <1>8, <1>9, <1>10, <1>11 DEF
         proc_pident_readdir
  <2>2. CASE \E l \in Lookers : PathWalk(l)
    BY <2>2, <1>12, <1>13, <1>14, <1>15, <1>16, <1>17, <1>18, <1>19, <1>20 DEF PathWalk,
       proc_pident_lookup, proc_base_lookup
  <2>3. CASE \E n \in hash : Shrink(n)
    BY <1>2, <2>3 DEF Shrink
  <2> QED
    BY <1>1, <1>21, <2>1, <2>2, <2>3 DEF Next
<1>22. CASE UNCHANGED vars
  BY <1>2, <1>22 DEF vars
<1> QED
  BY <1>21, <1>22

\* The task is referenced by its struct pid and by exactly the readers and walks
\* that use it.
THEOREM NoTaskLeaked == Spec => []TaskCounted
<1>1. Init => TaskCounted
  <2> SUFFICES ASSUME Init PROVE TaskCounted
    OBVIOUS
  <2>1. Holders = {}
    BY DEF Init, Holders, Holding
  <2> QED
    BY <2>1, Counted, FS_EmptySet DEF Init
<1> QED
  BY <1>1, Inductive, StepCounted, PTL DEF Spec
=============================================================================
