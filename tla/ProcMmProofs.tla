---------------------------- MODULE ProcMmProofs ----------------------------
(***************************************************************************)
(* Proofs about the handlers that look into another process's image, for   *)
(* any number of readers, images, executables, and any lengths and widths: *)
(* every way out gives back what it took, while the process forks, calls   *)
(* exec(), unmaps its executable and exits at any step.                    *)
(***************************************************************************)
EXTENDS ProcMm, FiniteSetTheorems, TLAPS

-----------------------------------------------------------------------------
(* Sets that go with a place in the code.                                  *)

\* One element comes into a set, or leaves it.
LEMMA OneMore ==
    ASSUME NEW S, NEW x, IsFiniteSet(S), NEW in \in BOOLEAN
    PROVE  Cardinality(IF in THEN S \cup {x} ELSE S \ {x})
             = Cardinality(S) + One(in) - One(x \in S)
<1>1. Cardinality(S) \in Nat
  BY FS_CardinalityType
<1>2. CASE in
  <2>1. Cardinality(S \cup {x}) = IF x \in S THEN Cardinality(S) ELSE Cardinality(S) + 1
    BY FS_AddElement
  <2> QED
    BY <1>1, <1>2, <2>1 DEF One
<1>3. CASE ~ in
  <2>1. Cardinality(S \ {x}) = IF x \in S THEN Cardinality(S) - 1 ELSE Cardinality(S)
    BY FS_RemoveElement
  <2> QED
    BY <1>1, <1>3, <2>1 DEF One
<1> QED
  BY <1>2, <1>3

\* A set of which only the membership of x changes.
LEMMA OneChanges ==
    ASSUME NEW S, NEW T, NEW x, IsFiniteSet(S), \A y : y # x => (y \in S <=> y \in T)
    PROVE  Cardinality(T) = Cardinality(S) + One(x \in T) - One(x \in S)
<1>1. T = IF x \in T THEN S \cup {x} ELSE S \ {x}
  OBVIOUS
<1>2. (x \in T) \in BOOLEAN
  OBVIOUS
<1> QED
  BY <1>1, <1>2, OneMore, Zenon

-----------------------------------------------------------------------------
(* The bookkeeping of the images.                                          *)

\* The references to an executable that are not those of images.
ImagesOf(b, f) == {m \in Mms : b.exe_file[m] = f}
Slack(b, f) == b.f_count[f] - Cardinality(ImagesOf(b, f))

\* One image turns from one executable to another, or to none, and the counts
\* of both with it.
LEMMA Retarget ==
    ASSUME NEW b \in Mem, NEW c \in Mem, NEW m \in Mms, NEW new,
           c.exe_file = [b.exe_file EXCEPT ![m] = new],
           \A f \in Exes : c.f_count[f] = b.f_count[f] + One(new = f) - One(b.exe_file[m] = f)
    PROVE  \A f \in Exes : Slack(c, f) = Slack(b, f)
<1> SUFFICES ASSUME NEW f \in Exes PROVE Slack(c, f) = Slack(b, f)
  OBVIOUS
<1>1. IsFiniteSet(ImagesOf(b, f)) /\ Cardinality(ImagesOf(b, f)) \in Int
  BY ImageAssumption, FS_Subset, FS_CardinalityType DEF ImagesOf
<1>2. \A y : y # m => (y \in ImagesOf(b, f) <=> y \in ImagesOf(c, f))
  BY DEF ImagesOf
<1>3. /\ m \in ImagesOf(c, f) <=> new = f
      /\ m \in ImagesOf(b, f) <=> b.exe_file[m] = f
  BY DEF Mem, ImagesOf
<1>4. Cardinality(ImagesOf(c, f))
        = Cardinality(ImagesOf(b, f)) + One(m \in ImagesOf(c, f)) - One(m \in ImagesOf(b, f))
  BY <1>1, <1>2, OneChanges
<1>5. b.f_count[f] \in Int
  BY DEF Mem
<1> QED
  BY <1>1, <1>3, <1>4, <1>5 DEF One, Slack

\* get_file() and fput() count, and touch nothing else.
LEMMA FileCounts ==
    ASSUME NEW b \in Mem, NEW f \in Exes, NEW c \in {get_file(b, f), fput(b, f)}
    PROVE  /\ c \in Mem
           /\ c.users = b.users /\ c.exe_file = b.exe_file /\ c.vmas = b.vmas /\ c.flags = b.flags
           /\ c = get_file(b, f) => c.f_count = [b.f_count EXCEPT ![f] = @ + 1]
           /\ c = fput(b, f) => c.f_count = [b.f_count EXCEPT ![f] = @ - 1]
<1>1. CASE c = get_file(b, f)
  BY <1>1 DEF Mem, get_file, fput
<1>2. CASE c = fput(b, f)
  BY <1>2 DEF Mem, get_file, fput
<1> QED
  BY <1>1, <1>2

\* set_mm_exe_file() takes one file and puts the other.
LEMMA SetExe ==
    ASSUME NEW b \in Mem, NEW m \in Mms, NEW new \in Exes \cup {None}
    PROVE  LET c == set_mm_exe_file(b, m, new) IN
           /\ c \in Mem
           /\ c.users = b.users /\ c.flags = b.flags
           /\ c.exe_file = [b.exe_file EXCEPT ![m] = new]
           /\ c.vmas = [b.vmas EXCEPT ![m] = 0]
           /\ \A f \in Exes : Slack(c, f) = Slack(b, f)
<1> DEFINE c == set_mm_exe_file(b, m, new)
<1> DEFINE old == b.exe_file[m]
<1> DEFINE got == IF new = None THEN b ELSE get_file(b, new)
<1> DEFINE put == IF old = None THEN got ELSE fput(got, old)
<1>a. /\ got \in Mem /\ got.users = b.users /\ got.exe_file = b.exe_file
      /\ got.vmas = b.vmas /\ got.flags = b.flags
      /\ got.f_count = IF new = None THEN b.f_count ELSE [b.f_count EXCEPT ![new] = @ + 1]
  BY FileCounts
<1>b. got.exe_file[m] = old /\ old \in Exes \cup {None}
  BY <1>a DEF Mem
<1> HIDE DEF got, old
<1>c. /\ put \in Mem /\ put.users = b.users /\ put.exe_file = b.exe_file
      /\ put.vmas = b.vmas /\ put.flags = b.flags
      /\ put.f_count = IF old = None THEN got.f_count ELSE [got.f_count EXCEPT ![old] = @ - 1]
  <2>1. CASE old = None
    BY <1>a, <2>1
  <2>2. CASE old # None
    <3>1. old \in Exes /\ put = fput(got, old)
      BY <1>b, <2>2
    <3> HIDE DEF put
    <3>2. /\ put \in Mem /\ put.users = got.users /\ put.exe_file = got.exe_file
          /\ put.vmas = got.vmas /\ put.flags = got.flags
          /\ put.f_count = [got.f_count EXCEPT ![old] = @ - 1]
      BY <1>a, <3>1, FileCounts
    <3> QED
      BY <1>a, <2>2, <3>2
  <2> QED
    BY <2>1, <2>2
<1>d. c = [put EXCEPT !.exe_file[m] = new, !.vmas[m] = 0]
  BY <1>b DEF set_mm_exe_file, got
<1> HIDE DEF put, c
<1>e. [put.exe_file EXCEPT ![m] = new] \in [Mms -> Exes \cup {None}]
      /\ [put.vmas EXCEPT ![m] = 0] \in [Mms -> 0 .. MaxVmas]
  BY <1>c, ImageAssumption DEF Mem
<1>1. /\ c \in Mem
      /\ c.users = b.users /\ c.flags = b.flags /\ c.f_count = put.f_count
      /\ c.exe_file = [b.exe_file EXCEPT ![m] = new]
      /\ c.vmas = [b.vmas EXCEPT ![m] = 0]
  BY <1>c, <1>d, <1>e DEF Mem
<1>2. \A f \in Exes : c.f_count[f] = b.f_count[f] + One(new = f) - One(old = f)
  BY <1>1, <1>a, <1>b, <1>c, ImageAssumption DEF Mem, One
<1>3. c \in Mem /\ c.exe_file = [b.exe_file EXCEPT ![m] = new]
  BY <1>1
<1>4. \A f \in Exes : Slack(c, f) = Slack(b, f)
  BY <1>2, <1>3, Retarget DEF old
<1> QED
  BY <1>1, <1>4 DEF c

\* removed_exe_file_vma() lets go of the file with the last vma.
LEMMA RemovedVma ==
    ASSUME NEW b \in Mem, NEW m \in Mms, b.vmas[m] > 0
    PROVE  LET c == removed_exe_file_vma(b, m) IN
           /\ c \in Mem
           /\ c.users = b.users /\ c.flags = b.flags
           /\ c.exe_file = [b.exe_file EXCEPT ![m] = IF b.vmas[m] = 1 THEN None ELSE @]
           /\ c.vmas = [b.vmas EXCEPT ![m] = @ - 1]
           /\ \A f \in Exes : Slack(c, f) = Slack(b, f)
<1> DEFINE c == removed_exe_file_vma(b, m)
<1> DEFINE old == b.exe_file[m]
<1> DEFINE new == IF b.vmas[m] = 1 THEN None ELSE old
<1> DEFINE d == [b EXCEPT !.vmas[m] = @ - 1]
<1>a. /\ d \in Mem /\ d.users = b.users /\ d.exe_file = b.exe_file /\ d.flags = b.flags
      /\ d.f_count = b.f_count /\ d.vmas = [b.vmas EXCEPT ![m] = @ - 1]
      /\ d.vmas[m] = 0 <=> b.vmas[m] = 1
  BY ImageAssumption DEF Mem
<1>b. d.exe_file[m] = old /\ old \in Exes \cup {None}
  BY <1>a DEF Mem
<1>c. c = IF b.vmas[m] = 1 /\ old # None THEN [fput(d, old) EXCEPT !.exe_file[m] = None] ELSE d
  BY <1>a, <1>b DEF removed_exe_file_vma
<1> HIDE DEF c, d, old
<1>1. /\ c \in Mem
      /\ c.users = b.users /\ c.flags = b.flags
      /\ c.exe_file = [b.exe_file EXCEPT ![m] = new]
      /\ c.vmas = [b.vmas EXCEPT ![m] = @ - 1]
      /\ \A f \in Exes : c.f_count[f] = b.f_count[f] + One(new = f) - One(old = f)
  <2>1. CASE b.vmas[m] = 1 /\ old # None
    <3> DEFINE p == fput(d, old)
    <3>1. /\ p \in Mem /\ p.users = d.users /\ p.exe_file = d.exe_file /\ p.vmas = d.vmas
          /\ p.flags = d.flags /\ p.f_count = [d.f_count EXCEPT ![old] = @ - 1]
      <4>1. old \in Exes /\ p = fput(d, old)
        BY <1>b, <2>1
      <4> HIDE DEF p
      <4> QED
        BY <1>a, <4>1, FileCounts
    <3> HIDE DEF p
    <3>2. /\ c \in Mem /\ c.users = p.users /\ c.flags = p.flags /\ c.vmas = p.vmas
          /\ c.f_count = p.f_count /\ c.exe_file = [p.exe_file EXCEPT ![m] = None]
      BY <1>c, <2>1, <3>1 DEF Mem, p
    <3> QED
      BY <1>a, <1>b, <2>1, <3>1, <3>2, ImageAssumption DEF Mem, One
  <2>2. CASE ~ (b.vmas[m] = 1 /\ old # None)
    BY <1>a, <1>b, <1>c, <2>2 DEF Mem, One
  <2> QED
    BY <2>1, <2>2
<1>2. \A f \in Exes : c.f_count[f] = b.f_count[f] + One(new = f) - One(old = f)
  BY <1>1
<1>3. c \in Mem /\ c.exe_file = [b.exe_file EXCEPT ![m] = new]
  BY <1>1
<1> HIDE DEF new
<1>4. \A f \in Exes : Slack(c, f) = Slack(b, f)
  BY <1>2, <1>3, Retarget DEF old
<1> QED
  BY <1>1, <1>4 DEF c, new, old

\* mmput(): one user less; with the last one the image is as new.
OneUserLess(b, c, m) ==
    /\ c \in Mem
    /\ c.users = [b.users EXCEPT ![m] = @ - 1]
    /\ c.exe_file = [b.exe_file EXCEPT ![m] = IF b.users[m] = 1 THEN None ELSE @]
    /\ c.vmas = [b.vmas EXCEPT ![m] = IF b.users[m] = 1 THEN 0 ELSE @]
    /\ c.flags = [b.flags EXCEPT ![m] = IF b.users[m] = 1 THEN {0} ELSE @]
    /\ \A f \in Exes : Slack(c, f) = Slack(b, f)

LEMMA MmputIs ==
    ASSUME NEW b \in Mem, NEW m \in Mms
    PROVE  OneUserLess(b, mmput(b, m), m)
<1> DEFINE d == [b EXCEPT !.users[m] = @ - 1]
<1> DEFINE e == exit_mmap(d, m)
<1> DEFINE s == set_mm_exe_file(e, m, None)
<1>1. /\ d \in Mem /\ d.users = [b.users EXCEPT ![m] = @ - 1]
      /\ d.exe_file = b.exe_file /\ d.vmas = b.vmas /\ d.flags = b.flags /\ d.f_count = b.f_count
      /\ d.users[m] = 0 <=> b.users[m] = 1
  BY DEF Mem
<1>2. \A f \in Exes : Slack(d, f) = Slack(b, f)
  BY <1>1 DEF Slack, ImagesOf
<1> HIDE DEF d
<1>3. /\ e \in Mem /\ e.users = d.users /\ e.flags = d.flags
      /\ \A i \in Mms \ {m} : e.exe_file[i] = d.exe_file[i] /\ e.vmas[i] = d.vmas[i]
      /\ \A f \in Exes : Slack(e, f) = Slack(d, f)
  <2>1. CASE d.vmas[m] = 0
    BY <1>1, <2>1 DEF exit_mmap
  <2>2. CASE d.vmas[m] # 0
    <3> DEFINE g == [d EXCEPT !.vmas[m] = 1]
    <3>1. /\ g \in Mem /\ g.users = d.users /\ g.flags = d.flags /\ g.exe_file = d.exe_file
          /\ g.f_count = d.f_count /\ g.vmas = [d.vmas EXCEPT ![m] = 1] /\ g.vmas[m] = 1
      BY <1>1, ImageAssumption DEF Mem
    <3>2. \A f \in Exes : Slack(g, f) = Slack(d, f)
      BY <3>1 DEF Slack, ImagesOf
    <3>3. e = removed_exe_file_vma(g, m)
      BY <2>2 DEF exit_mmap
    <3> HIDE DEF g, e
    <3>4. /\ e \in Mem /\ e.users = g.users /\ e.flags = g.flags
          /\ e.exe_file = [g.exe_file EXCEPT ![m] = IF g.vmas[m] = 1 THEN None ELSE @]
          /\ e.vmas = [g.vmas EXCEPT ![m] = @ - 1]
          /\ \A f \in Exes : Slack(e, f) = Slack(g, f)
      <4>1. g.vmas[m] > 0
        BY <3>1
      <4>2. g \in Mem
        BY <3>1
      <4> QED
        BY SMTT(20), <3>3, <4>1, <4>2, RemovedVma
    <3> QED
      BY <1>1, <3>1, <3>2, <3>4 DEF Mem
  <2> QED
    BY <2>1, <2>2
<1> HIDE DEF e
<1>4. /\ s \in Mem /\ s.users = e.users /\ s.flags = e.flags
      /\ s.exe_file = [e.exe_file EXCEPT ![m] = None] /\ s.vmas = [e.vmas EXCEPT ![m] = 0]
      /\ \A f \in Exes : Slack(s, f) = Slack(e, f)
  BY <1>3, SetExe
<1> HIDE DEF s
<1>5. CASE b.users[m] = 1
  <2> DEFINE t == [s EXCEPT !.flags[m] = {0}]
  <2>1. mmput(b, m) = t
    BY <1>1, <1>5 DEF mmput, s, e, d
  <2>a. {0} \subseteq Flags
    BY ImageAssumption DEF Flags
  <2>2. /\ t \in Mem /\ t.users = s.users /\ t.exe_file = s.exe_file /\ t.vmas = s.vmas
        /\ t.f_count = s.f_count /\ t.flags = [s.flags EXCEPT ![m] = {0}]
    BY <1>4, <2>a DEF Mem
  <2> HIDE DEF t
  <2>3. \A f \in Exes : Slack(t, f) = Slack(s, f)
    BY <2>2 DEF Slack, ImagesOf
  <2>4. s.exe_file = [b.exe_file EXCEPT ![m] = None] /\ s.vmas = [b.vmas EXCEPT ![m] = 0]
    BY <1>1, <1>3, <1>4 DEF Mem
  <2> QED
    BY <1>1, <1>2, <1>3, <1>4, <1>5, <2>1, <2>2, <2>3, <2>4 DEF OneUserLess
<1>6. CASE b.users[m] # 1
  <2>1. mmput(b, m) = d
    BY <1>1, <1>6 DEF mmput, d
  <2> QED
    BY <1>1, <1>2, <1>6, <2>1 DEF Mem, OneUserLess
<1> QED
  BY <1>5, <1>6

-----------------------------------------------------------------------------
(* One reader moves.                                                       *)

HoldsExe(r, f) == rd[r].exe = f /\ pc(r) \in {"exe_mmput", "exe_path"}

TaskUsers == {q \in Readers : HoldsTask(q)}
MmUsers(m) == {q \in Readers : HoldsMm(q) /\ rd[q].mm = m}
PageUsers == {q \in Readers : HoldsPage(q)}
PathUsers == {q \in Readers : At(q, "path")}
ExeUsers(f) == {q \in Readers : HoldsExe(q, f)}

\* Sets of readers can be counted.
LEMMA ReadersCounted ==
    ASSUME NEW S, S \subseteq Readers
    PROVE  IsFiniteSet(S) /\ Cardinality(S) \in Nat /\ (Cardinality(S) = 0 <=> S = {})
  BY ReaderAssumption, FS_Subset, FS_CardinalityType, FS_EmptySet

\* The step of r: its locals and its position, and those of nobody else.
StepOf(r) ==
    /\ rd' = [rd EXCEPT ![r] = rd'[r]] /\ rd'[r] \in Locals
    /\ f_pos' = [f_pos EXCEPT ![r] = f_pos'[r]] /\ f_pos'[r] \in Nat
    /\ UNCHANGED <<file, self>>

\* What r takes and puts in the step is what the counts go up and down by.
TaskMatched(r) ==
    usage' - One(hashed') = usage - One(hashed) + One(HoldsTask(r)') - One(HoldsTask(r))
MmMatched(r) ==
    \A m \in Mms :
      (mem.users[m] - One(mm = m) - One(child = m))'
        = mem.users[m] - One(mm = m) - One(child = m)
          + One(HoldsMm(r) /\ rd[r].mm = m)' - One(HoldsMm(r) /\ rd[r].mm = m)
PagesMatched(r) == pages' = pages + One(HoldsPage(r)') - One(HoldsPage(r))
PathsMatched(r) == paths' = paths + One(At(r, "path")') - One(At(r, "path"))
ExesMatched(r) ==
    \A f \in Exes :
      Slack(mem', f) = Slack(mem, f) + One(HoldsExe(r, f)') - One(HoldsExe(r, f))

TakesAndPuts(r) ==
    TaskMatched(r) /\ MmMatched(r) /\ PagesMatched(r) /\ PathsMatched(r) /\ ExesMatched(r)

\* Only r may come into, or leave, the sets of those who hold something.
LEMMA Moves ==
    ASSUME TypeOK, NEW r \in Readers, StepOf(r)
    PROVE  /\ Cardinality(TaskUsers')
                = Cardinality(TaskUsers) + One(HoldsTask(r)') - One(HoldsTask(r))
           /\ \A m \in Mms :
                Cardinality(MmUsers(m)')
                  = Cardinality(MmUsers(m)) + One(HoldsMm(r) /\ rd[r].mm = m)'
                      - One(HoldsMm(r) /\ rd[r].mm = m)
           /\ Cardinality(PageUsers')
                = Cardinality(PageUsers) + One(HoldsPage(r)') - One(HoldsPage(r))
           /\ Cardinality(PathUsers')
                = Cardinality(PathUsers) + One(At(r, "path")') - One(At(r, "path"))
           /\ \A f \in Exes :
                Cardinality(ExeUsers(f)')
                  = Cardinality(ExeUsers(f)) + One(HoldsExe(r, f)') - One(HoldsExe(r, f))
<1>1. \A q \in Readers : q # r => rd'[q] = rd[q] /\ file'[q] = file[q]
  BY DEF StepOf, TypeOK
<1>2. Cardinality(TaskUsers') = Cardinality(TaskUsers) + One(r \in TaskUsers') -
              One(r \in TaskUsers)
  <2>1. \A q : q # r => (q \in TaskUsers <=> q \in TaskUsers')
    BY <1>1 DEF TaskUsers, HoldsTask, pc
  <2>2. IsFiniteSet(TaskUsers)
    BY ReadersCounted DEF TaskUsers
  <2> QED
    BY <2>1, <2>2, OneChanges
<1>3. ASSUME NEW m \in Mms
      PROVE  Cardinality(MmUsers(m)')
               = Cardinality(MmUsers(m)) + One(r \in MmUsers(m)') - One(r \in MmUsers(m))
  <2>1. \A q : q # r => (q \in MmUsers(m) <=> q \in MmUsers(m)')
    BY <1>1 DEF MmUsers, HoldsMm, pc
  <2>2. IsFiniteSet(MmUsers(m))
    BY ReadersCounted DEF MmUsers
  <2> QED
    BY <2>1, <2>2, OneChanges
<1>4. Cardinality(PageUsers') = Cardinality(PageUsers) + One(r \in PageUsers') -
              One(r \in PageUsers)
  <2>1. \A q : q # r => (q \in PageUsers <=> q \in PageUsers')
    BY <1>1 DEF PageUsers, HoldsPage, pc
  <2>2. IsFiniteSet(PageUsers)
    BY ReadersCounted DEF PageUsers
  <2> QED
    BY <2>1, <2>2, OneChanges
<1>5. Cardinality(PathUsers') = Cardinality(PathUsers) + One(r \in PathUsers') -
              One(r \in PathUsers)
  <2>1. \A q : q # r => (q \in PathUsers <=> q \in PathUsers')
    BY <1>1 DEF PathUsers, At
  <2>2. IsFiniteSet(PathUsers)
    BY ReadersCounted DEF PathUsers
  <2> QED
    BY <2>1, <2>2, OneChanges
<1>6. ASSUME NEW f \in Exes
      PROVE  Cardinality(ExeUsers(f)')
               = Cardinality(ExeUsers(f)) + One(r \in ExeUsers(f)') - One(r \in ExeUsers(f))
  <2>1. \A q : q # r => (q \in ExeUsers(f) <=> q \in ExeUsers(f)')
    BY <1>1 DEF ExeUsers, HoldsExe, pc
  <2>2. IsFiniteSet(ExeUsers(f))
    BY ReadersCounted DEF ExeUsers
  <2> QED
    BY <2>1, <2>2, OneChanges
<1>7. /\ One(r \in TaskUsers) = One(HoldsTask(r)) /\ One(r \in TaskUsers') = One(HoldsTask(r)')
      /\ One(r \in PageUsers) = One(HoldsPage(r)) /\ One(r \in PageUsers') = One(HoldsPage(r)')
      /\ One(r \in PathUsers) = One(At(r, "path")) /\ One(r \in PathUsers') = One(At(r, "path")')
  BY DEF One, TaskUsers, PageUsers, PathUsers
<1>8. \A m \in Mms :
        /\ One(r \in MmUsers(m)) = One(HoldsMm(r) /\ rd[r].mm = m)
        /\ One(r \in MmUsers(m)') = One(HoldsMm(r) /\ rd[r].mm = m)'
  BY DEF MmUsers
<1>9. \A f \in Exes :
        /\ One(r \in ExeUsers(f)) = One(HoldsExe(r, f))
        /\ One(r \in ExeUsers(f)') = One(HoldsExe(r, f)')
  BY DEF One, ExeUsers
<1> QED
  BY <1>2, <1>3, <1>4, <1>5, <1>6, <1>7, <1>8, <1>9

\* The balance, with those who hold something named.
Balance ==
    /\ usage = One(hashed) + Cardinality(TaskUsers)
    /\ \A m \in Mms : mem.users[m] = One(mm = m) + One(child = m) + Cardinality(MmUsers(m))
    /\ pages = Cardinality(PageUsers)
    /\ paths = Cardinality(PathUsers)
    /\ \A f \in Exes : mem.f_count[f] = Cardinality(ImagesOf(mem, f)) + Cardinality(ExeUsers(f))

LEMMA BalanceIs == RefsBalanced /\ ExeCounted <=> Balance
  BY DEF Balance, RefsBalanced, ExeCounted, TaskUsers, MmUsers, PageUsers, PathUsers,
     ExeUsers, HoldsExe, ImagesOf

LEMMA BalanceNext == Balance' => RefsBalanced' /\ ExeCounted'
  BY DEF Balance, RefsBalanced, ExeCounted, TaskUsers, MmUsers, PageUsers, PathUsers,
     ExeUsers, HoldsExe, ImagesOf

\* The counts are numbers.
LEMMA CountsAreNumbers ==
    /\ Cardinality(TaskUsers) \in Nat /\ Cardinality(PageUsers) \in Nat
    /\ Cardinality(PathUsers) \in Nat
    /\ \A m \in Mms : Cardinality(MmUsers(m)) \in Nat
    /\ \A f \in Exes : Cardinality(ExeUsers(f)) \in Nat
    /\ \A b, f : Cardinality(ImagesOf(b, f)) \in Nat
<1>1. \A b, f : ImagesOf(b, f) \subseteq Mms
  BY DEF ImagesOf
<1>2. \A b, f : Cardinality(ImagesOf(b, f)) \in Nat
  BY <1>1, ImageAssumption, FS_Subset, FS_CardinalityType
<1> QED
  BY <1>2, ReadersCounted DEF TaskUsers, PageUsers, PathUsers, MmUsers, ExeUsers

\* A reader whose steps are matched by the counts keeps the balance.
LEMMA ReaderBalanced ==
    ASSUME TypeOK, Balance, ImageTypeOK', NEW r \in Readers, StepOf(r), TakesAndPuts(r)
    PROVE  Balance'
<1>0. \A P : One(P) \in {0, 1}
  BY DEF One
<1>1. usage' = One(hashed') + Cardinality(TaskUsers')
  <2>1. usage \in Int /\ usage' \in Int
    BY DEF TypeOK, ImageTypeOK
  <2> QED
    BY <1>0, <2>1, Moves, CountsAreNumbers DEF Balance, TakesAndPuts, TaskMatched
<1>2. pages' = Cardinality(PageUsers') /\ paths' = Cardinality(PathUsers')
  BY <1>0, Moves DEF Balance, TakesAndPuts, PagesMatched, PathsMatched
<1>3. ASSUME NEW m \in Mms
      PROVE  mem'.users[m] = One(mm' = m) + One(child' = m) + Cardinality(MmUsers(m)')
  <2>1. mem.users[m] \in Int /\ mem'.users[m] \in Int
    BY DEF TypeOK, ImageTypeOK, Mem
  <2>2. mem.users[m] = One(mm = m) + One(child = m) + Cardinality(MmUsers(m))
    BY DEF Balance
  <2>3. mem'.users[m] - One(mm' = m) - One(child' = m)
          = mem.users[m] - One(mm = m) - One(child = m)
            + One(HoldsMm(r) /\ rd[r].mm = m)' - One(HoldsMm(r) /\ rd[r].mm = m)
    BY DEF TakesAndPuts, MmMatched
  <2>4. Cardinality(MmUsers(m)') = Cardinality(MmUsers(m)) + One(HoldsMm(r) /\ rd[r].mm = m)'
                                     - One(HoldsMm(r) /\ rd[r].mm = m)
    BY Moves
  <2> QED
    BY <1>0, <2>1, <2>2, <2>3, <2>4, CountsAreNumbers
<1>4. ASSUME NEW f \in Exes
      PROVE  mem'.f_count[f] = Cardinality(ImagesOf(mem', f)) + Cardinality(ExeUsers(f)')
  <2>1. mem.f_count[f] \in Int /\ mem'.f_count[f] \in Int
    BY DEF TypeOK, ImageTypeOK, Mem
  <2>2. mem.f_count[f] = Cardinality(ImagesOf(mem, f)) + Cardinality(ExeUsers(f))
    BY DEF Balance
  <2>3. Slack(mem', f) = Slack(mem, f) + One(HoldsExe(r, f)') - One(HoldsExe(r, f))
    BY DEF TakesAndPuts, ExesMatched
  <2>4. Cardinality(ExeUsers(f)') = Cardinality(ExeUsers(f)) + One(HoldsExe(r, f)') -
                One(HoldsExe(r, f))
    BY Moves
  <2> QED
    BY <1>0, <2>1, <2>2, <2>3, <2>4, CountsAreNumbers DEF Slack
<1> QED
  BY <1>1, <1>2, <1>3, <1>4 DEF Balance

\* No reader moves, and what else holds something is matched.
LEMMA StillBalanced ==
    ASSUME TypeOK, Balance, ImageTypeOK', UNCHANGED <<file, self, pages, paths>>,
           \A q \in Readers : rd'[q].pc = rd[q].pc /\ rd'[q].mm = rd[q].mm /\
                         rd'[q].exe = rd[q].exe,
           usage' - One(hashed') = usage - One(hashed),
           \A m \in Mms : (mem.users[m] - One(mm = m) - One(child = m))'
                            = mem.users[m] - One(mm = m) - One(child = m),
           \A f \in Exes : Slack(mem', f) = Slack(mem, f)
    PROVE  Balance'
<1>0. \A P : One(P) \in {0, 1}
  BY DEF One
<1>1. /\ TaskUsers' = TaskUsers /\ PageUsers' = PageUsers /\ PathUsers' = PathUsers
      /\ \A m \in Mms : MmUsers(m)' = MmUsers(m)
      /\ \A f \in Exes : ExeUsers(f)' = ExeUsers(f)
  BY DEF TaskUsers, PageUsers, PathUsers, MmUsers, ExeUsers, HoldsTask, HoldsPage, HoldsMm,
     HoldsExe, At, pc
<1>2. usage' = One(hashed') + Cardinality(TaskUsers')
  <2>1. usage \in Int /\ usage' \in Int
    BY DEF TypeOK, ImageTypeOK
  <2> QED
    BY <1>0, <1>1, <2>1, CountsAreNumbers DEF Balance
<1>3. ASSUME NEW m \in Mms
      PROVE  mem'.users[m] = One(mm' = m) + One(child' = m) + Cardinality(MmUsers(m)')
  <2>1. mem.users[m] \in Int /\ mem'.users[m] \in Int
    BY DEF TypeOK, ImageTypeOK, Mem
  <2>2. mem.users[m] = One(mm = m) + One(child = m) + Cardinality(MmUsers(m))
    BY DEF Balance
  <2> QED
    BY <1>0, <1>1, <2>1, <2>2, CountsAreNumbers
<1>4. ASSUME NEW f \in Exes
      PROVE  mem'.f_count[f] = Cardinality(ImagesOf(mem', f)) + Cardinality(ExeUsers(f)')
  <2>1. mem.f_count[f] \in Int /\ mem'.f_count[f] \in Int
    BY DEF TypeOK, ImageTypeOK, Mem
  <2>2. mem.f_count[f] = Cardinality(ImagesOf(mem, f)) + Cardinality(ExeUsers(f))
    BY DEF Balance
  <2> QED
    BY <1>1, <2>1, <2>2, CountsAreNumbers DEF Slack
<1> QED
  BY <1>1, <1>2, <1>3, <1>4 DEF Balance


LEMMA ProcessBalanced ==
    ASSUME TypeOK, Balance, ImageTypeOK', UNCHANGED <<file, self, rd, pages, paths>>,
           usage' - One(hashed') = usage - One(hashed),
           \A m \in Mms : (mem.users[m] - One(mm = m) - One(child = m))'
                            = mem.users[m] - One(mm = m) - One(child = m),
           \A f \in Exes : Slack(mem', f) = Slack(mem, f)
    PROVE  Balance'
<1>1. \A q \in Readers : rd'[q].pc = rd[q].pc /\ rd'[q].mm = rd[q].mm /\ rd'[q].exe = rd[q].exe
  OBVIOUS
<1> QED
  BY <1>1, StillBalanced

-----------------------------------------------------------------------------
(* What all share.                                                         *)

\* An image in use has a user, and with one user left nobody else uses it.
LEMMA Pinned ==
    ASSUME TypeOK, Balance, NEW m \in Mms
    PROVE  /\ mem.users[m] = 0 => mm # m /\ child # m /\ MmUsers(m) = {}
           /\ mem.users[m] = 1 =>
                /\ mm = m => child # m /\ MmUsers(m) = {}
                /\ child = m => mm # m /\ MmUsers(m) = {}
                /\ \A r \in MmUsers(m) : mm # m /\ child # m /\ MmUsers(m) = {r}
           /\ mem.users[m] >= 0 /\ mem.users[m] \in Int
<1>1. /\ mem.users[m] = One(mm = m) + One(child = m) + Cardinality(MmUsers(m))
      /\ Cardinality(MmUsers(m)) \in Nat /\ IsFiniteSet(MmUsers(m))
      /\ Cardinality(MmUsers(m)) = 0 <=> MmUsers(m) = {}
  BY ReadersCounted DEF Balance, MmUsers
<1>2. ASSUME NEW r \in MmUsers(m)
      PROVE  /\ Cardinality(MmUsers(m)) >= 1
             /\ Cardinality(MmUsers(m)) = 1 => MmUsers(m) = {r}
  <2>1. /\ Cardinality(MmUsers(m) \ {r}) = Cardinality(MmUsers(m)) - 1
        /\ MmUsers(m) \ {r} \subseteq Readers
    BY <1>1, FS_RemoveElement DEF MmUsers
  <2>2. Cardinality(MmUsers(m) \ {r}) = 0 => MmUsers(m) \ {r} = {}
    BY <2>1, ReadersCounted
  <2> QED
    BY <1>1, <2>1, <2>2
<1> QED
  BY <1>1, <1>2 DEF One

\* A write of the filter goes on as it was, or is not watched.
FilterStays(q) ==
    (file[q] = "filter_write" /\ pc(q) \in {"bits", "mmput"} /\ rd[q].alone)'
      => /\ file[q] = "filter_write" /\ pc(q) \in {"bits", "mmput"} /\ rd[q].alone
         /\ rd'[q].mm = rd[q].mm /\ rd'[q].bit = rd[q].bit /\ rd'[q].val = rd[q].val

Shared == FlagsKept /\ FilterSoFar /\ ExeWhileMapped /\ LoadingOK /\ CopyingOK

\* The variables of the tuples.
LEMMA ImageSame ==
    /\ UNCHANGED copying => UNCHANGED <<child, forking, missing, raced>>
    /\ UNCHANGED image
         => UNCHANGED copying /\ UNCHANGED <<mm, fs, loading, cred, child, forking, missing, raced>>
    /\ UNCHANGED task
         => /\ UNCHANGED <<hashed, usage, image, copying>>
            /\ UNCHANGED <<mm, fs, loading, cred, child, forking, missing, raced>>
<1>1. UNCHANGED copying => UNCHANGED <<child, forking, missing, raced>>
  BY DEF copying
<1>2. UNCHANGED image => UNCHANGED copying /\ UNCHANGED <<mm, fs, loading, cred>>
  BY DEF image
<1>3. UNCHANGED task => UNCHANGED <<hashed, usage, image>>
  BY DEF task
<1> QED
  BY <1>1, <1>2, <1>3

\* A step that leaves the executables and the flags alone.
LEMMA SharedSame ==
    ASSUME IInv, UNCHANGED <<mm, loading, cred, copying>>, \A q \in Readers : FilterStays(q),
           mem'.flags = mem.flags, mem'.exe_file = mem.exe_file, mem'.vmas = mem.vmas,
           \A m \in Mms : mem'.users[m] = 0 => mem.users[m] = 0,
           child # None => mem'.users[child] = mem.users[child]
    PROVE  Shared'
<1>1. FlagsKept'
  BY DEF IInv, FlagsKept
<1>2. FilterSoFar'
  BY DEF IInv, FilterSoFar, FilterStays
<1>3. UNCHANGED <<child, forking, missing, raced>>
  BY ImageSame
<1>4. ExeWhileMapped'
  BY <1>3 DEF IInv, ExeWhileMapped, Mapped
<1>5. LoadingOK' /\ CopyingOK'
  BY <1>3 DEF IInv, LoadingOK, CopyingOK
<1> QED
  BY <1>1, <1>2, <1>4, <1>5 DEF Shared

\* The process and its child stay with their images, or lose them.
NoneComes ==
    /\ cred' = cred
    /\ \/ mm' = mm /\ (loading' <=> loading)
       \/ mm' = None /\ ~ loading' /\ forking = "no"
    /\ \/ UNCHANGED copying
       \/ child' = None /\ forking' = "no" /\ missing' = 0 /\ ~ raced'

\* mmput() of an image that, if this is its last user, nobody is left to use.
LEMMA SharedMmput ==
    ASSUME IInv, NEW m \in Mms, mem' = mmput(mem, m), mem.users[m] >= 1, NoneComes,
           mem.users[m] = 1 => mm' # m, m # child \/ child' = None,
           UNCHANGED copying \/ m = child,
           mem.users[m] = 1 => \A q \in Readers : ~ (HoldsMm(q)' /\ rd'[q].mm = m),
           \A q \in Readers : FilterStays(q)
    PROVE  Shared' /\ mem' \in Mem
<1>1. /\ mem' \in Mem
      /\ mem'.users = [mem.users EXCEPT ![m] = @ - 1]
      /\ mem'.exe_file = [mem.exe_file EXCEPT ![m] = IF mem.users[m] = 1 THEN None ELSE @]
      /\ mem'.vmas = [mem.vmas EXCEPT ![m] = IF mem.users[m] = 1 THEN 0 ELSE @]
      /\ mem'.flags = [mem.flags EXCEPT ![m] = IF mem.users[m] = 1 THEN {0} ELSE @]
  <2>1. mem \in Mem
    BY DEF IInv, TypeOK, ImageTypeOK
  <2>2. OneUserLess(mem, mem', m)
    BY <2>1, MmputIs
  <2> QED
    BY <2>2 DEF OneUserLess
<1>2. FlagsKept'
  BY <1>1 DEF IInv, FlagsKept
<1>3. FilterSoFar'
  <2> SUFFICES ASSUME NEW q \in Readers,
                      (file[q] = "filter_write" /\ pc(q) \in {"bits", "mmput"} /\ rd[q].alone)',
                      NEW i \in 0 .. rd'[q].bit - 1
               PROVE  (FlagOf(i) \in mem'.flags[rd'[q].mm]) <=> (i \in rd'[q].val)
    BY DEF FilterSoFar
  <2>1. /\ rd'[q].mm = rd[q].mm /\ rd'[q].bit = rd[q].bit /\ rd'[q].val = rd[q].val
        /\ HoldsMm(q) /\ HoldsMm(q)'
        /\ file[q] = "filter_write" /\ pc(q) \in {"bits", "mmput"} /\ rd[q].alone
    BY DEF FilterStays, HoldsMm
  <2>2. (FlagOf(i) \in mem.flags[rd[q].mm]) <=> (i \in rd[q].val)
    BY <2>1 DEF IInv, FilterSoFar
  <2>3. mem'.flags[rd[q].mm] = mem.flags[rd[q].mm]
    BY <1>1, <2>1
  <2> QED
    BY <2>1, <2>2, <2>3
<1>4. \/ m # child /\ UNCHANGED <<child, forking, missing, raced>>
      \/ /\ m = child /\ mem.users[m] = 1
         /\ child' = None /\ forking' = "no" /\ missing' = 0 /\ ~ raced'
  <2>1. m # None
    BY ImageAssumption
  <2>2. m = child => mem.users[m] = 1
    BY <2>1 DEF IInv, CopyingOK
  <2> QED
    BY <2>1, <2>2, ImageSame DEF NoneComes
<1>5. ASSUME NEW i \in Mms
      PROVE  /\ mem'.vmas[i] \in Nat /\ mem.vmas[i] \in Nat /\ missing \in Nat
             /\ Mapped(i)' > 0 => Mapped(i)' = Mapped(i) /\ mem'.exe_file[i] = mem.exe_file[i]
             /\ i \in {mm', child'} => Mapped(i)' = Mapped(i) /\ mem'.exe_file[i] = mem.exe_file[i]
  <2>1. mem'.vmas[i] \in Nat /\ mem.vmas[i] \in Nat /\ missing \in Nat /\ i # None
    BY <1>1, ImageAssumption DEF IInv, TypeOK, ImageTypeOK, Mem
  <2>2. CASE i # m
    <3>1. mem'.vmas[i] = mem.vmas[i] /\ mem'.exe_file[i] = mem.exe_file[i]
      BY <1>1, <2>2
    <3>2. Mapped(i)' = Mapped(i)
      BY <1>4, <2>1, <2>2, <3>1 DEF Mapped
    <3> QED
      BY <2>1, <3>1, <3>2
  <2>3. CASE i = m /\ mem.users[m] = 1
    <3>1. mem'.vmas[i] = 0 /\ i # child'
      BY <1>1, <1>4, <2>1, <2>3 DEF IInv, TypeOK, ImageTypeOK, Mem
    <3> QED
      BY <2>1, <2>3, <3>1 DEF Mapped
  <2>4. CASE i = m /\ mem.users[m] # 1
    <3>1. mem'.vmas[i] = mem.vmas[i] /\ mem'.exe_file[i] = mem.exe_file[i]
      BY <1>1, <2>4 DEF Mem
    <3> QED
      BY <1>4, <2>1, <2>4, <3>1 DEF Mapped
  <2> QED
    BY <2>2, <2>3, <2>4
<1>6. ExeWhileMapped'
  <2> SUFFICES ASSUME NEW i \in Mms
               PROVE  /\ Mapped(i)' > 0 => mem'.exe_file[i] # None
                      /\ i = mm' /\ ~ loading' /\ Mapped(i)' = 0 => mem'.exe_file[i] = None
                      /\ i = child' /\ forking' = "no" /\ ~ raced' /\ Mapped(i)' = 0
                           => mem'.exe_file[i] = None
                      /\ mem'.users[i] = 0 => mem'.exe_file[i] = None
    BY DEF ExeWhileMapped
  <2>1. /\ Mapped(i) > 0 => mem.exe_file[i] # None
        /\ i = mm /\ ~ loading /\ Mapped(i) = 0 => mem.exe_file[i] = None
        /\ i = child /\ forking = "no" /\ ~ raced /\ Mapped(i) = 0 => mem.exe_file[i] = None
        /\ mem.users[i] = 0 => mem.exe_file[i] = None
    BY DEF IInv, ExeWhileMapped
  <2>2. mem'.users[i] = 0 => mem'.exe_file[i] = None
    BY <1>1, <2>1 DEF IInv, TypeOK, ImageTypeOK, Mem
  <2>3. i # None
    BY ImageAssumption
  <2> QED
    BY <1>4, <1>5, <2>1, <2>2, <2>3 DEF NoneComes
<1>7. LoadingOK'
  BY <1>1, <1>4 DEF IInv, LoadingOK, NoneComes
<1>8. CopyingOK'
  <2>1. CASE m = child
    BY <1>4, <2>1 DEF CopyingOK
  <2>2. CASE m # child
    <3>1. UNCHANGED <<child, forking, missing, raced>>
      BY <1>4, <2>2
    <3>2. child # None => /\ mem'.users[child] = mem.users[child]
                          /\ mem'.vmas[child] = mem.vmas[child]
                          /\ mem'.exe_file[child] = mem.exe_file[child]
      BY <1>1, <2>2 DEF IInv, TypeOK, ImageTypeOK, Mem
    <3>3. forking # "no" => /\ mm' = mm /\ mm \in Mms /\ ~ loading' /\ child # None
                            /\ mem'.vmas[mm] = mem.vmas[mm] /\ mem'.exe_file[mm] = mem.exe_file[mm]
      BY <1>1, ImageAssumption DEF NoneComes, IInv, CopyingOK, TypeOK, ImageTypeOK, Mem
    <3> QED
      BY <3>1, <3>2, <3>3 DEF IInv, CopyingOK
  <2> QED
    BY <2>1, <2>2
<1> QED
  BY <1>1, <1>2, <1>3, <1>6, <1>7, <1>8 DEF Shared

-----------------------------------------------------------------------------
(* What the process does.                                                  *)

\* What follows from the invariant, in the forms the steps use.
LEMMA FromIInv ==
    ASSUME IInv
    PROVE  /\ TypeOK /\ ImageTypeOK /\ mem \in Mem /\ Balance
           /\ mm \in Mms \cup {None} /\ child \in Mms \cup {None}
           /\ \A m \in Mms : MmUsers(m) = {} <=> \A q \in Readers : ~ (HoldsMm(q) /\ rd[q].mm = m)
  BY BalanceIs DEF IInv, TypeOK, ImageTypeOK, MmUsers

\* No reader moves: what it has done so far stays as it is.
LEMMA ProcessStep ==
    ASSUME IInv, UNCHANGED <<file, self, f_pos, old_exec, rd, pages, paths>>,
           tracer' \in Readers \cup {None}, ImageTypeOK', Shared', Balance'
    PROVE  IInv'
<1>1. TypeOK'
  BY DEF IInv, TypeOK
<1>2. \A r \in Readers : LocalsOK(r)'
  BY DEF IInv, LocalsOK, PlaceOK, CopiedSoFar, Near, HoldsMm, At, pc
<1>3. MapsPermitted' /\ PositionExact' /\ CmdlineInPage'
  BY DEF IInv, MapsPermitted, PositionExact, Near, CmdlineInPage, HoldsMm, At, pc
<1> QED
  BY <1>1, <1>2, <1>3, BalanceNext DEF IInv, Shared

\* A filter write goes on while no reader moves.
LEMMA FilterQuiet == UNCHANGED <<file, rd>> => \A q \in Readers : FilterStays(q)
  BY DEF FilterStays, pc

\* fork() copies the mm_struct.
LEMMA ForkStep ==
    ASSUME IInv, NEW m \in Mms, Fork(m), UNCHANGED reader
    PROVE  IInv'
<1>0. /\ TypeOK /\ mem \in Mem /\ Balance /\ mem.users[m] = 0 /\ mm \in Mms /\ child = None
      /\ m # mm /\ MmUsers(m) = {} /\ m # None
  BY FromIInv, Pinned, ImageAssumption DEF Fork, Free
<1>1. /\ mem' \in Mem
      /\ mem'.users = [mem.users EXCEPT ![m] = 1]
      /\ mem'.exe_file = mem.exe_file
      /\ mem'.vmas = [mem.vmas EXCEPT ![m] = mem.vmas[mm]]
      /\ mem'.flags = [mem.flags EXCEPT ![m] = mem.flags[mm]]
      /\ mem'.f_count = mem.f_count
  <2>1. /\ [mem.users EXCEPT ![m] = 1] \in [Mms -> Int]
        /\ [mem.vmas EXCEPT ![m] = mem.vmas[mm]] \in [Mms -> 0 .. MaxVmas]
        /\ [mem.flags EXCEPT ![m] = mem.flags[mm]] \in [Mms -> SUBSET Flags]
    BY <1>0 DEF Mem
  <2> QED
    BY <1>0, <2>1 DEF Fork, Mem
<1>2. mem.exe_file[m] = None
  BY <1>0 DEF IInv, ExeWhileMapped
<1>3. /\ UNCHANGED <<hashed, usage, mm, fs, loading, cred>> /\ ~ loading
      /\ child' = m /\ forking' = "exe" /\ missing' = mem.vmas[mm] /\ ~ raced' /\ raced' \in BOOLEAN
  BY DEF Fork
<1>4. mem.vmas[mm] \in 0 .. MaxVmas /\ mem'.vmas[m] = mem.vmas[mm] /\ mem'.vmas[mm] = mem.vmas[mm]
      /\ mem'.users[m] = 1 /\ mem'.exe_file[m] = None
  BY <1>0, <1>1, <1>2 DEF Mem
<1>5. \A g \in Exes : Slack(mem', g) = Slack(mem, g)
  BY <1>1 DEF Slack, ImagesOf
<1>6. ImageTypeOK'
  <2>1. forking' \in {"no", "exe", "vmas"}
    BY <1>3
  <2> QED
    BY <1>0, <1>1, <1>3, <1>4, <2>1 DEF TypeOK, ImageTypeOK
<1>7. Balance'
  <2>1. \A i \in Mms : (mem.users[i] - One(mm = i) - One(child = i))'
                         = mem.users[i] - One(mm = i) - One(child = i)
    BY <1>0, <1>1, <1>3, ImageAssumption DEF Mem, One
  <2> QED
    BY <1>0, <1>3, <1>5, <1>6, <2>1, ProcessBalanced DEF reader
<1>8. Shared'
  <2>1. FlagsKept'
    BY <1>0, <1>1 DEF IInv, FlagsKept
  <2>2. FilterSoFar'
    <3> SUFFICES ASSUME NEW q \in Readers,
                        file[q] = "filter_write", pc(q) \in {"bits", "mmput"}, rd[q].alone,
                        NEW i \in 0 .. rd[q].bit - 1
                 PROVE  (FlagOf(i) \in mem'.flags[rd[q].mm]) <=> (i \in rd[q].val)
      BY DEF FilterSoFar, reader, pc
    <3>1. rd[q].mm \in Mms \ {m}
      BY <1>0 DEF IInv, LocalsOK, PlaceOK, HoldsMm, MmUsers
    <3> QED
      BY <1>0, <1>1, <3>1 DEF IInv, FilterSoFar
  <2>3. ExeWhileMapped'
    <3>1. Mapped(m)' = 0
      BY <1>3, <1>4 DEF Mapped
    <3>2. \A i \in Mms \ {m} :
            /\ Mapped(i)' = Mapped(i) /\ mem'.exe_file[i] = mem.exe_file[i]
            /\ mem'.users[i] = mem.users[i]
      BY <1>0, <1>1, <1>3, ImageAssumption DEF Mapped, Mem
    <3> QED
      BY <1>0, <1>3, <1>4, <3>1, <3>2 DEF IInv, ExeWhileMapped
  <2>4. LoadingOK'
    BY <1>0, <1>1, <1>3 DEF IInv, LoadingOK
  <2>5. CopyingOK'
    <3>1. mm # None /\ mem.vmas[mm] <= mem.vmas[mm]
      BY <1>0, <1>4, ImageAssumption
    <3>2. mm' # None /\ ~ loading'
      BY <1>3, <3>1
    <3> QED
      BY <1>0, <1>3, <1>4, <3>1, <3>2 DEF CopyingOK
  <2> QED
    BY <2>1, <2>2, <2>3, <2>4, <2>5 DEF Shared
<1> QED
  BY <1>6, <1>7, <1>8, ProcessStep DEF reader, IInv, TypeOK

\* dup_mm_exe_file(), while fork() is under way.
LEMMA ForkExeStep ==
    ASSUME IInv, ForkExe, UNCHANGED reader
    PROVE  IInv'
<1>0. /\ TypeOK /\ mem \in Mem /\ Balance /\ mm \in Mms /\ child \in Mms /\ mm # child
      /\ mem.exe_file[child] = None /\ ~ loading /\ forking = "exe"
      /\ missing = mem.vmas[child] /\ mem.vmas[child] \in Nat /\ mem.vmas[mm] \in Nat
  BY FromIInv, ImageAssumption DEF ForkExe, IInv, CopyingOK, LoadingOK, Mem
<1> DEFINE f == mem.exe_file[mm]
<1> DEFINE got == IF f = None THEN mem ELSE get_file(mem, f)
<1>a. f \in Exes \cup {None}
  BY <1>0 DEF Mem
<1>1. /\ got \in Mem /\ got.users = mem.users /\ got.exe_file = mem.exe_file
      /\ got.vmas = mem.vmas /\ got.flags = mem.flags
      /\ got.f_count = IF f = None THEN mem.f_count ELSE [mem.f_count EXCEPT ![f] = @ + 1]
  BY <1>0, <1>a, FileCounts
<1>2. mem' = [got EXCEPT !.exe_file[child] = f]
  BY DEF ForkExe, dup_mm_exe_file
<1> HIDE DEF got, f
<1>3. /\ mem' \in Mem /\ mem'.exe_file = [mem.exe_file EXCEPT ![child] = f]
      /\ mem'.users = mem.users /\ mem'.vmas = mem.vmas /\ mem'.flags = mem.flags
      /\ mem'.f_count = got.f_count
  <2>1. [mem.exe_file EXCEPT ![child] = f] \in [Mms -> Exes \cup {None}]
    BY <1>0, <1>a DEF Mem
  <2> QED
    BY <1>0, <1>1, <1>2, <2>1 DEF Mem
<1>4. /\ UNCHANGED <<hashed, usage, mm, fs, loading, cred, child, missing, raced>>
      /\ forking' = "vmas"
  BY DEF ForkExe
<1>5. \A g \in Exes : Slack(mem', g) = Slack(mem, g)
  <2>1. \A g \in Exes :
          mem'.f_count[g] = mem.f_count[g] + One(f = g) - One(mem.exe_file[child] = g)
    BY <1>0, <1>1, <1>3, <1>a, ImageAssumption DEF Mem, One
  <2>2. mem' \in Mem /\ mem'.exe_file = [mem.exe_file EXCEPT ![child] = f]
    BY <1>3
  <2> QED
    BY SMTT(20), <1>0, <2>1, <2>2, Retarget
<1>6. ImageTypeOK'
  <2>1. forking' \in {"no", "exe", "vmas"}
    BY <1>4
  <2> QED
    BY <1>0, <1>3, <1>4, <2>1 DEF TypeOK, ImageTypeOK
<1>7. Balance'
  BY <1>0, <1>3, <1>4, <1>5, <1>6, ProcessBalanced DEF reader
<1>8. Shared'
  <2>1. FlagsKept' /\ FilterSoFar'
    BY <1>3 DEF IInv, FlagsKept, FilterSoFar, reader, pc
  <2>2. ExeWhileMapped'
    <3>1. \A i \in Mms : Mapped(i)' = Mapped(i)
      BY <1>3, <1>4 DEF Mapped
    <3>2. Mapped(child) = 0 /\ mem.users[child] # 0
      BY <1>0, ImageAssumption DEF IInv, CopyingOK, Mapped
    <3>3. \A i \in Mms \ {child} : mem'.exe_file[i] = mem.exe_file[i]
      BY <1>0, <1>3 DEF Mem
    <3> QED
      BY <1>0, <1>3, <1>4, <3>1, <3>2, <3>3 DEF IInv, ExeWhileMapped
  <2>3. LoadingOK'
    BY <1>0, <1>3, <1>4 DEF IInv, LoadingOK
  <2>4. CopyingOK'
    <3>1. mem'.exe_file[child] = mem.exe_file[mm] /\ mem'.exe_file[mm] = mem.exe_file[mm]
      BY <1>0, <1>3 DEF Mem, f
    <3>2. mem.vmas[mm] > 0 => mem.exe_file[mm] # None
      BY <1>0 DEF IInv, ExeWhileMapped, Mapped
    <3> QED
      BY <1>0, <1>3, <1>4, <3>1, <3>2 DEF IInv, CopyingOK
  <2> QED
    BY <2>1, <2>2, <2>3, <2>4 DEF Shared
<1> QED
  BY <1>6, <1>7, <1>8, ProcessStep DEF reader, IInv, TypeOK

\* dup_mmap()
LEMMA ForkVmasStep ==
    ASSUME IInv, ForkVmas(Busy), UNCHANGED reader
    PROVE  IInv'
<1>0. /\ TypeOK /\ mem \in Mem /\ Balance /\ mm \in Mms /\ child \in Mms /\ mm # child
      /\ ~ loading /\ forking = "vmas" /\ mem.vmas[mm] <= mem.vmas[child]
      /\ mem.vmas[child] \in 0 .. MaxVmas /\ mem.vmas[mm] \in 0 .. MaxVmas
  BY FromIInv, ImageAssumption DEF ForkVmas, IInv, CopyingOK, LoadingOK, Mem
<1>1. /\ UNCHANGED <<hashed, usage, mm, fs, loading, cred, child, raced, mem>>
      /\ forking' = "no" /\ missing' = mem.vmas[child] - mem.vmas[mm]
  BY <1>0 DEF ForkVmas, Mapped
<1>2. ImageTypeOK'
  <2>1. forking' \in {"no", "exe", "vmas"}
    BY <1>1
  <2>2. missing' \in 0 .. MaxVmas
    BY <1>0, <1>1, ImageAssumption
  <2> QED
    BY <1>0, <1>1, <2>1, <2>2 DEF TypeOK, ImageTypeOK
<1>3. Balance'
  BY <1>0, <1>1, <1>2, ProcessBalanced DEF reader
<1>4. FlagsKept' /\ FilterSoFar' /\ LoadingOK'
  BY <1>1 DEF IInv, FlagsKept, FilterSoFar, LoadingOK, reader, pc
<1>5. ExeWhileMapped'
  <2>1. \A i \in Mms \ {child} : Mapped(i)' = Mapped(i)
    BY <1>1 DEF Mapped
  <2>2. Mapped(child)' = mem.vmas[mm]
    BY <1>0, <1>1 DEF Mapped
  <2>3. Mapped(mm) = mem.vmas[mm]
    BY <1>0 DEF Mapped
  <2>4. /\ mem.vmas[mm] > 0 => mem.exe_file[child] # None
        /\ ~ raced => mem.exe_file[child] = mem.exe_file[mm]
    BY <1>0 DEF IInv, CopyingOK
  <2>5. mem.vmas[mm] = 0 => mem.exe_file[mm] = None
    BY <1>0, <2>3 DEF IInv, ExeWhileMapped
  <2> QED
    BY <1>0, <1>1, <2>1, <2>2, <2>4, <2>5 DEF IInv, ExeWhileMapped
<1>6. CopyingOK'
  BY <1>0, <1>1 DEF IInv, CopyingOK
<1> QED
  BY <1>2, <1>3, <1>4, <1>5, <1>6, ProcessStep DEF reader, Shared, IInv, TypeOK

\* exec(): a new image with the executable, and mmput() of the old one.
LEMMA ExecStep ==
    ASSUME IInv, NEW m \in Mms, NEW f \in Exes, Exec(m, f), UNCHANGED reader
    PROVE  IInv'
<1>0. /\ TypeOK /\ mem \in Mem /\ Balance /\ mem.users[m] = 0 /\ mm \in Mms
      /\ m # mm /\ m # child /\ MmUsers(m) = {} /\ m # None
  BY FromIInv, Pinned, ImageAssumption DEF Exec, Free
<1> DEFINE s == set_mm_exe_file(mem, m, f)
<1> DEFINE t == [s EXCEPT !.users[m] = 1, !.flags[m] = mem.flags[mm]]
<1>1. /\ s \in Mem /\ s.users = mem.users /\ s.flags = mem.flags
      /\ s.exe_file = [mem.exe_file EXCEPT ![m] = f]
      /\ s.vmas = [mem.vmas EXCEPT ![m] = 0]
      /\ \A g \in Exes : Slack(s, g) = Slack(mem, g)
  BY <1>0, SetExe
<1> HIDE DEF s
<1>2. /\ t \in Mem /\ t.users = [mem.users EXCEPT ![m] = 1]
      /\ t.flags = [mem.flags EXCEPT ![m] = mem.flags[mm]]
      /\ t.exe_file = s.exe_file /\ t.vmas = s.vmas /\ t.f_count = s.f_count
  <2>1. /\ [mem.users EXCEPT ![m] = 1] \in [Mms -> Int]
        /\ [mem.flags EXCEPT ![m] = mem.flags[mm]] \in [Mms -> SUBSET Flags]
    BY <1>0 DEF Mem
  <2> QED
    BY <1>1, <2>1 DEF Mem
<1>3. mem' = mmput(t, mm)
  BY DEF Exec, s
<1> HIDE DEF t
<1>4. /\ mem' \in Mem
      /\ mem'.users = [t.users EXCEPT ![mm] = @ - 1]
      /\ mem'.exe_file = [t.exe_file EXCEPT ![mm] = IF t.users[mm] = 1 THEN None ELSE @]
      /\ mem'.vmas = [t.vmas EXCEPT ![mm] = IF t.users[mm] = 1 THEN 0 ELSE @]
      /\ mem'.flags = [t.flags EXCEPT ![mm] = IF t.users[mm] = 1 THEN {0} ELSE @]
      /\ \A g \in Exes : Slack(mem', g) = Slack(t, g)
  <2>1. t \in Mem /\ mm \in Mms
    BY <1>0, <1>2
  <2>2. OneUserLess(t, mem', mm)
    BY <1>3, <2>1, MmputIs
  <2> QED
    BY <2>2 DEF OneUserLess
<1>5. \A g \in Exes : Slack(mem', g) = Slack(mem, g)
  <2>1. \A g \in Exes : Slack(t, g) = Slack(s, g)
    BY <1>2 DEF Slack, ImagesOf
  <2> QED
    BY <1>1, <1>4, <2>1
<1>b. /\ UNCHANGED <<hashed, usage, fs, cred, child, forking, missing, raced>>
      /\ mm' = m /\ loading' /\ loading' \in BOOLEAN /\ forking = "no"
  BY ImageSame DEF Exec
<1>6. ImageTypeOK'
  BY <1>0, <1>4, <1>b DEF TypeOK, ImageTypeOK
<1>7. Balance'
  <2>1. \A i \in Mms : (mem.users[i] - One(mm = i) - One(child = i))'
                         = mem.users[i] - One(mm = i) - One(child = i)
    BY <1>0, <1>2, <1>4, <1>b DEF Mem, One
  <2> QED
    BY <1>0, <1>5, <1>6, <1>b, <2>1, ProcessBalanced DEF reader
<1>8. Shared'
  <2>1. FlagsKept'
    BY <1>0, <1>2, <1>4 DEF IInv, FlagsKept, Mem
  <2>2. FilterSoFar'
    <3> SUFFICES ASSUME NEW q \in Readers,
                        file[q] = "filter_write", pc(q) \in {"bits", "mmput"}, rd[q].alone,
                        NEW i \in 0 .. rd[q].bit - 1
                 PROVE  (FlagOf(i) \in mem'.flags[rd[q].mm]) <=> (i \in rd[q].val)
      BY DEF FilterSoFar, reader, pc
    <3>1. HoldsMm(q) /\ rd[q].mm \in Mms \ {m}
      BY <1>0 DEF IInv, LocalsOK, PlaceOK, HoldsMm, MmUsers
    <3>2. rd[q].mm = mm => mem.users[mm] # 1
      BY <1>0, <3>1, Pinned DEF MmUsers
    <3> QED
      BY <1>0, <1>2, <1>4, <3>1, <3>2 DEF IInv, FilterSoFar, Mem
  <2>3. /\ mm # child /\ mem'.vmas[m] = 0 /\ mem'.exe_file[m] = f /\ f # None
        /\ \A i \in Mms \ {m, mm} : /\ mem'.vmas[i] = mem.vmas[i] /\ mem'.users[i] = mem.users[i]
                                     /\ mem'.exe_file[i] = mem.exe_file[i]
        /\ \/ mem'.vmas[mm] = 0 /\ mem'.exe_file[mm] = None
           \/ /\ mem'.vmas[mm] = mem.vmas[mm] /\ mem'.exe_file[mm] = mem.exe_file[mm]
              /\ mem'.users[mm] # 0
    <3>1. mm # child
      BY <1>0, ImageAssumption DEF IInv, LoadingOK
    <3> QED
      BY <1>0, <1>1, <1>2, <1>4, <3>1, ImageAssumption DEF Mem
  <2>4. ExeWhileMapped'
    <3>1. /\ Mapped(m)' = 0
          /\ \A i \in Mms \ {m, mm} : Mapped(i)' = Mapped(i)
          /\ \A i \in Mms : i = mm =>
               \/ Mapped(i)' = 0 /\ mem'.exe_file[i] = None
               \/ /\ Mapped(i)' = Mapped(i) /\ mem'.exe_file[i] = mem.exe_file[i]
                  /\ mem'.users[i] # 0
      BY <1>0, <1>b, <2>3 DEF Mapped
    <3>2. mem'.users[m] = 1
      BY <1>0, <1>2, <1>4 DEF Mem
    <3> SUFFICES ASSUME NEW i \in Mms
                 PROVE  /\ Mapped(i)' > 0 => mem'.exe_file[i] # None
                        /\ ~ (i = mm' /\ ~ loading')
                        /\ i = child' /\ forking' = "no" /\ ~ raced' /\ Mapped(i)' = 0
                             => mem'.exe_file[i] = None
                        /\ mem'.users[i] = 0 => mem'.exe_file[i] = None
      BY DEF ExeWhileMapped
    <3>3. /\ Mapped(i) > 0 => mem.exe_file[i] # None
          /\ i = child /\ forking = "no" /\ ~ raced /\ Mapped(i) = 0 => mem.exe_file[i] = None
          /\ mem.users[i] = 0 => mem.exe_file[i] = None
      BY DEF IInv, ExeWhileMapped
    <3>4. CASE i = m
      BY <1>0, <1>b, <3>1, <3>2, <3>4
    <3>5. CASE i = mm
      BY <1>0, <1>b, <2>3, <3>1, <3>3, <3>5
    <3>6. CASE i \notin {m, mm}
      BY <1>0, <1>b, <2>3, <3>1, <3>3, <3>6
    <3> QED
      BY <3>4, <3>5, <3>6
  <2>5. LoadingOK'
    BY <1>0, <1>b, <2>3 DEF LoadingOK
  <2>6. CopyingOK'
    BY <1>0, <1>b, <2>3, ImageAssumption DEF IInv, TypeOK, ImageTypeOK, CopyingOK
  <2> QED
    BY <2>1, <2>2, <2>4, <2>5, <2>6 DEF Shared
<1> QED
  BY <1>6, <1>7, <1>8, ProcessStep DEF reader, IInv, TypeOK

\* The loader maps the executable, munmap() takes a mapping away, exec() ends.
LEMMA MappingSteps ==
    ASSUME IInv, UNCHANGED reader,
           ExecMap(Busy) \/ ExecCreds \/ ExecDone \/ \E m \in Mms : Unmap(m, Busy)
    PROVE  IInv'
<1>0. TypeOK /\ mem \in Mem /\ Balance /\ mm \in Mms \cup {None}
  BY FromIInv
<1>1. CASE ExecMap(Busy)
  <2>1. /\ mem' \in Mem /\ mem'.users = mem.users /\ mem'.flags = mem.flags
        /\ mem'.exe_file = mem.exe_file /\ mem'.f_count = mem.f_count
        /\ mem'.vmas = [mem.vmas EXCEPT ![mm] = @ + 1] /\ mm \in Mms
    BY <1>0, <1>1, ImageAssumption DEF ExecMap, added_exe_file_vma, Mem, IInv, LoadingOK
  <2>a. /\ UNCHANGED <<hashed, usage, mm, fs, loading, cred, child, forking, missing, raced>>
        /\ loading /\ mm # child /\ mem.exe_file[mm] # None
    BY <1>1, <2>1, ImageSame, ImageAssumption DEF ExecMap, IInv, LoadingOK
  <2>2. ImageTypeOK'
    BY <1>0, <2>1, <2>a DEF TypeOK, ImageTypeOK
  <2>3. Balance'
    <3>1. \A g \in Exes : Slack(mem', g) = Slack(mem, g)
      BY <2>1 DEF Slack, ImagesOf
    <3> QED
      BY <1>0, <2>1, <2>2, <2>a, <3>1, ProcessBalanced DEF reader
  <2>4. FlagsKept' /\ FilterSoFar'
    BY <2>1 DEF IInv, FlagsKept, FilterSoFar, reader, pc
  <2>5. ExeWhileMapped' /\ LoadingOK'
    <3>1. \A i \in Mms \ {mm} : Mapped(i)' = Mapped(i)
      BY <1>0, <2>1, <2>a DEF Mapped, Mem
    <3> QED
      BY <1>0, <2>1, <2>a, <3>1 DEF IInv, ExeWhileMapped, LoadingOK
  <2>6. CopyingOK'
    BY <1>0, <2>1, <2>a, ImageAssumption DEF IInv, TypeOK, ImageTypeOK, CopyingOK, Mem
  <2> QED
    BY <2>2, <2>3, <2>4, <2>5, <2>6, ProcessStep DEF reader, Shared, IInv, TypeOK
<1>4. CASE ExecCreds
  <2>1. /\ UNCHANGED <<hashed, usage, mm, fs, loading, child, forking, missing, raced, mem>>
        /\ cred' = mm /\ mm \in Mms
    BY <1>0, <1>4, ImageSame DEF ExecCreds, IInv, LoadingOK
  <2>2. ImageTypeOK'
    BY <1>0, <2>1 DEF TypeOK, ImageTypeOK
  <2>3. Balance'
    BY <1>0, <2>1, <2>2, ProcessBalanced DEF reader
  <2>4. FlagsKept' /\ FilterSoFar'
    BY <2>1 DEF IInv, FlagsKept, FilterSoFar, reader, pc
  <2>5. ExeWhileMapped' /\ LoadingOK' /\ CopyingOK'
    BY <2>1 DEF IInv, ExeWhileMapped, LoadingOK, CopyingOK, Mapped
  <2> QED
    BY <2>2, <2>3, <2>4, <2>5, ProcessStep DEF reader, Shared, IInv, TypeOK
<1>2. CASE ExecDone
  <2>1. /\ UNCHANGED <<hashed, usage, mm, fs, cred, child, forking, missing, raced, mem>>
        /\ ~ loading' /\ loading /\ loading' \in BOOLEAN
        /\ mm \in Mms /\ cred = mm /\ mem.vmas[mm] > 0 /\ mm # child
    BY <1>0, <1>2, ImageSame, ImageAssumption DEF ExecDone, IInv, LoadingOK
  <2>a. ImageTypeOK'
    BY <1>0, <2>1 DEF TypeOK, ImageTypeOK
  <2>2. Balance'
    BY <1>0, <2>1, <2>a, ProcessBalanced DEF reader
  <2>3. FlagsKept' /\ FilterSoFar'
    BY <2>1 DEF IInv, FlagsKept, FilterSoFar, reader, pc
  <2>4. ExeWhileMapped'
    <3>1. (\A i \in Mms : Mapped(i)' = Mapped(i)) /\ Mapped(mm) > 0
      BY <1>0, <2>1 DEF Mapped, Mem
    <3> QED
      BY <2>1, <3>1 DEF IInv, ExeWhileMapped
  <2>5. LoadingOK' /\ CopyingOK'
    BY <2>1 DEF IInv, LoadingOK, CopyingOK
  <2> QED
    BY <2>a, <2>2, <2>3, <2>4, <2>5, ProcessStep DEF reader, Shared, IInv, TypeOK
<1>3. ASSUME NEW m \in Mms, Unmap(m, Busy) PROVE IInv'
  <2>0. /\ m # None /\ m \in {mm, child} /\ ~ loading /\ Mapped(m) > 0
        /\ mem.vmas[m] \in Nat /\ missing \in Nat /\ raced \in BOOLEAN /\ (mm = None \/ mm # child)
        /\ UNCHANGED <<hashed, usage, mm, fs, loading, cred, child, forking, missing>>
        /\ raced' = (raced \/ (m = mm /\ forking # "no"))
    BY <1>0, <1>3, ImageAssumption DEF Unmap, IInv, LoadingOK, TypeOK, ImageTypeOK, Mem
  <2>a. /\ mem.vmas[m] > 0 /\ (m = child => mem.vmas[m] > missing)
        /\ (m # child => Mapped(m) = mem.vmas[m])
    BY <2>0 DEF Mapped
  <2>1. /\ mem' \in Mem /\ mem'.users = mem.users /\ mem'.flags = mem.flags
        /\ mem'.exe_file = [mem.exe_file EXCEPT ![m] = IF mem.vmas[m] = 1 THEN None ELSE @]
        /\ mem'.vmas = [mem.vmas EXCEPT ![m] = @ - 1]
        /\ \A g \in Exes : Slack(mem', g) = Slack(mem, g)
    BY <1>0, <1>3, <2>a, RemovedVma DEF Unmap
  <2>2. ImageTypeOK'
    <3>1. raced' \in BOOLEAN
      BY <2>0
    <3> QED
      BY <1>0, <2>0, <2>1, <3>1 DEF TypeOK, ImageTypeOK
  <2>3. Balance'
    BY <1>0, <2>0, <2>1, <2>2, ProcessBalanced DEF reader
  <2>4. FlagsKept' /\ FilterSoFar'
    BY <2>1 DEF IInv, FlagsKept, FilterSoFar, reader, pc
  <2>5. /\ mem'.vmas[m] = mem.vmas[m] - 1 /\ Mapped(m)' = Mapped(m) - 1
        /\ mem'.exe_file[m] = IF mem.vmas[m] = 1 THEN None ELSE mem.exe_file[m]
        /\ \A i \in Mms \ {m} : /\ mem'.vmas[i] = mem.vmas[i] /\ mem'.exe_file[i] = mem.exe_file[i]
                                /\ Mapped(i)' = Mapped(i)
    BY <1>0, <2>0, <2>1 DEF Mapped, Mem
  <2>6. ExeWhileMapped'
    <3>1. Mapped(m)' > 0 => mem'.exe_file[m] # None
      <4>1. Mapped(m)' > 0 => mem.vmas[m] # 1
        BY <2>0, <2>5 DEF Mapped
      <4>2. mem.exe_file[m] # None
        BY <2>0 DEF IInv, ExeWhileMapped
      <4> QED
        BY <2>5, <4>1, <4>2
    <3>4. ASSUME NEW i \in Mms, i # m
          PROVE  /\ Mapped(i)' > 0 => mem'.exe_file[i] # None
                 /\ (i = mm /\ ~ loading)' /\ Mapped(i)' = 0 => mem'.exe_file[i] = None
                 /\ (i = child /\ forking = "no" /\ ~ raced)' /\ Mapped(i)' = 0
                      => mem'.exe_file[i] = None
                 /\ mem'.users[i] = 0 => mem'.exe_file[i] = None
      <4>1. /\ Mapped(i) > 0 => mem.exe_file[i] # None
            /\ i = mm /\ ~ loading /\ Mapped(i) = 0 => mem.exe_file[i] = None
            /\ i = child /\ forking = "no" /\ ~ raced /\ Mapped(i) = 0 => mem.exe_file[i] = None
            /\ mem.users[i] = 0 => mem.exe_file[i] = None
        BY DEF IInv, ExeWhileMapped
      <4>2. /\ Mapped(i)' = Mapped(i) /\ mem'.exe_file[i] = mem.exe_file[i]
            /\ mem'.users[i] = mem.users[i]
        BY <2>1, <2>5, <3>4
      <4>3. UNCHANGED <<mm, loading, child, forking>> /\ (~ raced' => ~ raced)
        BY <2>0
      <4> QED
        BY <4>1, <4>2, <4>3
    <3>5. mem'.users[m] = 0 => mem'.exe_file[m] = None
      <4>1. mem.users[m] = 0 => mem.exe_file[m] = None
        BY DEF IInv, ExeWhileMapped
      <4> QED
        BY <2>1, <2>5, <4>1
    <3>2. CASE m = mm
      <4>1. Mapped(m)' = 0 => mem'.exe_file[m] = None
        BY <2>0, <2>a, <2>5, <3>2
      <4> QED
        BY <2>0, <3>1, <3>2, <3>4, <3>5, <4>1 DEF ExeWhileMapped
    <3>3. CASE m = child
      <4>1. forking = "no" /\ ~ raced => missing = 0
        BY DEF IInv, CopyingOK
      <4>2. missing = 0 /\ Mapped(m)' = 0 => mem'.exe_file[m] = None
        BY <2>0, <2>5, <3>3 DEF Mapped
      <4> QED
        BY <2>0, <3>1, <3>3, <3>4, <3>5, <4>1, <4>2 DEF ExeWhileMapped
    <3> QED
      BY <2>0, <3>2, <3>3
  <2>7. LoadingOK'
    BY <2>0 DEF IInv, LoadingOK
  <2>8. CopyingOK'
    <3>1. CASE m = mm
      <4>1. m # child
        BY <2>0, <3>1
      <4>2. child # None => /\ child \in Mms /\ mem'.vmas[child] = mem.vmas[child]
                            /\ mem'.exe_file[child] = mem.exe_file[child]
                            /\ mem.vmas[child] \in Nat
        BY <1>0, <2>5, <4>1 DEF TypeOK, ImageTypeOK, Mem
      <4>3. forking # "no" => raced'
        BY <2>0, <3>1
      <4>4. forking = "no" => raced' = raced
        BY <2>0
      <4>5. mem'.vmas[mm] = mem.vmas[mm] - 1
        BY <2>5, <3>1
      <4>6. CopyingOK
        BY DEF IInv
      <4>7. CASE forking = "no"
        BY <2>0, <2>1, <4>2, <4>4, <4>6, <4>7 DEF CopyingOK
      <4>8. CASE forking # "no"
        <5>1. mem'.vmas[mm] <= mem.vmas[child]
          BY <2>0, <3>1, <4>2, <4>5, <4>6, <4>8 DEF CopyingOK
        <5>2. mem'.vmas[mm] > 0 => mem.vmas[mm] > 0
          BY <2>0, <3>1, <4>5
        <5> QED
          BY <2>0, <2>1, <4>2, <4>3, <4>6, <4>8, <5>1, <5>2 DEF CopyingOK
      <4> QED
        BY <4>7, <4>8
    <3>2. CASE m = child
      <4>1. forking = "no"
        BY <2>0, <2>a, <3>2 DEF IInv, CopyingOK
      <4> QED
        BY <1>0, <2>0, <2>1, <2>a, <2>5, <3>2, <4>1 DEF IInv, CopyingOK
    <3> QED
      BY <2>0, <3>1, <3>2
  <2> QED
    BY <2>2, <2>3, <2>4, <2>6, <2>7, <2>8, ProcessStep DEF reader, Shared, IInv, TypeOK
<1> QED
  BY <1>1, <1>2, <1>3, <1>4

\* The child, the image, the fs_struct and the struct pid go.
LEMMA ExitSteps ==
    ASSUME IInv, UNCHANGED <<file, self, f_pos, old_exec, rd, pages, paths>>,
           tracer' \in {tracer, None}, ChildExit \/ exit_mm \/ exit_fs \/ release_task
    PROVE  IInv'
<1>0. /\ TypeOK /\ mem \in Mem /\ Balance /\ mm \in Mms \cup {None} /\ child \in Mms \cup {None}
      /\ tracer' \in Readers \cup {None}
  BY FromIInv DEF TypeOK
<1>1. ASSUME NEW m \in Mms, child = m, ChildExit PROVE IInv'
  <2>0. /\ mem' = mmput(mem, m) /\ child' = None
        /\ forking' = "no" /\ missing' = 0 /\ ~ raced' /\ raced' \in BOOLEAN
        /\ UNCHANGED <<hashed, usage, mm, fs, loading, cred>>
    BY <1>1 DEF ChildExit
  <2>1. /\ mem.users[m] >= 1
        /\ mem.users[m] = 1 => mm # m /\ MmUsers(m) = {}
    BY <1>0, <1>1, Pinned
  <2>2. mem.users[m] = 1 => \A q \in Readers : ~ (HoldsMm(q)' /\ rd'[q].mm = m)
    BY <2>1 DEF MmUsers, HoldsMm, pc
  <2>3. Shared' /\ mem' \in Mem
    <3>1. /\ NoneComes /\ (mem.users[m] = 1 => mm' # m) /\ (m # child \/ child' = None)
          /\ (UNCHANGED copying \/ m = child)
      BY <2>0, <2>1, <1>1, Zenon DEF NoneComes
    <3>2. mem' = mmput(mem, m) /\ mem.users[m] >= 1
      BY <2>0, <2>1
    <3>3. \A q \in Readers : FilterStays(q)
      BY FilterQuiet
    <3> QED
      BY <2>2, <3>1, <3>2, <3>3, SharedMmput
  <2>4. ImageTypeOK'
    <3>1. forking' \in {"no", "exe", "vmas"} /\ missing' \in 0 .. MaxVmas
      BY <2>0, ImageAssumption
    <3> QED
      BY <1>0, <2>0, <2>3, <3>1 DEF TypeOK, ImageTypeOK
  <2>5. Balance'
    <3>0. mem \in Mem /\ mem' = mmput(mem, m)
      BY <1>0, <2>0
    <3>1. OneUserLess(mem, mem', m)
      BY <3>0, MmputIs
    <3>2. \A i \in Mms : (mem.users[i] - One(mm = i) - One(child = i))'
                           = mem.users[i] - One(mm = i) - One(child = i)
      BY <1>0, <1>1, <2>0, <3>1, ImageAssumption DEF OneUserLess, Mem, One
    <3> QED
      BY <1>0, <2>0, <2>4, <3>1, <3>2, ProcessBalanced DEF OneUserLess
  <2> QED
    BY <1>0, <2>3, <2>4, <2>5, ProcessStep
<1>2. ASSUME NEW m \in Mms, mm = m, exit_mm PROVE IInv'
  <2>0. /\ mem' = mmput(mem, m) /\ mm' = None /\ ~ loading' /\ loading' \in BOOLEAN
        /\ forking = "no" /\ m # child
        /\ UNCHANGED <<hashed, usage, fs, cred, copying>> /\ UNCHANGED child
    BY <1>2, ImageSame, ImageAssumption DEF exit_mm, IInv, LoadingOK
  <2>1. /\ mem.users[m] >= 1
        /\ mem.users[m] = 1 => MmUsers(m) = {}
        /\ None # m
    BY <1>0, <1>2, Pinned, ImageAssumption
  <2>2. mem.users[m] = 1 => \A q \in Readers : ~ (HoldsMm(q)' /\ rd'[q].mm = m)
    BY <2>1 DEF MmUsers, HoldsMm, pc
  <2>3. Shared' /\ mem' \in Mem
    <3>1. /\ NoneComes /\ (mem.users[m] = 1 => mm' # m) /\ (m # child \/ child' = None)
          /\ (UNCHANGED copying \/ m = child)
      BY <2>0, <2>1, Zenon DEF NoneComes
    <3>2. mem' = mmput(mem, m) /\ mem.users[m] >= 1
      BY <2>0, <2>1
    <3>3. \A q \in Readers : FilterStays(q)
      BY FilterQuiet
    <3> QED
      BY <2>2, <3>1, <3>2, <3>3, SharedMmput
  <2>4. ImageTypeOK'
    BY <1>0, <2>0, <2>3, ImageSame DEF TypeOK, ImageTypeOK
  <2>5. Balance'
    <3>0. mem \in Mem /\ mem' = mmput(mem, m)
      BY <1>0, <2>0
    <3>1. OneUserLess(mem, mem', m)
      BY <3>0, MmputIs
    <3>2. \A i \in Mms : (mem.users[i] - One(mm = i) - One(child = i))'
                           = mem.users[i] - One(mm = i) - One(child = i)
      BY <1>0, <1>2, <2>0, <3>1, ImageAssumption DEF OneUserLess, Mem, One
    <3> QED
      BY <1>0, <2>0, <2>4, <3>1, <3>2, ProcessBalanced DEF OneUserLess
  <2> QED
    BY <1>0, <2>3, <2>4, <2>5, ProcessStep
<1>3. CASE exit_fs \/ release_task
  <2>1. /\ UNCHANGED <<mm, loading, cred, copying, mem>>
        /\ UNCHANGED <<child, forking, missing, raced>>
        /\ usage' - One(hashed') = usage - One(hashed)
    <3>1. UNCHANGED <<mm, loading, cred, copying, mem>>
      BY <1>3, ImageSame DEF exit_fs, release_task
    <3>2. usage' - One(hashed') = usage - One(hashed)
      BY <1>3 DEF exit_fs, release_task, IInv, TypeOK, ImageTypeOK, One
    <3> QED
      BY <3>1, <3>2, ImageSame
  <2>2. ImageTypeOK'
    <3>1. usage' \in Int
      BY <1>3 DEF exit_fs, release_task, IInv, TypeOK, ImageTypeOK
    <3>2. hashed' \in BOOLEAN /\ fs' \in BOOLEAN
      BY <1>3, ImageSame DEF exit_fs, release_task, IInv, TypeOK, ImageTypeOK
    <3> QED
      BY <2>1, <3>1, <3>2 DEF IInv, TypeOK, ImageTypeOK
  <2>3. Balance'
    BY <1>0, <2>1, <2>2, ProcessBalanced
  <2>4. Shared'
    BY <2>1, FilterQuiet, SharedSame
  <2> QED
    BY <1>0, <2>2, <2>3, <2>4, ProcessStep
<1> QED
  BY <1>0, <1>1, <1>2, <1>3 DEF ChildExit, exit_mm

\* The process, running, forking, calling exec() or killed.
LEMMA ProcessSteps == ASSUME IInv, Process \/ Killed PROVE IInv'
<1>1. CASE Process
  <2>1. UNCHANGED reader
    BY <1>1 DEF Process
  <2>2. CASE ChildExit \/ exit_fs \/ release_task
    BY <2>1, <2>2, ExitSteps DEF reader
  <2>3. CASE \E m \in Mms : Fork(m)
    BY <2>1, <2>3, ForkStep
  <2>4. CASE \E m \in Mms : \E f \in Exes : Exec(m, f)
    BY <2>1, <2>4, ExecStep
  <2>5. CASE ExecMap(Busy) \/ ExecCreds \/ ExecDone \/ \E m \in Mms : Unmap(m, Busy)
    BY <2>1, <2>5, MappingSteps
  <2>6. CASE ForkExe \/ ForkVmas(Busy)
    BY <2>1, <2>6, ForkExeStep, ForkVmasStep
  <2> QED
    BY <1>1, <2>2, <2>3, <2>4, <2>5, <2>6 DEF Process
<1>2. CASE Killed
  BY <1>2, ExitSteps DEF Killed
<1> QED
  BY <1>1, <1>2

-----------------------------------------------------------------------------
(* What a reader does.                                                     *)

\* What is known of one reader, whatever the others do.
ReaderOK(r) ==
    /\ LocalsOK(r)
    /\ r \notin self /\ At(r, "maps") => rd[r].mm \in Readable \/ rd[r].early
    /\ file[r] \in Memory /\ pc(r) \in {"mmput", "free", "put"} /\ rd[r].ret > 0
         => f_pos[r] = (rd[r].start + rd[r].ret) % WrapLong
    /\ file[r] = "environ" /\ HoldsMm(r) /\ Near(r)
         => /\ rd[r].src >= rd[r].start
            /\ rd[r].src > rd[r].start => rd[r].src <= EnvLen[rd[r].mm]
    /\ file[r] = "cmdline" => rd[r].got <= PAGE_SIZE /\ rd[r].ret <= PAGE_SIZE

LEMMA ReaderIs ==
    ASSUME IInv, NEW r \in Readers
    PROVE  rd[r] \in Locals /\ file[r] \in Files /\ f_pos[r] \in Nat /\ ReaderOK(r)
<1>1. rd[r] \in Locals /\ file[r] \in Files /\ f_pos[r] \in Nat
  BY DEF IInv, TypeOK
<1>2. ReaderOK(r)
  BY DEF IInv, ReaderOK, MapsPermitted, PositionExact, CmdlineInPage
<1> QED
  BY <1>1, <1>2

\* The others are where they were: the step is good if r is.
LEMMA ReaderStep ==
    ASSUME IInv, NEW r \in Readers, StepOf(r), ReaderOK(r)', Balance', Shared', ImageTypeOK',
           old_exec' \in [Readers -> BOOLEAN], tracer' \in Readers \cup {None}
    PROVE  IInv'
<1>1. TypeOK'
  <2>1. pages' \in Int /\ paths' \in Int
    BY ReadersCounted DEF Balance, PageUsers, PathUsers
  <2>2. rd' \in [Readers -> Locals] /\ f_pos' \in [Readers -> Nat]
    BY DEF IInv, TypeOK, StepOf
  <2> QED
    BY <2>1, <2>2 DEF IInv, TypeOK, StepOf
<1>2. ASSUME NEW q \in Readers PROVE ReaderOK(q)'
  <2>1. CASE q = r
    BY <2>1
  <2>2. CASE q # r
    <3>1. rd'[q] = rd[q] /\ f_pos'[q] = f_pos[q] /\ file' = file /\ self' = self
      BY <2>2 DEF IInv, TypeOK, StepOf
    <3>2. ReaderOK(q)
      BY ReaderIs
    <3> QED
      BY <3>1, <3>2 DEF ReaderOK, LocalsOK, PlaceOK, CopiedSoFar, Near, HoldsMm, At, pc
  <2> QED
    BY <2>1, <2>2
<1>3. (\A q \in Readers : LocalsOK(q)') /\ MapsPermitted' /\ PositionExact' /\ CmdlineInPage'
  BY <1>2 DEF ReaderOK, MapsPermitted, PositionExact, CmdlineInPage
<1> QED
  BY <1>1, <1>3, BalanceNext DEF IInv, Shared

\* The step of r is good as far as r is concerned, and leaves alone what it
\* holds.
Holdings(r) ==
    /\ HoldsTask(r)' <=> HoldsTask(r)
    /\ HoldsMm(r)' <=> HoldsMm(r)
    /\ HoldsMm(r) => rd'[r].mm = rd[r].mm
    /\ HoldsPage(r)' <=> HoldsPage(r)
    /\ At(r, "path")' <=> At(r, "path")
    /\ \A f \in Exes : HoldsExe(r, f)' <=> HoldsExe(r, f)

\* In the step of r the filter writes of the others go on.
LEMMA OthersStay ==
    ASSUME IInv, NEW r \in Readers, StepOf(r), FilterStays(r)
    PROVE  \A q \in Readers : FilterStays(q)
<1> SUFFICES ASSUME NEW q \in Readers, q # r PROVE FilterStays(q)
  OBVIOUS
<1>1. rd'[q] = rd[q] /\ file' = file
  BY DEF IInv, TypeOK, StepOf
<1> QED
  BY <1>1 DEF FilterStays, pc

\* What stays as it is, and is held as before, is matched.
LEMMA Unmoved ==
    ASSUME IInv, NEW r \in Readers
    PROVE  /\ UNCHANGED <<hashed, usage>> /\ (HoldsTask(r)' <=> HoldsTask(r)) => TaskMatched(r)
           /\ /\ UNCHANGED <<mm, child>> /\ mem'.users = mem.users
              /\ HoldsMm(r)' <=> HoldsMm(r)
              /\ HoldsMm(r) => rd'[r].mm = rd[r].mm
              => MmMatched(r)
           /\ UNCHANGED pages /\ (HoldsPage(r)' <=> HoldsPage(r)) => PagesMatched(r)
           /\ UNCHANGED paths /\ (At(r, "path")' <=> At(r, "path")) => PathsMatched(r)
           /\ /\ mem'.f_count = mem.f_count /\ mem'.exe_file = mem.exe_file
              /\ \A f \in Exes : HoldsExe(r, f)' <=> HoldsExe(r, f)
              => ExesMatched(r)
<1>0. TypeOK /\ ImageTypeOK
  BY FromIInv
<1>1. UNCHANGED <<hashed, usage>> /\ (HoldsTask(r)' <=> HoldsTask(r)) => TaskMatched(r)
  BY <1>0 DEF ImageTypeOK, TaskMatched, One
<1>2. ASSUME UNCHANGED <<mm, child>>, mem'.users = mem.users, HoldsMm(r)' <=> HoldsMm(r),
             HoldsMm(r) => rd'[r].mm = rd[r].mm, NEW m \in Mms
      PROVE  (mem.users[m] - One(mm = m) - One(child = m))'
               = mem.users[m] - One(mm = m) - One(child = m)
                 + One(HoldsMm(r) /\ rd[r].mm = m)' - One(HoldsMm(r) /\ rd[r].mm = m)
  <2>1. mem.users[m] \in Int
    BY <1>0 DEF ImageTypeOK, Mem
  <2>2. (HoldsMm(r) /\ rd[r].mm = m)' <=> (HoldsMm(r) /\ rd[r].mm = m)
    BY <1>2
  <2> QED
    BY <1>2, <2>1, <2>2 DEF One
<1>3. /\ UNCHANGED pages /\ (HoldsPage(r)' <=> HoldsPage(r)) => PagesMatched(r)
      /\ UNCHANGED paths /\ (At(r, "path")' <=> At(r, "path")) => PathsMatched(r)
  BY <1>0 DEF TypeOK, PagesMatched, PathsMatched, One
<1>4. ASSUME mem'.f_count = mem.f_count, mem'.exe_file = mem.exe_file, NEW f \in Exes,
             HoldsExe(r, f)' <=> HoldsExe(r, f)
      PROVE  Slack(mem', f) = Slack(mem, f) + One(HoldsExe(r, f)') - One(HoldsExe(r, f))
  <2>1. Slack(mem, f) \in Int
    BY <1>0, CountsAreNumbers DEF ImageTypeOK, Mem, Slack
  <2>2. Slack(mem', f) = Slack(mem, f)
    BY <1>4 DEF Slack, ImagesOf
  <2> QED
    BY <1>4, <2>1, <2>2 DEF One
<1> QED
  BY <1>1, <1>2, <1>3, <1>4 DEF MmMatched, ExesMatched

\* A step of r that nothing else notices.
LEMMA QuietStep ==
    ASSUME IInv, NEW r \in Readers, StepOf(r), ReaderOK(r)', Holdings(r), FilterStays(r),
           UNCHANGED <<task, mem, pages, paths>>,
           old_exec' \in [Readers -> BOOLEAN], tracer' \in Readers \cup {None}
    PROVE  IInv'
<1>0. TypeOK /\ Balance /\ ImageTypeOK
  BY FromIInv
<1>1. ImageTypeOK'
  BY <1>0, ImageSame DEF ImageTypeOK
<1>2. TakesAndPuts(r)
  BY Unmoved, ImageSame DEF Holdings, TakesAndPuts
<1>3. Balance'
  BY <1>0, <1>1, <1>2, ReaderBalanced
<1>4. Shared'
  <2>1. \A q \in Readers : FilterStays(q)
    BY OthersStay
  <2> QED
    BY <2>1, SharedSame, ImageSame
<1> QED
  BY <1>1, <1>3, <1>4, ReaderStep

\* Where the fields go.
Moved(r, label, ret) ==
    /\ rd' = [rd EXCEPT ![r] = rd'[r]] /\ rd'[r] \in Locals
    /\ rd'[r].pc = label /\ rd'[r].ret = ret
    /\ rd'[r].mm = rd[r].mm /\ rd'[r].src = rd[r].src /\ rd'[r].count = rd[r].count
    /\ rd'[r].got = rd[r].got /\ rd'[r].exe = rd[r].exe /\ rd'[r].val = rd[r].val
    /\ rd'[r].bit = rd[r].bit /\ rd'[r].start = rd[r].start /\ rd'[r].alone = rd[r].alone
    /\ rd'[r].early = rd[r].early

Idled(r, ret) ==
    /\ rd' = [rd EXCEPT ![r] = rd'[r]] /\ rd'[r] \in Locals
    /\ rd'[r].pc = "idle" /\ rd'[r].ret = ret /\ rd'[r].got = 0 /\ ~ rd'[r].alone

LEMMA GotoIs ==
    ASSUME TypeOK, NEW r \in Readers, NEW label \in PCs, Goto(r, label)
    PROVE  Moved(r, label, rd[r].ret)
<1>1. rd \in [Readers -> Locals]
  BY DEF TypeOK
<1> QED
  BY <1>1 DEF Goto, Moved, Locals

LEMMA ExitIs ==
    ASSUME TypeOK, NEW r \in Readers, NEW label \in PCs, NEW ret \in Int, Exit(r, label, ret)
    PROVE  Moved(r, label, ret)
<1>1. rd \in [Readers -> Locals] /\ rd[r] \in Locals
  BY DEF TypeOK
<1>2. rd'[r] = [rd[r] EXCEPT !.pc = label, !.ret = ret]
  BY <1>1 DEF Exit
<1>3. rd' = [rd EXCEPT ![r] = rd'[r]]
  BY <1>1 DEF Exit
<1> QED
  BY <1>1, <1>2, <1>3 DEF Moved, Locals

LEMMA IdleIs == ASSUME NEW ret \in Int PROVE Idle(ret) \in Locals
<1>1. "idle" \in PCs
  BY DEF PCs
<1>2. BITS \in Nat /\ {} \in SUBSET (0 .. BITS - 1) /\ 0 \in 0 .. BITS /\ FALSE \in BOOLEAN
  BY ImageAssumption
<1> QED
  BY <1>1, <1>2 DEF Idle, Locals

LEMMA ReturnIs ==
    ASSUME TypeOK, NEW r \in Readers, NEW ret \in Int, Return(r, ret)
    PROVE  Idled(r, ret)
<1>1. rd \in [Readers -> Locals] /\ Idle(ret) \in Locals
  BY IdleIs DEF TypeOK
<1>2. rd'[r] = Idle(ret) /\ rd' = [rd EXCEPT ![r] = rd'[r]]
  BY <1>1 DEF Return
<1>3. Idle(ret).pc = "idle" /\ Idle(ret).ret = ret /\ Idle(ret).got = 0 /\ ~ Idle(ret).alone
  BY DEF Idle
<1> QED
  BY <1>1, <1>2, <1>3 DEF Idled

\* The least of two, and of three.
LEMMA MinIs ==
    ASSUME NEW a \in Int, NEW b \in Int
    PROVE  Min({a, b}) \in {a, b} /\ Min({a, b}) <= a /\ Min({a, b}) <= b
<1>1. \E x \in {a, b} : \A y \in {a, b} : x <= y
  OBVIOUS
<1> QED
  BY <1>1 DEF Min

LEMMA MinOfThree ==
    ASSUME NEW a \in Int, NEW b \in Int, NEW c \in Int
    PROVE  /\ Min({a, b, c}) \in {a, b, c}
           /\ Min({a, b, c}) <= a /\ Min({a, b, c}) <= b /\ Min({a, b, c}) <= c
<1>1. \E x \in {a, b, c} : \A y \in {a, b, c} : x <= y
  <2>1. CASE a <= b /\ a <= c
    BY <2>1
  <2>2. CASE b <= a /\ b <= c
    BY <2>2
  <2>3. CASE c <= a /\ c <= b
    BY <2>3
  <2> QED
    BY <2>1, <2>2, <2>3
<1> QED
  BY <1>1 DEF Min

\* Where a handler goes on, file by file.
LEMMA Onward ==
    ASSUME NEW r \in Readers, file[r] \in Files
    PROVE  /\ file[r] \in Links => FirstPlace(r) = "allowed"
           /\ file[r] = "filter_write" => FirstPlace(r) = "parse"
           /\ file[r] \in Files \ (Links \cup {"filter_write"}) => FirstPlace(r) = "task"
           /\ file[r] \in Memory => AfterTask(r) = "permit"
           /\ file[r] \in Info \cup {"attr_write"} => AfterTask(r) = "page"
           /\ file[r] \in Filter \cup {"maps", "exe"} => AfterTask(r) = "mm"
           /\ file[r] = "fs" => AfterTask(r) = "fs"
           /\ file[r] = "attr_read" => AfterTask(r) = "attr"
           /\ file[r] = "mem" => AfterMm(r) = "exec_id"
           /\ file[r] = "environ" => AfterMm(r) = "loop"
           /\ file[r] \in Info \cup {"filter_read"} => AfterMm(r) = "body"
           /\ file[r] = "maps" => AfterMm(r) = "maps_check"
           /\ file[r] = "filter_write" => AfterMm(r) = "bits"
           /\ file[r] = "exe" => AfterMm(r) = "exe"
           /\ file[r] \in Memory => NoMm(r) = "free"
           /\ file[r] \in Info => NoMm(r) = "copyout"
           /\ file[r] \in Filter \cup {"maps"} => NoMm(r) = "put"
           /\ file[r] \in Memory => AfterMmput(r) = "free"
           /\ file[r] \in Info \cup {"filter_read"} => AfterMmput(r) = "copyout"
           /\ file[r] \in {"filter_write", "maps"} => AfterMmput(r) = "put"
  BY Zenon DEF Memory, Info, Links, Filter, FirstPlace, AfterTask, AfterMm, NoMm, AfterMmput

\* A handler's steps within its locals.
LEMMA WithinSteps ==
    ASSUME IInv, NEW r \in Readers, Within(r), UNCHANGED <<task, mem, f_pos, pages, paths, here>>
    PROVE  IInv'
<1>0. /\ TypeOK /\ rd[r] \in Locals /\ file[r] \in Files /\ f_pos[r] \in Nat /\ ReaderOK(r)
      /\ f_pos \in [Readers -> Nat] /\ mm \in Mms \cup {None}
      /\ rd[r].src \in Nat /\ rd[r].start \in Nat
  BY ReaderIs, FromIInv DEF TypeOK, Locals
<1>1. /\ old_exec' \in [Readers -> BOOLEAN] /\ tracer' \in Readers \cup {None}
      /\ UNCHANGED <<task, mem, pages, paths, file, self, f_pos>>
  BY <1>0 DEF here, TypeOK
<1>2. StepOf(r) /\ ReaderOK(r)' /\ Holdings(r) /\ FilterStays(r) => IInv'
  BY <1>1, QuietStep
<1>3. ASSUME NEW ret, Idled(r, ret), pc(r) \in {"allowed", "parse"} PROVE IInv'
  <2>1. file[r] \in Links \cup {"filter_write"}
    BY <1>0, <1>3 DEF ReaderOK, LocalsOK, PlaceOK, Place
  <2> QED
    BY <1>0, <1>1, <1>2, <1>3, <2>1 DEF Idled, StepOf, Holdings, FilterStays, HoldsTask,
       HoldsMm, HoldsPage, HoldsExe, At, pc, ReaderOK, LocalsOK, PlaceOK, Place,
       CopiedSoFar, Links, Memory, Info
<1>4. CASE AccessAllowed(r)
  <2>1. pc(r) = "allowed" /\ Place(file[r], "allowed")
    BY <1>0, <1>4 DEF AccessAllowed, At, pc, ReaderOK, LocalsOK, PlaceOK
  <2>11. CASE Goto(r, "task")
    <3>1. Moved(r, "task", rd[r].ret)
      BY <1>0, <2>11, GotoIs DEF PCs
    <3> QED
      BY <1>0, <1>1, <1>2, <2>1, <2>11, <3>1 DEF Moved, StepOf, Holdings, FilterStays,
         HoldsTask, HoldsMm, HoldsPage, HoldsExe, At, pc, ReaderOK, LocalsOK, PlaceOK,
         Place, CopiedSoFar, Links, Memory, Info
  <2>12. CASE Return(r, EACCES)
    <3>1. Idled(r, EACCES)
      BY <1>0, <2>12, ReturnIs DEF EACCES
    <3> QED
      BY <1>3, <2>1, <3>1
  <2> QED
    BY <1>4, <2>11, <2>12 DEF AccessAllowed
<1>5. CASE Permit(r)
  <2>1. pc(r) = "permit" /\ Place(file[r], "permit")
    BY <1>0, <1>5 DEF Permit, At, pc, ReaderOK, LocalsOK, PlaceOK
  <2>11. CASE Goto(r, "page")
    <3>1. Moved(r, "page", rd[r].ret)
      BY <1>0, <2>11, GotoIs DEF PCs
    <3> QED
      BY <1>0, <1>1, <1>2, <2>1, <2>11, <3>1 DEF Moved, StepOf, Holdings, FilterStays,
         HoldsTask, HoldsMm, HoldsPage, HoldsExe, At, pc, ReaderOK, LocalsOK, PlaceOK,
         Place, CopiedSoFar
  <2>12. CASE Exit(r, "put", ESRCH)
    <3>1. Moved(r, "put", ESRCH)
      BY <1>0, <2>12, ExitIs DEF PCs, ESRCH
    <3> QED
      BY <1>0, <1>1, <1>2, <2>1, <2>12, <3>1 DEF Moved, StepOf, Holdings, FilterStays,
         HoldsTask, HoldsMm, HoldsPage, HoldsExe, At, pc, ReaderOK, LocalsOK, PlaceOK,
         Place, CopiedSoFar, Memory, ESRCH
  <2> QED
    BY <1>5, <2>11, <2>12 DEF Permit
<1>6. CASE ExecId(r)
  <2>1. pc(r) = "exec_id" /\ Place(file[r], "exec_id")
    BY <1>0, <1>6 DEF ExecId, At, pc, ReaderOK, LocalsOK, PlaceOK
  <2>11. CASE Goto(r, "loop")
    <3>1. Moved(r, "loop", rd[r].ret)
      BY <1>0, <2>11, GotoIs DEF PCs
    <3> QED
      BY <1>0, <1>1, <1>2, <2>1, <2>11, <3>1 DEF Moved, StepOf, Holdings, FilterStays,
         HoldsTask, HoldsMm, HoldsPage, HoldsExe, At, pc, ReaderOK, LocalsOK, PlaceOK,
         Place, CopiedSoFar, Memory
  <2>12. CASE Exit(r, "mmput", EIO)
    <3>1. Moved(r, "mmput", EIO)
      BY <1>0, <2>12, ExitIs DEF PCs, EIO
    <3> QED
      BY <1>0, <1>1, <1>2, <2>1, <2>12, <3>1 DEF Moved, StepOf, Holdings, FilterStays,
         HoldsTask, HoldsMm, HoldsPage, HoldsExe, At, pc, ReaderOK, LocalsOK, PlaceOK,
         Place, CopiedSoFar, Memory, EIO
  <2> QED
    BY <1>6, <2>11, <2>12 DEF ExecId
<1>7. CASE Auxv(r)
  <2>1. pc(r) = "body" /\ Place(file[r], "body") /\ file[r] = "auxv"
    BY <1>0, <1>7 DEF Auxv, At, pc, ReaderOK, LocalsOK, PlaceOK
  <2>2. ASSUME NEW len \in {1, AuxLen} PROVE Min({len, PAGE_SIZE}) \in Int
    <3>1. len \in Int /\ PAGE_SIZE \in Int
      BY LengthAssumption
    <3>2. Min({len, PAGE_SIZE}) \in {len, PAGE_SIZE}
      BY <3>1, MinIs
    <3> QED
      BY <3>1, <3>2
  <2>11. ASSUME NEW n \in Int, Exit(r, "mmput", n) PROVE IInv'
    <3>1. Moved(r, "mmput", n)
      BY <1>0, <2>11, ExitIs DEF PCs
    <3> QED
      BY <1>0, <1>1, <1>2, <2>1, <2>11, <3>1 DEF Moved, StepOf, Holdings, FilterStays,
         HoldsTask, HoldsMm, HoldsPage, HoldsExe, At, pc, ReaderOK, LocalsOK, PlaceOK,
         Place, CopiedSoFar, Memory
  <2> QED
    BY <1>7, <2>2, <2>11 DEF Auxv
<1>8. CASE CmdlineArgs(r)
  <2>1. pc(r) = "body" /\ Place(file[r], "body") /\ file[r] = "cmdline" /\ rd[r].mm \in Mms
    BY <1>0, <1>8 DEF CmdlineArgs, At, pc, ReaderOK, LocalsOK, PlaceOK, HoldsMm
  <2>2. /\ 0 \in 0 .. PAGE_SIZE
        /\ \A n \in Access(Min({ArgLen[rd[r].mm], PAGE_SIZE})) :
             n \in 0 .. PAGE_SIZE /\ \A cut \in 0 .. n - 1 : cut \in 0 .. PAGE_SIZE
    <3>1. ArgLen[rd[r].mm] \in Nat /\ PAGE_SIZE \in Nat
      BY <2>1, LengthAssumption
    <3> DEFINE len == Min({ArgLen[rd[r].mm], PAGE_SIZE})
    <3>a. ArgLen[rd[r].mm] \in Int /\ PAGE_SIZE \in Int
      BY <3>1
    <3>b. len \in {ArgLen[rd[r].mm], PAGE_SIZE} /\ len <= PAGE_SIZE
      BY <3>a, MinIs
    <3>2. len \in Nat /\ len <= PAGE_SIZE
      BY <3>1, <3>b
    <3> HIDE DEF len
    <3>3. Access(len) \subseteq 0 .. len
      BY <3>2 DEF Access
    <3>4. \A n \in Access(len) : n \in 0 .. PAGE_SIZE /\
                  \A cut \in 0 .. n - 1 : cut \in 0 .. PAGE_SIZE
      BY <3>1, <3>2, <3>3
    <3>5. 0 \in 0 .. PAGE_SIZE
      BY <3>1
    <3> QED
      BY <3>4, <3>5, Zenon DEF len
  <2>11. ASSUME NEW n \in 0 .. PAGE_SIZE, Exit(r, "mmput", n) PROVE IInv'
    <3>1. Moved(r, "mmput", n)
      BY <1>0, <2>11, ExitIs DEF PCs
    <3> QED
      BY <1>0, <1>1, <1>2, <2>1, <2>11, <3>1 DEF Moved, StepOf, Holdings, FilterStays,
         HoldsTask, HoldsMm, HoldsPage, HoldsExe, At, pc, ReaderOK, LocalsOK, PlaceOK,
         Place, CopiedSoFar, Memory
  <2>12. ASSUME NEW n \in 0 .. PAGE_SIZE, Exit(r, "title", n) PROVE IInv'
    <3>1. Moved(r, "title", n)
      BY <1>0, <2>12, ExitIs DEF PCs
    <3> QED
      BY <1>0, <1>1, <1>2, <2>1, <2>12, <3>1 DEF Moved, StepOf, Holdings, FilterStays,
         HoldsTask, HoldsMm, HoldsPage, HoldsExe, At, pc, ReaderOK, LocalsOK, PlaceOK,
         Place, CopiedSoFar
  <2> QED
    BY <1>8, <2>2, <2>11, <2>12 DEF CmdlineArgs
<1>9. CASE CmdlineTitle(r)
  <2>1. pc(r) = "title" /\ Place(file[r], "title") /\ file[r] = "cmdline" /\
                rd[r].mm \in Mms /\ rd[r].ret \in 0 .. PAGE_SIZE
    BY <1>0, <1>9 DEF CmdlineTitle, At, pc, ReaderOK, LocalsOK, PlaceOK, Place, HoldsMm,
       Locals
  <2>2. PICK n \in Access(Min({EnvLen[rd[r].mm], RoomLeft(r)})) : \E res \in 0 .. rd[r].ret + n :
           rd' = [rd EXCEPT ![r].pc = "mmput", ![r].ret = res, ![r].got = rd[r].ret + n]
    BY <1>9 DEF CmdlineTitle
  <2>3. n \in Nat /\ rd[r].ret + n <= PAGE_SIZE
    <3>1. EnvLen[rd[r].mm] \in Nat /\ PAGE_SIZE \in Nat /\ RoomLeft(r) \in Nat
      BY <2>1, LengthAssumption DEF RoomLeft
    <3> DEFINE len == Min({EnvLen[rd[r].mm], RoomLeft(r)})
    <3>a. EnvLen[rd[r].mm] \in Int /\ RoomLeft(r) \in Int
      BY <3>1
    <3>b. len \in {EnvLen[rd[r].mm], RoomLeft(r)} /\ len <= RoomLeft(r)
      BY <3>a, MinIs
    <3>2. len \in Nat /\ len <= RoomLeft(r)
      BY <3>1, <3>b
    <3> HIDE DEF len
    <3>3. Access(len) \subseteq 0 .. len
      BY <3>2 DEF Access
    <3>4. n \in 0 .. len
      BY <2>2, <3>3 DEF len
    <3> QED
      BY <2>1, <3>1, <3>2, <3>4 DEF RoomLeft
  <2>4. PICK res \in 0 .. rd[r].ret + n :
           rd' = [rd EXCEPT ![r].pc = "mmput", ![r].ret = res, ![r].got = rd[r].ret + n]
    BY <2>2
  <2>5. res \in Nat /\ res <= PAGE_SIZE /\ rd[r].ret + n \in Nat
    BY <2>1, <2>3, <2>4, LengthAssumption
  <2>a. rd'[r] = [rd[r] EXCEPT !.pc = "mmput", !.ret = res, !.got = rd[r].ret + n]
        /\ rd' = [rd EXCEPT ![r] = rd'[r]]
    BY <1>0, <2>4 DEF TypeOK
  <2>b. "mmput" \in PCs /\ res \in Int /\ rd[r].ret + n \in Nat
    BY <2>5 DEF PCs
  <2>6. /\ rd' = [rd EXCEPT ![r] = rd'[r]] /\ rd'[r] \in Locals
        /\ rd'[r].pc = "mmput" /\ rd'[r].ret = res /\ rd'[r].got = rd[r].ret + n
        /\ rd'[r].mm = rd[r].mm /\ rd'[r].exe = rd[r].exe /\ rd'[r].alone = rd[r].alone
    BY <1>0, <2>a, <2>b DEF Locals
  <2> QED
    BY <1>0, <1>1, <1>2, <2>1, <2>3, <2>5, <2>6 DEF StepOf, Holdings, FilterStays,
       HoldsTask, HoldsMm, HoldsPage, HoldsExe, At, pc, ReaderOK, LocalsOK, PlaceOK, Place,
       CopiedSoFar, Memory, Info
<1>10. CASE MapsCheck(r)
  <2>1. pc(r) = "maps_check" /\ Place(file[r], "maps_check")
    BY <1>0, <1>10 DEF MapsCheck, At, pc, ReaderOK, LocalsOK, PlaceOK
  <2>11. ASSUME StillItsImage(r), r \in self \/ MayAccess,
                rd' = [rd EXCEPT ![r].pc = "maps", ![r].early = BetweenImageAndCreds]
         PROVE  IInv'
    <3> DEFINE e == BetweenImageAndCreds
    <3>0. rd' = [rd EXCEPT ![r].pc = "maps", ![r].early = e]
      BY <2>11 DEF e
    <3>2. e \in BOOLEAN /\ "maps" \in PCs
      BY DEF BetweenImageAndCreds, PCs
    <3>3. rd[r].mm \in Mms /\ mm = rd[r].mm /\ file[r] = "maps"
      BY <1>0, <2>1, <2>11 DEF StillItsImage, ReaderOK, LocalsOK, PlaceOK, HoldsMm, Place, Memory,
         Info, Links, pc
    <3>4. r \notin self => rd[r].mm \in Readable \/ e
      <4>1. ~ loading => cred = mm
        BY <3>3, ImageAssumption DEF IInv, LoadingOK
      <4> QED
        BY <2>11, <3>3, <4>1 DEF MayAccess, BetweenImageAndCreds
    <3> HIDE DEF e
    <3>1. rd'[r] = [rd[r] EXCEPT !.pc = "maps", !.early = e] /\ rd' = [rd EXCEPT ![r] = rd'[r]]
      BY <1>0, <3>0 DEF TypeOK
    <3>5. /\ rd'[r] \in Locals /\ rd'[r].pc = "maps" /\ rd'[r].early = e /\ rd'[r].mm = rd[r].mm
          /\ rd'[r].alone = rd[r].alone /\ rd'[r].ret = rd[r].ret /\ rd'[r].got = rd[r].got
          /\ rd'[r].exe = rd[r].exe
      BY <1>0, <3>1, <3>2 DEF Locals
    <3>6. StepOf(r) /\ Holdings(r) /\ FilterStays(r)
      BY <1>0, <1>1, <2>1, <3>1, <3>5 DEF StepOf, Holdings, FilterStays, HoldsTask, HoldsMm,
         HoldsPage, HoldsExe, At, pc
    <3>7. ReaderOK(r)'
      BY <1>0, <1>1, <2>1, <3>3, <3>4, <3>5 DEF HoldsMm, At, pc, ReaderOK, LocalsOK, PlaceOK,
         Place, CopiedSoFar, Memory
    <3> QED
      BY <1>2, <3>6, <3>7
  <2>12. CASE Goto(r, "mmput")
    <3>1. Moved(r, "mmput", rd[r].ret)
      BY <1>0, <2>12, GotoIs DEF PCs
    <3> QED
      BY <1>0, <1>1, <1>2, <2>1, <2>12, <3>1 DEF Moved, StepOf, Holdings, FilterStays,
         HoldsTask, HoldsMm, HoldsPage, HoldsExe, At, pc, ReaderOK, LocalsOK, PlaceOK,
         Place, CopiedSoFar, Memory
  <2> QED
    BY <1>10, <2>11, <2>12 DEF MapsCheck
<1>11. CASE MapsDone(r)
  <2>1. pc(r) = "maps" /\ Place(file[r], "maps")
    BY <1>0, <1>11 DEF MapsDone, At, pc, ReaderOK, LocalsOK, PlaceOK
  <2>11. CASE Goto(r, "mmput")
    <3>1. Moved(r, "mmput", rd[r].ret)
      BY <1>0, <2>11, GotoIs DEF PCs
    <3> QED
      BY <1>0, <1>1, <1>2, <2>1, <2>11, <3>1 DEF Moved, StepOf, Holdings, FilterStays,
         HoldsTask, HoldsMm, HoldsPage, HoldsExe, At, pc, ReaderOK, LocalsOK, PlaceOK,
         Place, CopiedSoFar, Memory
  <2> QED
    BY <1>11, <2>11 DEF MapsDone
<1>12. CASE FilterParse(r)
  <2>1. pc(r) = "parse" /\ Place(file[r], "parse")
    BY <1>0, <1>12 DEF FilterParse, At, pc, ReaderOK, LocalsOK, PlaceOK
  <2>2. ASSUME NEW v \in Masks, rd' = [rd EXCEPT ![r].pc = "task", ![r].val = v, ![r].ret = 1]
        PROVE  IInv'
    <3>a. rd'[r] = [rd[r] EXCEPT !.pc = "task", !.val = v, !.ret = 1]
          /\ rd' = [rd EXCEPT ![r] = rd'[r]]
      BY <1>0, <2>2 DEF TypeOK
    <3>b. v \in SUBSET (0 .. BITS - 1) /\ "task" \in PCs /\ 1 \in Int
      BY LengthAssumption DEF PCs
    <3>1. /\ rd' = [rd EXCEPT ![r] = rd'[r]] /\ rd'[r] \in Locals
          /\ rd'[r].pc = "task" /\ rd'[r].alone = rd[r].alone
      BY <1>0, <3>a, <3>b DEF Locals
    <3> QED
      BY <1>0, <1>1, <1>2, <2>1, <3>1 DEF StepOf, Holdings, FilterStays, HoldsTask, HoldsMm,
         HoldsPage, HoldsExe, At, pc, ReaderOK, LocalsOK, PlaceOK, Place, CopiedSoFar,
         Memory, Info
  <2>3. ASSUME NEW e \in {EFAULT, EINVAL}, Return(r, e) PROVE IInv'
    <3>1. Idled(r, e)
      BY <1>0, <2>3, ReturnIs DEF EFAULT, EINVAL
    <3> QED
      BY <1>3, <2>1, <3>1
  <2> QED
    BY <1>12, <2>2, <2>3 DEF FilterParse
<1>13. CASE FilterEnd(r)
  <2>1. pc(r) = "bits" /\ Place(file[r], "bits") /\ rd[r].bit = BITS
    BY <1>0, <1>13 DEF FilterEnd, At, pc, ReaderOK, LocalsOK, PlaceOK
  <2>11. CASE Goto(r, "mmput")
    <3>1. Moved(r, "mmput", rd[r].ret)
      BY <1>0, <2>11, GotoIs DEF PCs
    <3> QED
      BY <1>0, <1>1, <1>2, <2>1, <2>11, <3>1 DEF Moved, StepOf, Holdings, FilterStays,
         HoldsTask, HoldsMm, HoldsPage, HoldsExe, At, pc, ReaderOK, LocalsOK, PlaceOK,
         Place, CopiedSoFar, Memory
  <2> QED
    BY <1>13, <2>11 DEF FilterEnd
<1>14. CASE FilterRead(r)
  <2>1. pc(r) = "body" /\ Place(file[r], "body") /\ file[r] = "filter_read"
    BY <1>0, <1>14 DEF FilterRead, At, pc, ReaderOK, LocalsOK, PlaceOK
  <2>11. CASE Exit(r, "mmput", 1)
    <3>1. Moved(r, "mmput", 1)
      BY <1>0, <2>11, ExitIs DEF PCs
    <3> QED
      BY <1>0, <1>1, <1>2, <2>1, <2>11, <3>1 DEF Moved, StepOf, Holdings, FilterStays,
         HoldsTask, HoldsMm, HoldsPage, HoldsExe, At, pc, ReaderOK, LocalsOK, PlaceOK,
         Place, CopiedSoFar, Memory
  <2> QED
    BY <1>14, <2>11 DEF FilterRead
<1>15. CASE AttrWrite(r)
  <2>1. pc(r) = "copyin" /\ Place(file[r], "copyin")
    BY <1>0, <1>15 DEF AttrWrite, At, pc, ReaderOK, LocalsOK, PlaceOK
  <2>2. {EFAULT, EINVAL, Min({rd[r].count, PAGE_SIZE})} \subseteq Int
    <3>1. rd[r].count \in Int /\ PAGE_SIZE \in Int
      BY <1>0, LengthAssumption DEF Locals
    <3>2. Min({rd[r].count, PAGE_SIZE}) \in {rd[r].count, PAGE_SIZE}
      BY <3>1, MinIs
    <3> QED
      BY <3>1, <3>2 DEF EFAULT, EINVAL
  <2>11. ASSUME NEW ret \in Int, Exit(r, "free", ret) PROVE IInv'
    <3>1. Moved(r, "free", ret)
      BY <1>0, <2>11, ExitIs DEF PCs
    <3> QED
      BY <1>0, <1>1, <1>2, <2>1, <2>11, <3>1 DEF Moved, StepOf, Holdings, FilterStays,
         HoldsTask, HoldsMm, HoldsPage, HoldsExe, At, pc, ReaderOK, LocalsOK, PlaceOK,
         Place, CopiedSoFar, Memory
  <2> QED
    BY <1>15, <2>2, <2>11 DEF AttrWrite
<1> QED
  BY <1>4, <1>5, <1>6, <1>7, <1>8, <1>9, <1>10, <1>11, <1>12, <1>13, <1>14, <1>15 DEF Within

-----------------------------------------------------------------------------
(* Numbers that wrap.                                                      *)

\* What the remainder is, and that there is no other.
LEMMA ModIs ==
    ASSUME NEW a \in Int, NEW w \in Nat \ {0}
    PROVE  a % w \in 0 .. w - 1 /\ \E q \in Int : a = w * q + (a % w)
<1>1. a % w \in 0 .. w - 1
  OBVIOUS
<1>2. a = w * (a \div w) + (a % w) /\ a \div w \in Int
  OBVIOUS
<1> QED
  BY <1>1, <1>2

LEMMA ModOnly ==
    ASSUME NEW w \in Nat \ {0}, NEW p \in Int, NEW q \in Int, NEW a \in 0 .. w - 1,
           NEW b \in 0 .. w - 1, w * p + a = w * q + b
    PROVE  a = b
<1>1. CASE p = q
  BY <1>1
<1>2. CASE p > q
  <2>1. w * (p - q) >= w
    BY <1>2
  <2> QED
    BY <2>1
<1>3. CASE p < q
  <2>1. w * (q - p) >= w
    BY <1>3
  <2> QED
    BY <2>1
<1> QED
  BY <1>1, <1>2, <1>3

\* A number is its own remainder when it is small enough.
LEMMA ModSmall ==
    ASSUME NEW w \in Nat \ {0}, NEW a \in Int
    PROVE  /\ 0 <= a /\ a < w => a % w = a
           /\ -w <= a /\ a < 0 => a % w = a + w
  OBVIOUS

\* Wrapping on the way makes no difference to a sum.
LEMMA ModSum ==
    ASSUME NEW a \in Int, NEW b \in Int, NEW w \in Nat \ {0}
    PROVE  ((a % w) + b) % w = (a + b) % w
<1> DEFINE x == a % w
<1> DEFINE y == (x + b) % w
<1> DEFINE z == (a + b) % w
<1>1. x \in 0 .. w - 1 /\ \E q \in Int : a = w * q + x
  BY ModIs
<1> HIDE DEF x
<1>2. x + b \in Int /\ a + b \in Int
  BY <1>1
<1>3. y \in 0 .. w - 1 /\ \E q \in Int : x + b = w * q + y
  BY <1>2, ModIs
<1>4. z \in 0 .. w - 1 /\ \E q \in Int : a + b = w * q + z
  BY <1>2, ModIs
<1> HIDE DEF y, z
<1>5. PICK p \in Int : a = w * p + x
  BY <1>1
<1>6. PICK q \in Int : x + b = w * q + y
  BY <1>3
<1>7. PICK s \in Int : a + b = w * s + z
  BY <1>4
<1>8. w * (p + q) + y = w * s + z /\ p + q \in Int
  BY <1>1, <1>3, <1>4, <1>5, <1>6, <1>7
<1>9. y = z
  BY <1>3, <1>4, <1>8, ModOnly
<1> QED
  BY <1>9 DEF x, y, z

\* An int holds what is no longer than half of its values.
LEMMA ToIntIs ==
    ASSUME NEW d \in Int, 2 * d < WrapInt, -WrapInt <= 2 * d
    PROVE  ToInt(d % WrapLong) = d
<1>0. WrapInt \in Nat \ {0} /\ WrapLong \in Nat \ {0} /\ WrapLong % WrapInt = 0
  BY WidthAssumption
<1>b. WrapLong \in Int
  BY <1>0
<1>a. \E q \in Int : WrapLong = WrapInt * q + (WrapLong % WrapInt)
  BY <1>0, <1>b, ModIs
<1>1. PICK k \in Int : WrapLong = WrapInt * k
  BY <1>0, <1>a
<1>2. k >= 1 /\ WrapLong >= WrapInt
  BY <1>0, <1>1
<1> DEFINE bits == (d % WrapLong) % WrapInt
<1>3. bits = IF d >= 0 THEN d ELSE d + WrapInt
  <2>1. CASE d >= 0
    <3>1. d % WrapLong = d
      BY <1>0, <1>2, <2>1, ModSmall
    <3>2. d % WrapInt = d
      BY <1>0, <2>1, ModSmall
    <3> QED
      BY <2>1, <3>1, <3>2
  <2>2. CASE d < 0
    <3>1. d % WrapLong = d + WrapLong
      BY <1>0, <1>2, <2>2, ModSmall
    <3> DEFINE e == d + WrapLong
    <3>2. e \in Int /\ e = WrapInt * (k - 1) + (d + WrapInt)
      BY <1>0, <1>1
    <3>3. d + WrapInt \in 0 .. WrapInt - 1 /\ k - 1 \in Int
      BY <1>0, <2>2
    <3>4. e % WrapInt \in 0 .. WrapInt - 1 /\ \E q \in Int : e = WrapInt * q + (e % WrapInt)
      BY <1>0, <3>2, ModIs
    <3> HIDE DEF e
    <3> DEFINE f == e % WrapInt
    <3> HIDE DEF f
    <3>5. PICK q \in Int : e = WrapInt * q + f
      BY <3>4 DEF f
    <3>6. f \in 0 .. WrapInt - 1 /\ WrapInt * q + f = WrapInt * (k - 1) + (d + WrapInt)
      BY <3>2, <3>4, <3>5 DEF f
    <3>7. f = d + WrapInt
      BY <1>0, <3>3, <3>6, ModOnly
    <3> QED
      BY <2>2, <3>1, <3>7 DEF e, f
  <2> QED
    BY <2>1, <2>2
<1> HIDE DEF bits
<1>4. ToInt(d % WrapLong) = IF bits < WrapInt - bits THEN bits ELSE bits - WrapInt
  BY DEF ToInt, bits
<1> QED
  BY <1>0, <1>3, <1>4

\* An int is no wider than a long.
LEMMA WrapsNest == WrapInt <= WrapLong
<1>0. WrapInt \in Nat \ {0} /\ WrapLong \in Nat \ {0} /\ WrapLong % WrapInt = 0
  BY WidthAssumption
<1>1. WrapLong \in Int
  BY <1>0
<1>2. \E q \in Int : WrapLong = WrapInt * q + (WrapLong % WrapInt)
  BY <1>0, <1>1, ModIs
<1>3. PICK k \in Int : WrapLong = WrapInt * k
  BY <1>0, <1>2
<1> QED
  BY <1>0, <1>3

\* An environment is shorter than a long can tell.
LEMMA EnvFits == \A m \in Mms : EnvLen[m] \in Nat /\ EnvLen[m] < WrapLong
<1>1. WrapInt \in Nat /\ WrapLong \in Nat /\ WrapInt <= WrapLong
  BY WidthAssumption, WrapsNest
<1>2. \A m \in Mms : EnvLen[m] \in Nat /\ 2 * EnvLen[m] < WrapInt
  BY LengthAssumption, WidthAssumption
<1> QED
  BY <1>1, <1>2

\* How much the copy loop asks for: of environ, from near enough, no more than
\* is left.
LEMMA ThisLenIs ==
    ASSUME IInv, NEW r \in Readers, At(r, "loop")
    PROVE  /\ ThisLen(r) \in Int /\ ThisLen(r) <= rd[r].count
           /\ file[r] = "environ" /\ Near(r) => ThisLen(r) <= EnvLen[rd[r].mm] - rd[r].src
<1>1. /\ rd[r] \in Locals /\ rd[r].count \in Int /\ rd[r].src \in Nat /\ PAGE_SIZE \in Int
      /\ rd[r].mm \in Mms /\ EnvLen[rd[r].mm] \in Nat /\ rd[r].start \in Nat
  BY ReaderIs, LengthAssumption DEF Locals, ReaderOK, LocalsOK, PlaceOK, HoldsMm, At, pc
<1> DEFINE d == EnvLen[rd[r].mm] - rd[r].src
<1>a. d \in Int
  BY <1>1
<1>b. EnvLeft(r) \in Int
  <2> DEFINE e == d % WrapLong
  <2>1. e \in Int
    BY <1>a, WidthAssumption, ModIs
  <2> HIDE DEF e
  <2>2. e % WrapInt \in Int
    BY <2>1, WidthAssumption, ModIs
  <2>3. ToInt(e) \in Int
    BY <2>2, WidthAssumption DEF ToInt
  <2> QED
    BY <2>3 DEF EnvLeft, e
<1>c. file[r] = "environ" /\ Near(r) => EnvLeft(r) = d
  <2> SUFFICES ASSUME file[r] = "environ", Near(r) PROVE EnvLeft(r) = d
    OBVIOUS
  <2>1. rd[r].src >= rd[r].start /\ (rd[r].src > rd[r].start => rd[r].src <= EnvLen[rd[r].mm])
    BY ReaderIs DEF ReaderOK, HoldsMm, At, pc
  <2>2. 2 * EnvLen[rd[r].mm] < WrapInt /\ WrapInt \in Nat
    BY <1>1, WidthAssumption
  <2>3. 2 * d < WrapInt /\ -WrapInt <= 2 * d
    BY <1>1, <2>1, <2>2 DEF Near
  <2> HIDE DEF d
  <2>4. ToInt(d % WrapLong) = d
    BY <1>a, <2>3, ToIntIs
  <2> QED
    BY <2>4 DEF EnvLeft, d
<1> DEFINE left == IF file[r] = "mem" THEN rd[r].count ELSE EnvLeft(r)
<1>2. left \in Int /\ (file[r] = "environ" /\ Near(r) => left = d)
  BY <1>1, <1>b, <1>c
<1>3. ThisLen(r) = Min({left, rd[r].count, PAGE_SIZE})
  BY DEF ThisLen
<1> HIDE DEF left, d
<1>4. /\ ThisLen(r) \in {left, rd[r].count, PAGE_SIZE}
      /\ ThisLen(r) <= left /\ ThisLen(r) <= rd[r].count
  <2>1. left \in Int /\ rd[r].count \in Int /\ PAGE_SIZE \in Int
    BY <1>1, <1>2
  <2> DEFINE least == Min({left, rd[r].count, PAGE_SIZE})
  <2>2. least \in {left, rd[r].count, PAGE_SIZE} /\ least <= left /\ least <= rd[r].count
    BY <2>1, MinOfThree
  <2> QED
    BY <1>3, <2>2
<1> QED
  BY <1>1, <1>2, <1>4 DEF d

\* The copy loop, and simple_read_from_buffer().
LEMMA CopyingSteps ==
    ASSUME IInv, NEW r \in Readers, Copying(r), UNCHANGED <<task, mem, pages, paths, here>>
    PROVE  IInv'
<1>0. /\ TypeOK /\ rd[r] \in Locals /\ file[r] \in Files /\ f_pos[r] \in Nat /\ ReaderOK(r)
      /\ f_pos \in [Readers -> Nat] /\ rd \in [Readers -> Locals] /\ mm \in Mms \cup {None}
      /\ rd[r].src \in Nat /\ rd[r].start \in Nat /\ rd[r].count \in Nat /\ rd[r].ret \in Int
      /\ rd[r].got \in Nat /\ old_exec \in [Readers -> BOOLEAN] /\ tracer \in Readers \cup {None}
  BY ReaderIs, FromIInv DEF TypeOK, Locals
<1>1. /\ old_exec' \in [Readers -> BOOLEAN] /\ tracer' \in Readers \cup {None}
      /\ UNCHANGED <<task, mem, pages, paths, file, self>>
  BY <1>0 DEF here
<1>2. StepOf(r) /\ ReaderOK(r)' /\ Holdings(r) /\ FilterStays(r) => IInv'
  BY <1>1, QuietStep
<1>3. ASSUME NEW ret \in Int, Break(r, ret), pc(r) \in {"loop", "recheck", "copy"},
             ret > 0 => ret = rd[r].ret
      PROVE  IInv'
  <2>1. Moved(r, "mmput", ret)
    BY <1>0, <1>3, ExitIs DEF Break, PCs
  <2>2. f_pos' = [f_pos EXCEPT ![r] = rd[r].src] /\ f_pos'[r] = rd[r].src
    BY <1>0, <1>3 DEF Break
  <2>3. file[r] \in Memory /\ rd[r].src = (rd[r].start + rd[r].ret) % WrapLong
    BY <1>0, <1>3 DEF ReaderOK, LocalsOK, PlaceOK, Place, CopiedSoFar, Memory
  <2>4. StepOf(r) /\ Holdings(r) /\ FilterStays(r)
    BY <1>0, <1>1, <1>3, <2>1, <2>2, <2>3 DEF Moved, StepOf, Holdings, FilterStays, HoldsTask,
       HoldsMm, HoldsPage, HoldsExe, At, pc, Memory
  <2>5. ReaderOK(r)'
    BY <1>0, <1>1, <1>3, <2>1, <2>2, <2>3 DEF Moved, HoldsMm, At, pc, ReaderOK, LocalsOK, PlaceOK,
       Place, CopiedSoFar, Near, Memory
  <2> QED
    BY <1>2, <2>4, <2>5
<1>4. CASE CopyLoop(r)
  <2>1. pc(r) = "loop" /\ Place(file[r], "loop") /\ rd[r].mm \in Mms
    BY <1>0, <1>4 DEF CopyLoop, At, pc, ReaderOK, LocalsOK, PlaceOK, HoldsMm
  <2>2. /\ ThisLen(r) \in Int /\ ThisLen(r) <= rd[r].count
        /\ file[r] = "environ" /\ Near(r) => ThisLen(r) <= EnvLen[rd[r].mm] - rd[r].src
    BY <2>1, ThisLenIs DEF At, pc
  <2>3. CASE Break(r, rd[r].ret)
    BY <1>0, <1>3, <2>1, <2>3
  <2>4. CASE Break(r, 0)
    BY <1>0, <1>3, <2>1, <2>4
  <2>5. ASSUME NEW n \in Access(ThisLen(r)), ThisLen(r) > 0, UNCHANGED f_pos,
               rd' = [rd EXCEPT ![r].got = n, ![r].pc = IF file[r] = "mem" THEN "recheck"
                             ELSE "copy"]
        PROVE  IInv'
    <3>1. n \in Nat /\ n <= ThisLen(r)
      BY <2>2, <2>5 DEF Access
    <3>2. /\ n <= rd[r].count
          /\ file[r] = "environ" /\ Near(r) => rd[r].src + n <= EnvLen[rd[r].mm]
      BY <1>0, <2>1, <2>2, <3>1, LengthAssumption
    <3> DEFINE to == IF file[r] = "mem" THEN "recheck" ELSE "copy"
    <3>3. to \in PCs /\ to \in {"recheck", "copy"} /\ (to = "copy" <=> file[r] # "mem")
      BY DEF PCs
    <3>4. rd'[r] = [rd[r] EXCEPT !.got = n, !.pc = to] /\ rd' = [rd EXCEPT ![r] = rd'[r]]
      BY <1>0, <2>5
    <3> HIDE DEF to
    <3>5. /\ rd'[r] \in Locals /\ rd'[r].pc = to /\ rd'[r].got = n
          /\ rd'[r].ret = rd[r].ret /\ rd'[r].mm = rd[r].mm /\ rd'[r].src = rd[r].src
          /\ rd'[r].count = rd[r].count /\ rd'[r].start = rd[r].start
          /\ rd'[r].alone = rd[r].alone /\ rd'[r].exe = rd[r].exe
      BY <1>0, <3>1, <3>3, <3>4 DEF Locals
    <3>6. StepOf(r) /\ Holdings(r) /\ FilterStays(r)
      BY <1>0, <1>1, <2>1, <2>5, <3>3, <3>4, <3>5 DEF StepOf, Holdings, FilterStays, HoldsTask,
         HoldsMm, HoldsPage, HoldsExe, At, pc, Place, Memory, Info
    <3>7. Near(r)' <=> Near(r)
      BY <3>5 DEF Near
    <3>8. ReaderOK(r)'
      BY <1>0, <1>1, <2>1, <3>2, <3>3, <3>5, <3>7 DEF HoldsMm, At, pc, ReaderOK, LocalsOK,
         PlaceOK, Place, CopiedSoFar, Memory
    <3> QED
      BY <1>2, <3>6, <3>8
  <2>6. CASE rd[r].count = 0 \/ ThisLen(r) <= 0
    BY <1>4, <2>3, <2>6 DEF CopyLoop
  <2>7. CASE ~ (rd[r].count = 0 \/ ThisLen(r) <= 0)
    <3>1. ThisLen(r) > 0
      BY <2>2, <2>7
    <3>2. PICK n \in Access(ThisLen(r)) :
            IF file[r] = "environ" /\ n = 0
              THEN Break(r, 0)
              ELSE /\ rd' = [rd EXCEPT ![r].got = n,
                                ![r].pc = IF file[r] = "mem" THEN "recheck" ELSE "copy"]
                   /\ UNCHANGED f_pos
      BY <1>4, <2>7 DEF CopyLoop
    <3> QED
      BY <2>4, <2>5, <3>1, <3>2
  <2> QED
    BY <2>6, <2>7
<1>5. CASE Recheck(r)
  <2>1. pc(r) = "recheck" /\ Place(file[r], "recheck")
    BY <1>0, <1>5 DEF Recheck, At, pc, ReaderOK, LocalsOK, PlaceOK
  <2>2. CASE Break(r, IF rd[r].ret = 0 THEN EIO ELSE rd[r].ret)
    BY <1>0, <1>3, <2>1, <2>2 DEF EIO
  <2>3. CASE Goto(r, "copy") /\ UNCHANGED f_pos
    <3>1. Moved(r, "copy", rd[r].ret)
      BY <1>0, <2>3, GotoIs DEF PCs
    <3> QED
      BY <1>0, <1>1, <1>2, <2>1, <2>3, <3>1 DEF Moved, StepOf, Holdings, FilterStays,
         HoldsTask, HoldsMm, HoldsPage, HoldsExe, At, pc, ReaderOK, LocalsOK, PlaceOK,
         Place, CopiedSoFar, Memory
  <2> QED
    BY <1>5, <2>2, <2>3 DEF Recheck
<1>6. CASE CopyToUser(r)
  <2>1. pc(r) = "copy" /\ Place(file[r], "copy") /\ rd[r].mm \in Mms /\ rd[r].got <= rd[r].count
    BY <1>0, <1>6 DEF CopyToUser, At, pc, ReaderOK, LocalsOK, PlaceOK, CopiedSoFar, HoldsMm
  <2>2. CASE Break(r, EFAULT)
    BY <1>0, <1>3, <2>1, <2>2 DEF EFAULT
  <2>3. CASE rd' = [rd EXCEPT ![r] = Advance(r)] /\ UNCHANGED f_pos
    <3>1. "loop" \in PCs /\ 0 \in Nat /\ rd[r].ret + rd[r].got \in Int
          /\ (rd[r].src + rd[r].got) % WrapLong \in Nat /\ rd[r].count - rd[r].got \in Nat
      <4> DEFINE sum == rd[r].src + rd[r].got
      <4>1. sum \in Int
        BY <1>0
      <4> HIDE DEF sum
      <4>2. sum % WrapLong \in 0 .. WrapLong - 1 /\ WrapLong \in Nat
        BY <4>1, WidthAssumption, ModIs
      <4>3. sum % WrapLong \in Nat
        BY <4>2
      <4> QED
        BY <1>0, <2>1, <4>3 DEF PCs, sum
    <3>2. rd'[r] = Advance(r) /\ rd' = [rd EXCEPT ![r] = rd'[r]]
      BY <1>0, <2>3
    <3>3. /\ rd'[r] \in Locals /\ rd'[r].pc = "loop" /\ rd'[r].got = 0
          /\ rd'[r].ret = rd[r].ret + rd[r].got /\ rd'[r].src = (rd[r].src + rd[r].got) % WrapLong
          /\ rd'[r].mm = rd[r].mm /\ rd'[r].start = rd[r].start
          /\ rd'[r].alone = rd[r].alone /\ rd'[r].exe = rd[r].exe
      <4> DEFINE ret == rd[r].ret + rd[r].got
      <4> DEFINE src == (rd[r].src + rd[r].got) % WrapLong
      <4> DEFINE left == rd[r].count - rd[r].got
      <4>1. rd[r] \in Locals
        BY <1>0
      <4>2. rd'[r] = [rd[r] EXCEPT !.pc = "loop", !.ret = ret, !.src = src, !.count = left,
                                   !.got = 0]
        BY <3>2 DEF Advance
      <4>3. "loop" \in PCs /\ 0 \in Nat /\ ret \in Int /\ src \in Nat /\ left \in Nat
        BY <3>1
      <4> HIDE DEF ret, src, left
      <4>4. rd'[r] \in Locals
        BY <4>1, <4>2, <4>3 DEF Locals
      <4>5. /\ rd'[r].pc = "loop" /\ rd'[r].got = 0 /\ rd'[r].ret = ret /\ rd'[r].src = src
            /\ rd'[r].mm = rd[r].mm /\ rd'[r].start = rd[r].start
            /\ rd'[r].alone = rd[r].alone /\ rd'[r].exe = rd[r].exe
        BY <4>1, <4>2 DEF Locals
      <4> QED
        BY <4>4, <4>5 DEF ret, src
    <3>4. /\ rd[r].ret >= 0 /\ rd'[r].ret >= 0
          /\ rd'[r].src = (rd'[r].start + rd'[r].ret) % WrapLong
      <4>1. rd[r].ret >= 0 /\ rd[r].src = (rd[r].start + rd[r].ret) % WrapLong
        BY <1>0, <2>1 DEF ReaderOK, LocalsOK, CopiedSoFar
      <4>2. (((rd[r].start + rd[r].ret) % WrapLong) + rd[r].got) % WrapLong
              = ((rd[r].start + rd[r].ret) + rd[r].got) % WrapLong
        <5>1. rd[r].start + rd[r].ret \in Int /\ rd[r].got \in Int /\ WrapLong \in Nat \ {0}
          BY <1>0, WidthAssumption
        <5> QED
          BY <5>1, ModSum
      <4>3. (rd[r].start + rd[r].ret) + rd[r].got = rd[r].start + (rd[r].ret + rd[r].got)
        BY <1>0
      <4>4. rd[r].ret + rd[r].got >= 0
        BY <1>0, <4>1
      <4> QED
        BY <3>3, <4>1, <4>2, <4>3, <4>4
    <3>5. Near(r)' <=> Near(r)
      BY <3>3 DEF Near
    <3>6. file[r] = "environ" /\ Near(r)
            => rd'[r].src >= rd'[r].start /\ rd'[r].src <= EnvLen[rd[r].mm]
      <4> SUFFICES ASSUME file[r] = "environ", Near(r)
                   PROVE  rd'[r].src >= rd'[r].start /\ rd'[r].src <= EnvLen[rd[r].mm]
        OBVIOUS
      <4> DEFINE sum == rd[r].src + rd[r].got
      <4>1. sum <= EnvLen[rd[r].mm] /\ rd[r].src >= rd[r].start
        BY <1>0, <2>1 DEF ReaderOK, LocalsOK, CopiedSoFar, At, pc, HoldsMm
      <4>2. EnvLen[rd[r].mm] < WrapLong /\ sum \in Nat /\ EnvLen[rd[r].mm] \in Nat
        BY <1>0, <2>1, EnvFits, LengthAssumption
      <4>a. sum >= rd[r].start
        BY <1>0, <4>1
      <4> HIDE DEF sum
      <4>3. sum % WrapLong = sum
        BY <4>1, <4>2, ModSmall, WidthAssumption
      <4>4. rd'[r].src = sum
        BY <3>3, <4>3 DEF sum
      <4> QED
        BY <3>3, <4>1, <4>4, <4>a
    <3>7. StepOf(r) /\ Holdings(r) /\ FilterStays(r)
      BY <1>0, <1>1, <2>1, <2>3, <3>2, <3>3 DEF StepOf, Holdings, FilterStays, HoldsTask, HoldsMm,
         HoldsPage, HoldsExe, At, pc, Place, Memory, Info
    <3>8. ReaderOK(r)'
      <4>1. PlaceOK(r)'
        BY <1>1, <2>1, <3>3 DEF PlaceOK, Place, HoldsMm, At, pc, Memory
      <4>2. CopiedSoFar(r)'
        BY <3>3, <3>4 DEF CopiedSoFar, At, pc
      <4>3. LocalsOK(r)'
        BY <1>0, <2>1, <3>3, <4>1, <4>2 DEF ReaderOK, LocalsOK, At, pc
      <4>4. file[r] # "cmdline"
        BY <2>1 DEF Place, Memory, Info, Links
      <4> QED
        BY <1>1, <3>3, <3>5, <3>6, <4>3, <4>4 DEF ReaderOK, HoldsMm, At, pc
    <3> QED
      BY <1>2, <3>7, <3>8
  <2> QED
    BY <1>6, <2>2, <2>3 DEF CopyToUser
<1>7. CASE CopyOut(r)
  <2>1. pc(r) = "copyout" /\ Place(file[r], "copyout") /\ file[r] \notin Memory
    BY <1>0, <1>7 DEF CopyOut, At, pc, ReaderOK, LocalsOK, PlaceOK, Place, Memory, Info
  <2> DEFINE left == rd[r].ret - f_pos[r]
  <2> DEFINE n == IF left > 0 THEN Min({left, rd[r].count}) ELSE 0
  <2>2. n \in Nat /\ (n = 0 \/ n <= rd[r].ret)
    <3>1. left \in Int /\ rd[r].count \in Int /\ left <= rd[r].ret
      BY <1>0
    <3> HIDE DEF left
    <3>2. Min({left, rd[r].count}) \in {left, rd[r].count} /\ Min({left, rd[r].count}) <= left
      BY <3>1, MinIs
    <3>3. CASE left > 0
      BY <1>0, <3>1, <3>2, <3>3
    <3>4. CASE ~ (left > 0)
      BY <3>4
    <3> QED
      BY <3>3, <3>4
  <2>3. \/ Exit(r, "free", n) /\ f_pos' = [f_pos EXCEPT ![r] = @ + n]
        \/ Exit(r, "free", EFAULT) /\ UNCHANGED f_pos
    BY <1>7 DEF CopyOut
  <2> HIDE DEF n
  <2>4. /\ f_pos' = [f_pos EXCEPT ![r] = f_pos'[r]] /\ f_pos'[r] \in Nat
    BY <1>0, <2>2, <2>3
  <2>5. PICK ret \in Int : Moved(r, "free", ret) /\ (ret <= 0 \/ ret <= rd[r].ret)
    BY <1>0, <2>2, <2>3, ExitIs DEF PCs, EFAULT
  <2> QED
    BY <1>0, <1>1, <1>2, <2>1, <2>4, <2>5, LengthAssumption DEF Moved, StepOf, Holdings,
       FilterStays, HoldsTask, HoldsMm, HoldsPage, HoldsExe, At, pc, ReaderOK, LocalsOK,
       PlaceOK, Place, CopiedSoFar
<1> QED
  BY <1>4, <1>5, <1>6, <1>7 DEF Copying

\* What a reader does outside of the handlers, and the call.
LEMMA OutsideSteps ==
    ASSUME IInv, NEW r \in Readers,
           \/ Attach(r) \/ Detach(r) \/ ReaderExec(r) \/ Reopen(r)
           \/ \E offset \in Positions :
                default_llseek(r, offset) \/ \E orig \in 0 .. 2 : mem_lseek(r, offset, orig)
    PROVE  IInv'
<1>0. /\ TypeOK /\ rd[r] \in Locals /\ file[r] \in Files /\ f_pos[r] \in Nat /\ ReaderOK(r)
      /\ f_pos \in [Readers -> Nat] /\ rd \in [Readers -> Locals] /\ mm \in Mms \cup {None}
      /\ rd[r].src \in Nat /\ rd[r].start \in Nat /\ rd[r].count \in Nat /\ rd[r].ret \in Int
      /\ rd[r].got \in Nat /\ old_exec \in [Readers -> BOOLEAN] /\ tracer \in Readers \cup {None}
  BY ReaderIs, FromIInv DEF TypeOK, Locals
<1>1. ASSUME UNCHANGED <<task, mem, pages, paths, file, self>>, pc(r) = "idle",
             f_pos' = [f_pos EXCEPT ![r] = f_pos'[r]], f_pos'[r] \in Nat,
             UNCHANGED rd \/ \E ret \in {0, EINVAL} : rd' = [rd EXCEPT ![r] = Idle(ret)],
             old_exec' \in [Readers -> BOOLEAN], tracer' \in Readers \cup {None}
      PROVE  IInv'
  <2>1. StepOf(r) /\ ReaderOK(r)' /\ Holdings(r) /\ FilterStays(r) => IInv'
    BY <1>1, QuietStep
  <2>2. CASE UNCHANGED rd
    BY <1>0, <1>1, <2>1, <2>2 DEF StepOf, Holdings, FilterStays, HoldsTask, HoldsMm,
       HoldsPage, HoldsExe, At, pc, ReaderOK, LocalsOK, PlaceOK, CopiedSoFar
  <2>3. ASSUME NEW ret \in {0, EINVAL}, rd' = [rd EXCEPT ![r] = Idle(ret)] PROVE IInv'
    <3>0. ret \in Int /\ Return(r, ret)
      BY <2>3 DEF Return
    <3>1. Idled(r, ret)
      BY <1>0, <3>0, ReturnIs
    <3> QED
      BY <1>0, <1>1, <2>1, <3>1, LengthAssumption DEF Idled, EINVAL, StepOf, Holdings,
         FilterStays, HoldsTask, HoldsMm, HoldsPage, HoldsExe, At, pc, ReaderOK, LocalsOK,
         PlaceOK, CopiedSoFar
  <2> QED
    BY <1>1, <2>2, <2>3
<1>3. CASE Attach(r) \/ Detach(r) \/ ReaderExec(r)
  <2>1. /\ UNCHANGED <<task, mem, pages, paths, file, self, rd, f_pos>> /\ pc(r) = "idle"
        /\ tracer' \in Readers \cup {None}
    BY <1>0, <1>3 DEF Attach, Detach, ReaderExec, At, pc
  <2>2. old_exec' \in [Readers -> BOOLEAN]
    BY <1>0, <1>3 DEF Attach, Detach, ReaderExec
  <2> QED
    BY <1>0, <1>1, <2>1, <2>2
<1>4. CASE Reopen(r)
  <2>1. /\ UNCHANGED <<task, mem, pages, paths, file, self, tracer>> /\ pc(r) = "idle"
        /\ f_pos' = [f_pos EXCEPT ![r] = 0] /\ rd' = [rd EXCEPT ![r] = Idle(0)]
    BY <1>4 DEF Reopen, At, pc
  <2>2. old_exec' \in [Readers -> BOOLEAN]
    BY <1>0, <1>4 DEF Reopen
  <2> QED
    BY <1>0, <1>1, <2>1, <2>2
<1>5. ASSUME NEW offset \in Positions, default_llseek(r, offset) PROVE IInv'
  <2>1. /\ UNCHANGED <<task, mem, pages, paths, file, self, tracer, old_exec, rd>> /\ pc(r) = "idle"
        /\ f_pos' = [f_pos EXCEPT ![r] = offset] /\ offset \in Nat
    BY <1>5, LengthAssumption DEF default_llseek, At, pc
  <2> QED
    BY <1>0, <1>1, <2>1
<1>6. ASSUME NEW offset \in Positions, NEW orig \in 0 .. 2, mem_lseek(r, offset, orig) PROVE IInv'
  <2>1. UNCHANGED <<task, mem, pages, paths, file, self, tracer, old_exec>> /\ pc(r) = "idle"
    BY <1>6 DEF mem_lseek, At, pc
  <2>2. \/ \E to \in Nat : f_pos' = [f_pos EXCEPT ![r] = to] /\ UNCHANGED rd
        \/ rd' = [rd EXCEPT ![r] = Idle(EINVAL)] /\ UNCHANGED f_pos
    <3> DEFINE to == IF orig = 0 THEN offset ELSE f_pos[r] + offset
    <3>1. to \in Nat
      BY <1>0, LengthAssumption
    <3> QED
      BY <1>6, <3>1 DEF mem_lseek
  <2> QED
    BY <1>0, <1>1, <2>1, <2>2
<1> QED
  BY <1>3, <1>4, <1>5, <1>6

\* A call begins.
LEMMA CallStep ==
    ASSUME IInv, NEW r \in Readers, NEW k \in Counts, Call(r, k)
    PROVE  IInv'
<1>0. /\ TypeOK /\ rd[r] \in Locals /\ file[r] \in Files /\ f_pos[r] \in Nat /\ ReaderOK(r)
      /\ f_pos \in [Readers -> Nat] /\ rd \in [Readers -> Locals] /\ mm \in Mms \cup {None}
      /\ rd[r].src \in Nat /\ rd[r].start \in Nat /\ rd[r].count \in Nat /\ rd[r].ret \in Int
      /\ rd[r].got \in Nat /\ old_exec \in [Readers -> BOOLEAN] /\ tracer \in Readers \cup {None}
  BY ReaderIs, FromIInv DEF TypeOK, Locals
<1>1. /\ old_exec' \in [Readers -> BOOLEAN] /\ tracer' \in Readers \cup {None} /\ pc(r) = "idle"
      /\ UNCHANGED <<task, mem, pages, paths, file, self, f_pos>>
  BY <1>0 DEF Call, At, pc
<1>2. StepOf(r) /\ ReaderOK(r)' /\ Holdings(r) /\ FilterStays(r) => IInv'
  BY <1>1, QuietStep
<1> DEFINE n == IF file[r] \in Info THEN Min({k, PROC_BLOCK_SIZE})
              ELSE IF file[r] \in Sized THEN k ELSE 0
<1>3. n \in Nat
  <2>1. k \in Int /\ PROC_BLOCK_SIZE \in Int /\ PROC_BLOCK_SIZE \in Nat /\ k \in Nat
    BY LengthAssumption
  <2>2. Min({k, PROC_BLOCK_SIZE}) \in {k, PROC_BLOCK_SIZE}
    BY <2>1, MinIs
  <2> QED
    BY <2>1, <2>2
<1> DEFINE p == FirstPlace(r)
<1>4. /\ file[r] \in Links => p = "allowed"
      /\ file[r] = "filter_write" => p = "parse"
      /\ file[r] \in Files \ (Links \cup {"filter_write"}) => p = "task"
  BY <1>0, Onward
<1>5. rd' = [rd EXCEPT ![r] = [Idle(0) EXCEPT !.pc = p, !.src = f_pos[r] % WrapLong,
              !.start = f_pos[r], !.count = n]]
  BY DEF Call
<1> HIDE DEF n, p
<1>6. p \in {"allowed", "parse", "task"} /\ p \in PCs
  BY <1>0, <1>4 DEF PCs
<1> DEFINE x == [Idle(0) EXCEPT !.pc = p, !.src = f_pos[r] % WrapLong, !.start = f_pos[r],
                                !.count = n]
<1>7. /\ x \in Locals /\ x.pc = p /\ x.ret = 0 /\ x.src = f_pos[r] % WrapLong
      /\ x.start = f_pos[r] /\ x.got = 0 /\ ~ x.alone
  <2> DEFINE y == f_pos[r] % WrapLong
  <2>1. Idle(0) \in Locals
    BY IdleIs
  <2>2. Idle(0).ret = 0 /\ Idle(0).got = 0 /\ ~ Idle(0).alone
    BY DEF Idle
  <2>3. y \in Nat
    BY <1>0, WidthAssumption, ModIs
  <2> HIDE DEF y
  <2>4. x = [Idle(0) EXCEPT !.pc = p, !.src = y, !.start = f_pos[r], !.count = n]
    BY DEF y
  <2>5. x \in Locals /\ x.pc = p /\ x.ret = 0 /\ x.src = y /\ x.start = f_pos[r] /\ x.got = 0
        /\ ~ x.alone
    BY <1>0, <1>3, <1>6, <2>1, <2>2, <2>3, <2>4 DEF Locals
  <2> QED
    BY <2>5 DEF y
<1>8. rd' = [rd EXCEPT ![r] = x]
  BY <1>5
<1> HIDE DEF x
<1>9. rd' = [rd EXCEPT ![r] = rd'[r]] /\ rd'[r] = x
  BY <1>0, <1>8
<1> QED
  BY <1>0, <1>1, <1>2, <1>4, <1>6, <1>7, <1>9, LengthAssumption DEF StepOf, Holdings,
     FilterStays, HoldsTask, HoldsMm, HoldsPage, HoldsExe, At, pc, ReaderOK, LocalsOK,
     PlaceOK, Place, CopiedSoFar, Links, Memory, Info

GoodStep(r) == StepOf(r) /\ ReaderOK(r)' /\ FilterStays(r)

\* r takes or puts something other than the last user of an image.
LEMMA TakingStep ==
    ASSUME IInv, NEW r \in Readers, GoodStep(r), TakesAndPuts(r),
           UNCHANGED <<image, old_exec, tracer>>, ImageTypeOK',
           mem'.flags = mem.flags, mem'.exe_file = mem.exe_file, mem'.vmas = mem.vmas,
           \A m \in Mms : mem'.users[m] = 0 => mem.users[m] = 0,
           child # None => mem'.users[child] = mem.users[child]
    PROVE  IInv'
<1>0. /\ TypeOK /\ Balance /\ StepOf(r) /\ ReaderOK(r)' /\ FilterStays(r)
      /\ old_exec' \in [Readers -> BOOLEAN] /\ tracer' \in Readers \cup {None}
  BY FromIInv DEF TypeOK, GoodStep
<1>1. Balance'
  BY <1>0, ReaderBalanced
<1>2. Shared'
  <2>1. \A q \in Readers : FilterStays(q)
    BY <1>0, OthersStay
  <2> QED
    BY <2>1, SharedSame, ImageSame
<1> QED
  BY <1>0, <1>1, <1>2, ReaderStep

\* r takes or puts pages or paths.
LEMMA PageStep ==
    ASSUME IInv, NEW r \in Readers, GoodStep(r), UNCHANGED <<task, mem, here>>,
           HoldsTask(r)' <=> HoldsTask(r), HoldsMm(r)' <=> HoldsMm(r),
           HoldsMm(r) => rd'[r].mm = rd[r].mm,
           \A f \in Exes : HoldsExe(r, f)' <=> HoldsExe(r, f),
           PagesMatched(r), PathsMatched(r)
    PROVE  IInv'
<1>1. TakesAndPuts(r)
  BY Unmoved, ImageSame DEF TakesAndPuts
<1>2. ImageTypeOK'
  BY FromIInv, ImageSame DEF ImageTypeOK
<1> QED
  BY <1>1, <1>2, TakingStep, ImageSame DEF here

\* r takes or puts the task.
LEMMA TaskStep ==
    ASSUME IInv, NEW r \in Readers, GoodStep(r), UNCHANGED <<hashed, image, mem, here>>,
           usage' \in Int, TaskMatched(r), HoldsMm(r)' <=> HoldsMm(r),
           HoldsMm(r) => rd'[r].mm = rd[r].mm,
           \A f \in Exes : HoldsExe(r, f)' <=> HoldsExe(r, f),
           PagesMatched(r), PathsMatched(r)
    PROVE  IInv'
<1>1. TakesAndPuts(r)
  BY Unmoved, ImageSame DEF TakesAndPuts
<1>2. ImageTypeOK'
  BY FromIInv, ImageSame DEF ImageTypeOK
<1> QED
  BY <1>1, <1>2, TakingStep DEF here

\* get_proc_task()
LEMMA GetTaskStep == ASSUME IInv, NEW r \in Readers, GetTask(r) PROVE IInv'
<1>0. /\ TypeOK /\ rd[r] \in Locals /\ file[r] \in Files /\ f_pos[r] \in Nat /\ ReaderOK(r)
      /\ f_pos \in [Readers -> Nat] /\ rd \in [Readers -> Locals] /\ mm \in Mms \cup {None}
      /\ rd[r].src \in Nat /\ rd[r].start \in Nat /\ rd[r].count \in Nat /\ rd[r].ret \in Int
      /\ usage \in Int /\ pages \in Int /\ paths \in Int /\ mem \in Mem /\ ImageTypeOK
  BY ReaderIs, FromIInv DEF TypeOK, ImageTypeOK, Locals
<1>1. pc(r) = "task" /\ Place(file[r], "task")
  BY <1>0 DEF GetTask, At, pc, ReaderOK, LocalsOK, PlaceOK
<1>2. UNCHANGED <<hashed, image, mem, f_pos, pages, paths, here, file, self>>
  BY DEF GetTask, here
<1>3. ASSUME NEW label \in {"permit", "page", "mm", "fs", "attr", "put"}, NEW ret \in Int,
             Moved(r, label, ret), Place(file[r], label), usage' = usage + 1,
             label = "mm" => file[r] \in Filter \cup {"maps", "exe"},
             label = "put" => file[r] = "attr_write",
             label # "put" => ret = rd[r].ret
      PROVE  IInv'
  <2>1. GoodStep(r)
    BY <1>0, <1>1, <1>2, <1>3 DEF Moved, GoodStep, StepOf, FilterStays, HoldsMm, At, pc,
       ReaderOK, LocalsOK, PlaceOK, CopiedSoFar, Memory
  <2>2. /\ HoldsTask(r)' /\ ~ HoldsTask(r) /\ ~ HoldsMm(r)' /\ ~ HoldsMm(r)
        /\ ~ HoldsPage(r)' /\ ~ HoldsPage(r) /\ ~ At(r, "path")' /\ ~ At(r, "path")
        /\ \A f \in Exes : ~ HoldsExe(r, f)' /\ ~ HoldsExe(r, f)
    BY <1>1, <1>2, <1>3 DEF Moved, HoldsTask, HoldsMm, HoldsPage, HoldsExe, At, pc, Place,
       Memory, Info, Filter
  <2>3. TaskMatched(r) /\ PagesMatched(r) /\ PathsMatched(r) /\ usage' \in Int
    BY <1>0, <1>2, <1>3, <2>2 DEF TaskMatched, PagesMatched, PathsMatched, One
  <2> QED
    BY <1>2, <2>1, <2>2, <2>3, TaskStep
<1>4. CASE hashed
  <2>0. usage' = usage + 1
    BY <1>4 DEF GetTask
  <2>1. CASE Exit(r, "put", EINVAL) /\ file[r] = "attr_write"
    <3>1. Moved(r, "put", EINVAL)
      BY <1>0, <2>1, ExitIs DEF PCs, EINVAL
    <3> QED
      BY <1>3, <2>0, <2>1, <3>1 DEF EINVAL, Place
  <2>2. CASE Goto(r, AfterTask(r))
    <3> DEFINE label == AfterTask(r)
    <3>1. /\ label \in {"permit", "page", "mm", "fs", "attr"} /\ Place(file[r], label)
          /\ label = "mm" => file[r] \in Filter \cup {"maps", "exe"}
      BY <1>0, Onward DEF Place, Files, Links, Filter
    <3> HIDE DEF label
    <3>2. label \in PCs /\ Goto(r, label)
      BY <2>2, <3>1 DEF PCs, label
    <3>3. Moved(r, label, rd[r].ret)
      BY <1>0, <3>2, GotoIs
    <3> QED
      BY <1>0, <1>3, <2>0, <3>1, <3>3
  <2> QED
    BY <1>4, <2>1, <2>2 DEF GetTask
<1>5. CASE ~ hashed
  <2>1. UNCHANGED usage /\ Return(r, IF file[r] \in Links THEN ENOENT ELSE ESRCH)
    BY <1>5 DEF GetTask
  <2>2. PICK ret \in Int : ret < 0 /\ Idled(r, ret)
    <3>1. (IF file[r] \in Links THEN ENOENT ELSE ESRCH) \in {ENOENT, ESRCH}
      OBVIOUS
    <3>2. PICK ret \in {ENOENT, ESRCH} : Return(r, ret)
      BY <2>1, <3>1
    <3>3. ret \in Int /\ ret < 0
      BY <3>2 DEF ENOENT, ESRCH
    <3> QED
      BY <1>0, <3>2, <3>3, ReturnIs
  <2>3. GoodStep(r)
    BY <1>0, <1>1, <1>2, <2>2, LengthAssumption DEF Idled, GoodStep, StepOf, FilterStays,
       HoldsMm, At, pc, ReaderOK, LocalsOK, PlaceOK, Place, CopiedSoFar
  <2>4. /\ ~ HoldsTask(r)' /\ ~ HoldsTask(r) /\ ~ HoldsMm(r)' /\ ~ HoldsMm(r)
        /\ ~ HoldsPage(r)' /\ ~ HoldsPage(r) /\ ~ At(r, "path")' /\ ~ At(r, "path")
        /\ \A f \in Exes : ~ HoldsExe(r, f)' /\ ~ HoldsExe(r, f)
    BY <1>1, <1>2, <2>2 DEF Idled, HoldsTask, HoldsMm, HoldsPage, HoldsExe, At, pc
  <2>5. PagesMatched(r) /\ PathsMatched(r)
    BY <1>0, <1>2, <2>4 DEF PagesMatched, PathsMatched, One
  <2> QED
    BY <1>2, <2>1, <2>3, <2>4, <2>5, PageStep DEF task
<1> QED
  BY <1>4, <1>5

\* __get_free_page()
LEMMA GetPageStep == ASSUME IInv, NEW r \in Readers, GetPage(r) PROVE IInv'
<1>0. /\ TypeOK /\ rd[r] \in Locals /\ file[r] \in Files /\ f_pos[r] \in Nat /\ ReaderOK(r)
      /\ f_pos \in [Readers -> Nat] /\ rd \in [Readers -> Locals] /\ mm \in Mms \cup {None}
      /\ rd[r].src \in Nat /\ rd[r].start \in Nat /\ rd[r].count \in Nat /\ rd[r].ret \in Int
      /\ usage \in Int /\ pages \in Int /\ paths \in Int /\ mem \in Mem /\ ImageTypeOK
  BY ReaderIs, FromIInv DEF TypeOK, ImageTypeOK, Locals
<1>1. pc(r) = "page" /\ Place(file[r], "page")
  BY <1>0 DEF GetPage, At, pc, ReaderOK, LocalsOK, PlaceOK
<1>2. UNCHANGED <<task, mem, f_pos, paths, here, file, self>>
  BY DEF GetPage, here
<1>3. CASE pages' = pages + 1 /\ Goto(r, IF file[r] = "attr_write" THEN "copyin" ELSE "mm")
  <2> DEFINE label == IF file[r] = "attr_write" THEN "copyin" ELSE "mm"
  <2>0. label \in PCs /\ label \in {"copyin", "mm"} /\ (label = "copyin" <=> file[r] = "attr_write")
    BY DEF PCs
  <2>1. Goto(r, label)
    BY <1>3
  <2> HIDE DEF label
  <2>2. Moved(r, label, rd[r].ret)
    BY <1>0, <2>0, <2>1, GotoIs
  <2>3. GoodStep(r)
    BY <1>0, <1>1, <1>2, <2>0, <2>2 DEF Moved, GoodStep, StepOf, FilterStays, HoldsMm, At,
       pc, ReaderOK, LocalsOK, PlaceOK, Place, CopiedSoFar
  <2>4. /\ HoldsTask(r)' /\ HoldsTask(r) /\ ~ HoldsMm(r)' /\ ~ HoldsMm(r)
        /\ HoldsPage(r)' /\ ~ HoldsPage(r) /\ ~ At(r, "path")' /\ ~ At(r, "path")
        /\ \A f \in Exes : ~ HoldsExe(r, f)' /\ ~ HoldsExe(r, f)
    BY <1>1, <1>2, <2>0, <2>2 DEF Moved, HoldsTask, HoldsMm, HoldsPage, HoldsExe, At, pc,
       Place
  <2>5. PagesMatched(r) /\ PathsMatched(r)
    BY <1>0, <1>2, <1>3, <2>4 DEF PagesMatched, PathsMatched, One
  <2> QED
    BY <1>2, <2>3, <2>4, <2>5, PageStep
<1>4. CASE Exit(r, "put", ENOMEM) /\ UNCHANGED pages
  <2>2. Moved(r, "put", ENOMEM)
    BY <1>0, <1>4, ExitIs DEF PCs, ENOMEM
  <2>3. GoodStep(r)
    BY <1>0, <1>1, <1>2, <2>2, LengthAssumption DEF Moved, GoodStep, StepOf, FilterStays,
       HoldsMm, At, pc, ReaderOK, LocalsOK, PlaceOK, Place, CopiedSoFar, ENOMEM
  <2>4. /\ HoldsTask(r)' /\ HoldsTask(r) /\ ~ HoldsMm(r)' /\ ~ HoldsMm(r)
        /\ ~ HoldsPage(r)' /\ ~ HoldsPage(r) /\ ~ At(r, "path")' /\ ~ At(r, "path")
        /\ \A f \in Exes : ~ HoldsExe(r, f)' /\ ~ HoldsExe(r, f)
    BY <1>1, <1>2, <2>2 DEF Moved, HoldsTask, HoldsMm, HoldsPage, HoldsExe, At, pc
  <2>5. PagesMatched(r) /\ PathsMatched(r)
    BY <1>0, <1>2, <1>4, <2>4 DEF PagesMatched, PathsMatched, One
  <2> QED
    BY <1>2, <2>3, <2>4, <2>5, PageStep
<1> QED
  BY <1>3, <1>4 DEF GetPage

\* The path of a link is used and put.
LEMMA UsePathStep == ASSUME IInv, NEW r \in Readers, UsePath(r) PROVE IInv'
<1>0. /\ TypeOK /\ rd[r] \in Locals /\ file[r] \in Files /\ f_pos[r] \in Nat /\ ReaderOK(r)
      /\ f_pos \in [Readers -> Nat] /\ rd \in [Readers -> Locals] /\ mm \in Mms \cup {None}
      /\ rd[r].src \in Nat /\ rd[r].start \in Nat /\ rd[r].count \in Nat /\ rd[r].ret \in Int
      /\ usage \in Int /\ pages \in Int /\ paths \in Int /\ mem \in Mem /\ ImageTypeOK
  BY ReaderIs, FromIInv DEF TypeOK, ImageTypeOK, Locals
<1>1. pc(r) = "path" /\ Place(file[r], "path")
  BY <1>0 DEF UsePath, At, pc, ReaderOK, LocalsOK, PlaceOK
<1>2. UNCHANGED <<task, mem, f_pos, pages, here, file, self>> /\ paths' = paths - 1
  BY DEF UsePath, here
<1>3. PICK ret \in Int : Idled(r, ret)
  <2>1. PICK ret \in {0, 1, ENOMEM, EFAULT} : Return(r, ret)
    BY DEF UsePath
  <2>2. ret \in Int
    BY <2>1
  <2> QED
    BY <1>0, <2>1, <2>2, ReturnIs
<1>4. GoodStep(r)
  BY <1>0, <1>1, <1>2, <1>3 DEF Idled, GoodStep, StepOf, FilterStays, HoldsMm, At, pc,
     ReaderOK, LocalsOK, PlaceOK, Place, CopiedSoFar, Links
<1>5. /\ ~ HoldsTask(r)' /\ ~ HoldsTask(r) /\ ~ HoldsMm(r)' /\ ~ HoldsMm(r)
      /\ ~ HoldsPage(r)' /\ ~ HoldsPage(r) /\ ~ At(r, "path")' /\ At(r, "path")
      /\ \A f \in Exes : ~ HoldsExe(r, f)' /\ ~ HoldsExe(r, f)
  BY <1>1, <1>2, <1>3 DEF Idled, HoldsTask, HoldsMm, HoldsPage, HoldsExe, At, pc, Place,
     Links, Memory, Info
<1>6. PagesMatched(r) /\ PathsMatched(r)
  BY <1>0, <1>2, <1>5 DEF PagesMatched, PathsMatched, One
<1> QED
  BY <1>2, <1>4, <1>5, <1>6, PageStep

\* free_page() or kfree()
LEMMA FreePageStep == ASSUME IInv, NEW r \in Readers, FreePage(r) PROVE IInv'
<1>0. /\ TypeOK /\ rd[r] \in Locals /\ file[r] \in Files /\ f_pos[r] \in Nat /\ ReaderOK(r)
      /\ f_pos \in [Readers -> Nat] /\ rd \in [Readers -> Locals] /\ mm \in Mms \cup {None}
      /\ rd[r].src \in Nat /\ rd[r].start \in Nat /\ rd[r].count \in Nat /\ rd[r].ret \in Int
      /\ usage \in Int /\ pages \in Int /\ paths \in Int /\ mem \in Mem /\ ImageTypeOK
  BY ReaderIs, FromIInv DEF TypeOK, ImageTypeOK, Locals
<1>1. pc(r) = "free" /\ Place(file[r], "free")
  BY <1>0 DEF FreePage, At, pc, ReaderOK, LocalsOK, PlaceOK
<1>2. UNCHANGED <<task, mem, f_pos, paths, here, file, self>>
  BY DEF FreePage, here
<1>3. CASE file[r] = "attr_read"
  <2>1. Idled(r, rd[r].ret)
    BY <1>0, <1>3, ReturnIs DEF FreePage
  <2>2. GoodStep(r)
    BY <1>0, <1>1, <1>2, <1>3, <2>1 DEF Idled, GoodStep, StepOf, FilterStays, HoldsMm, At,
       pc, ReaderOK, LocalsOK, PlaceOK, Place, CopiedSoFar
  <2>3. /\ ~ HoldsTask(r)' /\ ~ HoldsTask(r) /\ ~ HoldsMm(r)' /\ ~ HoldsMm(r)
        /\ ~ HoldsPage(r)' /\ HoldsPage(r) /\ ~ At(r, "path")' /\ ~ At(r, "path")
        /\ \A f \in Exes : ~ HoldsExe(r, f)' /\ ~ HoldsExe(r, f)
    BY <1>1, <1>2, <1>3, <2>1 DEF Idled, HoldsTask, HoldsMm, HoldsPage, HoldsExe, At, pc
  <2>4. pages' = pages - 1
    BY <1>3 DEF FreePage, Filter
  <2>5. PagesMatched(r) /\ PathsMatched(r)
    BY <1>0, <1>2, <2>3, <2>4 DEF PagesMatched, PathsMatched, One
  <2> QED
    BY <1>2, <2>2, <2>3, <2>5, PageStep
<1>4. CASE file[r] # "attr_read"
  <2>1. Moved(r, "put", rd[r].ret)
    BY <1>0, <1>4, GotoIs DEF FreePage, PCs
  <2>2. GoodStep(r)
    BY <1>0, <1>1, <1>2, <1>4, <2>1 DEF Moved, GoodStep, StepOf, FilterStays, HoldsMm, At,
       pc, ReaderOK, LocalsOK, PlaceOK, Place, CopiedSoFar
  <2>3. /\ HoldsTask(r)' /\ HoldsTask(r) /\ ~ HoldsMm(r)' /\ ~ HoldsMm(r)
        /\ ~ HoldsPage(r)' /\ (HoldsPage(r) <=> file[r] \notin Filter)
        /\ ~ At(r, "path")' /\ ~ At(r, "path")
        /\ \A f \in Exes : ~ HoldsExe(r, f)' /\ ~ HoldsExe(r, f)
    BY <1>1, <1>2, <1>4, <2>1 DEF Moved, HoldsTask, HoldsMm, HoldsPage, HoldsExe, At, pc,
       Place, Memory, Info, Filter
  <2>4. pages' = IF file[r] \in Filter THEN pages ELSE pages - 1
    BY DEF FreePage
  <2>5. PagesMatched(r) /\ PathsMatched(r)
    BY <1>0, <1>2, <2>3, <2>4 DEF PagesMatched, PathsMatched, One
  <2> QED
    BY <1>2, <2>2, <2>3, <2>5, PageStep
<1> QED
  BY <1>3, <1>4

\* put_task_struct() and return
LEMMA PutTaskStep == ASSUME IInv, NEW r \in Readers, PutTask(r) PROVE IInv'
<1>0. /\ TypeOK /\ rd[r] \in Locals /\ file[r] \in Files /\ f_pos[r] \in Nat /\ ReaderOK(r)
      /\ f_pos \in [Readers -> Nat] /\ rd \in [Readers -> Locals] /\ mm \in Mms \cup {None}
      /\ rd[r].src \in Nat /\ rd[r].start \in Nat /\ rd[r].count \in Nat /\ rd[r].ret \in Int
      /\ usage \in Int /\ pages \in Int /\ paths \in Int /\ mem \in Mem /\ ImageTypeOK
  BY ReaderIs, FromIInv DEF TypeOK, ImageTypeOK, Locals
<1>1. pc(r) = "put" /\ Place(file[r], "put")
  BY <1>0 DEF PutTask, At, pc, ReaderOK, LocalsOK, PlaceOK
<1>2. /\ UNCHANGED <<hashed, image, mem, f_pos, pages, paths, here, file, self>>
      /\ usage' = usage - 1
  BY DEF PutTask, here
<1>3. Idled(r, rd[r].ret)
  BY <1>0, ReturnIs DEF PutTask
<1>4. GoodStep(r)
  <2>1. StepOf(r) /\ FilterStays(r)
    BY <1>0, <1>2, <1>3 DEF Idled, StepOf, FilterStays
  <2>2. ReaderOK(r)'
    BY <1>0, <1>2, <1>3, LengthAssumption DEF Idled, ReaderOK, LocalsOK, PlaceOK, Place,
       CopiedSoFar, HoldsMm, At, pc
  <2> QED
    BY <2>1, <2>2 DEF GoodStep
<1>5. /\ ~ HoldsTask(r)' /\ HoldsTask(r) /\ ~ HoldsMm(r)' /\ ~ HoldsMm(r)
      /\ ~ HoldsPage(r)' /\ ~ HoldsPage(r) /\ ~ At(r, "path")' /\ ~ At(r, "path")
      /\ \A f \in Exes : ~ HoldsExe(r, f)' /\ ~ HoldsExe(r, f)
  BY <1>1, <1>2, <1>3 DEF Idled, HoldsTask, HoldsMm, HoldsPage, HoldsExe, At, pc
<1>6. TaskMatched(r) /\ PagesMatched(r) /\ PathsMatched(r) /\ usage' \in Int
  BY <1>0, <1>2, <1>5 DEF TaskMatched, PagesMatched, PathsMatched, One
<1> QED
  BY <1>2, <1>4, <1>5, <1>6, TaskStep

\* get_fs_path() and put_task_struct()
LEMMA GetFsPathStep == ASSUME IInv, NEW r \in Readers, GetFsPath(r) PROVE IInv'
<1>0. /\ TypeOK /\ rd[r] \in Locals /\ file[r] \in Files /\ f_pos[r] \in Nat /\ ReaderOK(r)
      /\ f_pos \in [Readers -> Nat] /\ rd \in [Readers -> Locals] /\ mm \in Mms \cup {None}
      /\ rd[r].src \in Nat /\ rd[r].start \in Nat /\ rd[r].count \in Nat /\ rd[r].ret \in Int
      /\ usage \in Int /\ pages \in Int /\ paths \in Int /\ mem \in Mem /\ ImageTypeOK
  BY ReaderIs, FromIInv DEF TypeOK, ImageTypeOK, Locals
<1>1. pc(r) = "fs" /\ Place(file[r], "fs")
  BY <1>0 DEF GetFsPath, At, pc, ReaderOK, LocalsOK, PlaceOK
<1>2. /\ UNCHANGED <<hashed, image, mem, f_pos, pages, here, file, self>>
      /\ usage' = usage - 1
  BY DEF GetFsPath, here
<1>3. CASE fs
  <2>1. Moved(r, "path", rd[r].ret) /\ paths' = paths + 1
    BY <1>0, <1>3, GotoIs DEF GetFsPath, PCs
  <2>2. GoodStep(r)
    BY <1>0, <1>1, <1>2, <2>1 DEF Moved, GoodStep, StepOf, FilterStays, HoldsMm, At, pc,
       ReaderOK, LocalsOK, PlaceOK, Place, CopiedSoFar, Links
  <2>3. /\ ~ HoldsTask(r)' /\ HoldsTask(r) /\ ~ HoldsMm(r)' /\ ~ HoldsMm(r)
        /\ ~ HoldsPage(r)' /\ ~ HoldsPage(r) /\ At(r, "path")' /\ ~ At(r, "path")
        /\ \A f \in Exes : ~ HoldsExe(r, f)' /\ ~ HoldsExe(r, f)
    BY <1>1, <1>2, <2>1 DEF Moved, HoldsTask, HoldsMm, HoldsPage, HoldsExe, At, pc, Place,
       Memory, Info
  <2>4. TaskMatched(r) /\ PagesMatched(r) /\ PathsMatched(r) /\ usage' \in Int
    BY <1>0, <1>2, <2>1, <2>3 DEF TaskMatched, PagesMatched, PathsMatched, One
  <2> QED
    BY <1>2, <2>2, <2>3, <2>4, TaskStep
<1>4. CASE ~ fs
  <2>1. Idled(r, ENOENT) /\ UNCHANGED paths
    BY <1>0, <1>4, ReturnIs DEF GetFsPath, ENOENT
  <2>2. GoodStep(r)
    BY <1>0, <1>1, <1>2, <2>1 DEF Idled, GoodStep, StepOf, FilterStays, HoldsMm, At, pc,
       ReaderOK, LocalsOK, PlaceOK, Place, CopiedSoFar
  <2>3. /\ ~ HoldsTask(r)' /\ HoldsTask(r) /\ ~ HoldsMm(r)' /\ ~ HoldsMm(r)
        /\ ~ HoldsPage(r)' /\ ~ HoldsPage(r) /\ ~ At(r, "path")' /\ ~ At(r, "path")
        /\ \A f \in Exes : ~ HoldsExe(r, f)' /\ ~ HoldsExe(r, f)
    BY <1>1, <1>2, <2>1 DEF Idled, HoldsTask, HoldsMm, HoldsPage, HoldsExe, At, pc, Place,
       Memory, Info
  <2>4. TaskMatched(r) /\ PagesMatched(r) /\ PathsMatched(r) /\ usage' \in Int
    BY <1>0, <1>2, <2>1, <2>3 DEF TaskMatched, PagesMatched, PathsMatched, One
  <2> QED
    BY <1>2, <2>2, <2>3, <2>4, TaskStep
<1> QED
  BY <1>3, <1>4

\* security_getprocattr() and put_task_struct()
LEMMA AttrReadStep == ASSUME IInv, NEW r \in Readers, AttrRead(r) PROVE IInv'
<1>0. /\ TypeOK /\ rd[r] \in Locals /\ file[r] \in Files /\ f_pos[r] \in Nat /\ ReaderOK(r)
      /\ f_pos \in [Readers -> Nat] /\ rd \in [Readers -> Locals] /\ mm \in Mms \cup {None}
      /\ rd[r].src \in Nat /\ rd[r].start \in Nat /\ rd[r].count \in Nat /\ rd[r].ret \in Int
      /\ usage \in Int /\ pages \in Int /\ paths \in Int /\ mem \in Mem /\ ImageTypeOK
  BY ReaderIs, FromIInv DEF TypeOK, ImageTypeOK, Locals
<1>1. pc(r) = "attr" /\ Place(file[r], "attr")
  BY <1>0 DEF AttrRead, At, pc, ReaderOK, LocalsOK, PlaceOK
<1>2. /\ UNCHANGED <<hashed, image, mem, f_pos, paths, here, file, self>>
      /\ usage' = usage - 1
  BY DEF AttrRead, here
<1>3. ASSUME NEW n \in 1 .. PAGE_SIZE, Exit(r, "copyout", n), pages' = pages + 1 PROVE IInv'
  <2>1. Moved(r, "copyout", n)
    <3>1. n \in Int /\ "copyout" \in PCs
      BY DEF PCs
    <3> QED
      BY <1>0, <1>3, <3>1, ExitIs
  <2>2. GoodStep(r)
    BY <1>0, <1>1, <1>2, <2>1 DEF Moved, GoodStep, StepOf, FilterStays, HoldsMm, At, pc,
       ReaderOK, LocalsOK, PlaceOK, Place, CopiedSoFar
  <2>3. /\ ~ HoldsTask(r)' /\ HoldsTask(r) /\ ~ HoldsMm(r)' /\ ~ HoldsMm(r)
        /\ HoldsPage(r)' /\ ~ HoldsPage(r) /\ ~ At(r, "path")' /\ ~ At(r, "path")
        /\ \A f \in Exes : ~ HoldsExe(r, f)' /\ ~ HoldsExe(r, f)
    BY <1>1, <1>2, <2>1 DEF Moved, HoldsTask, HoldsMm, HoldsPage, HoldsExe, At, pc, Place,
       Memory, Info
  <2>4. TaskMatched(r) /\ PagesMatched(r) /\ PathsMatched(r) /\ usage' \in Int
    BY <1>0, <1>2, <1>3, <2>3 DEF TaskMatched, PagesMatched, PathsMatched, One
  <2> QED
    BY <1>2, <2>2, <2>3, <2>4, TaskStep
<1>4. ASSUME NEW e \in {0, EINVAL}, Return(r, e), UNCHANGED pages PROVE IInv'
  <2>1. Idled(r, e)
    <3>1. e \in Int
      OBVIOUS
    <3> QED
      BY <1>0, <1>4, <3>1, ReturnIs
  <2>2. GoodStep(r)
    BY <1>0, <1>1, <1>2, <2>1 DEF Idled, GoodStep, StepOf, FilterStays, HoldsMm, At, pc,
       ReaderOK, LocalsOK, PlaceOK, Place, CopiedSoFar
  <2>3. /\ ~ HoldsTask(r)' /\ HoldsTask(r) /\ ~ HoldsMm(r)' /\ ~ HoldsMm(r)
        /\ ~ HoldsPage(r)' /\ ~ HoldsPage(r) /\ ~ At(r, "path")' /\ ~ At(r, "path")
        /\ \A f \in Exes : ~ HoldsExe(r, f)' /\ ~ HoldsExe(r, f)
    BY <1>1, <1>2, <2>1 DEF Idled, HoldsTask, HoldsMm, HoldsPage, HoldsExe, At, pc, Place,
       Memory, Info
  <2>4. TaskMatched(r) /\ PagesMatched(r) /\ PathsMatched(r) /\ usage' \in Int
    BY <1>0, <1>2, <1>4, <2>3 DEF TaskMatched, PagesMatched, PathsMatched, One
  <2> QED
    BY <1>2, <2>2, <2>3, <2>4, TaskStep
<1> QED
  BY <1>3, <1>4 DEF AttrRead

\* r lets go of the image it has pinned.
LEMMA MmputStep ==
    ASSUME IInv, NEW r \in Readers, GoodStep(r), HoldsMm(r), ~ HoldsMm(r)',
           mem' = mmput(mem, rd[r].mm), UNCHANGED <<task, here>>,
           HoldsTask(r)' <=> HoldsTask(r), \A f \in Exes : HoldsExe(r, f)' <=> HoldsExe(r, f),
           PagesMatched(r), PathsMatched(r)
    PROVE  IInv'
<1> DEFINE m == rd[r].mm
<1>0. /\ TypeOK /\ Balance /\ ImageTypeOK /\ mem \in Mem /\ StepOf(r) /\ ReaderOK(r)' /\
              FilterStays(r)
      /\ m \in Mms /\ r \in MmUsers(m)
      /\ old_exec' \in [Readers -> BOOLEAN] /\ tracer' \in Readers \cup {None}
  BY FromIInv, ReaderIs DEF TypeOK, GoodStep, ReaderOK, LocalsOK, PlaceOK, MmUsers, here
<1>1. mem' = mmput(mem, m) /\ UNCHANGED <<hashed, usage, mm, fs, loading, cred>>
      /\ UNCHANGED <<copying, child, forking, missing, raced>>
  BY ImageSame
<1> HIDE DEF m
<1>2. OneUserLess(mem, mem', m)
  BY <1>0, <1>1, MmputIs
<1>3. mem.users[m] >= 1 /\ (mem.users[m] = 1 => mm # m /\ MmUsers(m) = {r})
  BY <1>0, Pinned
<1>4. Shared' /\ mem' \in Mem
  <2>1. \A q \in Readers : FilterStays(q)
    BY <1>0, OthersStay
  <2>2. ASSUME mem.users[m] = 1, NEW q \in Readers PROVE ~ (HoldsMm(q)' /\ rd'[q].mm = m)
    <3>1. CASE q # r
      <4>1. rd'[q] = rd[q]
        BY <1>0, <3>1 DEF StepOf, TypeOK
      <4>2. q \notin MmUsers(m)
        BY <1>3, <2>2, <3>1
      <4> QED
        BY <4>1, <4>2 DEF MmUsers, HoldsMm, pc
    <3> QED
      BY <3>1
  <2>3. NoneComes
    <3>1. cred' = cred /\ mm' = mm /\ (loading' <=> loading) /\ UNCHANGED copying
      BY <1>1
    <3> QED
      BY <3>1 DEF NoneComes
  <2>5. m # child
    <3>1. child # None => mem.users[child] = 1
      BY DEF IInv, CopyingOK
    <3>2. m # None
      BY <1>0, ImageAssumption
    <3> QED
      BY <1>0, <3>1, <3>2, Pinned
  <2>4. m \in Mms /\ mem' = mmput(mem, m) /\ mem.users[m] >= 1 /\ (mem.users[m] = 1 => mm' # m)
    BY <1>0, <1>1, <1>3
  <2> QED
    BY <1>0, <1>1, <2>1, <2>2, <2>3, <2>4, <2>5, SharedMmput
<1>5. ImageTypeOK'
  BY <1>0, <1>1, <1>4 DEF ImageTypeOK
<1>6. MmMatched(r)
  BY <1>0, <1>1, <1>2 DEF OneUserLess, MmMatched, Mem, One, m
<1>7. ExesMatched(r)
  <2>1. \A f \in Exes : Slack(mem, f) \in Int /\ Slack(mem', f) = Slack(mem, f)
    BY <1>0, <1>2, CountsAreNumbers DEF OneUserLess, Mem, Slack
  <2> QED
    BY <2>1 DEF ExesMatched, One
<1>8. TakesAndPuts(r)
  BY <1>1, <1>6, <1>7, Unmoved DEF TakesAndPuts
<1>9. Balance'
  BY <1>0, <1>5, <1>8, ReaderBalanced
<1> QED
  BY <1>0, <1>4, <1>5, <1>9, ReaderStep

\* get_task_mm()
LEMMA GetMmStep == ASSUME IInv, NEW r \in Readers, GetMm(r) PROVE IInv'
<1>0. /\ TypeOK /\ rd[r] \in Locals /\ file[r] \in Files /\ f_pos[r] \in Nat /\ ReaderOK(r)
      /\ f_pos \in [Readers -> Nat] /\ rd \in [Readers -> Locals] /\ mm \in Mms \cup {None}
      /\ rd[r].src \in Nat /\ rd[r].start \in Nat /\ rd[r].count \in Nat /\ rd[r].ret \in Int
      /\ usage \in Int /\ pages \in Int /\ paths \in Int /\ mem \in Mem /\ ImageTypeOK
  BY ReaderIs, FromIInv DEF TypeOK, ImageTypeOK, Locals
<1>1. pc(r) = "mm" /\ Place(file[r], "mm")
  BY <1>0 DEF GetMm, At, pc, ReaderOK, LocalsOK, PlaceOK
<1>2. /\ UNCHANGED <<hashed, image, f_pos, pages, paths, here, file, self,
              old_exec, tracer>>
      /\ usage' = IF file[r] = "exe" THEN usage - 1 ELSE usage
  BY DEF GetMm, here
<1>3. CASE mm # None
  <2>0. /\ rd' = [rd EXCEPT ![r].pc = AfterMm(r), ![r].mm = mm] /\ mem' = get_task_mm(mem, mm)
        /\ mm \in Mms
    BY <1>0, <1>3 DEF GetMm
  <2> DEFINE p == AfterMm(r)
  <2>1. /\ p \in {"exec_id", "loop", "body", "maps_check", "bits", "exe"}
        /\ Place(file[r], p) /\ (p = "exe" <=> file[r] = "exe")
    BY <1>0, <1>1, Onward DEF Place, Memory
  <2>2. rd'[r] = [rd[r] EXCEPT !.pc = p, !.mm = mm] /\ rd' = [rd EXCEPT ![r] = rd'[r]]
    BY <1>0, <2>0
  <2> HIDE DEF p
  <2>3. p \in PCs
    BY <2>1 DEF PCs
  <2>4. /\ rd'[r] \in Locals /\ rd'[r].pc = p /\ rd'[r].mm = mm
        /\ rd'[r].src = rd[r].src /\ rd'[r].start = rd[r].start /\ rd'[r].ret = rd[r].ret
        /\ rd'[r].got = rd[r].got /\ rd'[r].alone = rd[r].alone
    BY <1>0, <2>0, <2>2, <2>3 DEF Locals
  <2>a. file[r] \in Memory => rd[r].ret = 0 /\ rd[r].src = rd[r].start % WrapLong
    BY <1>0, <1>1 DEF ReaderOK, LocalsOK, CopiedSoFar
  <2>b. file[r] \in Memory /\ 2 * (rd[r].start - EnvLen[mm]) <= WrapInt => rd[r].src = rd[r].start
    <3>1. SUFFICES ASSUME file[r] \in Memory, 2 * (rd[r].start - EnvLen[mm]) <= WrapInt
                   PROVE  rd[r].src = rd[r].start
      OBVIOUS
    <3>2. /\ EnvLen[mm] \in Nat /\ 2 * EnvLen[mm] < WrapInt
          /\ WrapInt \in Nat /\ WrapLong \in Nat \ {0}
      BY <2>0, LengthAssumption, WidthAssumption
    <3>3. WrapInt <= WrapLong
      BY WrapsNest
    <3>4. rd[r].start < WrapLong
      BY <1>0, <3>1, <3>2, <3>3
    <3> QED
      BY <1>0, <2>a, <3>1, <3>2, <3>4, ModSmall
  <2>5. GoodStep(r)
    <3>1. StepOf(r) /\ FilterStays(r)
      BY <1>0, <1>1, <1>2, <2>0, <2>1, <2>2, <2>4 DEF StepOf, FilterStays, pc, ReaderOK, LocalsOK
    <3>2. LocalsOK(r)'
      BY <1>0, <1>1, <1>2, <2>0, <2>1, <2>2, <2>4, <2>a DEF At, pc, HoldsMm,
         ReaderOK, LocalsOK, PlaceOK, Place, CopiedSoFar, Memory, Info
    <3>3. ReaderOK(r)'
      BY <1>0, <1>1, <1>2, <2>0, <2>1, <2>2, <2>4, <2>a, <2>b, <3>2 DEF At, pc, HoldsMm,
         ReaderOK, Near, Memory
    <3> QED
      BY <3>1, <3>3 DEF GoodStep
  <2>6. /\ HoldsTask(r) /\ (HoldsTask(r)' <=> file[r] # "exe") /\ HoldsMm(r)' /\ ~ HoldsMm(r)
        /\ (HoldsPage(r)' <=> HoldsPage(r)) /\ ~ At(r, "path")' /\ ~ At(r, "path")
        /\ \A f \in Exes : ~ HoldsExe(r, f)' /\ ~ HoldsExe(r, f)
    BY <1>1, <1>2, <2>1, <2>4 DEF HoldsTask, HoldsMm, HoldsPage, HoldsExe, At, pc
  <2>7. /\ mem' \in Mem /\ mem'.users = [mem.users EXCEPT ![mm] = @ + 1]
        /\ mem'.exe_file = mem.exe_file /\ mem'.vmas = mem.vmas /\ mem'.flags = mem.flags
        /\ mem'.f_count = mem.f_count
    BY <1>0, <2>0 DEF get_task_mm, Mem
  <2>8. TaskMatched(r)
    BY <1>0, <1>2, <2>6 DEF TaskMatched, One
  <2>9. MmMatched(r)
    BY <1>0, <1>2, <2>0, <2>4, <2>6, <2>7, ImageSame DEF MmMatched, Mem, One
  <2>10. PagesMatched(r) /\ PathsMatched(r) /\ ExesMatched(r)
    BY <1>2, <2>6, <2>7, Unmoved
  <2>11. TakesAndPuts(r)
    BY <2>8, <2>9, <2>10 DEF TakesAndPuts
  <2>12. ImageTypeOK'
    BY <1>0, <1>2, <2>7, ImageSame DEF ImageTypeOK
  <2>13. \A m \in Mms : mem'.users[m] = 0 => mem.users[m] = 0
    <3>1. mem.users[mm] >= 0 /\ mem.users[mm] \in Int
      BY <2>0, FromIInv, Pinned
    <3> QED
      BY <1>0, <2>0, <2>7, <3>1
  <2>14. child # None => mem'.users[child] = mem.users[child]
    <3>1. mm # child
      BY <1>3 DEF IInv, LoadingOK
    <3>2. child \in Mms \cup {None} /\ mem.users \in [Mms -> Int]
      BY <1>0, FromIInv DEF Mem
    <3> QED
      BY <2>0, <2>7, <3>1, <3>2
  <2> QED
    BY <1>2, <2>5, <2>7, <2>11, <2>12, <2>13, <2>14, TakingStep
<1>4. CASE mm = None
  <2>0. UNCHANGED mem
    BY <1>4 DEF GetMm
  <2>1. CASE file[r] = "exe"
    <3>1. Idled(r, ENOENT)
      <4>1. ENOENT \in Int
        BY DEF ENOENT
      <4>2. Return(r, ENOENT)
        BY <1>4, <2>1 DEF GetMm
      <4> QED
        BY <1>0, <4>1, <4>2, ReturnIs
    <3>2. GoodStep(r)
      BY <1>0, <1>1, <1>2, <2>1, <3>1 DEF Idled, GoodStep, StepOf, FilterStays, HoldsMm, At,
         pc, ReaderOK, LocalsOK, PlaceOK, Place, CopiedSoFar
    <3>3. /\ ~ HoldsTask(r)' /\ HoldsTask(r) /\ ~ HoldsMm(r)' /\ ~ HoldsMm(r)
          /\ ~ HoldsPage(r)' /\ ~ HoldsPage(r) /\ ~ At(r, "path")' /\ ~ At(r, "path")
          /\ \A f \in Exes : ~ HoldsExe(r, f)' /\ ~ HoldsExe(r, f)
      BY <1>1, <1>2, <2>1, <3>1 DEF Idled, HoldsTask, HoldsMm, HoldsPage, HoldsExe, At, pc,
         Memory, Info
    <3>4. TaskMatched(r) /\ PagesMatched(r) /\ PathsMatched(r) /\ usage' \in Int
      BY <1>0, <1>2, <2>1, <3>3 DEF TaskMatched, PagesMatched, PathsMatched, One
    <3> QED
      BY <1>2, <2>0, <3>2, <3>3, <3>4, TaskStep
  <2>2. CASE file[r] # "exe"
    <3> DEFINE p == NoMm(r)
    <3>1. /\ p \in {"free", "copyout", "put"} /\ Place(file[r], p)
          /\ (p = "put" => file[r] \in Filter \cup {"maps"})
          /\ (p = "free" => file[r] \in Memory) /\ (p = "copyout" => file[r] \in Info)
      BY <1>0, <1>1, <2>2, Onward DEF Place, Filter
    <3>2. Goto(r, p)
      BY <1>4, <2>2 DEF GetMm
    <3> HIDE DEF p
    <3>3. p \in PCs
      BY <3>1 DEF PCs
    <3>4. Moved(r, p, rd[r].ret)
      BY <1>0, <3>2, <3>3, GotoIs
    <3>5. GoodStep(r)
      BY <1>0, <1>1, <1>2, <3>1, <3>4 DEF Moved, GoodStep, StepOf, FilterStays, HoldsMm, At,
         pc, ReaderOK, LocalsOK, PlaceOK, CopiedSoFar
    <3>6. /\ HoldsTask(r)' /\ HoldsTask(r) /\ ~ HoldsMm(r)' /\ ~ HoldsMm(r)
          /\ (HoldsPage(r)' <=> HoldsPage(r)) /\ ~ At(r, "path")' /\ ~ At(r, "path")
          /\ \A f \in Exes : ~ HoldsExe(r, f)' /\ ~ HoldsExe(r, f)
      BY <1>1, <1>2, <2>2, <3>1, <3>4 DEF Moved, HoldsTask, HoldsMm, HoldsPage, HoldsExe,
         At, pc, Memory, Info, Filter
    <3>7. PagesMatched(r) /\ PathsMatched(r)
      BY <1>2, <3>6, Unmoved
    <3>8. UNCHANGED <<task, mem, here>>
      BY <1>2, <2>0, <2>2 DEF task
    <3> QED
      BY <3>5, <3>6, <3>7, <3>8, PageStep
  <2> QED
    BY <2>1, <2>2
<1> QED
  BY <1>3, <1>4

\* get_mm_exe_file()
LEMMA GetExeStep == ASSUME IInv, NEW r \in Readers, GetExe(r) PROVE IInv'
<1>0. /\ TypeOK /\ rd[r] \in Locals /\ file[r] \in Files /\ f_pos[r] \in Nat /\ ReaderOK(r)
      /\ f_pos \in [Readers -> Nat] /\ rd \in [Readers -> Locals] /\ mm \in Mms \cup {None}
      /\ rd[r].src \in Nat /\ rd[r].start \in Nat /\ rd[r].count \in Nat /\ rd[r].ret \in Int
      /\ usage \in Int /\ pages \in Int /\ paths \in Int /\ mem \in Mem /\ ImageTypeOK
  BY ReaderIs, FromIInv DEF TypeOK, ImageTypeOK, Locals
<1>1. pc(r) = "exe" /\ Place(file[r], "exe")
  BY <1>0 DEF GetExe, At, pc, ReaderOK, LocalsOK, PlaceOK
<1>2. UNCHANGED <<task, f_pos, pages, paths, here, file, self>> /\ rd[r].mm \in Mms
  BY <1>0, <1>1 DEF GetExe, here, ReaderOK, LocalsOK, PlaceOK, HoldsMm
<1> DEFINE f == mem.exe_file[rd[r].mm]
<1>3. /\ rd' = [rd EXCEPT ![r].pc = "exe_mmput", ![r].exe = f]
      /\ mem' = IF f = None THEN mem ELSE get_file(mem, f)
      /\ f \in Exes \cup {None}
  BY <1>0, <1>2 DEF GetExe, Mem
<1> HIDE DEF f
<1>4. rd'[r] = [rd[r] EXCEPT !.pc = "exe_mmput", !.exe = f] /\ rd' = [rd EXCEPT ![r] = rd'[r]]
  BY <1>0, <1>3
<1>5. /\ rd'[r] \in Locals /\ rd'[r].pc = "exe_mmput" /\ rd'[r].exe = f /\ rd'[r].mm = rd[r].mm
      /\ rd'[r].alone = rd[r].alone
  <2>1. "exe_mmput" \in PCs
    BY DEF PCs
  <2> QED
    BY <1>0, <1>3, <1>4, <2>1 DEF Locals
<1>6. GoodStep(r)
  BY <1>0, <1>1, <1>2, <1>4, <1>5 DEF GoodStep, StepOf, FilterStays, At, pc, ReaderOK,
     LocalsOK, PlaceOK, Place, CopiedSoFar
<1>7. /\ ~ HoldsTask(r)' /\ ~ HoldsTask(r) /\ HoldsMm(r)' /\ HoldsMm(r)
      /\ ~ HoldsPage(r)' /\ ~ HoldsPage(r) /\ ~ At(r, "path")' /\ ~ At(r, "path")
      /\ \A g \in Exes : (HoldsExe(r, g)' <=> f = g) /\ ~ HoldsExe(r, g)
  BY <1>1, <1>2, <1>5 DEF HoldsTask, HoldsMm, HoldsPage, HoldsExe, At, pc, Place, Memory,
     Info
<1>8. /\ mem' \in Mem /\ mem'.users = mem.users
      /\ mem'.exe_file = mem.exe_file /\ mem'.vmas = mem.vmas /\ mem'.flags = mem.flags
      /\ mem'.f_count = IF f = None THEN mem.f_count ELSE [mem.f_count EXCEPT ![f] = @ + 1]
  BY <1>0, <1>3, FileCounts
<1>9. ExesMatched(r)
  <2>1. \A g \in Exes : mem'.f_count[g] = mem.f_count[g] + One(f = g) /\ mem.f_count[g] \in Int
    BY <1>0, <1>3, <1>8, ImageAssumption DEF Mem, One
  <2>2. \A g \in Exes : One(HoldsExe(r, g)') = One(f = g) /\ One(HoldsExe(r, g)) = 0 /\
                One(f = g) \in Int
    BY <1>7 DEF One
  <2>3. \A g \in Exes : ImagesOf(mem', g) = ImagesOf(mem, g)
    BY <1>8 DEF ImagesOf
  <2>4. \A g \in Exes : Cardinality(ImagesOf(mem, g)) \in Int
    BY CountsAreNumbers
  <2> QED
    BY <2>1, <2>2, <2>3, <2>4 DEF ExesMatched, Slack
<1>10. TakesAndPuts(r)
  BY <1>2, <1>5, <1>7, <1>8, <1>9, Unmoved, ImageSame DEF TakesAndPuts
<1>11. ImageTypeOK'
  BY <1>0, <1>2, <1>8, ImageSame DEF ImageTypeOK
<1> QED
  BY <1>2, <1>6, <1>8, <1>10, <1>11, TakingStep, ImageSame DEF here

\* The path of the executable, then fput()
LEMMA ExePathStep == ASSUME IInv, NEW r \in Readers, ExePath(r) PROVE IInv'
<1>0. /\ TypeOK /\ rd[r] \in Locals /\ file[r] \in Files /\ f_pos[r] \in Nat /\ ReaderOK(r)
      /\ f_pos \in [Readers -> Nat] /\ rd \in [Readers -> Locals] /\ mm \in Mms \cup {None}
      /\ rd[r].src \in Nat /\ rd[r].start \in Nat /\ rd[r].count \in Nat /\ rd[r].ret \in Int
      /\ usage \in Int /\ pages \in Int /\ paths \in Int /\ mem \in Mem /\ ImageTypeOK
  BY ReaderIs, FromIInv DEF TypeOK, ImageTypeOK, Locals
<1>1. pc(r) = "exe_path" /\ Place(file[r], "exe_path")
  BY <1>0 DEF ExePath, At, pc, ReaderOK, LocalsOK, PlaceOK
<1>2. /\ UNCHANGED <<task, f_pos, pages, here, file, self>> /\ paths' = paths + 1
      /\ rd[r].exe \in Exes /\ mem' = fput(mem, rd[r].exe)
  BY <1>0, <1>1 DEF ExePath, here, ReaderOK, LocalsOK, PlaceOK
<1>3. Moved(r, "path", rd[r].ret)
  BY <1>0, GotoIs DEF ExePath, PCs
<1>4. GoodStep(r)
  BY <1>0, <1>1, <1>2, <1>3 DEF Moved, GoodStep, StepOf, FilterStays, HoldsMm, At, pc,
     ReaderOK, LocalsOK, PlaceOK, Place, CopiedSoFar, Links
<1>5. /\ ~ HoldsTask(r)' /\ ~ HoldsTask(r) /\ ~ HoldsMm(r)' /\ ~ HoldsMm(r)
      /\ ~ HoldsPage(r)' /\ ~ HoldsPage(r) /\ At(r, "path")' /\ ~ At(r, "path")
      /\ \A g \in Exes : ~ HoldsExe(r, g)' /\ (HoldsExe(r, g) <=> rd[r].exe = g)
  BY <1>1, <1>2, <1>3 DEF Moved, HoldsTask, HoldsMm, HoldsPage, HoldsExe, At, pc, Place,
     Memory, Info
<1>6. /\ mem' \in Mem /\ mem'.users = mem.users
      /\ mem'.exe_file = mem.exe_file /\ mem'.vmas = mem.vmas /\ mem'.flags = mem.flags
      /\ mem'.f_count = [mem.f_count EXCEPT ![rd[r].exe] = @ - 1]
  BY <1>0, <1>2, FileCounts
<1>7. ExesMatched(r)
  <2>1. \A g \in Exes : mem'.f_count[g] = mem.f_count[g] - One(rd[r].exe = g) /\
                mem.f_count[g] \in Int
    BY <1>0, <1>2, <1>6 DEF Mem, One
  <2>2. \A g \in Exes : /\ One(HoldsExe(r, g)) = One(rd[r].exe = g) /\ One(HoldsExe(r, g)') = 0
                        /\ One(rd[r].exe = g) \in Int
    BY <1>5 DEF One
  <2>3. \A g \in Exes : ImagesOf(mem', g) = ImagesOf(mem, g)
    BY <1>6 DEF ImagesOf
  <2>4. \A g \in Exes : Cardinality(ImagesOf(mem, g)) \in Int
    BY CountsAreNumbers
  <2> QED
    BY <2>1, <2>2, <2>3, <2>4 DEF ExesMatched, Slack
<1>8. PathsMatched(r)
  BY <1>0, <1>2, <1>5 DEF PathsMatched, One
<1>9. TakesAndPuts(r)
  BY <1>2, <1>5, <1>6, <1>7, <1>8, Unmoved, ImageSame DEF TakesAndPuts
<1>10. ImageTypeOK'
  BY <1>0, <1>2, <1>6, ImageSame DEF ImageTypeOK
<1> QED
  BY <1>2, <1>4, <1>6, <1>9, <1>10, TakingStep, ImageSame DEF here

\* mmput() of proc_exe_link()
LEMMA ExeMmputStep == ASSUME IInv, NEW r \in Readers, ExeMmput(r) PROVE IInv'
<1>0. /\ TypeOK /\ rd[r] \in Locals /\ file[r] \in Files /\ f_pos[r] \in Nat /\ ReaderOK(r)
      /\ f_pos \in [Readers -> Nat] /\ rd \in [Readers -> Locals] /\ mm \in Mms \cup {None}
      /\ rd[r].src \in Nat /\ rd[r].start \in Nat /\ rd[r].count \in Nat /\ rd[r].ret \in Int
      /\ usage \in Int /\ pages \in Int /\ paths \in Int /\ mem \in Mem /\ ImageTypeOK
  BY ReaderIs, FromIInv DEF TypeOK, ImageTypeOK, Locals
<1>1. pc(r) = "exe_mmput" /\ Place(file[r], "exe_mmput")
  BY <1>0 DEF ExeMmput, At, pc, ReaderOK, LocalsOK, PlaceOK
<1>2. UNCHANGED <<task, f_pos, pages, paths, here, file, self>> /\ mem' = mmput(mem, rd[r].mm)
  BY DEF ExeMmput, here
<1>3. CASE rd[r].exe = None
  <2>1. Idled(r, ENOENT)
    BY <1>0, <1>3, ReturnIs DEF ExeMmput, ENOENT
  <2>2. GoodStep(r)
    BY <1>0, <1>1, <1>2, <2>1 DEF Idled, GoodStep, StepOf, FilterStays, HoldsMm, At, pc,
       ReaderOK, LocalsOK, PlaceOK, Place, CopiedSoFar
  <2>3. /\ ~ HoldsTask(r)' /\ ~ HoldsTask(r) /\ ~ HoldsMm(r)' /\ HoldsMm(r)
        /\ ~ HoldsPage(r)' /\ ~ HoldsPage(r) /\ ~ At(r, "path")' /\ ~ At(r, "path")
        /\ \A f \in Exes : ~ HoldsExe(r, f)' /\ ~ HoldsExe(r, f)
    BY <1>1, <1>2, <1>3, <2>1, ImageAssumption DEF Idled, HoldsTask, HoldsMm, HoldsPage,
       HoldsExe, At, pc, Place, Memory, Info
  <2>4. PagesMatched(r) /\ PathsMatched(r)
    BY <1>2, <2>3, Unmoved
  <2> QED
    BY <1>2, <2>2, <2>3, <2>4, MmputStep
<1>4. CASE rd[r].exe # None
  <2>1. Moved(r, "exe_path", rd[r].ret) /\ rd[r].exe \in Exes
    BY <1>0, <1>4, GotoIs DEF ExeMmput, PCs, Locals
  <2>2. GoodStep(r)
    BY <1>0, <1>1, <1>2, <2>1 DEF Moved, GoodStep, StepOf, FilterStays, HoldsMm, At, pc,
       ReaderOK, LocalsOK, PlaceOK, Place, CopiedSoFar
  <2>3. /\ ~ HoldsTask(r)' /\ ~ HoldsTask(r) /\ ~ HoldsMm(r)' /\ HoldsMm(r)
        /\ ~ HoldsPage(r)' /\ ~ HoldsPage(r) /\ ~ At(r, "path")' /\ ~ At(r, "path")
        /\ \A f \in Exes : HoldsExe(r, f)' <=> HoldsExe(r, f)
    BY <1>1, <1>2, <2>1 DEF Moved, HoldsTask, HoldsMm, HoldsPage, HoldsExe, At, pc, Place,
       Memory, Info
  <2>4. PagesMatched(r) /\ PathsMatched(r)
    BY <1>2, <2>3, Unmoved
  <2> QED
    BY <1>2, <2>2, <2>3, <2>4, MmputStep
<1> QED
  BY <1>3, <1>4

\* out_put: mmput()
LEMMA MmputPlaceStep == ASSUME IInv, NEW r \in Readers, Mmput(r) PROVE IInv'
<1>0. /\ TypeOK /\ rd[r] \in Locals /\ file[r] \in Files /\ f_pos[r] \in Nat /\ ReaderOK(r)
      /\ f_pos \in [Readers -> Nat] /\ rd \in [Readers -> Locals] /\ mm \in Mms \cup {None}
      /\ rd[r].src \in Nat /\ rd[r].start \in Nat /\ rd[r].count \in Nat /\ rd[r].ret \in Int
      /\ usage \in Int /\ pages \in Int /\ paths \in Int /\ mem \in Mem /\ ImageTypeOK
  BY ReaderIs, FromIInv DEF TypeOK, ImageTypeOK, Locals
<1>1. pc(r) = "mmput" /\ Place(file[r], "mmput")
  BY <1>0 DEF Mmput, At, pc, ReaderOK, LocalsOK, PlaceOK
<1>2. UNCHANGED <<task, f_pos, pages, paths, here, file, self>> /\ mem' = mmput(mem, rd[r].mm)
  BY DEF Mmput, here
<1> DEFINE p == AfterMmput(r)
<1>3. /\ p \in {"free", "copyout", "put"} /\ Place(file[r], p)
      /\ (p = "free" => file[r] \in Memory)
      /\ (p = "put" => file[r] \in {"filter_write", "maps"})
      /\ (p = "copyout" => file[r] \in Info \cup {"filter_read"})
  BY <1>0, <1>1, Onward DEF Place
<1> DEFINE x == [Idle(rd[r].ret) EXCEPT !.pc = p, !.count = rd[r].count, !.start = rd[r].start]
<1>4. rd'[r] = x /\ rd' = [rd EXCEPT ![r] = rd'[r]]
  BY <1>0 DEF Mmput
<1> HIDE DEF p
<1>5. /\ x \in Locals /\ x.pc = p /\ x.ret = rd[r].ret /\ x.start = rd[r].start
      /\ x.got = 0 /\ ~ x.alone
  <2>1. Idle(rd[r].ret) \in Locals
    BY <1>0, IdleIs
  <2>2. Idle(rd[r].ret).ret = rd[r].ret /\ Idle(rd[r].ret).got = 0 /\ ~ Idle(rd[r].ret).alone
    BY DEF Idle
  <2>3. p \in PCs
    BY <1>3 DEF PCs
  <2> QED
    BY <1>0, <2>1, <2>2, <2>3 DEF Locals
<1> HIDE DEF x
<1>6. GoodStep(r)
  BY <1>0, <1>1, <1>2, <1>3, <1>4, <1>5, LengthAssumption DEF GoodStep, StepOf, FilterStays,
     HoldsMm, At, pc, ReaderOK, LocalsOK, PlaceOK, CopiedSoFar
<1>7. /\ HoldsTask(r)' /\ HoldsTask(r) /\ ~ HoldsMm(r)' /\ HoldsMm(r)
      /\ (HoldsPage(r)' <=> HoldsPage(r)) /\ ~ At(r, "path")' /\ ~ At(r, "path")
      /\ \A f \in Exes : ~ HoldsExe(r, f)' /\ ~ HoldsExe(r, f)
  BY <1>1, <1>2, <1>3, <1>4, <1>5 DEF HoldsTask, HoldsMm, HoldsPage, HoldsExe, At, pc,
     Memory, Info
<1>8. PagesMatched(r) /\ PathsMatched(r)
  BY <1>2, <1>7, Unmoved
<1> QED
  BY <1>2, <1>6, <1>7, <1>8, MmputStep

\* One flag of the filter is set or cleared, and the writes that overlap are
\* not alone any more.
LEMMA FilterBitStep == ASSUME IInv, NEW r \in Readers, FilterBit(r) PROVE IInv'
<1> DEFINE m == rd[r].mm
<1> DEFINE flag == FlagOf(rd[r].bit)
<1>0. /\ TypeOK /\ rd \in [Readers -> Locals] /\ rd[r] \in Locals /\ mem \in Mem /\ ImageTypeOK
      /\ Balance /\ m \in Mms /\ pc(r) = "bits" /\ file[r] = "filter_write"
      /\ rd[r].bit \in Nat /\ rd[r].bit < BITS /\ BITS \in Nat /\ SHIFT \in Nat /\ SHIFT > 0
  <2>1. TypeOK /\ mem \in Mem /\ ImageTypeOK /\ Balance /\ rd \in [Readers -> Locals] /\ ReaderOK(r)
    BY FromIInv, ReaderIs DEF TypeOK
  <2>2. pc(r) = "bits" /\ rd[r].bit < BITS
    BY DEF FilterBit, At, pc
  <2>3. m \in Mms /\ file[r] = "filter_write"
    BY <2>1, <2>2 DEF ReaderOK, LocalsOK, PlaceOK, Place, HoldsMm
  <2> QED
    BY <2>1, <2>2, <2>3, ImageAssumption DEF Locals
<1>1. /\ UNCHANGED <<task, f_pos, pages, paths, here, file, self, old_exec, tracer>>
      /\ mem' = [mem EXCEPT !.flags[m] = IF rd[r].bit \in rd[r].val THEN @ \cup {flag}
                    ELSE @ \ {flag}]
      /\ rd' = [q \in Readers |->
           IF q = r THEN [rd[q] EXCEPT !.bit = @ + 1, !.alone = Writing(m) = {r} /\
                         (@ \/ rd[r].bit = 0)]
           ELSE IF q \in Writing(m) THEN [rd[q] EXCEPT !.alone = FALSE]
           ELSE rd[q]]
  BY DEF FilterBit, here
<1>2. flag = rd[r].bit + SHIFT /\ flag \in Flags /\ flag \in Int /\ flag >= SHIFT
  BY <1>0 DEF FlagOf, Flags
<1> HIDE DEF m, flag
<1>3. /\ mem' \in Mem /\ mem'.users = mem.users /\ mem'.exe_file = mem.exe_file
      /\ mem'.vmas = mem.vmas /\ mem'.f_count = mem.f_count
      /\ \A i \in Mms \ {m} : mem'.flags[i] = mem.flags[i]
      /\ mem'.flags[m] = IF rd[r].bit \in rd[r].val THEN mem.flags[m] \cup {flag}
                                                    ELSE mem.flags[m] \ {flag}
  <2> DEFINE new == IF rd[r].bit \in rd[r].val THEN mem.flags[m] \cup {flag}
                ELSE mem.flags[m] \ {flag}
  <2>1. new \in SUBSET Flags
    BY <1>0, <1>2 DEF Mem
  <2>2. mem' = [mem EXCEPT !.flags[m] = new]
    BY <1>1
  <2> HIDE DEF new
  <2>3. /\ mem' \in Mem /\ mem'.users = mem.users /\ mem'.exe_file = mem.exe_file
        /\ mem'.vmas = mem.vmas /\ mem'.f_count = mem.f_count
        /\ mem'.flags = [mem.flags EXCEPT ![m] = new]
    BY <1>0, <2>1, <2>2 DEF Mem
  <2>4. mem.flags \in [Mms -> SUBSET Flags]
    BY <1>0 DEF Mem
  <2> QED
    BY <1>0, <2>3, <2>4 DEF new
<1>4. ASSUME NEW q \in Readers
      PROVE  /\ rd'[q] \in Locals /\ rd'[q].pc = rd[q].pc /\ rd'[q].mm = rd[q].mm
             /\ rd'[q].src = rd[q].src /\ rd'[q].count = rd[q].count /\ rd'[q].ret = rd[q].ret
             /\ rd'[q].got = rd[q].got /\ rd'[q].exe = rd[q].exe /\ rd'[q].val = rd[q].val
             /\ rd'[q].start = rd[q].start /\ rd'[q].early = rd[q].early
             /\ rd'[q].bit = IF q = r THEN rd[q].bit + 1 ELSE rd[q].bit
             /\ q # r /\ rd'[q].alone => rd[q].alone /\ q \notin Writing(m)
             /\ q = r /\ rd'[q].alone => rd[q].alone \/ rd[r].bit = 0
  <2>0. rd[q] \in Locals
    BY <1>0
  <2>1. CASE q = r
    <3> DEFINE now == Writing(m) = {r} /\ (rd[q].alone \/ rd[r].bit = 0)
    <3>1. rd'[q] = [rd[q] EXCEPT !.bit = @ + 1, !.alone = now]
      BY <1>1, <2>1
    <3>2. now \in BOOLEAN /\ (now => rd[q].alone \/ rd[r].bit = 0)
      OBVIOUS
    <3> HIDE DEF now
    <3>3. rd[q].bit + 1 \in 0 .. BITS
      BY <1>0, <2>1
    <3>4. /\ rd'[q] \in Locals /\ rd'[q].pc = rd[q].pc /\ rd'[q].mm = rd[q].mm
          /\ rd'[q].src = rd[q].src /\ rd'[q].count = rd[q].count /\ rd'[q].ret = rd[q].ret
          /\ rd'[q].got = rd[q].got /\ rd'[q].exe = rd[q].exe /\ rd'[q].val = rd[q].val
          /\ rd'[q].start = rd[q].start /\ rd'[q].early = rd[q].early
          /\ rd'[q].bit = rd[q].bit + 1 /\ rd'[q].alone = now
      BY <2>0, <3>1, <3>2, <3>3 DEF Locals
    <3> QED
      BY <2>1, <3>2, <3>4
  <2>2. CASE q # r /\ q \in Writing(m)
    <3>1. rd'[q] = [rd[q] EXCEPT !.alone = FALSE]
      BY <1>1, <2>2
    <3> QED
      BY <2>0, <2>2, <3>1 DEF Locals
  <2>3. CASE q # r /\ q \notin Writing(m)
    <3>1. rd'[q] = rd[q]
      BY <1>1, <2>3
    <3> QED
      BY <2>0, <2>3, <3>1
  <2> QED
    BY <2>1, <2>2, <2>3
<1>5. TypeOK' /\ ImageTypeOK'
  <2>1. rd' \in [Readers -> Locals]
    BY <1>1, <1>4
  <2>2. ImageTypeOK'
    BY <1>0, <1>1, <1>3, ImageSame DEF ImageTypeOK
  <2> QED
    BY <1>0, <1>1, <2>1, <2>2 DEF TypeOK
<1>6. Balance'
  <2>1. \A q \in Readers : rd'[q].pc = rd[q].pc /\ rd'[q].mm = rd[q].mm /\ rd'[q].exe = rd[q].exe
    BY <1>4
  <2>2. UNCHANGED <<usage, hashed, mm, child>>
    BY <1>1, ImageSame
  <2>3. \A f \in Exes : Slack(mem', f) = Slack(mem, f)
    BY <1>3 DEF Slack, ImagesOf
  <2> QED
    BY <1>0, <1>1, <1>3, <1>5, <2>1, <2>2, <2>3, StillBalanced
<1>7. ASSUME NEW q \in Readers PROVE ReaderOK(q)'
  <2>1. ReaderOK(q)
    BY ReaderIs
  <2>2. PlaceOK(q)' /\ CopiedSoFar(q)'
    BY <1>1, <1>4, <2>1 DEF ReaderOK, LocalsOK, PlaceOK, CopiedSoFar, HoldsMm, At, pc, Near
  <2>3. LocalsOK(q)'
    <3>1. /\ At(q, "title")' => rd'[q].ret >= 0
          /\ (file[q] = "filter_write" /\ At(q, "mmput"))' => rd'[q].bit = BITS
      <4>1. /\ At(q, "title") => rd[q].ret >= 0
            /\ file[q] = "filter_write" /\ At(q, "mmput") => rd[q].bit = BITS
        BY <2>1 DEF ReaderOK, LocalsOK
      <4>2. /\ rd'[q].pc = rd[q].pc /\ rd'[q].ret = rd[q].ret /\ file' = file
            /\ q # r => rd'[q].bit = rd[q].bit
        <5>1. /\ rd'[q].pc = rd[q].pc /\ rd'[q].ret = rd[q].ret
              /\ rd'[q].bit = IF q = r THEN rd[q].bit + 1 ELSE rd[q].bit
          BY <1>4
        <5> QED
          BY <1>1, <5>1
      <4>3. q = r => rd[q].pc = "bits"
        BY <1>0 DEF pc
      <4> QED
        BY <4>1, <4>2, <4>3 DEF At
    <3>2. rd'[q].alone => pc(q)' \in {"bits", "mmput"}
      <4>1. CASE q = r
        BY <1>0, <1>4, <4>1 DEF pc
      <4>2. CASE q # r
        BY <1>4, <2>1, <4>2 DEF ReaderOK, LocalsOK, pc
      <4> QED
        BY <4>1, <4>2
    <3> QED
      BY <2>2, <3>1, <3>2 DEF LocalsOK
  <2> QED
    <3>1. /\ rd'[q].pc = rd[q].pc /\ rd'[q].mm = rd[q].mm /\ rd'[q].src = rd[q].src
          /\ rd'[q].ret = rd[q].ret /\ rd'[q].got = rd[q].got /\ rd'[q].start = rd[q].start
          /\ rd'[q].early = rd[q].early /\ UNCHANGED <<f_pos, file, self>>
      BY <1>1, <1>4
    <3>2. (HoldsMm(q)' <=> HoldsMm(q)) /\ (Near(q)' <=> Near(q))
      BY <3>1 DEF HoldsMm, pc, Near
    <3> QED
      BY <2>1, <2>3, <3>1, <3>2 DEF ReaderOK, At, pc
<1>8. (\A q \in Readers : LocalsOK(q)') /\ MapsPermitted' /\ PositionExact' /\ CmdlineInPage'
  BY <1>7 DEF ReaderOK, MapsPermitted, PositionExact, CmdlineInPage
<1>9. FlagsKept'
  <2> SUFFICES ASSUME NEW i \in Mms
               PROVE  0 \in mem'.flags[i] /\ \A x \in mem'.flags[i] : x = 0 \/ x >= SHIFT
    BY DEF FlagsKept
  <2>1. 0 \in mem.flags[i] /\ \A x \in mem.flags[i] : x = 0 \/ x >= SHIFT
    BY DEF IInv, FlagsKept
  <2>2. flag # 0
    BY <1>0, <1>2
  <2> QED
    BY <1>2, <1>3, <2>1, <2>2
<1>10. FilterSoFar'
  <2> SUFFICES ASSUME NEW q \in Readers, file[q] = "filter_write", pc(q) \in {"bits", "mmput"},
                      rd'[q].alone, NEW i \in 0 .. rd'[q].bit - 1
               PROVE  (FlagOf(i) \in mem'.flags[rd[q].mm]) <=> (i \in rd[q].val)
    BY <1>1, <1>4 DEF FilterSoFar, pc
  <2>1. rd[q].mm \in Mms /\ rd[q].bit \in Int /\ i \in Int
    BY <1>0 DEF IInv, LocalsOK, PlaceOK, HoldsMm, Locals
  <2>2. CASE q # r
    <3>1. rd[q].alone /\ rd[q].mm # m /\ i \in 0 .. rd[q].bit - 1
      BY <1>4, <2>2 DEF Writing
    <3>2. (FlagOf(i) \in mem.flags[rd[q].mm]) <=> (i \in rd[q].val)
      BY <3>1 DEF IInv, FilterSoFar
    <3> QED
      BY <1>3, <2>1, <3>1, <3>2
  <2>3. CASE q = r /\ i = rd[r].bit
    BY <1>3, <2>3 DEF flag, m
  <2>4. CASE q = r /\ i # rd[r].bit
    <3>1. i \in 0 .. rd[r].bit - 1
      BY <1>0, <1>4, <2>1, <2>4
    <3>2. rd[r].alone
      BY <1>0, <1>4, <2>4, <3>1
    <3>3. (FlagOf(i) \in mem.flags[rd[r].mm]) <=> (i \in rd[r].val)
      BY <1>0, <3>1, <3>2 DEF IInv, FilterSoFar
    <3>4. FlagOf(i) # flag
      BY <1>0, <1>2, <2>1, <2>4 DEF FlagOf
    <3> QED
      BY <1>3, <2>4, <3>3, <3>4 DEF m
  <2> QED
    BY <2>2, <2>3, <2>4
<1>11. ExeWhileMapped' /\ LoadingOK' /\ CopyingOK'
  <2>1. UNCHANGED <<mm, loading, cred, child, forking, missing, raced>>
    BY <1>1, ImageSame
  <2> QED
    BY <1>3, <2>1 DEF IInv, ExeWhileMapped, LoadingOK, CopyingOK, Mapped
<1> QED
  BY <1>5, <1>6, <1>8, <1>9, <1>10, <1>11, BalanceNext DEF IInv

-----------------------------------------------------------------------------
(* The theorems.                                                           *)

\* The invariant is one: it holds at the start and every step keeps it.
THEOREM Inductive == Spec => []IInv
<1>1. Init => IInv
  <2> SUFFICES ASSUME Init PROVE IInv
    OBVIOUS
  <2>0. /\ BITS \in Nat \ {0} /\ SHIFT \in Nat \ {0} /\ MaxVmas \in Nat \ {0}
        /\ PAGE_SIZE \in Nat /\ None \notin Mms /\ None \notin Exes
    BY ImageAssumption, LengthAssumption
  <2>1. /\ hashed = TRUE /\ usage = 1 /\ fs = TRUE /\ loading = FALSE /\ child = None /\ mm \in Mms
        /\ cred = mm /\ forking = "no" /\ missing = 0 /\ raced = FALSE
        /\ pages = 0 /\ paths = 0 /\ tracer = None
        /\ rd = [r \in Readers |-> Idle(0)]
    BY DEF Init, ImageInit
  <2>2. PICK f \in Exes :
         mem = [users    |-> [m \in Mms |-> IF m = mm THEN 1 ELSE 0],
                exe_file |-> [m \in Mms |-> IF m = mm THEN f ELSE None],
                vmas     |-> [m \in Mms |-> IF m = mm THEN MaxVmas ELSE 0],
                flags    |-> [m \in Mms |-> {0}],
                f_count  |-> [g \in Exes |-> IF g = f THEN 1 ELSE 0]]
    BY DEF Init, ImageInit
  <2>3. mem \in Mem
    <3>1. {0} \in SUBSET Flags
      BY <2>0 DEF Flags
    <3> QED
      BY <2>0, <2>1, <2>2, <3>1 DEF Mem
  <2>4. /\ \A m \in Mms : /\ mem.users[m] = IF m = mm THEN 1 ELSE 0
                          /\ mem.exe_file[m] = IF m = mm THEN f ELSE None
                          /\ mem.vmas[m] = IF m = mm THEN MaxVmas ELSE 0
                          /\ mem.flags[m] = {0}
        /\ \A g \in Exes : mem.f_count[g] = IF g = f THEN 1 ELSE 0
    BY <2>2
  <2>5. /\ rd \in [Readers -> Locals]
        /\ \A r \in Readers : rd[r].pc = "idle" /\ rd[r].ret = 0 /\ rd[r].got = 0 /\ ~ rd[r].alone
    <3>1. Idle(0) \in Locals
      BY IdleIs
    <3>2. Idle(0).pc = "idle" /\ Idle(0).ret = 0 /\ Idle(0).got = 0 /\ ~ Idle(0).alone
      BY DEF Idle
    <3> QED
      BY <2>1, <3>1, <3>2
  <2>6. TypeOK
    <3>1. ImageTypeOK
      <4>1. hashed \in BOOLEAN /\ fs \in BOOLEAN /\ loading \in BOOLEAN /\ raced \in BOOLEAN
        BY <2>1, Zenon
      <4>2. usage \in Int /\ mm \in Mms \cup {None} /\ child \in Mms \cup {None} /\ cred \in Mms
            /\ forking \in {"no", "exe", "vmas"} /\ missing \in 0 .. MaxVmas
        BY <2>0, <2>1
      <4> QED
        BY <2>3, <4>1, <4>2 DEF ImageTypeOK
    <3>2. PICK plan \in Plans : file = plan.file /\ self = plan.self
      BY DEF Init
    <3>3. file \in [Readers -> Files] /\ self \subseteq Readers
      BY <3>2, ReaderAssumption
    <3>4. f_pos \in [Readers -> Nat] /\ old_exec \in [Readers -> BOOLEAN]
      BY DEF Init
    <3> QED
      BY <2>1, <2>5, <3>1, <3>3, <3>4 DEF TypeOK
  <2>7. ASSUME NEW r \in Readers PROVE ReaderOK(r)
    BY <2>0, <2>5 DEF ReaderOK, LocalsOK, PlaceOK, Place, CopiedSoFar, HoldsMm, At, pc
  <2>8. (\A r \in Readers : LocalsOK(r)) /\ MapsPermitted /\ PositionExact /\ CmdlineInPage
    BY <2>7 DEF ReaderOK, MapsPermitted, PositionExact, CmdlineInPage
  <2>9. Balance
    <3>1. /\ TaskUsers = {} /\ PageUsers = {} /\ PathUsers = {}
          /\ \A m \in Mms : MmUsers(m) = {}
          /\ \A g \in Exes : ExeUsers(g) = {}
      BY <2>5 DEF TaskUsers, PageUsers, PathUsers, MmUsers, ExeUsers, HoldsTask, HoldsMm,
         HoldsPage, HoldsExe, At, pc
    <3>2. Cardinality({}) = 0
      BY FS_EmptySet
    <3>3. \A g \in Exes : ImagesOf(mem, g) = IF g = f THEN {mm} ELSE {}
      BY <2>0, <2>1, <2>4 DEF ImagesOf
    <3>4. Cardinality({mm}) = 1
      BY FS_Singleton
    <3>5. \A g \in Exes : mem.f_count[g] = Cardinality(ImagesOf(mem, g)) + Cardinality(ExeUsers(g))
      BY <2>4, <3>1, <3>2, <3>3, <3>4
    <3>6. \A m \in Mms : mem.users[m] = One(mm = m) + One(child = m) + Cardinality(MmUsers(m))
      BY <2>0, <2>1, <2>4, <3>1, <3>2 DEF One
    <3>7. usage = One(hashed) + Cardinality(TaskUsers)
      BY <2>1, <3>1, <3>2 DEF One
    <3> QED
      BY <2>1, <3>1, <3>2, <3>5, <3>6, <3>7 DEF Balance
  <2>10. FlagsKept
    BY <2>4 DEF FlagsKept
  <2>11. FilterSoFar
    BY <2>5 DEF FilterSoFar
  <2>12. ExeWhileMapped /\ LoadingOK /\ CopyingOK
    <3>1. \A m \in Mms : Mapped(m) = mem.vmas[m]
      BY <2>0, <2>1, <2>4 DEF Mapped
    <3> QED
      BY <2>0, <2>1, <2>4, <3>1 DEF ExeWhileMapped, LoadingOK, CopyingOK
  <2> QED
    BY <2>6, <2>8, <2>9, <2>10, <2>11, <2>12, BalanceIs DEF IInv
<1>2. IInv /\ [Next]_vars => IInv'
  <2> SUFFICES ASSUME IInv, [Next]_vars PROVE IInv'
    OBVIOUS
  <2>1. CASE Process \/ Killed
    BY <2>1, ProcessSteps
  <2>2. ASSUME NEW r \in Readers,
               \/ Attach(r) \/ Detach(r) \/ ReaderExec(r) \/ Reopen(r)
               \/ \E offset \in Positions :
                    default_llseek(r, offset) \/ \E orig \in 0 .. 2 : mem_lseek(r, offset, orig)
        PROVE  IInv'
    BY <2>2, OutsideSteps
  <2>3. ASSUME NEW r \in Readers, NEW n \in Counts, Call(r, n) PROVE IInv'
    BY <2>3, CallStep
  <2>4. ASSUME NEW r \in Readers, Handler(r) PROVE IInv'
    <3>1. CASE Within(r) /\ UNCHANGED <<task, mem, f_pos, pages, paths, here>>
      BY <3>1, WithinSteps
    <3>2. CASE Copying(r) /\ UNCHANGED <<task, mem, pages, paths, here>>
      BY <3>2, CopyingSteps
    <3>3. CASE GetTask(r)
      BY <3>3, GetTaskStep
    <3>4. CASE GetPage(r)
      BY <3>4, GetPageStep
    <3>5. CASE GetMm(r)
      BY <3>5, GetMmStep
    <3>6. CASE FilterBit(r)
      BY <3>6, FilterBitStep
    <3>7. CASE GetExe(r)
      BY <3>7, GetExeStep
    <3>8. CASE ExeMmput(r)
      BY <3>8, ExeMmputStep
    <3>9. CASE ExePath(r)
      BY <3>9, ExePathStep
    <3>10. CASE GetFsPath(r)
      BY <3>10, GetFsPathStep
    <3>11. CASE UsePath(r)
      BY <3>11, UsePathStep
    <3>12. CASE AttrRead(r)
      BY <3>12, AttrReadStep
    <3>13. CASE Mmput(r)
      BY <3>13, MmputPlaceStep
    <3>14. CASE FreePage(r)
      BY <3>14, FreePageStep
    <3>15. CASE PutTask(r)
      BY <3>15, PutTaskStep
    <3> QED
      BY <2>4, <3>1, <3>2, <3>3, <3>4, <3>5, <3>6, <3>7, <3>8, <3>9, <3>10, <3>11, <3>12,
         <3>13, <3>14, <3>15 DEF Handler
  <2>5. CASE UNCHANGED vars
    <3>1. /\ UNCHANGED <<hashed, usage, mm, fs, loading, cred, child, forking, missing, raced>>
          /\ UNCHANGED <<copying, mem, file, self, f_pos, old_exec, tracer, rd, pages, paths>>
      BY <2>5, ImageSame DEF vars
    <3>2. TypeOK /\ ImageTypeOK /\ Balance
      BY FromIInv
    <3>3. ImageTypeOK' /\ tracer' \in Readers \cup {None}
      BY <3>1, <3>2 DEF ImageTypeOK, TypeOK
    <3>4. Balance'
      BY <3>1, <3>2, <3>3, ProcessBalanced
    <3>5. Shared'
      BY <3>1, FilterQuiet, SharedSame
    <3> QED
      BY <3>1, <3>3, <3>4, <3>5, ProcessStep
  <2> QED
    BY <2>1, <2>2, <2>3, <2>4, <2>5 DEF Next
<1> QED
  BY <1>1, <1>2, PTL DEF Spec

\* Every way out of every handler gives back what it took (out, out_free,
\* out_put): the task_struct, the images, the pages and the paths are referenced
\* by exactly those who are at a place where they hold them.
THEOREM NothingLeaked == Spec => []RefsBalanced
<1>1. IInv => RefsBalanced
  BY DEF IInv
<1> QED
  BY <1>1, Inductive, PTL

\* mm_for_maps() returns an image whose program the reader may see, or the one an
\* exec() had just installed, and not yet the credentials of, when it asked: its
\* second look at task->mm keeps every image before that one out.
THEOREM MapsOnlyPermitted == Spec => []MapsPermitted
<1>1. IInv => MapsPermitted
  BY DEF IInv
<1> QED
  BY <1>1, Inductive, PTL

\* mem_read() and environ_read() move the position by what they return, modulo an
\* unsigned long, and environ_read() not beyond the environment, unless it starts
\* so far behind it that this_len, an int, wraps.
THEOREM PositionMovesByReturn == Spec => []PositionExact
<1>1. IInv => PositionExact
  BY DEF IInv
<1> QED
  BY <1>1, Inductive, PTL

\* proc_pid_cmdline() stays in its page.
THEOREM CmdlineStaysInPage == Spec => []CmdlineInPage
<1>1. IInv => CmdlineInPage
  BY DEF IInv
<1> QED
  BY <1>1, Inductive, PTL

\* A write to coredump_filter that is alone leaves exactly the flags it was
\* given.
THEOREM FilterWritten == Spec => []FilterExact
<1>1. IInv => FilterExact
  <2> SUFFICES ASSUME IInv, NEW r \in Readers,
                      file[r] = "filter_write", At(r, "mmput"), rd[r].alone
               PROVE  mem.flags[rd[r].mm] = {0} \cup {SHIFT + i : i \in rd[r].val}
    BY DEF FilterExact
  <2> DEFINE flags == mem.flags[rd[r].mm]
  <2>1. rd[r].mm \in Mms /\ rd[r].bit = BITS /\ rd[r].val \in SUBSET (0 .. BITS - 1)
    BY DEF IInv, TypeOK, LocalsOK, PlaceOK, HoldsMm, Locals
  <2>2. /\ 0 \in flags /\ flags \subseteq Flags
        /\ \A x \in flags : x = 0 \/ x >= SHIFT
    BY <2>1 DEF IInv, TypeOK, ImageTypeOK, Mem, FlagsKept
  <2>3. \A i \in 0 .. BITS - 1 : (i + SHIFT \in flags) <=> (i \in rd[r].val)
    BY <2>1 DEF IInv, FilterSoFar, FlagOf, At, pc
  <2>4. BITS \in Nat /\ SHIFT \in Nat
    BY ImageAssumption
  <2> HIDE DEF flags
  <2>5. ASSUME NEW x \in flags PROVE x \in {0} \cup {SHIFT + i : i \in rd[r].val}
    <3>1. CASE x >= SHIFT
      <4>1. x \in Int /\ x - SHIFT \in 0 .. BITS - 1 /\ (x - SHIFT) + SHIFT = x
        BY <2>2, <2>4, <3>1 DEF Flags
      <4>2. x - SHIFT \in rd[r].val /\ SHIFT + (x - SHIFT) = x
        BY <2>3, <2>4, <4>1
      <4> QED
        BY <4>2
    <3> QED
      BY <2>2, <3>1
  <2>6. ASSUME NEW i \in rd[r].val PROVE SHIFT + i \in flags
    <3>1. i \in 0 .. BITS - 1 /\ i + SHIFT = SHIFT + i
      BY <2>1, <2>4
    <3> QED
      BY <2>3, <3>1
  <2>7. flags = {0} \cup {SHIFT + i : i \in rd[r].val}
    BY <2>2, <2>5, <2>6
  <2> QED
    BY <2>7 DEF flags
<1> QED
  BY <1>1, Inductive, PTL

\* f_count of an executable is the number of images that point to it and of the
\* proc_exe_link() that are using it.
THEOREM ExecutableCounted == Spec => []ExeCounted
<1>1. IInv => ExeCounted
  BY DEF IInv
<1> QED
  BY <1>1, Inductive, PTL

\* /proc/PID/exe leads somewhere as long as the executable is mapped, although
\* fork() copies count, file and vmas in three steps, and no longer
\* (num_exe_file_vmas), but for a child whose parent unmapped meanwhile.
THEOREM ExeFollowsMappings == Spec => []ExeWhileMapped
<1>1. IInv => ExeWhileMapped
  BY DEF IInv
<1> QED
  BY <1>1, Inductive, PTL
=============================================================================
