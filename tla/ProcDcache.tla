----------------------------- MODULE ProcDcache -----------------------------
(***************************************************************************)
(* The cached entries /proc/NR and /proc/NR/task/NR: how the lookup, the   *)
(* readdir (through proc_fill_cache()), pid_revalidate(),                  *)
(* pid_delete_dentry() and proc_flush_task() of fs/proc/base.c keep the    *)
(* dcache in step with tasks that exit and with pid numbers that are used  *)
(* again.  A behaviour is about one directory, either /proc or the task    *)
(* directory of one thread group: both follow the same protocol, with      *)
(* proc_pid_lookup() and proc_pid_instantiate() in the one and             *)
(* proc_task_lookup() and proc_task_instantiate() in the other.            *)
(*                                                                         *)
(* A dentry carries a name (a pid number) and an inode, and the inode      *)
(* refers to a struct pid.  A struct pid stands for one task only, but     *)
(* its number can come to name another task while a dentry of the old one  *)
(* is still hashed.                                                        *)
(*                                                                         *)
(* Walkers are tasks inside a path walk or a readdir.  The steps of the    *)
(* VFS around the callbacks (do_lookup() and real_lookup()) are modelled   *)
(* too, since what they lock decides which interleavings there are.        *)
(***************************************************************************)
EXTENDS Integers, FiniteSets

CONSTANTS
    Nrs,        \* pid numbers
    Pids,       \* struct pid objects, each used for one task
    Walkers,
    MaxIno,     \* bound: inodes made in a run
    None

ASSUME NoneAssumption ==
    /\ None \notin Pids /\ None \notin Walkers
    /\ None \notin [nr : Nrs, ino : 1 .. MaxIno, pid : Pids]
ASSUME InoAssumption == MaxIno \in Nat

VARIABLES
    life,       \* of a struct pid: "new", "running", "flushed", "dead"
    nr,         \* its number
    group,      \* the struct pid of its thread group's leader
    dir,        \* the leader whose task directory this is, None for /proc
    hash,       \* the hashed dentries of the directory
    inos,       \* inodes made so far; the next inode number is inos + 1
    i_mutex,    \* of the directory
    pc,         \* where each walker is
    name,       \* the pid number it is at
    task,       \* the struct pid of the task it has found
    dent,       \* the dentry it holds a reference to
    goneAtStart \* history: the processes gone when the walk began

walk == <<pc, name, task, dent, goneAtStart>>
ids == <<nr, group, dir>>
vars == <<life, ids, hash, inos, i_mutex, walk>>

\* A dentry: its name, its inode number, the struct pid of its inode.
Dentry == [nr : Nrs, ino : 1 .. MaxIno, pid : Pids]

\* pid_task(): the struct pid still has its task.
Alive(p) == life[p] \in {"running", "flushed"}

Locked == {"lookup", "instantiate", "add", "close_race",
           "fill", "fill_instantiate", "fill_add", "fill_close_race", "fill_fail", "report"}

PCs == Locked \cup {"idle", "revalidate", "need_lookup", "revalidate_again", "have"}

\* Everything keeps to its type; the directory's mutex is held exactly by the
\* walker inside a callback that needs it; a hashed dentry is named after
\* its process.
TypeOK ==
    /\ life \in [Pids -> {"new", "running", "flushed", "dead"}]
    /\ nr \in [Pids -> Nrs] /\ group \in [Pids -> Pids] /\ dir \in Pids \cup {None}
    /\ hash \subseteq Dentry
    /\ \A d \in hash : nr[d.pid] = d.nr
    /\ inos \in 0 .. MaxIno
    /\ pc \in [Walkers -> PCs]
    /\ i_mutex \in Walkers \cup {None}
    /\ \A w \in Walkers : pc[w] \in Locked <=> i_mutex = w
    /\ name \in [Walkers -> Nrs]
    /\ task \in [Walkers -> Pids \cup {None}]
    /\ dent \in [Walkers -> Dentry \cup {None}]
    /\ goneAtStart \in [Walkers -> SUBSET Pids]

Init ==
    /\ life = [p \in Pids |-> "new"]
    /\ nr \in [Pids -> Nrs]
    /\ group \in {g \in [Pids -> Pids] : \A p \in Pids : g[g[p]] = g[p]}
    /\ dir \in {None} \cup {p \in Pids : group[p] = p}
    /\ hash = {}
    /\ inos = 0
    /\ i_mutex = None
    /\ pc = [w \in Walkers |-> "idle"]
    /\ name \in {[w \in Walkers |-> n] : n \in Nrs}
    /\ task = [w \in Walkers |-> None]
    /\ dent = [w \in Walkers |-> None]
    /\ goneAtStart = [w \in Walkers |-> {}]

-----------------------------------------------------------------------------
(* Helpers of the dcache and of kernel/pid.c.                              *)

d_lookup(n) == {d \in hash : d.nr = n}

find_task_by_pid_ns(n) == {p \in Pids : Alive(p) /\ nr[p] = n}

Held(d) == \E w \in Walkers : dent[w] = d

-----------------------------------------------------------------------------
(* Tasks.  release_task() calls proc_flush_task() first and detaches the   *)
(* task from its struct pid afterwards.  A leader is released after all    *)
(* the other threads of its group.                                         *)

Fork(p) ==
    /\ life[p] = "new"
    /\ find_task_by_pid_ns(nr[p]) = {}
    /\ group[p] # p => life[group[p]] = "running"
    /\ life' = [life EXCEPT ![p] = "running"]
    /\ UNCHANGED <<ids, hash, inos, i_mutex, walk>>

\* What proc_flush_task() may leave of the directory.  In /proc it d_drop()s
\* whatever is hashed under the number.  Of a task directory it prunes the
\* unused entries with /proc/TGID, when the leader goes and is not the one to
\* reap itself (PF_EXITING); /proc/TGID/task/PID itself is found only if a
\* walk has cached the way to it again.  For other threads no tgid is passed
\* and the entry is not looked for.
Flushed(p) ==
    IF dir = None THEN {hash \ d_lookup(nr[p])}
    ELSE IF p = dir
         THEN LET kept == {hash, {d \in hash : Held(d)}}
              IN  kept \cup {h \ d_lookup(nr[p]) : h \in kept}
         ELSE {hash}

proc_flush_task(p) ==
    /\ life[p] = "running"
    /\ \A q \in Pids \ {p} : group[q] = p => life[q] \in {"new", "dead"}
    /\ life' = [life EXCEPT ![p] = "flushed"]
    /\ hash' \in Flushed(p)
    /\ UNCHANGED <<ids, inos, i_mutex, walk>>

Unhash(p) ==
    /\ life[p] = "flushed"
    /\ life' = [life EXCEPT ![p] = "dead"]
    /\ UNCHANGED <<ids, hash, inos, i_mutex, walk>>

\* Memory pressure takes an unused dentry away.
Shrink(d) ==
    /\ ~ Held(d)
    /\ hash' = hash \ {d}
    /\ UNCHANGED <<life, ids, inos, i_mutex, walk>>

-----------------------------------------------------------------------------
(* Steps shared by lookup and readdir.                                     *)

Go(w, at) == pc' = [pc EXCEPT ![w] = at]

\* Return without an entry: nothing is held any more.
Finish(w) ==
    /\ Go(w, "idle")
    /\ task' = [task EXCEPT ![w] = None]
    /\ dent' = [dent EXCEPT ![w] = None]

\* Mutant: the task is not looked at.
PassesAlways(p) == TRUE

\* pid_revalidate(): a dentry is good while its struct pid has a task.
Revalidates(p) == Alive(p)

\* pid_revalidate() d_drop()s what it refuses.
DropIfDead(w) ==
    hash' = IF Revalidates(dent[w].pid) THEN hash ELSE hash \ {dent[w]}

\* proc_pid_make_inode(): new_inode() may run out of memory (at the latest
\* at MaxIno), and get_task_pid() fails once the task is detached.
MakeInode(w, then, fail) ==
    /\ UNCHANGED <<life, ids, hash, inos, name, dent, goneAtStart>>
    /\ \/ /\ Alive(task[w]) /\ inos < MaxIno
          /\ Go(w, then)
          /\ UNCHANGED <<task, i_mutex>>
       \/ fail

\* d_add() of a new dentry with the new inode.
Add(w, then) ==
    /\ inos' = inos + 1
    /\ LET d == [nr |-> name[w], ino |-> inos + 1, pid |-> task[w]] IN
         /\ hash' = hash \cup {d}
         /\ dent' = [dent EXCEPT ![w] = d]
    /\ Go(w, then)
    /\ UNCHANGED <<life, ids, i_mutex, name, task, goneAtStart>>

-----------------------------------------------------------------------------
(* A path walk to the entry n.                                             *)

\* do_lookup(): look into the hash without the mutex.
LookupStart(w, n) ==
    /\ pc[w] = "idle"
    /\ name' = [name EXCEPT ![w] = n]
    /\ goneAtStart' = [goneAtStart EXCEPT ![w] = {p \in Pids : life[p] = "dead"}]
    /\ \/ \E d \in d_lookup(n) :
            Go(w, "revalidate") /\ dent' = [dent EXCEPT ![w] = d]
       \/ /\ d_lookup(n) = {}
          /\ Go(w, "need_lookup")
          /\ UNCHANGED dent
    /\ UNCHANGED <<life, ids, hash, inos, i_mutex, task>>

\* pid_revalidate() of the hit; a refused one leads to a real lookup.
Revalidate(w) ==
    /\ pc[w] = "revalidate"
    /\ DropIfDead(w)
    /\ \/ Revalidates(dent[w].pid) /\ Go(w, "have") /\ UNCHANGED dent
       \/ /\ ~ Revalidates(dent[w].pid)
          /\ Go(w, "need_lookup")
          /\ dent' = [dent EXCEPT ![w] = None]
    /\ UNCHANGED <<life, ids, inos, i_mutex, name, task, goneAtStart>>

\* real_lookup(): take the mutex, look again.
RealLookup(w) ==
    /\ pc[w] = "need_lookup"
    /\ i_mutex = None
    /\ \/ \E d \in d_lookup(name[w]) :
            /\ Go(w, "revalidate_again")
            /\ dent' = [dent EXCEPT ![w] = d]
            /\ UNCHANGED i_mutex
       \/ /\ d_lookup(name[w]) = {}
          /\ i_mutex' = w
          /\ Go(w, "lookup")
          /\ UNCHANGED dent
    /\ UNCHANGED <<life, ids, hash, inos, name, task, goneAtStart>>

\* A hit of the second look is given one chance.
RevalidateAgain(w) ==
    /\ pc[w] = "revalidate_again"
    /\ DropIfDead(w)
    /\ \/ Revalidates(dent[w].pid) /\ Go(w, "have") /\ UNCHANGED <<task, dent>>
       \/ ~ Revalidates(dent[w].pid) /\ Finish(w)
    /\ UNCHANGED <<life, ids, inos, i_mutex, name, goneAtStart>>

\* Mutant: the thread group is not compared.
LookupAnyGroup(n) == IF dir = None \/ Alive(dir) THEN find_task_by_pid_ns(n) ELSE {}

\* The task a lookup instantiates: proc_pid_lookup() takes any task of the
\* number, proc_task_lookup() needs the directory's own task and then a
\* thread of its group.
LookupTask(n) ==
    {p \in find_task_by_pid_ns(n) : dir # None => Alive(dir) /\ group[p] = dir}

\* proc_pid_lookup(), proc_task_lookup(): find the task, take a reference.
proc_pid_lookup(w) ==
    /\ pc[w] = "lookup"
    /\ \/ \E p \in LookupTask(name[w]) :
            /\ task' = [task EXCEPT ![w] = p]
            /\ Go(w, "instantiate")
            /\ UNCHANGED <<i_mutex, dent>>
       \/ /\ LookupTask(name[w]) = {}
          /\ Finish(w) /\ i_mutex' = None
    /\ UNCHANGED <<life, ids, hash, inos, name, goneAtStart>>

\* proc_pid_instantiate() and proc_task_instantiate(), in three steps.
Instantiate(w) ==
    /\ pc[w] = "instantiate"
    /\ MakeInode(w, "add", Go(w, "idle") /\ i_mutex' = None /\ task' = [task EXCEPT ![w] = None])

InstantiateAdd(w) == pc[w] = "add" /\ Add(w, "close_race")

\* "Close the race of the process dying before we return the dentry."
CloseRace(w) ==
    /\ pc[w] = "close_race"
    /\ DropIfDead(w)
    /\ i_mutex' = None
    /\ \/ /\ Revalidates(dent[w].pid)
          /\ Go(w, "have") /\ task' = [task EXCEPT ![w] = None]
          /\ UNCHANGED dent
       \/ ~ Revalidates(dent[w].pid) /\ Finish(w)
    /\ UNCHANGED <<life, ids, inos, name, goneAtStart>>

\* The walk is over: the last dput() asks pid_delete_dentry() whether the
\* entry is worth keeping.
Dput(w) ==
    /\ pc[w] = "have"
    /\ hash' = IF Alive(dent[w].pid) \/ \E v \in Walkers \ {w} : dent[v] = dent[w]
               THEN hash ELSE hash \ {dent[w]}
    /\ Finish(w)
    /\ goneAtStart' = [goneAtStart EXCEPT ![w] = {}]
    /\ UNCHANGED <<life, ids, inos, i_mutex, name>>

PathWalk(w) ==
    \/ \E n \in Nrs : LookupStart(w, n)
    \/ Revalidate(w) \/ RealLookup(w) \/ RevalidateAgain(w) \/ proc_pid_lookup(w)
    \/ Instantiate(w) \/ InstantiateAdd(w) \/ CloseRace(w) \/ Dput(w)

-----------------------------------------------------------------------------
(* readdir, at the entry of one task that next_tgid() or next_tid() has    *)
(* found: a group leader in /proc, a thread of its group in a task         *)
(* directory.                                                              *)

Listed(p) ==
    IF dir = None THEN Alive(p) /\ group[p] = p
    ELSE Alive(p) /\ Alive(dir) /\ group[p] = dir

ReaddirAt(w, p) ==
    /\ pc[w] = "idle" /\ i_mutex = None
    /\ Listed(p)
    /\ i_mutex' = w
    /\ name' = [name EXCEPT ![w] = nr[p]]
    /\ task' = [task EXCEPT ![w] = p]
    /\ Go(w, "fill")
    /\ UNCHANGED <<life, ids, hash, inos, dent, goneAtStart>>

\* Mutant: a new entry is made without a look into the hash.
FillNeverLooks(w) ==
    /\ pc[w] = "fill"
    /\ Go(w, "fill_instantiate")
    /\ UNCHANGED <<life, ids, hash, inos, i_mutex, name, task, dent, goneAtStart>>

\* proc_fill_cache(): a hashed entry is taken as it is.
FillLookup(w) ==
    /\ pc[w] = "fill"
    /\ \/ \E d \in d_lookup(name[w]) :
            Go(w, "report") /\ dent' = [dent EXCEPT ![w] = d]
       \/ d_lookup(name[w]) = {} /\ Go(w, "fill_instantiate") /\ UNCHANGED dent
    /\ UNCHANGED <<life, ids, hash, inos, i_mutex, name, task, goneAtStart>>

FillInstantiate(w) ==
    /\ pc[w] = "fill_instantiate"
    /\ MakeInode(w, "fill_add", Go(w, "fill_fail") /\ UNCHANGED <<task, i_mutex>>)

FillAdd(w) == pc[w] = "fill_add" /\ Add(w, "fill_close_race")

FillCloseRace(w) ==
    /\ pc[w] = "fill_close_race"
    /\ DropIfDead(w)
    /\ \/ Revalidates(dent[w].pid) /\ Go(w, "report") /\ UNCHANGED dent
       \/ /\ ~ Revalidates(dent[w].pid)
          /\ Go(w, "fill_fail") /\ dent' = [dent EXCEPT ![w] = None]
    /\ UNCHANGED <<life, ids, inos, i_mutex, name, task, goneAtStart>>

\* end_instantiate: find_inode_number() looks into the hash once more, and
\* the entry goes out with what it finds, or as inode 1.
FillFail(w) ==
    /\ pc[w] = "fill_fail"
    /\ Finish(w) /\ i_mutex' = None
    /\ UNCHANGED <<life, ids, hash, inos, name, goneAtStart>>

\* dput(child), then filldir() with the inode's number.
Report(w) ==
    /\ pc[w] = "report"
    /\ hash' = IF Alive(dent[w].pid) \/ \E v \in Walkers \ {w} : dent[v] = dent[w]
               THEN hash ELSE hash \ {dent[w]}
    /\ Finish(w) /\ i_mutex' = None
    /\ UNCHANGED <<life, ids, inos, name, goneAtStart>>

Readdir(w) ==
    \/ \E p \in Pids : ReaddirAt(w, p)
    \/ FillLookup(w) \/ FillInstantiate(w) \/ FillAdd(w) \/ FillCloseRace(w)
    \/ FillFail(w) \/ Report(w)

-----------------------------------------------------------------------------
Next ==
    \/ \E p \in Pids : Fork(p) \/ proc_flush_task(p) \/ Unhash(p)
    \/ \E d \in hash : Shrink(d)
    \/ \E w \in Walkers : PathWalk(w) \/ Readdir(w)

Spec == Init /\ [][Next]_vars

-----------------------------------------------------------------------------
\* A path walk never ends at a task that was already gone when the walk
\* began, although its dentry may still be hashed (in a task directory no
\* flush looks for it) and its number may name another task by now
\* (pid_revalidate() and the closing of the race).
NeverTheDead ==
    \A w \in Walkers : pc[w] = "have" => dent[w].pid \notin goneAtStart[w]

\* At most one dentry per name is hashed: whoever adds one holds the mutex
\* and has looked before.
OneDentryPerName ==
    \A d, e \in hash : d.nr = e.nr => d = e

\* Whatever is hashed in, or reached through, /proc/TGID/task is a thread of
\* that group, although a lookup finds its task by a number that any process
\* may have and the task may exit at any step in between.
OnlyItsThreads ==
    dir # None =>
        /\ \A d \in hash : group[d.pid] = dir
        /\ \A w \in Walkers : dent[w] # None => group[dent[w].pid] = dir

-----------------------------------------------------------------------------
(* The invariant of the proofs.                                            *)

\* A walker past the search holds a task that has the name it looks for and
\* belongs into this directory; one past a hit or an addition holds a dentry.
Found ==
    \A w \in Walkers :
        /\ pc[w] \in {"instantiate", "add", "fill", "fill_instantiate", "fill_add"} =>
             task[w] # None /\ nr[task[w]] = name[w] /\ (dir # None => group[task[w]] = dir)
        /\ pc[w] \in {"revalidate", "revalidate_again", "close_race", "fill_close_race",
                      "report", "have"} => dent[w] # None

\* With the mutex and after a look that missed, the name stays free.
NameFree ==
    \A w \in Walkers :
        pc[w] \in {"lookup", "instantiate", "add", "fill_instantiate", "fill_add"} =>
            \A d \in hash : d.nr # name[w]

\* The inode a walker has got is within the bound.
InodeLeft ==
    \A w \in Walkers : pc[w] \in {"add", "fill_add"} => inos < MaxIno

\* Who was gone when a walk began does not come back.
StillGone ==
    \A w \in Walkers : \A p \in goneAtStart[w] : life[p] = "dead"

\* The inductive invariant of the cached entries: the properties above and what
\* the mutex and the revalidation establish on the way to them.
IInv ==
    /\ TypeOK /\ Found /\ NameFree /\ InodeLeft /\ StillGone
    /\ NeverTheDead /\ OneDentryPerName /\ OnlyItsThreads
=============================================================================
