--------------------------- MODULE ProcFlushTask ---------------------------
(***************************************************************************)
(* proc_flush_task() and proc_flush_task_mnt() of fs/proc/base.c: when a   *)
(* task is released, its entries are taken out of the dcache of every proc *)
(* mount it is seen in, one pid namespace after the other, while path      *)
(* walks keep caching entries.                                             *)
(*                                                                         *)
(* A task at namespace level l has a number in each of the namespaces      *)
(* 0 .. l.  An entry is [ns, path, task]: path <<nr>> is /proc/nr, path    *)
(* <<tg, nr>> is /proc/tg/task/nr.  What hangs below a dropped directory   *)
(* cannot be reached any more, so d_drop() takes it along here; pruning it *)
(* (shrink_dcache_parent) frees memory and changes nothing else.           *)
(***************************************************************************)
EXTENDS Integers, Sequences

CONSTANTS
    Tasks,
    level,      \* level[t]: the namespace the task lives in
    numbers,    \* numbers[t][i]: its number in namespace i
    group_leader    \* group_leader[t]

ASSUME LevelAssumption == level \in [Tasks -> Nat]
\* The threads of a group live in their leader's namespace.
ASSUME LeaderAssumption ==
    /\ group_leader \in [Tasks -> Tasks]
    /\ \A t \in Tasks : /\ group_leader[group_leader[t]] = group_leader[t]
                        /\ level[group_leader[t]] = level[t]
\* alloc_pid(): in one namespace no two tasks have the same number.
ASSUME NumbersAssumption ==
    /\ \A t \in Tasks : numbers[t] \in [0 .. level[t] -> Nat \ {0}]
    /\ \A t, u \in Tasks : \A ns \in 0 .. level[t] :
         ns <= level[u] /\ numbers[t][ns] = numbers[u][ns] => t = u

VARIABLES
    alive,      \* tasks not yet released
    mounted,    \* namespaces whose proc mount is there
    dcache,     \* the cached entries
    fpc,        \* of each task's flush: "no", "pid", "tgid", "done"
    i,          \* its loop counter
    recached    \* history: entries cached again since their flush began

flushVars == <<alive, mounted, dcache, fpc, i, recached>>

Namespaces == UNION {0 .. level[t] : t \in Tasks}
thread_group_leader(t) == group_leader[t] = t

PidEntry(t, ns) == [ns |-> ns, path |-> <<numbers[t][ns]>>, task |-> t]
TaskEntry(t, ns) ==
    [ns |-> ns, path |-> <<numbers[group_leader[t]][ns], numbers[t][ns]>>, task |-> t]

Entries ==
    UNION {UNION {{PidEntry(t, ns), TaskEntry(t, ns)} : ns \in 0 .. level[t]} : t \in Tasks}

\* Flushes, loop counters and entries keep to their types, and the counter
\* never leaves the namespaces the task is seen in while the loop runs.
FlushTypeOK ==
    /\ alive \subseteq Tasks /\ mounted \subseteq Namespaces
    /\ dcache \subseteq Entries /\ recached \subseteq Entries
    /\ fpc \in [Tasks -> {"no", "pid", "tgid", "done"}]
    /\ i \in [Tasks -> Nat]
    /\ \A t \in Tasks : fpc[t] \in {"pid", "tgid"} => i[t] <= level[t]

FlushInit ==
    /\ alive = Tasks
    /\ mounted = Namespaces
    /\ dcache = {}
    /\ fpc = [t \in Tasks |-> "no"]
    /\ i = [t \in Tasks |-> 0]
    /\ recached = {}

-----------------------------------------------------------------------------
\* A path walk caches an entry of a task that is not yet detached; below the
\* leader's directory only when that directory is cached.
Cache(e) ==
    /\ e.task \in alive /\ e.ns \in mounted /\ e \notin dcache
    /\ Len(e.path) = 2 => PidEntry(group_leader[e.task], e.ns) \in dcache
    /\ dcache' = dcache \cup {e}
    /\ recached' = IF fpc[e.task] = "no" THEN recached ELSE recached \cup {e}
    /\ UNCHANGED <<alive, mounted, fpc, i>>

\* What d_drop() of a path in a namespace removes.
Below(ns, path) ==
    {e \in dcache : /\ e.ns = ns /\ Len(path) <= Len(e.path)
                    /\ \A j \in 1 .. Len(path) : e.path[j] = path[j]}

\* release_task() calls proc_flush_task(); a leader goes after its threads.
FlushStart(t) ==
    /\ t \in alive /\ fpc[t] = "no"
    /\ thread_group_leader(t) =>
         \A u \in Tasks \ {t} : group_leader[u] = t => u \notin alive
    /\ fpc' = [fpc EXCEPT ![t] = "pid"]
    /\ i' = [i EXCEPT ![t] = 0]
    /\ UNCHANGED <<alive, mounted, dcache, recached>>

\* Mutant: the loop stops one namespace early.
LoopStopsEarly(t) == i[t] >= level[t] - 1

LoopEnds(t) == i[t] = level[t]

\* The loop goes on to the next namespace, or ends.
NextNs(t) ==
    IF LoopEnds(t)
    THEN /\ fpc' = [fpc EXCEPT ![t] = "done"]
         /\ UNCHANGED i
    ELSE /\ fpc' = [fpc EXCEPT ![t] = "pid"]
         /\ i' = [i EXCEPT ![t] = @ + 1]

\* Mutant: the number of the task's own namespace is used everywhere.
FlushesOwnNr(t) == Below(i[t], <<numbers[t][level[t]]>>)

\* proc_flush_task_mnt(), first half: /proc/pid of the current namespace.
FlushesPid(t) == Below(i[t], <<numbers[t][i[t]]>>)

\* tgid is set for a group leader only; without it the second half is left out.
FlushPid(t) ==
    /\ fpc[t] = "pid"
    /\ dcache' = dcache \ FlushesPid(t)
    /\ IF thread_group_leader(t)
       THEN fpc' = [fpc EXCEPT ![t] = "tgid"] /\ UNCHANGED i
       ELSE NextNs(t)
    /\ UNCHANGED <<alive, mounted, recached>>

\* Second half: /proc/tgid/task/pid, if the way to it is cached.
FlushTgid(t) ==
    /\ fpc[t] = "tgid"
    /\ dcache' = dcache \ Below(i[t], <<numbers[group_leader[t]][i[t]], numbers[t][i[t]]>>)
    /\ NextNs(t)
    /\ UNCHANGED <<alive, mounted, recached>>

\* The end of proc_flush_task(): the init task of a namespace releases the
\* namespace's proc mount.  Then release_task() detaches the task.
Released(t) ==
    /\ fpc[t] = "done" /\ t \in alive
    /\ alive' = alive \ {t}
    /\ IF numbers[t][level[t]] = 1
       THEN /\ mounted' = mounted \ {level[t]}
            /\ dcache' = {e \in dcache : e.ns # level[t]}
       ELSE UNCHANGED <<mounted, dcache>>
    /\ UNCHANGED <<fpc, i, recached>>

release_task(t) == FlushStart(t) \/ FlushPid(t) \/ FlushTgid(t) \/ Released(t)

FlushNext ==
    \/ \E e \in Entries : Cache(e)
    \/ \E t \in Tasks : release_task(t)

FlushSpec == FlushInit /\ [][FlushNext]_flushVars

-----------------------------------------------------------------------------
\* Once a task's flush is over, /proc/pid is gone from the dcache in every
\* namespace the task was seen in, except where a walk has cached it again.
PidFlushed ==
    \A t \in Tasks : fpc[t] = "done" =>
        \A ns \in 0 .. level[t] : PidEntry(t, ns) \in dcache => PidEntry(t, ns) \in recached

\* A flush drops no entry of a task that stays: numbers of one namespace are
\* never taken for those of another.
FlushOnlyOwn ==
    [][\A e \in dcache \ dcache' :
         \/ fpc[e.task] # "no"
         \/ \E t \in alive \ alive' : level[t] = e.ns]_flushVars

-----------------------------------------------------------------------------
(* The invariant of the proofs.                                            *)

\* The namespaces the loop of t has been through.
Through(t) ==
    {ns \in 0 .. level[t] : \/ fpc[t] = "pid" /\ ns < i[t]
                            \/ fpc[t] = "tgid" /\ ns <= i[t]
                            \/ fpc[t] = "done"}

FlushedThrough ==
    \A t \in Tasks : \A ns \in Through(t) :
        PidEntry(t, ns) \in dcache => PidEntry(t, ns) \in recached

\* A task that is gone has been flushed, and a leader is flushed after its threads.
InOrder ==
    /\ \A t \in Tasks : t \notin alive => fpc[t] = "done"
    /\ \A t, u \in Tasks : fpc[t] # "no" /\ group_leader[u] = t /\ u # t => u \notin alive

FlushInv == FlushTypeOK /\ FlushedThrough /\ InOrder
=============================================================================
