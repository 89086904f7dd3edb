----------------------------- MODULE ProcPident -----------------------------
(***************************************************************************)
(* The directories of fs/proc/base.c whose entries stand in a table:       *)
(* /proc/PID (tgid_base_stuff), /proc/PID/task/TID (tid_base_stuff),       *)
(* /proc/PID/attr (attr_dir_stuff), read and searched by proc_pident_*(),  *)
(* and the entries of /proc itself (proc_base_stuff), by proc_base_*().    *)
(*                                                                         *)
(* One such directory of one task is modelled, with readers and lookups    *)
(* at work in it while the task exits.  Entries of different names do not  *)
(* meet in the dcache, so the cache is followed for the names in Wanted.   *)
(***************************************************************************)
EXTENDS Integers, Sequences, SequencesExt, FiniteSets

CONSTANTS
    Readers, Lookers,
    Builds,     \* the builds looked at: each the set of its CONFIG options
    Wanted,     \* the names that are looked up
    Seeks,      \* the positions a reader may seek to
    Wrap,       \* 2^w for an int of w bits
    None

ASSUME WrapAssumption == Wrap \in Nat /\ Wrap > 128
ASSUME SeekAssumption == Seeks \subseteq Nat
ASSUME FiniteAssumption == IsFiniteSet(Readers) /\ IsFiniteSet(Lookers)
ASSUME NoneAssumption == None \notin Readers \cup Lookers /\ Readers \cap Lookers = {}

-----------------------------------------------------------------------------
(* The tables: the names of the entries, in order, for the CONFIG options  *)
(* a build has set.                                                        *)

\* Entries between #ifdef and #endif.
Ifdef(build, config, names) == IF config \in build THEN names ELSE << >>

MiddlePart(build) ==
    <<"environ", "auxv", "status", "personality", "limits">>
    \o Ifdef(build, "SCHED_DEBUG", <<"sched">>)
    \o Ifdef(build, "HAVE_ARCH_TRACEHOOK", <<"syscall">>)
    \o <<"cmdline", "stat", "statm", "maps">>
    \o Ifdef(build, "NUMA", <<"numa_maps">>)
    \o <<"mem", "cwd", "root", "exe", "mounts", "mountinfo">>

LastPart(build) ==
    Ifdef(build, "PROC_PAGE_MONITOR", <<"clear_refs", "smaps", "pagemap">>)
    \o Ifdef(build, "SECURITY", <<"attr">>) \o Ifdef(build, "KALLSYMS", <<"wchan">>)
    \o Ifdef(build, "STACKTRACE", <<"stack">>) \o Ifdef(build, "SCHEDSTATS", <<"schedstat">>)
    \o Ifdef(build, "LATENCYTOP", <<"latency">>) \o Ifdef(build, "PROC_PID_CPUSET", <<"cpuset">>)
    \o Ifdef(build, "CGROUPS", <<"cgroup">>)
    \o <<"oom_score", "oom_adj">>
    \o Ifdef(build, "AUDITSYSCALL", <<"loginuid", "sessionid">>)
    \o Ifdef(build, "FAULT_INJECTION", <<"make-it-fail">>)

tgid_base_stuff(build) ==
    <<"task", "fd", "fdinfo">> \o Ifdef(build, "NET", <<"net">>)
    \o MiddlePart(build) \o <<"mountstats">> \o LastPart(build)
    \o Ifdef(build, "ELF_CORE", <<"coredump_filter">>)
    \o Ifdef(build, "TASK_IO_ACCOUNTING", <<"io">>)

tid_base_stuff(build) ==
    <<"fd", "fdinfo">> \o MiddlePart(build) \o LastPart(build)
    \o Ifdef(build, "TASK_IO_ACCOUNTING", <<"io">>)

attr_dir_stuff == <<"current", "prev", "exec", "fscreate", "keycreate", "sockcreate">>

proc_base_stuff == <<"self">>

\* The names of table t that the build has, in order.
Tables == {"tgid", "tid", "attr", "root"}
Compiled(t, build) ==
    CASE t = "tgid" -> tgid_base_stuff(build)
      [] t = "tid"  -> tid_base_stuff(build)
      [] t = "attr" -> attr_dir_stuff
      [] t = "root" -> proc_base_stuff

-----------------------------------------------------------------------------
VARIABLES
    which,      \* which directory it is
    ents,       \* its table
    alive,      \* the task still has its struct pid
    usage,      \* the references to its task_struct
    hash,       \* the names in Wanted that are hashed below the directory
    i_mutex,    \* of the directory
    pc,         \* where each reader or looker is
    f_pos,      \* of each reader's file
    idx,        \* of each reader: i, and p - ents once it is in the table
    wanted,     \* lookers: the name
    from,       \* history: the index a reader's pass started at
    listed,     \* history: the indices handed out since
    eof,        \* history: the pass has come to its end
    goneAtStart \* history: the task was gone when the lookup began

table == <<which, ents>>
taskVars == <<alive, usage>>
files == <<f_pos, from, listed, eof>>
looks == <<wanted, goneAtStart>>
vars == <<table, taskVars, hash, i_mutex, pc, idx, files, looks>>

Procs == Readers \cup Lookers
nents == Len(ents)
Name(i) == ents[i + 1]

\* A process that has called get_proc_task() and not yet put the task.
Holding == {"switch", "fill", "fill_inst", "fill_add", "fill_race", "emit",
            "inst", "add", "race"}
\* A process that holds the directory's mutex.
Locked == Holding \cup {"lookup"}

TaskTypeOK ==
    /\ which \in Tables
    /\ \E b \in Builds : ents = Compiled(which, b)
    /\ alive \in BOOLEAN /\ usage \in Int
    /\ hash \subseteq Wanted

\* The mutex is held by whoever is inside readdir or lookup, one at a time.
MutexTypeOK ==
    /\ i_mutex \in Procs \cup {None}
    /\ pc \in [Procs -> Locked \cup {"idle", "reval", "lock", "reval_again", "have"}]
    /\ \A x \in Procs : pc[x] \in Locked <=> i_mutex = x

FilesTypeOK ==
    /\ f_pos \in [Readers -> Nat] /\ idx \in [Readers -> Int]
    /\ from \in [Readers -> 0 .. nents] /\ listed \in [Readers -> SUBSET (0 .. nents - 1)]
    /\ eof \in [Readers -> BOOLEAN]

LooksTypeOK == wanted \in [Lookers -> Wanted] /\ goneAtStart \in [Lookers -> BOOLEAN]

\* Everything keeps to its type.
TypeOK == TaskTypeOK /\ MutexTypeOK /\ FilesTypeOK /\ LooksTypeOK

Init ==
    /\ which \in Tables
    /\ \E b \in Builds : ents = Compiled(which, b)
    /\ alive = TRUE /\ usage = 1
    /\ hash = {}
    /\ i_mutex = None
    /\ pc = [x \in Procs |-> "idle"]
    /\ idx = [r \in Readers |-> 0]
    /\ f_pos = [r \in Readers |-> 0]
    /\ wanted \in {[l \in Lookers |-> n] : n \in Wanted}
    /\ from = [r \in Readers |-> 0]
    /\ listed = [r \in Readers |-> {}]
    /\ eof = [r \in Readers |-> FALSE]
    /\ goneAtStart = [l \in Lookers |-> FALSE]

-----------------------------------------------------------------------------
\* release_task(): the struct pid lets go of the task.
Release ==
    /\ alive
    /\ alive' = FALSE
    /\ usage' = usage - 1
    /\ UNCHANGED <<table, hash, i_mutex, pc, idx, files, looks>>

\* The entry of name n is in the hands of one of xs.
Held(n, xs) ==
    \/ \E l \in Lookers \cap xs :
          pc[l] \in {"reval", "reval_again", "race", "have"} /\ wanted[l] = n
    \/ \E r \in Readers \cap xs : pc[r] \in {"fill_race", "emit"} /\ Name(idx[r]) = n

\* The last dput() asks pid_delete_dentry() whether to keep the entry.
dput(x, n) == hash' = IF alive \/ Held(n, Procs \ {x}) THEN hash ELSE hash \ {n}

\* Memory pressure takes an entry nobody holds out of the cache.
Shrink(n) ==
    /\ n \in hash /\ ~ Held(n, Procs)
    /\ hash' = hash \ {n}
    /\ UNCHANGED <<table, taskVars, i_mutex, pc, idx, files, looks>>

Go(x, at) == pc' = [pc EXCEPT ![x] = at]

\* out: put_task_struct(), and the mutex is released.
Leave(x) == Go(x, "idle") /\ i_mutex' = None /\ usage' = usage - 1

\* Mutant: the task is not looked at.
PassesAlways == TRUE

\* pid_revalidate(), proc_base_revalidate(): the inode's task is there.
Revalidates == alive

\* Only what Wanted names is followed.
Hashed(n) == hash' = hash \cup ({n} \cap Wanted)
Dropped(n) == hash' = IF Revalidates THEN hash ELSE hash \ {n}

-----------------------------------------------------------------------------
(* proc_pident_readdir().  /proc itself is listed by proc_pid_readdir().   *)

\* (int) f_pos, as the unsigned number it is compared as.
Truncated(pos) == pos % Wrap

FirstIndex(pos) ==
    LET i == Truncated(pos) IN IF i < 2 THEN 0 ELSE IF i - 2 > nents THEN nents ELSE i - 2

\* lseek(): any position; a pass through the directory starts over.
Seek(r, pos) ==
    /\ pc[r] = "idle"
    /\ f_pos' = [f_pos EXCEPT ![r] = pos]
    /\ from' = [from EXCEPT ![r] = FirstIndex(pos)]
    /\ listed' = [listed EXCEPT ![r] = {}]
    /\ eof' = [eof EXCEPT ![r] = FALSE]
    /\ UNCHANGED <<table, taskVars, hash, i_mutex, pc, idx, looks>>

\* vfs_readdir() takes the mutex; without a task the call is over (-ENOENT).
ReaddirStart(r) ==
    /\ pc[r] = "idle" /\ i_mutex = None /\ which # "root"
    /\ alive
    /\ usage' = usage + 1
    /\ i_mutex' = r
    /\ Go(r, "switch")
    /\ idx' = [idx EXCEPT ![r] = Truncated(f_pos[r])]
    /\ UNCHANGED <<table, alive, hash, files, looks>>

\* case 0 and case 1: "." and "..", if the buffer has room.
Dots(r) ==
    /\ pc[r] = "switch" /\ idx[r] < 2
    /\ \/ /\ idx' = [idx EXCEPT ![r] = @ + 1]
          /\ f_pos' = [f_pos EXCEPT ![r] = @ + 1]
          /\ UNCHANGED <<usage, i_mutex, pc>>
       \/ Leave(r) /\ UNCHANGED <<idx, f_pos>>
    /\ UNCHANGED <<table, alive, hash, from, listed, eof, looks>>

\* Mutant: the comparison is made with signed numbers.
PastTheEndSigned(r) ==
    LET i == idx[r] - 2 IN (IF i < Wrap - i THEN i ELSE i - Wrap) >= nents

\* i >= nents with nents unsigned: a negative i is past the end too.
PastTheEnd(r) == idx[r] - 2 >= nents

\* The pass is over: ret = 1.
AtEnd(r) == Leave(r) /\ eof' = [eof EXCEPT ![r] = TRUE]

Default(r) ==
    /\ pc[r] = "switch" /\ idx[r] >= 2
    /\ idx' = [idx EXCEPT ![r] = @ - 2]
    /\ IF PastTheEnd(r)
       THEN AtEnd(r)
       ELSE Go(r, "fill") /\ UNCHANGED <<usage, i_mutex, eof>>
    /\ UNCHANGED <<table, alive, hash, f_pos, from, listed, looks>>

\* proc_fill_cache(): the entry is in the cache, or is made there.
FillLookup(r) ==
    /\ pc[r] = "fill"
    /\ \/ Name(idx[r]) \in hash /\ Go(r, "emit")
       \/ Name(idx[r]) \notin hash /\ Go(r, "fill_inst")
    /\ UNCHANGED <<table, taskVars, hash, i_mutex, idx, files, looks>>

\* proc_pid_make_inode() needs memory and a task that has its struct pid;
\* without an inode the entry is given out as inode 1.
FillInstantiate(r) ==
    /\ pc[r] = "fill_inst"
    /\ Go(r, "emit") \/ (alive /\ Go(r, "fill_add"))
    /\ UNCHANGED <<table, taskVars, hash, i_mutex, idx, files, looks>>

FillAdd(r) ==
    /\ pc[r] = "fill_add"
    /\ Hashed(Name(idx[r]))
    /\ Go(r, "fill_race")
    /\ UNCHANGED <<table, taskVars, i_mutex, idx, files, looks>>

FillCloseRace(r) ==
    /\ pc[r] = "fill_race"
    /\ Dropped(Name(idx[r]))
    /\ Go(r, "emit")
    /\ UNCHANGED <<table, taskVars, i_mutex, idx, files, looks>>

\* Mutant: the position stays at the entry that was handed out.
MovesOnLate(r) == UNCHANGED f_pos

MovesOn(r) == f_pos' = [f_pos EXCEPT ![r] = @ + 1]

\* dput(), and filldir() takes the entry; on to the next one while p <= last.
Emit(r) ==
    /\ pc[r] = "emit"
    /\ MovesOn(r)
    /\ dput(r, Name(idx[r]))
    /\ idx' = [idx EXCEPT ![r] = @ + 1]
    /\ listed' = [listed EXCEPT ![r] = @ \cup {idx[r]}]
    /\ IF idx[r] + 1 < nents
       THEN Go(r, "fill") /\ UNCHANGED <<usage, i_mutex, eof>>
       ELSE AtEnd(r)
    /\ UNCHANGED <<table, alive, from, looks>>

\* Mutant: a full buffer returns without putting the task.
BufferFullLeaks(r) ==
    /\ pc[r] = "emit"
    /\ Go(r, "idle") /\ i_mutex' = None
    /\ UNCHANGED <<table, taskVars, hash, idx, files, looks>>

\* The buffer is full: goto out.
BufferFull(r) ==
    /\ pc[r] = "emit"
    /\ Leave(r)
    /\ dput(r, Name(idx[r]))
    /\ UNCHANGED <<table, alive, idx, files, looks>>

proc_pident_readdir(r) ==
    \/ \E pos \in Seeks : Seek(r, pos)
    \/ ReaddirStart(r) \/ Dots(r) \/ Default(r)
    \/ FillLookup(r) \/ FillInstantiate(r) \/ FillAdd(r) \/ FillCloseRace(r)
    \/ Emit(r) \/ BufferFull(r)

-----------------------------------------------------------------------------
(* A path walk to one entry: do_lookup() and real_lookup() of the VFS      *)
(* around proc_pident_lookup() and proc_base_lookup().                     *)

LookupStart(l, n) ==
    /\ pc[l] = "idle"
    /\ wanted' = [wanted EXCEPT ![l] = n]
    /\ goneAtStart' = [goneAtStart EXCEPT ![l] = ~ alive]
    /\ Go(l, IF n \in hash THEN "reval" ELSE "lock")
    /\ UNCHANGED <<table, taskVars, hash, i_mutex, idx, files>>

\* pid_revalidate() of a cached entry: what is refused is dropped, and the
\* first time looked up for real.
Revalidate(l) ==
    /\ pc[l] \in {"reval", "reval_again"}
    /\ Dropped(wanted[l])
    /\ \/ Revalidates /\ Go(l, "have")
       \/ ~ Revalidates /\ Go(l, IF pc[l] = "reval" THEN "lock" ELSE "idle")
    /\ UNCHANGED <<table, taskVars, i_mutex, idx, files, looks>>

\* The second look is made with the mutex held.
RealLookup(l) ==
    /\ pc[l] = "lock" /\ i_mutex = None
    /\ \/ wanted[l] \in hash /\ Go(l, "reval_again") /\ UNCHANGED i_mutex
       \/ wanted[l] \notin hash /\ Go(l, "lookup") /\ i_mutex' = l
    /\ UNCHANGED <<table, taskVars, hash, idx, files, looks>>

\* An entry of the same length and the same bytes; without a task or an
\* entry the answer is -ENOENT.
Search(l) ==
    /\ pc[l] = "lookup"
    /\ IF alive /\ wanted[l] \in ToSet(ents)
       THEN usage' = usage + 1 /\ Go(l, "inst") /\ UNCHANGED i_mutex
       ELSE Go(l, "idle") /\ i_mutex' = None /\ UNCHANGED usage
    /\ UNCHANGED <<table, alive, hash, idx, files, looks>>

proc_pident_lookup(l) == which # "root" /\ Search(l)
proc_base_lookup(l) == which = "root" /\ Search(l)

\* proc_pident_instantiate(): no inode, no entry.
Instantiate(l) ==
    /\ pc[l] = "inst"
    /\ \/ alive /\ Go(l, "add") /\ UNCHANGED <<usage, i_mutex>>
       \/ Leave(l)
    /\ UNCHANGED <<table, alive, hash, idx, files, looks>>

Add(l) ==
    /\ pc[l] = "add" /\ which # "root"
    /\ Hashed(wanted[l])
    /\ Go(l, "race")
    /\ UNCHANGED <<table, taskVars, i_mutex, idx, files, looks>>

\* proc_base_instantiate() is done with d_add(): no race is closed.
BaseAdd(l) ==
    /\ pc[l] = "add" /\ which = "root"
    /\ Hashed(wanted[l])
    /\ Go(l, "have") /\ i_mutex' = None /\ usage' = usage - 1
    /\ UNCHANGED <<table, alive, idx, files, looks>>

\* "Close the race of the process dying before we return the dentry"
CloseRace(l) ==
    /\ pc[l] = "race"
    /\ Dropped(wanted[l])
    /\ Go(l, IF Revalidates THEN "have" ELSE "idle")
    /\ i_mutex' = None /\ usage' = usage - 1
    /\ UNCHANGED <<table, alive, idx, files, looks>>

\* The walk is over.
Dput(l) ==
    /\ pc[l] = "have"
    /\ dput(l, wanted[l])
    /\ Go(l, "idle")
    /\ UNCHANGED <<table, taskVars, i_mutex, idx, files, looks>>

PathWalk(l) ==
    \/ \E n \in Wanted : LookupStart(l, n)
    \/ Revalidate(l) \/ RealLookup(l)
    \/ proc_pident_lookup(l) \/ proc_base_lookup(l)
    \/ Instantiate(l) \/ Add(l) \/ BaseAdd(l) \/ CloseRace(l) \/ Dput(l)

Next ==
    \/ Release
    \/ \E n \in hash : Shrink(n)
    \/ \E r \in Readers : proc_pident_readdir(r)
    \/ \E l \in Lookers : PathWalk(l)

Spec == Init /\ [][Next]_vars

-----------------------------------------------------------------------------
\* Wherever a reader has seeked to, also to a position that is negative or
\* small as an int, proc_pident_readdir() never leaves its table.
IndexInTable ==
    \A r \in Readers : pc[r] \in Holding \ {"switch"} => idx[r] \in 0 .. nents - 1

\* From where a pass started, it hands out every entry of the table, in any
\* number of calls, and none of them twice.
PassExact ==
    \A r \in Readers :
        /\ pc[r] = "emit" => idx[r] \notin listed[r]
        /\ eof[r] => listed[r] = from[r] .. nents - 1

\* A path walk that starts after the task is gone finds nothing, though the
\* entry may be cached, and whatever readers and other walks put there.
NothingOfTheDead ==
    \A l \in Lookers : pc[l] = "have" => ~ goneAtStart[l]

\* The task_struct stays while a reader or a lookup uses it, and no way out
\* of them keeps it.
TaskCounted ==
    usage = Cardinality({x \in Procs : pc[x] \in Holding}) + (IF alive THEN 1 ELSE 0)

-----------------------------------------------------------------------------
(* The invariant of the proofs.                                            *)

Filling == {"fill", "fill_inst", "fill_add", "fill_race", "emit"}

\* Readers are inside readdir, lookers inside a path walk.
Roles ==
    /\ \A r \in Readers : pc[r] \in {"idle", "switch"} \cup Filling
    /\ \A l \in Lookers : pc[l] \notin {"switch"} \cup Filling

\* The position of the file stands for the index to come next, in a call and
\* between calls: what was handed out is what lies between the start and it.
PassOf(r) ==
    /\ from[r] <= FirstIndex(f_pos[r])
    /\ listed[r] = from[r] .. FirstIndex(f_pos[r]) - 1
    /\ pc[r] = "switch" => idx[r] = Truncated(f_pos[r])
    /\ pc[r] \in Filling => idx[r] \in 0 .. nents - 1 /\ Truncated(f_pos[r]) = idx[r] + 2
    /\ eof[r] => FirstIndex(f_pos[r]) = nents

PassSoFar == \A r \in Readers : PassOf(r)

\* A task that is gone does not come back, and whoever has found it while it
\* was there did not start after its end.
StillGone ==
    \A l \in Lookers :
        /\ pc[l] # "idle" /\ goneAtStart[l] => ~ alive
        /\ pc[l] \in {"inst", "add", "race", "have"} => ~ goneAtStart[l]

IInv == TypeOK /\ Roles /\ PassSoFar /\ StillGone
=============================================================================
