-------------------------- MODULE ProcTaskReaddir --------------------------
(***************************************************************************)
(* The listing of the threads of a process, /proc/TGID/task:               *)
(* proc_task_readdir(), first_tid() and next_tid() of fs/proc/base.c, run  *)
(* against threads that are created and exit at any moment.                *)
(*                                                                         *)
(* Threads hang on a circular list that starts at the group leader; a new  *)
(* thread goes to its tail, and a thread that exits is unlinked but keeps  *)
(* its next pointer for readers under RCU.  From one getdents call to the  *)
(* next the file keeps a position, f_pos, and in f_version the tid of the  *)
(* thread that no longer fitted into the buffer.  A tid is free again once *)
(* its thread is unlinked: a new thread of the group may get it, or a task *)
(* of another process.                                                     *)
(*                                                                         *)
(* One open file is modelled (the directory's i_mutex keeps calls apart    *)
(* and files share no position), and the process does not exec.            *)
(***************************************************************************)
EXTENDS Integers, FiniteSets

CONSTANTS
    Threads,    \* the threads the process can come to have, each created once
    leader,     \* the thread group leader
    Tids,       \* the numbers threads get
    NoTid,      \* tid 0: f_version is empty
    Stranger,   \* a task of another process
    NULL,       \* no task
    MaxRoom     \* the most entries one user buffer takes

ASSUME LeaderAssumption == leader \in Threads /\ Stranger \notin Threads /\ NULL \notin Threads
ASSUME TidsAssumption == Tids # {} /\ NoTid \notin Tids
ASSUME ThreadsAssumption == IsFiniteSet(Threads)
ASSUME RoomAssumption == MaxRoom \in Nat \ {0}

VARIABLES
    linked,     \* the threads on the list
    nxt,        \* every task's next pointer, kept after it is unlinked
    age,        \* which thread this is of all the process has had; 0: not created so far
    tid,        \* the number of each thread
    births,     \* the threads created so far
    pc,         \* where the readdir call is
    f_pos,
    f_version,
    task,       \* the loop's task; pos while in first_tid()
    nr,         \* threads first_tid() still has to walk past
    room,       \* entries the user buffer still takes
    refs,       \* task references the call holds
    listed,     \* history: threads handed out since the file was rewound
    stable,     \* history: threads alive ever since the file was rewound
    lost,       \* history: a call counted threads with a listed one gone
    ended,      \* history: a call found nothing to hand out
    left,       \* history: the thread whose tid f_version holds
    mistaken    \* history: a call took another thread with that tid for it

groupVars == <<linked, nxt, age, tid, births>>
history == <<listed, stable, lost, ended, left, mistaken>>
vars == <<groupVars, pc, f_pos, f_version, task, nr, room, refs, history>>

pid_alive(t) == t \in linked
get_nr_threads == Cardinality(linked)
Born == {t \in Threads : age[t] > 0}

GroupTypeOK ==
    /\ linked \subseteq Born
    /\ nxt \in [Threads -> Threads]
    /\ births \in Nat /\ age \in [Threads -> 0 .. births]
    /\ tid \in [Threads -> Tids]

CallTypeOK ==
    /\ pc \in {"idle", "dots", "first", "walk", "fill", "next"}
    /\ f_pos \in Nat /\ nr \in Nat
    /\ f_version \in Tids \cup {NoTid}
    /\ task \in Born
    /\ room \in 0 .. MaxRoom
    /\ refs \in Int

\* The list, the file and the call keep to their types.
TypeOK ==
    /\ GroupTypeOK /\ CallTypeOK
    /\ listed \subseteq Born /\ stable \subseteq linked
    /\ lost \in BOOLEAN /\ ended \in BOOLEAN
    /\ left \in Born /\ mistaken \in BOOLEAN

Init ==
    /\ linked = {leader}
    /\ nxt = [t \in Threads |-> leader]
    /\ age = [t \in Threads |-> IF t = leader THEN 1 ELSE 0] /\ births = 1
    /\ tid \in {[t \in Threads |-> n] : n \in Tids}
    /\ pc = "idle"
    /\ f_pos = 0 /\ f_version = NoTid
    /\ task = leader /\ nr = 0 /\ room = 0 /\ refs = 0
    /\ listed = {} /\ stable = {leader} /\ lost = FALSE /\ ended = FALSE
    /\ left = leader /\ mistaken = FALSE

-----------------------------------------------------------------------------
(* Threads (kernel/fork.c, kernel/exit.c).                                 *)

\* The thread of the group that has number n.
Holders(n) == {t \in linked : tid[t] = n}

\* alloc_pid() takes a number that is free, and list_add_tail_rcu() puts the
\* thread behind the one that points to the leader.
Create(t, n) ==
    /\ age[t] = 0
    /\ Holders(n) = {}
    /\ tid' = [tid EXCEPT ![t] = n]
    /\ \E tail \in linked : nxt[tail] = leader /\ nxt' = [nxt EXCEPT ![tail] = t, ![t] = leader]
    /\ births' = births + 1
    /\ age' = [age EXCEPT ![t] = births']
    /\ linked' = linked \cup {t}
    /\ UNCHANGED <<pc, f_pos, f_version, task, nr, room, refs, history>>

\* list_del_rcu(): the predecessor points past t.  The leader goes last.
Exit(t) ==
    /\ pid_alive(t)
    /\ t = leader => linked = {leader}
    /\ linked' = linked \ {t}
    /\ nxt' = [u \in Threads |-> IF u \in linked \ {t} /\ nxt[u] = t THEN nxt[t] ELSE nxt[u]]
    /\ stable' = stable \ {t}
    /\ lost' = (lost \/ (pc = "walk" /\ t \in listed))
    /\ UNCHANGED <<age, tid, births, pc, f_pos, f_version, task, nr, room, refs>>
    /\ UNCHANGED <<listed, ended, left, mistaken>>

\* rewinddir(): lseek() to 0 "automagically resets f_version to 0".
Rewind ==
    /\ pc = "idle" /\ f_pos > 0
    /\ f_pos' = 0 /\ f_version' = NoTid
    /\ listed' = {} /\ stable' = linked /\ lost' = FALSE /\ ended' = FALSE
    /\ left' = leader /\ mistaken' = FALSE
    /\ UNCHANGED <<groupVars, pc, task, nr, room, refs>>

-----------------------------------------------------------------------------
(* proc_task_readdir().                                                    *)

\* Entry: the leader of the inode's task, or -ENOENT when it is gone.
Start ==
    /\ pc = "idle"
    /\ \/ /\ pid_alive(leader)
          /\ pc' = "dots"
          /\ refs' = refs + 1
          /\ room' \in 1 .. MaxRoom
          /\ UNCHANGED <<groupVars, f_pos, f_version, task, nr, history>>
       \/ /\ ~ pid_alive(leader)
          /\ UNCHANGED vars

Return(puts) ==
    /\ pc' = "idle"
    /\ refs' = refs - puts

\* "." and "..": f_pos 0 and 1.
Dots ==
    /\ pc = "dots" /\ f_pos < 2
    /\ \/ /\ room > 0
          /\ room' = room - 1 /\ f_pos' = f_pos + 1
          /\ UNCHANGED <<pc, refs>>
       \/ /\ room = 0
          /\ Return(1)
          /\ UNCHANGED <<room, f_pos>>
    /\ UNCHANGED <<groupVars, f_version, task, nr, history>>

\* Mutant: only one of the two dot entries is taken off.
WalkPastOneDot == f_pos - 1

\* The threads that lie before position f_pos.
WalkPast == f_pos - 2

\* find_task_by_pid_ns(): the thread that has the number now.  A number that no
\* thread of the group has may be free or another process's: those come and go.
find_task_by_pid_ns(n) == IF Holders(n) # {} THEN Holders(n) ELSE {Stranger, NULL}

\* Mutant: any task that has the number will do.
InGroupAny(pos) == pos # NULL

\* pos && pos->group_leader == leader.
InGroup(pos) == pos \in Threads

\* first_tid() tries the saved tid first; f_version is emptied.
DotsDone ==
    /\ pc = "dots" /\ f_pos >= 2
    /\ f_version' = NoTid /\ left' = leader
    /\ nr' = WalkPast
    /\ \E pos \in IF f_version # NoTid /\ nr' > 0 THEN find_task_by_pid_ns(f_version) ELSE {NULL} :
         \/ /\ InGroup(pos)
            /\ task' = pos /\ pc' = "fill" /\ refs' = refs + 1
            /\ mistaken' = (mistaken \/ pos # left)
         \/ /\ ~ InGroup(pos)
            /\ task' = leader /\ pc' = "first"
            /\ UNCHANGED <<refs, mistaken>>
    /\ UNCHANGED <<groupVars, f_pos, room, listed, stable, lost, ended>>

\* No thread at that position: the call returns with nothing to show.
OutOfThreads ==
    /\ Return(1)
    /\ ended' = TRUE

\* "If nr exceeds the number of threads there is nothing todo."
First ==
    /\ pc = "first"
    /\ lost' = (lost \/ (nr > 0 /\ ~ (listed \subseteq linked)))
    /\ IF nr > 0 /\ nr >= get_nr_threads
       THEN OutOfThreads
       ELSE pc' = "walk" /\ UNCHANGED <<refs, ended>>
    /\ UNCHANGED <<groupVars, f_pos, f_version, task, nr, room, listed, stable, left, mistaken>>

\* The walk from the leader, nr threads forward, one next_thread() a step.
Walk ==
    /\ pc = "walk"
    /\ IF nr = 0
       THEN pc' = "fill" /\ refs' = refs + 1 /\ UNCHANGED <<task, nr, ended>>
       ELSE IF nxt[task] = leader
            THEN OutOfThreads /\ UNCHANGED <<task, nr>>
            ELSE pc' = pc /\ task' = nxt[task] /\ nr' = nr - 1 /\ UNCHANGED <<refs, ended>>
    /\ UNCHANGED <<groupVars, f_pos, f_version, room, listed, stable, lost, left, mistaken>>

\* task_pid_nr_ns() gives 0 for a thread that is unlinked.  The loop asks before
\* it fills the entry: of a thread that is gone by now, before or after it went.
task_pid_nr_ns(t) == IF pid_alive(t) THEN {tid[t]} ELSE {tid[t], NoTid}

\* Mutant: a full buffer leaves the loop without putting the task.
FillLeaks ==
    /\ pc = "fill"
    /\ \/ /\ room > 0
          /\ room' = room - 1
          /\ listed' = listed \cup {task}
          /\ pc' = "next"
          /\ UNCHANGED <<f_version, left, refs>>
       \/ /\ room = 0
          /\ f_version' \in task_pid_nr_ns(task) /\ left' = task
          /\ Return(1)
          /\ UNCHANGED <<room, listed>>
    /\ UNCHANGED <<groupVars, f_pos, task, nr, stable, lost, ended, mistaken>>

\* proc_task_fill_cache(): the entry goes out, or its tid is saved.
Fill ==
    /\ pc = "fill"
    /\ \/ /\ room > 0
          /\ room' = room - 1
          /\ listed' = listed \cup {task}
          /\ pc' = "next"
          /\ UNCHANGED <<f_version, left, refs>>
       \/ /\ room = 0
          /\ f_version' \in task_pid_nr_ns(task) /\ left' = task
          /\ Return(2)
          /\ UNCHANGED <<room, listed>>
    /\ UNCHANGED <<groupVars, f_pos, task, nr, stable, lost, ended, mistaken>>

\* Mutant: the position is not advanced.
NextTidStays ==
    /\ pc = "next"
    /\ IF pid_alive(task) /\ nxt[task] # leader
       THEN task' = nxt[task] /\ pc' = "fill" /\ UNCHANGED refs
       ELSE Return(2) /\ UNCHANGED task
    /\ UNCHANGED <<groupVars, f_pos, f_version, nr, room, history>>

\* next_tid(): the task's successor, if the task is still on the list; its
\* reference passes to the successor or is put.  f_pos counts either way.
NextTid ==
    /\ pc = "next"
    /\ f_pos' = f_pos + 1
    /\ IF pid_alive(task) /\ nxt[task] # leader
       THEN task' = nxt[task] /\ pc' = "fill" /\ UNCHANGED refs
       ELSE Return(2) /\ UNCHANGED task
    /\ UNCHANGED <<groupVars, f_version, nr, room, history>>

Call == Dots \/ DotsDone \/ First \/ Walk \/ Fill \/ NextTid

Next ==
    \/ \E t \in Threads : (\E n \in Tids : Create(t, n)) \/ Exit(t)
    \/ Rewind \/ Start \/ Call

Spec == Init /\ [][Next]_vars

-----------------------------------------------------------------------------
\* No thread is handed out twice between two rewinds, although a call that
\* starts by counting threads from the leader counts on a list that has
\* changed since f_pos was last advanced; unless a call was mistaken, and
\* resumed at a younger thread that had got the number in f_version.
NoDuplicate == pc = "fill" /\ ~ mistaken => task \notin listed

\* When a call has nothing more to hand out, every thread that was alive all
\* along has been handed out, even if the thread that f_version names has
\* exited, or the loop's thread under the loop.  Two are excused: a count from
\* the leader with a listed thread gone, and a call that was mistaken.
ListingComplete == ended /\ ~ lost /\ ~ mistaken => stable \subseteq listed

\* Nobody else's task is handed out, not even one that got the number kept in
\* f_version after its thread had exited.
OnlyItsThreads == listed \subseteq Threads

\* The references to the leader and to the loop's task are put on every way
\* out of the call.
RefsBalanced == pc = "idle" => refs = 0

-----------------------------------------------------------------------------
(* The invariant of the proofs.                                            *)

\* Threads hang on the ring in the order of their creation, and no pointer, an
\* unlinked thread's either, leads past a thread that is on it.
Ring ==
    /\ leader \in Born /\ (linked = {} \/ leader \in linked)
    /\ \A t \in Born \ {leader} : age[leader] < age[t]
    /\ \A t, u \in Born : age[t] = age[u] => t = u
    /\ \A t \in linked : nxt[t] \in linked
    /\ \A t \in linked : nxt[t] = leader => \A u \in linked : age[u] <= age[t]
    /\ \A t \in Born : nxt[t] # leader =>
         /\ nxt[t] \in Born /\ age[t] < age[nxt[t]]
         /\ \A u \in linked : age[u] <= age[t] \/ age[nxt[t]] <= age[u]

\* What a call holds on its way: the leader, and from first_tid() on a thread.
RefsCounted ==
    refs = IF pc = "idle" THEN 0 ELSE IF pc \in {"fill", "next"} THEN 2 ELSE 1

\* The position counts the threads handed out.
PositionCounts ==
    /\ f_pos < 2 => listed = {} /\ pc \in {"idle", "dots"}
    /\ f_pos >= 2 => Cardinality(listed) = IF pc = "next" THEN f_pos - 1 ELSE f_pos - 2
    /\ pc = "first" => nr = f_pos - 2 /\ task = leader
    /\ pc \notin {"idle", "dots"} => f_version = NoTid

\* t or a younger thread has been handed out; those on the list.
Passed(t) == \E u \in listed : age[t] <= age[u]
Behind == {t \in linked : Passed(t)}

\* No more threads are left behind the last one handed out than were handed
\* out: a count from the leader does not end among them.  Unless such a count
\* was off, they are those that were handed out.
PassedCounted ==
    /\ Cardinality(Behind) <= Cardinality(listed)
    /\ ~ lost => Behind \subseteq listed

Older(t) == {u \in linked : age[u] < age[t]}

\* Thread t comes next: it is younger than all that were handed out, and older
\* ones that were not are left out only by a count that was off.
ComesNext(t) ==
    /\ ~ Passed(t)
    /\ Cardinality(Older(t)) <= Cardinality(listed)
    /\ ~ lost => Older(t) \subseteq listed

InHand ==
    /\ pc = "fill" => ComesNext(task)
    /\ pc = "next" => task \in listed /\ \A t \in listed : age[t] <= age[task]
    /\ f_version # NoTid => ComesNext(left)

\* The threads of seen that the count has before it among those passed.
Ahead(seen) == {t \in seen : age[task] <= age[t] /\ Passed(t)}

\* The count from the leader: seen are the threads on the list since it began,
\* of which no more than nr lie between it and the last one handed out.
Counting ==
    /\ Cardinality(Older(task)) + nr <= Cardinality(listed)
    /\ \E seen \in SUBSET Born :
         /\ linked \subseteq seen /\ task \in seen /\ \A t \in seen : nxt[t] \in seen
         /\ Cardinality(Ahead(seen)) <= nr

\* While it is not off, it goes over the threads handed out, all still there.
CountingExact ==
    /\ listed \subseteq linked
    /\ nr > 0 => task \in listed
    /\ Cardinality(Ahead(listed)) = nr
    /\ Older(task) \subseteq listed

WalkCounts == pc = "walk" => Counting /\ (lost \/ CountingExact)

Basics == TypeOK /\ Ring /\ RefsCounted

Exact == PositionCounts /\ PassedCounted /\ InHand /\ WalkCounts /\ ListingComplete

\* A mistaken call leaves a position that counts no longer what was handed out:
\* until the file is rewound only the list and the references are as they were.
IInv == Basics /\ (mistaken \/ Exact)
=============================================================================
