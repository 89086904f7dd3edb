----------------------------- MODULE ProcMounts -----------------------------
(***************************************************************************)
(* /proc/PID/mounts, mountinfo and mountstats (fs/proc/base.c):            *)
(* mounts_open_common() takes references to the task's mount namespace and *)
(* root directory while the task may be exiting, mounts_release() gives    *)
(* them back, and mounts_poll() tells a waiting reader that the namespace  *)
(* has changed.                                                            *)
(*                                                                         *)
(* Files are open files of these three; the reader of a file polls it for  *)
(* POLLPRI and POLLERR.                                                    *)
(***************************************************************************)
EXTENDS Integers, FiniteSets

CONSTANTS
    Files,
    MaxEvent    \* bound: changes to the namespace

ASSUME FilesAssumption == IsFiniteSet(Files)
ASSUME EventAssumption == MaxEvent \in Nat

VARIABLES
    life,       \* of the task, in the order of do_exit(): "running", "no_fs",
                \* "no_ns", "gone"
    ns_count,   \* references to the mount namespace
    root_count, \* references to the root path handed out by get_fs_path()
    event,      \* ns->event
    pc,         \* where the open, the poll or the release of a file is
    p_event,    \* p->event of each open file
    queued,     \* its poller is on ns->poll
    woken       \* and has been woken since it last looked

refs == <<ns_count, root_count>>
polls == <<event, p_event, queued, woken>>
vars == <<life, refs, pc, polls>>

PCs == {"closed", "root", "alloc", "seq", "open", "compare", "sleep"}

\* The task still has a struct fs_struct, a namespace, a struct pid.
HasFs == life = "running"
HasNs == life \in {"running", "no_fs"}

\* Everything keeps to its type.
TypeOK ==
    /\ life \in {"running", "no_fs", "no_ns", "gone"}
    /\ ns_count \in Int /\ root_count \in Int
    /\ event \in 0 .. MaxEvent
    /\ pc \in [Files -> PCs]
    /\ p_event \in [Files -> 0 .. MaxEvent]
    /\ queued \in [Files -> BOOLEAN]
    /\ woken \in [Files -> BOOLEAN]

Init ==
    /\ life = "running"
    /\ ns_count = 1 /\ root_count = 0
    /\ event = 0
    /\ pc = [f \in Files |-> "closed"]
    /\ p_event = [f \in Files |-> 0]
    /\ queued = [f \in Files |-> FALSE]
    /\ woken = [f \in Files |-> FALSE]

Goto(f, at) == pc' = [pc EXCEPT ![f] = at]

-----------------------------------------------------------------------------
(* The task's exit, and mounts made in its namespace.                      *)

exit_fs ==
    /\ life = "running"
    /\ life' = "no_fs"
    /\ UNCHANGED <<refs, pc, polls>>

exit_task_namespaces ==
    /\ life = "no_fs"
    /\ life' = "no_ns"
    /\ ns_count' = ns_count - 1
    /\ UNCHANGED <<root_count, pc, polls>>

release_task ==
    /\ life = "no_ns"
    /\ life' = "gone"
    /\ UNCHANGED <<refs, pc, polls>>

\* touch_mnt_namespace(), under vfsmount_lock: count and wake ns->poll.
Change ==
    /\ ns_count > 0 /\ event < MaxEvent
    /\ event' = event + 1
    /\ woken' = [f \in Files |-> woken[f] \/ queued[f]]
    /\ UNCHANGED <<life, refs, pc, p_event, queued>>

Environment == exit_fs \/ exit_task_namespaces \/ release_task \/ Change

-----------------------------------------------------------------------------
(* mounts_open_common() and mounts_release().                              *)

\* get_mnt_ns(), if the task is there and has a namespace.
GetNs(f) ==
    /\ pc[f] = "closed"
    /\ \/ HasNs /\ ns_count' = ns_count + 1 /\ Goto(f, "root")
       \/ ~ HasNs /\ UNCHANGED <<ns_count, pc>>
    /\ UNCHANGED <<life, root_count, polls>>

\* err_put_ns
ErrPutNs(f) == ns_count' = ns_count - 1 /\ Goto(f, "closed")

\* get_fs_path() of the root, which a task past exit_fs() has no more.
GetRoot(f) ==
    /\ pc[f] = "root"
    /\ \/ HasFs /\ root_count' = root_count + 1 /\ Goto(f, "alloc") /\ UNCHANGED ns_count
       \/ ~ HasFs /\ ErrPutNs(f) /\ UNCHANGED root_count
    /\ UNCHANGED <<life, polls>>

\* Mutant: the label err_put_path returns at once.
ErrPutPathOnly(f) ==
    /\ root_count' = root_count - 1
    /\ Goto(f, "closed")
    /\ UNCHANGED ns_count

\* err_put_path falls through to err_put_ns
ErrPutPath(f) == root_count' = root_count - 1 /\ ErrPutNs(f)

\* kmalloc() of the proc_mounts
Alloc(f) ==
    /\ pc[f] = "alloc"
    /\ \/ Goto(f, "seq") /\ UNCHANGED refs
       \/ ErrPutPath(f)
    /\ UNCHANGED <<life, polls>>

\* seq_open(); the file starts from the namespace's event of now.
SeqOpen(f) ==
    /\ pc[f] = "seq"
    /\ \/ /\ p_event' = [p_event EXCEPT ![f] = event]
          /\ Goto(f, "open")
          /\ UNCHANGED refs
       \/ ErrPutPath(f) /\ UNCHANGED p_event
    /\ UNCHANGED <<life, event, queued, woken>>

mounts_release(f) ==
    /\ pc[f] = "open"
    /\ ErrPutPath(f)
    /\ p_event' = [p_event EXCEPT ![f] = 0]
    /\ UNCHANGED <<life, event, queued, woken>>

-----------------------------------------------------------------------------
(* mounts_poll() inside the poll loop of fs/select.c.                      *)

\* Mutant: mounts_poll() without poll_wait().
PollWaitMissing(f) ==
    /\ pc[f] = "open"
    /\ Goto(f, "compare")
    /\ UNCHANGED <<life, refs, polls>>

\* poll_wait(file, &ns->poll, wait)
PollWait(f) ==
    /\ pc[f] = "open"
    /\ queued' = [queued EXCEPT ![f] = TRUE]
    /\ Goto(f, "compare")
    /\ UNCHANGED <<life, refs, event, p_event, woken>>

\* Under vfsmount_lock.  POLLERR | POLLPRI ends the poll; otherwise the
\* poller goes to sleep.
Compare(f) ==
    /\ pc[f] = "compare"
    /\ \/ /\ p_event[f] # event
          /\ p_event' = [p_event EXCEPT ![f] = event]
          /\ queued' = [queued EXCEPT ![f] = FALSE]
          /\ woken' = [woken EXCEPT ![f] = FALSE]
          /\ Goto(f, "open")
       \/ /\ p_event[f] = event
          /\ Goto(f, "sleep")
          /\ UNCHANGED <<p_event, queued, woken>>
    /\ UNCHANGED <<life, refs, event>>

\* Mutant: a woken poller goes back to sleep without calling mounts_poll().
WakeSleepsOn(f) ==
    /\ pc[f] = "sleep" /\ woken[f]
    /\ woken' = [woken EXCEPT ![f] = FALSE]
    /\ UNCHANGED <<life, refs, pc, event, p_event, queued>>

\* A woken poller calls mounts_poll() again, still on the queue.
Wake(f) ==
    /\ pc[f] = "sleep" /\ woken[f]
    /\ woken' = [woken EXCEPT ![f] = FALSE]
    /\ Goto(f, "compare")
    /\ UNCHANGED <<life, refs, event, p_event, queued>>

\* A signal or a timeout ends the poll.
Interrupt(f) ==
    /\ pc[f] = "sleep"
    /\ queued' = [queued EXCEPT ![f] = FALSE]
    /\ woken' = [woken EXCEPT ![f] = FALSE]
    /\ Goto(f, "open")
    /\ UNCHANGED <<life, refs, event, p_event>>

Poll(f) == Compare(f) \/ Wake(f)

Next ==
    \/ Environment
    \/ \E f \in Files :
         \/ GetNs(f) \/ GetRoot(f) \/ Alloc(f) \/ SeqOpen(f) \/ mounts_release(f)
         \/ PollWait(f) \/ Poll(f) \/ Interrupt(f)

Spec == Init /\ [][Next]_vars

\* The kernel runs a poller that is not asleep, or has been woken.
FairSpec == Spec /\ \A f \in Files : WF_vars(Poll(f))

-----------------------------------------------------------------------------

HoldsNs(f) == pc[f] # "closed"
HoldsRoot(f) == pc[f] \notin {"closed", "root"}

\* Through every error path of mounts_open_common() and a task that exits
\* half-way, the namespace and the root are referenced by the task and by
\* the opens in progress or done, and by nothing else.
RefsBalanced ==
    /\ ns_count = Cardinality({f \in Files : HoldsNs(f)}) + (IF HasNs THEN 1 ELSE 0)
    /\ root_count = Cardinality({f \in Files : HoldsRoot(f)})

\* No wake-up is lost: a poller that sleeps and has not been woken has seen
\* the last change of the namespace, because mounts_poll() goes on the queue
\* before it compares the event counts.
NoLostChange == \A f \in Files : pc[f] = "sleep" /\ ~ woken[f] => p_event[f] = event

\* A change is noticed on every open file that a poller sleeps on for it (one poller
\* per file: the first one woken takes the event).
ChangeNoticed ==
    \A f \in Files : pc[f] = "sleep" /\ p_event[f] # event ~> pc[f] = "open"

\* The inductive invariant: whoever compares or sleeps is on the queue.
QueuedWhilePolling ==
    \A f \in Files : pc[f] \in {"compare", "sleep"} => queued[f]

IInv == TypeOK /\ NoLostChange /\ QueuedWhilePolling

=============================================================================
