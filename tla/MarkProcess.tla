---------------------------- MODULE MarkProcess ----------------------------
(***************************************************************************)
(* init_module() of home_hack.c and proc_hack.c up to the installing of    *)
(* the hooks: check_args() on the insmod parameters (home_hack only), then *)
(* mark_process(), which walks the kernel's list of tasks and writes a     *)
(* node id, or -1, into every task's hp_node.                              *)
(*                                                                         *)
(* The walk holds neither tasklist_lock nor the RCU read lock: processes   *)
(* fork and exit between any two of its steps.  A fork copies the parent's *)
(* task_struct, hp_node included, some time before it links the child at   *)
(* the tail of the list.                                                   *)
(***************************************************************************)
EXTENDS Integers, FiniteSetsExt

CONSTANTS
    Pids,           \* pid numbers of processes; 0 is init_task, list head
    PID_ARRAY_MAX,  \* length of the parameter arrays
    ParamPids,      \* pids a user may pass
    ParamNodes      \* node ids a user may pass

ASSUME PidsAssumption == Pids \subseteq Nat \ {0}
ASSUME ArrayAssumption == PID_ARRAY_MAX \in Nat \ {0}
ASSUME ParamAssumption == ParamPids \subseteq Int /\ ParamNodes \subseteq Int

VARIABLES
    module,     \* the module that is loaded: home_hack or proc_hack
    pid_array, pid_array_count,     \* module parameters
    node_array, node_array_count,
    state,      \* of each pid: "free", "forking" (not yet linked), "live"
    before,     \* the order of the task list: <<p, q>> when p stands before q
    hp_node,    \* task->hp_node
    ipc,        \* where init_module() is
    task,       \* the walk's current task
    dangling    \* history: the walk's task has exited under it

params == <<module, pid_array, pid_array_count, node_array, node_array_count>>
procVars == <<state, before, hp_node>>
markVars == <<params, procVars, ipc, task, dangling>>

init_task == 0
Index == 0 .. PID_ARRAY_MAX - 1
Live == {p \in Pids : state[p] = "live"}

\* What hp_node may hold: a passed node id, -1, or the 0 it is born with.
NodeIds == ParamNodes \cup {-1, 0}

\* Parameters, task list and walk keep to their types.
MarkTypeOK ==
    /\ module \in {"home_hack", "proc_hack"}
    /\ pid_array \in [Index -> Int] /\ node_array \in [Index -> NodeIds]
    /\ pid_array_count \in 0 .. PID_ARRAY_MAX
    /\ node_array_count \in 0 .. PID_ARRAY_MAX
    /\ state \in [Pids -> {"free", "forking", "live"}]
    /\ before \subseteq Live \X Live
    /\ hp_node \in [Pids \cup {init_task} -> NodeIds]
    /\ ipc \in {"insmod", "mark", "next", "done", "refused"}
    /\ task \in Pids \cup {init_task}
    /\ dangling \in BOOLEAN

\* What insmod puts into an array: count entries; the others stay zero.
Param(array, count, values) ==
    \E n \in 0 .. PID_ARRAY_MAX :
        /\ count = n
        /\ \E given \in [0 .. n - 1 -> values] :
             array = [i \in Index |-> IF i < n THEN given[i] ELSE 0]

MarkInit ==
    /\ module \in {"home_hack", "proc_hack"}
    /\ Param(pid_array, pid_array_count, ParamPids)
    /\ Param(node_array, node_array_count, ParamNodes)
    /\ \E first \in Pids : state = [p \in Pids |-> IF p = first THEN "live" ELSE "free"]
    /\ before = {}
    /\ hp_node = [p \in Pids \cup {init_task} |-> 0]
    /\ ipc = "insmod"
    /\ task = init_task
    /\ dangling = FALSE

-----------------------------------------------------------------------------
(* Processes (kernel/fork.c, kernel/exit.c).                               *)

\* copy_process() duplicates the parent's task_struct ...
ForkCopy(parent, child) ==
    /\ state[parent] = "live" /\ state[child] = "free"
    /\ state' = [state EXCEPT ![child] = "forking"]
    /\ hp_node' = [hp_node EXCEPT ![child] = hp_node[parent]]
    /\ UNCHANGED <<params, before, ipc, task, dangling>>

\* ... and later links the child at the tail of the list.
ForkLink(child) ==
    /\ state[child] = "forking"
    /\ state' = [state EXCEPT ![child] = "live"]
    /\ before' = before \cup (Live \X {child})
    /\ UNCHANGED <<params, hp_node, ipc, task, dangling>>

\* One process, init, never exits.
Exit(p) ==
    /\ state[p] = "live"
    /\ Live # {p}
    /\ state' = [state EXCEPT ![p] = "free"]
    /\ before' = {e \in before : p \notin {e[1], e[2]}}
    /\ dangling' = (dangling \/ (ipc \in {"mark", "next"} /\ task = p))
    /\ UNCHANGED <<params, hp_node, ipc, task>>

Processes ==
    \/ \E p, q \in Pids : ForkCopy(p, q)
    \/ \E p \in Pids : ForkLink(p) \/ Exit(p)

-----------------------------------------------------------------------------
(* init_module().                                                          *)

\* check_args(): the entries behind the given ones become -1.
Filled(array, count) == [i \in Index |-> IF i >= count THEN -1 ELSE array[i]]

check_args ==
    /\ module = "home_hack"
    /\ ipc = "insmod"
    /\ \/ /\ pid_array_count = 0 \/ pid_array_count # node_array_count
          /\ ipc' = "refused"
          /\ UNCHANGED params
       \/ /\ pid_array_count # 0 /\ pid_array_count = node_array_count
          /\ ipc' = "mark"
          /\ pid_array' = Filled(pid_array, pid_array_count)
          /\ node_array' = Filled(node_array, pid_array_count)
          /\ UNCHANGED <<module, pid_array_count, node_array_count>>
    /\ UNCHANGED <<procVars, task, dangling>>

\* proc_hack.c goes straight to mark_process(): nothing there does what its comment
\* says, "Fill unused entries with -1." (proc_hack.c:53).
no_check ==
    /\ module = "proc_hack"
    /\ ipc = "insmod"
    /\ ipc' = "mark"
    /\ UNCHANGED <<params, procVars, task, dangling>>

\* The scan stops at the first entry that matches or is negative.
Stops(p) == {i \in Index : i < pid_array_count /\ (pid_array[i] < 0 \/ pid_array[i] = p)}

is_target_proc(p) ==
    IF Stops(p) = {} THEN -1
    ELSE LET i == Min(Stops(p)) IN IF pid_array[i] < 0 THEN -1 ELSE i

\* Mutant: a task that is no target keeps what it had.
NodeKept(p) ==
    IF is_target_proc(p) >= 0 THEN node_array[is_target_proc(p)] ELSE hp_node[p]

NodeFor(p) == IF is_target_proc(p) >= 0 THEN node_array[is_target_proc(p)] ELSE -1

\* The body of the loop; a task that has exited is memory of no one any more.
mark_task ==
    /\ ipc = "mark"
    /\ ipc' = "next"
    /\ hp_node' = [hp_node EXCEPT ![task] = NodeFor(task)]
    /\ UNCHANGED <<params, state, before, task, dangling>>

Behind(p) == IF p = init_task THEN Live ELSE {q \in Live : <<p, q>> \in before}

\* next_task(): the list's successor.  A task that has exited has none: what
\* is read from its memory can be any task, or the head, or never return.
Successors ==
    IF task \in Live \cup {init_task}
    THEN IF Behind(task) = {} THEN {init_task}
         ELSE {q \in Behind(task) : \A r \in Behind(task) : <<r, q>> \notin before}
    ELSE Live \cup {init_task}

\* The walk goes on until it is back at init_task.
walk_next ==
    /\ ipc = "next"
    /\ task' \in Successors
    /\ ipc' = IF task' = init_task THEN "done" ELSE "mark"
    /\ UNCHANGED <<params, procVars, dangling>>

init_module == check_args \/ no_check \/ mark_task \/ walk_next

MarkNext == Processes \/ init_module

MarkSpec == MarkInit /\ [][MarkNext]_markVars

-----------------------------------------------------------------------------
\* The node the parameters give a pid: that of its first mention, provided no
\* negative entry comes before it; -1 without a mention.
Mentions(p) == {i \in Index : /\ i < pid_array_count /\ pid_array[i] = p /\ p >= 0
                              /\ \A j \in Index : j < i => pid_array[j] >= 0
                                                          /\ pid_array[j] # p}

\* Entry i was passed with a node.  check_args() of home_hack makes sure of it;
\* proc_hack has no check, and an entry without a node gives node 0.
NodePassed(i) == module = "home_hack" => i < node_array_count

\* When the walk comes to its end, every process on the list has in hp_node the
\* node passed for it, or -1, the ones forked or gone meanwhile included,
\* unless the walk lost its footing on a task that exited.
WalkMarksAll ==
    [][ipc = "next" /\ ipc' = "done" /\ ~ dangling =>
         \A p \in Live \cup {init_task} :
            \/ \E i \in Mentions(p) : NodePassed(i) /\ hp_node[p] = node_array[i]
            \/ Mentions(p) = {} /\ hp_node[p] = -1]_markVars

-----------------------------------------------------------------------------
(* The invariant of the proofs.                                            *)

\* Of two processes on the list one stands before the other.
Ordered == \A p, q \in Live : p = q \/ <<p, q>> \in before \/ <<q, p>> \in before

Marked(p) == hp_node[p] = NodeFor(p)

\* All that stand before the walk's task are marked, whatever fork copied, for
\* a child is linked behind it.
Walked ==
    /\ ipc = "insmod" => task = init_task
    /\ ipc \in {"mark", "next"} /\ ~ dangling =>
         /\ task \in Live \cup {init_task}
         /\ task # init_task => Marked(init_task)
         /\ \A p \in Live : <<p, task>> \in before => Marked(p)
         /\ ipc = "next" => Marked(task)

\* check_args() has let only pairs of a pid and a node through.
Paired ==
    module = "home_hack" /\ ipc \in {"mark", "next", "done"} => pid_array_count = node_array_count

MarkInv == MarkTypeOK /\ Ordered /\ Walked /\ Paired
=============================================================================
