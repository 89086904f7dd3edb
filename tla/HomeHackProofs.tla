--------------------------- MODULE HomeHackProofs ---------------------------
(***************************************************************************)
(* Proofs about what home_hack does when it is loaded, for any processes,  *)
(* parameters, calls and modules: it marks processes, and it replaces      *)
(* entries of the system call table, as syscall and kmap do.               *)
(*                                                                         *)
(* The walk of mark_process() leaves marked tasks behind it, for fork      *)
(* links a child at the tail.  The originals that modules save form, for   *)
(* each call, a stack below the table's entry as long as no two of them    *)
(* are at work at once and no unload has warned; and whatever they do, a   *)
(* module saves an entry before anybody can have seen its own wrapper.     *)
(***************************************************************************)
EXTENDS SyscallTable, MarkProcess, WellFoundedInduction, TLAPS

-----------------------------------------------------------------------------
(* The marking of processes.                                               *)

\* A set of natural numbers has a least one.
LEMMA LeastNatural ==
    ASSUME NEW T \in SUBSET Nat, T # {}
    PROVE  \E i \in T : \A j \in T : i <= j
<1>1. IsWellFoundedOn(OpToRel(<, Nat), Nat)
  BY NatLessThanWellFounded, Zenon
<1>2. PICK i \in T : \A j \in T : ~ (<<j, i>> \in OpToRel(<, Nat))
  BY <1>1, WFMin, Zenon
<1>3. \A j \in T : ~ (j < i)
  BY <1>2 DEF OpToRel
<1> QED
  BY <1>3

\* is_target_proc() finds the first mention of a pid that no negative entry
\* precedes, and nothing if there is none.
LEMMA NodeForMentions ==
    ASSUME MarkTypeOK, NEW p \in Nat
    PROVE  \/ \E i \in Mentions(p) : NodeFor(p) = node_array[i]
           \/ Mentions(p) = {} /\ NodeFor(p) = -1
<1>1. /\ Index \subseteq Nat /\ pid_array \in [Index -> Int] /\ pid_array_count \in Nat
      /\ \A i \in Index : \A j \in Nat : j < i => j \in Index
  BY ArrayAssumption DEF MarkTypeOK, Index
<1>2. Mentions(p) \subseteq Stops(p) /\ Stops(p) \subseteq Index
  BY DEF Mentions, Stops
<1>3. CASE Stops(p) = {}
  <2>1. is_target_proc(p) = -1
    BY <1>3 DEF is_target_proc
  <2> QED
    BY <1>2, <1>3, <2>1 DEF NodeFor
<1>4. CASE Stops(p) # {}
  <2>1. \E i \in Stops(p) : \A j \in Stops(p) : i <= j
    BY <1>1, <1>2, <1>4, LeastNatural
  <2> DEFINE i == Min(Stops(p))
  <2>2. i \in Stops(p) /\ \A j \in Stops(p) : i <= j
    BY <2>1 DEF Min
  <2>3. is_target_proc(p) = IF pid_array[i] < 0 THEN -1 ELSE i
    BY <1>4 DEF is_target_proc
  <2> HIDE DEF i
  <2>4. i \in Index /\ i \in Nat /\ i < pid_array_count /\ pid_array[i] \in Int
    BY <1>1, <2>2 DEF Stops
  <2>5. CASE pid_array[i] < 0
    <3>1. NodeFor(p) = -1
      BY <2>3, <2>5 DEF NodeFor
    <3>2. ASSUME NEW x \in Mentions(p) PROVE FALSE
      <4>1. i <= x /\ x \in Nat /\ pid_array[x] = p
        BY <1>1, <1>2, <2>2, <3>2 DEF Mentions
      <4>2. i # x
        BY <2>5, <4>1
      <4>3. pid_array[i] >= 0
        BY <2>4, <4>1, <4>2 DEF Mentions
      <4> QED
        BY <2>4, <2>5, <4>3
    <3> QED
      BY <3>1, <3>2
  <2>6. CASE ~ (pid_array[i] < 0)
    <3>1. NodeFor(p) = node_array[i]
      BY <2>3, <2>4, <2>6 DEF NodeFor
    <3>2. pid_array[i] = p
      BY <2>2, <2>6 DEF Stops
    <3>3. ASSUME NEW j \in Index, j < i PROVE pid_array[j] >= 0 /\ pid_array[j] # p
      <4>1. j \notin Stops(p) /\ j < pid_array_count /\ pid_array[j] \in Int
        BY <1>1, <2>2, <2>4, <3>3
      <4> QED
        BY <4>1, <3>3 DEF Stops
    <3>4. i \in Mentions(p)
      BY <2>4, <3>2, <3>3 DEF Mentions
    <3> QED
      BY <3>1, <3>4
  <2> QED
    BY <2>5, <2>6
<1> QED
  BY <1>3, <1>4

\* What mark_process() writes is a node id.
LEMMA NodeForType == ASSUME MarkTypeOK, NEW p \in Nat PROVE NodeFor(p) \in NodeIds
<1>1. CASE \E i \in Mentions(p) : NodeFor(p) = node_array[i]
  BY <1>1 DEF Mentions, MarkTypeOK
<1>2. CASE NodeFor(p) = -1
  BY <1>2 DEF NodeIds
<1> QED
  BY <1>1, <1>2, NodeForMentions

\* A walk's marks depend on the parameters only.
LEMMA MarkedKept ==
    ASSUME UNCHANGED params, NEW p, hp_node'[p] = hp_node[p], Marked(p)
    PROVE  Marked(p)'
  BY DEF params, Marked, NodeFor, is_target_proc, Stops

LEMMA MarkInitInv == MarkInit => MarkInv
<1> SUFFICES ASSUME MarkInit PROVE MarkInv
  OBVIOUS
<1>1. PICK first \in Pids : state = [p \in Pids |-> IF p = first THEN "live" ELSE "free"]
  BY DEF MarkInit
<1>2. Live = {first} /\ before = {} /\ state \in [Pids -> {"free", "forking", "live"}]
  BY <1>1 DEF Live, MarkInit
<1>3. pid_array \in [Index -> Int] /\ pid_array_count \in 0 .. PID_ARRAY_MAX
  <2>1. PICK n \in 0 .. PID_ARRAY_MAX :
          /\ pid_array_count = n
          /\ \E given \in [0 .. n - 1 -> ParamPids] :
               pid_array = [i \in Index |-> IF i < n THEN given[i] ELSE 0]
    BY DEF MarkInit, Param
  <2>2. PICK given \in [0 .. n - 1 -> ParamPids] :
          pid_array = [i \in Index |-> IF i < n THEN given[i] ELSE 0]
    BY <2>1
  <2>3. ASSUME NEW i \in Index PROVE (IF i < n THEN given[i] ELSE 0) \in Int
    <3>1. i < n => i \in 0 .. n - 1
      BY <2>3 DEF Index
    <3>2. i < n => given[i] \in Int
      BY <3>1, ParamAssumption
    <3> QED
      BY <3>2
  <2> QED
    BY <2>1, <2>2, <2>3
<1>4. node_array \in [Index -> NodeIds] /\ node_array_count \in 0 .. PID_ARRAY_MAX
  <2>1. PICK n \in 0 .. PID_ARRAY_MAX :
          /\ node_array_count = n
          /\ \E given \in [0 .. n - 1 -> ParamNodes] :
               node_array = [i \in Index |-> IF i < n THEN given[i] ELSE 0]
    BY DEF MarkInit, Param
  <2> QED
    BY <2>1 DEF Index, NodeIds
<1>5. MarkTypeOK
  BY <1>2, <1>3, <1>4 DEF MarkTypeOK, MarkInit, NodeIds
<1>6. Ordered
  BY <1>2 DEF Ordered
<1>7. Walked /\ Paired
  BY DEF Walked, Paired, MarkInit
<1> QED
  BY <1>5, <1>6, <1>7 DEF MarkInv

\* A child is linked behind all others, and a process that exits leaves the
\* others in order: neither comes before the walk.
LEMMA ProcessesInv == ASSUME MarkInv, Processes PROVE MarkInv'
<1> USE DEF MarkInv
<1>1. UNCHANGED <<params, ipc, task>> /\ (dangling => dangling')
  <2>1. UNCHANGED <<params, ipc, task>>
    BY DEF Processes, ForkCopy, ForkLink, Exit
  <2>2. dangling' = dangling \/ \E p \in Pids : Exit(p)
    BY DEF Processes, ForkCopy, ForkLink
  <2>3. (\E p \in Pids : Exit(p)) /\ dangling => dangling'
    BY DEF Exit
  <2> QED
    BY <2>1, <2>2, <2>3
<1>2. /\ hp_node \in [Pids \cup {init_task} -> NodeIds] /\ init_task \notin Pids
      /\ state \in [Pids -> {"free", "forking", "live"}] /\ before \subseteq Live \X Live
  BY PidsAssumption DEF MarkTypeOK, init_task
<1>3. Paired'
  BY <1>1 DEF Paired, params
<1>4. ASSUME Live' \subseteq Pids, before' \subseteq Live' \X Live', Ordered',
             dangling' \in BOOLEAN,
             hp_node' \in [Pids \cup {init_task} -> NodeIds],
             state' \in [Pids -> {"free", "forking", "live"}],
             \A p \in Live \cup {init_task} : hp_node'[p] = hp_node[p],
             ~ dangling' /\ ipc \in {"mark", "next"} /\ task # init_task => task \in Live',
             ~ dangling' /\ ipc \in {"mark", "next"} =>
               \A p \in Live' : <<p, task>> \in before' => p \in Live /\ <<p, task>> \in before
      PROVE  MarkInv'
  <2>1. MarkTypeOK'
    BY <1>1, <1>4 DEF MarkTypeOK, params
  <2>2. Walked'
    <3>1. ipc' = "insmod" => task' = init_task
      BY <1>1 DEF Walked
    <3>2. ASSUME ipc \in {"mark", "next"}, ~ dangling'
          PROVE  /\ task \in Live' \cup {init_task}
                 /\ task # init_task => Marked(init_task)'
                 /\ \A p \in Live' : <<p, task>> \in before' => Marked(p)'
                 /\ ipc = "next" => Marked(task)'
      <4>1. /\ task \in Live \cup {init_task}
            /\ task # init_task => Marked(init_task)
            /\ \A p \in Live : <<p, task>> \in before => Marked(p)
            /\ ipc = "next" => Marked(task)
        BY <1>1, <3>2 DEF Walked
      <4>2. \A p \in Live \cup {init_task} : Marked(p) => Marked(p)'
        BY <1>1, <1>4, MarkedKept
      <4>3. ipc = "next" => Marked(task)'
        <5>1. ASSUME NEW p, p = task, Marked(p)' PROVE Marked(task)'
          BY <1>1, <5>1
        <5> QED
          BY <4>1, <4>2, <5>1
      <4>4. task # init_task => Marked(init_task)'
        BY <4>1, <4>2
      <4>5. \A p \in Live' : <<p, task>> \in before' => Marked(p)'
        BY <1>4, <3>2, <4>1, <4>2
      <4> QED
        BY <1>4, <3>2, <4>3, <4>4, <4>5
    <3> QED
      BY <1>1, <3>1, <3>2 DEF Walked
  <2> QED
    BY <1>3, <1>4, <2>1, <2>2
<1>5. ASSUME NEW p \in Pids, NEW q \in Pids, ForkCopy(p, q) PROVE MarkInv'
  <2>1. /\ state[q] = "free" /\ state' = [state EXCEPT ![q] = "forking"]
        /\ hp_node' = [hp_node EXCEPT ![q] = hp_node[p]]
        /\ UNCHANGED <<before, dangling>>
    BY <1>5 DEF ForkCopy
  <2>2. Live' = Live /\ q \notin Live
    BY <1>2, <2>1 DEF Live
  <2>3. hp_node' \in [Pids \cup {init_task} -> NodeIds]
    BY <1>2, <2>1
  <2>4. \A r \in Live \cup {init_task} : hp_node'[r] = hp_node[r]
    BY <1>2, <2>1, <2>2
  <2>5. Ordered' /\ Live' \subseteq Pids
    BY <2>1, <2>2 DEF Ordered, Live
  <2>6. ~ dangling' /\ ipc \in {"mark", "next"} /\ task # init_task => task \in Live'
    BY <2>1, <2>2 DEF Walked
  <2>7. dangling' \in BOOLEAN
    BY <2>1 DEF MarkTypeOK
  <2>8. state' \in [Pids -> {"free", "forking", "live"}]
    BY <1>2, <2>1
  <2> QED
    BY <1>2, <1>4, <2>1, <2>2, <2>3, <2>4, <2>5, <2>6, <2>7, <2>8
<1>6. ASSUME NEW q \in Pids, ForkLink(q) PROVE MarkInv'
  <2>1. /\ state[q] = "forking" /\ state' = [state EXCEPT ![q] = "live"]
        /\ before' = before \cup (Live \X {q}) /\ UNCHANGED <<hp_node, dangling>>
    BY <1>6 DEF ForkLink
  <2>2. Live' = Live \cup {q} /\ q \notin Live /\ Live' \subseteq Pids
    BY <1>2, <2>1 DEF Live
  <2>3. Ordered'
    BY <2>1, <2>2 DEF Ordered
  <2>4. before' \subseteq Live' \X Live'
    BY <1>2, <2>1, <2>2
  <2>5. ~ dangling' /\ ipc \in {"mark", "next"} => task \in Live \cup {init_task}
    BY <2>1 DEF Walked
  <2>6. ~ dangling' /\ ipc \in {"mark", "next"} =>
          \A p \in Live' : <<p, task>> \in before' => p \in Live /\ <<p, task>> \in before
    BY <1>2, <2>1, <2>2, <2>5
  <2>7. dangling' \in BOOLEAN
    BY <2>1 DEF MarkTypeOK
  <2>8. state' \in [Pids -> {"free", "forking", "live"}]
    BY <1>2, <2>1
  <2> QED
    BY <1>2, <1>4, <2>1, <2>2, <2>3, <2>4, <2>5, <2>6, <2>7, <2>8
<1>7. ASSUME NEW q \in Pids, Exit(q) PROVE MarkInv'
  <2>1. /\ state[q] = "live" /\ state' = [state EXCEPT ![q] = "free"]
        /\ before' = {e \in before : q \notin {e[1], e[2]}} /\ UNCHANGED hp_node
        /\ ~ dangling' => ~ dangling /\ ~ (ipc \in {"mark", "next"} /\ task = q)
    BY <1>7 DEF Exit
  <2>2. Live' = Live \ {q} /\ Live' \subseteq Pids
    BY <1>2, <2>1 DEF Live
  <2>3. Ordered'
    BY <2>1, <2>2 DEF Ordered
  <2>4. before' \subseteq Live' \X Live' /\ before' \subseteq before
    BY <1>2, <2>1, <2>2
  <2>5. ~ dangling' /\ ipc \in {"mark", "next"} => task \in Live' \cup {init_task}
    BY <2>1, <2>2 DEF Walked
  <2>6. dangling' \in BOOLEAN
    BY <1>7 DEF Exit
  <2>7. state' \in [Pids -> {"free", "forking", "live"}]
    BY <1>2, <2>1
  <2> QED
    BY <1>2, <1>4, <2>1, <2>2, <2>3, <2>4, <2>5, <2>6, <2>7
<1> QED
  BY <1>5, <1>6, <1>7 DEF Processes

\* The walk goes from a task it has marked to the one right behind it.
LEMMA InitModuleInv == ASSUME MarkInv, init_module PROVE MarkInv'
<1> USE DEF MarkInv
<1>1. /\ UNCHANGED <<module, pid_array_count, node_array_count, state, before, dangling>>
      /\ Live' = Live
  BY DEF init_module, check_args, no_check, mark_task, walk_next, params, procVars, Live
<1>2. Ordered'
  BY <1>1 DEF Ordered
<1>3. /\ hp_node \in [Pids \cup {init_task} -> NodeIds] /\ init_task \notin Pids
      /\ task \in Pids \cup {init_task} /\ task \in Nat /\ Live \subseteq Pids
      /\ before \subseteq Live \X Live
  BY PidsAssumption DEF MarkTypeOK, init_task, Live
<1>4. CASE check_args \/ no_check
  <2>1. /\ ipc = "insmod" /\ ipc' \in {"mark", "refused"} /\ UNCHANGED <<task, hp_node>>
        /\ task = init_task
    BY <1>4 DEF check_args, no_check, procVars, Walked
  <2>2. pid_array' \in [Index -> Int] /\ node_array' \in [Index -> NodeIds]
    BY <1>4 DEF check_args, no_check, params, MarkTypeOK, Filled, NodeIds
  <2>3. MarkTypeOK'
    BY <1>1, <2>1, <2>2 DEF MarkTypeOK
  <2>4. Walked'
    BY <1>1, <1>3, <2>1 DEF Walked
  <2>5. Paired'
    BY <1>1, <1>4, <2>1 DEF Paired, check_args, no_check
  <2> QED
    BY <1>2, <2>3, <2>4, <2>5
<1>5. CASE mark_task
  <2>1. /\ UNCHANGED <<params, task>> /\ ipc = "mark" /\ ipc' = "next"
        /\ hp_node' = [hp_node EXCEPT ![task] = NodeFor(task)]
    BY <1>5 DEF mark_task
  <2>2. hp_node' \in [Pids \cup {init_task} -> NodeIds]
    BY <1>3, <2>1, NodeForType
  <2>3. MarkTypeOK'
    BY <1>1, <2>1, <2>2 DEF MarkTypeOK, params
  <2>4. Marked(task)'
    <3>1. NodeFor(task)' = NodeFor(task)
      BY <2>1 DEF params, NodeFor, is_target_proc, Stops
    <3> QED
      BY <1>3, <2>1, <3>1 DEF Marked
  <2>5. \A p \in Live \cup {init_task} : Marked(p) => Marked(p)'
    <3> SUFFICES ASSUME NEW p \in Live \cup {init_task}, Marked(p) PROVE Marked(p)'
      OBVIOUS
    <3>1. hp_node'[p] = hp_node[p]
      BY <1>3, <2>1 DEF Marked
    <3> QED
      BY <2>1, <3>1, MarkedKept
  <2>6. Walked'
    BY <1>1, <2>1, <2>4, <2>5 DEF Walked
  <2>7. Paired'
    BY <2>1 DEF Paired, params
  <2> QED
    BY <1>2, <2>3, <2>6, <2>7
<1>6. CASE walk_next
  <2>1. /\ UNCHANGED <<params, hp_node>> /\ ipc = "next" /\ task' \in Successors
        /\ ipc' = IF task' = init_task THEN "done" ELSE "mark"
    BY <1>6 DEF walk_next, procVars
  <2>2. task' \in Live \cup {init_task}
    BY <2>1 DEF Successors, Behind
  <2>3. MarkTypeOK'
    BY <1>1, <1>3, <2>1, <2>2 DEF MarkTypeOK, params
  <2>4. Paired'
    BY <2>1 DEF Paired, params
  <2>5. \A p : Marked(p) => Marked(p)'
    BY <2>1, MarkedKept
  <2>6. ASSUME ~ dangling, ipc' = "mark"
        PROVE  Marked(init_task)' /\ \A p \in Live : <<p, task'>> \in before => Marked(p)'
    <3>1. /\ task \in Live \cup {init_task} /\ Marked(task)
          /\ task # init_task => Marked(init_task)
          /\ \A p \in Live : <<p, task>> \in before => Marked(p)
      BY <2>1, <2>6 DEF Walked
    <3>2. task' \in Behind(task) /\ \A r \in Behind(task) : <<r, task'>> \notin before
      BY <2>1, <2>6, <3>1 DEF Successors
    <3>3. Marked(init_task)
      BY <3>1
    <3>4. ASSUME NEW p \in Live, <<p, task'>> \in before PROVE Marked(p)
      <4>1. p \notin Behind(task)
        BY <3>2, <3>4
      <4>2. task \in Live /\ <<task, p>> \notin before
        BY <3>1, <4>1 DEF Behind
      <4> QED
        BY <3>1, <4>2 DEF Ordered
    <3> QED
      BY <2>5, <3>3, <3>4
  <2>7. Walked'
    BY <1>1, <2>1, <2>2, <2>6 DEF Walked
  <2> QED
    BY <1>2, <2>3, <2>4, <2>7
<1> QED
  BY <1>4, <1>5, <1>6 DEF init_module

\* mark_process() next to fork and exit: the invariant holds in every state.
THEOREM MarkInductive == MarkSpec => []MarkInv
<1>1. MarkInv /\ UNCHANGED markVars => MarkInv'
  <2> SUFFICES ASSUME MarkInv, UNCHANGED markVars PROVE MarkInv'
    OBVIOUS
  <2>1. UNCHANGED <<params, state, before, hp_node, ipc, task, dangling>> /\ Live' = Live
    BY DEF markVars, procVars, Live
  <2>2. MarkTypeOK' /\ Ordered' /\ Paired'
    BY <2>1 DEF MarkInv, MarkTypeOK, Ordered, Paired, params
  <2>3. \A p : Marked(p) => Marked(p)'
    BY <2>1, MarkedKept
  <2>4. Marked(task) => Marked(task)'
    BY <2>1 DEF Marked, NodeFor, is_target_proc, Stops, params
  <2>5. Walked'
    BY <2>1, <2>3, <2>4 DEF MarkInv, Walked
  <2> QED
    BY <2>2, <2>5 DEF MarkInv
<1>2. MarkInv /\ [MarkNext]_markVars => MarkInv'
  BY <1>1, ProcessesInv, InitModuleInv DEF MarkNext
<1> QED
  BY <1>2, MarkInitInv, PTL DEF MarkSpec

\* The walk that comes back to init_task on its feet has marked everyone, in
\* home_hack from the entries that were passed.
THEOREM EveryoneMarked == MarkSpec => WalkMarksAll
<1> DEFINE Done == ipc = "next" /\ ipc' = "done" /\ ~ dangling =>
             \A p \in Live \cup {init_task} :
                \/ \E i \in Mentions(p) : NodePassed(i) /\ hp_node[p] = node_array[i]
                \/ Mentions(p) = {} /\ hp_node[p] = -1
<1>1. MarkInv /\ [MarkNext]_markVars => Done
  <2> SUFFICES ASSUME MarkInv, [MarkNext]_markVars, ipc = "next", ipc' = "done", ~ dangling,
                      NEW p \in Live \cup {init_task}
               PROVE  \/ \E i \in Mentions(p) : NodePassed(i) /\ hp_node[p] = node_array[i]
                      \/ Mentions(p) = {} /\ hp_node[p] = -1
    OBVIOUS
  <2>1. walk_next
    BY DEF MarkNext, Processes, ForkCopy, ForkLink, Exit, init_module, check_args, no_check,
       mark_task, markVars
  <2>2. init_task \in Successors
    BY <2>1 DEF walk_next
  <2>3. /\ task \in Live \cup {init_task} /\ Marked(task)
        /\ task # init_task => Marked(init_task)
        /\ \A q \in Live : <<q, task>> \in before => Marked(q)
    BY DEF MarkInv, Walked
  <2>4. init_task \notin Live /\ p \in Nat
    BY PidsAssumption DEF Live, init_task
  <2>5. Behind(task) = {}
    <3>1. Behind(task) \subseteq Live
      BY DEF Behind
    <3> QED
      BY <2>2, <2>3, <2>4, <3>1 DEF Successors
  <2>6. Marked(p)
    <3>1. CASE p = task \/ p = init_task
      BY <2>3, <3>1
    <3>2. CASE p \in Live \ {task}
      <4>1. task \in Live /\ <<task, p>> \notin before
        BY <2>3, <2>5, <3>2 DEF Behind
      <4> QED
        BY <2>3, <3>2, <4>1 DEF MarkInv, Ordered
    <3> QED
      BY <3>1, <3>2
  <2>7. \/ \E i \in Mentions(p) : hp_node[p] = node_array[i]
        \/ Mentions(p) = {} /\ hp_node[p] = -1
    BY <2>4, <2>6, NodeForMentions DEF MarkInv, Marked
  <2>8. \A i \in Mentions(p) : NodePassed(i)
    BY DEF Mentions, NodePassed, MarkInv, Paired
  <2> QED
    BY <2>7, <2>8
<1>2. [][Done]_markVars => WalkMarksAll
  BY DEF WalkMarksAll
<1> HIDE DEF Done
<1> QED
  BY <1>1, <1>2, MarkInductive, PTL DEF MarkSpec

-----------------------------------------------------------------------------
(* The system call table.                                                  *)

\* A module's list of calls.
LEMMA CallsFacts ==
    ASSUME NEW m \in Mods
    PROVE  /\ Len(calls[m]) \in Nat \ {0} /\ DOMAIN calls[m] = 1 .. Len(calls[m])
           /\ \A j \in DOMAIN calls[m] : calls[m][j] \in Calls
           /\ \A i, j \in DOMAIN calls[m] : calls[m][i] = calls[m][j] => i = j
<1>1. calls[m] \in Seq(Calls) /\ calls[m] # << >>
  BY CallsAssumption
<1>2. Len(calls[m]) \in Nat /\ DOMAIN calls[m] = 1 .. Len(calls[m])
  BY <1>1
<1>3. Len(calls[m]) # 0
  BY <1>1
<1>4. \A j \in DOMAIN calls[m] : calls[m][j] \in Calls
  BY <1>1
<1> QED
  BY <1>2, <1>3, <1>4, CallsAssumption

Step(m) ==
    \/ Insmod(m) \/ Lookup(m) \/ Save(m) \/ Set(m) \/ Check(m)
    \/ Rmmod(m) \/ Restore(m) \/ PutBack(m)

\* The step of one module leaves the progress of the others alone.
LEMMA Others ==
    ASSUME TypeOK, NEW m \in Mods, Step(m), NEW u \in Mods, u # m
    PROVE  /\ at'[u] = at[u] /\ k'[u] = k[u] /\ sym'[u] = sym[u] /\ open_addr'[u] = open_addr[u]
           /\ original'[u] = original[u]
  BY DEF TypeOK, Step, Insmod, Lookup, Save, Set, Check, Rmmod, Restore, PutBack, Advance

\* A module that goes on from a call to the next one, or past its last one.
LEMMA AdvanceTo ==
    ASSUME TypeOK, NEW m \in Mods, at[m] \in {"set", "check", "restore", "putback"},
           NEW next \in Stages, NEW end \in Stages, Advance(m, next, end)
    PROVE  /\ at' \in [Mods -> Stages] /\ k' \in [Mods -> Nat]
           /\ \A u \in Mods \ {m} : at'[u] = at[u] /\ k'[u] = k[u]
           /\ \/ /\ at'[m] = end /\ k'[m] = 1 /\ k[m] = Len(calls[m])
              \/ /\ at'[m] = next /\ k'[m] = k[m] + 1 /\ k[m] < Len(calls[m])
           /\ k[m] \in 1 .. Len(calls[m])
<1>1. k[m] \in DOMAIN calls[m] /\ k[m] \in Nat
  BY DEF TypeOK
<1>2. Len(calls[m]) \in Nat /\ DOMAIN calls[m] = 1 .. Len(calls[m])
  OBVIOUS
<1>3. at \in [Mods -> Stages] /\ k \in [Mods -> Nat]
  BY DEF TypeOK
<1>4. CASE LastCall(m)
  <2>1. at' = [at EXCEPT ![m] = end] /\ k' = [k EXCEPT ![m] = 1] /\ k[m] = Len(calls[m])
    BY <1>4 DEF Advance, LastCall
  <2> QED
    BY <1>1, <1>2, <1>3, <2>1
<1>5. CASE ~ LastCall(m)
  <2>1. at' = [at EXCEPT ![m] = next] /\ k' = [k EXCEPT ![m] = @ + 1] /\ k[m] # Len(calls[m])
    BY <1>5 DEF Advance, LastCall
  <2> QED
    BY <1>1, <1>2, <1>3, <2>1
<1> QED
  BY <1>4, <1>5

\* Every step keeps the types, and each module's address what it was made from.
LEMMA StepType ==
    ASSUME TypeOK, Addresses, NEW m \in Mods, Step(m)
    PROVE  TypeOK' /\ Addresses'
<1>1. /\ at \in [Mods -> Stages] /\ k \in [Mods -> Nat]
      /\ table \in [Calls -> Fns] /\ original \in [Mods -> [Calls -> Fns]]
      /\ sym \in [Mods -> {"table", "NULL"}] /\ open_addr \in [Mods -> {"table", "NULL"}]
  BY DEF TypeOK
<1>2. Len(calls[m]) \in Nat \ {0} /\ DOMAIN calls[m] = 1 .. Len(calls[m])
  BY CallsFacts
<1>3. \A u \in Mods \ {m} : /\ at'[u] = at[u] /\ k'[u] = k[u] /\ sym'[u] = sym[u]
                            /\ open_addr'[u] = open_addr[u]
  BY Others
<1>4. at[m] \in {"save", "set", "check", "restore", "putback"} =>
        k[m] \in DOMAIN calls[m] /\ Call(m) \in Calls
  BY CallsFacts DEF TypeOK, Call
<1>5. table' \in [Calls -> Fns] /\ original' \in [Mods -> [Calls -> Fns]]
  <2>1. CASE Save(m)
    <3>1. table[Call(m)] \in Fns
      BY <1>1, <1>4, <2>1 DEF Save
    <3> QED
      BY <1>1, <2>1, <3>1 DEF Save
  <2>2. CASE Set(m)
    BY <1>1, <2>2 DEF Set, Fns
  <2>3. CASE PutBack(m)
    <3>1. original[m][Call(m)] \in Fns
      BY <1>1, <1>4, <2>3 DEF PutBack
    <3> QED
      BY <1>1, <2>3, <3>1 DEF PutBack
  <2>4. CASE UNCHANGED <<table, original>>
    BY <1>1, <2>4
  <2> QED
    BY <2>1, <2>2, <2>3, <2>4 DEF Step, Insmod, Lookup, Check, Rmmod, Restore
<1>6. /\ sym' \in [Mods -> {"table", "NULL"}] /\ open_addr' \in [Mods -> {"table", "NULL"}]
  BY <1>1 DEF Step, Insmod, Lookup, Save, Set, Check, Rmmod, Restore, PutBack
<1>7. warned' \in BOOLEAN /\ mixed' \in BOOLEAN
  BY DEF TypeOK, Step, Insmod, Lookup, Save, Set, Check, Rmmod, Restore, PutBack
<1>8. "save" \in Stages /\ "live" \in Stages /\ "restore" \in Stages /\ "gone" \in Stages
  BY DEF Stages
<1> DEFINE Good ==
      /\ at' \in [Mods -> Stages] /\ k' \in [Mods -> Nat]
      /\ at'[m] \in {"save", "set", "check", "restore", "putback"} => k'[m] \in DOMAIN calls[m]
      /\ at'[m] # "new" /\ (at'[m] = "lookup" => m \in ByName)
      /\ at'[m] \in {"lookup", "live"} => k'[m] = 1
      /\ open_addr'[m] = "NULL" <=> m \in ByName
<1>14. Good
  <2>1. CASE Insmod(m) \/ Lookup(m)
    <3>1. /\ at' \in [Mods -> Stages] /\ k' = k /\ k[m] = 1
          /\ at'[m] \in {"lookup", "save", "live"} /\ (at'[m] = "lookup" => m \in ByName)
      BY <1>1, <2>1 DEF Insmod, Lookup, Addresses, Stages
    <3>2. open_addr'[m] = "NULL" <=> m \in ByName
      BY <1>1, <2>1 DEF Insmod, Lookup, Addresses
    <3> QED
      BY <1>1, <1>2, <3>1, <3>2
  <2>2. CASE Save(m) \/ Rmmod(m)
    <3>1. /\ at' \in [Mods -> Stages] /\ k' = k /\ open_addr' = open_addr
          /\ at'[m] \in {"set", "restore"}
      BY <1>1, <2>2 DEF Save, Rmmod, Stages
    <3>2. k[m] \in DOMAIN calls[m]
      BY <1>2, <1>4, <2>2 DEF Save, Rmmod, Addresses
    <3> QED
      BY <1>1, <3>1, <3>2 DEF Addresses
  <2>3. CASE Set(m)
    <3>1. at[m] = "set" /\ open_addr'[m] = open_addr[m]
      BY <2>3 DEF Set
    <3>2. CASE m \in Checks
      BY <1>1, <1>4, <2>3, <3>1, <3>2 DEF Set, Addresses, Stages
    <3>3. CASE m \notin Checks
      <4>1. Advance(m, "save", "live")
        BY <2>3, <3>3 DEF Set
      <4> QED
        BY <1>2, <1>8, <3>1, <4>1, AdvanceTo DEF Addresses
    <3> QED
      BY <3>2, <3>3
  <2>4. CASE Check(m)
    <3>1. at[m] = "check" /\ open_addr'[m] = open_addr[m]
      BY <2>4 DEF Check
    <3>2. CASE table[Call(m)] # m
      BY <1>1, <1>4, <2>4, <3>1, <3>2 DEF Check, Addresses, Stages
    <3>3. CASE Advance(m, "save", "live")
      BY <1>2, <1>8, <3>1, <3>3, AdvanceTo DEF Addresses
    <3> QED
      BY <2>4, <3>2, <3>3 DEF Check
  <2>5. CASE Restore(m) \/ PutBack(m)
    <3>1. at[m] \in {"restore", "putback"} /\ open_addr'[m] = open_addr[m]
      BY <2>5 DEF Restore, PutBack
    <3>2. CASE Advance(m, "restore", "gone")
      BY <1>2, <1>8, <3>1, <3>2, AdvanceTo DEF Addresses
    <3>3. CASE at' = [at EXCEPT ![m] = "putback"] /\ UNCHANGED k
      BY <1>1, <1>4, <3>1, <3>3 DEF Addresses, Stages
    <3> QED
      BY <2>5, <3>2, <3>3 DEF Restore, PutBack
  <2> QED
    BY <2>1, <2>2, <2>3, <2>4, <2>5 DEF Step
<1> HIDE DEF Good
<1>15. TypeOK'
  <2>1. \A u \in Mods : at'[u] \in {"save", "set", "check", "restore", "putback"} =>
          k'[u] \in DOMAIN calls[u]
    BY <1>3, <1>14 DEF Good, TypeOK
  <2> QED
    BY <1>5, <1>6, <1>7, <1>14, <2>1 DEF Good, TypeOK
<1>16. Addresses'
  BY <1>3, <1>14 DEF Good, Addresses
<1> QED
  BY <1>15, <1>16

\* A module never comes back to a call it has been at.
LEMMA StepAhead ==
    ASSUME TypeOK, Addresses, NEW m \in Mods, Step(m)
    PROVE  /\ \A u \in Mods : Ahead(u)' \subseteq Ahead(u)
           /\ Set(m) => k[m] \notin Ahead(m)'
<1>1. \A u \in Mods \ {m} : Ahead(u)' = Ahead(u)
  BY Others DEF Ahead
<1>2. /\ at \in [Mods -> Stages] /\ k \in [Mods -> Nat]
      /\ DOMAIN calls[m] = 1 .. Len(calls[m]) /\ Len(calls[m]) \in Nat
  BY DEF TypeOK
<1>3. "save" \in Stages /\ "live" \in Stages /\ "restore" \in Stages /\ "gone" \in Stages
  BY DEF Stages
<1>4. Ahead(m)' \subseteq Ahead(m) /\ (Set(m) => k[m] \notin Ahead(m)')
  <2>1. CASE Insmod(m) \/ Lookup(m) \/ Save(m) \/ Rmmod(m)
    BY <1>2, <2>1 DEF Insmod, Lookup, Save, Set, Rmmod, Ahead
  <2>2. CASE Set(m)
    <3>1. CASE m \in Checks
      BY <1>2, <2>2, <3>1 DEF Set, Ahead
    <3>2. CASE m \notin Checks
      <4>1. Advance(m, "save", "live") /\ at[m] = "set"
        BY <2>2, <3>2 DEF Set
      <4> QED
        BY <1>2, <1>3, <4>1, AdvanceTo DEF Ahead
    <3> QED
      BY <3>1, <3>2
  <2>3. CASE Check(m)
    <3>1. CASE Advance(m, "save", "live")
      <4>1. at[m] = "check" /\ ~ Set(m)
        BY <2>3 DEF Check, Set
      <4> QED
        BY <1>2, <1>3, <3>1, <4>1, AdvanceTo DEF Ahead
    <3>2. CASE at' = [at EXCEPT ![m] = "gone"]
      BY <1>2, <2>3, <3>2 DEF Ahead
    <3> QED
      BY <2>3, <3>1, <3>2 DEF Check
  <2>4. CASE Restore(m) \/ PutBack(m)
    <3>1. at[m] \in {"restore", "putback"} /\ ~ Set(m)
      BY <2>4 DEF Restore, PutBack, Set
    <3>2. CASE Advance(m, "restore", "gone")
      BY <1>2, <1>3, <3>1, <3>2, AdvanceTo DEF Ahead
    <3>3. CASE at' = [at EXCEPT ![m] = "putback"]
      BY <1>2, <3>1, <3>3 DEF Ahead
    <3> QED
      BY <2>4, <3>2, <3>3 DEF Restore, PutBack
  <2> QED
    BY <2>1, <2>2, <2>3, <2>4 DEF Step
<1> QED
  BY <1>1, <1>4

\* What is in the table and among the originals after a step was in the table
\* or among the originals before, but for the wrapper that is set.
LEMMA StepEntries ==
    ASSUME TypeOK, NEW m \in Mods, Step(m), NEW c \in Calls
    PROVE  /\ \/ table'[c] = table[c]
              \/ Set(m) /\ c = Call(m) /\ table'[c] = m
              \/ table'[c] = original[m][c]
           /\ \A u \in Mods : \/ original'[u][c] = original[u][c]
                              \/ Save(m) /\ u = m /\ c = Call(m) /\ original'[u][c] = table[c]
<1>1. table \in [Calls -> Fns] /\ original \in [Mods -> [Calls -> Fns]]
  BY DEF TypeOK
<1>2. CASE Save(m)
  BY <1>1, <1>2 DEF Save
<1>3. CASE Set(m)
  BY <1>1, <1>3 DEF Set
<1>4. CASE PutBack(m)
  BY <1>1, <1>4 DEF PutBack
<1>5. CASE UNCHANGED <<table, original>>
  BY <1>5
<1> QED
  BY <1>2, <1>3, <1>4, <1>5 DEF Step, Insmod, Lookup, Check, Rmmod, Restore

\* Nobody gets hold of a wrapper before it is set.
LEMMA StepUnset == ASSUME TypeOK, Addresses, Unset, NEW m \in Mods, Step(m) PROVE Unset'
<1> SUFFICES ASSUME NEW w \in Mods, NEW j \in Ahead(w)'
             PROVE  /\ table'[calls[w][j]] # w
                    /\ \A u \in Mods : original'[u][calls[w][j]] # w
  BY DEF Unset
<1> DEFINE c == calls[w][j]
<1>1. j \in Ahead(w) /\ j \in DOMAIN calls[w]
  BY StepAhead DEF Ahead
<1>2. c \in Calls
  BY <1>1, CallsFacts
<1>3. table[c] # w /\ \A u \in Mods : original[u][c] # w
  BY <1>1 DEF Unset
<1>4. ~ (Set(m) /\ c = Call(m) /\ m = w)
  <2> SUFFICES ASSUME Set(m), c = Call(m), m = w PROVE FALSE
    OBVIOUS
  <2>1. k[m] \in DOMAIN calls[m] /\ k[m] \notin Ahead(m)'
    BY StepAhead DEF TypeOK, Set
  <2>2. calls[m][j] = calls[m][k[m]]
    BY DEF Call
  <2> QED
    BY <1>1, <2>1, <2>2, CallsFacts
<1> HIDE DEF c
<1>5. table'[c] # w /\ \A u \in Mods : original'[u][c] # w
  BY <1>2, <1>3, <1>4, StepEntries
<1> QED
  BY <1>5 DEF c

\* The original that is saved leads to no module that leads back: nobody has
\* the wrapper that is about to be set.
LEMMA StepNoLoop == ASSUME TypeOK, Unset, NoLoop, NEW m \in Mods, Step(m) PROVE NoLoop'
<1> SUFFICES ASSUME NEW c \in Calls, NEW S \in SUBSET Mods, S # {},
                    \A u \in S : original'[u][c] \in S
             PROVE  FALSE
  BY KindAssumption DEF NoLoop, After
<1>1. ASSUME NEW T \in SUBSET Mods, T # {} PROVE \E u \in T : original[u][c] \notin T
  BY <1>1 DEF NoLoop, After
<1>2. CASE \A u \in S : original'[u][c] = original[u][c]
  BY <1>1, <1>2
<1>3. CASE ~ \A u \in S : original'[u][c] = original[u][c]
  <2>1. m \in S /\ Save(m) /\ c = Call(m) /\ original'[m][c] = table[c]
    BY <1>3, StepEntries
  <2>2. \A u \in Mods \ {m} : original'[u][c] = original[u][c]
    BY StepEntries
  <2>3. table[c] # m /\ \A u \in Mods : original[u][c] # m
    <3>1. at[m] = "save" /\ k[m] \in DOMAIN calls[m] /\ k[m] \in Nat
      BY <2>1 DEF Save, TypeOK
    <3>2. k[m] \in Ahead(m)
      BY <3>1 DEF Ahead
    <3> QED
      BY <2>1, <3>2 DEF Unset, Call
  <2>4. S \ {m} # {}
    BY <2>1, <2>3
  <2>5. PICK u \in S \ {m} : original[u][c] \notin S \ {m}
    BY <1>1, <2>4
  <2> QED
    BY <2>2, <2>3, <2>5
<1> QED
  BY <1>2, <1>3

\* As long as loads and unloads come one after the other, the module that
\* takes a step is the only one that is at work.
LEMMA StepInTurn ==
    ASSUME TypeOK, Addresses, mixed \/ InTurn, NEW m \in Mods, Step(m), ~ mixed'
    PROVE  ~ mixed /\ InTurn /\ InTurn'
<1>1. ~ mixed /\ InTurn
  <2>1. CASE Insmod(m) \/ Rmmod(m)
    BY <2>1 DEF Insmod, Rmmod
  <2>2. CASE mixed' = mixed
    BY <2>2
  <2> QED
    BY <2>1, <2>2 DEF Step, Lookup, Save, Set, Check, Restore, PutBack
<1>2. \A u \in Mods \ {m} : u \notin Busy
  <2>1. CASE Insmod(m) \/ Rmmod(m)
    BY <2>1 DEF Insmod, Rmmod, Quiet, Busy
  <2>2. CASE at[m] \notin {"new", "live", "gone"}
    BY <1>1, <2>2 DEF InTurn, Busy
  <2> QED
    BY <2>1, <2>2 DEF Step, Lookup, Save, Set, Check, Restore, PutBack
<1>3. \A u \in Mods \ {m} : at'[u] \in {"new", "live", "gone"}
  BY <1>2, Others DEF Busy
<1>4. \A u, v \in Busy' : u = v
  BY <1>3 DEF Busy
<1>5. at'[m] = "set" => original'[m][Call(m)'] = table'[Call(m)']
  <2> SUFFICES ASSUME at'[m] = "set" PROVE original'[m][Call(m)'] = table'[Call(m)']
    OBVIOUS
  <2>1. Save(m)
    BY DEF TypeOK, Step, Insmod, Lookup, Set, Check, Rmmod, Restore, PutBack,
     Advance
  <2>2. k[m] \in DOMAIN calls[m] /\ Call(m)' = Call(m)
    BY <2>1 DEF Save, TypeOK, Call
  <2>3. Call(m) \in Calls
    BY <2>2, CallsFacts DEF Call
  <2> QED
    BY <2>1, <2>2, <2>3 DEF Save, TypeOK
<1>6. at'[m] = "check" /\ m \notin ByName => table'[Call(m)'] = m
  <2> SUFFICES ASSUME at'[m] = "check", m \notin ByName PROVE table'[Call(m)'] = m
    OBVIOUS
  <2>1. Set(m) /\ k' = k
    BY DEF TypeOK, Step, Insmod, Lookup, Save, Set, Check, Rmmod, Restore, PutBack,
     Advance
  <2>2. k[m] \in DOMAIN calls[m] /\ Call(m)' = Call(m) /\ open_addr[m] = "table"
    BY <2>1 DEF Set, TypeOK, Call, Addresses
  <2>3. Call(m) \in Calls
    BY <2>2, CallsFacts DEF Call
  <2> QED
    BY <2>1, <2>2, <2>3 DEF Set, TypeOK
<1>7. at'[m] = "putback" => table'[Call(m)'] = m
  <2> SUFFICES ASSUME at'[m] = "putback" PROVE table'[Call(m)'] = m
    OBVIOUS
  <2>1. Restore(m) /\ k' = k
    BY DEF TypeOK, Step, Insmod, Lookup, Save, Set, Check, Rmmod, Restore, PutBack, Advance
  <2>2. table[Call(m)] = m
    BY <2>1 DEF Restore, Advance, TypeOK
  <2> QED
    BY <2>1, <2>2 DEF Restore, Call
<1>8. InTurn'
  BY <1>3, <1>4, <1>5, <1>6, <1>7 DEF InTurn
<1> QED
  BY <1>1, <1>8

\* Who holds a call changes where a wrapper is set and where it is taken back.
LEMMA StepHolders ==
    ASSUME TypeOK, Addresses, InTurn, NEW m \in Mods, Step(m), ~ warned', NEW c \in Calls
    PROVE  Holders(c)' = IF c # Call(m) \/ m \in ByName THEN Holders(c)
                         ELSE IF Set(m) THEN Holders(c) \cup {m}
                         ELSE IF PutBack(m) THEN Holders(c) \ {m}
                         ELSE Holders(c)
<1>1. \A u \in Mods \ {m} : Holds(u, c)' <=> Holds(u, c)
  BY Others DEF Holds
<1>2. /\ at \in [Mods -> Stages] /\ k \in [Mods -> Nat]
      /\ DOMAIN calls[m] = 1 .. Len(calls[m]) /\ Len(calls[m]) \in Nat
      /\ \A i, j \in DOMAIN calls[m] : calls[m][i] = calls[m][j] => i = j
  BY CallsFacts DEF TypeOK
<1>3. "save" \in Stages /\ "live" \in Stages /\ "restore" \in Stages /\ "gone" \in Stages
  BY DEF Stages
<1>4. ASSUME m \notin ByName
      PROVE  Holds(m, c)' <=> IF c = Call(m) /\ Set(m) THEN TRUE
                              ELSE IF c = Call(m) /\ PutBack(m) THEN FALSE
                              ELSE Holds(m, c)
  <2>1. CASE Insmod(m)
    BY <1>2, <1>4, <2>1 DEF Insmod, Set, Holds, Addresses
  <2>2. CASE Lookup(m)
    BY <1>4, <2>2 DEF Lookup, Addresses
  <2>3. CASE Save(m)
    BY <1>2, <2>3 DEF Save, Set, PutBack, Holds
  <2>4. CASE Rmmod(m)
    BY <1>2, <2>4 DEF Rmmod, Set, PutBack, Holds, Addresses
  <2>5. CASE Set(m)
    <3>1. at[m] = "set" /\ ~ PutBack(m) /\ k[m] \in DOMAIN calls[m]
      BY <2>5 DEF Set, PutBack, TypeOK
    <3>2. CASE m \in Checks
      <4>1. at'[m] = "check" /\ k'[m] = k[m]
        BY <1>2, <2>5, <3>2 DEF Set
      <4> QED
        BY <1>2, <2>5, <3>1, <4>1 DEF Holds, Call
    <3>3. CASE m \notin Checks
      <4>1. Advance(m, "save", "live")
        BY <2>5, <3>3 DEF Set
      <4>2. \/ at'[m] = "live" /\ k[m] = Len(calls[m])
            \/ at'[m] = "save" /\ k'[m] = k[m] + 1
        BY <1>3, <3>1, <4>1, AdvanceTo
      <4> QED
        BY <1>2, <2>5, <3>1, <4>2 DEF Holds, Call
    <3> QED
      BY <3>2, <3>3
  <2>6. CASE Check(m)
    <3>1. at[m] = "check" /\ ~ Set(m) /\ ~ PutBack(m) /\ k[m] \in DOMAIN calls[m]
      BY <2>6 DEF Check, Set, PutBack, TypeOK
    <3>2. Advance(m, "save", "live")
      BY <1>4, <2>6, <3>1 DEF Check, InTurn
    <3>3. \/ at'[m] = "live" /\ k[m] = Len(calls[m])
          \/ at'[m] = "save" /\ k'[m] = k[m] + 1
      BY <1>3, <3>1, <3>2, AdvanceTo
    <3> QED
      BY <1>2, <3>1, <3>3 DEF Holds
  <2>7. CASE Restore(m)
    <3>1. at[m] = "restore" /\ at' = [at EXCEPT ![m] = "putback"] /\ k' = k
      BY <2>7 DEF Restore
    <3>2. ~ Set(m) /\ ~ PutBack(m)
      BY <3>1 DEF Set, PutBack
    <3> QED
      BY <1>2, <3>1, <3>2 DEF Holds
  <2>8. CASE PutBack(m)
    <3>1. /\ at[m] = "putback" /\ ~ Set(m) /\ k[m] \in DOMAIN calls[m]
          /\ Advance(m, "restore", "gone")
      BY <2>8 DEF Set, PutBack, TypeOK
    <3>2. \/ at'[m] = "gone" /\ k[m] = Len(calls[m])
          \/ at'[m] = "restore" /\ k'[m] = k[m] + 1
      BY <1>3, <3>1, AdvanceTo
    <3> QED
      BY <1>2, <2>8, <3>1, <3>2 DEF Holds, Call
  <2> QED
    BY <2>1, <2>2, <2>3, <2>4, <2>5, <2>6, <2>7, <2>8 DEF Step
<1>5. CASE c # Call(m) \/ m \in ByName
  BY <1>1, <1>4, <1>5 DEF Holders
<1>6. CASE c = Call(m) /\ m \notin ByName
  <2>1. ~ (Set(m) /\ PutBack(m))
    BY DEF Set, PutBack
  <2> QED
    BY <1>1, <1>4, <1>6, <2>1 DEF Holders
<1> QED
  BY <1>5, <1>6

\* The wrappers of a call lie on each other as on a stack: set goes to the
\* top, and what is taken back without a warning is the top.
LEMMA StepStacked ==
    ASSUME IInv, NEW m \in Mods, Step(m), ~ mixed', ~ warned', NEW c \in Calls
    PROVE  Stacked(c)'
<1>1. ~ mixed /\ InTurn
  BY StepInTurn DEF IInv
<1>2. ~ warned /\ Stacked(c)
  BY <1>1 DEF IInv, Step, Insmod, Lookup, Save, Set, Check, Rmmod, Restore, PutBack
<1>3. /\ table \in [Calls -> Fns] /\ original \in [Mods -> [Calls -> Fns]]
      /\ Kernel \notin Mods
  BY KindAssumption DEF IInv, TypeOK
<1>4. Holders(c) \subseteq Mods
  BY DEF Holders
<1>5. CASE Set(m) /\ c = Call(m) /\ m \notin ByName
  <2>1. Holders(c)' = Holders(c) \cup {m}
    BY <1>1, <1>5, StepHolders DEF IInv
  <2>2. table'[c] = m /\ original' = original
    <3>1. open_addr[m] = "table"
      BY <1>5 DEF IInv, TypeOK, Addresses
    <3> QED
      BY <1>3, <1>5, <3>1 DEF Set
  <2>3. original[m][c] = table[c]
    BY <1>1, <1>5 DEF Set, InTurn
  <2>4. table[c] # m /\ \A u \in Mods : original[u][c] # m
    <3>1. at[m] = "set" /\ k[m] \in DOMAIN calls[m] /\ k[m] \in Nat
      BY <1>5 DEF Set, IInv, TypeOK
    <3>2. k[m] \in Ahead(m)
      BY <3>1 DEF Ahead
    <3> QED
      BY <1>5, <3>2 DEF IInv, Unset, Call
  <2>5. table'[c] \in Holders(c)' \cup {Kernel}
    BY <2>1, <2>2
  <2>6. ASSUME NEW u \in Holders(c)'
        PROVE  original'[u][c] \in Holders(c)' \cup {Kernel} /\ original'[u][c] # table'[c]
    BY <1>2, <1>4, <2>1, <2>2, <2>3, <2>4, <2>6 DEF Stacked
  <2>7. ASSUME NEW u \in Holders(c)', NEW v \in Holders(c)', u # v,
               original'[u][c] = original'[v][c]
        PROVE  original'[u][c] = Kernel
    BY <1>2, <2>1, <2>2, <2>3, <2>7 DEF Stacked
  <2> QED
    BY <2>5, <2>6, <2>7 DEF Stacked
<1>6. CASE PutBack(m) /\ c = Call(m)
  <2>1. table[c] = m /\ table'[c] = original[m][c] /\ original' = original
    BY <1>1, <1>3, <1>6 DEF PutBack, InTurn
  <2>2. m \in Holders(c)
    BY <1>2, <1>3, <2>1 DEF Stacked
  <2>3. Holders(c)' = Holders(c) \ {m}
    BY <1>1, <1>6, <2>2, StepHolders DEF IInv, Holders, Set, PutBack
  <2>4. \A u \in Holders(c) : original[u][c] # m
    BY <1>2, <1>3, <2>1 DEF Stacked
  <2>5. table'[c] \in Holders(c)' \cup {Kernel}
    BY <1>2, <2>1, <2>2, <2>3, <2>4 DEF Stacked
  <2>6. ASSUME NEW u \in Holders(c)'
        PROVE  /\ original'[u][c] \in Holders(c)' \cup {Kernel}
               /\ original'[u][c] = table'[c] => table'[c] = Kernel
    BY <1>2, <2>1, <2>2, <2>3, <2>4, <2>6 DEF Stacked
  <2>7. ASSUME NEW u \in Holders(c)', NEW v \in Holders(c)', u # v,
               original'[u][c] = original'[v][c]
        PROVE  original'[u][c] = Kernel
    BY <1>2, <2>1, <2>3, <2>7 DEF Stacked
  <2> QED
    BY <2>5, <2>6, <2>7 DEF Stacked
<1>7. CASE ~ (Set(m) /\ c = Call(m) /\ m \notin ByName) /\ ~ (PutBack(m) /\ c = Call(m))
  <2>1. Holders(c)' = Holders(c)
    BY <1>1, <1>7, StepHolders DEF IInv
  <2>2. table'[c] = table[c]
    <3>1. CASE Set(m)
      BY <1>3, <1>7, <3>1 DEF Set, IInv, Addresses
    <3>2. CASE PutBack(m)
      BY <1>3, <1>7, <3>2 DEF PutBack
    <3> QED
      BY <3>1, <3>2 DEF Step, Insmod, Lookup, Save, Check, Rmmod, Restore
  <2>3. \A u \in Holders(c) : original'[u][c] = original[u][c]
    <3> SUFFICES ASSUME NEW u \in Holders(c), original'[u][c] # original[u][c] PROVE FALSE
      OBVIOUS
    <3>1. Save(m) /\ u = m /\ c = Call(m)
      BY <1>4, StepEntries DEF IInv
    <3>2. /\ at[m] = "save" /\ k[m] \in DOMAIN calls[m] /\ k[m] \in Nat
          /\ \A i, j \in DOMAIN calls[m] : calls[m][i] = calls[m][j] => i = j
      BY <3>1, CallsFacts DEF IInv, TypeOK, Save
    <3>3. PICK j \in DOMAIN calls[m] : calls[m][j] = c /\ j < k[m]
      BY <3>1, <3>2 DEF Holders, Holds
    <3> QED
      BY <3>1, <3>2, <3>3 DEF Call
  <2> QED
    BY <1>2, <2>1, <2>2, <2>3 DEF Stacked
<1> QED
  BY <1>5, <1>6, <1>7

LEMMA TableInit == Init => IInv
<1> SUFFICES ASSUME Init PROVE IInv
  OBVIOUS
<1> USE KindAssumption DEF Init
<1>1. TypeOK
  BY DEF TypeOK, Fns, Stages
<1>2. Addresses
  BY DEF Addresses
<1>3. Unset
  <2>1. \A m \in Mods : \A j \in Ahead(m) : calls[m][j] \in Calls
    BY CallsFacts DEF Ahead
  <2> QED
    BY <2>1 DEF Unset
<1>4. NoLoop
  BY DEF NoLoop, After
<1>5. InTurn
  BY DEF InTurn, Busy
<1>6. \A c \in Calls : Stacked(c)
  <2>1. \A c : Holders(c) = {}
    BY DEF Holders, Holds
  <2> QED
    BY <2>1 DEF Stacked
<1> QED
  BY <1>1, <1>2, <1>3, <1>4, <1>5, <1>6 DEF IInv

LEMMA TableStep == IInv /\ [Next]_vars => IInv'
<1> SUFFICES ASSUME IInv, [Next]_vars PROVE IInv'
  OBVIOUS
<1>1. ASSUME NEW m \in Mods, Step(m) PROVE IInv'
  <2>1. TypeOK' /\ Addresses' /\ Unset' /\ NoLoop'
    BY <1>1, StepType, StepUnset, StepNoLoop DEF IInv
  <2>2. mixed' \/ InTurn'
    BY <1>1, StepInTurn DEF IInv
  <2>3. mixed' \/ warned' \/ \A c \in Calls : Stacked(c)'
    BY <1>1, StepStacked
  <2> QED
    BY <2>1, <2>2, <2>3 DEF IInv
<1>2. CASE UNCHANGED vars
  <2>1. UNCHANGED <<table, sym, open_addr, original, at, k, warned, mixed>>
    BY <1>2 DEF vars
  <2>2. TypeOK' /\ Addresses' /\ NoLoop'
    BY <2>1 DEF IInv, TypeOK, Addresses, NoLoop, After
  <2>3. Unset'
    BY <2>1 DEF IInv, Unset, Ahead
  <2>4. InTurn => InTurn'
    BY <2>1 DEF InTurn, Busy, Call
  <2>5. \A c : Stacked(c) => Stacked(c)'
    <3>1. \A c : Holders(c)' = Holders(c)
      BY <2>1 DEF Holders, Holds
    <3> QED
      BY <2>1, <3>1 DEF Stacked
  <2> QED
    BY <2>1, <2>2, <2>3, <2>4, <2>5 DEF IInv
<1> QED
  BY <1>1, <1>2 DEF Next, Step

\* The stack of wrappers that the originals of the modules form, for any
\* modules, calls and ways to load and unload them.
THEOREM TableInductive == Spec => []IInv
  BY TableInit, TableStep, PTL DEF Spec

\* No call runs in circles through "the original".
THEOREM NoCallLoops == Spec => []NoLoop
<1>1. IInv => NoLoop
  BY DEF IInv
<1> QED
  BY <1>1, TableInductive, PTL

\* Unless an unload has warned, no call leads into a module that is gone.
THEOREM UnwarnedIsStable == Spec => []UnstableOnlyIfWarned
<1>1. IInv => UnstableOnlyIfWarned
  <2> SUFFICES ASSUME IInv, ~ mixed, ~ warned, NEW c \in Calls
               PROVE  \E F \in SUBSET Present : RunsWithin(c, F)
    BY DEF UnstableOnlyIfWarned
  <2>1. Stacked(c)
    BY DEF IInv
  <2>2. Holders(c) \cup {Kernel} \in SUBSET Present
    BY DEF Holders, Holds, Present
  <2>3. RunsWithin(c, Holders(c) \cup {Kernel})
    BY <2>1 DEF RunsWithin, Stacked, After
  <2> QED
    BY <2>2, <2>3
<1> QED
  BY <1>1, TableInductive, PTL
=============================================================================
