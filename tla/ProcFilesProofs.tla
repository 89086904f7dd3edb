--------------------------- MODULE ProcFilesProofs --------------------------
(***************************************************************************)
(* Proofs about two files of a process.                                    *)
(*                                                                         *)
(* mounts and its kin (ProcMounts), for any number of files and changes:   *)
(* no wake-up of a poller is lost, and no error path of                    *)
(* mounts_open_common() keeps the namespace or the root.                   *)
(*                                                                         *)
(* oom_adj (OomAdjust), for any number of writers, any limits and any      *)
(* width of int: unprivileged writers cannot race the value under the      *)
(* lowest authorised one, and no exit of the handler keeps the task.       *)
(***************************************************************************)
EXTENDS ProcMounts, OomAdjust, FiniteSetTheorems, TLAPS

-----------------------------------------------------------------------------
(* mounts, mountinfo and mountstats.                                       *)

\* An action that leaves the polling state of every file alone, and moves a
\* file only among the states of an open, keeps the polling invariant.
LEMMA OpenKeepsPolling ==
    ASSUME IInv, UNCHANGED <<event, p_event, queued, woken>>,
           \A f \in Files : pc'[f] \in {"compare", "sleep"} => pc'[f] = pc[f]
    PROVE  NoLostChange' /\ QueuedWhilePolling'
  BY DEF IInv, NoLostChange, QueuedWhilePolling

\* Every step of an exit, an open, a poll or a release keeps the invariant.
LEMMA StepIInv == IInv /\ [Next]_vars => IInv'
<1> SUFFICES ASSUME IInv, [Next]_vars PROVE IInv'
  OBVIOUS
<1> USE DEF Goto, PCs
<1>1. CASE exit_fs \/ exit_task_namespaces \/ release_task
  <2>1. TypeOK'
    BY <1>1 DEF IInv, TypeOK, exit_fs, exit_task_namespaces, release_task, refs, polls
  <2>2. NoLostChange' /\ QueuedWhilePolling'
    BY <1>1, OpenKeepsPolling DEF exit_fs, exit_task_namespaces, release_task, refs, polls
  <2> QED
    BY <2>1, <2>2 DEF IInv
<1>2. CASE Change
  <2> USE <1>2 DEF IInv, Change, refs
  <2>1. TypeOK'
    BY EventAssumption DEF TypeOK
  <2>2. QueuedWhilePolling'
    BY DEF QueuedWhilePolling
  <2>3. \A f \in Files : pc'[f] = "sleep" => woken'[f]
    BY DEF QueuedWhilePolling
  <2> QED
    BY <2>1, <2>2, <2>3 DEF NoLostChange
<1>3. ASSUME NEW f \in Files, GetNs(f) \/ GetRoot(f) \/ Alloc(f) PROVE IInv'
  <2> USE DEF GetNs, GetRoot, Alloc, ErrPutPath, ErrPutNs, refs, polls
  <2>1. TypeOK'
    <3>1. UNCHANGED <<life, event, p_event, queued, woken>>
      BY <1>3
    <3>2. ns_count' \in Int /\ root_count' \in Int /\ pc' \in [Files -> PCs]
      BY <1>3 DEF IInv, TypeOK
    <3> QED
      BY <3>1, <3>2 DEF IInv, TypeOK
  <2>2. NoLostChange' /\ QueuedWhilePolling'
    BY <1>3, OpenKeepsPolling DEF IInv, TypeOK
  <2> QED
    BY <2>1, <2>2 DEF IInv
<1>4. ASSUME NEW f \in Files, SeqOpen(f) \/ mounts_release(f) PROVE IInv'
  <2> USE DEF SeqOpen, mounts_release, ErrPutPath, ErrPutNs, refs
  <2>1. TypeOK'
    <3>1. UNCHANGED <<life, event, queued, woken>>
      BY <1>4
    <3>2. ns_count' \in Int /\ root_count' \in Int /\ pc' \in [Files -> PCs]
      BY <1>4 DEF IInv, TypeOK
    <3>3. p_event' \in [Files -> 0 .. MaxEvent]
      BY <1>4, EventAssumption DEF IInv, TypeOK
    <3> QED
      BY <3>1, <3>2, <3>3 DEF IInv, TypeOK
  <2>2. ASSUME NEW g \in Files, pc'[g] \in {"compare", "sleep"}
        PROVE  g # f /\ pc'[g] = pc[g] /\ p_event'[g] = p_event[g]
    BY <1>4, <2>2 DEF IInv, TypeOK
  <2>3. NoLostChange' /\ QueuedWhilePolling'
    BY <1>4, <2>2 DEF IInv, NoLostChange, QueuedWhilePolling
  <2> QED
    BY <2>1, <2>3 DEF IInv
<1>5. ASSUME NEW f \in Files, PollWait(f) PROVE IInv'
  <2>1. TypeOK'
    BY <1>5 DEF PollWait, IInv, TypeOK, refs
  <2>2. NoLostChange'
    BY <1>5 DEF PollWait, IInv, TypeOK, NoLostChange
  <2>3. QueuedWhilePolling'
    BY <1>5 DEF PollWait, IInv, TypeOK, QueuedWhilePolling
  <2> QED
    BY <2>1, <2>2, <2>3 DEF IInv
<1>6. ASSUME NEW f \in Files, Compare(f) PROVE IInv'
  <2>1. TypeOK'
    BY <1>6 DEF Compare, IInv, TypeOK, refs
  <2>2. NoLostChange'
    BY <1>6 DEF Compare, IInv, TypeOK, NoLostChange
  <2>3. QueuedWhilePolling'
    BY <1>6 DEF Compare, IInv, TypeOK, QueuedWhilePolling
  <2> QED
    BY <2>1, <2>2, <2>3 DEF IInv
<1>7. ASSUME NEW f \in Files, Wake(f) PROVE IInv'
  <2>1. TypeOK'
    BY <1>7 DEF Wake, IInv, TypeOK, refs
  <2>2. NoLostChange'
    BY <1>7 DEF Wake, IInv, TypeOK, NoLostChange
  <2>3. QueuedWhilePolling'
    BY <1>7 DEF Wake, IInv, TypeOK, QueuedWhilePolling
  <2> QED
    BY <2>1, <2>2, <2>3 DEF IInv
<1>8. ASSUME NEW f \in Files, Interrupt(f) PROVE IInv'
  <2>1. TypeOK'
    BY <1>8 DEF Interrupt, IInv, TypeOK, refs
  <2>2. NoLostChange'
    BY <1>8 DEF Interrupt, IInv, TypeOK, NoLostChange
  <2>3. QueuedWhilePolling'
    BY <1>8 DEF Interrupt, IInv, TypeOK, QueuedWhilePolling
  <2> QED
    BY <2>1, <2>2, <2>3 DEF IInv
<1>9. CASE UNCHANGED vars
  BY <1>9 DEF vars, refs, polls, IInv, TypeOK, NoLostChange, QueuedWhilePolling
<1> QED
  BY <1>1, <1>2, <1>3, <1>4, <1>5, <1>6, <1>7, <1>8, <1>9 DEF Next, Environment, Poll

\* The invariant of mounts_poll() holds always.
THEOREM Inductive == Spec => []IInv
<1>1. Init => IInv
  BY EventAssumption
     DEF Init, IInv, TypeOK, PCs, NoLostChange, QueuedWhilePolling
<1> QED
  BY <1>1, StepIInv, PTL DEF Spec

\* mounts_poll() loses no wake-up: a poller that sleeps unwoken has seen the
\* last change of its namespace.
THEOREM NoWakeUpLost == Spec => []NoLostChange
<1>1. IInv => NoLostChange
  BY DEF IInv
<1> QED
  BY <1>1, Inductive, PTL

-----------------------------------------------------------------------------
(* The references to the namespace and to the root.                        *)

NsHolders == {f \in Files : HoldsNs(f)}
RootHolders == {f \in Files : HoldsRoot(f)}

\* A set of files that gains or loses one file, or stays, is counted so.
LEMMA CountOne ==
    ASSUME NEW S \in SUBSET Files, NEW f \in Files
    PROVE  /\ Cardinality(S) \in Nat
           /\ f \notin S => Cardinality(S \cup {f}) = Cardinality(S) + 1
           /\ f \in S => Cardinality(S \ {f}) = Cardinality(S) - 1
<1>1. IsFiniteSet(S)
  BY FilesAssumption, FS_Subset
<1> QED
  BY <1>1, FS_CardinalityType, FS_AddElement, FS_RemoveElement

\* How the holders follow the place f has reached in its open or poll.
LEMMA HoldersFollow ==
    ASSUME TypeOK, NEW f \in Files, NEW at \in PCs, pc' = [pc EXCEPT ![f] = at]
    PROVE  /\ NsHolders' = IF at = "closed" THEN NsHolders \ {f} ELSE NsHolders \cup {f}
           /\ RootHolders' = IF at \in {"closed", "root"} THEN RootHolders \ {f}
                                                         ELSE RootHolders \cup {f}
           /\ f \in NsHolders <=> pc[f] # "closed"
           /\ f \in RootHolders <=> pc[f] \notin {"closed", "root"}
           /\ pc[f] # "closed" /\ at # "closed" => NsHolders' = NsHolders
           /\ pc[f] \in {"closed", "root"} /\ at \in {"closed", "root"} =>
                 RootHolders' = RootHolders
  BY DEF NsHolders, RootHolders, HoldsNs, HoldsRoot, TypeOK

\* The counts as sums over the two sets of holders.
NsCounted == ns_count = Cardinality(NsHolders) + (IF HasNs THEN 1 ELSE 0)
RootCounted == root_count = Cardinality(RootHolders)

\* RefsBalanced in those terms.
LEMMA BalancedSplit == RefsBalanced <=> NsCounted /\ RootCounted
  BY DEF RefsBalanced, NsCounted, RootCounted, NsHolders, RootHolders

\* A step between two places with the same references changes no count.
LEMMA SamePlace ==
    ASSUME TypeOK, NsCounted, RootCounted, UNCHANGED <<life, ns_count, root_count>>,
           NEW f \in Files, NEW at \in PCs, pc' = [pc EXCEPT ![f] = at],
           pc[f] = "closed" <=> at = "closed",
           pc[f] \in {"closed", "root"} <=> at \in {"closed", "root"}
    PROVE  NsCounted' /\ RootCounted'
<1>1. NsHolders' = NsHolders /\ RootHolders' = RootHolders
  BY DEF NsHolders, RootHolders, HoldsNs, HoldsRoot, TypeOK
<1> QED
  BY <1>1 DEF NsCounted, RootCounted, HasNs

\* Every way out of mounts_open_common() gives back what it took.
LEMMA StepBalanced ==
    ASSUME TypeOK, NsCounted, RootCounted, [Next]_vars
    PROVE  NsCounted' /\ RootCounted'
<1> USE DEF Goto
<1>0. NsHolders \subseteq Files /\ RootHolders \subseteq Files
  BY DEF NsHolders, RootHolders
<1>a. ASSUME UNCHANGED pc PROVE NsHolders' = NsHolders /\ RootHolders' = RootHolders
  BY <1>a DEF NsHolders, RootHolders, HoldsNs, HoldsRoot
<1>1. CASE exit_fs \/ release_task \/ Change \/ UNCHANGED vars
  <2>1. UNCHANGED <<pc, ns_count, root_count>> /\ HasNs' = HasNs
    BY <1>1 DEF exit_fs, release_task, Change, vars, refs, polls, HasNs
  <2> QED
    BY <1>a, <2>1 DEF NsCounted, RootCounted
<1>2. CASE exit_task_namespaces
  <2>1. UNCHANGED <<pc, root_count>> /\ HasNs /\ ~ HasNs' /\ ns_count' = ns_count - 1
    BY <1>2 DEF exit_task_namespaces, polls, HasNs
  <2>2. Cardinality(NsHolders) \in Nat
    BY <1>0, FilesAssumption, FS_Subset, FS_CardinalityType
  <2> QED
    BY <1>a, <2>1, <2>2 DEF NsCounted, RootCounted
<1>3. ASSUME NEW f \in Files, GetNs(f) PROVE NsCounted' /\ RootCounted'
  <2>1. CASE HasNs
    <3>1. /\ pc[f] = "closed" /\ pc' = [pc EXCEPT ![f] = "root"]
          /\ ns_count' = ns_count + 1 /\ UNCHANGED <<life, root_count>>
      BY <1>3, <2>1 DEF GetNs, polls
    <3>2. NsHolders' = NsHolders \cup {f} /\ f \notin NsHolders /\ RootHolders' = RootHolders
      BY <3>1, HoldersFollow DEF PCs
    <3> QED
      BY <1>0, <3>1, <3>2, CountOne DEF NsCounted, RootCounted, HasNs
  <2>2. CASE ~ HasNs
    <3>1. UNCHANGED <<pc, life, ns_count, root_count>>
      BY <1>3, <2>2 DEF GetNs, polls
    <3> QED
      BY <1>a, <3>1 DEF NsCounted, RootCounted, HasNs
  <2> QED
    BY <2>1, <2>2
<1>4. ASSUME NEW f \in Files, GetRoot(f) PROVE NsCounted' /\ RootCounted'
  <2>1. CASE HasFs
    <3>1. /\ pc[f] = "root" /\ pc' = [pc EXCEPT ![f] = "alloc"]
          /\ root_count' = root_count + 1 /\ UNCHANGED <<life, ns_count>>
      BY <1>4, <2>1 DEF GetRoot, polls
    <3>2. RootHolders' = RootHolders \cup {f} /\ f \notin RootHolders /\ NsHolders' = NsHolders
      BY <3>1, HoldersFollow DEF PCs
    <3> QED
      BY <1>0, <3>1, <3>2, CountOne DEF NsCounted, RootCounted, HasNs
  <2>2. CASE ~ HasFs
    <3>1. /\ pc[f] = "root" /\ pc' = [pc EXCEPT ![f] = "closed"]
          /\ ns_count' = ns_count - 1 /\ UNCHANGED <<life, root_count>>
      BY <1>4, <2>2 DEF GetRoot, ErrPutNs, polls
    <3>2. NsHolders' = NsHolders \ {f} /\ f \in NsHolders /\ RootHolders' = RootHolders
      BY <3>1, HoldersFollow DEF PCs
    <3> QED
      BY <1>0, <3>1, <3>2, CountOne DEF NsCounted, RootCounted, HasNs
  <2> QED
    BY <2>1, <2>2
<1>5. ASSUME NEW f \in Files, pc[f] \in {"alloc", "seq", "open"}, ErrPutPath(f), UNCHANGED life
      PROVE NsCounted' /\ RootCounted'
  <2>1. /\ pc' = [pc EXCEPT ![f] = "closed"]
        /\ ns_count' = ns_count - 1 /\ root_count' = root_count - 1
    BY <1>5 DEF ErrPutPath, ErrPutNs
  <2>2. /\ NsHolders' = NsHolders \ {f} /\ f \in NsHolders
        /\ RootHolders' = RootHolders \ {f} /\ f \in RootHolders
    BY <1>5, <2>1, HoldersFollow DEF PCs
  <2> QED
    BY <1>0, <1>5, <2>1, <2>2, CountOne DEF NsCounted, RootCounted, HasNs
<1>6. ASSUME NEW f \in Files, Alloc(f) PROVE NsCounted' /\ RootCounted'
  <2>1. CASE Goto(f, "seq") /\ UNCHANGED refs
    BY <1>6, <2>1, SamePlace DEF Alloc, refs, polls, PCs
  <2>2. CASE ErrPutPath(f)
    BY <1>5, <1>6, <2>2 DEF Alloc, polls
  <2> QED
    BY <1>6, <2>1, <2>2 DEF Alloc
<1>7. ASSUME NEW f \in Files, SeqOpen(f) PROVE NsCounted' /\ RootCounted'
  <2>1. CASE Goto(f, "open") /\ UNCHANGED refs
    BY <1>7, <2>1, SamePlace DEF SeqOpen, refs, PCs
  <2>2. CASE ErrPutPath(f)
    BY <1>5, <1>7, <2>2 DEF SeqOpen
  <2> QED
    BY <1>7, <2>1, <2>2 DEF SeqOpen
<1>8. ASSUME NEW f \in Files, mounts_release(f) PROVE NsCounted' /\ RootCounted'
  BY <1>5, <1>8 DEF mounts_release
<1>9. ASSUME NEW f \in Files, PollWait(f) \/ Compare(f) \/ Wake(f) \/ Interrupt(f)
      PROVE NsCounted' /\ RootCounted'
  <2>1. \E at \in {"open", "compare", "sleep"} :
          /\ pc[f] \in {"open", "compare", "sleep"} /\ pc' = [pc EXCEPT ![f] = at]
          /\ UNCHANGED <<life, ns_count, root_count>>
    BY <1>9 DEF PollWait, Compare, Wake, Interrupt, refs
  <2> QED
    BY <2>1, SamePlace DEF PCs
<1> QED
  BY <1>1, <1>2, <1>3, <1>4, <1>6, <1>7, <1>8, <1>9 DEF Next, Environment, Poll

\* The namespace and the root of a mounts file are referenced exactly while
\* they are used, whichever step of the open fails and however far the
\* task's exit has come.
THEOREM NoMountRefLeaked == Spec => []RefsBalanced
<1>1. Init => NsCounted /\ RootCounted
  <2> SUFFICES ASSUME Init PROVE NsCounted /\ RootCounted
    OBVIOUS
  <2>1. NsHolders = {} /\ RootHolders = {}
    BY DEF Init, NsHolders, RootHolders, HoldsNs, HoldsRoot
  <2> QED
    BY <2>1, FS_EmptySet DEF Init, NsCounted, RootCounted, HasNs
<1>2. IInv /\ NsCounted /\ RootCounted /\ [Next]_vars => (NsCounted /\ RootCounted)'
  BY StepBalanced DEF IInv
<1>3. Spec => [](NsCounted /\ RootCounted)
  BY <1>1, <1>2, Inductive, PTL DEF Spec
<1> QED
  BY <1>3, BalancedSplit, PTL

-----------------------------------------------------------------------------
(* oom_adj.                                                                *)

\* The limits are integers, and 0 is allowed.
LEMMA AllowedInt == Allowed \subseteq Int /\ 0 \in Allowed
  BY OomAssumption DEF Allowed

\* Every operation of oom_adjust_write(), and the release of the task, keeps
\* the invariant: the comparison is made with a value that is not below the
\* lowest authorised one, and that one only sinks.
LEMMA OomStepInv == OomInv /\ [OomNext]_oomVars => OomInv'
<1> SUFFICES ASSUME OomInv, [OomNext]_oomVars PROVE OomInv'
  OBVIOUS
<1> USE AllowedInt DEF OomInv, OomTypeOK, NeverBelowAuthorised, PendingAuthorised, Returns
<1>1. CASE Release
  <2>0. usage' \in Int /\ UNCHANGED <<oomkilladj, wpc, oom_adjust, empty, ret, lowest>>
    BY <1>1 DEF Release, locals
  <2>1. OomTypeOK'
    BY <1>1, <2>0, Zenon DEF Release
  <2>2. NeverBelowAuthorised' /\ PendingAuthorised'
    BY <1>1 DEF Release, locals
  <2> QED
    BY <2>1, <2>2
<1>2. ASSUME NEW w \in Writers, NEW n \in Numbers \cup {0}, NEW nothing \in BOOLEAN,
             Parse(w, n, nothing)
      PROVE OomInv'
  <2>1. OomTypeOK'
    BY <1>2 DEF Parse, Return, WriterAt, InRange
  <2>2. NeverBelowAuthorised'
    BY <1>2 DEF Parse
  <2>3. PendingAuthorised'
    BY <1>2 DEF Parse, Return, WriterAt
  <2> QED
    BY <2>1, <2>2, <2>3
<1>3. ASSUME NEW w \in Writers, CopyFault(w) PROVE OomInv'
  <2>1. OomTypeOK'
    BY <1>3 DEF CopyFault, Return, WriterAt
  <2>2. NeverBelowAuthorised'
    BY <1>3 DEF CopyFault
  <2>3. PendingAuthorised'
    BY <1>3 DEF CopyFault, Return, WriterAt
  <2> QED
    BY <2>1, <2>2, <2>3
<1>4. ASSUME NEW w \in Writers, GetTask(w) PROVE OomInv'
  <2>0. usage' \in Int
    BY <1>4 DEF GetTask
  <2>1. OomTypeOK'
    <3>1. CASE alive
      BY <1>4, <2>0, <3>1 DEF GetTask, WriterAt
    <3>2. CASE ~ alive
      BY <1>4, <2>0, <3>2 DEF GetTask, Return, WriterAt
    <3> QED
      BY <3>1, <3>2
  <2>2. NeverBelowAuthorised'
    BY <1>4 DEF GetTask
  <2>3. PendingAuthorised'
    BY <1>4 DEF GetTask, Return, WriterAt
  <2> QED
    BY <2>1, <2>2, <2>3
<1>5. ASSUME NEW w \in Writers, Check(w) PROVE OomInv'
  <2>0. usage' \in Int
    BY <1>5 DEF Check
  <2>1. OomTypeOK'
    <3>1. CASE Refused(w)
      BY <1>5, <2>0, <3>1 DEF Check, Return, WriterAt
    <3>2. CASE ~ Refused(w)
      BY <1>5, <2>0, <3>2 DEF Check, WriterAt
    <3> QED
      BY <3>1, <3>2
  <2>2. NeverBelowAuthorised'
    BY <1>5 DEF Check
  <2>3. CASE Refused(w)
    <3>1. PendingAuthorised'
      BY <1>5, <2>3 DEF Check, Return, WriterAt
    <3> QED
      BY <2>1, <2>2, <3>1
  <2>4. CASE ~ Refused(w)
    <3>0. oom_adjust[w] \in Int /\ oomkilladj \in Int /\ lowest \in Int
      OBVIOUS
    <3>1. w \notin Privileged => oom_adjust[w] >= lowest
      <4> USE DEF Refused, capable
      <4>1. w \notin Privileged => ~ (oom_adjust[w] < oomkilladj)
        BY <2>4
      <4> QED
        BY <3>0, <4>1
    <3>2. PendingAuthorised'
      BY <1>5, <2>4, <3>1 DEF Check, WriterAt
    <3> QED
      BY <2>1, <2>2, <3>2
  <2> QED
    BY <2>3, <2>4
<1>6. ASSUME NEW w \in Writers, Store(w) PROVE OomInv'
  <2>1. OomTypeOK'
    BY <1>6 DEF Store, Return, WriterAt
  <2>2. lowest' <= lowest /\ (capable(w) => oomkilladj' >= lowest')
    BY <1>6 DEF Store
  <2>3. ~ capable(w) => oomkilladj' >= lowest'
    BY <1>6 DEF Store, capable
  <2>4. ASSUME NEW v \in Writers \ Privileged, wpc'[v] = "set"
        PROVE oom_adjust'[v] >= lowest'
    <3>1. v # w /\ wpc[v] = "set" /\ oom_adjust'[v] = oom_adjust[v]
      BY <1>6, <2>4 DEF Store, Return, WriterAt
    <3>2. oom_adjust[v] \in Int /\ lowest \in Int /\ lowest' \in Int
      BY <2>1
    <3> QED
      BY <2>2, <3>1, <3>2
  <2> QED
    BY <2>1, <2>2, <2>3, <2>4
<1>7. CASE UNCHANGED oomVars
  BY <1>7 DEF oomVars, locals
<1> QED
  BY <1>1, <1>2, <1>3, <1>4, <1>5, <1>6, <1>7 DEF OomNext, Write

\* The inductive invariant of oom_adjust_write() holds always.
THEOREM OomInductive == OomSpec => []OomInv
<1>1. OomInit => OomInv
  BY AllowedInt DEF OomInit, OomInv, OomTypeOK, NeverBelowAuthorised, PendingAuthorised, Returns
<1> QED
  BY <1>1, OomStepInv, PTL DEF OomSpec

\* The value of the task, and every value a writer is about to store, is one of
\* those oom_adjust_write() lets through, whatever number was written.
THEOREM TypeCorrect == OomSpec => []OomTypeOK
<1>1. OomInv => OomTypeOK
  BY DEF OomInv
<1> QED
  BY <1>1, OomInductive, PTL

\* However many writers race between the comparison and the store, oom_adj
\* stays at or above what the task had or a privileged writer asked for.
THEOREM NeverBelow == OomSpec => []NeverBelowAuthorised
<1>1. OomInv => NeverBelowAuthorised
  BY DEF OomInv
<1> QED
  BY <1>1, OomInductive, PTL

-----------------------------------------------------------------------------
(* The references to the task_struct.                                      *)

Holders == {w \in Writers : wpc[w] \in {"check", "set"}}

\* The writers past get_proc_task() can be counted.
LEMMA HoldersFinite == IsFiniteSet(Holders) /\ Cardinality(Holders) \in Nat
  BY WriterAssumption, FS_Subset, FS_CardinalityType DEF Holders

\* A writer that takes the reference becomes one more holder.
LEMMA OneMore ==
    ASSUME OomTypeOK, NEW w \in Writers, wpc[w] \notin {"check", "set"},
           wpc' = [wpc EXCEPT ![w] = "check"]
    PROVE  Cardinality(Holders') = Cardinality(Holders) + 1
<1>1. Holders' = Holders \cup {w} /\ w \notin Holders
  BY DEF Holders, OomTypeOK
<1> QED
  BY <1>1, HoldersFinite, FS_AddElement

\* A writer that returns is one holder less.
LEMMA OneLess ==
    ASSUME OomTypeOK, NEW w \in Writers, wpc[w] \in {"check", "set"},
           wpc' = [wpc EXCEPT ![w] = "idle"]
    PROVE  Cardinality(Holders') = Cardinality(Holders) - 1
<1>1. Holders' = Holders \ {w} /\ w \in Holders
  BY DEF Holders, OomTypeOK
<1> QED
  BY <1>1, HoldersFinite, FS_RemoveElement

\* Any other step leaves the holders alone.
LEMMA SameHolders ==
    ASSUME OomTypeOK, NEW w \in Writers, NEW at, wpc' = [wpc EXCEPT ![w] = at],
           wpc[w] \in {"check", "set"} <=> at \in {"check", "set"}
    PROVE  Holders' = Holders
  BY DEF Holders, OomTypeOK

\* TaskCounted with the set of holders named.
LEMMA Counted ==
    TaskCounted <=> usage = Cardinality(Holders) + (IF alive THEN 1 ELSE 0)
  BY DEF TaskCounted, Holders

\* Every exit of oom_adjust_write() puts the task it got.
LEMMA StepCounted == OomInv /\ TaskCounted /\ [OomNext]_oomVars => TaskCounted'
<1> SUFFICES ASSUME OomInv, TaskCounted, [OomNext]_oomVars
             PROVE  usage' = Cardinality(Holders') + (IF alive' THEN 1 ELSE 0)
  BY DEF TaskCounted, Holders
<1>0. /\ OomTypeOK /\ usage \in Int /\ Cardinality(Holders) \in Nat
      /\ usage = Cardinality(Holders) + (IF alive THEN 1 ELSE 0)
  BY Counted, HoldersFinite DEF OomInv, OomTypeOK
<1>1. CASE Release
  <2>1. Holders' = Holders
    BY <1>1 DEF Release, locals, Holders
  <2> QED
    BY <1>0, <1>1, <2>1 DEF Release
<1>2. ASSUME NEW w \in Writers, NEW n \in Numbers \cup {0}, NEW nothing \in BOOLEAN,
             Parse(w, n, nothing)
      PROVE usage' = Cardinality(Holders') + (IF alive' THEN 1 ELSE 0)
  <2>1. Holders' = Holders
    BY <1>0, <1>2, SameHolders DEF Parse, Return, WriterAt
  <2> QED
    BY <1>0, <1>2, <2>1 DEF Parse
<1>3. ASSUME NEW w \in Writers, CopyFault(w)
      PROVE usage' = Cardinality(Holders') + (IF alive' THEN 1 ELSE 0)
  <2>1. Holders' = Holders
    BY <1>0, <1>3, SameHolders DEF CopyFault, Return, WriterAt
  <2> QED
    BY <1>0, <1>3, <2>1 DEF CopyFault
<1>4. ASSUME NEW w \in Writers, GetTask(w)
      PROVE usage' = Cardinality(Holders') + (IF alive' THEN 1 ELSE 0)
  <2>1. CASE alive
    <3>1. Cardinality(Holders') = Cardinality(Holders) + 1
      BY <1>0, <1>4, <2>1, OneMore DEF GetTask, WriterAt
    <3> QED
      BY <1>0, <1>4, <2>1, <3>1 DEF GetTask
  <2>2. CASE ~ alive
    <3>1. Holders' = Holders
      BY <1>0, <1>4, <2>2, SameHolders DEF GetTask, Return, WriterAt
    <3> QED
      BY <1>0, <1>4, <2>2, <3>1 DEF GetTask
  <2> QED
    BY <2>1, <2>2
<1>5. ASSUME NEW w \in Writers, Check(w)
      PROVE usage' = Cardinality(Holders') + (IF alive' THEN 1 ELSE 0)
  <2>1. CASE Refused(w)
    <3>1. Cardinality(Holders') = Cardinality(Holders) - 1
      BY <1>0, <1>5, <2>1, OneLess DEF Check, Return, WriterAt
    <3> QED
      BY <1>0, <1>5, <2>1, <3>1 DEF Check
  <2>2. CASE ~ Refused(w)
    <3>1. Holders' = Holders
      BY <1>0, <1>5, <2>2, SameHolders DEF Check, WriterAt
    <3> QED
      BY <1>0, <1>5, <2>2, <3>1 DEF Check
  <2> QED
    BY <2>1, <2>2
<1>6. ASSUME NEW w \in Writers, Store(w)
      PROVE usage' = Cardinality(Holders') + (IF alive' THEN 1 ELSE 0)
  <2>1. Cardinality(Holders') = Cardinality(Holders) - 1
    BY <1>0, <1>6, OneLess DEF Store, Return, WriterAt
  <2> QED
    BY <1>0, <1>6, <2>1 DEF Store
<1>7. CASE UNCHANGED oomVars
  <2>1. Holders' = Holders
    BY <1>7 DEF oomVars, locals, Holders
  <2> QED
    BY <1>0, <1>7, <2>1 DEF oomVars
<1> QED
  BY <1>1, <1>2, <1>3, <1>4, <1>5, <1>6, <1>7 DEF OomNext, Write

\* The task_struct is referenced by the writers that use it and by nobody
\* they have left behind, through every error path of the handler.
THEOREM NoTaskLeaked == OomSpec => []TaskCounted
<1>1. OomInit => TaskCounted
  <2> SUFFICES ASSUME OomInit PROVE TaskCounted
    OBVIOUS
  <2>1. Holders = {}
    BY DEF OomInit, Holders
  <2> QED
    BY <2>1, Counted, FS_EmptySet DEF OomInit
<1> QED
  BY <1>1, OomInductive, StepCounted, PTL DEF OomSpec
=============================================================================
