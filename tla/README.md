# A verification project for kernel-study

The repository is a study of how to observe and divert processes inside Linux:
a patched `fs/proc/base.c` (the per-process part of procfs, with a hook called
for every entry of a listing of `/proc`), modules that use the hook
(`proc_hack`) or replace entries of the system call table (`home_hack`,
`syscall`, `kmap`), and a number of small sample modules. This directory holds
TLA+ models of its parts, the TLC instances that check them, and TLAPS proofs
of the properties that matter most. `PROJECT.json` lists components, runs,
mutants, the correspondence of definitions and source lines, hazards and
theorems.

## 1. Inventory

| part | state | operations | what is hard |
|---|---|---|---|
| process listing, `proc_pid_readdir`, `next_tgid` (base.c) | `f_pos` of the open directory; the pid hash; the task references a call holds | getdents, next to fork, exit, exec, reuse of numbers | resumes from a position alone; the set changes between probes; two references on every exit |
| readdir hook, `honeypot_hooks` (base.c, proc_fs.h), `proc_hack.c` | one global function pointer; the module's saved copy | insmod, rmmod, the call by a reader | no lock, no module reference; the argument is not passed, the answer is ignored |
| marking, `mark_process` (home_hack.c, proc_hack.c) | parameter arrays, `hp_node` of every task, the task list | insmod: `check_args`, the walk | a walk without a lock among forks and exits |
| thread listing, `proc_task_readdir`, `first_tid`, `next_tid` | `f_pos`, `f_version`, the thread ring | getdents, seek, next to clone and exit | the tid it resumes at may be gone, or be another thread's or another process's by then |
| dentries of `/proc/PID` and `/proc/PID/task/TID` (`proc_pid_lookup`, `proc_task_lookup`, `proc_fill_cache`, `pid_revalidate`, ...) | the dcache of the directory, inodes with a `struct pid`, the directory's mutex | path walk, readdir, `dput`, flush | exit and reuse of a number between any two steps; entries of threads that no flush looks for |
| flush at exit, `proc_flush_task` | the dcache of each pid namespace's proc mount | `release_task` | one number per namespace; concurrent caching |
| descriptor directories `fd`, `fdinfo` | `files_struct` and its count, their dcache | listing, lookup, revalidation, `proc_fd_info` | the table is left unlocked between test and use; every error path must put it |
| fixed directories (`proc_pident_*`, `proc_base_*`) | tables in the source; `f_pos`; their dcache | listing, lookup, seek | a 64-bit position in an int compared with an unsigned |
| `oom_adj` | `task->oomkilladj` | write | check and store without a lock |
| `mounts`, `mountinfo`, `mountstats` | references to a namespace and a root, the event count last seen | open, release, poll | three failing steps in a row; an event between compare and sleep |
| system call table (home_hack, syscall, kmap) | `sys_call_table`, every module's `original_sys_*` | insmod, rmmod | several modules at once, in any order; a load that fails half-way |
| memory files `mem`, `environ`, `cmdline`, `auxv`, access to `maps` | references to a task, its image (`mm_struct`) and a page; `f_pos` | open, read, seek, next to exec, fork, exit, ptrace | exec changes the image between the pinning and the copying, and the credentials after the image; short accesses; offsets cut to shorter integers; many ways out |
| links `exe`, `cwd`, `root` | `exe_file` and `num_exe_file_vmas` of every image, the file's count | readlink, follow_link; exec, fork, munmap, exit | a count kept by five functions called from everywhere; a fork that another thread's munmap runs into |
| `coredump_filter`, `attr/*` | flag bits of an image; a security attribute | read, write | one bit at a time, next to other writers |
| path rewriting (home_hack) | the caller's path string | wrapper of a call | two threads with one string |
| other attribute files (loginuid, make-it-fail, sched; base.c) | one field of a task | read, write | the task goes away |
| chardev | `Device_Open`, `msg_Ptr`, `counter` | open, read, release | no lock at all |
| secfs, list, process, module_param, security_ops_hack, mmap, hello-1, hello-5, multifile, siocgifconf, miniifconf | little or none | load, print | nothing concurrent |

How the parts meet: readers of `/proc` call through the hook pointer that
`proc_hack` sets; the listing fills the dcache that path walks use, and
`release_task()` empties it through `proc_flush_task()`; `mark_process()` writes
the `hp_node` that the hook and the system call wrappers read; all modules that
replace system calls share one table; the memory files and the links look at one
image, which `exec()` replaces under them. `proc_hack.c` as it stands does not
compile against `include/linux/proc_fs.h` (the argument type of its hook is not
declared there); it is modelled as it would run with that declaration added.

## 2. Modules

| module | models | instance |
|---|---|---|
| `ProcPidReaddir` | the process listing, one probe of a pid number per step | through `ProcHack` |
| `DirListing` | abstract: what a listing of a changing directory promises | implemented by `ProcPidReaddir` |
| `ProcHack` | extends `ProcPidReaddir` by modules that save, set and restore the hook | `MCProcHack` |
| `MarkProcess` | parameters, `check_args()`, the walk of both modules | `MCMarkProcess` |
| `ProcTaskReaddir` | the thread listing | `MCProcTaskReaddir` |
| `ProcDcache` | the cached entries of `/proc` or of one `/proc/NR/task` | `MCProcDcache` |
| `ProcFlushTask` | the flush over nested pid namespaces | `MCProcFlushTask` |
| `ProcFd` | `fd`, `fdinfo`, and the `fdinfo` of a thread | `MCProcFd` |
| `ProcPident` | the directories with a fixed table | `MCProcPident` |
| `TaskImage` | a process's image and the counting of its executable | through `ProcMm` |
| `ProcMm` | extends `TaskImage` by the handlers of memory files, links, `coredump_filter`, `attr/*` | `MCProcMm` |
| `OomAdjust` | writes to `oom_adj` | `MCOomAdjust` |
| `ProcMounts` | the mounts files | `MCProcMounts` |
| `SyscallTable` | users of the system call table | `MCSyscallTable` |
| `ProcHackProofs` | theorems about `ProcPidReaddir` and `ProcHack` | |
| `ProcTaskReaddirProofs`, `ProcFdProofs`, `ProcPidentProofs`, `ProcMmProofs` | theorems about the module each is named after | |
| `ProcDcacheProofs` | theorems about `ProcDcache` and `ProcFlushTask` | |
| `ProcFilesProofs` | theorems about `ProcMounts` and `OomAdjust` | |
| `HomeHackProofs` | theorems about `MarkProcess` and `SyscallTable` | |

Conventions. A variable `pc` (or `at`, `fpc`, `ipc`, `wpc`) says where each caller is;
an action is what the code does between two points where others can
interfere: a lock or an RCU section is one step, unlocked reads and writes of
shared state are steps of their own. Operators have the names of the C functions
they stand for where there is one. Histories (marked so where they are declared)
are read by no action; properties use them to speak about the past.
A definition whose comment begins with "Mutant:" is a plausible mistake in the
definition that follows it; no specification uses it, and each shows that the
property it is listed with in `PROJECT.json` can fail.

Correspondence, module by module:

* **ProcPidReaddir.** `pidmap` gives for each number what `find_ge_pid()` and
  `pid_task()` would see: nothing, a process, a thread, or a number caught in
  the middle of `de_thread()`. A call goes through `base` (the entry `self`),
  `next` (one number probed per step), `hook` (pointer loaded), `inhook`,
  `fill`. `tgid`, `f_pos` and `refs` are `iter.tgid`, `filp->f_pos` and the
  tasks held. `room` is what the user's buffer takes; a call can end at any
  entry.
* **ProcHack.** A module is `out`, `marked`, `saved`, `live`, `leaving`. Saving
  and setting the pointer are separate steps. The hook's answer changes nothing
  in the caller, so `HookCall` leaves the listing where it was.
* **MarkProcess.** The kernel's list is the order `before` of the linked
  processes: `next_task()` gives the first of those behind the task. Fork copies
  (`ForkCopy`) and links at the tail (`ForkLink`) in two steps. When the task under the walk exits,
  `next_task()` reads freed memory: any successor is possible (`Successors`).
* **ProcTaskReaddir.** `nxt` holds the next pointers; an unlinked thread keeps
  its own (RCU). `first_tid()` walks in steps; a short read leaves `f_version`
  behind. `tid` is the number of each thread; it is free again when the thread is
  unlinked, and `find_task_by_pid_ns()` then finds nobody, a new thread of the
  group, or a task of another process, which `InGroup` (base.c:3031) refuses.
  `age` numbers the threads by their creation, which is their order on the ring;
  no action of the readdir looks at it. The histories `left` and `mistaken` say
  whether a call took a new thread of the group for the remembered one. One open
  file, and a process that does not exec.
* **ProcDcache.** `do_lookup()` and `real_lookup()` of the VFS are modelled
  from how the callbacks are used (external): what they lock decides what can
  interleave. A `struct pid` is never reused, its number is. `dir` says which
  directory a behaviour is about: `/proc`, or the task directory of one leader,
  where a lookup needs `same_thread_group()` and the flush finds only what
  hangs below a leader (`Flushed`). A leader keeps its `struct pid`; the change
  of leader when a thread calls `exec()` is in `ProcPidReaddir`.
* **ProcFlushTask.** An entry is a namespace, a path and a task; dropping a
  directory takes what is below it along. Path walks cache entries during the
  flush. That numbers are unique in a namespace (`alloc_pid()`) is an assumption
  on the constant `numbers`.
* **ProcFd.** Readers list, lookers look one descriptor up and then use the
  entry. Each `get_files_struct()`/`put_files_struct()` pair is followed. An
  entry is a link or a file; `tid_base_stuff` lists the `fdinfo` of a thread
  with the operations of `fd`, so that there both kinds occur.
* **DirListing.** Names appear and vanish; a listing picks a name that is there
  and not yet shown, shows it or drops it, and ends only when it owes nothing.
  `ProcPidReaddir` maps `present` to the processes, `shown` and `due` to its
  histories, `picked` to the number it is at with an entry in its hands, and
  the end to `f_pos`.
* **TaskImage.** `mem` is the bookkeeping of all images as one record; the
  functions of base.c (`set_mm_exe_file()`, ...) are operators from one record
  to the next, called by `Exec`, `Fork`, `Unmap`, `exit_mm` and `mmput()`, which
  are external. exec installs the image, maps the executable, and installs the
  credentials (`cred`) in separate steps, as a reader can come between any two.
  fork copies the count of vmas and the flags, then the executable, then the vmas;
  a `munmap()` of another thread may come between (`raced`), after which the
  child's count is too high (`missing`). This is the only place where the process
  has a second thread; exec and the last exit need the forking one gone.
* **ProcMm.** One record of locals per reader, and the labels of the C functions
  as its `pc`: all handlers share the steps "get the task", "permission", "page",
  "image" and the ways out. `access_process_vm()` brings any part of what it is
  asked for, of the image the task has at that moment. A page holds `PAGE_SIZE`
  units; a position is cut to an unsigned long (`WrapLong`), what is left of an
  environment to an int (`ThisLen`, `WrapInt`), and beyond `TASK_SIZE` nothing is
  mapped. Whether a reader may see a task depends on its credentials, hence on
  `cred` and not on the image.
* **ProcPident.** The tables are those of the source, with the option each entry
  depends on, so that the theorems hold of the real tables in every build; `Builds` are sets of options. `f_pos` is unbounded, `idx` is the
  `int i` as the unsigned number it is compared as (`Wrap` is 2^w).
* **OomAdjust.** Parsing, `get_proc_task()`, comparison and store are separate
  steps; the `long` is cut to an `int` by `ToInt`.
* **ProcMounts.** `GetNs`, `GetRoot`, `Alloc`, `SeqOpen` with their error
  exits; poll queues, compares, sleeps.
* **SyscallTable.** Save, set and check of one call are three steps, the test and
  the put-back at unload two (`Restore`, `PutBack`). `kmap`
  computes the address before it knows the table.

## 3. Runs

All runs use the specification of the module, all bounds are named constants.
"States" are distinct states.

| run | what it shows | bounds, and why they are enough | states |
|---|---|---|---|
| `proc_readdir` | With processes forking, exiting, being replaced in exec and numbers reused, and with `proc_hack` coming and going: no pid twice (`NoDuplicate`), none missed (`ListingComplete`), no task kept (`RefsBalanced`), the hook pointer never leads into an unloaded module (`HookLive`), calls return (`CallTerminates`), and all of it implements `DirListing` (`ImplementsListing`). `IInv` is the invariant of the proof. | 4 pid numbers (`PID_MAX_LIMIT` 5), one reader, buffers of 1 or 2 entries, one module. Readers write nothing shared, so a second one adds no behaviour to the first; the theorems are for any number. | 353 870 |
| `mark_process` | `WalkMarksAll`: at its end the walk has given every process on the list its node or -1, unless it stood on a task that exited. | 3 pids, arrays of 2 with every filling from {-1, 1, 2}, both modules. | 713 743 |
| `task_readdir` | `NoDuplicate` and `ListingComplete` of the thread listing over short reads and rewinds, with tids used again; `OnlyItsThreads`: never a task of another process, whoever got the remembered number; `RefsBalanced`. Excused are passes that counted with a listed thread gone (`lost`, completeness only) and passes that met the remembered number on a new thread of the group (`mistaken`). | A leader, 4 threads and 4 numbers, buffers of up to 3: enough for a listed thread, the remembered one and an unlisted one to exit in any order, and for a number to come back in the group and outside. Threads and numbers are symmetric. | 853 139 |
| `dcache` | `NeverTheDead`: a path walk never ends at a task that was gone when it began; `OneDentryPerName`; `OnlyItsThreads`: whatever is cached in or reached through a task directory is a thread of that group. | 2 numbers, 3 tasks in every grouping, 2 walkers, 2 inodes: a number is reused, by a stranger too, while a dentry of its last owner is hashed. | 1 857 896 |
| `flush_task` | `PidFlushed`: after the flush nothing of `/proc/NR` is left in any namespace but what was cached meanwhile; `FlushOnlyOwn`. | Two levels of namespaces, a process with a second thread, and a stranger with the same number elsewhere. | 267 600 |
| `fd` | `NeverClosed`: a lookup never ends at a descriptor that was closed all the time; `ListingComplete`; `FilesCounted`, `FilesClosed`: the count of the `files_struct` is right on every path, so that files close when the process dies. | 2 descriptors, 2 inodes, a reader, two lookups, each of the three directories. A view forgets what an idle lookup looked for. | 2 911 306 |
| `pident` | `IndexInTable` for any seek; `PassExact`: every entry once; `NothingOfTheDead`; `TaskCounted`. | Four tables, two builds, positions at the start, in the middle, negative as an int and beyond an int; two lookups of three names. | 1 138 911 |
| `oom_adjust` | `NeverBelowAuthorised`: however comparison and store interleave, the value never sinks below the lowest one the task had or a privileged writer set; `TaskCounted`. | One privileged writer, two others, a 4-bit int and numbers on both sides of every limit. | 88 691 |
| `mounts` | `RefsBalanced` over all error paths; `NoLostChange`: a poller asleep without a wake-up has seen the last change; `ChangeNoticed`: every open file with a poller asleep gets it (one poller per file). | 3 files, 3 changes. | 47 632 |
| `mm_files` | `RefsBalanced`: task, images, pages and paths are given back on every way out; `MapsPermitted`: `mm_for_maps()` never opens the image of before an exec with a permission for the one after (the new image with the permission for the old program it may, while exec has not installed its credentials: `early`); `PositionExact`: a read that returns a length has moved the position by it, modulo an unsigned long, and `environ_read()` stays in the environment unless it starts so far behind it that the int wraps; `CmdlineInPage`; `FilterExact`: an undisturbed write leaves exactly its bits; `ExeCounted`, `ExeWhileMapped`: the executable is counted for every image and reader, and `exe` leads to it as long as it is mapped. | Two images (one the readers may not see), one executable with two vmas, a page of 2 units, arguments and environment on both sides of it; an unsigned long of 16 and an int of 8 values, positions 0, 7, 15 and 17 (in the environment, where the int wraps, where the long does, and cut by the long); nine pairs of handlers, chosen so that each handler meets exec and exit, and those that share state meet each other. | 2 242 845 |
| `syscall_table` | `NoLoop`: the chain of originals always ends in the kernel's function, whatever overlaps or fails; `UnstableOnlyIfWarned`: without overlap a call leads into unloaded code only after a warning. | home_hack twice with two calls, syscall, kmap. | 1 211 839 |
| `syscall_table_kmap` (violated) | see findings | | |

`CHECK_DEADLOCK FALSE` is set where the modelled world ends: all tasks are
released, or every module has been unloaded for good.

**Fairness.** Liveness is claimed twice. `CallTerminates` assumes weak fairness
of the steps of a call that was entered: the kernel schedules it, and nothing
in the loop waits for anyone. Nothing is assumed of processes or modules.
`ChangeNoticed` assumes weak fairness of the steps of `poll()`, a woken poller
being runnable; nothing is assumed of the ones who mount. That a handler of
`ProcMm` returns is not claimed: the state graph is too large for TLC's
liveness check, and the safety part (every way out balances) is what can go
wrong there.

**Finding** (the run that must fail). `syscall_table_kmap`: `kmap` computes the
address of the entry from `sys_call_table` before that pointer is set; the table
it was to override keeps its entry.

Seen while modelling, without a run of its own: the listing ignores the
answer of the hook, so a process for which `proc_hack` logs "skipped!" is
listed; `proc_hack` does not fill the unused entries of its arrays, although its
comment says so (proc_hack.c:53), and with fewer nodes than pids it takes such an
entry, 0, for a node; a child copied before its parent was marked and linked after the walk keeps `hp_node` 0,
which is a node, and so do existing threads, which `next_task()` does not visit;
`fdinfo` of a thread is listed with the operations of `fd`; `proc_flush_task()`
passes the tgid for a group leader only, so that `/proc/TGID/task/TID` of another
thread stays cached, although the comment at base.c:2625 says it is flushed if
present (`ProcDcache` shows that `pid_revalidate()` refuses it later); a write of
a lone newline to `coredump_filter` is taken for 0; an `environ_read()` that finds
the image gone after it has copied something returns 0, and one that starts so far
behind the environment that `this_len` is positive again as an int reads outside it;
`mm_for_maps()` in the time between the new image and the new credentials of an exec
is judged by the old ones; a thread listing that finds its remembered number on a
new thread of the group goes on from there, and repeats or skips threads; a thread
gone before it is numbered is shown under the name 0; the child of a fork that ran
into a `munmap()` of another thread keeps its `exe` link when nothing is mapped any
more; a `home_hack` whose init fails half-way leaves the entries it has set.

## 4. Proofs

All theorems hold for every value of the constants that satisfies the `ASSUME`s
of the modules (TLC evaluates them in the runs).

* **The process listing** (`ProcHackProofs`: `Inductive`, `TypeCorrect`,
  `NoPidTwice`, `NoProcessMissed`, `NoReferenceLeaked`). `ListingComplete` says
  nothing before the end of a listing, so it is not inductive. `IInv` adds what
  the listing has done so far: the *cursor* is the number it is at (inside the
  loop `iter.tgid`, outside what `f_pos` stands for); everything listed lies
  below it (`ListedBelow`), every process alive since open and below it is
  listed (`StableListed`). Preservation needs that `f_pos` is right whenever
  the loop can be left (`PositionKept`), that a process alive all the time is
  never mistaken for a thread (`StableAlive`), and the number of references
  as a function of the place in the code (`RefsCounted`). One lemma per action.
* **Refinement** (`ListingRefined`, and `HookedListingRefined` with any number of
  hook modules). Under `IInv` every step maps to a step of `DirListing` or to a
  stutter: a process coming or going is `Appear` or `Vanish` (`SameView` for what
  changes no process), `FoundTgid` is `Pick`, because everything shown lies below
  the cursor; `FillEntry` is `Show`, a full buffer is `Drop`; and the last step is
  `End`, whose guard is `StableListed` with the cursor beyond every number.
* **The hook** (`ProcHackProofs`: `HookedListingComplete`, `HookNeverDangles`).
  Module steps touch the pointer only, which `IInv` does not depend on: the
  listing's invariant carries over to any number of modules. That the pointer
  never dangles is proved for one module (`OwnerOnly`: it is the module's
  exactly while it is live, and what was saved is the kernel's). With two it is
  false unless the last to come is the first to go: `HookNeverDanglesInTurn`
  proves it for any number of modules whose steps satisfy `InTurn` (none saves
  the pointer or leaves while another is between saving and setting it, and only
  the module the pointer leads to leaves). The invariant is `Chain`: the saved pointers lead
  from the hook through live modules to the kernel's function.
* **The thread listing** (`ProcTaskReaddirProofs`: `Inductive`, `NoThreadTwice`,
  `NoThreadMissed`, `NoStranger`, `NoReferenceLeft`). The reader resumes from a number of
  threads, or from a thread that may be gone, on a ring that changes under it.
  `Ring` says that threads hang in the order of their creation and that no next
  pointer, a dead thread's included, leads past a living one: this is what makes
  it safe to go on from an unlinked thread. `PassedCounted` compares two sizes:
  never more threads are left behind the last one listed than were listed, so a
  count of `f_pos - 2` from the leader ends behind it, and nothing is listed
  twice, whoever has exited. `Counting` is the same in the middle of a count; its
  witness `seen`, the threads on the ring since the count began, is needed
  because the count may stand on one that has left. As long as no listed thread
  is gone when a call counts (`~ lost`), the sizes are equalities
  (`CountingExact`) and nothing is left out. All of this (`Exact`) holds until a
  call is `mistaken`, and again after the next rewind; the ring, the references and
  that nobody else's task is in hand (`Basics`) hold throughout. That a stranger
  with the remembered number is refused is `InGroup`; that a thread of the group
  found under it is the remembered one, or the call is mistaken, is what `left`
  records.
* **Cached entries** (`ProcDcacheProofs`: `Inductive`, `NoDeadTaskReached`,
  `NoSecondDentry`, `NoForeignThread`). The three properties say nothing of a
  walker half way through a lookup. `IInv` adds that it holds a task with the
  name it looks for, of the group the directory belongs to (`Found`), that the
  name it missed stays free while it has the mutex (`NameFree`), and that a task
  gone when the walk began stays gone (`StillGone`), so that a successful
  revalidation is of a task that was not. `InodeLeft` keeps the inode numbers
  within the model's bound. One step per action, one leaf per group of conjuncts.
* **The flush** (`ProcDcacheProofs`: `FlushInductive`, `PidEntriesFlushed`,
  `FlushKeepsOthers`). For any tasks, threads and nesting of namespaces.
  `FlushedThrough` is `PidFlushed` for the namespaces the loop has been through;
  `InOrder` says that a leader is flushed after its threads are gone. The action
  property `FlushOnlyOwn` follows: what lies below a dropped path is the task's own
  or a gone thread's, since a number names one task per namespace
  (`DroppedIsOwn`).
* **Marking** (`HomeHackProofs`: `MarkInductive`, `EveryoneMarked`). `Walked`: as long as the walk stands on a living task,
  everything before it on the list has the value the parameters give it; a child
  is linked at the tail, so whatever fork copied is overwritten. The action
  property `WalkMarksAll` is this at the step that finds nothing behind, by
  totality of the list's order (`Ordered`). What `is_target_proc()` returns is
  the first mention (`NodeForMentions`, from the well-ordering of the naturals),
  and `Paired` that in `home_hack` a node was passed for it.
* **The system call table** (`HomeHackProofs`: `TableInductive`, `NoCallLoops`,
  `UnwarnedIsStable`). For any modules, lists of calls and overlap. `NoLoop` is
  stated without a chain: every set of modules has one whose original lies
  outside. It is kept because a module that saves is in nobody's original yet
  (`Unset`), and a module that puts back gives away what it saved. `UnwarnedIsStable` holds while loads and unloads are not mixed
  (`InTurn`): then the modules that hold a call form a stack (`Stacked`: each is
  reached in one way, from the table or from one other), and an unload without a
  warning takes its top.
* **Descriptors** (`ProcFdProofs`: `Inductive`, `NothingClosedFound`,
  `NothingOpenMissed`, `NoFilesLeaked`, `AllClosed`). `FilesCounted` equates the
  count with the owner and two sets of walkers, the readers inside the loop
  (`Looping`) and the walkers between `get_files_struct()` and the put inside a
  helper (`Checking`); a reader is in both when its fill looks at the table
  again. Every step moves at most one walker into or out of each set, and the
  lemmas of the first part say what that does to the cardinalities. Since the
  count is never below one while a walker holds the table, a put by a walker
  frees only what has lost its owner (`LastPutCloses`). For the listing `IInv`
  adds that everything open since the start and below the position is listed
  (`ListedSoFar`), that nothing of it has been closed (`StableOpen`), and where
  the position can be at each place (`LoopPosition`); for lookups, that a walker
  past a check has seen its descriptor open (`SeenOpen`).
* **Fixed directories** (`ProcPidentProofs`: `Inductive`,
  `NeverOutsideTheTable`, `PassIsExact`, `NothingDeadFound`, `NoTaskLeaked`). For
  every set of options, so for every table a build can have, and every position
  a reader can seek to. The tables are sequences joined from parts; their
  lengths are bounded by lemmas on `\o`, which `Wrap > 128` is above. `PassOf`
  gives for each place of a reader what it has listed: the interval from its
  start to its index, which makes both "no entry twice" and "every entry" follow
  at the end. `StillGone` is the argument of the dcache proof: a task that was
  gone when the walk began does not come back, so no revalidation and no search
  of this walk succeeds. The references are counted as in `ProcFd`.
* **Memory files, links, filter** (`ProcMmProofs`: `Inductive`, `NothingLeaked`,
  `MapsOnlyPermitted`, `PositionMovesByReturn`, `CmdlineStaysInPage`,
  `FilterWritten`, `ExecutableCounted`, `ExeFollowsMappings`). For any number of
  readers and images, any sizes of page, arguments and environment.
  `RefsBalanced` and `ExeCounted` equate five counters with the numbers of
  readers at the places where they hold something. `Place` says which places a
  file's handler goes through, `PlaceOK` what its locals are there (an image is
  held, it is one of the images, `ret` is set); a step of a reader changes these
  sets by that reader alone, so that one lemma turns "what I hold before and
  after" into the new counts, and each handler's step needs only its two places.
  Steps of the process change the owners' part of the sums, and `mmput()` of the
  last user is where both meet: the image has no reader then, which is
  `RefsBalanced` itself. Strengthenings: `CopiedSoFar` (in the loops of
  `mem_read()` and `environ_read()` the source address is the start plus what was
  copied, and not beyond the environment if it began near enough for the int,
  `Near`; both modulo the widths, on lemmas about `%`), `FlagsKept` and `FilterSoFar` (while a
  write is alone on its image, the bits below the one it is at are those it was
  given; the flag below the filter stays), `LoadingOK` (the image exec is filling
  has its executable already, and is not the child's; only in an exec do the
  credentials differ from the image), `CopyingOK` (what a fork has copied so far, and
  by how much the child's count exceeds its vmas).
* **oom_adj** (`ProcFilesProofs`: `OomInductive`, `TypeCorrect`, `NeverBelow`,
  `NoTaskLeaked`).
  The strengthening is `PendingAuthorised`: a value that has passed the
  comparison and waits to be stored was at least the value of that moment,
  hence not below the floor, which only sinks. `TaskCounted` is proved by
  counting the set of writers that hold the task.
* **mounts** (`ProcFilesProofs`: `Inductive`, `NoWakeUpLost`,
  `NoMountRefLeaked`). A poller is queued before it compares; a change after
  that wakes it, a change before it is seen. The reference counts are the
  numbers of files at the places that hold one.

The assumptions used are those of the modules: finite sets of readers, lookers
and threads, which the counting needs and a kernel with a finite pid space
provides; limits that are integers; an `int` wider than the longest table, than twice the longest
environment, and no wider than a `long`; pid
numbers unique in each namespace; lists of calls without a repetition, as
`home_hack`, `syscall` and `kmap` have them.

Only model-checked: `CallTerminates` and `ChangeNoticed`. Liveness under fairness
is out of the prover's reach. Every invariant, action property and refinement
that a passing run checks is also a theorem.

## 5. Not modelled

* Handlers that only format a value (limits, wchan, stack, schedstat, io,
  personality, syscall, status, stat, sessionid), owner and mode of inodes.
* `loginuid`, `make-it-fail`, `sched`: one store between `get_proc_task()` and
  `put_task_struct()`, without a comparison that could race.
* `chardev`: nothing in it is locked; what one would want of `Device_Open` and
  `msg_Ptr` is false, and nothing in the repository claims it.
* The path rewriting of `home_hack`: string work on user memory whose callers are
  not in the repository.
* What no property can promise, since nothing in the code provides for it: a
  reader inside the hook, or a process inside a wrapper, while the module's
  memory is freed; two users of the hook that unload out of order. These are
  listed as hazards with that note.
* Samples without state or concurrency (last row of the inventory).

## 6. Plan

1. *Done*: every component of the inventory that keeps state, but `chardev` and
   the path rewriting, is modelled and checked, and all safety properties are
   proved.
2. *Open*: `ProcTaskReaddir` and `ProcFd` as implementations of `DirListing` too.
   The thread listing needs a weaker abstract promise, as a call that counts with
   a listed thread gone may leave one out; the descriptors need one where all
   names can vanish in the step that ends a call, which is what the last
   `put_files_struct()` does. `ProcPident` proves more than `DirListing` asks:
   `PassExact` says which entries a pass gives from any position.
