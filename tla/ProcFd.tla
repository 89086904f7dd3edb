------------------------------- MODULE ProcFd -------------------------------
(***************************************************************************)
(* /proc/PID/fd and /proc/PID/fdinfo (fs/proc/base.c): the listing of a    *)
(* process's open descriptors (proc_readfd_common()), the lookup of one    *)
(* of them (proc_lookupfd_common(), proc_fd_instantiate(),                 *)
(* proc_fdinfo_instantiate(), tid_fd_revalidate()) and the use of the      *)
(* entry found (proc_fd_info()), while the process opens and closes        *)
(* descriptors, grows its table and exits.                                 *)
(*                                                                         *)
(* Everything hangs on the reference to the files_struct: a walker that    *)
(* holds one keeps the table, and the files in it, alive after the         *)
(* process has gone through exit_files().                                  *)
(*                                                                         *)
(* A file is only open or not; what i_mode says of it is left out.  An     *)
(* entry is a link (proc_fd_instantiate()) or a file to read               *)
(* (proc_fdinfo_instantiate()).  tid_base_stuff gives the fdinfo of a      *)
(* thread the listing of fd: there it depends on who comes first.          *)
(***************************************************************************)
EXTENDS Integers, FiniteSets

CONSTANTS
    MaxFds,     \* bound: the largest descriptor table
    Readers,    \* threads that list the directory
    Lookers,    \* threads that look an entry up and use it
    MaxIno,     \* bound: inodes made in a run
    None

ASSUME FdAssumption == MaxFds \in Nat \ {0} /\ MaxIno \in Nat
ASSUME RoleAssumption == Readers \cap Lookers = {} /\ None \notin Readers \cup Lookers
ASSUME FiniteAssumption == IsFiniteSet(Readers) /\ IsFiniteSet(Lookers)

VARIABLES
    dir,        \* the directory: "fd", "fdinfo", or "tid_fdinfo" of a thread
    life,       \* of the task: "running", "exiting" (no files), "gone"
    open,       \* the descriptors open in the files_struct
    max_fds,    \* the size of its table
    count,      \* the references to it
    hash,       \* the hashed dentries of the directory
    inos,       \* inodes made so far
    i_mutex,    \* of the directory
    pc,         \* where each thread is
    dent,       \* the dentry it holds
    name,       \* the descriptor a looker looks up
    f_pos,      \* the position of a reader's directory file
    wasOpen,    \* history: name was open at some time of the lookup
    listed,     \* history: what this pass has listed
    stable,     \* history: open since the pass began
    ended       \* history: the pass reached the end of the table

process == <<life, open, max_fds, count>>
dcache == <<hash, inos, i_mutex>>
walk == <<pc, dent, name, f_pos>>
history == <<wasOpen, listed, stable, ended>>
vars == <<dir, process, dcache, walk, history>>

Walkers == Readers \cup Lookers
Fds == 0 .. MaxFds - 1
Dentry == [fd : Fds, ino : 1 .. MaxIno, kind : {"link", "info"}]
Directories == {"fd", "fdinfo", "tid_fdinfo"}

\* get_files_struct() finds task->files set until exit_files().
HasFiles == life = "running"

\* The descriptor a thread is at.  The loop of proc_readfd_common() starts it
\* at f_pos - 2 and increments both together.
fd(w) == IF w \in Readers THEN f_pos[w] - 2 ELSE name[w]

Locked == {"dots", "loop", "fill", "make", "inst", "inst_check", "add", "close_race",
           "close_race_check", "report"}
PCs == Locked \cup {"idle", "need_lookup", "reval", "reval_check", "have", "info_check"}

\* Who holds a reference to the files_struct: proc_readfd_common() all through
\* its loop, the functions it calls and the others while they look into it.
BeforeLoop == {"idle", "dots"}
Checks == {"inst_check", "close_race_check", "reval_check", "info_check"}
Looping == {w \in Readers : pc[w] \notin BeforeLoop}
Checking == {w \in Walkers : pc[w] \in Checks}

ProcessTypeOK ==
    /\ dir \in Directories
    /\ life \in {"running", "exiting", "gone"}
    /\ max_fds \in 1 .. MaxFds
    /\ open \subseteq 0 .. max_fds - 1
    /\ count \in Int

DcacheTypeOK ==
    /\ hash \subseteq Dentry
    /\ inos \in 0 .. MaxIno
    /\ dent \in [Walkers -> Dentry \cup {None}]

\* The directory's mutex is held exactly by the walker inside a callback that
\* needs it.
MutexTypeOK ==
    /\ i_mutex \in Walkers \cup {None}
    /\ pc \in [Walkers -> PCs]
    /\ \A w \in Walkers : pc[w] \in Locked <=> i_mutex = w

WalkTypeOK ==
    /\ name \in [Lookers -> Fds]
    /\ f_pos \in [Readers -> 0 .. MaxFds + 2]
    /\ wasOpen \in [Lookers -> BOOLEAN]
    /\ listed \in [Readers -> SUBSET Fds]
    /\ stable \in [Readers -> SUBSET Fds]
    /\ ended \in [Readers -> BOOLEAN]

\* Everything keeps to its type.
TypeOK == ProcessTypeOK /\ DcacheTypeOK /\ MutexTypeOK /\ WalkTypeOK

Init ==
    /\ dir \in Directories
    /\ life = "running"
    /\ max_fds = 1 /\ open = {0}
    /\ count = 1
    /\ hash = {} /\ inos = 0 /\ i_mutex = None
    /\ pc = [w \in Walkers |-> "idle"]
    /\ dent = [w \in Walkers |-> None]
    /\ name = [w \in Lookers |-> 0]
    /\ f_pos = [w \in Readers |-> 0]
    /\ wasOpen = [w \in Lookers |-> FALSE]
    /\ listed = [w \in Readers |-> {}]
    /\ stable = [w \in Readers |-> {}]
    /\ ended = [w \in Readers |-> FALSE]

-----------------------------------------------------------------------------
(* The files_struct and the process that owns it.                          *)

\* put_files_struct(): the last reference closes what is open.
PutFiles ==
    /\ count' = count - 1
    /\ open' = IF count = 1 THEN {} ELSE open

\* sys_open(), dup(): a free descriptor comes into use.
OpenFd(f) ==
    /\ HasFiles /\ f \in 0 .. max_fds - 1 \ open
    /\ open' = open \cup {f}
    /\ wasOpen' = [w \in Lookers |-> wasOpen[w] \/ (pc[w] # "idle" /\ name[w] = f)]
    /\ UNCHANGED <<dir, life, max_fds, count, dcache, walk, listed, stable, ended>>

CloseFd(f) ==
    /\ HasFiles /\ f \in open
    /\ open' = open \ {f}
    /\ stable' = [w \in Readers |-> stable[w] \ {f}]
    /\ UNCHANGED <<dir, life, max_fds, count, dcache, walk, wasOpen, listed, ended>>

\* expand_files()
Grow ==
    /\ HasFiles /\ max_fds < MaxFds
    /\ max_fds' = max_fds + 1
    /\ UNCHANGED <<dir, life, open, count, dcache, walk, history>>

exit_files ==
    /\ life = "running"
    /\ life' = "exiting"
    /\ PutFiles
    /\ stable' = [w \in Readers |-> {}]
    /\ UNCHANGED <<dir, max_fds, dcache, walk, wasOpen, listed, ended>>

release_task ==
    /\ life = "exiting"
    /\ life' = "gone"
    /\ UNCHANGED <<dir, open, max_fds, count, dcache, walk, history>>

\* Memory pressure takes an unused dentry away.
Shrink(d) ==
    /\ \A w \in Walkers : dent[w] # d
    /\ hash' = hash \ {d}
    /\ UNCHANGED <<dir, process, inos, i_mutex, walk, history>>

Environment ==
    \/ \E f \in Fds : OpenFd(f) \/ CloseFd(f)
    \/ Grow \/ exit_files \/ release_task
    \/ \E d \in hash : Shrink(d)

-----------------------------------------------------------------------------
(* Steps shared by lookup and readdir.                                     *)

Go(w, at) == pc' = [pc EXCEPT ![w] = at]

Unlock(w) == i_mutex' = IF i_mutex = w THEN None ELSE i_mutex

d_lookup(f) == {d \in hash : d.fd = f}

\* fcheck_files()
fcheck(w) == fd(w) \in open

\* A readdir goes on to report the entry, a lookup returns with an error.
NoEntry(w) ==
    /\ dent' = [dent EXCEPT ![w] = None]
    /\ IF w \in Readers THEN Go(w, "report") /\ UNCHANGED i_mutex
                            ELSE Go(w, "idle") /\ Unlock(w)

\* The entry is good: a lookup lets go of the mutex, if it had it.
GoodEntry(w) ==
    /\ UNCHANGED dent
    /\ IF w \in Readers THEN Go(w, "report") /\ UNCHANGED i_mutex
                            ELSE Go(w, "have") /\ Unlock(w)

\* dput(): the last one asks pid_delete_dentry(), which lets no entry of a
\* task that is gone stay in the hash.
DputEntry(w) ==
    /\ dent' = [dent EXCEPT ![w] = None]
    /\ hash' = IF life = "gone" /\ \A v \in Walkers \ {w} : dent[v] # dent[w]
               THEN hash \ {dent[w]} ELSE hash

\* get_files_struct() of the task, when it still has one.
GetFiles(w, then, fail) ==
    \/ /\ HasFiles
       /\ count' = count + 1
       /\ Go(w, then)
       /\ UNCHANGED <<hash, i_mutex, dent>>
    \/ ~ HasFiles /\ fail /\ UNCHANGED count

-----------------------------------------------------------------------------
(* tid_fd_revalidate(), of a cached entry or of one just added.            *)

Drop(w) == hash' = hash \ {dent[w]}

RevalidateFiles(w) ==
    /\ \/ /\ pc[w] = "reval"
          /\ GetFiles(w, "reval_check", NoEntry(w) /\ Drop(w))
       \/ /\ pc[w] = "close_race"
          /\ GetFiles(w, "close_race_check", NoEntry(w) /\ Drop(w))
    /\ UNCHANGED <<dir, life, open, max_fds, inos, name, f_pos, history>>

\* Mutant: a task with files is enough.
StillAny(w) == TRUE

\* The descriptor is still open.
StillOpen(w) == fcheck(w)

RevalidateCheck(w) ==
    /\ pc[w] \in {"reval_check", "close_race_check"}
    /\ PutFiles
    /\ IF StillOpen(w) THEN GoodEntry(w) /\ UNCHANGED hash
                       ELSE NoEntry(w) /\ Drop(w)
    /\ UNCHANGED <<dir, life, max_fds, inos, name, f_pos, history>>

-----------------------------------------------------------------------------
(* proc_fd_instantiate() and proc_fdinfo_instantiate().                    *)

\* The function proc_lookupfd*() or proc_readfd*() of the directory passes.
Kind(w) ==
    IF dir = "fd" \/ (dir = "tid_fdinfo" /\ w \in Readers) THEN "link" ELSE "info"

\* proc_pid_make_inode() fails without memory, or when the task is gone.
MakeInode(w) ==
    /\ pc[w] = "make"
    /\ \/ /\ life # "gone" /\ inos < MaxIno
          /\ Go(w, IF Kind(w) = "link" THEN "inst" ELSE "add")
          /\ UNCHANGED <<dent, i_mutex>>
       \/ NoEntry(w)
    /\ UNCHANGED <<dir, process, hash, inos, name, f_pos, history>>

InstantiateFiles(w) ==
    /\ pc[w] = "inst"
    /\ GetFiles(w, "inst_check", NoEntry(w) /\ UNCHANGED hash)
    /\ UNCHANGED <<dir, life, open, max_fds, inos, name, f_pos, history>>

\* Mutant: out_unlock leaves without put_files_struct().
InstantiateLeaks(w) ==
    /\ pc[w] = "inst_check"
    /\ \/ fcheck(w) /\ PutFiles /\ Go(w, "add") /\ UNCHANGED <<dent, i_mutex>>
       \/ ~ fcheck(w) /\ NoEntry(w) /\ UNCHANGED <<count, open>>
    /\ UNCHANGED <<dir, life, max_fds, hash, inos, name, f_pos, history>>

\* Under file_lock: is there a file?  Both ways out drop the reference.
InstantiateCheck(w) ==
    /\ pc[w] = "inst_check"
    /\ PutFiles
    /\ \/ fcheck(w) /\ Go(w, "add") /\ UNCHANGED <<dent, i_mutex>>
       \/ ~ fcheck(w) /\ NoEntry(w)
    /\ UNCHANGED <<dir, life, max_fds, hash, inos, name, f_pos, history>>

\* d_add(), then close the race of the process dying.
InstantiateAdd(w) ==
    /\ pc[w] = "add" /\ inos < MaxIno
    /\ LET d == [fd |-> fd(w), ino |-> inos + 1, kind |-> Kind(w)] IN
         /\ hash' = hash \cup {d}
         /\ dent' = [dent EXCEPT ![w] = d]
    /\ inos' = inos + 1
    /\ Go(w, "close_race")
    /\ UNCHANGED <<dir, process, i_mutex, name, f_pos, history>>

Instantiate(w) ==
    MakeInode(w) \/ InstantiateFiles(w) \/ InstantiateCheck(w) \/ InstantiateAdd(w)
    \/ RevalidateFiles(w) \/ RevalidateCheck(w)

-----------------------------------------------------------------------------
(* A path walk to fd/F, and the use of the entry.                          *)

\* do_lookup(): without the mutex.
LookupStart(w, f) ==
    /\ pc[w] = "idle"
    /\ name' = [name EXCEPT ![w] = f]
    /\ wasOpen' = [wasOpen EXCEPT ![w] = HasFiles /\ f \in open]
    /\ \/ \E d \in d_lookup(f) : dent' = [dent EXCEPT ![w] = d] /\ Go(w, "reval")
       \/ d_lookup(f) = {} /\ Go(w, "need_lookup") /\ UNCHANGED dent
    /\ UNCHANGED <<dir, process, dcache, f_pos, listed, stable, ended>>

\* real_lookup(): look again under the mutex, then proc_lookupfd_common(),
\* which wants the task.
RealLookup(w) ==
    /\ pc[w] = "need_lookup" /\ i_mutex = None
    /\ \/ /\ \E d \in d_lookup(fd(w)) : dent' = [dent EXCEPT ![w] = d]
          /\ Go(w, "reval")
          /\ UNCHANGED i_mutex
       \/ /\ d_lookup(fd(w)) = {} /\ life # "gone"
          /\ Go(w, "make") /\ i_mutex' = w
          /\ UNCHANGED dent
       \/ /\ d_lookup(fd(w)) = {} /\ life = "gone"
          /\ Go(w, "idle")
          /\ UNCHANGED <<dent, i_mutex>>
    /\ UNCHANGED <<dir, process, hash, inos, name, f_pos, history>>

\* Let go of the entry.
Release(w) == Go(w, "idle") /\ DputEntry(w)

Dput(w) ==
    /\ pc[w] = "have"
    /\ Release(w)
    /\ UNCHANGED <<dir, process, inos, i_mutex, name, f_pos, history>>

\* proc_fd_info(): readlink of fd/F or a read of fdinfo/F.
InfoFiles(w) ==
    /\ pc[w] = "have"
    /\ GetFiles(w, "info_check", Release(w) /\ UNCHANGED i_mutex)
    /\ UNCHANGED <<dir, life, open, max_fds, inos, name, f_pos, history>>

InfoCheck(w) ==
    /\ pc[w] = "info_check"
    /\ PutFiles
    /\ Release(w)
    /\ UNCHANGED <<dir, life, max_fds, inos, i_mutex, name, f_pos, history>>

Lookup(w) ==
    \/ \E f \in Fds : LookupStart(w, f)
    \/ RealLookup(w) \/ Dput(w) \/ InfoFiles(w) \/ InfoCheck(w)

-----------------------------------------------------------------------------
(* proc_readfd_common(): one call of it per ReaddirStart.                  *)

\* The directory is open and the task is there; a pass starts at 0.
ReaddirStart(w) ==
    /\ pc[w] = "idle" /\ i_mutex = None /\ ~ ended[w] /\ life # "gone"
    /\ i_mutex' = w
    /\ Go(w, "dots")
    /\ stable' = IF f_pos[w] = 0 THEN [stable EXCEPT ![w] = IF HasFiles THEN open ELSE {}]
                                 ELSE stable
    /\ UNCHANGED <<dir, process, hash, inos, dent, name, f_pos, wasOpen, listed, ended>>

\* lseek() back to the start.
Rewind(w) ==
    /\ pc[w] = "idle" /\ f_pos[w] > 0
    /\ f_pos' = [f_pos EXCEPT ![w] = 0]
    /\ listed' = [listed EXCEPT ![w] = {}]
    /\ stable' = [stable EXCEPT ![w] = {}]
    /\ ended' = [ended EXCEPT ![w] = FALSE]
    /\ UNCHANGED <<dir, process, dcache, pc, dent, name, wasOpen>>

Return(w) == Go(w, "idle") /\ Unlock(w) /\ DputEntry(w)

\* "." and "..", each a filldir() that may find the buffer full.
Dots(w) ==
    /\ pc[w] = "dots" /\ f_pos[w] < 2
    /\ \/ f_pos' = [f_pos EXCEPT ![w] = @ + 1] /\ UNCHANGED <<pc, i_mutex, hash, dent>>
       \/ Return(w) /\ UNCHANGED f_pos
    /\ UNCHANGED <<dir, process, inos, name, history>>

ReadFiles(w) ==
    /\ pc[w] = "dots" /\ f_pos[w] >= 2
    /\ GetFiles(w, "loop", Return(w))
    /\ UNCHANGED <<dir, life, open, max_fds, inos, name, f_pos, history>>

\* fd++, filp->f_pos++
NextFd(w) == f_pos' = [f_pos EXCEPT ![w] = @ + 1]

\* No file at fd: continue.
SkipFd(w) ==
    /\ pc[w] = "loop" /\ fd(w) < max_fds /\ ~ fcheck(w)
    /\ NextFd(w)
    /\ UNCHANGED <<dir, process, dcache, pc, dent, name, history>>

\* There is: leave the RCU section and go into proc_fill_cache().
FoundFd(w) ==
    /\ pc[w] = "loop" /\ fd(w) < max_fds /\ fcheck(w)
    /\ Go(w, "fill")
    /\ UNCHANGED <<dir, process, dcache, dent, name, f_pos, history>>

\* d_lookup(): a cached entry is taken as it is.
FillLookup(w) ==
    /\ pc[w] = "fill"
    /\ \/ \E d \in d_lookup(fd(w)) : dent' = [dent EXCEPT ![w] = d] /\ Go(w, "report")
       \/ d_lookup(fd(w)) = {} /\ Go(w, "make") /\ UNCHANGED dent
    /\ UNCHANGED <<dir, process, dcache, name, f_pos, history>>

\* filldir() takes the entry, instantiated or not (ino 1).
ReportFd(w) ==
    /\ pc[w] = "report"
    /\ listed' = [listed EXCEPT ![w] = @ \cup {fd(w)}]
    /\ NextFd(w)
    /\ DputEntry(w)
    /\ Go(w, "loop")
    /\ UNCHANGED <<dir, process, inos, i_mutex, name, wasOpen, stable, ended>>

\* Mutant: the position moves on before the break.
BufferFullMovesOn(w) ==
    /\ pc[w] = "report"
    /\ NextFd(w)
    /\ PutFiles
    /\ Return(w)
    /\ UNCHANGED <<dir, life, max_fds, inos, name, history>>

\* filldir() has no room: break, the same descriptor comes first next time.
BufferFull(w) ==
    /\ pc[w] = "report"
    /\ PutFiles
    /\ Return(w)
    /\ UNCHANGED <<dir, life, max_fds, inos, name, f_pos, history>>

\* Mutant: the reference is dropped in the loop and after it.
EndOfTablePutsTwice(w) ==
    /\ pc[w] = "loop" /\ fd(w) >= max_fds
    /\ count' = count - 2
    /\ open' = IF count <= 2 THEN {} ELSE open
    /\ Return(w)
    /\ ended' = [ended EXCEPT ![w] = TRUE]
    /\ UNCHANGED <<dir, life, max_fds, inos, name, f_pos, wasOpen, listed, stable>>

EndOfTable(w) ==
    /\ pc[w] = "loop" /\ fd(w) >= max_fds
    /\ PutFiles
    /\ Return(w)
    /\ ended' = [ended EXCEPT ![w] = TRUE]
    /\ UNCHANGED <<dir, life, max_fds, inos, name, f_pos, wasOpen, listed, stable>>

Readdir(w) ==
    ReaddirStart(w) \/ Rewind(w) \/ Dots(w) \/ ReadFiles(w) \/ SkipFd(w) \/ FoundFd(w)
    \/ FillLookup(w) \/ ReportFd(w) \/ BufferFull(w) \/ EndOfTable(w)

-----------------------------------------------------------------------------

Next ==
    \/ Environment
    \/ \E w \in Walkers : Instantiate(w)
    \/ \E w \in Lookers : Lookup(w)
    \/ \E w \in Readers : Readdir(w)

Spec == Init /\ [][Next]_vars

-----------------------------------------------------------------------------

\* A lookup of a descriptor that was closed all the time it took finds
\* nothing, however stale the cached dentry: tid_fd_revalidate() stands
\* between the dcache and the caller on every path.
NeverClosed ==
    \A w \in Lookers : pc[w] \in {"have", "info_check"} => wasOpen[w]

\* A pass that reaches the end of the table has listed every descriptor that
\* was open all along: across calls cut short by a full buffer, closes and
\* opens next to it, and a table that grows under the loop.
ListingComplete ==
    \A w \in Readers : ended[w] => stable[w] \subseteq listed[w]

\* The table stays while anyone is inside it: its references are the owner's
\* and those of the walkers, so proc_readfd_common() never indexes a table
\* that put_files_struct() has torn down.
FilesCounted ==
    count = (IF HasFiles THEN 1 ELSE 0) + Cardinality(Looping) + Cardinality(Checking)

\* Once the process has given its files up and no walker is in the directory,
\* every descriptor is closed: no path through the handlers keeps a file of a
\* dead process open.
FilesClosed ==
    ~ HasFiles /\ Looping = {} /\ Checking = {} => open = {}

-----------------------------------------------------------------------------
(* The invariant of the proofs.                                            *)

\* Readers are in readdir and what it calls, lookers in a lookup or its entry.
Roles ==
    /\ \A r \in Readers : pc[r] \notin {"need_lookup", "reval", "reval_check", "have", "info_check"}
    /\ \A l \in Lookers : pc[l] \notin {"dots", "loop", "fill", "report"}

\* The loop runs over the table, and is at a descriptor of it while it works
\* on one: the table may grow meanwhile, never shrink.
LoopPosition ==
    \A r \in Readers :
        /\ f_pos[r] <= max_fds + 2
        /\ pc[r] \notin BeforeLoop => f_pos[r] >= 2
        /\ pc[r] \notin BeforeLoop \cup {"loop"} => f_pos[r] - 2 < max_fds

\* put_files_struct() of the last reference has closed everything.
LastPutCloses == count = 0 => open = {}

\* What has been open since the pass began is open, in the files of a process
\* that has them; what of it lies behind the position has been listed.
StableOpen == \A r \in Readers : stable[r] \subseteq open /\ (stable[r] = {} \/ HasFiles)
ListedSoFar ==
    \A r \in Readers : \A f \in stable[r] :
        /\ f < f_pos[r] - 2 => f \in listed[r]
        /\ ended[r] => f < f_pos[r] - 2

\* A descriptor that the process has open, or a walker that got its files from
\* it may still find open, was open at some time of the lookup.
SeenOpen ==
    \A l \in Lookers :
        pc[l] # "idle" /\ name[l] \in open /\ (HasFiles \/ pc[l] \in Checks) => wasOpen[l]

IInv ==
    /\ TypeOK /\ Roles /\ LoopPosition
    /\ FilesCounted /\ LastPutCloses
    /\ StableOpen /\ ListedSoFar
    /\ SeenOpen /\ NeverClosed

=============================================================================
