--------------------------- MODULE ProcPidReaddir ---------------------------
(***************************************************************************)
(* The listing of the processes in the root directory of /proc:            *)
(* proc_pid_readdir() and next_tgid() of fs/proc/base.c, with the hook     *)
(* point honeypot_hooks.in_proc_pid_readdir, run against processes that    *)
(* fork, exec and exit at any moment.                                      *)
(*                                                                         *)
(* A user lists /proc with several getdents calls.  Between two calls, and *)
(* between two steps of one call, the set of processes changes; all that   *)
(* carries over from one call to the next is the file position f_pos.      *)
(*                                                                         *)
(* Every reader is one open file on /proc.  The VFS holds the directory's  *)
(* i_mutex around a readdir call, so calls of two readers never overlap;   *)
(* forks, execs and exits take no such lock.                               *)
(***************************************************************************)
EXTENDS Integers

CONSTANTS
    PID_MAX_LIMIT,  \* pid numbers are 1 .. PID_MAX_LIMIT-1
    Readers,        \* open files on the /proc root directory
    MaxRoom,        \* the most entries one user buffer takes
    HookFns,        \* functions the hook pointer can hold
    dummy_in_proc_pid_readdir

ASSUME PidMaxAssumption == PID_MAX_LIMIT \in Nat /\ PID_MAX_LIMIT > 1
ASSUME RoomAssumption == MaxRoom \in Nat \ {0}
ASSUME HookAssumption == dummy_in_proc_pid_readdir \in HookFns

VARIABLES
    pidmap,   \* what each pid number stands for (kernel/pid.c)
    hook,     \* honeypot_hooks.in_proc_pid_readdir
    pc,       \* where each reader's readdir call is
    f_pos,    \* filp->f_pos of each reader
    tgid,     \* iter.tgid of the running call
    fn,       \* the hook function the running call has fetched
    refs,     \* task_struct references the running call holds
    room,     \* entries the user buffer of the running call still takes
    listed,   \* history: pids handed to the user since the file was opened
    stable    \* history: processes alive ever since the file was opened

readerVars == <<pc, f_pos, tgid, fn, refs, room, listed>>
vars == <<pidmap, hook, pc, f_pos, tgid, fn, refs, room, listed, stable>>

-----------------------------------------------------------------------------
PidNr == 1 .. (PID_MAX_LIMIT - 1)

FIRST_PROCESS_ENTRY == 256
BaseEntries == 1       \* ARRAY_SIZE(proc_base_stuff): "self"
TGID_OFFSET == FIRST_PROCESS_ENTRY + BaseEntries
EndPos == PID_MAX_LIMIT + TGID_OFFSET

(***************************************************************************)
(* What find_ge_pid(), pid_task() and has_group_leader_pid() can see under *)
(* a pid number: nothing; a struct pid that no task carries any more (it   *)
(* still names a session or a process group); a thread that is not a group *)
(* leader; a thread group leader; or, inside de_thread() of a non-leader's *)
(* exec, a task that already carries the leader's pid without being the    *)
(* group leader yet.                                                       *)
(***************************************************************************)
Slots == {"free", "notask", "thread", "leader", "dethread"}

\* The test the comment in next_tgid() warns against.
thread_group_leader(s) == s = "leader"

\* has_group_leader_pid(): the pid is a thread group leader's pid.
has_group_leader_pid(s) == s \in {"leader", "dethread"}

Processes == {p \in PidNr : has_group_leader_pid(pidmap[p])}

\* get_proc_task() of the /proc root inode: the init task of the namespace.
ReaperAlive == pidmap[1] = "leader"

Returned == {"closed", "idle"}
PCs == Returned \cup {"base", "next", "hook", "inhook", "fill"}

-----------------------------------------------------------------------------
\* Every variable keeps to the values the code can give it: in particular
\* iter.tgid never runs past PID_MAX_LIMIT, nor f_pos past the end position.
TypeOK ==
    /\ pidmap \in [PidNr -> Slots]
    /\ hook \in HookFns
    /\ pc \in [Readers -> PCs]
    /\ f_pos \in [Readers -> FIRST_PROCESS_ENTRY .. EndPos]
    /\ tgid \in [Readers -> 0 .. PID_MAX_LIMIT]
    /\ fn \in [Readers -> HookFns]
    /\ refs \in [Readers -> Int]
    /\ room \in [Readers -> 0 .. MaxRoom]
    /\ listed \in [Readers -> SUBSET PidNr]
    /\ stable \in [Readers -> SUBSET PidNr]

Init ==
    /\ pidmap = [p \in PidNr |-> IF p = 1 THEN "leader" ELSE "free"]
    /\ hook = dummy_in_proc_pid_readdir
    /\ pc = [r \in Readers |-> "closed"]
    /\ f_pos = [r \in Readers |-> FIRST_PROCESS_ENTRY]
    /\ tgid = [r \in Readers |-> 0]
    /\ fn = [r \in Readers |-> dummy_in_proc_pid_readdir]
    /\ refs = [r \in Readers |-> 0]
    /\ room = [r \in Readers |-> 0]
    /\ listed = [r \in Readers |-> {}]
    /\ stable = [r \in Readers |-> {}]

-----------------------------------------------------------------------------
(* Processes (kernel/fork.c, kernel/exit.c, fs/exec.c).                    *)

SetSlot(p, s) ==
    /\ pidmap' = [pidmap EXCEPT ![p] = s]
    /\ UNCHANGED <<hook, readerVars>>

Fork(p) ==
    /\ ReaperAlive
    /\ pidmap[p] = "free"
    /\ \E s \in {"leader", "thread"} : SetSlot(p, s)
    /\ UNCHANGED stable

\* The init task goes last: its exit kills everything in the namespace.
Exit(p) ==
    /\ pidmap[p] \in {"leader", "thread"}
    /\ p = 1 => \A q \in PidNr \ {1} : pidmap[q] \in {"free", "notask"}
    /\ \E s \in {"free", "notask"} : SetSlot(p, s)
    /\ stable' = [r \in Readers |-> stable[r] \ {p}]

FreePid(p) ==
    /\ pidmap[p] = "notask"
    /\ SetSlot(p, "free")
    /\ UNCHANGED stable

\* exec() of a thread that is not the leader: the leader's pid moves over.
DeThreadBegin(p) ==
    /\ p # 1
    /\ pidmap[p] = "leader"
    /\ SetSlot(p, "dethread")
    /\ UNCHANGED stable

DeThreadEnd(p) ==
    /\ pidmap[p] = "dethread"
    /\ SetSlot(p, "leader")
    /\ UNCHANGED stable

Environment ==
    \E p \in PidNr :
        Fork(p) \/ Exit(p) \/ FreePid(p) \/ DeThreadBegin(p) \/ DeThreadEnd(p)

-----------------------------------------------------------------------------
(* The reader's side of the VFS.                                           *)

Open(r) ==
    /\ pc[r] = "closed"
    /\ pc' = [pc EXCEPT ![r] = "idle"]
    /\ f_pos' = [f_pos EXCEPT ![r] = FIRST_PROCESS_ENTRY]
    /\ listed' = [listed EXCEPT ![r] = {}]
    /\ stable' = [stable EXCEPT ![r] = Processes]
    /\ UNCHANGED <<pidmap, hook, tgid, fn, refs, room>>

Close(r) ==
    /\ pc[r] = "idle"
    /\ pc' = [pc EXCEPT ![r] = "closed"]
    /\ f_pos' = [f_pos EXCEPT ![r] = FIRST_PROCESS_ENTRY]
    /\ tgid' = [tgid EXCEPT ![r] = 0]
    /\ listed' = [listed EXCEPT ![r] = {}]
    /\ stable' = [stable EXCEPT ![r] = {}]
    /\ UNCHANGED <<pidmap, hook, fn, refs, room>>

-----------------------------------------------------------------------------
(* proc_pid_readdir().                                                     *)

\* The position the loop over the processes starts from.
StartTgid(r) == f_pos[r] - TGID_OFFSET

\* Entry, under the directory's i_mutex: take a reference to the reaper;
\* without a reaper the call returns at once and leaves all as it was.
ReaddirStart(r) ==
    /\ pc[r] = "idle"
    /\ \A q \in Readers : pc[q] \in Returned
    /\ \/ /\ ReaperAlive
          /\ pc' = [pc EXCEPT ![r] = "base"]
          /\ refs' = [refs EXCEPT ![r] = @ + 1]
          /\ \E n \in 1 .. MaxRoom : room' = [room EXCEPT ![r] = n]
          /\ UNCHANGED <<pidmap, hook, f_pos, tgid, fn, listed, stable>>
       \/ /\ ~ ReaperAlive
          /\ UNCHANGED vars

\* Mutant: the jump out of the process loop forgets the task at hand.
BufferFullOnePut(r, puts) ==
    /\ room[r] = 0
    /\ pc' = [pc EXCEPT ![r] = "idle"]
    /\ refs' = [refs EXCEPT ![r] = @ - 1]
    /\ UNCHANGED <<pidmap, hook, f_pos, tgid, fn, room, listed, stable>>

\* The references to put when the loop stops at a full buffer: the reaper's
\* and, in the loop over the processes, that of the task at hand.
BufferFull(r, puts) ==
    /\ room[r] = 0
    /\ pc' = [pc EXCEPT ![r] = "idle"]
    /\ refs' = [refs EXCEPT ![r] = @ - puts]
    /\ UNCHANGED <<pidmap, hook, f_pos, tgid, fn, room, listed, stable>>

\* The loop over proc_base_stuff: one filldir per entry.
FillBase(r) ==
    /\ room[r] > 0
    /\ room' = [room EXCEPT ![r] = @ - 1]
    /\ f_pos' = [f_pos EXCEPT ![r] = @ + 1]
    /\ UNCHANGED <<pidmap, hook, pc, tgid, fn, refs, listed, stable>>

BaseEntry(r) ==
    /\ pc[r] = "base"
    /\ f_pos[r] - FIRST_PROCESS_ENTRY < BaseEntries
    /\ FillBase(r) \/ BufferFull(r, 1)

BaseDone(r) ==
    /\ pc[r] = "base"
    /\ f_pos[r] - FIRST_PROCESS_ENTRY >= BaseEntries
    /\ pc' = [pc EXCEPT ![r] = "next"]
    /\ tgid' = [tgid EXCEPT ![r] = StartTgid(r)]
    /\ UNCHANGED <<pidmap, hook, f_pos, fn, refs, room, listed, stable>>

(***************************************************************************)
(* next_tgid().  find_ge_pid() looks at one number after the other, under  *)
(* rcu_read_lock() only, so a fork or an exit can fall between two of its  *)
(* probes: every number is looked at in a step of its own.                 *)
(***************************************************************************)

Probing(r) == pc[r] = "next" /\ tgid[r] < PID_MAX_LIMIT

\* tgid 0 names no process: find_ge_pid(0) goes on to 1.
SlotAt(n) == IF n \in PidNr THEN pidmap[n] ELSE "free"

\* Mutant: the retry forgets iter.tgid += 1.
SkipNumberStays(r) ==
    /\ Probing(r)
    /\ ~ has_group_leader_pid(SlotAt(tgid[r]))
    /\ UNCHANGED vars

\* find_ge_pid() passes over an unused number; the retry loop passes over
\* a pid without a task and over a pid that is not a group leader's.
SkipNumber(r) ==
    /\ Probing(r)
    /\ ~ has_group_leader_pid(SlotAt(tgid[r]))
    /\ tgid' = [tgid EXCEPT ![r] = @ + 1]
    /\ UNCHANGED <<pidmap, hook, pc, f_pos, fn, refs, room, listed, stable>>

\* Mutant: the place to resume at is not remembered.
FoundTgidKeepsPos(r) ==
    /\ Probing(r)
    /\ has_group_leader_pid(SlotAt(tgid[r]))
    /\ refs' = [refs EXCEPT ![r] = @ + 1]
    /\ pc' = [pc EXCEPT ![r] = "hook"]
    /\ UNCHANGED <<pidmap, hook, f_pos, tgid, fn, room, listed, stable>>

\* Mutant: the place to resume at is behind the process, handed out or not.
FoundTgidResumesPast(r) ==
    /\ Probing(r)
    /\ has_group_leader_pid(SlotAt(tgid[r]))
    /\ refs' = [refs EXCEPT ![r] = @ + 1]
    /\ f_pos' = [f_pos EXCEPT ![r] = tgid[r] + TGID_OFFSET + 1]
    /\ pc' = [pc EXCEPT ![r] = "hook"]
    /\ UNCHANGED <<pidmap, hook, tgid, fn, room, listed, stable>>

\* A process: take a reference and remember it as the place to resume at.
FoundTgid(r) ==
    /\ Probing(r)
    /\ has_group_leader_pid(SlotAt(tgid[r]))
    /\ refs' = [refs EXCEPT ![r] = @ + 1]
    /\ f_pos' = [f_pos EXCEPT ![r] = tgid[r] + TGID_OFFSET]
    /\ pc' = [pc EXCEPT ![r] = "hook"]
    /\ UNCHANGED <<pidmap, hook, tgid, fn, room, listed, stable>>

\* No process left: f_pos goes past every possible pid, the reaper is put.
NoMoreTgid(r) ==
    /\ pc[r] = "next"
    /\ tgid[r] >= PID_MAX_LIMIT
    /\ f_pos' = [f_pos EXCEPT ![r] = EndPos]
    /\ refs' = [refs EXCEPT ![r] = @ - 1]
    /\ pc' = [pc EXCEPT ![r] = "idle"]
    /\ UNCHANGED <<pidmap, hook, tgid, fn, room, listed, stable>>

\* honeypot_hooks.in_proc_pid_readdir(): the pointer is loaded, then called.
FetchHook(r) ==
    /\ pc[r] = "hook"
    /\ fn' = [fn EXCEPT ![r] = hook]
    /\ pc' = [pc EXCEPT ![r] = "inhook"]
    /\ UNCHANGED <<pidmap, hook, f_pos, tgid, refs, room, listed, stable>>

\* The call returns; whatever it returned, the entry is filled in next.
HookReturns(r) ==
    /\ pc[r] = "inhook"
    /\ fn' = [fn EXCEPT ![r] = dummy_in_proc_pid_readdir]
    /\ pc' = [pc EXCEPT ![r] = "fill"]
    /\ UNCHANGED <<pidmap, hook, f_pos, tgid, refs, room, listed, stable>>

\* Mutant: the loop's iter.tgid += 1 on top of one already done.
FillEntrySkipsOne(r) ==
    /\ room[r] > 0
    /\ room' = [room EXCEPT ![r] = @ - 1]
    /\ listed' = [listed EXCEPT ![r] = @ \cup {tgid[r]}]
    /\ tgid' = [tgid EXCEPT ![r] = @ + 2]
    /\ refs' = [refs EXCEPT ![r] = @ - 1]
    /\ pc' = [pc EXCEPT ![r] = "next"]
    /\ UNCHANGED <<pidmap, hook, f_pos, fn, stable>>

\* proc_pid_fill_cache(): the entry goes to the user, whatever has become of
\* the task meanwhile; next_tgid() puts the task and starts one further.
FillEntry(r) ==
    /\ room[r] > 0
    /\ room' = [room EXCEPT ![r] = @ - 1]
    /\ listed' = [listed EXCEPT ![r] = @ \cup {tgid[r]}]
    /\ tgid' = [tgid EXCEPT ![r] = @ + 1]
    /\ refs' = [refs EXCEPT ![r] = @ - 1]
    /\ pc' = [pc EXCEPT ![r] = "next"]
    /\ UNCHANGED <<pidmap, hook, f_pos, fn, stable>>

Fill(r) ==
    /\ pc[r] = "fill"
    /\ FillEntry(r) \/ BufferFull(r, 2)

ReaderStep(r) ==
    \/ BaseEntry(r)
    \/ BaseDone(r)
    \/ SkipNumber(r)
    \/ FoundTgid(r)
    \/ NoMoreTgid(r)
    \/ FetchHook(r)
    \/ HookReturns(r)
    \/ Fill(r)

Next ==
    \/ Environment
    \/ \E r \in Readers : Open(r) \/ Close(r) \/ ReaddirStart(r) \/ ReaderStep(r)

\* A call that has been entered keeps running: the kernel schedules it.
Fairness == \A r \in Readers : WF_vars(ReaderStep(r))

Spec == Init /\ [][Next]_vars
FairSpec == Spec /\ Fairness

-----------------------------------------------------------------------------
(* What a listing of /proc promises.                                       *)

\* The call is between finding a process and handing it to the user.
AtEntry(r) == pc[r] \in {"hook", "inhook", "fill"}

\* No pid is handed out twice between open and close, though every getdents
\* call starts over from f_pos and numbers are freed and used again: the
\* process at hand has not been listed yet (f_pos bookkeeping, 2812 to 2846).
NoDuplicate ==
    \A r \in Readers : AtEntry(r) => tgid[r] \notin listed[r]

\* A listing that has reached its end contains every process that was alive
\* from open to now, whatever forked, exited or was inside the pid transfer
\* of exec when next_tgid() passed by.
ListingComplete ==
    \A r \in Readers : f_pos[r] = EndPos => stable[r] \subseteq listed[r]

\* Every task reference a call takes, the reaper's and one per process, has
\* been put when it returns, through the full-buffer exits too.
RefsBalanced ==
    \A r \in Readers : pc[r] \in Returned => refs[r] = 0

\* A call that was entered returns, however fast processes come and go.
CallTerminates ==
    \A r \in Readers : (pc[r] \notin Returned) ~> (pc[r] \in Returned)

(***************************************************************************)
(* The inductive invariant.  The cursor is the first number the listing    *)
(* has not dealt with: everything listed lies below it, and everything     *)
(* stable below it is listed.                                              *)
(***************************************************************************)
InLoop(r) == pc[r] = "next" \/ AtEntry(r)

Cursor(r) == IF InLoop(r) THEN tgid[r] ELSE StartTgid(r)

RefsOf(p) == IF p \in Returned THEN 0 ELSE IF p \in {"base", "next"} THEN 1 ELSE 2

ListedBelow == \A r \in Readers : \A p \in listed[r] : p < Cursor(r)

StableListed ==
    \A r \in Readers : \A p \in stable[r] : p < Cursor(r) => p \in listed[r]

StableAlive == \A r \in Readers : stable[r] \subseteq Processes

RefsCounted == \A r \in Readers : refs[r] = RefsOf(pc[r])

PositionKept ==
    \A r \in Readers :
        /\ InLoop(r) => f_pos[r] >= TGID_OFFSET
        /\ AtEntry(r) => /\ f_pos[r] = tgid[r] + TGID_OFFSET
                         /\ tgid[r] \in PidNr
        /\ InLoop(r) /\ f_pos[r] = EndPos => tgid[r] = PID_MAX_LIMIT

\* What the listing has done so far, at every step of a call and between
\* calls: it has dealt with exactly the numbers below the cursor.
IInv ==
    /\ TypeOK
    /\ ListedBelow
    /\ StableListed
    /\ StableAlive
    /\ RefsCounted
    /\ PositionKept

(***************************************************************************)
(* The listing as DirListing sees it.  A reader is at the end when f_pos   *)
(* is past every pid; the process it has found is picked until the entry   *)
(* is filled in or the buffer turns out to be full.                        *)
(***************************************************************************)
StageOf(r) ==
    IF pc[r] = "closed" THEN "closed" ELSE IF f_pos[r] = EndPos THEN "ended" ELSE "open"

PickedBy(r) == IF AtEntry(r) THEN {tgid[r]} ELSE {}

DL == INSTANCE DirListing WITH
        Names <- PidNr, present <- Processes, shown <- listed, due <- stable,
        stage <- [r \in Readers |-> StageOf(r)],
        picked <- [r \in Readers |-> PickedBy(r)]

\* proc_pid_readdir(), in any number of calls and next to everything the
\* processes do, implements the abstract listing: nothing twice, nothing
\* that was not there, and no end before all that stayed has been shown.
ImplementsListing == DL!Spec
=============================================================================
