------------------------------- MODULE ProcMm -------------------------------
(***************************************************************************)
(* The handlers of fs/proc/base.c that look into another process's image:  *)
(* mem, environ, cmdline, auxv, the access check of maps, coredump_filter, *)
(* the exe, cwd and root links, and attr/*.  They share one shape: get the *)
(* task, perhaps a page and the image, work without any lock that stops    *)
(* exec() or exit(), and give everything back on every way out.            *)
(*                                                                         *)
(* get_task_mm() pins one image; access_process_vm() reads the one the     *)
(* task has at that moment, any number of bytes of what it is asked for.   *)
(* Lengths are in units of which a page holds PAGE_SIZE; an unsigned long  *)
(* wraps at WrapLong and an int at WrapInt of them.  What the bytes say is *)
(* left out, but for where the zero bytes of a command line are.           *)
(***************************************************************************)
EXTENDS TaskImage, FiniteSetsExt

CONSTANTS
    Readers,
    Plans,              \* which file each reader has open, and who is the task itself
    ArgLen, EnvLen,     \* arg_end - arg_start and env_end - env_start of an image
    AuxLen,             \* the auxiliary vector up to AT_NULL
    Readable,           \* images whose program's credentials let the readers see it
    PAGE_SIZE, PROC_BLOCK_SIZE,
    WrapLong, WrapInt,  \* 2^w for an unsigned long and for an int of w bits
    TASK_SIZE,          \* nothing is mapped from there on
    Masks,              \* bound: values written to coredump_filter, as sets of bits
    Positions,          \* bound: positions lseek() leads to
    Counts              \* bound: bytes asked for in one call

Memory == {"mem", "environ"}
Info == {"cmdline", "auxv"}         \* served by proc_info_read()
Links == {"exe", "fs"}              \* fs: cwd and root
Filter == {"filter_read", "filter_write"}
Sized == Memory \cup {"filter_read", "attr_read", "attr_write"}   \* look at count
Files == Memory \cup Info \cup Links \cup Filter \cup {"maps", "attr_read", "attr_write"}

ASSUME ReaderAssumption ==
    /\ IsFiniteSet(Readers) /\ Plans \subseteq [file : [Readers -> Files], self : SUBSET Readers]
    /\ Readable \subseteq Mms
ASSUME LengthAssumption ==
    /\ ArgLen \in [Mms -> Nat] /\ EnvLen \in [Mms -> Nat] /\ AuxLen \in Nat
    /\ PAGE_SIZE \in Nat \ {0} /\ PROC_BLOCK_SIZE \in 1 .. PAGE_SIZE
    /\ Masks \subseteq SUBSET (0 .. BITS - 1) /\ Positions \subseteq Nat /\ Counts \subseteq Nat

\* An int is no wider than a long, and holds the length of any environment.
ASSUME WidthAssumption ==
    /\ WrapInt \in Nat \ {0} /\ WrapLong \in Nat \ {0} /\ WrapLong % WrapInt = 0
    /\ TASK_SIZE \in 0 .. WrapLong - 1
    /\ \A m \in Mms : 2 * EnvLen[m] < WrapInt

VARIABLES
    file,       \* what each reader has open
    self,       \* the readers that are the task itself
    f_pos,      \* the position of its file
    old_exec,   \* the reader has called exec() since it opened the file
    tracer,     \* the reader that has stopped the task, or None
    rd,         \* the handler's place and locals, see Locals
    pages,      \* temporary pages and buffers allocated
    paths       \* references to paths handed out

vars == <<task, mem, file, self, f_pos, old_exec, tracer, rd, pages, paths>>

PCs == {"idle", "parse", "allowed", "task", "permit", "page", "mm", "exec_id", "loop", "recheck",
        "copy", "body", "title", "maps_check", "maps", "bits", "mmput", "exe", "exe_mmput",
        "exe_path", "fs", "attr", "copyin", "copyout", "free", "put", "path"}

\* mm: the pinned image.  src, count, ret: of the handler.  got: what
\* access_process_vm() brought.  exe: get_mm_exe_file().  val, bit: of the
\* write to coredump_filter.  History: start, f_pos when the call began; alone,
\* no other write of the filter was under way; early, mm_for_maps() asked while
\* exec() had installed the image and not yet its credentials.
Locals == [pc : PCs, mm : Mms \cup {None}, src : Nat, count : Nat, ret : Int, got : Nat,
           exe : Exes \cup {None}, val : SUBSET (0 .. BITS - 1), bit : 0 .. BITS,
           start : Nat, alone : BOOLEAN, early : BOOLEAN]

Idle(ret) == [pc |-> "idle", mm |-> None, src |-> 0, count |-> 0, ret |-> ret, got |-> 0,
              exe |-> None, val |-> {}, bit |-> 0, start |-> 0, alone |-> FALSE,
              early |-> FALSE]

ENOENT == -2
ESRCH == -3
EIO == -5
ENOMEM == -12
EACCES == -13
EFAULT == -14
EINVAL == -22

TypeOK ==
    /\ ImageTypeOK
    /\ file \in [Readers -> Files] /\ self \subseteq Readers
    /\ f_pos \in [Readers -> Nat]
    /\ old_exec \in [Readers -> BOOLEAN]
    /\ tracer \in Readers \cup {None}
    /\ rd \in [Readers -> Locals]
    /\ pages \in Int /\ paths \in Int

Init ==
    /\ ImageInit
    /\ \E plan \in Plans : file = plan.file /\ self = plan.self
    /\ f_pos = [r \in Readers |-> 0]
    /\ old_exec = [r \in Readers |-> FALSE]
    /\ tracer = None
    /\ rd = [r \in Readers |-> Idle(0)]
    /\ pages = 0 /\ paths = 0

pc(r) == rd[r].pc
At(r, label) == rd[r].pc = label

-----------------------------------------------------------------------------
(* The process, and what the readers do outside of the handlers.           *)

reader == <<file, self, f_pos, old_exec, tracer, rd, pages, paths>>

\* Images whose mmap_sem is held for reading.
Busy == {rd[r].mm : r \in {q \in Readers : pc(q) \in {"maps_check", "maps"}}}

\* The task does nothing else while it is inside a handler, or stopped.  A
\* thread of it that is inside fork() goes on.
CanRun == tracer = None /\ \A r \in self : At(r, "idle")

Process ==
    /\ \/ CanRun /\ \E m \in Mms : Fork(m) \/ \E f \in Exes : Exec(m, f)
       \/ CanRun /\ (ExecMap(Busy) \/ ExecCreds \/ ExecDone)
       \/ ForkExe \/ ForkVmas(Busy)
       \/ \E m \in Mms : (m = mm => CanRun) /\ Unmap(m, Busy)
       \/ ChildExit
       \/ exit_fs \/ release_task
    /\ UNCHANGED reader

\* A signal ends the task, a stopped one too; it is not traced any more.
Killed ==
    /\ \A r \in self : At(r, "idle")
    /\ exit_mm
    /\ tracer' = None
    /\ UNCHANGED <<file, self, f_pos, old_exec, rd, pages, paths>>

\* __ptrace_may_access(): by the credentials the task has now, which are those of
\* the program before as long as exec() has not come to them.
MayAccess == cred \in Readable

\* ptrace(), by a reader of mem, the only one it makes a difference to.
Attach(r) ==
    /\ file[r] = "mem" /\ r \notin self /\ At(r, "idle") /\ CanRun /\ mm # None /\ MayAccess
    /\ tracer' = r
    /\ UNCHANGED <<task, mem, file, self, f_pos, old_exec, rd, pages, paths>>

Detach(r) ==
    /\ tracer = r /\ At(r, "idle")
    /\ tracer' = None
    /\ UNCHANGED <<task, mem, file, self, f_pos, old_exec, rd, pages, paths>>

\* The reader's own exec(): self_exec_id is not the one mem_open() noted.
ReaderExec(r) ==
    /\ file[r] = "mem" /\ r \notin self /\ At(r, "idle")
    /\ old_exec' = [old_exec EXCEPT ![r] = TRUE]
    /\ UNCHANGED <<task, mem, file, self, f_pos, tracer, rd, pages, paths>>

\* The file is opened again: a new position and, for mem, a new exec id.
Reopen(r) ==
    /\ At(r, "idle") /\ hashed
    /\ old_exec' = [old_exec EXCEPT ![r] = FALSE]
    /\ f_pos' = [f_pos EXCEPT ![r] = 0]
    /\ rd' = [rd EXCEPT ![r] = Idle(0)]
    /\ UNCHANGED <<task, mem, file, self, tracer, pages, paths>>

\* lseek() of a file without an operation of its own.
default_llseek(r, offset) ==
    /\ file[r] \in {"environ", "attr_write"} /\ At(r, "idle")
    /\ f_pos' = [f_pos EXCEPT ![r] = offset]
    /\ UNCHANGED <<task, mem, file, self, old_exec, tracer, rd, pages, paths>>

\* offset from the start or from the position; anything else is -EINVAL.
mem_lseek(r, offset, orig) ==
    /\ file[r] = "mem" /\ At(r, "idle")
    /\ LET to == IF orig = 0 THEN offset ELSE f_pos[r] + offset IN
         IF orig \in {0, 1}
           THEN to \in Positions /\ f_pos' = [f_pos EXCEPT ![r] = to] /\ UNCHANGED rd
           ELSE rd' = [rd EXCEPT ![r] = Idle(EINVAL)] /\ UNCHANGED f_pos
    /\ UNCHANGED <<task, mem, file, self, old_exec, tracer, pages, paths>>

-----------------------------------------------------------------------------
(* The steps of a handler.  Those of Within and Copying, below, leave       *)
(* everything alone that they do not mention.                               *)

here == <<file, self, old_exec, tracer>>

Goto(r, label) == rd' = [rd EXCEPT ![r].pc = label]

\* Leave for label with a value to return.
Exit(r, label, ret) == rd' = [rd EXCEPT ![r].pc = label, ![r].ret = ret]

Return(r, ret) == rd' = [rd EXCEPT ![r] = Idle(ret)]

\* The links ask for permission first, a write to the filter parses first.
FirstPlace(r) ==
    CASE file[r] \in Links -> "allowed"
      [] file[r] = "filter_write" -> "parse"
      [] OTHER -> "task"

\* A call, with the bytes the handler will look at.  src is an unsigned long.
Call(r, n) ==
    /\ At(r, "idle")
    /\ rd' = [rd EXCEPT ![r] =
         [Idle(0) EXCEPT
            !.pc = FirstPlace(r), !.src = f_pos[r] % WrapLong, !.start = f_pos[r],
            !.count = IF file[r] \in Info THEN Min({n, PROC_BLOCK_SIZE})
                      ELSE IF file[r] \in Sized THEN n ELSE 0]]
    /\ UNCHANGED <<task, mem, file, self, f_pos, old_exec, tracer, pages, paths>>

\* proc_fd_access_allowed() of a link.
AccessAllowed(r) ==
    /\ At(r, "allowed")
    /\ IF hashed /\ (r \in self \/ MayAccess) THEN Goto(r, "task") ELSE Return(r, EACCES)

\* Where a handler goes on with the task in its hands.
AfterTask(r) ==
    CASE file[r] \in Memory -> "permit"
      [] file[r] \in Info \cup {"attr_write"} -> "page"
      [] file[r] \in Filter \cup {"maps", "exe"} -> "mm"
      [] file[r] = "fs" -> "fs"
      [] file[r] = "attr_read" -> "attr"

\* get_proc_task().  A write to attr must be whole: from position 0.
GetTask(r) ==
    /\ At(r, "task")
    /\ \/ /\ hashed
          /\ usage' = usage + 1
          /\ IF file[r] = "attr_write" /\ f_pos[r] # 0 THEN Exit(r, "put", EINVAL)
                                                       ELSE Goto(r, AfterTask(r))
       \/ /\ ~ hashed
          /\ Return(r, IF file[r] \in Links THEN ENOENT ELSE ESRCH)
          /\ UNCHANGED usage
    /\ UNCHANGED <<hashed, image, mem, f_pos, pages, paths, here>>

\* check_mem_permission()
MemPermitted(r) == r \in self \/ (tracer = r /\ MayAccess)

Permitted(r) == IF file[r] = "mem" THEN MemPermitted(r) ELSE r \in self \/ MayAccess

\* A refusal leaves ret as it is, -ESRCH.
Permit(r) ==
    /\ At(r, "permit")
    /\ IF Permitted(r) THEN Goto(r, "page") ELSE Exit(r, "put", ESRCH)

\* __get_free_page()
GetPage(r) ==
    /\ At(r, "page")
    /\ \/ pages' = pages + 1 /\ Goto(r, IF file[r] = "attr_write" THEN "copyin" ELSE "mm")
       \/ Exit(r, "put", ENOMEM) /\ UNCHANGED pages
    /\ UNCHANGED <<task, mem, f_pos, paths, here>>

\* Where a handler goes on with the image, and without one.
AfterMm(r) ==
    CASE file[r] = "mem" -> "exec_id"
      [] file[r] = "environ" -> "loop"
      [] file[r] \in Info \cup {"filter_read"} -> "body"
      [] file[r] = "maps" -> "maps_check"
      [] file[r] = "filter_write" -> "bits"
      [] file[r] = "exe" -> "exe"

NoMm(r) ==
    CASE file[r] \in Memory -> "free"
      [] file[r] \in Info -> "copyout"
      [] file[r] \in Filter \cup {"maps"} -> "put"
      [] file[r] = "exe" -> "idle"

\* get_task_mm().  proc_exe_link() lets go of the task here.
GetMm(r) ==
    /\ At(r, "mm")
    /\ IF mm # None
         THEN /\ rd' = [rd EXCEPT ![r].pc = AfterMm(r), ![r].mm = mm]
              /\ mem' = get_task_mm(mem, mm)
         ELSE /\ IF file[r] = "exe" THEN Return(r, ENOENT) ELSE Goto(r, NoMm(r))
              /\ UNCHANGED mem
    /\ usage' = IF file[r] = "exe" THEN usage - 1 ELSE usage
    /\ UNCHANGED <<hashed, image, f_pos, pages, paths, here>>

\* How much access_process_vm() can bring of len bytes at src.
Access(len) == IF mm = None THEN {0} ELSE 0 .. len

-----------------------------------------------------------------------------
(* mem_read() and environ_read(): the copy loop.                           *)

\* Mutant: -EIO goes to out_free.
ExecIdKeepsMm(r) ==
    /\ At(r, "exec_id")
    /\ IF old_exec[r] THEN Exit(r, "free", EIO) ELSE Goto(r, "loop")

\* The reader must still run the program that opened mem.
ExecId(r) ==
    /\ At(r, "exec_id")
    /\ IF old_exec[r] THEN Exit(r, "mmput", EIO) ELSE Goto(r, "loop")

\* The end of the loop: *ppos = src.
Break(r, ret) ==
    /\ Exit(r, "mmput", ret)
    /\ f_pos' = [f_pos EXCEPT ![r] = rd[r].src]

\* The int that an unsigned long is assigned to.
ToInt(n) ==
    LET bits == n % WrapInt IN IF bits < WrapInt - bits THEN bits ELSE bits - WrapInt

\* env_end - (env_start + src), of unsigned longs, as an int: what is left of the
\* environment, 0 or less at its end and for some way behind it.
EnvLeft(r) == ToInt((EnvLen[rd[r].mm] - rd[r].src) % WrapLong)

\* What is asked for next, up to a page.
ThisLen(r) ==
    LET left == IF file[r] = "mem" THEN rd[r].count ELSE EnvLeft(r)
    IN  Min({left, rd[r].count, PAGE_SIZE})

\* access_process_vm().  environ: nothing left ends the loop, and so does
\* nothing read, which is then also what the call returns.
CopyLoop(r) ==
    /\ At(r, "loop")
    /\ IF rd[r].count = 0 \/ ThisLen(r) <= 0
         THEN Break(r, rd[r].ret)
         ELSE \E n \in Access(ThisLen(r)) :
                /\ file[r] = "mem" => n = 0 \/ rd[r].src + n <= TASK_SIZE
                /\ IF file[r] = "environ" /\ n = 0
                     THEN Break(r, 0)
                     ELSE /\ rd' = [rd EXCEPT ![r].got = n,
                                        ![r].pc = IF file[r] = "mem" THEN "recheck" ELSE "copy"]
                          /\ UNCHANGED f_pos

\* mem_read() asks again after it has read.
Recheck(r) ==
    /\ At(r, "recheck")
    /\ IF rd[r].got = 0 \/ ~ MemPermitted(r)
         THEN Break(r, IF rd[r].ret = 0 THEN EIO ELSE rd[r].ret)
         ELSE Goto(r, "copy") /\ UNCHANGED f_pos

\* Mutant: src moves by what was asked for.
AdvanceByAsked(r) ==
    [rd[r] EXCEPT !.pc = "loop", !.ret = @ + rd[r].got, !.src = (@ + ThisLen(r)) % WrapLong,
                  !.count = @ - rd[r].got, !.got = 0]

Advance(r) ==
    [rd[r] EXCEPT !.pc = "loop", !.ret = @ + rd[r].got, !.src = (@ + rd[r].got) % WrapLong,
                  !.count = @ - rd[r].got, !.got = 0]

\* copy_to_user()
CopyToUser(r) ==
    /\ At(r, "copy")
    /\ \/ rd' = [rd EXCEPT ![r] = Advance(r)] /\ UNCHANGED f_pos
       \/ Break(r, EFAULT)

-----------------------------------------------------------------------------
(* proc_info_read() with proc_pid_cmdline() or proc_pid_auxv().            *)

\* proc_pid_auxv(), up to AT_NULL, which comes first until exec() has filled
\* the image.
Auxv(r) ==
    /\ At(r, "body") /\ file[r] = "auxv"
    /\ \E len \in {1, AuxLen} : Exit(r, "mmput", Min({len, PAGE_SIZE}))

\* proc_pid_cmdline(), up to the arguments: nothing while exec() has not set
\* arg_end.  Without a zero byte at the end of arguments that fit the page,
\* the string ends at an earlier one, or goes on in the environment.
CmdlineArgs(r) ==
    /\ At(r, "body") /\ file[r] = "cmdline"
    /\ LET len == Min({ArgLen[rd[r].mm], PAGE_SIZE}) IN
         IF loading /\ mm = rd[r].mm
           THEN Exit(r, "mmput", 0)
           ELSE \E n \in Access(len) :
                  \/ Exit(r, "mmput", n)
                  \/ n > 0 /\ len < PAGE_SIZE
                     /\ (Exit(r, "title", n) \/ \E cut \in 0 .. n - 1 : Exit(r, "mmput", cut))

\* Mutant: the room that is left in the page is not looked at.
RoomLeftWholePage(r) == PAGE_SIZE

RoomLeft(r) == PAGE_SIZE - rd[r].ret

\* The environment behind the arguments, up to the first zero byte.  got is
\* how far the page has been written.
CmdlineTitle(r) ==
    /\ At(r, "title")
    /\ \E n \in Access(Min({EnvLen[rd[r].mm], RoomLeft(r)})) :
         \E res \in 0 .. rd[r].ret + n :
           rd' = [rd EXCEPT ![r].pc = "mmput", ![r].ret = res, ![r].got = rd[r].ret + n]

\* simple_read_from_buffer(): from the position, at most what is there.
CopyOut(r) ==
    /\ At(r, "copyout")
    /\ LET left == rd[r].ret - f_pos[r]
           n == IF left > 0 THEN Min({left, rd[r].count}) ELSE 0
       IN  \/ Exit(r, "free", n) /\ f_pos' = [f_pos EXCEPT ![r] = @ + n]
           \/ n > 0 /\ Exit(r, "free", EFAULT) /\ UNCHANGED f_pos

-----------------------------------------------------------------------------
(* mm_for_maps(), until the caller's m_stop().                             *)

\* Mutant: the image is not compared again.
StillItsImageAny(r) == mm # None

StillItsImage(r) == mm = rd[r].mm

\* With mmap_sem held, which may have taken long, and task_lock().
MapsCheck(r) ==
    /\ At(r, "maps_check")
    /\ IF StillItsImage(r) /\ (r \in self \/ MayAccess)
         THEN rd' = [rd EXCEPT ![r].pc = "maps", ![r].early = BetweenImageAndCreds]
         ELSE Goto(r, "mmput")

MapsDone(r) ==
    /\ At(r, "maps")
    /\ Goto(r, "mmput")

-----------------------------------------------------------------------------
(* coredump_filter.                                                        *)

\* copy_from_user(), simple_strtoul() and the newline: a lone newline is a
\* value of 0, only an empty string is refused.  The length, which is what a
\* write returns, is 1.
FilterParse(r) ==
    /\ At(r, "parse")
    /\ \/ \E v \in Masks : rd' = [rd EXCEPT ![r].pc = "task", ![r].val = v, ![r].ret = 1]
       \/ \E e \in {EFAULT, EINVAL} : Return(r, e)

\* Writers between their first bit and their mmput().
Writing(m) ==
    {r \in Readers : file[r] = "filter_write" /\ pc(r) \in {"bits", "mmput"} /\ rd[r].mm = m}

\* Mutant: the flags below the filter are counted in.
FlagOfBit0(i) == i

FlagOf(i) == i + SHIFT

\* set_bit() or clear_bit() of one flag at a time.
FilterBit(r) ==
    /\ At(r, "bits") /\ rd[r].bit < BITS
    /\ LET m == rd[r].mm
           flag == FlagOf(rd[r].bit)
       IN  /\ mem' = [mem EXCEPT !.flags[m] =
                        IF rd[r].bit \in rd[r].val THEN @ \cup {flag} ELSE @ \ {flag}]
           /\ rd' = [q \in Readers |->
                IF q = r THEN [rd[q] EXCEPT !.bit = @ + 1,
                                 !.alone = Writing(m) = {r} /\ (@ \/ rd[r].bit = 0)]
                ELSE IF q \in Writing(m) THEN [rd[q] EXCEPT !.alone = FALSE]
                ELSE rd[q]]
    /\ UNCHANGED <<task, f_pos, pages, paths, here>>

FilterEnd(r) ==
    /\ At(r, "bits") /\ rd[r].bit = BITS
    /\ Goto(r, "mmput")

\* proc_coredump_filter_read() formats the flags, some characters.
FilterRead(r) ==
    /\ At(r, "body") /\ file[r] = "filter_read"
    /\ Exit(r, "mmput", 1)

-----------------------------------------------------------------------------
(* The exe, cwd and root links.                                            *)

\* get_mm_exe_file()
GetExe(r) ==
    /\ At(r, "exe")
    /\ LET f == mem.exe_file[rd[r].mm] IN
         /\ mem' = IF f = None THEN mem ELSE get_file(mem, f)
         /\ rd' = [rd EXCEPT ![r].pc = "exe_mmput", ![r].exe = f]
    /\ UNCHANGED <<task, f_pos, pages, paths, here>>

\* mmput(); without a file there is no link.
ExeMmput(r) ==
    /\ At(r, "exe_mmput")
    /\ mem' = mmput(mem, rd[r].mm)
    /\ IF rd[r].exe = None THEN Return(r, ENOENT) ELSE Goto(r, "exe_path")
    /\ UNCHANGED <<task, f_pos, pages, paths, here>>

\* The file's path, then fput().
ExePath(r) ==
    /\ At(r, "exe_path")
    /\ paths' = paths + 1
    /\ mem' = fput(mem, rd[r].exe)
    /\ Goto(r, "path")
    /\ UNCHANGED <<task, f_pos, pages, here>>

\* get_fs_path() under task_lock(), then put_task_struct().
GetFsPath(r) ==
    /\ At(r, "fs")
    /\ IF fs THEN Goto(r, "path") /\ paths' = paths + 1
             ELSE Return(r, ENOENT) /\ UNCHANGED paths
    /\ usage' = usage - 1
    /\ UNCHANGED <<hashed, image, mem, f_pos, pages, here>>

\* do_proc_readlink() and path_put(); or the walk that follows the link ends.
UsePath(r) ==
    /\ At(r, "path")
    /\ paths' = paths - 1
    /\ \E ret \in {0, 1, ENOMEM, EFAULT} : Return(r, ret)
    /\ UNCHANGED <<task, mem, f_pos, pages, here>>

-----------------------------------------------------------------------------
(* attr/*.                                                                 *)

\* security_getprocattr(), which may allocate the answer, and
\* put_task_struct().
AttrRead(r) ==
    /\ At(r, "attr")
    /\ usage' = usage - 1
    /\ \/ \E n \in 1 .. PAGE_SIZE : Exit(r, "copyout", n) /\ pages' = pages + 1
       \/ \E e \in {0, EINVAL} : Return(r, e) /\ UNCHANGED pages
    /\ UNCHANGED <<hashed, image, mem, f_pos, paths, here>>

\* copy_from_user() and security_setprocattr(), of at most a page.
AttrWrite(r) ==
    /\ At(r, "copyin")
    /\ \E ret \in {EFAULT, EINVAL, Min({rd[r].count, PAGE_SIZE})} : Exit(r, "free", ret)

-----------------------------------------------------------------------------
(* The ways out: out_put or out_mm, out_free, out.                         *)

AfterMmput(r) ==
    CASE file[r] \in Memory -> "free"
      [] file[r] \in Info -> "copyout"
      [] file[r] = "filter_read" -> "copyout"
      [] OTHER -> "put"

Mmput(r) ==
    /\ At(r, "mmput")
    /\ mem' = mmput(mem, rd[r].mm)
    /\ rd' = [rd EXCEPT ![r] = [Idle(@.ret) EXCEPT !.pc = AfterMmput(r), !.count = rd[r].count,
                                                !.start = rd[r].start]]
    /\ UNCHANGED <<task, f_pos, pages, paths, here>>

\* free_page() or kfree().  coredump_filter formats on the stack, and the
\* attribute's task is already gone.
FreePage(r) ==
    /\ At(r, "free")
    /\ pages' = IF file[r] \in Filter THEN pages ELSE pages - 1
    /\ IF file[r] = "attr_read" THEN Return(r, rd[r].ret) ELSE Goto(r, "put")
    /\ UNCHANGED <<task, mem, f_pos, paths, here>>

\* put_task_struct() and return.
PutTask(r) ==
    /\ At(r, "put")
    /\ usage' = usage - 1
    /\ Return(r, rd[r].ret)
    /\ UNCHANGED <<hashed, image, mem, f_pos, pages, paths, here>>

\* Steps of a handler within its locals, and those that may move the position.
Within(r) ==
    \/ AccessAllowed(r) \/ Permit(r) \/ ExecId(r)
    \/ Auxv(r) \/ CmdlineArgs(r) \/ CmdlineTitle(r)
    \/ MapsCheck(r) \/ MapsDone(r)
    \/ FilterParse(r) \/ FilterEnd(r) \/ FilterRead(r)
    \/ AttrWrite(r)

Copying(r) == CopyLoop(r) \/ Recheck(r) \/ CopyToUser(r) \/ CopyOut(r)

Handler(r) ==
    \/ Within(r) /\ UNCHANGED <<task, mem, f_pos, pages, paths, here>>
    \/ Copying(r) /\ UNCHANGED <<task, mem, pages, paths, here>>
    \/ GetTask(r) \/ GetPage(r) \/ GetMm(r)
    \/ FilterBit(r)
    \/ GetExe(r) \/ ExeMmput(r) \/ ExePath(r) \/ GetFsPath(r) \/ UsePath(r)
    \/ AttrRead(r)
    \/ Mmput(r) \/ FreePage(r) \/ PutTask(r)

Next ==
    \/ Process \/ Killed
    \/ \E r \in Readers :
         \/ Attach(r) \/ Detach(r) \/ ReaderExec(r) \/ Reopen(r)
         \/ \E offset \in Positions :
              default_llseek(r, offset) \/ \E orig \in 0 .. 2 : mem_lseek(r, offset, orig)
         \/ \E n \in Counts : Call(r, n)
         \/ Handler(r)

Spec == Init /\ [][Next]_vars

-----------------------------------------------------------------------------

\* What a handler holds at each of its labels.
HoldsTask(r) ==
    /\ pc(r) \notin {"idle", "parse", "allowed", "task", "exe", "exe_mmput", "exe_path", "path"}
    /\ ~ (file[r] = "attr_read" /\ pc(r) \in {"copyout", "free"})

HoldsMm(r) ==
    pc(r) \in {"exec_id", "loop", "recheck", "copy", "body", "title", "maps_check", "maps", "bits",
              "mmput", "exe", "exe_mmput"}

HoldsPage(r) ==
    \/ file[r] \in Memory \cup Info /\ pc(r) \notin {"idle", "task", "permit", "page", "put"}
    \/ file[r] = "attr_write" /\ pc(r) \in {"copyin", "free"}
    \/ file[r] = "attr_read" /\ pc(r) \in {"copyout", "free"}

One(holds) == IF holds THEN 1 ELSE 0

\* Nothing is lost and nothing is used after it is gone: at any moment the
\* task_struct, every image, the pages and the paths are referenced by the
\* process and its child and by exactly the handlers that are at a place where
\* they hold them, so that every way out of every handler, error or not, gives
\* back what it took, although the task may exec() or exit() at any step.
RefsBalanced ==
    /\ usage = One(hashed) + Cardinality({r \in Readers : HoldsTask(r)})
    /\ \A m \in Mms :
         mem.users[m] = One(mm = m) + One(child = m)
                        + Cardinality({r \in Readers : HoldsMm(r) /\ rd[r].mm = m})
    /\ pages = Cardinality({r \in Readers : HoldsPage(r)})
    /\ paths = Cardinality({r \in Readers : At(r, "path")})

\* The image mm_for_maps() returns is one the reader may see: a permission given
\* for the program of after an exec() never opens the image before it, however
\* long the wait for mmap_sem was.  The only other way is through the middle of
\* an exec(): task_lock() does not keep it from having the new image already and
\* the old credentials still.
MapsPermitted ==
    \A r \in Readers \ self : At(r, "maps") => rd[r].mm \in Readable \/ rd[r].early

\* Where environ_read() began is not so far behind the environment that what is
\* left of it, as an int, wraps.
Near(r) == 2 * (rd[r].start - EnvLen[rd[r].mm]) <= WrapInt

\* When mem_read() or environ_read() returns a length, the position has moved
\* by that length, modulo an unsigned long, through short accesses, exec() and
\* exit() in the middle of the loop: a reader that goes on reads the next byte,
\* no other.  And environ_read() goes from a position of the environment, or as
\* far behind it as an int reaches, to the end of the one it has pinned at most.
PositionExact ==
    \A r \in Readers :
      /\ file[r] \in Memory /\ pc(r) \in {"mmput", "free", "put"} /\ rd[r].ret > 0
           => f_pos[r] = (rd[r].start + rd[r].ret) % WrapLong
      /\ file[r] = "environ" /\ HoldsMm(r) /\ Near(r)
           => /\ rd[r].src >= rd[r].start
              /\ rd[r].src > rd[r].start => rd[r].src <= EnvLen[rd[r].mm]

\* proc_pid_cmdline() writes no more than the page it has, when it goes on from
\* the arguments into the environment too.
CmdlineInPage ==
    \A r \in Readers : file[r] = "cmdline" => rd[r].got <= PAGE_SIZE /\ rd[r].ret <= PAGE_SIZE

\* A write to coredump_filter that no other write of the same image overlaps
\* leaves exactly the flags it was given and none of the others touched,
\* although it sets them one by one.
FilterExact ==
    \A r \in Readers :
      file[r] = "filter_write" /\ At(r, "mmput") /\ rd[r].alone
        => mem.flags[rd[r].mm] = {0} \cup {SHIFT + i : i \in rd[r].val}

\* The executable is counted once for every image that points to it and every
\* proc_exe_link() that is using it: it is neither freed under one of them
\* nor kept (and its file system busy) when the last is gone.
ExeCounted ==
    \A f \in Exes :
      mem.f_count[f] = Cardinality({m \in Mms : mem.exe_file[m] = f})
                       + Cardinality({r \in Readers : rd[r].exe = f
                                                     /\ pc(r) \in {"exe_mmput", "exe_path"}})

\* /proc/PID/exe leads somewhere as long as the executable is mapped: through
\* exec(), fork(), munmap() and exit(), an image with vmas of a file has the file,
\* although fork() counts them, takes the file and copies them in three steps; an
\* image a process runs has it no longer than that (but for the time between
\* exec() and the first vma, and for a child of a fork() that a munmap() of
\* another thread ran into); and a free image has none.
ExeWhileMapped ==
    \A m \in Mms :
      /\ Mapped(m) > 0 => mem.exe_file[m] # None
      /\ m = mm /\ ~ loading /\ Mapped(m) = 0 => mem.exe_file[m] = None
      /\ m = child /\ forking = "no" /\ ~ raced /\ Mapped(m) = 0 => mem.exe_file[m] = None
      /\ mem.users[m] = 0 => mem.exe_file[m] = None

-----------------------------------------------------------------------------
(* The invariant of the proofs.                                            *)

\* The places of the code behind each file.
Place(f, p) ==
    \/ p \in {"idle", "task"}
    \/ f \in Memory /\ p \in {"permit", "page", "mm", "loop", "copy", "mmput", "free", "put"}
    \/ f = "mem" /\ p \in {"exec_id", "recheck"}
    \/ f \in Info /\ p \in {"page", "mm", "body", "mmput", "copyout", "free", "put"}
    \/ f = "cmdline" /\ p = "title"
    \/ f \in Links /\ p \in {"allowed", "path"}
    \/ f = "exe" /\ p \in {"mm", "exe", "exe_mmput", "exe_path"}
    \/ f = "fs" /\ p = "fs"
    \/ f = "filter_read" /\ p \in {"mm", "body", "mmput", "copyout", "free", "put"}
    \/ f = "filter_write" /\ p \in {"parse", "mm", "bits", "mmput", "put"}
    \/ f = "maps" /\ p \in {"mm", "maps_check", "maps", "mmput", "put"}
    \/ f = "attr_read" /\ p \in {"attr", "copyout", "free"}
    \/ f = "attr_write" /\ p \in {"page", "copyin", "free", "put"}

\* A handler is at a place of its file's code, with the image it has pinned
\* there, and the executable.
PlaceOK(r) ==
    /\ Place(file[r], pc(r))
    /\ HoldsMm(r) => rd[r].mm \in Mms
    /\ At(r, "exe_path") => rd[r].exe \in Exes

\* How far mem_read() and environ_read() are: src has moved by what ret says,
\* got is no more than was asked for and, of environ, than is left.
CopiedSoFar(r) ==
    /\ file[r] \in Memory /\ pc(r) \in {"task", "permit", "page", "mm", "exec_id"}
         => rd[r].ret = 0 /\ rd[r].src = rd[r].start % WrapLong
    /\ pc(r) \in {"loop", "recheck", "copy"}
         => rd[r].ret >= 0 /\ rd[r].src = (rd[r].start + rd[r].ret) % WrapLong
    /\ pc(r) \in {"recheck", "copy"} => rd[r].got <= rd[r].count
    /\ file[r] = "environ" /\ At(r, "copy") /\ Near(r)
         => rd[r].src + rd[r].got <= EnvLen[rd[r].mm]

\* What a handler's locals say of what it has done, whatever the others do.
LocalsOK(r) ==
    /\ PlaceOK(r)
    /\ CopiedSoFar(r)
    /\ At(r, "title") => rd[r].ret >= 0
    /\ file[r] = "filter_write" /\ At(r, "mmput") => rd[r].bit = BITS
    /\ rd[r].alone => pc(r) \in {"bits", "mmput"}

\* The flags below the filter stay as they are, and a writer that was alone so
\* far has set the bits behind it.
FlagsKept == \A m \in Mms : 0 \in mem.flags[m] /\ \A x \in mem.flags[m] : x = 0 \/ x >= SHIFT
FilterSoFar ==
    \A r \in Readers :
      file[r] = "filter_write" /\ pc(r) \in {"bits", "mmput"} /\ rd[r].alone
        => \A i \in 0 .. rd[r].bit - 1 :
             (FlagOf(i) \in mem.flags[rd[r].mm]) <=> (i \in rd[r].val)

\* exec() installs an image that has its executable, and that no child runs; the
\* credentials follow before it is done.
LoadingOK ==
    /\ loading => mm # None /\ mem.exe_file[mm] # None
    /\ mm = None \/ mm # child
    /\ mm # None /\ ~ loading => cred = mm

\* While an image is copied, the original has the vmas that were counted, or has
\* lost some of them, and the copy has the executable that goes with them.
CopyingOK ==
    /\ forking # "no" => /\ child # None /\ mm # None /\ ~ loading
                         /\ missing = mem.vmas[child]
                         /\ mem.vmas[mm] <= mem.vmas[child]
                         /\ ~ raced => mem.vmas[mm] = mem.vmas[child]
    /\ forking = "exe" => mem.exe_file[child] = None
    /\ forking = "vmas" => /\ mem.vmas[mm] > 0 => mem.exe_file[child] # None
                           /\ ~ raced => mem.exe_file[child] = mem.exe_file[mm]
    /\ child # None => mem.users[child] = 1 /\ missing <= mem.vmas[child]
    /\ forking = "no" /\ ~ raced => missing = 0

IInv ==
    /\ TypeOK
    /\ \A r \in Readers : LocalsOK(r)
    /\ RefsBalanced /\ MapsPermitted /\ PositionExact /\ CmdlineInPage
    /\ FlagsKept /\ FilterSoFar
    /\ ExeCounted /\ ExeWhileMapped /\ LoadingOK /\ CopyingOK

=============================================================================
