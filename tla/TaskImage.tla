----------------------------- MODULE TaskImage ------------------------------
(***************************************************************************)
(* The process a /proc/PID directory is about, as the handlers of the      *)
(* memory files and links see it (fs/proc/base.c): its task_struct, the    *)
(* image (mm_struct) it runs, and the executable each image comes from.    *)
(* exec() replaces the image, and the credentials later; fork() copies it  *)
(* into a child, in steps that another thread of the process may come      *)
(* between; exit() takes it away, and a handler that has pinned an image   *)
(* keeps it.                                                               *)
(*                                                                         *)
(* The counting of executables (set_mm_exe_file(), added_exe_file_vma(),   *)
(* removed_exe_file_vma(), get_mm_exe_file(), dup_mm_exe_file()) is of     *)
(* base.c; who calls it, and mmput(), is the rest of the kernel.           *)
(***************************************************************************)
EXTENDS Integers, FiniteSets

CONSTANTS
    Mms,            \* mm_structs, used again once they are free
    Exes,           \* struct files of executables
    MaxVmas,        \* bound: vmas an executable is mapped with
    SHIFT,          \* MMF_DUMP_FILTER_SHIFT: the flags below are not the filter's
    BITS,           \* MMF_DUMP_FILTER_BITS
    None

ASSUME ImageAssumption ==
    /\ IsFiniteSet(Mms) /\ IsFiniteSet(Exes) /\ None \notin Mms \cup Exes
    /\ MaxVmas \in Nat \ {0} /\ SHIFT \in Nat \ {0} /\ BITS \in Nat \ {0}

VARIABLES
    hashed,         \* the task is found by its struct pid
    usage,          \* the references to its task_struct
    mm,             \* its image, None once exit_mm() is done
    fs,             \* it has a fs_struct
    loading,        \* exec() has installed mm and not yet filled it
    cred,           \* the image whose program its credentials and dumpability are those of
    child,          \* the image of a forked child, or None
    forking,        \* what fork() has still to copy into child: "exe", "vmas" or "no"
    missing,        \* by how many vmas child has fewer than its num_exe_file_vmas says
    raced,          \* history: the task's image lost a vma while it was copied into child
    mem             \* the bookkeeping of all images, see Mem

copying == <<child, forking, missing, raced>>
image == <<mm, fs, loading, cred, copying>>
task == <<hashed, usage, image>>

Flags == 0 .. SHIFT + BITS - 1

\* users: mm_users.  exe_file, vmas (num_exe_file_vmas) and flags of an image,
\* and f_count of an executable.
Mem == [users : [Mms -> Int], exe_file : [Mms -> Exes \cup {None}], vmas : [Mms -> 0 .. MaxVmas],
        flags : [Mms -> SUBSET Flags], f_count : [Exes -> Int]]

ImageTypeOK ==
    /\ hashed \in BOOLEAN /\ fs \in BOOLEAN /\ loading \in BOOLEAN
    /\ usage \in Int
    /\ mm \in Mms \cup {None} /\ cred \in Mms /\ child \in Mms \cup {None}
    /\ forking \in {"no", "exe", "vmas"} /\ missing \in 0 .. MaxVmas /\ raced \in BOOLEAN
    /\ mem \in Mem

-----------------------------------------------------------------------------
(* The bookkeeping: each operator is the bookkeeping after the call.       *)

get_file(b, f) == [b EXCEPT !.f_count[f] = @ + 1]
fput(b, f) == [b EXCEPT !.f_count[f] = @ - 1]

added_exe_file_vma(b, m) == [b EXCEPT !.vmas[m] = @ + 1]

\* Mutant: the file is let go with the first vma, not with the last.
removed_first_vma(b, m) ==
    LET c == [b EXCEPT !.vmas[m] = @ - 1] IN
    IF c.exe_file[m] # None THEN [fput(c, c.exe_file[m]) EXCEPT !.exe_file[m] = None] ELSE c

removed_exe_file_vma(b, m) ==
    LET c == [b EXCEPT !.vmas[m] = @ - 1] IN
    IF c.vmas[m] = 0 /\ c.exe_file[m] # None
      THEN [fput(c, c.exe_file[m]) EXCEPT !.exe_file[m] = None]
      ELSE c

\* The new file is taken before the old one, which may be the same, is put.
set_mm_exe_file(b, m, new) ==
    LET got == IF new = None THEN b ELSE get_file(b, new)
        old == got.exe_file[m]
        put == IF old = None THEN got ELSE fput(got, old)
    IN  [put EXCEPT !.exe_file[m] = new, !.vmas[m] = 0]

\* Mutant: the child's image has the pointer and not the reference.
dup_uncounted(b, old, new) == [b EXCEPT !.exe_file[new] = b.exe_file[old]]

\* get_mm_exe_file() of the old image, for the new one.
dup_mm_exe_file(b, old, new) ==
    LET f == b.exe_file[old] IN
    [(IF f = None THEN b ELSE get_file(b, f)) EXCEPT !.exe_file[new] = f]

get_task_mm(b, m) == [b EXCEPT !.users[m] = @ + 1]

\* exit_mmap(): every vma is removed; the last one is the one that counts.  (An
\* image with a count that is too high keeps the file until set_mm_exe_file()
\* below, which comes to the same.)
exit_mmap(b, m) ==
    IF b.vmas[m] = 0 THEN b ELSE removed_exe_file_vma([b EXCEPT !.vmas[m] = 1], m)

\* mmput(): the last user takes the mappings down, lets go of the file and
\* frees the image.
mmput(b, m) ==
    LET c == [b EXCEPT !.users[m] = @ - 1] IN
    IF c.users[m] = 0
      THEN [set_mm_exe_file(exit_mmap(c, m), m, None) EXCEPT !.flags[m] = {0}]
      ELSE c

Free == {m \in Mms : mem.users[m] = 0}

-----------------------------------------------------------------------------
(* What the process does.  busy are the images whose mmap_sem a handler     *)
(* holds for reading.                                                       *)

\* The vmas of its executable that an image really has.
Mapped(m) == mem.vmas[m] - (IF m = child THEN missing ELSE 0)

\* exec(): the new image has the executable; the old one loses its user.  It
\* needs the other threads gone, one that is inside fork() too.
Exec(m, f) ==
    /\ mm # None /\ ~ loading /\ forking = "no" /\ m \in Free
    /\ mem' = mmput([set_mm_exe_file(mem, m, f) EXCEPT !.users[m] = 1,
                                                       !.flags[m] = mem.flags[mm]], mm)
    /\ mm' = m /\ loading' = TRUE
    /\ UNCHANGED <<hashed, usage, fs, cred, copying>>

\* The loader maps a segment of the executable.
ExecMap(busy) ==
    /\ loading /\ mem.vmas[mm] < MaxVmas /\ mm \notin busy
    /\ mem' = added_exe_file_vma(mem, mm)
    /\ UNCHANGED task

\* The new program's credentials and dumpability, some time after its image.
ExecCreds ==
    /\ loading
    /\ cred' = mm
    /\ UNCHANGED <<hashed, usage, mm, fs, loading, copying, mem>>

\* The task runs the new image with what it was permitted before.
BetweenImageAndCreds == loading /\ cred # mm

\* It has stored arg_end: the image is complete.
ExecDone ==
    /\ loading /\ mem.vmas[mm] > 0 /\ cred = mm
    /\ loading' = FALSE
    /\ UNCHANGED <<hashed, usage, mm, fs, cred, copying, mem>>

\* munmap() of a segment of the executable, by a thread of the task or by its
\* child, which does not run before it has its vmas.
Unmap(m, busy) ==
    /\ m \in {mm, child} \ {None} /\ ~ loading
    /\ m \notin busy /\ Mapped(m) > 0
    /\ mem' = removed_exe_file_vma(mem, m)
    /\ raced' = (raced \/ (m = mm /\ forking # "no"))
    /\ UNCHANGED <<hashed, usage, mm, fs, loading, cred, child, forking, missing>>

\* fork(): the mm_struct is copied as it is, num_exe_file_vmas and the flags with
\* it.  (The pointer to the executable too, which the next step overwrites
\* before anyone has seen it.)
Fork(m) ==
    /\ mm # None /\ ~ loading /\ child = None /\ m \in Free
    /\ child' = m /\ forking' = "exe" /\ missing' = mem.vmas[mm] /\ raced' = FALSE
    /\ mem' = [mem EXCEPT !.users[m] = 1, !.vmas[m] = mem.vmas[mm], !.flags[m] = mem.flags[mm]]
    /\ UNCHANGED <<hashed, usage, mm, fs, loading, cred>>

\* Then the executable is taken for the copy,
ForkExe ==
    /\ forking = "exe"
    /\ forking' = "vmas"
    /\ mem' = dup_mm_exe_file(mem, mm, child)
    /\ UNCHANGED <<hashed, usage, mm, fs, loading, cred, child, missing, raced>>

\* and at last, with mmap_sem, the vmas are copied that are there by now.
ForkVmas(busy) ==
    /\ forking = "vmas" /\ mm \notin busy
    /\ forking' = "no"
    /\ missing' = mem.vmas[child] - Mapped(mm)
    /\ UNCHANGED <<hashed, usage, mm, fs, loading, cred, child, raced, mem>>

\* The child exits, or there is no memory for its vmas.
ChildExit ==
    /\ child # None /\ forking # "exe"
    /\ child' = None /\ forking' = "no" /\ missing' = 0 /\ raced' = FALSE
    /\ mem' = mmput(mem, child)
    /\ UNCHANGED <<hashed, usage, mm, fs, loading, cred>>

\* The last thread: none is inside fork() any more.
exit_mm ==
    /\ mm # None /\ forking = "no"
    /\ mm' = None /\ loading' = FALSE
    /\ mem' = mmput(mem, mm)
    /\ UNCHANGED <<hashed, usage, fs, cred, copying>>

exit_fs ==
    /\ mm = None /\ fs
    /\ fs' = FALSE
    /\ UNCHANGED <<hashed, usage, mm, loading, cred, copying, mem>>

release_task ==
    /\ ~ fs /\ hashed
    /\ hashed' = FALSE
    /\ usage' = usage - 1
    /\ UNCHANGED <<image, mem>>

\* A process that runs an executable mapped with all its vmas.
ImageInit ==
    /\ hashed = TRUE /\ usage = 1 /\ fs = TRUE /\ loading = FALSE
    /\ child = None /\ forking = "no" /\ missing = 0 /\ raced = FALSE
    /\ mm \in Mms /\ cred = mm
    /\ \E f \in Exes :
         mem = [users    |-> [m \in Mms |-> IF m = mm THEN 1 ELSE 0],
                exe_file |-> [m \in Mms |-> IF m = mm THEN f ELSE None],
                vmas     |-> [m \in Mms |-> IF m = mm THEN MaxVmas ELSE 0],
                flags    |-> [m \in Mms |-> {0}],
                f_count  |-> [g \in Exes |-> IF g = f THEN 1 ELSE 0]]

=============================================================================
