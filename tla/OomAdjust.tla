----------------------------- MODULE OomAdjust ------------------------------
(***************************************************************************)
(* /proc/PID/oom_adj (oom_adjust_write() of fs/proc/base.c): the handler   *)
(* compares the new value with task->oomkilladj, asks for CAP_SYS_RESOURCE *)
(* when it is lower, and stores it afterwards.  No lock is held between    *)
(* the comparison and the store, and the handler runs on behalf of any     *)
(* number of writers at once.                                              *)
(***************************************************************************)
EXTENDS Integers, FiniteSets

CONSTANTS
    Writers,
    Privileged,         \* those with CAP_SYS_RESOURCE
    Numbers,            \* the numbers a buffer can spell
    Wrap,               \* 2^w for an int of w bits
    OOM_DISABLE, OOM_ADJUST_MIN, OOM_ADJUST_MAX     \* of linux/oom.h

ASSUME WriterAssumption == Privileged \subseteq Writers /\ IsFiniteSet(Writers)
ASSUME NumberAssumption == Numbers \subseteq Int /\ Wrap \in Nat \ {0}
ASSUME OomAssumption ==
    /\ OOM_DISABLE \in Int /\ OOM_ADJUST_MIN \in Int /\ OOM_ADJUST_MAX \in Int
    /\ 0 \in OOM_ADJUST_MIN .. OOM_ADJUST_MAX

VARIABLES
    alive,          \* the task still has its struct pid
    usage,          \* the references to its task_struct
    oomkilladj,     \* of the task
    wpc,            \* where each writer is
    oom_adjust,     \* the number it has parsed
    empty,          \* its buffer held no number: end = buffer
    ret,            \* what its last write returned
    lowest          \* history: the lowest value that was the task's own or was
                    \* written with the capability

locals == <<wpc, oom_adjust, empty, ret>>
oomVars == <<alive, usage, oomkilladj, locals, lowest>>

Returns == {"none", "EFAULT", "EINVAL", "ESRCH", "EACCES", "EIO", "length"}

\* The values the handler lets through.
Allowed == (OOM_ADJUST_MIN .. OOM_ADJUST_MAX) \cup {OOM_DISABLE}

\* The task's value, and every value on its way there, is one of the allowed
\* ones, after the conversion to int too.
OomTypeOK ==
    /\ alive \in BOOLEAN
    /\ usage \in Int
    /\ oomkilladj \in Allowed
    /\ wpc \in [Writers -> {"idle", "get", "check", "set"}]
    /\ oom_adjust \in [Writers -> Allowed]
    /\ empty \in [Writers -> BOOLEAN]
    /\ ret \in [Writers -> Returns]
    /\ lowest \in Allowed

OomInit ==
    /\ alive = TRUE
    /\ usage = 1
    /\ oomkilladj \in Allowed
    /\ wpc = [w \in Writers |-> "idle"]
    /\ oom_adjust = [w \in Writers |-> 0]
    /\ empty = [w \in Writers |-> FALSE]
    /\ ret = [w \in Writers |-> "none"]
    /\ lowest = oomkilladj

-----------------------------------------------------------------------------

\* release_task(): the struct pid lets go of the task, which stays until
\* its last reference is put.
Release ==
    /\ alive
    /\ alive' = FALSE
    /\ usage' = usage - 1
    /\ UNCHANGED <<oomkilladj, locals, lowest>>

WriterAt(w, at) == wpc' = [wpc EXCEPT ![w] = at]

\* The handler returns; its locals are gone.
Return(w, value) ==
    /\ WriterAt(w, "idle")
    /\ ret' = [ret EXCEPT ![w] = value]
    /\ oom_adjust' = [oom_adjust EXCEPT ![w] = 0]
    /\ empty' = [empty EXCEPT ![w] = FALSE]

\* The int that the long n of simple_strtol() is assigned to.
ToInt(n) ==
    LET bits == n % Wrap IN IF bits < Wrap - bits THEN bits ELSE bits - Wrap

\* Mutant: only the upper bound is checked.
InRangeAbove(n) == ToInt(n) <= OOM_ADJUST_MAX

InRange(n) == ToInt(n) \in Allowed

\* copy_from_user() and simple_strtol(), which makes 0 of no number at all.
Parse(w, n, nothing) ==
    /\ wpc[w] = "idle"
    /\ nothing => n = 0
    /\ IF InRange(n)
         THEN /\ oom_adjust' = [oom_adjust EXCEPT ![w] = ToInt(n)]
              /\ empty' = [empty EXCEPT ![w] = nothing]
              /\ WriterAt(w, "get")
              /\ ret' = [ret EXCEPT ![w] = "none"]
         ELSE Return(w, "EINVAL")
    /\ UNCHANGED <<alive, usage, oomkilladj, lowest>>

CopyFault(w) ==
    /\ wpc[w] = "idle"
    /\ Return(w, "EFAULT")
    /\ UNCHANGED <<alive, usage, oomkilladj, lowest>>

\* get_proc_task()
GetTask(w) ==
    /\ wpc[w] = "get"
    /\ \/ alive /\ usage' = usage + 1 /\ WriterAt(w, "check")
          /\ UNCHANGED <<oom_adjust, empty, ret>>
       \/ ~ alive /\ Return(w, "ESRCH") /\ UNCHANGED usage
    /\ UNCHANGED <<alive, oomkilladj, lowest>>

capable(w) == w \in Privileged

\* Mutant: the capability is only wanted for OOM_DISABLE.
RefusedDisable(w) ==
    oom_adjust[w] < oomkilladj /\ oom_adjust[w] = OOM_DISABLE /\ ~ capable(w)

Refused(w) == oom_adjust[w] < oomkilladj /\ ~ capable(w)

\* Mutant: -EACCES without put_task_struct().
CheckLeaks(w) ==
    /\ wpc[w] = "check"
    /\ \/ Refused(w) /\ Return(w, "EACCES")
       \/ ~ Refused(w) /\ WriterAt(w, "set") /\ UNCHANGED <<oom_adjust, empty, ret>>
    /\ UNCHANGED <<usage, alive, oomkilladj, lowest>>

\* The comparison with the value of now.
Check(w) ==
    /\ wpc[w] = "check"
    /\ \/ Refused(w) /\ Return(w, "EACCES") /\ usage' = usage - 1
       \/ ~ Refused(w) /\ WriterAt(w, "set") /\ UNCHANGED <<oom_adjust, empty, ret, usage>>
    /\ UNCHANGED <<alive, oomkilladj, lowest>>

\* The store.  A buffer without a number has stored 0 when it gets -EIO.
Store(w) ==
    /\ wpc[w] = "set"
    /\ oomkilladj' = oom_adjust[w]
    /\ usage' = usage - 1
    /\ Return(w, IF empty[w] THEN "EIO" ELSE "length")
    /\ lowest' = IF capable(w) /\ oom_adjust[w] < lowest THEN oom_adjust[w] ELSE lowest
    /\ UNCHANGED alive

Write(w) ==
    \/ \E n \in Numbers \cup {0}, nothing \in BOOLEAN : Parse(w, n, nothing)
    \/ CopyFault(w) \/ GetTask(w) \/ Check(w) \/ Store(w)

OomNext == Release \/ \E w \in Writers : Write(w)

OomSpec == OomInit /\ [][OomNext]_oomVars

-----------------------------------------------------------------------------

\* Whatever the writers do at once, oom_adj is never below what the task had
\* or a privileged writer has asked for.  (A single unprivileged writer may
\* lower the value, when it is raised between its comparison and its store.)
NeverBelowAuthorised == oomkilladj >= lowest

\* The task_struct outlives every writer that uses it, and none of the exits
\* of the handler keeps it: the references are the writers past
\* get_proc_task() and the struct pid's own.
TaskCounted ==
    usage = Cardinality({w \in Writers : wpc[w] \in {"check", "set"}})
            + (IF alive THEN 1 ELSE 0)

\* The inductive invariant: an unprivileged writer past the comparison brings
\* a value that is not below the lowest authorised one either.
PendingAuthorised ==
    \A w \in Writers \ Privileged : wpc[w] = "set" => oom_adjust[w] >= lowest

OomInv == OomTypeOK /\ NeverBelowAuthorised /\ PendingAuthorised

=============================================================================
