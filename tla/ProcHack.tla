------------------------------ MODULE ProcHack ------------------------------
(***************************************************************************)
(* The module proc_hack.c in the kernel of fs/proc/base.c: init_module()   *)
(* puts func_proc_pid_readdir into the hook pointer, cleanup_module()      *)
(* takes it out again, while readers list /proc and call through the       *)
(* pointer.  Neither side takes a lock ("Any lock ?", proc_hack.c:106),    *)
(* and no reference to the module is held during the call.                 *)
(*                                                                         *)
(* Several loaded objects may use the hook the way proc_hack does (the     *)
(* test in cleanup_module() provides for it); Mods are those objects.      *)
(***************************************************************************)
EXTENDS ProcPidReaddir

CONSTANTS
    Mods        \* modules made from proc_hack.c; each is its own hook function

ASSUME ModsAssumption == HookFns = Mods \cup {dummy_in_proc_pid_readdir}
                         /\ dummy_in_proc_pid_readdir \notin Mods

VARIABLES
    mod,        \* where each module is in its life
    original    \* original_in_proc_pid_readdir of each module

modVars == <<mod, original>>
hvars == <<vars, modVars>>

\* unloaded; init_module() running; in use; cleanup_module() running
ModStates == {"out", "marked", "saved", "live", "leaving"}

\* The module's code is in memory.
Resident(m) == mod[m] # "out"

\* The listing's variables, the modules' lives and the saved pointers keep
\* to their types: a saved pointer is always a hook function.
HTypeOK ==
    /\ TypeOK
    /\ mod \in [Mods -> ModStates]
    /\ original \in [Mods -> HookFns]

HInit ==
    /\ Init
    /\ mod = [m \in Mods |-> "out"]
    /\ original = [m \in Mods |-> dummy_in_proc_pid_readdir]

-----------------------------------------------------------------------------
(* init_module() and cleanup_module().                                     *)

\* mark_process() comes first (module MarkProcess); the hook is untouched.
InitMark(m) ==
    /\ mod[m] = "out"
    /\ mod' = [mod EXCEPT ![m] = "marked"]
    /\ UNCHANGED <<vars, original>>

\* Mutant: the hook is installed before the original is saved.
InitSaveTooLate(m) ==
    /\ mod[m] = "marked"
    /\ mod' = [mod EXCEPT ![m] = "saved"]
    /\ original' = [original EXCEPT ![m] = m]
    /\ UNCHANGED <<vars>>

InitSave(m) ==
    /\ mod[m] = "marked"
    /\ mod' = [mod EXCEPT ![m] = "saved"]
    /\ original' = [original EXCEPT ![m] = hook]
    /\ UNCHANGED <<vars>>

InitSet(m) ==
    /\ mod[m] = "saved"
    /\ mod' = [mod EXCEPT ![m] = "live"]
    /\ hook' = m
    /\ UNCHANGED <<pidmap, readerVars, stable, original>>

\* The pointer is restored if it is still this module's.
Cleanup(m) ==
    /\ mod[m] = "live"
    /\ mod' = [mod EXCEPT ![m] = "leaving"]
    /\ hook' = IF hook = m THEN original[m] ELSE hook
    /\ UNCHANGED <<pidmap, readerVars, stable, original>>

\* delete_module() frees the module's memory.
Unload(m) ==
    /\ mod[m] = "leaving"
    /\ mod' = [mod EXCEPT ![m] = "out"]
    /\ UNCHANGED <<vars, original>>

-----------------------------------------------------------------------------
(***************************************************************************)
(* func_proc_pid_readdir(iter) only looks at a task and answers 0 or 1.    *)
(* The caller passes no argument, so what iter points to is whatever a     *)
(* register or the stack happens to hold, and ignores the answer: the      *)
(* entry is filled in even if the hook has logged "skipped!" for it.       *)
(***************************************************************************)
HookCall(r) ==
    /\ HookReturns(r)
    /\ UNCHANGED modVars

\* Every other step of the listing.
Listing ==
    /\ \/ Environment
       \/ \E r \in Readers :
            \/ Open(r) \/ ReaddirStart(r) \/ Close(r)
            \/ BaseEntry(r) \/ BaseDone(r)
            \/ SkipNumber(r) \/ FoundTgid(r) \/ NoMoreTgid(r)
            \/ FetchHook(r) \/ Fill(r)
    /\ UNCHANGED modVars

ModStep ==
    \E m \in Mods :
        InitMark(m) \/ InitSave(m) \/ InitSet(m) \/ Cleanup(m) \/ Unload(m)

HNext ==
    \/ Listing
    \/ ModStep
    \/ \E r \in Readers : HookCall(r)

HSpec == HInit /\ [][HNext]_hvars
FairHSpec == HSpec /\ Fairness

-----------------------------------------------------------------------------
\* The hook pointer never leads into a module that has been unloaded, over
\* any number of loads and unloads of one proc_hack with readers running.
\* (With two users of the hook this needs last-in first-out unloading.)
HookLive == hook \in Mods => Resident(hook)

\* What keeps HookLive: the one module that uses the hook has it exactly
\* while it is live, and what it saved is the kernel's own function.
OwnerOnly ==
    \A m \in Mods :
        /\ hook = (IF mod[m] = "live" THEN m ELSE dummy_in_proc_pid_readdir)
        /\ mod[m] \in {"saved", "live"} => original[m] = dummy_in_proc_pid_readdir

(***************************************************************************)
(* Several users of the hook, taken in turn.  No other module is inside    *)
(* init_module() when one starts it or is cleaned up, and a module is only *)
(* cleaned up while the hook is its own: the last one in goes first, and   *)
(* cleanup_module() never gets to its warning (proc_hack.c:107).           *)
(***************************************************************************)
NoneSaved == \A n \in Mods : mod[n] # "saved"

InTurn ==
    \A m \in Mods :
        /\ InitSave(m) => NoneSaved
        /\ Cleanup(m) => NoneSaved /\ hook = m

Live == {m \in Mods : mod[m] = "live"}

\* What taking turns keeps: from the hook, the saved pointers lead from one
\* live module to the next, each to another one, and to the dummy in the end.
Chain ==
    /\ hook \in Live \cup {dummy_in_proc_pid_readdir}
    /\ \A m \in Live : original[m] \in Live \cup {dummy_in_proc_pid_readdir}
    /\ \A m \in Live : original[m] # hook
    /\ \A m, n \in Live : m # n => original[m] # original[n]
    /\ \A m \in Mods : mod[m] = "saved" => original[m] = hook
    /\ \A m, n \in Mods : mod[m] = "saved" /\ mod[n] = "saved" => m = n
=============================================================================
