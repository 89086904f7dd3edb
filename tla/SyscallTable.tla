---------------------------- MODULE SyscallTable ----------------------------
(***************************************************************************)
(* sys_call_table and the modules that replace entries of it: home_hack.c  *)
(* (seven calls, each checked after it is written), syscall.c and kmap.c   *)
(* (open only).  Each keeps what it found in original_sys_CALL and puts it *)
(* back on unload if the entry is still its own.                           *)
(*                                                                         *)
(* A load or an unload is not atomic, and the kernel runs init and cleanup *)
(* functions of different modules side by side.  A module that is loaded   *)
(* again is another member of Mods.                                        *)
(***************************************************************************)
EXTENDS Integers, Sequences

CONSTANTS
    Calls,      \* system calls
    Mods,       \* one for every load of a module
    calls,      \* calls[m]: the calls m replaces, in order
    Checks,     \* modules that look at the entry after writing it: home_hack
    ByName,     \* modules that look the table up by its name: kmap
    Kernel      \* the kernel's own function

ASSUME CallsAssumption ==
    \A m \in Mods : /\ calls[m] \in Seq(Calls) /\ calls[m] # << >>
                    /\ \A i, j \in DOMAIN calls[m] : calls[m][i] = calls[m][j] => i = j
ASSUME KindAssumption == Checks \subseteq Mods /\ ByName \subseteq Mods /\ Kernel \notin Mods

VARIABLES
    table,      \* sys_call_table: for each call the kernel's or a module's function
    sym,        \* the module's sys_call_table: whether it is the table or NULL
    open_addr,  \* what the address it writes to was computed from
    original,   \* original_sys_CALL of each module
    at,         \* where each module's init or cleanup is
    k,          \* the call it is at
    warned,     \* history: "Somebody else also played with the system call"
    mixed       \* history: a load or unload began before the last had ended

vars == <<table, sym, open_addr, original, at, k, warned, mixed>>

Fns == Mods \cup {Kernel}
Stages == {"new", "lookup", "save", "set", "check", "live", "restore", "putback", "gone"}

\* Table entries and saved pointers are always functions; a module's loop
\* stays within its list of calls.
TypeOK ==
    /\ table \in [Calls -> Fns]
    /\ sym \in [Mods -> {"table", "NULL"}] /\ open_addr \in [Mods -> {"table", "NULL"}]
    /\ original \in [Mods -> [Calls -> Fns]]
    /\ at \in [Mods -> Stages]
    /\ k \in [Mods -> Nat]
    /\ \A m \in Mods : at[m] \in {"save", "set", "check", "restore", "putback"} =>
         k[m] \in DOMAIN calls[m]
    /\ warned \in BOOLEAN /\ mixed \in BOOLEAN

Init ==
    /\ table = [c \in Calls |-> Kernel]
    /\ sym = [m \in Mods |-> IF m \in ByName THEN "NULL" ELSE "table"]
    /\ open_addr = sym
    /\ original = [m \in Mods |-> [c \in Calls |-> Kernel]]
    /\ at = [m \in Mods |-> "new"]
    /\ k = [m \in Mods |-> 1]
    /\ warned = FALSE /\ mixed = FALSE

Call(m) == calls[m][k[m]]

\* No insmod or rmmod is under way.
Quiet == \A m \in Mods : at[m] \in {"new", "live", "gone"}

-----------------------------------------------------------------------------
(* init_module().                                                          *)

\* kmap.c computes open_addr from its sys_call_table first thing ...
Insmod(m) ==
    /\ at[m] = "new"
    /\ mixed' = (mixed \/ ~ Quiet)
    /\ open_addr' = [open_addr EXCEPT ![m] = sym[m]]
    /\ at' = [at EXCEPT ![m] = IF m \in ByName THEN "lookup" ELSE "save"]
    /\ UNCHANGED <<table, sym, original, k, warned>>

\* ... and sets sys_call_table afterwards.  If the name is not found it
\* returns 1, which is no error code: the module stays, without its hook.
Lookup(m) ==
    /\ at[m] = "lookup"
    /\ \/ /\ sym' = [sym EXCEPT ![m] = "table"]
          /\ at' = [at EXCEPT ![m] = "save"]
       \/ /\ at' = [at EXCEPT ![m] = "live"]
          /\ UNCHANGED sym
    /\ UNCHANGED <<table, open_addr, original, k, warned, mixed>>

\* Mutant: the entry is saved after it was replaced.
SavedLate(m) ==
    /\ at[m] = "save"
    /\ original' = [original EXCEPT ![m][Call(m)] = m]
    /\ at' = [at EXCEPT ![m] = "set"]
    /\ UNCHANGED <<table, sym, open_addr, k, warned, mixed>>

Save(m) ==
    /\ at[m] = "save"
    /\ original' = [original EXCEPT ![m][Call(m)] = table[Call(m)]]
    /\ at' = [at EXCEPT ![m] = "set"]
    /\ UNCHANGED <<table, sym, open_addr, k, warned, mixed>>

LastCall(m) == k[m] = Len(calls[m])

\* On to the next call, or the end of the loop.
Advance(m, next, end) ==
    IF LastCall(m)
    THEN at' = [at EXCEPT ![m] = end] /\ k' = [k EXCEPT ![m] = 1]
    ELSE at' = [at EXCEPT ![m] = next] /\ k' = [k EXCEPT ![m] = @ + 1]

\* The write goes to the table only if its address was computed from it.
Set(m) ==
    /\ at[m] = "set"
    /\ table' = IF open_addr[m] = "table" THEN [table EXCEPT ![Call(m)] = m] ELSE table
    /\ IF m \in Checks
       THEN at' = [at EXCEPT ![m] = "check"] /\ UNCHANGED k
       ELSE Advance(m, "save", "live")
    /\ UNCHANGED <<sym, open_addr, original, warned, mixed>>

\* home_hack looks at the entry again.  If it is another's, init_module()
\* returns -1 and the module is thrown out; the calls replaced so far stay
\* as they are.
Check(m) ==
    /\ at[m] = "check"
    /\ \/ table[Call(m)] = m /\ Advance(m, "save", "live")
       \/ /\ table[Call(m)] # m
          /\ at' = [at EXCEPT ![m] = "gone"] /\ UNCHANGED k
    /\ UNCHANGED <<table, sym, open_addr, original, warned, mixed>>

-----------------------------------------------------------------------------
(* cleanup_module().                                                       *)

Rmmod(m) ==
    /\ at[m] = "live"
    /\ mixed' = (mixed \/ ~ Quiet)
    /\ at' = [at EXCEPT ![m] = "restore"]
    /\ UNCHANGED <<table, sym, open_addr, original, k, warned>>

\* Mutant: nobody looks whose entry it is.
RestoreAnyway(m) ==
    /\ at[m] = "restore"
    /\ at' = [at EXCEPT ![m] = "putback"]
    /\ UNCHANGED <<table, sym, open_addr, original, k, warned, mixed>>

\* Is the entry still the module's own?  If not there is a warning (a kmap
\* without a table looks at some other memory) ...
Restore(m) ==
    /\ at[m] = "restore"
    /\ \/ /\ sym[m] = "table" /\ table[Call(m)] = m
          /\ at' = [at EXCEPT ![m] = "putback"]
          /\ UNCHANGED <<k, warned>>
       \/ /\ ~ (sym[m] = "table" /\ table[Call(m)] = m)
          /\ warned' = TRUE
          /\ Advance(m, "restore", "gone")
    /\ UNCHANGED <<table, sym, open_addr, original, mixed>>

\* ... and if it is, it is put back, whoever has written it since.
PutBack(m) ==
    /\ at[m] = "putback"
    /\ table' = [table EXCEPT ![Call(m)] = original[m][Call(m)]]
    /\ Advance(m, "restore", "gone")
    /\ UNCHANGED <<sym, open_addr, original, warned, mixed>>

Next ==
    \E m \in Mods :
        \/ Insmod(m) \/ Lookup(m) \/ Save(m) \/ Set(m) \/ Check(m)
        \/ Rmmod(m) \/ Restore(m) \/ PutBack(m)

Spec == Init /\ [][Next]_vars

-----------------------------------------------------------------------------
\* A replaced call ends with "Call the original": the function after f for c.
After(c, f) == IF f = Kernel THEN Kernel ELSE original[f][c]

\* However loads and unloads overlap, fail half-way or come out of order, no
\* originals close into a loop: among any modules there is one whose wrapper
\* goes on to a function outside.  As long as their code is there, the wrappers
\* a call of c runs into end at the kernel's own function; that the code is
\* there is what UnstableOnlyIfWarned is about.
NoLoop ==
    \A c \in Calls : \A S \in SUBSET Mods : S # {} => \E m \in S : After(c, m) \notin S

\* All that a call of c runs through lies in F.
RunsWithin(c, F) == table[c] \in F /\ \A f \in F : After(c, f) \in F

\* The functions whose code is in memory.
Present == {Kernel} \cup {m \in Mods : at[m] # "gone"}

\* When loads and unloads are not mixed, a call leads into the code of an
\* unloaded module only if some unload has warned that "the system may be
\* left in an unstable state".
UnstableOnlyIfWarned ==
    mixed \/ warned \/ \A c \in Calls : \E F \in SUBSET Present : RunsWithin(c, F)

\* A kmap that is loaded and has found the table has overridden
\* sys_call_table[__NR_open] (kmap/README:1): the entry is not the kernel's.
KmapOverrides ==
    \A m \in ByName : at[m] = "live" /\ sym[m] = "table" =>
        \A j \in DOMAIN calls[m] : table[calls[m][j]] # Kernel

-----------------------------------------------------------------------------
(* The invariant of the proofs.                                            *)

Busy == {m \in Mods : at[m] \notin {"new", "live", "gone"}}

\* The places of its list that m has still to come to.
Ahead(m) ==
    {j \in DOMAIN calls[m] : \/ at[m] \in {"new", "lookup", "save", "set"} /\ j >= k[m]
                             \/ at[m] = "check" /\ j > k[m]}

\* Until a module comes to a call, nobody has its wrapper of it.
Unset ==
    \A m \in Mods : \A j \in Ahead(m) :
        /\ table[calls[m][j]] # m
        /\ \A u \in Mods : original[u][calls[m][j]] # m

\* kmap, and no other, writes elsewhere than to the table.
Addresses ==
    \A m \in Mods :
        /\ at[m] = "new" => (sym[m] = "NULL" <=> m \in ByName)
        /\ at[m] = "lookup" => m \in ByName
        /\ at[m] \in {"new", "lookup", "live"} => k[m] = 1
        /\ open_addr[m] = "NULL" <=> m \in ByName

\* m has put its wrapper of c into the table and not yet taken it back.
Holds(m, c) ==
    \E j \in DOMAIN calls[m] :
        /\ calls[m][j] = c
        /\ \/ at[m] \in {"save", "set"} /\ j < k[m]
           \/ at[m] = "check" /\ j <= k[m]
           \/ at[m] = "live"
           \/ at[m] \in {"restore", "putback"} /\ j >= k[m]

Holders(c) == {m \in Mods \ ByName : Holds(m, c)}

\* Each holder is reached in one way, from the table or from one other holder.
Stacked(c) ==
    /\ table[c] \in Holders(c) \cup {Kernel}
    /\ \A m \in Holders(c) : /\ original[m][c] \in Holders(c) \cup {Kernel}
                             /\ original[m][c] = table[c] => table[c] = Kernel
    /\ \A m, u \in Holders(c) : original[m][c] = original[u][c] /\ m # u => original[m][c] = Kernel

\* One load or unload at a time, and nothing comes between its steps.
InTurn ==
    /\ \A m, u \in Busy : m = u
    /\ \A m \in Mods : at[m] = "set" => original[m][Call(m)] = table[Call(m)]
    /\ \A m \in Mods \ ByName : at[m] = "check" => table[Call(m)] = m
    /\ \A m \in Mods : at[m] = "putback" => table[Call(m)] = m

IInv ==
    /\ TypeOK /\ Addresses /\ Unset /\ NoLoop
    /\ mixed \/ InTurn
    /\ mixed \/ warned \/ \A c \in Calls : Stacked(c)
=============================================================================
