------------------------------ MODULE MCProcMm ------------------------------
(* An instance of ProcMm for TLC: each pair of files that two readers have open. *)
EXTENDS ProcMm, TLC

CONSTANTS m1, m2, r1, r2

Pair(a, b, c) == [file |-> r1 :> a @@ r2 :> b, self |-> c]

MCPlans ==
    {Pair("mem", "maps", {r2}), Pair("mem", "fs", {r1}), Pair("environ", "maps", {r2}),
     Pair("cmdline", "maps", {}), Pair("filter_write", "filter_write", {r1}),
     Pair("auxv", "maps", {r2}), Pair("attr_read", "maps", {}),
     Pair("filter_read", "exe", {r2}), Pair("attr_write", "exe", {})}

MCArgLen == m1 :> 1 @@ m2 :> 3
MCEnvLen == m1 :> 3 @@ m2 :> 1

=============================================================================
