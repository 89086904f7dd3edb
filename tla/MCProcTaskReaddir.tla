------------------------- MODULE MCProcTaskReaddir -------------------------
(* An instance of ProcTaskReaddir for TLC: the leader's threads are alike, *)
(* and so are the numbers.                                                 *)
EXTENDS ProcTaskReaddir, TLC

Symm == Permutations(Threads \ {leader}) \cup Permutations(Tids)
=============================================================================
