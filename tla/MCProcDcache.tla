---------------------------- MODULE MCProcDcache ----------------------------
(* Instances of ProcDcache for TLC.                                        *)
EXTENDS ProcDcache, TLC

Symm == Permutations(Walkers) \cup Permutations(Pids)
=============================================================================
