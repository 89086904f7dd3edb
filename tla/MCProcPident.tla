---------------------------- MODULE MCProcPident ----------------------------
(***************************************************************************)
(* An instance of ProcPident for TLC: a build without any option and one   *)
(* with some; two names of the process tables and one that is only   *)
(* in /proc; positions at the start, in the middle, and beyond the width   *)
(* of an int.                                                              *)
(***************************************************************************)
EXTENDS ProcPident, TLC

MCBuilds == {{}, {"NET", "SECURITY", "AUDITSYSCALL", "ELF_CORE"}}
MCSeeks == {0, 30, Wrap - 3, Wrap + 20}
Symm == Permutations(Lookers)
=============================================================================
