---------------------------- MODULE MCProcMounts ----------------------------
(* An instance of ProcMounts for TLC: three files of the same process.     *)
EXTENDS ProcMounts
=============================================================================
