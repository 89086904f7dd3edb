----------------------------- MODULE MCProcHack -----------------------------
(* An instance of ProcHack for TLC: one module and one reader.             *)
EXTENDS ProcHack

=============================================================================
