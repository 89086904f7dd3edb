-------------------------- MODULE MCProcFlushTask --------------------------
(***************************************************************************)
(* An instance of ProcFlushTask for TLC: a process with a second thread in *)
(* a child namespace (numbers 11 and 12 outside, 1 and 2 inside), and a    *)
(* process of the parent namespace whose number there is also 2.           *)
(***************************************************************************)
EXTENDS ProcFlushTask, TLC

CONSTANTS main, thread, other

MCLevel == main :> 1 @@ thread :> 1 @@ other :> 0
MCNumbers == main :> (0 :> 11 @@ 1 :> 1) @@ thread :> (0 :> 12 @@ 1 :> 2) @@ other :> (0 :> 2)
MCLeader == main :> main @@ thread :> main @@ other :> other
=============================================================================
