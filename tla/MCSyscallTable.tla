--------------------------- MODULE MCSyscallTable ---------------------------
(***************************************************************************)
(* Instances of SyscallTable for TLC: home_hack, which replaces two calls  *)
(* and checks them, twice; syscall.c; kmap.                                *)
(***************************************************************************)
EXTENDS SyscallTable, TLC

CONSTANTS home1, home2, spy, kmap, open, chdir

MCCalls == home1 :> <<open, chdir>> @@ home2 :> <<open, chdir>> @@ spy :> <<open>> @@ kmap :> <<open>>
KmapCalls == kmap :> <<open>>
=============================================================================
