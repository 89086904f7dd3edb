--------------------------- MODULE MCMarkProcess ---------------------------
(* Instances of MarkProcess for TLC.                                       *)
EXTENDS MarkProcess

SomeParamPids == {-1, 1, 2}
=============================================================================
