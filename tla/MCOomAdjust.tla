---------------------------- MODULE MCOomAdjust -----------------------------
(* An instance of OomAdjust for TLC: one writer with the capability, two without. *)
EXTENDS OomAdjust, TLC

\* The limits, drawn together: an int has 4 bits here, so that 15 is -1.
MCDisable == -2
MCMin == -1
MCNumbers == {-3, -2, 0, 1, 3, 15}

Symm == Permutations(Writers \ Privileged)

=============================================================================
