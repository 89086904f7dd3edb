------------------------------ MODULE MCProcFd ------------------------------
(* An instance of ProcFd for TLC: one listing, two interchangeable lookups. *)
EXTENDS ProcFd, TLC

Symm == Permutations(Lookers)

\* What an idle looker looked up last is never read again.
View ==
    LET busy == {w \in Lookers : pc[w] # "idle"} IN
    <<dir, process, dcache, pc, dent, f_pos, listed, stable, ended,
      [w \in busy |-> <<name[w], wasOpen[w]>>]>>

=============================================================================
