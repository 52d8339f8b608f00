-------------------------------- MODULE MCTlb --------------------------------
(* Instances of Tlb for model checking: one job per CPU, or all on the first. *)
EXTENDS Tlb

MCHome == [j \in Jobs |-> j]
=============================================================================
