----------------------------- MODULE MCScheduler -----------------------------
(* Instances of Scheduler for TLC.                                         *)
EXTENDS Scheduler, TLC

Symmetry == Permutations(Task) \cup Permutations(Cort) \cup Permutations(Workers)

=============================================================================
