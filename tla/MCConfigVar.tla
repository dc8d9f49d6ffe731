----------------------------- MODULE MCConfigVar -----------------------------
(* Instances of ConfigVar for TLC.                                         *)
EXTENDS ConfigVar, TLC

ListenerSymmetry == Permutations(Listener)

=============================================================================
