-------------------------- MODULE MCFileLogAppender --------------------------
(* Instances of FileLogAppender for TLC.                                   *)
EXTENDS FileLogAppender, TLC

(* Two days of two seconds, then a third.                                  *)
Days == [t \in Time |-> t \div 2]
ThreadSymmetry == Permutations(Thread)

=============================================================================
