---------------------------- MODULE MCCompaction ----------------------------
(* Compaction on a small instance: invocations are alike.                  *)
EXTENDS Compaction, TLC

Symmetry == Permutations(Invocation)
=============================================================================
