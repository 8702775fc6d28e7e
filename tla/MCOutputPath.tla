---------------------------- MODULE MCOutputPath ----------------------------
(* TLC instance of OutputPath: two writers, two expanders, a queue of two.   *)
EXTENDS OutputPath, TLC

Symmetry == Permutations(Writers)

=============================================================================
