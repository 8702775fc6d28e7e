------------------------------- MODULE MCRcu -------------------------------
(* TLC instance of Rcu: tasks and addresses are symmetric model values.     *)
EXTENDS Rcu, TLC

Symmetry == Permutations(Threads) \union Permutations(Snapshots)

=============================================================================
