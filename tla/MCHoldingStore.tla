--------------------------- MODULE MCHoldingStore ---------------------------
(* TLC instance of HoldingStore: two savers, and three generations, the      *)
(* fewest that can be told apart, so that they wrap after three saves.       *)
EXTENDS HoldingStore

=============================================================================
