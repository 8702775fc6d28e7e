--------------------------- MODULE MCControlLogic ---------------------------
(* TLC instance of ControlLogic: two logics that share an output; the second  *)
(* version of the table delays the pulse and moves it to the other output.   *)
EXTENDS ControlLogic

CONSTANTS a, b, q1, q2

MCTables ==
  LET plan(scope, delay, pulse) == [scope |-> scope, delay |-> delay, pulse |-> pulse]
      later(l) == IF l = a THEN plan({q2}, 1, 1) ELSE plan({q1, q2}, 0, 0)
      first(l) == IF l = a THEN plan({q1}, 0, 1) ELSE plan({q1, q2}, 1, 0)
  IN <<[l \in Logics |-> first(l)], [l \in Logics |-> later(l)]>>

(* For the run about pulses: no change of the configuration.                 *)
MCOneTable == <<MCTables[2]>>

=============================================================================
