----------------------------- MODULE MCBleLink -----------------------------
(* Either the controller and the name are disturbed or clients write: what is *)
(* not looked at has used its bounds from the start.                         *)
EXTENDS BleLink

OneHalf == (faults = 0 /\ renames = 0) <=> writes = MaxWrites

MCInit == Init /\ OneHalf /\ (faults = MaxFaults <=> renames = MaxRenames)

MCSpec == MCInit /\ [][Next]_vars /\ Fairness
=============================================================================
