----------------------------- MODULE MCRtuPorts -----------------------------
(* TLC instance of RtuPorts: two masters, two result registers.  The two      *)
(* tables give a register to different ports, and one names a port twice; a   *)
(* third is refused.                                                         *)
EXTENDS RtuPorts

CONSTANTS p1, p2, r1, r2

entry(p, d) == [port |-> p, dest |-> d, words |-> d]
table1 == [complete |-> TRUE, entries |-> <<entry(p1, {r1})>>]
table2 == [complete |-> TRUE, entries |-> <<entry(p2, {r1}), entry(p2, {r2})>>]
clash  == [complete |-> TRUE, entries |-> <<entry(p1, {r1, r2}), entry(p2, {r2})>>]

MCConfigs == {table1, table2, clash}

(* For the run about the budget: one port with two entries.                  *)
MCOneTable == {[complete |-> TRUE, entries |-> <<entry(p1, {r1}), entry(p1, {r2})>>]}
=============================================================================
