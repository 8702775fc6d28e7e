---------------------------- MODULE MCRegisters ----------------------------
(* TLC instance of RegisterClients.                                          *)
EXTENDS RegisterClients

MCRequests ==
  {one(r, 1) : r \in {"name", "logic1", "mcast", "user", "range", "control"}}
    \union {one("protect", Magic), one("protect", 0)}
    \union {[port1 |-> 1, port2 |-> 0], [name |-> 2, port2 |-> 1, logic1 |-> 0],
            [mcast |-> 0, logic2 |-> 1], [logic2 |-> 0, protect |-> Magic]}

MCReads == {{"ip", "sn", "logic1", "logic2"}, {"mcast", "logic2"}}

(* The registers and the protocol image share nothing but the restart, and the    *)
(* tag only the holding registers: each is explored with the others at rest,     *)
(* the tag with one handler.                                                *)
OneConcern ==
  /\ ProtoAtRest \/ (calls = 0 /\ NfcAtRest)
  /\ NfcAtRest \/ calls <= 1
=============================================================================
