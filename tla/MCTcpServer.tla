---------------------------- MODULE MCTcpServer ----------------------------
(* TLC instance of TcpServer: two listeners, two connections at a time, three  *)
(* in all, and a choice of two port sets that share a port.                   *)
EXTENDS TcpServer

MCPortSets == {<<502, 503>>, <<502, 504>>}
=============================================================================
