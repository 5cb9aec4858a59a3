----------------------------- MODULE MCTCPProxy ----------------------------
(* Instances of TCPProxy.                                                  *)
EXTENDS TCPProxy

CONSTANTS c1, c2

OneConn  == {c1}
TwoConns == {c1, c2}
=============================================================================
