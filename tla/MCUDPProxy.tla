----------------------------- MODULE MCUDPProxy ----------------------------
(* Instances of UDPProxy: two hosts that use the same port, on IPv6.       *)
EXTENDS UDPProxy, FiniteSets

CONSTANTS n1, n2, n3

Addr(l, h, w, p) == [len |-> l, hi |-> h, lo |-> w, port |-> p]

TwoHosts   == {Addr(16, 0, 1, 53), Addr(16, 1, 1, 53)}
TwoConns   == {n1, n2}
ThreeConns == {n1, n2, n3}
=============================================================================
