-------------------------- MODULE MCPortForwarding --------------------------
(* Model values and failure sets for the runs of PortForwarding: one tcp   *)
(* and one udp port.                                                       *)
EXTENDS PortForwarding

CONSTANTS t1, t2, eth, wifi, tcp80, udp53

OneThread  == {t1}
TwoThreads == {t1, t2}
OneNic     == {eth}
TwoNics    == {eth, wifi}
TwoPorts   == {tcp80, udp53}
UdpPorts   == {udp53}

StopFails == {"stop"}
AllFaults == {"stop", "lost", "address", "bind", "crash"}
=============================================================================
