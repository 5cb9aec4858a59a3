SPECIFICATION Spec
CONSTANTS
    t1 = t1
    t2 = t2
    eth = eth
    wifi = wifi
    tcp80 = tcp80
    udp53 = udp53
    Loopback = Loopback
    None = None
    Threads <- OneThread
    Nics <- TwoNics
    Ports <- TwoPorts
    Udp <- UdpPorts
    MaxEvents = 7
    Faults <- StopFails
    MaxFaults = 1
INVARIANTS
    PublishedIsExposed
    NothingElseExposed
    ForwardersAreTracked
    StopLeavesNothing
CHECK_DEADLOCK FALSE
