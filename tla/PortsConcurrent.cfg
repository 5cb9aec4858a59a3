SPECIFICATION FairSpec
CONSTANTS
    t1 = t1
    t2 = t2
    eth = eth
    wifi = wifi
    tcp80 = tcp80
    udp53 = udp53
    Loopback = Loopback
    None = None
    Threads <- TwoThreads
    Nics <- OneNic
    Ports <- TwoPorts
    Udp <- UdpPorts
    MaxEvents = 5
    Faults <- AllFaults
    MaxFaults = 1
INVARIANTS
    TypeOK
    DeadEntriesGo
PROPERTIES
    CallsReturn
CHECK_DEADLOCK FALSE
