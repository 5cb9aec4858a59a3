--------------------------- MODULE PortForwarding ---------------------------
(* How the engine exposes the published ports of containers: the listener  *)
(* that handles the messages of the docker-proxy shims (ForwardPort), the  *)
(* menu that selects network interfaces (TogglePortForwardInterface), and  *)
(* the first steps of Stop (StopPortForwarding).  The three run on threads *)
(* of their own over the unsynchronised _ports and _portForwarders, and    *)
(* each forwarder started is waited for during one second.                 *)
(*                                                                         *)
(* A forwarder is a process that listens on one port of one interface's    *)
(* IPv4 address.  Listening is exclusive, so at most one lives per key, and *)
(* an entry of _portForwarders is "live" when its process is that one,     *)
(* "dead" when the engine has stopped it and "exited" when it ended by     *)
(* itself: the code sees HasExited in both.                                *)
EXTENDS Integers, Sequences

CONSTANTS
    Threads,     \* thread-pool threads
    Nics,        \* network interfaces the menu offers
    Loopback,    \* the loopback interface, which it does not
    Ports,       \* port and protocol of a docker-proxy
    Udp,         \* those with -proto udp
    None,        \* no interface, no port
    MaxEvents,   \* bound: what containers, the user and the engine do in a behaviour
    Faults,      \* kinds of failure the environment may inject
    MaxFaults    \* bound: failures injected in a behaviour

ASSUME PortAssumption ==
    /\ Loopback \notin Nics /\ Udp \subseteq Ports
    /\ None \notin Nics \cup {Loopback} /\ None \notin Ports
    /\ MaxEvents \in Nat /\ MaxFaults \in Nat

VARIABLES
    distro,          \* the docker distribution runs: its containers and the nc listener
    running,         \* the engine has started and no Stop has begun
    dnsConfigurator, \* _dnsConfigurator is not null
    published,       \* ports with a docker-proxy
    socket,          \* messages of the shims that ForwardPort has not yet been called for
    ports,           \* _ports
    portForwarders,  \* _portForwarders: "none", or an entry, "live", "dead" or "exited"
    forwarders,      \* keys with a live forwarder process
    interfaces,      \* Configuration.PortForwardInterfaces
    forwarded,       \* menu items whose Forwarded is checked
    pc, job,         \* location of each thread, and what its call keeps on its stack
    events, faultsLeft

external == <<distro, running, dnsConfigurator, published, socket>>
table    == <<portForwarders, forwarders>>
choice   == <<interfaces, forwarded>>
vars     == <<external, ports, table, choice, pc, job, events, faultsLeft>>

-----------------------------------------------------------------------------
Keys == (Nics \cup {Loopback}) \X Ports
PCs  == {"idle", "begin", "nics", "enter", "next", "look", "remove", "start", "add",
         "config", "kill", "clear", "terminate"}

\* kind: what the thread runs.  seen: what the enumerator of its foreach has passed,
\* stale: the collection has changed under it.  alive: the process started has not
\* exited.  current: its ForwardPort was called by the listener of the last Start.
NoJob == [kind |-> "none", nic |-> None, port |-> None, enabled |-> FALSE, seen |-> {},
          stale |-> FALSE, alive |-> FALSE, current |-> FALSE]

\* A foreach goes on to an interface, or to a port.
OnNic(j, n)  == [j EXCEPT !.nic = n, !.seen = @ \cup {n}]
OnPort(j, p) == [j EXCEPT !.port = p, !.seen = @ \cup {p}]

Key(t) == <<job[t].nic, job[t].port>>

Goto(t, l) == pc' = [pc EXCEPT ![t] = l]
Return(t)  == Goto(t, "idle") /\ job' = [job EXCEPT ![t] = NoJob]

\* The next round of the foreach whose body the thread has finished.
NextRound(t) == Goto(t, IF job[t].kind = "toggle" THEN "next" ELSE "nics")

Fault(f) == f \in Faults /\ faultsLeft > 0 /\ faultsLeft' = faultsLeft - 1
NoFault  == faultsLeft' = faultsLeft
Event    == events < MaxEvents /\ events' = events + 1

Init ==
    /\ distro = FALSE /\ running = FALSE /\ dnsConfigurator = FALSE
    /\ published = {} /\ socket = <<>> /\ ports = {}
    /\ portForwarders = [k \in Keys |-> "none"] /\ forwarders = {}
    /\ interfaces \in SUBSET Nics /\ forwarded = interfaces
    /\ pc = [t \in Threads |-> "idle"] /\ job = [t \in Threads |-> NoJob]
    /\ events = 0 /\ faultsLeft = MaxFaults

-----------------------------------------------------------------------------
(* Containers.  The shim reports a port before its docker-proxy listens,   *)
(* and again when docker interrupts it; terminating the distribution kills *)
(* it without a word.  A message is lost when nc is between two rounds of  *)
(* the listener's loop.                                                    *)

Send(open, p) ==
    \/ NoFault /\ socket' = Append(socket, [open |-> open, port |-> p])
    \/ Fault("lost") /\ UNCHANGED socket

Publish(p) ==
    /\ distro /\ p \notin published /\ Event
    /\ published' = published \cup {p} /\ Send(TRUE, p)
    /\ UNCHANGED <<distro, running, dnsConfigurator, ports, table, choice, pc, job>>

Unpublish(p) ==
    /\ p \in published /\ Event
    /\ published' = published \ {p} /\ Send(FALSE, p)
    /\ UNCHANGED <<distro, running, dnsConfigurator, ports, table, choice, pc, job>>

-----------------------------------------------------------------------------
(* ForwardPort, on the callback thread of the listener                     *)

\* A change of _ports makes the enumerators over it stale.
Stale(jobs) == [u \in Threads |->
    IF jobs[u].kind = "toggle" THEN [jobs[u] EXCEPT !.stale = TRUE] ELSE jobs[u]]

\* Its nics are those of the configuration when each is reached; none at all are
\* looked at when the configuration has none now.
ForwardJob(m) ==
    [NoJob EXCEPT !.kind = "forward", !.port = m.port, !.enabled = m.open, !.current = TRUE,
                  !.seen = IF interfaces = {} THEN Nics ELSE {}]

\* Mutant: the port is not remembered.
ForwardPortForgets(t) ==
    /\ pc[t] = "idle" /\ socket # <<>>
    /\ \A u \in Threads : ~job[u].current
    /\ socket' = Tail(socket)
    /\ job' = [job EXCEPT ![t] = ForwardJob(Head(socket))]
    /\ Goto(t, "nics")
    /\ UNCHANGED <<distro, running, dnsConfigurator, published, ports, table, choice,
                   events, faultsLeft>>

ForwardPort(t) ==
    /\ pc[t] = "idle" /\ socket # <<>>
    /\ \A u \in Threads : ~job[u].current
    /\ socket' = Tail(socket)
    /\ LET m == Head(socket) IN
        /\ ports' = IF m.open THEN ports \cup {m.port} ELSE ports \ {m.port}
        /\ job' = [(IF ports' = ports THEN job ELSE Stale(job)) EXCEPT ![t] = ForwardJob(m)]
    /\ Goto(t, "nics")
    /\ UNCHANGED <<distro, running, dnsConfigurator, published, table, choice,
                   events, faultsLeft>>

\* Mutant: only the opening of a udp port is forwarded on the loopback interface.
NextNicOpensLoopback(t) ==
    /\ pc[t] = "nics"
    /\ \/ \E n \in Nics \ job[t].seen :
            /\ job' = [job EXCEPT ![t] = OnNic(job[t], n)]
            /\ IF n \in interfaces THEN Goto(t, "enter") ELSE UNCHANGED pc
       \/ /\ Nics \subseteq job[t].seen
          /\ job[t].enabled /\ job[t].port \in Udp /\ Loopback \notin job[t].seen
          /\ job' = [job EXCEPT ![t] = OnNic(job[t], Loopback)]
          /\ Goto(t, "enter")
       \/ /\ Nics \subseteq job[t].seen
          /\ job[t].enabled /\ job[t].port \in Udp => Loopback \in job[t].seen
          /\ Return(t)
    /\ UNCHANGED <<external, ports, table, choice, events, faultsLeft>>

\* foreach over GetAllNetworkInterfaces().Where(...), which reads the configuration at
\* each of them; the loopback interface afterwards, for udp.
NextNic(t) ==
    /\ pc[t] = "nics"
    /\ \/ \E n \in Nics \ job[t].seen :
            /\ job' = [job EXCEPT ![t] = OnNic(job[t], n)]
            /\ IF n \in interfaces THEN Goto(t, "enter") ELSE UNCHANGED pc
       \/ /\ Nics \subseteq job[t].seen
          /\ job[t].port \in Udp /\ Loopback \notin job[t].seen
          /\ job' = [job EXCEPT ![t] = OnNic(job[t], Loopback)]
          /\ Goto(t, "enter")
       \/ /\ Nics \subseteq job[t].seen
          /\ job[t].port \in Udp => Loopback \in job[t].seen
          /\ Return(t)
    /\ UNCHANGED <<external, ports, table, choice, events, faultsLeft>>

-----------------------------------------------------------------------------
(* TogglePortForwardInterface of the view model                            *)

\* The click flips the menu item; Task.Run starts the call later.
Click(t, n) ==
    /\ pc[t] = "idle" /\ Event
    /\ forwarded' = IF n \in forwarded THEN forwarded \ {n} ELSE forwarded \cup {n}
    /\ job' = [job EXCEPT ![t] = [NoJob EXCEPT !.kind = "toggle", !.nic = n]]
    /\ Goto(t, "begin")
    /\ UNCHANGED <<external, ports, table, interfaces, faultsLeft>>

\* It reads the item when it starts ...
BeginToggle(t) ==
    /\ pc[t] = "begin"
    /\ job' = [job EXCEPT ![t].enabled = job[t].nic \in forwarded]
    /\ Goto(t, "enter")
    /\ UNCHANGED <<external, ports, table, choice, events, faultsLeft>>

\* ... and again when it has gone through all ports.
SaveToggle(t) ==
    /\ pc[t] = "config"
    /\ interfaces' = IF job[t].nic \in forwarded
                     THEN interfaces \cup {job[t].nic} ELSE interfaces \ {job[t].nic}
    /\ Return(t)
    /\ UNCHANGED <<external, ports, table, forwarded, events, faultsLeft>>

-----------------------------------------------------------------------------
(* EnablePortForwardingInterface, for the port of a message or for _ports  *)

\* The properties of the interface and the address of the distribution: an exception
\* ends the whole call, and a toggle leaves the configuration as it is.
EnablePortForwardingInterface(t) ==
    /\ pc[t] = "enter"
    /\ \/ /\ dnsConfigurator /\ NoFault
          /\ Goto(t, IF job[t].kind = "toggle" THEN "next" ELSE "look")
          /\ job' = [job EXCEPT ![t].stale = FALSE]
       \/ ~dnsConfigurator /\ NoFault /\ Return(t)
       \/ Fault("address") /\ Return(t)
    /\ UNCHANGED <<external, ports, table, choice, events>>

\* Mutant: the port of the loop is not the one that is forwarded.
NextPortUnused(t) ==
    /\ pc[t] = "next"
    /\ \/ job[t].stale /\ Return(t)
       \/ /\ ~job[t].stale
          /\ \E p \in ports \ job[t].seen : job' = [job EXCEPT ![t].seen = @ \cup {p}]
          /\ Goto(t, "look")
       \/ ~job[t].stale /\ ports \subseteq job[t].seen /\ Goto(t, "config") /\ UNCHANGED job
    /\ UNCHANGED <<external, ports, table, choice, events, faultsLeft>>

\* foreach over _ports, whose enumerator throws when they have changed.
NextPort(t) ==
    /\ pc[t] = "next"
    /\ \/ job[t].stale /\ Return(t)
       \/ /\ ~job[t].stale
          /\ \E p \in ports \ job[t].seen :
                job' = [job EXCEPT ![t] = OnPort(job[t], p)]
          /\ Goto(t, "look")
       \/ ~job[t].stale /\ ports \subseteq job[t].seen /\ Goto(t, "config") /\ UNCHANGED job
    /\ UNCHANGED <<external, ports, table, choice, events, faultsLeft>>

AfterExisting(t) == IF job[t].enabled THEN Goto(t, "start") ELSE NextRound(t)

\* PortForwarder.Stop kills the process of an entry if it has not exited.
Killed(k) ==
    /\ portForwarders' = [portForwarders EXCEPT ![k] = "dead"]
    /\ forwarders' = IF portForwarders[k] = "live" THEN forwarders \ {k} ELSE forwarders

\* Mutant: the entry is removed and its process left alone.
StopExistingLeaves(t) ==
    /\ pc[t] = "look"
    /\ IF portForwarders[Key(t)] # "none"
       THEN Goto(t, "remove") ELSE AfterExisting(t)
    /\ UNCHANGED <<external, ports, table, choice, job, events, faultsLeft>>

\* TryGetValue and existing.Stop().
StopExisting(t) ==
    /\ pc[t] = "look"
    /\ IF portForwarders[Key(t)] # "none"
       THEN Killed(Key(t)) /\ Goto(t, "remove")
       ELSE UNCHANGED table /\ AfterExisting(t)
    /\ UNCHANGED <<external, ports, choice, job, events, faultsLeft>>

\* Mutant: the dead forwarder keeps its entry.
RemoveExistingKeeps(t) ==
    /\ pc[t] = "remove"
    /\ AfterExisting(t)
    /\ UNCHANGED <<external, ports, table, choice, job, events, faultsLeft>>

\* Whatever entry the key has by now.
RemoveExisting(t) ==
    /\ pc[t] = "remove"
    /\ portForwarders' = [portForwarders EXCEPT ![Key(t)] = "none"]
    /\ AfterExisting(t)
    /\ UNCHANGED <<external, ports, forwarders, choice, job, events, faultsLeft>>

\* Mutant: a port that is taken is tried again until it is free.
StartForwarderRetries(t) ==
    /\ pc[t] = "start"
    /\ Key(t) \notin forwarders /\ NoFault
    /\ forwarders' = forwarders \cup {Key(t)}
    /\ job' = [job EXCEPT ![t].alive = TRUE]
    /\ Goto(t, "add")
    /\ UNCHANGED <<external, ports, portForwarders, choice, events>>

\* PortForwarder.Start launches the process, which exits at once when the port is taken.
StartForwarder(t) ==
    /\ pc[t] = "start"
    /\ \/ /\ Key(t) \notin forwarders /\ NoFault
          /\ forwarders' = forwarders \cup {Key(t)}
          /\ job' = [job EXCEPT ![t].alive = TRUE]
          /\ Goto(t, "add")
       \/ Key(t) \in forwarders /\ NoFault /\ NextRound(t) /\ UNCHANGED <<forwarders, job>>
       \/ Fault("bind") /\ NextRound(t) /\ UNCHANGED <<forwarders, job>>
    /\ UNCHANGED <<external, ports, portForwarders, choice, events>>

\* An added entry makes the enumerator of StopPortForwarding stale.
StaleStop(jobs) == [u \in Threads |->
    IF jobs[u].kind = "stop" THEN [jobs[u] EXCEPT !.stale = TRUE] ELSE jobs[u]]

\* A second later.  Add throws when the key has an entry: the process lives on.
AddForwarder(t) ==
    /\ pc[t] = "add"
    /\ IF job[t].alive /\ portForwarders[Key(t)] = "none"
       THEN /\ portForwarders' = [portForwarders EXCEPT ![Key(t)] = "live"]
            /\ job' = [StaleStop(job) EXCEPT ![t].alive = FALSE]
       ELSE /\ UNCHANGED portForwarders
            /\ job' = [job EXCEPT ![t].alive = FALSE]
    /\ NextRound(t)
    /\ UNCHANGED <<external, ports, forwarders, choice, events, faultsLeft>>

\* A forwarder exits by itself; nothing monitors it.
ForwarderExits(k) ==
    /\ k \in forwarders /\ Fault("crash")
    /\ forwarders' = forwarders \ {k}
    /\ portForwarders' = [portForwarders EXCEPT ![k] = IF @ = "live" THEN "exited" ELSE @]
    /\ job' = [t \in Threads |->
                 IF pc[t] = "add" /\ Key(t) = k THEN [job[t] EXCEPT !.alive = FALSE] ELSE job[t]]
    /\ UNCHANGED <<external, ports, choice, pc, events>>

-----------------------------------------------------------------------------
(* Start and Stop of the engine, as far as port forwarding is concerned.   *)
(* A Start that fails is one that is followed by a Stop.                   *)

\* Start terminates the distribution first.  The callbacks of the listener before
\* may still be under way when the new one calls ForwardPort.
Start ==
    /\ ~running /\ \A t \in Threads : job[t].kind # "stop"
    /\ \E t \in Threads : pc[t] = "idle"
    /\ Event
    /\ running' = TRUE /\ distro' = TRUE /\ dnsConfigurator' = TRUE
    /\ published' = {} /\ socket' \in {socket, <<>>}
    /\ job' = [t \in Threads |-> [job[t] EXCEPT !.current = FALSE]]
    /\ UNCHANGED <<ports, table, choice, pc, faultsLeft>>

BeginStop(t) ==
    /\ running /\ pc[t] = "idle" /\ Event
    /\ running' = FALSE
    /\ job' = [job EXCEPT ![t] = [NoJob EXCEPT !.kind = "stop"]]
    /\ Goto(t, "kill")
    /\ UNCHANGED <<distro, dnsConfigurator, published, socket, ports, table, choice,
                   faultsLeft>>

\* Mutant: the loop ends at the first forwarder.
StopPortForwardingFirst(t) ==
    /\ pc[t] = "kill"
    /\ \/ /\ ~job[t].stale
          /\ \E k \in Keys \ job[t].seen :
                /\ portForwarders[k] # "none"
                /\ Killed(k)
                /\ job' = [job EXCEPT ![t].seen = @ \cup {k}]
       \/ /\ job[t].stale \/ \A k \in Keys \ job[t].seen : portForwarders[k] = "none"
          /\ UNCHANGED <<table, job>>
    /\ Goto(t, "clear")
    /\ UNCHANGED <<external, ports, choice, events, faultsLeft>>

\* foreach over _portForwarders, whose exception is swallowed.
StopPortForwarding(t) ==
    /\ pc[t] = "kill"
    /\ \/ /\ ~job[t].stale
          /\ \E k \in Keys \ job[t].seen :
                /\ portForwarders[k] # "none"
                /\ Killed(k)
                /\ job' = [job EXCEPT ![t].seen = @ \cup {k}]
          /\ UNCHANGED pc
       \/ /\ job[t].stale \/ \A k \in Keys \ job[t].seen : portForwarders[k] = "none"
          /\ Goto(t, "clear") /\ UNCHANGED <<table, job>>
    /\ UNCHANGED <<external, ports, choice, events, faultsLeft>>

\* _portForwarders.Clear()
ClearForwarders(t) ==
    /\ pc[t] = "clear"
    /\ portForwarders' = [k \in Keys |-> "none"]
    /\ Goto(t, "terminate")
    /\ UNCHANGED <<external, ports, forwarders, choice, job, events, faultsLeft>>

\* The other steps of Stop, which end with the distribution unless one of them throws.
Terminate(t) ==
    /\ pc[t] = "terminate"
    /\ \/ /\ NoFault
          /\ distro' = FALSE /\ published' = {} /\ socket' \in {socket, <<>>}
       \/ Fault("stop") /\ UNCHANGED <<distro, published, socket>>
    /\ Return(t)
    /\ UNCHANGED <<running, dnsConfigurator, ports, table, choice, events>>

-----------------------------------------------------------------------------
\* The steps of a call that has begun.
CallStep(t) ==
    \/ NextNic(t)
    \/ BeginToggle(t) \/ SaveToggle(t)
    \/ EnablePortForwardingInterface(t) \/ NextPort(t)
    \/ StopExisting(t) \/ RemoveExisting(t) \/ StartForwarder(t) \/ AddForwarder(t)
    \/ StopPortForwarding(t) \/ ClearForwarders(t) \/ Terminate(t)

Next ==
    \/ \E p \in Ports : Publish(p) \/ Unpublish(p)
    \/ \E t \in Threads : CallStep(t) \/ ForwardPort(t) \/ BeginStop(t)
    \/ \E t \in Threads, n \in Nics : Click(t, n)
    \/ \E k \in Keys : ForwarderExits(k)
    \/ Start

Spec == Init /\ [][Next]_vars

\* A call that has begun goes on, and the listener handles the messages it has.
FairSpec ==
    /\ Spec
    /\ \A t \in Threads : WF_vars(CallStep(t))
    /\ WF_vars(\E t \in Threads : ForwardPort(t))

-----------------------------------------------------------------------------
(* Properties                                                              *)

Jobs ==
    [kind : {"none", "forward", "toggle", "stop"}, nic : Nics \cup {Loopback, None},
     port : Ports \cup {None}, enabled : BOOLEAN, seen : SUBSET (Nics \cup {Loopback} \cup Ports \cup Keys),
     stale : BOOLEAN, alive : BOOLEAN, current : BOOLEAN]

\* A thread at location l has in j what its next steps use.
Equipped(l, j) ==
    /\ j.kind = "forward" => j.port \in Ports
    /\ j.kind = "toggle" => j.nic \in Nics
    /\ l \in {"enter", "look", "remove", "start", "add"} =>
          j.kind \in {"forward", "toggle"} /\ j.nic \in Nics \cup {Loopback}
    /\ l \in {"look", "remove", "start", "add"} => j.port \in Ports
    /\ l = "nics" => j.kind = "forward"
    /\ l \in {"begin", "next", "config"} => j.kind = "toggle"

\* Every variable has its type, and every thread what its next steps use.
TypeOK ==
    /\ distro \in BOOLEAN /\ running \in BOOLEAN /\ dnsConfigurator \in BOOLEAN
    /\ published \subseteq Ports /\ ports \subseteq Ports
    /\ socket \in Seq([open : BOOLEAN, port : Ports])
    /\ portForwarders \in [Keys -> {"none", "live", "dead", "exited"}]
    /\ forwarders \subseteq Keys
    /\ interfaces \subseteq Nics /\ forwarded \subseteq Nics
    /\ pc \in [Threads -> PCs] /\ job \in [Threads -> Jobs]
    /\ events \in 0..MaxEvents /\ faultsLeft \in 0..MaxFaults
    /\ \A t \in Threads : Equipped(pc[t], job[t])

Quiet == \A t \in Threads : pc[t] = "idle"

\* The keys by which the ports in ps are exposed.
Exposed(ps) == (interfaces \X ps) \cup ({Loopback} \X (ps \cap Udp))

\* With one call at a time: all published ports are exposed on the chosen interfaces
\* (docs/guides/port-forwarding.md:37), udp ports on localhost as well, whatever was
\* selected, published, taken back or restarted before.
PublishedIsExposed == (Quiet /\ running /\ socket = <<>>) => Exposed(published) \subseteq forwarders

\* With one call at a time: no port is exposed on an interface that is not selected, or
\* after its container has taken it back.
NothingElseExposed == Quiet => forwarders \subseteq Exposed(ports)

\* With one call at a time: the engine knows every forwarder that runs, so that it can
\* stop it, and its table holds no other.
ForwardersAreTracked == Quiet => \A k \in Keys : portForwarders[k] = IF k \in forwarders THEN "live" ELSE "none"

\* With one call at a time: when Stop comes to end the distribution, no forwarder runs and
\* none is in the table.  Nothing is said of later, when a message or a click may start some.
StopLeavesNothing ==
    \A t \in Threads : pc[t] = "terminate" =>
        forwarders = {} /\ \A k \in Keys : portForwarders[k] = "none"

\* However the calls overlap and whatever fails: an entry whose forwarder the engine has
\* stopped is about to go: a call is where it removes it, or a Stop where it clears all.
\* That of a forwarder that exited by itself stays until a call looks at its key.
DeadEntriesGo ==
    \A k \in Keys : portForwarders[k] = "dead" =>
        \E t \in Threads :
            \/ pc[t] \in {"kill", "clear"}
            \/ pc[t] = "remove" /\ Key(t) = k

\* However the calls overlap, each that has begun returns: the foreach loops over
\* collections that other threads change come to an end.
CallsReturn == \A t \in Threads : pc[t] # "idle" ~> pc[t] = "idle"

\* "All published ports are exposed on the chosen network interface"
\* (docs/guides/port-forwarding.md:37): once nothing is under way, on every interface
\* that is checked in the menu.
ChosenIsExposed ==
    (Quiet /\ running /\ socket = <<>>) => forwarded \X published \subseteq forwarders
=============================================================================
