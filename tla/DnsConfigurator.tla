--------------------------- MODULE DnsConfigurator --------------------------
(* The DNS of the engine's distribution.  Each start of the engine makes a *)
(* DnsConfigurator and configures it twice; a change of the network or of  *)
(* the configuration queues another Configure.  Configure holds the lock   *)
(* of its configurator, Dispose does not.  A forwarder is stopped with     *)
(* pkill and launched in the background: one that is on its way is not     *)
(* stopped, and only the first to arrive gets the port.                    *)
EXTENDS ConfigurationService, Integers

CONSTANTS
    MaxConfigurators, \* bound: starts of the engine in a behaviour
    MaxEdits,         \* bound: edits, toggles and network changes in a behaviour
    Jobs,             \* threads that run what is queued
    Missing           \* modes that throw when they have no addresses

Configurators == 1 .. MaxConfigurators
Workers == {"engine"} \cup Jobs
None == "none"
ASSUME DnsAssumption == None \notin Modes

VARIABLES
    engine,     \* location of Start and Stop, as far as DNS goes
    made,       \* how many configurators have been made
    current,    \* _dnsConfigurator, or 0
    onConfig,   \* the configurators whose handler gets ConfigurationChanged
    onNetwork,  \* the configurators whose handler gets NetworkAddressChanged
    queued,     \* the configurators for which a Configure waits for a thread
    at, self,   \* location in Configure of each worker, and in which configurator
    mode,       \* the mode whose addresses a worker has read
    addresses,  \* the modes that have addresses now
    task,       \* _dnsForwarderTask of the configurator made last is set
    starting,   \* how many forwarders of each mode are on their way
    listening,  \* the mode of the forwarder that has the port, or None
    raced,      \* the last Configure was not alone from its beginning on
    edits       \* edits and network changes so far

events == <<onConfig, onNetwork, queued>>
workers == <<at, self, mode>>
forwarders == <<task, starting, listening>>
dnsVars == <<engine, made, current, events, workers, addresses, forwarders, raced, edits>>
vars == <<svcVars, dnsVars>>

Init ==
    /\ SvcInit
    /\ engine = "Stopped" /\ made = 0 /\ current = 0
    /\ onConfig = {} /\ onNetwork = {} /\ queued = {}
    /\ at = [w \in Workers |-> None] /\ self = [w \in Workers |-> 0]
    /\ mode = [w \in Workers |-> None]
    /\ addresses = Modes /\ task = FALSE
    /\ starting = [m \in Modes |-> 0] /\ listening = None
    /\ raced = FALSE /\ edits = 0

Free(w) == at[w] = None
OnTheirWay == \E m \in Modes : starting[m] > 0

-----------------------------------------------------------------------------
(* Configure                                                               *)

\* lock (_lock).  The files are written.
Enters(w, k) ==
    /\ \A v \in Workers : self[v] = k => Free(v)
    /\ at' = [at EXCEPT ![w] = "read"] /\ self' = [self EXCEPT ![w] = k]
    /\ raced' = (OnTheirWay \/ \E v \in Workers \ {w} : ~Free(v))
    /\ UNCHANGED mode

Leaves(w) ==
    /\ at' = [at EXCEPT ![w] = None]
    /\ self' = [self EXCEPT ![w] = 0]
    /\ mode' = [mode EXCEPT ![w] = None]

\* The addresses of the live configuration's mode.
Reads(w) ==
    /\ at[w] = "read" /\ Configuration.mode \in addresses
    /\ mode' = [mode EXCEPT ![w] = Configuration.mode]
    /\ at' = [at EXCEPT ![w] = "stop"]
    /\ UNCHANGED <<self, forwarders, raced>>

\* Mutant: the running forwarder is stopped before the addresses are known.
ReadsNothingStopped(w) ==
    /\ at[w] = "read" /\ Configuration.mode \notin addresses
    /\ Leaves(w) /\ listening' = None
    /\ UNCHANGED <<task, starting, raced>>

\* There are none: the forwarder that runs is left alone.
ReadsNothing(w) ==
    /\ at[w] = "read" /\ Configuration.mode \notin addresses
    /\ Leaves(w)
    /\ UNCHANGED <<forwarders, raced>>

\* StopDnsForwarder, which misses what is on its way.
Stops(w) ==
    /\ at[w] = "stop"
    /\ at' = [at EXCEPT ![w] = "launch"]
    /\ listening' = None
    /\ UNCHANGED <<self, mode, task, starting, raced>>

\* Mutant: the addresses of another mode.
LaunchesStale(w) ==
    /\ at[w] = "launch" /\ Leaves(w)
    /\ task' = (task \/ self[w] = made)
    /\ starting' = [starting EXCEPT ![loaded.mode] = @ + 1]
    /\ UNCHANGED <<listening, raced>>

\* Task.Run of dns-forwarder.
Launches(w) ==
    /\ at[w] = "launch" /\ Leaves(w)
    /\ task' = (task \/ self[w] = made)
    /\ starting' = [starting EXCEPT ![mode[w]] = @ + 1]
    /\ UNCHANGED <<listening, raced>>

\* A forwarder arrives; if the port is taken, it exits.
Arrives(m) ==
    /\ starting[m] > 0
    /\ starting' = [starting EXCEPT ![m] = @ - 1]
    /\ listening' = IF listening = None THEN m ELSE listening
    /\ UNCHANGED <<svcVars, engine, made, current, events, workers, addresses, task, raced, edits>>

-----------------------------------------------------------------------------
(* The queued calls of Configure                                           *)

TakeJob(w, k) ==
    /\ w # "engine" /\ Free(w) /\ k \in queued
    /\ Enters(w, k) /\ queued' = queued \ {k}
    /\ UNCHANGED <<svcVars, engine, made, current, onConfig, onNetwork, addresses, forwarders, edits>>

JobStep(w) ==
    /\ w # "engine"
    /\ Reads(w) \/ ReadsNothing(w) \/ Stops(w) \/ Launches(w)
    /\ UNCHANGED <<svcVars, engine, made, current, events, addresses, edits>>

-----------------------------------------------------------------------------
(* Start and Stop of the engine                                            *)

Engine(from, to) == engine = from /\ engine' = to

\* The distribution goes down, with what runs in it and perhaps what is on its way.
Terminate ==
    /\ listening' = None /\ UNCHANGED task
    /\ starting' \in {starting, [m \in Modes |-> 0]}

StartEngine ==
    /\ made < MaxConfigurators
    /\ Engine("Stopped", IF current = 0 THEN "new" ELSE "dispose")
    /\ Terminate
    /\ UNCHANGED <<svcVars, made, current, events, workers, addresses, raced, edits>>

\* Dispose, by the next start, a stop or a start that fails.  The handler is found only on
\* the thread that added it.
Dispose ==
    /\ \/ Engine("dispose", "kill")
       \/ engine \in {"Running", "failed"}
          /\ engine' = IF current = 0 THEN "terminate" ELSE "stop kill"
    /\ onConfig' \in {onConfig, onConfig \ {current}}
    /\ onNetwork' = onNetwork \ {current}
    /\ UNCHANGED <<svcVars, made, current, queued, workers, addresses, forwarders, raced, edits>>

Kill ==
    /\ Engine("kill", "new") \/ Engine("stop kill", "terminate")
    /\ listening' = None
    /\ UNCHANGED <<svcVars, made, current, events, workers, addresses, task, starting, raced, edits>>

TerminateEngine ==
    /\ Engine("terminate", "Stopped")
    /\ Terminate
    /\ UNCHANGED <<svcVars, made, current, events, workers, addresses, raced, edits>>

\* The constructor adds its handlers, and configures.
NewDnsConfigurator ==
    /\ Engine("new", "constructor")
    /\ made' = made + 1
    /\ onConfig' = onConfig \cup {made'} /\ onNetwork' = onNetwork \cup {made'}
    /\ Enters("engine", made') /\ task' = FALSE
    /\ UNCHANGED <<svcVars, current, queued, addresses, edits, starting, listening>>

EngineConfigures ==
    /\ Reads("engine") \/ Stops("engine") \/ Launches("engine")
    /\ UNCHANGED <<svcVars, engine, made, current, events, addresses, edits>>

\* No addresses: the start goes on, or fails and the engine is stopped.
EngineFindsNothing ==
    /\ ReadsNothing("engine")
    /\ engine' = IF Configuration.mode \in Missing THEN "failed" ELSE engine
    /\ UNCHANGED <<svcVars, made, current, events, addresses, edits>>

\* A constructor that has not thrown: InitializeDnsConfigurator calls Configure once more.
ConfigureAgain ==
    /\ Free("engine") /\ Engine("constructor", "again")
    /\ current' = made
    /\ Enters("engine", made)
    /\ UNCHANGED <<svcVars, made, events, addresses, forwarders, edits>>

Started ==
    /\ Free("engine") /\ Engine("again", "Running")
    /\ UNCHANGED <<svcVars, made, current, events, workers, addresses, forwarders, raced, edits>>

-----------------------------------------------------------------------------
(* Edits, saves and changes of the network                                 *)

\* No event follows an edit that is undone by hand, which a Configure may have read, nor
\* one that a save has not compared but does write.
EditMode(m) ==
    /\ edits < MaxEdits /\ edits' = edits + 1 /\ Edit(m)
    /\ raced' = (raced \/ m \in {loaded.mode, file.mode} \/ \E t \in Threads : save[t] = "write")
    /\ UNCHANGED <<engine, made, current, events, workers, addresses, forwarders>>

\* A save that meets another one, or what another one has left, may raise no event either.
Save ==
    /\ Silent
    /\ edits' = IF save["toggle"] = "idle" /\ save'["toggle"] # "idle" THEN edits + 1 ELSE edits
    /\ edits' <= MaxEdits
    /\ raced' = (raced \/ overlapped' \/ (loaded # file /\ \A t \in Threads : Idle(t)))
    /\ UNCHANGED <<engine, made, current, events, workers, addresses, forwarders>>

\* Mutant: a configurator made later gets no events.
OnConfigurationChangedFirst(t) ==
    /\ Raises(t)
    /\ queued' = IF changed[t] THEN queued \cup (onConfig \cap {1}) ELSE queued
    /\ edits' = IF Configuration' = Configuration THEN edits ELSE edits + 1
    /\ edits' <= MaxEdits
    /\ UNCHANGED <<engine, made, current, onConfig, onNetwork, workers, addresses, forwarders, raced>>

OnConfigurationChanged(t) ==
    /\ Raises(t)
    /\ queued' = IF changed[t] THEN queued \cup onConfig ELSE queued
    /\ edits' = IF Configuration' = Configuration THEN edits ELSE edits + 1
    /\ edits' <= MaxEdits
    /\ UNCHANGED <<engine, made, current, onConfig, onNetwork, workers, addresses, forwarders, raced>>

NetworkAddressChanged(m) ==
    /\ edits < MaxEdits /\ edits' = edits + 1
    /\ addresses' = IF m \in addresses THEN addresses \ {m} ELSE addresses \cup {m}
    /\ queued' = queued \cup onNetwork
    /\ UNCHANGED <<svcVars, engine, made, current, onConfig, onNetwork, workers, forwarders, raced>>

-----------------------------------------------------------------------------
Next ==
    \/ \E m \in Modes : EditMode(m) \/ NetworkAddressChanged(m) \/ Arrives(m)
    \/ Save \/ \E t \in Threads : OnConfigurationChanged(t)
    \/ \E w \in Workers : (\E k \in Configurators : TakeJob(w, k)) \/ JobStep(w)
    \/ StartEngine \/ Dispose \/ Kill \/ TerminateEngine
    \/ NewDnsConfigurator \/ EngineConfigures \/ EngineFindsNothing \/ ConfigureAgain \/ Started

Spec == Init /\ [][Next]_vars

-----------------------------------------------------------------------------
(* Properties                                                              *)

\* Nothing is queued, under way or being saved.
Quiet ==
    /\ queued = {} /\ ~OnTheirWay
    /\ \A w \in Workers : Free(w)
    /\ \A t \in Threads : Idle(t)

\* An engine that runs has a forwarder, once its configurator has launched one, however
\* configurators, queued calls and the network interleave, and also while no addresses
\* can be found.
DnsServed == (engine = "Running" /\ Quiet /\ task) => listening # None

\* "Select a mode and click Save to apply the new DNS configuration", "which updates
\* automatically when DNS addresses change" (dns-mode-configuration.md): what is saved is
\* what the forwarder uses, unless the last Configure has met another one.
SavedModeApplies ==
    (engine = "Running" /\ Quiet /\ ~raced /\ ~IsChanged /\ Configuration.mode \in addresses)
        => listening = Configuration.mode
=============================================================================
