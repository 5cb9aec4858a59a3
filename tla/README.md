# Container Desktop in TLA+

This directory is a verification development of Container Desktop: TLA+ modules
translated from its C#, Go and shell source, TLC configurations that check them on
small instances, and proofs of their main invariants for every instance. The modules
are written to be read next to the code; `PROJECT.json` maps every definition to the
lines it stands for.

Contents: 1 the system and its parts, 2 the modules, 3 runs and bounds, 4 fairness,
5 proofs, 6 what the runs found, 7 what is abstracted or left out, 8 the plan.

## 1. The system

Container Desktop runs dockerd in a WSL2 distribution (`container-desktop`), keeps its
data in a second one (`container-desktop-data`), and makes it reachable from Windows
and from the user's own distributions. On Windows it is one WPF process (the tray
application), a Go proxy process on the docker pipe, and one Go process per forwarded
port. Short names used below: CE = `Services/DefaultContainerEngine.cs`, VM =
`ViewModels/MainViewModel.cs`, both in `container-desktop/ContainerDesktop`.

| component | state it keeps | operations | talks to |
|---|---|---|---|
| Container engine (CE) | `_runningState`, `_cts`, `_portforwardListenerCts`, `_proxyProcess`, `_portForwarders`, `_ports`, `_dnsConfigurator`, `_enabledDistroProxies` | Start, Stop, Restart, EnableDistro, EnablePortForwardingInterface, Dispose, OnConfigurationChanged | WSL, proxy process, port forwarders, configuration |
| Tray menu (VM, `App.xaml.cs`) | menu items with their checked flags | start, stop, restart, reset, quit, toggle a distribution, toggle a network interface, settings | engine, configuration |
| Scripts in WSL (`deployment/`) | mounts, docker links, proxies in distributions | `wsl-init.sh`, `wsl-init-data.sh`, `wsl-distro-init.sh`, `wsl-distro-rm.sh`, the `docker-proxy` shim | launched by the engine; the shim reports ports to it |
| Port forwarding of the engine | `_ports`, `_portForwarders`, configured interfaces | ForwardPort, EnablePortForwardingInterface, StopPortForwarding | forwarder processes, the shim, the menu |
| UDP and TCP port forwarder (`cmd/container-desktop-port-forwarder`) | listener, connection tracking table, one goroutine per connection | Run, replyLoop / clientLoop, Close | clients, the container's port |
| DNS configurator | its DNS forwarder, a lock, event subscriptions | Configure, Dispose, handlers of network and configuration changes | engine, configuration, Windows network events |
| Configuration service | the configuration object, its last saved text, the file | Load, Save, ConfigurationChanged | every other part |
| Docker proxy (`cmd/container-desktop-proxy`, `internal/`) | one goroutine pair per request | path rewriting, reverse proxy, upgrades | docker CLI, dockerd |
| Installer (`DesiredStateConfiguration/`, `Installer/`) | what each resource has put on the machine, Windows features, the two files with selections, the graph and the processed resources | install, update, uninstall, rollback, restart of Windows and resumption | Windows, WSL, the running application |
| WPF pages, converters; Windows wrappers; build | presentation | - | - |

### How they interact, and what is hard

* **Commands overlap.** The menu tests `RunningState` at the click and runs the command
  later with `Task.Run`. The engine has no lock. Between two attempts of a failing
  Start the state is `Stopped` for two seconds, so the menu offers Start while Start is
  being retried. *Correct means*: the state machine is never left in `Starting` or
  `Stopping` by nobody, every call returns, and `Running` means that the daemon and the
  proxy run.
* **Loops outlive their Start.** Two background loops (the data distribution, the
  port-forward listener) read the *fields* `_cts` and `_portforwardListenerCts` on each
  round. *Correct means*: no loop reads a field that is null, cancelling reaches the
  loops of the current source, and terminating the distributions ends the others.
* **Steps fail in the middle.** Stop is one `try` block of eight steps; a script that
  exits with 1 skips the rest. Start's catch block calls Stop and hides its outcome from
  the retry. *Correct means*: a retry copes with whatever the failed attempt left.
* **Scripts run asynchronously.** Enabling a distribution launches a script and does not
  wait; disabling it runs another one at once. *Correct means*: the last command wins.
* **Sets change under their enumerators.** `EnabledDistributions`, `_portForwarders` and
  `_ports` are plain collections that several threads change and enumerate.
* **Connections expire while they are used.** The UDP proxy finds a connection under a
  lock and writes to it after releasing the lock; its reply loop deletes the entry and
  closes the connection at its own time. *Correct means*: table and loops agree, answers
  go to the client that asked, no socket is kept for ever.
* **Ports come and go while interfaces are selected**, on several threads.
* **Half-closed connections.** The TCP forwarder and an upgraded connection of the docker
  proxy copy in two directions that end at their own times, while a client or a container
  may vanish and the forwarder may be stopped. *Correct means*: an end is passed on after
  the data and cuts nothing else, and everything is closed and joined on every path.
* **Streams have no end.** The docker proxy rewrites bodies, which it must read as a
  whole, and passes on logs, which never end. *Correct means*: streams flow, and an
  aborted response does not look complete. A path keeps its file on its way to the daemon
  and back.
* **Configure meets Dispose, a queued Configure and edits of the settings.** Each
  DnsConfigurator has a lock of its own, Dispose does not take it, a forwarder launched
  before a `pkill` arrives after it, and one configuration object is edited, saved,
  discarded and read by everybody. *Correct means*: an engine that runs has a DNS
  forwarder, of the mode that was saved.
* **An installation is interrupted and repeated** by failures, restarts of Windows, kills
  and other versions of the installer, while the application runs. *Correct means*: data
  survives all of it but an uninstallation, and success means complete.

`PROJECT.json` lists each of these under "hazards" with the line where it bites and the
properties that cover it.

## 2. The modules

### ContainerEngine

The life cycle of the engine with the commands of the menu. A *thread* is a thread-pool
thread that runs one call at a time; `pc[t]` is the step it is at and `call[t]` what the
call keeps on its stack (what follows its Stop, the attempts so far, the distributions
its `foreach` has yielded, whether the set has changed under it). One action is one step
of Start (CE:71-106, and the method each line calls), of Stop (CE:331-349), of Reset or
of ToggleWslDistro (VM); steps of different threads interleave freely.

| TLA+ | code |
|---|---|
| `BeginStart` ... `FinishStart` | the lines of Start: new source and `Starting`; terminate; DNS; data distribution and the wait for it; listener; daemon (with UpdateDaemonConfig and UpdateCertificates); proxy and its 1 s check; distributions; `Running` |
| `Throw` | an exception in Start: its catch block calls Stop, `call.then = "retry"` |
| `BeginStop` ... `StopDaemon`, `ThrowInStop`, `FinishStop` | the try block of Stop, an exception that skips the rest of it, and its finally block |
| `AfterStop` | what the caller of Stop does next: Polly's retry, Restart's Start, Reset's terminations, Quit |
| `Click`, `ClickToggle` | `CanExecute` at the click, which also flips the menu item (`itemEnabled`) that the call reads later |
| `loops[k][p]` | how many loops of kind k are at their `while` test (`check`), or wait on the token of the source in the field (`cur`) or of a replaced one (`old`) |
| `LoopEnters`, `LoopExecEnds` | one round of InitializeDataDistro's or InitializePortForwardListener's loop |
| `ScriptLinks`, `ScriptServes`, `DataMounts` | the progress of `wsl-distro-init.sh` and `wsl-init-data.sh` |
| `Fault(f)` | a failure of the environment, of a kind the run allows and at most `MaxFaults` of them |

Cancellation sources are not numbered: `_cts.Cancel()` only ever reaches the source in
the field, so a waiting loop is on that one or on one that nobody can cancel. Replacing
an uncancelled source makes the listener's linked source an `"orphan"`.

### UDPProxy

`udp_proxy.go`: Run, one replyLoop per connection and Close are three kinds of goroutine.
The locked sections are single actions (`LookupHits`, `LookupDials`, `LookupFails`,
`ReplyDeletes`, `CloseConns`), and what happens after the lock is released is a step of
its own (`RunWrites`, `ReplyCloses`). A datagram is the client that sent it; the backend
answers any datagram it holds, in any order, or never. `newConnTrackKey` packs an
address the way the code does, into two halves and a port.

### PortForwarding

How published ports reach the network. Three kinds of call run on threads of their own
over the unsynchronised `_ports` and `_portForwarders`: ForwardPort (for each message of
a docker-proxy shim), TogglePortForwardInterface (the menu) and Stop. `pc[t]` is the step
a thread is at, `job[t]` what its call keeps: the interface and port of its loops, what
the enumerator has passed (`seen`), and whether the collection has changed under it
(`stale`).

| TLA+ | code |
|---|---|
| `Publish`, `Unpublish` | a docker-proxy shim starts, or is interrupted, and tells the socket |
| `ForwardPort`, `NextNic` | CE:215-260: the change of `_ports`, the loop over the interfaces the configuration has at each of them, then the loopback interface for udp |
| `Click`, `BeginToggle`, `SaveToggle` | VM:249-268: the item's `Forwarded` is flipped at the click, read when the call starts, and read again for the configuration |
| `EnablePortForwardingInterface`, `NextPort`, `StopExisting`, `RemoveExisting`, `StartForwarder`, `AddForwarder` | CE:497-535, one action per access to something shared; between the last two lies the second that PortForwarder.Start waits |
| `StopPortForwarding`, `ClearForwarders`, `Terminate` | CE:270-286 and the rest of Stop, which ends the containers |
| `forwarders`, `portForwarders` | the keys on which a forwarder process listens, and what the engine's table says of each key: `none`, or an entry whose process is `live`, `dead` (the engine has stopped it) or `exited` by itself |

### InstallerManifest and Installer

`InstallerManifest` is `configuration-manifest.json` as data: for each of its 26
resources the class and the attributes that steer Apply. `Installer` is the installer
process over that manifest and the machine it works on. `present[r]` is what a resource
has put there: nothing, part of it, or the version of the installer that did. One action
is one call of the loop of `ConfigurationManifest.Apply`: Test, Unset, Set, the question
about the restart, or one of them failing. Between any two of them the application may
be started or end, and the installer may be killed; Windows may restart and run the
installer again, and the user may run it again in either version.

| TLA+ | code |
|---|---|
| `RunInstaller`, `RunUninstaller`, `ChooseOptions`, `CloseWindow` | the installer's window, unattended or not; the registered uninstall command, which runs a copy of the installed installer |
| `Apply`, `BuildDependencyGraph`, `RemoveResolved` ... `InOrder` | saving the selection; the graph, with the element that `RemoveAt` in a loop skips, and the reversal for uninstalling; `GraphAssumption` says what order comes out |
| `ExamineResource`, `NeedsUnset`, `NeedsSet` | the `if` and `switch` between Test and Set; `*Test` are the Test methods of the classes that do more than look whether something is there |
| `UnsetResource`, `SetResource`, `CanSet`, `CanUnset`, `MayMiss` | Unset and Set of the classes, what they need of each other, and the failures that follow when it is missing |
| `UnsetFails`, `SetFails`, `ExamineFails`, `Throw` | the catch block: the processed resources become the loop's resources, and `undoing` says that the parameter `ctx` has Uninstall set while the captured `context` has not |
| `AskConsent`, `RestartWindows` | `RequiresReboot`: the user's answer, `PendingRestart`, and RegisterApplicationRestart |
| `Done` | ClearState at the end of an Apply that waits for no restart |

### Proxy and TCPProxy

`Proxy` is what the interface of `proxy.go` promises, whoever implements it: a connection
is two pipes that lose nothing and end last, unless one of its ends has gone or the proxy
has stopped. `TCPProxy` is `tcp_proxy.go`, and is shown to implement `Proxy`
(`ForwardsTraffic`), liveness included. Its goroutines are Run, one clientLoop per
connection and two brokers per clientLoop; a broker is named by the end it writes to.

| TLA+ | code |
|---|---|
| `Accept`, `RunStops`, `Close` | Run, its return with the deferred `close(quit)`, and Close, which closes only the listener |
| `DialSucceeds`, `DialFails`, `Select`, `CloseClient`, `CloseBackend`, `Join` | clientLoop, line by line |
| `BrokerReads`, `BrokerWrites`, `CopyEnds`, `CopyFails`, `BrokerCloses` | the closure `broker`: `io.Copy`, then CloseRead, CloseWrite and Done |
| `EndSends`, `EndShutsDown`, `EndGoes` | the client and the container |
| `state`, `stopped` of `Proxy` | a connection is open from Accept until clientLoop has closed both sockets; stopped is `quit` |

### RewritePaths and DockerProxy

`RewritePaths` is `rewrite.go` as pure operators: which rewriter a URL gets, where that
looks for bind mounts, and `mapPath`, on paths as sequences of segments. `DaemonFile` and
`ClientFile` say which file a path names for the daemon and for a client; that is what a
translation has to preserve. `DockerProxy` is the exchange around it: the hooks of the
proxy's `main.go` in ServeHTTP of `reverseproxy.go`, with its goroutines.

| TLA+ | code |
|---|---|
| `Request`, `Director`, `RoundTrip`, `ModifyResponse` | ServeHTTP up to the response, with RewriteBody in both directions |
| `CopyResponse`, `CopyBuffer`, `CopyEnds`, `CopyFails` | copyResponse and what follows, with the panic that aborts a response |
| `TimerFires`, `delayedFlush`, `stop` | maxLatencyWriter; between the first two, the timer's goroutine runs without its lock |
| `NotifyFires`, `CloserCloses` | the goroutine that waits for CloseNotify, and the one that closes the daemon's connection |
| `Hijack`, `WriteUpgrade`, `Receive`, `ReceiveAgain`, `Unwind` | handleUpgradeResponse; `errc` holds one result, nil or an error, as in the code |
| `Copy`, `CopierEnds`, `CloseWrite`, `SendResult` | switchProtocolCopier |
| `Send`, `Finish`, `Go` | the Docker client and dockerd |

### ConfigurationService and DnsConfigurator

`ConfigurationService` is the one live configuration, the file and `_loadedConfiguration`,
with SaveAndNotify and Load on the thread of the user interface and on that of a menu
item. `DnsConfigurator` extends it, because Configure reads the live configuration and
the event of a save queues it.

| TLA+ | code |
|---|---|
| `Edit`, `SaveChanges`, `Discard`, `Toggle` | the settings page, its two commands, and the change a menu item makes before it saves |
| `Differs`, `Write`, `Notify`, `Remember` | SaveAndNotify: compare, serialize and write, raise the event, remember what was serialized; Load has the last two |
| `NotifyAndValidate` | ValidateHostEntryMode answers the event with a change and a save of its own |
| `Enters`, `Reads`, `Stops`, `Launches` | Configure: the lock and the files, the addresses of the live mode, `pkill`, and `Task.Run` of the forwarder |
| `Arrives` | a forwarder that was launched tries to take the port, at any later time |
| `NewDnsConfigurator`, `ConfigureAgain`, `Dispose`, `Kill` | InitializeDnsConfigurator and StopDnsConfigurator on the engine's thread; `made` counts constructors, `current` is the field, and they differ after a constructor that throws |
| `OnConfigurationChanged`, `NetworkAddressChanged`, `TakeJob` | the handlers, and the call of Configure they queue |
| `overlapped`, `raced` | history, for the properties: whether the last save met another one, and whether the forwarder can lag behind the configuration because Configures overlapped or no event was due |

### Proof modules and model-checking modules

`ContainerEngineProofs`, `UDPProxyProofs`, `PortForwardingProofs`, `InstallerProofs`,
`TCPProxyProofs`, `DockerProxyProofs` and `DnsConfiguratorProofs` hold the theorems; the modules whose names begin with MC hold the model
values and sets of the runs. Operators whose comment begins with
"Mutant:" stand beside the definition they are a plausible error of; no specification
uses them, and each property is known to fail when its mutant takes the definition's
place.

## 3. Runs and bounds

| run | what it shows | bounds |
|---|---|---|
| `engine_sequential` | with commands one at a time: Running means that daemon, proxy and data loop are up (`RunningMeansUp`), a Stop that does not throw leaves nothing behind (`CleanStop`), Start survives as many failures as it has retries (`StartSurvivesFaults`), the loops of earlier Starts end (`LoopsEnd`) | 1 thread, 2 commands after the Start of AppStartup, 1 retry, 1 failing step, 1 distribution |
| `engine_concurrent` | a command overlaps that Start, any kind of failure: `TypeOK`, `Settled`, `LoopsHaveSources`, `CancelReachesLoops` | 2 threads, 1 command, 1 retry, 1 failure |
| `engine_concurrent_live` | every call that has begun returns (`CallsReturn`) | the same without failure |
| `udp_forwarding` | `TypeOK`, `TableMatchesLoops`, `EntriesOpen`, `RepliesGoHome`, `ConnsReclaimed` | 2 hosts with the same port on IPv6, 3 connections, 3 datagrams |
| `ports_sequential` | with one call at a time: exactly the published ports are exposed on the chosen interfaces (`PublishedIsExposed`, `NothingElseExposed`), the table holds exactly the forwarders that run (`ForwardersAreTracked`), none runs or is in the table when Stop comes to end the distribution (`StopLeavesNothing`) | 1 thread, 2 interfaces and the loopback, a tcp and a udp port, 7 events (publish, take back, click, Start, Stop), 1 failing Stop |
| `ports_concurrent` | calls overlap, any kind of failure: `TypeOK`, the entry of a forwarder that the engine has stopped is about to go, whatever has failed (`DeadEntriesGo`), every call returns (`CallsReturn`) | 2 threads, 1 interface and the loopback, the same ports, 5 events, 1 failure |
| `installer_runs` | data goes only with an uninstallation (`DataSurvives`), what reports success is complete (`SucceededMeansInstalled`) and after an update current (`UpdatedIsCurrent`), no distribution is imported before the restart (`PlatformFirst`), an uninstallation that succeeds leaves nothing of its graph (`UninstallRemoves`), `TypeOK` | the shipped manifest, 2 versions, all or no optional resources, 3 runs of an installer, 1 failure or kill |
| `tcp_forwarding` | the forwarder implements `Proxy` (`ForwardsTraffic`), nothing stays open or running when a clientLoop returns (`NothingLeaks`), an end is passed on after the data (`EndComesLast`), after Close every clientLoop returns (`CloseEndsAll`), `TypeOK` | 1 connection, 2 bytes from each end |
| `docker_proxy` | binds that are created name what their clients mean, and what a client is shown of any bind leads to no other file, on Windows back to its own (`BindsResolve`); streams flow (`StreamsFlow`) and end only when their source has ended them (`EndsAreTrue`), no flush after the handler (`NoLateFlush`), an exchange cleans up unless it is an upgraded connection that one side has left while the other is silent (`ExchangesEnd`) | 2 exchanges of 2 clients, 11 kinds of request, 6 paths, 1 piece of data per direction |
| `dns_settings` | edits that are not in the file are known (`NothingUnsaved`), an engine that runs has a DNS forwarder (`DnsServed`), of the saved mode (`SavedModeApplies`) | 2 modes, 2 starts, 1 worker beside the engine's thread, 2 edits, toggles and changes of the network |
| `engine_disabled_distro`, `installer_rollback` | disagreements between the code and what the documents say, see section 6 | |

Why this is enough. With one retry and one failure a Start meets each of its failures
both on its last attempt and on one that is followed by another; the code's 3 retries
repeat the same transition, and the theorems hold for every number. Two threads are the
fewest on which calls overlap, and a Start that is retried beside a Start, Stop, Restart,
Reset, Quit or toggle meets each of their steps. Two commands in sequence after the first
Start reach Stop after Stop, Stop after a failed Stop, and a toggle between its two
readings of the menu item. Three datagrams of two clients over three connections let a
client's connection expire, be dialled again, and meet an answer to the earlier
datagram; two hosts with one port and one low half are the smallest pair that a careless
key confuses. Seven events select an interface, publish both ports, take one back and
restart the engine in any order; two interfaces are needed for "on the others nothing".
Five events on two threads let two messages, or a message, a toggle and a Stop, overlap
between publishing and the end of the distribution. Three runs of the installer reach an
installation, an update that fails, and whatever is run after it, and each of them may be
interrupted by a restart that counts as none; two versions are an old and a new one, in
either order. The connections of a TCP forwarder share nothing but `quit`, which only Run
closes; one of them meets it in each of its states. Two exchanges let the second client
be shown, and use, what the first one has created. Two starts of the engine give a
configurator that is disposed and one that is not, and two edits an unsaved one that a
toggle saves, or one during a save. The same invariants of the installer have been
checked with two runs and two failures, and those of the docker proxy with three
exchanges.
`CHECK_DEADLOCK FALSE` is set throughout: the application exits, the
commands of a run are finite, and a closed proxy has nothing left to do.

## 4. Fairness

`FairSpec` of the engine: a thread that has begun a call goes on with it, and so does a
loop at its test; both are threads of a pool that grows when its threads block. Nothing
else is fair: commands may never come, failures may never happen, a script in WSL may
never advance, and a command awaited by a loop may never end. WF suffices because the
step of a thread that has begun a call stays enabled until it takes it.

`FairSpec` of the UDP proxy: goroutines are scheduled, and a reply loop leaves its read
at the latest when the 90 s deadline expires (`ReplyEnds`; every read sets it again).
Clients and the backend are not fair. A connection with endless traffic would be served
for ever; the bound on datagrams rules that out, so `ConnsReclaimed` says what the code
says: *silent* connections are closed.

`FairSpec` of the port forwarding: a thread goes on with its call, and the listener
calls ForwardPort for the messages it has, as long as a thread is free. Containers, the
user, Start, Stop and failures are not fair.

`FairSpec` of the TCP forwarder: goroutines are scheduled, `connect` gives up in the end,
and an end reads what it is sent (a write that blocks for ever is the other end's doing).
Run is fair only once its listener is closed: else Accept may fail or not. `Proxy` asks
for delivery, for ends that are due, and for closing once the proxy has stopped or both
pipes have ended; a connection whose client has gone may wait for its container for ever,
as in the code.

`FairSpec` of the docker proxy: goroutines are scheduled, timers fire and the daemon
answers. Clients and daemon need not send, end or leave. The actions of ServeHTTP are one
goroutine, hence one WF. What is fair is only what the code would do: CloseNotify tells of
a client that has gone until the connection is hijacked (`NotifyFires`), and a copier errs
only when it reads from or writes to an end that has gone (`CopierEnds`).

The installer, the configuration and DNS are checked for safety only and have no
fairness.

## 5. Proofs

All proofs are checked by tlapm with Z3, Zenon and LS4. Assumptions: `EngineAssumption`
(the booting thread is one of the threads, the bounds are natural numbers),
`UDPAssumption` (addresses are as `net.UDPAddr` has them and the listener speaks one
version of IP) and `PortAssumption` (the loopback interface is not offered by the menu,
the placeholder is no interface and no port), `InstallerAssumption` (no version is
called "absent" or "partial", a selection selects optional resources),
`TCPAssumption` (`MaxBytes` is a natural number), `DockerAssumption` (a path
is a sequence of at least one segment), `SettingsAssumption` (what Load returns without a file are settings) and
`DnsAssumption` (the forwarder that does not run is no mode). Nothing is assumed about the
number of threads, distributions, clients, connections, bytes, modes, retries or failures,
nor about the versions and runs of an installer.

`GraphAssumption` is of another kind. It has no constants of a run in it: it says which
resources `BuildDependencyGraph` gives for the shipped manifest, and which of them come
before which, for every selection of optional resources and every set that was disabled.
The order is what a recursive function computes, which the provers cannot unfold; TLC
computes it, for all of these graphs, at the start of each run of the installer. The
manifest's attributes themselves are lemmas (`IdsAre`, `Attributes`).

Seven theorems speak of one call at a time, as the runs of their properties do: they have
the hypothesis `Threads = {t}`, because the properties are violated as soon as two
threads call. One of them, `StartNeverGivesUp`, also bounds the failures by the retries of
Start (`MaxFaults <= Retries`), which is what Polly promises. Those about ports except the failures for which the code makes no promise:
`ForwardersAlwaysTracked` a forwarder that exits by itself, which leaves an entry until
the next look at its key; `PublishedAlwaysExposed` and
`NothingElseEverExposed` every failure but that of Stop, since nothing tries a message
again that is lost, or a process that does not start. `RunningAlwaysUp` excepts a proxy that dies
by itself, which nothing watches; any step of any Start or Stop may fail.

| theorem | argument |
|---|---|
| `ContainerEngineProofs!TypeCorrect` | `TypeOK` is inductive. The hard part is `call[t].tries <= Retries`: only `AfterStop` counts, after its test |
| `AlwaysSettled` | `TypeOK /\ Settled` is inductive: a step that leaves the steps of Start and Stop sets `Running` or `Stopped` itself; a step that stays there is the witness |
| `AlwaysLoopsHaveSources`, `AlwaysCancelReachesLoops` | `LInv`, their conjunction with `TypeOK`: neither is inductive alone, since "no thread is in Start while `_cts` is null" is what lets Start spawn a loop, and a linked source's live parent is what keeps `cur` loops reachable |
| `UDPProxyProofs!TypeCorrect` | inductive, with "Run and the reply loops have what they are about to use" |
| `TableAlwaysMatchesLoops`, `EntriesAlwaysOpen` | `IInv` adds `ConnsMatchLoops` (a connection is open until its loop closes it or Close does) and needs that keys of different clients differ (`KeysDistinct`, from the arithmetic-free packing of the address) |
| `RepliesAlwaysGoHome` | `IInv` with `ConnsHaveOneClient`: whatever is in the backlog, the inbox or a buffer of a connection belongs to the client of its reply loop |
| `PortForwardingProofs!TypeCorrect` | `TypeOK` is inductive thanks to its conjunct `Equipped`: each location of a thread says which of interface and port its job must have |
| `DeadEntriesAlwaysGo` | inductive beside `TypeOK`: only `Killed` makes an entry dead (that of a forwarder that exits by itself becomes "exited"), and whoever kills is then at `remove` with that key, or in Stop before `Clear`; every other step either leaves that thread and entry alone or removes the entry |
| `InstallerProofs!DataIsSafe` | the inductive invariant says that unless it uninstalls, the loop is about to unset only a resource that an update installs anew (`UnsetsUpdated`), and that data has a distribution to be in. By the manifest (`ManifestFacts`) neither the data distribution nor the directory it lies in is such a resource; Set never replaces what is there, and what a failing Set leaves behind is never a distribution |
| `InstallerIsTyped`, `SuccessAlwaysInstalls`, `UpdateAlwaysRenews`, `PlatformAlwaysFirst`, `UninstallAlwaysRemoves` | `LoopInv` relates the resources the loop has *passed* to the machine: those of an installation are there, and new if an update installs them (`Installed`); those of an uninstallation are gone (`Removed`). It needs the order of what is still before the loop (`Ordered`): taking a directory away does not harm what has been passed, because its contents come later; a distribution is imported from an archive that is new already; the directory of the distributions goes after them, so none is left half. `PlatformOn` also has to know what an installation has *processed*, since a rollback sets again what the catch block hands it. What Test answers for each kind is `TestOfStored` |
| `TCPProxyProofs!Inductive` | `IInv` holds throughout: `RunQuits` (quit is closed exactly when Run has returned), `Stages` (what sockets and brokers a connection has at each point of its clientLoop) and `Pipes` (a broker stops for a reason, and only a stopped broker or a closed socket ends an end) |
| `TypeCorrect`, `NothingEverLeaks`, `EndsAlwaysComeLast` | from `IInv`. Type correctness needs `Stages` (a broker's client socket is the one opened by Accept). The end comes last because a socket closed under a running broker means quit (`ClosedByQuit`), and otherwise the broker saw the end of the stream or an end that is gone |
| `RunningAlwaysUp`, `StopAlwaysClean` | `UpOrDown`, per location of the one call: what Start has brought up so far (`Up`), what Stop has brought down so far unless one of its steps failed (`Down`), and `StateAt`: the state tells which of the two it is. `Running` must be known to be false at `start` and `reset`, else a Start that begins would have to keep what `Running` promises. That a data loop stays is the lemma `DataLoopStays`: a command that ends moves the loop to its test, which it leaves only with a cancelled source |
| `ContainerEngineProofs!CallsAlwaysAdvance` | a lexicographic measure: the attempts that a Start may still make (`AttemptsLeft`), the steps that are left of this one (`StepsLeft`), and the distributions that its foreach has still to come to (`RoundsLeft`: none once the enumerator is stale, since its next MoveNext throws). Each step of a call makes it smaller; another call's toggle can only make an enumerator stale, so it never makes it larger. Since `Retries` and `Distros` are finite the order is well-founded: no call goes on for ever |
| `StartNeverGivesUp` | `AttemptsCost`: every attempt that has been counted, and the Stop of a failed one, has cost a failure (`Spent`). It holds for one call at a time only: another call can make the enumerator of a Start stale, which costs no failure, and so use up the retries. The step that would give up then finds no failure left to have come from (`RetriesCover`) |
| `PortForwardingProofs!CallsAlwaysAdvance` | the same shape: the stages a call has before it, then what its foreach has not seen, then the steps of the round (`StagesLeft`, `RoundsLeft`, `StepsLeft`); well-founded because there are finitely many interfaces and ports |
| `ForwardersAlwaysTracked`, `StopAlwaysClears` | `TableInv`: `Tracked` relates processes and entries at every location of the call (between starting a process and adding its entry the table lags behind, between finding a dead entry and removing it the table is ahead), `Stopped` says what the foreach of Stop has killed and that nothing is left of it at "terminate", which is what `StopAlwaysClears` says, `Placed` that a call is where its kind goes. Inductive whatever fails |
| `PublishedAlwaysExposed`, `NothingElseEverExposed` | `SeqInv` adds what ForwardPort has done for the interfaces it has passed (`Forwarding`), what a toggle has done for the ports it has passed (`Toggling`), and `Published`: the last message about a published port on its way opens it (`OpenLast`), and if there is none (`NoMessage`) the port is listed and exposed but for what the call is about to do. Neither is inductive without the other: a port that comes while a toggle runs is exposed by its message, one that was there before by the toggle |
| `NeverLateFlush` | `FlushInv`: something is pending for the timer only while the handler copies. Every way out of copyResponse runs `stop`, and a timer that has fired finds nothing pending |
| `EndsAlwaysTrue` | `EndsInv`: an upgraded connection's results are counted (`Counted`: those received or in the channel are those of the copiers that are done), a copier is done for a reason (`CopiersTrue`), and until a side has gone nothing is closed under a copier (`Whole`). So the handler, which returns on an error or on two results, cuts no direction short |
| `BindsAlwaysResolve` | `BindInv`: the source of a request is its client's until the Director, then what `mapPath` makes of it (`MapsToFile`), and so is what the daemon has (`Told`), on its way back to whoever is shown it. It comes back as the same file on Windows (`ShownReturns`), and leads none of the clients to the file of another (`ShownNeverMisleads`, by what a path stands under: a drive, a distribution or neither). The lemmas on `mapPath` hold for paths of any length; `Rewriters` finds the pattern that each URL meets first. Hypotheses: clients name what they can name (`Nameable`): no path under `/mnt/host` or `/mnt/wsl`, a drive has a letter, and the marks "/" and ":" only begin a path; and no client is called as a mark or "engine", the model's name for the daemon's own files (`ClientsNamed`) |
| `NothingUnsavedForgotten` | `SvcInv`: as long as saves have not met, at most one is past its comparison, what it has in hand is what is in the file, and between saves the snapshot is the file |
| `DnsAlwaysServed` | `Served`: between its first launch and its stop an engine has a forwarder that listens, one on its way, or a Configure that is about to launch one. Needs that what is stopped is always launched again by the same Configure, which reads its addresses before it stops |
| `SavedModeAlwaysApplies` | `DnsInv`: the forwarder is the one of the live mode, or something is still to come (`Applies`): a Configure that is queued or yet to read, a save that will raise an event (`EventPending`), or an edit that is not saved (`ModeUnsaved`). `Sole` says that as long as Configures have not met one forwarder at most is on its way, to a free port, else the wrong one could take it |
| `ForwardsSafely` | step simulation of `Proxy`: BrokerWrites is Deliver, BrokerCloses and CloseClient are DeliverEnd or a stutter, CloseBackend is Shut, DialFails is Refuse. `IInv` gives each abstract guard: no end has ended that a broker still writes to, and clientLoop closes only what is finished or cut |

Two habits worth keeping. The prover mistranslates an `EXCEPT` with two updates below
the same path (`[f EXCEPT ![k].a = 1, ![k].b = 2]`), and such a line makes anything
provable; these modules write `![k] = [@ EXCEPT ...]`. And each proof module was probed:
from the invariant and each single action the prover does *not* derive FALSE. Leaves are
kept small: all of them prove with a fifth of tlapm's default time limits.

Only model-checked: every liveness property (`CallsReturn`, `LoopsEnd`,
`StartSurvivesFaults`, `ConnsReclaimed`, `CloseEndsAll` and others), since liveness under
fairness and ENABLED are out of the prover's reach, which also leaves the fairness of
`ForwardsTraffic` to TLC. Half of three of them is proved all the same: by the two theorems
`CallsAlwaysAdvance` the calls of the engine and of port forwarding cannot run for ever, and
by `StartNeverGivesUp` a Start does not give up before its retries do. What the runs add for
`CallsReturn` and `StartSurvivesFaults` is that a call which has not ended always has a step
it can take, and that fairness makes it take one. Every invariant and every action property
of the runs that hold is a theorem. Of the algorithms, `BuildDependencyGraph` is evaluated
for all graphs of the shipped manifest and proved for none: that is induction over data,
as RECURSIVE operators are, out of reach.

## 6. What the runs found

Two of these are runs that TLC ends with a counterexample. For others the property is in
the module without a run of its own (`StoppedMeansProxyDown`, `DaemonUsesDataDistro` in
ContainerEngine, `ChosenIsExposed` in PortForwarding), and TLC violates it there; the
rest are exceptions the properties had to make.

* **Stop may leave the proxy running** (`StoppedMeansProxyDown`). `StopDistros` throws
  when a distribution's docker link is not there (`wsl-distro-rm.sh` exits with the
  status of its last command), `StopProxy`, the cancellation and the terminations are
  skipped, and the state is `Stopped`, in which the menu offers no Stop.
* **The daemon may start on the local disk** (`DaemonUsesDataDistro`).
  `WaitForDataDistroInitialization` returns whether its timeout has expired, so an
  unmounted data distribution counts as success.
* **A disabled distribution may get its proxy afterwards** (`engine_disabled_distro`).
  The init script is not awaited, and cancelling its source kills nothing because
  `CompleteAsync` throws before it reaches `Kill`.
* **Close may miss a connection**: the UDP proxy's Run may dial it after Close has
  walked the table. It goes with its read deadline (`ConnsReclaimed`), and today's
  program exits right after Close. Of the TCP proxy, Close alone is enough.
* **A chosen interface may get no port** (`ChosenIsExposed`). Before the first Start has
  made the DNS configurator, `EnablePortForwardingInterface` throws, the handler swallows
  the exception, and the configuration is left as it was while the menu item is checked.
  The same happens when `_ports` changes while the toggle enumerates it.
* **A rollback applies again** (`installer_rollback`). The catch block of
  `ConfigurationManifest.Apply` hands the inner loop a context with Uninstall set, and the
  loop reads the outer one: everything stays, and the result is `RolledBack`.
* **An installation may succeed without a data distribution.** An update skips it whether
  it is there or not, and an uninstallation by a version other than the registered one
  leaves the registration. Installing version 1 up to the restart, going on with version
  2 (whose `CopyFile.Test` keeps the installer of version 1), uninstalling and installing
  once more is enough: four runs, without the exception in `SucceededMeansInstalled`.
* **CLI plugins are never updated.** `CopyFile.Test` answers that a file is installed when
  it *differs* from its source, and the plugins have no `onUpdateAction`; hence
  `UpdatedIsCurrent` speaks only of resources that are installed anew on an update.
* **Half an unpacked directory counts as unpacked** when the first installation is
  interrupted there and run again: Test only looks whether the directory is there.
  `SucceededMeansInstalled` accepts "partial" for that reason.

* **A save that meets another one loses track.** SaveAndNotify remembers what it wrote
  only after its event: a save inside of the handler, or on another thread, leaves an
  older snapshot in `_loadedConfiguration`. Changes already in the file count as unsaved,
  and changing them back counts as saved. The handler of the settings page also asks
  IsChanged before the snapshot is replaced, so its buttons stay enabled after a save.
* **Settings apply before they are saved, or not at all.** Configure reads the live
  configuration, so that a change of the network applies an edit the user has not saved,
  and a toggle saves it. Undoing such an edit by hand raises no event. An edit that comes
  between the comparison and the serialization is written without an event.
  `SavedModeApplies` excepts these.
* **A disposed DnsConfigurator may live on.** `WeakEventManager` keeps its listeners per
  thread, so Dispose on another thread leaves the handler of configuration changes; a
  constructor that throws is never disposed at all. Their Configure starts the terminated
  distribution again. A forwarder that was launched before a `pkill` and arrives after it
  takes the port, and the one with the newer name servers exits.
* **Discard keeps what was added to a collection**, since `PopulateObject` adds to it.
* **Updates of services are not translated.** The pattern asks for an empty segment
  (`/services/(/.*?)/update`), so the body gets the rewriter of whole services and its
  bind mounts keep the client's paths; `CreatedBindsResolve` excepts it.
* **Few paths come back.** A distribution is shown its own paths without the leading `/`
  and those of Windows as drives; Windows is shown paths of a distribution without
  their distribution: none of these leads back to the file, nor to any other
  (`ShownBindsNeverMislead`). `ShownBindsReturn` speaks of what does come back: files of
  Windows and the daemon's own, on Windows.
* **The list of services may mislead.** It is not translated, so a distribution is shown
  the daemon's own files as they are: `/run/docker.sock`, asked for again, is translated
  to one of the distribution's own. `ShownBindsNeverMislead` excepts it.
* **Paths of the daemon in a request are translated the wrong way.** `mapPath` does not know
  the direction: a client inside a distribution that asks for `/mnt/wsl/...` or
  `/mnt/host/...`, which it may see as well, has its path turned into one of a client.
  `BindsAlwaysResolve` excepts these, and TLC's paths have none.
* **An upgraded connection may outlive the side that has left it.** After Hijack neither
  CloseNotify nor the request's context tells that the client has gone (reverseproxy.go:605),
  and a copier learns of it only when it has something to write (643-655). As long as the
  other side is silent, the handler, its goroutines and both connections stay.
  `ExchangesEnd` excepts that, and TLC violates it without the exception.
* **Logs of services and tasks hang.** A URL that a pattern matches has its response read
  to the end; a stream has none, and one that has ended is dropped as it is no JSON.
  Hence `PassedOn` in `StreamsFlow` and `EndsAreTrue`.

## 7. Abstractions and what is left out

Engine. The two tests of a loop's round read the same field and are one action. Phases
of the per-distribution script are sets, so a second launch of the same script while the
first is at the same point is the same script. StopDnsConfigurator and
StopPortForwarding touch no state of this module and are part of `BeginStop`; killing the
old proxy and starting the new one is one step. UpdateDaemonConfig and
UpdateCertificates swallow their failures and only precede the daemon. Cancelling a
distribution's source has no effect and is left out. Waiting for the retry and waiting
for the thread pool are the same `pc`. The dispatcher calls of `RunningStateChanged` are
presentation and are left out.

UDP. A datagram that is lost, or refused with ECONNREFUSED, is one the backend never
answers. Buffers, sizes and zones of addresses are left out.

Port forwarding. Each access to a shared collection is atomic: what concurrent writes do
to the inside of a `Dictionary` or `List` is left out, what they do to enumerators is
not. An interface has one IPv4 address. Messages for IPv6 are ignored, as in the code.
Listening is exclusive and a killed process is gone at once; a port that is slow to be
released is the failure `bind`. The messages of successive listeners wait in one queue,
which the end of a distribution empties or not. A Start reaches its DNS step at once, and
one that fails is a Start followed by a Stop.

Installer. The version stands for the contents of a file, a directory or a registration.
A directory is deleted with what lies in it, or not at all when a program runs from it;
other failures of Unset change nothing. A half unpacked directory may or may not have the
file that is looked for (`MayMiss`). A distribution whose disk is deleted while it is
registered is "partial". Windows features are off at first and never taken away; the
kernel package asks for no restart. Messages, progress, settings given on the command
line and `--quiet` without `--unattended` are left out.

TCP. What is sent is a count; a socket is open or closed, and errors of reading and
writing are what a gone end or a closed socket produces. Two connections together are
left out (section 3).

Docker proxy. One exchange at a time: exchanges share nothing in the proxy. A body is
rewritten or a stream; a request that has no bind mounts has no body. A client asks about
an object that exists unless it creates one, and names files it can name. The daemon
answers an upgrade with the type that was asked for, and refuses the path of a drive as a
bind source. A relative path whose first segment is one letter, which the proxy on Windows
takes for a drive, is left out. Writing to a side that has gone fails at once. Headers, trailers, status codes, TLS and the copies of net/http (ascii,
closewriter) are left out, and so is JSON the Docker API does not send. The last words of
the patterns also match the beginning of longer segments; no name in the model is one.

Configuration and DNS. The settings are the DNS mode and one version that stands for all
settings without influence on DNS. Serializing and writing are one step, and so is
reading and populating in Load. `Static` addresses are part of the settings and are never
missing. A forwarder that was told to stop has freed its port before a later one
arrives. One engine command runs at a time (overlapping ones are ContainerEngine's), and
a configurator that was left subscribed is not collected. UpdateCertificates is left out:
what it races about are files (CE:108-151 against CE:572).

Not modelled: WPF pages, converters and windows (presentation); process start and WSL invocation beyond their outcome
(system I/O); build and release; vendored code (`docs/static/js`).

## 8. Plan

What the system's own logic has is modelled. What is left, most valuable first:

1. Compositions: the engine with DNS and port forwarding in one module, for overlapping
   commands.
2. Proofs: more of the refinements, once UDPProxy or a composition has an abstract
   specification.
3. UDPProxy as another implementation of `Proxy`, as far as datagrams have ends.
