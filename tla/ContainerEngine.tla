-------------------------- MODULE ContainerEngine --------------------------
(***************************************************************************)
(* The life cycle of DefaultContainerEngine: Start with its Polly retries, *)
(* Stop, Restart, Dispose, the Reset and distribution-toggle handlers of   *)
(* MainViewModel that call into it, the two background loops (the data     *)
(* distribution and the port-forward listener) and the per-distribution    *)
(* scripts it launches inside WSL.  Nothing in the engine is synchronised: *)
(* every call runs on a thread-pool thread of its own, and the loops read  *)
(* the fields _cts and _portforwardListenerCts, not the sources they were  *)
(* started with.                                                           *)
(*                                                                         *)
(* Cancellation sources are not numbered.  _cts.Cancel() only ever reaches *)
(* the source the field holds, so a wait on a token is either on the       *)
(* current source ("cur") or on one nobody can cancel any more ("old").    *)
(***************************************************************************)
EXTENDS Integers, FiniteSets

CONSTANTS
    Threads,     \* thread-pool threads that run UI commands
    Boot,        \* the one that runs the Start of App.AppStartup
    Distros,     \* user WSL distributions
    Retries,     \* WaitAndRetry count of Start (3 in the code)
    MaxCalls,    \* bound: UI commands issued in a behaviour
    Faults,      \* kinds of failure the environment may inject
    MaxFaults    \* bound: failures injected in a behaviour

ASSUME EngineAssumption ==
    /\ Boot \in Threads
    /\ Retries \in Nat /\ MaxCalls \in Nat /\ MaxFaults \in Nat

VARIABLES
    runningState,           \* _runningState
    cts,                    \* the source in _cts: "null", "live", "cancelled"
    portforwardListenerCts, \* its linked source; "orphan": parent replaced uncancelled
    loops,                  \* number of background loops of each kind in each phase
    daemon,                 \* dockerd: "down", on the "data" mount, or on "local" disk
    dataMounted,            \* /wsl-init-data.sh has mounted the data distribution
    proxy,                  \* the process in _proxyProcess: "none", "up", "exited"
    enabledDistributions,   \* Configuration.EnabledDistributions
    itemEnabled,            \* WslDistributionItem.Enabled: distributions checked in the menu
    link,                   \* distributions whose cli-plugins link exists
    served,                 \* distributions with a running docker proxy
    linking, starting,      \* wsl-distro-init.sh before the links / before the proxy
    pc,                     \* location of each thread
    call,                   \* what the call on each thread keeps on its stack
    calls, faultsLeft,      \* bounds: commands issued, failures left to inject
    app                     \* the application has not exited

engine  == <<runningState, cts, portforwardListenerCts>>
world   == <<daemon, dataMounted, proxy>>
scripts == <<link, served, linking, starting>>
vars    == <<engine, loops, world, enabledDistributions, scripts, pc, call,
             calls, faultsLeft, app, itemEnabled>>

-----------------------------------------------------------------------------
(* Threads, background loops and injected failures.                        *)

StartPCs == {"terminate", "dns", "data", "dataWait", "listen", "daemon",
             "proxy", "proxyWait", "distros"}
StopPCs  == {"distrosDown", "stopProxy", "cancel", "stopDaemon", "stopped"}
PCs      == StartPCs \cup StopPCs
                \cup {"idle", "start", "stop", "reset", "toggle", "enable", "save"}

Kinds  == {"data", "listen"}
Phases == {"check", "cur", "old"}

\* A loop is at the condition of its while (or in the delay before it), or awaits the
\* command it executes: on the token of the current source, or on that of an old one.

\* An idle thread.  "then" is what follows a Stop, "foreach" the distributions an
\* enumerator has yielded and whether the set changed under it.
NoCall == [then |-> "return", tries |-> 0, failed |-> FALSE, boot |-> FALSE,
           visited |-> {}, stale |-> FALSE, toggle |-> {}]

Goto(t, l) == pc' = [pc EXCEPT ![t] = l]
Return(t)  == Goto(t, "idle") /\ call' = [call EXCEPT ![t] = NoCall]

\* The catch block of Start calls Stop.
Throw(t) == Goto(t, "stop") /\ call' = [call EXCEPT ![t].then = "retry"]

\* Mutant: Stop begins again until every step of it succeeds.
ThrowInStopRetries(t) == Goto(t, "stop") /\ call' = [call EXCEPT ![t].failed = TRUE]

\* An exception inside Stop skips the rest of its try block.
ThrowInStop(t) == Goto(t, "stopped") /\ call' = [call EXCEPT ![t].failed = TRUE]

Fault(f) == f \in Faults /\ faultsLeft > 0 /\ faultsLeft' = faultsLeft - 1
NoFault  == faultsLeft' = faultsLeft

NoLoops == [k \in Kinds |-> [p \in Phases |-> 0]]

\* One loop of kind k moves from phase p to phase q.
Moved(counts, p, q) == [counts EXCEPT ![p] = @ - 1, ![q] = @ + 1]
MoveLoop(k, p, q) ==
    /\ loops[k][p] > 0
    /\ loops' = [loops EXCEPT ![k] = Moved(@, p, q)]
EndLoop(k, p) ==
    /\ loops[k][p] > 0
    /\ loops' = [loops EXCEPT ![k][p] = @ - 1]

\* Terminating the distribution a loop executes in ends the command it awaits.
ExecsExit(ls, k) ==
    [ls EXCEPT ![k] = [p \in Phases |->
        IF p = "check" THEN ls[k]["check"] + ls[k]["cur"] + ls[k]["old"] ELSE 0]]

\* _cts = new: waits on the replaced source can no longer be cancelled.
Orphan(ls) ==
    [k \in Kinds |-> [ls[k] EXCEPT !["cur"] = 0, !["old"] = @ + ls[k]["cur"]]]

\* Mutant: ExecuteCommandAsync is called without the token.
CancelWaitsNobody(ls) == ls

\* Cancelling _cts ends every loop that waits on its token.
CancelWaits(ls) == [k \in Kinds |-> [ls[k] EXCEPT !["cur"] = 0]]

Init ==
    /\ runningState = "Stopped" /\ cts = "null" /\ portforwardListenerCts = "null"
    /\ loops = NoLoops
    /\ daemon = "down" /\ dataMounted = FALSE /\ proxy = "none"
    /\ enabledDistributions \in SUBSET Distros /\ itemEnabled = enabledDistributions
    /\ link = {} /\ served = {} /\ linking = {} /\ starting = {}
    /\ pc = [t \in Threads |-> IF t = Boot THEN "start" ELSE "idle"]
    /\ call = [t \in Threads |-> [NoCall EXCEPT !.boot = (t = Boot)]]
    /\ calls = 0 /\ faultsLeft = MaxFaults /\ app = TRUE

-----------------------------------------------------------------------------
(* UI commands.  CanExecute is evaluated at the click; Task.Run starts the *)
(* call later.                                                             *)

CanExecute(c) ==
    CASE c = "start" -> runningState = "Stopped"
      [] c \in {"stop", "restart"} -> runningState = "Running"
      [] c = "reset" -> runningState # "Starting"
      [] c = "quit" -> TRUE

ThenOf(c) ==
    CASE c = "restart" -> "start" [] c = "reset" -> "reset" [] c = "quit" -> "exit"
      [] OTHER -> "return"

Issue(t) == app /\ pc[t] = "idle" /\ calls < MaxCalls /\ calls' = calls + 1

Click(t, c) ==
    /\ Issue(t)
    /\ CanExecute(c)
    /\ Goto(t, IF c = "start" THEN "start" ELSE "stop")
    /\ call' = [call EXCEPT ![t].then = ThenOf(c)]
    /\ UNCHANGED <<engine, loops, world, enabledDistributions, scripts,
                   faultsLeft, app, itemEnabled>>

\* The click flips the menu item, whose Enabled the call reads later, and twice.
ClickToggle(t, d) ==
    /\ Issue(t)
    /\ Goto(t, "toggle")
    /\ call' = [call EXCEPT ![t].toggle = {d}]
    /\ itemEnabled' = IF d \in itemEnabled THEN itemEnabled \ {d} ELSE itemEnabled \cup {d}
    /\ UNCHANGED <<engine, loops, world, enabledDistributions, scripts, faultsLeft, app>>

-----------------------------------------------------------------------------
(* Start                                                                   *)

\* _cts = new CancellationTokenSource(); RunningState = Starting.  A thread waits at
\* "start" for the thread pool, or for the 2 s between two attempts.
BeginStart(t) ==
    /\ pc[t] = "start"
    /\ cts' = "live" /\ runningState' = "Starting"
    /\ portforwardListenerCts' =
           IF portforwardListenerCts = "linked" THEN "orphan" ELSE portforwardListenerCts
    /\ loops' = Orphan(loops)
    /\ Goto(t, "terminate")
    /\ UNCHANGED <<world, enabledDistributions, scripts, call, calls,
                   faultsLeft, app, itemEnabled>>

TerminateDistro(t) ==
    /\ pc[t] = "terminate"
    /\ daemon' = "down"
    /\ loops' = ExecsExit(loops, "listen")
    /\ Goto(t, "dns")
    /\ UNCHANGED <<engine, dataMounted, proxy, enabledDistributions, scripts, call,
                   calls, faultsLeft, app, itemEnabled>>

\* Throws when no WSL network interface exists.
InitializeDnsConfigurator(t) ==
    /\ pc[t] = "dns"
    /\ \/ NoFault /\ Goto(t, "data") /\ UNCHANGED call
       \/ Fault("dns") /\ Throw(t)
    /\ UNCHANGED <<engine, loops, world, enabledDistributions, scripts, calls,
                   app, itemEnabled>>

InitializeDataDistro(t) ==
    /\ pc[t] = "data"
    /\ loops' = [loops EXCEPT !["data"]["check"] = @ + 1]
    /\ Goto(t, "dataWait")
    /\ UNCHANGED <<engine, world, enabledDistributions, scripts, call, calls,
                   faultsLeft, app, itemEnabled>>

\* Some loop's command runs in the data distribution.
DataExecutes == loops["data"]["cur"] + loops["data"]["old"] > 0

\* Succeeds when the 5 s are over, whatever happened in the distribution, and
\* gives up only when the last process ps lists is the tail it waits for.
WaitForDataDistroInitialization(t) ==
    /\ pc[t] = "dataWait"
    /\ \/ NoFault /\ Goto(t, "listen") /\ UNCHANGED call
       \/ dataMounted /\ DataExecutes /\ Fault("tailListed") /\ Throw(t)
    /\ UNCHANGED <<engine, loops, world, enabledDistributions, scripts, calls,
                   app, itemEnabled>>

\* Mutant: the listener is started before its source is stored.
InitializePortForwardListenerUnlinked(t) ==
    /\ pc[t] = "listen"
    /\ NoFault /\ loops' = [loops EXCEPT !["listen"]["check"] = @ + 1]
    /\ Goto(t, "daemon")
    /\ UNCHANGED <<engine, world, enabledDistributions, scripts, call, calls, app, itemEnabled>>

\* The linked source is replaced even when the shim cannot be installed.
InitializePortForwardListener(t) ==
    /\ pc[t] = "listen"
    /\ portforwardListenerCts' = IF cts = "live" THEN "linked" ELSE "cancelled"
    /\ \/ NoFault /\ loops' = [loops EXCEPT !["listen"]["check"] = @ + 1]
       \/ Fault("shim") /\ UNCHANGED loops
    /\ Goto(t, "daemon")
    /\ UNCHANGED <<runningState, cts, world, enabledDistributions, scripts,
                   call, calls, app, itemEnabled>>

\* wsl-init.sh bind-mounts the data directory without looking at the result.
StartedDaemon ==
    IF daemon # "down" THEN daemon ELSE IF dataMounted THEN "data" ELSE "local"

\* UpdateDaemonConfig, UpdateCertificates and wsl-init.sh, which may give up on the
\* daemon before or after it has launched it.
InitializeAndStartDaemon(t) ==
    /\ pc[t] = "daemon"
    /\ \/ NoFault /\ daemon' = StartedDaemon /\ Goto(t, "proxy") /\ UNCHANGED call
       \/ Fault("daemon") /\ daemon' \in {daemon, StartedDaemon} /\ Throw(t)
    /\ UNCHANGED <<engine, loops, dataMounted, proxy, enabledDistributions,
                   scripts, calls, app, itemEnabled>>

\* Kills the proxy it finds and starts a new one.
StartProxy(t) ==
    /\ pc[t] = "proxy"
    /\ proxy' = "up"
    /\ Goto(t, "proxyWait")
    /\ UNCHANGED <<engine, loops, daemon, dataMounted, enabledDistributions, scripts, call,
                   calls, faultsLeft, app, itemEnabled>>

\* Mutant: the result of WaitForExit is not looked at.
AwaitProxyUnchecked(t) ==
    /\ pc[t] = "proxyWait"
    /\ Goto(t, "distros")
    /\ call' = [call EXCEPT ![t] = [@ EXCEPT !.visited = {}, !.stale = FALSE]]
    /\ \/ NoFault /\ UNCHANGED proxy
       \/ Fault("proxy") /\ proxy' = "exited"
    /\ UNCHANGED <<engine, loops, daemon, dataMounted, enabledDistributions,
                   scripts, calls, app, itemEnabled>>

\* _proxyProcess.WaitForExit(1000), on whatever process the field holds by now.
AwaitProxy(t) ==
    /\ pc[t] = "proxyWait"
    /\ \/ /\ NoFault /\ UNCHANGED proxy
          /\ IF proxy = "up"
             THEN /\ Goto(t, "distros")
                  /\ call' = [call EXCEPT ![t] = [@ EXCEPT !.visited = {}, !.stale = FALSE]]
             ELSE Throw(t)
       \/ proxy = "up" /\ Fault("proxy") /\ proxy' = "exited" /\ Throw(t)
    /\ UNCHANGED <<engine, loops, daemon, dataMounted, enabledDistributions,
                   scripts, calls, app, itemEnabled>>

\* EnableDistro(d, true) launches the script and does not wait for it.
LaunchInitScript(d) == linking' = linking \cup {d} /\ UNCHANGED <<link, served, starting>>

InitializeDistros(t) ==
    /\ pc[t] = "distros"
    /\ \/ call[t].stale /\ Throw(t) /\ UNCHANGED scripts
       \/ /\ ~call[t].stale
          /\ \E d \in enabledDistributions \ call[t].visited :
                /\ LaunchInitScript(d)
                /\ call' = [call EXCEPT ![t].visited = @ \cup {d}]
          /\ UNCHANGED pc
    /\ UNCHANGED <<engine, loops, world, enabledDistributions, calls,
                   faultsLeft, app, itemEnabled>>

FinishStart(t) ==
    /\ pc[t] = "distros"
    /\ ~call[t].stale /\ enabledDistributions \subseteq call[t].visited
    /\ runningState' = "Running"
    /\ Return(t)
    /\ UNCHANGED <<cts, portforwardListenerCts, loops, world, enabledDistributions, scripts,
                   calls, faultsLeft, app, itemEnabled>>

-----------------------------------------------------------------------------
(* Stop                                                                    *)

\* StopDnsConfigurator and StopPortForwarding touch no state modelled here.
BeginStop(t) ==
    /\ pc[t] = "stop"
    /\ runningState' = "Stopping"
    /\ Goto(t, "distrosDown")
    /\ call' = [call EXCEPT ![t] = [@ EXCEPT !.visited = {}, !.stale = FALSE, !.failed = FALSE]]
    /\ UNCHANGED <<cts, portforwardListenerCts, loops, world, enabledDistributions, scripts,
                   calls, faultsLeft, app, itemEnabled>>

\* wsl-distro-rm.sh kills the proxy and removes the links; its exit status is that
\* of the last command, which fails when the cli-plugins link is not there.
RunRmScript(d) == served' = served \ {d} /\ link' = link \ {d} /\ UNCHANGED <<linking, starting>>
RmScriptOk(d)  == d \in link

StopDistros(t) ==
    /\ pc[t] = "distrosDown"
    /\ LET rest == enabledDistributions \ call[t].visited IN
       \/ call[t].stale /\ ThrowInStop(t) /\ UNCHANGED <<scripts, faultsLeft>>
       \/ /\ ~call[t].stale
          /\ \E d \in rest :
                \/ /\ RunRmScript(d) /\ NoFault
                   /\ IF RmScriptOk(d)
                      THEN call' = [call EXCEPT ![t].visited = @ \cup {d}] /\ UNCHANGED pc
                      ELSE ThrowInStop(t)
                \/ Fault("wsl") /\ ThrowInStop(t) /\ UNCHANGED scripts
       \/ /\ ~call[t].stale /\ rest = {}
          /\ Goto(t, "stopProxy") /\ UNCHANGED <<call, scripts, faultsLeft>>
    /\ UNCHANGED <<engine, loops, world, enabledDistributions, calls, app, itemEnabled>>

StopProxy(t) ==
    /\ pc[t] = "stopProxy"
    /\ proxy' = IF proxy = "up" THEN "exited" ELSE proxy
    /\ Goto(t, "cancel")
    /\ UNCHANGED <<engine, loops, daemon, dataMounted, enabledDistributions, scripts, call,
                   calls, faultsLeft, app, itemEnabled>>

\* _cts.Cancel(): a NullReferenceException before the first Start.
Cancel(t) ==
    /\ pc[t] = "cancel"
    /\ \/ cts = "null" /\ ThrowInStop(t) /\ UNCHANGED <<engine, loops>>
       \/ /\ cts # "null" /\ cts' = "cancelled"
          /\ portforwardListenerCts' =
                 IF portforwardListenerCts = "linked" THEN "cancelled" ELSE portforwardListenerCts
          /\ loops' = CancelWaits(loops)
          /\ Goto(t, "stopDaemon")
          /\ UNCHANGED <<runningState, call>>
    /\ UNCHANGED <<world, enabledDistributions, scripts, calls, faultsLeft, app, itemEnabled>>

\* Mutant: only the docker distribution is terminated.
TerminateOne ==
    /\ daemon' = "down"
    /\ loops' = ExecsExit(loops, "listen")
    /\ dataMounted' \in {FALSE, dataMounted}

\* The data mount may or may not survive the distribution it came from.
TerminateBoth ==
    /\ daemon' = "down"
    /\ loops' = ExecsExit(ExecsExit(loops, "listen"), "data")
    /\ dataMounted' \in {FALSE, dataMounted}

StopDaemon(t) ==
    /\ pc[t] = "stopDaemon"
    /\ TerminateBoth
    /\ Goto(t, "stopped")
    /\ UNCHANGED <<engine, proxy, enabledDistributions, scripts, call, calls,
                   faultsLeft, app, itemEnabled>>

\* Mutant: one retry less than asked for.
AfterStopRetriesLess(t) ==
    LET c == call[t] IN
    IF c.then = "retry" /\ c.tries + 1 < Retries
    THEN Goto(t, "start") /\ call' = [call EXCEPT ![t].tries = @ + 1]
    ELSE Return(t)

\* Mutant: one retry more than asked for.
AfterStopRetriesMore(t) ==
    LET c == call[t] IN
    IF c.then = "retry" /\ c.tries <= Retries
    THEN Goto(t, "start") /\ call' = [call EXCEPT ![t].tries = @ + 1]
    ELSE Return(t)

\* What follows a Stop, by the method that called it.  AppStartup quits the
\* application when its Start fails for good.
AfterStop(t) ==
    LET c == call[t] IN
    CASE c.then = "retry" /\ c.tries < Retries ->
            Goto(t, "start") /\ call' = [call EXCEPT ![t].tries = @ + 1]
      [] c.then = "retry" /\ ~(c.tries < Retries) /\ c.boot ->
            Goto(t, "stop") /\ call' = [call EXCEPT ![t] = [NoCall EXCEPT !.then = "exit"]]
      [] c.then \in {"start", "reset"} /\ ~c.failed -> Goto(t, c.then) /\ UNCHANGED call
      [] OTHER -> Return(t)

\* Mutant: the state is set at the end of the try block.
FinishStopNoFinally(t) ==
    /\ pc[t] = "stopped" /\ call[t].then # "exit"
    /\ runningState' = IF call[t].failed THEN runningState ELSE "Stopped"
    /\ AfterStop(t)
    /\ UNCHANGED <<cts, portforwardListenerCts, loops, world, enabledDistributions, scripts,
                   calls, faultsLeft, app, itemEnabled>>

\* The finally block.
FinishStop(t) ==
    /\ pc[t] = "stopped" /\ call[t].then # "exit"
    /\ runningState' = "Stopped"
    /\ AfterStop(t)
    /\ UNCHANGED <<cts, portforwardListenerCts, loops, world, enabledDistributions, scripts,
                   calls, faultsLeft, app, itemEnabled>>

\* The Stop of Dispose, and the exit of the process with all its threads.
Exit(t) ==
    /\ pc[t] = "stopped" /\ call[t].then = "exit"
    /\ runningState' = "Stopped" /\ app' = FALSE
    /\ pc' = [u \in Threads |-> "idle"] /\ call' = [u \in Threads |-> NoCall]
    /\ loops' = NoLoops
    /\ UNCHANGED <<cts, portforwardListenerCts, world, enabledDistributions, scripts,
                   calls, faultsLeft, itemEnabled>>

-----------------------------------------------------------------------------
(* Reset and ToggleWslDistro of the view model                             *)

Reset(t) ==
    /\ pc[t] = "reset"
    /\ TerminateBoth
    /\ \/ NoFault /\ Goto(t, "start") /\ UNCHANGED call
       \/ Fault("import") /\ Return(t)
    /\ UNCHANGED <<engine, proxy, enabledDistributions, scripts, calls, app, itemEnabled>>

ToggleWslDistro(t) ==
    /\ pc[t] = "toggle"
    /\ Goto(t, IF runningState = "Running" THEN "enable" ELSE "save")
    /\ UNCHANGED <<engine, loops, world, enabledDistributions, scripts, call,
                   calls, faultsLeft, app, itemEnabled>>

\* The exception of a failed script skips the change of the configuration.
EnableDistro(t) ==
    /\ pc[t] = "enable"
    /\ \E d \in call[t].toggle :
          \/ /\ d \in itemEnabled
             /\ LaunchInitScript(d) /\ NoFault /\ Goto(t, "save") /\ UNCHANGED call
          \/ /\ d \notin itemEnabled
             /\ RunRmScript(d) /\ NoFault
             /\ IF RmScriptOk(d) THEN Goto(t, "save") /\ UNCHANGED call ELSE Return(t)
          \/ /\ d \notin itemEnabled
             /\ Fault("wsl") /\ Return(t) /\ UNCHANGED scripts
    /\ UNCHANGED <<engine, loops, world, enabledDistributions, calls, app, itemEnabled>>

\* Every other enumerator over the set becomes stale.
Invalidate(t) ==
    call' = [u \in Threads |-> IF u = t THEN NoCall ELSE [call[u] EXCEPT !.stale = TRUE]]

\* Adding to the set invalidates the enumerators over it, removing does not.
SaveToggle(t) ==
    /\ pc[t] = "save"
    /\ \E d \in call[t].toggle :
          \/ /\ d \in itemEnabled \ enabledDistributions
             /\ enabledDistributions' = enabledDistributions \cup {d}
             /\ Invalidate(t)
          \/ /\ d \in itemEnabled \cap enabledDistributions
             /\ UNCHANGED enabledDistributions
             /\ call' = [call EXCEPT ![t] = NoCall]
          \/ /\ d \notin itemEnabled
             /\ enabledDistributions' = enabledDistributions \ {d}
             /\ call' = [call EXCEPT ![t] = NoCall]
    /\ Goto(t, "idle")
    /\ UNCHANGED <<engine, loops, world, scripts, calls, faultsLeft, app, itemEnabled>>

-----------------------------------------------------------------------------
(* Background loops and scripts                                            *)

LoopCancelled(k) == IF k = "data" THEN cts = "cancelled" ELSE portforwardListenerCts = "cancelled"
LoopPhase(k)     == IF k = "listen" /\ portforwardListenerCts = "orphan" THEN "old" ELSE "cur"

\* while (!cts.IsCancellationRequested) await ExecuteCommandAsync(..., cts.Token)
\* The second test, before the delay, reads the same field and decides the same.
LoopEnters(k) ==
    /\ IF LoopCancelled(k) THEN EndLoop(k, "check") ELSE MoveLoop(k, "check", LoopPhase(k))
    /\ UNCHANGED <<engine, world, enabledDistributions, scripts, pc, call,
                   calls, faultsLeft, app, itemEnabled>>

\* The command ends by itself.
LoopExecEnds(k, p) ==
    /\ p \in {"cur", "old"}
    /\ Fault("exec")
    /\ MoveLoop(k, p, "check")
    /\ UNCHANGED <<engine, world, enabledDistributions, scripts, pc, call,
                   calls, app, itemEnabled>>

DataMounts ==
    /\ DataExecutes
    /\ ~dataMounted /\ dataMounted' = TRUE
    /\ UNCHANGED <<engine, loops, daemon, proxy, enabledDistributions, scripts, pc, call,
                   calls, faultsLeft, app, itemEnabled>>

ScriptLinks(d) ==
    /\ d \in linking
    /\ linking' = linking \ {d} /\ starting' = starting \cup {d} /\ link' = link \cup {d}
    /\ UNCHANGED <<engine, loops, world, enabledDistributions, served, pc, call,
                   calls, faultsLeft, app, itemEnabled>>

ScriptServes(d) ==
    /\ d \in starting
    /\ starting' = starting \ {d} /\ served' = served \cup {d}
    /\ UNCHANGED <<engine, loops, world, enabledDistributions, link, linking, pc, call,
                   calls, faultsLeft, app, itemEnabled>>

\* The proxy dies; nothing monitors it.
ProxyExits ==
    /\ proxy = "up" /\ Fault("proxyExits")
    /\ proxy' = "exited"
    /\ UNCHANGED <<engine, loops, daemon, dataMounted, enabledDistributions, scripts, pc, call,
                   calls, app, itemEnabled>>

-----------------------------------------------------------------------------
StartStep(t) ==
    \/ BeginStart(t) \/ TerminateDistro(t) \/ InitializeDnsConfigurator(t)
    \/ InitializeDataDistro(t) \/ WaitForDataDistroInitialization(t)
    \/ InitializePortForwardListener(t) \/ InitializeAndStartDaemon(t) \/ StartProxy(t)
    \/ AwaitProxy(t) \/ InitializeDistros(t) \/ FinishStart(t)
StopStep(t) ==
    \/ BeginStop(t) \/ StopDistros(t) \/ StopProxy(t) \/ Cancel(t) \/ StopDaemon(t)
    \/ FinishStop(t) \/ Exit(t)
ViewStep(t) == Reset(t) \/ ToggleWslDistro(t) \/ EnableDistro(t) \/ SaveToggle(t)

CallStep(t) == StartStep(t) \/ StopStep(t) \/ ViewStep(t)
Commands == {"start", "stop", "restart", "reset", "quit"}

Next ==
    \/ \E t \in Threads : CallStep(t)
    \/ \E t \in Threads, c \in Commands : Click(t, c)
    \/ \E t \in Threads, d \in Distros : ClickToggle(t, d)
    \/ \E k \in Kinds : LoopEnters(k)
    \/ \E k \in Kinds, p \in Phases : LoopExecEnds(k, p)
    \/ \E d \in Distros : ScriptLinks(d) \/ ScriptServes(d)
    \/ DataMounts
    \/ ProxyExits

Spec == Init /\ [][Next]_vars

\* A thread that has begun a call is scheduled, and so are the loops; commands,
\* failures and the scripts inside WSL are left to chance.
FairSpec ==
    /\ Spec
    /\ \A t \in Threads : WF_vars(CallStep(t))
    /\ \A k \in Kinds : WF_vars(LoopEnters(k))

-----------------------------------------------------------------------------
(* Properties                                                              *)

CallRecord ==
    [then : {"return", "start", "reset", "exit", "retry"}, tries : 0..Retries,
     failed : BOOLEAN, boot : BOOLEAN, visited : SUBSET Distros, stale : BOOLEAN,
     toggle : SUBSET Distros]

\* Every variable has its type.
TypeOK ==
    /\ runningState \in {"Stopped", "Starting", "Running", "Stopping"}
    /\ cts \in {"null", "live", "cancelled"}
    /\ portforwardListenerCts \in {"null", "linked", "orphan", "cancelled"}
    /\ loops \in [Kinds -> [Phases -> Nat]]
    /\ daemon \in {"down", "data", "local"} /\ dataMounted \in BOOLEAN
    /\ proxy \in {"none", "up", "exited"}
    /\ enabledDistributions \subseteq Distros /\ itemEnabled \subseteq Distros
    /\ link \subseteq Distros /\ served \subseteq Distros
    /\ linking \subseteq Distros /\ starting \subseteq Distros
    /\ pc \in [Threads -> PCs]
    /\ call \in [Threads -> CallRecord]
    /\ calls \in 0..MaxCalls /\ faultsLeft \in 0..MaxFaults /\ app \in BOOLEAN

\* While the state is Starting or Stopping, the states in which the menu offers
\* neither Start nor Stop, some thread is still inside a Start or a Stop and will
\* overwrite it, however the calls of several threads overlap and fail.
Settled ==
    runningState \in {"Starting", "Stopping"} =>
        \E t \in Threads : pc[t] \in StartPCs \cup StopPCs \cup {"stop"}

\* A loop dereferences the fields _cts and _portforwardListenerCts on every round: no
\* loop, and no Start that will spawn one, runs while its field is still null.
LoopsHaveSources ==
    /\ cts = "null" => /\ \A t \in Threads : pc[t] \notin StartPCs
                       /\ \A p \in Phases : loops["data"][p] = 0
    /\ portforwardListenerCts = "null" => \A p \in Phases : loops["listen"][p] = 0

\* _cts.Cancel reaches every loop that waits on the source in the field, and the
\* listener's linked source is cancelled with it: no loop waits on a source that has
\* been cancelled, and a linked source has a live parent.
CancelReachesLoops ==
    /\ cts # "live" => \A k \in Kinds : loops[k]["cur"] = 0
    /\ portforwardListenerCts = "linked" => cts = "live"
    /\ portforwardListenerCts # "linked" => loops["listen"]["cur"] = 0

\* A call that has begun returns: Start runs out of retries, Stop goes on to its
\* finally block, whichever step fails.
CallsReturn == \A t \in Threads : pc[t] # "idle" ~> pc[t] = "idle"

\* Once _cts is cancelled, and unless the listener waits on a source whose parent was
\* replaced, the loops of every earlier Start end too, or another Start begins.
LoopsEnd ==
    (cts = "cancelled" /\ portforwardListenerCts # "orphan")
        ~> (cts = "live" \/ loops = NoLoops)

\* When commands are issued one at a time, Running means that the daemon and the
\* proxy are up, the source is live and a loop still runs the data distribution.
RunningMeansUp ==
    runningState = "Running" =>
        /\ daemon # "down" /\ proxy = "up" /\ cts = "live"
        /\ \E p \in Phases : loops["data"][p] > 0

\* When commands are issued one at a time, a Stop that ends without an exception
\* leaves no daemon, no proxy and no data loop waiting in the distribution.
CleanStop ==
    [][\A t \in Threads :
          pc[t] = "stopped" /\ ~call[t].failed /\ runningState' = "Stopped" =>
              /\ daemon = "down" /\ proxy # "up" /\ cts = "cancelled"
              /\ ~DataExecutes]_vars

\* A Start survives as many failures of its steps as it has retries, whatever the
\* Stop between two attempts does: the engine ends up Running.
StartSurvivesFaults ==
    \A t \in Threads : pc[t] = "start" ~> runningState = "Running"

\* The menu stops the proxy on the Windows host (README.md:13): in Stopped, the only
\* state in which it offers Start and no Stop, no proxy is left running.
StoppedMeansProxyDown ==
    (runningState = "Stopped" /\ \A t \in Threads : pc[t] = "idle") => proxy # "up"

\* Containers, images and volumes live in the container-desktop-data distribution
\* (docs/guides/installation.md:55): the daemon never runs on the local disk.
DaemonUsesDataDistro == daemon # "local"

\* A distribution whose proxy the user disabled has none (README.md:13), once no call
\* and none of its scripts is under way.
DisabledMeansNoProxy ==
    (\A t \in Threads : pc[t] = "idle") =>
        served \subseteq enabledDistributions \cup linking \cup starting
=============================================================================
