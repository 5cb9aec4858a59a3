----------------------------- MODULE Installer -----------------------------
(* The installer: it brings the resources of its manifest, one after the    *)
(* other, into the state they should have (ConfigurationManifest.Apply),    *)
(* installs, updates and uninstalls, asks for a restart of Windows in the   *)
(* middle and goes on after it, and rolls back after a failure.  It may be  *)
(* killed between any two steps and run again, in another version.          *)
(*                                                                         *)
(* What a resource has put on the machine is the version that put it there; *)
(* a process of the application runs from the directory of UnpackFiles.     *)
EXTENDS InstallerManifest, Naturals, Sequences, SequencesExt

CONSTANTS
    Versions,     \* versions of the installer that are run
    Selections,      \* bound: the selections of optional resources the user makes
    MaxRuns,      \* bound: times the user starts an installer
    Faults,       \* kinds of failure the environment may inject
    MaxFaults     \* bound: failures injected in a behaviour

Optional == {r \in Ids : Resource[r].optional}

ASSUME InstallerAssumption ==
    /\ Versions \cap {"absent", "partial", "none", "no"} = {}
    /\ Selections \subseteq SUBSET Optional
    /\ MaxRuns \in Nat /\ MaxFaults \in Nat

VARIABLES
    present,       \* what each resource has put on the machine: "absent", "partial", a version
    features,      \* state of each Windows feature: "off", "pending" a restart, "on"
    running,       \* processes of the application: "app", "proxy", "forwarder"
    data,          \* the data distribution holds containers, images or volumes
    optionals,     \* installer-optionals.json: the selected resources; all without it
    disabled,      \* installer-state.json: DisabledResources
    restart,       \* "no", or the version of the installer that a restart of Windows runs again
    installer,     \* the installer process
    runs, faultsLeft

machine == <<present, features, running, data>>
saved   == <<optionals, disabled>>
vars    == <<machine, saved, restart, installer, runs, faultsLeft>>

-----------------------------------------------------------------------------
Kind(r) == Resource[r].kind

\* Kinds that leave nothing on the machine, or only end or start processes.
Volatile == {"WindowsVersionCheck", "GetInstalledVersion", "ShutdownProcess",
             "CallServiceMethod", "RunExecutable"}
Stored   == {r \in Ids : Kind(r) \notin Volatile \cup {"EnableWindowsFeatures"}}
FeatureIds == {r \in Ids : Kind(r) = "EnableWindowsFeatures"}
Distros  == {r \in Ids : Kind(r) = "WslDistro"}

\* phase: "none" when no installer runs, "window" until Apply, "apply", "done".
\* resources, rest, processed: what Apply goes through, has before it, has changed.
\* at: the call of the first of rest that comes next.  undoing: the parameter ctx has
\* Uninstall set while context has not.  reboot: RequiresReboot of the features it has set.
NoInstaller ==
    [phase |-> "none", version |-> "none", uninstall |-> FALSE, autoStart |-> FALSE,
     delayReboot |-> FALSE, enabled |-> {}, installedVersion |-> "none", resources |-> <<>>,
     rest |-> <<>>, processed |-> <<>>, at |-> "test", undoing |-> FALSE, reboot |-> {},
     restartPending |-> FALSE, result |-> "none"]

Updating == installer.installedVersion \notin {"none", installer.version}

Fault(f) == f \in Faults /\ faultsLeft > 0 /\ faultsLeft' = faultsLeft - 1
NoFault  == faultsLeft' = faultsLeft

Init ==
    /\ present = [r \in Stored |-> "absent"]
    /\ features = [r \in FeatureIds |-> "off"]
    /\ running = {} /\ data = FALSE
    /\ optionals = Optional /\ disabled = {}
    /\ restart = "no" /\ installer = NoInstaller
    /\ runs = 0 /\ faultsLeft = MaxFaults

-----------------------------------------------------------------------------
(* The window and BuildDependencyGraph                                      *)

\* GetOptionalResources reads the file.
Window(version, uninstall, auto, delay) ==
    [NoInstaller EXCEPT !.phase = "window", !.version = version, !.uninstall = uninstall,
                        !.autoStart = auto, !.delayReboot = delay,
                        !.enabled = optionals]

\* Unattended implies auto-start and no restart.
RunInstaller(v, unattended) ==
    /\ installer.phase = "none" /\ restart = "no" /\ runs < MaxRuns
    /\ runs' = runs + 1
    /\ installer' = Window(v, FALSE, unattended, unattended)
    /\ UNCHANGED <<machine, saved, restart, faultsLeft>>

\* The uninstall command is that of the installer in the installation directory.
RunUninstaller ==
    /\ installer.phase = "none" /\ restart = "no" /\ runs < MaxRuns
    /\ present["CopyInstaller"] \in Versions
    /\ runs' = runs + 1
    /\ installer' = Window(present["CopyInstaller"], TRUE, TRUE, FALSE)
    /\ UNCHANGED <<machine, saved, restart, faultsLeft>>

ChooseOptions(c) ==
    /\ installer.phase = "window" /\ ~installer.uninstall /\ ~installer.autoStart
    /\ c # installer.enabled
    /\ installer' = [installer EXCEPT !.enabled = c]
    /\ UNCHANGED <<machine, saved, restart, runs, faultsLeft>>

Enabled(r, enabled) == r \in Optional => r \in enabled

\* DependsOn.RemoveAt(j) in a loop over j: the one after a removed one is not looked at.
RemoveResolved(deps, resolved) ==
    LET removed[i \in DOMAIN deps] ==
            deps[i] \in ToSet(resolved) /\ (i = 1 \/ ~removed[i - 1])
        kept == SelectSeq([i \in DOMAIN deps |-> i], LAMBDA i : ~removed[i])
    IN  [k \in DOMAIN kept |-> deps[kept[k]]]

\* One round over the resources that are not resolved yet.
Round(graph) ==
    LET Visit(g, x) ==
            LET left == RemoveResolved(x.dependsOn, g.resolved)
            IN  IF left = <<>>
                THEN [g EXCEPT !.resolved = Append(@, x.id)]
                ELSE [g EXCEPT !.rest = Append(@, [x EXCEPT !.dependsOn = left])]
    IN  FoldLeft(Visit, [graph EXCEPT !.rest = <<>>, !.count = Len(graph.resolved)], graph.rest)

\* Rounds go on until nothing is left, or one resolves nothing.
Resolve(rest) ==
    LET start == [resolved |-> <<>>, count |-> 0 - 1,
                  rest |-> [i \in DOMAIN rest |-> [id |-> rest[i],
                                                   dependsOn |-> Resource[rest[i]].dependsOn]]]
        after[n \in 0..(Len(rest) + 1)] ==
            IF n = 0 THEN start
            ELSE LET g == after[n - 1]
                 IN  IF g.rest = <<>> \/ Len(g.resolved) = g.count THEN g ELSE Round(g)
    IN  after[Len(rest) + 1]

InOrder(graph, uninstall) == IF uninstall THEN Reverse(graph) ELSE graph

\* The resources that are enabled and were so when the state was saved: those that
\* always run first, then the others after what they depend on, in reverse to uninstall.
BuildDependencyGraph(uninstall, enabled, off) ==
    LET resources == SelectSeq(Manifest, LAMBDA r : Enabled(r, enabled) /\ r \notin off)
        allwaysFirst == SelectSeq(resources, LAMBDA r : Resource[r].runAllwaysFirst)
        graph == Resolve(SelectSeq(resources, LAMBDA r : ~Resource[r].runAllwaysFirst))
        ordered == allwaysFirst \o InOrder(graph.resolved, uninstall)
    IN  [resolved |-> graph.rest = <<>>,
         resources |-> SelectSeq(ordered, LAMBDA r : ~(uninstall /\ Resource[r].noUninstall))]

\* Everything of one set comes before anything of another.
Ahead(s, these, those) == \A i, j \in DOMAIN s : s[i] \in these /\ s[j] \in those => i < j

UpdatedIds  == {r \in Ids : Resource[r].onUpdateAction = "Install"}
Contents(d) == {r \in Ids : Resource[r].inside = d}

\* The graph of the shipped manifest, whatever is selected and was disabled: resources come
\* after those they build on, and the other way round when uninstalling.
ASSUME GraphAssumption ==
    \A enabled, off \in SUBSET Optional :
        /\ LET s == BuildDependencyGraph(FALSE, enabled, off).resources
           IN  /\ s \in Seq(Ids)
               /\ UpdatedIds \cup {"EnableVirtualMachinePlatform"} \subseteq ToSet(s)
               /\ Ahead(s, {"GetInstalledVersion"}, Stored)
               /\ Ahead(s, {"UnpackFiles"}, Contents("UnpackFiles"))
               /\ Ahead(s, {"CopyDistro"}, {"InstallWslDistro"})
               /\ Ahead(s, {"EnableVirtualMachinePlatform"}, Distros)
        /\ LET s == BuildDependencyGraph(TRUE, enabled, off).resources
           IN  /\ s \in Seq(Ids)
               /\ Distros \cup {"UnpackFiles"} \subseteq ToSet(s)
               /\ Ahead(s, Distros, {"CreateAppDataDirectory"})
               /\ \A r \in ToSet(s) : ~Resource[r].noUninstall

\* Apply of the view model saves the selection, and with it makes the directory of the
\* application data; then the runner builds the graph, which saves what is disabled.
Apply ==
    /\ installer.phase = "window"
    /\ LET graph == BuildDependencyGraph(installer.uninstall, installer.enabled, disabled) IN
        IF graph.resolved
        THEN /\ installer' = [installer EXCEPT !.phase = "apply", !.resources = graph.resources,
                                               !.rest = graph.resources]
             /\ disabled' = Optional \ installer.enabled
        ELSE /\ installer' = [installer EXCEPT !.phase = "done", !.result = "Failed"]
             /\ UNCHANGED disabled
    /\ optionals' = installer.enabled
    /\ present' = [present EXCEPT !["CreateAppDataDirectory"] =
                       IF @ = "absent" THEN installer.version ELSE @]
    /\ UNCHANGED <<features, running, data, restart, runs, faultsLeft>>

\* With auto-start the window applies at once, unless it asks before uninstalling.
CloseWindow ==
    /\ \/ installer.phase = "done"
       \/ installer.phase = "window" /\ (installer.autoStart => installer.uninstall)
    /\ installer' = NoInstaller
    /\ UNCHANGED <<machine, saved, restart, runs, faultsLeft>>

-----------------------------------------------------------------------------
(* Apply of the manifest                                                    *)

Source(r) == IF Resource[r].source = "installer" THEN installer.version
             ELSE present[Resource[r].source]

ShutdownProcessTest(r) == Resource[r].source \notin running

EnableWindowsFeaturesTest(r) == features[r] = "on"

\* Says yes when the target differs from the source.
CopyFileTest(r) == present[r] \notin {"absent", Source(r)}

RegisterProductTest(r) == present[r] = installer.version

\* Registered, and its directory is there; a "partial" one is only registered.
WslDistroTest(r) == present[r] \notin {"absent", "partial"}

\* What else leaves something looks only whether it is there, the rest always says no.
Test(r) ==
    CASE Kind(r) = "ShutdownProcess"       -> ShutdownProcessTest(r)
      [] Kind(r) = "EnableWindowsFeatures" -> EnableWindowsFeaturesTest(r)
      [] Kind(r) = "CopyFile"              -> CopyFileTest(r)
      [] Kind(r) = "RegisterProduct"       -> RegisterProductTest(r)
      [] Kind(r) = "WslDistro"             -> WslDistroTest(r)
      [] OTHER                             -> r \in Stored /\ present[r] # "absent"

\* Mutant: an update replaces whatever is there.
NeedsUnsetAnyway(r) ==
    IF installer.uninstall THEN Resource[r].runAllways \/ Test(r)
    ELSE Updating /\ ~Resource[r].runAllways /\ Test(r)

\* Mutant: an update replaces nothing.
NeedsUnsetNever(r) == installer.uninstall /\ (Resource[r].runAllways \/ Test(r))

\* The loop body looks at Uninstall of context, not of ctx.
NeedsUnset(r) ==
    IF installer.uninstall THEN Resource[r].runAllways \/ Test(r)
    ELSE /\ Updating /\ ~Resource[r].runAllways
         /\ Resource[r].onUpdateAction = "Install" /\ Test(r)

NeedsSet(r) ==
    /\ ~installer.uninstall
    /\ \/ Resource[r].runAllways
       \/ ~(Updating /\ Resource[r].onUpdateAction = "Skip") /\ ~Test(r)

Advance(i) == [i EXCEPT !.rest = Tail(@), !.at = "test"]

\* Pushed on processedResources; then RequiresReboot is looked at.
Processed(i, r) ==
    LET pushed == [i EXCEPT !.processed = <<r>> \o @]
    IN  IF r \in i.reboot THEN [pushed EXCEPT !.at = "consent"] ELSE Advance(pushed)

\* The state file goes with the end of an Apply that waits for no restart.
Done(i, result) ==
    /\ installer' = [i EXCEPT !.phase = "done", !.result = result]
    /\ disabled' = IF i.restartPending THEN disabled ELSE {}
    /\ UNCHANGED optionals

\* Mutant: an uninstallation goes on with what comes after a failure.
ThrowGoesOn ==
    IF installer.undoing THEN Done(installer, "RolledBack")
    ELSE IF installer.uninstall THEN installer' = Advance(installer) /\ UNCHANGED saved
    ELSE /\ installer' = [installer EXCEPT !.resources = installer.processed,
                                           !.rest = installer.processed, !.processed = <<>>,
                                           !.at = "test", !.undoing = TRUE]
         /\ UNCHANGED saved

\* The catch block: whatever has been processed is applied with ctx.Uninstall set, and
\* how that ends is ignored.
Throw ==
    IF installer.undoing THEN Done(installer, "RolledBack")
    ELSE IF installer.uninstall THEN Done(installer, "Failed")
    ELSE /\ installer' = [installer EXCEPT !.resources = installer.processed,
                                           !.rest = installer.processed, !.processed = <<>>,
                                           !.at = "test", !.undoing = TRUE]
         /\ UNCHANGED saved

Current == Head(installer.rest)

AtResource(call) ==
    installer.phase = "apply" /\ installer.rest # <<>> /\ installer.at = call

\* The kernel package is downloaded; without a network it is the unpacked one.
InstallMsiMayMiss == present["CopWslKernel"] \notin Versions

\* A file that a broken Unpack has left out is missed when it is used.
MayMiss(r) ==
    \/ Kind(r) = "CopyFile" /\ Source(r) = "partial"
    \/ Kind(r) = "CopyPackedFile" /\ present["UnpackFiles"] = "partial"
    \/ Kind(r) = "InstallMsi" /\ InstallMsiMayMiss

ExamineResource ==
    /\ AtResource("test")
    /\ installer' = IF NeedsUnset(Current) THEN [installer EXCEPT !.at = "unset"]
                    ELSE IF NeedsSet(Current) THEN [installer EXCEPT !.at = "set"]
                    ELSE Advance(installer)
    /\ UNCHANGED <<machine, saved, restart, runs, faultsLeft>>

\* CopyFile.Test reads the source of a target that exists.
ExamineFails ==
    /\ AtResource("test") /\ Kind(Current) = "CopyFile" /\ MayMiss(Current)
    /\ present[Current] # "absent"
    /\ Throw
    /\ UNCHANGED <<machine, restart, runs, faultsLeft>>

\* ShutdownProcess: the application is asked to quit, and killed with what it has
\* started when it does not; what it leaves behind when it quits is its own matter.
ShutDown(exe) ==
    /\ IF exe = "app" /\ exe \in running
       THEN running' \in SUBSET (running \ {exe})
       ELSE running' = running \ {exe}
    /\ UNCHANGED <<present, features, data>>

\* A program that runs from the directory keeps it from being deleted.
CanUnset(r) == Kind(r) = "Unpack" => running = {}

\* Mutant: a directory is deleted without its contents.
UnsetKeepsContents(r) ==
    /\ present' = [present EXCEPT ![r] = "absent"]
    /\ data' = (data /\ present'["InstallWslDataDistro"] \notin {"absent", "partial"})
    /\ UNCHANGED <<features, running>>

\* A deleted directory takes its contents with it: the installer's own files, and the
\* disk of a distribution, which stays registered.
Unset(r) ==
    /\ present' = [x \in Stored |->
           IF x = r THEN "absent"
           ELSE IF Resource[x].inside # r THEN present[x]
           ELSE IF x \in Distros /\ present[x] # "absent" THEN "partial" ELSE "absent"]
    /\ data' = (data /\ present'["InstallWslDataDistro"] \notin {"absent", "partial"})
    /\ UNCHANGED <<features, running>>

\* Mutant: an update goes on after Unset without test = false.
AfterUnsetNext(i, r) == IF i.uninstall THEN Processed(i, r) ELSE Advance(i)

AfterUnset(i, r) == IF i.uninstall THEN Processed(i, r) ELSE [i EXCEPT !.at = "set"]

UnsetResource ==
    /\ AtResource("unset") /\ CanUnset(Current)
    /\ installer' = AfterUnset(installer, Current)
    /\ IF Kind(Current) = "ShutdownProcess" THEN ShutDown(Resource[Current].source)
       ELSE Unset(Current)
    /\ IF Current = "CreateAppDataDirectory" THEN optionals' = Optional /\ disabled' = {}
       ELSE UNCHANGED saved
    /\ UNCHANGED <<restart, runs, faultsLeft>>

UnsetFails ==
    /\ AtResource("unset")
    /\ IF CanUnset(Current) THEN Fault("unset") ELSE NoFault
    /\ Throw
    /\ UNCHANGED <<machine, restart, runs>>

-----------------------------------------------------------------------------
(* Set                                                                      *)

CanCopy(r) == present[Resource[r].inside] # "absent" /\ Source(r) # "absent"

CanCreate(r) == present[Resource[r].inside] # "absent"

\* The root file system is complete, and the name is not taken.
CanImport(r) == Source(r) \in Versions /\ present[r] = "absent"

CanSet(r) ==
    CASE Kind(r) = "CopyFile"       -> CanCopy(r)
      [] Kind(r) = "CopyPackedFile" -> CanCreate(r)
      [] Kind(r) = "WslDistro"      -> CanImport(r)
      [] OTHER                      -> TRUE

\* What is extracted or written before a failure stays.
LeavesPart(r) == Kind(r) \in {"Unpack", "CopyPackedFile"}

Content(r) == IF Kind(r) \in {"CopyFile", "WslDistro"} THEN Source(r) ELSE installer.version

\* Mutant: no feature needs the restart it asks for.
RequiresRebootNever(r, s) == FALSE

\* RequiresReboot of a feature that has been left in state s.
RequiresReboot(r, s) ==
    r \in installer.reboot \/ (s = "pending" /\ ~Resource[r].ignoreRebootRequired)

\* A feature takes effect at once, or with the next restart of Windows.
Feature(r) ==
    /\ \E s \in IF features[r] = "pending" THEN {"pending"} ELSE {"pending", "on"} :
           /\ features' = [features EXCEPT ![r] = s]
           /\ installer' = Processed([installer EXCEPT !.reboot =
                  {x \in FeatureIds : IF x = r THEN RequiresReboot(r, s) ELSE x \in @}], r)
    /\ UNCHANGED <<present, running, data>>

\* RegisterProduct tells GetInstalledVersion the version.
ReadVersion ==
    /\ installer' = Processed(
           [installer EXCEPT !.installedVersion = IF present["RegisterProduct"] = "absent" THEN @
                                                  ELSE present["RegisterProduct"]],
           "GetInstalledVersion")
    /\ UNCHANGED machine

\* The application and the proxy and forwarders it starts.
AppStarts == running' = {"app", "proxy", "forwarder"}

\* ContinueOnFail: it is no failure when the application does not start.
Run ==
    /\ UNCHANGED running \/ (present["UnpackFiles"] # "absent" /\ AppStarts)
    /\ installer' = Processed(installer, Current)
    /\ UNCHANGED <<present, features, data>>

SetResource ==
    /\ AtResource("set") /\ CanSet(Current)
    /\ CASE Kind(Current) = "EnableWindowsFeatures" -> Feature(Current)
         [] Kind(Current) = "GetInstalledVersion" -> ReadVersion
         [] Kind(Current) = "ShutdownProcess" ->
              ShutDown(Resource[Current].source) /\ installer' = Processed(installer, Current)
         [] Kind(Current) = "RunExecutable" -> Run
         [] Current \in Stored ->
              /\ present' = [present EXCEPT ![Current] = Content(Current)]
              /\ installer' = Processed(installer, Current)
              /\ UNCHANGED <<features, running, data>>
         [] OTHER -> installer' = Processed(installer, Current) /\ UNCHANGED machine
    /\ UNCHANGED <<saved, restart, runs, faultsLeft>>

SetFails ==
    /\ AtResource("set") /\ Kind(Current) # "RunExecutable"
    /\ IF ~CanSet(Current) \/ MayMiss(Current)
       THEN NoFault /\ UNCHANGED present
       ELSE \/ Fault("set") /\ UNCHANGED present
            \/ /\ LeavesPart(Current) /\ Fault("partial")
               /\ present' = [present EXCEPT ![Current] = "partial"]
    /\ Throw
    /\ UNCHANGED <<features, running, data, restart, runs>>

\* The user agrees to a restart, and Windows restarts the installer with it; or it is
\* left to the user.  Either way Apply returns.
AskConsent ==
    /\ AtResource("consent")
    /\ \E now \in BOOLEAN :
           /\ now => ~installer.delayReboot
           /\ restart' = IF now THEN installer.version ELSE "no"
    /\ Done([installer EXCEPT !.restartPending = TRUE],
            IF installer.undoing THEN "RolledBack" ELSE "PendingRestart")
    /\ UNCHANGED <<machine, runs, faultsLeft>>

EndLoop ==
    /\ installer.phase = "apply" /\ installer.rest = <<>>
    /\ Done(installer, IF installer.undoing THEN "RolledBack" ELSE "Succeeded")
    /\ UNCHANGED <<machine, restart, runs, faultsLeft>>

-----------------------------------------------------------------------------
(* The machine                                                              *)

KillInstaller ==
    /\ installer.phase = "apply" /\ Fault("crash")
    /\ installer' = NoInstaller
    /\ UNCHANGED <<machine, saved, restart, runs>>

\* Features take effect and programs end.  An installer that asked for the restart is
\* run again with what it was run with and auto-start.
RestartWindows ==
    /\ restart # "no" \/ installer.phase = "none"
    /\ features' = [r \in FeatureIds |-> IF features[r] = "pending" THEN "on" ELSE features[r]]
    /\ running' = {}
    /\ installer' = IF restart = "no" THEN NoInstaller ELSE Window(restart, FALSE, TRUE, FALSE)
    /\ restart' = "no"
    /\ UNCHANGED <<present, data, saved, runs, faultsLeft>>

\* The user starts the installed application, at any time; it may leave programs it
\* has started when it ends.
StartApp ==
    /\ present["UnpackFiles"] \in Versions /\ "app" \notin running
    /\ AppStarts
    /\ UNCHANGED <<present, features, data, saved, restart, installer, runs, faultsLeft>>

AppEnds ==
    /\ "app" \in running
    /\ running' \in SUBSET (running \ {"app"})
    /\ UNCHANGED <<present, features, data, saved, restart, installer, runs, faultsLeft>>

UseApp ==
    /\ "app" \in running /\ present["InstallWslDataDistro"] \in Versions
    /\ data' = TRUE
    /\ UNCHANGED <<present, features, running, saved, restart, installer, runs, faultsLeft>>

InstallerStep ==
    \/ ExamineResource \/ ExamineFails \/ UnsetResource \/ UnsetFails
    \/ SetResource \/ SetFails \/ EndLoop

Next ==
    \/ \E v \in Versions, unattended \in BOOLEAN : RunInstaller(v, unattended)
    \/ RunUninstaller
    \/ \E c \in Selections : ChooseOptions(c)
    \/ Apply
    \/ CloseWindow
    \/ InstallerStep
    \/ AskConsent
    \/ KillInstaller
    \/ RestartWindows
    \/ StartApp \/ AppEnds \/ UseApp

Spec == Init /\ [][Next]_vars


-----------------------------------------------------------------------------
(* Properties                                                               *)

\* The type of the state; what lies in a deleted directory is gone, and the loop has
\* only resources of its graph before it.
TypeOK ==
    /\ present \in [Stored -> Versions \cup {"absent", "partial"}]
    /\ features \in [FeatureIds -> {"off", "pending", "on"}]
    /\ running \subseteq {"app", "proxy", "forwarder"} /\ data \in BOOLEAN
    /\ optionals \subseteq Optional /\ disabled \subseteq Optional
    /\ restart \in Versions \cup {"no"}
    /\ runs \in 0..MaxRuns /\ faultsLeft \in 0..MaxFaults
    /\ installer.phase \in {"none", "window", "apply", "done"}
    /\ installer.at \in {"test", "unset", "set", "consent"}
    /\ installer.result \in {"none", "Succeeded", "PendingRestart", "RolledBack", "Failed"}
    /\ ToSet(installer.rest) \subseteq ToSet(installer.resources)
    /\ ToSet(installer.resources) \subseteq Ids
    /\ \A r \in Stored : Kind(r) \in {"CopyFile", "CopyPackedFile"} /\ present[r] # "absent" =>
           present[Resource[r].inside] # "absent"

Finished(result) == installer.phase = "done" /\ installer.result = result

\* "just run the installer to upgrade without loosing any data": whatever runs, fails, is
\* killed or rolled back, containers, images and volumes go only when uninstalling.
DataSurvives == [][data /\ ~data' => installer.uninstall]_vars

\* An installation that says it succeeded has put every stored resource of its graph in
\* its place, what an update skips excepted, though the restart, the update and the
\* rollback before it skip, remove and apply again.
SucceededMeansInstalled ==
    Finished("Succeeded") /\ ~installer.uninstall =>
        \A r \in ToSet(installer.resources) \cap Stored :
            present[r] = "absent" => Updating /\ Resource[r].onUpdateAction = "Skip"

\* An update that succeeds leaves no file of the version before, nor one of a failed
\* update: what is installed on an update has the new version.
UpdatedIsCurrent ==
    Finished("Succeeded") /\ ~installer.uninstall /\ Updating =>
        \A r \in Ids : Resource[r].onUpdateAction = "Install" => present[r] = installer.version

\* No distribution is imported before the virtual machine platform is there, in
\* spite of the restart that takes.
PlatformFirst ==
    (\E r \in Distros : present[r] # "absent") =>
        features["EnableVirtualMachinePlatform"] = "on"

\* An uninstallation that succeeds leaves nothing it would ever remove, the product's
\* registration in another version and what the user has deselected excepted.
UninstallRemoves ==
    Finished("Succeeded") /\ installer.uninstall =>
        \A r \in ToSet(installer.resources) \cap (Stored \ {"RegisterProduct"}) :
            present[r] = "absent"

\* "Undoing", "RolledBack": nothing that the failed installation has done to the machine
\* is left, unless undoing it failed as well.
RollbackUndoes ==
    Finished("RolledBack") /\ installer.rest = <<>> =>
        \A r \in ToSet(installer.resources) \cap Stored : present[r] = "absent"
=============================================================================
