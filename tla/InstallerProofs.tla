-------------------------- MODULE InstallerProofs --------------------------
(* Whatever the installer does, and however often it fails, is killed or is *)
(* rolled back, it removes the data distribution only when uninstalling;    *)
(* when it says it has succeeded everything is in its place, or gone; and   *)
(* no distribution is there without the platform it runs on.                *)
EXTENDS Installer, TLAPS

-----------------------------------------------------------------------------
(* What the proofs use of the manifest                                     *)

\* The attributes of a resource that the proofs use.
Has(r, kind, update, always, keep, source, inside) ==
    /\ Resource[r].kind = kind /\ Resource[r].onUpdateAction = update
    /\ Resource[r].runAllways = always /\ Resource[r].noUninstall = keep
    /\ Resource[r].source = source /\ Resource[r].inside = inside

\* The identifiers and the attributes, as the manifest has them.
LEMMA IdsAre ==
    Ids = {"CheckWindowsVersion", "GetInstalledVersion", "ShutdownContainerDesktop",
           "ShutdownProxy", "ShutdownForwarders", "UnpackFiles", "CopyDistro",
           "CopyDataDistro", "CopWslKernel", "CopyInstaller",
           "CreateProgramDataDockerCliPluginsFolder", "CopyCliPluginDockerBuildx",
           "CopyCliPluginDockerDockerCompose", "CreateAppDataDirectory", "EnableWsl",
           "EnableVirtualMachinePlatform", "InstallLatestWslKernel", "InstallWslDistro",
           "InstallWslDataDistro", "AddCliToPath", "AddShortcutToStartMenu",
           "CreateEventLogSource", "RegisterProduct", "PreconfigureSettings", "AddToAutoStart",
           "RunContainerDesktopAfterInstall"}
  BY DEF Ids, Resource

LEMMA Attributes ==
    /\ Has("CheckWindowsVersion", "WindowsVersionCheck", "None", FALSE, FALSE, "none", "none")
    /\ Has("GetInstalledVersion", "GetInstalledVersion", "None", FALSE, FALSE, "none", "none")
    /\ Has("ShutdownContainerDesktop", "ShutdownProcess", "None", TRUE, FALSE, "app", "none")
    /\ Has("ShutdownProxy", "ShutdownProcess", "None", TRUE, FALSE, "forwarder", "none")
    /\ Has("ShutdownForwarders", "ShutdownProcess", "None", TRUE, FALSE, "none", "none")
    /\ Has("UnpackFiles", "Unpack", "Install", FALSE, FALSE, "none", "none")
    /\ Has("CopyDistro", "CopyPackedFile", "Install", FALSE, FALSE, "none", "UnpackFiles")
    /\ Has("CopyDataDistro", "CopyPackedFile", "Install", FALSE, FALSE, "none", "UnpackFiles")
    /\ Has("CopWslKernel", "CopyPackedFile", "Install", FALSE, FALSE, "none", "UnpackFiles")
    /\ Has("CopyInstaller", "CopyFile", "Install", FALSE, FALSE, "installer", "UnpackFiles")
    /\ Has("CreateProgramDataDockerCliPluginsFolder", "CreateDirectory", "None", FALSE, TRUE,
           "none", "none")
    /\ Has("CopyCliPluginDockerBuildx", "CopyFile", "None", FALSE, TRUE, "UnpackFiles",
           "CreateProgramDataDockerCliPluginsFolder")
    /\ Has("CopyCliPluginDockerDockerCompose", "CopyFile", "None", FALSE, TRUE, "UnpackFiles",
           "CreateProgramDataDockerCliPluginsFolder")
    /\ Has("CreateAppDataDirectory", "CreateDirectory", "None", FALSE, FALSE, "none", "none")
    /\ Has("EnableWsl", "EnableWindowsFeatures", "None", FALSE, TRUE, "none", "none")
    /\ Has("EnableVirtualMachinePlatform", "EnableWindowsFeatures", "None", FALSE, TRUE,
           "none", "none")
    /\ Has("InstallLatestWslKernel", "InstallMsi", "None", FALSE, TRUE, "none", "none")
    /\ Has("InstallWslDistro", "WslDistro", "Install", FALSE, FALSE, "CopyDistro",
           "CreateAppDataDirectory")
    /\ Has("InstallWslDataDistro", "WslDistro", "Skip", FALSE, FALSE, "CopyDataDistro",
           "CreateAppDataDirectory")
    /\ Has("AddCliToPath", "AddToPath", "None", FALSE, FALSE, "none", "none")
    /\ Has("AddShortcutToStartMenu", "AddShortcut", "None", FALSE, FALSE, "none", "none")
    /\ Has("CreateEventLogSource", "CreateEventLogSource", "None", FALSE, FALSE, "none", "none")
    /\ Has("RegisterProduct", "RegisterProduct", "Install", FALSE, FALSE, "none", "none")
    /\ Has("PreconfigureSettings", "CallServiceMethod", "None", FALSE, FALSE, "none", "none")
    /\ Has("AddToAutoStart", "AddToAutoStart", "None", FALSE, FALSE, "none", "none")
    /\ Has("RunContainerDesktopAfterInstall", "RunExecutable", "None", FALSE, TRUE, "none", "none")
<1>1. /\ Has("CheckWindowsVersion", "WindowsVersionCheck", "None", FALSE, FALSE, "none", "none")
      /\ Has("GetInstalledVersion", "GetInstalledVersion", "None", FALSE, FALSE, "none", "none")
      /\ Has("ShutdownContainerDesktop", "ShutdownProcess", "None", TRUE, FALSE, "app", "none")
      /\ Has("ShutdownProxy", "ShutdownProcess", "None", TRUE, FALSE, "forwarder", "none")
  BY Zenon DEF Has, Resource, Base, First, Shutdown, PackedFile, CliPlugin, Features, Distro
<1>2. /\ Has("ShutdownForwarders", "ShutdownProcess", "None", TRUE, FALSE, "none", "none")
      /\ Has("UnpackFiles", "Unpack", "Install", FALSE, FALSE, "none", "none")
      /\ Has("CopyDistro", "CopyPackedFile", "Install", FALSE, FALSE, "none", "UnpackFiles")
      /\ Has("CopyDataDistro", "CopyPackedFile", "Install", FALSE, FALSE, "none", "UnpackFiles")
  BY Zenon DEF Has, Resource, Base, First, Shutdown, PackedFile, CliPlugin, Features, Distro
<1>3. /\ Has("CopWslKernel", "CopyPackedFile", "Install", FALSE, FALSE, "none", "UnpackFiles")
      /\ Has("CopyInstaller", "CopyFile", "Install", FALSE, FALSE, "installer", "UnpackFiles")
      /\ Has("CreateProgramDataDockerCliPluginsFolder", "CreateDirectory", "None", FALSE, TRUE,
             "none", "none")
      /\ Has("CopyCliPluginDockerBuildx", "CopyFile", "None", FALSE, TRUE, "UnpackFiles",
             "CreateProgramDataDockerCliPluginsFolder")
  BY Zenon DEF Has, Resource, Base, First, Shutdown, PackedFile, CliPlugin, Features, Distro
<1>4. /\ Has("CopyCliPluginDockerDockerCompose", "CopyFile", "None", FALSE, TRUE, "UnpackFiles",
             "CreateProgramDataDockerCliPluginsFolder")
      /\ Has("CreateAppDataDirectory", "CreateDirectory", "None", FALSE, FALSE, "none", "none")
      /\ Has("EnableWsl", "EnableWindowsFeatures", "None", FALSE, TRUE, "none", "none")
      /\ Has("EnableVirtualMachinePlatform", "EnableWindowsFeatures", "None", FALSE, TRUE, "none",
             "none")
  BY Zenon DEF Has, Resource, Base, First, Shutdown, PackedFile, CliPlugin, Features, Distro
<1>5. /\ Has("InstallLatestWslKernel", "InstallMsi", "None", FALSE, TRUE, "none", "none")
      /\ Has("InstallWslDistro", "WslDistro", "Install", FALSE, FALSE, "CopyDistro",
             "CreateAppDataDirectory")
      /\ Has("InstallWslDataDistro", "WslDistro", "Skip", FALSE, FALSE, "CopyDataDistro",
             "CreateAppDataDirectory")
      /\ Has("AddCliToPath", "AddToPath", "None", FALSE, FALSE, "none", "none")
  BY Zenon DEF Has, Resource, Base, First, Shutdown, PackedFile, CliPlugin, Features, Distro
<1>6. /\ Has("AddShortcutToStartMenu", "AddShortcut", "None", FALSE, FALSE, "none", "none")
      /\ Has("CreateEventLogSource", "CreateEventLogSource", "None", FALSE, FALSE, "none", "none")
      /\ Has("RegisterProduct", "RegisterProduct", "Install", FALSE, FALSE, "none", "none")
      /\ Has("PreconfigureSettings", "CallServiceMethod", "None", FALSE, FALSE, "none", "none")
  BY Zenon DEF Has, Resource, Base, First, Shutdown, PackedFile, CliPlugin, Features, Distro
<1>7. /\ Has("AddToAutoStart", "AddToAutoStart", "None", FALSE, FALSE, "none", "none")
      /\ Has("RunContainerDesktopAfterInstall", "RunExecutable", "None", FALSE, TRUE, "none",
             "none")
  BY Zenon DEF Has, Resource, Base, First, Shutdown, PackedFile, CliPlugin, Features, Distro
<1> QED
  BY ONLY <1>1, <1>2, <1>3, <1>4, <1>5, <1>6, <1>7

Platform == "EnableVirtualMachinePlatform"

\* The resources that matter by name.
LEMMA ResourceSets ==
    /\ Distros = {"InstallWslDistro", "InstallWslDataDistro"}
    /\ FeatureIds = {"EnableWsl", Platform}
    /\ UpdatedIds = {"UnpackFiles", "CopyDistro", "CopyDataDistro", "CopWslKernel", "CopyInstaller",
                     "InstallWslDistro", "RegisterProduct"}
    /\ Stored = Ids \ ({"CheckWindowsVersion", "GetInstalledVersion", "ShutdownContainerDesktop",
                        "ShutdownProxy", "ShutdownForwarders", "PreconfigureSettings",
                        "RunContainerDesktopAfterInstall"} \cup FeatureIds)
    /\ Contents("UnpackFiles") = {"CopyDistro", "CopyDataDistro", "CopWslKernel", "CopyInstaller"}
    /\ Contents("CreateAppDataDirectory") = Distros
<1>1. Distros = {"InstallWslDistro", "InstallWslDataDistro"}
  BY IdsAre, Attributes DEF Distros, Kind, Has
<1>2. FeatureIds = {"EnableWsl", Platform}
  BY IdsAre, Attributes DEF FeatureIds, Kind, Has, Platform
<1>3. UpdatedIds = {"UnpackFiles", "CopyDistro", "CopyDataDistro", "CopWslKernel", "CopyInstaller",
                    "InstallWslDistro", "RegisterProduct"}
  BY IdsAre, Attributes DEF UpdatedIds, Has
<1>4. Stored = Ids \ ({"CheckWindowsVersion", "GetInstalledVersion", "ShutdownContainerDesktop",
                       "ShutdownProxy", "ShutdownForwarders", "PreconfigureSettings",
                       "RunContainerDesktopAfterInstall"} \cup FeatureIds)
  <2>1. ASSUME NEW r \in Ids
        PROVE  r \in Stored <=>
                   r \notin {"CheckWindowsVersion", "GetInstalledVersion",
                             "ShutdownContainerDesktop", "ShutdownProxy", "ShutdownForwarders", "PreconfigureSettings",
                             "RunContainerDesktopAfterInstall", "EnableWsl", Platform}
    BY IdsAre, Attributes DEF Stored, Volatile, Kind, Has, Platform
  <2> QED
    BY <1>2, <2>1 DEF Stored
<1>5. Contents("UnpackFiles") = {"CopyDistro", "CopyDataDistro", "CopWslKernel", "CopyInstaller"}
  BY IdsAre, Attributes DEF Contents, Has
<1>6. Contents("CreateAppDataDirectory") = Distros
  BY <1>1, IdsAre, Attributes DEF Contents, Has
<1> QED
  BY <1>1, <1>2, <1>3, <1>4, <1>5, <1>6

\* What steers the loop.
LEMMA Steering ==
    /\ \A r \in Ids : Resource[r].runAllways => Kind(r) = "ShutdownProcess"
    /\ \A r \in FeatureIds : Kind(r) = "EnableWindowsFeatures" /\ ~Resource[r].runAllways
                             /\ Resource[r].onUpdateAction = "None"
    /\ \A r \in Ids : Kind(r) = "EnableWindowsFeatures" => r \in FeatureIds
    /\ \A r \in Stored : Kind(r) \notin {"ShutdownProcess", "EnableWindowsFeatures",
                                         "GetInstalledVersion", "RunExecutable"}
    /\ \A r \in Stored : Kind(r) = "WslDistro" <=> r \in Distros
    /\ \A r \in Stored : Kind(r) = "RegisterProduct" => r = "RegisterProduct"
    /\ \A r \in Stored : Kind(r) = "CopyFile" => r = "CopyInstaller" \/ Resource[r].noUninstall
    /\ ~Resource[Platform].ignoreRebootRequired
<1>1. /\ \A r \in Ids : Resource[r].runAllways => Kind(r) = "ShutdownProcess"
      /\ \A r \in Ids : Kind(r) = "EnableWindowsFeatures" =>
             ~Resource[r].runAllways /\ Resource[r].onUpdateAction = "None"
  BY IdsAre, Attributes DEF Kind, Has
<1>2. \A r \in Ids : Kind(r) = "WslDistro" <=> r \in Distros
  BY DEF Distros
<1>3. \A r \in Ids : Kind(r) = "RegisterProduct" => r = "RegisterProduct"
  BY IdsAre, Attributes DEF Kind, Has
<1>4. \A r \in Ids : Kind(r) = "CopyFile" => r = "CopyInstaller" \/ Resource[r].noUninstall
  BY IdsAre, Attributes DEF Kind, Has
<1>5. ~Resource[Platform].ignoreRebootRequired
  BY Zenon DEF Resource, Platform, Features, Base
<1> QED
  BY <1>1, <1>2, <1>3, <1>4, <1>5 DEF Stored, FeatureIds, Volatile

\* Where resources are, and what they are made of.
LEMMA Places ==
    /\ "none" \notin Ids
    /\ \A r \in UpdatedIds \ {"UnpackFiles"} : Contents(r) = {}
    /\ \A r \in Ids : Kind(r) \in {"CopyFile", "CopyPackedFile"} =>
           /\ Resource[r].inside \in Stored
           /\ Kind(Resource[r].inside) \notin {"CopyFile", "CopyPackedFile"}
           /\ Resource[Resource[r].inside].inside = "none"
    /\ \A r \in Ids : Kind(r) = "CopyFile" => Resource[r].source \in {"installer", "UnpackFiles"}
    /\ Kind("CopyInstaller") = "CopyFile" /\ Resource["CopyInstaller"].source = "installer"
    /\ Resource["InstallWslDistro"].source = "CopyDistro"
    /\ Resource["InstallWslDataDistro"].source = "CopyDataDistro"
    /\ \A r \in UpdatedIds : r \in {"CopyInstaller", "InstallWslDistro"} \/
           Kind(r) \notin {"CopyFile", "WslDistro"}
    /\ \A r \in Ids : r \in Distros => Resource[r].inside = "CreateAppDataDirectory"
    /\ Resource["CopyInstaller"].inside = "UnpackFiles"
<1>1. "none" \notin Ids
  BY IdsAre
<1>2. \A r \in UpdatedIds \ {"UnpackFiles"} : Contents(r) = {}
  BY IdsAre, Attributes, ResourceSets DEF Contents, Has
<1>3. \A r \in Ids : Kind(r) \in {"CopyFile", "CopyPackedFile"} =>
          Resource[r].inside \in {"UnpackFiles", "CreateProgramDataDockerCliPluginsFolder"}
  BY IdsAre, Attributes DEF Kind, Has
<1>4. \A d \in {"UnpackFiles", "CreateProgramDataDockerCliPluginsFolder"} :
          /\ d \in Stored /\ Kind(d) \notin {"CopyFile", "CopyPackedFile"}
          /\ Resource[d].inside = "none"
  BY IdsAre, Attributes, ResourceSets DEF Kind, Has, Platform
<1>5. \A r \in Ids : Kind(r) = "CopyFile" => Resource[r].source \in {"installer", "UnpackFiles"}
  BY IdsAre, Attributes DEF Kind, Has
<1>6. /\ Kind("CopyInstaller") = "CopyFile" /\ Resource["CopyInstaller"].source = "installer"
      /\ Resource["InstallWslDistro"].source = "CopyDistro"
      /\ Resource["InstallWslDataDistro"].source = "CopyDataDistro"
      /\ Resource["CopyInstaller"].inside = "UnpackFiles"
  BY Attributes DEF Kind, Has
<1>7. \A r \in UpdatedIds : r \in {"CopyInstaller", "InstallWslDistro"} \/
           Kind(r) \notin {"CopyFile", "WslDistro"}
  BY Attributes, ResourceSets DEF Kind, Has
<1>8. \A r \in Distros : Resource[r].inside = "CreateAppDataDirectory"
  BY Attributes, ResourceSets DEF Has
<1> QED
  BY <1>1, <1>2, <1>3, <1>4, <1>5, <1>6, <1>7, <1>8

-----------------------------------------------------------------------------
(* The data                                                                *)

DataDistro == "InstallWslDataDistro"

\* What the loop knows of the resource it is about to unset: unless uninstalling,
\* it is one that an update installs anew.
UnsetsUpdated(i) ==
    /\ i.phase = "window" => i.at # "unset"
    /\ i.at = "unset" /\ ~i.uninstall => Resource[Head(i.rest)].onUpdateAction = "Install"

IsInstaller(i) ==
    /\ {"phase", "at", "rest", "uninstall", "resources", "processed"} \subseteq DOMAIN i
    /\ UnsetsUpdated(i)

DataIsThere == data => present[DataDistro] \notin {"absent", "partial"}

IInv == IsInstaller(installer) /\ DOMAIN present = Stored /\ DataIsThere

-----------------------------------------------------------------------------
\* What the manifest says of the data distribution and of the directory it is in.
LEMMA ManifestFacts ==
    /\ DataDistro \in Stored
    /\ Resource[DataDistro].onUpdateAction = "Skip"
    /\ Resource[DataDistro].kind = "WslDistro"
    /\ Resource[DataDistro].inside = "CreateAppDataDirectory"
    /\ Resource["CreateAppDataDirectory"].onUpdateAction = "None"
    /\ Resource["CreateAppDataDirectory"].kind = "CreateDirectory"
  BY IdsAre, Attributes, ResourceSets DEF DataDistro, Has, Platform

\* The records that replace the installer's leave the loop at Test or at the consent.
LEMMA SuccessorsAreInstallers ==
    ASSUME NEW i, IsInstaller(i)
    PROVE  /\ IsInstaller(Advance(i))
           /\ \A r : IsInstaller(Processed(i, r))
           /\ \A r : IsInstaller(AfterUnset(i, r))
<1>1. IsInstaller(Advance(i))
  BY DEF IsInstaller, UnsetsUpdated, Advance
<1>2. ASSUME NEW r PROVE IsInstaller(Processed(i, r))
  <2> DEFINE pushed == [i EXCEPT !.processed = <<r>> \o @]
  <2>1. IsInstaller([pushed EXCEPT !.at = "consent"])
    BY DEF IsInstaller, UnsetsUpdated
  <2>2. IsInstaller(Advance(pushed))
    BY DEF IsInstaller, UnsetsUpdated, Advance
  <2> QED
    BY <2>1, <2>2 DEF Processed
<1>3. ASSUME NEW r PROVE IsInstaller(AfterUnset(i, r))
  <2>1. IsInstaller([i EXCEPT !.at = "set"])
    BY DEF IsInstaller, UnsetsUpdated
  <2> QED
    BY <2>1, <1>2 DEF AfterUnset
<1> QED
  BY <1>1, <1>2, <1>3

\* The window, and no installer at all.
LEMMA WindowsAreInstallers ==
    /\ IsInstaller(NoInstaller)
    /\ \A v, u, a, d : IsInstaller(Window(v, u, a, d))
  BY DEF IsInstaller, UnsetsUpdated, NoInstaller, Window

\* An Apply that ends leaves an installer,
LEMMA DoneLeavesInstaller ==
    ASSUME NEW i, IsInstaller(i), NEW result, Done(i, result)
    PROVE  IsInstaller(installer')
  BY DEF IsInstaller, UnsetsUpdated, Done

\* and so does one that is thrown back.
LEMMA ThrowLeavesInstaller ==
    ASSUME IsInstaller(installer), Throw
    PROVE  IsInstaller(installer')
<1>1. CASE installer.undoing \/ installer.uninstall
  BY DoneLeavesInstaller, <1>1 DEF Throw
<1>2. CASE ~installer.undoing /\ ~installer.uninstall
  BY <1>2 DEF IsInstaller, UnsetsUpdated, Throw
<1> QED
  BY <1>1, <1>2

-----------------------------------------------------------------------------
\* Unset of anything but the data distribution and its directory leaves both alone.
LEMMA UnsetSparesData ==
    ASSUME IInv, NEW r, Unset(r)
    PROVE  /\ DOMAIN present' = Stored
           /\ DataIsThere'
           /\ r \notin {DataDistro, "CreateAppDataDirectory"} /\ data => data'
<1>1. DOMAIN present' = Stored
  BY DEF Unset
<1>2. data' = (data /\ present'[DataDistro] \notin {"absent", "partial"})
  BY DEF Unset, DataDistro
<1>3. DataIsThere'
  BY <1>2 DEF DataIsThere, DataDistro
<1>4. ASSUME r \notin {DataDistro, "CreateAppDataDirectory"}, data PROVE data'
  <2>1. present'[DataDistro] = present[DataDistro]
    BY <1>4, ManifestFacts DEF Unset
  <2> QED
    BY <1>2, <1>4, <2>1 DEF IInv, DataIsThere
<1> QED
  BY <1>1, <1>3, <1>4

-----------------------------------------------------------------------------
\* The steps that have nothing to do with what is on the machine.
LEMMA OutsideTheLoop ==
    ASSUME IInv,
           \/ \E v \in Versions, unattended \in BOOLEAN : RunInstaller(v, unattended)
           \/ RunUninstaller
           \/ \E c \in Selections : ChooseOptions(c)
           \/ Apply \/ CloseWindow \/ KillInstaller \/ RestartWindows
           \/ StartApp \/ AppEnds \/ UseApp
    PROVE  IInv' /\ (data => data')
<1>1. CASE Apply
  <2>1. IsInstaller(installer')
    BY <1>1 DEF Apply, IInv, IsInstaller, UnsetsUpdated
  <2>2. DOMAIN present' = Stored
    BY <1>1 DEF Apply, IInv
  <2>3. present'[DataDistro] = present[DataDistro] /\ data' = data
    BY <1>1 DEF Apply, IInv, DataDistro
  <2> QED
    BY <2>1, <2>2, <2>3 DEF IInv, DataIsThere
<1>2. CASE \E c \in Selections : ChooseOptions(c)
  <2>1. IsInstaller(installer')
    BY <1>2 DEF ChooseOptions, IInv, IsInstaller, UnsetsUpdated
  <2> QED
    BY <1>2, <2>1 DEF ChooseOptions, IInv, DataIsThere, machine
<1>3. CASE StartApp \/ AppEnds \/ UseApp
  <2>1. DataIsThere'
    <3>1. CASE UseApp
      BY <3>1, InstallerAssumption DEF UseApp, DataIsThere, DataDistro
    <3>2. CASE StartApp \/ AppEnds
      BY <3>2 DEF StartApp, AppEnds, IInv, DataIsThere
    <3> QED
      BY <1>3, <3>1, <3>2
  <2> QED
    BY <1>3, <2>1 DEF StartApp, AppEnds, UseApp, IInv, IsInstaller
<1>4. CASE \/ \E v \in Versions, unattended \in BOOLEAN : RunInstaller(v, unattended)
           \/ RunUninstaller \/ CloseWindow \/ KillInstaller \/ RestartWindows
  <2>1. IsInstaller(installer')
    BY <1>4, WindowsAreInstallers
    DEF RunInstaller, RunUninstaller, CloseWindow, KillInstaller, RestartWindows
  <2>2. present' = present /\ data' = data
    BY <1>4 DEF RunInstaller, RunUninstaller, CloseWindow, KillInstaller, RestartWindows, machine
  <2> QED
    BY <2>1, <2>2 DEF IInv, DataIsThere
<1> QED
  BY <1>1, <1>2, <1>3, <1>4

\* Unset in the loop removes the data only when uninstalling.
LEMMA UnsetStep ==
    ASSUME IInv, UnsetResource
    PROVE  IInv' /\ (data => data' \/ installer.uninstall)
<1>1. IsInstaller(installer')
  BY SuccessorsAreInstallers DEF UnsetResource, IInv
<1>2. CASE Kind(Current) = "ShutdownProcess"
  BY <1>1, <1>2 DEF UnsetResource, ShutDown, IInv, DataIsThere
<1>3. CASE Kind(Current) # "ShutdownProcess"
  <2>1. Unset(Current)
    BY <1>3 DEF UnsetResource
  <2>2. ~installer.uninstall => Current \notin {DataDistro, "CreateAppDataDirectory"}
    BY ManifestFacts DEF UnsetResource, AtResource, Current, IInv, IsInstaller, UnsetsUpdated
  <2> QED
    BY <1>1, <2>1, <2>2, UnsetSparesData DEF IInv
<1> QED
  BY <1>2, <1>3

\* Set puts a complete distribution in its place, and what a failed Set leaves behind
\* is not a distribution.
LEMMA SetStep ==
    ASSUME IInv, SetResource \/ SetFails
    PROVE  IInv' /\ (data => data')
<1>1. CASE SetResource
  <2>1. IsInstaller(installer')
    <3>1. CASE Kind(Current) = "EnableWindowsFeatures"
      <4>1. \A R : IsInstaller([installer EXCEPT !.reboot = R])
        BY DEF IInv, IsInstaller, UnsetsUpdated
      <4>2. \A R, r : IsInstaller(Processed([installer EXCEPT !.reboot = R], r))
        BY <4>1, SuccessorsAreInstallers
      <4>3. Feature(Current)
        BY <1>1, <3>1 DEF SetResource, Stored, Volatile
      <4> QED
        BY <4>2, <4>3 DEF Feature
    <3>2. CASE Kind(Current) = "GetInstalledVersion"
      <4>1. \A V : IsInstaller([installer EXCEPT !.installedVersion = V])
        BY DEF IInv, IsInstaller, UnsetsUpdated
      <4>2. \A V, r : IsInstaller(Processed([installer EXCEPT !.installedVersion = V], r))
        BY <4>1, SuccessorsAreInstallers
      <4>3. ReadVersion
        BY <1>1, <3>2 DEF SetResource, Stored, Volatile
      <4> QED
        BY <4>2, <4>3 DEF ReadVersion
    <3>3. CASE Kind(Current) \notin {"EnableWindowsFeatures", "GetInstalledVersion"}
      BY <1>1, <3>3, SuccessorsAreInstallers DEF SetResource, Run, IInv
    <3> QED
      BY <3>1, <3>2, <3>3
  <2>2. data' = data
    BY <1>1 DEF SetResource, Feature, ReadVersion, ShutDown, Run, machine
  <2>3. \/ present' = present
        \/ present' = [present EXCEPT ![Current] = Content(Current)]
    BY <1>1 DEF SetResource, Feature, ReadVersion, ShutDown, Run, machine
  <2>4. Current = DataDistro => Content(Current) \notin {"absent", "partial"}
    BY <1>1, ManifestFacts, InstallerAssumption DEF SetResource, CanSet, CanImport, Content, Kind
  <2>5. DOMAIN present' = Stored /\ DataIsThere'
    BY <2>2, <2>3, <2>4, ManifestFacts DEF IInv, DataIsThere
  <2> QED
    BY <2>1, <2>2, <2>5 DEF IInv
<1>2. CASE SetFails
  <2>1. IsInstaller(installer')
    BY <1>2, ThrowLeavesInstaller DEF SetFails, IInv
  <2>2. data' = data
    BY <1>2 DEF SetFails
  <2>3. \/ present' = present
        \/ /\ LeavesPart(Current)
           /\ present' = [present EXCEPT ![Current] = "partial"]
    BY <1>2 DEF SetFails
  <2>4. DOMAIN present' = Stored /\ present'[DataDistro] = present[DataDistro]
    BY <2>3, ManifestFacts DEF IInv, Kind, LeavesPart
  <2> QED
    BY <2>1, <2>2, <2>4 DEF IInv, DataIsThere
<1> QED
  BY <1>1, <1>2

\* The rest of the loop touches nothing but the installer.
LEMMA LoopStep ==
    ASSUME IInv, ExamineResource \/ ExamineFails \/ UnsetFails \/ AskConsent \/ EndLoop
    PROVE  IInv' /\ (data => data')
<1>1. present' = present /\ data' = data
  BY DEF ExamineResource, ExamineFails, UnsetFails, AskConsent, EndLoop, machine
<1>2. CASE ExamineResource
  <2>1. CASE NeedsUnset(Current)
    <3>1. installer' = [installer EXCEPT !.at = "unset"]
      BY <1>2, <2>1 DEF ExamineResource, AtResource
    <3>2. ~installer.uninstall => Resource[Head(installer.rest)].onUpdateAction = "Install"
      BY <2>1 DEF NeedsUnset, Current
    <3>3. IsInstaller(installer')
      BY <1>2, <3>1, <3>2 DEF ExamineResource, AtResource, IInv, IsInstaller, UnsetsUpdated
    <3> QED
      BY <1>1, <3>3 DEF IInv, DataIsThere
  <2>2. CASE ~NeedsUnset(Current)
    <3>1. IsInstaller([installer EXCEPT !.at = "set"])
      BY DEF IInv, IsInstaller, UnsetsUpdated
    <3>2. IsInstaller(installer')
      BY <1>2, <2>2, <3>1, SuccessorsAreInstallers DEF ExamineResource, IInv
    <3> QED
      BY <1>1, <3>2 DEF IInv, DataIsThere
  <2> QED
    BY <2>1, <2>2
<1>3. CASE ExamineFails \/ UnsetFails
  <2>1. IsInstaller(installer')
    BY <1>3, ThrowLeavesInstaller DEF ExamineFails, UnsetFails, IInv
  <2> QED
    BY <1>1, <2>1 DEF IInv, DataIsThere
<1>4. CASE AskConsent
  <2>1. IsInstaller([installer EXCEPT !.restartPending = TRUE])
    BY DEF IInv, IsInstaller, UnsetsUpdated
  <2>2. IsInstaller(installer')
    BY <1>4, <2>1, DoneLeavesInstaller DEF AskConsent
  <2> QED
    BY <1>1, <2>2 DEF IInv, DataIsThere
<1>5. CASE EndLoop
  <2>1. IsInstaller(installer')
    BY <1>5, DoneLeavesInstaller DEF EndLoop, IInv
  <2> QED
    BY <1>1, <2>1 DEF IInv, DataIsThere
<1> QED
  BY <1>2, <1>3, <1>4, <1>5

-----------------------------------------------------------------------------
\* Containers, images and volumes survive every upgrade, failure, rollback and restart
\* of the installer: only an uninstallation removes the data distribution.
THEOREM DataIsSafe == Spec => DataSurvives
<1>1. Init => IInv
  <2> SUFFICES ASSUME Init PROVE IInv
    OBVIOUS
  <2>1. IsInstaller(installer)
    BY WindowsAreInstallers DEF Init
  <2> QED
    BY <2>1 DEF Init, IInv, DataIsThere
<1>2. ASSUME IInv, Next PROVE IInv' /\ (data => data' \/ installer.uninstall)
  BY <1>2, OutsideTheLoop, UnsetStep, SetStep, LoopStep DEF Next, InstallerStep
<1>3. ASSUME IInv, UNCHANGED vars PROVE IInv'
  BY <1>3 DEF vars, machine, IInv, IsInstaller, UnsetsUpdated, DataIsThere
<1>4. IInv /\ [Next]_vars => IInv'
  BY <1>2, <1>3
<1>5. IInv /\ [Next]_vars => [data /\ ~data' => installer.uninstall]_vars
  BY <1>2
<1> QED
  BY <1>1, <1>4, <1>5, PTL DEF Spec, DataSurvives

-----------------------------------------------------------------------------
(* The type of the state                                                   *)

Installers ==
    [phase : {"none", "window", "apply", "done"}, version : Versions \cup {"none"},
     uninstall : BOOLEAN, autoStart : BOOLEAN, delayReboot : BOOLEAN, enabled : SUBSET Optional,
     installedVersion : Versions \cup {"none", "partial"},
     resources : Seq(Ids), rest : Seq(Ids), processed : Seq(Ids),
     at : {"test", "unset", "set", "consent"}, undoing : BOOLEAN, reboot : SUBSET FeatureIds,
     restartPending : BOOLEAN,
     result : {"none", "Succeeded", "PendingRestart", "RolledBack", "Failed"}]

\* What lies in a directory is there only if the directory is.
Nested(p) ==
    \A r \in Stored : Kind(r) \in {"CopyFile", "CopyPackedFile"} /\ p[r] # "absent" =>
        p[Resource[r].inside] # "absent"

\* What is on the machine; and the programs, the data, the files of the installer and the
\* bounds.
PlacesType ==
    /\ present \in [Stored -> Versions \cup {"absent", "partial"}] /\ Nested(present)
    /\ features \in [FeatureIds -> {"off", "pending", "on"}]

OthersType ==
    /\ running \subseteq {"app", "proxy", "forwarder"} /\ data \in BOOLEAN
    /\ optionals \subseteq Optional /\ disabled \subseteq Optional
    /\ restart \in Versions \cup {"no"}
    /\ runs \in 0..MaxRuns /\ faultsLeft \in 0..MaxFaults

\* An installer that runs has a version, and goes through resources of its graph.
InstallerType(i) ==
    /\ i \in Installers
    /\ i.phase # "none" => i.version \in Versions
    /\ ToSet(i.rest) \subseteq ToSet(i.resources)

-----------------------------------------------------------------------------
(* The loop                                                                *)

\* Apply of the manifest goes on, or has come to its end.
Applies(i) == i.phase = "apply" \/ (i.phase = "done" /\ i.result = "Succeeded")

\* An installation that has not failed; an uninstallation.
Forward(i) == Applies(i) /\ ~i.uninstall /\ ~i.undoing
Removes(i) == Applies(i) /\ i.uninstall

\* The resources that the loop has passed.
Passed(i) == ToSet(i.resources) \ ToSet(i.rest)

\* What each call knows of its resource, and how an Apply ends.
Calls(i) ==
    /\ i.phase = "window" => i.at = "test" /\ i.processed = <<>>
    /\ i.phase = "apply" /\ i.at = "unset" /\ ~i.uninstall => Head(i.rest) \in UpdatedIds
    /\ i.phase = "apply" /\ i.at = "set" =>
           /\ ~i.uninstall
           /\ Head(i.rest) \in FeatureIds => features[Head(i.rest)] # "on"
    /\ i.uninstall => ~i.undoing
    /\ i.phase = "window" => ~i.undoing
    /\ i.phase = "done" /\ i.result = "Succeeded" => i.rest = <<>> /\ ~i.undoing

\* What is before the loop keeps the order of the graph.
Ordered(i) ==
    /\ Forward(i) =>
        /\ UpdatedIds \cup {Platform} \subseteq ToSet(i.resources)
        /\ Ahead(i.rest, {"GetInstalledVersion"}, Stored)
        /\ Ahead(i.rest, {"UnpackFiles"}, Contents("UnpackFiles"))
        /\ Ahead(i.rest, {"CopyDistro"}, {"InstallWslDistro"})
        /\ Ahead(i.rest, {Platform}, Distros)
        /\ "GetInstalledVersion" \in ToSet(i.rest) => Passed(i) \cap Stored = {}
        /\ "UnpackFiles" \in ToSet(i.rest) => Passed(i) \cap Contents("UnpackFiles") = {}
    /\ Removes(i) =>
        /\ Distros \cup {"UnpackFiles"} \subseteq ToSet(i.resources)
        /\ Ahead(i.rest, Distros, {"CreateAppDataDirectory"})
        /\ \A r \in ToSet(i.resources) : ~Resource[r].noUninstall

\* What the loop has passed is installed, in the new version if it updates.
Newer(i) == i.installedVersion \notin {"none", i.version}
Installed(i) ==
    Forward(i) =>
        /\ \A r \in Passed(i) \cap Stored :
               present[r] = "absent" => Newer(i) /\ Resource[r].onUpdateAction = "Skip"
        /\ Newer(i) => \A r \in Passed(i) \cap UpdatedIds : present[r] = i.version

\* The platform is on once it has been passed, and before any distribution is set, again or
\* for the first time.
PlatformOn(i) ==
    features[Platform] = "on" \/
        /\ \A d \in Distros : present[d] = "absent"
        /\ Forward(i) => Platform \notin Passed(i)
        /\ i.phase = "apply" /\ ~i.uninstall =>
               /\ Distros \cap ToSet(i.processed) = {}
               /\ i.undoing => Distros \cap ToSet(i.rest) = {}

\* What an uninstallation has passed is gone; CopyInstaller goes with its directory.
Removed(i) ==
    /\ \A d \in Distros : present[d] # "partial"
    /\ Removes(i) =>
           \A r \in Passed(i) \cap Stored :
               r \in {"RegisterProduct", "CopyInstaller"} \/ present[r] = "absent"

\* The invariant of the loop, then with what it runs on, then with the rest of the state.
LoopPart(i) == Calls(i) /\ Ordered(i) /\ Installed(i) /\ PlatformOn(i) /\ Removed(i)
Core == PlacesType /\ InstallerType(installer) /\ LoopPart(installer)
LoopInv == Core /\ OthersType

-----------------------------------------------------------------------------
(* Sequences                                                               *)

\* What is left of a sequence after its first element.
LEMMA TailOf ==
    ASSUME NEW S, NEW s \in Seq(S), s # <<>>
    PROVE  /\ Head(s) \in S /\ Tail(s) \in Seq(S)
           /\ ToSet(s) = {Head(s)} \cup ToSet(Tail(s))
<1>1. Len(s) \in Nat /\ Len(s) > 0 /\ DOMAIN s = 1..Len(s) /\ Head(s) = s[1]
  OBVIOUS
<1>2. Head(s) \in S /\ Tail(s) \in Seq(S)
  BY <1>1
<1>3. /\ Len(Tail(s)) = Len(s) - 1 /\ DOMAIN Tail(s) = 1..(Len(s) - 1)
      /\ \A k \in 1..(Len(s) - 1) : Tail(s)[k] = s[k + 1]
  BY <1>1
<1>4. ASSUME NEW x PROVE x \in ToSet(s) <=> x = Head(s) \/ x \in ToSet(Tail(s))
  <2>1. ASSUME x \in ToSet(s) PROVE x = Head(s) \/ x \in ToSet(Tail(s))
    <3>1. PICK k \in 1..Len(s) : x = s[k]
      BY <1>1, <2>1 DEF ToSet
    <3>2. CASE k = 1
      BY <1>1, <3>1, <3>2
    <3>3. CASE k # 1
      <4>1. k - 1 \in DOMAIN Tail(s) /\ x = Tail(s)[k - 1]
        BY <1>1, <1>3, <3>1, <3>3
      <4> QED
        BY <4>1 DEF ToSet
    <3> QED
      BY <3>2, <3>3
  <2>2. Head(s) \in ToSet(s)
    <3>1. 1 \in DOMAIN s
      BY <1>1
    <3> QED
      BY <1>1, <3>1 DEF ToSet
  <2>3. ASSUME x \in ToSet(Tail(s)) PROVE x \in ToSet(s)
    <3>1. PICK k \in 1..(Len(s) - 1) : x = Tail(s)[k]
      BY <1>3, <2>3 DEF ToSet
    <3>2. k + 1 \in DOMAIN s /\ x = s[k + 1]
      BY <1>1, <1>3, <3>1
    <3> QED
      BY <3>2 DEF ToSet
  <2> QED
    BY <2>1, <2>2, <2>3
<1> QED
  BY <1>2, <1>4

\* The rest keeps the order, and nothing that comes before its first element is in it.
LEMMA TailAhead ==
    ASSUME NEW S, NEW s \in Seq(S), s # <<>>, NEW these, NEW those, Ahead(s, these, those)
    PROVE  /\ Ahead(Tail(s), these, those)
           /\ Head(s) \in those => ToSet(s) \cap these = {}
<1>1. Len(s) \in Nat /\ Len(s) > 0 /\ DOMAIN s = 1..Len(s) /\ Head(s) = s[1]
  OBVIOUS
<1>2. /\ DOMAIN Tail(s) = 1..(Len(s) - 1)
      /\ \A k \in 1..(Len(s) - 1) : Tail(s)[k] = s[k + 1]
  BY <1>1
<1>3. \A i, j \in 1..Len(s) : s[i] \in these /\ s[j] \in those => i < j
  BY <1>1 DEF Ahead
<1>4. ASSUME NEW i \in DOMAIN Tail(s), NEW j \in DOMAIN Tail(s),
             Tail(s)[i] \in these, Tail(s)[j] \in those
      PROVE  i < j
  <2>1. i + 1 \in 1..Len(s) /\ j + 1 \in 1..Len(s) /\ i \in Int /\ j \in Int
    BY <1>1, <1>2
  <2>2. s[i + 1] \in these /\ s[j + 1] \in those
    BY <1>2, <1>4
  <2> QED
    BY <1>3, <2>1, <2>2
<1>5. ASSUME Head(s) \in those, NEW x \in ToSet(s), x \in these PROVE FALSE
  <2>1. PICK k \in 1..Len(s) : x = s[k]
    BY <1>1 DEF ToSet
  <2>2. k < 1
    BY <1>1, <1>3, <1>5, <2>1
  <2> QED
    BY <2>1, <2>2
<1> QED
  BY <1>4, <1>5 DEF Ahead

-----------------------------------------------------------------------------
(* The records that follow the installer's                                 *)

\* Nothing has changed but the place in the loop and what has been processed.
Same(i, j) ==
    /\ j.phase = i.phase /\ j.version = i.version /\ j.uninstall = i.uninstall
    /\ j.undoing = i.undoing /\ j.installedVersion = i.installedVersion
    /\ j.resources = i.resources /\ j.result = i.result

\* The next call of the same resource; the next resource; the question about the restart.
Turns(i, j, call) == Same(i, j) /\ j.rest = i.rest /\ j.processed = i.processed /\ j.at = call
Pushed(i, j) == j.processed \in {i.processed, <<Head(i.rest)>> \o i.processed}
Passes(i, j) == Same(i, j) /\ j.rest = Tail(i.rest) /\ j.at = "test" /\ Pushed(i, j)
Waits(i, j)  == Same(i, j) /\ j.rest = i.rest /\ j.at = "consent" /\ Pushed(i, j)

\* The state of an installer that applies.
Looping(i) == InstallerType(i) /\ i.phase = "apply" /\ i.rest # <<>>

\* The loop goes on with Unset or Set of the same resource,
LEMMA CallsTurn ==
    ASSUME NEW i, InstallerType(i), NEW call \in {"unset", "set"}
    PROVE  /\ InstallerType([i EXCEPT !.at = call])
           /\ Turns(i, [i EXCEPT !.at = call], call)
  BY DEF InstallerType, Installers, Turns, Same

\* or with the next resource,
LEMMA AdvancePasses ==
    ASSUME NEW i, Looping(i)
    PROVE  InstallerType(Advance(i)) /\ Passes(i, Advance(i)) /\ Advance(i).processed = i.processed
<1>1. Tail(i.rest) \in Seq(Ids) /\ ToSet(Tail(i.rest)) \subseteq ToSet(i.resources)
  BY TailOf DEF Looping, InstallerType, Installers
<1>2. Advance(i) \in Installers
  BY <1>1 DEF Advance, Looping, InstallerType, Installers
<1>3. Passes(i, Advance(i)) /\ Advance(i).processed = i.processed
  BY DEF Advance, Passes, Pushed, Same, Looping, InstallerType, Installers
<1> QED
  BY <1>1, <1>2, <1>3 DEF Passes, Same, Looping, InstallerType

\* or, what it has changed pushed, with the next resource unless a restart is required.
LEMMA ProcessedMovesOn ==
    ASSUME NEW i, Looping(i)
    PROVE  LET j == Processed(i, Head(i.rest))
           IN  /\ InstallerType(j)
               /\ IF Head(i.rest) \in i.reboot THEN Waits(i, j) ELSE Passes(i, j)
<1> DEFINE pushed == [i EXCEPT !.processed = <<Head(i.rest)>> \o @]
<1>1. <<Head(i.rest)>> \o i.processed \in Seq(Ids)
  BY TailOf DEF Looping, InstallerType, Installers
<1>2. /\ InstallerType(pushed) /\ Same(i, pushed) /\ pushed.rest = i.rest
      /\ pushed.processed = <<Head(i.rest)>> \o i.processed
  BY <1>1 DEF Looping, InstallerType, Installers, Same
<1>3. Looping(pushed)
  BY <1>2 DEF Looping, Same
<1>4. CASE Head(i.rest) \in i.reboot
  <2>1. /\ InstallerType([pushed EXCEPT !.at = "consent"])
        /\ Waits(i, [pushed EXCEPT !.at = "consent"])
    BY <1>2 DEF InstallerType, Installers, Waits, Pushed, Same
  <2> QED
    BY <1>4, <2>1 DEF Processed
<1>5. CASE Head(i.rest) \notin i.reboot
  <2>1. InstallerType(Advance(pushed)) /\ Passes(i, Advance(pushed))
    BY <1>2, <1>3, AdvancePasses DEF Passes, Pushed, Same
  <2> QED
    BY <1>5, <2>1 DEF Processed
<1> QED
  BY <1>4, <1>5

\* A window, and no installer at all.
LEMMA WindowsAreTyped ==
    /\ InstallerType(NoInstaller) /\ NoInstaller.phase = "none" /\ ~NoInstaller.undoing
    /\ optionals \subseteq Optional =>
           \A v \in Versions, u, a, d \in BOOLEAN :
               LET w == Window(v, u, a, d)
               IN  /\ InstallerType(w) /\ w.phase = "window" /\ w.at = "test"
                   /\ w.processed = <<>> /\ ~w.undoing
<1>1. <<>> \in Seq(Ids) /\ ToSet(<<>>) = {}
  BY DEF ToSet
<1>2. NoInstaller \in Installers
  BY <1>1 DEF NoInstaller, Installers
<1>3. ASSUME NEW v \in Versions, NEW u \in BOOLEAN, NEW a \in BOOLEAN, NEW d \in BOOLEAN,
             optionals \subseteq Optional
      PROVE  LET w == Window(v, u, a, d)
             IN  /\ InstallerType(w) /\ w.phase = "window" /\ w.at = "test"
                 /\ w.processed = <<>> /\ ~w.undoing
  <2>1. Window(v, u, a, d) \in Installers
    BY <1>1, <1>3, Zenon DEF Installers, Window, NoInstaller
  <2> QED
    BY <1>1, <1>3, <2>1 DEF InstallerType, Window, NoInstaller
<1>4. InstallerType(NoInstaller) /\ NoInstaller.phase = "none" /\ ~NoInstaller.undoing
  BY <1>1, <1>2 DEF InstallerType, NoInstaller
<1> QED
  BY <1>3, <1>4

\* An Apply that ends, and one that is thrown back: the catch block turns an installation
\* around and gives up anything else.
LEMMA DoneEnds ==
    ASSUME NEW i, InstallerType(i), i.phase = "apply",
           NEW result \in {"Succeeded", "PendingRestart", "RolledBack", "Failed"}, Done(i, result)
    PROVE  /\ InstallerType(installer')
           /\ installer'.phase = "done" /\ installer'.result = result
           /\ installer'.uninstall = i.uninstall /\ installer'.undoing = i.undoing
           /\ installer'.rest = i.rest /\ installer'.resources = i.resources
           /\ installer'.version = i.version /\ installer'.installedVersion = i.installedVersion
  BY DEF Done, InstallerType, Installers

TurnsAround(i, j) ==
    /\ ~i.uninstall /\ ~j.uninstall /\ ~i.undoing /\ j.undoing
    /\ j.phase = "apply" /\ j.at = "test"
    /\ j.resources = i.processed /\ j.rest = i.processed /\ j.processed = <<>>

GivesUp(i, j) ==
    /\ j.phase = "done" /\ j.result \in {"RolledBack", "Failed"}
    /\ j.uninstall = i.uninstall /\ j.undoing = i.undoing

\* The catch block does one of the two.
LEMMA ThrowEnds ==
    ASSUME InstallerType(installer), installer.phase = "apply", Throw
    PROVE  /\ InstallerType(installer')
           /\ TurnsAround(installer, installer') \/ GivesUp(installer, installer')
<1>1. CASE installer.undoing \/ installer.uninstall
  <2>1. PICK result \in {"RolledBack", "Failed"} : Done(installer, result)
    BY <1>1 DEF Throw
  <2> QED
    BY <2>1, DoneEnds DEF GivesUp
<1>2. CASE ~installer.undoing /\ ~installer.uninstall
  <2>1. installer' = [installer EXCEPT !.resources = installer.processed,
                          !.rest = installer.processed, !.processed = <<>>,
                          !.at = "test", !.undoing = TRUE]
    BY <1>2 DEF Throw
  <2>2. <<>> \in Seq(Ids)
    OBVIOUS
  <2>3. InstallerType(installer')
    BY <2>1, <2>2 DEF InstallerType, Installers
  <2>4. TurnsAround(installer, installer')
    BY <1>2, <2>1, Zenon DEF InstallerType, Installers, TurnsAround
  <2> QED
    BY <2>3, <2>4
<1> QED
  BY <1>1, <1>2

\* The loop passes at most the resource it is at, and what it has left keeps its order.
LEMMA OrderIsKept ==
    ASSUME NEW i, Looping(i), Ordered(i), NEW j,
           Passes(i, j) \/ Waits(i, j) \/ Turns(i, j, "unset") \/ Turns(i, j, "set")
    PROVE  /\ Ordered(j) /\ Passed(j) \subseteq Passed(i) \cup {Head(i.rest)}
           /\ ~Passes(i, j) => Passed(j) = Passed(i)
           /\ Applies(i) /\ Applies(j) /\ Forward(j) = Forward(i) /\ Removes(j) = Removes(i)
<1>1. Same(i, j)
  BY DEF Passes, Waits, Turns
<1>2. Applies(i) /\ Applies(j) /\ Forward(j) = Forward(i) /\ Removes(j) = Removes(i)
  BY <1>1 DEF Same, Looping, Applies, Forward, Removes
<1>3. CASE j.rest = i.rest
  BY <1>1, <1>2, <1>3 DEF Ordered, Passed, Same
<1>4. CASE Passes(i, j)
  <2>1. i.rest \in Seq(Ids) /\ i.rest # <<>> /\ j.rest = Tail(i.rest)
    BY <1>4 DEF Looping, InstallerType, Installers, Passes
  <2>2. ToSet(i.rest) = {Head(i.rest)} \cup ToSet(j.rest)
    BY <2>1, TailOf
  <2>3. Passed(j) \subseteq Passed(i) \cup {Head(i.rest)}
    BY <1>1, <2>2 DEF Passed, Same
  <2>4. ASSUME NEW these, NEW those, Ahead(i.rest, these, those)
        PROVE  /\ Ahead(j.rest, these, those)
               /\ Head(i.rest) \in those => ToSet(i.rest) \cap these = {}
    BY <2>1, <2>4, TailAhead
  <2>5. ASSUME NEW r, NEW those, Ahead(i.rest, {r}, those), r \in ToSet(j.rest),
               r \in ToSet(i.rest) => Passed(i) \cap those = {}
        PROVE  Passed(j) \cap those = {}
    BY <2>2, <2>3, <2>4, <2>5
  <2>6. ASSUME Forward(i)
        PROVE  /\ Ahead(j.rest, {"GetInstalledVersion"}, Stored)
               /\ Ahead(j.rest, {"UnpackFiles"}, Contents("UnpackFiles"))
               /\ Ahead(j.rest, {"CopyDistro"}, {"InstallWslDistro"})
               /\ Ahead(j.rest, {Platform}, Distros)
               /\ "GetInstalledVersion" \in ToSet(j.rest) => Passed(j) \cap Stored = {}
               /\ "UnpackFiles" \in ToSet(j.rest) => Passed(j) \cap Contents("UnpackFiles") = {}
    BY <2>4, <2>5, <2>6 DEF Ordered
  <2>7. ASSUME Removes(i) PROVE Ahead(j.rest, Distros, {"CreateAppDataDirectory"})
    BY <2>4, <2>7 DEF Ordered
  <2> QED
    BY <1>1, <1>2, <1>4, <2>3, <2>6, <2>7 DEF Ordered, Same
<1> QED
  BY <1>2, <1>3, <1>4 DEF Waits, Turns

-----------------------------------------------------------------------------
(* The rest of the state                                                   *)

\* Programs, data, the files of the installer and the bounds have their type.
LEMMA OthersAreTyped ==
    ASSUME OthersType, InstallerType(installer), Next
    PROVE  OthersType'
<1> USE DEF OthersType
<1>1. /\ installer.enabled \subseteq Optional
      /\ installer.phase # "none" => installer.version \in Versions
  BY DEF InstallerType, Installers
<1>2. ASSUME NEW exe, ShutDown(exe)
      PROVE  running' \subseteq {"app", "proxy", "forwarder"} /\ data' = data
  BY <1>2 DEF ShutDown
<1>3. ASSUME Throw PROVE optionals' = optionals /\ disabled' \in {disabled, {}}
  BY <1>3 DEF Throw, Done, saved
<1>4. ASSUME NEW f, Fault(f) PROVE faultsLeft' \in 0..MaxFaults
  BY <1>4, InstallerAssumption DEF Fault
<1>5. CASE \/ \E v \in Versions, unattended \in BOOLEAN : RunInstaller(v, unattended)
           \/ RunUninstaller
  <2>1. runs' \in 0..MaxRuns
    <3>1. runs < MaxRuns /\ runs' = runs + 1
      BY <1>5 DEF RunInstaller, RunUninstaller
    <3> QED
      BY <3>1, InstallerAssumption
  <2>2. UNCHANGED <<running, data, optionals, disabled, restart, faultsLeft>>
    BY <1>5 DEF RunInstaller, RunUninstaller, machine, saved
  <2> QED
    BY <2>1, <2>2
<1>6. CASE (\E c \in Selections : ChooseOptions(c)) \/ CloseWindow \/ ExamineResource
  <2>1. UNCHANGED <<running, data, optionals, disabled, restart, runs, faultsLeft>>
    BY <1>6 DEF ChooseOptions, CloseWindow, ExamineResource, machine, saved
  <2> QED
    BY <2>1
<1>7. CASE Apply
  <2>1. disabled' \in {disabled, Optional \ installer.enabled} /\ optionals' = installer.enabled
    BY <1>7 DEF Apply
  <2>2. UNCHANGED <<running, data, restart, runs, faultsLeft>>
    BY <1>7 DEF Apply
  <2> QED
    BY <1>1, <2>1, <2>2
<1>8. CASE ExamineFails
  <2>1. UNCHANGED <<running, data, restart, runs, faultsLeft>>
    BY <1>8 DEF ExamineFails, machine
  <2> QED
    BY <1>3, <1>8, <2>1 DEF ExamineFails
<1>9. CASE UnsetResource
  <2>1. running' \subseteq {"app", "proxy", "forwarder"} /\ data' \in BOOLEAN
    <3>1. CASE Kind(Current) = "ShutdownProcess"
      BY <1>2, <1>9, <3>1 DEF UnsetResource
    <3>2. CASE Kind(Current) # "ShutdownProcess"
      <4>1. Unset(Current)
        BY <1>9, <3>2 DEF UnsetResource
      <4>2. data' \in BOOLEAN
        BY <4>1, Zenon DEF Unset
      <4> QED
        BY <4>1, <4>2 DEF Unset
    <3> QED
      BY <3>1, <3>2
  <2>2. optionals' \in {optionals, Optional} /\ disabled' \in {disabled, {}}
    BY <1>9 DEF UnsetResource, saved
  <2>3. UNCHANGED <<restart, runs, faultsLeft>>
    BY <1>9 DEF UnsetResource
  <2> QED
    BY <2>1, <2>2, <2>3
<1>10. CASE UnsetFails
  <2>1. UNCHANGED <<running, data, restart, runs>>
    BY <1>10 DEF UnsetFails, machine
  <2>2. faultsLeft' \in 0..MaxFaults
    BY <1>4, <1>10 DEF UnsetFails, NoFault
  <2> QED
    BY <1>3, <1>10, <2>1, <2>2 DEF UnsetFails
<1>11. CASE SetResource
  <2>1. UNCHANGED <<optionals, disabled, restart, runs, faultsLeft>>
    BY <1>11 DEF SetResource, saved
  <2>2. running' \subseteq {"app", "proxy", "forwarder"} /\ data' = data
    <3>1. CASE Kind(Current) = "EnableWindowsFeatures"
      BY <1>11, <3>1 DEF SetResource, Feature
    <3>2. CASE Kind(Current) = "GetInstalledVersion"
      BY <1>11, <3>2 DEF SetResource, ReadVersion, machine
    <3>3. CASE Kind(Current) = "ShutdownProcess"
      BY <1>2, <1>11, <3>3 DEF SetResource, Stored, Volatile
    <3>4. CASE Kind(Current) = "RunExecutable"
      BY <1>11, <3>4 DEF SetResource, Run, AppStarts, Stored, Volatile
    <3>5. CASE Kind(Current) \notin {"EnableWindowsFeatures", "GetInstalledVersion",
                                     "ShutdownProcess", "RunExecutable"}
      BY <1>11, <3>5 DEF SetResource, machine
    <3> QED
      BY <3>1, <3>2, <3>3, <3>4, <3>5
  <2> QED
    BY <2>1, <2>2
<1>12. CASE SetFails
  <2>1. UNCHANGED <<running, data, restart, runs>>
    BY <1>12 DEF SetFails
  <2>2. faultsLeft' \in 0..MaxFaults
    BY <1>4, <1>12 DEF SetFails, NoFault
  <2> QED
    BY <1>3, <1>12, <2>1, <2>2 DEF SetFails
<1>13. CASE AskConsent
  <2>1. restart' \in Versions \cup {"no"}
    BY <1>1, <1>13 DEF AskConsent, AtResource
  <2>2. UNCHANGED <<running, data, optionals, runs, faultsLeft>> /\ disabled' \in {disabled, {}}
    BY <1>13 DEF AskConsent, Done, machine
  <2> QED
    BY <2>1, <2>2
<1>14. CASE EndLoop
  BY <1>14 DEF EndLoop, Done, machine
<1>15. CASE KillInstaller
  <2>1. UNCHANGED <<running, data, optionals, disabled, restart, runs>>
    BY <1>15 DEF KillInstaller, machine, saved
  <2> QED
    BY <1>4, <1>15, <2>1 DEF KillInstaller
<1>16. CASE RestartWindows
  BY <1>16 DEF RestartWindows, saved
<1>17. CASE StartApp \/ AppEnds \/ UseApp
  <2>1. UNCHANGED <<optionals, disabled, restart, runs, faultsLeft>>
    BY <1>17 DEF StartApp, AppEnds, UseApp, saved
  <2>2. running' \subseteq {"app", "proxy", "forwarder"} /\ data' \in BOOLEAN
    BY <1>17 DEF StartApp, AppEnds, UseApp, AppStarts
  <2> QED
    BY <2>1, <2>2
<1> QED
  BY <1>5, <1>6, <1>7, <1>8, <1>9, <1>10, <1>11, <1>12, <1>13, <1>14, <1>15, <1>16, <1>17
  DEF Next, InstallerStep

-----------------------------------------------------------------------------
(* Steps that leave the loop, or turn it around                            *)

\* The distributions that are not there still are not, and none is left without its disk;
\* features that are on stay on.
Steady ==
    /\ \A d \in Distros : present[d] = "absent" => present'[d] = "absent"
    /\ \A d \in Distros : present[d] # "partial" => present'[d] # "partial"
    /\ features[Platform] = "on" => features'[Platform] = "on"

\* Outside the loop nothing is promised but that distributions need the platform.
LEMMA IdleKeepsLoop ==
    ASSUME LoopPart(installer), Steady, ~Applies(installer'),
           installer'.uninstall => ~installer'.undoing,
           installer'.phase = "window" =>
               installer'.at = "test" /\ installer'.processed = <<>> /\ ~installer'.undoing
    PROVE  LoopPart(installer)'
<1>1. Calls(installer)' /\ Ordered(installer)' /\ Installed(installer)'
  BY DEF Calls, Ordered, Installed, Applies, Forward, Removes
<1>2. PlatformOn(installer)'
  BY DEF LoopPart, Steady, PlatformOn, Applies, Forward
<1>3. Removed(installer)'
  BY DEF LoopPart, Steady, Removed, Removes
<1> QED
  BY <1>1, <1>2, <1>3 DEF LoopPart

\* A failure ends the Apply, or turns it around: what the installation has processed then
\* holds no distribution if the platform is not on.
LEMMA ThrowKeepsLoop ==
    ASSUME LoopPart(installer), Steady, InstallerType(installer), installer.phase = "apply", Throw
    PROVE  InstallerType(installer)' /\ LoopPart(installer)'
<1>1. /\ InstallerType(installer')
      /\ TurnsAround(installer, installer') \/ GivesUp(installer, installer')
  BY ThrowEnds
<1>2. CASE GivesUp(installer, installer')
  BY <1>1, <1>2, IdleKeepsLoop DEF GivesUp, Applies, LoopPart, Calls
<1>3. CASE TurnsAround(installer, installer')
  <2>1. Calls(installer)' /\ Ordered(installer)' /\ Installed(installer)'
    BY <1>3 DEF TurnsAround, Calls, Ordered, Installed, Forward, Removes
  <2>2. PlatformOn(installer)'
    <3>1. ToSet(<<>>) = {}
      BY DEF ToSet
    <3> QED
      BY <1>3, <3>1 DEF TurnsAround, LoopPart, Steady, PlatformOn, Forward
  <2>3. Removed(installer)'
    BY <1>3 DEF TurnsAround, LoopPart, Steady, Removed, Removes
  <2> QED
    BY <1>1, <2>1, <2>2, <2>3 DEF LoopPart
<1> QED
  BY <1>1, <1>2, <1>3

-----------------------------------------------------------------------------
(* One lemma per action                                                    *)

\* The start of an installer, its window, its end, and what else happens on the machine.
LEMMA OutsideKeepsCore ==
    ASSUME Core, OthersType,
           \/ \E v \in Versions, unattended \in BOOLEAN : RunInstaller(v, unattended)
           \/ RunUninstaller
           \/ \E c \in Selections : ChooseOptions(c)
           \/ CloseWindow \/ KillInstaller \/ RestartWindows
           \/ StartApp \/ AppEnds \/ UseApp
    PROVE  Core'
<1> USE DEF Core
<1>1. UNCHANGED <<present, features>> => PlacesType' /\ Steady
  BY DEF PlacesType, Nested, Steady
<1>2. CASE \/ \E v \in Versions, unattended \in BOOLEAN : RunInstaller(v, unattended)
           \/ RunUninstaller
  <2>1. UNCHANGED <<present, features>>
    BY <1>2 DEF RunInstaller, RunUninstaller, machine
  <2>2. PICK v \in Versions, u \in BOOLEAN, a \in BOOLEAN, d \in BOOLEAN :
            installer' = Window(v, u, a, d)
    BY <1>2 DEF RunInstaller, RunUninstaller
  <2> QED
    BY <1>1, <2>1, <2>2, WindowsAreTyped, IdleKeepsLoop DEF OthersType, Applies
<1>3. CASE \E c \in Selections : ChooseOptions(c)
  <2>1. PICK c \in Selections : ChooseOptions(c)
    BY <1>3
  <2>2. c \subseteq Optional
    BY InstallerAssumption
  <2>3. /\ UNCHANGED <<present, features>> /\ installer.phase = "window"
        /\ installer' = [installer EXCEPT !.enabled = c]
    BY <2>1 DEF ChooseOptions, machine
  <2>4. /\ InstallerType(installer') /\ installer'.phase = "window" /\ installer'.at = installer.at
        /\ installer'.processed = installer.processed /\ installer'.undoing = installer.undoing
    BY <2>2, <2>3 DEF InstallerType, Installers
  <2> QED
    BY <1>1, <2>3, <2>4, IdleKeepsLoop DEF Applies, LoopPart, Calls
<1>4. CASE CloseWindow \/ KillInstaller
  <2>1. UNCHANGED <<present, features>> /\ installer' = NoInstaller
    BY <1>4 DEF CloseWindow, KillInstaller, machine
  <2> QED
    BY <1>1, <2>1, WindowsAreTyped, IdleKeepsLoop DEF Applies
<1>5. CASE RestartWindows
  <2>1. /\ present' = present
        /\ features' = [r \in FeatureIds |-> IF features[r] = "pending" THEN "on" ELSE features[r]]
    BY <1>5 DEF RestartWindows
  <2>2. PlacesType' /\ Steady
    BY <2>1, ResourceSets DEF PlacesType, Nested, Steady
  <2>3. CASE restart = "no"
    BY <1>5, <2>2, <2>3, WindowsAreTyped, IdleKeepsLoop DEF RestartWindows, Applies
  <2>4. CASE restart # "no"
    <3>1. restart \in Versions /\ installer' = Window(restart, FALSE, TRUE, FALSE)
      BY <1>5, <2>4 DEF RestartWindows, OthersType
    <3> QED
      BY <2>2, <3>1, WindowsAreTyped, IdleKeepsLoop DEF OthersType, Applies
  <2> QED
    BY <2>3, <2>4
<1>6. CASE StartApp \/ AppEnds \/ UseApp
  <2>1. UNCHANGED <<present, features, installer>>
    BY <1>6 DEF StartApp, AppEnds, UseApp
  <2> QED
    BY <1>1, <2>1 DEF LoopPart, Calls, Installed, PlatformOn, Removed
<1> QED
  BY <1>2, <1>3, <1>4, <1>5, <1>6

\* The first resource of the graph is before the loop, and nothing has been passed.

\* Apply begins with all of its graph before it; the directory it makes is no distribution.
LEMMA ApplyKeepsCore ==
    ASSUME Core, OthersType, Apply
    PROVE  Core'
<1> DEFINE graph == BuildDependencyGraph(installer.uninstall, installer.enabled, disabled)
           CADD == "CreateAppDataDirectory"
<1> USE DEF Core
<1>1. /\ installer \in Installers /\ installer.phase = "window" /\ installer.version \in Versions
      /\ installer.at = "test" /\ installer.processed = <<>> /\ ~installer.undoing
      /\ installer.enabled \subseteq Optional /\ disabled \subseteq Optional
      /\ installer.uninstall \in BOOLEAN
  BY DEF Apply, InstallerType, Installers, LoopPart, Calls, OthersType
<1>2. /\ features' = features
      /\ present' = [present EXCEPT ![CADD] = IF @ = "absent" THEN installer.version ELSE @]
  BY DEF Apply
<1>3. PlacesType' /\ Steady
  <2>1. /\ present \in [Stored -> Versions \cup {"absent", "partial"}]
        /\ features \in [FeatureIds -> {"off", "pending", "on"}] /\ Nested(present)
    BY DEF PlacesType
  <2>2. CADD \in Stored /\ Kind(CADD) \notin {"CopyFile", "CopyPackedFile"} /\ CADD \notin Distros
    BY IdsAre, Attributes, ResourceSets DEF Kind, Has, Platform
  <2>3. /\ present' \in [Stored -> Versions \cup {"absent", "partial"}]
        /\ \A r \in Stored : r # CADD => present'[r] = present[r]
        /\ present'[CADD] # "absent"
    <3>1. installer.version # "absent"
      BY <1>1, InstallerAssumption
    <3> HIDE DEF CADD
    <3> QED
      BY <1>1, <1>2, <2>1, <2>2, <3>1
  <2>4. Nested(present')
    BY <2>1, <2>2, <2>3, Places DEF Nested, Stored
  <2>5. Distros \subseteq Stored
    BY ResourceSets, IdsAre DEF Platform
  <2> QED
    BY <1>2, <2>1, <2>2, <2>3, <2>4, <2>5 DEF PlacesType, Steady
<1>4. CASE ~graph.resolved
  <2>1. installer' = [installer EXCEPT !.phase = "done", !.result = "Failed"]
    BY <1>4 DEF Apply
  <2>2. /\ InstallerType(installer') /\ installer'.phase = "done"
        /\ installer'.result = "Failed" /\ installer'.undoing = installer.undoing
    <3> HIDE DEF graph
    <3>1. installer' \in Installers
      BY <1>1, <2>1, Zenon DEF Installers
    <3> QED
      BY <1>1, <2>1, <3>1 DEF InstallerType, Installers
  <2> QED
    BY <1>1, <1>3, <2>2, IdleKeepsLoop DEF Applies
<1>5. CASE graph.resolved
  <2>1. installer' = [installer EXCEPT !.phase = "apply", !.resources = graph.resources,
                                       !.rest = graph.resources]
    BY <1>5 DEF Apply
  <2>2. graph.resources \in Seq(Ids)
    <3>1. CASE installer.uninstall
      BY <1>1, <3>1, GraphAssumption
    <3>2. CASE ~installer.uninstall
      BY <1>1, <3>2, GraphAssumption
    <3> QED
      BY <3>1, <3>2
  <2> HIDE DEF graph
  <2>3. /\ InstallerType(installer') /\ installer'.phase = "apply" /\ installer'.at = "test"
        /\ installer'.uninstall = installer.uninstall /\ installer'.undoing = installer.undoing
        /\ installer'.resources = graph.resources /\ installer'.rest = graph.resources
        /\ installer'.processed = <<>>
    BY <1>1, <2>1, <2>2 DEF InstallerType, Installers
  <2>4. Passed(installer') = {}
    BY <2>3 DEF Passed
  <2>5. Calls(installer)'
    BY <1>1, <2>3 DEF Calls
  <2>6. Ordered(installer)'
    <3>1. CASE installer.uninstall
      BY <1>1, <2>3, <3>1, GraphAssumption DEF graph, Ordered, Forward, Removes, Platform
    <3>2. CASE ~installer.uninstall
      <4>1. LET s == graph.resources
            IN  /\ UpdatedIds \cup {Platform} \subseteq ToSet(s)
                /\ Ahead(s, {"GetInstalledVersion"}, Stored)
                /\ Ahead(s, {"UnpackFiles"}, Contents("UnpackFiles"))
                /\ Ahead(s, {"CopyDistro"}, {"InstallWslDistro"})
                /\ Ahead(s, {Platform}, Distros)
        BY <1>1, <3>2, GraphAssumption DEF graph, Platform
      <4> QED
        BY <2>3, <2>4, <3>2, <4>1 DEF Ordered, Forward, Removes
    <3> QED
      BY <3>1, <3>2
  <2>7. Installed(installer)' /\ PlatformOn(installer)' /\ Removed(installer)'
    <3>1. ToSet(<<>>) = {}
      BY DEF ToSet
    <3> QED
      BY <1>1, <1>3, <2>3, <2>4, <3>1
      DEF Installed, PlatformOn, Removed, LoopPart, Steady
  <2> QED
    BY <1>3, <2>3, <2>5, <2>6, <2>7 DEF LoopPart
<1> QED
  BY <1>4, <1>5

\* A call comes only in the loop.
LEMMA CallsAreInTheLoop ==
    ASSUME Core, NEW call, AtResource(call)
    PROVE  /\ Looping(installer) /\ Current \in Ids /\ Current \in ToSet(installer.rest)
           /\ installer.version \in Versions /\ installer.uninstall \in BOOLEAN
           /\ installer.phase = "apply" /\ installer.at = call /\ Current = Head(installer.rest)
<1>1. /\ InstallerType(installer) /\ installer.phase = "apply" /\ installer.rest # <<>>
      /\ installer.at = call
  BY DEF Core, AtResource
<1>2. installer.rest \in Seq(Ids) /\ installer.version \in Versions /\ installer.uninstall \in BOOLEAN
  BY <1>1 DEF InstallerType, Installers
<1>3. Head(installer.rest) \in Ids /\ Head(installer.rest) \in ToSet(installer.rest)
  BY <1>1, <1>2, TailOf
<1> QED
  BY <1>1, <1>2, <1>3 DEF Looping, Current

\* What Test says of a resource that puts something on the machine.
LEMMA TestOfStored ==
    ASSUME NEW r \in Stored, installer.version \in Versions
    PROVE  /\ Test(r) => present[r] # "absent"
           /\ ~Test(r) => \/ present[r] = "absent"
                          \/ r = "RegisterProduct"
                          \/ r = "CopyInstaller" \/ Resource[r].noUninstall
                          \/ r \in Distros /\ present[r] = "partial"
<1>1. r \in Ids /\ Kind(r) \notin {"ShutdownProcess", "EnableWindowsFeatures"}
  BY Steering DEF Stored
<1>2. installer.version # "absent"
  BY InstallerAssumption
<1>3. CASE Kind(r) = "CopyFile"
  <2>1. Test(r) = CopyFileTest(r) /\ (r = "CopyInstaller" \/ Resource[r].noUninstall)
    BY <1>3, Steering, Zenon DEF Test
  <2> QED
    BY <2>1 DEF CopyFileTest
<1>4. CASE Kind(r) = "RegisterProduct"
  <2>1. Test(r) = RegisterProductTest(r) /\ r = "RegisterProduct"
    BY <1>4, Steering, Zenon DEF Test
  <2> QED
    BY <1>2, <2>1 DEF RegisterProductTest
<1>5. CASE Kind(r) = "WslDistro"
  <2>1. Test(r) = WslDistroTest(r) /\ r \in Distros
    BY <1>5, Steering, Zenon DEF Test
  <2> QED
    BY <2>1 DEF WslDistroTest
<1>6. CASE Kind(r) \notin {"CopyFile", "RegisterProduct", "WslDistro"}
  <2>1. Test(r) = (r \in Stored /\ present[r] # "absent")
    BY <1>1, <1>6, Zenon DEF Test
  <2> QED
    BY <2>1
<1> QED
  BY <1>3, <1>4, <1>5, <1>6

\* A resource that is left as it is when installing is there, in the new version if it is
\* one that updates install, a feature is on, and when uninstalling it is gone.
LEMMA WhatIsLeft ==
    ASSUME Core, NEW r \in Ids, installer.version \in Versions, installer.uninstall \in BOOLEAN,
           ~NeedsUnset(r), ~NeedsSet(r)
    PROVE  /\ ~installer.uninstall /\ r \in FeatureIds => features[r] = "on"
           /\ ~installer.uninstall /\ r \in Stored /\ present[r] = "absent" =>
                  Updating /\ Resource[r].onUpdateAction = "Skip"
           /\ ~installer.uninstall /\ Updating => r \notin UpdatedIds
           /\ installer.uninstall /\ r \in Stored =>
                  \/ present[r] = "absent" \/ r = "RegisterProduct" \/ r = "CopyInstaller"
                  \/ Resource[r].noUninstall
<1>1. r \in Stored \cup FeatureIds \cup UpdatedIds => ~Resource[r].runAllways
  BY Steering, ResourceSets, IdsAre DEF Stored, Kind, Platform
<1>2. ASSUME ~installer.uninstall
      PROVE  /\ ~Resource[r].runAllways =>
                    (Updating /\ Resource[r].onUpdateAction = "Skip") \/ Test(r)
             /\ Updating /\ ~Resource[r].runAllways /\ Resource[r].onUpdateAction = "Install" =>
                    ~Test(r)
  BY <1>2 DEF NeedsUnset, NeedsSet
<1>3. ASSUME r \in FeatureIds
      PROVE  Resource[r].onUpdateAction = "None" /\ Test(r) = (features[r] = "on")
  <2>1. Kind(r) = "EnableWindowsFeatures" /\ Resource[r].onUpdateAction = "None"
    BY <1>3, Steering
  <2> QED
    BY <2>1, Zenon DEF Test, EnableWindowsFeaturesTest
<1>4. ASSUME installer.uninstall, r \in Stored PROVE ~Test(r)
  BY <1>4 DEF NeedsUnset
<1>5. r \in Distros => present[r] # "partial"
  BY DEF Core, LoopPart, Removed
<1>6. r \in UpdatedIds => Resource[r].onUpdateAction = "Install"
  BY DEF UpdatedIds
<1>7. r \in Stored /\ Test(r) => present[r] # "absent"
  BY TestOfStored
<1>8. ASSUME r \in Stored, ~Test(r)
      PROVE  \/ present[r] = "absent" \/ r = "RegisterProduct" \/ r = "CopyInstaller"
             \/ Resource[r].noUninstall
  BY <1>5, <1>8, TestOfStored
<1> QED
  BY <1>1, <1>2, <1>3, <1>4, <1>6, <1>7, <1>8

\* What stays as it is when neither the machine nor the place in the graph changes.
LEMMA TurnsKeepLoop ==
    ASSUME Core, Looping(installer), UNCHANGED <<present, features>>, InstallerType(installer'),
           Turns(installer, installer', "unset") \/ Turns(installer, installer', "set"),
           Calls(installer)'
    PROVE  Core'
<1>1. PlacesType'
  BY DEF Core, PlacesType, Nested
<1>2. /\ Ordered(installer)' /\ Passed(installer') = Passed(installer)
      /\ Forward(installer') = Forward(installer) /\ Removes(installer') = Removes(installer)
  BY OrderIsKept DEF Core, LoopPart, Turns, Passes
<1>3. Same(installer, installer') /\ installer'.rest = installer.rest
      /\ installer'.processed = installer.processed
  BY DEF Turns
<1>4. Installed(installer)'
  BY <1>2, <1>3 DEF Core, LoopPart, Installed, Newer, Same
<1>5. PlatformOn(installer)'
  BY <1>2, <1>3 DEF Core, LoopPart, PlatformOn, Same
<1>6. Removed(installer)'
  BY <1>2 DEF Core, LoopPart, Removed
<1> QED
  BY <1>1, <1>2, <1>4, <1>5, <1>6 DEF Core, LoopPart

\* Test, and what the loop makes of it.
LEMMA ExamineKeepsCore ==
    ASSUME Core, ExamineResource
    PROVE  Core'
<1>1. /\ Looping(installer) /\ Current \in Ids /\ Current \in ToSet(installer.rest)
      /\ installer.version \in Versions /\ installer.uninstall \in BOOLEAN
      /\ installer.phase = "apply" /\ Current = Head(installer.rest)
      /\ InstallerType(installer)
  BY CallsAreInTheLoop DEF ExamineResource, Core
<1>2. UNCHANGED <<present, features>>
  BY DEF ExamineResource, machine
<1>3. installer.uninstall => ~installer.undoing
  BY DEF Core, LoopPart, Calls
<1>4. CASE NeedsUnset(Current)
  <2>1. InstallerType(installer') /\ Turns(installer, installer', "unset")
    BY <1>1, <1>4, CallsTurn DEF ExamineResource
  <2>2. ~installer.uninstall => Current \in UpdatedIds
    BY <1>1, <1>4 DEF NeedsUnset, UpdatedIds
  <2>3. Calls(installer)'
    BY <1>1, <1>3, <2>1, <2>2 DEF Calls, Turns, Same
  <2> QED
    BY <1>1, <1>2, <2>1, <2>3, TurnsKeepLoop
<1>5. CASE ~NeedsUnset(Current) /\ NeedsSet(Current)
  <2>1. InstallerType(installer') /\ Turns(installer, installer', "set")
    BY <1>1, <1>5, CallsTurn DEF ExamineResource
  <2>2. ~installer.uninstall
    BY <1>5 DEF NeedsSet
  <2>3. Current \in FeatureIds => features[Current] # "on"
    <3>1. ASSUME Current \in FeatureIds PROVE ~Test(Current)
      BY <1>5, <3>1, Steering DEF NeedsSet
    <3>2. ASSUME Current \in FeatureIds PROVE Test(Current) = (features[Current] = "on")
      <4>1. Kind(Current) = "EnableWindowsFeatures"
        BY <3>2, Steering
      <4> QED
        BY <4>1, Zenon DEF Test, EnableWindowsFeaturesTest
    <3> QED
      BY <3>1, <3>2
  <2>4. Calls(installer)'
    BY <1>1, <1>2, <1>3, <2>1, <2>2, <2>3 DEF Calls, Turns, Same
  <2> QED
    BY <1>1, <1>2, <2>1, <2>4, TurnsKeepLoop
<1>6. CASE ~NeedsUnset(Current) /\ ~NeedsSet(Current)
  <2>1. /\ InstallerType(installer') /\ Passes(installer, installer')
        /\ installer'.processed = installer.processed
    BY <1>1, <1>6, AdvancePasses DEF ExamineResource
  <2>2. /\ Ordered(installer)' /\ Passed(installer') \subseteq Passed(installer) \cup {Current}
        /\ Forward(installer') = Forward(installer) /\ Removes(installer') = Removes(installer)
    BY <1>1, <2>1, OrderIsKept DEF Core, LoopPart
  <2>3. Same(installer, installer') /\ installer'.at = "test"
        /\ ToSet(installer'.rest) \subseteq ToSet(installer.rest)
    BY <1>1, <2>1, TailOf DEF Passes, Looping, InstallerType, Installers
  <2>4. Calls(installer)'
    BY <1>1, <1>3, <2>3 DEF Calls, Same
  <2>5. Installed(installer)'
    <3>1. ASSUME Forward(installer)
          PROVE  /\ Current \in Stored /\ present[Current] = "absent" =>
                        Newer(installer) /\ Resource[Current].onUpdateAction = "Skip"
                 /\ Newer(installer) => Current \notin UpdatedIds
      BY <1>1, <1>6, <3>1, WhatIsLeft DEF Forward, Newer, Updating
    <3> QED
      BY <1>2, <2>2, <2>3, <3>1 DEF Core, LoopPart, Installed, Newer, Same
  <2>6. PlatformOn(installer)'
    <3>1. ASSUME Forward(installer), features[Platform] # "on"
          PROVE  Current # Platform
      BY <1>1, <1>6, <3>1, WhatIsLeft, ResourceSets DEF Forward
    <3> QED
      BY <1>2, <2>1, <2>2, <2>3, <3>1 DEF Core, LoopPart, PlatformOn, Same
  <2>7. Removed(installer)'
    <3>1. ASSUME Removes(installer), Current \in Stored
          PROVE  Current \in {"RegisterProduct", "CopyInstaller"} \/ present[Current] = "absent"
      <4>1. ~Resource[Current].noUninstall
        BY <1>1, <3>1 DEF Core, LoopPart, Ordered, InstallerType
      <4> QED
        BY <1>1, <1>6, <3>1, <4>1, WhatIsLeft DEF Removes
    <3> QED
      BY <1>2, <2>2, <3>1 DEF Core, LoopPart, Removed
  <2>8. PlacesType'
    BY <1>2 DEF Core, PlacesType, Nested
  <2> QED
    BY <2>1, <2>2, <2>4, <2>5, <2>6, <2>7, <2>8 DEF Core, LoopPart
<1> QED
  BY <1>4, <1>5, <1>6

-----------------------------------------------------------------------------
\* Unset takes away the resource and what is in it; a distribution stays without its disk.
LEMMA UnsetTakesAway ==
    ASSUME PlacesType, NEW r \in Ids, Unset(r)
    PROVE  /\ PlacesType' /\ features' = features
           /\ r \in Stored => present'[r] = "absent"
           /\ \A x \in Stored : /\ present[x] = "absent" => present'[x] = "absent"
                                /\ x # r /\ x \notin Contents(r) => present'[x] = present[x]
           /\ \A x \in Distros : present'[x] = "partial" =>
                  present[x] = "partial" \/ (r = "CreateAppDataDirectory" /\ present[x] # "absent")
<1>1. /\ features' = features
      /\ present' = [x \in Stored |->
             IF x = r THEN "absent"
             ELSE IF Resource[x].inside # r THEN present[x]
             ELSE IF x \in Distros /\ present[x] # "absent" THEN "partial" ELSE "absent"]
  BY DEF Unset
<1>2. Stored \subseteq Ids /\ Distros \subseteq Stored
  BY ResourceSets, IdsAre DEF Stored, Platform
<1>3. Nested(present')
  <2>1. SUFFICES ASSUME NEW x \in Stored, Kind(x) \in {"CopyFile", "CopyPackedFile"},
                        present'[x] # "absent"
                 PROVE  present'[Resource[x].inside] # "absent"
    BY DEF Nested
  <2>2. x \notin Distros
    BY <2>1 DEF Distros
  <2>3. x # r /\ Resource[x].inside # r /\ present[x] # "absent"
    BY <1>1, <2>1, <2>2
  <2>4. Resource[x].inside \in Stored /\ Resource[Resource[x].inside].inside # r
    BY <1>2, <2>1, Places
  <2>5. present[Resource[x].inside] # "absent"
    BY <2>1, <2>3 DEF PlacesType, Nested
  <2> QED
    BY <1>1, <2>3, <2>4, <2>5
<1>4. PlacesType'
  BY <1>1, <1>3 DEF PlacesType
<1>5. \A x \in Stored : /\ present[x] = "absent" => present'[x] = "absent"
                        /\ x # r /\ x \notin Contents(r) => present'[x] = present[x]
  BY <1>1, <1>2 DEF Contents
<1>6. \A x \in Distros : present'[x] = "partial" =>
          present[x] = "partial" \/ (r = "CreateAppDataDirectory" /\ present[x] # "absent")
  BY <1>1, <1>2, Places
<1> QED
  BY <1>1, <1>4, <1>5, <1>6

\* Unset: an installation only takes away what it then sets anew; an uninstallation takes
\* the directory of the distributions away after them.
LEMMA UnsetKeepsCore ==
    ASSUME Core, UnsetResource
    PROVE  Core'
<1> DEFINE r == Current
<1>1. /\ Looping(installer) /\ r \in Ids /\ r \in ToSet(installer.rest)
      /\ installer.uninstall \in BOOLEAN
      /\ installer.phase = "apply" /\ installer.at = "unset" /\ r = Head(installer.rest)
      /\ InstallerType(installer)
  BY CallsAreInTheLoop DEF UnsetResource, Core
<1>2. /\ PlacesType' /\ features' = features
      /\ \A x \in Stored : /\ present[x] = "absent" => present'[x] = "absent"
                           /\ x # r /\ x \notin Contents(r) => present'[x] = present[x]
      /\ r \in Stored => present'[r] = "absent"
      /\ \A x \in Distros : present'[x] = "partial" =>
             present[x] = "partial" \/ (r = "CreateAppDataDirectory" /\ present[x] # "absent")
  <2>1. CASE Kind(r) = "ShutdownProcess"
    <3>1. UNCHANGED <<present, features>> /\ r \notin Stored
      BY <2>1, Steering DEF UnsetResource, ShutDown
    <3> QED
      BY <3>1 DEF Core, PlacesType, Nested
  <2>2. CASE Kind(r) # "ShutdownProcess"
    BY <1>1, <2>2, UnsetTakesAway DEF UnsetResource, Core
  <2> QED
    BY <2>1, <2>2
<1>3. Distros \subseteq Stored
  BY ResourceSets, IdsAre DEF Platform
<1>4. \A d \in Distros : present[d] # "partial"
  BY DEF Core, LoopPart, Removed
<1>5. CASE installer.uninstall
  <2>1. /\ InstallerType(installer')
        /\ Waits(installer, installer') \/ Passes(installer, installer')
    BY <1>1, <1>5, ProcessedMovesOn DEF UnsetResource, AfterUnset
  <2>2. /\ Ordered(installer)' /\ Passed(installer') \subseteq Passed(installer) \cup {r}
        /\ Forward(installer') = Forward(installer) /\ Removes(installer') = Removes(installer)
    BY <1>1, <2>1, OrderIsKept DEF Core, LoopPart
  <2>3. Same(installer, installer') /\ installer'.at \in {"test", "consent"}
    BY <2>1 DEF Passes, Waits
  <2>4. Removes(installer) /\ ~Forward(installer)
    BY <1>1, <1>5 DEF Removes, Forward, Applies
  <2>5. Calls(installer)'
    BY <1>1, <1>5, <2>3 DEF Core, LoopPart, Calls, Same
  <2>6. Installed(installer)'
    BY <2>2, <2>4 DEF Installed
  <2>7. PlatformOn(installer)'
    BY <1>2, <1>3, <1>5, <2>2, <2>3, <2>4 DEF Core, LoopPart, PlatformOn, Same
  <2>8. ASSUME r = "CreateAppDataDirectory", NEW d \in Distros PROVE present[d] = "absent"
    <3>1. ToSet(installer.rest) \cap Distros = {}
      <4>1. installer.rest \in Seq(Ids) /\ installer.rest # <<>>
        BY <1>1 DEF Looping, InstallerType, Installers
      <4>2. Ahead(installer.rest, Distros, {"CreateAppDataDirectory"})
        BY <2>4 DEF Core, LoopPart, Ordered
      <4> QED
        BY <1>1, <2>8, <4>1, <4>2, TailAhead
    <3>2. d \in Passed(installer) \cap Stored
      BY <1>3, <2>4, <2>8, <3>1 DEF Core, LoopPart, Ordered, Passed
    <3>3. d \notin {"RegisterProduct", "CopyInstaller"}
      BY ResourceSets
    <3> QED
      BY <2>4, <3>2, <3>3 DEF Core, LoopPart, Removed
  <2>9. Removed(installer)'
    <3>1. \A d \in Distros : present'[d] # "partial"
      BY <1>2, <1>4, <2>8
    <3>2. \A x \in Passed(installer) \cap Stored :
              x \in {"RegisterProduct", "CopyInstaller"} \/ present'[x] = "absent"
      BY <1>2, <2>4 DEF Core, LoopPart, Removed
    <3> QED
      BY <1>2, <2>2, <3>1, <3>2 DEF Removed
  <2> QED
    BY <1>2, <2>1, <2>2, <2>5, <2>6, <2>7, <2>9 DEF Core, LoopPart
<1>6. CASE ~installer.uninstall
  <2>1. InstallerType(installer') /\ Turns(installer, installer', "set")
    BY <1>1, <1>6, CallsTurn DEF UnsetResource, AfterUnset
  <2>2. r \in UpdatedIds
    BY <1>1, <1>6 DEF Core, LoopPart, Calls
  <2>3. r \notin FeatureIds /\ r # "CreateAppDataDirectory"
    BY <2>2, ResourceSets DEF Platform
  <2>4. /\ Ordered(installer)' /\ Passed(installer') = Passed(installer)
        /\ Forward(installer') = Forward(installer) /\ Removes(installer') = Removes(installer)
    BY <1>1, <2>1, OrderIsKept DEF Core, LoopPart, Turns, Passes
  <2>5. Same(installer, installer') /\ installer'.rest = installer.rest /\ installer'.at = "set"
        /\ installer'.processed = installer.processed
    BY <2>1 DEF Turns
  <2>6. Calls(installer)'
    BY <1>1, <1>6, <2>3, <2>5 DEF Calls, Same
  <2>7. Installed(installer)'
    <3>1. ASSUME Forward(installer), NEW x \in Passed(installer) \cap Stored
          PROVE  present'[x] = present[x]
      <4>1. x # r
        BY <1>1, <3>1 DEF Passed
      <4>2. x \notin Contents(r)
        <5>1. CASE r = "UnpackFiles"
          BY <1>1, <3>1, <5>1 DEF Core, LoopPart, Ordered
        <5>2. CASE r # "UnpackFiles"
          BY <2>2, <5>2, Places
        <5> QED
          BY <5>1, <5>2
      <4> QED
        BY <1>2, <3>1, <4>1, <4>2
    <3>2. UpdatedIds \subseteq Stored
      BY ResourceSets, IdsAre DEF Platform
    <3> QED
      BY <2>4, <2>5, <3>1, <3>2 DEF Core, LoopPart, Installed, Newer, Same
  <2>8. PlatformOn(installer)'
    BY <1>2, <1>3, <2>4, <2>5 DEF Core, LoopPart, PlatformOn, Same
  <2>9. Removed(installer)'
    BY <1>2, <1>4, <1>6, <2>3, <2>5 DEF Removed, Removes, Same
  <2> QED
    BY <1>2, <2>1, <2>4, <2>6, <2>7, <2>8, <2>9 DEF Core, LoopPart
<1> QED
  BY <1>1, <1>5, <1>6

\* A failure before anything has changed.
LEMMA UnsetFailsKeepsCore ==
    ASSUME Core, UnsetFails \/ ExamineFails
    PROVE  Core'
<1>1. installer.phase = "apply" /\ Throw /\ UNCHANGED <<present, features>>
  BY DEF UnsetFails, ExamineFails, AtResource, machine
<1> QED
  BY <1>1, ThrowKeepsLoop DEF Core, PlacesType, Nested, Steady

\* A failing Set leaves nothing, or a part of what is unpacked or written.
LEMMA SetFailsKeepsCore ==
    ASSUME Core, SetFails
    PROVE  Core'
<1> DEFINE r == Current
<1>1. installer.phase = "apply" /\ Throw /\ features' = features
  BY DEF SetFails, AtResource
<1>2. CASE present' = present
  BY <1>1, <1>2, ThrowKeepsLoop DEF Core, PlacesType, Nested, Steady
<1>3. CASE present' # present
  <2>1. LeavesPart(r) /\ CanSet(r) /\ present' = [present EXCEPT ![r] = "partial"]
    BY <1>3 DEF SetFails
  <2>2. r \in Ids
    BY CallsAreInTheLoop DEF SetFails
  <2>3. /\ Kind(r) \in {"Unpack", "CopyPackedFile"} /\ r \in Stored /\ r \notin Distros
        /\ Kind(r) = "CopyPackedFile" => present[Resource[r].inside] # "absent"
    <3>1. Kind(r) \in {"Unpack", "CopyPackedFile"}
      BY <2>1 DEF LeavesPart
    <3>2. Kind(r) = "CopyPackedFile" => CanCreate(r)
      BY <2>1, Zenon DEF CanSet
    <3> QED
      BY <2>2, <3>1, <3>2 DEF Stored, Volatile, Distros, CanCreate
  <2>4. /\ present \in [Stored -> Versions \cup {"absent", "partial"}] /\ Nested(present)
        /\ features \in [FeatureIds -> {"off", "pending", "on"}]
    BY DEF Core, PlacesType
  <2> HIDE DEF r
  <2>5. /\ present' \in [Stored -> Versions \cup {"absent", "partial"}] /\ present'[r] = "partial"
        /\ \A x \in Stored : x # r => present'[x] = present[x]
    BY <2>1, <2>3, <2>4
  <2>6. Nested(present')
    BY <2>3, <2>4, <2>5, Places DEF Nested, Stored
  <2>7. PlacesType' /\ Steady
    <3>1. Distros \subseteq Stored
      BY ResourceSets, IdsAre DEF Platform
    <3> QED
      BY <1>1, <2>3, <2>4, <2>5, <2>6, <3>1 DEF PlacesType, Steady
  <2> QED
    BY <1>1, <2>7, ThrowKeepsLoop DEF Core
<1> QED
  BY <1>2, <1>3

-----------------------------------------------------------------------------
\* A distribution is set only with the platform on: in the graph it comes after it, and
\* an installation that is rolled back has processed none without.
LEMMA DistroNeedsPlatform ==
    ASSUME Core, Looping(installer), ~installer.uninstall, Head(installer.rest) \in Distros
    PROVE  features[Platform] = "on"
<1>1. /\ installer.rest \in Seq(Ids) /\ installer.rest # <<>> /\ installer.phase = "apply"
      /\ installer.undoing \in BOOLEAN
  BY DEF Looping, InstallerType, Installers
<1>2. Head(installer.rest) \in ToSet(installer.rest)
  BY <1>1, TailOf
<1>3. CASE installer.undoing
  BY <1>1, <1>2, <1>3 DEF Core, LoopPart, PlatformOn
<1>4. CASE ~installer.undoing
  <2>1. Forward(installer)
    BY <1>1, <1>4 DEF Forward, Applies
  <2>2. Platform \notin ToSet(installer.rest)
    <3>1. Ahead(installer.rest, {Platform}, Distros)
      BY <2>1 DEF Core, LoopPart, Ordered
    <3> QED
      BY <1>1, <3>1, TailAhead
  <2>3. Platform \in Passed(installer)
    BY <2>1, <2>2 DEF Core, LoopPart, Ordered, Passed
  <2> QED
    BY <2>1, <2>3 DEF Core, LoopPart, PlatformOn
<1> QED
  BY <1>1, <1>3, <1>4

\* What is pushed on a sequence is all that is new in it.
LEMMA PushedSet ==
    ASSUME NEW S, NEW s \in Seq(S), NEW x \in S
    PROVE  ToSet(<<x>> \o s) \subseteq {x} \cup ToSet(s)
<1>1. SUFFICES ASSUME NEW k \in DOMAIN (<<x>> \o s)
               PROVE  (<<x>> \o s)[k] \in {x} \cup ToSet(s)
  BY DEF ToSet
<1>2. /\ Len(s) \in Nat /\ DOMAIN s = 1..Len(s) /\ Len(<<x>> \o s) = Len(s) + 1
      /\ k \in 1..(Len(s) + 1)
  OBVIOUS
<1>3. CASE k = 1
  BY <1>3
<1>4. CASE k # 1
  <2>1. k - 1 \in DOMAIN s /\ (<<x>> \o s)[k] = s[k - 1]
    BY <1>2, <1>4
  <2> QED
    BY <2>1 DEF ToSet
<1> QED
  BY <1>3, <1>4

\* What a Set has done: nothing else on the machine has changed, the resource is there, in
\* the new version if the installation updates it, and a pending platform waits.
HasSet(i, r) ==
    /\ \A x \in Stored : x # r => present'[x] = present[x]
    /\ r \in Stored => present'[r] # "absent" /\ (r \in Distros => present'[r] # "partial")
    /\ Forward(i) /\ Newer(i) /\ r \in UpdatedIds => present'[r] = i.version
    /\ features[Platform] = "on" => features'[Platform] = "on"
    /\ r = Platform /\ features'[Platform] # "on" => Platform \in i.reboot

\* The installer a Set goes on with: it may know the version before, or ask for a restart.
Alike(i) ==
    /\ Looping(i) /\ i.phase = installer.phase /\ i.version = installer.version
    /\ i.uninstall = installer.uninstall /\ i.undoing = installer.undoing
    /\ i.resources = installer.resources /\ i.rest = installer.rest
    /\ i.processed = installer.processed /\ i.result = installer.result
    /\ \/ i.installedVersion = installer.installedVersion
       \/ Forward(installer) => Passed(installer) \cap Stored = {}

\* The loop after a Set.
LEMMA SetKeepsLoop ==
    ASSUME Core, AtResource("set"), PlacesType', NEW i, Alike(i), HasSet(i, Current),
           installer' = Processed(i, Current)
    PROVE  Core'
<1> DEFINE r == Current
<1>1. /\ Looping(installer) /\ r \in Ids /\ r \in ToSet(installer.rest)
      /\ installer.phase = "apply" /\ installer.at = "set" /\ r = Head(installer.rest)
      /\ InstallerType(installer) /\ ~installer.uninstall
  BY CallsAreInTheLoop DEF Core, LoopPart, Calls
<1>2. /\ InstallerType(installer')
      /\ IF r \in i.reboot THEN Waits(i, installer') ELSE Passes(i, installer')
  BY <1>1, ProcessedMovesOn DEF Alike
<1>3. /\ Forward(i) = Forward(installer) /\ Removes(i) = Removes(installer)
      /\ Passed(i) = Passed(installer)
  BY DEF Alike, Forward, Removes, Applies, Passed
<1>4. Ordered(i)
  BY <1>3 DEF Core, LoopPart, Ordered, Alike
<1>5. /\ Ordered(installer)' /\ Passed(installer') \subseteq Passed(i) \cup {r}
      /\ r \in i.reboot => Passed(installer') = Passed(i)
      /\ Forward(installer') = Forward(i) /\ Removes(installer') = Removes(i)
  <2>1. Looping(i) /\ Head(i.rest) = r
    BY <1>1 DEF Alike
  <2>2. Waits(i, installer') => ~Passes(i, installer')
    BY DEF Waits, Passes
  <2> QED
    BY <1>2, <1>4, <2>1, <2>2, OrderIsKept
<1>6. /\ Same(i, installer') /\ installer'.at \in {"test", "consent"}
      /\ installer'.processed \in {installer.processed, <<r>> \o installer.processed}
      /\ ToSet(installer'.rest) \subseteq ToSet(installer.rest)
  <2>1. i.rest = installer.rest /\ i.processed = installer.processed
    BY DEF Alike
  <2>2. installer'.rest \in {installer.rest, Tail(installer.rest)}
    BY <1>2, <2>1 DEF Waits, Passes
  <2>3. ToSet(Tail(installer.rest)) \subseteq ToSet(installer.rest)
    BY <1>1, TailOf DEF Looping, InstallerType, Installers
  <2> QED
    BY <1>1, <1>2, <2>1, <2>2, <2>3 DEF Waits, Passes, Pushed
<1>7. Calls(installer)'
  BY <1>1, <1>6 DEF Alike, Calls, Same
<1>8. Installed(installer)'
  <2>1. SUFFICES ASSUME Forward(installer)
                 PROVE  /\ \A x \in Passed(installer') \cap Stored :
                               present'[x] = "absent" =>
                                   Newer(i) /\ Resource[x].onUpdateAction = "Skip"
                        /\ Newer(i) => \A x \in Passed(installer') \cap UpdatedIds :
                                           present'[x] = i.version
    BY <1>3, <1>5, <1>6 DEF Installed, Newer, Same
  <2>2. UpdatedIds \subseteq Stored
    BY ResourceSets, IdsAre DEF Platform
  <2>3. ASSUME NEW x \in Passed(installer) \cap Stored
        PROVE  /\ present'[x] = present[x] /\ Newer(i) = Newer(installer)
               /\ i.version = installer.version
    <3>1. x # r
      BY <1>1, <2>3 DEF Passed
    <3> QED
      BY <2>1, <2>3, <3>1 DEF HasSet, Alike, Newer
  <2>4. ASSUME NEW x \in Passed(installer') \cap Stored
        PROVE  /\ present'[x] = "absent" =>
                      Newer(i) /\ Resource[x].onUpdateAction = "Skip"
               /\ Newer(i) /\ x \in UpdatedIds => present'[x] = i.version
    <3>1. CASE x = r
      BY <1>3, <2>1, <2>4, <3>1 DEF HasSet
    <3>2. CASE x \in Passed(installer)
      BY <2>1, <2>3, <2>4, <3>2 DEF Core, LoopPart, Installed
    <3> QED
      BY <1>3, <1>5, <2>4, <3>1, <3>2
  <2> QED
    BY <2>2, <2>4
<1>9. r \in Distros => features[Platform] = "on"
  BY <1>1, DistroNeedsPlatform
<1>10. Distros \subseteq Stored
  BY ResourceSets, IdsAre DEF Platform
<1>11. PlatformOn(installer)'
  <2>1. SUFFICES ASSUME features'[Platform] # "on" PROVE PlatformOn(installer)'
    BY DEF PlatformOn
  <2>2. features[Platform] # "on" /\ r \notin Distros
    BY <1>9, <2>1 DEF HasSet
  <2>3. \A d \in Distros : present'[d] = "absent"
    BY <1>10, <2>2 DEF HasSet, Core, LoopPart, PlatformOn
  <2>4. Forward(installer') => Platform \notin Passed(installer')
    BY <1>3, <1>5, <2>1, <2>2 DEF HasSet, Core, LoopPart, PlatformOn
  <2>5. Distros \cap ToSet(installer'.processed) = {}
    <3>1. Distros \cap ToSet(installer.processed) = {} /\ installer.processed \in Seq(Ids)
      BY <1>1, <2>2 DEF Core, LoopPart, PlatformOn, InstallerType, Installers
    <3>2. ToSet(<<r>> \o installer.processed) \subseteq {r} \cup ToSet(installer.processed)
      BY <1>1, <3>1, PushedSet
    <3> HIDE DEF r
    <3> QED
      BY <1>6, <2>2, <3>1, <3>2
  <2>6. installer'.undoing => Distros \cap ToSet(installer'.rest) = {}
    BY <1>1, <1>6, <2>2 DEF Alike, Same, Core, LoopPart, PlatformOn
  <2> QED
    BY <2>3, <2>4, <2>5, <2>6 DEF PlatformOn
<1>12. Removed(installer)'
  <2>1. ~Removes(installer')
    BY <1>1, <1>3, <1>5 DEF Removes
  <2>2. \A d \in Distros : present'[d] # "partial"
    BY <1>10 DEF HasSet, Core, LoopPart, Removed
  <2> QED
    BY <2>1, <2>2 DEF Removed
<1> QED
  BY <1>2, <1>5, <1>7, <1>8, <1>11, <1>12 DEF Core, LoopPart

\* The content of a stored resource is something, the new version for what updates install.
LEMMA ContentIsThere ==
    ASSUME Core, AtResource("set"), CanSet(Current), Current \in Stored
    PROVE  /\ Content(Current) \in Versions \cup {"partial"}
           /\ Current \in Distros => Content(Current) \in Versions
           /\ Forward(installer) /\ Newer(installer) /\ Current \in UpdatedIds =>
                  Content(Current) = installer.version
           /\ Kind(Current) \in {"CopyFile", "CopyPackedFile"} =>
                  present[Resource[Current].inside] # "absent"
<1> DEFINE r == Current
<1>1. /\ Looping(installer) /\ r \in Ids /\ r \in ToSet(installer.rest)
      /\ installer.version \in Versions /\ r = Head(installer.rest)
      /\ installer.rest \in Seq(Ids) /\ installer.rest # <<>>
  BY CallsAreInTheLoop DEF Looping, InstallerType, Installers
<1>2. present \in [Stored -> Versions \cup {"absent", "partial"}]
  BY DEF Core, PlacesType
<1>3. CASE Kind(r) = "CopyFile"
  <2>1. CanCopy(r)
    BY <1>3, Zenon DEF CanSet
  <2>2. Content(r) = Source(r) /\ Source(r) # "absent"
    BY <1>3, <2>1 DEF Content, CanCopy
  <2>3. Source(r) \in Versions \cup {"absent", "partial"}
    <3>1. "UnpackFiles" \in Stored
      BY ResourceSets, IdsAre DEF Platform
    <3>2. Resource[r].source \in {"installer", "UnpackFiles"}
      BY <1>1, <1>3, Places
    <3> QED
      BY <1>1, <1>2, <3>1, <3>2 DEF Source
  <2>4. r \in UpdatedIds => Source(r) = installer.version
    <3>1. r \in UpdatedIds => r = "CopyInstaller" \/ r = "InstallWslDistro"
      BY <1>3, Places
    <3>2. Kind("InstallWslDistro") = "WslDistro"
      BY ResourceSets DEF Distros
    <3> QED
      BY <1>3, <3>1, <3>2, Places DEF Source
  <2>5. r \notin Distros
    BY <1>3 DEF Distros
  <2> QED
    BY <2>1, <2>2, <2>3, <2>4, <2>5 DEF CanCopy
<1>4. CASE Kind(r) = "WslDistro"
  <2>1. CanImport(r)
    BY <1>4, Zenon DEF CanSet
  <2>2. Content(r) = Source(r) /\ Source(r) \in Versions
    BY <1>4, <2>1 DEF Content, CanImport
  <2>3. ASSUME Forward(installer), Newer(installer), r \in UpdatedIds
        PROVE  Source(r) = installer.version
    <3>1. r = "InstallWslDistro"
      <4>1. Kind("CopyInstaller") = "CopyFile"
        BY Places
      <4> QED
        BY <1>4, <2>3, <4>1, Places
    <3>2. Source(r) = present["CopyDistro"]
      BY <3>1, Places DEF Source
    <3>3. "CopyDistro" \notin ToSet(installer.rest)
      <4>1. Ahead(installer.rest, {"CopyDistro"}, {"InstallWslDistro"})
        BY <2>3 DEF Core, LoopPart, Ordered
      <4> QED
        BY <1>1, <3>1, <4>1, TailAhead
    <3>4. "CopyDistro" \in Passed(installer) \cap UpdatedIds
      BY <2>3, <3>3, ResourceSets DEF Core, LoopPart, Ordered, Passed
    <3> QED
      BY <2>3, <3>2, <3>4 DEF Core, LoopPart, Installed
  <2> QED
    BY <1>4, <2>2, <2>3
<1>5. CASE Kind(r) \notin {"CopyFile", "WslDistro"}
  <2>1. Content(r) = installer.version
    BY <1>5 DEF Content
  <2>2. Kind(r) = "CopyPackedFile" => CanCreate(r)
    BY Zenon DEF CanSet
  <2> QED
    BY <1>1, <1>5, <2>1, <2>2 DEF CanCreate
<1> QED
  BY <1>3, <1>4, <1>5

\* Set of each kind.
LEMMA SetKeepsCore ==
    ASSUME Core, SetResource
    PROVE  Core'
<1> DEFINE r == Current
<1>1. AtResource("set") /\ CanSet(r)
  BY DEF SetResource
<1>2. /\ Looping(installer) /\ r \in Ids /\ r \in ToSet(installer.rest)
      /\ installer.version \in Versions /\ r = Head(installer.rest)
      /\ installer \in Installers /\ InstallerType(installer)
      /\ ~installer.uninstall
  BY <1>1, CallsAreInTheLoop DEF InstallerType, Core, LoopPart, Calls
<1>3. Alike(installer)
  BY <1>2 DEF Alike
<1>4. PlacesType /\ UpdatedIds \subseteq Stored /\ Distros \subseteq Stored /\ Platform \notin Stored
  BY ResourceSets, IdsAre DEF Core, Platform
<1>5. \A d \in Distros : present[d] # "partial"
  BY DEF Core, LoopPart, Removed
<1>6. ASSUME UNCHANGED <<present, features>>, r \notin Stored, r # Platform,
             NEW i, Alike(i), installer' = Processed(i, r)
      PROVE  Core'
  <2>1. PlacesType'
    BY <1>4, <1>6 DEF PlacesType, Nested
  <2>2. HasSet(i, r)
    BY <1>4, <1>6 DEF HasSet
  <2> QED
    BY <1>1, <1>6, <2>1, <2>2, SetKeepsLoop
<1>7. CASE Kind(r) = "EnableWindowsFeatures"
  <2>1. r \in FeatureIds /\ r \notin Stored
    BY <1>2, <1>7, Steering
  <2>2. Feature(r)
    BY <1>7, <2>1 DEF SetResource
  <2>3. PICK s \in {"pending", "on"} :
            /\ features' = [features EXCEPT ![r] = s]
            /\ installer' = Processed([installer EXCEPT !.reboot =
                   {x \in FeatureIds : IF x = r THEN RequiresReboot(r, s) ELSE x \in @}], r)
    BY <2>2 DEF Feature
  <2> DEFINE reboot == {x \in FeatureIds :
                            IF x = r THEN RequiresReboot(r, s) ELSE x \in installer.reboot}
             i == [installer EXCEPT !.reboot = reboot]
  <2>4. installer' = Processed(i, r) /\ reboot \subseteq FeatureIds
    BY <2>3
  <2>5. r = Platform /\ s = "pending" => Platform \in reboot
    BY <2>1, Steering DEF RequiresReboot
  <2> HIDE DEF reboot
  <2>6. Alike(i) /\ i.reboot = reboot
    BY <1>2, <2>4 DEF Alike, Looping, InstallerType, Installers
  <2>7. features[r] # "on"
    BY <1>1, <1>2, <2>1 DEF AtResource, Core, LoopPart, Calls
  <2>8. present' = present
    BY <2>2 DEF Feature
  <2>9. PlacesType'
    BY <1>4, <2>1, <2>3, <2>8 DEF PlacesType, Nested
  <2>10. /\ features'[r] = s
         /\ \A x \in FeatureIds : x # r => features'[x] = features[x]
    BY <1>4, <2>1, <2>3 DEF PlacesType
  <2>11. HasSet(i, r)
    <3>1. Platform \in FeatureIds
      BY ResourceSets
    <3> HIDE DEF i, r
    <3> QED
      BY <1>4, <2>1, <2>5, <2>6, <2>7, <2>8, <2>10, <3>1 DEF HasSet
  <2> QED
    BY <1>1, <2>4, <2>6, <2>9, <2>11, SetKeepsLoop
<1>8. CASE Kind(r) = "GetInstalledVersion"
  <2>1. ReadVersion
    BY <1>8, Steering DEF SetResource
  <2>2. r = "GetInstalledVersion"
    BY <1>2, <1>8, IdsAre, Attributes DEF Kind, Has
  <2> DEFINE v == IF present["RegisterProduct"] = "absent" THEN installer.installedVersion
                  ELSE present["RegisterProduct"]
             i == [installer EXCEPT !.installedVersion = v]
  <2>3. installer' = Processed(i, r) /\ UNCHANGED <<present, features>>
    BY <2>1, <2>2 DEF ReadVersion, machine
  <2>4. v \in Versions \cup {"none", "partial"}
    <3>1. "RegisterProduct" \in Stored
      BY <1>4, ResourceSets
    <3> QED
      BY <1>2, <1>4, <3>1 DEF PlacesType, Installers
  <2>5. Forward(installer) => Passed(installer) \cap Stored = {}
    BY <1>2, <2>2 DEF Core, LoopPart, Ordered
  <2> HIDE DEF v
  <2>6. Alike(i)
    <3>1. /\ i \in Installers /\ i.phase = installer.phase /\ i.version = installer.version
          /\ i.uninstall = installer.uninstall /\ i.undoing = installer.undoing
          /\ i.resources = installer.resources /\ i.rest = installer.rest
          /\ i.processed = installer.processed /\ i.result = installer.result
      BY <1>2, <2>4 DEF Installers
    <3> QED
      BY <1>2, <2>5, <3>1 DEF Alike, Looping, InstallerType
  <2>7. r \notin Stored /\ r # Platform
    BY <1>8, Steering, ResourceSets
  <2> QED
    BY <1>6, <2>3, <2>6, <2>7
<1>9. CASE Kind(r) \in {"ShutdownProcess", "RunExecutable"}
  <2>1. UNCHANGED <<present, features>> /\ installer' = Processed(installer, r)
    <3>1. CASE Kind(r) = "ShutdownProcess"
      BY <3>1 DEF SetResource, ShutDown, Stored, Volatile
    <3>2. CASE Kind(r) = "RunExecutable"
      BY <3>2 DEF SetResource, Run, Stored, Volatile
    <3> QED
      BY <1>9, <3>1, <3>2
  <2>2. r \notin Stored /\ r # Platform
    BY <1>9, Steering, ResourceSets
  <2> QED
    BY <1>3, <1>6, <2>1, <2>2
<1>10. CASE r \in Stored
  <2>1. /\ present' = [present EXCEPT ![r] = Content(r)] /\ features' = features
        /\ installer' = Processed(installer, r)
    BY <1>10, Steering DEF SetResource
  <2>2. /\ Content(r) \in Versions \cup {"partial"}
        /\ r \in Distros => Content(r) \in Versions
        /\ Forward(installer) /\ Newer(installer) /\ r \in UpdatedIds =>
               Content(r) = installer.version
        /\ Kind(r) \in {"CopyFile", "CopyPackedFile"} => present[Resource[r].inside] # "absent"
    BY <1>1, <1>10, ContentIsThere
  <2>3. /\ present \in [Stored -> Versions \cup {"absent", "partial"}] /\ Nested(present)
        /\ features \in [FeatureIds -> {"off", "pending", "on"}]
    BY <1>4 DEF PlacesType
  <2>4. "absent" \notin Versions /\ "partial" \notin Versions
    BY InstallerAssumption
  <2>5. /\ present' \in [Stored -> Versions \cup {"absent", "partial"}]
        /\ present'[r] = Content(r)
        /\ \A x \in Stored : x # r => present'[x] = present[x]
    <3> HIDE DEF r
    <3> QED
      BY <1>10, <2>1, <2>2, <2>3
  <2>6. Nested(present')
    <3> HIDE DEF r
    <3> QED
      BY <1>10, <2>2, <2>3, <2>4, <2>5, Places DEF Nested, Stored
  <2>7. PlacesType'
    BY <2>1, <2>3, <2>5, <2>6 DEF PlacesType
  <2>8. HasSet(installer, r)
    <3> HIDE DEF r
    <3> QED
      BY <1>4, <1>10, <2>1, <2>2, <2>4, <2>5 DEF HasSet
  <2> QED
    BY <1>1, <1>3, <2>1, <2>7, <2>8, SetKeepsLoop
<1>11. CASE /\ r \notin Stored
            /\ Kind(r) \notin {"EnableWindowsFeatures", "GetInstalledVersion", "ShutdownProcess",
                               "RunExecutable"}
  <2>1. UNCHANGED <<present, features>> /\ installer' = Processed(installer, r)
    BY <1>11 DEF SetResource, machine
  <2>2. r # Platform
    BY <1>11, Steering, ResourceSets
  <2> QED
    BY <1>3, <1>6, <1>11, <2>1, <2>2
<1> QED
  BY <1>7, <1>8, <1>9, <1>10, <1>11

\* The end of an Apply.
LEMMA EndKeepsCore ==
    ASSUME Core, EndLoop \/ AskConsent
    PROVE  Core'
<1>1. installer.phase = "apply" /\ UNCHANGED <<present, features>> /\ installer \in Installers
  BY DEF EndLoop, AskConsent, AtResource, machine, Core, InstallerType
<1>2. PlacesType' /\ Steady
  BY <1>1 DEF Core, PlacesType, Nested, Steady
<1>3. CASE AskConsent
  <2> DEFINE i == [installer EXCEPT !.restartPending = TRUE]
  <2>1. PICK result \in {"RolledBack", "PendingRestart"} : Done(i, result)
    BY <1>3 DEF AskConsent
  <2>2. /\ InstallerType(i) /\ i.phase = "apply" /\ i.uninstall = installer.uninstall
        /\ i.undoing = installer.undoing
    BY <1>1 DEF Core, InstallerType, Installers
  <2> HIDE DEF i
  <2>3. /\ InstallerType(installer') /\ installer'.phase = "done" /\ installer'.result # "Succeeded"
        /\ installer'.uninstall = installer.uninstall /\ installer'.undoing = installer.undoing
    BY <2>1, <2>2, DoneEnds
  <2> QED
    BY <1>2, <2>3, IdleKeepsLoop DEF Applies, Core, LoopPart, Calls
<1>4. CASE EndLoop /\ installer.undoing
  <2>1. Done(installer, "RolledBack")
    BY <1>4 DEF EndLoop
  <2>2. /\ InstallerType(installer') /\ installer'.phase = "done" /\ installer'.result = "RolledBack"
        /\ installer'.uninstall = installer.uninstall /\ installer'.undoing = installer.undoing
    BY <1>1, <2>1, DoneEnds DEF Core
  <2> QED
    BY <1>2, <2>2, IdleKeepsLoop DEF Applies, Core, LoopPart, Calls
<1>5. CASE EndLoop /\ ~installer.undoing
  <2>1. Done(installer, "Succeeded") /\ installer.rest = <<>>
    BY <1>5 DEF EndLoop
  <2>2. /\ InstallerType(installer')
        /\ installer'.phase = "done" /\ installer'.result = "Succeeded"
        /\ installer'.uninstall = installer.uninstall /\ installer'.undoing = installer.undoing
        /\ installer'.rest = installer.rest /\ installer'.resources = installer.resources
        /\ installer'.version = installer.version
        /\ installer'.installedVersion = installer.installedVersion
    BY <1>1, <2>1, DoneEnds DEF Core
  <2>3. /\ Forward(installer') = Forward(installer) /\ Removes(installer') = Removes(installer)
        /\ Passed(installer') = Passed(installer) /\ Newer(installer') = Newer(installer)
    BY <1>1, <2>2 DEF Forward, Removes, Applies, Passed, Newer
  <2>4. Calls(installer)'
    BY <1>5, <2>1, <2>2 DEF Calls
  <2>5. Ordered(installer)'
    BY <2>2, <2>3 DEF Core, LoopPart, Ordered
  <2>6. Installed(installer)' /\ PlatformOn(installer)' /\ Removed(installer)'
    BY <1>1, <2>2, <2>3 DEF Core, LoopPart, Installed, PlatformOn, Removed
  <2> QED
    BY <1>2, <2>2, <2>4, <2>5, <2>6 DEF Core, LoopPart
<1> QED
  BY <1>3, <1>4, <1>5

-----------------------------------------------------------------------------
(* The invariant, and what it gives                                        *)

\* Nothing is installed at first.
LEMMA LoopInvInitially == Init => LoopInv
<1> SUFFICES ASSUME Init PROVE LoopInv
  OBVIOUS
<1>1. present = [r \in Stored |-> "absent"] /\ features = [r \in FeatureIds |-> "off"]
      /\ installer = NoInstaller
  BY DEF Init
<1>2. PlacesType
  <2>1. \A r \in Stored : present[r] = "absent"
    BY <1>1
  <2> QED
    BY <1>1, <2>1 DEF PlacesType, Nested
<1>3. OthersType
  <2>1. runs \in 0..MaxRuns /\ faultsLeft \in 0..MaxFaults
    BY InstallerAssumption DEF Init
  <2>2. running = {} /\ data = FALSE /\ optionals = Optional /\ disabled = {} /\ restart = "no"
    BY DEF Init
  <2> QED
    BY <2>1, <2>2 DEF OthersType
<1>4. InstallerType(installer) /\ installer.phase = "none" /\ ~installer.undoing
  BY <1>1, WindowsAreTyped
<1>5. Distros \subseteq Stored
  BY ResourceSets, IdsAre DEF Platform
<1>6. LoopPart(installer)
  BY <1>1, <1>4, <1>5
  DEF LoopPart, Calls, Ordered, Installed, PlatformOn, Removed, Applies, Forward, Removes
<1> QED
  BY <1>2, <1>3, <1>4, <1>6 DEF LoopInv, Core

\* Every step keeps the invariant.
LEMMA LoopInvIsInductive == LoopInv /\ [Next]_vars => LoopInv'
<1> SUFFICES ASSUME LoopInv, [Next]_vars PROVE LoopInv'
  OBVIOUS
<1>1. Core /\ OthersType /\ InstallerType(installer)
  BY DEF LoopInv, Core
<1>2. CASE UNCHANGED vars
  <2>1. UNCHANGED <<present, features, running, data, optionals, disabled, restart, installer,
                    runs, faultsLeft>>
    BY <1>2 DEF vars, machine, saved
  <2> QED
    BY <1>1, <2>1 DEF LoopInv, Core, OthersType, PlacesType, Nested, LoopPart, Calls, Installed,
                      PlatformOn, Removed
<1>3. CASE Next
  <2>1. OthersType'
    BY <1>1, <1>3, OthersAreTyped
  <2>2. CASE \/ \E v \in Versions, unattended \in BOOLEAN : RunInstaller(v, unattended)
             \/ RunUninstaller
             \/ \E c \in Selections : ChooseOptions(c)
             \/ CloseWindow \/ KillInstaller \/ RestartWindows
             \/ StartApp \/ AppEnds \/ UseApp
    BY <1>1, <2>1, <2>2, OutsideKeepsCore DEF LoopInv
  <2>3. CASE Apply
    BY <1>1, <2>1, <2>3, ApplyKeepsCore DEF LoopInv
  <2>4. CASE ExamineResource
    BY <1>1, <2>1, <2>4, ExamineKeepsCore DEF LoopInv
  <2>5. CASE ExamineFails \/ UnsetFails
    BY <1>1, <2>1, <2>5, UnsetFailsKeepsCore DEF LoopInv
  <2>6. CASE UnsetResource
    BY <1>1, <2>1, <2>6, UnsetKeepsCore DEF LoopInv
  <2>7. CASE SetResource
    BY <1>1, <2>1, <2>7, SetKeepsCore DEF LoopInv
  <2>8. CASE SetFails
    BY <1>1, <2>1, <2>8, SetFailsKeepsCore DEF LoopInv
  <2>9. CASE EndLoop \/ AskConsent
    BY <1>1, <2>1, <2>9, EndKeepsCore DEF LoopInv
  <2> QED
    BY <1>3, <2>2, <2>3, <2>4, <2>5, <2>6, <2>7, <2>8, <2>9 DEF Next, InstallerStep
<1> QED
  BY <1>2, <1>3

\* An Apply that has succeeded has passed all of its graph.
LEMMA SucceededHasPassedAll ==
    ASSUME LoopInv, Finished("Succeeded")
    PROVE  /\ Passed(installer) = ToSet(installer.resources) /\ installer.uninstall \in BOOLEAN
           /\ ~installer.uninstall => Forward(installer)
           /\ installer.uninstall => Removes(installer)
<1>1. installer.phase = "done" /\ installer.result = "Succeeded"
  BY DEF Finished
<1>2. installer.rest = <<>> /\ ~installer.undoing /\ installer \in Installers
  BY <1>1 DEF LoopInv, Core, InstallerType, LoopPart, Calls
<1>3. ToSet(<<>>) = {}
  BY DEF ToSet
<1> QED
  BY <1>1, <1>2, <1>3 DEF Passed, Forward, Removes, Applies, Installers

\* The properties follow from the invariant.
LEMMA LoopInvGives ==
    LoopInv => /\ TypeOK /\ SucceededMeansInstalled /\ UpdatedIsCurrent /\ PlatformFirst
               /\ UninstallRemoves
<1> SUFFICES ASSUME LoopInv
             PROVE  /\ TypeOK /\ SucceededMeansInstalled /\ UpdatedIsCurrent /\ PlatformFirst
                    /\ UninstallRemoves
  OBVIOUS
<1>1. /\ Installed(installer) /\ Ordered(installer) /\ PlatformOn(installer) /\ Removed(installer)
      /\ PlacesType /\ OthersType /\ InstallerType(installer)
  BY DEF LoopInv, Core, LoopPart
<1>2. TypeOK
  <2>1. /\ installer.phase \in {"none", "window", "apply", "done"}
        /\ installer.at \in {"test", "unset", "set", "consent"}
        /\ installer.result \in {"none", "Succeeded", "PendingRestart", "RolledBack", "Failed"}
        /\ installer.resources \in Seq(Ids)
    BY <1>1 DEF InstallerType, Installers
  <2>2. ToSet(installer.resources) \subseteq Ids
    BY <2>1 DEF ToSet
  <2> QED
    BY <1>1, <2>1, <2>2 DEF TypeOK, PlacesType, Nested, OthersType, InstallerType
<1>3. SucceededMeansInstalled
  BY <1>1, SucceededHasPassedAll DEF SucceededMeansInstalled, Installed, Newer, Updating
<1>4. UpdatedIsCurrent
  <2>1. SUFFICES ASSUME Finished("Succeeded"), ~installer.uninstall, Updating,
                        NEW r \in UpdatedIds
                 PROVE  present[r] = installer.version
    BY DEF UpdatedIsCurrent, UpdatedIds
  <2>2. Forward(installer) /\ r \in Passed(installer)
    BY <1>1, <2>1, SucceededHasPassedAll DEF Ordered
  <2> QED
    BY <1>1, <2>1, <2>2 DEF Installed, Newer, Updating
<1>5. PlatformFirst
  BY <1>1 DEF PlatformFirst, PlatformOn, Platform
<1>6. UninstallRemoves
  <2>1. SUFFICES ASSUME Finished("Succeeded"), installer.uninstall,
                        NEW r \in ToSet(installer.resources) \cap (Stored \ {"RegisterProduct"})
                 PROVE  present[r] = "absent"
    BY DEF UninstallRemoves
  <2>2. /\ Removes(installer) /\ r \in Passed(installer) \cap Stored
        /\ "UnpackFiles" \in Passed(installer)
    BY <1>1, <2>1, SucceededHasPassedAll DEF Ordered
  <2>3. CASE r = "CopyInstaller"
    <3>1. "UnpackFiles" \in Stored
      BY ResourceSets, IdsAre DEF Platform
    <3>2. present["UnpackFiles"] = "absent"
      BY <1>1, <2>2, <3>1 DEF Removed
    <3> QED
      BY <1>1, <2>2, <2>3, <3>2, Places DEF PlacesType, Nested
  <2>4. CASE r # "CopyInstaller"
    BY <1>1, <2>1, <2>2, <2>4 DEF Removed
  <2> QED
    BY <2>3, <2>4
<1> QED
  BY <1>2, <1>3, <1>4, <1>5, <1>6

\* ConfigurationManifest.Apply and what runs around it, with any versions, selections,
\* runs and failures: the state has its type, and what lies in a directory goes with it.
THEOREM InstallerIsTyped == Spec => []TypeOK
  BY LoopInvInitially, LoopInvIsInductive, LoopInvGives, PTL DEF Spec

\* An installation that says it succeeded has put everything of its graph in its place.
THEOREM SuccessAlwaysInstalls == Spec => []SucceededMeansInstalled
  BY LoopInvInitially, LoopInvIsInductive, LoopInvGives, PTL DEF Spec

\* An update that succeeds leaves nothing old of what updates install.
THEOREM UpdateAlwaysRenews == Spec => []UpdatedIsCurrent
  BY LoopInvInitially, LoopInvIsInductive, LoopInvGives, PTL DEF Spec

\* No distribution is ever imported before the virtual machine platform is on.
THEOREM PlatformAlwaysFirst == Spec => []PlatformFirst
  BY LoopInvInitially, LoopInvIsInductive, LoopInvGives, PTL DEF Spec

\* An uninstallation that succeeds leaves nothing that it would ever remove.
THEOREM UninstallAlwaysRemoves == Spec => []UninstallRemoves
  BY LoopInvInitially, LoopInvIsInductive, LoopInvGives, PTL DEF Spec
=============================================================================
