------------------------- MODULE InstallerManifest -------------------------
(* The resources of the installer's manifest, in their order, with the      *)
(* attributes that steer Apply.  "kind" is the class of the resource;       *)
(* "source" what it copies, imports or shuts down; "inside" the directory   *)
(* that is deleted with everything in it.  Descriptions are left out.       *)
Base ==
    [kind |-> "none", dependsOn |-> <<>>, optional |-> FALSE, noUninstall |-> FALSE,
     runAllwaysFirst |-> FALSE, runAllways |-> FALSE, onUpdateAction |-> "None",
     ignoreRebootRequired |-> FALSE, source |-> "none", inside |-> "none"]

First(kind)           == [Base EXCEPT !.kind = kind, !.runAllwaysFirst = TRUE]
Shutdown(exe)         == [First("ShutdownProcess") EXCEPT !.runAllways = TRUE, !.source = exe]
PackedFile            == [Base EXCEPT !.kind = "CopyPackedFile", !.onUpdateAction = "Install",
                                      !.inside = "UnpackFiles"]
CliPlugin             == [Base EXCEPT !.kind = "CopyFile", !.noUninstall = TRUE,
                                      !.source = "UnpackFiles",
                                      !.inside = "CreateProgramDataDockerCliPluginsFolder"]
Features(ignore)      == [Base EXCEPT !.kind = "EnableWindowsFeatures", !.noUninstall = TRUE,
                                      !.ignoreRebootRequired = ignore]
Distro(rootfs, onUpd) == [Base EXCEPT !.kind = "WslDistro", !.source = rootfs,
                                      !.dependsOn = <<"InstallLatestWslKernel">>,
                                      !.onUpdateAction = onUpd,
                                      !.inside = "CreateAppDataDirectory"]

\* ProductInformation assigns ProxyPath twice: the path of the proxy is that of the
\* forwarder, and the path of the forwarder is null.
Resource ==
    [CheckWindowsVersion          |-> First("WindowsVersionCheck"),
     GetInstalledVersion          |-> First("GetInstalledVersion"),
     ShutdownContainerDesktop     |-> Shutdown("app"),
     ShutdownProxy                |-> Shutdown("forwarder"),
     ShutdownForwarders           |-> Shutdown("none"),
     UnpackFiles                  |-> [Base EXCEPT !.kind = "Unpack", !.onUpdateAction = "Install"],
     CopyDistro                   |-> PackedFile,
     CopyDataDistro               |-> PackedFile,
     CopWslKernel                 |-> PackedFile,
     CopyInstaller                |-> [Base EXCEPT !.kind = "CopyFile", !.source = "installer",
                                                   !.onUpdateAction = "Install",
                                                   !.inside = "UnpackFiles"],
     CreateProgramDataDockerCliPluginsFolder
                                  |-> [Base EXCEPT !.kind = "CreateDirectory", !.noUninstall = TRUE],
     CopyCliPluginDockerBuildx    |-> CliPlugin,
     CopyCliPluginDockerDockerCompose |-> CliPlugin,
     CreateAppDataDirectory       |-> [Base EXCEPT !.kind = "CreateDirectory"],
     EnableWsl                    |-> Features(TRUE),
     EnableVirtualMachinePlatform |-> Features(FALSE),
     InstallLatestWslKernel       |-> [Base EXCEPT !.kind = "InstallMsi", !.noUninstall = TRUE,
                                                   !.dependsOn = <<"EnableWsl">>],
     InstallWslDistro             |-> Distro("CopyDistro", "Install"),
     InstallWslDataDistro         |-> Distro("CopyDataDistro", "Skip"),
     AddCliToPath                 |-> [Base EXCEPT !.kind = "AddToPath"],
     AddShortcutToStartMenu       |-> [Base EXCEPT !.kind = "AddShortcut", !.optional = TRUE],
     CreateEventLogSource         |-> [Base EXCEPT !.kind = "CreateEventLogSource"],
     RegisterProduct              |-> [Base EXCEPT !.kind = "RegisterProduct",
                                                   !.onUpdateAction = "Install"],
     PreconfigureSettings         |-> [Base EXCEPT !.kind = "CallServiceMethod"],
     AddToAutoStart               |-> [Base EXCEPT !.kind = "AddToAutoStart", !.optional = TRUE],
     RunContainerDesktopAfterInstall
                                  |-> [Base EXCEPT !.kind = "RunExecutable", !.noUninstall = TRUE,
                                                   !.optional = TRUE]]

Ids == DOMAIN Resource

\* The order of the file.
Manifest ==
    <<"CheckWindowsVersion", "GetInstalledVersion", "ShutdownContainerDesktop", "ShutdownProxy",
      "ShutdownForwarders", "UnpackFiles", "CopyDistro", "CopyDataDistro", "CopWslKernel",
      "CopyInstaller", "CreateProgramDataDockerCliPluginsFolder", "CopyCliPluginDockerBuildx",
      "CopyCliPluginDockerDockerCompose", "CreateAppDataDirectory", "EnableWsl",
      "EnableVirtualMachinePlatform", "InstallLatestWslKernel", "InstallWslDistro",
      "InstallWslDataDistro", "AddCliToPath", "AddShortcutToStartMenu", "CreateEventLogSource",
      "RegisterProduct", "PreconfigureSettings", "AddToAutoStart",
      "RunContainerDesktopAfterInstall">>
=============================================================================
