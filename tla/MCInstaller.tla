---------------------------- MODULE MCInstaller ----------------------------
(* A small instance of Installer: two versions, all or none of the optional *)
(* resources.                                                               *)
EXTENDS Installer

MCSelections == {{}, Optional}
MCFaults == {"crash", "set", "unset", "partial"}
=============================================================================
