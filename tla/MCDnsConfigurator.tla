------------------------- MODULE MCDnsConfigurator --------------------------
(* An instance of DnsConfigurator and of the ConfigurationService under it. *)
EXTENDS DnsConfigurator

CONSTANT job

TwoModes == {"Auto", "Wsl"}
OneJob   == {job}
WslOnly  == {"Wsl"}
TwoOthers == {"before", "after"}
NewSettings == [mode |-> "Wsl", other |-> "before"]
=============================================================================
