------------------------- MODULE MCContainerEngine -------------------------
(* Model values and failure sets for the runs of ContainerEngine.          *)
EXTENDS ContainerEngine

CONSTANTS t1, t2, d1

OneThread  == {t1}
TwoThreads == {t1, t2}
OneDistro  == {d1}

\* Failures of the steps of Start and Stop.
StepFaults == {"dns", "tailListed", "shim", "daemon", "proxy", "wsl", "import"}

\* Every failure, those of running processes included.
AllFaults == StepFaults \cup {"exec", "proxyExits"}
=============================================================================
