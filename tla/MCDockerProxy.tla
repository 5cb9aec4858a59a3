--------------------------- MODULE MCDockerProxy ----------------------------
(* An instance of DockerProxy: the pipe of Windows and one distribution.   *)
EXTENDS DockerProxy

BothClients == {"windows", "Ubuntu"}

\* A directory of a drive, the daemon's socket, a directory of a distribution and all of
\* it, and the volume both may name.
BothPaths ==
    [windows |-> {<<":", "c", "src">>, <<"/", "run", "docker.sock">>, <<"data">>},
     Ubuntu  |-> {<<"/", "home", "src">>, <<"/">>, <<"data">>}]
=============================================================================
