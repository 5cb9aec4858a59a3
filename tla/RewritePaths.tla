---------------------------- MODULE RewritePaths ----------------------------
(* What internal/rewrite does to the bodies that pass the Docker proxy: a  *)
(* table of URL patterns says where a body holds the sources of bind       *)
(* mounts, and mapPath translates each between the name a client uses and  *)
(* the name of the same file in the distribution of the daemon.            *)
(* A path is the sequence of its segments: <<"/", "src">> is absolute,     *)
(* <<":", "c", "src">> begins with a drive, anything else is relative.     *)
EXTENDS Sequences, Naturals

-----------------------------------------------------------------------------
(* Which rewriter a URL gets.  A URL is the sequence of its segments.  The *)
(* last word of a pattern also matches the beginning of a longer segment;  *)
(* no name here is one.                                                    *)

\* Somewhere in the URL is a segment, and behind it a word.
Behind(url, segment, word) ==
    \E i \in DOMAIN url, j \in DOMAIN url :
        i < j /\ url[i] = segment /\ url[j] = word

Within(url, segment, word) ==
    \E i \in 1 .. Len(url) - 1 : url[i] = segment /\ url[i + 1] = word

Below(url, segment) == \E i \in 1 .. Len(url) - 1 : url[i] = segment

\* That of the update of a service asks for an empty segment behind "services".
Update(url) ==
    \E i \in 1 .. Len(url) - 3, j \in DOMAIN url :
        url[i] = "services" /\ url[i + 1] = "" /\ j >= i + 3 /\ url[j] = "update"

\* Mutant: the first pattern lacks its last word.
rewriteMappingsWide(url) ==
    << <<Below(url, "containers"), "container">>,
       <<Below(url, "services"), "service">> >>

\* Whether each pattern matches, and its rewriter.  The patterns are not anchored, and
\* the method is not looked at.
rewriteMappings(url) ==
    << <<Behind(url, "containers", "json"), "container">>,
       <<Within(url, "containers", "create"), "container">>,
       <<Within(url, "services", "create"), "serviceSpec">>,
       <<Update(url), "serviceSpec">>,
       <<Below(url, "services"), "service">>,
       <<\E i \in DOMAIN url : url[i] = "tasks", "task">> >>

\* The first pattern that matches.
getRewriter(url) ==
    LET m == rewriteMappings(url)
        hits == {i \in DOMAIN m : m[i][1]}
    IN  IF hits = {} THEN "none" ELSE m[CHOOSE i \in hits : \A j \in hits : i <= j][2]

\* Where in a body each rewriter looks for bind mounts.
Rewrites(rewriter) ==
    CASE rewriter = "container"   -> {"HostConfig", "Mounts"}
      [] rewriter = "serviceSpec" -> {"TaskTemplate"}
      [] rewriter = "service"     -> {"Spec.TaskTemplate"}
      [] rewriter = "task"        -> {"Spec"}
      [] rewriter = "none"        -> {}

-----------------------------------------------------------------------------
(* mapPath                                                                 *)

From(p, n) == SubSeq(p, n, Len(p))
StartsWith(p, prefix) == Len(p) > Len(prefix) /\ SubSeq(p, 1, Len(prefix)) = prefix

HostRoot == <<"/", "mnt", "host">>
WslRoot  == <<"/", "mnt", "wsl">>

\* --wsl-distro-name is given to the proxies inside WSL, which are built for Linux.
BasePath(client) == IF client = "windows" THEN HostRoot ELSE Append(WslRoot, client)

\* A path with a drive begins with ":", an absolute one with "/"; one may be empty.
BeginsWith(p, mark) == p # <<>> /\ p[1] = mark

\* Mutant: the file of a distribution keeps its leading slash.
mapPathAbsolute(p, client) ==
    CASE StartsWith(p, HostRoot) -> <<":">> \o From(p, 4)
      [] StartsWith(p, WslRoot)  -> <<"/">> \o From(p, 5)
      [] OTHER -> IF BeginsWith(p, IF client = "windows" THEN ":" ELSE "/")
                  THEN BasePath(client) \o Tail(p)
                  ELSE p

\* A path under /mnt/host becomes one of a drive, one under /mnt/wsl/<distribution> loses
\* its leading slash, and is empty for the root of the distribution; the direction of the
\* translation is not known here.
mapPath(p, client) ==
    CASE StartsWith(p, HostRoot) -> <<":">> \o From(p, 4)
      [] StartsWith(p, WslRoot)  -> From(p, 5)
      [] OTHER -> IF BeginsWith(p, IF client = "windows" THEN ":" ELSE "/")
                  THEN BasePath(client) \o Tail(p)
                  ELSE p

\* A body with a bind mount of p at a location.
RewriteBody(p, at, url, client) ==
    IF at \in Rewrites(getRewriter(url)) THEN mapPath(p, client) ELSE p

-----------------------------------------------------------------------------
(* The file a path names: the machine it is on, and where.                 *)

\* A relative path is the name of a volume, and the path of a drive is refused.
NoFile == <<"none">>

DaemonFile(p) ==
    CASE StartsWith(p, HostRoot) -> <<"windows">> \o From(p, 4)
      [] StartsWith(p, WslRoot)  -> From(p, 4)
      [] OTHER -> IF BeginsWith(p, "/") THEN <<"engine">> \o Tail(p) ELSE NoFile

\* An absolute path of a Windows client is one of the daemon's own, as that of its socket.
ClientFile(p, client) ==
    CASE p[1] = ":" -> <<"windows">> \o Tail(p)
      [] p[1] = "/" -> IF client = "windows" THEN DaemonFile(p) ELSE <<client>> \o Tail(p)
      [] OTHER -> NoFile
=============================================================================
