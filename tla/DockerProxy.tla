----------------------------- MODULE DockerProxy ----------------------------
(* The proxy between the Docker clients and the daemon: ServeHTTP serves   *)
(* one exchange at a time here, on the pipe of Windows or in a             *)
(* distribution.  The Director rewrites the request, ModifyResponse the    *)
(* response; a response is copied to the client, flushed at once when it   *)
(* is a stream; a 101 response makes a connection of the exchange, with a  *)
(* copier per direction and a goroutine that closes the daemon's end.      *)
EXTENDS RewritePaths

CONSTANTS
    Clients,    \* "windows" and the distributions that have a proxy
    Paths,      \* the bind sources each client names
    MaxRequests,\* bound: exchanges in a behaviour
    MaxData,    \* bound: what each side of an exchange sends
    None        \* nothing

ASSUME DockerAssumption ==
    /\ \A c \in Clients : \A p \in Paths[c] : p \in Seq(STRING) /\ p # <<>>
    /\ MaxRequests \in Nat /\ MaxData \in Nat

Dirs == {"up", "down"}
Source(d) == IF d = "up" THEN "client" ELSE "daemon"
Target(d) == IF d = "up" THEN "daemon" ELSE "client"

\* What the clients ask of the daemon.
Url ==
    [create |-> <<"containers", "create">>,       inspect |-> <<"containers", "web", "json">>,
     list |-> <<"containers", "json">>,           serviceCreate |-> <<"services", "create">>,
     service |-> <<"services", "web">>,           services |-> <<"services">>,
     serviceUpdate |-> <<"services", "web", "update">>, tasks |-> <<"tasks">>,
     logs |-> <<"containers", "web", "logs">>,    attach |-> <<"containers", "web", "attach">>,
     serviceLogs |-> <<"services", "web", "logs">>]

Ops == DOMAIN Url
Streams == {"logs", "serviceLogs"}
Upgrades == {"attach"}

\* Where the bodies of a request and of a response have their bind mounts, and of what.
Asks == [create |-> "HostConfig", serviceCreate |-> "TaskTemplate", serviceUpdate |-> "TaskTemplate"]
Shows == [inspect |-> "HostConfig", list |-> "Mounts", service |-> "Spec.TaskTemplate",
          services |-> "Spec.TaskTemplate", tasks |-> "Spec"]
Kind(o) == IF o \in {"create", "inspect", "list"} THEN "container" ELSE "service"

VARIABLES
    requests,     \* number of exchanges so far
    op, client,   \* what is asked, and by whom
    asked,        \* the bind source in the request: its path, and the file its client means
    bind,         \* that of each kind of object at the daemon, and the operation that set it
    shown,        \* the path last shown to a client, whose, and what it stands for
    handler,      \* location of ServeHTTP
    ctx,          \* the context of the request is cancelled
    notify,       \* the goroutine that waits for CloseNotify: "wait", "done"
    headers,      \* the response's: "none", "written", "flushed"
    timer,        \* of maxLatencyWriter: "none", "armed", "running", "done"
    flushPending, \* of maxLatencyWriter
    lateFlush,    \* Flush was called on the writer of a handler that has returned
    sent, rcvd,   \* how much each direction has carried
    finished,     \* the sides that have shut down their side
    gone,         \* the sides that have lost or closed the connection
    told,         \* the directions whose target has been told that no more will come
    conn, backConn, \* the connections to client and daemon: "none", "open", "closed"
    copier,       \* location of the two copiers
    failed,       \* the copiers that met an error
    errc,         \* the channel of the copiers' results: "nil", "error"
    closer,       \* the goroutine that closes backConn: "none", "wait", "done"
    closeCh       \* backConnCloseCh is closed

request == <<requests, op, client, asked>>
daemon == <<bind, shown>>
body == <<headers, timer, flushPending, lateFlush>>
ends == <<sent, finished, gone>>
flow == <<rcvd, told>>
copiers == <<copier, failed, errc>>
sockets == <<conn, backConn, closer, closeCh>>
vars == <<request, daemon, handler, ctx, notify, body, ends, flow, copiers, sockets>>

NoExchange ==
    /\ ctx = FALSE /\ notify = "done"
    /\ headers = "none" /\ timer = "none" /\ flushPending = FALSE
    /\ sent = [d \in Dirs |-> 0] /\ rcvd = [d \in Dirs |-> 0]
    /\ finished = {} /\ gone = {} /\ told = {}
    /\ conn = "none" /\ backConn = "none" /\ closer = "none" /\ closeCh = FALSE
    /\ copier = [d \in Dirs |-> "none"] /\ failed = {} /\ errc = <<>>

Init ==
    /\ requests = 0 /\ op = None /\ client = None /\ asked = None
    /\ bind = [k \in {"container", "service"} |-> None]
    /\ shown = None /\ handler = "returned" /\ lateFlush = FALSE
    /\ NoExchange

-----------------------------------------------------------------------------
(* The two sides                                                           *)

\* Nothing of an exchange is left: no goroutine, timer or connection.
Over ==
    /\ handler = "returned" /\ notify = "done" /\ timer \in {"none", "done"}
    /\ closer \in {"none", "done"} /\ \A d \in Dirs : copier[d] \in {"none", "done"}
    /\ conn # "open" /\ backConn # "open"

\* A client asks, about an object that exists unless it creates one.
Request(c, o, p) ==
    /\ Over /\ requests < MaxRequests
    /\ p \in IF o \in DOMAIN Asks THEN Paths[c] ELSE {None}
    /\ bind[Kind(o)] = None <=> o \in {"create", "serviceCreate"}
    /\ requests' = requests + 1 /\ op' = o /\ client' = c
    /\ asked' = IF p = None THEN None ELSE [path |-> p, file |-> ClientFile(p, c)]
    /\ handler' = "Director" /\ notify' = "wait" /\ conn' = "open"
    /\ ctx' = FALSE /\ headers' = "none" /\ timer' = "none" /\ flushPending' = FALSE
    /\ sent' = [d \in Dirs |-> 0] /\ rcvd' = [d \in Dirs |-> 0]
    /\ finished' = {} /\ gone' = {} /\ told' = {}
    /\ backConn' = "none" /\ closer' = "none" /\ closeCh' = FALSE
    /\ copier' = [d \in Dirs |-> "none"] /\ failed' = {} /\ errc' = <<>>
    /\ UNCHANGED <<daemon, lateFlush>>

\* The daemon sends once it has answered, the client once it has been told so.
Speaks(d) ==
    /\ Source(d) \notin finished /\ op \in Streams \cup Upgrades
    /\ backConn = "open"
    /\ d = "up" => headers = "flushed" /\ op \in Upgrades

Send(d) ==
    /\ Speaks(d) /\ sent[d] < MaxData
    /\ sent' = [sent EXCEPT ![d] = @ + 1]
    /\ UNCHANGED <<request, daemon, handler, ctx, notify, body, finished, gone, flow,
                   copiers, sockets>>

Finish(d) ==
    /\ Speaks(d)
    /\ finished' = finished \cup {Source(d)}
    /\ UNCHANGED <<request, daemon, handler, ctx, notify, body, sent, gone, flow,
                   copiers, sockets>>

\* A client that is killed or has had enough, a daemon that is stopped.
Go(s) ==
    /\ ~Over /\ s \notin gone
    /\ gone' = gone \cup {s} /\ finished' = finished \cup {s}
    /\ UNCHANGED <<request, daemon, handler, ctx, notify, body, sent, flow,
                   copiers, sockets>>

-----------------------------------------------------------------------------
(* ServeHTTP                                                               *)

Director ==
    /\ handler = "Director"
    /\ asked' = IF asked = None THEN None
                ELSE [asked EXCEPT !.path = RewriteBody(@, Asks[op], Url[op], client)]
    /\ handler' = "RoundTrip"
    /\ UNCHANGED <<requests, op, client, daemon, ctx, notify, body, ends, flow,
                   copiers, sockets>>

Quit == handler' = "returned" /\ ctx' = TRUE /\ conn' = "closed"

\* The error handler answers: the daemon is gone, or the client, or it is cut off.
RoundTripFails ==
    /\ handler = "RoundTrip" /\ (ctx \/ "daemon" \in gone)
    /\ Quit
    /\ UNCHANGED <<request, daemon, notify, body, ends, flow, copiers, backConn, closer, closeCh>>

\* A source the daemon takes: it refuses the path of a drive.
Valid(p) == p[1] # ":"

\* The daemon carries out the request and answers.
RoundTrip ==
    /\ handler = "RoundTrip" /\ "daemon" \notin gone
    /\ handler' = "ModifyResponse" /\ backConn' = "open"
    /\ bind' = IF asked # None /\ Valid(asked.path)
               THEN [bind EXCEPT ![Kind(op)] = [path |-> asked.path, file |-> asked.file, by |-> op]]
               ELSE bind
    /\ finished' = IF op \in Streams \cup Upgrades THEN finished ELSE finished \cup {"daemon"}
    /\ UNCHANGED <<request, shown, ctx, notify, body, sent, gone, flow, copiers,
                   conn, closer, closeCh>>

\* A body that a rewriter gets is read to its end first, and if it is no JSON it is gone.
Read == getRewriter(Url[op]) = "none" \/ "daemon" \in finished

ModifyResponse ==
    /\ handler = "ModifyResponse" /\ Read
    /\ shown' = IF op \in DOMAIN Shows
                THEN [path |-> RewriteBody(bind[Kind(op)].path, Shows[op], Url[op], client),
                      client |-> client, op |-> op, bind |-> bind[Kind(op)].path]
                ELSE shown
    /\ handler' = IF op \in Upgrades THEN "Hijack" ELSE "copyResponse"
    /\ UNCHANGED <<request, bind, ctx, notify, body, ends, flow, copiers, sockets>>

ModifyResponseFails ==
    /\ handler = "ModifyResponse" /\ (ctx \/ "daemon" \in gone)
    /\ Quit /\ backConn' = "closed"
    /\ UNCHANGED <<request, daemon, notify, body, ends, flow, copiers, closer, closeCh>>

\* The server no longer reads from a connection that has been taken from it.
Hijacked == handler \in {"Write", "<-errc", "<-errc again"}

\* CloseNotify tells that the client has gone, until the connection is hijacked; from then
\* on only the deferred cancel ends the goroutine.
NotifyFires ==
    /\ notify = "wait" /\ (ctx \/ ("client" \in gone /\ ~Hijacked))
    /\ notify' = "done" /\ ctx' = TRUE
    /\ UNCHANGED <<request, daemon, handler, body, ends, flow, copiers, sockets>>

-----------------------------------------------------------------------------
(* copyResponse and maxLatencyWriter                                       *)

\* Mutant: the headers wait for the first piece of the body.
CopyResponseNoTimer ==
    /\ handler = "copyResponse"
    /\ handler' = "copyBuffer" /\ headers' = "written"
    /\ UNCHANGED <<request, daemon, ctx, notify, timer, flushPending, lateFlush, ends, flow,
                   copiers, sockets>>

\* WriteHeader, and for a stream the timer that flushes the headers.
CopyResponse ==
    /\ handler = "copyResponse"
    /\ handler' = "copyBuffer" /\ headers' = "written"
    /\ timer' = IF op \in Streams THEN "armed" ELSE "none"
    /\ flushPending' = (op \in Streams)
    /\ UNCHANGED <<request, daemon, ctx, notify, lateFlush, ends, flow, copiers, sockets>>

\* A piece of the body is written, and flushed.
CopyBuffer ==
    /\ handler = "copyBuffer" /\ getRewriter(Url[op]) = "none"
    /\ \E n \in rcvd["down"] + 1 .. sent["down"] : rcvd' = [rcvd EXCEPT !["down"] = n]
    /\ headers' = "flushed"
    /\ UNCHANGED <<request, daemon, handler, ctx, notify, timer, flushPending, lateFlush, ends,
                   told, copiers, sockets>>

\* Mutant: the goroutine that flushes is not told.
stopTimerOnly ==
    /\ timer' = IF timer = "armed" THEN "done" ELSE timer
    /\ UNCHANGED flushPending

\* A timer that has already fired only finds that nothing is pending.
stop ==
    /\ flushPending' = FALSE
    /\ timer' = IF timer = "armed" THEN "done" ELSE timer

\* The body has ended, and with it the response.
CopyEnds ==
    /\ handler = "copyBuffer" /\ "daemon" \in finished \ gone
    /\ getRewriter(Url[op]) # "none" \/ rcvd["down"] = sent["down"]
    /\ stop /\ Quit /\ backConn' = "closed"
    /\ headers' = "flushed" /\ told' = told \cup {"down"}
    /\ UNCHANGED <<request, daemon, notify, lateFlush, ends, rcvd, copiers, closer, closeCh>>

\* Mutant: the response ends as if it were complete.
CopyFailsQuietly ==
    /\ handler = "copyBuffer" /\ (ctx \/ gone # {})
    /\ stop /\ Quit /\ backConn' = "closed"
    /\ headers' = "flushed" /\ told' = told \cup {"down"}
    /\ UNCHANGED <<request, daemon, notify, lateFlush, ends, rcvd, copiers, closer, closeCh>>

\* An error of either side: panic(http.ErrAbortHandler), and the client sees it cut off.
CopyFails ==
    /\ handler = "copyBuffer" /\ (ctx \/ gone # {})
    /\ stop /\ Quit /\ backConn' = "closed"
    /\ UNCHANGED <<request, daemon, notify, headers, lateFlush, ends, flow, copiers,
                   closer, closeCh>>

TimerFires ==
    /\ timer = "armed" /\ timer' = "running"
    /\ UNCHANGED <<request, daemon, handler, ctx, notify, headers, flushPending, lateFlush,
                   ends, flow, copiers, sockets>>

delayedFlush ==
    /\ timer = "running" /\ timer' = "done"
    /\ flushPending' = FALSE
    /\ headers' = IF flushPending THEN "flushed" ELSE headers
    /\ lateFlush' = (lateFlush \/ (flushPending /\ handler = "returned"))
    /\ UNCHANGED <<request, daemon, handler, ctx, notify, ends, flow, copiers, sockets>>

-----------------------------------------------------------------------------
(* handleUpgradeResponse                                                   *)

\* The closer starts, and the connection is taken from the server.
Hijack ==
    /\ handler = "Hijack"
    /\ handler' = "Write" /\ closer' = "wait"
    /\ UNCHANGED <<request, daemon, ctx, notify, body, ends, flow, copiers, conn, backConn, closeCh>>

\* The 101 response is written and flushed, and the copiers start.
WriteUpgrade ==
    /\ handler = "Write" /\ "client" \notin gone
    /\ handler' = "<-errc" /\ headers' = "flushed"
    /\ copier' = [d \in Dirs |-> "copy"]
    /\ UNCHANGED <<request, daemon, ctx, notify, timer, flushPending, lateFlush, ends, flow,
                   failed, errc, sockets>>

\* conn.Close, close(backConnCloseCh) and the end of ServeHTTP.
Unwind ==
    /\ Quit /\ closeCh' = TRUE
    /\ UNCHANGED <<request, daemon, notify, body, ends, flow, copier, failed, backConn, closer>>

WriteUpgradeFails == handler = "Write" /\ "client" \in gone /\ Unwind /\ UNCHANGED errc

\* Mutant: one result is enough.
ReceiveOne == handler = "<-errc" /\ errc # <<>> /\ errc' = Tail(errc) /\ Unwind

\* A direction that ends well waits for the other one; an error ends both.
Receive ==
    /\ handler = "<-errc" /\ errc # <<>> /\ errc' = Tail(errc)
    /\ IF Head(errc) # "nil" THEN Unwind
       ELSE /\ handler' = "<-errc again"
            /\ UNCHANGED <<request, daemon, ctx, notify, body, ends, flow, copier, failed, sockets>>

ReceiveAgain == handler = "<-errc again" /\ errc # <<>> /\ errc' = Tail(errc) /\ Unwind

\* The connection to the daemon is closed when the request is cancelled or served.
CloserCloses ==
    /\ closer = "wait" /\ (ctx \/ closeCh)
    /\ closer' = "done" /\ backConn' = "closed"
    /\ UNCHANGED <<request, daemon, handler, ctx, notify, body, ends, flow, copiers, conn, closeCh>>

\* Nothing can be read from or written to a side that has gone, or to a connection the
\* proxy has closed; what a side has sent before it went may still be there to be read.
Severed(s) == s \in gone \/ (IF s = "client" THEN conn ELSE backConn) = "closed"

\* copyToBackend and copyFromBackend.
Copy(d) ==
    /\ copier[d] = "copy" /\ conn = "open" /\ backConn = "open" /\ Target(d) \notin gone
    /\ \E n \in rcvd[d] + 1 .. sent[d] : rcvd' = [rcvd EXCEPT ![d] = n]
    /\ UNCHANGED <<request, daemon, handler, ctx, notify, body, ends, told, copiers, sockets>>

\* io.Copy returns: at the end of the stream, or with an error of reading from its source,
\* or of writing to its target what it has read.  Until its source says something a copier
\* does not learn that its target has gone.
CopierEnds(d, error) ==
    /\ copier[d] = "copy"
    /\ IF error THEN Severed(Source(d)) \/ (Severed(Target(d)) /\ rcvd[d] < sent[d])
       ELSE Source(d) \in finished /\ rcvd[d] = sent[d]
    /\ copier' = [copier EXCEPT ![d] = "CloseWrite"]
    /\ failed' = IF error THEN failed \cup {d} ELSE failed
    /\ UNCHANGED <<request, daemon, handler, ctx, notify, body, ends, flow, errc, sockets>>

CloseWrite(d) ==
    /\ copier[d] = "CloseWrite"
    /\ copier' = [copier EXCEPT ![d] = "send"]
    /\ told' = told \cup {d}
    /\ UNCHANGED <<request, daemon, handler, ctx, notify, body, ends, rcvd, failed, errc, sockets>>

\* Mutant: the channel has no buffer.
SendResultUnbuffered(d) ==
    /\ copier[d] = "send" /\ errc = <<>> /\ handler \in {"<-errc", "<-errc again"}
    /\ copier' = [copier EXCEPT ![d] = "done"]
    /\ errc' = Append(errc, IF d \in failed THEN "error" ELSE "nil")
    /\ UNCHANGED <<request, daemon, handler, ctx, notify, body, ends, flow, failed, sockets>>

\* errc <- err: the channel holds one.
SendResult(d) ==
    /\ copier[d] = "send" /\ errc = <<>>
    /\ copier' = [copier EXCEPT ![d] = "done"]
    /\ errc' = Append(errc, IF d \in failed THEN "error" ELSE "nil")
    /\ UNCHANGED <<request, daemon, handler, ctx, notify, body, ends, flow, failed, sockets>>

-----------------------------------------------------------------------------
Serve ==
    \/ Director \/ RoundTrip \/ RoundTripFails \/ ModifyResponse \/ ModifyResponseFails
    \/ CopyResponse \/ CopyBuffer \/ CopyEnds \/ CopyFails
    \/ Hijack \/ WriteUpgrade \/ WriteUpgradeFails \/ Receive \/ ReceiveAgain
Timer == TimerFires \/ delayedFlush
Copier(d) ==
    \/ Copy(d) \/ CopierEnds(d, TRUE) \/ CopierEnds(d, FALSE) \/ CloseWrite(d) \/ SendResult(d)

Next ==
    \/ \E c \in Clients, o \in Ops : \E p \in Paths[c] \cup {None} : Request(c, o, p)
    \/ \E d \in Dirs : Send(d) \/ Finish(d) \/ Copier(d)
    \/ \E s \in {"client", "daemon"} : Go(s)
    \/ Serve \/ Timer \/ NotifyFires \/ CloserCloses

Spec == Init /\ [][Next]_vars

\* Goroutines are scheduled, timers fire and the daemon answers what it is asked.
FairSpec ==
    /\ Spec
    /\ WF_vars(Serve) /\ WF_vars(Timer) /\ WF_vars(NotifyFires) /\ WF_vars(CloserCloses)
    /\ \A d \in Dirs : WF_vars(Copier(d))

-----------------------------------------------------------------------------
(* Properties                                                              *)

\* The source of every bind mount that a client has created is, at the daemon, the file the
\* client meant by it.  An update of a service may change it: its paths are not translated.
CreatedBindsResolve ==
    \A k \in DOMAIN bind :
        (bind[k] # None /\ bind[k].by \in {"create", "serviceCreate"} /\ bind[k].file # NoFile)
            => DaemonFile(bind[k].path) = bind[k].file

\* Where the daemon looks for a path that a client was shown and asks for again.
Returned == DaemonFile(mapPath(shown.path, shown.client))

\* What any client is shown of any bind mount, its own or that of another client, names the
\* same file when it asks for it, or none: never a file of somebody else.  A distribution
\* that lists the services is shown paths of the daemon's own and would ask for its own.
ShownBindsNeverMislead ==
    (shown # None /\ (shown.op = "services" /\ shown.client # "windows"
                          => DaemonFile(shown.bind)[1] # "engine"))
        => Returned \in {DaemonFile(shown.bind), NoFile}

\* A client on Windows gets the same file back, if that is one of Windows or the daemon's own
\* and it was not the list of services that showed it.
ShownBindsReturn ==
    ( /\ shown # None /\ shown.client = "windows" /\ shown.op # "services"
      /\ DaemonFile(shown.bind)[1] \in {"windows", "engine"})
        => Returned = DaemonFile(shown.bind)

\* Bind mounts keep their files, as far as the proxy "resolves and rewrites path binds"
\* (main.go:41): those that are created name what their clients mean, what is shown never
\* leads a client to the file of another, and what Windows is shown of its own leads back.
\* A file of a distribution does not lead back, nor does anything in a distribution.
BindsResolve == CreatedBindsResolve /\ ShownBindsNeverMislead /\ ShownBindsReturn

\* maxLatencyWriter's timer does not touch the response of a handler that has returned,
\* even when it fires while copyResponse ends.
NoLateFlush == ~lateFlush

\* The streams whose URL no pattern matches; that of the logs of a service is matched.
PassedOn == {"logs", "attach"}

\* No side is told that a stream has ended before all of it has come and its source has
\* ended it.  A response that is cut off is aborted; an upgraded connection, which has no
\* way to tell the difference, may be cut when one of the sides has gone.
EndsAreTrue ==
    \A d \in told :
        op \in PassedOn =>
            \/ Source(d) \in finished /\ rcvd[d] = sent[d]
            \/ op \in Upgrades /\ gone # {}

\* What a side has not been passed yet, the headers among it.
Late ==
    /\ op \in PassedOn /\ handler # "returned" /\ backConn = "open"
    /\ headers # "flushed" \/ \E d \in Dirs : rcvd[d] < sent[d]

\* A stream reaches its client as it comes, headers first, though it may never end.
StreamsFlow == Late ~> ~Late

\* No goroutine, timer or connection is left behind by an exchange that both sides have
\* finished, one in which a copier has met an error, one that has something for a side that
\* has gone, one whose client has gone before its connection was taken over, and any other
\* than an upgrade that the daemon has finished or a side has left.  What is excepted: an
\* upgraded connection that a side has left waits for the other one to speak or to finish,
\* since nothing but copying looks at the connections (README.md, section 6).
ExchangesEnd ==
    ( \/ failed # {} \/ finished = {"client", "daemon"}
      \/ \E d \in Dirs : Target(d) \in gone /\ rcvd[d] < sent[d]
      \/ "client" \in gone /\ handler \notin {"returned", "<-errc", "<-errc again"}
      \/ handler # "returned" /\ op \notin Upgrades /\ finished # {}) ~> Over
=============================================================================
