------------------------------ MODULE TCPProxy ------------------------------
(* The TCP half of the port forwarder.  Run accepts connections and starts *)
(* a clientLoop for each, which dials the backend, starts one broker per   *)
(* direction and waits for both brokers or for quit, the channel Run       *)
(* closes when it returns; it then closes both connections and waits for   *)
(* the brokers.  Close, on another goroutine, closes only the listener.    *)
EXTENDS Integers

CONSTANTS
    Conns,   \* bound: connections that can be accepted in a behaviour
    MaxBytes \* bound: what an end of a connection sends

ASSUME TCPAssumption == MaxBytes \in Nat

Sides == {"client", "backend"}
Ends == Conns \X Sides

\* A broker is named by the end it writes to; it reads from the other one.
Other(e) == IF e[2] = "client" THEN <<e[1], "backend">> ELSE <<e[1], "client">>

VARIABLES
    listener, \* proxy.listener: "open", "closed"
    run,      \* location of Run: "accept", "stopped"
    quit,     \* the channel is closed
    loop,     \* location of each clientLoop
    broker,   \* location of each broker
    sock,     \* the proxy's socket to each end: "none", "open", "closed"
    sent,     \* how much each end has sent
    ended,    \* the ends that have shut down their side
    gone,     \* the ends that have closed or lost the connection
    read,     \* how much a broker has read for each end
    rcvd,     \* how much each end has been sent
    eof       \* the ends towards which the proxy has ended

proxyVars == <<listener, run, quit>>
endVars == <<sent, ended, gone>>
pipeVars == <<broker, read, rcvd>>
vars == <<proxyVars, loop, sock, eof, endVars, pipeVars>>

Init ==
    /\ listener = "open" /\ run = "accept" /\ quit = FALSE
    /\ loop = [c \in Conns |-> "none"]
    /\ broker = [e \in Ends |-> "none"] /\ sock = [e \in Ends |-> "none"]
    /\ sent = [e \in Ends |-> 0] /\ read = [e \in Ends |-> 0] /\ rcvd = [e \in Ends |-> 0]
    /\ ended = {} /\ gone = {} /\ eof = {}

-----------------------------------------------------------------------------
(* The two ends of a connection                                            *)

Connected(e) == sock[e] # "none"

EndSends(e) ==
    /\ Connected(e) /\ e \notin ended /\ sent[e] < MaxBytes
    /\ sent' = [sent EXCEPT ![e] = @ + 1]
    /\ UNCHANGED <<proxyVars, loop, sock, eof, ended, gone, pipeVars>>

\* FIN.
EndShutsDown(e) ==
    /\ Connected(e) /\ e \notin ended
    /\ ended' = ended \cup {e}
    /\ UNCHANGED <<proxyVars, loop, sock, eof, sent, gone, pipeVars>>

\* RST, or a FIN of an end that will not read any more.
EndGoes(e) ==
    /\ Connected(e) /\ e \notin gone
    /\ gone' = gone \cup {e} /\ ended' = ended \cup {e}
    /\ UNCHANGED <<proxyVars, loop, sock, eof, sent, pipeVars>>

-----------------------------------------------------------------------------
(* Run and Close                                                           *)

Accept(c) ==
    /\ run = "accept" /\ listener = "open" /\ loop[c] = "none"
    /\ loop' = [loop EXCEPT ![c] = "dial"]
    /\ sock' = [sock EXCEPT ![<<c, "client">>] = "open"]
    /\ UNCHANGED <<proxyVars, eof, endVars, pipeVars>>

\* Mutant: the client loops are not told.
RunStopsAlone ==
    /\ run = "accept"
    /\ run' = "stopped"
    /\ UNCHANGED <<listener, quit, loop, sock, eof, endVars, pipeVars>>

\* Accept fails: the listener is closed, or the process is out of descriptors.
RunStops ==
    /\ run = "accept"
    /\ run' = "stopped" /\ quit' = TRUE
    /\ UNCHANGED <<listener, loop, sock, eof, endVars, pipeVars>>

Close ==
    /\ listener = "open"
    /\ listener' = "closed"
    /\ UNCHANGED <<run, quit, loop, sock, eof, endVars, pipeVars>>

-----------------------------------------------------------------------------
(* broker(to, from), for the end e it writes to                            *)

Usable(e) == sock[e] = "open" /\ e \notin gone

\* io.Copy reads, when all it has read is written.
BrokerReads(e) ==
    /\ broker[e] = "copy" /\ read[e] = rcvd[e] /\ sock[Other(e)] = "open"
    /\ \E n \in read[e] + 1 .. sent[Other(e)] : read' = [read EXCEPT ![e] = n]
    /\ UNCHANGED <<proxyVars, loop, sock, eof, endVars, broker, rcvd>>

\* A write may take several rounds.
BrokerWrites(e) ==
    /\ broker[e] = "copy" /\ sock[e] = "open"
    /\ \E n \in rcvd[e] + 1 .. read[e] : rcvd' = [rcvd EXCEPT ![e] = n]
    /\ UNCHANGED <<proxyVars, loop, sock, eof, endVars, broker, read>>

\* The end of the stream, or an error of the read.
CopyEnds(e) ==
    /\ broker[e] = "copy" /\ read[e] = rcvd[e]
    /\ \/ Other(e) \in ended /\ read[e] = sent[Other(e)]
       \/ ~Usable(Other(e))
    /\ broker' = [broker EXCEPT ![e] = "close"]
    /\ UNCHANGED <<proxyVars, loop, sock, eof, endVars, read, rcvd>>

\* An error of the write.
CopyFails(e) ==
    /\ broker[e] = "copy" /\ read[e] > rcvd[e] /\ ~Usable(e)
    /\ broker' = [broker EXCEPT ![e] = "close"]
    /\ UNCHANGED <<proxyVars, loop, sock, eof, endVars, read, rcvd>>

\* Mutant: the connection is closed in both directions.
BrokerClosesBoth(e) ==
    /\ broker[e] = "close"
    /\ broker' = [broker EXCEPT ![e] = "done"]
    /\ sock' = [sock EXCEPT ![e] = "closed"]
    /\ eof' = eof \cup {e}
    /\ UNCHANGED <<proxyVars, loop, endVars, read, rcvd>>

\* from.CloseRead, to.CloseWrite and wg.Done.
BrokerCloses(e) ==
    /\ broker[e] = "close"
    /\ broker' = [broker EXCEPT ![e] = "done"]
    /\ eof' = eof \cup {e}
    /\ UNCHANGED <<proxyVars, loop, sock, endVars, read, rcvd>>

-----------------------------------------------------------------------------
(* clientLoop of connection c                                              *)

\* The channel finish is closed: wg.Wait has returned.
Finished(c) == \A s \in Sides : broker[<<c, s>>] = "done"

\* Both directions are open from now on.
DialSucceeds(c) ==
    /\ loop[c] = "dial"
    /\ loop' = [loop EXCEPT ![c] = "select"]
    /\ sock' = [sock EXCEPT ![<<c, "backend">>] = "open"]
    /\ broker' = [e \in Ends |-> IF e[1] = c THEN "copy" ELSE broker[e]]
    /\ UNCHANGED <<proxyVars, eof, endVars, read, rcvd>>

\* Mutant: the client is left waiting.
DialFailsSilently(c) ==
    /\ loop[c] = "dial"
    /\ loop' = [loop EXCEPT ![c] = "done"]
    /\ UNCHANGED <<proxyVars, sock, eof, endVars, pipeVars>>

\* Mutant: the return is missing.
DialFailsContinues(c) ==
    /\ loop[c] = "dial"
    /\ loop' = [loop EXCEPT ![c] = "select"]
    /\ sock' = [sock EXCEPT ![<<c, "client">>] = "closed"]
    /\ broker' = [e \in Ends |-> IF e[1] = c THEN "copy" ELSE broker[e]]
    /\ UNCHANGED <<proxyVars, eof, endVars, read, rcvd>>

DialFails(c) ==
    /\ loop[c] = "dial"
    /\ loop' = [loop EXCEPT ![c] = "done"]
    /\ sock' = [sock EXCEPT ![<<c, "client">>] = "closed"]
    /\ eof' = eof \cup {<<c, s>> : s \in Sides}
    /\ UNCHANGED <<proxyVars, endVars, pipeVars>>

\* Mutant: select waits for quit alone.
SelectQuit(c) ==
    /\ loop[c] = "select" /\ quit
    /\ loop' = [loop EXCEPT ![c] = "client.Close"]
    /\ UNCHANGED <<proxyVars, sock, eof, endVars, pipeVars>>

Select(c) ==
    /\ loop[c] = "select" /\ (quit \/ Finished(c))
    /\ loop' = [loop EXCEPT ![c] = "client.Close"]
    /\ UNCHANGED <<proxyVars, sock, eof, endVars, pipeVars>>

CloseSide(c, s, then) ==
    /\ loop' = [loop EXCEPT ![c] = then]
    /\ sock' = [sock EXCEPT ![<<c, s>>] = "closed"]
    /\ eof' = eof \cup {<<c, s>>}
    /\ UNCHANGED <<proxyVars, endVars, pipeVars>>

CloseClient(c) == loop[c] = "client.Close" /\ CloseSide(c, "client", "backend.Close")
CloseBackend(c) == loop[c] = "backend.Close" /\ CloseSide(c, "backend", "join")

\* <-finish
Join(c) ==
    /\ loop[c] = "join" /\ Finished(c)
    /\ loop' = [loop EXCEPT ![c] = "done"]
    /\ UNCHANGED <<proxyVars, sock, eof, endVars, pipeVars>>

-----------------------------------------------------------------------------
BrokerStep(e) ==
    BrokerReads(e) \/ BrokerWrites(e) \/ CopyEnds(e) \/ CopyFails(e) \/ BrokerCloses(e)
LoopStep(c) ==
    \/ DialSucceeds(c) \/ DialFails(c)
    \/ Select(c) \/ CloseClient(c) \/ CloseBackend(c) \/ Join(c)

Next ==
    \/ \E e \in Ends : EndSends(e) \/ EndShutsDown(e) \/ EndGoes(e) \/ BrokerStep(e)
    \/ \E c \in Conns : Accept(c) \/ LoopStep(c)
    \/ RunStops \/ Close

Spec == Init /\ [][Next]_vars

\* Goroutines are scheduled, connect gives up in the end, and the ends read what they
\* are sent.  Run returns once the listener is closed; else only if Accept fails.
FairSpec ==
    /\ Spec
    /\ WF_vars(listener = "closed" /\ RunStops)
    /\ \A e \in Ends : WF_vars(BrokerStep(e))
    /\ \A c \in Conns : WF_vars(LoopStep(c))

-----------------------------------------------------------------------------
(* Properties                                                              *)

\* Every variable has its type, no more is passed on than was sent, and what a broker or
\* a clientLoop works with exists.
TypeOK ==
    /\ listener \in {"open", "closed"} /\ run \in {"accept", "stopped"} /\ quit \in BOOLEAN
    /\ loop \in [Conns -> {"none", "dial", "select", "client.Close", "backend.Close",
                           "join", "done"}]
    /\ broker \in [Ends -> {"none", "copy", "close", "done"}]
    /\ sock \in [Ends -> {"none", "open", "closed"}]
    /\ sent \in [Ends -> 0..MaxBytes] /\ read \in [Ends -> 0..MaxBytes]
    /\ rcvd \in [Ends -> 0..MaxBytes]
    /\ ended \subseteq Ends /\ gone \subseteq ended /\ eof \subseteq Ends
    /\ \A e \in Ends : rcvd[e] <= read[e] /\ read[e] <= sent[Other(e)]
    /\ \A e \in Ends : broker[e] # "none" => sock[e] # "none"

\* When a clientLoop has returned, both its connections are closed and no broker of it
\* still runs, however it ended: the backend did not answer, both directions ended, or
\* quit came in the middle of a copy.
NothingLeaks ==
    \A c \in Conns : loop[c] = "done" => 
        \A s \in Sides : sock[<<c, s>>] # "open" /\ broker[<<c, s>>] \in {"none", "done"}

\* Connection c may be cut whatever is on its way.
Broken(c) == quit \/ sock[<<c, "backend">>] = "none" \/ \E s \in Sides : <<c, s>> \in gone

\* An end that shuts down its side does not cut the other direction: the proxy ends
\* towards an end only after all that the other one has sent, and after its FIN, unless
\* Run has stopped, an end has gone or the backend was never reached.
EndComesLast ==
    \A e \in eof : Broken(e[1]) \/ (Other(e) \in ended /\ rcvd[e] = sent[Other(e)])

\* "Close stops forwarding traffic and close both ends of the Proxy" (proxy.go): after
\* Close every clientLoop that was started returns, in whatever state it finds the
\* connection: dialling, half closed, or in the middle of a copy.
CloseEndsAll == \A c \in Conns : (listener = "closed" /\ loop[c] # "none") ~> loop[c] = "done"

\* A connection as Proxy sees it: from Accept until both of its sockets are closed.
ConnState(c) ==
    CASE loop[c] = "none" -> "none"
      [] loop[c] \in {"join", "done"} -> "closed"
      [] OTHER -> "open"

Forwards == INSTANCE Proxy WITH
    state <- [c \in Conns |-> ConnState(c)], stopped <- quit

\* The forwarder implements Proxy: what either end sends arrives, and then its end.
ForwardsTraffic == Forwards!Spec
=============================================================================
