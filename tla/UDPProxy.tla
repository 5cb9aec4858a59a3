----------------------------- MODULE UDPProxy ------------------------------
(* The UDP half of the port forwarder: Run reads datagrams from the        *)
(* listener and relays each over a connection of its own per client, kept  *)
(* in connTrackTable; one replyLoop per connection relays the answers back *)
(* and retires the connection when it falls silent; Close runs on another  *)
(* goroutine.  Only the table is locked: the lock is released before Run   *)
(* writes to the connection it found, and before a replyLoop closes its.   *)
EXTENDS Integers

CONSTANTS
    Clients,      \* the addresses datagrams come from
    Conns,        \* bound: connections that can be dialled in a behaviour
    MaxDatagrams, \* bound: datagrams the clients send in a behaviour
    None          \* no connection, no client

\* The listener is bound to one version of IP, so its addresses have one length.
ASSUME UDPAssumption ==
    /\ Clients \subseteq [len : {4, 16}, hi : Nat, lo : Nat, port : Nat]
    /\ \A a, b \in Clients : a.len = b.len
    /\ \A a \in Clients : a.len = 4 => a.hi = 0
    /\ None \notin Conns /\ None \notin Clients
    /\ MaxDatagrams \in Nat

VARIABLES
    listener,       \* proxy.listener: "open", "closed"
    connTrackTable, \* the connection of each client key, or None
    conn,           \* each connection: "unused", "open", "closed"
    clientAddr,     \* the client of each connection's replyLoop
    reply,          \* location of each connection's replyLoop
    readBuf,        \* whose datagram is answered by what a replyLoop has read
    run,            \* location of Run
    from, proxyConn,\* the client and the connection Run is serving
    close,          \* location of Close
    sent,           \* number of datagrams received from clients
    backlog,        \* <<n, c>>: the backend holds a datagram of c that came over n
    inbox,          \* <<n, c>>: the answer to it waits on connection n
    delivered       \* <<d, c>>: an answer to c was sent to d

sockets == <<listener, connTrackTable, conn>>
loopVars == <<clientAddr, reply, readBuf>>
runVars == <<run, from, proxyConn>>
traffic == <<sent, backlog, inbox, delivered>>
vars == <<sockets, loopVars, runVars, close, traffic>>

-----------------------------------------------------------------------------
\* Mutant: clients are told apart by their port alone.
PortKey(addr) == [IPHigh |-> 0, IPLow |-> 0, Port |-> addr.port]

newConnTrackKey(addr) ==
    [IPHigh |-> IF addr.len = 4 THEN 0 ELSE addr.hi, IPLow |-> addr.lo, Port |-> addr.port]

Keys == {newConnTrackKey(a) : a \in Clients}

Init ==
    /\ listener = "open" /\ run = "read" /\ close = "idle"
    /\ connTrackTable = [k \in Keys |-> None]
    /\ conn = [n \in Conns |-> "unused"]
    /\ clientAddr = [n \in Conns |-> None]
    /\ reply = [n \in Conns |-> "none"]
    /\ readBuf = [n \in Conns |-> None]
    /\ from = None /\ proxyConn = None
    /\ sent = 0 /\ backlog = {} /\ inbox = {} /\ delivered = {}

-----------------------------------------------------------------------------
(* Run                                                                     *)

\* ReadFromUDP returns a datagram of client c.
RunReads(c) ==
    /\ run = "read" /\ listener = "open" /\ sent < MaxDatagrams
    /\ run' = "lookup" /\ from' = c /\ sent' = sent + 1
    /\ UNCHANGED <<sockets, loopVars, proxyConn, close, backlog, inbox, delivered>>

\* ReadFromUDP fails: the listener is closed, or broken.
RunStops ==
    /\ run = "read"
    /\ run' = "stopped"
    /\ UNCHANGED <<sockets, loopVars, from, proxyConn, close, traffic>>

\* Mutant: a connection is assumed to be found.
LookupHitsUnchecked ==
    /\ run = "lookup"
    /\ proxyConn' = connTrackTable[newConnTrackKey(from)]
    /\ run' = "write"
    /\ UNCHANGED <<sockets, loopVars, from, close, traffic>>

\* The locked section of Run, when the client has a connection.
LookupHits ==
    /\ run = "lookup"
    /\ connTrackTable[newConnTrackKey(from)] # None
    /\ proxyConn' = connTrackTable[newConnTrackKey(from)]
    /\ run' = "write"
    /\ UNCHANGED <<sockets, loopVars, from, close, traffic>>

\* The locked section of Run, when it has none: a connection is dialled, entered
\* into the table, and its replyLoop started.
LookupDials(n) ==
    /\ run = "lookup"
    /\ connTrackTable[newConnTrackKey(from)] = None
    /\ conn[n] = "unused"
    /\ conn' = [conn EXCEPT ![n] = "open"]
    /\ connTrackTable' = [connTrackTable EXCEPT ![newConnTrackKey(from)] = n]
    /\ clientAddr' = [clientAddr EXCEPT ![n] = from]
    /\ reply' = [reply EXCEPT ![n] = "read"]
    /\ proxyConn' = n /\ run' = "write"
    /\ UNCHANGED <<listener, readBuf, from, close, traffic>>

\* DialUDP fails: the datagram is dropped.
LookupFails ==
    /\ run = "lookup"
    /\ connTrackTable[newConnTrackKey(from)] = None
    /\ run' = "read"
    /\ UNCHANGED <<sockets, loopVars, from, proxyConn, close, traffic>>

\* proxyConn.Write, after the lock was released: the connection may have been closed.
RunWrites ==
    /\ run = "write"
    /\ backlog' = IF conn[proxyConn] = "open" THEN backlog \cup {<<proxyConn, from>>} ELSE backlog
    /\ run' = "read"
    /\ UNCHANGED <<sockets, loopVars, from, proxyConn, close, sent, inbox, delivered>>

\* The backend answers a datagram on the connection it came over.
BackendReplies(n, c) ==
    /\ <<n, c>> \in backlog
    /\ backlog' = backlog \ {<<n, c>>}
    /\ inbox' = IF conn[n] = "open" THEN inbox \cup {<<n, c>>} ELSE inbox
    /\ UNCHANGED <<sockets, loopVars, runVars, close, sent, delivered>>

-----------------------------------------------------------------------------
(* replyLoop of connection n                                               *)

ReplyReads(n, c) ==
    /\ reply[n] = "read" /\ conn[n] = "open" /\ <<n, c>> \in inbox
    /\ inbox' = inbox \ {<<n, c>>}
    /\ readBuf' = [readBuf EXCEPT ![n] = c]
    /\ reply' = [reply EXCEPT ![n] = "forward"]
    /\ UNCHANGED <<sockets, clientAddr, runVars, close, sent, backlog, delivered>>

\* The read deadline expires or the connection was closed.  A refused connection
\* is ignored and changes nothing.
ReplyEnds(n) ==
    /\ reply[n] = "read"
    /\ reply' = [reply EXCEPT ![n] = "delete"]
    /\ UNCHANGED <<sockets, clientAddr, readBuf, runVars, close, traffic>>

\* WriteToUDP(readBuf, clientAddr).  A closed listener ends the loop.
ReplyForwards(n) ==
    /\ reply[n] = "forward"
    /\ \/ /\ listener = "open"
          /\ delivered' = delivered \cup {<<clientAddr[n], readBuf[n]>>}
          /\ reply' = [reply EXCEPT ![n] = "read"]
       \/ UNCHANGED delivered /\ reply' = [reply EXCEPT ![n] = "delete"]
    /\ readBuf' = [readBuf EXCEPT ![n] = None]
    /\ UNCHANGED <<sockets, clientAddr, runVars, close, sent, backlog, inbox>>

\* Mutant: the connection is closed before its entry is deleted.
ReplyClosesFirst(n) ==
    /\ reply[n] = "delete"
    /\ conn' = [conn EXCEPT ![n] = "closed"]
    /\ reply' = [reply EXCEPT ![n] = "close"]
    /\ UNCHANGED <<listener, connTrackTable, clientAddr, readBuf, runVars, close, traffic>>

\* Mutant: the entry is left in the table.
ReplyForgetsDelete(n) ==
    /\ reply[n] = "delete"
    /\ reply' = [reply EXCEPT ![n] = "close"]
    /\ UNCHANGED <<sockets, clientAddr, readBuf, runVars, close, traffic>>

\* The deferred function, under the lock.
ReplyDeletes(n) ==
    /\ reply[n] = "delete"
    /\ connTrackTable' = [connTrackTable EXCEPT ![newConnTrackKey(clientAddr[n])] = None]
    /\ reply' = [reply EXCEPT ![n] = "close"]
    /\ UNCHANGED <<listener, conn, clientAddr, readBuf, runVars, close, traffic>>

\* Mutant: the connection is not closed.
ReplyKeepsOpen(n) ==
    /\ reply[n] = "close"
    /\ reply' = [reply EXCEPT ![n] = "done"]
    /\ UNCHANGED <<sockets, clientAddr, readBuf, runVars, close, traffic>>

\* Its end, after the lock was released.
ReplyCloses(n) ==
    /\ reply[n] = "close"
    /\ conn' = [conn EXCEPT ![n] = "closed"]
    /\ inbox' = {e \in inbox : e[1] # n}
    /\ reply' = [reply EXCEPT ![n] = "done"]
    /\ UNCHANGED <<listener, connTrackTable, clientAddr, readBuf, runVars, close,
                   sent, backlog, delivered>>

-----------------------------------------------------------------------------
(* Close                                                                   *)

CloseListener ==
    /\ close = "idle"
    /\ listener' = "closed" /\ close' = "conns"
    /\ UNCHANGED <<connTrackTable, conn, loopVars, runVars, traffic>>

\* Every connection in the table, under the lock; the entries stay.
CloseConns ==
    /\ close = "conns"
    /\ conn' = [n \in Conns |->
                  IF \E k \in Keys : connTrackTable[k] = n THEN "closed" ELSE conn[n]]
    /\ close' = "done"
    /\ UNCHANGED <<listener, connTrackTable, loopVars, runVars, traffic>>

-----------------------------------------------------------------------------
RunStep == (\E n \in Conns : LookupDials(n)) \/ LookupHits \/ LookupFails \/ RunWrites
ReplyStep(n) == ReplyEnds(n) \/ ReplyForwards(n) \/ ReplyDeletes(n) \/ ReplyCloses(n)

Next ==
    \/ \E c \in Clients : RunReads(c)
    \/ RunStops
    \/ RunStep
    \/ \E n \in Conns : ReplyStep(n)
    \/ \E n \in Conns, c \in Clients : ReplyReads(n, c) \/ BackendReplies(n, c)
    \/ CloseListener \/ CloseConns

Spec == Init /\ [][Next]_vars

\* The read deadline of a silent connection expires, and goroutines are scheduled.
FairSpec == Spec /\ WF_vars(RunStep) /\ \A n \in Conns : WF_vars(ReplyStep(n))

-----------------------------------------------------------------------------
(* Properties                                                              *)

\* Every variable has its type, and Run and the reply loops have what they are about to
\* use: a client to look up, a connection to write to, an answer to forward.
TypeOK ==
    /\ listener \in {"open", "closed"}
    /\ connTrackTable \in [Keys -> Conns \cup {None}]
    /\ conn \in [Conns -> {"unused", "open", "closed"}]
    /\ clientAddr \in [Conns -> Clients \cup {None}]
    /\ reply \in [Conns -> {"none", "read", "forward", "delete", "close", "done"}]
    /\ readBuf \in [Conns -> Clients \cup {None}]
    /\ run \in {"read", "lookup", "write", "stopped"}
    /\ from \in Clients \cup {None} /\ proxyConn \in Conns \cup {None}
    /\ close \in {"idle", "conns", "done"}
    /\ sent \in 0..MaxDatagrams
    /\ backlog \subseteq Conns \X Clients /\ inbox \subseteq Conns \X Clients
    /\ delivered \subseteq Clients \X Clients
    /\ run \in {"lookup", "write"} => from \in Clients
    /\ run = "write" => proxyConn \in Conns
    /\ \A n \in Conns : reply[n] = "forward" => readBuf[n] \in Clients
    /\ \A n \in Conns : reply[n] # "none" => clientAddr[n] \in Clients

\* The reply loops that have not yet given up their entry.
Tracked(n) == reply[n] \in {"read", "forward", "delete"}

\* The table holds exactly the connections whose replyLoop has not run its deferred
\* delete, under the client's own key: a replyLoop deletes its own entry and never that
\* of a later connection, no client has two, and no entry outlives its loop.
TableMatchesLoops ==
    \A n \in Conns, k \in Keys :
        connTrackTable[k] = n <=>
            /\ Tracked(n)
            /\ k = newConnTrackKey(clientAddr[n])

\* Until Close, a connection found in the table is open: the entry goes first.
EntriesOpen ==
    close # "done" =>
        \A k \in Keys : connTrackTable[k] # None => conn[connTrackTable[k]] = "open"

\* An answer reaches the client whose datagram it answers, and no other.
RepliesGoHome == \A e \in delivered : e[1] = e[2]

\* Every connection is closed in the end, whether its client falls silent, the
\* listener is gone or Close never saw it.
ConnsReclaimed == \A n \in Conns : conn[n] = "open" ~> conn[n] = "closed"
=============================================================================
