------------------------------- MODULE Proxy --------------------------------
(* What the port forwarder's Proxy interface promises its two ends: "It    *)
(* forwards traffic back and forth between two endpoints", and "Close      *)
(* stops forwarding traffic and close both ends".  A connection is two     *)
(* pipes.  A pipe loses nothing, adds nothing and ends after everything    *)
(* else, unless one of the ends has gone or the proxy has stopped.         *)
EXTENDS Integers

CONSTANTS Conns, Sides

Ends == Conns \X Sides

VARIABLES
    state,   \* each connection: "none", "open", "closed"
    stopped, \* the proxy forwards no longer
    sent,    \* how much each end has sent
    ended,   \* the ends that will send no more
    gone,    \* the ends that will receive no more
    rcvd,    \* how much each end has received
    eof      \* the ends that have been told that no more will come

vars == <<state, stopped, sent, ended, gone, rcvd, eof>>

Opposite(e) == CHOOSE f \in Ends : f[1] = e[1] /\ f # e

\* Whether connection c may be cut whatever is on its way.
Broken(c) == stopped \/ \E s \in Sides : <<c, s>> \in gone

Init ==
    /\ state = [c \in Conns |-> "none"] /\ stopped = FALSE
    /\ sent = [e \in Ends |-> 0] /\ rcvd = [e \in Ends |-> 0]
    /\ ended = {} /\ gone = {} /\ eof = {}

-----------------------------------------------------------------------------
Accept(c) ==
    /\ state[c] = "none" /\ ~stopped
    /\ state' = [state EXCEPT ![c] = "open"]
    /\ UNCHANGED <<stopped, sent, ended, gone, rcvd, eof>>

Send(e) ==
    /\ e \notin ended
    /\ sent' = [sent EXCEPT ![e] = @ + 1]
    /\ UNCHANGED <<state, stopped, ended, gone, rcvd, eof>>

End(e) ==
    /\ e \notin ended
    /\ ended' = ended \cup {e}
    /\ UNCHANGED <<state, stopped, sent, gone, rcvd, eof>>

Leave(e) ==
    /\ e \notin gone
    /\ gone' = gone \cup {e} /\ ended' = ended \cup {e}
    /\ UNCHANGED <<state, stopped, sent, rcvd, eof>>

\* End e receives some of what the other end has sent, in order.
Deliver(e) ==
    /\ state[e[1]] = "open" /\ e \notin eof
    /\ \E n \in rcvd[e] + 1 .. sent[Opposite(e)] : rcvd' = [rcvd EXCEPT ![e] = n]
    /\ UNCHANGED <<state, stopped, sent, ended, gone, eof>>

Drained(e) == Opposite(e) \in ended /\ rcvd[e] = sent[Opposite(e)]

DeliverEnd(e) ==
    /\ state[e[1]] = "open" /\ e \notin eof
    /\ Drained(e) \/ Broken(e[1])
    /\ eof' = eof \cup {e}
    /\ UNCHANGED <<state, stopped, sent, ended, gone, rcvd>>

\* Both ends of c are closed: when both pipes have ended, or c is broken.
Shut(c) ==
    /\ state[c] = "open"
    /\ Broken(c) \/ \A s \in Sides : <<c, s>> \in eof
    /\ state' = [state EXCEPT ![c] = "closed"]
    /\ eof' = eof \cup {<<c, s>> : s \in Sides}
    /\ UNCHANGED <<stopped, sent, ended, gone, rcvd>>

\* The other end cannot be reached.
Refuse(c) ==
    /\ state[c] = "open" /\ \A s \in Sides : rcvd[<<c, s>>] = 0 /\ <<c, s>> \notin eof
    /\ state' = [state EXCEPT ![c] = "closed"]
    /\ eof' = eof \cup {<<c, s>> : s \in Sides}
    /\ UNCHANGED <<stopped, sent, ended, gone, rcvd>>

Stop ==
    /\ ~stopped /\ stopped' = TRUE
    /\ UNCHANGED <<state, sent, ended, gone, rcvd, eof>>

Next ==
    \/ \E c \in Conns : Accept(c) \/ Shut(c) \/ Refuse(c)
    \/ \E e \in Ends : Send(e) \/ End(e) \/ Leave(e) \/ Deliver(e) \/ DeliverEnd(e)
    \/ Stop

\* What is sent arrives.  An end is told that no more will come when all has come, or
\* the other end has gone; one that has gone itself need not make the other one wait.
\* When the proxy stops, or both pipes have ended, both ends are closed.
Spec ==
    /\ Init /\ [][Next]_vars
    /\ \A e \in Ends : WF_vars(Deliver(e))
    /\ \A e \in Ends : WF_vars((Drained(e) \/ Opposite(e) \in gone) /\ DeliverEnd(e))
    /\ \A c \in Conns : WF_vars((stopped \/ \A s \in Sides : <<c, s>> \in eof) /\ Shut(c))
=============================================================================
