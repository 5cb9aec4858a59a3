--------------------------- MODULE TCPProxyProofs ---------------------------
(* Proofs about TCPProxy, for any number of connections and bytes.         *)
EXTENDS TCPProxy, TLAPS

-----------------------------------------------------------------------------
(* Ends                                                                    *)

\* The ends of a connection are its client and its backend.
LEMMA EndParts ==
    ASSUME NEW e \in Ends
    PROVE  e[1] \in Conns /\ e[2] \in Sides /\ e = <<e[1], e[2]>>
BY DEF Ends

\* A side of a connection is an end.
LEMMA SideIsEnd ==
    ASSUME NEW c \in Conns, NEW s \in Sides
    PROVE  <<c, s>> \in Ends /\ <<c, s>>[1] = c /\ <<c, s>>[2] = s
BY DEF Ends

\* Each end has exactly one opposite, on the same connection.
LEMMA OtherEnd ==
    ASSUME NEW e \in Ends
    PROVE  /\ Other(e) \in Ends /\ Other(e)[1] = e[1] /\ Other(e) # e
           /\ \A f \in Ends : f[1] = e[1] /\ f # e => f = Other(e)
<1>1. e[1] \in Conns /\ e = <<e[1], e[2]>> /\ (e[2] = "client" \/ e[2] = "backend")
  BY EndParts DEF Sides
<1>2. Other(e) \in Ends /\ Other(e)[1] = e[1] /\ Other(e) # e
  BY <1>1, SideIsEnd DEF Other, Sides
<1>3. ASSUME NEW f \in Ends, f[1] = e[1], f # e PROVE f = Other(e)
  <2>1. f = <<f[1], f[2]>> /\ (f[2] = "client" \/ f[2] = "backend")
    BY EndParts DEF Sides
  <2> QED
    BY <1>1, <1>3, <2>1 DEF Other
<1> QED
  BY <1>2, <1>3

-----------------------------------------------------------------------------
(* The inductive invariant                                                 *)

\* quit is closed exactly when Run has returned.
RunQuits == quit <=> run = "stopped"

\* Before clientLoop has dialled, nothing of its connection but the client's socket exists.
BeforeDial(c) ==
    loop[c] \in {"none", "dial"} =>
        /\ \A s \in Sides : /\ broker[<<c, s>>] = "none" /\ <<c, s>> \notin eof
                            /\ rcvd[<<c, s>>] = 0
        /\ sock[<<c, "backend">>] = "none"
        /\ loop[c] = "dial" => sock[<<c, "client">>] = "open"

\* From then on it has two brokers, and it closes its sockets one after the other.
AfterDial(c) ==
    /\ loop[c] \in {"select", "client.Close", "backend.Close", "join"} =>
           \A s \in Sides : broker[<<c, s>>] # "none" /\ sock[<<c, s>>] # "none"
    /\ loop[c] \in {"select", "client.Close"} => \A s \in Sides : sock[<<c, s>>] = "open"
    /\ loop[c] = "backend.Close" =>
           /\ sock[<<c, "client">>] = "closed" /\ <<c, "client">> \in eof
           /\ sock[<<c, "backend">>] = "open"
    /\ loop[c] \in {"join", "done"} =>
           \A s \in Sides : sock[<<c, s>>] # "open" /\ <<c, s>> \in eof

\* It leaves its select for a reason, and returns without brokers only if it had none.
Leaves(c) ==
    /\ loop[c] \in {"client.Close", "backend.Close", "join"} => quit \/ Finished(c)
    /\ loop[c] = "done" =>
           \/ Finished(c)
           \/ sock[<<c, "backend">>] = "none" /\ \A s \in Sides : broker[<<c, s>>] = "none"

\* The connection of end e may be cut: Run has stopped or an end has gone.
Cut(e) == quit \/ \E s \in Sides : <<e[1], s>> \in gone

\* All that the opposite end has sent has arrived, and it will send no more.
Emptied(e) == Other(e) \in ended /\ rcvd[e] = sent[Other(e)]

\* A broker stops for a reason, and only a broker that has stopped ends towards its end,
\* as long as clientLoop has not closed the socket.
PipeOK(e) ==
    /\ broker[e] \in {"close", "done"} => Cut(e) \/ Emptied(e)
    /\ broker[e] = "done" => e \in eof
    /\ e \in eof => broker[e] = "done" \/ sock[e] # "open"

StageOK(c) == BeforeDial(c) /\ AfterDial(c) /\ Leaves(c)

Stages == \A c \in Conns : StageOK(c)
Pipes == \A e \in Ends : PipeOK(e)
IInv == TypeOK /\ RunQuits /\ Stages /\ Pipes

-----------------------------------------------------------------------------
(* Types                                                                   *)

\* The initial state has the types.
LEMMA InitType == Init => TypeOK
<1> SUFFICES ASSUME Init PROVE TypeOK
  OBVIOUS
<1>1. /\ sent \in [Ends -> 0..MaxBytes] /\ read \in [Ends -> 0..MaxBytes]
      /\ rcvd \in [Ends -> 0..MaxBytes]
  BY TCPAssumption DEF Init
<1>2. \A e \in Ends : rcvd[e] <= read[e] /\ read[e] <= sent[Other(e)]
  BY OtherEnd DEF Init
<1> QED
  BY <1>1, <1>2 DEF Init, TypeOK

\* Every step keeps the types.  That a broker has both its sockets is why the client's
\* must be known to be open while clientLoop dials.
LEMMA TypeStep == TypeOK /\ Stages /\ [Next]_vars => TypeOK'
<1> SUFFICES ASSUME TypeOK, Stages, [Next]_vars PROVE TypeOK'
  OBVIOUS
<1> USE TCPAssumption DEF TypeOK, proxyVars, endVars, pipeVars
<1>1. ASSUME NEW e \in Ends, EndSends(e) PROVE TypeOK'
  <2>1. sent' \in [Ends -> 0..MaxBytes] /\ \A f \in Ends : sent[f] <= sent'[f]
    BY <1>1 DEF EndSends
  <2>2. \A f \in Ends : read'[f] <= sent'[Other(f)]
    BY <1>1, <2>1, OtherEnd DEF EndSends
  <2> QED
    BY <1>1, <2>1, <2>2 DEF EndSends
<1>2. ASSUME NEW e \in Ends, EndShutsDown(e) PROVE TypeOK'
  BY <1>2 DEF EndShutsDown
<1>3. ASSUME NEW e \in Ends, EndGoes(e) PROVE TypeOK'
  BY <1>3 DEF EndGoes
<1>4. ASSUME NEW c \in Conns, Accept(c) PROVE TypeOK'
  BY <1>4, SideIsEnd DEF Accept, Sides
<1>5. ASSUME RunStops PROVE TypeOK'
  BY <1>5 DEF RunStops
<1>6. ASSUME Close PROVE TypeOK'
  BY <1>6 DEF Close
<1>7. ASSUME NEW e \in Ends, BrokerReads(e) PROVE TypeOK'
  <2>1. PICK n \in read[e] + 1 .. sent[Other(e)] : read' = [read EXCEPT ![e] = n]
    BY <1>7 DEF BrokerReads
  <2>2. Other(e) \in Ends /\ n \in 0..MaxBytes /\ n >= read[e] /\ n <= sent[Other(e)]
    BY <2>1, OtherEnd
  <2> QED
    BY <1>7, <2>1, <2>2 DEF BrokerReads
<1>8. ASSUME NEW e \in Ends, BrokerWrites(e) PROVE TypeOK'
  <2>1. PICK n \in rcvd[e] + 1 .. read[e] : rcvd' = [rcvd EXCEPT ![e] = n]
    BY <1>8 DEF BrokerWrites
  <2>2. n \in 0..MaxBytes /\ n <= read[e]
    BY <2>1
  <2> QED
    BY <1>8, <2>1, <2>2 DEF BrokerWrites
<1>9. ASSUME NEW e \in Ends, CopyEnds(e) PROVE TypeOK'
  BY <1>9 DEF CopyEnds
<1>10. ASSUME NEW e \in Ends, CopyFails(e) PROVE TypeOK'
  BY <1>10 DEF CopyFails
<1>11. ASSUME NEW e \in Ends, BrokerCloses(e) PROVE TypeOK'
  BY <1>11 DEF BrokerCloses
<1>12. ASSUME NEW c \in Conns, DialSucceeds(c) PROVE TypeOK'
  <2>0. sock[<<c, "client">>] = "open"
    BY <1>12 DEF Stages, StageOK, BeforeDial, DialSucceeds
  <2>1. \A e \in Ends : e[1] = c => e = <<c, "client">> \/ e = <<c, "backend">>
    BY EndParts DEF Sides
  <2>2. <<c, "backend">> \in Ends
    BY SideIsEnd DEF Sides
  <2>3. loop' = [loop EXCEPT ![c] = "select"] /\ UNCHANGED <<proxyVars, eof, endVars, read, rcvd>>
    BY <1>12 DEF DialSucceeds
  <2>4. sock' = [sock EXCEPT ![<<c, "backend">>] = "open"]
    BY <1>12 DEF DialSucceeds
  <2>5. broker' = [e \in Ends |-> IF e[1] = c THEN "copy" ELSE broker[e]]
    BY <1>12 DEF DialSucceeds
  <2>6. broker' \in [Ends -> {"none", "copy", "close", "done"}]
    BY <2>5
  <2>7. sock' \in [Ends -> {"none", "open", "closed"}]
    BY <2>2, <2>4
  <2>8. ASSUME NEW e \in Ends, broker'[e] # "none" PROVE sock'[e] # "none"
    <3>1. sock[e] # "none" => sock'[e] # "none"
      BY <2>2, <2>4
    <3>2. CASE e[1] = c
      BY <2>0, <2>1, <2>2, <2>4, <3>2
    <3>3. CASE e[1] # c
      BY <2>5, <2>8, <3>1, <3>3
    <3> QED
      BY <3>2, <3>3
  <2> QED
    BY <2>3, <2>6, <2>7, <2>8
<1>13. ASSUME NEW c \in Conns, DialFails(c) PROVE TypeOK'
  <2>1. <<c, "client">> \in Ends /\ {<<c, s>> : s \in Sides} \subseteq Ends
    BY DEF Ends, Sides
  <2>2. eof' \subseteq Ends
    BY <1>13, <2>1 DEF DialFails
  <2>3. /\ loop' = [loop EXCEPT ![c] = "done"]
        /\ sock' = [sock EXCEPT ![<<c, "client">>] = "closed"]
        /\ UNCHANGED <<proxyVars, endVars, pipeVars>>
    BY <1>13 DEF DialFails
  <2> QED
    BY <2>1, <2>2, <2>3
<1>14. ASSUME NEW c \in Conns, Select(c) PROVE TypeOK'
  BY <1>14 DEF Select
<1>15. ASSUME NEW c \in Conns, CloseClient(c) PROVE TypeOK'
  <2>1. <<c, "client">> \in Ends
    BY SideIsEnd DEF Sides
  <2> QED
    BY <1>15, <2>1 DEF CloseClient, CloseSide
<1>16. ASSUME NEW c \in Conns, CloseBackend(c) PROVE TypeOK'
  <2>1. <<c, "backend">> \in Ends
    BY SideIsEnd DEF Sides
  <2> QED
    BY <1>16, <2>1 DEF CloseBackend, CloseSide
<1>17. ASSUME NEW c \in Conns, Join(c) PROVE TypeOK'
  BY <1>17 DEF Join
<1>18. CASE UNCHANGED vars
  BY <1>18 DEF vars
<1> QED
  BY <1>1, <1>2, <1>3, <1>4, <1>5, <1>6, <1>7, <1>8, <1>9, <1>10, <1>11, <1>12, <1>13,
     <1>14, <1>15, <1>16, <1>17, <1>18 DEF Next, BrokerStep, LoopStep

-----------------------------------------------------------------------------
(* Stages                                                                  *)

\* A connection nothing of which changes stays as it is; quit only ever comes to be closed.
LEMMA StageKept ==
    ASSUME NEW d \in Conns, StageOK(d), loop'[d] = loop[d], quit => quit',
           \A s \in Sides : /\ broker'[<<d, s>>] = broker[<<d, s>>]
                            /\ sock'[<<d, s>>] = sock[<<d, s>>]
                            /\ rcvd'[<<d, s>>] = rcvd[<<d, s>>]
                            /\ <<d, s>> \in eof' <=> <<d, s>> \in eof
    PROVE  StageOK(d)'
<1>1. BeforeDial(d)'
  BY DEF StageOK, BeforeDial, Sides
<1>2. AfterDial(d)'
  BY DEF StageOK, AfterDial, Sides
<1>3. Finished(d)' = Finished(d)
  BY DEF Finished
<1>4. Leaves(d)'
  BY <1>3 DEF StageOK, Leaves, Sides
<1> QED
  BY <1>1, <1>2, <1>4 DEF StageOK

\* While a broker of a connection runs, its clientLoop has dialled and not returned.
LEMMA BrokerHasLoop ==
    ASSUME NEW e \in Ends, TypeOK, Stages, broker[e] \in {"copy", "close"}
    PROVE  loop[e[1]] \in {"select", "client.Close", "backend.Close", "join"}
<1>1. e[1] \in Conns /\ e[2] \in Sides /\ broker[<<e[1], e[2]>>] \in {"copy", "close"}
  BY EndParts
<1>2. StageOK(e[1])
  BY <1>1 DEF Stages
<1>3. loop[e[1]] \notin {"none", "dial"}
  BY <1>1, <1>2 DEF StageOK, BeforeDial
<1>4. loop[e[1]] # "done"
  BY <1>1, <1>2 DEF StageOK, Leaves, Finished
<1>5. loop[e[1]] \in {"none", "dial", "select", "client.Close", "backend.Close", "join", "done"}
  BY <1>1 DEF TypeOK
<1> QED
  BY <1>3, <1>4, <1>5

\* What a broker does leaves the connection where clientLoop has it.
LEMMA StagesBroker ==
    ASSUME TypeOK, Stages, NEW e \in Ends, UNCHANGED <<loop, sock, quit>>,
           broker[e] \in {"copy", "close"}, broker'[e] # "none",
           \A f \in Ends : f # e => broker'[f] = broker[f] /\ rcvd'[f] = rcvd[f],
           eof \subseteq eof', eof' \subseteq eof \cup {e}
    PROVE  Stages'
<1> SUFFICES ASSUME NEW d \in Conns PROVE StageOK(d)'
  BY DEF Stages
<1>1. StageOK(d)
  BY DEF Stages
<1>2. CASE d # e[1]
  <2>1. \A s \in Sides : <<d, s>> \in Ends /\ <<d, s>> # e
    BY <1>2, SideIsEnd
  <2> QED
    BY <1>1, <2>1, StageKept
<1>3. CASE d = e[1]
  <2>1. loop'[d] = loop[d] /\ loop[d] \in {"select", "client.Close", "backend.Close", "join"}
    BY <1>3, BrokerHasLoop
  <2>2. d \in Conns /\ e[2] \in Sides /\ e = <<d, e[2]>>
    BY <1>3, EndParts
  <2>3. ~Finished(d)
    BY <2>2 DEF Finished
  <2>4. \A s \in Sides : broker'[<<d, s>>] # "none"
    BY <1>1, <2>1, SideIsEnd DEF StageOK, AfterDial
  <2>5. BeforeDial(d)'
    BY <2>1 DEF BeforeDial
  <2>6. AfterDial(d)'
    BY <1>1, <2>1, <2>4 DEF StageOK, AfterDial
  <2>7. Leaves(d)'
    BY <1>1, <2>1, <2>3 DEF StageOK, Leaves
  <2> QED
    BY <2>5, <2>6, <2>7 DEF StageOK
<1> QED
  BY <1>2, <1>3
\* Every step keeps the stages.
LEMMA StagesStep == TypeOK /\ Stages /\ [Next]_vars => Stages'
<1> SUFFICES ASSUME TypeOK, Stages, [Next]_vars PROVE Stages'
  OBVIOUS
<1> USE DEF proxyVars, endVars, pipeVars
<1>1. ASSUME UNCHANGED <<loop, broker, sock, rcvd, eof>>, quit => quit' PROVE Stages'
  BY <1>1, StageKept DEF Stages
<1>2. ASSUME NEW e \in Ends, EndSends(e) \/ EndShutsDown(e) \/ EndGoes(e) \/ BrokerReads(e)
      PROVE  Stages'
  BY <1>1, <1>2 DEF EndSends, EndShutsDown, EndGoes, BrokerReads
<1>3. CASE RunStops \/ Close \/ UNCHANGED vars
  BY <1>1, <1>3 DEF RunStops, Close, vars
<1>4. ASSUME NEW e \in Ends, BrokerWrites(e) PROVE Stages'
  <2>1. \A f \in Ends : f # e => rcvd'[f] = rcvd[f]
    BY <1>4 DEF BrokerWrites, TypeOK
  <2> QED
    BY <1>4, <2>1, StagesBroker DEF BrokerWrites
<1>5. ASSUME NEW e \in Ends, CopyEnds(e) \/ CopyFails(e) \/ BrokerCloses(e) PROVE Stages'
  <2>1. /\ broker[e] \in {"copy", "close"} /\ UNCHANGED <<loop, sock, quit, rcvd>>
        /\ eof \subseteq eof' /\ eof' \subseteq eof \cup {e}
    BY <1>5 DEF CopyEnds, CopyFails, BrokerCloses
  <2>2. broker'[e] # "none" /\ \A f \in Ends : f # e => broker'[f] = broker[f]
    BY <1>5 DEF CopyEnds, CopyFails, BrokerCloses, TypeOK
  <2> QED
    BY <2>1, <2>2, StagesBroker
<1>6. ASSUME NEW c \in Conns, StageOK(c)', quit => quit',
             \A d \in Conns \ {c} : loop'[d] = loop[d],
             \A f \in Ends : f[1] # c => /\ broker'[f] = broker[f] /\ sock'[f] = sock[f]
                                         /\ rcvd'[f] = rcvd[f] /\ (f \in eof' <=> f \in eof)
      PROVE  Stages'
  <2> SUFFICES ASSUME NEW d \in Conns, d # c PROVE StageOK(d)'
    BY <1>6 DEF Stages
  <2>1. \A s \in Sides : <<d, s>> \in Ends /\ <<d, s>>[1] # c
    BY SideIsEnd
  <2>2. StageOK(d)
    BY DEF Stages
  <2> QED
    BY <1>6, <2>1, <2>2, StageKept
<1>7. ASSUME NEW c \in Conns
      PROVE  /\ <<c, "client">> \in Ends /\ <<c, "backend">> \in Ends
             /\ <<c, "client">>[1] = c /\ <<c, "backend">>[1] = c
             /\ <<c, "client">> # <<c, "backend">> /\ StageOK(c)
  BY SideIsEnd DEF Sides, Stages
<1>8. ASSUME NEW c \in Conns, Accept(c) PROVE Stages'
  <2>1. /\ \A d \in Conns \ {c} : loop'[d] = loop[d]
        /\ \A f \in Ends : f[1] # c => sock'[f] = sock[f]
    BY <1>7, <1>8 DEF Accept, TypeOK
  <2>2. loop'[c] = "dial" /\ sock'[<<c, "client">>] = "open"
        /\ sock'[<<c, "backend">>] = sock[<<c, "backend">>]
    BY <1>7, <1>8 DEF Accept, TypeOK
  <2>3. StageOK(c)'
    BY <1>7, <1>8, <2>2 DEF Accept, StageOK, BeforeDial, AfterDial, Leaves
  <2> QED
    BY <1>6, <1>8, <2>1, <2>3 DEF Accept
<1>9. ASSUME NEW c \in Conns, DialSucceeds(c) PROVE Stages'
  <2>1. /\ \A d \in Conns \ {c} : loop'[d] = loop[d]
        /\ \A f \in Ends : f[1] # c => sock'[f] = sock[f] /\ broker'[f] = broker[f]
    BY <1>7, <1>9 DEF DialSucceeds, TypeOK
  <2>2. /\ loop'[c] = "select" /\ \A s \in Sides : sock'[<<c, s>>] = "open"
        /\ \A s \in Sides : broker'[<<c, s>>] = "copy"
    <3>1. loop'[c] = "select" /\ sock'[<<c, "client">>] = "open" /\ sock'[<<c, "backend">>] = "open"
      BY <1>7, <1>9 DEF DialSucceeds, TypeOK, StageOK, BeforeDial
    <3>2. \A s \in Sides : broker'[<<c, s>>] = "copy"
      BY <1>9, SideIsEnd DEF DialSucceeds
    <3> QED
      BY <3>1, <3>2 DEF Sides
  <2>3. StageOK(c)'
    BY <2>2 DEF StageOK, BeforeDial, AfterDial, Leaves
  <2> QED
    BY <1>6, <1>9, <2>1, <2>3 DEF DialSucceeds
<1>10. ASSUME NEW c \in Conns, DialFails(c) PROVE Stages'
  <2>1. /\ \A d \in Conns \ {c} : loop'[d] = loop[d]
        /\ \A f \in Ends : f[1] # c => sock'[f] = sock[f]
    BY <1>7, <1>10 DEF DialFails, TypeOK
  <2>2. loop'[c] = "done" /\ sock'[<<c, "client">>] = "closed"
        /\ sock'[<<c, "backend">>] = sock[<<c, "backend">>]
    BY <1>7, <1>10 DEF DialFails, TypeOK
  <2>3. \A f \in Ends : f \in eof' <=> f \in eof \/ f[1] = c
    <3>1. eof' = eof \cup {<<c, s>> : s \in Sides}
      BY <1>10 DEF DialFails
    <3>2. \A f \in Ends : f[1] = c <=> f \in {<<c, s>> : s \in Sides}
      BY DEF Ends
    <3> QED
      BY <3>1, <3>2
  <2>4. /\ sock'[<<c, "backend">>] = "none" /\ \A s \in Sides : broker'[<<c, s>>] = "none"
        /\ \A s \in Sides : <<c, s>> \in eof'
    BY <1>7, <1>10, <2>2, <2>3, SideIsEnd DEF DialFails, StageOK, BeforeDial
  <2>5. BeforeDial(c)' /\ Leaves(c)'
    BY <2>2, <2>4 DEF BeforeDial, Leaves
  <2>6. AfterDial(c)'
    BY <2>2, <2>4 DEF AfterDial, Sides
  <2> QED
    BY <1>6, <1>10, <2>1, <2>3, <2>5, <2>6 DEF DialFails, StageOK
<1>11. ASSUME NEW c \in Conns, Select(c) PROVE Stages'
  <2>1. loop'[c] = "client.Close" /\ \A d \in Conns \ {c} : loop'[d] = loop[d]
    BY <1>11 DEF Select, TypeOK
  <2>2. StageOK(c)'
    BY <1>7, <1>11, <2>1 DEF Select, StageOK, BeforeDial, AfterDial, Leaves, Finished
  <2> QED
    BY <1>6, <1>11, <2>1, <2>2 DEF Select
<1>12. ASSUME NEW c \in Conns, CloseClient(c) PROVE Stages'
  <2>1. /\ loop'[c] = "backend.Close" /\ \A d \in Conns \ {c} : loop'[d] = loop[d]
        /\ \A f \in Ends : f # <<c, "client">> => sock'[f] = sock[f] /\ (f \in eof' <=> f \in eof)
        /\ sock'[<<c, "client">>] = "closed" /\ <<c, "client">> \in eof'
    BY <1>7, <1>12 DEF CloseClient, CloseSide, TypeOK
  <2>2. loop[c] = "client.Close" /\ UNCHANGED <<quit, broker, rcvd>>
    BY <1>12 DEF CloseClient, CloseSide
  <2>3. BeforeDial(c)' /\ Leaves(c)'
    BY <1>7, <2>1, <2>2 DEF StageOK, BeforeDial, Leaves, Finished
  <2>4. AfterDial(c)'
    BY <1>7, <2>1, <2>2 DEF StageOK, AfterDial, Sides
  <2> QED
    BY <1>6, <1>7, <2>1, <2>2, <2>3, <2>4 DEF StageOK
<1>13. ASSUME NEW c \in Conns, CloseBackend(c) PROVE Stages'
  <2>1. /\ loop'[c] = "join" /\ \A d \in Conns \ {c} : loop'[d] = loop[d]
        /\ \A f \in Ends : f # <<c, "backend">> => sock'[f] = sock[f] /\ (f \in eof' <=> f \in eof)
        /\ sock'[<<c, "backend">>] = "closed" /\ <<c, "backend">> \in eof'
    BY <1>7, <1>13 DEF CloseBackend, CloseSide, TypeOK
  <2>2. loop[c] = "backend.Close" /\ UNCHANGED <<quit, broker, rcvd>>
    BY <1>13 DEF CloseBackend, CloseSide
  <2>3. BeforeDial(c)' /\ Leaves(c)'
    BY <1>7, <2>1, <2>2 DEF StageOK, BeforeDial, Leaves, Finished
  <2>4. AfterDial(c)'
    BY <1>7, <2>1, <2>2 DEF StageOK, AfterDial, Sides
  <2> QED
    BY <1>6, <1>7, <2>1, <2>2, <2>3, <2>4 DEF StageOK
<1>14. ASSUME NEW c \in Conns, Join(c) PROVE Stages'
  <2>1. loop'[c] = "done" /\ \A d \in Conns \ {c} : loop'[d] = loop[d]
    BY <1>14 DEF Join, TypeOK
  <2>2. StageOK(c)'
    BY <1>7, <1>14, <2>1 DEF Join, StageOK, BeforeDial, AfterDial, Leaves, Finished
  <2> QED
    BY <1>6, <1>14, <2>1, <2>2 DEF Join
<1> QED
  BY <1>2, <1>3, <1>4, <1>5, <1>8, <1>9, <1>10, <1>11, <1>12, <1>13, <1>14
     DEF Next, BrokerStep, LoopStep

-----------------------------------------------------------------------------
(* Pipes                                                                   *)

\* A broker still copies when a socket of its connection is closed only because of quit.
LEMMA ClosedByQuit ==
    ASSUME TypeOK, Stages, NEW e \in Ends, NEW f \in Ends, f[1] = e[1],
           broker[e] \in {"copy", "close"}, sock[f] # "open"
    PROVE  quit
<1>1. /\ e[1] \in Conns /\ e[2] \in Sides /\ e = <<e[1], e[2]>>
      /\ f[2] \in Sides /\ f = <<e[1], f[2]>>
  BY EndParts
<1>2. StageOK(e[1])
  BY <1>1 DEF Stages
<1>3. loop[e[1]] \notin {"select", "client.Close"}
  BY <1>1, <1>2 DEF StageOK, AfterDial
<1>4. ~Finished(e[1])
  BY <1>1 DEF Finished
<1> QED
  BY <1>2, <1>3, <1>4, BrokerHasLoop DEF StageOK, Leaves

\* A pipe that a step does not touch stays as it is: what is cut stays cut, and an end
\* that has ended sends no more.
LEMMA PipeKept ==
    ASSUME NEW f \in Ends, PipeOK(f), broker'[f] = broker[f], rcvd'[f] = rcvd[f],
           sock'[f] = sock[f], f \in eof' <=> f \in eof, quit => quit', gone \subseteq gone',
           ended \subseteq ended', Other(f) \in ended => sent'[Other(f)] = sent[Other(f)]
    PROVE  PipeOK(f)'
<1>1. Cut(f) => Cut(f)'
  BY DEF Cut
<1>2. Emptied(f) => Emptied(f)'
  BY DEF Emptied
<1> QED
  BY <1>1, <1>2 DEF PipeOK

\* Every step keeps the pipes.
LEMMA PipesStep == TypeOK /\ Stages /\ Pipes /\ [Next]_vars => Pipes'
<1> SUFFICES ASSUME TypeOK, Stages, Pipes, [Next]_vars, NEW f \in Ends PROVE PipeOK(f)'
  BY DEF Pipes
<1> USE DEF proxyVars, endVars, pipeVars
<1>0. PipeOK(f) /\ Other(f) \in Ends
  BY OtherEnd DEF Pipes
<1>1. ASSUME NEW e \in Ends, EndSends(e) PROVE PipeOK(f)'
  BY <1>0, <1>1, PipeKept DEF EndSends, TypeOK
<1>2. ASSUME NEW e \in Ends, EndShutsDown(e) \/ EndGoes(e) \/ BrokerReads(e) PROVE PipeOK(f)'
  BY <1>0, <1>2, PipeKept DEF EndShutsDown, EndGoes, BrokerReads
<1>3. CASE RunStops \/ Close \/ UNCHANGED vars
  BY <1>0, <1>3, PipeKept DEF RunStops, Close, vars
<1>4. ASSUME NEW e \in Ends, BrokerWrites(e) PROVE PipeOK(f)'
  <2>1. CASE f # e
    BY <1>0, <1>4, <2>1, PipeKept DEF BrokerWrites, TypeOK
  <2>2. CASE f = e
    BY <1>0, <1>4, <2>2 DEF BrokerWrites, PipeOK
  <2> QED
    BY <2>1, <2>2
<1>5. ASSUME NEW e \in Ends, CopyEnds(e) \/ CopyFails(e) \/ BrokerCloses(e), f # e
      PROVE  PipeOK(f)'
  <2>1. broker'[f] = broker[f] /\ (f \in eof' <=> f \in eof)
    BY <1>5 DEF CopyEnds, CopyFails, BrokerCloses, TypeOK
  <2> QED
    BY <1>0, <1>5, <2>1, PipeKept DEF CopyEnds, CopyFails, BrokerCloses
<1>6. ASSUME CopyEnds(f) \/ CopyFails(f) PROVE PipeOK(f)'
  <2>1. /\ broker[f] = "copy" /\ broker'[f] = "close"
        /\ UNCHANGED <<quit, sock, eof, sent, ended, gone, rcvd>>
    BY <1>6 DEF CopyEnds, CopyFails, TypeOK
  <2>2. Cut(f) \/ Emptied(f)
    <3>1. CASE Other(f) \in ended /\ read[f] = sent[Other(f)] /\ read[f] = rcvd[f]
      BY <3>1 DEF Emptied
    <3>2. ASSUME NEW g \in Ends, g[1] = f[1], ~Usable(g) PROVE Cut(f)
      <4>1. CASE g \in gone
        BY <3>2, <4>1, EndParts DEF Cut
      <4>2. CASE sock[g] # "open"
        BY <2>1, <3>2, <4>2, ClosedByQuit DEF Cut
      <4> QED
        BY <3>2, <4>1, <4>2 DEF Usable
    <3> QED
      BY <1>6, <3>1, <3>2, OtherEnd DEF CopyEnds, CopyFails
  <2>3. Cut(f)' = Cut(f) /\ Emptied(f)' = Emptied(f)
    BY <2>1 DEF Cut, Emptied
  <2> QED
    BY <1>0, <2>1, <2>2, <2>3 DEF PipeOK
<1>7. ASSUME BrokerCloses(f) PROVE PipeOK(f)'
  <2>1. /\ broker[f] = "close" /\ broker'[f] = "done" /\ f \in eof'
        /\ UNCHANGED <<quit, sent, ended, gone, rcvd>>
    BY <1>7 DEF BrokerCloses, TypeOK
  <2>2. Cut(f)' = Cut(f) /\ Emptied(f)' = Emptied(f)
    BY <2>1 DEF Cut, Emptied
  <2> QED
    BY <1>0, <2>1, <2>2 DEF PipeOK
<1>8. ASSUME NEW c \in Conns, f[1] # c, Accept(c) \/ LoopStep(c) PROVE PipeOK(f)'
  <2>1. /\ broker'[f] = broker[f] /\ sock'[f] = sock[f]
        /\ UNCHANGED <<quit, sent, ended, gone, rcvd>>
    BY <1>8, SideIsEnd DEF Accept, LoopStep, DialSucceeds, DialFails, Select, CloseClient,
       CloseBackend, CloseSide, Join, TypeOK, Sides
  <2>2. f \in eof' <=> f \in eof
    BY <1>8 DEF Accept, LoopStep, DialSucceeds, DialFails, Select, CloseClient,
       CloseBackend, CloseSide, Join
  <2> QED
    BY <1>0, <2>1, <2>2, PipeKept
<1>9. ASSUME Accept(f[1]) \/ DialSucceeds(f[1]) \/ DialFails(f[1]) PROVE PipeOK(f)'
  <2>1. f[1] \in Conns /\ f[2] \in Sides /\ f = <<f[1], f[2]>> /\ <<f[1], "client">> \in Ends
    BY EndParts, SideIsEnd DEF Sides
  <2>2. /\ BeforeDial(f[1]) /\ loop[f[1]] \in {"none", "dial"}
    BY <1>9, <2>1 DEF Stages, StageOK, Accept, DialSucceeds, DialFails
  <2>3. broker[f] = "none" /\ f \notin eof
    BY <2>1, <2>2 DEF BeforeDial
  <2>4. broker'[f] \in {"none", "copy"}
    BY <1>9, <2>3 DEF Accept, DialSucceeds, DialFails
  <2>5. CASE DialFails(f[1])
    <3>1. f[2] = "client" => sock'[f] = "closed"
      BY <2>1, <2>5 DEF DialFails, TypeOK
    <3>2. f[2] = "backend" => sock'[f] # "open"
      BY <2>1, <2>2, <2>5 DEF DialFails, TypeOK, BeforeDial
    <3> QED
      BY <2>1, <2>4, <3>1, <3>2 DEF PipeOK, Sides
  <2>6. CASE Accept(f[1]) \/ DialSucceeds(f[1])
    BY <2>3, <2>4, <2>6 DEF PipeOK, Accept, DialSucceeds
  <2> QED
    BY <1>9, <2>5, <2>6
<1>10. ASSUME Select(f[1]) \/ Join(f[1]) PROVE PipeOK(f)'
  BY <1>0, <1>10, PipeKept DEF Select, Join
<1>11. ASSUME NEW s \in Sides, NEW then, CloseSide(f[1], s, then) PROVE PipeOK(f)'
  <2>1. <<f[1], s>> \in Ends
    BY EndParts, SideIsEnd
  <2>2. CASE f = <<f[1], s>>
    <3>1. sock'[f] = "closed" /\ UNCHANGED <<quit, sent, ended, gone, rcvd, broker>> /\ f \in eof'
      BY <1>11, <2>2 DEF CloseSide, TypeOK
    <3>2. Cut(f)' = Cut(f) /\ Emptied(f)' = Emptied(f)
      BY <3>1 DEF Cut, Emptied
    <3> QED
      BY <1>0, <3>1, <3>2 DEF PipeOK
  <2>3. CASE f # <<f[1], s>>
    BY <1>0, <1>11, <2>1, <2>3, PipeKept DEF CloseSide, TypeOK
  <2> QED
    BY <2>2, <2>3
<1>12. ASSUME NEW c \in Conns, Accept(c) \/ LoopStep(c) PROVE PipeOK(f)'
  <2>1. CASE f[1] # c
    BY <1>8, <1>12, <2>1
  <2>2. CASE f[1] = c
    BY <1>9, <1>10, <1>11, <1>12, <2>2 DEF LoopStep, CloseClient, CloseBackend, Sides
  <2> QED
    BY <2>1, <2>2
<1> QED
  BY <1>1, <1>2, <1>3, <1>4, <1>5, <1>6, <1>7, <1>12 DEF Next, BrokerStep

-----------------------------------------------------------------------------
(* Theorems                                                                *)

\* The initial state has the invariant.
LEMMA InitIInv == Init => IInv
<1> SUFFICES ASSUME Init PROVE IInv
  OBVIOUS
<1>1. RunQuits
  BY DEF Init, RunQuits
<1>2. ASSUME NEW c \in Conns PROVE StageOK(c)
  BY SideIsEnd DEF Init, StageOK, BeforeDial, AfterDial, Leaves, Sides
<1>3. Pipes
  BY DEF Init, Pipes, PipeOK
<1> QED
  BY <1>1, <1>2, <1>3, InitType DEF IInv, Stages

\* Every step keeps the invariant.
LEMMA StepIInv == IInv /\ [Next]_vars => IInv'
<1>1. RunStops \/ ((quit <=> quit') /\ run' = run) => (RunQuits => RunQuits')
  BY DEF RunQuits, RunStops
<1>2. [Next]_vars => RunStops \/ ((quit <=> quit') /\ run' = run)
  <2> SUFFICES ASSUME [Next]_vars, ~RunStops PROVE UNCHANGED <<quit, run>>
    OBVIOUS
  <2> USE DEF proxyVars
  <2>1. ASSUME NEW e \in Ends, EndSends(e) \/ EndShutsDown(e) \/ EndGoes(e) \/ BrokerStep(e)
        PROVE  UNCHANGED <<quit, run>>
    BY <2>1 DEF EndSends, EndShutsDown, EndGoes, BrokerStep, BrokerReads, BrokerWrites,
       CopyEnds, CopyFails, BrokerCloses
  <2>2. ASSUME NEW c \in Conns, Accept(c) \/ LoopStep(c) PROVE UNCHANGED <<quit, run>>
    BY <2>2 DEF Accept, LoopStep, DialSucceeds, DialFails, Select, CloseClient, CloseBackend,
       CloseSide, Join
  <2> QED
    BY <2>1, <2>2 DEF Next, Close, vars
<1> QED
  BY <1>1, <1>2, TypeStep, StagesStep, PipesStep DEF IInv

\* The invariant holds in every state of every behaviour.
THEOREM Inductive == Spec => []IInv
BY InitIInv, StepIInv, PTL DEF Spec

\* Every variable keeps its type, nothing is passed on that was not sent, and a broker
\* always has its two sockets.
THEOREM TypeCorrect == Spec => []TypeOK
<1>1. IInv => TypeOK
  BY DEF IInv
<1> QED
  BY <1>1, Inductive, PTL

\* A clientLoop that has returned leaves no socket open and no broker running, whichever
\* way it returned.
THEOREM NothingEverLeaks == Spec => []NothingLeaks
<1>1. IInv => NothingLeaks
  BY DEF IInv, Stages, StageOK, AfterDial, Leaves, Finished, NothingLeaks
<1> QED
  BY <1>1, Inductive, PTL

\* The proxy ends towards an end only after everything the other one has sent, unless the
\* connection is broken: a half-closed connection keeps its other direction.
THEOREM EndsAlwaysComeLast == Spec => []EndComesLast
<1>1. ASSUME IInv PROVE EndComesLast
  <2> SUFFICES ASSUME NEW e \in eof, ~Broken(e[1]) PROVE Emptied(e)
    BY DEF EndComesLast, Emptied
  <2>1. /\ TypeOK /\ Stages /\ e \in Ends /\ PipeOK(e) /\ e[1] \in Conns
    BY <1>1, EndParts DEF IInv, TypeOK, Pipes
  <2>2. StageOK(e[1]) /\ e[2] \in Sides /\ e = <<e[1], e[2]>>
    BY <2>1, EndParts DEF Stages
  <2>3. ~Cut(e) /\ ~quit /\ sock[<<e[1], "backend">>] # "none"
    BY DEF Broken, Cut
  <2>4. broker[e] = "done"
    <3> SUFFICES ASSUME broker[e] # "done" PROVE FALSE
      OBVIOUS
    <3>1. sock[e] # "open" /\ ~Finished(e[1])
      BY <2>1, <2>2 DEF PipeOK, Finished
    <3>2. loop[e[1]] \notin {"none", "dial", "select", "client.Close"}
      BY <2>2, <3>1 DEF StageOK, BeforeDial, AfterDial
    <3> QED
      BY <2>1, <2>2, <2>3, <3>1, <3>2 DEF StageOK, Leaves, TypeOK
  <2> QED
    BY <2>1, <2>3, <2>4 DEF PipeOK
<1> QED
  BY <1>1, Inductive, PTL
-----------------------------------------------------------------------------
(* The refinement of Proxy, but for its fairness                           *)

\* Proxy's opposite end is the one the code's brokers read from.
LEMMA OppositeIsOther == \A e \in Ends : Forwards!Opposite(e) = Other(e)
BY OtherEnd DEF Forwards!Opposite, Forwards!Ends, Ends

\* What Proxy sees of a connection when clientLoop is at a given point.
LEMMA StateOf ==
    ASSUME NEW c \in Conns
    PROVE  /\ loop[c] = "none" => ConnState(c) = "none"
           /\ loop[c] \in {"join", "done"} => ConnState(c) = "closed"
           /\ loop[c] \in {"dial", "select", "client.Close", "backend.Close"} =>
                  ConnState(c) = "open"
BY DEF ConnState

\* The same of the next state.
LEMMA NextStateOf ==
    ASSUME NEW c \in Conns
    PROVE  /\ loop'[c] = "none" => ConnState(c)' = "none"
           /\ loop'[c] \in {"join", "done"} => ConnState(c)' = "closed"
           /\ loop'[c] \in {"dial", "select", "client.Close", "backend.Close"} =>
                  ConnState(c)' = "open"
BY DEF ConnState

\* Every step is one of Proxy or changes nothing that Proxy sees.
LEMMA ForwardsStep == IInv /\ [Next]_vars => [Forwards!Next]_(Forwards!vars)
<1> DEFINE St == [c \in Conns |-> ConnState(c)]
<1> SUFFICES ASSUME IInv, [Next]_vars PROVE Forwards!Next \/ UNCHANGED Forwards!vars
  OBVIOUS
<1> USE DEF proxyVars, endVars, pipeVars
<1>0. TypeOK /\ RunQuits /\ Stages /\ Pipes
  BY DEF IInv
<1>a. UNCHANGED loop => St' = St
  BY DEF ConnState
<1>b. ASSUME UNCHANGED <<loop, quit, sent, ended, gone, rcvd, eof>> PROVE UNCHANGED Forwards!vars
  BY <1>a, <1>b DEF Forwards!vars
<1>1. ASSUME NEW e \in Ends, EndSends(e) PROVE Forwards!Send(e)
  BY <1>a, <1>1 DEF EndSends, Forwards!Send
<1>2. ASSUME NEW e \in Ends, EndShutsDown(e) PROVE Forwards!End(e)
  BY <1>a, <1>2 DEF EndShutsDown, Forwards!End
<1>3. ASSUME NEW e \in Ends, EndGoes(e) PROVE Forwards!Leave(e)
  BY <1>a, <1>3 DEF EndGoes, Forwards!Leave
<1>4. ASSUME RunStops PROVE Forwards!Stop
  BY <1>0, <1>a, <1>4 DEF RunStops, RunQuits, Forwards!Stop
<1>5. CASE Close \/ UNCHANGED vars
  BY <1>b, <1>5 DEF Close, vars
<1>6. ASSUME NEW e \in Ends, BrokerReads(e) \/ CopyEnds(e) \/ CopyFails(e)
      PROVE  UNCHANGED Forwards!vars
  BY <1>b, <1>6 DEF BrokerReads, CopyEnds, CopyFails
<1>c. ASSUME NEW e \in Ends, broker[e] \in {"copy", "close"}, loop[e[1]] # "join"
      PROVE  e[1] \in Conns /\ St[e[1]] = "open"
  BY <1>0, <1>c, EndParts, StateOf, BrokerHasLoop
<1>d. ASSUME NEW e \in Ends PROVE e[1] \in Conns /\ StageOK(e[1]) /\ PipeOK(e)
                                  /\ e[2] \in Sides /\ e = <<e[1], e[2]>>
  BY <1>0, EndParts DEF Stages, Pipes
<1>7. ASSUME NEW e \in Ends, BrokerWrites(e) PROVE Forwards!Deliver(e)
  <2>1. loop[e[1]] # "join" /\ e \notin eof
    BY <1>7, <1>d DEF BrokerWrites, StageOK, AfterDial, PipeOK
  <2>2. St[e[1]] = "open"
    BY <1>7, <1>c, <2>1 DEF BrokerWrites
  <2>3. PICK n \in rcvd[e] + 1 .. read[e] : rcvd' = [rcvd EXCEPT ![e] = n]
    BY <1>7 DEF BrokerWrites
  <2>4. n \in rcvd[e] + 1 .. sent[Other(e)]
    BY <1>0, <2>3, OtherEnd DEF TypeOK
  <2>5. UNCHANGED <<St, quit, sent, ended, gone, eof>>
    BY <1>a, <1>7 DEF BrokerWrites
  <2> QED
    BY <2>1, <2>2, <2>3, <2>4, <2>5, OppositeIsOther DEF Forwards!Deliver
<1>e. ASSUME NEW e \in Ends, loop[e[1]] # "join" \/ e \notin eof, St[e[1]] = "open",
             Cut(e) \/ Emptied(e) \/ e \in eof, eof' = eof \cup {e},
             UNCHANGED <<St, quit, sent, ended, gone, rcvd>>
      PROVE  Forwards!DeliverEnd(e) \/ UNCHANGED Forwards!vars
  <2>1. CASE e \in eof
    BY <1>e, <2>1 DEF Forwards!vars
  <2>2. CASE e \notin eof
    BY <1>e, <2>2, OppositeIsOther
       DEF Forwards!DeliverEnd, Forwards!Drained, Forwards!Broken, Cut, Emptied
  <2> QED
    BY <2>1, <2>2
<1>8. ASSUME NEW e \in Ends, BrokerCloses(e)
      PROVE  Forwards!DeliverEnd(e) \/ UNCHANGED Forwards!vars
  <2>1. CASE e \in eof
    BY <1>b, <1>8, <2>1 DEF BrokerCloses
  <2>2. CASE e \notin eof
    <3>1. loop[e[1]] # "join"
      BY <1>d, <2>2 DEF StageOK, AfterDial
    <3>2. St[e[1]] = "open"
      BY <1>8, <1>c, <3>1 DEF BrokerCloses
    <3>3. Cut(e) \/ Emptied(e)
      BY <1>8, <1>d DEF BrokerCloses, PipeOK
    <3> QED
      BY <1>8, <1>a, <1>e, <2>2, <3>2, <3>3 DEF BrokerCloses
  <2> QED
    BY <2>1, <2>2
<1>f. ASSUME NEW c \in Conns, NEW to, loop' = [loop EXCEPT ![c] = to]
      PROVE  /\ loop'[c] = to
             /\ \A v : ConnState(c)' = v => St' = [St EXCEPT ![c] = v]
  <2>1. loop'[c] = to /\ \A d \in Conns \ {c} : loop'[d] = loop[d]
    BY <1>0, <1>f DEF TypeOK
  <2>2. \A d \in Conns \ {c} : ConnState(d)' = ConnState(d)
    BY <2>1 DEF ConnState
  <2> QED
    BY <2>1, <2>2
<1>g. ASSUME NEW c \in Conns, NEW to, loop' = [loop EXCEPT ![c] = to],
             ConnState(c)' = ConnState(c)
      PROVE  St' = St
  <2>1. St' = [St EXCEPT ![c] = ConnState(c)]
    BY <1>f, <1>g
  <2> QED
    BY <2>1
<1>9. ASSUME NEW c \in Conns, Accept(c) PROVE Forwards!Accept(c)
  <2>1. St[c] = "none" /\ ~quit
    BY <1>0, <1>9, StateOf DEF Accept, RunQuits
  <2>2. loop'[c] = "dial" /\ St' = [St EXCEPT ![c] = "open"]
    BY <1>9, <1>f, NextStateOf DEF Accept
  <2> QED
    BY <1>9, <2>1, <2>2 DEF Accept, Forwards!Accept
<1>10. ASSUME NEW c \in Conns, DialSucceeds(c) \/ Select(c) \/ Join(c)
       PROVE  UNCHANGED Forwards!vars
  <2>1. PICK to \in {"select", "client.Close", "done"} : loop' = [loop EXCEPT ![c] = to]
    BY <1>10 DEF DialSucceeds, Select, Join
  <2>2. loop'[c] = to
    BY <1>f, <2>1
  <2>3. ConnState(c)' = ConnState(c)
    BY <1>0, <1>10, <2>2, StateOf, NextStateOf DEF DialSucceeds, Select, Join, TypeOK
  <2>4. St' = St
    BY <1>g, <2>1, <2>3
  <2> QED
    BY <1>10, <2>4 DEF DialSucceeds, Select, Join, Forwards!vars
<1>11. ASSUME NEW c \in Conns, DialFails(c) PROVE Forwards!Refuse(c)
  <2>1. St[c] = "open" /\ \A s \in Sides : rcvd[<<c, s>>] = 0 /\ <<c, s>> \notin eof
    BY <1>0, <1>11, StateOf DEF DialFails, Stages, StageOK, BeforeDial
  <2>2. loop'[c] = "done" /\ St' = [St EXCEPT ![c] = "closed"]
    BY <1>11, <1>f, NextStateOf DEF DialFails
  <2> QED
    BY <1>11, <2>1, <2>2 DEF DialFails, Forwards!Refuse
<1>12. ASSUME NEW c \in Conns, CloseClient(c)
       PROVE  Forwards!DeliverEnd(<<c, "client">>) \/ UNCHANGED Forwards!vars
  <2> DEFINE e == <<c, "client">>
  <2>1. e \in Ends /\ e[1] = c /\ "client" \in Sides
    BY SideIsEnd DEF Sides
  <2>2. loop[c] = "client.Close" /\ loop' = [loop EXCEPT ![c] = "backend.Close"]
    BY <1>12 DEF CloseClient, CloseSide
  <2>3. St[c] = "open" /\ ConnState(c) = "open"
    BY <2>2, StateOf
  <2>4. ConnState(c)' = "open"
    BY <1>f, <2>2, NextStateOf
  <2>5. St' = St
    BY <1>g, <2>2, <2>3, <2>4
  <2>6. quit \/ broker[e] = "done"
    BY <1>0, <2>1, <2>2 DEF Stages, StageOK, Leaves, Finished
  <2>7. Cut(e) \/ e \in eof
    BY <1>d, <2>1, <2>6 DEF Cut, PipeOK
  <2>8. eof' = eof \cup {e} /\ UNCHANGED <<quit, sent, ended, gone, rcvd>>
    BY <1>12 DEF CloseClient, CloseSide
  <2> QED
    BY <1>e, <2>1, <2>2, <2>3, <2>5, <2>7, <2>8
<1>13. ASSUME NEW c \in Conns, CloseBackend(c) PROVE Forwards!Shut(c)
  <2>1. loop[c] = "backend.Close" /\ loop' = [loop EXCEPT ![c] = "join"]
    BY <1>13 DEF CloseBackend, CloseSide
  <2>2. St[c] = "open"
    BY <2>1, StateOf
  <2>3. St' = [St EXCEPT ![c] = "closed"]
    BY <1>f, <2>1, NextStateOf
  <2>4. StageOK(c) /\ <<c, "client">> \in eof
    BY <1>0, <2>1 DEF Stages, StageOK, AfterDial
  <2>5. quit \/ \A s \in Sides : <<c, s>> \in eof
    BY <1>d, <2>1, <2>4, SideIsEnd DEF StageOK, Leaves, Finished, PipeOK
  <2>6. eof' = eof \cup {<<c, s>> : s \in Sides}
    BY <1>13, <2>4 DEF CloseBackend, CloseSide, Sides
  <2>7. UNCHANGED <<quit, sent, ended, gone, rcvd>>
    BY <1>13 DEF CloseBackend, CloseSide
  <2> QED
    BY <2>2, <2>3, <2>5, <2>6, <2>7 DEF Forwards!Shut, Forwards!Broken
<1> QED
  BY <1>1, <1>2, <1>3, <1>4, <1>5, <1>6, <1>7, <1>8, <1>9, <1>10, <1>11, <1>12, <1>13, SideIsEnd
     DEF Next, BrokerStep, LoopStep, Forwards!Next, Forwards!Ends, Ends, Sides

\* Every behaviour of the forwarder is one of Proxy: bytes arrive in order, the end comes
\* last, and a connection is only cut when Run has stopped or an end has gone.  That what
\* Proxy promises to do is done (its fairness) is checked by TLC alone.
THEOREM ForwardsSafely == Spec => Forwards!Init /\ [][Forwards!Next]_(Forwards!vars)
<1>1. Init => Forwards!Init
  BY StateOf DEF Init, Forwards!Init, Forwards!Ends, Ends
<1> QED
  BY <1>1, Inductive, ForwardsStep, PTL DEF Spec
=============================================================================
