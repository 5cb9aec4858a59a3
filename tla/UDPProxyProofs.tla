-------------------------- MODULE UDPProxyProofs ---------------------------
(* Proofs about UDPProxy, for any clients, connections and number of       *)
(* datagrams.                                                              *)
EXTENDS UDPProxy, TLAPS

-----------------------------------------------------------------------------
(* Keys                                                                    *)

\* Two clients of one listener never share a key of the table: the two halves and the
\* port determine the address, whichever version of IP the listener speaks.
LEMMA KeysDistinct ==
    ASSUME NEW a \in Clients, NEW b \in Clients, newConnTrackKey(a) = newConnTrackKey(b)
    PROVE  a = b
<1>1. /\ a \in [len : {4, 16}, hi : Nat, lo : Nat, port : Nat]
      /\ b \in [len : {4, 16}, hi : Nat, lo : Nat, port : Nat]
      /\ a.len = b.len
      /\ a.len = 4 => a.hi = 0 /\ b.hi = 0
  BY UDPAssumption
<1>2. a.hi = b.hi /\ a.lo = b.lo /\ a.port = b.port
  BY <1>1, UDPAssumption DEF newConnTrackKey
<1> QED
  BY <1>1, <1>2

\* The key of a client is one of the table's.
LEMMA KeyOfClient ==
    ASSUME NEW c \in Clients
    PROVE  newConnTrackKey(c) \in Keys
BY DEF Keys

-----------------------------------------------------------------------------
(* The inductive invariant                                                 *)

\* A connection is unused exactly as long as it has no replyLoop, and while its
\* replyLoop keeps it in the table only Close may have closed it.
ConnsMatchLoops ==
    \A n \in Conns :
        /\ conn[n] = "unused" <=> reply[n] = "none"
        /\ Tracked(n) /\ close # "done" => conn[n] = "open"

\* Everything a connection carries belongs to the client it was dialled for.
ConnsHaveOneClient ==
    /\ \A e \in backlog \cup inbox : reply[e[1]] # "none" /\ clientAddr[e[1]] = e[2]
    /\ \A n \in Conns : reply[n] = "forward" => readBuf[n] = clientAddr[n]
    /\ run = "write" => reply[proxyConn] # "none" /\ clientAddr[proxyConn] = from

IInv == TypeOK /\ ConnsMatchLoops /\ TableMatchesLoops /\ ConnsHaveOneClient /\ RepliesGoHome

\* The invariant holds at the start.
LEMMA InitInv == Init => IInv
BY UDPAssumption
   DEF Init, IInv, TypeOK, ConnsMatchLoops, TableMatchesLoops, ConnsHaveOneClient,
       RepliesGoHome, Tracked

-----------------------------------------------------------------------------
(* Types                                                                   *)

\* What the table holds under a client's key is a connection or None.
LEMMA EntryType ==
    ASSUME TypeOK, NEW c \in Clients
    PROVE  connTrackTable[newConnTrackKey(c)] \in Conns \cup {None}
BY KeyOfClient DEF TypeOK

\* Every step keeps the types.
LEMMA TypeStep == TypeOK /\ [Next]_vars => TypeOK'
<1> SUFFICES ASSUME TypeOK, [Next]_vars PROVE TypeOK'
  OBVIOUS
<1> USE DEF TypeOK, sockets, loopVars, runVars, traffic
<1>1. ASSUME NEW c \in Clients, RunReads(c) PROVE TypeOK'
  BY <1>1, UDPAssumption DEF RunReads
<1>2. ASSUME RunStops PROVE TypeOK'
  BY <1>2 DEF RunStops
<1>3. ASSUME LookupHits PROVE TypeOK'
  <2>1. connTrackTable[newConnTrackKey(from)] \in Conns
    BY <1>3, EntryType DEF LookupHits
  <2> QED
    BY <1>3, <2>1 DEF LookupHits
<1>4. ASSUME NEW n \in Conns, LookupDials(n) PROVE TypeOK'
  <2>1. from \in Clients /\ newConnTrackKey(from) \in Keys
    BY <1>4, KeyOfClient DEF LookupDials
  <2> QED
    BY <1>4, <2>1 DEF LookupDials
<1>5. ASSUME LookupFails PROVE TypeOK'
  BY <1>5 DEF LookupFails
<1>6. ASSUME RunWrites PROVE TypeOK'
  BY <1>6 DEF RunWrites
<1>7. ASSUME NEW n \in Conns, NEW c \in Clients, ReplyReads(n, c) PROVE TypeOK'
  BY <1>7 DEF ReplyReads
<1>8. ASSUME NEW n \in Conns, NEW c \in Clients, BackendReplies(n, c) PROVE TypeOK'
  BY <1>8 DEF BackendReplies
<1>9. ASSUME NEW n \in Conns, ReplyEnds(n) PROVE TypeOK'
  BY <1>9 DEF ReplyEnds
<1>10. ASSUME NEW n \in Conns, ReplyForwards(n) PROVE TypeOK'
  BY <1>10 DEF ReplyForwards
<1>11. ASSUME NEW n \in Conns, ReplyDeletes(n) PROVE TypeOK'
  BY <1>11 DEF ReplyDeletes
<1>12. ASSUME NEW n \in Conns, ReplyCloses(n) PROVE TypeOK'
  BY <1>12 DEF ReplyCloses
<1>13. ASSUME CloseListener PROVE TypeOK'
  BY <1>13 DEF CloseListener
<1>14. ASSUME CloseConns PROVE TypeOK'
  BY <1>14 DEF CloseConns
<1>15. CASE UNCHANGED vars
  BY <1>15 DEF vars
<1> QED
  BY <1>1, <1>2, <1>3, <1>4, <1>5, <1>6, <1>7, <1>8, <1>9, <1>10, <1>11, <1>12, <1>13,
     <1>14, <1>15 DEF Next, RunStep, ReplyStep

-----------------------------------------------------------------------------
(* Connections and loops                                                   *)

\* A connection in the table has a loop, and it is the loop of the client it is listed
\* under.
LEMMA EntryIsTracked ==
    ASSUME TypeOK, TableMatchesLoops, NEW c \in Clients,
           connTrackTable[newConnTrackKey(c)] # None
    PROVE  LET n == connTrackTable[newConnTrackKey(c)]
           IN  n \in Conns /\ Tracked(n) /\ clientAddr[n] = c
<1> DEFINE n == connTrackTable[newConnTrackKey(c)]
<1>1. n \in Conns /\ newConnTrackKey(c) \in Keys
  BY EntryType, KeyOfClient
<1>2. Tracked(n) /\ newConnTrackKey(c) = newConnTrackKey(clientAddr[n])
  BY <1>1 DEF TableMatchesLoops
<1>3. clientAddr[n] \in Clients
  BY <1>1, <1>2 DEF TypeOK, Tracked
<1> QED
  BY <1>1, <1>2, <1>3, KeysDistinct

\* A tracked connection is the entry of its own client.
LEMMA TrackedIsEntry ==
    ASSUME TypeOK, TableMatchesLoops, NEW n \in Conns, Tracked(n)
    PROVE  /\ clientAddr[n] \in Clients
           /\ newConnTrackKey(clientAddr[n]) \in Keys
           /\ connTrackTable[newConnTrackKey(clientAddr[n])] = n
<1>1. clientAddr[n] \in Clients
  BY DEF TypeOK, Tracked
<1> QED
  BY <1>1, KeyOfClient DEF TableMatchesLoops

\* Only Close may close a connection that its replyLoop still tracks.
LEMMA ConnsStep == IInv /\ [Next]_vars => ConnsMatchLoops'
<1> SUFFICES ASSUME TypeOK, ConnsMatchLoops, TableMatchesLoops, [Next]_vars
             PROVE  ConnsMatchLoops'
  BY DEF IInv
<1> USE DEF ConnsMatchLoops, Tracked, sockets, loopVars, runVars, traffic
<1>1. ASSUME NEW n \in Conns, LookupDials(n) PROVE ConnsMatchLoops'
  BY <1>1 DEF LookupDials, TypeOK
<1>2. ASSUME NEW n \in Conns, NEW c \in Clients, ReplyReads(n, c) PROVE ConnsMatchLoops'
  BY <1>2 DEF ReplyReads, TypeOK
<1>3. ASSUME NEW n \in Conns, ReplyEnds(n) PROVE ConnsMatchLoops'
  BY <1>3 DEF ReplyEnds, TypeOK
<1>4. ASSUME NEW n \in Conns, ReplyForwards(n) PROVE ConnsMatchLoops'
  BY <1>4 DEF ReplyForwards, TypeOK
<1>5. ASSUME NEW n \in Conns, ReplyDeletes(n) PROVE ConnsMatchLoops'
  BY <1>5 DEF ReplyDeletes, TypeOK
<1>6. ASSUME NEW n \in Conns, ReplyCloses(n) PROVE ConnsMatchLoops'
  BY <1>6 DEF ReplyCloses, TypeOK
<1>7. ASSUME CloseListener PROVE ConnsMatchLoops'
  BY <1>7 DEF CloseListener
<1>8. ASSUME CloseConns PROVE ConnsMatchLoops'
  <2>1. ASSUME NEW n \in Conns, NEW k \in Keys, connTrackTable[k] = n
        PROVE  reply[n] # "none"
    BY <2>1 DEF TableMatchesLoops
  <2> QED
    BY <1>8, <2>1 DEF CloseConns, TypeOK
<1>9. CASE UNCHANGED <<conn, reply, close>>
  BY <1>9
<1> QED
  BY <1>1, <1>2, <1>3, <1>4, <1>5, <1>6, <1>7, <1>8, <1>9
     DEF Next, RunStep, ReplyStep, vars, RunReads, RunStops, LookupHits, LookupFails,
         RunWrites, BackendReplies

\* The table changes only with the loop it speaks of: an entry appears with its loop and
\* disappears in the loop's own delete.
LEMMA TableStep == IInv /\ [Next]_vars => TableMatchesLoops'
<1> SUFFICES ASSUME TypeOK, TypeOK', ConnsMatchLoops, TableMatchesLoops, [Next]_vars
             PROVE  TableMatchesLoops'
  BY TypeStep DEF IInv
<1> USE DEF sockets, loopVars, runVars, traffic
<1>1. ASSUME NEW n \in Conns, LookupDials(n) PROVE TableMatchesLoops'
  <2> DEFINE key == newConnTrackKey(from)
  <2>1. from \in Clients /\ key \in Keys /\ connTrackTable[key] = None
    BY <1>1, KeyOfClient DEF LookupDials, TypeOK
  <2>2. reply[n] = "none" /\ \A k \in Keys : connTrackTable[k] # n
    BY <1>1 DEF LookupDials, ConnsMatchLoops, TableMatchesLoops, Tracked
  <2>3. /\ connTrackTable' = [connTrackTable EXCEPT ![key] = n]
        /\ clientAddr' = [clientAddr EXCEPT ![n] = from]
        /\ reply' = [reply EXCEPT ![n] = "read"]
    BY <1>1 DEF LookupDials
  <2> SUFFICES ASSUME NEW m \in Conns, NEW k \in Keys
               PROVE  connTrackTable'[k] = m <=>
                          Tracked(m)' /\ k = newConnTrackKey(clientAddr'[m])
    BY DEF TableMatchesLoops, newConnTrackKey
  <2>4. CASE m = n
    BY <2>1, <2>2, <2>3, <2>4 DEF TypeOK, Tracked
  <2>5. CASE m # n
    <3>1. /\ Tracked(m)' <=> Tracked(m)
          /\ clientAddr'[m] = clientAddr[m]
      BY <2>3, <2>5 DEF Tracked, TypeOK
    <3>2. connTrackTable'[k] = m <=> connTrackTable[k] = m
      BY <2>1, <2>3, <2>5, UDPAssumption DEF TypeOK
    <3> QED
      BY <3>1, <3>2 DEF TableMatchesLoops
  <2> QED
    BY <2>4, <2>5
<1>2. ASSUME NEW n \in Conns, ReplyDeletes(n) PROVE TableMatchesLoops'
  <2> DEFINE key == newConnTrackKey(clientAddr[n])
  <2>1. Tracked(n) /\ key \in Keys /\ connTrackTable[key] = n
    BY <1>2, TrackedIsEntry DEF ReplyDeletes, Tracked
  <2>2. /\ connTrackTable' = [connTrackTable EXCEPT ![key] = None]
        /\ clientAddr' = clientAddr
        /\ reply' = [reply EXCEPT ![n] = "close"]
    BY <1>2 DEF ReplyDeletes
  <2> SUFFICES ASSUME NEW m \in Conns, NEW k \in Keys
               PROVE  connTrackTable'[k] = m <=>
                          Tracked(m)' /\ k = newConnTrackKey(clientAddr'[m])
    BY DEF TableMatchesLoops, newConnTrackKey
  <2>3. Tracked(m)' <=> m # n /\ Tracked(m)
    BY <2>2 DEF Tracked, TypeOK
  <2>4. connTrackTable'[k] = m <=> k # key /\ connTrackTable[k] = m
    BY <2>1, <2>2, UDPAssumption DEF TypeOK
  <2>5. connTrackTable[k] = m <=> Tracked(m) /\ k = newConnTrackKey(clientAddr[m])
    BY DEF TableMatchesLoops
  <2> QED
    BY <2>1, <2>2, <2>3, <2>4, <2>5
<1>3. ASSUME UNCHANGED <<connTrackTable, clientAddr>>,
             \A n \in Conns : Tracked(n)' <=> Tracked(n)
      PROVE  TableMatchesLoops'
  BY <1>3 DEF TableMatchesLoops, newConnTrackKey
<1>4. ASSUME NEW n \in Conns, NEW c \in Clients, ReplyReads(n, c)
      PROVE  TableMatchesLoops'
  BY <1>3, <1>4 DEF ReplyReads, Tracked, TypeOK
<1>5. ASSUME NEW n \in Conns, ReplyEnds(n) PROVE TableMatchesLoops'
  BY <1>3, <1>5 DEF ReplyEnds, Tracked, TypeOK
<1>6. ASSUME NEW n \in Conns, ReplyForwards(n) PROVE TableMatchesLoops'
  BY <1>3, <1>6 DEF ReplyForwards, Tracked, TypeOK
<1>7. ASSUME NEW n \in Conns, ReplyCloses(n) PROVE TableMatchesLoops'
  BY <1>3, <1>7 DEF ReplyCloses, Tracked, TypeOK
<1>8. CASE UNCHANGED <<connTrackTable, clientAddr, reply>>
  BY <1>3, <1>8 DEF Tracked
<1> QED
  BY <1>1, <1>2, <1>4, <1>5, <1>6, <1>7, <1>8
     DEF Next, RunStep, ReplyStep, vars, RunReads, RunStops, LookupHits, LookupFails,
         RunWrites, BackendReplies, CloseListener, CloseConns

-----------------------------------------------------------------------------
(* Whose datagrams a connection carries                                    *)

\* No step hands a connection to another client or puts a stranger's datagram on it:
\* the connection Run found under the lock is still its client's when Run writes.
LEMMA OwnerStep == IInv /\ [Next]_vars => ConnsHaveOneClient'
<1> SUFFICES ASSUME TypeOK, ConnsMatchLoops, TableMatchesLoops, ConnsHaveOneClient,
                    [Next]_vars
             PROVE  ConnsHaveOneClient'
  BY DEF IInv
<1> USE DEF ConnsHaveOneClient, sockets, loopVars, runVars, traffic
<1>1. ASSUME LookupHits PROVE ConnsHaveOneClient'
  <2>1. from \in Clients
    BY <1>1 DEF LookupHits, TypeOK
  <2>2. Tracked(proxyConn') /\ clientAddr[proxyConn'] = from
    BY <1>1, <2>1, EntryIsTracked DEF LookupHits
  <2> QED
    BY <1>1, <2>2 DEF LookupHits, Tracked
<1>2. ASSUME NEW n \in Conns, LookupDials(n) PROVE ConnsHaveOneClient'
  <2>1. reply[n] = "none"
    BY <1>2 DEF LookupDials, ConnsMatchLoops
  <2> QED
    BY <1>2, <2>1 DEF LookupDials, TypeOK
<1>3. ASSUME RunWrites PROVE ConnsHaveOneClient'
  BY <1>3 DEF RunWrites, TypeOK
<1>4. ASSUME NEW n \in Conns, NEW c \in Clients, ReplyReads(n, c)
      PROVE  ConnsHaveOneClient'
  BY <1>4 DEF ReplyReads, TypeOK
<1>5. ASSUME NEW n \in Conns, NEW c \in Clients, BackendReplies(n, c)
      PROVE  ConnsHaveOneClient'
  BY <1>5 DEF BackendReplies, TypeOK
<1>6. ASSUME NEW n \in Conns, ReplyEnds(n) PROVE ConnsHaveOneClient'
  BY <1>6 DEF ReplyEnds, TypeOK
<1>7. ASSUME NEW n \in Conns, ReplyForwards(n) PROVE ConnsHaveOneClient'
  BY <1>7 DEF ReplyForwards, TypeOK
<1>8. ASSUME NEW n \in Conns, ReplyDeletes(n) PROVE ConnsHaveOneClient'
  BY <1>8 DEF ReplyDeletes, TypeOK
<1>9. ASSUME NEW n \in Conns, ReplyCloses(n) PROVE ConnsHaveOneClient'
  BY <1>9 DEF ReplyCloses, TypeOK
<1>10. ASSUME NEW c \in Clients, RunReads(c) PROVE ConnsHaveOneClient'
  BY <1>10 DEF RunReads
<1>11. CASE UNCHANGED <<clientAddr, reply, readBuf, from, proxyConn, backlog, inbox>>
            /\ run' # "write"
  BY <1>11
<1>12. CASE UNCHANGED <<clientAddr, reply, readBuf, run, from, proxyConn, backlog, inbox>>
  BY <1>12
<1> QED
  BY <1>1, <1>2, <1>3, <1>4, <1>5, <1>6, <1>7, <1>8, <1>9, <1>10, <1>11, <1>12
     DEF Next, RunStep, ReplyStep, vars, RunStops, LookupFails, CloseListener, CloseConns

\* An answer is forwarded to the client of its connection, whose datagram it answers.
LEMMA HomeStep == IInv /\ [Next]_vars => RepliesGoHome'
<1> SUFFICES ASSUME ConnsHaveOneClient, RepliesGoHome, [Next]_vars
             PROVE  RepliesGoHome'
  BY DEF IInv
<1> USE DEF RepliesGoHome, sockets, loopVars, runVars, traffic
<1>1. ASSUME NEW n \in Conns, ReplyForwards(n) PROVE RepliesGoHome'
  BY <1>1 DEF ReplyForwards, ConnsHaveOneClient
<1>2. CASE UNCHANGED delivered
  BY <1>2
<1> QED
  BY <1>1, <1>2
     DEF Next, RunStep, ReplyStep, vars, RunReads, RunStops, LookupHits, LookupDials,
         LookupFails, RunWrites, BackendReplies, ReplyReads, ReplyEnds, ReplyDeletes,
         ReplyCloses, CloseListener, CloseConns

-----------------------------------------------------------------------------
(* Theorems                                                                *)

\* The invariant holds in every behaviour of the proxy.
LEMMA Invariant == Spec => []IInv
<1>1. IInv /\ [Next]_vars => IInv'
  BY TypeStep, ConnsStep, TableStep, OwnerStep, HomeStep DEF IInv
<1> QED
  BY InitInv, <1>1, PTL DEF Spec

\* Every variable of the proxy keeps its type, and Run and the reply loops always have
\* what their next statement uses.
THEOREM TypeCorrect == Spec => []TypeOK
<1>1. IInv => TypeOK
  BY DEF IInv
<1> QED
  BY Invariant, <1>1, PTL

\* connTrackTable and the running reply loops always agree, although loops start and
\* end on goroutines of their own (replyLoop's deferred function, Run's locked section).
THEOREM TableAlwaysMatchesLoops == Spec => []TableMatchesLoops
<1>1. IInv => TableMatchesLoops
  BY DEF IInv
<1> QED
  BY Invariant, <1>1, PTL

\* Run never finds a connection that its replyLoop has closed: until Close, every entry
\* of the table is open.
THEOREM EntriesAlwaysOpen == Spec => []EntriesOpen
<1>1. IInv => EntriesOpen
  <2> SUFFICES ASSUME IInv, close # "done", NEW k \in Keys, connTrackTable[k] # None
               PROVE  conn[connTrackTable[k]] = "open"
    BY DEF EntriesOpen
  <2>1. connTrackTable[k] \in Conns
    BY DEF IInv, TypeOK
  <2>2. Tracked(connTrackTable[k])
    BY <2>1 DEF IInv, TableMatchesLoops
  <2> QED
    BY <2>1, <2>2 DEF IInv, ConnsMatchLoops
<1> QED
  BY Invariant, <1>1, PTL

\* Whatever connections expire and are dialled again, no client ever receives an answer
\* meant for another.
THEOREM RepliesAlwaysGoHome == Spec => []RepliesGoHome
<1>1. IInv => RepliesGoHome
  BY DEF IInv
<1> QED
  BY Invariant, <1>1, PTL
=============================================================================
