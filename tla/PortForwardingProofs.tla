------------------------ MODULE PortForwardingProofs ------------------------
(* Type correctness of port forwarding, and the fate of dead entries, for  *)
(* any threads, interfaces, ports, events and failures.  For one call at a *)
(* time, and any interfaces, ports and events: that the table holds the    *)
(* forwarders that run and a Stop leaves none, and, if nothing but a Stop  *)
(* fails, that exactly the published ports are exposed.  And for any       *)
(* threads again: every step brings a call nearer its end.                 *)
EXTENDS PortForwarding, TLAPS

-----------------------------------------------------------------------------
(* What a call keeps on its stack stays a job.                             *)

Places == Nics \cup {Loopback} \cup Ports \cup Keys

\* The job of an idle thread is a job.
LEMMA NoJobTyped == NoJob \in Jobs
<1>1. NoJob.seen \in SUBSET Places
  BY DEF NoJob
<1>. QED BY <1>1, Zenon DEF NoJob, Jobs, Places

\* A job stays one, of the same call on the same forwarder, when a flag of it changes.
LEMMA FlagsTyped ==
    ASSUME NEW j \in Jobs, NEW b \in BOOLEAN
    PROVE  /\ [j EXCEPT !.stale = b] \in Jobs /\ [j EXCEPT !.alive = b] \in Jobs
           /\ [j EXCEPT !.current = b] \in Jobs /\ [j EXCEPT !.enabled = b] \in Jobs
  BY Zenon DEF Jobs

\* What a thread needs does not depend on the flags of its job.
LEMMA FlagsEquipped ==
    ASSUME NEW j \in Jobs, NEW b \in BOOLEAN, NEW l, Equipped(l, j)
    PROVE  /\ Equipped(l, [j EXCEPT !.stale = b]) /\ Equipped(l, [j EXCEPT !.alive = b])
           /\ Equipped(l, [j EXCEPT !.current = b]) /\ Equipped(l, [j EXCEPT !.enabled = b])
  BY Zenon DEF Jobs, Equipped

\* A job stays one when an enumerator passes an element.
LEMMA SeenTyped ==
    ASSUME NEW j \in Jobs, NEW x \in Places
    PROVE  [j EXCEPT !.seen = @ \cup {x}] \in Jobs
<1>1. j.seen \cup {x} \in SUBSET Places
  BY DEF Jobs, Places
<1>. QED BY <1>1, Zenon DEF Jobs, Places

\* A job stays one when its foreach goes on to an interface.
LEMMA NicTyped ==
    ASSUME NEW j \in Jobs, NEW n \in Nics \cup {Loopback}
    PROVE  OnNic(j, n) \in Jobs
<1>1. j.seen \cup {n} \in SUBSET Places /\ n \in Nics \cup {Loopback, None}
  BY DEF Jobs, Places
<1>. QED BY <1>1, Zenon DEF Jobs, Places, OnNic

\* A job stays one when its foreach goes on to a port.
LEMMA PortTyped ==
    ASSUME NEW j \in Jobs, NEW p \in Ports
    PROVE  OnPort(j, p) \in Jobs
<1>1. j.seen \cup {p} \in SUBSET Places /\ p \in Ports \cup {None}
  BY DEF Jobs, Places
<1>. QED BY <1>1, Zenon DEF Jobs, Places, OnPort

\* The job of a message is a job, and so are those that a click and a Stop begin.
LEMMA NewJobsTyped ==
    /\ \A m \in [open : BOOLEAN, port : Ports] : ForwardJob(m) \in Jobs
    /\ \A n \in Nics : [NoJob EXCEPT !.kind = "toggle", !.nic = n] \in Jobs
    /\ [NoJob EXCEPT !.kind = "stop"] \in Jobs
<1>1. ASSUME NEW m \in [open : BOOLEAN, port : Ports] PROVE ForwardJob(m) \in Jobs
  <2>1. (IF interfaces = {} THEN Nics ELSE {}) \in SUBSET Places
    BY DEF Places
  <2>2. m.open \in BOOLEAN /\ m.port \in Ports \cup {None}
    OBVIOUS
  <2>. QED BY <2>1, <2>2, NoJobTyped, Zenon DEF ForwardJob, Jobs, Places
<1>2. ASSUME NEW n \in Nics PROVE [NoJob EXCEPT !.kind = "toggle", !.nic = n] \in Jobs
  <2>1. n \in Nics \cup {Loopback, None}
    OBVIOUS
  <2>. QED BY <2>1, NoJobTyped, Zenon DEF Jobs
<1>3. [NoJob EXCEPT !.kind = "stop"] \in Jobs
  BY NoJobTyped, Zenon DEF Jobs
<1>. QED BY <1>1, <1>2, <1>3

-----------------------------------------------------------------------------
(* Threads move.                                                           *)

Typed(p, j) ==
    /\ p \in [Threads -> PCs] /\ j \in [Threads -> Jobs]
    /\ \A t \in Threads : Equipped(p[t], j[t])

\* A thread goes to a location with a job that has what is used there.
LEMMA CallMoves ==
    ASSUME Typed(pc, job), NEW t \in Threads, NEW j, Typed(pc, j), NEW l \in PCs,
           NEW r \in Jobs, Equipped(l, r),
           pc' = [pc EXCEPT ![t] = l], job' = [j EXCEPT ![t] = r]
    PROVE  Typed(pc', job')
  BY Zenon DEF Typed

\* A thread returns.
LEMMA CallReturns ==
    ASSUME Typed(pc, job), NEW t \in Threads, Return(t) PROVE Typed(pc', job')
<1>1. Equipped("idle", NoJob) /\ "idle" \in PCs
  BY DEF Equipped, NoJob, PCs
<1>. QED BY <1>1, NoJobTyped, CallMoves, Zenon DEF Return, Goto

\* A thread goes to a location and keeps its job.
LEMMA CallGoes ==
    ASSUME Typed(pc, job), NEW t \in Threads, NEW l \in PCs, Equipped(l, job[t]),
           Goto(t, l), UNCHANGED job
    PROVE  Typed(pc', job')
  BY Zenon DEF Goto, Typed

\* A thread changes its job where it is.
LEMMA CallStays ==
    ASSUME Typed(pc, job), NEW t \in Threads, NEW r \in Jobs, Equipped(pc[t], r),
           UNCHANGED pc, job' = [job EXCEPT ![t] = r]
    PROVE  Typed(pc', job')
  BY Zenon DEF Typed

\* Marking the enumerators of other threads changes nothing that they need.
LEMMA StaleKeeps ==
    ASSUME Typed(pc, job) PROVE Typed(pc, Stale(job)) /\ Typed(pc, StaleStop(job))
<1>1. \A u \in Threads : /\ job[u] \in Jobs /\ Equipped(pc[u], job[u])
                         /\ [job[u] EXCEPT !.stale = TRUE] \in Jobs
                         /\ Equipped(pc[u], [job[u] EXCEPT !.stale = TRUE])
  BY FlagsTyped, FlagsEquipped DEF Typed
<1>2. Typed(pc, Stale(job))
  BY <1>1 DEF Typed, Stale
<1>3. Typed(pc, StaleStop(job))
  BY <1>1 DEF Typed, StaleStop
<1>. QED BY <1>2, <1>3

-----------------------------------------------------------------------------
(* Type correctness                                                        *)

StateTyped ==
    /\ distro \in BOOLEAN /\ running \in BOOLEAN /\ dnsConfigurator \in BOOLEAN
    /\ published \subseteq Ports /\ ports \subseteq Ports
    /\ socket \in Seq([open : BOOLEAN, port : Ports])
    /\ portForwarders \in [Keys -> {"none", "live", "dead", "exited"}]
    /\ forwarders \subseteq Keys
    /\ interfaces \subseteq Nics /\ forwarded \subseteq Nics
    /\ events \in 0..MaxEvents /\ faultsLeft \in 0..MaxFaults

\* TypeOK is about the threads, and about everything else.
LEMMA TypeSplit == TypeOK <=> StateTyped /\ Typed(pc, job)
  BY Zenon DEF TypeOK, StateTyped, Typed

\* The same of the state after a step.
LEMMA TypeSplitNext == TypeOK' <=> StateTyped' /\ Typed(pc', job')
  BY Zenon DEF TypeOK, StateTyped, Typed

\* The initial states have their type.
LEMMA InitTypeOK == Init => TypeOK
<1>. SUFFICES ASSUME Init PROVE TypeOK
  OBVIOUS
<1>1. StateTyped
  <2>1. socket \in Seq([open : BOOLEAN, port : Ports])
    BY DEF Init
  <2>2. interfaces \subseteq Nics /\ forwarded \subseteq Nics
    BY DEF Init
  <2>3. portForwarders \in [Keys -> {"none", "live", "dead", "exited"}]
    BY DEF Init
  <2>4. events \in 0..MaxEvents /\ faultsLeft \in 0..MaxFaults
    BY PortAssumption DEF Init
  <2>5. distro \in BOOLEAN /\ running \in BOOLEAN /\ dnsConfigurator \in BOOLEAN
        /\ published \subseteq Ports /\ ports \subseteq Ports /\ forwarders \subseteq Keys
    BY DEF Init
  <2>. QED BY <2>1, <2>2, <2>3, <2>4, <2>5 DEF StateTyped
<1>2. Equipped("idle", NoJob) /\ "idle" \in PCs
  BY DEF Equipped, NoJob, PCs
<1>3. Typed(pc, job)
  BY <1>2, NoJobTyped, Zenon DEF Init, Typed
<1>. QED BY <1>1, <1>3, TypeSplit

\* The failures that are left stay within their bound.
LEMMA FaultsTyped ==
    ASSUME StateTyped, NoFault \/ \E f \in Faults : Fault(f)
    PROVE  faultsLeft' \in 0..MaxFaults
  BY PortAssumption DEF StateTyped, NoFault, Fault

\* The events stay within theirs.
LEMMA EventsTyped == ASSUME StateTyped, Event PROVE events' \in 0..MaxEvents
  BY PortAssumption DEF StateTyped, Event

\* A message is appended to messages.
LEMMA SendTyped ==
    ASSUME StateTyped, NEW o \in BOOLEAN, NEW p \in Ports, Send(o, p)
    PROVE  socket' \in Seq([open : BOOLEAN, port : Ports]) /\ faultsLeft' \in 0..MaxFaults
<1>. DEFINE M == [open : BOOLEAN, port : Ports]
            m == [open |-> o, port |-> p]
<1>1. m \in M /\ socket \in Seq(M)
  BY DEF StateTyped
<1>2. ASSUME socket' = Append(socket, m) PROVE socket' \in Seq(M)
  <2>. HIDE DEF m, M
  <2>. QED BY <1>1, <1>2
<1>3. ASSUME UNCHANGED socket PROVE socket' \in Seq(M)
  BY <1>1, <1>3, Zenon
<1>4. faultsLeft' \in 0..MaxFaults
  BY FaultsTyped DEF Send, Fault
<1>. QED BY <1>2, <1>3, <1>4 DEF Send

\* Containers change no thread.
LEMMA ContainersTypeOK ==
    ASSUME TypeOK, NEW p \in Ports, Publish(p) \/ Unpublish(p) PROVE TypeOK'
<1>. USE TypeSplit
<1>1. events' \in 0..MaxEvents
  BY EventsTyped DEF Publish, Unpublish
<1>2. socket' \in Seq([open : BOOLEAN, port : Ports]) /\ faultsLeft' \in 0..MaxFaults
  BY SendTyped DEF Publish, Unpublish
<1>3. published' \subseteq Ports
  BY DEF StateTyped, Publish, Unpublish
<1>4. StateTyped'
  BY <1>1, <1>2, <1>3 DEF StateTyped, Publish, Unpublish, table, choice
<1>5. Typed(pc', job')
  BY DEF Publish, Unpublish
<1>. QED BY <1>4, <1>5, TypeSplitNext

\* Every place a thread goes to is one.
LEMMA PCsTyped == \A l \in {"idle", "begin", "nics", "enter", "next", "look", "remove",
                            "start", "add", "config", "kill", "clear", "terminate"} : l \in PCs
  BY DEF PCs

\* ForwardPort takes the first message.
LEMMA ForwardTypeOK ==
    ASSUME TypeOK, NEW t \in Threads, ForwardPort(t) PROVE TypeOK'
<1>. USE TypeSplit
<1>. DEFINE m == Head(socket)
            j == IF ports' = ports THEN job ELSE Stale(job)
<1>1. m \in [open : BOOLEAN, port : Ports] /\ socket' \in Seq([open : BOOLEAN, port : Ports])
  <2>. DEFINE M == [open : BOOLEAN, port : Ports]
  <2>1. socket \in Seq(M) /\ socket # <<>> /\ socket' = Tail(socket)
    BY DEF StateTyped, ForwardPort
  <2>. HIDE DEF M
  <2>2. Head(socket) \in M /\ socket' \in Seq(M)
    BY <2>1
  <2>. QED BY <2>2 DEF M
<1>2. ports' \subseteq Ports
  <2>1. m.port \in Ports
    BY <1>1
  <2>2. ports' = ports \cup {m.port} \/ ports' = ports \ {m.port}
    BY DEF ForwardPort
  <2>. QED BY <2>1, <2>2 DEF StateTyped
<1>3. StateTyped'
  BY <1>1, <1>2 DEF StateTyped, ForwardPort, table, choice
<1>4. ForwardJob(m) \in Jobs
  BY <1>1, NewJobsTyped
<1>5. Equipped("nics", ForwardJob(m))
  <2>1. ForwardJob(m).kind = "forward" /\ ForwardJob(m).port = m.port
    BY DEF ForwardJob, NoJob
  <2>. QED BY <1>1, <2>1 DEF Equipped
<1>6. Typed(pc, j)
  BY StaleKeeps
<1>7. job' = [j EXCEPT ![t] = ForwardJob(m)] /\ pc' = [pc EXCEPT ![t] = "nics"]
  BY Zenon DEF ForwardPort, Goto
<1>8. Typed(pc', job')
  <2>. HIDE DEF j, m
  <2>. QED BY <1>4, <1>5, <1>6, <1>7, CallMoves, PCsTyped, Zenon
<1>. QED BY <1>3, <1>8, TypeSplitNext

\* The foreach of ForwardPort over the interfaces.
LEMMA NextNicTypeOK ==
    ASSUME TypeOK, NEW t \in Threads, NextNic(t) PROVE TypeOK'
<1>. USE TypeSplit
<1>1. StateTyped'
  BY Zenon DEF StateTyped, NextNic, external, table, choice
<1>2. /\ job[t] \in Jobs /\ job[t].kind = "forward" /\ job[t].port \in Ports
      /\ Equipped(pc[t], job[t]) /\ pc[t] = "nics"
  BY DEF Typed, NextNic, Equipped
<1>3. ASSUME NEW n \in Nics \cup {Loopback},
             job' = [job EXCEPT ![t] = OnNic(job[t], n)],
             UNCHANGED pc \/ Goto(t, "enter")
      PROVE  Typed(pc', job')
  <2>. DEFINE r == OnNic(job[t], n)
  <2>1. r \in Jobs
    BY <1>2, NicTyped
  <2>2. r.kind = "forward" /\ r.port = job[t].port /\ r.nic = n
    BY <1>2, Zenon DEF Jobs, OnNic
  <2>3. Equipped("nics", r) /\ Equipped("enter", r)
    BY <1>2, <2>2 DEF Equipped
  <2>4. job' = [job EXCEPT ![t] = r]
    BY <1>3, Zenon
  <2>5. CASE UNCHANGED pc
    <3>. HIDE DEF r
    <3>. QED BY <1>2, <2>1, <2>3, <2>4, <2>5, CallStays, Zenon
  <2>6. CASE Goto(t, "enter")
    <3>. HIDE DEF r
    <3>. QED BY <2>1, <2>3, <2>4, <2>6, CallMoves, PCsTyped, Zenon DEF Goto
  <2>. QED BY <1>3, <2>5, <2>6
<1>4. Typed(pc', job')
  BY <1>3, CallReturns DEF NextNic
<1>. QED BY <1>1, <1>4, TypeSplitNext

\* The click and the two readings of the menu item.
LEMMA ToggleTypeOK ==
    ASSUME TypeOK, NEW t \in Threads,
           (\E n \in Nics : Click(t, n)) \/ BeginToggle(t) \/ SaveToggle(t)
    PROVE  TypeOK'
<1>. USE TypeSplit
<1>1. ASSUME NEW n \in Nics, Click(t, n) PROVE TypeOK'
  <2>. DEFINE r == [NoJob EXCEPT !.kind = "toggle", !.nic = n]
  <2>1. r \in Jobs /\ Equipped("begin", r)
    BY NewJobsTyped DEF NoJob, Equipped
  <2>2. job' = [job EXCEPT ![t] = r] /\ pc' = [pc EXCEPT ![t] = "begin"]
    BY <1>1, Zenon DEF Click, Goto
  <2>3. Typed(pc', job')
    <3>. HIDE DEF r
    <3>. QED BY <2>1, <2>2, CallMoves, PCsTyped, Zenon
  <2>4. events' \in 0..MaxEvents
    BY <1>1, EventsTyped DEF Click
  <2>5. forwarded' \subseteq Nics
    BY <1>1 DEF Click, StateTyped
  <2>6. StateTyped'
    BY <1>1, <2>4, <2>5 DEF StateTyped, Click, external, table
  <2>. QED BY <2>3, <2>6, TypeSplitNext
<1>2. CASE BeginToggle(t)
  <2>1. StateTyped'
    BY <1>2, Zenon DEF StateTyped, BeginToggle, external, table, choice
  <2>2. job[t] \in Jobs /\ job[t].kind = "toggle" /\ Equipped(pc[t], job[t])
    BY <1>2 DEF Typed, BeginToggle, Equipped
  <2>3. Equipped("enter", job[t])
    BY <2>2 DEF Equipped
  <2>. DEFINE b == job[t].nic \in forwarded
  <2>4. b \in BOOLEAN
    OBVIOUS
  <2>5. [job[t] EXCEPT !.enabled = b] \in Jobs /\ Equipped("enter", [job[t] EXCEPT !.enabled = b])
    BY <2>2, <2>3, <2>4, FlagsTyped, FlagsEquipped
  <2>6. Typed(pc', job')
    BY <1>2, <2>5, CallMoves, PCsTyped, Zenon DEF BeginToggle, Goto
  <2>. QED BY <2>1, <2>6, TypeSplitNext
<1>3. CASE SaveToggle(t)
  <2>1. job[t].nic \in Nics
    BY <1>3 DEF Typed, SaveToggle, Equipped
  <2>2. interfaces' \subseteq Nics
    BY <1>3, <2>1 DEF SaveToggle, StateTyped
  <2>3. StateTyped'
    BY <1>3, <2>2, Zenon DEF StateTyped, SaveToggle, external, table
  <2>. QED BY <1>3, <2>3, CallReturns, TypeSplitNext DEF SaveToggle
<1>. QED BY <1>1, <1>2, <1>3

\* The entry of EnablePortForwardingInterface.
LEMMA EnableTypeOK ==
    ASSUME TypeOK, NEW t \in Threads, EnablePortForwardingInterface(t) PROVE TypeOK'
<1>. USE TypeSplit
<1>1. faultsLeft' \in 0..MaxFaults
  BY FaultsTyped DEF EnablePortForwardingInterface, Fault
<1>2. StateTyped'
  BY <1>1, Zenon DEF StateTyped, EnablePortForwardingInterface, external, table, choice
<1>3. CASE Return(t)
  BY <1>2, <1>3, CallReturns, TypeSplitNext
<1>4. ASSUME NEW l \in {"next", "look"}, l = (IF job[t].kind = "toggle" THEN "next" ELSE "look"),
             Goto(t, l), job' = [job EXCEPT ![t].stale = FALSE]
      PROVE  Typed(pc', job')
  <2>1. job[t] \in Jobs /\ Equipped("enter", job[t])
    BY DEF Typed, EnablePortForwardingInterface
  <2>2. Equipped(l, job[t])
    BY <1>4, <2>1 DEF Equipped
  <2>3. [job[t] EXCEPT !.stale = FALSE] \in Jobs /\ Equipped(l, [job[t] EXCEPT !.stale = FALSE])
    BY <2>1, <2>2, FlagsTyped, FlagsEquipped
  <2>. QED BY <1>4, <2>3, CallMoves, PCsTyped, Zenon DEF Goto
<1>5. Typed(pc', job')
  BY <1>3, <1>4, CallReturns DEF EnablePortForwardingInterface
<1>. QED BY <1>2, <1>5, TypeSplitNext

\* The foreach of a toggle over the ports.
LEMMA NextPortTypeOK ==
    ASSUME TypeOK, NEW t \in Threads, NextPort(t) PROVE TypeOK'
<1>. USE TypeSplit
<1>1. StateTyped'
  BY Zenon DEF StateTyped, NextPort, external, table, choice
<1>2. job[t] \in Jobs /\ job[t].kind = "toggle" /\ job[t].nic \in Nics
  BY DEF Typed, NextPort, Equipped
<1>3. ASSUME NEW p \in ports, Goto(t, "look"),
             job' = [job EXCEPT ![t] = OnPort(job[t], p)]
      PROVE  Typed(pc', job')
  <2>. DEFINE r == OnPort(job[t], p)
  <2>1. p \in Ports
    BY DEF StateTyped
  <2>2. r \in Jobs
    BY <1>2, <2>1, PortTyped
  <2>3. r.kind = "toggle" /\ r.port = p /\ r.nic \in Nics
    BY <1>2, Zenon DEF Jobs, OnPort
  <2>4. Equipped("look", r)
    BY <2>1, <2>3 DEF Equipped
  <2>5. job' = [job EXCEPT ![t] = r]
    BY <1>3, Zenon
  <2>. HIDE DEF r
  <2>. QED BY <1>3, <2>2, <2>4, <2>5, CallMoves, PCsTyped, Zenon DEF Goto
<1>4. ASSUME Goto(t, "config"), UNCHANGED job PROVE Typed(pc', job')
  <2>1. Equipped("config", job[t])
    BY <1>2 DEF Equipped
  <2>. QED BY <1>4, <2>1, CallGoes, PCsTyped, Zenon
<1>5. Typed(pc', job')
  BY <1>3, <1>4, CallReturns DEF NextPort
<1>. QED BY <1>1, <1>5, TypeSplitNext

\* A thread that works on a forwarder has its key.
LEMMA KeyTyped ==
    ASSUME TypeOK, NEW t \in Threads, pc[t] \in {"look", "remove", "start", "add"}
    PROVE  /\ Key(t) \in Keys /\ job[t] \in Jobs /\ Equipped(pc[t], job[t])
           /\ job[t].kind \in {"forward", "toggle"}
<1>1. job[t] \in Jobs /\ Equipped(pc[t], job[t])
  BY TypeSplit DEF Typed
<1>. QED BY <1>1 DEF Equipped, Key, Keys

\* It may go on to its next round, ...
LEMMA RoundTyped ==
    ASSUME TypeOK, NEW t \in Threads, pc[t] \in {"look", "remove", "start", "add"},
           NEW r \in Jobs, Equipped(pc[t], r), r.kind = job[t].kind, NextRound(t),
           job' = [job EXCEPT ![t] = r]
    PROVE  Typed(pc', job')
<1>. DEFINE l == IF job[t].kind = "toggle" THEN "next" ELSE "nics"
<1>1. l \in PCs
  BY PCsTyped
<1>2. Equipped(l, r)
  BY KeyTyped DEF Equipped
<1>3. pc' = [pc EXCEPT ![t] = l]
  BY DEF NextRound, Goto
<1>. HIDE DEF l
<1>. QED BY <1>1, <1>2, <1>3, TypeSplit, CallMoves, Zenon

\* ... also as it is, ...
LEMMA RoundKeeps ==
    ASSUME TypeOK, NEW t \in Threads, pc[t] \in {"look", "remove", "start", "add"},
           NextRound(t), UNCHANGED job
    PROVE  Typed(pc', job')
<1>1. job' = [job EXCEPT ![t] = job[t]]
  BY TypeSplit DEF Typed
<1>. QED BY <1>1, KeyTyped, RoundTyped

\* ... or start a forwarder.
LEMMA ExistingTyped ==
    ASSUME TypeOK, NEW t \in Threads, pc[t] \in {"look", "remove"}, AfterExisting(t),
           UNCHANGED job
    PROVE  Typed(pc', job')
<1>1. CASE Goto(t, "start")
  <2>1. Equipped("start", job[t])
    BY KeyTyped DEF Equipped
  <2>. QED BY <1>1, <2>1, TypeSplit, CallGoes, PCsTyped, Zenon
<1>. QED BY <1>1, RoundKeeps DEF AfterExisting

\* An entry whose process is killed is dead.
LEMMA KilledTyped ==
    ASSUME StateTyped, NEW k \in Keys, Killed(k)
    PROVE  portForwarders' \in [Keys -> {"none", "live", "dead", "exited"}] /\ forwarders' \subseteq Keys
  BY DEF StateTyped, Killed

\* Stopping the forwarder that the table has for the key, and removing the entry.
LEMMA ExistingTypeOK ==
    ASSUME TypeOK, NEW t \in Threads, StopExisting(t) \/ RemoveExisting(t) PROVE TypeOK'
<1>. USE TypeSplit
<1>1. CASE StopExisting(t)
  <2>1. Key(t) \in Keys /\ job[t] \in Jobs /\ Equipped("look", job[t])
    BY <1>1, KeyTyped DEF StopExisting
  <2>2. portForwarders' \in [Keys -> {"none", "live", "dead", "exited"}] /\ forwarders' \subseteq Keys
    BY <1>1, <2>1, KilledTyped DEF StopExisting, StateTyped, table
  <2>3. StateTyped'
    BY <1>1, <2>2, Zenon DEF StateTyped, StopExisting, external, choice
  <2>4. Equipped("remove", job[t])
    BY <2>1 DEF Equipped
  <2>5. ASSUME Goto(t, "remove"), UNCHANGED job PROVE Typed(pc', job')
    BY <2>4, <2>5, CallGoes, PCsTyped, Zenon
  <2>6. Typed(pc', job')
    BY <1>1, <2>5, ExistingTyped DEF StopExisting
  <2>. QED BY <2>3, <2>6, TypeSplitNext
<1>2. CASE RemoveExisting(t)
  <2>1. portForwarders' \in [Keys -> {"none", "live", "dead", "exited"}]
    BY <1>2 DEF RemoveExisting, StateTyped
  <2>2. StateTyped'
    BY <1>2, <2>1, Zenon DEF StateTyped, RemoveExisting, external, choice
  <2>3. Typed(pc', job')
    BY <1>2, ExistingTyped DEF RemoveExisting
  <2>. QED BY <2>2, <2>3, TypeSplitNext
<1>. QED BY <1>1, <1>2

\* Starting a forwarder and waiting for it.
LEMMA StartForwarderTypeOK ==
    ASSUME TypeOK, NEW t \in Threads, StartForwarder(t) PROVE TypeOK'
<1>. USE TypeSplit
<1>1. faultsLeft' \in 0..MaxFaults
  BY FaultsTyped DEF StartForwarder, Fault
<1>2. Key(t) \in Keys /\ job[t] \in Jobs /\ Equipped("start", job[t]) /\ pc[t] = "start"
  BY KeyTyped DEF StartForwarder
<1>3. forwarders' \subseteq Keys
  BY <1>2 DEF StartForwarder, StateTyped
<1>4. StateTyped'
  BY <1>1, <1>3, Zenon DEF StateTyped, StartForwarder, external, choice
<1>5. ASSUME job' = [job EXCEPT ![t].alive = TRUE], Goto(t, "add") PROVE Typed(pc', job')
  <2>1. Equipped("add", job[t])
    BY <1>2 DEF Equipped
  <2>2. [job[t] EXCEPT !.alive = TRUE] \in Jobs /\ Equipped("add", [job[t] EXCEPT !.alive = TRUE])
    BY <1>2, <2>1, FlagsTyped, FlagsEquipped
  <2>. QED BY <1>5, <2>2, CallMoves, PCsTyped, Zenon DEF Goto
<1>6. Typed(pc', job')
  BY <1>2, <1>5, RoundKeeps DEF StartForwarder
<1>. QED BY <1>4, <1>6, TypeSplitNext

\* Entering a forwarder into the table, or giving it up.
LEMMA AddForwarderTypeOK ==
    ASSUME TypeOK, NEW t \in Threads, AddForwarder(t) PROVE TypeOK'
<1>. USE TypeSplit
<1>1. pc[t] = "add" /\ Key(t) \in Keys
  BY KeyTyped DEF AddForwarder
<1>2. portForwarders' \in [Keys -> {"none", "live", "dead", "exited"}]
  BY <1>1 DEF AddForwarder, StateTyped
<1>3. StateTyped'
  BY <1>2, Zenon DEF StateTyped, AddForwarder, external, choice
<1>4. PICK j \in {job, StaleStop(job)} : job' = [j EXCEPT ![t].alive = FALSE]
  BY Zenon DEF AddForwarder
<1>5. Typed(pc, j)
  BY StaleKeeps
<1>6. j[t] \in Jobs /\ j[t].kind = job[t].kind /\ j[t].kind \in {"forward", "toggle"}
      /\ Equipped("add", j[t])
  <2>1. j[t] \in Jobs /\ Equipped("add", j[t])
    BY <1>1, <1>5 DEF Typed
  <2>2. j[t].kind = job[t].kind
    <3>1. job[t] \in Jobs
      BY DEF Typed
    <3>. QED BY <1>4, <3>1, Zenon DEF StaleStop, Jobs
  <2>. QED BY <1>1, <2>1, <2>2, KeyTyped
<1>. DEFINE r == [j[t] EXCEPT !.alive = FALSE]
            l == IF job[t].kind = "toggle" THEN "next" ELSE "nics"
<1>7. r \in Jobs /\ Equipped("add", r) /\ r.kind = j[t].kind
  <2>1. r \in Jobs
    BY <1>6, FlagsTyped
  <2>2. Equipped("add", r)
    BY <1>6, FlagsEquipped
  <2>3. r.kind = j[t].kind
    BY <1>6, Zenon DEF Jobs
  <2>. QED BY <2>1, <2>2, <2>3
<1>8. Equipped(l, r)
  BY <1>6, <1>7 DEF Equipped
<1>9. l \in PCs /\ pc' = [pc EXCEPT ![t] = l] /\ job' = [j EXCEPT ![t] = r]
  BY <1>4, PCsTyped, Zenon DEF AddForwarder, NextRound, Goto
<1>10. Typed(pc', job')
  <2>. HIDE DEF l, r
  <2>. QED BY <1>5, <1>7, <1>8, <1>9, CallMoves, Zenon
<1>. QED BY <1>3, <1>10, TypeSplitNext

\* A flag changes in the jobs of several threads.
LEMMA FlagsChange ==
    ASSUME Typed(pc, job), UNCHANGED pc,
           \/ \E P \in SUBSET Threads :
                job' = [t \in Threads |-> IF t \in P THEN [job[t] EXCEPT !.alive = FALSE] ELSE job[t]]
           \/ job' = [t \in Threads |-> [job[t] EXCEPT !.current = FALSE]]
    PROVE  Typed(pc', job')
<1>1. \A t \in Threads : /\ job[t] \in Jobs /\ Equipped(pc[t], job[t])
                         /\ [job[t] EXCEPT !.alive = FALSE] \in Jobs
                         /\ Equipped(pc[t], [job[t] EXCEPT !.alive = FALSE])
                         /\ [job[t] EXCEPT !.current = FALSE] \in Jobs
                         /\ Equipped(pc[t], [job[t] EXCEPT !.current = FALSE])
  BY FlagsTyped, FlagsEquipped DEF Typed
<1>. QED BY <1>1 DEF Typed

\* A forwarder exits by itself.
LEMMA ExitsTypeOK ==
    ASSUME TypeOK, NEW k \in Keys, ForwarderExits(k) PROVE TypeOK'
<1>. USE TypeSplit
<1>1. faultsLeft' \in 0..MaxFaults
  BY FaultsTyped DEF ForwarderExits, Fault
<1>2. portForwarders' \in [Keys -> {"none", "live", "dead", "exited"}] /\ forwarders' \subseteq Keys
  BY DEF ForwarderExits, StateTyped
<1>3. StateTyped'
  BY <1>1, <1>2, Zenon DEF StateTyped, ForwarderExits, external, choice
<1>. DEFINE P == {t \in Threads : pc[t] = "add" /\ Key(t) = k}
<1>4. job' = [t \in Threads |-> IF t \in P THEN [job[t] EXCEPT !.alive = FALSE] ELSE job[t]]
  BY DEF ForwarderExits
<1>5. Typed(pc', job')
  <2>1. P \in SUBSET Threads /\ UNCHANGED pc
    BY DEF ForwarderExits
  <2>. HIDE DEF P
  <2>. QED BY <1>4, <2>1, FlagsChange, Zenon
<1>. QED BY <1>3, <1>5, TypeSplitNext

\* Messages may be lost with the distribution.
LEMMA SocketTyped ==
    ASSUME StateTyped, socket' \in {socket, <<>>}
    PROVE  socket' \in Seq([open : BOOLEAN, port : Ports])
<1>. DEFINE M == [open : BOOLEAN, port : Ports]
<1>1. socket \in Seq(M)
  BY DEF StateTyped
<1>2. <<>> \in Seq(M)
  <2>. HIDE DEF M
  <2>. QED OBVIOUS
<1>. QED BY <1>1, <1>2, Zenon

\* The engine starts.
LEMMA StartTypeOK == ASSUME TypeOK, Start PROVE TypeOK'
<1>. USE TypeSplit
<1>1. events' \in 0..MaxEvents
  BY EventsTyped DEF Start
<1>2. socket' \in Seq([open : BOOLEAN, port : Ports])
  BY SocketTyped DEF Start
<1>3. StateTyped'
  BY <1>1, <1>2 DEF StateTyped, Start, table, choice
<1>4. Typed(pc', job')
  BY FlagsChange, Zenon DEF Start
<1>. QED BY <1>3, <1>4, TypeSplitNext

\* The engine stops.
LEMMA StopTypeOK ==
    ASSUME TypeOK, NEW t \in Threads,
           BeginStop(t) \/ StopPortForwarding(t) \/ ClearForwarders(t) \/ Terminate(t)
    PROVE  TypeOK'
<1>. USE TypeSplit
<1>1. CASE BeginStop(t)
  <2>1. events' \in 0..MaxEvents
    BY <1>1, EventsTyped DEF BeginStop
  <2>2. StateTyped'
    BY <1>1, <2>1 DEF StateTyped, BeginStop, table, choice
  <2>. DEFINE r == [NoJob EXCEPT !.kind = "stop"]
  <2>3. r \in Jobs /\ Equipped("kill", r)
    BY NewJobsTyped DEF NoJob, Equipped
  <2>4. Typed(pc', job')
    <3>1. job' = [job EXCEPT ![t] = r] /\ pc' = [pc EXCEPT ![t] = "kill"]
      BY <1>1, Zenon DEF BeginStop, Goto
    <3>. HIDE DEF r
    <3>. QED BY <2>3, <3>1, CallMoves, PCsTyped, Zenon
  <2>. QED BY <2>2, <2>4, TypeSplitNext
<1>2. CASE StopPortForwarding(t)
  <2>1. job[t] \in Jobs /\ Equipped("kill", job[t]) /\ pc[t] = "kill"
    BY <1>2 DEF Typed, StopPortForwarding
  <2>2. portForwarders' \in [Keys -> {"none", "live", "dead", "exited"}] /\ forwarders' \subseteq Keys
    BY <1>2, KilledTyped DEF StopPortForwarding, StateTyped, table
  <2>3. StateTyped'
    BY <1>2, <2>2, Zenon DEF StateTyped, StopPortForwarding, external, choice
  <2>4. ASSUME NEW k \in Keys, job' = [job EXCEPT ![t].seen = @ \cup {k}], UNCHANGED pc
        PROVE  Typed(pc', job')
    <3>1. [job[t] EXCEPT !.seen = @ \cup {k}] \in Jobs
      BY <2>1, SeenTyped DEF Places
    <3>2. Equipped("kill", [job[t] EXCEPT !.seen = @ \cup {k}])
      BY <2>1, Zenon DEF Equipped, Jobs
    <3>. QED BY <2>1, <2>4, <3>1, <3>2, CallStays, Zenon
  <2>5. ASSUME Goto(t, "clear"), UNCHANGED job PROVE Typed(pc', job')
    <3>1. Equipped("clear", job[t])
      BY <2>1 DEF Equipped
    <3>. QED BY <2>5, <3>1, CallGoes, PCsTyped, Zenon
  <2>6. Typed(pc', job')
    BY <1>2, <2>4, <2>5 DEF StopPortForwarding
  <2>. QED BY <2>3, <2>6, TypeSplitNext
<1>3. CASE ClearForwarders(t)
  <2>1. job[t] \in Jobs /\ Equipped("terminate", job[t])
    BY <1>3 DEF Typed, ClearForwarders, Equipped
  <2>2. portForwarders' \in [Keys -> {"none", "live", "dead", "exited"}]
    BY <1>3 DEF ClearForwarders
  <2>3. StateTyped'
    BY <1>3, <2>2, Zenon DEF StateTyped, ClearForwarders, external, choice
  <2>4. Typed(pc', job')
    BY <1>3, <2>1, CallGoes, PCsTyped, Zenon DEF ClearForwarders
  <2>. QED BY <2>3, <2>4, TypeSplitNext
<1>4. CASE Terminate(t)
  <2>1. faultsLeft' \in 0..MaxFaults
    BY <1>4, FaultsTyped DEF Terminate, Fault
  <2>2. socket' \in Seq([open : BOOLEAN, port : Ports])
    BY <1>4, SocketTyped DEF Terminate, StateTyped
  <2>3. StateTyped'
    BY <1>4, <2>1, <2>2 DEF StateTyped, Terminate, table, choice
  <2>4. Typed(pc', job')
    BY <1>4, CallReturns DEF Terminate
  <2>. QED BY <2>3, <2>4, TypeSplitNext
<1>. QED BY <1>1, <1>2, <1>3, <1>4

\* No step leaves the types.
LEMMA StepTypeOK == TypeOK /\ [Next]_vars => TypeOK'
<1>. SUFFICES ASSUME TypeOK, [Next]_vars PROVE TypeOK'
  OBVIOUS
<1>1. CASE Next
  BY <1>1, ContainersTypeOK, ForwardTypeOK, NextNicTypeOK, ToggleTypeOK, EnableTypeOK,
     NextPortTypeOK, ExistingTypeOK, StartForwarderTypeOK, AddForwarderTypeOK, ExitsTypeOK,
     StartTypeOK, StopTypeOK, Zenon DEF Next, CallStep
<1>2. CASE UNCHANGED vars
  BY <1>2, Zenon DEF TypeOK, vars, external, table, choice
<1>. QED BY <1>1, <1>2

\* Every variable keeps its type, and a thread that works on a forwarder has its key.
THEOREM TypeCorrect == Spec => []TypeOK
<1>1. Init => TypeOK
  BY InitTypeOK
<1>2. TypeOK /\ [Next]_vars => TypeOK'
  BY StepTypeOK
<1>. QED BY <1>1, <1>2, PTL DEF Spec

-----------------------------------------------------------------------------
(* Dead entries                                                            *)

\* Thread u will see to it that a dead entry of key k goes.
Removes(u, k) == pc[u] \in {"kill", "clear"} \/ (pc[u] = "remove" /\ Key(u) = k)

\* The threads that remove entries stay where they are, on the same forwarder.
RemoversKeep ==
    \A u \in Threads : pc[u] \in {"kill", "clear", "remove"} =>
        pc'[u] = pc[u] /\ job'[u].nic = job[u].nic /\ job'[u].port = job[u].port

\* A thread that removes no entry moves, and no other changes its forwarder.
LEMMA MoverKeeps ==
    ASSUME TypeOK, NEW t \in Threads, pc[t] \notin {"kill", "clear", "remove"},
           pc' = pc \/ \E l : pc' = [pc EXCEPT ![t] = l],
           NEW j \in {job, Stale(job), StaleStop(job)},
           job' = j \/ \E r : job' = [j EXCEPT ![t] = r]
    PROVE  RemoversKeep
<1>1. ASSUME NEW u \in Threads
      PROVE  u \in DOMAIN j /\ j[u].nic = job[u].nic /\ j[u].port = job[u].port
  <2>1. job[u] \in Jobs /\ job \in [Threads -> Jobs]
    BY TypeSplit DEF Typed
  <2>2. [job[u] EXCEPT !.stale = TRUE].nic = job[u].nic
        /\ [job[u] EXCEPT !.stale = TRUE].port = job[u].port
    BY <2>1, Zenon DEF Jobs
  <2>3. j[u] \in {job[u], [job[u] EXCEPT !.stale = TRUE]} /\ u \in DOMAIN j
    BY <2>1 DEF Stale, StaleStop
  <2>. QED BY <2>2, <2>3
<1>2. ASSUME NEW u \in Threads, pc[u] \in {"kill", "clear", "remove"}
      PROVE  pc'[u] = pc[u] /\ job'[u] = j[u]
  <2>1. u # t
    BY <1>2
  <2>2. pc'[u] = pc[u]
    BY <2>1, TypeSplit, Zenon DEF Typed
  <2>3. job'[u] = j[u]
    BY <1>1, <2>1, Zenon
  <2>. QED BY <2>2, <2>3
<1>. QED BY <1>1, <1>2 DEF RemoversKeep

\* An entry that was dead before the step is still seen to.
LEMMA DeadKept ==
    ASSUME DeadEntriesGo, RemoversKeep, NEW k \in Keys, portForwarders[k] = "dead"
    PROVE  \E u \in Threads : Removes(u, k)'
<1>1. PICK u \in Threads : Removes(u, k)
  BY DEF DeadEntriesGo, Removes
<1>2. Removes(u, k)'
  BY <1>1 DEF Removes, RemoversKeep, Key
<1>. QED BY <1>2

\* Steps of threads that remove no entry, and make none dead.
LEMMA OthersKeep ==
    ASSUME TypeOK, NEW t \in Threads,
           \/ \E n \in Nics : Click(t, n)
           \/ ForwardPort(t) \/ NextNic(t) \/ BeginToggle(t) \/ SaveToggle(t)
           \/ EnablePortForwardingInterface(t) \/ NextPort(t) \/ StartForwarder(t)
           \/ AddForwarder(t) \/ BeginStop(t) \/ Terminate(t)
    PROVE  /\ RemoversKeep
           /\ \A k \in Keys : portForwarders'[k] = "dead" => portForwarders[k] = "dead"
<1>1. pc[t] \notin {"kill", "clear", "remove"}
  BY DEF Click, ForwardPort, NextNic, BeginToggle, SaveToggle, EnablePortForwardingInterface,
     NextPort, StartForwarder, AddForwarder, BeginStop, Terminate
<1>2. pc' = pc \/ \E l : pc' = [pc EXCEPT ![t] = l]
  BY Zenon DEF Click, ForwardPort, NextNic, BeginToggle, SaveToggle,
     EnablePortForwardingInterface, NextPort, StartForwarder, AddForwarder, BeginStop, Terminate,
     Return, Goto, NextRound
<1>3. \E j \in {job, Stale(job), StaleStop(job)} : job' = j \/ \E r : job' = [j EXCEPT ![t] = r]
  BY Zenon DEF Click, ForwardPort, NextNic, BeginToggle, SaveToggle,
     EnablePortForwardingInterface, NextPort, StartForwarder, AddForwarder, BeginStop, Terminate,
     Return
<1>4. \A k \in Keys : portForwarders'[k] = "dead" => portForwarders[k] = "dead"
  <2>1. CASE AddForwarder(t)
    <3>1. Key(t) \in Keys
      BY <2>1, KeyTyped DEF AddForwarder
    <3>. QED BY <2>1, <3>1 DEF AddForwarder, TypeOK
  <2>2. CASE ~AddForwarder(t)
    <3>1. UNCHANGED portForwarders
      BY <2>2, Zenon DEF Click, ForwardPort, NextNic, BeginToggle, SaveToggle,
         EnablePortForwardingInterface, NextPort, StartForwarder, BeginStop, Terminate, table
    <3>. QED BY <3>1
  <2>. QED BY <2>1, <2>2
<1>. QED BY <1>1, <1>2, <1>3, <1>4, MoverKeeps

\* Containers and the start of the engine.
LEMMA OutsideKeeps ==
    ASSUME TypeOK, (\E p \in Ports : Publish(p) \/ Unpublish(p)) \/ Start
    PROVE  RemoversKeep /\ UNCHANGED portForwarders
<1>1. CASE \E p \in Ports : Publish(p) \/ Unpublish(p)
  BY <1>1 DEF Publish, Unpublish, RemoversKeep, table
<1>2. CASE Start
  <2>1. ASSUME NEW u \in Threads PROVE job'[u].nic = job[u].nic /\ job'[u].port = job[u].port
    <3>1. job[u] \in Jobs
      BY TypeSplit DEF Typed
    <3>2. job'[u] = [job[u] EXCEPT !.current = FALSE]
      BY <1>2 DEF Start
    <3>. QED BY <3>1, <3>2, Zenon DEF Jobs
  <2>. QED BY <1>2, <2>1 DEF Start, RemoversKeep, table
<1>. QED BY <1>1, <1>2

\* A thread that finds an entry kills its process and goes on to remove it.
LEMMA StopExistingKeeps ==
    ASSUME TypeOK, DeadEntriesGo, NEW t \in Threads, StopExisting(t),
           NEW k \in Keys, portForwarders'[k] = "dead"
    PROVE  \E u \in Threads : Removes(u, k)'
<1>1. /\ Key(t) \in Keys /\ pc[t] = "look" /\ UNCHANGED job
      /\ pc' = pc \/ \E l : pc' = [pc EXCEPT ![t] = l]
  BY KeyTyped, Zenon DEF StopExisting, AfterExisting, NextRound, Goto
<1>2. CASE portForwarders[k] = "dead"
  <2>1. RemoversKeep
    BY <1>1, MoverKeeps
  <2>. QED BY <1>2, <2>1, DeadKept
<1>3. CASE portForwarders[k] # "dead"
  <2>1. k = Key(t) /\ pc' = [pc EXCEPT ![t] = "remove"]
    BY <1>1, <1>3 DEF StopExisting, Killed, Goto, table, TypeOK
  <2>2. Removes(t, k)'
    BY <1>1, <2>1 DEF Removes, Key, TypeOK
  <2>. QED BY <2>2
<1>. QED BY <1>2, <1>3

\* A thread that removes an entry leaves the others to those who see to them.
LEMMA RemoveExistingKeepsOthers ==
    ASSUME TypeOK, DeadEntriesGo, NEW t \in Threads, RemoveExisting(t),
           NEW k \in Keys, portForwarders'[k] = "dead"
    PROVE  \E u \in Threads : Removes(u, k)'
<1>1. /\ Key(t) \in Keys /\ pc[t] = "remove" /\ UNCHANGED job
      /\ \E l : pc' = [pc EXCEPT ![t] = l]
  BY KeyTyped, Zenon DEF RemoveExisting, AfterExisting, NextRound, Goto
<1>2. k # Key(t) /\ portForwarders[k] = "dead"
  BY <1>1 DEF RemoveExisting, TypeOK
<1>3. PICK u \in Threads : Removes(u, k)
  BY <1>2 DEF DeadEntriesGo, Removes
<1>4. u # t
  BY <1>1, <1>2, <1>3 DEF Removes
<1>5. pc'[u] = pc[u]
  BY <1>1, <1>4 DEF TypeOK
<1>6. Removes(u, k)'
  BY <1>1, <1>3, <1>5 DEF Removes, Key
<1>. QED BY <1>6

\* A Stop that kills forwarders clears the table afterwards.
LEMMA StopKeeps ==
    ASSUME TypeOK, NEW t \in Threads, StopPortForwarding(t), NEW k \in Keys
    PROVE  \E u \in Threads : Removes(u, k)'
<1>1. pc'[t] \in {"kill", "clear"}
  BY DEF StopPortForwarding, Goto, TypeOK
<1>. QED BY <1>1 DEF Removes

\* Nothing is dead in an empty table.
LEMMA ClearKeeps ==
    ASSUME NEW t \in Threads, ClearForwarders(t), NEW k \in Keys PROVE portForwarders'[k] # "dead"
  BY DEF ClearForwarders

\* A forwarder that exits by itself leaves no entry dead that was not.
LEMMA ExitKeeps ==
    ASSUME TypeOK, NEW i \in Keys, ForwarderExits(i)
    PROVE  /\ RemoversKeep
           /\ \A k \in Keys : portForwarders'[k] = "dead" => portForwarders[k] = "dead"
<1>1. pc' = pc /\ \A u \in Threads : job'[u] \in {job[u], [job[u] EXCEPT !.alive = FALSE]}
  BY DEF ForwarderExits
<1>2. ASSUME NEW u \in Threads PROVE job'[u].nic = job[u].nic /\ job'[u].port = job[u].port
  <2>1. job[u] \in Jobs
    BY TypeSplit DEF Typed
  <2>2. /\ [job[u] EXCEPT !.alive = FALSE].nic = job[u].nic
        /\ [job[u] EXCEPT !.alive = FALSE].port = job[u].port
    BY <2>1, Zenon DEF Jobs
  <2>. QED BY <1>1, <2>2
<1>3. RemoversKeep
  BY <1>1, <1>2 DEF RemoversKeep
<1>4. \A k \in Keys : portForwarders'[k] = "dead" => portForwarders[k] = "dead"
  BY DEF ForwarderExits, TypeOK
<1>. QED BY <1>3, <1>4

\* Every step sees to the entries that are dead after it.
LEMMA StepDeadEntriesGo == TypeOK /\ DeadEntriesGo /\ [Next]_vars => DeadEntriesGo'
<1>. SUFFICES ASSUME TypeOK, DeadEntriesGo, [Next]_vars,
                     NEW k \in Keys, portForwarders'[k] = "dead"
              PROVE  \E u \in Threads : Removes(u, k)'
  BY DEF DeadEntriesGo, Removes
<1>2. ASSUME RemoversKeep, portForwarders[k] = "dead" PROVE \E u \in Threads : Removes(u, k)'
  BY <1>2, DeadKept
<1>3. ASSUME NEW p \in Ports, Publish(p) \/ Unpublish(p) PROVE \E u \in Threads : Removes(u, k)'
  BY <1>2, <1>3, OutsideKeeps
<1>4. CASE Start
  BY <1>2, <1>4, OutsideKeeps
<1>5. ASSUME NEW i \in Keys, ForwarderExits(i) PROVE \E u \in Threads : Removes(u, k)'
  BY <1>2, <1>5, ExitKeeps
<1>6. ASSUME NEW t \in Threads, (\E n \in Nics : Click(t, n)) \/ ForwardPort(t) \/ BeginStop(t)
      PROVE  \E u \in Threads : Removes(u, k)'
  BY <1>2, <1>6, OthersKeep
<1>7. ASSUME NEW t \in Threads, CallStep(t) PROVE \E u \in Threads : Removes(u, k)'
  <2>1. CASE StopExisting(t)
    BY <2>1, StopExistingKeeps
  <2>2. CASE RemoveExisting(t)
    BY <2>2, RemoveExistingKeepsOthers
  <2>3. CASE StopPortForwarding(t)
    BY <2>3, StopKeeps
  <2>4. CASE ClearForwarders(t)
    BY <2>4, ClearKeeps
  <2>. QED BY <1>2, <1>7, <2>1, <2>2, <2>3, <2>4, OthersKeep DEF CallStep
<1>8. CASE UNCHANGED vars
  <2>1. RemoversKeep /\ UNCHANGED portForwarders
    BY <1>8 DEF RemoversKeep, vars, table
  <2>. QED BY <1>2, <2>1
<1>9. CASE Next
  BY <1>3, <1>4, <1>5, <1>6, <1>7, <1>9, Zenon DEF Next
<1>. QED BY <1>8, <1>9

\* However calls overlap and whatever fails: while the entry of a forwarder that the engine
\* has stopped is in the table, a call is where it removes it or a Stop where it clears all.
THEOREM DeadEntriesAlwaysGo == Spec => []DeadEntriesGo
<1>1. Init => DeadEntriesGo
  BY DEF Init, DeadEntriesGo
<1>2. TypeOK /\ DeadEntriesGo /\ [Next]_vars => DeadEntriesGo'
  BY StepDeadEntriesGo
<1>. QED BY <1>1, <1>2, TypeCorrect, PTL DEF Spec

-----------------------------------------------------------------------------
(* One call at a time: the table of forwarders                             *)

Kind(t) == job[t].kind

\* A call is at a place of its kind, and a Stop has begun by making the engine stop running.
Placed(t) ==
    /\ pc[t] = "idle" => Kind(t) = "none"
    /\ pc[t] \in {"kill", "clear", "terminate"} => Kind(t) = "stop"
    /\ pc[t] \in {"start", "add"} => job[t].enabled
    /\ Kind(t) = "stop" => ~running
    /\ ~job[t].stale

\* The processes are those of the live entries, but for the forwarder that a call is adding;
\* its key has no entry, and the one that a call removes is dead.  If none exits by itself,
\* no other entry is without a process but those that a Stop has killed.
Tracked(t) ==
    /\ \A k \in Keys : k \in forwarders <=>
            portForwarders[k] = "live" \/ (pc[t] = "add" /\ job[t].alive /\ k = Key(t))
    /\ pc[t] = "remove" => portForwarders[Key(t)] = "dead"
    /\ pc[t] \in {"start", "add"} => portForwarders[Key(t)] = "none"
    /\ "crash" \notin Faults =>
        /\ pc[t] = "add" => job[t].alive
        /\ \A k \in Keys : portForwarders[k] \in {"dead", "exited"} =>
               pc[t] \in {"kill", "clear"} \/ (pc[t] = "remove" /\ k = Key(t))

\* A Stop has killed what its foreach has passed, and in the end everything.
Stopped(t) ==
    /\ pc[t] = "kill" => \A k \in job[t].seen : k \in Keys => portForwarders[k] # "live"
    /\ pc[t] \in {"clear", "terminate"} => forwarders = {}
    /\ pc[t] = "terminate" => \A k \in Keys : portForwarders[k] = "none"

\* All of it: inductive as long as t is the only thread that calls, whatever fails.
TableInv(t) == Placed(t) /\ Tracked(t) /\ Stopped(t)

-----------------------------------------------------------------------------
(* What a step does to the job of its thread                               *)

\* The fields of a job that a call reads.
Is(r, kind, nic, port, enabled, seen, stale, alive) ==
    /\ r.kind = kind /\ r.nic = nic /\ r.port = port /\ r.enabled = enabled /\ r.seen = seen
    /\ r.stale = stale /\ r.alive = alive

\* The updates of a job leave its other fields alone.
LEMMA OnNicFields ==
    ASSUME NEW j \in Jobs, NEW n
    PROVE  Is(OnNic(j, n), j.kind, n, j.port, j.enabled, j.seen \cup {n}, j.stale, j.alive)
  BY Zenon DEF Jobs, Is, OnNic

LEMMA OnPortFields ==
    ASSUME NEW j \in Jobs, NEW p
    PROVE  Is(OnPort(j, p), j.kind, j.nic, p, j.enabled, j.seen \cup {p}, j.stale, j.alive)
  BY Zenon DEF Jobs, Is, OnPort

LEMMA SeenFields ==
    ASSUME NEW j \in Jobs, NEW x
    PROVE  Is([j EXCEPT !.seen = @ \cup {x}], j.kind, j.nic, j.port, j.enabled, j.seen \cup {x}, j.stale, j.alive)
  BY Zenon DEF Jobs, Is

LEMMA StaleFields ==
    ASSUME NEW j \in Jobs, NEW b
    PROVE  Is([j EXCEPT !.stale = b], j.kind, j.nic, j.port, j.enabled, j.seen, b, j.alive)
  BY Zenon DEF Jobs, Is

LEMMA AliveFields ==
    ASSUME NEW j \in Jobs, NEW b
    PROVE  Is([j EXCEPT !.alive = b], j.kind, j.nic, j.port, j.enabled, j.seen, j.stale, b)
  BY Zenon DEF Jobs, Is

LEMMA CurrentFields ==
    ASSUME NEW j \in Jobs, NEW b
    PROVE  Is([j EXCEPT !.current = b], j.kind, j.nic, j.port, j.enabled, j.seen, j.stale, j.alive)
  BY Zenon DEF Jobs, Is

LEMMA EnabledFields ==
    ASSUME NEW j \in Jobs, NEW b
    PROVE  Is([j EXCEPT !.enabled = b], j.kind, j.nic, j.port, b, j.seen, j.stale, j.alive)
  BY Zenon DEF Jobs, Is

\* The jobs that calls begin with.
LEMMA NewFields ==
    /\ Is(NoJob, "none", None, None, FALSE, {}, FALSE, FALSE)
    /\ \A n : Is([NoJob EXCEPT !.kind = "toggle", !.nic = n], "toggle", n, None, FALSE, {}, FALSE, FALSE)
    /\ Is([NoJob EXCEPT !.kind = "stop"], "stop", None, None, FALSE, {}, FALSE, FALSE)
    /\ \A m : Is(ForwardJob(m), "forward", None, m.port, m.open,
                 IF interfaces = {} THEN Nics ELSE {}, FALSE, FALSE)
  BY Zenon DEF Is, NoJob, ForwardJob

\* A thread moves.
LEMMA Moves ==
    ASSUME TypeOK, NEW t \in Threads
    PROVE  /\ \A l : Goto(t, l) => pc'[t] = l
           /\ Return(t) => pc'[t] = "idle" /\ job'[t] = NoJob
           /\ \A r : job' = [job EXCEPT ![t] = r] => job'[t] = r
  BY Zenon DEF TypeOK, Goto, Return

-----------------------------------------------------------------------------
(* The steps on the table                                                  *)

\* The job of a thread that goes on with the next step, or the next round.
LEMMA Rounds ==
    ASSUME TypeOK, NEW t \in Threads, pc[t] \in {"look", "remove", "start", "add"}
    PROVE  /\ job[t] \in Jobs /\ Key(t) \in Keys /\ Kind(t) \in {"forward", "toggle"}
           /\ portForwarders \in [Keys -> {"none", "live", "dead", "exited"}] /\ forwarders \subseteq Keys
           /\ NextRound(t) => pc'[t] = (IF Kind(t) = "toggle" THEN "next" ELSE "nics")
           /\ AfterExisting(t) => IF job[t].enabled THEN pc'[t] = "start"
                                  ELSE pc'[t] = (IF Kind(t) = "toggle" THEN "next" ELSE "nics")
  BY Moves DEF TypeOK, Equipped, Key, Keys, NextRound, AfterExisting, Kind

\* A step from and to places that are not about a forwarder leaves the table alone.
LEMMA TableRests ==
    ASSUME NEW t \in Threads, TableInv(t), UNCHANGED <<portForwarders, forwarders>>,
           pc[t] \notin {"kill", "clear", "remove", "start", "add"},
           pc'[t] \notin {"kill", "clear", "terminate", "remove", "start", "add"},
           ~(job[t].stale)', pc'[t] = "idle" => Kind(t)' = "none", Kind(t)' # "stop"
    PROVE  TableInv(t)'
  BY DEF TableInv, Placed, Tracked, Stopped

\* The steps of ForwardPort and of a toggle between the forwarders, and their first steps.
LEMMA RoundsTable ==
    ASSUME TypeOK, NEW t \in Threads, TableInv(t),
           \/ ForwardPort(t) \/ NextNic(t) \/ BeginToggle(t) \/ SaveToggle(t)
           \/ EnablePortForwardingInterface(t) \/ NextPort(t) \/ \E n \in Nics : Click(t, n)
    PROVE  TableInv(t)'
<1>. USE DEF TableInv
<1>1. job[t] \in Jobs /\ ~job[t].stale
  BY DEF TypeOK, Placed
<1>2. ASSUME Return(t) PROVE pc'[t] = "idle" /\ Kind(t)' = "none" /\ ~(job[t].stale)'
  BY <1>2, Moves, NewFields DEF Is, Kind
<1>3. ASSUME pc[t] \in {"nics", "begin", "enter", "next", "config"}
      PROVE  Kind(t) \in {"forward", "toggle"}
  BY <1>3 DEF TypeOK, Equipped, Kind
<1>4. CASE ForwardPort(t)
  <2>1. pc[t] = "idle" /\ pc'[t] = "nics" /\ UNCHANGED <<portForwarders, forwarders>>
    BY <1>4, Moves DEF ForwardPort, table
  <2>2. job'[t] = ForwardJob(Head(socket))
    <3>1. t \in DOMAIN job /\ t \in DOMAIN Stale(job)
      BY DEF TypeOK, Stale
    <3>. QED BY <1>4, <3>1, Zenon DEF ForwardPort
  <2>3. Kind(t)' = "forward" /\ ~(job[t].stale)'
    BY <2>2, NewFields DEF Is, Kind
  <2>. QED BY <2>1, <2>3, TableRests
<1>5. CASE NextNic(t)
  <2>1. pc[t] = "nics" /\ UNCHANGED <<portForwarders, forwarders>>
    BY <1>5 DEF NextNic, table
  <2>2. CASE Return(t)
    BY <1>2, <2>1, <2>2, TableRests
  <2>3. ASSUME NEW n, job' = [job EXCEPT ![t] = OnNic(job[t], n)], pc'[t] \in {"enter", "nics"}
        PROVE  TableInv(t)'
    <3>1. Kind(t)' = Kind(t) /\ ~(job[t].stale)'
      BY <1>1, <2>3, Moves, OnNicFields DEF Is, Kind
    <3>. QED BY <1>3, <2>1, <2>3, <3>1, TableRests
  <2>4. Goto(t, "enter") \/ UNCHANGED pc => pc'[t] \in {"enter", "nics"}
    BY <2>1, Moves
  <2>. QED BY <1>5, <2>2, <2>3, <2>4 DEF NextNic
<1>6. CASE BeginToggle(t)
  <2>1. pc[t] = "begin" /\ pc'[t] = "enter" /\ UNCHANGED <<portForwarders, forwarders>>
    BY <1>6, Moves DEF BeginToggle, table
  <2>2. \E b : job'[t] = [job[t] EXCEPT !.enabled = b]
    BY <1>6, Moves, Zenon DEF BeginToggle
  <2>3. Kind(t)' = Kind(t) /\ ~(job[t].stale)'
    BY <1>1, <2>2, EnabledFields DEF Is, Kind
  <2>. QED BY <1>3, <2>1, <2>3, TableRests
<1>7. CASE SaveToggle(t)
  BY <1>2, <1>7, TableRests DEF SaveToggle, table
<1>8. CASE EnablePortForwardingInterface(t)
  <2>1. pc[t] = "enter" /\ UNCHANGED <<portForwarders, forwarders>>
    BY <1>8 DEF EnablePortForwardingInterface, table
  <2>2. CASE Return(t)
    BY <1>2, <2>1, <2>2, TableRests
  <2>3. ASSUME Goto(t, IF job[t].kind = "toggle" THEN "next" ELSE "look"),
               job' = [job EXCEPT ![t].stale = FALSE]
        PROVE  TableInv(t)'
    <3>1. job'[t] = [job[t] EXCEPT !.stale = FALSE]
      BY <2>3 DEF TypeOK
    <3>2. Kind(t)' = Kind(t) /\ ~(job[t].stale)'
      BY <1>1, <3>1, StaleFields DEF Is, Kind
    <3>3. pc'[t] \in {"next", "look"}
      BY <2>3, Moves
    <3>. QED BY <1>3, <2>1, <3>2, <3>3, TableRests
  <2>. QED BY <1>8, <2>2, <2>3 DEF EnablePortForwardingInterface
<1>9. CASE NextPort(t)
  <2>1. pc[t] = "next" /\ UNCHANGED <<portForwarders, forwarders>>
    BY <1>9 DEF NextPort, table
  <2>2. CASE Return(t)
    BY <1>2, <2>1, <2>2, TableRests
  <2>3. ASSUME NEW p, job' = [job EXCEPT ![t] = OnPort(job[t], p)], Goto(t, "look")
        PROVE  TableInv(t)'
    <3>1. Kind(t)' = Kind(t) /\ ~(job[t].stale)' /\ pc'[t] = "look"
      BY <1>1, <2>3, Moves, OnPortFields DEF Is, Kind
    <3>. QED BY <1>3, <2>1, <3>1, TableRests
  <2>4. CASE Goto(t, "config") /\ UNCHANGED job
    <3>1. pc'[t] = "config" /\ Kind(t)' = Kind(t)
      BY <2>4, Moves DEF Kind
    <3>. QED BY <1>1, <1>3, <2>1, <2>4, <3>1, TableRests
  <2>. QED BY <1>9, <2>2, <2>3, <2>4 DEF NextPort
<1>10. ASSUME NEW n \in Nics, Click(t, n) PROVE TableInv(t)'
  <2>1. pc[t] = "idle" /\ pc'[t] = "begin" /\ UNCHANGED <<portForwarders, forwarders>>
    BY <1>10, Moves DEF Click, table
  <2>2. job'[t] = [NoJob EXCEPT !.kind = "toggle", !.nic = n]
    BY <1>10, Moves, Zenon DEF Click
  <2>3. Kind(t)' = "toggle" /\ ~(job[t].stale)'
    BY <2>2, NewFields DEF Is, Kind
  <2>. QED BY <2>1, <2>3, TableRests
<1>. QED BY <1>4, <1>5, <1>6, <1>7, <1>8, <1>9, <1>10

\* The forwarder that the key has is killed.
LEMMA StopExistingTable ==
    ASSUME TypeOK, NEW t \in Threads, TableInv(t), StopExisting(t)
    PROVE  TableInv(t)'
<1>. USE DEF TableInv
<1>1. /\ pc[t] = "look" /\ job' = job /\ UNCHANGED running /\ Kind(t) \in {"forward", "toggle"}
      /\ job[t] \in Jobs /\ Key(t) \in Keys /\ portForwarders \in [Keys -> {"none", "live", "dead", "exited"}]
      /\ forwarders \subseteq Keys
  BY Rounds DEF StopExisting, external
<1>2. \A k \in Keys : k \in forwarders <=> portForwarders[k] = "live"
  BY <1>1 DEF Tracked
<1>3. Key(t)' = Key(t) /\ Kind(t)' = Kind(t)
  BY <1>1 DEF Key, Kind
<1>4. CASE portForwarders[Key(t)] # "none"
  <2>1. Killed(Key(t)) /\ pc'[t] = "remove"
    BY <1>4, Moves DEF StopExisting
  <2>2. /\ forwarders' = forwarders \ {Key(t)}
        /\ \A k \in Keys : portForwarders'[k] = (IF k = Key(t) THEN "dead" ELSE portForwarders[k])
    BY <1>1, <1>2, <2>1 DEF Killed
  <2>3. Placed(t)' /\ Stopped(t)'
    BY <1>1, <1>3, <2>1 DEF Placed, Stopped
  <2>4. Tracked(t)'
    BY <1>1, <1>2, <1>3, <2>1, <2>2 DEF Tracked
  <2>. QED BY <2>3, <2>4
<1>5. CASE portForwarders[Key(t)] = "none"
  <2>1. AfterExisting(t) /\ UNCHANGED <<portForwarders, forwarders>>
    BY <1>5 DEF StopExisting, table
  <2>2. IF job[t].enabled THEN pc'[t] = "start"
        ELSE pc'[t] = (IF Kind(t) = "toggle" THEN "next" ELSE "nics")
    BY <1>1, <2>1, Rounds
  <2>3. Placed(t)' /\ Stopped(t)'
    BY <1>1, <1>3, <2>2 DEF Placed, Stopped
  <2>4. Tracked(t)'
    BY <1>1, <1>2, <1>3, <1>5, <2>1, <2>2 DEF Tracked
  <2>. QED BY <2>3, <2>4
<1>. QED BY <1>4, <1>5

\* The entry of the forwarder that was killed goes.
LEMMA RemoveExistingTable ==
    ASSUME TypeOK, NEW t \in Threads, TableInv(t), RemoveExisting(t)
    PROVE  TableInv(t)'
<1>. USE DEF TableInv
<1>1. /\ pc[t] = "remove" /\ job' = job /\ AfterExisting(t) /\ UNCHANGED <<running, forwarders>>
      /\ portForwarders' = [portForwarders EXCEPT ![Key(t)] = "none"]
  BY DEF RemoveExisting, external
<1>2. /\ job[t] \in Jobs /\ Key(t) \in Keys /\ portForwarders \in [Keys -> {"none", "live", "dead", "exited"}]
      /\ Kind(t) \in {"forward", "toggle"}
      /\ IF job[t].enabled THEN pc'[t] = "start"
         ELSE pc'[t] = (IF Kind(t) = "toggle" THEN "next" ELSE "nics")
  BY <1>1, Rounds
<1>3. Key(t)' = Key(t) /\ Kind(t)' = Kind(t)
  BY <1>1 DEF Key, Kind
<1>4. \A k \in Keys : portForwarders'[k] = (IF k = Key(t) THEN "none" ELSE portForwarders[k])
  BY <1>1, <1>2
<1>5. Placed(t)' /\ Stopped(t)'
  BY <1>1, <1>2, <1>3 DEF Placed, Stopped
<1>6. Tracked(t)'
  BY <1>1, <1>2, <1>3, <1>4 DEF Tracked
<1>. QED BY <1>5, <1>6

\* The process of the new forwarder starts, or fails to: nothing else has its key.
LEMMA StartForwarderTable ==
    ASSUME TypeOK, NEW t \in Threads, TableInv(t), StartForwarder(t)
    PROVE  TableInv(t)'
<1>. USE DEF TableInv
<1>1. /\ pc[t] = "start" /\ job[t].enabled /\ UNCHANGED <<running, portForwarders>>
      /\ job[t] \in Jobs /\ Key(t) \in Keys /\ Kind(t) \in {"forward", "toggle"}
      /\ portForwarders[Key(t)] = "none" /\ ~job[t].stale
      /\ \A k \in Keys : k \in forwarders <=> portForwarders[k] = "live"
      /\ "crash" \notin Faults => \A k \in Keys : portForwarders[k] \notin {"dead", "exited"}
  BY Rounds DEF StartForwarder, external, Placed, Tracked
<1>2. CASE NextRound(t) /\ UNCHANGED <<forwarders, job>>
  <2>1. pc'[t] \in {"next", "nics"} /\ Kind(t)' = Kind(t)
    BY <1>1, <1>2, Rounds DEF Kind
  <2>2. Placed(t)' /\ Stopped(t)'
    BY <1>1, <1>2, <2>1 DEF Placed, Stopped
  <2>3. Tracked(t)'
    BY <1>1, <1>2, <2>1 DEF Tracked
  <2>. QED BY <2>2, <2>3
<1>3. CASE /\ forwarders' = forwarders \cup {Key(t)} /\ Goto(t, "add")
           /\ job' = [job EXCEPT ![t] = [job[t] EXCEPT !.alive = TRUE]]
  <2>1. Is(job'[t], job[t].kind, job[t].nic, job[t].port, job[t].enabled, job[t].seen, job[t].stale, TRUE)
    <3>1. job'[t] = [job[t] EXCEPT !.alive = TRUE] /\ job[t] \in Jobs
      BY <1>1, <1>3, Moves
    <3>2. Is([job[t] EXCEPT !.alive = TRUE], job[t].kind, job[t].nic, job[t].port, job[t].enabled,
             job[t].seen, job[t].stale, TRUE)
      BY <3>1, AliveFields
    <3>. QED BY ONLY <3>1, <3>2, Zenon
  <2>2. pc'[t] = "add" /\ Key(t)' = Key(t) /\ Kind(t)' = Kind(t)
    BY <1>3, <2>1, Moves DEF Is, Key, Kind
  <2>3. Placed(t)' /\ Stopped(t)'
    BY <1>1, <2>1, <2>2 DEF Is, Placed, Stopped
  <2>4. Tracked(t)'
    BY <1>1, <1>3, <2>1, <2>2 DEF Is, Tracked
  <2>. QED BY <2>3, <2>4
<1>. QED BY <1>2, <1>3, Zenon DEF StartForwarder

\* A second later it has an entry, unless it has exited by then.
LEMMA AddForwarderTable ==
    ASSUME TypeOK, NEW t \in Threads, TableInv(t), AddForwarder(t)
    PROVE  TableInv(t)'
<1>. USE DEF TableInv
<1>1. /\ pc[t] = "add" /\ NextRound(t) /\ UNCHANGED <<running, forwarders>> /\ ~job[t].stale
      /\ job[t] \in Jobs /\ Key(t) \in Keys /\ Kind(t) \in {"forward", "toggle"}
      /\ portForwarders[Key(t)] = "none" /\ portForwarders \in [Keys -> {"none", "live", "dead", "exited"}]
      /\ pc'[t] \in {"next", "nics"}
      /\ \A k \in Keys : k \in forwarders <=> portForwarders[k] = "live" \/ (job[t].alive /\ k = Key(t))
      /\ "crash" \notin Faults => \A k \in Keys : portForwarders[k] \notin {"dead", "exited"}
  BY Rounds DEF AddForwarder, external, Placed, Tracked
<1>2. job'[t] = [job[t] EXCEPT !.alive = FALSE]
  <2>1. t \in DOMAIN StaleStop(job) /\ StaleStop(job)[t] = job[t] /\ t \in DOMAIN job
    BY <1>1 DEF StaleStop, Kind, TypeOK
  <2>. QED BY <2>1, Zenon DEF AddForwarder
<1>3. Is(job'[t], job[t].kind, job[t].nic, job[t].port, job[t].enabled, job[t].seen, job[t].stale, FALSE)
  <2>1. Is([job[t] EXCEPT !.alive = FALSE], job[t].kind, job[t].nic, job[t].port,
           job[t].enabled, job[t].seen, job[t].stale, FALSE)
    BY <1>1, AliveFields
  <2>. QED BY ONLY <1>2, <2>1, Zenon
<1>4. portForwarders' = IF job[t].alive THEN [portForwarders EXCEPT ![Key(t)] = "live"] ELSE portForwarders
  BY <1>1 DEF AddForwarder
<1>5. Kind(t)' = Kind(t)
  BY <1>3 DEF Is, Kind
<1>6. Placed(t)' /\ Stopped(t)'
  BY <1>1, <1>3, <1>5 DEF Is, Placed, Stopped
<1>7. Tracked(t)'
  BY <1>1, <1>4 DEF Tracked
<1>. QED BY <1>6, <1>7

\* A forwarder exits by itself: its entry stays, or is not added.
LEMMA ForwarderExitsTable ==
    ASSUME TypeOK, NEW t \in Threads, TableInv(t), NEW k \in Keys, ForwarderExits(k)
    PROVE  TableInv(t)'
<1>. USE DEF TableInv
<1>. DEFINE exits == pc[t] = "add" /\ Key(t) = k
<1>1. /\ k \in forwarders /\ forwarders' = forwarders \ {k} /\ "crash" \in Faults
      /\ portForwarders' = [portForwarders EXCEPT ![k] = IF @ = "live" THEN "exited" ELSE @]
      /\ UNCHANGED <<running, pc>> /\ portForwarders \in [Keys -> {"none", "live", "dead", "exited"}]
      /\ job'[t] = IF exits THEN [job[t] EXCEPT !.alive = FALSE] ELSE job[t]
      /\ job[t] \in Jobs
  BY DEF ForwarderExits, Fault, external, TypeOK
<1>2. \E b : /\ Is(job'[t], job[t].kind, job[t].nic, job[t].port, job[t].enabled, job[t].seen, job[t].stale, b)
             /\ b <=> job[t].alive /\ ~exits
  <2>1. CASE exits
    <3>1. Is(job'[t], job[t].kind, job[t].nic, job[t].port, job[t].enabled, job[t].seen, job[t].stale, FALSE)
      <4>1. Is([job[t] EXCEPT !.alive = FALSE], job[t].kind, job[t].nic, job[t].port, job[t].enabled,
               job[t].seen, job[t].stale, FALSE)
        BY <1>1, AliveFields
      <4>2. job'[t] = [job[t] EXCEPT !.alive = FALSE]
        BY ONLY <1>1, <2>1
      <4>. QED BY ONLY <4>1, <4>2, Zenon
    <3>. QED BY <2>1, <3>1
  <2>2. CASE ~exits
    <3>1. Is(job'[t], job[t].kind, job[t].nic, job[t].port, job[t].enabled, job[t].seen,
             job[t].stale, job[t].alive)
      BY <1>1, <2>2 DEF Is
    <3>. QED BY <2>2, <3>1
  <2>. QED BY <2>1, <2>2
<1>3. Key(t)' = Key(t) /\ Kind(t)' = Kind(t) /\ ((job[t].alive)' <=> job[t].alive /\ ~exits)
  BY <1>2 DEF Is, Key, Kind
<1>4. \A l \in Keys : portForwarders'[l] =
          (IF l = k /\ portForwarders[k] = "live" THEN "exited" ELSE portForwarders[l])
  BY <1>1
<1>5. Placed(t)' /\ Stopped(t)'
  BY <1>1, <1>2, <1>3, <1>4 DEF Is, Placed, Stopped
<1>6. Tracked(t)'
  <2>1. \A l \in Keys : l \in forwarders' <=>
            portForwarders'[l] = "live" \/ (pc'[t] = "add" /\ (job[t].alive)' /\ l = Key(t)')
    BY <1>1, <1>3, <1>4 DEF Tracked
  <2>2. /\ pc'[t] = "remove" => portForwarders'[Key(t)'] = "dead"
        /\ pc'[t] \in {"start", "add"} => portForwarders'[Key(t)'] = "none"
    <3>1. pc[t] \in {"remove", "start", "add"} => Key(t) \in Keys
      BY Rounds
    <3>. QED BY <1>1, <1>3, <1>4, <3>1 DEF Tracked
  <2>. QED BY <1>1, <2>1, <2>2 DEF Tracked
<1>. QED BY <1>5, <1>6

\* Stop begins when no other call is under way.
LEMMA BeginStopTable ==
    ASSUME TypeOK, NEW t \in Threads, TableInv(t), BeginStop(t)
    PROVE  TableInv(t)'
<1>1. /\ pc[t] = "idle" /\ ~running' /\ pc'[t] = "kill" /\ UNCHANGED <<portForwarders, forwarders>>
  BY Moves DEF BeginStop, table
<1>2. Is(job'[t], "stop", None, None, FALSE, {}, FALSE, FALSE)
  <2>1. job'[t] = [NoJob EXCEPT !.kind = "stop"]
    BY Moves, Zenon DEF BeginStop
  <2>. QED BY <2>1, NewFields, Zenon
<1>. QED BY <1>1, <1>2 DEF Is, TableInv, Placed, Tracked, Stopped, Kind

\* Stop kills a forwarder, or has killed all of them.
LEMMA StopPortForwardingTable ==
    ASSUME TypeOK, NEW t \in Threads, TableInv(t), StopPortForwarding(t)
    PROVE  TableInv(t)'
<1>. USE DEF TableInv
<1>1. /\ pc[t] = "kill" /\ Kind(t) = "stop" /\ ~running /\ ~running' /\ job[t] \in Jobs /\ ~job[t].stale
      /\ portForwarders \in [Keys -> {"none", "live", "dead", "exited"}] /\ forwarders \subseteq Keys
      /\ \A k \in Keys : k \in forwarders <=> portForwarders[k] = "live"
  BY DEF StopPortForwarding, Placed, Tracked, TypeOK, external
<1>2. ASSUME NEW k \in Keys, Killed(k), UNCHANGED pc,
             job' = [job EXCEPT ![t] = [job[t] EXCEPT !.seen = @ \cup {k}]]
      PROVE  TableInv(t)'
  <2>1. Is(job'[t], job[t].kind, job[t].nic, job[t].port, job[t].enabled, job[t].seen \cup {k},
           job[t].stale, job[t].alive)
    <3>1. job'[t] = [job[t] EXCEPT !.seen = @ \cup {k}] /\ job[t] \in Jobs
      BY <1>1, <1>2, Moves
    <3>2. Is([job[t] EXCEPT !.seen = @ \cup {k}], job[t].kind, job[t].nic, job[t].port, job[t].enabled,
             job[t].seen \cup {k}, job[t].stale, job[t].alive)
      BY <3>1, SeenFields
    <3>. QED BY ONLY <3>1, <3>2, Zenon
  <2>2. /\ \A l \in Keys : portForwarders'[l] = (IF l = k THEN "dead" ELSE portForwarders[l])
        /\ forwarders' = forwarders \ {k}
    BY <1>1, <1>2 DEF Killed
  <2>3. Placed(t)' /\ Stopped(t)'
    BY <1>1, <1>2, <2>1, <2>2 DEF Is, Placed, Stopped, Kind
  <2>4. Tracked(t)'
    BY <1>1, <1>2, <2>2 DEF Tracked
  <2>. QED BY <2>3, <2>4
<1>3. ASSUME \A k \in Keys \ job[t].seen : portForwarders[k] = "none", Goto(t, "clear"),
             UNCHANGED <<table, job>>
      PROVE  TableInv(t)'
  <2>1. pc'[t] = "clear" /\ UNCHANGED <<portForwarders, forwarders, job>>
    BY <1>3, Moves DEF table
  <2>2. forwarders = {}
    BY <1>1, <1>3 DEF Stopped
  <2>. QED BY <1>1, <2>1, <2>2 DEF Placed, Tracked, Stopped, Kind
<1>4. CASE \E k \in Keys \ job[t].seen :
              Killed(k) /\ job' = [job EXCEPT ![t].seen = @ \cup {k}] /\ UNCHANGED pc
  BY <1>2, <1>4, Zenon
<1>. QED BY <1>1, <1>3, <1>4 DEF StopPortForwarding

\* The table is cleared of forwarders that have been killed, and Stop ends.
LEMMA StopEndsTable ==
    ASSUME TypeOK, NEW t \in Threads, TableInv(t), ClearForwarders(t) \/ Terminate(t)
    PROVE  TableInv(t)'
<1>. USE DEF TableInv
<1>1. CASE ClearForwarders(t)
  <2>1. /\ pc[t] = "clear" /\ pc'[t] = "terminate" /\ forwarders = {}
        /\ portForwarders' = [k \in Keys |-> "none"] /\ UNCHANGED <<running, forwarders, job>>
    BY <1>1, Moves DEF ClearForwarders, Stopped, external
  <2>. QED BY <2>1 DEF Placed, Tracked, Stopped, Kind
<1>2. CASE Terminate(t)
  <2>1. /\ pc[t] = "terminate" /\ pc'[t] = "idle" /\ UNCHANGED <<portForwarders, forwarders>>
    BY <1>2, Moves DEF Terminate, table
  <2>2. Is(job'[t], "none", None, None, FALSE, {}, FALSE, FALSE)
    BY <1>2, Moves, NewFields DEF Terminate
  <2>. QED BY <2>1, <2>2, TableRests DEF Is, Kind
<1>. QED BY <1>1, <1>2

\* Containers and the start of the engine leave the table alone.
LEMMA OutsideTable ==
    ASSUME TypeOK, NEW t \in Threads, Threads = {t}, TableInv(t),
           Start \/ \E p \in Ports : Publish(p) \/ Unpublish(p)
    PROVE  TableInv(t)'
<1>. USE DEF TableInv
<1>1. CASE Start
  <2>1. /\ pc[t] = "idle" /\ UNCHANGED <<pc, portForwarders, forwarders>> /\ Kind(t) = "none"
        /\ job'[t] = [job[t] EXCEPT !.current = FALSE] /\ job[t] \in Jobs
    BY <1>1 DEF Start, table, TypeOK, Placed
  <2>2. Kind(t)' = "none" /\ ~(job[t].stale)'
    BY <2>1, CurrentFields DEF Is, Kind, Placed
  <2>. QED BY <2>1, <2>2, TableRests
<1>2. CASE \E p \in Ports : Publish(p) \/ Unpublish(p)
  <2>1. UNCHANGED <<running, pc, job, portForwarders, forwarders>>
    BY <1>2 DEF Publish, Unpublish, table
  <2>. QED BY <2>1 DEF Placed, Tracked, Stopped, Kind, Key
<1>. QED BY <1>1, <1>2

\* The table is empty and no call has begun.
LEMMA InitTable ==
    ASSUME NEW t \in Threads, Init PROVE TableInv(t)
<1>1. /\ pc[t] = "idle" /\ job[t] = NoJob /\ forwarders = {} /\ \A k \in Keys : portForwarders[k] = "none"
  BY DEF Init
<1>2. Is(job[t], "none", None, None, FALSE, {}, FALSE, FALSE)
  BY <1>1, NewFields
<1>. QED BY <1>1, <1>2 DEF Is, TableInv, Placed, Tracked, Stopped, Kind

\* Every step of the only thread, and of everything around it, keeps the table right.
LEMMA StepTable ==
    ASSUME NEW t, Threads = {t}, TypeOK, TableInv(t), [Next]_vars
    PROVE  TableInv(t)'
<1>1. CASE CallStep(t)
  BY <1>1, RoundsTable, StopExistingTable, RemoveExistingTable, StartForwarderTable,
     AddForwarderTable, StopPortForwardingTable, StopEndsTable DEF CallStep
<1>2. CASE ForwardPort(t) \/ \E n \in Nics : Click(t, n)
  BY <1>2, RoundsTable
<1>3. CASE BeginStop(t)
  BY <1>3, BeginStopTable
<1>4. CASE Start \/ \E p \in Ports : Publish(p) \/ Unpublish(p)
  BY <1>4, OutsideTable
<1>5. CASE \E k \in Keys : ForwarderExits(k)
  BY <1>5, ForwarderExitsTable
<1>6. CASE UNCHANGED vars
  BY <1>6 DEF vars, external, table, TableInv, Placed, Tracked, Stopped, Kind, Key
<1>. QED BY <1>1, <1>2, <1>3, <1>4, <1>5, <1>6 DEF Next

\* With one call at a time, whatever fails, and as long as no forwarder exits by itself:
\* _portForwarders holds exactly the forwarders that run.
THEOREM ForwardersAlwaysTracked ==
    ASSUME NEW CONSTANT t, Threads = {t}, "crash" \notin Faults
    PROVE  Spec => []ForwardersAreTracked
<1>1. Init => TypeOK /\ TableInv(t)
  BY InitTypeOK, InitTable
<1>2. TypeOK /\ TableInv(t) /\ [Next]_vars => (TypeOK /\ TableInv(t))'
  BY StepTypeOK, StepTable
<1>3. TypeOK /\ TableInv(t) => ForwardersAreTracked
  <2>. SUFFICES ASSUME TypeOK, TableInv(t), pc[t] = "idle", NEW k \in Keys
                PROVE  portForwarders[k] = IF k \in forwarders THEN "live" ELSE "none"
    BY DEF ForwardersAreTracked, Quiet
  <2>1. portForwarders[k] \in {"none", "live", "dead", "exited"}
    BY DEF TypeOK
  <2>. QED BY <2>1 DEF TableInv, Tracked
<1>. QED BY <1>1, <1>2, <1>3, PTL DEF Spec

\* With one call at a time, whatever fails: StopPortForwarding forgets no forwarder, so that
\* none runs, and none is in the table, when Stop comes to end the distribution.
THEOREM StopAlwaysClears ==
    ASSUME NEW CONSTANT t, Threads = {t}
    PROVE  Spec => []StopLeavesNothing
<1>1. Init => TypeOK /\ TableInv(t)
  BY InitTypeOK, InitTable
<1>2. TypeOK /\ TableInv(t) /\ [Next]_vars => (TypeOK /\ TableInv(t))'
  BY StepTypeOK, StepTable
<1>3. TypeOK /\ TableInv(t) => StopLeavesNothing
  BY DEF TableInv, Stopped, StopLeavesNothing
<1>. QED BY <1>1, <1>2, <1>3, PTL DEF Spec

-----------------------------------------------------------------------------
(* One call at a time: what is exposed                                     *)

\* Nothing is published, handled, forwarded or stopped before the first Start.
Configured(t) ==
    ( \/ running \/ distro \/ socket # <<>> \/ published # {} \/ forwarders # {}
      \/ Kind(t) = "forward" \/ pc[t] \in {"next", "look", "remove", "start", "add", "config"})
        => dnsConfigurator

\* The forwarder a call works on is not yet as it is to be.
Working(t) == pc[t] \in {"look", "remove", "start"}

\* A key that the interfaces say is exposed when its port is.
Reach(n, p) == n \in interfaces \/ (n = Loopback /\ p \in Udp)

\* What ForwardPort has done, for the interfaces that its foreach has passed.
Forwarding(t) ==
    Kind(t) = "forward" =>
        /\ job[t].port \in ports <=> job[t].enabled
        /\ pc[t] \in {"enter", "look", "remove", "start", "add"} => Reach(job[t].nic, job[t].port)
        /\ \A n \in job[t].seen : Reach(n, job[t].port) =>
               \/ n = job[t].nic /\ (Working(t) \/ pc[t] = "enter")
               \/ <<n, job[t].port>> \in forwarders <=> job[t].enabled

\* What a toggle has done, for the ports that its foreach has passed.
Toggling(t) ==
    Kind(t) = "toggle" =>
        /\ pc[t] # "begin" => (job[t].enabled <=> job[t].nic \in forwarded)
        /\ pc[t] \in {"begin", "enter"} => job[t].seen = {}
        /\ pc[t] = "config" => ports \subseteq job[t].seen
        /\ pc[t] \in {"look", "remove", "start", "add"} => job[t].port \in ports
        /\ \A p \in job[t].seen :
               \/ p = job[t].port /\ Working(t)
               \/ <<job[t].nic, p>> \in forwarders <=> job[t].enabled

\* The call works on this key, or will.
Own(t, n, p) ==
    \/ Kind(t) = "forward" /\ p = job[t].port
    \/ Kind(t) = "toggle" /\ n = job[t].nic

\* Nothing is exposed that is not to be, but for what the call works on.
NothingElse(t) ==
    \A n \in Nics \cup {Loopback}, p \in Ports : <<n, p>> \in forwarders =>
        /\ Reach(n, p) \/ (Kind(t) = "toggle" /\ n = job[t].nic)
        /\ p \in ports \/ (Kind(t) = "forward" /\ p = job[t].port)

\* No message about a port is on its way; or the last one opens it.
NoMessage(p) == \A i \in DOMAIN socket : socket[i].port # p
OpenLast(p) ==
    \A i \in DOMAIN socket :
        socket[i].port = p /\ (\A h \in DOMAIN socket : h > i => socket[h].port # p) => socket[i].open

\* What is published is exposed, but for what is on its way and what the call works on.
Published(t) ==
    running => \A p \in published :
        /\ OpenLast(p)
        /\ NoMessage(p) =>
            /\ p \in ports
            /\ \A n \in Nics \cup {Loopback} :
                  Reach(n, p) => <<n, p>> \in forwarders \/ Own(t, n, p)

\* All of it: inductive as long as t is the only thread that calls, and nothing fails but Stop.
SeqInv(t) ==
    /\ TableInv(t) /\ Configured(t) /\ Forwarding(t) /\ Toggling(t)
    /\ NothingElse(t) /\ Published(t)

-----------------------------------------------------------------------------
(* Messages                                                                *)

\* A message that comes is the last one of its port.
LEMMA MessageComes ==
    ASSUME TypeOK, NEW o \in BOOLEAN, NEW q \in Ports,
           socket' = Append(socket, [open |-> o, port |-> q])
    PROVE  /\ ~NoMessage(q)' /\ (o => OpenLast(q)')
           /\ \A p : p # q => (NoMessage(p)' => NoMessage(p)) /\ (OpenLast(p) => OpenLast(p)')
<1>. DEFINE M == [open : BOOLEAN, port : Ports]
            m == [open |-> o, port |-> q]
            s == Append(socket, m)
<1>1. socket \in Seq(M) /\ m \in M /\ m.open = o /\ m.port = q
  BY Zenon DEF TypeOK
<1>. HIDE DEF M, m
<1>2. /\ DOMAIN socket = 1..Len(socket) /\ Len(socket) \in Nat /\ DOMAIN s = 1..(Len(socket) + 1)
      /\ s[Len(socket) + 1] = m /\ \A i \in 1..Len(socket) : s[i] = socket[i]
  BY <1>1
<1>3. socket' = s
  BY DEF m
<1>. HIDE DEF s
<1>4. ~NoMessage(q)'
  BY <1>1, <1>2, <1>3 DEF NoMessage
<1>5. o => OpenLast(q)'
  <2>. SUFFICES ASSUME o, NEW i \in DOMAIN s, s[i].port = q, \A h \in DOMAIN s : h > i => s[h].port # q
                PROVE  s[i].open
    BY <1>3 DEF OpenLast
  <2>1. i = Len(socket) + 1
    BY <1>1, <1>2
  <2>. QED BY <1>1, <1>2, <2>1, Zenon
<1>6. ASSUME NEW p, p # q
      PROVE  (NoMessage(p)' => NoMessage(p)) /\ (OpenLast(p) => OpenLast(p)')
  <2>1. NoMessage(p)' => NoMessage(p)
    BY <1>2, <1>3 DEF NoMessage
  <2>2. ASSUME OpenLast(p), NEW i \in DOMAIN s, s[i].port = p,
               \A h \in DOMAIN s : h > i => s[h].port # p
        PROVE  s[i].open
    <3>1. i \in 1..Len(socket) /\ s[i] = socket[i]
      BY <1>1, <1>2, <1>6, <2>2
    <3>2. \A h \in 1..Len(socket) : h > i => socket[h].port # p
      BY <1>2, <2>2
    <3>3. socket[i].open
      BY <1>2, <2>2, <3>1, <3>2 DEF OpenLast
    <3>. QED BY <3>1, <3>3, Zenon
  <2>3. OpenLast(p) => OpenLast(p)'
    BY <1>3, <2>2 DEF OpenLast
  <2>. QED BY <2>1, <2>3
<1>. QED BY <1>4, <1>5, <1>6

\* The first message goes.
LEMMA MessageGoes ==
    ASSUME TypeOK, socket # <<>>, socket' = Tail(socket), NEW p
    PROVE  /\ OpenLast(p) => OpenLast(p)'
           /\ NoMessage(p)' /\ OpenLast(p) =>
                  (NoMessage(p) /\ p # Head(socket).port) \/ (p = Head(socket).port /\ Head(socket).open)
<1>. DEFINE M == [open : BOOLEAN, port : Ports]
            s == Tail(socket)
<1>1. socket \in Seq(M)
  BY Zenon DEF TypeOK
<1>. HIDE DEF M
<1>2. /\ DOMAIN socket = 1..Len(socket) /\ Len(socket) \in Nat \ {0} /\ DOMAIN s = 1..(Len(socket) - 1)
      /\ socket[1] = Head(socket) /\ \A i \in 1..(Len(socket) - 1) : s[i] = socket[i + 1]
  BY <1>1
<1>3. socket' = s
  OBVIOUS
<1>. HIDE DEF s
<1>4. ASSUME OpenLast(p), NEW i \in DOMAIN s, s[i].port = p, \A h \in DOMAIN s : h > i => s[h].port # p
      PROVE  s[i].open
  <2>1. i \in 1..(Len(socket) - 1) /\ i + 1 \in DOMAIN socket /\ s[i] = socket[i + 1]
    BY <1>2
  <2>2. ASSUME NEW h \in DOMAIN socket, h > i + 1 PROVE socket[h].port # p
    <3>1. h - 1 \in 1..(Len(socket) - 1) /\ h - 1 > i /\ (h - 1) + 1 = h
      BY <1>2, <2>1, <2>2
    <3>2. s[h - 1] = socket[h]
      BY <1>2, <3>1
    <3>. QED BY <1>2, <1>4, <3>1, <3>2
  <2>3. socket[i + 1].open
    BY <1>4, <2>1, <2>2 DEF OpenLast
  <2>. QED BY <2>1, <2>3, Zenon
<1>5. OpenLast(p) => OpenLast(p)'
  BY <1>3, <1>4 DEF OpenLast
<1>6. ASSUME NoMessage(p)', OpenLast(p)
      PROVE  (NoMessage(p) /\ p # Head(socket).port) \/ (p = Head(socket).port /\ Head(socket).open)
  <2>1. \A h \in DOMAIN socket : h > 1 => socket[h].port # p
    <3>. SUFFICES ASSUME NEW h \in DOMAIN socket, h > 1 PROVE socket[h].port # p
      OBVIOUS
    <3>1. h - 1 \in 1..(Len(socket) - 1) /\ (h - 1) + 1 = h
      BY <1>2
    <3>2. s[h - 1] = socket[h] /\ h - 1 \in DOMAIN s
      BY <1>2, <3>1
    <3>. QED BY <1>3, <1>6, <3>2, Zenon DEF NoMessage
  <2>2. 1 \in DOMAIN socket /\ \A h \in DOMAIN socket : h = 1 \/ h > 1
    BY <1>2
  <2>3. CASE socket[1].port = p
    <3>1. socket[1].open
      BY <1>6, <2>1, <2>2, <2>3 DEF OpenLast
    <3>. QED BY <1>2, <2>3, <3>1, Zenon
  <2>4. CASE socket[1].port # p
    <3>1. NoMessage(p)
      BY <2>1, <2>2, <2>4 DEF NoMessage
    <3>. QED BY <1>2, <2>4, <3>1, Zenon
  <2>. QED BY <2>3, <2>4
<1>. QED BY <1>5, <1>6

-----------------------------------------------------------------------------
(* Containers, the start of the engine and ForwardPort                     *)

\* Without failures but those of Stop, a container's message is sent.
LEMMA SendArrives ==
    ASSUME Faults \subseteq {"stop"}, NEW o, NEW p, Send(o, p)
    PROVE  socket' = Append(socket, [open |-> o, port |-> p])
  BY DEF Send, Fault

\* What is claimed of a thread's place and of the table, when only containers change.
LEMMA ContainersSeq ==
    ASSUME TypeOK, Faults \subseteq {"stop"}, NEW t \in Threads, SeqInv(t), TableInv(t)',
           NEW p \in Ports, Publish(p) \/ Unpublish(p)
    PROVE  SeqInv(t)'
<1>. USE DEF SeqInv, TableInv
<1>1. /\ UNCHANGED <<distro, running, dnsConfigurator, ports, portForwarders, forwarders, interfaces,
                     forwarded, pc, job>>
      /\ published' = published \cup {p} \/ published' = published \ {p}
  BY DEF Publish, Unpublish, table, choice
<1>2. Forwarding(t)' /\ Toggling(t)' /\ NothingElse(t)'
  BY <1>1 DEF Forwarding, Toggling, NothingElse, Kind, Key, Working, Reach
<1>3. Configured(t)'
  BY <1>1 DEF Configured, Kind, Publish, Unpublish
<1>4. /\ ~NoMessage(p)' /\ (p \in published' => OpenLast(p)')
      /\ \A q : q # p => (NoMessage(q)' => NoMessage(q)) /\ (OpenLast(q) => OpenLast(q)')
  <2>1. CASE Publish(p)
    <3>1. socket' = Append(socket, [open |-> TRUE, port |-> p])
      BY <2>1, SendArrives DEF Publish
    <3>. QED BY <3>1, MessageComes
  <2>2. CASE Unpublish(p)
    <3>1. socket' = Append(socket, [open |-> FALSE, port |-> p]) /\ p \notin published'
      BY <2>2, SendArrives DEF Unpublish
    <3>. QED BY <3>1, MessageComes
  <2>. QED BY <2>1, <2>2
<1>5. Published(t)'
  <2>1. \A n, q : Own(t, n, q)' <=> Own(t, n, q)
    BY <1>1 DEF Own, Kind
  <2>2. \A n, q : Reach(n, q)' <=> Reach(n, q)
    BY <1>1 DEF Reach
  <2>3. \A q \in published' : q = p \/ q \in published
    BY <1>1
  <2>. QED BY <1>1, <1>4, <2>1, <2>2, <2>3 DEF Published
<1>. QED BY <1>2, <1>3, <1>5

\* A Start begins with nothing published.
LEMMA StartSeq ==
    ASSUME TypeOK, NEW t \in Threads, Threads = {t}, SeqInv(t), TableInv(t)', Start
    PROVE  SeqInv(t)'
<1>. USE DEF SeqInv, TableInv
<1>1. /\ UNCHANGED <<ports, portForwarders, forwarders, interfaces, forwarded, pc>>
      /\ dnsConfigurator' /\ published' = {} /\ job'[t] = [job[t] EXCEPT !.current = FALSE]
      /\ Kind(t) # "stop"
  BY DEF Start, table, choice, Kind
<1>2. Is(job'[t], job[t].kind, job[t].nic, job[t].port, job[t].enabled, job[t].seen,
         job[t].stale, job[t].alive)
  <2>1. job[t] \in Jobs
    BY DEF TypeOK
  <2>2. Is([job[t] EXCEPT !.current = FALSE], job[t].kind, job[t].nic, job[t].port, job[t].enabled,
           job[t].seen, job[t].stale, job[t].alive)
    BY <2>1, CurrentFields
  <2>. QED BY ONLY <1>1, <2>2, Zenon
<1>3. Forwarding(t)' /\ Toggling(t)' /\ NothingElse(t)'
  BY <1>1, <1>2 DEF Is, Forwarding, Toggling, NothingElse, Kind, Key,
     Working, Reach
<1>. QED BY <1>1, <1>3 DEF Configured, Published

\* ForwardPort takes over the port of the first message.
LEMMA ForwardPortSeq ==
    ASSUME TypeOK, NEW t \in Threads, SeqInv(t), TableInv(t)', ForwardPort(t)
    PROVE  SeqInv(t)'
<1>. DEFINE m == Head(socket)
<1>. USE DEF SeqInv, TableInv
<1>1. /\ pc[t] = "idle" /\ pc'[t] = "nics" /\ socket # <<>> /\ socket' = Tail(socket)
      /\ ports' = (IF m.open THEN ports \cup {m.port} ELSE ports \ {m.port})
      /\ UNCHANGED <<distro, running, dnsConfigurator, published, portForwarders, forwarders,
                     interfaces, forwarded>>
  BY Moves DEF ForwardPort, table, choice
<1>2. job'[t] = ForwardJob(m)
  <2>1. t \in DOMAIN job /\ t \in DOMAIN Stale(job)
    BY DEF TypeOK, Stale
  <2>. QED BY <2>1, Zenon DEF ForwardPort
<1>3. Is(job'[t], "forward", None, m.port, m.open, IF interfaces = {} THEN Nics ELSE {}, FALSE, FALSE)
  BY <1>2, NewFields
<1>4. m.open \in BOOLEAN /\ m.port \in Ports
  <2>. DEFINE M == [open : BOOLEAN, port : Ports]
  <2>1. socket \in Seq(M) /\ socket # <<>>
    BY <1>1 DEF TypeOK
  <2>. HIDE DEF M
  <2>2. Head(socket) \in M
    BY <2>1
  <2>. QED BY <2>2 DEF M
<1>. HIDE DEF m
<1>5. Kind(t) = "none" /\ dnsConfigurator
  BY <1>1 DEF Placed, Configured
<1>6. Configured(t)' /\ Toggling(t)'
  BY <1>1, <1>3, <1>5 DEF Is, Configured, Toggling, Kind
<1>7. Forwarding(t)'
  <2>1. \A n \in job'[t].seen : n \notin interfaces' /\ n # Loopback
    BY <1>1, <1>3, PortAssumption DEF Is
  <2>2. m.port \in ports' <=> m.open
    BY <1>1
  <2>. QED BY <1>1, <1>3, <2>1, <2>2 DEF Is, Forwarding, Reach
<1>8. NothingElse(t)'
  <2>1. \A n, p : Reach(n, p)' <=> Reach(n, p)
    BY <1>1 DEF Reach
  <2>2. \A p \in ports : p \in ports' \/ p = m.port
    BY <1>1
  <2>. QED BY <1>1, <1>3, <1>5, <2>1, <2>2 DEF Is, NothingElse, Kind
<1>9. Published(t)'
  <2>. SUFFICES ASSUME running, NEW p \in published
                PROVE  /\ OpenLast(p)'
                       /\ NoMessage(p)' =>
                            /\ p \in ports'
                            /\ \A n \in Nics \cup {Loopback} :
                                  Reach(n, p)' => <<n, p>> \in forwarders' \/ Own(t, n, p)'
    BY <1>1 DEF Published
  <2>1. OpenLast(p)' /\ (NoMessage(p)' => (NoMessage(p) /\ p # m.port) \/ (p = m.port /\ m.open))
    BY <1>1, MessageGoes DEF Published, m
  <2>2. CASE p = m.port /\ m.open
    BY <1>1, <1>3, <2>1, <2>2 DEF Is, Own, Kind
  <2>3. CASE NoMessage(p) /\ p # m.port
    BY <1>1, <1>5, <2>1, <2>3 DEF Published, Own, Reach
  <2>. QED BY <2>1, <2>2, <2>3
<1>. QED BY <1>6, <1>7, <1>8, <1>9

-----------------------------------------------------------------------------
(* The foreach of ForwardPort, and the menu                                *)

\* ForwardPort goes on to an interface, or has been at all of them.
LEMMA NextNicSeq ==
    ASSUME TypeOK, NEW t \in Threads, SeqInv(t), TableInv(t)', NextNic(t)
    PROVE  SeqInv(t)'
<1>. USE DEF SeqInv, TableInv
<1>1. /\ pc[t] = "nics" /\ job[t] \in Jobs /\ Kind(t) = "forward" /\ job[t].port \in Ports
      /\ dnsConfigurator
      /\ UNCHANGED <<distro, running, dnsConfigurator, published, socket, ports, portForwarders,
                     forwarders, interfaces, forwarded>>
  BY DEF NextNic, TypeOK, Equipped, Kind, external, table, choice, Configured
<1>2. /\ \A n, p : Reach(n, p)' <=> Reach(n, p)
      /\ \A p : (NoMessage(p)' <=> NoMessage(p)) /\ (OpenLast(p)' <=> OpenLast(p))
  BY <1>1 DEF Reach, NoMessage, OpenLast
<1>3. ASSUME NEW n \in Nics \cup {Loopback}, job' = [job EXCEPT ![t] = OnNic(job[t], n)],
             IF Reach(n, job[t].port) THEN pc'[t] = "enter" ELSE pc'[t] = "nics"
      PROVE  SeqInv(t)'
  <2>1. Is(job'[t], "forward", n, job[t].port, job[t].enabled, job[t].seen \cup {n},
           job[t].stale, job[t].alive)
    <3>1. job'[t] = OnNic(job[t], n)
      BY <1>1, <1>3, Moves
    <3>2. Is(OnNic(job[t], n), job[t].kind, n, job[t].port, job[t].enabled, job[t].seen \cup {n},
             job[t].stale, job[t].alive)
      BY <1>1, OnNicFields
    <3>. QED BY <1>1, <3>1, <3>2 DEF Kind
  <2>2. Configured(t)' /\ Toggling(t)'
    BY <1>1, <1>3, <2>1 DEF Is, Configured, Toggling, Kind
  <2>3. Forwarding(t)'
    BY <1>1, <1>3, <2>1 DEF Is, Forwarding, Kind, Working, Reach
  <2>4. NothingElse(t)'
    BY <1>1, <1>3, <2>1 DEF Is, NothingElse, Kind, Reach
  <2>5. Published(t)'
    BY <1>1, <1>2, <1>3, <2>1 DEF Is, Published, Own, Kind
  <2>. QED BY <2>2, <2>3, <2>4, <2>5
<1>4. ASSUME Nics \subseteq job[t].seen, job[t].port \in Udp => Loopback \in job[t].seen, Return(t)
      PROVE  SeqInv(t)'
  <2>1. pc'[t] = "idle" /\ Is(job'[t], "none", None, None, FALSE, {}, FALSE, FALSE)
    BY <1>4, Moves, NewFields
  <2>2. Configured(t)' /\ Toggling(t)' /\ Forwarding(t)'
    BY <1>1, <2>1 DEF Is, Configured, Toggling, Forwarding, Kind
  <2>3. \A n \in Nics \cup {Loopback} : Reach(n, job[t].port)
            => (<<n, job[t].port>> \in forwarders <=> job[t].port \in ports)
    <3>1. \A n \in Nics \cup {Loopback} : Reach(n, job[t].port) => n \in job[t].seen
      BY <1>4 DEF Reach, TypeOK
    <3>. QED BY <1>1, <3>1 DEF Forwarding, Working
  <2>4. NothingElse(t)'
    BY <1>1, <1>2, <2>1, <2>3 DEF Is, NothingElse, Kind
  <2>5. Published(t)'
    BY <1>1, <1>2, <2>1, <2>3 DEF Is, Published, Own, Kind
  <2>. QED BY <2>2, <2>4, <2>5
<1>5. ASSUME NEW n \in Nics, job' = [job EXCEPT ![t] = OnNic(job[t], n)],
             IF n \in interfaces THEN Goto(t, "enter") ELSE UNCHANGED pc
      PROVE  SeqInv(t)'
  BY <1>1, <1>3, <1>5, Moves, PortAssumption DEF Reach
<1>6. ASSUME job[t].port \in Udp, job' = [job EXCEPT ![t] = OnNic(job[t], Loopback)], Goto(t, "enter")
      PROVE  SeqInv(t)'
  BY <1>3, <1>6, Moves DEF Reach
<1>. QED BY <1>4, <1>5, <1>6 DEF NextNic

\* A click starts a toggle.
LEMMA ClickSeq ==
    ASSUME TypeOK, NEW t \in Threads, SeqInv(t), TableInv(t)', NEW n \in Nics, Click(t, n)
    PROVE  SeqInv(t)'
<1>. USE DEF SeqInv, TableInv
<1>1. /\ pc[t] = "idle" /\ pc'[t] = "begin" /\ Kind(t) = "none"
      /\ UNCHANGED <<distro, running, dnsConfigurator, published, socket, ports, portForwarders,
                     forwarders, interfaces>>
  BY Moves DEF Click, Placed, external, table
<1>2. Is(job'[t], "toggle", n, None, FALSE, {}, FALSE, FALSE)
  <2>1. job'[t] = [NoJob EXCEPT !.kind = "toggle", !.nic = n]
    BY Moves, Zenon DEF Click
  <2>. QED BY <2>1, NewFields, Zenon
<1>3. Configured(t)' /\ Forwarding(t)' /\ Toggling(t)'
  BY <1>1, <1>2 DEF Is, Configured, Forwarding, Toggling, Kind
<1>4. NothingElse(t)' /\ Published(t)'
  BY <1>1, <1>2 DEF Is, NothingElse, Published, Own, Kind, Reach, NoMessage, OpenLast
<1>. QED BY <1>3, <1>4

\* A toggle reads the menu item.
LEMMA BeginToggleSeq ==
    ASSUME TypeOK, NEW t \in Threads, SeqInv(t), TableInv(t)', BeginToggle(t)
    PROVE  SeqInv(t)'
<1>. USE DEF SeqInv, TableInv
<1>. DEFINE b == job[t].nic \in forwarded
<1>1. /\ pc[t] = "begin" /\ pc'[t] = "enter" /\ Kind(t) = "toggle" /\ job[t] \in Jobs
      /\ UNCHANGED <<distro, running, dnsConfigurator, published, socket, ports, portForwarders,
                     forwarders, interfaces, forwarded>>
  BY Moves DEF BeginToggle, TypeOK, Equipped, Kind, external, table, choice
<1>2. job' = [job EXCEPT ![t] = [job[t] EXCEPT !.enabled = b]]
  BY Zenon DEF BeginToggle
<1>. HIDE DEF b
<1>3. Is(job'[t], "toggle", job[t].nic, job[t].port, b, job[t].seen, job[t].stale, job[t].alive)
  <2>1. job'[t] = [job[t] EXCEPT !.enabled = b]
    BY <1>2, Moves
  <2>2. Is(job'[t], job[t].kind, job[t].nic, job[t].port, b, job[t].seen, job[t].stale, job[t].alive)
    <3>1. job[t] \in Jobs
      BY <1>1
    <3>2. Is([job[t] EXCEPT !.enabled = b],
             job[t].kind, job[t].nic, job[t].port, b, job[t].seen, job[t].stale, job[t].alive)
      BY <3>1, EnabledFields
    <3>. QED BY ONLY <2>1, <3>2, Zenon
  <2>. QED BY <1>1, <2>2 DEF Kind
<1>4. Configured(t)' /\ Forwarding(t)'
  BY <1>1, <1>3 DEF Is, Configured, Forwarding, Kind
<1>5. Toggling(t)'
  BY <1>1, <1>3 DEF Is, Toggling, Kind, b
<1>6. NothingElse(t)' /\ Published(t)'
  BY <1>1, <1>3 DEF Is, NothingElse, Published, Own, Kind, Reach, NoMessage, OpenLast
<1>. QED BY <1>4, <1>5, <1>6

\* A toggle that has been at all ports saves what the menu item says.
LEMMA SaveToggleSeq ==
    ASSUME TypeOK, NEW t \in Threads, SeqInv(t), TableInv(t)', SaveToggle(t)
    PROVE  SeqInv(t)'
<1>. USE DEF SeqInv, TableInv
<1>1. /\ pc[t] = "config" /\ pc'[t] = "idle" /\ Kind(t) = "toggle" /\ job[t].nic \in Nics
      /\ Is(job'[t], "none", None, None, FALSE, {}, FALSE, FALSE)
      /\ interfaces' = (IF job[t].enabled THEN interfaces \cup {job[t].nic} ELSE interfaces \ {job[t].nic})
      /\ UNCHANGED <<distro, running, dnsConfigurator, published, socket, ports, portForwarders,
                     forwarders, forwarded>>
  BY Moves, NewFields DEF SaveToggle, TypeOK, Equipped, Kind, external, table, Toggling
<1>2. \A p \in ports : <<job[t].nic, p>> \in forwarders <=> job[t].enabled
  BY <1>1 DEF Toggling, Working
<1>3. Configured(t)' /\ Forwarding(t)' /\ Toggling(t)'
  BY <1>1 DEF Is, Configured, Forwarding, Toggling, Kind
<1>4. NothingElse(t)'
  BY <1>1, <1>2, PortAssumption DEF Is, NothingElse, Kind, Reach
<1>5. Published(t)'
  <2>1. \A n \in Nics \cup {Loopback}, p \in Ports :
            Reach(n, p)' => Reach(n, p) \/ (n = job[t].nic /\ job[t].enabled)
    BY <1>1 DEF Reach
  <2>2. \A n, p : n = job[t].nic /\ Reach(n, p)' => job[t].enabled
    BY <1>1, PortAssumption DEF Reach
  <2>3. \A p : (NoMessage(p)' <=> NoMessage(p)) /\ (OpenLast(p)' <=> OpenLast(p))
    BY <1>1 DEF NoMessage, OpenLast
  <2>4. published \subseteq Ports
    BY DEF TypeOK
  <2>. QED BY <1>1, <1>2, <2>1, <2>2, <2>3, <2>4 DEF Published, Own, Kind
<1>. QED BY <1>3, <1>4, <1>5

-----------------------------------------------------------------------------
(* Forwarders, one after the other                                         *)

\* Both calls get the address of the interface, and go on.
LEMMA EnableSeq ==
    ASSUME TypeOK, Faults \subseteq {"stop"}, NEW t \in Threads, SeqInv(t), TableInv(t)',
           EnablePortForwardingInterface(t)
    PROVE  SeqInv(t)'
<1>. USE DEF SeqInv, TableInv
<1>1. /\ pc[t] = "enter" /\ Kind(t) \in {"forward", "toggle"} /\ job[t] \in Jobs
      /\ UNCHANGED <<distro, running, dnsConfigurator, published, socket, ports, portForwarders,
                     forwarders, interfaces, forwarded>>
  BY DEF EnablePortForwardingInterface, TypeOK, Equipped, Kind, external, table, choice
<1>2. CASE ~dnsConfigurator /\ Return(t)
  <2>1. pc'[t] = "idle" /\ Is(job'[t], "none", None, None, FALSE, {}, FALSE, FALSE)
    BY <1>2, Moves, NewFields
  <2>2. ~running /\ Kind(t) = "toggle" /\ forwarders = {}
    BY <1>1, <1>2 DEF Configured
  <2>3. Configured(t)' /\ Forwarding(t)' /\ Toggling(t)'
    BY <1>1, <1>2, <2>1, <2>2 DEF Is, Configured, Forwarding, Toggling, Kind
  <2>4. NothingElse(t)' /\ Published(t)'
    BY <1>1, <2>2 DEF NothingElse, Published
  <2>. QED BY <2>3, <2>4
<1>3. ASSUME dnsConfigurator, Goto(t, IF job[t].kind = "toggle" THEN "next" ELSE "look"),
             job' = [job EXCEPT ![t].stale = FALSE]
      PROVE  SeqInv(t)'
  <2>1. job'[t] = [job[t] EXCEPT !.stale = FALSE]
    BY <1>3 DEF TypeOK
  <2>2. Is(job'[t], job[t].kind, job[t].nic, job[t].port, job[t].enabled, job[t].seen, FALSE, job[t].alive)
    <3>1. job[t] \in Jobs
      BY <1>1
    <3>2. Is([job[t] EXCEPT !.stale = FALSE], job[t].kind, job[t].nic, job[t].port, job[t].enabled,
             job[t].seen, FALSE, job[t].alive)
      BY <3>1, StaleFields
    <3>. QED BY ONLY <2>1, <3>2, Zenon
  <2>3. pc'[t] = IF Kind(t) = "toggle" THEN "next" ELSE "look"
    BY <1>3, Moves DEF Kind
  <2>4. Configured(t)'
    BY <1>1, <1>3, <2>2, <2>3 DEF Is, Configured, Kind
  <2>5. Forwarding(t)' /\ Toggling(t)'
    BY <1>1, <2>2, <2>3 DEF Is, Forwarding, Toggling, Kind, Working, Reach
  <2>6. NothingElse(t)' /\ Published(t)'
    BY <1>1, <2>2 DEF Is, NothingElse, Published, Own, Kind, Reach, NoMessage, OpenLast
  <2>. QED BY <2>4, <2>5, <2>6
<1>4. ~Fault("address")
  BY DEF Fault
<1>. QED BY <1>2, <1>3, <1>4 DEF EnablePortForwardingInterface

\* A toggle goes on to a port, or has been at all of them.
LEMMA NextPortSeq ==
    ASSUME TypeOK, NEW t \in Threads, SeqInv(t), TableInv(t)', NextPort(t)
    PROVE  SeqInv(t)'
<1>. USE DEF SeqInv, TableInv
<1>1. /\ pc[t] = "next" /\ Kind(t) = "toggle" /\ job[t] \in Jobs /\ ~job[t].stale /\ dnsConfigurator
      /\ UNCHANGED <<distro, running, dnsConfigurator, published, socket, ports, portForwarders,
                     forwarders, interfaces, forwarded>>
  BY DEF NextPort, TypeOK, Equipped, Kind, external, table, choice, Placed, Configured
<1>2. ASSUME NEW p \in ports, job' = [job EXCEPT ![t] = OnPort(job[t], p)], Goto(t, "look")
      PROVE  SeqInv(t)'
  <2>1. Is(job'[t], job[t].kind, job[t].nic, p, job[t].enabled, job[t].seen \cup {p},
           job[t].stale, job[t].alive) /\ pc'[t] = "look"
    BY <1>1, <1>2, Moves, OnPortFields
  <2>2. Configured(t)' /\ Forwarding(t)'
    BY <1>1, <2>1 DEF Is, Configured, Forwarding, Kind
  <2>3. Toggling(t)'
    BY <1>1, <2>1 DEF Is, Toggling, Kind, Working
  <2>4. NothingElse(t)' /\ Published(t)'
    BY <1>1, <2>1 DEF Is, NothingElse, Published, Own, Kind, Reach, NoMessage, OpenLast
  <2>. QED BY <2>2, <2>3, <2>4
<1>3. ASSUME ports \subseteq job[t].seen, Goto(t, "config"), UNCHANGED job
      PROVE  SeqInv(t)'
  <2>1. pc'[t] = "config"
    BY <1>3, Moves
  <2>2. Configured(t)' /\ Forwarding(t)'
    BY <1>1, <1>3, <2>1 DEF Configured, Forwarding, Kind
  <2>3. Toggling(t)'
    BY <1>1, <1>3, <2>1 DEF Toggling, Kind, Working
  <2>4. NothingElse(t)' /\ Published(t)'
    BY <1>1, <1>3 DEF NothingElse, Published, Own, Kind, Reach, NoMessage, OpenLast
  <2>. QED BY <2>2, <2>3, <2>4
<1>. QED BY <1>1, <1>2, <1>3 DEF NextPort

\* What the steps of EnablePortForwardingInterface leave alone.
Elsewhere(t) ==
    /\ UNCHANGED <<distro, running, dnsConfigurator, published, socket, ports, interfaces, forwarded>>
    /\ \A k : k # Key(t) => (k \in forwarders' <=> k \in forwarders)
    /\ Is(job'[t], job[t].kind, job[t].nic, job[t].port, job[t].enabled, job[t].seen,
          FALSE, job'[t].alive)

\* A step on a forwarder keeps what is claimed of all the others, and of this one too when
\* it is as it is to be, or the call still works on it.
LEMMA ForwarderSeq ==
    ASSUME TypeOK, NEW t \in Threads, SeqInv(t), TableInv(t)', Elsewhere(t),
           pc[t] \in {"look", "remove", "start", "add"},
           \/ pc'[t] \in {"remove", "start", "add"}
           \/ pc'[t] = (IF Kind(t) = "toggle" THEN "next" ELSE "nics"),
           ~Working(t)' => (Key(t) \in forwarders' <=> job[t].enabled),
           pc'[t] \in {"start", "add"} => job[t].enabled
    PROVE  /\ Configured(t)' /\ Forwarding(t)' /\ Toggling(t)'
           /\ NothingElse(t)' /\ Published(t)'
<1>. USE DEF SeqInv, TableInv, Elsewhere
<1>1. /\ job[t].nic \in Nics \cup {Loopback} /\ job[t].port \in Ports /\ Kind(t) \in {"forward", "toggle"}
      /\ Kind(t) = "toggle" => job[t].nic \in Nics
      /\ dnsConfigurator
  BY DEF TypeOK, Equipped, Kind, Configured
<1>2. Configured(t)'
  BY <1>1 DEF Is, Configured, Kind
<1>3. \A n, p : Reach(n, p)' <=> Reach(n, p)
  BY DEF Reach
<1>4. Forwarding(t)'
  <2>. SUFFICES ASSUME Kind(t) = "forward"
                PROVE  /\ job[t].port \in ports <=> job[t].enabled
                       /\ Reach(job[t].nic, job[t].port)
                       /\ \A n \in job[t].seen : Reach(n, job[t].port) =>
                              \/ n = job[t].nic /\ Working(t)'
                              \/ <<n, job[t].port>> \in forwarders' <=> job[t].enabled
    BY DEF Is, Forwarding, Kind, Reach
  <2>1. ASSUME NEW n \in job[t].seen, Reach(n, job[t].port), n # job[t].nic
        PROVE  <<n, job[t].port>> \in forwarders' <=> job[t].enabled
    <3>1. <<n, job[t].port>> # Key(t)
      BY <2>1 DEF Key
    <3>2. <<n, job[t].port>> \in forwarders <=> job[t].enabled
      BY <2>1 DEF Forwarding
    <3>. QED BY <3>1, <3>2
  <2>2. ~Working(t)' => (<<job[t].nic, job[t].port>> \in forwarders' <=> job[t].enabled)
    BY DEF Key
  <2>. QED BY <2>1, <2>2 DEF Forwarding
<1>5. Toggling(t)'
  <2>. SUFFICES ASSUME Kind(t) = "toggle"
                PROVE  /\ job[t].enabled <=> job[t].nic \in forwarded
                       /\ job[t].port \in ports
                       /\ \A p \in job[t].seen :
                              \/ p = job[t].port /\ Working(t)'
                              \/ <<job[t].nic, p>> \in forwarders' <=> job[t].enabled
    BY DEF Is, Toggling, Kind
  <2>1. ASSUME NEW p \in job[t].seen, p # job[t].port
        PROVE  <<job[t].nic, p>> \in forwarders' <=> job[t].enabled
    <3>1. <<job[t].nic, p>> # Key(t)
      BY <2>1 DEF Key
    <3>2. <<job[t].nic, p>> \in forwarders <=> job[t].enabled
      BY <2>1 DEF Toggling
    <3>. QED BY <3>1, <3>2
  <2>2. ~Working(t)' => (<<job[t].nic, job[t].port>> \in forwarders' <=> job[t].enabled)
    BY DEF Key
  <2>. QED BY <2>1, <2>2 DEF Toggling
<1>6. NothingElse(t)'
  <2>. SUFFICES ASSUME NEW n \in Nics \cup {Loopback}, NEW p \in Ports, <<n, p>> \in forwarders'
                PROVE  /\ Reach(n, p) \/ (Kind(t) = "toggle" /\ n = job[t].nic)
                       /\ p \in ports \/ (Kind(t) = "forward" /\ p = job[t].port)
    BY <1>3 DEF Is, NothingElse, Kind
  <2>1. CASE <<n, p>> # Key(t)
    BY <2>1 DEF NothingElse
  <2>2. CASE <<n, p>> = Key(t)
    <3>1. n = job[t].nic /\ p = job[t].port
      BY <2>2 DEF Key
    <3>. QED BY <1>1, <3>1 DEF Forwarding, Toggling
  <2>. QED BY <2>1, <2>2
<1>7. Published(t)'
  <2>. SUFFICES ASSUME running, NEW p \in published, NoMessage(p),
                       NEW n \in Nics \cup {Loopback}, Reach(n, p), <<n, p>> \in forwarders, ~Own(t, n, p)
                PROVE  <<n, p>> \in forwarders'
    BY <1>3 DEF Is, Published, Own, Kind, NoMessage, OpenLast
  <2>1. <<n, p>> # Key(t)
    BY <1>1 DEF Own, Key
  <2>. QED BY <2>1
<1>. QED BY <1>2, <1>4, <1>5, <1>6, <1>7

\* The forwarder that the key has is killed.
LEMMA StopExistingSeq ==
    ASSUME TypeOK, NEW t \in Threads, SeqInv(t), TableInv(t)', StopExisting(t)
    PROVE  SeqInv(t)'
<1>. USE DEF SeqInv, TableInv
<1>1. /\ pc[t] = "look" /\ job' = job /\ ~job[t].stale
      /\ UNCHANGED <<distro, running, dnsConfigurator, published, socket, ports, interfaces, forwarded>>
  BY DEF StopExisting, external, choice, Placed
<1>2. /\ job[t] \in Jobs /\ Key(t) \in Keys /\ portForwarders \in [Keys -> {"none", "live", "dead", "exited"}]
      /\ forwarders \subseteq Keys
  BY <1>1, Rounds DEF TypeOK
<1>3. \A k \in Keys : k \in forwarders <=> portForwarders[k] = "live"
  BY <1>1 DEF Tracked
<1>4. CASE portForwarders[Key(t)] # "none"
  <2>1. Killed(Key(t)) /\ pc'[t] = "remove"
    BY <1>4, Moves DEF StopExisting
  <2>2. forwarders' = forwarders \ {Key(t)}
    BY <1>2, <1>3, <2>1 DEF Killed
  <2>3. Elsewhere(t)
    BY <1>1, <2>2 DEF Elsewhere, Is
  <2>4. Working(t)' /\ pc'[t] \notin {"start", "add"}
    BY <2>1 DEF Working
  <2>. QED BY <1>1, <2>1, <2>3, <2>4, ForwarderSeq
<1>5. CASE portForwarders[Key(t)] = "none"
  <2>1. AfterExisting(t) /\ UNCHANGED <<portForwarders, forwarders>>
    BY <1>5 DEF StopExisting, table
  <2>2. IF job[t].enabled THEN pc'[t] = "start"
        ELSE pc'[t] = (IF Kind(t) = "toggle" THEN "next" ELSE "nics")
    BY <1>1, <2>1, Rounds
  <2>3. Elsewhere(t)
    BY <1>1, <2>1 DEF Elsewhere, Is
  <2>4. Key(t) \notin forwarders
    BY <1>2, <1>3, <1>5
  <2>5. ~Working(t)' => (Key(t) \in forwarders' <=> job[t].enabled)
    BY <2>1, <2>2, <2>4 DEF Working
  <2>. QED BY <1>1, <2>2, <2>3, <2>5, ForwarderSeq
<1>. QED BY <1>4, <1>5

\* The entry of the forwarder that was killed goes.
LEMMA RemoveExistingSeq ==
    ASSUME TypeOK, NEW t \in Threads, SeqInv(t), TableInv(t)', RemoveExisting(t)
    PROVE  SeqInv(t)'
<1>. USE DEF SeqInv, TableInv
<1>1. /\ pc[t] = "remove" /\ job' = job /\ ~job[t].stale /\ AfterExisting(t)
      /\ UNCHANGED <<distro, running, dnsConfigurator, published, socket, ports, interfaces,
                     forwarded, forwarders>>
  BY DEF RemoveExisting, external, choice, Placed
<1>2. /\ Key(t) \in Keys
      /\ IF job[t].enabled THEN pc'[t] = "start"
         ELSE pc'[t] = (IF Kind(t) = "toggle" THEN "next" ELSE "nics")
  BY <1>1, Rounds
<1>3. Key(t) \notin forwarders
  BY <1>1, <1>2 DEF Tracked
<1>4. Elsewhere(t)
  BY <1>1 DEF Elsewhere, Is
<1>5. ~Working(t)' => (Key(t) \in forwarders' <=> job[t].enabled)
  BY <1>1, <1>2, <1>3 DEF Working
<1>. QED BY <1>1, <1>2, <1>4, <1>5, ForwarderSeq

\* The process of the new forwarder starts: nothing else has its key.
LEMMA StartForwarderSeq ==
    ASSUME TypeOK, Faults \subseteq {"stop"}, NEW t \in Threads, SeqInv(t), TableInv(t)', StartForwarder(t)
    PROVE  SeqInv(t)'
<1>. USE DEF SeqInv, TableInv
<1>1. /\ pc[t] = "start" /\ ~job[t].stale /\ job[t].enabled
      /\ UNCHANGED <<distro, running, dnsConfigurator, published, socket, ports, interfaces,
                     forwarded, portForwarders>>
  BY DEF StartForwarder, external, choice, Placed
<1>2. /\ job[t] \in Jobs /\ Key(t) \in Keys /\ portForwarders[Key(t)] = "none"
      /\ \A k \in Keys : k \in forwarders <=> portForwarders[k] = "live"
  BY <1>1, Rounds DEF Tracked
<1>3. /\ forwarders' = forwarders \cup {Key(t)} /\ Goto(t, "add")
      /\ job' = [job EXCEPT ![t] = [job[t] EXCEPT !.alive = TRUE]]
  <2>1. ~Fault("bind") /\ Key(t) \notin forwarders
    BY <1>2 DEF Fault
  <2>. QED BY <2>1, Zenon DEF StartForwarder
<1>4. Is(job'[t], job[t].kind, job[t].nic, job[t].port, job[t].enabled, job[t].seen, job[t].stale, TRUE)
  <2>1. job'[t] = [job[t] EXCEPT !.alive = TRUE]
    BY <1>3, Moves
  <2>2. Is([job[t] EXCEPT !.alive = TRUE], job[t].kind, job[t].nic, job[t].port, job[t].enabled,
           job[t].seen, job[t].stale, TRUE)
    BY <1>2, AliveFields
  <2>. QED BY ONLY <2>1, <2>2, Zenon
<1>5. pc'[t] = "add"
  BY <1>3, Moves
<1>6. Elsewhere(t)
  <2>1. \A k : k # Key(t) => (k \in forwarders' <=> k \in forwarders)
    BY <1>3
  <2>2. job[t].stale = FALSE
    BY <1>1, <1>2 DEF Jobs
  <2>. QED BY <1>1, <1>4, <2>1, <2>2, Zenon DEF Elsewhere, Is
<1>7. Key(t) \in forwarders' <=> job[t].enabled
  BY <1>1, <1>3
<1>. QED BY <1>1, <1>5, <1>6, <1>7, ForwarderSeq

\* A second later it has an entry.
LEMMA AddForwarderSeq ==
    ASSUME TypeOK, Faults \subseteq {"stop"}, NEW t \in Threads, SeqInv(t), TableInv(t)', AddForwarder(t)
    PROVE  SeqInv(t)'
<1>. USE DEF SeqInv, TableInv
<1>1. /\ pc[t] = "add" /\ ~job[t].stale /\ job[t].enabled /\ NextRound(t)
      /\ UNCHANGED <<distro, running, dnsConfigurator, published, socket, ports, interfaces,
                     forwarded, forwarders>>
  BY DEF AddForwarder, external, choice, Placed
<1>2. /\ job[t] \in Jobs /\ Key(t) \in Keys /\ portForwarders[Key(t)] = "none" /\ job[t].alive
      /\ Key(t) \in forwarders
      /\ Kind(t) \in {"forward", "toggle"}
      /\ pc'[t] = (IF Kind(t) = "toggle" THEN "next" ELSE "nics")
  BY <1>1, Rounds DEF Tracked, TypeOK, Equipped, Kind
<1>3. job' = [StaleStop(job) EXCEPT ![t].alive = FALSE]
  BY <1>2, Zenon DEF AddForwarder
<1>4. job'[t] = [job[t] EXCEPT !.alive = FALSE]
  <2>1. t \in DOMAIN StaleStop(job) /\ StaleStop(job)[t] = job[t]
    BY <1>2 DEF StaleStop, Kind
  <2>. QED BY <1>3, <2>1, Zenon
<1>5. Is(job'[t], job[t].kind, job[t].nic, job[t].port, job[t].enabled, job[t].seen, job[t].stale, FALSE)
  <2>1. Is([job[t] EXCEPT !.alive = FALSE], job[t].kind, job[t].nic, job[t].port, job[t].enabled,
           job[t].seen, job[t].stale, FALSE)
    BY <1>2, AliveFields
  <2>. QED BY ONLY <1>4, <2>1, Zenon
<1>6. Elsewhere(t)
  BY <1>1, <1>5 DEF Elsewhere, Is
<1>7. Key(t) \in forwarders' <=> job[t].enabled
  BY <1>1, <1>2
<1>. QED BY <1>1, <1>2, <1>6, <1>7, ForwarderSeq

-----------------------------------------------------------------------------
(* Stop                                                                    *)

\* While the engine stops nothing is promised to containers, and forwarders only go.
LEMMA StoppingSeq ==
    ASSUME TypeOK, NEW t \in Threads, SeqInv(t), TableInv(t)',
           \/ BeginStop(t) \/ StopPortForwarding(t) \/ ClearForwarders(t) \/ Terminate(t)
    PROVE  SeqInv(t)'
<1>. USE DEF SeqInv, TableInv
<1>1. /\ ~running' /\ UNCHANGED <<dnsConfigurator, ports, interfaces>>
      /\ dnsConfigurator \/ ((distro' => distro) /\ (socket' # <<>> => socket # <<>>)
                             /\ published' \subseteq published)
      /\ pc'[t] \in {"idle", "kill", "clear", "terminate"}
  <2>1. CASE BeginStop(t)
    BY <2>1, Moves DEF BeginStop, Configured, choice
  <2>2. CASE StopPortForwarding(t)
    BY <2>2, Moves DEF StopPortForwarding, Placed, external, choice
  <2>3. CASE ClearForwarders(t)
    BY <2>3, Moves DEF ClearForwarders, Placed, external, choice
  <2>4. CASE Terminate(t)
    BY <2>4, Moves DEF Terminate, Placed, choice
  <2>. QED BY <2>1, <2>2, <2>3, <2>4
<1>2. Kind(t) \in {"none", "stop"} /\ Kind(t)' \in {"none", "stop"}
  BY <1>1 DEF Placed, BeginStop, StopPortForwarding, ClearForwarders, Terminate
<1>3. forwarders' \subseteq forwarders
  BY DEF BeginStop, StopPortForwarding, ClearForwarders, Terminate, Killed, table
<1>4. Forwarding(t)' /\ Toggling(t)' /\ Published(t)'
  BY <1>1, <1>2 DEF Forwarding, Toggling, Published
<1>5. Configured(t)'
  BY <1>1, <1>2, <1>3 DEF Configured
<1>6. NothingElse(t)'
  BY <1>1, <1>2, <1>3 DEF NothingElse, Reach
<1>. QED BY <1>4, <1>5, <1>6

-----------------------------------------------------------------------------
(* The theorems of one call at a time                                      *)

\* Nothing has happened yet.
LEMMA InitSeq ==
    ASSUME NEW t \in Threads, Init PROVE SeqInv(t)
<1>1. /\ pc[t] = "idle" /\ job[t] = NoJob /\ ~running /\ ~distro /\ socket = <<>> /\ published = {}
      /\ forwarders = {}
  BY DEF Init
<1>2. Is(job[t], "none", None, None, FALSE, {}, FALSE, FALSE)
  BY <1>1, NewFields
<1>. QED BY <1>1, <1>2, InitTable DEF Is, SeqInv, Configured, Forwarding, Toggling, NothingElse,
     Published, Kind

\* Every step of the only thread, and of everything around it, keeps what is claimed.
LEMMA StepSeq ==
    ASSUME NEW t, Threads = {t}, Faults \subseteq {"stop"}, TypeOK, SeqInv(t), [Next]_vars
    PROVE  SeqInv(t)'
<1>1. TableInv(t)'
  BY StepTable DEF SeqInv
<1>2. CASE \E p \in Ports : Publish(p) \/ Unpublish(p)
  BY <1>1, <1>2, ContainersSeq
<1>3. CASE CallStep(t)
  BY <1>1, <1>3, NextNicSeq, BeginToggleSeq, SaveToggleSeq, EnableSeq, NextPortSeq, StopExistingSeq,
     RemoveExistingSeq, StartForwarderSeq, AddForwarderSeq, StoppingSeq DEF CallStep
<1>4. CASE ForwardPort(t) \/ BeginStop(t)
  BY <1>1, <1>4, ForwardPortSeq, StoppingSeq
<1>5. CASE \E n \in Nics : Click(t, n)
  BY <1>1, <1>5, ClickSeq
<1>6. CASE \E k \in Keys : ForwarderExits(k)
  BY <1>6 DEF ForwarderExits, Fault
<1>7. CASE Start
  BY <1>1, <1>7, StartSeq
<1>8. CASE UNCHANGED vars
  BY <1>1, <1>8 DEF vars, external, table, choice, SeqInv, Configured, Forwarding, Toggling,
     NothingElse, Published, Kind, Key, Working, Own, Reach, NoMessage, OpenLast
<1>. QED BY <1>2, <1>3, <1>4, <1>5, <1>6, <1>7, <1>8 DEF Next

\* With one call at a time, and no failure but that of a Stop: whatever the containers
\* publish and take back, the user selects, and the engine restarts, the published ports are
\* exposed on the interfaces of the configuration when no message and no call is left.
THEOREM PublishedAlwaysExposed ==
    ASSUME NEW CONSTANT t, Threads = {t}, Faults \subseteq {"stop"}
    PROVE  Spec => []PublishedIsExposed
<1>1. Init => TypeOK /\ SeqInv(t)
  BY InitTypeOK, InitSeq
<1>2. TypeOK /\ SeqInv(t) /\ [Next]_vars => (TypeOK /\ SeqInv(t))'
  BY StepTypeOK, StepSeq
<1>3. TypeOK /\ SeqInv(t) => PublishedIsExposed
  <2>. SUFFICES ASSUME TypeOK, SeqInv(t), pc[t] = "idle", running, socket = <<>>,
                       NEW k \in Exposed(published)
                PROVE  k \in forwarders
    BY DEF PublishedIsExposed, Quiet
  <2>1. PICK n \in Nics \cup {Loopback}, p \in published : k = <<n, p>> /\ Reach(n, p)
    BY DEF Exposed, Reach, TypeOK
  <2>2. NoMessage(p)
    BY DEF NoMessage
  <2>3. ~Own(t, n, p)
    BY DEF SeqInv, TableInv, Placed, Own
  <2>. QED BY <2>1, <2>2, <2>3 DEF SeqInv, Published
<1>. QED BY <1>1, <1>2, <1>3, PTL DEF Spec

\* Under the same conditions nothing else is exposed: neither a port that its container has
\* taken back, nor any port on an interface that is not selected.
THEOREM NothingElseEverExposed ==
    ASSUME NEW CONSTANT t, Threads = {t}, Faults \subseteq {"stop"}
    PROVE  Spec => []NothingElseExposed
<1>1. Init => TypeOK /\ SeqInv(t)
  BY InitTypeOK, InitSeq
<1>2. TypeOK /\ SeqInv(t) /\ [Next]_vars => (TypeOK /\ SeqInv(t))'
  BY StepTypeOK, StepSeq
<1>3. TypeOK /\ SeqInv(t) => NothingElseExposed
  <2>. SUFFICES ASSUME TypeOK, SeqInv(t), pc[t] = "idle", NEW k \in forwarders
                PROVE  k \in Exposed(ports)
    BY DEF NothingElseExposed, Quiet
  <2>1. PICK n \in Nics \cup {Loopback}, p \in Ports : k = <<n, p>>
    BY DEF TypeOK, Keys
  <2>2. Reach(n, p) /\ p \in ports
    BY <2>1 DEF SeqInv, TableInv, Placed, NothingElse
  <2>. QED BY <2>1, <2>2 DEF Exposed, Reach
<1>. QED BY <1>1, <1>2, <1>3, PTL DEF Spec

-----------------------------------------------------------------------------
(* Every call comes nearer its end                                         *)

\* The stages of a call that are left: a ForwardPort and the foreach of a toggle or of a
\* Stop are one stage.
StageOf ==
    [idle |-> 0, terminate |-> 1, clear |-> 2, config |-> 2, kill |-> 3, nics |-> 3, next |-> 3,
     enter |-> 3, look |-> 3, remove |-> 3, start |-> 3, add |-> 3, begin |-> 5]
StagesLeft(t) == IF pc[t] = "enter" /\ job[t].kind = "toggle" THEN 4 ELSE StageOf[pc[t]]

\* What its foreach has not come to yet, whether or not it ever will.
RoundsLeft(t) == Places \ job[t].seen

\* The steps that are left of a round.
StepOf ==
    [idle |-> 0, terminate |-> 0, clear |-> 0, config |-> 0, begin |-> 0, kill |-> 1, nics |-> 1,
     next |-> 1, add |-> 2, start |-> 3, remove |-> 4, look |-> 5, enter |-> 6]
StepsLeft(t) == StepOf[pc[t]]

\* Thread t has come nearer the end of its call.
Nearer(t) ==
    \/ StagesLeft(t)' < StagesLeft(t)
    \/ /\ StagesLeft(t)' = StagesLeft(t)
       /\ RoundsLeft(t)' \subseteq RoundsLeft(t) /\ RoundsLeft(t)' # RoundsLeft(t)
    \/ /\ StagesLeft(t)' = StagesLeft(t) /\ RoundsLeft(t)' = RoundsLeft(t)
       /\ StepsLeft(t)' < StepsLeft(t)

\* It is where it was.
AsNear(t) == UNCHANGED <<StagesLeft(t), RoundsLeft(t), StepsLeft(t)>>

LEMMA StageOfIs ==
    /\ StageOf["idle"] = 0 /\ StageOf["terminate"] = 1 /\ StageOf["clear"] = 2
    /\ StageOf["config"] = 2 /\ StageOf["begin"] = 5
    /\ \A l \in {"kill", "nics", "next", "enter", "look", "remove", "start", "add"} : StageOf[l] = 3
  BY DEF StageOf

LEMMA StepOfIs ==
    /\ StepOf["kill"] = 1 /\ StepOf["nics"] = 1 /\ StepOf["next"] = 1 /\ StepOf["add"] = 2
    /\ StepOf["start"] = 3 /\ StepOf["remove"] = 4 /\ StepOf["look"] = 5 /\ StepOf["enter"] = 6
  BY DEF StepOf

\* A call that returns is nearer its end.
LEMMA ReturnNearer ==
    ASSUME TypeOK, NEW t \in Threads, pc[t] # "idle", pc'[t] = "idle"
    PROVE  Nearer(t)
<1>1. pc[t] \in PCs
  BY DEF TypeOK
<1>2. StagesLeft(t)' = 0
  BY StageOfIs DEF StagesLeft
<1>3. StagesLeft(t) > 0
  BY <1>1, StageOfIs DEF StagesLeft, PCs
<1>. QED BY <1>2, <1>3 DEF Nearer

\* A step that enters a later stage.
LEMMA StageNearer ==
    ASSUME NEW t \in Threads,
           \/ pc[t] = "begin" /\ pc'[t] = "enter"
           \/ pc[t] = "enter" /\ job[t].kind = "toggle" /\ pc'[t] = "next"
           \/ pc[t] = "next" /\ pc'[t] = "config"
           \/ pc[t] = "kill" /\ pc'[t] = "clear"
           \/ pc[t] = "clear" /\ pc'[t] = "terminate"
    PROVE  Nearer(t)
<1>1. StagesLeft(t)' < StagesLeft(t)
  BY StageOfIs DEF StagesLeft
<1>. QED BY <1>1 DEF Nearer

\* A foreach goes on.
LEMMA RoundNearer ==
    ASSUME NEW t \in Threads, NEW x \in Places \ job[t].seen,
           job'[t].kind = job[t].kind, job'[t].seen = job[t].seen \cup {x},
           \/ pc[t] = "nics" /\ pc'[t] \in {"nics", "enter"} /\ job[t].kind # "toggle"
           \/ pc[t] = "next" /\ pc'[t] = "look"
           \/ pc[t] = "kill" /\ pc'[t] = "kill"
    PROVE  Nearer(t)
<1>1. StagesLeft(t)' = 3 /\ StagesLeft(t) = 3
  BY StageOfIs DEF StagesLeft
<1>2. RoundsLeft(t)' \subseteq RoundsLeft(t) /\ x \in RoundsLeft(t) /\ x \notin RoundsLeft(t)'
  BY DEF RoundsLeft
<1>. QED BY <1>1, <1>2 DEF Nearer

\* A round goes on to its next step.
LEMMA StepNearer ==
    ASSUME NEW t \in Threads, job'[t].kind = job[t].kind, job'[t].seen = job[t].seen,
           \/ pc[t] = "enter" /\ job[t].kind # "toggle" /\ pc'[t] = "look"
           \/ pc[t] = "look" /\ pc'[t] \in {"remove", "start", "next", "nics"}
           \/ pc[t] = "remove" /\ pc'[t] \in {"start", "next", "nics"}
           \/ pc[t] = "start" /\ pc'[t] \in {"add", "next", "nics"}
           \/ pc[t] = "add" /\ pc'[t] \in {"next", "nics"}
    PROVE  Nearer(t)
<1>1. StagesLeft(t)' = 3 /\ StagesLeft(t) = 3
  BY StageOfIs DEF StagesLeft
<1>2. RoundsLeft(t)' = RoundsLeft(t)
  BY DEF RoundsLeft
<1>3. StepsLeft(t)' < StepsLeft(t)
  BY StepOfIs DEF StepsLeft
<1>. QED BY <1>1, <1>2, <1>3 DEF Nearer

\* Every step of a call brings it nearer its end.
LEMMA CallNearer ==
    ASSUME TypeOK, NEW t \in Threads, CallStep(t)
    PROVE  Nearer(t)
<1>0. job[t] \in Jobs /\ Equipped(pc[t], job[t])
  BY DEF TypeOK
<1>1. (\A l : Goto(t, l) => pc'[t] = l) /\ (\A r : job' = [job EXCEPT ![t] = r] => job'[t] = r)
  BY Moves
<1>2. pc[t] # "idle"
  BY DEF CallStep, NextNic, BeginToggle, SaveToggle, EnablePortForwardingInterface, NextPort,
     StopExisting, RemoveExisting, StartForwarder, AddForwarder, StopPortForwarding,
     ClearForwarders, Terminate
<1>3. CASE Return(t)
  BY <1>1, <1>2, <1>3, ReturnNearer DEF Return
<1>4. NextRound(t) => pc'[t] \in {"next", "nics"}
  BY <1>1 DEF NextRound
<1>5. AfterExisting(t) => pc'[t] \in {"start", "next", "nics"}
  BY <1>1, <1>4 DEF AfterExisting
<1>6. CASE NextNic(t)
  <2>1. pc[t] = "nics" /\ job[t].kind = "forward"
    BY <1>0, <1>6 DEF NextNic, Equipped
  <2>2. ASSUME NEW n \in Places \ job[t].seen, job' = [job EXCEPT ![t] = OnNic(job[t], n)],
               Goto(t, "enter") \/ UNCHANGED pc
        PROVE  Nearer(t)
    <3>0. job'[t] = OnNic(job[t], n)
      BY <1>1, <2>2
    <3>1. job'[t].kind = job[t].kind /\ job'[t].seen = job[t].seen \cup {n}
      <4>1. Is(OnNic(job[t], n), job[t].kind, n, job[t].port, job[t].enabled,
               job[t].seen \cup {n}, job[t].stale, job[t].alive)
        BY <1>0, OnNicFields
      <4>. QED BY <3>0, <4>1 DEF Is
    <3>2. pc'[t] \in {"nics", "enter"}
      BY <1>1, <2>1, <2>2
    <3>. QED BY <2>1, <3>1, <3>2, RoundNearer
  <2>. QED BY <1>3, <1>6, <2>2 DEF NextNic, Places
<1>7. CASE BeginToggle(t)
  BY <1>1, <1>7, StageNearer DEF BeginToggle
<1>8. CASE SaveToggle(t)
  BY <1>3, <1>8 DEF SaveToggle
<1>9. CASE EnablePortForwardingInterface(t)
  <2>1. CASE /\ Goto(t, IF job[t].kind = "toggle" THEN "next" ELSE "look")
             /\ job' = [job EXCEPT ![t].stale = FALSE]
    <3>1. job'[t] = [job[t] EXCEPT !.stale = FALSE]
      BY <1>1, <2>1
    <3>2. job'[t].kind = job[t].kind /\ job'[t].seen = job[t].seen
      BY <1>0, <3>1, StaleFields DEF Is
    <3>3. pc'[t] = IF job[t].kind = "toggle" THEN "next" ELSE "look"
      BY <1>1, <2>1
    <3>4. pc[t] = "enter"
      BY <1>9 DEF EnablePortForwardingInterface
    <3>5. CASE job[t].kind = "toggle"
      BY <3>3, <3>4, <3>5, StageNearer
    <3>6. CASE job[t].kind # "toggle"
      BY <3>2, <3>3, <3>4, <3>6, StepNearer
    <3>. QED BY <3>5, <3>6
  <2>. QED BY <1>3, <1>9, <2>1 DEF EnablePortForwardingInterface
<1>10. CASE NextPort(t)
  <2>1. pc[t] = "next"
    BY <1>10 DEF NextPort
  <2>2. ASSUME NEW p \in ports \ job[t].seen, job' = [job EXCEPT ![t] = OnPort(job[t], p)], Goto(t, "look")
        PROVE  Nearer(t)
    <3>0. job'[t] = OnPort(job[t], p)
      BY <1>1, <2>2
    <3>1. job'[t].kind = job[t].kind /\ job'[t].seen = job[t].seen \cup {p}
      <4>1. Is(OnPort(job[t], p), job[t].kind, job[t].nic, p, job[t].enabled,
               job[t].seen \cup {p}, job[t].stale, job[t].alive)
        BY <1>0, OnPortFields
      <4>. QED BY <3>0, <4>1 DEF Is
    <3>2. pc'[t] = "look" /\ p \in Places \ job[t].seen
      BY <1>1, <2>2 DEF TypeOK, Places
    <3>. QED BY <2>1, <3>1, <3>2, RoundNearer
  <2>3. CASE Goto(t, "config")
    BY <1>1, <2>1, <2>3, StageNearer
  <2>. QED BY <1>3, <1>10, <2>2, <2>3 DEF NextPort
<1>11. CASE StopExisting(t)
  <2>1. pc[t] = "look" /\ pc'[t] \in {"remove", "start", "next", "nics"} /\ job'[t] = job[t]
    BY <1>1, <1>5, <1>11 DEF StopExisting
  <2>. QED BY <2>1, StepNearer
<1>12. CASE RemoveExisting(t)
  <2>1. pc[t] = "remove" /\ pc'[t] \in {"start", "next", "nics"} /\ job'[t] = job[t]
    BY <1>5, <1>12 DEF RemoveExisting
  <2>. QED BY <2>1, StepNearer
<1>13. CASE StartForwarder(t)
  <2>1. pc[t] = "start" /\ pc'[t] \in {"add", "next", "nics"}
    BY <1>1, <1>4, <1>13 DEF StartForwarder
  <2>2. job'[t].kind = job[t].kind /\ job'[t].seen = job[t].seen
    <3>1. job'[t] = job[t] \/ job'[t] = [job[t] EXCEPT !.alive = TRUE]
      BY <1>1, <1>13 DEF StartForwarder
    <3>2. CASE job'[t] = [job[t] EXCEPT !.alive = TRUE]
      BY <1>0, <3>2, AliveFields DEF Is
    <3>. QED BY <3>1, <3>2
  <2>. QED BY <2>1, <2>2, StepNearer
<1>14. CASE AddForwarder(t)
  <2>1. pc[t] = "add" /\ pc'[t] \in {"next", "nics"} /\ job[t].kind # "stop"
    BY <1>0, <1>4, <1>14 DEF AddForwarder, Equipped
  <2>2. job'[t] = [job[t] EXCEPT !.alive = FALSE]
    <3>1. StaleStop(job)[t] = job[t] /\ t \in DOMAIN StaleStop(job)
      BY <2>1 DEF StaleStop
    <3>2. job' = [StaleStop(job) EXCEPT ![t].alive = FALSE] \/ job' = [job EXCEPT ![t].alive = FALSE]
      BY <1>14 DEF AddForwarder
    <3>3. CASE job' = [StaleStop(job) EXCEPT ![t].alive = FALSE]
      BY <3>1, <3>3, Zenon
    <3>4. CASE job' = [job EXCEPT ![t].alive = FALSE]
      BY <1>1, <3>4
    <3>. QED BY <3>2, <3>3, <3>4
  <2>3. job'[t].kind = job[t].kind /\ job'[t].seen = job[t].seen
    BY <1>0, <2>2, AliveFields DEF Is
  <2>. QED BY <2>1, <2>3, StepNearer
<1>15. CASE StopPortForwarding(t)
  <2>1. pc[t] = "kill"
    BY <1>15 DEF StopPortForwarding
  <2>2. ASSUME NEW k \in Keys \ job[t].seen, job' = [job EXCEPT ![t].seen = @ \cup {k}], UNCHANGED pc
        PROVE  Nearer(t)
    <3>1. job'[t] = [job[t] EXCEPT !.seen = @ \cup {k}]
      BY <1>1, <2>2
    <3>2. job'[t].kind = job[t].kind /\ job'[t].seen = job[t].seen \cup {k}
      BY <1>0, <3>1, SeenFields DEF Is
    <3>3. k \in Places \ job[t].seen
      BY <2>2 DEF Places
    <3>. QED BY <2>1, <2>2, <3>2, <3>3, RoundNearer
  <2>3. CASE Goto(t, "clear")
    BY <1>1, <2>1, <2>3, StageNearer
  <2>. QED BY <1>15, <2>2, <2>3 DEF StopPortForwarding
<1>16. CASE ClearForwarders(t)
  BY <1>1, <1>16, StageNearer DEF ClearForwarders
<1>17. CASE Terminate(t)
  BY <1>3, <1>17 DEF Terminate
<1>. QED BY <1>6, <1>7, <1>8, <1>9, <1>10, <1>11, <1>12, <1>13, <1>14, <1>15, <1>16, <1>17
         DEF CallStep

\* Only its own steps move a call, and no other one changes what its foreach has passed:
\* a collection that changes under it makes its enumerator stale, no more.
LEMMA OthersStay ==
    ASSUME TypeOK, NEW t \in Threads, pc[t] # "idle", ~CallStep(t), [Next]_vars
    PROVE  AsNear(t)
<1>0. job[t] \in Jobs /\ job \in [Threads -> Jobs] /\ pc \in [Threads -> PCs]
  BY DEF TypeOK
<1>1. \A b : /\ [job[t] EXCEPT !.stale = b].kind = job[t].kind /\ [job[t] EXCEPT !.stale = b].seen = job[t].seen
             /\ [job[t] EXCEPT !.alive = b].kind = job[t].kind /\ [job[t] EXCEPT !.alive = b].seen = job[t].seen
             /\ [job[t] EXCEPT !.current = b].kind = job[t].kind
             /\ [job[t] EXCEPT !.current = b].seen = job[t].seen
  BY <1>0, StaleFields, AliveFields, CurrentFields DEF Is
<1>2. ASSUME pc'[t] = pc[t], job'[t].kind = job[t].kind, job'[t].seen = job[t].seen PROVE AsNear(t)
  BY <1>2 DEF AsNear, StagesLeft, RoundsLeft, StepsLeft
<1>3. ASSUME NEW u \in Threads, u # t
      PROVE  /\ \A l : Goto(u, l) => pc'[t] = pc[t]
             /\ \A r : job' = [job EXCEPT ![u] = r] => job'[t] = job[t]
             /\ \A r : job' = [StaleStop(job) EXCEPT ![u] = r] => job'[t] = StaleStop(job)[t]
             /\ \A r : job' = [Stale(job) EXCEPT ![u] = r] => job'[t] = Stale(job)[t]
  BY <1>0, <1>3 DEF Goto, StaleStop, Stale
<1>4. /\ StaleStop(job)[t].kind = job[t].kind /\ StaleStop(job)[t].seen = job[t].seen
      /\ Stale(job)[t].kind = job[t].kind /\ Stale(job)[t].seen = job[t].seen
  BY <1>1 DEF StaleStop, Stale
<1>5. ASSUME NEW u \in Threads, u # t, CallStep(u) PROVE AsNear(t)
  <2>1. pc'[t] = pc[t]
    BY <1>3, <1>5 DEF CallStep, NextNic, BeginToggle, SaveToggle, EnablePortForwardingInterface,
       NextPort, StopExisting, RemoveExisting, AfterExisting, StartForwarder, AddForwarder, NextRound,
       StopPortForwarding, ClearForwarders, Terminate, Return
  <2>2. job'[t] = job[t] \/ job'[t] = StaleStop(job)[t]
    BY <1>3, <1>5 DEF CallStep, NextNic, BeginToggle, SaveToggle, EnablePortForwardingInterface,
       NextPort, StopExisting, RemoveExisting, StartForwarder, AddForwarder,
       StopPortForwarding, ClearForwarders, Terminate, Return
  <2>. QED BY <1>2, <1>4, <2>1, <2>2
<1>6. ASSUME NEW u \in Threads, ForwardPort(u) PROVE AsNear(t)
  <2>1. u # t /\ pc'[t] = pc[t]
    BY <1>3, <1>6 DEF ForwardPort
  <2>2. job'[t] = job[t] \/ job'[t] = Stale(job)[t]
    BY <1>3, <1>6, <2>1 DEF ForwardPort
  <2>. QED BY <1>2, <1>4, <2>1, <2>2
<1>7. ASSUME NEW u \in Threads, BeginStop(u) \/ \E n \in Nics : Click(u, n) PROVE AsNear(t)
  <2>1. u # t /\ pc'[t] = pc[t] /\ job'[t] = job[t]
    BY <1>3, <1>7 DEF BeginStop, Click
  <2>. QED BY <1>2, <2>1
<1>8. ASSUME NEW k \in Keys, ForwarderExits(k) PROVE AsNear(t)
  <2>1. pc'[t] = pc[t] /\ (job'[t] = job[t] \/ job'[t] = [job[t] EXCEPT !.alive = FALSE])
    BY <1>8 DEF ForwarderExits
  <2>. QED BY <1>1, <1>2, <2>1
<1>9. CASE Start
  <2>1. pc'[t] = pc[t] /\ job'[t] = [job[t] EXCEPT !.current = FALSE]
    BY <1>9 DEF Start
  <2>. QED BY <1>1, <1>2, <2>1
<1>10. CASE UNCHANGED vars \/ \E p \in Ports : Publish(p) \/ Unpublish(p)
  <2>1. pc'[t] = pc[t] /\ job'[t] = job[t]
    BY <1>10 DEF vars, Publish, Unpublish
  <2>. QED BY <1>2, <2>1
<1>. QED BY <1>5, <1>6, <1>7, <1>8, <1>9, <1>10 DEF Next

\* Every step of a call brings it nearer its end, and no step of another thread, of a
\* container or of a forwarder that exits takes it further away, even if it adds to the
\* collection under a foreach: the calls that have begun make finitely many steps.
CallsAdvance ==
    [][\A t \in Threads : /\ CallStep(t) => Nearer(t)
                          /\ pc[t] # "idle" => Nearer(t) \/ AsNear(t)]_vars

\* For any threads, events and failures; that Nics and Ports are finite makes the order
\* well-founded.
THEOREM CallsAlwaysAdvance == Spec => CallsAdvance
<1>1. TypeOK /\ [Next]_vars =>
          [\A t \in Threads : /\ CallStep(t) => Nearer(t)
                              /\ pc[t] # "idle" => Nearer(t) \/ AsNear(t)]_vars
  BY CallNearer, OthersStay
<1>. QED BY <1>1, TypeCorrect, PTL DEF Spec, CallsAdvance
=============================================================================
