----------------------- MODULE ContainerEngineProofs -----------------------
(* Type correctness of the engine, and the invariants of its concurrent    *)
(* runs, for any threads, distributions, retries and failures; for one     *)
(* call at a time, what Running and the end of a Stop mean; and what the   *)
(* ends of the calls rest on: every step brings a call nearer its end, and *)
(* a Start gives up only after more failures than it has retries.          *)
EXTENDS ContainerEngine, TLAPS

-----------------------------------------------------------------------------
(* What a thread keeps on its stack stays a call record.                   *)

\* The record of an idle thread is a call record.
LEMMA NoCallTyped == NoCall \in CallRecord
<1>1. NoCall.toggle \in SUBSET Distros
  BY DEF NoCall
<1>2. NoCall.tries \in 0..Retries
  BY EngineAssumption DEF NoCall
<1>. QED BY <1>1, <1>2, Zenon DEF NoCall, CallRecord

\* A call record stays one when what follows its Stop is replaced.
LEMMA ThenTyped ==
    ASSUME NEW c \in CallRecord, NEW x \in {"return", "start", "reset", "exit", "retry"}
    PROVE  [c EXCEPT !.then = x] \in CallRecord
  BY Zenon DEF CallRecord

\* A call record stays one when its Stop is marked as failed.
LEMMA FailedTyped ==
    ASSUME NEW c \in CallRecord PROVE [c EXCEPT !.failed = TRUE] \in CallRecord
  BY Zenon DEF CallRecord

\* A call record stays one when another attempt is counted within the retries.
LEMMA RetryTyped ==
    ASSUME NEW c \in CallRecord, c.tries < Retries
    PROVE  [c EXCEPT !.tries = @ + 1] \in CallRecord
  BY EngineAssumption DEF CallRecord

\* A call record stays one when the foreach yields a distribution.
LEMMA ForeachTyped ==
    ASSUME NEW c \in CallRecord, NEW d \in Distros
    PROVE  [c EXCEPT !.visited = @ \cup {d}] \in CallRecord
<1>1. c.visited \cup {d} \in SUBSET Distros
  BY DEF CallRecord
<1>. QED BY <1>1, Zenon DEF CallRecord

\* A call record stays one when a foreach over the distributions begins.
LEMMA EnumeratorTyped ==
    ASSUME NEW c \in CallRecord
    PROVE  /\ [c EXCEPT !.visited = {}, !.stale = FALSE] \in CallRecord
           /\ [c EXCEPT !.visited = {}, !.stale = FALSE, !.failed = FALSE] \in CallRecord
  BY Zenon DEF CallRecord

\* A call record stays one when the set changes under its enumerator.
LEMMA StaleTyped ==
    ASSUME NEW c \in CallRecord PROVE [c EXCEPT !.stale = TRUE] \in CallRecord
  BY Zenon DEF CallRecord

\* A call record stays one when a toggle is issued.
LEMMA ToggleTyped ==
    ASSUME NEW c \in CallRecord, NEW x \in SUBSET Distros
    PROVE  [c EXCEPT !.toggle = x] \in CallRecord
  BY Zenon DEF CallRecord

\* The record of the Start of AppStartup is a call record.
LEMMA BootTyped ==
    ASSUME NEW b \in BOOLEAN PROVE [NoCall EXCEPT !.boot = b] \in CallRecord
  BY NoCallTyped, Zenon DEF CallRecord

-----------------------------------------------------------------------------
(* Loop counters stay natural numbers.                                     *)

\* The operators on the background loops keep their counts natural.
LEMMA LoopsTyped ==
    ASSUME NEW ls \in [Kinds -> [Phases -> Nat]]
    PROVE  /\ Orphan(ls) \in [Kinds -> [Phases -> Nat]]
           /\ CancelWaits(ls) \in [Kinds -> [Phases -> Nat]]
           /\ \A k \in Kinds : ExecsExit(ls, k) \in [Kinds -> [Phases -> Nat]]
  BY DEF Orphan, CancelWaits, ExecsExit, Kinds, Phases

\* Moving or ending a loop keeps the counts natural.
LEMMA LoopMoves ==
    ASSUME TypeOK, NEW k \in Kinds, NEW p \in Phases, NEW q \in Phases,
           MoveLoop(k, p, q) \/ EndLoop(k, p)
    PROVE  loops' \in [Kinds -> [Phases -> Nat]]
<1>1. loops[k] \in [Phases -> Nat]
  BY DEF TypeOK
<1>2. CASE MoveLoop(k, p, q)
  <2>1. Moved(loops[k], p, q) \in [Phases -> Nat]
    BY <1>1, <1>2 DEF MoveLoop, Moved
  <2>. QED BY <1>2, <2>1 DEF TypeOK, MoveLoop
<1>3. CASE EndLoop(k, p)
  BY <1>1, <1>3 DEF TypeOK, EndLoop
<1>. QED BY <1>2, <1>3

-----------------------------------------------------------------------------
(* The ways a call goes on.                                                *)

\* A thread that moves to a location keeps the type of pc.
LEMMA GotoTyped ==
    ASSUME TypeOK, NEW t \in Threads, NEW l \in PCs, Goto(t, l)
    PROVE  pc' \in [Threads -> PCs]
  BY DEF TypeOK, Goto

\* Replacing the record of one thread keeps the type of call.
LEMMA CallTyped ==
    ASSUME TypeOK, NEW t \in Threads, NEW c \in CallRecord, call' = [call EXCEPT ![t] = c]
    PROVE  call' \in [Threads -> CallRecord]
  BY DEF TypeOK

\* A call that returns leaves pc and call typed.
LEMMA ReturnTyped ==
    ASSUME TypeOK, NEW t \in Threads, Return(t)
    PROVE  pc' \in [Threads -> PCs] /\ call' \in [Threads -> CallRecord]
  BY GotoTyped, NoCallTyped, CallTyped DEF Return, PCs

\* An exception in Start leaves pc and call typed.
LEMMA ThrowTyped ==
    ASSUME TypeOK, NEW t \in Threads, Throw(t)
    PROVE  pc' \in [Threads -> PCs] /\ call' \in [Threads -> CallRecord]
<1>1. call[t] \in CallRecord
  BY DEF TypeOK
<1>. QED BY <1>1, GotoTyped, ThenTyped, CallTyped DEF Throw, PCs

\* An exception in Stop leaves pc and call typed.
LEMMA ThrowInStopTyped ==
    ASSUME TypeOK, NEW t \in Threads, ThrowInStop(t)
    PROVE  pc' \in [Threads -> PCs] /\ call' \in [Threads -> CallRecord]
<1>1. call[t] \in CallRecord
  BY DEF TypeOK
<1>. QED BY <1>1, GotoTyped, FailedTyped, CallTyped DEF ThrowInStop, PCs, StopPCs

\* Injecting a failure, or none, stays within the budget.
LEMMA BudgetTyped ==
    ASSUME TypeOK, NEW f, Fault(f) \/ NoFault
    PROVE  faultsLeft' \in 0..MaxFaults
  BY EngineAssumption DEF TypeOK, Fault, NoFault

\* What follows a Stop leaves pc and call typed: the attempts never exceed the retries.
LEMMA AfterStopTyped ==
    ASSUME TypeOK, NEW t \in Threads, AfterStop(t)
    PROVE  pc' \in [Threads -> PCs] /\ call' \in [Threads -> CallRecord]
<1>1. call[t] \in CallRecord
  BY DEF TypeOK
<1>2. CASE call[t].then = "retry" /\ call[t].tries < Retries
  <2>1. Goto(t, "start") /\ call' = [call EXCEPT ![t].tries = @ + 1]
    BY <1>2 DEF AfterStop
  <2>. QED BY <1>1, <1>2, <2>1, GotoTyped, RetryTyped, CallTyped DEF PCs
<1>3. CASE call[t].then = "retry" /\ ~(call[t].tries < Retries) /\ call[t].boot
  <2>1. /\ Goto(t, "stop")
        /\ call' = [call EXCEPT ![t] = [NoCall EXCEPT !.then = "exit"]]
    BY <1>3 DEF AfterStop
  <2>. QED BY <2>1, GotoTyped, NoCallTyped, ThenTyped, CallTyped DEF PCs
<1>4. CASE call[t].then \in {"start", "reset"} /\ ~call[t].failed
  BY <1>4, GotoTyped DEF AfterStop, PCs, TypeOK
<1>5. CASE /\ ~(call[t].then = "retry" /\ call[t].tries < Retries)
           /\ ~(call[t].then = "retry" /\ ~(call[t].tries < Retries) /\ call[t].boot)
           /\ ~(call[t].then \in {"start", "reset"} /\ ~call[t].failed)
  BY <1>5, ReturnTyped DEF AfterStop
<1>. QED BY <1>2, <1>3, <1>4, <1>5

-----------------------------------------------------------------------------
(* Every step keeps the type.                                              *)

\* The initial state is typed.
LEMMA InitTypeOK == Init => TypeOK
<1> SUFFICES ASSUME Init PROVE TypeOK
  OBVIOUS
<1>1. call \in [Threads -> CallRecord]
  BY BootTyped DEF Init
<1>2. loops \in [Kinds -> [Phases -> Nat]]
  BY DEF Init, NoLoops
<1>3. pc \in [Threads -> PCs]
  BY DEF Init, PCs
<1>4. calls \in 0..MaxCalls /\ faultsLeft \in 0..MaxFaults
  BY EngineAssumption DEF Init
<1>. QED BY <1>1, <1>2, <1>3, <1>4, Zenon DEF Init, TypeOK

\* Every step of Start keeps the types.
LEMMA StartTypeOK ==
    ASSUME TypeOK, NEW t \in Threads, StartStep(t) PROVE TypeOK'
<1> USE DEF engine, world, scripts
<1>0. call[t] \in CallRecord /\ StartPCs \subseteq PCs
  BY DEF TypeOK, PCs
<1>1. CASE BeginStart(t)
  BY <1>0, <1>1, GotoTyped, LoopsTyped DEF TypeOK, BeginStart, StartPCs
<1>2. CASE TerminateDistro(t)
  BY <1>0, <1>2, GotoTyped, LoopsTyped DEF TypeOK, TerminateDistro, StartPCs, Kinds
<1>3. CASE InitializeDnsConfigurator(t)
  <2>1. faultsLeft' \in 0..MaxFaults
    BY <1>3, BudgetTyped DEF InitializeDnsConfigurator
  <2>2. pc' \in [Threads -> PCs] /\ call' \in [Threads -> CallRecord]
    BY <1>0, <1>3, GotoTyped, ThrowTyped DEF TypeOK, InitializeDnsConfigurator, StartPCs
  <2>. QED BY <1>3, <2>1, <2>2 DEF TypeOK, InitializeDnsConfigurator
<1>4. CASE InitializeDataDistro(t)
  BY <1>0, <1>4, GotoTyped DEF TypeOK, InitializeDataDistro, StartPCs, Kinds, Phases
<1>5. CASE WaitForDataDistroInitialization(t)
  BY <1>0, <1>5, GotoTyped, ThrowTyped, BudgetTyped
  DEF TypeOK, WaitForDataDistroInitialization, StartPCs
<1>6. CASE InitializePortForwardListener(t)
  BY <1>0, <1>6, GotoTyped, BudgetTyped
  DEF TypeOK, InitializePortForwardListener, StartPCs, Kinds, Phases
<1>7. CASE InitializeAndStartDaemon(t)
  <2>1. faultsLeft' \in 0..MaxFaults
    BY <1>7, BudgetTyped DEF InitializeAndStartDaemon
  <2>2. pc' \in [Threads -> PCs] /\ call' \in [Threads -> CallRecord]
    BY <1>0, <1>7, GotoTyped, ThrowTyped DEF TypeOK, InitializeAndStartDaemon, StartPCs
  <2>3. daemon' \in {"down", "data", "local"}
    BY <1>7 DEF TypeOK, InitializeAndStartDaemon, StartedDaemon
  <2>. QED BY <1>7, <2>1, <2>2, <2>3 DEF TypeOK, InitializeAndStartDaemon
<1>8. CASE StartProxy(t)
  BY <1>0, <1>8, GotoTyped DEF TypeOK, StartProxy, StartPCs
<1>9. CASE AwaitProxy(t)
  <2>1. faultsLeft' \in 0..MaxFaults
    BY <1>9, BudgetTyped DEF AwaitProxy
  <2>2. CASE Throw(t)
    BY <1>9, <2>1, <2>2, ThrowTyped DEF TypeOK, AwaitProxy
  <2>3. CASE /\ Goto(t, "distros")
             /\ call' = [call EXCEPT ![t] = [@ EXCEPT !.visited = {}, !.stale = FALSE]]
    <3>1. call' = [call EXCEPT ![t] = [call[t] EXCEPT !.visited = {}, !.stale = FALSE]]
      BY <2>3 DEF TypeOK
    <3>2. pc' \in [Threads -> PCs] /\ call' \in [Threads -> CallRecord]
      BY <1>0, <2>3, <3>1, GotoTyped, EnumeratorTyped, CallTyped DEF StartPCs
    <3>. QED BY <1>9, <2>1, <3>2 DEF TypeOK, AwaitProxy
  <2>. QED BY <1>9, <2>2, <2>3 DEF AwaitProxy
<1>10. CASE InitializeDistros(t)
  BY <1>0, <1>10, GotoTyped, ThrowTyped, ForeachTyped, CallTyped
  DEF TypeOK, InitializeDistros, LaunchInitScript
<1>11. CASE FinishStart(t)
  BY <1>11, ReturnTyped DEF TypeOK, FinishStart
<1>. QED BY <1>1, <1>2, <1>3, <1>4, <1>5, <1>6, <1>7, <1>8, <1>9, <1>10, <1>11
         DEF StartStep

\* Every step of Stop and Dispose keeps the types.
LEMMA StopTypeOK ==
    ASSUME TypeOK, NEW t \in Threads, StopStep(t) PROVE TypeOK'
<1> USE DEF engine, world, scripts
<1>0. call[t] \in CallRecord /\ StopPCs \subseteq PCs
  BY DEF TypeOK, PCs
<1>1. CASE BeginStop(t)
  <2>1. call' = [call EXCEPT ![t] = [call[t] EXCEPT !.visited = {}, !.stale = FALSE,
                                                    !.failed = FALSE]]
    BY <1>1 DEF TypeOK, BeginStop
  <2>2. pc' \in [Threads -> PCs] /\ call' \in [Threads -> CallRecord]
    BY <1>0, <1>1, <2>1, GotoTyped, EnumeratorTyped, CallTyped DEF BeginStop, StopPCs
  <2>. QED BY <1>1, <2>2 DEF TypeOK, BeginStop
<1>2. CASE StopDistros(t)
  <2>1. faultsLeft' \in 0..MaxFaults
    BY <1>2, BudgetTyped DEF StopDistros, NoFault
  <2>2. pc' \in [Threads -> PCs] /\ call' \in [Threads -> CallRecord]
    <3>1. CASE ThrowInStop(t)
      BY <3>1, ThrowInStopTyped
    <3>2. CASE Goto(t, "stopProxy") /\ UNCHANGED call
      BY <1>0, <3>2, GotoTyped DEF TypeOK, StopPCs
    <3>3. CASE UNCHANGED pc /\ \E d \in Distros : call' = [call EXCEPT ![t].visited = @ \cup {d}]
      BY <1>0, <3>3, ForeachTyped, CallTyped DEF TypeOK
    <3>. QED BY <1>2, <3>1, <3>2, <3>3 DEF StopDistros, TypeOK
  <2>3. served' \subseteq Distros /\ link' \subseteq Distros /\ UNCHANGED <<linking, starting>>
    BY <1>2 DEF StopDistros, RunRmScript, TypeOK
  <2>. QED BY <1>2, <2>1, <2>2, <2>3 DEF TypeOK, StopDistros
<1>3. CASE StopProxy(t)
  BY <1>0, <1>3, GotoTyped DEF TypeOK, StopProxy, StopPCs
<1>4. CASE Cancel(t)
  BY <1>0, <1>4, GotoTyped, ThrowInStopTyped, LoopsTyped DEF TypeOK, Cancel, StopPCs
<1>5. CASE StopDaemon(t)
  <2>1. pc' \in [Threads -> PCs]
    BY <1>0, <1>5, GotoTyped DEF StopDaemon, StopPCs
  <2>2. ExecsExit(loops, "listen") \in [Kinds -> [Phases -> Nat]]
    BY LoopsTyped DEF TypeOK, Kinds
  <2>3. ExecsExit(ExecsExit(loops, "listen"), "data") \in [Kinds -> [Phases -> Nat]]
    BY <2>2, LoopsTyped DEF Kinds
  <2>4. /\ loops' \in [Kinds -> [Phases -> Nat]]
        /\ daemon' \in {"down", "data", "local"} /\ dataMounted' \in BOOLEAN
    BY <1>5, <2>3 DEF StopDaemon, TerminateBoth, TypeOK
  <2>. QED BY <1>5, <2>1, <2>4 DEF TypeOK, StopDaemon
<1>6. CASE FinishStop(t)
  BY <1>6, AfterStopTyped DEF TypeOK, FinishStop
<1>7. CASE Exit(t)
  <2>1. pc' \in [Threads -> PCs] /\ call' \in [Threads -> CallRecord]
    BY <1>7, NoCallTyped DEF Exit, PCs
  <2>2. loops' \in [Kinds -> [Phases -> Nat]]
    BY <1>7 DEF Exit, NoLoops
  <2>. QED BY <1>7, <2>1, <2>2 DEF TypeOK, Exit
<1>. QED BY <1>1, <1>2, <1>3, <1>4, <1>5, <1>6, <1>7 DEF StopStep

\* Every step of the handlers of the view model keeps the types.
LEMMA ViewTypeOK ==
    ASSUME TypeOK, NEW t \in Threads, ViewStep(t) PROVE TypeOK'
<1> USE DEF engine, world, scripts
<1>0. call[t] \in CallRecord
  BY DEF TypeOK
<1>1. CASE Reset(t)
  <2>1. faultsLeft' \in 0..MaxFaults
    BY <1>1, BudgetTyped DEF Reset
  <2>2. pc' \in [Threads -> PCs] /\ call' \in [Threads -> CallRecord]
    BY <1>1, GotoTyped, ReturnTyped DEF TypeOK, Reset, PCs
  <2>3. loops' \in [Kinds -> [Phases -> Nat]]
    BY <1>1, LoopsTyped DEF TypeOK, Reset, TerminateBoth, Kinds
  <2>. QED BY <1>1, <2>1, <2>2, <2>3 DEF TypeOK, Reset, TerminateBoth
<1>2. CASE ToggleWslDistro(t)
  BY <1>2, GotoTyped DEF TypeOK, ToggleWslDistro, PCs
<1>3. CASE EnableDistro(t)
  <2>1. faultsLeft' \in 0..MaxFaults
    BY <1>3, BudgetTyped DEF EnableDistro
  <2>2. pc' \in [Threads -> PCs] /\ call' \in [Threads -> CallRecord]
    BY <1>3, GotoTyped, ReturnTyped DEF TypeOK, EnableDistro, PCs
  <2>3. /\ link' \subseteq Distros /\ served' \subseteq Distros
        /\ linking' \subseteq Distros /\ starting' \subseteq Distros
    BY <1>3 DEF TypeOK, EnableDistro, LaunchInitScript, RunRmScript
  <2>. QED BY <1>3, <2>1, <2>2, <2>3 DEF TypeOK, EnableDistro
<1>4. CASE SaveToggle(t)
  <2>1. pc' \in [Threads -> PCs]
    BY <1>4, GotoTyped DEF SaveToggle, PCs
  <2>2. call' \in [Threads -> CallRecord]
    <3>1. CASE Invalidate(t)
      BY <3>1, NoCallTyped, StaleTyped DEF TypeOK, Invalidate
    <3>2. CASE call' = [call EXCEPT ![t] = NoCall]
      BY <3>2, NoCallTyped, CallTyped
    <3>. QED BY <1>4, <3>1, <3>2 DEF SaveToggle
  <2>3. enabledDistributions' \subseteq Distros
    BY <1>4 DEF TypeOK, SaveToggle
  <2>. QED BY <1>4, <2>1, <2>2, <2>3 DEF TypeOK, SaveToggle
<1>. QED BY <1>1, <1>2, <1>3, <1>4 DEF ViewStep

\* Issuing a command keeps the types.
LEMMA ClickTypeOK ==
    ASSUME TypeOK, NEW t \in Threads,
           \/ \E c \in Commands : Click(t, c)
           \/ \E d \in Distros : ClickToggle(t, d)
    PROVE  TypeOK'
<1> USE DEF engine, world, scripts
<1>0. call[t] \in CallRecord
  BY DEF TypeOK
<1>1. ASSUME Issue(t) PROVE calls' \in 0..MaxCalls
  BY <1>1, EngineAssumption DEF TypeOK, Issue
<1>2. ASSUME NEW c \in Commands, Click(t, c) PROVE TypeOK'
  <2>1. ThenOf(c) \in {"return", "start", "reset", "exit", "retry"}
    BY DEF ThenOf, Commands
  <2>2. pc' \in [Threads -> PCs] /\ call' \in [Threads -> CallRecord]
    BY <1>0, <1>2, <2>1, GotoTyped, ThenTyped, CallTyped DEF Click, PCs
  <2>. QED BY <1>1, <1>2, <2>2 DEF TypeOK, Click
<1>3. ASSUME NEW d \in Distros, ClickToggle(t, d) PROVE TypeOK'
  <2>1. {d} \in SUBSET Distros
    OBVIOUS
  <2>2. pc' \in [Threads -> PCs] /\ call' \in [Threads -> CallRecord]
    BY <1>0, <1>3, <2>1, GotoTyped, ToggleTyped, CallTyped DEF ClickToggle, PCs
  <2>. QED BY <1>1, <1>3, <2>2 DEF TypeOK, ClickToggle
<1>. QED BY <1>2, <1>3

\* Every step of the loops, the scripts and the proxy keeps the types.
LEMMA BackgroundTypeOK ==
    ASSUME TypeOK,
           \/ \E k \in Kinds : LoopEnters(k) \/ \E p \in Phases : LoopExecEnds(k, p)
           \/ \E d \in Distros : ScriptLinks(d) \/ ScriptServes(d)
           \/ DataMounts \/ ProxyExits
    PROVE  TypeOK'
<1> USE DEF engine, world, scripts
<1>1. ASSUME NEW k \in Kinds, LoopEnters(k) PROVE TypeOK'
  <2>1. loops' \in [Kinds -> [Phases -> Nat]]
    BY <1>1, LoopMoves DEF LoopEnters, LoopPhase, Phases
  <2>. QED BY <1>1, <2>1 DEF TypeOK, LoopEnters
<1>2. ASSUME NEW k \in Kinds, NEW p \in Phases, LoopExecEnds(k, p) PROVE TypeOK'
  <2>1. loops' \in [Kinds -> [Phases -> Nat]]
    BY <1>2, LoopMoves DEF LoopExecEnds, Phases
  <2>2. faultsLeft' \in 0..MaxFaults
    BY <1>2, BudgetTyped DEF LoopExecEnds
  <2>. QED BY <1>2, <2>1, <2>2 DEF TypeOK, LoopExecEnds
<1>3. ASSUME NEW d \in Distros, ScriptLinks(d) \/ ScriptServes(d) PROVE TypeOK'
  BY <1>3 DEF TypeOK, ScriptLinks, ScriptServes
<1>4. CASE DataMounts
  BY <1>4 DEF TypeOK, DataMounts
<1>5. CASE ProxyExits
  <2>1. faultsLeft' \in 0..MaxFaults
    BY <1>5, BudgetTyped DEF ProxyExits
  <2>. QED BY <1>5, <2>1 DEF TypeOK, ProxyExits
<1>. QED BY <1>1, <1>2, <1>3, <1>4, <1>5

\* Every step keeps the types.
LEMMA StepTypeOK == TypeOK /\ [Next]_vars => TypeOK'
<1> SUFFICES ASSUME TypeOK, [Next]_vars PROVE TypeOK'
  OBVIOUS
<1>1. CASE UNCHANGED vars
  BY <1>1 DEF TypeOK, vars, engine, world, scripts
<1>2. CASE Next
  BY <1>2, StartTypeOK, StopTypeOK, ViewTypeOK, ClickTypeOK, BackgroundTypeOK
  DEF Next, CallStep
<1>. QED BY <1>1, <1>2

\* Every variable of the engine keeps its type.
THEOREM TypeCorrect == Spec => []TypeOK
<1>. QED BY InitTypeOK, StepTypeOK, PTL DEF Spec

-----------------------------------------------------------------------------
(* A transitional state has a thread that will leave it.                   *)

Busy == StartPCs \cup StopPCs \cup {"stop"}

\* A thread that stays busy, with the state unchanged, keeps the invariant.
LEMMA StaysBusy ==
    ASSUME Settled, UNCHANGED runningState,
           \A t \in Threads : pc[t] \in Busy => pc'[t] \in Busy
    PROVE  Settled'
  BY DEF Settled, Busy

\* So does a step of a thread to a busy location, or from one that is not.
LEMMA GotoBusy ==
    ASSUME TypeOK, Settled, UNCHANGED runningState, NEW t \in Threads, NEW l, Goto(t, l),
           l \in Busy \/ pc[t] \notin Busy
    PROVE  Settled'
  BY StaysBusy DEF TypeOK, Goto

\* Every step of Start leaves a thread that will overwrite Starting.
LEMMA StartSettled ==
    ASSUME TypeOK, Settled, NEW t \in Threads, StartStep(t) PROVE Settled'
<1> USE DEF engine
<1>1. CASE BeginStart(t)
  BY <1>1 DEF TypeOK, BeginStart, Goto, Settled, StartPCs
<1>2. CASE TerminateDistro(t)
  BY <1>2, GotoBusy DEF TerminateDistro, Busy, StartPCs
<1>3. CASE InitializeDnsConfigurator(t)
  BY <1>3, GotoBusy DEF InitializeDnsConfigurator, Throw, Busy, StartPCs
<1>4. CASE InitializeDataDistro(t)
  BY <1>4, GotoBusy DEF InitializeDataDistro, Busy, StartPCs
<1>5. CASE WaitForDataDistroInitialization(t)
  BY <1>5, GotoBusy DEF WaitForDataDistroInitialization, Throw, Busy, StartPCs
<1>6. CASE InitializePortForwardListener(t)
  BY <1>6, GotoBusy DEF InitializePortForwardListener, Busy, StartPCs
<1>7. CASE InitializeAndStartDaemon(t)
  BY <1>7, GotoBusy DEF InitializeAndStartDaemon, Throw, Busy, StartPCs
<1>8. CASE StartProxy(t)
  BY <1>8, GotoBusy DEF StartProxy, Busy, StartPCs
<1>9. CASE AwaitProxy(t)
  BY <1>9, GotoBusy DEF AwaitProxy, Throw, Busy, StartPCs
<1>10. CASE InitializeDistros(t)
  BY <1>10, GotoBusy, StaysBusy DEF InitializeDistros, Throw, Busy, StartPCs
<1>11. CASE FinishStart(t)
  BY <1>11 DEF FinishStart, Settled
<1>. QED BY <1>1, <1>2, <1>3, <1>4, <1>5, <1>6, <1>7, <1>8, <1>9, <1>10, <1>11
         DEF StartStep

\* Every step of Stop leaves a thread that will overwrite Stopping, or settles the state.
LEMMA StopSettled ==
    ASSUME TypeOK, Settled, NEW t \in Threads, StopStep(t) PROVE Settled'
<1> USE DEF engine
<1>1. CASE BeginStop(t)
  BY <1>1 DEF TypeOK, BeginStop, Goto, Settled, StopPCs
<1>2. CASE StopDistros(t)
  <2>1. CASE UNCHANGED pc
    BY <1>2, <2>1, StaysBusy DEF StopDistros
  <2>2. CASE Goto(t, "stopped") \/ Goto(t, "stopProxy")
    BY <1>2, <2>2, GotoBusy DEF StopDistros, Busy, StopPCs
  <2>. QED BY <1>2, <2>1, <2>2 DEF StopDistros, ThrowInStop
<1>3. CASE StopProxy(t)
  BY <1>3, GotoBusy DEF StopProxy, Busy, StopPCs
<1>4. CASE Cancel(t)
  BY <1>4, GotoBusy DEF Cancel, ThrowInStop, Busy, StopPCs
<1>5. CASE StopDaemon(t)
  BY <1>5, GotoBusy DEF StopDaemon, Busy, StopPCs
<1>6. CASE FinishStop(t)
  BY <1>6 DEF FinishStop, Settled
<1>7. CASE Exit(t)
  BY <1>7 DEF Exit, Settled
<1>. QED BY <1>1, <1>2, <1>3, <1>4, <1>5, <1>6, <1>7 DEF StopStep

\* Every step keeps the state settled.
LEMMA StepSettled == TypeOK /\ Settled /\ [Next]_vars => Settled'
<1> SUFFICES ASSUME TypeOK, Settled, [Next]_vars PROVE Settled'
  OBVIOUS
<1> USE DEF engine
<1>1. ASSUME NEW t \in Threads, ViewStep(t) PROVE Settled'
  <2>1. pc[t] \notin Busy /\ UNCHANGED runningState
    BY <1>1 DEF ViewStep, Reset, ToggleWslDistro, EnableDistro, SaveToggle,
                Busy, StartPCs, StopPCs
  <2>2. \E l : Goto(t, l)
    BY <1>1 DEF ViewStep, Reset, ToggleWslDistro, EnableDistro, SaveToggle, Return
  <2>. QED BY <2>1, <2>2, GotoBusy
<1>2. ASSUME NEW t \in Threads,
             \/ \E c \in Commands : Click(t, c)
             \/ \E d \in Distros : ClickToggle(t, d)
      PROVE  Settled'
  <2>1. pc[t] \notin Busy /\ UNCHANGED runningState /\ \E l : Goto(t, l)
    BY <1>2 DEF Click, ClickToggle, Issue, Busy, StartPCs, StopPCs
  <2>. QED BY <2>1, GotoBusy
<1>3. CASE UNCHANGED <<runningState, pc>>
  BY <1>3, StaysBusy
<1>4. CASE UNCHANGED vars
  BY <1>3, <1>4 DEF vars
<1>5. CASE Next
  BY <1>1, <1>2, <1>3, <1>5, StartSettled, StopSettled
  DEF Next, CallStep, LoopEnters, LoopExecEnds, ScriptLinks, ScriptServes,
      DataMounts, ProxyExits
<1>. QED BY <1>4, <1>5

\* Starting and Stopping are never left behind without a thread that overwrites them.
THEOREM AlwaysSettled == Spec => []Settled
<1>1. Init => Settled
  BY DEF Init, Settled
<1>. QED BY <1>1, StepSettled, TypeCorrect, PTL DEF Spec

-----------------------------------------------------------------------------
(* Cancellation reaches every loop that waits on the source in the field.  *)

LInv == TypeOK /\ LoopsHaveSources /\ CancelReachesLoops

\* Initially there are no loops, and no thread is past the first step of Start.
LEMMA LInvInit == Init => LoopsHaveSources /\ CancelReachesLoops
  BY DEF Init, LoopsHaveSources, CancelReachesLoops, NoLoops, StartPCs, Kinds, Phases

\* Every step of Start keeps the relation between sources and loops.
LEMMA StartLInv ==
    ASSUME LInv, NEW t \in Threads, StartStep(t)
    PROVE  LoopsHaveSources' /\ CancelReachesLoops'
<1> USE DEF engine, LInv
<1>1. CASE BeginStart(t)
  BY <1>1 DEF TypeOK, BeginStart, Orphan, LoopsHaveSources, CancelReachesLoops, Kinds, Phases
<1>0. CASE ~BeginStart(t)
  <2>1. pc[t] \in StartPCs /\ cts # "null" /\ UNCHANGED cts
    BY <1>0 DEF StartStep, TerminateDistro, InitializeDnsConfigurator, InitializeDataDistro,
       WaitForDataDistroInitialization, InitializePortForwardListener,
       InitializeAndStartDaemon, StartProxy, AwaitProxy, InitializeDistros, FinishStart,
       StartPCs, LoopsHaveSources
  <2>2. CASE UNCHANGED <<portforwardListenerCts, loops>>
    BY <2>1, <2>2 DEF LoopsHaveSources, CancelReachesLoops
  <2>3. CASE TerminateDistro(t)
    BY <2>1, <2>3 DEF TypeOK, TerminateDistro, ExecsExit, LoopsHaveSources,
                      CancelReachesLoops, Kinds, Phases
  <2>4. CASE InitializeDataDistro(t)
    BY <2>1, <2>4 DEF TypeOK, InitializeDataDistro, LoopsHaveSources,
                      CancelReachesLoops, Kinds, Phases
  <2>5. CASE InitializePortForwardListener(t)
    BY <2>1, <2>5 DEF TypeOK, InitializePortForwardListener, LoopsHaveSources,
                      CancelReachesLoops, Kinds, Phases
  <2>. QED BY <1>0, <2>2, <2>3, <2>4, <2>5
           DEF StartStep, InitializeDnsConfigurator, WaitForDataDistroInitialization,
               InitializeAndStartDaemon, StartProxy, AwaitProxy, InitializeDistros, FinishStart
<1>. QED BY <1>1, <1>0

\* A step that enters no location of Start and leaves sources and loops alone.
LEMMA OutsideStart ==
    ASSUME LInv, UNCHANGED <<cts, portforwardListenerCts, loops>>,
           \A t \in Threads : pc'[t] \in StartPCs => pc[t] \in StartPCs
    PROVE  LoopsHaveSources' /\ CancelReachesLoops'
  BY DEF LInv, LoopsHaveSources, CancelReachesLoops

\* A step to a location outside Start keeps the relation between sources and loops.
LEMMA GotoOutside ==
    ASSUME LInv, UNCHANGED <<cts, portforwardListenerCts, loops>>,
           NEW t \in Threads, NEW l, l \notin StartPCs, Goto(t, l)
    PROVE  LoopsHaveSources' /\ CancelReachesLoops'
  BY OutsideStart DEF LInv, TypeOK, Goto

\* Every step of Stop keeps the relation between sources and loops.
LEMMA StopLInv ==
    ASSUME LInv, NEW t \in Threads, StopStep(t)
    PROVE  LoopsHaveSources' /\ CancelReachesLoops'
<1> USE DEF engine
<1>1. CASE BeginStop(t)
  BY <1>1, GotoOutside DEF BeginStop, StartPCs
<1>2. CASE StopDistros(t)
  <2>1. CASE UNCHANGED pc
    BY <1>2, <2>1, OutsideStart DEF StopDistros
  <2>2. CASE Goto(t, "stopped") \/ Goto(t, "stopProxy")
    BY <1>2, <2>2, GotoOutside DEF StopDistros, StartPCs
  <2>. QED BY <1>2, <2>1, <2>2 DEF StopDistros, ThrowInStop
<1>3. CASE StopProxy(t)
  BY <1>3, GotoOutside DEF StopProxy, StartPCs
<1>4. CASE Cancel(t)
  <2>1. CASE cts = "null"
    BY <1>4, <2>1, GotoOutside DEF Cancel, ThrowInStop, StartPCs
  <2>2. CASE cts # "null"
    BY <1>4, <2>2 DEF LInv, TypeOK, Cancel, CancelWaits, LoopsHaveSources,
                      CancelReachesLoops, Kinds, Phases
  <2>. QED BY <2>1, <2>2
<1>5. CASE StopDaemon(t)
  BY <1>5 DEF LInv, TypeOK, StopDaemon, TerminateBoth, ExecsExit, Goto, StartPCs,
              LoopsHaveSources, CancelReachesLoops, Kinds, Phases
<1>6. CASE FinishStop(t)
  <2>1. \E l : l \notin StartPCs /\ Goto(t, l)
    BY <1>6 DEF FinishStop, AfterStop, Return, StartPCs
  <2>. QED BY <1>6, <2>1, GotoOutside DEF FinishStop
<1>7. CASE Exit(t)
  BY <1>7 DEF LInv, Exit, NoLoops, LoopsHaveSources, CancelReachesLoops, StartPCs,
              Kinds, Phases
<1>. QED BY <1>1, <1>2, <1>3, <1>4, <1>5, <1>6, <1>7 DEF StopStep

\* The handlers of the view model keep the relation between sources and loops.
LEMMA ViewLInv ==
    ASSUME LInv, NEW t \in Threads,
           \/ ViewStep(t)
           \/ \E c \in Commands : Click(t, c)
           \/ \E d \in Distros : ClickToggle(t, d)
    PROVE  LoopsHaveSources' /\ CancelReachesLoops'
<1> USE DEF engine
<1>1. CASE Reset(t)
  <2>1. \E l : l \notin StartPCs /\ Goto(t, l)
    BY <1>1 DEF Reset, Return, StartPCs
  <2>. QED BY <1>1, <2>1 DEF LInv, TypeOK, Reset, TerminateBoth, ExecsExit, Goto,
                             LoopsHaveSources, CancelReachesLoops, Kinds, Phases
<1>2. CASE ~Reset(t)
  <2>1. UNCHANGED <<cts, portforwardListenerCts, loops>>
    BY <1>2 DEF ViewStep, ToggleWslDistro, EnableDistro, SaveToggle, Click, ClickToggle
  <2>2. \E l : l \notin StartPCs /\ Goto(t, l)
    BY <1>2 DEF ViewStep, ToggleWslDistro, EnableDistro, SaveToggle, Click, ClickToggle,
                Return, StartPCs
  <2>. QED BY <2>1, <2>2, GotoOutside
<1>. QED BY <1>1, <1>2

\* Every step of a loop keeps the relation between sources and loops.
LEMMA LoopLInv ==
    ASSUME LInv,
           \E k \in Kinds : LoopEnters(k) \/ \E p \in Phases : LoopExecEnds(k, p)
    PROVE  LoopsHaveSources' /\ CancelReachesLoops'
<1> USE DEF engine, LInv
<1>1. ASSUME NEW k \in Kinds, NEW p \in Phases, EndLoop(k, p),
             UNCHANGED <<cts, portforwardListenerCts, pc>>
      PROVE  LoopsHaveSources' /\ CancelReachesLoops'
  BY <1>1 DEF TypeOK, EndLoop, LoopsHaveSources, CancelReachesLoops, Kinds, Phases
<1>2. ASSUME NEW k \in Kinds, MoveLoop(k, "check", LoopPhase(k)), ~LoopCancelled(k),
             UNCHANGED <<cts, portforwardListenerCts, pc>>
      PROVE  LoopsHaveSources' /\ CancelReachesLoops'
  BY <1>2 DEF TypeOK, MoveLoop, Moved, LoopPhase, LoopCancelled, LoopsHaveSources,
              CancelReachesLoops, Kinds, Phases
<1>3. ASSUME NEW k \in Kinds, NEW p \in {"cur", "old"}, MoveLoop(k, p, "check"),
             UNCHANGED <<cts, portforwardListenerCts, pc>>
      PROVE  LoopsHaveSources' /\ CancelReachesLoops'
  BY <1>3 DEF TypeOK, MoveLoop, Moved, LoopsHaveSources, CancelReachesLoops, Kinds, Phases
<1>. QED BY <1>1, <1>2, <1>3 DEF LoopEnters, LoopExecEnds, Phases

\* Every step keeps the relation between sources and loops.
LEMMA StepLInv == LInv /\ [Next]_vars => LInv'
<1> SUFFICES ASSUME LInv, [Next]_vars PROVE LoopsHaveSources' /\ CancelReachesLoops'
  BY StepTypeOK DEF LInv
<1>1. CASE UNCHANGED <<cts, portforwardListenerCts, loops, pc>>
  BY <1>1, OutsideStart
<1>2. CASE UNCHANGED vars
  BY <1>1, <1>2 DEF vars, engine
<1>3. CASE Next
  BY <1>1, <1>3, StartLInv, StopLInv, ViewLInv, LoopLInv
  DEF Next, CallStep, ScriptLinks, ScriptServes, DataMounts, ProxyExits, engine
<1>. QED BY <1>2, <1>3

\* No loop runs without a source in the field it reads.
THEOREM AlwaysLoopsHaveSources == Spec => []LoopsHaveSources
<1>1. Spec => []LInv
  BY InitTypeOK, LInvInit, StepLInv, PTL DEF Spec, LInv
<1>2. LInv => LoopsHaveSources
  BY DEF LInv
<1>. QED BY <1>1, <1>2, PTL

\* No loop waits on a source that has been cancelled: _cts.Cancel reached them all.
THEOREM AlwaysCancelReachesLoops == Spec => []CancelReachesLoops
<1>1. Spec => []LInv
  BY InitTypeOK, LInvInit, StepLInv, PTL DEF Spec, LInv
<1>2. LInv => CancelReachesLoops
  BY DEF LInv
<1>. QED BY <1>1, <1>2, PTL

-----------------------------------------------------------------------------
(* One call at a time                                                      *)

\* Some data loop has not ended.
DataLoop == \E p \in Phases : loops["data"][p] > 0

\* The state says where the call is.
StateAt(t) ==
    /\ pc[t] \in StartPCs => runningState = "Starting"
    /\ pc[t] \in StopPCs => runningState = "Stopping"
    /\ pc[t] \in {"start", "reset"} => runningState # "Running"

\* What Start has brought up so far, and what stays up while the engine runs.
Up(t) ==
    /\ pc[t] \in StartPCs \/ runningState = "Running" => cts = "live"
    /\ pc[t] \in StartPCs \ {"terminate", "dns", "data"} \/ runningState = "Running" => DataLoop
    /\ pc[t] \in {"proxy", "proxyWait", "distros"} \/ runningState = "Running" => daemon # "down"
    /\ pc[t] = "distros" \/ runningState = "Running" =>
           "proxyExits" \in Faults \/ proxy = "up"

\* What Stop has brought down so far, unless one of its steps failed.
Down(t) ==
    /\ pc[t] \in StopPCs \ {"stopped"} => ~call[t].failed
    /\ pc[t] \in {"cancel", "stopDaemon", "stopped"} => call[t].failed \/ proxy # "up"
    /\ pc[t] \in {"stopDaemon", "stopped"} => call[t].failed \/ cts = "cancelled"
    /\ pc[t] = "stopped" => call[t].failed \/ (daemon = "down" /\ ~DataExecutes)

\* All of it: inductive as long as t is the only thread that calls.
UpOrDown(t) == StateAt(t) /\ Up(t) /\ Down(t)

\* The Start of App.AppStartup is about to begin.
LEMMA InitUpOrDown ==
    ASSUME NEW t \in Threads, Init PROVE UpOrDown(t)
  BY DEF Init, UpOrDown, StateAt, Up, Down, StartPCs, StopPCs

\* Nothing is claimed at a location between the calls, in a state that is not Running.
LEMMA NothingUp ==
    ASSUME NEW t \in Threads, pc'[t] \notin StartPCs \cup StopPCs, runningState' # "Running"
    PROVE  UpOrDown(t)'
  BY DEF UpOrDown, StateAt, Up, Down, StartPCs, StopPCs

\* A thread that goes out of Start or Stop, while the engine and its processes stay as they are.
LEMMA GoesBetween ==
    ASSUME TypeOK, NEW t \in Threads, UpOrDown(t), NEW l, Goto(t, l),
           l \notin StartPCs \cup StopPCs,
           l \in {"start", "reset"} => runningState # "Running",
           UNCHANGED <<runningState, cts, daemon, proxy, loops>>
    PROVE  UpOrDown(t)'
<1>1. pc'[t] = l
  BY DEF TypeOK, Goto
<1>. QED BY <1>1 DEF UpOrDown, StateAt, Up, Down, StartPCs, StopPCs, DataLoop

\* The commands a loop waits for may end: the loop goes on.
LEMMA DataLoopStays ==
    ASSUME TypeOK, NEW k \in Kinds, loops' = ExecsExit(loops, k) PROVE DataLoop => DataLoop'
<1>1. /\ loops \in [Kinds -> [Phases -> Nat]] /\ "data" \in Kinds
      /\ \A p \in Phases : loops["data"][p] \in Nat
  BY DEF TypeOK, Kinds
<1>2. CASE k # "data"
  <2>1. loops'["data"] = loops["data"]
    BY <1>1, <1>2 DEF ExecsExit
  <2>. QED BY <2>1 DEF DataLoop
<1>3. CASE k = "data"
  <2>1. loops'["data"]["check"] = loops["data"]["check"] + loops["data"]["cur"] + loops["data"]["old"]
    BY <1>1, <1>3 DEF ExecsExit, Phases
  <2>. QED BY <1>1, <2>1 DEF DataLoop, Phases
<1>. QED BY <1>2, <1>3

\* Every step of Start keeps what is claimed of one call at a time.
LEMMA StartUpOrDown ==
    ASSUME TypeOK, NEW t \in Threads, UpOrDown(t), StartStep(t)
    PROVE  UpOrDown(t)'
<1>. USE DEF engine, world
<1>1. CASE BeginStart(t)
  BY <1>1 DEF TypeOK, BeginStart, Goto, UpOrDown, StateAt, Up, Down, StartPCs, StopPCs
<1>2. ASSUME Throw(t), pc[t] \in StartPCs, UNCHANGED runningState PROVE UpOrDown(t)'
  <2>1. pc'[t] = "stop"
    BY <1>2 DEF TypeOK, Throw, Goto
  <2>. QED BY <1>2, <2>1, NothingUp DEF UpOrDown, StateAt, StartPCs, StopPCs
<1>3. CASE TerminateDistro(t)
  <2>1. DataLoop => DataLoop'
    BY <1>3, DataLoopStays DEF TerminateDistro, Kinds
  <2>. QED BY <1>3, <2>1 DEF TypeOK, TerminateDistro, Goto, UpOrDown, StateAt, Up, Down, StartPCs, StopPCs
<1>4. CASE InitializeDnsConfigurator(t)
  BY <1>2, <1>4 DEF TypeOK, InitializeDnsConfigurator, Goto, UpOrDown, StateAt, Up, Down,
     StartPCs, StopPCs, DataLoop
<1>5. CASE InitializeDataDistro(t)
  <2>1. DataLoop'
    BY <1>5 DEF TypeOK, InitializeDataDistro, DataLoop, Kinds, Phases
  <2>. QED BY <1>5, <2>1 DEF TypeOK, InitializeDataDistro, Goto, UpOrDown, StateAt, Up, Down,
           StartPCs, StopPCs
<1>6. CASE WaitForDataDistroInitialization(t)
  BY <1>2, <1>6 DEF TypeOK, WaitForDataDistroInitialization, Goto, UpOrDown, StateAt, Up, Down,
     StartPCs, StopPCs, DataLoop
<1>7. CASE InitializePortForwardListener(t)
  <2>1. DataLoop => DataLoop'
    BY <1>7 DEF TypeOK, InitializePortForwardListener, DataLoop, Kinds
  <2>. QED BY <1>7, <2>1 DEF TypeOK, InitializePortForwardListener, Goto, UpOrDown, StateAt, Up, Down,
           StartPCs, StopPCs
<1>8. CASE InitializeAndStartDaemon(t)
  <2>1. StartedDaemon # "down"
    BY DEF StartedDaemon
  <2>. QED BY <1>2, <1>8, <2>1 DEF TypeOK, InitializeAndStartDaemon, Goto, UpOrDown, StateAt, Up, Down,
           StartPCs, StopPCs, DataLoop
<1>9. CASE StartProxy(t)
  BY <1>9 DEF TypeOK, StartProxy, Goto, UpOrDown, StateAt, Up, Down, StartPCs, StopPCs, DataLoop
<1>10. CASE AwaitProxy(t)
  BY <1>2, <1>10 DEF TypeOK, AwaitProxy, Goto, UpOrDown, StateAt, Up, Down, StartPCs, StopPCs, DataLoop
<1>11. CASE InitializeDistros(t)
  BY <1>2, <1>11 DEF TypeOK, InitializeDistros, Goto, UpOrDown, StateAt, Up, Down, StartPCs, StopPCs,
     DataLoop
<1>12. CASE FinishStart(t)
  BY <1>12 DEF TypeOK, FinishStart, Return, Goto, UpOrDown, StateAt, Up, Down, StartPCs, StopPCs, DataLoop
<1>. QED BY <1>1, <1>3, <1>4, <1>5, <1>6, <1>7, <1>8, <1>9, <1>10, <1>11, <1>12 DEF StartStep

\* A step that fails sends Stop to its finally block.
LEMMA StopFails ==
    ASSUME TypeOK, NEW t \in Threads, UpOrDown(t), pc[t] \in StopPCs, ThrowInStop(t),
           UNCHANGED runningState
    PROVE  UpOrDown(t)'
<1>1. pc'[t] = "stopped" /\ call'[t].failed
  BY DEF TypeOK, CallRecord, ThrowInStop, Goto
<1>. QED BY <1>1 DEF UpOrDown, StateAt, Up, Down, StartPCs, StopPCs

\* Every step of Stop keeps what is claimed of one call at a time.
LEMMA StopUpOrDown ==
    ASSUME TypeOK, NEW t \in Threads, UpOrDown(t), StopStep(t)
    PROVE  UpOrDown(t)'
<1>. USE DEF engine, world
<1>1. CASE BeginStop(t)
  <2>1. pc'[t] = "distrosDown" /\ ~call'[t].failed /\ runningState' = "Stopping"
    BY <1>1 DEF TypeOK, CallRecord, BeginStop, Goto
  <2>. QED BY <2>1 DEF UpOrDown, StateAt, Up, Down, StartPCs, StopPCs
<1>2. CASE StopDistros(t)
  <2>1. pc[t] = "distrosDown" /\ UNCHANGED <<runningState, cts, daemon, proxy, loops>>
    BY <1>2 DEF StopDistros
  <2>2. CASE ThrowInStop(t)
    BY <2>1, <2>2, StopFails DEF StopPCs
  <2>3. ASSUME NEW d, call' = [call EXCEPT ![t].visited = @ \cup {d}], UNCHANGED pc PROVE UpOrDown(t)'
    <3>1. call'[t].failed = call[t].failed
      BY <2>3 DEF TypeOK, CallRecord
    <3>. QED BY <2>1, <2>3, <3>1 DEF UpOrDown, StateAt, Up, Down, StartPCs, StopPCs
  <2>4. CASE Goto(t, "stopProxy") /\ UNCHANGED call
    BY <2>1, <2>4 DEF TypeOK, Goto, UpOrDown, StateAt, Up, Down, StartPCs, StopPCs
  <2>. QED BY <1>2, <2>2, <2>3, <2>4 DEF StopDistros
<1>3. CASE StopProxy(t)
  BY <1>3 DEF TypeOK, StopProxy, Goto, UpOrDown, StateAt, Up, Down, StartPCs, StopPCs
<1>4. CASE Cancel(t)
  <2>1. CASE ThrowInStop(t)
    BY <1>4, <2>1, StopFails DEF Cancel, StopPCs
  <2>2. CASE cts' = "cancelled" /\ Goto(t, "stopDaemon") /\ UNCHANGED <<runningState, call>>
    BY <1>4, <2>2 DEF TypeOK, Cancel, Goto, UpOrDown, StateAt, Up, Down, StartPCs, StopPCs
  <2>. QED BY <1>4, <2>1, <2>2 DEF Cancel
<1>5. CASE StopDaemon(t)
  <2>1. ~DataExecutes'
    BY <1>5 DEF TypeOK, StopDaemon, TerminateBoth, ExecsExit, DataExecutes, Kinds, Phases
  <2>2. pc[t] = "stopDaemon" /\ pc'[t] = "stopped" /\ daemon' = "down"
        /\ UNCHANGED <<runningState, cts, proxy, call>>
    BY <1>5 DEF TypeOK, StopDaemon, TerminateBoth, Goto
  <2>. QED BY <2>1, <2>2 DEF UpOrDown, StateAt, Up, Down, StartPCs, StopPCs
<1>6. CASE FinishStop(t)
  <2>1. pc'[t] \notin StartPCs \cup StopPCs
    BY <1>6 DEF TypeOK, FinishStop, AfterStop, Return, Goto, StartPCs, StopPCs
  <2>. QED BY <1>6, <2>1, NothingUp DEF FinishStop
<1>7. CASE Exit(t)
  BY <1>7, NothingUp DEF Exit, StartPCs, StopPCs
<1>. QED BY <1>1, <1>2, <1>3, <1>4, <1>5, <1>6, <1>7 DEF StopStep

\* The handlers of the view model keep what is claimed of one call at a time.
LEMMA ViewUpOrDown ==
    ASSUME TypeOK, NEW t \in Threads, UpOrDown(t),
           \/ ViewStep(t)
           \/ \E c \in Commands : Click(t, c)
           \/ \E d \in Distros : ClickToggle(t, d)
    PROVE  UpOrDown(t)'
<1>. USE DEF engine, world
<1>1. CASE Reset(t)
  <2>1. /\ pc'[t] \notin StartPCs \cup StopPCs /\ runningState' # "Running"
    BY <1>1 DEF TypeOK, Reset, Return, Goto, StartPCs, StopPCs, UpOrDown, StateAt
  <2>. QED BY <2>1, NothingUp
<1>2. CASE ToggleWslDistro(t) \/ EnableDistro(t) \/ SaveToggle(t)
  <2>1. /\ UNCHANGED <<runningState, cts, daemon, proxy, loops>>
        /\ \E l : l \notin StartPCs \cup StopPCs /\ l \notin {"start", "reset"} /\ Goto(t, l)
    BY <1>2 DEF ToggleWslDistro, EnableDistro, SaveToggle, Return, StartPCs, StopPCs
  <2>. QED BY <2>1, GoesBetween
<1>3. ASSUME NEW c \in Commands, Click(t, c) PROVE UpOrDown(t)'
  <2>1. UNCHANGED <<runningState, cts, daemon, proxy, loops>>
    BY <1>3 DEF Click
  <2>2. c = "start" => runningState # "Running"
    BY <1>3 DEF Click, CanExecute
  <2>3. Goto(t, IF c = "start" THEN "start" ELSE "stop")
    BY <1>3 DEF Click
  <2>. QED BY <2>1, <2>2, <2>3, GoesBetween DEF StartPCs, StopPCs
<1>4. CASE \E d \in Distros : ClickToggle(t, d)
  <2>1. UNCHANGED <<runningState, cts, daemon, proxy, loops>> /\ Goto(t, "toggle")
    BY <1>4 DEF ClickToggle
  <2>. QED BY <2>1, GoesBetween DEF StartPCs, StopPCs
<1>. QED BY <1>1, <1>2, <1>3, <1>4 DEF ViewStep

\* A loop ends only when its source is cancelled, and waits only when it is not.
LEMMA LoopUpOrDown ==
    ASSUME TypeOK, NEW t \in Threads, UpOrDown(t),
           \E k \in Kinds : LoopEnters(k) \/ \E p \in Phases : LoopExecEnds(k, p)
    PROVE  UpOrDown(t)'
<1>. USE DEF engine, world
<1>1. UNCHANGED <<runningState, cts, daemon, proxy, pc, call>>
  BY DEF LoopEnters, LoopExecEnds
<1>2. /\ loops \in [Kinds -> [Phases -> Nat]] /\ Kinds = {"data", "listen"} /\ Phases = {"check", "cur", "old"}
      /\ \A p \in Phases : loops["data"][p] \in Nat
  BY DEF TypeOK, Kinds, Phases
<1>3. (cts = "live" /\ DataLoop) => DataLoop'
  <2>1. ASSUME cts = "live", DataLoop, LoopEnters("data") PROVE DataLoop'
    <3>1. MoveLoop("data", "check", "cur")
      BY <2>1 DEF LoopEnters, LoopCancelled, LoopPhase
    <3>2. loops'["data"]["cur"] = loops["data"]["cur"] + 1
      BY <1>2, <3>1 DEF MoveLoop, Moved
    <3>. QED BY <1>2, <3>2 DEF DataLoop
  <2>2. ASSUME NEW p \in Phases, LoopExecEnds("data", p) PROVE DataLoop'
    <3>1. loops'["data"]["check"] = loops["data"]["check"] + 1
      BY <1>2, <2>2 DEF LoopExecEnds, MoveLoop, Moved
    <3>. QED BY <1>2, <3>1 DEF DataLoop
  <2>3. ASSUME LoopEnters("listen") \/ \E p \in Phases : LoopExecEnds("listen", p), DataLoop PROVE DataLoop'
    <3>1. loops'["data"] = loops["data"]
      BY <1>2, <2>3 DEF LoopEnters, LoopExecEnds, EndLoop, MoveLoop
    <3>. QED BY <2>3, <3>1 DEF DataLoop
  <2>. QED BY <1>2, <2>1, <2>2, <2>3
<1>4. (cts = "cancelled" /\ ~DataExecutes) => ~DataExecutes'
  <2>1. ASSUME cts = "cancelled", ~DataExecutes, LoopEnters("data") PROVE ~DataExecutes'
    <3>1. EndLoop("data", "check")
      BY <2>1 DEF LoopEnters, LoopCancelled
    <3>. QED BY <1>2, <2>1, <3>1 DEF EndLoop, DataExecutes
  <2>2. ASSUME ~DataExecutes, NEW p \in Phases, LoopExecEnds("data", p) PROVE FALSE
    BY <1>2, <2>2 DEF LoopExecEnds, MoveLoop, DataExecutes
  <2>3. ASSUME LoopEnters("listen") \/ \E p \in Phases : LoopExecEnds("listen", p)
        PROVE  DataExecutes' <=> DataExecutes
    <3>1. loops'["data"] = loops["data"]
      BY <1>2, <2>3 DEF LoopEnters, LoopExecEnds, EndLoop, MoveLoop
    <3>. QED BY <3>1 DEF DataExecutes
  <2>. QED BY <1>2, <2>1, <2>2, <2>3
<1>. QED BY <1>1, <1>3, <1>4 DEF UpOrDown, StateAt, Up, Down, StopPCs

\* Every step of the only thread, and of everything around it, keeps what is claimed.
LEMMA StepUpOrDown ==
    ASSUME NEW t, Threads = {t}, TypeOK, UpOrDown(t), [Next]_vars
    PROVE  UpOrDown(t)'
<1>. USE DEF engine, world
<1>1. CASE CallStep(t)
  BY <1>1, StartUpOrDown, StopUpOrDown, ViewUpOrDown DEF CallStep
<1>2. CASE (\E c \in Commands : Click(t, c)) \/ (\E d \in Distros : ClickToggle(t, d))
  BY <1>2, ViewUpOrDown
<1>3. CASE \E k \in Kinds : LoopEnters(k) \/ \E p \in Phases : LoopExecEnds(k, p)
  BY <1>3, LoopUpOrDown
<1>4. CASE DataMounts \/ \E d \in Distros : ScriptLinks(d) \/ ScriptServes(d)
  <2>1. UNCHANGED <<runningState, cts, daemon, proxy, loops, pc, call>>
    BY <1>4 DEF DataMounts, ScriptLinks, ScriptServes
  <2>. QED BY <2>1 DEF UpOrDown, StateAt, Up, Down, DataLoop, DataExecutes
<1>5. CASE ProxyExits
  <2>1. UNCHANGED <<runningState, cts, daemon, loops, pc, call>> /\ "proxyExits" \in Faults /\ proxy' # "up"
    BY <1>5 DEF ProxyExits, Fault
  <2>. QED BY <2>1 DEF UpOrDown, StateAt, Up, Down, DataLoop, DataExecutes
<1>6. CASE UNCHANGED vars
  BY <1>6 DEF vars, UpOrDown, StateAt, Up, Down, DataLoop, DataExecutes
<1>. QED BY <1>1, <1>2, <1>3, <1>4, <1>5, <1>6 DEF Next

\* With one call at a time, and as long as no proxy dies by itself: Running means that the
\* daemon, the proxy and the data loop are there, after any calls, retries and failures of
\* the steps of Start and Stop.
THEOREM RunningAlwaysUp ==
    ASSUME NEW CONSTANT t, Threads = {t}, "proxyExits" \notin Faults
    PROVE  Spec => []RunningMeansUp
<1>1. Init => TypeOK /\ UpOrDown(t)
  BY InitTypeOK, InitUpOrDown
<1>2. TypeOK /\ UpOrDown(t) /\ [Next]_vars => (TypeOK /\ UpOrDown(t))'
  BY StepTypeOK, StepUpOrDown
<1>3. TypeOK /\ UpOrDown(t) => RunningMeansUp
  BY DEF UpOrDown, Up, RunningMeansUp, DataLoop
<1>. QED BY <1>1, <1>2, <1>3, PTL DEF Spec

\* With one call at a time: a Stop none of whose steps failed leaves no daemon, no proxy, no
\* live source and no data loop that waits, whatever failed before it and around it.
THEOREM StopAlwaysClean ==
    ASSUME NEW CONSTANT u, Threads = {u}
    PROVE  Spec => CleanStop
<1>1. Init => TypeOK /\ UpOrDown(u)
  BY InitTypeOK, InitUpOrDown
<1>2. TypeOK /\ UpOrDown(u) /\ [Next]_vars => (TypeOK /\ UpOrDown(u))'
  BY StepTypeOK, StepUpOrDown
<1>3. TypeOK /\ UpOrDown(u) =>
          [\A t \in Threads :
              pc[t] = "stopped" /\ ~call[t].failed /\ runningState' = "Stopped" =>
                  /\ daemon = "down" /\ proxy # "up" /\ cts = "cancelled"
                  /\ ~DataExecutes]_vars
  BY DEF UpOrDown, Down
<1>. QED BY <1>1, <1>2, <1>3, PTL DEF Spec, CleanStop

-----------------------------------------------------------------------------
(* Every call comes nearer its end                                         *)

\* The locations of a Start, and of a Stop.
InStart(t) == pc[t] \in StartPCs \cup {"start", "reset"}
InStop(t)  == pc[t] \in StopPCs \cup {"stop"}

\* The Starts that the call of thread t may still make, the one under way included.
AttemptsLeft(t) ==
    IF InStart(t) \/ (InStop(t) /\ call[t].then = "retry") THEN Retries - call[t].tries + 1
    ELSE IF InStop(t) /\ call[t].then \in {"start", "reset"} THEN Retries - call[t].tries + 2
    ELSE 0

\* The steps that are left of a call, were every Start to fail and no foreach to loop.
StepsFrom ==
    [idle |-> 0, save |-> 1, enable |-> 2, toggle |-> 3,
     stopped |-> 1, stopDaemon |-> 2, cancel |-> 3, stopProxy |-> 4, distrosDown |-> 5, stop |-> 6,
     distros |-> 7, proxyWait |-> 8, proxy |-> 9, daemon |-> 10, listen |-> 11, dataWait |-> 12,
     data |-> 13, dns |-> 14, terminate |-> 15, start |-> 16, reset |-> 17]
StepsLeft(t) == StepsFrom[pc[t]]

\* The distributions that the foreach of a call has still to come to: none once its
\* enumerator is stale.
RoundsLeft(t) ==
    IF pc[t] \in {"distros", "distrosDown"} /\ ~call[t].stale
    THEN enabledDistributions \ call[t].visited ELSE {}

\* Thread t has come nearer the end of its call.
Nearer(t) ==
    \/ AttemptsLeft(t)' < AttemptsLeft(t)
    \/ AttemptsLeft(t)' = AttemptsLeft(t) /\ StepsLeft(t)' < StepsLeft(t)
    \/ /\ AttemptsLeft(t)' = AttemptsLeft(t) /\ StepsLeft(t)' = StepsLeft(t)
       /\ RoundsLeft(t)' \subseteq RoundsLeft(t) /\ RoundsLeft(t)' # RoundsLeft(t)

\* It is where it was.
AsNear(t) == UNCHANGED <<AttemptsLeft(t), StepsLeft(t), RoundsLeft(t)>>

LEMMA StepsFromIs ==
    /\ StepsFrom["idle"] = 0 /\ StepsFrom["save"] = 1 /\ StepsFrom["enable"] = 2
    /\ StepsFrom["toggle"] = 3 /\ StepsFrom["stopped"] = 1 /\ StepsFrom["stopDaemon"] = 2
    /\ StepsFrom["cancel"] = 3 /\ StepsFrom["stopProxy"] = 4 /\ StepsFrom["distrosDown"] = 5
    /\ StepsFrom["stop"] = 6 /\ StepsFrom["distros"] = 7 /\ StepsFrom["proxyWait"] = 8
    /\ StepsFrom["proxy"] = 9 /\ StepsFrom["daemon"] = 10 /\ StepsFrom["listen"] = 11
    /\ StepsFrom["dataWait"] = 12 /\ StepsFrom["data"] = 13 /\ StepsFrom["dns"] = 14
    /\ StepsFrom["terminate"] = 15 /\ StepsFrom["start"] = 16 /\ StepsFrom["reset"] = 17
  BY DEF StepsFrom

\* No attempt that is left is negative, and an idle thread has none.
LEMMA AttemptsTyped ==
    ASSUME TypeOK, NEW t \in Threads
    PROVE  /\ call[t].tries \in 0..Retries /\ Retries \in Nat
           /\ AttemptsLeft(t) \in Nat
<1>1. call[t].tries \in 0..Retries /\ Retries \in Nat
  BY EngineAssumption DEF TypeOK, CallRecord
<1>. QED BY <1>1 DEF AttemptsLeft

LEMMA AttemptsNext ==
    ASSUME TypeOK', NEW t \in Threads
    PROVE  /\ AttemptsLeft(t)' \in Nat
           /\ pc'[t] \notin StartPCs \cup StopPCs \cup {"start", "reset", "stop"} => AttemptsLeft(t)' = 0
<1>1. call'[t].tries \in 0..Retries /\ Retries \in Nat
  BY EngineAssumption DEF TypeOK, CallRecord
<1>. QED BY <1>1 DEF AttemptsLeft, InStart, InStop

\* A step within a Start, or within a Stop, of the same attempt.
LEMMA SameAttempt ==
    ASSUME NEW t, call'[t].then = call[t].then, call'[t].tries = call[t].tries,
           (InStart(t) /\ InStart(t)') \/ (InStop(t) /\ InStop(t)')
    PROVE  AttemptsLeft(t)' = AttemptsLeft(t)
<1>1. ~(InStart(t) /\ InStop(t)) /\ ~(InStart(t)' /\ InStop(t)')
  BY DEF InStart, InStop, StartPCs, StopPCs
<1>. QED BY <1>1 DEF AttemptsLeft

\* With no more attempts left and fewer steps a call is nearer its end.
LEMMA FewerSteps ==
    ASSUME TypeOK, TypeOK', NEW t \in Threads, AttemptsLeft(t)' <= AttemptsLeft(t),
           StepsLeft(t)' < StepsLeft(t)
    PROVE  Nearer(t)
<1>1. AttemptsLeft(t) \in Nat /\ AttemptsLeft(t)' \in Nat
  BY AttemptsTyped, AttemptsNext
<1>. QED BY <1>1 DEF Nearer

\* A call that returns is nearer its end.
LEMMA ReturnNearer ==
    ASSUME TypeOK, TypeOK', NEW t \in Threads, pc[t] # "idle", pc'[t] = "idle"
    PROVE  Nearer(t)
<1>1. AttemptsLeft(t)' = 0 /\ AttemptsLeft(t) \in Nat
  BY AttemptsTyped, AttemptsNext DEF StartPCs, StopPCs
<1>2. pc[t] \in PCs
  BY DEF TypeOK
<1>3. StepsLeft(t)' < StepsLeft(t)
  BY <1>2, StepsFromIs DEF StepsLeft, PCs, StartPCs, StopPCs
<1>. QED BY <1>1, <1>3, FewerSteps

\* An exception in a Start goes to the Stop of the same attempt.
LEMMA ThrowNearer ==
    ASSUME TypeOK, TypeOK', NEW t \in Threads, pc[t] \in StartPCs, Throw(t)
    PROVE  Nearer(t)
<1>1. pc'[t] = "stop" /\ call'[t] = [call[t] EXCEPT !.then = "retry"] /\ call[t] \in CallRecord
  BY DEF Throw, Goto, TypeOK
<1>2. call'[t].then = "retry" /\ call'[t].tries = call[t].tries
  BY <1>1, Zenon DEF CallRecord
<1>3. InStart(t) /\ ~InStart(t)' /\ InStop(t)'
  BY <1>1 DEF InStart, InStop, StartPCs, StopPCs
<1>4. AttemptsLeft(t)' = AttemptsLeft(t)
  BY <1>2, <1>3 DEF AttemptsLeft
<1>5. StepsLeft(t)' < StepsLeft(t)
  BY <1>1, StepsFromIs DEF StepsLeft, StartPCs
<1>6. AttemptsLeft(t) \in Nat
  BY AttemptsTyped
<1>. QED BY <1>4, <1>5, <1>6, FewerSteps

\* A step of a Start, or of a Stop, that goes to a later one of the same attempt.
LEMMA OnwardNearer ==
    ASSUME TypeOK, TypeOK', NEW t \in Threads, NEW l \in PCs, Goto(t, l),
           call'[t].then = call[t].then, call'[t].tries = call[t].tries,
           \/ InStart(t) /\ l \in StartPCs
           \/ InStop(t) /\ l \in StopPCs,
           StepsFrom[l] < StepsFrom[pc[t]]
    PROVE  Nearer(t)
<1>1. pc'[t] = l
  BY DEF Goto, TypeOK
<1>2. (InStart(t) /\ InStart(t)') \/ (InStop(t) /\ InStop(t)')
  BY <1>1 DEF InStart, InStop
<1>3. AttemptsLeft(t)' = AttemptsLeft(t) /\ AttemptsLeft(t) \in Nat
  BY <1>2, SameAttempt, AttemptsTyped
<1>4. StepsLeft(t)' < StepsLeft(t)
  BY <1>1 DEF StepsLeft
<1>. QED BY <1>3, <1>4, FewerSteps

\* A distribution that the foreach yields changes nothing else of a call.
LEMMA ForeachKeeps ==
    ASSUME NEW c \in CallRecord, NEW v, NEW r, r = [c EXCEPT !.visited = v]
    PROVE  r.then = c.then /\ r.tries = c.tries /\ r.stale = c.stale /\ r.visited = v
  BY DEF CallRecord

\* A round of a foreach.
LEMMA RoundNearer ==
    ASSUME TypeOK, NEW t \in Threads, pc[t] \in {"distros", "distrosDown"}, ~call[t].stale,
           NEW d \in enabledDistributions \ call[t].visited, UNCHANGED <<pc, enabledDistributions>>,
           call'[t] = [call[t] EXCEPT !.visited = call[t].visited \cup {d}]
    PROVE  Nearer(t)
<1>1. call[t] \in CallRecord
  BY DEF TypeOK
<1>2. /\ call'[t].then = call[t].then /\ call'[t].tries = call[t].tries
      /\ call'[t].stale = call[t].stale /\ call'[t].visited = call[t].visited \cup {d}
  BY <1>1, ForeachKeeps
<1>3. AttemptsLeft(t)' = AttemptsLeft(t) /\ StepsLeft(t)' = StepsLeft(t)
  BY <1>2 DEF AttemptsLeft, StepsLeft, InStart, InStop
<1>4. RoundsLeft(t)' \subseteq RoundsLeft(t) /\ d \in RoundsLeft(t) /\ d \notin RoundsLeft(t)'
  BY <1>2 DEF RoundsLeft
<1>. QED BY <1>3, <1>4 DEF Nearer

\* An exception in a Stop goes to its finally block.
LEMMA ThrowInStopNearer ==
    ASSUME TypeOK, TypeOK', NEW t \in Threads, pc[t] \in {"distrosDown", "cancel"}, ThrowInStop(t)
    PROVE  Nearer(t)
<1>1. call'[t] = [call[t] EXCEPT !.failed = TRUE] /\ call[t] \in CallRecord
  BY DEF ThrowInStop, TypeOK
<1>2. call'[t].then = call[t].then /\ call'[t].tries = call[t].tries
  BY <1>1, Zenon DEF CallRecord
<1>. QED BY <1>2, OnwardNearer, StepsFromIs DEF ThrowInStop, InStop, StopPCs, PCs

\* What follows a Stop is another attempt, one fewer than before, or no attempt at all.
LEMMA AfterStopNearer ==
    ASSUME TypeOK, TypeOK', NEW t \in Threads, pc[t] = "stopped", call[t].then # "exit", AfterStop(t)
    PROVE  Nearer(t)
<1>0. /\ call[t] \in CallRecord /\ call[t].tries \in 0..Retries /\ Retries \in Nat
      /\ call \in [Threads -> CallRecord] /\ pc \in [Threads -> PCs]
  BY AttemptsTyped DEF TypeOK
<1>1. InStop(t) /\ ~InStart(t)
  BY DEF InStop, InStart, StartPCs, StopPCs
<1>2. CASE call[t].then = "retry" /\ call[t].tries < Retries
  <2>1. pc'[t] = "start" /\ call'[t] = [call[t] EXCEPT !.tries = @ + 1]
    BY <1>0, <1>2 DEF AfterStop, Goto
  <2>2. call'[t].tries = call[t].tries + 1
    BY <1>0, <2>1, Zenon DEF CallRecord
  <2>3. AttemptsLeft(t) = Retries - call[t].tries + 1
    BY <1>1, <1>2 DEF AttemptsLeft
  <2>4. AttemptsLeft(t)' = Retries - call'[t].tries + 1
    BY <2>1 DEF AttemptsLeft, InStart
  <2>. QED BY <1>0, <2>2, <2>3, <2>4 DEF Nearer
<1>3. CASE call[t].then = "retry" /\ ~(call[t].tries < Retries) /\ call[t].boot
  <2>1. pc'[t] = "stop" /\ call'[t] = [NoCall EXCEPT !.then = "exit"]
    BY <1>0, <1>3 DEF AfterStop, Goto
  <2>2. call'[t].then = "exit"
    BY <2>1 DEF NoCall
  <2>3. AttemptsLeft(t) = Retries - call[t].tries + 1
    BY <1>1, <1>3 DEF AttemptsLeft
  <2>4. AttemptsLeft(t)' = 0
    BY <2>1, <2>2 DEF AttemptsLeft, InStart, InStop, StartPCs, StopPCs
  <2>. QED BY <1>0, <2>3, <2>4 DEF Nearer
<1>4. CASE call[t].then \in {"start", "reset"} /\ ~call[t].failed
  <2>1. pc'[t] \in {"start", "reset"} /\ call'[t] = call[t]
    BY <1>0, <1>4 DEF AfterStop, Goto
  <2>2. AttemptsLeft(t) = Retries - call[t].tries + 2
    BY <1>1, <1>4 DEF AttemptsLeft
  <2>3. AttemptsLeft(t)' = Retries - call[t].tries + 1
    BY <2>1 DEF AttemptsLeft, InStart
  <2>. QED BY <1>0, <2>2, <2>3 DEF Nearer
<1>5. CASE Return(t)
  <2>1. pc'[t] = "idle"
    BY <1>0, <1>5 DEF Return, Goto
  <2>. QED BY <2>1, ReturnNearer
<1>. QED BY <1>2, <1>3, <1>4, <1>5 DEF AfterStop

\* Every step of a Start brings its call nearer the end.
LEMMA StartNearer ==
    ASSUME TypeOK, TypeOK', NEW t \in Threads, StartStep(t)
    PROVE  Nearer(t)
<1>0. StartPCs \subseteq PCs /\ StopPCs \subseteq PCs /\ call[t] \in CallRecord
  BY DEF PCs, TypeOK
<1>1. CASE BeginStart(t)
  BY <1>0, <1>1, OnwardNearer, StepsFromIs DEF BeginStart, InStart, StartPCs
<1>2. CASE TerminateDistro(t)
  BY <1>0, <1>2, OnwardNearer, StepsFromIs DEF TerminateDistro, InStart, StartPCs
<1>3. CASE InitializeDnsConfigurator(t)
  <2>1. CASE Throw(t)
    BY <1>3, <2>1, ThrowNearer DEF InitializeDnsConfigurator, StartPCs
  <2>2. CASE Goto(t, "data") /\ UNCHANGED call
    BY <1>0, <1>3, <2>2, OnwardNearer, StepsFromIs DEF InitializeDnsConfigurator, InStart, StartPCs
  <2>. QED BY <1>3, <2>1, <2>2 DEF InitializeDnsConfigurator
<1>4. CASE InitializeDataDistro(t)
  BY <1>0, <1>4, OnwardNearer, StepsFromIs DEF InitializeDataDistro, InStart, StartPCs
<1>5. CASE WaitForDataDistroInitialization(t)
  <2>1. CASE Throw(t)
    BY <1>5, <2>1, ThrowNearer DEF WaitForDataDistroInitialization, StartPCs
  <2>2. CASE Goto(t, "listen") /\ UNCHANGED call
    BY <1>0, <1>5, <2>2, OnwardNearer, StepsFromIs
       DEF WaitForDataDistroInitialization, InStart, StartPCs
  <2>. QED BY <1>5, <2>1, <2>2 DEF WaitForDataDistroInitialization
<1>6. CASE InitializePortForwardListener(t)
  BY <1>0, <1>6, OnwardNearer, StepsFromIs DEF InitializePortForwardListener, InStart, StartPCs
<1>7. CASE InitializeAndStartDaemon(t)
  <2>1. CASE Throw(t)
    BY <1>7, <2>1, ThrowNearer DEF InitializeAndStartDaemon, StartPCs
  <2>2. CASE Goto(t, "proxy") /\ UNCHANGED call
    BY <1>0, <1>7, <2>2, OnwardNearer, StepsFromIs DEF InitializeAndStartDaemon, InStart, StartPCs
  <2>. QED BY <1>7, <2>1, <2>2 DEF InitializeAndStartDaemon
<1>8. CASE StartProxy(t)
  BY <1>0, <1>8, OnwardNearer, StepsFromIs DEF StartProxy, InStart, StartPCs
<1>9. CASE AwaitProxy(t)
  <2>1. CASE Throw(t)
    BY <1>9, <2>1, ThrowNearer DEF AwaitProxy, StartPCs
  <2>2. CASE /\ Goto(t, "distros")
             /\ call' = [call EXCEPT ![t] = [@ EXCEPT !.visited = {}, !.stale = FALSE]]
    <3>1. call'[t] = [call[t] EXCEPT !.visited = {}, !.stale = FALSE]
      BY <2>2 DEF TypeOK
    <3>2. call'[t].then = call[t].then /\ call'[t].tries = call[t].tries
      BY <1>0, <3>1, Zenon DEF CallRecord
    <3>. QED BY <1>0, <1>9, <2>2, <3>2, OnwardNearer, StepsFromIs DEF AwaitProxy, InStart, StartPCs
  <2>. QED BY <1>9, <2>1, <2>2 DEF AwaitProxy
<1>10. CASE InitializeDistros(t)
  <2>1. CASE Throw(t)
    BY <1>10, <2>1, ThrowNearer DEF InitializeDistros, StartPCs
  <2>2. ASSUME NEW d \in enabledDistributions \ call[t].visited, ~call[t].stale, UNCHANGED pc,
               call' = [call EXCEPT ![t].visited = @ \cup {d}]
        PROVE  Nearer(t)
    <3>1. call'[t] = [call[t] EXCEPT !.visited = call[t].visited \cup {d}]
      BY <2>2 DEF TypeOK
    <3>. QED BY <1>10, <2>2, <3>1, RoundNearer DEF InitializeDistros
  <2>. QED BY <1>10, <2>1, <2>2 DEF InitializeDistros
<1>11. CASE FinishStart(t)
  <2>1. pc[t] = "distros" /\ pc'[t] = "idle"
    BY <1>11 DEF FinishStart, Return, Goto, TypeOK
  <2>. QED BY <2>1, ReturnNearer
<1>. QED BY <1>1, <1>2, <1>3, <1>4, <1>5, <1>6, <1>7, <1>8, <1>9, <1>10, <1>11 DEF StartStep

\* Every step of a Stop does, that of Dispose included.
LEMMA StopNearer ==
    ASSUME TypeOK, TypeOK', NEW t \in Threads, StopStep(t)
    PROVE  Nearer(t)
<1>0. StopPCs \subseteq PCs /\ call[t] \in CallRecord
  BY DEF PCs, TypeOK
<1>1. CASE BeginStop(t)
  <2>1. call'[t] = [call[t] EXCEPT !.visited = {}, !.stale = FALSE, !.failed = FALSE]
    BY <1>1 DEF BeginStop, TypeOK
  <2>2. call'[t].then = call[t].then /\ call'[t].tries = call[t].tries
    BY <1>0, <2>1, Zenon DEF CallRecord
  <2>. QED BY <1>0, <1>1, <2>2, OnwardNearer, StepsFromIs DEF BeginStop, InStop, StopPCs
<1>2. CASE StopDistros(t)
  <2>1. CASE ThrowInStop(t)
    BY <1>2, <2>1, ThrowInStopNearer DEF StopDistros, StopPCs
  <2>2. CASE Goto(t, "stopProxy") /\ UNCHANGED call
    BY <1>0, <1>2, <2>2, OnwardNearer, StepsFromIs DEF StopDistros, InStop, StopPCs
  <2>3. ASSUME NEW d \in enabledDistributions \ call[t].visited, ~call[t].stale, UNCHANGED pc,
               call' = [call EXCEPT ![t].visited = @ \cup {d}]
        PROVE  Nearer(t)
    <3>1. call'[t] = [call[t] EXCEPT !.visited = call[t].visited \cup {d}]
      BY <2>3 DEF TypeOK
    <3>. QED BY <1>2, <2>3, <3>1, RoundNearer DEF StopDistros
  <2>. QED BY <1>2, <2>1, <2>2, <2>3 DEF StopDistros
<1>3. CASE StopProxy(t)
  BY <1>0, <1>3, OnwardNearer, StepsFromIs DEF StopProxy, InStop, StopPCs
<1>4. CASE Cancel(t)
  <2>1. CASE ThrowInStop(t)
    BY <1>4, <2>1, ThrowInStopNearer DEF Cancel, StopPCs
  <2>2. CASE Goto(t, "stopDaemon") /\ UNCHANGED call
    BY <1>0, <1>4, <2>2, OnwardNearer, StepsFromIs DEF Cancel, InStop, StopPCs
  <2>. QED BY <1>4, <2>1, <2>2 DEF Cancel
<1>5. CASE StopDaemon(t)
  BY <1>0, <1>5, OnwardNearer, StepsFromIs DEF StopDaemon, InStop, StopPCs
<1>6. CASE FinishStop(t)
  BY <1>6, AfterStopNearer DEF FinishStop
<1>7. CASE Exit(t)
  <2>1. pc[t] = "stopped" /\ pc'[t] = "idle"
    BY <1>7 DEF Exit
  <2>. QED BY <2>1, ReturnNearer
<1>. QED BY <1>1, <1>2, <1>3, <1>4, <1>5, <1>6, <1>7 DEF StopStep

\* So does every step of the handlers of the view model.
LEMMA ViewNearer ==
    ASSUME TypeOK, TypeOK', NEW t \in Threads, ViewStep(t)
    PROVE  Nearer(t)
<1>0. AttemptsLeft(t) \in Nat
  BY AttemptsTyped
<1>1. CASE Return(t)
  <2>1. pc[t] # "idle" /\ pc'[t] = "idle"
    BY <1>1 DEF ViewStep, Reset, ToggleWslDistro, EnableDistro, SaveToggle, Return, Goto, TypeOK
  <2>. QED BY <2>1, ReturnNearer
<1>2. CASE Reset(t) /\ Goto(t, "start") /\ UNCHANGED call
  <2>1. pc[t] = "reset" /\ pc'[t] = "start"
    BY <1>2 DEF Reset, Goto, TypeOK
  <2>2. AttemptsLeft(t)' = AttemptsLeft(t)
    BY <1>2, <2>1, SameAttempt DEF InStart
  <2>3. StepsLeft(t)' < StepsLeft(t)
    BY <2>1, StepsFromIs DEF StepsLeft
  <2>. QED BY <1>0, <2>2, <2>3, FewerSteps
<1>3. CASE ToggleWslDistro(t) \/ (EnableDistro(t) /\ Goto(t, "save"))
  <2>1. (pc[t] = "toggle" /\ pc'[t] \in {"enable", "save"}) \/ (pc[t] = "enable" /\ pc'[t] = "save")
    <3>1. \A l : Goto(t, l) => pc'[t] = l
      BY DEF Goto, TypeOK
    <3>2. CASE ToggleWslDistro(t)
      BY <3>1, <3>2 DEF ToggleWslDistro
    <3>3. CASE EnableDistro(t) /\ Goto(t, "save")
      BY <3>1, <3>3 DEF EnableDistro
    <3>. QED BY <1>3, <3>2, <3>3
  <2>2. AttemptsLeft(t)' = 0
    BY <2>1, AttemptsNext DEF StartPCs, StopPCs
  <2>3. StepsLeft(t)' < StepsLeft(t)
    BY <2>1, StepsFromIs DEF StepsLeft
  <2>. QED BY <1>0, <2>2, <2>3, FewerSteps
<1>4. CASE SaveToggle(t)
  <2>1. pc[t] = "save" /\ pc'[t] = "idle"
    BY <1>4 DEF SaveToggle, Goto, TypeOK
  <2>. QED BY <2>1, ReturnNearer
<1>. QED BY <1>1, <1>2, <1>3, <1>4 DEF ViewStep, Reset, EnableDistro

\* What others do leaves a call where it is: they change nothing of what it keeps but
\* that a distribution taken from the set shortens its foreach, and one that is added
\* makes the enumerator stale.
LEMMA UnmovedNearer ==
    ASSUME NEW t, pc'[t] = pc[t], call'[t].then = call[t].then, call'[t].tries = call[t].tries,
           \/ call'[t].stale
           \/ /\ call'[t].stale = call[t].stale /\ call'[t].visited = call[t].visited
              /\ enabledDistributions' \subseteq enabledDistributions
    PROVE  Nearer(t) \/ AsNear(t)
<1>1. AttemptsLeft(t)' = AttemptsLeft(t) /\ StepsLeft(t)' = StepsLeft(t)
  BY DEF AttemptsLeft, StepsLeft, InStart, InStop
<1>2. RoundsLeft(t)' \subseteq RoundsLeft(t)
  BY DEF RoundsLeft
<1>. QED BY <1>1, <1>2 DEF Nearer, AsNear

\* Every thread but the one that steps keeps its location and its stack, but for an exit
\* of the process and a change of the configuration.
LEMMA OthersStay ==
    ASSUME TypeOK, NEW t \in Threads, NEW u \in Threads, u # t, CallStep(u),
           ~Exit(u), ~SaveToggle(u)
    PROVE  pc'[t] = pc[t] /\ call'[t] = call[t]
<1>1. \A l : Goto(u, l) => pc'[t] = pc[t]
  BY DEF Goto, TypeOK
<1>2. \A r : call' = [call EXCEPT ![u] = r] => call'[t] = call[t]
  BY DEF TypeOK
<1>3. Throw(u) \/ ThrowInStop(u) \/ Return(u) => pc'[t] = pc[t] /\ call'[t] = call[t]
  BY <1>1, <1>2 DEF Throw, ThrowInStop, Return
<1>4. ASSUME StartStep(u) PROVE pc'[t] = pc[t] /\ call'[t] = call[t]
  BY <1>1, <1>2, <1>3, <1>4 DEF StartStep, BeginStart, TerminateDistro,
     InitializeDnsConfigurator, InitializeDataDistro, WaitForDataDistroInitialization,
     InitializePortForwardListener, InitializeAndStartDaemon, StartProxy, AwaitProxy,
     InitializeDistros, FinishStart
<1>5. ASSUME StopStep(u) PROVE pc'[t] = pc[t] /\ call'[t] = call[t]
  <2>1. AfterStop(u) => pc'[t] = pc[t] /\ call'[t] = call[t]
    BY <1>1, <1>2, <1>3 DEF AfterStop
  <2>. QED BY <1>1, <1>2, <1>3, <1>5, <2>1
              DEF StopStep, BeginStop, StopDistros, StopProxy, Cancel, StopDaemon, FinishStop
<1>6. ASSUME ViewStep(u) PROVE pc'[t] = pc[t] /\ call'[t] = call[t]
  BY <1>1, <1>2, <1>3, <1>6 DEF ViewStep, Reset, ToggleWslDistro, EnableDistro
<1>. QED BY <1>4, <1>5, <1>6 DEF CallStep

\* The steps of one thread leave the call of another as near as it was.
LEMMA OtherCallNearer ==
    ASSUME TypeOK, TypeOK', NEW t \in Threads, NEW u \in Threads, u # t, pc[t] # "idle", CallStep(u)
    PROVE  Nearer(t) \/ AsNear(t)
<1>1. CASE Exit(u)
  <2>1. pc'[t] = "idle"
    BY <1>1 DEF Exit
  <2>. QED BY <2>1, ReturnNearer
<1>2. CASE SaveToggle(u)
  <2>1. pc'[t] = pc[t]
    BY <1>2 DEF SaveToggle, Goto, TypeOK
  <2>2. CASE Invalidate(u)
    <3>1. call'[t] = [call[t] EXCEPT !.stale = TRUE] /\ call[t] \in CallRecord
      BY <2>2 DEF Invalidate, TypeOK
    <3>2. call'[t].stale /\ call'[t].then = call[t].then /\ call'[t].tries = call[t].tries
      BY <3>1, Zenon DEF CallRecord
    <3>. QED BY <2>1, <3>2, UnmovedNearer
  <2>3. CASE call' = [call EXCEPT ![u] = NoCall] /\ enabledDistributions' \subseteq enabledDistributions
    <3>1. call'[t] = call[t]
      BY <2>3 DEF TypeOK
    <3>. QED BY <2>1, <2>3, <3>1, UnmovedNearer
  <2>. QED BY <1>2, <2>2, <2>3 DEF SaveToggle
<1>3. CASE ~Exit(u) /\ ~SaveToggle(u)
  <2>1. UNCHANGED enabledDistributions
    BY <1>3 DEF CallStep, StartStep, StopStep, ViewStep, BeginStart, TerminateDistro,
           InitializeDnsConfigurator, InitializeDataDistro, WaitForDataDistroInitialization,
           InitializePortForwardListener, InitializeAndStartDaemon, StartProxy, AwaitProxy,
           InitializeDistros, FinishStart, BeginStop, StopDistros, StopProxy, Cancel, StopDaemon,
           FinishStop, Reset, ToggleWslDistro, EnableDistro
  <2>2. pc'[t] = pc[t] /\ call'[t] = call[t]
    BY <1>3, OthersStay
  <2>. QED BY <2>1, <2>2, UnmovedNearer
<1>. QED BY <1>1, <1>2, <1>3

\* Commands are issued on idle threads, and what goes on outside the calls changes
\* neither their stacks nor the configuration.
LEMMA ElsewhereNearer ==
    ASSUME TypeOK, NEW t \in Threads, pc[t] # "idle", [Next]_vars, \A u \in Threads : ~CallStep(u)
    PROVE  AsNear(t)
<1>1. UNCHANGED enabledDistributions /\ pc'[t] = pc[t] /\ call'[t] = call[t]
  <2>1. ASSUME NEW u \in Threads, NEW c \in Commands, Click(u, c)
        PROVE  UNCHANGED enabledDistributions /\ pc'[t] = pc[t] /\ call'[t] = call[t]
    BY <2>1 DEF Click, Issue, Goto, TypeOK
  <2>2. ASSUME NEW u \in Threads, NEW d \in Distros, ClickToggle(u, d)
        PROVE  UNCHANGED enabledDistributions /\ pc'[t] = pc[t] /\ call'[t] = call[t]
    BY <2>2 DEF ClickToggle, Issue, Goto, TypeOK
  <2>3. ASSUME UNCHANGED <<enabledDistributions, pc, call>>
        PROVE  UNCHANGED enabledDistributions /\ pc'[t] = pc[t] /\ call'[t] = call[t]
    BY <2>3
  <2>. QED BY <2>1, <2>2, <2>3 DEF Next, vars, LoopEnters, LoopExecEnds, ScriptLinks,
              ScriptServes, DataMounts, ProxyExits
<1>. QED BY <1>1 DEF AsNear, AttemptsLeft, StepsLeft, RoundsLeft, InStart, InStop

\* Every step of a call brings it nearer its end, and no step of another thread, of a
\* loop or of a script takes it further away, even if it changes the set of distributions
\* under a foreach: the calls that have begun make finitely many steps (README.md).
CallsAdvance ==
    [][\A t \in Threads : /\ CallStep(t) => Nearer(t)
                          /\ pc[t] # "idle" => Nearer(t) \/ AsNear(t)]_vars

\* For any number of threads, distributions, commands, retries and failures; that Retries and
\* Distros are finite makes the order well-founded.
THEOREM CallsAlwaysAdvance == Spec => CallsAdvance
<1>1. ASSUME TypeOK, TypeOK', [Next]_vars
      PROVE  [\A t \in Threads : /\ CallStep(t) => Nearer(t)
                                 /\ pc[t] # "idle" => Nearer(t) \/ AsNear(t)]_vars
  <2>1. ASSUME NEW t \in Threads, CallStep(t) PROVE Nearer(t)
    BY <1>1, <2>1, StartNearer, StopNearer, ViewNearer DEF CallStep
  <2>2. ASSUME NEW t \in Threads, pc[t] # "idle" PROVE Nearer(t) \/ AsNear(t)
    BY <1>1, <2>1, <2>2, OtherCallNearer, ElsewhereNearer
  <2>. QED BY <2>1, <2>2
<1>. QED BY <1>1, TypeCorrect, PTL DEF Spec, CallsAdvance

-----------------------------------------------------------------------------
(* A Start gives up only after more failures than it has retries           *)

\* The failures so far.
Spent == MaxFaults - faultsLeft

\* Every attempt that is counted has cost a failure, and so has the one that a Stop is
\* about to follow up with another: a throw comes from a failed step, or from a proxy that
\* is not there, never from an enumerator, which only another call makes stale.
AttemptsCost(t) ==
    /\ call[t].tries <= Spent /\ ~call[t].stale
    /\ InStop(t) /\ call[t].then = "retry" => call[t].tries < Spent
    /\ pc[t] = "proxyWait" /\ proxy # "up" => call[t].tries < Spent

\* Failures add up, and a step that fails adds one.
LEMMA FailuresAddUp ==
    ASSUME TypeOK, TypeOK', NEW t \in Threads
    PROVE  /\ Spent \in Nat /\ Spent' \in Nat /\ MaxFaults \in Nat /\ Spent <= MaxFaults
           /\ call[t].tries \in Nat /\ call'[t].tries \in Nat
           /\ (faultsLeft' = faultsLeft => Spent' = Spent) /\ (\A f : Fault(f) => Spent' = Spent + 1)
<1>1. /\ faultsLeft \in 0..MaxFaults /\ faultsLeft' \in 0..MaxFaults /\ MaxFaults \in Nat
      /\ Retries \in Nat
  BY EngineAssumption DEF TypeOK
<1>2. call[t].tries \in Nat /\ call'[t].tries \in Nat
  BY <1>1 DEF TypeOK, CallRecord
<1>3. /\ Spent \in Nat /\ Spent' \in Nat /\ Spent <= MaxFaults
      /\ faultsLeft' = faultsLeft => Spent' = Spent
      /\ faultsLeft' = faultsLeft - 1 => Spent' = Spent + 1
  <2>1. ASSUME NEW m \in Nat, NEW a \in 0..m, NEW b \in 0..m
        PROVE  /\ m - a \in Nat /\ m - a <= m /\ m - b \in Nat
               /\ b = a - 1 => m - b = m - a + 1
    OBVIOUS
  <2>. QED BY <1>1, <2>1 DEF Spent
<1>4. \A f : Fault(f) => faultsLeft' = faultsLeft - 1
  BY DEF Fault
<1>. QED BY <1>1, <1>2, <1>3, <1>4

\* An exception in a Start that has cost a failure of its own.
LEMMA ThrowCosts ==
    ASSUME TypeOK, TypeOK', NEW t \in Threads, Throw(t), call[t].tries < Spent', ~call[t].stale
    PROVE  AttemptsCost(t)'
<1>1. pc'[t] = "stop" /\ call'[t] = [call[t] EXCEPT !.then = "retry"] /\ call[t] \in CallRecord
  BY DEF Throw, Goto, TypeOK
<1>2. call'[t].tries = call[t].tries /\ call'[t].stale = call[t].stale
  BY <1>1, Zenon DEF CallRecord
<1>3. call'[t].tries < Spent'
  BY <1>2
<1>4. ~call'[t].stale
  BY <1>2
<1>5. call'[t].tries <= Spent'
  BY <1>3, FailuresAddUp
<1>. QED BY <1>1, <1>3, <1>4, <1>5 DEF AttemptsCost

\* A step that neither counts an attempt nor throws.
LEMMA OnwardCosts ==
    ASSUME TypeOK, TypeOK', NEW t \in Threads, AttemptsCost(t), Spent' >= Spent,
           call'[t].tries = call[t].tries, call'[t].then = call[t].then, ~call'[t].stale,
           InStop(t)' => InStop(t),
           pc'[t] = "proxyWait" /\ proxy' # "up" => call[t].tries < Spent'
    PROVE  AttemptsCost(t)'
  BY FailuresAddUp DEF AttemptsCost

\* A call that has returned has counted no attempt.
LEMMA ReturnCosts ==
    ASSUME TypeOK, TypeOK', NEW t \in Threads, pc'[t] = "idle", call'[t] = NoCall
    PROVE  AttemptsCost(t)'
<1>1. call'[t].tries = 0 /\ ~call'[t].stale
  BY DEF NoCall
<1>2. ~InStop(t)'
  BY DEF InStop, StopPCs
<1>. QED BY <1>1, <1>2, FailuresAddUp DEF AttemptsCost

\* The steps of a Start.
LEMMA StartCosts ==
    ASSUME TypeOK, TypeOK', NEW t \in Threads, AttemptsCost(t), StartStep(t)
    PROVE  AttemptsCost(t)'
<1>0. /\ call[t] \in CallRecord /\ call[t].tries <= Spent /\ ~call[t].stale
      /\ pc[t] \in StartPCs \cup {"start"} /\ ~InStop(t)
  BY DEF TypeOK, AttemptsCost, StartStep, BeginStart, TerminateDistro, InitializeDnsConfigurator,
     InitializeDataDistro, WaitForDataDistroInitialization, InitializePortForwardListener,
     InitializeAndStartDaemon, StartProxy, AwaitProxy, InitializeDistros, FinishStart,
     StartPCs, InStop, StopPCs
<1>1. \A l : Goto(t, l) => pc'[t] = l
  BY DEF Goto, TypeOK
<1>2. /\ Spent \in Nat /\ Spent' \in Nat /\ call[t].tries \in Nat
      /\ (faultsLeft' = faultsLeft => Spent' = Spent) /\ (\A f : Fault(f) => Spent' = Spent + 1)
  BY FailuresAddUp
<1>3. ASSUME NEW f, Fault(f), Throw(t) PROVE AttemptsCost(t)'
  BY <1>0, <1>2, <1>3, ThrowCosts
<1>4. ASSUME NEW l \in StartPCs, Goto(t, l), UNCHANGED call, Spent' >= Spent,
             l = "proxyWait" => proxy' = "up"
      PROVE  AttemptsCost(t)'
  <2>1. ~InStop(t)'
    BY <1>1, <1>4 DEF InStop, StartPCs, StopPCs
  <2>. QED BY <1>0, <1>1, <1>4, <2>1, OnwardCosts
<1>5. CASE BeginStart(t)
  BY <1>2, <1>4, <1>5 DEF BeginStart, StartPCs
<1>6. CASE TerminateDistro(t)
  BY <1>2, <1>4, <1>6 DEF TerminateDistro, StartPCs
<1>7. CASE InitializeDnsConfigurator(t)
  BY <1>2, <1>3, <1>4, <1>7 DEF InitializeDnsConfigurator, NoFault, StartPCs
<1>8. CASE InitializeDataDistro(t)
  BY <1>2, <1>4, <1>8 DEF InitializeDataDistro, StartPCs
<1>9. CASE WaitForDataDistroInitialization(t)
  BY <1>2, <1>3, <1>4, <1>9 DEF WaitForDataDistroInitialization, NoFault, StartPCs
<1>10. CASE InitializePortForwardListener(t)
  BY <1>2, <1>4, <1>10 DEF InitializePortForwardListener, NoFault, StartPCs
<1>11. CASE InitializeAndStartDaemon(t)
  BY <1>2, <1>3, <1>4, <1>11 DEF InitializeAndStartDaemon, NoFault, StartPCs
<1>12. CASE StartProxy(t)
  BY <1>2, <1>4, <1>12 DEF StartProxy, StartPCs
<1>13. CASE AwaitProxy(t)
  <2>1. CASE Fault("proxy") /\ Throw(t)
    BY <1>3, <2>1
  <2>2. CASE NoFault /\ proxy # "up"
    <3>1. call[t].tries < Spent /\ Spent' = Spent /\ Throw(t)
      BY <1>2, <1>13, <2>2 DEF AwaitProxy, AttemptsCost, NoFault
    <3>. QED BY <1>0, <3>1, ThrowCosts
  <2>3. CASE /\ NoFault /\ Goto(t, "distros")
             /\ call' = [call EXCEPT ![t] = [@ EXCEPT !.visited = {}, !.stale = FALSE]]
    <3>1. call'[t] = [call[t] EXCEPT !.visited = {}, !.stale = FALSE] /\ pc'[t] = "distros"
      BY <1>1, <2>3 DEF TypeOK
    <3>2. call'[t].then = call[t].then /\ call'[t].tries = call[t].tries /\ ~call'[t].stale
      BY <1>0, <3>1, Zenon DEF CallRecord
    <3>3. ~InStop(t)'
      BY <3>1 DEF InStop, StopPCs
    <3>. QED BY <1>2, <2>3, <3>1, <3>2, <3>3, OnwardCosts DEF NoFault
  <2>. QED BY <1>13, <2>1, <2>2, <2>3 DEF AwaitProxy
<1>14. CASE InitializeDistros(t)
  <2>1. PICK d \in enabledDistributions : call' = [call EXCEPT ![t].visited = @ \cup {d}]
    BY <1>0, <1>14 DEF InitializeDistros
  <2>2. call'[t] = [call[t] EXCEPT !.visited = @ \cup {d}] /\ pc'[t] = "distros" /\ faultsLeft' = faultsLeft
    BY <1>0, <1>14, <2>1 DEF InitializeDistros, TypeOK
  <2>3. call'[t].then = call[t].then /\ call'[t].tries = call[t].tries /\ call'[t].stale = call[t].stale
    BY <1>0, <2>2, Zenon DEF CallRecord
  <2>4. ~InStop(t)'
    BY <2>2 DEF InStop, StopPCs
  <2>5. ~call'[t].stale /\ Spent' >= Spent
    BY <1>0, <1>2, <2>2, <2>3
  <2>. QED BY <2>2, <2>3, <2>4, <2>5, OnwardCosts
<1>15. CASE FinishStart(t)
  <2>1. pc'[t] = "idle" /\ call'[t] = NoCall
    BY <1>15 DEF FinishStart, Return, Goto, TypeOK
  <2>. QED BY <2>1, ReturnCosts
<1>. QED BY <1>5, <1>6, <1>7, <1>8, <1>9, <1>10, <1>11, <1>12, <1>13, <1>14, <1>15 DEF StartStep

\* What follows a Stop counts one attempt at most.
LEMMA AfterStopCosts ==
    ASSUME TypeOK, TypeOK', NEW t \in Threads, AttemptsCost(t), pc[t] = "stopped",
           faultsLeft' = faultsLeft, AfterStop(t)
    PROVE  AttemptsCost(t)'
<1>0. /\ call[t] \in CallRecord /\ call \in [Threads -> CallRecord] /\ pc \in [Threads -> PCs]
      /\ call[t].tries <= Spent /\ ~call[t].stale /\ InStop(t)
      /\ Spent \in Nat /\ Spent' = Spent /\ call[t].tries \in Nat
  BY FailuresAddUp DEF TypeOK, AttemptsCost, InStop, StopPCs
<1>1. CASE call[t].then = "retry" /\ call[t].tries < Retries
  <2>1. pc'[t] = "start" /\ call'[t] = [call[t] EXCEPT !.tries = @ + 1]
    BY <1>0, <1>1 DEF AfterStop, Goto
  <2>2. call'[t].tries = call[t].tries + 1 /\ call'[t].stale = call[t].stale
    BY <1>0, <2>1, Zenon DEF CallRecord
  <2>3. call[t].tries < Spent
    BY <1>0, <1>1 DEF AttemptsCost
  <2>4. ~InStop(t)'
    BY <2>1 DEF InStop, StopPCs
  <2>5. call'[t].tries <= Spent' /\ ~call'[t].stale
    BY <1>0, <2>2, <2>3
  <2>. QED BY <2>1, <2>4, <2>5 DEF AttemptsCost
<1>2. CASE call[t].then = "retry" /\ ~(call[t].tries < Retries) /\ call[t].boot
  <2>1. pc'[t] = "stop" /\ call'[t] = [NoCall EXCEPT !.then = "exit"]
    BY <1>0, <1>2 DEF AfterStop, Goto
  <2>2. call'[t].tries = 0 /\ ~call'[t].stale /\ call'[t].then = "exit"
    BY <2>1 DEF NoCall
  <2>. QED BY <1>0, <2>1, <2>2 DEF AttemptsCost
<1>3. CASE call[t].then \in {"start", "reset"} /\ ~call[t].failed
  <2>1. pc'[t] \in {"start", "reset"} /\ call'[t] = call[t]
    BY <1>0, <1>3 DEF AfterStop, Goto
  <2>. QED BY <1>0, <2>1 DEF AttemptsCost, InStop, StopPCs
<1>4. CASE Return(t)
  <2>1. pc'[t] = "idle" /\ call'[t] = NoCall
    BY <1>0, <1>4 DEF Return, Goto
  <2>. QED BY <2>1, ReturnCosts
<1>. QED BY <1>1, <1>2, <1>3, <1>4 DEF AfterStop

\* The steps of a Stop.
LEMMA StopCosts ==
    ASSUME TypeOK, TypeOK', NEW t \in Threads, AttemptsCost(t), StopStep(t)
    PROVE  AttemptsCost(t)'
<1>0. /\ call[t] \in CallRecord /\ call[t].tries <= Spent /\ ~call[t].stale /\ InStop(t)
  BY DEF TypeOK, AttemptsCost, StopStep, BeginStop, StopDistros, StopProxy, Cancel, StopDaemon,
     FinishStop, Exit, StopPCs, InStop
<1>1. \A l : Goto(t, l) => pc'[t] = l
  BY DEF Goto, TypeOK
<1>2. /\ Spent \in Nat /\ Spent' \in Nat /\ call[t].tries \in Nat
      /\ (faultsLeft' = faultsLeft => Spent' = Spent) /\ (\A f : Fault(f) => Spent' = Spent + 1)
  BY FailuresAddUp
<1>3. ASSUME NEW l \in StopPCs, pc'[t] = l, Spent' >= Spent, ~call'[t].stale,
             call'[t].tries = call[t].tries, call'[t].then = call[t].then
      PROVE  AttemptsCost(t)'
  BY <1>0, <1>3, OnwardCosts DEF StopPCs
<1>4. ASSUME ThrowInStop(t), Spent' >= Spent PROVE AttemptsCost(t)'
  <2>1. call'[t] = [call[t] EXCEPT !.failed = TRUE] /\ pc'[t] = "stopped"
    BY <1>1, <1>4 DEF ThrowInStop, TypeOK
  <2>2. call'[t].then = call[t].then /\ call'[t].tries = call[t].tries /\ call'[t].stale = call[t].stale
    BY <1>0, <2>1, Zenon DEF CallRecord
  <2>. QED BY <1>0, <1>3, <1>4, <2>1, <2>2 DEF StopPCs
<1>5. CASE BeginStop(t)
  <2>1. /\ call'[t] = [call[t] EXCEPT !.visited = {}, !.stale = FALSE, !.failed = FALSE]
        /\ pc'[t] = "distrosDown" /\ Spent' = Spent
    BY <1>1, <1>2, <1>5 DEF BeginStop, TypeOK
  <2>2. call'[t].then = call[t].then /\ call'[t].tries = call[t].tries /\ ~call'[t].stale
    BY <1>0, <2>1, Zenon DEF CallRecord
  <2>. QED BY <1>2, <1>3, <2>1, <2>2 DEF StopPCs
<1>6. CASE StopDistros(t)
  <2>1. Spent' >= Spent
    BY <1>2, <1>6 DEF StopDistros, NoFault
  <2>2. CASE ThrowInStop(t)
    BY <1>4, <2>1, <2>2
  <2>3. CASE Goto(t, "stopProxy") /\ UNCHANGED call
    BY <1>0, <1>1, <1>3, <2>1, <2>3 DEF StopPCs
  <2>4. ASSUME NEW d, UNCHANGED pc, call' = [call EXCEPT ![t].visited = @ \cup {d}]
        PROVE  AttemptsCost(t)'
    <3>1. call'[t] = [call[t] EXCEPT !.visited = @ \cup {d}] /\ pc'[t] = "distrosDown"
      BY <1>6, <2>4 DEF StopDistros, TypeOK
    <3>2. call'[t].then = call[t].then /\ call'[t].tries = call[t].tries /\ call'[t].stale = call[t].stale
      BY <1>0, <3>1, Zenon DEF CallRecord
    <3>. QED BY <1>0, <1>3, <2>1, <3>1, <3>2 DEF StopPCs
  <2>. QED BY <1>6, <2>2, <2>3, <2>4 DEF StopDistros
<1>7. CASE StopProxy(t)
  BY <1>0, <1>1, <1>2, <1>3, <1>7 DEF StopProxy, StopPCs
<1>8. CASE Cancel(t)
  BY <1>0, <1>1, <1>2, <1>3, <1>4, <1>8 DEF Cancel, StopPCs
<1>9. CASE StopDaemon(t)
  BY <1>0, <1>1, <1>2, <1>3, <1>9 DEF StopDaemon, StopPCs
<1>10. CASE FinishStop(t)
  BY <1>10, AfterStopCosts DEF FinishStop
<1>11. CASE Exit(t)
  <2>1. pc'[t] = "idle" /\ call'[t] = NoCall
    BY <1>11 DEF Exit
  <2>. QED BY <2>1, ReturnCosts
<1>. QED BY <1>5, <1>6, <1>7, <1>8, <1>9, <1>10, <1>11 DEF StopStep

\* The steps of the view model.
LEMMA ViewCosts ==
    ASSUME TypeOK, TypeOK', NEW t \in Threads, Threads = {t}, AttemptsCost(t), ViewStep(t)
    PROVE  AttemptsCost(t)'
<1>0. ~call[t].stale /\ Spent' >= Spent
  BY FailuresAddUp DEF AttemptsCost, ViewStep, Reset, ToggleWslDistro, EnableDistro, SaveToggle, NoFault
<1>1. CASE Return(t) \/ SaveToggle(t)
  <2>1. pc'[t] = "idle" /\ call'[t] = NoCall
    BY <1>1 DEF Return, SaveToggle, Invalidate, Goto, TypeOK
  <2>. QED BY <2>1, ReturnCosts
<1>2. CASE UNCHANGED call /\ pc'[t] \in {"start", "enable", "save"}
  BY <1>0, <1>2, OnwardCosts DEF InStop, StopPCs
<1>3. \A l : Goto(t, l) => pc'[t] = l
  BY DEF Goto, TypeOK
<1>. QED BY <1>1, <1>2, <1>3 DEF ViewStep, Reset, ToggleWslDistro, EnableDistro

\* Every step.
LEMMA StepCosts ==
    ASSUME NEW t, Threads = {t}
    PROVE  TypeOK /\ TypeOK' /\ AttemptsCost(t) /\ [Next]_vars => AttemptsCost(t)'
<1>. SUFFICES ASSUME TypeOK, TypeOK', AttemptsCost(t), [Next]_vars PROVE AttemptsCost(t)'
  OBVIOUS
<1>0. call[t] \in CallRecord /\ ~call[t].stale /\ t \in Threads
  BY DEF TypeOK, AttemptsCost
<1>1. CASE CallStep(t)
  BY <1>0, <1>1, StartCosts, StopCosts, ViewCosts DEF CallStep
<1>2. ASSUME NEW c \in Commands, Click(t, c) PROVE AttemptsCost(t)'
  <2>1. /\ call'[t] = [call[t] EXCEPT !.then = ThenOf(c)]
        /\ pc'[t] \in {"start", "stop"} /\ faultsLeft' = faultsLeft
    BY <1>2 DEF Click, Issue, Goto, TypeOK
  <2>2. ThenOf(c) # "retry"
    BY DEF ThenOf
  <2>3. call'[t].then = ThenOf(c) /\ call'[t].tries = call[t].tries /\ call'[t].stale = call[t].stale
    BY <1>0, <2>1, Zenon DEF CallRecord
  <2>. QED BY <1>0, <2>1, <2>2, <2>3, FailuresAddUp DEF AttemptsCost
<1>3. ASSUME NEW d \in Distros, ClickToggle(t, d) PROVE AttemptsCost(t)'
  <2>1. call'[t] = [call[t] EXCEPT !.toggle = {d}] /\ pc'[t] = "toggle" /\ faultsLeft' = faultsLeft
    BY <1>3 DEF ClickToggle, Issue, Goto, TypeOK
  <2>2. call'[t].tries = call[t].tries /\ call'[t].stale = call[t].stale
    BY <1>0, <2>1, Zenon DEF CallRecord
  <2>. QED BY <1>0, <2>1, <2>2, FailuresAddUp DEF AttemptsCost, InStop, StopPCs
<1>4. ASSUME UNCHANGED <<pc, call>>, Spent' >= Spent, proxy' # "up" => proxy # "up" \/ Spent' > Spent
      PROVE  AttemptsCost(t)'
  BY <1>0, <1>4, OnwardCosts, FailuresAddUp DEF AttemptsCost, InStop
<1>5. CASE ProxyExits
  BY <1>0, <1>4, <1>5, FailuresAddUp DEF ProxyExits
<1>6. CASE \E k \in Kinds : LoopEnters(k) \/ \E p \in Phases : LoopExecEnds(k, p)
  BY <1>0, <1>4, <1>6, FailuresAddUp DEF LoopEnters, LoopExecEnds, world
<1>7. CASE DataMounts \/ \E d \in Distros : ScriptLinks(d) \/ ScriptServes(d)
  BY <1>0, <1>4, <1>7, FailuresAddUp DEF DataMounts, ScriptLinks, ScriptServes, world
<1>8. CASE UNCHANGED vars
  BY <1>0, <1>4, <1>8, FailuresAddUp DEF vars, world
<1>. QED BY <1>1, <1>2, <1>3, <1>5, <1>6, <1>7, <1>8 DEF Next

\* As long as the retries cover the failures, the Stop after a failed attempt goes on to the
\* next attempt.
LEMMA RetriesCover ==
    ASSUME TypeOK, NEW t \in Threads, Threads = {t}, AttemptsCost(t), MaxFaults <= Retries,
           pc[t] = "stopped", call[t].then = "retry", [Next]_vars
    PROVE  pc'[t] \in {"stopped", "start"}
<1>1. call[t].tries \in Nat /\ call[t].tries < Spent /\ Spent = MaxFaults - faultsLeft
  BY EngineAssumption DEF TypeOK, CallRecord, AttemptsCost, InStop, StopPCs, Spent
<1>2. faultsLeft \in 0..MaxFaults /\ MaxFaults \in Nat /\ Retries \in Nat
  BY EngineAssumption DEF TypeOK
<1>3. call[t].tries < Retries
  BY <1>1, <1>2
<1>4. CASE CallStep(t)
  <2>1. FinishStop(t)
    BY <1>4 DEF CallStep, StartStep, StopStep, ViewStep, BeginStart, TerminateDistro,
       InitializeDnsConfigurator, InitializeDataDistro, WaitForDataDistroInitialization,
       InitializePortForwardListener, InitializeAndStartDaemon, StartProxy, AwaitProxy,
       InitializeDistros, FinishStart, BeginStop, StopDistros, StopProxy, Cancel, StopDaemon,
       Exit, Reset, ToggleWslDistro, EnableDistro, SaveToggle
  <2>2. Goto(t, "start")
    BY <1>3, <2>1 DEF FinishStop, AfterStop
  <2>. QED BY <2>2 DEF Goto, TypeOK
<1>5. CASE ~CallStep(t)
  <2>1. UNCHANGED pc
    BY <1>5 DEF Next, vars, Click, ClickToggle, Issue, LoopEnters, LoopExecEnds, ScriptLinks,
       ScriptServes, DataMounts, ProxyExits
  <2>. QED BY <2>1
<1>. QED BY <1>4, <1>5

\* With one call at a time, a Start survives as many failures of its steps, and of the proxy,
\* as Polly retries it (WaitAndRetry): the Stop that follows a failed attempt, whatever fails
\* in it, is followed by another attempt.  With CallsAlwaysAdvance this is what makes
\* StartSurvivesFaults true.
AttemptsGoOn ==
    [][\A t \in Threads : pc[t] = "stopped" /\ call[t].then = "retry" =>
                              pc'[t] \in {"stopped", "start"}]_vars

\* For any distributions and commands, and any failures that the retries of Start outnumber.
THEOREM StartNeverGivesUp ==
    ASSUME NEW CONSTANT u, Threads = {u}, MaxFaults <= Retries
    PROVE  Spec => AttemptsGoOn
<1>1. Init => TypeOK /\ AttemptsCost(u)
  <2>1. SUFFICES ASSUME Init PROVE TypeOK /\ AttemptsCost(u)
    OBVIOUS
  <2>2. TypeOK /\ Spent = 0
    BY <2>1, InitTypeOK, EngineAssumption DEF Init, Spent
  <2>3. call[u] = [NoCall EXCEPT !.boot = (u = Boot)] /\ pc[u] \in {"start", "idle"}
    BY <2>1 DEF Init
  <2>4. call[u].tries = 0 /\ ~call[u].stale
    BY <2>3, Zenon DEF NoCall
  <2>. QED BY <2>2, <2>3, <2>4 DEF AttemptsCost, InStop, StopPCs
<1>2. TypeOK /\ AttemptsCost(u) /\ [Next]_vars => (TypeOK /\ AttemptsCost(u))'
  BY StepTypeOK, StepCosts
<1>3. TypeOK /\ AttemptsCost(u) /\ [Next]_vars =>
          [\A t \in Threads : pc[t] = "stopped" /\ call[t].then = "retry" =>
                                  pc'[t] \in {"stopped", "start"}]_vars
  BY RetriesCover
<1>. QED BY <1>1, <1>2, <1>3, PTL DEF Spec, AttemptsGoOn
=============================================================================
