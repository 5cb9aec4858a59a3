------------------------ MODULE DnsConfiguratorProofs -----------------------
(* Proofs about DnsConfigurator and the ConfigurationService under it, for *)
(* any modes, settings, threads and number of starts, edits and changes.   *)
EXTENDS DnsConfigurator, TLAPS

-----------------------------------------------------------------------------
(* Saves                                                                   *)

Saving(t) == save[t] \in {"write", "notify", "remember"}

SvcType ==
    /\ Configuration \in Settings /\ file \in Settings /\ loaded \in Settings
    /\ save \in [Threads -> {"idle", "compare", "write", "notify", "remember"}]
    /\ changed \in [Threads -> BOOLEAN]
    /\ DOMAIN json = Threads
    /\ \A t \in Threads : save[t] \in {"notify", "remember"} => json[t] \in Settings

\* A save that meets no other one has in hand what is in the file, and what was loaded or
\* saved last is in the file when there is none.
Alone ==
    ~overlapped =>
        /\ \A t, u \in Threads : Saving(t) /\ Saving(u) => t = u
        /\ \A t \in Threads : save[t] \in {"notify", "remember"} => json[t] = file
        /\ (\A t \in Threads : ~Saving(t)) => loaded = file

SvcInv == SvcType /\ Alone

-----------------------------------------------------------------------------
(* Forwarders                                                              *)

\* The engine is past the constructor's first line, and DNS is not being stopped.
Up == engine \in {"constructor", "again", "Running"}

DnsType ==
    /\ starting \in [Modes -> Nat]
    /\ at \in [Workers -> {None, "read", "stop", "launch"}]
    /\ DOMAIN mode = Workers /\ \A w \in Workers : at[w] \in {"stop", "launch"} => mode[w] \in Modes
    /\ addresses \subseteq Modes
    /\ Up => made \in onConfig /\ made \in onNetwork

\* A forwarder that has been launched and then stopped is followed by another one.
Served == Up /\ task => listening # None \/ OnTheirWay \/ \E w \in Workers : at[w] = "launch"

\* While Configures have not met, one forwarder at most is on its way, to a free port.
Sole ==
    ~raced =>
        /\ \A v, w \in Workers : ~Free(v) /\ ~Free(w) => v = w
        /\ (\E w \in Workers : ~Free(w)) => ~OnTheirWay
        /\ \A m \in Modes : starting[m] > 0 =>
               starting[m] = 1 /\ listening = None /\ \A n \in Modes \ {m} : starting[n] = 0
        /\ (\E w \in Workers : at[w] = "launch") => listening = None

\* The forwarder that runs, or will be launched or arrive next, is that of mode m.
Applied(m) ==
    \/ \E w \in Workers : at[w] \in {"stop", "launch"} /\ mode[w] = m
    \/ starting[m] > 0
    \/ listening = m /\ ~OnTheirWay /\ \A w \in Workers : Free(w)

\* A save under way will raise an event.
EventPending == \E t \in Threads : save[t] \in {"write", "notify"} /\ changed[t]

\* The live mode is unsaved, and no save under way changes that.
ModeUnsaved ==
    /\ loaded.mode # Configuration.mode
    /\ \A t \in Threads : save[t] # "write"
    /\ \A t \in Threads : save[t] \in {"notify", "remember"} => json[t].mode # Configuration.mode

\* Saves that have met, one of which will end.
Mixed == overlapped /\ \E t \in Threads : Saving(t)

\* The forwarder is the one of the live mode, or something is still to come.
Applies ==
    Up /\ ~raced /\ Configuration.mode \in addresses =>
        \/ queued # {}
        \/ \E w \in Workers : at[w] = "read"
        \/ Applied(Configuration.mode)
        \/ EventPending \/ ModeUnsaved \/ Mixed

DnsInv == SvcInv /\ DnsType /\ Served /\ Sole /\ Applies

-----------------------------------------------------------------------------
(* Saves keep SvcInv                                                       *)

\* What a save or a load begins with.
LEMMA DiffersKeeps == ASSUME SvcInv, NEW t \in Threads, Differs(t), save[t] \in {"idle", "compare"}
                      PROVE  SvcInv'
<1> USE DEF SvcInv, SvcType, Alone, Saving, Idle, Threads
<1>1. /\ save' = [save EXCEPT ![t] = "write"] /\ overlapped' = \E u \in Threads \ {t} : ~Idle(u)
      /\ changed' = [changed EXCEPT ![t] = loaded.mode # Configuration.mode]
      /\ UNCHANGED <<Configuration, file, loaded, json>>
  BY DEF Differs, Begins
<1>2. SvcType'
  BY <1>1
<1>3. Alone'
  BY <1>1
<1> QED
  BY <1>2, <1>3

\* Edits, saves, loads and the events they raise.
LEMMA SvcStep ==
    ASSUME SvcInv,
           (\E m \in Modes : Edit(m)) \/ Silent \/ (\E t \in Threads : Raises(t)) \/ UNCHANGED svcVars
    PROVE  SvcInv'
<1> USE DEF SvcInv, SvcType, Alone, Saving, Idle, Settings
<1>1. ASSUME NEW m \in Modes, Edit(m) PROVE SvcInv'
  BY <1>1 DEF Edit
<1>2. ASSUME NEW o \in Others, Toggle(o) PROVE SvcInv'
  BY <1>2 DEF Toggle, Threads
<1>3. CASE SaveChanges
  BY <1>3, DiffersKeeps DEF SaveChanges, Threads
<1>4. CASE Compare
  <2>1. CASE Differs("toggle")
    BY <1>4, <2>1, DiffersKeeps DEF Compare, Threads
  <2>2. CASE ~Differs("toggle")
    <3>1. /\ save["toggle"] = "compare" /\ save' = [save EXCEPT !["toggle"] = "idle"]
          /\ json' = [json EXCEPT !["toggle"] = NoSettings]
          /\ changed' = [changed EXCEPT !["toggle"] = FALSE]
          /\ UNCHANGED <<Configuration, file, loaded, overlapped>>
      BY <1>4, <2>2 DEF Compare, Ends
    <3> QED
      BY <3>1 DEF Threads
  <2> QED
    BY <2>1, <2>2
<1>5. CASE Discard
  <2>1. PICK next \in {"notify", "remember"} :
            /\ save["ui"] = "idle" /\ save' = [save EXCEPT !["ui"] = next]
            /\ overlapped' = \E u \in Threads \ {"ui"} : ~Idle(u)
            /\ json' = [json EXCEPT !["ui"] = file]
            /\ changed' = [changed EXCEPT !["ui"] = file.mode # Configuration.mode]
            /\ UNCHANGED <<file, loaded>>
    BY <1>5 DEF Discard, Begins
  <2>2. Configuration' \in Settings
    BY <1>5 DEF Discard
  <2>3. SvcType'
    BY <2>1, <2>2 DEF Threads
  <2>4. Alone'
    BY <2>1 DEF Threads
  <2> QED
    BY <2>3, <2>4
<1>6. ASSUME NEW t \in Threads, Write(t) PROVE SvcInv'
  <2>1. /\ save[t] = "write" /\ save' = [save EXCEPT ![t] = "notify"]
        /\ json' = [json EXCEPT ![t] = Configuration] /\ file' = Configuration
        /\ UNCHANGED <<Configuration, loaded, changed, overlapped>>
    BY <1>6 DEF Write
  <2> QED
    BY <2>1 DEF Threads
<1>7. ASSUME NEW t \in Threads, Remember(t) PROVE SvcInv'
  <2>1. /\ save[t] = "remember" /\ save' = [save EXCEPT ![t] = "idle"] /\ loaded' = json[t]
        /\ json' = [json EXCEPT ![t] = NoSettings] /\ changed' = [changed EXCEPT ![t] = FALSE]
        /\ UNCHANGED <<Configuration, file, overlapped>>
    BY <1>7 DEF Remember, Ends
  <2> QED
    BY <2>1 DEF Threads
<1>8. ASSUME NEW t \in Threads, Notify(t) PROVE SvcInv'
  BY <1>8 DEF Notify, Threads
<1>9. ASSUME NEW t \in Threads, NotifyAndValidate(t) PROVE SvcInv'
  BY <1>9 DEF NotifyAndValidate, Threads
<1>10. CASE UNCHANGED svcVars
  BY <1>10 DEF svcVars
<1> QED
  BY <1>1, <1>2, <1>3, <1>4, <1>5, <1>6, <1>7, <1>8, <1>9, <1>10 DEF Silent, Raises

\* What the steps of the engine do to the settings.
LEMMA SvcOfNext ==
    ASSUME [Next]_vars
    PROVE  (\E m \in Modes : Edit(m)) \/ Silent \/ (\E t \in Threads : Raises(t)) \/ UNCHANGED svcVars
<1>1. CASE \E m \in Modes : EditMode(m) \/ NetworkAddressChanged(m) \/ Arrives(m)
  BY <1>1 DEF EditMode, NetworkAddressChanged, Arrives
<1>2. CASE Save \/ \E t \in Threads : OnConfigurationChanged(t)
  BY <1>2 DEF Save, OnConfigurationChanged
<1>3. CASE \E w \in Workers : (\E k \in Configurators : TakeJob(w, k)) \/ JobStep(w)
  BY <1>3 DEF TakeJob, JobStep
<1>4. CASE StartEngine \/ Dispose \/ Kill \/ TerminateEngine \/ NewDnsConfigurator
           \/ EngineConfigures \/ EngineFindsNothing \/ ConfigureAgain \/ Started \/ UNCHANGED vars
  BY <1>4 DEF StartEngine, Dispose, Kill, TerminateEngine, NewDnsConfigurator, EngineConfigures,
     EngineFindsNothing, ConfigureAgain, Started, vars
<1> QED
  BY <1>1, <1>2, <1>3, <1>4 DEF Next

LEMMA SvcStarts == SvcInit => SvcInv
BY SettingsAssumption DEF SvcInit, SvcInv, SvcType, Alone, Saving, Threads, Settings

\* When no save is under way and the last one was alone, what is not in the file is known
\* to be unsaved.
THEOREM NothingUnsavedForgotten == Spec => []NothingUnsaved
<1>1. Init => SvcInv
  BY SvcStarts DEF Init
<1>2. SvcInv /\ [Next]_vars => SvcInv'
  BY SvcStep, SvcOfNext
<1>3. SvcInv => NothingUnsaved
  BY DEF SvcInv, Alone, Saving, NothingUnsaved, Idle, IsChanged
<1> QED
  BY <1>1, <1>2, <1>3, PTL DEF Spec

-----------------------------------------------------------------------------
(* Configures and the engine                                               *)

\* A step of Configure, whoever calls it.
LEMMA ConfigureStep ==
    ASSUME DnsInv, NEW w \in Workers, Reads(w) \/ ReadsNothing(w) \/ Stops(w) \/ Launches(w),
           UNCHANGED <<svcVars, made, events, addresses>>, engine' = engine \/ engine' = "failed"
    PROVE  DnsType' /\ Served' /\ Sole' /\ Applies'
<1> USE DEF DnsInv, DnsType, Served, Sole, Up, Free, OnTheirWay, None
<1>0. /\ UNCHANGED <<Configuration, queued>> /\ (Up' => Up)
      /\ (EventPending' <=> EventPending) /\ (ModeUnsaved' <=> ModeUnsaved) /\ (Mixed' <=> Mixed)
      /\ Configuration.mode \in Modes
  BY DEF svcVars, events, EventPending, ModeUnsaved, Mixed, Saving, SvcInv, SvcType, Settings
<1>1. CASE Reads(w)
  <2>1. /\ at' = [at EXCEPT ![w] = "stop"] /\ mode' = [mode EXCEPT ![w] = Configuration.mode]
        /\ at[w] = "read" /\ UNCHANGED <<task, starting, listening, raced>>
    BY <1>1 DEF Reads, forwarders
  <2>2. DnsType' /\ Served' /\ Sole'
    BY <1>0, <2>1 DEF events
  <2>3. Applied(Configuration.mode)'
    BY <1>0, <2>1 DEF Applied
  <2> QED
    BY <2>2, <2>3 DEF Applies
<1>2. CASE ReadsNothing(w)
  <2>1. /\ at' = [at EXCEPT ![w] = None] /\ mode' = [mode EXCEPT ![w] = None]
        /\ at[w] = "read" /\ UNCHANGED <<task, starting, listening, raced>>
        /\ Configuration.mode \notin addresses
    BY <1>2 DEF ReadsNothing, Leaves, forwarders
  <2>2. DnsType' /\ Served' /\ Sole'
    BY <1>0, <2>1 DEF events
  <2> QED
    BY <1>0, <2>1, <2>2 DEF Applies
<1>3. CASE Stops(w)
  <2>1. /\ at' = [at EXCEPT ![w] = "launch"] /\ at[w] = "stop" /\ listening' = None
        /\ UNCHANGED <<mode, task, starting, raced>>
    BY <1>3 DEF Stops
  <2>2. DnsType' /\ Served' /\ Sole'
    BY <1>0, <2>1 DEF events
  <2>3. ~raced /\ Configuration.mode \in addresses /\ Applied(Configuration.mode)
            => Applied(Configuration.mode)'
    BY <1>0, <2>1 DEF Applied
  <2>4. \A v \in Workers : at[v] = "read" => at'[v] = "read"
    BY <2>1
  <2> QED
    BY <1>0, <2>1, <2>2, <2>3, <2>4 DEF Applies
<1>4. CASE Launches(w)
  <2>1. /\ at' = [at EXCEPT ![w] = None] /\ mode' = [mode EXCEPT ![w] = None] /\ at[w] = "launch"
        /\ starting' = [starting EXCEPT ![mode[w]] = @ + 1] /\ mode[w] \in Modes
        /\ UNCHANGED <<listening, raced>>
    BY <1>4 DEF Launches, Leaves
  <2>2. starting'[mode[w]] = starting[mode[w]] + 1 /\ starting[mode[w]] \in Nat
        /\ \A m \in Modes : m # mode[w] => starting'[m] = starting[m]
    BY <2>1
  <2>3. DnsType' /\ Served' /\ OnTheirWay'
    BY <1>0, <2>1, <2>2 DEF events
  <2>4. Sole'
    BY <2>1, <2>2
  <2>5. ~raced /\ Applied(Configuration.mode) => Applied(Configuration.mode)'
    BY <1>0, <2>1, <2>2 DEF Applied
  <2>6. \A v \in Workers : at[v] = "read" => at'[v] = "read"
    BY <2>1
  <2> QED
    BY <1>0, <2>1, <2>3, <2>4, <2>5, <2>6 DEF Applies
<1> QED
  BY <1>1, <1>2, <1>3, <1>4

\* A Configure begins: it is yet to read the live mode.
LEMMA EntersStep ==
    ASSUME DnsInv, NEW w \in Workers, NEW k, Enters(w, k),
           UNCHANGED <<svcVars, addresses, starting, listening>>,
           Up' => made' \in onConfig' /\ made' \in onNetwork',
           Up' /\ task' => Up /\ task /\ Free(w)
    PROVE  DnsType' /\ Served' /\ Sole' /\ Applies'
<1> USE DEF DnsInv, DnsType, Served, Sole, Up, Free, OnTheirWay, None
<1>1. /\ at' = [at EXCEPT ![w] = "read"] /\ UNCHANGED mode
      /\ raced' = (OnTheirWay \/ \E v \in Workers \ {w} : ~Free(v))
  BY DEF Enters
<1>2. at'[w] = "read" /\ \A v \in Workers : v # w => at'[v] = at[v]
  BY <1>1
<1>3. DnsType' /\ Served' /\ Applies'
  BY <1>1, <1>2 DEF Applies
<1>4. ~raced' => ~OnTheirWay' /\ \A v \in Workers : v # w => at'[v] = None
  BY <1>1, <1>2
<1>5. Sole'
  BY <1>2, <1>4
<1> QED
  BY <1>3, <1>5

\* A forwarder comes to its port.
LEMMA ArrivesStep ==
    ASSUME DnsInv, NEW m \in Modes, Arrives(m)
    PROVE  DnsType' /\ Served' /\ Sole' /\ Applies'
<1> USE DEF DnsInv, DnsType, Served, Sole, Up, Free, OnTheirWay, None
<1>1. /\ starting[m] > 0 /\ starting' = [starting EXCEPT ![m] = @ - 1]
      /\ listening' = IF listening = None THEN m ELSE listening
      /\ UNCHANGED <<svcVars, engine, made, current, onConfig, onNetwork, queued, at, mode,
                     addresses, task, raced>>
  BY DEF Arrives, events, workers
<1>2. starting'[m] = starting[m] - 1 /\ starting[m] \in Nat /\ starting'[m] \in Nat
      /\ \A n \in Modes : n # m => starting'[n] = starting[n]
  BY <1>1
<1>3. listening' # None
  BY <1>1, DnsAssumption
<1>4. DnsType' /\ Served'
  BY <1>1, <1>2, <1>3
<1>5. ~raced => /\ \A w \in Workers : Free(w) /\ UNCHANGED at
                /\ listening' = m /\ \A n \in Modes : starting'[n] = 0
  BY <1>1, <1>2
<1>6. Sole'
  BY <1>1, <1>5
<1>7. Applies'
  <2>1. /\ UNCHANGED Configuration
        /\ (EventPending' <=> EventPending) /\ (ModeUnsaved' <=> ModeUnsaved) /\ (Mixed' <=> Mixed)
    BY <1>1 DEF svcVars, EventPending, ModeUnsaved, Mixed, Saving
  <2>2. ~raced /\ Configuration.mode \in addresses /\ Applied(Configuration.mode)
            => Applied(Configuration.mode)'
    BY <1>1, <1>2, <1>5, <2>1 DEF Applied
  <2> QED
    BY <1>1, <2>1, <2>2 DEF Applies
<1> QED
  BY <1>4, <1>6, <1>7

\* The engine stops DNS, or the distribution: it is not up.
LEMMA DownStep ==
    ASSUME DnsInv, StartEngine \/ Dispose \/ Kill \/ TerminateEngine
    PROVE  DnsType' /\ Served' /\ Sole' /\ Applies'
<1> USE DEF DnsInv, DnsType, Served, Sole, Up, Free, OnTheirWay, None
<1>1. /\ ~Up' /\ (listening' = listening \/ listening' = None)
      /\ (starting' = starting \/ starting' = [m \in Modes |-> 0])
      /\ UNCHANGED <<workers, addresses, raced>>
  BY DEF StartEngine, Dispose, Kill, TerminateEngine, Terminate, Engine, forwarders
<1>2. DnsType' /\ Served' /\ Applies'
  BY <1>1 DEF Applies, workers
<1>3. Sole'
  BY <1>1 DEF workers
<1> QED
  BY <1>2, <1>3

\* The queued calls and the starts of the engine.
LEMMA EngineStep ==
    ASSUME DnsInv,
           \/ \E m \in Modes : Arrives(m)
           \/ \E w \in Workers : (\E k \in Configurators : TakeJob(w, k)) \/ JobStep(w)
           \/ StartEngine \/ Dispose \/ Kill \/ TerminateEngine
           \/ NewDnsConfigurator \/ EngineConfigures \/ EngineFindsNothing \/ ConfigureAgain \/ Started
    PROVE  DnsType' /\ Served' /\ Sole' /\ Applies'
<1>0. "engine" \in Workers
  BY DEF Workers
<1>1. ASSUME NEW w \in Workers, NEW k \in Configurators, TakeJob(w, k)
      PROVE  DnsType' /\ Served' /\ Sole' /\ Applies'
  <2>1. /\ Enters(w, k) /\ Free(w)
        /\ UNCHANGED <<svcVars, addresses, starting, listening, engine, made, onConfig, onNetwork, task>>
    BY <1>1 DEF TakeJob, forwarders
  <2> QED
    BY <2>1, EntersStep DEF DnsInv, DnsType, Up
<1>2. ASSUME NEW w \in Workers, JobStep(w)
      PROVE  DnsType' /\ Served' /\ Sole' /\ Applies'
  BY <1>2, ConfigureStep DEF JobStep
<1>3. CASE EngineConfigures \/ EngineFindsNothing
  BY <1>0, <1>3, ConfigureStep DEF EngineConfigures, EngineFindsNothing
<1>4. CASE NewDnsConfigurator
  <2>1. /\ Enters("engine", made') /\ UNCHANGED <<svcVars, addresses, starting, listening>> /\ ~task'
        /\ made' \in onConfig' /\ made' \in onNetwork'
    BY <1>4 DEF NewDnsConfigurator
  <2> QED
    BY <1>0, <2>1, EntersStep
<1>5. CASE ConfigureAgain
  <2>1. /\ Enters("engine", made) /\ Free("engine") /\ Up /\ Up'
        /\ UNCHANGED <<svcVars, addresses, starting, listening, made, onConfig, onNetwork, task>>
    BY <1>5 DEF ConfigureAgain, forwarders, events, Engine, Up
  <2> QED
    BY <1>0, <2>1, EntersStep DEF DnsInv, DnsType
<1>6. CASE Started
  <2>1. Up /\ Up' /\ UNCHANGED <<svcVars, made, events, workers, addresses, forwarders, raced>>
    BY <1>6 DEF Started, Engine, Up
  <2> QED
    BY <2>1 DEF DnsInv, DnsType, Served, Sole, Applies, svcVars, events, workers, forwarders, Free,
       OnTheirWay, Applied, EventPending, ModeUnsaved, Mixed, Saving
<1> QED
  BY <1>1, <1>2, <1>3, <1>4, <1>5, <1>6, ArrivesStep, DownStep

-----------------------------------------------------------------------------
(* Edits, saves and changes of the network                                 *)

\* A save begins: an unsaved mode becomes an event, and saves that meet are noted.
LEMMA DiffersApplies ==
    ASSUME DnsInv, NEW t \in Threads, Differs(t), save[t] \in {"idle", "compare"},
           ~overlapped', EventPending \/ ModeUnsaved \/ Mixed
    PROVE  EventPending'
<1> USE DEF DnsInv, SvcInv, SvcType, Threads, Idle, Saving
<1>1. /\ save' = [save EXCEPT ![t] = "write"] /\ overlapped' = \E u \in Threads \ {t} : ~Idle(u)
      /\ changed' = [changed EXCEPT ![t] = loaded.mode # Configuration.mode]
  BY DEF Differs, Begins
<1>2. \A u \in Threads : u # t => save[u] = "idle"
  BY <1>1
<1>3. loaded.mode # Configuration.mode
  BY <1>2 DEF EventPending, ModeUnsaved, Mixed
<1> QED
  BY <1>1, <1>3 DEF EventPending

\* What a save or a load does to the mode, and what it leaves to come: unless saves have
\* met, the forwarder of the live mode is still the one that runs or will run.
LEMMA SilentApplies ==
    ASSUME DnsInv, Silent, ~overlapped', loaded = file \/ \E t \in Threads : ~Idle(t)
    PROVE  \/ EventPending'
           \/ /\ Configuration'.mode = Configuration.mode
              /\ EventPending \/ ModeUnsaved \/ Mixed => ModeUnsaved'
<1> USE DEF DnsInv, SvcInv, SvcType, Threads, Idle, Saving, Settings
<1>1. ASSUME NEW o \in Others, Toggle(o)
      PROVE  /\ Configuration'.mode = Configuration.mode
             /\ (EventPending => EventPending') /\ (ModeUnsaved => ModeUnsaved') /\ ~Mixed
  BY <1>1 DEF Toggle, EventPending, ModeUnsaved, Mixed
<1>2. CASE SaveChanges
  <2>1. Differs("ui") /\ save["ui"] = "idle" /\ Configuration' = Configuration
    BY <1>2 DEF SaveChanges, Differs
  <2> QED
    BY <2>1, DiffersApplies
<1>3. CASE Compare
  <2>1. CASE Differs("toggle")
    <3>1. save["toggle"] = "compare" /\ Configuration' = Configuration
      BY <1>3, <2>1 DEF Compare, Differs
    <3> QED
      BY <2>1, <3>1, DiffersApplies
  <2>2. CASE ~Differs("toggle")
    <3>1. /\ save["toggle"] = "compare" /\ save' = [save EXCEPT !["toggle"] = "idle"]
          /\ changed' = [changed EXCEPT !["toggle"] = FALSE] /\ loaded = Configuration
          /\ UNCHANGED <<Configuration, file, loaded, overlapped>>
      BY <1>3, <2>2 DEF Compare, Ends, IsChanged
    <3>2. ~ModeUnsaved /\ ~Mixed
      BY <3>1 DEF ModeUnsaved, Mixed
    <3>3. EventPending => EventPending'
      BY <3>1 DEF EventPending
    <3> QED
      BY <3>1, <3>2, <3>3
  <2> QED
    BY <2>1, <2>2
<1>4. CASE Discard
  <2>1. /\ \A t \in Threads : save[t] = "idle"
        /\ save' = [save EXCEPT !["ui"] = IF file = Configuration THEN "remember" ELSE "notify"]
        /\ changed' = [changed EXCEPT !["ui"] = file.mode # Configuration.mode]
        /\ Configuration'.mode = file.mode
    BY <1>4 DEF Discard, Begins
  <2>2. ~EventPending /\ ~Mixed /\ loaded = file
    BY <2>1 DEF EventPending, Mixed
  <2>3. CASE file.mode = Configuration.mode
    BY <2>1, <2>2, <2>3 DEF ModeUnsaved
  <2>4. CASE file.mode # Configuration.mode
    <3>1. save'["ui"] = "notify" /\ changed'["ui"]
      BY <2>1, <2>4
    <3> QED
      BY <3>1 DEF EventPending
  <2> QED
    BY <2>3, <2>4
<1>5. ASSUME NEW t \in Threads, Write(t)
      PROVE  /\ Configuration' = Configuration
             /\ ~ModeUnsaved /\ ~Mixed /\ (EventPending => EventPending')
  <2>1. /\ save[t] = "write" /\ save' = [save EXCEPT ![t] = "notify"]
        /\ UNCHANGED <<Configuration, changed, overlapped>>
    BY <1>5 DEF Write
  <2> QED
    BY <2>1 DEF EventPending, ModeUnsaved, Mixed
<1>6. ASSUME NEW t \in Threads, Remember(t)
      PROVE  /\ Configuration' = Configuration
             /\ ~EventPending /\ ~Mixed /\ (ModeUnsaved => ModeUnsaved')
  <2>1. /\ save[t] = "remember" /\ save' = [save EXCEPT ![t] = "idle"] /\ loaded' = json[t]
        /\ UNCHANGED <<Configuration, overlapped>>
        /\ \A u \in Threads : u # t => json'[u] = json[u]
    BY <1>6 DEF Remember, Ends
  <2>2. \A u \in Threads : Saving(u) => u = t
    BY <2>1 DEF Alone
  <2> QED
    BY <2>1, <2>2 DEF EventPending, ModeUnsaved, Mixed
<1> QED
  BY <1>1, <1>2, <1>3, <1>4, <1>5, <1>6 DEF Silent

\* Nothing but the configuration and the network changes.
LEMMA SettingsStep ==
    ASSUME DnsInv,
           \/ \E m \in Modes : EditMode(m) \/ NetworkAddressChanged(m)
           \/ Save \/ \E t \in Threads : OnConfigurationChanged(t)
           \/ UNCHANGED vars
    PROVE  DnsType' /\ Served' /\ Sole' /\ Applies'
<1> USE DEF DnsInv
<1>1. /\ UNCHANGED <<engine, made, onConfig, onNetwork, workers, forwarders>>
      /\ addresses' \subseteq Modes /\ (raced => raced') /\ queued \subseteq queued'
  <2>1. ASSUME NEW m \in Modes, EditMode(m)
        PROVE  /\ UNCHANGED <<engine, made, events, workers, forwarders, addresses>>
               /\ raced => raced'
    BY <2>1, Zenon DEF EditMode
  <2>2. ASSUME NEW m \in Modes, NetworkAddressChanged(m)
        PROVE  /\ UNCHANGED <<engine, made, onConfig, onNetwork, workers, forwarders, raced>>
               /\ addresses' \subseteq addresses \cup Modes /\ queued \subseteq queued'
    BY <2>2 DEF NetworkAddressChanged
  <2>3. CASE Save
    <3>1. UNCHANGED <<engine, made, events, workers, forwarders, addresses>> /\ (raced => raced')
      BY <2>3, Zenon DEF Save
    <3> QED
      BY <3>1 DEF events, DnsType
  <2>4. ASSUME NEW t \in Threads, OnConfigurationChanged(t)
        PROVE  /\ UNCHANGED <<engine, made, onConfig, onNetwork, workers, forwarders, raced, addresses>>
               /\ queued \subseteq queued'
    BY <2>4 DEF OnConfigurationChanged
  <2>5. CASE UNCHANGED vars
    BY <2>5 DEF vars, dnsVars, events, DnsType
  <2> QED
    BY <2>1, <2>2, <2>3, <2>4, <2>5 DEF events, DnsType
<1>2. DnsType' /\ Served' /\ Sole'
  BY <1>1 DEF DnsType, Served, Sole, Up, Free, OnTheirWay, workers, forwarders
<1>3. Configuration'.mode = Configuration.mode
          => (Applied(Configuration.mode)' <=> Applied(Configuration.mode))
  BY <1>1 DEF Applied, OnTheirWay, Free, workers, forwarders
<1>4. (Up' <=> Up) /\ (\A w \in Workers : at'[w] = at[w]) /\ (Up => made \in onConfig /\ made \in onNetwork)
  BY <1>1 DEF Up, workers, DnsType
<1>5. ASSUME NEW m \in Modes, EditMode(m) PROVE Applies'
  <2>1. /\ Configuration' = [Configuration EXCEPT !.mode = m]
        /\ UNCHANGED <<file, loaded, save, json, changed, overlapped>>
        /\ ~raced' => m \notin {loaded.mode, file.mode} /\ \A t \in Threads : save[t] # "write"
    BY <1>5 DEF EditMode, Edit
  <2>2. Configuration'.mode = m
    BY <2>1 DEF SvcInv, SvcType, Settings
  <2>3. CASE overlapped
    BY <2>1, <2>2, <2>3 DEF Applies, ModeUnsaved, Mixed, Saving, SvcInv, SvcType
  <2>4. CASE ~overlapped
    BY <2>1, <2>2, <2>4 DEF Applies, ModeUnsaved, SvcInv, Alone
  <2> QED
    BY <2>3, <2>4
<1>6. ASSUME NEW m \in Modes, NetworkAddressChanged(m) PROVE Applies'
  BY <1>1, <1>4, <1>6 DEF NetworkAddressChanged, Applies
<1>7. CASE Save
  <2>1. Silent /\ UNCHANGED <<addresses, queued>>
        /\ (~raced' => ~raced /\ ~overlapped' /\ (loaded = file \/ \E t \in Threads : ~Idle(t)))
    BY <1>7 DEF Save, events
  <2>2. ~raced' => \/ EventPending'
                   \/ /\ Configuration'.mode = Configuration.mode
                      /\ EventPending \/ ModeUnsaved \/ Mixed => ModeUnsaved'
    BY <2>1, SilentApplies
  <2>3. CASE EventPending' \/ ~Up' \/ raced' \/ Configuration'.mode \notin addresses'
    BY <1>2, <2>3 DEF Applies
  <2>4. CASE ~(EventPending' \/ ~Up' \/ raced' \/ Configuration'.mode \notin addresses')
    <3>1. /\ Up /\ ~raced /\ Configuration.mode \in addresses /\ queued' = queued
          /\ Configuration'.mode = Configuration.mode
          /\ EventPending \/ ModeUnsaved \/ Mixed => ModeUnsaved'
      BY <1>4, <2>1, <2>2, <2>4
    <3>2. \/ queued # {} \/ (\E w \in Workers : at[w] = "read") \/ Applied(Configuration.mode)
          \/ EventPending \/ ModeUnsaved \/ Mixed
      BY <3>1 DEF Applies
    <3>3. queued' # {} \/ (\E w \in Workers : at'[w] = "read") \/ Applied(Configuration.mode)'
          \/ ModeUnsaved'
      BY <1>3, <1>4, <3>1, <3>2
    <3> QED
      BY <1>2, <3>3 DEF Applies
  <2> QED
    BY <2>3, <2>4
<1>8. ASSUME NEW t \in Threads, Notify(t), OnConfigurationChanged(t) PROVE Applies'
  <2>1. /\ save[t] = "notify" /\ save' = [save EXCEPT ![t] = "remember"]
        /\ UNCHANGED <<Configuration, loaded, json, changed, overlapped, addresses>>
    BY <1>8 DEF Notify, OnConfigurationChanged
  <2>2. changed[t] => onConfig \subseteq queued'
    BY <1>8 DEF OnConfigurationChanged
  <2>3. /\ EventPending => EventPending' \/ changed[t]
        /\ ModeUnsaved => ModeUnsaved'
        /\ Mixed => Mixed'
    BY <2>1 DEF EventPending, ModeUnsaved, Mixed, Saving, SvcInv, SvcType
  <2> QED
    BY <1>1, <1>3, <1>4, <2>1, <2>2, <2>3 DEF Applies
<1>9. ASSUME NEW t \in Threads, NotifyAndValidate(t) PROVE Applies'
  <2>1. overlapped' /\ save'[t] = "remember"
    BY <1>9 DEF NotifyAndValidate, SvcInv, SvcType
  <2> QED
    BY <2>1 DEF Applies, Mixed, Saving
<1>10. CASE UNCHANGED vars
  <2>1. /\ UNCHANGED <<Configuration, raced, addresses, queued>>
        /\ (EventPending' <=> EventPending) /\ (ModeUnsaved' <=> ModeUnsaved) /\ (Mixed' <=> Mixed)
    BY <1>10 DEF vars, svcVars, dnsVars, events, EventPending, ModeUnsaved, Mixed, Saving
  <2> QED
    BY <1>2, <1>3, <1>4, <2>1 DEF Applies
<1> QED
  BY <1>2, <1>5, <1>6, <1>7, <1>8, <1>9, <1>10 DEF OnConfigurationChanged, Raises

-----------------------------------------------------------------------------
LEMMA DnsStep == DnsInv /\ [Next]_vars => DnsInv'
BY SvcStep, SvcOfNext, EngineStep, SettingsStep DEF DnsInv, Next

LEMMA DnsStarts == Init => DnsInv
<1> SUFFICES ASSUME Init PROVE DnsInv
  OBVIOUS
<1>1. SvcInv
  BY SvcStarts DEF Init
<1>2. DnsType /\ Served /\ Sole /\ Applies
  BY DEF Init, DnsType, Served, Sole, Applies, Up, Free, OnTheirWay, None
<1> QED
  BY <1>1, <1>2 DEF DnsInv

\* An engine that runs keeps a DNS forwarder, once its configurator has launched one.
THEOREM DnsAlwaysServed == Spec => []DnsServed
<1>1. DnsInv => DnsServed
  BY DEF DnsInv, Served, Up, DnsServed, Quiet, Free, None
<1> QED
  BY <1>1, DnsStarts, DnsStep, PTL DEF Spec

\* What is saved is what the forwarder uses, when the last Configure has met no other one.
THEOREM SavedModeAlwaysApplies == Spec => []SavedModeApplies
<1>1. ASSUME DnsInv PROVE SavedModeApplies
  <2> SUFFICES ASSUME engine = "Running", Quiet, ~raced, ~IsChanged, Configuration.mode \in addresses
               PROVE  listening = Configuration.mode
    BY DEF SavedModeApplies
  <2>1. queued = {} /\ ~OnTheirWay /\ (\A w \in Workers : at[w] = None)
        /\ (\A t \in Threads : save[t] = "idle") /\ loaded = Configuration
    BY DEF Quiet, Free, Idle, IsChanged
  <2>2. ~EventPending /\ ~ModeUnsaved /\ ~Mixed
    BY <2>1 DEF EventPending, ModeUnsaved, Mixed, Saving
  <2>3. Applied(Configuration.mode)
    BY <1>1, <2>1, <2>2 DEF DnsInv, Applies, Up, None
  <2>4. Configuration.mode \in Modes
    BY <1>1 DEF DnsInv, DnsType
  <2> QED
    BY <2>1, <2>3, <2>4 DEF Applied, OnTheirWay, None
<1> QED
  BY <1>1, DnsStarts, DnsStep, PTL DEF Spec
=============================================================================
