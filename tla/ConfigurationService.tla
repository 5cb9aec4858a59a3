------------------------ MODULE ConfigurationService ------------------------
(* The configuration as the settings page and the tray menu change, save   *)
(* and discard it.  There is one live Configuration, edited in place; a    *)
(* save compares it with what was loaded or saved last, writes it to the   *)
(* file, tells the listeners and only then remembers it as saved.  Saves   *)
(* run on the user interface and on the thread of a menu item, unlocked.   *)
CONSTANTS
    Modes,  \* the DNS modes the user chooses from
    Others, \* versions of the settings that have nothing to do with DNS
    Defaults \* the settings of a new installation

Settings == [mode : Modes, other : Others]
ASSUME SettingsAssumption == Defaults \in Settings

Threads == {"ui", "toggle"}
NoSettings == [mode |-> "none", other |-> "none"]

VARIABLES
    Configuration, \* the live configuration
    file,          \* config.json
    loaded,        \* _loadedConfiguration
    save,          \* location of SaveAndNotify or Load on each thread
    json,          \* what each thread has serialized, or read
    changed,       \* whether the DNS mode is among the changes a thread has found
    overlapped     \* the last save began while another ran, or another began during it

svcVars == <<Configuration, file, loaded, save, json, changed, overlapped>>

SvcInit ==
    /\ Configuration = Defaults /\ file = Defaults /\ loaded = Defaults
    /\ save = [t \in Threads |-> "idle"]
    /\ json = [t \in Threads |-> NoSettings]
    /\ changed = [t \in Threads |-> FALSE]
    /\ overlapped = FALSE

IsChanged == loaded # Configuration
Idle(t) == save[t] = "idle"
Ends(t) ==
    /\ save' = [save EXCEPT ![t] = "idle"]
    /\ json' = [json EXCEPT ![t] = NoSettings]
    /\ changed' = [changed EXCEPT ![t] = FALSE]

\* A thread begins to save or load.
Begins(t, at) ==
    /\ save' = [save EXCEPT ![t] = at]
    /\ overlapped' = \E u \in Threads \ {t} : ~Idle(u)

-----------------------------------------------------------------------------
\* The user changes the DNS mode on the settings page.
Edit(m) ==
    /\ Idle("ui") /\ m # Configuration.mode
    /\ Configuration' = [Configuration EXCEPT !.mode = m]
    /\ UNCHANGED <<file, loaded, save, json, changed, overlapped>>

\* ToggleWslDistro changes another setting of the live configuration, and saves it.
Toggle(o) ==
    /\ Idle("toggle") /\ o # Configuration.other
    /\ Configuration' = [Configuration EXCEPT !.other = o]
    /\ save' = [save EXCEPT !["toggle"] = "compare"]
    /\ UNCHANGED <<file, loaded, json, changed, overlapped>>

\* The comparison with what was saved last finds a difference, or none.
Differs(t) ==
    /\ IsChanged /\ Begins(t, "write")
    /\ changed' = [changed EXCEPT ![t] = loaded.mode # Configuration.mode]
    /\ UNCHANGED <<Configuration, file, loaded, json>>

\* SaveChangesCommand, which can run when something is changed.
SaveChanges == Idle("ui") /\ Differs("ui")

Compare ==
    /\ save["toggle"] = "compare"
    /\ \/ Differs("toggle")
       \/ ~IsChanged /\ Ends("toggle") /\ UNCHANGED <<Configuration, file, loaded, overlapped>>

\* The live configuration is serialized and written.
Write(t) ==
    /\ save[t] = "write"
    /\ json' = [json EXCEPT ![t] = Configuration] /\ file' = Configuration
    /\ save' = [save EXCEPT ![t] = "notify"]
    /\ UNCHANGED <<Configuration, loaded, changed, overlapped>>

\* ConfigurationChanged is raised.
Notify(t) ==
    /\ save[t] = "notify"
    /\ save' = [save EXCEPT ![t] = "remember"]
    /\ UNCHANGED <<Configuration, file, loaded, json, changed, overlapped>>

\* It is raised, and ValidateHostEntryMode has the user turn on port forwarding, for the
\* adapter that the host entries are about: a save inside of the handler.
NotifyAndValidate(t) ==
    /\ save[t] = "notify" /\ (t = "ui" \/ Idle("ui"))
    /\ \E o \in Others \ {Configuration.other} :
           Configuration' = [Configuration EXCEPT !.other = o]
    /\ file' = Configuration' /\ loaded' = Configuration'
    /\ overlapped' = TRUE
    /\ save' = [save EXCEPT ![t] = "remember"]
    /\ UNCHANGED <<json, changed>>

\* Mutant: what is live now is taken for what was saved.
RememberLive(t) ==
    /\ save[t] = "remember"
    /\ loaded' = Configuration
    /\ Ends(t)
    /\ UNCHANGED <<Configuration, file, overlapped>>

Remember(t) ==
    /\ save[t] = "remember"
    /\ loaded' = json[t]
    /\ Ends(t)
    /\ UNCHANGED <<Configuration, file, overlapped>>

\* DiscardChangesCommand: Load populates the live configuration from the file, where it
\* differs.  What is in a collection stays there.  The event is raised before the file is
\* remembered, as in a save.
Discard ==
    /\ Idle("ui") /\ IsChanged
    /\ Begins("ui", IF file = Configuration THEN "remember" ELSE "notify")
    /\ json' = [json EXCEPT !["ui"] = file]
    /\ changed' = [changed EXCEPT !["ui"] = file.mode # Configuration.mode]
    /\ \E o \in {file.other, Configuration.other} :
           Configuration' = [mode |-> file.mode, other |-> o]
    /\ UNCHANGED <<file, loaded>>

-----------------------------------------------------------------------------
\* What raises ConfigurationChanged, and what is silent.
Raises(t) == Notify(t) \/ NotifyAndValidate(t)
Silent ==
    \/ \E o \in Others : Toggle(o)
    \/ SaveChanges \/ Compare \/ Discard
    \/ \E t \in Threads : Write(t) \/ Remember(t)

\* When no save or load is under way, and the last one was alone, an edit that is not in
\* the file is still known to be unsaved, even one made while a save was under way.
NothingUnsaved ==
    ((\A t \in Threads : Idle(t)) /\ ~overlapped /\ ~IsChanged) => file = Configuration
=============================================================================
