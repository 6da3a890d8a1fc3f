------------------------------ MODULE Plugins ------------------------------
(***************************************************************************)
(* Discovery of plugins and their enabled state (bmt_ai_os/plugins/        *)
(* loader.py and manager.py, the plugin commands of cli.py).               *)
(*                                                                         *)
(* A PluginManager reads the state file once, when its process starts, and *)
(* writes the whole of it after each change.  Its lock orders the threads  *)
(* of one process; nothing orders the processes.                           *)
(***************************************************************************)
EXTENDS FiniteSets

CONSTANTS
    EntryPoints,  \* records [ep, name, hook]: what the installed packages declare
    Manifests,    \* records [name, hook]: what the plugin directory holds
    Managers      \* processes with a PluginManager

VARIABLES
    stateFile,   \* the state file
    cache,       \* _state of each manager, where its process runs
    providers,   \* what each manager has registered with its provider registry
    setting,     \* history: the value last set for each plugin and reported as set
    saved,       \* history: the plugins whose setting is in the file
    knows        \* history: those whose setting each process has made or read

pluginVars == <<stateFile, cache, providers, setting, saved, knows>>

States == {"on", "off", "unset"}

EntryNames == {e.name : e \in EntryPoints}

\* Entry points win over manifests of the same name.
Discovered ==
    {[name |-> e.name, hook |-> e.hook] : e \in EntryPoints}
        \cup {m \in Manifests : m.name \notin EntryNames}

PluginNames == {i.name : i \in Discovered}

\* load_plugin looks an entry point up under the name of the entry point, not
\* under that of its class.
IsLoadable(n) == n \in {e.ep : e \in EntryPoints} \cup {m.name : m \in Manifests}

NotRunning == [n \in PluginNames |-> "stopped"]
NoSettings == [n \in PluginNames |-> "unset"]

PluginInit ==
    /\ stateFile = NoSettings
    /\ cache = [p \in Managers |-> NotRunning]
    /\ providers = [p \in Managers |-> {}]
    /\ setting = NoSettings
    /\ saved = PluginNames
    /\ knows = [p \in Managers |-> {}]

Runs(p) == cache[p] # NotRunning

\* A missing file stands for no settings.
LoadState(p) ==
    /\ ~Runs(p)
    /\ cache' = [cache EXCEPT ![p] = stateFile]
    /\ knows' = [knows EXCEPT ![p] = saved]
    /\ UNCHANGED <<stateFile, providers, setting, saved>>

\* The file cannot be read: the process starts with no settings, and the first
\* one it makes then overwrites all the others.
LoadStateFails(p) ==
    /\ ~Runs(p)
    /\ cache' = [cache EXCEPT ![p] = NoSettings]
    /\ knows' = [knows EXCEPT ![p] = {}]
    /\ UNCHANGED <<stateFile, providers, setting, saved>>

\* Something else leaves in the file what is no JSON object: it is read as no
\* settings until a process writes it again.
FileIsSpoilt ==
    /\ stateFile' = NoSettings
    /\ saved' = {}
    /\ UNCHANGED <<cache, providers, setting, knows>>

\* Faulty: only the plugin that changed is written to the file.
SaveChanged(p, n, v) == stateFile' = [m \in PluginNames |-> IF m = n THEN v ELSE "unset"]

\* _save_state writes all of _state; the rename makes it one step.
SaveState(p, n, v) == stateFile' = [cache[p] EXCEPT ![n] = v]

\* Who knows the setting of n after p has made it.
Knowing(p, n) ==
    [q \in Managers |-> IF q = p THEN knows[p] \cup {n} ELSE knows[q] \ {n}]

\* enable and disable of a plugin that is discovered.
SetEnabled(p, n, v) ==
    /\ Runs(p)
    /\ cache' = [cache EXCEPT ![p][n] = v]
    /\ SaveState(p, n, v)
    /\ setting' = [setting EXCEPT ![n] = v]
    /\ knows' = Knowing(p, n)
    /\ saved' = knows[p] \cup {n}
    /\ UNCHANGED providers

\* The error of the write is swallowed, so the cache is not rolled back and the
\* change is reported as made.
SetEnabledUnsaved(p, n, v) ==
    /\ Runs(p)
    /\ cache' = [cache EXCEPT ![p][n] = v]
    /\ setting' = [setting EXCEPT ![n] = v]
    /\ knows' = Knowing(p, n)
    /\ saved' = saved \ {n}
    /\ UNCHANGED <<stateFile, providers>>

\* Plugins without a setting are enabled.
IsEnabled(p, n) == cache[p][n] \in {"on", "unset"}

\* One that fails to load does not keep the others from being registered.
RegisterProviders(p) ==
    /\ Runs(p)
    /\ \E fail \in SUBSET PluginNames :
         providers' = [providers EXCEPT ![p] = @ \cup
             {i.name : i \in {d \in Discovered : /\ d.hook = "provider"
                                                 /\ IsEnabled(p, d.name)
                                                 /\ IsLoadable(d.name)
                                                 /\ d.name \notin fail}}]
    /\ UNCHANGED <<stateFile, cache, setting, saved, knows>>

\* The command ends, or the process is stopped.
ManagerExits(p) ==
    /\ Runs(p)
    /\ cache' = [cache EXCEPT ![p] = NotRunning]
    /\ providers' = [providers EXCEPT ![p] = {}]
    /\ knows' = [knows EXCEPT ![p] = {}]
    /\ UNCHANGED <<stateFile, setting, saved>>

PluginNext ==
    \/ FileIsSpoilt
    \/ \E p \in Managers :
         \/ LoadState(p) \/ LoadStateFails(p) \/ RegisterProviders(p) \/ ManagerExits(p)
         \/ \E n \in PluginNames, v \in {"on", "off"} :
              SetEnabled(p, n, v) \/ SetEnabledUnsaved(p, n, v)

PluginSpec == PluginInit /\ [][PluginNext]_pluginVars

----------------------------------------------------------------------------
PluginTypeOK ==
    /\ stateFile \in [PluginNames -> States]
    /\ \A p \in Managers : cache[p] = NotRunning \/ cache[p] \in [PluginNames -> States]
    /\ \A p \in Managers : providers[p] \subseteq PluginNames
    /\ saved \subseteq PluginNames
    /\ \A p \in Managers : knows[p] \subseteq PluginNames

\* What was last set for a plugin is what the file holds, unless its own write
\* failed, the file was spoilt, or a process that had neither made nor read the
\* setting has written the file since.  A setting whose write failed is saved by
\* the next write of the process that made it.
SettingsAreKept == \A n \in saved : stateFile[n] = setting[n]
=============================================================================
