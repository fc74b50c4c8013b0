--------------------------- MODULE EntryLifecycle ---------------------------
(***************************************************************************)
(* One config entry: async_setup_entry, async_unload_entry, the update     *)
(* listener and async_remove_entry of __init__.py with async_start and     *)
(* async_stop of CbusRuntime, the stored projects of storage.py, and the   *)
(* flows of config_flow.py that write them.                                *)
(*                                                                         *)
(* Home Assistant runs the operations on an entry one at a time (its setup *)
(* lock), but the flows run beside them, an operation can be interrupted   *)
(* at any await, and the process can be restarted at any moment.  A step   *)
(* is the code between two awaits.                                         *)
(*                                                                         *)
(* Abstracted: a connection is CniConnection, here just held or not; the   *)
(* platforms are loaded and unloaded together or not at all; options are   *)
(* only known as older or not older than the entry's; an upload that       *)
(* cannot be parsed or is of another project shows its form again, which   *)
(* changes nothing.                                                        *)
(***************************************************************************)
EXTENDS Integers

CONSTANTS
  Runtimes,  \* bound: the CbusRuntime objects alive at a time
  Networks,  \* the networks of the project with an enabled CNI
  Projects,  \* parsed project files; a project stands for its source_sha256
  None       \* the value Python calls None

ASSUME NetworksAssumption == Networks # {}
ASSUME NoneAssumption == None \notin Runtimes /\ None \notin Projects

VARIABLES
  status,    \* what the operations have made of the entry: entry.state
  key,       \* entry.data[CONF_PROJECT_KEY]
  listener,  \* _async_update_listener is registered
  disk,      \* the project key of the entry as last written to disk, None if no entry
  store,     \* the projects in storage
  data,      \* hass.data[DOMAIN].get(entry.entry_id)
  entities,  \* the runtime the loaded entities belong to
  held,      \* the networks whose CNI each runtime has a running connection to
  project,   \* runtime.project of the runtime started last
  outdated,  \* the options have changed since that runtime was started
  step,      \* the await the running operation stands at
  after,     \* what follows the unload: nothing, a setup or the removal
  mine,      \* the local variable runtime (or stale_runtime) of that operation
  wanted,    \* the project key that operation has read
  reload,    \* async_reload is waiting for its turn
  flow,      \* where the user's flow stands
  old,       \* self._old_project is not None
  upload,    \* self._project
  abandoned, \* history: runtimes no longer in hass.data whose async_stop was interrupted
  undeleted  \* history: the entry was removed, but a restart found it on disk again

entryVars   == <<status, key, listener>>
diskVars    == <<disk, store, undeleted>>
runtimeVars == <<data, entities, held, project, outdated, abandoned>>
opVars      == <<step, after, mine, wanted>>
flowVars    == <<flow, old, upload>>
vars == <<status, key, listener, disk, store, data, entities, held, project, outdated,
          abandoned, undeleted, step, after, mine, wanted, reload, flow, old, upload>>

Statuses == {"none", "not_loaded", "loaded", "setup_error", "failed_unload", "removed"}
Steps    == {"idle", "loading", "stale", "forward", "cleanup", "cleanup_unload",
             "unload", "unload_stop", "remove"}
Flows    == {"none", "importing", "upload", "confirm", "saving", "failed"}

Exists == status \notin {"none", "removed"}

Init ==
  /\ status = "none" /\ key = None /\ listener = FALSE
  /\ disk = None /\ store = {}
  /\ data = None /\ entities = None
  /\ held = [r \in Runtimes |-> {}]
  /\ project = None /\ outdated = FALSE
  /\ abandoned = {} /\ undeleted = FALSE
  /\ step = "idle" /\ after = "stay" /\ mine = None /\ wanted = None
  /\ reload = FALSE
  /\ flow = "none" /\ old = FALSE /\ upload = None

-----------------------------------------------------------------------------
(* Setting up.                                                             *)

\* The operation returns or raises; Home Assistant notes the outcome.
EndOperation(outcome) ==
  /\ status' = outcome
  /\ step' = "idle" /\ mine' = None /\ wanted' = None /\ after' = "stay"

\* async_setup_entry is called: it reads the project key and awaits the project.
BeginSetup ==
  /\ step' = "loading" /\ wanted' = key /\ mine' = None /\ after' = "stay"

\* A connection to every network with an enabled CNI is created and started.
AsyncStart(r) == held' = [held EXCEPT ![r] = Networks]

\* async_start raises on the way: any of the connections may have been started.
AsyncStartRaises(r) == \E started \in SUBSET Networks : held' = [held EXCEPT ![r] = started]

\* A new runtime is registered and started, which awaits nothing, and the platforms
\* are forwarded to; or starting it raises, and the setup cleans up; or registering the
\* controllers raises, before the try block, and nobody does.
StartRuntime(r) ==
  /\ r \notin {data, mine, entities} \cup abandoned /\ held[r] = {}
  /\ data' = r
  /\ project' = wanted /\ outdated' = FALSE
  /\ \/ /\ AsyncStart(r)
        /\ mine' = r /\ step' = "forward" /\ UNCHANGED <<status, wanted, after>>
     \/ /\ AsyncStartRaises(r)
        /\ mine' = r /\ step' = "cleanup" /\ UNCHANGED <<status, wanted, after>>
     \/ EndOperation("setup_error") /\ UNCHANGED held
  /\ UNCHANGED <<entities, abandoned>>

ProjectMissing ==
  /\ step = "loading" /\ wanted \notin store
  /\ EndOperation("setup_error")
  /\ UNCHANGED <<runtimeVars, diskVars, flowVars, key, listener, reload>>

\* Mutant: nobody looks for a runtime that is left over.
StaleForgotten ==
  /\ step = "loading" /\ wanted \in store
  /\ \E r \in Runtimes : StartRuntime(r)
  /\ UNCHANGED <<diskVars, flowVars, key, listener, reload>>

\* The project is there and no runtime is left over.
NothingStale ==
  /\ step = "loading" /\ wanted \in store /\ data = None
  /\ \E r \in Runtimes : StartRuntime(r)
  /\ UNCHANGED <<diskVars, flowVars, key, listener, reload>>

\* A runtime is left over: it is taken out of hass.data and stopped.
StaleFound ==
  /\ step = "loading" /\ wanted \in store /\ data # None
  /\ step' = "stale" /\ mine' = data /\ data' = None
  /\ UNCHANGED <<entryVars, diskVars, flowVars, entities, held, project, outdated,
                 abandoned, after, wanted, reload>>

StaleStopped ==
  /\ step = "stale" /\ held[mine] = {}
  /\ \E r \in Runtimes : StartRuntime(r)
  /\ UNCHANGED <<diskVars, flowVars, key, listener, reload>>

\* The platforms are loaded; only now is the update listener registered.
ForwardDone ==
  /\ step = "forward" /\ entities = None
  /\ entities' = mine /\ listener' = TRUE
  /\ EndOperation("loaded")
  /\ UNCHANGED <<diskVars, flowVars, data, held, project, outdated, abandoned, key, reload>>

\* Mutant: the failed setup unloads the platforms but does not stop the runtime.
ForwardFailsUnstopped ==
  /\ step = "forward"
  /\ step' = "cleanup_unload"
  /\ UNCHANGED <<entryVars, diskVars, runtimeVars, flowVars, after, mine, wanted, reload>>

\* Setting up a platform raises or is interrupted; entities may exist by then.
ForwardFails ==
  /\ step = "forward"
  /\ step' = "cleanup"
  /\ IF entities = None THEN entities' \in {None, mine} ELSE UNCHANGED entities
  /\ UNCHANGED <<entryVars, diskVars, flowVars, data, held, project, outdated, abandoned,
                 after, mine, wanted, reload>>

CleanupStopped ==
  /\ step = "cleanup" /\ held[mine] = {}
  /\ step' = "cleanup_unload"
  /\ UNCHANGED <<entryVars, diskVars, runtimeVars, flowVars, after, mine, wanted, reload>>

\* The platforms are unloaded, or that fails, which is suppressed.
CleanupUnloaded ==
  /\ step = "cleanup_unload"
  /\ entities' \in {None, entities}
  /\ data' = None
  /\ EndOperation("setup_error")
  /\ UNCHANGED <<diskVars, flowVars, held, project, outdated, abandoned, key, listener, reload>>

\* An interruption is not suppressed: the runtime stays in hass.data.
CleanupInterrupted ==
  /\ step = "cleanup_unload"
  /\ EndOperation("setup_error")
  /\ UNCHANGED <<runtimeVars, diskVars, flowVars, key, listener, reload>>

LoadingInterrupted ==
  /\ step = "loading"
  /\ EndOperation("setup_error")
  /\ UNCHANGED <<runtimeVars, diskVars, flowVars, key, listener, reload>>

-----------------------------------------------------------------------------
(* async_stop: the polling tasks are cancelled and awaited, then the       *)
(* connections are stopped one after the other.                            *)

Stopping == step \in {"stale", "cleanup", "unload_stop"}

StopConnection ==
  /\ Stopping
  /\ \E n \in held[mine] : held' = [held EXCEPT ![mine] = @ \ {n}]
  /\ UNCHANGED <<entryVars, diskVars, opVars, flowVars, data, entities, project, outdated,
                 abandoned, reload>>

\* Cancelled in the gather or inside a stop(): the connections not yet reached
\* keep running, and nothing refers to a runtime already out of hass.data.
StopInterrupted ==
  /\ Stopping
  /\ abandoned' = IF data = mine \/ held[mine] = {} THEN abandoned
                                                  ELSE abandoned \cup {mine}
  /\ EndOperation(IF step = "unload_stop" THEN "failed_unload" ELSE "setup_error")
  /\ UNCHANGED <<diskVars, flowVars, data, entities, held, project, outdated, key, listener,
                 reload>>

-----------------------------------------------------------------------------
(* Unloading and removing.                                                 *)

BeginUnload(follows) ==
  /\ step' = "unload" /\ after' = follows
  /\ UNCHANGED <<mine, wanted>>

BeginRemove ==
  /\ step' = "remove" /\ wanted' = key /\ mine' = None /\ after' = "stay"

\* Mutant: the runtime is taken out of hass.data before the answer is looked at.
UnloadRefusedPops ==
  /\ step = "unload"
  /\ IF after = "remove" THEN status' = "failed_unload" /\ BeginRemove
                         ELSE EndOperation("failed_unload")
  /\ data' = None
  /\ UNCHANGED <<entities, held, project, outdated, abandoned, diskVars, flowVars, key,
                 listener, reload>>

\* The platforms refuse to be unloaded, or that is interrupted.  An entry that
\* is being removed is removed all the same.
UnloadRefused ==
  /\ step = "unload"
  /\ IF after = "remove" THEN status' = "failed_unload" /\ BeginRemove
                         ELSE EndOperation("failed_unload")
  /\ UNCHANGED <<runtimeVars, diskVars, flowVars, key, listener, reload>>

PlatformsUnloaded ==
  /\ step = "unload"
  /\ entities' = None
  /\ mine' = data /\ data' = None
  /\ step' = "unload_stop"
  /\ UNCHANGED <<entryVars, diskVars, flowVars, held, project, outdated, abandoned, after,
                 wanted, reload>>

Unloaded ==
  /\ step = "unload_stop" /\ held[mine] = {}
  /\ listener' = FALSE
  /\ status' = "not_loaded"
  /\ \/ after = "setup"  /\ BeginSetup
     \/ after = "remove" /\ BeginRemove
     \/ after = "stay"   /\ EndOperation("not_loaded")
  /\ UNCHANGED <<runtimeVars, diskVars, flowVars, key, reload>>

\* Mutant: the aborted flow forgets its project while it is saving it.
RemovedForgetsUpload ==
  /\ step = "remove"
  /\ store' = store \ {wanted}
  /\ EndOperation("removed")
  /\ listener' = FALSE
  /\ flow' = (IF flow = "saving" THEN flow ELSE "none")
  /\ old' = FALSE /\ upload' = None
  /\ UNCHANGED <<runtimeVars, disk, undeleted, key, reload>>

\* async_remove_entry has deleted the project, and Home Assistant the entry; a
\* flow on the entry is aborted, unless it is saving at that moment.
Removed ==
  /\ step = "remove"
  /\ store' = store \ {wanted}
  /\ EndOperation("removed")
  /\ listener' = FALSE
  /\ IF flow = "saving" THEN UNCHANGED flowVars
                        ELSE flow' = "none" /\ old' = FALSE /\ upload' = None
  /\ UNCHANGED <<runtimeVars, disk, undeleted, key, reload>>

-----------------------------------------------------------------------------
(* What starts an operation.                                               *)

\* Home Assistant starts, or the user enables the entry.
Setup ==
  /\ step = "idle" /\ status \in {"not_loaded", "setup_error"}
  /\ BeginSetup
  /\ UNCHANGED <<entryVars, diskVars, runtimeVars, flowVars, reload>>

\* The user disables the entry.
Unload ==
  /\ step = "idle" /\ status = "loaded"
  /\ BeginUnload("stay")
  /\ UNCHANGED <<entryVars, diskVars, runtimeVars, flowVars, reload>>

\* A reload that was asked for gets its turn.
Reload ==
  /\ step = "idle" /\ reload
  /\ reload' = FALSE
  /\ \/ status = "loaded" /\ BeginUnload("setup")
     \/ status \in {"not_loaded", "setup_error"} /\ BeginSetup
     \/ status \in {"failed_unload", "removed"} /\ UNCHANGED opVars
  /\ UNCHANGED <<entryVars, diskVars, runtimeVars, flowVars>>

Remove ==
  /\ step = "idle" /\ Exists
  /\ IF status = "loaded" THEN BeginUnload("remove") ELSE BeginRemove
  /\ UNCHANGED <<entryVars, diskVars, runtimeVars, flowVars, reload>>

-----------------------------------------------------------------------------
(* The flows.                                                              *)

\* A project is stored under its own hash.
SaveProject == store' = store \cup {upload}

EndFlow(end) == flow' = end /\ old' = FALSE /\ upload' = None

\* The user confirms the import of a project; the entry does not exist yet.
ImportConfirmed ==
  /\ status = "none" /\ flow = "none"
  /\ \E p \in Projects : upload' = p
  /\ flow' = "importing"
  /\ UNCHANGED <<entryVars, diskVars, runtimeVars, opVars, old, reload>>

\* The project is saved and the entry created; Home Assistant sets it up.
ImportSaved ==
  /\ flow = "importing"
  /\ SaveProject
  /\ key' = upload /\ status' = "not_loaded" /\ reload' = TRUE
  /\ EndFlow("none")
  /\ UNCHANGED <<runtimeVars, opVars, disk, undeleted, listener>>

\* Reconfigure is opened: it loads the stored project, or None.
ReconfigureOpened ==
  /\ Exists /\ flow = "none"
  /\ flow' = "upload" /\ old' = (key \in store)
  /\ UNCHANGED <<entryVars, diskVars, runtimeVars, opVars, upload, reload>>

\* A project file is uploaded.  The confirmation asserts that there is an old
\* project to compare it with.
ProjectUploaded ==
  /\ flow = "upload"
  /\ \E p \in Projects :
       IF old \/ key \in store
       THEN flow' = "confirm" /\ old' = TRUE /\ upload' = p
       ELSE EndFlow("failed")
  /\ UNCHANGED <<entryVars, diskVars, runtimeVars, opVars, reload>>

ReconfigureConfirmed ==
  /\ flow = "confirm"
  /\ flow' = "saving"
  /\ UNCHANGED <<entryVars, diskVars, runtimeVars, opVars, old, upload, reload>>

\* Mutant: the entry is updated, the reload left to the update listener.
ReconfigureSavedQuietly ==
  /\ flow = "saving"
  /\ SaveProject
  /\ IF Exists THEN key' = upload /\ reload' = (reload \/ listener)
               ELSE UNCHANGED <<key, reload>>
  /\ EndFlow("none")
  /\ UNCHANGED <<runtimeVars, opVars, disk, undeleted, status, listener>>

\* Mutant: the project that is replaced is deleted at once.
ReconfigureSavedTidily ==
  /\ flow = "saving"
  /\ store' = (store \ {key}) \cup {upload}
  /\ IF Exists THEN key' = upload /\ reload' = TRUE ELSE UNCHANGED <<key, reload>>
  /\ EndFlow("none")
  /\ UNCHANGED <<runtimeVars, opVars, disk, undeleted, status, listener>>

\* The project is saved; the entry is updated and a reload scheduled, unless
\* the entry is gone, which raises.
ReconfigureSaved ==
  /\ flow = "saving"
  /\ SaveProject
  /\ IF Exists THEN key' = upload /\ reload' = TRUE ELSE UNCHANGED <<key, reload>>
  /\ EndFlow("none")
  /\ UNCHANGED <<runtimeVars, opVars, disk, undeleted, status, listener>>

\* The user closes the dialog.
FlowClosed ==
  /\ flow \in {"upload", "confirm", "failed"}
  /\ EndFlow("none")
  /\ UNCHANGED <<entryVars, diskVars, runtimeVars, opVars, reload>>

\* The update listener, if there is one, asks for a reload.
UpdateListener == reload' = (reload \/ listener)

\* An options flow ends: the options of the entry are replaced.
OptionsChanged ==
  /\ Exists
  /\ outdated' = TRUE
  /\ UpdateListener
  /\ UNCHANGED <<entryVars, diskVars, opVars, flowVars, data, entities, held, project,
                 abandoned>>

-----------------------------------------------------------------------------
(* The process and its disk.                                               *)

\* Home Assistant writes its entries some time after they have changed.
EntrySaved ==
  /\ disk' = IF Exists THEN key ELSE None
  /\ disk' # disk
  /\ UNCHANGED <<entryVars, runtimeVars, opVars, flowVars, store, undeleted, reload>>

\* Home Assistant stops, crashes or not, and starts again: only the disk is left.
Restart ==
  /\ status' = (IF disk = None THEN "none" ELSE "not_loaded")
  /\ key' = disk /\ listener' = FALSE /\ reload' = FALSE
  /\ data' = None /\ entities' = None
  /\ held' = [r \in Runtimes |-> {}]
  /\ project' = None /\ outdated' = FALSE /\ abandoned' = {}
  /\ step' = "idle" /\ after' = "stay" /\ mine' = None /\ wanted' = None
  /\ EndFlow("none")
  /\ undeleted' = (disk # None /\ (undeleted \/ status = "removed"))
  /\ UNCHANGED <<disk, store>>

Next ==
  \/ ProjectMissing \/ NothingStale \/ StaleFound \/ StaleStopped
  \/ ForwardDone \/ ForwardFails
  \/ CleanupStopped \/ CleanupUnloaded \/ CleanupInterrupted \/ LoadingInterrupted
  \/ StopConnection \/ StopInterrupted
  \/ UnloadRefused \/ PlatformsUnloaded \/ Unloaded \/ Removed
  \/ Setup \/ Unload \/ Reload \/ Remove
  \/ ImportConfirmed \/ ImportSaved
  \/ ReconfigureOpened \/ ProjectUploaded \/ ReconfigureConfirmed \/ ReconfigureSaved
  \/ FlowClosed \/ OptionsChanged
  \/ EntrySaved \/ Restart

Spec == Init /\ [][Next]_vars

-----------------------------------------------------------------------------
(* Properties.                                                             *)

TypeOK ==
  /\ status \in Statuses
  /\ key \in Projects \cup {None} /\ disk \in Projects \cup {None}
  /\ wanted \in Projects \cup {None} /\ upload \in Projects \cup {None}
  /\ listener \in BOOLEAN /\ reload \in BOOLEAN /\ old \in BOOLEAN
  /\ store \subseteq Projects
  /\ data \in Runtimes \cup {None} /\ entities \in Runtimes \cup {None}
  /\ mine \in Runtimes \cup {None}
  /\ held \in [Runtimes -> SUBSET Networks]
  /\ project \in Projects \cup {None}
  /\ outdated \in BOOLEAN /\ undeleted \in BOOLEAN /\ abandoned \subseteq Runtimes
  /\ step \in Steps /\ after \in {"stay", "setup", "remove"}
  /\ flow \in Flows

\* No two runtimes compete for the single client slot of a CNI, through failed
\* setups, interrupted cleanups, reloads and reconfigurations; the only way out
\* is an async_stop interrupted after its runtime has left hass.data.
OneOwner ==
  \A r1, r2 \in Runtimes \ abandoned :
    r1 # r2 => held[r1] \cap held[r2] = {}

\* A runtime that has a connection can be reached: through hass.data, or by the
\* operation that is about to stop it.
NoOrphan ==
  \A r \in Runtimes \ abandoned : held[r] # {} => r \in {data, mine}

\* As long as an entry counts as loaded, an unload that was refused included, its
\* entities belong to the registered runtime and that has all its connections.
LoadedIsServed ==
  \/ status = "loaded" /\ step \in {"idle", "unload"}
  \/ status = "failed_unload" /\ step = "idle" /\ entities # None
  => data # None /\ entities = data /\ held[data] = Networks /\ listener

Quiet == status = "loaded" /\ step = "idle" /\ ~reload

\* Once nothing is under way the runtime works with the entry's project, whenever
\* during a setup, an unload or a reload the entry was reconfigured.
ProjectCurrent == Quiet => project = key

\* The project of the entry can be loaded, also by the entry a restart at any
\* moment would find on disk, which may be older than the entry and the store.
\* Only a removal that a restart undoes leaves an entry without project.
ProjectStored ==
  status # "removed" /\ ~undeleted => {key, disk} \subseteq store \cup {None}

\* Every change of the options is followed by a reload, so once nothing is under
\* way the connections are those of the entry's options.
OptionsCurrent == Quiet => ~outdated

\* An entry whose project is missing can be reconfigured, as its setup error says.
ReconfigureRecovers == flow # "failed"
=============================================================================
