------------------------ MODULE EntryLifecycleProofs ------------------------
(***************************************************************************)
(* Theorems about EntryLifecycle, for any runtimes, networks and projects. *)
(***************************************************************************)
EXTENDS EntryLifecycle, TLAPS

\* Where the running operation has its runtime: only while it starts or stops one,
\* in hass.data as well from the start until the failed setup is cleaned up, and
\* there no longer once the stale or unloaded runtime is being stopped.
Phase ==
  /\ step \in {"idle", "loading", "unload", "remove"} => mine = None
  /\ step \in {"forward", "cleanup", "cleanup_unload"} => mine # None /\ data = mine
  /\ step \in {"stale", "unload_stop"} => mine # None /\ data = None
  /\ step = "unload" \/ (step = "idle" /\ status = "loaded") => data # None

\* A flow that saves has something to save.
FlowHasUpload == flow \in {"importing", "confirm", "saving"} => upload # None

TypeInv == TypeOK /\ Phase /\ FlowHasUpload

LEMMA TypeInvInit == Init => TypeInv
BY NoneAssumption DEF Init, TypeInv, TypeOK, Phase, FlowHasUpload, Statuses, Steps, Flows

\* The types of what a new runtime and the end of a flow assign.
LEMMA StartRuntimeTyped ==
  ASSUME TypeInv, NEW r \in Runtimes, StartRuntime(r)
  PROVE  /\ data' \in Runtimes
         /\ held' \in [Runtimes -> SUBSET Networks]
         /\ project' \in Projects \cup {None} /\ outdated' \in BOOLEAN
         /\ \/ /\ mine' = data' /\ step' \in {"forward", "cleanup"}
               /\ UNCHANGED <<status, wanted, after>>
            \/ EndOperation("setup_error")
         /\ UNCHANGED <<entities, abandoned>>
BY DEF StartRuntime, AsyncStart, AsyncStartRaises, TypeInv, TypeOK

LEMMA EndFlowTyped ==
  ASSUME NEW end \in Flows, EndFlow(end)
  PROVE  old' \in BOOLEAN /\ flow' = end /\ upload' = None
BY DEF EndFlow

LEMMA TypeInvNext == TypeInv /\ [Next]_vars => TypeInv'
<1> SUFFICES ASSUME TypeInv, [Next]_vars PROVE TypeInv'
  OBVIOUS
<1> USE NoneAssumption DEF TypeInv, TypeOK, Phase, FlowHasUpload, Statuses, Steps, Flows,
      entryVars, diskVars, runtimeVars, opVars, flowVars, EndOperation, EndFlow
<1>1. CASE ProjectMissing
  BY <1>1 DEF ProjectMissing
<1>2. CASE NothingStale
  <2>1. PICK r \in Runtimes : StartRuntime(r)
    BY <1>2 DEF NothingStale
  <2> QED  BY <1>2, <2>1, StartRuntimeTyped DEF NothingStale
<1>3. CASE StaleFound
  BY <1>3 DEF StaleFound
<1>4. CASE StaleStopped
  <2>1. PICK r \in Runtimes : StartRuntime(r)
    BY <1>4 DEF StaleStopped
  <2> QED  BY <1>4, <2>1, StartRuntimeTyped DEF StaleStopped
<1>5. CASE ForwardDone
  BY <1>5 DEF ForwardDone
<1>6. CASE ForwardFails
  BY <1>6 DEF ForwardFails
<1>7. CASE CleanupStopped
  BY <1>7 DEF CleanupStopped
<1>8. CASE CleanupUnloaded
  BY <1>8 DEF CleanupUnloaded
<1>9. CASE CleanupInterrupted
  BY <1>9 DEF CleanupInterrupted
<1>10. CASE LoadingInterrupted
  BY <1>10 DEF LoadingInterrupted
<1>11. CASE StopConnection
  BY <1>11 DEF StopConnection, Stopping
<1>12. CASE StopInterrupted
  BY <1>12 DEF StopInterrupted, Stopping
<1>13. CASE UnloadRefused
  BY <1>13 DEF UnloadRefused, BeginRemove
<1>14. CASE PlatformsUnloaded
  BY <1>14 DEF PlatformsUnloaded
<1>15. CASE Unloaded
  <2>1. /\ status' \in Statuses /\ listener' \in BOOLEAN /\ mine' = None
        /\ wanted' \in Projects \cup {None} /\ after' = "stay"
        /\ step' \in {"idle", "loading", "remove"}
    BY <1>15 DEF Unloaded, BeginSetup, BeginRemove
  <2>2. status' # "loaded"
    BY <1>15 DEF Unloaded
  <2> QED  BY <1>15, <2>1, <2>2 DEF Unloaded
<1>16. CASE Removed
  BY <1>16, ZenonT(60) DEF Removed
<1>17. CASE Setup
  BY <1>17 DEF Setup, BeginSetup
<1>18. CASE Unload
  BY <1>18 DEF Unload, BeginUnload
<1>19. CASE Reload
  <2>1. reload' \in BOOLEAN
    BY <1>19 DEF Reload
  <2>2. CASE status = "loaded" /\ BeginUnload("setup")
    BY <1>19, <2>1, <2>2 DEF Reload, BeginUnload
  <2>3. CASE BeginSetup
    BY <1>19, <2>1, <2>3 DEF Reload, BeginSetup
  <2>4. CASE UNCHANGED opVars
    BY <1>19, <2>1, <2>4 DEF Reload
  <2> QED  BY <1>19, <2>2, <2>3, <2>4 DEF Reload
<1>20. CASE Remove
  BY <1>20 DEF Remove, BeginUnload, BeginRemove
<1>21. CASE ImportConfirmed
  BY <1>21 DEF ImportConfirmed
<1>22. CASE ImportSaved
  <2>1. upload \in Projects /\ reload' \in BOOLEAN
    BY <1>22 DEF ImportSaved, SaveProject
  <2>2. old' \in BOOLEAN /\ flow' = "none" /\ upload' = None
    BY <1>22, EndFlowTyped DEF ImportSaved, SaveProject
  <2> QED  BY <1>22, <2>1, <2>2 DEF ImportSaved, SaveProject
<1>23. CASE ReconfigureOpened
  BY <1>23 DEF ReconfigureOpened
<1>24. CASE ProjectUploaded
  <2>1. PICK p \in Projects :
          IF old \/ key \in store
          THEN flow' = "confirm" /\ old' = TRUE /\ upload' = p
          ELSE EndFlow("failed")
    BY <1>24 DEF ProjectUploaded
  <2>2. /\ old' \in BOOLEAN /\ flow' \in Flows /\ upload' \in Projects \cup {None}
        /\ FlowHasUpload'
    BY <2>1
  <2> QED  BY <1>24, <2>2 DEF ProjectUploaded
<1>25. CASE ReconfigureConfirmed
  BY <1>25 DEF ReconfigureConfirmed
<1>26. CASE ReconfigureSaved
  <2>1. upload \in Projects
    BY <1>26 DEF ReconfigureSaved, SaveProject
  <2>2. reload' \in BOOLEAN /\ key' \in Projects \cup {None}
    BY <1>26, <2>1 DEF ReconfigureSaved, SaveProject
  <2>3. old' \in BOOLEAN /\ flow' = "none" /\ upload' = None
    BY <1>26, EndFlowTyped DEF ReconfigureSaved, SaveProject
  <2> QED  BY <1>26, <2>1, <2>2, <2>3 DEF ReconfigureSaved, SaveProject
<1>27. CASE FlowClosed
  <2>1. old' \in BOOLEAN /\ flow' = "none" /\ upload' = None
    BY <1>27, EndFlowTyped DEF FlowClosed
  <2> QED  BY <1>27, <2>1 DEF FlowClosed
<1>28. CASE OptionsChanged
  BY <1>28 DEF OptionsChanged, UpdateListener
<1>29. CASE EntrySaved
  BY <1>29 DEF EntrySaved
<1>30. CASE Restart
  BY <1>30 DEF Restart
<1>31. CASE UNCHANGED vars
  BY <1>31 DEF vars
<1>32. QED
  BY <1>1, <1>2, <1>3, <1>4, <1>5, <1>6, <1>7, <1>8, <1>9, <1>10, <1>11, <1>12, <1>13,
     <1>14, <1>15, <1>16, <1>17, <1>18, <1>19, <1>20, <1>21, <1>22, <1>23, <1>24, <1>25,
     <1>26, <1>27, <1>28, <1>29, <1>30, <1>31 DEF Next

\* Every reachable state is well typed.  It takes Phase to show that: an unload finds
\* its runtime in hass.data, and None is never started or stopped.
THEOREM TypeCorrect == Spec => []TypeOK
<1>1. Spec => []TypeInv
  BY TypeInvInit, TypeInvNext, PTL DEF Spec
<1>2. TypeInv => TypeOK
  BY DEF TypeInv
<1> QED  BY <1>1, <1>2, PTL

-----------------------------------------------------------------------------
(* Who holds the CNIs.                                                     *)

\* The steps of the flows and of the disk, beside the running operation.
Beside ==
  \/ ImportConfirmed \/ ImportSaved
  \/ ReconfigureOpened \/ ProjectUploaded \/ ReconfigureConfirmed \/ ReconfigureSaved
  \/ FlowClosed \/ OptionsChanged \/ EntrySaved

LEMMA BesideKeeps ==
  ASSUME Beside
  PROVE  UNCHANGED <<data, entities, held, project, abandoned, step, after, mine, wanted,
                     listener>>
BY DEF Beside, ImportConfirmed, ImportSaved, ReconfigureOpened, ProjectUploaded,
       ReconfigureConfirmed, ReconfigureSaved, FlowClosed, OptionsChanged, EntrySaved,
       entryVars, runtimeVars, opVars

\* A runtime is taken out of hass.data after a failed setup only when it holds nothing.
OwnInv ==
  /\ NoOrphan
  /\ step = "cleanup_unload" => held[mine] = {}

LEMMA OwnInvInit == Init => OwnInv
BY DEF Init, OwnInv, NoOrphan

\* The new runtime is then the only one that holds anything.
LEMMA StartRuntimeOwns ==
  ASSUME TypeInv, OwnInv, NEW r \in Runtimes, StartRuntime(r), data = None,
         mine = None \/ held[mine] = {}
  PROVE  OwnInv'
<1>1. ASSUME NEW q \in Runtimes \ abandoned, q # r PROVE held'[q] = {}
  <2>1. held'[q] = held[q]
    BY <1>1 DEF StartRuntime, AsyncStart, AsyncStartRaises, TypeInv, TypeOK
  <2>2. CASE q = mine
    BY <1>1, <2>1, <2>2, NoneAssumption
  <2>3. CASE q # mine
    BY <1>1, <2>1, <2>3, NoneAssumption DEF OwnInv, NoOrphan
  <2> QED  BY <2>2, <2>3
<1>2. data' = r /\ step' # "cleanup_unload" /\ abandoned' = abandoned
  BY DEF StartRuntime, EndOperation
<1> QED  BY <1>1, <1>2 DEF OwnInv, NoOrphan

LEMMA OwnInvNext ==
  ASSUME TypeInv, OwnInv, [Next]_vars
  PROVE  OwnInv'
<1> USE NoneAssumption DEF OwnInv, NoOrphan, TypeInv, Phase, entryVars, runtimeVars, opVars,
      EndOperation
<1>1. CASE ProjectMissing \/ LoadingInterrupted
  BY <1>1 DEF ProjectMissing, LoadingInterrupted
<1>2. CASE NothingStale
  BY <1>2, StartRuntimeOwns DEF NothingStale
<1>3. CASE StaleFound
  BY <1>3 DEF StaleFound
<1>4. CASE StaleStopped
  BY <1>4, StartRuntimeOwns DEF StaleStopped
<1>5. CASE ForwardDone \/ ForwardFails
  BY <1>5 DEF ForwardDone, ForwardFails
<1>6. CASE CleanupStopped
  BY <1>6 DEF CleanupStopped
<1>7. CASE CleanupUnloaded \/ CleanupInterrupted
  BY <1>7 DEF CleanupUnloaded, CleanupInterrupted
<1>8. CASE StopConnection
  <2>1. mine \in Runtimes
    BY <1>8 DEF StopConnection, Stopping, TypeOK
  <2>2. \A r \in Runtimes : held'[r] \subseteq held[r]
    BY <1>8, <2>1 DEF StopConnection, TypeOK
  <2> QED  BY <1>8, <2>2 DEF StopConnection, Stopping
<1>9. CASE StopInterrupted
  BY <1>9 DEF StopInterrupted, Stopping
<1>10. CASE UnloadRefused
  BY <1>10 DEF UnloadRefused, BeginRemove
<1>11. CASE PlatformsUnloaded
  BY <1>11 DEF PlatformsUnloaded
<1>12. CASE Unloaded
  BY <1>12 DEF Unloaded, BeginSetup, BeginRemove
<1>13. CASE Removed
  BY <1>13 DEF Removed
<1>14. CASE Setup \/ Unload
  BY <1>14 DEF Setup, Unload, BeginSetup, BeginUnload
<1>15. CASE Reload \/ Remove
  BY <1>15 DEF Reload, Remove, BeginSetup, BeginUnload, BeginRemove
<1>16. CASE Beside
  BY <1>16, BesideKeeps
<1>17. CASE Restart
  BY <1>17 DEF Restart
<1>18. CASE UNCHANGED vars
  BY <1>18 DEF vars
<1> QED
  BY <1>1, <1>2, <1>3, <1>4, <1>5, <1>6, <1>7, <1>8, <1>9, <1>10, <1>11, <1>12, <1>13,
     <1>14, <1>15, <1>16, <1>17, <1>18 DEF Next, Beside

LEMMA Owned == Spec => [](TypeInv /\ OwnInv)
<1>1. Init => TypeInv /\ OwnInv
  BY TypeInvInit, OwnInvInit
<1>2. TypeInv /\ OwnInv /\ [Next]_vars => (TypeInv /\ OwnInv)'
  BY TypeInvNext, OwnInvNext
<1> QED  BY <1>1, <1>2, PTL DEF Spec

\* A runtime that holds a CNI is the registered one or the one being stopped, unless
\* its stop was interrupted after it had left hass.data.
THEOREM NothingIsOrphaned == Spec => []NoOrphan
<1>1. TypeInv /\ OwnInv => NoOrphan
  BY DEF OwnInv
<1> QED  BY Owned, <1>1, PTL

\* With the same exception, no two runtimes hold a connection to the same CNI: where
\* an operation has a runtime besides the registered one, none is registered.
THEOREM OneOwnerAtATime == Spec => []OneOwner
<1>1. TypeInv /\ OwnInv => OneOwner
  <2> SUFFICES ASSUME TypeInv, OwnInv, NEW r1 \in Runtimes \ abandoned,
                      NEW r2 \in Runtimes \ abandoned, r1 # r2
               PROVE  held[r1] \cap held[r2] = {}
    BY DEF OneOwner
  <2>1. mine = None \/ data = None \/ data = mine
    BY DEF TypeInv, TypeOK, Phase, Steps
  <2>2. held[r1] = {} \/ held[r2] = {}
    BY <2>1, NoneAssumption DEF OwnInv, NoOrphan
  <2> QED  BY <2>2
<1> QED  BY Owned, <1>1, PTL

-----------------------------------------------------------------------------
(* The stored project of the entry.                                        *)

\* Operations run on an entry that exists; an import runs while there is none.
StoredInv ==
  /\ ProjectStored
  /\ status \in {"none", "removed"} => step = "idle"
  /\ flow = "importing" => status = "none"

LEMMA StoredInvInit == Init => StoredInv
BY DEF Init, StoredInv, ProjectStored

LEMMA StoredInvNext ==
  ASSUME TypeInv, StoredInv, [Next]_vars
  PROVE  StoredInv'
<1> USE DEF StoredInv, ProjectStored, entryVars, diskVars, opVars, flowVars, EndOperation,
      EndFlow, Exists
<1>1. CASE ProjectMissing \/ LoadingInterrupted
  BY <1>1 DEF ProjectMissing, LoadingInterrupted
<1>2. CASE NothingStale \/ StaleStopped
  BY <1>2 DEF NothingStale, StaleStopped, StartRuntime
<1>3. CASE StaleFound
  BY <1>3 DEF StaleFound
<1>4. CASE ForwardDone \/ ForwardFails
  BY <1>4 DEF ForwardDone, ForwardFails
<1>5. CASE CleanupStopped \/ CleanupUnloaded \/ CleanupInterrupted
  BY <1>5 DEF CleanupStopped, CleanupUnloaded, CleanupInterrupted
<1>6. CASE StopConnection \/ StopInterrupted
  BY <1>6 DEF StopConnection, StopInterrupted, Stopping
<1>7. CASE UnloadRefused \/ PlatformsUnloaded
  BY <1>7 DEF UnloadRefused, PlatformsUnloaded, BeginRemove
<1>8. CASE Unloaded
  BY <1>8 DEF Unloaded, BeginSetup, BeginRemove
<1>9. CASE Removed
  BY <1>9 DEF Removed
<1>10. CASE Setup \/ Unload
  BY <1>10 DEF Setup, Unload, BeginSetup, BeginUnload
<1>11. CASE Reload \/ Remove
  BY <1>11 DEF Reload, Remove, BeginSetup, BeginUnload, BeginRemove
<1>12. CASE ImportConfirmed \/ ReconfigureOpened \/ ReconfigureConfirmed \/ FlowClosed
  BY <1>12 DEF ImportConfirmed, ReconfigureOpened, ReconfigureConfirmed, FlowClosed
<1>13. CASE ImportSaved
  BY <1>13 DEF ImportSaved, SaveProject
<1>14. CASE ProjectUploaded
  BY <1>14 DEF ProjectUploaded
<1>15. CASE ReconfigureSaved
  BY <1>15 DEF ReconfigureSaved, SaveProject
<1>16. CASE OptionsChanged
  BY <1>16 DEF OptionsChanged, UpdateListener
<1>17. CASE EntrySaved
  BY <1>17 DEF EntrySaved
<1>18. CASE Restart
  BY <1>18 DEF Restart
<1>19. CASE UNCHANGED vars
  BY <1>19 DEF vars
<1> QED
  BY <1>1, <1>2, <1>3, <1>4, <1>5, <1>6, <1>7, <1>8, <1>9, <1>10, <1>11, <1>12, <1>13,
     <1>14, <1>15, <1>16, <1>17, <1>18, <1>19 DEF Next

\* The project of the entry in memory, and of the one a restart would find on disk, is
\* in storage, unless a restart brings back an entry that was being removed.
THEOREM ProjectsAreKept == Spec => []ProjectStored
<1>1. Init => TypeInv /\ StoredInv
  BY TypeInvInit, StoredInvInit
<1>2. TypeInv /\ StoredInv /\ [Next]_vars => (TypeInv /\ StoredInv)'
  BY TypeInvNext, StoredInvNext
<1>3. StoredInv => ProjectStored
  BY DEF StoredInv
<1> QED  BY <1>1, <1>2, <1>3, PTL DEF Spec

-----------------------------------------------------------------------------
(* What a loaded entry has.                                                *)

\* The entities are unloaded before their runtime leaves hass.data, and a setup only
\* succeeds with the runtime it has started, whose connections all run.
ServedInv ==
  /\ LoadedIsServed
  /\ status = "loaded" => step \in {"idle", "unload", "unload_stop"}
  /\ step = "unload" => status = "loaded"
  /\ step = "forward" => held[mine] = Networks
  /\ step = "unload_stop" => entities = None

LEMMA ServedInvInit == Init => ServedInv
BY DEF Init, ServedInv, LoadedIsServed

LEMMA StartRuntimeServes ==
  ASSUME TypeInv, ServedInv, NEW r \in Runtimes, StartRuntime(r),
         step \in {"loading", "stale"}
  PROVE  ServedInv'
<1>1. step' = "forward" => held'[mine'] = Networks
  BY DEF StartRuntime, AsyncStart, EndOperation, TypeInv, TypeOK
<1>2. /\ step' \in {"forward", "cleanup", "idle"} /\ status' \in {status, "setup_error"}
  BY DEF StartRuntime, EndOperation
<1>3. status # "loaded"
  BY DEF ServedInv
<1>4. step' = "idle" => status' = "setup_error"
  BY DEF StartRuntime, EndOperation
<1> QED  BY <1>1, <1>2, <1>3, <1>4 DEF ServedInv, LoadedIsServed

LEMMA ServedInvNext ==
  ASSUME TypeInv, StoredInv, ServedInv, [Next]_vars
  PROVE  ServedInv'
<1> USE NoneAssumption DEF ServedInv, LoadedIsServed, TypeInv, Phase, entryVars, runtimeVars,
      opVars, EndOperation
<1>1. CASE ProjectMissing \/ LoadingInterrupted
  BY <1>1 DEF ProjectMissing, LoadingInterrupted
<1>2. CASE NothingStale
  BY <1>2, StartRuntimeServes DEF NothingStale
<1>3. CASE StaleFound
  BY <1>3 DEF StaleFound
<1>4. CASE StaleStopped
  BY <1>4, StartRuntimeServes DEF StaleStopped
<1>5. CASE ForwardDone
  BY <1>5 DEF ForwardDone
<1>6. CASE ForwardFails \/ CleanupStopped
  BY <1>6 DEF ForwardFails, CleanupStopped
<1>7. CASE CleanupUnloaded \/ CleanupInterrupted
  BY <1>7 DEF CleanupUnloaded, CleanupInterrupted
<1>8. CASE StopConnection
  BY <1>8 DEF StopConnection, Stopping
<1>9. CASE StopInterrupted
  BY <1>9 DEF StopInterrupted, Stopping
<1>10. CASE UnloadRefused
  BY <1>10 DEF UnloadRefused, BeginRemove
<1>11. CASE PlatformsUnloaded
  BY <1>11 DEF PlatformsUnloaded
<1>12. CASE Unloaded
  BY <1>12 DEF Unloaded, BeginSetup, BeginRemove
<1>13. CASE Removed
  BY <1>13 DEF Removed
<1>14. CASE Setup \/ Unload
  BY <1>14 DEF Setup, Unload, BeginSetup, BeginUnload
<1>15. CASE Reload \/ Remove
  BY <1>15 DEF Reload, Remove, BeginSetup, BeginUnload, BeginRemove
<1>16. CASE ImportSaved
  BY <1>16 DEF ImportSaved, SaveProject, StoredInv
<1>17. CASE Beside /\ ~ImportSaved
  <2>1. status' = status
    BY <1>17 DEF Beside, ImportConfirmed, ReconfigureOpened, ProjectUploaded,
       ReconfigureConfirmed, ReconfigureSaved, FlowClosed, OptionsChanged, EntrySaved
  <2> QED  BY <1>17, <2>1, BesideKeeps
<1>18. CASE Restart
  BY <1>18 DEF Restart
<1>19. CASE UNCHANGED vars
  BY <1>19 DEF vars
<1> QED
  BY <1>1, <1>2, <1>3, <1>4, <1>5, <1>6, <1>7, <1>8, <1>9, <1>10, <1>11, <1>12, <1>13,
     <1>14, <1>15, <1>16, <1>17, <1>18, <1>19 DEF Next, Beside

\* A loaded entry, and one whose unload was refused, has its runtime, the entities of
\* that runtime and all of its connections.
THEOREM LoadedEntryIsServed == Spec => []LoadedIsServed
<1>1. Init => TypeInv /\ StoredInv /\ ServedInv
  BY TypeInvInit, StoredInvInit, ServedInvInit
<1>2. TypeInv /\ StoredInv /\ ServedInv /\ [Next]_vars => (TypeInv /\ StoredInv /\ ServedInv)'
  BY TypeInvNext, StoredInvNext, ServedInvNext
<1>3. ServedInv => LoadedIsServed
  BY DEF ServedInv
<1> QED  BY <1>1, <1>2, <1>3, PTL DEF Spec

-----------------------------------------------------------------------------
(* The project of a loaded entry.                                          *)

\* From the moment a setup reads the project key, it works with the entry's project or
\* a reload is waiting.
CurrentInv ==
  /\ ProjectCurrent
  /\ step \in {"loading", "stale"} => reload \/ wanted = key
  /\ step = "forward" => reload \/ project = key

LEMMA CurrentInvInit == Init => CurrentInv
BY DEF Init, CurrentInv, ProjectCurrent, Quiet

LEMMA CurrentInvNext ==
  ASSUME TypeInv, CurrentInv, [Next]_vars
  PROVE  CurrentInv'
<1> USE DEF CurrentInv, ProjectCurrent, Quiet, entryVars, runtimeVars, opVars, EndOperation
<1>1. CASE ProjectMissing \/ LoadingInterrupted
  BY <1>1 DEF ProjectMissing, LoadingInterrupted
<1>2. CASE NothingStale \/ StaleStopped
  BY <1>2 DEF NothingStale, StaleStopped, StartRuntime
<1>3. CASE StaleFound
  BY <1>3 DEF StaleFound
<1>4. CASE ForwardDone \/ ForwardFails
  BY <1>4 DEF ForwardDone, ForwardFails
<1>5. CASE CleanupStopped \/ CleanupUnloaded \/ CleanupInterrupted
  BY <1>5 DEF CleanupStopped, CleanupUnloaded, CleanupInterrupted
<1>6. CASE StopConnection \/ StopInterrupted
  BY <1>6 DEF StopConnection, StopInterrupted, Stopping
<1>7. CASE UnloadRefused \/ PlatformsUnloaded
  BY <1>7 DEF UnloadRefused, PlatformsUnloaded, BeginRemove
<1>8. CASE Unloaded
  BY <1>8 DEF Unloaded, BeginSetup, BeginRemove
<1>9. CASE Removed
  BY <1>9 DEF Removed
<1>10. CASE Setup \/ Unload
  BY <1>10 DEF Setup, Unload, BeginSetup, BeginUnload
<1>11. CASE Reload \/ Remove
  BY <1>11 DEF Reload, Remove, BeginSetup, BeginUnload, BeginRemove
<1>12. CASE ImportSaved
  BY <1>12 DEF ImportSaved, SaveProject
<1>13. CASE ReconfigureSaved
  BY <1>13 DEF ReconfigureSaved, SaveProject
<1>14. CASE Beside /\ ~ImportSaved /\ ~ReconfigureSaved
  <2>1. status' = status /\ key' = key
    BY <1>14 DEF Beside, ImportConfirmed, ReconfigureOpened, ProjectUploaded,
       ReconfigureConfirmed, FlowClosed, OptionsChanged, EntrySaved
  <2>2. CASE OptionsChanged
    BY <1>14, <2>1, <2>2, BesideKeeps DEF OptionsChanged, UpdateListener
  <2>3. CASE ~OptionsChanged
    <3>1. reload' = reload
      BY <1>14, <2>3 DEF Beside, ImportConfirmed, ReconfigureOpened, ProjectUploaded,
         ReconfigureConfirmed, FlowClosed, EntrySaved
    <3> QED  BY <1>14, <2>1, <3>1, BesideKeeps
  <2> QED  BY <2>2, <2>3
<1>15. CASE Restart
  BY <1>15 DEF Restart
<1>16. CASE UNCHANGED vars
  BY <1>16 DEF vars
<1> QED
  BY <1>1, <1>2, <1>3, <1>4, <1>5, <1>6, <1>7, <1>8, <1>9, <1>10, <1>11, <1>12, <1>13,
     <1>14, <1>15, <1>16 DEF Next, Beside

\* A reconfiguration takes effect, at whatever moment of a setup, unload or reload the
\* entry is updated: once nothing is under way the runtime has the entry's project.
THEOREM ReconfigurationsTakeEffect == Spec => []ProjectCurrent
<1>1. Init => TypeInv /\ CurrentInv
  BY TypeInvInit, CurrentInvInit
<1>2. TypeInv /\ CurrentInv /\ [Next]_vars => (TypeInv /\ CurrentInv)'
  BY TypeInvNext, CurrentInvNext
<1>3. CurrentInv => ProjectCurrent
  BY DEF CurrentInv
<1> QED  BY <1>1, <1>2, <1>3, PTL DEF Spec
=============================================================================
