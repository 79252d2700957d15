------------------------ MODULE SessionManagerProofs ------------------------
(* Proofs about SessionManager, for any tasks, bound and disruptions, and  *)
(* about MCSessionSafe: what the manager keeps and promises while every    *)
(* step of a launch succeeds.                                              *)
EXTENDS MCSessionSafe, TLAPS

USE DEF guardVars, taskVars, wdVars, sideVars, hostVars

\* reset_session leaves a well-typed guard.
LEMMA ResetType == TypeOK /\ ResetSession => GuardTypeOK'
<1>. SUFFICES ASSUME TypeOK, ResetSession PROVE GuardTypeOK'
  OBVIOUS
<1>. USE DEF TypeOK, GuardTypeOK, ResetSession, NoGen
<1>1. stop' \in Nat \ {NoGen}
  OBVIOUS
<1>2. slot' \in [stage : Stage, gen : Nat]
  BY DEF Empty, Stage
<1>3. keysTx' \in Nat /\ notify' \in Nat /\ watcher' \in Nat
  OBVIOUS
<1>4. ctx' \in BOOLEAN
  OBVIOUS
<1>. QED
  BY <1>1, <1>2, <1>3, <1>4

\* The type invariant is inductive.
LEMMA TypeStep == TypeOK /\ [Next]_vars => TypeOK'
<1>. SUFFICES ASSUME TypeOK, [Next]_vars PROVE TypeOK'
  OBVIOUS
<1>. USE ConstantsAssumption DEF TypeOK, GuardTypeOK, TaskTypeOK, RestTypeOK, GoTo,
         Release, StopUnitIf, Spawn, AbortWatcher, Empty, NoGen, PC, Stage,
         Threads, Thread
<1>1. ASSUME NEW t \in Tasks, InitializeSession(t) PROVE TypeOK'
  BY <1>1 DEF InitializeSession
<1>2. ASSUME NEW t \in Tasks, InitializeFails(t) PROVE TypeOK'
  BY <1>2 DEF InitializeFails
<1>3. ASSUME NEW t \in Tasks, InitializeFailsAfterInput(t) PROVE TypeOK'
  BY <1>3 DEF InitializeFailsAfterInput
<1>4. ASSUME NEW t \in Tasks, InitializeSucceeds(t) PROVE TypeOK'
  <2>1. GuardTypeOK'
    BY <1>4 DEF InitializeSucceeds, SpawnWatchdog
  <2>2. TaskTypeOK'
    BY <1>4 DEF InitializeSucceeds, SpawnWatchdog
  <2>3. RestTypeOK'
    <3>1. wdIdle' \in SUBSET Nat
      BY <1>4 DEF InitializeSucceeds, SpawnWatchdog
    <3>2. live' \in SUBSET (Nat \X Threads)
      BY <1>4 DEF InitializeSucceeds
    <3>. QED
      BY <1>4, <3>1, <3>2 DEF InitializeSucceeds
  <2>. QED
    BY <2>1, <2>2, <2>3
<1>5. ASSUME NEW t \in Tasks, TakeInitialized(t) PROVE TypeOK'
  BY <1>5 DEF TakeInitialized
<1>6. ASSUME NEW t \in Tasks, LaunchRejected(t) PROVE TypeOK'
  BY <1>6 DEF LaunchRejected
<1>7. ASSUME NEW t \in Tasks, CompositorReady(t) PROVE TypeOK'
  BY <1>7 DEF CompositorReady
<1>8. ASSUME NEW t \in Tasks, CompositorFails(t) PROVE TypeOK'
  <2>1. GuardTypeOK'
    BY <1>8 DEF CompositorFails
  <2>2. TaskTypeOK'
    BY <1>8 DEF CompositorFails
  <2>3. RestTypeOK'
    <3>1. live' \in SUBSET (Nat \X Threads)
      <4>1. live' = live \/ live' = live \cup {<<sess[t], "compositor">>}
        BY <1>8 DEF CompositorFails
      <4>2. <<sess[t], "compositor">> \in Nat \X Threads
        OBVIOUS
      <4>. QED
        BY <4>1, <4>2
    <3>2. triggered' \in SUBSET Nat
      <4>1. triggered' = triggered \/ triggered' = triggered \cup {sess[t]}
        BY <1>8 DEF CompositorFails
      <4>2. sess[t] \in Nat
        OBVIOUS
      <4>. QED
        BY <4>1, <4>2
    <3>. QED
      BY <1>8, <3>1, <3>2 DEF CompositorFails
  <2>. QED
    BY <2>1, <2>2, <2>3
<1>9. ASSUME NEW t \in Tasks, StartUnit(t) PROVE TypeOK'
  BY <1>9 DEF StartUnit
<1>10. ASSUME NEW t \in Tasks, ApplicationSpawned(t) PROVE TypeOK'
  BY <1>10 DEF ApplicationSpawned
<1>11. ASSUME NEW t \in Tasks, ApplicationFails(t) PROVE TypeOK'
  BY <1>11 DEF ApplicationFails
<1>12. ASSUME NEW t \in Tasks, InstallLaunched(t) PROVE TypeOK'
  BY <1>12 DEF InstallLaunched
<1>13. ASSUME NEW t \in Tasks, LaunchResets(t) PROVE TypeOK'
  <2>1. GuardTypeOK'
    BY <1>13, ResetType DEF LaunchResets
  <2>2. TaskTypeOK'
    BY <1>13 DEF LaunchResets
  <2>3. RestTypeOK'
    BY <1>13 DEF LaunchResets
  <2>. QED
    BY <2>1, <2>2, <2>3
<1>14. ASSUME NEW t \in Tasks, AbandonLaunch(t) PROVE TypeOK'
  BY <1>14 DEF AbandonLaunch
<1>15. ASSUME NEW t \in Tasks, StopSession(t) PROVE TypeOK'
  <2>1. GuardTypeOK'
    BY <1>15, ResetType DEF StopSession
  <2>2. TaskTypeOK'
    BY <1>15 DEF StopSession
  <2>3. RestTypeOK'
    BY <1>15 DEF StopSession
  <2>. QED
    BY <2>1, <2>2, <2>3
<1>16. ASSUME NEW t \in Tasks, StopNothing(t) PROVE TypeOK'
  BY <1>16 DEF StopNothing
<1>17. ASSUME NEW t \in Tasks, StopTriggers(t) PROVE TypeOK'
  BY <1>17 DEF StopTriggers
<1>18. ASSUME NEW t \in Tasks, StopReturns(t) PROVE TypeOK'
  BY <1>18 DEF StopReturns
<1>19. ASSUME NEW t \in Tasks, StopTimesOut(t) PROVE TypeOK'
  BY <1>19 DEF StopTimesOut
<1>20. ASSUME NEW t \in Tasks, AbandonStop(t) PROVE TypeOK'
  BY <1>20 DEF AbandonStop
<1>21. ASSUME NEW t \in Tasks, TakeLaunched(t) PROVE TypeOK'
  <2>1. GuardTypeOK'
    BY <1>21 DEF TakeLaunched
  <2>2. TaskTypeOK'
    BY <1>21 DEF TakeLaunched
  <2>3. RestTypeOK'
    BY <1>21 DEF TakeLaunched
  <2>. QED
    BY <2>1, <2>2, <2>3
<1>22. ASSUME NEW t \in Tasks, StartLocks(t) PROVE TypeOK'
  BY <1>22 DEF StartLocks
<1>23. ASSUME NEW t \in Tasks, StartSucceeds(t) PROVE TypeOK'
  BY <1>23 DEF StartSucceeds
<1>24. ASSUME NEW t \in Tasks, StartFails(t) PROVE TypeOK'
  <2>1. GuardTypeOK'
    BY <1>24, ResetType DEF StartFails
  <2>2. TaskTypeOK'
    BY <1>24 DEF StartFails
  <2>3. RestTypeOK'
    BY <1>24 DEF StartFails
  <2>. QED
    BY <2>1, <2>2, <2>3
<1>25. ASSUME NEW g \in Nat, WatchdogWakes(g) PROVE TypeOK'
  BY <1>25 DEF WatchdogWakes
<1>26. ASSUME NEW g \in Nat, WatchdogQueues(g) PROVE TypeOK'
  BY <1>26 DEF WatchdogQueues
<1>27. ASSUME NEW g \in Nat, WatchdogResets(g) PROVE TypeOK'
  <2>1. GuardTypeOK'
    BY <1>27, ResetType DEF WatchdogResets
  <2>2. TaskTypeOK'
    BY <1>27 DEF WatchdogResets
  <2>3. RestTypeOK'
    BY <1>27 DEF WatchdogResets
  <2>. QED
    BY <2>1, <2>2, <2>3
<1>28. ASSUME NEW g \in Nat, MonitorFires(g) PROVE TypeOK'
  BY <1>28 DEF MonitorFires
<1>29. ASSUME NEW p \in live, ThreadEnds(p) PROVE TypeOK'
  BY <1>29 DEF ThreadEnds, EndThread
<1>30. ASSUME NEW p \in live, ThreadStops(p) PROVE TypeOK'
  BY <1>30 DEF ThreadStops, EndThread
<1>31. ASSUME SetStreamContext PROVE TypeOK'
  BY <1>31 DEF SetStreamContext
<1>32. ASSUME PlayOtherwise PROVE TypeOK'
  BY <1>32 DEF PlayOtherwise
<1>33. ASSUME UpdateKeys PROVE TypeOK'
  BY <1>33 DEF UpdateKeys
<1>34. ASSUME ApplicationExits PROVE TypeOK'
  BY <1>34 DEF ApplicationExits
<1>35. ASSUME Quit PROVE TypeOK'
  BY <1>35 DEF Quit
<1>36. ASSUME DropManager PROVE TypeOK'
  BY <1>36 DEF DropManager
<1>37. CASE UNCHANGED vars
  BY <1>37 DEF vars
<1>. QED
  BY <1>1, <1>2, <1>3, <1>4, <1>5, <1>6, <1>7, <1>8, <1>9, <1>10, <1>11, <1>12, <1>13, <1>14, <1>15, <1>16, <1>17, <1>18, <1>19, <1>20, <1>21, <1>22, <1>23, <1>24, <1>25, <1>26, <1>27, <1>28, <1>29, <1>30, <1>31, <1>32, <1>33, <1>34, <1>35, <1>36, <1>37 DEF Next, Requests, TaskProceeds, Disturbs, WatchdogProceeds

-----------------------------------------------------------------------------
\* The inductive invariant: the supervision of the current session.
Supervision ==
    /\ TypeOK
    /\ KeysSupervised
    /\ KeysHaveInput
    /\ InitializedIsCurrent

\* Each step keeps the watchdog of the session that keys_tx belongs to.
LEMMA KeysStep == Supervision /\ [Next]_vars => KeysSupervised'
<1>. SUFFICES ASSUME Supervision, [Next]_vars PROVE KeysSupervised'
  OBVIOUS
<1>. USE DEF Supervision, KeysSupervised, ResetSession, AbortWatcher, NoGen
<1>1. ASSUME NEW t \in Tasks, InitializeSucceeds(t) PROVE KeysSupervised'
  BY <1>1 DEF InitializeSucceeds, SpawnWatchdog
<1>2. ASSUME NEW t \in Tasks, LaunchResets(t) PROVE KeysSupervised'
  BY <1>2 DEF LaunchResets
<1>3. ASSUME NEW t \in Tasks, StopSession(t) PROVE KeysSupervised'
  BY <1>3 DEF StopSession
<1>4. ASSUME NEW t \in Tasks, StartFails(t) PROVE KeysSupervised'
  BY <1>4 DEF StartFails
<1>5. ASSUME NEW g \in Nat, WatchdogResets(g) PROVE KeysSupervised'
  BY <1>5 DEF WatchdogResets
<1>6. ASSUME NEW g \in Nat, WatchdogWakes(g) PROVE KeysSupervised'
  BY <1>6 DEF WatchdogWakes
<1>7. ASSUME NEW g \in Nat, WatchdogQueues(g) PROVE KeysSupervised'
  BY <1>7 DEF WatchdogQueues
<1>8. ASSUME DropManager PROVE KeysSupervised'
  BY <1>8 DEF DropManager
<1>9. CASE UNCHANGED <<stop, keysTx, watcher, wdIdle, wdPoll, wdQueue>>
  BY <1>9
<1>. QED
  BY <1>1, <1>2, <1>3, <1>4, <1>5, <1>6, <1>7, <1>8, <1>9 DEF
     Next, Requests, TaskProceeds, Disturbs, WatchdogProceeds, vars,
     InitializeSession, InitializeFails, InitializeFailsAfterInput,
     TakeInitialized, LaunchRejected, CompositorReady, CompositorFails, StartUnit,
     ApplicationSpawned, ApplicationFails, InstallLaunched, AbandonLaunch,
     StopNothing, StopTriggers, StopReturns, StopTimesOut, AbandonStop,
     TakeLaunched, StartLocks, StartSucceeds, MonitorFires, ThreadEnds,
     ThreadStops, SetStreamContext, PlayOtherwise, UpdateKeys, ApplicationExits,
     Quit, EndThread, GoTo, TypeOK, GuardTypeOK, TaskTypeOK, RestTypeOK

\* Each step keeps something that will wake that watchdog.
LEMMA InputStep == Supervision /\ [Next]_vars => KeysHaveInput'
<1>. SUFFICES ASSUME Supervision, [Next]_vars PROVE KeysHaveInput'
  OBVIOUS
<1>. USE DEF Supervision, KeysSupervised, KeysHaveInput, ResetSession, Spawn, NoGen
<1>1. ASSUME NEW t \in Tasks, InitializeFailsAfterInput(t) PROVE KeysHaveInput'
  BY <1>1 DEF InitializeFailsAfterInput
<1>2. ASSUME NEW t \in Tasks, InitializeSucceeds(t) PROVE KeysHaveInput'
  BY <1>2 DEF InitializeSucceeds, SpawnWatchdog
<1>3. ASSUME NEW t \in Tasks, CompositorReady(t) PROVE KeysHaveInput'
  BY <1>3 DEF CompositorReady
<1>4. ASSUME NEW t \in Tasks, CompositorFails(t) PROVE KeysHaveInput'
  BY <1>4 DEF CompositorFails
<1>5. ASSUME NEW t \in Tasks, LaunchResets(t) PROVE KeysHaveInput'
  BY <1>5 DEF LaunchResets
<1>6. ASSUME NEW t \in Tasks, StopSession(t) PROVE KeysHaveInput'
  BY <1>6 DEF StopSession
<1>7. ASSUME NEW t \in Tasks, StartFails(t) PROVE KeysHaveInput'
  BY <1>7 DEF StartFails
<1>8. ASSUME NEW g \in Nat, WatchdogResets(g) PROVE KeysHaveInput'
  BY <1>8 DEF WatchdogResets
<1>9. ASSUME NEW t \in Tasks, StopTriggers(t) PROVE KeysHaveInput'
  BY <1>9 DEF StopTriggers
<1>10. ASSUME NEW t \in Tasks, StartSucceeds(t) PROVE KeysHaveInput'
  BY <1>10 DEF StartSucceeds
<1>11. ASSUME NEW g \in Nat, WatchdogWakes(g) PROVE KeysHaveInput'
  BY <1>11 DEF WatchdogWakes
<1>12. ASSUME NEW g \in Nat, MonitorFires(g) PROVE KeysHaveInput'
  BY <1>12 DEF MonitorFires
<1>13. ASSUME NEW p \in live, ThreadEnds(p) PROVE KeysHaveInput'
  BY <1>13 DEF ThreadEnds, EndThread
<1>14. ASSUME NEW p \in live, ThreadStops(p) PROVE KeysHaveInput'
  BY <1>14 DEF ThreadStops, EndThread
<1>15. ASSUME DropManager PROVE KeysHaveInput'
  BY <1>15 DEF DropManager
<1>16. CASE UNCHANGED <<keysTx, triggered, live>>
  BY <1>16
<1>. QED
  BY <1>1, <1>2, <1>3, <1>4, <1>5, <1>6, <1>7, <1>8, <1>9, <1>10, <1>11, <1>12, <1>13, <1>14, <1>15, <1>16 DEF
     Next, Requests, TaskProceeds, Disturbs, WatchdogProceeds, vars,
     InitializeSession, InitializeFails, TakeInitialized, LaunchRejected,
     StartUnit, ApplicationSpawned, ApplicationFails, InstallLaunched,
     AbandonLaunch, StopNothing, StopReturns, StopTimesOut, AbandonStop,
     TakeLaunched, StartLocks, WatchdogQueues, SetStreamContext, PlayOtherwise,
     UpdateKeys, ApplicationExits, Quit, GoTo, TypeOK, GuardTypeOK, TaskTypeOK,
     RestTypeOK

\* Each step keeps an Initialized session tied to the current keys.
LEMMA InitializedStep == Supervision /\ [Next]_vars => InitializedIsCurrent'
<1>. SUFFICES ASSUME Supervision, [Next]_vars PROVE InitializedIsCurrent'
  OBVIOUS
<1>. USE DEF Supervision, KeysSupervised, InitializedIsCurrent, ResetSession, Empty, NoGen
<1>1. ASSUME NEW t \in Tasks, InitializeSucceeds(t) PROVE InitializedIsCurrent'
  BY <1>1 DEF InitializeSucceeds, SpawnWatchdog
<1>2. ASSUME NEW t \in Tasks, TakeInitialized(t) PROVE InitializedIsCurrent'
  BY <1>2 DEF TakeInitialized
<1>3. ASSUME NEW t \in Tasks, InstallLaunched(t) PROVE InitializedIsCurrent'
  BY <1>3 DEF InstallLaunched
<1>4. ASSUME NEW t \in Tasks, LaunchResets(t) PROVE InitializedIsCurrent'
  BY <1>4 DEF LaunchResets
<1>5. ASSUME NEW t \in Tasks, StopSession(t) PROVE InitializedIsCurrent'
  BY <1>5 DEF StopSession
<1>6. ASSUME NEW t \in Tasks, StartFails(t) PROVE InitializedIsCurrent'
  BY <1>6 DEF StartFails
<1>7. ASSUME NEW g \in Nat, WatchdogResets(g) PROVE InitializedIsCurrent'
  BY <1>7 DEF WatchdogResets
<1>8. ASSUME NEW t \in Tasks, TakeLaunched(t) PROVE InitializedIsCurrent'
  BY <1>8 DEF TakeLaunched
<1>9. ASSUME NEW t \in Tasks, StartSucceeds(t) PROVE InitializedIsCurrent'
  BY <1>9 DEF StartSucceeds
<1>10. ASSUME DropManager PROVE InitializedIsCurrent'
  BY <1>10 DEF DropManager
<1>11. CASE UNCHANGED <<slot, keysTx>>
  BY <1>11
<1>. QED
  BY <1>1, <1>2, <1>3, <1>4, <1>5, <1>6, <1>7, <1>8, <1>9, <1>10, <1>11 DEF
     Next, Requests, TaskProceeds, Disturbs, WatchdogProceeds, vars,
     InitializeSession, InitializeFails, InitializeFailsAfterInput, LaunchRejected,
     CompositorReady, CompositorFails, StartUnit, ApplicationSpawned,
     ApplicationFails, AbandonLaunch, StopNothing, StopTriggers, StopReturns,
     StopTimesOut, AbandonStop, StartLocks, WatchdogWakes, WatchdogQueues,
     MonitorFires, ThreadEnds, ThreadStops, SetStreamContext, PlayOtherwise,
     UpdateKeys, ApplicationExits, Quit, EndThread, GoTo, TypeOK, GuardTypeOK,
     TaskTypeOK, RestTypeOK

\* The mutex excludes other writers of the guard from a construction.
Vacancy == Supervision /\ LockHolder /\ ConstructsInVacantManager

\* Only the holder of the mutex leaves the locked steps.
LEMMA LockStep == Vacancy /\ [Next]_vars => LockHolder'
<1>. SUFFICES ASSUME Vacancy, [Next]_vars PROVE LockHolder'
  OBVIOUS
<1>. USE ConstantsAssumption DEF Vacancy, Supervision, TypeOK, TaskTypeOK, LockHolder,
         Unlocked, GoTo
<1>1. ASSUME NEW t \in Tasks, InitializeSession(t) PROVE LockHolder'
  BY <1>1 DEF InitializeSession
<1>2. ASSUME NEW t \in Tasks, InitializeFails(t) PROVE LockHolder'
  BY <1>2 DEF InitializeFails
<1>3. ASSUME NEW t \in Tasks, InitializeFailsAfterInput(t) PROVE LockHolder'
  BY <1>3 DEF InitializeFailsAfterInput
<1>4. ASSUME NEW t \in Tasks, InitializeSucceeds(t) PROVE LockHolder'
  BY <1>4 DEF InitializeSucceeds, SpawnWatchdog
<1>5. ASSUME NEW t \in Tasks, TakeInitialized(t) PROVE LockHolder'
  BY <1>5 DEF TakeInitialized
<1>6. ASSUME NEW t \in Tasks, LaunchRejected(t) PROVE LockHolder'
  BY <1>6 DEF LaunchRejected
<1>7. ASSUME NEW t \in Tasks, CompositorReady(t) PROVE LockHolder'
  BY <1>7 DEF CompositorReady
<1>8. ASSUME NEW t \in Tasks, CompositorFails(t) PROVE LockHolder'
  BY <1>8 DEF CompositorFails
<1>9. ASSUME NEW t \in Tasks, StartUnit(t) PROVE LockHolder'
  BY <1>9 DEF StartUnit
<1>10. ASSUME NEW t \in Tasks, ApplicationSpawned(t) PROVE LockHolder'
  BY <1>10 DEF ApplicationSpawned
<1>11. ASSUME NEW t \in Tasks, ApplicationFails(t) PROVE LockHolder'
  BY <1>11 DEF ApplicationFails
<1>12. ASSUME NEW t \in Tasks, InstallLaunched(t) PROVE LockHolder'
  BY <1>12 DEF InstallLaunched
<1>13. ASSUME NEW t \in Tasks, LaunchResets(t) PROVE LockHolder'
  BY <1>13 DEF LaunchResets
<1>14. ASSUME NEW t \in Tasks, AbandonLaunch(t) PROVE LockHolder'
  BY <1>14 DEF AbandonLaunch
<1>15. ASSUME NEW t \in Tasks, StopSession(t) PROVE LockHolder'
  BY <1>15 DEF StopSession
<1>16. ASSUME NEW t \in Tasks, StopNothing(t) PROVE LockHolder'
  BY <1>16 DEF StopNothing
<1>17. ASSUME NEW t \in Tasks, StopTriggers(t) PROVE LockHolder'
  BY <1>17 DEF StopTriggers
<1>18. ASSUME NEW t \in Tasks, StopReturns(t) PROVE LockHolder'
  BY <1>18 DEF StopReturns
<1>19. ASSUME NEW t \in Tasks, StopTimesOut(t) PROVE LockHolder'
  BY <1>19 DEF StopTimesOut
<1>20. ASSUME NEW t \in Tasks, AbandonStop(t) PROVE LockHolder'
  BY <1>20 DEF AbandonStop
<1>21. ASSUME NEW t \in Tasks, TakeLaunched(t) PROVE LockHolder'
  BY <1>21 DEF TakeLaunched
<1>22. ASSUME NEW t \in Tasks, StartLocks(t) PROVE LockHolder'
  BY <1>22 DEF StartLocks
<1>23. ASSUME NEW t \in Tasks, StartSucceeds(t) PROVE LockHolder'
  BY <1>23 DEF StartSucceeds
<1>24. ASSUME NEW t \in Tasks, StartFails(t) PROVE LockHolder'
  BY <1>24 DEF StartFails
<1>25. ASSUME NEW g \in Nat, WatchdogWakes(g) PROVE LockHolder'
  BY <1>25 DEF WatchdogWakes
<1>26. ASSUME NEW g \in Nat, WatchdogQueues(g) PROVE LockHolder'
  BY <1>26 DEF WatchdogQueues
<1>27. ASSUME NEW g \in Nat, WatchdogResets(g) PROVE LockHolder'
  BY <1>27 DEF WatchdogResets
<1>28. ASSUME NEW g \in Nat, MonitorFires(g) PROVE LockHolder'
  BY <1>28 DEF MonitorFires
<1>29. ASSUME NEW p \in live, ThreadEnds(p) PROVE LockHolder'
  BY <1>29 DEF ThreadEnds, EndThread
<1>30. ASSUME NEW p \in live, ThreadStops(p) PROVE LockHolder'
  BY <1>30 DEF ThreadStops, EndThread
<1>31. ASSUME SetStreamContext PROVE LockHolder'
  BY <1>31 DEF SetStreamContext
<1>32. ASSUME PlayOtherwise PROVE LockHolder'
  BY <1>32 DEF PlayOtherwise
<1>33. ASSUME UpdateKeys PROVE LockHolder'
  BY <1>33 DEF UpdateKeys
<1>34. ASSUME ApplicationExits PROVE LockHolder'
  BY <1>34 DEF ApplicationExits
<1>35. ASSUME Quit PROVE LockHolder'
  BY <1>35 DEF Quit
<1>36. ASSUME DropManager PROVE LockHolder'
  BY <1>36 DEF DropManager
<1>37. CASE UNCHANGED vars
  BY <1>37 DEF vars
<1>. QED
  BY <1>1, <1>2, <1>3, <1>4, <1>5, <1>6, <1>7, <1>8, <1>9, <1>10, <1>11, <1>12, <1>13, <1>14, <1>15, <1>16, <1>17, <1>18, <1>19, <1>20, <1>21, <1>22, <1>23, <1>24, <1>25, <1>26, <1>27, <1>28, <1>29, <1>30, <1>31, <1>32, <1>33, <1>34, <1>35, <1>36, <1>37 DEF Next, Requests, TaskProceeds, Disturbs, WatchdogProceeds,
         TypeOK, GuardTypeOK, TaskTypeOK, RestTypeOK

\* Nothing appears in the guard while a construction holds the mutex.
LEMMA VacantStep == Vacancy /\ [Next]_vars => ConstructsInVacantManager'
<1>. SUFFICES ASSUME Vacancy, [Next]_vars PROVE ConstructsInVacantManager'
  OBVIOUS
<1>. USE ConstantsAssumption DEF Vacancy, Supervision, TypeOK, TaskTypeOK, KeysSupervised,
         LockHolder, ConstructsInVacantManager, Unlocked, GoTo, ResetSession, Empty, NoGen
<1>1. ASSUME NEW t \in Tasks, InitializeSession(t) PROVE ConstructsInVacantManager'
  BY <1>1 DEF InitializeSession
<1>2. ASSUME NEW t \in Tasks, InitializeFails(t) PROVE ConstructsInVacantManager'
  BY <1>2 DEF InitializeFails
<1>3. ASSUME NEW t \in Tasks, InitializeFailsAfterInput(t) PROVE ConstructsInVacantManager'
  BY <1>3 DEF InitializeFailsAfterInput
<1>4. ASSUME NEW t \in Tasks, InitializeSucceeds(t) PROVE ConstructsInVacantManager'
  BY <1>4 DEF InitializeSucceeds, SpawnWatchdog
<1>5. ASSUME NEW t \in Tasks, TakeInitialized(t) PROVE ConstructsInVacantManager'
  BY <1>5 DEF TakeInitialized
<1>6. ASSUME NEW t \in Tasks, LaunchRejected(t) PROVE ConstructsInVacantManager'
  BY <1>6 DEF LaunchRejected
<1>7. ASSUME NEW t \in Tasks, CompositorReady(t) PROVE ConstructsInVacantManager'
  BY <1>7 DEF CompositorReady
<1>8. ASSUME NEW t \in Tasks, CompositorFails(t) PROVE ConstructsInVacantManager'
  BY <1>8 DEF CompositorFails
<1>9. ASSUME NEW t \in Tasks, StartUnit(t) PROVE ConstructsInVacantManager'
  BY <1>9 DEF StartUnit
<1>10. ASSUME NEW t \in Tasks, ApplicationSpawned(t) PROVE ConstructsInVacantManager'
  BY <1>10 DEF ApplicationSpawned
<1>11. ASSUME NEW t \in Tasks, ApplicationFails(t) PROVE ConstructsInVacantManager'
  BY <1>11 DEF ApplicationFails
<1>12. ASSUME NEW t \in Tasks, InstallLaunched(t) PROVE ConstructsInVacantManager'
  BY <1>12 DEF InstallLaunched
<1>13. ASSUME NEW t \in Tasks, LaunchResets(t) PROVE ConstructsInVacantManager'
  BY <1>13 DEF LaunchResets
<1>14. ASSUME NEW t \in Tasks, AbandonLaunch(t) PROVE ConstructsInVacantManager'
  BY <1>14 DEF AbandonLaunch
<1>15. ASSUME NEW t \in Tasks, StopSession(t) PROVE ConstructsInVacantManager'
  BY <1>15 DEF StopSession
<1>16. ASSUME NEW t \in Tasks, StopNothing(t) PROVE ConstructsInVacantManager'
  BY <1>16 DEF StopNothing
<1>17. ASSUME NEW t \in Tasks, StopTriggers(t) PROVE ConstructsInVacantManager'
  BY <1>17 DEF StopTriggers
<1>18. ASSUME NEW t \in Tasks, StopReturns(t) PROVE ConstructsInVacantManager'
  BY <1>18 DEF StopReturns
<1>19. ASSUME NEW t \in Tasks, StopTimesOut(t) PROVE ConstructsInVacantManager'
  BY <1>19 DEF StopTimesOut
<1>20. ASSUME NEW t \in Tasks, AbandonStop(t) PROVE ConstructsInVacantManager'
  BY <1>20 DEF AbandonStop
<1>21. ASSUME NEW t \in Tasks, TakeLaunched(t) PROVE ConstructsInVacantManager'
  BY <1>21 DEF TakeLaunched
<1>22. ASSUME NEW t \in Tasks, StartLocks(t) PROVE ConstructsInVacantManager'
  BY <1>22 DEF StartLocks
<1>23. ASSUME NEW t \in Tasks, StartSucceeds(t) PROVE ConstructsInVacantManager'
  BY <1>23 DEF StartSucceeds
<1>24. ASSUME NEW t \in Tasks, StartFails(t) PROVE ConstructsInVacantManager'
  BY <1>24 DEF StartFails
<1>25. ASSUME NEW g \in Nat, WatchdogWakes(g) PROVE ConstructsInVacantManager'
  BY <1>25 DEF WatchdogWakes
<1>26. ASSUME NEW g \in Nat, WatchdogQueues(g) PROVE ConstructsInVacantManager'
  BY <1>26 DEF WatchdogQueues
<1>27. ASSUME NEW g \in Nat, WatchdogResets(g) PROVE ConstructsInVacantManager'
  BY <1>27 DEF WatchdogResets
<1>28. ASSUME NEW g \in Nat, MonitorFires(g) PROVE ConstructsInVacantManager'
  BY <1>28 DEF MonitorFires
<1>29. ASSUME NEW p \in live, ThreadEnds(p) PROVE ConstructsInVacantManager'
  BY <1>29 DEF ThreadEnds, EndThread
<1>30. ASSUME NEW p \in live, ThreadStops(p) PROVE ConstructsInVacantManager'
  BY <1>30 DEF ThreadStops, EndThread
<1>31. ASSUME SetStreamContext PROVE ConstructsInVacantManager'
  BY <1>31 DEF SetStreamContext
<1>32. ASSUME PlayOtherwise PROVE ConstructsInVacantManager'
  BY <1>32 DEF PlayOtherwise
<1>33. ASSUME UpdateKeys PROVE ConstructsInVacantManager'
  BY <1>33 DEF UpdateKeys
<1>34. ASSUME ApplicationExits PROVE ConstructsInVacantManager'
  BY <1>34 DEF ApplicationExits
<1>35. ASSUME Quit PROVE ConstructsInVacantManager'
  BY <1>35 DEF Quit
<1>36. ASSUME DropManager PROVE ConstructsInVacantManager'
  BY <1>36 DEF DropManager
<1>37. CASE UNCHANGED vars
  BY <1>37 DEF vars
<1>. QED
  BY <1>1, <1>2, <1>3, <1>4, <1>5, <1>6, <1>7, <1>8, <1>9, <1>10, <1>11, <1>12, <1>13, <1>14, <1>15, <1>16, <1>17, <1>18, <1>19, <1>20, <1>21, <1>22, <1>23, <1>24, <1>25, <1>26, <1>27, <1>28, <1>29, <1>30, <1>31, <1>32, <1>33, <1>34, <1>35, <1>36, <1>37 DEF Next, Requests, TaskProceeds, Disturbs, WatchdogProceeds,
         TypeOK, GuardTypeOK, TaskTypeOK, RestTypeOK

-----------------------------------------------------------------------------
\* All of it holds initially.
LEMMA InitVacancy == Init => Vacancy
<1>. SUFFICES ASSUME Init PROVE Vacancy
  OBVIOUS
<1>. USE DEF Init, NoGen
<1>1. GuardTypeOK
  <2>1. slot \in [stage : Stage, gen : Nat]
    BY DEF Empty, Stage
  <2>2. stop \in Nat \ {NoGen} /\ keysTx \in Nat /\ notify \in Nat /\ watcher \in Nat
    OBVIOUS
  <2>3. ctx \in BOOLEAN
    OBVIOUS
  <2>. QED
    BY <2>1, <2>2, <2>3 DEF GuardTypeOK
<1>2. TaskTypeOK
  BY DEF TaskTypeOK, PC
<1>3. RestTypeOK
  BY DEF RestTypeOK
<1>4. KeysSupervised /\ KeysHaveInput
  BY DEF KeysSupervised, KeysHaveInput
<1>5. InitializedIsCurrent /\ LockHolder /\ ConstructsInVacantManager
  BY DEF InitializedIsCurrent, LockHolder, ConstructsInVacantManager, Empty
<1>. QED
  BY <1>1, <1>2, <1>3, <1>4, <1>5 DEF Vacancy, Supervision, TypeOK

\* The invariant that the theorems below rest on.
LEMMA VacancyInvariant == Safe => []Vacancy
<1>1. Vacancy /\ [Next]_vars => Vacancy'
  <2>. SUFFICES ASSUME Vacancy, [Next]_vars PROVE Vacancy'
    OBVIOUS
  <2>1. Supervision'
    BY TypeStep, KeysStep, InputStep, InitializedStep DEF Vacancy, Supervision
  <2>. QED
    BY <2>1, LockStep, VacantStep DEF Vacancy
<1>. QED
  BY <1>1, InitVacancy, PTL DEF Safe

\* Every operation of the session manager keeps its state well typed.
THEOREM TypeCorrect == Safe => []TypeOK
  BY VacancyInvariant, PTL DEF Vacancy, Supervision

\* While keys_tx refuses new sessions, the watchdog of the session that set it
\* is alive and will reset the guard of that very session.
THEOREM KeysAreSupervised == Safe => []KeysSupervised
  BY VacancyInvariant, PTL DEF Vacancy, Supervision

\* While keys_tx refuses new sessions, that watchdog has been woken, or an
\* input thread remains that wakes it when the session value is dropped: no
\* error path of launch_session or start_session refuses sessions for good by
\* forgetting to reset.
THEOREM KeysKeepInput == Safe => []KeysHaveInput
  BY VacancyInvariant, PTL DEF Vacancy, Supervision

\* Whatever is disrupted, an Initialized session in the slot is the one that
\* stop, keys_tx and the watchdog are for.
THEOREM InitializedCurrent == Safe => []InitializedIsCurrent
  BY VacancyInvariant, PTL DEF Vacancy, Supervision

\* initialize_session never constructs next to another session, and the branch
\* of spawn_session_watchdog that finds a running watchdog is dead.
THEOREM VacantConstruction == Safe => []ConstructsInVacantManager
  BY VacancyInvariant, PTL DEF Vacancy

-----------------------------------------------------------------------------
(* One session value.                                                      *)

\* A session that is out of the slot has the ports: it is the only one, and the slot
\* stays empty until it is installed or dropped.
OneValue ==
    \A t \in Tasks : pc[t] \in HasSession =>
        slot.stage = "none" /\ \A u \in Tasks : pc[u] \in HasSession => u = t

\* The slot is emptied before another session is put into it.
NotReplaced == slot.stage # "none" => slot' = slot \/ slot' = Empty

LEMMA OneValueStep == Vacancy /\ OneValue /\ [Next]_vars => OneValue' /\ NotReplaced
<1>. SUFFICES ASSUME Vacancy, OneValue, [Next]_vars PROVE OneValue' /\ NotReplaced
  OBVIOUS
<1>. USE DEF Vacancy, Supervision, TypeOK, TaskTypeOK, OneValue, NotReplaced, HasSession,
         HasApplication, ResetSession, Empty, GoTo
<1>1. ASSUME NEW t \in Tasks, InitializeSession(t) PROVE OneValue' /\ NotReplaced
  BY <1>1 DEF InitializeSession
<1>2. ASSUME NEW t \in Tasks, InitializeFails(t) PROVE OneValue' /\ NotReplaced
  BY <1>2 DEF InitializeFails
<1>3. ASSUME NEW t \in Tasks, InitializeFailsAfterInput(t) PROVE OneValue' /\ NotReplaced
  BY <1>3 DEF InitializeFailsAfterInput
<1>4. ASSUME NEW t \in Tasks, InitializeSucceeds(t) PROVE OneValue' /\ NotReplaced
  BY <1>4 DEF InitializeSucceeds, PortsHeld, ConstructsInVacantManager
<1>5. ASSUME NEW t \in Tasks, TakeInitialized(t) PROVE OneValue' /\ NotReplaced
  BY <1>5 DEF TakeInitialized
<1>6. ASSUME NEW t \in Tasks, LaunchRejected(t) PROVE OneValue' /\ NotReplaced
  BY <1>6 DEF LaunchRejected
<1>7. ASSUME NEW t \in Tasks, CompositorReady(t) PROVE OneValue' /\ NotReplaced
  BY <1>7 DEF CompositorReady
<1>8. ASSUME NEW t \in Tasks, CompositorFails(t) PROVE OneValue' /\ NotReplaced
  BY <1>8 DEF CompositorFails
<1>9. ASSUME NEW t \in Tasks, StartUnit(t) PROVE OneValue' /\ NotReplaced
  BY <1>9 DEF StartUnit
<1>10. ASSUME NEW t \in Tasks, ApplicationSpawned(t) PROVE OneValue' /\ NotReplaced
  BY <1>10 DEF ApplicationSpawned
<1>11. ASSUME NEW t \in Tasks, ApplicationFails(t) PROVE OneValue' /\ NotReplaced
  BY <1>11 DEF ApplicationFails
<1>12. ASSUME NEW t \in Tasks, InstallLaunched(t) PROVE OneValue' /\ NotReplaced
  BY <1>12 DEF InstallLaunched
<1>13. ASSUME NEW t \in Tasks, LaunchResets(t) PROVE OneValue' /\ NotReplaced
  BY <1>13 DEF LaunchResets
<1>14. ASSUME NEW t \in Tasks, AbandonLaunch(t) PROVE OneValue' /\ NotReplaced
  BY <1>14 DEF AbandonLaunch
<1>15. ASSUME NEW t \in Tasks, StopSession(t) PROVE OneValue' /\ NotReplaced
  BY <1>15 DEF StopSession
<1>16. ASSUME NEW t \in Tasks, StopNothing(t) PROVE OneValue' /\ NotReplaced
  BY <1>16 DEF StopNothing
<1>17. ASSUME NEW t \in Tasks, StopTriggers(t) PROVE OneValue' /\ NotReplaced
  BY <1>17 DEF StopTriggers
<1>18. ASSUME NEW t \in Tasks, StopReturns(t) PROVE OneValue' /\ NotReplaced
  BY <1>18 DEF StopReturns
<1>19. ASSUME NEW t \in Tasks, StopTimesOut(t) PROVE OneValue' /\ NotReplaced
  BY <1>19 DEF StopTimesOut
<1>20. ASSUME NEW t \in Tasks, AbandonStop(t) PROVE OneValue' /\ NotReplaced
  BY <1>20 DEF AbandonStop
<1>21. ASSUME NEW t \in Tasks, TakeLaunched(t) PROVE OneValue' /\ NotReplaced
  BY <1>21 DEF TakeLaunched
<1>22. ASSUME NEW t \in Tasks, StartLocks(t) PROVE OneValue' /\ NotReplaced
  BY <1>22 DEF StartLocks
<1>23. ASSUME NEW t \in Tasks, StartSucceeds(t) PROVE OneValue' /\ NotReplaced
  BY <1>23 DEF StartSucceeds
<1>24. ASSUME NEW t \in Tasks, StartFails(t) PROVE OneValue' /\ NotReplaced
  BY <1>24 DEF StartFails
<1>25. ASSUME NEW g \in Nat, WatchdogResets(g) PROVE OneValue' /\ NotReplaced
  BY <1>25 DEF WatchdogResets
<1>26. ASSUME DropManager PROVE OneValue' /\ NotReplaced
  BY <1>26 DEF DropManager
<1>27. CASE UNCHANGED <<slot, pc>>
  BY <1>27
<1>. QED
  BY <1>1, <1>2, <1>3, <1>4, <1>5, <1>6, <1>7, <1>8, <1>9, <1>10, <1>11, <1>12, <1>13, <1>14, <1>15, <1>16, <1>17, <1>18, <1>19, <1>20, <1>21, <1>22, <1>23, <1>24, <1>25, <1>26, <1>27 DEF Next, Requests,
     TaskProceeds, Disturbs, WatchdogProceeds, vars, WatchdogWakes, WatchdogQueues, MonitorFires,
     ThreadEnds, ThreadStops, EndThread, SetStreamContext, PlayOtherwise, UpdateKeys,
     ApplicationExits, Quit, GuardTypeOK, RestTypeOK

\* A launch or a start that outlives a reset of the guard does not replace a session of
\* another client, whatever is disrupted: none can have been initialized meanwhile.
THEOREM NeverOverwritten == Safe => SlotNotOverwritten
<1>1. Init => OneValue
  BY DEF Init, OneValue, HasSession, HasApplication
<1>2. Vacancy /\ OneValue /\ [Next]_vars => OneValue'
  BY OneValueStep
<1>3. Vacancy /\ OneValue /\ [Next]_vars => [slot.stage # "none" => slot' = slot \/ slot' = Empty]_vars
  BY OneValueStep DEF NotReplaced
<1>. QED
  BY <1>1, <1>2, <1>3, VacancyInvariant, PTL DEF Safe, SlotNotOverwritten

-----------------------------------------------------------------------------
(* The quiet instance, in the terms of the instance that MCSessionSafe     *)
(* extends.                                                                *)

\* InitializeSession, on any generation.
Begins(t) ==
    /\ Unlocked
    /\ slot.stage = "none" /\ keysTx = NoGen
    /\ GoTo(t, "idle", "init")
    /\ lock' = t
    /\ UNCHANGED <<guardVars, sess, tgt, wdVars, sideVars, hostVars>>

\* The steps left when nothing is disrupted.
QuietNext ==
    \/ \E t \in Tasks :
          \/ Begins(t) \/ InitializeFails(t) \/ InitializeSucceeds(t)
          \/ TakeInitialized(t) \/ LaunchRejected(t)
          \/ CompositorReady(t) \/ StartUnit(t) \/ ApplicationSpawned(t)
          \/ InstallLaunched(t) \/ LaunchResets(t) \/ AbandonLaunch(t)
          \/ StopSession(t) \/ StopNothing(t) \/ StopTriggers(t)
          \/ StopReturns(t) \/ AbandonStop(t)
          \/ TakeLaunched(t) \/ StartLocks(t) \/ StartSucceeds(t)
    \/ SetStreamContext \/ PlayOtherwise \/ UpdateKeys
    \/ \E g \in wdIdle \cup wdPoll \cup wdQueue : WatchdogProceeds(g)
    \/ \E p \in live : ThreadEnds(p)
    \/ \E g \in {slot.gen} \cup {sess[t] : t \in Tasks} : MonitorFires(g)
    \/ DropManager

\* Every step of the quiet instance is one of them.
LEMMA QuietSteps == Quiet!Next => QuietNext
<1>. SUFFICES ASSUME Quiet!Next PROVE QuietNext
  OBVIOUS
<1>. USE DEF Quiet!guardVars, Quiet!taskVars, Quiet!wdVars, Quiet!sideVars, Quiet!hostVars,
         Quiet!Unlocked, Unlocked, Quiet!GoTo, GoTo, Quiet!Release, Release,
         Quiet!SlotHasApplication, SlotHasApplication, Quiet!StopUnitIf, StopUnitIf,
         Quiet!Spawn, Spawn, Quiet!ResetSession, ResetSession, Quiet!AbortWatcher,
         AbortWatcher, Quiet!Complete, Complete, Quiet!NoGen, NoGen, Quiet!Empty, Empty
<1>1. ASSUME NEW t \in Tasks, Quiet!InitializeSession(t) PROVE Begins(t)
  BY <1>1 DEF Quiet!InitializeSession, Begins
<1>2. ASSUME NEW t \in Tasks, Quiet!InitializeFails(t) PROVE InitializeFails(t)
  BY <1>2 DEF Quiet!InitializeFails, InitializeFails
<1>3. ASSUME NEW t \in Tasks, Quiet!InitializeSucceeds(t) PROVE InitializeSucceeds(t)
  BY <1>3 DEF Quiet!InitializeSucceeds, InitializeSucceeds, Quiet!SpawnWatchdog, SpawnWatchdog,
     Quiet!PortsHeld, PortsHeld, Quiet!HasSession, HasSession, Quiet!HasApplication, HasApplication
<1>4. ASSUME NEW t \in Tasks, Quiet!TakeInitialized(t) PROVE TakeInitialized(t)
  BY <1>4 DEF Quiet!TakeInitialized, TakeInitialized
<1>5. ASSUME NEW t \in Tasks, Quiet!LaunchRejected(t) PROVE LaunchRejected(t)
  BY <1>5 DEF Quiet!LaunchRejected, LaunchRejected
<1>6. ASSUME NEW t \in Tasks, Quiet!CompositorReady(t) PROVE CompositorReady(t)
  BY <1>6 DEF Quiet!CompositorReady, CompositorReady
<1>7. ASSUME NEW t \in Tasks, Quiet!StartUnit(t) PROVE StartUnit(t)
  BY <1>7 DEF Quiet!StartUnit, StartUnit
<1>8. ASSUME NEW t \in Tasks, Quiet!ApplicationSpawned(t) PROVE ApplicationSpawned(t)
  BY <1>8 DEF Quiet!ApplicationSpawned, ApplicationSpawned
<1>9. ASSUME NEW t \in Tasks, Quiet!InstallLaunched(t) PROVE InstallLaunched(t)
  BY <1>9 DEF Quiet!InstallLaunched, InstallLaunched
<1>10. ASSUME NEW t \in Tasks, Quiet!AbandonLaunch(t) PROVE AbandonLaunch(t)
  BY <1>10 DEF Quiet!AbandonLaunch, AbandonLaunch
<1>11. ASSUME NEW t \in Tasks, Quiet!StopSession(t) PROVE StopSession(t)
  BY <1>11 DEF Quiet!StopSession, StopSession
<1>12. ASSUME NEW t \in Tasks, Quiet!StopNothing(t) PROVE StopNothing(t)
  BY <1>12 DEF Quiet!StopNothing, StopNothing
<1>13. ASSUME NEW t \in Tasks, Quiet!StopTriggers(t) PROVE StopTriggers(t)
  BY <1>13 DEF Quiet!StopTriggers, StopTriggers
<1>14. ASSUME NEW t \in Tasks, Quiet!StopReturns(t) PROVE StopReturns(t)
  BY <1>14 DEF Quiet!StopReturns, StopReturns
<1>15. ASSUME NEW t \in Tasks, Quiet!AbandonStop(t) PROVE AbandonStop(t)
  BY <1>15 DEF Quiet!AbandonStop, AbandonStop
<1>16. ASSUME NEW t \in Tasks, Quiet!TakeLaunched(t) PROVE TakeLaunched(t)
  BY <1>16 DEF Quiet!TakeLaunched, TakeLaunched
<1>17. ASSUME NEW t \in Tasks, Quiet!StartLocks(t) PROVE StartLocks(t)
  BY <1>17 DEF Quiet!StartLocks, StartLocks
<1>18. ASSUME NEW t \in Tasks, Quiet!StartSucceeds(t) PROVE StartSucceeds(t)
  BY <1>18 DEF Quiet!StartSucceeds, StartSucceeds
<1>19. ASSUME NEW t \in Tasks, Quiet!LaunchResets(t) PROVE LaunchResets(t)
  BY <1>19 DEF Quiet!LaunchResets, LaunchResets
<1>20. ASSUME NEW t \in Tasks, Quiet!InitializeFailsAfterInput(t) PROVE FALSE
  BY <1>20 DEF Quiet!InitializeFailsAfterInput
<1>21. ASSUME NEW t \in Tasks, Quiet!CompositorFails(t) PROVE FALSE
  BY <1>21 DEF Quiet!CompositorFails
<1>22. ASSUME NEW t \in Tasks, Quiet!ApplicationFails(t) PROVE FALSE
  BY <1>22 DEF Quiet!ApplicationFails
<1>23. ASSUME NEW t \in Tasks, Quiet!StopTimesOut(t) PROVE FALSE
  BY <1>23 DEF Quiet!StopTimesOut
<1>24. ASSUME NEW t \in Tasks, Quiet!StartFails(t) PROVE FALSE
  BY <1>24 DEF Quiet!StartFails
<1>25. ASSUME NEW g, Quiet!WatchdogWakes(g) PROVE WatchdogWakes(g)
  BY <1>25 DEF Quiet!WatchdogWakes, WatchdogWakes
<1>26. ASSUME NEW g, Quiet!WatchdogQueues(g) PROVE WatchdogQueues(g)
  BY <1>26 DEF Quiet!WatchdogQueues, WatchdogQueues
<1>27. ASSUME NEW g, Quiet!WatchdogResets(g) PROVE WatchdogResets(g)
  BY <1>27 DEF Quiet!WatchdogResets, WatchdogResets
<1>28. ASSUME NEW g, Quiet!MonitorFires(g) PROVE MonitorFires(g)
  BY <1>28 DEF Quiet!MonitorFires, MonitorFires, Quiet!MonitorAlive, MonitorAlive,
     Quiet!HasApplication, HasApplication
<1>29. ASSUME NEW p \in live, Quiet!ThreadEnds(p) PROVE ThreadEnds(p)
  BY <1>29 DEF Quiet!ThreadEnds, ThreadEnds, Quiet!EndThread, EndThread, Quiet!SenderAlive,
     SenderAlive, Quiet!HasSession, HasSession, Quiet!HasApplication, HasApplication
<1>30. ASSUME Quiet!SetStreamContext PROVE SetStreamContext
  BY <1>30 DEF Quiet!SetStreamContext, SetStreamContext
<1>31. ASSUME Quiet!PlayOtherwise PROVE PlayOtherwise
  BY <1>31 DEF Quiet!PlayOtherwise, PlayOtherwise
<1>32. ASSUME Quiet!UpdateKeys PROVE UpdateKeys
  BY <1>32 DEF Quiet!UpdateKeys, UpdateKeys
<1>33. ASSUME Quiet!DropManager PROVE DropManager
  BY <1>33 DEF Quiet!DropManager, DropManager
<1>34. ~(\E p \in live : Quiet!ThreadStops(p)) /\ ~Quiet!ApplicationExits /\ ~Quiet!Quit
  BY DEF Quiet!ThreadStops, Quiet!ApplicationExits, Quiet!Quit
<1>. QED
  BY <1>1, <1>2, <1>3, <1>4, <1>5, <1>6, <1>7, <1>8, <1>9, <1>10, <1>11, <1>12, <1>13, <1>14, <1>15, <1>16, <1>17, <1>18, <1>19, <1>20, <1>21, <1>22, <1>23, <1>24, <1>25, <1>26, <1>27, <1>28, <1>29, <1>30, <1>31, <1>32, <1>33, <1>34 DEF Quiet!Next, Quiet!Requests, Quiet!TaskProceeds, Quiet!Disturbs,
     Quiet!WatchdogProceeds, QuietNext, WatchdogProceeds

\* It changes the same variables.
LEMMA QuietVars == Quiet!vars = vars /\ (Quiet!Init <=> Init)
  BY DEF Quiet!vars, Quiet!guardVars, Quiet!taskVars, Quiet!wdVars, Quiet!sideVars,
     Quiet!hostVars, vars, Quiet!Init, Init, Quiet!Empty, Empty, Quiet!NoGen, NoGen
-----------------------------------------------------------------------------
(* The inductive invariant of the quiet instance: of all generations the   *)
(* current one alone may have a session, one owner at most has it, and     *)
(* while one has it nothing stops it.                                      *)

\* Every generation but the current session's is a past one.
PastGenerations ==
    /\ keysTx \in {NoGen, stop}
    /\ \A g \in triggered : g < stop \/ g = keysTx
    /\ \A p \in live : p[1] < stop \/ p[1] = keysTx
    /\ \A t \in Tasks : pc[t] = "stopTrigger" => tgt[t] < stop

\* A session out of the slot is the current one, nobody stops it, and its unit runs
\* from the start of its application on.
HolderHasCurrent ==
    \A t \in Tasks : pc[t] \in HasSession =>
        /\ sess[t] = keysTx /\ keysTx # NoGen
        /\ keysTx \notin triggered
        /\ slot.stage = "none"
        /\ pc[t] \in {"startWait", "startLocked"} => tgt[t] = sess[t]
        /\ pc[t] \in HasApplication \cup {"jobWait"} => unit = sess[t]

\* One task at most has it.
OneHolder ==
    \A t, u \in Tasks : pc[t] \in HasSession /\ pc[u] \in HasSession => t = u

\* So is a session in the slot.
SlotHasCurrent ==
    slot.stage # "none" =>
        /\ slot.gen = keysTx /\ keysTx # NoGen
        /\ keysTx \notin triggered
        /\ SlotHasApplication => unit = slot.gen
        /\ slot.stage = "active" => <<slot.gen, "control">> \in live

\* The only watchdog is the current session's, and it sleeps while that is not
\* triggered.
WatchdogOfCurrent ==
    /\ wdIdle \subseteq {keysTx} \ {NoGen}
    /\ wdPoll \cup wdQueue \subseteq (triggered \cap {keysTx}) \ {NoGen}

\* Nothing has failed.
NothingFailed ==
    /\ ~global /\ ~exited
    /\ \A t \in Tasks : pc[t] # "launchErr"
    /\ \A p \in live : p[2] # "orphan"

QuietInv ==
    /\ Vacancy
    /\ PastGenerations
    /\ HolderHasCurrent
    /\ OneHolder
    /\ SlotHasCurrent
    /\ WatchdogOfCurrent
    /\ NothingFailed

\* Each step leaves only past generations triggered, but for the current one.
LEMMA PastStep == QuietInv /\ QuietNext => PastGenerations'
<1>. SUFFICES ASSUME QuietInv, QuietNext PROVE PastGenerations'
  OBVIOUS
<1>. USE DEF QuietInv, Vacancy, Supervision, TypeOK, GuardTypeOK, TaskTypeOK, RestTypeOK,
         KeysSupervised, GoTo, PastGenerations, Spawn, ResetSession, LockHolder,
         ConstructsInVacantManager, HolderHasCurrent, SlotHasCurrent, SlotHasApplication,
         HasSession, HasApplication, WatchdogOfCurrent, NothingFailed, NoGen
<1>1. ASSUME NEW t \in Tasks, Begins(t) PROVE PastGenerations'
  BY <1>1 DEF Begins
<1>2. ASSUME NEW t \in Tasks, InitializeFails(t) PROVE PastGenerations'
  BY <1>2 DEF InitializeFails
<1>3. ASSUME NEW t \in Tasks, InitializeSucceeds(t) PROVE PastGenerations'
  BY <1>3 DEF InitializeSucceeds, SpawnWatchdog
<1>4. ASSUME NEW t \in Tasks, TakeInitialized(t) PROVE PastGenerations'
  BY <1>4 DEF TakeInitialized
<1>5. ASSUME NEW t \in Tasks, LaunchRejected(t) PROVE PastGenerations'
  BY <1>5 DEF LaunchRejected
<1>6. ASSUME NEW t \in Tasks, CompositorReady(t) PROVE PastGenerations'
  BY <1>6 DEF CompositorReady
<1>7. ASSUME NEW t \in Tasks, StartUnit(t) PROVE PastGenerations'
  BY <1>7 DEF StartUnit
<1>8. ASSUME NEW t \in Tasks, ApplicationSpawned(t) PROVE PastGenerations'
  BY <1>8 DEF ApplicationSpawned
<1>9. ASSUME NEW t \in Tasks, InstallLaunched(t) PROVE PastGenerations'
  BY <1>9 DEF InstallLaunched
<1>10. ASSUME NEW t \in Tasks, LaunchResets(t) PROVE PastGenerations'
  BY <1>10 DEF LaunchResets
<1>11. ASSUME NEW t \in Tasks, AbandonLaunch(t) PROVE PastGenerations'
  BY <1>11 DEF AbandonLaunch
<1>12. ASSUME NEW t \in Tasks, StopSession(t) PROVE PastGenerations'
  BY <1>12 DEF StopSession
<1>13. ASSUME NEW t \in Tasks, StopNothing(t) PROVE PastGenerations'
  BY <1>13 DEF StopNothing
<1>14. ASSUME NEW t \in Tasks, StopTriggers(t) PROVE PastGenerations'
  BY <1>14 DEF StopTriggers
<1>15. ASSUME NEW t \in Tasks, StopReturns(t) PROVE PastGenerations'
  BY <1>15 DEF StopReturns
<1>16. ASSUME NEW t \in Tasks, AbandonStop(t) PROVE PastGenerations'
  BY <1>16 DEF AbandonStop
<1>17. ASSUME NEW t \in Tasks, TakeLaunched(t) PROVE PastGenerations'
  BY <1>17 DEF TakeLaunched
<1>18. ASSUME NEW t \in Tasks, StartLocks(t) PROVE PastGenerations'
  BY <1>18 DEF StartLocks
<1>19. ASSUME NEW t \in Tasks, StartSucceeds(t) PROVE PastGenerations'
  BY <1>19 DEF StartSucceeds
<1>20. ASSUME NEW g \in Nat, WatchdogWakes(g) PROVE PastGenerations'
  BY <1>20 DEF WatchdogWakes
<1>21. ASSUME NEW g \in Nat, WatchdogResets(g) PROVE PastGenerations'
  BY <1>21 DEF WatchdogResets
<1>22. ASSUME NEW g \in Nat, MonitorFires(g) PROVE PastGenerations'
  BY <1>22 DEF MonitorFires, MonitorAlive
<1>23. ASSUME NEW p \in live, ThreadEnds(p) PROVE PastGenerations'
  BY <1>23 DEF ThreadEnds, EndThread, SenderAlive
<1>24. ASSUME DropManager PROVE PastGenerations'
  BY <1>24 DEF DropManager
<1>25. CASE UNCHANGED <<stop, keysTx, triggered, live, pc, tgt>>
  BY <1>25
<1>. QED
  BY <1>1, <1>2, <1>3, <1>4, <1>5, <1>6, <1>7, <1>8, <1>9, <1>10, <1>11, <1>12,
     <1>13, <1>14, <1>15, <1>16, <1>17, <1>18, <1>19, <1>20, <1>21, <1>22, <1>23,
     <1>24, <1>25 DEF QuietNext, WatchdogProceeds, WatchdogQueues, SetStreamContext,
     PlayOtherwise, UpdateKeys

\* Each step leaves a task that has a session the current one.
LEMMA HolderStep == QuietInv /\ QuietNext => HolderHasCurrent'
<1>. SUFFICES ASSUME QuietInv, QuietNext PROVE HolderHasCurrent'
  OBVIOUS
<1>. USE DEF QuietInv, Vacancy, Supervision, TypeOK, GuardTypeOK, TaskTypeOK, RestTypeOK,
         KeysSupervised, GoTo, PastGenerations, ResetSession, AbortWatcher, Spawn,
         Release, StopUnitIf, LockHolder, Unlocked, ConstructsInVacantManager,
         HolderHasCurrent, OneHolder, SlotHasCurrent, SlotHasApplication, HasSession,
         HasApplication, WatchdogOfCurrent, NothingFailed, Empty, NoGen
<1>1. ASSUME NEW t \in Tasks, Begins(t) PROVE HolderHasCurrent'
  BY <1>1 DEF Begins
<1>2. ASSUME NEW t \in Tasks, InitializeFails(t) PROVE HolderHasCurrent'
  BY <1>2 DEF InitializeFails
<1>3. ASSUME NEW t \in Tasks, InitializeSucceeds(t) PROVE HolderHasCurrent'
  BY <1>3 DEF InitializeSucceeds, SpawnWatchdog
<1>4. ASSUME NEW t \in Tasks, TakeInitialized(t) PROVE HolderHasCurrent'
  BY <1>4 DEF TakeInitialized
<1>5. ASSUME NEW t \in Tasks, LaunchRejected(t) PROVE HolderHasCurrent'
  BY <1>5 DEF LaunchRejected
<1>6. ASSUME NEW t \in Tasks, CompositorReady(t) PROVE HolderHasCurrent'
  BY <1>6 DEF CompositorReady
<1>7. ASSUME NEW t \in Tasks, StartUnit(t) PROVE HolderHasCurrent'
  BY <1>7 DEF StartUnit
<1>8. ASSUME NEW t \in Tasks, ApplicationSpawned(t) PROVE HolderHasCurrent'
  BY <1>8 DEF ApplicationSpawned
<1>9. ASSUME NEW t \in Tasks, InstallLaunched(t) PROVE HolderHasCurrent'
  BY <1>9 DEF InstallLaunched
<1>10. ASSUME NEW t \in Tasks, LaunchResets(t) PROVE HolderHasCurrent'
  BY <1>10 DEF LaunchResets
<1>11. ASSUME NEW t \in Tasks, AbandonLaunch(t) PROVE HolderHasCurrent'
  BY <1>11 DEF AbandonLaunch
<1>12. ASSUME NEW t \in Tasks, StopSession(t) PROVE HolderHasCurrent'
  BY <1>12 DEF StopSession
<1>13. ASSUME NEW t \in Tasks, StopNothing(t) PROVE HolderHasCurrent'
  BY <1>13 DEF StopNothing
<1>14. ASSUME NEW t \in Tasks, StopTriggers(t) PROVE HolderHasCurrent'
  BY <1>14 DEF StopTriggers
<1>15. ASSUME NEW t \in Tasks, StopReturns(t) PROVE HolderHasCurrent'
  BY <1>15 DEF StopReturns
<1>16. ASSUME NEW t \in Tasks, AbandonStop(t) PROVE HolderHasCurrent'
  BY <1>16 DEF AbandonStop
<1>17. ASSUME NEW t \in Tasks, TakeLaunched(t) PROVE HolderHasCurrent'
  BY <1>17 DEF TakeLaunched
<1>18. ASSUME NEW t \in Tasks, StartLocks(t) PROVE HolderHasCurrent'
  BY <1>18 DEF StartLocks
<1>19. ASSUME NEW t \in Tasks, StartSucceeds(t) PROVE HolderHasCurrent'
  BY <1>19 DEF StartSucceeds
<1>20. ASSUME NEW g \in Nat, WatchdogWakes(g) PROVE HolderHasCurrent'
  BY <1>20 DEF WatchdogWakes
<1>21. ASSUME NEW g \in Nat, WatchdogResets(g) PROVE HolderHasCurrent'
  BY <1>21 DEF WatchdogResets
<1>22. ASSUME NEW g \in Nat, MonitorFires(g) PROVE HolderHasCurrent'
  BY <1>22 DEF MonitorFires, MonitorAlive
<1>23. ASSUME NEW p \in live, ThreadEnds(p) PROVE HolderHasCurrent'
  BY <1>23 DEF ThreadEnds, EndThread, SenderAlive
<1>24. ASSUME DropManager PROVE HolderHasCurrent'
  BY <1>24 DEF DropManager
<1>25. CASE UNCHANGED <<slot, keysTx, triggered, unit, pc, sess, tgt>>
  BY <1>25
<1>. QED
  BY <1>1, <1>2, <1>3, <1>4, <1>5, <1>6, <1>7, <1>8, <1>9, <1>10, <1>11, <1>12,
     <1>13, <1>14, <1>15, <1>16, <1>17, <1>18, <1>19, <1>20, <1>21, <1>22, <1>23,
     <1>24, <1>25 DEF QuietNext, WatchdogProceeds, WatchdogQueues, SetStreamContext,
     PlayOtherwise, UpdateKeys

\* Each step leaves the session with one task.
LEMMA OneHolderStep == QuietInv /\ QuietNext => OneHolder'
<1>. SUFFICES ASSUME QuietInv, QuietNext PROVE OneHolder'
  OBVIOUS
<1>. USE DEF QuietInv, Vacancy, Supervision, TypeOK, GuardTypeOK, TaskTypeOK, RestTypeOK,
         KeysSupervised, GoTo, OneHolder, HolderHasCurrent, SlotHasCurrent, LockHolder,
         ConstructsInVacantManager, HasSession, HasApplication, NothingFailed, NoGen
<1>1. ASSUME NEW t \in Tasks, Begins(t) PROVE OneHolder'
  BY <1>1 DEF Begins
<1>2. ASSUME NEW t \in Tasks, InitializeFails(t) PROVE OneHolder'
  BY <1>2 DEF InitializeFails
<1>3. ASSUME NEW t \in Tasks, InitializeSucceeds(t) PROVE OneHolder'
  BY <1>3 DEF InitializeSucceeds, SpawnWatchdog
<1>4. ASSUME NEW t \in Tasks, TakeInitialized(t) PROVE OneHolder'
  BY <1>4 DEF TakeInitialized
<1>5. ASSUME NEW t \in Tasks, LaunchRejected(t) PROVE OneHolder'
  BY <1>5 DEF LaunchRejected
<1>6. ASSUME NEW t \in Tasks, CompositorReady(t) PROVE OneHolder'
  BY <1>6 DEF CompositorReady
<1>7. ASSUME NEW t \in Tasks, StartUnit(t) PROVE OneHolder'
  BY <1>7 DEF StartUnit
<1>8. ASSUME NEW t \in Tasks, ApplicationSpawned(t) PROVE OneHolder'
  BY <1>8 DEF ApplicationSpawned
<1>9. ASSUME NEW t \in Tasks, InstallLaunched(t) PROVE OneHolder'
  BY <1>9 DEF InstallLaunched
<1>10. ASSUME NEW t \in Tasks, LaunchResets(t) PROVE OneHolder'
  BY <1>10 DEF LaunchResets
<1>11. ASSUME NEW t \in Tasks, AbandonLaunch(t) PROVE OneHolder'
  BY <1>11 DEF AbandonLaunch
<1>12. ASSUME NEW t \in Tasks, StopSession(t) PROVE OneHolder'
  BY <1>12 DEF StopSession
<1>13. ASSUME NEW t \in Tasks, StopNothing(t) PROVE OneHolder'
  BY <1>13 DEF StopNothing
<1>14. ASSUME NEW t \in Tasks, StopTriggers(t) PROVE OneHolder'
  BY <1>14 DEF StopTriggers
<1>15. ASSUME NEW t \in Tasks, StopReturns(t) PROVE OneHolder'
  BY <1>15 DEF StopReturns
<1>16. ASSUME NEW t \in Tasks, AbandonStop(t) PROVE OneHolder'
  BY <1>16 DEF AbandonStop
<1>17. ASSUME NEW t \in Tasks, TakeLaunched(t) PROVE OneHolder'
  BY <1>17 DEF TakeLaunched
<1>18. ASSUME NEW t \in Tasks, StartLocks(t) PROVE OneHolder'
  BY <1>18 DEF StartLocks
<1>19. ASSUME NEW t \in Tasks, StartSucceeds(t) PROVE OneHolder'
  BY <1>19 DEF StartSucceeds
<1>20. CASE UNCHANGED <<pc>>
  BY <1>20
<1>. QED
  BY <1>1, <1>2, <1>3, <1>4, <1>5, <1>6, <1>7, <1>8, <1>9, <1>10, <1>11, <1>12,
     <1>13, <1>14, <1>15, <1>16, <1>17, <1>18, <1>19, <1>20 DEF QuietNext,
     WatchdogProceeds, WatchdogWakes, WatchdogQueues, WatchdogResets, MonitorFires,
     ThreadEnds, SetStreamContext, PlayOtherwise, UpdateKeys, DropManager, EndThread

\* Each step leaves the current session in the slot, or none.
LEMMA SlotStep == QuietInv /\ QuietNext => SlotHasCurrent'
<1>. SUFFICES ASSUME QuietInv, QuietNext PROVE SlotHasCurrent'
  OBVIOUS
<1>. USE DEF QuietInv, Vacancy, Supervision, TypeOK, GuardTypeOK, TaskTypeOK, RestTypeOK,
         KeysSupervised, GoTo, PastGenerations, ResetSession, AbortWatcher, Spawn,
         Release, StopUnitIf, LockHolder, Unlocked, ConstructsInVacantManager,
         HolderHasCurrent, OneHolder, SlotHasCurrent, SlotHasApplication, HasSession,
         HasApplication, WatchdogOfCurrent, NothingFailed, Empty, NoGen
<1>1. ASSUME NEW t \in Tasks, Begins(t) PROVE SlotHasCurrent'
  BY <1>1 DEF Begins
<1>2. ASSUME NEW t \in Tasks, InitializeFails(t) PROVE SlotHasCurrent'
  BY <1>2 DEF InitializeFails
<1>3. ASSUME NEW t \in Tasks, InitializeSucceeds(t) PROVE SlotHasCurrent'
  BY <1>3 DEF InitializeSucceeds, SpawnWatchdog
<1>4. ASSUME NEW t \in Tasks, TakeInitialized(t) PROVE SlotHasCurrent'
  BY <1>4 DEF TakeInitialized
<1>5. ASSUME NEW t \in Tasks, LaunchRejected(t) PROVE SlotHasCurrent'
  BY <1>5 DEF LaunchRejected
<1>6. ASSUME NEW t \in Tasks, CompositorReady(t) PROVE SlotHasCurrent'
  BY <1>6 DEF CompositorReady
<1>7. ASSUME NEW t \in Tasks, StartUnit(t) PROVE SlotHasCurrent'
  BY <1>7 DEF StartUnit
<1>8. ASSUME NEW t \in Tasks, ApplicationSpawned(t) PROVE SlotHasCurrent'
  BY <1>8 DEF ApplicationSpawned
<1>9. ASSUME NEW t \in Tasks, InstallLaunched(t) PROVE SlotHasCurrent'
  BY <1>9 DEF InstallLaunched
<1>10. ASSUME NEW t \in Tasks, LaunchResets(t) PROVE SlotHasCurrent'
  BY <1>10 DEF LaunchResets
<1>11. ASSUME NEW t \in Tasks, AbandonLaunch(t) PROVE SlotHasCurrent'
  BY <1>11 DEF AbandonLaunch
<1>12. ASSUME NEW t \in Tasks, StopSession(t) PROVE SlotHasCurrent'
  BY <1>12 DEF StopSession
<1>13. ASSUME NEW t \in Tasks, StopNothing(t) PROVE SlotHasCurrent'
  BY <1>13 DEF StopNothing
<1>14. ASSUME NEW t \in Tasks, StopTriggers(t) PROVE SlotHasCurrent'
  BY <1>14 DEF StopTriggers
<1>15. ASSUME NEW t \in Tasks, StopReturns(t) PROVE SlotHasCurrent'
  BY <1>15 DEF StopReturns
<1>16. ASSUME NEW t \in Tasks, AbandonStop(t) PROVE SlotHasCurrent'
  BY <1>16 DEF AbandonStop
<1>17. ASSUME NEW t \in Tasks, TakeLaunched(t) PROVE SlotHasCurrent'
  BY <1>17 DEF TakeLaunched
<1>18. ASSUME NEW t \in Tasks, StartLocks(t) PROVE SlotHasCurrent'
  BY <1>18 DEF StartLocks
<1>19. ASSUME NEW t \in Tasks, StartSucceeds(t) PROVE SlotHasCurrent'
  BY <1>19 DEF StartSucceeds
<1>20. ASSUME NEW g \in Nat, WatchdogWakes(g) PROVE SlotHasCurrent'
  BY <1>20 DEF WatchdogWakes
<1>21. ASSUME NEW g \in Nat, WatchdogResets(g) PROVE SlotHasCurrent'
  BY <1>21 DEF WatchdogResets
<1>22. ASSUME NEW g \in Nat, MonitorFires(g) PROVE SlotHasCurrent'
  BY <1>22 DEF MonitorFires, MonitorAlive
<1>23. ASSUME NEW p \in live, ThreadEnds(p) PROVE SlotHasCurrent'
  <2>. SUFFICES ASSUME slot.stage # "none" PROVE SlotHasCurrent'
    BY <1>23 DEF ThreadEnds, EndThread
  <2>1. p[1] # slot.gen
    BY <1>23, slot.stage \in {"initialized", "launched", "active"} DEF ThreadEnds, SenderAlive, Stage
  <2>2. <<slot.gen, "control">> # p
    BY <2>1
  <2>. QED
    BY <1>23, <2>1, <2>2 DEF ThreadEnds, EndThread
<1>24. ASSUME DropManager PROVE SlotHasCurrent'
  BY <1>24 DEF DropManager
<1>25. CASE UNCHANGED <<slot, keysTx, triggered, unit, live>>
  BY <1>25
<1>. QED
  BY <1>1, <1>2, <1>3, <1>4, <1>5, <1>6, <1>7, <1>8, <1>9, <1>10, <1>11, <1>12,
     <1>13, <1>14, <1>15, <1>16, <1>17, <1>18, <1>19, <1>20, <1>21, <1>22, <1>23,
     <1>24, <1>25 DEF QuietNext, WatchdogProceeds, WatchdogQueues, SetStreamContext,
     PlayOtherwise, UpdateKeys

\* Each step lets the watchdog sleep while its session is not triggered.
LEMMA WatchdogStep == QuietInv /\ QuietNext => WatchdogOfCurrent'
<1>. SUFFICES ASSUME QuietInv, QuietNext PROVE WatchdogOfCurrent'
  OBVIOUS
<1>. USE DEF QuietInv, Vacancy, Supervision, TypeOK, GuardTypeOK, TaskTypeOK, RestTypeOK,
         KeysSupervised, GoTo, PastGenerations, ResetSession, AbortWatcher,
         LockHolder, ConstructsInVacantManager, HolderHasCurrent, SlotHasCurrent,
         WatchdogOfCurrent, NothingFailed, NoGen
<1>1. ASSUME NEW t \in Tasks, InitializeSucceeds(t) PROVE WatchdogOfCurrent'
  BY <1>1 DEF InitializeSucceeds, SpawnWatchdog
<1>2. ASSUME NEW t \in Tasks, LaunchResets(t) PROVE WatchdogOfCurrent'
  BY <1>2 DEF LaunchResets
<1>3. ASSUME NEW t \in Tasks, StopSession(t) PROVE WatchdogOfCurrent'
  BY <1>3 DEF StopSession
<1>4. ASSUME NEW t \in Tasks, StopTriggers(t) PROVE WatchdogOfCurrent'
  BY <1>4 DEF StopTriggers
<1>5. ASSUME NEW g \in Nat, WatchdogWakes(g) PROVE WatchdogOfCurrent'
  BY <1>5 DEF WatchdogWakes
<1>6. ASSUME NEW g \in Nat, WatchdogQueues(g) PROVE WatchdogOfCurrent'
  BY <1>6 DEF WatchdogQueues
<1>7. ASSUME NEW g \in Nat, WatchdogResets(g) PROVE WatchdogOfCurrent'
  BY <1>7 DEF WatchdogResets
<1>8. ASSUME NEW g \in Nat, MonitorFires(g) PROVE WatchdogOfCurrent'
  BY <1>8 DEF MonitorFires, MonitorAlive
<1>9. ASSUME NEW p \in live, ThreadEnds(p) PROVE WatchdogOfCurrent'
  BY <1>9 DEF ThreadEnds, EndThread, SenderAlive
<1>10. ASSUME DropManager PROVE WatchdogOfCurrent'
  BY <1>10 DEF DropManager
<1>11. CASE UNCHANGED <<keysTx, triggered, wdIdle, wdPoll, wdQueue>>
  BY <1>11
<1>. QED
  BY <1>1, <1>2, <1>3, <1>4, <1>5, <1>6, <1>7, <1>8, <1>9, <1>10, <1>11 DEF
     QuietNext, WatchdogProceeds, Begins, InitializeFails, TakeInitialized,
     LaunchRejected, CompositorReady, StartUnit, ApplicationSpawned,
     InstallLaunched, AbandonLaunch, StopNothing, StopReturns, AbandonStop,
     TakeLaunched, StartLocks, StartSucceeds, SetStreamContext, PlayOtherwise,
     UpdateKeys

\* No step fails.
LEMMA FailStep == QuietInv /\ QuietNext => NothingFailed'
<1>. SUFFICES ASSUME QuietInv, QuietNext PROVE NothingFailed'
  OBVIOUS
<1>. USE DEF QuietInv, Vacancy, Supervision, TypeOK, GuardTypeOK, TaskTypeOK, RestTypeOK,
         KeysSupervised, GoTo, NothingFailed, Spawn
<1>1. ASSUME NEW t \in Tasks, Begins(t) PROVE NothingFailed'
  BY <1>1 DEF Begins
<1>2. ASSUME NEW t \in Tasks, InitializeFails(t) PROVE NothingFailed'
  BY <1>2 DEF InitializeFails
<1>3. ASSUME NEW t \in Tasks, InitializeSucceeds(t) PROVE NothingFailed'
  BY <1>3 DEF InitializeSucceeds, SpawnWatchdog
<1>4. ASSUME NEW t \in Tasks, TakeInitialized(t) PROVE NothingFailed'
  BY <1>4 DEF TakeInitialized
<1>5. ASSUME NEW t \in Tasks, LaunchRejected(t) PROVE NothingFailed'
  BY <1>5 DEF LaunchRejected
<1>6. ASSUME NEW t \in Tasks, CompositorReady(t) PROVE NothingFailed'
  BY <1>6 DEF CompositorReady
<1>7. ASSUME NEW t \in Tasks, StartUnit(t) PROVE NothingFailed'
  BY <1>7 DEF StartUnit
<1>8. ASSUME NEW t \in Tasks, ApplicationSpawned(t) PROVE NothingFailed'
  BY <1>8 DEF ApplicationSpawned
<1>9. ASSUME NEW t \in Tasks, InstallLaunched(t) PROVE NothingFailed'
  BY <1>9 DEF InstallLaunched
<1>10. ASSUME NEW t \in Tasks, LaunchResets(t) PROVE NothingFailed'
  BY <1>10 DEF LaunchResets
<1>11. ASSUME NEW t \in Tasks, AbandonLaunch(t) PROVE NothingFailed'
  BY <1>11 DEF AbandonLaunch
<1>12. ASSUME NEW t \in Tasks, StopSession(t) PROVE NothingFailed'
  BY <1>12 DEF StopSession
<1>13. ASSUME NEW t \in Tasks, StopNothing(t) PROVE NothingFailed'
  BY <1>13 DEF StopNothing
<1>14. ASSUME NEW t \in Tasks, StopTriggers(t) PROVE NothingFailed'
  BY <1>14 DEF StopTriggers
<1>15. ASSUME NEW t \in Tasks, StopReturns(t) PROVE NothingFailed'
  BY <1>15 DEF StopReturns
<1>16. ASSUME NEW t \in Tasks, AbandonStop(t) PROVE NothingFailed'
  BY <1>16 DEF AbandonStop
<1>17. ASSUME NEW t \in Tasks, TakeLaunched(t) PROVE NothingFailed'
  BY <1>17 DEF TakeLaunched
<1>18. ASSUME NEW t \in Tasks, StartLocks(t) PROVE NothingFailed'
  BY <1>18 DEF StartLocks
<1>19. ASSUME NEW t \in Tasks, StartSucceeds(t) PROVE NothingFailed'
  BY <1>19 DEF StartSucceeds
<1>20. ASSUME NEW p \in live, ThreadEnds(p) PROVE NothingFailed'
  BY <1>20 DEF ThreadEnds, EndThread, SenderAlive
<1>21. ASSUME DropManager PROVE NothingFailed'
  BY <1>21 DEF DropManager
<1>22. CASE UNCHANGED <<pc, global, exited, live>>
  BY <1>22
<1>. QED
  BY <1>1, <1>2, <1>3, <1>4, <1>5, <1>6, <1>7, <1>8, <1>9, <1>10, <1>11, <1>12,
     <1>13, <1>14, <1>15, <1>16, <1>17, <1>18, <1>19, <1>20, <1>21, <1>22 DEF
     QuietNext, WatchdogProceeds, WatchdogWakes, WatchdogQueues, WatchdogResets,
     MonitorFires, SetStreamContext, PlayOtherwise, UpdateKeys

\* A construction that begins keeps what holds of any instance.
LEMMA BeginsStep == ASSUME NEW t \in Tasks PROVE Vacancy /\ Begins(t) => Vacancy'
<1>. SUFFICES ASSUME Vacancy, Begins(t) PROVE Vacancy'
  OBVIOUS
<1>. USE DEF Vacancy, Supervision, Begins, GoTo, Unlocked
<1>1. TypeOK'
  BY DEF TypeOK, GuardTypeOK, TaskTypeOK, RestTypeOK, PC
<1>2. KeysSupervised' /\ KeysHaveInput' /\ InitializedIsCurrent'
  BY DEF KeysSupervised, KeysHaveInput, InitializedIsCurrent
<1>3. LockHolder'
  BY ConstantsAssumption DEF LockHolder, TypeOK, TaskTypeOK
<1>4. ConstructsInVacantManager'
  BY DEF ConstructsInVacantManager, KeysSupervised, TypeOK, TaskTypeOK
<1>. QED
  BY <1>1, <1>2, <1>3, <1>4

\* The other steps are steps of any instance.
LEMMA QuietIsNext == QuietNext => Next \/ \E t \in Tasks : Begins(t)
  BY DEF QuietNext, Next, Requests, TaskProceeds, Disturbs, GoTo, StopSession

\* Any instance keeps it.
LEMMA VacancyStep == Vacancy /\ [Next]_vars => Vacancy'
<1>. SUFFICES ASSUME Vacancy, [Next]_vars PROVE Vacancy'
  OBVIOUS
<1>1. Supervision'
  BY TypeStep, KeysStep, InputStep, InitializedStep DEF Vacancy, Supervision
<1>. QED
  BY <1>1, LockStep, VacantStep DEF Vacancy

\* The quiet instance keeps its invariant.
LEMMA QuietStep == QuietInv /\ [QuietNext]_vars => QuietInv'
<1>. SUFFICES ASSUME QuietInv, [QuietNext]_vars PROVE QuietInv'
  OBVIOUS
<1>1. Vacancy'
  BY BeginsStep, QuietIsNext, VacancyStep DEF QuietInv
<1>2. CASE QuietNext
  BY <1>1, <1>2, PastStep, HolderStep, OneHolderStep, SlotStep, WatchdogStep, FailStep
     DEF QuietInv
<1>3. CASE UNCHANGED vars
  BY <1>1, <1>3 DEF QuietInv, vars, PastGenerations, HolderHasCurrent, OneHolder,
     SlotHasCurrent, SlotHasApplication, WatchdogOfCurrent, NothingFailed
<1>. QED
  BY <1>2, <1>3

LEMMA QuietInit == Init => QuietInv
<1>. SUFFICES ASSUME Init PROVE QuietInv
  OBVIOUS
<1>1. Vacancy
  BY InitVacancy
<1>. QED
  BY <1>1 DEF Init, QuietInv, PastGenerations, HolderHasCurrent, OneHolder,
     SlotHasCurrent, WatchdogOfCurrent, NothingFailed, HasSession, HasApplication, Empty,
     NoGen

\* What holds of both instances, and of the quiet one.
SafeInv == Vacancy /\ (part = "quiet" => QuietInv)

LEMMA SafeInvariant == SafeSpec => []SafeInv
<1>1. SafeInit => SafeInv
  BY InitVacancy, QuietInit DEF SafeInit, SafeInv
<1>2. SafeInv /\ [SafeNext]_safeVars => SafeInv'
  <2>. SUFFICES ASSUME SafeInv, [SafeNext]_safeVars PROVE SafeInv'
    OBVIOUS
  <2>1. CASE part = "disrupted" /\ Next /\ UNCHANGED part
    BY <2>1, VacancyStep DEF SafeInv
  <2>2. CASE part = "quiet" /\ Quiet!Next /\ UNCHANGED part
    BY <2>2, QuietSteps, QuietStep DEF SafeInv, QuietInv
  <2>3. CASE UNCHANGED safeVars
    BY <2>3, VacancyStep, QuietStep DEF SafeInv, safeVars
  <2>. QED
    BY <2>1, <2>2, <2>3 DEF SafeNext
<1>. QED
  BY <1>1, <1>2, PTL DEF SafeSpec

\* However many requests race, as long as each step of a launch succeeds, the slot
\* holds the session that the guard's stop, keys and watchdog are for, and the unit
\* runs the application of that session.
THEOREM SlotIsSupervised == SafeSpec => []QuietSlot
<1>1. SafeInv => QuietSlot
  BY DEF SafeInv, QuietInv, QuietSlot, SlotHasCurrent, SlotSupervised, UnitOfSlot,
     SlotHasApplication
<1>. QED
  BY <1>1, SafeInvariant, PTL

-----------------------------------------------------------------------------
(* The promise of OneSession.                                              *)

Claims ==
    /\ StageNow = "vacant"
    /\ StageNow' = "initialized" /\ OwnerNow' \in Nat \ {0}
    /\ UNCHANGED rekeyed

Moves ==
    /\ StageNow \in {"initialized", "launched"} /\ StageNow' = "moving"
    /\ UNCHANGED <<OwnerNow, rekeyed>>

Installs ==
    /\ StageNow = "moving" /\ StageNow' \in {"launched", "active"}
    /\ UNCHANGED <<OwnerNow, rekeyed>>

Ends ==
    /\ StageNow # "vacant"
    /\ StageNow' = "vacant" /\ OwnerNow' = 0
    /\ UNCHANGED rekeyed

Rekeys ==
    /\ StageNow = "active"
    /\ rekeyed' = OwnerNow
    /\ UNCHANGED <<OwnerNow, StageNow>>

Keeps == UNCHANGED <<OwnerNow, StageNow, rekeyed>>

\* Every step of the quiet instance is one that OneSession allows.
LEMMA PromiseStep ==
    QuietInv /\ QuietNext => Claims \/ Moves \/ Installs \/ Ends \/ Rekeys \/ Keeps
<1>. SUFFICES ASSUME QuietInv, QuietNext
     PROVE Claims \/ Moves \/ Installs \/ Ends \/ Rekeys \/ Keeps
  OBVIOUS
<1>. USE DEF QuietInv, Vacancy, Supervision, TypeOK, GuardTypeOK, TaskTypeOK, GoTo,
         ConstructsInVacantManager, PastGenerations, HolderHasCurrent, SlotHasCurrent,
         WatchdogOfCurrent, HasSession, HasApplication, NothingFailed, ResetSession,
         OwnerNow, StageNow, Stage, Empty, NoGen
<1>1. ASSUME NEW t \in Tasks, InitializeSucceeds(t) PROVE Claims
  BY <1>1 DEF InitializeSucceeds, Claims
<1>2. ASSUME NEW t \in Tasks, TakeInitialized(t) PROVE Moves
  BY <1>2 DEF TakeInitialized, Moves
<1>3. ASSUME NEW t \in Tasks, TakeLaunched(t) PROVE Moves
  BY <1>3 DEF TakeLaunched, Moves
<1>4. ASSUME NEW t \in Tasks, InstallLaunched(t) PROVE Installs
  BY <1>4 DEF InstallLaunched, Installs
<1>5. ASSUME NEW t \in Tasks, StartSucceeds(t) PROVE Installs
  BY <1>5 DEF StartSucceeds, Installs
<1>6. ASSUME NEW t \in Tasks, StopSession(t) PROVE Ends
  BY <1>6 DEF StopSession, Ends
<1>7. ASSUME NEW g \in Nat, WatchdogResets(g) PROVE Ends
  BY <1>7 DEF WatchdogResets, Ends
<1>8. ASSUME UpdateKeys PROVE Rekeys
  BY <1>8 DEF UpdateKeys, Rekeys
<1>9. ASSUME NEW t \in Tasks, LaunchResets(t) PROVE FALSE
  BY <1>9 DEF LaunchResets
<1>10. ASSUME DropManager PROVE FALSE
  BY <1>10 DEF DropManager
<1>11. CASE UNCHANGED <<slot, keysTx, rekeyed>>
  BY <1>11 DEF Keeps
<1>. QED
  BY <1>1, <1>2, <1>3, <1>4, <1>5, <1>6, <1>7, <1>8, <1>9, <1>10, <1>11 DEF QuietNext,
     WatchdogProceeds, RestTypeOK, Begins, InitializeFails, LaunchRejected,
     CompositorReady, StartUnit, ApplicationSpawned, AbandonLaunch, StopNothing,
     StopTriggers, StopReturns, AbandonStop, StartLocks, SetStreamContext,
     PlayOtherwise, WatchdogWakes, WatchdogQueues, ThreadEnds, EndThread, MonitorFires

\* launch_session and start_session, which install a session after an unlock and an
\* await, put back the one they took, into a slot that no request has given to
\* another client: the manager keeps OneSession's promise, for any number of
\* concurrent requests.
THEOREM OneSessionAtATime == SafeSpec => ImplementsOneSession
<1>1. SafeInit => Promised!OneInit
  BY DEF SafeInit, Init, Promised!OneInit, Promised!Nobody, OwnerNow, StageNow, Empty,
     NoGen
<1>2. SafeInv /\ [SafeNext]_safeVars => [Promised!OneNext]_(Promised!oneVars)
  <2>. SUFFICES ASSUME SafeInv, [SafeNext]_safeVars
       PROVE [Promised!OneNext]_(Promised!oneVars)
    OBVIOUS
  <2>1. CASE part = "disrupted" /\ UNCHANGED part
    BY <2>1 DEF Promised!oneVars
  <2>2. CASE part = "quiet" /\ Quiet!Next /\ UNCHANGED part
    <3>1. Claims \/ Moves \/ Installs \/ Ends \/ Rekeys \/ Keeps
      BY <2>2, QuietSteps, PromiseStep DEF SafeInv
    <3>. QED
      BY <2>2, <3>1 DEF Claims, Moves, Installs, Ends, Rekeys, Keeps, Promised!OneNext,
         Promised!Claim, Promised!Move, Promised!Install, Promised!End,
         Promised!Rekey, Promised!oneVars, Promised!Nobody
  <2>3. CASE UNCHANGED safeVars
    BY <2>3 DEF safeVars, vars, Promised!oneVars, OwnerNow, StageNow
  <2>. QED
    BY <2>1, <2>2, <2>3 DEF SafeNext
<1>. QED
  BY <1>1, <1>2, SafeInvariant, PTL DEF SafeSpec, ImplementsOneSession, Promised!OneSpec
=============================================================================
