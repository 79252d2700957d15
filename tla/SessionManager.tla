--------------------------- MODULE SessionManager ---------------------------
(***************************************************************************)
(* The session manager of Moonshine: the one session slot of the host, the *)
(* HTTP and RTSP request tasks that move a session through it, the         *)
(* watchdog task that clears it, and the threads a session owns, as far as *)
(* their start and end concern the manager.                                *)
(*                                                                         *)
(* Every ShutdownManager that `reset_session` creates is a generation, a   *)
(* number; `stop` is the generation the manager holds now.  A session      *)
(* keeps the generation it was constructed with, and is named by it.       *)
(***************************************************************************)
EXTENDS Naturals, FiniteSets

CONSTANTS
    Tasks,          \* the concurrent request tasks (HTTP connections, RTSP connections)
    NoTask,         \* nobody holds the mutex across an await
    MaxGeneration,  \* bound: no session is initialized on a later generation
    Disruptions     \* what may go wrong: see Disruption

\* The threads a session owns.  The audio tasks watch the same generation as
\* the control loop and are spawned with it: "control" stands for them all.
Thread == {"input", "compositor", "control", "video"}

\* A thread or the application stops by itself; the ENet host cannot bind;
\* launching or starting returns an error; a stop takes more than ten
\* seconds; the process is asked to quit.
Disruption == Thread \cup {"application", "host", "launch", "slow", "quit"}

ASSUME ConstantsAssumption ==
    /\ NoTask \notin Tasks
    /\ MaxGeneration \in Nat
    /\ Disruptions \subseteq Disruption

VARIABLES
    slot,       \* guard.session: [stage, gen]
    stop,       \* guard.stop: the current generation
    keysTx,     \* guard.keys_tx: generation of the session whose keys it feeds
    ctx,        \* guard.{video,audio}_stream_context are Some
    notify,     \* guard.{video,audio}_start_notify: generation, or NoGen
    watcher,    \* guard.stop_watcher: generation the watchdog was spawned for
    lock,       \* the task that holds the manager's mutex across an await
    pc,         \* where each request task is
    sess,       \* the session value a task owns while it is out of the slot
    tgt,        \* the ShutdownManager clone a task keeps across an unlock
    wdIdle,     \* watchdogs waiting in the select
    wdPoll,     \* watchdogs being polled, past the select and before the lock
    wdQueue,    \* watchdogs waiting for the mutex
    triggered,  \* generations whose shutdown is triggered
    live,       \* <<generation, thread>> running, with its two tokens
    unit,       \* generation whose application runs as the systemd unit
    rekeyed,    \* generation that received the last accepted key update
    global,     \* the application-wide ShutdownManager is triggered
    exited      \* SessionManagerInner is dropped and main has returned

guardVars == <<slot, stop, keysTx, ctx, notify, watcher>>
taskVars  == <<lock, pc, sess, tgt>>
wdVars    == <<wdIdle, wdPoll, wdQueue>>
sideVars  == <<triggered, live, unit>>
hostVars  == <<rekeyed, global, exited>>
vars      == <<guardVars, taskVars, wdVars, sideVars, hostVars>>

NoGen  == 0
Stage  == {"none", "initialized", "launched", "active"}
Empty  == [stage |-> "none", gen |-> NoGen]

\* "orphan" is the input thread of a construction that failed after it.
Threads == Thread \cup {"orphan"}

PC == {"idle", "init", "initialized", "compositor", "spawning", "jobWait",
       "installing", "launchErr", "stopCall", "stopTrigger", "stopWait",
       "startWait", "startLocked"}

\* The steps at which a task owns a session value that has an Application.
HasApplication == {"installing", "startWait", "startLocked"}
HasSession     == HasApplication \cup {"compositor", "spawning", "jobWait"}

GuardTypeOK ==
    /\ slot \in [stage : Stage, gen : Nat]
    /\ stop \in Nat \ {NoGen}
    /\ keysTx \in Nat /\ notify \in Nat /\ watcher \in Nat
    /\ ctx \in BOOLEAN

TaskTypeOK ==
    /\ lock \in Tasks \cup {NoTask}
    /\ pc \in [Tasks -> PC]
    /\ sess \in [Tasks -> Nat] /\ tgt \in [Tasks -> Nat]

RestTypeOK ==
    /\ wdIdle \in SUBSET Nat /\ wdPoll \in SUBSET Nat /\ wdQueue \in SUBSET Nat
    /\ triggered \in SUBSET Nat
    /\ live \in SUBSET (Nat \X Threads)
    /\ unit \in Nat /\ rekeyed \in Nat
    /\ global \in BOOLEAN /\ exited \in BOOLEAN

TypeOK == GuardTypeOK /\ TaskTypeOK /\ RestTypeOK

Init ==
    /\ slot = Empty /\ stop = 1 /\ keysTx = NoGen /\ ctx = FALSE
    /\ notify = NoGen /\ watcher = NoGen
    /\ lock = NoTask
    /\ pc = [t \in Tasks |-> "idle"]
    /\ sess = [t \in Tasks |-> NoGen] /\ tgt = [t \in Tasks |-> NoGen]
    /\ wdIdle = {} /\ wdPoll = {} /\ wdQueue = {}
    /\ triggered = {} /\ live = {}
    /\ unit = NoGen /\ rekeyed = NoGen
    /\ global = FALSE /\ exited = FALSE

-----------------------------------------------------------------------------
(* Pieces of the operations.                                               *)

Unlocked == lock = NoTask

GoTo(t, from, to) == pc[t] = from /\ pc' = [pc EXCEPT ![t] = to]

\* The session value of task t is dropped or moved into the slot.
Release(t) == sess' = [sess EXCEPT ![t] = NoGen]

\* The slot's session owns an Application, whose Drop stops the systemd unit
\* by its name, whichever session started it.
SlotHasApplication == slot.stage \in {"launched", "active"}

StopUnitIf(cond) == unit' = IF cond THEN NoGen ELSE unit

Spawn(threads) == live' = live \cup threads

\* Seeded fault: the key sender survives the reset.
ResetSessionKeepsKeys ==
    /\ watcher' = NoGen /\ slot' = Empty /\ ctx' = FALSE /\ notify' = NoGen
    /\ stop' = stop + 1
    /\ UNCHANGED keysTx

\* reset_session: aborts the watchdog in the handle and clears the guard.
\* Aborting drops a task that has yielded; one that is being polled runs on
\* to its next yield.
ResetSession ==
    /\ watcher' = NoGen
    /\ slot' = Empty
    /\ keysTx' = NoGen
    /\ ctx' = FALSE
    /\ notify' = NoGen
    /\ stop' = stop + 1

AbortWatcher ==
    /\ wdIdle' = wdIdle \ {watcher}
    /\ wdQueue' = wdQueue \ {watcher}
    /\ wdPoll' = wdPoll

\* ShutdownManager::wait_shutdown_complete returns.  A thread takes its tokens
\* right after it is spawned; they are counted from the spawn.
Complete(g) == g \in triggered /\ \A p \in live : p[1] # g

\* The input thread's sender lives in the session value until start_session
\* moves it into the control loop.
SenderAlive(g) ==
    \/ slot.gen = g /\ slot.stage \in {"initialized", "launched"}
    \/ \E t \in Tasks : sess[t] = g /\ pc[t] \in HasSession
    \/ <<g, "control">> \in live

\* The exit monitor runs as long as the Application value that spawned it.
MonitorAlive(g) ==
    /\ \/ slot.gen = g /\ SlotHasApplication
       \/ \E t \in Tasks : sess[t] = g /\ pc[t] \in HasApplication
    /\ g \notin triggered

-----------------------------------------------------------------------------
(* /launch: initialize_session, which holds the mutex while it constructs  *)
(* the components, then launch_session under the handler's timeout.        *)

\* Seeded fault: the mutex is released before the components are built.
InitializeSessionUnlocked(t) ==
    /\ Unlocked /\ ~global
    /\ slot.stage = "none" /\ keysTx = NoGen
    /\ stop <= MaxGeneration
    /\ GoTo(t, "idle", "init")
    /\ UNCHANGED <<guardVars, lock, sess, tgt, wdVars, sideVars, hostVars>>

InitializeSession(t) ==
    /\ Unlocked /\ ~global
    /\ slot.stage = "none" /\ keysTx = NoGen
    /\ stop <= MaxGeneration
    /\ GoTo(t, "idle", "init")
    /\ lock' = t
    /\ UNCHANGED <<guardVars, sess, tgt, wdVars, sideVars, hostVars>>

\* A UDP or unix socket cannot be bound, as a rule because an earlier session still
\* has its ports, or the connection is dropped.
InitializeFails(t) ==
    /\ GoTo(t, "init", "idle")
    /\ lock' = NoTask
    /\ UNCHANGED <<guardVars, sess, tgt, wdVars, sideVars, hostVars>>

\* Host::new fails after InputHandler::new has spawned its thread with a
\* clone of guard.stop: the sender is dropped, guard.stop stays.
InitializeFailsAfterInput(t) ==
    /\ "host" \in Disruptions
    /\ GoTo(t, "init", "idle")
    /\ lock' = NoTask
    /\ Spawn({<<stop, "orphan">>})
    /\ UNCHANGED <<guardVars, sess, tgt, wdVars, triggered, unit, hostVars>>

\* The fixed ports of the three streams, which are bound without sharing them, belong
\* to the session value, and once its streams have started to their tasks.  A task
\* that is told to stop may have let go of its socket before it ends.
PortsHeld ==
    \/ slot.stage \in {"initialized", "launched"}
    \/ \E t \in Tasks : pc[t] \in HasSession
    \/ \E p \in live : p[2] \in {"control", "video"} /\ p[1] \notin triggered

SpawnWatchdog ==
    IF watcher = NoGen
    THEN watcher' = stop /\ wdIdle' = wdIdle \cup {stop}
    ELSE UNCHANGED <<watcher, wdIdle>>

\* Seeded fault: the sockets share their addresses with others.
InitializeSharesPorts(t) ==
    /\ GoTo(t, "init", "initialized")
    /\ lock' = NoTask
    /\ slot' = [stage |-> "initialized", gen |-> stop]
    /\ Spawn({<<stop, "input">>})
    /\ SpawnWatchdog
    /\ keysTx' = stop
    /\ UNCHANGED <<stop, ctx, notify, sess, tgt, wdPoll, wdQueue,
                   triggered, unit, hostVars>>

InitializeSucceeds(t) ==
    /\ GoTo(t, "init", "initialized")
    /\ ~PortsHeld
    /\ lock' = NoTask
    /\ slot' = [stage |-> "initialized", gen |-> stop]
    /\ Spawn({<<stop, "input">>})
    /\ SpawnWatchdog
    /\ keysTx' = stop
    /\ UNCHANGED <<stop, ctx, notify, sess, tgt, wdPoll, wdQueue,
                   triggered, unit, hostVars>>

\* launch_session takes whatever Initialized session is in the slot.
TakeInitialized(t) ==
    /\ Unlocked
    /\ slot.stage = "initialized"
    /\ GoTo(t, "initialized", "compositor")
    /\ sess' = [sess EXCEPT ![t] = slot.gen]
    /\ slot' = Empty
    /\ UNCHANGED <<stop, keysTx, ctx, notify, watcher, lock, tgt, wdVars,
                   sideVars, hostVars>>

LaunchRejected(t) ==
    /\ Unlocked
    /\ slot.stage # "initialized"
    /\ GoTo(t, "initialized", "stopCall")
    /\ UNCHANGED <<guardVars, lock, sess, tgt, wdVars, sideVars, hostVars>>

\* compositor.launch() blocks until the compositor thread, which takes its
\* tokens first, reports ready.
CompositorReady(t) ==
    /\ GoTo(t, "compositor", "spawning")
    /\ live' = live \cup {<<sess[t], "compositor">>}
    /\ UNCHANGED <<guardVars, lock, sess, tgt, wdVars, triggered, unit,
                   hostVars>>

\* The thread ended first, or five seconds passed and it is still running.
\* launch() drops the other components.
CompositorFails(t) ==
    /\ "launch" \in Disruptions
    /\ GoTo(t, "compositor", "launchErr")
    /\ Release(t)
    /\ \/ triggered' = triggered \cup {sess[t]} /\ UNCHANGED live
       \/ Spawn({<<sess[t], "compositor">>}) /\ UNCHANGED triggered
    /\ UNCHANGED <<guardVars, lock, tgt, wdVars, unit, hostVars>>

\* Seeded fault: the leftover unit is stopped after the new one has started.
StartUnitThenStop(t) ==
    /\ GoTo(t, "spawning", "jobWait")
    /\ unit' = NoGen
    /\ UNCHANGED <<guardVars, lock, sess, tgt, wdVars, triggered, live, hostVars>>

\* Application::spawn stops a leftover unit of the same name, then starts
\* its own and waits for the systemd job.
StartUnit(t) ==
    /\ GoTo(t, "spawning", "jobWait")
    /\ unit' = sess[t]
    /\ UNCHANGED <<guardVars, lock, sess, tgt, wdVars, triggered, live,
                   hostVars>>

ApplicationSpawned(t) ==
    /\ GoTo(t, "jobWait", "installing")
    /\ UNCHANGED <<guardVars, lock, sess, tgt, wdVars, sideVars, hostVars>>

\* The cleanup of the unit is best effort.
ApplicationFails(t) ==
    /\ "launch" \in Disruptions
    /\ \E from \in {"spawning", "jobWait"} : GoTo(t, from, "launchErr")
    /\ Release(t)
    /\ \E clean \in BOOLEAN : StopUnitIf(clean)
    /\ UNCHANGED <<guardVars, lock, tgt, wdVars, triggered, live,
                   hostVars>>

\* launch_session locks again and assigns the slot, dropping what is there.
InstallLaunched(t) ==
    /\ Unlocked
    /\ GoTo(t, "installing", "idle")
    /\ slot' = [stage |-> "launched", gen |-> sess[t]]
    /\ Release(t)
    /\ StopUnitIf(SlotHasApplication)
    /\ UNCHANGED <<stop, keysTx, ctx, notify, watcher, lock, tgt, wdVars,
                   triggered, live, hostVars>>

\* The Err arm of launch_session locks and resets, whosever state it is.
LaunchResets(t) ==
    /\ Unlocked
    /\ GoTo(t, "launchErr", "stopCall")
    /\ ResetSession /\ AbortWatcher
    /\ StopUnitIf(SlotHasApplication)
    /\ UNCHANGED <<lock, sess, tgt, triggered, live, hostVars>>

\* The launch_session future is dropped at an await: by the handler's timeout,
\* which goes on to stop_session, or with the HTTP connection.
AbandonLaunch(t) ==
    /\ \E from \in {"initialized", "spawning", "jobWait", "installing", "launchErr"},
          to \in {"stopCall", "idle"} : GoTo(t, from, to)
    /\ Release(t)
    /\ StopUnitIf(pc[t] = "installing")
    /\ UNCHANGED <<guardVars, lock, tgt, wdVars, triggered, live,
                   hostVars>>

-----------------------------------------------------------------------------
(* /cancel, and the cleanup of a failed /launch: stop_session.             *)

StopSession(t) ==
    /\ Unlocked
    /\ slot.stage # "none"
    /\ \/ ~global /\ GoTo(t, "idle", "stopTrigger")
       \/ GoTo(t, "stopCall", "stopTrigger")
    /\ tgt' = [tgt EXCEPT ![t] = stop]
    /\ ResetSession /\ AbortWatcher
    /\ StopUnitIf(SlotHasApplication)
    /\ UNCHANGED <<lock, sess, triggered, live, hostVars>>

\* stop_session returns Ok at once when the slot is empty.
StopNothing(t) ==
    /\ Unlocked
    /\ slot.stage = "none"
    /\ GoTo(t, "stopCall", "idle")
    /\ UNCHANGED <<guardVars, lock, sess, tgt, wdVars, sideVars, hostVars>>

StopTriggers(t) ==
    /\ GoTo(t, "stopTrigger", "stopWait")
    /\ triggered' = triggered \cup {tgt[t]}
    /\ UNCHANGED <<guardVars, lock, sess, tgt, wdVars, live, unit,
                   hostVars>>

StopReturns(t) ==
    /\ Complete(tgt[t])
    /\ GoTo(t, "stopWait", "idle")
    /\ UNCHANGED <<guardVars, lock, sess, tgt, wdVars, sideVars, hostVars>>

StopTimesOut(t) ==
    /\ "slow" \in Disruptions
    /\ ~Complete(tgt[t])
    /\ GoTo(t, "stopWait", "idle")
    /\ global' = TRUE
    /\ UNCHANGED <<guardVars, lock, sess, tgt, wdVars, sideVars, rekeyed, exited>>

\* The connection is dropped while stop_session waits.
AbandonStop(t) ==
    /\ \E from \in {"stopCall", "stopWait"} : GoTo(t, from, "idle")
    /\ UNCHANGED <<guardVars, lock, sess, tgt, wdVars, sideVars, hostVars>>

-----------------------------------------------------------------------------
(* RTSP ANNOUNCE and PLAY, and /resume.                                    *)

SetStreamContext ==
    /\ Unlocked
    /\ slot.stage = "launched"
    /\ ctx' = TRUE
    /\ UNCHANGED <<slot, stop, keysTx, notify, watcher, taskVars, wdVars,
                   sideVars, hostVars>>

\* start_session takes the contexts and the Launched session.  A missing
\* context returns before the second lock and drops the session.
TakeLaunched(t) ==
    /\ Unlocked
    /\ slot.stage = "launched"
    /\ slot' = Empty
    /\ ctx' = FALSE
    /\ \/ /\ ctx
          /\ GoTo(t, "idle", "startWait")
          /\ sess' = [sess EXCEPT ![t] = slot.gen]
          /\ tgt' = [tgt EXCEPT ![t] = stop]
          /\ UNCHANGED unit
       \/ /\ ~ctx
          /\ pc[t] = "idle"
          /\ StopUnitIf(TRUE)
          /\ UNCHANGED <<pc, sess, tgt>>
    /\ UNCHANGED <<stop, keysTx, notify, watcher, lock, wdVars, triggered,
                   live, hostVars>>

\* The other arms put the session back, or find none: only the contexts are
\* gone.
PlayOtherwise ==
    /\ Unlocked /\ ~exited
    /\ slot.stage # "launched"
    /\ ctx' = FALSE
    /\ UNCHANGED <<slot, stop, keysTx, notify, watcher, taskVars, wdVars,
                   sideVars, hostVars>>

\* LaunchedSession::start runs, and awaits, under the mutex.
StartLocks(t) ==
    /\ Unlocked
    /\ GoTo(t, "startWait", "startLocked")
    /\ lock' = t
    /\ UNCHANGED <<guardVars, sess, tgt, wdVars, sideVars, hostVars>>

\* The video threads watch the generation read from the guard, the control
\* loop the one the session was constructed with.
StartSucceeds(t) ==
    /\ GoTo(t, "startLocked", "idle")
    /\ lock' = NoTask
    /\ slot' = [stage |-> "active", gen |-> sess[t]]
    /\ notify' = sess[t]
    /\ Release(t)
    /\ Spawn({<<sess[t], "control">>, <<tgt[t], "video">>})
    /\ StopUnitIf(SlotHasApplication)
    /\ UNCHANGED <<stop, keysTx, ctx, watcher, tgt, wdVars, triggered, hostVars>>

\* The audio stream may fail after the video stream has started.
StartFails(t) ==
    /\ "launch" \in Disruptions
    /\ GoTo(t, "startLocked", "idle")
    /\ lock' = NoTask
    /\ Release(t)
    /\ \/ UNCHANGED live
       \/ Spawn({<<tgt[t], "video">>})
    /\ ResetSession /\ AbortWatcher
    /\ StopUnitIf(TRUE)
    /\ UNCHANGED <<tgt, triggered, hostVars>>

\* Seeded fault: keys are updated whatever the state of the session.
UpdateKeysEarly ==
    /\ Unlocked /\ ~global
    /\ stop \notin triggered
    /\ keysTx # NoGen
    /\ rekeyed' = keysTx
    /\ UNCHANGED <<guardVars, taskVars, wdVars, sideVars, global, exited>>

UpdateKeys ==
    /\ Unlocked /\ ~global
    /\ stop \notin triggered
    /\ slot.stage = "active"
    /\ keysTx # NoGen
    /\ rekeyed' = keysTx
    /\ UNCHANGED <<guardVars, taskVars, wdVars, sideVars, global, exited>>

-----------------------------------------------------------------------------
(* The watchdog of generation g.                                           *)

WatchdogWakes(g) ==
    /\ g \in wdIdle
    /\ g \in triggered \/ global
    /\ triggered' = triggered \cup {g}
    /\ wdIdle' = wdIdle \ {g}
    /\ wdPoll' = wdPoll \cup {g}
    /\ UNCHANGED <<guardVars, taskVars, wdQueue, live, unit, hostVars>>

\* Seeded fault: the watchdog gives up when the mutex is taken.
WatchdogGivesUp(g) ==
    /\ g \in wdPoll
    /\ ~Unlocked
    /\ wdPoll' = wdPoll \ {g}
    /\ UNCHANGED <<guardVars, taskVars, wdIdle, wdQueue, sideVars, hostVars>>

\* The mutex is taken: the task yields, and is dropped if it was aborted
\* meanwhile (its handle is then no longer in the guard).
WatchdogQueues(g) ==
    /\ g \in wdPoll
    /\ ~Unlocked
    /\ wdPoll' = wdPoll \ {g}
    /\ wdQueue' = IF watcher = g THEN wdQueue \cup {g} ELSE wdQueue
    /\ UNCHANGED <<guardVars, taskVars, wdIdle, sideVars, hostVars>>

\* reset_session aborts the handle in the guard, as a rule this very task:
\* the task then ends at its next yield, wait_shutdown_complete().
WatchdogResets(g) ==
    /\ g \in wdPoll \cup wdQueue
    /\ Unlocked
    /\ ResetSession
    /\ wdIdle' = wdIdle \ {watcher}
    /\ wdQueue' = wdQueue \ {watcher, g}
    /\ wdPoll' = wdPoll \ {g}
    /\ StopUnitIf(SlotHasApplication)
    /\ UNCHANGED <<taskVars, triggered, live, hostVars>>

-----------------------------------------------------------------------------
(* The session's threads, its application, and the process.                *)

\* Seeded fault: a thread ends without a trigger token.
EndThreadSilently(p) ==
    /\ p \in live /\ ~exited
    /\ live' = live \ {p}
    /\ UNCHANGED <<guardVars, taskVars, wdVars, triggered, unit, hostVars>>

\* A thread that ends drops its trigger token and its delay token.
EndThread(p) ==
    /\ p \in live /\ ~exited
    /\ live' = live \ {p}
    /\ triggered' = triggered \cup {p[1]}
    /\ UNCHANGED <<guardVars, taskVars, wdVars, unit, hostVars>>

\* Seeded fault: the input thread keeps a sender of its own channel.
ThreadEndsIfTriggered(p) ==
    /\ p[1] \in triggered \/ p[2] = "orphan"
    /\ EndThread(p)

ThreadEnds(p) ==
    /\ \/ p[1] \in triggered
       \/ p[2] = "orphan"
       \/ p[2] = "input" /\ ~SenderAlive(p[1])
    /\ EndThread(p)

ThreadStops(p) ==
    /\ p[2] \in Disruptions
    /\ EndThread(p)

ApplicationExits ==
    /\ "application" \in Disruptions
    /\ unit # NoGen /\ ~exited
    /\ StopUnitIf(TRUE)
    /\ UNCHANGED <<guardVars, taskVars, wdVars, triggered, live, hostVars>>

MonitorFires(g) ==
    /\ MonitorAlive(g)
    /\ unit # g
    /\ triggered' = triggered \cup {g}
    /\ UNCHANGED <<guardVars, taskVars, wdVars, live, unit, hostVars>>

Quit ==
    /\ "quit" \in Disruptions
    /\ ~global
    /\ global' = TRUE
    /\ UNCHANGED <<guardVars, taskVars, wdVars, sideVars, rekeyed, exited>>

\* The last clone of the manager goes with the last task.  Drop triggers the
\* current generation if there is a session; its block_on panics inside the
\* runtime, so nothing is waited for.  The manager's delay token is the only
\* one of the global ShutdownManager: main exits.
DropManager ==
    /\ global
    /\ \A t \in Tasks : pc[t] = "idle"
    /\ wdIdle \cup wdPoll \cup wdQueue = {}
    /\ triggered' = IF slot.stage = "none" THEN triggered ELSE triggered \cup {stop}
    /\ slot' = Empty
    /\ watcher' = NoGen
    /\ StopUnitIf(SlotHasApplication)
    /\ exited' = TRUE
    /\ UNCHANGED <<stop, keysTx, ctx, notify, taskVars, wdVars, live,
                   rekeyed, global>>

-----------------------------------------------------------------------------
\* What a task does once a request has started it.
TaskProceeds(t) ==
    \/ InitializeFails(t) \/ InitializeFailsAfterInput(t) \/ InitializeSucceeds(t)
    \/ TakeInitialized(t) \/ LaunchRejected(t)
    \/ CompositorReady(t) \/ CompositorFails(t)
    \/ StartUnit(t) \/ ApplicationSpawned(t) \/ ApplicationFails(t)
    \/ InstallLaunched(t) \/ LaunchResets(t)
    \/ (pc[t] = "stopCall" /\ StopSession(t)) \/ StopNothing(t)
    \/ StopTriggers(t) \/ StopReturns(t)
    \/ StartLocks(t) \/ StartSucceeds(t) \/ StartFails(t)

Requests(t) ==
    \/ InitializeSession(t)
    \/ (pc[t] = "idle" /\ StopSession(t))
    \/ TakeLaunched(t)

Disturbs(t) == AbandonLaunch(t) \/ AbandonStop(t) \/ StopTimesOut(t)

WatchdogProceeds(g) == WatchdogWakes(g) \/ WatchdogQueues(g) \/ WatchdogResets(g)

Next ==
    \/ \E t \in Tasks : Requests(t) \/ TaskProceeds(t) \/ Disturbs(t)
    \/ SetStreamContext \/ PlayOtherwise \/ UpdateKeys
    \/ \E g \in wdIdle \cup wdPoll \cup wdQueue : WatchdogProceeds(g)
    \/ \E p \in live : ThreadEnds(p) \/ ThreadStops(p)
    \/ \E g \in {slot.gen} \cup {sess[t] : t \in Tasks} : MonitorFires(g)
    \/ ApplicationExits \/ Quit \/ DropManager

\* Fairness.  A task that is not waiting for the network is polled again; its
\* waits are bounded by timeouts.  The tokio mutex is granted in order.  A
\* thread that is told to stop, or whose channel closes, ends.
Fairness ==
    /\ \A t \in Tasks : WF_vars(TaskProceeds(t))
    /\ \A g \in 1..MaxGeneration : WF_vars(WatchdogProceeds(g))
    /\ \A g \in 1..MaxGeneration, k \in Threads :
          WF_vars(ThreadEnds(<<g, k>>))

Safe == Init /\ [][Next]_vars
Spec == Safe /\ Fairness
-----------------------------------------------------------------------------
(* Properties.                                                             *)

\* keys_tx makes initialize_session refuse.  While it is set, guard.stop is
\* the stop of the session that set it, and the watchdog of exactly that
\* session is alive, not aborted, and its handle is in the guard.
KeysSupervised ==
    /\ watcher = keysTx
    /\ keysTx # NoGen =>
          stop = keysTx /\ keysTx \in wdIdle \cup wdPoll \cup wdQueue

\* While keys_tx is set there is a cause that will wake that watchdog, even
\* if the session value was dropped on an error path without a reset: the
\* generation is triggered, or its input thread is still there to trigger it
\* when the sender goes.
KeysHaveInput ==
    keysTx # NoGen => keysTx \in triggered \/ <<keysTx, "input">> \in live

\* An Initialized session in the slot is the one whose keys the manager can
\* update and whose watchdog runs: no error path leaves another one there.
InitializedIsCurrent ==
    slot.stage = "initialized" => slot.gen = keysTx

\* A construction only ever runs in a vacant manager: no session, keys or
\* watchdog of an earlier one appear while initialize_session awaits.
ConstructsInVacantManager ==
    \A t \in Tasks :
        pc[t] = "init" => slot.stage = "none" /\ keysTx = NoGen /\ watcher = NoGen

\* The mutex is held across an await only while a session is constructed or
\* started, by the task that does it.
LockHolder == \A t \in Tasks : pc[t] \in {"init", "startLocked"} => lock = t

\* The slot holds the session that the guard's stop, keys and watchdog are
\* for.
SlotSupervised == slot.stage # "none" => slot.gen = keysTx

\* launch_session and start_session assign the slot after an unlock and an await
\* without looking at it.  Nobody else's session can be in it by then, though the
\* watchdog may have reset the guard: the session value they hold has the ports that
\* initialize_session would have to bind.
SlotNotOverwritten == [][slot.stage # "none" => slot' = slot \/ slot' = Empty]_vars

\* guard.stop is the shutdown manager of the session in the slot.
StopIsOfSlot == slot.stage # "none" => slot.gen = stop

\* The application that runs as the systemd unit is the one of the session in
\* the slot.
UnitOfSlot == SlotHasApplication => unit = slot.gen

\* A manager whose slot is empty while keys_tx refuses new sessions does not
\* stay so.
WedgeClears ==
    (keysTx # NoGen /\ slot.stage = "none")
        ~> (keysTx = NoGen \/ slot.stage # "none" \/ exited)

\* A session whose shutdown is triggered, for whatever reason, is removed from
\* the guard.
StoppedSessionReaped ==
    \A g \in 1..MaxGeneration :
        (keysTx = g /\ g \in triggered) ~> (keysTx # g \/ exited)

\* The threads of a session that was dropped before its streams started end.
AbandonedSessionEnds ==
    \A g \in 1..MaxGeneration :
        (<<g, "input">> \in live /\ ~SenderAlive(g))
            ~> (exited \/ \A k \in Thread : <<g, k>> \notin live)
=============================================================================
