----------------------------- MODULE MCHostLive -----------------------------
(***************************************************************************)
(* What must eventually happen, or must last, at the host: a behaviour is  *)
(* one of the session manager, or one of pairing with two devices that     *)
(* share an id on a disk that takes every write but a server that crashes. *)
(* The two share no state.                                                 *)
(***************************************************************************)
EXTENDS Pairing

CONSTANTS Tasks, NoTask, MaxGeneration, SessionDisruptions

VARIABLES part, slot, stop, keysTx, ctx, notify, watcher, lock, pc, sess, tgt,
          wdIdle, wdPoll, wdQueue, triggered, live, unit, rekeyed, global, exited

Manager == INSTANCE SessionManager WITH Disruptions <- SessionDisruptions

managerVars == <<slot, stop, keysTx, ctx, notify, watcher, lock, pc, sess, tgt,
                 wdIdle, wdPoll, wdQueue, triggered, live, unit, rekeyed, global, exited>>

allVars == <<part, vars, managerVars>>

\* All devices have the same id.
MCIdOf == [d \in Device |-> CHOOSE i \in Id : TRUE]

HostInit ==
  /\ part \in {"sessions", "pairing"}
  /\ Manager!Init
  /\ Init /\ (part = "pairing" \/ \A r, q \in Round : device[r] = device[q])

SessionsPart == part = "sessions" /\ Manager!Next /\ UNCHANGED <<part, vars>>
PairingPart == part = "pairing" /\ Next /\ UNCHANGED <<part, managerVars>>

HostNext == SessionsPart \/ PairingPart

\* The fairness of the part that runs.
HostFairness ==
  \/ part = "sessions" /\ Manager!Fairness
  \/ part = "pairing" /\ Fairness

HostSpec == HostInit /\ [][HostNext]_allVars /\ HostFairness

-----------------------------------------------------------------------------
\* A manager whose slot is empty while keys_tx refuses new sessions does not
\* stay so (launch_session and start_session, whose early returns reset nothing).
WedgeClears == Manager!WedgeClears

\* A session whose shutdown is triggered is removed from the guard, by its watchdog.
StoppedSessionReaped == Manager!StoppedSessionReaped

\* The threads of a session that was dropped before its streams started end, as
\* the input thread's channel closes.
AbandonedSessionEnds == Manager!AbandonedSessionEnds
=============================================================================
