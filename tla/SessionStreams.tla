--------------------------- MODULE SessionStreams ---------------------------
(***************************************************************************)
(* The streams of one session after start_session: for audio and for       *)
(* video, a packet handler task that owns the UDP socket and a producer    *)
(* thread (the audio encoder, the video pipeline with its packet           *)
(* consumer), both gated by one Notify until the client's StartB; the      *)
(* control loop that opens the gates; and the key update of /resume, which *)
(* needs the lock that the audio encoder holds while it sends.             *)
(***************************************************************************)
EXTENDS Naturals, FiniteSets

CONSTANTS
    Capacity,       \* bound: packets in a packet channel
    Frames,         \* bound: frames in a frame channel
    MaxStartB,      \* bound: StartB messages the client sends
    Disruptions     \* what may go wrong: see Disruption

Stream == {"audio", "video"}

\* A source (PulseServer, compositor), a UDP socket or the video encoder
\* fails; the client stops pinging; a spawned task is polled late, after the
\* client's StartB or a stop.
Disruption == {"source", "socket", "encoder", "ping", "late"}

ASSUME ConstantsAssumption ==
    /\ Capacity \in Nat \ {0} /\ Frames \in Nat \ {0} /\ MaxStartB \in Nat
    /\ Disruptions \subseteq Disruption

VARIABLES
    permit,     \* the permit stored in the gate's Notify
    handler,    \* packet handler task
    producer,   \* encoder or pipeline thread
    chan,       \* packets in the channel from producer to handler
    frames,     \* frames in the channel from source to producer
    source,     \* PulseServer or compositor thread is running
    ctl,        \* control loop
    ctlHost,    \* the control loop holds the ENet host
    audioTriggered,
    startB,     \* StartB messages received
    resume,     \* update_keys: "locking" while it holds the manager's mutex
    stop        \* the session's ShutdownManager is triggered

gateVars == <<permit, handler, producer>>
dataVars == <<chan, frames, source>>
ctlVars  == <<ctl, ctlHost, audioTriggered, startB>>
vars     == <<gateVars, dataVars, ctlVars, resume, stop>>

HandlerState  == {"spawned", "waiting", "woken", "running", "closing", "ended"}
ProducerState == {"spawned", "waiting", "woken", "running", "receiving",
                  "sending", "parity", "ended"}

TypeOK ==
    /\ permit \in [Stream -> BOOLEAN]
    /\ handler \in [Stream -> HandlerState]
    /\ producer \in [Stream -> ProducerState]
    /\ chan \in [Stream -> 0..Capacity]
    /\ frames \in [Stream -> 0..Frames]
    /\ source \in [Stream -> BOOLEAN]
    /\ ctl \in {"spawned", "running", "exiting", "ended"}
    /\ ctlHost \in BOOLEAN /\ audioTriggered \in BOOLEAN
    /\ startB \in 0..MaxStartB
    /\ resume \in {"idle", "locking"}
    /\ stop \in BOOLEAN

Init ==
    /\ permit = [s \in Stream |-> FALSE]
    /\ handler = [s \in Stream |-> "spawned"]
    /\ producer = [s \in Stream |-> "spawned"]
    /\ chan = [s \in Stream |-> 0]
    /\ frames = [s \in Stream |-> 0]
    /\ source = [s \in Stream |-> TRUE]
    /\ ctl = "spawned" /\ ctlHost = TRUE /\ audioTriggered = FALSE
    /\ startB = 0
    /\ resume = "idle"
    /\ stop = FALSE

-----------------------------------------------------------------------------
\* Threads and tasks that hold a delay token.  They take it when they first
\* run, the packet handlers only after the gate.
Complete ==
    /\ stop
    /\ ctl \in {"spawned", "ended"}
    /\ \A s \in Stream : handler[s] # "running" /\ producer[s] \in {"spawned", "ended"}

\* The audio encoder keeps its borrow of the session keys, a read lock, from
\* the encryption of a packet to the end of the iteration.
KeysBorrowed == producer["audio"] \in {"sending", "parity"}

-----------------------------------------------------------------------------
(* The gate.  A Notify stores at most one permit.                          *)

\* Seeded fault: a single notify_one(), which wakes one of two waiters.
NotifyTwiceOnce(gates) ==
    \E first \in {"handler", "producer"} :
        LET H(s) == s \in gates /\ handler[s] = "waiting"
                    /\ (first = "handler" \/ producer[s] # "waiting")
            P(s) == s \in gates /\ producer[s] = "waiting" /\ ~H(s)
        IN  /\ handler' = [s \in Stream |-> IF H(s) THEN "woken" ELSE handler[s]]
            /\ producer' = [s \in Stream |-> IF P(s) THEN "woken" ELSE producer[s]]
            /\ permit' = [s \in Stream |->
                              permit[s] \/ (s \in gates /\ ~H(s) /\ ~P(s))]

\* trigger(): notify_one() twice.  Each call wakes a waiter; without one, it
\* leaves the permit set.
NotifyTwice(gates) ==
    /\ handler' = [s \in Stream |->
           IF s \in gates /\ handler[s] = "waiting" THEN "woken" ELSE handler[s]]
    /\ producer' = [s \in Stream |->
           IF s \in gates /\ producer[s] = "waiting" THEN "woken" ELSE producer[s]]
    /\ permit' = [s \in Stream |->
           permit[s] \/ (s \in gates
                         /\ ~(handler[s] = "waiting" /\ producer[s] = "waiting"))]

\* Seeded fault: the handler does not wait for the gate.
HandlerSkipsGate(s) ==
    /\ handler[s] = "spawned"
    /\ handler' = [handler EXCEPT ![s] = "running"]
    /\ UNCHANGED <<permit, producer, dataVars, ctlVars, resume, stop>>

\* start.notified().await of the packet handler: not cancelled by a stop.
HandlerAtGate(s) ==
    /\ handler[s] = "spawned"
    /\ handler' = [handler EXCEPT ![s] = IF permit[s] THEN "woken" ELSE "waiting"]
    /\ permit' = [permit EXCEPT ![s] = FALSE]
    /\ UNCHANGED <<producer, dataVars, ctlVars, resume, stop>>

\* The producer thread takes its tokens, then waits for the gate.
ProducerAtGate(s) ==
    /\ producer[s] = "spawned"
    /\ producer' = [producer EXCEPT ![s] = IF permit[s] THEN "woken" ELSE "waiting"]
    /\ permit' = [permit EXCEPT ![s] = FALSE]
    /\ UNCHANGED <<handler, dataVars, ctlVars, resume, stop>>

HandlerRuns(s) ==
    /\ handler[s] = "woken"
    /\ handler' = [handler EXCEPT ![s] = "running"]
    /\ UNCHANGED <<permit, producer, dataVars, ctlVars, resume, stop>>

ProducerRuns(s) ==
    /\ producer[s] = "woken"
    /\ producer' = [producer EXCEPT ![s] = "running"]
    /\ UNCHANGED <<permit, handler, dataVars, ctlVars, resume, stop>>

\* wrap_cancel drops the Notified future.  One that was already notified
\* passes its notification on.
ProducerCancelled(s) ==
    /\ producer[s] \in {"waiting", "woken"}
    /\ stop
    /\ producer' = [producer EXCEPT ![s] = "ended"]
    /\ handler' = [handler EXCEPT ![s] =
           IF producer[s] = "woken" /\ @ = "waiting" THEN "woken" ELSE @]
    /\ permit' = [permit EXCEPT ![s] =
           @ \/ (producer[s] = "woken" /\ handler[s] # "waiting")]
    /\ UNCHANGED <<dataVars, ctlVars, resume, stop>>

-----------------------------------------------------------------------------
(* The packet handlers.                                                    *)

HandlerReceives(s) ==
    /\ handler[s] = "running" /\ ~stop
    /\ chan[s] > 0
    /\ chan' = [chan EXCEPT ![s] = @ - 1]
    /\ UNCHANGED <<gateVars, frames, source, ctlVars, resume, stop>>

\* The loop ends on a stop, when the channel is closed and empty, or when the
\* socket fails.  The locals, the two tokens among them, are dropped before
\* the captured socket and receiver.
HandlerStops(s) ==
    /\ handler[s] = "running"
    /\ stop \/ (producer[s] = "ended" /\ chan[s] = 0) \/ "socket" \in Disruptions
    /\ handler' = [handler EXCEPT ![s] = "closing"]
    /\ stop' = TRUE
    /\ UNCHANGED <<permit, producer, dataVars, ctlVars, resume>>

HandlerDropsSocket(s) ==
    /\ handler[s] = "closing"
    /\ handler' = [handler EXCEPT ![s] = "ended"]
    /\ chan' = [chan EXCEPT ![s] = 0]
    /\ UNCHANGED <<permit, producer, frames, source, ctlVars, resume, stop>>

-----------------------------------------------------------------------------
(* The sources and the producers.                                          *)

\* clock_tick and the compositor use try_send: a frame is dropped when the
\* channel is full.
SourceProduces(s) ==
    /\ source[s]
    /\ frames[s] < Frames
    /\ frames' = [frames EXCEPT ![s] = @ + 1]
    /\ UNCHANGED <<gateVars, chan, source, ctlVars, resume, stop>>

\* Seeded fault: the source does not look at the stop.
SourceEndsOnError(s) ==
    /\ source[s] /\ ~stop
    /\ "source" \in Disruptions
    /\ source' = [source EXCEPT ![s] = FALSE]
    /\ stop' = TRUE
    /\ UNCHANGED <<gateVars, chan, frames, ctlVars, resume>>

\* The source's thread ends, and with it the sender of the frame channel.
SourceEnds(s) ==
    /\ source[s]
    /\ stop \/ "source" \in Disruptions
    /\ source' = [source EXCEPT ![s] = FALSE]
    /\ stop' = TRUE
    /\ UNCHANGED <<gateVars, chan, frames, ctlVars, resume>>

ProducerGoes(s, to) ==
    /\ producer' = [producer EXCEPT ![s] = to]
    /\ stop' = (stop \/ to = "ended")

\* The top of the loop; creating the video encoder may fail before it.
ProducerLoops(s) ==
    /\ producer[s] = "running"
    /\ \/ ProducerGoes(s, IF stop THEN "ended" ELSE "receiving")
       \/ s = "video" /\ "encoder" \in Disruptions /\ ProducerGoes(s, "ended")
    /\ UNCHANGED <<permit, handler, dataVars, ctlVars, resume>>

\* A frame is encoded and, for audio, encrypted; either may fail.
ProducerReceives(s) ==
    /\ producer[s] = "receiving"
    /\ frames[s] > 0
    /\ frames' = [frames EXCEPT ![s] = @ - 1]
    /\ \E to \in {"sending", "running"} : ProducerGoes(s, to)
    /\ UNCHANGED <<permit, handler, chan, source, ctlVars, resume>>

\* Only the video pipeline receives with a timeout.
ProducerFindsNoFrame(s) ==
    /\ producer[s] = "receiving"
    /\ frames[s] = 0
    /\ \/ ~source[s] /\ ProducerGoes(s, "ended")
       \/ s = "video" /\ source[s] /\ ProducerGoes(s, "running")
    /\ UNCHANGED <<permit, handler, dataVars, ctlVars, resume>>

\* blocking_send: waits for room in the channel, whether or not a stop is
\* triggered, and fails only when the receiver is gone.  The fourth audio
\* packet is followed by the parity packets, modelled as one.
ProducerSends(s) ==
    /\ producer[s] \in {"sending", "parity"}
    /\ handler[s] # "ended" /\ chan[s] < Capacity
    /\ chan' = [chan EXCEPT ![s] = @ + 1]
    /\ \/ ProducerGoes(s, "running")
       \/ s = "audio" /\ producer[s] = "sending" /\ ProducerGoes(s, "parity")
    /\ UNCHANGED <<permit, handler, frames, source, ctlVars, resume>>

\* A failed send of a data packet ends the loop, one of a parity packet only
\* the inner loop.
ProducerSendFails(s) ==
    /\ producer[s] \in {"sending", "parity"}
    /\ handler[s] = "ended"
    /\ ProducerGoes(s, IF producer[s] = "sending" THEN "ended" ELSE "running")
    /\ UNCHANGED <<permit, handler, dataVars, ctlVars, resume>>

-----------------------------------------------------------------------------
(* The control loop, /resume and /cancel.                                  *)

ControlStarts ==
    /\ ctl = "spawned"
    /\ ctl' = "running"
    /\ UNCHANGED <<gateVars, dataVars, ctlHost, audioTriggered, startB, resume, stop>>

StartB ==
    /\ ctl = "running"
    /\ startB < MaxStartB
    /\ startB' = startB + 1
    /\ NotifyTwice(IF audioTriggered THEN {"video"} ELSE Stream)
    /\ audioTriggered' = TRUE
    /\ UNCHANGED <<dataVars, ctl, ctlHost, resume, stop>>

\* Seeded fault: the tokens are dropped with the host still open.
ControlLeaves ==
    /\ ctl = "running"
    /\ stop \/ "ping" \in Disruptions
    /\ ctl' = "ended" /\ stop' = TRUE
    /\ UNCHANGED <<gateVars, dataVars, ctlHost, audioTriggered, startB, resume>>

\* The loop ends on a stop or without pings, and drops the ENet host.
ControlDropsHost ==
    /\ ctl = "running"
    /\ stop \/ "ping" \in Disruptions
    /\ ctl' = "exiting" /\ ctlHost' = FALSE
    /\ UNCHANGED <<gateVars, dataVars, audioTriggered, startB, resume, stop>>

ControlEnds ==
    /\ ctl = "exiting"
    /\ ctl' = "ended" /\ stop' = TRUE
    /\ UNCHANGED <<gateVars, dataVars, ctlHost, audioTriggered, startB, resume>>

\* update_keys holds the manager's mutex while send_replace waits for the
\* borrows of the keys to end.
ResumeLocks ==
    /\ resume = "idle" /\ ~stop
    /\ resume' = "locking"
    /\ UNCHANGED <<gateVars, dataVars, ctlVars, stop>>

ResumeReturns ==
    /\ resume = "locking" /\ ~KeysBorrowed
    /\ resume' = "idle"
    /\ UNCHANGED <<gateVars, dataVars, ctlVars, stop>>

\* stop_session, which needs the manager's mutex.
StopSession ==
    /\ resume = "idle" /\ ~stop
    /\ stop' = TRUE
    /\ UNCHANGED <<gateVars, dataVars, ctlVars, resume>>

-----------------------------------------------------------------------------
\* Nothing else happens before every spawned task has run once, unless tasks
\* may be late.
Prompt ==
    \/ "late" \in Disruptions
    \/ ctl # "spawned" /\ \A s \in Stream : "spawned" \notin {handler[s], producer[s]}

HandlerProceeds(s) ==
    HandlerRuns(s) \/ HandlerReceives(s) \/ HandlerStops(s) \/ HandlerDropsSocket(s)

ProducerProceeds(s) ==
    \/ ProducerRuns(s) \/ ProducerCancelled(s) \/ ProducerLoops(s)
    \/ ProducerReceives(s) \/ ProducerFindsNoFrame(s)
    \/ ProducerSends(s) \/ ProducerSendFails(s)

ControlProceeds == ControlDropsHost \/ ControlEnds

Next ==
    \/ ControlStarts
    \/ \E s \in Stream : HandlerAtGate(s) \/ ProducerAtGate(s)
    \/ Prompt /\ \E s \in Stream :
           HandlerProceeds(s) \/ ProducerProceeds(s)
           \/ SourceProduces(s) \/ SourceEnds(s)
    \/ Prompt /\ (StartB \/ ControlProceeds)
    \/ Prompt /\ (ResumeLocks \/ ResumeReturns \/ StopSession)

\* Fairness.  Spawned tasks and threads run; a task whose wait is over goes
\* on; the watch channel's lock is granted to a waiting writer when the reader
\* leaves, before the reader comes back (strong fairness).  No disruption has
\* to happen: the sockets, the sources and the pings need not fail.
Ending(s) == stop \/ (producer[s] = "ended" /\ chan[s] = 0)

Fairness ==
    /\ WF_vars(ControlStarts) /\ WF_vars(stop /\ ControlDropsHost) /\ WF_vars(ControlEnds)
    /\ SF_vars(ResumeReturns)
    /\ \A s \in Stream :
          /\ WF_vars(HandlerAtGate(s)) /\ WF_vars(ProducerAtGate(s))
          /\ WF_vars(\/ HandlerRuns(s) \/ HandlerReceives(s) \/ HandlerDropsSocket(s)
                     \/ Ending(s) /\ HandlerStops(s))
          /\ WF_vars(ProducerProceeds(s))
          /\ WF_vars(stop /\ SourceEnds(s))

Safe == Init /\ [][Next]_vars
Spec == Safe /\ Fairness
-----------------------------------------------------------------------------
(* Properties.                                                             *)

PastGate(state) == state \notin {"spawned", "waiting"}

\* No packet handler runs, and no encoder works, before the client's StartB:
\* the gates stay shut through late polls, stops and passed-on notifications.
GatedUntilStartB ==
    \A s \in Stream :
        \/ handler[s] \in {"running", "closing", "ended"}
        \/ producer[s] \in {"running", "receiving", "sending", "parity"}
        => startB > 0

\* When wait_shutdown_complete returns, the control port is free for the next
\* session.
ControlPortFree == Complete => ~ctlHost

\* The client's StartB starts both halves of both streams.
StreamsStart ==
    startB > 0 ~> (stop \/ \A s \in Stream : PastGate(handler[s]) /\ PastGate(producer[s]))

\* A stop completes: whatever is blocked on a full packet channel or an empty
\* frame channel gets released, every token is dropped, and if the client had
\* started the streams the packet handlers have given their ports back.
StopCompletes ==
    stop ~> (Complete /\ (startB > 0 => \A s \in Stream : handler[s] = "ended"))

\* A key update gets the lock: the mutex of the session manager is released.
KeyUpdateReturns == resume = "locking" ~> resume = "idle"
=============================================================================
