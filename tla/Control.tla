------------------------------- MODULE Control -------------------------------
(***************************************************************************)
(* The control stream's loop: it takes one feedback command, waits for one *)
(* ENet event and handles it, and tells the client about HDR.  Gamepad     *)
(* events go through a bounded channel to the gamepad handler, and the      *)
(* handler and the devices' callbacks send feedback through another one    *)
(* back to the loop.  Keyboard, mouse, touch and pen events go to the      *)
(* compositor through a channel without a bound.  What packets hold, how   *)
(* they are encrypted and numbered is left out.                            *)
(***************************************************************************)
EXTENDS Integers, Sequences

CONSTANTS
  Clients,      \* ENet peers, one per connection the client makes
  Hdr,          \* the session streams HDR
  GamepadCap,   \* capacity of gamepad_tx: 10 in the code
  FeedbackCap,  \* capacity of feedback_tx: 10 in the code
  Callbacks,    \* feedback commands of devices that may wait in the channel
  Arrivals,     \* bound: gamepads with motion sensors that arrive
  HdrChanges    \* bound: changes of the HDR state

NoClient == "nobody"

ASSUME ControlAssumption ==
  /\ Hdr \in BOOLEAN /\ NoClient \notin Clients
  /\ {GamepadCap, FeedbackCap} \subseteq Nat \ {0}
  /\ {Callbacks, Arrivals, HdrChanges} \subseteq Nat

VARIABLES
  at,         \* the loop: "top", "service", "forward", "hdr", "ended"
  linked,     \* peers that ENet has in the state Connected
  unreported,     \* peers whose connection or disconnection is not reported yet
  connected,       \* connected_peer, NoClient for None
  sendHdr,    \* send_hdr_mode
  hdrState,   \* version of the HDR state in the watch channel
  hdrSeen,    \* the version borrow_and_update() saw last
  hdrTold,       \* history: the version a connection was told last, -1 for none
  started,    \* history: connections that sent StartB
  event,      \* the input event that waits for room, NoEvent elsewhere
  gamepadQ,   \* events on their way to the gamepad handler
  feedbackQ,  \* feedback commands on their way to the loop
  creating,   \* motion commands a creation has to send still: 0 when idle
  arrivals,   \* gamepads with motion sensors that arrived
  stopping,   \* the session's stop has been triggered
  late        \* stop_deadline has passed

linkVars == <<linked, unreported, connected, hdrTold, started>>
hdrVars  == <<sendHdr, hdrState, hdrSeen>>
padChannels == <<gamepadQ, feedbackQ, creating, arrivals>>
controlVars == <<at, linkVars, hdrVars, event, padChannels, stopping, late>>

NoEvent == "none"
GamepadEvents == {"arrival", "update"}

ControlTypeOK ==
  /\ at \in {"top", "service", "forward", "hdr", "ended"}
  /\ linked \subseteq Clients /\ unreported \subseteq Clients /\ started \subseteq Clients
  /\ connected \in Clients \cup {NoClient}
  /\ sendHdr \in BOOLEAN /\ {hdrState, hdrSeen} \subseteq 0 .. HdrChanges
  /\ hdrTold \in [Clients -> {-1} \cup 0 .. HdrChanges]
  /\ event \in GamepadEvents \cup {NoEvent} /\ (at = "forward") = (event # NoEvent)
  /\ gamepadQ \in Seq(GamepadEvents) /\ Len(gamepadQ) <= GamepadCap
  /\ feedbackQ \in 0 .. FeedbackCap
  /\ creating \in 0 .. 2 /\ arrivals \in 0 .. Arrivals
  /\ {stopping, late} \subseteq BOOLEAN

ControlInit ==
  /\ at = "top"
  /\ linked = {} /\ unreported = {} /\ connected = NoClient
  /\ sendHdr = FALSE /\ hdrState = 0 /\ hdrSeen = 0
  /\ hdrTold = [c \in Clients |-> -1] /\ started = {}
  /\ event = NoEvent /\ gamepadQ = <<>> /\ feedbackQ = 0 /\ creating = 0 /\ arrivals = 0
  /\ stopping = FALSE /\ late = FALSE

-----------------------------------------------------------------------------
(* ENet and the client.                                                    *)

\* A connection is made, the first or a new one; the loop hears of it in an event.
PeerLinks(c) ==
  /\ c \notin linked \cup unreported \cup {connected}
  /\ linked' = linked \cup {c}
  /\ unreported' = unreported \cup {c}
  /\ hdrTold' = [hdrTold EXCEPT ![c] = -1] /\ started' = started \ {c}
  /\ UNCHANGED <<at, connected, hdrVars, event, padChannels, stopping, late>>

\* A connection is lost: ENet's state changes before the loop hears of it.
PeerLost(c) ==
  /\ c \in linked \ unreported
  /\ linked' = linked \ {c}
  /\ unreported' = unreported \cup {c}
  /\ UNCHANGED <<at, connected, hdrTold, started, hdrVars, event, padChannels, stopping, late>>

-----------------------------------------------------------------------------
(* The loop.                                                               *)

Ends == at' = "ended" /\ event' = NoEvent

\* Mutant: the loop looks at the deadline only.
ControlLoopEndsLate ==
  /\ at = "top" /\ late
  /\ Ends
  /\ stopping' = TRUE
  /\ UNCHANGED <<linkVars, hdrVars, padChannels, late>>

\* The stop or the deadline is seen at the top; the client is told and the host is
\* dropped.  Whatever ends the loop triggers the session's stop.
ControlLoopEnds ==
  /\ at = "top" /\ (stopping \/ late)
  /\ Ends
  /\ stopping' = TRUE
  /\ UNCHANGED <<linkVars, hdrVars, padChannels, late>>

\* At most one feedback command per round, and without a peer it is lost.
TakeFeedback ==
  /\ at = "top" /\ ~stopping /\ ~late
  /\ at' = "service"
  /\ feedbackQ' = IF feedbackQ > 0 THEN feedbackQ - 1 ELSE 0
  /\ UNCHANGED <<linkVars, hdrVars, event, gamepadQ, creating, arrivals, stopping, late>>

Serves == at = "service"

HandleConnect(c) ==
  /\ Serves /\ c \in unreported \cap linked
  /\ unreported' = unreported \ {c}
  /\ connected' = c
  /\ at' = "hdr"
  /\ UNCHANGED <<linked, hdrTold, started, hdrVars, event, padChannels, stopping, late>>

HandleDisconnect(c) ==
  /\ Serves /\ c \in unreported \ linked
  /\ unreported' = unreported \ {c}
  /\ connected' = IF connected = c THEN NoClient ELSE connected
  /\ at' = "hdr"
  /\ UNCHANGED <<linked, hdrTold, started, hdrVars, event, padChannels, stopping, late>>

\* Nothing came within 10 ms, or a message without an effect here: an IDR or
\* invalidation request, one that is skipped, an event for the compositor.
HandleNothing ==
  /\ Serves
  /\ at' = "hdr"
  /\ UNCHANGED <<linkVars, hdrVars, event, padChannels, stopping, late>>

\* A packet that cannot be decrypted, or whose content is malformed, is skipped.
HandleUndecodable ==
  /\ Serves
  /\ at' = "top"
  /\ UNCHANGED <<linkVars, hdrVars, event, padChannels, stopping, late>>

\* A malformed packet or an ENet failure ends the stream, and with it the session.
HandleMalformed ==
  /\ Serves
  /\ Ends
  /\ stopping' = TRUE
  /\ UNCHANGED <<linkVars, hdrVars, padChannels, late>>

HandlePing ==
  /\ Serves
  /\ late' = FALSE
  /\ at' = "hdr"
  /\ UNCHANGED <<linkVars, hdrVars, event, padChannels, stopping>>

HandleStartB(c) ==
  /\ Serves /\ c \in linked \ unreported
  /\ started' = started \cup {c}
  /\ sendHdr' = Hdr
  /\ at' = "hdr"
  /\ UNCHANGED <<linked, unreported, connected, hdrTold, hdrState, hdrSeen, event,
                 padChannels, stopping, late>>

\* An input event for a gamepad: handle_input() awaits room in the channel.
HandleGamepadInput(e) ==
  /\ Serves
  /\ e = "arrival" => arrivals < Arrivals
  /\ arrivals' = arrivals + IF e = "arrival" THEN 1 ELSE 0
  /\ event' = e
  /\ at' = "forward"
  /\ UNCHANGED <<linkVars, hdrVars, gamepadQ, feedbackQ, creating, stopping, late>>

Forwarded ==
  /\ at = "forward" /\ Len(gamepadQ) < GamepadCap
  /\ gamepadQ' = Append(gamepadQ, event)
  /\ event' = NoEvent
  /\ at' = "hdr"
  /\ UNCHANGED <<linkVars, hdrVars, feedbackQ, creating, arrivals, stopping, late>>

\* Mutant: a change of the HDR state is taken note of before it is known whether
\* it will be sent.
SendHdrTooEarly ==
  /\ at = "hdr"
  /\ at' = "top"
  /\ sendHdr' = FALSE
  /\ hdrSeen' = hdrState
  /\ IF sendHdr /\ connected # NoClient
     THEN hdrTold' = [hdrTold EXCEPT ![connected] = hdrState]
     ELSE hdrTold' = hdrTold
  /\ UNCHANGED <<linked, unreported, connected, started, hdrState, event, padChannels, stopping, late>>

\* The initial HDR message after a StartB, then a change that is not seen yet.
SendHdr ==
  LET initial == sendHdr /\ connected # NoClient
      update == Hdr /\ hdrState # hdrSeen /\ connected # NoClient
  IN /\ at = "hdr"
     /\ at' = "top"
     /\ sendHdr' = FALSE
     /\ hdrSeen' = IF initial \/ update THEN hdrState ELSE hdrSeen
     /\ hdrTold' = IF (initial \/ update) /\ connected \in linked
                THEN [hdrTold EXCEPT ![connected] = hdrState] ELSE hdrTold
     /\ UNCHANGED <<linked, unreported, connected, started, hdrState, event, padChannels, stopping, late>>

-----------------------------------------------------------------------------
(* The gamepad handler, the devices, and the rest of the session.          *)

\* The handler takes an event; a gamepad with motion sensors is created and has
\* two commands to send, for accelerometer and gyroscope.  It sees a stop here.
HandlerTakes ==
  /\ creating = 0 /\ gamepadQ # <<>> /\ ~stopping
  /\ gamepadQ' = Tail(gamepadQ)
  /\ creating' = IF Head(gamepadQ) = "arrival" THEN 2 ELSE 0
  /\ UNCHANGED <<at, linkVars, hdrVars, event, feedbackQ, arrivals, stopping, late>>

\* The creation awaits room for its commands; a loop that ended takes no more.
HandlerSends ==
  /\ creating > 0
  /\ feedbackQ < FeedbackCap \/ at = "ended"
  /\ creating' = creating - 1
  /\ feedbackQ' = IF at = "ended" THEN feedbackQ ELSE feedbackQ + 1
  /\ UNCHANGED <<at, linkVars, hdrVars, event, gamepadQ, arrivals, stopping, late>>

\* When the handler has seen the stop its receiver is dropped: a send fails at once.
HandlerGone ==
  /\ stopping /\ creating = 0 /\ at = "forward"
  /\ event' = NoEvent
  /\ at' = "hdr"
  /\ UNCHANGED <<linkVars, hdrVars, padChannels, stopping, late>>

\* A game sets rumble, light or triggers: the device's callback sends a command.
DeviceCallback ==
  /\ at # "ended" /\ feedbackQ < FeedbackCap /\ feedbackQ < Callbacks
  /\ feedbackQ' = feedbackQ + 1
  /\ UNCHANGED <<at, linkVars, hdrVars, event, gamepadQ, creating, arrivals, stopping, late>>

HdrStateChanges ==
  /\ hdrState < HdrChanges
  /\ hdrState' = hdrState + 1
  /\ UNCHANGED <<at, linkVars, sendHdr, hdrSeen, event, padChannels, stopping, late>>

DeadlinePasses ==
  /\ ~late
  /\ late' = TRUE
  /\ UNCHANGED <<at, linkVars, hdrVars, event, padChannels, stopping>>

SessionStops ==
  /\ ~stopping
  /\ stopping' = TRUE
  /\ UNCHANGED <<at, linkVars, hdrVars, event, padChannels, late>>

-----------------------------------------------------------------------------
Handle ==
  \/ HandleNothing \/ HandleUndecodable \/ HandleMalformed \/ HandlePing
  \/ \E c \in Clients : HandleConnect(c) \/ HandleDisconnect(c) \/ HandleStartB(c)
  \/ \E e \in GamepadEvents : HandleGamepadInput(e)

LoopRound == ControlLoopEnds \/ TakeFeedback \/ Handle \/ Forwarded \/ HandlerGone \/ SendHdr

HandlerStep == HandlerTakes \/ HandlerSends

ControlNext ==
  \/ LoopRound \/ HandlerStep
  \/ DeviceCallback \/ HdrStateChanges \/ DeadlinePasses \/ SessionStops
  \/ \E c \in Clients : PeerLinks(c) \/ PeerLost(c)

\* Both tasks are scheduled.
ControlFairness == WF_controlVars(LoopRound) /\ WF_controlVars(HandlerStep)

ControlSafe == ControlInit /\ [][ControlNext]_controlVars
ControlSpec == ControlSafe /\ ControlFairness

-----------------------------------------------------------------------------
\* A client that was told the HDR state is never left with an old one: the change is
\* still marked as unseen and goes out in this round or the next.
HdrTold ==
  connected \in linked \cap started /\ hdrTold[connected] # -1 /\ hdrTold[connected] # hdrState =>
    hdrSeen # hdrState

\* The loop waits for room in the gamepad channel, and the gamepad handler for room
\* in the feedback channel, which only the loop drains: neither ever goes on.
MutualWait ==
  /\ at = "forward" /\ Len(gamepadQ) = GamepadCap
  /\ creating > 0 /\ feedbackQ = FeedbackCap

\* The stream ends after a stop, and when the pings stay away, whatever it was doing:
\* only the wait of the loop and the gamepad handler for each other keeps it from
\* that (the loop of ControlStreamInner::run, send_gamepad_event, FeedbackCommand).
ControlStops ==
  /\ stopping ~> (at = "ended" \/ MutualWait)
  /\ []late ~> (at = "ended" \/ MutualWait)
=============================================================================
