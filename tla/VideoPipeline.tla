---------------------------- MODULE VideoPipeline ----------------------------
(***************************************************************************)
(* The video pipeline of one session: the encoding loop on its own thread, *)
(* the packet consumer task that numbers and sends encoded frames, the     *)
(* bounded channel between them, and the client whose IDR requests, loss   *)
(* reports and reconnects reach the loop through broadcast channels.       *)
(*                                                                         *)
(* A frame is known by its display order: the number of frames submitted   *)
(* to the encoder before it. The client knows a frame by the number the    *)
(* consumer gave it; base is the display order of the first frame after    *)
(* the last reset, which restarts that numbering.                          *)
(***************************************************************************)
EXTENDS Integers, Sequences, FiniteSets

CONSTANTS
    MaxInFlight,    \* MAX_FRAMES_IN_FLIGHT
    FrameChannel,   \* capacity of the compositor's frame channel
    Reports,        \* capacity of the loss report channel
    MaxFrames,      \* bound: frames submitted to the encoder
    MaxFaults,      \* bound: steps that fail
    MaxRequests,    \* bound: requests of the client
    Disruptions     \* what may go wrong: see Disruption

\* A capture cannot be imported or converted; encode() fails; the GPU is lost;
\* the encoded frame does not fit its buffer; its readback fails otherwise; it
\* cannot be packetized; the compositor ends; the network handler ends.
Disruption == {"import", "encode", "device", "overflow", "readback",
               "packetize", "compositor", "handler"}

ASSUME ConstantsAssumption ==
    /\ MaxInFlight \in Nat \ {0} /\ FrameChannel \in Nat \ {0}
    /\ Reports \in Nat \ {0} /\ MaxFrames \in Nat
    /\ MaxFaults \in Nat /\ MaxRequests \in Nat
    /\ Disruptions \subseteq Disruption

Capacity == MaxInFlight + 2     \* of the channel from loop to consumer
NoFrame  == -1                  \* "predicts from no frame"

VARIABLES
    loop,       \* where the encoding loop is
    pending,    \* pending_idr of the current iteration
    hasEncoded, \* has_encoded
    submitted,  \* submitted_count
    base,       \* frame_number_base
    out,        \* the message the loop is sending, or NoMessage
    queue,      \* the channel from loop to consumer
    inFlight,   \* in_flight
    consumer,   \* where the packet consumer is
    held,       \* the frame the consumer works on, or NoMessage
    number,     \* frame_number of the consumer
    handler,    \* the network handler holds the packet channel's receiver
    captures,   \* frames in the compositor's channel
    source,     \* the compositor holds that channel's sender
    forced,     \* the encoder's next frame will be an IDR
    refs,       \* the encoder's reference frames
    resetReq, idrReq,   \* a request is in the broadcast channel
    reports,    \* loss reports in their channel, oldest first
    lagged,     \* a loss report was overwritten
    stop,       \* the session's ShutdownManager is triggered
    faults,     \* steps that failed
    requests,   \* requests the client has made
    \* History, for the properties only:
    epoch,      \* base when the consumer last reset its counters
    log,        \* the frames the consumer has numbered
    reported,   \* display orders in loss reports on their way
    lost        \* display orders in loss reports the loop has seen

loopVars     == <<loop, pending, hasEncoded, submitted, base, out>>
consumerVars == <<consumer, held, number, epoch, log>>
encoderVars  == <<forced, refs>>
requestVars  == <<resetReq, idrReq, reports, lagged, requests, reported>>
peerVars     == <<handler, captures, source>>
vars == <<loopVars, consumerVars, encoderVars, requestVars, peerVars, queue,
          inFlight, stop, faults, lost>>

Frame == [kind : {"frame"}, display : Nat, ref : Nat \cup {NoFrame}, capture : BOOLEAN]
Reset == [kind : {"reset"}, to : Nat]
Message == Frame \cup Reset
NoMessage == [kind |-> "none"]
Numbered == [display : Nat, ref : Nat \cup {NoFrame}, number : Nat \ {0}, epoch : Nat]

IsFrame(m) == m.kind = "frame"

LoopTypes ==
    /\ loop \in {"top", "idr", "invalidate", "receive", "sending", "drain", "done"}
    /\ pending \in BOOLEAN /\ hasEncoded \in BOOLEAN
    /\ submitted \in Nat /\ base \in Nat
    /\ IF loop = "sending" THEN out \in Message ELSE out = NoMessage

ConsumerTypes ==
    /\ consumer \in {"receive", "await", "send", "gone"}
    /\ IF consumer \in {"await", "send"} THEN held \in Frame ELSE held = NoMessage
    /\ number \in Nat /\ epoch \in Nat /\ log \subseteq Numbered

RequestTypes ==
    /\ resetReq \in BOOLEAN /\ idrReq \in BOOLEAN /\ lagged \in BOOLEAN
    /\ reports \in Seq(Nat) /\ Len(reports) <= Reports
    /\ requests \in 0..MaxRequests
    /\ reported \subseteq Nat /\ lost \subseteq Nat

ChannelTypes == queue \in Seq(Message) /\ Len(queue) <= Capacity /\ inFlight \in Int

EncoderTypes == forced \in BOOLEAN /\ refs \subseteq Nat

PeerTypes ==
    /\ handler \in BOOLEAN /\ source \in BOOLEAN /\ stop \in BOOLEAN
    /\ captures \in 0..FrameChannel /\ submitted + captures <= MaxFrames
    /\ faults \in 0..MaxFaults

TypeOK == LoopTypes /\ ConsumerTypes /\ RequestTypes /\ ChannelTypes
          /\ EncoderTypes /\ PeerTypes

Init ==
    /\ loop = "top" /\ pending = FALSE /\ hasEncoded = FALSE
    /\ submitted = 0 /\ base = 0 /\ out = NoMessage
    /\ queue = <<>> /\ inFlight = 0
    /\ consumer = "receive" /\ held = NoMessage /\ number = 0 /\ epoch = 0 /\ log = {}
    /\ handler = TRUE /\ captures = 0 /\ source = TRUE
    /\ forced = FALSE /\ refs = {}
    /\ resetReq = FALSE /\ idrReq = FALSE /\ reports = <<>> /\ lagged = FALSE
    /\ stop = FALSE /\ faults = 0 /\ requests = 0 /\ reported = {} /\ lost = {}

\* Something of kind d goes wrong.
Fault(d) ==
    /\ d \in Disruptions /\ faults < MaxFaults
    /\ faults' = faults + 1

-----------------------------------------------------------------------------
(* pixelforge's encoder, as the loop uses it. *)

\* encode(): an IDR when one was requested or no reference survives; otherwise
\* the frame predicts from a reference. An IDR drops the older references, any
\* other frame may push some of them out.
Predicts == IF forced \/ refs = {} THEN {NoFrame} ELSE refs

\* A frame enters the encoder and is counted before its message is sent.
Submit(capture) ==
    /\ \E ref \in Predicts : \E old \in SUBSET refs :
        /\ ref = NoFrame => old = {}
        /\ out' = [kind |-> "frame", display |-> submitted, ref |-> ref,
                    capture |-> capture]
        /\ refs' = old \cup {submitted}
    /\ forced' = FALSE
    /\ submitted' = submitted + 1
    /\ inFlight' = inFlight + 1
    /\ loop' = "sending"

-----------------------------------------------------------------------------
(* The encoding loop. *)

\* The head of the loop: leave when the session stops; otherwise drain the
\* resets and, when there was one, send ResetCounters.
ResetCounters == [kind |-> "reset", to |-> submitted]

DrainResets ==
    /\ loop = "top" /\ ~stop
    /\ resetReq' = FALSE
    /\ IF resetReq
       THEN out' = ResetCounters /\ loop' = "sending"
       ELSE out' = NoMessage /\ loop' = "idr"
    /\ pending' = FALSE
    /\ UNCHANGED <<hasEncoded, submitted, base, consumerVars, encoderVars, idrReq,
                   reports, lagged, requests, reported, peerVars, queue, inFlight, stop,
                   faults, lost>>

SeeStop ==
    /\ loop = "top" /\ stop
    /\ loop' = "drain"
    /\ UNCHANGED <<pending, hasEncoded, submitted, base, out, consumerVars,
                   encoderVars, requestVars, peerVars, queue, inFlight, stop,
                   faults, lost>>

\* Seeded fault: a reset does not ask the encoder for an IDR.
AfterSendNoIdr(ok) ==
    /\ out' = NoMessage
    /\ IF IsFrame(out)
       THEN loop' = "top" /\ UNCHANGED <<base, pending>>
       ELSE loop' = "idr" /\ base' = submitted /\ pending' = TRUE
    /\ UNCHANGED <<hasEncoded, submitted, encoderVars, consumerVars, requestVars,
                   peerVars, inFlight, stop, faults, lost>>

\* What follows blocking_send: after a reset the new base and a forced IDR,
\* after a frame the next iteration. A closed channel ends the loop only when
\* the frame was a capture.
AfterSend(ok) ==
    /\ out' = NoMessage
    /\ IF IsFrame(out)
       THEN /\ loop' = IF out.capture /\ ~ok THEN "drain" ELSE "top"
            /\ UNCHANGED <<base, forced, pending>>
       ELSE /\ loop' = "idr" /\ base' = submitted
            /\ forced' = TRUE /\ pending' = TRUE
    /\ UNCHANGED <<hasEncoded, submitted, refs, consumerVars, requestVars, peerVars,
                   inFlight, stop, faults, lost>>

SendMessage ==
    /\ loop = "sending" /\ consumer # "gone" /\ Len(queue) < Capacity
    /\ queue' = Append(queue, out)
    /\ AfterSend(TRUE)

SendFails ==
    /\ loop = "sending" /\ consumer = "gone"
    /\ AfterSend(FALSE)
    /\ UNCHANGED queue

DrainIdrRequests ==
    /\ loop = "idr" /\ loop' = "invalidate"
    /\ idrReq' = FALSE
    /\ forced' = (forced \/ idrReq) /\ pending' = (pending \/ idrReq)
    /\ UNCHANGED <<hasEncoded, submitted, base, out, consumerVars, refs, resetReq,
                   reports, lagged, requests, reported, peerVars, queue, inFlight, stop,
                   faults, lost>>

\* Seeded fault: the client's numbers are taken to begin at 0.
NextDisplayOrder(first) == base + first

\* The display order of the first frame a report names; frame 0 counts as 1.
FirstDisplayOrder(first) == base + (IF first = 0 THEN 1 ELSE first) - 1

DrainInvalidations ==
    /\ loop = "invalidate" /\ loop' = "receive"
    /\ refs' = {r \in refs : \A i \in DOMAIN reports :
                                r < FirstDisplayOrder(reports[i])}
    /\ forced' = (forced \/ lagged) /\ pending' = (pending \/ lagged)
    /\ reports' = <<>> /\ lagged' = FALSE
    /\ lost' = lost \cup reported /\ reported' = {}
    /\ UNCHANGED <<hasEncoded, submitted, base, out, consumerVars, resetReq, idrReq,
                   requests, peerVars, queue, inFlight, stop, faults>>

\* recv_timeout() returns a capture; the gate drops it when the consumer is
\* behind.
DropCapture ==
    /\ loop = "receive" /\ captures > 0 /\ inFlight >= MaxInFlight
    /\ captures' = captures - 1 /\ loop' = "top"
    /\ UNCHANGED <<pending, hasEncoded, submitted, base, out, consumerVars,
                   encoderVars, requestVars, handler, source, queue,
                   inFlight, stop, faults, lost>>

EncodeCapture ==
    /\ loop = "receive" /\ captures > 0 /\ inFlight < MaxInFlight
    /\ captures' = captures - 1
    /\ Submit(TRUE)
    /\ hasEncoded' = TRUE
    /\ UNCHANGED <<pending, base, consumerVars, requestVars, handler,
                   source, queue, stop, faults, lost>>

\* The importer, the converter or encode() fails, and the loop goes on; only
\* the failure of encode() reaches the end of the iteration.
CaptureFails ==
    /\ loop = "receive" /\ captures > 0 /\ inFlight < MaxInFlight
    /\ \/ Fault("import") /\ UNCHANGED hasEncoded
       \/ Fault("encode") /\ hasEncoded' = TRUE
    /\ captures' = captures - 1 /\ loop' = "top"
    /\ UNCHANGED <<pending, submitted, base, out, consumerVars, encoderVars,
                   requestVars, handler, source, queue, inFlight, stop, lost>>

\* A lost device, or colours the encoder refuses: the thread returns at once.
DeviceLost ==
    /\ loop = "receive" /\ captures > 0 /\ inFlight < MaxInFlight
    /\ Fault("device")
    /\ captures' = captures - 1 /\ loop' = "done" /\ stop' = TRUE
    /\ UNCHANGED <<pending, hasEncoded, submitted, base, out, consumerVars,
                   encoderVars, requestVars, handler, source, queue,
                   inFlight, lost>>

\* recv_timeout() runs out: a requested IDR re-encodes the last image, whatever
\* the gate says.
Timeout ==
    /\ loop = "receive" /\ captures = 0 /\ source
    /\ IF pending /\ hasEncoded /\ submitted < MaxFrames
       THEN \/ Submit(FALSE) /\ UNCHANGED faults
            \/ /\ Fault("encode") /\ loop' = "top"
               /\ UNCHANGED <<out, refs, forced, submitted, inFlight>>
       ELSE /\ loop' = "top"
            /\ UNCHANGED <<out, refs, forced, submitted, inFlight, faults>>
    /\ UNCHANGED <<pending, hasEncoded, base, consumerVars, requestVars, peerVars,
                   queue, stop, lost>>

Disconnected ==
    /\ loop = "receive" /\ captures = 0 /\ ~source
    /\ loop' = "drain"
    /\ UNCHANGED <<pending, hasEncoded, submitted, base, out, consumerVars,
                   encoderVars, requestVars, peerVars, queue, inFlight, stop,
                   faults, lost>>

\* flush(), then wait for the consumer; the tokens of the thread go with it.
ThreadEnds ==
    /\ loop = "drain" /\ consumer = "gone"
    /\ loop' = "done" /\ stop' = TRUE
    /\ UNCHANGED <<pending, hasEncoded, submitted, base, out, consumerVars,
                   encoderVars, requestVars, peerVars, queue, inFlight, faults, lost>>

-----------------------------------------------------------------------------
(* The packet consumer. *)

\* Seeded fault: the end of an iteration does not release the slot.
ReleaseNothing == held' = NoMessage /\ UNCHANGED inFlight

\* The iteration of a frame ends: the guard releases its slot.
Release == held' = NoMessage /\ inFlight' = inFlight - 1

\* Seeded fault: the frame counter survives a reset.
TakeMessageKeepsNumber ==
    /\ consumer = "receive" /\ queue # <<>>
    /\ queue' = Tail(queue)
    /\ IF IsFrame(Head(queue))
       THEN held' = Head(queue) /\ consumer' = "await" /\ UNCHANGED epoch
       ELSE epoch' = Head(queue).to /\ UNCHANGED <<held, consumer>>
    /\ UNCHANGED <<loopVars, number, log, encoderVars, requestVars, peerVars,
                   inFlight, stop, faults, lost>>

TakeMessage ==
    /\ consumer = "receive" /\ queue # <<>>
    /\ queue' = Tail(queue)
    /\ IF IsFrame(Head(queue))
       THEN /\ held' = Head(queue) /\ consumer' = "await"
            /\ UNCHANGED <<number, epoch>>
       ELSE /\ number' = 0 /\ epoch' = Head(queue).to
            /\ UNCHANGED <<held, consumer>>
    /\ UNCHANGED <<loopVars, log, encoderVars, requestVars, peerVars, inFlight, stop,
                   faults, lost>>

\* The encode future resolves with a packet: the frame gets its number, and is
\* packetized or dropped.
NumberFrame ==
    /\ consumer = "await"
    /\ number' = number + 1
    /\ log' = log \cup {[display |-> held.display, ref |-> held.ref,
                         number |-> number + 1, epoch |-> epoch]}
    /\ \/ /\ consumer' = "send"
          /\ UNCHANGED <<held, inFlight, faults>>
       \/ /\ Fault("packetize") /\ consumer' = "receive" /\ Release
    /\ UNCHANGED <<loopVars, epoch, encoderVars, requestVars, peerVars, queue, stop,
                   lost>>

\* The future resolves with an error; an overflow requests an IDR.
ReadbackFails ==
    /\ consumer = "await" /\ consumer' = "receive"
    /\ \/ Fault("overflow") /\ idrReq' = TRUE
       \/ Fault("readback") /\ UNCHANGED idrReq
    /\ Release
    /\ UNCHANGED <<loopVars, number, epoch, log, encoderVars, resetReq, reports,
                   lagged, requests, reported, peerVars, queue, stop, lost>>

\* send() finds room in the packet channel, which the handler drains.
SendPackets ==
    /\ consumer = "send" /\ handler /\ consumer' = "receive"
    /\ Release
    /\ UNCHANGED <<loopVars, number, epoch, log, encoderVars, requestVars, peerVars,
                   queue, stop, faults, lost>>

\* The packet channel is closed: the consumer ends and its messages are dropped.
PacketsClosed ==
    /\ consumer = "send" /\ ~handler
    /\ consumer' = "gone" /\ queue' = <<>>
    /\ Release
    /\ UNCHANGED <<loopVars, number, epoch, log, encoderVars, requestVars, peerVars,
                   stop, faults, lost>>

\* Seeded fault: the loop keeps its sender while it waits for the consumer.
ConsumerEndsLate ==
    /\ consumer = "receive" /\ queue = <<>> /\ loop = "done"
    /\ consumer' = "gone"
    /\ UNCHANGED <<loopVars, held, number, epoch, log, encoderVars, requestVars,
                   peerVars, queue, inFlight, stop, faults, lost>>

\* The loop has dropped its sender and nothing is left.
ConsumerEnds ==
    /\ consumer = "receive" /\ queue = <<>> /\ loop \in {"drain", "done"}
    /\ consumer' = "gone"
    /\ UNCHANGED <<loopVars, held, number, epoch, log, encoderVars, requestVars,
                   peerVars, queue, inFlight, stop, faults, lost>>

-----------------------------------------------------------------------------
(* The compositor, the network handler and the client. *)

\* The compositor sends a frame when the screen changes, and one every second.
Capture ==
    /\ source /\ captures < FrameChannel /\ submitted + captures < MaxFrames
    /\ captures' = captures + 1
    /\ UNCHANGED <<loopVars, consumerVars, encoderVars, requestVars, handler,
                   source, queue, inFlight, stop, faults, lost>>

CompositorEnds ==
    /\ source /\ (stop \/ "compositor" \in Disruptions)
    /\ source' = FALSE /\ stop' = TRUE
    /\ UNCHANGED <<loopVars, consumerVars, encoderVars, requestVars, handler,
                   captures, queue, inFlight, faults, lost>>

HandlerEnds ==
    /\ handler /\ (stop \/ "handler" \in Disruptions)
    /\ handler' = FALSE /\ stop' = TRUE
    /\ UNCHANGED <<loopVars, consumerVars, encoderVars, requestVars, captures, source,
                   queue, inFlight, faults, lost>>

Request == ~stop /\ requests < MaxRequests /\ requests' = requests + 1

\* RequestIdrFrame, and the reset that a resumed session requests.
RequestIdr ==
    /\ Request /\ idrReq' = TRUE
    /\ UNCHANGED <<loopVars, consumerVars, encoderVars, resetReq, reports, lagged,
                   reported, peerVars, queue, inFlight, stop, faults, lost>>

RequestReset ==
    /\ Request /\ resetReq' = TRUE
    /\ UNCHANGED <<loopVars, consumerVars, encoderVars, idrReq, reports, lagged,
                   reported, peerVars, queue, inFlight, stop, faults, lost>>

\* The client misses a numbered frame and reports a range that begins there or
\* earlier. A full channel drops its oldest report.
ReportLoss ==
    /\ Request
    /\ \E f \in log : \E first \in 0..f.number :
        /\ reported' = reported \cup {f.display}
        /\ IF Len(reports) < Reports
           THEN reports' = Append(reports, first) /\ UNCHANGED lagged
           ELSE reports' = Append(Tail(reports), first) /\ lagged' = TRUE
    /\ UNCHANGED <<loopVars, consumerVars, encoderVars, resetReq, idrReq, peerVars,
                   queue, inFlight, stop, faults, lost>>

StopSession ==
    /\ ~stop /\ stop' = TRUE
    /\ UNCHANGED <<loopVars, consumerVars, encoderVars, requestVars, peerVars, queue,
                   inFlight, faults, lost>>

LoopStep == \/ DrainResets \/ SeeStop \/ SendMessage \/ SendFails
            \/ DrainIdrRequests \/ DrainInvalidations \/ DropCapture
            \/ EncodeCapture \/ CaptureFails \/ DeviceLost \/ Timeout
            \/ Disconnected \/ ThreadEnds

ConsumerStep == \/ TakeMessage \/ NumberFrame \/ ReadbackFails \/ SendPackets
                \/ PacketsClosed \/ ConsumerEnds

ClientStep == RequestIdr \/ RequestReset \/ ReportLoss \/ StopSession

Next == \/ LoopStep \/ ConsumerStep \/ ClientStep
        \/ Capture \/ CompositorEnds \/ HandlerEnds

Safe == Init /\ [][Next]_vars

\* The thread and the task run, the handler drains the packet channel, the compositor captures at least
\* once a second, and a stop ends handler and compositor.
Fairness ==
    /\ WF_vars(LoopStep) /\ WF_vars(ConsumerStep) /\ WF_vars(Capture)
    /\ WF_vars(stop /\ HandlerEnds) /\ WF_vars(stop /\ CompositorEnds)

Spec == Safe /\ Fairness
-----------------------------------------------------------------------------
(* Properties. *)

FramesIn(s) == Cardinality({i \in DOMAIN s : IsFrame(s[i])})

\* While the consumer lives, in_flight counts the frames that are submitted and
\* not finished, on every path of an iteration: the gate neither lets latency
\* grow nor drops captures for good.
InFlightExact ==
    consumer # "gone" => inFlight = FramesIn(queue \o <<out, held>>)

\* A frame never has a number that FirstDisplayOrder maps beyond its display
\* order: whatever was dropped between encoder and network, the mapping of a
\* loss report can only hit too many frames, in the epoch in which the frame
\* was numbered.
NumbersMapBack == \A f \in log : f.display >= f.epoch + f.number - 1

\* The first frame submitted after a reset is numbered 1 and is an IDR, though
\* frames of the old numbering are still on their way to the consumer when the
\* reset is requested.
CleanStart ==
    \A f \in log : f.display = f.epoch => f.number = 1 /\ f.ref = NoFrame

\* No frame predicts from one that the client has reported lost, also when the
\* report names a number of the time before a reset, when reports overwrite
\* each other, and when frames were dropped between encoder and network.
LostNotReferenced ==
    [][out' # out /\ IsFrame(out)' => out'.ref \notin lost]_vars

Exhausted == submitted + captures >= MaxFrames \/ ~source

\* A requested keyframe is encoded, though its request may be drained in an
\* iteration whose capture is then dropped by the gate or fails: the encoder
\* remembers what the loop forgets.
IdrAnswered == forced ~> (~forced \/ stop \/ Exhausted)

\* After a stop, the pipeline thread ends, wherever it and the consumer are
\* blocked.
PipelineStops == stop ~> (loop = "done" /\ consumer = "gone")

\* The comment on the overflow path: the IDR request keeps the client's
\* reference chain decodable. A numbered frame predicts from a frame that was
\* numbered too, so that the client has it or misses its number.
ChainDecodable ==
    \A f \in log : f.ref = NoFrame \/ \E g \in log : g.display = f.ref
=============================================================================
