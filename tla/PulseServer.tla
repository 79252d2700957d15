----------------------------- MODULE PulseServer -----------------------------
(***************************************************************************)
(* The thread of the embedded PulseAudio server: its event loop over the   *)
(* clock, the listener and the clients' sockets, the buffered replies, and *)
(* the exchange of audio frames with the encoder.  What the messages do to *)
(* a stream is in module PulseStream; here a message is handled, answered  *)
(* or refused.                                                             *)
(***************************************************************************)
EXTENDS Integers, FiniteSets

CONSTANTS
  Peers,        \* the applications that connect
  Inbox,        \* bound: unread messages in a socket
  OutgoingCap,  \* MAX_OUTGOING_BUFFER, in messages
  FrameSlots    \* capacity of the frame and of the recycle channel: 3 in the code

ASSUME ServerAssumption ==
  /\ Inbox \in Nat \ {0} /\ OutgoingCap \in Nat /\ FrameSlots \in Nat \ {0}

VARIABLES
  loop,      \* "poll", "events", "recv" or "ended"
  reading,   \* the client of recv(), NoPeer elsewhere
  events,    \* what the last poll returned and is not handled yet
  peer,      \* the application's end: "away", "connected", "closed"
  backlog,   \* connections that are not accepted yet
  clients,   \* the server's map of clients
  sock,      \* unread messages
  fresh,     \* sockets with an edge since the last poll
  out,       \* messages in Client::outgoing
  watched,   \* clients registered for WRITABLE as well
  halted,    \* the session's stop has been triggered
  enc,       \* the encoder thread: "gate", "idle", "busy", "ended"
  queue,     \* frames on their way to the encoder
  recycle,   \* empty frames on their way back
  spare      \* spare_frame is there

peerVars  == <<peer, backlog, sock, fresh>>
loopVars  == <<loop, reading, events>>
tableVars == <<clients, out, watched>>
frameVars == <<enc, queue, recycle, spare>>
serverVars == <<peerVars, loopVars, tableVars, frameVars, halted>>

NoPeer == "nobody"
Clock == [of |-> NoPeer, kind |-> "clock"]
Accept == [of |-> NoPeer, kind |-> "listener"]
Events == {Clock, Accept} \cup [of : Peers, kind : {"closed", "readable", "writable"}]

ServerTypeOK ==
  /\ loop \in {"poll", "events", "recv", "ended"}
  /\ reading \in Peers \cup {NoPeer} /\ (loop = "recv") = (reading # NoPeer)
  /\ events \subseteq Events
  /\ peer \in [Peers -> {"away", "connected", "closed"}]
  /\ clients \subseteq Peers /\ watched \subseteq clients
  /\ fresh \subseteq Peers /\ backlog \subseteq Peers
  /\ sock \in [Peers -> 0 .. Inbox] /\ out \in [Peers -> Nat]
  /\ halted \in BOOLEAN /\ spare \in BOOLEAN
  /\ enc \in {"gate", "idle", "busy", "ended"}
  /\ {queue, recycle} \subseteq 0 .. FrameSlots

ServerInit ==
  /\ loop = "poll" /\ reading = NoPeer /\ events = {}
  /\ peer = [p \in Peers |-> "away"] /\ sock = [p \in Peers |-> 0]
  /\ backlog = {} /\ fresh = {} /\ clients = {} /\ out = [p \in Peers |-> 0] /\ watched = {}
  /\ halted = FALSE
  /\ enc = "gate" /\ queue = 0 /\ recycle = 0 /\ spare = FALSE

-----------------------------------------------------------------------------
(* The applications.                                                       *)

PeerConnects(p) ==
  /\ peer[p] = "away"
  /\ peer' = [peer EXCEPT ![p] = "connected"]
  /\ backlog' = backlog \cup {p}
  /\ UNCHANGED <<sock, fresh, loopVars, tableVars, frameVars, halted>>

\* A message or the end of the connection is an edge for the poll.
Reaches(p) == peer[p] = "connected" /\ p \in clients \cup backlog /\ fresh' = fresh \cup {p}

PeerSends(p) ==
  /\ Reaches(p)
  /\ sock[p] < Inbox
  /\ sock' = [sock EXCEPT ![p] = @ + 1]
  /\ UNCHANGED <<peer, backlog, loopVars, tableVars, frameVars, halted>>

PeerHangsUp(p) ==
  /\ Reaches(p)
  /\ peer' = [peer EXCEPT ![p] = "closed"]
  /\ UNCHANGED <<backlog, sock, loopVars, tableVars, frameVars, halted>>

-----------------------------------------------------------------------------
(* Replies.                                                                *)

\* What Client::flush() may leave of n buffered messages: all of them or some
\* when the socket is full, none otherwise.
Remains(p, n) ==
  IF peer[p] = "closed" THEN {n} ELSE 0 .. n

\* The client is dropped: its buffer is beyond the cap, or its peer is gone.
Hopeless(p, n) == n > OutgoingCap \/ (n > 0 /\ peer[p] = "closed")

\* Mutant: the interest in WRITABLE is not registered.
flush_unwatched(ps, pending) ==
  \E left \in [ps -> 0 .. OutgoingCap] :
    /\ \A p \in ps : left[p] <= pending[p]
    /\ clients' = clients
    /\ out' = [p \in Peers |-> IF p \in ps THEN left[p] ELSE pending[p]]
    /\ watched' = watched

\* flush_client() for the clients ps, whose buffers hold pending.
flush_client(ps, pending) ==
  LET dead == {p \in ps \cap clients : Hopeless(p, pending[p])}
      alive == (ps \cap clients) \ dead
  IN \E left \in [alive -> 0 .. OutgoingCap] :
       /\ \A p \in alive : left[p] \in Remains(p, pending[p])
       /\ clients' = clients \ dead
       /\ out' = [p \in Peers |-> IF p \in alive THEN left[p]
                                  ELSE IF p \in dead THEN 0 ELSE pending[p]]
       /\ watched' = (watched \ ps) \cup {p \in alive : left[p] > 0}

\* The client and its socket are dropped.
Drop(p) ==
  /\ clients' = clients \ {p}
  /\ watched' = watched \ {p}
  /\ out' = [out EXCEPT ![p] = 0]

-----------------------------------------------------------------------------
(* The event loop.                                                         *)

Event(p, kind) == [of |-> p, kind |-> kind]

\* A client's edges make one event; the loop handles the first kind that matches.
Edge(p, room) ==
  CASE p \in fresh \cap clients /\ peer[p] = "closed" -> {Event(p, "closed")}
    [] p \in fresh \cap clients /\ peer[p] # "closed" -> {Event(p, "readable")}
    [] p \in room \ (fresh \cap clients)              -> {Event(p, "writable")}
    [] OTHER                                          -> {}


\* poll() returns edges, clock expirations or nothing after a second, and the
\* loop looks at the stop.
Poll ==
  /\ loop = "poll"
  /\ \E clock \in SUBSET {Clock}, room \in SUBSET watched :
       events' = clock \cup {Accept : p \in backlog}
                       \cup UNION {Edge(p, room) : p \in Peers}
  /\ loop' = IF halted THEN "ended" ELSE "events"
  /\ fresh' = fresh \ clients
  /\ UNCHANGED <<reading, peer, backlog, sock, tableVars, frameVars, halted>>

EventsDone ==
  /\ loop = "events" /\ events = {}
  /\ loop' = "poll"
  /\ UNCHANGED <<reading, events, peerVars, tableVars, frameVars, halted>>

Takes(e) == loop = "events" /\ e \in events /\ events' = events \ {e}

\* accept() until it would block; registering a socket reports what it holds.
HandleListener ==
  /\ Takes(Accept)
  /\ clients' = clients \cup backlog
  /\ fresh' = fresh \cup backlog
  /\ backlog' = {}
  /\ UNCHANGED <<loop, reading, peer, sock, out, watched, frameVars, halted>>

HandleReadClosed(p) ==
  /\ Takes(Event(p, "closed"))
  /\ Drop(p)
  /\ UNCHANGED <<loop, reading, peerVars, frameVars, halted>>

HandleReadable(p) ==
  /\ Takes(Event(p, "readable"))
  /\ IF p \in clients THEN loop' = "recv" /\ reading' = p
     ELSE UNCHANGED <<loop, reading>>
  /\ UNCHANGED <<peerVars, tableVars, frameVars, halted>>

HandleWritable(p) ==
  /\ Takes(Event(p, "writable"))
  /\ flush_client({p}, out)
  /\ UNCHANGED <<loop, reading, peerVars, frameVars, halted>>

Returns == loop' = "events" /\ reading' = NoPeer /\ events' = events

\* The messages handle_command() buffers: a reply, an acknowledgement or an error
\* for what is answered at once, none for a drain and for samples.
Replies == {0, 1}

\* recv() reads a message, and handle_command() may buffer a reply.  What is
\* beyond the cap is not counted: the next flush drops the client.
RecvMessage ==
  /\ loop = "recv" /\ sock[reading] > 0
  /\ sock' = [sock EXCEPT ![reading] = @ - 1]
  /\ \E replies \in Replies :
       out' = [out EXCEPT ![reading] = IF @ > OutgoingCap THEN @ ELSE @ + replies]
  /\ UNCHANGED <<loopVars, peer, backlog, fresh, clients, watched, frameVars, halted>>

\* A message that cannot be decoded or handled costs its sender the connection.
RecvFails ==
  /\ loop = "recv" /\ sock[reading] > 0
  /\ sock' = [sock EXCEPT ![reading] = @ - 1]
  /\ Drop(reading)
  /\ Returns
  /\ UNCHANGED <<peer, backlog, fresh, frameVars, halted>>

\* The read would block: recv() returns and the replies are flushed.
RecvWouldBlock ==
  /\ loop = "recv" /\ sock[reading] = 0 /\ peer[reading] # "closed"
  /\ flush_client({reading}, out)
  /\ Returns
  /\ UNCHANGED <<peerVars, frameVars, halted>>

\* The read returns 0 bytes at the end of the stream: nothing is complete, and
\* recv() reads again.
RecvEndOfFile ==
  /\ loop = "recv" /\ sock[reading] = 0 /\ peer[reading] = "closed"
  /\ UNCHANGED serverVars

-----------------------------------------------------------------------------
(* The audio clock and the encoder.                                        *)

\* The frame a tick fills: a recycled one, else the spare one, else a new one.
TakeFrame ==
  IF recycle > 0 THEN recycle' = recycle - 1 /\ spare' = spare
  ELSE spare' = FALSE /\ recycle' = recycle

\* clock_tick(): streams produce messages for the clients told, everybody is
\* flushed, and the frame goes to the encoder or becomes the spare one.
clock_tick ==
  /\ Takes(Clock)
  /\ enc # "ended" \/ recycle > 0
  /\ \E told \in SUBSET clients :
       flush_client(clients, [p \in Peers |-> out[p] + IF p \in told THEN 1 ELSE 0])
  /\ \/ /\ enc # "ended" /\ queue < FrameSlots
        /\ queue' = queue + 1
        /\ TakeFrame
     \/ /\ enc # "ended" /\ queue = FrameSlots
        /\ recycle' = IF recycle > 0 THEN recycle - 1 ELSE 0
        /\ spare' = TRUE
        /\ queue' = queue
     \/ /\ enc = "ended"
        /\ TakeFrame
        /\ queue' = queue
  /\ UNCHANGED <<loop, reading, peerVars, enc, halted>>

\* The recycle channel is disconnected: the tick is given up at once.
TickGivesUp ==
  /\ Takes(Clock)
  /\ enc = "ended" /\ recycle = 0
  /\ UNCHANGED <<loop, reading, peerVars, tableVars, frameVars, halted>>

\* Past its gate the encoder seeds the recycle channel, which is empty then.
EncoderStarts ==
  /\ enc = "gate"
  /\ enc' = "idle"
  /\ recycle' = FrameSlots
  /\ UNCHANGED <<queue, spare, peerVars, loopVars, tableVars, halted>>

EncoderTakes ==
  /\ enc = "idle" /\ queue > 0 /\ ~halted
  /\ enc' = "busy"
  /\ queue' = queue - 1
  /\ UNCHANGED <<recycle, spare, peerVars, loopVars, tableVars, halted>>

\* try_send() drops the frame when the channel is full.
EncoderRecycles ==
  /\ enc = "busy"
  /\ enc' = "idle"
  /\ recycle' = IF recycle < FrameSlots THEN recycle + 1 ELSE recycle
  /\ UNCHANGED <<queue, spare, peerVars, loopVars, tableVars, halted>>

\* The encoder sees the stop between two frames; in recv() it only sees that the
\* server, which holds the sender, is gone.
EncoderEnds ==
  /\ halted
  /\ enc = "gate" \/ (enc = "idle" /\ (queue > 0 \/ loop = "ended"))
  /\ enc' = "ended"
  /\ UNCHANGED <<queue, recycle, spare, peerVars, loopVars, tableVars, halted>>

StopTriggered ==
  /\ ~halted
  /\ halted' = TRUE
  /\ UNCHANGED <<peerVars, loopVars, tableVars, frameVars>>

-----------------------------------------------------------------------------
LoopStep ==
  \/ Poll \/ EventsDone \/ HandleListener \/ clock_tick \/ TickGivesUp
  \/ \E p \in Peers : HandleReadClosed(p) \/ HandleReadable(p) \/ HandleWritable(p)
  \/ RecvMessage \/ RecvFails \/ RecvWouldBlock

EncoderStep == EncoderTakes \/ EncoderRecycles \/ EncoderEnds

ServerNext ==
  \/ LoopStep \/ RecvEndOfFile
  \/ EncoderStep \/ EncoderStarts
  \/ StopTriggered
  \/ \E p \in Peers : PeerConnects(p) \/ PeerSends(p) \/ PeerHangsUp(p)

\* Both threads go on, and a message that was sent once is read once.
ServerFairness ==
  /\ WF_serverVars(LoopStep)
  /\ SF_serverVars(RecvWouldBlock \/ RecvFails)
  /\ WF_serverVars(EncoderStep)

ServerSafe == ServerInit /\ [][ServerNext]_serverVars
ServerSpec == ServerSafe /\ ServerFairness

-----------------------------------------------------------------------------
\* Replies that a client did not take are never forgotten: whenever the server
\* polls, a client with buffered replies is registered for WRITABLE.
PendingWatched ==
  loop = "poll" => \A p \in clients : out[p] > 0 => p \in watched

\* What a peer sent, or its end, is never forgotten either: the server handles it,
\* is about to, or has an edge that the next poll reports.
InputSeen ==
  loop = "poll" =>
    \A p \in clients : sock[p] > 0 \/ peer[p] = "closed" => p \in fresh

\* Nothing is stranded by the edge-triggered poll: neither replies that a client
\* has not taken yet nor input or a hang-up that it has not seen
\* (flush_client, the READABLE and WRITABLE arms of the loop).
NothingStranded == PendingWatched /\ InputSeen

\* A client hung up after the poll that reported its messages: recv() reads the end
\* of the stream again and again, and serves nobody else any more.
Spins == loop = "recv" /\ sock[reading] = 0 /\ peer[reading] = "closed"

=============================================================================
