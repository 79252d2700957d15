----------------------------- MODULE PulseStream -----------------------------
(***************************************************************************)
(* One playback stream of the embedded PulseAudio server: its buffer, the  *)
(* demand the server accumulates and asks the client for, and the states   *)
(* in which the audio clock takes samples out of the buffer.  The server   *)
(* is one thread, so a command, a write and a clock tick are one step      *)
(* each.  All lengths are in frames (sample_spec's frame size).            *)
(***************************************************************************)
EXTENDS Integers

CONSTANTS
  Len10,       \* frames in 10 ms of the stream (len_10ms)
  TickLen,     \* frames the clock takes per tick: num_frames at the stream's rate
  DefaultMax,  \* periods of 10 ms in a default max_length: 20 in the code
  LimitMax,    \* periods of 10 ms that max_length may have at most: 100 in the code
  TargetLen,   \* periods of 10 ms in a target_length: 6 in the code
  Attrs,       \* the buffer attributes clients ask for
  Drains,      \* sequence numbers of drain commands: bounds how many there are
  Excess,      \* frames a client may write beyond what it was asked for
  Stale        \* bound: what a client may have been asked for and not written

Unset == -1    \* u32::MAX in a buffer attribute
Attr  == [max : Nat, target : Nat, minreq : Nat, prebuf : Nat]
Asked == [max : Nat \cup {Unset}, target : Nat \cup {Unset},
          minreq : Nat \cup {Unset}, prebuf : Nat \cup {Unset}]

ASSUME PulseAssumption ==
  /\ Len10 \in Nat /\ Len10 >= 2 /\ TickLen \in Nat \ {0}
  /\ {DefaultMax, LimitMax, TargetLen, Stale} \subseteq Nat \ {0}
  /\ Attrs \subseteq Asked
  /\ Drains \subseteq Nat /\ Excess \in Nat

VARIABLES
  state,      \* StreamState, "none" before the creation and after the removal
  awaited,    \* the bytes of Prebuffering(n), 0 in other states
  drainSeq,   \* the command that Draining(seq) answers, NoSeq in other states
  attr,       \* buffer_attr
  len,        \* buffer.len_bytes()
  missing,    \* demand not asked for yet
  requested,  \* what the server takes to be asked for and not received
  ahead,      \* write_offset - read_offset, which GetPlaybackLatency reports
  owed,       \* history: asked for in a reply or a REQUEST and not yet written
  open,       \* history: drain commands that have not been answered
  tuned       \* history: the client changed the buffering since the last seeding

pulseVars == <<state, awaited, drainSeq, attr, len, missing, requested,
               ahead, owed, open, tuned>>

NoSeq == -1
StreamState == {"none", "prebuffering", "corked", "playing", "draining"}

PulseTypeOK ==
  /\ state \in StreamState
  /\ awaited \in Nat /\ (state # "prebuffering" => awaited = 0)
  /\ drainSeq \in Drains \cup {NoSeq} /\ (state = "draining") = (drainSeq # NoSeq)
  /\ attr \in Attr
  /\ {len, missing, requested, owed} \subseteq Nat
  /\ ahead \in Int
  /\ open \subseteq Drains
  /\ tuned \in BOOLEAN

NoAttr == [max |-> 0, target |-> 0, minreq |-> 0, prebuf |-> 0]

PulseInit ==
  /\ state = "none" /\ awaited = 0 /\ drainSeq = NoSeq
  /\ attr = NoAttr
  /\ len = 0 /\ missing = 0 /\ requested = 0 /\ ahead = 0 /\ owed = 0
  /\ open = {} /\ tuned = FALSE

-----------------------------------------------------------------------------
(* Helpers of the code.                                                    *)

min(x, y) == IF x < y THEN x ELSE y
max(x, y) == IF x < y THEN y ELSE x
next_multiple_of(x, m) == ((x + m - 1) \div m) * m
saturating_sub(x, y) == IF x > y THEN x - y ELSE 0

\* The attributes the server settles on for those a client asks for.
configure_buffer(a) ==
  LET most == IF a.max = Unset THEN Len10 * DefaultMax
              ELSE min(a.max, Len10 * LimitMax)
      least == IF a.minreq = Unset THEN Len10 \div 2
               ELSE max(a.minreq, Len10 \div 2)
      target == IF a.target = Unset
                THEN min(next_multiple_of(Len10 * TargetLen, least), most)
                ELSE max(min(max(next_multiple_of(a.target, least),
                                 Len10 * TargetLen), most), 2 * least)
      prebuf == IF a.prebuf = Unset THEN target
                ELSE min(next_multiple_of(a.prebuf, least), target)
  IN [max |-> most, target |-> target, minreq |-> least, prebuf |-> prebuf]

\* Mutant: a stream that fills up has to wait for a minimum request as well.
pop_missing_whole(m, minreq, in_prebuf) ==
  IF m > 0 /\ m >= minreq THEN m ELSE 0

\* What a REQUEST asks for when m is missing: everything, once it is at least a
\* minimum request or the stream is filling up.
pop_missing(m, minreq, in_prebuf) ==
  IF m > 0 /\ (m >= minreq \/ in_prebuf) THEN m ELSE 0

\* The accounting after pop_missing() with m missing and r requested.
Request(m, r, minreq, in_prebuf) ==
  LET req == pop_missing(m, minreq, in_prebuf)
  IN /\ owed + req <= Stale
     /\ missing' = m - req
     /\ requested' = r + req
     /\ owed' = owed + req

Prebuffers(n) == state' = "prebuffering" /\ awaited' = n

Enters(s) == state' = s /\ awaited' = 0

-----------------------------------------------------------------------------
(* Commands of the client.                                                 *)

CreatePlaybackStream(a, start_corked) ==
  LET at == configure_buffer(a)
      corked == at.prebuf = 0 \/ start_corked
  IN /\ state = "none"
     /\ attr' = at
     /\ IF corked THEN Enters("corked") ELSE Prebuffers(at.prebuf)
     /\ Request(at.target, 0, at.minreq, ~corked)
     /\ len' = 0 /\ ahead' = 0 /\ tuned' = FALSE
     /\ UNCHANGED <<drainSeq, open>>

\* A block of samples; what does not fit under max_length is dropped with an
\* Overflow message.
handle_stream_write(n) ==
  LET taken == min(n, saturating_sub(attr.max, len))
  IN /\ state # "none"
     /\ IF state = "prebuffering" /\ awaited > taken
        THEN Prebuffers(awaited - taken)
        ELSE Enters(IF state = "prebuffering" THEN "playing" ELSE state)
     /\ len' = len + taken
     /\ requested' = saturating_sub(requested, taken)
     /\ ahead' = ahead + taken
     /\ owed' = saturating_sub(owed, n)
     /\ UNCHANGED <<drainSeq, attr, missing, open, tuned>>

DrainPlaybackStream(seq) ==
  /\ state # "none"
  /\ seq \notin open
  /\ Enters("draining")
  /\ drainSeq' = seq
  /\ open' = open \cup {seq}
  /\ UNCHANGED <<attr, len, missing, requested, ahead, owed, tuned>>

Cork ==
  /\ state \in {"playing", "prebuffering"}
  /\ Enters("corked")
  /\ UNCHANGED <<drainSeq, attr, len, missing, requested, ahead, owed, open, tuned>>

\* Mutant: the accounting from before the cork is kept.
UncorkKeepsDemand ==
  /\ state = "corked"
  /\ Prebuffers(attr.target)
  /\ UNCHANGED <<drainSeq, attr, len, missing, requested, ahead, owed, open, tuned>>

Uncork ==
  LET want == saturating_sub(attr.target, len)
  IN /\ state = "corked"
     /\ Request(want, 0, attr.minreq, TRUE)
     /\ IF want > 0 THEN Prebuffers(want) ELSE Enters("playing")
     /\ tuned' = FALSE
     /\ UNCHANGED <<drainSeq, attr, len, ahead, open>>

FlushPlaybackStream ==
  /\ state # "none"
  /\ len' = 0
  /\ missing' = attr.target
  /\ requested' = 0
  /\ ahead' = 0
  /\ UNCHANGED <<state, awaited, drainSeq, attr, owed, open, tuned>>

TriggerPlaybackStream ==
  /\ state = "prebuffering"
  /\ Enters("playing")
  /\ UNCHANGED <<drainSeq, attr, len, missing, requested, ahead, owed, open, tuned>>

PrebufPlaybackStream ==
  /\ state = "playing"
  /\ Prebuffers(attr.prebuf)
  /\ missing' = attr.prebuf
  /\ requested' = 0
  /\ tuned' = TRUE
  /\ UNCHANGED <<drainSeq, attr, len, ahead, owed, open>>

SetPlaybackStreamBufferAttr(a) ==
  LET at == configure_buffer(a)
  IN /\ state # "none"
     /\ attr' = at
     /\ missing' = saturating_sub(at.target, len + requested)
     /\ tuned' = TRUE
     /\ UNCHANGED <<state, awaited, drainSeq, len, requested, ahead, owed, open>>

Removed ==
  /\ state' = "none" /\ awaited' = 0 /\ drainSeq' = NoSeq
  /\ attr' = NoAttr
  /\ len' = 0 /\ missing' = 0 /\ requested' = 0 /\ ahead' = 0 /\ owed' = 0
  /\ tuned' = FALSE

DeletePlaybackStream ==
  /\ state # "none"
  /\ Removed
  /\ open' = open

\* The connection ends, and with it everything the client waits for.
ClientGone ==
  /\ state # "none" \/ open # {}
  /\ Removed
  /\ open' = {}

-----------------------------------------------------------------------------
(* The audio clock.                                                        *)

Consumes == state \in {"playing", "draining"}

\* PlaybackBuffer::drain() gives a whole tick's frames or none.
Drained == len >= TickLen

\* drain_and_mix() finds a tick's worth of frames.
TickPlays ==
  /\ Consumes /\ Drained
  /\ \/ /\ state = "playing"
        /\ Request(missing + TickLen, requested, attr.minreq, FALSE)
        /\ len' = len - TickLen
        /\ ahead' = ahead - TickLen
        /\ UNCHANGED <<state, awaited, drainSeq, attr, open, tuned>>
     \/ /\ state = "draining" /\ len > TickLen
        /\ len' = len - TickLen
        /\ ahead' = ahead - TickLen
        /\ missing' = missing + TickLen
        /\ UNCHANGED <<state, awaited, drainSeq, attr, requested, owed, open, tuned>>
     \/ /\ state = "draining" /\ len = TickLen
        /\ Removed
        /\ open' = open \ {drainSeq}

\* It does not: the client is told, and a playing stream fills up again.
TickUnderruns ==
  /\ Consumes /\ ~Drained
  /\ \/ /\ state = "playing" /\ attr.prebuf > 0
        /\ Prebuffers(attr.prebuf)
        /\ Request(attr.prebuf, 0, attr.minreq, TRUE)
        /\ tuned' = FALSE
        /\ UNCHANGED <<drainSeq, attr, len, ahead, open>>
     \/ /\ state = "playing" /\ attr.prebuf = 0
        /\ Request(missing, requested, attr.minreq, FALSE)
        /\ UNCHANGED <<state, awaited, drainSeq, attr, len, ahead, open, tuned>>

\* A stream that does not play only asks for what is missing.
TickRequests ==
  /\ state \in {"corked", "prebuffering"}
  /\ Request(missing, requested, attr.minreq, state = "prebuffering")
  /\ UNCHANGED <<state, awaited, drainSeq, attr, len, ahead, open, tuned>>

-----------------------------------------------------------------------------
Tick == TickPlays \/ TickUnderruns \/ TickRequests

Command ==
  \/ \E a \in Attrs : \/ \E corked \in BOOLEAN : CreatePlaybackStream(a, corked)
                      \/ SetPlaybackStreamBufferAttr(a)
  \/ \E seq \in Drains : DrainPlaybackStream(seq)
  \/ Cork \/ Uncork \/ FlushPlaybackStream \/ TriggerPlaybackStream
  \/ PrebufPlaybackStream \/ DeletePlaybackStream \/ ClientGone

PulseNext ==
  \/ Tick
  \/ Command
  \/ \E n \in 1 .. owed + Excess : handle_stream_write(n)

\* The clock ticks, and clients write what they are asked for.
PulseFairness ==
  /\ WF_pulseVars(Tick)
  /\ WF_pulseVars(handle_stream_write(owed) /\ owed > 0)

PulseSafe == PulseInit /\ [][PulseNext]_pulseVars
PulseSpec == PulseSafe /\ PulseFairness

-----------------------------------------------------------------------------
\* The latency that GetPlaybackLatency reports from its two offsets is what the
\* buffer holds, whatever was dropped, flushed, played or tuned before.
LatencyExact == ahead = len

\* The buffer can take what the stream fills up with beside a rest that is too short
\* for a tick, and without prebuffering a minimum request beside that rest is no more
\* than the target.  A client may ask for attributes without this room, and gets them.
Roomy(at) ==
  /\ at.target <= at.max /\ at.prebuf + TickLen <= at.max + 1
  /\ at.prebuf = 0 => at.minreq + TickLen <= at.target + 1

\* A stream cannot be starved by the server's own accounting: one that fills up
\* waits for no more than it asked for or will ask for, and for no more than fits;
\* one that plays dry with nothing on its way fills up again or asks.  Excepted is
\* a stream whose attributes leave no room, and one that Prebuf or SetBufferAttr
\* tuned since its demand was last seeded.
Fed ==
  ~tuned /\ Roomy(attr) =>
    /\ state = "prebuffering" => awaited <= owed + missing /\ awaited <= attr.max - len
    /\ state = "playing" /\ owed = 0 /\ len < TickLen =>
         attr.prebuf > 0 \/ missing >= attr.minreq

\* The offsets and the demand of a stream agree with its buffer, whatever the
\* client and the clock did to it before.
StreamAccounts == LatencyExact /\ Fed

\* A stream that fills up starts to play, or the client changes its state: the
\* clock asks for what is missing even when it is less than a minimum request.  The
\* exceptions are those of Fed.
Starts ==
  state = "prebuffering" /\ ~tuned /\ Roomy(attr) ~> state # "prebuffering" \/ tuned
=============================================================================
