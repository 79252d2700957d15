------------------------- MODULE VideoPipelineProofs -------------------------
(***************************************************************************)
(* Type correctness of VideoPipeline; the numbering of frames across       *)
(* resets; and the proof that no frame predicts from one the client has    *)
(* reported lost. All hold for every channel size and every disruption.    *)
(***************************************************************************)
EXTENDS VideoPipeline, SequenceTheorems, FiniteSetTheorems, TLAPS

\* A message is of one of the two kinds.
LEMMA MessageKind ==
    ASSUME NEW m \in Message
    PROVE  /\ IsFrame(m) => m \in Frame /\ m.display \in Nat
                            /\ m.ref \in Nat \cup {NoFrame} /\ m.capture \in BOOLEAN
           /\ ~IsFrame(m) => m \in Reset /\ m.to \in Nat
BY DEF IsFrame, Frame, Reset, Message

\* What Submit makes of the variables' types.
LEMMA SubmitTypes ==
    ASSUME TypeOK, NEW c \in BOOLEAN, Submit(c)
    PROVE  /\ out' \in Message /\ refs' \subseteq Nat /\ forced' = FALSE
           /\ submitted' = submitted + 1 /\ inFlight' \in Int
           /\ loop' = "sending"
<1>1. PICK ref \in Predicts, old \in SUBSET refs :
        /\ out' = [kind |-> "frame", display |-> submitted, ref |-> ref,
                   capture |-> c]
        /\ refs' = old \cup {submitted}
  BY DEF Submit
<1>2. ref \in Nat \cup {NoFrame}
  BY DEF Predicts, TypeOK, EncoderTypes
<1>3. submitted \in Nat /\ refs \subseteq Nat /\ inFlight \in Int
  BY DEF TypeOK, LoopTypes, ChannelTypes, EncoderTypes
<1>4. out' \in Message
  BY <1>1, <1>2, <1>3 DEF Frame, Message
<1> QED BY <1>1, <1>3, <1>4 DEF Submit

\* A step of the pipeline preserves the types of all variables and the bounds
\* of its channels.
LEMMA TypeStep == ASSUME TypeOK, [Next]_vars PROVE TypeOK'
<1> USE ConstantsAssumption DEF ConstantsAssumption
<1> /\ LoopTypes /\ ConsumerTypes /\ RequestTypes /\ ChannelTypes
    /\ EncoderTypes /\ PeerTypes
  BY DEF TypeOK
<1>1. CASE UNCHANGED vars
  <2>5. LoopTypes'
    BY <1>1 DEF vars, LoopTypes, loopVars, consumerVars, encoderVars, requestVars, peerVars
  <2>6. ConsumerTypes'
    BY <1>1 DEF vars, ConsumerTypes, loopVars, consumerVars, encoderVars, requestVars, peerVars
  <2>7. RequestTypes'
    BY <1>1 DEF vars, RequestTypes, loopVars, consumerVars, encoderVars, requestVars, peerVars
  <2>8. ChannelTypes'
    BY <1>1 DEF vars, ChannelTypes, loopVars, consumerVars, encoderVars, requestVars, peerVars
  <2>9. EncoderTypes'
    BY <1>1 DEF vars, EncoderTypes, RequestTypes, loopVars, consumerVars, encoderVars, requestVars, peerVars
  <2>10. PeerTypes'
    BY <1>1 DEF vars, LoopTypes, PeerTypes, loopVars, consumerVars, encoderVars, requestVars, peerVars
  <2> QED BY <2>5, <2>6, <2>7, <2>8, <2>9, <2>10 DEF TypeOK
<1>2. CASE DrainResets
  <2>1. ResetCounters \in Message
    BY DEF ResetCounters, Reset, Message, LoopTypes
  <2>5. LoopTypes'
    BY <1>2, <2>1 DEF DrainResets, LoopTypes, loopVars, consumerVars, encoderVars, requestVars, peerVars
  <2>6. ConsumerTypes'
    BY <1>2, <2>1 DEF DrainResets, ConsumerTypes, loopVars, consumerVars, encoderVars, requestVars, peerVars
  <2>7. RequestTypes'
    BY <1>2, <2>1 DEF DrainResets, RequestTypes, loopVars, consumerVars, encoderVars, requestVars, peerVars
  <2>8. ChannelTypes'
    BY <1>2, <2>1 DEF DrainResets, ChannelTypes, loopVars, consumerVars, encoderVars, requestVars, peerVars
  <2>9. EncoderTypes'
    BY <1>2, <2>1 DEF DrainResets, EncoderTypes, RequestTypes, loopVars, consumerVars, encoderVars, requestVars, peerVars
  <2>10. PeerTypes'
    BY <1>2, <2>1 DEF DrainResets, LoopTypes, PeerTypes, loopVars, consumerVars, encoderVars, requestVars, peerVars
  <2> QED BY <2>5, <2>6, <2>7, <2>8, <2>9, <2>10 DEF TypeOK
<1>3. CASE SeeStop
  <2>5. LoopTypes'
    BY <1>3 DEF SeeStop, LoopTypes, loopVars, consumerVars, encoderVars, requestVars, peerVars
  <2>6. ConsumerTypes'
    BY <1>3 DEF SeeStop, ConsumerTypes, loopVars, consumerVars, encoderVars, requestVars, peerVars
  <2>7. RequestTypes'
    BY <1>3 DEF SeeStop, RequestTypes, loopVars, consumerVars, encoderVars, requestVars, peerVars
  <2>8. ChannelTypes'
    BY <1>3 DEF SeeStop, ChannelTypes, loopVars, consumerVars, encoderVars, requestVars, peerVars
  <2>9. EncoderTypes'
    BY <1>3 DEF SeeStop, EncoderTypes, RequestTypes, loopVars, consumerVars, encoderVars, requestVars, peerVars
  <2>10. PeerTypes'
    BY <1>3 DEF SeeStop, LoopTypes, PeerTypes, loopVars, consumerVars, encoderVars, requestVars, peerVars
  <2> QED BY <2>5, <2>6, <2>7, <2>8, <2>9, <2>10 DEF TypeOK
<1>4. CASE SendMessage
  <2>1. Append(queue, out) \in Seq(Message) /\ Len(Append(queue, out)) = Len(queue) + 1
    BY <1>4, AppendProperties DEF SendMessage, LoopTypes, ChannelTypes
  <2>5. LoopTypes'
    BY <1>4, <2>1 DEF SendMessage, AfterSend, Capacity, LoopTypes, loopVars, consumerVars, encoderVars, requestVars, peerVars
  <2>6. ConsumerTypes'
    BY <1>4, <2>1 DEF SendMessage, AfterSend, Capacity, ConsumerTypes, loopVars, consumerVars, encoderVars, requestVars, peerVars
  <2>7. RequestTypes'
    BY <1>4, <2>1 DEF SendMessage, AfterSend, Capacity, RequestTypes, loopVars, consumerVars, encoderVars, requestVars, peerVars
  <2>8. ChannelTypes'
    BY <1>4, <2>1 DEF SendMessage, AfterSend, Capacity, ChannelTypes, loopVars, consumerVars, encoderVars, requestVars, peerVars
  <2>9. EncoderTypes'
    BY <1>4, <2>1 DEF SendMessage, AfterSend, Capacity, EncoderTypes, RequestTypes, loopVars, consumerVars, encoderVars, requestVars, peerVars
  <2>10. PeerTypes'
    BY <1>4, <2>1 DEF SendMessage, AfterSend, Capacity, LoopTypes, PeerTypes, loopVars, consumerVars, encoderVars, requestVars, peerVars
  <2> QED BY <2>5, <2>6, <2>7, <2>8, <2>9, <2>10 DEF TypeOK
<1>5. CASE SendFails
  <2>5. LoopTypes'
    BY <1>5 DEF SendFails, AfterSend, LoopTypes, loopVars, consumerVars, encoderVars, requestVars, peerVars
  <2>6. ConsumerTypes'
    BY <1>5 DEF SendFails, AfterSend, ConsumerTypes, loopVars, consumerVars, encoderVars, requestVars, peerVars
  <2>7. RequestTypes'
    BY <1>5 DEF SendFails, AfterSend, RequestTypes, loopVars, consumerVars, encoderVars, requestVars, peerVars
  <2>8. ChannelTypes'
    BY <1>5 DEF SendFails, AfterSend, ChannelTypes, loopVars, consumerVars, encoderVars, requestVars, peerVars
  <2>9. EncoderTypes'
    BY <1>5 DEF SendFails, AfterSend, EncoderTypes, RequestTypes, loopVars, consumerVars, encoderVars, requestVars, peerVars
  <2>10. PeerTypes'
    BY <1>5 DEF SendFails, AfterSend, LoopTypes, PeerTypes, loopVars, consumerVars, encoderVars, requestVars, peerVars
  <2> QED BY <2>5, <2>6, <2>7, <2>8, <2>9, <2>10 DEF TypeOK
<1>6. CASE DrainIdrRequests
  <2>5. LoopTypes'
    BY <1>6 DEF DrainIdrRequests, LoopTypes, loopVars, consumerVars, encoderVars, requestVars, peerVars
  <2>6. ConsumerTypes'
    BY <1>6 DEF DrainIdrRequests, ConsumerTypes, loopVars, consumerVars, encoderVars, requestVars, peerVars
  <2>7. RequestTypes'
    BY <1>6 DEF DrainIdrRequests, RequestTypes, loopVars, consumerVars, encoderVars, requestVars, peerVars
  <2>8. ChannelTypes'
    BY <1>6 DEF DrainIdrRequests, ChannelTypes, loopVars, consumerVars, encoderVars, requestVars, peerVars
  <2>9. EncoderTypes'
    BY <1>6 DEF DrainIdrRequests, EncoderTypes, RequestTypes, loopVars, consumerVars, encoderVars, requestVars, peerVars
  <2>10. PeerTypes'
    BY <1>6 DEF DrainIdrRequests, LoopTypes, PeerTypes, loopVars, consumerVars, encoderVars, requestVars, peerVars
  <2> QED BY <2>5, <2>6, <2>7, <2>8, <2>9, <2>10 DEF TypeOK
<1>7. CASE DrainInvalidations
  <2>1. <<>> \in Seq(Nat) /\ Len(<<>>) = 0
    BY EmptySeq
  <2>5. LoopTypes'
    BY <1>7, <2>1 DEF DrainInvalidations, LoopTypes, loopVars, consumerVars, encoderVars, requestVars, peerVars
  <2>6. ConsumerTypes'
    BY <1>7, <2>1 DEF DrainInvalidations, ConsumerTypes, loopVars, consumerVars, encoderVars, requestVars, peerVars
  <2>7. RequestTypes'
    <3>1. reports' \in Seq(Nat) /\ Len(reports') <= Reports
      BY <1>7, <2>1 DEF DrainInvalidations
    <3>2. requests' \in 0..MaxRequests
      BY <1>7 DEF DrainInvalidations, RequestTypes
    <3> QED BY <1>7, <3>1, <3>2, Zenon DEF DrainInvalidations, RequestTypes
  <2>8. ChannelTypes'
    BY <1>7, <2>1 DEF DrainInvalidations, ChannelTypes, loopVars, consumerVars, encoderVars, requestVars, peerVars
  <2>9. EncoderTypes'
    BY <1>7, <2>1 DEF DrainInvalidations, EncoderTypes, RequestTypes, loopVars, consumerVars, encoderVars, requestVars, peerVars
  <2>10. PeerTypes'
    BY <1>7, <2>1 DEF DrainInvalidations, LoopTypes, PeerTypes, loopVars, consumerVars, encoderVars, requestVars, peerVars
  <2> QED BY <2>5, <2>6, <2>7, <2>8, <2>9, <2>10 DEF TypeOK
<1>8. CASE DropCapture
  <2>5. LoopTypes'
    BY <1>8 DEF DropCapture, LoopTypes, loopVars, consumerVars, encoderVars, requestVars, peerVars
  <2>6. ConsumerTypes'
    BY <1>8 DEF DropCapture, ConsumerTypes, loopVars, consumerVars, encoderVars, requestVars, peerVars
  <2>7. RequestTypes'
    BY <1>8 DEF DropCapture, RequestTypes, loopVars, consumerVars, encoderVars, requestVars, peerVars
  <2>8. ChannelTypes'
    BY <1>8 DEF DropCapture, ChannelTypes, loopVars, consumerVars, encoderVars, requestVars, peerVars
  <2>9. EncoderTypes'
    BY <1>8 DEF DropCapture, EncoderTypes, RequestTypes, loopVars, consumerVars, encoderVars, requestVars, peerVars
  <2>10. PeerTypes'
    BY <1>8 DEF DropCapture, LoopTypes, PeerTypes, loopVars, consumerVars, encoderVars, requestVars, peerVars
  <2> QED BY <2>5, <2>6, <2>7, <2>8, <2>9, <2>10 DEF TypeOK
<1>9. CASE EncodeCapture
  <2>1. /\ out' \in Message /\ refs' \subseteq Nat /\ forced' = FALSE
        /\ submitted' = submitted + 1 /\ inFlight' \in Int /\ loop' = "sending"
    BY <1>9, SubmitTypes DEF EncodeCapture
  <2>5. LoopTypes'
    BY <1>9, <2>1 DEF EncodeCapture, LoopTypes, loopVars, consumerVars, encoderVars, requestVars, peerVars
  <2>6. ConsumerTypes'
    BY <1>9, <2>1 DEF EncodeCapture, ConsumerTypes, loopVars, consumerVars, encoderVars, requestVars, peerVars
  <2>7. RequestTypes'
    BY <1>9, <2>1 DEF EncodeCapture, RequestTypes, loopVars, consumerVars, encoderVars, requestVars, peerVars
  <2>8. ChannelTypes'
    BY <1>9, <2>1 DEF EncodeCapture, ChannelTypes, loopVars, consumerVars, encoderVars, requestVars, peerVars
  <2>9. EncoderTypes'
    BY <1>9, <2>1 DEF EncodeCapture, EncoderTypes, RequestTypes, loopVars, consumerVars, encoderVars, requestVars, peerVars
  <2>10. PeerTypes'
    BY <1>9, <2>1 DEF EncodeCapture, LoopTypes, PeerTypes, loopVars, consumerVars, encoderVars, requestVars, peerVars
  <2> QED BY <2>5, <2>6, <2>7, <2>8, <2>9, <2>10 DEF TypeOK
<1>10. CASE CaptureFails
  <2>5. LoopTypes'
    BY <1>10 DEF CaptureFails, Fault, LoopTypes, loopVars, consumerVars, encoderVars, requestVars, peerVars
  <2>6. ConsumerTypes'
    BY <1>10 DEF CaptureFails, Fault, ConsumerTypes, loopVars, consumerVars, encoderVars, requestVars, peerVars
  <2>7. RequestTypes'
    BY <1>10 DEF CaptureFails, Fault, RequestTypes, loopVars, consumerVars, encoderVars, requestVars, peerVars
  <2>8. ChannelTypes'
    BY <1>10 DEF CaptureFails, Fault, ChannelTypes, loopVars, consumerVars, encoderVars, requestVars, peerVars
  <2>9. EncoderTypes'
    BY <1>10 DEF CaptureFails, Fault, EncoderTypes, RequestTypes, loopVars, consumerVars, encoderVars, requestVars, peerVars
  <2>10. PeerTypes'
    BY <1>10 DEF CaptureFails, Fault, LoopTypes, PeerTypes, loopVars, consumerVars, encoderVars, requestVars, peerVars
  <2> QED BY <2>5, <2>6, <2>7, <2>8, <2>9, <2>10 DEF TypeOK
<1>11. CASE DeviceLost
  <2>5. LoopTypes'
    BY <1>11 DEF DeviceLost, Fault, LoopTypes, loopVars, consumerVars, encoderVars, requestVars, peerVars
  <2>6. ConsumerTypes'
    BY <1>11 DEF DeviceLost, Fault, ConsumerTypes, loopVars, consumerVars, encoderVars, requestVars, peerVars
  <2>7. RequestTypes'
    BY <1>11 DEF DeviceLost, Fault, RequestTypes, loopVars, consumerVars, encoderVars, requestVars, peerVars
  <2>8. ChannelTypes'
    BY <1>11 DEF DeviceLost, Fault, ChannelTypes, loopVars, consumerVars, encoderVars, requestVars, peerVars
  <2>9. EncoderTypes'
    BY <1>11 DEF DeviceLost, Fault, EncoderTypes, RequestTypes, loopVars, consumerVars, encoderVars, requestVars, peerVars
  <2>10. PeerTypes'
    BY <1>11 DEF DeviceLost, Fault, LoopTypes, PeerTypes, loopVars, consumerVars, encoderVars, requestVars, peerVars
  <2> QED BY <2>5, <2>6, <2>7, <2>8, <2>9, <2>10 DEF TypeOK
<1>12. CASE Timeout
  <2>1. CASE Submit(FALSE) /\ submitted < MaxFrames /\ UNCHANGED faults
    <3>1. /\ out' \in Message /\ refs' \subseteq Nat /\ forced' = FALSE
          /\ submitted' = submitted + 1 /\ inFlight' \in Int /\ loop' = "sending"
      BY <2>1, SubmitTypes
    <3>2. LoopTypes'
      BY <1>12, <3>1 DEF Timeout, LoopTypes
    <3>3. ConsumerTypes' /\ RequestTypes'
      BY <1>12 DEF Timeout, ConsumerTypes, RequestTypes, consumerVars, requestVars
    <3>4. ChannelTypes' /\ EncoderTypes'
      BY <1>12, <3>1 DEF Timeout, ChannelTypes, EncoderTypes
    <3>5. PeerTypes'
      BY <1>12, <2>1, <3>1 DEF Timeout, LoopTypes, PeerTypes, peerVars
    <3> QED BY <3>2, <3>3, <3>4, <3>5 DEF TypeOK
  <2>2. CASE loop' = "top" /\ UNCHANGED <<out, refs, forced, submitted, inFlight>>
             /\ (Fault("encode") \/ UNCHANGED faults)
    <3>2. LoopTypes'
      BY <1>12, <2>2 DEF Timeout, LoopTypes
    <3>3. ConsumerTypes' /\ RequestTypes'
      BY <1>12 DEF Timeout, ConsumerTypes, RequestTypes, consumerVars, requestVars
    <3>4. ChannelTypes' /\ EncoderTypes'
      BY <1>12, <2>2 DEF Timeout, ChannelTypes, EncoderTypes
    <3>5. PeerTypes'
      BY <1>12, <2>2 DEF Timeout, Fault, PeerTypes, peerVars
    <3> QED BY <3>2, <3>3, <3>4, <3>5 DEF TypeOK
  <2> QED BY <1>12, <2>1, <2>2 DEF Timeout
<1>13. CASE Disconnected
  <2>5. LoopTypes'
    BY <1>13 DEF Disconnected, LoopTypes, loopVars, consumerVars, encoderVars, requestVars, peerVars
  <2>6. ConsumerTypes'
    BY <1>13 DEF Disconnected, ConsumerTypes, loopVars, consumerVars, encoderVars, requestVars, peerVars
  <2>7. RequestTypes'
    BY <1>13 DEF Disconnected, RequestTypes, loopVars, consumerVars, encoderVars, requestVars, peerVars
  <2>8. ChannelTypes'
    BY <1>13 DEF Disconnected, ChannelTypes, loopVars, consumerVars, encoderVars, requestVars, peerVars
  <2>9. EncoderTypes'
    BY <1>13 DEF Disconnected, EncoderTypes, RequestTypes, loopVars, consumerVars, encoderVars, requestVars, peerVars
  <2>10. PeerTypes'
    BY <1>13 DEF Disconnected, LoopTypes, PeerTypes, loopVars, consumerVars, encoderVars, requestVars, peerVars
  <2> QED BY <2>5, <2>6, <2>7, <2>8, <2>9, <2>10 DEF TypeOK
<1>14. CASE ThreadEnds
  <2>5. LoopTypes'
    BY <1>14 DEF ThreadEnds, LoopTypes, loopVars, consumerVars, encoderVars, requestVars, peerVars
  <2>6. ConsumerTypes'
    BY <1>14 DEF ThreadEnds, ConsumerTypes, loopVars, consumerVars, encoderVars, requestVars, peerVars
  <2>7. RequestTypes'
    BY <1>14 DEF ThreadEnds, RequestTypes, loopVars, consumerVars, encoderVars, requestVars, peerVars
  <2>8. ChannelTypes'
    BY <1>14 DEF ThreadEnds, ChannelTypes, loopVars, consumerVars, encoderVars, requestVars, peerVars
  <2>9. EncoderTypes'
    BY <1>14 DEF ThreadEnds, EncoderTypes, RequestTypes, loopVars, consumerVars, encoderVars, requestVars, peerVars
  <2>10. PeerTypes'
    BY <1>14 DEF ThreadEnds, LoopTypes, PeerTypes, loopVars, consumerVars, encoderVars, requestVars, peerVars
  <2> QED BY <2>5, <2>6, <2>7, <2>8, <2>9, <2>10 DEF TypeOK
<1>15. CASE TakeMessage
  <2>1. /\ Head(queue) \in Message /\ Tail(queue) \in Seq(Message)
        /\ Len(Tail(queue)) = Len(queue) - 1
    BY <1>15, HeadTailProperties DEF TakeMessage, ChannelTypes
  <2>2. /\ IsFrame(Head(queue)) => Head(queue) \in Frame
        /\ ~IsFrame(Head(queue)) => Head(queue).to \in Nat
    BY <2>1, MessageKind
  <2>5. LoopTypes'
    BY <1>15, <2>1, <2>2 DEF TakeMessage, LoopTypes, loopVars, consumerVars, encoderVars, requestVars, peerVars
  <2>6. ConsumerTypes'
    BY <1>15, <2>1, <2>2 DEF TakeMessage, ConsumerTypes, loopVars, consumerVars, encoderVars, requestVars, peerVars
  <2>7. RequestTypes'
    BY <1>15, <2>1, <2>2 DEF TakeMessage, RequestTypes, loopVars, consumerVars, encoderVars, requestVars, peerVars
  <2>8. ChannelTypes'
    BY <1>15, <2>1, LenProperties DEF TakeMessage, ChannelTypes, Capacity, loopVars, consumerVars, encoderVars, requestVars, peerVars
  <2>9. EncoderTypes'
    BY <1>15, <2>1, <2>2 DEF TakeMessage, EncoderTypes, RequestTypes, loopVars, consumerVars, encoderVars, requestVars, peerVars
  <2>10. PeerTypes'
    BY <1>15, <2>1, <2>2 DEF TakeMessage, LoopTypes, PeerTypes, loopVars, consumerVars, encoderVars, requestVars, peerVars
  <2> QED BY <2>5, <2>6, <2>7, <2>8, <2>9, <2>10 DEF TypeOK
<1>16. CASE NumberFrame
  <2>1. [display |-> held.display, ref |-> held.ref,
         number |-> number + 1, epoch |-> epoch] \in Numbered
    BY <1>16 DEF NumberFrame, Frame, Numbered, ConsumerTypes
  <2>5. LoopTypes'
    BY <1>16, <2>1 DEF NumberFrame, Release, Fault, LoopTypes, loopVars, consumerVars, encoderVars, requestVars, peerVars
  <2>6. ConsumerTypes'
    BY <1>16, <2>1 DEF NumberFrame, Release, Fault, ConsumerTypes, loopVars, consumerVars, encoderVars, requestVars, peerVars
  <2>7. RequestTypes'
    BY <1>16, <2>1 DEF NumberFrame, Release, Fault, RequestTypes, loopVars, consumerVars, encoderVars, requestVars, peerVars
  <2>8. ChannelTypes'
    BY <1>16, <2>1 DEF NumberFrame, Release, Fault, ChannelTypes, loopVars, consumerVars, encoderVars, requestVars, peerVars
  <2>9. EncoderTypes'
    BY <1>16, <2>1 DEF NumberFrame, Release, Fault, EncoderTypes, RequestTypes, loopVars, consumerVars, encoderVars, requestVars, peerVars
  <2>10. PeerTypes'
    BY <1>16, <2>1 DEF NumberFrame, Release, Fault, LoopTypes, PeerTypes, loopVars, consumerVars, encoderVars, requestVars, peerVars
  <2> QED BY <2>5, <2>6, <2>7, <2>8, <2>9, <2>10 DEF TypeOK
<1>17. CASE ReadbackFails
  <2>5. LoopTypes'
    BY <1>17 DEF ReadbackFails, Release, Fault, LoopTypes, loopVars, consumerVars, encoderVars, requestVars, peerVars
  <2>6. ConsumerTypes'
    BY <1>17 DEF ReadbackFails, Release, Fault, ConsumerTypes, loopVars, consumerVars, encoderVars, requestVars, peerVars
  <2>7. RequestTypes'
    BY <1>17 DEF ReadbackFails, Release, Fault, RequestTypes, loopVars, consumerVars, encoderVars, requestVars, peerVars
  <2>8. ChannelTypes'
    BY <1>17 DEF ReadbackFails, Release, Fault, ChannelTypes, loopVars, consumerVars, encoderVars, requestVars, peerVars
  <2>9. EncoderTypes'
    BY <1>17 DEF ReadbackFails, Release, Fault, EncoderTypes, RequestTypes, loopVars, consumerVars, encoderVars, requestVars, peerVars
  <2>10. PeerTypes'
    BY <1>17 DEF ReadbackFails, Release, Fault, LoopTypes, PeerTypes, loopVars, consumerVars, encoderVars, requestVars, peerVars
  <2> QED BY <2>5, <2>6, <2>7, <2>8, <2>9, <2>10 DEF TypeOK
<1>18. CASE SendPackets
  <2>5. LoopTypes'
    BY <1>18 DEF SendPackets, Release, LoopTypes, loopVars, consumerVars, encoderVars, requestVars, peerVars
  <2>6. ConsumerTypes'
    BY <1>18 DEF SendPackets, Release, ConsumerTypes, loopVars, consumerVars, encoderVars, requestVars, peerVars
  <2>7. RequestTypes'
    BY <1>18 DEF SendPackets, Release, RequestTypes, loopVars, consumerVars, encoderVars, requestVars, peerVars
  <2>8. ChannelTypes'
    BY <1>18 DEF SendPackets, Release, ChannelTypes, loopVars, consumerVars, encoderVars, requestVars, peerVars
  <2>9. EncoderTypes'
    BY <1>18 DEF SendPackets, Release, EncoderTypes, RequestTypes, loopVars, consumerVars, encoderVars, requestVars, peerVars
  <2>10. PeerTypes'
    BY <1>18 DEF SendPackets, Release, LoopTypes, PeerTypes, loopVars, consumerVars, encoderVars, requestVars, peerVars
  <2> QED BY <2>5, <2>6, <2>7, <2>8, <2>9, <2>10 DEF TypeOK
<1>19. CASE PacketsClosed
  <2>1. <<>> \in Seq(Message) /\ Len(<<>>) = 0
    BY EmptySeq
  <2>5. LoopTypes'
    BY <1>19, <2>1 DEF PacketsClosed, Release, Capacity, LoopTypes, loopVars, consumerVars, encoderVars, requestVars, peerVars
  <2>6. ConsumerTypes'
    BY <1>19, <2>1 DEF PacketsClosed, Release, Capacity, ConsumerTypes, loopVars, consumerVars, encoderVars, requestVars, peerVars
  <2>7. RequestTypes'
    BY <1>19, <2>1 DEF PacketsClosed, Release, Capacity, RequestTypes, loopVars, consumerVars, encoderVars, requestVars, peerVars
  <2>8. ChannelTypes'
    BY <1>19, <2>1 DEF PacketsClosed, Release, Capacity, ChannelTypes, loopVars, consumerVars, encoderVars, requestVars, peerVars
  <2>9. EncoderTypes'
    BY <1>19, <2>1 DEF PacketsClosed, Release, Capacity, EncoderTypes, RequestTypes, loopVars, consumerVars, encoderVars, requestVars, peerVars
  <2>10. PeerTypes'
    BY <1>19, <2>1 DEF PacketsClosed, Release, Capacity, LoopTypes, PeerTypes, loopVars, consumerVars, encoderVars, requestVars, peerVars
  <2> QED BY <2>5, <2>6, <2>7, <2>8, <2>9, <2>10 DEF TypeOK
<1>20. CASE ConsumerEnds
  <2>5. LoopTypes'
    BY <1>20 DEF ConsumerEnds, LoopTypes, loopVars, consumerVars, encoderVars, requestVars, peerVars
  <2>6. ConsumerTypes'
    BY <1>20 DEF ConsumerEnds, ConsumerTypes, loopVars, consumerVars, encoderVars, requestVars, peerVars
  <2>7. RequestTypes'
    BY <1>20 DEF ConsumerEnds, RequestTypes, loopVars, consumerVars, encoderVars, requestVars, peerVars
  <2>8. ChannelTypes'
    BY <1>20 DEF ConsumerEnds, ChannelTypes, loopVars, consumerVars, encoderVars, requestVars, peerVars
  <2>9. EncoderTypes'
    BY <1>20 DEF ConsumerEnds, EncoderTypes, RequestTypes, loopVars, consumerVars, encoderVars, requestVars, peerVars
  <2>10. PeerTypes'
    BY <1>20 DEF ConsumerEnds, LoopTypes, PeerTypes, loopVars, consumerVars, encoderVars, requestVars, peerVars
  <2> QED BY <2>5, <2>6, <2>7, <2>8, <2>9, <2>10 DEF TypeOK
<1>21. CASE Capture
  <2>5. LoopTypes'
    BY <1>21 DEF Capture, LoopTypes, loopVars, consumerVars, encoderVars, requestVars, peerVars
  <2>6. ConsumerTypes'
    BY <1>21 DEF Capture, ConsumerTypes, loopVars, consumerVars, encoderVars, requestVars, peerVars
  <2>7. RequestTypes'
    BY <1>21 DEF Capture, RequestTypes, loopVars, consumerVars, encoderVars, requestVars, peerVars
  <2>8. ChannelTypes'
    BY <1>21 DEF Capture, ChannelTypes, loopVars, consumerVars, encoderVars, requestVars, peerVars
  <2>9. EncoderTypes'
    BY <1>21 DEF Capture, EncoderTypes, RequestTypes, loopVars, consumerVars, encoderVars, requestVars, peerVars
  <2>10. PeerTypes'
    BY <1>21 DEF Capture, LoopTypes, PeerTypes, loopVars, consumerVars, encoderVars, requestVars, peerVars
  <2> QED BY <2>5, <2>6, <2>7, <2>8, <2>9, <2>10 DEF TypeOK
<1>22. CASE CompositorEnds \/ HandlerEnds \/ StopSession
  <2>5. LoopTypes'
    BY <1>22 DEF CompositorEnds, HandlerEnds, StopSession, LoopTypes, loopVars, consumerVars, encoderVars, requestVars, peerVars
  <2>6. ConsumerTypes'
    BY <1>22 DEF CompositorEnds, HandlerEnds, StopSession, ConsumerTypes, loopVars, consumerVars, encoderVars, requestVars, peerVars
  <2>7. RequestTypes'
    BY <1>22 DEF CompositorEnds, HandlerEnds, StopSession, RequestTypes, loopVars, consumerVars, encoderVars, requestVars, peerVars
  <2>8. ChannelTypes'
    BY <1>22 DEF CompositorEnds, HandlerEnds, StopSession, ChannelTypes, loopVars, consumerVars, encoderVars, requestVars, peerVars
  <2>9. EncoderTypes'
    BY <1>22 DEF CompositorEnds, HandlerEnds, StopSession, EncoderTypes, RequestTypes, loopVars, consumerVars, encoderVars, requestVars, peerVars
  <2>10. PeerTypes'
    BY <1>22 DEF CompositorEnds, HandlerEnds, StopSession, LoopTypes, PeerTypes, loopVars, consumerVars, encoderVars, requestVars, peerVars
  <2> QED BY <2>5, <2>6, <2>7, <2>8, <2>9, <2>10 DEF TypeOK
<1>23. CASE RequestIdr \/ RequestReset
  <2>5. LoopTypes'
    BY <1>23 DEF RequestIdr, RequestReset, Request, LoopTypes, loopVars, consumerVars, encoderVars, requestVars, peerVars
  <2>6. ConsumerTypes'
    BY <1>23 DEF RequestIdr, RequestReset, Request, ConsumerTypes, loopVars, consumerVars, encoderVars, requestVars, peerVars
  <2>7. RequestTypes'
    <3>1. requests' \in 0..MaxRequests
      BY <1>23 DEF RequestIdr, RequestReset, Request, RequestTypes
    <3> QED BY <1>23, <3>1 DEF RequestIdr, RequestReset, RequestTypes
  <2>8. ChannelTypes'
    BY <1>23 DEF RequestIdr, RequestReset, Request, ChannelTypes, loopVars, consumerVars, encoderVars, requestVars, peerVars
  <2>9. EncoderTypes'
    BY <1>23 DEF RequestIdr, RequestReset, Request, EncoderTypes, RequestTypes, loopVars, consumerVars, encoderVars, requestVars, peerVars
  <2>10. PeerTypes'
    BY <1>23 DEF RequestIdr, RequestReset, Request, LoopTypes, PeerTypes, loopVars, consumerVars, encoderVars, requestVars, peerVars
  <2> QED BY <2>5, <2>6, <2>7, <2>8, <2>9, <2>10 DEF TypeOK
<1>24. CASE ReportLoss
  <2>1. PICK f \in log : \E first \in 0..f.number :
          /\ reported' = reported \cup {f.display}
          /\ IF Len(reports) < Reports
             THEN reports' = Append(reports, first) /\ UNCHANGED lagged
             ELSE reports' = Append(Tail(reports), first) /\ lagged' = TRUE
    BY <1>24 DEF ReportLoss
  <2>2. f.display \in Nat /\ reported' \subseteq Nat /\ lagged' \in BOOLEAN
    BY <2>1 DEF ConsumerTypes, RequestTypes, Numbered
  <2>3. reports' \in Seq(Nat) /\ Len(reports') <= Reports
    <3>1. PICK first \in 0..f.number :
            \/ Len(reports) < Reports /\ reports' = Append(reports, first)
            \/ Len(reports) = Reports /\ reports' = Append(Tail(reports), first)
      BY <2>1 DEF RequestTypes
    <3>2. first \in Nat
      BY DEF ConsumerTypes, Numbered
    <3>3. reports \in Seq(Nat)
      BY DEF RequestTypes
    <3>4. CASE Len(reports) < Reports /\ reports' = Append(reports, first)
      BY <3>2, <3>3, <3>4, AppendProperties
    <3>5. CASE Len(reports) = Reports /\ reports' = Append(Tail(reports), first)
      <4>1. Tail(reports) \in Seq(Nat) /\ Len(Tail(reports)) = Reports - 1
        BY <3>3, <3>5, HeadTailProperties, EmptySeq
      <4> QED BY <3>2, <3>5, <4>1, AppendProperties
    <3> QED BY <3>1, <3>4, <3>5
  <2>5. LoopTypes'
    BY <1>24, <2>2, <2>3 DEF ReportLoss, Request, LoopTypes, loopVars, consumerVars, encoderVars, requestVars, peerVars
  <2>6. ConsumerTypes'
    BY <1>24, <2>2, <2>3 DEF ReportLoss, Request, ConsumerTypes, loopVars, consumerVars, encoderVars, requestVars, peerVars
  <2>7. RequestTypes'
    BY <1>24, <2>2, <2>3 DEF ReportLoss, Request, RequestTypes, loopVars, consumerVars, encoderVars, requestVars, peerVars
  <2>8. ChannelTypes'
    BY <1>24, <2>2, <2>3 DEF ReportLoss, Request, ChannelTypes, loopVars, consumerVars, encoderVars, requestVars, peerVars
  <2>9. EncoderTypes'
    BY <1>24, <2>2, <2>3 DEF ReportLoss, Request, EncoderTypes, RequestTypes, loopVars, consumerVars, encoderVars, requestVars, peerVars
  <2>10. PeerTypes'
    BY <1>24, <2>2, <2>3 DEF ReportLoss, Request, LoopTypes, PeerTypes, loopVars, consumerVars, encoderVars, requestVars, peerVars
  <2> QED BY <2>5, <2>6, <2>7, <2>8, <2>9, <2>10 DEF TypeOK
<1> QED
  BY <1>1, <1>2, <1>3, <1>4, <1>5, <1>6, <1>7, <1>8, <1>9, <1>10, <1>11, <1>12, <1>13,
     <1>14, <1>15, <1>16, <1>17, <1>18, <1>19, <1>20, <1>21, <1>22, <1>23, <1>24
  DEF Next, LoopStep, ConsumerStep, ClientStep

\* The initial state is well typed.
LEMMA TypeInit == Init => TypeOK
<1> SUFFICES ASSUME Init PROVE TypeOK
  OBVIOUS
<1> USE ConstantsAssumption DEF ConstantsAssumption
<1>1. <<>> \in Seq(Message) /\ <<>> \in Seq(Nat) /\ Len(<<>>) = 0
  BY EmptySeq
<1>2. LoopTypes /\ ConsumerTypes
  BY DEF Init, LoopTypes, ConsumerTypes
<1>3. EncoderTypes /\ lagged \in BOOLEAN /\ resetReq \in BOOLEAN /\ idrReq \in BOOLEAN
  BY DEF Init, EncoderTypes
<1>4. /\ requests \in 0..MaxRequests /\ reported \subseteq Nat /\ lost \subseteq Nat
      /\ reports \in Seq(Nat) /\ Len(reports) <= Reports
  BY <1>1 DEF Init
<1>5. RequestTypes
  BY <1>3, <1>4 DEF RequestTypes
<1>6. ChannelTypes
  BY <1>1 DEF Init, ChannelTypes, Capacity
<1>7. handler \in BOOLEAN /\ source \in BOOLEAN /\ stop \in BOOLEAN
  BY DEF Init
<1>8. /\ captures \in 0..FrameChannel /\ submitted + captures <= MaxFrames
      /\ faults \in 0..MaxFaults
  BY DEF Init
<1> QED BY <1>2, <1>3, <1>5, <1>6, <1>7, <1>8 DEF TypeOK, PeerTypes

\* Every reachable state of the pipeline is well typed, and the channels keep
\* their bounds.
THEOREM TypeCorrect == Safe => []TypeOK
<1>1. Init => TypeOK
  BY TypeInit
<1>2. TypeOK /\ [Next]_vars => TypeOK'
  BY TypeStep
<1> QED BY <1>1, <1>2, PTL DEF Safe

-----------------------------------------------------------------------------
(* The order of what is on its way to the consumer. *)

Holding == consumer \in {"await", "send"}

\* A message behind the consumer's position.
Ahead(m) ==
    IF IsFrame(m)
    THEN /\ epoch + number <= m.display /\ m.display < submitted
         /\ Holding => held.display < m.display
    ELSE m.to <= submitted

\* Message m is sent before message n.
Before(m, n) ==
    IsFrame(n) => IF IsFrame(m) THEN m.display < n.display ELSE m.to <= n.display

\* Frames reach the consumer in the order of their display numbers, none below
\* the number of frames it has counted since its last reset.
OrderInv ==
    /\ epoch + number <= submitted
    /\ Holding => held.display < submitted
    /\ consumer = "await" => epoch + number <= held.display
    /\ \A i \in 1..Len(queue) : Ahead(queue[i])
    /\ \A i, j \in 1..Len(queue) : i < j => Before(queue[i], queue[j])
    /\ loop = "sending" => Ahead(out) /\ \A i \in 1..Len(queue) : Before(queue[i], out)
    /\ NumbersMapBack

\* The steps that neither send, take nor number anything.
Quiet ==
    /\ UNCHANGED <<queue, number, epoch, log, submitted>>
    /\ loop' = "sending" => loop = "sending" /\ UNCHANGED out
    /\ Holding' => Holding /\ UNCHANGED <<held, consumer>>

\* What the message channel holds when a message is taken from it.
LEMMA TakenQueue ==
    ASSUME TypeOK, TakeMessage
    PROVE  /\ Len(queue) \in Nat /\ Len(queue) >= 1 /\ Head(queue) = queue[1]
           /\ Len(queue') = Len(queue) - 1
           /\ \A i \in 1..Len(queue') : i + 1 \in 1..Len(queue) /\ queue'[i] = queue[i + 1]
           /\ \A i \in 1..Len(queue) : queue[i] \in Message
<1>1. queue \in Seq(Message) /\ queue # <<>> /\ queue' = Tail(queue)
  BY DEF TakeMessage, TypeOK, ChannelTypes
<1>2. /\ Len(queue) \in Nat /\ DOMAIN queue = 1..Len(queue)
      /\ \A i \in 1..Len(queue) : queue[i] \in Message
  BY <1>1, LenProperties
<1>3. Len(queue) >= 1
  BY <1>1, <1>2, EmptySeq
<1>4. /\ Len(queue') = Len(queue) - 1
      /\ \A i \in 1..Len(queue') : queue'[i] = queue[i + 1]
  BY <1>1, HeadTailProperties
<1>5. Head(queue) = queue[1]
  BY <1>1
<1> QED BY <1>2, <1>3, <1>4, <1>5

\* What the message channel holds when a message is sent into it.
LEMMA SentQueue ==
    ASSUME TypeOK, SendMessage
    PROVE  /\ Len(queue) \in Nat /\ Len(queue') = Len(queue) + 1
           /\ \A i \in 1..Len(queue) : queue'[i] = queue[i] /\ queue[i] \in Message
           /\ queue'[Len(queue) + 1] = out /\ out \in Message
<1>1. queue \in Seq(Message) /\ out \in Message /\ queue' = Append(queue, out)
  BY DEF SendMessage, TypeOK, LoopTypes, ChannelTypes
<1>2. /\ Len(queue) \in Nat
      /\ \A i \in 1..Len(queue) : queue[i] \in Message
  BY <1>1, LenProperties
<1>3. /\ Len(queue') = Len(queue) + 1
      /\ \A i \in 1..Len(queue) : queue'[i] = queue[i]
      /\ queue'[Len(queue) + 1] = out
  BY <1>1, AppendProperties
<1> QED BY <1>1, <1>2, <1>3

\* The messages in the channel have their types.
LEMMA QueueTypes ==
    ASSUME TypeOK
    PROVE  /\ Len(queue) \in Nat
           /\ \A i \in 1..Len(queue) : queue[i] \in Message
           /\ loop = "sending" => out \in Message
           /\ Holding => held \in Frame /\ held.display \in Nat
                         /\ held.ref \in Nat \cup {NoFrame}
           /\ submitted \in Nat /\ epoch \in Nat /\ number \in Nat /\ base \in Nat
<1>1. queue \in Seq(Message)
  BY DEF TypeOK, ChannelTypes
<1>2. /\ Len(queue) \in Nat
      /\ \A i \in 1..Len(queue) : queue[i] \in Message
  BY <1>1, LenProperties
<1>3. Holding => held \in Frame
  BY DEF TypeOK, ConsumerTypes, Holding
<1>4. Holding => held.display \in Nat /\ held.ref \in Nat \cup {NoFrame}
  BY <1>3 DEF Frame
<1> QED BY <1>2, <1>3, <1>4 DEF TypeOK, LoopTypes, ConsumerTypes

\* The steps of the pipeline by what they do to the messages on their way.
LEMMA StepKinds ==
    ASSUME TypeOK, [Next]_vars
    PROVE  \/ Quiet
           \/ DrainResets /\ loop' = "sending"
           \/ SendMessage
           \/ EncodeCapture
           \/ Timeout /\ Submit(FALSE)
           \/ TakeMessage
           \/ NumberFrame
           \/ PacketsClosed
<1> USE DEF Quiet, Holding
<1>1. CASE UNCHANGED vars
  BY <1>1 DEF vars, loopVars, consumerVars
<1>2. CASE DrainResets
  BY <1>2 DEF DrainResets, consumerVars
<1>3. CASE SeeStop \/ DropCapture \/ CaptureFails \/ DeviceLost \/ Disconnected \/ ThreadEnds
  BY <1>3 DEF SeeStop, DropCapture, CaptureFails, DeviceLost, Disconnected, ThreadEnds,
              consumerVars
<1>4. CASE SendFails
  BY <1>4 DEF SendFails, AfterSend, consumerVars
<1>5. CASE DrainIdrRequests \/ DrainInvalidations
  BY <1>5 DEF DrainIdrRequests, DrainInvalidations, consumerVars
<1>6. CASE Timeout
  BY <1>6 DEF Timeout, consumerVars
<1>7. CASE ReadbackFails \/ SendPackets \/ ConsumerEnds
  BY <1>7 DEF ReadbackFails, SendPackets, ConsumerEnds, loopVars
<1>8. CASE Capture \/ CompositorEnds \/ HandlerEnds \/ ClientStep
  BY <1>8 DEF Capture, CompositorEnds, HandlerEnds, ClientStep, RequestIdr,
              RequestReset, ReportLoss, StopSession, loopVars, consumerVars
<1> QED
  BY <1>1, <1>2, <1>3, <1>4, <1>5, <1>6, <1>7, <1>8 DEF Next, LoopStep, ConsumerStep

\* A new frame has the display order submitted, beyond everything on its way.
LEMMA SubmitOut ==
    ASSUME TypeOK, NEW c \in BOOLEAN, Submit(c)
    PROVE  /\ IsFrame(out)' /\ out'.display = submitted /\ submitted' = submitted + 1
           /\ out'.ref \in Predicts /\ loop' = "sending"
BY DEF Submit, IsFrame

\* A step of the pipeline keeps the order.
LEMMA OrderStep == ASSUME TypeOK, OrderInv, [Next]_vars PROVE OrderInv'
<1>0. /\ Len(queue) \in Nat /\ \A i \in 1..Len(queue) : queue[i] \in Message
      /\ loop = "sending" => out \in Message
      /\ Holding => held \in Frame /\ held.display \in Nat
      /\ submitted \in Nat /\ epoch \in Nat /\ number \in Nat
  BY QueueTypes
<1>m. \A m \in Message : IF IsFrame(m) THEN m.display \in Nat ELSE m.to \in Nat
  BY MessageKind
<1>1. CASE Quiet
  BY <1>0, <1>1 DEF Quiet, OrderInv, Ahead, Before, Holding, IsFrame, NumbersMapBack
<1>2. CASE DrainResets /\ loop' = "sending"
  <2>1. UNCHANGED <<queue, consumer, held, number, epoch, log, submitted>>
    BY <1>2 DEF DrainResets, consumerVars
  <2>2. ~IsFrame(out)' /\ out'.to = submitted
    BY <1>2 DEF DrainResets, ResetCounters, IsFrame
  <2> QED BY <1>0, <2>1, <2>2 DEF OrderInv, Ahead, Before, Holding, IsFrame, NumbersMapBack
<1>3. CASE SendMessage
  <2>1. /\ UNCHANGED <<consumer, held, number, epoch, log, submitted>>
        /\ loop = "sending" /\ loop' # "sending"
    BY <1>3 DEF SendMessage, AfterSend, consumerVars
  <2>2. /\ Len(queue') = Len(queue) + 1
        /\ \A i \in 1..Len(queue) : queue'[i] = queue[i]
        /\ queue'[Len(queue) + 1] = out
    BY <1>3, SentQueue
  <2>3. \A i \in 1..Len(queue') : Ahead(queue[i])'
    BY <1>0, <2>1, <2>2 DEF OrderInv, Ahead, Holding, IsFrame
  <2>4. \A i, j \in 1..Len(queue') : i < j => Before(queue[i], queue[j])'
    BY <1>0, <2>1, <2>2 DEF OrderInv, Before, IsFrame
  <2> QED BY <2>1, <2>3, <2>4 DEF OrderInv, Holding, NumbersMapBack
<1>4. ASSUME NEW c \in BOOLEAN, Submit(c),
             UNCHANGED <<queue, consumer, held, number, epoch, log>>
      PROVE  OrderInv'
  <2>1. /\ IsFrame(out)' /\ out'.display = submitted /\ submitted' = submitted + 1
        /\ loop' = "sending"
    BY <1>4, SubmitOut
  <2>2. \A i \in 1..Len(queue) : Ahead(queue[i])'
    BY <1>0, <1>m, <1>4, <2>1 DEF OrderInv, Ahead, Holding, IsFrame
  <2>3. Ahead(out)'
    BY <1>0, <1>4, <2>1 DEF OrderInv, Ahead, Holding, IsFrame
  <2>4. \A i \in 1..Len(queue) : Before(queue[i], out)'
    BY <1>0, <1>m, <1>4, <2>1 DEF OrderInv, Ahead, Before, IsFrame
  <2> QED BY <1>0, <1>4, <2>1, <2>2, <2>3, <2>4
          DEF OrderInv, Holding, Before, IsFrame, NumbersMapBack
<1>5. CASE EncodeCapture
  BY <1>4, <1>5 DEF EncodeCapture, consumerVars
<1>6. CASE Timeout /\ Submit(FALSE)
  BY <1>4, <1>6 DEF Timeout, consumerVars
<1>7. CASE TakeMessage
  <2>1. /\ Len(queue) >= 1 /\ Head(queue) = queue[1] /\ Len(queue') = Len(queue) - 1
        /\ \A i \in 1..Len(queue') : i + 1 \in 1..Len(queue) /\ queue'[i] = queue[i + 1]
    BY <1>7, TakenQueue
  <2>2. UNCHANGED <<loop, out, submitted, log>> /\ ~Holding
    BY <1>7 DEF TakeMessage, loopVars, Holding
  <2>3. 1 \in 1..Len(queue) /\ queue[1] \in Message
    BY <1>0, <2>1
  <2>4. \A i, j \in 1..Len(queue') : i < j => Before(queue[i], queue[j])'
    BY <1>0, <2>1 DEF OrderInv, Before, IsFrame
  <2>5. loop' = "sending" => \A i \in 1..Len(queue') : Before(queue[i], out)'
    BY <1>0, <2>1, <2>2 DEF OrderInv, Before, IsFrame
  <2>6. CASE IsFrame(Head(queue))
    <3>1. held' = queue[1] /\ consumer' = "await" /\ UNCHANGED <<number, epoch>>
      BY <1>7, <2>1, <2>6 DEF TakeMessage
    <3>2. \A i \in 1..Len(queue') : Ahead(queue[i])'
      <4>1. \A i \in 1..Len(queue') : Ahead(queue[i + 1]) /\ Before(queue[1], queue[i + 1])
        BY <1>0, <2>1, <2>3 DEF OrderInv
      <4> QED BY <1>0, <2>1, <2>2, <2>6, <3>1, <4>1 DEF Ahead, Before, IsFrame, Holding
    <3>3. loop' = "sending" => Ahead(out)'
      BY <1>0, <2>1, <2>2, <2>3, <2>6, <3>1 DEF OrderInv, Ahead, Before, IsFrame
    <3>4. epoch' + number' <= held'.display /\ held'.display < submitted'
      BY <2>1, <2>2, <2>3, <2>6, <3>1 DEF OrderInv, Ahead
    <3> QED BY <2>2, <2>4, <2>5, <3>1, <3>2, <3>3, <3>4 DEF OrderInv, NumbersMapBack
  <2>7. CASE ~IsFrame(Head(queue))
    <3>1. /\ number' = 0 /\ epoch' = queue[1].to /\ UNCHANGED <<held, consumer>>
          /\ ~Holding' /\ consumer' # "await" /\ queue[1].to \in Nat
      BY <1>7, <1>m, <2>1, <2>2, <2>3, <2>7 DEF TakeMessage, Holding
    <3>2. \A i \in 1..Len(queue') : Ahead(queue[i])'
      <4>1. \A i \in 1..Len(queue') : Ahead(queue[i + 1]) /\ Before(queue[1], queue[i + 1])
        BY <1>0, <2>1, <2>3 DEF OrderInv
      <4> QED BY <1>0, <1>m, <2>1, <2>2, <2>7, <3>1, <4>1 DEF Ahead, Before, IsFrame
    <3>3. loop' = "sending" => Ahead(out)'
      BY <1>0, <1>m, <2>1, <2>2, <2>3, <2>7, <3>1 DEF OrderInv, Ahead, Before, IsFrame
    <3>4. epoch' + number' <= submitted'
      BY <2>1, <2>2, <2>3, <2>7, <3>1 DEF OrderInv, Ahead
    <3> QED BY <2>2, <2>4, <2>5, <3>1, <3>2, <3>3, <3>4 DEF OrderInv, NumbersMapBack
  <2> QED BY <2>6, <2>7
<1>8. CASE NumberFrame
  <2>1. /\ UNCHANGED <<queue, loop, out, submitted, epoch>> /\ number' = number + 1
        /\ consumer = "await" /\ (Holding' => held' = held) /\ consumer' # "await"
    BY <1>8 DEF NumberFrame, Release, Holding, loopVars
  <2>2. Holding /\ epoch + number <= held.display /\ held.display < submitted
    BY <2>1 DEF OrderInv, Holding
  <2>3. \A i \in 1..Len(queue') : Ahead(queue[i])'
    BY <1>0, <1>m, <2>1, <2>2 DEF OrderInv, Ahead, IsFrame
  <2>4. loop' = "sending" => Ahead(out)'
    BY <1>0, <1>m, <2>1, <2>2 DEF OrderInv, Ahead, IsFrame
  <2>5. NumbersMapBack'
    BY <1>0, <1>8, <2>2 DEF NumberFrame, OrderInv, NumbersMapBack
  <2> QED BY <1>0, <2>1, <2>2, <2>3, <2>4, <2>5 DEF OrderInv, Before, IsFrame
<1>9. CASE PacketsClosed
  <2>1. /\ UNCHANGED <<loop, out, submitted, number, epoch, log>> /\ Len(queue') = 0
        /\ ~Holding' /\ consumer' # "await"
    BY <1>9 DEF PacketsClosed, Holding, loopVars
  <2> QED BY <1>0, <2>1 DEF OrderInv, Ahead, IsFrame, NumbersMapBack
<1> QED BY StepKinds, <1>1, <1>2, <1>3, <1>5, <1>6, <1>7, <1>8, <1>9

\* The initial state has the order.
LEMMA OrderInit == Init => OrderInv
<1> SUFFICES ASSUME Init PROVE OrderInv
  OBVIOUS
<1>1. Len(queue) = 0
  BY EmptySeq DEF Init
<1> QED BY <1>1 DEF Init, OrderInv, Holding, NumbersMapBack

\* A loss report is never mapped past the frame it names, in the epoch of that
\* frame, whatever was dropped on the way.
THEOREM NumbersMap == Safe => []NumbersMapBack
<1>1. Init => TypeOK /\ OrderInv
  BY TypeInit, OrderInit
<1>2. TypeOK /\ OrderInv /\ [Next]_vars => (TypeOK /\ OrderInv)'
  BY TypeStep, OrderStep
<1>3. OrderInv => NumbersMapBack
  BY DEF OrderInv
<1> QED BY <1>1, <1>2, <1>3, PTL DEF Safe
-----------------------------------------------------------------------------
(* The first frame after a reset. *)

\* A message the consumer has not taken, after its last reset.
CleanAhead(m) ==
    IF IsFrame(m) THEN m.display = epoch => m.ref = NoFrame
                  ELSE epoch <= m.to /\ m.to <= base

\* What follows a reset: the frame whose display order it names is an IDR.
CleanAfter(m, n) ==
    ~IsFrame(m) => IF IsFrame(n) THEN n.display = m.to => n.ref = NoFrame
                                 ELSE m.to <= n.to

\* The encoder is about to start over whenever no frame was submitted since
\* the last reset.
FreshStart == base <= submitted /\ (submitted = base => forced \/ refs = {})

\* Resets reach the consumer in order, none ahead of the loop's base, and the
\* first frame behind each is an IDR.
CleanInv ==
    /\ FreshStart /\ epoch <= base
    /\ \A i \in 1..Len(queue) : CleanAhead(queue[i])
    /\ \A i, j \in 1..Len(queue) : i < j => CleanAfter(queue[i], queue[j])
    /\ loop = "sending" => IF IsFrame(out)
                           THEN /\ CleanAhead(out)
                                /\ \A i \in 1..Len(queue) : CleanAfter(queue[i], out)
                           ELSE out.to = submitted
    /\ consumer = "await" /\ held.display = epoch => held.ref = NoFrame
    /\ CleanStart

\* The base follows the submitted frames, and with it comes an IDR.
LEMMA FreshStep ==
    ASSUME TypeOK, FreshStart, [Next]_vars
    PROVE  /\ FreshStart' /\ base <= base'
           /\ base' = base \/ SendMessage \/ (base' = submitted /\ consumer = "gone")
<1>0. submitted \in Nat /\ base \in Nat /\ forced \in BOOLEAN
  BY DEF TypeOK, LoopTypes, EncoderTypes
<1> USE DEF FreshStart
<1>1. CASE UNCHANGED vars
  BY <1>0, <1>1 DEF vars, loopVars, encoderVars
<1>2. CASE DrainResets
  BY <1>0, <1>2 DEF DrainResets, encoderVars
<1>3. CASE SeeStop \/ DropCapture \/ CaptureFails \/ DeviceLost \/ Disconnected \/ ThreadEnds
  BY <1>0, <1>3 DEF SeeStop, DropCapture, CaptureFails, DeviceLost, Disconnected, ThreadEnds,
              encoderVars
<1>4. CASE SendMessage \/ SendFails
  <2>1. base' = base \/ (base' = submitted /\ forced')
    BY <1>0, <1>4 DEF SendMessage, SendFails, AfterSend
  <2>2. UNCHANGED <<submitted, refs>> /\ (forced => forced')
    BY <1>0, <1>4 DEF SendMessage, SendFails, AfterSend
  <2>3. SendMessage \/ consumer = "gone"
    BY <1>4 DEF SendFails
  <2> QED BY <1>0, <2>1, <2>2, <2>3
<1>5. CASE DrainIdrRequests \/ DrainInvalidations
  BY <1>0, <1>5 DEF DrainIdrRequests, DrainInvalidations
<1>6. ASSUME NEW c \in BOOLEAN, Submit(c), UNCHANGED base
      PROVE  FreshStart' /\ base <= base' /\ base' = base
  BY <1>0, <1>6, SubmitOut
<1>7. CASE EncodeCapture
  BY <1>6, <1>7 DEF EncodeCapture
<1>8. CASE Timeout
  <2>1. CASE Submit(FALSE)
    BY <1>6, <1>8, <2>1 DEF Timeout
  <2>2. CASE UNCHANGED <<refs, forced, submitted>>
    BY <1>0, <1>8, <2>2 DEF Timeout
  <2> QED BY <1>8, <2>1, <2>2 DEF Timeout
<1>9. CASE ConsumerStep
  BY <1>0, <1>9 DEF ConsumerStep, TakeMessage, NumberFrame, ReadbackFails, SendPackets,
                    PacketsClosed, ConsumerEnds, loopVars, encoderVars
<1>10. CASE Capture \/ CompositorEnds \/ HandlerEnds \/ ClientStep
  BY <1>0, <1>10 DEF Capture, CompositorEnds, HandlerEnds, ClientStep, RequestIdr,
              RequestReset, ReportLoss, StopSession, loopVars, encoderVars
<1> QED
  BY <1>1, <1>2, <1>3, <1>4, <1>5, <1>7, <1>8, <1>9, <1>10 DEF Next, LoopStep

\* A step of the pipeline keeps the start of an epoch clean.
LEMMA CleanStep ==
    ASSUME TypeOK, OrderInv, CleanInv, [Next]_vars
    PROVE  CleanInv'
<1>0. /\ Len(queue) \in Nat /\ \A i \in 1..Len(queue) : queue[i] \in Message
      /\ loop = "sending" => out \in Message
      /\ Holding => held \in Frame /\ held.display \in Nat
      /\ submitted \in Nat /\ epoch \in Nat /\ number \in Nat /\ base \in Nat
  BY QueueTypes
<1>m. \A m \in Message : IF IsFrame(m) THEN m.display \in Nat ELSE m.to \in Nat
  BY MessageKind
<1>f. FreshStart' /\ base <= base' /\ base' \in Nat
  BY FreshStep, TypeStep, QueueTypes DEF CleanInv, TypeOK, LoopTypes
<1>1. CASE Quiet
  <2>1. UNCHANGED <<queue, number, epoch, log, submitted>> /\ epoch <= base'
    BY <1>0, <1>1, <1>f DEF Quiet, CleanInv
  <2>2. \A i \in 1..Len(queue) : CleanAhead(queue[i])'
    BY <1>0, <1>m, <1>f, <2>1 DEF CleanInv, CleanAhead, IsFrame
  <2>3. \A i, j \in 1..Len(queue) : i < j => CleanAfter(queue[i], queue[j])'
    BY <2>1 DEF CleanInv, CleanAfter, IsFrame
  <2>4. loop' = "sending" => IF IsFrame(out)'
                             THEN /\ CleanAhead(out)'
                                  /\ \A i \in 1..Len(queue) : CleanAfter(queue[i], out)'
                             ELSE out'.to = submitted'
    BY <1>1, <2>1 DEF Quiet, CleanInv, CleanAhead, CleanAfter, IsFrame
  <2>5. consumer' = "await" /\ held'.display = epoch' => held'.ref = NoFrame
    BY <1>1 DEF Quiet, CleanInv, Holding
  <2> QED BY <1>f, <2>1, <2>2, <2>3, <2>4, <2>5 DEF CleanInv, CleanStart
<1>2. CASE DrainResets /\ loop' = "sending"
  <2>1. UNCHANGED <<queue, consumer, held, number, epoch, log, submitted, base>>
    BY <1>2 DEF DrainResets, consumerVars
  <2>2. ~IsFrame(out)' /\ out'.to = submitted
    BY <1>2 DEF DrainResets, ResetCounters, IsFrame
  <2> QED BY <1>f, <2>1, <2>2 DEF CleanInv, CleanAhead, CleanAfter, IsFrame, CleanStart
<1>3. CASE SendMessage
  <2>1. /\ UNCHANGED <<consumer, held, number, epoch, log, submitted>>
        /\ loop = "sending" /\ loop' # "sending"
        /\ ~IsFrame(out) => base' = submitted
    BY <1>3 DEF SendMessage, AfterSend, consumerVars
  <2>2. /\ Len(queue') = Len(queue) + 1
        /\ \A i \in 1..Len(queue) : queue'[i] = queue[i]
        /\ queue'[Len(queue) + 1] = out
    BY <1>3, SentQueue
  <2>3. \A i \in 1..Len(queue') : CleanAhead(queue[i])'
    <3>1. \A i \in 1..Len(queue) : CleanAhead(queue[i])'
      BY <1>0, <1>m, <1>f, <2>1, <2>2 DEF CleanInv, CleanAhead, IsFrame
    <3>2. IF IsFrame(out) THEN out.display = epoch' => out.ref = NoFrame
                          ELSE epoch' <= out.to /\ out.to <= base'
      BY <1>0, <1>m, <1>f, <2>1 DEF CleanInv, FreshStart, CleanAhead
    <3> QED BY <1>0, <2>2, <3>1, <3>2 DEF CleanAhead, IsFrame
  <2>4. \A i, j \in 1..Len(queue') : i < j => CleanAfter(queue[i], queue[j])'
    <3>1. \A i \in 1..Len(queue) : CleanAfter(queue[i], out)
      BY <1>0, <1>m, <2>1 DEF CleanInv, FreshStart, CleanAhead, CleanAfter
    <3> QED BY <1>0, <2>2, <3>1 DEF CleanInv, CleanAfter, IsFrame
  <2>5. epoch' <= base'
    BY <1>0, <1>f, <2>1 DEF CleanInv
  <2> QED BY <1>f, <2>1, <2>3, <2>4, <2>5 DEF CleanInv, CleanStart
<1>4. ASSUME NEW c \in BOOLEAN, Submit(c),
             UNCHANGED <<queue, consumer, held, number, epoch, log, base>>
      PROVE  CleanInv'
  <2>1. /\ IsFrame(out)' /\ out'.display = submitted /\ submitted' = submitted + 1
        /\ out'.ref \in Predicts /\ loop' = "sending"
    BY <1>4, SubmitOut
  <2>2. submitted = base => out'.ref = NoFrame
    BY <2>1 DEF CleanInv, FreshStart, Predicts
  <2>3. CleanAhead(out)'
    BY <1>0, <1>4, <2>1, <2>2 DEF CleanInv, FreshStart, CleanAhead
  <2>4. \A i \in 1..Len(queue) : CleanAfter(queue[i], out)'
    BY <1>0, <1>m, <1>4, <2>1, <2>2
    DEF CleanInv, FreshStart, CleanAhead, CleanAfter, IsFrame
  <2>5. /\ \A i \in 1..Len(queue) : CleanAhead(queue[i])'
        /\ \A i, j \in 1..Len(queue) : i < j => CleanAfter(queue[i], queue[j])'
    BY <1>4 DEF CleanInv, CleanAhead, CleanAfter, IsFrame
  <2> QED BY <1>f, <1>4, <2>1, <2>3, <2>4, <2>5 DEF CleanInv, CleanStart
<1>5. CASE EncodeCapture
  BY <1>4, <1>5 DEF EncodeCapture, consumerVars
<1>6. CASE Timeout /\ Submit(FALSE)
  BY <1>4, <1>6 DEF Timeout, consumerVars
<1>7. CASE TakeMessage
  <2>1. /\ Len(queue) >= 1 /\ Head(queue) = queue[1] /\ Len(queue') = Len(queue) - 1
        /\ \A i \in 1..Len(queue') : i + 1 \in 1..Len(queue) /\ queue'[i] = queue[i + 1]
    BY <1>7, TakenQueue
  <2>2. UNCHANGED <<loop, out, submitted, base, log>> /\ ~Holding
    BY <1>7 DEF TakeMessage, loopVars, Holding
  <2>3. 1 \in 1..Len(queue) /\ queue[1] \in Message
    BY <1>0, <2>1
  <2>4. \A i, j \in 1..Len(queue') : i < j => CleanAfter(queue[i], queue[j])'
    BY <1>0, <2>1 DEF CleanInv, CleanAfter, IsFrame
  <2>5. loop' = "sending" =>
            IF IsFrame(out)' THEN \A i \in 1..Len(queue') : CleanAfter(queue[i], out)'
                             ELSE out'.to = submitted'
    BY <1>0, <2>1, <2>2 DEF CleanInv, CleanAfter, IsFrame
  <2>6. CASE IsFrame(Head(queue))
    <3>1. held' = queue[1] /\ consumer' = "await" /\ UNCHANGED <<number, epoch>>
      BY <1>7, <2>1, <2>6 DEF TakeMessage
    <3>2. \A i \in 1..Len(queue') : CleanAhead(queue[i])'
      BY <1>0, <2>1, <2>2, <3>1 DEF CleanInv, CleanAhead, IsFrame
    <3>3. loop' = "sending" /\ IsFrame(out)' => CleanAhead(out)'
      BY <2>2, <3>1 DEF CleanInv, CleanAhead, IsFrame
    <3>4. held'.display = epoch' => held'.ref = NoFrame
      BY <2>1, <2>3, <2>6, <3>1 DEF CleanInv, CleanAhead
    <3> QED BY <1>f, <2>2, <2>4, <2>5, <3>1, <3>2, <3>3, <3>4 DEF CleanInv, CleanStart
  <2>7. CASE ~IsFrame(Head(queue))
    <3>1. /\ epoch' = queue[1].to /\ UNCHANGED <<held, consumer>> /\ consumer' # "await"
          /\ queue[1].to \in Nat /\ epoch' <= base /\ ~IsFrame(queue[1])
      BY <1>7, <1>m, <2>1, <2>2, <2>3, <2>7 DEF TakeMessage, Holding, CleanInv, CleanAhead
    <3>2. \A i \in 1..Len(queue') : CleanAhead(queue[i])'
      <4>1. \A i \in 1..Len(queue') : CleanAhead(queue[i + 1]) /\ CleanAfter(queue[1], queue[i + 1])
        BY <1>0, <2>1, <2>3 DEF CleanInv
      <4> QED BY <1>0, <2>1, <2>2, <3>1, <4>1 DEF CleanAhead, CleanAfter, IsFrame
    <3>3. loop' = "sending" /\ IsFrame(out)' => CleanAhead(out)'
      BY <2>2, <2>3, <3>1 DEF CleanInv, CleanAhead, CleanAfter, IsFrame
    <3> QED BY <1>f, <2>2, <2>4, <2>5, <3>1, <3>2, <3>3 DEF CleanInv, CleanStart
  <2> QED BY <2>6, <2>7
<1>8. CASE NumberFrame
  <2>1. /\ UNCHANGED <<queue, loop, out, submitted, base, epoch>> /\ number' = number + 1
        /\ consumer = "await" /\ consumer' # "await"
    BY <1>8 DEF NumberFrame, loopVars
  <2>2. Holding /\ epoch + number <= held.display
    BY <2>1 DEF OrderInv, Holding
  <2>3. CleanStart'
    BY <1>0, <1>8, <2>1, <2>2 DEF NumberFrame, CleanInv, CleanStart
  <2> QED BY <1>f, <2>1, <2>3 DEF CleanInv, CleanAhead, CleanAfter, IsFrame
<1>9. CASE PacketsClosed
  <2>1. /\ UNCHANGED <<loop, out, submitted, base, epoch, log>> /\ Len(queue') = 0
        /\ consumer' # "await"
    BY <1>9 DEF PacketsClosed, loopVars
  <2> QED BY <1>f, <2>1 DEF CleanInv, CleanAhead, IsFrame, CleanStart
<1> QED BY StepKinds, <1>1, <1>2, <1>3, <1>5, <1>6, <1>7, <1>8, <1>9

\* The initial state is a clean start.
LEMMA CleanInit == Init => CleanInv
<1> SUFFICES ASSUME Init PROVE CleanInv
  OBVIOUS
<1>1. Len(queue) = 0
  BY EmptySeq DEF Init
<1> QED BY <1>1 DEF Init, CleanInv, FreshStart, CleanStart

\* The first frame after a reset is an IDR with the number 1, whatever was
\* still on its way to the consumer when the client reconnected.
THEOREM CleanStarts == Safe => []CleanStart
<1>1. Init => TypeOK /\ OrderInv /\ CleanInv
  BY TypeInit, OrderInit, CleanInit
<1>2. TypeOK /\ OrderInv /\ CleanInv /\ [Next]_vars => (TypeOK /\ OrderInv /\ CleanInv)'
  BY TypeStep, OrderStep, CleanStep
<1>3. CleanInv => CleanStart
  BY DEF CleanInv
<1> QED BY <1>1, <1>2, <1>3, PTL DEF Safe

-----------------------------------------------------------------------------
(* What a loss report reaches. *)

\* Among the first n messages in the channel is the reset to the current base.
ResetWithin(n) == \E i \in 1..n : ~IsFrame(queue[i]) /\ queue[i].to = base

\* Frames of the current numbering reach the consumer behind its reset, so that
\* they are numbered in the current epoch.
EpochInv ==
    /\ consumer = "gone" \/ epoch = base \/ ResetWithin(Len(queue))
    /\ \A j \in 1..Len(queue) :
            IsFrame(queue[j]) /\ queue[j].display >= base => epoch = base \/ ResetWithin(j - 1)
    /\ consumer = "await" /\ held.display >= base => epoch = base
    /\ \A f \in log : f.display < submitted /\ (f.display >= base => f.epoch = base)

\* Unless an IDR is due, the references are frames of the current numbering, none
\* of them known to be lost; a report on its way names its frame, or a lag is known.
ReportInv ==
    /\ forced \/ \A r \in refs : r >= base /\ r \notin lost
    /\ \A d \in lost : d < submitted
    /\ \A d \in reported :
            /\ d < submitted
            /\ \/ lagged
               \/ \E f \in log : \E i \in 1..Len(reports) : f.display = d /\ reports[i] <= f.number

\* A step of the pipeline keeps frames and numberings together.
LEMMA EpochStep ==
    ASSUME TypeOK, OrderInv, CleanInv, EpochInv, [Next]_vars
    PROVE  EpochInv'
<1>0. /\ Len(queue) \in Nat /\ \A i \in 1..Len(queue) : queue[i] \in Message
      /\ loop = "sending" => out \in Message
      /\ Holding => held \in Frame /\ held.display \in Nat
      /\ submitted \in Nat /\ epoch \in Nat /\ number \in Nat /\ base \in Nat
  BY QueueTypes
<1>m. \A m \in Message : IF IsFrame(m) THEN m.display \in Nat ELSE m.to \in Nat
  BY MessageKind
<1>l. \A f \in log : f.display \in Nat
  BY DEF TypeOK, ConsumerTypes, Numbered
<1>o. /\ \A j \in 1..Len(queue) : IsFrame(queue[j]) => queue[j].display < submitted
      /\ Holding => held.display < submitted
  BY DEF OrderInv, Ahead
<1>1. ASSUME UNCHANGED <<queue, epoch, log, submitted>>,
             base' = base \/ (base' = submitted /\ consumer = "gone"),
             consumer = "gone" => consumer' = "gone",
             consumer' = "await" => consumer = "await" /\ UNCHANGED held
      PROVE  EpochInv'
  <2>1. CASE base' = base
    BY <1>1, <2>1 DEF EpochInv, ResetWithin, IsFrame
  <2>2. CASE base' = submitted /\ consumer = "gone"
    BY <1>0, <1>1, <1>m, <1>l, <1>o, <2>2 DEF EpochInv, IsFrame, Holding
  <2> QED BY <1>1, <2>1, <2>2
<1>2. CASE Quiet
  <2>1. consumer = "gone" => consumer' = "gone"
    BY <1>2 DEF vars, Next, LoopStep, ConsumerStep, ClientStep, DrainResets, SeeStop, SendMessage,
      SendFails, AfterSend, DrainIdrRequests, DrainInvalidations, DropCapture, EncodeCapture,
      CaptureFails, DeviceLost, Timeout, Disconnected, ThreadEnds, TakeMessage, NumberFrame,
      ReadbackFails, SendPackets, PacketsClosed, ConsumerEnds, RequestIdr, RequestReset,
      ReportLoss, StopSession, Capture, CompositorEnds, HandlerEnds, consumerVars
  <2>2. base' = base \/ SendMessage \/ (base' = submitted /\ consumer = "gone")
    BY FreshStep DEF CleanInv
  <2>3. CASE SendMessage
    <3>1. Len(queue') = Len(queue) + 1
      BY <2>3, SentQueue
    <3> QED BY <1>0, <1>2, <3>1 DEF Quiet
  <2> QED BY <1>1, <1>2, <2>1, <2>2, <2>3 DEF Quiet, Holding
<1>3. CASE DrainResets /\ loop' = "sending"
  <2>1. UNCHANGED <<queue, consumer, held, epoch, log, submitted, base>>
    BY <1>3 DEF DrainResets, consumerVars
  <2> QED BY <1>1, <2>1
<1>4. CASE SendMessage
  <2>1. /\ UNCHANGED <<consumer, held, epoch, log, submitted>> /\ consumer # "gone"
        /\ IF IsFrame(out) THEN base' = base ELSE base' = submitted /\ out.to = submitted
    BY <1>4 DEF SendMessage, AfterSend, consumerVars, CleanInv
  <2>2. /\ Len(queue') = Len(queue) + 1
        /\ \A i \in 1..Len(queue) : queue'[i] = queue[i]
        /\ queue'[Len(queue) + 1] = out
    BY <1>4, SentQueue
  <2>3. CASE IsFrame(out)
    <3>1. epoch' = base' \/ ResetWithin(Len(queue))'
      BY <1>0, <2>1, <2>2, <2>3 DEF EpochInv, ResetWithin, IsFrame
    <3>2. \A j \in 1..Len(queue) : ResetWithin(j - 1) => \E i \in 1..(j - 1) :
                                      ~IsFrame(queue'[i]) /\ queue'[i].to = base'
      BY <1>0, <2>1, <2>2, <2>3 DEF ResetWithin
    <3>3. ResetWithin(Len(queue)) => \E i \in 1..Len(queue) :
                                      ~IsFrame(queue'[i]) /\ queue'[i].to = base'
      BY <1>0, <2>1, <2>2, <2>3 DEF ResetWithin
    <3>4. \A j \in 1..Len(queue') : IsFrame(queue'[j]) /\ queue'[j].display >= base' =>
             \/ epoch' = base'
             \/ \E i \in 1..(j - 1) : ~IsFrame(queue'[i]) /\ queue'[i].to = base'
      BY <1>0, <2>1, <2>2, <2>3, <3>2, <3>3 DEF EpochInv
    <3> QED BY <2>1, <2>3, <3>1, <3>4 DEF EpochInv, ResetWithin, IsFrame
  <2>4. CASE ~IsFrame(out)
    <3>1. ResetWithin(Len(queue))'
      BY <1>0, <2>1, <2>2, <2>4 DEF ResetWithin, IsFrame
    <3>2. \A j \in 1..Len(queue') : IsFrame(queue'[j]) => queue'[j].display < base'
      BY <1>0, <1>o, <2>1, <2>2, <2>4
    <3>3. \A j \in 1..Len(queue') : queue'[j] \in Message
      BY <1>0, <2>2, <1>4, SentQueue
    <3> QED BY <1>0, <1>m, <1>l, <1>o, <2>1, <2>4, <3>1, <3>2, <3>3 DEF EpochInv, Holding, IsFrame
  <2> QED BY <2>3, <2>4
<1>5. ASSUME NEW c \in BOOLEAN, Submit(c),
             UNCHANGED <<queue, consumer, held, epoch, log, base>>
      PROVE  EpochInv'
  BY <1>0, <1>l, <1>5, SubmitOut DEF EpochInv, ResetWithin, IsFrame
<1>6. CASE EncodeCapture
  BY <1>5, <1>6 DEF EncodeCapture, consumerVars
<1>7. CASE Timeout /\ Submit(FALSE)
  BY <1>5, <1>7 DEF Timeout, consumerVars
<1>8. CASE TakeMessage
  <2>1. /\ Len(queue) >= 1 /\ Head(queue) = queue[1] /\ Len(queue') = Len(queue) - 1
        /\ \A i \in 1..Len(queue') : i + 1 \in 1..Len(queue) /\ queue'[i] = queue[i + 1]
    BY <1>8, TakenQueue
  <2>2. UNCHANGED <<submitted, base, log>> /\ consumer = "receive"
    BY <1>8 DEF TakeMessage, loopVars
  <2>3. 1 \in 1..Len(queue) /\ queue[1] \in Message
    BY <1>0, <2>1
  <2>4. IF IsFrame(queue[1]) THEN held' = queue[1] /\ epoch' = epoch
                             ELSE epoch' = queue[1].to /\ consumer' = "receive"
    BY <1>8, <2>1, <2>2 DEF TakeMessage
  <2>5. epoch = base => epoch' = base
    <3>1. ~IsFrame(queue[1]) => epoch <= queue[1].to /\ queue[1].to <= base
      BY <2>3 DEF CleanInv, CleanAhead
    <3> QED BY <1>0, <1>m, <2>3, <2>4, <3>1
  <2>6. ASSUME NEW n \in 1..Len(queue), ResetWithin(n)
        PROVE  epoch' = base' \/ \E i \in 1..(n - 1) : ~IsFrame(queue'[i]) /\ queue'[i].to = base'
    <3>1. PICK i \in 1..n : ~IsFrame(queue[i]) /\ queue[i].to = base
      BY <2>6 DEF ResetWithin
    <3>2. CASE i = 1
      BY <2>2, <2>4, <3>1, <3>2
    <3>3. CASE i # 1
      <4>1. i - 1 \in 1..(n - 1) /\ i - 1 \in 1..Len(queue') /\ queue'[i - 1] = queue[i]
        BY <1>0, <2>1, <2>6, <3>1, <3>3
      <4> QED BY <2>2, <3>1, <4>1
    <3> QED BY <3>2, <3>3
  <2>7. epoch' = base' \/ ResetWithin(Len(queue))'
    BY <1>0, <2>1, <2>2, <2>5, <2>6 DEF EpochInv, ResetWithin, IsFrame
  <2>8. ASSUME NEW j \in 1..Len(queue'), IsFrame(queue'[j]), queue'[j].display >= base'
        PROVE  epoch' = base' \/ \E i \in 1..(j - 1) : ~IsFrame(queue'[i]) /\ queue'[i].to = base'
    <3>1. epoch = base \/ ResetWithin(j)
      BY <1>0, <2>1, <2>2, <2>8 DEF EpochInv
    <3>2. j \in 1..Len(queue)
      BY <1>0, <2>1, <2>8
    <3> QED BY <2>2, <2>5, <2>6, <3>1, <3>2
  <2>9. consumer' = "await" /\ held'.display >= base' => epoch' = base'
    <3>1. consumer' = "await" => IsFrame(queue[1])
      BY <2>4
    <3>2. ~ResetWithin(0)
      BY DEF ResetWithin
    <3> QED BY <2>2, <2>3, <2>4, <3>1, <3>2 DEF EpochInv
  <2> QED BY <2>2, <2>7, <2>8, <2>9 DEF EpochInv, ResetWithin, IsFrame
<1>9. CASE NumberFrame
  <2>1. /\ UNCHANGED <<queue, submitted, base, epoch>> /\ consumer = "await"
        /\ consumer' # "await" /\ consumer' # "gone"
        /\ log' = log \cup {[display |-> held.display, ref |-> held.ref,
                             number |-> number + 1, epoch |-> epoch]}
    BY <1>9 DEF NumberFrame, loopVars
  <2> QED BY <1>0, <1>o, <2>1 DEF EpochInv, ResetWithin, IsFrame, Holding
<1>10. CASE PacketsClosed
  <2>1. /\ UNCHANGED <<submitted, base, log>> /\ Len(queue') = 0 /\ consumer' = "gone"
    BY <1>10 DEF PacketsClosed, loopVars, consumerVars
  <2> QED BY <2>1 DEF EpochInv
<1> QED BY StepKinds, <1>2, <1>3, <1>4, <1>6, <1>7, <1>8, <1>9, <1>10

\* What a submitted frame predicts from, and the references it leaves.
LEMMA SubmitRefs ==
    ASSUME NEW c \in BOOLEAN, Submit(c)
    PROVE  /\ forced \/ refs = {} => refs' = {submitted} /\ out'.ref = NoFrame
           /\ refs' \subseteq refs \cup {submitted}
           /\ out'.ref = NoFrame \/ (~forced /\ out'.ref \in refs)
<1>1. PICK ref \in Predicts, old \in SUBSET refs :
        /\ ref = NoFrame => old = {}
        /\ out' = [kind |-> "frame", display |-> submitted, ref |-> ref,
                   capture |-> c]
        /\ refs' = old \cup {submitted}
  BY DEF Submit
<1>2. out'.ref = ref
  BY <1>1
<1> QED BY <1>1, <1>2 DEF Predicts

\* A step of the pipeline keeps lost frames out of the references.
LEMMA ReportStep ==
    ASSUME TypeOK, OrderInv, CleanInv, EpochInv, ReportInv, [Next]_vars
    PROVE  ReportInv'
<1>0. /\ submitted \in Nat /\ base \in Nat /\ forced \in BOOLEAN /\ lagged \in BOOLEAN
      /\ refs \subseteq Nat /\ lost \subseteq Nat /\ reported \subseteq Nat
      /\ reports \in Seq(Nat)
      /\ \A f \in log : f.display \in Nat /\ f.number \in Nat \ {0} /\ f.epoch \in Nat
  BY DEF TypeOK, LoopTypes, EncoderTypes, RequestTypes, ConsumerTypes, Numbered
<1>n. Len(reports) \in Nat /\ DOMAIN reports = 1..Len(reports)
      /\ \A i \in 1..Len(reports) : reports[i] \in Nat
  BY <1>0, LenProperties
<1>1. ASSUME UNCHANGED <<submitted, lost, reported, lagged, reports>>,
             log \subseteq log', forced => forced',
             forced' \/ UNCHANGED <<refs, base>>
      PROVE  ReportInv'
  BY <1>0, <1>1 DEF ReportInv
<1>2. CASE UNCHANGED vars
  BY <1>1, <1>2 DEF vars, loopVars, encoderVars, requestVars, consumerVars
<1>3. CASE DrainResets
  BY <1>1, <1>3 DEF DrainResets, encoderVars, consumerVars
<1>4. CASE SeeStop \/ DropCapture \/ CaptureFails \/ DeviceLost \/ Disconnected \/ ThreadEnds
  BY <1>1, <1>4 DEF SeeStop, DropCapture, CaptureFails, DeviceLost, Disconnected, ThreadEnds,
              encoderVars, requestVars, consumerVars
<1>5. CASE SendMessage \/ SendFails
  <2>1. UNCHANGED <<submitted, lost, reported, lagged, reports, log>>
    BY <1>5 DEF SendMessage, SendFails, AfterSend, requestVars, consumerVars
  <2>2. forced' = TRUE \/ UNCHANGED <<forced, refs, base>>
    BY <1>5 DEF SendMessage, SendFails, AfterSend
  <2> QED BY <1>1, <2>1, <2>2
<1>6. CASE DrainIdrRequests
  <2>1. UNCHANGED <<submitted, lost, reported, lagged, reports, log, refs, base>>
    BY <1>6 DEF DrainIdrRequests, consumerVars
  <2>2. forced => forced'
    BY <1>6 DEF DrainIdrRequests
  <2> QED BY <1>1, <2>1, <2>2
<1>7. CASE DrainInvalidations
  <2>1. /\ UNCHANGED <<submitted, base, log>> /\ reported' = {} /\ lost' = lost \cup reported
        /\ refs' = {r \in refs : \A i \in DOMAIN reports : r < FirstDisplayOrder(reports[i])}
        /\ forced' = (forced \/ lagged)
    BY <1>7 DEF DrainInvalidations, consumerVars
  <2>2. \A d \in lost' : d < submitted'
    BY <2>1 DEF ReportInv
  <2>3. ASSUME ~forced, ~lagged, NEW r \in refs' PROVE r >= base /\ r \notin lost'
    <3>1. r \in refs /\ r >= base /\ r \notin lost /\ r \in Nat
      BY <1>0, <2>1, <2>3 DEF ReportInv
    <3>2. ASSUME r \in reported PROVE FALSE
      <4>1. PICK f \in log, i \in 1..Len(reports) : f.display = r /\ reports[i] <= f.number
        BY <2>3, <3>2 DEF ReportInv
      <4>2. f.epoch = base
        BY <3>1, <4>1 DEF EpochInv
      <4>3. f.display >= base + f.number - 1
        BY <4>1, <4>2 DEF OrderInv, NumbersMapBack
      <4>4. FirstDisplayOrder(reports[i]) <= base + f.number - 1
        BY <1>0, <1>n, <4>1 DEF FirstDisplayOrder
      <4>5. r < FirstDisplayOrder(reports[i]) /\ FirstDisplayOrder(reports[i]) \in Int
        BY <1>0, <1>n, <2>1, <2>3, <4>1 DEF FirstDisplayOrder
      <4> QED BY <1>0, <3>1, <4>1, <4>3, <4>4, <4>5
    <3> QED BY <2>1, <3>1, <3>2
  <2> QED BY <2>1, <2>2, <2>3 DEF ReportInv
<1>8. ASSUME NEW c \in BOOLEAN, Submit(c),
             UNCHANGED <<base, log, lost, reported, lagged, reports>>
      PROVE  ReportInv'
  <2>1. submitted' = submitted + 1 /\ forced' = FALSE
    BY <1>8 DEF Submit
  <2>2. /\ forced \/ refs = {} => refs' = {submitted}
        /\ refs' \subseteq refs \cup {submitted}
    BY <1>8, SubmitRefs
  <2>3. base <= submitted
    BY DEF CleanInv, FreshStart
  <2>4. \A r \in refs' : r >= base /\ r \notin lost
    BY <1>0, <2>2, <2>3 DEF ReportInv
  <2> QED BY <1>0, <1>8, <2>1, <2>4 DEF ReportInv
<1>9. CASE EncodeCapture
  BY <1>8, <1>9 DEF EncodeCapture, consumerVars, requestVars
<1>10. CASE Timeout
  <2>1. UNCHANGED <<base, log, lost, reported, lagged, reports>>
    BY <1>10 DEF Timeout, consumerVars, requestVars
  <2>2. CASE Submit(FALSE)
    BY <1>8, <2>1, <2>2
  <2>3. CASE UNCHANGED <<refs, forced, submitted>>
    BY <1>1, <2>1, <2>3
  <2> QED BY <1>10, <2>2, <2>3 DEF Timeout
<1>11. CASE TakeMessage \/ NumberFrame \/ ReadbackFails \/ SendPackets \/ PacketsClosed
            \/ ConsumerEnds
  BY <1>1, <1>11 DEF TakeMessage, NumberFrame, ReadbackFails, SendPackets, PacketsClosed,
                     ConsumerEnds, loopVars, encoderVars, requestVars
<1>12. CASE Capture \/ CompositorEnds \/ HandlerEnds \/ RequestIdr \/ RequestReset \/ StopSession
  BY <1>1, <1>12 DEF Capture, CompositorEnds, HandlerEnds, RequestIdr, RequestReset, StopSession,
                     loopVars, encoderVars, requestVars, consumerVars
<1>13. CASE ReportLoss
  <2>1. UNCHANGED <<submitted, base, log, forced, refs, lost>>
    BY <1>13 DEF ReportLoss, loopVars, consumerVars, encoderVars
  <2>g. PICK g \in log : \E first \in 0..g.number :
            /\ reported' = reported \cup {g.display}
            /\ IF Len(reports) < Reports
               THEN reports' = Append(reports, first) /\ UNCHANGED lagged
               ELSE reports' = Append(Tail(reports), first) /\ lagged' = TRUE
    BY <1>13 DEF ReportLoss
  <2>2. PICK first \in 0..g.number :
            /\ reported' = reported \cup {g.display}
            /\ IF Len(reports) < Reports
               THEN reports' = Append(reports, first) /\ UNCHANGED lagged
               ELSE reports' = Append(Tail(reports), first) /\ lagged' = TRUE
    BY <2>g
  <2>3. first \in Nat /\ first <= g.number
    BY <1>0, <2>2
  <2>4. ASSUME lagged' # TRUE
        PROVE  /\ lagged' = lagged /\ Len(reports') = Len(reports) + 1
               /\ \A i \in 1..Len(reports) : reports'[i] = reports[i]
               /\ reports'[Len(reports) + 1] = first
    <3>1. reports' = Append(reports, first) /\ lagged' = lagged
      BY <2>2, <2>4
    <3> QED BY <1>0, <2>3, <3>1, AppendProperties
  <2>5. ASSUME NEW d \in reported'
        PROVE  /\ d < submitted
               /\ \/ lagged'
                  \/ \E f \in log : \E i \in 1..Len(reports') :
                        f.display = d /\ reports'[i] <= f.number
    <3>1. d < submitted
      BY <2>2, <2>5 DEF ReportInv, EpochInv
    <3>2. CASE lagged' = TRUE
      BY <3>1, <3>2
    <3>3. CASE lagged' # TRUE /\ d = g.display
      <4>1. Len(reports) + 1 \in 1..Len(reports')
        BY <1>n, <2>4, <3>3
      <4> QED BY <2>3, <2>4, <3>1, <3>3, <4>1
    <3>4. CASE lagged' # TRUE /\ d # g.display
      <4>1. d \in reported /\ ~lagged
        BY <1>0, <2>2, <2>4, <2>5, <3>4
      <4>2. PICK f \in log, i \in 1..Len(reports) : f.display = d /\ reports[i] <= f.number
        BY <4>1 DEF ReportInv
      <4>3. i \in 1..Len(reports') /\ reports'[i] = reports[i]
        BY <1>n, <2>4, <3>4, <4>2
      <4> QED BY <3>1, <4>2, <4>3
    <3> QED BY <3>2, <3>3, <3>4
  <2> QED BY <2>1, <2>5 DEF ReportInv
<1> QED
  BY <1>2, <1>3, <1>4, <1>5, <1>6, <1>7, <1>9, <1>10, <1>11, <1>12, <1>13
  DEF Next, LoopStep, ConsumerStep, ClientStep

\* The initial state has nothing on its way and nothing lost.
LEMMA LostInit == Init => EpochInv /\ ReportInv
<1> SUFFICES ASSUME Init PROVE EpochInv /\ ReportInv
  OBVIOUS
<1>1. Len(queue) = 0
  BY EmptySeq DEF Init
<1> QED BY <1>1 DEF Init, EpochInv, ReportInv

\* A step that offers a new frame to the consumer submits it.
LEMMA NewFrame ==
    ASSUME TypeOK, [Next]_vars, out' # out, IsFrame(out)'
    PROVE  \E c \in BOOLEAN : Submit(c)
<1>1. CASE UNCHANGED vars
  BY <1>1 DEF vars, loopVars
<1>2. CASE DrainResets \/ SendMessage \/ SendFails
  BY <1>2 DEF DrainResets, ResetCounters, SendMessage, SendFails, AfterSend, NoMessage, IsFrame
<1>3. CASE SeeStop \/ DropCapture \/ CaptureFails \/ DeviceLost \/ Disconnected \/ ThreadEnds
           \/ DrainIdrRequests \/ DrainInvalidations
  BY <1>3 DEF SeeStop, DropCapture, CaptureFails, DeviceLost, Disconnected, ThreadEnds,
              DrainIdrRequests, DrainInvalidations
<1>4. CASE EncodeCapture \/ Timeout
  BY <1>4 DEF EncodeCapture, Timeout
<1>5. CASE ConsumerStep
  BY <1>5 DEF ConsumerStep, TakeMessage, NumberFrame, ReadbackFails, SendPackets,
              PacketsClosed, ConsumerEnds, loopVars
<1>6. CASE Capture \/ CompositorEnds \/ HandlerEnds \/ ClientStep
  BY <1>6 DEF Capture, CompositorEnds, HandlerEnds, ClientStep, RequestIdr,
              RequestReset, ReportLoss, StopSession, loopVars
<1> QED BY <1>1, <1>2, <1>3, <1>4, <1>5, <1>6 DEF Next, LoopStep

\* No frame predicts from one the client has reported lost, though reports name
\* numbers of another epoch, overwrite each other, and frames were dropped.
THEOREM LostNeverReferenced == Safe => LostNotReferenced
<1> DEFINE IInv == TypeOK /\ OrderInv /\ CleanInv /\ EpochInv /\ ReportInv
<1>1. Init => IInv
  BY TypeInit, OrderInit, CleanInit, LostInit
<1>2. IInv /\ [Next]_vars => IInv'
  BY TypeStep, OrderStep, CleanStep, EpochStep, ReportStep
<1>3. IInv /\ [Next]_vars => [out' # out /\ IsFrame(out)' => out'.ref \notin lost]_vars
  <2> SUFFICES ASSUME IInv, [Next]_vars, out' # out, IsFrame(out)'
               PROVE  out'.ref \notin lost
    OBVIOUS
  <2>1. PICK c \in BOOLEAN : Submit(c)
    BY NewFrame
  <2>2. out'.ref = NoFrame \/ (~forced /\ out'.ref \in refs)
    BY <2>1, SubmitRefs
  <2>3. NoFrame \notin lost
    BY DEF TypeOK, RequestTypes, NoFrame
  <2> QED BY <2>2, <2>3 DEF ReportInv
<1> QED BY <1>1, <1>2, <1>3, PTL DEF Safe, LostNotReferenced
-----------------------------------------------------------------------------
(* The count of the frames in flight: what FramesIn makes of the queue as   *)
(* messages are appended to it and taken from it, and the steps on it.      *)

One(m) == IF IsFrame(m) THEN 1 ELSE 0

\* The frames of a sequence are finitely many.
LEMMA FramesFinite ==
    ASSUME NEW S, NEW s \in Seq(S)
    PROVE  /\ IsFiniteSet({i \in DOMAIN s : IsFrame(s[i])})
           /\ FramesIn(s) \in Nat
<1>1. DOMAIN s = 1..Len(s) /\ Len(s) \in Nat
  BY LenProperties
<1>2. IsFiniteSet(1..Len(s))
  BY <1>1, FS_Interval
<1>3. IsFiniteSet({i \in DOMAIN s : IsFrame(s[i])})
  BY <1>1, <1>2, FS_Subset
<1> QED BY <1>3, FS_CardinalityType DEF FramesIn

\* An appended message counts if it is a frame.
LEMMA FramesAppend ==
    ASSUME NEW S, NEW s \in Seq(S), NEW m \in S
    PROVE  FramesIn(Append(s, m)) = FramesIn(s) + One(m)
<1> DEFINE F == {i \in DOMAIN s : IsFrame(s[i])}
           G == {i \in DOMAIN Append(s, m) : IsFrame(Append(s, m)[i])}
<1>1. /\ DOMAIN s = 1..Len(s) /\ Len(s) \in Nat
      /\ DOMAIN Append(s, m) = 1..Len(s) + 1
      /\ \A i \in 1..Len(s) : Append(s, m)[i] = s[i]
      /\ Append(s, m)[Len(s) + 1] = m
  BY AppendProperties, LenProperties
<1>2. IsFiniteSet(F) /\ FramesIn(s) = Cardinality(F) /\ FramesIn(s) \in Nat
  BY FramesFinite DEF FramesIn
<1>3. Len(s) + 1 \notin F
  BY <1>1
<1>4. CASE IsFrame(m)
  <2>1. G = F \cup {Len(s) + 1}
    BY <1>1, <1>4
  <2> QED BY <2>1, <1>2, <1>3, <1>4, FS_AddElement DEF FramesIn, One
<1>5. CASE ~IsFrame(m)
  <2>1. G = F
    BY <1>1, <1>5
  <2>2. FramesIn(Append(s, m)) = FramesIn(s)
    BY <2>1 DEF FramesIn
  <2> QED BY <2>2, <1>2, <1>5 DEF One
<1> QED BY <1>4, <1>5

\* A message that is taken from the front no longer counts.
LEMMA FramesTail ==
    ASSUME NEW S, NEW s \in Seq(S), s # <<>>
    PROVE  FramesIn(s) = One(Head(s)) + FramesIn(Tail(s))
<1> DEFINE F == {i \in DOMAIN s : IsFrame(s[i])}
           T == {i \in DOMAIN Tail(s) : IsFrame(Tail(s)[i])}
           R == F \ {1}
           shift == [i \in T |-> i + 1]
<1>1. /\ Tail(s) \in Seq(S) /\ Len(s) \in Nat \ {0} /\ DOMAIN s = 1..Len(s)
      /\ DOMAIN Tail(s) = 1..(Len(s) - 1)
      /\ \A i \in 1..(Len(s) - 1) : Tail(s)[i] = s[i + 1]
      /\ Head(s) = s[1]
  BY HeadTailProperties, LenProperties, EmptySeq
<1>2. /\ IsFiniteSet(F) /\ FramesIn(s) = Cardinality(F)
      /\ IsFiniteSet(T) /\ FramesIn(Tail(s)) = Cardinality(T)
      /\ Cardinality(T) \in Nat /\ Cardinality(F) \in Nat
  BY <1>1, FramesFinite DEF FramesIn
<1>3. shift \in Bijection(T, R)
  <2>1. \A i \in T : i + 1 \in R /\ i \in Int
    BY <1>1
  <2>2. \A j \in R : j - 1 \in T /\ shift[j - 1] = j
    BY <1>1
  <2>3. \A i, j \in T : shift[i] = shift[j] => i = j
    BY <2>1
  <2>4. shift \in [T -> R]
    BY <2>1
  <2>5. shift \in Surjection(T, R)
    BY <2>2, <2>4 DEF Surjection
  <2>6. shift \in Injection(T, R)
    BY <2>3, <2>4 DEF Injection, IsInjective
  <2> QED BY <2>5, <2>6 DEF Bijection
<1>4. 1 \in F <=> IsFrame(Head(s))
  BY <1>1
<1> HIDE DEF F, T, shift
<1>5. Cardinality(R) = Cardinality(T)
  <2>1. ExistsBijection(T, R)
    BY <1>3 DEF ExistsBijection
  <2> QED BY <1>2, <2>1, FS_Bijection
<1>6. Cardinality(R) = IF 1 \in F THEN Cardinality(F) - 1 ELSE Cardinality(F)
  BY <1>2, FS_RemoveElement
<1> QED BY <1>2, <1>4, <1>5, <1>6 DEF One

\* The frames between encoder and network, part by part.
Underway == FramesIn(queue) + One(out) + One(held)

LEMMA UnderwayFrames ==
    ASSUME TypeOK
    PROVE  /\ Underway = FramesIn(queue \o <<out, held>>)
           /\ FramesIn(queue) \in Nat /\ inFlight \in Int
           /\ One(NoMessage) = 0
<1> DEFINE S == Message \cup {NoMessage}
<1>1. queue \in Seq(S) /\ out \in S /\ held \in S
  BY DEF TypeOK, LoopTypes, ConsumerTypes, ChannelTypes, Message
<1>2. queue \o <<out, held>> = Append(Append(queue, out), held)
  BY <1>1, AppendIsConcat, ConcatAssociative
<1>3. Append(queue, out) \in Seq(S)
  BY <1>1, AppendProperties
<1>4. FramesIn(queue) \in Nat /\ One(out) \in Nat /\ One(held) \in Nat
  BY <1>1, FramesFinite DEF One
<1> HIDE DEF S
<1>5. FramesIn(queue \o <<out, held>>) = (FramesIn(queue) + One(out)) + One(held)
  BY <1>1, <1>2, <1>3, FramesAppend
<1> QED BY <1>4, <1>5 DEF Underway, TypeOK, ChannelTypes, One, IsFrame, NoMessage

\* Every path of an iteration, of the loop and of the consumer, counts a frame once.
LEMMA FlightStep ==
    ASSUME TypeOK, consumer # "gone" => inFlight = Underway, [Next]_vars,
           consumer' # "gone"
    PROVE  inFlight' = Underway'
<1> USE DEF Underway, TypeOK, LoopTypes, ConsumerTypes, ChannelTypes
<1>0. /\ FramesIn(queue) \in Nat /\ inFlight \in Int /\ One(NoMessage) = 0
      /\ One(out) \in {0, 1} /\ One(held) \in {0, 1}
  BY UnderwayFrames DEF One
<1>f. \A m \in Frame : One(m) = 1
  BY DEF Frame, One, IsFrame
<1>r. \A m \in Reset : One(m) = 0
  BY DEF Reset, One, IsFrame
<1>1. CASE DrainResets
  BY <1>0, <1>1, <1>r DEF DrainResets, ResetCounters, Reset, consumerVars
<1>2. CASE SendMessage
  BY <1>0, <1>2, FramesAppend DEF SendMessage, AfterSend, consumerVars
<1>3. CASE SendFails
  BY <1>3 DEF SendFails, AfterSend, consumerVars
<1>s. ASSUME NEW c \in BOOLEAN, Submit(c), out = NoMessage,
             UNCHANGED <<consumer, held, queue>>
      PROVE  inFlight' = Underway'
  <2>1. One(out') = 1 /\ inFlight' = inFlight + 1
    BY <1>s DEF Submit, One, IsFrame
  <2>2. FramesIn(queue)' = FramesIn(queue) /\ One(held)' = One(held)
    BY <1>s DEF FramesIn, One
  <2> QED BY <1>0, <1>s, <2>1, <2>2
<1>4. CASE EncodeCapture
  BY <1>4, <1>s DEF EncodeCapture, consumerVars
<1>5. CASE Timeout
  <2>1. UNCHANGED <<consumer, held, queue>> /\ out = NoMessage
    BY <1>5 DEF Timeout, consumerVars
  <2>2. Submit(FALSE) \/ UNCHANGED <<out, inFlight>>
    BY <1>5 DEF Timeout
  <2> QED BY <1>s, <2>1, <2>2
<1>6. CASE TakeMessage
  <2>1. FramesIn(queue) = One(Head(queue)) + FramesIn(Tail(queue))
    BY <1>6, FramesTail DEF TakeMessage
  <2>2. FramesIn(Tail(queue)) \in Nat
    BY <1>6, FramesFinite, HeadTailProperties DEF TakeMessage
  <2> QED BY <1>0, <1>6, <2>1, <2>2 DEF TakeMessage, loopVars, One, IsFrame
<1>7. CASE NumberFrame
  BY <1>0, <1>f, <1>7 DEF NumberFrame, Release, loopVars
<1>8. CASE ReadbackFails \/ SendPackets
  BY <1>0, <1>f, <1>8 DEF ReadbackFails, SendPackets, Release, loopVars
<1>9. CASE PacketsClosed
  BY <1>9 DEF PacketsClosed
<1>10. CASE UNCHANGED <<out, held, queue, inFlight>> /\ consumer # "gone"
  BY <1>10
<1>11. CASE UNCHANGED vars
  BY <1>10, <1>11 DEF vars, loopVars, consumerVars
<1>12. CASE DrainIdrRequests \/ DrainInvalidations \/ DropCapture \/ CaptureFails
            \/ DeviceLost \/ Disconnected \/ SeeStop \/ ThreadEnds \/ ConsumerEnds
  BY <1>10, <1>12 DEF DrainIdrRequests, DrainInvalidations, DropCapture, CaptureFails,
     DeviceLost, Disconnected, SeeStop, ThreadEnds, ConsumerEnds, consumerVars
<1>13. CASE Capture \/ CompositorEnds \/ HandlerEnds \/ ClientStep
  BY <1>10, <1>13 DEF Capture, CompositorEnds, HandlerEnds, ClientStep, RequestIdr,
     RequestReset, ReportLoss, StopSession, loopVars, consumerVars
<1> QED
  BY <1>1, <1>2, <1>3, <1>4, <1>5, <1>6, <1>7, <1>8, <1>9, <1>11, <1>12, <1>13
     DEF Next, LoopStep, ConsumerStep

\* in_flight counts the frames that are submitted and not finished, whether they
\* are sent, dropped, unreadable, or refused by a closed channel: the gate neither
\* lets latency grow nor drops captures for good.
THEOREM InFlightIsExact == Safe => []InFlightExact
<1> DEFINE Inv == TypeOK /\ (consumer # "gone" => inFlight = Underway)
<1>1. Init => Inv
  <2> SUFFICES ASSUME Init PROVE Inv
    OBVIOUS
  <2>1. TypeOK
    BY TypeInit
  <2>2. FramesIn(<<>>) = 0
    BY FS_EmptySet DEF FramesIn
  <2> QED BY <2>1, <2>2, UnderwayFrames DEF Init, Underway
<1>2. Inv /\ [Next]_vars => Inv'
  BY TypeStep, FlightStep
<1>3. Inv => InFlightExact
  BY UnderwayFrames DEF InFlightExact
<1> QED BY <1>1, <1>2, <1>3, PTL DEF Safe
=============================================================================
