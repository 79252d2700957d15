------------------------------- MODULE MCMedia -------------------------------
(***************************************************************************)
(* Parts of the way between game and client that meet only over channels:  *)
(* a behaviour is one of the audio server's playback stream, of its loop,  *)
(* of the video packetizer, of the control loop or of the Vulkan layer,    *)
(* chosen at the start, and leaves the other parts alone.                  *)
(***************************************************************************)
EXTENDS PulseStream, PulseServer, Packetizer, Control, WsiLayer

VARIABLE part

mediaVars == <<part, pulseVars, serverVars, packetVars, controlVars, wsiVars>>

MCUnset  == [max |-> Unset, target |-> Unset, minreq |-> Unset, prebuf |-> Unset]
MCSmall  == [max |-> Unset, target |-> 1, minreq |-> 3, prebuf |-> 1]
MCDirect == [max |-> Unset, target |-> Unset, minreq |-> Unset, prebuf |-> 0]
MCTight  == [max |-> 4, target |-> Unset, minreq |-> Unset, prebuf |-> Unset]  \* leaves no room
MCAttrs  == {MCUnset, MCSmall, MCDirect, MCTight}

MCKeyId(k) == k

MediaInit ==
  /\ part \in {"stream", "server", "packets", "control", "layer"}
  /\ PulseInit /\ ServerInit /\ ControlInit
  /\ PacketInit /\ (part = "packets" \/ keys = CHOOSE k \in Keys : TRUE)
  /\ WsiInit

StreamPart == part = "stream" /\ PulseNext /\ UNCHANGED <<part, serverVars, packetVars, controlVars, wsiVars>>
ServerPart == part = "server" /\ ServerNext /\ UNCHANGED <<part, pulseVars, packetVars, controlVars, wsiVars>>
PacketPart == part = "packets" /\ PacketNext /\ UNCHANGED <<part, pulseVars, serverVars, controlVars, wsiVars>>
ControlPart == part = "control" /\ ControlNext /\ UNCHANGED <<part, pulseVars, serverVars, packetVars, wsiVars>>
LayerPart == part = "layer" /\ WsiNext /\ UNCHANGED <<part, pulseVars, serverVars, packetVars, controlVars>>

MediaNext == StreamPart \/ ServerPart \/ PacketPart \/ ControlPart \/ LayerPart

On(p) == part = p

\* The fairness of each module, for the part that runs.
MediaFairness ==
  /\ WF_pulseVars(On("stream") /\ Tick)
  /\ WF_pulseVars(On("stream") /\ handle_stream_write(owed) /\ owed > 0)
  /\ WF_serverVars(On("server") /\ LoopStep)
  /\ SF_serverVars(On("server") /\ (RecvWouldBlock \/ RecvFails))
  /\ WF_serverVars(On("server") /\ EncoderStep)
  /\ WF_controlVars(On("control") /\ LoopRound)
  /\ WF_controlVars(On("control") /\ HandlerStep)
  /\ \A t \in Threads : WF_wsiVars(On("layer") /\ (InsertSwapchain(t) \/ Presented(t)))
  /\ \A h \in Handles : WF_wsiVars(On("layer") /\ \E t \in Threads : QueuePresent(t, h))
  /\ \A h \in Handles : WF_wsiVars(On("layer") /\ \E t \in Threads : DestroySwapchain(t, h))

MediaSpec == MediaInit /\ [][MediaNext]_mediaVars /\ MediaFairness
=============================================================================
