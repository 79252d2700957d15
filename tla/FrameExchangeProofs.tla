------------------------- MODULE FrameExchangeProofs -------------------------
(***************************************************************************)
(* Type correctness of FrameExchange, and the proof that the encoder reads *)
(* what the compositor exported, for any pool, channel, number of client   *)
(* buffers and descriptors, and whatever fails.                            *)
(***************************************************************************)
EXTENDS FrameExchange, SequenceTheorems, TLAPS


-----------------------------------------------------------------------------
(* Spoiling and sending. *)

LEMMA SpoilTypes ==
    ASSUME NEW f \in Frame \cup {NoFrame}, NEW file
    PROVE  /\ Spoil(f, file) \in Frame \cup {NoFrame}
           /\ f \in Frame => Spoil(f, file) \in Frame
           /\ Spoil(f, file).flag = f.flag
BY DEF Spoil, Frame, NoFrame

LEMMA SpoilAllTypes ==
    ASSUME NEW q \in Seq(Frame), NEW file
    PROVE  /\ SpoilAll(q, file) \in Seq(Frame)
           /\ Len(SpoilAll(q, file)) = Len(q)
<1>1. \A i \in 1..Len(q) : Spoil(q[i], file) \in Frame
  BY SpoilTypes
<1>2. DOMAIN q = 1..Len(q) /\ Len(q) \in Nat
  BY LenProperties
<1>3. SpoilAll(q, file) = [i \in 1..Len(q) |-> Spoil(q[i], file)]
  BY <1>2 DEF SpoilAll
<1> QED BY <1>1, <1>2, <1>3

\* Drawing into a file that no frame of the channel names leaves it as it is.
LEMMA SpoilNone ==
    ASSUME NEW q \in Seq(Frame), NEW file, \A i \in DOMAIN q : q[i].file # file
    PROVE  SpoilAll(q, file) = q
<1>1. \A i \in DOMAIN q : Spoil(q[i], file) = q[i]
  BY DEF Spoil
<1>2. SpoilAll(q, file) = [i \in DOMAIN q |-> q[i]]
  BY <1>1 DEF SpoilAll
<1>3. q = [i \in DOMAIN q |-> q[i]]
  BY LenProperties
<1> QED BY <1>2, <1>3

LEMMA TrySendTypes ==
    ASSUME CompositorTypes, NEW q \in Seq(Frame), Len(q) <= Channel, NEW f \in Frame,
           TrySend(q, f)
    PROVE  /\ consumed' \in [Flag -> BOOLEAN] /\ dirty' \in BOOLEAN
           /\ frames' \in Seq(Frame) /\ Len(frames') <= Channel
<1> USE ConstantsAssumption DEF ConstantsAssumption
<1>1. Len(q) \in Nat /\ Append(q, f) \in Seq(Frame) /\ Len(Append(q, f)) = Len(q) + 1
  BY AppendProperties, LenProperties
<1>2. (Len(q) >= Channel) \in BOOLEAN
  BY <1>1
<1>3. consumed' \in [Flag -> BOOLEAN]
  BY <1>2 DEF TrySend, CompositorTypes
<1>4. CASE Len(q) < Channel
  <2>1. frames' = Append(q, f) /\ dirty' = FALSE
    BY <1>4 DEF TrySend
  <2>2. Len(q) + 1 <= Channel
    BY <1>1, <1>4
  <2> QED BY <1>1, <1>3, <2>1, <2>2
<1>5. CASE ~(Len(q) < Channel)
  BY <1>1, <1>3, <1>5 DEF TrySend, CompositorTypes
<1> QED BY <1>4, <1>5

LEMMA KeptTypes ==
    ASSUME CompositorTypes
    PROVE  StillHeld \in [Token -> ClientFd \cup {NoFd}]
BY DEF StillHeld, CompositorTypes, Flag

\* What the client or the surface has is open.
OpenInv == \A fd \in ClientFd : fd \in aliveBuffers \/ attached = fd => buffers[fd] # NoImage

\* Closing leaves open what the client or the surface has after the step, if that
\* was open before.
LEMMA CloseTypes ==
    ASSUME ClientTypes, CloseUnheld, aliveBuffers' \subseteq ClientFd,
           attached' \in ClientFd \cup {NoFd},
           \A fd \in ClientFd : fd \in aliveBuffers' \/ attached' = fd => buffers[fd] # NoImage
    PROVE  ClientTypes' /\ OpenInv'
<1>1. buffers' \in [ClientFd -> Image \cup {NoImage}]
  BY DEF ClientTypes, CloseUnheld
<1>2. \A fd \in ClientFd : fd \in aliveBuffers' \/ attached' = fd => buffers'[fd] = buffers[fd]
  BY DEF CloseUnheld
<1> QED BY <1>1, <1>2 DEF ClientTypes, OpenInv

LEMMA NextSlotTypes ==
    ASSUME nextIndex \in PoolSlot
    PROVE  NextSlot \in PoolSlot
<1> USE ConstantsAssumption DEF ConstantsAssumption
<1>1. nextIndex + 1 \in Nat
  BY DEF PoolSlot
<1> QED BY <1>1 DEF NextSlot, PoolSlot

\* The frame of a pool slot.
PoolFrame(i) == [fd |-> i, file |-> i, format |-> "pool", flag |-> i, intact |-> TRUE]

LEMMA PoolFrameTypes ==
    ASSUME NEW i \in PoolSlot
    PROVE  PoolFrame(i) \in Frame
BY DEF PoolFrame, Frame, Format, Flag

LEMMA ScanoutFrameTypes ==
    ASSUME ClientTypes, OpenInv, attached # NoFd, NEW t \in Token
    PROVE  ScanoutFrame(t) \in Frame /\ attached \in ClientFd /\ buffers[attached] \in Image
<1>1. attached \in ClientFd /\ buffers[attached] \in Image
  BY DEF ClientTypes, OpenInv
<1> QED BY <1>1 DEF ScanoutFrame, Frame, Image, Flag

LEMMA FileTypes ==
    ASSUME ClientTypes, NEW fd \in PoolSlot \cup ClientFd
    PROVE  FileAt(fd) \in PoolSlot \cup ClientFile \cup {NoFile}
BY DEF FileAt, ClientTypes, Image, NoImage

-----------------------------------------------------------------------------
(* Type correctness. *)

TypeInv == TypeOK /\ OpenInv

\* A step leaves every variable well typed, and open what is in use.
LEMMA TypeStep == ASSUME TypeInv, [Next]_vars PROVE TypeInv'
<1> USE ConstantsAssumption DEF ConstantsAssumption
<1> /\ CompositorTypes /\ EncoderTypes /\ ClientTypes /\ OpenInv
    /\ faults \subseteq Disruptions
  BY DEF TypeInv, TypeOK
<1> SUFFICES /\ CompositorTypes' /\ EncoderTypes' /\ ClientTypes' /\ OpenInv'
             /\ faults' \subseteq Disruptions
  BY DEF TypeInv, TypeOK
<1>1. CASE UNCHANGED vars
  BY <1>1 DEF vars, compositorVars, encoderVars, clientVars, CompositorTypes, EncoderTypes,
    ClientTypes, OpenInv
<1>2. CASE Scanout
  <2>1. PICK t \in Token : held' = [StillHeld EXCEPT ![t] = attached] /\ TrySend(frames, ScanoutFrame(t))
    BY <1>2 DEF Scanout
  <2>2. ScanoutFrame(t) \in Frame /\ attached \in ClientFd
    BY <1>2, ScanoutFrameTypes DEF Scanout
  <2>3. held' \in [Token -> ClientFd \cup {NoFd}]
    BY <2>1, <2>2, KeptTypes
  <2>4. /\ consumed' \in [Flag -> BOOLEAN] /\ dirty' \in BOOLEAN
        /\ frames' \in Seq(Frame) /\ Len(frames') <= Channel
    BY <2>1, <2>2, TrySendTypes DEF CompositorTypes
  <2>5. CompositorTypes'
    BY <1>2, <2>3, <2>4 DEF Scanout, CompositorTypes
  <2>6. EncoderTypes'
    BY <1>2 DEF Scanout, EncoderTypes, encoderVars
  <2>7. ClientTypes' /\ OpenInv'
    BY <1>2, CloseTypes DEF Scanout, ClientTypes, OpenInv
  <2> QED BY <2>5, <2>6, <2>7, <1>2 DEF Scanout
<1>3. CASE SkipFrame
  <2>5. CompositorTypes'
    BY <1>3, KeptTypes DEF SkipFrame, CompositorTypes
  <2>6. EncoderTypes'
    BY <1>3 DEF SkipFrame, EncoderTypes, encoderVars
  <2>7. ClientTypes' /\ OpenInv'
    BY <1>3, CloseTypes DEF SkipFrame, ClientTypes, OpenInv
  <2> QED BY <2>5, <2>6, <2>7, <1>3 DEF SkipFrame
<1>4. CASE Compose
  <2>1. nextIndex \in PoolSlot
    BY DEF CompositorTypes
  <2>2. /\ SpoilAll(frames, nextIndex) \in Seq(Frame)
        /\ Len(SpoilAll(frames, nextIndex)) <= Channel
    BY SpoilAllTypes DEF CompositorTypes
  <2>3. TrySend(SpoilAll(frames, nextIndex), PoolFrame(nextIndex))
    BY <1>4 DEF Compose, PoolFrame
  <2>4. /\ consumed' \in [Flag -> BOOLEAN] /\ dirty' \in BOOLEAN
        /\ frames' \in Seq(Frame) /\ Len(frames') <= Channel
    BY <2>1, <2>2, <2>3, PoolFrameTypes, TrySendTypes
  <2>5. CompositorTypes'
    BY <1>4, <2>1, <2>4, KeptTypes, NextSlotTypes DEF Compose, CompositorTypes
  <2>6. EncoderTypes'
    BY <1>4, SpoilTypes DEF Compose, EncoderTypes
  <2>7. ClientTypes' /\ OpenInv'
    BY <1>4, CloseTypes DEF Compose, ClientTypes, OpenInv
  <2> QED BY <2>5, <2>6, <2>7, <1>4 DEF Compose
<1>5. CASE ExportFails
  <2>5. CompositorTypes'
    BY <1>5, KeptTypes, NextSlotTypes DEF ExportFails, CompositorTypes
  <2>6. EncoderTypes'
    BY <1>5 DEF ExportFails, EncoderTypes, encoderVars
  <2>7. ClientTypes' /\ OpenInv'
    BY <1>5, CloseTypes DEF ExportFails, ClientTypes, OpenInv
  <2> QED BY <2>5, <2>6, <2>7, <1>5 DEF ExportFails, Fault
<1>6. CASE RenderFails
  <2>2. /\ SpoilAll(frames, nextIndex) \in Seq(Frame)
        /\ Len(SpoilAll(frames, nextIndex)) <= Channel
    BY SpoilAllTypes DEF CompositorTypes
  <2>4. consumed' \in [Flag -> BOOLEAN]
    BY <1>6 DEF RenderFails, CompositorTypes
  <2>5. CompositorTypes'
    BY <1>6, <2>2, <2>4, KeptTypes, NextSlotTypes DEF RenderFails, CompositorTypes
  <2>6. EncoderTypes'
    BY <1>6, SpoilTypes DEF RenderFails, EncoderTypes
  <2>7. ClientTypes' /\ OpenInv'
    BY <1>6, CloseTypes DEF RenderFails, ClientTypes, OpenInv
  <2> QED BY <2>5, <2>6, <2>7, <1>6 DEF RenderFails, Fault
<1>7. CASE ReceiveFrame
  <2>1. /\ Head(frames) \in Frame /\ Tail(frames) \in Seq(Frame)
        /\ Len(Tail(frames)) = Len(frames) - 1 /\ Len(frames) \in Nat
    BY <1>7, HeadTailProperties, LenProperties DEF ReceiveFrame, CompositorTypes
  <2>5. CompositorTypes'
    BY <1>7, <2>1 DEF ReceiveFrame, CompositorTypes, compositorVars
  <2>6. EncoderTypes'
    BY <1>7, <2>1 DEF ReceiveFrame, EncoderTypes
  <2> QED BY <2>5, <2>6, <1>7 DEF ReceiveFrame, clientVars, ClientTypes, OpenInv
<1>8. CASE DropFrame
  <2>1. consumed' \in [Flag -> BOOLEAN] /\ work' = NoFrame /\ image' = NoImage
    BY <1>8 DEF DropFrame, Consume, CompositorTypes
  <2>5. CompositorTypes'
    BY <1>8, <2>1 DEF DropFrame, CompositorTypes
  <2>6. EncoderTypes'
    BY <1>8, <2>1 DEF DropFrame, EncoderTypes
  <2> QED BY <2>5, <2>6, <1>8 DEF DropFrame, clientVars, ClientTypes, OpenInv, Fault
<1>9. CASE Convert
  <2>1. consumed' \in [Flag -> BOOLEAN] /\ work' = NoFrame /\ image' = NoImage
    BY <1>9 DEF Convert, Consume, CompositorTypes
  <2>5. CompositorTypes'
    BY <1>9, <2>1 DEF Convert, CompositorTypes
  <2>6. EncoderTypes'
    BY <1>9, <2>1 DEF Convert, EncoderTypes
  <2> QED BY <2>5, <2>6, <1>9 DEF Convert, clientVars, ClientTypes, OpenInv, Fault
<1>10. CASE ConvertFails
  <2>1. consumed' \in [Flag -> BOOLEAN] /\ work' = NoFrame /\ image' = NoImage
    BY <1>10 DEF ConvertFails, Consume, CompositorTypes
  <2>5. CompositorTypes'
    BY <1>10, <2>1 DEF ConvertFails, CompositorTypes
  <2>6. EncoderTypes'
    BY <1>10, <2>1 DEF ConvertFails, EncoderTypes
  <2> QED BY <2>5, <2>6, <1>10 DEF ConvertFails, clientVars, ClientTypes, OpenInv, Fault
<1>11. CASE Import
  <2>1. PICK expired \in SUBSET {fd \in DOMAIN importCache : importCache[fd] # NoImage} : LookUp(Swept(expired))
    BY <1>11 DEF Import
  <2>2. Swept(expired) \in [PoolSlot \cup ClientFd -> Image \cup {NoImage}]
    BY DEF Swept, EncoderTypes
  <2>3. /\ work \in Frame /\ work.fd \in PoolSlot \cup ClientFd /\ work.format \in Format
    BY <1>11 DEF Import, EncoderTypes, Frame
  <2>4. Fresh \in Image
    BY <2>3, FileTypes DEF Fresh, Image
  <2>5. CompositorTypes'
    BY <1>11, <2>1 DEF Import, LookUp, Consume, CompositorTypes
  <2>6. EncoderTypes'
    BY <1>11, <2>1, <2>2, <2>3, <2>4 DEF Import, LookUp, Consume, EncoderTypes
  <2> QED BY <2>5, <2>6, <2>1, <1>11 DEF Import, LookUp, Fault, clientVars, ClientTypes, OpenInv
<1>12. CASE CreateBuffer
  <2>1. PICK fd \in ClientFd, file \in ClientFile, format \in ClientFormats :
            /\ buffers' = [buffers EXCEPT ![fd] = [file |-> file, format |-> format]]
            /\ aliveBuffers' = aliveBuffers \cup {fd}
    BY <1>12 DEF CreateBuffer
  <2>2. [file |-> file, format |-> format] \in Image /\ format # "none"
    BY DEF Image, Format
  <2>3. [file |-> file, format |-> format] # NoImage
    BY <2>2 DEF NoImage
  <2>4. ClientTypes' /\ OpenInv'
    BY <1>12, <2>1, <2>2, <2>3 DEF CreateBuffer, ClientTypes, OpenInv
  <2> QED BY <1>12, <2>4 DEF CreateBuffer, compositorVars, encoderVars, CompositorTypes, EncoderTypes
<1>13. CASE DestroyBuffer
  <2>7. ClientTypes' /\ OpenInv'
    BY <1>13, CloseTypes DEF DestroyBuffer, ClientTypes, OpenInv
  <2> QED BY <1>13, <2>7 DEF DestroyBuffer, compositorVars, encoderVars, CompositorTypes, EncoderTypes
<1>14. CASE CommitBuffer
  <2>1. PICK fd \in aliveBuffers :
            /\ attached' = fd
            /\ work' = Spoil(work, buffers[fd].file)
            /\ frames' = SpoilAll(frames, buffers[fd].file)
    BY <1>14 DEF CommitBuffer
  <2>5. CompositorTypes'
    BY <1>14, <2>1, SpoilAllTypes DEF CommitBuffer, CompositorTypes
  <2>6. EncoderTypes'
    BY <1>14, <2>1, SpoilTypes DEF CommitBuffer, EncoderTypes
  <2>7. ClientTypes' /\ OpenInv'
    BY <1>14, <2>1, CloseTypes DEF CommitBuffer, ClientTypes, OpenInv
  <2> QED BY <2>5, <2>6, <2>7, <1>14 DEF CommitBuffer
<1>15. CASE Detach
  <2>7. ClientTypes' /\ OpenInv'
    BY <1>15, CloseTypes DEF Detach, ClientTypes, OpenInv, NoFd, ClientFd
  <2> QED BY <1>15, <2>7 DEF Detach, encoderVars, CompositorTypes, EncoderTypes
<1>16. CASE Damage
  BY <1>16 DEF Damage, encoderVars, clientVars, CompositorTypes, EncoderTypes, ClientTypes, OpenInv
<1> QED BY <1>1, <1>2, <1>3, <1>4, <1>5, <1>6, <1>7, <1>8, <1>9, <1>10, <1>11, <1>12, <1>13,
  <1>14, <1>15, <1>16 DEF Next, Tick, EncoderStep, ClientStep

LEMMA InitTypes == ASSUME Init PROVE TypeInv
<1> USE ConstantsAssumption DEF ConstantsAssumption
<1>1. CompositorTypes
  BY EmptySeq DEF Init, CompositorTypes, PoolSlot
<1>2. EncoderTypes
  BY DEF Init, EncoderTypes
<1>3. ClientTypes /\ OpenInv
  BY DEF Init, ClientTypes, OpenInv, NoFd, ClientFd
<1> QED BY <1>1, <1>2, <1>3 DEF Init, TypeInv, TypeOK

\* Every reachable state of the exchange is well typed, and the frame channel
\* keeps its bound, for any sizes and failures.
THEOREM TypeCorrect == Safe => []TypeOK
<1>1. Init => TypeInv
  BY InitTypes
<1>2. TypeInv /\ [Next]_vars => TypeInv'
  BY TypeStep
<1>3. TypeInv => TypeOK
  BY DEF TypeInv
<1> QED BY <1>1, <1>2, <1>3, PTL DEF Safe

-----------------------------------------------------------------------------
(* The encoder reads what was exported. *)

\* A frame on its way is secured, given flags c, held buffers h and open buffers
\* b: nobody has drawn into it, its flag is down, and it names its own pool slot
\* or a client buffer that the compositor holds under this flag.
Secured(f, c, h, b) ==
    /\ f.intact = TRUE /\ c[f.flag] = FALSE
    /\ \/ f.flag \in PoolSlot /\ f.fd = f.flag /\ f.file = f.flag
       \/ /\ f.flag \in Token /\ f.fd \in ClientFd /\ h[f.flag] = f.fd
          /\ b[f.fd].file = f.file /\ b[f.fd].format = f.format

QueueSecured == \A i \in DOMAIN frames : Secured(frames[i], consumed, held, buffers)
WorkSecured  == work # NoFrame => Secured(work, consumed, held, buffers)

\* No two frames on their way share a flag.
FlagsDistinct ==
    /\ \A i, j \in DOMAIN frames : frames[i].flag = frames[j].flag => i = j
    /\ \A i \in DOMAIN frames : frames[i].flag # work.flag

\* What is imported is what the frame names.
ImageExact == image # NoImage => work # NoFrame /\ image = [file |-> work.file, format |-> work.format]

\* A client buffer is never a pool slot.
ClientFiles == \A fd \in ClientFd : buffers[fd].file \notin PoolSlot

ReadInv == QueueSecured /\ WorkSecured /\ FlagsDistinct /\ ImageExact /\ ClientFiles /\ input

\* A frame stays secured when its flag stays down, it stays held and unheld
\* buffers are closed.
LEMMA StaysSecured ==
    ASSUME TypeInv, NEW f \in Frame, Secured(f, consumed, held, buffers), CloseUnheld,
           consumed'[f.flag] = FALSE, f.flag \in Token => held'[f.flag] = held[f.flag]
    PROVE  Secured(f, consumed', held', buffers')
<1>1. CASE f.flag \in PoolSlot /\ f.fd = f.flag /\ f.file = f.flag
  BY <1>1 DEF Secured
<1>2. CASE /\ f.flag \in Token /\ f.fd \in ClientFd /\ held[f.flag] = f.fd
           /\ buffers[f.fd].file = f.file /\ buffers[f.fd].format = f.format
  <2>1. held'[f.flag] = f.fd
    BY <1>2
  <2>2. buffers'[f.fd] = buffers[f.fd]
    BY <1>2, <2>1 DEF CloseUnheld
  <2> QED BY <1>2, <2>1, <2>2 DEF Secured
<1> QED BY <1>1, <1>2 DEF Secured

LEMMA KeptSecured ==
    ASSUME TypeInv, NEW f \in Frame, Secured(f, consumed, held, buffers), f.flag \in Token
    PROVE  StillHeld[f.flag] = held[f.flag] /\ StillHeld[f.flag] # NoFd
<1>1. consumed[f.flag] = FALSE /\ held[f.flag] \in ClientFd
  BY ConstantsAssumption DEF Secured, PoolSlot, Token, ConstantsAssumption
<1>2. StillHeld[f.flag] = held[f.flag]
  BY <1>1 DEF StillHeld
<1> QED BY <1>1, <1>2, ConstantsAssumption DEF NoFd, ClientFd, ConstantsAssumption

\* A frame that does not name a file is not spoiled by drawing into it.
LEMMA NotSpoiled ==
    ASSUME NEW f, NEW file, f # NoFrame => f.file # file
    PROVE  Spoil(f, file) = f
BY DEF Spoil

\* No secured frame names a pool slot whose flag is up.
LEMMA FreeSlot ==
    ASSUME TypeInv, ClientFiles, NEW f \in Frame, Secured(f, consumed, held, buffers),
           NEW i \in PoolSlot, consumed[i] = TRUE
    PROVE  f.file # i /\ f.flag # i
BY DEF Secured, ClientFiles

\* No secured frame names a dma-buf whose wl_buffers are released.
LEMMA ReleasedFile ==
    ASSUME NEW f \in Frame, Secured(f, consumed, held, buffers), ClientFiles,
           NEW fd \in ClientFd, GivenBack(buffers[fd].file)
    PROVE  f.file # buffers[fd].file
BY DEF Secured, GivenBack, ClientFiles

LEMMA CloseFiles ==
    ASSUME ClientFiles, CloseUnheld
    PROVE  ClientFiles'
<1>1. NoImage.file \notin PoolSlot
  BY ConstantsAssumption DEF NoImage, NoFile, PoolSlot, ConstantsAssumption
<1>2. \A fd \in ClientFd : buffers'[fd] \in {buffers[fd], NoImage}
  BY DEF CloseUnheld
<1> QED BY <1>1, <1>2 DEF ClientFiles

LEMMA FrameKinds ==
    ASSUME TypeInv
    PROVE  /\ \A i \in DOMAIN frames : frames[i] \in Frame
           /\ work # NoFrame => work \in Frame
           /\ work = NoFrame => work.flag = -1
           /\ \A f \in Frame : f.flag # -1
<1>1. \A i \in DOMAIN frames : frames[i] \in Frame
  BY LenProperties, ElementOfSeq DEF TypeInv, TypeOK, CompositorTypes
<1>2. work # NoFrame => work \in Frame
  BY DEF TypeInv, TypeOK, EncoderTypes
<1>3. \A f \in Frame : f.flag # -1
  BY ConstantsAssumption DEF Frame, Flag, PoolSlot, Token, ConstantsAssumption
<1> QED BY <1>1, <1>2, <1>3 DEF NoFrame

\* A step that neither sends nor receives, leaves secured frames' flags down and
\* their buffers held.
LEMMA StayStep ==
    ASSUME TypeInv, ReadInv, CloseUnheld, frames' = frames, work' = work,
           \A f \in Frame : Secured(f, consumed, held, buffers) =>
               /\ consumed'[f.flag] = FALSE
               /\ f.flag \in Token => held'[f.flag] = held[f.flag]
    PROVE  QueueSecured' /\ WorkSecured' /\ FlagsDistinct' /\ ClientFiles'
<1>1. \A f \in Frame : Secured(f, consumed, held, buffers)
                        => Secured(f, consumed', held', buffers')
  BY StaysSecured
<1>2. QueueSecured'
  BY <1>1, FrameKinds DEF QueueSecured, ReadInv
<1>3. WorkSecured'
  BY <1>1, FrameKinds DEF WorkSecured, ReadInv
<1>4. FlagsDistinct'
  BY DEF FlagsDistinct, ReadInv
<1> QED BY <1>2, <1>3, <1>4, CloseFiles DEF ReadInv

\* A step that sends f, with a flag of its own.
LEMMA SendStep ==
    ASSUME TypeInv, ReadInv, CloseUnheld, NEW f \in Frame, TrySend(frames, f), work' = work,
           \A g \in Frame : Secured(g, consumed, held, buffers) =>
               /\ g.flag # f.flag
               /\ g.flag \in Token => held'[g.flag] = held[g.flag],
           consumed'[f.flag] = FALSE => Secured(f, consumed', held', buffers')
    PROVE  QueueSecured' /\ WorkSecured' /\ FlagsDistinct' /\ ClientFiles'
<1>1. frames \in Seq(Frame) /\ Len(frames) \in Nat /\ DOMAIN frames = 1..Len(frames)
  BY LenProperties DEF TypeInv, TypeOK, CompositorTypes
<1>2. consumed' = [consumed EXCEPT ![f.flag] = Len(frames) >= Channel]
  BY DEF TrySend
<1>3. \A g \in Frame : Secured(g, consumed, held, buffers) => consumed'[g.flag] = FALSE
  BY <1>2 DEF Secured, TypeInv, TypeOK, CompositorTypes, Frame
<1>4. \A g \in Frame : Secured(g, consumed, held, buffers)
                        => Secured(g, consumed', held', buffers')
  BY <1>3, StaysSecured
<1>5. \A i \in DOMAIN frames : /\ Secured(frames[i], consumed', held', buffers')
                               /\ frames[i].flag # f.flag
  BY <1>4, FrameKinds DEF ReadInv, QueueSecured
<1>6. WorkSecured' /\ work.flag # f.flag
  <2>1. CASE work = NoFrame
    BY <2>1, FrameKinds DEF WorkSecured
  <2>2. CASE work # NoFrame
    BY <2>2, <1>4, FrameKinds DEF ReadInv, WorkSecured
  <2> QED BY <2>1, <2>2
<1>7. CASE frames' = frames
  BY <1>5, <1>6, <1>7, CloseFiles DEF QueueSecured, FlagsDistinct, ReadInv
<1>8. CASE Len(frames) < Channel /\ frames' = Append(frames, f)
  <2>1. consumed'[f.flag] = FALSE
    <3>1. ~(Len(frames) >= Channel)
      BY <1>1, <1>8, ConstantsAssumption DEF ConstantsAssumption
    <3>2. f.flag \in DOMAIN consumed
      BY DEF TypeInv, TypeOK, CompositorTypes, Frame
    <3>3. consumed'[f.flag] = (Len(frames) >= Channel)
      BY <1>2, <3>2
    <3>4. (Len(frames) >= Channel) = FALSE
      <4> DEFINE full == Len(frames) >= Channel
      <4>1. full \in BOOLEAN /\ ~full
        BY <1>1, <3>1
      <4> HIDE DEF full
      <4>2. full = FALSE
        BY <4>1
      <4> QED BY <4>2 DEF full
    <3> QED BY <3>3, <3>4, Zenon
  <2>2. /\ DOMAIN frames' = 1..(Len(frames) + 1)
        /\ \A i \in 1..Len(frames) : frames'[i] = frames[i]
        /\ frames'[Len(frames) + 1] = f
    BY <1>1, <1>8, AppendProperties, LenProperties
  <2>3. \A i \in DOMAIN frames' : i \in DOMAIN frames \/ i = Len(frames) + 1
    BY <1>1, <2>2
  <2>4. QueueSecured'
    BY <1>1, <1>5, <2>1, <2>2, <2>3 DEF QueueSecured
  <2>5. FlagsDistinct'
    BY <1>1, <1>5, <1>6, <2>2, <2>3 DEF FlagsDistinct, ReadInv
  <2> QED BY <1>6, <2>4, <2>5, CloseFiles DEF ReadInv
<1> QED BY <1>7, <1>8 DEF TrySend

\* A step of the encoding thread that gives its frame back.
LEMMA ConsumeStep ==
    ASSUME TypeInv, ReadInv, work # NoFrame, Consume,
           UNCHANGED <<held, clientVars, frames>>
    PROVE  QueueSecured' /\ WorkSecured' /\ FlagsDistinct' /\ ClientFiles' /\ ImageExact'
<1>1. \A i \in DOMAIN frames : consumed'[frames[i].flag] = consumed[frames[i].flag]
  BY FrameKinds DEF Consume, ReadInv, FlagsDistinct, TypeInv, TypeOK, CompositorTypes, Frame
<1>2. QueueSecured'
  BY <1>1 DEF QueueSecured, ReadInv, Secured, clientVars
<1>3. FlagsDistinct'
  BY FrameKinds DEF FlagsDistinct, ReadInv, Consume, NoFrame
<1> QED BY <1>2, <1>3 DEF WorkSecured, ImageExact, ClientFiles, ReadInv, Consume, clientVars

\* A step of the exchange keeps every frame on its way secured, and what the
\* encoder reads exact.
LEMMA ReadStep == ASSUME TypeInv, ReadInv, [Next]_vars PROVE ReadInv'
<1> USE ConstantsAssumption DEF ConstantsAssumption
<1> /\ QueueSecured /\ WorkSecured /\ FlagsDistinct /\ ImageExact /\ ClientFiles /\ input
  BY DEF ReadInv
<1> /\ CompositorTypes /\ EncoderTypes /\ ClientTypes /\ OpenInv
  BY DEF TypeInv, TypeOK
<1>1. CASE UNCHANGED vars
  BY <1>1 DEF vars, compositorVars, encoderVars, clientVars, ReadInv, QueueSecured, WorkSecured,
    FlagsDistinct, ImageExact, ClientFiles
<1>2. CASE Scanout
  <2>1. PICK t \in Token : /\ StillHeld[t] = NoFd /\ held' = [StillHeld EXCEPT ![t] = attached]
                           /\ TrySend(frames, ScanoutFrame(t))
    BY <1>2 DEF Scanout
  <2>2. ScanoutFrame(t) \in Frame /\ attached \in ClientFd /\ ScanoutFrame(t).flag = t
    BY <1>2, ScanoutFrameTypes DEF Scanout, ScanoutFrame
  <2>3. \A u \in Token : u # t => held'[u] = StillHeld[u]
    BY <2>1, KeptTypes
  <2>4. ASSUME NEW g \in Frame, Secured(g, consumed, held, buffers)
        PROVE  g.flag # t /\ (g.flag \in Token => held'[g.flag] = held[g.flag])
    <3>1. CASE g.flag \in Token
      BY <2>1, <2>3, <2>4, <3>1, KeptSecured
    <3>2. CASE g.flag \notin Token
      BY <3>2
    <3> QED BY <3>1, <3>2
  <2>5. held'[t] = attached /\ attached' = attached /\ buffers'[attached] = buffers[attached]
    <3>1. held'[t] = attached /\ attached' = attached
      BY <1>2, <2>1, KeptTypes DEF Scanout
    <3> QED BY <1>2, <2>2, <3>1 DEF Scanout, CloseUnheld
  <2>6. ASSUME consumed'[t] = FALSE
        PROVE  Secured(ScanoutFrame(t), consumed', held', buffers')
    BY <2>2, <2>5, <2>6 DEF Secured, ScanoutFrame
  <2>7. QueueSecured' /\ WorkSecured' /\ FlagsDistinct' /\ ClientFiles'
    BY <1>2, <2>1, <2>2, <2>4, <2>6, SendStep DEF Scanout, encoderVars
  <2> QED BY <1>2, <2>7 DEF Scanout, encoderVars, ReadInv, ImageExact
<1>3. CASE SkipFrame
  <2>1. QueueSecured' /\ WorkSecured' /\ FlagsDistinct' /\ ClientFiles'
    BY <1>3, StayStep, KeptSecured DEF SkipFrame, encoderVars, Secured
  <2> QED BY <1>3, <2>1 DEF SkipFrame, encoderVars, ReadInv, ImageExact
<1>4. CASE Compose
  <2>1. nextIndex \in PoolSlot /\ nextIndex \notin Token /\ consumed[nextIndex] = TRUE
    BY <1>4 DEF Compose, CompositorTypes, PoolSlot, Token, Flag
  <2>2. \A g \in Frame : Secured(g, consumed, held, buffers)
                         => g.file # nextIndex /\ g.flag # nextIndex
    BY <2>1, FreeSlot
  <2>3. SpoilAll(frames, nextIndex) = frames
    BY <2>2, FrameKinds, SpoilNone DEF QueueSecured, CompositorTypes
  <2>4. Spoil(work, nextIndex) = work
    BY <2>2, FrameKinds, NotSpoiled DEF WorkSecured
  <2>5. TrySend(frames, PoolFrame(nextIndex)) /\ work' = work
    BY <1>4, <2>3, <2>4 DEF Compose, PoolFrame
  <2>6. PoolFrame(nextIndex) \in Frame /\ PoolFrame(nextIndex).flag = nextIndex
    BY <2>1, PoolFrameTypes DEF PoolFrame
  <2>7. \A g \in Frame : Secured(g, consumed, held, buffers) /\ g.flag \in Token
                         => held'[g.flag] = held[g.flag]
    BY <1>4, KeptSecured DEF Compose
  <2>8. ASSUME consumed'[nextIndex] = FALSE
        PROVE  Secured(PoolFrame(nextIndex), consumed', held', buffers')
    BY <2>1, <2>8 DEF Secured, PoolFrame
  <2>9. QueueSecured' /\ WorkSecured' /\ FlagsDistinct' /\ ClientFiles'
    BY <1>4, <2>2, <2>5, <2>6, <2>7, <2>8, SendStep DEF Compose
  <2> QED BY <1>4, <2>5, <2>9 DEF Compose, ReadInv, ImageExact
<1>5. CASE ExportFails
  <2>1. QueueSecured' /\ WorkSecured' /\ FlagsDistinct' /\ ClientFiles'
    BY <1>5, StayStep, KeptSecured DEF ExportFails, encoderVars, Secured
  <2> QED BY <1>5, <2>1 DEF ExportFails, encoderVars, ReadInv, ImageExact
<1>6. CASE RenderFails
  <2>1. nextIndex \in PoolSlot /\ consumed[nextIndex] = TRUE
    BY <1>6 DEF RenderFails, CompositorTypes, PoolSlot, Flag
  <2>2. \A g \in Frame : Secured(g, consumed, held, buffers)
                         => g.file # nextIndex /\ g.flag # nextIndex
    BY <2>1, FreeSlot
  <2>3. SpoilAll(frames, nextIndex) = frames
    BY <2>2, FrameKinds, SpoilNone DEF QueueSecured, CompositorTypes
  <2>4. Spoil(work, nextIndex) = work
    BY <2>2, FrameKinds, NotSpoiled DEF WorkSecured
  <2>5. frames' = frames /\ work' = work
    BY <1>6, <2>3, <2>4 DEF RenderFails
  <2>6. \A g \in Frame : Secured(g, consumed, held, buffers) =>
            /\ consumed'[g.flag] = FALSE
            /\ g.flag \in Token => held'[g.flag] = held[g.flag]
    BY <1>6, <2>2, KeptSecured DEF RenderFails, Secured, CompositorTypes, Frame
  <2>7. QueueSecured' /\ WorkSecured' /\ FlagsDistinct' /\ ClientFiles'
    BY <1>6, <2>5, <2>6, StayStep DEF RenderFails
  <2> QED BY <1>6, <2>5, <2>7 DEF RenderFails, ReadInv, ImageExact
<1>7. CASE ReceiveFrame
  <2>1. frames \in Seq(Frame) /\ frames # <<>> /\ Len(frames) \in Nat \ {0}
        /\ DOMAIN frames = 1..Len(frames)
    BY <1>7, LenProperties, EmptySeq DEF ReceiveFrame, CompositorTypes
  <2>2. /\ work' = frames[1] /\ DOMAIN frames' = 1..(Len(frames) - 1)
        /\ \A i \in DOMAIN frames' : frames'[i] = frames[i + 1]
    BY <1>7, <2>1, HeadTailProperties, LenProperties DEF ReceiveFrame
  <2>3. 1 \in DOMAIN frames /\ \A i \in DOMAIN frames' : i + 1 \in DOMAIN frames /\ i + 1 # 1
    BY <2>1, <2>2
  <2>4. QueueSecured' /\ WorkSecured'
    BY <1>7, <2>2, <2>3 DEF ReceiveFrame, QueueSecured, WorkSecured, compositorVars, clientVars
  <2>5. FlagsDistinct'
    BY <2>1, <2>2, <2>3 DEF FlagsDistinct
  <2> QED BY <1>7, <2>4, <2>5 DEF ReceiveFrame, ReadInv, ImageExact, ClientFiles, clientVars
<1>8. CASE DropFrame
  BY <1>8, ConsumeStep DEF DropFrame, ReadInv
<1>9. CASE Convert
  <2>1. work # NoFrame /\ image = [file |-> work.file, format |-> work.format]
    BY <1>9 DEF Convert, ImageExact
  <2>2. work.intact = TRUE
    BY <2>1 DEF WorkSecured, Secured
  <2>3. input'
    BY <1>9, <2>1, <2>2 DEF Convert
  <2> QED BY <1>9, <2>1, <2>3, ConsumeStep DEF Convert, ReadInv
<1>10. CASE ConvertFails
  BY <1>10, ConsumeStep DEF ConvertFails, ReadInv, ImageExact
<1>11. CASE Import
  <2>1. PICK expired \in SUBSET {fd \in DOMAIN importCache : importCache[fd] # NoImage} : LookUp(Swept(expired))
    BY <1>11 DEF Import
  <2>2. work # NoFrame /\ work \in Frame
    BY <1>11, FrameKinds DEF Import
  <2>3. FileAt(work.fd) = work.file
    BY <2>2 DEF WorkSecured, Secured, FileAt, ClientFd, PoolSlot
  <2>4. CASE work' = NoFrame /\ Consume
    BY <1>11, <2>2, <2>4, ConsumeStep DEF Import, ReadInv
  <2>5. CASE image' = Fresh /\ UNCHANGED <<consumed, work>>
    BY <1>11, <2>2, <2>3, <2>5 DEF Fresh, Import, ReadInv, QueueSecured, WorkSecured, FlagsDistinct,
      ImageExact, ClientFiles, clientVars
  <2>6. CASE /\ CacheHit(Swept(expired)[work.fd], work.fd, work.format)
             /\ image' = Swept(expired)[work.fd] /\ UNCHANGED <<consumed, work>>
    <3>1. Swept(expired)[work.fd] \in Image \cup {NoImage}
      BY <2>2 DEF Swept, EncoderTypes, Frame
    <3>2. image' = [file |-> work.file, format |-> work.format]
      BY <2>2, <2>3, <2>6, <3>1 DEF CacheHit, Image, NoImage
    <3> QED BY <1>11, <2>2, <2>6, <3>2 DEF Import, ReadInv, QueueSecured, WorkSecured, FlagsDistinct,
          ImageExact, ClientFiles, clientVars
  <2> QED BY <2>1, <2>4, <2>5, <2>6 DEF LookUp, Consume
<1>12. CASE CreateBuffer
  <2>1. PICK fd \in ClientFd, file \in ClientFile, format \in ClientFormats :
            /\ buffers[fd] = NoImage
            /\ buffers' = [buffers EXCEPT ![fd] = [file |-> file, format |-> format]]
    BY <1>12 DEF CreateBuffer
  <2>2. ASSUME NEW f \in Frame, Secured(f, consumed, held, buffers)
        PROVE  Secured(f, consumed', held', buffers')
    <3>1. f.flag \in Token /\ f.fd \in ClientFd /\ buffers[f.fd].format = f.format => f.fd # fd
      BY <2>1 DEF Frame, Format, NoImage
    <3> QED BY <1>12, <2>1, <2>2, <3>1 DEF CreateBuffer, compositorVars, Secured, ClientTypes
  <2>3. ClientFiles'
    BY <2>1 DEF ClientFiles, ClientFile, PoolSlot, ClientTypes
  <2>4. QueueSecured' /\ WorkSecured'
    BY <1>12, <2>2, FrameKinds DEF CreateBuffer, encoderVars, QueueSecured, WorkSecured
  <2> QED BY <1>12, <2>3, <2>4 DEF CreateBuffer, encoderVars, ReadInv, FlagsDistinct, ImageExact
<1>13. CASE DestroyBuffer
  <2>1. QueueSecured' /\ WorkSecured' /\ FlagsDistinct' /\ ClientFiles'
    BY <1>13, StayStep DEF DestroyBuffer, compositorVars, encoderVars, Secured
  <2> QED BY <1>13, <2>1 DEF DestroyBuffer, encoderVars, ReadInv, ImageExact
<1>14. CASE CommitBuffer
  <2>1. PICK fd \in aliveBuffers : /\ GivenBack(buffers[fd].file)
                            /\ work' = Spoil(work, buffers[fd].file)
                            /\ frames' = SpoilAll(frames, buffers[fd].file)
    BY <1>14 DEF CommitBuffer
  <2>2. \A g \in Frame : Secured(g, consumed, held, buffers) => g.file # buffers[fd].file
    BY <2>1, ReleasedFile DEF ClientTypes
  <2>3. SpoilAll(frames, buffers[fd].file) = frames
    BY <2>2, FrameKinds, SpoilNone DEF QueueSecured, CompositorTypes
  <2>4. Spoil(work, buffers[fd].file) = work
    BY <2>2, FrameKinds, NotSpoiled DEF WorkSecured
  <2>5. QueueSecured' /\ WorkSecured' /\ FlagsDistinct' /\ ClientFiles'
    BY <1>14, <2>1, <2>3, <2>4, StayStep DEF CommitBuffer, Secured
  <2> QED BY <1>14, <2>1, <2>4, <2>5 DEF CommitBuffer, ReadInv, ImageExact
<1>15. CASE Detach
  <2>1. QueueSecured' /\ WorkSecured' /\ FlagsDistinct' /\ ClientFiles'
    BY <1>15, StayStep DEF Detach, encoderVars, Secured
  <2> QED BY <1>15, <2>1 DEF Detach, encoderVars, ReadInv, ImageExact
<1>16. CASE Damage
  BY <1>16 DEF Damage, encoderVars, clientVars, ReadInv, QueueSecured, WorkSecured, FlagsDistinct,
    ImageExact, ClientFiles
<1> QED BY <1>1, <1>2, <1>3, <1>4, <1>5, <1>6, <1>7, <1>8, <1>9, <1>10, <1>11, <1>12, <1>13,
  <1>14, <1>15, <1>16 DEF Next, Tick, EncoderStep, ClientStep

LEMMA InitRead == ASSUME Init PROVE ReadInv
<1>1. DOMAIN frames = {}
  BY DEF Init
<1>2. ClientFiles
  BY ConstantsAssumption DEF Init, ClientFiles, NoImage, NoFile, PoolSlot, ConstantsAssumption
<1> QED BY <1>1, <1>2 DEF Init, ReadInv, QueueSecured, WorkSecured, FlagsDistinct, ImageExact

\* What the encoder reads is what the compositor exported, however clients create,
\* destroy and draw into buffers, descriptors are recycled, entries of the import
\* cache expire and steps fail: for any pool, channel and number of buffers.
THEOREM EncoderReadsExport == Safe => []ReadsWhatWasExported
<1>1. Init => TypeInv /\ ReadInv
  BY InitTypes, InitRead
<1>2. TypeInv /\ ReadInv /\ [Next]_vars => TypeInv' /\ ReadInv'
  BY TypeStep, ReadStep
<1>3. ReadInv => ReadsWhatWasExported
  BY DEF ReadInv, ReadsWhatWasExported
<1> QED BY <1>1, <1>2, <1>3, PTL DEF Safe
=============================================================================
