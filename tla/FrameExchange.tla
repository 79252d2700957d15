---------------------------- MODULE FrameExchange ----------------------------
(***************************************************************************)
(* The exchange of frames between the compositor and the encoding thread   *)
(* while both run: the pool of GBM buffers with their consumed flags,      *)
(* direct scanout of client buffers, the frame channel, and the DMA-BUF    *)
(* import cache keyed by file descriptor. How the two threads end is in    *)
(* VideoPipeline.                                                          *)
(*                                                                         *)
(* A dma-buf is known by its file, an open file description; a descriptor  *)
(* is a number that is used again once it is closed. Content is abstracted *)
(* to whether a frame on its way is still what was exported, and time to   *)
(* the choice of what has expired.                                         *)
(***************************************************************************)
EXTENDS Integers, Sequences, FiniteSets

CONSTANTS
    Pool,           \* BUFFER_POOL_SIZE
    Channel,        \* capacity of the frame channel
    Files, Fds,     \* bounds: dma-bufs of the client, and their descriptors here
    ClientFormats,  \* formats of its buffers
    MaxFaults,      \* bound: steps that fail, one of a kind
    Disruptions     \* what may fail: see Disruption

\* The export or the binding of the render target; the rendering; the import;
\* the colour converter or its work.
Disruption == {"export", "render", "import", "convert"}

Format == {"pool", "client"}               \* import parameters

ASSUME ConstantsAssumption ==
    /\ Pool \in Nat \ {0} /\ Channel \in Nat \ {0}
    /\ Files \in Nat /\ Fds \in Nat /\ MaxFaults \in Nat
    /\ ClientFormats \subseteq Format /\ Disruptions \subseteq Disruption

PoolSlot   == 0..(Pool - 1)                \* its file and its descriptor, too
Token      == Pool..(Pool + Channel + 1)   \* consumed flags of scanned out buffers
Flag       == PoolSlot \cup Token
ClientFile == Pool..(Pool + Files - 1)
ClientFd   == Pool..(Pool + Fds - 1)
NoFile     == -1
NoFd       == -1

VARIABLES
    dirty,      \* screen_dirty
    consumed,   \* the flags: the encoder is done with the buffer
    nextIndex,  \* next_buffer_index
    held,       \* held_scanout_buffers, by flag
    frames,     \* the frame channel
    work,       \* the frame the encoding thread works on, or NoFrame
    image,      \* what it has imported for it, or NoImage
    importCache,    \* DmaBufImporter's cache, by descriptor
    input,      \* the encoder's input image is what was exported
    buffers,    \* the client's wl_buffers, by descriptor: what is open there
    aliveBuffers,   \* those it has not destroyed
    attached,   \* the buffer committed to the surface, or NoFd
    faults      \* kinds of steps that failed

compositorVars == <<dirty, consumed, nextIndex, held>>
encoderVars    == <<work, image, importCache, input>>
clientVars     == <<buffers, aliveBuffers, attached>>
vars == <<compositorVars, encoderVars, clientVars, frames, faults>>

Image   == [file : PoolSlot \cup ClientFile \cup {NoFile}, format : Format]
NoImage == [file |-> NoFile, format |-> "none"]
\* file is what was open at fd on the export; intact: nobody has drawn into it since.
Frame   == [fd : PoolSlot \cup ClientFd, file : PoolSlot \cup ClientFile \cup {NoFile},
            format : Format, flag : Flag, intact : BOOLEAN]
NoFrame == [flag |-> -1]

CompositorTypes ==
    /\ dirty \in BOOLEAN
    /\ consumed \in [Flag -> BOOLEAN] /\ nextIndex \in PoolSlot
    /\ held \in [Token -> ClientFd \cup {NoFd}]
    /\ frames \in Seq(Frame) /\ Len(frames) <= Channel

EncoderTypes ==
    /\ work \in Frame \cup {NoFrame} /\ image \in Image \cup {NoImage}
    /\ importCache \in [PoolSlot \cup ClientFd -> Image \cup {NoImage}]
    /\ input \in BOOLEAN

ClientTypes ==
    /\ buffers \in [ClientFd -> Image \cup {NoImage}] /\ aliveBuffers \subseteq ClientFd
    /\ attached \in ClientFd \cup {NoFd}

TypeOK == CompositorTypes /\ EncoderTypes /\ ClientTypes /\ faults \subseteq Disruptions

\* Pool and encoder as they are created.
Init ==
    /\ dirty = TRUE
    /\ consumed = [i \in Flag |-> TRUE] /\ nextIndex = 0
    /\ held = [t \in Token |-> NoFd]
    /\ frames = <<>> /\ work = NoFrame /\ image = NoImage
    /\ importCache = [fd \in PoolSlot \cup ClientFd |-> NoImage]
    /\ input = TRUE
    /\ buffers = [fd \in ClientFd |-> NoImage]
    /\ aliveBuffers = {} /\ attached = NoFd /\ faults = {}

\* Something of kind d goes wrong.
Fault(d) ==
    /\ d \in Disruptions \ faults /\ Cardinality(faults) < MaxFaults
    /\ faults' = faults \cup {d}

-----------------------------------------------------------------------------
(* Buffers, files and descriptors. *)

\* The client may draw into a dma-buf when all its wl_buffers are released.
GivenBack(file) ==
    \A fd \in ClientFd : buffers[fd].file = file =>
        attached # fd /\ \A t \in Token : held[t] # fd

\* A descriptor is closed when the client has destroyed its wl_buffer and neither
\* the surface nor the compositor holds it any more.
CloseUnheld ==
    buffers' = [fd \in ClientFd |->
        IF fd \in aliveBuffers' \/ attached' = fd \/ \E t \in Token : held'[t] = fd
        THEN buffers[fd] ELSE NoImage]

FileAt(fd) == IF fd \in PoolSlot THEN fd ELSE buffers[fd].file

\* What drawing into a file does to a frame on its way.
Spoil(f, file) == IF f # NoFrame /\ f.file = file THEN [f EXCEPT !.intact = FALSE] ELSE f
SpoilAll(q, file) == [i \in DOMAIN q |-> Spoil(q[i], file)]

-----------------------------------------------------------------------------
(* The compositor: render_and_export, when the screen is dirty or the last  *)
(* frame is a second old.                                                   *)

\* Seeded fault: a scanned out buffer is released when its frame is sent.
StillHeldUnlessSent == [t \in Token |-> NoFd]

\* Buffers the encoder has finished with are released first.
StillHeld == [t \in Token |-> IF consumed[t] THEN NoFd ELSE held[t]]

\* try_send: a full channel gives the buffer back.
TrySend(q, f) ==
    /\ consumed' = [consumed EXCEPT ![f.flag] = Len(q) >= Channel]
    /\ IF Len(q) < Channel THEN frames' = Append(q, f) /\ dirty' = FALSE
                           ELSE frames' = q /\ UNCHANGED dirty

\* The frame that names the committed buffer, of the toplevel or of the override
\* surface.
ScanoutFrame(t) ==
    [fd |-> attached, file |-> buffers[attached].file, format |-> buffers[attached].format,
     flag |-> t, intact |-> TRUE]

\* The committed buffer goes to the encoder as it is, and is held.
Scanout ==
    /\ attached # NoFd
    /\ \E t \in Token :
        /\ StillHeld[t] = NoFd /\ \A u \in Token : u < t => StillHeld[u] # NoFd
        /\ held' = [StillHeld EXCEPT ![t] = attached]
        /\ TrySend(frames, ScanoutFrame(t))
    /\ UNCHANGED <<nextIndex, encoderVars, aliveBuffers, attached, faults>> /\ CloseUnheld

\* The encoder still reads the next buffer: skip the frame.
SkipFrame ==
    /\ ~consumed[nextIndex]
    /\ held' = StillHeld
    /\ UNCHANGED <<dirty, consumed, nextIndex, encoderVars, aliveBuffers, attached, frames,
                   faults>> /\ CloseUnheld

NextSlot == (nextIndex + 1) % Pool

\* Render into the next buffer of the pool and send it.
Compose ==
    /\ consumed[nextIndex]
    /\ held' = StillHeld /\ nextIndex' = NextSlot
    /\ work' = Spoil(work, nextIndex)
    /\ TrySend(SpoilAll(frames, nextIndex),
               [fd |-> nextIndex, file |-> nextIndex, format |-> "pool",
                flag |-> nextIndex, intact |-> TRUE])
    /\ UNCHANGED <<image, importCache, input, aliveBuffers, attached, faults>> /\ CloseUnheld

\* The export or the binding fails: the slot is given back.
ExportFails ==
    /\ consumed[nextIndex] /\ Fault("export")
    /\ held' = StillHeld /\ nextIndex' = NextSlot
    /\ UNCHANGED <<dirty, consumed, encoderVars, aliveBuffers, attached, frames>> /\ CloseUnheld

\* Collecting the elements or render_output fails: the slot is not given back.
RenderFails ==
    /\ consumed[nextIndex] /\ Fault("render")
    /\ held' = StillHeld /\ nextIndex' = NextSlot
    /\ consumed' = [consumed EXCEPT ![nextIndex] = FALSE]
    /\ work' = Spoil(work, nextIndex) /\ frames' = SpoilAll(frames, nextIndex)
    /\ UNCHANGED <<dirty, image, importCache, input, aliveBuffers, attached>> /\ CloseUnheld

-----------------------------------------------------------------------------
(* The encoding thread. *)

ReceiveFrame ==
    /\ work = NoFrame /\ frames # <<>>
    /\ work' = Head(frames) /\ frames' = Tail(frames)
    /\ UNCHANGED <<compositorVars, image, importCache, input, clientVars, faults>>

\* The flag is raised; the thread has no more use for the frame.
Consume ==
    /\ consumed' = [consumed EXCEPT ![work.flag] = TRUE]
    /\ work' = NoFrame /\ image' = NoImage

\* The packet consumer is behind: drop the frame before encoding it.
DropFrame ==
    /\ work # NoFrame /\ image = NoImage /\ Consume
    /\ UNCHANGED <<dirty, nextIndex, held, importCache, input, clientVars, frames, faults>>

\* A cache hit: same parameters, and kcmp finds the same file.
CacheHit(entry, fd, format) == entry.format = format /\ entry.file = FileAt(fd)

\* evict_stale: entries that have not been used for a while are dropped.
Swept(expired) == [fd \in DOMAIN importCache |-> IF fd \in expired THEN NoImage ELSE importCache[fd]]

\* The new import of the working frame's descriptor: what is open there now.
Fresh == [file |-> FileAt(work.fd), format |-> work.format]

\* import_or_reuse: look up, or import anew over a stale entry.
LookUp(entries) ==
    \/ /\ CacheHit(entries[work.fd], work.fd, work.format)
       /\ image' = entries[work.fd] /\ importCache' = entries
       /\ UNCHANGED <<consumed, work, faults>>
    \/ /\ ~CacheHit(entries[work.fd], work.fd, work.format)
       /\ image' = Fresh /\ importCache' = [entries EXCEPT ![work.fd] = Fresh]
       /\ UNCHANGED <<consumed, work, faults>>
    \/ /\ ~CacheHit(entries[work.fd], work.fd, work.format) /\ Fault("import")
       /\ importCache' = [entries EXCEPT ![work.fd] = NoImage] /\ Consume

Import ==
    /\ work # NoFrame /\ image = NoImage
    /\ \E expired \in SUBSET {fd \in DOMAIN importCache : importCache[fd] # NoImage} :
        LookUp(Swept(expired))
    /\ UNCHANGED <<dirty, nextIndex, held, input, clientVars, frames>>

\* Convert the frame into the encoder's input image and give its buffer back.
Convert ==
    /\ image # NoImage /\ Consume
    /\ input' = (work.intact /\ image = [file |-> work.file, format |-> work.format])
    /\ UNCHANGED <<dirty, nextIndex, held, importCache, clientVars, frames, faults>>

\* There is no converter for the format, or the conversion fails.
ConvertFails ==
    /\ image # NoImage /\ Fault("convert") /\ Consume
    /\ UNCHANGED <<dirty, nextIndex, held, importCache, input, clientVars, frames>>

-----------------------------------------------------------------------------
(* The client. *)

\* A wl_buffer for a dma-buf arrives with any free descriptor.
CreateBuffer ==
    /\ \E fd \in ClientFd, file \in ClientFile, format \in ClientFormats :
        /\ buffers[fd] = NoImage
        /\ buffers' = [buffers EXCEPT ![fd] = [file |-> file, format |-> format]]
        /\ aliveBuffers' = aliveBuffers \cup {fd}
    /\ UNCHANGED <<compositorVars, encoderVars, attached, frames, faults>>

DestroyBuffer ==
    /\ \E fd \in aliveBuffers : aliveBuffers' = aliveBuffers \ {fd}
    /\ UNCHANGED <<compositorVars, encoderVars, attached, frames, faults>> /\ CloseUnheld

\* The client draws into a released buffer and commits it.
CommitBuffer ==
    /\ \E fd \in aliveBuffers :
        /\ GivenBack(buffers[fd].file)
        /\ attached' = fd
        /\ work' = Spoil(work, buffers[fd].file)
        /\ frames' = SpoilAll(frames, buffers[fd].file)
    /\ dirty' = TRUE
    /\ UNCHANGED <<consumed, nextIndex, held, image, importCache, input, aliveBuffers, faults>>
    /\ CloseUnheld

\* The client takes its buffer off the surface.
Detach ==
    /\ attached # NoFd /\ attached' = NoFd /\ dirty' = TRUE
    /\ UNCHANGED <<consumed, nextIndex, held, encoderVars, aliveBuffers, frames, faults>>
    /\ CloseUnheld

\* A cursor or a popup changes the screen.
Damage ==
    /\ ~dirty /\ dirty' = TRUE
    /\ UNCHANGED <<consumed, nextIndex, held, encoderVars, clientVars, frames, faults>>

Tick == Scanout \/ SkipFrame \/ Compose \/ ExportFails \/ RenderFails

EncoderStep == ReceiveFrame \/ DropFrame \/ Import \/ Convert \/ ConvertFails

ClientStep == CreateBuffer \/ DestroyBuffer \/ CommitBuffer \/ Detach \/ Damage

Next == Tick \/ EncoderStep \/ ClientStep

Safe == Init /\ [][Next]_vars

\* The frame timer fires, and the encoding thread goes on with what it has.
Fairness == WF_vars(Tick) /\ WF_vars(EncoderStep)

Spec == Safe /\ Fairness
-----------------------------------------------------------------------------
(* Properties. *)

\* What the encoder reads is what the compositor exported: no pool buffer is
\* rendered into, no client buffer is given back to its client, and no
\* descriptor is closed and used for another dma-buf, while a frame that names
\* it is on its way; and the import cache never answers with another dma-buf.
ReadsWhatWasExported == input

\* The comment on BUFFER_POOL_SIZE: there is always a free buffer, if not at
\* once then when the encoder has gone on.
FreeBuffer == []<>consumed[nextIndex]
=============================================================================
