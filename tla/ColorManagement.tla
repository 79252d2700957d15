--------------------------- MODULE ColorManagement ---------------------------
(***************************************************************************)
(* What the surfaces of a session say about their colours, by the colour   *)
(* management protocol (double buffered, applied on commit) or by the      *)
(* swapchain protocol of the Vulkan layer, and what the compositor makes   *)
(* of it: the colour space of the frames and the HDR metadata that go to   *)
(* the encoder and the client.                                             *)
(*                                                                         *)
(* A game uses the last swapchain of its surface.  What it declares on it  *)
(* counts until it makes another swapchain, or another surface takes over  *)
(* the screen from this one: each of these begins a new period of the      *)
(* surface, and mastering metadata is the number of the period that it was *)
(* set in, or WpMetadata for that of an image description.                 *)
(***************************************************************************)
EXTENDS Integers, FiniteSets

CONSTANTS
  Surfaces,
  TransferFunctions, Primaries,  \* of the image descriptions that clients create
  MaxPeriods      \* bound: periods that begin

ASSUME ColorAssumption ==
  /\ MaxPeriods \in Nat
  /\ TransferFunctions \subseteq {"gamma22", "pq"} /\ Primaries \subseteq {"srgb", "bt2020"}

None == "none"
NoMetadata == 0
WpMetadata == -1
NoColorspace == [tf |-> None, primaries |-> None]
\* "by" is history: the period in which the colour space was declared.
NoColor == [colorspace |-> NoColorspace, metadata |-> NoMetadata, by |-> 0]
NoDescription == [tf |-> None, primaries |-> None, metadata |-> NoMetadata]
Unset == [tf |-> "unset", primaries |-> None, metadata |-> NoMetadata]
Pq == [tf |-> "pq", primaries |-> "bt2020"]
Scrgb == [tf |-> "scrgb", primaries |-> "srgb"]

VARIABLES
  existing,   \* surfaces that exist
  pending, current,
  gamescope,  \* gamescope_current
  override,   \* override_surface
  period,     \* history: the period of a surface, 0 for one without a swapchain
  periods     \* history: periods so far

colorVars == <<existing, pending, current, gamescope, override, period, periods>>

ColorInit ==
  /\ existing = {} /\ override = None
  /\ pending = [s \in Surfaces |-> NoDescription] /\ current = [s \in Surfaces |-> NoDescription]
  /\ gamescope = [s \in Surfaces |-> NoColor]
  /\ period = [s \in Surfaces |-> 0] /\ periods = 0

\* An image description from colours and metadata.
Description(color, metadata) == [tf |-> color.tf, primaries |-> color.primaries, metadata |-> metadata]

\* The image descriptions that a creator can make: parameters left out, unknown
\* transfer functions and unknown primaries are taken for the defaults.
Create ==
  {Description([tf |-> tf, primaries |-> p], m) : tf \in TransferFunctions, p \in Primaries, m \in {NoMetadata, WpMetadata}}

CreateWindowsScrgb == Description(Scrgb, NoMetadata)

to_frame_color_space(desc) ==
  IF desc.primaries = "bt2020" /\ desc.tf = "pq" THEN "Bt2020Pq"
  ELSE IF desc.primaries = "srgb" /\ desc.tf = "scrgb" THEN "ScrgbLinear"
  ELSE "Srgb"

\* SwapchainColor::to_image_description(), for the surfaces that have one.
swapchain_descriptions ==
  {Description(gamescope[s].colorspace, gamescope[s].metadata) : s \in {t \in Surfaces : gamescope[t].colorspace # NoColorspace}}

committed_descriptions == {current[s] : s \in {t \in Surfaces : current[t] # NoDescription}}

color_spaces == {to_frame_color_space(d) : d \in swapchain_descriptions \cup committed_descriptions}

frame_color_space ==
  IF "Bt2020Pq" \in color_spaces THEN "Bt2020Pq"
  ELSE IF "ScrgbLinear" \in color_spaces THEN "ScrgbLinear"
  ELSE "Srgb"

\* hdr_metadata(): the metadata that may be found first, of the swapchains
\* before the others; the maps have no order.
hdr_metadata ==
  LET of(descs) == {d.metadata : d \in {e \in descs : to_frame_color_space(e) # "Srgb"}} \ {NoMetadata}
  IN IF of(swapchain_descriptions) # {} THEN of(swapchain_descriptions) ELSE of(committed_descriptions)

-----------------------------------------------------------------------------
(* Surfaces.                                                               *)

NewSurface(s) ==
  /\ s \notin existing
  /\ existing' = existing \cup {s}
  /\ UNCHANGED <<pending, current, gamescope, override, period, periods>>

\* set_pending(), and unset_pending() with Unset.
set_pending(s, d) == pending' = [pending EXCEPT ![s] = d]

SetImageDescription(s) ==
  /\ s \in existing
  /\ \E d \in Create \cup {CreateWindowsScrgb, Unset} : set_pending(s, d)
  /\ UNCHANGED <<existing, current, gamescope, override, period, periods>>

CommitColor(s) ==
  /\ s \in existing /\ pending[s] # NoDescription
  /\ current' = [current EXCEPT ![s] = IF pending[s] = Unset THEN NoDescription ELSE pending[s]]
  /\ pending' = [pending EXCEPT ![s] = NoDescription]
  /\ UNCHANGED <<existing, gamescope, override, period, periods>>

clear_gamescope_current(s) == [gamescope EXCEPT ![s] = NoColor]

NewPeriod(s) ==
  /\ periods < MaxPeriods
  /\ periods' = periods + 1 /\ period' = [period EXCEPT ![s] = periods + 1]

CreateSwapchain(s) ==
  /\ s \in existing
  /\ NewPeriod(s)
  /\ gamescope' = clear_gamescope_current(s)
  /\ UNCHANGED <<existing, pending, current, override>>

set_gamescope_colorspace(s, color) == [gamescope EXCEPT ![s].colorspace = color, ![s].by = period[s]]

\* handle_swapchain_feedback(): other colour spaces change nothing.
SwapchainFeedback(s) ==
  /\ s \in existing /\ period[s] # 0
  /\ \/ \E color \in {Pq, Scrgb} : gamescope' = set_gamescope_colorspace(s, color)
     \/ gamescope' = clear_gamescope_current(s)
  /\ UNCHANGED <<existing, pending, current, override, period, periods>>

\* Plausible values are kept, with or without a colour space.
set_gamescope_hdr_metadata(s, m) == [gamescope EXCEPT ![s].metadata = m]

SetHdrMetadata(s) ==
  /\ s \in existing /\ period[s] # 0
  /\ gamescope' = set_gamescope_hdr_metadata(s, period[s])
  /\ UNCHANGED <<existing, pending, current, override, period, periods>>

\* Mutant: the colours of the surface that was shown stay.
OverrideWindowSurfaceOver(s) ==
  /\ s \in existing /\ period[s] # 0
  /\ override' = s
  /\ IF override \in Surfaces \ {s} THEN NewPeriod(override) ELSE UNCHANGED <<period, periods>>
  /\ UNCHANGED <<existing, pending, current, gamescope>>

\* override_window_surface(): s is shown in place of the window, and of another
\* surface that was shown until now.
OverrideWindowSurface(s) ==
  /\ s \in existing /\ period[s] # 0
  /\ override' = s
  /\ \/ override \in Surfaces \ {s} /\ NewPeriod(override) /\ gamescope' = clear_gamescope_current(override)
     \/ override \notin Surfaces \ {s} /\ UNCHANGED <<gamescope, period, periods>>
  /\ UNCHANGED <<existing, pending, current>>

SurfaceDestroyed(s) ==
  /\ s \in existing
  /\ existing' = existing \ {s}
  /\ pending' = [pending EXCEPT ![s] = NoDescription] /\ current' = [current EXCEPT ![s] = NoDescription]
  /\ gamescope' = clear_gamescope_current(s)
  /\ period' = [period EXCEPT ![s] = 0]
  /\ override' = IF override = s THEN None ELSE override
  /\ UNCHANGED periods

ColorNext ==
  \E s \in Surfaces :
    \/ NewSurface(s) \/ SetImageDescription(s) \/ CommitColor(s)
    \/ CreateSwapchain(s) \/ SwapchainFeedback(s) \/ SetHdrMetadata(s)
    \/ OverrideWindowSurface(s) \/ SurfaceDestroyed(s)

ColorSpec == ColorInit /\ [][ColorNext]_colorVars

-----------------------------------------------------------------------------

\* The surfaces whose colour space was declared in the period that lasts.
Declared == {s \in existing : gamescope[s].by = period[s]}

\* What a frame says of its colours comes from a swapchain in use, or from a committed
\* image description: the HDR metadata that goes with it to the client was set in the
\* period of a surface that lasts, and so was its colour space declared, unless it is
\* sRGB.  What was declared on a swapchain that the game has replaced, or on a surface
\* that another took the screen from, is gone for good, whatever is declared there
\* afterwards (clear_gamescope_current in create_swapchain and
\* override_window_surface, set_gamescope_colorspace).
MetadataCurrent ==
  /\ hdr_metadata \subseteq {period[s] : s \in Declared} \cup {WpMetadata}
  /\ frame_color_space # "Srgb" =>
       \/ \E s \in Declared : to_frame_color_space(gamescope[s].colorspace) = frame_color_space
       \/ \E s \in existing : to_frame_color_space(current[s]) = frame_color_space
=============================================================================
