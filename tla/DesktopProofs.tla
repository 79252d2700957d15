--------------------------- MODULE DesktopProofs ---------------------------
(***************************************************************************)
(* The parts of the desktop, for any values of their constants: what a     *)
(* frame says of its colours was declared on a swapchain in use, the timer *)
(* task of the gamepads sleeps through no deadline, a pen that is away     *)
(* holds nothing down, nor does the seat keep a grab of menus that are     *)
(* destroyed, and a hit of the cache of app ids is what the process itself *)
(* named a short while ago, unless its number changed hands meanwhile.     *)
(***************************************************************************)
EXTENDS ColorManagement, Gamepads, Seat, AppId, WindowProofs

-----------------------------------------------------------------------------
(* Colour management.                                                      *)

\* What a surface may have declared: a colour space or none, and metadata or none, both
\* of the period that lasts.  A surface that is gone has declared nothing.
Descriptions == [tf : {None, "unset", "gamma22", "pq", "scrgb"}, primaries : {None, "srgb", "bt2020"},
                 metadata : {NoMetadata, WpMetadata}]
SwapchainColors == [colorspace : {NoColorspace, Pq, Scrgb}, metadata : Int, by : Nat]

\* Colours that were declared in a period.
OfPeriod(color, n) == color.metadata \in {NoMetadata, n} /\ (color.colorspace # NoColorspace => color.by = n)

ColorTypes ==
  /\ existing \subseteq Surfaces
  /\ pending \in [Surfaces -> Descriptions] /\ current \in [Surfaces -> Descriptions]
  /\ gamescope \in [Surfaces -> SwapchainColors]
  /\ period \in [Surfaces -> Nat] /\ periods \in Nat

OwnColors ==
  \A s \in Surfaces :
    /\ OfPeriod(gamescope[s], period[s])
    /\ s \notin existing => gamescope[s] = NoColor /\ current[s] = NoDescription

ColorInv == ColorTypes /\ OwnColors

\* A client can only ask for descriptions of these kinds.
LEMMA CreatedDescriptions == Create \cup {CreateWindowsScrgb, Unset} \subseteq Descriptions
BY ColorAssumption DEF ColorAssumption, Create, CreateWindowsScrgb, Unset, Description, Descriptions,
   Scrgb, None, NoMetadata, WpMetadata

LEMMA NothingDeclared ==
  /\ NoDescription \in Descriptions /\ NoColor \in SwapchainColors
  /\ \A n : OfPeriod(NoColor, n)
BY DEF NoDescription, Descriptions, NoColor, SwapchainColors, NoColorspace, None, NoMetadata, WpMetadata, OfPeriod

LEMMA ColorInitially == ColorInit => ColorInv
<1> SUFFICES ASSUME ColorInit PROVE ColorInv
  OBVIOUS
<1> HIDE DEF NoColor, NoDescription
<1> QED
  BY NothingDeclared DEF ColorInit, ColorInv, ColorTypes, OwnColors

\* The colours of one surface change, to something of its own.
LEMMA OneSurface ==
  ASSUME ColorInv, NEW s \in Surfaces, NEW color \in SwapchainColors,
         OfPeriod(color, period'[s]),
         gamescope' = [gamescope EXCEPT ![s] = color],
         existing' \subseteq Surfaces, period' \in [Surfaces -> Nat], periods' \in Nat,
         pending' \in [Surfaces -> Descriptions], current' \in [Surfaces -> Descriptions],
         \A t \in Surfaces \ {s} : period'[t] = period[t] /\ current'[t] = current[t] /\ (t \in existing <=> t \in existing'),
         s \notin existing' => color = NoColor /\ current'[s] = NoDescription
  PROVE  ColorInv'
<1>1. ColorTypes'
  BY DEF ColorInv, ColorTypes
<1>2. ASSUME NEW t \in Surfaces
      PROVE  OfPeriod(gamescope'[t], period'[t]) /\ (t \notin existing' => gamescope'[t] = NoColor /\ current'[t] = NoDescription)
  BY DEF ColorInv, ColorTypes, OwnColors
<1> QED
  BY <1>1, <1>2 DEF ColorInv, OwnColors

\* The surface on which a period begins loses its colours.
LEMMA PeriodBegins ==
  ASSUME ColorInv, NEW s \in Surfaces, s \in existing, NewPeriod(s), gamescope' = clear_gamescope_current(s),
         UNCHANGED <<existing, pending, current>>
  PROVE  ColorInv'
<1>1. /\ gamescope' = [gamescope EXCEPT ![s] = NoColor]
      /\ period' \in [Surfaces -> Nat] /\ periods' \in Nat
      /\ \A t \in Surfaces \ {s} : period'[t] = period[t]
  BY DEF NewPeriod, clear_gamescope_current, ColorInv, ColorTypes
<1> QED
  BY <1>1, NothingDeclared, OneSurface DEF ColorInv, ColorTypes

\* One step per action: what an action declares is of the period it is made in, and a
\* new swapchain, another surface or the end of the surface takes it back.
LEMMA ColorStep == ColorInv /\ [ColorNext]_colorVars => ColorInv'
<1> SUFFICES ASSUME ColorInv, [ColorNext]_colorVars PROVE ColorInv'
  OBVIOUS
<1>0. NoDescription \in Descriptions /\ NoColor \in SwapchainColors /\ \A n : OfPeriod(NoColor, n)
  BY NothingDeclared
<1> HIDE DEF NoColor, NoDescription
<1>1. CASE UNCHANGED colorVars
  BY <1>1 DEF ColorInv, ColorTypes, OwnColors, colorVars
<1>2. CASE ColorNext
  <2> PICK s \in Surfaces :
        \/ NewSurface(s) \/ SetImageDescription(s) \/ CommitColor(s)
        \/ CreateSwapchain(s) \/ SwapchainFeedback(s) \/ SetHdrMetadata(s)
        \/ OverrideWindowSurface(s) \/ SurfaceDestroyed(s)
    BY <1>2 DEF ColorNext
  <2>1. CASE NewSurface(s)
    BY <2>1 DEF NewSurface, ColorInv, ColorTypes, OwnColors
  <2>2. CASE SetImageDescription(s)
    <3> PICK d \in Create \cup {CreateWindowsScrgb, Unset} : pending' = [pending EXCEPT ![s] = d]
      BY <2>2 DEF SetImageDescription, set_pending
    <3>1. d \in Descriptions
      BY CreatedDescriptions
    <3> QED
      BY <2>2, <3>1 DEF SetImageDescription, ColorInv, ColorTypes, OwnColors
  <2>3. CASE CommitColor(s)
    BY <2>3, <1>0 DEF CommitColor, ColorInv, ColorTypes, OwnColors
  <2>4. CASE CreateSwapchain(s)
    BY <2>4, PeriodBegins DEF CreateSwapchain
  <2>5. CASE SwapchainFeedback(s)
    <3>1. CASE gamescope' = clear_gamescope_current(s)
      BY <2>5, <3>1, <1>0, OneSurface DEF SwapchainFeedback, clear_gamescope_current, ColorInv, ColorTypes
    <3>2. CASE \E color \in {Pq, Scrgb} : gamescope' = set_gamescope_colorspace(s, color)
      <4> PICK color \in {Pq, Scrgb} : gamescope' = [gamescope EXCEPT ![s].colorspace = color, ![s].by = period[s]]
        BY <3>2 DEF set_gamescope_colorspace
      <4> DEFINE new == [gamescope[s] EXCEPT !.colorspace = color, !.by = period[s]]
      <4>1. new \in SwapchainColors /\ new.metadata = gamescope[s].metadata /\ new.by = period[s]
        BY DEF ColorInv, ColorTypes, SwapchainColors
      <4>2. gamescope' = [gamescope EXCEPT ![s] = new]
        BY DEF ColorInv, ColorTypes
      <4>3. OfPeriod(new, period'[s])
        BY <4>1, <2>5 DEF SwapchainFeedback, ColorInv, OwnColors, OfPeriod
      <4> HIDE DEF new
      <4> QED
        BY <2>5, <4>1, <4>2, <4>3, OneSurface DEF SwapchainFeedback, ColorInv, ColorTypes
    <3> QED
      BY <2>5, <3>1, <3>2 DEF SwapchainFeedback
  <2>6. CASE SetHdrMetadata(s)
    <3> DEFINE new == [gamescope[s] EXCEPT !.metadata = period[s]]
    <3>1. new \in SwapchainColors /\ new.metadata = period[s] /\ new.by = gamescope[s].by /\ new.colorspace = gamescope[s].colorspace
      BY DEF ColorInv, ColorTypes, SwapchainColors
    <3>2. gamescope' = [gamescope EXCEPT ![s] = new]
      BY <2>6 DEF SetHdrMetadata, set_gamescope_hdr_metadata, ColorInv, ColorTypes
    <3> HIDE DEF new
    <3>3. OfPeriod(new, period'[s])
      BY <2>6, <3>1 DEF SetHdrMetadata, ColorInv, OwnColors, OfPeriod
    <3> QED
      BY <2>6, <3>1, <3>2, <3>3, OneSurface DEF SetHdrMetadata, ColorInv, ColorTypes
  <2>7. CASE OverrideWindowSurface(s)
    <3>1. CASE override \in Surfaces \ {s} /\ NewPeriod(override) /\ gamescope' = clear_gamescope_current(override)
      <4>1. CASE override \in existing
        BY <2>7, <3>1, <4>1, PeriodBegins DEF OverrideWindowSurface
      <4>2. CASE override \notin existing
        <5>1. /\ gamescope' = [gamescope EXCEPT ![override] = NoColor]
              /\ period' \in [Surfaces -> Nat] /\ periods' \in Nat
              /\ \A t \in Surfaces \ {override} : period'[t] = period[t]
          BY <3>1 DEF NewPeriod, clear_gamescope_current, ColorInv, ColorTypes
        <5>2. current[override] = NoDescription
          BY <3>1, <4>2 DEF ColorInv, OwnColors
        <5> QED
          BY <2>7, <3>1, <5>1, <5>2, <1>0, OneSurface DEF OverrideWindowSurface, ColorInv, ColorTypes
      <4> QED
        BY <4>1, <4>2
    <3>2. CASE UNCHANGED <<gamescope, period, periods>>
      BY <2>7, <3>2 DEF OverrideWindowSurface, ColorInv, ColorTypes, OwnColors
    <3> QED
      BY <2>7, <3>1, <3>2 DEF OverrideWindowSurface
  <2>8. CASE SurfaceDestroyed(s)
    <3>1. /\ pending' \in [Surfaces -> Descriptions] /\ current' \in [Surfaces -> Descriptions]
          /\ period' \in [Surfaces -> Nat]
      BY <2>8, <1>0 DEF SurfaceDestroyed, ColorInv, ColorTypes
    <3>2. current'[s] = NoDescription
      BY <2>8 DEF SurfaceDestroyed, ColorInv, ColorTypes
    <3> QED
      BY <2>8, <3>1, <3>2, <1>0, OneSurface DEF SurfaceDestroyed, clear_gamescope_current, ColorInv, ColorTypes
  <2> QED
    BY <2>1, <2>2, <2>3, <2>4, <2>5, <2>6, <2>7, <2>8
<1> QED
  BY <1>1, <1>2

\* A surface that gives a frame its colours exists, and declared them in its period.
LEMMA DeclaredColors ==
  ASSUME ColorInv, NEW s \in Surfaces, gamescope[s].colorspace # NoColorspace PROVE s \in Declared
<1>1. s \in existing
  BY DEF ColorInv, OwnColors, NoColor
<1> QED
  BY <1>1 DEF ColorInv, OwnColors, OfPeriod, Declared

LEMMA MetadataOwned ==
  ASSUME ColorInv PROVE hdr_metadata \subseteq {period[s] : s \in Declared} \cup {WpMetadata}
<1> SUFFICES ASSUME NEW m \in hdr_metadata PROVE m \in {period[s] : s \in Declared} \cup {WpMetadata}
  OBVIOUS
<1>1. m # NoMetadata /\ \E d \in swapchain_descriptions \cup committed_descriptions : d.metadata = m
  BY DEF hdr_metadata
<1>2. CASE \E d \in swapchain_descriptions : d.metadata = m
  <2> PICK s \in Surfaces : gamescope[s].metadata = m /\ gamescope[s].colorspace # NoColorspace
    BY <1>2 DEF swapchain_descriptions, Description
  <2>1. s \in Declared /\ m = period[s]
    BY <1>1, DeclaredColors DEF ColorInv, OwnColors, OfPeriod
  <2> QED
    BY <2>1
<1>3. CASE \E d \in committed_descriptions : d.metadata = m
  <2> PICK s \in Surfaces : current[s].metadata = m
    BY <1>3 DEF committed_descriptions
  <2>1. current[s].metadata \in {NoMetadata, WpMetadata}
    BY DEF ColorInv, ColorTypes, Descriptions
  <2> QED
    BY <1>1, <2>1
<1> QED
  BY <1>1, <1>2, <1>3

LEMMA SpaceOwned ==
  ASSUME ColorInv, frame_color_space # "Srgb"
  PROVE  \/ \E s \in Declared : to_frame_color_space(gamescope[s].colorspace) = frame_color_space
         \/ \E s \in existing : to_frame_color_space(current[s]) = frame_color_space
<1> DEFINE space == frame_color_space
<1>1. space \in color_spaces
  BY DEF frame_color_space
<1>2. PICK d \in swapchain_descriptions \cup committed_descriptions : to_frame_color_space(d) = space
  BY <1>1 DEF color_spaces
<1> HIDE DEF space
<1>3. CASE d \in swapchain_descriptions
  <2> PICK s \in Surfaces : gamescope[s].colorspace # NoColorspace /\ d = Description(gamescope[s].colorspace, gamescope[s].metadata)
    BY <1>3 DEF swapchain_descriptions
  <2>1. to_frame_color_space(gamescope[s].colorspace) = space
    BY <1>2 DEF to_frame_color_space, Description
  <2> QED
    BY <2>1, DeclaredColors DEF space
<1>4. CASE d \in committed_descriptions
  <2> PICK s \in Surfaces : current[s] # NoDescription /\ d = current[s]
    BY <1>4 DEF committed_descriptions
  <2>1. s \in existing
    BY DEF ColorInv, OwnColors
  <2> QED
    BY <1>2, <2>1 DEF space
<1> QED
  BY <1>2, <1>3, <1>4

\* In every behaviour of the colour management, the HDR metadata and the colour space
\* of a frame were declared in the period that lasts of some surface, or by a committed
\* image description: nothing of a swapchain that was replaced, or of a surface that
\* another took the screen from, comes back (clear_gamescope_current, hdr_metadata,
\* frame_color_space).
THEOREM MetadataStaysCurrent == ColorSpec => []MetadataCurrent
<1>1. ColorInv => MetadataCurrent
  BY MetadataOwned, SpaceOwned DEF MetadataCurrent
<1> QED
  BY <1>1, ColorInitially, ColorStep, PTL DEF ColorSpec

-----------------------------------------------------------------------------
(* The gamepads.                                                           *)

PadTypes ==
  /\ config \in Configs
  /\ slot \in [Pads -> SlotStates \cup {NoSlot}]
  /\ timer \in {"scan", "wait", "ended"} /\ armed \in Ticks
  /\ woken \in BOOLEAN

\* The sleep that the timer task is in covers a slot.
Covers(a, s) ==
  /\ s.left # Never => a # Never /\ a <= s.left
  /\ s.off # Never => a # Never /\ a <= s.off

\* DeadlinesMet, slot by slot.
Covered == timer = "wait" /\ ~woken => \A p \in Pads : Connected(p) => Covers(armed, slot[p])

PadInv == PadTypes /\ Covered

-----------------------------------------------------------------------------
(* Slots and their deadlines.                                              *)

\* next_deadline() finds the first of the deadlines.
LEMMA NextDeadline ==
  ASSUME NEW ss, ss \subseteq SlotStates
  PROVE  next_deadline(ss) \in Ticks /\ \A s \in ss : Covers(next_deadline(ss), s)
<1>1. \A s \in ss : s.left \in Ticks /\ s.off \in Ticks
  BY DEF SlotStates
<1>2. Deadlines(ss) \subseteq Nat
  BY <1>1 DEF Deadlines, Ticks, Never
<1>3. \A s \in ss : /\ s.left # Never => s.left \in Deadlines(ss)
                    /\ s.off # Never => s.off \in Deadlines(ss)
  BY DEF Deadlines
<1>4. CASE Deadlines(ss) = {}
  BY <1>3, <1>4 DEF next_deadline, Covers, Ticks
<1>5. CASE Deadlines(ss) # {}
  <2>1. \E d \in Deadlines(ss) : \A e \in Deadlines(ss) : d <= e
    BY <1>2, <1>5, LeastNatural
  <2>2. /\ next_deadline(ss) \in Deadlines(ss)
        /\ \A e \in Deadlines(ss) : next_deadline(ss) <= e
    BY <1>5, <2>1 DEF next_deadline
  <2>3. next_deadline(ss) \in Nat
    BY <1>2, <2>2
  <2> QED
    BY <1>3, <2>2, <2>3 DEF Covers, Ticks, Never
<1> QED
  BY <1>4, <1>5

LEMMA SlotFields ==
  ASSUME NEW s \in SlotStates
  PROVE  /\ s # NoSlot
         /\ s.state \in States /\ s.left \in Ticks /\ s.source \in BOOLEAN /\ s.pass \subseteq Buttons
         /\ s.off \in Ticks /\ s.pressed \subseteq Buttons
         /\ \A t \in Ticks : [s EXCEPT !.off = t] \in SlotStates
         /\ \A b \in SUBSET Buttons : [s EXCEPT !.pressed = b] \in SlotStates
         /\ \A b \in BOOLEAN, fs \in SUBSET Buttons : [s EXCEPT !.source = b, !.pass = fs] \in SlotStates
<1>1. /\ s.state \in States /\ s.left \in Ticks /\ s.source \in BOOLEAN /\ s.pass \subseteq Buttons
      /\ s.off \in Ticks /\ s.pressed \subseteq Buttons
  BY DEF SlotStates
<1>2. s # NoSlot
  BY <1>1 DEF NoSlot, States
<1>3. \A t \in Ticks : [s EXCEPT !.off = t] \in SlotStates
  BY DEF SlotStates
<1>4. \A b \in SUBSET Buttons : [s EXCEPT !.pressed = b] \in SlotStates
  BY DEF SlotStates
<1>5. \A b \in BOOLEAN, fs \in SUBSET Buttons : [s EXCEPT !.source = b, !.pass = fs] \in SlotStates
  BY DEF SlotStates
<1> QED
  BY <1>1, <1>2, <1>3, <1>4, <1>5

LEMMA EmitsTypes ==
  ASSUME NEW s \in SlotStates, NEW st \in States, NEW left \in Ticks
  PROVE  Emits(s, st, left) \in SlotStates
<1> DEFINE b == s.pass \cup (CASE st = "home" -> {"home"} [] st = "tapping" -> {"back"} [] OTHER -> {})
<1>1. b \subseteq Buttons
  BY DEF SlotStates, Buttons
<1>2. Emits(s, st, left) = [s EXCEPT !.state = st, !.left = left, !.pressed = b]
  BY DEF Emits
<1> HIDE DEF b
<1> QED
  BY <1>1, <1>2 DEF SlotStates

LEMMA ApplyTypes ==
  ASSUME PadTypes, NEW s0 \in SlotStates, NEW fs \in SUBSET Buttons
  PROVE  apply(s0, fs) \in SlotStates
<1> DEFINE source == "back" \in fs
           s == [s0 EXCEPT !.source = source, !.pass = Passthrough(fs)]
<1>1. config.hold \in Nat /\ TapTicks \in Nat
  BY GamepadsAssumption DEF PadTypes, GamepadsAssumption, Settings
<1>2. Passthrough(fs) \in SUBSET Buttons
  BY DEF Passthrough
<1>3. s \in SlotStates
  <2>1. source \in BOOLEAN
    OBVIOUS
  <2> HIDE DEF source
  <2> QED
    BY <1>2, <2>1 DEF SlotStates
<1>4. s.left \in Ticks /\ s.state \in States
  BY <1>3, SlotFields
<1>5. /\ \A st \in States, left \in Ticks : Emits(s, st, left) \in SlotStates
      /\ [s0 EXCEPT !.pressed = fs] \in SlotStates
  BY <1>3, EmitsTypes, SlotFields
<1> HIDE DEF s
<1>6. apply(s0, fs) =
        IF config.hold = 0 THEN [s0 EXCEPT !.pressed = fs]
        ELSE CASE s.state = "inactive" /\ source  -> Emits(s, "pending", config.hold)
               [] s.state = "inactive" /\ ~source -> Emits(s, "inactive", Never)
               [] s.state = "pending" /\ ~source  -> Emits(s, "tapping", TapTicks)
               [] s.state = "pending" /\ source   ->
                    IF s.left = 0 THEN Emits(s, "home", Never) ELSE Emits(s, "pending", s.left)
               [] s.state = "home"                ->
                    Emits(s, IF source THEN "home" ELSE "inactive", Never)
               [] s.state = "tapping"             ->
                    IF s.left = 0 THEN Emits(s, "inactive", Never) ELSE Emits(s, "tapping", s.left)
  BY DEF apply, s
<1> QED
  BY <1>1, <1>4, <1>5, <1>6 DEF States, Ticks

LEMMA AdvanceTypes ==
  ASSUME PadTypes, NEW s \in SlotStates
  PROVE  advance(s) \in SlotStates
<1>1. config.hold \in Nat
  BY GamepadsAssumption DEF PadTypes, GamepadsAssumption, Settings
<1>2. s.left \in Ticks /\ Silent(s) \in SlotStates
  BY SlotFields DEF Silent
<1>3. \A st \in States, left \in Ticks : Emits(s, st, left) \in SlotStates
  BY EmitsTypes
<1> QED
  BY <1>1, <1>2, <1>3 DEF advance, States, Ticks

LEMMA RumbleTypes ==
  ASSUME PadTypes, NEW s \in SlotStates, NEW t \in SlotStates
  PROVE  check_rumble(s) \in SlotStates /\ maybe_fire_rumble(s, t) \in SlotStates
<1>1. config.pulse \in Ticks /\ Never \in Ticks
  BY GamepadsAssumption DEF PadTypes, GamepadsAssumption, Settings, Ticks
<1> QED
  BY <1>1, SlotFields DEF check_rumble, maybe_fire_rumble

LEMMA SlotSteps ==
  ASSUME PadTypes, NEW s \in SlotStates
  PROVE  /\ \A fs \in SUBSET Buttons : apply_buttons(s, fs) \in SlotStates
         /\ advance_slot(s) \in SlotStates
BY ApplyTypes, AdvanceTypes, RumbleTypes DEF apply_buttons, advance_slot

LEMMA NewSlotTypes == NewSlot \in SlotStates /\ \A a : Covers(a, NewSlot)
BY DEF NewSlot, SlotStates, States, Ticks, Covers

\* A slot of PadTypes is one of SlotStates exactly when a gamepad is there.
LEMMA ConnectedSlot ==
  ASSUME PadTypes, NEW p \in Pads
  PROVE  Connected(p) <=> slot[p] \in SlotStates
BY SlotFields DEF PadTypes, Connected

-----------------------------------------------------------------------------
LEMMA PadInitially == PadInit => PadInv
BY DEF PadInit, PadInv, PadTypes, Covered, Ticks, Connected

\* Time brings the sleep and the deadlines nearer alike.
LEMMA TimeCovers ==
  ASSUME NEW s \in SlotStates, NEW a \in Ticks
  PROVE  LET t == [s EXCEPT !.left = Passes(@), !.off = Passes(@)]
         IN t \in SlotStates /\ Passes(a) \in Ticks /\ (Covers(a, s) => Covers(Passes(a), t))
<1> DEFINE t == [s EXCEPT !.left = Passes(@), !.off = Passes(@)]
<1>1. s.left \in Ticks /\ s.off \in Ticks
  BY SlotFields
<1>2. \A d \in Ticks : Passes(d) \in Ticks /\ (Passes(d) # Never => d # Never)
  BY DEF Passes, Ticks, Never
<1>3. t \in SlotStates /\ t.left = Passes(s.left) /\ t.off = Passes(s.off)
  BY <1>1, <1>2 DEF SlotStates
<1>4. \A d \in Ticks : d # Never /\ a # Never /\ a <= d => Passes(a) # Never /\ Passes(a) <= Passes(d)
  BY DEF Passes, Ticks, Never
<1> HIDE DEF t
<1>5. Covers(a, s) => Covers(Passes(a), t)
  BY <1>1, <1>2, <1>3, <1>4 DEF Covers
<1> QED
  BY <1>2, <1>3, <1>5 DEF t

\* One step per action: an update leaves a permit, a scan finds the first deadline,
\* and everything else takes slots away or moves all deadlines alike.
LEMMA PadStep == PadInv /\ [PadNext]_padVars => PadInv'
<1> SUFFICES ASSUME PadInv, [PadNext]_padVars PROVE PadInv'
  OBVIOUS
<1> USE DEF PadInv
<1>0. \A p \in Pads : Connected(p) <=> slot[p] \in SlotStates
  BY ConnectedSlot
<1>c. PadTypes' => \A p \in Pads : Connected(p)' <=> slot'[p] \in SlotStates
  BY SlotFields DEF PadTypes, Connected
<1>1. CASE UNCHANGED padVars
  BY <1>1 DEF padVars, PadTypes, Covered, Connected
<1>2. CASE TimerScans
  <2>1. Live \subseteq SlotStates
    BY <1>0 DEF Live
  <2>2. armed' \in Ticks /\ \A s \in Live : Covers(armed', s)
    BY <1>2, <2>1, NextDeadline DEF TimerScans
  <2>3. \A p \in Pads : Connected(p) => slot[p] \in Live
    BY DEF Live
  <2> QED
    BY <1>2, <2>2, <2>3 DEF TimerScans, PadTypes, Covered, Connected
<1>3. CASE TimerWakes
  <2>1. \A p \in Pads : slot'[p] \in SlotStates \cup {NoSlot}
    BY <1>3, <1>0, SlotSteps DEF TimerWakes, PadTypes
  <2> QED
    BY <1>3, <2>1 DEF TimerWakes, PadTypes, Covered
<1>4. CASE TimePasses
  <2>1. /\ slot' \in [Pads -> SlotStates \cup {NoSlot}] /\ armed' \in Ticks
        /\ \A p \in Pads : slot'[p] \in SlotStates =>
             slot[p] \in SlotStates /\ (Covers(armed, slot[p]) => Covers(armed', slot'[p]))
    <3>1. \A p \in Pads : ~Connected(p) => slot'[p] = NoSlot
      BY <1>4 DEF TimePasses
    <3>2. \A p \in Pads : Connected(p) =>
            /\ slot'[p] \in SlotStates
            /\ Covers(armed, slot[p]) => Covers(armed', slot'[p])
      <4> SUFFICES ASSUME NEW p \in Pads, Connected(p)
                   PROVE  /\ slot'[p] \in SlotStates
                          /\ Covers(armed, slot[p]) => Covers(armed', slot'[p])
        OBVIOUS
      <4>1. slot[p] \in SlotStates /\ armed \in Ticks
        BY <1>0 DEF PadTypes
      <4>2. /\ slot'[p] = [slot[p] EXCEPT !.left = Passes(@), !.off = Passes(@)]
            /\ armed' = Passes(armed)
        BY <1>4 DEF TimePasses
      <4> QED
        BY <4>1, <4>2, TimeCovers
    <3>3. NoSlot \notin SlotStates
      BY SlotFields
    <3>4. armed' \in Ticks
      <4>1. armed \in Ticks /\ armed' = Passes(armed)
        BY <1>4 DEF TimePasses, PadTypes
      <4> QED
        BY <4>1 DEF Passes, Ticks, Never
    <3>5. \A p \in Pads : slot'[p] \in SlotStates \cup {NoSlot}
      BY <3>1, <3>2
    <3>6. DOMAIN slot' = Pads /\ slot' = [p \in Pads |-> slot'[p]]
      BY <1>4 DEF TimePasses
    <3>7. slot' \in [Pads -> SlotStates \cup {NoSlot}]
      BY <3>5, <3>6
    <3> QED
      BY <3>1, <3>2, <3>3, <3>4, <3>7, <1>0
  <2>2. PadTypes'
    BY <1>4, <2>1 DEF TimePasses, PadTypes
  <2> QED
    BY <1>4, <2>1, <2>2, <1>0, <1>c DEF TimePasses, Covered
<1>5. CASE GamepadHandlerStops
  BY <1>5 DEF GamepadHandlerStops, PadTypes, Covered, Ticks
<1>6. ASSUME NEW p \in Pads, GamepadInfo(p) PROVE PadInv'
  <2>1. PadTypes'
    BY <1>6, NewSlotTypes DEF GamepadInfo, PadTypes
  <2>2. Covered'
    BY <1>6, NewSlotTypes DEF GamepadInfo, PadTypes, Covered, Connected
  <2> QED
    BY <2>1, <2>2
<1>7. ASSUME NEW p \in Pads, NEW fs \in SUBSET Buttons, NEW mask \in SUBSET Pads, GamepadUpdate(p, fs, mask)
      PROVE  PadInv'
  <2> PICK base \in {slot[p]} \cup (IF ~Connected(p) /\ p \in mask THEN {NewSlot} ELSE {}) :
        LET updated == IF base = NoSlot THEN NoSlot ELSE apply_buttons(base, fs)
            kept(q) == IF q = p THEN updated ELSE slot[q]
        IN /\ slot' = [q \in Pads |-> IF q \in mask THEN kept(q) ELSE NoSlot]
           /\ woken' = (woken \/ base # NoSlot)
    BY <1>7 DEF GamepadUpdate
  <2> DEFINE updated == IF base = NoSlot THEN NoSlot ELSE apply_buttons(base, fs)
  <2>1. base \in SlotStates \cup {NoSlot}
    BY NewSlotTypes DEF PadTypes
  <2>2. updated \in SlotStates \cup {NoSlot}
    BY <2>1, SlotSteps
  <2>3. \A q \in Pads : slot'[q] = IF q \in mask THEN IF q = p THEN updated ELSE slot[q] ELSE NoSlot
    OBVIOUS
  <2>4. slot' \in [Pads -> SlotStates \cup {NoSlot}]
    BY <2>2, <2>3 DEF PadTypes
  <2>5. woken' \in BOOLEAN
    BY DEF PadTypes
  <2>6. PadTypes'
    BY <1>7, <2>4, <2>5 DEF GamepadUpdate, PadTypes
  <2>7. ~woken' => ~woken /\ base = NoSlot
    BY DEF PadTypes
  <2>8. ~woken' => \A q \in Pads : slot'[q] \in {slot[q], NoSlot}
    BY <2>3, <2>7
  <2>9. Covered'
    BY <1>7, <2>7, <2>8 DEF GamepadUpdate, Covered, Connected
  <2> QED
    BY <2>6, <2>9
<1> QED
  BY <1>1, <1>2, <1>3, <1>4, <1>5, <1>6, <1>7 DEF PadNext

\* In every behaviour of the gamepad handler and its timer task, a task that waits
\* wakes no later than the first deadline of any slot, or holds the permit of the
\* update that changed one (next_deadline, timer_wake).
THEOREM DeadlinesAlwaysMet == PadSpec => []DeadlinesMet
<1>1. PadInv => DeadlinesMet
  <2> SUFFICES ASSUME PadInv, timer = "wait", ~woken, NEW d \in Deadlines(Live)
               PROVE  armed # Never /\ armed <= d
    BY DEF DeadlinesMet
  <2> PICK s \in Live : d \in {s.left, s.off} /\ d # Never
    BY DEF Deadlines
  <2> PICK p \in Pads : Connected(p) /\ s = slot[p]
    BY DEF Live
  <2> QED
    BY DEF PadInv, Covered, Covers
<1> QED
  BY <1>1, PadInitially, PadStep, PTL DEF PadSpec

-----------------------------------------------------------------------------
(* The pen.                                                                *)

ToolState == [focus : Canvases \cup {Nowhere}, tip : BOOLEAN,
              held : [Canvases -> SUBSET StylusButtons], left : SUBSET Canvases]

\* A tool told the surface below it of no button outside of a mask, and the others of none.
Holds(t, mask) ==
  /\ t \in ToolState
  /\ t.focus = Nowhere => ~t.tip
  /\ \A s \in Canvases \ t.left : t.held[s] \subseteq IF s = t.focus THEN mask ELSE {}

PenInv ==
  /\ active \in Tools \cup {NoTool} /\ (active = NoTool => buttons = {})
  /\ buttons \in SUBSET StylusButtons
  /\ DOMAIN tool = Tools /\ tool = [k \in Tools |-> tool[k]]
  /\ \A k \in Tools : IF k = active THEN Holds(tool[k], buttons) ELSE Holds(tool[k], {}) /\ tool[k].focus = Nowhere

\* A tool that holds the buttons that are remembered holds the new ones afterwards.
LEMMA Synced ==
  ASSUME PenAssumption, NEW old \in SUBSET StylusButtons, NEW mask \in SUBSET StylusButtons, NEW t, Holds(t, old)
  PROVE  Holds(sync_pen_buttons(t, old, mask), mask) /\ sync_pen_buttons(t, old, mask).focus = t.focus
<1> DEFINE synced == sync_pen_buttons(t, old, mask)
<1>1. CASE t.focus = Nowhere
  <2>1. synced = t
    BY <1>1 DEF sync_pen_buttons
  <2>2. \A s \in Canvases : s # t.focus
    BY <1>1 DEF PenAssumption
  <2> QED
    BY <1>1, <2>1, <2>2 DEF Holds
<1>2. CASE t.focus # Nowhere
  <2>1. t.focus \in Canvases /\ t \in ToolState
    BY <1>2 DEF Holds, ToolState
  <2> DEFINE now == (t.held[t.focus] \ (old \ mask)) \cup (mask \ old)
  <2>2. now \in SUBSET StylusButtons
    BY <2>1 DEF ToolState
  <2>3. t.focus \notin t.left => now \subseteq mask
    <3>1. t.focus \notin t.left => t.held[t.focus] \subseteq old
      BY <2>1 DEF Holds
    <3> QED
      BY <3>1
  <2>4. synced = [t EXCEPT !.held = [t.held EXCEPT ![t.focus] = now]]
    BY <1>2 DEF sync_pen_buttons
  <2> HIDE DEF now
  <2>5. /\ synced \in ToolState /\ synced.focus = t.focus /\ synced.tip = t.tip /\ synced.left = t.left
        /\ synced.held = [t.held EXCEPT ![t.focus] = now]
    BY <2>1, <2>2, <2>4 DEF ToolState
  <2> HIDE DEF synced
  <2>6. \A s \in Canvases : synced.held[s] = IF s = t.focus THEN now ELSE t.held[s]
    BY <2>1, <2>5 DEF ToolState
  <2>7. \A s \in Canvases \ synced.left : synced.held[s] \subseteq IF s = synced.focus THEN mask ELSE {}
    BY <2>3, <2>5, <2>6 DEF Holds
  <2> QED
    BY <1>2, <2>5, <2>7 DEF Holds, synced
<1> QED
  BY <1>1, <1>2

\* Moved to another surface it holds them there, except on the one it left.
LEMMA RefocusedHolds ==
  ASSUME PenAssumption, NEW mask \in SUBSET StylusButtons, NEW t, Holds(t, mask), NEW f \in Canvases \cup {Nowhere}
  PROVE  Holds(Refocused(t, f, mask), mask) /\ Refocused(t, f, mask).focus = f
<1> DEFINE moved == Refocused(t, f, mask)
<1>1. CASE f = t.focus
  BY <1>1 DEF Refocused
<1>2. CASE f # t.focus
  <2> DEFINE gone == IF mask = {} THEN t.left ELSE t.left \cup ({t.focus} \ {Nowhere})
  <2>1. t \in ToolState
    BY DEF Holds
  <2>2. gone \in SUBSET Canvases
    BY <2>1 DEF ToolState
  <2>3. moved = [t EXCEPT !.focus = f, !.tip = FALSE, !.left = gone]
    BY <1>2 DEF Refocused
  <2>4. moved \in ToolState /\ moved.focus = f /\ moved.tip = FALSE /\ moved.held = t.held /\ moved.left = gone
    <3> HIDE DEF gone
    <3> QED
      BY <2>1, <2>2, <2>3 DEF ToolState
  <2>5. \A s \in Canvases \ gone : t.held[s] = {}
    <3> SUFFICES ASSUME NEW s \in Canvases \ gone PROVE t.held[s] = {}
      OBVIOUS
    <3>1. s \notin t.left /\ s # Nowhere /\ t.held[s] \subseteq IF s = t.focus THEN mask ELSE {}
      BY PenAssumption DEF Holds, PenAssumption
    <3>2. s = t.focus => mask = {}
      BY <3>1
    <3> QED
      BY <3>1, <3>2
  <2> HIDE DEF moved, gone
  <2> QED
    BY <2>4, <2>5 DEF Holds, moved
<1> QED
  BY <1>1, <1>2

LEMMA TippedHolds ==
  ASSUME NEW mask, NEW t, Holds(t, mask), NEW down \in BOOLEAN
  PROVE  Holds(Tipped(t, down), mask) /\ Tipped(t, down).focus = t.focus
<1> DEFINE tip == down /\ t.focus # Nowhere
           tipped == [t EXCEPT !.tip = tip]
<1>1. t \in ToolState /\ tip \in BOOLEAN /\ Tipped(t, down) = tipped
  BY DEF Holds, Tipped
<1>2. t.focus = Nowhere => tip = FALSE
  OBVIOUS
<1> HIDE DEF tip
<1>3. tipped \in ToolState /\ tipped.focus = t.focus /\ tipped.tip = tip /\ tipped.held = t.held /\ tipped.left = t.left
  BY <1>1 DEF ToolState
<1> HIDE DEF tipped
<1> QED
  BY <1>1, <1>2, <1>3 DEF Holds

\* After release_pen every tool is away and holds nothing.
LEMMA AllReleased ==
  ASSUME PenAssumption, PenInv
  PROVE  /\ DOMAIN Released(tool) = Tools /\ Released(tool) = [k \in Tools |-> Released(tool)[k]]
         /\ \A k \in Tools : Holds(Released(tool)[k], {}) /\ Released(tool)[k].focus = Nowhere
<1>1. CASE active = NoTool
  BY <1>1 DEF Released, PenInv, PenAssumption
<1>2. CASE active # NoTool
  <2> DEFINE lifted == Tipped(tool[active], FALSE)
             synced == sync_pen_buttons(lifted, buttons, {})
             gone == Refocused(synced, Nowhere, {})
  <2>1. active \in Tools /\ Holds(tool[active], buttons) /\ buttons \in SUBSET StylusButtons
    BY <1>2 DEF PenInv
  <2>2. Holds(lifted, buttons)
    BY <2>1, TippedHolds
  <2>3. Holds(synced, {})
    <3> HIDE DEF lifted
    <3> QED
      BY <2>1, <2>2, Synced
  <2>4. Holds(gone, {}) /\ gone.focus = Nowhere
    <3> HIDE DEF synced
    <3> QED
      BY <2>3, RefocusedHolds
  <2>5. Released(tool) = [tool EXCEPT ![active] = gone]
    BY <1>2 DEF Released
  <2> HIDE DEF gone
  <2> QED
    BY <2>1, <2>4, <2>5 DEF PenInv
<1> QED
  BY <1>1, <1>2

LEMMA PenStep == ASSUME PenAssumption, PenInv, [PenNext]_penVars PROVE PenInv'
<1>1. CASE PenLeaves
  <2> DEFINE released == Released(tool)
  <2>1. tool' = released /\ active' = NoTool /\ buttons' = {}
    BY <1>1 DEF PenLeaves
  <2>2. /\ DOMAIN released = Tools /\ released = [k \in Tools |-> released[k]]
        /\ \A k \in Tools : Holds(released[k], {}) /\ released[k].focus = Nowhere
    BY AllReleased
  <2> HIDE DEF released
  <2> QED
    BY <2>1, <2>2 DEF PenInv
<1>2. ASSUME NEW mask \in SUBSET StylusButtons, PenButtons(mask) PROVE PenInv'
  <2> DEFINE told == sync_pen_buttons(tool[active], buttons, mask)
  <2>1. active \in Tools /\ Holds(tool[active], buttons) /\ buttons \in SUBSET StylusButtons
    BY <1>2 DEF PenButtons, PenInv
  <2>2. Holds(told, mask)
    BY <2>1, Synced
  <2>3. tool' = [tool EXCEPT ![active] = told] /\ buttons' = mask /\ active' = active
    BY <1>2 DEF PenButtons
  <2> HIDE DEF told
  <2> QED
    BY <2>1, <2>2, <2>3 DEF PenInv
<1>3. ASSUME NEW event \in {"hover", "down", "move", "up"}, NEW kind \in Tools, NEW mask \in SUBSET StylusButtons,
             NEW over \in Canvases \cup {Nowhere}, PenEvent(event, kind, mask, over)
      PROVE  PenInv'
  <2> DEFINE was == Switched(kind)
  <2>1. /\ was.active \in {NoTool, kind} /\ was.buttons \in SUBSET StylusButtons
        /\ was.active = NoTool => was.buttons = {}
        /\ DOMAIN was.tool = Tools /\ was.tool = [k \in Tools |-> was.tool[k]]
        /\ \A k \in Tools : IF k = was.active THEN Holds(was.tool[k], was.buttons)
                            ELSE Holds(was.tool[k], {}) /\ was.tool[k].focus = Nowhere
    <3>1. CASE active \notin {NoTool, kind}
      <4> DEFINE released == Released(tool)
      <4>1. was = [active |-> NoTool, buttons |-> {}, tool |-> released]
        BY <3>1 DEF Switched
      <4>2. /\ DOMAIN released = Tools /\ released = [k \in Tools |-> released[k]]
            /\ \A k \in Tools : Holds(released[k], {}) /\ released[k].focus = Nowhere
        BY AllReleased
      <4> HIDE DEF was, released
      <4>3. was.active = NoTool /\ was.buttons = {} /\ was.tool = released
        BY <4>1
      <4> QED
        BY <4>2, <4>3, PenAssumption DEF PenAssumption
    <3>2. CASE active \in {NoTool, kind}
      <4>1. was = [active |-> active, buttons |-> buttons, tool |-> tool]
        BY <3>2 DEF Switched
      <4> HIDE DEF was
      <4>2. was.active = active /\ was.buttons = buttons /\ was.tool = tool
        BY <4>1
      <4> QED
        BY <3>2, <4>2 DEF PenInv
    <3> QED
      BY <3>1, <3>2
  <2> HIDE DEF was
  <2>2. CASE was.active = NoTool /\ over = Nowhere
    <3>1. active' = was.active /\ buttons' = was.buttons /\ tool' = was.tool
      BY <1>3, <2>2 DEF PenEvent, was
    <3> QED
      BY <2>1, <2>2, <3>1 DEF PenInv
  <2>3. CASE ~(was.active = NoTool /\ over = Nowhere)
    <3> DEFINE moved == Refocused(was.tool[kind], over, was.buttons)
               synced == sync_pen_buttons(moved, was.buttons, mask)
               told == Tipped(synced, TipAfter(event, synced.tip))
    <3>1. active' = kind /\ buttons' = mask /\ tool' = [was.tool EXCEPT ![kind] = told]
      BY <1>3, <2>3 DEF PenEvent, was
    <3>2. Holds(was.tool[kind], was.buttons)
      BY <2>1
    <3>3. Holds(moved, was.buttons)
      BY <2>1, <3>2, RefocusedHolds
    <3> HIDE DEF moved
    <3>4. Holds(synced, mask)
      BY <2>1, <3>3, Synced
    <3> HIDE DEF synced
    <3>5. TipAfter(event, synced.tip) \in BOOLEAN
      <4>1. synced.tip \in BOOLEAN
        BY <3>4 DEF Holds, ToolState
      <4> QED
        BY <4>1 DEF TipAfter
    <3>6. Holds(told, mask)
      BY <3>4, <3>5, TippedHolds
    <3> HIDE DEF told
    <3>7. \A k \in Tools \ {kind} : Holds(was.tool[k], {}) /\ was.tool[k].focus = Nowhere
      BY <2>1, PenAssumption DEF PenAssumption
    <3> QED
      BY <2>1, <3>1, <3>6, <3>7, PenAssumption DEF PenInv, PenAssumption
  <2> QED
    BY <2>2, <2>3
<1>4. CASE UNCHANGED penVars
  BY <1>4 DEF penVars, PenInv
<1> QED
  BY <1>1, <1>2, <1>3, <1>4 DEF PenNext

\* Events in any order, with tools that change, move between surfaces and leave: a tool
\* that is not active is over no surface with its tip up, and no surface was told of a
\* button that is not held above it, except one that the pen left with a button held,
\* for any tools, buttons and surfaces (process_pen_input, release_pen,
\* sync_pen_buttons).
THEOREM PenAlwaysReleased == PenSpec => []PenReleased
<1>1. PenInit => PenInv
  <2> SUFFICES ASSUME PenInit PROVE PenInv
    OBVIOUS
  <2>1. active = NoTool /\ buttons = {} /\ tool = [k \in Tools |-> AddedTool]
    BY DEF PenInit
  <2>2. Holds(AddedTool, {}) /\ AddedTool.focus = Nowhere
    BY DEF AddedTool, ToolState, Holds
  <2> HIDE DEF AddedTool
  <2> QED
    BY <2>1, <2>2, PenAssumption DEF PenInv, PenAssumption
<1>2. PenInv => PenReleased
  <2> SUFFICES ASSUME PenInv, NEW k \in Tools
               PROVE  /\ k # active => tool[k].focus = Nowhere
                      /\ tool[k].focus = Nowhere => ~tool[k].tip
                      /\ \A s \in Canvases \ tool[k].left :
                           tool[k].held[s] \subseteq IF s = tool[k].focus THEN buttons ELSE {}
    BY DEF PenReleased
  <2> QED
    BY DEF PenInv, Holds
<1>3. PenInv /\ [PenNext]_penVars => PenInv'
  BY PenAssumption, PenStep
<1> QED
  BY <1>1, <1>2, <1>3, PTL DEF PenSpec

-----------------------------------------------------------------------------
(* The seat.                                                               *)

\* Whatever the menus and the pen do beside each other, nothing of the seat stays held
\* (reconcile_popup_grab, release_pen).
THEOREM SeatAlwaysReleased == SeatSpec => []SeatReleased
BY GrabAlwaysConsistent, PenAlwaysReleased, PTL DEF SeatSpec, SeatReleased

-----------------------------------------------------------------------------
(* The app ids of processes.                                               *)

\* The function that the scan defines by recursion.
Argument == [kind : STRING, app : Nat]
ScanState == [app : Nat, steam : BOOLEAN, done : BOOLEAN]
NothingScanned == [app |-> 0, steam |-> FALSE, done |-> FALSE]
ScannedTo(line) ==
  CHOOSE f : f = [n \in 0 .. Len(line) |->
    IF n = 0 THEN NothingScanned ELSE scan_argument(f[n - 1], line[n])]

LEMMA ArgumentScanned ==
  ASSUME NEW acc \in ScanState, NEW part \in Argument PROVE scan_argument(acc, part) \in ScanState
BY DEF scan_argument, ScanState, Argument

LEMMA ScanSteps ==
  ASSUME NEW line \in Seq(Argument)
  PROVE  LET k == ScannedTo(line)
         IN /\ scan_cmdline_for_app_id(line) = k[Len(line)].app /\ k[0] = NothingScanned
            /\ \A n \in 1 .. Len(line) : k[n] \in ScanState /\ k[n - 1] \in ScanState /\ k[n] = scan_argument(k[n - 1], line[n])
<1> DEFINE g == [x \in Nat \X ScanState |-> IF x[1] \in 1 .. Len(line) THEN scan_argument(x[2], line[x[1]]) ELSE x[2]]
           k == ScannedTo(line)
<1>1. g \in [Nat \X ScanState -> ScanState]
  BY ArgumentScanned
<1>2. Len(line) \in Nat /\ NothingScanned \in ScanState
  BY DEF ScanState, NothingScanned
<1>3. PICK f \in [0 .. Len(line) -> ScanState] :
        \A n \in 0 .. Len(line) : f[n] = IF n = 0 THEN NothingScanned ELSE g[<<n, f[n - 1]>>]
  <2> DEFINE m == Len(line)
  <2> HIDE DEF g, m
  <2>1. RecursiveOn(ScanState, NothingScanned, g, m)
    BY <1>1, <1>2, Recursion DEF m
  <2> QED
    BY <2>1 DEF m, RecursiveOn
<1>4. ASSUME NEW n \in 0 .. Len(line), n # 0 PROVE g[<<n, f[n - 1]>>] = scan_argument(f[n - 1], line[n])
  <2>1. n \in 1 .. Len(line) /\ f[n - 1] \in ScanState /\ n \in Nat
    BY <1>4
  <2> HIDE <1>3
  <2> QED
    BY <2>1
<1>5. f = [n \in 0 .. Len(line) |-> IF n = 0 THEN NothingScanned ELSE scan_argument(f[n - 1], line[n])]
  <2> HIDE DEF g
  <2>1. \A n \in 0 .. Len(line) : f[n] = IF n = 0 THEN NothingScanned ELSE scan_argument(f[n - 1], line[n])
    BY <1>3, <1>4
  <2> HIDE <1>3
  <2> QED
    BY <2>1
<1>6. k = [n \in 0 .. Len(line) |-> IF n = 0 THEN NothingScanned ELSE scan_argument(k[n - 1], line[n])]
  BY <1>5 DEF ScannedTo
<1>7. scan_cmdline_for_app_id(line) = k[Len(line)].app
  BY DEF scan_cmdline_for_app_id, ScannedTo, NothingScanned
<1> HIDE DEF k
<1>9. k[0] = NothingScanned /\ \A n \in 1 .. Len(line) : k[n] = scan_argument(k[n - 1], line[n])
  <2>1. k[0] = NothingScanned
    BY <1>2, <1>6
  <2>2. ASSUME NEW n \in 1 .. Len(line) PROVE k[n] = scan_argument(k[n - 1], line[n])
    <3>1. n \in 0 .. Len(line) /\ n # 0
      OBVIOUS
    <3> QED
      BY <1>6, <3>1
  <2> QED
    BY <2>1, <2>2
<1>10. \A n \in Nat : n \in {x \in Nat : x <= Len(line) => k[x] \in ScanState}
  <2> DEFINE A == {x \in Nat : x <= Len(line) => k[x] \in ScanState}
  <2>1. 0 \in A
    BY <1>2, <1>9
  <2>2. ASSUME NEW n \in Nat, n \in A PROVE n + 1 \in A
    <3> SUFFICES ASSUME n + 1 <= Len(line) PROVE k[n + 1] \in ScanState
      OBVIOUS
    <3>1. n + 1 \in 1 .. Len(line) /\ (n + 1) - 1 = n /\ line[n + 1] \in Argument /\ n <= Len(line)
      BY <1>2
    <3>2. k[n] \in ScanState
      BY <2>2, <3>1
    <3>3. k[n + 1] = scan_argument(k[n], line[n + 1])
      BY <1>9, <3>1
    <3> QED
      BY <3>1, <3>2, <3>3, ArgumentScanned
  <2> HIDE DEF A
  <2>3. \A n \in Nat : n \in A
    BY <2>1, <2>2, Induction
  <2> QED
    BY <2>3 DEF A
<1>11. \A n \in 1 .. Len(line) : k[n] \in ScanState /\ k[n - 1] \in ScanState
  <2> SUFFICES ASSUME NEW n \in 1 .. Len(line) PROVE k[n] \in ScanState /\ k[n - 1] \in ScanState
    OBVIOUS
  <2>1. n \in Nat /\ n - 1 \in Nat /\ n <= Len(line) /\ n - 1 <= Len(line)
    BY <1>2
  <2> QED
    BY <1>10, <2>1
<1> QED
  BY <1>7, <1>9, <1>11 DEF k

\* Where a command line launches an app or settles for the one before, and where it
\* has a plain AppId=, among its first n arguments; the first of some places.
Launching(line, i) ==
  line[i].app # 0 /\ (line[i].kind = "appids" \/
                      (line[i].kind = "AppId" /\ \E j \in 1 .. (i - 1) : line[j].kind = "SteamLaunch"))
IsPlain(line, i) == line[i].app # 0 /\ line[i].kind = "AppId"
Settling(line, i) ==
  line[i].kind = "appids" /\ line[i].app = 0 /\ \E j \in 1 .. (i - 1) : IsPlain(line, j)
Ends(line, n) == {i \in 1 .. n : Launching(line, i) \/ Settling(line, i)}
PlainIds(line, n) == {i \in 1 .. n : IsPlain(line, i)}
IsFirst(i, S) == i \in S /\ \A j \in S : i <= j

\* The app is that of the first plain AppId=.
FirstPlain(app, line, n) == \E i \in 1 .. n : IsFirst(i, PlainIds(line, n)) /\ app = line[i].app

\* What the scan knows after n arguments.
Knows(s, line, n) ==
  /\ s.done => \E i \in 1 .. n : /\ IsFirst(i, Ends(line, n))
                                 /\ IF line[i].app # 0 THEN s.app = line[i].app ELSE FirstPlain(s.app, line, n)
  /\ ~s.done => /\ Ends(line, n) = {}
                /\ s.steam <=> \E j \in 1 .. n : line[j].kind = "SteamLaunch"
                /\ (PlainIds(line, n) = {} /\ s.app = 0) \/ FirstPlain(s.app, line, n)

\* One more argument.
LEMMA KnowsMore ==
  ASSUME NEW line \in Seq(Argument), NEW n \in Nat, n + 1 <= Len(line), NEW s \in ScanState, Knows(s, line, n)
  PROVE  Knows(scan_argument(s, line[n + 1]), line, n + 1)
<1> DEFINE part == line[n + 1]
           t == scan_argument(s, part)
           launch == part.app # 0 /\ (part.kind = "appids" \/ (part.kind = "AppId" /\ \E j \in 1 .. n : line[j].kind = "SteamLaunch"))
           plain == IsPlain(line, n + 1)
           E == Ends(line, n)
           P == PlainIds(line, n)
           settle == part.kind = "appids" /\ part.app = 0 /\ P # {}
           end == launch \/ settle
<1>1. part \in Argument /\ n + 1 \in 1 .. n + 1 /\ 1 .. n + 1 = (1 .. n) \cup {n + 1} /\ (n + 1) - 1 = n
  OBVIOUS
<1>2. Ends(line, n + 1) = E \cup (IF end THEN {n + 1} ELSE {})
  <2>1. (\E j \in 1 .. n : IsPlain(line, j)) <=> P # {}
    BY DEF PlainIds
  <2>2. (Launching(line, n + 1) \/ Settling(line, n + 1)) <=> end
    BY <1>1, <2>1 DEF Launching, Settling
  <2> HIDE DEF end
  <2> QED
    BY <1>1, <2>2 DEF Ends
<1>3. PlainIds(line, n + 1) = P \cup (IF plain THEN {n + 1} ELSE {})
  BY <1>1 DEF PlainIds
<1>4. E \subseteq 1 .. n /\ P \subseteq 1 .. n
  BY DEF Ends, PlainIds
<1>5. (\E j \in 1 .. n + 1 : line[j].kind = "SteamLaunch") <=> (\E j \in 1 .. n : line[j].kind = "SteamLaunch") \/ part.kind = "SteamLaunch"
  BY <1>1
<1>6. \A i \in 1 .. n : IsFirst(i, E) => IsFirst(i, Ends(line, n + 1))
  BY <1>2, <1>4 DEF IsFirst
<1>7. \A app : FirstPlain(app, line, n) => FirstPlain(app, line, n + 1)
  <2>1. \A i \in 1 .. n : IsFirst(i, P) => IsFirst(i, PlainIds(line, n + 1))
    BY <1>3, <1>4 DEF IsFirst
  <2> QED
    BY <1>1, <2>1 DEF FirstPlain
<1>8. end /\ E = {} => IsFirst(n + 1, Ends(line, n + 1))
  BY <1>2 DEF IsFirst
<1>9. plain /\ P = {} => FirstPlain(part.app, line, n + 1)
  BY <1>1, <1>3 DEF IsFirst, FirstPlain
<1>10. s = [app |-> s.app, steam |-> s.steam, done |-> s.done] /\ s.steam \in BOOLEAN /\ s.done \in BOOLEAN
  BY DEF ScanState
<1>a. \A app : FirstPlain(app, line, n) => app # 0 /\ P # {}
  BY DEF FirstPlain, IsFirst, PlainIds, IsPlain
<1>11. CASE s.done
  <2>1. t = s
    BY <1>11 DEF scan_argument
  <2>2. PICK i \in 1 .. n : IsFirst(i, E) /\ IF line[i].app # 0 THEN s.app = line[i].app ELSE FirstPlain(s.app, line, n)
    BY <1>11 DEF Knows
  <2>3. i \in 1 .. n + 1 /\ IsFirst(i, Ends(line, n + 1))
    BY <1>1, <1>6, <2>2
  <2>4. Knows(t, line, n + 1)
    BY <1>7, <1>11, <2>1, <2>2, <2>3 DEF Knows
  <2> QED
    BY <2>4
<1>12. CASE ~s.done
  <2>1. /\ E = {} /\ (s.steam <=> \E j \in 1 .. n : line[j].kind = "SteamLaunch")
        /\ (P = {} /\ s.app = 0) \/ FirstPlain(s.app, line, n)
    BY <1>12 DEF Knows
  <2>2. CASE launch
    <3>1. part.app # 0 /\ (part.kind = "appids" \/ (part.kind = "AppId" /\ s.steam))
      BY <2>1, <2>2
    <3>2. t.done /\ t.app = part.app
      <4>1. t = [s EXCEPT !.app = part.app, !.done = TRUE]
        BY <1>12, <3>1 DEF scan_argument
      <4> QED
        BY <1>10, <4>1
    <3> HIDE DEF t
    <3>3. Knows(t, line, n + 1)
      BY <1>1, <1>8, <2>1, <2>2, <3>1, <3>2 DEF Knows
    <3> QED
      BY <3>3 DEF t
  <2>3. CASE settle
    <3>1. FirstPlain(s.app, line, n) /\ s.app # 0
      BY <1>a, <2>1, <2>3
    <3>2. t.done /\ t.app = s.app
      <4>1. t = [s EXCEPT !.app = s.app, !.done = TRUE]
        BY <1>12, <2>3, <3>1 DEF scan_argument
      <4> QED
        BY <1>10, <4>1
    <3> HIDE DEF t
    <3>3. Knows(t, line, n + 1)
      BY <1>1, <1>7, <1>8, <2>1, <2>3, <3>1, <3>2 DEF Knows
    <3> QED
      BY <3>3 DEF t
  <2>4. CASE ~launch /\ ~settle
    <3>1. Ends(line, n + 1) = {}
      BY <1>2, <2>1, <2>4
    <3>2. /\ ~(part.kind = "appids" /\ (part.app # 0 \/ s.app # 0))
          /\ ~(part.kind = "AppId" /\ part.app # 0 /\ s.steam)
      BY <1>a, <2>1, <2>4
    <3>3. /\ ~t.done /\ (t.steam <=> s.steam \/ part.kind = "SteamLaunch")
          /\ t.app = IF plain /\ s.app = 0 THEN part.app ELSE s.app
      <4>1. CASE part.kind = "SteamLaunch"
        <5>1. t = [s EXCEPT !.steam = TRUE] /\ ~plain
          BY <1>12, <3>2, <4>1 DEF scan_argument, IsPlain
        <5> QED
          BY <1>10, <1>12, <4>1, <5>1
      <4>2. CASE part.kind # "SteamLaunch" /\ plain /\ s.app = 0
        <5>1. t = [s EXCEPT !.app = part.app]
          BY <1>12, <3>2, <4>2 DEF scan_argument, IsPlain
        <5> QED
          BY <1>10, <1>12, <4>2, <5>1
      <4>3. CASE part.kind # "SteamLaunch" /\ ~(plain /\ s.app = 0)
        <5>1. t = s
          BY <1>12, <3>2, <4>3 DEF scan_argument, IsPlain
        <5> QED
          BY <1>12, <4>3, <5>1
      <4> QED
        BY <4>1, <4>2, <4>3
    <3>4. t.steam <=> \E j \in 1 .. n + 1 : line[j].kind = "SteamLaunch"
      BY <1>5, <2>1, <3>3
    <3> HIDE DEF t
    <3>5. (PlainIds(line, n + 1) = {} /\ t.app = 0) \/ FirstPlain(t.app, line, n + 1)
      <4>1. CASE P = {} /\ s.app = 0 /\ ~plain
        BY <1>3, <3>3, <4>1
      <4>2. CASE P = {} /\ s.app = 0 /\ plain
        BY <1>9, <3>3, <4>2
      <4>3. CASE FirstPlain(s.app, line, n)
        <5>1. s.app # 0 /\ FirstPlain(s.app, line, n + 1)
          BY <1>7, <1>a, <4>3
        <5> QED
          BY <3>3, <5>1
      <4> QED
        BY <2>1, <4>1, <4>2, <4>3
    <3>6. Knows(t, line, n + 1)
      BY <3>1, <3>3, <3>4, <3>5 DEF Knows
    <3> QED
      BY <3>6 DEF t
  <2> QED
    BY <2>2, <2>3, <2>4
<1> QED
  BY <1>11, <1>12

\* The scan of a command line finds what the command line names: the first argument
\* that launches an app, and without one the first AppId=, for which an --appids=
\* without an app settles (scan_cmdline_for_app_id).
THEOREM ScanFindsNamed ==
  ASSUME NEW line \in Seq(Argument) PROVE scan_cmdline_for_app_id(line) = NamedApp(line)
<1> DEFINE k == ScannedTo(line)
           m == Len(line)
           A == {n \in Nat : n <= m => Knows(k[n], line, n) /\ k[n] \in ScanState}
<1>1. /\ scan_cmdline_for_app_id(line) = k[m].app /\ k[0] = NothingScanned
      /\ \A n \in 1 .. m : k[n] \in ScanState /\ k[n - 1] \in ScanState /\ k[n] = scan_argument(k[n - 1], line[n])
  BY ScanSteps
<1>2. m \in Nat /\ DOMAIN line = 1 .. m
  OBVIOUS
<1> HIDE DEF k
<1>3. 0 \in A
  <2>1. Knows(NothingScanned, line, 0)
    BY DEF Knows, NothingScanned, Ends, PlainIds, FirstPlain
  <2>2. NothingScanned \in ScanState
    BY DEF NothingScanned, ScanState
  <2> QED
    BY <1>1, <2>1, <2>2
<1>4. ASSUME NEW n \in Nat, n \in A PROVE n + 1 \in A
  <2> SUFFICES ASSUME n + 1 <= m PROVE Knows(k[n + 1], line, n + 1) /\ k[n + 1] \in ScanState
    OBVIOUS
  <2>1. n + 1 \in 1 .. m /\ (n + 1) - 1 = n /\ n <= m
    BY <1>2
  <2>2. Knows(k[n], line, n) /\ k[n] \in ScanState
    BY <1>4, <2>1
  <2>3. k[n + 1] = scan_argument(k[n], line[n + 1]) /\ k[n + 1] \in ScanState
    BY <1>1, <2>1
  <2> QED
    BY <2>2, <2>3, KnowsMore
<1>5. Knows(k[m], line, m)
  <2> HIDE DEF A
  <2>1. m \in A
    BY <1>2, <1>3, <1>4, Induction
  <2> QED
    BY <2>1 DEF A
<1> DEFINE s == k[m]
           E == Ends(line, m)
           P == PlainIds(line, m)
           first(S) == line[CHOOSE i \in S : \A j \in S : i <= j].app
<1>6. NamedApp(line) = IF E # {} /\ first(E) # 0 THEN first(E) ELSE IF P # {} THEN first(P) ELSE 0
  <2> DEFINE plain == {i \in DOMAIN line : line[i].app # 0 /\ line[i].kind = "AppId"}
             launches(i) == line[i].app # 0 /\
               (line[i].kind = "appids" \/
                (line[i].kind = "AppId" /\ \E j \in 1 .. (i - 1) : line[j].kind = "SteamLaunch"))
             settles(i) == line[i].kind = "appids" /\ line[i].app = 0 /\ \E j \in plain : j < i
             ends == {i \in DOMAIN line : launches(i) \/ settles(i)}
  <2>1. NamedApp(line) = IF ends # {} /\ first(ends) # 0 THEN first(ends) ELSE IF plain # {} THEN first(plain) ELSE 0
    BY DEF NamedApp
  <2>2. plain = P
    BY <1>2 DEF PlainIds, IsPlain
  <2>3. ASSUME NEW i \in 1 .. m PROVE (launches(i) <=> Launching(line, i)) /\ (settles(i) <=> Settling(line, i))
    <3>1. (\E j \in plain : j < i) <=> \E j \in 1 .. (i - 1) : IsPlain(line, j)
      <4>1. \A j : j \in 1 .. m /\ j < i <=> j \in 1 .. (i - 1)
        BY <1>2
      <4>2. \A j \in 1 .. (i - 1) : j \in 1 .. m /\ j < i
        BY <1>2
      <4> QED
        BY <1>2, <4>2 DEF IsPlain
    <3> QED
      BY <3>1 DEF Launching, Settling
  <2>4. ends = E
    <3> HIDE DEF launches, settles
    <3> QED
      BY <1>2, <2>3 DEF Ends
  <2> HIDE DEF plain, ends, first
  <2> QED
    BY <2>1, <2>2, <2>4
<1>7. ASSUME NEW S \in SUBSET (1 .. m), NEW i \in 1 .. m, IsFirst(i, S) PROVE first(S) = line[i].app /\ S # {}
  <2>1. i \in S /\ \A j \in S : i <= j
    BY <1>7 DEF IsFirst
  <2>2. \A x \in S : (\A j \in S : x <= j) => x = i
    BY <2>1
  <2>3. (CHOOSE x \in S : \A j \in S : x <= j) = i
    BY <2>1, <2>2
  <2> QED
    BY <2>1, <2>3
<1>8. E \in SUBSET (1 .. m) /\ P \in SUBSET (1 .. m)
  BY DEF Ends, PlainIds
<1> HIDE DEF first
<1>b. FirstPlain(s.app, line, m) => first(P) = s.app /\ P # {}
  BY <1>7, <1>8 DEF FirstPlain
<1>9. s.app = NamedApp(line)
  <2>1. CASE s.done
    <3>1. PICK i \in 1 .. m : /\ IsFirst(i, E)
                              /\ IF line[i].app # 0 THEN s.app = line[i].app ELSE FirstPlain(s.app, line, m)
      BY <1>5, <2>1 DEF Knows
    <3>2. first(E) = line[i].app /\ E # {}
      BY <1>7, <1>8, <3>1
    <3> HIDE DEF E, P, s
    <3> QED
      BY <1>6, <1>b, <3>1, <3>2
  <2>2. CASE ~s.done
    <3>1. E = {} /\ ((P = {} /\ s.app = 0) \/ FirstPlain(s.app, line, m))
      BY <1>5, <2>2 DEF Knows
    <3> HIDE DEF E, P, s
    <3> QED
      BY <1>6, <1>b, <3>1
  <2> QED
    BY <2>1, <2>2
<1> QED
  BY <1>1, <1>9

\* What the cache has to do with processes.

Process == [start : Nat, parent : Nat, program : Programs \cup {Shell}]
Entry == [app : AppsNamed, time : Nat, read : Nat, mixed : BOOLEAN]
Walks == [at : {"idle", "stat", "start", "lookup", "cmdline", "set", "insert"}, pid : Nat, reaper : BOOLEAN,
          parent : Nat, start : Nat, app : AppsNamed, of : Nat, read : Nat]

ProcessTypes ==
  /\ proc \in [Pids -> Process] /\ starts \in Nat /\ clock \in Nat
  /\ named \in [Pids -> [AppsNamed -> Int]]
  /\ walk \in Walks
  /\ \A p \in Pids : proc[p].start <= starts

\* Nobody named an app in the future, and what a process runs is named now.
NamedNow ==
  \A p \in Pids :
    /\ \A a \in AppsNamed : named[p][a] <= clock
    /\ Alive(p) => named[p][NamedApp(proc[p].program.cmdline)] = clock

\* An entry is of a process that was started, and if it still runs, it named the app
\* of the entry when its command line was read or later.
OfStarted(k, n) == \E p \in Pids, s \in 0 .. n : k = <<p, s>>
EntryNamed(k) ==
  /\ cache[k] \in Entry /\ OfStarted(k, starts)
  /\ \A p \in Pids : Alive(p) /\ k = HitKey(p) /\ ~cache[k].mixed => cache[k].read <= named[p][cache[k].app]

EntriesNamed == \A k \in DOMAIN cache : EntryNamed(k)

\* So is what the walk has read and is about to add.
ReadNamed ==
  /\ walk.at \in {"set", "insert"} =>
       /\ walk.of <= starts
       /\ Alive(walk.pid) /\ proc[walk.pid].start = walk.of => walk.read <= named[walk.pid][walk.app]
  /\ walk.at \in {"lookup", "insert"} => OfStarted(Key(walk.pid, walk.start), starts)

CacheInv == ProcessTypes /\ NamedNow /\ EntriesNamed /\ ReadNamed

\* What a command line names is an app of some program.
LEMMA NamedIsKnown == ASSUME NEW g \in Programs \cup {Shell} PROVE NamedApp(g.cmdline) \in AppsNamed
<1> USE AppIdAssumption DEF AppIdAssumption
<1> DEFINE c == g.cmdline
<1>1. DOMAIN c \subseteq Nat
  BY DEF Shell
<1>2. ASSUME NEW S \in SUBSET DOMAIN c, S # {} PROVE c[CHOOSE i \in S : \A j \in S : i <= j].app \in AppsNamed
  <2>1. S \subseteq Nat
    BY <1>1
  <2>2. \E m \in S : \A j \in S : m <= j
    BY <1>2, <2>1, LeastNatural
  <2>4. (CHOOSE i \in S : \A j \in S : i <= j) \in S
    BY <2>2
  <2>5. g \in Programs
    BY <1>2 DEF Shell
  <2>6. ASSUME NEW i \in DOMAIN c PROVE c[i].app \in AppsNamed
    <3>1. c[i].app \in {g.cmdline[j].app : j \in DOMAIN g.cmdline}
      BY <2>6
    <3> HIDE DEF c
    <3> QED
      BY <2>5, <3>1 DEF AppsNamed
  <2> QED
    BY <2>4, <2>6
<1>3. 0 \in AppsNamed
  BY DEF AppsNamed
<1> DEFINE plain == {i \in DOMAIN c : c[i].app # 0 /\ c[i].kind = "AppId"}
           launches(i) == c[i].app # 0 /\
             (c[i].kind = "appids" \/ (c[i].kind = "AppId" /\ \E j \in 1 .. (i - 1) : c[j].kind = "SteamLaunch"))
           settles(i) == c[i].kind = "appids" /\ c[i].app = 0 /\ \E j \in plain : j < i
           ends == {i \in DOMAIN c : launches(i) \/ settles(i)}
           first(S) == c[CHOOSE i \in S : \A j \in S : i <= j].app
<1>4. NamedApp(c) = IF ends # {} /\ first(ends) # 0 THEN first(ends) ELSE IF plain # {} THEN first(plain) ELSE 0
  BY DEF NamedApp
<1>5. ends # {} => first(ends) \in AppsNamed
  BY <1>2
<1>6. plain # {} => first(plain) \in AppsNamed
  BY <1>2
<1> HIDE DEF ends, plain, first
<1> QED
  BY <1>3, <1>4, <1>5, <1>6

\* What a command line names is what is read of it.
LEMMA ScanOfProcess ==
  ASSUME CacheInv, NEW q \in Pids
  PROVE  /\ scan_cmdline_for_app_id(proc[q].program.cmdline) = NamedApp(proc[q].program.cmdline)
         /\ NamedApp(proc[q].program.cmdline) \in AppsNamed
<1>1. proc[q].program \in Programs \cup {Shell}
  BY DEF CacheInv, ProcessTypes, Process
<1>2. proc[q].program.cmdline \in Seq(Argument)
  <2>1. ASSUME NEW g \in Programs PROVE g.cmdline \in Seq(Argument)
    BY AppIdAssumption DEF AppIdAssumption, Argument
  <2>2. Shell.cmdline \in Seq(Argument)
    BY DEF Shell
  <2> QED
    BY <1>1, <2>1, <2>2
<1> QED
  BY <1>1, <1>2, NamedIsKnown, ScanFindsNamed

\* A step that leaves the cache and the walk keeps what they hold true if a process
\* that runs is new, or ran before and named whatever it named, no earlier than before.
LEMMA EntriesKept ==
  ASSUME CacheInv, UNCHANGED <<cache, walk>>, starts' \in Nat, starts <= starts',
         \A p \in Pids :
           Alive(p)' => \/ proc'[p].start > starts /\ proc'[p].start \in Nat
                        \/ /\ Alive(p) /\ proc'[p].start = proc[p].start
                           /\ \A a \in AppsNamed : named'[p][a] \in Int /\ named[p][a] <= named'[p][a]
  PROVE  EntriesNamed' /\ ReadNamed'
<1>0. starts \in Nat /\ walk \in Walks /\ \A p \in Pids, a \in AppsNamed : named[p][a] \in Int
  BY DEF CacheInv, ProcessTypes
<1>1. ASSUME NEW k, OfStarted(k, starts) PROVE OfStarted(k, starts')
  <2>1. PICK q \in Pids, s \in 0 .. starts : k = <<q, s>>
    BY <1>1 DEF OfStarted
  <2>2. s \in 0 .. starts'
    BY <1>0
  <2> QED
    BY <2>1, <2>2 DEF OfStarted
<1>2. ASSUME NEW p \in Pids, Alive(p)', NEW n \in Nat, n <= starts, proc'[p].start = n
      PROVE  /\ Alive(p) /\ proc'[p].start = proc[p].start
             /\ \A a \in AppsNamed : named'[p][a] \in Int /\ named[p][a] <= named'[p][a]
  BY <1>0, <1>2
<1>3. ASSUME NEW k \in DOMAIN cache PROVE EntryNamed(k)'
  <2>0. EntryNamed(k)
    BY DEF CacheInv, EntriesNamed
  <2>1. cache[k] \in Entry /\ OfStarted(k, starts')
    BY <1>1, <2>0 DEF EntryNamed
  <2>2. ASSUME NEW p \in Pids, Alive(p)', k = HitKey(p)', ~cache[k].mixed
        PROVE  cache[k].read <= named'[p][cache[k].app]
    <3>1. PICK q \in Pids, s \in 0 .. starts : k = <<q, s>>
      BY <2>0 DEF EntryNamed, OfStarted
    <3>2. proc'[p].start = s /\ s \in Nat /\ s <= starts
      BY <1>0, <2>2, <3>1 DEF HitKey, Key
    <3>3. /\ Alive(p) /\ proc'[p].start = proc[p].start
          /\ \A a \in AppsNamed : named'[p][a] \in Int /\ named[p][a] <= named'[p][a]
      BY <1>2, <2>2, <3>2
    <3>4. k = HitKey(p)
      BY <2>2, <3>3 DEF HitKey, Key
    <3>5. cache[k].read <= named[p][cache[k].app]
      BY <2>0, <2>2, <3>3, <3>4 DEF EntryNamed
    <3>6. cache[k].read \in Nat /\ cache[k].app \in AppsNamed
      BY <2>1 DEF Entry
    <3>7. /\ named[p][cache[k].app] \in Int /\ named'[p][cache[k].app] \in Int
          /\ named[p][cache[k].app] <= named'[p][cache[k].app]
      BY <1>0, <3>3, <3>6
    <3> QED
      BY <3>5, <3>6, <3>7
  <2> QED
    BY <2>1, <2>2 DEF EntryNamed
<1>4. ReadNamed'
  <2>1. ReadNamed
    BY DEF CacheInv
  <2>2. walk.at \in {"lookup", "insert"} => OfStarted(Key(walk.pid, walk.start), starts')
    BY <1>1, <2>1 DEF ReadNamed
  <2>3. ASSUME walk.at \in {"set", "insert"}
        PROVE  /\ walk.of <= starts'
               /\ Alive(walk.pid)' /\ proc'[walk.pid].start = walk.of => walk.read <= named'[walk.pid][walk.app]
    <3>1. /\ walk.of <= starts /\ walk.of \in Nat /\ walk.read \in Nat /\ walk.app \in AppsNamed
          /\ Alive(walk.pid) /\ proc[walk.pid].start = walk.of => walk.read <= named[walk.pid][walk.app]
      BY <1>0, <2>1, <2>3 DEF ReadNamed, Walks
    <3>2. ASSUME Alive(walk.pid)', proc'[walk.pid].start = walk.of PROVE walk.read <= named'[walk.pid][walk.app]
      <4>1. walk.pid \in Pids
        BY <3>2 DEF Alive
      <4>2. /\ Alive(walk.pid) /\ proc[walk.pid].start = walk.of
            /\ named'[walk.pid][walk.app] \in Int /\ named[walk.pid][walk.app] <= named'[walk.pid][walk.app]
        BY <1>2, <3>1, <3>2, <4>1
      <4>3. named[walk.pid][walk.app] \in Int
        BY <1>0, <3>1, <4>1
      <4> QED
        BY <3>1, <4>2, <4>3
    <3> QED
      BY <1>0, <3>1, <3>2
  <2> QED
    BY <2>2, <2>3 DEF ReadNamed
<1> QED
  BY <1>3, <1>4 DEF EntriesNamed

\* A step of the walk that adds nothing to the cache and has nothing to add.
LEMMA WalkKept ==
  ASSUME CacheInv, ProcessesStill, DOMAIN cache' \subseteq DOMAIN cache,
         \A k \in DOMAIN cache' : cache'[k] = cache[k], walk' \in Walks, ReadNamed'
  PROVE  CacheInv'
<1>1. \A p : (Alive(p)' <=> Alive(p)) /\ HitKey(p)' = HitKey(p)
  BY DEF ProcessesStill, Alive, HitKey, Key
<1>2. EntriesNamed'
  BY <1>1 DEF CacheInv, EntriesNamed, EntryNamed, ProcessesStill
<1> QED
  BY <1>1, <1>2 DEF CacheInv, ProcessTypes, NamedNow, ProcessesStill

\* What a walk adds to the cache is what its process named when it was read, unless the
\* entry is another process's.
LEMMA EntryAdded == ASSUME CacheInv, CacheInsert PROVE EntriesNamed'
<1> DEFINE key == Key(walk.pid, walk.start)
           new == [app |-> walk.app, time |-> clock, read |-> walk.read, mixed |-> walk.start # walk.of]
<1>1. walk.at = "insert" /\ cache' = cache_set(key, new) /\ UNCHANGED <<proc, starts, clock, named>>
  BY DEF CacheInsert, ProcessesStill
<1>2. walk \in Walks /\ clock \in Nat /\ ReadNamed
  BY DEF CacheInv, ProcessTypes
<1>3. new \in Entry /\ OfStarted(key, starts)
  BY <1>1, <1>2 DEF Entry, Walks, ReadNamed
<1>4. \A p : (Alive(p)' <=> Alive(p)) /\ HitKey(p)' = HitKey(p)
  BY <1>1 DEF Alive, HitKey, Key
<1>5. ASSUME NEW p \in Pids, Alive(p), key = HitKey(p), ~new.mixed PROVE new.read <= named[p][new.app]
  <2>1. p = walk.pid /\ proc[p].start = walk.start /\ walk.start = walk.of
    BY <1>5 DEF Key, HitKey
  <2> QED
    BY <1>1, <1>2, <1>5, <2>1 DEF ReadNamed
<1>6. DOMAIN cache' = DOMAIN cache \cup {key} /\ \A k \in DOMAIN cache' : cache'[k] = IF k = key THEN new ELSE cache[k]
  BY <1>1 DEF cache_set
<1> HIDE DEF key, new
<1> SUFFICES ASSUME NEW k \in DOMAIN cache' PROVE EntryNamed(k)'
  BY DEF EntriesNamed
<1>7. CASE k = key
  <2>1. cache'[k] = new
    BY <1>6, <1>7
  <2> QED
    BY <1>1, <1>3, <1>4, <1>5, <1>7, <2>1 DEF EntryNamed
<1>8. CASE k # key
  <2>1. k \in DOMAIN cache /\ cache'[k] = cache[k]
    BY <1>6, <1>8
  <2> QED
    BY <1>1, <1>4, <2>1 DEF CacheInv, EntriesNamed, EntryNamed
<1> QED
  BY <1>7, <1>8

\* Each step of the walk, whatever the process is by then.
LEMMA WalkStep ==
  ASSUME CacheInv,
         \/ \E p \in Pids : Lookup(p)
         \/ ReadStat \/ ReadStart \/ CacheLookup \/ ReadCmdline \/ ReadStartAgain \/ CacheInsert
  PROVE  CacheInv'
<1>g. Pids \subseteq Nat
  BY AppIdAssumption DEF AppIdAssumption
<1>0. /\ walk \in Walks /\ clock \in Nat /\ starts \in Nat /\ ReadNamed /\ 0 \in AppsNamed
      /\ \A p \in Pids : /\ proc[p].start \in 0 .. starts /\ proc[p].parent \in Nat
                        /\ proc[p].program.reaper \in BOOLEAN
  <2>1. ASSUME NEW g \in Programs \cup {Shell} PROVE g.reaper \in BOOLEAN
    <3>1. CASE g \in Programs
      <4>1. g \in [reaper : BOOLEAN, cmdline : Seq([kind : STRING, app : Nat])]
        BY <3>1, AppIdAssumption DEF AppIdAssumption
      <4> QED
        BY <4>1
    <3>2. CASE g = Shell
      BY <3>2 DEF Shell
    <3> QED
      BY <3>1, <3>2
  <2> QED
    BY <2>1 DEF CacheInv, ProcessTypes, Process, AppsNamed
<1>1. ASSUME walk' \in Walks, ~(walk'.at \in {"lookup", "set", "insert"}) PROVE ReadNamed'
  BY <1>1 DEF ReadNamed
<1>2. ASSUME NEW p \in Nat PROVE AtStat(p) \in Walks /\ AtStat(p).at = "stat"
  BY <1>0 DEF AtStat, NoWalk, Walks
<1>3. NoWalk \in Walks /\ NoWalk.at = "idle"
  BY <1>0 DEF NoWalk, Walks
<1>4. ASSUME NEW app PROVE Onward(app) \in Walks /\ Onward(app).at \in {"idle", "stat"}
  <2>1. walk.parent \in Nat
    BY <1>0 DEF Walks
  <2> QED
    BY <1>2, <1>3, <2>1 DEF Onward
<1>5. AfterMiss \in Walks /\ AfterMiss.at \in {"idle", "cmdline"}
  BY <1>0, <1>3 DEF AfterMiss, Walks
<1>6. \A p : Alive(p) => p \in Pids
  BY DEF Alive
<1>7. ASSUME ProcessesStill, UNCHANGED cache, walk' \in Walks, ReadNamed' PROVE CacheInv'
  BY <1>7, WalkKept
<1>8. ASSUME NEW p \in Pids, Lookup(p) PROVE CacheInv'
  <2>1. walk' \in Walks /\ walk'.at = "stat" /\ ProcessesStill /\ UNCHANGED cache
    BY <1>g, <1>2, <1>8 DEF Lookup
  <2> QED
    BY <1>1, <1>7, <2>1
<1>9. CASE ReadStat
  <2>1. walk' \in Walks /\ walk'.at \in {"idle", "start"} /\ ProcessesStill /\ UNCHANGED cache
    BY <1>0, <1>3, <1>6, <1>9 DEF ReadStat, Walks
  <2> QED
    BY <1>1, <1>7, <2>1
<1>10. CASE ReadStart
  <2>1. ProcessesStill /\ UNCHANGED cache
    BY <1>10 DEF ReadStart
  <2>2. CASE Alive(walk.pid)
    <3>1. walk' = [walk EXCEPT !.at = "lookup", !.start = proc[walk.pid].start] /\ walk.pid \in Pids
      BY <1>6, <1>10, <2>2 DEF ReadStart
    <3>2. walk' \in Walks /\ walk'.at = "lookup" /\ walk'.pid = walk.pid /\ walk'.start = proc[walk.pid].start
      <4>1. proc[walk.pid].start \in Nat
        BY <1>0, <3>1
      <4> QED
        BY <1>0, <3>1, <4>1 DEF Walks
    <3>3. OfStarted(Key(walk.pid, proc[walk.pid].start), starts)
      BY <1>0, <3>1 DEF OfStarted, Key
    <3>4. ReadNamed'
      BY <2>1, <3>2, <3>3 DEF ReadNamed, ProcessesStill, OfStarted, Key
    <3> QED
      BY <1>7, <2>1, <3>2, <3>4
  <2>3. CASE ~Alive(walk.pid)
    <3>1. walk' = AfterMiss
      BY <1>10, <2>3 DEF ReadStart
    <3> QED
      BY <1>1, <1>5, <1>7, <2>1, <3>1
  <2> QED
    BY <2>2, <2>3
<1>11. CASE CacheLookup
  <2> DEFINE k == Key(walk.pid, walk.start)
  <2>1. ProcessesStill /\ cache' = cache_pruned(k) /\ (walk' = AfterMiss \/ walk' = Onward(cache_get(k)))
    BY <1>11 DEF CacheLookup
  <2>2. DOMAIN cache' \subseteq DOMAIN cache /\ \A j \in DOMAIN cache' : cache'[j] = cache[j]
    BY <2>1 DEF cache_pruned
  <2>3. walk' \in Walks /\ walk'.at \in {"idle", "cmdline", "stat"}
    BY <1>4, <1>5, <2>1
  <2> QED
    BY <1>1, <2>1, <2>2, <2>3, WalkKept
<1>12. CASE ReadCmdline
  <2>1. ProcessesStill /\ UNCHANGED cache
    BY <1>12 DEF ReadCmdline
  <2>2. CASE Alive(walk.pid)
    <3> DEFINE app == NamedApp(proc[walk.pid].program.cmdline)
    <3>1. walk.pid \in Pids /\ app \in AppsNamed /\ scan_cmdline_for_app_id(proc[walk.pid].program.cmdline) = app
      BY <1>6, <2>2, ScanOfProcess
    <3> HIDE DEF app
    <3>2. walk' = [walk EXCEPT !.at = "set", !.read = clock, !.app = app, !.of = proc[walk.pid].start]
      BY <1>12, <2>2, <3>1 DEF ReadCmdline
    <3>3. /\ walk' \in Walks /\ walk'.at = "set" /\ walk'.pid = walk.pid /\ walk'.read = clock /\ walk'.app = app
          /\ walk'.of = proc[walk.pid].start
      <4>1. proc[walk.pid].start \in Nat
        BY <1>0, <3>1
      <4> QED
        BY <1>0, <3>1, <3>2, <4>1 DEF Walks
    <3>4. clock <= named[walk.pid][app]
      BY <1>0, <2>2, <3>1 DEF CacheInv, NamedNow, app
    <3>5. ReadNamed'
      BY <1>0, <2>1, <3>1, <3>3, <3>4 DEF ReadNamed, ProcessesStill
    <3> QED
      BY <1>7, <2>1, <3>3, <3>5
  <2>3. CASE ~Alive(walk.pid)
    <3>1. walk' = [walk EXCEPT !.at = "set", !.read = clock, !.app = 0, !.of = 0]
      BY <1>12, <2>3 DEF ReadCmdline
    <3>2. walk' \in Walks /\ walk'.at = "set" /\ walk'.pid = walk.pid /\ walk'.of = 0
      BY <1>0, <3>1 DEF Walks
    <3>3. ~Alive(walk.pid)'
      BY <2>1, <2>3, <3>2 DEF Alive, ProcessesStill
    <3>4. ReadNamed'
      BY <1>0, <2>1, <3>2, <3>3 DEF ReadNamed, ProcessesStill
    <3> QED
      BY <1>7, <2>1, <3>2, <3>4
  <2> QED
    BY <2>2, <2>3
<1>13. CASE ReadStartAgain
  <2>1. ProcessesStill /\ UNCHANGED cache /\ walk.at = "set"
    BY <1>13 DEF ReadStartAgain
  <2>2. CASE Alive(walk.pid)
    <3>1. walk' = [walk EXCEPT !.at = "insert", !.start = proc[walk.pid].start] /\ walk.pid \in Pids
      BY <1>6, <1>13, <2>2 DEF ReadStartAgain
    <3>2. /\ walk' \in Walks /\ walk'.at = "insert" /\ walk'.pid = walk.pid /\ walk'.start = proc[walk.pid].start
          /\ walk'.of = walk.of /\ walk'.read = walk.read /\ walk'.app = walk.app
      <4>1. proc[walk.pid].start \in Nat
        BY <1>0, <3>1
      <4> QED
        BY <1>0, <3>1, <4>1 DEF Walks
    <3>3. OfStarted(Key(walk.pid, proc[walk.pid].start), starts)
      BY <1>0, <3>1 DEF OfStarted, Key
    <3>4. ReadNamed'
      BY <1>0, <2>1, <3>2, <3>3 DEF ReadNamed, ProcessesStill, OfStarted, Key, Alive
    <3> QED
      BY <1>7, <2>1, <3>2, <3>4
  <2>3. CASE ~Alive(walk.pid)
    <3>1. walk' = Onward(walk.app)
      BY <1>13, <2>3 DEF ReadStartAgain
    <3> QED
      BY <1>1, <1>4, <1>7, <2>1, <3>1
  <2> QED
    BY <2>2, <2>3
<1>14. CASE CacheInsert
  <2>1. ProcessesStill /\ walk' = Onward(walk.app)
    BY <1>14 DEF CacheInsert
  <2>2. walk' \in Walks /\ ReadNamed'
    BY <1>1, <1>4, <2>1
  <2>3. EntriesNamed'
    BY <1>14, EntryAdded
  <2> QED
    BY <2>1, <2>2, <2>3 DEF CacheInv, ProcessTypes, NamedNow, ProcessesStill, Alive
<1> QED
  BY <1>8, <1>9, <1>10, <1>11, <1>12, <1>13, <1>14

LEMMA CacheStep == CacheInv /\ [AppIdNext]_appIdVars => CacheInv'
<1> SUFFICES ASSUME CacheInv, [AppIdNext]_appIdVars PROVE CacheInv'
  OBVIOUS
<1>g. Pids \subseteq Nat \ {0} /\ TTL \in Nat
  BY AppIdAssumption DEF AppIdAssumption
<1>0. /\ proc \in [Pids -> Process] /\ starts \in Nat /\ clock \in Nat /\ named \in [Pids -> [AppsNamed -> Int]]
      /\ \A p \in Pids : proc[p].start <= starts /\ proc[p].start \in Nat /\ proc[p].program \in Programs \cup {Shell}
      /\ \A p \in Pids, a \in AppsNamed : named[p][a] <= clock /\ named[p][a] \in Int
      /\ \A p \in Pids : Alive(p) => named[p][NamedApp(proc[p].program.cmdline)] = clock
      /\ 0 \in AppsNamed
  BY DEF CacheInv, ProcessTypes, NamedNow, Process, AppsNamed
<1>e. clock \in Int /\ clock <= clock
  BY <1>0
<1>f. \A p \in Pids, a \in AppsNamed : named[p][a] <= clock /\ named[p][a] \in Int
  BY <1>0
<1>c. walk \in Walks
  BY DEF CacheInv, ProcessTypes
<1>1. ASSUME NEW p \in Pids, NEW above \in Pids, Spawn(p, above) PROVE CacheInv'
  <2>1. PICK g \in Programs :
          /\ proc' = [proc EXCEPT ![p] = [start |-> starts + 1, parent |-> above, program |-> g]]
          /\ named' = [named EXCEPT ![p] = [a \in AppsNamed |-> IF a = NamedApp(g.cmdline) THEN clock ELSE -TTL]]
    BY <1>1 DEF Spawn
  <2>2. starts' = starts + 1 /\ ~Alive(p) /\ UNCHANGED <<cache, walk, clock>>
    BY <1>1 DEF Spawn, LookupStill
  <2>3. [start |-> starts + 1, parent |-> above, program |-> g] \in Process
    <3>1. starts + 1 \in Nat /\ above \in Nat
      BY <1>0, <1>g
    <3> QED
      BY <3>1 DEF Process
  <2>4. NamedApp(g.cmdline) \in AppsNamed
    BY NamedIsKnown
  <2>5. ProcessTypes'
    <3>1. proc' \in [Pids -> Process]
      BY <1>0, <2>1, <2>3
    <3>2. named' \in [Pids -> [AppsNamed -> Int]]
      <4>1. clock \in Int /\ -TTL \in Int
        BY <1>e, <1>g
      <4> QED
        BY <1>0, <2>1, <4>1
    <3>3. \A q \in Pids : proc'[q].start <= starts'
      BY <1>0, <2>1, <2>2
    <3> QED
      BY <1>0, <1>c, <2>2, <3>1, <3>2, <3>3 DEF ProcessTypes
  <2>6. NamedNow'
    <3>1. ASSUME NEW q \in Pids, q # p PROVE named'[q] = named[q] /\ proc'[q] = proc[q]
      BY <1>0, <2>1, <3>1
    <3>2. proc'[p].program = g /\ named'[p] = [a \in AppsNamed |-> IF a = NamedApp(g.cmdline) THEN clock ELSE -TTL]
      BY <1>0, <2>1
    <3>3. ASSUME NEW q \in Pids, NEW a \in AppsNamed PROVE named'[q][a] <= clock
      <4>1. named[q][a] <= clock /\ -TTL <= clock
        <5>1. clock \in Nat /\ TTL \in Nat
          BY <1>0, <1>g
        <5> QED
          BY <1>f, <5>1
      <4>2. CASE q # p
        BY <3>1, <4>1, <4>2
      <4>3. CASE q = p
        <5>1. named'[q][a] = clock \/ named'[q][a] = -TTL
          BY <3>2, <4>3
        <5> QED
          BY <1>e, <4>1, <5>1
      <4> QED
        BY <4>2, <4>3
    <3>4. ASSUME NEW q \in Pids, Alive(q)' PROVE named'[q][NamedApp(proc'[q].program.cmdline)] = clock
      <4>1. CASE q # p
        BY <1>0, <3>1, <3>4, <4>1 DEF Alive
      <4>2. CASE q = p
        BY <2>4, <3>2, <4>2
      <4> QED
        BY <4>1, <4>2
    <3> QED
      BY <2>2, <3>3, <3>4 DEF NamedNow
  <2>7. EntriesNamed' /\ ReadNamed'
    <3>1. ASSUME NEW q \in Pids, Alive(q)', q # p
          PROVE  Alive(q) /\ proc'[q].start = proc[q].start /\ named'[q] = named[q]
      BY <1>0, <2>1, <3>1 DEF Alive
    <3>2. proc'[p].start > starts /\ proc'[p].start \in Nat
      BY <1>0, <2>1
    <3>3. \A q \in Pids, a \in AppsNamed : named[q][a] \in Int /\ named[q][a] <= named[q][a]
      BY <1>0
    <3> QED
      BY <1>0, <2>2, <3>1, <3>2, <3>3, EntriesKept
  <2> QED
    BY <2>5, <2>6, <2>7 DEF CacheInv
<1>2. ASSUME NEW p \in Pids, Exec(p) PROVE CacheInv'
  <2>1. PICK g \in Programs :
          /\ proc' = [proc EXCEPT ![p].program = g]
          /\ named' = [named EXCEPT ![p][NamedApp(g.cmdline)] = clock]
    BY <1>2 DEF Exec
  <2>2. Alive(p) /\ UNCHANGED <<starts, cache, walk, clock>>
    BY <1>2 DEF Exec, LookupStill
  <2>3. NamedApp(g.cmdline) \in AppsNamed
    BY NamedIsKnown
  <2>4. /\ proc' \in [Pids -> Process]
        /\ \A q \in Pids : proc'[q].start = proc[q].start /\ (q # p => proc'[q] = proc[q])
        /\ proc'[p].program = g
    BY <1>0, <2>1 DEF Process
  <2>5. /\ named' \in [Pids -> [AppsNamed -> Int]]
        /\ \A q \in Pids, a \in AppsNamed :
             named'[q][a] = IF q = p /\ a = NamedApp(g.cmdline) THEN clock ELSE named[q][a]
    BY <1>0, <2>1, <2>3
  <2>6. ProcessTypes'
    BY <1>0, <1>c, <2>2, <2>4, <2>5 DEF ProcessTypes
  <2>7. NamedNow'
    <3>1. ASSUME NEW q \in Pids, NEW a \in AppsNamed PROVE named'[q][a] <= clock
      <4>1. named[q][a] <= clock /\ clock <= clock
        BY <1>0
      <4>2. named'[q][a] = clock \/ named'[q][a] = named[q][a]
        BY <2>5
      <4> QED
        BY <4>1, <4>2
    <3>2. ASSUME NEW q \in Pids, Alive(q)' PROVE named'[q][NamedApp(proc'[q].program.cmdline)] = clock
      <4>1. Alive(q) /\ NamedApp(proc'[q].program.cmdline) \in AppsNamed
        BY <1>0, <2>2, <2>3, <2>4, <3>2, NamedIsKnown DEF Alive
      <4>2. CASE q = p
        BY <2>4, <2>5, <4>1, <4>2
      <4>3. CASE q # p
        <5>1. proc'[q] = proc[q] /\ named'[q][NamedApp(proc[q].program.cmdline)] = named[q][NamedApp(proc[q].program.cmdline)]
          BY <2>4, <2>5, <4>1, <4>3
        <5> QED
          BY <1>0, <4>1, <5>1
      <4> QED
        BY <4>2, <4>3
    <3> QED
      BY <2>2, <3>1, <3>2 DEF NamedNow
  <2>8. EntriesNamed' /\ ReadNamed'
    <3>1. ASSUME NEW q \in Pids, Alive(q)' PROVE Alive(q) /\ proc'[q].start = proc[q].start
      BY <2>4, <3>1 DEF Alive
    <3>2. ASSUME NEW q \in Pids, NEW a \in AppsNamed
          PROVE  named'[q][a] \in Int /\ named[q][a] <= named'[q][a]
      <4>1. named[q][a] <= clock /\ named[q][a] \in Int /\ clock \in Int
        BY <1>e, <1>f
      <4>2. named'[q][a] = clock \/ named'[q][a] = named[q][a]
        BY <2>5
      <4> QED
        BY <4>1, <4>2
    <3> QED
      BY <1>0, <2>2, <3>1, <3>2, EntriesKept
  <2> QED
    BY <2>6, <2>7, <2>8 DEF CacheInv
<1>3. ASSUME NEW p \in Pids, Exit(p) PROVE CacheInv'
  <2>1. /\ proc' = [q \in Pids |-> IF q = p THEN Gone
                             ELSE IF proc[q].parent = p THEN [proc[q] EXCEPT !.parent = 1] ELSE proc[q]]
        /\ UNCHANGED <<starts, clock, named, cache, walk>>
    BY <1>3 DEF Exit, LookupStill
  <2>2. /\ proc' \in [Pids -> Process] /\ proc'[p] = Gone
        /\ \A q \in Pids : q # p => proc'[q].start = proc[q].start /\ proc'[q].program = proc[q].program
    BY <1>0, <2>1 DEF Process, Gone
  <2>3. proc'[p].start = 0
    BY <2>2 DEF Gone
  <2>4. ASSUME NEW q \in Pids, Alive(q)'
        PROVE  Alive(q) /\ proc'[q].start = proc[q].start /\ proc'[q].program = proc[q].program
    BY <2>2, <2>3, <2>4 DEF Alive
  <2>5. ProcessTypes'
    BY <1>0, <1>c, <2>1, <2>2, <2>3 DEF ProcessTypes
  <2>6. NamedNow'
    BY <1>0, <2>1, <2>4 DEF NamedNow
  <2>7. EntriesNamed' /\ ReadNamed'
    <3>1. \A q \in Pids, a \in AppsNamed : named'[q][a] \in Int /\ named[q][a] <= named'[q][a]
      BY <1>0, <2>1
    <3> QED
      BY <1>0, <2>1, <2>4, <3>1, EntriesKept
  <2> QED
    BY <2>5, <2>6, <2>7 DEF CacheInv
<1>4. CASE Second
  <2>1. /\ named' = [p \in Pids |-> IF Alive(p) THEN [named[p] EXCEPT ![NamedApp(proc[p].program.cmdline)] = clock + 1]
                                    ELSE named[p]]
        /\ clock' = clock + 1 /\ UNCHANGED <<proc, starts, cache, walk>>
    BY <1>4 DEF Second, LookupStill
  <2>2. \A p \in Pids : NamedApp(proc[p].program.cmdline) \in AppsNamed
    BY <1>0, NamedIsKnown
  <2>3. /\ named' \in [Pids -> [AppsNamed -> Int]]
        /\ \A p \in Pids, a \in AppsNamed :
             named'[p][a] = IF Alive(p) /\ a = NamedApp(proc[p].program.cmdline) THEN clock + 1 ELSE named[p][a]
    <3>1. clock + 1 \in Int
      BY <1>0
    <3>2. ASSUME NEW p \in Pids
          PROVE  /\ named'[p] \in [AppsNamed -> Int]
                 /\ \A a \in AppsNamed : named'[p][a] =
                      IF Alive(p) /\ a = NamedApp(proc[p].program.cmdline) THEN clock + 1 ELSE named[p][a]
      <4>1. named[p] \in [AppsNamed -> Int] /\ NamedApp(proc[p].program.cmdline) \in AppsNamed
        BY <1>0, <2>2
      <4>2. named'[p] = IF Alive(p) THEN [named[p] EXCEPT ![NamedApp(proc[p].program.cmdline)] = clock + 1]
                        ELSE named[p]
        BY <2>1
      <4> QED
        BY <3>1, <4>1, <4>2
    <3>3. DOMAIN named' = Pids /\ named' = [p \in Pids |-> named'[p]]
      BY <2>1
    <3> QED
      BY <3>2, <3>3
  <2>4. ProcessTypes'
    <3>1. clock' \in Nat
      BY <1>0, <2>1
    <3> QED
      BY <1>0, <1>c, <2>1, <2>3, <3>1 DEF ProcessTypes
  <2>5. \A p \in Pids : Alive(p)' <=> Alive(p)
    BY <2>1 DEF Alive
  <2>6. NamedNow'
    BY <1>0, <2>1, <2>2, <2>3, <2>5 DEF NamedNow
  <2>7. EntriesNamed' /\ ReadNamed'
    <3>1. ASSUME NEW q \in Pids, NEW a \in AppsNamed
          PROVE  named'[q][a] \in Int /\ named[q][a] <= named'[q][a]
      <4>1. named[q][a] <= clock /\ named[q][a] \in Int /\ clock \in Int
        BY <1>e, <1>f
      <4>2. named'[q][a] = clock + 1 \/ named'[q][a] = named[q][a]
        BY <2>3
      <4> QED
        BY <4>1, <4>2
    <3> QED
      BY <1>0, <2>1, <2>5, <3>1, EntriesKept
  <2> QED
    BY <2>4, <2>6, <2>7 DEF CacheInv
<1>5. ASSUME NEW p \in Pids, Lookup(p) PROVE CacheInv'
  BY <1>g, <1>5, WalkStep
<1>6. CASE ReadStat \/ ReadStart \/ CacheLookup \/ ReadCmdline \/ ReadStartAgain \/ CacheInsert
  BY <1>6, WalkStep
<1>7. CASE UNCHANGED appIdVars
  <2>1. ReadNamed'
    BY <1>7 DEF CacheInv, appIdVars, ReadNamed, OfStarted, Key, Alive
  <2> QED
    BY <1>c, <1>7, <2>1, WalkKept DEF appIdVars, ProcessesStill
<1> QED
  BY <1>1, <1>2, <1>3, <1>4, <1>5, <1>6, <1>7 DEF AppIdNext

\* Unless a process number changed hands between the read of a command line and the
\* start time that keys the entry, a hit of the cache is an app that this very process
\* named less than the TTL ago, counted from that read, however processes start, exec,
\* exit and reuse numbers between the steps of the walk, for any programs and command
\* lines (cache_get, cache_set, scan_cmdline_for_app_id).
THEOREM HitsAlwaysRecent == AppIdSpec => []HitsRecent
<1>1. AppIdInit => CacheInv
  <2> SUFFICES ASSUME AppIdInit PROVE CacheInv
    OBVIOUS
  <2> USE AppIdAssumption DEF AppIdAssumption
  <2>1. PICK above \in {0, 1} :
          proc = [p \in Pids |-> IF p = 1 THEN [Gone EXCEPT !.start = 1, !.parent = above] ELSE Gone]
    BY DEF AppIdInit
  <2>2. \A p \in Pids : proc[p] \in Process /\ proc[p].program = Shell /\ proc[p].start = IF p = 1 THEN 1 ELSE 0
    <3>1. Gone = [start |-> 0, parent |-> 0, program |-> Shell] /\ Gone \in Process
      BY DEF Gone, Process
    <3>2. ASSUME NEW p \in Pids, p # 1 PROVE proc[p] = Gone
      BY <2>1, <3>2
    <3>3. proc[1] = [start |-> 1, parent |-> above, program |-> Shell]
      BY <2>1, <3>1
    <3>4. proc[1] \in Process /\ proc[1].program = Shell /\ proc[1].start = 1
      BY <3>3 DEF Process
    <3> QED
      BY <3>1, <3>2, <3>4
  <2>3. NamedApp(Shell.cmdline) = 0 /\ 0 \in AppsNamed
    BY DEF NamedApp, Shell, AppsNamed
  <2>4. starts = 1 /\ clock = 0 /\ cache = <<>> /\ walk = NoWalk
    BY DEF AppIdInit
  <2>5. named = [p \in Pids |-> [a \in AppsNamed |-> IF p = 1 /\ a = 0 THEN 0 ELSE -TTL]]
    BY DEF AppIdInit
  <2>6. ProcessTypes
    <3>1. walk \in Walks
      BY <2>3, <2>4 DEF NoWalk, Walks
    <3> QED
      BY <2>1, <2>2, <2>4, <2>5, <3>1 DEF ProcessTypes
  <2>7. NamedNow
    BY <2>2, <2>3, <2>4, <2>5 DEF NamedNow, Alive
  <2>8. EntriesNamed /\ ReadNamed
    BY <2>4 DEF EntriesNamed, ReadNamed, NoWalk
  <2> QED
    BY <2>6, <2>7, <2>8 DEF CacheInv
<1>2. CacheInv => HitsRecent
  <2> DEFINE entry(p) == cache[HitKey(p)]
  <2> SUFFICES ASSUME CacheInv, NEW p \in Pids, Hit(p), ~entry(p).mixed
               PROVE  clock - named[p][entry(p).app] < TTL + (entry(p).time - entry(p).read)
    BY DEF HitsRecent
  <2>1. Alive(p) /\ HitKey(p) \in DOMAIN cache /\ clock - entry(p).time < TTL
    BY DEF Hit, cache_get
  <2>2. entry(p) \in Entry /\ entry(p).read <= named[p][entry(p).app]
    BY <2>1 DEF CacheInv, EntriesNamed, EntryNamed
  <2> HIDE DEF entry
  <2>3. entry(p).time \in Nat /\ entry(p).read \in Nat /\ entry(p).app \in AppsNamed
    BY <2>2 DEF Entry
  <2>4. named[p][entry(p).app] \in Int /\ clock \in Nat
    BY <2>3 DEF CacheInv, ProcessTypes
  <2> QED
    BY <2>1, <2>2, <2>3, <2>4, AppIdAssumption DEF AppIdAssumption
<1> QED
  BY <1>1, <1>2, CacheStep, PTL DEF AppIdSpec

=============================================================================
