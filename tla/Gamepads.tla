------------------------------- MODULE Gamepads ------------------------------
(***************************************************************************)
(* The gamepad handler of a session: the slots of the client's gamepads,   *)
(* the hold-to-Home remap of each, the rumble pulse that confirms it, and  *)
(* the timer task that wakes up for their deadlines.  Handler and timer    *)
(* share one thread and a mutex that neither holds across an await.        *)
(* Deadlines are kept as the ticks that are left to them.                  *)
(***************************************************************************)
EXTENDS Integers, FiniteSets

CONSTANTS
  Pads,      \* gamepad indices: 0 .. 15 in the code
  TapTicks,  \* TAP_DURATION
  Configs    \* the home_button settings to check: [hold, pulse, suppress]

Never == -1
Settings == [hold : Nat, pulse : Nat, suppress : BOOLEAN]

ASSUME GamepadsAssumption ==
  TapTicks \in Nat \ {0} /\ Configs \subseteq Settings

VARIABLES
  config,  \* GamepadConfig
  slot,    \* the slots: a record, or NoSlot
  timer,   \* the timer task: "scan" or "wait", "ended" with the handler
  armed,   \* ticks until the timer's sleep ends, Never for pending()
  woken    \* timer_wake holds a permit

padVars == <<config, slot, timer, armed, woken>>

Buttons == {"back", "home", "other"}
NoSlot == [state |-> "none"]

\* A slot as it is created: remap, rumble deadline and the device's buttons.
NewSlot ==
  [state |-> "inactive", left |-> Never, source |-> FALSE, pass |-> {},
   off |-> Never, pressed |-> {}]

States == {"inactive", "pending", "home", "tapping"}
Ticks == {Never} \cup Nat
SlotStates == [state : States, left : Ticks, source : BOOLEAN, pass : SUBSET Buttons,
          off : Ticks, pressed : SUBSET Buttons]

Connected(p) == slot[p] # NoSlot

PadTypeOK ==
  /\ config \in Configs
  /\ slot \in [Pads -> SlotStates \cup {NoSlot}]
  /\ \A p \in Pads : Connected(p) =>
       (slot[p].state \in {"pending", "tapping"}) = (slot[p].left # Never)
  /\ timer \in {"scan", "wait", "ended"} /\ armed \in Ticks
  /\ woken \in BOOLEAN

PadInit ==
  /\ config \in Configs
  /\ slot = [p \in Pads |-> NoSlot]
  /\ timer = "scan" /\ armed = Never /\ woken = FALSE

-----------------------------------------------------------------------------
(* HoldToHome, for a slot s.                                               *)

Passthrough(fs) ==
  fs \ ({"back"} \cup IF config.suppress THEN {"home"} ELSE {})

\* The slot in state st with its buttons: the passthrough and what st adds.
Emits(s, st, left) ==
  [s EXCEPT !.state = st, !.left = left,
            !.pressed = s.pass \cup (CASE st = "home" -> {"home"}
                                       [] st = "tapping" -> {"back"}
                                       [] OTHER -> {})]

\* apply(): the buttons fs arrive.
apply(s0, fs) ==
  LET source == "back" \in fs
      s == [s0 EXCEPT !.source = source, !.pass = Passthrough(fs)]
  IN IF config.hold = 0 THEN [s0 EXCEPT !.pressed = fs]
     ELSE CASE s.state = "inactive" /\ source  -> Emits(s, "pending", config.hold)
            [] s.state = "inactive" /\ ~source -> Emits(s, "inactive", Never)
            [] s.state = "pending" /\ ~source  -> Emits(s, "tapping", TapTicks)
            [] s.state = "pending" /\ source   ->
                 IF s.left = 0 THEN Emits(s, "home", Never) ELSE Emits(s, "pending", s.left)
            [] s.state = "home"                ->
                 Emits(s, IF source THEN "home" ELSE "inactive", Never)
            [] s.state = "tapping"             ->
                 IF s.left = 0 THEN Emits(s, "inactive", Never) ELSE Emits(s, "tapping", s.left)

Silent(s) == [s EXCEPT !.pressed = {}]

\* advance(): a deadline of the slot has passed, this one or the rumble's.
advance(s) ==
  CASE config.hold = 0 -> Silent(s)
    [] config.hold > 0 /\ s.state = "pending" ->
         IF s.left = 0 /\ s.source THEN Emits(s, "home", Never) ELSE Silent(s)
    [] config.hold > 0 /\ s.state = "tapping" ->
         IF s.left = 0 THEN Emits(s, "inactive", Never) ELSE Emits(s, "tapping", s.left)
    [] OTHER -> Silent(s)

\* check_rumble() ends a pulse that is due.
check_rumble(s) == IF s.off = 0 THEN [s EXCEPT !.off = Never] ELSE s

\* maybe_fire_rumble(): the step from s to t activated Home.
maybe_fire_rumble(s, t) ==
  IF s.state # "home" /\ t.state = "home" /\ t.off = Never /\ config.pulse > 0
  THEN [t EXCEPT !.off = config.pulse] ELSE t

apply_buttons(s, fs) == maybe_fire_rumble(s, check_rumble(apply(s, fs)))
advance_slot(s) == maybe_fire_rumble(s, advance(check_rumble(s)))

\* next_deadline(), over the slots ss.
Deadlines(ss) == ({s.left : s \in ss} \cup {s.off : s \in ss}) \ {Never}
next_deadline(ss) ==
  IF Deadlines(ss) = {} THEN Never
  ELSE CHOOSE d \in Deadlines(ss) : \A e \in Deadlines(ss) : d <= e

Live == {slot[p] : p \in {q \in Pads : Connected(q)}}

-----------------------------------------------------------------------------
(* The gamepad handler.                                                    *)

Handles == timer # "ended"

\* A gamepad arrives; a device that cannot be created leaves its slot empty.
GamepadInfo(p) ==
  /\ Handles /\ ~Connected(p)
  /\ slot' = [slot EXCEPT ![p] = NewSlot]
  /\ UNCHANGED <<config, timer, armed, woken>>

\* Mutant: the timer task is not woken for the new deadline.
GamepadUpdateSilently(p, fs, mask) ==
  /\ Handles
  /\ slot' = [q \in Pads |-> IF q \notin mask \/ slot[q] = NoSlot THEN NoSlot
                             ELSE IF q = p THEN apply_buttons(slot[q], fs) ELSE slot[q]]
  /\ UNCHANGED <<config, timer, armed, woken>>

\* An update creates the slot of an active gamepad that never arrived, applies
\* the buttons, and then drops every gamepad that is not in its mask.
GamepadUpdate(p, fs, mask) ==
  /\ Handles
  /\ \E base \in {slot[p]} \cup IF ~Connected(p) /\ p \in mask THEN {NewSlot} ELSE {} :
       LET updated == IF base = NoSlot THEN NoSlot ELSE apply_buttons(base, fs)
           kept(q) == IF q = p THEN updated ELSE slot[q]
       IN /\ slot' = [q \in Pads |-> IF q \in mask THEN kept(q) ELSE NoSlot]
          /\ woken' = (woken \/ base # NoSlot)
  /\ UNCHANGED <<config, timer, armed>>

\* The session stops: the handler ends, and with its thread the timer task.
GamepadHandlerStops ==
  /\ Handles
  /\ timer' = "ended"
  /\ slot' = [p \in Pads |-> NoSlot]
  /\ armed' = Never /\ woken' = FALSE
  /\ UNCHANGED config

-----------------------------------------------------------------------------
(* The timer task.                                                         *)

TimerScans ==
  /\ timer = "scan"
  /\ armed' = next_deadline(Live)
  /\ timer' = "wait"
  /\ UNCHANGED <<config, slot, woken>>

Due(s) == next_deadline({s}) = 0

\* The sleep is over or the handler woke the task: the slots that are due advance.
TimerWakes ==
  /\ timer = "wait"
  /\ \/ armed = 0 /\ woken' = woken
     \/ woken /\ woken' = FALSE
  /\ slot' = [p \in Pads |-> IF Connected(p) /\ Due(slot[p]) THEN advance_slot(slot[p])
                             ELSE slot[p]]
  /\ timer' = "scan"
  /\ UNCHANGED <<config, armed>>

Passes(d) == IF d > 0 THEN d - 1 ELSE d

\* Time passes, also when the timer task is late.
TimePasses ==
  /\ Handles
  /\ slot' = [p \in Pads |->
       IF Connected(p) THEN [slot[p] EXCEPT !.left = Passes(@), !.off = Passes(@)]
       ELSE NoSlot]
  /\ armed' = Passes(armed)
  /\ UNCHANGED <<config, timer, woken>>

-----------------------------------------------------------------------------
PadNext ==
  \/ TimerScans \/ TimerWakes \/ TimePasses \/ GamepadHandlerStops
  \/ \E p \in Pads : \/ GamepadInfo(p)
                     \/ \E fs \in SUBSET Buttons, mask \in SUBSET Pads :
                          GamepadUpdate(p, fs, mask)

PadSpec == PadInit /\ [][PadNext]_padVars

-----------------------------------------------------------------------------
\* No deadline is slept through: whatever the order of updates, scans and sleeps, a
\* timer task that waits will wake at the first hold, tap or pulse that is due, or
\* holds the permit of the update that changed it (timer_wake, next_deadline).
DeadlinesMet ==
  timer = "wait" /\ ~woken => \A d \in Deadlines(Live) : armed # Never /\ armed <= d
=============================================================================
