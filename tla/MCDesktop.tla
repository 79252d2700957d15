----------------------------- MODULE MCDesktop -----------------------------
(***************************************************************************)
(* The parts of the compositor and of the input it gets that share no      *)
(* state in the models: the menus of native windows, the colours of        *)
(* surfaces, the pen, the gamepads, and the frames that go to the encoder. *)
(* A behaviour is one of a part that is chosen at the start, and leaves    *)
(* the other parts alone.                                                  *)
(***************************************************************************)
EXTENDS Seat, ColorManagement, Gamepads, FrameExchange, TLC

VARIABLE part

\* A menu of a native window, and one that is opened from it or by another window.
MCParents == "menu" :> {"one"} @@ "sub" :> {"menu", "two"}

\* Holds of Back without a rumble pulse, and with one while Home is suppressed.
MCConfigs == {[hold |-> 2, pulse |-> 0, suppress |-> FALSE],
              [hold |-> 2, pulse |-> 1, suppress |-> TRUE]}

DesktopInit ==
  /\ part \in {"menus", "colours", "pen", "gamepads", "frames"}
  /\ PopupsInit /\ ColorInit /\ PenInit /\ Init
  /\ PadInit /\ (part = "gamepads" \/ config = CHOOSE c \in Configs : TRUE)

MenusPart ==
  /\ part = "menus" /\ PopupsNext
  /\ UNCHANGED <<part, colorVars, penVars, padVars, vars>>

ColoursPart ==
  /\ part = "colours" /\ ColorNext
  /\ UNCHANGED <<part, popupVars, penVars, padVars, vars>>

PenPart ==
  /\ part = "pen" /\ PenNext
  /\ UNCHANGED <<part, popupVars, colorVars, padVars, vars>>

GamepadsPart ==
  /\ part = "gamepads" /\ PadNext
  /\ UNCHANGED <<part, popupVars, colorVars, penVars, vars>>

FramesPart ==
  /\ part = "frames" /\ Next
  /\ UNCHANGED <<part, popupVars, colorVars, penVars, padVars>>

DesktopNext ==
  \/ MenusPart \/ ColoursPart \/ PenPart \/ GamepadsPart \/ FramesPart

desktopVars == <<part, popupVars, colorVars, penVars, padVars, vars>>

DesktopSpec == DesktopInit /\ [][DesktopNext]_desktopVars
=============================================================================
