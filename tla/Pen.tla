--------------------------------- MODULE Pen ---------------------------------
(***************************************************************************)
(* The drawing pen of the compositor's seat (session/compositor/input.rs). *)
(* A Moonlight pen event names its kind, its tool (pen or eraser) and the  *)
(* buttons held on it; the seat has one tablet tool for each kind of tool, *)
(* created when it is first used.  A tool tells what happens to the surface *)
(* below it, its focus, and to no other; the code remembers the buttons    *)
(* for all of them.  The client may change tools without lifting the first,*)
(* move between surfaces or off all of them with buttons held, and leave.  *)
(*                                                                         *)
(* Smithay's tablet tool is external and taken from how it is used here:   *)
(* motion() with another focus leaves the old surface (tip up, out of      *)
(* proximity, but no button) and enters the new one.                       *)
(***************************************************************************)
EXTENDS Naturals

CONSTANTS Tools,          \* the values of tool_kind a client sends
          StylusButtons,  \* the buttons of a pen: BTN_STYLUS, BTN_STYLUS2, BTN_STYLUS3
          Canvases        \* the surfaces the pen may be over

NoTool == "none"
Nowhere == "nowhere"  \* where find_surface_at() finds no surface

ASSUME PenAssumption == NoTool \notin Tools /\ Nowhere \notin Canvases

VARIABLES active,       \* active_pen_tool_kind, or NoTool
          buttons,      \* pen_buttons
          tool          \* by kind: the tablet tool of the seat, once it is added

penVars == <<active, buttons, tool>>

\* TabletSeatHandle::add_tool: a tool over no surface, that has told nobody of a
\* button.  "left" is history: the surfaces it left while a button was held.
AddedTool == [focus |-> Nowhere, tip |-> FALSE, held |-> [s \in Canvases |-> {}], left |-> {}]

PenInit ==
  /\ active = NoTool
  /\ buttons = {}
  /\ tool = [k \in Tools |-> AddedTool]

-----------------------------------------------------------------------------
\* sync_pen_buttons: only the buttons that differ between the two masks are
\* told, and only to the surface below the tool.
sync_pen_buttons(t, old, new) ==
  IF t.focus = Nowhere THEN t ELSE [t EXCEPT !.held[t.focus] = (@ \ (old \ new)) \cup (new \ old)]

\* TabletTool::motion, proximity_in and proximity_out, while a mask of buttons is held.
Refocused(t, s, mask) ==
  IF s = t.focus THEN t
  ELSE [t EXCEPT !.focus = s, !.tip = FALSE,
                 !.left = IF mask = {} THEN @ ELSE @ \cup ({t.focus} \ {Nowhere})]

\* tip_up() and tip_down() are told to the surface below the tool.
Tipped(t, down) == [t EXCEPT !.tip = down /\ t.focus # Nowhere]

\* Mutant: the buttons are forgotten without telling the tool.
ReleasedUntold(tools) ==
  IF active = NoTool THEN tools
  ELSE [tools EXCEPT ![active] = Refocused(Tipped(@, FALSE), Nowhere, {})]

\* release_pen: tip up, buttons up and out of proximity, in that order, for the
\* tool that is active.
Released(tools) ==
  IF active = NoTool THEN tools
  ELSE [tools EXCEPT ![active] =
          Refocused(sync_pen_buttons(Tipped(@, FALSE), buttons, {}), Nowhere, {})]

\* CANCEL, HOVER_LEAVE and CANCEL_ALL.
PenLeaves ==
  /\ tool' = Released(tool)
  /\ active' = NoTool
  /\ buttons' = {}

\* BUTTON_ONLY: told to the tool that is active, dropped when there is none.
PenButtons(mask) ==
  /\ active # NoTool
  /\ tool' = [tool EXCEPT ![active] = sync_pen_buttons(@, buttons, mask)]
  /\ buttons' = mask
  /\ UNCHANGED active

\* The tool the event names takes over: another one that was active is released.
Switched(kind) ==
  IF active \notin {NoTool, kind}
    THEN [active |-> NoTool, buttons |-> {}, tool |-> Released(tool)]
    ELSE [active |-> active, buttons |-> buttons, tool |-> tool]

\* The tip a HOVER, DOWN, MOVE or UP leaves.
TipAfter(event, tip) == CASE event \in {"down", "move"} -> TRUE
                          [] event = "up" -> FALSE
                          [] OTHER -> tip

\* The rest of process_pen_input, over a surface or none.  The first event of a tool
\* that is over none ends after the switch; a later one moves the tool off.
PenEvent(event, kind, mask, over) ==
  LET was == Switched(kind) IN
  IF was.active = NoTool /\ over = Nowhere
    THEN active' = was.active /\ buttons' = was.buttons /\ tool' = was.tool
    ELSE /\ active' = kind
         /\ buttons' = mask
         /\ tool' = [was.tool EXCEPT ![kind] =
              LET moved == sync_pen_buttons(Refocused(@, over, was.buttons), was.buttons, mask)
              IN  Tipped(moved, TipAfter(event, moved.tip))]

PenNext ==
  \/ PenLeaves
  \/ \E mask \in SUBSET StylusButtons : PenButtons(mask)
  \/ \E event \in {"hover", "down", "move", "up"}, kind \in Tools,
        mask \in SUBSET StylusButtons, over \in Canvases \cup {Nowhere} : PenEvent(event, kind, mask, over)

PenSpec == PenInit /\ [][PenNext]_penVars

-----------------------------------------------------------------------------
\* process_pen_input and release_pen: whatever order the client's events come in, and
\* wherever the pen moves between them, a tool that is not the active one is over no
\* surface, a tool over no surface has its tip up, and a surface was told of no button
\* that is not held now on the tool above it.  Except, by motion() above, a surface
\* that the pen left while a button was held: nobody tells it of the release.
PenReleased ==
  \A k \in Tools :
    /\ k # active => tool[k].focus = Nowhere
    /\ tool[k].focus = Nowhere => ~tool[k].tip
    /\ \A s \in Canvases \ tool[k].left :
         tool[k].held[s] \subseteq IF s = tool[k].focus THEN buttons ELSE {}
=============================================================================
