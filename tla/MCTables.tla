------------------------------ MODULE MCTables ------------------------------
(***************************************************************************)
(* The tables that say who is who at the host: windows and their focus,    *)
(* processes and their app ids, paired clients and their certificates.     *)
(* They share no state.  A behaviour is one of a table that is chosen at   *)
(* the start, and leaves the others alone.                                 *)
(***************************************************************************)
EXTENDS Focus, MCAppId, Pairing, TLC

VARIABLE part

\* A game whose process may be unknown at first, a menu with and without a parent, and
\* an overlay that takes the input and may be a menu of the game's at once.
MCWindow == [or |-> FALSE, app |-> 0, parent |-> NoWindow, type |-> "normal",
             disabled |-> FALSE, size |-> "wide", overlay |-> FALSE, mode |-> 0,
             opacity |-> 255, special |-> "none"]
MCMenu == [MCWindow EXCEPT !.or = TRUE, !.app = 5, !.size = "small"]
MCProps ==
  "game" :> {MCWindow, [MCWindow EXCEPT !.app = 5]}
  @@ "menu" :> {MCMenu, [MCMenu EXCEPT !.parent = "game"]}
  @@ "overlay" :> {[MCWindow EXCEPT !.overlay = TRUE, !.mode = 1],
                   [MCMenu EXCEPT !.overlay = TRUE, !.mode = 1, !.size = "wide", !.parent = "game"]}
MCControls == {[window |-> NoWindow, apps |-> {}], [window |-> NoWindow, apps |-> {7}]}

\* All devices have the same id.
MCIdOf == [d \in Device |-> CHOOSE i \in Id : TRUE]

\* The devices are alike and none is named in a property: it does not matter whose
\* the first round is.
FirstDevice == CHOOSE d \in Device : TRUE

TablesInit ==
  /\ part \in {"windows", "apps", "pairing"}
  /\ FocusInit
  /\ (x11 /\ part = "windows") \/ control = CHOOSE c \in Controls : TRUE
  /\ x11 \/ part = "windows"
  /\ AppIdInit /\ (part = "apps" \/ proc[1].parent = 0)
  /\ Init /\ device[1] = FirstDevice
  /\ part = "pairing" \/ \A r \in Round : device[r] = FirstDevice

WindowsPart == part = "windows" /\ FocusNext /\ UNCHANGED <<part, appIdVars, vars>>
AppsPart == part = "apps" /\ AppIdNext /\ UNCHANGED <<part, focusVars, vars>>
PairingPart == part = "pairing" /\ Next /\ UNCHANGED <<part, focusVars, appIdVars>>

TablesNext == WindowsPart \/ AppsPart \/ PairingPart

TablesSpec == TablesInit /\ [][TablesNext]_<<part, focusVars, appIdVars, vars>>
=============================================================================
