-------------------------------- MODULE Seat ---------------------------------
(***************************************************************************)
(* What the seat holds down for its clients: the grab of the menus, and    *)
(* the pen.  Both are driven by the same input, but by handlers of their   *)
(* own that share no state.                                                *)
(***************************************************************************)
EXTENDS Popups, Pen

SeatSpec == PopupsSpec /\ PenSpec

-----------------------------------------------------------------------------
\* No device of the seat is left in the middle of something: the grab of keyboard,
\* pointer and touch ends together with the menus it was for, which are the focused
\* window's (reconcile_popup_grab), and a pen tool that is not in use is over no surface,
\* with its tip up and, except for one it left with a button held, no surface told of a
\* button that is up (release_pen).
SeatReleased == GrabConsistent /\ PenReleased
=============================================================================
