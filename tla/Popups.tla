------------------------------- MODULE Popups -------------------------------
(***************************************************************************)
(* Native menus: the tree of xdg popups below each toplevel, the grab that *)
(* gives the keyboard, the pointer and touch to a stack of menus, which    *)
(* input may open one, and how all of it ends when a menu, its window or   *)
(* the focus goes.  Every toplevel is a client of its own.  The requests   *)
(* of a client are dispatched in a batch, after which refresh_popups()     *)
(* runs; input events come between the batches.                            *)
(*                                                                         *)
(* Smithay's popup tree, its stack of grabs and its seat are external and  *)
(* taken from how they are used here.                                      *)
(***************************************************************************)
EXTENDS Integers, FiniteSets, Sequences, SequencesExt, Lists

CONSTANTS
  Roots,      \* native toplevels, each of a client of its own
  Menus,      \* popups
  ParentsOf,  \* where each popup may be opened: toplevels and popups
  Slots,      \* touch slots
  CAPACITY,   \* of InputSerials
  MaxSerial  \* bound: serials of input actions

NoSurface == "none"
Void == "void"  \* where there is no surface
Devices == {"keyboard", "pointer", "touch"}

ASSUME PopupsAssumption ==
  /\ IsFiniteSet(Menus) /\ Roots \cap Menus = {} /\ {NoSurface, Void} \cap (Roots \cup Menus) = {}
  /\ \A p \in Menus : ParentsOf[p] \subseteq (Roots \cup Menus) \ {p}
  /\ CAPACITY \in Nat \ {0} /\ MaxSerial \in Nat

VARIABLES
  alive,        \* surfaces whose resource exists
  parent,       \* what a popup was opened from
  unmapped,     \* popups without a buffer: get_parent_surface() is None
  root,         \* the toplevel a popup was opened below
  focused,      \* focused_window, as far as it is a native toplevel
  dispatching,  \* in a batch of client requests
  serial,       \* SERIAL_COUNTER
  serials,      \* input_serials
  seat          \* popup_grab, the popup tree and the seat

\* ActiveTouchContacts: the surface below each finger.
NoContacts == [c \in Slots |-> NoSurface]

popupVars == <<alive, parent, unmapped, root, focused, dispatching, serial, serials, seat>>

PopupsInit ==
  /\ alive = {} /\ unmapped = {} /\ focused = NoSurface /\ dispatching = FALSE
  /\ parent = [p \in Menus |-> NoSurface] /\ root = [p \in Menus |-> NoSurface]
  /\ serial = 0 /\ serials = <<>>
  /\ seat = [tracked |-> {},            \* popups of the tree
             owner |-> NoSurface,       \* popup_grab: its toplevel
             stack |-> <<>>,            \* and its popups, the topmost last
             grabbed |-> {},            \* devices whose grab is the popups'
             click |-> NoSurface,       \* start of the pointer's click grab
             down |-> NoSurface,        \* start of the touch down grab
             contacts |-> NoContacts,
             keyboard |-> NoSurface,    \* keyboard focus
             stranded |-> {}]           \* history: see Stranded

ClientOf(s) == IF s \in Menus THEN root[s] ELSE s

-----------------------------------------------------------------------------
(* Smithay.                                                                *)

\* p and the popups below it.
Subtree(p) ==
  LET below[n \in 0 .. Cardinality(Menus)] ==
        IF n = 0 THEN {p} ELSE below[n - 1] \cup {q \in Menus : parent[q] \in below[n - 1]}
  IN below[Cardinality(Menus)]

dismiss_popup(s, p) == [s EXCEPT !.tracked = @ \ Subtree(p)]

Living(seq) == Kept(seq, alive)
has_ended(s) == s.stack = <<>> \/ s.owner \notin alive
current_grab(s) == IF Living(s.stack) = <<>> THEN s.owner ELSE Last(Living(s.stack))

ungrab_all(s) == [s EXCEPT !.stack = <<>>, !.tracked = {p \in @ : root[p] # s.owner}]
ungrab_topmost(s) == [dismiss_popup(s, Last(s.stack)) EXCEPT !.stack = Front(@)]
cleanup(s) == [s EXCEPT !.tracked = @ \cap alive, !.stack = Living(@)]

-----------------------------------------------------------------------------
(* The grab.                                                               *)

\* Mutant: touch is not given back when the grab ends.
reconcile_but_touch(seat0) ==
  LET s == cleanup(seat0)
      focus == IF current_grab(s) \in alive THEN current_grab(s) ELSE NoSurface
  IN IF s.owner = NoSurface THEN s
     ELSE IF has_ended(s) THEN [s EXCEPT !.owner = NoSurface, !.stack = <<>>,
                                         !.grabbed = @ \cap {"touch"}, !.keyboard = focus]
     ELSE [s EXCEPT !.keyboard = focus]

reconcile_popup_grab(seat0) ==
  LET s == cleanup(seat0)
      focus == IF current_grab(s) \in alive THEN current_grab(s) ELSE NoSurface
  IN IF s.owner = NoSurface THEN s
     ELSE IF has_ended(s) THEN [s EXCEPT !.owner = NoSurface, !.stack = <<>>, !.grabbed = {}, !.keyboard = focus]
     ELSE [s EXCEPT !.keyboard = focus]

\* w is NoSurface when no window had the focus.
dismiss_popups_for_window(s, w) ==
  LET t == IF s.owner # NoSurface /\ w \in {NoSurface, s.owner} THEN ungrab_all(s) ELSE s
  IN reconcile_popup_grab([t EXCEPT !.tracked = {p \in @ : root[p] # w}])

\* Mutant: only the topmost grabbed popup takes the grab with it.
current_grab_is(s, p) == s.owner # NoSurface /\ ~has_ended(s) /\ current_grab(s) = p

\* current_grab_descends_from(): p is the topmost grabbed popup, or an ancestor.
current_grab_descends_from(s, p) ==
  LET q == current_grab(s)
      up[n \in 0 .. Cardinality(Menus)] ==
        IF n = 0 THEN q
        ELSE IF up[n - 1] \in s.tracked \ unmapped THEN parent[up[n - 1]] ELSE NoSurface
  IN s.owner # NoSurface /\ ~has_ended(s) /\ \E n \in DOMAIN up : up[n] = p

dismiss_popup_branch(s, p) ==
  LET pop[n \in 0 .. Len(s.stack)] ==
        IF n = 0 THEN s
        ELSE IF p \in ToSet(pop[n - 1].stack) THEN ungrab_topmost(pop[n - 1]) ELSE pop[n - 1]
  IN dismiss_popup(IF current_grab_descends_from(s, p) THEN pop[Len(s.stack)] ELSE s, p)

\* record() and contains() of InputSerials.
Record(seq, n, surface) ==
  IF surface \in {NoSurface, Void} THEN seq
  ELSE Append(IF Len(seq) = CAPACITY THEN Tail(seq) ELSE seq, <<n, ClientOf(surface)>>)

\* apply_focus(), and the end of reevaluate_focus() without candidates.
MoveFocus(s, r) ==
  /\ focused' = r
  /\ seat' = IF r = focused THEN s ELSE [dismiss_popups_for_window(s, focused) EXCEPT !.keyboard = r]
  /\ serials' = IF r = focused THEN serials ELSE <<>>

\* commit() of a toplevel without a buffer, or toplevel_destroyed(): r loses its
\* popups and the focus, and the client what is gone with it.
Leave(r, gone) ==
  LET s == dismiss_popups_for_window(seat, r)
  IN /\ alive' = alive \ gone
     /\ \E f \in IF focused = r THEN ((Roots \cap alive) \ {r}) \cup {NoSurface} ELSE {focused} : MoveFocus(s, f)

Belongings(r) == {s \in alive : ClientOf(s) = r}

-----------------------------------------------------------------------------
(* Requests of clients.                                                    *)

Dispatched == dispatching' = TRUE /\ UNCHANGED serial
InputStill == UNCHANGED <<focused, serials>>

\* new_popup(): below a popup that is no longer in the tree it is not tracked.
NewPopup(p, q) ==
  /\ p \notin alive /\ q \in (ParentsOf[p] \cap alive) \ unmapped
  /\ p \notin seat.tracked \cup ToSet(seat.stack) /\ \A r \in Menus : parent[r] # p   \* a popup nobody knows yet
  /\ alive' = alive \cup {p} /\ UNCHANGED unmapped
  /\ parent' = [parent EXCEPT ![p] = q]
  /\ root' = [root EXCEPT ![p] = ClientOf(q)]
  /\ seat' = [seat EXCEPT !.tracked = IF q \in Roots \cup @ THEN @ \cup {p} ELSE @,
                          !.stranded = @ \ {p}]
  /\ Dispatched /\ InputStill

\* The click or the touch that a grab may take over was on a surface of the client.
NoForeignGrab(p) ==
  /\ "pointer" \in seat.grabbed \/ seat.click = NoSurface \/ ClientOf(seat.click) = root[p]
  /\ "touch" \in seat.grabbed \/ seat.down = NoSurface \/ ClientOf(seat.down) = root[p]

\* find_popup_root_surface()
Rooted(p) ==
  LET up[n \in 0 .. Cardinality(Menus)] ==
        IF n = 0 THEN p
        ELSE IF up[n - 1] \in unmapped THEN NoSurface
        ELSE IF up[n - 1] \in Menus THEN parent[up[n - 1]] ELSE up[n - 1]
  IN up[Cardinality(Menus)] \in Roots \cap alive

\* grab_popup(): a popup asks for the grab once, before it is mapped.  A popup
\* that is not opened from the topmost one is a protocol error, the client's end.
GrabPopup(p) ==
  LET q == parent[p]
      current == IF seat.owner = NoSurface \/ has_ended(seat) THEN NoSurface ELSE current_grab(seat)
      taken == [seat EXCEPT !.owner = focused, !.stack = Append(Living(@), p), !.keyboard = p,
                            !.grabbed = Devices, !.click = NoSurface, !.down = NoSurface]
  IN /\ p \in alive /\ p \notin ToSet(seat.stack)
     /\ \E n \in 1 .. serial :
          \/ /\ ~Rooted(p) \/ p \notin seat.tracked
             /\ UNCHANGED <<alive, seat>> /\ InputStill
          \/ /\ Rooted(p) /\ p \in seat.tracked
             /\ \/ <<n, root[p]>> \notin ToSet(serials) \/ focused # root[p] \/ ~NoForeignGrab(p)
                \/ q \in Menus \ seat.tracked
             /\ seat' = dismiss_popup(seat, p) /\ UNCHANGED alive /\ InputStill
          \/ /\ Rooted(p) /\ p \in seat.tracked
             /\ <<n, root[p]>> \in ToSet(serials) /\ focused = root[p] /\ NoForeignGrab(p)
             /\ q \notin Menus \ seat.tracked
             /\ IF (current # NoSurface /\ current # q) \/ (q \in Menus /\ current = NoSurface)
                THEN Leave(root[p], Belongings(root[p]))
                ELSE seat' = taken /\ UNCHANGED alive /\ InputStill
     /\ Dispatched /\ UNCHANGED <<parent, root>> /\ unmapped' = unmapped \cap alive'

\* The client attaches a null buffer: the popup loses its parent.
UnmapPopup(p) ==
  /\ p \in (alive \cap Menus) \ unmapped
  /\ unmapped' = unmapped \cup {p}
  /\ Dispatched /\ InputStill /\ UNCHANGED <<alive, parent, root, seat>>

\* Only a popup without children may be destroyed.
DestroyPopup(p) ==
  /\ p \in alive /\ \A q \in Menus \cap alive : parent[q] # p
  /\ alive' = alive \ {p} /\ unmapped' = unmapped \ {p}
  /\ Dispatched /\ InputStill /\ UNCHANGED <<parent, root, seat>>

\* prune_touch_contacts(): a finger whose surface is gone is no longer tracked.
prune_touch_contacts(s) ==
  [s EXCEPT !.contacts = [c \in Slots |-> IF @[c] \in alive THEN @[c] ELSE NoSurface]]

\* History: the grabbed menus that were unmapped in a batch, or stand above one that
\* was, when a menu further above was unmapped in the same batch.  From an unmapped
\* menu current_grab_descends_from() finds no way down to what it was opened from.
Stranded ==
  LET live == Living(seat.stack)
  IN {live[k] : k \in {n \in DOMAIN live :
        \E i \in 1 .. n : \E j \in DOMAIN live : i < j /\ {live[i], live[j]} \subseteq unmapped}}

\* refresh_popups(), at the end of the batch.  Popups without a parent are
\* dismissed with what is above them, those below first: popups_for_surface()
\* begins with the topmost popup, and the list is walked backwards.
RefreshPopups ==
  /\ dispatching
  /\ dispatching' = FALSE
  /\ LET orphans == SetToSortSeq(seat.tracked \cap unmapped, LAMBDA p, q : q \in Subtree(p))
         done[n \in 0 .. Cardinality(Menus)] ==
           IF n = 0 THEN [prune_touch_contacts(seat) EXCEPT !.stranded = @ \cup Stranded]
           ELSE IF n \in DOMAIN orphans THEN dismiss_popup_branch(done[n - 1], orphans[n]) ELSE done[n - 1]
     IN seat' = reconcile_popup_grab(done[Cardinality(Menus)])
  /\ parent' = [p \in Menus |-> IF p \in alive THEN parent[p] ELSE NoSurface]
  /\ UNCHANGED <<alive, unmapped, root, focused, serial, serials>>

-----------------------------------------------------------------------------
(* Windows come and go: what reevaluate_focus() does about popups.         *)

NewRoot(r) ==
  /\ r \in Roots \ alive /\ \A p \in Menus \cap alive : root[p] # r
  /\ alive' = alive \cup {r}
  /\ \E f \in {focused, r} : MoveFocus(seat, f)
  /\ Dispatched /\ UNCHANGED <<parent, root>> /\ unmapped' = unmapped \cap alive'

FocusChanges ==
  /\ \E f \in (Roots \cap alive) \cup {NoSurface} : f # focused /\ MoveFocus(seat, f)
  /\ UNCHANGED <<alive, parent, unmapped, root, dispatching, serial>>

RootGoes(r) ==
  /\ r \in Roots \cap alive
  /\ \/ Leave(r, Belongings(r))
     \/ focused = r /\ Leave(r, {})
  /\ Dispatched /\ UNCHANGED <<parent, root>> /\ unmapped' = unmapped \cap alive'

-----------------------------------------------------------------------------
(* Input events: process_input().                                          *)

PopupsStill == UNCHANGED <<alive, parent, unmapped, root, focused, dispatching>>

\* What may be under the pointer or a finger.
Visible == (Roots \cap alive) \cup (seat.tracked \cap alive) \cup {Void}

\* The surface is of the client that has the grab.
Own(s, f) == f # Void /\ ClientOf(f) = s.owner

\* Every event begins and ends with reconcile_popup_grab().
Before == reconcile_popup_grab(seat)

\* An event that gets a serial, recorded for the client of a surface.
Press(surface, handled) ==
  /\ ~dispatching /\ serial < MaxSerial
  /\ serial' = serial + 1
  /\ serials' = Record(serials, serial + 1, surface)
  /\ seat' = reconcile_popup_grab(handled)
  /\ PopupsStill

KeyDown == Press(Before.keyboard, Before)

\* A press outside of the client's surfaces closes its menus.
MouseButtonDown(f) ==
  LET s == Before
      handled == IF "pointer" \in s.grabbed
                 THEN IF Own(s, f) THEN s
                      ELSE [ungrab_all(s) EXCEPT !.grabbed = @ \ {"pointer", "keyboard"}, !.click = f]
                 ELSE IF s.click = NoSurface THEN [s EXCEPT !.click = f] ELSE s
  IN Press(IF s.click # NoSurface THEN s.click ELSE f, handled)

\* So does a finger; its contact belongs to what is below.
TouchDown(slot, f) ==
  LET s == Before
      at == IF s.down # NoSurface THEN s.down ELSE f
      t == [s EXCEPT !.contacts[slot] = IF at \in alive THEN at ELSE NoSurface]
      handled == IF "touch" \notin s.grabbed THEN [t EXCEPT !.down = at]
                 ELSE IF Own(s, f) THEN t
                 ELSE [ungrab_all(t) EXCEPT !.grabbed = @ \ {"touch"}, !.down = at]
  IN seat.contacts[slot] = NoSurface /\ Press(at, handled)

Release(handled) ==
  /\ ~dispatching
  /\ seat' = reconcile_popup_grab(handled)
  /\ UNCHANGED <<serial, serials>> /\ PopupsStill

MouseButtonUp == seat.click # NoSurface /\ Release([Before EXCEPT !.click = NoSurface])

TouchUp(slot) ==
  LET t == [Before EXCEPT !.contacts[slot] = NoSurface]
  IN /\ seat.contacts[slot] # NoSurface
     /\ Release(IF t.contacts = NoContacts THEN [t EXCEPT !.down = NoSurface] ELSE t)

TouchCancelAll ==
  /\ seat.contacts # NoContacts
  /\ Release([Before EXCEPT !.contacts = NoContacts, !.down = NoSurface])

PopupsNext ==
  \/ \E p \in Menus :
       \/ \E q \in Roots \cup Menus : NewPopup(p, q)
       \/ GrabPopup(p) \/ UnmapPopup(p) \/ DestroyPopup(p)
  \/ RefreshPopups
  \/ \E r \in Roots : NewRoot(r) \/ RootGoes(r)
  \/ FocusChanges
  \/ KeyDown \/ MouseButtonUp \/ TouchCancelAll
  \/ \E f \in Visible : MouseButtonDown(f) \/ \E c \in Slots : TouchDown(c, f)
  \/ \E c \in Slots : TouchUp(c)

PopupsSpec == PopupsInit /\ [][PopupsNext]_popupVars

-----------------------------------------------------------------------------

\* The menus that hold the input are those of the focused window, and their clients
\* have not destroyed them (grab_popup, dismiss_popups_for_window).
GrabOfFocused ==
  seat.owner # NoSurface =>
    seat.owner = focused /\ seat.stack # <<>> /\ ToSet(seat.stack) \subseteq alive

\* Once the menus are gone, however they went, the keyboard is back with the
\* focused window; while there are any, it is with the topmost one
\* (reconcile_popup_grab, apply_focus).
KeyboardReturns ==
  seat.keyboard = IF seat.owner = NoSurface THEN focused ELSE Last(seat.stack)

\* The three devices get and lose the popups' grab together: no device is left
\* routing input to menus that are closed (PopupTouchGrab::down,
\* reconcile_popup_grab).
DevicesReleased ==
  seat.grabbed = IF seat.owner = NoSurface THEN {} ELSE Devices

\* Between two batches of requests, whatever menus were opened, unmapped, destroyed
\* or refused in them and whichever window had the focus, the seat's grab is that of
\* menus of the focused window that still exist, on all of keyboard, pointer and
\* touch, and without such menus the keyboard is with the focused window
\* (grab_popup, dismiss_popup_branch, reconcile_popup_grab, refresh_popups).  Whether
\* they are on the screen is GrabOnScreen.
GrabConsistent ==
  ~dispatching => GrabOfFocused /\ KeyboardReturns /\ DevicesReleased

\* Between two batches the menus that hold the input are on the screen: mapped, and in
\* the tree that is drawn and hit by the pointer.  Unmapping any of them takes what is
\* above it off the grab (dismiss_popup_branch, current_grab_descends_from); only a
\* menu that was unmapped in the same batch as one above it, and what is between the
\* two, keeps the grab although it is gone from the screen (Stranded).
GrabOnScreen ==
  ~dispatching => ToSet(seat.stack) \ seat.stranded \subseteq seat.tracked \ unmapped
=============================================================================
