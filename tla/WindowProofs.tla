---------------------------- MODULE WindowProofs ----------------------------
(***************************************************************************)
(* The compositor's windows, for any windows and any bounds: the grab of   *)
(* the seat is that of the menus on the screen, the tables of windows      *)
(* agree and hold no window that is gone, and Steam is told which          *)
(* application has the focus.                                              *)
(***************************************************************************)
EXTENDS Focus, Popups, ListLemmas, FiniteSetTheorems

-----------------------------------------------------------------------------
(* Menus and the seat's grab.                                              *)

PopupSurfaces == Roots \cup Menus \cup {NoSurface, Void}
Seats ==
  [tracked : SUBSET Menus, owner : Roots \cup {NoSurface}, stack : Seq(Menus), grabbed : SUBSET Devices,
   click : PopupSurfaces, down : PopupSurfaces, contacts : [Slots -> PopupSurfaces], keyboard : PopupSurfaces,
   stranded : SUBSET Menus]

PopupTypes ==
  /\ alive \subseteq Roots \cup Menus
  /\ root \in [Menus -> Roots \cup {NoSurface}] /\ \A p \in Menus \cap alive : root[p] \in Roots
  /\ focused \in (Roots \cap alive) \cup {NoSurface}
  /\ seat \in Seats

\* The grab of a seat is that of the window f, or nobody's.  In the midst of a
\* handler it may be on the way out.
Ending(s, f) ==
  /\ s.owner \in {NoSurface, f}
  /\ s.owner = NoSurface => s.stack = <<>> /\ s.grabbed = {} /\ s.keyboard = f
  /\ s.owner # NoSurface => s.grabbed = Devices \/ s.stack = <<>>

Held(s, f) == Ending(s, f) /\ (s.owner # NoSurface => s.grabbed = Devices)

Settled(s, f) ==
  /\ Held(s, f)
  /\ s.owner # NoSurface => s.stack # <<>> /\ ToSet(s.stack) \subseteq alive /\ s.keyboard = Last(s.stack)

SeatInv == PopupTypes /\ Held(seat, focused) /\ (~dispatching => Settled(seat, focused))

LEMMA LivingStack ==
  ASSUME NEW seq \in Seq(Menus)
  PROVE  /\ Living(seq) \in Seq(Menus) /\ ToSet(Living(seq)) = ToSet(seq) \cap alive
         /\ Living(Living(seq)) = Living(seq) /\ (seq = <<>> => Living(seq) = <<>>)
<1>1. Kept(seq, alive) \in Seq(Menus) /\ ToSet(Kept(seq, alive)) = ToSet(seq) \cap alive
  BY KeptElements
<1>2. Kept(Kept(seq, alive), alive) = Kept(seq, alive)
  <2> DEFINE k == Kept(seq, alive)
  <2>1. k \in Seq(Menus) /\ ToSet(k) \subseteq alive
    BY <1>1
  <2> HIDE DEF k
  <2>2. Kept(k, alive) = k
    BY <2>1, KeptAll
  <2> QED
    BY <2>2 DEF k
<1>3. seq = <<>> => Kept(seq, alive) = <<>>
  BY <1>1, EmptyList
<1> QED
  BY <1>1, <1>2, <1>3 DEF Living

\* Whatever grab was on its way out is over after reconcile_popup_grab(), and any other
\* is that of living menus.
LEMMA Reconciled ==
  ASSUME PopupsAssumption, alive \subseteq Roots \cup Menus, NEW f \in (Roots \cap alive) \cup {NoSurface},
         NEW s \in Seats, Ending(s, f)
  PROVE  LET t == reconcile_popup_grab(s)
         IN t \in Seats /\ Settled(t, f) /\ (s.stack = <<>> => t.owner = NoSurface)
<1> DEFINE c == cleanup(s)
           q == Living(s.stack)
           t == reconcile_popup_grab(s)
           focus == IF current_grab(c) \in alive THEN current_grab(c) ELSE NoSurface
<1>1. /\ c \in Seats /\ c.owner = s.owner /\ c.stack = q /\ c.grabbed = s.grabbed /\ c.keyboard = s.keyboard
      /\ q \in Seq(Menus) /\ ToSet(q) \subseteq alive /\ Living(q) = q /\ (s.stack = <<>> => q = <<>>)
  <2>1. s.stack \in Seq(Menus)
    BY DEF Seats
  <2>2. q \in Seq(Menus) /\ ToSet(q) \subseteq alive /\ Living(q) = q /\ (s.stack = <<>> => q = <<>>)
    BY <2>1, LivingStack
  <2>3. c = [s EXCEPT !.tracked = @ \cap alive, !.stack = q]
    BY DEF cleanup
  <2> HIDE DEF q, c
  <2> QED
    BY <2>2, <2>3 DEF Seats
<1>2. t = IF c.owner = NoSurface THEN c
          ELSE IF has_ended(c) THEN [c EXCEPT !.owner = NoSurface, !.stack = <<>>, !.grabbed = {}, !.keyboard = focus]
          ELSE [c EXCEPT !.keyboard = focus]
  BY DEF reconcile_popup_grab
<1>3. current_grab(c) = IF q = <<>> THEN c.owner ELSE Last(q)
  BY <1>1 DEF current_grab
<1>4. NoSurface \notin Roots /\ NoSurface \notin alive
  BY DEF PopupsAssumption
<1> HIDE DEF q, c, t
<1>5. CASE c.owner = NoSurface
  BY <1>1, <1>2, <1>5 DEF t, Settled, Held, Ending
<1>6. CASE c.owner # NoSurface /\ q = <<>>
  <2>1. c.owner = f /\ f \in Roots \cap alive /\ has_ended(c) /\ focus = f
    BY <1>1, <1>3, <1>4, <1>6 DEF has_ended, Ending
  <2>2. t = [c EXCEPT !.owner = NoSurface, !.stack = <<>>, !.grabbed = {}, !.keyboard = f]
    BY <1>2, <1>6, <2>1
  <2>3. t.owner = NoSurface /\ t.stack = <<>> /\ t.grabbed = {} /\ t.keyboard = f
    BY <1>1, <2>2 DEF Seats
  <2>4. t \in Seats
    <3>1. f \in PopupSurfaces /\ <<>> \in Seq(Menus)
      BY <2>1 DEF PopupSurfaces
    <3> QED
      BY <1>1, <2>2, <3>1 DEF Seats
  <2> QED
    BY <2>3, <2>4 DEF t, Settled, Held, Ending
<1>7. CASE c.owner # NoSurface /\ q # <<>>
  <2>1. c.owner = f /\ f \in Roots \cap alive /\ ~has_ended(c)
    BY <1>1, <1>4, <1>7 DEF has_ended, Ending
  <2>2. Last(q) \in ToSet(q) /\ Last(q) \in Menus
    BY <1>1, <1>7, EndElements
  <2>3. t = [c EXCEPT !.keyboard = Last(q)]
    BY <1>1, <1>2, <1>3, <1>7, <2>1, <2>2
  <2>4. /\ t \in Seats /\ t.owner = f /\ t.stack = q /\ t.grabbed = s.grabbed /\ t.keyboard = Last(q)
        /\ s.grabbed = Devices
    BY <1>1, <1>7, <2>1, <2>2, <2>3 DEF Seats, PopupSurfaces, Ending
  <2> QED
    BY <1>1, <1>4, <1>7, <2>1, <2>4 DEF t, Settled, Held, Ending
<1> QED
  BY <1>5, <1>6, <1>7 DEF t


\* The popups of a window lose the grab when the window does.
LEMMA Dismissed ==
  ASSUME PopupsAssumption, alive \subseteq Roots \cup Menus, NEW f \in (Roots \cap alive) \cup {NoSurface},
         NEW s \in Seats, Ending(s, f), NEW w
  PROVE  LET t == dismiss_popups_for_window(s, w)
         IN t \in Seats /\ Settled(t, f) /\ (w \in {NoSurface, f} => t.owner = NoSurface)
<1> DEFINE u == IF s.owner # NoSurface /\ w \in {NoSurface, s.owner} THEN ungrab_all(s) ELSE s
           v == [u EXCEPT !.tracked = {p \in @ : root[p] # w}]
<1>1. /\ u \in Seats /\ u.owner = s.owner /\ u.grabbed = s.grabbed /\ u.keyboard = s.keyboard
      /\ u.stack = <<>> \/ u.stack = s.stack
      /\ s.owner # NoSurface /\ w \in {NoSurface, s.owner} => u.stack = <<>>
  <2>1. CASE s.owner # NoSurface /\ w \in {NoSurface, s.owner}
    <3>1. u = [s EXCEPT !.stack = <<>>, !.tracked = {p \in @ : root[p] # s.owner}]
      BY <2>1 DEF ungrab_all
    <3>2. <<>> \in Seq(Menus)
      OBVIOUS
    <3> HIDE DEF u
    <3> QED
      BY <3>1, <3>2 DEF Seats
  <2>2. CASE ~(s.owner # NoSurface /\ w \in {NoSurface, s.owner})
    BY <2>2
  <2> QED
    BY <2>1, <2>2
<1> HIDE DEF u
<1>2. /\ v \in Seats /\ v.owner = u.owner /\ v.grabbed = u.grabbed /\ v.keyboard = u.keyboard
      /\ v.stack = u.stack
  BY <1>1 DEF Seats
<1>3. dismiss_popups_for_window(s, w) = reconcile_popup_grab(v)
  BY DEF dismiss_popups_for_window, u
<1> HIDE DEF v
<1>4. Ending(v, f)
  BY <1>1, <1>2 DEF Ending
<1>5. LET t == reconcile_popup_grab(v)
      IN t \in Seats /\ Settled(t, f) /\ (v.stack = <<>> => t.owner = NoSurface)
  BY <1>2, <1>4, Reconciled
<1>6. w \in {NoSurface, f} => v.stack = <<>>
  BY <1>1, <1>2 DEF Ending
<1> QED
  BY <1>3, <1>5, <1>6

\* A menu that is dismissed with what is above it takes popups off the stack.
Eased(s) ==
  {t \in Seats : /\ t.owner = s.owner /\ t.grabbed = s.grabbed /\ t.keyboard = s.keyboard
                 /\ s.stack = <<>> => t.stack = <<>>}

LEMMA PopupDismissed == ASSUME NEW s, NEW t \in Eased(s), NEW p PROVE dismiss_popup(t, p) \in Eased(s)
BY DEF dismiss_popup, Eased, Seats

LEMMA TopmostUngrabbed ==
  ASSUME NEW s, NEW t \in Eased(s), NEW p \in ToSet(t.stack) PROVE ungrab_topmost(t) \in Eased(s)
<1> DEFINE d == dismiss_popup(t, Last(t.stack))
<1>1. t.stack \in Seq(Menus) /\ t.stack # <<>>
  BY EmptyList DEF Eased, Seats
<1>2. d \in Eased(s) /\ d.stack = t.stack
  BY PopupDismissed DEF dismiss_popup, Eased, Seats
<1>3. Front(t.stack) \in Seq(Menus) /\ s.stack # <<>>
  BY <1>1 DEF Front, Eased
<1>4. ungrab_topmost(t) = [d EXCEPT !.stack = Front(t.stack)]
  BY <1>2 DEF ungrab_topmost
<1> HIDE DEF d
<1> QED
  BY <1>2, <1>3, <1>4 DEF Eased, Seats

PoppedOff(s, p) ==
  CHOOSE f : f = [n \in 0 .. Len(s.stack) |->
                    IF n = 0 THEN s
                    ELSE IF p \in ToSet(f[n - 1].stack) THEN ungrab_topmost(f[n - 1]) ELSE f[n - 1]]

LEMMA BranchDismissed ==
  ASSUME NEW s0, NEW s \in Eased(s0), NEW p PROVE dismiss_popup_branch(s, p) \in Eased(s0)
<1> DEFINE V == Eased(s0)
           m == Len(s.stack)
           Off(t) == IF p \in ToSet(t.stack) THEN ungrab_topmost(t) ELSE t
           g == [x \in Nat \X V |-> Off(x[2])]
           k == PoppedOff(s, p)
<1>1. \A t \in V : Off(t) \in V
  BY TopmostUngrabbed
<1>2. m \in Nat
  BY DEF Eased, Seats
<1>3. g \in [Nat \X V -> V]
  <2> HIDE DEF Off, V
  <2> QED
    BY <1>1
<1>4. RecursiveOn(V, s, g, m)
  <2> HIDE DEF g, V, m
  <2> QED
    BY <1>2, <1>3, Recursion DEF V
<1>5. PICK f \in [0 .. m -> V] : \A n \in 0 .. m : f[n] = IF n = 0 THEN s ELSE g[<<n, f[n - 1]>>]
  BY <1>4 DEF RecursiveOn
<1>6. ASSUME NEW n \in 0 .. m PROVE f[n] = IF n = 0 THEN s ELSE Off(f[n - 1])
  <2>1. n # 0 => n \in Nat /\ n - 1 \in 0 .. m /\ f[n - 1] \in V
    BY <1>2
  <2> HIDE DEF Off, V, m
  <2> QED
    BY <1>5, <2>1
<1>7. f = [n \in 0 .. m |-> IF n = 0 THEN s ELSE Off(f[n - 1])]
  <2> HIDE DEF Off, V, m
  <2> QED
    BY <1>6
<1>8. k = [n \in 0 .. m |-> IF n = 0 THEN s ELSE Off(k[n - 1])]
  BY <1>7 DEF PoppedOff
<1>9. k[m] \in V
  <2> DEFINE A == {n \in Nat : n <= m => k[n] \in V}
  <2> HIDE DEF k, Off, V, m
  <2>1. 0 \in A
    BY <1>2, <1>8 DEF V
  <2>2. ASSUME NEW n \in Nat, n \in A PROVE n + 1 \in A
    <3>1. n + 1 <= m => k[n + 1] = Off(k[n]) /\ n <= m
      <4>1. n + 1 <= m => n + 1 \in 0 .. m /\ n + 1 # 0 /\ (n + 1) - 1 = n /\ n <= m
        BY <1>2
      <4> QED
        BY <1>8, <4>1
    <3> QED
      BY <1>1, <2>2, <3>1
  <2> HIDE DEF A
  <2>3. m \in A
    BY <1>2, <2>1, <2>2, Induction
  <2> QED
    BY <1>2, <2>3 DEF A
<1>10. dismiss_popup_branch(s, p) = dismiss_popup(IF current_grab_descends_from(s, p) THEN k[m] ELSE s, p)
  BY DEF dismiss_popup_branch, PoppedOff
<1> HIDE DEF k, m
<1> QED
  BY <1>9, <1>10, PopupDismissed

Orphans == SetToSortSeq(seat.tracked \cap unmapped, LAMBDA p, q : q \in Subtree(p))
Refreshed ==
  CHOOSE f : f = [n \in 0 .. Cardinality(Menus) |->
                    IF n = 0 THEN [prune_touch_contacts(seat) EXCEPT !.stranded = @ \cup Stranded]
                    ELSE IF n \in DOMAIN Orphans THEN dismiss_popup_branch(f[n - 1], Orphans[n]) ELSE f[n - 1]]

LEMMA AllBranchesDismissed ==
  ASSUME PopupsAssumption, alive \subseteq Roots \cup Menus, seat \in Seats
  PROVE  Refreshed[Cardinality(Menus)] \in Eased(seat)
<1> DEFINE V == Eased(seat)
           m == Cardinality(Menus)
           pruned == prune_touch_contacts(seat)
           s == [pruned EXCEPT !.stranded = @ \cup Stranded]
           Off(n, t) == IF n \in DOMAIN Orphans THEN dismiss_popup_branch(t, Orphans[n]) ELSE t
           g == [x \in Nat \X V |-> Off(x[1], x[2])]
           k == Refreshed
<1>1. \A n \in Nat, t \in V : Off(n, t) \in V
  BY BranchDismissed
<1>2. m \in Nat
  BY FS_CardinalityType DEF PopupsAssumption
<1>3. s \in V
  <2>1. [c \in Slots |-> IF seat.contacts[c] \in alive THEN seat.contacts[c] ELSE NoSurface] \in [Slots -> PopupSurfaces]
    BY DEF PopupSurfaces
  <2>2. pruned = [seat EXCEPT !.contacts = [c \in Slots |-> IF seat.contacts[c] \in alive THEN seat.contacts[c] ELSE NoSurface]]
    BY DEF prune_touch_contacts, Seats
  <2> HIDE DEF pruned
  <2>3. pruned \in V
    BY <2>1, <2>2 DEF Eased, Seats
  <2>4. Stranded \subseteq Menus
    <3>1. Living(seat.stack) \in Seq(Menus)
      BY LivingStack DEF Seats
    <3> QED
      BY <3>1 DEF Stranded
  <2> QED
    BY <2>3, <2>4 DEF Eased, Seats
<1>4. g \in [Nat \X V -> V]
  <2> HIDE DEF Off, V
  <2> QED
    BY <1>1
<1>5. RecursiveOn(V, s, g, m)
  <2> HIDE DEF g, V, m, s
  <2> QED
    BY <1>2, <1>3, <1>4, Recursion
<1>6. PICK f \in [0 .. m -> V] : \A n \in 0 .. m : f[n] = IF n = 0 THEN s ELSE g[<<n, f[n - 1]>>]
  BY <1>5 DEF RecursiveOn
<1>7. ASSUME NEW n \in 0 .. m PROVE f[n] = IF n = 0 THEN s ELSE Off(n, f[n - 1])
  <2>1. n # 0 => n \in Nat /\ n - 1 \in 0 .. m /\ f[n - 1] \in V
    BY <1>2
  <2> HIDE DEF Off, V, m, s
  <2> QED
    BY <1>6, <2>1
<1>8. f = [n \in 0 .. m |-> IF n = 0 THEN s ELSE Off(n, f[n - 1])]
  <2> HIDE DEF Off, V, m, s
  <2> QED
    BY <1>7
<1>9. k = [n \in 0 .. m |-> IF n = 0 THEN s ELSE Off(n, k[n - 1])]
  BY <1>8 DEF Refreshed
<1> HIDE DEF k, Off, V, m, s
<1> DEFINE A == {n \in Nat : n <= m => k[n] \in V}
<1>10. 0 \in A
  BY <1>2, <1>3, <1>9
<1>11. ASSUME NEW n \in Nat, n \in A PROVE n + 1 \in A
  <2>1. n + 1 <= m => k[n + 1] = Off(n + 1, k[n]) /\ n <= m
    <3>1. n + 1 <= m => n + 1 \in 0 .. m /\ n + 1 # 0 /\ (n + 1) - 1 = n /\ n <= m
      BY <1>2
    <3> QED
      BY <1>9, <3>1
  <2> QED
    BY <1>1, <1>11, <2>1
<1> HIDE DEF A
<1>12. m \in A
  BY <1>2, <1>10, <1>11, Induction
<1> QED
  BY <1>2, <1>12 DEF A, k, m, V

LEMMA SeatRefreshed ==
  ASSUME PopupsAssumption, SeatInv, RefreshPopups PROVE SeatInv'
<1> DEFINE s == Refreshed[Cardinality(Menus)]
<1>1. alive \subseteq Roots \cup Menus /\ focused \in (Roots \cap alive) \cup {NoSurface} /\ seat \in Seats /\ Held(seat, focused)
  BY DEF SeatInv, PopupTypes
<1>2. seat' = reconcile_popup_grab(s)
  BY DEF RefreshPopups, Refreshed, Orphans
<1>3. s \in Seats /\ Ending(s, focused)
  BY <1>1, AllBranchesDismissed DEF Eased, Held, Ending
<1> HIDE DEF s
<1>4. seat' \in Seats /\ Settled(seat', focused)
  BY <1>1, <1>2, <1>3, Reconciled
<1>5. UNCHANGED <<alive, root, focused>>
  BY DEF RefreshPopups
<1> QED
  BY <1>4, <1>5 DEF SeatInv, PopupTypes, Settled

\* The focus moves: the popups of the window that had it are dismissed, and the
\* keyboard goes with it.
LEMMA FocusMoved ==
  ASSUME PopupsAssumption, alive \subseteq Roots \cup Menus, focused \in (Roots \cap alive) \cup {NoSurface},
         NEW s \in Seats, Held(s, focused), NEW f \in Roots \cup {NoSurface}, MoveFocus(s, f)
  PROVE  /\ focused' = f /\ seat' \in Seats /\ Held(seat', f)
         /\ f # focused => seat'.owner = NoSurface
         /\ f = focused => seat' = s
<1> DEFINE t == dismiss_popups_for_window(s, focused)
<1>1. focused' = f /\ seat' = IF f = focused THEN s ELSE [t EXCEPT !.keyboard = f]
  BY DEF MoveFocus
<1>2. t \in Seats /\ Settled(t, focused) /\ t.owner = NoSurface
  BY Dismissed DEF Held
<1> HIDE DEF t
<1>3. CASE f # focused
  <2>1. seat' = [t EXCEPT !.keyboard = f] /\ f \in PopupSurfaces
    BY <1>1, <1>3 DEF PopupSurfaces
  <2>2. seat' \in Seats /\ seat'.owner = NoSurface /\ seat'.stack = t.stack /\ seat'.grabbed = t.grabbed /\ seat'.keyboard = f
    BY <1>2, <2>1 DEF Seats
  <2> QED
    BY <1>1, <1>2, <1>3, <2>2 DEF Settled, Held, Ending
<1>4. CASE f = focused
  BY <1>1, <1>4
<1> QED
  BY <1>3, <1>4

\* A window goes, or what is gone with it, and with it its menus and the focus.
LEMMA WindowLeft ==
  ASSUME PopupsAssumption, SeatInv, NEW r \in Roots, NEW gone, gone \in {{}, Belongings(r)},
         focused # r => gone = Belongings(r), Leave(r, gone),
         UNCHANGED root, dispatching' = TRUE
  PROVE  SeatInv'
<1> DEFINE s == dismiss_popups_for_window(seat, r)
<1>1. /\ alive \subseteq Roots \cup Menus /\ focused \in (Roots \cap alive) \cup {NoSurface} /\ seat \in Seats
      /\ Held(seat, focused) /\ NoSurface \notin Roots
  BY DEF SeatInv, PopupTypes, PopupsAssumption
<1>2. s \in Seats /\ Held(s, focused)
  BY <1>1, Dismissed DEF Held, Settled
<1>3. PICK f \in IF focused = r THEN ((Roots \cap alive) \ {r}) \cup {NoSurface} ELSE {focused} : MoveFocus(s, f)
  BY DEF Leave
<1>4. alive' = alive \ gone
  BY DEF Leave
<1> HIDE DEF s
<1>5. f \in (Roots \cap alive) \cup {NoSurface} /\ f # r
  BY <1>1, <1>3
<1>6. focused' = f /\ seat' \in Seats /\ Held(seat', f)
  BY <1>1, <1>2, <1>3, <1>5, FocusMoved
<1>7. f # NoSurface => f \in alive'
  BY <1>1, <1>4, <1>5 DEF Belongings, ClientOf, PopupsAssumption
<1> QED
  BY <1>1, <1>4, <1>5, <1>6, <1>7 DEF SeatInv, PopupTypes

\* A popup gets the grab, and nothing else of the seat changes; or it is dismissed; or
\* its client is gone.
LEMMA GrabTaken == ASSUME PopupsAssumption, SeatInv, NEW p \in Menus, GrabPopup(p) PROVE SeatInv'
<1> DEFINE taken == [seat EXCEPT !.owner = focused, !.stack = Append(Living(@), p), !.keyboard = p,
                                 !.grabbed = Devices, !.click = NoSurface, !.down = NoSurface]
<1>1. /\ alive \subseteq Roots \cup Menus /\ focused \in (Roots \cap alive) \cup {NoSurface} /\ seat \in Seats
      /\ Held(seat, focused) /\ NoSurface \notin Roots
  BY DEF SeatInv, PopupTypes, PopupsAssumption
<1>2. p \in alive /\ dispatching' = TRUE /\ UNCHANGED root /\ root[p] \in Roots
  BY DEF GrabPopup, Dispatched, SeatInv, PopupTypes
<1>3. \/ UNCHANGED <<alive, seat, focused>>
      \/ seat' = dismiss_popup(seat, p) /\ UNCHANGED <<alive, focused>>
      \/ Leave(root[p], Belongings(root[p]))
      \/ focused = root[p] /\ seat' = taken /\ UNCHANGED <<alive, focused>>
  BY DEF GrabPopup, InputStill
<1>4. CASE UNCHANGED <<alive, seat, focused>>
  BY <1>2, <1>4 DEF SeatInv, PopupTypes
<1>5. CASE seat' = dismiss_popup(seat, p) /\ UNCHANGED <<alive, focused>>
  <2>1. seat \in Eased(seat)
    BY <1>1 DEF Eased
  <2>2. seat' \in Eased(seat)
    BY <1>5, <2>1, PopupDismissed
  <2> QED
    BY <1>1, <1>2, <1>5, <2>2 DEF SeatInv, PopupTypes, Eased, Held, Ending
<1>6. CASE Leave(root[p], Belongings(root[p]))
  BY <1>2, <1>6, WindowLeft
<1>7. CASE focused = root[p] /\ seat' = taken /\ UNCHANGED <<alive, focused>>
  <2>1. seat.stack \in Seq(Menus)
    BY <1>1 DEF Seats
  <2>2. Append(Living(seat.stack), p) \in Seq(Menus)
    BY <2>1, LivingStack
  <2>3. p \in PopupSurfaces /\ NoSurface \in PopupSurfaces
    BY DEF PopupSurfaces
  <2>4. seat' \in Seats /\ seat'.owner = focused /\ seat'.grabbed = Devices
    BY <1>1, <1>7, <2>2, <2>3 DEF Seats
  <2>5. focused # NoSurface
    BY <1>1, <1>2, <1>7
  <2> QED
    BY <1>1, <1>2, <1>7, <2>4, <2>5 DEF SeatInv, PopupTypes, Held, Ending
<1> QED
  BY <1>3, <1>4, <1>5, <1>6, <1>7

\* An input event begins and ends with a seat whose grab is settled.
LEMMA EventHandled ==
  ASSUME PopupsAssumption, SeatInv, ~dispatching, NEW handled \in Seats, Ending(handled, focused),
         seat' = reconcile_popup_grab(handled), PopupsStill
  PROVE  SeatInv'
<1>1. alive \subseteq Roots \cup Menus /\ focused \in (Roots \cap alive) \cup {NoSurface}
  BY DEF SeatInv, PopupTypes
<1>2. seat' \in Seats /\ Settled(seat', focused)
  BY <1>1, Reconciled
<1>3. UNCHANGED <<alive, root, focused>>
  BY DEF PopupsStill
<1> QED
  BY <1>2, <1>3 DEF SeatInv, PopupTypes, Settled

LEMMA SeatStep == ASSUME PopupsAssumption, SeatInv, [PopupsNext]_popupVars PROVE SeatInv'
<1>1. /\ alive \subseteq Roots \cup Menus /\ focused \in (Roots \cap alive) \cup {NoSurface} /\ seat \in Seats
      /\ root \in [Menus -> Roots \cup {NoSurface}] /\ \A p \in Menus \cap alive : root[p] \in Roots
      /\ Held(seat, focused) /\ NoSurface \notin Roots /\ Roots \cap Menus = {}
  BY DEF SeatInv, PopupTypes, PopupsAssumption
<1>2. Before \in Seats /\ Settled(Before, focused)
  BY <1>1, Reconciled DEF Before, Held
<1>3. Ending(Before, focused)
  BY <1>2 DEF Settled, Held
<1>4. \A f \in Visible : f \in PopupSurfaces
  BY <1>1 DEF Visible, PopupSurfaces
<1>5. NoSurface \in PopupSurfaces /\ \A a \in alive : a \in PopupSurfaces
  BY <1>1 DEF PopupSurfaces
<1>6. ASSUME NEW p \in Menus, NEW q \in Roots \cup Menus, NewPopup(p, q) PROVE SeatInv'
  <2>1. /\ q \in alive /\ alive' = alive \cup {p} /\ root' = [root EXCEPT ![p] = ClientOf(q)]
        /\ seat' = [seat EXCEPT !.tracked = IF q \in Roots \cup @ THEN @ \cup {p} ELSE @,
                                !.stranded = @ \ {p}]
        /\ dispatching' = TRUE /\ UNCHANGED focused
    BY <1>6 DEF NewPopup, Dispatched, InputStill
  <2>2. ClientOf(q) \in Roots
    BY <1>1, <2>1 DEF ClientOf
  <2>3. /\ seat' \in Seats /\ seat'.owner = seat.owner /\ seat'.stack = seat.stack
        /\ seat'.grabbed = seat.grabbed /\ seat'.keyboard = seat.keyboard
    BY <1>1, <2>1 DEF Seats
  <2>4. Held(seat', focused)
    BY <1>1, <2>3 DEF Held, Ending
  <2> QED
    BY <1>1, <2>1, <2>2, <2>3, <2>4 DEF SeatInv, PopupTypes
<1>7. ASSUME NEW p \in Menus, GrabPopup(p) PROVE SeatInv'
  BY <1>7, GrabTaken
<1>8. ASSUME NEW p \in Menus, UnmapPopup(p) PROVE SeatInv'
  BY <1>1, <1>8 DEF UnmapPopup, Dispatched, InputStill, SeatInv, PopupTypes
<1>9. ASSUME NEW p \in Menus, DestroyPopup(p) PROVE SeatInv'
  BY <1>1, <1>9 DEF DestroyPopup, Dispatched, InputStill, SeatInv, PopupTypes
<1>10. CASE RefreshPopups
  BY <1>10, SeatRefreshed
<1>11. ASSUME NEW r \in Roots, NewRoot(r) PROVE SeatInv'
  <2>1. PICK f \in {focused, r} : MoveFocus(seat, f)
    BY <1>11 DEF NewRoot
  <2>2. focused' = f /\ seat' \in Seats /\ Held(seat', f)
    BY <1>1, <2>1, FocusMoved
  <2>3. alive' = alive \cup {r} /\ dispatching' = TRUE /\ UNCHANGED root
    BY <1>11 DEF NewRoot, Dispatched
  <2> QED
    BY <1>1, <2>2, <2>3 DEF SeatInv, PopupTypes
<1>12. ASSUME NEW r \in Roots, RootGoes(r) PROVE SeatInv'
  <2>1. Leave(r, Belongings(r)) \/ (focused = r /\ Leave(r, {}))
    BY <1>12 DEF RootGoes
  <2>2. UNCHANGED root /\ dispatching' = TRUE
    BY <1>12 DEF RootGoes, Dispatched
  <2> QED
    BY <2>1, <2>2, WindowLeft
<1>13. CASE FocusChanges
  <2>1. PICK f \in (Roots \cap alive) \cup {NoSurface} : f # focused /\ MoveFocus(seat, f)
    BY <1>13 DEF FocusChanges
  <2>2. focused' = f /\ seat' \in Seats /\ Held(seat', f) /\ seat'.owner = NoSurface
    BY <1>1, <2>1, FocusMoved
  <2>3. UNCHANGED <<alive, root, dispatching>>
    BY <1>13 DEF FocusChanges
  <2> QED
    BY <1>1, <2>1, <2>2, <2>3 DEF SeatInv, PopupTypes, Settled
<1>14. CASE KeyDown
  BY <1>2, <1>3, <1>14, EventHandled DEF KeyDown, Press
<1>15. CASE MouseButtonUp
  <2> DEFINE handled == [Before EXCEPT !.click = NoSurface]
  <2>1. handled \in Seats /\ Ending(handled, focused)
    BY <1>2, <1>3, <1>5 DEF Seats, Ending
  <2>2. ~dispatching /\ seat' = reconcile_popup_grab(handled) /\ PopupsStill
    BY <1>15 DEF MouseButtonUp, Release
  <2> HIDE DEF handled
  <2> QED
    BY <2>1, <2>2, EventHandled
<1>16. CASE TouchCancelAll
  <2> DEFINE handled == [Before EXCEPT !.contacts = NoContacts, !.down = NoSurface]
  <2>1. handled \in Seats /\ Ending(handled, focused)
    BY <1>2, <1>3, <1>5 DEF Seats, Ending, NoContacts
  <2>2. ~dispatching /\ seat' = reconcile_popup_grab(handled) /\ PopupsStill
    BY <1>16 DEF TouchCancelAll, Release
  <2> HIDE DEF handled
  <2> QED
    BY <2>1, <2>2, EventHandled
<1>17. ASSUME NEW c \in Slots, TouchUp(c) PROVE SeatInv'
  <2> DEFINE t == [Before EXCEPT !.contacts[c] = NoSurface]
             handled == IF t.contacts = NoContacts THEN [t EXCEPT !.down = NoSurface] ELSE t
  <2>1. t \in Seats /\ Ending(t, focused)
    BY <1>2, <1>3, <1>5 DEF Seats, Ending
  <2>2. ~dispatching /\ seat' = reconcile_popup_grab(handled) /\ PopupsStill
    BY <1>17 DEF TouchUp, Release
  <2> HIDE DEF t
  <2>3. handled \in Seats /\ Ending(handled, focused)
    BY <1>5, <2>1 DEF Seats, Ending
  <2> HIDE DEF handled
  <2> QED
    BY <2>2, <2>3, EventHandled
<1>18. ASSUME NEW f \in Visible, MouseButtonDown(f) PROVE SeatInv'
  <2> DEFINE s == Before
             handled == IF "pointer" \in s.grabbed
                        THEN IF Own(s, f) THEN s
                             ELSE [ungrab_all(s) EXCEPT !.grabbed = @ \ {"pointer", "keyboard"}, !.click = f]
                        ELSE IF s.click = NoSurface THEN [s EXCEPT !.click = f] ELSE s
  <2>1. ~dispatching /\ seat' = reconcile_popup_grab(handled) /\ PopupsStill
    BY <1>18 DEF MouseButtonDown, Press
  <2>2. f \in PopupSurfaces
    BY <1>4
  <2> HIDE DEF s
  <2>3. s \in Seats /\ Ending(s, focused)
    BY <1>2, <1>3 DEF s
  <2>4. handled \in Seats /\ Ending(handled, focused)
    <3>1. CASE "pointer" \in s.grabbed /\ ~Own(s, f)
      <4>1. handled = [ungrab_all(s) EXCEPT !.grabbed = @ \ {"pointer", "keyboard"}, !.click = f]
        BY <3>1
      <4>2. <<>> \in Seq(Menus)
        OBVIOUS
      <4>3. handled \in Seats /\ handled.owner = s.owner /\ handled.stack = <<>>
        BY <2>2, <2>3, <4>1, <4>2 DEF ungrab_all, Seats
      <4>4. s.owner # NoSurface
        BY <2>3, <3>1 DEF Ending
      <4> QED
        BY <2>3, <4>3, <4>4 DEF Ending
    <3>2. CASE ~("pointer" \in s.grabbed /\ ~Own(s, f))
      BY <2>2, <2>3, <3>2 DEF Seats, Ending
    <3> QED
      BY <3>1, <3>2
  <2> HIDE DEF handled
  <2> QED
    BY <2>1, <2>4, EventHandled
<1>19. ASSUME NEW c \in Slots, NEW f \in Visible, TouchDown(c, f) PROVE SeatInv'
  <2> DEFINE s == Before
             at == IF s.down # NoSurface THEN s.down ELSE f
             t == [s EXCEPT !.contacts[c] = IF at \in alive THEN at ELSE NoSurface]
             handled == IF "touch" \notin s.grabbed THEN [t EXCEPT !.down = at]
                        ELSE IF Own(s, f) THEN t
                        ELSE [ungrab_all(t) EXCEPT !.grabbed = @ \ {"touch"}, !.down = at]
  <2>1. ~dispatching /\ seat' = reconcile_popup_grab(handled) /\ PopupsStill
    BY <1>19 DEF TouchDown, Press
  <2> HIDE DEF s
  <2>2. s \in Seats /\ Ending(s, focused)
    BY <1>2, <1>3 DEF s
  <2>3. at \in PopupSurfaces
    BY <1>4, <2>2 DEF Seats
  <2> HIDE DEF at
  <2>4. t \in Seats /\ Ending(t, focused) /\ t.grabbed = s.grabbed
    BY <1>5, <2>2 DEF Seats, Ending
  <2> HIDE DEF t
  <2>5. handled \in Seats /\ Ending(handled, focused)
    <3>1. CASE "touch" \in s.grabbed /\ ~Own(s, f)
      <4>1. handled = [ungrab_all(t) EXCEPT !.grabbed = @ \ {"touch"}, !.down = at]
        BY <3>1
      <4>2. <<>> \in Seq(Menus)
        OBVIOUS
      <4>3. handled \in Seats /\ handled.owner = t.owner /\ handled.stack = <<>>
        BY <2>3, <2>4, <4>1, <4>2 DEF ungrab_all, Seats
      <4>4. t.owner # NoSurface
        BY <2>4, <3>1 DEF Ending
      <4> QED
        BY <2>4, <4>3, <4>4 DEF Ending
    <3>2. CASE ~("touch" \in s.grabbed /\ ~Own(s, f))
      BY <2>3, <2>4, <3>2 DEF Seats, Ending
    <3> QED
      BY <3>1, <3>2
  <2> HIDE DEF handled
  <2> QED
    BY <2>1, <2>5, EventHandled
<1>20. CASE UNCHANGED popupVars
  BY <1>20 DEF popupVars, SeatInv, PopupTypes, Settled
<1> QED
  BY <1>6, <1>7, <1>8, <1>9, <1>10, <1>11, <1>12, <1>13, <1>14, <1>15, <1>16, <1>17, <1>18, <1>19, <1>20 DEF PopupsNext

\* Between two batches of requests the seat's grab is that of the focused window's
\* living menus, on all devices, and without menus the keyboard is with that window,
\* for any number of windows, menus and fingers (grab_popup, reconcile_popup_grab).
THEOREM GrabAlwaysConsistent == PopupsSpec => []GrabConsistent
<1>1. PopupsInit => SeatInv
  BY PopupsAssumption DEF PopupsInit, SeatInv, PopupTypes, Seats, PopupSurfaces, NoContacts, Held, Ending, Settled
<1>2. SeatInv /\ [PopupsNext]_popupVars => SeatInv'
  BY PopupsAssumption, SeatStep
<1>3. SeatInv => GrabConsistent
  BY DEF SeatInv, PopupTypes, Settled, Held, Ending, GrabConsistent, GrabOfFocused, KeyboardReturns, DevicesReleased
<1> QED
  BY <1>1, <1>2, <1>3, PTL DEF PopupsSpec

-----------------------------------------------------------------------------
(* Windows and the focus.                                                  *)

Places == Windows \cup {NoWindow}
Flags == {"overlay", "notification", "external", "skip"}
Metas ==
  [x11 : BOOLEAN, or : BOOLEAN, parent : XWindows \cup {NoWindow}, seq : Nat, fullscreen : BOOLEAN,
   app : Nat, mode : 0 .. 2, opacity : 0 .. 255, size : Sizes, disabled : BOOLEAN, dialog : BOOLEAN,
   maybe : BOOLEAN, skip : BOOLEAN, flags : SUBSET Flags]
Tables == UNION {[S -> Metas] : S \in SUBSET Windows}
Desks ==
  [space : Seq(Windows), meta : Tables, index : [XWindows -> Seq(Windows)], size : [XWindows -> Sizes],
   full : SUBSET XWindows, buffer : [Toplevels -> {"new", "mapped", "unmapped"}], maps : Nat,
   focused : Places, focusedX11 : Places, keyboard : Places, overlay : Places, notification : Places,
   external : Places, dropdown : Places, requested : Places, focusedApp : Nat]

\* The space, the metadata and the index of children tell of the same windows.
Agree(d, m) ==
  /\ d \in Desks
  /\ DOMAIN d.meta = ToSet(d.space) /\ DOMAIN d.meta \subseteq m
  /\ \A p \in XWindows : /\ ToSet(d.index[p]) = {w \in DOMAIN d.meta : d.meta[w].parent = p}
                         /\ IsInjective(d.index[p])

FocusKept(d, m) ==
  /\ d.focused \in m \cup {NoWindow}
  /\ d.focusedX11 = IF d.focused \in XWindows THEN d.focused ELSE NoWindow
  /\ x11 => /\ d.focused = NoWindow => d.focusedApp = 0
            /\ d.focused \in DOMAIN d.meta => d.focusedApp = d.meta[d.focused].app

\* The windows on top have a flag, and the dropdown has none, but for the windows
\* that are both.
Special(d) == {w \in DOMAIN d.meta : d.meta[w].flags # {}}
Plain(d) == {w \in DOMAIN d.meta : d.meta[w].flags = {} \/ w \in twofold}
DropdownPlain(d) == d.dropdown \in (Plain(d) \cap XWindows) \cup {NoWindow}
RolesKept(d) ==
  /\ {d.overlay, d.notification, d.external} \subseteq Special(d) \cup {NoWindow} \cup twofold
  /\ DropdownPlain(d)
  /\ d.keyboard \in Special(d) \cup {NoWindow, d.focused}

\* No window is without an application in the table whose process names one.
AppsFound(d, ps) ==
  x11 => \A w \in XWindows \cap DOMAIN d.meta : d.meta[w].app = 0 => ps[w].app = 0
AppsKnown == AppsFound(desk, props)

PropsKnown ==
  /\ x11 \in BOOLEAN /\ mapped \subseteq Windows
  /\ \A w \in XWindows : props[w] \in Props[w] \cup {NoProps} /\ (w \in mapped => Exists(w))
  /\ props = [w \in XWindows |-> props[w]]

FocusInv == PropsKnown /\ Agree(desk, mapped) /\ FocusKept(desk, mapped)

SameRest(d, t) ==
  /\ t.size = d.size /\ t.full = d.full /\ t.buffer = d.buffer /\ t.maps = d.maps
  /\ t.focused = d.focused /\ t.focusedX11 = d.focusedX11 /\ t.keyboard = d.keyboard
  /\ t.overlay = d.overlay /\ t.notification = d.notification /\ t.external = d.external
  /\ t.dropdown = d.dropdown /\ t.requested = d.requested /\ t.focusedApp = d.focusedApp

-----------------------------------------------------------------------------

LEMMA TableType ==
  /\ \A f \in Tables : DOMAIN f \subseteq Windows /\ f \in [DOMAIN f -> Metas]
  /\ \A S \in SUBSET Windows : \A f \in [S -> Metas] : f \in Tables
BY DEF Tables

LEMMA WithoutElements ==
  ASSUME NEW seq \in Seq(Windows), NEW w
  PROVE  /\ Without(seq, w) \in Seq(Windows) /\ ToSet(Without(seq, w)) = ToSet(seq) \ {w}
         /\ IsInjective(seq) => IsInjective(Without(seq, w))
<1>1. /\ Kept(seq, Windows \ {w}) \in Seq(Windows)
      /\ ToSet(Kept(seq, Windows \ {w})) = ToSet(seq) \cap (Windows \ {w})
      /\ IsInjective(seq) => IsInjective(Kept(seq, Windows \ {w}))
  BY KeptElements
<1>2. ToSet(seq) \subseteq Windows
  BY DEF ToSet
<1> QED
  BY <1>1, <1>2 DEF Without

\* unregister_window() and unmap_elem() of a window, in either order.
LEMMA Removal ==
  ASSUME FocusAssumption, NEW m, NEW d, Agree(d, m), NEW w \in Windows
  PROVE  LET u == unregister_window(unmap_elem(d, w), w)
         IN /\ Agree(u, m \ {w}) /\ SameRest(d, u)
            /\ u = unmap_elem(unregister_window(d, w), w)
            /\ DOMAIN u.meta = DOMAIN d.meta \ {w}
            /\ \A v \in DOMAIN d.meta \ {w} : u.meta[v] = d.meta[v]
<1> DEFINE t == unmap_elem(d, w)
           r == unregister_window(d, w)
           u == unregister_window(t, w)
<1>1. /\ d \in Desks /\ d.space \in Seq(Windows) /\ d.index \in [XWindows -> Seq(Windows)] /\ d.meta \in Tables
      /\ DOMAIN d.meta = ToSet(d.space) /\ DOMAIN d.meta \subseteq m
  BY DEF Agree, Desks
<1>2. d.meta \in [DOMAIN d.meta -> Metas] /\ DOMAIN d.meta \subseteq Windows
  BY <1>1, TableType
<1>3. Without(d.space, w) \in Seq(Windows) /\ ToSet(Without(d.space, w)) = ToSet(d.space) \ {w}
  BY <1>1, WithoutElements
<1>4. t \in Desks /\ t.meta = d.meta /\ t.index = d.index /\ t.space = Without(d.space, w) /\ SameRest(d, t)
  BY <1>1, <1>3 DEF unmap_elem, Desks, SameRest
<1> HIDE DEF t
<1>5. CASE w \notin DOMAIN d.meta
  <2>1. u = t /\ r = d
    BY <1>4, <1>5 DEF unregister_window, Tracked
  <2>2. Agree(t, m \ {w})
    <3>1. \A q \in XWindows : /\ ToSet(d.index[q]) = {v \in DOMAIN d.meta : d.meta[v].parent = q}
                             /\ IsInjective(d.index[q])
      BY DEF Agree
    <3>2. DOMAIN t.meta = ToSet(t.space) /\ DOMAIN t.meta \subseteq m \ {w}
      BY <1>1, <1>3, <1>4, <1>5
    <3> QED
      BY <1>4, <3>1, <3>2 DEF Agree
  <2> QED
    BY <1>4, <1>5, <2>1, <2>2 DEF t, unmap_elem
<1>6. CASE w \in DOMAIN d.meta
  <2> DEFINE p == d.meta[w].parent
             rest == [v \in DOMAIN d.meta \ {w} |-> d.meta[v]]
             index == IF p = NoWindow THEN d.index ELSE [d.index EXCEPT ![p] = Without(@, w)]
  <2>1. p \in XWindows \cup {NoWindow} /\ NoWindow \notin XWindows
    BY <1>2, <1>6 DEF Metas, FocusAssumption, Windows
  <2>2. rest \in Tables /\ DOMAIN rest = DOMAIN d.meta \ {w}
    <3>1. rest \in [DOMAIN d.meta \ {w} -> Metas] /\ (DOMAIN d.meta \ {w}) \in SUBSET Windows
      BY <1>2
    <3> HIDE DEF rest
    <3> QED
      BY <3>1, TableType
  <2>3. /\ index \in [XWindows -> Seq(Windows)]
        /\ \A q \in XWindows : index[q] = IF q = p THEN Without(d.index[q], w) ELSE d.index[q]
    BY <1>1, <2>1, WithoutElements
  <2>4. u = [t EXCEPT !.index = index, !.meta = rest]
    BY <1>4, <1>6, <1>1 DEF unregister_window, Tracked, DropChild, Desks
  <2>5. r = [d EXCEPT !.index = index, !.meta = rest]
    BY <1>1, <1>6 DEF unregister_window, Tracked, DropChild, Desks
  <2> HIDE DEF index, rest, u, r
  <2>6. u \in Desks /\ u.meta = rest /\ u.index = index /\ u.space = Without(d.space, w) /\ SameRest(d, u)
    BY <1>4, <2>2, <2>3, <2>4 DEF Desks, SameRest
  <2>7. u = unmap_elem(r, w)
    BY <1>1, <2>4, <2>5 DEF t, unmap_elem, Desks
  <2>8. ASSUME NEW q \in XWindows
        PROVE  /\ ToSet(index[q]) = {v \in DOMAIN rest : rest[v].parent = q}
               /\ IsInjective(index[q])
    <3>1. /\ ToSet(d.index[q]) = {v \in DOMAIN d.meta : d.meta[v].parent = q} /\ IsInjective(d.index[q])
          /\ d.index[q] \in Seq(Windows)
      BY <1>1 DEF Agree
    <3>2. {v \in DOMAIN rest : rest[v].parent = q} = {v \in DOMAIN d.meta : d.meta[v].parent = q} \ {w}
      BY <2>2 DEF rest
    <3>3. CASE q = p
      BY <2>3, <3>1, <3>2, <3>3, WithoutElements
    <3>4. CASE q # p
      BY <2>3, <3>1, <3>2, <3>4
    <3> QED
      BY <3>3, <3>4
  <2>9. Agree(u, m \ {w})
    BY <1>1, <1>3, <2>2, <2>6, <2>8 DEF Agree
  <2>10. \A v \in DOMAIN d.meta \ {w} : u.meta[v] = d.meta[v]
    BY <2>6 DEF rest
  <2> QED
    BY <2>2, <2>6, <2>7, <2>9, <2>10 DEF u, r, t
<1> QED
  BY <1>5, <1>6

\* A window that is new to the tables is told to all of them.
Added(d, w, n) == AddChild(Track(d, w, n), n.parent, w)
OneMore(d, t, w, n) ==
  /\ DOMAIN t.meta = DOMAIN d.meta \cup {w} /\ t.meta[w] = n
  /\ \A v \in DOMAIN d.meta : t.meta[v] = d.meta[v]

LEMMA Addition ==
  ASSUME FocusAssumption, NEW m, NEW d, Agree(d, m), NEW w \in Windows, w \notin DOMAIN d.meta, NEW n \in Metas
  PROVE  LET t == Added(d, w, n)
         IN Agree(t, m \cup {w}) /\ SameRest(d, t) /\ OneMore(d, t, w, n)
<1> DEFINE t == Added(d, w, n)
           p == n.parent
           all == [v \in DOMAIN d.meta \cup {w} |-> IF v = w THEN n ELSE d.meta[v]]
           index == IF p = NoWindow THEN d.index ELSE [d.index EXCEPT ![p] = Append(@, w)]
<1>1. /\ d \in Desks /\ d.space \in Seq(Windows) /\ d.index \in [XWindows -> Seq(Windows)] /\ d.meta \in Tables
      /\ DOMAIN d.meta = ToSet(d.space) /\ DOMAIN d.meta \subseteq m
  BY DEF Agree, Desks
<1>2. d.meta \in [DOMAIN d.meta -> Metas] /\ DOMAIN d.meta \subseteq Windows
  BY <1>1, TableType
<1>3. Append(d.space, w) \in Seq(Windows) /\ ToSet(Append(d.space, w)) = ToSet(d.space) \cup {w}
  BY <1>1, AppendElements
<1>4. p \in XWindows \cup {NoWindow} /\ NoWindow \notin XWindows
  BY DEF Metas, FocusAssumption, Windows
<1>5. all \in Tables /\ DOMAIN all = DOMAIN d.meta \cup {w} /\ all[w] = n /\ \A v \in DOMAIN d.meta : all[v] = d.meta[v]
  <2>1. all \in [DOMAIN d.meta \cup {w} -> Metas] /\ (DOMAIN d.meta \cup {w}) \in SUBSET Windows
    BY <1>2
  <2>2. all[w] = n /\ \A v \in DOMAIN d.meta : all[v] = d.meta[v]
    OBVIOUS
  <2> HIDE DEF all
  <2> QED
    BY <2>1, <2>2, TableType
<1>6. /\ index \in [XWindows -> Seq(Windows)]
      /\ \A q \in XWindows : index[q] = IF q = p THEN Append(d.index[q], w) ELSE d.index[q]
  BY <1>1, <1>4
<1>7. t = [d EXCEPT !.space = Append(@, w), !.meta = all, !.index = index]
  BY <1>1 DEF Added, Track, AddChild, Desks
<1> HIDE DEF t, p, all, index
<1>8. t \in Desks /\ t.space = Append(d.space, w) /\ t.meta = all /\ t.index = index /\ SameRest(d, t)
  BY <1>1, <1>3, <1>5, <1>6, <1>7 DEF Desks, SameRest
<1>9. ASSUME NEW q \in XWindows
      PROVE  ToSet(index[q]) = {v \in DOMAIN all : all[v].parent = q} /\ IsInjective(index[q])
  <2>1. /\ ToSet(d.index[q]) = {v \in DOMAIN d.meta : d.meta[v].parent = q} /\ IsInjective(d.index[q])
        /\ d.index[q] \in Seq(Windows)
    BY <1>1 DEF Agree
  <2>2. CASE q = p
    <3>1. {v \in DOMAIN all : all[v].parent = q} = {v \in DOMAIN d.meta : d.meta[v].parent = q} \cup {w}
      BY <1>5, <2>2 DEF p
    <3>2. /\ ToSet(Append(d.index[q], w)) = ToSet(d.index[q]) \cup {w}
          /\ IsInjective(d.index[q]) /\ w \notin ToSet(d.index[q]) => IsInjective(Append(d.index[q], w))
      BY <2>1, AppendElements
    <3> QED
      BY <1>6, <2>1, <2>2, <3>1, <3>2
  <2>3. CASE q # p
    <3>1. {v \in DOMAIN all : all[v].parent = q} = {v \in DOMAIN d.meta : d.meta[v].parent = q}
      BY <1>5, <2>3 DEF p
    <3> QED
      BY <1>6, <2>1, <2>3, <3>1
  <2> QED
    BY <2>2, <2>3
<1>10. DOMAIN all = ToSet(t.space) /\ DOMAIN all \subseteq m \cup {w}
  BY <1>1, <1>3, <1>5, <1>8
<1>11. Agree(t, m \cup {w})
  BY <1>8, <1>9, <1>10 DEF Agree
<1> QED
  BY <1>5, <1>8, <1>11 DEF t, OneMore

\* Tables in which the metadata names the same windows and parents agree as well.
LEMMA StillAgree ==
  ASSUME NEW m, NEW d, Agree(d, m), NEW t \in Desks, t.index = d.index, ToSet(t.space) = ToSet(d.space),
         DOMAIN t.meta = DOMAIN d.meta, \A w \in DOMAIN d.meta : t.meta[w].parent = d.meta[w].parent
  PROVE  Agree(t, m)
<1>1. ASSUME NEW p \in XWindows
      PROVE  {w \in DOMAIN t.meta : t.meta[w].parent = p} = {w \in DOMAIN d.meta : d.meta[w].parent = p}
  OBVIOUS
<1> QED
  BY <1>1 DEF Agree

-----------------------------------------------------------------------------

\* The properties that are read of the windows in the tables are those of windows.
PropsRead(d, ps) == \A w \in XWindows \cap DOMAIN d.meta : ps[w] \in Properties

\* What a special window is chosen for, its flag, it has.
LEMMA BestIsSpecial ==
  ASSUME NEW d, NEW m, Agree(d, m), NEW flag PROVE BestOf(d, flag) \in Special(d) \cup {NoWindow}
<1> DEFINE all == {w \in ToSet(d.space) : Has(d, w, flag)}
           S == {w \in all : \A v \in all : d.meta[v].opacity <= d.meta[w].opacity}
           top == Kept(d.space, S)
<1>1. d.space \in Seq(Windows) /\ BestOf(d, flag) = IF top = <<>> THEN NoWindow ELSE Last(top)
  BY DEF Agree, Desks, BestOf
<1>2. S \subseteq Special(d)
  BY DEF Has, Tracked, Special
<1>3. top \in Seq(Windows) /\ ToSet(top) \subseteq S
  <2> HIDE DEF S
  <2> QED
    BY <1>1, KeptElements
<1> HIDE DEF top, S
<1>4. top # <<>> => Last(top) \in ToSet(top)
  BY <1>3, EndElements
<1> QED
  BY <1>1, <1>2, <1>3, <1>4

\* A table that is changed in some fields of the windows' metadata.
SameWindows(d, t) ==
  /\ DOMAIN t.meta = DOMAIN d.meta
  /\ \A w \in DOMAIN d.meta : t.meta[w].parent = d.meta[w].parent /\ t.meta[w].flags = d.meta[w].flags

LEMMA RefreshedTables ==
  ASSUME NEW d, NEW m, Agree(d, m), NEW ps, PropsRead(d, ps)
  PROVE  LET t == refresh_metadata(d, ps)
         IN Agree(t, m) /\ SameWindows(d, t) /\ SameRest(d, t) /\ t.space = d.space /\ AppsFound(t, ps)
<1> DEFINE fresh(w, n) == [n EXCEPT !.mode = IF "overlay" \in n.flags THEN ps[w].mode ELSE @,
                                    !.app = IF @ = 0 THEN ps[w].app ELSE @]
           meta == [w \in DOMAIN d.meta |-> IF w \in XWindows THEN fresh(w, d.meta[w]) ELSE d.meta[w]]
           t == refresh_metadata(d, ps)
<1>1. d \in Desks /\ d.meta \in Tables /\ d.meta \in [DOMAIN d.meta -> Metas] /\ DOMAIN d.meta \subseteq Windows
  BY TableType DEF Agree, Desks
<1>2. CASE ~x11
  BY <1>1, <1>2 DEF refresh_metadata, SameWindows, SameRest, AppsFound
<1>3. CASE x11
  <2>1. ASSUME NEW w \in DOMAIN d.meta
        PROVE  /\ meta[w] \in Metas /\ meta[w].parent = d.meta[w].parent /\ meta[w].flags = d.meta[w].flags
               /\ w \in XWindows /\ meta[w].app = 0 => ps[w].app = 0
    <3>1. d.meta[w] \in Metas
      BY <1>1
    <3>2. CASE w \in XWindows
      <4>1. ps[w].mode \in 0 .. 2 /\ ps[w].app \in Nat
        BY <3>2 DEF PropsRead, Properties
      <4> DEFINE mode == IF "overlay" \in d.meta[w].flags THEN ps[w].mode ELSE d.meta[w].mode
                 app == IF d.meta[w].app = 0 THEN ps[w].app ELSE d.meta[w].app
      <4>2. mode \in 0 .. 2 /\ app \in Nat
        BY <3>1, <4>1 DEF Metas
      <4>3. meta[w] = [d.meta[w] EXCEPT !.mode = mode, !.app = app]
        BY <3>1, <3>2 DEF Metas
      <4> DEFINE moded == [d.meta[w] EXCEPT !.mode = mode]
      <4> HIDE DEF mode, app, meta
      <4>4. moded \in Metas /\ moded.parent = d.meta[w].parent /\ moded.flags = d.meta[w].flags
        BY <3>1, <4>2 DEF Metas
      <4>5. meta[w] = [moded EXCEPT !.app = app]
        BY <3>1, <4>3 DEF Metas
      <4> HIDE DEF moded
      <4>6. meta[w] \in Metas /\ meta[w].parent = moded.parent /\ meta[w].flags = moded.flags /\ meta[w].app = app
        BY <4>2, <4>4, <4>5 DEF Metas
      <4>7. app = 0 => ps[w].app = 0
        BY DEF app
      <4> QED
        BY <4>4, <4>6, <4>7
    <3>3. CASE w \notin XWindows
      BY <3>1, <3>3
    <3> QED
      BY <3>2, <3>3
  <2>2. t = [d EXCEPT !.meta = meta]
    BY <1>1, <1>3 DEF refresh_metadata, Desks
  <2>3. DOMAIN meta = DOMAIN d.meta
    OBVIOUS
  <2>4. meta = [w \in DOMAIN d.meta |-> meta[w]]
    OBVIOUS
  <2> HIDE DEF meta, t
  <2>5. meta \in Tables
    <3>1. meta \in [DOMAIN d.meta -> Metas]
      BY <2>1, <2>4
    <3> QED
      BY <1>1, <3>1, TableType
  <2>6. t \in Desks /\ t.meta = meta /\ t.index = d.index /\ t.space = d.space /\ SameRest(d, t)
    BY <1>1, <2>2, <2>5 DEF Desks, SameRest
  <2>7. Agree(t, m)
    BY <2>1, <2>3, <2>6, StillAgree
  <2> QED
    BY <2>1, <2>3, <2>6, <2>7 DEF SameWindows, AppsFound, t
<1> QED
  BY <1>2, <1>3

\* classify_special_windows() of tables that agree.
LEMMA Classified ==
  ASSUME NEW d, NEW m, Agree(d, m)
  PROVE  LET t == classify_special_windows(d)
         IN /\ Agree(t, m) /\ SameWindows(d, t) /\ t.space = d.space /\ t.meta = d.meta
            /\ t.size = d.size /\ t.full = d.full /\ t.buffer = d.buffer /\ t.maps = d.maps
            /\ t.focused = d.focused /\ t.focusedX11 = d.focusedX11 /\ t.keyboard = d.keyboard
            /\ t.dropdown = d.dropdown /\ t.requested = d.requested /\ t.focusedApp = d.focusedApp
            /\ {t.overlay, t.notification, t.external} \subseteq Special(t) \cup {NoWindow}
<1> DEFINE t == classify_special_windows(d)
           o == BestOf(d, "overlay")
           n == BestOf(d, "notification")
           e == BestOf(d, "external")
<1>1. {o, n, e} \subseteq Special(d) \cup {NoWindow}
  BY BestIsSpecial
<1>2. d \in Desks /\ Special(d) \subseteq Windows
  BY TableType DEF Agree, Desks, Special
<1>3. {o, n, e} \subseteq Places
  BY <1>1, <1>2 DEF Places
<1>4. t = [d EXCEPT !.overlay = o, !.notification = n, !.external = e]
  BY DEF classify_special_windows
<1> HIDE DEF t, o, n, e
<1>5. /\ t \in Desks /\ t.space = d.space /\ t.meta = d.meta /\ t.index = d.index
      /\ t.size = d.size /\ t.full = d.full /\ t.buffer = d.buffer /\ t.maps = d.maps
      /\ t.focused = d.focused /\ t.focusedX11 = d.focusedX11 /\ t.keyboard = d.keyboard
      /\ t.dropdown = d.dropdown /\ t.requested = d.requested /\ t.focusedApp = d.focusedApp
      /\ t.overlay = o /\ t.notification = n /\ t.external = e
  BY <1>2, <1>3, <1>4 DEF Desks
<1>6. Agree(t, m)
  BY <1>5, StillAgree
<1>7. Special(t) = Special(d) /\ SameWindows(d, t)
  BY <1>5 DEF Special, SameWindows
<1> QED
  BY <1>1, <1>5, <1>6, <1>7 DEF t

-----------------------------------------------------------------------------
(* Which window gets the focus.                                            *)

Keys == [1 .. 10 -> Nat]

LEMMA KeyType == ASSUME NEW m \in Metas PROVE get_window_priority_key(m) \in Keys
BY DEF get_window_priority_key, Keys, Metas

\* Windows are ranked by a strict order.
LEMMA GreaterOrders ==
  /\ \A k \in Keys : ~Greater(k, k)
  /\ \A k, l, m \in Keys : Greater(k, l) /\ Greater(l, m) => Greater(k, m)
<1>1. \A k \in Keys : ~Greater(k, k)
  BY DEF Keys, Greater
<1>2. ASSUME NEW k \in Keys, NEW l \in Keys, NEW m \in Keys, Greater(k, l), Greater(l, m) PROVE Greater(k, m)
  <2>1. PICK i \in 1 .. 10 : k[i] > l[i] /\ \A j \in 1 .. i - 1 : k[j] = l[j]
    BY <1>2 DEF Greater, Keys
  <2>2. PICK n \in 1 .. 10 : l[n] > m[n] /\ \A j \in 1 .. n - 1 : l[j] = m[j]
    BY <1>2 DEF Greater, Keys
  <2>3. \A j \in 1 .. 10 : k[j] \in Nat /\ l[j] \in Nat /\ m[j] \in Nat
    BY DEF Keys
  <2>4. CASE i < n
    <3>1. k[i] > m[i] /\ \A j \in 1 .. i - 1 : k[j] = m[j]
      BY <2>1, <2>2, <2>3, <2>4
    <3> QED
      BY <3>1 DEF Greater, Keys
  <2>5. CASE n <= i
    <3>1. k[n] > m[n] /\ \A j \in 1 .. n - 1 : k[j] = m[j]
      BY <2>1, <2>2, <2>3, <2>5
    <3> QED
      BY <3>1 DEF Greater, Keys
  <2> QED
    BY <2>4, <2>5
<1> QED
  BY <1>1, <1>2

LEMMA TopElements ==
  ASSUME NEW d, NEW m, Agree(d, m), NEW ws \in Seq(DOMAIN d.meta), ws # <<>>
  PROVE  /\ Top(d, ws) \in Seq(DOMAIN d.meta) /\ Top(d, ws) # <<>>
         /\ ToSet(Top(d, ws)) \subseteq ToSet(ws)
<1> DEFINE T == DOMAIN d.meta
           key(w) == get_window_priority_key(d.meta[w])
           G == {p \in T \X T : Greater(key(p[1]), key(p[2]))}
           S == {w \in ToSet(ws) : \A v \in ToSet(ws) : ~Greater(key(v), key(w))}
<1>1. \A w \in T : key(w) \in Keys
  BY TableType, KeyType DEF Agree, Desks
<1> HIDE DEF key
<1>2. \A x, y \in T : <<x, y>> \in G <=> Greater(key(x), key(y))
  OBVIOUS
<1> HIDE DEF G
<1>3. \A x \in T : <<x, x>> \notin G
  BY <1>1, <1>2, GreaterOrders
<1>4. \A x, y, z \in T : <<x, y>> \in G /\ <<y, z>> \in G => <<x, z>> \in G
  BY <1>1, <1>2, GreaterOrders
<1> HIDE DEF T
<1>5. \E w \in ToSet(ws) : \A v \in ToSet(ws) : <<v, w>> \notin G
  BY <1>3, <1>4, Maximal DEF T
<1>6. ToSet(ws) \subseteq T
  BY DEF T, ToSet
<1>7. ToSet(ws) \cap S # {}
  BY <1>2, <1>5, <1>6
<1>8. Top(d, ws) = Kept(ws, S)
  BY DEF Top, key
<1> HIDE DEF S
<1>9. Kept(ws, S) \in Seq(T) /\ ToSet(Kept(ws, S)) = ToSet(ws) \cap S
  BY KeptElements DEF T
<1> QED
  BY <1>7, <1>8, <1>9, EmptyList DEF T

LEMMA Candidates ==
  ASSUME NEW d, NEW m, Agree(d, m)
  PROVE  build_candidates(d) \in Seq(DOMAIN d.meta)
<1>1. d.space \in Seq(DOMAIN d.meta)
  BY DEF Agree, Desks, ToSet
<1> DEFINE S == {w \in DOMAIN d.meta : /\ w \in Toplevels => d.buffer[w] # "unmapped"
                                       /\ d.meta[w].flags = {}
                                       /\ ~(d.meta[w].or /\ d.meta[w].app = 0)}
<1>2. build_candidates(d) = Kept(d.space, S)
  BY DEF build_candidates
<1> HIDE DEF S
<1> QED
  BY <1>1, <1>2, KeptElements

LEMMA Picked ==
  ASSUME NEW d, NEW m, Agree(d, m), NEW cs \in Seq(DOMAIN d.meta), cs # <<>>
  PROVE  pick_best_candidate(d, cs) \in DOMAIN d.meta
<1> DEFINE asks == read_focus_control
           S == {w \in ToSet(cs) : d.meta[w].app \in asks.apps}
           ofSteam == Kept(cs, S)
<1>1. ToSet(cs) \subseteq DOMAIN d.meta
  BY DEF ToSet
<1>2. pick_best_candidate(d, cs) =
        IF d.requested \in ToSet(cs) THEN d.requested
        ELSE IF asks.window \in ToSet(cs) THEN asks.window
        ELSE IF ofSteam # <<>> THEN Head(Top(d, ofSteam)) ELSE Last(Top(d, cs))
  BY DEF pick_best_candidate
<1> HIDE DEF asks, S
<1>3. ofSteam \in Seq(DOMAIN d.meta)
  BY KeptElements
<1> HIDE DEF ofSteam
<1>4. \A ws \in Seq(DOMAIN d.meta) : ws # <<>> => {Head(Top(d, ws)), Last(Top(d, ws))} \subseteq DOMAIN d.meta
  BY TopElements, EndElements
<1> QED
  BY <1>1, <1>2, <1>3, <1>4

\* One step of promote_transient_child(), and all of them.
Promoted(d, s) ==
  LET children == IF s.at \notin XWindows THEN <<>>
                  ELSE Kept(d.index[s.at], {c \in DOMAIN d.meta \ s.seen : d.meta[c].parent = s.at})
      proper == Kept(children, {c \in DOMAIN d.meta : ~IsDropdown(d.meta[c])})
  IN IF s.found # NoWindow \/ children = <<>> THEN s
     ELSE IF proper # <<>> THEN [s EXCEPT !.found = Head(proper)]
     ELSE [at |-> Head(children), seen |-> s.seen \cup {Head(children)}, found |-> NoWindow]
Promotion(d, w) ==
  CHOOSE step : step = [n \in 0 .. 10 |-> IF n = 0 THEN [at |-> w, seen |-> {w}, found |-> NoWindow]
                                          ELSE Promoted(d, step[n - 1])]
Promotions(W) == [at : W, seen : SUBSET W, found : W \cup {NoWindow}]

LEMMA PromotedStays ==
  ASSUME NEW d, NEW m, Agree(d, m), NEW s \in Promotions(DOMAIN d.meta)
  PROVE  Promoted(d, s) \in Promotions(DOMAIN d.meta)
<1> DEFINE W == DOMAIN d.meta
           C == {c \in W \ s.seen : d.meta[c].parent = s.at}
           D == {c \in W : ~IsDropdown(d.meta[c])}
           children == IF s.at \notin XWindows THEN <<>> ELSE Kept(d.index[s.at], C)
           proper == Kept(children, D)
<1>1. s.at \in W /\ s.seen \in SUBSET W /\ s.found \in W \cup {NoWindow}
      /\ s = [at |-> s.at, seen |-> s.seen, found |-> s.found]
  BY DEF Promotions
<1>2. Promoted(d, s) = IF s.found # NoWindow \/ children = <<>> THEN s
                       ELSE IF proper # <<>> THEN [s EXCEPT !.found = Head(proper)]
                       ELSE [at |-> Head(children), seen |-> s.seen \cup {Head(children)}, found |-> NoWindow]
  BY DEF Promoted
<1>3. C \subseteq W /\ D \subseteq W
  OBVIOUS
<1>4. children \in Seq(Windows) /\ ToSet(children) \subseteq C
  <2> HIDE DEF C, W, proper
  <2>1. <<>> \in Seq(Windows) /\ ToSet(<<>>) = {}
    BY DEF ToSet
  <2>2. \A p \in XWindows : d.index[p] \in Seq(Windows)
    BY DEF Agree, Desks
  <2>3. \A p \in XWindows : Kept(d.index[p], C) \in Seq(Windows) /\ ToSet(Kept(d.index[p], C)) \subseteq C
    BY <2>2, KeptElements
  <2> QED
    BY <2>1, <2>3
<1> HIDE DEF W, C, D, children
<1>5. proper \in Seq(Windows) /\ ToSet(proper) \subseteq D
  BY <1>4, KeptElements
<1> HIDE DEF proper
<1>6. children # <<>> => Head(children) \in W
  BY <1>3, <1>4, EndElements
<1>7. proper # <<>> => Head(proper) \in W
  BY <1>3, <1>5, EndElements
<1> SUFFICES Promoted(d, s) \in Promotions(W)
  BY DEF W
<1> QED
  BY <1>1, <1>2, <1>6, <1>7 DEF Promotions

\* A window with its metadata, or one of its children, is promoted.
LEMMA PromotedTracked ==
  ASSUME NEW d, NEW m, Agree(d, m), NEW w \in DOMAIN d.meta
  PROVE  promote_transient_child(d, w) \in DOMAIN d.meta
<1> DEFINE V == Promotions(DOMAIN d.meta)
           v == [at |-> w, seen |-> {w}, found |-> NoWindow]
           g == [x \in Nat \X V |-> Promoted(d, x[2])]
           k == Promotion(d, w)
<1>1. v \in V
  BY DEF Promotions
<1>2. g \in [Nat \X V -> V] /\ \A n \in Nat, x \in V : g[<<n, x>>] = Promoted(d, x)
  BY PromotedStays
<1> HIDE DEF g, V, v
<1>3. PICK f \in [0 .. 10 -> V] : \A n \in 0 .. 10 : f[n] = IF n = 0 THEN v ELSE g[<<n, f[n - 1]>>]
  <2>1. 10 \in Nat
    OBVIOUS
  <2> DEFINE max == 10
  <2> HIDE DEF max
  <2>2. RecursiveOn(V, v, g, max)
    BY <1>1, <1>2, <2>1, Recursion DEF max
  <2> QED
    BY <2>2 DEF max, RecursiveOn
<1>4. ASSUME NEW n \in 0 .. 10 PROVE f[n] = IF n = 0 THEN v ELSE Promoted(d, f[n - 1])
  <2>1. n # 0 => n - 1 \in 0 .. 10 /\ n \in Nat
    OBVIOUS
  <2> QED
    BY <1>2, <1>3, <2>1
<1>5. f = [n \in 0 .. 10 |-> IF n = 0 THEN v ELSE Promoted(d, f[n - 1])]
  <2>1. f = [n \in 0 .. 10 |-> f[n]]
    BY <1>3
  <2> HIDE <1>3
  <2> QED
    BY <1>4, <2>1
<1>6. k = [n \in 0 .. 10 |-> IF n = 0 THEN v ELSE Promoted(d, k[n - 1])]
  BY <1>5 DEF Promotion, v
<1>7. k[0] = v /\ \A n \in Nat : n + 1 <= 10 => k[n + 1] = Promoted(d, k[n])
  <2>1. k[0] = v
    BY <1>6
  <2>2. ASSUME NEW n \in Nat, n + 1 <= 10 PROVE k[n + 1] = Promoted(d, k[n])
    <3>1. n + 1 \in 0 .. 10 /\ n + 1 # 0 /\ (n + 1) - 1 = n
      BY <2>2
    <3> QED
      BY <1>6, <3>1
  <2> QED
    BY <2>1, <2>2
<1> DEFINE A == {n \in Nat : n <= 10 => k[n] \in V}
<1>8. 0 \in A
  BY <1>1, <1>7
<1>9. ASSUME NEW n \in Nat, n \in A PROVE n + 1 \in A
  <2>1. n + 1 <= 10 => n <= 10
    OBVIOUS
  <2> QED
    BY <1>7, <1>9, <2>1, PromotedStays DEF V
<1> HIDE DEF A
<1>10. 10 \in A
  BY <1>8, <1>9, Induction
<1>11. k[10] \in V
  BY <1>10 DEF A
<1>12. promote_transient_child(d, w) = IF k[10].found = NoWindow THEN w ELSE k[10].found
  BY DEF promote_transient_child, Promotion, Promoted
<1> QED
  BY <1>11, <1>12 DEF V, Promotions

-----------------------------------------------------------------------------
(* Evaluating the focus leaves it where it can be.                         *)

LEMMA AgreeMore == ASSUME NEW d, NEW m, Agree(d, m), NEW n, m \subseteq n PROVE Agree(d, n)
BY DEF Agree

LEMMA DropdownsCleared ==
  ASSUME FocusAssumption, NEW d, NEW m, Agree(d, m)
  PROVE  LET t == clear_dropdowns(d)
         IN /\ Agree(t, m) /\ DOMAIN t.meta \subseteq DOMAIN d.meta
            /\ \A w \in DOMAIN t.meta : t.meta[w] = d.meta[w]
            /\ t.focused = d.focused /\ t.focusedX11 = d.focusedX11 /\ t.keyboard = d.keyboard
            /\ t.overlay = d.overlay /\ t.notification = d.notification /\ t.external = d.external
            /\ t.focusedApp = d.focusedApp /\ t.dropdown = NoWindow
            /\ DropdownPlain(d) => Special(d) \subseteq Special(t) \cup twofold
<1> DEFINE t == clear_dropdowns(d)
           e == d.dropdown
           d0 == [d EXCEPT !.dropdown = NoWindow]
<1>1. d \in Desks /\ e \in Places
  BY DEF Agree, Desks
<1>2. CASE e = NoWindow
  <2>1. t = d
    BY <1>2 DEF clear_dropdowns
  <2> HIDE DEF t
  <2> QED
    BY <1>2, <2>1 DEF t
<1>3. CASE e # NoWindow
  <2>1. e \in Windows
    BY <1>1, <1>3 DEF Places
  <2>2. /\ d0 \in Desks /\ d0.index = d.index /\ d0.meta = d.meta /\ d0.space = d.space /\ d0.dropdown = NoWindow
        /\ d0.focused = d.focused /\ d0.focusedX11 = d.focusedX11 /\ d0.keyboard = d.keyboard
        /\ d0.overlay = d.overlay /\ d0.notification = d.notification /\ d0.external = d.external
        /\ d0.focusedApp = d.focusedApp
    BY <1>1 DEF Desks, Places
  <2>3. t = unregister_window(unmap_elem(d0, e), e)
    BY <1>3 DEF clear_dropdowns
  <2> HIDE DEF t, d0
  <2>4. Agree(d0, m)
    BY <2>2, StillAgree
  <2>5. /\ Agree(t, m \ {e}) /\ SameRest(d0, t)
        /\ DOMAIN t.meta = DOMAIN d0.meta \ {e}
        /\ \A v \in DOMAIN d0.meta \ {e} : t.meta[v] = d0.meta[v]
    BY <2>1, <2>3, <2>4, Removal
  <2>6. Agree(t, m)
    BY <2>5, AgreeMore
  <2>7. DropdownPlain(d) => Special(d) \subseteq Special(t) \cup twofold
    BY <1>3, <2>2, <2>5 DEF DropdownPlain, Special, Plain
  <2> QED
    BY <2>2, <2>5, <2>6, <2>7 DEF SameRest, t
<1> QED
  BY <1>2, <1>3

LEMMA FocusApplied ==
  ASSUME FocusAssumption, x11 \in BOOLEAN, NEW d, NEW m, Agree(d, m), NEW best \in DOMAIN d.meta,
         {d.overlay, d.notification, d.external} \subseteq Special(d) \cup {NoWindow}
  PROVE  LET t == apply_focus(d, best)
         IN /\ Agree(t, m) /\ FocusKept(t, m)
            /\ DropdownPlain(d) => RolesKept(t)
            /\ \A w \in DOMAIN t.meta : w \in DOMAIN d.meta /\ t.meta[w] = d.meta[w]
<1> DEFINE x == IF best \in XWindows THEN best ELSE NoWindow
           app == set_focused_app(d, d.meta[best].app)
           told == [d EXCEPT !.focusedX11 = x, !.focused = best, !.focusedApp = app]
           e == IF d.focusedX11 # x \/ d.focused # best THEN clear_dropdowns(told) ELSE told
           mode == IF Tracked(e, e.overlay) THEN e.meta[e.overlay].mode ELSE 0
           keyboard == IF mode \in {0, 2} THEN best ELSE e.overlay
           t == apply_focus(d, best)
<1>1. d \in Desks /\ d.meta \in [DOMAIN d.meta -> Metas] /\ DOMAIN d.meta \subseteq Windows /\ DOMAIN d.meta \subseteq m
  BY TableType DEF Agree, Desks
<1>2. d.meta[best].app \in Nat /\ best \in Places /\ x \in Places
  BY <1>1 DEF Metas, Places
<1>3. app \in Nat /\ (x11 => app = d.meta[best].app)
  BY <1>1, <1>2 DEF set_focused_app, Desks
<1> HIDE DEF app, x
<1>4. /\ told \in Desks /\ told.space = d.space /\ told.meta = d.meta /\ told.index = d.index
      /\ told.focused = best /\ told.focusedX11 = x /\ told.focusedApp = app
      /\ told.overlay = d.overlay /\ told.notification = d.notification /\ told.external = d.external
      /\ told.dropdown = d.dropdown
  BY <1>1, <1>2, <1>3 DEF Desks
<1>5. t = [e EXCEPT !.keyboard = keyboard]
  BY DEF apply_focus, x, app
<1> HIDE DEF told
<1>6. Agree(told, m)
  BY <1>4, StillAgree
<1>7. Special(told) = Special(d) /\ (DropdownPlain(d) <=> DropdownPlain(told))
  BY <1>4 DEF Special, DropdownPlain, Plain
<1>8. /\ Agree(e, m) /\ e.focused = best /\ e.focusedX11 = x /\ e.focusedApp = app
      /\ \A w \in DOMAIN e.meta : w \in DOMAIN d.meta /\ e.meta[w] = d.meta[w]
      /\ e.overlay = d.overlay /\ e.notification = d.notification /\ e.external = d.external
      /\ DropdownPlain(d) => DropdownPlain(e) /\ Special(d) \subseteq Special(e) \cup twofold
  <2>1. CASE e = told
    BY <1>4, <1>6, <1>7, <2>1
  <2>2. CASE e = clear_dropdowns(told)
    <3> HIDE DEF e
    <3>1. /\ Agree(e, m) /\ DOMAIN e.meta \subseteq DOMAIN told.meta
          /\ \A w \in DOMAIN e.meta : e.meta[w] = told.meta[w]
          /\ e.focused = told.focused /\ e.focusedX11 = told.focusedX11
          /\ e.overlay = told.overlay /\ e.notification = told.notification /\ e.external = told.external
          /\ e.focusedApp = told.focusedApp /\ e.dropdown = NoWindow
          /\ DropdownPlain(told) => Special(told) \subseteq Special(e) \cup twofold
      BY <1>6, <2>2, DropdownsCleared
    <3> QED
      BY <1>4, <1>7, <3>1 DEF DropdownPlain
  <2> QED
    BY <2>1, <2>2
<1> HIDE DEF e
<1>9. e \in Desks /\ keyboard \in {best, e.overlay} /\ keyboard \in Places
  BY <1>2, <1>8 DEF Agree, Desks
<1>9a. keyboard = best \/ keyboard \in Special(e)
  <2>1. CASE Tracked(e, e.overlay)
    <3>1. e.meta[e.overlay] = d.meta[d.overlay] /\ d.overlay \in DOMAIN d.meta /\ d.overlay # NoWindow
      BY <1>1, <1>8, <2>1 DEF Tracked, FocusAssumption
    <3>2. d.meta[d.overlay].flags # {}
      BY <3>1 DEF Special
    <3> QED
      BY <1>8, <2>1, <3>1, <3>2 DEF Tracked, Special
  <2>2. CASE ~Tracked(e, e.overlay)
    BY <2>2
  <2> QED
    BY <2>1, <2>2
<1> HIDE DEF keyboard, t
<1>10. /\ t \in Desks /\ t.meta = e.meta /\ t.index = e.index /\ t.space = e.space /\ t.keyboard = keyboard
       /\ t.focused = e.focused /\ t.focusedX11 = e.focusedX11 /\ t.focusedApp = e.focusedApp
       /\ t.overlay = e.overlay /\ t.notification = e.notification /\ t.external = e.external
       /\ t.dropdown = e.dropdown
  BY <1>5, <1>9 DEF Desks
<1>11. Agree(t, m)
  BY <1>8, <1>10, StillAgree
<1>12. FocusKept(t, m)
  <2>1. best \in m /\ best # NoWindow
    BY <1>1 DEF FocusAssumption
  <2> QED
    BY <1>3, <1>8, <1>10, <2>1 DEF FocusKept, x
<1>13. ASSUME DropdownPlain(d) PROVE RolesKept(t)
  <2>1. Special(t) = Special(e) /\ Special(d) \subseteq Special(t) \cup twofold /\ DropdownPlain(t)
    BY <1>8, <1>10, <1>13 DEF Special, DropdownPlain, Plain
  <2> QED
    BY <1>8, <1>9a, <1>10, <2>1 DEF RolesKept
<1> QED
  BY <1>8, <1>10, <1>11, <1>12, <1>13 DEF t

LEMMA Reevaluated ==
  ASSUME FocusAssumption, x11 \in BOOLEAN, NEW d, NEW m, Agree(d, m), NEW ps, PropsRead(d, ps)
  PROVE  LET t == reevaluate_focus(d, ps)
         IN /\ Agree(t, m) /\ FocusKept(t, m) /\ AppsFound(t, ps)
            /\ DropdownPlain(d) => RolesKept(t)
<1> DEFINE r == refresh_metadata(d, ps)
           c == classify_special_windows(r)
           cs == build_candidates(c)
           picked == pick_best_candidate(c, cs)
           best == promote_transient_child(c, picked)
           asked == [c EXCEPT !.requested = IF @ \in ToSet(cs) THEN NoWindow ELSE @]
           none == [c EXCEPT !.focused = NoWindow, !.focusedX11 = NoWindow, !.keyboard = NoWindow,
                             !.focusedApp = set_focused_app(c, 0)]
           fitted == enforce_fullscreen_geometry(asked, best)
           t == reevaluate_focus(d, ps)
<1>1. t = IF cs = <<>> THEN none ELSE apply_focus(fitted, best)
  BY DEF reevaluate_focus
<1> HIDE DEF t
<1>2. Agree(r, m) /\ SameWindows(d, r) /\ SameRest(d, r) /\ AppsFound(r, ps)
  BY RefreshedTables
<1> HIDE DEF r
<1>3. /\ Agree(c, m) /\ SameWindows(r, c) /\ c.dropdown = r.dropdown /\ c.meta = r.meta
      /\ {c.overlay, c.notification, c.external} \subseteq Special(c) \cup {NoWindow}
  BY <1>2, Classified
<1> HIDE DEF c
<1>4. DropdownPlain(d) => DropdownPlain(c)
  BY <1>2, <1>3 DEF SameRest, SameWindows, DropdownPlain, Plain
<1>5. c \in Desks /\ c.size \in [XWindows -> Sizes]
  BY <1>3 DEF Agree, Desks
<1>9. ASSUME \A w \in DOMAIN t.meta : w \in DOMAIN c.meta /\ t.meta[w] = c.meta[w] PROVE AppsFound(t, ps)
  BY <1>2, <1>3, <1>9 DEF AppsFound
<1>6. cs \in Seq(DOMAIN c.meta)
  BY <1>3, Candidates
<1> HIDE DEF cs
<1>7. CASE cs = <<>>
  <2>1. set_focused_app(c, 0) \in Nat /\ (x11 => set_focused_app(c, 0) = 0)
    BY <1>5 DEF set_focused_app, Desks
  <2>2. NoWindow \in Places
    BY DEF Places
  <2>3. /\ none \in Desks /\ none.meta = c.meta /\ none.index = c.index /\ none.space = c.space
        /\ none.focused = NoWindow /\ none.focusedX11 = NoWindow /\ none.keyboard = NoWindow
        /\ (x11 => none.focusedApp = 0) /\ none.dropdown = c.dropdown
        /\ none.overlay = c.overlay /\ none.notification = c.notification /\ none.external = c.external
    BY <1>5, <2>1, <2>2 DEF Desks
  <2>4. t = none
    BY <1>1, <1>7
  <2> HIDE DEF none
  <2>5. Agree(none, m)
    BY <1>3, <2>3, StillAgree
  <2>6. FocusKept(none, m)
    <3>1. NoWindow \notin DOMAIN none.meta /\ NoWindow \notin XWindows
      BY <2>5, TableType DEF Agree, Desks, FocusAssumption, Windows
    <3> QED
      BY <2>3, <3>1 DEF FocusKept
  <2>7. DropdownPlain(d) => RolesKept(none)
    BY <1>3, <1>4, <2>3 DEF RolesKept, Special, DropdownPlain, Plain
  <2> QED
    BY <1>9, <2>3, <2>4, <2>5, <2>6, <2>7 DEF t
<1>8. CASE cs # <<>>
  <2>1. picked \in DOMAIN c.meta
    BY <1>3, <1>6, <1>8, Picked
  <2> HIDE DEF picked
  <2>2. best \in DOMAIN c.meta
    BY <1>3, <2>1, PromotedTracked
  <2> HIDE DEF best
  <2>3. /\ asked \in Desks /\ asked.meta = c.meta /\ asked.index = c.index /\ asked.space = c.space
        /\ asked.overlay = c.overlay /\ asked.notification = c.notification /\ asked.external = c.external
        /\ asked.dropdown = c.dropdown
    <3>1. NoWindow \in Places
      BY DEF Places
    <3> DEFINE req == IF c.requested \in ToSet(cs) THEN NoWindow ELSE c.requested
    <3>2. asked = [c EXCEPT !.requested = req] /\ req \in Places
      BY <1>5, <3>1 DEF Desks
    <3> HIDE DEF req
    <3> QED
      BY <1>5, <3>2 DEF Desks
  <2> HIDE DEF asked
  <2>4. /\ fitted \in Desks /\ fitted.meta = c.meta /\ fitted.index = c.index /\ fitted.space = c.space
        /\ fitted.overlay = c.overlay /\ fitted.notification = c.notification /\ fitted.external = c.external
        /\ fitted.dropdown = c.dropdown
    <3>1. CASE fitted = asked
      BY <2>3, <3>1
    <3>2. CASE best \in XWindows /\ fitted = [asked EXCEPT !.size[best] = "wide"]
      BY <2>3, <3>2 DEF Desks, Sizes
    <3> QED
      BY <3>1, <3>2 DEF enforce_fullscreen_geometry
  <2> HIDE DEF fitted
  <2>5. Agree(fitted, m)
    BY <1>3, <2>4, StillAgree
  <2>6. Special(fitted) = Special(c) /\ (DropdownPlain(d) => DropdownPlain(fitted))
    BY <1>4, <2>4 DEF Special, DropdownPlain, Plain
  <2>7. t = apply_focus(fitted, best)
    BY <1>1, <1>8
  <2> QED
    <3>1. /\ Agree(t, m) /\ FocusKept(t, m) /\ (DropdownPlain(fitted) => RolesKept(t))
          /\ \A w \in DOMAIN t.meta : w \in DOMAIN fitted.meta /\ t.meta[w] = fitted.meta[w]
      BY <1>3, <2>2, <2>4, <2>5, <2>6, <2>7, FocusApplied
    <3> QED
      BY <1>9, <2>4, <2>6, <3>1 DEF t
<1> QED
  BY <1>7, <1>8

-----------------------------------------------------------------------------
(* The steps.                                                              *)

\* What a step keeps besides: the roles, with the windows that are twofold before it or
\* after it, and the applications of the windows.
RolesStep ==
  /\ RolesKept(desk) => RolesKept(desk') \/ RolesKept(desk)'
  /\ AppsKnown => AppsKnown'

LEMMA MetadataType ==
  ASSUME x11 \in BOOLEAN, NEW d \in Desks, NEW w \in XWindows, NEW p \in Properties
  PROVE  /\ Metadata(d, w, p) \in Metas /\ Metadata(d, w, p).parent = p.parent /\ Metadata(d, w, p).app = ReadProp(p.app)
         /\ Metadata(d, w, p).or = p.or
<1>1. d.size[w] \in Sizes
  BY DEF Desks
<1>2. /\ p.or \in BOOLEAN /\ p.app \in Nat /\ p.parent \in XWindows \cup {NoWindow} /\ p.mode \in 0 .. 2
      /\ p.opacity \in 0 .. 255 /\ p.disabled \in BOOLEAN /\ p.overlay \in BOOLEAN
      /\ p.special \in {"none", "external", "skip"}
  BY DEF Properties
<1>3. ReadProp(p.app) \in Nat /\ ReadProp(p.mode) \in 0 .. 2 /\ ReadProp(p.opacity) \in 0 .. 255
  BY <1>2 DEF ReadProp
<1>4. (p.type = "dialog") \in BOOLEAN /\ (w \in d.full) \in BOOLEAN /\ (p.or /\ p.parent # NoWindow) \in BOOLEAN
      /\ (p.or /\ d.size[w] # "tiny" /\ (p.type \in {"dialog", "menu"} \/ p.parent # NoWindow)) \in BOOLEAN
  OBVIOUS
<1> DEFINE flags == IF ~x11 THEN {}
                    ELSE (IF ~p.overlay THEN {} ELSE IF d.size[w] = "wide" THEN {"overlay"} ELSE {"notification"})
                         \cup ({p.special} \ {"none"})
<1>5. flags \in SUBSET Flags
  BY <1>2 DEF Flags
<1>6. 0 \in Nat
  OBVIOUS
<1> HIDE DEF flags
<1>7. Metadata(d, w, p) =
        [x11 |-> TRUE, or |-> p.or, parent |-> p.parent, seq |-> 0, fullscreen |-> w \in d.full,
         app |-> ReadProp(p.app), mode |-> ReadProp(p.mode), opacity |-> ReadProp(p.opacity),
         size |-> d.size[w], disabled |-> p.disabled, dialog |-> p.type = "dialog",
         maybe |-> p.or /\ d.size[w] # "tiny" /\ (p.type \in {"dialog", "menu"} \/ p.parent # NoWindow),
         skip |-> p.or /\ p.parent # NoWindow, flags |-> flags]
  BY DEF Metadata, AppOf, flags
<1>8. Metadata(d, w, p) \in Metas
  BY <1>1, <1>2, <1>3, <1>4, <1>5, <1>6, <1>7 DEF Metas
<1> QED
  BY <1>5, <1>7, <1>8

\* What the compositor has noted of a window is replaced.
Noted(d, w, n) == [d EXCEPT !.meta[w] = n]

LEMMA NotedTables ==
  ASSUME NEW d, NEW m, Agree(d, m), NEW w \in DOMAIN d.meta, NEW n \in Metas, n.parent = d.meta[w].parent
  PROVE  LET t == Noted(d, w, n)
         IN /\ Agree(t, m) /\ SameRest(d, t) /\ DOMAIN t.meta = DOMAIN d.meta
            /\ t.meta[w] = n /\ (\A v \in DOMAIN d.meta \ {w} : t.meta[v] = d.meta[v])
            /\ t.index = d.index /\ t.space = d.space
<1> DEFINE meta == [d.meta EXCEPT ![w] = n]
           t == Noted(d, w, n)
<1>1. d \in Desks /\ d.meta \in [DOMAIN d.meta -> Metas] /\ DOMAIN d.meta \subseteq Windows
  BY TableType DEF Agree, Desks
<1>2. /\ DOMAIN meta = DOMAIN d.meta /\ meta \in [DOMAIN d.meta -> Metas]
      /\ meta[w] = n /\ \A v \in DOMAIN d.meta \ {w} : meta[v] = d.meta[v]
  BY <1>1
<1>3. t = [d EXCEPT !.meta = meta]
  BY <1>1 DEF Noted, Desks
<1> HIDE DEF meta, t
<1>4. meta \in Tables
  BY <1>1, <1>2, TableType
<1>5. t \in Desks /\ t.meta = meta /\ t.index = d.index /\ t.space = d.space /\ SameRest(d, t)
  BY <1>1, <1>3, <1>4 DEF Desks, SameRest
<1>6. \A v \in DOMAIN d.meta : t.meta[v].parent = d.meta[v].parent
  BY <1>2, <1>5
<1>7. Agree(t, m)
  BY <1>2, <1>5, <1>6, StillAgree
<1> QED
  BY <1>2, <1>5, <1>7 DEF t

LEMMA Readable ==
  ASSUME FocusAssumption, NEW d, NEW m, Agree(d, m), NEW ps,
         \A w \in XWindows : ps[w] \in Props[w] \cup {NoProps} /\ (w \in m => ps[w] # NoProps)
  PROVE  PropsRead(d, ps)
BY DEF Agree, PropsRead, FocusAssumption

LEMMA FocusInvInit == ASSUME FocusAssumption, FocusInit PROVE FocusInv /\ RolesKept(desk)
<1>1. PropsKnown
  BY DEF FocusInit, X11Opens, PropsKnown, NoProps, Exists
<1>2. Desk \in Desks /\ Desk.space = <<>> /\ Desk.meta = <<>> /\ Desk.index = [w \in XWindows |-> <<>>]
      /\ Desk.focused = NoWindow /\ Desk.focusedX11 = NoWindow /\ Desk.focusedApp = 0 /\ Desk.dropdown = NoWindow
      /\ Desk.keyboard = NoWindow /\ Desk.overlay = NoWindow /\ Desk.notification = NoWindow /\ Desk.external = NoWindow
  <2>1. <<>> \in Tables
    <3>1. <<>> \in [{} -> Metas] /\ {} \in SUBSET Windows
      OBVIOUS
    <3> QED
      BY <3>1, TableType
  <2>2. <<>> \in Seq(Windows) /\ [w \in XWindows |-> <<>>] \in [XWindows -> Seq(Windows)]
    OBVIOUS
  <2>3. [w \in XWindows |-> "wide"] \in [XWindows -> Sizes]
    BY DEF Sizes
  <2>4. [w \in Toplevels |-> "new"] \in [Toplevels -> {"new", "mapped", "unmapped"}]
    OBVIOUS
  <2>5. NoWindow \in Places /\ 0 \in Nat /\ {} \in SUBSET XWindows
    BY DEF Places
  <2> QED
    BY <2>1, <2>2, <2>3, <2>4, <2>5 DEF Desk, Desks
<1>3. DOMAIN <<>> = {} /\ ToSet(<<>>) = {} /\ IsInjective(<<>>)
  BY DEF ToSet, IsInjective
<1>4. Agree(Desk, {})
  BY <1>2, <1>3 DEF Agree
<1>5. FocusKept(Desk, {})
  BY <1>2, <1>3 DEF FocusKept, FocusAssumption, Windows
<1>6. RolesKept(Desk)
  BY <1>2 DEF RolesKept, DropdownPlain
<1> QED
  BY <1>1, <1>4, <1>5, <1>6 DEF FocusInit, FocusInv

LEMMA KnownMore ==
  ASSUME FocusInv
  PROVE  /\ x11 \in BOOLEAN /\ desk \in Desks /\ DOMAIN desk.meta = ToSet(desk.space) /\ DOMAIN desk.meta \subseteq mapped
         /\ \A w \in XWindows : props[w] \in Props[w] \cup {NoProps} /\ (w \in mapped => props[w] # NoProps)
         /\ mapped \subseteq Windows
         /\ \A w \in Windows : InSpace(desk, w) <=> Tracked(desk, w)
         /\ desk.meta \in [DOMAIN desk.meta -> Metas]
BY TableType DEF FocusInv, PropsKnown, Agree, Exists, InSpace, Tracked, Desks

\* Windows and their processes that are the same keep their applications.
LEMMA AppsStay ==
  ASSUME x11' = x11,
         \A w \in XWindows \cap DOMAIN desk'.meta :
           /\ w \in DOMAIN desk.meta /\ desk'.meta[w].app = desk.meta[w].app
           /\ props'[w].app = props[w].app
  PROVE  AppsKnown => AppsKnown'
BY DEF AppsKnown, AppsFound

LEMMA StepNewWindow ==
  ASSUME FocusAssumption, FocusInv, NEW w \in XWindows, NewWindow(w) PROVE FocusInv' /\ RolesStep
<1>1. PICK p \in Props[w] : props' = [props EXCEPT ![w] = p] /\ desk' = [desk EXCEPT !.size[w] = p.size]
  BY DEF NewWindow
<1>2. mapped' = mapped /\ x11' = x11 /\ w \notin mapped
  BY KnownMore DEF NewWindow, SteamStill, Exists
<1>3. p.size \in Sizes
  BY DEF FocusAssumption, Properties
<1>4. /\ desk' \in Desks /\ desk'.meta = desk.meta /\ desk'.index = desk.index /\ desk'.space = desk.space
      /\ desk'.focused = desk.focused /\ desk'.focusedX11 = desk.focusedX11 /\ desk'.focusedApp = desk.focusedApp
      /\ desk'.overlay = desk.overlay /\ desk'.notification = desk.notification
      /\ desk'.external = desk.external /\ desk'.dropdown = desk.dropdown /\ desk'.keyboard = desk.keyboard
  BY <1>1, <1>3, KnownMore DEF Desks
<1>5. PropsKnown'
  <2>1. props' = [v \in XWindows |-> props'[v]] /\ props'[w] = p /\ \A v \in XWindows \ {w} : props'[v] = props[v]
    BY <1>1 DEF FocusInv, PropsKnown
  <2> QED
    BY <1>2, <2>1 DEF FocusInv, PropsKnown, Exists
<1>6. Agree(desk', mapped)
  BY <1>4, StillAgree DEF FocusInv
<1>7. FocusKept(desk', mapped)
  BY <1>4 DEF FocusInv, FocusKept
<1>8. RolesKept(desk) => RolesKept(desk')
  BY <1>4 DEF RolesKept, DropdownPlain, Special, Plain
<1>9. AppsKnown => AppsKnown'
  <2>1. \A v \in XWindows \ {w} : props'[v] = props[v]
    BY <1>1 DEF FocusInv, PropsKnown
  <2> QED
    BY <1>2, <1>4, <2>1, KnownMore, AppsStay
<1> QED
  BY <1>2, <1>5, <1>6, <1>7, <1>8, <1>9 DEF FocusInv, RolesStep, FocusKept

\* A window that is mapped has not been in the tables.
LEMMA StepMapWindowRequest ==
  ASSUME FocusAssumption, FocusInv, NEW w \in XWindows, MapWindowRequest(w) PROVE FocusInv' /\ RolesStep
<1> DEFINE d == [desk EXCEPT !.size[w] = "wide", !.maps = @ + 1]
           n == [Metadata(d, w, props[w]) EXCEPT !.seq = d.maps]
           all == mapped \cup {w}
           e == Added(d, w, n)
<1>1. desk' = reevaluate_focus(e, props) /\ mapped' = all /\ x11' = x11 /\ props' = props /\ w \notin mapped /\ Exists(w)
  BY DEF MapWindowRequest, SteamStill, Added
<1>2. props[w] \in Properties
  BY <1>1, KnownMore DEF Exists, FocusAssumption
<1>3. /\ d \in Desks /\ d.meta = desk.meta /\ d.index = desk.index /\ d.space = desk.space
      /\ d.dropdown = desk.dropdown
  <2>1. desk \in Desks
    BY KnownMore
  <2>2. desk.size \in [XWindows -> Sizes] /\ desk.maps + 1 \in Nat
    BY <2>1 DEF Desks
  <2> DEFINE size == [desk.size EXCEPT ![w] = "wide"]
             maps == desk.maps + 1
  <2>3. size \in [XWindows -> Sizes] /\ maps \in Nat /\ d = [desk EXCEPT !.size = size, !.maps = maps]
    BY <2>1, <2>2 DEF Sizes, Desks
  <2> HIDE DEF size, maps, d
  <2> QED
    BY <2>1, <2>3 DEF Desks
<1> HIDE DEF d
<1>4. n \in Metas
  <2>1. Metadata(d, w, props[w]) \in Metas /\ d.maps \in Nat
    BY <1>2, <1>3, KnownMore, MetadataType DEF Desks
  <2> QED
    BY <2>1 DEF Metas
<1> HIDE DEF n
<1>5. Agree(d, mapped) /\ w \notin DOMAIN d.meta /\ w \in Windows
  BY <1>1, <1>3, KnownMore, StillAgree DEF FocusInv, Windows
<1>6. Agree(e, all) /\ SameRest(d, e) /\ OneMore(d, e, w, n)
  BY <1>4, <1>5, Addition
<1> HIDE DEF e
<1>7. PropsRead(e, props)
  <2>1. \A v \in XWindows : props[v] \in Props[v] \cup {NoProps} /\ (v \in all => props[v] # NoProps)
    BY <1>1, KnownMore DEF Exists
  <2> HIDE DEF all
  <2> QED
    BY <1>6, <2>1, Readable
<1>8. Agree(desk', all) /\ FocusKept(desk', all) /\ AppsFound(desk', props) /\ (DropdownPlain(e) => RolesKept(desk'))
  BY <1>1, <1>6, <1>7, KnownMore, Reevaluated
<1>9. DropdownPlain(desk) => DropdownPlain(e)
  BY <1>3, <1>6 DEF OneMore, SameRest, DropdownPlain, Plain
<1>10. PropsKnown'
  BY <1>1 DEF FocusInv, PropsKnown, Exists, Windows
<1> QED
  BY <1>1, <1>8, <1>9, <1>10 DEF FocusInv, RolesStep, RolesKept, FocusKept, AppsKnown, AppsFound

\* A dropdown that is not on the screen is only tracked; one that is has no flag, or
\* is twofold from now on.
LEMMA StepMappedOverrideRedirectWindow ==
  ASSUME FocusAssumption, FocusInv, NEW w \in XWindows, MappedOverrideRedirectWindow(w)
  PROVE  FocusInv' /\ RolesStep
<1> DEFINE n == Metadata(desk, w, props[w])
           d == Added(desk, w, n)
           c == classify_special_windows(d)
           onScreen == notify_dropdown(c, w)
           all == mapped \cup {w}
<1>1. /\ mapped' = all /\ x11' = x11 /\ props' = props /\ w \notin mapped /\ Exists(w)
      /\ twofold' = twofold \cup {v \in {w} : desk'.dropdown = v /\ desk'.meta[v].flags # {}}
      /\ \/ desk' = onScreen
         \/ desk' = d
         \/ desk' = reevaluate_focus(d, props)
  BY DEF MappedOverrideRedirectWindow, Added
<1>2. props[w] \in Props[w] /\ props[w] \in Properties
  BY <1>1, KnownMore DEF Exists, FocusAssumption
<1>3. n \in Metas /\ n.app = ReadProp(props[w].app)
  BY <1>2, KnownMore, MetadataType
<1> HIDE DEF n
<1>5. Agree(desk, mapped) /\ w \notin DOMAIN desk.meta /\ w \in Windows /\ w # NoWindow
  BY <1>1, KnownMore DEF FocusInv, Windows, FocusAssumption
<1>6. Agree(d, all) /\ SameRest(desk, d) /\ OneMore(desk, d, w, n)
  BY <1>3, <1>5, Addition
<1> HIDE DEF d
<1>7. PropsKnown'
  BY <1>1 DEF FocusInv, PropsKnown, Exists, Windows
<1>8. FocusKept(d, all)
  <2>1. desk.focused # w
    BY <1>1, <1>5 DEF FocusInv, FocusKept
  <2> QED
    BY <1>6, <2>1 DEF FocusInv, FocusKept, SameRest, OneMore
<1>9. Special(desk) \subseteq Special(d) /\ Plain(desk) \subseteq Plain(d)
  BY <1>6 DEF Special, Plain, OneMore
<1>10. RolesKept(desk) => RolesKept(d)
  BY <1>6, <1>9 DEF RolesKept, DropdownPlain, SameRest
<1>14. ASSUME desk'.meta = d.meta PROVE AppsKnown => AppsKnown'
  BY <1>1, <1>3, <1>6, <1>14 DEF AppsKnown, AppsFound, OneMore, ReadProp
<1>11. CASE desk' = d
  BY <1>1, <1>6, <1>7, <1>8, <1>10, <1>11, <1>14 DEF FocusInv, RolesStep, FocusKept
<1>12. CASE desk' = reevaluate_focus(d, props)
  <2>1. PropsRead(d, props)
    <3>1. \A v \in XWindows : props[v] \in Props[v] \cup {NoProps} /\ (v \in all => props[v] # NoProps)
      BY <1>1, KnownMore DEF Exists
    <3> HIDE DEF all
    <3> QED
      BY <1>6, <3>1, Readable
  <2>2. Agree(desk', all) /\ FocusKept(desk', all) /\ AppsFound(desk', props) /\ (DropdownPlain(d) => RolesKept(desk'))
    BY <1>6, <1>12, <2>1, KnownMore, Reevaluated
  <2> QED
    BY <1>1, <1>7, <1>10, <2>2 DEF FocusInv, RolesStep, RolesKept, FocusKept, AppsKnown, AppsFound
<1>13. CASE desk' = onScreen
  <2>1. /\ Agree(c, all) /\ c.space = d.space /\ c.meta = d.meta
        /\ c.focused = d.focused /\ c.focusedX11 = d.focusedX11 /\ c.keyboard = d.keyboard
        /\ c.dropdown = d.dropdown /\ c.focusedApp = d.focusedApp
        /\ {c.overlay, c.notification, c.external} \subseteq Special(c) \cup {NoWindow}
    BY <1>6, Classified
  <2> HIDE DEF c
  <2>2. c \in Desks
    BY <2>1 DEF Agree
  <2>3. CASE onScreen = c
    <3>1. RolesKept(d) => RolesKept(c)
      BY <2>1 DEF RolesKept, DropdownPlain, Special, Plain
    <3>2. FocusKept(c, all)
      BY <1>8, <2>1 DEF FocusKept
    <3> QED
      BY <1>1, <1>7, <1>10, <1>13, <1>14, <2>1, <2>3, <3>1, <3>2 DEF FocusInv, RolesStep, FocusKept
  <2>4. CASE onScreen = [c EXCEPT !.dropdown = w]
    <3>1. /\ onScreen \in Desks /\ onScreen.space = c.space /\ onScreen.meta = c.meta /\ onScreen.index = c.index
          /\ onScreen.focused = c.focused /\ onScreen.focusedX11 = c.focusedX11 /\ onScreen.keyboard = c.keyboard
          /\ onScreen.dropdown = w /\ onScreen.focusedApp = c.focusedApp
          /\ onScreen.overlay = c.overlay /\ onScreen.notification = c.notification
          /\ onScreen.external = c.external
      BY <1>5, <2>2, <2>4 DEF Desks, Places
    <3> HIDE DEF onScreen
    <3>2. Agree(onScreen, all)
      BY <2>1, <3>1, StillAgree
    <3>3. FocusKept(onScreen, all)
      BY <1>8, <2>1, <3>1 DEF FocusKept
    <3>4. ASSUME RolesKept(desk) PROVE RolesKept(desk)'
      <4>1. desk'.dropdown = w /\ w \in DOMAIN desk'.meta /\ w \in XWindows
        BY <1>6, <1>13, <2>1, <3>1 DEF OneMore
      <4>2. desk'.meta[w].flags = {} \/ w \in twofold'
        BY <1>1, <4>1
      <4>3. RolesKept(d) /\ Special(desk') = Special(d) /\ twofold \subseteq twofold'
        BY <1>1, <1>10, <1>13, <2>1, <3>1, <3>4 DEF Special
      <4>4. Special(c) = Special(d) /\ Special(desk)' = Special(d)
        BY <2>1, <4>3 DEF Special
      <4>5. /\ {desk'.overlay, desk'.notification, desk'.external} \subseteq Special(d) \cup {NoWindow}
            /\ desk'.keyboard = d.keyboard /\ desk'.focused = d.focused
        BY <1>13, <2>1, <3>1, <4>4
      <4> QED
        BY <4>1, <4>2, <4>3, <4>4, <4>5 DEF RolesKept, DropdownPlain, Plain
    <3> QED
      BY <1>1, <1>7, <1>13, <1>14, <2>1, <3>1, <3>2, <3>3, <3>4 DEF FocusInv, RolesStep, FocusKept
  <2> QED
    BY <2>3, <2>4 DEF notify_dropdown
<1> QED
  BY <1>1, <1>11, <1>12, <1>13

LEMMA StepUnmappedWindow ==
  ASSUME FocusAssumption, FocusInv, NEW w \in XWindows, UnmappedWindow(w) PROVE FocusInv' /\ RolesStep
<1> DEFINE all == mapped \ {w}
           d == UnregisterUnmapped(w)
           e == [d EXCEPT !.focusedX11 = NoWindow, !.keyboard = NoWindow]
           u == unregister_window(unmap_elem(desk, w), w)
           special == InSpace(desk, w) /\ Tracked(desk, w) /\ desk.meta[w].flags # {}
<1>1. /\ mapped' = all /\ x11' = x11 /\ props' = props
      /\ \/ desk' = reevaluate_focus(e, props)
         \/ desk' = reevaluate_focus(d, props)
         \/ desk' = d /\ desk.focusedX11 # w /\ ~special
  BY DEF UnmappedWindow, SteamStill
<1>2. Agree(desk, mapped) /\ w \in Windows /\ NoWindow \notin Windows /\ NoWindow \notin XWindows
      /\ (InSpace(desk, w) <=> w \in DOMAIN desk.meta)
  BY KnownMore DEF FocusInv, Windows, FocusAssumption, Tracked
<1>3. /\ Agree(u, all) /\ SameRest(desk, u) /\ u = unmap_elem(unregister_window(desk, w), w)
      /\ DOMAIN u.meta = DOMAIN desk.meta \ {w}
      /\ \A v \in DOMAIN desk.meta \ {w} : u.meta[v] = desk.meta[v]
  BY <1>2, Removal
<1> HIDE DEF u
<1>4. /\ Agree(d, all)
      /\ d.focused = desk.focused /\ d.focusedX11 = desk.focusedX11 /\ d.keyboard = desk.keyboard
      /\ d.overlay = desk.overlay /\ d.notification = desk.notification /\ d.external = desk.external
      /\ d.focusedApp = desk.focusedApp
      /\ (DOMAIN d.meta \subseteq DOMAIN desk.meta \ {w})
      /\ \A v \in DOMAIN d.meta : d.meta[v] = desk.meta[v]
      /\ DropdownPlain(desk) => DropdownPlain(d) /\ Special(d) = Special(desk) \ {w}
  <2>1. CASE w \notin DOMAIN desk.meta
    <3>1. d = desk
      BY <1>2, <2>1 DEF UnregisterUnmapped
    <3> HIDE DEF d
    <3>2. Agree(desk, all)
      BY <1>2, <2>1 DEF Agree
    <3> QED
      BY <2>1, <3>1, <3>2 DEF Special
  <2>2. CASE w \in DOMAIN desk.meta
    <3>1. d = IF u.dropdown = w THEN clear_dropdowns(u) ELSE u
      BY <1>2, <1>3, <2>2 DEF UnregisterUnmapped
    <3> HIDE DEF d
    <3>2. u.dropdown # w => (DropdownPlain(desk) => DropdownPlain(u)) /\ Special(u) = Special(desk) \ {w}
      BY <1>3 DEF DropdownPlain, Plain, Special, SameRest
    <3>3. Special(u) = Special(desk) \ {w}
      BY <1>3 DEF Special
    <3>4. CASE u.dropdown # w
      BY <1>3, <3>1, <3>2, <3>4 DEF SameRest
    <3>5. CASE u.dropdown = w
      <4>1. d = clear_dropdowns(u)
        BY <3>1, <3>5
      <4>2. /\ Agree(d, all) /\ DOMAIN d.meta \subseteq DOMAIN u.meta
            /\ \A v \in DOMAIN d.meta : d.meta[v] = u.meta[v]
            /\ d.focused = u.focused /\ d.focusedX11 = u.focusedX11 /\ d.keyboard = u.keyboard
            /\ d.overlay = u.overlay /\ d.notification = u.notification /\ d.external = u.external
            /\ d.focusedApp = u.focusedApp /\ d.dropdown = NoWindow
        BY <1>3, <4>1, DropdownsCleared
      <4>3. d = unregister_window(unmap_elem([u EXCEPT !.dropdown = NoWindow], w), w)
        BY <1>2, <3>5, <4>1 DEF clear_dropdowns
      <4> DEFINE v0 == [u EXCEPT !.dropdown = NoWindow]
      <4>4. u \in Desks
        BY <1>3 DEF Agree
      <4>5. v0 \in Desks /\ v0.meta = u.meta /\ v0.index = u.index /\ v0.space = u.space
        BY <4>4 DEF Desks, Places
      <4>6. d = unregister_window(unmap_elem(v0, w), w)
        BY <4>3
      <4> HIDE DEF v0
      <4>7. Agree(v0, all)
        BY <1>3, <4>5, StillAgree
      <4>8. DOMAIN d.meta = DOMAIN v0.meta \ {w}
        BY <1>2, <4>6, <4>7, Removal
      <4>9. Special(d) = Special(desk) \ {w}
        BY <1>3, <3>3, <4>2, <4>5, <4>8 DEF Special
      <4> QED
        BY <1>3, <4>2, <4>9 DEF SameRest, DropdownPlain
    <3> QED
      BY <3>4, <3>5
  <2> QED
    BY <2>1, <2>2
<1> HIDE DEF d
<1>5. PropsKnown'
  BY <1>1 DEF FocusInv, PropsKnown, Exists
<1>6. \A v \in XWindows : props[v] \in Props[v] \cup {NoProps} /\ (v \in all => props[v] # NoProps)
  BY KnownMore
<1> HIDE DEF all
<1>7. CASE desk' = reevaluate_focus(d, props)
  <2>1. PropsRead(d, props)
    BY <1>4, <1>6, Readable
  <2>2. Agree(desk', all) /\ FocusKept(desk', all) /\ AppsFound(desk', props) /\ (DropdownPlain(d) => RolesKept(desk'))
    BY <1>4, <1>7, <2>1, KnownMore, Reevaluated
  <2> QED
    BY <1>1, <1>4, <1>5, <2>2 DEF FocusInv, RolesStep, RolesKept, FocusKept, AppsKnown, AppsFound
<1>8. CASE desk' = reevaluate_focus(e, props)
  <2>1. d \in Desks /\ NoWindow \in Places
    BY <1>4 DEF Agree, Places
  <2>2. e \in Desks /\ e.meta = d.meta /\ e.index = d.index /\ e.space = d.space /\ e.dropdown = d.dropdown
    BY <2>1 DEF Desks
  <2> HIDE DEF e
  <2>3. Agree(e, all)
    BY <1>4, <2>2, StillAgree
  <2>4. PropsRead(e, props)
    BY <1>6, <2>3, Readable
  <2>5. Agree(desk', all) /\ FocusKept(desk', all) /\ AppsFound(desk', props) /\ (DropdownPlain(e) => RolesKept(desk'))
    BY <1>8, <2>3, <2>4, KnownMore, Reevaluated
  <2>6. DropdownPlain(d) => DropdownPlain(e)
    BY <2>2 DEF DropdownPlain, Plain
  <2> QED
    BY <1>1, <1>4, <1>5, <2>5, <2>6 DEF FocusInv, RolesStep, RolesKept, FocusKept, AppsKnown, AppsFound
<1>9. CASE desk' = d /\ desk.focusedX11 # w /\ ~special
  <2>1. desk.focused # w
    BY <1>9 DEF FocusInv, FocusKept
  <2>2. FocusKept(d, all)
    BY <1>4, <2>1 DEF FocusInv, FocusKept, all
  <2>3. w \notin Special(desk)
    BY <1>2, <1>9 DEF Special, Tracked
  <2>4. RolesKept(desk) => RolesKept(d)
    BY <1>4, <2>3 DEF RolesKept
  <2>5. AppsKnown => AppsKnown'
    BY <1>1, <1>4, <1>9, AppsStay
  <2> QED
    BY <1>1, <1>4, <1>5, <1>9, <2>2, <2>4, <2>5 DEF FocusInv, RolesStep, FocusKept
<1> QED
  BY <1>1, <1>7, <1>8, <1>9

\* What a step that evaluates the focus leaves, from what it evaluates.
LEMMA ThenEvaluated ==
  ASSUME FocusAssumption, FocusInv, NEW d, Agree(d, mapped'), NEW ps,
         \A w \in XWindows : ps[w] \in Props[w] \cup {NoProps} /\ (w \in mapped' => ps[w] # NoProps),
         desk' = reevaluate_focus(d, ps), x11' = x11, props' = ps, PropsKnown', DropdownPlain(desk) => DropdownPlain(d)
  PROVE  FocusInv' /\ RolesStep
<1> DEFINE all == mapped'
<1> HIDE DEF all
<1>1. Agree(d, all) /\ \A w \in XWindows : ps[w] \in Props[w] \cup {NoProps} /\ (w \in all => ps[w] # NoProps)
  BY DEF all
<1>2. PropsRead(d, ps)
  BY <1>1, Readable
<1>3. Agree(desk', all) /\ FocusKept(desk', all) /\ AppsFound(desk', ps) /\ (DropdownPlain(d) => RolesKept(desk'))
  BY <1>1, <1>2, KnownMore, Reevaluated
<1> QED
  BY <1>3 DEF FocusInv, RolesStep, RolesKept, FocusKept, AppsKnown, AppsFound, all

LEMMA StepDestroyedWindow ==
  ASSUME FocusAssumption, FocusInv, NEW w \in XWindows, DestroyedWindow(w) PROVE FocusInv' /\ RolesStep
<1>1. /\ mapped' = mapped /\ x11' = x11 /\ w \notin mapped /\ props' = [props EXCEPT ![w] = NoProps]
      /\ desk' = [desk EXCEPT !.full = @ \ {w}]
  BY KnownMore DEF DestroyedWindow, SteamStill, InSpace
<1>2. desk.full \ {w} \in SUBSET XWindows
  BY KnownMore DEF Desks
<1>3. /\ desk' \in Desks /\ desk'.meta = desk.meta /\ desk'.index = desk.index /\ desk'.space = desk.space
      /\ desk'.focused = desk.focused /\ desk'.focusedX11 = desk.focusedX11 /\ desk'.focusedApp = desk.focusedApp
      /\ desk'.overlay = desk.overlay /\ desk'.notification = desk.notification
      /\ desk'.external = desk.external /\ desk'.dropdown = desk.dropdown /\ desk'.keyboard = desk.keyboard
  BY <1>1, <1>2, KnownMore DEF Desks
<1>4. PropsKnown'
  <2>1. props' = [v \in XWindows |-> props'[v]] /\ props'[w] = NoProps /\ \A v \in XWindows \ {w} : props'[v] = props[v]
    BY <1>1 DEF FocusInv, PropsKnown
  <2> QED
    BY <1>1, <2>1 DEF FocusInv, PropsKnown, Exists
<1>5. Agree(desk', mapped)
  BY <1>3, StillAgree DEF FocusInv
<1>6. FocusKept(desk', mapped) /\ (RolesKept(desk) => RolesKept(desk'))
  BY <1>3 DEF FocusInv, FocusKept, RolesKept, DropdownPlain, Special, Plain
<1>7. AppsKnown => AppsKnown'
  <2>1. \A v \in XWindows \ {w} : props'[v] = props[v]
    BY <1>1 DEF FocusInv, PropsKnown
  <2> QED
    BY <1>1, <1>3, <2>1, KnownMore, AppsStay
<1> QED
  BY <1>1, <1>4, <1>5, <1>6, <1>7 DEF FocusInv, RolesStep, FocusKept

\* The metadata with what a property of this kind says.
LEMMA RereadTables ==
  ASSUME FocusAssumption, NEW d, NEW m, Agree(d, m), NEW w \in DOMAIN d.meta, NEW kind \in DOMAIN Notified,
         NEW n \in Metas
  PROVE  LET t == Reread(d, w, kind, d.meta[w], n)
         IN Agree(t, m) /\ (DropdownPlain(d) => DropdownPlain(t))
<1> DEFINE o == d.meta[w]
           t == Reread(d, w, kind, o, n)
<1>1. d \in Desks /\ d.meta \in [DOMAIN d.meta -> Metas] /\ DOMAIN d.meta \subseteq Windows
  BY TableType DEF Agree, Desks
<1>2. o \in Metas
  BY <1>1
<1>3. /\ n.disabled \in BOOLEAN /\ n.parent \in XWindows \cup {NoWindow} /\ n.skip \in BOOLEAN
      /\ n.maybe \in BOOLEAN /\ n.dialog \in BOOLEAN
  BY DEF Metas
<1>4. kind \in {"Hints", "TransientFor", "WindowType", "Pid"}
  BY DEF Notified
<1>5. ASSUME NEW q \in Metas, q.parent = o.parent, q.flags = o.flags
      PROVE  Agree(Noted(d, w, q), m) /\ (DropdownPlain(d) => DropdownPlain(Noted(d, w, q)))
  <2>1. /\ Agree(Noted(d, w, q), m) /\ SameRest(d, Noted(d, w, q)) /\ DOMAIN Noted(d, w, q).meta = DOMAIN d.meta
        /\ Noted(d, w, q).meta[w] = q /\ \A v \in DOMAIN d.meta \ {w} : Noted(d, w, q).meta[v] = d.meta[v]
    BY <1>5, NotedTables
  <2> QED
    BY <1>5, <2>1 DEF SameRest, DropdownPlain, Plain
<1>6. CASE kind = "Hints"
  <2> DEFINE q == [o EXCEPT !.disabled = n.disabled]
  <2>1. q \in Metas /\ q.parent = o.parent /\ q.flags = o.flags
    BY <1>2, <1>3 DEF Metas
  <2>2. t = Noted(d, w, q)
    BY <1>1, <1>6 DEF Reread, Noted, Desks
  <2> QED
    BY <1>5, <2>1, <2>2
<1>7. CASE kind = "WindowType"
  <2> DEFINE q == [o EXCEPT !.dialog = n.dialog, !.maybe = n.maybe]
  <2>1. q \in Metas /\ q.parent = o.parent /\ q.flags = o.flags
    BY <1>2, <1>3 DEF Metas
  <2>2. t = Noted(d, w, q)
    BY <1>1, <1>7 DEF Reread, Noted, Desks
  <2> QED
    BY <1>5, <2>1, <2>2
<1>8. CASE kind = "Pid"
  <2>1. t = d
    BY <1>8 DEF Reread
  <2> QED
    BY <2>1
<1>9. CASE kind = "TransientFor"
  <2> DEFINE q == [o EXCEPT !.parent = n.parent, !.skip = n.skip, !.maybe = n.maybe]
             meta == [d.meta EXCEPT ![w] = q]
             dropped == IF o.parent = NoWindow THEN d.index ELSE [d.index EXCEPT ![o.parent] = Without(@, w)]
             index == IF n.parent = NoWindow THEN dropped ELSE [dropped EXCEPT ![n.parent] = Append(@, w)]
  <2>1. q \in Metas /\ q.parent = n.parent /\ q.flags = o.flags
    BY <1>2, <1>3 DEF Metas
  <2>2. /\ DOMAIN meta = DOMAIN d.meta /\ meta \in [DOMAIN d.meta -> Metas]
        /\ meta[w] = q /\ \A v \in DOMAIN d.meta \ {w} : meta[v] = d.meta[v]
    BY <1>1, <2>1
  <2>3. o.parent \in XWindows \cup {NoWindow} /\ NoWindow \notin XWindows
    BY <1>2 DEF Metas, FocusAssumption, Windows
  <2>4. d.index \in [XWindows -> Seq(Windows)]
    BY <1>1 DEF Desks
  <2>5. /\ dropped \in [XWindows -> Seq(Windows)]
        /\ \A p \in XWindows : dropped[p] = IF p = o.parent THEN Without(d.index[p], w) ELSE d.index[p]
    BY <2>3, <2>4, WithoutElements
  <2>6. t = [d EXCEPT !.meta = meta, !.index = index]
    <3> DEFINE d1 == [d EXCEPT !.meta = meta]
               d2 == [d1 EXCEPT !.index = dropped]
    <3>1. t = AddChild(DropChild(d1, o.parent, w), n.parent, w)
      BY <1>1, <1>9 DEF Reread, Desks
    <3> HIDE DEF meta, q, o, t
    <3>2. d1.index = d.index
      BY <1>1 DEF Desks
    <3>3. DropChild(d1, o.parent, w) = d2
      BY <1>1, <3>2 DEF DropChild, Desks
    <3>4. AddChild(d2, n.parent, w) = [d2 EXCEPT !.index = index]
      <4>1. d2.index = dropped /\ d2 = [d EXCEPT !.meta = meta, !.index = dropped]
        BY <1>1 DEF Desks
      <4> HIDE DEF d1, dropped
      <4>2. CASE n.parent = NoWindow
        <5>1. AddChild(d2, n.parent, w) = d2 /\ index = dropped
          BY <4>2 DEF AddChild
        <5> QED
          BY <1>1, <4>1, <5>1 DEF Desks
      <4>3. CASE n.parent # NoWindow
        <5>1. index = [dropped EXCEPT ![n.parent] = Append(@, w)]
          BY <4>3
        <5>2. AddChild(d2, n.parent, w) = [d2 EXCEPT !.index[n.parent] = Append(@, w)]
          BY <4>3 DEF AddChild
        <5> QED
          BY <1>1, <4>1, <5>1, <5>2 DEF Desks
      <4> QED
        BY <4>2, <4>3
    <3> HIDE DEF dropped, index
    <3> QED
      BY <1>1, <3>1, <3>3, <3>4 DEF Desks
  <2> HIDE DEF q, meta, dropped, t
  <2>7. /\ index \in [XWindows -> Seq(Windows)]
        /\ \A p \in XWindows : index[p] = IF p = n.parent THEN Append(dropped[p], w) ELSE dropped[p]
    <3>1. \A p \in XWindows : Append(dropped[p], w) \in Seq(Windows)
      BY <1>1, <2>5, AppendElements
    <3> QED
      BY <1>3, <2>3, <2>5, <3>1
  <2> HIDE DEF index
  <2>8. meta \in Tables
    BY <1>1, <2>2, TableType
  <2>9. t \in Desks /\ t.meta = meta /\ t.index = index /\ t.space = d.space /\ t.dropdown = d.dropdown
    BY <1>1, <2>6, <2>7, <2>8 DEF Desks
  <2>10. ASSUME NEW p \in XWindows
         PROVE  ToSet(index[p]) = {v \in DOMAIN meta : meta[v].parent = p} /\ IsInjective(index[p])
    <3>1. /\ ToSet(d.index[p]) = {v \in DOMAIN d.meta : d.meta[v].parent = p} /\ IsInjective(d.index[p])
          /\ d.index[p] \in Seq(Windows) /\ dropped[p] \in Seq(Windows) /\ w \in Windows
      BY <1>1, <2>4, <2>5 DEF Agree
    <3>2. ToSet(dropped[p]) = {v \in DOMAIN d.meta : d.meta[v].parent = p} \ {w} /\ IsInjective(dropped[p])
      <4>1. CASE p = o.parent
        BY <2>5, <3>1, <4>1, WithoutElements
      <4>2. CASE p # o.parent
        BY <2>5, <3>1, <4>2
      <4> QED
        BY <4>1, <4>2
    <3>3. {v \in DOMAIN meta : meta[v].parent = p}
            = ({v \in DOMAIN d.meta : d.meta[v].parent = p} \ {w}) \cup (IF p = n.parent THEN {w} ELSE {})
      BY <2>1, <2>2
    <3>4. CASE p = n.parent
      <4>1. w \notin ToSet(dropped[p])
        BY <3>2
      <4>2. index[p] = Append(dropped[p], w)
        BY <2>7, <3>4
      <4> QED
        BY <3>1, <3>2, <3>3, <3>4, <4>1, <4>2, AppendElements
    <3>5. CASE p # n.parent
      BY <2>7, <3>2, <3>3, <3>5
    <3> QED
      BY <3>4, <3>5
  <2>11. Agree(t, m)
    BY <2>2, <2>9, <2>10 DEF Agree
  <2>12. DropdownPlain(d) => DropdownPlain(t)
    BY <2>1, <2>2, <2>9 DEF DropdownPlain, Plain
  <2> QED
    BY <2>11, <2>12 DEF t
<1> QED
  BY <1>4, <1>6, <1>7, <1>8, <1>9

LEMMA StepPropertyNotify ==
  ASSUME FocusAssumption, FocusInv, NEW w \in XWindows, NEW kind \in DOMAIN Notified, PropertyNotify(w, kind)
  PROVE  FocusInv' /\ RolesStep
<1> DEFINE seen == InSpace(desk, w) /\ Tracked(desk, w)
<1>1. PICK p \in Props[w] :
        /\ props' = [props EXCEPT ![w] = p]
        /\ desk' = reevaluate_focus(IF seen THEN Reread(desk, w, kind, desk.meta[w], Metadata(desk, w, p)) ELSE desk, props')
  BY DEF PropertyNotify
<1> DEFINE d == IF seen THEN Reread(desk, w, kind, desk.meta[w], Metadata(desk, w, p)) ELSE desk
<1>2. mapped' = mapped /\ x11' = x11 /\ Exists(w)
  BY DEF PropertyNotify, X11Asks
<1>3. p \in Properties
  BY DEF FocusAssumption
<1>4. props' = [v \in XWindows |-> props'[v]] /\ props'[w] = p /\ \A v \in XWindows \ {w} : props'[v] = props[v]
  BY <1>1 DEF FocusInv, PropsKnown
<1>5. p # NoProps
  <2>1. DOMAIN p # DOMAIN NoProps
    BY <1>3 DEF Properties, NoProps
  <2> QED
    BY <2>1
<1>6. PropsKnown'
  BY <1>2, <1>4, <1>5 DEF FocusInv, PropsKnown, Exists
<1>7. \A v \in XWindows : props'[v] \in Props[v] \cup {NoProps} /\ (v \in mapped' => props'[v] # NoProps)
  BY <1>6 DEF PropsKnown, Exists
<1>8. Agree(d, mapped) /\ (DropdownPlain(desk) => DropdownPlain(d))
  <2>1. CASE seen
    <3>1. Metadata(desk, w, p) \in Metas
      BY <1>3, KnownMore, MetadataType
    <3>2. w \in DOMAIN desk.meta /\ d = Reread(desk, w, kind, desk.meta[w], Metadata(desk, w, p))
      BY <2>1 DEF Tracked
    <3> HIDE DEF d
    <3> QED
      BY <3>1, <3>2, RereadTables DEF FocusInv
  <2>2. CASE ~seen
    BY <2>2 DEF FocusInv
  <2> QED
    BY <2>1, <2>2
<1>9. desk' = reevaluate_focus(d, props')
  BY <1>1
<1> HIDE DEF d
<1> QED
  BY <1>2, <1>6, <1>7, <1>8, <1>9, ThenEvaluated

\* A desk that differs in nothing that the invariant is about.
SameTables(d, t) ==
  /\ t \in Desks /\ t.meta = d.meta /\ t.index = d.index /\ t.space = d.space /\ t.dropdown = d.dropdown
SameFocus(d, t) ==
  /\ t.focused = d.focused /\ t.focusedX11 = d.focusedX11 /\ t.focusedApp = d.focusedApp
  /\ t.overlay = d.overlay /\ t.notification = d.notification /\ t.external = d.external

LEMMA SameDesk ==
  ASSUME NEW d, NEW m, Agree(d, m), NEW t, SameTables(d, t)
  PROVE  /\ Agree(t, m) /\ (DropdownPlain(d) => DropdownPlain(t))
         /\ SameFocus(d, t) /\ t.keyboard \in {d.keyboard, d.focused}
              => (FocusKept(d, m) => FocusKept(t, m)) /\ (RolesKept(d) => RolesKept(t))
<1>1. Agree(t, m)
  BY StillAgree DEF SameTables
<1> QED
  BY <1>1 DEF SameTables, SameFocus, FocusKept, RolesKept, DropdownPlain, Special, Plain

LEMMA StepPropertyUnseen ==
  ASSUME FocusAssumption, FocusInv, NEW w \in XWindows, PropertyUnseen(w) PROVE FocusInv' /\ RolesStep
<1>1. PICK p \in Props[w] :
        props' = [props EXCEPT ![w] = p] /\ OnlyDiffers(p, props[w], {"overlay", "mode", "opacity", "special"})
  BY DEF PropertyUnseen
<1>2. mapped' = mapped /\ x11' = x11 /\ desk' = desk
  BY DEF PropertyUnseen, X11Asks
<1>3. props' = [v \in XWindows |-> props'[v]] /\ props'[w] = p /\ \A v \in XWindows \ {w} : props'[v] = props[v]
  BY <1>1 DEF FocusInv, PropsKnown
<1>4. p # NoProps
  <2>1. DOMAIN p # DOMAIN NoProps
    BY DEF Properties, NoProps, FocusAssumption
  <2> QED
    BY <2>1
<1>5. PropsKnown'
  BY <1>2, <1>3, <1>4 DEF FocusInv, PropsKnown, Exists
<1>6. p.app = props[w].app
  BY <1>1 DEF OnlyDiffers, FocusAssumption, Properties
<1>7. AppsKnown => AppsKnown'
  BY <1>2, <1>3, <1>6, AppsStay
<1> QED
  BY <1>2, <1>5, <1>7 DEF FocusInv, RolesStep, FocusKept

LEMMA StepActiveWindowRequest ==
  ASSUME FocusAssumption, FocusInv, NEW w \in XWindows, ActiveWindowRequest(w) PROVE FocusInv' /\ RolesStep
<1> DEFINE d == [desk EXCEPT !.requested = w]
<1>1. mapped' = mapped /\ x11' = x11 /\ props' = props /\ desk' = reevaluate_focus(d, props)
  BY DEF ActiveWindowRequest, X11Asks
<1>2. SameTables(desk, d)
  <2>1. w \in Places /\ desk \in Desks
    BY KnownMore DEF Places, Windows
  <2> QED
    BY <2>1 DEF SameTables, Desks
<1> HIDE DEF d
<1>3. Agree(d, mapped) /\ (DropdownPlain(desk) => DropdownPlain(d))
  BY <1>2, SameDesk DEF FocusInv
<1>4. PropsKnown'
  BY <1>1 DEF FocusInv, PropsKnown, Exists
<1> QED
  BY <1>1, <1>3, <1>4, KnownMore, ThenEvaluated

LEMMA StepConfigureRequest ==
  ASSUME FocusAssumption, FocusInv, NEW w \in XWindows, ConfigureRequest(w) PROVE FocusInv' /\ RolesStep
<1>1. PICK p \in Props[w] : desk' = [desk EXCEPT !.size[w] = p.size]
  BY DEF ConfigureRequest
<1>2. mapped' = mapped /\ x11' = x11 /\ props' = props
  BY DEF ConfigureRequest, X11Asks
<1>3. p.size \in Sizes
  BY DEF FocusAssumption, Properties
<1>4. SameTables(desk, desk') /\ SameFocus(desk, desk') /\ desk'.keyboard = desk.keyboard
  BY <1>1, <1>3, KnownMore DEF SameTables, SameFocus, Desks
<1>5. Agree(desk', mapped) /\ FocusKept(desk', mapped) /\ (RolesKept(desk) => RolesKept(desk'))
  BY <1>4, SameDesk DEF FocusInv
<1>6. PropsKnown'
  BY <1>2 DEF FocusInv, PropsKnown, Exists
<1>7. AppsKnown => AppsKnown'
  BY <1>2, <1>4, AppsStay DEF SameTables
<1> QED
  BY <1>2, <1>5, <1>6, <1>7 DEF FocusInv, RolesStep, FocusKept

LEMMA StepSurfaceAssociated ==
  ASSUME FocusAssumption, FocusInv, NEW w \in XWindows, SurfaceAssociated(w) PROVE FocusInv' /\ RolesStep
<1>1. mapped' = mapped /\ x11' = x11 /\ props' = props /\ desk' = [desk EXCEPT !.keyboard = w] /\ desk.focusedX11 = w
  BY DEF SurfaceAssociated, X11Asks
<1>2. w \in Places /\ w # NoWindow
  BY DEF Places, Windows, FocusAssumption
<1>3. SameTables(desk, desk') /\ SameFocus(desk, desk') /\ desk'.keyboard = w
  BY <1>1, <1>2, KnownMore DEF SameTables, SameFocus, Desks
<1>4. w = desk.focused
  BY <1>1, <1>2 DEF FocusInv, FocusKept
<1>5. Agree(desk', mapped) /\ FocusKept(desk', mapped) /\ (RolesKept(desk) => RolesKept(desk'))
  BY <1>3, <1>4, SameDesk DEF FocusInv
<1>6. PropsKnown'
  BY <1>1 DEF FocusInv, PropsKnown, Exists
<1>7. AppsKnown => AppsKnown'
  BY <1>1, <1>3, AppsStay DEF SameTables
<1> QED
  BY <1>1, <1>5, <1>6, <1>7 DEF FocusInv, RolesStep, FocusKept

\* A special window that is configured stays one.
LEMMA StepConfigureNotify ==
  ASSUME FocusAssumption, FocusInv, NEW w \in XWindows, ConfigureNotify(w) PROVE FocusInv' /\ RolesStep
<1> DEFINE steam == {"overlay", "notification"}
           o == desk.meta[w]
           s == desk.size[w]
           flags == IF o.flags \cap steam # {} /\ x11 /\ props[w].overlay
                    THEN (o.flags \ steam) \cup {IF s = "wide" THEN "overlay" ELSE "notification"} ELSE o.flags
           n == [o EXCEPT !.size = s, !.flags = flags]
           d == Noted(desk, w, n)
           space == Append(Without(desk.space, w), w)
<1>1. /\ mapped' = mapped /\ x11' = x11 /\ props' = props /\ w \in ToSet(desk.space) /\ w \in DOMAIN desk.meta
      /\ desk' = [d EXCEPT !.space = space]
  BY KnownMore DEF ConfigureNotify, X11Asks, InSpace, Tracked, Noted, Desks
<1>2. o \in Metas /\ s \in Sizes
  BY <1>1, KnownMore DEF Desks
<1>3. flags \in SUBSET Flags /\ (flags = {} <=> o.flags = {})
  BY <1>2 DEF Metas, Flags
<1> HIDE DEF flags
<1>4. n \in Metas /\ n.parent = o.parent /\ n.flags = flags /\ n.app = o.app
  BY <1>2, <1>3 DEF Metas
<1> HIDE DEF n, s
<1>5. /\ Agree(d, mapped) /\ SameRest(desk, d) /\ DOMAIN d.meta = DOMAIN desk.meta
      /\ d.meta[w] = n /\ (\A v \in DOMAIN desk.meta \ {w} : d.meta[v] = desk.meta[v])
      /\ d.index = desk.index /\ d.space = desk.space
  BY <1>1, <1>4, NotedTables DEF FocusInv
<1> HIDE DEF d
<1>6. space \in Seq(Windows) /\ ToSet(space) = ToSet(desk.space)
  <2>1. desk.space \in Seq(Windows) /\ w \in Windows
    BY KnownMore DEF Desks, Windows
  <2> DEFINE rest == Without(desk.space, w)
  <2>2. rest \in Seq(Windows) /\ ToSet(rest) = ToSet(desk.space) \ {w}
    BY <2>1, WithoutElements
  <2> HIDE DEF rest
  <2>3. Append(rest, w) \in Seq(Windows) /\ ToSet(Append(rest, w)) = ToSet(rest) \cup {w}
    BY <2>1, <2>2, AppendElements
  <2> QED
    BY <1>1, <2>2, <2>3 DEF rest
<1> HIDE DEF space
<1>7. d \in Desks
  BY <1>5 DEF Agree
<1>8. /\ desk' \in Desks /\ desk'.meta = d.meta /\ desk'.index = d.index /\ desk'.space = space
      /\ SameRest(d, desk')
  BY <1>1, <1>6, <1>7 DEF Desks, SameRest
<1>9. Agree(desk', mapped)
  BY <1>5, <1>6, <1>8, StillAgree
<1>10. /\ DOMAIN desk'.meta = DOMAIN desk.meta
       /\ \A v \in DOMAIN desk.meta : /\ desk'.meta[v].app = desk.meta[v].app
                                      /\ desk'.meta[v].flags = {} <=> desk.meta[v].flags = {}
  BY <1>3, <1>4, <1>5, <1>8
<1>11. FocusKept(desk', mapped)
  BY <1>5, <1>8, <1>10 DEF FocusInv, FocusKept, SameRest
<1>12. RolesKept(desk) => RolesKept(desk')
  BY <1>5, <1>8, <1>10 DEF RolesKept, DropdownPlain, Special, Plain, SameRest
<1>13. PropsKnown'
  BY <1>1 DEF FocusInv, PropsKnown, Exists
<1>14. AppsKnown => AppsKnown'
  BY <1>1, <1>10, AppsStay
<1> QED
  BY <1>1, <1>9, <1>11, <1>12, <1>13, <1>14 DEF FocusInv, RolesStep, FocusKept

LEMMA StepSetX11Fullscreen ==
  ASSUME FocusAssumption, FocusInv, NEW w \in XWindows, NEW on \in BOOLEAN, SetX11Fullscreen(w, on)
  PROVE  FocusInv' /\ RolesStep
<1> DEFINE full == IF on THEN desk.full \cup {w} ELSE desk.full \ {w}
           c == [desk EXCEPT !.full = full]
           n == [c.meta[w] EXCEPT !.fullscreen = on]
           d == IF InSpace(c, w) /\ Tracked(c, w) THEN [c EXCEPT !.meta[w].fullscreen = on] ELSE c
<1>1. mapped' = mapped /\ x11' = x11 /\ props' = props /\ desk' = reevaluate_focus(d, props)
  BY DEF SetX11Fullscreen, X11Asks
<1>2. full \in SUBSET XWindows
  BY KnownMore DEF Desks
<1> HIDE DEF full
<1>3. SameTables(desk, c)
  BY <1>2, KnownMore DEF SameTables, Desks
<1> HIDE DEF c
<1>4. Agree(c, mapped) /\ (DropdownPlain(desk) => DropdownPlain(c))
  BY <1>3, SameDesk DEF FocusInv
<1>5. Agree(d, mapped) /\ (DropdownPlain(desk) => DropdownPlain(d))
  <2>1. CASE d = c
    BY <1>4, <2>1
  <2>2. CASE w \in DOMAIN c.meta /\ d = [c EXCEPT !.meta[w].fullscreen = on]
    <3>1. n \in Metas /\ n.parent = c.meta[w].parent /\ n.flags = c.meta[w].flags
      <4>1. c.meta[w] \in Metas
        BY <1>3, <2>2, KnownMore DEF SameTables
      <4> QED
        BY <4>1 DEF Metas
    <3>2. d = Noted(c, w, n)
      BY <2>2 DEF Noted
    <3> HIDE DEF d, n
    <3> DEFINE t == Noted(c, w, n)
    <3>3. /\ Agree(t, mapped) /\ SameRest(c, t) /\ DOMAIN t.meta = DOMAIN c.meta
          /\ t.meta[w] = n /\ \A v \in DOMAIN c.meta \ {w} : t.meta[v] = c.meta[v]
      BY <1>4, <2>2, <3>1, NotedTables
    <3>4. d = t
      BY <3>2
    <3> HIDE DEF t
    <3> QED
      BY <1>4, <3>1, <3>3, <3>4 DEF DropdownPlain, Plain, SameRest
  <2> QED
    BY <2>1, <2>2 DEF Tracked
<1> HIDE DEF d
<1>6. PropsKnown'
  BY <1>1 DEF FocusInv, PropsKnown, Exists
<1> QED
  BY <1>1, <1>5, <1>6, KnownMore, ThenEvaluated

LEMMA StepCommit ==
  ASSUME FocusAssumption, FocusInv, NEW t \in Toplevels, NEW attached \in BOOLEAN, Commit(t, attached)
  PROVE  FocusInv' /\ RolesStep
<1> DEFINE d == [desk EXCEPT !.buffer[t] = IF attached THEN "mapped" ELSE "unmapped"]
<1>1. mapped' = mapped /\ x11' = x11 /\ props' = props /\ desk' = reevaluate_focus(d, props)
  BY DEF Commit, SteamStill
<1>2. SameTables(desk, d)
  <2> DEFINE buffer == [desk.buffer EXCEPT ![t] = IF attached THEN "mapped" ELSE "unmapped"]
  <2>1. buffer \in [Toplevels -> {"new", "mapped", "unmapped"}] /\ d = [desk EXCEPT !.buffer = buffer]
    BY KnownMore DEF Desks
  <2> HIDE DEF buffer
  <2> QED
    BY <2>1, KnownMore DEF SameTables, Desks
<1> HIDE DEF d
<1>3. Agree(d, mapped) /\ (DropdownPlain(desk) => DropdownPlain(d))
  BY <1>2, SameDesk DEF FocusInv
<1>4. PropsKnown'
  BY <1>1 DEF FocusInv, PropsKnown, Exists
<1> QED
  BY <1>1, <1>3, <1>4, KnownMore, ThenEvaluated

LEMMA StepNewToplevel ==
  ASSUME FocusAssumption, FocusInv, NEW t \in Toplevels, NewToplevel(t) PROVE FocusInv' /\ RolesStep
<1>1. PICK app \in AppIds :
        LET d == [desk EXCEPT !.maps = @ + 1, !.buffer[t] = "new"]
        IN desk' = reevaluate_focus(Track(d, t, NativeMetadata(app, d.maps)), props)
  BY DEF NewToplevel
<1> DEFINE d == [desk EXCEPT !.maps = @ + 1, !.buffer[t] = "new"]
           n == NativeMetadata(app, d.maps)
           e == Added(d, t, n)
           all == mapped \cup {t}
<1>2. /\ mapped' = all /\ x11' = x11 /\ props' = props /\ t \notin mapped
  BY DEF NewToplevel, SteamStill
<1>3. SameTables(desk, d) /\ d.maps \in Nat
  <2> DEFINE buffer == [desk.buffer EXCEPT ![t] = "new"]
             maps == desk.maps + 1
  <2>1. /\ buffer \in [Toplevels -> {"new", "mapped", "unmapped"}] /\ maps \in Nat
        /\ d = [desk EXCEPT !.maps = maps, !.buffer = buffer]
    BY KnownMore DEF Desks
  <2> HIDE DEF buffer, maps
  <2> QED
    BY <2>1, KnownMore DEF SameTables, Desks
<1> HIDE DEF d
<1>4. n \in Metas /\ n.parent = NoWindow
  BY <1>3 DEF NativeMetadata, Metas, FocusAssumption, Sizes
<1>5. desk' = reevaluate_focus(e, props)
  <2>1. e = Track(d, t, n)
    BY <1>4 DEF Added, AddChild
  <2> QED
    BY <1>1, <2>1 DEF d
<1> HIDE DEF n
<1>6. Agree(d, mapped) /\ (DropdownPlain(desk) => DropdownPlain(d))
  BY <1>3, SameDesk DEF FocusInv
<1>7. t \notin DOMAIN d.meta /\ t \in Windows
  BY <1>2, <1>6 DEF Agree, Windows
<1>8. Agree(e, all) /\ SameRest(d, e) /\ OneMore(d, e, t, n)
  BY <1>4, <1>6, <1>7, Addition
<1> HIDE DEF e
<1>9. DropdownPlain(d) => DropdownPlain(e)
  BY <1>8 DEF OneMore, SameRest, DropdownPlain, Plain
<1>10. PropsKnown'
  BY <1>2 DEF FocusInv, PropsKnown, Exists, Windows, FocusAssumption
<1>11. \A w \in XWindows : props[w] \in Props[w] \cup {NoProps} /\ (w \in all => props[w] # NoProps)
  BY KnownMore DEF FocusAssumption
<1> QED
  BY <1>2, <1>5, <1>6, <1>8, <1>9, <1>10, <1>11, ThenEvaluated

LEMMA StepToplevelDestroyed ==
  ASSUME FocusAssumption, FocusInv, NEW t \in Toplevels, ToplevelDestroyed(t) PROVE FocusInv' /\ RolesStep
<1> DEFINE d == [desk EXCEPT !.buffer[t] = "new"]
           u == unregister_window(unmap_elem(d, t), t)
           e == unmap_elem(unregister_window(d, t), t)
           all == mapped \ {t}
<1>1. mapped' = all /\ x11' = x11 /\ props' = props /\ desk' = reevaluate_focus(e, props)
  BY DEF ToplevelDestroyed, SteamStill
<1>2. SameTables(desk, d)
  <2> DEFINE buffer == [desk.buffer EXCEPT ![t] = "new"]
  <2>1. buffer \in [Toplevels -> {"new", "mapped", "unmapped"}] /\ d = [desk EXCEPT !.buffer = buffer]
    BY KnownMore DEF Desks
  <2> HIDE DEF buffer
  <2> QED
    BY <2>1, KnownMore DEF SameTables, Desks
<1> HIDE DEF d
<1>3. Agree(d, mapped) /\ (DropdownPlain(desk) => DropdownPlain(d)) /\ t \in Windows
  BY <1>2, SameDesk DEF FocusInv, Windows
<1>4. /\ Agree(u, all) /\ SameRest(d, u) /\ u = e
      /\ DOMAIN u.meta = DOMAIN d.meta \ {t}
      /\ \A v \in DOMAIN d.meta \ {t} : u.meta[v] = d.meta[v]
  BY <1>3, Removal
<1> HIDE DEF u, e
<1>5. DropdownPlain(d) => DropdownPlain(u)
  BY <1>4 DEF DropdownPlain, Plain, SameRest, FocusAssumption
<1>6. PropsKnown'
  BY <1>1 DEF FocusInv, PropsKnown, Exists
<1>7. \A w \in XWindows : props[w] \in Props[w] \cup {NoProps} /\ (w \in all => props[w] # NoProps)
  BY KnownMore
<1> QED
  BY <1>1, <1>3, <1>4, <1>5, <1>6, <1>7, ThenEvaluated

LEMMA StepToplevelRequest ==
  ASSUME FocusAssumption, FocusInv, NEW t \in Toplevels, ToplevelRequest(t) PROVE FocusInv' /\ RolesStep
<1>1. mapped' = mapped /\ x11' = x11 /\ props' = props
  BY DEF ToplevelRequest, X11Asks
<1>2. PICK n : /\ desk' = reevaluate_focus([desk EXCEPT !.meta[t] = n], props)
               /\ \/ \E full \in BOOLEAN : n = [desk.meta[t] EXCEPT !.fullscreen = full]
                  \/ \E app \in AppIds : n = [desk.meta[t] EXCEPT !.app = app]
  BY DEF ToplevelRequest
<1> DEFINE d == Noted(desk, t, n)
<1>3. desk' = reevaluate_focus(d, props)
  BY <1>2 DEF Noted
<1>4. Agree(d, mapped) /\ (DropdownPlain(desk) => DropdownPlain(d))
  <2>1. CASE t \in DOMAIN desk.meta
    <3>1. n \in Metas /\ n.parent = desk.meta[t].parent /\ n.flags = desk.meta[t].flags
      <4>1. desk.meta[t] \in Metas
        BY <2>1, KnownMore
      <4>2. AppIds \subseteq Nat
        BY DEF FocusAssumption
      <4>3. CASE \E full \in BOOLEAN : n = [desk.meta[t] EXCEPT !.fullscreen = full]
        BY <4>1, <4>3 DEF Metas
      <4>4. CASE \E app \in AppIds : n = [desk.meta[t] EXCEPT !.app = app]
        BY <4>1, <4>2, <4>4 DEF Metas
      <4> QED
        BY <1>2, <4>3, <4>4
    <3> HIDE DEF d
    <3>2. /\ Agree(d, mapped) /\ SameRest(desk, d) /\ DOMAIN d.meta = DOMAIN desk.meta
          /\ d.meta[t] = n /\ \A v \in DOMAIN desk.meta \ {t} : d.meta[v] = desk.meta[v]
      BY <2>1, <3>1, NotedTables DEF FocusInv, d
    <3> QED
      BY <3>1, <3>2 DEF DropdownPlain, Plain, SameRest
  <2>2. CASE t \notin DOMAIN desk.meta
    <3>1. d = desk
      <4>1. [desk.meta EXCEPT ![t] = n] = desk.meta
        BY <2>2, KnownMore
      <4> QED
        BY <4>1, KnownMore DEF Noted, Desks
    <3> QED
      BY <3>1 DEF FocusInv
  <2> QED
    BY <2>1, <2>2
<1> HIDE DEF d
<1>5. PropsKnown'
  BY <1>1 DEF FocusInv, PropsKnown, Exists
<1> QED
  BY <1>1, <1>3, <1>4, <1>5, KnownMore, ThenEvaluated

-----------------------------------------------------------------------------

LEMMA FocusInvStep ==
  ASSUME FocusAssumption, FocusInv, [FocusNext]_focusVars PROVE FocusInv' /\ RolesStep
<1>1. CASE UNCHANGED focusVars \/ SteamAsks
  BY <1>1 DEF focusVars, SteamAsks, FocusInv, RolesStep, PropsKnown, Exists, FocusKept, AppsKnown, AppsFound
<1>2. CASE \E w \in XWindows :
             \/ NewWindow(w) \/ MapWindowRequest(w) \/ MappedOverrideRedirectWindow(w)
             \/ UnmappedWindow(w) \/ DestroyedWindow(w)
             \/ \E kind \in DOMAIN Notified : PropertyNotify(w, kind)
             \/ PropertyUnseen(w) \/ ActiveWindowRequest(w)
             \/ ConfigureRequest(w) \/ ConfigureNotify(w)
             \/ \E on \in BOOLEAN : SetX11Fullscreen(w, on)
             \/ SurfaceAssociated(w)
  BY <1>2, StepNewWindow, StepMapWindowRequest, StepMappedOverrideRedirectWindow, StepUnmappedWindow,
     StepDestroyedWindow, StepPropertyNotify, StepPropertyUnseen, StepActiveWindowRequest,
     StepConfigureRequest, StepConfigureNotify, StepSetX11Fullscreen, StepSurfaceAssociated
<1>3. CASE \E t \in Toplevels :
             \/ NewToplevel(t) \/ ToplevelDestroyed(t) \/ ToplevelRequest(t)
             \/ \E attached \in BOOLEAN : Commit(t, attached)
  BY <1>3, StepNewToplevel, StepToplevelDestroyed, StepToplevelRequest, StepCommit
<1> QED
  BY <1>1, <1>2, <1>3 DEF FocusNext

\* Steam is always told of the application of the window that has the focus, also when
\* the window's process names one only after the window came (apply_focus,
\* reevaluate_focus, refresh_metadata).
THEOREM FocusedAppAlwaysTold == FocusSpec => []FocusedAppTold
<1>1. FocusInit => FocusInv /\ AppsKnown
  <2>1. FocusInit => AppsKnown
    BY DEF FocusInit, Desk, AppsKnown, AppsFound
  <2> QED
    BY <2>1, FocusAssumption, FocusInvInit
<1>2. FocusInv /\ AppsKnown /\ [FocusNext]_focusVars => FocusInv' /\ AppsKnown'
  BY FocusAssumption, FocusInvStep DEF RolesStep
<1>3. FocusInv /\ AppsKnown => FocusedAppTold
  BY DEF FocusInv, FocusKept, FocusedAppTold, Tracked, AppsKnown, AppsFound
<1> QED
  BY <1>1, <1>2, <1>3, PTL DEF FocusSpec

\* The index of transient children is that of the metadata, whatever the properties
\* of the windows (map_window_request, property_notify, unregister_window).
THEOREM IndexAlwaysExact == FocusSpec => []IndexExact
<1>1. FocusInit => FocusInv
  BY FocusAssumption, FocusInvInit
<1>2. FocusInv /\ [FocusNext]_focusVars => FocusInv'
  BY FocusAssumption, FocusInvStep
<1>3. FocusInv => IndexExact
  BY DEF FocusInv, Agree, IndexExact
<1> QED
  BY <1>1, <1>2, <1>3, PTL DEF FocusSpec

\* A window stays twofold.
LEMMA TwofoldGrows == ASSUME [FocusNext]_focusVars PROVE twofold \subseteq twofold'
BY DEF FocusNext, focusVars, SteamStill, X11Asks, SteamAsks, NewWindow, MapWindowRequest,
   MappedOverrideRedirectWindow, UnmappedWindow, DestroyedWindow, PropertyNotify, PropertyUnseen,
   ActiveWindowRequest, ConfigureRequest, ConfigureNotify, SetX11Fullscreen, SurfaceAssociated, NewToplevel,
   ToplevelDestroyed, ToplevelRequest, Commit

\* The tables agree and no role is left with a window that is gone, but for the roles of
\* Steam's that a window has which became the dropdown as well (unmapped_window,
\* toplevel_destroyed, clear_dropdowns, notify_dropdown).
THEOREM FocusStaysConsistent == FocusSpec => []FocusConsistent
<1>1. FocusInit => FocusInv /\ RolesKept(desk)
  BY FocusAssumption, FocusInvInit
<1>2. FocusInv /\ RolesKept(desk) /\ [FocusNext]_focusVars => FocusInv' /\ RolesKept(desk)'
  <2> SUFFICES ASSUME FocusInv, RolesKept(desk), [FocusNext]_focusVars PROVE FocusInv' /\ RolesKept(desk)'
    OBVIOUS
  <2>1. FocusInv' /\ (RolesKept(desk') \/ RolesKept(desk)')
    BY FocusAssumption, FocusInvStep DEF RolesStep
  <2>2. RolesKept(desk') => RolesKept(desk)'
    BY TwofoldGrows DEF RolesKept, Special, DropdownPlain, Plain
  <2> QED
    BY <2>1, <2>2
<1>3. FocusInv /\ RolesKept(desk) => FocusConsistent
  <2> SUFFICES ASSUME FocusInv, RolesKept(desk) PROVE FocusConsistent
    OBVIOUS
  <2>1. IndexExact
    BY DEF FocusInv, Agree, IndexExact
  <2>2. Special(desk) \subseteq mapped /\ Plain(desk) \subseteq mapped
    BY KnownMore DEF Special, Plain
  <2>3. FocusLive
    BY <2>2 DEF FocusInv, FocusKept, RolesKept, DropdownPlain, FocusLive
  <2> QED
    BY <2>1, <2>3 DEF FocusConsistent
<1> QED
  BY <1>1, <1>2, <1>3, PTL DEF FocusSpec
=============================================================================
