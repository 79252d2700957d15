-------------------------------- MODULE Focus --------------------------------
(***************************************************************************)
(* The compositor's windows and its focus: which windows are tracked, how  *)
(* X11 and native toplevels come and go, which of them has the focus, gets *)
(* the keyboard, is the Steam overlay or the dropdown on top, and what     *)
(* Steam is told about it.  All handlers run on the compositor's thread;   *)
(* the X11 clients and Steam change properties beside it.                  *)
(*                                                                         *)
(* The compositor's own state is the record desk, so that a handler is the *)
(* composition of the functions it calls.  Sizes are classes: tiny is 1x1, *)
(* wide is the output's, above the 1200 pixels of an overlay.              *)
(* damage_sequence is left out: map_sequence already tells apart all       *)
(* windows that have one.                                                  *)
(***************************************************************************)
EXTENDS Integers, FiniteSets, Sequences, SequencesExt, Lists

CONSTANTS
  XWindows,   \* X11 windows
  Toplevels,  \* native toplevels
  Props,      \* the properties an X11 window may be created with: a set for each
  Controls,   \* values of GAMESCOPECTRL_BASELAYER_*: [window, apps]
  AppIds,     \* what get_appid_from_pid() may find for a native client
  MaxMaps,    \* bound: map_sequence_counter
  MaxChanges  \* bound: what clients and Steam change or ask for beside mapping

NoWindow == "none"
BigPicture == 769
Windows == XWindows \cup Toplevels
Sizes == {"tiny", "small", "wide"}

\* The properties of an X11 window, as far as the compositor reads them: app is
\* what get_appid_from_pid() finds, 0 for nothing; special is "external" for an
\* external overlay, "skip" for streaming clients and VR targets.
Properties ==
  [or : BOOLEAN, app : Nat, parent : XWindows \cup {NoWindow}, type : {"normal", "dialog", "menu"},
   disabled : BOOLEAN, size : Sizes, overlay : BOOLEAN, mode : 0 .. 2, opacity : 0 .. 255,
   special : {"none", "external", "skip"}]

ASSUME FocusAssumption ==
  /\ XWindows \cap Toplevels = {} /\ NoWindow \notin Windows
  /\ \A w \in XWindows : Props[w] \subseteq Properties
  /\ AppIds \subseteq Nat /\ MaxMaps \in Nat /\ MaxChanges \in Nat

VARIABLES
  props,    \* properties of the X11 windows that exist
  mapped,   \* X11 windows that are mapped, native toplevels that exist
  control,  \* what Steam asks for
  x11,      \* x11_focus: the connection that reads and writes X11 properties
  desk,     \* MoonshineCompositor
  changes,  \* how many changes and requests there have been
  twofold   \* history: X11 windows that became the dropdown while they had a flag of Steam's

focusVars == <<props, mapped, control, x11, desk, changes, twofold>>
NoProps == [none |-> TRUE]

Desk ==
  [space |-> <<>>,                            \* elements, in drawing order
   meta |-> <<>>,                             \* window_metadata
   index |-> [w \in XWindows |-> <<>>],       \* transient_children
   size |-> [w \in XWindows |-> "wide"],      \* X11Surface::geometry
   full |-> {},                               \* X11Surface::is_fullscreen
   buffer |-> [w \in Toplevels |-> "new"],    \* NativeWindowMapping
   maps |-> 0,                                \* map_sequence_counter
   focused |-> NoWindow, focusedX11 |-> NoWindow, keyboard |-> NoWindow,
   overlay |-> NoWindow, notification |-> NoWindow, external |-> NoWindow,
   dropdown |-> NoWindow,                     \* override_window
   requested |-> NoWindow,                    \* FocusState
   focusedApp |-> 0]                          \* GAMESCOPE_FOCUSED_APP

\* X11Focus::open() may fail.
X11Opens == BOOLEAN

FocusInit ==
  /\ props = [w \in XWindows |-> NoProps]
  /\ mapped = {}
  /\ control \in Controls
  /\ x11 \in X11Opens
  /\ desk = Desk
  /\ changes = 0 /\ twofold = {}

-----------------------------------------------------------------------------
(* Windows and their metadata.                                             *)

InSpace(d, w) == w \in ToSet(d.space)
Tracked(d, w) == w \in DOMAIN d.meta
Without(seq, w) == Kept(seq, Windows \ {w})

\* is_dropdown()
IsDropdown(m) == m.maybe \/ (m.or /\ m.size # "tiny")

\* read_cardinal_prop_by_atom(): without the connection a property is missing.
ReadProp(v) == IF x11 THEN v ELSE 0

\* get_window_pid(), by _NET_WM_PID or by XRes, and the app of that process.
AppOf(p) == ReadProp(p.app)

\* What Steam asks for.
read_focus_control == IF x11 THEN control ELSE [window |-> NoWindow, apps |-> {}]

\* GAMESCOPE_FOCUSED_APP after set_focused_app(), or clear_focused_app() for 0.
set_focused_app(d, app) == IF x11 THEN app ELSE d.focusedApp

\* x11_surface_metadata(): the metadata of w for the properties p.
Metadata(d, w, p) ==
  LET child == p.parent # NoWindow
  IN [x11 |-> TRUE, or |-> p.or, parent |-> p.parent, seq |-> 0, fullscreen |-> w \in d.full,
      app |-> AppOf(p),
      mode |-> ReadProp(p.mode),
      opacity |-> ReadProp(p.opacity),
      size |-> d.size[w],
      disabled |-> p.disabled,
      dialog |-> p.type = "dialog",
      maybe |-> p.or /\ d.size[w] # "tiny" /\ (p.type \in {"dialog", "menu"} \/ child),
      skip |-> p.or /\ child,
      flags |-> IF ~x11 THEN {}
                ELSE (IF ~p.overlay THEN {} ELSE IF d.size[w] = "wide" THEN {"overlay"} ELSE {"notification"})
                     \cup ({p.special} \ {"none"})]

NativeMetadata(app, seq) ==
  [x11 |-> FALSE, or |-> FALSE, parent |-> NoWindow, seq |-> seq, fullscreen |-> FALSE,
   app |-> app, mode |-> 0, opacity |-> 0, size |-> "wide", disabled |-> FALSE,
   dialog |-> FALSE, maybe |-> FALSE, skip |-> FALSE, flags |-> {}]

Track(d, w, m) ==
  [d EXCEPT !.space = Append(@, w),
            !.meta = [v \in DOMAIN @ \cup {w} |-> IF v = w THEN m ELSE @[v]]]

AddChild(d, p, w) == IF p = NoWindow THEN d ELSE [d EXCEPT !.index[p] = Append(@, w)]
DropChild(d, p, w) == IF p = NoWindow THEN d ELSE [d EXCEPT !.index[p] = Without(@, w)]

unregister_window(d, w) ==
  IF ~Tracked(d, w) THEN d
  ELSE [DropChild(d, d.meta[w].parent, w) EXCEPT
          !.meta = [v \in DOMAIN @ \ {w} |-> @[v]]]

unmap_elem(d, w) == [d EXCEPT !.space = Without(@, w)]

clear_dropdowns(d) ==
  LET e == d.dropdown
  IN IF e = NoWindow THEN d
     ELSE unregister_window(unmap_elem([d EXCEPT !.dropdown = NoWindow], e), e)

\* is_transient_of_focused(): w or one of its ancestors has the focus.
is_transient_of_focused(d, w) ==
  LET a[n \in 0 .. 10] ==
        IF n = 0 THEN w
        ELSE LET v == a[n - 1] IN IF Tracked(d, v) THEN d.meta[v].parent ELSE NoWindow
  IN d.focusedX11 # NoWindow /\ \E n \in 0 .. 10 : a[n] = d.focusedX11

-----------------------------------------------------------------------------
(* Evaluating the focus.  ps is props, with what the event has changed.    *)

Has(d, w, flag) == Tracked(d, w) /\ flag \in d.meta[w].flags

\* Mutant: an application that was not known when the window came is not looked for.
refresh_modes(d, ps) ==
  IF ~x11 THEN d
  ELSE [d EXCEPT !.meta = [w \in DOMAIN @ |->
          IF w \in XWindows /\ "overlay" \in @[w].flags THEN [@[w] EXCEPT !.mode = ps[w].mode] ELSE @[w]]]

refresh_metadata(d, ps) ==
  IF ~x11 THEN d
  ELSE LET fresh(w, m) == [m EXCEPT !.mode = IF "overlay" \in m.flags THEN ps[w].mode ELSE @,
                                    !.app = IF @ = 0 THEN ps[w].app ELSE @]
       IN [d EXCEPT !.meta = [w \in DOMAIN @ |-> IF w \in XWindows THEN fresh(w, @[w]) ELSE @[w]]]

\* The last of the windows with the flag that have the greatest opacity.
BestOf(d, flag) ==
  LET all == {w \in ToSet(d.space) : Has(d, w, flag)}
      top == Kept(d.space, {w \in all : \A v \in all : d.meta[v].opacity <= d.meta[w].opacity})
  IN IF top = <<>> THEN NoWindow ELSE Last(top)

classify_special_windows(d) ==
  [d EXCEPT !.overlay = BestOf(d, "overlay"),
            !.notification = BestOf(d, "notification"),
            !.external = BestOf(d, "external")]

build_candidates(d) ==
  Kept(d.space, {w \in DOMAIN d.meta :
    /\ w \in Toplevels => d.buffer[w] # "unmapped"
    /\ d.meta[w].flags = {}
    /\ ~(d.meta[w].or /\ d.meta[w].app = 0)})

get_window_priority_key(m) ==
  LET bit(b) == IF b THEN 1 ELSE 0
  IN << bit(m.app # 0), bit(~m.or), bit(m.size # "tiny"), bit(~IsDropdown(m)), bit(~m.disabled),
        bit(~(m.skip /\ ~m.fullscreen)), bit(~m.dialog), bit(~m.x11), bit(m.parent = NoWindow), m.seq >>

Greater(k, l) ==
  \E i \in DOMAIN k : k[i] > l[i] /\ \A j \in 1 .. i - 1 : k[j] = l[j]

\* The windows of a list that no other one outranks, in their order.
Top(d, ws) ==
  LET key(w) == get_window_priority_key(d.meta[w])
  IN Kept(ws, {w \in ToSet(ws) : \A v \in ToSet(ws) : ~Greater(key(v), key(w))})

\* pick_best_candidate() and the sort its caller falls back to: the window a
\* client asked for, the one Steam asks for, or the best of all.
pick_best_candidate(d, cs) ==
  LET asks == read_focus_control
      ofSteam == Kept(cs, {w \in ToSet(cs) : d.meta[w].app \in asks.apps})
  IN IF d.requested \in ToSet(cs) THEN d.requested
     ELSE IF asks.window \in ToSet(cs) THEN asks.window
     ELSE IF ofSteam # <<>> THEN Head(Top(d, ofSteam))
     ELSE Last(Top(d, cs))

\* promote_transient_child(): from w down through its dropdowns, to the first
\* child that is not a dropdown; w itself if there is none.
promote_transient_child(d, w) ==
  LET step[n \in 0 .. 10] ==
        IF n = 0 THEN [at |-> w, seen |-> {w}, found |-> NoWindow]
        ELSE LET s == step[n - 1]
                 children == IF s.at \notin XWindows THEN <<>>
                             ELSE Kept(d.index[s.at], {c \in DOMAIN d.meta \ s.seen : d.meta[c].parent = s.at})
                 proper == Kept(children, {c \in DOMAIN d.meta : ~IsDropdown(d.meta[c])})
             IN IF s.found # NoWindow \/ children = <<>> THEN s
                ELSE IF proper # <<>> THEN [s EXCEPT !.found = Head(proper)]
                ELSE [at |-> Head(children), seen |-> s.seen \cup {Head(children)}, found |-> NoWindow]
      found == step[10].found
  IN IF found = NoWindow THEN w ELSE found

enforce_fullscreen_geometry(d, w) ==
  IF w \in XWindows /\ Tracked(d, w) /\ d.meta[w].app # 0 /\ (d.meta[w].fullscreen \/ d.meta[w].app = BigPicture)
  THEN [d EXCEPT !.size[w] = "wide"] ELSE d

apply_focus(d, best) ==
  LET x == IF best \in XWindows THEN best ELSE NoWindow
      told == [d EXCEPT !.focusedX11 = x, !.focused = best,
                        !.focusedApp = set_focused_app(d, d.meta[best].app)]
      e == IF d.focusedX11 # x \/ d.focused # best THEN clear_dropdowns(told) ELSE told
      mode == IF Tracked(e, e.overlay) THEN e.meta[e.overlay].mode ELSE 0
  IN [e EXCEPT !.keyboard = IF mode \in {0, 2} THEN best ELSE e.overlay]

reevaluate_focus(d, ps) ==
  LET c == classify_special_windows(refresh_metadata(d, ps))
      cs == build_candidates(c)
      picked == pick_best_candidate(c, cs)
      best == promote_transient_child(c, picked)
      asked == [c EXCEPT !.requested = IF @ \in ToSet(cs) THEN NoWindow ELSE @]
  IN IF cs = <<>>
     THEN [c EXCEPT !.focused = NoWindow, !.focusedX11 = NoWindow, !.keyboard = NoWindow,
                    !.focusedApp = set_focused_app(c, 0)]
     ELSE apply_focus(enforce_fullscreen_geometry(asked, best), best)

-----------------------------------------------------------------------------
(* X11 windows.                                                            *)

SteamStill == UNCHANGED <<control, x11, changes, twofold>>
X11Asks == changes < MaxChanges /\ changes' = changes + 1 /\ UNCHANGED <<control, x11, twofold>>
Exists(w) == props[w] # NoProps

\* new_window(), new_override_redirect_window(): nothing but a log line.
NewWindow(w) ==
  /\ ~Exists(w)
  /\ \E p \in Props[w] : props' = [props EXCEPT ![w] = p] /\ desk' = [desk EXCEPT !.size[w] = p.size]
  /\ UNCHANGED mapped /\ SteamStill

MapWindowRequest(w) ==
  /\ Exists(w) /\ ~props[w].or /\ w \notin mapped
  /\ desk.maps < MaxMaps
  /\ LET d == [desk EXCEPT !.size[w] = "wide", !.maps = @ + 1]
         m == [Metadata(d, w, props[w]) EXCEPT !.seq = d.maps]
     IN desk' = reevaluate_focus(AddChild(Track(d, w, m), m.parent, w), props)
  /\ mapped' = mapped \cup {w}
  /\ UNCHANGED props /\ SteamStill

\* notify_dropdown(): the window replaces the dropdown, unless it is a
\* notification or an external overlay.
notify_dropdown(d, w) ==
  IF w \in {d.notification, d.external} THEN d ELSE [d EXCEPT !.dropdown = w]

\* A dropdown that is not on the screen is only tracked.
MappedOverrideRedirectWindow(w) ==
  /\ Exists(w) /\ props[w].or /\ w \notin mapped
  /\ LET m == Metadata(desk, w, props[w])
         tracked == Track(desk, w, m)
         d == AddChild(tracked, m.parent, w)
         child == is_transient_of_focused(tracked, w)
         onScreen == notify_dropdown(classify_special_windows(d), w)
     IN \/ IsDropdown(m) /\ child /\ desk' \in {d, onScreen}
        \/ IsDropdown(m) /\ ~child /\ desk' = d
        \/ ~IsDropdown(m) /\ desk' = reevaluate_focus(d, props)
  /\ mapped' = mapped \cup {w}
  /\ twofold' = twofold \cup {v \in {w} : desk'.dropdown = v /\ desk'.meta[v].flags # {}}
  /\ UNCHANGED <<props, control, x11, changes>>

UnregisterUnmapped(w) ==
  IF ~InSpace(desk, w) THEN desk
  ELSE LET d == unmap_elem(unregister_window(desk, w), w)
       IN IF d.dropdown = w THEN clear_dropdowns(d) ELSE d

\* Mutant: an overlay or a notification that goes is not looked for.
UnmappedWindowPlain(w) ==
  /\ w \in mapped \cap XWindows
  /\ LET wasFocused == desk.focusedX11 = w
         ofFocused == /\ InSpace(desk, desk.focusedX11) /\ Tracked(desk, desk.focusedX11)
                      /\ desk.meta[desk.focusedX11].parent = w
         d == UnregisterUnmapped(w)
     IN desk' = IF wasFocused \/ ofFocused
                THEN reevaluate_focus([d EXCEPT !.focusedX11 = NoWindow, !.keyboard = NoWindow], props)
                ELSE IF d.focusedX11 = NoWindow THEN reevaluate_focus(d, props)
                ELSE d
  /\ mapped' = mapped \ {w}
  /\ UNCHANGED props /\ SteamStill

UnmappedWindow(w) ==
  /\ w \in mapped \cap XWindows
  /\ LET wasFocused == desk.focusedX11 = w
         ofFocused == /\ InSpace(desk, desk.focusedX11) /\ Tracked(desk, desk.focusedX11)
                      /\ desk.meta[desk.focusedX11].parent = w
         isSpecial == InSpace(desk, w) /\ Tracked(desk, w) /\ desk.meta[w].flags # {}
         d == UnregisterUnmapped(w)
     IN desk' = IF wasFocused \/ ofFocused
                THEN reevaluate_focus([d EXCEPT !.focusedX11 = NoWindow, !.keyboard = NoWindow], props)
                ELSE IF d.focusedX11 = NoWindow \/ isSpecial THEN reevaluate_focus(d, props)
                ELSE d
  /\ mapped' = mapped \ {w}
  /\ UNCHANGED props /\ SteamStill

\* A window is destroyed once it is unmapped: the X server sees to the order.
DestroyedWindow(w) ==
  /\ Exists(w) /\ w \notin mapped
  /\ props' = [props EXCEPT ![w] = NoProps]
  /\ desk' = [(IF InSpace(desk, w) THEN unregister_window(desk, w) ELSE desk) EXCEPT !.full = @ \ {w}]
  /\ UNCHANGED mapped /\ SteamStill

\* The windows' properties that property_notify() reports, and the fields of p
\* that they stand for.
Notified == [Hints |-> {"disabled"}, TransientFor |-> {"parent"}, WindowType |-> {"type"}, Pid |-> {"app"}]

OnlyDiffers(p, q, fields) == \A f \in DOMAIN p : p[f] # q[f] => f \in fields

\* The fields of the metadata that the property of this kind is re-read into.
Reread(d, w, kind, m, n) ==
  CASE kind = "Hints" -> [d EXCEPT !.meta[w].disabled = n.disabled]
    [] kind = "TransientFor" ->
         AddChild(DropChild([d EXCEPT !.meta[w] = [@ EXCEPT !.parent = n.parent, !.skip = n.skip, !.maybe = n.maybe]],
                            m.parent, w), n.parent, w)
    [] kind = "WindowType" -> [d EXCEPT !.meta[w] = [@ EXCEPT !.dialog = n.dialog, !.maybe = n.maybe]]
    [] OTHER -> d

PropertyNotify(w, kind) ==
  /\ X11Asks
  /\ Exists(w)
  /\ \E p \in Props[w] \ {props[w]} :
       /\ OnlyDiffers(p, props[w], Notified[kind])
       /\ props' = [props EXCEPT ![w] = p]
       /\ LET d == IF InSpace(desk, w) /\ Tracked(desk, w)
                   THEN Reread(desk, w, kind, desk.meta[w], Metadata(desk, w, p)) ELSE desk
          IN desk' = reevaluate_focus(d, props')
  /\ UNCHANGED mapped

\* Steam's own properties change without the compositor being notified.
PropertyUnseen(w) ==
  /\ X11Asks
  /\ Exists(w)
  /\ \E p \in Props[w] \ {props[w]} :
       /\ OnlyDiffers(p, props[w], {"overlay", "mode", "opacity", "special"})
       /\ props' = [props EXCEPT ![w] = p]
  /\ UNCHANGED <<mapped, desk>>

SteamAsks ==
  /\ changes < MaxChanges /\ changes' = changes + 1
  /\ \E c \in Controls \ {control} : control' = c
  /\ UNCHANGED <<props, mapped, x11, desk, twofold>>

ActiveWindowRequest(w) ==
  /\ X11Asks
  /\ Exists(w)
  /\ desk' = reevaluate_focus([desk EXCEPT !.requested = w], props)
  /\ UNCHANGED <<props, mapped>>

\* The client resizes its window; the server's ConfigureNotify is a step of its own.
ConfigureRequest(w) ==
  /\ X11Asks
  /\ Exists(w)
  /\ \E s \in {p.size : p \in Props[w]} \ {desk.size[w]} : desk' = [desk EXCEPT !.size[w] = s]
  /\ UNCHANGED <<props, mapped>>

\* A window that is told to the space again goes to its top.
ConfigureNotify(w) ==
  /\ X11Asks
  /\ w \in mapped \cap XWindows /\ InSpace(desk, w) /\ Tracked(desk, w)
  /\ LET steam == {"overlay", "notification"}
         flags == desk.meta[w].flags
         s == desk.size[w]
     IN desk' = [desk EXCEPT
          !.space = Append(Without(@, w), w),
          !.meta[w] = [@ EXCEPT !.size = s,
                                !.flags = IF flags \cap steam # {} /\ x11 /\ props[w].overlay
                                          THEN (flags \ steam) \cup {IF s = "wide" THEN "overlay" ELSE "notification"}
                                          ELSE flags]]
  /\ UNCHANGED <<props, mapped>>

SetX11Fullscreen(w, on) ==
  /\ X11Asks
  /\ Exists(w) /\ (w \in desk.full) # on
  /\ LET d == [desk EXCEPT !.full = IF on THEN @ \cup {w} ELSE @ \ {w}]
     IN desk' = reevaluate_focus(IF InSpace(d, w) /\ Tracked(d, w) THEN [d EXCEPT !.meta[w].fullscreen = on] ELSE d,
                                 props)
  /\ UNCHANGED <<props, mapped>>

\* surface_associated(): the focused window gets the keyboard once more.
SurfaceAssociated(w) ==
  /\ X11Asks
  /\ w \in mapped \cap XWindows /\ desk.focusedX11 = w /\ InSpace(desk, w)
  /\ desk' = [desk EXCEPT !.keyboard = w]
  /\ UNCHANGED <<props, mapped>>

-----------------------------------------------------------------------------
(* Native toplevels.                                                       *)

NewToplevel(t) ==
  /\ t \notin mapped /\ desk.maps < MaxMaps
  /\ \E app \in AppIds :
       LET d == [desk EXCEPT !.maps = @ + 1, !.buffer[t] = "new"]
       IN desk' = reevaluate_focus(Track(d, t, NativeMetadata(app, d.maps)), props)
  /\ mapped' = mapped \cup {t}
  /\ UNCHANGED props /\ SteamStill

\* commit(): a toplevel that gets its first buffer, or loses it, may gain or
\* lose the focus.
Commit(t, attached) ==
  /\ t \in mapped \cap Toplevels /\ (desk.buffer[t] = "mapped") # attached
  /\ desk' = reevaluate_focus([desk EXCEPT !.buffer[t] = IF attached THEN "mapped" ELSE "unmapped"], props)
  /\ UNCHANGED <<props, mapped>> /\ SteamStill

ToplevelDestroyed(t) ==
  /\ t \in mapped \cap Toplevels
  /\ desk' = reevaluate_focus(unmap_elem(unregister_window([desk EXCEPT !.buffer[t] = "new"], t), t), props)
  /\ mapped' = mapped \ {t}
  /\ UNCHANGED props /\ SteamStill

\* fullscreen_request(), unfullscreen_request(), app_id_changed().
ToplevelRequest(t) ==
  /\ X11Asks
  /\ t \in mapped \cap Toplevels
  /\ \E m \in {[desk.meta[t] EXCEPT !.fullscreen = TRUE], [desk.meta[t] EXCEPT !.fullscreen = FALSE]}
              \cup {[desk.meta[t] EXCEPT !.app = app] : app \in AppIds} :
       desk' = reevaluate_focus([desk EXCEPT !.meta[t] = m], props)
  /\ UNCHANGED <<props, mapped>>

FocusNext ==
  \/ \E w \in XWindows :
       \/ NewWindow(w) \/ MapWindowRequest(w) \/ MappedOverrideRedirectWindow(w)
       \/ UnmappedWindow(w) \/ DestroyedWindow(w)
       \/ \E kind \in DOMAIN Notified : PropertyNotify(w, kind)
       \/ PropertyUnseen(w) \/ ActiveWindowRequest(w)
       \/ ConfigureRequest(w) \/ ConfigureNotify(w)
       \/ \E on \in BOOLEAN : SetX11Fullscreen(w, on)
       \/ SurfaceAssociated(w)
  \/ \E t \in Toplevels :
       \/ NewToplevel(t) \/ ToplevelDestroyed(t) \/ ToplevelRequest(t)
       \/ \E attached \in BOOLEAN : Commit(t, attached)
  \/ SteamAsks

FocusSpec == FocusInit /\ [][FocusNext]_focusVars

-----------------------------------------------------------------------------

\* The index of transient children, which decides who is promoted to the focus,
\* has every window once, below the parent its metadata names, and no window
\* that is gone (map_window_request, property_notify, unregister_window).
IndexExact ==
  \A p \in XWindows :
    /\ ToSet(desk.index[p]) = {w \in DOMAIN desk.meta : desk.meta[w].parent = p}
    /\ IsInjective(desk.index[p])

\* Neither the focus, nor the keyboard, nor any window drawn on top is ever left
\* with a window that has been unmapped or destroyed (unmapped_window,
\* toplevel_destroyed, clear_dropdowns).  A window of Steam's that is registered as
\* the dropdown as well is excepted from its role of Steam's: clear_dropdowns() takes
\* it off the screen after the classification, so that its own unmap finds nothing.
FocusLive ==
  /\ {desk.focused, desk.focusedX11, desk.keyboard, desk.dropdown} \subseteq mapped \cup {NoWindow}
  /\ {desk.overlay, desk.notification, desk.external} \subseteq mapped \cup {NoWindow} \cup twofold

\* Steam routes controllers by GAMESCOPE_FOCUSED_APP: it names the application
\* of the focused window, also after the window's process has become known late,
\* and none when no window has the focus (apply_focus, reevaluate_focus,
\* refresh_metadata).
FocusedAppTold ==
  x11 => /\ desk.focused = NoWindow => desk.focusedApp = 0
         /\ Tracked(desk, desk.focused) =>
              /\ desk.focusedApp = desk.meta[desk.focused].app
              /\ desk.focused \in XWindows /\ props[desk.focused].app # 0 => desk.focusedApp # 0

\* The compositor's tables speak only of windows that are there: the index of
\* transient children is that of the metadata, and no role is held by a window that
\* is gone, in whatever order X11, Wayland and Steam's requests came.  The exception
\* is that of FocusLive.
FocusConsistent == IndexExact /\ FocusLive
=============================================================================
