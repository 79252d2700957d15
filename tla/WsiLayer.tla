------------------------------ MODULE WsiLayer ------------------------------
(***************************************************************************)
(* The Vulkan layer that a game loads (moonshine-wsi).  It gives the game   *)
(* a surface of the compositor's in place of its XWayland window, tells    *)
(* the compositor of every swapchain, and makes the game recreate a        *)
(* swapchain when the frame limiter or the window behind it changes.       *)
(*                                                                         *)
(* The game calls the layer from several threads.  As Vulkan demands, no    *)
(* two calls use one swapchain at a time.  A call takes one map lock after *)
(* another: the steps below lie between them where another thread's step   *)
(* can make a difference.                                                  *)
(***************************************************************************)
EXTENDS Integers, FiniteSets

CONSTANTS
  Threads,
  Windows,     \* X11 windows of the game; the VkSurface of each bears its name
  Handles,     \* handles of swapchains, which the driver uses again
  MaxToggles   \* bound: changes of the limiter, of windows, and of the connection

ASSUME WsiAssumption == MaxToggles \in Nat

NoHandle == "null"
NoEntry == [surface |-> NoHandle]
NoListing == [have |-> 0, extra |-> 0, caller |-> 0, written |-> 0, code |-> "SUCCESS"]
Idle == [op |-> "idle", handle |-> NoHandle]

VARIABLES
  instance,   \* LayerStatus of the instance: "none", "Active" or "Degraded"
  aware,      \* frame_limiter_aware
  served,     \* the compositor is there
  dead,       \* WaylandConnection::dead
  surfaces,   \* of a window: "none", "xcb", or "bypass" when SURFACE_MAP has it
  driver,     \* the surface of each swapchain that the driver has
  entries,    \* SWAPCHAIN_MAP
  newest,     \* the swapchain that the game presents on
  told,       \* swapchains that the game was told are out of date
  call,       \* the call each thread is in
  asked, inbox,  \* refresh_cycle events the compositor owes, and those received
  override,   \* the window that the compositor shows a bypass surface for
  presented,  \* swapchains with a frame
  limiter,    \* is_forcing_fifo()
  safe,       \* windows that fill their toplevel and that no child obscures
  toggles,
  listing     \* the enumeration just made

wsiVars == <<instance, aware, served, dead, surfaces, driver, entries, newest, told, call,
             asked, inbox, override, presented, limiter, safe, toggles, listing>>

WsiInit ==
  /\ instance = "none" /\ aware = FALSE /\ served = TRUE /\ dead = FALSE
  /\ surfaces = [w \in Windows |-> "none"] /\ newest = [w \in Windows |-> NoHandle]
  /\ driver = [h \in Handles |-> NoHandle] /\ entries = [h \in Handles |-> NoEntry]
  /\ told = {} /\ call = [t \in Threads |-> Idle] /\ asked = {} /\ inbox = {}
  /\ override = NoHandle /\ presented = {} /\ limiter = FALSE /\ safe = Windows /\ toggles = 0
  /\ listing = NoListing

Connected == instance = "Active"
InUse(h) == \E t \in Threads : call[t].handle = h
CallsStill == UNCHANGED <<driver, entries, newest, told, call, asked, inbox, presented>>
WorldStill == listing' = NoListing /\ UNCHANGED <<served, limiter, safe, toggles>>

-----------------------------------------------------------------------------
(* The instance and its surfaces.                                          *)

\* connect_to_compositor(): an extension the driver refuses, or a roundtrip that
\* fails, leaves the layer in the call chain as a passthrough.
connect_to_compositor == IF served THEN {"Active", "Degraded"} ELSE {"Degraded"}

\* detect_frame_limiter_aware(): by the game's engine.
detect_frame_limiter_aware(status) == IF status = "Active" THEN BOOLEAN ELSE {FALSE}

CreateInstance ==
  /\ instance = "none"
  /\ instance' \in connect_to_compositor
  /\ aware' \in detect_frame_limiter_aware(instance')
  /\ UNCHANGED <<dead, surfaces, override>> /\ CallsStill /\ WorldStill

\* try_xwayland_bypass(): it may fail for many reasons, and the game then gets
\* the driver's own surface.
try_xwayland_bypass == IF Connected /\ ~dead THEN {"bypass", "xcb"} ELSE {"xcb"}

CreateXcbSurface(w) ==
  /\ instance # "none" /\ surfaces[w] = "none"
  /\ \E kind \in try_xwayland_bypass : surfaces' = [surfaces EXCEPT ![w] = kind]
  /\ UNCHANGED <<instance, aware, dead, override>> /\ CallsStill /\ WorldStill

\* The layer lets go of the wl_surface; the library may destroy it or not.
DestroySurface(w) ==
  /\ surfaces[w] # "none" /\ \A h \in Handles : driver[h] # w
  /\ surfaces' = [surfaces EXCEPT ![w] = "none"]
  /\ override' \in {override, IF override = w THEN NoHandle ELSE override}
  /\ UNCHANGED <<instance, aware, dead>> /\ CallsStill /\ WorldStill

\* The window's rectangle is that of its toplevel, and no child obscures it.
FillsToplevel(w) == w \in safe

can_bypass_xwayland(w) == surfaces[w] = "bypass" /\ FillsToplevel(w)

\* is_forcing_fifo(): read from the limiter's file each time.
is_forcing_fifo == limiter

-----------------------------------------------------------------------------
(* Swapchains.                                                             *)

\* The driver makes the swapchain and the compositor is told of it: this ends
\* with the lock of the connection released, and the swapchain in no map yet.
CreateSwapchain(t, w, h) ==
  /\ call[t] = Idle /\ surfaces[w] # "none" /\ driver[h] = NoHandle
  /\ newest[w] # NoHandle => newest[w] \in told /\ ~InUse(newest[w])
  /\ \A u \in Threads : call[u].op = "create" => driver[call[u].handle] # w
  /\ driver' = [driver EXCEPT ![h] = w]
  /\ LET ms == Connected /\ surfaces[w] = "bypass"
     IN /\ call' = [call EXCEPT ![t] =
             [op |-> "create", handle |-> h, bypassing |-> can_bypass_xwayland(w), ms |-> ms]]
        /\ asked' = IF ms /\ served /\ ~dead THEN asked \cup {h} ELSE asked
        /\ override' = IF ms /\ served /\ ~dead /\ can_bypass_xwayland(w) THEN w ELSE override
        /\ dead' = (dead \/ (ms /\ ~served))
  /\ UNCHANGED <<instance, aware, surfaces, entries, newest, told, inbox, presented>> /\ WorldStill

InsertSwapchain(t) ==
  /\ call[t].op = "create"
  /\ LET h == call[t].handle
     IN /\ entries' = [entries EXCEPT ![h] =
             [surface |-> driver[h], fifo |-> is_forcing_fifo, bypassing |-> call[t].bypassing,
              ms |-> call[t].ms, refresh |-> FALSE]]
        /\ newest' = [newest EXCEPT ![driver[h]] = h]
  /\ call' = [call EXCEPT ![t] = Idle]
  /\ UNCHANGED <<instance, aware, dead, surfaces, driver, told, asked, inbox, override, presented>> /\ WorldStill

\* vkDestroySwapchainKHR of one that the game has replaced or done with.
DestroySwapchain(t, h) ==
  /\ call[t] = Idle /\ entries[h] # NoEntry /\ ~InUse(h) /\ h \in told
  /\ driver' = [driver EXCEPT ![h] = NoHandle] /\ entries' = [entries EXCEPT ![h] = NoEntry]
  /\ newest' = [w \in Windows |-> IF newest[w] = h THEN NoHandle ELSE newest[w]]
  /\ told' = told \ {h} /\ presented' = presented \ {h}
  /\ UNCHANGED <<instance, aware, dead, surfaces, call, asked, inbox, override>> /\ WorldStill

\* The compositor's answer to swapchain_feedback.
RefreshCycle(h) ==
  /\ served /\ h \in asked
  /\ asked' = asked \ {h} /\ inbox' = inbox \cup {h}
  /\ UNCHANGED <<instance, aware, dead, surfaces, driver, entries, newest, told, call, override, presented>> /\ WorldStill

\* dispatch_pending(): an event of a swapchain in no map is lost.
dispatch_pending ==
  [h \in Handles |-> IF h \in inbox /\ entries[h] # NoEntry THEN [entries[h] EXCEPT !.refresh = TRUE] ELSE entries[h]]

\* vkQueuePresentKHR, up to the driver: the limiter is read once.
QueuePresent(t, h) ==
  /\ call[t] = Idle /\ ~InUse(h) /\ h \notin told
  /\ \E w \in Windows : newest[w] = h
  /\ IF Connected /\ ~dead THEN entries' = dispatch_pending /\ inbox' = {} /\ dead' = ~served
     ELSE UNCHANGED <<entries, inbox, dead>>
  /\ call' = [call EXCEPT ![t] = [op |-> "present", handle |-> h, fifo |-> is_forcing_fifo]]
  /\ UNCHANGED <<instance, aware, surfaces, driver, newest, told, asked, override, presented>> /\ WorldStill

\* Mutant: a change of the limiter is not noticed.
PresentedUnlimited(t) ==
  /\ call[t].op = "present"
  /\ LET h == call[t].handle
         bypass_lost == entries[h].bypassing /\ ~can_bypass_xwayland(entries[h].surface)
     IN /\ entries' = IF bypass_lost THEN [entries EXCEPT ![h].bypassing = FALSE] ELSE entries
        /\ told' = IF bypass_lost THEN told \cup {h} ELSE told
        /\ presented' = presented \cup {h}
  /\ call' = [call EXCEPT ![t] = Idle]
  /\ UNCHANGED <<instance, aware, dead, surfaces, driver, newest, asked, inbox, override>> /\ WorldStill

\* The driver has presented; a swapchain made under another limiter, or for a
\* window that can no longer be bypassed, is out of date.  The game may find a
\* swapchain out of date for reasons of its own.
Presented(t) ==
  /\ call[t].op = "present"
  /\ LET h == call[t].handle
         fifo_changed == aware /\ entries[h].fifo # call[t].fifo
         bypass_lost == ~fifo_changed /\ entries[h].bypassing /\ ~can_bypass_xwayland(entries[h].surface)
     IN /\ entries' = IF bypass_lost THEN [entries EXCEPT ![h].bypassing = FALSE] ELSE entries
        /\ \/ told' = told \cup {h}
           \/ ~fifo_changed /\ ~bypass_lost /\ UNCHANGED told
        /\ presented' = presented \cup {h}
  /\ call' = [call EXCEPT ![t] = Idle]
  /\ UNCHANGED <<instance, aware, dead, surfaces, driver, newest, asked, inbox, override>> /\ WorldStill

-----------------------------------------------------------------------------
(* Enumerations that the layer adds to: the formats of a surface, and the  *)
(* extensions of a device.                                                 *)

\* append_hdr_formats(): extra entries after those of a driver that has some,
\* into a buffer of the caller's.
append_hdr_formats(have, extra, caller) ==
  LET room == IF caller < extra THEN 0 ELSE caller - extra  \* saturating_sub
      driver_count == IF have < room THEN have ELSE room
      result == IF driver_count < have THEN "INCOMPLETE" ELSE "SUCCESS"
      copied == IF caller - driver_count < extra THEN caller - driver_count ELSE extra
  IN [written |-> driver_count + copied, code |-> IF copied < extra THEN "INCOMPLETE" ELSE result]

Listed(have, extra, caller) ==
  LET r == append_hdr_formats(have, extra, caller)
  IN [have |-> have, extra |-> extra, caller |-> caller, written |-> r.written, code |-> r.code]

\* HDR_FORMATS has three entries, LAYER_EXTENSIONS two.
get_physical_device_surface_formats(have, caller) == Listed(have, 3, caller)
enumerate_device_extension_properties(have, caller) == Listed(have, 2, caller)

\* What the game asks for before it has a swapchain.
Enumerate ==
  /\ instance # "none" /\ toggles = 0 /\ listing = NoListing /\ \A h \in Handles : driver[h] = NoHandle
  /\ \E have \in 0..3, caller \in 0..7 :
       listing' \in {get_physical_device_surface_formats(have, caller),
                     enumerate_device_extension_properties(have, caller)}
  /\ UNCHANGED <<instance, aware, served, dead, surfaces, override, limiter, safe, toggles>> /\ CallsStill

-----------------------------------------------------------------------------
(* The world outside.                                                      *)

Toggle == toggles < MaxToggles /\ toggles' = toggles + 1
LayerStill == listing' = NoListing /\ UNCHANGED <<instance, aware, dead, surfaces, override>> /\ CallsStill

LimiterChanges == Toggle /\ limiter' = ~limiter /\ UNCHANGED <<served, safe>> /\ LayerStill

WindowChanges(w) ==
  /\ Toggle /\ safe' = IF w \in safe THEN safe \ {w} ELSE safe \cup {w}
  /\ UNCHANGED <<served, limiter>> /\ LayerStill

CompositorGone == Toggle /\ served /\ served' = FALSE /\ UNCHANGED <<limiter, safe>> /\ LayerStill

WsiNext ==
  \/ CreateInstance \/ Enumerate
  \/ \E w \in Windows : CreateXcbSurface(w) \/ DestroySurface(w) \/ WindowChanges(w)
  \/ LimiterChanges \/ CompositorGone
  \/ \E h \in Handles : RefreshCycle(h)
  \/ \E t \in Threads :
       \/ InsertSwapchain(t) \/ Presented(t)
       \/ \E h \in Handles :
            \/ DestroySwapchain(t, h) \/ QueuePresent(t, h)
            \/ \E w \in Windows : CreateSwapchain(t, w, h)

\* Calls of the layer return, and the game presents and replaces a swapchain
\* that it was told is out of date.
WsiFairness ==
  /\ \A t \in Threads : WF_wsiVars(InsertSwapchain(t) \/ Presented(t))
  /\ \A h \in Handles : WF_wsiVars(\E t \in Threads : QueuePresent(t, h))
  /\ \A h \in Handles : WF_wsiVars(\E t \in Threads : DestroySwapchain(t, h))

WsiSpec == WsiInit /\ [][WsiNext]_wsiVars /\ WsiFairness

-----------------------------------------------------------------------------

\* A game that knows of the frame limiter ends up with swapchains made for the
\* limiter as it is, however often it was switched while calls were under way
\* (force_fifo_at_creation, queue_present).
LimiterSettles ==
  <>[](aware => \A w \in Windows : newest[w] # NoHandle => entries[newest[w]].fifo = limiter)

\* An enumeration is said to be complete exactly when every entry of the driver's
\* and of the layer's was written, and never writes past the caller's buffer
\* (append_hdr_formats, enumerate_device_extension_properties).
ListingExact ==
  /\ listing.written <= listing.caller
  /\ listing.code = "SUCCESS" <=> listing.written = listing.have + listing.extra
=============================================================================
