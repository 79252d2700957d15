--------------------------- MODULE MCSessionSafe ---------------------------
(***************************************************************************)
(* SessionManager on two instances that share the variables: one in which  *)
(* everything may go wrong, and a quiet one with a generation more in      *)
(* which nothing does but the requests race.  Which of them a behaviour is *)
(* of is chosen at the start.                                              *)
(***************************************************************************)
EXTENDS SessionManager, TLC

VARIABLE part

safeVars == <<part, vars>>

Quiet == INSTANCE SessionManager WITH MaxGeneration <- MaxGeneration + 1, Disruptions <- {}

SafeInit == part \in {"disrupted", "quiet"} /\ Init

SafeNext ==
  /\ \/ part = "disrupted" /\ Next
     \/ part = "quiet" /\ Quiet!Next
  /\ UNCHANGED part

SafeSpec == SafeInit /\ [][SafeNext]_safeVars

Symmetry == Permutations(Tasks)

-----------------------------------------------------------------------------
\* While every step of a launch succeeds, however the requests of several
\* connections interleave, the slot holds the session that the guard's stop, keys
\* and watchdog are for, and the application that runs as the systemd unit is its.
QuietSlot == part = "quiet" => SlotSupervised /\ UnitOfSlot

\* The session a guard is about: the one in the slot, or the one that was taken out
\* of it and whose keys the guard has.
OwnerNow == IF slot.stage # "none" THEN slot.gen ELSE keysTx

StageNow == IF slot.stage # "none" THEN slot.stage ELSE IF keysTx # NoGen THEN "moving" ELSE "vacant"

Promised == INSTANCE OneSession WITH
              owner <- IF part = "quiet" THEN OwnerNow ELSE NoGen,
              stage <- IF part = "quiet" THEN StageNow ELSE "vacant",
              rekeyed <- IF part = "quiet" THEN rekeyed ELSE NoGen

\* The manager then keeps its promise: launch_session and start_session, which
\* install a session after an unlock and an await, put back the one they took, into a
\* slot that no request has given to another client, reset_session ends
\* it, and update_keys reaches it.
ImplementsOneSession == Promised!OneSpec
=============================================================================
