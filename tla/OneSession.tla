----------------------------- MODULE OneSession -----------------------------
(***************************************************************************)
(* What the session manager promises its clients: the host has one session *)
(* at a time.  It goes from its initialization over the launch of its      *)
(* application to the start of its streams, it is out of everybody's reach *)
(* while it moves between two of these stages, nobody else's session gets  *)
(* into its place before it has ended, and the keys a client updates are   *)
(* those of the session that streams.                                      *)
(***************************************************************************)
EXTENDS Naturals

VARIABLES owner,   \* the session, a number, or Nobody
          stage,   \* where it is
          rekeyed  \* the session whose keys were updated last, or Nobody

oneVars == <<owner, stage, rekeyed>>

Nobody == 0

OneInit == owner = Nobody /\ stage = "vacant" /\ rekeyed = Nobody

\* A client gets the host.
Claim ==
  /\ stage = "vacant"
  /\ stage' = "initialized" /\ owner' \in Nat \ {Nobody}
  /\ UNCHANGED rekeyed

\* The session is taken to be launched or started.
Move ==
  /\ stage \in {"initialized", "launched"}
  /\ stage' = "moving"
  /\ UNCHANGED <<owner, rekeyed>>

\* The same session is installed in its next stage.
Install ==
  /\ stage = "moving"
  /\ stage' \in {"launched", "active"}
  /\ UNCHANGED <<owner, rekeyed>>

\* The session ends, wherever it is.
End ==
  /\ stage # "vacant"
  /\ stage' = "vacant" /\ owner' = Nobody
  /\ UNCHANGED rekeyed

\* A resume updates the keys of the session that streams.
Rekey ==
  /\ stage = "active"
  /\ rekeyed' = owner
  /\ UNCHANGED <<owner, stage>>

OneNext == Claim \/ Move \/ Install \/ End \/ Rekey

OneSpec == OneInit /\ [][OneNext]_oneVars
=============================================================================
