--------------------------- MODULE MCRealtimeHub ---------------------------
(***************************************************************************)
(* Instance of RealtimeHub for TLC: two connections of one user, so that   *)
(* one may leave, come back as the other or stay while the other leaves,   *)
(* with events on their way, and one of another user.                      *)
(***************************************************************************)
EXTENDS RealtimeHub

CONSTANTS alice, bob, c4

MCUserOf == [c \in Clients |-> IF c = c4 THEN bob ELSE alice]
=============================================================================
