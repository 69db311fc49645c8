--------------------------- MODULE MCActorCaller ---------------------------
(***************************************************************************)
(* Instances of ActorCaller for TLC.  Calls are not interchangeable, since *)
(* only some of them may be cancelled.                                     *)
(***************************************************************************)
EXTENDS ActorCaller

CONSTANTS j1, j2, j3
=============================================================================
