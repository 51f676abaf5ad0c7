---------------------------- MODULE TrackedJourneys ----------------------------
(* What the modules of the vehicle tracker have in common: the consumers of the realtime queue and  *)
(* the journeys that vehicles run.                                                                   *)

CONSTANTS
  Consumers,
  Journeys,
  None
=============================================================================
