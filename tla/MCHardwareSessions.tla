-------------------------- MODULE MCHardwareSessions --------------------------
(* Two calibrations are saved at most. *)
EXTENDS HardwareSessions
===============================================================================
