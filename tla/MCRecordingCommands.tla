-------------------------- MODULE MCRecordingCommands --------------------------
(* Two episodes, so that a reset, a retry and a last episode happen. *)
EXTENDS RecordingCommands
===============================================================================
