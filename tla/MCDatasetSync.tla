---------------------------- MODULE MCDatasetSync ----------------------------
(* Its metadata, a file that may be removed and one that may be created. *)
EXTENDS DatasetSync
===============================================================================
