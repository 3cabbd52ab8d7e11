----------------------------- MODULE MCJobRunner -----------------------------
(* Two jobs that compete for the GPU, on the GPU host, and a local one. *)
EXTENDS JobRunner

MCKindOf == [j \in Job |->
    CASE j = "train1" -> "train" [] j = "norm1" -> "norm_stats"
      [] j = "merge1" -> "merge"]
MCOn == [j \in Job |-> IF j \in {"train1", "norm1"} THEN "ssh" ELSE "local"]
===============================================================================
