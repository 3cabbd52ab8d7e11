----------------------------- MODULE MCCollection -----------------------------
(* Two sessions: one of two episodes, one of a single episode. *)
EXTENDS Collection

MCSess == {1, 2}
MCPlanned == [s \in MCSess |-> IF s = 1 THEN 2 ELSE 1]
===============================================================================
