----------------------------- MODULE MCCollectCli -----------------------------
(* Two sessions: one of a single episode, one of two. *)
EXTENDS CollectCli

MCSess == {1, 2}
MCPlanned == [s \in MCSess |-> s]
===============================================================================
