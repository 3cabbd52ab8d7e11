---------------------------- MODULE MCHardwareLock ----------------------------
(* Two sessions of the lab server and two command-line programs. *)
EXTENDS HardwareLock
CONSTANTS web1, web2, cli1, cli2, server, shell1, shell2

MCProc == {server, shell1, shell2}
MCProcOf == [s \in Session |->
    CASE s \in {web1, web2} -> server [] s = cli1 -> shell1 [] s = cli2 -> shell2]
===============================================================================
