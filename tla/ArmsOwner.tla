------------------------------ MODULE ArmsOwner ------------------------------
(***************************************************************************)
(* What the lab promises about the SO-101 arms (the first line of          *)
(* lab/core/hardware/lock.py): at any time at most one session owns them.  *)
(* A session takes the arms only while nobody owns them, and gives them    *)
(* back by itself or by dying.                                             *)
(***************************************************************************)
CONSTANTS Session,  \* everything that may open the arms: web sessions, CLI runs
          Nobody    \* the owner while the arms are free

VARIABLE owner

Init == owner = Nobody

\* HardwareLock.acquire returned.
Take(s) == owner = Nobody /\ owner' = s

\* HardwareLock.release was called, or the owner's process died.
Drop(s) == owner = s /\ owner' = Nobody

Next == \E s \in Session : Take(s) \/ Drop(s)

Spec == Init /\ [][Next]_owner
=============================================================================
