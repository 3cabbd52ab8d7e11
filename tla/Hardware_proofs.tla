---------------------------- MODULE Hardware_proofs ----------------------------
(***************************************************************************)
(* Proofs about HardwareLock for every set of sessions and processes.  The *)
(* inductive invariant IInv says what each step of acquire and release may *)
(* rely on: who has a thread lock, that at most one session is inside      *)
(* acquire or release until two processes overlap, and, until then, what   *)
(* the file says about every session.                                      *)
(***************************************************************************)
EXTENDS HardwareLock, HardwareSessions, TLAPS

\* A session past TryThreadLock has its process's lock, and only such a session has.
ThreadLockOwned ==
    /\ \A s \in Session : pc[s] # "idle" => threadLock[ProcOf[s]] = s
    /\ \A p \in Proc : threadLock[p] # Nobody =>
          pc[threadLock[p]] # "idle" /\ ProcOf[threadLock[p]] = p

OneInside == \A s, t \in Session : Inside(s) /\ Inside(t) => s = t

FileNamesHolder == \A s \in Session : pc[s] \in {"held", "drop"} => file # NoFile /\ MyPid(s)

FileBeingWritten == \A s \in Session : pc[s] = "write" =>
    file # NoFile /\ file.by = s /\ file.text = "empty" /\ file.life = life[ProcOf[s]]

NothingToSteal == \A s, t \in Session : pc[s] = "unlink" => ~Holds(t)

LiveFileHasHolder == file # NoFile /\ Alive => pc[file.by] \in {"held", "drop"}

SecondTryFree == \A s \in Session : tries[s] = 2 =>
    pc[s] \in {"create", "write"} /\ (pc[s] = "create" => file = NoFile)

\* No file is from a life its process has not lived yet.
FileFromPast == file # NoFile => file.life <= life[ProcOf[file.by]]

SerialInv ==
    /\ OneInside
    /\ FileFromPast
    /\ FileNamesHolder
    /\ FileBeingWritten
    /\ NothingToSteal
    /\ LiveFileHasHolder
    /\ SecondTryFree

IInv == TypeOK /\ ThreadLockOwned /\ (use = "serial" => SerialInv)

-------------------------------------------------------------------------------
USE LockAssumption, NoFileAssumption

\* At the start nobody is inside the protocol.
LEMMA InitEstablishesIInv == Init => IInv
  BY DEF Init, IInv, TypeOK, ThreadLockOwned, SerialInv, OneInside, FileNamesHolder,
         FileBeingWritten, NothingToSteal, LiveFileHasHolder, SecondTryFree, FileFromPast,
         Inside, Holds, Steps, Outcomes, Alive, MyPid

\* Every step keeps the types.
LEMMA TypePreserved == TypeOK /\ [Next]_vars => TypeOK'
<1> SUFFICES ASSUME TypeOK, [Next]_vars PROVE TypeOK'
  OBVIOUS
<1> USE DEF TypeOK, Steps, Outcomes, Goto, FreeThreadLock, GiveUp
<1>1. ASSUME NEW s \in Session, TryThreadLock(s) PROVE TypeOK'
  BY <1>1 DEF TryThreadLock, OthersInside, Inside
<1>2. ASSUME NEW s \in Session, CreateFile(s) PROVE TypeOK'
  BY <1>2 DEF CreateFile, File
<1>3. ASSUME NEW s \in Session, ReadOwner(s) PROVE TypeOK'
  BY <1>3 DEF ReadOwner
<1>4. ASSUME NEW s \in Session, UnlinkStale(s) PROVE TypeOK'
  BY <1>4 DEF UnlinkStale
<1>5. ASSUME NEW s \in Session, WriteRecord(s) PROVE TypeOK'
  BY <1>5 DEF WriteRecord, File
<1>6. ASSUME NEW s \in Session, WriteFails(s) PROVE TypeOK'
  BY <1>6 DEF WriteFails
<1>7. ASSUME NEW s \in Session, BeginRelease(s) PROVE TypeOK'
  BY <1>7 DEF BeginRelease, OthersInside, Inside
<1>8. ASSUME NEW s \in Session, ReleaseUnlink(s) PROVE TypeOK'
  BY <1>8 DEF ReleaseUnlink
<1>9. ASSUME NEW s \in Session, ReleaseThreadLock(s) PROVE TypeOK'
  BY <1>9 DEF ReleaseThreadLock
<1>10. ASSUME NEW p \in Proc, Crash(p) PROVE TypeOK'
  BY <1>10 DEF Crash
<1>11. CASE UNCHANGED vars
  BY <1>11 DEF vars
<1>12. QED
  BY <1>1, <1>2, <1>3, <1>4, <1>5, <1>6, <1>7, <1>8, <1>9, <1>10, <1>11 DEF Next

\* A session past the thread lock keeps it until it gives it back.
LEMMA ThreadLockPreserved ==
  TypeOK /\ ThreadLockOwned /\ [Next]_vars => ThreadLockOwned'
<1> SUFFICES ASSUME TypeOK, ThreadLockOwned, [Next]_vars PROVE ThreadLockOwned'
  OBVIOUS
<1> USE DEF TypeOK, ThreadLockOwned, Goto, FreeThreadLock, GiveUp
<1>1. ASSUME NEW s \in Session, TryThreadLock(s) PROVE ThreadLockOwned'
  BY <1>1 DEF TryThreadLock
<1>2. ASSUME NEW s \in Session, CreateFile(s) PROVE ThreadLockOwned'
  BY <1>2 DEF CreateFile
<1>3. ASSUME NEW s \in Session, ReadOwner(s) PROVE ThreadLockOwned'
  BY <1>3 DEF ReadOwner
<1>4. ASSUME NEW s \in Session, UnlinkStale(s) PROVE ThreadLockOwned'
  BY <1>4 DEF UnlinkStale
<1>5. ASSUME NEW s \in Session, WriteRecord(s) PROVE ThreadLockOwned'
  BY <1>5 DEF WriteRecord
<1>6. ASSUME NEW s \in Session, WriteFails(s) PROVE ThreadLockOwned'
  BY <1>6 DEF WriteFails
<1>7. ASSUME NEW s \in Session, BeginRelease(s) PROVE ThreadLockOwned'
  BY <1>7 DEF BeginRelease
<1>8. ASSUME NEW s \in Session, ReleaseUnlink(s) PROVE ThreadLockOwned'
  BY <1>8 DEF ReleaseUnlink
<1>9. ASSUME NEW s \in Session, ReleaseThreadLock(s) PROVE ThreadLockOwned'
  BY <1>9 DEF ReleaseThreadLock
<1>10. ASSUME NEW p \in Proc, Crash(p) PROVE ThreadLockOwned'
  BY <1>10 DEF Crash
<1>11. CASE UNCHANGED vars
  BY <1>11 DEF vars
<1>12. QED
  BY <1>1, <1>2, <1>3, <1>4, <1>5, <1>6, <1>7, <1>8, <1>9, <1>10, <1>11 DEF Next
-------------------------------------------------------------------------------
\* `use` is a history: it never becomes serial again.
LEMMA SerialBefore == TypeOK /\ [Next]_vars /\ use' = "serial" => use = "serial"
  BY DEF TypeOK, Next, vars, TryThreadLock, CreateFile, ReadOwner, UnlinkStale, WriteRecord,
         WriteFails, BeginRelease, ReleaseUnlink, ReleaseThreadLock, Crash, GiveUp

\* A session enters acquire or release only while nobody else is inside.
LEMMA OneInsidePreserved ==
  TypeOK /\ ThreadLockOwned /\ SerialInv /\ [Next]_vars /\ use' = "serial" => OneInside'
<1> SUFFICES ASSUME TypeOK, ThreadLockOwned, SerialInv, [Next]_vars, use' = "serial"
             PROVE OneInside'
  OBVIOUS
<1> USE DEF TypeOK, ThreadLockOwned, SerialInv, OneInside, Inside,
            Goto, FreeThreadLock, GiveUp, OthersInside
<1>1. ASSUME NEW s \in Session, TryThreadLock(s) PROVE OneInside'
  BY <1>1 DEF TryThreadLock
<1>2. ASSUME NEW s \in Session, CreateFile(s) PROVE OneInside'
  BY <1>2 DEF CreateFile
<1>3. ASSUME NEW s \in Session, ReadOwner(s) PROVE OneInside'
  BY <1>3 DEF ReadOwner
<1>4. ASSUME NEW s \in Session, UnlinkStale(s) PROVE OneInside'
  BY <1>4 DEF UnlinkStale
<1>5. ASSUME NEW s \in Session, WriteRecord(s) PROVE OneInside'
  BY <1>5 DEF WriteRecord
<1>6. ASSUME NEW s \in Session, WriteFails(s) PROVE OneInside'
  BY <1>6 DEF WriteFails
<1>7. ASSUME NEW s \in Session, BeginRelease(s) PROVE OneInside'
  BY <1>7 DEF BeginRelease
<1>8. ASSUME NEW s \in Session, ReleaseUnlink(s) PROVE OneInside'
  BY <1>8 DEF ReleaseUnlink
<1>9. ASSUME NEW s \in Session, ReleaseThreadLock(s) PROVE OneInside'
  BY <1>9 DEF ReleaseThreadLock
<1>10. ASSUME NEW p \in Proc, Crash(p) PROVE OneInside'
  BY <1>10 DEF Crash
<1>11. CASE UNCHANGED vars
  BY <1>11 DEF vars
<1>12. QED
  BY <1>1, <1>2, <1>3, <1>4, <1>5, <1>6, <1>7, <1>8, <1>9, <1>10, <1>11 DEF Next

\* Nobody but the holder removes or replaces the holder's file.
LEMMA FileNamesHolderPreserved ==
  TypeOK /\ ThreadLockOwned /\ SerialInv /\ [Next]_vars /\ use' = "serial" => FileNamesHolder'
<1> SUFFICES ASSUME TypeOK, ThreadLockOwned, SerialInv, [Next]_vars, use' = "serial"
             PROVE FileNamesHolder'
  OBVIOUS
<1> USE DEF TypeOK, ThreadLockOwned, SerialInv, OneInside, FileNamesHolder, FileBeingWritten,
            NothingToSteal, Inside, Holds, MyPid, File, Goto, FreeThreadLock, GiveUp, OthersInside
<1>1. ASSUME NEW s \in Session, TryThreadLock(s) PROVE FileNamesHolder'
  BY <1>1 DEF TryThreadLock
<1>2. ASSUME NEW s \in Session, CreateFile(s) PROVE FileNamesHolder'
  BY <1>2 DEF CreateFile
<1>3. ASSUME NEW s \in Session, ReadOwner(s) PROVE FileNamesHolder'
  BY <1>3 DEF ReadOwner
<1>4. ASSUME NEW s \in Session, UnlinkStale(s) PROVE FileNamesHolder'
  BY <1>4 DEF UnlinkStale
<1>5. ASSUME NEW s \in Session, WriteRecord(s) PROVE FileNamesHolder'
  BY <1>5 DEF WriteRecord
<1>6. ASSUME NEW s \in Session, WriteFails(s) PROVE FileNamesHolder'
  BY <1>6 DEF WriteFails
<1>7. ASSUME NEW s \in Session, BeginRelease(s) PROVE FileNamesHolder'
  BY <1>7 DEF BeginRelease
<1>8. ASSUME NEW s \in Session, ReleaseUnlink(s) PROVE FileNamesHolder'
  BY <1>8 DEF ReleaseUnlink
<1>9. ASSUME NEW s \in Session, ReleaseThreadLock(s) PROVE FileNamesHolder'
  BY <1>9 DEF ReleaseThreadLock
<1>10. ASSUME NEW p \in Proc, Crash(p) PROVE FileNamesHolder'
  BY <1>10 DEF Crash
<1>11. CASE UNCHANGED vars
  BY <1>11 DEF vars
<1>12. QED
  BY <1>1, <1>2, <1>3, <1>4, <1>5, <1>6, <1>7, <1>8, <1>9, <1>10, <1>11 DEF Next

\* The file being written stays in place until its record is in it.
LEMMA FileBeingWrittenPreserved ==
  TypeOK /\ ThreadLockOwned /\ SerialInv /\ [Next]_vars /\ use' = "serial" => FileBeingWritten'
<1> SUFFICES ASSUME TypeOK, ThreadLockOwned, SerialInv, [Next]_vars, use' = "serial"
             PROVE FileBeingWritten'
  OBVIOUS
<1> USE DEF TypeOK, ThreadLockOwned, SerialInv, OneInside, FileNamesHolder, FileBeingWritten,
            NothingToSteal, Inside, Holds, MyPid, File, Goto, FreeThreadLock, GiveUp, OthersInside
<1>1. ASSUME NEW s \in Session, TryThreadLock(s) PROVE FileBeingWritten'
  BY <1>1 DEF TryThreadLock
<1>2. ASSUME NEW s \in Session, CreateFile(s) PROVE FileBeingWritten'
  BY <1>2 DEF CreateFile
<1>3. ASSUME NEW s \in Session, ReadOwner(s) PROVE FileBeingWritten'
  BY <1>3 DEF ReadOwner
<1>4. ASSUME NEW s \in Session, UnlinkStale(s) PROVE FileBeingWritten'
  BY <1>4 DEF UnlinkStale
<1>5. ASSUME NEW s \in Session, WriteRecord(s) PROVE FileBeingWritten'
  BY <1>5 DEF WriteRecord
<1>6. ASSUME NEW s \in Session, WriteFails(s) PROVE FileBeingWritten'
  BY <1>6 DEF WriteFails
<1>7. ASSUME NEW s \in Session, BeginRelease(s) PROVE FileBeingWritten'
  BY <1>7 DEF BeginRelease
<1>8. ASSUME NEW s \in Session, ReleaseUnlink(s) PROVE FileBeingWritten'
  BY <1>8 DEF ReleaseUnlink
<1>9. ASSUME NEW s \in Session, ReleaseThreadLock(s) PROVE FileBeingWritten'
  BY <1>9 DEF ReleaseThreadLock
<1>10. ASSUME NEW p \in Proc, Crash(p) PROVE FileBeingWritten'
  BY <1>10 DEF Crash
<1>11. CASE UNCHANGED vars
  BY <1>11 DEF vars
<1>12. QED
  BY <1>1, <1>2, <1>3, <1>4, <1>5, <1>6, <1>7, <1>8, <1>9, <1>10, <1>11 DEF Next

\* A file judged stale belongs to no holder.
LEMMA NothingToStealPreserved ==
  TypeOK /\ ThreadLockOwned /\ SerialInv /\ [Next]_vars /\ use' = "serial" => NothingToSteal'
<1> SUFFICES ASSUME TypeOK, ThreadLockOwned, SerialInv, [Next]_vars, use' = "serial"
             PROVE NothingToSteal'
  OBVIOUS
<1> USE DEF TypeOK, ThreadLockOwned, SerialInv, OneInside, FileNamesHolder, FileBeingWritten,
            NothingToSteal, Inside, Holds, Alive, MyPid, File, Goto, FreeThreadLock, GiveUp,
            OthersInside
<1>1. ASSUME NEW s \in Session, TryThreadLock(s) PROVE NothingToSteal'
  BY <1>1 DEF TryThreadLock
<1>2. ASSUME NEW s \in Session, CreateFile(s) PROVE NothingToSteal'
  BY <1>2 DEF CreateFile
<1>3. ASSUME NEW s \in Session, ReadOwner(s) PROVE NothingToSteal'
  BY <1>3 DEF ReadOwner
<1>4. ASSUME NEW s \in Session, UnlinkStale(s) PROVE NothingToSteal'
  BY <1>4 DEF UnlinkStale
<1>5. ASSUME NEW s \in Session, WriteRecord(s) PROVE NothingToSteal'
  BY <1>5 DEF WriteRecord
<1>6. ASSUME NEW s \in Session, WriteFails(s) PROVE NothingToSteal'
  BY <1>6 DEF WriteFails
<1>7. ASSUME NEW s \in Session, BeginRelease(s) PROVE NothingToSteal'
  BY <1>7 DEF BeginRelease
<1>8. ASSUME NEW s \in Session, ReleaseUnlink(s) PROVE NothingToSteal'
  BY <1>8 DEF ReleaseUnlink
<1>9. ASSUME NEW s \in Session, ReleaseThreadLock(s) PROVE NothingToSteal'
  BY <1>9 DEF ReleaseThreadLock
<1>10. ASSUME NEW p \in Proc, Crash(p) PROVE NothingToSteal'
  BY <1>10 DEF Crash
<1>11. CASE UNCHANGED vars
  BY <1>11 DEF vars
<1>12. QED
  BY <1>1, <1>2, <1>3, <1>4, <1>5, <1>6, <1>7, <1>8, <1>9, <1>10, <1>11 DEF Next

\* A record of a live process has a holder behind it.
LEMMA LiveFileHasHolderPreserved ==
  TypeOK /\ ThreadLockOwned /\ SerialInv /\ [Next]_vars /\ use' = "serial" => LiveFileHasHolder'
<1> SUFFICES ASSUME TypeOK, ThreadLockOwned, SerialInv, [Next]_vars, use' = "serial"
             PROVE LiveFileHasHolder'
  OBVIOUS
<1> USE DEF TypeOK, ThreadLockOwned, SerialInv, FileFromPast, OneInside, FileNamesHolder,
            FileBeingWritten, LiveFileHasHolder, Inside, Holds, Alive, MyPid, File,
            Goto, FreeThreadLock, GiveUp, OthersInside
<1>1. ASSUME NEW s \in Session, TryThreadLock(s) PROVE LiveFileHasHolder'
  BY <1>1 DEF TryThreadLock
<1>2. ASSUME NEW s \in Session, CreateFile(s) PROVE LiveFileHasHolder'
  BY <1>2 DEF CreateFile
<1>3. ASSUME NEW s \in Session, ReadOwner(s) PROVE LiveFileHasHolder'
  BY <1>3 DEF ReadOwner
<1>4. ASSUME NEW s \in Session, UnlinkStale(s) PROVE LiveFileHasHolder'
  BY <1>4 DEF UnlinkStale
<1>5. ASSUME NEW s \in Session, WriteRecord(s) PROVE LiveFileHasHolder'
  BY <1>5 DEF WriteRecord
<1>6. ASSUME NEW s \in Session, WriteFails(s) PROVE LiveFileHasHolder'
  BY <1>6 DEF WriteFails
<1>7. ASSUME NEW s \in Session, BeginRelease(s) PROVE LiveFileHasHolder'
  BY <1>7 DEF BeginRelease
<1>8. ASSUME NEW s \in Session, ReleaseUnlink(s) PROVE LiveFileHasHolder'
  BY <1>8 DEF ReleaseUnlink
<1>9. ASSUME NEW s \in Session, ReleaseThreadLock(s) PROVE LiveFileHasHolder'
  BY <1>9 DEF ReleaseThreadLock
<1>10. ASSUME NEW p \in Proc, Crash(p) PROVE LiveFileHasHolder'
  BY <1>10 DEF Crash
<1>11. CASE UNCHANGED vars
  BY <1>11 DEF vars
<1>12. QED
  BY <1>1, <1>2, <1>3, <1>4, <1>5, <1>6, <1>7, <1>8, <1>9, <1>10, <1>11 DEF Next

\* The second attempt finds no file.
LEMMA SecondTryFreePreserved ==
  TypeOK /\ ThreadLockOwned /\ SerialInv /\ [Next]_vars /\ use' = "serial" => SecondTryFree'
<1> SUFFICES ASSUME TypeOK, ThreadLockOwned, SerialInv, [Next]_vars, use' = "serial"
             PROVE SecondTryFree'
  OBVIOUS
<1> USE DEF TypeOK, ThreadLockOwned, SerialInv, OneInside, SecondTryFree, Inside,
            Goto, FreeThreadLock, GiveUp, OthersInside
<1>1. ASSUME NEW s \in Session, TryThreadLock(s) PROVE SecondTryFree'
  BY <1>1 DEF TryThreadLock
<1>2. ASSUME NEW s \in Session, CreateFile(s) PROVE SecondTryFree'
  BY <1>2 DEF CreateFile
<1>3. ASSUME NEW s \in Session, ReadOwner(s) PROVE SecondTryFree'
  BY <1>3 DEF ReadOwner
<1>4. ASSUME NEW s \in Session, UnlinkStale(s) PROVE SecondTryFree'
  BY <1>4 DEF UnlinkStale
<1>5. ASSUME NEW s \in Session, WriteRecord(s) PROVE SecondTryFree'
  BY <1>5 DEF WriteRecord
<1>6. ASSUME NEW s \in Session, WriteFails(s) PROVE SecondTryFree'
  BY <1>6 DEF WriteFails
<1>7. ASSUME NEW s \in Session, BeginRelease(s) PROVE SecondTryFree'
  BY <1>7 DEF BeginRelease
<1>8. ASSUME NEW s \in Session, ReleaseUnlink(s) PROVE SecondTryFree'
  BY <1>8 DEF ReleaseUnlink
<1>9. ASSUME NEW s \in Session, ReleaseThreadLock(s) PROVE SecondTryFree'
  BY <1>9 DEF ReleaseThreadLock
<1>10. ASSUME NEW p \in Proc, Crash(p) PROVE SecondTryFree'
  BY <1>10 DEF Crash
<1>11. CASE UNCHANGED vars
  BY <1>11 DEF vars
<1>12. QED
  BY <1>1, <1>2, <1>3, <1>4, <1>5, <1>6, <1>7, <1>8, <1>9, <1>10, <1>11 DEF Next

\* Restarts only move a process into later lives.
LEMMA FileFromPastPreserved ==
  TypeOK /\ ThreadLockOwned /\ SerialInv /\ [Next]_vars /\ use' = "serial" => FileFromPast'
<1> SUFFICES ASSUME TypeOK, ThreadLockOwned, SerialInv, [Next]_vars, use' = "serial"
             PROVE FileFromPast'
  OBVIOUS
<1> USE DEF TypeOK, ThreadLockOwned, SerialInv, FileFromPast, Inside, File,
            Goto, FreeThreadLock, GiveUp, OthersInside
<1>1. ASSUME NEW s \in Session, TryThreadLock(s) PROVE FileFromPast'
  BY <1>1 DEF TryThreadLock
<1>2. ASSUME NEW s \in Session, CreateFile(s) PROVE FileFromPast'
  BY <1>2 DEF CreateFile
<1>3. ASSUME NEW s \in Session, ReadOwner(s) PROVE FileFromPast'
  BY <1>3 DEF ReadOwner
<1>4. ASSUME NEW s \in Session, UnlinkStale(s) PROVE FileFromPast'
  BY <1>4 DEF UnlinkStale
<1>5. ASSUME NEW s \in Session, WriteRecord(s) PROVE FileFromPast'
  BY <1>5 DEF WriteRecord
<1>6. ASSUME NEW s \in Session, WriteFails(s) PROVE FileFromPast'
  BY <1>6 DEF WriteFails
<1>7. ASSUME NEW s \in Session, BeginRelease(s) PROVE FileFromPast'
  BY <1>7 DEF BeginRelease
<1>8. ASSUME NEW s \in Session, ReleaseUnlink(s) PROVE FileFromPast'
  BY <1>8 DEF ReleaseUnlink
<1>9. ASSUME NEW s \in Session, ReleaseThreadLock(s) PROVE FileFromPast'
  BY <1>9 DEF ReleaseThreadLock
<1>10. ASSUME NEW p \in Proc, Crash(p) PROVE FileFromPast'
  BY <1>10 DEF Crash
<1>11. CASE UNCHANGED vars
  BY <1>11 DEF vars
<1>12. QED
  BY <1>1, <1>2, <1>3, <1>4, <1>5, <1>6, <1>7, <1>8, <1>9, <1>10, <1>11 DEF Next

\* Every step keeps the invariant.
LEMMA IInvPreserved == IInv /\ [Next]_vars => IInv'
<1> SUFFICES ASSUME IInv, [Next]_vars PROVE IInv'
  OBVIOUS
<1>1. TypeOK' /\ ThreadLockOwned'
  BY TypePreserved, ThreadLockPreserved DEF IInv
<1>2. ASSUME use' = "serial" PROVE SerialInv'
  BY <1>2, SerialBefore, OneInsidePreserved, FileFromPastPreserved, FileNamesHolderPreserved,
     FileBeingWrittenPreserved, NothingToStealPreserved, LiveFileHasHolderPreserved,
     SecondTryFreePreserved DEF IInv, SerialInv
<1>3. QED
  BY <1>1, <1>2 DEF IInv

\* The invariant holds in every behaviour of the protocol.
LEMMA Invariance == Spec => []IInv
<1>1. QED
  BY InitEstablishesIInv, IInvPreserved, PTL DEF Spec

-------------------------------------------------------------------------------
\* Every variable keeps its type: the states of acquire and release are the ones listed.
THEOREM TypeCorrect == Spec => []TypeOK
<1>1. IInv => TypeOK
  BY DEF IInv
<1>2. QED
  BY <1>1, Invariance, PTL

\* Sessions of one process never hold the arms together, whatever other processes
\* do to the file (the non-blocking thread lock of HardwareLock.acquire).
THEOREM OneHolderInAProcess == Spec => []OneHolderPerProcess
<1>1. IInv => OneHolderPerProcess
  BY DEF IInv, ThreadLockOwned, OneHolderPerProcess, Holds
<1>2. QED
  BY <1>1, Invariance, PTL

\* While no two processes overlap inside acquire or release, the holder's file is
\* on disk and names it (no step of the reclaim path removes it).
THEOREM HolderStaysOnDisk == Spec => []HolderIsOnDisk
<1>1. IInv => HolderIsOnDisk
  BY DEF IInv, SerialInv, FileNamesHolder, HolderIsOnDisk, Holds
<1>2. QED
  BY <1>1, Invariance, PTL

\* In serial use the invariant leaves room for one holder.
LEMMA SerialOneHolder == IInv /\ SerialUse => OneHolder
  BY DEF SerialUse, IInv, SerialInv, ThreadLockOwned, FileNamesHolder, OneHolder, Holds, MyPid

\* ... and there is at most one holder, through any crashes, empty and stale files.
THEOREM OneHolderInSerialUse == Spec => []OneHolderUnlessOverlapped
<1>1. IInv => OneHolderUnlessOverlapped
  BY SerialOneHolder DEF OneHolderUnlessOverlapped, SerialUse
<1>2. QED
  BY <1>1, Invariance, PTL

\* Both together, for any sessions, processes and crashes.
THEOREM HoldersExcludeEachOther == Spec => []HoldersExclude
<1>1. HoldersExclude <=> OneHolderUnlessOverlapped /\ OneHolderPerProcess
  BY DEF HoldersExclude
<1>2. QED
  BY <1>1, OneHolderInSerialUse, OneHolderInAProcess, PTL

\* A refusal always has somebody behind it: the lock is never lost.
THEOREM RefusalHasCause == Spec => BusyHasCause
<1> DEFINE Caused == \A s \in Session :
              use = "serial" /\ outcome[s] # "busy" /\ outcome'[s] = "busy"
                 => \E t \in Session \ {s} : pc[t] # "idle"
<1>1. ASSUME IInv, [Next]_vars PROVE Caused
  <2> SUFFICES ASSUME NEW s \in Session, use = "serial", outcome[s] # "busy", outcome'[s] = "busy"
               PROVE \E t \in Session \ {s} : pc[t] # "idle"
    OBVIOUS
  <2>1. TypeOK /\ ThreadLockOwned /\ LiveFileHasHolder /\ SecondTryFree
    BY <1>1 DEF IInv, SerialInv
  <2>2. CASE TryThreadLock(s)
    BY <2>1, <2>2 DEF TryThreadLock, TypeOK, ThreadLockOwned
  <2>3. CASE ReadOwner(s)
    BY <2>1, <2>3 DEF ReadOwner, TypeOK, File, LiveFileHasHolder, Alive, MyPid
  <2>4. CASE UnlinkStale(s)
    BY <2>1, <2>4 DEF UnlinkStale, TypeOK, SecondTryFree
  <2>5. TryThreadLock(s) \/ ReadOwner(s) \/ UnlinkStale(s)
    BY <1>1, <2>1 DEF Next, vars, TypeOK, TryThreadLock, CreateFile, ReadOwner, UnlinkStale,
       WriteRecord, WriteFails, BeginRelease, ReleaseUnlink, ReleaseThreadLock, Crash, GiveUp
  <2>6. QED
    BY <2>2, <2>3, <2>4, <2>5
<1>2. QED
  BY <1>1, Invariance, PTL DEF Spec, BusyHasCause

-------------------------------------------------------------------------------
\* In serial use the abstract owner is the session that holds the arms.
LEMMA OwnerIsHolder ==
  ASSUME SerialUse, OneHolder, NEW s \in Session, Holds(s)
  PROVE  Owner = s
BY DEF Owner, OneHolder

\* Once use has overlapped the abstract lock has no owner.
LEMMA NoOwnerOnceOverlapped == ~SerialUse => Owner = Nobody
BY DEF Owner

\* A step inside serial use takes free arms, frees them, or leaves the owner alone.
LEMMA SerialStep ==
  ASSUME IInv, IInv', SerialUse, SerialUse', [Next]_vars
  PROVE  [Arms!Next]_Owner
<1>1. OneHolder /\ OneHolder'
  BY SerialOneHolder, PTL
<1>2. TypeOK
  BY DEF IInv
<1>3. CASE \E s \in Session : WriteRecord(s)
  <2>1. PICK s \in Session : WriteRecord(s)
    BY <1>3
  <2>2. \A t \in Session : ~Holds(t)
    BY <2>1 DEF SerialUse, IInv, SerialInv, FileNamesHolder, FileBeingWritten, MyPid, Holds,
       WriteRecord
  <2>3. Owner = Nobody
    BY <2>2 DEF Owner
  <2>4. Holds(s)'
    BY <2>1, <1>2 DEF WriteRecord, Goto, Holds, TypeOK
  <2>5. Owner' = s
    BY <2>4, <1>1 DEF Owner, OneHolder
  <2>6. QED
    BY <2>3, <2>5 DEF Arms!Next, Arms!Take
<1>4. CASE \E s \in Session : Holds(s) /\ (BeginRelease(s) \/ Crash(ProcOf[s]))
  <2>1. PICK s \in Session : Holds(s) /\ (BeginRelease(s) \/ Crash(ProcOf[s]))
    BY <1>4
  <2>2. Owner = s
    BY <2>1, <1>1, OwnerIsHolder
  <2>3. \A t \in Session : ~Holds(t)'
    BY <2>1, <1>1, <1>2 DEF BeginRelease, Crash, Goto, Holds, OneHolder, TypeOK
  <2>4. Owner' = Nobody
    BY <2>3 DEF Owner
  <2>5. QED
    BY <2>2, <2>4 DEF Arms!Next, Arms!Drop
<1>5. CASE \A s \in Session : Holds(s)' <=> Holds(s)
  BY <1>5 DEF Owner, Holds, SerialUse
<1>6. QED
  BY <1>2, <1>3, <1>4, <1>5
  DEF Next, vars, TypeOK, TryThreadLock, CreateFile, ReadOwner, UnlinkStale, WriteRecord,
      WriteFails, BeginRelease, ReleaseUnlink, ReleaseThreadLock, Crash, GiveUp, Goto, Holds

\* The step that overlaps is the last the promise speaks of: the owner, if any, loses it.
LEMMA OverlapStep ==
  ASSUME IInv, SerialUse, ~SerialUse'
  PROVE  [Arms!Next]_Owner
<1>1. Owner' = Nobody
  BY DEF Owner
<1>2. CASE \E s \in Session : Holds(s)
  <2>1. PICK s \in Session : Holds(s)
    BY <1>2
  <2>2. Owner = s
    BY <2>1, SerialOneHolder, OwnerIsHolder
  <2>3. QED
    BY <1>1, <2>2 DEF Arms!Next, Arms!Drop
<1>3. CASE ~\E s \in Session : Holds(s)
  BY <1>1, <1>3 DEF Owner
<1>4. QED
  BY <1>2, <1>3

\* HardwareLock implements ArmsOwner for as long as it is used serially: acquire
\* takes free arms, release or a crash frees them, and nothing else changes
\* their owner.
THEOREM SerialRefinement == Spec => ImplementsArmsOwner
<1> USE DEF ImplementsArmsOwner
<1>1. Init => Arms!Init
  BY DEF Init, Arms!Init, Owner, Holds
<1>2. ASSUME IInv, IInv', [Next]_vars
      PROVE  [Arms!Next]_Owner
  <2>1. CASE SerialUse /\ SerialUse'
    BY <2>1, <1>2, SerialStep
  <2>2. CASE SerialUse /\ ~SerialUse'
    BY <2>2, <1>2, OverlapStep
  <2>3. CASE ~SerialUse
    <3>1. ~SerialUse'
      BY <2>3, <1>2, SerialBefore DEF SerialUse, IInv
    <3>2. QED
      BY <2>3, <3>1 DEF Owner
  <2>4. QED
    BY <2>1, <2>2, <2>3
<1>3. QED
  BY <1>1, <1>2, Invariance, PTL DEF Spec, Arms!Spec

-------------------------------------------------------------------------------
(* The sessions that use the lock: HardwareSessions, for any bound on the saves. *)
(* The ports are opened under the lock only, a press ends the step it was made   *)
(* in, the outcome shown is what became of the file, and teleoperation drives    *)
(* motors that hold the file's calibration.  The inductive invariant ties each   *)
(* worker's place to the lock, to its ports and to the state shown.              *)

CalOut == {"off", "final"}      \* no lock, no ports
TelOut == {"off", "final"}

\* A worker that is not on its way out has the lock, and only then ports.
WorkersHoldLock ==
    /\ calPc \notin CalOut => arms = "calibration"
    /\ telPc \notin TelOut => arms = "teleop"
    /\ "calibration" \in ports =>
          calPc \in {"connected", "homing", "homed", "recording", "saving", "disconnect"}
    /\ "teleop" \in ports => telPc \in {"loop", "disconnect"}

\* The state shown is behind the worker, never ahead of it.
StateFollows ==
    /\ calPc # "off" => state \in Active
    /\ calPc \in {"connect", "connected"} => state = "connecting"
    /\ calPc \in {"homing", "homed"} => state = "homing"
    /\ calPc = "recording" => state = "recording_ranges"
    /\ calPc = "saving" => state \in {"recording_ranges", "saving"}

\* A press is recorded for the step it was made in, and steps follow presses.
PressesCount ==
    /\ advance # "none" => advance \in hist.pressed
    /\ calPc \in {"homed", "recording", "saving"} => "homing" \in hist.pressed
    /\ calPc = "saving" => "recording_ranges" \in hist.pressed
    /\ calPc \in {"disconnect", "unlock", "final"} /\ final = "done" =>
          "recording_ranges" \in hist.pressed
    /\ state = "done" => "recording_ranges" \in hist.pressed

\* The file is saved once, by a session that will say done.
FileFollows ==
    /\ calPc \in {"connect", "connected", "homing", "homed", "recording", "saving"} =>
          calFile = hist.saves /\ calFile < MaxSaves
    /\ calPc \in {"disconnect", "unlock", "final"} =>
          calFile = IF final = "done" THEN hist.saves + 1 ELSE hist.saves
    /\ OutcomeIsTrue

SessionsIInv ==
    /\ SessionsTypeOK
    /\ WorkersHoldLock
    /\ StateFollows
    /\ PressesCount
    /\ FileFollows
    /\ TeleopCalibrated

-------------------------------------------------------------------------------
(* The three flags are only ever set to TRUE or FALSE. *)
LEMMA SessionsFlagsStep ==
    ASSUME FlagsOK, [SessionsNext]_sessionVars
    PROVE  FlagsOK'
  <1>1. CASE UNCHANGED <<cancel, running, stop>>
    BY <1>1 DEF FlagsOK
  <1>2. CASE CalStart \/ Cancel \/ TelConnect \/ TelStop \/ TelFinal \/ Death
    BY <1>2, Zenon DEF FlagsOK, CalStart, Cancel, TelConnect, TelStop, TelFinal, Death, telVars,
       calVars
  <1> QED BY <1>1, <1>2 DEF SessionsNext, sessionVars, calVars, telVars, Press, Connect,
          Connected, Homing, BeginRecording, Recording, BeginSaving, SaveCalibration, ReadFails,
          CalDisconnect, CalUnlock, CalFinal, TelStart, TelLoopEnds, TelLoopFails, TelDisconnect,
          TelUnlock, OtherTakes, OtherReleases, CalLeave, CalGoto, WaitForNext, WaitOver

\* At the start no worker runs and every port is closed.
LEMMA InitSessionsIInv == SessionsInit => SessionsIInv
  <1>1. SessionsInit => FlagsOK
    BY Zenon DEF SessionsInit, FlagsOK, FreshCalibration, FreshTeleop
  <1> QED
  BY <1>1, SessionsAssumption DEF SessionsInit, FreshCalibration, FreshTeleop, SessionsIInv,
     SessionsTypeOK, WorkersHoldLock, StateFollows, PressesCount, FileFollows, OutcomeIsTrue,
     TeleopCalibrated, Active, Final, Homed, CalOut, TelOut

(* What the requests of the calibration page change. *)
LEMMA CalRequestIInv ==
    ASSUME SessionsIInv, FlagsOK', CalStart \/ Press \/ Cancel
    PROVE  SessionsIInv'
  <1> USE DEF SessionsIInv, SessionsTypeOK, WorkersHoldLock, StateFollows, PressesCount,
          FileFollows, OutcomeIsTrue, TeleopCalibrated, CalOut, TelOut, telVars, Active, Final
  <1>1. CASE CalStart
    BY <1>1, SessionsAssumption DEF CalStart
  <1>2. CASE Press
    BY <1>2 DEF Press
  <1>3. CASE Cancel
    <2>1. hist' \in [pressed : SUBSET Active, cancelled : BOOLEAN, saves : 0..MaxSaves]
      BY <1>3 DEF SessionsIInv, SessionsTypeOK, Cancel
    <2>2. /\ hist'.pressed = hist.pressed /\ hist'.saves = hist.saves
          /\ UNCHANGED <<arms, ports, state, advance, calPc, final, telPc, motors, calFile>>
      BY <1>3 DEF SessionsIInv, SessionsTypeOK, Cancel, telVars
    <2> QED BY <2>1, <2>2
  <1> QED BY <1>1, <1>2, <1>3

(* The calibration worker leaves its steps with an outcome other than done. *)
LEMMA CalLeaveIInv ==
    ASSUME SessionsIInv, FlagsOK', NEW f \in {"cancelled", "error"}, CalLeave(f),
           calPc \in {"connected", "homing", "recording"}
    PROVE  SessionsIInv'
  BY DEF CalLeave, SessionsIInv, SessionsTypeOK, WorkersHoldLock, StateFollows, PressesCount,
     FileFollows, OutcomeIsTrue, TeleopCalibrated, CalOut, TelOut, telVars, Active, Final

(* One step of the calibration worker. *)
LEMMA CalStepIInv ==
    ASSUME SessionsIInv, FlagsOK', CalStep \/ ReadFails
    PROVE  SessionsIInv'
  <1>1. CASE CalLeave("cancelled") /\ calPc \in {"connected", "homing", "recording"}
    BY <1>1, CalLeaveIInv
  <1>2. CASE CalLeave("error") /\ calPc \in {"connected", "homing", "recording"}
    BY <1>2, CalLeaveIInv
  <1> USE DEF SessionsIInv, SessionsTypeOK, WorkersHoldLock, StateFollows, PressesCount,
          FileFollows, OutcomeIsTrue, TeleopCalibrated, CalOut, TelOut, telVars, Active, Final,
          CalGoto
  <1>3. CASE Connect
    BY <1>3 DEF Connect
  <1>4. CASE Connected
    BY <1>1, <1>4 DEF Connected
  <1>5. CASE Homing
    BY <1>1, <1>5 DEF Homing, WaitForNext, WaitOver
  <1>6. CASE BeginRecording
    BY <1>6 DEF BeginRecording, Homed
  <1>7. CASE Recording
    BY <1>1, <1>7 DEF Recording, WaitForNext, WaitOver
  <1>8. CASE BeginSaving
    BY <1>8 DEF BeginSaving
  <1>9. CASE SaveCalibration
    BY <1>9, SessionsAssumption DEF SaveCalibration
  <1>10. CASE ReadFails
    BY <1>2, <1>10 DEF ReadFails
  <1>11. CASE CalDisconnect
    BY <1>11 DEF CalDisconnect
  <1>12. CASE CalUnlock
    BY <1>12 DEF CalUnlock
  <1>13. CASE CalFinal
    BY <1>13 DEF CalFinal
  <1> QED BY <1>3, <1>4, <1>5, <1>6, <1>7, <1>8, <1>9, <1>10, <1>11, <1>12, <1>13 DEF CalStep

(* One step of teleoperation, its requests and its worker. *)
LEMMA TelStepIInv ==
    ASSUME SessionsIInv, FlagsOK', TelStart \/ TelStop \/ TelLoopFails \/ TelStep
    PROVE  SessionsIInv'
  <1> USE DEF SessionsIInv, SessionsTypeOK, WorkersHoldLock, StateFollows, PressesCount,
          FileFollows, OutcomeIsTrue, TeleopCalibrated, CalOut, TelOut, calVars
  <1>1. CASE TelStart
    BY <1>1 DEF TelStart
  <1>2. CASE TelConnect
    BY <1>2 DEF TelConnect
  <1>3. CASE TelStop
    BY <1>3 DEF TelStop
  <1>4. CASE TelLoopEnds \/ TelLoopFails
    BY <1>4 DEF TelLoopEnds, TelLoopFails
  <1>5. CASE TelDisconnect
    BY <1>5 DEF TelDisconnect
  <1>6. CASE TelUnlock
    BY <1>6 DEF TelUnlock
  <1>7. CASE TelFinal
    BY <1>7 DEF TelFinal
  <1> QED BY <1>1, <1>2, <1>3, <1>4, <1>5, <1>6, <1>7 DEF TelStep

(* Another holder comes and goes; the server dies; nothing happens. *)
LEMMA SessionsOtherIInv ==
    ASSUME SessionsIInv, FlagsOK', OtherTakes \/ OtherReleases \/ Death \/ UNCHANGED sessionVars
    PROVE  SessionsIInv'
  <1> USE DEF SessionsIInv, SessionsTypeOK, WorkersHoldLock, StateFollows, PressesCount,
          FileFollows, OutcomeIsTrue, TeleopCalibrated, CalOut, TelOut, calVars, telVars,
          sessionVars
  <1>1. CASE OtherTakes
    BY <1>1 DEF OtherTakes
  <1>2. CASE OtherReleases
    BY <1>2 DEF OtherReleases
  <1>3. CASE Death
    BY <1>3 DEF Death, Active, Final
  <1>4. CASE UNCHANGED sessionVars
    BY <1>4
  <1> QED BY <1>1, <1>2, <1>3, <1>4

\* Every step keeps the invariant.
LEMMA SessionsStepIInv == SessionsIInv /\ [SessionsNext]_sessionVars => SessionsIInv'
  <1>1. SessionsIInv /\ [SessionsNext]_sessionVars => FlagsOK'
    BY SessionsFlagsStep DEF SessionsIInv, SessionsTypeOK
  <1> QED
  BY <1>1, CalRequestIInv, CalStepIInv, TelStepIInv, SessionsOtherIInv DEF SessionsNext, CalStep,
     TelStep

\* Each worker's place agrees with the lock, its ports, its flags and the presses it
\* has consumed, in every behaviour (calibration.py, teleop.py).
THEOREM SessionsInvariance == SessionsSpec => []SessionsIInv
  BY InitSessionsIInv, SessionsStepIInv, PTL DEF SessionsSpec

-------------------------------------------------------------------------------
(* Every variable keeps its type, whatever the requests and the failures. *)
THEOREM SessionsTypeCorrect == SessionsSpec => []SessionsTypeOK
  <1>1. SessionsIInv => SessionsTypeOK
    BY DEF SessionsIInv
  <1> QED BY <1>1, SessionsInvariance, PTL

(* Serial ports are open only in the session that has the lock (lock.py:4). *)
THEOREM PortsOpenUnderLock == SessionsSpec => []PortsUnderLock
  <1>1. SessionsIInv => PortsUnderLock
    BY DEF SessionsIInv, SessionsTypeOK, WorkersHoldLock, PortsUnderLock, CalOut, TelOut
  <1> QED BY <1>1, SessionsInvariance, PTL

(* A Next press ends only the step it was made in (calibration.py:127). *)
THEOREM PressesApplyToTheirStep == SessionsSpec => []NextAppliesToItsStep
  <1>1. SessionsIInv => NextAppliesToItsStep
    BY DEF SessionsIInv, PressesCount, NextAppliesToItsStep
  <1> QED BY <1>1, SessionsInvariance, PTL

(* Done, error and cancelled say what became of the calibration file. *)
THEOREM OutcomesAreTrue == SessionsSpec => []OutcomeIsTrue
  <1>1. SessionsIInv => OutcomeIsTrue
    BY DEF SessionsIInv, FileFollows
  <1> QED BY <1>1, SessionsInvariance, PTL

(* The follower moves only while its motors hold the file's calibration. *)
THEOREM TeleopIsCalibrated == SessionsSpec => []TeleopCalibrated
  <1>1. SessionsIInv => TeleopCalibrated
    BY DEF SessionsIInv
  <1> QED BY <1>1, SessionsInvariance, PTL
===============================================================================
