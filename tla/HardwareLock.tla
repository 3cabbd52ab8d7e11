----------------------------- MODULE HardwareLock -----------------------------
(***************************************************************************)
(* lab/core/hardware/lock.py, one system call at a time.  A session of a   *)
(* process takes the process's threading lock, then creates the lock file  *)
(* with O_EXCL, and only afterwards writes its pid and start time into it. *)
(* A file that names no live process is stale and is unlinked.  Processes  *)
(* die between any two steps and leave the file behind.                    *)
(***************************************************************************)
EXTENDS Naturals

CONSTANTS Session,       \* users of a HardwareLock object: web sessions, CLI programs
          Proc,          \* operating-system processes (the server, each CLI)
          ProcOf,        \* the process a session runs in
          Nobody, NoFile,
          MaxLives       \* bound: how often one process may be started

ASSUME LockAssumption ==
    /\ ProcOf \in [Session -> Proc]
    /\ Nobody \notin Session
    /\ MaxLives \in Nat

\* The file as the path leads to it: the session that created it, in which life
\* of its process, and whether the JSON record is in it yet.
File == [by : Session, life : Nat, text : {"empty", "record"}]

ASSUME NoFileAssumption == NoFile \notin File

VARIABLES
    pc,          \* where each session is inside acquire() or release()
    tries,       \* the attempt of _create_file's loop it is in
    threadLock,  \* _PROCESS_LOCKS of each process: the session that has it
    file,        \* data/locks/hardware.lock
    life,        \* pid and start time: a restarted process is a new life
    outcome,     \* what the session's last acquire() came to
    use          \* history: "serial" until two processes are inside
                 \* acquire or release at once, then "overlapped"

vars == <<pc, tries, threadLock, file, life, outcome, use>>

Steps == {"idle", "create", "read", "unlink", "write", "held", "drop", "leave"}
Outcomes == {"none", "trying", "held", "busy", "failed"}

TypeOK ==
    /\ pc \in [Session -> Steps]
    /\ tries \in [Session -> 0..2]
    /\ threadLock \in [Proc -> Session \cup {Nobody}]
    /\ file \in File \cup {NoFile}
    /\ life \in [Proc -> Nat]
    /\ outcome \in [Session -> Outcomes]
    /\ use \in {"serial", "overlapped"}

Init ==
    /\ pc = [s \in Session |-> "idle"]
    /\ tries = [s \in Session |-> 0]
    /\ threadLock = [p \in Proc |-> Nobody]
    /\ file = NoFile
    /\ life = [p \in Proc |-> 1]
    /\ outcome = [s \in Session |-> "none"]
    /\ use = "serial"

Inside(s) == pc[s] \notin {"idle", "held"}

\* Some session of another process is inside acquire or release.
OthersInside(s) == \E t \in Session : ProcOf[t] # ProcOf[s] /\ Inside(t)

Goto(s, step) == pc' = [pc EXCEPT ![s] = step]
FreeThreadLock(s) == threadLock' = [threadLock EXCEPT ![ProcOf[s]] = Nobody]

\* acquire raises: the thread lock is given back.
GiveUp(s, why) ==
    /\ Goto(s, "idle")
    /\ FreeThreadLock(s)
    /\ tries' = [tries EXCEPT ![s] = 0]
    /\ outcome' = [outcome EXCEPT ![s] = why]

-------------------------------------------------------------------------------
(* Plausible slips in the code above; each run shows which property notices.   *)

\* blocking=False dropped to a no-op: the thread lock is not consulted.
TryThreadLockUnchecked(s) ==
    /\ pc[s] = "idle"
    /\ threadLock' = [threadLock EXCEPT ![ProcOf[s]] = s]
    /\ Goto(s, "create")
    /\ tries' = [tries EXCEPT ![s] = 1]
    /\ outcome' = [outcome EXCEPT ![s] = "trying"]
    /\ use' = IF OthersInside(s) THEN "overlapped" ELSE use
    /\ UNCHANGED <<file, life>>

\* os.open without O_EXCL.
CreateFileNotExclusive(s) ==
    /\ pc[s] = "create"
    /\ file' = [by |-> s, life |-> life[ProcOf[s]], text |-> "empty"]
    /\ Goto(s, "write")
    /\ UNCHANGED <<tries, threadLock, life, outcome, use>>

\* The start times compared the wrong way round.
AliveInverted == file # NoFile /\ file.text = "record" /\ file.life # life[ProcOf[file.by]]

\* One attempt instead of two: a stale file is removed, and then refused.
UnlinkStaleOneTry(s) ==
    /\ pc[s] = "unlink"
    /\ file' = NoFile
    /\ GiveUp(s, "busy")
    /\ UNCHANGED <<life, use>>

\* `while True` instead of range(2).
UnlinkStaleForever(s) ==
    /\ pc[s] = "unlink"
    /\ file' = NoFile
    /\ Goto(s, "create")
    /\ UNCHANGED <<tries, threadLock, outcome, life, use>>

\* range(3).
UnlinkStaleThrice(s) ==
    /\ pc[s] = "unlink"
    /\ file' = NoFile
    /\ tries' = [tries EXCEPT ![s] = @ + 1]
    /\ Goto(s, "create")
    /\ UNCHANGED <<threadLock, outcome, life, use>>

-------------------------------------------------------------------------------
\* _alive: a readable record whose process still runs (an empty file has none).
Alive == file # NoFile /\ file.text = "record" /\ file.life = life[ProcOf[file.by]]

\* info.get("pid") == os.getpid().
MyPid(s) ==
    /\ file # NoFile /\ file.text = "record"
    /\ ProcOf[file.by] = ProcOf[s] /\ file.life = life[ProcOf[s]]

-------------------------------------------------------------------------------
\* acquire: the thread lock is taken without blocking; refused if it is held.
TryThreadLock(s) ==
    /\ pc[s] = "idle"
    /\ \/ /\ threadLock[ProcOf[s]] = Nobody
          /\ threadLock' = [threadLock EXCEPT ![ProcOf[s]] = s]
          /\ Goto(s, "create")
          /\ tries' = [tries EXCEPT ![s] = 1]
          /\ outcome' = [outcome EXCEPT ![s] = "trying"]
          /\ use' = IF OthersInside(s) THEN "overlapped" ELSE use
       \/ /\ threadLock[ProcOf[s]] # Nobody
          /\ outcome' = [outcome EXCEPT ![s] = "busy"]
          /\ UNCHANGED <<pc, tries, threadLock, use>>
    /\ UNCHANGED <<file, life>>

\* os.open(O_CREAT | O_EXCL): the file appears empty, or FileExistsError.
CreateFile(s) ==
    /\ pc[s] = "create"
    /\ \/ /\ file = NoFile
          /\ file' = [by |-> s, life |-> life[ProcOf[s]], text |-> "empty"]
          /\ Goto(s, "write")
       \/ /\ file # NoFile
          /\ Goto(s, "read")
          /\ UNCHANGED file
    /\ UNCHANGED <<tries, threadLock, life, outcome, use>>

\* The record is read and judged: refused by a live process other than this
\* one; everything else, a file that has just vanished included, is reclaimed.
ReadOwner(s) ==
    /\ pc[s] = "read"
    /\ \/ /\ Alive /\ ~MyPid(s)
          /\ GiveUp(s, "busy")
       \/ /\ ~(Alive /\ ~MyPid(s))
          /\ Goto(s, "unlink")
          /\ UNCHANGED <<tries, threadLock, outcome>>
    /\ UNCHANGED <<file, life, use>>

\* path.unlink() by name, whatever is there by now; then the second attempt,
\* or "another process is taking it at the same time".
UnlinkStale(s) ==
    /\ pc[s] = "unlink"
    /\ file' = NoFile
    /\ \/ /\ tries[s] < 2
          /\ tries' = [tries EXCEPT ![s] = @ + 1]
          /\ Goto(s, "create")
          /\ UNCHANGED <<threadLock, outcome>>
       \/ /\ tries[s] = 2
          /\ GiveUp(s, "busy")
    /\ UNCHANGED <<life, use>>

\* The record goes into the file this session created, which the path may no
\* longer lead to; then acquire returns.
WriteRecord(s) ==
    /\ pc[s] = "write"
    /\ file' = IF file # NoFile /\ file.by = s
               THEN [file EXCEPT !.text = "record"] ELSE file
    /\ Goto(s, "held")
    /\ tries' = [tries EXCEPT ![s] = 0]
    /\ outcome' = [outcome EXCEPT ![s] = "held"]
    /\ UNCHANGED <<threadLock, life, use>>

\* The write raises (disk full): acquire gives the thread lock back and
\* re-raises; the empty file stays.
WriteFails(s) ==
    /\ pc[s] = "write"
    /\ GiveUp(s, "failed")
    /\ UNCHANGED <<file, life, use>>

\* release: read the record; it is unlinked only if it names this process.
BeginRelease(s) ==
    /\ pc[s] = "held"
    /\ Goto(s, IF MyPid(s) THEN "drop" ELSE "leave")
    /\ use' = IF OthersInside(s) THEN "overlapped" ELSE use
    /\ UNCHANGED <<tries, threadLock, file, life, outcome>>

ReleaseUnlink(s) ==
    /\ pc[s] = "drop"
    /\ file' = NoFile
    /\ Goto(s, "leave")
    /\ UNCHANGED <<tries, threadLock, life, outcome, use>>

ReleaseThreadLock(s) ==
    /\ pc[s] = "leave"
    /\ Goto(s, "idle")
    /\ FreeThreadLock(s)
    /\ UNCHANGED <<tries, file, life, outcome, use>>

\* The process dies at any point and may be started again: its sessions and its
\* thread lock are gone, the file is not.
Crash(p) ==
    /\ life[p] < MaxLives
    /\ life' = [life EXCEPT ![p] = @ + 1]
    /\ pc' = [s \in Session |-> IF ProcOf[s] = p THEN "idle" ELSE pc[s]]
    /\ outcome' = [s \in Session |-> IF ProcOf[s] = p THEN "none" ELSE outcome[s]]
    /\ tries' = [s \in Session |-> IF ProcOf[s] = p THEN 0 ELSE tries[s]]
    /\ threadLock' = [threadLock EXCEPT ![p] = Nobody]
    /\ UNCHANGED <<file, use>>

AcquireStep(s) ==
    CreateFile(s) \/ ReadOwner(s) \/ UnlinkStale(s) \/ WriteRecord(s) \/ WriteFails(s)

Next ==
    \/ \E s \in Session :
          \/ TryThreadLock(s)
          \/ CreateFile(s)
          \/ ReadOwner(s)
          \/ UnlinkStale(s)
          \/ WriteRecord(s)
          \/ WriteFails(s)
          \/ BeginRelease(s)
          \/ ReleaseUnlink(s)
          \/ ReleaseThreadLock(s)
    \/ \E p \in Proc : Crash(p)

Spec == Init /\ [][Next]_vars

\* acquire never waits for anything, so a running thread gets through it.
FairSpec == Spec /\ \A s \in Session : WF_vars(AcquireStep(s))

-------------------------------------------------------------------------------
Holds(s) == pc[s] = "held"

\* "One holder of the SO-101 arms at a time, across threads and processes"
\* (lock.py:1), with no condition on who acquires when.
OneHolder == \A s, t \in Session : Holds(s) /\ Holds(t) => s = t

\* As long as no two processes were ever inside acquire or release at the same
\* time, there is one holder, whatever died in between and left a full, an
\* empty or a stale file behind (_create_file's reclaim, release's pid check).
OneHolderUnlessOverlapped == use = "serial" => OneHolder

\* Inside one process the thread lock alone keeps the sessions apart, even when
\* another process has stolen the file (acquire's non-blocking thread lock).
OneHolderPerProcess ==
    \A s, t \in Session : Holds(s) /\ Holds(t) /\ ProcOf[s] = ProcOf[t] => s = t

\* Holders exclude each other: always within a process, and everywhere as long
\* as no two processes overlapped in acquire or release.
HoldersExclude == OneHolderUnlessOverlapped /\ OneHolderPerProcess

\* A holder's claim stays on disk: without overlap, the file names its process
\* until it lets go, so `holder()` and every other acquire see it.
HolderIsOnDisk ==
    use = "serial" => \A s \in Session : Holds(s) => file # NoFile /\ MyPid(s)

\* The lock is never lost: without overlap an acquire is refused only because
\* some other session really has the arms or is at work on the lock, so a crash
\* or a failed write never leaves a file that refuses everybody.
BusyHasCause ==
    [][\A s \in Session :
          use = "serial" /\ outcome[s] # "busy" /\ outcome'[s] = "busy"
             => \E t \in Session \ {s} : pc[t] # "idle"]_vars

\* acquire ends, held or refused, however often the other processes take the
\* file in between (two attempts, no waiting).
AcquireEnds == \A s \in Session : outcome[s] = "trying" ~> outcome[s] # "trying"

-------------------------------------------------------------------------------
\* The promise, as long as use is serial: the owner is the session acquire
\* returned to. Once two processes have overlapped nothing is promised any more.
SerialUse == use = "serial"
Owner ==
    IF SerialUse /\ \E s \in Session : Holds(s) THEN CHOOSE s \in Session : Holds(s) ELSE Nobody
Arms == INSTANCE ArmsOwner WITH owner <- Owner
ImplementsArmsOwner == Arms!Spec
===============================================================================
