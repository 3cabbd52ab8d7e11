------------------------------ MODULE Collection ------------------------------
(***************************************************************************)
(* lab/core/collection.py: the web server's CollectionService, its worker  *)
(* thread, the recorder process it waits for and the hardware lock it      *)
(* takes.  Requests are handled under CollectionService._lock; the worker  *)
(* takes that lock only at the steps marked, so a stop can come between    *)
(* any two of them.  The server may be shut down, die alone (its recorder  *)
(* runs in its own session and survives) or lose power with everything.    *)
(***************************************************************************)
EXTENDS CollectionLedger

CONSTANT Deaths   \* subset of {"server", "power"}: what may die

VARIABLES
    phase, stopRequested,   \* CollectionStatus
    worker,                 \* where the worker thread is, or "none"
    run,                    \* the arguments start() gave the worker
    interrupted, result,    \* locals of _run
    error,                  \* the run's error
    closing                 \* CollectionService.shutdown is joining the worker

svcVars == <<phase, stopRequested, worker, run, interrupted, result, error, closing>>
vars == <<dataset, ledger, recs, made, phase, stopRequested, worker, run, interrupted,
          result, error, arms, closing>>

ASSUME CollectionAssumption ==
    /\ Server \subseteq Owner
    /\ Deaths \subseteq {"server", "power"}

Phases == {"idle", "starting", "recording", "stopping", "verifying", "finished", "failed"}
WorkerSteps == {"none", "spawn", "wait", "verify", "append", "release", "publish", "exit"}

TypeOK ==
    /\ DiskTypeOK
    /\ phase \in Phases
    /\ worker \in WorkerSteps
    /\ run \in [session : Sess, before : Nat, want : Nat, resume : BOOLEAN]
    /\ result \in [after : Nat \cup {None}, problems : BOOLEAN]
    /\ arms \in {"free", "collection", "other"}
    /\ {stopRequested, interrupted, error, closing} \subseteq BOOLEAN

ServiceInit ==
    /\ phase = "idle" /\ stopRequested = FALSE
    /\ worker = "none" /\ run = NoRun
    /\ interrupted = FALSE /\ result = NoResult /\ error = FALSE
    /\ closing = FALSE

Init == DiskInit /\ ServiceInit /\ arms = "free"

-------------------------------------------------------------------------------
\* POST /api/collection/start with the hardware lock free: prepare_session
\* decides, or building the command raises; the lock is given back on refusal.
Start(s) ==
    /\ ~closing /\ worker = "none" /\ arms = "free" /\ Len(ledger) < MaxLines
    /\ \/ /\ Recordable(ledger, s)
          /\ run' = [session |-> s, before |-> Episodes, want |-> Remaining(ledger, s),
                     resume |-> Count # None]
          /\ phase' = "starting" /\ stopRequested' = FALSE
          /\ worker' = "spawn" /\ arms' = "collection"
          /\ error' = FALSE
       \/ /\ phase' = "failed" /\ error' = TRUE
          /\ UNCHANGED <<run, stopRequested, worker, arms>>
    /\ interrupted' = FALSE /\ result' = NoResult
    /\ UNCHANGED <<dataset, ledger, recs, made, closing>>

StopEffect ==
    IF phase \in {"starting", "recording"}
    THEN /\ recs' = [recs EXCEPT !["service"] = Signalled(@)]
         /\ phase' = "stopping" /\ stopRequested' = TRUE
    ELSE UNCHANGED <<recs, phase, stopRequested>>

\* Slip: stop gives the arms back at once.
StopReleasing ==
    /\ phase \in {"starting", "recording"}
    /\ recs' = [recs EXCEPT !["service"] = Signalled(@)]
    /\ phase' = "stopping" /\ stopRequested' = TRUE
    /\ arms' = "free"
    /\ UNCHANGED <<dataset, ledger, made, worker, run, interrupted, result, error, closing>>

\* Slip: stop only sets the flag.
StopUnsignalled ==
    /\ phase \in {"starting", "recording"}
    /\ phase' = "stopping" /\ stopRequested' = TRUE
    /\ UNCHANGED <<dataset, ledger, recs, made, worker, run, interrupted, result, error, arms,
                   closing>>

\* POST /api/collection/stop
Stop ==
    /\ phase \in {"starting", "recording"}
    /\ StopEffect
    /\ UNCHANGED <<dataset, ledger, made, worker, run, interrupted, result, error, arms, closing>>

\* lifespan's shutdown: stop, then join the worker.
Shutdown ==
    /\ ~closing /\ closing' = TRUE
    /\ StopEffect
    /\ UNCHANGED <<dataset, ledger, made, worker, run, interrupted, result, error, arms>>

\* The joined server has exited and is started again.
Restart ==
    /\ closing /\ worker = "none"
    /\ phase' = "idle" /\ stopRequested' = FALSE /\ run' = NoRun
    /\ interrupted' = FALSE /\ result' = NoResult /\ error' = FALSE /\ closing' = FALSE
    /\ recs' = [recs EXCEPT !["service"] = NoProc]
    /\ UNCHANGED <<dataset, ledger, made, worker, arms>>

-------------------------------------------------------------------------------
\* _run, first `with self._lock`: a stop that came first ends it without a line.
Spawn ==
    /\ worker = "spawn"
    /\ \/ /\ stopRequested
          /\ worker' = "release"
          /\ UNCHANGED <<recs, phase, error>>
       \/ /\ ~stopRequested
          /\ recs' = [recs EXCEPT !["service"] = Spawned(run.session, run.want, run.resume)]
          /\ phase' = "recording" /\ worker' = "wait"
          /\ UNCHANGED error
       \/ /\ ~stopRequested                    \* Popen raised
          /\ error' = TRUE /\ worker' = "release"
          /\ UNCHANGED <<recs, phase>>
    /\ UNCHANGED <<dataset, ledger, made, stopRequested, run, interrupted, result, arms, closing>>

\* recording.wait() returned; the second lock.
RecorderGone ==
    /\ worker = "wait" /\ recs["service"].exited
    /\ interrupted' = stopRequested
    /\ phase' = "verifying" /\ worker' = "verify"
    /\ UNCHANGED <<dataset, ledger, recs, made, stopRequested, run, result, error, arms, closing>>

\* wait_and_verify, an interrupted run may be partial.
VerifyRun ==
    /\ worker = "verify"
    /\ \E tasksOk \in BOOLEAN :
          result' = Verify(run.before, run.want, recs["service"].code, interrupted, tasksOk)
    /\ worker' = "append"
    /\ UNCHANGED <<dataset, ledger, recs, made, phase, stopRequested, run, interrupted, error,
                   arms, closing>>

Added == IF result.after = None \/ result.after < run.before THEN 0 ELSE result.after - run.before

LineStatus ==
    IF result.problems THEN "mismatch"
    ELSE IF interrupted /\ Added < run.want THEN "interrupted" ELSE "ok"

NewLine == [session |-> run.session, before |-> run.before, after |-> result.after,
            status |-> LineStatus]

\* Slip: an interrupted run is not worth a line.
AppendLineUnlessInterrupted ==
    /\ worker = "append"
    /\ ledger' = IF interrupted THEN ledger ELSE Append(ledger, NewLine)
    /\ error' = result.problems
    /\ worker' = "release"
    /\ UNCHANGED <<dataset, recs, made, phase, stopRequested, run, interrupted, result, arms,
                   closing>>

\* Slip: a failed append is swallowed.
AppendLineQuietly ==
    /\ worker = "append"
    /\ \E ok \in BOOLEAN : ledger' = IF ok THEN Append(ledger, NewLine) ELSE ledger
    /\ error' = result.problems
    /\ worker' = "release"
    /\ UNCHANGED <<dataset, recs, made, phase, stopRequested, run, interrupted, result, arms,
                   closing>>

\* append_record, or OSError (disk full), caught by `except Exception`.
AppendLine ==
    /\ worker = "append"
    /\ \/ ledger' = Append(ledger, NewLine) /\ error' = result.problems
       \/ UNCHANGED ledger /\ error' = TRUE
    /\ worker' = "release"
    /\ UNCHANGED <<dataset, recs, made, phase, stopRequested, run, interrupted, result, arms,
                   closing>>

\* finally: wait for the recorder again, then release the hardware lock.
ReleaseArms ==
    /\ worker = "release"
    /\ ~Running("service")
    /\ arms' = "free" /\ worker' = "publish"
    /\ UNCHANGED <<dataset, ledger, recs, made, phase, stopRequested, run, interrupted, result,
                   error, closing>>

\* The last lock: the phase the operator sees.
Publish ==
    /\ worker = "publish"
    /\ phase' = IF error THEN "failed" ELSE "finished"
    /\ recs' = [recs EXCEPT !["service"] = NoProc]
    /\ worker' = "exit"
    /\ UNCHANGED <<dataset, ledger, made, stopRequested, run, interrupted, result, error, arms,
                   closing>>

\* The thread ends; only now is_alive() is false and start() possible.
WorkerEnds ==
    /\ worker = "exit" /\ worker' = "none"
    /\ UNCHANGED <<dataset, ledger, recs, made, phase, stopRequested, run, interrupted, result,
                   error, arms, closing>>

-------------------------------------------------------------------------------
\* What a new server starts from: no session, and the lock of the dead one is stale.
Reborn ==
    /\ phase' = "idle" /\ stopRequested' = FALSE /\ worker' = "none" /\ run' = NoRun
    /\ interrupted' = FALSE /\ result' = NoResult /\ error' = FALSE /\ closing' = FALSE
    /\ arms' = IF arms = "collection" THEN "free" ELSE arms

\* The server dies, alone (a running recorder goes on by itself; bound: one such
\* orphan at a time) or with the whole machine.  The disk stays as it is.
Death ==
    /\ ~Running("orphan")
    /\ \E kind \in Deaths :
          recs' = [o \in Owner |-> IF o = "orphan" /\ kind = "server" /\ Running("service")
                                   THEN recs["service"] ELSE NoProc]
    /\ Reborn
    /\ UNCHANGED <<dataset, ledger, made>>

WorkerStep ==
    \/ Spawn \/ RecorderGone \/ VerifyRun \/ AppendLine \/ ReleaseArms \/ Publish \/ WorkerEnds

Next ==
    \/ \E s \in Sess : Start(s)
    \/ Stop
    \/ Shutdown
    \/ Restart
    \/ Spawn
    \/ RecorderGone
    \/ VerifyRun
    \/ AppendLine
    \/ ReleaseArms
    \/ Publish
    \/ WorkerEnds
    \/ RecorderStep(Server) /\ UNCHANGED <<svcVars, arms>>
    \/ OtherTakes /\ UNCHANGED svcVars
    \/ OtherReleases /\ UNCHANGED svcVars
    \/ Death

Spec == Init /\ [][Next]_vars

\* The worker is an ordinary thread and keeps running. LeRobot answers SIGINT by
\* leaving its loop: a signalled recorder exits. Nothing else is promised: an
\* unsignalled recorder may run as long as the operator likes.
SignalledExits ==
    /\ recs["service"] # NoProc /\ recs["service"].signalled
    /\ RecorderFails("service") \/ RecorderExits("service")
    /\ UNCHANGED <<svcVars, arms>>

FairSpec == Spec /\ WF_vars(WorkerStep) /\ WF_vars(SignalledExits)

-------------------------------------------------------------------------------
\* "Keep ownership until the recording process has exited" (collection.py:390):
\* while the service's recorder has the ports, the service has the lock.
ArmsKeptWhileRecording == Running("service") => arms = "collection"

\* A session that ends FINISHED without a stop is really recorded: its ok line is
\* in the ledger (an append or a verification that failed shows as FAILED).
FinishedMeansRecorded ==
    phase = "finished" /\ ~stopRequested => Done(ledger, run.session)

\* Whatever way a session reached FINISHED, stopped early included, the next
\* start is not refused for a disagreement of dataset and ledger.
FinishedAgrees == phase = "finished" => ~Disagree(ledger)

\* FINISHED is to be believed, and a session may be started after it.
FinishedIsTrue == FinishedMeansRecorded /\ FinishedAgrees

\* A stop is answered: the session ends (or its server does).
StopEnds == stopRequested ~> phase \in {"finished", "failed", "idle"}
===============================================================================
