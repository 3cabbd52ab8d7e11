------------------------------ MODULE CollectCli ------------------------------
(***************************************************************************)
(* experiments/collect.py: the operator's command-line recorder.  A run    *)
(* reads the ledger once, checks it against the dataset, takes the         *)
(* hardware lock and goes through its queue of sessions with that copy of  *)
(* the ledger.  Several command lines may be started at once               *)
(* (CommandLine).  Ctrl+C, the death of a command line and power loss may  *)
(* come at any step; the recorder runs in a session of its own, so it      *)
(* outlives a command line that ends without waiting for it.               *)
(***************************************************************************)
EXTENDS CollectionLedger, FiniteSets

CONSTANT Fragile    \* bound: the command lines that may end before their recorder

ASSUME CommandAssumption == Fragile \subseteq CommandLine

VARIABLE cli    \* the locals of each running main() and run_session()

commandVars == <<dataset, ledger, recs, made, cli, arms>>

Steps == {"off", "lock", "next", "prompt", "spawned", "wait", "handler", "append",
          "leave"}
Modes == {"remaining", "next", "number"}
Off == [pc |-> "off", mode |-> "remaining", lines |-> <<>>, queue |-> <<>>, run |-> NoRun,
        interrupted |-> FALSE, result |-> NoResult]

CommandTypeOK ==
    /\ DiskTypeOK
    /\ arms \in CommandLine \cup {"free", "other"}
    /\ cli \in [CommandLine ->
           [pc : Steps, mode : Modes, lines : Seq(Line), queue : Seq(Sess),
            run : [session : Sess, before : Nat, want : Nat, resume : BOOLEAN],
            interrupted : BOOLEAN,
            result : [after : Nat \cup {None}, problems : BOOLEAN]]]

CommandInit == DiskInit /\ cli = [c \in CommandLine |-> Off] /\ arms = "free"

Goto(c, step) == cli' = [cli EXCEPT ![c].pc = step]

\* The process is gone.
Gone(c) == cli' = [cli EXCEPT ![c] = Off]

\* run_session has returned or raised; what is left of the run is main's finally.
GoLeave(c) == cli' = [cli EXCEPT ![c] = [Off EXCEPT !.pc = "leave", !.mode = cli[c].mode]]

-------------------------------------------------------------------------------
Undone(lines) == {s \in Sess : ~Done(lines, s)}

\* A set of sessions in plan order: there is one such sequence.
InPlanOrder(S) ==
    {q \in [1..Cardinality(S) -> S] :
        /\ \A s \in S : \E i \in DOMAIN q : q[i] = s
        /\ \A i, j \in DOMAIN q : i < j => q[i] < q[j]}

\* --session: every session without an ok line in plan order, or the first of
\* them (pick_session), or the one numbered n.
Queues(lines) ==
    LET undone == Undone(lines)
        first == {s \in undone : \A t \in undone : s <= t}
    IN  {[mode |-> "remaining", queue |-> q] : q \in InPlanOrder(undone)}
        \cup {[mode |-> "next", queue |-> q] : q \in InPlanOrder(first)}
        \cup {[mode |-> "number", queue |-> <<s>>] : s \in Sess}

\* main up to the lock: refused when dataset and ledger disagree, over when
\* nothing is queued.  What was read here is all the run knows of other runs.
\* Bounds: MaxLines, and a member of CommandLine is started anew only when the
\* recorder it left behind is gone; meanwhile the others may be.
Launch(c) ==
    /\ cli[c].pc = "off" /\ ~Running(c) /\ ~Disagree(ledger) /\ Len(ledger) < MaxLines
    /\ \E q \in Queues(ledger) :
          /\ q.queue # <<>>
          /\ cli' = [cli EXCEPT ![c] = [Off EXCEPT !.pc = "lock", !.mode = q.mode,
                                                   !.queue = q.queue, !.lines = ledger]]
    /\ UNCHANGED <<dataset, ledger, recs, made, arms>>

\* Slip: the lock is taken from whoever has it.
TakeArmsAnyway(c) ==
    /\ cli[c].pc = "lock" /\ arms' = c /\ Goto(c, "next")
    /\ UNCHANGED <<dataset, ledger, recs, made>>

\* HardwareLock.acquire, or HardwareBusy and the end.
TakeArms(c) ==
    /\ cli[c].pc = "lock"
    /\ \/ arms = "free" /\ arms' = c /\ Goto(c, "next")
       \/ arms # "free" /\ Gone(c) /\ UNCHANGED arms
    /\ UNCHANGED <<dataset, ledger, recs, made>>

\* run_session up to the prompt: progress of its own lines, a fresh episode
\* count.  An exhausted session is an error and ends the run.
BeginSession(c) ==
    /\ cli[c].pc = "next"
    /\ LET lines == cli[c].lines
           over == cli[c].queue = <<>>
           s == Head(cli[c].queue)
       IN  \/ over /\ GoLeave(c)
           \/ ~over /\ Exhausted(lines, s) /\ GoLeave(c)
           \/ /\ ~over /\ ~Exhausted(lines, s)
              /\ cli' = [cli EXCEPT
                    ![c].pc = "prompt", ![c].interrupted = FALSE,
                    ![c].run = [session |-> s, before |-> Episodes,
                                want |-> Remaining(lines, s), resume |-> Count # None]]
    /\ UNCHANGED <<dataset, ledger, recs, made, arms>>

\* Enter at the prompt: RecordingProcess; MaxLines bounds the recordings.
Record(c) ==
    /\ cli[c].pc = "prompt" /\ Len(ledger) < MaxLines
    /\ recs' = [recs EXCEPT ![c] = Spawned(cli[c].run.session, cli[c].run.want, cli[c].run.resume)]
    /\ Goto(c, "spawned")
    /\ UNCHANGED <<dataset, ledger, made, arms>>

\* Into the try block: from here on Ctrl+C is handled.
Await(c) ==
    /\ cli[c].pc = "spawned" /\ Goto(c, "wait")
    /\ UNCHANGED <<dataset, ledger, recs, made, arms>>

\* q, end of input or Ctrl+C at the prompt, or Popen raising.
Quit(c) ==
    /\ cli[c].pc = "prompt" /\ GoLeave(c)
    /\ UNCHANGED <<dataset, ledger, recs, made, arms>>

\* Ctrl+C.  In wait_and_verify it is caught.  Anywhere else it ends the run, and
\* before the lock the process: between Popen and the try block and inside the
\* handler with the recorder still running, told to stop (a first one got so far) or
\* not; while git is asked for the commit before the ledger line is written.
CtrlC(c) ==
    /\ \/ cli[c].pc = "wait" /\ Goto(c, "handler") /\ UNCHANGED recs
       \/ cli[c].pc = "lock" /\ Gone(c) /\ UNCHANGED recs
       \/ cli[c].pc \in {"next", "append"} /\ GoLeave(c) /\ UNCHANGED recs
       \/ cli[c].pc = "spawned" /\ c \in Fragile /\ GoLeave(c) /\ UNCHANGED recs
       \/ /\ cli[c].pc = "handler" /\ c \in Fragile /\ GoLeave(c)
          /\ recs' \in {recs, [recs EXCEPT ![c] = Signalled(@)]}
    /\ UNCHANGED <<dataset, ledger, made, arms>>

\* Slip: Ctrl+C is remembered but the recorder is not told.
HandleUnsignalled(c) ==
    /\ cli[c].pc = "handler"
    /\ cli' = [cli EXCEPT ![c].interrupted = TRUE, ![c].pc = "wait"]
    /\ UNCHANGED <<dataset, ledger, recs, made, arms>>

\* except KeyboardInterrupt: the first one stops the recorder, a later one only
\* waits on.
HandleCtrlC(c) ==
    /\ cli[c].pc = "handler"
    /\ cli' = [cli EXCEPT ![c].interrupted = TRUE, ![c].pc = "wait"]
    /\ recs' = IF cli[c].interrupted THEN recs ELSE [recs EXCEPT ![c] = Signalled(@)]
    /\ UNCHANGED <<dataset, ledger, made, arms>>

\* wait_and_verify returned; a partial run is never complete here.
VerifySession(c) ==
    /\ cli[c].pc = "wait" /\ recs[c].exited
    /\ \E tasksOk \in BOOLEAN :
          cli' = [cli EXCEPT ![c].pc = "append",
                             ![c].result = Verify(cli[c].run.before, cli[c].run.want,
                                                  recs[c].code, FALSE, tasksOk)]
    /\ UNCHANGED <<dataset, ledger, recs, made, arms>>

SessionLine(c) ==
    [session |-> cli[c].run.session, before |-> cli[c].run.before,
     after |-> cli[c].result.after,
     status |-> IF cli[c].result.problems THEN "mismatch" ELSE "ok"]

\* Slip: the next session starts whatever became of this one.
AppendSessionLineGoingOn(c) ==
    /\ cli[c].pc = "append"
    /\ ledger' = Append(ledger, SessionLine(c))
    /\ cli' = [cli EXCEPT ![c].lines = Append(@, SessionLine(c)), ![c].queue = Tail(@),
                          ![c].pc = "next"]
    /\ recs' = [recs EXCEPT ![c] = NoProc]
    /\ UNCHANGED <<dataset, made, arms>>

\* append_record to the file and to the run's own lines; only a session that is
\* ok and was not interrupted leads on to the next. OSError ends the run.
AppendSessionLine(c) ==
    /\ cli[c].pc = "append"
    /\ \/ /\ ledger' = Append(ledger, SessionLine(c))
          /\ IF cli[c].interrupted \/ cli[c].result.problems THEN GoLeave(c)
             ELSE cli' = [cli EXCEPT
                     ![c].lines = Append(@, SessionLine(c)), ![c].queue = Tail(@),
                     ![c].pc = "next", ![c].run = NoRun, ![c].result = NoResult]
       \/ UNCHANGED ledger /\ GoLeave(c)
    /\ recs' = [recs EXCEPT ![c] = NoProc]
    /\ UNCHANGED <<dataset, made, arms>>

\* The process is gone and so is its lock.  A recorder that still runs goes on, with
\* nobody to wait for it.
End(c) ==
    /\ Gone(c)
    /\ arms' = IF arms = c THEN "free" ELSE arms
    /\ recs' = IF Running(c) THEN recs ELSE [recs EXCEPT ![c] = NoProc]
    /\ UNCHANGED <<dataset, ledger, made>>

\* finally: lock.release()
Leave(c) == cli[c].pc = "leave" /\ End(c)

\* The command line dies alone (SIGKILL, its terminal closed); the lock it leaves
\* is stale and taken by whoever comes next.
Dies(c) == cli[c].pc # "off" /\ c \in Fragile /\ End(c)

\* A recorder that was left behind opens the dataset, saves, and ends unnoticed.
LeftBehind(c) ==
    /\ cli[c].pc = "off"
    /\ \/ RecorderOpens(c)
       \/ RecorderSaves(c)
       \/ /\ Running(c) /\ recs' = [recs EXCEPT ![c] = NoProc]
          /\ UNCHANGED dataset \/ (~recs[c].opened /\ LeavesRoot(c))
          /\ UNCHANGED <<ledger, made>>
    /\ UNCHANGED <<cli, arms>>

-------------------------------------------------------------------------------
\* The machine stops; only the disk is left.
PowerLoss ==
    /\ recs' = [o \in Owner |-> NoProc] /\ cli' = [c \in CommandLine |-> Off] /\ arms' = "free"
    /\ UNCHANGED <<dataset, ledger, made>>

CliStep(c) ==
    \/ BeginSession(c) \/ Await(c) \/ HandleCtrlC(c) \/ VerifySession(c)
    \/ AppendSessionLine(c) \/ Leave(c)

CommandNext ==
    \/ \E c \in CommandLine : Launch(c)
    \/ \E c \in CommandLine : TakeArms(c)
    \/ \E c \in CommandLine : BeginSession(c)
    \/ \E c \in CommandLine : Record(c)
    \/ \E c \in CommandLine : Await(c)
    \/ \E c \in CommandLine : Quit(c)
    \/ \E c \in CommandLine : CtrlC(c)
    \/ \E c \in CommandLine : HandleCtrlC(c)
    \/ \E c \in CommandLine : VerifySession(c)
    \/ \E c \in CommandLine : AppendSessionLine(c)
    \/ \E c \in CommandLine : Leave(c)
    \/ \E c \in CommandLine : Dies(c)
    \/ RecorderStep({c \in CommandLine : cli[c].pc # "off"}) /\ UNCHANGED <<cli, arms>>
    \/ \E c \in CommandLine : LeftBehind(c)
    \/ OtherTakes /\ UNCHANGED cli
    \/ OtherReleases /\ UNCHANGED cli
    \/ PowerLoss

CommandSpec == CommandInit /\ [][CommandNext]_commandVars

\* main() keeps running and LeRobot answers SIGINT by leaving its loop; the
\* operator at the prompt promises nothing, but does not press Ctrl+C for ever: the
\* wait gets through in the end (strong fairness, for each press interrupts it).
SignalledEnds(c) ==
    /\ cli[c].pc # "off" /\ recs[c] # NoProc /\ recs[c].signalled
    /\ RecorderFails(c) \/ RecorderExits(c)
    /\ UNCHANGED <<cli, arms>>

CommandFairSpec ==
    /\ CommandSpec
    /\ \A c \in CommandLine :
          /\ WF_commandVars(CliStep(c)) /\ SF_commandVars(VerifySession(c))
          /\ WF_commandVars(SignalledEnds(c))

-------------------------------------------------------------------------------
\* Whoever begins a session under the lock still has the ledger as it was when the
\* run read it, and the dataset agrees.
FreshAtLock ==
    \A c \in CommandLine :
        cli[c].pc = "next" => cli[c].lines = ledger /\ ~Disagree(ledger)

\* No recorder outlives its command line.
Attended == \A c \in CommandLine : Running(c) => cli[c].pc # "off"

\* main reads the ledger before it takes the lock (collect.py:312, 374) and never
\* again, and lets go of the lock however it ends (398): command lines side by side
\* keep plan, ledger and dataset in step unless one of them takes the lock with a
\* copy that another has overtaken, or leaves its recorder running.
SoundUnlessStale == [](FreshAtLock /\ Attended) => []LedgerSound

\* --session=remaining and next go "in plan order, stopping at the first failure,
\* mismatch or Ctrl+C" (collect.py:13-16): no recorder runs for a session while an
\* earlier one is without an ok line.
PlanOrder ==
    \A c \in CommandLine :
        Running(c) /\ cli[c].pc # "off" /\ cli[c].mode # "number" =>
            \A s \in Sess : s < recs[c].session => Done(ledger, s)

\* Ctrl+C during a recording, however often it is pressed, ends the command line:
\* once LeRobot has finalized, or at once.
InterruptEnds ==
    \A c \in CommandLine :
        cli[c].pc = "handler" \/ cli[c].interrupted ~> cli[c].pc \in {"off", "lock"}

\* "Rerunning this session records only the episodes still missing"
\* (collect.py:275): after a failed run that left no dataset behind, and nothing
\* under way, the next launch is not refused.
RerunRecords ==
    /\ ledger # <<>> /\ Last(ledger).status = "mismatch"
    /\ ~dataset.root
    /\ \A c \in CommandLine : cli[c].pc = "off" /\ ~Running(c)
    => ~Disagree(ledger)
===============================================================================
