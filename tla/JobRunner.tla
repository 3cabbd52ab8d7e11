------------------------------ MODULE JobRunner ------------------------------
(***************************************************************************)
(* lab/core/runner.py with the job ledger (store.py) and the two executors *)
(* (local.py, ssh.py) as the lab server drives them.  Every request holds  *)
(* runner_lock for all its steps, so requests do not overlap; but the jobs *)
(* are processes of their own, here or on the GPU host, which end, vanish  *)
(* or become unreachable between any two steps, and the server may be      *)
(* restarted at any of them.                                               *)
(***************************************************************************)
EXTENDS Naturals

CONSTANTS Job,      \* job ids, each submitted at most once
          KindOf,   \* JobSpec.kind of each
          On,       \* JobSpec.executor of each
          NoJob,
          NoCode    \* exit_code() returned None

Kinds == {"train", "norm_stats", "serve_policy", "convert", "sync", "merge", "edit"}
Executors == {"local", "ssh"}

ASSUME JobAssumption ==
    /\ KindOf \in [Job -> Kinds]
    /\ On \in [Job -> Executors]
    /\ NoJob \notin Job
    /\ NoCode \notin {0, 1}

VARIABLES status,    \* the latest ledger line of each job, "absent" before the first
          proc,      \* what became of the job's process
          handles,   \* LocalExecutor._procs of this server
          op         \* the request being served: kind, step, job, jobs left to poll

vars == <<status, proc, handles, op>>

Settled == {"done", "failed", "stopped"}
Status == Settled \cup {"absent", "running", "unknown"}
\* ok and bad left an exit code; vanished (OOM, reboot, SIGKILL) and killed (by
\* stop) left none but what a Popen handle still says.
Fate == {"none", "running", "ok", "bad", "vanished", "killed"}
Idle == [kind |-> "none", step |-> "idle", job |-> NoJob, todo |-> {}]

TypeOK ==
    /\ status \in [Job -> Status]
    /\ proc \in [Job -> Fate]
    /\ handles \subseteq Job
    /\ op \in [kind : {"none", "refresh", "submit", "stop"},
               step : {"idle", "poll", "start", "save", "kill", "saveStopped"},
               job : Job \cup {NoJob}, todo : SUBSET Job]

Init ==
    /\ status = [j \in Job |-> "absent"]
    /\ proc = [j \in Job |-> "none"]
    /\ handles = {}
    /\ op = Idle

-------------------------------------------------------------------------------
\* _EXCLUSIVE: the kinds that may not be active when one of kind k is submitted.
BlockedBy(k) ==
    CASE k \in {"train", "norm_stats"} -> {"train", "norm_stats"}
      [] k \in {"merge", "edit"} -> {"merge", "edit"}
      [] k \in {"serve_policy", "sync"} -> {k}
      [] OTHER -> {}

\* Slip: only the same kind is refused.
BlockersOfSameKind(j) == {i \in Job : status[i] = "running" /\ KindOf[i] = KindOf[j]}

\* The active jobs that refuse j. (QUEUED is never saved.)
Blockers(j) == {i \in Job : status[i] = "running" /\ KindOf[i] \in BlockedBy(KindOf[j])}

\* exit_code(): the remote exit file, or the Popen handle of a local job.
ExitCode(j) ==
    IF On[j] = "ssh"
    THEN CASE proc[j] = "ok" -> 0 [] proc[j] = "bad" -> 1 [] OTHER -> NoCode
    ELSE IF j \notin handles THEN NoCode
    ELSE IF proc[j] = "ok" THEN 0 ELSE 1

\* refresh asks about these jobs only.
Unsettled == {j \in Job : status[j] \in {"running", "unknown"}}

Open(kind, j) == op' = [kind |-> kind, step |-> "poll", job |-> j, todo |-> Unsettled]
GotoStep(s) == op' = [op EXCEPT !.step = s]
Answer == op' = Idle

\* GET /api/jobs and its like; every other request refreshes first.
Refresh == op = Idle /\ Open("refresh", NoJob) /\ UNCHANGED <<status, proc, handles>>
Submit(j) ==
    /\ op = Idle /\ status[j] = "absent" /\ proc[j] = "none"
    /\ Open("submit", j) /\ UNCHANGED <<status, proc, handles>>
Stop(j) ==
    /\ op = Idle /\ status[j] # "absent"
    /\ Open("stop", j) /\ UNCHANGED <<status, proc, handles>>

Polled(j) == op.step = "poll" /\ j \in op.todo /\ op' = [op EXCEPT !.todo = @ \ {j}]

\* Slip: what the executor calls a lost process goes to the ledger as it is.
PollAnsweredRaw(j) ==
    /\ Polled(j)
    /\ status' = IF proc[j] = "running" THEN status
                 ELSE [status EXCEPT ![j] = CASE ExitCode(j) = NoCode -> "gone"
                                              [] ExitCode(j) = 0 -> "done"
                                              [] OTHER -> "failed"]
    /\ UNCHANGED <<proc, handles>>

\* Slip: without an exit code the ledger is left unchanged, as README.md:128 has it.
PollAnsweredUnchanged(j) ==
    /\ Polled(j)
    /\ status' = IF proc[j] = "running" \/ ExitCode(j) = NoCode THEN status
                 ELSE [status EXCEPT ![j] = IF ExitCode(j) = 0 THEN "done" ELSE "failed"]
    /\ UNCHANGED <<proc, handles>>

\* refresh, one job whose executor answered.
PollAnswered(j) ==
    /\ Polled(j)
    /\ status' = IF proc[j] = "running" THEN status
                 ELSE [status EXCEPT ![j] = CASE ExitCode(j) = NoCode -> "unknown"
                                              [] ExitCode(j) = 0 -> "done"
                                              [] OTHER -> "failed"]
    /\ UNCHANGED <<proc, handles>>

\* Slip: an unreachable host is taken for a lost job.
PollUnreachableLost(j) ==
    /\ Polled(j) /\ On[j] = "ssh"
    /\ status' = [status EXCEPT ![j] = "unknown"]
    /\ UNCHANGED <<proc, handles>>

\* RemoteError: no evidence either way, the status stays as recorded.
PollUnreachable(j) ==
    /\ Polled(j) /\ On[j] = "ssh"
    /\ UNCHANGED <<status, proc, handles>>

\* Slip: the outcome the poll has just recorded is not looked at.
PolledAllUnread ==
    /\ op.step = "poll" /\ op.todo = {}
    /\ CASE op.kind = "refresh" -> Answer
         [] op.kind = "submit" -> IF Blockers(op.job) = {} THEN GotoStep("start") ELSE Answer
         [] op.kind = "stop" -> GotoStep("kill")
    /\ UNCHANGED <<status, proc, handles>>

\* After the refresh: submit looks for conflicts, stop for a running job.
PolledAll ==
    /\ op.step = "poll" /\ op.todo = {}
    /\ CASE op.kind = "refresh" -> Answer
         [] op.kind = "submit" -> IF Blockers(op.job) = {} THEN GotoStep("start") ELSE Answer
         [] op.kind = "stop" -> IF status[op.job] = "running" THEN GotoStep("kill") ELSE Answer
    /\ UNCHANGED <<status, proc, handles>>

\* executor.start: the PID came back; or it did not and nothing runs; or, on the
\* GPU host, it did not (30 s passed, the connection broke) and the job runs.
Start ==
    /\ op.step = "start"
    /\ \/ /\ proc' = [proc EXCEPT ![op.job] = "running"]
          /\ handles' = IF On[op.job] = "local" THEN handles \cup {op.job} ELSE handles
          /\ GotoStep("save")
       \/ UNCHANGED <<proc, handles>> /\ Answer
       \/ /\ On[op.job] = "ssh"
          /\ proc' = [proc EXCEPT ![op.job] = "running"]
          /\ UNCHANGED handles /\ Answer
    /\ UNCHANGED status

\* store.save(job), the first line of the job.
Save ==
    /\ op.step = "save"
    /\ status' = [status EXCEPT ![op.job] = "running"]
    /\ Answer /\ UNCHANGED <<proc, handles>>

\* executor.stop: TERM, grace, KILL; a job already gone is as good. On the GPU
\* host the answer may be lost, before or after the signal; here the wait for
\* the killed process may time out.
Kill ==
    /\ op.step = "kill"
    /\ LET killed == IF proc[op.job] = "running" THEN [proc EXCEPT ![op.job] = "killed"] ELSE proc
       IN  \/ proc' = killed /\ GotoStep("saveStopped")
           \/ proc' \in {proc, killed} /\ Answer
    /\ UNCHANGED <<status, handles>>

\* stop saves STOPPED, whatever the process did in the meantime.
SaveStopped ==
    /\ op.step = "saveStopped"
    /\ status' = [status EXCEPT ![op.job] = "stopped"]
    /\ Answer /\ UNCHANGED <<proc, handles>>

-------------------------------------------------------------------------------
\* The job's process ends by itself.
Ends(j) ==
    /\ proc[j] = "running"
    /\ \E f \in {"ok", "bad", "vanished"} : proc' = [proc EXCEPT ![j] = f]
    /\ UNCHANGED <<status, handles, op>>

\* The server goes down at any step and comes back: jobs are detached and live on,
\* the Popen handles and the request are gone.
Restart == op' = Idle /\ handles' = {} /\ UNCHANGED <<status, proc>>

OpStep ==
    \/ \E j \in Job : PollAnswered(j) \/ PollUnreachable(j)
    \/ PolledAll \/ Start \/ Save \/ Kill \/ SaveStopped

Next ==
    \/ Refresh
    \/ \E j \in Job : Submit(j)
    \/ \E j \in Job : Stop(j)
    \/ \E j \in Job : PollAnswered(j)
    \/ \E j \in Job : PollUnreachable(j)
    \/ PolledAll
    \/ Start
    \/ Save
    \/ Kill
    \/ SaveStopped
    \/ \E j \in Job : Ends(j)
    \/ Restart

Spec == Init /\ [][Next]_vars

\* Requests are served to their end, the page asks for the job list again and
\* again, and a host asked again and again answers sometimes.
FairSpec ==
    /\ Spec /\ WF_vars(Refresh) /\ WF_vars(OpStep)
    /\ \A j \in Job : SF_vars(PollAnswered(j))

-------------------------------------------------------------------------------
Alive == {j \in Job : proc[j] = "running"}
Clash(i, j) == i # j /\ KindOf[i] \in BlockedBy(KindOf[j])

\* "Kinds that must not overlap with themselves" (runner.py:26): the exclusion
\* holds of the processes themselves, wherever they run, for every job that has
\* a ledger line: through outages, restarts, lost outcomes and failed stops.
RecordedJobsExclude ==
    \A i, j \in Alive : Clash(i, j) => status[i] = "absent" \/ status[j] = "absent"

\* The same of every process a submit started.
JobsExclude == \A i, j \in Alive : ~Clash(i, j)

\* What the ledger says of a job's end is what happened: done only after exit
\* code 0, failed only after another end, stopped and unknown only of a process
\* that is gone.
LedgerIsTrue ==
    \A j \in Job :
        /\ status[j] = "done" => proc[j] = "ok"
        /\ status[j] = "failed" => proc[j] \in {"bad", "vanished", "killed"}
        /\ status[j] \in {"stopped", "unknown"} => proc[j] \notin {"none", "running"}

\* A recorded outcome is never replaced: the latest line per id wins, so no later
\* line may follow it.
OutcomeStays == [][\A j \in Job : status[j] \in Settled => status'[j] = status[j]]_vars

\* A job that ended does not stay "running" in the ledger: if it is polled often
\* enough, outages and restarts only delay it.
EndIsSeen ==
    \A j \in Job : status[j] = "running" /\ proc[j] # "running" ~> status[j] # "running"
===============================================================================
