--------------------------- MODULE JobRunner_proofs ---------------------------
(***************************************************************************)
(* Proofs about JobRunner, for any set of jobs, kinds and executors: its   *)
(* types, the truth of the ledger, the exclusion of recorded jobs and that *)
(* a recorded outcome stays.  They rest on one inductive invariant, IInv,  *)
(* which says of each step of a request what it may rely on after the      *)
(* steps before it, whatever the processes did in between.                 *)
(***************************************************************************)
EXTENDS JobRunner, TLAPS

\* A submit is about a job nobody has started; until its first line is saved no
\* conflicting job is recorded as running.
SubmitReady ==
    /\ op.kind = "submit" /\ op.step \in {"poll", "start"} =>
          op.job \in Job /\ status[op.job] = "absent" /\ proc[op.job] = "none"
    /\ op.step = "save" =>
          op.job \in Job /\ status[op.job] = "absent" /\ proc[op.job] # "none"
    /\ op.step \in {"start", "save"} => op.kind = "submit" /\ Blockers(op.job) = {}

\* A stop acts on a job recorded as running, and saves only once it is gone.
StopReady ==
    /\ op.kind = "stop" /\ op.step = "poll" => op.job \in Job
    /\ op.step \in {"kill", "saveStopped"} => op.job \in Job /\ status[op.job] = "running"
    /\ op.step = "saveStopped" => proc[op.job] # "running"

PollReady ==
    /\ op.step = "poll" => op.kind \in {"refresh", "submit", "stop"} /\ op.todo \subseteq Unsettled
    /\ op.kind = "none" => op.step = "idle"

StartedOnce == \A j \in Job : status[j] # "absent" => proc[j] # "none"

IInv ==
    /\ TypeOK
    /\ StartedOnce
    /\ SubmitReady
    /\ StopReady
    /\ PollReady
    /\ LedgerIsTrue
    /\ RecordedJobsExclude

-------------------------------------------------------------------------------
(* The exclusion is symmetric: whichever of two kinds is submitted first. *)
LEMMA BlockedBySymmetric ==
    ASSUME NEW k \in Kinds, NEW l \in Kinds, k \in BlockedBy(l)
    PROVE  l \in BlockedBy(k)
  BY DEF Kinds, BlockedBy

(* A recorded job whose process is alive is recorded as running, so a submit it
   conflicts with finds it. *)
LEMMA AliveIsRunning ==
    ASSUME TypeOK, LedgerIsTrue, NEW j \in Job, proc[j] = "running", status[j] # "absent"
    PROVE  status[j] = "running"
  BY DEF TypeOK, LedgerIsTrue, Status, Settled

(* What one answered poll may write. *)
LEMMA PollOutcome ==
    ASSUME TypeOK, StartedOnce, PollReady, NEW j \in Job, PollAnswered(j)
    PROVE  /\ status[j] \in {"running", "unknown"}
           /\ \/ status' = status
              \/ /\ proc[j] \notin {"none", "running"}
                 /\ \/ status' = [status EXCEPT ![j] = "unknown"]
                    \/ proc[j] = "ok" /\ status' = [status EXCEPT ![j] = "done"]
                    \/ proc[j] # "ok" /\ status' = [status EXCEPT ![j] = "failed"]
  <1>1. status[j] \in {"running", "unknown"} /\ proc[j] # "none"
    BY DEF PollAnswered, Polled, PollReady, Unsettled, StartedOnce, TypeOK
  <1>2. CASE proc[j] = "running"
    BY <1>1, <1>2 DEF PollAnswered
  <1>3. CASE proc[j] # "running"
    <2>1. CASE ExitCode(j) = NoCode
      BY <1>1, <1>3, <2>1, JobAssumption DEF PollAnswered
    <2>2. CASE ExitCode(j) # NoCode /\ ExitCode(j) = 0
      <3>1. proc[j] = "ok"
        BY <2>2, JobAssumption DEF ExitCode
      <3> QED BY <1>1, <1>3, <2>2, <3>1 DEF PollAnswered
    <2>3. CASE ExitCode(j) # NoCode /\ ExitCode(j) # 0
      <3>1. proc[j] # "ok"
        BY <2>3, JobAssumption DEF ExitCode
      <3> QED BY <1>1, <1>3, <2>3, <3>1 DEF PollAnswered
    <2> QED BY <2>1, <2>2, <2>3
  <1> QED BY <1>2, <1>3

-------------------------------------------------------------------------------
\* At the start there is no job and no request.
LEMMA InitIInv == Init => IInv
  BY JobAssumption DEF Init, IInv, TypeOK, StartedOnce, SubmitReady, StopReady, PollReady,
     LedgerIsTrue, RecordedJobsExclude, Idle, Status, Settled, Fate, Alive, Blockers

(* Opening a request disturbs nothing but op. *)
LEMMA OpenIInv ==
    ASSUME IInv, UNCHANGED <<status, proc, handles>>,
           \/ Open("refresh", NoJob)
           \/ \E j \in Job : Open("submit", j) /\ status[j] = "absent" /\ proc[j] = "none"
           \/ \E j \in Job : Open("stop", j)
    PROVE  IInv'
  BY DEF IInv, Open, TypeOK, StartedOnce, SubmitReady, StopReady, PollReady, LedgerIsTrue,
     RecordedJobsExclude, Unsettled, Blockers, Alive

(* Ending one does not either. *)
LEMMA AnswerIInv ==
    ASSUME IInv, UNCHANGED <<status, proc>>, handles' \subseteq Job, Answer
    PROVE  IInv'
  BY DEF IInv, Answer, Idle, TypeOK, StartedOnce, SubmitReady, StopReady, PollReady,
     LedgerIsTrue, RecordedJobsExclude, Alive

\* An answered poll records what became of the process.
LEMMA PollAnsweredIInv ==
    ASSUME IInv, NEW j \in Job, PollAnswered(j)
    PROVE  IInv'
  <1> USE DEF IInv
  <1>1. /\ op.step = "poll" /\ op' = [op EXCEPT !.todo = @ \ {j}]
        /\ UNCHANGED <<proc, handles>>
        /\ status[j] \in {"running", "unknown"}
    BY PollOutcome DEF PollAnswered, Polled
  <1>2. \A i \in Job : i # j => status'[i] = status[i]
    BY PollOutcome DEF TypeOK
  <1>3. TypeOK'
    BY <1>1, PollOutcome DEF TypeOK, Status, Settled
  <1>4. status'[j] \in {"running", "unknown", "done", "failed"} /\ proc[j] # "none"
    BY <1>1, PollOutcome DEF TypeOK, StartedOnce
  <1>5. StartedOnce'
    BY <1>1, <1>2, <1>4 DEF StartedOnce
  <1>6. SubmitReady' /\ StopReady'
    BY <1>1, <1>2 DEF SubmitReady, StopReady, TypeOK
  <1>7. PollReady'
    BY <1>1, <1>2 DEF PollReady, Unsettled, TypeOK
  <1>8. LedgerIsTrue'
    BY <1>1, <1>2, PollOutcome DEF LedgerIsTrue, TypeOK, Fate
  <1>9. RecordedJobsExclude'
    BY <1>1, <1>2, <1>4 DEF RecordedJobsExclude, Alive, Clash
  <1> QED BY <1>3, <1>5, <1>6, <1>7, <1>8, <1>9

\* A poll without an answer keeps the invariant.
LEMMA PollUnreachableIInv ==
    ASSUME IInv, NEW j \in Job, PollUnreachable(j)
    PROVE  IInv'
  BY DEF IInv, PollUnreachable, Polled, TypeOK, StartedOnce, SubmitReady, StopReady, PollReady,
     LedgerIsTrue, RecordedJobsExclude, Unsettled, Blockers, Alive

\* Once all jobs are polled a submit knows of no conflict, or is refused.
LEMMA PolledAllIInv ==
    ASSUME IInv, PolledAll
    PROVE  IInv'
  <1>1. op.kind \in {"refresh", "submit", "stop"} /\ op.step = "poll" /\ UNCHANGED <<status, proc, handles>>
    BY DEF IInv, PolledAll, PollReady
  <1>2. CASE Answer
    BY <1>1, <1>2, AnswerIInv DEF IInv, TypeOK
  <1>3. CASE op.kind = "submit" /\ Blockers(op.job) = {} /\ GotoStep("start")
    BY <1>1, <1>3 DEF IInv, GotoStep, TypeOK, StartedOnce, SubmitReady, StopReady, PollReady,
       LedgerIsTrue, RecordedJobsExclude, Blockers, Alive
  <1>4. CASE op.kind = "stop" /\ status[op.job] = "running" /\ GotoStep("kill")
    BY <1>1, <1>4 DEF IInv, GotoStep, TypeOK, StartedOnce, SubmitReady, StopReady, PollReady,
       LedgerIsTrue, RecordedJobsExclude, Alive
  <1> QED BY <1>1, <1>2, <1>3, <1>4 DEF PolledAll

\* A start begins a process that no recorded job excludes.
LEMMA StartIInv ==
    ASSUME IInv, Start
    PROVE  IInv'
  <1>1. /\ op.step = "start" /\ op.kind = "submit" /\ op.job \in Job
        /\ status[op.job] = "absent" /\ proc[op.job] = "none" /\ status' = status
    BY DEF IInv, Start, SubmitReady
  <1>2. CASE UNCHANGED <<proc, handles>> /\ Answer
    BY <1>1, <1>2, AnswerIInv DEF IInv, TypeOK
  <1>3. CASE /\ proc' = [proc EXCEPT ![op.job] = "running"]
             /\ handles' \subseteq Job
             /\ Answer \/ GotoStep("save")
    <2>1. TypeOK'
      BY <1>1, <1>3, JobAssumption DEF IInv, TypeOK, Answer, Idle, GotoStep, Fate
    <2>2. \A i \in Job : status[i] # "absent" => proc'[i] = proc[i]
      BY <1>1, <1>3 DEF IInv, TypeOK
    <2>3. StartedOnce' /\ LedgerIsTrue'
      BY <1>1, <2>2 DEF IInv, StartedOnce, LedgerIsTrue, TypeOK
    <2>4. SubmitReady' /\ StopReady' /\ PollReady'
      BY <1>1, <1>3 DEF IInv, SubmitReady, StopReady, PollReady, Answer, Idle, GotoStep, TypeOK,
         Blockers
    <2>5. RecordedJobsExclude'
      BY <1>1, <2>2 DEF IInv, RecordedJobsExclude, Alive, Clash
    <2> QED BY <2>1, <2>3, <2>4, <2>5 DEF IInv
  <1> QED BY <1>1, <1>2, <1>3 DEF Start, IInv, TypeOK

(* The job's first line: every conflicting live job would have been recorded as
   running, hence among the blockers, of which there are none. *)
LEMMA SaveIInv ==
    ASSUME IInv, Save
    PROVE  IInv'
  <1> DEFINE n == op.job
  <1>1. /\ n \in Job /\ status[n] = "absent" /\ proc[n] # "none" /\ Blockers(n) = {}
        /\ status' = [status EXCEPT ![n] = "running"] /\ op' = Idle
        /\ UNCHANGED <<proc, handles>>
    BY DEF IInv, Save, SubmitReady, Answer
  <1>2. TypeOK'
    BY <1>1, JobAssumption DEF IInv, TypeOK, Idle, Status
  <1>3. StartedOnce' /\ LedgerIsTrue'
    BY <1>1 DEF IInv, StartedOnce, LedgerIsTrue, TypeOK
  <1>4. SubmitReady' /\ StopReady' /\ PollReady'
    BY <1>1 DEF SubmitReady, StopReady, PollReady, Idle
  <1>5. \A i \in Job : i # n /\ proc[i] = "running" /\ status[i] # "absent" =>
            ~Clash(i, n) /\ ~Clash(n, i)
    <2> SUFFICES ASSUME NEW i \in Job, i # n, proc[i] = "running", status[i] # "absent"
                 PROVE  ~Clash(i, n) /\ ~Clash(n, i)
      OBVIOUS
    <2>1. status[i] = "running"
      BY AliveIsRunning DEF IInv
    <2>2. KindOf[i] \notin BlockedBy(KindOf[n])
      BY <1>1, <2>1 DEF Blockers
    <2>3. KindOf[n] \notin BlockedBy(KindOf[i])
      BY <1>1, <2>2, BlockedBySymmetric, JobAssumption
    <2> QED BY <2>2, <2>3 DEF Clash
  <1>6. RecordedJobsExclude'
    BY <1>1, <1>5 DEF IInv, RecordedJobsExclude, Alive, Clash, TypeOK
  <1> QED BY <1>2, <1>3, <1>4, <1>6 DEF IInv

\* A kill leaves no process, or is reported as failed.
LEMMA KillIInv ==
    ASSUME IInv, Kill
    PROVE  IInv'
  <1>1. op.step = "kill" /\ op.job \in Job /\ status[op.job] = "running" /\ UNCHANGED <<status, handles>>
    BY DEF IInv, Kill, StopReady
  <1>2. /\ \/ proc' = proc
           \/ proc[op.job] = "running" /\ proc' = [proc EXCEPT ![op.job] = "killed"]
        /\ Answer \/ (GotoStep("saveStopped") /\ proc'[op.job] # "running")
    BY <1>1 DEF Kill, IInv, TypeOK
  <1>3. TypeOK'
    BY <1>1, <1>2, JobAssumption DEF IInv, TypeOK, Answer, Idle, GotoStep, Fate
  <1>4. StartedOnce' /\ LedgerIsTrue'
    BY <1>1, <1>2 DEF IInv, StartedOnce, LedgerIsTrue, TypeOK
  <1>5. SubmitReady' /\ StopReady' /\ PollReady'
    BY <1>1, <1>2 DEF IInv, SubmitReady, StopReady, PollReady, Answer, Idle, GotoStep, TypeOK
  <1>6. RecordedJobsExclude'
    BY <1>1, <1>2 DEF IInv, RecordedJobsExclude, Alive, Clash, TypeOK
  <1> QED BY <1>3, <1>4, <1>5, <1>6 DEF IInv

\* A job is recorded stopped once its process is gone.
LEMMA SaveStoppedIInv ==
    ASSUME IInv, SaveStopped
    PROVE  IInv'
  <1>1. /\ op.job \in Job /\ status[op.job] = "running" /\ proc[op.job] # "running"
        /\ status' = [status EXCEPT ![op.job] = "stopped"] /\ op' = Idle
        /\ UNCHANGED <<proc, handles>>
    BY DEF IInv, SaveStopped, StopReady, Answer
  <1>2. TypeOK'
    BY <1>1, JobAssumption DEF IInv, TypeOK, Idle, Status, Settled
  <1>3. StartedOnce' /\ LedgerIsTrue'
    BY <1>1 DEF IInv, StartedOnce, LedgerIsTrue, TypeOK
  <1>4. SubmitReady' /\ StopReady' /\ PollReady'
    BY <1>1 DEF SubmitReady, StopReady, PollReady, Idle
  <1>5. RecordedJobsExclude'
    BY <1>1 DEF IInv, RecordedJobsExclude, Alive, Clash, TypeOK
  <1> QED BY <1>2, <1>3, <1>4, <1>5 DEF IInv

(* The end of a process makes nothing false: no step of a request relies on a
   process still running. *)
LEMMA EndsIInv ==
    ASSUME IInv, NEW j \in Job, Ends(j)
    PROVE  IInv'
  <1>1. /\ proc[j] = "running" /\ UNCHANGED <<status, handles, op>>
        /\ \E f \in {"ok", "bad", "vanished"} : proc' = [proc EXCEPT ![j] = f]
    BY DEF Ends
  <1>2. /\ TypeOK'
        /\ \A i \in Job : proc'[i] = "running" => proc[i] = "running"
        /\ \A i \in Job : proc'[i] # "none" <=> proc[i] # "none"
        /\ \A i \in Job : i # j => proc'[i] = proc[i]
    BY <1>1 DEF IInv, TypeOK, Fate
  <1>3. StartedOnce'
    BY <1>1, <1>2 DEF IInv, StartedOnce
  <1>4. SubmitReady' /\ StopReady' /\ PollReady'
    BY <1>1, <1>2 DEF IInv, SubmitReady, StopReady, PollReady, Blockers, Unsettled
  <1>5. LedgerIsTrue'
    BY <1>1, <1>2 DEF IInv, LedgerIsTrue
  <1>6. RecordedJobsExclude'
    BY <1>1, <1>2 DEF IInv, RecordedJobsExclude, Alive, Clash
  <1> QED BY <1>2, <1>3, <1>4, <1>5, <1>6 DEF IInv

\* Every step keeps the invariant.
LEMMA StepIInv ==
    ASSUME IInv, [Next]_vars
    PROVE  IInv'
  <1>1. CASE Refresh
    BY <1>1, OpenIInv DEF Refresh
  <1>2. ASSUME NEW j \in Job, Submit(j) PROVE IInv'
    BY <1>2, OpenIInv DEF Submit
  <1>3. ASSUME NEW j \in Job, Stop(j) PROVE IInv'
    BY <1>3, OpenIInv DEF Stop
  <1>4. CASE Restart
    BY <1>4, AnswerIInv DEF Restart, Answer
  <1>5. CASE UNCHANGED vars
    BY <1>5 DEF vars, IInv, TypeOK, StartedOnce, SubmitReady, StopReady, PollReady, LedgerIsTrue,
       RecordedJobsExclude, Unsettled, Blockers, Alive
  <1> QED BY <1>1, <1>2, <1>3, <1>4, <1>5, PollAnsweredIInv, PollUnreachableIInv, PolledAllIInv,
          StartIInv, SaveIInv, KillIInv, SaveStoppedIInv, EndsIInv DEF Next

\* What a request in progress has established, and what the records say of the
\* processes, in every behaviour (runner.py, submit, refresh and stop).
THEOREM Invariance == Spec => []IInv
  BY InitIInv, StepIInv, PTL DEF Spec

-------------------------------------------------------------------------------
(* Every variable keeps its type: no request leaves a half-made state behind. *)
THEOREM TypeCorrect == Spec => []TypeOK
  <1>1. IInv => TypeOK
    BY DEF IInv
  <1> QED BY <1>1, Invariance, PTL

(* Jobs of kinds that exclude each other (runner.py:26) never run at the same
   time, of those the ledger knows: for any number of jobs and restarts. *)
THEOREM RecordedJobsExcludeEachOther == Spec => []RecordedJobsExclude
  <1>1. IInv => RecordedJobsExclude
    BY DEF IInv
  <1> QED BY <1>1, Invariance, PTL

(* What refresh and stop record of a job's end is what happened to its process. *)
THEOREM LedgerTellsTheTruth == Spec => []LedgerIsTrue
  <1>1. IInv => LedgerIsTrue
    BY DEF IInv
  <1> QED BY <1>1, Invariance, PTL

(* A job recorded as done, failed or stopped keeps that line: neither a refresh
   nor a stop nor a submit writes another one. *)
THEOREM OutcomesStay == Spec => OutcomeStays
  <1>1. ASSUME IInv, [Next]_vars
        PROVE  \/ UNCHANGED vars
               \/ \A j \in Job : status[j] \in Settled => status'[j] = status[j]
    <2>1. CASE UNCHANGED vars
      BY <2>1
    <2>2. ASSUME NEW i \in Job, PollAnswered(i)
          PROVE  \A j \in Job : status[j] \in Settled => status'[j] = status[j]
      BY <1>1, <2>2, PollOutcome DEF IInv, Settled, TypeOK
    <2>3. CASE Save
      BY <1>1, <2>3 DEF Save, IInv, SubmitReady, Settled, TypeOK
    <2>4. CASE SaveStopped
      BY <1>1, <2>4 DEF SaveStopped, IInv, StopReady, Settled, TypeOK
    <2>5. CASE Next /\ UNCHANGED status
      BY <2>5
    <2> QED BY <1>1, <2>1, <2>2, <2>3, <2>4, <2>5 DEF Next, Refresh, Submit, Stop, PollUnreachable,
            PolledAll, Start, Kill, Ends, Restart
  <1> QED BY <1>1, Invariance, PTL DEF Spec, OutcomeStays
===============================================================================
