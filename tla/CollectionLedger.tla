--------------------------- MODULE CollectionLedger ---------------------------
(***************************************************************************)
(* The facts every recording of a plan shares, whoever runs it: the        *)
(* dataset on disk, the append-only ledger beside it, the lerobot-record   *)
(* processes that write the dataset, and the rules of                      *)
(* lab/core/collection_ledger.py and dataset_metadata.verify.              *)
(* Collection (the web service) and CollectCli (experiments/collect.py)    *)
(* extend this module.                                                     *)
(***************************************************************************)
EXTENDS Integers, Sequences, SequencesExt

CONSTANTS Sess,      \* session indexes of the plan, 1..n
          Planned,   \* episodes planned for each session
          Owner,     \* who may have a recorder process running: the service, the
                     \* orphan it left behind, command lines
          NoProc,
          None,      \* Python's None: no meta/info.json to count in
          MaxLines   \* bound: runs start only while the ledger is shorter

ASSUME LedgerAssumption ==
    /\ IsFiniteSet(Sess) /\ Sess # {} /\ Sess = 1..Cardinality(Sess)
    /\ Planned \in [Sess -> Nat \ {0}]
    /\ MaxLines \in Nat
    /\ None \notin Nat
    /\ Owner \cap {"free", "other"} = {}    \* the lock's other states

VARIABLES dataset,   \* root directory, meta/info.json, total_episodes
          ledger,    \* the lines of <dataset>.collection.jsonl
          recs,      \* the recorder process of each owner
          made,      \* history: episodes that really exist for each session
          arms       \* who has the hardware lock

diskVars == <<dataset, ledger, recs, made>>

Statuses == {"ok", "mismatch", "interrupted"}
Line == [session : Sess, before : Nat, after : Nat \cup {None}, status : Statuses]
\* A recorder is never asked for no episodes at all.
RecProc == [session : Sess, want : Nat \ {0}, saved : Nat, resume : BOOLEAN, opened : BOOLEAN,
            signalled : BOOLEAN, exited : BOOLEAN, code : {0, 1, 130}]

\* The locals of a run, before it has any.
NoRun == [session |-> 1, before |-> 0, want |-> 0, resume |-> FALSE]
NoResult == [after |-> 0, problems |-> FALSE]

Server == {"service", "orphan"}
CommandLine == Owner \ Server

DiskTypeOK ==
    /\ dataset \in [root : BOOLEAN, info : BOOLEAN, episodes : Nat]
    /\ ledger \in Seq(Line)
    /\ recs \in [Owner -> RecProc \cup {NoProc}]
    /\ made \in [Sess -> Nat]

DiskInit ==
    /\ dataset = [root |-> FALSE, info |-> FALSE, episodes |-> 0]
    /\ ledger = <<>>
    /\ recs = [o \in Owner |-> NoProc]
    /\ made = [s \in Sess |-> 0]

-------------------------------------------------------------------------------
\* progress: a session is done once it has an ok line; what it recorded is the
\* sum over its lines, the unreadable ones left out.
Done(lines, s) == \E i \in DOMAIN lines : lines[i].session = s /\ lines[i].status = "ok"

Gain(line) ==
    IF line.after # None /\ line.after > line.before THEN line.after - line.before ELSE 0

\* f[1] + ... + f[n]
SumTo(f, n) == LET upto[i \in 0..n] == IF i = 0 THEN 0 ELSE upto[i - 1] + f[i] IN upto[n]

Gains(lines, s) ==
    [i \in DOMAIN lines |-> IF lines[i].session = s THEN Gain(lines[i]) ELSE 0]

Recorded(lines, s) == SumTo(Gains(lines, s), Len(lines))

Remaining(lines, s) == Planned[s] - Recorded(lines, s)

\* read_episode_count
Count == IF dataset.info THEN dataset.episodes ELSE None
Episodes == IF dataset.info THEN dataset.episodes ELSE 0      \* count or 0

Expected(lines) == IF lines = <<>> THEN 0 ELSE Last(lines).after

\* Slip: the dataset is not compared with the ledger.
DisagreeUnchecked(lines) == dataset.root /\ ~dataset.info

\* check_state: why the dataset and the ledger disagree.
Disagree(lines) ==
    \/ dataset.root /\ ~dataset.info
    \/ Episodes # Expected(lines)

\* Slip: a session with all its episodes but no ok line is recorded again.
ExhaustedIfDone(lines, s) == Done(lines, s)

\* Nothing is left to record, or nothing may be.
Exhausted(lines, s) == Done(lines, s) \/ Remaining(lines, s) <= 0

\* prepare_session accepts the session.
Recordable(lines, s) == ~Disagree(lines) /\ ~Exhausted(lines, s)

\* dataset_metadata.verify: what the run left, and whether it is what was asked
\* for. tasksOk stands for the task metadata of the new episodes.
Verify(before, want, code, partial, tasksOk) ==
    [after |-> Count,
     problems |-> \/ code # 0
                  \/ Count = None
                  \/ Count # None /\ ~(IF partial THEN Count - before \in 0..want
                                                   ELSE Count - before = want)
                  \/ ~tasksOk]

-------------------------------------------------------------------------------
(* The recorder, lerobot-record, is not part of this repository: it opens or  *)
(* creates the dataset, saves episodes one at a time up to the number asked   *)
(* for, and exits by itself, on ESC, on SIGINT or with an error.              *)

Running(o) == recs[o] # NoProc /\ ~recs[o].exited

\* RecordingProcess.__init__: --resume and --dataset.num_episodes as given.
Spawned(s, want, resume) ==
    [session |-> s, want |-> want, saved |-> 0, resume |-> resume, opened |-> FALSE,
     signalled |-> FALSE, exited |-> FALSE, code |-> 0]

\* RecordingProcess.request_stop: SIGINT, unless it has already exited.
Signalled(p) == IF p = NoProc \/ p.exited THEN p ELSE [p EXCEPT !.signalled = TRUE]

RecorderOpens(o) ==
    /\ Running(o) /\ ~recs[o].opened
    /\ recs[o].resume = dataset.info /\ dataset.root = dataset.info
    /\ dataset' = [dataset EXCEPT !.root = TRUE, !.info = TRUE]
    /\ recs' = [recs EXCEPT ![o].opened = TRUE]
    /\ UNCHANGED <<ledger, made>>

RecorderSaves(o) ==
    /\ Running(o) /\ recs[o].opened /\ recs[o].saved < recs[o].want
    /\ dataset' = [dataset EXCEPT !.episodes = @ + 1]
    /\ recs' = [recs EXCEPT ![o].saved = @ + 1]
    /\ made' = [made EXCEPT ![recs[o].session] = @ + 1]
    /\ UNCHANGED ledger

LeavesRoot(o) == ~recs[o].resume /\ dataset' = [dataset EXCEPT !.root = TRUE]

\* Before the dataset is open it can only fail, and may leave an empty root.
RecorderFails(o) ==
    /\ Running(o) /\ ~recs[o].opened
    /\ UNCHANGED dataset \/ LeavesRoot(o)
    /\ recs' = [recs EXCEPT ![o].exited = TRUE, ![o].code = IF recs[o].signalled THEN 130 ELSE 1]
    /\ UNCHANGED <<ledger, made>>

RecorderExits(o) ==
    /\ Running(o) /\ recs[o].opened
    /\ \E c \in {0, IF recs[o].signalled THEN 130 ELSE 1} :
          recs' = [recs EXCEPT ![o].exited = TRUE, ![o].code = c]
    /\ UNCHANGED <<dataset, ledger, made>>

RecorderStep(owners) ==
    \E o \in owners : RecorderOpens(o) \/ RecorderSaves(o) \/ RecorderFails(o) \/ RecorderExits(o)

\* A session on another dataset, calibration or teleoperation takes and releases the lock.
OtherTakes == arms = "free" /\ arms' = "other" /\ UNCHANGED diskVars
OtherReleases == arms = "other" /\ arms' = "free" /\ UNCHANGED diskVars

-------------------------------------------------------------------------------
\* No session ever gets more episodes than the plan asks for: "recording it again
\* would exceed the plan" (experiments/collect.py, prepare_session), across
\* failed runs, deaths between the last episode and the ledger line, and reruns.
NeverOverPlan == \A s \in Sess : made[s] <= Planned[s]

\* An ok line means the session is complete on disk, not only in the ledger.
OkMeansComplete ==
    \A s \in Sess : Done(ledger, s) => Recorded(ledger, s) = Planned[s] /\ made[s] = Planned[s]

\* The lines join up: each starts at the episode count where the line before it
\* ended (check_state's "episodes were recorded or lost outside this tool").
LedgerChains ==
    \A i \in DOMAIN ledger :
        ledger[i].before = IF i = 1 THEN 0 ELSE ledger[i - 1].after

\* Every session has on disk just the episodes its lines tell of, or dataset and
\* ledger disagree and check_state refuses to go on.
Settled == (\A s \in Sess : made[s] = Recorded(ledger, s)) \/ Disagree(ledger)

\* Once no recording has the arms, no episode is passed over: one that was saved
\* but never got its line (the append failed, the run was ended or lost power
\* before it) shows in the count and stops every later run.
NothingPassedOver == arms \in {"free", "other"} => Settled

\* What plan, dataset and ledger promise together, after any failed, stopped or
\* killed run: nothing over plan, no ok line for a session that lacks episodes,
\* lines that join up, and no episode without a line but behind a refusal.
LedgerSound == NeverOverPlan /\ OkMeansComplete /\ LedgerChains /\ NothingPassedOver
===============================================================================
