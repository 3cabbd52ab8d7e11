# A formal model of MTREA's lab

MTREA records demonstrations with two SO-101 arms, keeps them as datasets, trains
policies on a GPU host and serves them. The part that is hard to get right is the lab
server (`lab/`), the command-line recorder (`experiments/collect.py`) and the two
programs of `research/` that run for hours, training and the policy server: threads,
child processes, serial ports that only one program may open, append-only ledgers on
disk, jobs on a machine that is not always reachable, signals. This directory models
that part in TLA+, checks it with TLC on small instances and proves the main invariants
with TLAPS for every instance.

    tlc -config MCHardwareLock.cfg MCHardwareLock.tla        # a model-checking run
    tlapm Hardware_proofs.tla                                # the proofs of a module

`PROJECT.json` lists the runs, for every definition the source lines it stands for, for
every property a mutation of the code it catches, and the hazards of the code.

## 1. Inventory

| Component | State | Operations | Talks to |
|---|---|---|---|
| Hardware lock, `lab/core/hardware/lock.py` | one thread lock per process, `data/locks/hardware.lock` (pid, start time) | acquire, release, holder | every session that opens the arms |
| Collection service, `lab/core/collection.py` | status, worker thread, recorder process | start, stop, send_command, shutdown; the worker `_run` | lock, ledger, recorder, dataset |
| Collection ledger, `collection_ledger.py`, `dataset_metadata.py` | `<dataset>.collection.jsonl`, `meta/info.json` | progress, check_state, prepare_session, append_record, verify | both recorders |
| Command-line recorder, `experiments/collect.py` | queue of sessions, a copy of the ledger's lines | main, run_session, Ctrl+C | lock, ledger, recorder, dataset |
| Recorder child, `recorder.py`, `recording_worker.py`, `recording_telemetry.py`, `fake_recorder.py` | `command.json`, `command_result.json`, `progress.json`; LeRobot's `events`; the watcher thread | start, finish and retry an episode; SIGINT; a phase that times out | the service, LeRobot's `record()` (external) |
| Calibration, `hardware/calibration.py` | state, pressed Next, cancel flag, worker thread | start, next, cancel | lock, arm, calibration file |
| Teleoperation, `hardware/teleop.py` | running, stop flag, worker thread | start, stop | lock, both arms |
| Hardware service, `hardware/service.py`, `ports.py`, `cameras.py` | one lock, the two sessions, a port snapshot | detection, configuration, shutdown | the above |
| Job runner, `runner.py`, `store.py` | `jobs.jsonl`: the latest line of each job | submit, refresh, stop | executors |
| Executors, `executors/local.py`, `ssh.py` | Popen handles; exit files on the GPU host | start, is_running, exit_code, stop | job processes |
| Dataset sync, `dataset_sync.py`, `remote.py`, `dataset_manifest.py` | `.incoming/<name>`, `<name>`, `<name>.manifest.json` on the GPU host | probe, transfer, verify, rename, manifest | GPU host |
| Merge, edit, delete, `dataset_merge.py`, `dataset_edit.py`, `dataset_delete.py` | staging directories, output datasets, archives in `trash/` | review, submit, the job's steps, archive and roll-back | lock, gate, runner, datasets on disk |
| Collection input, `collection_input.py`, `research/collect/plan.py` | `<dataset>.collection.input.json` | validate, save | collection start, merge |
| Training requests, `lab/core/training.py`, `server/train_api.py` | none | resolve, check, submit, read_metrics, run_state | runner, GPU host, run directory |
| Training run, `research/train.py`, `fake_lerobot_train.py` | `status.json`, `result.json`, `checkpoints.json`, `metrics.jsonl`; its memory of the last step and checkpoint | check, launch, follow the log, prune, SIGTERM | lerobot-train (a pipe and the checkpoint directory) |
| Policy server, `research/serve_policy.py`, `serve_backend.py`, `serve_common.py` | `status.json`, `session.json`; accepted, observation queue, last observation | preflight, load, Ready, SendPolicyInstructions, SendObservations, GetActions, idle watch, SIGTERM and SIGINT | robot clients over gRPC |
| Remote host access, `remote.py` | cached answers of the GPU host | run, with a timeout of 60 s | GPU host |
| Server, `lab/server/` | the locks the handlers take (`runner_lock`, `collection_gate`) | HTTP handlers, lifespan | everything above |
| Dataset listing, video, joints | - | reads | datasets on disk |
| Web pages, offline inference and its metrics | - | - | HTTP API; PyTorch |

What makes each hard, and what makes it correct:

- **Lock.** Processes interleave between system calls and die anywhere. Correct: one
  holder, visible on disk; no leftover file refuses everybody.
- **Collection, command line, ledger.** A stop, a crash or a full disk comes between
  saving an episode and writing the line about it. Correct: never more episodes than
  planned, an ok line only for a complete session, a ledger whose lines join up, no
  start on top of episodes without a line, the arms locked for as long as the recorder
  runs, a stop that is answered.
- **Calibration and teleoperation.** Requests race the worker. Correct: a press counts
  for the step it was made in; the reported end is what happened to the file; ports are
  open only under the lock; the follower is driven only with the saved calibration.
- **Jobs.** Processes outlive the server, and the GPU host's answers get lost. Correct:
  kinds that exclude each other do so as processes; the ledger's outcome is what
  happened, and final; an ended job is noticed.
- **Recording commands.** A mailbox file between two processes, and a flag
  (`exit_early`) that every phase of LeRobot's loop looks at. Correct: a command acts on
  the attempt it was sent for and on no other; a stop ends the recorder in any phase.
- **Dataset sync.** Cut-off transfers, commands that act after they were given up.
  Correct: what is published was the dataset at one moment, and never changes.
- **Merge, edit, delete.** A job in one process, deletions and collections in another,
  and people who edit files. Correct: a published dataset is what its provenance says; an
  archive is whole; a job lets go of whatever it took.
- **Training.** Two processes share a directory and a pipe: one prunes the checkpoints the
  other is writing, and a third reads both. Correct: the newest checkpoint can always be
  resumed from; the page says what happened; a stop leaves no process.
- **Policy server.** RPCs of an old session run on while a new one starts; a signal may
  come at any line. Correct: a robot moves only by actions computed for it, by a policy
  trained for its cameras and joints; the end is reported.

## 2. Plan

The order is by what damage a mistake does: hardware first, recorded data next, jobs after.

1. `HardwareLock`, its promise `ArmsOwner`, and the proofs. *Done.*
2. `CollectionLedger` (disk facts and rules), extended by `Collection` (web service) and
   `CollectCli` (command line). *Done.*
3. `JobRunner` with the executors and their failures, and the proofs. *Done.*
4. `HardwareSessions`: calibration and teleoperation on one lock, and the proofs. *Done.*
5. `RecordingCommands`: mailbox, watcher, hooks and fake recorder, and the proofs. *Done.*
6. `DatasetSync`: transfer, verification, rename and manifest under cuts and edits, and the
   proofs. *Done.*
7. `DatasetOps`: merge, edit, delete and a starting collection under `collection_gate` and
   the lock, and the proofs. *Done.*
8. `TrainRequest` and `TrainRun`: from the form to the end of the run, and the proofs.
   *Done.*
9. `ServePolicy`, and the proofs. *Done.*
10. The proofs of `Collection` and of `CollectCli`. *Done.*

Abstract specifications worth stating: `ArmsOwner` (done). "No session is recorded beyond
its plan" is stated as an invariant, `NeverOverPlan`, and proved as one.

## 3. Modules and how they correspond to the code

### ArmsOwner and HardwareLock

`HardwareLock` has one action per system call of `lock.py`: `TryThreadLock`,
`CreateFile` (O_EXCL), `ReadOwner`, `UnlinkStale` (by name), `WriteRecord`, and for release
`BeginRelease`, `ReleaseUnlink`, `ReleaseThreadLock`. `file` is what the path leads to; it
remembers who created it and whether the record is in it, because the code creates it
empty and writes later. A pid together with its start time is `life[p]`: `Crash` begins a
new life, in which everything the process held in memory is gone and the file is not.
`use` is a history variable: it becomes "overlapped" the first time two processes are
inside acquire or release at once.

One holder, as `lock.py:1` promises it, does not hold: `lock_race` shows two processes
holding the arms, because an empty file counts as stale. `OneHolderUnlessOverlapped` and
`ImplementsArmsOwner` say what does hold: used by one process at a time, crashes included,
the lock is the abstract owner of `ArmsOwner` (a step of the protocol maps to Take, Drop or
nothing). Inside one process `OneHolderPerProcess` holds with no condition at all.

### CollectionLedger, Collection, CollectCli

`CollectionLedger` is what the two recorders share: `dataset` (root directory,
`meta/info.json`, episode count), `ledger`, one recorder process per owner (`Server`: the
service and the orphan it may leave; `CommandLine`: the others), `made`, the episodes that
really exist for each session (history), and `arms`, who has the hardware lock. The rules (`Disagree`, `Recordable`,
`Verify`, `Recorded`) are `check_state`, `prepare_session`, `verify` and `progress`. The
recorder itself, LeRobot's `lerobot-record`, is external: it opens the dataset, saves up to
the episodes asked for, fails before opening, or exits.

`Collection` has a program counter for the worker thread (`worker`), one step per section
between two acquisitions of `CollectionService._lock`, and the handlers `Start`, `Stop`,
`Shutdown`. So a stop can come before the recorder exists, while it runs, or after it
exited. The ledger append may fail; power may be lost at any step (`Death`).

`LedgerSound` is what the disk promises at any moment: no session over plan, an ok line
only for a complete session, lines that join up, and, once no recording has the arms,
`NothingPassedOver`. That last part does not say that every episode has a line: after a
failed append or a power loss some have none. It says that the count then differs from the
ledger's, so that every later start is refused (`Disagree`).

`CollectCli` is `main` and `run_session`. `lines` is the copy of the ledger read before the
lock is taken. Ctrl+C is caught only in the try block around the wait ("wait"), where it
leads to the except block ("handler") and back. Between `Popen` and the try ("spawned"), in
the except block itself, and after the wait it goes through to `main`'s finally
(`CtrlC`, `Leave`): the lock is given back and no line is written, and in the first two
cases lerobot-record, in a session of its own, goes on (`LeftBehind`). The same is left by a
command line that dies alone (`Dies`). `Attended` says that no recorder is left so;
`FreshAtLock` says when a copy still is the ledger. Names that `Collection` has too begin
with `Command` here or speak of a session (`CommandSpec`, `AppendSessionLine`), so that one
module can prove about both.

### JobRunner

`op` is the request in progress; every handler holds `runner_lock`, so there is one at a
time, but its polls, start, save and kill are separate steps and the jobs (`proc`), the GPU
host and the server (`Restart`) go on in between. `status` is the latest ledger line of
each job. `ExitCode` tells the two executors apart: a Popen handle is lost in a restart, an
exit file on the GPU host is not. A call to the GPU host may fail with or without effect.

### HardwareSessions

The workers of `calibration.py` and `teleop.py` with a program counter each, the handlers
as actions. The lock is one variable with the promise of `ArmsOwner`. `motors` and `file`
say which saved calibration the motors and the file hold; half-turn homing overwrites
the motors' offsets (`Homed`). One arm stands for the arm being calibrated. A disconnect
closes the port, as `safe_disconnect` forces it to.

### DatasetSync

One dataset and the runs of `dataset_sync.py` for it, one at a time as the runner has it
(`runner.py:28`). A tree maps each file to the stamp of its last edit, which stands for
content, size and mtime alike: two contents with one stamp, the case in which the listing
and rsync's quick check are blind, are out. `run` is what the process knows: its step
(`pc`, named after the step of `sync`), the files left in it (`todo`), the first listing,
the hash (`local`), the stop flag. Hash and transfer go file by file, so `Edit` comes
between any two of them. `incoming`, `final` and `manifest` are the host's three paths.

`CutShort` says what a step leaves behind when its answer is lost, the process is killed or
a stop is seen: a file torn, a command carried out, or not, or *later* (`lateRename`,
`lateWrite`: `run` gives up after 60 s, the host's shell does not). A rename carried out
under a running transfer moves the directory the receiver writes into (`moved`). `mv` after
`[ -e ]` is one step: only another rename of the same source could come between, and then
the source is gone. A receiver that outlives its killed sender is not modelled.

### RecordingCommands

The buttons of a recording, in the service (`Poll`, `Request`, `Post`, `Stop`), in the
recorder's watcher thread (`Look`, `Read`, `Answer`, `Unlink`, `Mark`, `RaiseFlag`: one
action per access to a file or a flag) and in its main thread, which is LeRobot's
`record()` with the hooks of `recording_worker.py` around it. `pc` is where the main thread
is; `progress` is `progress.json`, whose `id` counts the phases; `take` is the recording
phase whose frames are in LeRobot's buffer. `events` are LeRobot's three flags, cleared
where LeRobot or a hook clears them (`ClearNever` and `Clear`, `Unset`). A phase may time
out (`TimeUp`) or break off (`LoopFails`), SIGINT is handled between two steps (`Handle`).
`backend` chooses, once, between this and `FakeRecordingProcess`, which does both parts
under one lock (`FakeSend`, `FakeTurn`). `asked`, `accepted`, `kept` and `dropped` are
history. `Collection` starts and ends such a recorder; the two modules meet in the process
`recs["service"]`, which saves at most as many episodes as asked, is signalled and exits.

### DatasetOps

All that changes which datasets there are, on one backend. A dataset is a sequence of
episodes (a task and data that are only compared), its settings, and whether its metadata
is healthy. The job is a process with a step per phase of `merge_datasets` and
`edit_dataset` (`job.at`), which reads its sources one at a time, as they are then (`Copy`),
and ends through `Clean`, the finally block, unless it is killed or stopped in it. After the
comparison with the fingerprints (`Compare`) a merge reads its sources once more, one at a
time, and writes down where each starts (`Stamp`). A deletion moves part after part and
rolls back in the reverse order; the rename back may fail too (`RollBackFails`), and then,
as after a crash, the archive is marked `cut` (history). `gate` is `collection_gate`, `lock`
the hardware lock, with the promise of `ArmsOwner`. `Meddle` edits a dataset by hand: an
episode is replaced, or the last one goes. Fingerprints are modelled by comparing contents,
all sources in one step, so it also stands for whatever a fingerprint would notice. `late`
(history) is set when an episode of a source goes after the comparison: that, and nothing
else, publishes a wrong `output_episode_start`.

### TrainRequest and TrainRun

`TrainRequest` has no state: the options of `train.py`'s parser (`Option`), the form's
validation (`Malformed`, `Missing`), the checks on this machine and on the target, and the
command a job is started with (`JobCommand`). Options that only name something (a project,
a device) are left out, and numbers are scaled to runs of a few steps.

`TrainRun` is one run: `train.py` (`pc`, `mem`, `line`), lerobot (`child`), the pipe between
them with `PipeCap` lines, and the directory both write (`disk`, `last`, `file`, `metrics`).
Status is written in two steps, as `write_status` composes the text before the rename, and
a signal between them writes the file itself (`OnSignal`). Metrics are written in two halves
that the page may read between. A checkpoint is a directory that exists (`new`), is
complete (`full`) or has lost its training state (`weights`); `last` is unlinked before it
is linked again. lerobot's rounding of step numbers is `Token` and its inverse `ResolveStep`.
The runner's stop sends SIGTERM to the group and SIGKILL later; anyone may kill the group;
another run of the same name may create the directory first (`Rival`).

### ServePolicy

The main thread (`pc`) from `Preflight` to `Exit`; one program counter per gRPC worker
(`handler`), with a step for each access of a handler to state that another thread reads;
signals at any step. A client session is a number: `queue`, `lastObs` and `got` hold the
session an observation or a chunk belongs to. As `docs/SERVING.md` has it, one robot client
runs at a time: it calls Ready, sends its instructions, then observations and GetActions in
turn, and may leave at any point, with a GetActions still running. Handlers that take
microseconds end before the next session begins. `Launches` are command lines with what
they meet; `Offers` the instructions a client may send. A replay's episode is chosen by
Ready (`FakePolicyBackend`).

## 4. Runs

| Run | Instance | Distinct states | Shows |
|---|---|---|---|
| `lock` | 2 sessions of the server, 1 command line, 2 lives of each process | 36 thousand | one holder unless uses overlap, cause of every refusal, refinement of `ArmsOwner` |
| `lock_race` | a second command line, no condition | - | *violated*: `OneHolder` |
| `collection` | 2 sessions of the plan, at most 3 ledger lines, power loss | 71 thousand | plan kept, lines join up, no episode passed over, lock kept, FINISHED is true, stop |
| `collect_cli` | two command lines, one of which may leave its recorder behind, 2 sessions, at most 2 lines, power loss | 703 thousand | plan order, Ctrl+C, plan and ledger sound unless a copy is overtaken or a recorder left behind |
| `cli_rerun` | one command line, 2 lines | - | *violated*: `RerunRecords` |
| `jobs` | two GPU jobs that exclude each other, one local job | 116 thousand | exclusion, true and final ledger, ends are seen |
| `sessions` | both sessions, 2 saved calibrations | 2 thousand | ports, presses, outcomes, stops |
| `sync` | 3 files, 2 edits, 3 faults | 1.4 million | true manifest, snapshot, immutability, retries |
| `commands` | 2 episodes, 3 requests, 1 fault, real and fake recorder | 672 thousand | retries are meant, phases are cut with reason, stop |
| `datasets` | 2 datasets, a merge or an edit, 1 deletion, 2 collections, 1 edit by hand, 1 crash | 1.5 million | provenance, whole archives unless cut short, only hands disturb, clean-up |
| `train` | 16 requests; runs of 4 and 5 steps, 2 or 3 checkpoints, pipe of 2 lines | 232 thousand | resume point, announcements, the page's truth, metrics, options, stop |
| `serve` | 2 workers, 2 sessions, 2 signals, 11 command lines, 2 offers | 199 thousand | fresh chunks, trained features only, orderly end, stop |

**Bounds.** Every bound is a guard of the action that would exceed it, or the length of
something the code bounds itself.

- `MaxLives` bounds how often a process starts: a crash that leaves a stale file and another
  that leaves an empty one fit. Two processes suffice for every interleaving of two
  system-call sequences, and the third session makes two share a process.
- Sessions of a plan have one and two episodes, so a run can be short, partial and complete.
  `MaxLines` bounds runs, not their outcome: a failed, a partial and a complete run of one
  session fit, with another session beside them. Two lines of two command lines are a failed
  run and another, or two runs of which one overtakes the other; that `PlanOrder` and
  `SoundUnlessStale` hold for any number of lines is proved. `Fragile` names the command
  lines that may end before their recorder: one of the two, so that the other meets what it
  left. A name is started anew only when the recorder it left behind is gone.
- Two jobs that exclude each other and a third of the other executor give every conflict
  and both kinds of exit code. `MaxSaves`: a save, then a cancelled or failed one, then
  teleoperation.
- Two edits are the least that make a mixture of versions: one file is read, then both are
  edited, then the other is read. There is one file of each kind: the metadata, one that may
  be removed, one that may be created. Three faults fit two renames given up and a kill, the
  least by which a rename without its test replaces a published copy. The invariants also
  hold with four edits and one fault (6 million states).
- Two episodes have a first, a last, a reset between them and a retry of either; three
  requests are a retry, an answer that comes late and another; one fault breaks either the
  answer to a command or LeRobot.
- One merge of two datasets and one edit of one, into a third name that is also collected
  into and deleted. Two collections: one before and one while the job runs.
- Five steps with a checkpoint every two and at the end make `last` move twice between two
  looks and give pruning two victims, one of them to be kept. `Kilo` is 3, so that steps are
  printed rounded and several print the same. The other requests are every way to be refused.
- Two workers let a GetActions outlive its session; the second session starts with what it
  left. Two signals: one while the other is handled. Each command line is refused for a
  reason of its own, or is a real, replaying or holding server.

**Fairness.** Worker threads and programs that are running go on running (weak fairness of
their steps). LeRobot leaves its loop when it gets SIGINT or finds `exit_early`; an
unsignalled recorder, a phase's full time and the operator at a prompt promise nothing. For
jobs: requests are served to their end, the page keeps asking for the job list, and a host
asked again and again answers sometimes (strong fairness of the answered poll). A sync that
runs goes on, and the user runs it again after every end; faults and edits are bounded, so
in the end a run is left alone. Ctrl+C may be pressed at every line, but nobody presses it
for ever: a command line whose recorder has ended gets through its wait in the end (strong
fairness of `VerifySession`, since every press interrupts it). A dataset job and an accepted deletion go on; stops, kills
and people owe nothing. `train.py` follows its log, signals arrive and the runner's grace
period ends; lerobot, which trains for hours, owes no step at all. The policy server's
threads go on; clients and signals owe nothing.

**Deadlock** is checked in every run but two. In `commands` the recorder is gone and the
requests are spent; in `datasets` the bounds are: both really stop. A training run and a
policy server that are over stutter (`Rest`).

## 5. What is proved

For any sessions, processes and number of lives; any plan and length of the ledger; any set
of jobs with any kinds and executors; any number of saves; any set of files, edits and
faults; any number of episodes and requests; any datasets, merges, edits and names; any
workers, sessions, signals, launches and offers; any training requests, worlds they meet and
size of the pipe. The assumptions are the ASSUMEs of the modules and, where a result needs
one more, the condition named with it.

- `Hardware_proofs`. For the lock the inductive invariant has three parts: types; a session
  that is past the thread lock owns its process's thread lock (`ThreadLockOwned`); and, as
  long as use was serial (`SerialInv`), sessions inside the protocol belong to one process, a holder
  has its record in the file, and a file that is being created is the creator's. What the
  run checks is not inductive by itself: that a stale file may be unlinked follows only from
  the fact that no live session of another process is inside. From it: one holder in a
  process and, in serial use, anywhere (`HoldersExclude`), `HolderIsOnDisk`, the action
  property `BusyHasCause`, and the refinement: every step of the serial protocol takes the
  owner of `ArmsOwner` from nobody to a session, back, or nowhere. For the two sessions the
  invariant ties each worker's program counter to the lock, its ports, its flags and the
  presses it has consumed. From it: `PortsUnderLock`, `NextAppliesToItsStep`,
  `OutcomeIsTrue`, `TeleopCalibrated`.
- `Collection_proofs`. The invariant says of every place of the worker what it has
  established: from spawn to release it has the lock, and the recorder runs only while it
  waits; up to the append its line will start where the ledger ends; on the way to FINISHED
  the session was stopped or has its ok line. From it `ArmsKeptWhileRecording`, that lines
  join (`LedgerChains`) and `FinishedMeansRecorded`, whatever dies. That dataset and ledger
  agree at FINISHED needs one assumption more, that no server dies without its recorder
  (`"server" \notin Deaths`): an orphan goes on writing. With it: `FinishedIsTrue`.
  `LedgerSound` under the same assumption: between two runs every session has on disk just
  what its lines tell of, or the ledger disagrees with the dataset and nothing starts
  (`Settled`), and in between the recorder is ahead of them by what it has saved, which is at most what
  the plan lacked at the start (`Flight`). The
  sum of a session's lines is a recursive function; that it exists, is unique and grows by
  one line is shown by the least number at which it would not. The module extends
  `CollectCli` too: what a run knows from its own copy of the ledger stays true of the
  ledger, and its queue is in plan order (`Ordered`), so `PlanOrder` holds for any number of
  command lines (`KeepsPlanOrder`). Their books (`CliSound`) are those of the service: the
  one that has the lock and is recording goes by a copy that is the ledger, and none of the
  others is recording. Two steps do not keep that: the begin of a session with a copy that
  another has overtaken, which `FreshAtLock` excludes, and the end of a command line whose
  recorder still runs, which `Attended` excludes (`CommandLinesSound`, for any number of
  them). With a single command line the first cannot be, and `Attended` alone is enough
  (`CliLedgerIsSound`).
- `JobRunner_proofs`. The invariant says of a request in progress what it has established:
  at "start" no conflicting job is recorded running, at "save" the job's process was
  started, at "saveStopped" it is gone; unknown and settled jobs are dead processes. From
  it: `RecordedJobsExclude`, `LedgerIsTrue`, `OutcomeStays`.
- `DatasetSync_proofs`. The invariant says what a run knows of the host at the steps that
  act on it: at "rename" the copy is what it verified, unless a late rename took it; at
  "write" the directory in place is what it hashed; and a manifest still to be written is
  of the directory in place. That a late command can do no harm follows from it and from
  the refusal of an existing destination. From it: `SyncedIsTrue`, `PublishedStays`. For
  `PublishedIsSnapshot` the invariant orders the values of every file as the dataset takes
  them: what was hashed is nowhere newer than some past moment of the dataset, what was
  copied or found is nowhere older, and where the two agree both are that moment. A file that
  comes and goes has no such order, hence `Created \cap Removed = {}` (section 6 shows what
  happens otherwise). The same gives `CachedTrue`.
- `RecordingCommands_proofs`. A retry is followed from the mailbox through the watcher and
  `rerecord_episode` to the place where LeRobot throws its buffer away (`Accepted`,
  `Rerecord`); an `exit_early` that is up belongs to the phase that runs or is taken back
  before the next (`Early`), because the watcher is joined before a phase ends. The real and
  the fake recorder have an invariant each. From them: `RetryIsMeant`, `CutShortForAReason`.
- `DatasetOps_proofs`. Whoever changes a dataset holds the lock or the gate (`Locks`), so
  what a job reads moves only by hand: `OnlyHandsDisturb`. An archive is followed part by
  part (`Archives`): the last one holds the first `moved` parts of its list, the others all
  or, after a roll-back, none, unless they were cut short, and then the first of them. From it: `ArchivedTogether`. For `PublishedFaithful` the data
  of an episode is what it was or edited by hand since (`Touched`): what a job has copied
  lies between what it fingerprinted and what is there now, and the job publishes only when
  the last is as the first. What `Stamp` counts is still that, as long as `late` is not set:
  the offsets it has written are those of the fingerprinted sources. Where an episode lies in the output is told by the offsets of its
  source (`Starts`), a recursive function that is taken apart one source at a time.
- `ServePolicy_proofs`. Between its connection and its Ready a session has no handler but
  that one; a queued observation, and one a handler has taken, is of the session that may be
  given its chunk; acceptance belongs to the current client; and from the first `_Stop` on
  the words to be written are fixed. From it: `FreshChunks`, `OnlyTrainedFeatures`,
  `OrderlyEnd`. Proving the second showed what it says when a checkpoint names no joints:
  their order is then nobody's promise, and the property says so.
- `TrainRun_proofs`. Four invariants. `Checkpoints`: a directory is whole, being written or
  being removed, `saved` is whole and newest, and pruning's victims are older than what
  train.py has seen `last` point to, so whatever lerobot saves meanwhile is not among them.
  From it `ResumePointKept` and `RunsAsChecked` (what the process runs with is what its
  parser makes of the resolved form, which no later step touches). `MetricsFollow`: the
  lines in the pipe, in train.py and on the page are of steps that follow each other, and a
  rounded step and the frequency of the log leave one candidate. From it `MetricsExact`.
  `Lines`: what is announced is what was seen, once and in order, and is whole; the
  announcements of one look are a set in order, which exists by induction on its size. At
  the end of the log lerobot is gone, and `last` is its last save. From it `Announced`.
  `Says` follows each word from where it is decided over train.py's memory and the composed
  text to the disk: "stopped" only once somebody stops the run, "failed" only once lerobot
  failed or was not started, "done" only on the last step of a run whose checkpoints are
  listed, after which nobody writes. With the three others: `PageTruth`. Of the values of
  the form only their kind is assumed (`IsValue`): a number is whole.

The type invariants are theorems of their own: of the first modules as a part of the
inductive invariant, of `Collection`, `CollectCli`, `DatasetOps` and `TrainRun` on top of it
(`CollectionTypes`, `CommandTypes`, `OpsTypes`, `RunTypes`), because that a recorder is asked
for at least one episode, that an archive holds parts of a dataset only and that the pipe
never overflows needs the ledger's sums, the gate and the places of both processes.

Induction over numbers is done of a set (`NatSets` in the modules that need it: a set that
has 0 and with every number the next one has them all), since the library's theorem takes
an operator as a parameter, which the installed provers cannot instantiate.

**Only model-checked.** The liveness properties (`StopEnds`, `InterruptEnds`, `EndIsSeen`,
`SessionsStop`, `RetriesSettle`, `JobsTidyUp`): the prover does no liveness under fairness
and no ENABLED. Every invariant and every action property of the runs is proved, three of
them under the conditions above, which the runs meet: `FinishedIsTrue`, `LedgerSound` and
`PublishedIsSnapshot`; `SoundUnlessStale` and `ArchivedTogether` name theirs themselves.

## 6. What the checks found

Two runs state what the repository says and end in a counterexample.

- `lock_race`: two processes can hold the arms (`lock.py:97-111`).
- `cli_rerun`: after a first run that failed before creating the dataset, every later run is
  refused, though `collect.py:275` says a rerun records what is missing.

More sentences of the repository are false of the models. Each is a definition in its
module; TLC refutes it when a configuration names it as an INVARIANT (or PROPERTY).

- `JobsExclude` (`runner.py:26`): a remote start whose answer is lost leaves a job that no
  ledger line knows and that excludes nothing.
- `CancelSavesNothing` (`README.md:110`): a cancel after the last Next still saves.
- `CacheIsTrue` (`dataset_manifest.py:103`), with a file in both `Created` and `Removed`: one
  that appears and vanishes while a dataset is hashed stays in the cached manifest, and
  every sync fails until the dataset changes. With edits of other files around it a mixture
  of two versions can be published; that takes four edits in one run.
- `NamesReserved` (`dataset_merge.py:44`): settings are written for a name a job is about to
  publish, since the start of a collection writes them before it takes the hardware lock.
- `FinishedTakeSaved` (`RecordingView.tsx:209`): a finish is accepted, SIGINT comes after
  LeRobot's own test for a stop and before `recording_worker.py:238`, and the take is lost.
- `PastRunsKept` (`train.py:515`): two runs of one name both pass the check for an existing
  directory, and `mkdir(exist_ok=True)` lets both in.
- `NewSessionUnfiltered` (`serve_backend.py:17`): a GetActions of the old session that is
  still predicting sets the last observation after the new session's Ready has cleared it.

Noted while reading: `serve_policy.py:359` expects the status to survive a second signal
during shutdown; between the first `_Stop` and the line after it, and for Ctrl+C until the
end, a signal ends the process with `status.json` as it was (`Die`). `README.md:128-130`
says an unknown outcome leaves the ledger unchanged, `runner.py:96-108` writes UNKNOWN.

`HolderIsOnDisk`, `OneHolderUnlessOverlapped`, `OneHolderPerProcess` and `AcquireEnds` of
`HardwareLock` and `PageIsTrue` of `DatasetSync` hold and have no run of their own; the type
invariants hold too, and those of every module with `_proofs` are proved.

## 7. Not covered

- The server dying alone: its recorder goes on (`start_new_session`) while the lock becomes
  stale. The model has it (`Deaths = {"server"}`), the ledger's promises fail under it, and
  the repository promises nothing for the case. What holds regardless is proved (section 5).
- Two command lines on one plan, of which one runs from its first look at the ledger to its
  end between the look (`collect.py:312`) and the lock (`collect.py:374`) of the other: the
  other exceeds the plan. And a command line that ends before its recorder: Ctrl+C between
  `Popen` (`collect.py:210`) and the try, Ctrl+C once more in the except block
  (`collect.py:222-226`), or its death. The lock is free or stale while lerobot-record goes
  on, and the next run records beside it. That these two are the only ways is checked
  (`collect_cli`, whose property excepts them) and proved (`CommandLinesSound`).
- An archive cut short by a crash or by a rename back that fails (`dataset_delete.py:75`) is
  not repaired by anything; what is proved is that it holds the dataset first and lists it.
  A source that loses an episode by hand after it was compared (`dataset_merge.py:176`) and
  before it is counted (`:185`) gives merge.json wrong starts. Frame counts, and files that
  change while one fingerprint is taken, are not modelled.
- `shutil.rmtree(stage, ignore_errors=True)` that leaves files behind: `Clean` always empties
  the staging directory, so `JobsTidyUp` is about the ways there, not about the removal.
- PID reuse, children that outlive their job's shell, a disconnect that fails to close the
  port, unreadable metadata files.
- Two training runs in one directory beyond the moment they meet there; two robot clients
  that call at once, which the protocol rules out and the server does not.
- Offline inference and its metrics, web pages, cameras, listing, video and joint reads:
  pure computation, I/O or reads. Validation and generation of plans leave no state.
- The counts in a manifest's record: they are read after the transfer
  (`dataset_sync.py:303`) and may be those of a later edit.
- The cache of remote reads, port detection, preview images, logs.
