------------------------------ MODULE TrainRun ------------------------------
(***************************************************************************)
(* One training run: the page's request, research/train.py, the lerobot    *)
(* process it runs (as research/fake_lerobot_train.py stands in for it),   *)
(* the run directory they write and the page that reads it.  train.py and  *)
(* lerobot are concurrent: a pipe of log lines is all that connects them,  *)
(* and train.py prunes the checkpoints lerobot is writing.  lab's runner   *)
(* may stop the run, anyone may kill it, and another run may be given the  *)
(* same directory.                                                         *)
(***************************************************************************)
EXTENDS TrainRequest, FiniteSets, Sequences

CONSTANTS
    Scenarios,   \* requests, each with the world it meets
    PipeCap,     \* log lines the pipe holds
    Kilo         \* the first step lerobot prints rounded (1000)

ASSUME TrainAssumption ==
    /\ PipeCap \in Nat \ {0} /\ Kilo \in Nat \ {0, 1}
    /\ \A c \in Scenarios : \A p \in DOMAIN c.request.params : IsValue(c.request.params[p])

VARIABLES
    scenario,  \* the request and its world, fixed
    answer,    \* to the request: code, checks that failed, warnings, command
    job,       \* the ledger's word
    dir,       \* whose files the run directory holds
    pc,        \* where train.py is
    args,      \* what it parsed
    line,      \* the log line it handles
    mem,       \* its memory, see NewMem
    tmp,       \* the status it has composed but not yet put in place
    rc,        \* its exit code, -1 before
    term,      \* SIGTERMs under way
    child,     \* lerobot: where it is, its step, its exit code
    pipe,      \* its log lines
    disk,      \* checkpoint directories
    last,      \* the step `last` points to, 0 for none
    saved,     \* the last step it ever pointed to
    out,       \* steps of the CHECKPOINT lines so far
    file,      \* status.json, result.json, checkpoints.json
    metrics,   \* metrics.jsonl: complete lines, and whether one is half written
    page       \* the metrics the page has read, and its offset

requestVars == <<scenario, answer>>
mainVars == <<args, line, mem, tmp, rc, out>>
childVars == <<child, pipe, disk, last, saved>>
vars == <<requestVars, job, dir, pc, mainVars, term, childVars, file, metrics, page>>

Req == scenario.request
World == scenario.world
Steps == args.steps.is
Keep == args.keep_checkpoints.is

\* Words of status.json; "" before the file exists.
NoStatus == [word |-> "", step |-> 0, ckpt |-> 0, failure |-> "none"]
NoMem == [status |-> NoStatus, stop |-> FALSE, prev |-> 0, seen |-> 0, oom |-> FALSE, wandb |-> FALSE]
NewMem == [NoMem EXCEPT !.status.word = "running"]
NoLine == [kind |-> "none", step |-> 0, token |-> 0, rounded |-> FALSE]
NoResult == [word |-> "", code |-> -1, ckpt |-> 0]

Alive == child.at \notin {"none", "gone"}
Before == {"asked", "refused", "checked"}
Unguarded == {"queued", "free", "starting", "result", "closing"}
Handled == {"begin", "opening", "begun", "spawning", "failing", "reading", "metrics", "half",
            "refresh", "prune", "list", "compose", "noting"}
Ended == {"over", "killed", "clashed"}
Running == pc \notin Before \cup {"over", "killed", "clashed"}

Words == {"", "running", "done", "failed", "stopped"}

TypeOK ==
    /\ scenario \in Scenarios
    /\ job \in {"none", "active", "stopping", "stopped", "done", "failed"}
    /\ dir \in {"none", "ours", "rival"}
    /\ pc \in Before \cup Unguarded \cup Handled \cup Ended
    /\ mem.status.word \in Words /\ mem.stop \in BOOLEAN
    /\ rc \in {-1, 0, 1, 2, 127, 137, 143}
    /\ term \in [main : BOOLEAN, child : BOOLEAN]
    /\ child.at \in {"none", "boot", "train", "save", "mkdir", "write", "unlink", "link", "gone"}
    /\ child.rc \in {-1, 0, 1, 137, 143}
    /\ Len(pipe) <= PipeCap
    /\ \A s \in DOMAIN disk : disk[s] \in {"new", "full", "weights"}
    /\ last \in Nat /\ saved \in Nat
    /\ file.status.word \in Words /\ file.result.word \in Words
    /\ metrics.half \in BOOLEAN /\ page.offset \in Nat

Init ==
    /\ scenario \in Scenarios
    /\ answer = [code |-> 0, failed |-> {}, warned |-> {}, command |-> <<>>]
    /\ job = "none" /\ dir = "none" /\ pc = "asked"
    /\ args = Parsed(<<>>) /\ line = NoLine /\ mem = NoMem /\ tmp = NoStatus /\ rc = -1 /\ out = <<>>
    /\ term = [main |-> FALSE, child |-> FALSE]
    /\ child = [at |-> "none", step |-> 0, rc |-> -1] /\ pipe = <<>>
    /\ disk = [s \in {} |-> "new"] /\ last = 0 /\ saved = 0
    /\ file = [status |-> NoStatus, result |-> NoResult, list |-> {}]
    /\ metrics = [lines |-> <<>>, half |-> FALSE] /\ page = [lines |-> <<>>, offset |-> 0]

-----------------------------------------------------------------------------
(* lab: POST /api/train/start.                                             *)

\* resolve and check, on this machine and on the target.
Answer ==
    LET failed == FailedChecks(Req, World, dir)
        parsed == Parsed(Resolved(Req))
    IN  answer' = IF Malformed(Req)
                  THEN [answer EXCEPT !.code = 400]
                  ELSE [code |-> IF failed = {} THEN 201 ELSE 409, failed |-> failed,
                        warned |-> IF failed = {} THEN Warnings(Req, parsed, World) ELSE {},
                        command |-> IF failed = {} THEN JobCommand(parsed) ELSE <<>>]

Check ==
    /\ pc = "asked" /\ Answer
    /\ pc' = IF answer'.code = 201 THEN "checked" ELSE "refused"
    /\ UNCHANGED <<scenario, job, dir, mainVars, term, childVars, file, metrics, page>>

\* runner.submit of the explicit command.
Submit ==
    /\ pc = "checked" /\ pc' = "queued" /\ job' = "active" /\ args' = Parsed(answer.command)
    /\ UNCHANGED <<requestVars, dir, line, mem, tmp, rc, out, term, childVars, file, metrics, page>>

\* Another run of the same name gets there first.
Rival ==
    /\ dir = "none" /\ pc \in Before \cup {"queued", "free"} /\ dir' = "rival"
    /\ UNCHANGED <<requestVars, job, pc, mainVars, term, childVars, file, metrics, page>>

-----------------------------------------------------------------------------
(* train.py, from main to the launch.                                      *)

Goto(next) == pc' = next /\ UNCHANGED <<requestVars, job, dir, term, page>>

\* Refused before launch: exit 2 and nothing written.
RefuseLaunch ==
    /\ pc = "queued" /\ Blocking(args, World, dir) # {}
    /\ rc' = 2 /\ Goto("over")
    /\ UNCHANGED <<args, line, mem, tmp, out, childVars, file, metrics>>

Admit ==
    /\ pc = "queued" /\ Blocking(args, World, dir) = {} /\ Goto("free")
    /\ UNCHANGED <<mainVars, childVars, file, metrics>>

\* output.mkdir(exist_ok=True) and config.json. What two runs do in one
\* directory is not followed any further.
MakeDir ==
    /\ pc = "free"
    /\ IF dir = "none" THEN dir' = "ours" /\ pc' = "starting" ELSE pc' = "clashed" /\ UNCHANGED dir
    /\ UNCHANGED <<requestVars, job, mainVars, term, childVars, file, metrics, page>>

\* _Run.__init__, and the handlers of SIGINT and SIGTERM.
Guard ==
    /\ pc = "starting" /\ mem' = NewMem /\ Goto("begin")
    /\ UNCHANGED <<args, line, tmp, rc, out, childVars, file, metrics>>

\* write_status: the text is composed, then a rename puts it in place. A signal
\* in between writes the same file.
ComposeStatus(at, then, status) ==
    /\ pc = at /\ mem' = [mem EXCEPT !.status = status] /\ tmp' = status /\ Goto(then)

ReplaceStatus(at, then) ==
    /\ pc = at /\ file' = [file EXCEPT !.status = tmp] /\ tmp' = NoStatus /\ Goto(then)
    /\ UNCHANGED <<args, out, childVars, metrics>>

Open ==
    /\ ComposeStatus("begin", "opening", mem.status)
    /\ UNCHANGED <<args, line, rc, out, childVars, file, metrics>>

\* The first status.json, then STATUS started.
Opened == ReplaceStatus("opening", "begun") /\ UNCHANGED <<line, mem, rc>>

\* Popen: the child runs before self.proc names it.
Spawn ==
    /\ pc = "begun" /\ child' = [child EXCEPT !.at = "boot"] /\ Goto("spawning")
    /\ UNCHANGED <<mainVars, pipe, disk, last, saved, file, metrics>>

Spawned ==
    /\ pc = "spawning" /\ Goto("reading")
    /\ UNCHANGED <<mainVars, childVars, file, metrics>>

\* lerobot-train cannot be started.
SpawnFails ==
    /\ pc = "begun" /\ ~args.fake.is
    /\ ComposeStatus("begun", "failing", [mem.status EXCEPT !.word = "failed", !.failure = "error"])
    /\ file' = [file EXCEPT !.result = [word |-> "failed", code |-> 127, ckpt |-> 0]]
    /\ UNCHANGED <<args, line, rc, out, childVars, metrics>>

Failed == ReplaceStatus("failing", "over") /\ rc' = 127 /\ UNCHANGED <<line, mem>>

-----------------------------------------------------------------------------
(* train.py follows the log.                                               *)

\* format_big_number: lerobot prints a step of Kilo or more rounded, half to even.
Token(step) ==
    IF step < Kilo THEN step
    ELSE LET down == step \div Kilo
             over == 2 * (step % Kilo)
         IN  IF over > Kilo \/ (over = Kilo /\ down % 2 = 1) THEN down + 1 ELSE down

RoundedStep(l, prev) == IF l.rounded THEN l.token * Kilo ELSE l.token

\* resolve_step: past Kilo the step is the one before plus log_freq, if that prints the same.
ResolveStep(l, prev) ==
    LET expected == prev + args.log_freq.is
    IN  IF l.rounded /\ expected >= Kilo /\ Token(expected) = l.token THEN expected
        ELSE RoundedStep(l, prev)

\* The next line: a metrics record, a save that starts, the W&B address or a traceback.
TakeLine ==
    /\ pc = "reading" /\ pipe # <<>>
    /\ pipe' = Tail(pipe)
    /\ LET l == Head(pipe)
           step == ResolveStep(l, mem.prev)
       IN  CASE l.kind = "metrics" ->
                  /\ line' = [l EXCEPT !.step = step]
                  /\ mem' = [mem EXCEPT !.prev = step]
                  /\ Goto("metrics")
             [] l.kind = "save" -> line' = l /\ Goto("refresh") /\ UNCHANGED mem
             [] l.kind = "wandb" /\ ~mem.wandb ->
                  line' = l /\ mem' = [mem EXCEPT !.wandb = TRUE] /\ Goto("compose")
             [] OTHER ->
                  line' = NoLine /\ mem' = [mem EXCEPT !.oom = @ \/ l.kind = "oom"] /\ Goto("reading")
    /\ UNCHANGED <<args, tmp, rc, out, child, disk, last, saved, file, metrics>>

\* The pipe is closed: proc.wait(), and the previous handlers again.
EndOfLog ==
    /\ pc = "reading" /\ pipe = <<>> /\ child.at = "gone"
    /\ line' = [NoLine EXCEPT !.kind = "eof"] /\ Goto("refresh")
    /\ UNCHANGED <<args, mem, tmp, rc, out, childVars, file, metrics>>

\* One line of metrics.jsonl, of which a reader may see the first half.
WriteMetrics ==
    \/ /\ pc = "metrics" /\ metrics' = [metrics EXCEPT !.half = TRUE] /\ Goto("half")
       /\ UNCHANGED <<mainVars, childVars, file>>
    \/ /\ pc = "half" /\ Goto("refresh")
       /\ metrics' = [lines |-> Append(metrics.lines, line.step), half |-> FALSE]
       /\ UNCHANGED <<mainVars, childVars, file>>

\* The members of a finite set of numbers, in order.
Ordered(S) ==
    CHOOSE q \in [1..Cardinality(S) -> S] :
        /\ \A s \in S : \E i \in DOMAIN q : q[i] = s
        /\ \A i, j \in DOMAIN q : i < j => q[i] < q[j]

NewestComplete(seen) == IF seen > mem.status.ckpt THEN {seen} ELSE {}

\* Every step directory up to `last` is complete, however far it moved.
NewlyComplete(seen) == {s \in DOMAIN disk : mem.status.ckpt < s /\ s <= seen}

\* refresh_checkpoints reads `last`. A read in the gap between unlink and symlink
\* is repeated a few times, then counts as None.
Announce ==
    /\ pc = "refresh"
    /\ out' = out \o Ordered(NewlyComplete(last))
    /\ mem' = [mem EXCEPT !.seen = last, !.status.ckpt = IF last = 0 THEN @ ELSE last]
    /\ Goto(IF last # 0 /\ line.kind \in {"save", "eof"} /\ args.prune_checkpoints.is
            THEN "prune" ELSE "list")
    /\ UNCHANGED <<args, line, tmp, rc, childVars, file, metrics>>

\* Everything older than the newest directory.
NewerExists(s) ==
    /\ \E t \in DOMAIN disk : s < t
    /\ ~(s \in Keep /\ disk[s] = "weights")

\* prune_checkpoints: older than the `last` it was given, and not yet reduced to weights.
Prunable(s) == s < mem.seen /\ ~(s \in Keep /\ disk[s] = "weights")

Pruned(s) ==
    IF s \in Keep THEN [disk EXCEPT ![s] = "weights"]
    ELSE [t \in DOMAIN disk \ {s} |-> disk[t]]

\* One checkpoint after the other; those to keep lose their training state.
Prune ==
    /\ pc = "prune"
    /\ LET old == {s \in DOMAIN disk : Prunable(s)}
       IN  IF old = {} THEN Goto("list") /\ UNCHANGED disk
           ELSE Goto("prune") /\ disk' = Pruned(CHOOSE s \in old : \A t \in old : s <= t)
    /\ UNCHANGED <<mainVars, child, pipe, last, saved, file, metrics>>

\* list_checkpoints
Listing(seen) ==
    {[step |-> s, complete |-> s <= seen, state |-> disk[s] # "weights", last |-> s = seen] :
        s \in DOMAIN disk}

\* checkpoints.json, rewritten when it changes.
List ==
    /\ pc = "list" /\ file' = [file EXCEPT !.list = Listing(mem.seen)]
    /\ Goto(IF line.kind = "eof" THEN "result" ELSE "compose")
    /\ UNCHANGED <<mainVars, childVars, metrics>>

Note ==
    /\ ComposeStatus("compose", "noting",
                     [mem.status EXCEPT !.step = IF line.kind = "metrics" THEN line.step ELSE @])
    /\ UNCHANGED <<args, line, rc, out, childVars, file, metrics>>

Noted == ReplaceStatus("noting", "reading") /\ line' = NoLine /\ UNCHANGED <<mem, rc>>

-----------------------------------------------------------------------------
(* The end of train.py.                                                    *)

Verdict == IF mem.stop THEN "stopped" ELSE IF child.rc = 0 THEN "done" ELSE "failed"

\* result.json, with the failure the tail of the log shows,
WriteResult ==
    /\ pc = "result"
    /\ mem' = [mem EXCEPT !.status.word = Verdict,
                          !.status.failure = IF Verdict # "failed" THEN "none"
                                             ELSE IF mem.oom THEN "oom" ELSE "error"]
    /\ file' = [file EXCEPT !.result = [word |-> Verdict, code |-> child.rc, ckpt |-> mem.status.ckpt]]
    /\ Goto("closing")
    /\ UNCHANGED <<args, line, tmp, rc, out, childVars, metrics>>

\* then status.json, and the exit code of the child.
Close ==
    /\ pc = "closing" /\ file' = [file EXCEPT !.status = mem.status] /\ rc' = child.rc /\ Goto("over")
    /\ UNCHANGED <<args, line, mem, tmp, out, childVars, metrics>>

ProcKnown == pc \notin {"begin", "opening", "begun", "spawning", "failing"}

\* on_signal: both files say stopped at once, then the signal goes on to a child that is known.
OnSignal ==
    /\ term.main /\ pc \in Handled /\ line.kind # "eof"
    /\ mem' = [mem EXCEPT !.stop = TRUE, !.status.word = "stopped"]
    /\ file' = [file EXCEPT !.result = [word |-> "stopped", code |-> -1, ckpt |-> mem.status.ckpt],
                            !.status = [mem.status EXCEPT !.word = "stopped"]]
    /\ term' = [main |-> FALSE, child |-> term.child \/ (ProcKnown /\ Alive)]
    /\ UNCHANGED <<requestVars, job, dir, pc, args, line, tmp, rc, out, childVars, metrics, page>>

\* Without its handlers SIGTERM ends the process.
DieOfSignal ==
    /\ term.main /\ Running /\ (pc \notin Handled \/ line.kind = "eof")
    /\ pc' = "killed" /\ rc' = 143 /\ term' = [term EXCEPT !.main = FALSE]
    /\ UNCHANGED <<requestVars, job, dir, args, line, mem, tmp, out, childVars, file, metrics, page>>

-----------------------------------------------------------------------------
(* lerobot.                                                                *)

Child == UNCHANGED <<requestVars, job, dir, pc, mainVars, term, file, metrics, page>>

Say(l) == Len(pipe) < PipeCap /\ pipe' = Append(pipe, l)
At(next) == child' = [child EXCEPT !.at = next]

\* wandb's address is printed before the first step.
Boot ==
    /\ child.at = "boot" /\ At("train")
    /\ IF args.wandb.is THEN Say([NoLine EXCEPT !.kind = "wandb"]) ELSE UNCHANGED pipe
    /\ UNCHANGED <<disk, last, saved>> /\ Child

FailStep == IF args.fake_fail.is = "oom" THEN 2 ELSE Steps \div 2 + 1
Fails == args.fake.is /\ args.fake_fail.is # "none" /\ child.step + 1 = FailStep

\* One step: a metrics line every log_freq, a checkpoint every save_freq and after the last.
Train ==
    LET step == child.step + 1 IN
    /\ child.at = "train" /\ child.step < Steps /\ ~Fails
    /\ child' = [child EXCEPT !.step = step, !.at = IF step \in SavedSteps(args) THEN "save" ELSE "train"]
    /\ IF step % args.log_freq.is = 0
       THEN Say([kind |-> "metrics", step |-> 0, token |-> Token(step), rounded |-> step >= Kilo])
       ELSE UNCHANGED pipe
    /\ UNCHANGED <<disk, last, saved>> /\ Child

\* A real run may fail at any step, the fake one where it is told to.
Fail ==
    /\ child.at = "train" /\ child.step < Steps /\ (Fails \/ ~args.fake.is)
    /\ child' = [child EXCEPT !.at = "gone", !.rc = 1]
    /\ \E kind \in {"oom", "error"} :
        /\ args.fake.is => kind = args.fake_fail.is
        /\ Say([NoLine EXCEPT !.kind = kind])
    /\ UNCHANGED <<disk, last, saved>> /\ Child

\* "Checkpoint policy after step N", before the save.
SaveLine ==
    /\ child.at = "save" /\ Say([NoLine EXCEPT !.kind = "save"]) /\ At("mkdir")
    /\ UNCHANGED <<disk, last, saved>> /\ Child

\* save_checkpoint: the directory first, complete only later.
MakeCheckpoint ==
    /\ child.at = "mkdir" /\ At("write")
    /\ disk' = [s \in DOMAIN disk \cup {child.step} |-> IF s = child.step THEN "new" ELSE disk[s]]
    /\ UNCHANGED <<pipe, last, saved>> /\ Child

WriteCheckpoint ==
    /\ child.at = "write" /\ At("unlink") /\ disk' = [disk EXCEPT ![child.step] = "full"]
    /\ UNCHANGED <<pipe, last, saved>> /\ Child

\* update_last_checkpoint: unlink, then symlink.
Unlink ==
    /\ child.at = "unlink" /\ At("link") /\ last' = 0
    /\ UNCHANGED <<pipe, disk, saved>> /\ Child

Link ==
    /\ child.at = "link" /\ At("train") /\ last' = child.step /\ saved' = child.step
    /\ UNCHANGED <<pipe, disk>> /\ Child

Finish ==
    /\ child.at = "train" /\ child.step = Steps
    /\ child' = [child EXCEPT !.at = "gone", !.rc = 0]
    /\ UNCHANGED <<pipe, disk, last, saved>> /\ Child

\* SIGTERM ends it wherever it is; train.py reports 128 + 15.
ChildDies ==
    /\ Alive /\ term.child
    /\ child' = [child EXCEPT !.at = "gone", !.rc = 143] /\ term' = [term EXCEPT !.child = FALSE]
    /\ UNCHANGED <<requestVars, job, dir, pc, mainVars, pipe, disk, last, saved, file, metrics, page>>

-----------------------------------------------------------------------------
(* lab: the runner and the page.                                           *)

\* executor.stop: SIGTERM to the process group, which exists once the job runs.
Stop ==
    /\ job = "active" /\ Running
    /\ job' = "stopping" /\ term' = [main |-> TRUE, child |-> Alive]
    /\ UNCHANGED <<requestVars, dir, pc, mainVars, childVars, file, metrics, page>>

\* Only the leader of the group.
KilledLeader ==
    /\ pc' = "killed" /\ rc' = 137 /\ term' = [main |-> FALSE, child |-> FALSE]
    /\ UNCHANGED <<requestVars, job, dir, args, line, mem, tmp, out, childVars, file, metrics, page>>

\* SIGKILL to the process group.
Killed ==
    /\ pc' = "killed" /\ rc' = 137 /\ term' = [main |-> FALSE, child |-> FALSE]
    /\ child' = IF Alive THEN [child EXCEPT !.at = "gone", !.rc = 137] ELSE child
    /\ UNCHANGED <<requestVars, job, dir, args, line, mem, tmp, out, pipe, disk, last, saved,
                   file, metrics, page>>

\* After its grace period the runner sends SIGKILL to the group.
RunnerKills == job = "stopping" /\ Running /\ Killed

\* So may the OOM killer, an administrator or a reboot.
OutsideKill == job = "active" /\ Running /\ Killed

StopReturns ==
    /\ job = "stopping" /\ pc \in Ended /\ job' = "stopped"
    /\ UNCHANGED <<requestVars, dir, pc, mainVars, term, childVars, file, metrics, page>>

\* refresh finds the process gone.
JobEnds ==
    /\ job = "active" /\ pc \in {"over", "killed"} /\ job' = IF rc = 0 THEN "done" ELSE "failed"
    /\ UNCHANGED <<requestVars, dir, pc, mainVars, term, childVars, file, metrics, page>>

\* Complete lines from an offset, counted in halves of lines: one whose first
\* half was read before is not JSON and is dropped.
LinesFrom(offset) ==
    SubSeq(metrics.lines, (offset + 1) \div 2 + 1, Len(metrics.lines))

EndOfFile == 2 * Len(metrics.lines) + (IF metrics.half THEN 1 ELSE 0)
\* The offset to ask for next: a last line without a newline is still being written.
NextOffset == 2 * Len(metrics.lines)

\* read_metrics
PageReads ==
    /\ page.offset < EndOfFile
    /\ page' = [lines |-> page.lines \o LinesFrom(page.offset), offset |-> NextOffset]
    /\ UNCHANGED <<requestVars, job, dir, pc, mainVars, term, childVars, file, metrics>>

\* A run that is over and could not say so was stopped.
RunStateOver ==
    LET word == file.status.word
    IN  IF word = "" THEN IF job \in {"active", "stopping"} THEN "starting" ELSE job
        ELSE IF word = "running" /\ job \notin {"active", "stopping"} THEN "stopped"
        ELSE word

JobActive == job \in {"active", "stopping"}

\* run_state: what the page shows of a run whose directory is its own.
RunState ==
    LET word == file.status.word
    IN  IF word = "" THEN IF JobActive THEN "starting" ELSE job
        ELSE IF word = "running" /\ ~JobActive
             THEN IF job = "stopped" THEN "stopped" ELSE "ended_unknown"
        ELSE word

-----------------------------------------------------------------------------

Launch == RefuseLaunch \/ Admit \/ MakeDir \/ Guard \/ Open \/ Opened \/ Spawn \/ Spawned
          \/ SpawnFails \/ Failed
Follow == TakeLine \/ EndOfLog \/ WriteMetrics \/ Announce \/ Prune \/ List \/ Note \/ Noted
          \/ WriteResult \/ Close
Lerobot == Boot \/ Train \/ Fail \/ SaveLine \/ MakeCheckpoint \/ WriteCheckpoint \/ Unlink
           \/ Link \/ Finish
Signals == OnSignal \/ DieOfSignal \/ ChildDies
Lab == Check \/ Submit \/ Stop \/ StopReturns \/ JobEnds \/ PageReads

\* The run has ended, one way or another.
Rest == pc \in Ended \cup {"refused"} /\ UNCHANGED vars

Next == Lab \/ Rival \/ Launch \/ Follow \/ Signals \/ Lerobot \/ RunnerKills \/ OutsideKill \/ Rest

\* Processes that may step do, signals arrive and the runner's grace period ends.
\* Nothing is assumed of lerobot, which trains for hours.
Fairness ==
    /\ WF_vars(Launch) /\ WF_vars(Follow) /\ WF_vars(Signals)
    /\ WF_vars(RunnerKills) /\ WF_vars(StopReturns)

Spec == Init /\ [][Next]_vars /\ Fairness

-----------------------------------------------------------------------------

\* Whatever lerobot is saving while train.py prunes, the newest checkpoint that
\* `last` ever pointed to stays whole, and the weights of the steps to keep stay
\* too (train.py, prune_checkpoints and read_last_step).
ResumePointKept ==
    saved # 0 =>
        /\ saved \in DOMAIN disk /\ disk[saved] = "full"
        /\ \A s \in Keep \cap SavedSteps(args) : s <= saved => s \in DOMAIN disk
        /\ ~args.prune_checkpoints.is =>
               \A s \in SavedSteps(args) : s <= saved => s \in DOMAIN disk /\ disk[s] = "full"

\* CHECKPOINT lines name complete checkpoints, in order and once, though `last` may
\* move several saves between two looks and pruning removes some in between; when
\* lerobot finishes, every save has had its line (train.py, refresh_checkpoints).
Announced ==
    /\ \A i, j \in 1..Len(out) : i < j => out[i] < out[j]
    /\ \A i \in 1..Len(out) : out[i] \in SavedSteps(args) /\ out[i] <= saved
    /\ pc = "over" /\ child.rc = 0 => {out[i] : i \in 1..Len(out)} = SavedSteps(args)

\* The page never says done unless lerobot finished and checkpoints.json lists what
\* is on disk, the last checkpoint complete and with its training state; it says
\* stopped only of a run somebody stopped, and failed only if lerobot failed. A run
\* that ended by itself says the same in both files (train.py, _Run.run and on_signal;
\* training.py, run_state).
PageTruth ==
    dir = "ours" =>
        /\ RunState = "done" =>
               /\ child.rc = 0 /\ last = Steps
               /\ file.list = Listing(Steps)
               /\ [step |-> Steps, complete |-> TRUE, state |-> TRUE, last |-> TRUE] \in file.list
        /\ RunState = "stopped" => job \in {"stopping", "stopped"}
        /\ RunState = "failed" => child.rc > 0 \/ child.at = "none" \/ job = "failed"
        /\ pc = "over" /\ rc \notin {2, 127} => file.status.word = file.result.word

\* The page gets each record of metrics.jsonl once and in order, with the step
\* lerobot logged, though it may read a line that is being written and lerobot
\* rounds its steps (training.py, read_metrics; train.py, resolve_step).
MetricsExact ==
    \A i \in 1..Len(page.lines) : page.lines[i] = i * args.log_freq.is

\* The process that trains runs with the options that were checked, and not with a
\* default for one the explicit command leaves out (train.py, job_command).
RunsAsChecked ==
    pc \notin Before => args = Parsed(Resolved(Req))

\* A stop ends, with no process of the run left, wherever it catches train.py and
\* whether or not lerobot ever makes a step (train.py, on_signal; executors, stop).
StopEnds == (job = "stopping") ~> (job = "stopped" /\ ~Alive)

\* Said of --output at train.py:515: past runs are never overwritten.
PastRunsKept == pc # "clashed"

=============================================================================
