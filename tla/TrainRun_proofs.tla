---------------------------- MODULE TrainRun_proofs ----------------------------
(***************************************************************************)
(* Proofs about TrainRun, for any requests, any world they meet, any       *)
(* capacity of the pipe and any rounding of lerobot's steps: what runs is  *)
(* what was checked, a checkpoint to resume from is kept, and the page     *)
(* gets the steps lerobot logged.                                          *)
(***************************************************************************)
EXTENDS TrainRun, FiniteSetTheorems, SequenceTheorems, WellFoundedInduction, TLAPS

-------------------------------------------------------------------------------
(* From the form to the command line and back.                             *)

\* The options of train.py.
OptionNames ==
    {"method", "dataset", "dataset_root", "seed", "output", "steps", "batch_size", "save_freq",
     "warmup_steps", "log_freq", "keep_checkpoints", "prune_checkpoints", "wandb", "base", "fake",
     "fake_fail"}

OptionIs(p, group, type) == Option[p].group = group /\ Option[p].type = type
\* The groups and the types of the options.
LEMMA OptionsAre ==
    /\ DOMAIN Option = OptionNames
    /\ OptionIs("method", "basic", "string") /\ OptionIs("dataset", "basic", "string")
    /\ OptionIs("dataset_root", "basic", "string") /\ OptionIs("output", "basic", "string")
    /\ OptionIs("seed", "basic", "int") /\ OptionIs("steps", "basic", "int")
    /\ OptionIs("batch_size", "basic", "int") /\ OptionIs("save_freq", "basic", "int")
    /\ OptionIs("warmup_steps", "advanced", "int") /\ OptionIs("log_freq", "advanced", "int")
    /\ OptionIs("keep_checkpoints", "advanced", "int_list")
    /\ OptionIs("prune_checkpoints", "advanced", "bool") /\ OptionIs("wandb", "advanced", "bool")
    /\ OptionIs("base", "fixed", "string")
    /\ OptionIs("fake", "fake", "flag")
    /\ OptionIs("fake_fail", "fake", "string")
  <1> USE DEF Opt, Needed
  <1>1. DOMAIN Option = OptionNames
    BY DEF Option, OptionNames
  <1>2. /\ OptionIs("method", "basic", "string") /\ OptionIs("dataset", "basic", "string")
        /\ OptionIs("dataset_root", "basic", "string") /\ OptionIs("output", "basic", "string")
    BY DEF Option, OptionIs
  <1>3. /\ OptionIs("seed", "basic", "int") /\ OptionIs("steps", "basic", "int")
        /\ OptionIs("batch_size", "basic", "int") /\ OptionIs("save_freq", "basic", "int")
    BY DEF Option, OptionIs
  <1>4. OptionIs("warmup_steps", "advanced", "int") /\ OptionIs("log_freq", "advanced", "int")
    BY DEF Option, OptionIs
  <1>5. OptionIs("keep_checkpoints", "advanced", "int_list")
    BY DEF Option, OptionIs
  <1>6. OptionIs("prune_checkpoints", "advanced", "bool") /\ OptionIs("wandb", "advanced", "bool")
    BY DEF Option, OptionIs
  <1>7. OptionIs("base", "fixed", "string")
    BY DEF Option, OptionIs
  <1>8. OptionIs("fake", "fake", "flag")
    BY DEF Option, OptionIs
  <1>9. OptionIs("fake_fail", "fake", "string")
    BY DEF Option, OptionIs
  <1> QED BY <1>1, <1>2, <1>3, <1>4, <1>5, <1>6, <1>7, <1>8, <1>9
\* The defaults and the bounds that the proofs need.
LEMMA DefaultsAre ==
    /\ Option["fake"].default = Flag(FALSE) /\ Option["keep_checkpoints"].default = Ints({})
    /\ Option["prune_checkpoints"].default = Flag(TRUE)
    /\ Option["steps"].default = Int2(5) /\ Option["save_freq"].default = Int2(2)
    /\ Option["log_freq"].default = Int2(2)
    /\ Option["steps"].min = 1 /\ Option["save_freq"].min = 1 /\ Option["log_freq"].min = 1
  BY DEF Option, Opt

\* Which options are the fake backend's, flags and lists.
LEMMA OptionKinds ==
    ASSUME NEW p \in DOMAIN Option
    PROVE  /\ Option[p].group = "fake" <=> p \in {"fake", "fake_fail"}
           /\ Option[p].type = "flag" <=> p = "fake"
           /\ Option[p].type = "int_list" <=> p = "keep_checkpoints"
           /\ Option[p].type \in {"string", "int", "bool", "int_list", "flag"}
  BY OptionsAre DEF OptionNames, OptionIs

\* What a request resolves to is what the form says, once it is not malformed.
LEMMA ResolvedAre ==
    ASSUME NEW r, ~Malformed(r), NEW p \in DOMAIN Resolved(r)
    PROVE  /\ p \in DOMAIN Option
           /\ \/ p \in {"dataset", "dataset_root", "output"} /\ Resolved(r)[p].kind = "string"
              \/ p = "fake" /\ r.fake /\ Resolved(r)[p] = Flag(TRUE)
              \/ /\ p \in DOMAIN r.params \ LabParams /\ Given(r.params[p])
                 /\ Resolved(r)[p] = r.params[p] /\ ValidOption(Option[p], r.params[p])
                 /\ p = "fake_fail" => r.fake
  <1> DEFINE lab == [dataset |-> Str("local"), dataset_root |-> Str("root"), output |-> Str("run")]
             form == {q \in DOMAIN r.params : Given(r.params[q])}
  <1>1. /\ DOMAIN Resolved(r) = form \cup DOMAIN lab \cup {f \in {"fake"} : r.fake}
        /\ Resolved(r)[p] = IF p \in DOMAIN lab THEN lab[p] ELSE IF p = "fake" THEN Flag(TRUE)
                            ELSE r.params[p]
    BY DEF Resolved
  <1>2. DOMAIN lab = {"dataset", "dataset_root", "output"} /\ \A q \in DOMAIN lab : lab[q].kind = "string"
    BY DEF Str
  <1> HIDE DEF lab
  <1>3. ASSUME p \in form
        PROVE  /\ p \in DOMAIN Option \ LabParams /\ ValidOption(Option[p], r.params[p])
               /\ Option[p].group = "fake" => r.fake
    BY <1>3 DEF Malformed
  <1>4. CASE p \in form
    <2>1. p \notin DOMAIN lab /\ p # "fake"
      BY <1>2, <1>3, <1>4 DEF LabParams
    <2> QED
      BY <1>1, <1>3, <1>4, <2>1, OptionKinds
  <1>5. CASE p \notin form
    <2>1. p \in DOMAIN lab \/ (p = "fake" /\ r.fake)
      BY <1>1, <1>5
    <2>2. CASE p \in DOMAIN lab
      BY <1>1, <1>2, <2>2, OptionsAre DEF OptionNames
    <2>3. CASE p \notin DOMAIN lab
      BY <1>1, <1>2, <2>1, <2>3, OptionsAre DEF OptionNames
    <2> QED
      BY <2>2, <2>3
  <1> QED
    BY <1>4, <1>5

\* The explicit command leaves out an option only where its default is meant.
LEMMA CommandIsExplicit ==
    ASSUME NEW r, ~Malformed(r), \A p \in DOMAIN r.params : IsValue(r.params[p])
    PROVE  Parsed(JobCommand(Parsed(Resolved(r)))) = Parsed(Resolved(r))
  <1> DEFINE a == Parsed(Resolved(r))
             c == JobCommand(a)
  <1>1. /\ DOMAIN a = DOMAIN Option
        /\ \A p \in DOMAIN Option :
              a[p] = IF p \in DOMAIN Resolved(r) THEN Resolved(r)[p] ELSE Option[p].default
    BY DEF Parsed
  <1>2. a.fake.is = FALSE => ~r.fake
    <2>1. r.fake => "fake" \in DOMAIN Resolved(r) /\ Resolved(r)["fake"] = Flag(TRUE)
      BY DEF Resolved
    <2> QED
      BY <1>1, <2>1, OptionsAre DEF Flag, OptionNames
  <1> HIDE DEF a
  <1>0. "fake" \in DOMAIN Option
    BY OptionsAre DEF OptionNames
  <1>f. a.fake.is \in BOOLEAN
    <2>1. CASE "fake" \in DOMAIN Resolved(r)
      <3>1. Resolved(r)["fake"] = Flag(TRUE)
        BY <2>1, ResolvedAre DEF LabParams
      <3>2. a["fake"] = Flag(TRUE)
        BY <1>0, <1>1, <2>1, <3>1
      <3>f. Flag(TRUE).is = TRUE
        BY DEF Flag
      <3> QED
        BY <3>2, <3>f, Zenon
    <2>2. CASE "fake" \notin DOMAIN Resolved(r)
      <3>1. a["fake"] = Flag(FALSE)
        BY <1>0, <1>1, <2>2, DefaultsAre
      <3>f. Flag(FALSE).is = FALSE
        BY DEF Flag
      <3> QED
        BY <3>1, <3>f, Zenon
    <2> QED
      BY <2>1, <2>2
  <1>3. /\ \A p \in DOMAIN c : p \in DOMAIN Option /\ c[p] = a[p]
        /\ \A p \in DOMAIN Option \ DOMAIN c :
              \/ Option[p].group = "fake" /\ ~a.fake.is
              \/ ~Given(a[p]) \/ Empty(a[p])
              \/ Option[p].type = "flag" /\ ~a[p].is
    BY <1>1 DEF JobCommand
  <1> HIDE DEF c
  <1>4. ASSUME NEW p \in DOMAIN Option, p \notin DOMAIN c PROVE a[p] = Option[p].default
    <2> SUFFICES ASSUME p \in DOMAIN Resolved(r) PROVE a[p] = Option[p].default
      BY <1>1
    <2>1. a[p] = Resolved(r)[p]
      BY <1>1
    <2>2. CASE p \in {"dataset", "dataset_root", "output"} /\ Resolved(r)[p].kind = "string"
      BY <1>3, <1>4, <2>1, <2>2, OptionsAre DEF OptionNames, OptionIs, Given, Empty
    <2>3. CASE p = "fake" /\ r.fake /\ Resolved(r)[p] = Flag(TRUE)
      <3>1. a[p].is /\ a[p].kind = "bool"
        BY <2>1, <2>3 DEF Flag
      <3> QED
        BY <1>2, <1>3, <1>4, <1>f, <2>3, <3>1, OptionKinds DEF Given, Empty
    <2>4. CASE /\ p \in DOMAIN r.params \ LabParams /\ Given(r.params[p])
               /\ Resolved(r)[p] = r.params[p] /\ ValidOption(Option[p], r.params[p])
               /\ p = "fake_fail" => r.fake
      <3>1. Given(a[p]) /\ p # "fake" /\ (p = "fake_fail" => a.fake.is)
        BY <1>2, <1>f, <2>1, <2>4 DEF LabParams
      <3>2. Empty(a[p])
        BY <1>3, <1>4, <3>1, OptionKinds
      <3>3. p = "keep_checkpoints"
        BY <2>1, <2>4, <3>2, OptionKinds DEF Empty, ValidOption
      <3>4. a[p] = Ints({})
        <4> DEFINE v == r.params[p]
        <4>1. v = [kind |-> v.kind, is |-> v.is] /\ v.kind = "int_list" /\ v.is = {} /\ a[p] = v
          BY <2>1, <2>4, <3>2 DEF Empty, IsValue
        <4> QED
          BY <4>1 DEF Ints
      <3> QED
        BY <3>3, <3>4, DefaultsAre
    <2> QED
      BY <2>2, <2>3, <2>4, ResolvedAre
  <1>5. \A p \in DOMAIN Option : (IF p \in DOMAIN c THEN c[p] ELSE Option[p].default) = a[p]
    BY <1>3, <1>4
  <1>6. a = [p \in DOMAIN Option |-> a[p]]
    BY DEF a, Parsed
  <1>7. Parsed(c) = a
    BY <1>5, <1>6 DEF Parsed
  <1> QED
    BY <1>7 DEF c, a
-------------------------------------------------------------------------------
(* Who may have been started, and with which options.                      *)

Unstarted == {"queued", "free", "starting", "begin", "opening", "begun", "failing"}

\* The command line is the one that was checked, from the answer to the end.
Asked ==
    /\ scenario \in Scenarios
    /\ pc = "asked" => "code" \in DOMAIN answer /\ answer.code = 0
    /\ pc = "checked" =>
          ~Malformed(Req) /\ answer.command = JobCommand(Parsed(Resolved(Req)))
    /\ pc \in Before => args = Parsed(<<>>)
    /\ pc \notin Before => ~Malformed(Req) /\ args = Parsed(Resolved(Req))

\* Nothing of lerobot exists before train.py has started it.
NotYet ==
    /\ pc \in Before \cup Unstarted =>
          child.at = "none" /\ mem.prev = 0 /\ mem.seen = 0 /\ mem.status.ckpt = 0
    /\ child.at = "none" =>
          /\ child.step = 0 /\ pipe = <<>> /\ DOMAIN disk = {}
          /\ last = 0 /\ saved = 0

Saving == {"save", "mkdir", "write", "unlink", "link"}

\* lerobot saves its steps in order; `last` follows, and train.py's copy of it.
SavesInOrder ==
    /\ child.step \in 0..Steps /\ saved \in 0..child.step /\ mem.seen \in 0..saved
    /\ last \in {0, saved}
    /\ child.at \in Saving => child.step \in SavedSteps(args) /\ saved < child.step
    /\ \A s \in SavedSteps(args) : s <= child.step =>
          s <= saved \/ (s = child.step /\ child.at \in Saving \cup {"gone"})

\* What is on disk: steps that were to be saved, the one under way included.
OnDisk ==
    /\ DOMAIN disk \subseteq SavedSteps(args)
    /\ disk = [s \in DOMAIN disk |-> disk[s]]
    /\ child.at = "write" => child.step \in DOMAIN disk
    /\ child.at \in {"unlink", "link"} => child.step \in DOMAIN disk /\ disk[child.step] = "full"
    /\ pc = "prune" => args.prune_checkpoints.is
    /\ ResumePointKept

Freq == args.log_freq.is

\* The steps the lines of the pipe tell of: from the last one train.py has
\* resolved, each metrics line log_freq after the one before.
Tells(st, prev, lines) ==
    /\ st[0] = prev
    /\ \A i \in DOMAIN lines :
          IF lines[i].kind = "metrics"
          THEN /\ st[i] = st[i - 1] + 1
               /\ lines[i].token = Token(st[i] * Freq) /\ (lines[i].rounded <=> st[i] * Freq >= Kilo)
          ELSE st[i] = st[i - 1]

\* The number of metrics records that train.py has resolved.
RecordsResolved == Len(metrics.lines) + (IF pc \in {"metrics", "half"} THEN 1 ELSE 0)

\* The pipe's lines tell of the steps from there to where lerobot is.
PipeTells ==
    \E st \in [0..Len(pipe) -> Nat] :
        /\ Tells(st, RecordsResolved, pipe)
        /\ st[Len(pipe)] * Freq <= child.step /\ child.step < (st[Len(pipe)] + 1) * Freq

IsLine(l) == {"kind", "step"} \subseteq DOMAIN l
PipeTyped == (\E S : pipe \in Seq(S)) /\ \A i \in DOMAIN pipe : IsLine(pipe[i])

\* metrics.jsonl has every step that was logged, and the page a first part of it.
FilesTell ==
    /\ DOMAIN metrics = {"lines", "half"} /\ metrics.lines \in Seq(Nat) /\ page.lines \in Seq(Nat)
    /\ \A i \in 1..Len(metrics.lines) : metrics.lines[i] = i * Freq
    /\ page.offset = 2 * Len(page.lines) /\ Len(page.lines) <= Len(metrics.lines)
    /\ MetricsExact
    /\ pc \in Before \cup Unstarted => metrics.lines = <<>>

MetricsFollow ==
    /\ FilesTell /\ PipeTyped
    /\ pc \in {"metrics", "half"} => line.step = mem.prev
    /\ pc \notin Ended => mem.prev = RecordsResolved * Freq /\ PipeTells
\* The records keep their fields.
Shapes ==
    /\ DOMAIN mem = {"status", "stop", "prev", "seen", "oom", "wandb"}
    /\ DOMAIN mem.status = {"word", "step", "ckpt", "failure"}
    /\ DOMAIN child = {"at", "step", "rc"}

\* A step that only moves train.py on, before or after lerobot runs.
Quiet ==
    /\ UNCHANGED <<scenario, answer, args, childVars>>
    /\ mem'.prev = mem.prev /\ mem'.seen = mem.seen /\ mem'.status.ckpt = mem.status.ckpt
    /\ pc \in Before <=> pc' \in Before
    /\ pc' \in Before \cup Unstarted => pc \in Before \cup Unstarted
    /\ pc' \in {"asked", "checked"} => pc' = pc
    /\ pc' = "prune" => pc = "prune"

\* What lab and the runner do besides the request.
LEMMA LabQuiet ==
    ASSUME Shapes, Rival \/ Stop \/ StopReturns \/ JobEnds \/ PageReads \/ UNCHANGED vars
    PROVE  /\ Quiet /\ Shapes' /\ UNCHANGED <<mem, line, metrics, out>> /\ pc' = pc
           /\ PageReads \/ UNCHANGED page
  BY DEF Shapes, Quiet, Rival, Stop, StopReturns, JobEnds, PageReads, vars, mainVars, childVars,
         requestVars

\* train.py up to lerobot's start, and where it fails to start.
LEMMA LaunchQuiet ==
    ASSUME Shapes, NotYet, Launch, ~Spawn
    PROVE  /\ Quiet /\ Shapes' /\ UNCHANGED <<line, metrics, out, page>>
           /\ pc \notin Ended \cup {"metrics", "half"} /\ pc' \notin {"metrics", "half"}
  <1> USE DEF Shapes, Quiet, mainVars, childVars, requestVars, Before, Unstarted, Ended, Goto
  <1>1. CASE RefuseLaunch \/ Admit \/ MakeDir \/ Spawned
    BY <1>1 DEF RefuseLaunch, Admit, MakeDir, Spawned
  <1>2. CASE Guard
    BY <1>2 DEF Guard, NewMem, NoMem, NoStatus, NotYet
  <1>3. CASE Open \/ Opened
    BY <1>3 DEF Open, Opened, ComposeStatus, ReplaceStatus
  <1>4. CASE SpawnFails \/ Failed
    BY <1>4 DEF SpawnFails, Failed, ComposeStatus, ReplaceStatus
  <1> QED
    BY <1>1, <1>2, <1>3, <1>4 DEF Launch

\* What train.py writes to its own files.
LEMMA FollowQuiet ==
    ASSUME Shapes, EndOfLog \/ WriteMetrics \/ List \/ Note \/ Noted \/ WriteResult \/ Close
    PROVE  /\ Quiet /\ Shapes' /\ UNCHANGED <<out, page>> /\ pc \notin Ended \cup Before \cup Unstarted
           /\ \/ WriteMetrics
              \/ pc # "metrics" /\ pc # "half" /\ pc' \notin {"metrics", "half"} /\ UNCHANGED metrics
  <1> USE DEF Shapes, Quiet, mainVars, childVars, requestVars, Before, Unstarted, Ended, Goto
  <1>1. CASE EndOfLog \/ WriteMetrics \/ List \/ Close
    BY <1>1 DEF EndOfLog, WriteMetrics, List, Close
  <1>2. CASE Note \/ Noted
    BY <1>2 DEF Note, Noted, ComposeStatus, ReplaceStatus
  <1>3. CASE WriteResult
    BY <1>3 DEF WriteResult
  <1> QED
    BY <1>1, <1>2, <1>3

\* A signal that train.py handles or dies of.
LEMMA SignalQuiet ==
    ASSUME Shapes, OnSignal \/ DieOfSignal
    PROVE  Quiet /\ Shapes' /\ UNCHANGED <<line, metrics, out, page>> /\ pc' \in {pc, "killed"}
  <1> USE DEF Shapes, Quiet, mainVars, childVars, requestVars, Before, Unstarted
  <1>1. CASE OnSignal
    BY <1>1 DEF OnSignal
  <1>2. CASE DieOfSignal
    BY <1>2 DEF DieOfSignal, Running
  <1> QED
    BY <1>1, <1>2

\* lerobot and its end touch nothing of train.py's.
LEMMA ChildSteps ==
    ASSUME Shapes, Lerobot \/ ChildDies \/ RunnerKills \/ OutsideKill
    PROVE  /\ UNCHANGED <<scenario, answer, args, mem, line, metrics, page, out>>
           /\ DOMAIN child' = {"at", "step", "rc"}
           /\ pc' = pc \/ (pc' = "killed" /\ pc \notin Before)
  <1> USE DEF Shapes, mainVars, requestVars, Before, Child
  <1>1. CASE Boot \/ Train \/ Fail \/ SaveLine
    BY <1>1 DEF Boot, Train, Fail, SaveLine, At
  <1>2. CASE MakeCheckpoint \/ WriteCheckpoint \/ Unlink \/ Link \/ Finish
    BY <1>2 DEF MakeCheckpoint, WriteCheckpoint, Unlink, Link, Finish, At
  <1>3. CASE ChildDies
    BY <1>3 DEF ChildDies
  <1>4. CASE RunnerKills \/ OutsideKill
    BY <1>4 DEF RunnerKills, OutsideKill, Killed, Running
  <1> QED
    BY <1>1, <1>2, <1>3, <1>4 DEF Lerobot

\* train.py starts lerobot, takes a line, reads `last` and prunes.
LEMMA MainSteps ==
    ASSUME Shapes, Spawn \/ TakeLine \/ Announce \/ Prune
    PROVE  /\ UNCHANGED <<scenario, answer, args>> /\ Shapes'
           /\ pc \notin Before \cup {"killed"} /\ pc' \notin Before \cup {"killed"}
  <1> USE DEF Shapes, mainVars, requestVars, childVars, Before, Goto
  <1>1. CASE Spawn
    BY <1>1 DEF Spawn
  <1>2. CASE TakeLine
    BY <1>2 DEF TakeLine, NoLine
  <1>3. CASE Announce
    BY <1>3 DEF Announce
  <1>4. CASE Prune
    BY <1>4 DEF Prune
  <1> QED
    BY <1>1, <1>2, <1>3, <1>4

\* A request that is not malformed, and only such a one, comes to run.
LEMMA AskedKept ==
    ASSUME Asked, Shapes, NotYet, [Next]_vars
    PROVE  Asked'
  <1>1. CASE Check
    <2>1. /\ pc = "asked" /\ UNCHANGED <<scenario, args>>
          /\ pc' = IF answer'.code = 201 THEN "checked" ELSE "refused"
      BY <1>1 DEF Check, mainVars
    <2>2. CASE Malformed(Req)
      <3>1. answer' = [answer EXCEPT !.code = 400]
        BY <1>1, <2>2 DEF Check, Answer
      <3>2. answer'.code = 400
        BY <2>1, <3>1 DEF Asked
      <3> QED
        BY <2>1, <3>2 DEF Asked, Before
    <2>3. CASE ~Malformed(Req)
      <3>1. answer'.code = 201 => answer'.command = JobCommand(Parsed(Resolved(Req)))
        BY <1>1, <2>3 DEF Check, Answer
      <3> QED
        BY <2>1, <2>3, <3>1 DEF Asked, Before, Req
    <2> QED
      BY <2>2, <2>3
  <1>2. CASE Submit
    <2>1. /\ ~Malformed(Req) /\ pc = "checked" /\ pc' = "queued" /\ UNCHANGED <<scenario, answer>>
          /\ args' = Parsed(JobCommand(Parsed(Resolved(Req))))
      BY <1>2 DEF Submit, Asked, requestVars
    <2>2. \A p \in DOMAIN Req.params : IsValue(Req.params[p])
      BY TrainAssumption DEF Asked, Req
    <2>3. args' = Parsed(Resolved(Req))
      BY <2>1, <2>2, CommandIsExplicit
    <2> QED
      BY <2>1, <2>3 DEF Asked, Before, Req
  <1>3. CASE Quiet
    BY <1>3 DEF Quiet, Asked, Req, Before
  <1>4. CASE Lerobot \/ ChildDies \/ RunnerKills \/ OutsideKill
    BY <1>4, ChildSteps DEF Asked, Req, Before
  <1>5. CASE Spawn \/ TakeLine \/ Announce \/ Prune
    BY <1>5, MainSteps DEF Asked, Req, Before
  <1> QED
    BY <1>1, <1>2, <1>3, <1>4, <1>5, LabQuiet, LaunchQuiet, FollowQuiet, SignalQuiet
       DEF Next, Lab, Launch, Follow, Signals, Rest

\* Steps and frequencies are whole and positive, given or by default.
LEMMA ArgsKnown ==
    Asked => Steps \in Nat \ {0} /\ args.save_freq.is \in Nat \ {0} /\ Freq \in Nat \ {0}
  <1> HAVE Asked
  <1>1. ASSUME NEW p \in {"steps", "save_freq", "log_freq"}
        PROVE  args[p].is \in Nat \ {0}
    <2>1. /\ p \in DOMAIN Option /\ Option[p].type = "int" /\ Option[p].min = 1
          /\ Option[p].default \in {Int2(5), Int2(2)}
          /\ p \notin {"dataset", "dataset_root", "output", "fake"}
      BY OptionsAre, DefaultsAre DEF OptionNames, OptionIs
    <2>2. args[p] = Option[p].default => args[p].is \in Nat \ {0}
      BY <2>1 DEF Int2
    <2>3. CASE pc \in Before
      <3>1. args[p] = Option[p].default
        BY <2>1, <2>3 DEF Asked, Parsed
      <3> QED
        BY <2>2, <3>1
    <2>4. CASE pc \notin Before
      <3>1. ~Malformed(Req) /\ args = Parsed(Resolved(Req))
        BY <2>4 DEF Asked
      <3>2. args[p] = IF p \in DOMAIN Resolved(Req) THEN Resolved(Req)[p] ELSE Option[p].default
        BY <2>1, <3>1 DEF Parsed
      <3>3. CASE p \in DOMAIN Resolved(Req)
        <4>1. /\ p \in DOMAIN Req.params /\ args[p] = Req.params[p]
              /\ ValidOption(Option[p], Req.params[p])
          BY <2>1, <3>1, <3>2, <3>3, ResolvedAre
        <4>2. IsValue(Req.params[p])
          BY <4>1, TrainAssumption DEF Asked, Req
        <4>3. args[p].kind = "int" /\ args[p].is >= 1
          BY <2>1, <4>1 DEF ValidOption
        <4> QED
          BY <4>1, <4>2, <4>3 DEF IsValue
      <3> QED
        BY <2>2, <3>2, <3>3
    <2> QED
      BY <2>3, <2>4
  <1> QED
    BY <1>1 DEF Steps, Freq

\* SavedSteps, without its arithmetic.
LEMMA SavedStepsAre ==
    Asked => SavedSteps(args) \subseteq 1..Steps /\ Steps \in SavedSteps(args)
  <1> HAVE Asked
  <1>1. Steps \in Nat \ {0}
    BY ArgsKnown
  <1> QED
    BY <1>1 DEF SavedSteps, Steps

-------------------------------------------------------------------------------
(* The checkpoint to resume from.                                          *)

\* A set of numbers that is not empty has a least member.
LEMMA LeastOf ==
    ASSUME NEW S, S \subseteq Nat, S # {}
    PROVE  \E s \in S : \A t \in S : s <= t
  <1>1. PICK x \in S : \A y \in S : <<y, x>> \notin OpToRel(<, Nat)
    BY NatLessThanWellFounded, WFMin
  <1>2. \A y \in S : ~(y < x)
    BY <1>1 DEF OpToRel
  <1> QED
    BY <1>2

\* What every step keeps of lerobot's checkpoints.
Checkpoints == Asked /\ Shapes /\ NotYet /\ SavesInOrder /\ OnDisk

\* A step of train.py or lab beside them.
LEMMA QuietCheckpoints ==
    ASSUME Checkpoints, Quiet
    PROVE  NotYet' /\ SavesInOrder' /\ OnDisk'
  BY DEF Checkpoints, NotYet, SavesInOrder, OnDisk, ResumePointKept, Quiet, childVars, Steps, Keep,
         Before, Unstarted

\* The request is answered and the job queued; lerobot is not there yet.
LEMMA RequestCheckpoints ==
    ASSUME Checkpoints, Asked', Check \/ Submit
    PROVE  Shapes' /\ NotYet' /\ SavesInOrder' /\ OnDisk'
  <1>1. /\ pc \in Before /\ pc' \in Before \cup Unstarted /\ pc' # "prune"
        /\ UNCHANGED <<mem, child, pipe, disk, last, saved>>
    BY DEF Check, Submit, mainVars, childVars, Before, Unstarted
  <1>2. Shapes' /\ NotYet'
    BY <1>1 DEF Checkpoints, Shapes, NotYet
  <1>3. child.at = "none" /\ child.step = 0 /\ last = 0 /\ saved = 0 /\ DOMAIN disk = {} /\ mem.seen = 0
    BY <1>1 DEF Checkpoints, NotYet
  <1>4. Steps' \in Nat \ {0}
    <2>1. (Asked => Steps \in Nat \ {0} /\ args.save_freq.is \in Nat \ {0} /\ Freq \in Nat \ {0})'
      BY ArgsKnown, PTL
    <2> QED
      BY <2>1
  <1>7. SavedSteps(args') \subseteq 1..Steps'
    <2>1. (Asked => SavedSteps(args) \subseteq 1..Steps /\ Steps \in SavedSteps(args))'
      BY SavedStepsAre, PTL
    <2> QED
      BY <2>1
  <1>5. SavesInOrder'
    BY <1>1, <1>3, <1>4, <1>7 DEF SavesInOrder, Saving
  <1>6. OnDisk'
    BY <1>1, <1>3 DEF Checkpoints, OnDisk, ResumePointKept
  <1> QED
    BY <1>2, <1>5, <1>6

\* Popen: lerobot is there, and has done nothing.
LEMMA SpawnCheckpoints ==
    ASSUME Checkpoints, Spawn
    PROVE  Shapes' /\ NotYet' /\ SavesInOrder' /\ OnDisk'
  <1>1. /\ child' = [child EXCEPT !.at = "boot"] /\ pc' = "spawning"
        /\ UNCHANGED <<args, mem, pipe, disk, last, saved>> /\ child.at = "none"
    BY DEF Spawn, mainVars, Goto, Checkpoints, NotYet, Unstarted
  <1>2. child'.at = "boot" /\ child'.step = child.step /\ DOMAIN child' = DOMAIN child
    BY <1>1 DEF Checkpoints, Shapes
  <1> QED
    BY <1>1, <1>2 DEF Checkpoints, Shapes, NotYet, SavesInOrder, OnDisk, ResumePointKept, Saving,
                      Before, Unstarted, Steps, Keep

\* train.py takes a line, or looks at `last`.
LEMMA LookCheckpoints ==
    ASSUME Checkpoints, TakeLine \/ Announce
    PROVE  NotYet' /\ SavesInOrder' /\ OnDisk'
  <1>1. /\ UNCHANGED <<args, child, disk, last, saved>> /\ pc' \notin Before \cup Unstarted
        /\ child.at = "none" => pipe' = <<>>
        /\ mem'.seen \in {mem.seen, last}
        /\ pc' = "prune" => args.prune_checkpoints.is
    <2>1. CASE TakeLine
      BY <2>1 DEF TakeLine, Goto, Checkpoints, Shapes, NotYet, Before, Unstarted
    <2>2. CASE Announce
      BY <2>2 DEF Announce, Goto, Checkpoints, Shapes, NotYet, Before, Unstarted, childVars
    <2> QED
      BY <2>1, <2>2
  <1> QED
    BY <1>1 DEF Checkpoints, NotYet, SavesInOrder, OnDisk, ResumePointKept, Steps, Keep

\* Pruning takes a step older than the one train.py saw `last` point to, so never
\* the newest that is complete, nor the one being written.
LEMMA PruneCheckpoints ==
    ASSUME Checkpoints, Prune
    PROVE  NotYet' /\ SavesInOrder' /\ OnDisk'
  <1> DEFINE old == {s \in DOMAIN disk : Prunable(s)}
  <1>1. /\ UNCHANGED <<args, mem, child, pipe, last, saved>> /\ pc = "prune" /\ pc' \in {"prune", "list"}
        /\ IF old = {} THEN pc' = "list" /\ UNCHANGED disk
           ELSE pc' = "prune" /\ disk' = Pruned(CHOOSE s \in old : \A t \in old : s <= t)
    BY DEF Prune, mainVars, Goto
  <1>2. old \subseteq Nat
    BY SavedStepsAre DEF Checkpoints, OnDisk
  <1>3. CASE UNCHANGED disk
    BY <1>1, <1>3 DEF Checkpoints, NotYet, SavesInOrder, OnDisk, ResumePointKept, Steps, Keep,
                      Before, Unstarted
  <1>4. CASE old # {}
    <2>1. PICK s \in old : disk' = Pruned(s)
      <3> HIDE DEF old
      <3> QED
        BY <1>1, <1>2, <1>4, LeastOf
    <2>2. /\ s \in DOMAIN disk /\ s < mem.seen /\ s < saved /\ s # saved
          /\ child.at \in {"write", "unlink", "link"} => s # child.step
      BY <1>2, <2>1 DEF Prunable, Checkpoints, SavesInOrder, Saving
    <2>3. /\ DOMAIN disk' \subseteq DOMAIN disk /\ disk' = [t \in DOMAIN disk' |-> disk'[t]]
          /\ \A t \in DOMAIN disk : t # s => t \in DOMAIN disk' /\ disk'[t] = disk[t]
          /\ s \in Keep => s \in DOMAIN disk'
      BY <2>1, <2>2 DEF Pruned
    <2>4. args.prune_checkpoints.is
      BY <1>1 DEF Checkpoints, OnDisk
    <2>5. ResumePointKept'
      <3>1. SUFFICES ASSUME saved # 0
            PROVE  /\ saved \in DOMAIN disk' /\ disk'[saved] = "full"
                   /\ \A k \in Keep \cap SavedSteps(args) : k <= saved => k \in DOMAIN disk'
        BY <1>1, <2>4, Zenon DEF ResumePointKept, Keep
      <3>2. /\ saved \in DOMAIN disk /\ disk[saved] = "full"
            /\ \A k \in Keep \cap SavedSteps(args) : k <= saved => k \in DOMAIN disk
        BY <3>1 DEF Checkpoints, OnDisk, ResumePointKept
      <3> QED
        BY <2>2, <2>3, <3>2
    <2> QED
      BY <1>1, <2>2, <2>3, <2>4, <2>5
         DEF Checkpoints, NotYet, SavesInOrder, OnDisk, Steps, Before, Unstarted
  <1> QED
    BY <1>1, <1>3, <1>4

\* lerobot goes from one place to another, its step, the disk and `last` as they were.
LEMMA MoveCheckpoints ==
    ASSUME Checkpoints, child.at # "none",
           UNCHANGED <<args, mem, disk, last, saved>>, pc' \in {pc, "killed"},
           DOMAIN child' = DOMAIN child, child'.step = child.step,
           \/ child'.at = "gone"
           \/ child.at \notin Saving /\ child.at # "gone" /\ child'.at \notin Saving \cup {"none"}
           \/ child.at \in Saving /\ child'.at \in {"save", "mkdir"}
    PROVE  Shapes' /\ NotYet' /\ SavesInOrder' /\ OnDisk'
  <1> USE DEF Checkpoints, Shapes, NotYet, Before, Unstarted
  <1>1. Shapes' /\ NotYet'
    OBVIOUS
  <1>2. SavesInOrder'
    BY DEF SavesInOrder, Saving, Steps
  <1>3. OnDisk'
    BY DEF OnDisk, ResumePointKept, Saving, Keep
  <1> QED
    BY <1>1, <1>2, <1>3

\* The place of lerobot is changed, or its place and its code.
LEMMA ChildAt ==
    ASSUME Shapes
    PROVE  \A next : LET to == [child EXCEPT !.at = next] IN
              DOMAIN to = DOMAIN child /\ to.at = next /\ to.step = child.step
  BY DEF Shapes

\* lerobot starts, says what it will save, ends, fails or is killed.
LEMMA IdleCheckpoints ==
    ASSUME Checkpoints,
           Boot \/ Fail \/ SaveLine \/ Finish \/ ChildDies \/ RunnerKills \/ OutsideKill
    PROVE  Shapes' /\ NotYet' /\ SavesInOrder' /\ OnDisk'
  <1> USE DEF Child, mainVars, At, Saving, Alive
  <1>1. CASE Boot \/ SaveLine
    <2>1. /\ UNCHANGED <<args, mem, disk, last, saved, pc>>
          /\ \/ child.at = "boot" /\ child' = [child EXCEPT !.at = "train"]
             \/ child.at = "save" /\ child' = [child EXCEPT !.at = "mkdir"]
      BY <1>1 DEF Boot, SaveLine
    <2> QED
      BY <2>1, ChildAt, MoveCheckpoints DEF Checkpoints
  <1>2. CASE Fail \/ Finish \/ ChildDies
    <2>1. /\ UNCHANGED <<args, mem, disk, last, saved, pc>> /\ child.at # "none"
          /\ \E code : child' = [child EXCEPT !.at = "gone", !.rc = code]
      BY <1>2 DEF Fail, Finish, ChildDies
    <2>2. child'.at = "gone" /\ child'.step = child.step /\ DOMAIN child' = DOMAIN child
      BY <2>1 DEF Checkpoints, Shapes
    <2> QED
      BY <2>1, <2>2, MoveCheckpoints
  <1>3. CASE RunnerKills \/ OutsideKill
    <2>1. /\ UNCHANGED <<args, mem, pipe, disk, last, saved>> /\ pc' = "killed"
          /\ \/ UNCHANGED child
             \/ Alive /\ child' = [child EXCEPT !.at = "gone", !.rc = 137]
      BY <1>3 DEF RunnerKills, OutsideKill, Killed
    <2>2. CASE UNCHANGED child
      BY <2>1, <2>2 DEF Checkpoints, Shapes, NotYet, SavesInOrder, OnDisk, ResumePointKept, Steps,
                        Keep, Before, Unstarted
    <2>3. CASE Alive /\ child' = [child EXCEPT !.at = "gone", !.rc = 137]
      <3>1. child'.at = "gone" /\ child'.step = child.step /\ DOMAIN child' = DOMAIN child
        BY <2>3 DEF Checkpoints, Shapes
      <3> QED
        BY <2>1, <2>3, <3>1, MoveCheckpoints
    <2> QED
      BY <2>1, <2>2, <2>3
  <1> QED
    BY <1>1, <1>2, <1>3

\* One step of training: a step that is to be saved is saved next.
LEMMA TrainCheckpoints ==
    ASSUME Checkpoints, Train
    PROVE  Shapes' /\ NotYet' /\ SavesInOrder' /\ OnDisk'
  <1>1. /\ UNCHANGED <<args, mem, disk, last, saved, pc>>
        /\ child.at = "train" /\ child.step < Steps
        /\ child' = [child EXCEPT !.step = child.step + 1,
                                  !.at = IF child.step + 1 \in SavedSteps(args) THEN "save" ELSE "train"]
    BY DEF Train, Child, mainVars
  <1>2. /\ child'.step = child.step + 1 /\ DOMAIN child' = DOMAIN child
        /\ child'.at = IF child.step + 1 \in SavedSteps(args) THEN "save" ELSE "train"
    BY <1>1 DEF Checkpoints, Shapes
  <1>3. Steps \in Nat /\ SavedSteps(args) \subseteq 1..Steps
    BY ArgsKnown, SavedStepsAre DEF Checkpoints
  <1>4. Shapes' /\ NotYet'
    BY <1>1, <1>2 DEF Checkpoints, Shapes, NotYet, Before, Unstarted
  <1>5. SavesInOrder'
    <2>1. child'.step \in 0..Steps' /\ saved' \in 0..child'.step /\ mem'.seen \in 0..saved'
      BY <1>1, <1>2, <1>3 DEF Checkpoints, SavesInOrder, Steps
    <2>2. last' \in {0, saved'}
      BY <1>1 DEF Checkpoints, SavesInOrder
    <2>3. child'.at \in Saving => child'.step \in SavedSteps(args') /\ saved' < child'.step
      BY <1>1, <1>2, <1>3 DEF Checkpoints, SavesInOrder, Saving
    <2>4. ASSUME NEW s \in SavedSteps(args'), s <= child'.step
          PROVE  s <= saved' \/ (s = child'.step /\ child'.at \in Saving \cup {"gone"})
      <3>1. CASE s = child'.step
        BY <1>1, <1>2, <2>4, <3>1 DEF Saving
      <3>2. CASE s # child'.step
        <4>1. s <= child.step
          BY <1>1, <1>2, <1>3, <2>4, <3>2 DEF Checkpoints, SavesInOrder
        <4> QED
          BY <1>1, <2>4, <4>1 DEF Checkpoints, SavesInOrder, Saving
      <3> QED
        BY <3>1, <3>2
    <2> QED
      BY <2>1, <2>2, <2>3, <2>4 DEF SavesInOrder
  <1>6. OnDisk'
    BY <1>1, <1>2 DEF Checkpoints, OnDisk, ResumePointKept, Keep
  <1> QED
    BY <1>4, <1>5, <1>6

\* A directory is made, filled and pointed to, while train.py may be pruning.
LEMMA SaveCheckpoints ==
    ASSUME Checkpoints, MakeCheckpoint \/ WriteCheckpoint \/ Unlink \/ Link
    PROVE  Shapes' /\ NotYet' /\ SavesInOrder' /\ OnDisk'
  <1> USE DEF Child, mainVars, At
  <1>1. /\ UNCHANGED <<args, mem, pc>> /\ child.at \in Saving \ {"save"}
        /\ child'.at \in Saving \cup {"train"}
        /\ child'.step = child.step /\ DOMAIN child' = DOMAIN child
    BY ChildAt DEF Checkpoints, MakeCheckpoint, WriteCheckpoint, Unlink, Link, Saving
  <1>2. Shapes' /\ NotYet'
    BY <1>1 DEF Checkpoints, Shapes, NotYet, Before, Unstarted, Saving
  <1>3. /\ child.step \in 0..Steps /\ saved \in 0..child.step /\ child.step \in SavedSteps(args)
        /\ saved < child.step /\ SavedSteps(args) \subseteq 1..Steps /\ Steps \in Nat
        /\ mem.seen \in 0..saved /\ last \in {0, saved}
        /\ \A s \in SavedSteps(args) : s <= child.step => s <= saved \/ s = child.step
    BY <1>1, ArgsKnown, SavedStepsAre DEF Checkpoints, SavesInOrder
  <1>4. /\ DOMAIN disk \subseteq SavedSteps(args) /\ ResumePointKept
        /\ pc = "prune" => args.prune_checkpoints.is
    BY DEF Checkpoints, OnDisk
  <1>5. CASE MakeCheckpoint \/ WriteCheckpoint
    <2>1. /\ UNCHANGED <<last, saved>> /\ DOMAIN disk' = DOMAIN disk \cup {child.step}
          /\ disk' = [s \in DOMAIN disk' |-> disk'[s]]
          /\ \A s \in DOMAIN disk : s # child.step => disk'[s] = disk[s]
          /\ child'.at = "write" \/ (child'.at = "unlink" /\ disk'[child.step] = "full")
      BY <1>5, ChildAt DEF Checkpoints, OnDisk, MakeCheckpoint, WriteCheckpoint
    <2>2. SavesInOrder'
      BY <1>1, <1>3, <2>1 DEF SavesInOrder, Saving, Steps
    <2>3. ResumePointKept'
      BY <1>1, <1>3, <1>4, <2>1 DEF ResumePointKept, Keep
    <2> QED
      BY <1>1, <1>2, <1>3, <1>4, <2>1, <2>2, <2>3 DEF OnDisk
  <1>6. CASE Unlink
    <2>1. UNCHANGED <<disk, saved>> /\ last' = 0 /\ child.at = "unlink" /\ child'.at = "link"
      BY <1>6, ChildAt DEF Checkpoints, Unlink
    <2>2. SavesInOrder'
      BY <1>1, <1>3, <2>1 DEF SavesInOrder, Saving, Steps
    <2> QED
      BY <1>1, <1>2, <2>1, <2>2 DEF Checkpoints, OnDisk, ResumePointKept, Keep
  <1>7. CASE Link
    <2>1. /\ UNCHANGED disk /\ last' = child.step /\ saved' = child.step
          /\ child.at = "link" /\ child'.at = "train"
      BY <1>7, ChildAt DEF Checkpoints, Link
    <2>2. SavesInOrder'
      BY <1>1, <1>3, <2>1 DEF SavesInOrder, Saving, Steps
    <2>3. child.step \in DOMAIN disk /\ disk[child.step] = "full"
      BY <2>1 DEF Checkpoints, OnDisk
    <2>4. \A s \in Keep \cap SavedSteps(args) : s <= child.step => s \in DOMAIN disk
      BY <1>3, <1>4, <2>3 DEF ResumePointKept
    <2>5. ~args.prune_checkpoints.is =>
              \A s \in SavedSteps(args) : s <= child.step => s \in DOMAIN disk /\ disk[s] = "full"
      BY <1>3, <1>4, <2>3 DEF ResumePointKept
    <2> QED
      BY <1>1, <1>2, <1>4, <2>1, <2>2, <2>3, <2>4, <2>5 DEF Checkpoints, OnDisk, ResumePointKept,
         Keep
  <1> QED
    BY <1>5, <1>6, <1>7

\* Every step keeps them.
LEMMA CheckpointsKept ==
    ASSUME Checkpoints, [Next]_vars
    PROVE  Checkpoints'
  <1>1. Asked'
    BY AskedKept DEF Checkpoints
  <1>2. ASSUME Shapes' /\ Quiet PROVE Checkpoints'
    BY <1>1, <1>2, QuietCheckpoints DEF Checkpoints
  <1>3. CASE Check \/ Submit
    BY <1>1, <1>3, RequestCheckpoints DEF Checkpoints
  <1>4. CASE Spawn
    BY <1>1, <1>4, SpawnCheckpoints DEF Checkpoints
  <1>5. CASE TakeLine \/ Announce
    BY <1>1, <1>5, LookCheckpoints, MainSteps DEF Checkpoints
  <1>6. CASE Prune
    BY <1>1, <1>6, PruneCheckpoints, MainSteps DEF Checkpoints
  <1>7. CASE Lerobot \/ ChildDies \/ RunnerKills \/ OutsideKill
    BY <1>1, <1>7, IdleCheckpoints, TrainCheckpoints, SaveCheckpoints DEF Checkpoints, Lerobot
  <1>8. CASE Rival \/ Stop \/ StopReturns \/ JobEnds \/ PageReads \/ UNCHANGED vars
    BY <1>2, <1>8, LabQuiet DEF Checkpoints
  <1>9. CASE Launch /\ ~Spawn
    BY <1>2, <1>9, LaunchQuiet DEF Checkpoints
  <1>10. CASE EndOfLog \/ WriteMetrics \/ List \/ Note \/ Noted \/ WriteResult \/ Close
    BY <1>2, <1>10, FollowQuiet DEF Checkpoints
  <1>11. CASE OnSignal \/ DieOfSignal
    BY <1>2, <1>11, SignalQuiet DEF Checkpoints
  <1> QED
    BY <1>3, <1>4, <1>5, <1>6, <1>7, <1>8, <1>9, <1>10, <1>11
       DEF Next, Lab, Follow, Signals, Rest

\* They hold of a run that was only asked for.
LEMMA InitCheckpoints == Init => Checkpoints
  <1> HAVE Init
  <1>1. Asked
    BY DEF Init, Asked, Before
  <1>2. Shapes /\ NotYet
    BY DEF Init, Shapes, NotYet, NoMem, NoStatus
  <1>3. Steps \in Nat \ {0} /\ SavedSteps(args) \subseteq 1..Steps
    BY <1>1, ArgsKnown, SavedStepsAre
  <1>4. SavesInOrder
    BY <1>3 DEF Init, SavesInOrder, Saving, NoMem
  <1>5. OnDisk
    BY DEF Init, OnDisk, ResumePointKept
  <1> QED
    BY <1>1, <1>2, <1>4, <1>5 DEF Checkpoints

\* The invariant, in every behaviour (train.py, prune_checkpoints and read_last_step).
THEOREM CheckpointsHold == Spec => []Checkpoints
  BY InitCheckpoints, CheckpointsKept, PTL DEF Spec

\* The newest checkpoint that `last` ever pointed to is whole, the steps to keep are
\* there, and nothing is lost of a run that does not prune, whatever lerobot is
\* saving while train.py prunes and whoever is killed (train.py, prune_checkpoints).
THEOREM ResumePointIsKept == Spec => []ResumePointKept
  <1>1. Checkpoints => ResumePointKept
    BY DEF Checkpoints, OnDisk
  <1> QED
    BY <1>1, CheckpointsHold, PTL

\* What trains is what was checked, for any request (train.py, job_command).
THEOREM WhatWasCheckedRuns == Spec => []RunsAsChecked
  <1>1. Checkpoints => RunsAsChecked
    BY DEF Checkpoints, Asked, RunsAsChecked
  <1> QED
    BY <1>1, CheckpointsHold, PTL

-------------------------------------------------------------------------------
(* The steps lerobot logs, from its rounded lines to the page.             *)

\* Multiples keep the order of what is multiplied.
LEMMA TimesMore ==
    ASSUME NEW F \in Nat, NEW a \in Nat, NEW b \in Nat, a <= b
    PROVE  a * F <= b * F
  <1>1. PICK d \in Nat : b = a + d
    BY b - a \in Nat
  <1>2. b * F = a * F + d * F
    BY <1>1
  <1>3. d * F >= 0 /\ d * F \in Int /\ a * F \in Int
    BY <1>1
  <1> QED
    BY <1>2, <1>3

\* The multiple after this one.
LEMMA TimesNext ==
    ASSUME NEW F \in Nat, NEW k \in Nat
    PROVE  (k + 1) * F = k * F + F /\ k * F \in Nat
  OBVIOUS

\* The step after x is a multiple of F if and only if it is the next one.
LEMMA NextMultiple ==
    ASSUME NEW F \in Nat \ {0}, NEW k \in Nat, NEW x \in Nat, k * F <= x, x < (k + 1) * F
    PROVE  (x + 1) % F = 0 <=> x + 1 = (k + 1) * F
  <1> DEFINE q == (x + 1) \div F
  <1>1. x + 1 = q * F + ((x + 1) % F) /\ q \in Nat
    OBVIOUS
  <1>2. ((k + 1) * F) % F = 0
    OBVIOUS
  <1> HIDE DEF q
  <1>3. ASSUME (x + 1) % F = 0 PROVE x + 1 = (k + 1) * F
    <2>1. x + 1 = q * F
      BY <1>1, <1>3
    <2>2. q <= k => q * F <= k * F
      BY <1>1, TimesMore
    <2>3. k + 1 <= q => (k + 1) * F <= q * F
      BY <1>1, TimesMore
    <2>4. k * F \in Int /\ (k + 1) * F \in Int /\ q * F \in Int
      BY <1>1
    <2>5. ~(q <= k)
      BY <2>1, <2>2, <2>4
    <2>6. (k + 1) * F <= q * F
      BY <1>1, <2>3, <2>5
    <2> QED
      BY <2>1, <2>4, <2>6
  <1> QED
    BY <1>2, <1>3

\* One line more in the pipe.
LEMMA TellsMore ==
    ASSUME NEW S, NEW lines \in Seq(S), NEW l, NEW n \in Nat,
           NEW st \in [0..Len(lines) -> Nat], Tells(st, n, lines),
           l.kind = "metrics" =>
              /\ l.token = Token((st[Len(lines)] + 1) * Freq)
              /\ l.rounded <=> (st[Len(lines)] + 1) * Freq >= Kilo
    PROVE  \E to \in [0..Len(Append(lines, l)) -> Nat] :
              /\ Tells(to, n, Append(lines, l))
              /\ to[Len(Append(lines, l))] =
                    IF l.kind = "metrics" THEN st[Len(lines)] + 1 ELSE st[Len(lines)]
  <1> DEFINE m == Len(lines)
             top == IF l.kind = "metrics" THEN st[m] + 1 ELSE st[m]
             to == [i \in 0..(m + 1) |-> IF i <= m THEN st[i] ELSE top]
             more == Append(lines, l)
  <1>1. m \in Nat /\ st[m] \in Nat /\ top \in Nat /\ DOMAIN lines = 1..m
    OBVIOUS
  <1>2. /\ Len(more) = m + 1 /\ DOMAIN more = 1..(m + 1) /\ more[m + 1] = l
        /\ \A i \in 1..m : more[i] = lines[i]
    <2>1. lines \in Seq(S \cup {l}) /\ l \in S \cup {l}
      OBVIOUS
    <2> QED
      BY <2>1
  <1> HIDE DEF more, m
  <1>3. to \in [0..(m + 1) -> Nat] /\ to[m + 1] = top /\ \A i \in 0..m : to[i] = st[i]
    <2>1. ~(m + 1 <= m)
      BY <1>1
    <2>2. \A i \in 0..m : i <= m /\ i \in 0..(m + 1)
      BY <1>1
    <2>3. st \in [0..m -> Nat]
      BY DEF m
    <2> HIDE DEF top
    <2> QED
      BY <1>1, <2>1, <2>2, <2>3
  <1>4. Tells(to, n, more)
    <2>1. to[0] = n
      BY <1>1, <1>3 DEF Tells
    <2>2. ASSUME NEW i \in 1..m
          PROVE  IF more[i].kind = "metrics"
                 THEN /\ to[i] = to[i - 1] + 1 /\ more[i].token = Token(to[i] * Freq)
                      /\ more[i].rounded <=> to[i] * Freq >= Kilo
                 ELSE to[i] = to[i - 1]
      <3>1. i \in 0..m /\ i - 1 \in 0..m
        BY <1>1
      <3>2. to[i] = st[i] /\ to[i - 1] = st[i - 1] /\ more[i] = lines[i]
        BY <1>2, <1>3, <3>1
      <3>3. i \in DOMAIN lines
        BY <1>1
      <3> HIDE DEF to
      <3> QED
        BY <3>2, <3>3 DEF Tells
    <2>3. IF more[m + 1].kind = "metrics"
          THEN /\ to[m + 1] = to[m] + 1 /\ more[m + 1].token = Token(to[m + 1] * Freq)
               /\ more[m + 1].rounded <=> to[m + 1] * Freq >= Kilo
          ELSE to[m + 1] = to[m]
      <3>1. to[m + 1] = top /\ to[m] = st[m] /\ more[m + 1] = l
        BY <1>1, <1>2, <1>3
      <3> HIDE DEF to
      <3> QED
        BY <3>1 DEF m
    <2>4. \A i \in DOMAIN more : i \in 1..m \/ i = m + 1
      BY <1>1, <1>2
    <2>5. (m + 1) - 1 = m
      BY <1>1
    <2> HIDE DEF to
    <2> QED
      BY <2>1, <2>2, <2>3, <2>4, <2>5 DEF Tells
  <1> QED
    BY <1>2, <1>3, <1>4 DEF more, m

\* The first line of the pipe is taken.
LEMMA TellsRest ==
    ASSUME NEW S, NEW lines \in Seq(S), lines # <<>>, NEW n \in Nat,
           NEW st \in [0..Len(lines) -> Nat], Tells(st, n, lines)
    PROVE  /\ IF Head(lines).kind = "metrics"
              THEN /\ st[1] = n + 1 /\ Head(lines).token = Token(st[1] * Freq)
                   /\ Head(lines).rounded <=> st[1] * Freq >= Kilo
              ELSE st[1] = n
           /\ \E to \in [0..Len(Tail(lines)) -> Nat] :
                 /\ Tells(to, st[1], Tail(lines))
                 /\ to[Len(Tail(lines))] = st[Len(lines)]
  <1> DEFINE m == Len(lines)
             rest == Tail(lines)
             to == [i \in 0..(m - 1) |-> st[i + 1]]
  <1>1. m \in Nat \ {0} /\ DOMAIN lines = 1..m /\ Head(lines) = lines[1]
    OBVIOUS
  <1>2. /\ Len(rest) = m - 1 /\ DOMAIN rest = 1..(m - 1)
        /\ \A i \in 1..(m - 1) : rest[i] = lines[i + 1]
    BY <1>1
  <1>3. /\ st[0] = n
        /\ \A i \in 1..m :
              IF lines[i].kind = "metrics"
              THEN /\ st[i] = st[i - 1] + 1 /\ lines[i].token = Token(st[i] * Freq)
                   /\ lines[i].rounded <=> st[i] * Freq >= Kilo
              ELSE st[i] = st[i - 1]
    BY <1>1 DEF Tells
  <1>4. 1 \in 1..m /\ 1 - 1 = 0
    BY <1>1
  <1>5. st \in [0..m -> Nat]
    OBVIOUS
  <1> HIDE DEF m, rest
  <1>6. /\ to \in [0..(m - 1) -> Nat] /\ to[0] = st[1] /\ to[m - 1] = st[m]
        /\ \A i \in 0..(m - 1) : to[i] = st[i + 1]
    BY <1>1, <1>5
  <1>7. Tells(to, st[1], rest)
    <2>1. ASSUME NEW i \in 1..(m - 1)
          PROVE  IF rest[i].kind = "metrics"
                 THEN /\ to[i] = to[i - 1] + 1 /\ rest[i].token = Token(to[i] * Freq)
                      /\ rest[i].rounded <=> to[i] * Freq >= Kilo
                 ELSE to[i] = to[i - 1]
      <3>1. i + 1 \in 1..m /\ i \in 0..(m - 1) /\ i - 1 \in 0..(m - 1)
        BY <1>1
      <3>2. (i - 1) + 1 = i /\ (i + 1) - 1 = i
        OBVIOUS
      <3>3. to[i] = st[i + 1] /\ to[i - 1] = st[i] /\ rest[i] = lines[i + 1]
        BY <1>2, <1>6, <3>1, <3>2
      <3> HIDE DEF to
      <3> QED
        BY <1>3, <3>1, <3>2, <3>3
    <2> HIDE DEF to
    <2> QED
      BY <1>2, <1>6, <2>1 DEF Tells
  <1>8. IF lines[1].kind = "metrics"
        THEN /\ st[1] = n + 1 /\ lines[1].token = Token(st[1] * Freq)
             /\ lines[1].rounded <=> st[1] * Freq >= Kilo
        ELSE st[1] = n
    BY <1>3, <1>4
  <1> QED
    BY <1>1, <1>2, <1>6, <1>7, <1>8 DEF rest, m

\* What MetricsFollow asks of a step that moves no metrics.
LEMMA StillTells ==
    ASSUME MetricsFollow, UNCHANGED <<args, metrics, page, pipe>>,
           mem'.prev = mem.prev, child'.step = child.step,
           pc' \notin Ended => pc \notin Ended /\ (pc' \in {"metrics", "half"} <=> pc \in {"metrics", "half"}),
           pc' \in {"metrics", "half"} => pc \in {"metrics", "half"} /\ line' = line,
           pc' \in Before \cup Unstarted => pc \in Before \cup Unstarted
    PROVE  MetricsFollow'
  <1>1. FilesTell' /\ PipeTyped'
    BY DEF MetricsFollow, FilesTell, MetricsExact, PipeTyped, Freq
  <1>2. ASSUME pc' \notin Ended
        PROVE  mem'.prev = (RecordsResolved * Freq)' /\ PipeTells'
    <2>1. RecordsResolved' = RecordsResolved /\ Freq' = Freq
      BY <1>2 DEF RecordsResolved, Freq
    <2> QED
      BY <1>2, <2>1 DEF MetricsFollow, PipeTells, Tells
  <1> QED
    BY <1>1, <1>2 DEF MetricsFollow

\* The options are known from here on; nothing has been logged yet.
LEMMA SubmitTells ==
    ASSUME Checkpoints, MetricsFollow, Checkpoints', Submit
    PROVE  MetricsFollow'
  <1>1. /\ pc = "checked" /\ pc' = "queued" /\ UNCHANGED <<mem, metrics, page, pipe, child>>
        /\ pipe = <<>> /\ child.step = 0 /\ mem.prev = 0
    BY DEF Submit, childVars, Checkpoints, NotYet, Before
  <1>2. metrics.lines = <<>> /\ page.lines = <<>> /\ page.lines \in Seq(Nat) /\ page.offset = 0
    BY <1>1 DEF MetricsFollow, FilesTell, Before
  <1>3. FilesTell' /\ PipeTyped'
    BY <1>1, <1>2 DEF MetricsFollow, FilesTell, MetricsExact, PipeTyped
  <1>4. Freq' \in Nat \ {0}
    <2>1. (Asked => Steps \in Nat \ {0} /\ args.save_freq.is \in Nat \ {0} /\ Freq \in Nat \ {0})'
      BY ArgsKnown, PTL
    <2> QED
      BY <2>1 DEF Checkpoints
  <1>5. RecordsResolved' = 0
    BY <1>1, <1>2 DEF RecordsResolved
  <1>6. PipeTells'
    <2>0. PICK st : st = [i \in 0..0 |-> 0]
      OBVIOUS
    <2>1. st \in [0..0 -> Nat] /\ st[0] = 0 /\ Len(pipe') = 0 /\ DOMAIN pipe' = {}
      BY <1>1, <2>0
    <2>2. st \in [0..Len(pipe') -> Nat] /\ Tells(st, 0, pipe)'
      BY <2>1 DEF Tells
    <2>3. st[Len(pipe')] * Freq' <= child'.step /\ child'.step < (st[Len(pipe')] + 1) * Freq'
      BY <1>1, <1>4, <2>1
    <2> QED
      BY <1>5, <2>2, <2>3 DEF PipeTells, Tells
  <1>7. mem'.prev = RecordsResolved' * Freq'
    <2>1. \A f \in Nat : 0 * f = 0
      OBVIOUS
    <2> QED
      BY <1>1, <1>4, <1>5, <2>1
  <1> QED
    BY <1>1, <1>3, <1>6, <1>7 DEF MetricsFollow

\* lerobot's next line, if it tells of the next step or of none.
LEMMA LoggedTells ==
    ASSUME Checkpoints, MetricsFollow, UNCHANGED <<args, mem, line, metrics, page, pc>>,
           NEW l, IsLine(l), pipe' = Append(pipe, l),
           \/ l.kind # "metrics" /\ child'.step = child.step
           \/ /\ l.kind = "metrics" /\ child'.step = child.step + 1 /\ child'.step % Freq = 0
              /\ l.token = Token(child'.step) /\ (l.rounded <=> child'.step >= Kilo)
    PROVE  MetricsFollow'
  <1>1. PICK S : pipe \in Seq(S)
    BY DEF MetricsFollow, PipeTyped
  <1>2. /\ Len(pipe') = Len(pipe) + 1 /\ DOMAIN pipe' = 1..(Len(pipe) + 1) /\ pipe' \in Seq(S \cup {l})
        /\ pipe'[Len(pipe) + 1] = l /\ DOMAIN pipe = 1..Len(pipe) /\ Len(pipe) \in Nat
        /\ \A i \in 1..Len(pipe) : pipe'[i] = pipe[i]
    <2>1. pipe \in Seq(S \cup {l}) /\ l \in S \cup {l}
      BY <1>1
    <2> QED
      BY <2>1
  <1>3. PipeTyped'
    <2>1. ASSUME NEW i \in DOMAIN pipe' PROVE IsLine(pipe'[i])
      <3>1. i \in DOMAIN pipe \/ i = Len(pipe) + 1
        BY <1>2
      <3> QED
        BY <1>2, <3>1 DEF MetricsFollow, PipeTyped
    <2> QED
      BY <1>2, <2>1 DEF PipeTyped
  <1>4. FilesTell' /\ (pc' \in {"metrics", "half"} => line'.step = mem'.prev)
    BY DEF MetricsFollow, FilesTell, MetricsExact, Freq
  <1>5. ASSUME pc \notin Ended PROVE PipeTells'
    <2>1. PICK st \in [0..Len(pipe) -> Nat] :
              /\ Tells(st, RecordsResolved, pipe)
              /\ st[Len(pipe)] * Freq <= child.step /\ child.step < (st[Len(pipe)] + 1) * Freq
      BY <1>5 DEF MetricsFollow, PipeTells
    <2> DEFINE k == st[Len(pipe)]
               next == IF l.kind = "metrics" THEN k + 1 ELSE k
    <2>2. /\ Freq \in Nat \ {0} /\ child.step \in Nat /\ k \in Nat /\ RecordsResolved \in Nat
          /\ k * Freq <= child.step /\ child.step < (k + 1) * Freq
      <3>1. Freq \in Nat \ {0} /\ Steps \in Nat
        BY ArgsKnown DEF Checkpoints
      <3>2. child.step \in Nat
        BY <3>1 DEF Checkpoints, SavesInOrder
      <3>3. RecordsResolved \in Nat
        BY DEF MetricsFollow, FilesTell, RecordsResolved
      <3> QED
        BY <1>2, <2>1, <3>1, <3>2, <3>3
    <2> HIDE DEF k
    <2>3. l.kind = "metrics" => child'.step = (k + 1) * Freq
      BY <2>2, NextMultiple
    <2>4. PICK to \in [0..Len(pipe') -> Nat] :
              Tells(to, RecordsResolved, pipe') /\ to[Len(pipe')] = next
      <3>1. l.kind = "metrics" =>
                l.token = Token((k + 1) * Freq) /\ (l.rounded <=> (k + 1) * Freq >= Kilo)
        BY <2>3
      <3> QED
        BY <1>1, <2>1, <2>2, <3>1, TellsMore DEF k
    <2>5. next * Freq <= child'.step /\ child'.step < (next + 1) * Freq
      <3>1. CASE l.kind = "metrics"
        <4>1. ((k + 1) + 1) * Freq = (k + 1) * Freq + Freq /\ (k + 1) * Freq \in Nat
          BY <2>2, TimesNext
        <4> QED
          BY <2>2, <2>3, <3>1, <4>1
      <3>2. CASE l.kind # "metrics"
        BY <2>2, <3>2
      <3> QED
        BY <3>1, <3>2
    <2>6. RecordsResolved' = RecordsResolved /\ Freq' = Freq
      BY DEF RecordsResolved, Freq
    <2> HIDE DEF next
    <2> QED
      BY <2>4, <2>5, <2>6 DEF PipeTells, Tells
  <1>6. pc' \notin Ended => mem'.prev = RecordsResolved' * Freq'
    BY DEF MetricsFollow, RecordsResolved, Freq
  <1> QED
    BY <1>3, <1>4, <1>5, <1>6 DEF MetricsFollow

\* A rounded token resolves to the step that was logged, when that is the next one.
LEMMA Resolves ==
    ASSUME NEW l, NEW prev \in Nat, Freq \in Nat \ {0},
           l.token = Token(prev + Freq), l.rounded <=> prev + Freq >= Kilo
    PROVE  ResolveStep(l, prev) = prev + Freq
  <1> DEFINE e == prev + Freq
  <1>1. e \in Nat /\ Kilo \in Nat
    BY TrainAssumption
  <1>2. ResolveStep(l, prev) = IF l.rounded /\ e >= Kilo /\ Token(e) = l.token THEN e
                               ELSE RoundedStep(l, prev)
    BY DEF ResolveStep, Freq
  <1> HIDE DEF e
  <1>3. CASE e >= Kilo
    BY <1>2, <1>3 DEF e
  <1>4. CASE ~(e >= Kilo)
    <2>1. ~l.rounded /\ e < Kilo
      BY <1>1, <1>4 DEF e
    <2>2. RoundedStep(l, prev) = l.token
      BY <2>1 DEF RoundedStep
    <2>3. Token(e) = e
      BY <2>1 DEF Token
    <2> QED
      BY <1>2, <2>1, <2>2, <2>3 DEF e
  <1> QED
    BY <1>3, <1>4 DEF e

\* train.py takes the next line of the pipe.
LEMMA TakeTells ==
    ASSUME Checkpoints, MetricsFollow, TakeLine
    PROVE  MetricsFollow'
  <1> DEFINE l == Head(pipe)
  <1>1. /\ pc = "reading" /\ pipe # <<>> /\ pipe' = Tail(pipe)
        /\ UNCHANGED <<args, metrics, page, child>>
    BY DEF TakeLine, Goto
  <1>2. \/ /\ l.kind = "metrics" /\ line' = [l EXCEPT !.step = ResolveStep(l, mem.prev)]
           /\ mem' = [mem EXCEPT !.prev = ResolveStep(l, mem.prev)] /\ pc' = "metrics"
        \/ l.kind # "metrics" /\ mem'.prev = mem.prev /\ pc' \in {"refresh", "compose", "reading"}
    BY DEF TakeLine, Goto, Checkpoints, Shapes
  <1>3. PICK S : pipe \in Seq(S)
    BY DEF MetricsFollow, PipeTyped
  <1>4. PipeTyped' /\ IsLine(l)
    <2>1. /\ Tail(pipe) \in Seq(S) /\ DOMAIN pipe = 1..Len(pipe) /\ Len(pipe) \in Nat \ {0}
          /\ DOMAIN Tail(pipe) = 1..(Len(pipe) - 1) /\ l = pipe[1]
          /\ \A i \in 1..(Len(pipe) - 1) : Tail(pipe)[i] = pipe[i + 1]
      BY <1>1, <1>3
    <2>2. \A i \in 1..(Len(pipe) - 1) : i + 1 \in 1..Len(pipe)
      BY <2>1
    <2>3. 1 \in 1..Len(pipe)
      BY <2>1
    <2> HIDE DEF l
    <2> QED
      BY <1>1, <2>1, <2>2, <2>3 DEF MetricsFollow, PipeTyped
  <1>5. FilesTell'
    BY <1>1, <1>2 DEF MetricsFollow, FilesTell, MetricsExact, Freq, Before, Unstarted
  <1>6. /\ mem.prev = RecordsResolved * Freq /\ PipeTells
        /\ RecordsResolved = Len(metrics.lines) /\ RecordsResolved \in Nat
        /\ Freq \in Nat \ {0}
    BY <1>1, ArgsKnown DEF MetricsFollow, FilesTell, RecordsResolved, Ended, Checkpoints
  <1>7. PICK st \in [0..Len(pipe) -> Nat] :
            /\ Tells(st, RecordsResolved, pipe)
            /\ st[Len(pipe)] * Freq <= child.step /\ child.step < (st[Len(pipe)] + 1) * Freq
    BY <1>6 DEF PipeTells
  <1>8. /\ IF l.kind = "metrics"
           THEN /\ st[1] = RecordsResolved + 1 /\ l.token = Token(st[1] * Freq)
                /\ l.rounded <=> st[1] * Freq >= Kilo
           ELSE st[1] = RecordsResolved
        /\ \E to \in [0..Len(Tail(pipe)) -> Nat] :
              Tells(to, st[1], Tail(pipe)) /\ to[Len(Tail(pipe))] = st[Len(pipe)]
    <2>1. Tells(st, RecordsResolved, pipe)
      BY <1>7
    <2> QED
      BY ONLY <1>1, <1>3, <1>6, <2>1, TellsRest
  <1> HIDE DEF l
  <1>9. /\ RecordsResolved' = st[1] /\ mem'.prev = st[1] * Freq
        /\ pc' \in {"metrics", "half"} => line'.step = mem'.prev
    <2>1. CASE l.kind = "metrics"
      <3>1. (RecordsResolved + 1) * Freq = RecordsResolved * Freq + Freq /\ RecordsResolved * Freq \in Nat
        BY <1>6, TimesNext
      <3>2. ResolveStep(l, mem.prev) = mem.prev + Freq
        <4>1. mem.prev \in Nat /\ st[1] * Freq = mem.prev + Freq
          BY <1>6, <1>8, <2>1, <3>1
        <4>2. l.token = Token(mem.prev + Freq) /\ (l.rounded <=> mem.prev + Freq >= Kilo)
          BY <1>8, <2>1, <4>1
        <4> QED
          BY <1>6, <4>1, <4>2, Resolves
      <3>3. /\ pc' = "metrics" /\ line' = [l EXCEPT !.step = mem.prev + Freq]
            /\ mem' = [mem EXCEPT !.prev = mem.prev + Freq]
        BY <1>2, <2>1, <3>2
      <3>4. mem'.prev = mem.prev + Freq /\ line'.step = mem.prev + Freq
        BY <1>4, <3>3 DEF Checkpoints, Shapes
      <3> QED
        BY <1>1, <1>6, <1>8, <2>1, <3>1, <3>3, <3>4 DEF RecordsResolved
    <2>2. CASE l.kind # "metrics"
      BY <1>1, <1>2, <1>6, <1>8, <2>2 DEF RecordsResolved
    <2> QED
      BY <2>1, <2>2
  <1>10. PipeTells' /\ Freq' = Freq
    BY <1>1, <1>7, <1>8, <1>9 DEF PipeTells, Tells, Freq
  <1> QED
    BY <1>4, <1>5, <1>9, <1>10 DEF MetricsFollow

\* A record is written, half of it first.
LEMMA WriteTells ==
    ASSUME Checkpoints, MetricsFollow, WriteMetrics
    PROVE  MetricsFollow'
  <1>1. /\ UNCHANGED <<args, mem, line, page, pipe, child>> /\ pc \in {"metrics", "half"}
        /\ \/ pc = "metrics" /\ pc' = "half" /\ metrics' = [metrics EXCEPT !.half = TRUE]
           \/ /\ pc = "half" /\ pc' = "refresh"
              /\ metrics' = [lines |-> Append(metrics.lines, line.step), half |-> FALSE]
    BY DEF WriteMetrics, Goto, mainVars, childVars
  <1>2. /\ mem.prev = RecordsResolved * Freq /\ PipeTells /\ line.step = mem.prev
        /\ metrics.lines \in Seq(Nat) /\ RecordsResolved = Len(metrics.lines) + 1
        /\ Freq \in Nat \ {0}
    BY <1>1, ArgsKnown DEF MetricsFollow, FilesTell, RecordsResolved, Ended, Checkpoints
  <1>3. RecordsResolved * Freq \in Nat /\ Len(metrics.lines) \in Nat
    BY <1>2
  <1>4. CASE pc = "metrics"
    <2>1. metrics'.lines = metrics.lines /\ DOMAIN metrics' = DOMAIN metrics /\ pc' = "half"
      BY <1>1, <1>4 DEF MetricsFollow, FilesTell
    <2>2. FilesTell' /\ PipeTyped' /\ RecordsResolved' = RecordsResolved /\ Freq' = Freq
      BY <1>1, <1>4, <2>1 DEF MetricsFollow, FilesTell, MetricsExact, PipeTyped, RecordsResolved,
                              Freq, Before, Unstarted
    <2> QED
      BY <1>1, <1>2, <2>1, <2>2 DEF MetricsFollow, PipeTells, Tells
  <1>5. CASE pc = "half"
    <2> DEFINE n == Len(metrics.lines)
    <2>1. /\ metrics'.lines = Append(metrics.lines, line.step) /\ pc' = "refresh"
          /\ DOMAIN metrics' = {"lines", "half"}
      BY <1>1, <1>5
    <2>2. /\ metrics'.lines \in Seq(Nat) /\ Len(metrics'.lines) = n + 1
          /\ metrics'.lines[n + 1] = (n + 1) * Freq
          /\ \A i \in 1..n : metrics'.lines[i] = metrics.lines[i]
      <3>1. line.step \in Nat /\ line.step = (n + 1) * Freq
        BY <1>2, <1>3
      <3>2. metrics.lines \in Seq(Nat)
        BY <1>2
      <3> DEFINE more == Append(metrics.lines, line.step)
      <3>3. /\ more \in Seq(Nat) /\ Len(more) = Len(metrics.lines) + 1
            /\ \A i \in 1..Len(metrics.lines) : more[i] = metrics.lines[i]
            /\ more[Len(metrics.lines) + 1] = line.step
        <4>1. line.step \in Nat
          BY <3>1
        <4> QED
          BY ONLY <3>2, <4>1, AppendProperties
      <3> HIDE DEF more
      <3>4. metrics'.lines = more
        BY <2>1 DEF more
      <3> QED
        BY <3>1, <3>3, <3>4
    <2>3. \A i \in 1..(n + 1) : metrics'.lines[i] = i * Freq
      <3>1. \A i \in 1..(n + 1) : i \in 1..n \/ i = n + 1
        BY <1>3
      <3>2. \A i \in 1..n : metrics.lines[i] = i * Freq
        BY DEF MetricsFollow, FilesTell
      <3> QED
        BY <2>2, <3>1, <3>2
    <2>4. RecordsResolved' = RecordsResolved /\ Freq' = Freq
      BY <1>1, <1>2, <2>1, <2>2 DEF RecordsResolved, Freq
    <2>5. FilesTell'
      BY <1>1, <1>3, <2>1, <2>2, <2>3, <2>4 DEF MetricsFollow, FilesTell, MetricsExact, Freq,
         Before, Unstarted
    <2> QED
      BY <1>1, <1>2, <2>1, <2>4, <2>5 DEF MetricsFollow, PipeTyped, PipeTells, Tells
  <1> QED
    BY <1>1, <1>4, <1>5

\* The last elements of a sequence.
LEMMA RestIs ==
    ASSUME NEW S, NEW s \in Seq(S), NEW k \in Nat, k <= Len(s)
    PROVE  /\ SubSeq(s, k + 1, Len(s)) \in Seq(S) /\ Len(SubSeq(s, k + 1, Len(s))) = Len(s) - k
           /\ \A i \in 1..(Len(s) - k) : SubSeq(s, k + 1, Len(s))[i] = s[k + i]
  <1> DEFINE n == Len(s)
  <1>1. n \in Nat /\ DOMAIN s = 1..n /\ \A i \in 1..n : s[i] \in S
    OBVIOUS
  <1>2. SubSeq(s, k + 1, n) = [i \in 1..((n - (k + 1)) + 1) |-> s[(i + (k + 1)) - 1]]
    BY <1>1
  <1> HIDE DEF n
  <1>3. (n - (k + 1)) + 1 = n - k /\ n - k \in Nat
    BY <1>1 DEF n
  <1>4. \A i \in 1..(n - k) : (i + (k + 1)) - 1 = k + i /\ k + i \in 1..n
    BY <1>1, <1>3
  <1>5. SubSeq(s, k + 1, n) = [i \in 1..(n - k) |-> s[k + i]]
    BY <1>2, <1>3, <1>4
  <1> DEFINE r == [i \in 1..(n - k) |-> s[k + i]]
  <1>6. \A i \in 1..(n - k) : r[i] = s[k + i] /\ s[k + i] \in S
    BY <1>1, <1>4
  <1>7. r \in Seq(S) /\ Len(r) = n - k
    BY <1>1, <1>3, <1>4
  <1> HIDE DEF r
  <1> QED
    BY <1>5, <1>6, <1>7 DEF n, r

\* The page reads on from where its complete lines end.
LEMMA PageTells ==
    ASSUME Checkpoints, MetricsFollow, PageReads
    PROVE  MetricsFollow'
  <1> DEFINE k == Len(page.lines)
             n == Len(metrics.lines)
             more == SubSeq(metrics.lines, k + 1, n)
  <1>1. /\ UNCHANGED <<args, mem, line, metrics, pipe, child, pc>>
        /\ page' = [lines |-> page.lines \o LinesFrom(page.offset), offset |-> NextOffset]
    BY DEF PageReads, mainVars, childVars
  <1>2. /\ metrics.lines \in Seq(Nat) /\ page.lines \in Seq(Nat) /\ page.offset = 2 * k
        /\ k \in Nat /\ n \in Nat /\ k <= n
        /\ \A i \in 1..n : metrics.lines[i] = i * Freq
        /\ \A i \in 1..k : page.lines[i] = i * Freq
    BY DEF MetricsFollow, FilesTell, MetricsExact, Freq
  <1>3. LinesFrom(page.offset) = more
    <2>1. (page.offset + 1) \div 2 = k
      <3>1. \A j \in Nat : (2 * j + 1) \div 2 = j
        OBVIOUS
      <3> HIDE DEF k
      <3> QED
        BY <1>2, <3>1
    <2> QED
      BY <2>1 DEF LinesFrom
  <1>4. /\ more \in Seq(Nat) /\ Len(more) = n - k
        /\ \A i \in 1..(n - k) : more[i] = metrics.lines[k + i]
    BY <1>2, RestIs
  <1> HIDE DEF more, n, k
  <1>5. /\ page'.lines = page.lines \o more /\ page'.offset = 2 * n
        /\ page'.lines \in Seq(Nat) /\ Len(page'.lines) = n
        /\ \A i \in 1..n : page'.lines[i] = IF i <= k THEN page.lines[i] ELSE more[i - k]
    <2>1. page'.lines = page.lines \o more /\ page'.offset = 2 * n
      BY <1>1, <1>3 DEF NextOffset, n
    <2>2. Len(page.lines) = k
      BY DEF k
    <2>3. k + (n - k) = n
      BY <1>2
    <2> DEFINE whole == page.lines \o more
    <2>4. /\ whole \in Seq(Nat) /\ Len(whole) = Len(page.lines) + Len(more)
          /\ \A i \in 1..(Len(page.lines) + Len(more)) :
                whole[i] = IF i <= Len(page.lines) THEN page.lines[i] ELSE more[i - Len(page.lines)]
      <3>1. page.lines \in Seq(Nat) /\ more \in Seq(Nat)
        BY <1>2, <1>4
      <3> QED
        BY ONLY <3>1, ConcatProperties
    <2> HIDE DEF whole
    <2>5. Len(page.lines) + Len(more) = n
      BY <1>4, <2>2, <2>3
    <2>6. page'.lines = whole
      BY <2>1 DEF whole
    <2> QED
      BY <2>1, <2>2, <2>4, <2>5, <2>6
  <1>6. ASSUME NEW i \in 1..n PROVE page'.lines[i] = i * Freq
    <2>1. CASE i <= k
      BY <1>2, <1>5, <2>1
    <2>2. CASE ~(i <= k)
      <3>1. i - k \in 1..(n - k) /\ k + (i - k) = i
        BY <1>2, <2>2
      <3> QED
        BY <1>2, <1>4, <1>5, <2>2, <3>1
    <2> QED
      BY <2>1, <2>2
  <1>7. FilesTell'
    <2>1. MetricsExact'
      BY <1>1, <1>5, <1>6 DEF MetricsExact, Freq
    <2>2. page'.offset = 2 * Len(page'.lines) /\ Len(page'.lines) <= Len(metrics.lines)
      BY <1>2, <1>5 DEF n
    <2> QED
      BY <1>1, <1>5, <2>1, <2>2 DEF MetricsFollow, FilesTell, Freq
  <1> QED
    BY <1>1, <1>7 DEF MetricsFollow, PipeTyped, PipeTells, Tells, RecordsResolved, Freq

\* lerobot logs, or does something else.
LEMMA ChildTells ==
    ASSUME Checkpoints, MetricsFollow, Lerobot \/ ChildDies \/ RunnerKills \/ OutsideKill
    PROVE  MetricsFollow'
  <1>1. /\ UNCHANGED <<args, mem, line, metrics, page>>
        /\ pc' = pc \/ (pc' = "killed" /\ pc \notin Before)
    BY ChildSteps DEF Checkpoints
  <1>2. ASSUME UNCHANGED pipe, child'.step = child.step PROVE MetricsFollow'
    BY <1>1, <1>2, StillTells DEF Ended, Before, Unstarted
  <1>3. CASE Boot \/ Fail \/ SaveLine
    <2>1. /\ child'.step = child.step /\ UNCHANGED pc
          /\ \/ UNCHANGED pipe
             \/ \E kind \in {"wandb", "oom", "error", "save"} :
                   pipe' = Append(pipe, [NoLine EXCEPT !.kind = kind])
      BY <1>3, ChildAt DEF Boot, Fail, SaveLine, Say, At, Child, Checkpoints, Shapes
    <2>2. ASSUME NEW kind \in {"wandb", "oom", "error", "save"},
                 pipe' = Append(pipe, [NoLine EXCEPT !.kind = kind])
          PROVE  MetricsFollow'
      <3> DEFINE l == [NoLine EXCEPT !.kind = kind]
      <3>1. IsLine(l) /\ l.kind # "metrics"
        BY DEF NoLine, IsLine
      <3>2. pipe' = Append(pipe, l)
        BY <2>2
      <3> HIDE DEF l
      <3> QED
        BY <1>1, <2>1, <3>1, <3>2, LoggedTells
    <2> QED
      BY <1>2, <2>1, <2>2
  <1>4. CASE Train
    <2>1. /\ UNCHANGED pc /\ child'.step = child.step + 1
          /\ IF (child.step + 1) % Freq = 0
             THEN pipe' = Append(pipe, [kind |-> "metrics", step |-> 0, token |-> Token(child.step + 1),
                                        rounded |-> child.step + 1 >= Kilo])
             ELSE UNCHANGED pipe
      <3>1. child' = [child EXCEPT !.step = child.step + 1,
                                   !.at = IF child.step + 1 \in SavedSteps(args) THEN "save" ELSE "train"]
        BY <1>4 DEF Train
      <3>2. child'.step = child.step + 1
        BY <3>1 DEF Checkpoints, Shapes
      <3> QED
        BY <1>4, <3>2 DEF Train, Say, Child, Freq
    <2>2. CASE (child.step + 1) % Freq = 0
      <3> DEFINE l == [kind |-> "metrics", step |-> 0, token |-> Token(child.step + 1),
                       rounded |-> child.step + 1 >= Kilo]
      <3>1. /\ IsLine(l) /\ l.kind = "metrics" /\ l.token = Token(child.step + 1)
            /\ l.rounded <=> child.step + 1 >= Kilo
        BY DEF IsLine
      <3>2. pipe' = Append(pipe, l)
        BY <2>1, <2>2
      <3> HIDE DEF l
      <3> QED
        BY <1>1, <2>1, <2>2, <3>1, <3>2, LoggedTells
    <2>3. CASE (child.step + 1) % Freq # 0
      <3>1. PICK st \in [0..Len(pipe) -> Nat] : pc \notin Ended =>
                /\ Tells(st, RecordsResolved, pipe)
                /\ st[Len(pipe)] * Freq <= child.step /\ child.step < (st[Len(pipe)] + 1) * Freq
        <4>1. CASE pc \in Ended
          <5>1. [i \in 0..Len(pipe) |-> 0] \in [0..Len(pipe) -> Nat]
            OBVIOUS
          <5> QED
            BY <4>1, <5>1
        <4>2. CASE pc \notin Ended
          BY <4>2 DEF MetricsFollow, PipeTells
        <4> QED
          BY <4>1, <4>2
      <3> DEFINE k == st[Len(pipe)]
      <3>2. /\ Freq \in Nat \ {0} /\ child.step \in Nat /\ k \in Nat
        <4>1. Freq \in Nat \ {0} /\ Steps \in Nat
          BY ArgsKnown DEF Checkpoints
        <4>2. child.step \in Nat
          BY <4>1 DEF Checkpoints, SavesInOrder
        <4>3. Len(pipe) \in Nat
          BY DEF MetricsFollow, PipeTyped
        <4> QED
          BY <3>1, <4>1, <4>2, <4>3
      <3>3. pc \notin Ended => k * Freq <= child'.step /\ child'.step < (k + 1) * Freq
        <4>1. SUFFICES ASSUME pc \notin Ended
                       PROVE  k * Freq <= child'.step /\ child'.step < (k + 1) * Freq
          OBVIOUS
        <4>2. k * Freq <= child.step /\ child.step < (k + 1) * Freq
          BY <3>1, <4>1
        <4> HIDE DEF k
        <4>3. child.step + 1 # (k + 1) * Freq
          BY <2>3, <3>2, <4>2, NextMultiple
        <4> QED
          BY <2>1, <3>2, <4>2, <4>3
      <3>4. UNCHANGED pipe /\ RecordsResolved' = RecordsResolved /\ Freq' = Freq
        BY <1>1, <2>1, <2>3 DEF RecordsResolved, Freq
      <3>5. pc' \notin Ended => mem'.prev = RecordsResolved' * Freq' /\ PipeTells'
        BY <1>1, <2>1, <3>1, <3>3, <3>4 DEF MetricsFollow, PipeTells, Tells
      <3>6. FilesTell' /\ PipeTyped'
        BY <1>1, <2>1, <3>4 DEF MetricsFollow, FilesTell, MetricsExact, PipeTyped, Freq
      <3> QED
        BY <1>1, <2>1, <3>5, <3>6 DEF MetricsFollow
    <2> QED
      BY <2>2, <2>3
  <1>5. CASE MakeCheckpoint \/ WriteCheckpoint \/ Unlink \/ Link \/ Finish \/ ChildDies
    <2>1. UNCHANGED pipe /\ child'.step = child.step
      BY <1>5 DEF MakeCheckpoint, WriteCheckpoint, Unlink, Link, Finish, ChildDies, At,
         Checkpoints, Shapes
    <2> QED
      BY <1>2, <2>1
  <1>6. CASE RunnerKills \/ OutsideKill
    <2>1. UNCHANGED pipe /\ child' \in {child, [child EXCEPT !.at = "gone", !.rc = 137]}
      BY <1>6 DEF RunnerKills, OutsideKill, Killed
    <2>2. child'.step = child.step
      BY <2>1 DEF Checkpoints, Shapes
    <2> QED
      BY <1>2, <2>1, <2>2
  <1> QED
    BY <1>3, <1>4, <1>5, <1>6 DEF Lerobot

\* Steps that only move train.py on, told by their footprint.
LEMMA QuietTells ==
    ASSUME Checkpoints, MetricsFollow, Quiet, UNCHANGED <<metrics, page>>,
           pc' \notin Ended => pc \notin Ended,
           \/ UNCHANGED line /\ (pc' = pc \/ pc' = "killed")
           \/ pc \notin {"metrics", "half"} /\ pc' \notin {"metrics", "half"}
    PROVE  MetricsFollow'
  <1>1. UNCHANGED <<args, pipe>> /\ child'.step = child.step /\ mem'.prev = mem.prev
    BY DEF Quiet, childVars
  <1> QED
    BY <1>1, StillTells DEF Quiet, Ended, Before, Unstarted

\* Every step keeps the metrics exact.
LEMMA MetricsKept ==
    ASSUME Checkpoints, MetricsFollow, Checkpoints', [Next]_vars
    PROVE  MetricsFollow'
  <1>1. CASE Check
    BY <1>1, StillTells DEF Check, mainVars, childVars, Ended, Before, Unstarted
  <1>2. CASE Submit
    BY <1>2, SubmitTells
  <1>3. CASE Spawn
    <2>1. /\ UNCHANGED <<args, mem, line, metrics, page, pipe>> /\ pc = "begun" /\ pc' = "spawning"
          /\ child' = [child EXCEPT !.at = "boot"]
      BY <1>3 DEF Spawn, Goto, mainVars
    <2>2. child'.step = child.step
      BY <2>1, ChildAt DEF Checkpoints
    <2> QED
      BY <2>1, <2>2, StillTells DEF Ended, Before, Unstarted
  <1>4. CASE TakeLine
    BY <1>4, TakeTells
  <1>5. CASE Announce
    <2>1. /\ UNCHANGED <<args, line, metrics, page, pipe, child>> /\ mem'.prev = mem.prev
          /\ pc = "refresh" /\ pc' \in {"prune", "list"}
      BY <1>5 DEF Announce, Goto, childVars, Checkpoints, Shapes
    <2> QED
      BY <2>1, StillTells DEF Ended, Before, Unstarted
  <1>6. CASE Prune
    <2>1. /\ UNCHANGED <<args, mem, line, metrics, page, pipe, child>>
          /\ pc = "prune" /\ pc' \in {"prune", "list"}
      BY <1>6 DEF Prune, Goto, mainVars
    <2> QED
      BY <2>1, StillTells DEF Ended, Before, Unstarted
  <1>7. CASE Lerobot \/ ChildDies \/ RunnerKills \/ OutsideKill
    BY <1>7, ChildTells
  <1>8. CASE PageReads
    BY <1>8, PageTells
  <1>9. CASE (Rival \/ Stop \/ StopReturns \/ JobEnds \/ UNCHANGED vars) /\ ~PageReads
    BY <1>9, LabQuiet, QuietTells DEF Checkpoints
  <1>10. CASE Launch /\ ~Spawn
    BY <1>10, LaunchQuiet, QuietTells DEF Checkpoints
  <1>11. CASE WriteMetrics
    BY <1>11, WriteTells
  <1>12. CASE (EndOfLog \/ List \/ Note \/ Noted \/ WriteResult \/ Close) /\ ~WriteMetrics
    BY <1>12, FollowQuiet, QuietTells DEF Checkpoints
  <1>13. CASE OnSignal \/ DieOfSignal
    BY <1>13, SignalQuiet, QuietTells DEF Checkpoints, Ended
  <1> QED
    BY <1>1, <1>2, <1>3, <1>4, <1>5, <1>6, <1>7, <1>8, <1>9, <1>10, <1>11, <1>12, <1>13
       DEF Next, Lab, Launch, Follow, Signals, Rest

\* They hold of a run that was only asked for.
LEMMA InitMetrics == Init => MetricsFollow
  <1> HAVE Init
  <1>1. /\ pipe = <<>> /\ child.step = 0 /\ mem.prev = 0 /\ pc = "asked"
        /\ metrics = [lines |-> <<>>, half |-> FALSE] /\ page = [lines |-> <<>>, offset |-> 0]
    BY DEF Init, NoMem
  <1>2. Freq \in Nat \ {0}
    BY InitCheckpoints, ArgsKnown DEF Checkpoints
  <1>3. FilesTell /\ PipeTyped /\ RecordsResolved = 0
    BY <1>1 DEF FilesTell, MetricsExact, PipeTyped, RecordsResolved
  <1>4. PipeTells
    <2>0. PICK st : st = [i \in 0..0 |-> 0]
      OBVIOUS
    <2>1. st \in [0..0 -> Nat] /\ st[0] = 0 /\ Len(pipe) = 0 /\ DOMAIN pipe = {}
      BY <1>1, <2>0
    <2>2. st \in [0..Len(pipe) -> Nat] /\ Tells(st, 0, pipe)
      BY <2>1 DEF Tells
    <2>3. st[Len(pipe)] * Freq <= child.step /\ child.step < (st[Len(pipe)] + 1) * Freq
      BY <1>1, <1>2, <2>1
    <2> QED
      BY <1>3, <2>2, <2>3 DEF PipeTells
  <1>5. mem.prev = RecordsResolved * Freq
    <2>1. \A f \in Nat : 0 * f = 0
      OBVIOUS
    <2> QED
      BY <1>1, <1>2, <1>3, <2>1
  <1> QED
    BY <1>1, <1>3, <1>4, <1>5 DEF MetricsFollow

\* The page has each record once and in order, with the step lerobot logged, for any
\* frequency, any capacity of the pipe and any rounding (train.py, resolve_step;
\* training.py, read_metrics).
THEOREM MetricsAreExact == Spec => []MetricsExact
  <1>1. (Checkpoints /\ MetricsFollow) /\ [Next]_vars => (Checkpoints /\ MetricsFollow)'
    BY CheckpointsKept, MetricsKept
  <1>2. Init => Checkpoints /\ MetricsFollow
    BY InitCheckpoints, InitMetrics
  <1>3. MetricsFollow => MetricsExact
    BY DEF MetricsFollow, FilesTell
  <1> QED
    BY <1>1, <1>2, <1>3, PTL DEF Spec

-------------------------------------------------------------------------------
(* The CHECKPOINT lines.                                                   *)

Ends == {"refresh", "prune", "list", "result", "closing", "over", "killed"}

\* The lines so far are for the saves up to the newest that train.py has seen; no
\* later one has been pruned.
LinesGiven ==
    /\ out \in Seq(Nat) /\ \A i, j \in 1..Len(out) : i < j => out[i] < out[j]
    /\ mem.status.ckpt \in 0..saved /\ mem.seen <= mem.status.ckpt
    /\ \A i \in 1..Len(out) : out[i] \in SavedSteps(args) /\ out[i] <= mem.status.ckpt
    /\ \A s \in SavedSteps(args) : s <= mem.status.ckpt => \E i \in 1..Len(out) : out[i] = s
    /\ \A s \in SavedSteps(args) : mem.status.ckpt < s /\ s <= saved => s \in DOMAIN disk

\* Where `last` is, and what a finished lerobot leaves.
LerobotEnds ==
    /\ child.at \notin {"link", "gone"} => last = saved
    /\ child.at # "gone" => child.rc = -1
    /\ child.rc = 0 => last = Steps /\ saved = Steps

\* At the end of the log lerobot is gone and its last save has been seen.
AllSeen ==
    /\ line.kind = "eof" => pc \in Ends
    /\ line.kind = "eof" \/ pc \in {"result", "closing", "over"} => ~Alive
    /\ (line.kind = "eof" /\ pc \in {"prune", "list"}) \/ pc \in {"result", "closing", "over"} =>
          (child.rc = 0 => mem.status.ckpt = Steps)

Lines == LinesGiven /\ LerobotEnds /\ AllSeen

\* A set with 0 that is closed under successor has every natural number.
LEMMA NatSets ==
    ASSUME NEW S, 0 \in S, \A n \in Nat : n \in S => n + 1 \in S
    PROVE  Nat \subseteq S
  <1> DEFINE T == {n \in Nat : n \notin S}
  <1>1. SUFFICES ASSUME T # {} PROVE FALSE
    OBVIOUS
  <1>2. PICK x \in T : \A y \in T : x <= y
    <2>1. T \subseteq Nat
      OBVIOUS
    <2> HIDE DEF T
    <2> QED
      BY <1>1, <2>1, LeastOf
  <1>3. x \in Nat /\ x \notin S /\ x # 0
    BY <1>2
  <1>4. x - 1 \in Nat /\ x - 1 < x /\ (x - 1) + 1 = x
    BY <1>3
  <1>5. x - 1 \notin T
    BY <1>2, <1>3, <1>4
  <1> QED
    BY <1>3, <1>4, <1>5

\* The numbers of S in order, each once.
InOrder(q, n, S) ==
    /\ q \in [1..n -> S]
    /\ \A s \in S : \E i \in 1..n : q[i] = s
    /\ \A i, j \in 1..n : i < j => q[i] < q[j]

\* The least of S goes before the others in order.
LEMMA LeastFirst ==
    ASSUME NEW S, S \subseteq Nat, NEW x \in S, \A t \in S : x <= t,
           NEW n \in Nat, NEW q, InOrder(q, n, S \ {x})
    PROVE  \E to : InOrder(to, n + 1, S)
  <1> DEFINE to == [i \in 1..(n + 1) |-> IF i = 1 THEN x ELSE q[i - 1]]
  <1>1. \A i \in 1..(n + 1) : i # 1 => i - 1 \in 1..n
    OBVIOUS
  <1>2. /\ q \in [1..n -> S \ {x}] /\ \A s \in S \ {x} : \E i \in 1..n : q[i] = s
        /\ \A i, j \in 1..n : i < j => q[i] < q[j]
    BY DEF InOrder
  <1>3. ASSUME NEW i \in 1..n PROVE q[i] \in S /\ x < q[i]
    <2>1. q[i] \in S \ {x}
      BY <1>2
    <2>2. q[i] \in Nat /\ x \in Nat /\ x <= q[i] /\ x # q[i]
      BY <2>1
    <2> QED
      BY <2>1, <2>2
  <1>4. to \in [1..(n + 1) -> S]
    BY <1>1, <1>3
  <1>5. to[1] = x /\ \A i \in 1..(n + 1) : i # 1 => to[i] = q[i - 1]
    OBVIOUS
  <1> HIDE DEF to
  <1>6. ASSUME NEW s \in S PROVE \E i \in 1..(n + 1) : to[i] = s
    <2>1. CASE s = x
      <3>1. 1 \in 1..(n + 1)
        OBVIOUS
      <3> QED
        BY <1>5, <2>1, <3>1
    <2>2. CASE s # x
      <3>1. PICK i \in 1..n : q[i] = s
        BY <1>2, <2>2
      <3>2. i + 1 \in 1..(n + 1) /\ i + 1 # 1 /\ (i + 1) - 1 = i
        OBVIOUS
      <3>3. to[i + 1] = s
        BY <1>5, <3>1, <3>2
      <3> QED
        BY <3>2, <3>3
    <2> QED
      BY <2>1, <2>2
  <1>7. ASSUME NEW i \in 1..(n + 1), NEW j \in 1..(n + 1), i < j PROVE to[i] < to[j]
    <2>1. j # 1 /\ to[j] = q[j - 1] /\ j - 1 \in 1..n
      BY <1>1, <1>5, <1>7
    <2>2. CASE i = 1
      BY <1>3, <1>5, <2>1, <2>2
    <2>3. CASE i # 1
      <3>1. to[i] = q[i - 1] /\ i - 1 \in 1..n /\ i - 1 < j - 1
        BY <1>1, <1>5, <1>7, <2>3
      <3> QED
        BY <1>2, <2>1, <3>1
    <2> QED
      BY <2>2, <2>3
  <1> QED
    BY <1>4, <1>6, <1>7 DEF InOrder

\* Every finite set of numbers can be put in order.
LEMMA FiniteInOrder ==
    ASSUME NEW S, S \subseteq Nat, IsFiniteSet(S)
    PROVE  \E q : InOrder(q, Cardinality(S), S)
  <1> DEFINE G == {n \in Nat : \A T \in SUBSET Nat :
                      IsFiniteSet(T) /\ Cardinality(T) = n => \E q : InOrder(q, n, T)}
  <1>1. 0 \in G
    <2>1. SUFFICES ASSUME NEW T \in SUBSET Nat, IsFiniteSet(T), Cardinality(T) = 0
                   PROVE  \E q : InOrder(q, 0, T)
      OBVIOUS
    <2>2. T = {}
      BY <2>1, FS_EmptySet
    <2>3. [i \in 1..0 |-> i] \in [1..0 -> T]
      OBVIOUS
    <2>4. InOrder([i \in 1..0 |-> i], 0, T)
      BY <2>2, <2>3 DEF InOrder
    <2> QED
      BY <2>4
  <1>2. ASSUME NEW n \in Nat, n \in G PROVE n + 1 \in G
    <2>1. SUFFICES ASSUME NEW T \in SUBSET Nat, IsFiniteSet(T), Cardinality(T) = n + 1
                   PROVE  \E q : InOrder(q, n + 1, T)
      OBVIOUS
    <2>2. T # {}
      BY <2>1, FS_EmptySet
    <2>3. PICK x \in T : \A t \in T : x <= t
      BY <2>2, LeastOf
    <2>4. IsFiniteSet(T \ {x}) /\ Cardinality(T \ {x}) = n
      BY <2>1, FS_RemoveElement
    <2>5. PICK q : InOrder(q, n, T \ {x})
      BY <1>2, <2>4
    <2> QED
      BY <2>3, <2>5, LeastFirst
  <1>3. Nat \subseteq G
    <2> HIDE DEF G
    <2> QED
      BY <1>1, <1>2, NatSets
  <1>4. Cardinality(S) \in Nat
    BY FS_CardinalityType
  <1> QED
    BY <1>3, <1>4

\* So Ordered puts it in order.
LEMMA OrderedIs ==
    ASSUME NEW S, S \subseteq Nat, IsFiniteSet(S)
    PROVE  /\ Ordered(S) \in Seq(S) /\ Len(Ordered(S)) = Cardinality(S)
           /\ InOrder(Ordered(S), Len(Ordered(S)), S)
  <1> DEFINE n == Cardinality(S)
             Good(q) == /\ \A s \in S : \E i \in DOMAIN q : q[i] = s
                        /\ \A i, j \in DOMAIN q : i < j => q[i] < q[j]
  <1>1. n \in Nat
    BY FS_CardinalityType
  <1>2. PICK w : InOrder(w, n, S)
    BY FiniteInOrder
  <1>3. w \in [1..n -> S] /\ Good(w)
    BY <1>2 DEF InOrder
  <1>4. Ordered(S) = CHOOSE q \in [1..n -> S] : Good(q)
    BY DEF Ordered
  <1>5. Ordered(S) \in [1..n -> S] /\ Good(Ordered(S))
    <2> HIDE DEF n, Good
    <2> QED
      BY <1>3, <1>4
  <1>6. Ordered(S) \in Seq(S) /\ Len(Ordered(S)) = n
    <2> HIDE DEF n
    <2> QED
      BY <1>1, <1>5
  <1> QED
    BY <1>5, <1>6 DEF InOrder

\* A step beside the lines and beside lerobot.
LEMMA LinesStay ==
    ASSUME Lines, UNCHANGED <<args, out, child, disk, last, saved>>,
           mem'.seen = mem.seen, mem'.status.ckpt = mem.status.ckpt, AllSeen'
    PROVE  Lines'
  BY DEF Lines, LinesGiven, LerobotEnds, Steps

\* The job is queued before any line.
LEMMA SubmitLines ==
    ASSUME Checkpoints, Checkpoints', Lines, Check \/ Submit
    PROVE  Lines'
  <1>1. /\ pc \in Before /\ pc' \notin Ends /\ UNCHANGED <<mem, line, child, disk, last, saved, out>>
        /\ mem.status.ckpt = 0 /\ saved = 0 /\ mem.seen = 0 /\ child.at = "none"
    BY DEF Check, Submit, mainVars, childVars, Before, Ends, Checkpoints, NotYet
  <1>2. out = <<>>
    <2>1. SavedSteps(args) \subseteq 1..Steps /\ Steps \in Nat
      BY SavedStepsAre, ArgsKnown DEF Checkpoints
    <2>2. \A i \in 1..Len(out) : out[i] \in SavedSteps(args) /\ out[i] <= 0
      BY <1>1 DEF Lines, LinesGiven
    <2>3. 1 \notin 1..Len(out)
      BY <2>1, <2>2
    <2> QED
      BY <2>3 DEF Lines, LinesGiven
  <1>3. SavedSteps(args') \subseteq 1..Steps' /\ Steps' \in Nat
    <2>1. (Asked => SavedSteps(args) \subseteq 1..Steps /\ Steps \in SavedSteps(args))'
      BY SavedStepsAre, PTL
    <2>2. (Asked => Steps \in Nat \ {0} /\ args.save_freq.is \in Nat \ {0} /\ Freq \in Nat \ {0})'
      BY ArgsKnown, PTL
    <2> QED
      BY <2>1, <2>2 DEF Checkpoints
  <1>4. LinesGiven'
    BY <1>1, <1>2, <1>3 DEF Lines, LinesGiven
  <1>5. LerobotEnds'
    BY <1>1 DEF Lines, LerobotEnds
  <1>6. AllSeen'
    BY <1>1 DEF Lines, AllSeen, Ends, Before
  <1> QED
    BY <1>4, <1>5, <1>6 DEF Lines

\* The steps that are announced together are on disk, saved and not announced yet.
LEMMA NewLines ==
    ASSUME Checkpoints, LinesGiven, last # 0
    PROVE  LET new == Ordered(NewlyComplete(last)) IN
           /\ last = saved /\ new \in Seq(Nat)
           /\ \A i, j \in 1..Len(new) : i < j => new[i] < new[j]
           /\ \A i \in 1..Len(new) :
                 new[i] \in SavedSteps(args) /\ mem.status.ckpt < new[i] /\ new[i] <= last
           /\ \A s \in SavedSteps(args) : mem.status.ckpt < s /\ s <= last =>
                 \E i \in 1..Len(new) : new[i] = s
  <1> DEFINE S == NewlyComplete(last)
             new == Ordered(S)
  <1>1. /\ last = saved /\ DOMAIN disk \subseteq SavedSteps(args)
        /\ SavedSteps(args) \subseteq 1..Steps /\ Steps \in Nat
    BY SavedStepsAre, ArgsKnown DEF Checkpoints, SavesInOrder, OnDisk
  <1>2. S \subseteq 1..Steps /\ S \subseteq Nat /\ IsFiniteSet(S)
    <2>1. S \subseteq 1..Steps
      BY <1>1 DEF NewlyComplete
    <2>2. IsFiniteSet(1..Steps)
      BY <1>1, FS_Interval
    <2>3. 1..Steps \subseteq Nat
      BY <1>1
    <2> HIDE DEF S
    <2>4. IsFiniteSet(S)
      BY <2>1, <2>2, FS_Subset
    <2> QED
      BY <2>1, <2>3, <2>4
  <1>3. new \in Seq(S) /\ InOrder(new, Len(new), S)
    BY <1>2, OrderedIs
  <1>4. \A s \in S : s \in SavedSteps(args) /\ mem.status.ckpt < s /\ s <= last
    BY <1>1 DEF NewlyComplete
  <1>5. \A s \in SavedSteps(args) : mem.status.ckpt < s /\ s <= last => s \in S
    BY <1>1 DEF NewlyComplete, LinesGiven
  <1> HIDE DEF S, new
  <1>6. new \in Seq(Nat)
    <2>1. new \in [1..Len(new) -> S] /\ Len(new) \in Nat
      BY <1>3 DEF InOrder
    <2>2. new \in [1..Len(new) -> Nat]
      BY <1>2, <2>1
    <2> QED
      BY <2>1, <2>2
  <1>7. /\ \A i \in 1..Len(new) : new[i] \in S
        /\ \A s \in S : \E i \in 1..Len(new) : new[i] = s
        /\ \A i, j \in 1..Len(new) : i < j => new[i] < new[j]
    BY <1>3 DEF InOrder
  <1> QED
    BY <1>1, <1>4, <1>5, <1>6, <1>7 DEF S, new

\* Two increasing sequences, the second above the first, make one.
LEMMA Joined ==
    ASSUME NEW p \in Seq(Nat), NEW q \in Seq(Nat), NEW c \in Nat,
           \A i, j \in 1..Len(p) : i < j => p[i] < p[j],
           \A i, j \in 1..Len(q) : i < j => q[i] < q[j],
           \A i \in 1..Len(p) : p[i] <= c, \A i \in 1..Len(q) : c < q[i]
    PROVE  /\ p \o q \in Seq(Nat)
           /\ \A i, j \in 1..Len(p \o q) : i < j => (p \o q)[i] < (p \o q)[j]
           /\ \A i \in 1..Len(p \o q) :
                 \/ \E j \in 1..Len(p) : (p \o q)[i] = p[j]
                 \/ \E j \in 1..Len(q) : (p \o q)[i] = q[j]
           /\ \A j \in 1..Len(p) : \E i \in 1..Len(p \o q) : (p \o q)[i] = p[j]
           /\ \A j \in 1..Len(q) : \E i \in 1..Len(p \o q) : (p \o q)[i] = q[j]
  <1> DEFINE m == Len(p)
             n == Len(q)
             r == p \o q
  <1>1. /\ r \in Seq(Nat) /\ Len(r) = m + n /\ m \in Nat /\ n \in Nat
        /\ \A i \in 1..(m + n) : r[i] = IF i <= m THEN p[i] ELSE q[i - m]
    BY ConcatProperties
  <1>2. (\A i \in 1..m : p[i] \in Nat) /\ \A i \in 1..n : q[i] \in Nat
    OBVIOUS
  <1>3. /\ \A i, j \in 1..m : i < j => p[i] < p[j]
        /\ \A i, j \in 1..n : i < j => q[i] < q[j]
        /\ (\A i \in 1..m : p[i] <= c) /\ \A i \in 1..n : c < q[i]
    OBVIOUS
  <1> HIDE DEF m, n, r
  <1>4. \A i \in 1..(m + n) : \/ i \in 1..m /\ r[i] = p[i]
                              \/ i > m /\ i - m \in 1..n /\ r[i] = q[i - m]
    BY <1>1
  <1>5. ASSUME NEW i \in 1..(m + n), NEW j \in 1..(m + n), i < j PROVE r[i] < r[j]
    <2>1. CASE j \in 1..m /\ r[j] = p[j]
      <3>1. i \in 1..m /\ r[i] = p[i]
        BY <1>1, <1>5, <2>1
      <3> QED
        BY <1>3, <1>5, <2>1, <3>1
    <2>2. CASE j > m /\ j - m \in 1..n /\ r[j] = q[j - m]
      <3>1. CASE i \in 1..m /\ r[i] = p[i]
        <4>1. p[i] <= c /\ c < q[j - m] /\ p[i] \in Nat /\ q[j - m] \in Nat
          BY <1>2, <1>3, <2>2, <3>1
        <4> QED
          BY <2>2, <3>1, <4>1
      <3>2. CASE i > m /\ i - m \in 1..n /\ r[i] = q[i - m]
        <4>1. i - m < j - m
          BY <1>1, <1>5
        <4>2. q[i - m] < q[j - m]
          BY <1>3, <2>2, <3>2, <4>1
        <4> QED
          BY <2>2, <3>2, <4>2
      <3> QED
        BY <1>4, <3>1, <3>2
    <2> QED
      BY <1>4, <2>1, <2>2
  <1>6. ASSUME NEW j \in 1..m PROVE j \in 1..(m + n) /\ r[j] = p[j]
    BY <1>1
  <1>7. ASSUME NEW j \in 1..n PROVE m + j \in 1..(m + n) /\ r[m + j] = q[j]
    <2>1. m + j \in 1..(m + n) /\ ~(m + j <= m) /\ (m + j) - m = j
      BY <1>1
    <2> QED
      BY <1>1, <2>1
  <1> QED
    BY <1>1, <1>4, <1>5, <1>6, <1>7 DEF m, n, r

\* train.py looks at `last` and has a line for each checkpoint that is new to it.
LEMMA AnnounceLines ==
    ASSUME Checkpoints, Lines, Announce
    PROVE  Lines'
  <1>1. /\ pc = "refresh" /\ pc' \in {"prune", "list"}
        /\ UNCHANGED <<args, line, child, disk, last, saved>>
        /\ out' = out \o Ordered(NewlyComplete(last))
        /\ mem'.seen = last /\ mem'.status.ckpt = IF last = 0 THEN mem.status.ckpt ELSE last
    BY DEF Announce, Goto, childVars, Checkpoints, Shapes
  <1>2. /\ saved \in Nat /\ last \in {0, saved} /\ mem.status.ckpt \in 0..saved /\ out \in Seq(Nat)
        /\ DOMAIN disk \subseteq SavedSteps(args)
        /\ SavedSteps(args) \subseteq 1..Steps /\ Steps \in Nat
    BY SavedStepsAre, ArgsKnown DEF Checkpoints, SavesInOrder, OnDisk, Lines, LinesGiven
  <1>3. LerobotEnds'
    BY <1>1 DEF Lines, LerobotEnds, Steps
  <1>4. AllSeen'
    <2>1. args.steps.is # 0
      BY ArgsKnown DEF Checkpoints, Steps
    <2> QED
      BY <1>1, <2>1 DEF Lines, AllSeen, LerobotEnds, Alive, Steps, Ends
  <1>5. CASE last = 0
    <2>1. NewlyComplete(last) = {}
      BY <1>2, <1>5 DEF NewlyComplete
    <2>2. Ordered({}) = <<>>
      <3>1. Ordered({}) \in Seq({}) /\ Len(Ordered({})) = 0
        BY OrderedIs, FS_EmptySet
      <3> QED
        BY <3>1
    <2>3. out' = out
      BY <1>1, <1>2, <2>1, <2>2
    <2>4. mem'.status.ckpt = mem.status.ckpt /\ mem'.seen = 0
      BY <1>1, <1>5
    <2>5. mem'.seen <= mem'.status.ckpt
      BY <1>2, <2>4
    <2>6. LinesGiven'
      BY <1>1, <2>3, <2>4, <2>5 DEF Lines, LinesGiven
    <2> QED
      BY <1>3, <1>4, <2>6 DEF Lines
  <1>6. CASE last # 0
    <2> DEFINE new == Ordered(NewlyComplete(last))
    <2>1. /\ last = saved /\ new \in Seq(Nat)
          /\ \A i, j \in 1..Len(new) : i < j => new[i] < new[j]
          /\ \A i \in 1..Len(new) :
                new[i] \in SavedSteps(args) /\ mem.status.ckpt < new[i] /\ new[i] <= last
          /\ \A s \in SavedSteps(args) : mem.status.ckpt < s /\ s <= last =>
                \E i \in 1..Len(new) : new[i] = s
      BY <1>6, NewLines DEF Lines
    <2> HIDE DEF new
    <2>2. /\ \A i, j \in 1..Len(out) : i < j => out[i] < out[j]
          /\ \A i \in 1..Len(out) : out[i] \in SavedSteps(args) /\ out[i] <= mem.status.ckpt
          /\ \A s \in SavedSteps(args) : s <= mem.status.ckpt => \E i \in 1..Len(out) : out[i] = s
      BY DEF Lines, LinesGiven
    <2>3. /\ out' \in Seq(Nat) /\ \A i, j \in 1..Len(out') : i < j => out'[i] < out'[j]
          /\ \A i \in 1..Len(out') :
                \/ \E j \in 1..Len(out) : out'[i] = out[j]
                \/ \E j \in 1..Len(new) : out'[i] = new[j]
          /\ \A j \in 1..Len(out) : \E i \in 1..Len(out') : out'[i] = out[j]
          /\ \A j \in 1..Len(new) : \E i \in 1..Len(out') : out'[i] = new[j]
      <3>1. out' = out \o new
        BY <1>1 DEF new
      <3>2. PICK c \in Nat : c = mem.status.ckpt
        BY <1>2
      <3>3. /\ out \in Seq(Nat) /\ new \in Seq(Nat)
            /\ \A i, j \in 1..Len(out) : i < j => out[i] < out[j]
            /\ \A i, j \in 1..Len(new) : i < j => new[i] < new[j]
            /\ (\A i \in 1..Len(out) : out[i] <= c) /\ (\A i \in 1..Len(new) : c < new[i])
        BY <1>2, <2>1, <2>2, <3>2
      <3>4. /\ out \o new \in Seq(Nat)
            /\ \A i, j \in 1..Len(out \o new) : i < j => (out \o new)[i] < (out \o new)[j]
            /\ \A i \in 1..Len(out \o new) :
                  \/ \E j \in 1..Len(out) : (out \o new)[i] = out[j]
                  \/ \E j \in 1..Len(new) : (out \o new)[i] = new[j]
            /\ \A j \in 1..Len(out) : \E i \in 1..Len(out \o new) : (out \o new)[i] = out[j]
            /\ \A j \in 1..Len(new) : \E i \in 1..Len(out \o new) : (out \o new)[i] = new[j]
        BY ONLY c \in Nat, <3>3, Joined
      <3> QED
        BY <3>1, <3>4
    <2>4. mem'.status.ckpt = saved /\ mem'.seen = saved
      BY <1>1, <1>6, <2>1
    <2>5. ASSUME NEW i \in 1..Len(out') PROVE out'[i] \in SavedSteps(args) /\ out'[i] <= saved
      <3>1. CASE \E j \in 1..Len(out) : out'[i] = out[j]
        BY <1>2, <2>2, <3>1
      <3>2. CASE \E j \in 1..Len(new) : out'[i] = new[j]
        BY <2>1, <3>2
      <3> QED
        BY <2>3, <3>1, <3>2
    <2>6. ASSUME NEW s \in SavedSteps(args), s <= saved PROVE \E i \in 1..Len(out') : out'[i] = s
      <3>1. s <= mem.status.ckpt \/ mem.status.ckpt < s
        BY <1>2
      <3>2. CASE s <= mem.status.ckpt
        BY <2>2, <2>3, <3>2
      <3>3. CASE mem.status.ckpt < s
        BY <2>1, <2>3, <2>6, <3>3
      <3> QED
        BY <3>1, <3>2, <3>3
    <2>7. LinesGiven'
      <3>1. mem'.status.ckpt \in 0..saved' /\ mem'.seen <= mem'.status.ckpt
        BY <1>1, <1>2, <2>4
      <3>2. \A i \in 1..Len(out') : out'[i] \in SavedSteps(args') /\ out'[i] <= mem'.status.ckpt
        BY <1>1, <2>4, <2>5
      <3>3. \A s \in SavedSteps(args') : s <= mem'.status.ckpt => \E i \in 1..Len(out') : out'[i] = s
        BY <1>1, <2>4, <2>6
      <3>4. ASSUME NEW s \in SavedSteps(args'), mem'.status.ckpt < s, s <= saved' PROVE FALSE
        BY <1>1, <1>2, <2>4, <3>4
      <3> QED
        BY <2>3, <3>1, <3>2, <3>3, <3>4 DEF LinesGiven
    <2> QED
      BY <1>3, <1>4, <2>7 DEF Lines
  <1> QED
    BY <1>5, <1>6

\* Only what is older than a checkpoint that has had its line is pruned.
LEMMA PruneLines ==
    ASSUME Checkpoints, Lines, Prune
    PROVE  Lines'
  <1> DEFINE old == {s \in DOMAIN disk : Prunable(s)}
  <1>1. /\ UNCHANGED <<args, mem, line, out, child, last, saved>>
        /\ pc = "prune" /\ pc' \in {"prune", "list"}
        /\ IF old = {} THEN UNCHANGED disk
           ELSE disk' = Pruned(CHOOSE s \in old : \A t \in old : s <= t)
    BY DEF Prune, mainVars, Goto
  <1>2. /\ old \subseteq Nat /\ mem.seen \in Nat /\ mem.status.ckpt \in Nat
        /\ mem.seen <= mem.status.ckpt /\ SavedSteps(args) \subseteq Nat
    BY SavedStepsAre DEF Checkpoints, OnDisk, SavesInOrder, Lines, LinesGiven
  <1>3. \A s \in SavedSteps(args) : mem.status.ckpt < s /\ s \in DOMAIN disk => s \in DOMAIN disk'
    <2>1. CASE old # {}
      <3>1. PICK s \in old : disk' = Pruned(s)
        <4> HIDE DEF old
        <4> QED
          BY <1>1, <1>2, <2>1, LeastOf
      <3>2. s < mem.seen
        BY <3>1 DEF Prunable
      <3>3. DOMAIN disk' \in {DOMAIN disk, DOMAIN disk \ {s}}
        BY <3>1 DEF Pruned
      <3> QED
        BY <1>2, <3>1, <3>2, <3>3
    <2> QED
      BY <1>1, <2>1
  <1>4. LinesGiven'
    BY <1>1, <1>3 DEF Lines, LinesGiven
  <1>5. AllSeen'
    BY <1>1 DEF Lines, AllSeen, Alive, Steps, Ends
  <1> QED
    BY <1>1, <1>4, <1>5 DEF Lines, LerobotEnds, Steps

\* lerobot starts, trains, fails or is killed: no more is saved, none is pruned.
LEMMA IdleLines ==
    ASSUME Checkpoints, Lines,
           Boot \/ Train \/ Fail \/ SaveLine \/ ChildDies \/ RunnerKills \/ OutsideKill
    PROVE  Lines'
  <1>1. /\ UNCHANGED <<args, mem, line, out, disk, last, saved>> /\ pc' \in {pc, "killed"}
        /\ \/ child' = child
           \/ /\ Alive /\ child'.at \notin {"link", "none"} /\ child'.rc # 0
              /\ child.at = "link" => child'.at = "gone"
              /\ child'.at # "gone" => child'.rc = child.rc
    <2> USE DEF Child, mainVars, At, Alive, Checkpoints, Shapes
    <2>1. CASE Boot \/ SaveLine
      BY <2>1 DEF Boot, SaveLine, Lines, LerobotEnds
    <2>2. CASE Train
      BY <2>2 DEF Train, Lines, LerobotEnds
    <2>3. CASE Fail \/ ChildDies \/ RunnerKills \/ OutsideKill
      <3>1. /\ UNCHANGED <<args, mem, line, out, disk, last, saved>> /\ pc' \in {pc, "killed"}
            /\ \/ child' = child
               \/ Alive /\ \E code \in {1, 137, 143} : child' = [child EXCEPT !.at = "gone", !.rc = code]
        BY <2>3 DEF Fail, ChildDies, RunnerKills, OutsideKill, Killed
      <3>3. CASE child' # child
        <4>1. PICK code \in {1, 137, 143} : Alive /\ child' = [child EXCEPT !.at = "gone", !.rc = code]
          BY <3>1, <3>3
        <4>2. child'.at = "gone" /\ child'.rc = code /\ code # 0
          BY <4>1 DEF Checkpoints, Shapes
        <4> QED
          BY <3>1, <4>1, <4>2
      <3> QED
        BY <3>1, <3>3
    <2> QED
      BY <2>1, <2>2, <2>3
  <1>2. LinesGiven'
    BY <1>1 DEF Lines, LinesGiven
  <1>3. LerobotEnds'
    BY <1>1 DEF Lines, LerobotEnds, Alive, Steps
  <1>4. AllSeen'
    BY <1>1 DEF Lines, AllSeen, Alive, Ends, Steps
  <1> QED
    BY <1>2, <1>3, <1>4 DEF Lines

\* A checkpoint is on disk before `last` points to it.
LEMMA SaveLines ==
    ASSUME Checkpoints, Lines, MakeCheckpoint \/ WriteCheckpoint \/ Unlink \/ Link
    PROVE  Lines'
  <1> USE DEF Child, mainVars, At
  <1>1. /\ UNCHANGED <<args, mem, line, out, pc>> /\ child.at \in Saving
        /\ child'.at \in Saving \cup {"train"} /\ child'.rc = child.rc /\ child'.step = child.step
        /\ DOMAIN disk \subseteq DOMAIN disk'
    BY DEF Checkpoints, Shapes, MakeCheckpoint, WriteCheckpoint, Unlink, Link, Saving
  <1>2. /\ child.rc = -1 /\ saved \in Nat /\ child.step \in Nat /\ saved < child.step
        /\ mem.status.ckpt \in 0..saved /\ SavedSteps(args) \subseteq Nat
        /\ \A s \in SavedSteps(args) : s <= child.step => s <= saved \/ s = child.step
        /\ Alive
    BY <1>1, ArgsKnown, SavedStepsAre
       DEF Checkpoints, SavesInOrder, Lines, LinesGiven, LerobotEnds, Saving, Alive
  <1>3. LerobotEnds'
    <2>1. CASE MakeCheckpoint \/ WriteCheckpoint
      <3>1. child.at \notin {"link", "gone"} /\ UNCHANGED <<last, saved>>
        BY <2>1 DEF MakeCheckpoint, WriteCheckpoint
      <3> QED
        BY <1>1, <1>2, <3>1 DEF Lines, LerobotEnds
    <2>2. CASE Unlink
      <3>1. child'.at = "link"
        BY <2>2, ChildAt DEF Unlink, Checkpoints
      <3> QED
        BY <1>1, <1>2, <3>1 DEF LerobotEnds
    <2>3. CASE Link
      BY <1>1, <1>2, <2>3 DEF Link, LerobotEnds
    <2> QED
      BY <2>1, <2>2, <2>3
  <1>4. AllSeen'
    BY <1>1, <1>2 DEF Lines, AllSeen
  <1>5. CASE ~Link
    <2>1. UNCHANGED saved
      BY <1>5 DEF MakeCheckpoint, WriteCheckpoint, Unlink
    <2>2. LinesGiven'
      BY <1>1, <2>1 DEF Lines, LinesGiven
    <2> QED
      BY <1>3, <1>4, <2>2 DEF Lines
  <1>6. CASE Link
    <2>1. saved' = child.step /\ child.step \in DOMAIN disk /\ child.at = "link"
      BY <1>6 DEF Link, Checkpoints, OnDisk
    <2>2. \A s \in SavedSteps(args) : mem.status.ckpt < s /\ s <= child.step => s \in DOMAIN disk
      BY <1>2, <2>1 DEF Lines, LinesGiven
    <2>3. mem.status.ckpt \in 0..child.step
      BY <1>2
    <2>4. LinesGiven'
      BY <1>1, <2>1, <2>2, <2>3 DEF Lines, LinesGiven
    <2> QED
      BY <1>3, <1>4, <2>4 DEF Lines
  <1> QED
    BY <1>5, <1>6

\* lerobot finishes after its last step, which it has saved.
LEMMA FinishLines ==
    ASSUME Checkpoints, Lines, Finish
    PROVE  Lines'
  <1>1. /\ UNCHANGED <<args, mem, line, out, disk, last, saved, pc>>
        /\ child.at = "train" /\ child.step = Steps /\ child'.at = "gone" /\ child'.rc = 0
    BY DEF Finish, Child, mainVars, Checkpoints, Shapes
  <1>2. saved = Steps /\ last = Steps
    <2>1. Steps \in SavedSteps(args) /\ Steps \in Nat
      BY SavedStepsAre, ArgsKnown DEF Checkpoints
    <2>2. Steps <= saved /\ saved \in 0..Steps /\ last = saved
      BY <1>1, <2>1 DEF Checkpoints, SavesInOrder, Saving, Lines, LerobotEnds
    <2> QED
      BY <2>1, <2>2
  <1>3. LinesGiven'
    BY <1>1 DEF Lines, LinesGiven
  <1>4. LerobotEnds'
    BY <1>1, <1>2 DEF LerobotEnds, Steps
  <1>5. AllSeen'
    BY <1>1 DEF Lines, AllSeen, Alive
  <1> QED
    BY <1>3, <1>4, <1>5 DEF Lines

\* train.py before it follows the log.
LEMMA LaunchLines ==
    ASSUME Checkpoints, Lines, Launch
    PROVE  Lines'
  <1>1. /\ UNCHANGED <<args, line, out, disk, last, saved>> /\ pc \in Unstarted \cup {"spawning"}
        /\ pc' \notin Ends \ {"over"}
        /\ pc' = "over" => pc \in Unstarted
        /\ child' = child \/ (Spawn /\ child' = [child EXCEPT !.at = "boot"])
    <2> USE DEF mainVars, childVars, Goto, Unstarted, Ends
    <2>1. CASE RefuseLaunch \/ Admit \/ MakeDir \/ Spawned \/ Guard
      BY <2>1 DEF RefuseLaunch, Admit, MakeDir, Spawned, Guard
    <2>2. CASE Open \/ Opened \/ SpawnFails \/ Failed
      BY <2>2 DEF Open, Opened, SpawnFails, Failed, ComposeStatus, ReplaceStatus
    <2>3. CASE Spawn
      BY <2>3 DEF Spawn
    <2> QED
      BY <2>1, <2>2, <2>3 DEF Launch
  <1>2. line.kind # "eof"
    BY <1>1 DEF Lines, AllSeen, Ends, Unstarted
  <1>3. CASE Spawn
    <2>1. UNCHANGED mem /\ child' = [child EXCEPT !.at = "boot"] /\ child.at = "none" /\ pc' = "spawning"
      BY <1>3 DEF Spawn, mainVars, Goto, Checkpoints, NotYet, Unstarted
    <2>2. child'.at = "boot" /\ child'.rc = child.rc
      BY <2>1 DEF Checkpoints, Shapes
    <2>3. LerobotEnds'
      BY <1>1, <2>1, <2>2 DEF Lines, LerobotEnds
    <2>4. LinesGiven' /\ AllSeen'
      BY <1>1, <1>2, <2>1 DEF Lines, LinesGiven, AllSeen, Ends
    <2> QED
      BY <2>3, <2>4 DEF Lines
  <1>4. CASE ~Spawn
    <2>1. Quiet /\ child' = child
      BY <1>1, <1>4, LaunchQuiet DEF Checkpoints
    <2>2. AllSeen'
      <3>1. pc' = "over" => child.at = "none" /\ child.rc = -1
        BY <1>1 DEF Checkpoints, NotYet, Lines, LerobotEnds
      <3>2. line'.kind # "eof" /\ pc' \notin {"result", "closing"}
        BY <1>1, <1>2 DEF Ends
      <3> QED
        BY <2>1, <3>1, <3>2 DEF AllSeen, Alive
    <2> QED
      BY <1>1, <2>1, <2>2, LinesStay DEF Quiet
  <1> QED
    BY <1>3, <1>4

\* What comes out of the pipe.
LEMMA HeadIsLine ==
    ASSUME PipeTyped, pipe # <<>>
    PROVE  IsLine(Head(pipe))
  <1>1. PICK S : pipe \in Seq(S)
    BY DEF PipeTyped
  <1>2. 1 \in DOMAIN pipe /\ Head(pipe) = pipe[1]
    BY <1>1
  <1> QED
    BY <1>2 DEF PipeTyped

\* train.py takes a line, notes it, or comes to the end of the log.
LEMMA FollowLines ==
    ASSUME Checkpoints, MetricsFollow, Lines,
           TakeLine \/ EndOfLog \/ WriteMetrics \/ List \/ Note \/ Noted \/ WriteResult \/ Close
    PROVE  Lines'
  <1>1. /\ UNCHANGED <<args, out, child, disk, last, saved>>
        /\ mem'.seen = mem.seen /\ mem'.status.ckpt = mem.status.ckpt
    <2>1. CASE TakeLine
      BY <2>1 DEF TakeLine, Goto, Checkpoints, Shapes
    <2>2. CASE ~TakeLine
      BY <2>2, FollowQuiet DEF Checkpoints, Quiet, childVars
    <2> QED
      BY <2>1, <2>2
  <1>2. AllSeen'
    <2> USE DEF Lines, AllSeen, Alive, Ends, Steps, Goto, mainVars, childVars
    <2>1. CASE TakeLine
      <3>1. pc = "reading" /\ pc' \in {"metrics", "refresh", "compose", "reading"}
        BY <2>1 DEF TakeLine
      <3>2. line'.kind # "eof"
        <4> DEFINE l == Head(pipe)
        <4>1. \/ l.kind = "metrics" /\ line' = [l EXCEPT !.step = ResolveStep(l, mem.prev)]
              \/ l.kind \in {"save", "wandb"} /\ line' = l
              \/ line' = NoLine
          BY <2>1 DEF TakeLine
        <4> HIDE DEF l
        <4>2. ASSUME NEW x PROVE [l EXCEPT !.step = x].kind = l.kind
          <5>1. pipe # <<>>
            BY <2>1 DEF TakeLine
          <5>2. "kind" \in DOMAIN l
            BY <5>1, HeadIsLine DEF MetricsFollow, IsLine, l
          <5> QED
            BY <5>2
        <4>3. l.kind = "metrics" /\ line' = [l EXCEPT !.step = ResolveStep(l, mem.prev)] =>
                  line'.kind = "metrics"
          BY <4>2
        <4>4. NoLine.kind = "none"
          BY DEF NoLine
        <4> QED
          BY ONLY <4>1, <4>3, <4>4
      <3> QED
        BY <3>1, <3>2
    <2>2. CASE EndOfLog
      BY <2>2 DEF EndOfLog
    <2>3. CASE WriteMetrics
      BY <2>3 DEF WriteMetrics
    <2>4. CASE List
      BY <2>4 DEF List
    <2>5. CASE Note \/ Noted
      BY <2>5 DEF Note, Noted, ComposeStatus, ReplaceStatus, NoLine
    <2>6. CASE WriteResult \/ Close
      BY <1>1, <2>6 DEF WriteResult, Close
    <2> QED
      BY <2>1, <2>2, <2>3, <2>4, <2>5, <2>6
  <1> QED
    BY <1>1, <1>2, LinesStay

\* Every step keeps them.
LEMMA LinesKept ==
    ASSUME Checkpoints, MetricsFollow, Lines, Checkpoints', [Next]_vars
    PROVE  Lines'
  <1>1. CASE Check \/ Submit
    BY <1>1, SubmitLines
  <1>2. CASE Rival \/ Stop \/ StopReturns \/ JobEnds \/ PageReads \/ UNCHANGED vars
    <2>1. Quiet /\ UNCHANGED <<mem, line, out, pc>>
      BY <1>2, LabQuiet DEF Checkpoints
    <2>2. AllSeen'
      BY <2>1 DEF Quiet, childVars, Lines, AllSeen, Alive, Ends, Steps
    <2> QED
      BY <2>1, <2>2, LinesStay DEF Quiet, childVars
  <1>3. CASE Launch
    BY <1>3, LaunchLines
  <1>4. CASE Announce
    BY <1>4, AnnounceLines
  <1>5. CASE Prune
    BY <1>5, PruneLines
  <1>6. CASE Follow /\ ~Announce /\ ~Prune
    BY <1>6, FollowLines DEF Follow
  <1>7. CASE OnSignal \/ DieOfSignal
    <2>1. Quiet /\ UNCHANGED <<line, out>> /\ pc' \in {pc, "killed"}
      BY <1>7, SignalQuiet DEF Checkpoints
    <2>2. AllSeen'
      BY <2>1 DEF Quiet, childVars, Lines, AllSeen, Alive, Ends, Steps
    <2> QED
      BY <2>1, <2>2, LinesStay DEF Quiet, childVars
  <1>8. CASE Lerobot \/ ChildDies \/ RunnerKills \/ OutsideKill
    BY <1>8, IdleLines, SaveLines, FinishLines DEF Lerobot
  <1> QED
    BY <1>1, <1>2, <1>3, <1>4, <1>5, <1>6, <1>7, <1>8 DEF Next, Lab, Signals, Rest

\* They hold of a run that was only asked for.
LEMMA InitLines == Init => Lines
  <1> HAVE Init
  <1>1. SavedSteps(args) \subseteq 1..Steps
    BY InitCheckpoints, SavedStepsAre DEF Checkpoints
  <1>2. /\ out = <<>> /\ mem.status.ckpt = 0 /\ mem.seen = 0 /\ last = 0 /\ saved = 0
        /\ child = [at |-> "none", step |-> 0, rc |-> -1] /\ line.kind = "none" /\ pc = "asked"
    BY DEF Init, NoMem, NoStatus, NoLine
  <1>3. LinesGiven
    BY <1>1, <1>2 DEF LinesGiven
  <1>4. LerobotEnds /\ AllSeen
    BY <1>2 DEF LerobotEnds, AllSeen, Alive
  <1> QED
    BY <1>3, <1>4 DEF Lines

\* CHECKPOINT lines are in order, each once and each for a checkpoint that was
\* complete, and none is missing when lerobot finishes, for any capacity of the pipe
\* and any steps (train.py, refresh_checkpoints).
THEOREM AnnouncedInOrder == Spec => []Announced
  <1> DEFINE All == Checkpoints /\ MetricsFollow /\ Lines
  <1>1. Init => All
    BY InitCheckpoints, InitMetrics, InitLines
  <1>2. All /\ [Next]_vars => All'
    BY CheckpointsKept, MetricsKept, LinesKept
  <1>3. All => Announced
    <2> HAVE All
    <2>1. SavedSteps(args) \subseteq 1..Steps /\ Steps \in Nat /\ saved \in Nat
      BY SavedStepsAre, ArgsKnown DEF Checkpoints, SavesInOrder
    <2>2. /\ \A i, j \in 1..Len(out) : i < j => out[i] < out[j]
          /\ \A i \in 1..Len(out) : out[i] \in SavedSteps(args) /\ out[i] <= mem.status.ckpt
          /\ mem.status.ckpt \in 0..saved
          /\ \A s \in SavedSteps(args) : s <= mem.status.ckpt => \E i \in 1..Len(out) : out[i] = s
      BY DEF Lines, LinesGiven
    <2>3. \A i \in 1..Len(out) : out[i] <= saved
      BY <2>1, <2>2
    <2>4. ASSUME pc = "over", child.rc = 0
          PROVE  {out[i] : i \in 1..Len(out)} = SavedSteps(args)
      <3>1. mem.status.ckpt = Steps
        BY <2>4 DEF Lines, AllSeen
      <3>2. \A s \in SavedSteps(args) : \E i \in 1..Len(out) : out[i] = s
        BY <2>1, <2>2, <3>1
      <3> QED
        BY <2>2, <3>2
    <2> QED
      BY <2>2, <2>3, <2>4 DEF Announced
  <1> QED
    BY <1>1, <1>2, <1>3, PTL DEF Spec

-------------------------------------------------------------------------------
(* What the page says of the run.                                          *)

\* The words of train.py's status: in its memory, composed and on disk.
Said == {mem.status.word, tmp.word, file.status.word}

\* Nobody says anything before the job is queued.
SaysNothing ==
    /\ DOMAIN file = {"status", "result", "list"} /\ DOMAIN term = {"main", "child"}
    /\ pc \in Before => Said = {""} /\ ~mem.stop /\ ~term.main /\ rc = -1

\* "stopped" is said of a run that somebody stops,
SaysStopped == mem.stop \/ term.main \/ "stopped" \in Said => job \in {"stopping", "stopped"}

\* "failed" of one whose lerobot failed or could not be started,
SaysFailed ==
    /\ child.at = "gone" => child.rc \in Nat
    /\ child.at = "none" => pc \in Before \cup Unstarted \cup Ended
    /\ "failed" \in Said =>
          child.rc > 0 \/ (child.at = "none" /\ pc \in {"failing", "over", "killed"})

\* and "done" of one whose lerobot finished, once its checkpoints are listed.
SaysDone ==
    /\ mem.status.word = "done" => pc \in {"closing", "over", "killed"} /\ child.rc = 0
    /\ tmp.word # "done"
    /\ file.status.word = "done" => pc = "over" /\ child.rc = 0
    /\ pc \in {"prune", "list"} /\ line.kind = "eof" /\ child.rc = 0 => mem.seen = Steps
    /\ pc \in {"result", "closing", "over"} /\ child.rc = 0 => file.list = Listing(Steps)

\* Both files end with one word, and the runner's follows the exit code.
SaysTheSame ==
    /\ pc = "closing" => mem.status.word = file.result.word /\ mem.status.word # ""
    /\ pc = "over" => rc \in {2, 127} \/ file.status.word = file.result.word
    /\ rc = 0 => pc = "over" /\ file.status.word # ""
    /\ job = "done" => rc = 0

Says == SaysNothing /\ SaysStopped /\ SaysFailed /\ SaysDone /\ SaysTheSame

\* lerobot, its end and whatever kills the run say nothing.
LEMMA ChildSays ==
    ASSUME Checkpoints, Lines, Says, Lerobot \/ ChildDies \/ RunnerKills \/ OutsideKill
    PROVE  Says'
  <1>1. /\ UNCHANGED <<args, mem, line, tmp, file, job>> /\ DOMAIN term' = DOMAIN term
        /\ term'.main => term.main
        /\ \/ UNCHANGED <<pc, rc>>
           \/ pc \notin Before \cup {"over"} /\ pc' = "killed" /\ rc' = 137
        /\ \/ UNCHANGED <<child, disk>>
           \/ Alive /\ child'.at # "none" /\ (child'.at = "gone" => child'.rc \in Nat)
    <2> USE DEF Child, mainVars, At, Alive, Running
    <2>1. CASE Boot \/ SaveLine \/ MakeCheckpoint \/ WriteCheckpoint \/ Unlink \/ Link
      <3>1. /\ UNCHANGED <<args, mem, line, tmp, file, job, term, pc, rc>> /\ Alive
            /\ \E next \in {"train", "mkdir", "write", "unlink", "link"} :
                  child' = [child EXCEPT !.at = next]
        BY <2>1 DEF Boot, SaveLine, MakeCheckpoint, WriteCheckpoint, Unlink, Link
      <3> QED
        BY <3>1, ChildAt DEF Checkpoints
    <2>2. CASE Train
      BY <2>2 DEF Train, Checkpoints, Shapes
    <2>3. CASE Fail \/ Finish \/ ChildDies
      <3>1. /\ UNCHANGED <<args, mem, line, tmp, file, job, pc, rc>> /\ Alive
            /\ term' = term \/ term' = [term EXCEPT !.child = FALSE]
            /\ \E code \in {0, 1, 143} : child' = [child EXCEPT !.at = "gone", !.rc = code]
        BY <2>3 DEF Fail, Finish, ChildDies
      <3>2. PICK code \in {0, 1, 143} : child' = [child EXCEPT !.at = "gone", !.rc = code]
        BY <3>1
      <3>3. child'.at = "gone" /\ child'.rc = code /\ code \in Nat
        BY <3>2 DEF Checkpoints, Shapes
      <3>4. DOMAIN term' = DOMAIN term /\ (term'.main => term.main)
        <4>1. DOMAIN term = {"main", "child"}
          BY DEF Says, SaysNothing
        <4>2. CASE term' = term
          BY <4>2
        <4>3. CASE term' = [term EXCEPT !.child = FALSE]
          BY <4>1, <4>3
        <4> QED
          BY <3>1, <4>2, <4>3
      <3> QED
        BY <3>1, <3>3, <3>4
    <2>4. CASE RunnerKills \/ OutsideKill
      <3>1. /\ UNCHANGED <<args, mem, line, tmp, file, job, disk>>
            /\ pc \notin Before \cup {"over"} /\ pc' = "killed" /\ rc' = 137
            /\ term' = [main |-> FALSE, child |-> FALSE]
            /\ child' = child \/ (Alive /\ child' = [child EXCEPT !.at = "gone", !.rc = 137])
        BY <2>4 DEF RunnerKills, OutsideKill, Killed
      <3>2. LET to == [child EXCEPT !.at = "gone", !.rc = 137] IN to.at = "gone" /\ to.rc = 137
        BY DEF Checkpoints, Shapes
      <3>3. DOMAIN term' = DOMAIN term /\ ~term'.main
        BY <3>1 DEF Says, SaysNothing
      <3>4. child' = child \/ (Alive /\ child'.at # "none" /\ child'.rc \in Nat)
        <4>1. CASE child' # child
          <5>1. Alive /\ child' = [child EXCEPT !.at = "gone", !.rc = 137]
            BY <3>1, <4>1
          <5>2. child'.at = "gone" /\ child'.rc = 137
            BY <5>1, <3>2
          <5> QED
            BY <5>1, <5>2
        <4> QED
          BY <4>1
      <3> QED
        BY <3>1, <3>3, <3>4
    <2> QED
      BY <2>1, <2>2, <2>3, <2>4 DEF Lerobot
  <1>2. child.at # "gone" => child.rc = -1
    BY DEF Lines, LerobotEnds
  <1>3. SaysNothing' /\ SaysStopped'
    BY <1>1 DEF Says, SaysNothing, SaysStopped, Said, Before
  <1>4. SaysFailed'
    BY <1>1, <1>2 DEF Says, SaysFailed, Said, Alive, Ended
  <1>5. SaysDone'
    <2>1. Listing(Steps)' = Listing(Steps) \/ Alive
      BY <1>1 DEF Listing, Steps
    <2> QED
      BY <1>1, <1>2, <2>1 DEF Says, SaysDone, Lines, AllSeen, Alive, Steps
  <1>6. SaysTheSame'
    <2>1. CASE UNCHANGED <<pc, rc>>
      BY <1>1, <2>1 DEF Says, SaysTheSame
    <2>2. CASE pc # "over" /\ pc' = "killed" /\ rc' = 137
      <3>1. job # "done"
        BY <2>2 DEF Says, SaysTheSame
      <3> QED
        BY <1>1, <2>2, <3>1 DEF SaysTheSame
    <2> QED
      BY <1>1, <2>1, <2>2
  <1> QED
    BY <1>3, <1>4, <1>5, <1>6 DEF Says

\* lab and the page.
LEMMA LabSays ==
    ASSUME Checkpoints, Lines, Says, Lab \/ Rival \/ UNCHANGED vars
    PROVE  Says'
  <1>1. CASE Submit
    <2>1. /\ UNCHANGED <<mem, tmp, file, term, rc, child>>
          /\ pc \in Before /\ pc' = "queued" /\ job' = "active"
      BY <1>1 DEF Submit, childVars, Before
    <2> QED
      BY <2>1 DEF Says, SaysNothing, SaysStopped, SaysFailed, SaysDone, SaysTheSame, Said, Before,
                  Unstarted
  <1>2. CASE ~Submit
    <2>1. /\ UNCHANGED <<args, mem, tmp, file, rc, child, disk, line>>
          /\ DOMAIN term' = DOMAIN term /\ (term'.main => term.main \/ Stop)
          /\ pc' = pc \/ (pc' \in Before /\ pc \in Before)
          /\ job' = "done" => job = "done" \/ rc = 0
          /\ \/ UNCHANGED job
             \/ Stop /\ job' = "stopping" /\ pc \notin Before
             \/ job = "stopping" /\ job' = "stopped"
             \/ job = "active"
      BY <1>2 DEF Lab, Check, Stop, StopReturns, JobEnds, PageReads, Rival, vars, mainVars, childVars,
                  Before, Running, Says, SaysNothing
    <2>2. Stop => job' = "stopping" /\ pc \notin Before
      BY DEF Stop, Running
    <2>3. SaysNothing'
      BY <2>1, <2>2 DEF Says, SaysNothing, Said
    <2>4. SaysStopped'
      BY <2>1, <2>2 DEF Says, SaysStopped, Said
    <2>5. SaysFailed'
      BY <2>1 DEF Says, SaysFailed, Said, Before
    <2>6. SaysDone'
      BY <2>1 DEF Says, SaysDone, Steps, Listing, Before
    <2>7. SaysTheSame'
      BY <2>1 DEF Says, SaysTheSame, Before
    <2> QED
      BY <2>3, <2>4, <2>5, <2>6, <2>7 DEF Says
  <1> QED
    BY <1>1, <1>2

\* A signal makes it say "stopped", in both files at once.
LEMMA SignalSays ==
    ASSUME Checkpoints, Lines, Says, OnSignal \/ DieOfSignal
    PROVE  Says'
  <1>1. CASE OnSignal
    <2>1. /\ UNCHANGED <<args, tmp, rc, child, disk, line, pc, job>> /\ term.main
          /\ pc \in Handled /\ line.kind # "eof"
          /\ mem' = [mem EXCEPT !.stop = TRUE, !.status.word = "stopped"]
          /\ DOMAIN file' = DOMAIN file /\ DOMAIN term' = {"main", "child"}
          /\ file'.status.word = "stopped" /\ ~term'.main
      BY <1>1 DEF OnSignal, childVars, Checkpoints, Shapes, Says, SaysNothing
    <2>2. mem'.status.word = "stopped" /\ mem'.seen = mem.seen
      BY <2>1 DEF Checkpoints, Shapes
    <2>3. pc \notin Before \cup {"over", "closing", "result"}
      BY <2>1 DEF Handled, Before
    <2> QED
      BY <2>1, <2>2, <2>3
         DEF Says, SaysNothing, SaysStopped, SaysFailed, SaysDone, SaysTheSame, Said, Steps
  <1>2. CASE DieOfSignal
    <2>1. /\ UNCHANGED <<args, tmp, mem, file, child, disk, line, job>>
          /\ pc \notin Before \cup {"over"} /\ pc' = "killed" /\ rc' = 143
          /\ DOMAIN term' = {"main", "child"} /\ ~term'.main
      BY <1>2 DEF DieOfSignal, childVars, Running, Says, SaysNothing
    <2>2. SaysNothing' /\ SaysStopped' /\ SaysFailed'
      BY <2>1 DEF Says, SaysNothing, SaysStopped, SaysFailed, Said, Before, Ended
    <2>3. SaysDone'
      BY <2>1 DEF Says, SaysDone, Steps
    <2>4. SaysTheSame'
      <3>1. job # "done"
        BY <2>1 DEF Says, SaysTheSame
      <3> QED
        BY <2>1, <3>1 DEF SaysTheSame
    <2> QED
      BY <2>2, <2>3, <2>4 DEF Says
  <1> QED
    BY <1>1, <1>2

\* Before lerobot starts, nothing has failed but its start.
LEMMA UnstartedSays ==
    ASSUME Checkpoints, Lines, Says, pc \in Unstarted
    PROVE  /\ child.at = "none" /\ child.rc = -1 /\ rc # 0 /\ job # "done"
           /\ "failed" \in Said => pc = "failing"
           /\ "done" \notin Said
  <1>1. child.at = "none"
    BY DEF Checkpoints, NotYet
  <1>2. child.rc = -1
    BY <1>1 DEF Lines, LerobotEnds
  <1>3. pc \notin {"closing", "over", "killed"}
    BY DEF Unstarted
  <1>4. rc # 0 /\ job # "done"
    BY <1>3 DEF Says, SaysTheSame
  <1>5. "failed" \in Said => pc = "failing"
    BY <1>1, <1>2, <1>3 DEF Says, SaysFailed
  <1>6. "done" \notin Said
    BY <1>3 DEF Says, SaysDone, Said
  <1> QED
    BY <1>1, <1>2, <1>4, <1>5, <1>6

\* train.py up to lerobot's start, and where it fails to start.
LEMMA LaunchSays ==
    ASSUME Checkpoints, Lines, Says, Launch
    PROVE  Says'
  <1> USE DEF mainVars, childVars, Goto
  <1>1. CASE Spawned
    <2>1. /\ UNCHANGED <<mem, tmp, file, rc, child, line, disk, args, job, term>>
          /\ pc = "spawning" /\ pc' = "reading"
      BY <1>1 DEF Spawned
    <2> QED
      BY <2>1 DEF Says, SaysNothing, SaysStopped, SaysFailed, SaysDone, SaysTheSame, Said, Before,
                  Unstarted, Ended
  <1>2. CASE Spawn
    <2>1. /\ UNCHANGED <<mem, tmp, file, rc, line, disk, args, job, term>>
          /\ pc = "begun" /\ pc' = "spawning" /\ child' = [child EXCEPT !.at = "boot"]
      BY <1>2 DEF Spawn
    <2>2. child'.at = "boot"
      BY <2>1, ChildAt DEF Checkpoints
    <2>3. /\ rc # 0 /\ job # "done" /\ "failed" \notin Said /\ "done" \notin Said
      BY <2>1, UnstartedSays DEF Unstarted
    <2> QED
      BY <2>1, <2>2, <2>3
         DEF Says, SaysNothing, SaysStopped, SaysFailed, SaysDone, SaysTheSame, Said, Before
  <1>3. CASE ~Spawned /\ ~Spawn
    <2>1. /\ UNCHANGED <<args, line, disk, job, term, child>>
          /\ pc \in Unstarted
          /\ pc' \notin Before \cup {"prune", "list", "result", "closing", "killed"}
          /\ pc' \in Unstarted \cup Ended
          /\ DOMAIN file' = DOMAIN file
          /\ pc = "failing" => pc' = "over"
          /\ pc' = "over" => rc' \in {2, 127}
          /\ pc' # "over" => rc' = rc
      <3> USE DEF Before, Unstarted, Ended, Says, SaysNothing
      <3>1. CASE RefuseLaunch \/ Admit \/ MakeDir \/ Guard
        BY <3>1 DEF RefuseLaunch, Admit, MakeDir, Guard
      <3>2. CASE Open \/ Opened \/ SpawnFails \/ Failed
        BY <3>2 DEF Open, Opened, SpawnFails, Failed, ComposeStatus, ReplaceStatus
      <3> QED
        BY <1>3, <3>1, <3>2 DEF Launch
    <2>2. /\ child.at = "none" /\ child.rc = -1 /\ rc # 0 /\ job # "done"
          /\ ("failed" \in Said => pc = "failing") /\ "done" \notin Said
      BY <2>1, UnstartedSays
    <2>3. /\ mem'.stop => mem.stop
          /\ Said' \subseteq Said \cup {"", "running"}
                \cup (IF pc' = "failing" THEN {"failed"} ELSE {})
      <3>1. CASE RefuseLaunch \/ Admit \/ MakeDir
        BY <3>1 DEF RefuseLaunch, Admit, MakeDir, Said
      <3>2. CASE Guard
        BY <3>2 DEF Guard, NewMem, NoMem, NoStatus, Said
      <3>3. CASE Open
        BY <3>3 DEF Open, ComposeStatus, Said, Checkpoints, Shapes
      <3>4. CASE Opened \/ Failed
        <4>1. /\ mem' = mem /\ tmp' = NoStatus /\ NoStatus.word = ""
              /\ file' = [file EXCEPT !.status = tmp]
          BY <3>4 DEF Opened, Failed, ReplaceStatus, NoStatus
        <4>2. file'.status = tmp
          BY <4>1 DEF Says, SaysNothing
        <4>3. Said' = {mem.status.word, "", tmp.word}
          BY <4>1, <4>2 DEF Said
        <4> QED
          BY <4>1, <4>3 DEF Said
      <3>5. CASE SpawnFails
        <4>1. /\ pc' = "failing" /\ tmp' = mem'.status /\ mem'.stop = mem.stop
              /\ mem'.status = [mem.status EXCEPT !.word = "failed", !.failure = "error"]
              /\ file' = [file EXCEPT !.result = [word |-> "failed", code |-> 127, ckpt |-> 0]]
          BY <3>5 DEF SpawnFails, ComposeStatus, Checkpoints, Shapes
        <4>2. mem'.status.word = "failed" /\ file'.status = file.status
          BY <4>1 DEF Checkpoints, Shapes, Says, SaysNothing
        <4> QED
          BY <4>1, <4>2 DEF Said
      <3> QED
        BY <1>3, <3>1, <3>2, <3>3, <3>4, <3>5 DEF Launch
    <2>4. "done" \notin Said' /\ ("failed" \in Said' => pc' \in {"failing", "over"})
          /\ ("stopped" \in Said' => "stopped" \in Said)
      BY <2>1, <2>2, <2>3
    <2>5. SaysNothing' /\ SaysStopped'
      BY <2>1, <2>3, <2>4 DEF Says, SaysNothing, SaysStopped
    <2>6. SaysFailed' /\ SaysDone'
      BY <2>1, <2>2, <2>4 DEF SaysFailed, SaysDone, Said
    <2>7. SaysTheSame'
      <3>1. pc' # "closing" /\ rc' # 0 /\ job' # "done"
        BY <2>1, <2>2
      <3>2. pc' = "over" => rc' \in {2, 127}
        BY <2>1
      <3> QED
        BY <3>1, <3>2 DEF SaysTheSame
    <2> QED
      BY <2>5, <2>6, <2>7 DEF Says
  <1> QED
    BY <1>1, <1>2, <1>3

Following == {"reading", "metrics", "half", "refresh", "prune", "list", "compose", "noting", "result"}

\* A step that follows the log repeats what has been said.
LEMMA MovesOn ==
    ASSUME Says, pc \in Following, pc' \in Following, UNCHANGED <<rc, job, term, child, args>>,
           DOMAIN file' = DOMAIN file, mem'.stop = mem.stop, Said' \subseteq Said \cup {""},
           pc' \in {"prune", "list"} /\ line'.kind = "eof" /\ child.rc = 0 => mem'.seen = Steps,
           pc' = "result" /\ child.rc = 0 => file'.list = Listing(Steps)'
    PROVE  Says'
  <1> USE DEF Following
  <1>1. /\ pc \notin Before \cup {"over", "killed", "closing", "failing"}
        /\ pc' \notin Before \cup {"over", "killed", "closing"}
    BY DEF Before
  <1>2. rc # 0 /\ job # "done"
    BY <1>1 DEF Says, SaysTheSame
  <1>3. "done" \notin Said /\ "done" \notin Said'
    BY <1>1 DEF Says, SaysDone, Said
  <1>4. "failed" \in Said' => child.rc > 0
    BY <1>1 DEF Says, SaysFailed
  <1>5. child.at # "none"
    BY DEF Says, SaysFailed, Before, Unstarted, Ended
  <1>6. SaysNothing' /\ SaysStopped'
    BY <1>1 DEF Says, SaysNothing, SaysStopped
  <1>7. SaysFailed'
    BY <1>4, <1>5 DEF Says, SaysFailed
  <1>8. SaysDone'
    BY <1>1, <1>3 DEF SaysDone, Said, Steps
  <1>9. SaysTheSame'
    BY <1>1, <1>2 DEF SaysTheSame
  <1> QED
    BY <1>6, <1>7, <1>8, <1>9 DEF Says

\* Until the log ends.
LEMMA ReadSays ==
    ASSUME Checkpoints, Lines, Says,
           TakeLine \/ EndOfLog \/ WriteMetrics \/ Announce \/ Prune \/ List \/ Note \/ Noted
    PROVE  Says'
  <1> USE DEF mainVars, childVars, Goto
  <1>1. CASE TakeLine
    <2>1. /\ UNCHANGED <<args, tmp, rc, child, file, job, term>>
          /\ pc = "reading" /\ pc' \in {"metrics", "refresh", "compose", "reading"}
          /\ mem'.stop = mem.stop /\ mem'.status = mem.status
      BY <1>1 DEF TakeLine, Checkpoints, Shapes
    <2> QED
      BY <2>1, MovesOn DEF Following, Said
  <1>2. CASE EndOfLog \/ WriteMetrics
    BY <1>2, MovesOn DEF EndOfLog, WriteMetrics, Following, Said
  <1>3. CASE Announce
    <2>1. /\ UNCHANGED <<args, tmp, rc, child, file, job, term, line>>
          /\ pc = "refresh" /\ pc' \in {"prune", "list"}
          /\ \E n : mem' = [mem EXCEPT !.seen = last, !.status.ckpt = n]
      BY <1>3 DEF Announce
    <2>2. mem'.stop = mem.stop /\ mem'.status.word = mem.status.word /\ mem'.seen = last
      BY <2>1 DEF Checkpoints, Shapes
    <2>3. child.rc = 0 => mem'.seen = Steps
      BY <2>2 DEF Lines, LerobotEnds
    <2> QED
      BY <2>1, <2>2, <2>3, MovesOn DEF Following, Said
  <1>4. CASE Prune
    <2>1. /\ UNCHANGED <<args, tmp, rc, child, file, job, term, line, mem>>
          /\ pc = "prune" /\ pc' \in {"prune", "list"}
      BY <1>4 DEF Prune
    <2>2. line.kind = "eof" /\ child.rc = 0 => mem.seen = Steps
      BY <2>1 DEF Says, SaysDone
    <2> QED
      BY <2>1, <2>2, MovesOn DEF Following, Said
  <1>5. CASE List
    <2>1. /\ UNCHANGED <<args, tmp, rc, child, job, term, line, mem, disk>>
          /\ file' = [file EXCEPT !.list = Listing(mem.seen)]
          /\ pc = "list" /\ pc' = IF line.kind = "eof" THEN "result" ELSE "compose"
      BY <1>5 DEF List
    <2>2. DOMAIN file' = DOMAIN file /\ file'.status = file.status /\ file'.list = Listing(mem.seen)
      BY <2>1 DEF Says, SaysNothing
    <2>3. line.kind = "eof" /\ child.rc = 0 => mem.seen = Steps
      BY <2>1 DEF Says, SaysDone
    <2>4. Listing(Steps)' = Listing(Steps)
      BY <2>1 DEF Listing, Steps
    <2> QED
      BY <2>1, <2>2, <2>3, <2>4, MovesOn DEF Following, Said
  <1>6. CASE Note
    <2>1. /\ UNCHANGED <<args, rc, child, file, job, term>>
          /\ pc = "compose" /\ pc' = "noting" /\ tmp' = mem'.status /\ mem'.stop = mem.stop
          /\ \E n : mem'.status = [mem.status EXCEPT !.step = n]
      BY <1>6 DEF Note, ComposeStatus, Checkpoints, Shapes
    <2>2. mem'.status.word = mem.status.word
      BY <2>1 DEF Checkpoints, Shapes
    <2> QED
      BY <2>1, <2>2, MovesOn DEF Following, Said
  <1>7. CASE Noted
    <2>1. /\ UNCHANGED <<args, rc, child, job, term, mem>>
          /\ pc = "noting" /\ pc' = "reading" /\ tmp' = NoStatus /\ NoStatus.word = ""
          /\ file' = [file EXCEPT !.status = tmp]
      BY <1>7 DEF Noted, ReplaceStatus, NoStatus
    <2>2. DOMAIN file' = DOMAIN file /\ file'.status = tmp
      BY <2>1 DEF Says, SaysNothing
    <2> QED
      BY <2>1, <2>2, MovesOn DEF Following, Said
  <1> QED
    BY <1>1, <1>2, <1>3, <1>4, <1>5, <1>6, <1>7

\* Its end: both files are told the same, and the runner what lerobot returned.
LEMMA CloseSays ==
    ASSUME Checkpoints, Lines, Says, WriteResult \/ Close
    PROVE  Says'
  <1> USE DEF mainVars, childVars, Goto
  <1>1. pc \in {"result", "closing"} /\ pc \notin Before \cup {"over", "killed", "failing"}
    BY DEF WriteResult, Close, Before
  <1>2. child.at = "gone" /\ child.rc \in Nat
    <2>1. ~Alive
      BY <1>1 DEF Lines, AllSeen
    <2>2. child.at # "none"
      BY <1>1 DEF Says, SaysFailed, Before, Unstarted, Ended
    <2> QED
      BY <2>1, <2>2 DEF Says, SaysFailed, Alive
  <1>3. rc # 0 /\ job # "done"
    BY <1>1 DEF Says, SaysTheSame
  <1>4. "failed" \in Said => child.rc > 0
    BY <1>1 DEF Says, SaysFailed
  <1>5. child.rc = 0 => file.list = Listing(Steps)
    BY <1>1 DEF Says, SaysDone
  <1>6. CASE WriteResult
    <2>1. /\ UNCHANGED <<args, line, tmp, rc, child, disk, job, term>>
          /\ pc = "result" /\ pc' = "closing"
          /\ \E f : mem' = [mem EXCEPT !.status.word = Verdict, !.status.failure = f]
          /\ \E r : r.word = Verdict /\ file' = [file EXCEPT !.result = r]
      BY <1>6 DEF WriteResult
    <2>2. mem'.stop = mem.stop /\ mem'.status.word = Verdict
      BY <2>1 DEF Checkpoints, Shapes
    <2>3. /\ DOMAIN file' = DOMAIN file /\ file'.result.word = Verdict
          /\ file'.status = file.status /\ file'.list = file.list
      BY <2>1 DEF Says, SaysNothing
    <2>4. Said' = {Verdict, tmp.word, file.status.word} /\ Verdict # ""
      BY <2>1, <2>2, <2>3 DEF Said, Verdict
    <2>5. /\ Verdict = "stopped" => mem.stop
          /\ Verdict = "failed" => child.rc # 0
          /\ Verdict = "done" => child.rc = 0
      BY DEF Verdict
    <2>6. tmp.word # "done" /\ file.status.word # "done"
      BY <1>1 DEF Says, SaysDone
    <2>7. SaysNothing' /\ SaysStopped'
      BY <2>1, <2>2, <2>3, <2>4, <2>5 DEF Says, SaysNothing, SaysStopped, Said, Before
    <2>8. SaysFailed'
      <3>1. CASE Verdict = "failed"
        <4>1. child'.rc > 0 /\ child'.at = "gone" /\ child'.rc \in Nat
          BY <1>2, <2>1, <2>5, <3>1
        <4> QED
          BY <4>1 DEF SaysFailed
      <3>2. CASE Verdict # "failed"
        <4>1. "failed" \in Said' => "failed" \in Said
          BY <2>4, <3>2 DEF Said
        <4> QED
          BY <1>2, <1>4, <2>1, <4>1 DEF SaysFailed
      <3> QED
        BY <3>1, <3>2
    <2>9. SaysDone'
      <3>1. Listing(Steps)' = Listing(Steps)
        BY <2>1 DEF Listing, Steps
      <3> QED
        BY <1>5, <2>1, <2>2, <2>3, <2>5, <2>6, <3>1 DEF SaysDone
    <2>10. SaysTheSame'
      BY <1>3, <2>1, <2>2, <2>3, <2>4 DEF SaysTheSame
    <2> QED
      BY <2>7, <2>8, <2>9, <2>10 DEF Says
  <1>7. CASE Close
    <2>1. /\ UNCHANGED <<args, line, mem, tmp, child, disk, job, term>>
          /\ pc = "closing" /\ pc' = "over" /\ rc' = child.rc
          /\ file' = [file EXCEPT !.status = mem.status]
      BY <1>7 DEF Close
    <2>2. /\ DOMAIN file' = DOMAIN file /\ file'.result = file.result
          /\ file'.status = mem.status /\ file'.list = file.list
      BY <2>1 DEF Says, SaysNothing
    <2>3. mem.status.word = file.result.word /\ mem.status.word # ""
      BY <2>1 DEF Says, SaysTheSame
    <2>4. mem.status.word = "done" => child.rc = 0
      BY DEF Says, SaysDone
    <2>5. Said' \subseteq Said
      BY <2>1, <2>2 DEF Said
    <2>6. SaysNothing' /\ SaysStopped'
      BY <2>1, <2>2, <2>5 DEF Says, SaysNothing, SaysStopped, Before
    <2>7. SaysFailed'
      BY <1>2, <1>4, <2>1, <2>5 DEF SaysFailed
    <2>8. SaysDone'
      <3>1. Listing(Steps)' = Listing(Steps)
        BY <2>1 DEF Listing, Steps
      <3>2. tmp.word # "done"
        BY DEF Says, SaysDone
      <3> QED
        BY <1>5, <2>1, <2>2, <2>4, <3>1, <3>2 DEF SaysDone
    <2>9. SaysTheSame'
      BY <1>3, <2>1, <2>2, <2>3 DEF SaysTheSame
    <2> QED
      BY <2>6, <2>7, <2>8, <2>9 DEF Says
  <1> QED
    BY <1>6, <1>7

\* Every step keeps the words true.
LEMMA SaysKept ==
    ASSUME Checkpoints, Lines, Says, [Next]_vars
    PROVE  Says'
  <1>1. CASE Lab \/ Rival \/ Rest \/ UNCHANGED vars
    BY <1>1, LabSays DEF Rest
  <1>2. CASE Launch
    BY <1>2, LaunchSays
  <1>3. CASE Follow
    BY <1>3, ReadSays, CloseSays DEF Follow
  <1>4. CASE Signals
    BY <1>4, SignalSays, ChildSays DEF Signals
  <1>5. CASE Lerobot \/ RunnerKills \/ OutsideKill
    BY <1>5, ChildSays
  <1> QED
    BY <1>1, <1>2, <1>3, <1>4, <1>5 DEF Next

\* At first nothing has been said.
LEMMA InitSays == Init => Says
  <1> SUFFICES ASSUME Init PROVE Says
    OBVIOUS
  <1> USE DEF Init, NoStatus, NoResult, NoMem, NoLine
  <1>1. /\ mem.status.word = "" /\ tmp.word = "" /\ file.status.word = "" /\ ~mem.stop
        /\ ~term.main /\ rc = -1 /\ child.at = "none" /\ pc = "asked" /\ job = "none"
        /\ DOMAIN file = {"status", "result", "list"} /\ DOMAIN term = {"main", "child"}
    OBVIOUS
  <1> HIDE DEF Init, NoStatus, NoResult, NoMem, NoLine
  <1>2. Said = {""}
    BY <1>1 DEF Said
  <1>3. SaysNothing /\ SaysStopped /\ SaysFailed
    BY <1>1, <1>2 DEF SaysNothing, SaysStopped, SaysFailed, Before
  <1>4. SaysDone
    BY <1>1 DEF SaysDone
  <1>5. rc # 0
    <2>1. rc = -1
      BY <1>1
    <2>2. -1 # 0
      OBVIOUS
    <2> QED
      BY <2>1, <2>2, Zenon
  <1>6. job # "done" /\ pc \notin {"closing", "over"}
    BY <1>1
  <1>7. SaysTheSame
    BY <1>5, <1>6 DEF SaysTheSame
  <1> QED
    BY <1>3, <1>4, <1>7 DEF Says

\* What the page says of a run is what happened to it: done only with lerobot finished,
\* its checkpoints listed and the last one whole; stopped only if somebody stopped it;
\* failed only if lerobot failed or did not start; and one word in both files, for any
\* schedule of checkpoints, any bound on the pipe and whatever is killed (train.py,
\* _Run.run and on_signal; training.py, run_state).
THEOREM PageTellsTheTruth == Spec => []PageTruth
  <1> DEFINE All == Checkpoints /\ MetricsFollow /\ Lines /\ Says
  <1>1. Init => All
    BY InitCheckpoints, InitMetrics, InitLines, InitSays
  <1>2. All /\ [Next]_vars => All'
    BY CheckpointsKept, MetricsKept, LinesKept, SaysKept
  <1>3. All => PageTruth
    <2> HAVE All
    <2>1. "stopped" \in Said => job \in {"stopping", "stopped"}
      BY DEF Says, SaysStopped
    <2>2. "failed" \in Said => child.rc > 0 \/ child.at = "none"
      BY DEF Says, SaysFailed
    <2>3. job = "done" => file.status.word # ""
      BY DEF Says, SaysTheSame
    <2>4. RunState = "stopped" => job \in {"stopping", "stopped"}
      BY <2>1 DEF RunState, Said
    <2>5. RunState = "failed" => child.rc > 0 \/ child.at = "none" \/ job = "failed"
      BY <2>2 DEF RunState, Said
    <2>6. pc = "over" /\ rc \notin {2, 127} => file.status.word = file.result.word
      BY DEF Says, SaysTheSame
    <2>7. ASSUME RunState = "done"
          PROVE  /\ child.rc = 0 /\ last = Steps /\ file.list = Listing(Steps)
                 /\ [step |-> Steps, complete |-> TRUE, state |-> TRUE, last |-> TRUE] \in file.list
      <3>1. file.status.word = "done"
        BY <2>3, <2>7 DEF RunState
      <3>2. pc = "over" /\ child.rc = 0 /\ file.list = Listing(Steps)
        BY <3>1 DEF Says, SaysDone
      <3>3. last = Steps /\ saved = Steps
        BY <3>2 DEF Lines, LerobotEnds
      <3>4. Steps \in DOMAIN disk /\ disk[Steps] = "full"
        <4>1. Steps # 0
          BY <3>2, ArgsKnown DEF Checkpoints
        <4> QED
          BY <3>3, <4>1 DEF Checkpoints, OnDisk, ResumePointKept
      <3>5. [step |-> Steps, complete |-> TRUE, state |-> TRUE, last |-> TRUE] \in Listing(Steps)
        <4>1. Steps <= Steps
          BY ArgsKnown DEF Checkpoints
        <4>2. disk[Steps] # "weights"
          BY <3>4
        <4>3. [step |-> Steps, complete |-> TRUE, state |-> TRUE, last |-> TRUE]
                = [step |-> Steps, complete |-> Steps <= Steps, state |-> disk[Steps] # "weights",
                   last |-> Steps = Steps]
          BY <4>1, <4>2
        <4> QED
          BY <3>4, <4>3 DEF Listing
      <3> QED
        BY <3>2, <3>3, <3>5
    <2> QED
      BY <2>4, <2>5, <2>6, <2>7 DEF PageTruth
  <1>4. Spec => []All
    BY <1>1, <1>2, PTL DEF Spec
  <1> QED
    BY <1>3, <1>4, PTL
-------------------------------------------------------------------------------
(* The kinds of the variables.                                             *)

\* Who runs, and how it ended.
Runs ==
    /\ job \in {"none", "active", "stopping", "stopped", "done", "failed"}
    /\ dir \in {"none", "ours", "rival"}
    /\ pc \in Before \cup Unguarded \cup Handled \cup Ended
    /\ rc \in {-1, 0, 1, 2, 127, 137, 143}
    /\ term \in [main : BOOLEAN, child : BOOLEAN]

\* What is said of it.
Speaks ==
    /\ mem.status.word \in Words /\ mem.stop \in BOOLEAN /\ tmp.word \in Words
    /\ file.status.word \in Words /\ file.result.word \in Words

Places == {"none", "boot", "train", "save", "mkdir", "write", "unlink", "link", "gone"}

\* What lerobot does and leaves.
Trains ==
    /\ child.at \in Places /\ child.rc \in {-1, 0, 1, 137, 143}
    /\ Len(pipe) <= PipeCap
    /\ \A s \in DOMAIN disk : disk[s] \in {"new", "full", "weights"}

\* Every step of train.py, of lab and of the signals goes to a known place.
LEMMA RunsKept ==
    ASSUME Runs, Trains, [Next]_vars
    PROVE  Runs'
  <1> USE DEF Runs, Before, Unguarded, Handled, Ended
  <1>t. ASSUME \/ UNCHANGED term
               \/ \E m, c \in BOOLEAN : term' = [main |-> m, child |-> c]
               \/ term' = [term EXCEPT !.main = FALSE] \/ term' = [term EXCEPT !.child = FALSE]
        PROVE  term' \in [main : BOOLEAN, child : BOOLEAN]
    <2>1. \A m, c \in BOOLEAN : [main |-> m, child |-> c] \in [main : BOOLEAN, child : BOOLEAN]
      OBVIOUS
    <2>2. term \in [main : BOOLEAN, child : BOOLEAN]
      OBVIOUS
    <2>3. /\ [term EXCEPT !.main = FALSE] \in [main : BOOLEAN, child : BOOLEAN]
          /\ [term EXCEPT !.child = FALSE] \in [main : BOOLEAN, child : BOOLEAN]
      BY <2>2
    <2> QED
      BY <1>t, <2>1, <2>2, <2>3, Zenon
  <1>0. CASE UNCHANGED vars \/ Rest
    BY <1>0 DEF vars, Rest, mainVars
  <1>1. CASE Check \/ Submit \/ StopReturns \/ JobEnds \/ PageReads \/ Rival
    <2>1. CASE Check
      BY <2>1 DEF Check, mainVars
    <2>2. CASE Submit \/ StopReturns
      BY <2>2 DEF Submit, StopReturns, mainVars
    <2>3. CASE Rival \/ PageReads
      <3>1. UNCHANGED <<job, pc, rc, term>> /\ dir' \in {dir, "rival"}
        BY <2>3, Zenon DEF Rival, PageReads, mainVars
      <3> QED
        BY <3>1
    <2>4. CASE JobEnds
      BY <2>4 DEF JobEnds, mainVars
    <2> QED
      BY <1>1, <2>1, <2>2, <2>3, <2>4
  <1>10. CASE Stop
    <2>1. job' = "stopping" /\ UNCHANGED <<dir, pc, rc>> /\ term' = [main |-> TRUE, child |-> Alive]
      BY <1>10 DEF Stop, mainVars
    <2>2. Alive \in BOOLEAN
      BY DEF Alive
    <2> QED
      BY <2>1, <2>2, <1>t
  <1>2. CASE Launch
    <2>1. CASE RefuseLaunch \/ Admit \/ Guard \/ Spawn \/ Spawned
      BY <2>1 DEF RefuseLaunch, Admit, Guard, Spawn, Spawned, Goto, mainVars
    <2>2. CASE MakeDir
      BY <2>2 DEF MakeDir, mainVars
    <2>3. CASE Open \/ Opened
      BY <2>3 DEF Open, Opened, ComposeStatus, ReplaceStatus, Goto
    <2>4. CASE SpawnFails \/ Failed
      BY <2>4 DEF SpawnFails, Failed, ComposeStatus, ReplaceStatus, Goto
    <2> QED
      BY <1>2, <2>1, <2>2, <2>3, <2>4 DEF Launch
  <1>3. CASE TakeLine
    BY <1>3 DEF TakeLine, Goto
  <1>4. CASE EndOfLog \/ WriteMetrics \/ Announce \/ Prune
    BY <1>4 DEF EndOfLog, WriteMetrics, Announce, Prune, Goto, mainVars
  <1>5. CASE List \/ Note \/ Noted \/ WriteResult
    BY <1>5 DEF List, Note, Noted, WriteResult, ComposeStatus, ReplaceStatus, Goto, mainVars
  <1>6. CASE Close
    BY <1>6 DEF Close, Goto, Trains
  <1>7. CASE Signals
    <2>1. CASE OnSignal
      <3>1. /\ UNCHANGED <<job, dir, pc, rc>>
            /\ term' = [main |-> FALSE, child |-> term.child \/ (ProcKnown /\ Alive)]
        BY <2>1 DEF OnSignal
      <3>2. (term.child \/ (ProcKnown /\ Alive)) \in BOOLEAN
        OBVIOUS
      <3> QED
        BY <3>1, <3>2, <1>t
    <2>2. CASE DieOfSignal
      <3>1. UNCHANGED <<job, dir>> /\ pc' = "killed" /\ rc' = 143 /\ term' = [term EXCEPT !.main = FALSE]
        BY <2>2 DEF DieOfSignal
      <3> QED
        BY <3>1, <1>t
    <2>3. CASE ChildDies
      <3>1. UNCHANGED <<job, dir, pc, rc>> /\ term' = [term EXCEPT !.child = FALSE]
        BY <2>3 DEF ChildDies, mainVars
      <3> QED
        BY <3>1, <1>t
    <2> QED
      BY <1>7, <2>1, <2>2, <2>3 DEF Signals
  <1>8. CASE Lerobot
    BY <1>8 DEF Lerobot, Boot, Train, Fail, SaveLine, MakeCheckpoint, WriteCheckpoint, Unlink,
                Link, Finish, Child, mainVars
  <1>9. CASE RunnerKills \/ OutsideKill
    <2>1. /\ UNCHANGED <<job, dir>> /\ pc' = "killed" /\ rc' = 137
          /\ term' = [main |-> FALSE, child |-> FALSE]
      BY <1>9 DEF RunnerKills, OutsideKill, Killed
    <2> QED
      BY <2>1, <1>t
  <1> QED
    BY <1>0, <1>1, <1>10, <1>2, <1>3, <1>4, <1>5, <1>6, <1>7, <1>8, <1>9 DEF Next, Lab, Follow

\* The words are those of status.json and result.json.
LEMMA SpeaksKept ==
    ASSUME Shapes, SaysNothing, Speaks, [Next]_vars
    PROVE  Speaks'
  <1> USE DEF Speaks
  <1>0. CASE UNCHANGED <<mem, tmp, file>>
    BY <1>0
  <1>n. NoStatus.word = "" /\ NewMem.status.word = "running" /\ NewMem.stop = FALSE
    BY DEF NewMem, NoMem, NoStatus
  <1>w. {"", "running", "stopped", "failed", "done"} = Words
    BY DEF Words
  <1>1. CASE Lab \/ Rival \/ Rest \/ UNCHANGED vars \/ Lerobot \/ RunnerKills \/ OutsideKill
    <2>1. UNCHANGED <<mem, tmp, file>>
      BY <1>1, Zenon
         DEF Lab, Check, Submit, Stop, StopReturns, JobEnds, PageReads, Rival, Rest, vars, mainVars,
             Lerobot, Boot, Train, Fail, SaveLine, MakeCheckpoint, WriteCheckpoint, Unlink, Link,
             Finish, Child, RunnerKills, OutsideKill, Killed
    <2> QED
      BY <1>0, <2>1
  <1>2. CASE RefuseLaunch \/ Admit \/ MakeDir \/ Spawn \/ Spawned
    <2>1. UNCHANGED <<mem, tmp, file>>
      BY <1>2 DEF RefuseLaunch, Admit, MakeDir, Spawn, Spawned, mainVars
    <2> QED
      BY <1>0, <2>1
  <1>3. CASE Guard
    BY <1>3, <1>n, <1>w DEF Guard
  <1>4. CASE Open \/ Note
    <2>1. /\ UNCHANGED file
          /\ \E s : s.word = mem.status.word /\ mem' = [mem EXCEPT !.status = s] /\ tmp' = s
      BY <1>4 DEF Open, Note, ComposeStatus, Shapes
    <2> QED
      BY <2>1 DEF Shapes
  <1>5. CASE Opened \/ Failed \/ Noted
    BY <1>5, <1>n, <1>w DEF Opened, Failed, Noted, ReplaceStatus, SaysNothing
  <1>6. CASE SpawnFails
    BY <1>6, <1>w DEF SpawnFails, ComposeStatus, Shapes, SaysNothing
  <1>7. CASE TakeLine
    BY <1>7 DEF TakeLine, Shapes
  <1>8. CASE EndOfLog \/ WriteMetrics \/ Prune
    <2>1. UNCHANGED <<mem, tmp, file>>
      BY <1>8 DEF EndOfLog, WriteMetrics, Prune, mainVars
    <2> QED
      BY <1>0, <2>1
  <1>9. CASE Announce
    BY <1>9 DEF Announce, Shapes
  <1>10. CASE List
    BY <1>10 DEF List, SaysNothing, mainVars
  <1>11. CASE WriteResult
    BY <1>11, <1>w DEF WriteResult, Verdict, Shapes, SaysNothing
  <1>12. CASE Close
    BY <1>12 DEF Close, SaysNothing
  <1>13. CASE OnSignal
    BY <1>13, <1>w DEF OnSignal, Shapes, SaysNothing
  <1>14. CASE DieOfSignal \/ ChildDies
    <2>1. UNCHANGED <<mem, tmp, file>>
      BY <1>14 DEF DieOfSignal, ChildDies, mainVars
    <2> QED
      BY <1>0, <2>1
  <1> QED
    BY <1>1, <1>2, <1>3, <1>4, <1>5, <1>6, <1>7, <1>8, <1>9, <1>10, <1>11, <1>12, <1>13, <1>14
       DEF Next, Launch, Follow, Signals

\* lerobot's places and codes are known, the pipe holds no more lines than it can, and a
\* checkpoint is new, full or reduced to its weights.
LEMMA TrainsKept ==
    ASSUME Shapes, PipeTyped, OnDisk, Trains, [Next]_vars
    PROVE  Trains'
  <1> DEFINE Whole == \A s \in DOMAIN disk : disk[s] \in {"new", "full", "weights"}
             Codes == {-1, 0, 1, 137, 143}
  <1>0. ASSUME UNCHANGED <<child, pipe, disk>> PROVE Trains'
    BY <1>0 DEF Trains
  <1>d. UNCHANGED disk => Whole'
    BY DEF Trains
  <1>a. ASSUME \/ \E next \in Places : child' = [child EXCEPT !.at = next]
               \/ \E code \in Codes : child' = [child EXCEPT !.at = "gone", !.rc = code]
        PROVE  child'.at \in Places /\ child'.rc \in Codes
    <2>1. ASSUME NEW next \in Places, child' = [child EXCEPT !.at = next]
          PROVE  child'.at = next /\ child'.rc = child.rc
      BY <2>1 DEF Shapes
    <2>2. ASSUME NEW code \in Codes, child' = [child EXCEPT !.at = "gone", !.rc = code]
          PROVE  child'.at = "gone" /\ child'.rc = code
      BY <2>2 DEF Shapes
    <2>3. "gone" \in Places /\ child.rc \in Codes
      BY DEF Places, Trains
    <2> QED
      BY <1>a, <2>1, <2>2, <2>3
  <1>p. /\ Len(pipe) \in Nat /\ Len(pipe) <= PipeCap
        /\ \A l : Say(l) => Len(pipe') <= PipeCap
    <2>1. PICK S : pipe \in Seq(S)
      BY DEF PipeTyped
    <2>2. ASSUME NEW l, Say(l) PROVE Len(pipe') <= PipeCap
      <3>1. Len(pipe) < PipeCap /\ pipe' = Append(pipe, l) /\ Len(pipe) \in Nat /\ PipeCap \in Nat
        BY <2>1, <2>2, TrainAssumption DEF Say
      <3>2. Len(Append(pipe, l)) = Len(pipe) + 1
        BY <2>1
      <3> QED
        BY <3>1, <3>2
    <2> QED
      BY <2>1, <2>2 DEF Trains
  <1>q. ASSUME child'.at \in Places /\ child'.rc \in Codes, Whole',
               UNCHANGED pipe \/ \E l : Say(l)
        PROVE  Trains'
    BY <1>q, <1>p DEF Trains
  <1>1. CASE Lab \/ Rival \/ Rest \/ UNCHANGED vars
    BY <1>1, <1>0, Zenon DEF Lab, Check, Submit, Stop, StopReturns, JobEnds, PageReads, Rival, Rest,
                             vars, childVars
  <1>2. CASE RefuseLaunch \/ Admit \/ MakeDir \/ Guard \/ Open \/ Opened \/ Spawned \/ SpawnFails
             \/ Failed
    BY <1>2, <1>0, Zenon DEF RefuseLaunch, Admit, MakeDir, Guard, Open, Opened, Spawned, SpawnFails,
                             Failed, ReplaceStatus, childVars
  <1>3. CASE TakeLine
    <2>1. /\ UNCHANGED <<child, disk>> /\ pipe # <<>> /\ pipe' = Tail(pipe)
      BY <1>3 DEF TakeLine
    <2>2. Len(pipe') <= PipeCap
      <3>1. PICK S : pipe \in Seq(S)
        BY DEF PipeTyped
      <3>2. Len(Tail(pipe)) = Len(pipe) - 1
        BY <2>1, <3>1
      <3> QED
        BY <2>1, <3>2, <1>p, TrainAssumption
    <2> QED
      BY <2>1, <2>2 DEF Trains
  <1>4. CASE EndOfLog \/ WriteMetrics \/ Announce \/ List \/ Note \/ Noted \/ WriteResult \/ Close
    BY <1>4, <1>0, Zenon DEF EndOfLog, WriteMetrics, Announce, List, Note, Noted, WriteResult, Close,
                             ReplaceStatus, childVars
  <1>5. CASE Prune
    <2>1. /\ UNCHANGED <<child, pipe>>
          /\ UNCHANGED disk \/ \E s : disk' = Pruned(s)
      BY <1>5, Zenon DEF Prune
    <2>2. ASSUME NEW s, disk' = Pruned(s) PROVE Whole'
      BY <2>2 DEF Pruned, OnDisk, Trains
    <2> QED
      BY <2>1, <2>2, <1>d DEF Trains
  <1>6. CASE OnSignal \/ DieOfSignal
    BY <1>6, <1>0 DEF OnSignal, DieOfSignal, childVars
  <1>7. CASE ChildDies \/ Finish \/ Fail \/ RunnerKills \/ OutsideKill
    <2>1. UNCHANGED child \/ \E code \in Codes : child' = [child EXCEPT !.at = "gone", !.rc = code]
      BY <1>7 DEF ChildDies, Finish, Fail, RunnerKills, OutsideKill, Killed
    <2>2. UNCHANGED disk /\ (UNCHANGED pipe \/ \E l : Say(l))
      BY <1>7, Zenon DEF ChildDies, Finish, Fail, RunnerKills, OutsideKill, Killed
    <2> HIDE DEF Codes, Whole
    <2>3. CASE UNCHANGED child
      BY <2>2, <2>3, <1>d, <1>q DEF Trains, Codes
    <2> QED
      BY <2>1, <2>2, <2>3, <1>a, <1>d, <1>q
  <1>8. CASE Spawn \/ Boot \/ SaveLine \/ Unlink \/ Link
    <2>1. \E next \in Places : child' = [child EXCEPT !.at = next]
      BY <1>8 DEF Spawn, Boot, SaveLine, Unlink, Link, At, Places
    <2>2. UNCHANGED disk /\ (UNCHANGED pipe \/ \E l : Say(l))
      BY <1>8, Zenon DEF Spawn, Boot, SaveLine, Unlink, Link
    <2> HIDE DEF Codes, Whole
    <2> QED
      BY <2>1, <2>2, <1>a, <1>d, <1>q
  <1>9. CASE Train
    <2>1. PICK at \in {"save", "train"} :
              child' = [child EXCEPT !.step = child.step + 1, !.at = at]
      BY <1>9 DEF Train
    <2>2. child'.at = at /\ child'.rc = child.rc
      BY <2>1 DEF Shapes
    <2>3. at \in Places
      BY DEF Places
    <2>4. UNCHANGED disk /\ (UNCHANGED pipe \/ \E l : Say(l))
      BY <1>9, Zenon DEF Train
    <2>5. child.rc \in Codes
      BY DEF Trains
    <2> HIDE DEF Codes, Whole
    <2> QED
      BY <2>2, <2>3, <2>4, <2>5, <1>d, <1>q
  <1>10. CASE MakeCheckpoint \/ WriteCheckpoint
    <2>1. /\ UNCHANGED pipe /\ \E next \in {"write", "unlink"} : child' = [child EXCEPT !.at = next]
          /\ \A s \in DOMAIN disk' :
                disk'[s] \in {"new", "full"} \/ (s \in DOMAIN disk /\ disk'[s] = disk[s])
      BY <1>10 DEF MakeCheckpoint, WriteCheckpoint, At
    <2>2. \E next \in Places : child' = [child EXCEPT !.at = next]
      BY <2>1 DEF Places
    <2>3. Whole'
      BY <2>1 DEF Trains
    <2> HIDE DEF Codes, Whole
    <2> QED
      BY <2>1, <2>2, <2>3, <1>a, <1>q
  <1> QED
    BY <1>1, <1>2, <1>3, <1>4, <1>5, <1>6, <1>7, <1>8, <1>9, <1>10
       DEF Next, Launch, Follow, Signals, Lerobot

\* A line of metrics.jsonl is half written or it is not.
LEMMA HalfKept ==
    ASSUME FilesTell, metrics.half \in BOOLEAN, [Next]_vars
    PROVE  metrics'.half \in BOOLEAN
  <1>1. UNCHANGED metrics \/ WriteMetrics
    BY Zenon
       DEF Next, vars, Rest, Lab, Check, Submit, Stop, StopReturns, JobEnds, PageReads, Rival, Launch,
           RefuseLaunch, Admit, MakeDir, Guard, Open, Opened, Spawn, Spawned, SpawnFails, Failed,
           ReplaceStatus, Follow, TakeLine, EndOfLog, Announce, Prune, List, Note, Noted, WriteResult,
           Close, Signals, OnSignal, DieOfSignal, ChildDies, Lerobot, Boot, Train, Fail, SaveLine,
           MakeCheckpoint, WriteCheckpoint, Unlink, Link, Finish, Child, RunnerKills, OutsideKill,
           Killed
  <1>2. CASE WriteMetrics
    <2>1. \/ metrics' = [metrics EXCEPT !.half = TRUE]
          \/ \E lines : metrics' = [lines |-> lines, half |-> FALSE]
      BY <1>2 DEF WriteMetrics
    <2>2. metrics' = [metrics EXCEPT !.half = TRUE] => metrics'.half = TRUE
      BY DEF FilesTell
    <2>3. (\E lines : metrics' = [lines |-> lines, half |-> FALSE]) => metrics'.half = FALSE
      OBVIOUS
    <2> QED
      BY <2>1, <2>2, <2>3, Zenon
  <1> QED
    BY <1>1, <1>2

\* Every variable of a run keeps its kind: train.py, lab and lerobot are where the code has
\* a place, the codes and words are those it gives, and the pipe never overflows.
THEOREM RunTypes == Spec => []TypeOK
  <1> DEFINE Known == /\ Checkpoints /\ MetricsFollow /\ Lines /\ Says
                      /\ Runs /\ Speaks /\ Trains /\ metrics.half \in BOOLEAN
  <1>1. Init => Known
    <2> SUFFICES ASSUME Init PROVE Runs /\ Speaks /\ Trains /\ metrics.half \in BOOLEAN
      BY InitCheckpoints, InitMetrics, InitLines, InitSays
    <2>1. Runs
      BY DEF Init, Runs, Before
    <2>2. Speaks
      BY DEF Init, Speaks, NoMem, NoStatus, NoResult, Words
    <2>3. Trains
      BY TrainAssumption DEF Init, Trains, Places
    <2> QED
      BY <2>1, <2>2, <2>3 DEF Init
  <1>2. Known /\ [Next]_vars => Known'
    <2> SUFFICES ASSUME Known, [Next]_vars PROVE Known'
      OBVIOUS
    <2>1. (Checkpoints /\ MetricsFollow /\ Lines /\ Says)'
      BY CheckpointsKept, MetricsKept, LinesKept, SaysKept
    <2>2. Runs' /\ Speaks' /\ Trains' /\ metrics'.half \in BOOLEAN
      BY RunsKept, SpeaksKept, TrainsKept, HalfKept DEF Checkpoints, MetricsFollow, Says
    <2> QED
      BY <2>1, <2>2
  <1>3. Known => TypeOK
    <2> SUFFICES ASSUME Known PROVE TypeOK
      OBVIOUS
    <2>1. scenario \in Scenarios
      BY DEF Checkpoints, Asked
    <2>2. last \in Nat /\ saved \in Nat
      BY ArgsKnown DEF Checkpoints, SavesInOrder
    <2>3. page.offset \in Nat
      BY DEF MetricsFollow, FilesTell
    <2> QED
      BY <2>1, <2>2, <2>3 DEF TypeOK, Runs, Speaks, Trains, Places
  <1> QED
    BY <1>1, <1>2, <1>3, PTL DEF Spec
===============================================================================
