---------------------------- MODULE TrainRequest ----------------------------
(***************************************************************************)
(* What becomes of a request to train: the options of research/train.py,   *)
(* lab/core/training.py, which turns the page's form into them, and the    *)
(* checks of both.  A form value is a record of its JSON kind and what it  *)
(* is; a command line is a function from the options it gives to values.   *)
(***************************************************************************)
EXTENDS Integers

Str(x) == [kind |-> "string", is |-> x]
Int2(x) == [kind |-> "int", is |-> x]
Flag(x) == [kind |-> "bool", is |-> x]
Ints(x) == [kind |-> "int_list", is |-> x]
Unset == [kind |-> "none", is |-> 0]

Opt(group, type, default) ==
    [group |-> group, type |-> type, default |-> default, required |-> FALSE, choices |-> {}, min |-> 1]
\* A plain int has no minimum.
NoMin == -1000
Needed(o) == [o EXCEPT !.required = TRUE]

\* What JSON may hold: a number of the form is a whole one.
IsValue(v) ==
    /\ v = [kind |-> v.kind, is |-> v.is]
    /\ v.kind = "int" => v.is \in Int
    /\ v.kind = "bool" => v.is \in BOOLEAN
    /\ v.kind = "int_list" => v.is \subseteq Int

\* None, or the empty string of an untouched form field.
Given(v) == v.kind # "none"
Empty(v) == v.kind = "int_list" /\ v.is = {}

\* build_parser and PARAM_UI. Durations, rates and counts are scaled to the
\* runs that are checked; options that only name something are left out.
Option ==
    [method |-> [Needed(Opt("basic", "string", Unset)) EXCEPT !.choices = {"h0", "expert_only"}],
     dataset |-> Needed(Opt("basic", "string", Unset)),
     dataset_root |-> Opt("basic", "string", Unset),
     seed |-> [Needed(Opt("basic", "int", Unset)) EXCEPT !.min = NoMin],
     output |-> Needed(Opt("basic", "string", Unset)),
     steps |-> Opt("basic", "int", Int2(5)),
     batch_size |-> Opt("basic", "int", Int2(16)),
     save_freq |-> Opt("basic", "int", Int2(2)),
     warmup_steps |-> Opt("advanced", "int", Int2(1)),
     log_freq |-> Opt("advanced", "int", Int2(2)),
     keep_checkpoints |-> Opt("advanced", "int_list", Ints({})),
     prune_checkpoints |-> Opt("advanced", "bool", Flag(TRUE)),
     wandb |-> Opt("advanced", "bool", Flag(FALSE)),
     base |-> Opt("fixed", "string", Str("pi05_base")),
     fake |-> Opt("fake", "flag", Flag(FALSE)),
     fake_fail |-> [Opt("fake", "string", Str("none")) EXCEPT !.choices = {"none", "oom", "error"}]]

\* Set by lab from the target and the dataset, never by the form.
LabParams == {"dataset", "dataset_root", "output", "fake"}

\* _option: the values of each type a form may send.
ValidOption(o, v) ==
    CASE o.type = "string" -> v.kind = "string" /\ v.is # "" /\ (o.choices = {} \/ v.is \in o.choices)
      [] o.type = "int" -> v.kind = "int" /\ v.is >= o.min
      [] o.type = "bool" -> v.kind = "bool"
      [] o.type = "int_list" -> v.kind = "int_list"
      [] OTHER -> FALSE

-----------------------------------------------------------------------------
(* resolve                                                                 *)

\* TrainError: answered with 400.
Malformed(req) ==
    \/ req.target \notin {"ssh", "local"} \/ req.backend \notin {"real", "fake"} \/ ~req.plain_names
    \/ \E p \in DOMAIN req.params :
        \/ p \notin DOMAIN Option \ LabParams
        \/ Option[p].group = "fixed" \/ (Option[p].group = "fake" /\ ~req.fake)
        \/ Given(req.params[p]) /\ ~ValidOption(Option[p], req.params[p])

Missing(req) ==
    {p \in DOMAIN Option \ LabParams :
        /\ Option[p].required
        /\ p \in DOMAIN req.params => ~Given(req.params[p])}

\* The lab-side checks that fail.
LabChecks(req, world) ==
    {c \in {"params"} : Missing(req) # {}}
    \cup IF req.target = "ssh"
         THEN {c \in {"remote"} : world.remote # "reachable"}
              \cup {c \in {"dataset_sync"} : world.remote = "reachable"
                                             /\ (req.backend # "real" \/ world.synced # "synced")}
         ELSE {c \in {"target"} : ~req.fake} \cup {c \in {"dataset"} : ~world.dataset}

\* The options train.sh is given.
Resolved(req) ==
    LET lab == [dataset |-> Str("local"), dataset_root |-> Str("root"), output |-> Str("run")]
        form == {p \in DOMAIN req.params : Given(req.params[p])}
    IN  [p \in form \cup DOMAIN lab \cup {f \in {"fake"} : req.fake} |->
            IF p \in DOMAIN lab THEN lab[p] ELSE IF p = "fake" THEN Flag(TRUE) ELSE req.params[p]]

\* What _positive_int refuses in a list that the form may hold.
Parses(given) ==
    "keep_checkpoints" \in DOMAIN given => \A s \in given.keep_checkpoints.is : s >= 1

\* What argparse makes of a command line.
Parsed(given) == [p \in DOMAIN Option |-> IF p \in DOMAIN given THEN given[p] ELSE Option[p].default]

-----------------------------------------------------------------------------
(* train.py --check                                                        *)

\* saved_steps
SavedSteps(args) ==
    {s \in 1..args.steps.is : s % args.save_freq.is = 0 \/ s = args.steps.is}

\* blocking_checks: what a run refuses to start with, now.
Blocking(args, world, dir) ==
    {c \in {"output"} : dir # "none"}
    \cup {c \in {"warmup"} : args.warmup_steps.is >= args.steps.is}
    \cup {c \in {"stats"} : world.stats # "ok" /\ ~args.fake.is}

\* lerobot_check
LerobotCheck(args, world) == {c \in {"lerobot"} : ~args.fake.is /\ world.lerobot = "absent"}

MaxBatchSizeTested == [h0 |-> 16, expert_only |-> 8]

\* advisory_checks, commit_check and a lerobot that is not the tested one: warnings,
\* with which a run starts regardless.
Warnings(req, args, world) ==
    {c \in {"batch_size"} : args.batch_size.is > MaxBatchSizeTested[args.method.is]}
    \cup {c \in {"keep_checkpoints"} : ~(args.keep_checkpoints.is \subseteq SavedSteps(args))}
    \cup {c \in {"stats"} : world.stats # "ok" /\ args.fake.is}
    \cup {c \in {"lerobot"} : ~args.fake.is /\ world.lerobot = "other"}
    \cup {c \in {"remote_commit"} : req.target = "ssh" /\ world.commit # "same"}

\* Options that are false left out, as if they were flags.
JobCommandOfTruthy(args) ==
    [p \in {o \in DOMAIN args :
                /\ Option[o].group = "fake" => args.fake.is
                /\ Given(args[o]) /\ ~Empty(args[o])
                /\ args[o].kind = "bool" => args[o].is} |-> args[p]]

\* job_command: every option explicit, those of the fake backend only for a fake run.
JobCommand(args) ==
    [p \in {o \in DOMAIN args :
                /\ Option[o].group = "fake" => args.fake.is
                /\ Given(args[o]) /\ ~Empty(args[o])
                /\ Option[o].type = "flag" => args[o].is} |-> args[p]]

\* The checks of a request: those on the target only when lab's own pass.
FailedChecks(req, world, dir) ==
    IF LabChecks(req, world) # {} THEN LabChecks(req, world)
    ELSE LET args == Parsed(Resolved(req))
         IN  IF world.target # "answers" \/ ~Parses(Resolved(req)) THEN {"train_check"}
             ELSE Blocking(args, world, dir) \cup LerobotCheck(args, world)

=============================================================================
