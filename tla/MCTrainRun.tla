----------------------------- MODULE MCTrainRun -----------------------------
(* Instances of TrainRun: five steps, checkpoints after 2, 4 and 5 of which  *)
(* the first is kept, a run that keeps them all, fake runs that fail, and    *)
(* every way a request is refused.                                          *)
EXTENDS TrainRun, TLC

World0 ==
    [remote |-> "reachable", synced |-> "synced", dataset |-> TRUE, target |-> "answers",
     stats |-> "ok", lerobot |-> "tested", commit |-> "same"]

Base == [method |-> Str("h0"), seed |-> Int2(0)]

OnHost ==
    [target |-> "ssh", backend |-> "real", plain_names |-> TRUE, fake |-> FALSE,
     params |-> [method |-> Str("h0"), seed |-> Int2(0), keep_checkpoints |-> Ints({2, 3})]]

Here == [OnHost EXCEPT !.target = "local", !.backend = "fake", !.fake = TRUE]

With(p, v) == [q \in DOMAIN Base \cup {p} |-> IF q = p THEN v ELSE Base[q]]

Case(req, world) == [request |-> req, world |-> world]

MCScenarios ==
    {Case(OnHost, [World0 EXCEPT !.lerobot = "other"]),
     Case([Here EXCEPT !.params = [steps |-> Int2(4), prune_checkpoints |-> Flag(FALSE)] @@ Base], World0),
     Case([Here EXCEPT !.params = With("fake_fail", Str("oom"))], [World0 EXCEPT !.stats = "missing"]),
     Case([Here EXCEPT !.params = [wandb |-> Flag(TRUE), fake_fail |-> Str("error")] @@ Base], World0),
     Case([OnHost EXCEPT !.params = With("base", Str("other"))], World0),
     Case([OnHost EXCEPT !.params = With("steps", Int2(0))], World0),
     Case([OnHost EXCEPT !.params = With("seed", Unset)], World0),
     Case([OnHost EXCEPT !.params = With("warmup_steps", Int2(5))], [World0 EXCEPT !.commit = "other"]),
     Case([OnHost EXCEPT !.backend = "fake"], World0),
     Case([OnHost EXCEPT !.target = "local"], World0),
     Case(OnHost, [World0 EXCEPT !.remote = "unreachable"]),
     Case(OnHost, [World0 EXCEPT !.synced = "different"]),
     Case(OnHost, [World0 EXCEPT !.stats = "unreadable"]),
     Case(OnHost, [World0 EXCEPT !.target = "silent"]),
     Case(OnHost, [World0 EXCEPT !.lerobot = "absent"]),
     Case([OnHost EXCEPT !.params = With("keep_checkpoints", Ints({0, 2}))], World0)}

=============================================================================
