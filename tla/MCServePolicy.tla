---------------------------- MODULE MCServePolicy ----------------------------
(* Instances of ServePolicy: two sessions of a client, whose GetActions may  *)
(* outlive the first, and two signals; every way a launch is refused.        *)
EXTENDS ServePolicy

CONSTANTS w1, w2

MCWorker == {w1, w2}

MCServed ==
    [checkpoint |-> "given", resolved |-> "dir", type |-> "pi05", chunkSize |-> 2,
     images |-> [wrist |-> <<3, 2, 4>>, top |-> <<3, 6, 8>>], dim |-> 2, joints |-> <<"pan", "grip">>]

MCRealpath == [given |-> "dir", last |-> "dir", other |-> "elsewhere"]

Matching ==
    [path |-> "given", type |-> "pi05", chunk |-> 2, rename |-> FALSE,
     images |-> [wrist |-> <<2, 4, 3>>, top |-> <<6, 8, 3>>], dim |-> 2, joints |-> <<"pan", "grip">>]

\* The loaded checkpoint under another name, and a client that would swap two cameras.
MCOffers ==
    {[Matching EXCEPT !.path = "last", !.chunk = 1],
     [Matching EXCEPT !.images = [wrist |-> <<6, 8, 3>>, top |-> <<2, 4, 3>>], !.joints = <<>>]}

Trained ==
    [files |-> {"config", "weights", "preprocessor", "postprocessor", "stats"},
     state_files |-> {"stats"}, supported |-> TRUE, fake |-> FALSE, features |-> TRUE,
     inRun |-> TRUE, fakeRun |-> FALSE, step |-> 2, last |-> 2]

Real ==
    [loopback |-> TRUE, plainName |-> TRUE, fake |-> "none", datasetRoot |-> FALSE, sameFps |-> FALSE,
     checkpoint |-> Trained, cuda |-> TRUE, gpu |-> [total |-> 39, free |-> 39],
     portFree |-> TRUE, sessionNew |-> TRUE]

Replay == [Real EXCEPT !.fake = "replay", !.datasetRoot = TRUE, !.sameFps = TRUE]

MCLaunches ==
    {Real, Replay, [Real EXCEPT !.loopback = FALSE], [Real EXCEPT !.gpu.free = 26],
     [Real EXCEPT !.checkpoint.last = 1], [Real EXCEPT !.checkpoint.fakeRun = TRUE],
     [Real EXCEPT !.checkpoint.state_files = {"stats", "scale"}], [Real EXCEPT !.portFree = FALSE],
     [Real EXCEPT !.sessionNew = FALSE], [Replay EXCEPT !.sameFps = FALSE],
     [Real EXCEPT !.fake = "hold", !.checkpoint.files = {}]}

=============================================================================
