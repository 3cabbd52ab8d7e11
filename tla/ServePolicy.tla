----------------------------- MODULE ServePolicy -----------------------------
(***************************************************************************)
(* research/serve_policy.py, serve_backend.py and the checks of            *)
(* serve_common.py: one policy server, from its preflight to its exit.     *)
(* The main thread loads, then watches for an idle client once a second;   *)
(* every RPC runs in a gRPC worker thread; signals are delivered to the    *)
(* main thread.  A robot client that restarts is a new session: one        *)
(* session at a time sends requests, but a GetActions of an earlier one    *)
(* may still be polling or predicting.  The other handlers take            *)
(* microseconds: they end before the next session begins, and within the   *)
(* grace of a stop (STOP_GRACE_S, serve_policy.py:50).                     *)
(***************************************************************************)
EXTENDS Integers, FiniteSets

CONSTANTS
    Worker,        \* gRPC worker threads (GRPC_WORKERS)
    MaxSession,    \* bound on client sessions
    MaxSignal,     \* bound on signals
    Launches,      \* command lines with what they meet, see Preflight
    Offers,        \* policy instructions a client may send
    Served,        \* the features of the loaded checkpoint
    Realpath,      \* os.path.realpath of the paths clients may send
    Episodes       \* recorded episodes of the replayed dataset

ASSUME ServeAssumption ==
    /\ {MaxSession, Episodes} \subseteq Nat \ {0} /\ MaxSignal \in Nat
    /\ Served.chunkSize \in Nat /\ Offers # {}

VARIABLES
    launch,    \* the command line, fixed
    pc,        \* where the main thread is
    ending,    \* how it will end: word for status.json, exit code
    signals,   \* signals delivered so far
    status,    \* status.json: word and client_connected
    ended,     \* session.json has its end_time and exit_code
    seen,      \* age of _last_activity
    accepted,  \* PolicyBackend.accepted
    lastObs,   \* session of last_processed_obs, 0 for None
    queue,     \* session of the queued observation, 0 when empty
    resets,    \* how often Ready has replaced the queue
    episode,   \* FakePolicyBackend.replay_episode
    handler,   \* what each worker thread runs
    cur,       \* the client's current session
    client,    \* how far it is
    offer,     \* the instructions it sends
    got        \* the last chunk it was given: for, from which observation and episode

mainVars == <<pc, ending, signals, ended>>
backendVars == <<accepted, lastObs, queue, resets, episode>>
clientVars == <<cur, client, offer, got>>
vars == <<launch, mainVars, status, seen, backendVars, handler, clientVars>>

Loop == {"started", "ready", "idle"}      \* RPCs are served
Guarded == {"loading", "loaded"} \cup Loop         \* a signal raises _Stop
Shutdown == {"draining", "closing", "closed"}      \* SIGTERM is ignored
Over == {"refused", "exited", "killed"}
Short == {"ready", "instruct", "accept", "told", "observe", "enqueue", "actions", "refuse", "lower"}

Session == 0..MaxSession
NoChunk == [by |-> 0, obs |-> 0, episode |-> 0]
Free == [at |-> "free", session |-> 0, obs |-> 0, reset |-> 0]
Handlers == [at : {"free", "filtered", "poll", "predict"} \cup Short,
             session : Session, obs : Session, reset : Nat]

TypeOK ==
    /\ launch \in Launches
    /\ pc \in {"preflight", "recording", "unwinding"} \cup Guarded \cup Shutdown \cup Over
    /\ ending \in [word : {"none", "stopped", "failed"}, code : {0, 1, 2, 130, 143}]
    /\ signals \in 0..MaxSignal
    /\ status \in [word : {"none", "loading", "ready", "serving", "stopped", "failed"},
                   connected : BOOLEAN]
    /\ ended \in BOOLEAN
    /\ seen \in {"never", "recent", "old"}
    /\ accepted \in BOOLEAN
    /\ lastObs \in Session /\ queue \in Session /\ resets \in Nat
    /\ episode \in 0..Episodes
    /\ handler \in [Worker -> Handlers]
    /\ cur \in Session
    /\ client \in {"gone", "calling", "greeted", "accepted", "refused"}
    /\ offer \in Offers
    /\ got \in [by : Session, obs : Session, episode : 0..Episodes]

Init ==
    /\ launch \in Launches
    /\ pc = "preflight" /\ ending = [word |-> "none", code |-> 0] /\ signals = 0
    /\ status = [word |-> "none", connected |-> FALSE] /\ ended = FALSE
    /\ seen = "never"
    /\ accepted = FALSE /\ lastObs = 0 /\ queue = 0 /\ resets = 0 /\ episode = 0
    /\ handler = [w \in Worker |-> Free]
    /\ cur = 0 /\ client = "gone" /\ offer = CHOOSE o \in Offers : TRUE
    /\ got = NoChunk

-----------------------------------------------------------------------------
(* What may be served: the checks of a command line and its checkpoint.    *)

\* checkpoint_provenance: whether lerobot's `last` has reached this step,
\* unknown outside a run's layout.
Complete(c) == ~c.inRun \/ (c.last # 0 /\ c.step <= c.last)

\* validate_checkpoint_dir
Servable(c) ==
    /\ {"config", "weights", "preprocessor", "postprocessor"} \subseteq c.files
    /\ c.supported /\ ~c.fake
    /\ c.state_files \subseteq c.files
    /\ ~(c.inRun /\ c.fakeRun)
    /\ Complete(c)

\* gpu_busy_reason, in GiB: more than 1 in use, or less than 12 free
GpuFree(g) == g.total - g.free <= 1 /\ g.free >= 12

\* fake_served_policy: features from the checkpoint's config, else the dataset
FakeServable(l) ==
    IF "config" \in l.checkpoint.files /\ l.checkpoint.features
    THEN l.checkpoint.supported
    ELSE l.datasetRoot

\* _preflight, then the port and the session directory of main
Preflight(l) ==
    /\ l.loopback /\ l.plainName
    /\ l.fake = "replay" => l.datasetRoot /\ l.sameFps
    /\ IF l.fake # "none" THEN FakeServable(l)
       ELSE Servable(l.checkpoint) /\ l.checkpoint.features /\ (l.cuda => GpuFree(l.gpu))
    /\ l.portFree /\ l.sessionNew

-----------------------------------------------------------------------------
(* What a client may ask for.                                              *)

\* same_checkpoint
SameCheckpoint(path) ==
    path = Served.checkpoint \/ (path \in DOMAIN Realpath /\ Realpath[path] = Served.resolved)

\* A checkpoint has images as channels, height, width; a client sends height, width, channels.
ClientShape(s) == <<s[2], s[3], s[1]>>

\* Cameras by name only.
CameraMismatches(c) ==
    {<<"missing", k>> : k \in DOMAIN Served.images \ DOMAIN c.images}
    \cup {<<"extra", k>> : k \in DOMAIN c.images \ DOMAIN Served.images}

\* feature_mismatches; a client without observation.state has dim 0, without names no joints.
FeatureMismatches(c) ==
    LET want == DOMAIN Served.images
        have == DOMAIN c.images
    IN  {<<"missing", k>> : k \in want \ have} \cup {<<"extra", k>> : k \in have \ want}
        \cup {<<"shape", k>> : k \in {i \in want \cap have : c.images[i] # ClientShape(Served.images[i])}}
        \cup {<<"state", k>> : k \in {n \in {"dimension"} : c.dim # Served.dim}}
        \cup {<<"joints", k>> : k \in {n \in {"order"} : /\ Served.joints # <<>> /\ c.joints # <<>>
                                                         /\ c.joints # Served.joints}}

\* instruction_mismatches
Mismatches(o) ==
    FeatureMismatches(o)
    \cup {p \in {"path"} : ~SameCheckpoint(o.path)}
    \cup {p \in {"type"} : o.type # Served.type}
    \cup {p \in {"chunk"} : ~(1 <= o.chunk /\ o.chunk <= Served.chunkSize)}
    \cup {p \in {"rename"} : o.rename}

Matches(o) == Mismatches(o) = {}

-----------------------------------------------------------------------------
(* The main thread.                                                        *)

\* Refused before anything is loaded: exit 2 and no session.
Refuse ==
    /\ pc = "preflight" /\ ~Preflight(launch)
    /\ pc' = "refused" /\ ending' = [word |-> "failed", code |-> 2]
    /\ UNCHANGED <<launch, signals, ended, status, seen, backendVars, handler, clientVars>>

\* The port is bound and SessionRecorder writes session.json and status.json.
Record ==
    /\ pc = "preflight" /\ Preflight(launch)
    /\ pc' = "recording" /\ status' = [word |-> "loading", connected |-> FALSE]
    /\ UNCHANGED <<launch, ending, signals, ended, seen, backendVars, handler, clientVars>>

\* signal.signal(s, on_signal) for SIGINT and SIGTERM.
Guard ==
    /\ pc = "recording" /\ pc' = "loading"
    /\ UNCHANGED <<launch, ending, signals, ended, status, seen, backendVars, handler, clientVars>>

\* load_policy, attach and warmup, which forgets its dummy observation; a fake loads nothing.
Load ==
    /\ pc = "loading" /\ pc' = "loaded" /\ lastObs' = 0
    /\ UNCHANGED <<launch, ending, signals, ended, status, seen, accepted, queue, resets,
                   episode, handler, clientVars>>

\* Weights that did not load, or an error of the load or warmup: exit 1.
LoadFails ==
    /\ pc = "loading" /\ launch.fake = "none"
    /\ pc' = "unwinding" /\ ending' = [word |-> "failed", code |-> 1]
    /\ UNCHANGED <<launch, signals, ended, status, seen, backendVars, handler, clientVars>>

\* grpc_server.start(): from here on RPCs are served.
StartServing ==
    /\ pc = "loaded" /\ pc' = "started"
    /\ UNCHANGED <<launch, ending, signals, ended, status, seen, backendVars, handler, clientVars>>

\* write_status(status="ready") and STATUS ready; client_connected is left as it is.
ReportReady ==
    /\ pc = "started" /\ pc' = "ready" /\ status' = [status EXCEPT !.word = "ready"]
    /\ UNCHANGED <<launch, ending, signals, ended, seen, backendVars, handler, clientVars>>

\* check_client_idle finds a client connected whose last RPC is CLIENT_IDLE_S ago,
FindIdle ==
    /\ pc = "ready" /\ status.connected /\ seen = "old" /\ pc' = "idle"
    /\ UNCHANGED <<launch, ending, signals, ended, status, seen, backendVars, handler, clientVars>>

\* and writes that it is gone.
ReportIdle ==
    /\ pc = "idle" /\ pc' = "ready" /\ status' = [word |-> "ready", connected |-> FALSE]
    /\ UNCHANGED <<launch, ending, signals, ended, seen, backendVars, handler, clientVars>>

\* backend.stop(), which empties the queue, the finally block, SIGTERM ignored,
\* grpc_server.stop(): no new RPC starts.
Unwind ==
    /\ pc = "unwinding" /\ pc' = "draining" /\ queue' = 0
    /\ UNCHANGED <<launch, ending, signals, ended, status, seen, accepted, lastObs, resets,
                   episode, handler, clientVars>>

DrainAtOnce ==
    /\ pc = "draining" /\ pc' = "closing"
    /\ UNCHANGED <<launch, ending, signals, ended, status, seen, backendVars, handler, clientVars>>

\* The wait for RPCs in flight. A poll or an inference may outlive it.
Drain ==
    /\ pc = "draining" /\ \A w \in Worker : handler[w].at \notin Short
    /\ pc' = "closing"
    /\ UNCHANGED <<launch, ending, signals, ended, status, seen, backendVars, handler, clientVars>>

\* SessionRecorder.close: status.json, then session.json.
CloseStatus ==
    /\ pc = "closing" /\ pc' = "closed"
    /\ status' = [word |-> ending.word, connected |-> FALSE]
    /\ UNCHANGED <<launch, ending, signals, ended, seen, backendVars, handler, clientVars>>

\* The end of the process takes its worker threads and its memory with it.
Vanish ==
    /\ handler' = [w \in Worker |-> Free]
    /\ accepted' = FALSE /\ lastObs' = 0 /\ queue' = 0 /\ resets' = 0 /\ episode' = 0
    /\ seen' = "never"
    /\ client' = "gone" /\ UNCHANGED <<cur, offer, got>>

\* os._exit
Exit ==
    /\ pc = "closed" /\ pc' = "exited" /\ ended' = TRUE /\ Vanish
    /\ UNCHANGED <<launch, ending, signals, status>>

Code(s) == IF s = "term" THEN 143 ELSE 130

\* A load that takes the exception for its own and goes on with random weights.
RaiseStopUnnoticed(s) ==
    /\ pc \in Guarded
    /\ \/ pc' = "unwinding" /\ ending' = [word |-> "stopped", code |-> Code(s)]
       \/ pc = "loading" /\ launch.fake = "none" /\ pc' = "loaded" /\ UNCHANGED ending
    /\ UNCHANGED <<seen, backendVars, handler, clientVars>>

\* on_signal raises _Stop in the main thread. While the model loads, lerobot may
\* take it for a load error: load_policy then finds the weights missing.
RaiseStop(s) ==
    /\ pc \in Guarded /\ pc' = "unwinding"
    /\ \/ ending' = [word |-> "stopped", code |-> Code(s)]
       \/ pc = "loading" /\ launch.fake = "none" /\ ending' = [word |-> "failed", code |-> 1]
    /\ UNCHANGED <<seen, backendVars, handler, clientVars>>

\* Before the handlers are set, between the first _Stop and SIG_IGN, and for
\* Ctrl+C until the end, a signal ends the process where it is.
Die(s) ==
    /\ pc \in {"preflight", "recording", "unwinding"} \/ (pc \in Shutdown /\ s = "int")
    /\ pc' = "killed" /\ Vanish /\ UNCHANGED ending

Signal ==
    /\ signals < MaxSignal /\ signals' = signals + 1
    /\ \E s \in {"int", "term"} :
        \/ RaiseStop(s)
        \/ Die(s)
        \/ /\ pc \in Shutdown /\ s = "term"
           /\ UNCHANGED <<pc, ending, seen, backendVars, handler, clientVars>>
    /\ UNCHANGED <<launch, ended, status>>

\* Time passes: the last RPC is CLIENT_IDLE_S ago.
Age ==
    /\ pc \in Loop /\ seen = "recent" /\ seen' = "old"
    /\ UNCHANGED <<launch, mainVars, status, backendVars, handler, clientVars>>

-----------------------------------------------------------------------------
(* The robot's client, as the protocol of docs/SERVING.md has it.          *)

Call(w, at, s) == handler' = [handler EXCEPT ![w] = [Free EXCEPT !.at = at, !.session = s]]

\* A new session connects once the requests of the one before have been
\* answered, its polls and predictions excepted.
Connect(w) ==
    /\ pc \in Loop /\ handler[w] = Free
    /\ client = "gone" /\ cur < MaxSession
    /\ \A v \in Worker : handler[v].at \notin Short
    /\ cur' = cur + 1 /\ client' = "calling" /\ offer' \in Offers
    /\ UNCHANGED got
    /\ Call(w, "ready", cur + 1)
    /\ UNCHANGED <<launch, mainVars, status, seen, backendVars>>

Instruct(w) ==
    /\ pc \in Loop /\ handler[w] = Free /\ client = "greeted"
    /\ client' = "calling" /\ Call(w, "instruct", cur)
    /\ UNCHANGED <<launch, mainVars, status, seen, backendVars, cur, offer, got>>

\* Observations and GetActions come from two threads of the client, one of each at a time.
Request(w, at, busy) ==
    /\ pc \in Loop /\ handler[w] = Free /\ client \in {"accepted", "refused"}
    /\ \A v \in Worker : ~(handler[v].session = cur /\ handler[v].at \in busy)
    /\ Call(w, at, cur)
    /\ UNCHANGED <<launch, mainVars, status, seen, backendVars, clientVars>>

Observe(w) == Request(w, "observe", {"observe", "enqueue", "refuse", "lower", "filtered"})
Ask(w) == Request(w, "actions", {"actions", "poll", "predict", "refuse", "lower"})

\* It may crash at any moment; while the server shuts down it makes no difference.
Leave ==
    /\ pc \in Loop /\ client # "gone" /\ client' = "gone" /\ got' = NoChunk
    /\ UNCHANGED <<launch, mainVars, status, seen, backendVars, handler, cur, offer>>

-----------------------------------------------------------------------------
(* The RPC handlers.                                                       *)

Move(w, at) == handler' = [handler EXCEPT ![w].at = at]
Answer(w) == handler' = [handler EXCEPT ![w] = Free]
Mine(w) == handler[w].session = cur /\ client # "gone"
Running == pc \notin Over

ReadyKeepingQueue(w) ==
    /\ Running /\ handler[w].at = "ready"
    /\ accepted' = FALSE /\ lastObs' = 0 /\ seen' = "recent"
    /\ resets' = resets + 1
    /\ episode' = IF launch.fake = "replay" THEN 1 + (resets % Episodes) ELSE episode
    /\ Answer(w)
    /\ client' = IF Mine(w) THEN "greeted" ELSE client
    /\ UNCHANGED <<launch, mainVars, status, queue, cur, offer, got>>

\* Ready: nobody is accepted, no previous observation, a new queue; a replay
\* moves to the next episode.
Ready(w) ==
    /\ Running /\ handler[w].at = "ready"
    /\ accepted' = FALSE /\ lastObs' = 0 /\ seen' = "recent"
    /\ queue' = 0 /\ resets' = resets + 1
    /\ episode' = IF launch.fake = "replay" THEN 1 + (resets % Episodes) ELSE episode
    /\ Answer(w)
    /\ client' = IF Mine(w) THEN "greeted" ELSE client
    /\ UNCHANGED <<launch, mainVars, status, cur, offer, got>>

\* SendPolicyInstructions compares and never loads.
CheckInstructions(w) ==
    /\ Running /\ handler[w].at = "instruct"
    /\ accepted' = FALSE
    /\ Move(w, IF Matches(offer) THEN "accept" ELSE "refuse")
    /\ UNCHANGED <<launch, mainVars, status, seen, lastObs, queue, resets, episode, clientVars>>

Accept(w) ==
    /\ Running /\ handler[w].at = "accept"
    /\ accepted' = TRUE /\ Move(w, "told")
    /\ UNCHANGED <<launch, mainVars, status, seen, lastObs, queue, resets, episode, clientVars>>

\* SessionRecorder.client_accepted
ReportAccepted(w) ==
    /\ Running /\ handler[w].at = "told"
    /\ seen' = "recent" /\ status' = [word |-> "serving", connected |-> TRUE]
    /\ Answer(w)
    /\ client' = IF Mine(w) THEN "accepted" ELSE client
    /\ UNCHANGED <<launch, mainVars, backendVars, cur, offer, got>>

\* SendObservations and GetActions: only after accepted instructions.
Admit(w, at, next) ==
    /\ Running /\ handler[w].at = at
    /\ seen' = "recent"
    /\ Move(w, IF accepted THEN next ELSE "refuse")
    /\ UNCHANGED <<launch, mainVars, status, backendVars, clientVars>>

AdmitObservation(w) == Admit(w, "observe", "enqueue")
AdmitActions(w) == Admit(w, "actions", "poll")

\* SessionRecorder.refused looks at the status word before it takes the lock ...
FindServing(w) ==
    /\ Running /\ handler[w].at = "refuse"
    /\ handler' = [handler EXCEPT ![w].at = "lower", ![w].obs = IF status.word = "serving" THEN 1 ELSE 0]
    /\ UNCHANGED <<launch, mainVars, status, seen, backendVars, clientVars>>

\* ... to write it; then the RPC is aborted.
ReportRefused(w) ==
    /\ Running /\ handler[w].at = "lower"
    /\ status' = [word |-> IF handler[w].obs = 1 THEN "ready" ELSE status.word, connected |-> FALSE]
    /\ Answer(w)
    /\ client' = IF Mine(w) /\ client = "calling" THEN "refused" ELSE client
    /\ UNCHANGED <<launch, mainVars, seen, backendVars, cur, offer, got>>

\* The inherited similarity filter lets the first observation pass, one marked
\* must_go, and one that differs from last_processed_obs.
Enqueue(w) ==
    /\ Running /\ handler[w].at = "enqueue"
    /\ queue' = handler[w].session /\ Answer(w)
    /\ UNCHANGED <<launch, mainVars, status, seen, accepted, lastObs, resets, episode, clientVars>>

Filter(w) ==
    /\ Running /\ handler[w].at = "enqueue" /\ lastObs # 0
    /\ Move(w, "filtered")
    /\ UNCHANGED <<launch, mainVars, status, seen, backendVars, clientVars>>

EndFiltered(w) ==
    /\ Running /\ handler[w].at = "filtered" /\ Answer(w)
    /\ UNCHANGED <<launch, mainVars, status, seen, backendVars, clientVars>>

\* The inherited GetActions waits on the queue it found, not on the one a later Ready makes.
FindQueue(w) ==
    /\ Running /\ handler[w].at = "poll" /\ handler[w].reset = 0
    /\ handler' = [handler EXCEPT ![w].reset = resets]
    /\ UNCHANGED <<launch, mainVars, status, seen, backendVars, clientVars>>

Take(w) ==
    /\ Running /\ handler[w].at = "poll" /\ handler[w].reset = resets /\ queue # 0
    /\ handler' = [handler EXCEPT ![w].at = "predict", ![w].obs = queue]
    /\ queue' = 0
    /\ UNCHANGED <<launch, mainVars, status, seen, accepted, lastObs, resets, episode, clientVars>>

\* obs_queue_timeout, answered with an empty Actions.
TimeOut(w) ==
    /\ Running /\ handler[w].at = "poll" /\ handler[w].reset # 0 /\ Answer(w)
    /\ UNCHANGED <<launch, mainVars, status, seen, backendVars, clientVars>>

\* The prediction fails: it is recorded and the client gets no chunk.
PredictFails(w) ==
    /\ Running /\ handler[w].at = "predict" /\ launch.fake = "none" /\ Answer(w)
    /\ UNCHANGED <<launch, mainVars, status, seen, backendVars, clientVars>>

\* _predict_action_chunk remembers its observation and the chunk is recorded and answered.
Predict(w) ==
    /\ Running /\ handler[w].at = "predict"
    /\ lastObs' = handler[w].obs /\ Answer(w)
    /\ got' = IF Mine(w) THEN [by |-> cur, obs |-> handler[w].obs, episode |-> episode] ELSE got
    /\ UNCHANGED <<launch, mainVars, status, seen, accepted, queue, resets, episode, cur, client, offer>>

-----------------------------------------------------------------------------

Main ==
    \/ Refuse \/ Record \/ Guard \/ Load \/ LoadFails \/ StartServing \/ ReportReady
    \/ FindIdle \/ ReportIdle \/ Unwind \/ Drain \/ CloseStatus \/ Exit

Handle(w) ==
    \/ Ready(w) \/ CheckInstructions(w) \/ Accept(w) \/ ReportAccepted(w)
    \/ AdmitObservation(w) \/ AdmitActions(w) \/ FindServing(w) \/ ReportRefused(w)
    \/ Enqueue(w) \/ Filter(w) \/ EndFiltered(w)
    \/ FindQueue(w) \/ Take(w) \/ TimeOut(w) \/ PredictFails(w) \/ Predict(w)

Clients == Leave \/ \E w \in Worker : Connect(w) \/ Instruct(w) \/ Observe(w) \/ Ask(w)

\* The process is over.
Rest == pc \in Over /\ UNCHANGED vars

Next == Main \/ Signal \/ Age \/ Clients \/ (\E w \in Worker : Handle(w)) \/ Rest

\* Threads keep running; clients and signals owe nothing.
Fairness == WF_vars(Main) /\ \A w \in Worker : WF_vars(Handle(w))

Spec == Init /\ [][Next]_vars /\ Fairness

-----------------------------------------------------------------------------

\* A client is only ever given chunks computed from an observation of its own
\* session and, in a replay, from the episode its Ready chose, though an earlier
\* session's GetActions may be polling or predicting (serve_backend.py, Ready and
\* GetActions; FakePolicyBackend.Ready).
FreshChunks ==
    got.by # 0 => /\ got.obs = got.by
                  /\ launch.fake = "replay" => got.episode = 1 + ((got.by - 1) % Episodes)

\* A client gets chunks only if each of its cameras is the one of that name the
\* checkpoint was trained on and its joints, where both name them, are in that
\* order, whatever it goes on sending after a refusal and whoever was accepted
\* before it (serve_backend.py, SendPolicyInstructions and its two guards;
\* feature_mismatches).
OnlyTrainedFeatures ==
    got.by # 0 =>
        /\ DOMAIN offer.images = DOMAIN Served.images
        /\ \A k \in DOMAIN Served.images : offer.images[k] = ClientShape(Served.images[k])
        /\ offer.dim = Served.dim
        /\ Served.joints = <<>> \/ offer.joints \in {<<>>, Served.joints}

\* However a server that had a session ends by itself, late RPCs and further
\* SIGTERMs included, both files say so and agree with the exit code
\* (serve_policy.py, main after its try block, and SessionRecorder.close).
OrderlyEnd ==
    pc = "exited" =>
        /\ ended /\ ~status.connected
        /\ status.word = IF ending.code = 1 THEN "failed" ELSE "stopped"
        /\ ending.code \in {1, 130, 143}

\* A server told to stop ends, whatever its workers are doing and even if the load
\* mistakes the signal for an error of its own (serve_policy.py, main; load_policy).
StopEnds == (signals > 0) ~> (pc \in Over)

\* The first observations of a new session are not compared with those of the
\* session before (said of Ready at serve_backend.py:17).
NewSessionUnfiltered ==
    [][\A w \in Worker : (handler[w].at = "enqueue" /\ handler'[w].at = "filtered")
                            => lastObs = handler[w].session]_vars

=============================================================================
