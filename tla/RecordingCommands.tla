-------------------------- MODULE RecordingCommands --------------------------
(***************************************************************************)
(* The buttons of a running recording: start, finish and retry an episode, *)
(* stop.  A request passes CollectionService.send_command, which compares  *)
(* it with what the recorder reports, and is posted as command.json; a     *)
(* watcher thread of recording_worker.py reads it, answers it and sets the *)
(* flags that LeRobot's record loop looks at, while the main thread times  *)
(* the phases out and SIGINT may arrive at any point.  With MTREA_HARDWARE *)
(* =fake, FakeRecordingProcess plays both parts under one lock.            *)
(***************************************************************************)
EXTENDS Naturals

CONSTANTS
    Planned,    \* episodes to record
    MaxSends,   \* bound: requests of the page
    MaxFaults   \* bound: failed writes and LeRobot errors

ASSUME RecordingAssumption == Planned \in Nat \ {0} /\ MaxSends \in Nat /\ MaxFaults \in Nat

VARIABLES
    backend,    \* "real" or "fake", fixed
    pc,         \* where the recorder's main thread is
    slot,       \* the loop's caller: LeRobot "recording" or "resetting", or save "deferred"
    progress,   \* progress.json: phase, its id, the episode, episodes saved
    deferred,   \* pending_reset: a reset waits for the save
    events,     \* exit_early, rerecord_episode, stop_recording
    ended,      \* how the phase ended: "early", "time" or "error"
    take,       \* the recording phase whose frames are in the buffer
    watcher,    \* the watcher thread: where it is, its phase, its command
    mailbox,    \* command.json
    desk,       \* the request inside the service's send_command
    seen,       \* the progress the page shows
    stopping,   \* CollectionStatus.stop_requested
    signal,     \* a SIGINT not yet handled
    sends, faults,
    asked,      \* history: requests posted, [id, action]
    accepted,   \* history: of them, those answered "accepted"
    kept, dropped  \* history: recording phases saved, and discarded for a retry

service == <<desk, seen, stopping, sends>>
history == <<asked, accepted, kept, dropped>>
vars == <<backend, pc, slot, progress, deferred, events, ended, take, watcher, mailbox,
          service, signal, faults, history>>

Phases == {"connecting", "preparing", "recording", "saving", "resetting",
           "stopped", "completed", "failed"}
Commands == {"start_episode", "finish_episode", "retry_episode"}
Pcs == {"boot", "connect", "next", "loop", "check", "enter", "run", "join", "clear", "unset",
        "out", "recorded", "dispose", "save", "saved", "finish", "interrupt", "fail", "gone"}
Nothing == [action |-> "none", phase |-> "connecting", episode |-> 0, id |-> 0]

Progress == [phase : Phases, id : Nat, episode : Nat, saved : Nat]
Requests == [action : Commands, phase : Phases, episode : Nat, id : Nat] \cup {Nothing}
Asked == [id : Nat, action : Commands]

TypeOK ==
    /\ backend \in {"real", "fake"} /\ pc \in Pcs /\ slot \in {"recording", "resetting", "deferred"}
    /\ progress \in Progress /\ seen \in Progress
    /\ events \in [early : BOOLEAN, rerecord : BOOLEAN, stop : BOOLEAN]
    /\ {deferred, stopping, signal} \subseteq BOOLEAN
    /\ ended \in {"early", "time", "error"} /\ take \in Nat
    /\ watcher \in [pc : {"off", "look", "read", "answer", "unlink", "mark", "raise"},
                    cmd : Requests, failed : BOOLEAN]
    /\ mailbox \in Requests /\ desk \in Requests
    /\ sends \in Nat /\ faults \in Nat
    /\ asked \subseteq Asked /\ accepted \subseteq Asked
    /\ kept \subseteq Nat /\ dropped \subseteq Nat

\* allowed_actions, the same in the service, the worker and the fake.
Allowed(phase) ==
    CASE phase \in {"preparing", "resetting"} -> {"start_episode"}
      [] phase = "recording" -> {"finish_episode", "retry_episode"}
      [] OTHER -> {}

Idle == [pc |-> "off", cmd |-> Nothing, failed |-> FALSE]
Stopped == [phase |-> "connecting", id |-> 0, episode |-> 1, saved |-> 0]

Init ==
    /\ backend \in {"real", "fake"}
    /\ pc = "boot" /\ slot = "recording"
    /\ progress = Stopped /\ seen = Stopped
    /\ events = [early |-> FALSE, rerecord |-> FALSE, stop |-> FALSE]
    /\ deferred = FALSE /\ ended = "time" /\ take = 0
    /\ watcher = Idle /\ mailbox = Nothing /\ desk = Nothing
    /\ stopping = FALSE /\ signal = FALSE
    /\ sends = 0 /\ faults = 0
    /\ asked = {} /\ accepted = {} /\ kept = {} /\ dropped = {}

-------------------------------------------------------------------------------
(* The web page and CollectionService.                                      *)

\* The page polls the status; what it shows may be old by the time of a click.
Poll ==
    /\ seen # progress /\ seen' = progress
    /\ UNCHANGED <<backend, pc, slot, progress, deferred, events, ended, take, watcher, mailbox,
                   desk, stopping, signal, sends, faults, history>>

\* send_command's own checks; the service lock is held until the request is posted.
Request(action) ==
    /\ desk = Nothing /\ sends < MaxSends /\ sends' = sends + 1
    /\ ~stopping
    /\ <<seen.phase, seen.id, seen.episode>> = <<progress.phase, progress.id, progress.episode>>
    /\ action \in Allowed(seen.phase)
    /\ desk' = [action |-> action, phase |-> seen.phase, episode |-> seen.episode, id |-> seen.id]
    /\ UNCHANGED <<backend, pc, slot, progress, deferred, events, ended, take, watcher, mailbox,
                   seen, stopping, signal, faults, history>>

\* RecordingProcess.send_command: refused when the recorder has exited or a
\* command is pending, else command.json is replaced.
Post ==
    /\ backend = "real" /\ desk # Nothing /\ desk' = Nothing
    /\ IF pc = "gone" \/ mailbox # Nothing
       THEN UNCHANGED <<mailbox, asked>>
       ELSE /\ mailbox' = desk
            /\ asked' = asked \cup {[id |-> desk.id, action |-> desk.action]}
    /\ UNCHANGED <<backend, pc, slot, progress, deferred, events, ended, take, watcher, seen,
                   stopping, sends, signal, faults, accepted, kept, dropped>>

\* FakeRecordingProcess.send_command: compared, and acted on, under its lock.
FakeSend ==
    /\ backend = "fake" /\ desk # Nothing /\ desk' = Nothing
    /\ IF /\ pc \in {"run", "join"} /\ ~events.stop /\ ~events.early
          /\ <<progress.phase, progress.id, progress.episode>> = <<desk.phase, desk.id, desk.episode>>
       THEN /\ events' = [events EXCEPT !.early = TRUE,
                                        !.rerecord = desk.action = "retry_episode"]
            /\ asked' = asked \cup {[id |-> desk.id, action |-> desk.action]}
            /\ accepted' = accepted \cup {[id |-> desk.id, action |-> desk.action]}
       ELSE UNCHANGED <<events, asked, accepted>>
    /\ UNCHANGED <<backend, pc, slot, progress, deferred, ended, take, watcher, mailbox, seen,
                   stopping, sends, signal, faults, kept, dropped>>

\* CollectionService.stop: SIGINT to the worker, or the fake's two Events at once.
Stop ==
    /\ desk = Nothing /\ ~stopping /\ stopping' = TRUE
    /\ IF backend = "real"
       THEN signal' = (pc # "gone") /\ UNCHANGED events
       ELSE events' = [events EXCEPT !.stop = TRUE, !.early = TRUE] /\ UNCHANGED signal
    /\ UNCHANGED <<backend, pc, slot, progress, deferred, ended, take, watcher, mailbox, desk,
                   seen, sends, faults, history>>

-------------------------------------------------------------------------------
(* The watcher thread of recording_commands.                                *)

watcherSame == UNCHANGED <<backend, pc, slot, progress, deferred, ended, take, service, signal,
                           kept, dropped>>

\* `while not done.is_set()`: done is set once the phase is over.
Look ==
    /\ watcher.pc = "look"
    /\ watcher' = [watcher EXCEPT !.pc = IF pc # "run" \/ events.stop THEN "off" ELSE "read"]
    /\ UNCHANGED <<events, mailbox, faults, asked, accepted>> /\ watcherSame

\* No file: wait and look again.
Read ==
    /\ watcher.pc = "read"
    /\ watcher' = IF mailbox = Nothing THEN [watcher EXCEPT !.pc = "look"]
                  ELSE [watcher EXCEPT !.pc = "answer", !.cmd = mailbox]
    /\ UNCHANGED <<events, mailbox, faults, asked, accepted>> /\ watcherSame

\* Slip: phase and episode are compared, the attempt is not.
FitsEpisode(cmd) ==
    /\ cmd.phase = progress.phase /\ cmd.episode = progress.episode
    /\ cmd.action \in Allowed(progress.phase)

\* The watcher's phase is the one last staged: it is joined before the next.
Fits(cmd) ==
    /\ cmd.phase = progress.phase /\ cmd.episode = progress.episode /\ cmd.id = progress.id
    /\ cmd.action \in Allowed(progress.phase)

\* command_result.json, or the write fails and the thread's except runs.
Answer ==
    /\ watcher.pc = "answer"
    /\ \/ /\ accepted' = IF Fits(watcher.cmd)
                         THEN accepted \cup {[id |-> watcher.cmd.id, action |-> watcher.cmd.action]}
                         ELSE accepted
          /\ watcher' = [watcher EXCEPT !.pc = "unlink"]
          /\ UNCHANGED faults
       \/ /\ faults < MaxFaults /\ faults' = faults + 1
          /\ watcher' = [watcher EXCEPT !.pc = "raise", !.failed = TRUE]
          /\ UNCHANGED accepted
    /\ UNCHANGED <<events, mailbox, asked>> /\ watcherSame

\* A refused command leaves the mailbox too, and the watcher looks on.
Unlink ==
    /\ watcher.pc = "unlink"
    /\ mailbox' = Nothing
    /\ watcher' = IF Fits(watcher.cmd) THEN [watcher EXCEPT !.pc = "mark"]
                  ELSE [watcher EXCEPT !.pc = "look", !.cmd = Nothing]
    /\ UNCHANGED <<events, faults, asked, accepted>> /\ watcherSame

Mark ==
    /\ watcher.pc = "mark"
    /\ events' = [events EXCEPT !.rerecord = @ \/ watcher.cmd.action = "retry_episode"]
    /\ watcher' = [watcher EXCEPT !.pc = "raise"]
    /\ UNCHANGED <<mailbox, faults, asked, accepted>> /\ watcherSame

RaiseFlag ==
    /\ watcher.pc = "raise"
    /\ events' = [events EXCEPT !.early = TRUE]
    /\ watcher' = [watcher EXCEPT !.pc = "off", !.cmd = Nothing]
    /\ UNCHANGED <<mailbox, faults, asked, accepted>> /\ watcherSame

Watch == Look \/ Read \/ Answer \/ Unlink \/ Mark \/ RaiseFlag

-------------------------------------------------------------------------------
(* The worker's main thread: LeRobot's record() and the hooks around it.     *)

mainSame == UNCHANGED <<backend, service, signal, mailbox, asked, accepted>>
Real(at) == backend = "real" /\ pc = at
Goto(to) == pc' = to
Staged(phase, episode, saved) ==
    [phase |-> phase, id |-> progress.id + 1, episode |-> episode, saved |-> saved]
SameTake(phase) == Staged(phase, progress.episode, progress.saved)
OneMore(phase) == Staged(phase, progress.episode, progress.saved + 1)

\* The SIGINT handler runs between two steps of the main thread; before it is
\* installed the signal ends the process.
Handle ==
    /\ signal /\ signal' = FALSE
    /\ IF pc \in {"boot", "gone"} THEN pc' = "gone" /\ UNCHANGED events
       ELSE events' = [events EXCEPT !.stop = TRUE, !.early = TRUE] /\ UNCHANGED pc
    /\ UNCHANGED <<backend, slot, progress, deferred, ended, take, watcher, mailbox, service,
                   faults, history>>

\* main: the handler is installed, LeRobot imported and its cameras opened.
Boot ==
    /\ Real("boot") /\ Goto("connect")
    /\ UNCHANGED <<slot, progress, deferred, events, ended, take, watcher, faults, kept, dropped>>
    /\ mainSame

MakeRobot ==
    /\ Real("connect")
    /\ \/ /\ Goto(IF events.stop THEN "interrupt" ELSE "next") /\ UNCHANGED faults
       \/ /\ faults < MaxFaults /\ faults' = faults + 1 /\ Goto("fail")
    /\ UNCHANGED <<slot, progress, deferred, events, ended, take, watcher, kept, dropped>>
    /\ mainSame

\* record(): `while recorded_episodes < num_episodes and not stop_recording`.
NextEpisode ==
    /\ Real("next")
    /\ IF progress.saved < Planned /\ ~events.stop
       THEN Goto("loop") /\ slot' = "recording" ELSE Goto("finish") /\ UNCHANGED slot
    /\ UNCHANGED <<progress, deferred, events, ended, take, watcher, faults, kept, dropped>>
    /\ mainSame

\* The phase named begins: its stage is published and its watcher started.
Begin(phase, episode) ==
    /\ progress' = Staged(phase, episode, progress.saved)
    /\ watcher' = [Idle EXCEPT !.pc = "look"]
    /\ Goto("run")

\* loop: the first call prepares.
Loop ==
    /\ Real("loop")
    /\ IF progress.phase = "connecting" THEN Begin("preparing", progress.saved + 1)
       ELSE Goto("check") /\ UNCHANGED <<progress, watcher>>
    /\ UNCHANGED <<slot, deferred, events, ended, take, faults, kept, dropped>> /\ mainSame

\* Slip: the stop that ended the preparation is not looked at.
CheckLater ==
    /\ Real("check")
    /\ IF slot = "resetting" /\ ~events.rerecord THEN deferred' = TRUE /\ Goto("dispose")
       ELSE Goto("enter") /\ UNCHANGED deferred
    /\ UNCHANGED <<slot, progress, events, ended, take, watcher, faults, kept, dropped>>
    /\ mainSame

\* loop: a stop interrupts; a reset that follows a good episode waits for its save.
Check ==
    /\ Real("check")
    /\ IF events.stop THEN Goto("interrupt") /\ UNCHANGED deferred
       ELSE IF slot = "resetting" /\ ~events.rerecord
            THEN deferred' = TRUE /\ Goto("dispose")
            ELSE Goto("enter") /\ UNCHANGED deferred
    /\ UNCHANGED <<slot, progress, events, ended, take, watcher, faults, kept, dropped>>
    /\ mainSame

\* run_phase
Enter ==
    /\ Real("enter")
    /\ Begin(slot, progress.saved + 1)
    /\ take' = IF slot = "recording" THEN progress.id + 1 ELSE take
    /\ UNCHANGED <<slot, deferred, events, ended, faults, kept, dropped>> /\ mainSame

\* LeRobot's record_loop: exit_early breaks it and is cleared.
Break ==
    /\ pc = "run" /\ events.early /\ Goto("join")
    /\ ended' = "early"
    /\ events' = IF backend = "real" THEN [events EXCEPT !.early = FALSE] ELSE events
    /\ UNCHANGED <<slot, progress, deferred, take, watcher, faults, kept, dropped>> /\ mainSame

\* The phase runs its full time.
TimeUp ==
    /\ pc = "run" /\ Goto("join")
    /\ ended' = "time"
    /\ UNCHANGED <<slot, progress, deferred, events, take, watcher, faults, kept, dropped>>
    /\ mainSame

\* The robot or a camera fails in the loop.
LoopFails ==
    /\ Real("run") /\ faults < MaxFaults /\ faults' = faults + 1 /\ Goto("join")
    /\ ended' = "error"
    /\ UNCHANGED <<slot, progress, deferred, events, take, watcher, kept, dropped>> /\ mainSame

\* finally: done.set(), join.
Join ==
    /\ Real("join") /\ watcher.pc = "off" /\ Goto("clear")
    /\ UNCHANGED <<slot, progress, deferred, events, ended, take, watcher, faults, kept, dropped>>
    /\ mainSame

\* Slip: the flag a late command raised is left up.
ClearNever ==
    /\ Real("clear") /\ Goto("out")
    /\ UNCHANGED <<slot, progress, deferred, events, ended, take, watcher, faults, kept, dropped>>
    /\ mainSame

\* finally: `if not stop_recording` ...
Clear ==
    /\ Real("clear") /\ Goto(IF events.stop THEN "out" ELSE "unset")
    /\ UNCHANGED <<slot, progress, deferred, events, ended, take, watcher, faults, kept, dropped>>
    /\ mainSame

\* ... `exit_early = False`, a SIGINT may have come in between.
Unset ==
    /\ Real("unset") /\ Goto("out")
    /\ events' = [events EXCEPT !.early = FALSE]
    /\ UNCHANGED <<slot, progress, deferred, ended, take, watcher, faults, kept, dropped>>
    /\ mainSame

\* The phase is over: what the caller of the loop does next.
Out ==
    /\ Real("out")
    /\ IF ended = "error" \/ watcher.failed THEN Goto("fail") /\ UNCHANGED progress
       ELSE \/ /\ progress.phase = "preparing" /\ Goto("check") /\ UNCHANGED progress
            \/ /\ progress.phase = "recording" /\ Goto("recorded")
               /\ progress' = IF events.rerecord THEN progress ELSE SameTake("saving")
            \/ /\ progress.phase = "resetting" /\ UNCHANGED progress
               /\ Goto(IF slot = "deferred" THEN "next" ELSE "dispose")
    /\ UNCHANGED <<slot, deferred, events, ended, take, watcher, faults, kept, dropped>>
    /\ mainSame

\* record(): a reset after each episode but the last, and before a retry.
AskReset ==
    /\ Real("recorded")
    /\ IF ~events.stop /\ (progress.saved + 1 < Planned \/ events.rerecord)
       THEN Goto("check") /\ slot' = "resetting" ELSE Goto("dispose") /\ UNCHANGED slot
    /\ UNCHANGED <<progress, deferred, events, ended, take, watcher, faults, kept, dropped>>
    /\ mainSame

\* record(): a retry clears the buffer and both flags.
Dispose ==
    /\ Real("dispose")
    /\ IF events.rerecord
       THEN /\ events' = [events EXCEPT !.rerecord = FALSE, !.early = FALSE]
            /\ dropped' = dropped \cup {take} /\ Goto("next") /\ UNCHANGED progress
       ELSE /\ progress' = SameTake("saving") /\ Goto("save") /\ UNCHANGED <<events, dropped>>
    /\ UNCHANGED <<slot, deferred, ended, take, watcher, faults, kept>> /\ mainSame

\* save: LeRobot's save_episode, counted, or it raises.
Save ==
    /\ Real("save")
    /\ \/ /\ progress' = OneMore("saving")
          /\ kept' = kept \cup {take} /\ Goto("saved") /\ UNCHANGED faults
       \/ /\ faults < MaxFaults /\ faults' = faults + 1
          /\ Goto("fail") /\ UNCHANGED <<progress, kept>>
    /\ UNCHANGED <<slot, deferred, events, ended, take, watcher, dropped>> /\ mainSame

\* save: the reset that waited, unless stopped.
ResetAfterSave ==
    /\ Real("saved") /\ deferred' = FALSE
    /\ IF deferred /\ ~events.stop
       THEN slot' = "deferred" /\ Begin("resetting", progress.episode)
       ELSE Goto("next") /\ UNCHANGED <<slot, progress, watcher>>
    /\ UNCHANGED <<events, ended, take, faults, kept, dropped>> /\ mainSame

\* main: the last stage, and the process exits.
Finish ==
    /\ backend = "real" /\ pc \in {"finish", "interrupt", "fail"} /\ Goto("gone")
    /\ progress' = SameTake(IF pc = "fail" THEN "failed"
                          ELSE IF pc = "interrupt" \/ events.stop THEN "stopped" ELSE "completed")
    /\ UNCHANGED <<slot, deferred, events, ended, take, watcher, faults, kept, dropped>>
    /\ mainSame

-------------------------------------------------------------------------------
(* FakeRecordingProcess.wait: _stage waits on the Event that a command and   *)
(* a stop set.                                                               *)

\* _stage: the Event is cleared, and a stop that came first makes it return at
\* once. Whether a retry was requested has been read by then.
FakeStage(phase, episode, saved) ==
    /\ progress' = Staged(phase, episode, saved)
    /\ events' = [events EXCEPT !.early = FALSE, !.rerecord = FALSE]
    /\ take' = IF phase = "recording" THEN progress.id + 1 ELSE take
    /\ Goto(IF events.stop THEN "join" ELSE "run")

FakeEnd ==
    /\ progress' = SameTake(IF events.stop THEN "stopped" ELSE "completed")
    /\ Goto("gone") /\ UNCHANGED <<events, take>>

FakeNext(saved) ==
    IF events.stop \/ saved = Planned THEN FakeEnd ELSE FakeStage("recording", saved + 1, saved)

\* What _record does when a stage returns; an episode is appended in any case
\* once its recording was not stopped.
FakeTurn ==
    /\ backend = "fake"
    /\ \/ /\ pc = "boot" /\ FakeStage("preparing", 1, 0) /\ UNCHANGED <<kept, dropped>>
       \/ /\ pc = "join" /\ progress.phase \in {"preparing", "resetting"}
          /\ FakeNext(progress.saved) /\ UNCHANGED <<kept, dropped>>
       \/ /\ pc = "join" /\ progress.phase = "recording" /\ UNCHANGED kept
          /\ IF events.stop THEN FakeEnd /\ UNCHANGED dropped
             ELSE IF events.rerecord
                  THEN /\ FakeStage("resetting", progress.episode, progress.saved)
                       /\ dropped' = dropped \cup {take}
                  ELSE /\ FakeStage("saving", progress.episode, progress.saved)
                       /\ UNCHANGED dropped
       \/ /\ pc = "join" /\ progress.phase = "saving" /\ UNCHANGED dropped
          /\ kept' = kept \cup {take}
          /\ IF events.stop \/ progress.saved + 1 = Planned
             THEN /\ progress' = OneMore(IF events.stop THEN "stopped" ELSE "completed")
                  /\ Goto("gone") /\ UNCHANGED <<events, take>>
             ELSE FakeStage("resetting", progress.episode, progress.saved + 1)
    /\ UNCHANGED <<slot, deferred, ended, watcher, faults>> /\ mainSame

-------------------------------------------------------------------------------
Main ==
    \/ Boot \/ MakeRobot \/ NextEpisode \/ Loop \/ Check \/ Enter \/ Break \/ Join \/ Clear
    \/ Unset \/ Out \/ AskReset \/ Dispose \/ Save \/ ResetAfterSave \/ Finish \/ FakeTurn

Next ==
    \/ Poll \/ (\E action \in Commands : Request(action)) \/ Post \/ FakeSend \/ Stop
    \/ Watch \/ Handle \/ Main \/ TimeUp \/ LoopFails

Spec == Init /\ [][Next]_vars

\* Both threads of the recorder run, the kernel delivers the signal, and a
\* raised exit_early breaks LeRobot's loop. That a phase runs its full time is
\* not assumed: a stop must not depend on it.
FairSpec == Spec /\ WF_vars(Main) /\ WF_vars(Watch) /\ WF_vars(Handle)

-------------------------------------------------------------------------------
RetriesOf(ids) == {[id |-> i, action |-> "retry_episode"] : i \in ids}

\* A take is discarded only if somebody asked, while that very take was shown,
\* to retry it (not an earlier take of the same episode, nor by a request that
\* was still in the mailbox), and a take whose retry was accepted is never saved.
RetryIsMeant ==
    /\ RetriesOf(dropped) \subseteq asked
    /\ accepted \cap RetriesOf(kept) = {}

\* No phase is cut short but by a command given in that phase, by the stop
\* button, or because the command channel itself broke: an answer that comes
\* late, when LeRobot has already left the phase, must not end the next one.
CutShortForAReason ==
    pc = "join" /\ ended = "early" =>
        \/ \E action \in Commands : [id |-> progress.id, action |-> action] \in asked
        \/ events.stop \/ watcher.failed

\* Stop is answered whatever phase it meets and however long that phase is:
\* the recorder ends.
StopEnds == stopping ~> pc = "gone"

\* "Stopping and saving" (web/src/components/RecordingView.tsx:209): a take whose
\* finish was accepted is among the saved ones when a recorder that met no error
\* is gone.
FinishedTakeSaved ==
    backend = "real" /\ pc = "gone" /\ faults = 0 =>
        \A c \in accepted : c.action = "finish_episode" => c.id \in kept
===============================================================================
