------------------------ MODULE RecordingCommands_proofs ------------------------
(***************************************************************************)
(* Proofs about RecordingCommands, for any number of episodes, requests    *)
(* and faults.  The inductive invariant follows a retry from the mailbox   *)
(* through the watcher and rerecord_episode to the place where LeRobot     *)
(* clears its buffer, and says whose phase an exit_early was raised in.    *)
(***************************************************************************)
EXTENDS RecordingCommands, TLAPS

Request1(id, action) == [id |-> id, action |-> action]
Retry == Request1(take, "retry_episode")

\* A request on its way is one the phase it was made for allows; a posted one was asked.
Channel ==
    /\ desk # Nothing => desk.action \in Allowed(desk.phase)
    /\ mailbox # Nothing => Request1(mailbox.id, mailbox.action) \in asked

\* Identifiers grow with the phases, and a recording's is its take's.
Ids ==
    /\ take <= progress.id
    /\ \A a \in accepted : a.id <= progress.id
    /\ \A k \in kept : k <= progress.id
    /\ progress.phase = "recording" => take = progress.id /\ take \notin kept

InPhase == {"run", "join", "clear", "unset", "out"}

\* Where LeRobot is tells which of its loops, and so which phase, is running.
Places ==
    /\ pc = "loop" => slot = "recording"
    /\ pc \in {"check", "enter"} => slot \in {"recording", "resetting"}
    /\ pc \in InPhase =>
          \/ progress.phase \in {"preparing", "recording"} /\ slot = "recording"
          \/ progress.phase = "resetting" /\ slot \in {"resetting", "deferred"}

\* The watcher lives within its phase, and what it is about to raise fits that phase.
Watching ==
    /\ watcher.pc # "off" => pc \in {"run", "join"}
    /\ watcher.pc \in {"answer", "unlink", "mark"} =>
          Request1(watcher.cmd.id, watcher.cmd.action) \in asked
    /\ watcher.pc = "mark" => Fits(watcher.cmd)
    /\ watcher.pc = "raise" /\ ~watcher.failed =>
          \E action \in Commands : Request1(progress.id, action) \in asked

\* rerecord_episode is up for the take in the buffer, until that is thrown away.
Rerecord ==
    events.rerecord =>
        /\ Retry \in asked
        /\ \/ pc \in InPhase /\ progress.phase = "recording"
           \/ pc \in InPhase /\ progress.phase = "resetting" /\ slot = "resetting"
           \/ pc \in {"check", "enter"} /\ slot = "resetting"
           \/ pc \in {"recorded", "dispose", "interrupt", "fail", "gone"}

\* An accepted retry is on its way to that flag, in it, or carried out.
Accepted ==
    Retry \in accepted =>
        \/ events.rerecord
        \/ /\ watcher.pc \in {"unlink", "mark"}
           /\ watcher.cmd.action = "retry_episode" /\ Fits(watcher.cmd)
        \/ pc \in {"next", "loop", "finish", "interrupt", "fail", "gone"}
        \/ pc \in {"check", "enter"} /\ slot = "recording"
        \/ pc \in InPhase /\ progress.phase = "preparing"

\* No exit_early of one phase is left for the next.
Cause ==
    \/ \E action \in Commands : Request1(progress.id, action) \in asked
    \/ events.stop \/ watcher.failed

Early ==
    /\ pc = "run" /\ events.early => Cause
    /\ pc = "join" /\ ended = "early" => Cause
    /\ pc \notin {"run", "join", "clear", "unset"} => (events.early => events.stop)

RealInv == Places /\ Watching /\ Rerecord /\ Accepted /\ Early

\* The fake's one Event and its flag.
FakeInv ==
    /\ pc \in {"boot", "run", "join", "gone"}
    /\ watcher.pc = "off" /\ ~watcher.failed
    /\ events.rerecord => events.early /\ Retry \in asked
    /\ progress.phase = "recording" /\ Retry \in accepted => events.rerecord
    /\ progress.phase = "saving" => Retry \notin accepted
    /\ pc = "run" /\ events.early => Cause
    /\ pc = "join" /\ ended = "early" => Cause

IInv ==
    /\ TypeOK /\ Channel /\ Ids /\ RetryIsMeant
    /\ backend = "real" => RealInv
    /\ backend = "fake" => FakeInv

-------------------------------------------------------------------------------
\* Only a recording can be retried, and a save takes no command.
LEMMA AllowedFacts ==
    /\ \A phase : Allowed(phase) \subseteq Commands
    /\ \A phase : "retry_episode" \in Allowed(phase) => phase = "recording"
    /\ Allowed("saving") = {}
  BY DEF Allowed, Commands

\* A step leaves progress.json, the take and the saved takes alone, or publishes
\* one stage, which is a new take when it is a recording.
Publishes ==
    /\ progress'.id = progress.id + 1
    /\ take' = IF progress'.phase = "recording" THEN progress'.id ELSE take
    /\ kept' = kept \/ (kept' = kept \cup {take} /\ progress'.phase # "recording")

\* A step publishes a phase, or leaves the phase, the take and what is kept alone.
LEMMA StageStep ==
    ASSUME IInv, [Next]_vars
    PROVE  /\ progress' \in Progress
           /\ (progress' = progress /\ take' = take /\ kept' = kept) \/ Publishes
  <1>. USE DEF service, history, Progress, Phases, Staged, SameTake, OneMore
  <1>0. TypeOK /\ progress \in Progress
    BY DEF IInv, TypeOK
  <1>1. CASE Loop
    BY <1>0, <1>1 DEF Loop, Begin, Publishes
  <1>2. CASE Enter
    <2>1. slot \in {"recording", "resetting"}
      BY <1>2 DEF IInv, RealInv, Places, Enter, Real
    <2>. QED
      BY <1>0, <1>2, <2>1 DEF Enter, Begin, Publishes
  <1>3. CASE ResetAfterSave
    BY <1>0, <1>3 DEF ResetAfterSave, Begin, Publishes
  <1>4. CASE Out \/ Dispose
    BY <1>0, <1>4 DEF Out, Dispose, Publishes
  <1>5. CASE Save
    BY <1>0, <1>5 DEF Save, Publishes
  <1>6. CASE Finish
    BY <1>0, <1>6 DEF Finish, Publishes
  <1>7. CASE FakeTurn
    BY <1>0, <1>7 DEF FakeTurn, FakeStage, FakeEnd, FakeNext, Publishes
  <1>8. CASE \/ Boot \/ MakeRobot \/ NextEpisode \/ Check \/ Break \/ TimeUp \/ LoopFails \/ Join
             \/ Clear \/ Unset \/ AskReset
    BY <1>0, <1>8 DEF Boot, MakeRobot, NextEpisode, Check, Break, TimeUp, LoopFails, Join, Clear,
                      Unset, AskReset
  <1>9. CASE \/ Poll \/ (\E action \in Commands : Request(action)) \/ Post \/ FakeSend \/ Stop
             \/ Watch \/ Handle \/ UNCHANGED vars
    BY <1>0, <1>9 DEF Poll, Request, Post, FakeSend, Stop, Watch, Look, Read, Answer, Unlink, Mark,
                      RaiseFlag, watcherSame, Handle, vars
  <1>. QED
    BY <1>1, <1>2, <1>3, <1>4, <1>5, <1>6, <1>7, <1>8, <1>9 DEF Next, Main

\* Answers go to the request of the phase that is under way.
LEMMA AcceptedStep ==
    ASSUME IInv, [Next]_vars
    PROVE  \/ accepted' = accepted
           \/ /\ progress' = progress /\ take' = take /\ kept' = kept
              /\ \E action \in Allowed(progress.phase) :
                     accepted' = accepted \cup {[id |-> progress.id, action |-> action]}
  <1>. USE DEF service, history
  <1>1. CASE FakeSend
    BY <1>1 DEF FakeSend, IInv, Channel
  <1>2. CASE Answer
    BY <1>2 DEF Answer, Fits, watcherSame
  <1>3. CASE \/ Poll \/ (\E action \in Commands : Request(action)) \/ Post \/ Stop \/ Handle
             \/ Look \/ Read \/ Unlink \/ Mark \/ RaiseFlag \/ UNCHANGED vars
    BY <1>3 DEF Poll, Request, Post, Stop, Handle, Look, Read, Unlink, Mark, RaiseFlag,
                watcherSame, vars
  <1>4. CASE Main \/ TimeUp \/ LoopFails
    BY <1>4 DEF Main, TimeUp, LoopFails, Boot, MakeRobot, NextEpisode, Loop, Check, Enter, Break,
                Join, Clear, Unset, Out, AskReset, Dispose, Save, ResetAfterSave, Finish,
                FakeTurn, mainSame
  <1>. QED
    BY <1>1, <1>2, <1>3, <1>4 DEF Next, Watch

\* Ids only grow, by one with each stage.
LEMMA IdsStep ==
    ASSUME IInv, [Next]_vars
    PROVE  Ids'
  <1>1. TypeOK /\ Ids
    BY DEF IInv
  <1>2. /\ progress \in Progress /\ progress' \in Progress /\ take \in Nat
        /\ accepted \subseteq Asked /\ kept \subseteq Nat
    BY <1>1, StageStep DEF TypeOK
  <1>3. CASE progress' = progress /\ take' = take /\ kept' = kept
    BY <1>1, <1>2, <1>3, AcceptedStep DEF Ids, Progress, Asked
  <1>4. CASE Publishes
    <2>1. accepted' = accepted
      BY <1>2, <1>4, AcceptedStep DEF Publishes, Progress
    <2>2. progress.id \in Nat /\ progress'.id = progress.id + 1
      BY <1>2, <1>4 DEF Publishes, Progress
    <2>3. \A a \in accepted' : a.id <= progress'.id
      <3>1. \A a \in accepted : a.id \in Nat /\ a.id <= progress.id
        BY <1>1, <1>2 DEF Ids, Asked
      <3>. QED
        BY <2>1, <2>2, <3>1
    <2>4. take' <= progress'.id
      BY <1>1, <1>2, <1>4, <2>2 DEF Ids, Publishes
    <2>5. \A k \in kept \cup {take} : k \in Nat /\ k <= progress.id
      BY <1>1, <1>2 DEF Ids
    <2>6. \A k \in kept' : k \in kept \cup {take}
      BY <1>4 DEF Publishes
    <2>7. \A k \in kept' : k <= progress'.id /\ k # progress'.id
      BY <2>2, <2>5, <2>6
    <2>8. progress'.phase = "recording" => take' = progress'.id /\ take' \notin kept'
      BY <1>4, <2>7 DEF Publishes
    <2>. QED
      BY <2>3, <2>4, <2>7, <2>8 DEF Ids
  <1>. QED
    BY <1>3, <1>4, StageStep

\* LeRobot's loops are entered where Places says.
LEMMA PlacesStep ==
    ASSUME IInv, [Next]_vars
    PROVE  (backend = "real" => Places)'
  <1>. USE DEF service, history, watcherSame, mainSame, Real, Goto, IInv, RealInv, TypeOK,
           InPhase, Phases, Places, Staged, SameTake, OneMore
  <1>1. CASE \/ Poll \/ (\E action \in Commands : Request(action)) \/ Post \/ FakeSend \/ Stop
             \/ Handle
    BY <1>1 DEF Poll, Request, Post, FakeSend, Stop, Handle
  <1>2. CASE \/ Look \/ Read \/ Answer \/ Unlink \/ Mark \/ RaiseFlag
    BY <1>2 DEF Look, Read, Answer, Fits, Unlink, Mark, RaiseFlag
  <1>3. CASE Loop
    BY <1>3 DEF Loop, Begin
  <1>4. CASE Enter
    BY <1>4 DEF Enter, Begin
  <1>5. CASE \/ Boot \/ MakeRobot \/ NextEpisode \/ Check \/ Break \/ TimeUp \/ LoopFails \/ Join
    BY <1>5 DEF Boot, MakeRobot, NextEpisode, Check, Break, TimeUp, LoopFails, Join
  <1>6. CASE Out
    BY <1>6 DEF Out
  <1>7. CASE ResetAfterSave
    BY <1>7 DEF ResetAfterSave, Begin
  <1>8. CASE \/ Clear \/ Unset \/ AskReset \/ Dispose \/ Save \/ Finish
    BY <1>8 DEF Clear, Unset, AskReset, Dispose, Save, Finish
  <1>9. CASE FakeTurn
    BY <1>9 DEF FakeTurn, FakeStage, FakeEnd, FakeNext
  <1>10. CASE UNCHANGED vars
    BY <1>10 DEF vars, Fits
  <1>. QED
    BY <1>1, <1>2, <1>3, <1>4, <1>5, <1>6, <1>7, <1>8, <1>9, <1>10
       DEF Next, Main, Watch

\* A request is made for the phase the page shows, and posted as it is.
LEMMA ChannelStep ==
    ASSUME IInv, [Next]_vars
    PROVE  Channel'
  <1>. USE DEF service, history, watcherSame, mainSame, Real, Goto, IInv, TypeOK, Channel,
           Request1
  <1>1. CASE \E action \in Commands : Request(action)
    BY <1>1 DEF Request
  <1>2. CASE Post
    BY <1>2 DEF Post
  <1>3. CASE \/ Poll \/ FakeSend \/ Stop \/ Handle
    BY <1>3 DEF Poll, FakeSend, Stop, Handle
  <1>4. CASE \/ Look \/ Read \/ Answer \/ Unlink \/ Mark \/ RaiseFlag
    BY <1>4 DEF Look, Read, Answer, Fits, Unlink, Mark, RaiseFlag
  <1>5. CASE \/ Boot \/ MakeRobot \/ NextEpisode \/ Loop \/ Check \/ Enter \/ Break \/ TimeUp
             \/ LoopFails \/ Join
    BY <1>5 DEF Boot, MakeRobot, NextEpisode, Loop, Begin, Check, Enter, Break, TimeUp, LoopFails,
              Join
  <1>6. CASE \/ Clear \/ Unset \/ Out \/ AskReset \/ Dispose \/ Save \/ ResetAfterSave \/ Finish
    BY <1>6 DEF Clear, Unset, Out, AskReset, Dispose, Save, ResetAfterSave, Begin, Finish
  <1>7. CASE FakeTurn
    BY <1>7 DEF FakeTurn, FakeStage, FakeEnd, FakeNext
  <1>8. CASE UNCHANGED vars
    BY <1>8 DEF vars, Fits
  <1>. QED
    BY <1>1, <1>2, <1>3, <1>4, <1>5, <1>6, <1>7, <1>8
       DEF Next, Main, Watch

\* The watcher ends with its phase.
LEMMA WatchingStep ==
    ASSUME IInv, [Next]_vars
    PROVE  (backend = "real" => Watching)'
  <1>. USE DEF service, history, watcherSame, mainSame, Real, Goto, IInv, RealInv, TypeOK,
           InPhase, Phases, Places, Staged, SameTake, OneMore, Channel, Idle, Nothing, Request1,
           Watching, Fits
  <1>1. CASE Post
    BY <1>1 DEF Post
  <1>2. CASE FakeSend
    BY <1>2 DEF FakeSend
  <1>3. CASE \/ Poll \/ (\E action \in Commands : Request(action)) \/ Stop \/ Handle
    BY <1>3 DEF Poll, Request, Stop, Handle
  <1>4. CASE Look
    BY <1>4 DEF Look
  <1>5. CASE Read
    BY <1>5 DEF Read
  <1>6. CASE Answer
    BY <1>6 DEF Answer, Fits
  <1>7. CASE Unlink
    BY <1>7 DEF Unlink, Fits
  <1>8. CASE Mark
    <2>1. backend = "real" => watcher.cmd.id = progress.id /\ watcher.cmd.action \in Commands
      BY <1>8, AllowedFacts DEF Mark, Fits
    <2>. QED
      BY <1>8, <2>1 DEF Mark
  <1>9. CASE RaiseFlag
    BY <1>9 DEF RaiseFlag
  <1>10. CASE Loop
    BY <1>10 DEF Loop, Begin
  <1>11. CASE Enter
    BY <1>11 DEF Enter, Begin
  <1>12. CASE Break
    BY <1>12 DEF Break
  <1>13. CASE TimeUp
    BY <1>13 DEF TimeUp
  <1>14. CASE LoopFails
    BY <1>14 DEF LoopFails
  <1>15. CASE Join
    BY <1>15 DEF Join
  <1>16. CASE \/ Boot \/ MakeRobot \/ NextEpisode \/ Check
    BY <1>16 DEF Boot, MakeRobot, NextEpisode, Check
  <1>17. CASE ResetAfterSave
    BY <1>17 DEF ResetAfterSave, Begin
  <1>18. CASE \/ Clear \/ Unset \/ Out \/ AskReset \/ Dispose \/ Save \/ Finish
    BY <1>18 DEF Clear, Unset, Out, AskReset, Dispose, Save, Finish
  <1>19. CASE FakeTurn
    BY <1>19 DEF FakeTurn, FakeStage, FakeEnd, FakeNext
  <1>20. CASE UNCHANGED vars
    BY <1>20 DEF vars, Fits
  <1>. QED
    BY <1>1, <1>2, <1>3, <1>4, <1>5, <1>6, <1>7, <1>8, <1>9, <1>10, <1>11, <1>12, <1>13, <1>14,
       <1>15, <1>16, <1>17, <1>18, <1>19, <1>20
       DEF Next, Main, Watch

\* The flag goes up in a recording, and down when its take is thrown away.
LEMMA RerecordStep ==
    ASSUME IInv, [Next]_vars
    PROVE  (backend = "real" => Rerecord)'
  <1>. USE DEF service, history, watcherSame, mainSame, Real, Goto, IInv, RealInv, TypeOK,
           InPhase, Phases, Places, Staged, SameTake, OneMore, Channel, Idle, Nothing, Request1,
           Watching, Fits, Rerecord, Retry, Ids
  <1>1. CASE \E action \in Commands : Request(action)
    BY <1>1 DEF Request
  <1>2. CASE Post
    BY <1>2 DEF Post
  <1>3. CASE FakeSend
    BY <1>3 DEF FakeSend
  <1>4. CASE Stop
    BY <1>4 DEF Stop
  <1>5. CASE Handle
    BY <1>5 DEF Handle
  <1>6. CASE Poll
    BY <1>6 DEF Poll
  <1>7. CASE Mark
    <2>1. CASE watcher.cmd.action = "retry_episode" /\ backend = "real"
      <3>1. Fits(watcher.cmd) /\ pc \in {"run", "join"} /\ Request1(watcher.cmd.id, watcher.cmd.action) \in asked
        BY <1>7, <2>1 DEF Mark
      <3>2. progress.phase = "recording" /\ watcher.cmd.id = take
        BY <2>1, <3>1, AllowedFacts DEF Fits
      <3>3. Retry \in asked
        BY <2>1, <3>1, <3>2
      <3>. QED
        BY <1>7, <3>1, <3>2, <3>3 DEF Mark
    <2>2. CASE watcher.cmd.action # "retry_episode" \/ backend # "real"
      <3>1. backend = "real" => events'.rerecord = events.rerecord
        BY <1>7, <2>2 DEF Mark
      <3>. QED
        BY <1>7, <3>1 DEF Mark
    <2>. QED
      BY <2>1, <2>2
  <1>8. CASE \/ Look \/ Read \/ Answer \/ Unlink \/ RaiseFlag
    BY <1>8 DEF Look, Read, Answer, Fits, Unlink, RaiseFlag
  <1>9. CASE Loop
    BY <1>9 DEF Loop, Begin
  <1>10. CASE Check
    BY <1>10 DEF Check
  <1>11. CASE Enter
    BY <1>11 DEF Enter, Begin
  <1>12. CASE \/ Boot \/ MakeRobot \/ NextEpisode \/ Break \/ TimeUp \/ LoopFails \/ Join
    BY <1>12 DEF Boot, MakeRobot, NextEpisode, Break, TimeUp, LoopFails, Join
  <1>13. CASE Out
    BY <1>13 DEF Out
  <1>14. CASE AskReset
    BY <1>14 DEF AskReset
  <1>15. CASE Dispose
    BY <1>15 DEF Dispose
  <1>16. CASE ResetAfterSave
    BY <1>16 DEF ResetAfterSave, Begin
  <1>17. CASE Finish
    BY <1>17 DEF Finish
  <1>18. CASE \/ Clear \/ Unset \/ Save
    BY <1>18 DEF Clear, Unset, Save
  <1>19. CASE FakeTurn
    BY <1>19 DEF FakeTurn, FakeStage, FakeEnd, FakeNext
  <1>20. CASE UNCHANGED vars
    BY <1>20 DEF vars, Fits
  <1>. QED
    BY <1>1, <1>2, <1>3, <1>4, <1>5, <1>6, <1>7, <1>8, <1>9, <1>10, <1>11, <1>12, <1>13, <1>14,
       <1>15, <1>16, <1>17, <1>18, <1>19, <1>20
       DEF Next, Main, Watch

\* An accepted retry is never lost on the way.
LEMMA AcceptedFollows ==
    ASSUME IInv, [Next]_vars
    PROVE  (backend = "real" => Accepted)'
  <1>. USE DEF service, history, watcherSame, mainSame, Real, Goto, IInv, RealInv, TypeOK,
           InPhase, Phases, Places, Staged, SameTake, OneMore, Channel, Idle, Nothing, Request1,
           Watching, Accepted, Rerecord, Retry, Ids, Fits
  <1>1. CASE \E action \in Commands : Request(action)
    BY <1>1 DEF Request
  <1>2. CASE Post
    BY <1>2 DEF Post
  <1>3. CASE FakeSend
    BY <1>3 DEF FakeSend
  <1>4. CASE Stop
    BY <1>4 DEF Stop
  <1>5. CASE Handle
    BY <1>5 DEF Handle
  <1>6. CASE Poll
    BY <1>6 DEF Poll
  <1>7. CASE Look
    BY <1>7 DEF Look
  <1>8. CASE Read
    BY <1>8 DEF Read
  <1>9. CASE Answer
    BY <1>9, AllowedFacts DEF Answer, Fits
  <1>10. CASE Unlink
    BY <1>10 DEF Unlink, Fits
  <1>11. CASE Mark
    BY <1>11, AllowedFacts DEF Mark, Fits
  <1>12. CASE RaiseFlag
    BY <1>12 DEF RaiseFlag
  <1>13. CASE Loop
    BY <1>13 DEF Loop, Begin
  <1>14. CASE Check
    BY <1>14 DEF Check
  <1>15. CASE Enter
    <2>1. CASE slot = "recording"
      <3>1. progress.id \in Nat /\ take' = progress.id + 1 /\ accepted' = accepted
        BY <1>15, <2>1 DEF Enter, Progress
      <3>2. \A a \in accepted : a.id \in Nat /\ a.id <= progress.id
        BY DEF Asked
      <3>3. Retry' \notin accepted'
        BY <3>1, <3>2
      <3>. QED
        BY <3>3
    <2>2. CASE slot # "recording"
      BY <1>15, <2>2 DEF Enter, Begin
    <2>. QED
      BY <2>1, <2>2
  <1>16. CASE Break
    BY <1>16 DEF Break
  <1>17. CASE \/ Boot \/ MakeRobot \/ NextEpisode \/ TimeUp \/ LoopFails \/ Join
    BY <1>17 DEF Boot, MakeRobot, NextEpisode, TimeUp, LoopFails, Join
  <1>18. CASE Out
    BY <1>18 DEF Out
  <1>19. CASE AskReset
    BY <1>19 DEF AskReset
  <1>20. CASE Dispose
    BY <1>20 DEF Dispose
  <1>21. CASE Save
    BY <1>21 DEF Save
  <1>22. CASE ResetAfterSave
    BY <1>22 DEF ResetAfterSave, Begin
  <1>23. CASE Finish
    BY <1>23 DEF Finish
  <1>24. CASE \/ Clear \/ Unset
    BY <1>24 DEF Clear, Unset
  <1>25. CASE FakeTurn
    BY <1>25 DEF FakeTurn, FakeStage, FakeEnd, FakeNext
  <1>26. CASE UNCHANGED vars
    BY <1>26 DEF vars, Fits
  <1>. QED
    BY <1>1, <1>2, <1>3, <1>4, <1>5, <1>6, <1>7, <1>8, <1>9, <1>10, <1>11, <1>12, <1>13, <1>14,
       <1>15, <1>16, <1>17, <1>18, <1>19, <1>20, <1>21, <1>22, <1>23, <1>24, <1>25, <1>26
       DEF Next, Main, Watch

\* exit_early is cleared after the watcher has been joined.
LEMMA EarlyStep ==
    ASSUME IInv, [Next]_vars
    PROVE  (backend = "real" => Early)'
  <1>. USE DEF service, history, watcherSame, mainSame, Real, Goto, IInv, RealInv, TypeOK,
           InPhase, Phases, Places, Staged, SameTake, OneMore, Channel, Idle, Nothing, Request1,
           Watching, Early, Cause
  <1>1. CASE Post
    BY <1>1 DEF Post
  <1>2. CASE FakeSend
    BY <1>2 DEF FakeSend
  <1>3. CASE Stop
    BY <1>3 DEF Stop
  <1>4. CASE Handle
    BY <1>4 DEF Handle
  <1>5. CASE \/ Poll \/ (\E action \in Commands : Request(action))
    BY <1>5 DEF Poll, Request
  <1>6. CASE RaiseFlag
    BY <1>6 DEF RaiseFlag
  <1>7. CASE \/ Look \/ Read \/ Answer \/ Unlink \/ Mark
    BY <1>7 DEF Look, Read, Answer, Fits, Unlink, Mark
  <1>8. CASE Loop
    BY <1>8 DEF Loop, Begin
  <1>9. CASE Enter
    BY <1>9 DEF Enter, Begin
  <1>10. CASE Break
    BY <1>10 DEF Break
  <1>11. CASE \/ Boot \/ MakeRobot \/ NextEpisode \/ Check \/ TimeUp \/ LoopFails \/ Join
    BY <1>11 DEF Boot, MakeRobot, NextEpisode, Check, TimeUp, LoopFails, Join
  <1>12. CASE Clear
    BY <1>12 DEF Clear
  <1>13. CASE Unset
    BY <1>13 DEF Unset
  <1>14. CASE Dispose
    BY <1>14 DEF Dispose
  <1>15. CASE ResetAfterSave
    BY <1>15 DEF ResetAfterSave, Begin
  <1>16. CASE \/ Out \/ AskReset \/ Save \/ Finish
    BY <1>16 DEF Out, AskReset, Save, Finish
  <1>17. CASE FakeTurn
    BY <1>17 DEF FakeTurn, FakeStage, FakeEnd, FakeNext
  <1>18. CASE UNCHANGED vars
    BY <1>18 DEF vars, Fits
  <1>. QED
    BY <1>1, <1>2, <1>3, <1>4, <1>5, <1>6, <1>7, <1>8, <1>9, <1>10, <1>11, <1>12, <1>13, <1>14,
       <1>15, <1>16, <1>17, <1>18
       DEF Next, Main, Watch

\* A take is discarded for a retry that was asked for, and saved if none was accepted.
LEMMA TakesStep ==
    ASSUME IInv, [Next]_vars
    PROVE  /\ asked \subseteq asked'
           /\ dropped' = dropped \/ (dropped' = dropped \cup {take} /\ Retry \in asked)
           /\ \/ kept' = kept
              \/ kept' = kept \cup {take} /\ accepted' = accepted /\ Retry \notin accepted
  <1>. USE DEF service, history, watcherSame, mainSame, Real, Goto, IInv, RealInv, FakeInv
  <1>1. CASE \/ Poll \/ (\E action \in Commands : Request(action)) \/ Post \/ FakeSend \/ Stop
             \/ Handle
    BY <1>1 DEF Poll, Request, Post, FakeSend, Stop, Handle
  <1>2. CASE \/ Look \/ Read \/ Answer \/ Unlink \/ Mark \/ RaiseFlag
    BY <1>2 DEF Look, Read, Answer, Fits, Unlink, Mark, RaiseFlag
  <1>3. CASE \/ Boot \/ MakeRobot \/ NextEpisode \/ Loop \/ Check \/ Enter \/ Break \/ TimeUp
             \/ LoopFails \/ Join
    BY <1>3 DEF Boot, MakeRobot, NextEpisode, Loop, Begin, Check, Enter, Break, TimeUp, LoopFails,
              Join
  <1>4. CASE Dispose
    BY <1>4 DEF Dispose, Rerecord
  <1>5. CASE Save
    <2>1. ~events.rerecord /\ Retry \notin accepted
      <3>1. pc = "save" /\ Rerecord /\ Accepted /\ Watching
        BY <1>5 DEF Save
      <3>. QED
        BY <3>1 DEF Rerecord, Accepted, Watching, InPhase
    <2>. QED
      BY <1>5, <2>1 DEF Save
  <1>6. CASE \/ Clear \/ Unset \/ Out \/ AskReset \/ ResetAfterSave \/ Finish
    BY <1>6 DEF Clear, Unset, Out, AskReset, ResetAfterSave, Begin, Finish
  <1>7. CASE FakeTurn
    BY <1>7 DEF FakeTurn, FakeStage, FakeEnd, FakeNext
  <1>8. CASE UNCHANGED vars
    BY <1>8 DEF vars, Fits
  <1>. QED
    BY <1>1, <1>2, <1>3, <1>4, <1>5, <1>6, <1>7, <1>8
       DEF Next, Main, Watch

\* The fake raises, waits for and clears its Event in step.
LEMMA FakeStep ==
    ASSUME IInv, [Next]_vars
    PROVE  (backend = "fake" => FakeInv)'
  <1>. USE DEF service, history, watcherSame, mainSame, Real, Goto, IInv, FakeInv, Cause, Retry,
           Request1, Idle
  <1>1. CASE Poll
    BY <1>1 DEF Poll
  <1>2. CASE \E action \in Commands : Request(action)
    BY <1>2 DEF Request
  <1>3. CASE Post
    BY <1>3 DEF Post
  <1>4. CASE FakeSend
    <2>1. CASE accepted' = accepted /\ asked' = asked /\ events' = events
      BY <1>4, <2>1 DEF FakeSend
    <2>2. CASE ~(accepted' = accepted /\ asked' = asked /\ events' = events)
      <3>1. /\ pc \in {"run", "join"} /\ ~events.early
            /\ desk.action \in Allowed(progress.phase) /\ desk.id = progress.id
            /\ asked' = asked \cup {Request1(progress.id, desk.action)}
            /\ accepted' = accepted \cup {Request1(progress.id, desk.action)}
            /\ events' = [events EXCEPT !.early = TRUE, !.rerecord = desk.action = "retry_episode"]
        BY <1>4, <2>2 DEF FakeSend, Channel
      <3>2. events'.early /\ (events'.rerecord <=> desk.action = "retry_episode")
        BY <3>1 DEF TypeOK
      <3>3. desk.action = "retry_episode" => progress.phase = "recording" /\ take = progress.id
        BY <3>1, AllowedFacts DEF Ids
      <3>4. progress.phase # "saving" /\ desk.action \in Commands
        BY <3>1, AllowedFacts
      <3>5. backend = "fake" /\ UNCHANGED <<backend, pc, progress, take, watcher>>
        BY <1>4 DEF FakeSend
      <3>. QED
        BY <3>1, <3>2, <3>3, <3>4, <3>5
    <2>. QED
      BY <2>1, <2>2
  <1>5. CASE Stop
    BY <1>5 DEF Stop, TypeOK
  <1>6. CASE Handle
    BY <1>6 DEF Handle, TypeOK
  <1>7. CASE \/ Look \/ Read \/ Answer \/ Unlink \/ Mark \/ RaiseFlag
    BY <1>7 DEF Look, Read, Answer, Fits, Unlink, Mark, RaiseFlag
  <1>8. CASE Break
    BY <1>8 DEF Break, TypeOK
  <1>9. CASE TimeUp
    BY <1>9 DEF TimeUp
  <1>10. CASE \/ Boot \/ MakeRobot \/ NextEpisode \/ Loop \/ Check \/ Enter \/ LoopFails \/ Join
    BY <1>10 DEF Boot, MakeRobot, NextEpisode, Loop, Begin, Check, Enter, LoopFails, Join
  <1>11. CASE \/ Clear \/ Unset \/ Out \/ AskReset \/ Dispose \/ Save \/ ResetAfterSave \/ Finish
    BY <1>11 DEF Clear, Unset, Out, AskReset, Dispose, Save, ResetAfterSave, Begin, Finish
  <1>12. CASE FakeTurn
    <2>1. progress.id \in Nat /\ Request1(progress.id + 1, "retry_episode") \notin accepted
      BY DEF TypeOK, Progress, Ids, Asked
    <2>2. \/ events' = [events EXCEPT !.early = FALSE, !.rerecord = FALSE]
          \/ pc' = "gone" /\ UNCHANGED <<events, take>>
      BY <1>12 DEF FakeTurn, FakeStage, FakeEnd, FakeNext
    <2>3. ~(pc' = "gone" /\ UNCHANGED <<events, take>>) => ~events'.early /\ ~events'.rerecord
      BY <2>2 DEF TypeOK
    <2>4. FakeInv /\ UNCHANGED <<backend, ended, watcher, asked, accepted>> /\ pc' \in {"run", "join", "gone"}
      BY <1>12 DEF FakeTurn, FakeStage, FakeEnd, FakeNext
    <2>5. pc' = "gone" => progress'.phase \notin {"recording", "saving"}
      BY <1>12 DEF FakeTurn, FakeStage, FakeEnd, FakeNext, Staged, SameTake, OneMore
    <2>6. progress'.phase = "recording" => Retry' \notin accepted'
      <3>1. progress'.phase = "recording" => take' = progress.id + 1
        BY <1>12 DEF FakeTurn, FakeStage, FakeEnd, FakeNext, Staged, SameTake, OneMore
      <3>. QED
        BY <2>1, <2>4, <3>1
    <2>7. progress'.phase = "saving" => Retry' \notin accepted'
      BY <1>12, <2>4 DEF FakeTurn, FakeStage, FakeEnd, FakeNext, Staged, SameTake, OneMore
    <2>8. pc' = "join" => events'.stop
      BY <1>12 DEF FakeTurn, FakeStage, FakeEnd, FakeNext, TypeOK
    <2>9. CASE pc' = "gone" /\ UNCHANGED <<events, take>>
      BY <2>4, <2>5, <2>9
    <2>10. CASE ~(pc' = "gone" /\ UNCHANGED <<events, take>>)
      BY <2>3, <2>4, <2>6, <2>7, <2>8, <2>10
    <2>. QED
      BY <2>9, <2>10
  <1>13. CASE UNCHANGED vars
    BY <1>13 DEF vars, Fits
  <1>. QED
    BY <1>1, <1>2, <1>3, <1>4, <1>5, <1>6, <1>7, <1>8, <1>9, <1>10, <1>11, <1>12, <1>13
       DEF Next, Main, Watch

\* The counts and the flags keep their types, ...
LEMMA CountersStep ==
    ASSUME IInv, [Next]_vars
    PROVE  sends' \in Nat /\ faults' \in Nat /\ {deferred', stopping', signal'} \subseteq BOOLEAN
  <1>. USE DEF service, history, watcherSame, mainSame, Real, Goto, IInv, TypeOK
  <1>1. CASE Stop
    BY <1>1 DEF Stop
  <1>2. CASE Handle
    BY <1>2 DEF Handle
  <1>3. CASE \/ Poll \/ (\E action \in Commands : Request(action)) \/ Post \/ FakeSend
    BY <1>3 DEF Poll, Request, Post, FakeSend
  <1>4. CASE \/ Look \/ Read \/ Answer \/ Unlink \/ Mark \/ RaiseFlag
    BY <1>4 DEF Look, Read, Answer, Fits, Unlink, Mark, RaiseFlag
  <1>5. CASE Check
    BY <1>5 DEF Check
  <1>6. CASE \/ Boot \/ MakeRobot \/ NextEpisode \/ Loop \/ Enter \/ Break \/ TimeUp \/ LoopFails
             \/ Join
    BY <1>6 DEF Boot, MakeRobot, NextEpisode, Loop, Begin, Enter, Break, TimeUp, LoopFails, Join
  <1>7. CASE ResetAfterSave
    BY <1>7 DEF ResetAfterSave, Begin
  <1>8. CASE \/ Clear \/ Unset \/ Out \/ AskReset \/ Dispose \/ Save \/ Finish
    BY <1>8 DEF Clear, Unset, Out, AskReset, Dispose, Save, Finish
  <1>9. CASE FakeTurn
    BY <1>9 DEF FakeTurn, FakeStage, FakeEnd, FakeNext
  <1>10. CASE UNCHANGED vars
    BY <1>10 DEF vars, Fits
  <1>. QED
    BY <1>1, <1>2, <1>3, <1>4, <1>5, <1>6, <1>7, <1>8, <1>9, <1>10
       DEF Next, Main, Watch

\* ... the main thread's position, ...
LEMMA PositionStep ==
    ASSUME IInv, [Next]_vars
    PROVE  backend' \in {"real", "fake"} /\ pc' \in Pcs /\ slot' \in {"recording", "resetting", "deferred"}
           /\ ended' \in {"early", "time", "error"}
  <1>. USE DEF service, history, watcherSame, mainSame, Real, Goto, IInv, TypeOK, Pcs
  <1>1. CASE \/ Poll \/ (\E action \in Commands : Request(action)) \/ Post \/ FakeSend \/ Stop
             \/ Handle
    BY <1>1 DEF Poll, Request, Post, FakeSend, Stop, Handle
  <1>2. CASE \/ Look \/ Read \/ Answer \/ Unlink \/ Mark \/ RaiseFlag
    BY <1>2 DEF Look, Read, Answer, Fits, Unlink, Mark, RaiseFlag
  <1>3. CASE \/ Boot \/ MakeRobot \/ NextEpisode \/ Loop \/ Check \/ Enter \/ Break \/ TimeUp
             \/ LoopFails \/ Join
    BY <1>3 DEF Boot, MakeRobot, NextEpisode, Loop, Begin, Check, Enter, Break, TimeUp, LoopFails,
              Join
  <1>4. CASE \/ Clear \/ Unset \/ Out \/ AskReset \/ Dispose \/ Save \/ ResetAfterSave \/ Finish
    BY <1>4 DEF Clear, Unset, Out, AskReset, Dispose, Save, ResetAfterSave, Begin, Finish
  <1>5. CASE FakeTurn
    BY <1>5 DEF FakeTurn, FakeStage, FakeEnd, FakeNext
  <1>6. CASE UNCHANGED vars
    BY <1>6 DEF vars, Fits
  <1>. QED
    BY <1>1, <1>2, <1>3, <1>4, <1>5, <1>6
       DEF Next, Main, Watch

\* ... its events, ...
LEMMA EventsStep ==
    ASSUME IInv, [Next]_vars
    PROVE  events' \in [early : BOOLEAN, rerecord : BOOLEAN, stop : BOOLEAN]
  <1>. USE DEF service, history, watcherSame, mainSame, Real, Goto, IInv, TypeOK
  <1>1. CASE FakeSend
    BY <1>1 DEF FakeSend
  <1>2. CASE \/ Poll \/ (\E action \in Commands : Request(action)) \/ Post \/ Stop \/ Handle
    BY <1>2 DEF Poll, Request, Post, Stop, Handle
  <1>3. CASE Mark
    BY <1>3 DEF Mark, Fits
  <1>4. CASE \/ Look \/ Read \/ Answer \/ Unlink \/ RaiseFlag
    BY <1>4 DEF Look, Read, Answer, Fits, Unlink, RaiseFlag
  <1>5. CASE \/ Boot \/ MakeRobot \/ NextEpisode \/ Loop \/ Check \/ Enter \/ Break \/ TimeUp
             \/ LoopFails \/ Join
    BY <1>5 DEF Boot, MakeRobot, NextEpisode, Loop, Begin, Check, Enter, Break, TimeUp, LoopFails,
              Join
  <1>6. CASE \/ Clear \/ Unset \/ Out \/ AskReset \/ Dispose \/ Save \/ ResetAfterSave \/ Finish
    BY <1>6 DEF Clear, Unset, Out, AskReset, Dispose, Save, ResetAfterSave, Begin, Finish
  <1>7. CASE FakeTurn
    BY <1>7 DEF FakeTurn, FakeStage, FakeEnd, FakeNext
  <1>8. CASE UNCHANGED vars
    BY <1>8 DEF vars, Fits
  <1>. QED
    BY <1>1, <1>2, <1>3, <1>4, <1>5, <1>6, <1>7, <1>8
       DEF Next, Main, Watch

\* ... and the messages between page, service and watcher.
LEMMA MessagesStep ==
    ASSUME IInv, [Next]_vars
    PROVE  /\ mailbox' \in Requests /\ desk' \in Requests /\ seen' \in Progress
           /\ watcher' \in [pc : {"off", "look", "read", "answer", "unlink", "mark", "raise"},
                            cmd : Requests, failed : BOOLEAN]
  <1>. USE DEF service, history, watcherSame, mainSame, Real, Goto, IInv, TypeOK
  <1>1. CASE \E action \in Commands : Request(action)
    <2>1. desk' \in Requests
      BY <1>1, AllowedFacts DEF Request, Requests, Progress
    <2>. QED
      BY <1>1, <2>1 DEF Request
  <1>2. CASE Post
    BY <1>2 DEF Post, Requests
  <1>3. CASE FakeSend
    BY <1>3 DEF FakeSend, Requests
  <1>4. CASE \/ Poll \/ Stop \/ Handle
    BY <1>4 DEF Poll, Stop, Handle
  <1>5. CASE Look
    BY <1>5 DEF Look
  <1>6. CASE Read
    BY <1>6 DEF Read
  <1>7. CASE Answer
    BY <1>7 DEF Answer, Fits
  <1>8. CASE Unlink
    BY <1>8 DEF Unlink, Requests
  <1>9. CASE Mark
    BY <1>9 DEF Mark, Fits
  <1>10. CASE RaiseFlag
    BY <1>10 DEF RaiseFlag, Requests
  <1>11. CASE Loop
    BY <1>11 DEF Loop, Begin, Idle, Requests
  <1>12. CASE Enter
    BY <1>12 DEF Enter, Begin, Idle, Requests
  <1>13. CASE \/ Boot \/ MakeRobot \/ NextEpisode \/ Check \/ Break \/ TimeUp \/ LoopFails \/ Join
    BY <1>13 DEF Boot, MakeRobot, NextEpisode, Check, Break, TimeUp, LoopFails, Join
  <1>14. CASE ResetAfterSave
    BY <1>14 DEF ResetAfterSave, Begin, Idle, Requests
  <1>15. CASE \/ Clear \/ Unset \/ Out \/ AskReset \/ Dispose \/ Save \/ Finish
    BY <1>15 DEF Clear, Unset, Out, AskReset, Dispose, Save, Finish
  <1>16. CASE FakeTurn
    BY <1>16 DEF FakeTurn, FakeStage, FakeEnd, FakeNext
  <1>17. CASE UNCHANGED vars
    BY <1>17 DEF vars, Fits
  <1>. QED
    BY <1>1, <1>2, <1>3, <1>4, <1>5, <1>6, <1>7, <1>8, <1>9, <1>10, <1>11, <1>12, <1>13, <1>14,
       <1>15, <1>16, <1>17
       DEF Next, Main, Watch

\* The ids of requests and takes are numbers.
LEMMA HistoryStep ==
    ASSUME IInv, [Next]_vars
    PROVE  /\ asked' \subseteq Asked /\ accepted' \subseteq Asked
           /\ kept' \subseteq Nat /\ dropped' \subseteq Nat /\ take' \in Nat
  <1>1. TypeOK /\ progress.id \in Nat
    BY DEF IInv, TypeOK, Progress
  <1>2. asked' \subseteq Asked
    <2>1. CASE Post
      BY <1>1, <2>1 DEF Post, TypeOK, Requests, Asked
    <2>2. CASE FakeSend
      BY <1>1, <2>2 DEF FakeSend, TypeOK, Requests, Asked
    <2>3. CASE ~Post /\ ~FakeSend
      BY <1>1, <2>3 DEF TypeOK, Next, Main, Watch, Poll, Request, Stop, Handle, Look, Read, Answer,
         Unlink, Mark, RaiseFlag, watcherSame, Boot, MakeRobot, NextEpisode, Loop, Check, Enter,
         Break, TimeUp, LoopFails, Join, Clear, Unset, Out, AskReset, Dispose, Save,
         ResetAfterSave, Finish, FakeTurn, mainSame, history, vars
    <2>. QED
      BY <2>1, <2>2, <2>3
  <1>3. accepted' \subseteq Asked
    BY <1>1, AcceptedStep, AllowedFacts DEF TypeOK, Asked
  <1>4. take' \in Nat /\ kept' \subseteq Nat
    <2>1. take \in Nat /\ kept \subseteq Nat
      BY <1>1 DEF TypeOK
    <2>2. CASE Publishes
      <3>1. progress'.id \in Nat
        BY <1>1, <2>2 DEF Publishes
      <3>2. take' \in {take, progress'.id} /\ kept' \in {kept, kept \cup {take}}
        BY <2>2 DEF Publishes
      <3>. QED
        BY <2>1, <3>1, <3>2
    <2>. QED
      BY <2>1, <2>2, StageStep
  <1>5. dropped' \subseteq Nat
    BY <1>1, TakesStep DEF TypeOK
  <1>. QED
    BY <1>2, <1>3, <1>4, <1>5

\* Every step keeps the types.
LEMMA TypeStep ==
    ASSUME IInv, [Next]_vars
    PROVE  TypeOK'
  BY StageStep, CountersStep, PositionStep, EventsStep, MessagesStep, HistoryStep DEF TypeOK

\* What is discarded was asked for; what was accepted is not saved.
LEMMA RetryIsMeantStep ==
    ASSUME IInv, [Next]_vars
    PROVE  RetryIsMeant'
  <1>1. RetriesOf(dropped) \subseteq asked /\ accepted \cap RetriesOf(kept) = {}
    BY DEF IInv, RetryIsMeant
  <1>2. RetriesOf(dropped') \subseteq asked'
    BY <1>1, TakesStep DEF RetriesOf, Retry, Request1
  <1>3. accepted' \cap RetriesOf(kept') = {}
    <2>1. CASE kept' = kept /\ accepted' = accepted
      BY <1>1, <2>1
    <2>2. CASE kept' = kept \cup {take} /\ accepted' = accepted /\ Retry \notin accepted
      BY <1>1, <2>2 DEF RetriesOf, Retry, Request1
    <2>3. CASE kept' = kept /\ accepted' # accepted
      <3>1. PICK action \in Allowed(progress.phase) :
                accepted' = accepted \cup {[id |-> progress.id, action |-> action]}
        BY <2>3, AcceptedStep
      <3>2. action = "retry_episode" => progress.id \notin kept
        BY AllowedFacts DEF IInv, Ids
      <3>. QED
        BY <1>1, <2>3, <3>1, <3>2 DEF RetriesOf
    <2>. QED
      BY <2>1, <2>2, <2>3, TakesStep
  <1>. QED
    BY <1>2, <1>3 DEF RetryIsMeant

\* The invariant holds at the start ...
LEMMA InitInv == Init => IInv
  <1>. SUFFICES ASSUME Init PROVE IInv
    OBVIOUS
  <1>1. Stopped \in Progress /\ Nothing \in Requests
    BY DEF Stopped, Progress, Phases, Requests
  <1>2. TypeOK
    BY <1>1 DEF Init, TypeOK, Pcs, Idle, Asked
  <1>3. Channel /\ Ids /\ RetryIsMeant
    BY DEF Init, Channel, Ids, RetryIsMeant, RetriesOf, Stopped
  <1>4. RealInv /\ FakeInv
    BY DEF Init, RealInv, FakeInv, Places, Watching, Rerecord, Accepted, Early, InPhase, Idle,
       Stopped
  <1>. QED
    BY <1>2, <1>3, <1>4 DEF IInv

\* ... and every step keeps it.
LEMMA StepInv == IInv /\ [Next]_vars => IInv'
  BY TypeStep, ChannelStep, IdsStep, RetryIsMeantStep, PlacesStep, WatchingStep, RerecordStep,
     AcceptedFollows, EarlyStep, FakeStep DEF IInv, RealInv

\* The invariant holds for every number of episodes, requests and faults.
THEOREM Invariance == Spec => []IInv
  BY InitInv, StepInv, PTL DEF Spec

\* Every variable of the recorder, its watcher and its callers keeps its type.
THEOREM TypeCorrect == Spec => []TypeOK
  <1>1. IInv => TypeOK
    BY DEF IInv
  <1>. QED
    BY <1>1, Invariance, PTL

\* A take is thrown away only for a retry asked while it was recorded, and one
\* whose retry was accepted is never saved: recording_worker.py and the fake.
THEOREM RetriesAreMeant == Spec => []RetryIsMeant
  <1>1. IInv => RetryIsMeant
    BY DEF IInv
  <1>. QED
    BY <1>1, Invariance, PTL

\* A phase ends early only by a command given in it, a stop or a broken command
\* channel: no answer, however late, ends the next phase.
THEOREM CutsHaveReason == Spec => []CutShortForAReason
  <1>1. IInv => CutShortForAReason
    BY DEF IInv, TypeOK, RealInv, FakeInv, Early, Cause, Request1, CutShortForAReason
  <1>. QED
    BY <1>1, Invariance, PTL
=================================================================================
