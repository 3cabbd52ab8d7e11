-------------------------- MODULE ServePolicy_proofs --------------------------
(***************************************************************************)
(* Proofs about ServePolicy, for any workers, sessions, signals, launches  *)
(* and offers.  The invariant separates what belongs to the session under  *)
(* way from what an earlier one left behind: between its connection and    *)
(* its Ready a session has nothing but that one handler, and from then on  *)
(* the queue, the flag and the episode are its own.                        *)
(***************************************************************************)
EXTENDS ServePolicy, TLAPS

\* No session waits for its Ready.
Settled == \A w \in Worker : handler[w].at # "ready"

\* Short handlers are the current session's, and its Ready is alone.
Sessions ==
    /\ \A w \in Worker : handler[w].session <= cur
    /\ \A w \in Worker : handler[w].at \in Short => handler[w].session = cur
    /\ \A w \in Worker : handler[w].at = "ready" =>
          /\ client \in {"calling", "gone"}
          /\ \A v \in Worker \ {w} : handler[v].session < cur

\* Who is past the guards has sent what the checkpoint was trained on.
Admitted ==
    /\ \A w \in Worker :
          handler[w].at \in {"accept", "poll", "predict"} /\ handler[w].session = cur => Matches(offer)
    /\ accepted /\ Settled => Matches(offer)

\* The queue, the observation being predicted on and the episode are the session's.
Own ==
    /\ resets = IF Settled THEN cur ELSE cur - 1
    /\ Settled => queue \in {0, cur}
    /\ \A w \in Worker :
          handler[w].at = "predict" /\ handler[w].session = cur => handler[w].obs = cur
    /\ launch.fake = "replay" /\ Settled /\ cur # 0 => episode = 1 + ((cur - 1) % Episodes)

\* And so is the chunk a client has.
Chunk ==
    /\ got.by # 0 => Matches(offer)
    /\ Running /\ client = "gone" => got.by = 0

\* How the process ends, from the moment that is settled.
Ending ==
    /\ pc \in {"closing", "closed"} => \A w \in Worker : handler[w].at \notin Short
    /\ pc \in {"unwinding", "exited"} \cup Shutdown =>
          ending \in {[word |-> "stopped", code |-> 130], [word |-> "stopped", code |-> 143],
                      [word |-> "failed", code |-> 1]}
    /\ pc \in {"closed", "exited"} => status = [word |-> ending.word, connected |-> FALSE]
    /\ pc = "exited" => ended

\* TypeOK, part by part.
MainTypes ==
    /\ launch \in Launches /\ pc \in {"preflight", "recording", "unwinding"} \cup Guarded \cup Shutdown \cup Over
    /\ signals \in 0..MaxSignal /\ ended \in BOOLEAN
WordTypes ==
    /\ ending \in [word : {"none", "stopped", "failed"}, code : {0, 1, 2, 130, 143}]
    /\ status \in [word : {"none", "loading", "ready", "serving", "stopped", "failed"},
                               connected : BOOLEAN]
BackendTypes ==
    /\ seen \in {"never", "recent", "old"} /\ accepted \in BOOLEAN
    /\ lastObs \in Session /\ queue \in Session /\ resets \in Nat /\ episode \in 0..Episodes
ClientTypes ==
    /\ cur \in Session /\ client \in {"gone", "calling", "greeted", "accepted", "refused"}
    /\ offer \in Offers /\ got \in [by : Session, obs : Session, episode : 0..Episodes]

IInv ==
    /\ TypeOK /\ Ending
    /\ Running => Sessions /\ Admitted /\ Own
    /\ Chunk /\ FreshChunks

-------------------------------------------------------------------------------

\* Once the drain is over nobody but the main thread writes the status.
LEMMA EndingStep ==
    ASSUME IInv, [Next]_vars
    PROVE  Ending'
  <1>. USE DEF mainVars, backendVars, clientVars, Running, Over, Guarded, Loop, Shutdown, IInv,
           TypeOK, Handlers, Ending, Short, Free
  <1>1. CASE \/ Refuse \/ Record \/ Guard \/ Load \/ LoadFails \/ StartServing \/ ReportReady
             \/ FindIdle \/ ReportIdle
    BY <1>1 DEF Refuse, Record, Guard, Load, LoadFails, StartServing, ReportReady, FindIdle,
       ReportIdle
  <1>2. CASE Drain
    BY <1>2 DEF Drain
  <1>3. CASE CloseStatus
    BY <1>3 DEF CloseStatus
  <1>4. CASE Exit
    BY <1>4 DEF Exit, Vanish
  <1>5. CASE Unwind
    BY <1>5 DEF Unwind
  <1>6. CASE Signal
    BY <1>6 DEF Signal, RaiseStop, Die, Vanish, Code
  <1>7. CASE \/ Age \/ Leave
    BY <1>7 DEF Age, Leave
  <1>8. ASSUME NEW w \in Worker, Connect(w) \/ Instruct(w) \/ Observe(w) \/ Ask(w)
       PROVE  Ending'
    BY <1>8 DEF Connect, Call, Instruct, Observe, Request, Ask
  <1>9. ASSUME NEW w \in Worker, Ready(w) \/ CheckInstructions(w) \/ Accept(w)
             \/ ReportAccepted(w) \/ AdmitObservation(w) \/ AdmitActions(w) \/ FindServing(w)
             \/ ReportRefused(w)
       PROVE  Ending'
    BY <1>9 DEF Ready, Answer, Mine, CheckInstructions, Move, Accept, ReportAccepted,
       AdmitObservation, Admit, AdmitActions, FindServing, ReportRefused
  <1>10. ASSUME NEW w \in Worker, Enqueue(w) \/ Filter(w) \/ EndFiltered(w) \/ FindQueue(w)
             \/ Take(w) \/ TimeOut(w) \/ PredictFails(w) \/ Predict(w)
       PROVE  Ending'
    BY <1>10 DEF Enqueue, Answer, Filter, Move, EndFiltered, FindQueue, Take, TimeOut,
       PredictFails, Predict, Mine
  <1>11. CASE Rest \/ UNCHANGED vars
    BY <1>11 DEF Rest, vars
  <1>. QED
    BY <1>1, <1>2, <1>3, <1>4, <1>5, <1>6, <1>7, <1>8, <1>9, <1>10, <1>11
       DEF Next, Main, Handle, Clients

\* A session connects when no handler of the one before is left but polls and predictions.
LEMMA SessionsStep ==
    ASSUME IInv, [Next]_vars
    PROVE  (Running => Sessions)'
  <1>. USE DEF mainVars, backendVars, clientVars, Running, Over, Guarded, Loop, Shutdown, TypeOK,
           Handlers, Session, Short, Free, NoChunk, IInv, Sessions
  <1>1. CASE \/ Refuse \/ Record \/ Guard \/ Load \/ LoadFails \/ StartServing \/ ReportReady
             \/ FindIdle \/ ReportIdle
    BY <1>1 DEF Refuse, Record, Guard, Load, LoadFails, StartServing, ReportReady, FindIdle,
       ReportIdle
  <1>2. CASE Exit
    BY <1>2 DEF Exit, Vanish
  <1>3. CASE \/ Unwind \/ Drain \/ CloseStatus
    BY <1>3 DEF Unwind, Drain, CloseStatus
  <1>4. CASE Signal
    BY <1>4 DEF Signal, RaiseStop, Die, Vanish, Code
  <1>5. CASE Leave
    BY <1>5 DEF Leave
  <1>6. CASE Age
    BY <1>6 DEF Age
  <1>7. ASSUME NEW w \in Worker, Connect(w)
       PROVE  (Running => Sessions)'
    BY <1>7 DEF Connect, Call
  <1>8. ASSUME NEW w \in Worker, Instruct(w)
       PROVE  (Running => Sessions)'
    BY <1>8 DEF Instruct, Call
  <1>9. ASSUME NEW w \in Worker, Observe(w)
       PROVE  (Running => Sessions)'
    BY <1>9 DEF Observe, Request, Call
  <1>10. ASSUME NEW w \in Worker, Ask(w)
       PROVE  (Running => Sessions)'
    BY <1>10 DEF Ask, Request, Call
  <1>11. ASSUME NEW w \in Worker, Ready(w)
       PROVE  (Running => Sessions)'
    BY <1>11 DEF Ready, Answer, Mine
  <1>12. ASSUME NEW w \in Worker, ReportAccepted(w)
       PROVE  (Running => Sessions)'
    BY <1>12 DEF ReportAccepted, Answer, Mine
  <1>13. ASSUME NEW w \in Worker, ReportRefused(w)
       PROVE  (Running => Sessions)'
    BY <1>13 DEF ReportRefused, Answer, Mine
  <1>14. ASSUME NEW w \in Worker, CheckInstructions(w) \/ Accept(w) \/ AdmitObservation(w)
             \/ AdmitActions(w) \/ FindServing(w)
       PROVE  (Running => Sessions)'
    BY <1>14 DEF CheckInstructions, Move, Accept, AdmitObservation, Admit, AdmitActions,
       FindServing
  <1>15. ASSUME NEW w \in Worker, Enqueue(w) \/ Filter(w) \/ EndFiltered(w) \/ FindQueue(w)
             \/ Take(w) \/ TimeOut(w) \/ PredictFails(w) \/ Predict(w)
       PROVE  (Running => Sessions)'
    BY <1>15 DEF Enqueue, Answer, Filter, Move, EndFiltered, FindQueue, Take, TimeOut,
       PredictFails, Predict, Mine
  <1>16. CASE Rest \/ UNCHANGED vars
    BY <1>16 DEF Rest, vars
  <1>. QED
    BY <1>1, <1>2, <1>3, <1>4, <1>5, <1>6, <1>7, <1>8, <1>9, <1>10, <1>11, <1>12, <1>13, <1>14,
       <1>15, <1>16
       DEF Next, Main, Handle, Clients

\* accepted is stale only until Ready.
LEMMA AdmittedStep ==
    ASSUME IInv, [Next]_vars
    PROVE  (Running => Admitted)'
  <1>. USE DEF mainVars, backendVars, clientVars, Running, Over, Guarded, Loop, Shutdown, TypeOK,
           Handlers, Session, Short, Free, NoChunk, IInv, Sessions, Admitted, Settled
  <1>1. CASE \/ Refuse \/ Record \/ Guard \/ Load \/ LoadFails \/ StartServing \/ ReportReady
             \/ FindIdle \/ ReportIdle
    BY <1>1 DEF Refuse, Record, Guard, Load, LoadFails, StartServing, ReportReady, FindIdle,
       ReportIdle
  <1>2. CASE Exit
    BY <1>2 DEF Exit, Vanish
  <1>3. CASE \/ Unwind \/ Drain \/ CloseStatus
    BY <1>3 DEF Unwind, Drain, CloseStatus
  <1>4. CASE Signal
    BY <1>4 DEF Signal, RaiseStop, Die, Vanish, Code
  <1>5. CASE Age
    BY <1>5 DEF Age
  <1>6. CASE Leave
    BY <1>6 DEF Leave
  <1>7. ASSUME NEW w \in Worker, Connect(w)
       PROVE  (Running => Admitted)'
    BY <1>7 DEF Connect, Call
  <1>8. ASSUME NEW w \in Worker, Instruct(w)
       PROVE  (Running => Admitted)'
    BY <1>8 DEF Instruct, Call
  <1>9. ASSUME NEW w \in Worker, Observe(w)
       PROVE  (Running => Admitted)'
    BY <1>9 DEF Observe, Request, Call
  <1>10. ASSUME NEW w \in Worker, Ask(w)
       PROVE  (Running => Admitted)'
    BY <1>10 DEF Ask, Request, Call
  <1>11. ASSUME NEW w \in Worker, Ready(w)
       PROVE  (Running => Admitted)'
    BY <1>11 DEF Ready, Answer, Mine
  <1>12. ASSUME NEW w \in Worker, CheckInstructions(w)
       PROVE  (Running => Admitted)'
    BY <1>12 DEF CheckInstructions, Move
  <1>13. ASSUME NEW w \in Worker, Accept(w)
       PROVE  (Running => Admitted)'
    BY <1>13 DEF Accept, Move
  <1>14. ASSUME NEW w \in Worker, ReportAccepted(w)
       PROVE  (Running => Admitted)'
    BY <1>14 DEF ReportAccepted, Answer, Mine
  <1>15. ASSUME NEW w \in Worker, AdmitActions(w)
       PROVE  (Running => Admitted)'
    BY <1>15 DEF AdmitActions, Admit, Move
  <1>16. ASSUME NEW w \in Worker, ReportRefused(w)
       PROVE  (Running => Admitted)'
    BY <1>16 DEF ReportRefused, Answer, Mine
  <1>17. ASSUME NEW w \in Worker, AdmitObservation(w) \/ FindServing(w)
       PROVE  (Running => Admitted)'
    BY <1>17 DEF AdmitObservation, Admit, Move, FindServing
  <1>18. ASSUME NEW w \in Worker, Enqueue(w) \/ Filter(w) \/ EndFiltered(w) \/ FindQueue(w)
             \/ Take(w) \/ TimeOut(w) \/ PredictFails(w) \/ Predict(w)
       PROVE  (Running => Admitted)'
    BY <1>18 DEF Enqueue, Answer, Filter, Move, EndFiltered, FindQueue, Take, TimeOut,
       PredictFails, Predict, Mine
  <1>19. CASE Rest \/ UNCHANGED vars
    BY <1>19 DEF Rest, vars
  <1>. QED
    BY <1>1, <1>2, <1>3, <1>4, <1>5, <1>6, <1>7, <1>8, <1>9, <1>10, <1>11, <1>12, <1>13, <1>14,
       <1>15, <1>16, <1>17, <1>18, <1>19
       DEF Next, Main, Handle, Clients

\* Ready gives the session a queue and an episode of its own.
LEMMA OwnStep ==
    ASSUME IInv, [Next]_vars
    PROVE  (Running => Own)'
  <1>. USE DEF mainVars, backendVars, clientVars, Running, Over, Guarded, Loop, Shutdown, TypeOK,
           Handlers, Session, Short, Free, NoChunk, IInv, Sessions, Own, Settled
  <1>1. CASE \/ Refuse \/ Record \/ Guard \/ Load \/ LoadFails \/ StartServing \/ ReportReady
             \/ FindIdle \/ ReportIdle
    BY <1>1 DEF Refuse, Record, Guard, Load, LoadFails, StartServing, ReportReady, FindIdle,
       ReportIdle
  <1>2. CASE Unwind
    BY <1>2 DEF Unwind
  <1>3. CASE Exit
    BY <1>3 DEF Exit, Vanish
  <1>4. CASE \/ Drain \/ CloseStatus
    BY <1>4 DEF Drain, CloseStatus
  <1>5. CASE Signal
    BY <1>5 DEF Signal, RaiseStop, Die, Vanish, Code
  <1>6. CASE Age
    BY <1>6 DEF Age
  <1>7. CASE Leave
    BY <1>7 DEF Leave
  <1>8. ASSUME NEW w \in Worker, Connect(w)
       PROVE  (Running => Own)'
    BY <1>8 DEF Connect, Call
  <1>9. ASSUME NEW w \in Worker, Instruct(w)
       PROVE  (Running => Own)'
    BY <1>9 DEF Instruct, Call
  <1>10. ASSUME NEW w \in Worker, Observe(w)
       PROVE  (Running => Own)'
    BY <1>10 DEF Observe, Request, Call
  <1>11. ASSUME NEW w \in Worker, Ask(w)
       PROVE  (Running => Own)'
    BY <1>11 DEF Ask, Request, Call
  <1>12. ASSUME NEW w \in Worker, Ready(w)
       PROVE  (Running => Own)'
    BY <1>12 DEF Ready, Answer, Mine
  <1>13. ASSUME NEW w \in Worker, CheckInstructions(w) \/ Accept(w) \/ ReportAccepted(w)
             \/ AdmitObservation(w) \/ AdmitActions(w) \/ FindServing(w) \/ ReportRefused(w)
       PROVE  (Running => Own)'
    BY <1>13 DEF CheckInstructions, Move, Accept, ReportAccepted, Answer, Mine, AdmitObservation,
       Admit, AdmitActions, FindServing, ReportRefused
  <1>14. ASSUME NEW w \in Worker, Enqueue(w)
       PROVE  (Running => Own)'
    BY <1>14 DEF Enqueue, Answer
  <1>15. ASSUME NEW w \in Worker, Take(w)
       PROVE  (Running => Own)'
    BY <1>15 DEF Take
  <1>16. ASSUME NEW w \in Worker, Predict(w)
       PROVE  (Running => Own)'
    BY <1>16 DEF Predict, Answer, Mine
  <1>17. ASSUME NEW w \in Worker, Filter(w) \/ EndFiltered(w) \/ FindQueue(w) \/ TimeOut(w)
             \/ PredictFails(w)
       PROVE  (Running => Own)'
    BY <1>17 DEF Filter, Move, EndFiltered, Answer, FindQueue, TimeOut, PredictFails
  <1>18. CASE Rest \/ UNCHANGED vars
    BY <1>18 DEF Rest, vars
  <1>. QED
    BY <1>1, <1>2, <1>3, <1>4, <1>5, <1>6, <1>7, <1>8, <1>9, <1>10, <1>11, <1>12, <1>13, <1>14,
       <1>15, <1>16, <1>17, <1>18
       DEF Next, Main, Handle, Clients

\* A chunk is given for the session's own observation, after its instructions were accepted.
LEMMA ChunkStep ==
    ASSUME IInv, [Next]_vars
    PROVE  Chunk' /\ FreshChunks'
  <1>. USE DEF mainVars, backendVars, clientVars, Running, Over, Guarded, Loop, Shutdown, TypeOK,
           Handlers, Session, Short, Free, NoChunk, IInv, Sessions, Admitted, Own, Settled, Chunk,
           FreshChunks
  <1>1. CASE \/ Refuse \/ Record \/ Guard \/ Load \/ LoadFails \/ StartServing \/ ReportReady
             \/ FindIdle \/ ReportIdle
    BY <1>1 DEF Refuse, Record, Guard, Load, LoadFails, StartServing, ReportReady, FindIdle,
       ReportIdle
  <1>2. CASE Exit
    BY <1>2 DEF Exit, Vanish
  <1>3. CASE \/ Unwind \/ Drain \/ CloseStatus
    BY <1>3 DEF Unwind, Drain, CloseStatus
  <1>4. CASE Signal
    BY <1>4 DEF Signal, RaiseStop, Die, Vanish, Code
  <1>5. CASE Leave
    BY <1>5 DEF Leave
  <1>6. CASE Age
    BY <1>6 DEF Age
  <1>7. ASSUME NEW w \in Worker, Connect(w)
       PROVE  Chunk' /\ FreshChunks'
    BY <1>7 DEF Connect, Call
  <1>8. ASSUME NEW w \in Worker, Instruct(w) \/ Observe(w) \/ Ask(w)
       PROVE  Chunk' /\ FreshChunks'
    BY <1>8 DEF Instruct, Call, Observe, Request, Ask
  <1>9. ASSUME NEW w \in Worker, Ready(w) \/ CheckInstructions(w) \/ Accept(w)
             \/ ReportAccepted(w) \/ AdmitObservation(w) \/ AdmitActions(w) \/ FindServing(w)
             \/ ReportRefused(w)
       PROVE  Chunk' /\ FreshChunks'
    BY <1>9 DEF Ready, Answer, Mine, CheckInstructions, Move, Accept, ReportAccepted,
       AdmitObservation, Admit, AdmitActions, FindServing, ReportRefused
  <1>10. ASSUME NEW w \in Worker, Predict(w)
       PROVE  Chunk' /\ FreshChunks'
    BY <1>10 DEF Predict, Answer, Mine
  <1>11. ASSUME NEW w \in Worker, Enqueue(w) \/ Filter(w) \/ EndFiltered(w) \/ FindQueue(w)
             \/ Take(w) \/ TimeOut(w) \/ PredictFails(w)
       PROVE  Chunk' /\ FreshChunks'
    BY <1>11 DEF Enqueue, Answer, Filter, Move, EndFiltered, FindQueue, Take, TimeOut,
       PredictFails
  <1>12. CASE Rest \/ UNCHANGED vars
    BY <1>12 DEF Rest, vars
  <1>. QED
    BY <1>1, <1>2, <1>3, <1>4, <1>5, <1>6, <1>7, <1>8, <1>9, <1>10, <1>11, <1>12
       DEF Next, Main, Handle, Clients

\* What the bounds and the initial handler are.
LEMMA TypeFacts ==
    /\ 0 \in Session /\ Session \subseteq Nat /\ Free \in Handlers
    /\ Free.at = "free" /\ Free.session = 0 /\ Free.obs = 0 /\ Free.reset = 0
    /\ \A s \in Session : s < MaxSession => s + 1 \in Session
    /\ 0 \in 0..Episodes /\ \A n \in Nat : 1 + (n % Episodes) \in 0..Episodes
  <1>1. /\ 0 \in Session /\ Session \subseteq Nat
        /\ \A s \in Session : s < MaxSession => s + 1 \in Session
    BY ServeAssumption DEF Session
  <1>2. Free \in Handlers
    BY <1>1 DEF Free, Handlers
  <1>3. 0 \in 0..Episodes /\ \A n \in Nat : 1 + (n % Episodes) \in 0..Episodes
    BY ServeAssumption
  <1>. QED
    BY <1>1, <1>2, <1>3 DEF Free

\* The main thread's variables keep their types, ...
LEMMA MainTyped ==
    ASSUME TypeOK, [Next]_vars
    PROVE  MainTypes'
  <1>. USE ServeAssumption DEF mainVars, backendVars, clientVars, TypeOK, Over, Guarded, Shutdown,
           Loop, MainTypes
  <1>1. CASE \/ Refuse \/ Record \/ Guard \/ Load \/ LoadFails \/ StartServing \/ ReportReady
             \/ FindIdle \/ ReportIdle
    BY <1>1 DEF Refuse, Record, Guard, Load, LoadFails, StartServing, ReportReady, FindIdle,
       ReportIdle
  <1>2. CASE Exit
    BY <1>2 DEF Exit, Vanish
  <1>3. CASE \/ Unwind \/ Drain \/ CloseStatus
    BY <1>3 DEF Unwind, Drain, CloseStatus
  <1>4. CASE Signal
    BY <1>4 DEF Signal, RaiseStop, Die, Vanish, Code
  <1>5. CASE \/ Age \/ Leave
    BY <1>5 DEF Age, Leave
  <1>6. ASSUME NEW w \in Worker, Connect(w) \/ Instruct(w) \/ Observe(w) \/ Ask(w)
       PROVE  MainTypes'
    BY <1>6 DEF Connect, Call, Instruct, Observe, Request, Ask
  <1>7. ASSUME NEW w \in Worker, Ready(w) \/ CheckInstructions(w) \/ Accept(w)
             \/ ReportAccepted(w) \/ AdmitObservation(w) \/ AdmitActions(w) \/ FindServing(w)
             \/ ReportRefused(w)
       PROVE  MainTypes'
    BY <1>7 DEF Ready, Answer, Mine, CheckInstructions, Move, Accept, ReportAccepted,
       AdmitObservation, Admit, AdmitActions, FindServing, ReportRefused
  <1>8. ASSUME NEW w \in Worker, Enqueue(w) \/ Filter(w) \/ EndFiltered(w) \/ FindQueue(w)
             \/ Take(w) \/ TimeOut(w) \/ PredictFails(w) \/ Predict(w)
       PROVE  MainTypes'
    BY <1>8 DEF Enqueue, Answer, Filter, Move, EndFiltered, FindQueue, Take, TimeOut,
       PredictFails, Predict, Mine
  <1>9. CASE Rest \/ UNCHANGED vars
    BY <1>9 DEF Rest, vars
  <1>. QED
    BY <1>1, <1>2, <1>3, <1>4, <1>5, <1>6, <1>7, <1>8, <1>9
       DEF Next, Main, Handle, Clients

\* ... what it will say, ...
LEMMA WordsTyped ==
    ASSUME TypeOK, [Next]_vars
    PROVE  WordTypes'
  <1>. USE DEF mainVars, backendVars, clientVars, TypeOK, WordTypes
  <1>1. CASE Record
    BY <1>1 DEF Record
  <1>2. CASE ReportReady
    BY <1>2 DEF ReportReady
  <1>3. CASE ReportIdle
    BY <1>3 DEF ReportIdle
  <1>4. CASE \/ Refuse \/ Guard \/ Load \/ LoadFails \/ StartServing \/ FindIdle
    BY <1>4 DEF Refuse, Guard, Load, LoadFails, StartServing, FindIdle
  <1>5. CASE CloseStatus
    BY <1>5 DEF CloseStatus
  <1>6. CASE Exit
    BY <1>6 DEF Exit, Vanish
  <1>7. CASE \/ Unwind \/ Drain
    BY <1>7 DEF Unwind, Drain
  <1>8. CASE Signal
    BY <1>8 DEF Signal, RaiseStop, Die, Vanish, Code
  <1>9. CASE \/ Age \/ Leave
    BY <1>9 DEF Age, Leave
  <1>10. ASSUME NEW w \in Worker, Connect(w) \/ Instruct(w) \/ Observe(w) \/ Ask(w)
       PROVE  WordTypes'
    BY <1>10 DEF Connect, Call, Instruct, Observe, Request, Ask
  <1>11. ASSUME NEW w \in Worker, ReportAccepted(w)
       PROVE  WordTypes'
    BY <1>11 DEF ReportAccepted, Answer, Mine
  <1>12. ASSUME NEW w \in Worker, ReportRefused(w)
       PROVE  WordTypes'
    BY <1>12 DEF ReportRefused, Answer, Mine
  <1>13. ASSUME NEW w \in Worker, Ready(w) \/ CheckInstructions(w) \/ Accept(w)
             \/ AdmitObservation(w) \/ AdmitActions(w) \/ FindServing(w)
       PROVE  WordTypes'
    BY <1>13 DEF Ready, Answer, Mine, CheckInstructions, Move, Accept, AdmitObservation, Admit,
       AdmitActions, FindServing
  <1>14. ASSUME NEW w \in Worker, Enqueue(w) \/ Filter(w) \/ EndFiltered(w) \/ FindQueue(w)
             \/ Take(w) \/ TimeOut(w) \/ PredictFails(w) \/ Predict(w)
       PROVE  WordTypes'
    BY <1>14 DEF Enqueue, Answer, Filter, Move, EndFiltered, FindQueue, Take, TimeOut,
       PredictFails, Predict, Mine
  <1>15. CASE Rest \/ UNCHANGED vars
    BY <1>15 DEF Rest, vars
  <1>. QED
    BY <1>1, <1>2, <1>3, <1>4, <1>5, <1>6, <1>7, <1>8, <1>9, <1>10, <1>11, <1>12, <1>13, <1>14,
       <1>15
       DEF Next, Main, Handle, Clients

\* ... the backend's, ...
LEMMA BackendTyped ==
    ASSUME TypeOK, [Next]_vars
    PROVE  BackendTypes'
  <1>. USE TypeFacts DEF mainVars, backendVars, clientVars, TypeOK, BackendTypes
  <1>1. CASE \/ Refuse \/ Record \/ Guard \/ Load \/ LoadFails \/ StartServing \/ ReportReady
             \/ FindIdle \/ ReportIdle
    BY <1>1 DEF Refuse, Record, Guard, Load, LoadFails, StartServing, ReportReady, FindIdle,
       ReportIdle
  <1>2. CASE Exit
    BY <1>2 DEF Exit, Vanish
  <1>3. CASE \/ Unwind \/ Drain \/ CloseStatus
    BY <1>3 DEF Unwind, Drain, CloseStatus
  <1>4. CASE Signal
    <2>1. Vanish \/ UNCHANGED <<seen, backendVars>>
      BY <1>4 DEF Signal, RaiseStop, Die
    <2>2. CASE Vanish
      BY <2>2 DEF Vanish
    <2>3. CASE UNCHANGED <<seen, backendVars>>
      BY <2>3
    <2>. QED
      BY <2>1, <2>2, <2>3
  <1>5. CASE \/ Age \/ Leave
    BY <1>5 DEF Age, Leave
  <1>6. ASSUME NEW w \in Worker, Connect(w) \/ Instruct(w) \/ Observe(w) \/ Ask(w)
       PROVE  BackendTypes'
    BY <1>6 DEF Connect, Call, Instruct, Observe, Request, Ask
  <1>7. ASSUME NEW w \in Worker, Ready(w)
       PROVE  BackendTypes'
    <2>1. resets' = resets + 1 /\ resets \in Nat /\ episode' \in {episode, 1 + (resets % Episodes)}
      BY <1>7 DEF Ready
    <2>2. resets' \in Nat /\ episode' \in 0..Episodes
      BY <2>1
    <2>. QED
      BY <1>7, <2>2 DEF Ready
  <1>8. ASSUME NEW w \in Worker, CheckInstructions(w)
       PROVE  BackendTypes'
    BY <1>8 DEF CheckInstructions, Move
  <1>9. ASSUME NEW w \in Worker, Accept(w)
       PROVE  BackendTypes'
    BY <1>9 DEF Accept, Move
  <1>10. ASSUME NEW w \in Worker, ReportAccepted(w)
       PROVE  BackendTypes'
    BY <1>10 DEF ReportAccepted, Answer, Mine
  <1>11. ASSUME NEW w \in Worker, AdmitObservation(w)
       PROVE  BackendTypes'
    BY <1>11 DEF AdmitObservation, Admit, Move
  <1>12. ASSUME NEW w \in Worker, AdmitActions(w)
       PROVE  BackendTypes'
    BY <1>12 DEF AdmitActions, Admit, Move
  <1>13. ASSUME NEW w \in Worker, FindServing(w)
       PROVE  BackendTypes'
    BY <1>13 DEF FindServing
  <1>14. ASSUME NEW w \in Worker, ReportRefused(w)
       PROVE  BackendTypes'
    BY <1>14 DEF ReportRefused, Answer, Mine
  <1>15. ASSUME NEW w \in Worker, Enqueue(w)
       PROVE  BackendTypes'
    BY <1>15 DEF Enqueue, Answer, Handlers
  <1>16. ASSUME NEW w \in Worker, Take(w)
       PROVE  BackendTypes'
    BY <1>16 DEF Take
  <1>17. ASSUME NEW w \in Worker, Predict(w)
       PROVE  BackendTypes'
    BY <1>17 DEF Predict, Answer, Mine, Handlers
  <1>18. ASSUME NEW w \in Worker, Filter(w) \/ EndFiltered(w) \/ FindQueue(w) \/ TimeOut(w)
             \/ PredictFails(w)
       PROVE  BackendTypes'
    BY <1>18 DEF Filter, Move, EndFiltered, Answer, FindQueue, TimeOut, PredictFails
  <1>19. CASE Rest \/ UNCHANGED vars
    BY <1>19 DEF Rest, vars
  <1>. QED
    BY <1>1, <1>2, <1>3, <1>4, <1>5, <1>6, <1>7, <1>8, <1>9, <1>10, <1>11, <1>12, <1>13, <1>14,
       <1>15, <1>16, <1>17, <1>18, <1>19
       DEF Next, Main, Handle, Clients

\* ... the client's, ...
LEMMA ClientTyped ==
    ASSUME TypeOK, [Next]_vars
    PROVE  ClientTypes'
  <1>. USE TypeFacts DEF mainVars, backendVars, clientVars, TypeOK, ClientTypes
  <1>1. CASE \/ Refuse \/ Record \/ Guard \/ Load \/ LoadFails \/ StartServing \/ ReportReady
             \/ FindIdle \/ ReportIdle
    BY <1>1 DEF Refuse, Record, Guard, Load, LoadFails, StartServing, ReportReady, FindIdle,
       ReportIdle
  <1>2. CASE Exit
    BY <1>2 DEF Exit, Vanish
  <1>3. CASE \/ Unwind \/ Drain \/ CloseStatus
    BY <1>3 DEF Unwind, Drain, CloseStatus
  <1>4. CASE Signal
    BY <1>4 DEF Signal, RaiseStop, Die, Vanish, Code
  <1>5. CASE Leave
    BY <1>5 DEF Leave, NoChunk
  <1>6. CASE Age
    BY <1>6 DEF Age
  <1>7. ASSUME NEW w \in Worker, Connect(w)
       PROVE  ClientTypes'
    BY <1>7 DEF Connect, Call
  <1>8. ASSUME NEW w \in Worker, Instruct(w) \/ Observe(w) \/ Ask(w)
       PROVE  ClientTypes'
    BY <1>8 DEF Instruct, Call, Observe, Request, Ask
  <1>9. ASSUME NEW w \in Worker, Ready(w) \/ CheckInstructions(w) \/ Accept(w)
             \/ ReportAccepted(w) \/ AdmitObservation(w) \/ AdmitActions(w) \/ FindServing(w)
             \/ ReportRefused(w)
       PROVE  ClientTypes'
    BY <1>9 DEF Ready, Answer, Mine, CheckInstructions, Move, Accept, ReportAccepted,
       AdmitObservation, Admit, AdmitActions, FindServing, ReportRefused
  <1>10. ASSUME NEW w \in Worker, Predict(w)
       PROVE  ClientTypes'
    BY <1>10 DEF Predict, Answer, Mine, Handlers
  <1>11. ASSUME NEW w \in Worker, Enqueue(w) \/ Filter(w) \/ EndFiltered(w) \/ FindQueue(w)
             \/ Take(w) \/ TimeOut(w) \/ PredictFails(w)
       PROVE  ClientTypes'
    BY <1>11 DEF Enqueue, Answer, Filter, Move, EndFiltered, FindQueue, Take, TimeOut,
       PredictFails
  <1>12. CASE Rest \/ UNCHANGED vars
    BY <1>12 DEF Rest, vars
  <1>. QED
    BY <1>1, <1>2, <1>3, <1>4, <1>5, <1>6, <1>7, <1>8, <1>9, <1>10, <1>11, <1>12
       DEF Next, Main, Handle, Clients

\* ... and the handlers.
LEMMA HandlersTyped ==
    ASSUME TypeOK, [Next]_vars
    PROVE  handler' \in [Worker -> Handlers]
  <1>. USE TypeFacts DEF mainVars, backendVars, clientVars, TypeOK
  <1>1. CASE \/ Refuse \/ Record \/ Guard \/ Load \/ LoadFails \/ StartServing \/ ReportReady
             \/ FindIdle \/ ReportIdle
    BY <1>1 DEF Refuse, Record, Guard, Load, LoadFails, StartServing, ReportReady, FindIdle,
       ReportIdle
  <1>2. CASE Exit
    BY <1>2 DEF Exit, Vanish
  <1>3. CASE \/ Unwind \/ Drain \/ CloseStatus
    BY <1>3 DEF Unwind, Drain, CloseStatus
  <1>4. CASE Signal
    BY <1>4 DEF Signal, RaiseStop, Die, Vanish, Code
  <1>5. CASE \/ Age \/ Leave
    BY <1>5 DEF Age, Leave
  <1>6. ASSUME NEW w \in Worker, Connect(w)
       PROVE  handler' \in [Worker -> Handlers]
    BY <1>6 DEF Connect, Call, Handlers, Short
  <1>7. ASSUME NEW w \in Worker, Instruct(w)
       PROVE  handler' \in [Worker -> Handlers]
    BY <1>7 DEF Instruct, Call, Handlers, Short
  <1>8. ASSUME NEW w \in Worker, Observe(w)
       PROVE  handler' \in [Worker -> Handlers]
    BY <1>8 DEF Observe, Request, Call, Handlers, Short
  <1>9. ASSUME NEW w \in Worker, Ask(w)
       PROVE  handler' \in [Worker -> Handlers]
    BY <1>9 DEF Ask, Request, Call, Handlers, Short
  <1>10. ASSUME NEW w \in Worker, Ready(w)
       PROVE  handler' \in [Worker -> Handlers]
    BY <1>10 DEF Ready, Answer, Mine
  <1>11. ASSUME NEW w \in Worker, CheckInstructions(w)
       PROVE  handler' \in [Worker -> Handlers]
    BY <1>11 DEF CheckInstructions, Move, Handlers, Short
  <1>12. ASSUME NEW w \in Worker, Accept(w)
       PROVE  handler' \in [Worker -> Handlers]
    BY <1>12 DEF Accept, Move, Handlers, Short
  <1>13. ASSUME NEW w \in Worker, ReportAccepted(w)
       PROVE  handler' \in [Worker -> Handlers]
    BY <1>13 DEF ReportAccepted, Answer, Mine
  <1>14. ASSUME NEW w \in Worker, AdmitObservation(w)
       PROVE  handler' \in [Worker -> Handlers]
    BY <1>14 DEF AdmitObservation, Admit, Move, Handlers, Short
  <1>15. ASSUME NEW w \in Worker, AdmitActions(w)
       PROVE  handler' \in [Worker -> Handlers]
    BY <1>15 DEF AdmitActions, Admit, Move, Handlers, Short
  <1>16. ASSUME NEW w \in Worker, FindServing(w)
       PROVE  handler' \in [Worker -> Handlers]
    <2>1. handler[w] \in Handlers /\ handler' = [handler EXCEPT ![w] = [handler[w] EXCEPT !.at = "lower",
                                                        !.obs = IF status.word = "serving" THEN 1 ELSE 0]]
      BY <1>16 DEF FindServing
    <2>2. {0, 1} \subseteq Session
      BY ServeAssumption DEF Session
    <2>. QED
      BY <2>1, <2>2 DEF Handlers, Short
  <1>17. ASSUME NEW w \in Worker, ReportRefused(w)
       PROVE  handler' \in [Worker -> Handlers]
    BY <1>17 DEF ReportRefused, Answer, Mine
  <1>18. ASSUME NEW w \in Worker, Enqueue(w)
       PROVE  handler' \in [Worker -> Handlers]
    BY <1>18 DEF Enqueue, Answer
  <1>19. ASSUME NEW w \in Worker, Filter(w)
       PROVE  handler' \in [Worker -> Handlers]
    BY <1>19 DEF Filter, Move, Handlers, Short
  <1>20. ASSUME NEW w \in Worker, EndFiltered(w)
       PROVE  handler' \in [Worker -> Handlers]
    BY <1>20 DEF EndFiltered, Answer
  <1>21. ASSUME NEW w \in Worker, FindQueue(w)
       PROVE  handler' \in [Worker -> Handlers]
    BY <1>21 DEF FindQueue, Handlers, Short
  <1>22. ASSUME NEW w \in Worker, Take(w)
       PROVE  handler' \in [Worker -> Handlers]
    <2>1. handler[w] \in Handlers /\ queue \in Session
      BY <1>22 DEF Take
    <2>2. handler' = [handler EXCEPT ![w] = [handler[w] EXCEPT !.at = "predict", !.obs = queue]]
      BY <1>22 DEF Take
    <2>3. [handler[w] EXCEPT !.at = "predict", !.obs = queue] \in Handlers
      BY <2>1 DEF Handlers
    <2>. QED
      BY <2>2, <2>3
  <1>23. ASSUME NEW w \in Worker, TimeOut(w)
       PROVE  handler' \in [Worker -> Handlers]
    BY <1>23 DEF TimeOut, Answer
  <1>24. ASSUME NEW w \in Worker, PredictFails(w)
       PROVE  handler' \in [Worker -> Handlers]
    BY <1>24 DEF PredictFails, Answer
  <1>25. ASSUME NEW w \in Worker, Predict(w)
       PROVE  handler' \in [Worker -> Handlers]
    BY <1>25 DEF Predict, Answer, Mine
  <1>26. CASE Rest \/ UNCHANGED vars
    BY <1>26 DEF Rest, vars
  <1>. QED
    BY <1>1, <1>2, <1>3, <1>4, <1>5, <1>6, <1>7, <1>8, <1>9, <1>10, <1>11, <1>12, <1>13, <1>14,
       <1>15, <1>16, <1>17, <1>18, <1>19, <1>20, <1>21, <1>22, <1>23, <1>24, <1>25, <1>26
       DEF Next, Main, Handle, Clients

\* Every step keeps the types.
LEMMA TypeStep ==
    ASSUME IInv, [Next]_vars
    PROVE  TypeOK'
  <1>1. TypeOK
    BY DEF IInv
  <1>. QED
    BY <1>1, MainTyped, WordsTyped, BackendTyped, ClientTyped, HandlersTyped
       DEF TypeOK, MainTypes, WordTypes, BackendTypes, ClientTypes

\* It holds at the start ...
LEMMA InitInv == Init => IInv
  <1>. SUFFICES ASSUME Init PROVE IInv
    OBVIOUS
  <1>1. TypeOK
    <2>1. offer \in Offers
      BY ServeAssumption DEF Init
    <2>2. handler \in [Worker -> Handlers] /\ got \in [by : Session, obs : Session, episode : 0..Episodes]
      BY TypeFacts DEF Init, NoChunk
    <2>3. signals \in 0..MaxSignal /\ {lastObs, queue, cur} \subseteq Session /\ episode \in 0..Episodes
      BY TypeFacts, ServeAssumption DEF Init
    <2>4. ending \in [word : {"none", "stopped", "failed"}, code : {0, 1, 2, 130, 143}]
      BY DEF Init
    <2>5. status \in [word : {"none", "loading", "ready", "serving", "stopped", "failed"},
                     connected : BOOLEAN]
      BY DEF Init
    <2>. QED
      BY <2>1, <2>2, <2>3, <2>4, <2>5 DEF Init, TypeOK
  <1>2. Ending /\ Chunk /\ FreshChunks
    BY DEF Init, Ending, Chunk, FreshChunks, NoChunk, Shutdown
  <1>3. Sessions /\ Admitted /\ Own
    BY DEF Init, Sessions, Admitted, Own, Settled, Free, Short
  <1>. QED
    BY <1>1, <1>2, <1>3 DEF IInv

\* ... and every step keeps it.
LEMMA StepInv == IInv /\ [Next]_vars => IInv'
  BY EndingStep, SessionsStep, AdmittedStep, OwnStep, ChunkStep, TypeStep DEF IInv

\* The invariant holds for all workers, sessions, signals, launches and offers.
THEOREM Invariance == Spec => []IInv
  BY InitInv, StepInv, PTL DEF Spec

\* Every variable of the server, its handlers and its clients keeps its type.
THEOREM TypeCorrect == Spec => []TypeOK
  <1>1. IInv => TypeOK
    BY DEF IInv
  <1>. QED
    BY <1>1, Invariance, PTL

\* A client is given only chunks computed from its own observations, in a replay
\* from the episode its Ready chose: Ready and GetActions of serve_backend.py.
THEOREM ChunksAreFresh == Spec => []FreshChunks
  <1>1. IInv => FreshChunks
    BY DEF IInv
  <1>. QED
    BY <1>1, Invariance, PTL

\* Instructions without a mismatch have the checkpoint's cameras, by name and
\* shape, and its joints: feature_mismatches.
LEMMA MatchesMeans ==
    ASSUME NEW o, Matches(o)
    PROVE  /\ DOMAIN o.images = DOMAIN Served.images
           /\ \A k \in DOMAIN Served.images : o.images[k] = ClientShape(Served.images[k])
           /\ o.dim = Served.dim
           /\ Served.joints = <<>> \/ o.joints \in {<<>>, Served.joints}
  <1>. DEFINE want == DOMAIN Served.images
              have == DOMAIN o.images
  <1>1. FeatureMismatches(o) = {}
    BY DEF Matches, Mismatches
  <1>2. want \ have = {} /\ have \ want = {}
    BY <1>1 DEF FeatureMismatches
  <1>3. {i \in want \cap have : o.images[i] # ClientShape(Served.images[i])} = {}
    BY <1>1 DEF FeatureMismatches
  <1>4. {n \in {"dimension"} : o.dim # Served.dim} = {}
    BY <1>1 DEF FeatureMismatches
  <1>5. {n \in {"order"} : Served.joints # <<>> /\ o.joints # <<>> /\ o.joints # Served.joints} = {}
    BY <1>1 DEF FeatureMismatches
  <1>. QED
    <2>1. want = have
      BY <1>2
    <2>2. \A k \in want : o.images[k] = ClientShape(Served.images[k])
      BY <1>3, <2>1
    <2>3. o.dim = Served.dim
      BY <1>4
    <2>4. Served.joints = <<>> \/ o.joints \in {<<>>, Served.joints}
      BY <1>5
    <2>. QED
      BY <2>1, <2>2, <2>3, <2>4

\* A client gets chunks only if its cameras and joints are those the checkpoint was
\* trained on, whoever was accepted before it: SendPolicyInstructions and its guards.
THEOREM OnlyTrained == Spec => []OnlyTrainedFeatures
  <1>1. IInv => OnlyTrainedFeatures
    BY MatchesMeans DEF IInv, Chunk, OnlyTrainedFeatures
  <1>. QED
    BY <1>1, Invariance, PTL

\* A server that ends by itself leaves a status, a session record and an exit code
\* that agree, whatever RPCs and signals come in the meantime.
THEOREM EndsOrderly == Spec => []OrderlyEnd
  <1>1. IInv => OrderlyEnd
    BY DEF IInv, Ending, OrderlyEnd
  <1>. QED
    BY <1>1, Invariance, PTL
=================================================================================
