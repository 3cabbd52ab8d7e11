--------------------------- MODULE Collection_proofs ---------------------------
(***************************************************************************)
(* Proofs about Collection and CollectCli, for any plan, any number of     *)
(* ledger lines and any number of command lines.                           *)
(* The inductive invariant says of every place of the worker thread what   *)
(* it has established there: the lock it holds, the line of the ledger its *)
(* own will follow, and what FINISHED will mean if it gets there.          *)
(***************************************************************************)
EXTENDS Collection, CollectCli, FiniteSetTheorems, WellFoundedInduction, TLAPS

\* Where the worker holds the hardware lock.
Busy == {"spawn", "wait", "verify", "append", "release"}

\* The recorder runs only while the worker waits for it, inside the lock.
Kept ==
    /\ DOMAIN recs = Owner
    /\ Running("service") => worker = "wait"
    /\ worker \in Busy => arms = "collection"

\* The line to come starts where the ledger ends.
Accounts ==
    /\ dataset \in [root : BOOLEAN, info : BOOLEAN, episodes : Nat]
    /\ ledger \in Seq(Line)
    /\ worker \in Busy \ {"release"} =>
          run.session \in Sess /\ run.before \in Nat /\ run.before = Expected(ledger)
    /\ worker = "append" => result.after \in Nat \cup {None}
    /\ LedgerChains

\* A session on its way to FINISHED was stopped, or has its ok line.
Earned ==
    /\ {stopRequested, interrupted, error} \subseteq BOOLEAN
    /\ worker = "append" => result.problems \in BOOLEAN
    /\ interrupted => stopRequested
    /\ phase = "finished" => worker \in {"exit", "none"}
    /\ phase = "finished" \/ (worker \in {"release", "publish"} /\ ~error) =>
          stopRequested \/ Done(ledger, run.session)

KInv == Kept /\ Accounts /\ Earned

\* With no orphan writing the dataset, it is what the last line says it is.
Agreed ==
    /\ ~Running("orphan")
    /\ \/ phase = "finished"
       \/ worker = "spawn"
       \/ worker \in {"release", "publish"} /\ ~error
       => ~Disagree(ledger)
    /\ worker = "append" /\ ~result.problems => dataset.info /\ result.after = dataset.episodes

-------------------------------------------------------------------------------
\* The service and the orphan it may leave behind have their recorders.
LEMMA ServerOwners == Server \in SUBSET Owner /\ "service" \in Owner /\ "orphan" \in Owner
  BY CollectionAssumption DEF Server

\* A recorder's own step starts no recorder, and leaves the other owner's alone.
LEMMA RecorderKeeps ==
    ASSUME DOMAIN recs = Owner, NEW owners \in SUBSET Owner, RecorderStep(owners)
    PROVE  /\ DOMAIN recs' = Owner
           /\ UNCHANGED ledger
           /\ \A o \in Owner : Running(o)' => Running(o)
           /\ UNCHANGED dataset \/ \E o \in owners : Running(o)
           /\ dataset \in [root : BOOLEAN, info : BOOLEAN, episodes : Nat] =>
                 dataset' \in [root : BOOLEAN, info : BOOLEAN, episodes : Nat]
  <1>1. PICK o \in owners :
            RecorderOpens(o) \/ RecorderSaves(o) \/ RecorderFails(o) \/ RecorderExits(o)
    BY DEF RecorderStep
  <1>2. Running(o)
    BY <1>1 DEF RecorderOpens, RecorderSaves, RecorderFails, RecorderExits
  <1>3. UNCHANGED ledger /\ DOMAIN recs' = Owner /\ \A w \in Owner : w # o => recs'[w] = recs[w]
    BY <1>1 DEF RecorderOpens, RecorderSaves, RecorderFails, RecorderExits
  <1>4. \A w \in Owner : Running(w)' => Running(w)
    BY <1>2, <1>3 DEF Running
  <1>5. dataset \in [root : BOOLEAN, info : BOOLEAN, episodes : Nat] =>
            dataset' \in [root : BOOLEAN, info : BOOLEAN, episodes : Nat]
    <2>1. CASE RecorderOpens(o)
      BY <2>1 DEF RecorderOpens
    <2>2. CASE RecorderSaves(o)
      BY <2>2 DEF RecorderSaves
    <2>3. CASE RecorderFails(o) \/ RecorderExits(o)
      BY <2>3 DEF LeavesRoot, RecorderFails, RecorderExits
    <2> QED
      BY <1>1, <2>1, <2>2, <2>3
  <1> QED
    BY <1>2, <1>3, <1>4, <1>5

\* A stop starts nothing and finishes nothing.
LEMMA StopKeeps ==
    ASSUME DOMAIN recs = Owner, StopEffect
    PROVE  /\ DOMAIN recs' = Owner
           /\ \A o \in Owner : Running(o)' => Running(o)
           /\ phase' = "finished" => phase = "finished"
           /\ stopRequested \in BOOLEAN => stopRequested' \in BOOLEAN
           /\ stopRequested => stopRequested'
  BY DEF StopEffect, Running, Signalled

\* The kinds of a new line are those of the ledger.
LEMMA NewLineType ==
    ASSUME run.session \in Sess, run.before \in Nat, result.after \in Nat \cup {None}
    PROVE  NewLine \in Line
  BY DEF NewLine, LineStatus, Line, Statuses

\* A line that starts where the ledger ends extends the chain, and undoes no session.
LEMMA ChainAppend ==
    ASSUME LedgerChains, ledger \in Seq(Line), NEW line \in Line,
           line.before = Expected(ledger), ledger' = Append(ledger, line)
    PROVE  /\ ledger' \in Seq(Line)
           /\ LedgerChains'
           /\ \A s \in Sess : Done(ledger, s) => Done(ledger', s)
           /\ line.status = "ok" => Done(ledger', line.session)
           /\ Expected(ledger') = line.after
  <1>1. ledger' \in Seq(Line) /\ Len(ledger') = Len(ledger) + 1
    OBVIOUS
  <1>2. /\ \A i \in 1..Len(ledger) : ledger'[i] = ledger[i]
        /\ ledger'[Len(ledger) + 1] = line
    OBVIOUS
  <1>3. /\ Len(ledger) \in Nat
        /\ DOMAIN ledger = 1..Len(ledger) /\ DOMAIN ledger' = 1..(Len(ledger) + 1)
        /\ ledger = <<>> <=> Len(ledger) = 0
    BY <1>1
  <1>4. LedgerChains'
    <2> SUFFICES ASSUME NEW i \in DOMAIN ledger'
                 PROVE  ledger'[i].before = IF i = 1 THEN 0 ELSE ledger'[i - 1].after
      BY DEF LedgerChains
    <2>1. CASE i \in 1..Len(ledger)
      BY <2>1, <1>2, <1>3 DEF LedgerChains
    <2>2. CASE i = Len(ledger) + 1
      <3>1. ledger'[i].before = Expected(ledger)
        BY <2>2, <1>2
      <3>2. CASE Len(ledger) = 0
        BY <2>2, <3>1, <3>2, <1>3 DEF Expected
      <3>3. CASE Len(ledger) # 0
        <4>1. i # 1 /\ i - 1 = Len(ledger) /\ i - 1 \in 1..Len(ledger)
          BY <2>2, <3>3, <1>3
        <4>2. Expected(ledger) = ledger[Len(ledger)].after
          BY <3>3, <1>3 DEF Expected, Last
        <4> QED
          BY <3>1, <4>1, <4>2, <1>2
      <3> QED
        BY <3>2, <3>3
    <2> QED
      BY <2>1, <2>2, <1>3
  <1>5. \A s \in Sess : Done(ledger, s) => Done(ledger', s)
    BY <1>2, <1>3 DEF Done
  <1>6. line.status = "ok" => Done(ledger', line.session)
    BY <1>2, <1>3 DEF Done
  <1>7. Expected(ledger') = line.after
    BY <1>1, <1>2, <1>3 DEF Expected, Last
  <1> QED
    BY <1>1, <1>4, <1>5, <1>6, <1>7

\* The service's line is one.
LEMMA AppendKeeps ==
    ASSUME LedgerChains, ledger \in Seq(Line), NewLine \in Line,
           run.before = Expected(ledger), ledger' = Append(ledger, NewLine)
    PROVE  /\ ledger' \in Seq(Line)
           /\ LedgerChains'
           /\ \A s \in Sess : Done(ledger, s) => Done(ledger', s)
           /\ LineStatus = "ok" => Done(ledger', run.session)
           /\ Expected(ledger') = result.after
  <1>1. /\ NewLine.before = run.before /\ NewLine.session = run.session
        /\ NewLine.after = result.after /\ NewLine.status = LineStatus
    BY DEF NewLine
  <1> QED
    BY <1>1, ChainAppend

-------------------------------------------------------------------------------
\* At the start no worker runs and the ledger is empty.
LEMMA InitKInv == Init => KInv
  <1> SUFFICES ASSUME Init PROVE KInv
    OBVIOUS
  <1>1. Kept
    BY ServerOwners DEF Init, DiskInit, ServiceInit, Kept, Running, Busy
  <1>2. ledger \in Seq(Line) /\ LedgerChains
    BY DEF Init, DiskInit, LedgerChains
  <1>3. Accounts
    BY <1>2 DEF Init, DiskInit, ServiceInit, Accounts, Busy
  <1>4. Earned
    BY DEF Init, DiskInit, ServiceInit, Earned
  <1> QED
    BY <1>1, <1>3, <1>4 DEF KInv

\* Every step keeps the lock with the worker that needs it.
LEMMA NextKept ==
    ASSUME Kept, Next
    PROVE  Kept'
  <1> USE ServerOwners DEF Kept, Busy, Running, Server
  <1>1. ASSUME NEW s \in Sess, Start(s) PROVE Kept'
    BY <1>1 DEF Start
  <1>2. CASE Stop
    BY <1>2, StopKeeps DEF Stop
  <1>3. CASE Shutdown
    BY <1>3, StopKeeps DEF Shutdown
  <1>4. CASE Restart
    BY <1>4 DEF Restart
  <1>5. CASE Spawn
    BY <1>5 DEF Spawn
  <1>6. CASE RecorderGone \/ VerifyRun \/ AppendLine
    BY <1>6 DEF RecorderGone, VerifyRun, AppendLine
  <1>7. CASE ReleaseArms \/ Publish \/ WorkerEnds
    BY <1>7 DEF ReleaseArms, Publish, WorkerEnds
  <1>8. CASE RecorderStep(Server) /\ UNCHANGED <<svcVars, arms>>
    BY <1>8, RecorderKeeps, ServerOwners DEF svcVars
  <1>9. CASE (OtherTakes \/ OtherReleases) /\ UNCHANGED svcVars
    BY <1>9 DEF OtherTakes, OtherReleases, diskVars, svcVars
  <1>10. CASE Death
    BY <1>10 DEF Death, Reborn
  <1> QED
    BY <1>1, <1>2, <1>3, <1>4, <1>5, <1>6, <1>7, <1>8, <1>9, <1>10 DEF Next

\* Every step keeps the ledger's lines joined.
LEMMA NextAccounts ==
    ASSUME Kept, Accounts, Next
    PROVE  Accounts'
  <1> USE DEF Accounts, Busy
  <1>u. ASSUME UNCHANGED ledger PROVE LedgerChains' /\ Expected(ledger)' = Expected(ledger)
    BY <1>u DEF LedgerChains, Expected
  <1>1. ASSUME NEW s \in Sess, Start(s) PROVE Accounts'
    BY <1>1, <1>u DEF Start, Recordable, Disagree, Episodes
  <1>2. CASE Stop \/ Shutdown
    BY <1>2, <1>u DEF Stop, Shutdown
  <1>4. CASE Restart \/ Spawn \/ RecorderGone
    BY <1>4, <1>u DEF Restart, Spawn, RecorderGone
  <1>5. CASE VerifyRun
    BY <1>5, <1>u DEF VerifyRun, Verify, Count
  <1>6. CASE AppendLine
    BY <1>6, <1>u, NewLineType, AppendKeeps DEF AppendLine
  <1>7. CASE ReleaseArms \/ Publish \/ WorkerEnds
    BY <1>7, <1>u DEF ReleaseArms, Publish, WorkerEnds
  <1>8. CASE RecorderStep(Server) /\ UNCHANGED <<svcVars, arms>>
    BY <1>8, <1>u, RecorderKeeps, ServerOwners DEF svcVars, Kept
  <1>9. CASE (OtherTakes \/ OtherReleases) /\ UNCHANGED svcVars
    BY <1>9, <1>u DEF OtherTakes, OtherReleases, diskVars, svcVars
  <1>10. CASE Death
    BY <1>10, <1>u DEF Death, Reborn
  <1> QED
    BY <1>1, <1>2, <1>4, <1>5, <1>6, <1>7, <1>8, <1>9, <1>10 DEF Next

\* An append without a problem earns FINISHED, unless the session was stopped.
LEMMA AppendEarns ==
    ASSUME Kept, Accounts, Earned, AppendLine, ~error'
    PROVE  stopRequested' \/ Done(ledger', run'.session)
  <1>1. ledger' = Append(ledger, NewLine) /\ error' = result.problems /\ UNCHANGED run
    BY DEF AppendLine
  <1>2. ~interrupted => LineStatus = "ok"
    BY <1>1 DEF LineStatus
  <1>3. LineStatus = "ok" => Done(ledger', run.session)
    BY <1>1, AppendKeeps, NewLineType DEF Accounts, AppendLine, Busy
  <1> QED
    BY <1>1, <1>2, <1>3 DEF AppendLine, Earned

\* No step reaches FINISHED without a line or a stop.
LEMMA NextEarned ==
    ASSUME Kept, Accounts, Earned, Next
    PROVE  Earned'
  <1> USE DEF Earned
  <1>u. ASSUME UNCHANGED <<ledger, run>>
        PROVE  Done(ledger, run.session)' = Done(ledger, run.session)
    BY <1>u DEF Done
  <1>1. ASSUME NEW s \in Sess, Start(s) PROVE Earned'
    BY <1>1 DEF Start
  <1>2. CASE Stop
    BY <1>2, <1>u, StopKeeps DEF Stop, Kept
  <1>3. CASE Shutdown
    BY <1>3, <1>u, StopKeeps DEF Shutdown, Kept
  <1>4. CASE Restart
    BY <1>4 DEF Restart
  <1>5. CASE Spawn
    BY <1>5, <1>u DEF Spawn
  <1>6. CASE RecorderGone
    BY <1>6, <1>u DEF RecorderGone
  <1>7. CASE VerifyRun
    BY <1>7, <1>u DEF VerifyRun, Verify
  <1>8. CASE AppendLine
    BY <1>8, AppendEarns DEF AppendLine
  <1>9. CASE ReleaseArms \/ Publish \/ WorkerEnds
    BY <1>9, <1>u DEF ReleaseArms, Publish, WorkerEnds
  <1>10. CASE RecorderStep(Server) /\ UNCHANGED <<svcVars, arms>>
    BY <1>10, <1>u, RecorderKeeps, ServerOwners DEF svcVars, Kept
  <1>11. CASE (OtherTakes \/ OtherReleases) /\ UNCHANGED svcVars
    BY <1>11, <1>u DEF OtherTakes, OtherReleases, diskVars, svcVars
  <1>12. CASE Death
    BY <1>12 DEF Death, Reborn
  <1> QED
    BY <1>1, <1>2, <1>3, <1>4, <1>5, <1>6, <1>7, <1>8, <1>9, <1>10, <1>11, <1>12 DEF Next

\* Nor does a stuttering step.
LEMMA StutterKInv == ASSUME KInv, UNCHANGED vars PROVE KInv'
  BY DEF KInv, Kept, Accounts, Earned, vars, Running, LedgerChains, Expected, Done

\* The inductive invariant holds in every behaviour of the web recorder.
THEOREM Invariance == Spec => []KInv
  <1>1. KInv /\ [Next]_vars => KInv'
    BY NextKept, NextAccounts, NextEarned, StutterKInv DEF KInv
  <1> QED
    BY InitKInv, <1>1, PTL DEF Spec

\* "Keep ownership until the recording process has exited" (collection.py:390):
\* while the service's recorder has the ports, the service has the lock.
THEOREM ArmsKept == Spec => []ArmsKeptWhileRecording
  <1>1. KInv => ArmsKeptWhileRecording
    BY DEF KInv, Kept, ArmsKeptWhileRecording, Busy
  <1> QED
    BY <1>1, Invariance, PTL

\* Each line of the ledger starts at the episode count where the one before it
\* ended (check_state), whatever stops, failed appends and deaths come between.
THEOREM LedgerJoins == Spec => []LedgerChains
  <1>1. KInv => LedgerChains
    BY DEF KInv, Accounts
  <1> QED
    BY <1>1, Invariance, PTL

\* A session that ends FINISHED without a stop has its ok line, even when a
\* server died alone before and left its recorder running.
THEOREM FinishedRecorded == Spec => []FinishedMeansRecorded
  <1>1. KInv => FinishedMeansRecorded
    BY DEF KInv, Earned, FinishedMeansRecorded
  <1> QED
    BY <1>1, Invariance, PTL

-------------------------------------------------------------------------------
\* An empty ledger and no dataset agree.
LEMMA InitAgreed == Init => Agreed
  BY ServerOwners DEF Init, DiskInit, ServiceInit, Agreed, Running

\* Only the dataset and the ledger decide whether they agree.
LEMMA SameAgreement ==
    ASSUME UNCHANGED <<dataset, ledger>>
    PROVE  Disagree(ledger)' = Disagree(ledger)
  BY DEF Disagree, Episodes, Expected

\* With no orphan, nothing makes them disagree once FINISHED is in sight.
LEMMA NextAgreed ==
    ASSUME "server" \notin Deaths, KInv, Agreed, Next
    PROVE  Agreed'
  <1> USE ServerOwners DEF Agreed, Server
  <1>1. ASSUME NEW s \in Sess, Start(s) PROVE Agreed'
    BY <1>1, SameAgreement DEF Start, Recordable, Running, KInv, Earned
  <1>2. CASE Stop
    BY <1>2, SameAgreement, StopKeeps DEF Stop, KInv, Kept
  <1>3. CASE Shutdown
    BY <1>3, SameAgreement, StopKeeps DEF Shutdown, KInv, Kept
  <1>4. CASE Restart
    BY <1>4 DEF Restart, Running, KInv, Kept
  <1>5. CASE Spawn
    BY <1>5, SameAgreement DEF Spawn, Running, KInv, Kept, Earned
  <1>6. CASE RecorderGone
    BY <1>6 DEF RecorderGone, Running
  <1>7. CASE VerifyRun
    BY <1>7, SameAgreement DEF VerifyRun, Running, Verify, Count, KInv, Accounts, Earned
  <1>8. CASE AppendLine
    <2>1. ASSUME ~error'
          PROVE  ledger' = Append(ledger, NewLine) /\ ~result.problems /\ UNCHANGED dataset
      BY <1>8, <2>1 DEF AppendLine
    <2>2. ASSUME ~error' PROVE ~Disagree(ledger)'
      <3>1. Expected(ledger') = result.after
        BY <1>8, <2>1, <2>2, AppendKeeps, NewLineType DEF AppendLine, KInv, Accounts, Busy
      <3> QED
        BY <1>8, <2>1, <2>2, <3>1 DEF AppendLine, Disagree, Episodes
    <2> QED
      BY <1>8, <2>2 DEF AppendLine, Running, KInv, Earned
  <1>9. CASE ReleaseArms \/ Publish \/ WorkerEnds
    BY <1>9, SameAgreement DEF ReleaseArms, Publish, WorkerEnds, Running, KInv, Kept, Earned
  <1>10. CASE RecorderStep(Server) /\ UNCHANGED <<svcVars, arms>>
    BY <1>10, SameAgreement, RecorderKeeps, ServerOwners DEF svcVars, KInv, Kept, Earned
  <1>11. CASE (OtherTakes \/ OtherReleases) /\ UNCHANGED svcVars
    BY <1>11, SameAgreement DEF OtherTakes, OtherReleases, diskVars, svcVars, Running
  <1>12. CASE Death
    BY <1>12 DEF Death, Reborn, Running
  <1> QED
    BY <1>1, <1>2, <1>3, <1>4, <1>5, <1>6, <1>7, <1>8, <1>9, <1>10, <1>11, <1>12 DEF Next

\* Where no server dies without its recorder, FINISHED is to be believed: the
\* session has its ok line or was stopped, and the next start is not refused.
THEOREM FinishedTrue == ASSUME "server" \notin Deaths PROVE Spec => []FinishedIsTrue
  <1>1. (KInv /\ Agreed) /\ [Next]_vars => (KInv /\ Agreed)'
    <2>1. CASE Next
      BY <2>1, NextKept, NextAccounts, NextEarned, NextAgreed DEF KInv
    <2>2. CASE UNCHANGED vars
      BY <2>2, StutterKInv, SameAgreement DEF vars, Agreed, Running
    <2> QED
      BY <2>1, <2>2
  <1>2. KInv /\ Agreed => FinishedIsTrue
    BY DEF KInv, Earned, Agreed, FinishedIsTrue, FinishedMeansRecorded, FinishedAgrees
  <1> QED
    BY InitKInv, InitAgreed, <1>1, <1>2, PTL DEF Spec

-------------------------------------------------------------------------------
(* Sums.  Induction over numbers is stated of a set, which the provers take.   *)

\* A set with 0 that is closed under successor has every natural number.
LEMMA NatSets ==
    ASSUME NEW S, 0 \in S, \A n \in Nat : n \in S => n + 1 \in S
    PROVE  Nat \subseteq S
  <1> DEFINE T == {n \in Nat : n \notin S}
  <1>1. SUFFICES ASSUME T # {} PROVE FALSE
    OBVIOUS
  <1>2. T \subseteq Nat
    OBVIOUS
  <1>3. PICK x \in T : \A y \in T : <<y, x>> \notin OpToRel(<, Nat)
    <2> HIDE DEF T
    <2> QED
      BY <1>1, <1>2, NatLessThanWellFounded, WFMin
  <1>4. \A y \in T : ~(y < x)
    BY <1>3 DEF OpToRel
  <1>5. x \in Nat /\ x \notin S
    BY <1>3
  <1>6. x # 0 /\ x - 1 \in Nat /\ x - 1 < x /\ (x - 1) + 1 = x
    BY <1>5
  <1>7. x - 1 \notin T
    BY <1>4, <1>6
  <1> QED
    BY <1>5, <1>6, <1>7

\* The first n terms are the same; h[i] is the sum of f[1] to f[i], for i up to n.
Agree(f, g, n) == \A i \in 1..n : f[i] = g[i]
IsSum(h, f, n) == h = [i \in 0..n |-> IF i = 0 THEN 0 ELSE h[i - 1] + f[i]]

\* The function that SumTo is defined by exists.
LEMMA SumExists == ASSUME NEW f, NEW n \in Nat PROVE \E h : IsSum(h, f, n)
  <1> DEFINE S == {m \in Nat : \E h : IsSum(h, f, m)}
  <1>1. 0 \in S
    <2>1. IsSum([i \in 0..0 |-> 0], f, 0)
      BY DEF IsSum
    <2> QED
      BY <2>1
  <1>2. ASSUME NEW m \in Nat, m \in S PROVE m + 1 \in S
    <2>1. PICK h : IsSum(h, f, m)
      BY <1>2
    <2> DEFINE g == [i \in 0..(m + 1) |-> IF i = m + 1 THEN h[m] + f[m + 1] ELSE h[i]]
    <2>2. \A i \in 0..m : h[i] = IF i = 0 THEN 0 ELSE h[i - 1] + f[i]
      BY <2>1 DEF IsSum
    <2>3. \A i \in 0..(m + 1) : g[i] = IF i = 0 THEN 0 ELSE g[i - 1] + f[i]
      BY <2>2
    <2>4. IsSum(g, f, m + 1)
      BY <2>3 DEF IsSum
    <2> QED
      BY <2>4
  <1> HIDE DEF S
  <1>3. n \in S
    BY <1>1, <1>2, NatSets
  <1> QED
    BY <1>3 DEF S

\* So SumTo is what it says.
LEMMA SumIs == ASSUME NEW f, NEW n \in Nat PROVE \E h : IsSum(h, f, n) /\ SumTo(f, n) = h[n]
  <1> DEFINE h == CHOOSE upto : upto = [i \in 0..n |-> IF i = 0 THEN 0 ELSE upto[i - 1] + f[i]]
  <1>1. SumTo(f, n) = h[n]
    BY DEF SumTo
  <1>2. IsSum(h, f, n)
    BY SumExists, Zenon DEF IsSum
  <1> QED
    BY <1>1, <1>2

\* A sum depends on its terms alone.
LEMMA SumUnique ==
    ASSUME NEW f, NEW g, NEW n \in Nat, NEW m \in 0..n, Agree(f, g, m),
           NEW h, NEW k, IsSum(h, f, n), IsSum(k, g, m)
    PROVE  h[m] = k[m]
  <1> DEFINE S == {i \in Nat : i <= m => h[i] = k[i]}
  <1>0. /\ \A i \in 0..n : h[i] = IF i = 0 THEN 0 ELSE h[i - 1] + f[i]
        /\ \A i \in 0..m : k[i] = IF i = 0 THEN 0 ELSE k[i - 1] + g[i]
        /\ \A i \in 1..m : f[i] = g[i]
    BY DEF IsSum, Agree
  <1>1. 0 \in S
    BY <1>0
  <1>2. ASSUME NEW i \in Nat, i \in S PROVE i + 1 \in S
    BY <1>0, <1>2
  <1> HIDE DEF S
  <1>3. m \in S
    BY <1>1, <1>2, NatSets
  <1> QED
    BY <1>3 DEF S

\* One more term.
LEMMA SumStep ==
    ASSUME NEW f, NEW g, NEW n \in Nat, Agree(f, g, n)
    PROVE  SumTo(f, n + 1) = SumTo(g, n) + f[n + 1]
  <1> DEFINE up == n + 1
  <1>0. up \in Nat /\ n \in 0..up /\ up \in 0..up /\ up # 0 /\ up - 1 = n
    OBVIOUS
  <1> HIDE DEF up
  <1>1. PICK h : IsSum(h, f, up) /\ SumTo(f, up) = h[up]
    BY <1>0, SumIs
  <1>2. PICK k : IsSum(k, g, n) /\ SumTo(g, n) = k[n]
    BY SumIs
  <1>3. h[n] = k[n]
    BY <1>0, <1>1, <1>2, SumUnique
  <1>4. h[up] = h[n] + f[up]
    BY <1>0, <1>1 DEF IsSum
  <1> QED
    BY <1>1, <1>2, <1>3, <1>4 DEF up

\* A sum of natural numbers is one.
LEMMA SumNat ==
    ASSUME NEW f, NEW n \in Nat, \A i \in 1..n : f[i] \in Nat
    PROVE  SumTo(f, n) \in Nat
  <1>1. PICK h : IsSum(h, f, n) /\ SumTo(f, n) = h[n]
    BY SumIs
  <1> DEFINE S == {i \in Nat : i <= n => h[i] \in Nat}
  <1>2. \A i \in 0..n : h[i] = IF i = 0 THEN 0 ELSE h[i - 1] + f[i]
    BY <1>1 DEF IsSum
  <1>3. 0 \in S
    BY <1>2
  <1>4. ASSUME NEW i \in Nat, i \in S PROVE i + 1 \in S
    BY <1>2, <1>4
  <1> HIDE DEF S
  <1>5. n \in S
    BY <1>3, <1>4, NatSets
  <1> QED
    BY <1>1, <1>5 DEF S

\* What a session has recorded by an empty ledger, and by one more line.
LEMMA RecordedEmpty == \A s : Recorded(<<>>, s) = 0
  <1> SUFFICES ASSUME NEW s PROVE SumTo(Gains(<<>>, s), 0) = 0
    BY DEF Recorded
  <1> QED
    BY SumIs DEF IsSum

\* One line more adds its episodes to its session and to no other.
LEMMA RecordedAppend ==
    ASSUME NEW lines \in Seq(Line), NEW line \in Line
    PROVE  \A s : /\ Recorded(lines, s) \in Nat /\ Gain(line) \in Nat
                  /\ Recorded(Append(lines, line), s) =
                        Recorded(lines, s) + (IF line.session = s THEN Gain(line) ELSE 0)
  <1> SUFFICES ASSUME NEW s
               PROVE  /\ Recorded(lines, s) \in Nat /\ Gain(line) \in Nat
                      /\ Recorded(Append(lines, line), s) =
                            Recorded(lines, s) + (IF line.session = s THEN Gain(line) ELSE 0)
    OBVIOUS
  <1> DEFINE n == Len(lines)
             more == Append(lines, line)
  <1>0. /\ n \in Nat /\ DOMAIN lines = 1..n /\ Len(more) = n + 1 /\ DOMAIN more = 1..(n + 1)
        /\ more[n + 1] = line /\ \A i \in 1..n : more[i] = lines[i] /\ lines[i] \in Line
    OBVIOUS
  <1>1. \A l \in Line : Gain(l) \in Nat
    BY LedgerAssumption DEF Gain, Line
  <1>2. \A i \in 1..n : Gains(lines, s)[i] \in Nat
    BY <1>0, <1>1 DEF Gains
  <1>3. Agree(Gains(more, s), Gains(lines, s), n)
    BY <1>0 DEF Gains, Agree
  <1>4. Gains(more, s)[n + 1] = IF line.session = s THEN Gain(line) ELSE 0
    BY <1>0 DEF Gains
  <1> HIDE DEF more
  <1>5. SumTo(Gains(more, s), n + 1) = SumTo(Gains(lines, s), n) + Gains(more, s)[n + 1]
    BY <1>0, <1>3, SumStep
  <1>6. SumTo(Gains(lines, s), n) \in Nat
    BY <1>0, <1>2, SumNat
  <1> QED
    BY <1>0, <1>1, <1>4, <1>5, <1>6 DEF Recorded, more

\* Whatever the ledger holds.
LEMMA RecordedIsNat == \A lines \in Seq(Line) : \A s : Recorded(lines, s) \in Nat
  <1> SUFFICES ASSUME NEW lines \in Seq(Line), NEW s PROVE Recorded(lines, s) \in Nat
    OBVIOUS
  <1>1. \A l \in Line : Gain(l) \in Nat
    BY LedgerAssumption DEF Gain, Line
  <1>2. \A i \in 1..Len(lines) : Gains(lines, s)[i] \in Nat
    BY <1>1 DEF Gains
  <1> QED
    BY <1>2, SumNat DEF Recorded

-------------------------------------------------------------------------------
(* Types.                                                                       *)

\* The sessions of a plan are numbers from 1.
LEMMA Sessions == Sess \subseteq Nat /\ 1 \in Sess /\ IsFiniteSet(Sess)
  <1>1. Cardinality(Sess) \in Nat
    BY LedgerAssumption, FS_CardinalityType
  <1> QED
    BY <1>1, LedgerAssumption

\* A recorder's step keeps the kinds of what is on disk and of its own process.
LEMMA RecorderTypes ==
    ASSUME DiskTypeOK, NEW owners \in SUBSET Owner, RecorderStep(owners)
    PROVE  DiskTypeOK'
  <1>1. PICK o \in owners :
            RecorderOpens(o) \/ RecorderSaves(o) \/ RecorderFails(o) \/ RecorderExits(o)
    BY DEF RecorderStep
  <1>2. o \in Owner /\ recs[o] \in RecProc
    BY <1>1
       DEF DiskTypeOK, RecorderOpens, RecorderSaves, RecorderFails, RecorderExits, Running
  <1>3. UNCHANGED ledger
    BY <1>1 DEF RecorderOpens, RecorderSaves, RecorderFails, RecorderExits
  <1> DEFINE p == recs[o]
  <1>4. \E q \in RecProc : recs' = [recs EXCEPT ![o] = q]
    <2>1. CASE RecorderOpens(o)
      <3>1. recs' = [recs EXCEPT ![o] = [p EXCEPT !.opened = TRUE]]
        BY <2>1 DEF RecorderOpens
      <3> QED
        BY <1>2, <3>1 DEF RecProc
    <2>2. CASE RecorderSaves(o)
      <3>1. recs' = [recs EXCEPT ![o] = [p EXCEPT !.saved = @ + 1]]
        BY <2>2 DEF RecorderSaves
      <3>2. [p EXCEPT !.saved = @ + 1] \in RecProc
        <4>1. p \in RecProc
          BY <1>2
        <4> HIDE DEF p
        <4> QED
          BY <4>1 DEF RecProc
      <3> QED
        BY <3>1, <3>2
    <2>3. CASE RecorderFails(o) \/ RecorderExits(o)
      <3>1. PICK k \in {0, 1, 130} : recs' = [recs EXCEPT ![o].exited = TRUE, ![o].code = k]
        BY <2>3 DEF RecorderFails, RecorderExits
      <3>2. recs' = [recs EXCEPT ![o] = [p EXCEPT !.exited = TRUE, !.code = k]]
        BY <1>2, <3>1 DEF DiskTypeOK
      <3> QED
        BY <1>2, <3>2 DEF RecProc
    <2> QED
      BY <1>1, <2>1, <2>2, <2>3
  <1>5. dataset' \in [root : BOOLEAN, info : BOOLEAN, episodes : Nat]
    <2>1. DOMAIN recs = Owner /\ dataset \in [root : BOOLEAN, info : BOOLEAN, episodes : Nat]
      BY DEF DiskTypeOK
    <2> QED
      BY <2>1, RecorderKeeps
  <1>6. made' \in [Sess -> Nat]
    BY <1>1, <1>2
       DEF DiskTypeOK, RecProc, RecorderOpens, RecorderSaves, RecorderFails, RecorderExits
  <1> QED
    BY <1>2, <1>3, <1>4, <1>5, <1>6 DEF DiskTypeOK

\* The recorder that is started is asked for at least one episode.
Kinds ==
    /\ TypeOK
    /\ worker = "spawn" => run.want # 0

\* A start has something left to record.
LEMMA StartKinds ==
    ASSUME Kinds, NEW s \in Sess, Start(s)
    PROVE  Kinds'
  <1>0. UNCHANGED <<dataset, ledger, recs, made, closing>> /\ DiskTypeOK
    BY DEF Start, Kinds, TypeOK
  <1>1. DiskTypeOK'
    BY <1>0 DEF DiskTypeOK
  <1>2. CASE worker' # "spawn"
    BY <1>0, <1>1, <1>2 DEF Start, Kinds, TypeOK, Phases, NoResult
  <1>3. CASE worker' = "spawn"
    <2> DEFINE resume == Count # None
    <2>a. resume \in BOOLEAN
      OBVIOUS
    <2>b. /\ Recordable(ledger, s) /\ phase' = "starting" /\ stopRequested' = FALSE
          /\ arms' = "collection" /\ error' = FALSE
          /\ run' = [session |-> s, before |-> Episodes, want |-> Remaining(ledger, s),
                     resume |-> resume]
      BY <1>3, Zenon DEF Start
    <2> HIDE DEF resume
    <2>1. Remaining(ledger, s) \in Nat \ {0}
      BY <1>0, <2>b, RecordedIsNat, LedgerAssumption
         DEF Recordable, Exhausted, Remaining, DiskTypeOK
    <2>2. Episodes \in Nat
      BY <1>0 DEF Episodes, DiskTypeOK
    <2> QED
      BY <1>0, <1>1, <1>3, <2>a, <2>b, <2>1, <2>2
         DEF Start, Kinds, TypeOK, Phases, WorkerSteps, NoResult
  <1> QED
    BY <1>2, <1>3

\* Every step of the service keeps the kinds of its variables.
LEMMA NextKinds ==
    ASSUME Kinds, Next
    PROVE  Kinds'
  <1> USE DEF Kinds, TypeOK, Phases, WorkerSteps
  <1>u. ASSUME UNCHANGED <<dataset, ledger, made>>, recs' \in [Owner -> RecProc \cup {NoProc}]
        PROVE  DiskTypeOK'
    BY <1>u DEF DiskTypeOK
  <1>s. ASSUME StopEffect
        PROVE  /\ recs' \in [Owner -> RecProc \cup {NoProc}] /\ phase' \in Phases
               /\ stopRequested' \in BOOLEAN
    <2>1. recs["service"] \in RecProc \cup {NoProc}
      BY ServerOwners DEF DiskTypeOK
    <2>2. Signalled(recs["service"]) \in RecProc \cup {NoProc}
      BY <2>1 DEF Signalled, RecProc
    <2> QED
      BY <1>s, <2>2 DEF StopEffect, DiskTypeOK
  <1>1. CASE Stop \/ Shutdown
    BY <1>1, <1>u, <1>s DEF Stop, Shutdown
  <1>2. CASE Restart
    BY <1>2, <1>u, Sessions DEF Restart, DiskTypeOK, NoRun, NoResult
  <1>3. CASE Spawn
    <2>1. worker' = "wait" =>
             Spawned(run.session, run.want, run.resume) \in RecProc
      BY <1>3 DEF Spawn, Spawned, RecProc
    <2> QED
      BY <1>3, <1>u, <2>1 DEF Spawn, DiskTypeOK
  <1>4. CASE RecorderGone
    BY <1>4, <1>u DEF RecorderGone, DiskTypeOK
  <1>5. CASE VerifyRun
    <2>1. Count \in Nat \cup {None}
      BY DEF Count, DiskTypeOK
    <2>2. result' \in [after : Nat \cup {None}, problems : BOOLEAN]
      BY <1>5, <2>1 DEF VerifyRun, Verify
    <2> QED
      BY <1>5, <1>u, <2>2 DEF VerifyRun, DiskTypeOK
  <1>6. CASE AppendLine
    <2>1. ledger' \in Seq(Line)
      BY <1>6, NewLineType DEF AppendLine, DiskTypeOK
    <2>2. DiskTypeOK'
      BY <1>6, <2>1 DEF AppendLine, DiskTypeOK
    <2> QED
      BY <1>6, <2>2 DEF AppendLine
  <1>7. CASE ReleaseArms \/ Publish \/ WorkerEnds
    BY <1>7, <1>u DEF ReleaseArms, Publish, WorkerEnds, DiskTypeOK
  <1>8. CASE RecorderStep(Server) /\ UNCHANGED <<svcVars, arms>>
    BY <1>8, RecorderTypes, ServerOwners DEF svcVars
  <1>9. CASE (OtherTakes \/ OtherReleases) /\ UNCHANGED svcVars
    BY <1>9, <1>u DEF OtherTakes, OtherReleases, diskVars, svcVars, DiskTypeOK
  <1>10. CASE Death
    <2>1. recs' \in [Owner -> RecProc \cup {NoProc}]
      BY <1>10, ServerOwners DEF Death, DiskTypeOK
    <2> QED
      BY <1>10, <1>u, <2>1, Sessions DEF Death, Reborn, NoRun, NoResult
  <1> QED
    BY <1>1, <1>2, <1>3, <1>4, <1>5, <1>6, <1>7, <1>8, <1>9, <1>10, StartKinds DEF Next

\* The types of the web recorder's variables hold in every behaviour.
THEOREM CollectionTypes == Spec => []TypeOK
  <1>1. Init => Kinds
    <2> SUFFICES ASSUME Init PROVE Kinds
      OBVIOUS
    <2>1. DiskTypeOK
      BY DEF Init, DiskInit, DiskTypeOK
    <2> QED
      BY <2>1, Sessions
         DEF Init, ServiceInit, Kinds, TypeOK, Phases, WorkerSteps, NoRun, NoResult
  <1>2. Kinds /\ [Next]_vars => Kinds'
    BY NextKinds DEF vars, Kinds, TypeOK, DiskTypeOK
  <1>3. Kinds => TypeOK
    BY DEF Kinds
  <1> QED
    BY <1>1, <1>2, <1>3, PTL DEF Spec

-------------------------------------------------------------------------------
(* The books: plan, ledger and dataset, whoever keeps them.  r is what a run    *)
(* was started with, p the recorder process that records it.                    *)

Disk ==
    /\ dataset \in [root : BOOLEAN, info : BOOLEAN, episodes : Nat]
    /\ ledger \in Seq(Line)

\* Nothing is over plan, and an ok line is the end of a session.
WithinPlan ==
    /\ made \in [Sess -> Nat]
    /\ NeverOverPlan /\ OkMeansComplete
    /\ ~dataset.info => dataset.episodes = 0

\* A session without an ok line, and all its episodes to come; r.before is where
\* the line to come will start.
Chosen(r) ==
    /\ r.session \in Sess /\ r.before \in Nat /\ r.want \in Nat \ {0} /\ r.resume \in BOOLEAN
    /\ r.before = Expected(ledger)
    /\ ~Done(ledger, r.session) /\ Remaining(ledger, r.session) = r.want

\* The session has saved episodes over the ledger, the others none.
Balanced(r, saved) ==
    \A s \in Sess : made[s] = Recorded(ledger, s) + (IF s = r.session THEN saved ELSE 0)

\* They are what its recorder saved.
Flight(r, p) ==
    /\ p \in RecProc /\ p.session = r.session /\ p.want = r.want
    /\ p.saved <= p.want /\ (p.saved > 0 => p.opened) /\ (p.opened => dataset.info)
    /\ Balanced(r, p.saved) /\ Episodes = r.before + p.saved

\* What stays the same when dataset, ledger and history do.
LEMMA SameBooks ==
    ASSUME UNCHANGED <<dataset, ledger, made>>
    PROVE  /\ Settled' <=> Settled
           /\ WithinPlan => WithinPlan'
           /\ Episodes' = Episodes /\ Count' = Count /\ Expected(ledger)' = Expected(ledger)
           /\ \A s : Done(ledger, s)' = Done(ledger, s)
           /\ \A s : Remaining(ledger, s)' = Remaining(ledger, s)
           /\ \A r, n : Balanced(r, n) => Balanced(r, n)'
           /\ \A r, p : Flight(r, p) => Flight(r, p)'
  <1>1. Episodes' = Episodes /\ Count' = Count /\ Expected(ledger)' = Expected(ledger)
    BY DEF Episodes, Count, Expected
  <1>2. Settled' <=> Settled
    BY <1>1, SameAgreement DEF Settled
  <1>3. WithinPlan => WithinPlan'
    BY DEF WithinPlan, NeverOverPlan, OkMeansComplete
  <1>4. \A r, n : Balanced(r, n) => Balanced(r, n)'
    BY DEF Balanced
  <1>5. \A r, p : Flight(r, p) => Flight(r, p)'
    BY <1>1, <1>4 DEF Flight
  <1> QED
    BY <1>1, <1>2, <1>3, <1>4, <1>5

\* Before anything is saved the ledger misses nothing.
LEMMA EmptySettles ==
    ASSUME Disk, NEW r, Balanced(r, 0)
    PROVE  \A s \in Sess : made[s] = Recorded(ledger, s)
  BY RecordedIsNat DEF Balanced, Disk

\* A recorder that saved something no line will tell of leaves a disagreement.
LEMMA FlightSettles ==
    ASSUME Disk, NEW r, Chosen(r), NEW p, Flight(r, p)
    PROVE  Settled
  <1>1. p.saved \in Nat /\ dataset.episodes \in Nat
    BY DEF Flight, RecProc, Disk
  <1>2. CASE p.saved = 0
    <2>1. Balanced(r, 0)
      BY <1>2 DEF Flight
    <2> QED
      BY <2>1, EmptySettles DEF Settled
  <1>3. CASE p.saved # 0
    BY <1>1, <1>3 DEF Flight, Chosen, Settled, Disagree, Episodes
  <1> QED
    BY <1>2, <1>3

\* A recorder starts with nothing saved.
LEMMA FlightStarts ==
    ASSUME NEW r, Chosen(r), Balanced(r, 0), Episodes = r.before,
           NEW p, p = Spawned(r.session, r.want, r.resume)
    PROVE  Flight(r, p)
  <1>1. p \in RecProc /\ p.session = r.session /\ p.want = r.want /\ p.saved = 0 /\ ~p.opened
    BY DEF Spawned, RecProc, Chosen
  <1> QED
    BY <1>1 DEF Flight, Chosen

\* One step of a recorder: it saves an episode, or does not.
Saved(p, q) ==
    /\ p.opened /\ p.saved < p.want
    /\ dataset' = [dataset EXCEPT !.episodes = @ + 1]
    /\ made' = [made EXCEPT ![p.session] = @ + 1]
    /\ q = [p EXCEPT !.saved = @ + 1]

Unsaved(p, q) ==
    /\ q \in RecProc /\ q.session = p.session /\ q.want = p.want /\ q.saved = p.saved
    /\ (p.opened => q.opened) /\ (q.opened => dataset'.info) /\ (dataset.info => dataset'.info)
    /\ dataset'.episodes = dataset.episodes /\ UNCHANGED made

\* It saves for the session under way, and never more than it was asked.
LEMMA FlightSteps ==
    ASSUME Disk, WithinPlan, NEW r, Chosen(r), NEW p, Flight(r, p), NEW q, UNCHANGED ledger,
           Saved(p, q) \/ Unsaved(p, q)
    PROVE  WithinPlan' /\ Flight(r, q)'
  <1>1. /\ p \in RecProc /\ p.session = r.session /\ p.want = r.want /\ p.saved <= p.want
        /\ (p.saved > 0 => p.opened) /\ (p.opened => dataset.info)
        /\ Balanced(r, p.saved) /\ Episodes = r.before + p.saved
    BY DEF Flight
  <1>2. /\ p.session \in Sess /\ p.want \in Nat \ {0} /\ p.saved \in Nat /\ r.before \in Nat
        /\ dataset \in [root : BOOLEAN, info : BOOLEAN, episodes : Nat]
    BY <1>1 DEF RecProc, Chosen, Disk
  <1>3. \A s \in Sess : Recorded(ledger, s) \in Nat
    BY RecordedIsNat DEF Disk
  <1>4. /\ \A s : Done(ledger', s) = Done(ledger, s)
        /\ \A s : Recorded(ledger', s) = Recorded(ledger, s)
    OBVIOUS
  <1>5. CASE Saved(p, q)
    <2>1. /\ p.opened /\ p.saved < p.want /\ dataset.info
          /\ dataset' = [dataset EXCEPT !.episodes = @ + 1]
          /\ q = [p EXCEPT !.saved = @ + 1]
          /\ made' = [made EXCEPT ![p.session] = @ + 1]
      BY <1>1, <1>5 DEF Saved
    <2>2. /\ q \in RecProc /\ q.session = p.session /\ q.want = p.want
          /\ q.saved = p.saved + 1 /\ q.opened
      BY <1>1, <1>2, <2>1 DEF RecProc
    <2>3. /\ made' \in [Sess -> Nat] /\ made'[p.session] = made[p.session] + 1
          /\ \A s \in Sess : s # p.session => made'[s] = made[s]
      BY <1>2, <2>1 DEF WithinPlan
    <2>4. Balanced(r, q.saved)'
      BY <1>1, <1>2, <1>3, <1>4, <2>2, <2>3 DEF Balanced
    <2>5. Episodes' = r.before + q.saved /\ dataset'.info
      BY <1>1, <1>2, <2>1, <2>2 DEF Episodes
    <2>6. made'[p.session] <= Planned[p.session]
      <3>1. Planned[p.session] - Recorded(ledger, p.session) = p.want
        BY <1>1 DEF Chosen, Remaining
      <3>2. made[p.session] = Recorded(ledger, p.session) + p.saved
        BY <1>1, <1>2 DEF Balanced
      <3> QED
        BY <1>2, <1>3, <2>1, <2>3, <3>1, <3>2, LedgerAssumption
    <2>7. NeverOverPlan'
      BY <2>3, <2>6 DEF WithinPlan, NeverOverPlan
    <2>8. OkMeansComplete'
      <3>1. ~Done(ledger, p.session)
        BY <1>1 DEF Chosen
      <3> QED
        BY <1>4, <2>3, <3>1 DEF WithinPlan, OkMeansComplete
    <2>9. WithinPlan'
      BY <2>3, <2>5, <2>7, <2>8 DEF WithinPlan
    <2> QED
      BY <1>1, <1>2, <2>1, <2>2, <2>4, <2>5, <2>9 DEF Flight
  <1>6. CASE Unsaved(p, q)
    <2>1. /\ q \in RecProc /\ q.session = p.session /\ q.want = p.want /\ q.saved = p.saved
          /\ (p.opened => q.opened) /\ (q.opened => dataset'.info)
          /\ (dataset.info => dataset'.info)
          /\ dataset'.episodes = dataset.episodes /\ UNCHANGED made
      BY <1>6 DEF Unsaved
    <2>2. Episodes' = Episodes /\ (~dataset'.info => dataset'.episodes = 0)
      BY <2>1 DEF Episodes, WithinPlan
    <2>3. WithinPlan'
      BY <1>4, <2>1, <2>2 DEF WithinPlan, NeverOverPlan, OkMeansComplete
    <2>4. Balanced(r, q.saved)'
      BY <1>1, <1>4, <2>1 DEF Balanced
    <2> QED
      BY <1>1, <1>2, <2>1, <2>2, <2>3, <2>4 DEF Flight
  <1> QED
    BY <1>5, <1>6

\* A line adds the session it is ok for, and no other.
LEMMA DoneAppend ==
    ASSUME NEW lines \in Seq(Line), NEW line \in Line
    PROVE  \A s : Done(Append(lines, line), s) <=>
                     Done(lines, s) \/ (line.session = s /\ line.status = "ok")
  <1> DEFINE more == Append(lines, line)
  <1>1. /\ DOMAIN lines = 1..Len(lines) /\ Len(lines) \in Nat
        /\ DOMAIN more = 1..(Len(lines) + 1) /\ more[Len(lines) + 1] = line
        /\ \A i \in 1..Len(lines) : more[i] = lines[i]
    OBVIOUS
  <1> QED
    BY <1>1 DEF Done

\* The line of a run accounts for all its recorder saved, and is ok only if that
\* is all it was asked for.
LEMMA LineSettles ==
    ASSUME Disk, WithinPlan, NEW r, Chosen(r), NEW p, Flight(r, p),
           NEW line \in Line, line.session = r.session, line.before = r.before,
           line.after = Count, line.status = "ok" => p.saved = r.want,
           ledger' = Append(ledger, line), UNCHANGED <<dataset, made>>
    PROVE  WithinPlan' /\ \A s \in Sess : made'[s] = Recorded(ledger', s)
  <1>1. /\ p.saved \in Nat /\ r.before \in Nat /\ r.want \in Nat /\ ledger \in Seq(Line)
        /\ dataset \in [root : BOOLEAN, info : BOOLEAN, episodes : Nat]
        /\ (p.saved > 0 => dataset.info) /\ Episodes = r.before + p.saved
        /\ \A s \in Sess : made[s] = Recorded(ledger, s)
                              + (IF s = r.session THEN p.saved ELSE 0)
    BY DEF Flight, RecProc, Balanced, Chosen, Disk
  <1>2. Gain(line) = p.saved
    BY <1>1, LedgerAssumption DEF Gain, Count, Episodes
  <1>3. \A s \in Sess : /\ Recorded(ledger, s) \in Nat
                        /\ Recorded(ledger', s) =
                              Recorded(ledger, s) + (IF s = r.session THEN p.saved ELSE 0)
    BY <1>1, <1>2, RecordedAppend
  <1>4. \A s \in Sess : made'[s] = Recorded(ledger', s)
    BY <1>1, <1>3
  <1>5. ASSUME NEW s \in Sess, Done(ledger', s)
        PROVE  Recorded(ledger', s) = Planned[s]
    <2>1. CASE Done(ledger, s)
      <3>1. s # r.session
        BY <2>1 DEF Chosen
      <3>2. Recorded(ledger, s) = Planned[s]
        BY <2>1 DEF WithinPlan, OkMeansComplete
      <3> QED
        BY <1>3, <3>1, <3>2
    <2>2. CASE s = r.session /\ line.status = "ok"
      <3>1. Planned[s] - Recorded(ledger, s) = r.want
        BY <2>2 DEF Chosen, Remaining
      <3> QED
        BY <1>1, <1>3, <2>2, <3>1, LedgerAssumption
    <2> QED
      BY <1>1, <1>5, <2>1, <2>2, DoneAppend
  <1>6. OkMeansComplete'
    BY <1>4, <1>5 DEF OkMeansComplete
  <1> QED
    BY <1>4, <1>6 DEF WithinPlan, NeverOverPlan

\* Where dataset and ledger agree, a session that is left over can be chosen.
LEMMA Choosable ==
    ASSUME Disk, Settled, ~Disagree(ledger), NEW s \in Sess, ~Exhausted(ledger, s),
           NEW resume \in BOOLEAN, NEW r,
           r = [session |-> s, before |-> Episodes, want |-> Remaining(ledger, s),
                resume |-> resume]
    PROVE  Chosen(r) /\ Balanced(r, 0)
  <1>1. /\ r.session = s /\ r.before = Episodes /\ r.want = Remaining(ledger, s)
        /\ r.resume = resume
    OBVIOUS
  <1>2. \A t \in Sess : made[t] = Recorded(ledger, t) /\ Recorded(ledger, t) \in Nat
    BY RecordedIsNat DEF Settled, Disk
  <1>3. ~Done(ledger, s) /\ Remaining(ledger, s) \in Nat \ {0}
    BY <1>2, LedgerAssumption DEF Exhausted, Remaining
  <1>4. Episodes \in Nat /\ Episodes = Expected(ledger)
    BY DEF Disk, Episodes, Disagree
  <1> QED
    BY <1>1, <1>2, <1>3, <1>4 DEF Chosen, Balanced

-------------------------------------------------------------------------------
(* The service's books.                                                         *)

\* Where the worker has chosen a session, and where its recorder may have saved.
InFlight == {"wait", "verify", "append"}
OnSession == {"spawn"} \cup InFlight

Underway ==
    /\ worker \in OnSession => Chosen(run)
    /\ worker = "spawn" => Balanced(run, 0) /\ Episodes = run.before
    /\ worker \in InFlight => Flight(run, recs["service"])
    /\ worker = "append" =>
          /\ result.after = Count
          /\ ~result.problems =>
                dataset.info /\ (~interrupted => Episodes - run.before = run.want)

Books ==
    /\ ~Running("orphan")
    /\ WithinPlan /\ Underway
    /\ worker \notin OnSession => Settled

\* At the start nothing is made and nothing is recorded.
LEMMA InitBooks == Init => Books
  <1> SUFFICES ASSUME Init PROVE Books
    OBVIOUS
  <1>1. ledger = <<>> /\ DOMAIN ledger = {} /\ worker = "none"
    BY DEF Init, DiskInit, ServiceInit
  <1>2. WithinPlan /\ ~Running("orphan")
    BY <1>1, LedgerAssumption, ServerOwners
       DEF WithinPlan, NeverOverPlan, OkMeansComplete, Done, Init, DiskInit, Running
  <1>3. Settled
    BY <1>1, RecordedEmpty DEF Settled, Init, DiskInit
  <1> QED
    BY <1>1, <1>2, <1>3 DEF Books, Underway, OnSession, InFlight

\* The disk is typed by the invariant of the worker.
LEMMA KInvDisk == KInv => Disk
  BY DEF KInv, Accounts, Disk

\* A start chooses a session that has episodes to come, when nothing is amiss.
LEMMA StartBooks ==
    ASSUME KInv, Books, NEW s \in Sess, Start(s)
    PROVE  Books'
  <1>0. UNCHANGED <<dataset, ledger, made, recs>> /\ ~Running("orphan")'
    BY DEF Start, Books, Running
  <1>1. WithinPlan' /\ Settled /\ Settled'
    BY <1>0, SameBooks DEF Books, Start, OnSession, InFlight
  <1>2. CASE worker' # "spawn"
    BY <1>0, <1>1, <1>2 DEF Start, Books, Underway, OnSession, InFlight
  <1>3. CASE worker' = "spawn"
    <2> DEFINE resume == Count # None
    <2>a. resume \in BOOLEAN
      OBVIOUS
    <2>b. /\ Recordable(ledger, s)
          /\ run' = [session |-> s, before |-> Episodes, want |-> Remaining(ledger, s),
                     resume |-> resume]
      BY <1>3, Zenon DEF Start, Books
    <2> HIDE DEF resume
    <2>1. PICK r : r = [session |-> s, before |-> Episodes, want |-> Remaining(ledger, s),
                        resume |-> resume] /\ run' = r
      BY <2>b
    <2>2. Chosen(r) /\ Balanced(r, 0)
      BY <1>1, <2>a, <2>b, <2>1, Choosable, KInvDisk DEF Recordable
    <2>3. Chosen(run)' /\ Balanced(run, 0)'
      BY <1>0, <2>1, <2>2, SameBooks DEF Chosen, Balanced
    <2>4. Episodes' = run'.before
      BY <1>0, <2>1, SameBooks
    <2> QED
      BY <1>0, <1>1, <1>3, <2>3, <2>4 DEF Books, Underway, OnSession, InFlight
  <1> QED
    BY <1>2, <1>3

\* What changes neither the books nor the worker's run, its recorder apart.
LEMMA KeepBooks ==
    ASSUME Books, ~Running("orphan")',
           UNCHANGED <<dataset, ledger, made, worker, run, interrupted, result>>,
           worker \in InFlight =>
              LET p == recs["service"]
                  q == recs'["service"]
              IN  UNCHANGED p \/ (q \in RecProc /\ q.session = p.session /\ q.want = p.want
                                  /\ q.saved = p.saved /\ q.opened = p.opened)
    PROVE  Books'
  <1>1. WithinPlan' /\ (Settled' <=> Settled)
    BY SameBooks DEF Books
  <1>2. ASSUME worker \in InFlight PROVE Flight(run, recs["service"])'
    <2>1. Flight(run, recs["service"])
      BY <1>2 DEF Books, Underway
    <2>2. \A n : Balanced(run, n) => Balanced(run, n)'
      BY DEF Balanced
    <2> QED
      BY <1>2, <2>1, <2>2, SameBooks DEF Flight
  <1>3. worker \in OnSession => Chosen(run)'
    BY SameBooks DEF Books, Underway, Chosen
  <1>4. worker = "spawn" => Balanced(run, 0)'
    BY DEF Books, Underway, Balanced
  <1> QED
    BY <1>1, <1>2, <1>3, <1>4, SameBooks DEF Books, Underway

\* SIGINT changes nothing in the books.
LEMMA StopBooks ==
    ASSUME KInv, Books, StopEffect,
           UNCHANGED <<dataset, ledger, made, worker, run, interrupted, result>>
    PROVE  Books'
  <1>0. ~Running("orphan")'
    BY StopKeeps, ServerOwners DEF KInv, Kept, Books
  <1>1. \/ recs'["service"] = recs["service"]
        \/ recs'["service"] = [recs["service"] EXCEPT !.signalled = TRUE]
    BY ServerOwners DEF StopEffect, Signalled, KInv, Kept
  <1>2. worker \in InFlight => recs["service"] \in RecProc
    BY DEF Books, Underway, Flight
  <1> QED
    BY <1>0, <1>1, <1>2, KeepBooks DEF RecProc

\* The recorder starts with nothing saved, or does not start.
LEMMA SpawnBooks ==
    ASSUME KInv, Books, Spawn
    PROVE  Books'
  <1>0. UNCHANGED <<dataset, ledger, made, run>> /\ ~Running("orphan")' /\ worker = "spawn"
    BY ServerOwners DEF Spawn, Books, Running, KInv, Kept
  <1>1. WithinPlan' /\ Balanced(run, 0) /\ Chosen(run) /\ Episodes = run.before
    BY <1>0, SameBooks DEF Books, Underway, OnSession
  <1>2. CASE worker' = "release"
    <2>1. Settled
      BY <1>1, EmptySettles, KInvDisk DEF Settled
    <2>2. Settled'
      BY <1>0, <2>1, SameBooks
    <2> QED
      BY <1>0, <1>1, <1>2, <2>2 DEF Books, Underway, OnSession, InFlight
  <1>3. CASE worker' = "wait"
    <2>1. recs'["service"] = Spawned(run.session, run.want, run.resume)
      BY <1>0, <1>3, ServerOwners DEF Spawn, KInv, Kept
    <2>2. PICK r, p : r = run /\ p = Spawned(r.session, r.want, r.resume)
      OBVIOUS
    <2>3. Flight(r, p)
      BY <1>1, <2>2, FlightStarts
    <2>4. Flight(r, p)'
      BY <1>0, <2>3, SameBooks
    <2>5. Flight(run, recs["service"])'
      BY <1>0, <2>1, <2>2, <2>4 DEF Flight, Balanced
    <2>6. Chosen(run)'
      BY <1>0, <1>1, SameBooks DEF Chosen
    <2> QED
      BY <1>0, <1>1, <1>3, <2>5, <2>6 DEF Books, Underway, OnSession, InFlight
  <1> QED
    BY <1>0, <1>2, <1>3 DEF Spawn

\* A recorder's step is one of the two kinds.
LEMMA RecorderKinds ==
    ASSUME Disk, NEW o \in DOMAIN recs, recs[o] \in RecProc,
           recs[o].opened => dataset.info,
           RecorderOpens(o) \/ RecorderSaves(o) \/ RecorderFails(o) \/ RecorderExits(o)
    PROVE  /\ UNCHANGED ledger
           /\ Saved(recs[o], recs'[o]) \/ Unsaved(recs[o], recs'[o])
  <1> DEFINE p == recs[o]
             q == recs'[o]
  <1>1. CASE RecorderSaves(o)
    BY <1>1 DEF RecorderSaves, Saved
  <1>2. CASE RecorderOpens(o)
    <2>1. q = [p EXCEPT !.opened = TRUE]
      BY <1>2 DEF RecorderOpens
    <2>2. /\ dataset' = [dataset EXCEPT !.root = TRUE, !.info = TRUE] /\ UNCHANGED <<ledger, made>>
      BY <1>2 DEF RecorderOpens
    <2> QED
      BY <2>1, <2>2 DEF RecProc, Disk, Unsaved
  <1>3. CASE RecorderFails(o)
    <2>1. \E k \in {1, 130} : q = [p EXCEPT !.exited = TRUE, !.code = k]
      BY <1>3 DEF RecorderFails
    <2>2. /\ UNCHANGED <<ledger, made>> /\ ~p.opened
          /\ UNCHANGED dataset \/ dataset' = [dataset EXCEPT !.root = TRUE]
      BY <1>3 DEF RecorderFails, LeavesRoot
    <2>3. /\ q \in RecProc /\ q.session = p.session /\ q.want = p.want /\ q.saved = p.saved
          /\ q.opened = p.opened
      <3>1. PICK k \in {1, 130} : q = [p EXCEPT !.exited = TRUE, !.code = k]
        BY <2>1
      <3>2. p \in RecProc
        OBVIOUS
      <3> HIDE DEF p, q
      <3> QED
        BY <3>1, <3>2 DEF RecProc
    <2>4. dataset'.info = dataset.info /\ dataset'.episodes = dataset.episodes
      BY <2>2 DEF Disk
    <2> QED
      BY <2>2, <2>3, <2>4 DEF Unsaved
  <1>4. CASE RecorderExits(o)
    <2>1. PICK c \in {0, IF p.signalled THEN 130 ELSE 1} :
             recs' = [recs EXCEPT ![o].exited = TRUE, ![o].code = c]
      BY <1>4 DEF RecorderExits
    <2>2. q = [p EXCEPT !.exited = TRUE, !.code = c] /\ c \in {0, 1, 130}
      BY <2>1
    <2>3. UNCHANGED <<dataset, ledger, made>>
      BY <1>4 DEF RecorderExits
    <2> QED
      BY <2>2, <2>3 DEF RecProc, Unsaved
  <1> QED
    BY <1>1, <1>2, <1>3, <1>4

\* The recorder saves for the session under way, and never more than it was asked.
LEMMA RecorderBooks ==
    ASSUME KInv, Books, RecorderStep(Server), UNCHANGED <<svcVars, arms>>
    PROVE  Books'
  <1>1. PICK o \in Server :
            RecorderOpens(o) \/ RecorderSaves(o) \/ RecorderFails(o) \/ RecorderExits(o)
    BY DEF RecorderStep
  <1>2. o = "service" /\ Running("service") /\ worker = "wait"
    BY <1>1, ServerOwners
       DEF RecorderOpens, RecorderSaves, RecorderFails, RecorderExits, Books, KInv, Kept, Server
  <1>3. /\ DOMAIN recs = Owner /\ "service" \in Owner /\ UNCHANGED <<ledger, run, worker>>
        /\ ~Running("orphan")'
    BY RecorderKeeps, ServerOwners DEF KInv, Kept, Books, svcVars
  <1>4. PICK r, p, q : r = run /\ p = recs["service"] /\ q = recs'["service"]
    OBVIOUS
  <1>5. Chosen(r) /\ Flight(r, p) /\ WithinPlan /\ Disk
    BY <1>2, <1>4, KInvDisk DEF Books, Underway, InFlight, OnSession
  <1>6. Saved(p, q) \/ Unsaved(p, q)
    BY <1>1, <1>2, <1>3, <1>4, <1>5, RecorderKinds DEF Flight
  <1>7. WithinPlan' /\ Flight(r, q)'
    BY <1>3, <1>5, <1>6, FlightSteps
  <1>8. Flight(run, recs["service"])'
    BY <1>3, <1>4, <1>7 DEF Flight, Balanced
  <1>9. Chosen(run)'
    BY <1>3, <1>4, <1>5 DEF Chosen, Expected, Remaining
  <1> QED
    BY <1>2, <1>3, <1>7, <1>8, <1>9 DEF Books, Underway, OnSession, InFlight

\* Waiting for the recorder and counting what it left changes nothing.
LEMMA WaitBooks ==
    ASSUME KInv, Books, RecorderGone \/ VerifyRun
    PROVE  Books'
  <1>0. /\ UNCHANGED <<dataset, ledger, made, run, recs>> /\ ~Running("orphan")'
        /\ worker \in InFlight /\ worker' \in InFlight
    BY DEF RecorderGone, VerifyRun, Books, Running, InFlight
  <1>1. WithinPlan' /\ Flight(run, recs["service"]) /\ Chosen(run)
    BY <1>0, SameBooks DEF Books, Underway, OnSession
  <1>2. Flight(run, recs["service"])' /\ Chosen(run)'
    BY <1>0, <1>1, SameBooks DEF Flight, Balanced, Chosen
  <1>3. ASSUME worker' = "append"
        PROVE  /\ result'.after = Count'
               /\ ~result'.problems =>
                     dataset'.info /\ (~interrupted' => Episodes' - run'.before = run'.want)
    <2>1. /\ VerifyRun /\ Count' = Count /\ Episodes' = Episodes /\ interrupted' = interrupted
          /\ interrupted \in BOOLEAN
      BY <1>0, <1>3, SameBooks DEF RecorderGone, VerifyRun, KInv, Earned
    <2>2. PICK tasksOk \in BOOLEAN :
             result' = Verify(run.before, run.want, recs["service"].code, interrupted, tasksOk)
      BY <2>1 DEF VerifyRun
    <2>3. result'.after = Count
      BY <2>2 DEF Verify
    <2>4. ASSUME ~result'.problems
          PROVE  dataset.info /\ (~interrupted => Count - run.before = run.want)
      BY <2>2, <2>4, LedgerAssumption DEF Verify, Count
    <2> QED
      BY <1>0, <2>1, <2>3, <2>4 DEF Count, Episodes
  <1> QED
    BY <1>0, <1>1, <1>2, <1>3, SameBooks DEF Books, Underway, OnSession, InFlight

\* The line accounts for all the recorder saved; without it dataset and ledger
\* disagree if it saved anything.
LEMMA AppendBooks ==
    ASSUME KInv, Books, AppendLine
    PROVE  Books'
  <1>0. /\ UNCHANGED <<dataset, made, run, recs>> /\ ~Running("orphan")'
        /\ worker = "append" /\ worker' = "release"
    BY DEF AppendLine, Books, Running
  <1>1. PICK r, p : r = run /\ p = recs["service"]
    OBVIOUS
  <1>2. Chosen(r) /\ Flight(r, p) /\ WithinPlan /\ Disk /\ result.after = Count
    BY <1>0, <1>1, KInvDisk DEF Books, Underway, InFlight, OnSession
  <1>3. CASE UNCHANGED ledger
    <2>1. Settled
      BY <1>2, FlightSettles
    <2> QED
      BY <2>1, <1>0, <1>2, <1>3, SameBooks DEF Books, Underway, OnSession, InFlight
  <1>4. CASE ledger' = Append(ledger, NewLine)
    <2>1. PICK line : line = NewLine
      OBVIOUS
    <2>2. /\ line \in Line /\ line.session = r.session /\ line.before = r.before
          /\ line.after = Count /\ line.status = LineStatus
      BY <1>0, <1>1, <1>2, <2>1, NewLineType DEF NewLine, KInv, Accounts, Busy
    <2>3. ASSUME LineStatus = "ok" PROVE p.saved = r.want
      <3>1. ~result.problems /\ ~(interrupted /\ Added < run.want)
        BY <2>3 DEF LineStatus
      <3>2. dataset.info /\ (~interrupted => Episodes - run.before = run.want)
        BY <1>0, <3>1 DEF Books, Underway
      <3>3. /\ p.saved \in Nat /\ p.saved <= r.want /\ r.want \in Nat /\ r.before \in Nat
            /\ Episodes = r.before + p.saved /\ dataset.episodes \in Nat
        BY <1>2 DEF Flight, RecProc, Chosen, Disk
      <3>4. interrupted => Added = p.saved
        BY <1>1, <1>2, <3>2, <3>3, LedgerAssumption DEF Added, Count, Episodes
      <3>5. CASE interrupted
        BY <1>1, <3>1, <3>3, <3>4, <3>5
      <3>6. CASE ~interrupted
        BY <1>1, <3>2, <3>3, <3>6
      <3> QED
        BY <3>5, <3>6
    <2>4. WithinPlan' /\ \A s \in Sess : made'[s] = Recorded(ledger', s)
      BY <1>0, <1>2, <1>4, <2>1, <2>2, <2>3, LineSettles
    <2> QED
      BY <1>0, <2>4 DEF Books, Underway, OnSession, InFlight, Settled
  <1> QED
    BY <1>3, <1>4 DEF AppendLine

\* What follows the line leaves the books as they are.
LEMMA CloseBooks ==
    ASSUME KInv, Books, ReleaseArms \/ Publish \/ WorkerEnds \/ Restart
    PROVE  Books'
  <1>0. /\ UNCHANGED <<dataset, ledger, made>>
        /\ worker \notin OnSession /\ worker' \notin OnSession
        /\ ~Running("orphan")'
    BY ServerOwners DEF ReleaseArms, Publish, WorkerEnds, Restart, OnSession, InFlight,
           Books, Running, KInv, Kept
  <1> QED
    BY <1>0, SameBooks DEF Books, Underway, OnSession, InFlight

\* A death in the middle of a session leaves what a failed append leaves.
LEMMA DeathBooks ==
    ASSUME "server" \notin Deaths, KInv, Books, Death
    PROVE  Books'
  <1>0. UNCHANGED <<dataset, ledger, made>> /\ worker' = "none" /\ ~Running("orphan")'
    BY ServerOwners DEF Death, Reborn, Running
  <1>1. Settled
    <2>1. CASE worker \in InFlight
      <3>1. PICK r, p : r = run /\ p = recs["service"]
        OBVIOUS
      <3>2. Flight(r, p) /\ Chosen(r)
        BY <2>1, <3>1 DEF Books, Underway, OnSession
      <3> QED
        BY <3>2, FlightSettles, KInvDisk
    <2>2. CASE worker = "spawn"
      <3>1. PICK r : r = run
        OBVIOUS
      <3>2. Balanced(r, 0)
        BY <2>2, <3>1 DEF Books, Underway
      <3> QED
        BY <3>2, EmptySettles, KInvDisk DEF Settled
    <2> QED
      BY <2>1, <2>2 DEF Books, OnSession
  <1> QED
    BY <1>0, <1>1, SameBooks DEF Books, Underway, OnSession, InFlight

\* Nor do a stuttering step and the other sessions touch them.
LEMMA OtherBooks ==
    ASSUME Books, UNCHANGED <<diskVars, svcVars>>
    PROVE  Books'
  <1>1. UNCHANGED <<dataset, ledger, made, recs, run, worker, result, interrupted>>
        /\ ~Running("orphan")'
    BY DEF diskVars, svcVars, Books, Running
  <1> QED
    BY <1>1, KeepBooks

\* Every step keeps the books, while no server dies alone.
LEMMA NextBooks ==
    ASSUME "server" \notin Deaths, KInv, Books, [Next]_vars
    PROVE  Books'
  <1>1. CASE UNCHANGED vars \/ ((OtherTakes \/ OtherReleases) /\ UNCHANGED svcVars)
    BY <1>1, OtherBooks DEF vars, OtherTakes, OtherReleases, diskVars, svcVars
  <1>2. CASE Stop \/ Shutdown
    BY <1>2, StopBooks DEF Stop, Shutdown
  <1> QED
    BY <1>1, <1>2, StartBooks, SpawnBooks, RecorderBooks, WaitBooks, AppendBooks, CloseBooks,
       DeathBooks DEF Next

\* Where no server dies without its recorder: no session gets more episodes than
\* the plan asks for, an ok line means the session is complete on disk, the lines
\* join up, and once no recording has the arms an episode without a line shows as a
\* disagreement that refuses every later start - whatever is stopped, fails to
\* append or loses power, and however often.
THEOREM LedgerIsSound == ASSUME "server" \notin Deaths PROVE Spec => []LedgerSound
  <1>1. (KInv /\ Books) /\ [Next]_vars => (KInv /\ Books)'
    BY NextKept, NextAccounts, NextEarned, StutterKInv, NextBooks DEF KInv
  <1>2. KInv /\ Books => LedgerSound
    BY DEF KInv, Kept, Busy, Accounts, Books, OnSession, InFlight, WithinPlan, LedgerSound,
           NothingPassedOver
  <1> QED
    BY InitKInv, InitBooks, <1>1, <1>2, PTL DEF Spec

-------------------------------------------------------------------------------
(* The command lines: any number of them, on one dataset.  CollectCli extends   *)
(* the same ledger as Collection, so its rules are the ones above.              *)

\* The locals of a command line.
CliRun == [session : Sess, before : Nat, want : Nat, resume : BOOLEAN]
CliResult == [after : Nat \cup {None}, problems : BOOLEAN]
Locals == [pc : Steps, mode : Modes, lines : Seq(Line), queue : Seq(Sess),
           run : CliRun, interrupted : BOOLEAN, result : CliResult]

CliTyped ==
    /\ dataset \in [root : BOOLEAN, info : BOOLEAN, episodes : Nat]
    /\ ledger \in Seq(Line)
    /\ cli \in [CommandLine -> Locals]
    /\ CommandLine \subseteq DOMAIN recs

\* Whatever comes before a queued session in the plan is done or queued before it.
Ahead(lines, queue) ==
    \A i \in DOMAIN queue : \A s \in Sess :
        s < queue[i] => Done(lines, s) \/ \E j \in 1..(i - 1) : queue[j] = s

\* Where its recorder is waited for.
Attending == {"spawned", "wait", "handler"}

\* The sessions before the one that is recorded are done.
Following(c) == \A s \in Sess : s < recs[c].session => Done(ledger, s)

\* A command line's own lines are in the ledger, and its recorder runs for the
\* head of its queue, or has been left to itself.
InOrder(c) ==
    /\ Running(c) =>
          /\ cli[c].pc \in Attending \cup {"leave", "off"} /\ recs[c] \in RecProc
          /\ cli[c].pc = "leave" /\ cli[c].mode # "number" => Following(c)
    /\ cli[c].pc \in Attending \cup {"prompt", "append"} =>
          /\ cli[c].queue # <<>> /\ cli[c].run.session = Head(cli[c].queue)
          /\ cli[c].run.want # 0
    /\ cli[c].pc \in Attending => recs[c] \in RecProc /\ recs[c].session = cli[c].run.session
    /\ \A s \in Sess : Done(cli[c].lines, s) => Done(ledger, s)
    /\ cli[c].mode # "number" => Ahead(cli[c].lines, cli[c].queue)

Ordered == CliTyped /\ \A c \in CommandLine : InOrder(c)

\* A set of sessions in plan order is a sequence of them all, smaller ones first.
LEMMA PlanOrdered ==
    ASSUME NEW S \in SUBSET Sess, NEW q \in InPlanOrder(S)
    PROVE  /\ q \in Seq(S)
           /\ \A s \in S : \E i \in DOMAIN q : q[i] = s
           /\ \A i, j \in DOMAIN q : i < j => q[i] < q[j]
  <1>1. Cardinality(S) \in Nat
    BY Sessions, FS_Subset, FS_CardinalityType
  <1>2. q \in [1..Cardinality(S) -> S]
    BY DEF InPlanOrder
  <1>3. q \in Seq(S)
    BY <1>1, <1>2
  <1> QED
    BY <1>3 DEF InPlanOrder

\* A queue passes over no session without an ok line.
LEMMA QueueOrder ==
    ASSUME NEW lines, NEW q \in Queues(lines)
    PROVE  /\ q.mode \in Modes /\ q.queue \in Seq(Sess)
           /\ q.mode # "number" => Ahead(lines, q.queue)
  <1> DEFINE undone == Undone(lines)
             first == {s \in undone : \A t \in undone : s <= t}
  <1>0. undone \subseteq Sess /\ \A s \in Sess : s \notin undone <=> Done(lines, s)
    BY DEF Undone
  <1> HIDE DEF undone
  <1>1. CASE \E u \in InPlanOrder(undone) : q = [mode |-> "remaining", queue |-> u]
    <2>1. PICK u \in InPlanOrder(undone) : q = [mode |-> "remaining", queue |-> u]
      BY <1>1
    <2>2. /\ u \in Seq(undone)
          /\ \A s \in undone : \E i \in DOMAIN u : u[i] = s
          /\ \A i, j \in DOMAIN u : i < j => u[i] < u[j]
      BY <1>0, PlanOrdered
    <2>3. u \in Seq(Sess)
      BY <1>0, <2>2
    <2>4. ASSUME NEW i \in DOMAIN u, NEW s \in Sess, s < u[i], ~Done(lines, s)
          PROVE  \E j \in 1..(i - 1) : u[j] = s
      <3>1. PICK j \in DOMAIN u : u[j] = s
        BY <1>0, <2>2, <2>4
      <3>a. DOMAIN u = 1..Len(u) /\ Len(u) \in Nat /\ u[i] \in Sess /\ u[j] \in Sess
        BY <2>3
      <3>b. i \in Nat /\ j \in Nat /\ j >= 1
        BY <3>a
      <3>2. i \in Nat /\ j \in Nat /\ u[i] \in Nat /\ u[j] \in Nat /\ j >= 1
        BY <3>a, <3>b, Sessions, Zenon
      <3>3. ~(i < j) /\ i # j
        BY <2>2, <2>4, <3>1, <3>2
      <3> QED
        BY <3>1, <3>2, <3>3
    <2> QED
      BY <2>1, <2>3, <2>4 DEF Ahead, Modes
  <1>2. CASE \E u \in InPlanOrder(first) : q = [mode |-> "next", queue |-> u]
    <2>1. PICK u \in InPlanOrder(first) : q = [mode |-> "next", queue |-> u]
      BY <1>2
    <2>2. u \in Seq(first)
      BY <1>0, PlanOrdered
    <2>3. u \in Seq(Sess)
      BY <1>0, <2>2
    <2>4. ASSUME NEW i \in DOMAIN u, NEW s \in Sess, s < u[i] PROVE Done(lines, s)
      <3>1. u[i] \in first
        BY <2>2
      <3>2. u[i] \in Nat /\ s \in Nat
        BY <1>0, <3>1, Sessions
      <3> QED
        BY <1>0, <2>4, <3>1, <3>2
    <2> QED
      BY <2>1, <2>3, <2>4 DEF Ahead, Modes
  <1>3. CASE \E s \in Sess : q = [mode |-> "number", queue |-> <<s>>]
    BY <1>3 DEF Modes
  <1> QED
    BY <1>1, <1>2, <1>3 DEF Queues, undone

\* With nothing running, everything is in order.
LEMMA CliOff ==
    /\ Off \in Locals
    /\ Off.pc = "off" /\ Off.lines = <<>> /\ Off.queue = <<>>
    /\ (\A s : ~Done(<<>>, s)) /\ \A lines : Ahead(lines, <<>>)
    /\ \A c : cli[c] = Off /\ recs[c] = NoProc => InOrder(c)
  <1>1. Off \in Locals
    BY Sessions DEF Off, NoRun, NoResult, Locals, CliRun, CliResult, Steps,
       Modes
  <1>2. \A s : ~Done(<<>>, s)
    BY DEF Done
  <1>3. \A lines : Ahead(lines, <<>>)
    BY DEF Ahead
  <1> QED
    BY <1>1, <1>2, <1>3 DEF InOrder, Off, Running, Attending

\* No command line runs at first.
LEMMA CliInit == CommandInit => Ordered
  <1> SUFFICES ASSUME CommandInit PROVE Ordered
    OBVIOUS
  <1>1. /\ \A c \in CommandLine : cli[c] = Off /\ recs[c] = NoProc
        /\ CommandLine \subseteq DOMAIN recs /\ cli = [c \in CommandLine |-> Off]
        /\ ledger = <<>> /\ dataset = [root |-> FALSE, info |-> FALSE, episodes |-> 0]
    BY DEF CommandInit, DiskInit, CommandLine
  <1>2. CliTyped
    BY <1>1, CliOff DEF CliTyped
  <1> QED
    BY <1>1, <1>2, CliOff DEF Ordered

\* What another command line does leaves this one in order.
LEMMA CliSame ==
    ASSUME NEW c, InOrder(c), cli'[c] = cli[c], recs'[c] = recs[c],
           \A s \in Sess : Done(ledger, s) => Done(ledger', s)
    PROVE  InOrder(c)'
  BY DEF InOrder, Running, Following

\* Which fields a step of a command line touches, others keep theirs.
LEMMA CliAlone ==
    ASSUME Ordered, NEW c \in CommandLine, InOrder(c)', CliTyped',
           \A d \in CommandLine \ {c} : cli'[d] = cli[d] /\ recs'[d] = recs[d],
           \A s \in Sess : Done(ledger, s) => Done(ledger', s)
    PROVE  Ordered'
  BY CliSame DEF Ordered

\* A launch queues what its copy of the ledger lacks.
LEMMA CliLaunch ==
    ASSUME Ordered, NEW c \in CommandLine, Launch(c)
    PROVE  Ordered'
  <1>1. PICK q \in Queues(ledger) :
            cli' = [cli EXCEPT ![c] = [Off EXCEPT !.pc = "lock", !.mode = q.mode,
                                                      !.queue = q.queue, !.lines = ledger]]
    BY DEF Launch
  <1>2. q.mode \in Modes /\ q.queue \in Seq(Sess)
        /\ (q.mode # "number" => Ahead(ledger, q.queue))
    BY QueueOrder
  <1>3. UNCHANGED <<ledger, dataset, recs>> /\ cli[c].pc = "off" /\ CliTyped /\ InOrder(c)
    BY DEF Launch, Ordered
  <1> DEFINE l == [Off EXCEPT !.pc = "lock", !.mode = q.mode,
                                  !.queue = q.queue, !.lines = ledger]
  <1>4. l \in Locals /\ l.pc = "lock" /\ l.mode = q.mode /\ l.queue = q.queue /\ l.lines = ledger
    BY <1>2, <1>3, CliOff DEF Locals, Steps, CliTyped
  <1>5. cli' = [cli EXCEPT ![c] = l]
    BY <1>1
  <1> HIDE DEF l
  <1>6. CliTyped' /\ cli'[c] = l /\ \A d \in CommandLine \ {c} : cli'[d] = cli[d]
    BY <1>3, <1>4, <1>5 DEF CliTyped
  <1>7. InOrder(c)'
    BY <1>2, <1>3, <1>4, <1>6 DEF InOrder, Running, Attending, Launch
  <1> QED
    BY <1>3, <1>6, <1>7, CliAlone

\* Taking the lock, and a press of Ctrl+C that is to be handled.
LEMMA CliMoves ==
    ASSUME Ordered, NEW c \in CommandLine, NEW step, Goto(c, step),
           UNCHANGED <<dataset, ledger, recs>>,
           \/ cli[c].pc = "lock" /\ step = "next"
           \/ cli[c].pc \in Attending /\ step \in {"wait", "handler"}
    PROVE  Ordered'
  <1>1. CliTyped /\ InOrder(c) /\ cli[c] \in Locals
    BY DEF Ordered, CliTyped
  <1>2. /\ cli'[c] = [cli[c] EXCEPT !.pc = step]
        /\ \A d \in CommandLine \ {c} : cli'[d] = cli[d]
    BY <1>1 DEF Goto, CliTyped
  <1>3. cli'[c] \in Locals
    BY <1>1, <1>2 DEF Locals, Steps, Attending
  <1>4. CliTyped'
    BY <1>1, <1>3 DEF CliTyped, Goto
  <1>5. /\ cli'[c].pc = step /\ cli'[c].lines = cli[c].lines /\ cli'[c].queue = cli[c].queue
        /\ cli'[c].mode = cli[c].mode /\ cli'[c].run = cli[c].run
    BY <1>1, <1>2 DEF Locals
  <1>6. InOrder(c)'
    BY <1>1, <1>5 DEF InOrder, Running, Attending
  <1> QED
    BY <1>2, <1>4, <1>6, CliAlone

\* The recorder that a command line waits for has all earlier sessions behind it.
LEMMA HeadFollows ==
    ASSUME NEW c \in CommandLine, Ordered, cli[c].pc \in Attending, cli[c].mode # "number"
    PROVE  Following(c)
  <1> SUFFICES ASSUME NEW s \in Sess, s < recs[c].session PROVE Done(ledger, s)
    BY DEF Following
  <1>1. InOrder(c) /\ cli[c] \in Locals
    BY DEF Ordered, CliTyped
  <1>2. /\ cli[c].queue # <<>> /\ recs[c].session = Head(cli[c].queue)
        /\ Ahead(cli[c].lines, cli[c].queue) /\ cli[c].queue \in Seq(Sess)
    BY <1>1 DEF InOrder, Locals
  <1>3. 1 \in DOMAIN cli[c].queue /\ Head(cli[c].queue) = cli[c].queue[1]
    BY <1>2
  <1>4. Done(cli[c].lines, s)
    <2>1. s < cli[c].queue[1]
      BY <1>2, <1>3
    <2>2. ~\E j \in 1..(1 - 1) : cli[c].queue[j] = s
      OBVIOUS
    <2> QED
      BY <1>2, <1>3, <2>1, <2>2 DEF Ahead
  <1> QED
    BY <1>1, <1>4 DEF InOrder

\* Where a command line is when it leaves its session.
LEMMA LeaveIs ==
    ASSUME CliTyped, NEW c \in CommandLine, GoLeave(c)
    PROVE  /\ cli'[c] \in Locals /\ cli'[c].pc = "leave" /\ cli'[c].mode = cli[c].mode
           /\ cli'[c].lines = <<>> /\ cli'[c].queue = <<>>
           /\ \A d \in CommandLine \ {c} : cli'[d] = cli[d]
           /\ cli' \in [CommandLine -> Locals]
  <1> DEFINE l == [Off EXCEPT !.pc = "leave", !.mode = cli[c].mode]
  <1>1. l \in Locals /\ l.pc = "leave" /\ l.mode = cli[c].mode
    BY CliOff DEF CliTyped, Locals, Steps
  <1>2. l.lines = <<>> /\ l.queue = <<>>
    BY DEF Off
  <1>3. cli' = [cli EXCEPT ![c] = l]
    BY DEF GoLeave
  <1> HIDE DEF l
  <1> QED
    BY <1>1, <1>2, <1>3 DEF CliTyped

\* A session is left: its recorder has ended, or goes on in plan order.
LEMMA CliQuits ==
    ASSUME Ordered, NEW c \in CommandLine, GoLeave(c), UNCHANGED dataset,
           cli[c].pc # "off", ledger' \in Seq(Line),
           \A s \in Sess : Done(ledger, s) => Done(ledger', s),
           \A d \in CommandLine \ {c} : recs'[d] = recs[d], CommandLine \subseteq DOMAIN recs',
           Running(c)' => /\ Running(c) /\ recs'[c] \in RecProc
                          /\ recs'[c].session = recs[c].session
    PROVE  Ordered'
  <1>1. CliTyped /\ InOrder(c)
    BY DEF Ordered
  <1>2. CliTyped'
    BY <1>1, LeaveIs DEF CliTyped
  <1>3. ASSUME Running(c)', cli[c].mode # "number" PROVE Following(c)'
    <2>1. Following(c)
      BY <1>1, <1>3, HeadFollows DEF InOrder
    <2> QED
      BY <1>3, <2>1 DEF Following
  <1>4. InOrder(c)'
    BY <1>1, <1>3, LeaveIs, CliOff DEF InOrder, Attending
  <1> QED
    BY <1>1, <1>2, <1>4, LeaveIs, CliAlone

\* So it is when nothing but its locals changes.
LEMMA CliQuietly ==
    ASSUME Ordered, NEW c \in CommandLine, GoLeave(c), cli[c].pc # "off",
           UNCHANGED <<dataset, ledger, recs>>
    PROVE  Ordered'
  <1>1. CliTyped /\ InOrder(c)
    BY DEF Ordered
  <1>2. Running(c)' => Running(c) /\ recs'[c] \in RecProc /\ recs'[c].session = recs[c].session
    BY <1>1 DEF Running, InOrder
  <1>3. ledger' \in Seq(Line) /\ CommandLine \subseteq DOMAIN recs'
    BY <1>1 DEF CliTyped
  <1> QED
    BY <1>2, <1>3, CliQuits

\* Nor does what remains of a process that is gone.
LEMMA CliEnds ==
    ASSUME Ordered, NEW c \in CommandLine, Gone(c), UNCHANGED <<dataset, ledger>>,
           \A d \in CommandLine \ {c} : recs'[d] = recs[d], CommandLine \subseteq DOMAIN recs',
           recs'[c] = recs[c] \/ recs'[c] = NoProc
    PROVE  Ordered'
  <1>1. CliTyped /\ InOrder(c)
    BY DEF Ordered
  <1>2. /\ cli'[c] = Off /\ \A d \in CommandLine \ {c} : cli'[d] = cli[d]
        /\ cli' \in [CommandLine -> Locals]
    BY <1>1, CliOff DEF CliTyped, Gone
  <1>3. CliTyped'
    BY <1>1, <1>2 DEF CliTyped
  <1>4. InOrder(c)'
    BY <1>1, <1>2, CliOff DEF InOrder, Running, Attending
  <1> QED
    BY <1>2, <1>3, <1>4, CliAlone

\* The session that is begun is the head of the queue, with episodes to come.
LEMMA CliBegins ==
    ASSUME Ordered, NEW c \in CommandLine, BeginSession(c)
    PROVE  Ordered'
  <1>1. CliTyped /\ InOrder(c) /\ cli[c] \in Locals
    BY DEF Ordered, CliTyped
  <1>2. UNCHANGED <<dataset, ledger, recs>> /\ cli[c].pc = "next"
    BY DEF BeginSession
  <1>3. CASE GoLeave(c)
    BY <1>2, <1>3, CliQuietly
  <1>4. CASE ~GoLeave(c)
    <2> DEFINE s == Head(cli[c].queue)
               resume == Count # None
               r == [session |-> s, before |-> Episodes,
                     want |-> Remaining(cli[c].lines, s), resume |-> resume]
    <2>a. resume \in BOOLEAN
      OBVIOUS
    <2>b. /\ cli[c].queue # <<>> /\ ~Exhausted(cli[c].lines, s)
          /\ cli' = [cli EXCEPT ![c].pc = "prompt", ![c].interrupted = FALSE, ![c].run = r]
      BY <1>4 DEF BeginSession
    <2> HIDE DEF resume
    <2>1. s \in Sess /\ cli[c].lines \in Seq(Line)
      BY <1>1, <2>b DEF Locals
    <2>2. Remaining(cli[c].lines, s) \in Nat \ {0}
      BY <2>1, <2>b, RecordedIsNat, LedgerAssumption DEF Exhausted, Remaining
    <2>3. Episodes \in Nat
      BY <1>1 DEF Episodes, CliTyped
    <2>4. r \in CliRun /\ r.session = s /\ r.want # 0
      BY <2>a, <2>1, <2>2, <2>3 DEF CliRun
    <2> HIDE DEF r
    <2>5. /\ cli'[c] = [cli[c] EXCEPT !.pc = "prompt", !.interrupted = FALSE, !.run = r]
          /\ \A d \in CommandLine \ {c} : cli'[d] = cli[d]
          /\ DOMAIN cli' = CommandLine
      BY <1>1, <2>b DEF CliTyped
    <2>6. /\ cli'[c] \in Locals /\ cli'[c].pc = "prompt" /\ cli'[c].run = r
          /\ cli'[c].lines = cli[c].lines /\ cli'[c].queue = cli[c].queue
          /\ cli'[c].mode = cli[c].mode
      BY <1>1, <2>4, <2>5 DEF Locals, Steps
    <2>7. CliTyped'
      <3>1. cli' \in [CommandLine -> Locals]
        BY <1>1, <2>b, <2>6 DEF CliTyped
      <3> QED
        BY <3>1, <1>1, <1>2 DEF CliTyped
    <2>8. InOrder(c)'
      BY <1>1, <1>2, <2>b, <2>4, <2>6 DEF InOrder, Running, Attending
    <2> QED
      BY <1>2, <2>5, <2>7, <2>8, CliAlone
  <1> QED
    BY <1>3, <1>4

\* The recorder is started for the head of the queue.
LEMMA CliRecords ==
    ASSUME Ordered, NEW c \in CommandLine, Record(c)
    PROVE  Ordered'
  <1>1. CliTyped /\ InOrder(c) /\ cli[c] \in Locals
    BY DEF Ordered, CliTyped
  <1>2. /\ UNCHANGED <<dataset, ledger>> /\ cli[c].pc = "prompt"
        /\ recs' = [recs EXCEPT
              ![c] = Spawned(cli[c].run.session, cli[c].run.want, cli[c].run.resume)]
        /\ cli' = [cli EXCEPT ![c].pc = "spawned"]
    BY DEF Record, Goto
  <1>3. /\ cli'[c] = [cli[c] EXCEPT !.pc = "spawned"]
        /\ \A d \in CommandLine \ {c} : cli'[d] = cli[d] /\ recs'[d] = recs[d]
        /\ recs'[c] = Spawned(cli[c].run.session, cli[c].run.want, cli[c].run.resume)
    BY <1>1, <1>2 DEF CliTyped
  <1>4. /\ cli'[c] \in Locals /\ cli'[c].pc = "spawned" /\ cli'[c].run = cli[c].run
        /\ cli'[c].lines = cli[c].lines /\ cli'[c].queue = cli[c].queue
        /\ cli'[c].mode = cli[c].mode /\ cli[c].run \in CliRun
    BY <1>1, <1>3 DEF Locals, Steps
  <1>5. CliTyped'
    BY <1>1, <1>2, <1>4 DEF CliTyped
  <1>6. recs'[c] \in RecProc /\ recs'[c].session = cli[c].run.session
    <2> DEFINE r == cli[c].run
    <2>1. cli[c].run.want # 0
      BY <1>1, <1>2 DEF InOrder
    <2>2. r \in CliRun /\ r.want # 0 /\ recs'[c] = Spawned(r.session, r.want, r.resume)
      BY <1>3, <1>4, <2>1
    <2> HIDE DEF r
    <2>3. Spawned(r.session, r.want, r.resume) \in RecProc
      BY <2>2 DEF Spawned, RecProc, CliRun
    <2>4. Spawned(r.session, r.want, r.resume).session = r.session
      BY DEF Spawned
    <2> QED
      BY <2>2, <2>3, <2>4 DEF r
  <1>7. InOrder(c)'
    BY <1>1, <1>2, <1>4, <1>6 DEF InOrder, Running, Attending
  <1> QED
    BY <1>2, <1>3, <1>5, <1>7, CliAlone

\* A recorder that is told to stop is the same recorder.
LEMMA SignalKeeps ==
    ASSUME NEW p \in RecProc, NEW q, q = p \/ q = Signalled(p)
    PROVE  /\ q \in RecProc /\ q.session = p.session /\ q.want = p.want /\ q.saved = p.saved
           /\ q.opened = p.opened /\ q.exited = p.exited
  <1>1. q = p \/ q = [p EXCEPT !.signalled = TRUE]
    BY DEF Signalled
  <1>2. CASE q = p
    BY <1>2
  <1>3. CASE q = [p EXCEPT !.signalled = TRUE]
    <2>1. /\ q \in RecProc
      BY <1>3 DEF RecProc
    <2>2. /\ q.session = p.session /\ q.want = p.want /\ q.saved = p.saved
          /\ q.opened = p.opened /\ q.exited = p.exited
      BY <1>3 DEF RecProc
    <2> QED
      BY <2>1, <2>2
  <1> QED
    BY <1>1, <1>2, <1>3

\* Ctrl+C that is caught, or ends the run with or without its recorder.
LEMMA CliStops ==
    ASSUME Ordered, NEW c \in CommandLine, CtrlC(c)
    PROVE  Ordered'
  <1>1. CliTyped /\ InOrder(c) /\ UNCHANGED <<dataset, ledger>>
    BY DEF Ordered, CtrlC
  <1>2. CASE cli[c].pc = "wait"
    BY <1>2, CliMoves DEF CtrlC, Attending
  <1>3. CASE cli[c].pc = "lock"
    BY <1>1, <1>3, CliEnds DEF CtrlC, CliTyped
  <1>4. CASE cli[c].pc \in {"next", "append"}
    BY <1>1, <1>4, CliQuietly DEF CtrlC
  <1>5. CASE cli[c].pc \in {"spawned", "handler"}
    <2>1. /\ GoLeave(c) /\ recs[c] \in RecProc /\ DOMAIN recs' = DOMAIN recs
          /\ \A d \in CommandLine \ {c} : recs'[d] = recs[d]
          /\ recs'[c] = recs[c] \/ recs'[c] = Signalled(recs[c])
      BY <1>1, <1>5 DEF CtrlC, InOrder, Attending, CliTyped
    <2>2. /\ recs'[c] \in RecProc /\ recs'[c].session = recs[c].session
          /\ recs'[c].exited = recs[c].exited
      BY <2>1, SignalKeeps
    <2>3. ASSUME Running(c)' PROVE Running(c)
      <3>1. recs[c] # NoProc
        BY <2>1, <2>3 DEF Running, Signalled
      <3> QED
        BY <2>2, <2>3, <3>1 DEF Running
    <2> QED
      BY <1>1, <1>5, <2>1, <2>2, <2>3, CliQuits DEF CliTyped
  <1> QED
    BY <1>2, <1>3, <1>4, <1>5 DEF CtrlC

\* What the handler does.
LEMMA HandlerIs ==
    ASSUME Ordered, NEW c \in CommandLine, HandleCtrlC(c)
    PROVE  /\ cli'[c] \in Locals /\ cli'[c].pc = "wait" /\ cli'[c].run = cli[c].run
           /\ cli'[c].lines = cli[c].lines /\ cli'[c].queue = cli[c].queue
           /\ cli'[c].mode = cli[c].mode
           /\ \A d \in CommandLine \ {c} : cli'[d] = cli[d] /\ recs'[d] = recs[d]
           /\ cli' \in [CommandLine -> Locals] /\ DOMAIN recs' = DOMAIN recs
           /\ recs[c] \in RecProc /\ (recs'[c] = recs[c] \/ recs'[c] = Signalled(recs[c]))
  <1>1. /\ CliTyped /\ InOrder(c) /\ cli[c] \in Locals /\ cli[c].pc = "handler"
        /\ cli' = [cli EXCEPT ![c].interrupted = TRUE, ![c].pc = "wait"]
        /\ recs' = recs \/ recs' = [recs EXCEPT ![c] = Signalled(@)]
    BY DEF Ordered, CliTyped, HandleCtrlC
  <1> DEFINE l == cli[c]
             m == [l EXCEPT !.interrupted = TRUE, !.pc = "wait"]
  <1>2. cli' = [cli EXCEPT ![c] = m]
    BY <1>1 DEF CliTyped
  <1>3. l \in Locals
    BY <1>1
  <1> HIDE DEF l
  <1>4. /\ m \in Locals /\ m.pc = "wait" /\ m.run = l.run /\ m.lines = l.lines
        /\ m.queue = l.queue /\ m.mode = l.mode
    BY <1>3 DEF Locals, Steps
  <1> HIDE DEF m
  <1>5. /\ cli'[c] = m /\ cli' \in [CommandLine -> Locals]
        /\ \A d \in CommandLine \ {c} : cli'[d] = cli[d]
    BY <1>1, <1>2, <1>4 DEF CliTyped
  <1>6. /\ DOMAIN recs' = DOMAIN recs /\ (recs'[c] = recs[c] \/ recs'[c] = Signalled(recs[c]))
        /\ \A d \in CommandLine \ {c} : recs'[d] = recs[d]
    BY <1>1 DEF CliTyped
  <1>7. recs[c] \in RecProc
    BY <1>1 DEF InOrder, Attending
  <1> QED
    BY <1>4, <1>5, <1>6, <1>7 DEF l

\* The handler goes back to waiting for the same recorder.
LEMMA CliHandles ==
    ASSUME Ordered, NEW c \in CommandLine, HandleCtrlC(c)
    PROVE  Ordered'
  <1>1. CliTyped /\ InOrder(c) /\ UNCHANGED <<dataset, ledger>> /\ cli[c].pc = "handler"
    BY DEF Ordered, HandleCtrlC
  <1>2. recs'[c] \in RecProc /\ recs'[c].session = recs[c].session
    BY HandlerIs, SignalKeeps
  <1>3. CliTyped'
    BY <1>1, HandlerIs DEF CliTyped
  <1>4. InOrder(c)'
    BY <1>1, <1>2, HandlerIs DEF InOrder, Attending
  <1> QED
    BY <1>1, <1>3, <1>4, HandlerIs, CliAlone

\* Verification keeps the result for the line to come.
LEMMA CliVerifies ==
    ASSUME Ordered, NEW c \in CommandLine, VerifySession(c)
    PROVE  Ordered'
  <1>1. CliTyped /\ InOrder(c) /\ cli[c] \in Locals
    BY DEF Ordered, CliTyped
  <1>2. /\ UNCHANGED <<dataset, ledger, recs>> /\ cli[c].pc = "wait" /\ recs[c].exited
    BY DEF VerifySession
  <1>3. PICK tasksOk \in BOOLEAN :
           cli' = [cli EXCEPT ![c].pc = "append",
                              ![c].result = Verify(cli[c].run.before, cli[c].run.want,
                                                       recs[c].code, FALSE, tasksOk)]
    BY DEF VerifySession
  <1> DEFINE v == Verify(cli[c].run.before, cli[c].run.want, recs[c].code, FALSE, tasksOk)
  <1>4. Count \in Nat \cup {None}
    BY <1>1 DEF Count, CliTyped
  <1>5. v \in CliResult
    BY <1>4 DEF Verify, CliResult
  <1> HIDE DEF v
  <1>6. cli' = [cli EXCEPT ![c].pc = "append", ![c].result = v]
    BY <1>3 DEF v
  <1>7. /\ cli'[c] = [cli[c] EXCEPT !.pc = "append", !.result = v]
        /\ \A d \in CommandLine \ {c} : cli'[d] = cli[d]
    BY <1>1, <1>6 DEF CliTyped
  <1>8. /\ cli'[c] \in Locals /\ cli'[c].pc = "append" /\ cli'[c].run = cli[c].run
        /\ cli'[c].lines = cli[c].lines /\ cli'[c].queue = cli[c].queue
        /\ cli'[c].mode = cli[c].mode
    BY <1>1, <1>5, <1>7 DEF Locals, Steps
  <1>9. CliTyped'
    BY <1>1, <1>2, <1>6, <1>8 DEF CliTyped
  <1>10. InOrder(c)'
    BY <1>1, <1>2, <1>8 DEF InOrder, Running, Attending
  <1> QED
    BY <1>2, <1>7, <1>9, <1>10, CliAlone

\* An ok line at the head of the queue lets the rest of it follow.
LEMMA TailAhead ==
    ASSUME NEW lines \in Seq(Line), NEW queue \in Seq(Sess), queue # <<>>, Ahead(lines, queue),
           NEW line \in Line, line.session = Head(queue), line.status = "ok"
    PROVE  Ahead(Append(lines, line), Tail(queue))
  <1> DEFINE more == Append(lines, line)
  <1>1. /\ DOMAIN lines = 1..Len(lines) /\ Len(lines) \in Nat
        /\ DOMAIN more = 1..(Len(lines) + 1) /\ more[Len(lines) + 1] = line
        /\ \A i \in 1..Len(lines) : more[i] = lines[i]
    OBVIOUS
  <1>2. /\ \A s : Done(lines, s) => Done(more, s)
        /\ Done(more, Head(queue))
    BY <1>1 DEF Done
  <1>3. /\ DOMAIN queue = 1..Len(queue) /\ Len(queue) \in Nat \ {0}
        /\ DOMAIN Tail(queue) = 1..(Len(queue) - 1) /\ Head(queue) = queue[1]
        /\ \A i \in 1..(Len(queue) - 1) : Tail(queue)[i] = queue[i + 1]
    OBVIOUS
  <1> HIDE DEF more
  <1> SUFFICES ASSUME NEW i \in DOMAIN Tail(queue), NEW s \in Sess, s < Tail(queue)[i],
                      ~Done(more, s)
               PROVE  \E j \in 1..(i - 1) : Tail(queue)[j] = s
    BY DEF Ahead, more
  <1>4. i \in 1..(Len(queue) - 1) /\ i + 1 \in DOMAIN queue /\ s < queue[i + 1]
    BY <1>3
  <1>5. PICK j \in 1..((i + 1) - 1) : queue[j] = s
    BY <1>2, <1>4 DEF Ahead
  <1>6. j # 1
    BY <1>2, <1>3, <1>5
  <1>7. j - 1 \in 1..(i - 1) /\ Tail(queue)[j - 1] = s
    BY <1>3, <1>4, <1>5, <1>6
  <1> QED
    BY <1>7

\* The line of a session.
LEMMA SessionLineIs ==
    ASSUME Ordered, NEW c \in CommandLine
    PROVE  /\ SessionLine(c) \in Line /\ SessionLine(c).session = cli[c].run.session
           /\ SessionLine(c).before = cli[c].run.before
           /\ SessionLine(c).after = cli[c].result.after
           /\ SessionLine(c).status = "ok" <=> ~cli[c].result.problems
  <1>1. PICK r, v : r = cli[c].run /\ v = cli[c].result
    OBVIOUS
  <1>2. r \in CliRun /\ v \in CliResult
    BY <1>1 DEF Ordered, CliTyped, Locals
  <1> QED
    BY <1>1, <1>2 DEF SessionLine, Line, Statuses, CliRun, CliResult

\* What a session that is complete leaves to the next.
LEMMA NextIs ==
    ASSUME Ordered, NEW c \in CommandLine, AppendSessionLine(c), ~GoLeave(c)
    PROVE  /\ ledger' = Append(ledger, SessionLine(c)) /\ SessionLine(c).status = "ok"
           /\ cli[c].queue # <<>> /\ Tail(cli[c].queue) \in Seq(Sess)
           /\ cli'[c] \in Locals /\ cli'[c].pc = "next" /\ cli'[c].mode = cli[c].mode
           /\ cli'[c].lines = Append(cli[c].lines, SessionLine(c))
           /\ cli'[c].queue = Tail(cli[c].queue)
           /\ \A d \in CommandLine \ {c} : cli'[d] = cli[d]
           /\ cli' \in [CommandLine -> Locals]
  <1>1. CliTyped /\ InOrder(c) /\ cli[c] \in Locals /\ cli[c].pc = "append"
    BY DEF Ordered, CliTyped, AppendSessionLine
  <1> DEFINE line == SessionLine(c)
             l == cli[c]
             m == [l EXCEPT !.lines = Append(@, line), !.queue = Tail(@), !.pc = "next",
                            !.run = NoRun, !.result = NoResult]
  <1>2. /\ ledger' = Append(ledger, line) /\ ~cli[c].result.problems
        /\ cli' = [cli EXCEPT ![c].lines = Append(@, line), ![c].queue = Tail(@),
                              ![c].pc = "next", ![c].run = NoRun, ![c].result = NoResult]
    BY DEF AppendSessionLine
  <1>3. line \in Line /\ line.status = "ok"
    BY <1>2, SessionLineIs
  <1> HIDE DEF line
  <1>4. cli' = [cli EXCEPT ![c] = m]
    BY <1>1, <1>2 DEF CliTyped
  <1>5. /\ l \in Locals /\ l.queue # <<>> /\ l.lines \in Seq(Line) /\ l.queue \in Seq(Sess)
    BY <1>1 DEF InOrder, Locals
  <1> HIDE DEF l
  <1>6. Append(l.lines, line) \in Seq(Line) /\ Tail(l.queue) \in Seq(Sess)
    BY <1>3, <1>5
  <1>7. NoRun \in CliRun /\ NoResult \in CliResult
    BY Sessions DEF NoRun, NoResult, CliRun, CliResult
  <1>8. /\ m \in Locals /\ m.pc = "next" /\ m.mode = l.mode
        /\ m.lines = Append(l.lines, line) /\ m.queue = Tail(l.queue)
    BY <1>5, <1>6, <1>7 DEF Locals, Steps
  <1> HIDE DEF m
  <1>9. /\ cli'[c] = m /\ cli' \in [CommandLine -> Locals]
        /\ \A d \in CommandLine \ {c} : cli'[d] = cli[d]
    BY <1>1, <1>4, <1>8 DEF CliTyped
  <1> QED
    BY <1>2, <1>3, <1>5, <1>6, <1>8, <1>9 DEF line, l

\* The line goes to the file and to the run's own copy, or the run ends.
LEMMA CliAppends ==
    ASSUME Ordered, NEW c \in CommandLine, AppendSessionLine(c)
    PROVE  Ordered'
  <1>1. /\ CliTyped /\ InOrder(c) /\ UNCHANGED dataset /\ cli[c].pc = "append"
        /\ recs' = [recs EXCEPT ![c] = NoProc]
    BY DEF Ordered, AppendSessionLine
  <1>2. /\ recs'[c] = NoProc /\ CommandLine \subseteq DOMAIN recs'
        /\ \A d \in CommandLine \ {c} : recs'[d] = recs[d]
    BY <1>1 DEF CliTyped
  <1> DEFINE l == SessionLine(c)
  <1>3. UNCHANGED ledger \/ ledger' = Append(ledger, l)
    BY DEF AppendSessionLine
  <1>4. l \in Line /\ l.session = cli[c].run.session
    BY SessionLineIs
  <1> HIDE DEF l
  <1>a. ledger \in Seq(Line)
    BY <1>1 DEF CliTyped
  <1>b. \A s : Done(Append(ledger, l), s) <=>
                   Done(ledger, s) \/ (l.session = s /\ l.status = "ok")
    BY <1>4, <1>a, DoneAppend
  <1>5. /\ ledger' \in Seq(Line)
        /\ \A s : Done(ledger, s) => Done(ledger', s)
        /\ ledger' = Append(ledger, l) =>
              \A s : Done(ledger', s) <=> Done(ledger, s) \/ (l.session = s /\ l.status = "ok")
    <2>1. CASE UNCHANGED ledger /\ ledger' # Append(ledger, l)
      BY <1>a, <2>1
    <2>2. CASE ledger' = Append(ledger, l)
      <3>1. ledger' \in Seq(Line)
        BY <1>4, <1>a, <2>2
      <3> QED
        BY <1>b, <2>2, <3>1, Zenon
    <2> QED
      BY <1>3, <2>1, <2>2
  <1>6. CASE GoLeave(c)
    BY <1>1, <1>2, <1>5, <1>6, CliQuits DEF Running
  <1>7. CASE ~GoLeave(c)
    <2>1. /\ ledger' = Append(ledger, l) /\ l.status = "ok"
          /\ cli[c].queue # <<>> /\ Tail(cli[c].queue) \in Seq(Sess)
          /\ cli'[c] \in Locals /\ cli'[c].pc = "next" /\ cli'[c].mode = cli[c].mode
          /\ cli'[c].lines = Append(cli[c].lines, l) /\ cli'[c].queue = Tail(cli[c].queue)
          /\ \A d \in CommandLine \ {c} : cli'[d] = cli[d]
          /\ cli' \in [CommandLine -> Locals]
      BY <1>7, NextIs DEF l
    <2>2. cli[c].lines \in Seq(Line) /\ cli[c].queue \in Seq(Sess)
      BY <1>1 DEF CliTyped, Locals
    <2>3. CliTyped'
      BY <1>1, <1>2, <1>5, <2>1 DEF CliTyped
    <2>4. \A s : Done(cli'[c].lines, s) <=>
                    Done(cli[c].lines, s) \/ (l.session = s /\ l.status = "ok")
      BY <1>4, <2>1, <2>2, DoneAppend
    <2>5. ASSUME cli[c].mode # "number" PROVE Ahead(cli'[c].lines, cli'[c].queue)
      <3>1. Ahead(cli[c].lines, cli[c].queue) /\ l.session = Head(cli[c].queue)
        BY <1>1, <1>4, <2>5 DEF InOrder
      <3> QED
        BY <1>4, <2>1, <2>2, <3>1, TailAhead
    <2>6. InOrder(c)'
      BY <1>1, <1>2, <1>5, <2>1, <2>4, <2>5 DEF InOrder, Running, Attending
    <2> QED
      BY <1>2, <1>5, <2>1, <2>3, <2>6, CliAlone
  <1> QED
    BY <1>6, <1>7

\* The end of a command line.
LEMMA CliLeaves ==
    ASSUME Ordered, NEW c \in CommandLine, End(c)
    PROVE  Ordered'
  BY CliEnds DEF End, Ordered, CliTyped

\* A recorder keeps the session it was started for, and starts no other.
LEMMA CliRecorder ==
    ASSUME Ordered, NEW o \in CommandLine, UNCHANGED cli,
           RecorderOpens(o) \/ RecorderSaves(o) \/ RecorderFails(o) \/ RecorderExits(o)
    PROVE  Ordered'
  <1>2. CliTyped /\ InOrder(o)
    BY DEF Ordered
  <1> DEFINE p == recs[o]
             q == recs'[o]
  <1>3. /\ UNCHANGED ledger /\ CommandLine \subseteq DOMAIN recs'
        /\ \A d \in CommandLine \ {o} : recs'[d] = recs[d]
        /\ Running(o)
    BY <1>2 DEF CliTyped, RecorderOpens, RecorderSaves, RecorderFails,
                      RecorderExits
  <1>4. p \in RecProc
    BY <1>2, <1>3 DEF InOrder
  <1>5. /\ q \in RecProc /\ q.session = p.session
        /\ dataset' \in [root : BOOLEAN, info : BOOLEAN, episodes : Nat]
    <2>1. CASE RecorderOpens(o)
      <3>1. q = [p EXCEPT !.opened = TRUE]
            /\ dataset' = [dataset EXCEPT !.root = TRUE, !.info = TRUE]
        BY <1>2, <2>1 DEF RecorderOpens, CliTyped
      <3> QED
        BY <3>1, <1>2, <1>4 DEF RecProc, CliTyped
    <2>2. CASE RecorderSaves(o)
      <3>1. q = [p EXCEPT !.saved = @ + 1] /\ dataset' = [dataset EXCEPT !.episodes = @ + 1]
        BY <1>2, <2>2 DEF RecorderSaves, CliTyped
      <3> QED
        BY <3>1, <1>2, <1>4 DEF RecProc, CliTyped
    <2>3. CASE RecorderFails(o)
      <3>1. \E k \in {1, 130} : q = [p EXCEPT !.exited = TRUE, !.code = k]
        BY <1>2, <2>3 DEF RecorderFails, CliTyped
      <3>2. UNCHANGED dataset \/ dataset' = [dataset EXCEPT !.root = TRUE]
        BY <2>3 DEF RecorderFails, LeavesRoot
      <3> QED
        <4>1. q \in RecProc /\ q.session = p.session
          BY <3>1, <1>4 DEF RecProc
        <4>2. dataset' \in [root : BOOLEAN, info : BOOLEAN, episodes : Nat]
          BY <3>2, <1>2 DEF CliTyped
        <4> QED
          BY <4>1, <4>2
    <2>4. CASE RecorderExits(o)
      <3>1. PICK k \in {0, IF p.signalled THEN 130 ELSE 1} :
               recs' = [recs EXCEPT ![o].exited = TRUE, ![o].code = k]
        BY <2>4 DEF RecorderExits
      <3>2. q = [p EXCEPT !.exited = TRUE, !.code = k] /\ k \in {0, 1, 130} /\ UNCHANGED dataset
        BY <3>1, <1>2, <2>4 DEF RecorderExits, CliTyped
      <3> QED
        BY <3>2, <1>2, <1>4 DEF RecProc, CliTyped
    <2> QED
      BY <2>1, <2>2, <2>3, <2>4
  <1>6. CliTyped'
    BY <1>2, <1>3, <1>5 DEF CliTyped
  <1>7. InOrder(o)'
    BY <1>2, <1>3, <1>4, <1>5 DEF InOrder, Running, Following
  <1> QED
    BY <1>3, <1>6, <1>7, CliAlone

\* So does one that is left behind, and its end.
LEMMA CliStrays ==
    ASSUME Ordered, NEW c \in CommandLine, LeftBehind(c)
    PROVE  Ordered'
  <1>1. CASE RecorderOpens(c) \/ RecorderSaves(c)
    BY <1>1, CliRecorder DEF LeftBehind
  <1>2. CASE recs' = [recs EXCEPT ![c] = NoProc] /\ UNCHANGED <<ledger, made, cli>>
             /\ (UNCHANGED dataset \/ LeavesRoot(c))
    <2>1. CliTyped /\ InOrder(c) /\ cli[c].pc = "off"
      BY DEF Ordered, LeftBehind
    <2>2. /\ recs'[c] = NoProc /\ CommandLine \subseteq DOMAIN recs'
          /\ \A d \in CommandLine \ {c} : recs'[d] = recs[d]
      BY <1>2, <2>1 DEF CliTyped
    <2>3. CliTyped'
      BY <1>2, <2>1, <2>2 DEF CliTyped, LeavesRoot
    <2>4. InOrder(c)'
      BY <1>2, <2>1, <2>2 DEF InOrder, Running, Attending
    <2> QED
      BY <1>2, <2>2, <2>3, <2>4, CliAlone
  <1> QED
    BY <1>1, <1>2 DEF LeftBehind

\* Only the disk outlives a power loss.
LEMMA CliPower == ASSUME Ordered, PowerLoss PROVE Ordered'
  <1>1. /\ cli' = [c \in CommandLine |-> Off] /\ recs' = [o \in Owner |-> NoProc]
        /\ UNCHANGED <<dataset, ledger>>
    BY DEF PowerLoss
  <1>2. CliTyped'
    BY <1>1, CliOff DEF Ordered, CliTyped, CommandLine
  <1>3. ASSUME NEW c \in CommandLine PROVE InOrder(c)'
    <2>1. cli'[c] = Off /\ recs'[c] = NoProc
      BY <1>1 DEF CommandLine
    <2> QED
      BY <1>1, <2>1, CliOff DEF InOrder, Running, Attending
  <1> QED
    BY <1>2, <1>3 DEF Ordered

\* What leaves the command lines, their recorders and the disk alone.
LEMMA CliStutter == ASSUME Ordered, UNCHANGED <<dataset, ledger, recs, cli>> PROVE Ordered'
  BY DEF Ordered, CliTyped, InOrder, Running, Following

\* Every step of every command line keeps them in order.
LEMMA CliNext == ASSUME Ordered, [CommandNext]_(commandVars) PROVE Ordered'
  <1>t. CliTyped /\ \A c \in CommandLine : InOrder(c)
    BY DEF Ordered
  <1>1. ASSUME NEW c \in CommandLine, TakeArms(c) PROVE Ordered'
    BY <1>1, <1>t, CliMoves, CliEnds DEF TakeArms, CliTyped
  <1>2. ASSUME NEW c \in CommandLine, Quit(c) PROVE Ordered'
    BY <1>2, CliQuietly DEF Quit
  <1>3. ASSUME NEW c \in CommandLine, Await(c) PROVE Ordered'
    BY <1>3, CliMoves DEF Await, Attending
  <1>4. ASSUME NEW c \in CommandLine, Leave(c) \/ Dies(c) PROVE Ordered'
    BY <1>4, CliLeaves DEF Leave, Dies
  <1>5. CASE RecorderStep({c \in CommandLine : cli[c].pc # "off"}) /\ UNCHANGED <<cli, arms>>
    BY <1>5, CliRecorder DEF RecorderStep
  <1>6. CASE ((OtherTakes \/ OtherReleases) /\ UNCHANGED cli) \/ UNCHANGED commandVars
    BY <1>6, CliStutter DEF OtherTakes, OtherReleases, diskVars, commandVars
  <1> QED
    BY <1>1, <1>2, <1>3, <1>4, <1>5, <1>6, CliLaunch, CliBegins, CliRecords, CliStops, CliHandles,
       CliVerifies, CliAppends, CliStrays, CliPower DEF CommandNext

\* --session=remaining and next go "in plan order, stopping at the first failure,
\* mismatch or Ctrl+C" (collect.py:13-16), for any plan and any number of command
\* lines: no recorder runs for a session while an earlier one is without an ok line.
THEOREM KeepsPlanOrder == CommandSpec => []PlanOrder
  <1>1. Ordered => PlanOrder
    <2> SUFFICES ASSUME Ordered, NEW c \in CommandLine, Running(c), cli[c].pc # "off",
                        cli[c].mode # "number"
                 PROVE  Following(c)
      BY DEF PlanOrder, Following
    <2>1. InOrder(c)
      BY DEF Ordered
    <2> QED
      BY <2>1, HeadFollows DEF InOrder
  <1> QED
    BY CliInit, CliNext, <1>1, PTL DEF CommandSpec

\* Besides its own locals, a command line touches the disk and the lock as typed.
Typed ==
    /\ DiskTypeOK
    /\ arms \in CommandLine \cup {"free", "other"}

\* Every step keeps the disk and the lock so.
LEMMA CliNextTyped == ASSUME Ordered, Typed, CommandNext PROVE Typed'
  <1> USE DEF Typed
  <1>l. \A c \in CommandLine : c \in Owner /\ cli[c] \in Locals
    BY DEF Ordered, CliTyped, CommandLine
  <1>u. ASSUME UNCHANGED <<dataset, ledger, made>>, recs' \in [Owner -> RecProc \cup {NoProc}]
        PROVE  DiskTypeOK'
    BY <1>u DEF DiskTypeOK
  <1>1. ASSUME NEW c \in CommandLine,
               \/ Launch(c) \/ TakeArms(c) \/ BeginSession(c) \/ Await(c) \/ Quit(c)
               \/ VerifySession(c)
        PROVE  Typed'
    <2>1. UNCHANGED <<dataset, ledger, recs, made>> /\ (UNCHANGED arms \/ arms' = c)
      BY <1>1 DEF Launch, TakeArms, BeginSession, Await, Quit, VerifySession
    <2> QED
      BY <1>u, <2>1 DEF DiskTypeOK
  <1>2. ASSUME NEW c \in CommandLine, Record(c) PROVE Typed'
    <2>1. PICK r : r = cli[c].run
      OBVIOUS
    <2>2. r \in CliRun /\ r.want # 0
      BY <1>2, <1>l, <2>1 DEF Record, Ordered, InOrder, Locals
    <2>3. Spawned(r.session, r.want, r.resume) \in RecProc
      BY <2>2 DEF Spawned, RecProc, CliRun
    <2> QED
      BY <1>2, <1>l, <1>u, <2>1, <2>3 DEF Record, DiskTypeOK
  <1>3. ASSUME NEW c \in CommandLine, CtrlC(c) \/ HandleCtrlC(c) PROVE Typed'
    <2>1. recs[c] \in RecProc \cup {NoProc}
      BY <1>l DEF DiskTypeOK
    <2>2. Signalled(recs[c]) \in RecProc \cup {NoProc}
      BY <2>1 DEF Signalled, RecProc
    <2> QED
      BY <1>3, <1>u, <2>2 DEF CtrlC, HandleCtrlC, DiskTypeOK
  <1>4. ASSUME NEW c \in CommandLine, AppendSessionLine(c) PROVE Typed'
    <2>1. ledger' \in Seq(Line)
      <3>1. SessionLine(c) \in Line
        <4>1. PICK r, v : r = cli[c].run /\ v = cli[c].result
          OBVIOUS
        <4>2. r \in CliRun /\ v \in CliResult
          BY <1>l, <4>1 DEF Locals
        <4> QED
          BY <4>1, <4>2 DEF SessionLine, Line, Statuses, CliRun, CliResult
      <3>2. UNCHANGED ledger \/ ledger' = Append(ledger, SessionLine(c))
        BY <1>4 DEF AppendSessionLine
      <3> HIDE DEF Typed
      <3>3. ledger \in Seq(Line)
        BY DEF Typed, DiskTypeOK
      <3> QED
        BY <3>1, <3>2, <3>3
    <2> QED
      BY <1>4, <2>1 DEF AppendSessionLine, DiskTypeOK
  <1>5. ASSUME NEW c \in CommandLine, Leave(c) \/ Dies(c) PROVE Typed'
    BY <1>5, <1>u DEF Leave, Dies, End, DiskTypeOK
  <1>6. CASE RecorderStep({c \in CommandLine : cli[c].pc # "off"}) /\ UNCHANGED <<cli, arms>>
    BY <1>6, RecorderTypes DEF CommandLine
  <1>9. ASSUME NEW c \in CommandLine, LeftBehind(c) PROVE Typed'
    <2>1. CASE RecorderOpens(c) \/ RecorderSaves(c)
      <3>1. RecorderStep(Owner) /\ UNCHANGED arms
        BY <1>9, <1>l, <2>1 DEF RecorderStep, LeftBehind
      <3> QED
        BY <3>1, RecorderTypes
    <2>2. CASE recs' = [recs EXCEPT ![c] = NoProc] /\ UNCHANGED <<ledger, made, arms>>
               /\ (UNCHANGED dataset \/ LeavesRoot(c))
      BY <2>2 DEF LeavesRoot, DiskTypeOK
    <2> QED
      BY <1>9, <2>1, <2>2 DEF LeftBehind
  <1>7. CASE (OtherTakes \/ OtherReleases) /\ UNCHANGED cli
    BY <1>7, <1>u DEF OtherTakes, OtherReleases, diskVars, DiskTypeOK
  <1>8. CASE PowerLoss
    BY <1>8, <1>u DEF PowerLoss
  <1> QED
    BY <1>1, <1>2, <1>3, <1>4, <1>5, <1>6, <1>7, <1>8, <1>9 DEF CommandNext

\* The types of the command lines' variables hold in every behaviour.
THEOREM CommandTypes == CommandSpec => []CommandTypeOK
  <1>1. CommandInit => Typed
    BY DEF CommandInit, DiskInit, Typed, DiskTypeOK
  <1>2. Ordered /\ Typed /\ [CommandNext]_commandVars => Typed'
    BY CliNextTyped DEF commandVars, Typed, DiskTypeOK
  <1>3. Ordered /\ Typed => CommandTypeOK
    BY DEF Ordered, CliTyped, Typed, CommandTypeOK, Locals, CliRun, CliResult
  <1> QED
    BY CliInit, CliNext, <1>1, <1>2, <1>3, PTL DEF CommandSpec

-------------------------------------------------------------------------------
(* The books of the command lines: the one that has the lock goes by its copy of *)
(* the ledger, which stays the ledger until its recording ends.                  *)

\* Under the lock, and where a session is under way.
Holding == {"next", "prompt", "append", "leave"} \cup Attending
Recording == {"prompt", "append"} \cup Attending

\* Episodes may be on disk that the ledger does not tell of yet.
Saving(c) == cli[c].pc \in Recording \/ (cli[c].pc = "leave" /\ Running(c))

CliBooks(c) ==
    /\ cli[c].pc \in Holding => arms = c
    /\ cli[c].pc \in Recording => cli[c].lines = ledger /\ Chosen(cli[c].run)
    /\ cli[c].pc = "prompt" => Balanced(cli[c].run, 0) /\ Episodes = cli[c].run.before
    /\ cli[c].pc \in {"append"} \cup Attending => Flight(cli[c].run, recs[c])
    /\ cli[c].pc = "leave" /\ Running(c) => \E r : Chosen(r) /\ Flight(r, recs[c])
    /\ cli[c].pc = "append" =>
          /\ cli[c].result.after = Count
          /\ ~cli[c].result.problems =>
                dataset.info /\ Episodes - cli[c].run.before = cli[c].run.want

CliSound ==
    /\ WithinPlan /\ LedgerChains
    /\ \A c \in CommandLine : CliBooks(c)
    /\ (\A c \in CommandLine : ~Saving(c)) => Settled

\* No command line is called free or other.
LEMMA LineNames == \A c \in CommandLine : c # "free" /\ c # "other"
  BY LedgerAssumption DEF CommandLine

\* The holder's step concerns no other command line: none of them holds the lock.
LEMMA CliOne ==
    ASSUME CliSound, NEW c \in CommandLine, cli[c].pc \in Holding,
           \A d \in CommandLine \ {c} : cli'[d] = cli[d],
           WithinPlan', LedgerChains', CliBooks(c)', ~Saving(c)' => Settled'
    PROVE  CliSound'
  <1>1. \A d \in CommandLine \ {c} : cli[d].pc \notin Holding
    BY DEF CliSound, CliBooks
  <1>2. ASSUME NEW d \in CommandLine \ {c} PROVE CliBooks(d)'
    BY <1>1 DEF CliBooks, Recording, Holding
  <1> QED
    BY <1>2 DEF CliSound

\* Before the first launch.
LEMMA CliSoundInit == CommandInit => CliSound
  <1> SUFFICES ASSUME CommandInit PROVE CliSound
    OBVIOUS
  <1>1. /\ ledger = <<>> /\ DOMAIN ledger = {} /\ made = [s \in Sess |-> 0]
        /\ dataset = [root |-> FALSE, info |-> FALSE, episodes |-> 0]
        /\ \A c \in CommandLine : cli[c] = Off
    BY DEF CommandInit, DiskInit
  <1>2. WithinPlan /\ LedgerChains
    BY <1>1, LedgerAssumption
       DEF WithinPlan, NeverOverPlan, OkMeansComplete, Done, LedgerChains
  <1>3. Settled
    BY <1>1, RecordedEmpty DEF Settled
  <1> QED
    BY <1>1, <1>2, <1>3, CliOff DEF CliSound, CliBooks, Holding, Recording, Attending

\* What leaves the disk alone.
LEMMA CliSameDisk ==
    ASSUME CliSound, UNCHANGED <<dataset, ledger, made>>
    PROVE  WithinPlan' /\ LedgerChains'
  BY SameBooks DEF CliSound, LedgerChains

\* Ordered includes what the disk lemmas ask for.
LEMMA OrderedDisk == Ordered => Disk
  BY DEF Ordered, CliTyped, Disk

\* Wherever the command lines are, cut off there they leave a settled disk.
LEMMA CliCut == ASSUME Ordered, CliSound PROVE Settled
  <1>1. Disk
    BY OrderedDisk
  <1>2. ASSUME NEW c \in CommandLine, cli[c].pc = "prompt" PROVE Settled
    <2>1. PICK r : r = cli[c].run
      OBVIOUS
    <2>2. Balanced(r, 0)
      BY <1>2, <2>1 DEF CliSound, CliBooks
    <2> QED
      BY <1>1, <2>2, EmptySettles DEF Settled
  <1>3. ASSUME NEW c \in CommandLine, Saving(c), cli[c].pc # "prompt" PROVE Settled
    <2>1. PICK p : p = recs[c]
      OBVIOUS
    <2>2. \E r : Chosen(r) /\ Flight(r, p)
      BY <1>3, <2>1 DEF CliSound, CliBooks, Saving, Recording
    <2> QED
      BY <1>1, <2>2, FlightSettles
  <1> QED
    BY <1>2, <1>3 DEF CliSound

\* A command line on which nothing changes keeps its books, the disk unchanged.
LEMMA CliIdle ==
    ASSUME NEW c \in CommandLine, CliBooks(c), UNCHANGED <<dataset, ledger, made>>,
           cli'[c] = cli[c], recs'[c] = recs[c], cli[c].pc \in Holding => UNCHANGED arms
    PROVE  CliBooks(c)'
  <1>1. PICK l, p : l = cli[c] /\ p = recs[c]
    OBVIOUS
  <1>2. \A r : /\ Chosen(r) => Chosen(r)'
               /\ Balanced(r, 0) => Balanced(r, 0)'
               /\ Flight(r, p) => Flight(r, p)'
    BY SameBooks DEF Chosen
  <1>3. /\ Chosen(cli[c].run) => Chosen(cli[c].run)'
        /\ Balanced(cli[c].run, 0) => Balanced(cli[c].run, 0)'
        /\ Flight(cli[c].run, recs[c]) => Flight(cli[c].run, recs[c])'
    BY <1>1, <1>2 DEF Chosen, Balanced, Flight
  <1>4. ASSUME cli[c].pc = "leave", Running(c), NEW r, Chosen(r), Flight(r, recs[c])
        PROVE  Chosen(r)' /\ Flight(r, recs[c])'
    BY <1>1, <1>2, <1>4 DEF Flight
  <1> QED
    BY <1>3, <1>4, SameBooks DEF CliBooks, Running

\* So do all of them when each that changes is not recording after it.
LEMMA CliApart ==
    ASSUME Ordered, CliSound, UNCHANGED <<dataset, ledger, made>>,
           \A d \in CommandLine :
              \/ ~Saving(d)' /\ (cli'[d].pc \in Holding => arms' = d)
              \/ /\ cli'[d] = cli[d] /\ recs'[d] = recs[d]
                 /\ cli[d].pc \in Holding => UNCHANGED arms
    PROVE  CliSound'
  <1>1. Settled'
    BY CliCut, SameBooks
  <1>2. ASSUME NEW d \in CommandLine PROVE CliBooks(d)'
    <2>1. CASE ~Saving(d)' /\ (cli'[d].pc \in Holding => arms' = d)
      BY <2>1 DEF CliBooks, Recording, Saving
    <2>2. CASE /\ cli'[d] = cli[d] /\ recs'[d] = recs[d]
               /\ cli[d].pc \in Holding => UNCHANGED arms
      BY <2>2, CliIdle DEF CliSound
    <2> QED
      BY <2>1, <2>2
  <1> QED
    BY <1>1, <1>2, CliSameDisk DEF CliSound

\* The session is left with nothing running, by the holder of the lock.
LEMMA CliGoes ==
    ASSUME Ordered, CliSound, NEW c \in CommandLine, GoLeave(c), cli[c].pc \in Holding,
           UNCHANGED <<dataset, ledger, made, arms>>, ~Running(c)',
           \A d \in CommandLine \ {c} : recs'[d] = recs[d]
    PROVE  CliSound'
  <1>1. cli'[c].pc = "leave" /\ \A d \in CommandLine \ {c} : cli'[d] = cli[d]
    BY LeaveIs DEF Ordered
  <1>2. arms' = c
    BY DEF CliSound, CliBooks
  <1>3. ~Saving(c)'
    BY <1>1 DEF Saving, Recording, Attending
  <1> QED
    BY <1>1, <1>2, <1>3, CliApart

\* A recorder runs only where it is waited for, or where it was left to itself.
LEMMA CliStill ==
    ASSUME Ordered, NEW c \in CommandLine, cli[c].pc \in {"next", "prompt", "append"}
    PROVE  ~Running(c)
  BY DEF Ordered, InOrder, Attending

\* A launch, the lock, and a refusal.
LEMMA CliArrives ==
    ASSUME Ordered, CliSound, NEW c \in CommandLine, Launch(c) \/ TakeArms(c)
    PROVE  CliSound'
  <1>1. UNCHANGED <<dataset, ledger, made, recs>> /\ CliTyped /\ cli[c] \in Locals
    BY DEF Launch, TakeArms, Ordered, CliTyped
  <1>2. \A d \in CommandLine \ {c} : cli'[d] = cli[d]
    BY <1>1 DEF Launch, TakeArms, Goto, Gone, CliTyped
  <1>3. CASE Launch(c)
    <2>1. PICK q :
             cli' = [cli EXCEPT ![c] = [Off EXCEPT !.pc = "lock", !.mode = q.mode,
                                                   !.queue = q.queue, !.lines = ledger]]
      BY <1>3 DEF Launch
    <2>2. cli'[c].pc = "lock" /\ UNCHANGED arms
      BY <1>1, <1>3, <2>1 DEF CliTyped, Off, Launch
    <2> QED
      BY <1>1, <1>2, <2>2, CliApart DEF Saving, Recording, Holding, Attending
  <1>4. CASE TakeArms(c) /\ arms = "free"
    <2>1. arms' = c /\ cli'[c] = [cli[c] EXCEPT !.pc = "next"]
      BY <1>1, <1>4 DEF TakeArms, Goto, CliTyped
    <2>2. cli'[c].pc = "next"
      BY <1>1, <2>1 DEF Locals
    <2>3. \A d \in CommandLine : cli[d].pc \notin Holding
      BY <1>4, LineNames DEF CliSound, CliBooks
    <2> QED
      BY <1>1, <1>2, <2>1, <2>2, <2>3, CliApart DEF Saving, Recording, Attending
  <1>5. CASE TakeArms(c) /\ arms # "free"
    <2>1. UNCHANGED arms /\ cli'[c].pc = "off"
      BY <1>1, <1>5, CliOff DEF TakeArms, Gone, CliTyped
    <2> QED
      BY <1>1, <1>2, <2>1, CliApart DEF Saving, Recording, Holding, Attending
  <1> QED
    BY <1>3, <1>4, <1>5

\* The end of a command line, losing power, other sessions and no step at all.
LEMMA CliDeparts ==
    ASSUME Ordered, CliSound,
           \/ \E c \in CommandLine : End(c)
           \/ PowerLoss
           \/ (OtherTakes \/ OtherReleases) /\ UNCHANGED cli
           \/ UNCHANGED commandVars
    PROVE  CliSound'
  <1>1. UNCHANGED <<dataset, ledger, made>> /\ CliTyped
    BY DEF End, PowerLoss, OtherTakes, OtherReleases, diskVars, commandVars, Ordered
  <1>2. ASSUME NEW c \in CommandLine, End(c) PROVE CliSound'
    <2>1. cli'[c].pc = "off" /\ \A d \in CommandLine \ {c} : cli'[d] = cli[d] /\ recs'[d] = recs[d]
      BY <1>1, <1>2, CliOff DEF End, Gone, CliTyped
    <2>2. \A d \in CommandLine \ {c} : cli[d].pc \in Holding => UNCHANGED arms
      BY <1>2 DEF CliSound, CliBooks, End
    <2>3. ~Saving(c)' /\ cli'[c].pc \notin Holding
      BY <2>1 DEF Saving, Recording, Holding, Attending
    <2> QED
      BY <1>1, <2>1, <2>2, <2>3, CliApart
  <1>3. CASE PowerLoss
    <2>1. \A d \in CommandLine : cli'[d].pc = "off"
      BY <1>3, CliOff DEF PowerLoss
    <2> QED
      BY <1>1, <2>1, CliApart DEF Saving, Recording, Holding, Attending
  <1>4. CASE (OtherTakes \/ OtherReleases) /\ UNCHANGED cli
    <2>1. \A d \in CommandLine : cli[d].pc \notin Holding
      BY <1>4, LineNames DEF CliSound, CliBooks, OtherTakes, OtherReleases
    <2> QED
      BY <1>1, <1>4, <2>1, CliApart DEF OtherTakes, OtherReleases, diskVars
  <1>5. CASE UNCHANGED commandVars
    BY <1>1, <1>5, CliApart DEF commandVars
  <1> QED
    BY <1>2, <1>3, <1>4, <1>5

\* A session begins with a fresh episode count and all it lacks to come, if the
\* copy of the ledger is the ledger.
LEMMA CliBeginBooks ==
    ASSUME Ordered, CliSound, FreshAtLock, NEW c \in CommandLine, BeginSession(c),
           ~GoLeave(c)
    PROVE  CliSound'
  <1>1. /\ CliBooks(c) /\ CliTyped /\ UNCHANGED <<dataset, ledger, made, arms>>
        /\ cli[c].pc = "next" /\ cli[c] \in Locals
    BY DEF CliSound, Ordered, BeginSession, CliTyped
  <1>2. cli[c].lines = ledger /\ ~Disagree(ledger) /\ Settled
    BY <1>1, CliCut DEF FreshAtLock
  <1> DEFINE s == Head(cli[c].queue)
             resume == Count # None
  <1>a. resume \in BOOLEAN
    OBVIOUS
  <1>3. /\ cli[c].queue # <<>> /\ ~Exhausted(ledger, s)
        /\ cli' = [cli EXCEPT ![c].pc = "prompt", ![c].interrupted = FALSE,
                     ![c].run = [session |-> s, before |-> Episodes,
                                 want |-> Remaining(ledger, s), resume |-> resume]]
    BY <1>2 DEF BeginSession
  <1>4. s \in Sess
    BY <1>1, <1>3 DEF Locals
  <1> HIDE DEF resume, s
  <1>5. PICK r : r = [session |-> s, before |-> Episodes,
                      want |-> Remaining(ledger, s), resume |-> resume]
    OBVIOUS
  <1>6. Chosen(r) /\ Balanced(r, 0) /\ r.before = Episodes
    BY <1>2, <1>3, <1>4, <1>5, <1>a, Choosable, OrderedDisk
  <1>7. /\ cli'[c] = [cli[c] EXCEPT !.pc = "prompt", !.interrupted = FALSE, !.run = r]
        /\ \A d \in CommandLine \ {c} : cli'[d] = cli[d]
    BY <1>1, <1>3, <1>5 DEF CliTyped
  <1>8. cli'[c].pc = "prompt" /\ cli'[c].run = r /\ cli'[c].lines = cli[c].lines
    BY <1>1, <1>7 DEF Locals
  <1>9. CliBooks(c)'
    BY <1>1, <1>2, <1>6, <1>8, SameBooks DEF CliBooks, Chosen, Balanced, Holding, Attending
  <1> QED
    BY <1>1, <1>7, <1>8, <1>9, CliSameDisk, CliOne DEF Holding, Saving, Recording

\* Enter at the prompt: nothing is saved yet.
LEMMA CliRecordBooks ==
    ASSUME Ordered, CliSound, NEW c \in CommandLine, Record(c)
    PROVE  CliSound'
  <1>1. /\ CliBooks(c) /\ CliTyped /\ UNCHANGED <<dataset, ledger, made, arms>>
        /\ cli[c].pc = "prompt" /\ cli[c] \in Locals
    BY DEF CliSound, Ordered, Record, CliTyped
  <1>2. PICK r, p : r = cli[c].run /\ p = Spawned(r.session, r.want, r.resume)
    OBVIOUS
  <1>3. /\ recs'[c] = p /\ cli'[c] = [cli[c] EXCEPT !.pc = "spawned"]
        /\ \A d \in CommandLine \ {c} : cli'[d] = cli[d]
    BY <1>1, <1>2 DEF Record, Goto, CliTyped, Spawned
  <1>4. cli'[c].pc = "spawned" /\ cli'[c].run = r /\ cli'[c].lines = cli[c].lines
    BY <1>1, <1>2, <1>3 DEF Locals
  <1>5. Chosen(r) /\ Flight(r, p)
    BY <1>1, <1>2, FlightStarts DEF CliBooks, Recording
  <1>6. Flight(r, p)' /\ Chosen(r)'
    BY <1>1, <1>5, SameBooks DEF Chosen
  <1>7. CliBooks(c)'
    BY <1>1, <1>3, <1>4, <1>6, SameBooks
       DEF CliBooks, Chosen, Flight, Balanced, Holding, Recording, Attending
  <1> QED
    BY <1>1, <1>3, <1>4, <1>7, CliSameDisk, CliOne DEF Holding, Saving, Recording, Attending

\* A recorder that is told to stop has saved what it had.
LEMMA FlightSignals ==
    ASSUME NEW r, NEW p, Flight(r, p), NEW q, q = p \/ q = Signalled(p)
    PROVE  Flight(r, q)
  <1>1. p \in RecProc
    BY DEF Flight
  <1>2. /\ q \in RecProc /\ q.session = p.session /\ q.want = p.want /\ q.saved = p.saved
        /\ q.opened = p.opened
    BY <1>1, SignalKeeps
  <1> QED
    BY <1>2 DEF Flight

\* Into the try block, Ctrl+C in the wait loop and its handler: what is in flight
\* stays so, and so does the copy of the ledger.
LEMMA CliWaitBooks ==
    ASSUME Ordered, CliSound, NEW c \in CommandLine,
           Await(c) \/ (CtrlC(c) /\ cli[c].pc = "wait") \/ HandleCtrlC(c)
    PROVE  CliSound'
  <1>1. /\ CliBooks(c) /\ CliTyped /\ UNCHANGED <<dataset, ledger, made, arms>>
        /\ cli[c].pc \in Attending /\ cli[c] \in Locals
    BY DEF CliSound, Ordered, CtrlC, Await, HandleCtrlC, CliTyped, Attending
  <1>2. PICK r, p, q : r = cli[c].run /\ p = recs[c] /\ q = recs'[c]
    OBVIOUS
  <1>3. Chosen(r) /\ Flight(r, p)
    BY <1>1, <1>2 DEF CliBooks, Recording
  <1>4. /\ q = p \/ q = Signalled(p)
        /\ cli'[c].run = r /\ cli'[c].lines = cli[c].lines /\ cli'[c].pc \in Attending
        /\ \A d \in CommandLine \ {c} : cli'[d] = cli[d]
    <2>1. CASE HandleCtrlC(c)
      BY <1>2, <2>1, HandlerIs DEF Attending
    <2>2. ASSUME NEW step \in Attending, Goto(c, step), UNCHANGED recs
          PROVE  /\ q = p
                 /\ cli'[c].run = r /\ cli'[c].lines = cli[c].lines /\ cli'[c].pc \in Attending
                 /\ \A d \in CommandLine \ {c} : cli'[d] = cli[d]
      <3>1. /\ cli'[c] = [cli[c] EXCEPT !.pc = step]
            /\ \A d \in CommandLine \ {c} : cli'[d] = cli[d]
        BY <1>1, <2>2 DEF Goto, CliTyped
      <3>2. cli'[c].run = cli[c].run /\ cli'[c].lines = cli[c].lines /\ cli'[c].pc = step
        BY <1>1, <3>1 DEF Locals
      <3> QED
        BY <1>2, <2>2, <3>1, <3>2
    <2> QED
      BY <2>1, <2>2 DEF Await, CtrlC, Attending
  <1>5. Flight(r, q)
    BY <1>3, <1>4, FlightSignals
  <1>6. Flight(r, q)' /\ Chosen(r)'
    BY <1>1, <1>3, <1>5, SameBooks DEF Chosen
  <1>7. CliBooks(c)'
    BY <1>1, <1>2, <1>4, <1>6
       DEF CliBooks, Chosen, Flight, Balanced, Holding, Recording, Attending
  <1> QED
    BY <1>1, <1>4, <1>7, CliSameDisk, CliOne DEF Holding, Saving, Recording

\* A run that leaves its recorder running still has the lock, for the moment.
LEMMA CliAbandons ==
    ASSUME Ordered, CliSound, NEW c \in CommandLine, CtrlC(c),
           cli[c].pc \in {"spawned", "handler"}
    PROVE  CliSound'
  <1>1. /\ CliBooks(c) /\ CliTyped /\ UNCHANGED <<dataset, ledger, made, arms>>
        /\ GoLeave(c) /\ arms = c
    BY DEF CliSound, CliBooks, Ordered, CtrlC, CliTyped, Holding, Attending
  <1>2. PICK r, p, q : r = cli[c].run /\ p = recs[c] /\ q = recs'[c]
    OBVIOUS
  <1>3. Chosen(r) /\ Flight(r, p)
    BY <1>1, <1>2 DEF CliBooks, Recording, Attending
  <1>4. q = p \/ q = Signalled(p)
    BY <1>1, <1>2 DEF CtrlC, CliTyped
  <1>5. Flight(r, q)
    BY <1>3, <1>4, FlightSignals
  <1>6. Flight(r, q)' /\ Chosen(r)'
    BY <1>1, <1>3, <1>5, SameBooks DEF Chosen
  <1>7. cli'[c].pc = "leave" /\ \A d \in CommandLine \ {c} : cli'[d] = cli[d]
    BY <1>1, LeaveIs
  <1>8. (\E x : Chosen(x) /\ Flight(x, recs[c]))'
    BY <1>2, <1>6 DEF Flight
  <1>9. CliBooks(c)'
    BY <1>1, <1>7, <1>8 DEF CliBooks, Recording, Attending
  <1>10. Settled'
    BY <1>1, CliCut, SameBooks
  <1> QED
    BY <1>1, <1>7, <1>9, <1>10, CliSameDisk, CliOne DEF Holding, Attending

\* Verification counts what the recorder left.
LEMMA CliVerifyBooks ==
    ASSUME Ordered, CliSound, NEW c \in CommandLine, VerifySession(c)
    PROVE  CliSound'
  <1>1. /\ CliBooks(c) /\ CliTyped /\ UNCHANGED <<dataset, ledger, made, arms, recs>>
        /\ cli[c].pc = "wait" /\ cli[c] \in Locals
    BY DEF CliSound, Ordered, VerifySession, CliTyped
  <1>2. PICK r, p : r = cli[c].run /\ p = recs[c]
    OBVIOUS
  <1>3. Chosen(r) /\ Flight(r, p)
    BY <1>1, <1>2 DEF CliBooks, Recording, Attending
  <1>4. PICK tasksOk \in BOOLEAN :
           cli' = [cli EXCEPT ![c].pc = "append",
                              ![c].result = Verify(cli[c].run.before, cli[c].run.want,
                                                       recs[c].code, FALSE, tasksOk)]
    BY DEF VerifySession
  <1> DEFINE v == Verify(cli[c].run.before, cli[c].run.want, recs[c].code, FALSE, tasksOk)
  <1>5. v.after = Count
    BY DEF Verify
  <1>6. ASSUME ~v.problems PROVE dataset.info /\ Count - r.before = r.want
    BY <1>2, <1>6, LedgerAssumption DEF Verify, Count
  <1> HIDE DEF v
  <1>7. /\ cli'[c] = [cli[c] EXCEPT !.pc = "append", !.result = v]
        /\ \A d \in CommandLine \ {c} : cli'[d] = cli[d]
    BY <1>1, <1>4 DEF v, CliTyped
  <1>8. /\ cli'[c].pc = "append" /\ cli'[c].result = v /\ cli'[c].run = cli[c].run
        /\ cli'[c].lines = cli[c].lines
    BY <1>1, <1>7 DEF Locals
  <1>9. Flight(r, p)' /\ Chosen(r)'
    BY <1>1, <1>3, SameBooks DEF Chosen
  <1>a. ~v.problems => dataset.info /\ Episodes - r.before = r.want
    BY <1>6 DEF Count, Episodes
  <1>10. CliBooks(c)'
    BY <1>1, <1>2, <1>5, <1>8, <1>9, <1>a, SameBooks
       DEF CliBooks, Chosen, Flight, Balanced, Holding, Recording, Attending
  <1> QED
    BY <1>1, <1>7, <1>8, <1>10, CliSameDisk, CliOne DEF Holding, Saving, Recording, Attending

\* The line tells of all that was recorded, and the next session starts only if
\* that is all there was to record.
LEMMA CliAppendBooks ==
    ASSUME Ordered, CliSound, NEW c \in CommandLine, AppendSessionLine(c)
    PROVE  /\ CliSound'
           /\ cli'[c].pc = "next" => cli'[c].lines = ledger' /\ ~Disagree(ledger)'
  <1>1. /\ CliBooks(c) /\ CliTyped /\ UNCHANGED <<dataset, made, arms>> /\ cli[c].pc = "append"
        /\ cli[c] \in Locals /\ WithinPlan /\ LedgerChains /\ Disk
        /\ recs' = [recs EXCEPT ![c] = NoProc] /\ arms = c
    BY OrderedDisk DEF CliSound, CliBooks, Ordered, AppendSessionLine, CliTyped, Holding
  <1>2. ~Running(c)' /\ \A d \in CommandLine \ {c} : recs'[d] = recs[d]
    BY <1>1 DEF CliTyped, Running
  <1>3. CASE UNCHANGED ledger /\ GoLeave(c)
    <2>1. CliSound'
      BY <1>1, <1>2, <1>3, CliGoes DEF Holding
    <2> QED
      BY <1>1, <1>3, <2>1, LeaveIs
  <1>4. CASE ~(UNCHANGED ledger /\ GoLeave(c))
    <2>1. PICK r, p, line : r = cli[c].run /\ p = recs[c] /\ line = SessionLine(c)
      OBVIOUS
    <2>2. /\ Chosen(r) /\ Flight(r, p) /\ cli[c].result.after = Count /\ cli[c].lines = ledger
          /\ ~cli[c].result.problems => dataset.info /\ Episodes - r.before = r.want
      BY <1>1, <2>1 DEF CliBooks, Recording
    <2>3. /\ line \in Line /\ line.session = r.session /\ line.before = r.before
          /\ line.after = Count
          /\ line.status = "ok" => ~cli[c].result.problems
      BY <2>1, <2>2, SessionLineIs
    <2>4. ledger' = Append(ledger, line)
      BY <1>4, <2>1 DEF AppendSessionLine
    <2>5. line.status = "ok" => p.saved = r.want
      BY <2>2, <2>3 DEF Flight, RecProc, Chosen
    <2>6. WithinPlan' /\ \A s \in Sess : made'[s] = Recorded(ledger', s)
      BY <1>1, <2>2, <2>3, <2>4, <2>5, LineSettles
    <2>7. LedgerChains' /\ Expected(ledger') = line.after
      BY <1>1, <2>2, <2>3, <2>4, ChainAppend DEF Chosen, Disk
    <2>8. /\ \A d \in CommandLine \ {c} : cli'[d] = cli[d]
          /\ cli'[c].pc \in {"leave", "next"}
          /\ cli'[c].pc = "next" =>
                cli'[c].lines = ledger' /\ ~cli[c].result.problems
      <3>1. CASE GoLeave(c)
        BY <1>1, <3>1, LeaveIs
      <3>2. CASE ~GoLeave(c)
        BY <2>1, <2>2, <2>3, <2>4, <3>2, NextIs
      <3> QED
        BY <3>1, <3>2
    <2>9. CliBooks(c)'
      BY <1>1, <1>2, <2>8 DEF CliBooks, Recording, Attending
    <2>10. CliSound'
      BY <1>1, <2>6, <2>7, <2>8, <2>9, CliOne DEF Holding, Settled
    <2>11. cli'[c].pc = "next" => ~Disagree(ledger)'
      BY <1>1, <2>2, <2>3, <2>7, <2>8 DEF Disagree, Episodes, Count
    <2> QED
      BY <2>8, <2>10, <2>11
  <1> QED
    BY <1>3, <1>4

\* What the recorder saves is in flight until the line; if its run has left it, the
\* dataset shows it when it ends.
LEMMA CliRecorderBooks ==
    ASSUME Ordered, CliSound, RecorderStep({c \in CommandLine : cli[c].pc # "off"}),
           UNCHANGED <<cli, arms>>
    PROVE  CliSound'
  <1>1. PICK c \in CommandLine :
            /\ RecorderOpens(c) \/ RecorderSaves(c) \/ RecorderFails(c) \/ RecorderExits(c)
            /\ Running(c) /\ cli[c].pc # "off"
    BY DEF RecorderStep, RecorderOpens, RecorderSaves, RecorderFails, RecorderExits
  <1>2. /\ CliBooks(c) /\ CliTyped /\ cli[c].pc \in Attending \cup {"leave"}
        /\ WithinPlan /\ LedgerChains /\ Disk
    BY <1>1, OrderedDisk DEF CliSound, Ordered, InOrder
  <1>3. PICK p, q : p = recs[c] /\ q = recs'[c]
    OBVIOUS
  <1>4. PICK r : Chosen(r) /\ Flight(r, p) /\ (cli[c].pc \in Attending => r = cli[c].run)
    BY <1>1, <1>2, <1>3 DEF CliBooks, Recording, Attending
  <1>5. p \in RecProc /\ (p.opened => dataset.info)
    BY <1>4 DEF Flight
  <1>6. UNCHANGED ledger /\ (Saved(p, q) \/ Unsaved(p, q))
    BY <1>1, <1>2, <1>3, <1>5, RecorderKinds DEF CliTyped
  <1>7. WithinPlan' /\ Flight(r, q)'
    BY <1>2, <1>4, <1>6, FlightSteps
  <1>8. Chosen(r)'
    BY <1>4, <1>6 DEF Chosen, Expected, Remaining
  <1>9. (\E x : Chosen(x) /\ Flight(x, recs[c]))'
    BY <1>3, <1>7, <1>8 DEF Flight
  <1>10. CliBooks(c)'
    <2>1. CASE cli[c].pc = "leave"
      BY <1>2, <1>9, <2>1 DEF CliBooks, Recording, Holding, Attending
    <2>2. CASE cli[c].pc \in Attending
      <3>1. (Chosen(cli[c].run) /\ Flight(cli[c].run, recs[c]))'
        BY <1>3, <1>4, <1>7, <1>8, <2>2 DEF Chosen, Flight, Balanced
      <3> QED
        BY <1>2, <1>4, <1>6, <2>2, <3>1 DEF CliBooks, Recording, Attending
    <2> QED
      BY <1>2, <2>1, <2>2
  <1>11. LedgerChains'
    BY <1>2, <1>6 DEF LedgerChains
  <1>12. Settled'
    <2>1. /\ q.saved \in Nat /\ Episodes' = r.before + q.saved
          /\ \A s \in Sess : made'[s] = Recorded(ledger, s)
                                + (IF s = r.session THEN q.saved ELSE 0)
          /\ r.before \in Nat /\ r.before = Expected(ledger)
      BY <1>4, <1>6, <1>7 DEF Flight, RecProc, Balanced, Chosen
    <2>2. \A s \in Sess : Recorded(ledger, s) \in Nat
      BY <1>2, RecordedIsNat DEF Disk
    <2>3. CASE q.saved = 0
      BY <1>6, <2>1, <2>2, <2>3 DEF Settled
    <2>4. CASE q.saved # 0
      BY <1>6, <2>1, <2>4 DEF Settled, Disagree, Expected
    <2> QED
      BY <2>3, <2>4
  <1> QED
    BY <1>2, <1>7, <1>10, <1>11, <1>12, CliOne DEF Holding

\* Every step of the command lines keeps the books, as long as none begins a
\* session with a copy that another has overtaken and none has left a recorder.
LEMMA CliNextBooks ==
    ASSUME Ordered, CliSound, FreshAtLock, Attended, [CommandNext]_commandVars
    PROVE  CliSound'
  <1>1. ASSUME NEW c \in CommandLine, GoLeave(c), UNCHANGED <<dataset, ledger, made, recs, arms>>,
               cli[c].pc \in {"next", "prompt", "append"}
        PROVE  CliSound'
    <2>1. ~Running(c)'
      BY <1>1, CliStill DEF Running
    <2> QED
      BY <1>1, <2>1, CliGoes DEF Holding
  <1>2. ASSUME NEW c \in CommandLine, BeginSession(c) PROVE CliSound'
    BY <1>1, <1>2, CliBeginBooks DEF BeginSession
  <1>3. ASSUME NEW c \in CommandLine, Quit(c) PROVE CliSound'
    BY <1>1, <1>3 DEF Quit
  <1>4. ASSUME NEW c \in CommandLine, CtrlC(c) PROVE CliSound'
    <2>1. CASE cli[c].pc = "lock"
      <3>1. /\ cli'[c].pc = "off" /\ \A d \in CommandLine \ {c} : cli'[d] = cli[d]
            /\ UNCHANGED <<dataset, ledger, made, arms, recs>>
        BY <1>4, <2>1, CliOff DEF CtrlC, Gone, Ordered, CliTyped
      <3> QED
        BY <3>1, CliApart DEF Saving, Recording, Holding, Attending
    <2>2. CASE cli[c].pc \in {"next", "append"}
      BY <1>1, <1>4, <2>2 DEF CtrlC
    <2> QED
      BY <1>4, <2>1, <2>2, CliWaitBooks, CliAbandons DEF CtrlC
  <1>5. ASSUME NEW c \in CommandLine, Leave(c) \/ Dies(c) PROVE CliSound'
    BY <1>5, CliDeparts DEF Leave, Dies
  <1>6. \A c \in CommandLine : ~LeftBehind(c)
    BY DEF LeftBehind, Attended, RecorderOpens, RecorderSaves
  <1> QED
    BY <1>2, <1>3, <1>4, <1>5, <1>6, CliArrives, CliDeparts, CliRecordBooks, CliWaitBooks,
       CliVerifyBooks, CliAppendBooks, CliRecorderBooks DEF CommandNext

\* The books are what the ledger promises.
LEMMA CliBooksSound == Ordered /\ CliSound => LedgerSound
  BY CliCut DEF CliSound, WithinPlan, LedgerSound, NothingPassedOver

\* Any number of command lines side by side keep plan, ledger and dataset in step,
\* through Ctrl+C at any moment, deaths, failed appends and power losses, as long as
\* none takes the lock with a copy of the ledger that another has overtaken (main
\* reads the ledger before it takes the lock and never again, collect.py:312, 374)
\* and none ends before its recorder (210-213, 222-226).
THEOREM CommandLinesSound == CommandSpec => SoundUnlessStale
  <1>1. Ordered /\ CliSound /\ FreshAtLock /\ Attended /\ [CommandNext]_commandVars => CliSound'
    BY CliNextBooks
  <1> QED
    BY CliInit, CliNext, CliSoundInit, CliBooksSound, <1>1, PTL DEF CommandSpec, SoundUnlessStale

\* A copy of the ledger on its way to the first session.
Copied(c) == cli[c].pc \in {"lock", "next"} => cli[c].lines = ledger /\ ~Disagree(ledger)

\* Where there is one command line and it waits for its recorder, nothing overtakes
\* its copy.
LEMMA CliCopies ==
    ASSUME NEW c, CommandLine = {c}, Ordered, CliSound, Copied(c), Attended,
           [CommandNext]_commandVars
    PROVE  Copied(c)'
  <1>0. CliTyped /\ cli[c] \in Locals /\ InOrder(c)
    BY DEF Ordered, CliTyped
  <1>1. CASE Launch(c)
    <2>1. PICK q :
             cli' = [cli EXCEPT ![c] = [Off EXCEPT !.pc = "lock", !.mode = q.mode,
                                                   !.queue = q.queue, !.lines = ledger]]
      BY <1>1 DEF Launch
    <2>2. cli'[c].lines = ledger /\ UNCHANGED <<dataset, ledger>> /\ ~Disagree(ledger)
      BY <1>0, <1>1, <2>1 DEF Launch, CliTyped, Off
    <2> QED
      BY <2>2, SameAgreement DEF Copied
  <1>2. CASE TakeArms(c) /\ arms = "free"
    <2>1. /\ cli'[c] = [cli[c] EXCEPT !.pc = "next"] /\ cli[c].pc = "lock"
          /\ UNCHANGED <<dataset, ledger>>
      BY <1>0, <1>2 DEF TakeArms, Goto, CliTyped
    <2>2. cli'[c].lines = cli[c].lines
      BY <1>0, <2>1 DEF Locals
    <2> QED
      BY <2>1, <2>2, SameAgreement DEF Copied
  <1>3. CASE GoLeave(c) \/ Gone(c) \/ HandleCtrlC(c)
    <2>1. cli'[c].pc \in {"leave", "off", "wait"}
      BY <1>0, <1>3, LeaveIs, HandlerIs, CliOff DEF Gone, CliTyped
    <2> QED
      BY <2>1 DEF Copied
  <1>4. CASE BeginSession(c) /\ ~GoLeave(c)
    <2>1. PICK r : cli' = [cli EXCEPT ![c].pc = "prompt", ![c].interrupted = FALSE, ![c].run = r]
      BY <1>4 DEF BeginSession
    <2>2. cli'[c].pc = "prompt"
      BY <1>0, <2>1 DEF CliTyped, Locals
    <2> QED
      BY <2>2 DEF Copied
  <1>5. ASSUME NEW step \in Attending, Goto(c, step) PROVE Copied(c)'
    <2>1. cli'[c].pc = step
      BY <1>0, <1>5 DEF Goto, CliTyped, Locals
    <2> QED
      BY <2>1 DEF Copied, Attending
  <1>6. CASE VerifySession(c)
    <2>1. PICK v : cli' = [cli EXCEPT ![c].pc = "append", ![c].result = v]
      BY <1>6 DEF VerifySession
    <2>2. cli'[c].pc = "append"
      BY <1>0, <2>1 DEF CliTyped, Locals
    <2> QED
      BY <2>2 DEF Copied
  <1>7. CASE AppendSessionLine(c) /\ ~GoLeave(c)
    BY <1>7, NextIs, CliAppendBooks DEF Copied
  <1>8. CASE PowerLoss
    <2>1. cli'[c].pc = "off"
      BY <1>0, <1>8, CliOff DEF PowerLoss, CliTyped
    <2> QED
      BY <2>1 DEF Copied
  <1>9. CASE RecorderStep({d \in CommandLine : cli[d].pc # "off"}) /\ UNCHANGED <<cli, arms>>
    <2>1. Running(c)
      BY <1>9 DEF RecorderStep, RecorderOpens, RecorderSaves, RecorderFails, RecorderExits
    <2>2. cli[c].pc \notin {"lock", "next"}
      BY <1>0, <2>1 DEF InOrder, Attending
    <2> QED
      BY <1>9, <2>2 DEF Copied
  <1>10. CASE ((OtherTakes \/ OtherReleases) /\ UNCHANGED cli) \/ UNCHANGED commandVars
    BY <1>10, SameAgreement DEF OtherTakes, OtherReleases, diskVars, commandVars, Copied
  <1>11. ~LeftBehind(c)
    BY DEF LeftBehind, Attended, RecorderOpens, RecorderSaves
  <1>12. CASE TakeArms(c) \/ Record(c) \/ Await(c) \/ Quit(c) \/ CtrlC(c) \/ Leave(c) \/ Dies(c)
    BY <1>2, <1>3, <1>5, <1>12
       DEF TakeArms, Record, Await, Quit, CtrlC, Leave, Dies, End, Attending
  <1> QED
    BY <1>1, <1>3, <1>4, <1>6, <1>7, <1>8, <1>9, <1>10, <1>11, <1>12 DEF CommandNext

\* One command line at a time on a dataset, whose recorder never outlives it, needs
\* no other condition: plan, ledger and dataset are in step through Ctrl+C, failed
\* appends and power losses, and no episode without a line is passed over.
THEOREM CliLedgerIsSound ==
    ASSUME NEW c, CommandLine = {c}
    PROVE  CommandSpec => ([]Attended => []LedgerSound)
  <1>1. CommandInit => Copied(c)
    BY CliOff DEF CommandInit, Copied
  <1>2. Copied(c) => FreshAtLock
    BY DEF Copied, FreshAtLock
  <1>3. Ordered /\ CliSound /\ Copied(c) /\ Attended /\ [CommandNext]_commandVars
        => CliSound' /\ Copied(c)'
    BY <1>2, CliNextBooks, CliCopies
  <1> QED
    BY CliInit, CliNext, CliSoundInit, CliBooksSound, <1>1, <1>3, PTL DEF CommandSpec

===============================================================================
