-------------------------- MODULE DatasetSync_proofs --------------------------
(***************************************************************************)
(* Proofs about DatasetSync, for every set of files and all bounds: the    *)
(* manifest on the host is true, a run that says SYNCED has published what *)
(* it hashed, and what is published never changes.  The inductive          *)
(* invariant says what is known of the host at the steps that act on it,   *)
(* and of the commands it may still carry out.                             *)
(***************************************************************************)
EXTENDS DatasetSync, TLAPS

\* A manifest, written or still to be written, is of the directory in place; so is
\* the hash of a run about to write one; and the copy of a run about to rename is
\* what it verified, unless a late rename took it.
HostKnown ==
    /\ manifest # NoManifest => final = manifest
    /\ lateWrite # NoManifest => final = lateWrite
    /\ run.pc = "write" => final = run.local
    /\ run.pc = "rename" => incoming \in {run.local, NoTree}

\* The receiver always has a directory; one moved under it has no manifest yet.
ReceiverKnown ==
    /\ run.pc = "transfer" => Target # NoTree
    /\ run.moved => /\ run.pc = "transfer" /\ incoming = NoTree
                    /\ manifest = NoManifest /\ lateWrite = NoManifest

\* A run that has not ended has no outcome, one that is done has its manifest.
OutcomeKnown == outcome = "synced" => run.pc = "idle" /\ manifest = run.local

IInv == TypeOK /\ HostKnown /\ ReceiverKnown /\ OutcomeKnown /\ lateRename <= faults

-------------------------------------------------------------------------------
\* The marks for a missing file, a torn one and a missing tree are told apart.
LEMMA Distinct ==
    /\ NoTree \notin Copy /\ NoTree \notin Tree /\ NoManifest \notin Tree /\ Tree \subseteq Copy
    /\ Empty \in Tree
BY SyncAssumption DEF Tree, Copy, Empty

\* A run that has ended is a run.
LEMMA IdleTyped == \A l \in Tree : Idle(l) \in Runs
BY Distinct DEF Idle, Runs, Steps

\* At the start nothing is on the host.
LEMMA InitIInv == Init => IInv
  <1> SUFFICES ASSUME Init PROVE IInv
    OBVIOUS
  <1>1. source \in Tree
    BY SyncAssumption DEF Init, Tree
  <1>2. run \in Runs /\ run.pc = "idle" /\ run.moved = FALSE
    BY Distinct, IdleTyped DEF Init, Idle
  <1> QED
    BY <1>1, <1>2, SyncAssumption DEF Init, IInv, TypeOK, HostKnown, ReceiverKnown, OutcomeKnown,
       Ends

(* A run that goes on or ends stays a run. *)
LEMMA RunStays ==
    ASSUME run \in Runs
    PROVE  /\ \A pc \in Steps : [run EXCEPT !.pc = pc] \in Runs
           /\ \A f : [run EXCEPT !.todo = @ \ {f}] \in Runs
           /\ [run EXCEPT !.stop = TRUE] \in Runs
           /\ \A b \in BOOLEAN : [run EXCEPT !.moved = @ \/ b] \in Runs
           /\ \A b \in BOOLEAN : [run EXCEPT !.moved = b] \in Runs
BY DEF Runs

(* However a run ends, and whatever its last step left half done on the host. *)
LEMMA EndTyped ==
    ASSUME TypeOK, NEW how \in Ends, End(how)
    PROVE  run' \in Runs /\ outcome' \in Ends
  <1>1. run.local \in Tree
    BY DEF TypeOK, Runs
  <1> QED
    BY <1>1, IdleTyped DEF End, Ends

\* A receiver that is cut off leaves trees.
LEMMA ReceivesTyped ==
    ASSUME TypeOK, NEW t \in Copy, Receives(t)
    PROVE  incoming' \in Copy \cup {NoTree} /\ final' \in Copy \cup {NoTree}
BY DEF Receives, TypeOK

\* A rename of the staging directory leaves trees.
LEMMA MovesTyped ==
    ASSUME TypeOK, Moves
    PROVE  incoming' \in Copy \cup {NoTree} /\ final' \in Copy \cup {NoTree}
BY DEF Moves, TypeOK

\* Whatever a cut-off step leaves has its type.
LEMMA CutShortTyped ==
    ASSUME IInv, CutShort, faults' = faults + 1 \/ ~At("rename")
    PROVE  /\ incoming' \in Copy \cup {NoTree} /\ final' \in Copy \cup {NoTree}
           /\ manifest' \in Tree \cup {NoManifest} /\ lateWrite' \in Tree \cup {NoManifest}
           /\ lateRename' \in Nat /\ (lateRename' <= lateRename + 1)
           /\ ~At("rename") => lateRename' = lateRename
  <1> USE DEF IInv
  <1>1. CASE At("transfer")
    <2>1. Target \in Copy
      BY <1>1 DEF ReceiverKnown, TypeOK, Target, At
    <2>2. PICK t \in Torn : Receives(t)
      BY <1>1 DEF CutShort, At
    <2>3. t \in Copy
      BY <2>1, <2>2, SyncAssumption DEF Copy, Torn
    <2> QED
      BY <1>1, <2>2, <2>3, ReceivesTyped DEF CutShort, TypeOK, At
  <1>2. CASE At("rename")
    BY <1>2, MovesTyped DEF CutShort, TypeOK, At
  <1>3. CASE At("write") /\ source[Meta] # Gone
    <2>1. run.local \in Tree
      BY DEF TypeOK, Runs
    <2> QED
      BY <1>3, <2>1 DEF CutShort, TypeOK, At
  <1>4. CASE ~At("transfer") /\ ~At("rename") /\ ~(At("write") /\ source[Meta] # Gone)
    BY <1>4 DEF CutShort, HostSame, host, TypeOK
  <1> QED
    BY <1>1, <1>2, <1>3, <1>4

-------------------------------------------------------------------------------
(* Every step keeps the types. *)
LEMMA StepTyped ==
    ASSUME IInv, [Next]_vars
    PROVE  TypeOK'
  <1> USE DEF HereSame, HostSame, host
  <1>0. TypeOK /\ run.local \in Tree /\ run.listed \in Tree /\ source \in Tree
    BY DEF IInv, TypeOK, Runs
  <1>1. ASSUME NEW f \in File, Edit(f) PROVE TypeOK'
    <2>1. edits + 1 \in 0 .. MaxEdits /\ edits' = edits + 1
      BY <1>0, <1>1, SyncAssumption DEF Edit, TypeOK
    <2>2. source' \in Tree
      BY <1>0, <1>1, <2>1 DEF Edit, Tree
    <2> QED
      BY <1>0, <1>1, <2>1, <2>2 DEF Edit, TypeOK
  <1>2. CASE Start
    <2>1. CASE source[Meta] = Gone
      BY <1>0, <1>2, <2>1 DEF Start, TypeOK, Ends
    <2>2. CASE source[Meta] # Gone /\ CacheValid
      <3>1. cache.files \in Tree
        BY <1>0, <2>2 DEF CacheValid, TypeOK
      <3>2. run' \in Runs
        BY <1>2, <2>2, <3>1, Distinct DEF Start, Idle, Runs, Steps
      <3> QED
        BY <1>0, <1>2, <2>2, <3>2 DEF Start, TypeOK, Ends
    <2>3. CASE source[Meta] # Gone /\ ~CacheValid
      <3>1. run' \in Runs
        BY <1>0, <1>2, <2>3, Distinct DEF Start, Idle, Runs, Steps
      <3> QED
        BY <1>0, <1>2, <2>3, <3>1 DEF Start, TypeOK, Ends
    <2> QED
      BY <2>1, <2>2, <2>3
  <1>3. CASE Walk
    <2>1. run' \in Runs
      BY <1>0, <1>3 DEF Walk, TypeOK, Runs, Steps
    <2> QED
      BY <1>0, <1>3, <2>1 DEF Walk, TypeOK
  <1>4. ASSUME NEW f \in File, HashFile(f) PROVE TypeOK'
    <2>1. CASE source[f] = Gone
      BY <1>0, <1>4, <2>1, EndTyped DEF HashFile, TypeOK, Ends
    <2>2. CASE source[f] # Gone
      <3>1. [run.local EXCEPT ![f] = source[f]] \in Tree
        BY <1>0 DEF Tree
      <3>2. run' \in Runs
        BY <1>0, <1>4, <2>2, <3>1 DEF HashFile, TypeOK, Runs
      <3> QED
        BY <1>0, <1>4, <2>2, <3>2 DEF HashFile, TypeOK
    <2> QED
      BY <2>1, <2>2
  <1>5. CASE Hashed
    <2>1. run' \in Runs
      BY <1>0, <1>5 DEF Hashed, Goto, TypeOK, Runs, Steps
    <2> QED
      BY <1>0, <1>5, <2>1 DEF Hashed, TypeOK
  <1>6. CASE Probe \/ Orphan \/ Verify
    <2>1. run' \in Runs /\ outcome' \in Ends
      <3>1. CASE \E how \in Ends : End(how)
        BY <1>0, <3>1, EndTyped
      <3>2. CASE (\E pc \in Steps : Goto(pc)) /\ UNCHANGED outcome
        BY <1>0, <3>2, RunStays DEF Goto, TypeOK
      <3> QED
        BY <1>6, <3>1, <3>2 DEF Probe, Orphan, Verify, Steps, Ends
    <2> QED
      BY <1>0, <1>6, <2>1 DEF Probe, Orphan, Verify, TypeOK
  <1>7. CASE Begin
    <2>1. run' \in Runs
      BY <1>0, <1>7 DEF Begin, TypeOK, Runs, Steps
    <2>2. incoming' \in Copy
      BY <1>0, <1>7, Distinct DEF Begin, TypeOK
    <2> QED
      BY <1>0, <1>7, <2>1, <2>2 DEF Begin, TypeOK
  <1>8. ASSUME NEW f \in File, CopyFile(f) PROVE TypeOK'
    <2>1. Target \in Copy
      BY <1>8 DEF IInv, ReceiverKnown, TypeOK, Target, At, CopyFile
    <2>2. [Target EXCEPT ![f] = source[f]] \in Copy
      BY <1>0, <2>1 DEF Copy, Tree
    <2>3. run' \in Runs
      BY <1>0, <1>8, RunStays DEF CopyFile, TypeOK
    <2>4. incoming' \in Copy \cup {NoTree} /\ final' \in Copy \cup {NoTree}
      BY <1>0, <1>8, <2>2, ReceivesTyped DEF CopyFile
    <2> QED
      BY <1>0, <1>8, <2>3, <2>4 DEF CopyFile, TypeOK
  <1>9. CASE Transferred
    <2>1. run' \in Runs
      BY <1>0, <1>9 DEF Transferred, TypeOK, Runs, Steps
    <2> QED
      BY <1>0, <1>9, <2>1 DEF Transferred, TypeOK
  <1>10. CASE Rename
    <2>1. run' \in Runs /\ outcome' \in Ends
      BY <1>0, <1>10, EndTyped, RunStays DEF Rename, Goto, TypeOK, Steps, Ends
    <2> QED
      BY <1>0, <1>10, <2>1, MovesTyped DEF Rename, TypeOK
  <1>11. CASE Write
    <2>1. run' \in Runs /\ outcome' \in Ends
      BY <1>0, <1>11, EndTyped DEF Write, Ends
    <2> QED
      BY <1>0, <1>11, <2>1 DEF Write, TypeOK
  <1>12. CASE RemoteFails \/ Killed
    <2>1. faults' = faults + 1 /\ faults' \in 0 .. MaxFaults
      BY <1>0, <1>12, SyncAssumption DEF RemoteFails, Killed, Fault, TypeOK
    <2>2. run' \in Runs /\ outcome' \in Ends
      BY <1>0, <1>12, EndTyped DEF RemoteFails, Killed, Ends
    <2>3. CutShort /\ HereSame /\ UNCHANGED cache
      BY <1>12 DEF RemoteFails, Killed
    <2>4. lateRename' \in 0 .. MaxFaults
      BY <1>0, <2>1, <2>3, CutShortTyped, SyncAssumption DEF IInv, TypeOK
    <2> QED
      BY <1>0, <2>1, <2>2, <2>3, <2>4, CutShortTyped DEF TypeOK
  <1>13. CASE Signal
    BY <1>0, <1>13, RunStays, SyncAssumption DEF Signal, Fault, TypeOK
  <1>14. CASE StopSeen
    <2>1. run' \in Runs /\ outcome' \in Ends
      BY <1>0, <1>14, EndTyped DEF StopSeen, Ends
    <2>2. ~At("rename")
      BY <1>14 DEF StopSeen, At
    <2> QED
      BY <1>0, <1>14, <2>1, <2>2, CutShortTyped DEF StopSeen, TypeOK
  <1>15. CASE LateRename
    <2>1. run' \in Runs
      BY <1>0, <1>15, RunStays DEF LateRename, TypeOK
    <2> QED
      BY <1>0, <1>15, <2>1, MovesTyped, SyncAssumption DEF LateRename, TypeOK
  <1>16. CASE LateWrite
    BY <1>0, <1>16 DEF LateWrite, TypeOK
  <1>17. CASE UNCHANGED vars
    BY <1>0, <1>17 DEF vars, TypeOK
  <1> QED
    BY <1>1, <1>2, <1>3, <1>4, <1>5, <1>6, <1>7, <1>8, <1>9, <1>10, <1>11, <1>12, <1>13, <1>14,
       <1>15, <1>16, <1>17 DEF Next

(* What is known of the host survives a step left half done. *)
LEMMA CutShortKnown ==
    ASSUME IInv, CutShort, NEW how \in Ends \ {"synced"}, End(how)
    PROVE  HostKnown' /\ ReceiverKnown' /\ OutcomeKnown'
  <1>1. run'.pc = "idle" /\ ~run'.moved /\ run'.local = run.local /\ outcome' # "synced"
    BY DEF End, Idle, Ends
  <1>2. TypeOK /\ run.local \in Tree /\ run.local # NoManifest
    BY Distinct DEF IInv, TypeOK, Runs
  <1> SUFFICES (manifest' # NoManifest => final' = manifest') /\ (lateWrite' # NoManifest => final' = lateWrite')
    BY <1>1 DEF HostKnown, ReceiverKnown, OutcomeKnown
  <1>3. CASE At("transfer")
    BY <1>3 DEF CutShort, Receives, At, IInv, HostKnown, ReceiverKnown
  <1>4. CASE At("rename")
    BY <1>2, <1>4, Distinct DEF CutShort, Moves, At, IInv, HostKnown, TypeOK
  <1>5. CASE At("write") /\ source[Meta] # Gone
    BY <1>5 DEF CutShort, At, IInv, HostKnown
  <1>6. CASE ~At("transfer") /\ ~At("rename") /\ ~(At("write") /\ source[Meta] # Gone)
    BY <1>6 DEF CutShort, HostSame, host, IInv, HostKnown
  <1> QED
    BY <1>3, <1>4, <1>5, <1>6

(* And every step. *)
LEMMA StepKnown ==
    ASSUME IInv, [Next]_vars
    PROVE  HostKnown' /\ ReceiverKnown' /\ OutcomeKnown'
  <1> USE DEF HereSame, HostSame, host, At, Goto
  <1>0. /\ TypeOK /\ run.local \in Tree /\ run.local # NoManifest /\ run.local # NoTree /\ run \in Runs
        /\ HostKnown /\ ReceiverKnown /\ OutcomeKnown
        /\ manifest # NoManifest => manifest # NoTree
        /\ lateWrite # NoManifest => lateWrite # NoTree
    BY Distinct DEF IInv, TypeOK, Runs
  <1>1. CASE (\E f \in File : Edit(f)) \/ UNCHANGED vars \/ Signal
    <2>1. /\ run'.pc = run.pc /\ run'.local = run.local /\ (run'.moved = run.moved)
          /\ UNCHANGED <<host, outcome>>
      BY <1>0, <1>1 DEF Edit, vars, Signal, Runs
    <2> QED
      BY <1>0, <2>1 DEF HostKnown, ReceiverKnown, OutcomeKnown, Target
  <1>2. CASE Start
    BY <1>0, <1>2 DEF Start, Idle, HostKnown, ReceiverKnown, OutcomeKnown
  <1>3. CASE Walk \/ (\E f \in File : HashFile(f)) \/ Hashed
    <2>1. /\ run'.pc \in {"hash", "probe", "idle"} /\ ~run'.moved
          /\ outcome # "synced" /\ outcome' # "synced" /\ UNCHANGED host
      <3>1. CASE Walk
        BY <1>0, <3>1 DEF Walk, Runs, ReceiverKnown, OutcomeKnown
      <3>2. ASSUME NEW f \in File, HashFile(f)
            PROVE  run'.pc \in {"hash", "idle"} /\ ~run'.moved /\ outcome # "synced"
                   /\ outcome' # "synced" /\ UNCHANGED host
        <4>1. run.pc = "hash" /\ outcome # "synced" /\ ~run.moved /\ UNCHANGED host
          BY <1>0, <3>2 DEF HashFile, ReceiverKnown, OutcomeKnown
        <4>2. CASE source[f] = Gone
          BY <3>2, <4>1, <4>2 DEF HashFile, End, Idle
        <4>3. CASE source[f] # Gone
          BY <1>0, <3>2, <4>1, <4>3 DEF HashFile, Runs
        <4> QED
          BY <4>2, <4>3
      <3>3. CASE Hashed
        BY <1>0, <3>3 DEF Hashed, Runs, ReceiverKnown, OutcomeKnown
      <3> QED
        BY <1>3, <3>1, <3>2, <3>3
    <2> QED
      BY <1>0, <2>1 DEF HostKnown, ReceiverKnown, OutcomeKnown
  <1>4. CASE Probe
    BY <1>0, <1>4 DEF Probe, End, Idle, Runs, HostKnown, ReceiverKnown, OutcomeKnown
  <1>5. CASE Orphan
    BY <1>0, <1>5 DEF Orphan, End, Idle, Runs, HostKnown, ReceiverKnown, OutcomeKnown
  <1>6. CASE Begin
    BY <1>0, <1>6, Distinct DEF Begin, Runs, HostKnown, ReceiverKnown, OutcomeKnown, Target, TypeOK
  <1>7. ASSUME NEW f \in File, CopyFile(f) PROVE HostKnown' /\ ReceiverKnown' /\ OutcomeKnown'
    <2>1. run'.pc = "transfer" /\ (run'.moved = run.moved) /\ run'.local = run.local
      BY <1>0, <1>7 DEF CopyFile, Runs
    <2>2. [Target EXCEPT ![f] = source[f]] # NoTree
      <3>1. Target \in Copy
        BY <1>0, <1>7 DEF CopyFile, ReceiverKnown, TypeOK, Target
      <3> QED
        BY <1>0, <3>1, Distinct DEF Copy, Tree, TypeOK
    <2> QED
      BY <1>0, <1>7, <2>1, <2>2
         DEF CopyFile, Receives, HostKnown, ReceiverKnown, OutcomeKnown, Target
  <1>8. CASE Transferred
    BY <1>0, <1>8 DEF Transferred, Runs, HostKnown, ReceiverKnown, OutcomeKnown
  <1>9. CASE Verify
    BY <1>0, <1>9 DEF Verify, End, Idle, Runs, HostKnown, ReceiverKnown, OutcomeKnown
  <1>10. CASE Rename
    BY <1>0, <1>10 DEF Rename, Moves, End, Idle, Runs, HostKnown, ReceiverKnown, OutcomeKnown
  <1>11. CASE Write
    BY <1>0, <1>11 DEF Write, End, Idle, Runs, HostKnown, ReceiverKnown, OutcomeKnown
  <1>12. CASE RemoteFails \/ Killed \/ StopSeen
    BY <1>12, CutShortKnown DEF RemoteFails, Killed, StopSeen, Ends
  <1>13. CASE LateRename
    <2>1. /\ run'.pc = run.pc /\ run'.local = run.local
          /\ run'.moved <=> run.moved \/ (run.pc = "transfer" /\ incoming # incoming')
      BY <1>0, <1>13 DEF LateRename, Runs
    <2> QED
      BY <1>0, <1>13, <2>1
         DEF LateRename, Moves, HostKnown, ReceiverKnown, OutcomeKnown, Target
  <1>14. CASE LateWrite
    BY <1>0, <1>14 DEF LateWrite, HostKnown, ReceiverKnown, OutcomeKnown, Target
  <1> QED
    BY <1>1, <1>2, <1>3, <1>4, <1>5, <1>6, <1>7, <1>8, <1>9, <1>10, <1>11, <1>12, <1>13, <1>14
       DEF Next

(* Only a fault leaves another rename behind. *)
LEMMA StepLate ==
    ASSUME IInv, [Next]_vars
    PROVE  (lateRename <= faults)'
  <1>0. lateRename \in Nat /\ faults \in Nat /\ lateRename <= faults
    BY SyncAssumption DEF IInv, TypeOK
  <1>1. CASE RemoteFails \/ Killed
    BY <1>0, <1>1, CutShortTyped DEF RemoteFails, Killed, Fault
  <1>2. CASE StopSeen
    BY <1>0, <1>2, CutShortTyped DEF StopSeen, At
  <1>3. CASE Signal \/ LateRename
    BY <1>0, <1>3 DEF Signal, Fault, LateRename, HostSame, host
  <1>4. CASE UNCHANGED <<lateRename, faults>>
    BY <1>0, <1>4
  <1> QED
    BY <1>1, <1>2, <1>3, <1>4
       DEF Next, vars, host, HostSame, Edit, Start, Walk, HashFile, Hashed, Probe, Orphan, Begin,
           CopyFile, Transferred, Verify, Rename, Write, LateWrite

\* Every step keeps the invariant.
LEMMA StepIInv == IInv /\ [Next]_vars => IInv'
BY StepTyped, StepKnown, StepLate DEF IInv

\* What a run knows of the host at the steps that act on it, in every behaviour
\* of the sync (dataset_sync.py, sync).
THEOREM Invariance == Spec => []IInv
BY InitIInv, StepIInv, PTL DEF Spec

(* Every reachable state is typed, for every set of files and all bounds. *)
THEOREM TypeCorrect == Spec => []TypeOK
  <1>1. IInv => TypeOK
    BY DEF IInv
  <1> QED
    BY <1>1, Invariance, PTL

(* A manifest on the host is true of the directory beside it, and a run that says *)
(* SYNCED has published what it hashed: for every dataset, any number of edits,    *)
(* lost answers, late commands, kills and stops.                                  *)
THEOREM SyncedTruthful == Spec => []SyncedIsTrue
  <1>1. IInv => SyncedIsTrue
    BY DEF IInv, HostKnown, OutcomeKnown, SyncedIsTrue
  <1> QED
    BY <1>1, Invariance, PTL

(* Once published, neither the directory nor its manifest changes again. *)
THEOREM PublishedForGood == Spec => PublishedStays
  <1>1. IInv /\ IInv' /\ [Next]_vars => [manifest # NoManifest => UNCHANGED <<final, manifest>>]_vars
    <2> SUFFICES ASSUME IInv, IInv', [Next]_vars, manifest # NoManifest
                 PROVE  UNCHANGED <<final, manifest>>
      OBVIOUS
    <2> USE DEF IInv, HostKnown
    <2>0. manifest \in Tree /\ final = manifest /\ final # NoTree
      BY Distinct DEF TypeOK
    <2>1. UNCHANGED manifest
      <3>1. CASE Write
        BY <2>0, <3>1 DEF Write, At
      <3>2. CASE LateWrite
        BY <2>0, <3>2 DEF LateWrite
      <3>3. CASE RemoteFails \/ Killed \/ StopSeen
        BY <2>0, <3>3 DEF RemoteFails, Killed, StopSeen, CutShort, At, HostSame, host
      <3> QED
        BY <3>1, <3>2, <3>3
           DEF Next, vars, host, HostSame, Edit, Start, Walk, HashFile, Hashed, Probe, Orphan,
               Begin, CopyFile, Transferred, Verify, Rename, Signal, LateRename
    <2> QED
      BY <2>0, <2>1 DEF TypeOK
  <1> QED
    BY <1>1, Invariance, PTL DEF Spec, PublishedStays

-------------------------------------------------------------------------------
(* What is published was the dataset at one moment.  The argument is about the   *)
(* order in which each file has its values: what was hashed is older than some    *)
(* moment of the dataset, what was copied is younger, and they are equal.          *)

\* The order in which a file has its values, where none is created and removed:
\* a created one is missing first, any other is missing last.
Rank(f, v) == IF v = Gone THEN IF f \in Created THEN 0 ELSE MaxEdits + 2 ELSE v + 1

\* Tree t has, of the files of S, no newer value than u.
UpTo(t, u, S) == \A f \in S : Rank(f, t[f]) <= Rank(f, u[f])

\* What a copy on the host has of a file was read no later than u.
Held(copy, u) ==
    copy # NoTree =>
        \A f \in File : copy[f] \in {Gone, Partial} \/ Rank(f, copy[f]) <= Rank(f, u[f])

\* The files of S were read after w was the dataset; a missing one was missing then.
ReadAfter(w, t, S) == UpTo(w, t, S) /\ \A f \in S : t[f] = Gone => w[f] = Gone

SeenKnown ==
    /\ source \in seen /\ \A t \in seen : UpTo(t, source, File)
    /\ \A f \in File : source[f] # Gone => source[f] <= edits

CopiesKnown ==
    /\ Held(incoming, source) /\ Held(final, source)
    /\ manifest # NoManifest => manifest \in seen
    /\ lateWrite # NoManifest => lateWrite \in seen

CacheKnown == cache # NoManifest => cache.files = cache.listing /\ cache.listing \in seen

\* Between listing and probe: the files read so far, between two moments of the
\* dataset, the first later than anything on the host.
HashKnown ==
    /\ run.pc \in {"walk", "hash"} => run.listed \in seen
    /\ run.pc = "walk" => run.local = Empty
    /\ run.pc = "hash" => UpTo(run.listed, run.local, File \ run.todo)
    /\ run.pc = "hash" => UpTo(run.local, source, File \ run.todo)
    /\ run.pc \in {"probe", "orphan"} => run.todo = {}
    /\ run.pc \in {"hash", "probe", "orphan"} =>
          \E w \in seen : /\ Held(incoming, w) /\ Held(final, w)
                          /\ ReadAfter(w, run.local, File \ run.todo)

\* From the probe on: what was hashed is older than what is copied.
CopyKnown ==
    /\ run.pc \in {"probe", "orphan", "begin"} => UpTo(run.local, source, File)
    /\ run.pc = "transfer" =>
          \E b \in seen : /\ UpTo(run.local, b, File) /\ UpTo(b, Target, File \ run.todo)
                          /\ \A f \in File \ run.todo : Target[f] # Partial
    /\ run.pc = "verify" =>
          incoming = NoTree \/ \E b \in seen : UpTo(run.local, b, File) /\ UpTo(b, incoming, File)
    /\ run.pc \in {"rename", "write"} => run.local \in seen

SInv == SeenKnown /\ CopiesKnown /\ CacheKnown /\ HashKnown /\ CopyKnown

Disjoint == Created \cap Removed = {}

\* A file's values are put in a row, no two at the same place.
LEMMA Ranks ==
    /\ \A f, v : v \in 0 .. MaxEdits \cup {Gone} => Rank(f, v) \in Nat
    /\ \A f : \A v, w \in 0 .. MaxEdits \cup {Gone} : Rank(f, v) = Rank(f, w) => v = w
BY SyncAssumption DEF Rank

\* So trees are older or younger than one another, and equal if both.
LEMMA UpToOrder ==
    /\ \A t \in Tree : UpTo(t, t, File)
    /\ \A t, u, v \in Tree : \A S \in SUBSET File : UpTo(t, u, S) /\ UpTo(u, v, S) => UpTo(t, v, S)
    /\ \A t, u \in Tree : UpTo(t, u, File) /\ UpTo(u, t, File) => t = u
  <1>1. \A t \in Tree : \A f \in File : t[f] \in 0 .. MaxEdits \cup {Gone}
    BY DEF Tree
  <1>2. \A t \in Tree : \A f \in File : Rank(f, t[f]) \in Nat
    BY <1>1, Ranks
  <1>3. \A t \in Tree : UpTo(t, t, File)
    BY <1>2 DEF UpTo
  <1>4. ASSUME NEW t \in Tree, NEW u \in Tree, NEW v \in Tree, NEW S \in SUBSET File,
               UpTo(t, u, S), UpTo(u, v, S)
        PROVE  UpTo(t, v, S)
    <2> SUFFICES ASSUME NEW f \in S PROVE Rank(f, t[f]) <= Rank(f, v[f])
      BY DEF UpTo
    <2>1. Rank(f, t[f]) \in Nat /\ Rank(f, u[f]) \in Nat /\ Rank(f, v[f]) \in Nat
      BY <1>2
    <2>2. Rank(f, t[f]) <= Rank(f, u[f]) /\ Rank(f, u[f]) <= Rank(f, v[f])
      BY <1>4 DEF UpTo
    <2> QED
      BY <2>1, <2>2
  <1>5. ASSUME NEW t \in Tree, NEW u \in Tree, UpTo(t, u, File), UpTo(u, t, File) PROVE t = u
    <2>1. ASSUME NEW f \in File PROVE t[f] = u[f]
      <3>1. Rank(f, t[f]) <= Rank(f, u[f]) /\ Rank(f, u[f]) <= Rank(f, t[f])
        BY <1>5 DEF UpTo
      <3>2. Rank(f, t[f]) = Rank(f, u[f])
        BY <1>2, <3>1
      <3> QED
        BY <1>1, <3>2, Ranks
    <2> QED
      BY <2>1 DEF Tree
  <1> QED
    BY <1>3, <1>4, <1>5

\* And a copy that holds no newer value than one tree holds none than a newer tree.
LEMMA HeldOrder ==
    ASSUME NEW c \in Copy \cup {NoTree}, NEW t \in Tree, NEW u \in Tree, Held(c, t), UpTo(t, u, File)
    PROVE  Held(c, u)
  <1> SUFFICES ASSUME c # NoTree, NEW f \in File, c[f] \notin {Gone, Partial}
               PROVE  Rank(f, c[f]) <= Rank(f, u[f])
    BY DEF Held
  <1>1. c[f] \in 0 .. MaxEdits /\ t[f] \in 0 .. MaxEdits \cup {Gone} /\ u[f] \in 0 .. MaxEdits \cup {Gone}
    BY DEF Copy, Tree
  <1>2. Rank(f, c[f]) \in Nat /\ Rank(f, t[f]) \in Nat /\ Rank(f, u[f]) \in Nat
    BY <1>1, Ranks
  <1>3. Rank(f, c[f]) <= Rank(f, t[f]) /\ Rank(f, t[f]) <= Rank(f, u[f])
    BY DEF Held, UpTo
  <1> QED
    BY <1>2, <1>3

\* An edit makes the dataset newer, and the newest it ever was.
LEMMA EditSeen ==
    ASSUME IInv, SeenKnown, Disjoint, NEW f \in File, Edit(f)
    PROVE  SeenKnown' /\ UpTo(source, source', File) /\ source' \in Tree /\ seen \subseteq seen'
  <1>0. source \in Tree /\ seen \subseteq Tree /\ edits \in Nat /\ edits + 1 \in 0 .. MaxEdits
        /\ edits' = edits + 1 /\ seen' = seen \cup {source'}
    BY SyncAssumption DEF IInv, TypeOK, Edit
  <1>1. \A g \in File : source[g] \in 0 .. MaxEdits \cup {Gone}
    BY <1>0 DEF Tree
  <1>2. source' \in Tree /\ \A g \in File : g # f => source'[g] = source[g]
    BY <1>0 DEF Edit, Tree
  <1>3. \/ source'[f] = edits + 1 /\ (source[f] = Gone => f \in Created)
        \/ source'[f] = Gone /\ f \in Removed /\ source[f] # Gone
    BY <1>0 DEF Edit, Tree
  <1>4. source[f] # Gone => source[f] <= edits
    BY DEF SeenKnown
  <1>5. Rank(f, source[f]) <= Rank(f, source'[f])
    <2>1. CASE source[f] = Gone
      BY <1>0, <1>3, <2>1, SyncAssumption DEF Rank
    <2>2. CASE source[f] # Gone /\ source'[f] = edits + 1
      BY <1>0, <1>1, <1>4, <2>2, SyncAssumption DEF Rank
    <2>3. CASE source[f] # Gone /\ source'[f] = Gone
      <3>1. f \notin Created
        BY <1>0, <1>3, <2>3, SyncAssumption DEF Disjoint
      <3> QED
        BY <1>1, <2>3, <3>1, SyncAssumption DEF Rank
    <2> QED
      BY <1>3, <2>1, <2>2, <2>3
  <1>6. UpTo(source, source', File)
    BY <1>0, <1>2, <1>5, UpToOrder DEF UpTo
  <1>7. \A t \in seen' : UpTo(t, source', File)
    BY <1>0, <1>2, <1>6, UpToOrder DEF SeenKnown
  <1>8. \A g \in File : source'[g] # Gone => source'[g] <= edits'
    <2> SUFFICES ASSUME NEW g \in File, source'[g] # Gone PROVE source'[g] <= edits'
      OBVIOUS
    <2>1. CASE g = f
      BY <1>0, <1>3, <2>1
    <2>2. CASE g # f
      <3>1. source[g] # Gone /\ source[g] <= edits /\ source[g] \in Nat
        BY <1>1, <1>2, <2>2 DEF SeenKnown
      <3> QED
        BY <1>0, <1>2, <2>2, <3>1
    <2> QED
      BY <2>1, <2>2
  <1> QED
    BY <1>0, <1>2, <1>6, <1>7, <1>8 DEF SeenKnown

\* What is known of a run and the host stays known when the dataset is edited.
LEMMA EditSInv ==
    ASSUME IInv, SInv, Disjoint, NEW f \in File, Edit(f)
    PROVE  SInv'
  <1>1. SeenKnown' /\ UpTo(source, source', File) /\ source' \in Tree /\ seen \subseteq seen'
    BY EditSeen DEF SInv
  <1>2. UNCHANGED <<cache, run, incoming, final, manifest, lateWrite>>
    BY DEF Edit, host
  <1>3. /\ source \in Tree /\ incoming \in Copy \cup {NoTree} /\ final \in Copy \cup {NoTree}
        /\ run.local \in Tree
    BY DEF IInv, TypeOK, Runs
  <1>4. CopiesKnown'
    BY <1>1, <1>2, <1>3, HeldOrder DEF SInv, CopiesKnown
  <1>5. CacheKnown'
    BY <1>1, <1>2 DEF SInv, CacheKnown
  <1>6. \A S \in SUBSET File : UpTo(run.local, source, S) => UpTo(run.local, source', S)
    <2> SUFFICES ASSUME NEW S \in SUBSET File, UpTo(run.local, source, S) PROVE UpTo(run.local, source', S)
      OBVIOUS
    <2>1. UpTo(source, source', S)
      BY <1>1 DEF UpTo
    <2> QED
      BY <1>1, <1>3, <2>1, UpToOrder
  <1>7. HashKnown'
    BY <1>1, <1>2, <1>6 DEF SInv, HashKnown
  <1>8. CopyKnown'
    BY <1>1, <1>2, <1>6 DEF SInv, CopyKnown, Target
  <1> QED
    BY <1>1, <1>4, <1>5, <1>7, <1>8 DEF SInv

\* What the host's own steps leave of a copy is no newer than before.
LEMMA HostHeld ==
    ASSUME IInv, NEW u, Held(incoming, u), Held(final, u)
    PROVE  /\ Moves => Held(incoming', u) /\ Held(final', u)
           /\ CutShort => Held(incoming', u) /\ Held(final', u)
  <1>0. Held(NoTree, u)
    BY DEF Held
  <1>1. Moves => Held(incoming', u) /\ Held(final', u)
    BY <1>0 DEF Moves
  <1>2. ASSUME CutShort PROVE Held(incoming', u) /\ Held(final', u)
    <2>1. CASE At("transfer")
      <3>1. Target \in Copy /\ Held(Target, u)
        BY <2>1 DEF IInv, ReceiverKnown, TypeOK, Target, At
      <3>2. PICK t \in Torn : Receives(t)
        BY <1>2, <2>1 DEF CutShort, At
      <3>3. Held(t, u)
        <4>1. CASE t = Target
          BY <3>1, <4>1
        <4>2. CASE \E f \in run.todo : t = [Target EXCEPT ![f] = Partial]
          <5>1. PICK f \in run.todo : t = [Target EXCEPT ![f] = Partial]
            BY <4>2
          <5>2. \A g \in File : t[g] = Target[g] \/ t[g] = Partial
            BY <3>1, <5>1 DEF Copy
          <5>3. Target # NoTree
            BY <3>1, Distinct
          <5> QED
            BY <3>1, <5>2, <5>3 DEF Held
        <4> QED
          BY <3>2, <4>1, <4>2 DEF Torn
      <3> QED
        BY <3>2, <3>3 DEF Receives
    <2>2. CASE At("rename")
      BY <1>1, <1>2, <2>2 DEF CutShort, At
    <2>3. CASE At("write") /\ source[Meta] # Gone
      BY <1>2, <2>3 DEF CutShort, At
    <2>4. CASE ~At("transfer") /\ ~At("rename") /\ ~(At("write") /\ source[Meta] # Gone)
      BY <1>2, <2>4 DEF CutShort, HostSame, host
    <2> QED
      BY <2>1, <2>2, <2>3, <2>4
  <1> QED
    BY <1>1, <1>2

\* Only a transfer brings anything newer to the host.
LEMMA StepHeld ==
    ASSUME IInv, [Next]_vars, ~\E f \in File : CopyFile(f), NEW u, Held(incoming, u), Held(final, u)
    PROVE  Held(incoming', u) /\ Held(final', u)
  <1>1. CASE Begin
    <2>1. Held(Empty, u)
      BY DEF Held, Empty
    <2> QED
      BY <1>1, <2>1 DEF Begin
  <1>2. CASE Rename \/ LateRename
    BY <1>2, HostHeld DEF Rename, LateRename
  <1>3. CASE RemoteFails \/ Killed \/ StopSeen
    BY <1>3, HostHeld DEF RemoteFails, Killed, StopSeen
  <1>4. CASE UNCHANGED <<incoming, final>>
    BY <1>4
  <1> QED
    BY <1>1, <1>2, <1>3, <1>4
       DEF Next, vars, host, HostSame, Edit, Start, Walk, HashFile, Hashed, Probe, Orphan,
           Transferred, Verify, Write, Signal, LateWrite

\* A step that edits nothing leaves the dataset and what it ever was.
LEMMA StepHere ==
    ASSUME [Next]_vars, ~\E f \in File : Edit(f)
    PROVE  UNCHANGED <<source, edits, seen>>
BY DEF Next, vars, HereSame, Start, Walk, HashFile, Hashed, Probe, Orphan, Begin, CopyFile,
       Transferred, Verify, Rename, Write, RemoteFails, Killed, Signal, StopSeen, LateRename,
       LateWrite

\* What is on the host stays no newer than the dataset, and a manifest on it, or on
\* its way, stays one of a tree the dataset was.
LEMMA StepCopies ==
    ASSUME IInv, SInv, [Next]_vars, ~\E f \in File : Edit(f)
    PROVE  CopiesKnown'
  <1>0. /\ UNCHANGED <<source, edits, seen>> /\ source \in Tree
        /\ Held(incoming, source) /\ Held(final, source)
    BY StepHere DEF IInv, TypeOK, SInv, CopiesKnown
  <1>1. Held(incoming', source) /\ Held(final', source)
    <2>1. ASSUME NEW f \in File, CopyFile(f) PROVE Held(incoming', source) /\ Held(final', source)
      <3>1. Target \in Copy /\ Held(Target, source) /\ Target # NoTree
        BY <1>0, <2>1 DEF CopyFile, IInv, ReceiverKnown, TypeOK, Target, At
      <3>2. DEFINE t == [Target EXCEPT ![f] = source[f]]
      <3>3. \A g \in File : t[g] = IF g = f THEN source[f] ELSE Target[g]
        BY <3>1 DEF Copy
      <3>4. \A g \in File : Rank(g, source[g]) <= Rank(g, source[g])
        BY <1>0, UpToOrder DEF UpTo
      <3>5. Receives(t)
        BY <2>1 DEF CopyFile
      <3> HIDE DEF t
      <3>6. Held(t, source)
        BY <3>1, <3>3, <3>4 DEF Held
      <3> QED
        BY <1>0, <3>5, <3>6 DEF Receives
    <2> QED
      BY <1>0, <2>1, StepHeld
  <1>2. (manifest' # NoManifest => manifest' \in seen) /\ (lateWrite' # NoManifest => lateWrite' \in seen)
    <2>0. (run.pc = "write" => run.local \in seen) /\ (manifest # NoManifest => manifest \in seen)
          /\ (lateWrite # NoManifest => lateWrite \in seen)
      BY DEF SInv, CopyKnown, CopiesKnown
    <2>1. CASE Write
      BY <2>0, <2>1 DEF Write, At
    <2>2. CASE RemoteFails \/ Killed \/ StopSeen
      BY <2>0, <2>2 DEF RemoteFails, Killed, StopSeen, CutShort, At, HostSame, host
    <2>3. CASE LateWrite
      BY <2>0, <2>3 DEF LateWrite
    <2>4. CASE UNCHANGED <<manifest, lateWrite>>
      BY <2>0, <2>4
    <2> QED
      BY <2>1, <2>2, <2>3, <2>4
         DEF Next, vars, host, HostSame, Edit, Start, Walk, HashFile, Hashed, Probe, Orphan, Begin,
             CopyFile, Transferred, Verify, Rename, Signal, LateRename
  <1> QED
    BY <1>0, <1>1, <1>2 DEF CopiesKnown

\* A manifest is cached only for the dataset it is of.
LEMMA StepCache ==
    ASSUME IInv, SInv, [Next]_vars, ~\E f \in File : Edit(f)
    PROVE  CacheKnown'
  <1>0. UNCHANGED <<source, edits, seen>> /\ source \in Tree /\ source \in seen
    BY StepHere DEF IInv, TypeOK, SInv, SeenKnown
  <1>1. CASE Hashed /\ source = run.listed
    <2>1. UpTo(run.listed, run.local, File) /\ UpTo(run.local, source, File)
      <3>1. File \ {} = File
        OBVIOUS
      <3> QED
        BY <1>1, <3>1 DEF Hashed, At, SInv, HashKnown
    <2>2. run.local = source
      BY <1>0, <1>1, <2>1, UpToOrder DEF IInv, TypeOK, Runs
    <2> QED
      BY <1>0, <1>1, <2>2 DEF Hashed, CacheKnown
  <1>2. CASE UNCHANGED cache
    BY <1>0, <1>2 DEF SInv, CacheKnown
  <1> QED
    BY <1>1, <1>2
       DEF Next, vars, Start, Walk, HashFile, Hashed, Probe, Orphan, Begin, CopyFile, Transferred,
           Verify, Rename, Write, RemoteFails, Killed, Signal, StopSeen, LateRename, LateWrite

\* A run that ends, in whatever way, knows nothing any more.
LEMMA EndKnown ==
    ASSUME NEW how, End(how)
    PROVE  HashKnown' /\ CopyKnown'
BY DEF End, Idle, HashKnown, CopyKnown

\* What was hashed is the tree that was hashed from, if it is equal to what the host
\* has: one moment of the dataset is no older and no newer.
LEMMA BetweenMoments ==
    ASSUME IInv, NEW w \in Tree, NEW c \in Tree, Held(c, w), ReadAfter(w, c, File)
    PROVE  c = w
  <1>1. ASSUME NEW f \in File PROVE c[f] = w[f]
    <2>1. c[f] \in 0 .. MaxEdits \cup {Gone} /\ w[f] \in 0 .. MaxEdits \cup {Gone} /\ c[f] # Partial
      BY SyncAssumption DEF Tree
    <2>2. CASE c[f] = Gone
      BY <2>2 DEF ReadAfter
    <2>3. CASE c[f] # Gone
      <3>1. Rank(f, c[f]) <= Rank(f, w[f]) /\ Rank(f, w[f]) <= Rank(f, c[f])
        BY <2>1, <2>3, Distinct DEF ReadAfter, Held, UpTo
      <3>2. Rank(f, c[f]) = Rank(f, w[f])
        BY <2>1, <3>1, Ranks
      <3> QED
        BY <2>1, <3>2, Ranks
    <2> QED
      BY <2>2, <2>3
  <1> QED
    BY <1>1 DEF Tree

\* What a run has hashed lies between two moments of the dataset.
LEMMA StepHash ==
    ASSUME IInv, SInv, [Next]_vars, ~\E f \in File : Edit(f)
    PROVE  HashKnown'
  <1> USE DEF At, Goto
  <1>0. /\ UNCHANGED <<source, edits, seen>> /\ source \in Tree /\ source \in seen /\ seen \subseteq Tree
        /\ run \in Runs /\ run.local \in Tree /\ run.listed \in Tree /\ run.todo \subseteq File
        /\ Held(incoming, source) /\ Held(final, source) /\ UpTo(source, source, File)
        /\ HashKnown
    BY StepHere, UpToOrder DEF IInv, TypeOK, Runs, SInv, SeenKnown, CopiesKnown
  <1>1. CASE Start
    <2>1. CASE source[Meta] = Gone
      BY <1>0, <1>1, <2>1 DEF Start, HostSame, host, HashKnown
    <2>2. CASE source[Meta] # Gone /\ CacheValid
      <3>1. cache.files = source
        BY <2>2 DEF CacheValid, SInv, CacheKnown
      <3>2. /\ run'.pc = "probe" /\ run'.todo = {} /\ run'.local = source
            /\ incoming' = incoming /\ final' = final
        BY <1>1, <2>2, <3>1 DEF Start, Idle, HostSame, host
      <3>3. ReadAfter(source, source, File \ {})
        BY <1>0 DEF ReadAfter, UpTo
      <3> QED
        BY <1>0, <3>2, <3>3 DEF HashKnown
    <2>3. CASE source[Meta] # Gone /\ ~CacheValid
      BY <1>0, <1>1, <2>3 DEF Start, Idle, HashKnown
    <2> QED
      BY <2>1, <2>2, <2>3
  <1>2. CASE Walk
    <2> DEFINE T == {f \in File : source[f] # Gone}
    <2>1. /\ run'.pc = "hash" /\ run'.todo = T /\ run'.local = Empty /\ run'.listed = run.listed
          /\ incoming' = incoming /\ final' = final /\ run.listed \in seen
      BY <1>0, <1>2 DEF Walk, HostSame, host, HashKnown, Runs
    <2>2. \A f \in File \ T : source[f] = Empty[f]
      BY DEF Empty
    <2>3. UpTo(run.listed, source, File)
      BY <2>1 DEF SInv, SeenKnown
    <2>4. UpTo(run.listed, Empty, File \ T) /\ UpTo(Empty, source, File \ T) /\ UpTo(source, Empty, File \ T)
      BY <1>0, <2>2, <2>3 DEF UpTo
    <2>5. ReadAfter(source, Empty, File \ T)
      BY <2>2, <2>4 DEF ReadAfter
    <2> HIDE DEF T
    <2> QED
      BY <1>0, <2>1, <2>4, <2>5 DEF HashKnown
  <1>3. ASSUME NEW f \in File, HashFile(f) PROVE HashKnown'
    <2>1. CASE source[f] = Gone
      BY <1>3, <2>1, EndKnown DEF HashFile
    <2>2. CASE source[f] # Gone
      <3> DEFINE l == [run.local EXCEPT ![f] = source[f]]
                 D == File \ (run.todo \ {f})
      <3>1. /\ run.pc = "hash" /\ run'.pc = "hash" /\ run'.todo = run.todo \ {f} /\ run'.local = l
            /\ run'.listed = run.listed /\ incoming' = incoming /\ final' = final
        BY <1>0, <1>3, <2>2 DEF HashFile, HostSame, host, Runs
      <3>2. \A g \in D : l[g] = IF g = f THEN source[f] ELSE run.local[g]
        BY <1>0 DEF Tree
      <3>3. \A g \in D : g # f => g \in File \ run.todo
        OBVIOUS
      <3>4. run.listed \in seen /\ UpTo(run.listed, source, File)
        BY <1>0, <3>1 DEF SInv, SeenKnown, HashKnown
      <3>5. UpTo(run.listed, run.local, File \ run.todo) /\ UpTo(run.local, source, File \ run.todo)
        BY <1>0, <3>1 DEF HashKnown
      <3>6. PICK w \in seen : /\ Held(incoming, w) /\ Held(final, w)
                              /\ ReadAfter(w, run.local, File \ run.todo)
        BY <1>0, <3>1 DEF HashKnown
      <3>7. UpTo(w, source, File)
        BY DEF SInv, SeenKnown
      <3> HIDE DEF l
      <3>8. UpTo(run.listed, l, D) /\ UpTo(l, source, D)
        BY <1>0, <3>2, <3>3, <3>4, <3>5 DEF UpTo
      <3>9. ReadAfter(w, l, D)
        BY <2>2, <3>2, <3>3, <3>6, <3>7 DEF ReadAfter, UpTo
      <3> QED
        BY <1>0, <3>1, <3>4, <3>6, <3>8, <3>9 DEF HashKnown
    <2> QED
      BY <2>1, <2>2
  <1>4. CASE Hashed
    <2>1. /\ run.pc = "hash" /\ run'.pc = "probe" /\ run.todo = {} /\ run'.todo = {} /\ run'.local = run.local
          /\ incoming' = incoming /\ final' = final
      BY <1>0, <1>4 DEF Hashed, HostSame, host, Runs
    <2> QED
      BY <1>0, <2>1 DEF HashKnown
  <1>5. CASE Probe
    <2>1. CASE manifest # NoManifest
      BY <1>5, <2>1, EndKnown DEF Probe
    <2>2. CASE manifest = NoManifest
      <3>1. /\ run.pc = "probe" /\ run'.pc \in {"orphan", "begin"} /\ run'.todo = run.todo
            /\ run'.local = run.local /\ incoming' = incoming /\ final' = final
        BY <1>0, <1>5, <2>2 DEF Probe, HostSame, host, Runs
      <3> QED
        BY <1>0, <3>1 DEF HashKnown
    <2> QED
      BY <2>1, <2>2
  <1>6. CASE Signal \/ LateRename \/ LateWrite \/ UNCHANGED vars
    <2>1. /\ run'.pc = run.pc /\ run'.todo = run.todo /\ run'.local = run.local
          /\ run'.listed = run.listed
      BY <1>0, <1>6 DEF Signal, LateRename, LateWrite, vars, Runs
    <2>2. CASE \E f \in File : CopyFile(f)
      <3>1. run.pc = "transfer"
        BY <2>2 DEF CopyFile
      <3> QED
        BY <1>0, <2>1, <3>1 DEF HashKnown
    <2>3. CASE ~\E f \in File : CopyFile(f)
      <3>1. \A u : Held(incoming, u) /\ Held(final, u) => Held(incoming', u) /\ Held(final', u)
        BY <2>3, StepHeld
      <3> QED
        BY <1>0, <2>1, <3>1 DEF HashKnown
    <2> QED
      BY <2>2, <2>3
  <1>7. CASE Orphan \/ Begin \/ (\E f \in File : CopyFile(f)) \/ Transferred \/ Verify \/ Rename \/ Write
             \/ RemoteFails \/ Killed \/ StopSeen
    <2>1. CASE \E how : End(how)
      BY <2>1, EndKnown
    <2>2. CASE run'.pc \in {"transfer", "verify", "rename", "write"}
      BY <2>2 DEF HashKnown
    <2>3. (\E how : End(how)) \/ run'.pc \in {"transfer", "verify", "rename", "write"}
      BY <1>0, <1>7
         DEF Orphan, Begin, CopyFile, Transferred, Verify, Rename, Write, RemoteFails, Killed,
            StopSeen, Runs
    <2> QED
      BY <2>1, <2>2, <2>3
  <1> QED
    BY <1>1, <1>2, <1>3, <1>4, <1>5, <1>6, <1>7 DEF Next

\* What a run copies is no older than a moment that is no older than what it hashed;
\* once the two are found equal, they are that moment.
LEMMA StepCopy ==
    ASSUME IInv, SInv, [Next]_vars, ~\E f \in File : Edit(f)
    PROVE  CopyKnown'
  <1> USE DEF At, Goto
  <1>0. /\ UNCHANGED <<source, edits, seen>> /\ source \in Tree /\ source \in seen /\ seen \subseteq Tree
        /\ run \in Runs /\ run.local \in Tree /\ run.todo \subseteq File
        /\ UpTo(source, source, File) /\ CopyKnown /\ HashKnown
        /\ \A t \in seen : UpTo(t, source, File)
    BY StepHere, UpToOrder DEF IInv, TypeOK, Runs, SInv, SeenKnown
  <1>1. CASE Start
    <2>1. CASE source[Meta] = Gone
      BY <1>0, <1>1, <2>1 DEF Start, HostSame, host, CopyKnown, Target
    <2>2. CASE source[Meta] # Gone /\ CacheValid
      <3>1. cache.files = source
        BY <2>2 DEF CacheValid, SInv, CacheKnown
      <3>2. run'.pc = "probe" /\ run'.local = source
        BY <1>1, <2>2, <3>1 DEF Start, Idle
      <3> QED
        BY <1>0, <3>2 DEF CopyKnown
    <2>3. CASE source[Meta] # Gone /\ ~CacheValid
      <3>1. run'.pc = "walk"
        BY <1>1, <2>3 DEF Start, Idle
      <3> QED
        BY <3>1 DEF CopyKnown
    <2> QED
      BY <2>1, <2>2, <2>3
  <1>2. CASE Walk
    <2>1. run'.pc = "hash"
      BY <1>0, <1>2 DEF Walk, Runs
    <2> QED
      BY <2>1 DEF CopyKnown
  <1>3. ASSUME NEW f \in File, HashFile(f) PROVE CopyKnown'
    <2>1. CASE source[f] = Gone
      BY <1>3, <2>1, EndKnown DEF HashFile
    <2>2. CASE source[f] # Gone
      <3>1. run'.pc = "hash"
        BY <1>0, <1>3, <2>2 DEF HashFile, Runs
      <3> QED
        BY <3>1 DEF CopyKnown
    <2> QED
      BY <2>1, <2>2
  <1>4. CASE Hashed
    <2>1. run.pc = "hash" /\ run'.pc = "probe" /\ run.todo = {} /\ run'.local = run.local
      BY <1>0, <1>4 DEF Hashed, Runs
    <2>2. File \ {} = File
      OBVIOUS
    <2> QED
      BY <1>0, <2>1, <2>2 DEF HashKnown, CopyKnown
  <1>5. CASE Probe
    <2>1. CASE manifest # NoManifest
      BY <1>5, <2>1, EndKnown DEF Probe
    <2>2. CASE manifest = NoManifest
      <3>1. run.pc = "probe" /\ run'.pc \in {"orphan", "begin"} /\ run'.local = run.local
        BY <1>0, <1>5, <2>2 DEF Probe, Runs
      <3> QED
        BY <1>0, <3>1 DEF CopyKnown
    <2> QED
      BY <2>1, <2>2
  <1>6. CASE Orphan
    <2>1. CASE final = run.local
      <3>1. run.pc = "orphan" /\ run'.pc = "write" /\ run'.local = run.local
        BY <1>0, <1>6, <2>1 DEF Orphan, Runs
      <3>2. File \ {} = File
        OBVIOUS
      <3>3. PICK w \in seen : Held(final, w) /\ ReadAfter(w, run.local, File)
        BY <1>0, <3>1, <3>2 DEF HashKnown
      <3>4. run.local = w
        BY <1>0, <2>1, <3>3, BetweenMoments
      <3> QED
        BY <1>0, <3>1, <3>4 DEF CopyKnown
    <2>2. CASE final # run.local
      BY <1>6, <2>2, EndKnown DEF Orphan
    <2> QED
      BY <2>1, <2>2
  <1>7. CASE Begin
    <2>1. run.pc = "begin" /\ run'.pc = "transfer" /\ run'.todo = File /\ run'.local = run.local
      BY <1>0, <1>7 DEF Begin, Runs
    <2>2. UpTo(run.local, source, File) /\ UpTo(source, Target', File \ File)
      BY <1>0, <2>1 DEF CopyKnown, UpTo
    <2> QED
      BY <1>0, <2>1, <2>2 DEF CopyKnown
  <1>8. ASSUME NEW f \in File, CopyFile(f) PROVE CopyKnown'
    <2> DEFINE t == [Target EXCEPT ![f] = source[f]]
               D == File \ (run.todo \ {f})
    <2>1. Target \in Copy
      BY <1>8 DEF CopyFile, IInv, ReceiverKnown, TypeOK, Target
    <2>2. /\ run.pc = "transfer" /\ run'.pc = "transfer" /\ run'.todo = run.todo \ {f}
          /\ run'.local = run.local /\ (run'.moved = run.moved)
      BY <1>0, <1>8 DEF CopyFile, Runs
    <2>3. Receives(t)
      BY <1>8 DEF CopyFile
    <2>4. \A g \in D : t[g] = IF g = f THEN source[f] ELSE Target[g]
      BY <2>1 DEF Copy
    <2>5. \A g \in D : g # f => g \in File \ run.todo
      OBVIOUS
    <2>6. PICK b \in seen : /\ UpTo(run.local, b, File) /\ UpTo(b, Target, File \ run.todo)
                            /\ \A g \in File \ run.todo : Target[g] # Partial
      BY <1>0, <2>2 DEF CopyKnown
    <2>7. UpTo(b, source, File) /\ source[f] # Partial
      BY <1>0, SyncAssumption DEF Tree
    <2> HIDE DEF t
    <2>8. Target' = t
      BY <2>2, <2>3 DEF Receives, Target
    <2>9. UpTo(b, t, D)
      BY <2>4, <2>5, <2>6, <2>7 DEF UpTo
    <2>10. \A g \in D : t[g] # Partial
      BY <2>4, <2>5, <2>6, <2>7
    <2> QED
      BY <1>0, <2>2, <2>6, <2>8, <2>9, <2>10 DEF CopyKnown
  <1>9. CASE Transferred
    <2>1. /\ run.pc = "transfer" /\ run'.pc = "verify" /\ run.todo = {} /\ run'.local = run.local
          /\ incoming' = incoming
      BY <1>0, <1>9 DEF Transferred, HostSame, host, Runs
    <2>2. File \ {} = File
      OBVIOUS
    <2>3. PICK b \in seen : UpTo(run.local, b, File) /\ UpTo(b, Target, File)
      BY <1>0, <2>1, <2>2 DEF CopyKnown
    <2>4. incoming = NoTree \/ Target = incoming
      BY DEF IInv, ReceiverKnown, Target
    <2> QED
      BY <1>0, <2>1, <2>3, <2>4 DEF CopyKnown
  <1>10. CASE Verify
    <2>1. CASE incoming = run.local
      <3>1. run.pc = "verify" /\ run'.pc = "rename" /\ run'.local = run.local
        BY <1>0, <1>10, <2>1 DEF Verify, Runs
      <3>2. PICK b \in seen : UpTo(run.local, b, File) /\ UpTo(b, run.local, File)
        BY <1>0, <2>1, <3>1, Distinct DEF CopyKnown
      <3>3. run.local = b
        BY <1>0, <3>2, UpToOrder
      <3> QED
        BY <1>0, <3>1, <3>3 DEF CopyKnown
    <2>2. CASE incoming # run.local
      BY <1>10, <2>2, EndKnown DEF Verify
    <2> QED
      BY <2>1, <2>2
  <1>11. CASE Rename
    <2>1. CASE final = NoTree /\ incoming # NoTree
      <3>1. run.pc = "rename" /\ run'.pc = "write" /\ run'.local = run.local
        BY <1>0, <1>11, <2>1 DEF Rename, Runs
      <3> QED
        BY <1>0, <3>1 DEF CopyKnown
    <2>2. CASE ~(final = NoTree /\ incoming # NoTree)
      BY <1>11, <2>2, EndKnown DEF Rename
    <2> QED
      BY <2>1, <2>2
  <1>12. CASE Write \/ RemoteFails \/ Killed \/ StopSeen
    <2>1. \E how : End(how)
      BY <1>12 DEF Write, RemoteFails, Killed, StopSeen
    <2> QED
      BY <2>1, EndKnown
  <1>13. CASE LateRename
    <2>1. /\ run'.pc = run.pc /\ run'.todo = run.todo /\ run'.local = run.local
          /\ run'.moved <=> run.moved \/ (run.pc = "transfer" /\ incoming # incoming')
      BY <1>0, <1>13 DEF LateRename, Runs
    <2>2. Moves /\ (run.moved => incoming = NoTree)
      BY <1>13 DEF LateRename, IInv, ReceiverKnown
    <2>3. run.pc = "transfer" => Target' = Target
      BY <2>1, <2>2 DEF Moves, Target
    <2>4. incoming' \in {incoming, NoTree}
      BY <2>2 DEF Moves
    <2> QED
      BY <1>0, <2>1, <2>3, <2>4 DEF CopyKnown
  <1>14. CASE Signal \/ LateWrite \/ UNCHANGED vars
    <2>1. /\ run'.pc = run.pc /\ run'.todo = run.todo /\ run'.local = run.local /\ (run'.moved = run.moved)
          /\ incoming' = incoming /\ final' = final
      BY <1>0, <1>14 DEF Signal, LateWrite, HostSame, host, vars, Runs
    <2> QED
      BY <1>0, <2>1 DEF CopyKnown, Target
  <1> QED
    BY <1>1, <1>2, <1>3, <1>4, <1>5, <1>6, <1>7, <1>8, <1>9, <1>10, <1>11, <1>12, <1>13, <1>14
       DEF Next

\* At the start nothing was read and nothing sent.
LEMMA InitSInv == Init => SInv
  <1> SUFFICES ASSUME Init PROVE SInv
    OBVIOUS
  <1>1. source \in Tree /\ seen = {source} /\ \A f \in File : source[f] # Gone => source[f] = 0
    BY SyncAssumption DEF Init, Tree
  <1>2. SeenKnown
    BY <1>1, UpToOrder DEF Init, SeenKnown
  <1> QED
    BY <1>2 DEF Init, Idle, SInv, CopiesKnown, CacheKnown, HashKnown, CopyKnown, Held

\* Every step keeps it, where no file is both created and removed.
LEMMA StepSInv ==
    ASSUME Disjoint
    PROVE  IInv /\ SInv /\ [Next]_vars => SInv'
  <1> SUFFICES ASSUME IInv, SInv, [Next]_vars PROVE SInv'
    OBVIOUS
  <1>1. CASE \E f \in File : Edit(f)
    BY <1>1, EditSInv
  <1>2. CASE ~\E f \in File : Edit(f)
    <2>1. SeenKnown'
      BY <1>2, StepHere DEF SInv, SeenKnown
    <2> QED
      BY <1>2, <2>1, StepCopies, StepCache, StepHash, StepCopy DEF SInv
  <1> QED
    BY <1>1, <1>2

(* What is published was the dataset at one moment: for any number of edits while *)
(* it is hashed, copied and checked, and whatever is stopped, killed, lost or      *)
(* late, as long as no file appears that may be removed again.                     *)
THEOREM PublishedSnapshot ==
    ASSUME Created \cap Removed = {}
    PROVE  Spec => []PublishedIsSnapshot
  <1>1. IInv /\ SInv /\ [Next]_vars => SInv'
    BY StepSInv DEF Disjoint
  <1>2. SInv => PublishedIsSnapshot
    BY DEF SInv, CopiesKnown, PublishedIsSnapshot
  <1> QED
    BY <1>1, <1>2, InitSInv, Invariance, PTL DEF Spec

(* A cached manifest is the one of the dataset whose listing it is kept under, and  *)
(* what the page calls synced is the dataset as it is on both machines.             *)
THEOREM CachedTrue ==
    ASSUME Created \cap Removed = {}
    PROVE  Spec => [](CacheIsTrue /\ PageIsTrue)
  <1>1. IInv /\ SInv /\ [Next]_vars => SInv'
    BY StepSInv DEF Disjoint
  <1>2. IInv /\ SInv => CacheIsTrue /\ PageIsTrue
    <2> SUFFICES ASSUME IInv, SInv, CacheValid
                 PROVE  cache.files = source /\ (cache.files = manifest => final = source)
      BY DEF CacheIsTrue, PageIsTrue
    <2>1. cache.files = source /\ source \in Tree
      BY DEF CacheValid, SInv, CacheKnown, IInv, TypeOK
    <2> QED
      BY <2>1, Distinct DEF IInv, HostKnown
  <1> QED
    BY <1>1, <1>2, InitSInv, Invariance, PTL DEF Spec
===============================================================================
