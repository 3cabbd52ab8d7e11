--------------------------- MODULE DatasetOps_proofs ---------------------------
(***************************************************************************)
(* Proofs about DatasetOps, for any datasets, requests, names and bounds.  *)
(* The first invariant ties everybody who changes a dataset to the lock    *)
(* and the gate; what a job reads stays still because of it.  The second   *)
(* follows an archive part by part.                                        *)
(***************************************************************************)
EXTENDS DatasetOps, WellFoundedInduction, TLAPS

Held == Working \cup {"cleaning"}
Uses == {"job", "delete", "collection", "meddle", "crash"}

JobFields == {"at", "request", "versions", "before", "out", "copied", "offset", "stamps", "late",
              "stage", "word"}

\* The records keep their fields.
Shapes ==
    /\ DOMAIN job = JobFields
    /\ DOMAIN deletion = {"at", "name", "listed", "moved"}
    /\ DOMAIN collection = {"at", "name"}
    /\ used \in [Uses -> Nat]

\* Who may change a dataset holds the lock.
Locks ==
    /\ job.at \in Held => lock = "job"
    /\ deletion.at # "none" => gate = "delete"
    /\ deletion.at \in {"found", "moving", "rolling"} => lock = "delete"
    /\ collection.at \in {"checked", "saved"} => gate = "start"
    /\ collection.at = "recording" => lock = "collection"

\* A job that has been submitted is one of the requests, and reads what is there.
Reads ==
    /\ job.at \in Working \cup {"reviewed", "queued"} => job.request \in Requests
    /\ job.at \in {"reviewed", "queued", "locked", "checked"} => job.before = <<>>
    /\ OnlyHandsDisturb

OpsInv == Shapes /\ Locks /\ Reads



-------------------------------------------------------------------------------
\* The idle states of a job, a deletion and a collection.
LEMMA JobIs ==
    /\ NoJob.at = "none" /\ NoJob.before = <<>> /\ DOMAIN NoJob = JobFields
    /\ NoDeletion.at = "none" /\ DOMAIN NoDeletion = {"at", "name", "listed", "moved"}
    /\ NoCollection.at = "idle" /\ DOMAIN NoCollection = {"at", "name"}
  BY DEF NoJob, NoDeletion, NoCollection, JobFields

\* A job that goes on, or gives up, keeps its request and its fingerprints.
LEMMA JobGoes ==
    ASSUME DOMAIN job = JobFields
    PROVE  /\ \A at : /\ To(at).at = at /\ DOMAIN To(at) = JobFields
                     /\ To(at).request = job.request /\ To(at).before = job.before
           /\ Abort.at = "cleaning" /\ DOMAIN Abort = JobFields
  BY DEF To, Abort, JobFields

\* At the start nobody holds anything.
LEMMA InitOps == Init => OpsInv
  <1> SUFFICES ASSUME Init PROVE OpsInv
    OBVIOUS
  <1>0. used = [job |-> 0, delete |-> 0, collection |-> 0, meddle |-> 0, crash |-> 0] =>
           used \in [Uses -> Nat]
    BY DEF Uses
  <1>1. Shapes
    BY JobIs, <1>0 DEF Init, Shapes
  <1>2. job.at = "none" /\ deletion.at = "none" /\ collection.at = "idle"
    BY JobIs DEF Init
  <1> QED
    BY <1>1, <1>2 DEF OpsInv, Locks, Reads, OnlyHandsDisturb, Held, Working

\* A bound is used up one by one.
LEMMA UseKeeps ==
    ASSUME Shapes, NEW what \in Uses, NEW max, Use(what, max)
    PROVE  used' \in [Uses -> Nat] /\ (what # "meddle" => used'["meddle"] = used["meddle"])
                                   /\ (what = "meddle" => used'["meddle"] # 0)
  BY DEF Shapes, Use, Uses

\* A hand leaves the job where it is, and changes nothing it knows.
LEMMA MeddleJob ==
    ASSUME Shapes, Meddle
    PROVE  /\ DOMAIN job' = JobFields
           /\ job'.at = job.at /\ job'.request = job.request /\ job'.versions = job.versions
           /\ job'.before = job.before /\ job'.out = job.out /\ job'.copied = job.copied
           /\ job'.offset = job.offset /\ job'.stamps = job.stamps
           /\ job'.stage = job.stage /\ job'.word = job.word
  <1>1. CASE UNCHANGED job
    BY <1>1 DEF Shapes
  <1>2. CASE job' # job
    <2>1. PICK n : job' = [job EXCEPT !.late = @ \/ (job.at = "compared" /\ n \in SourceNames(Req))]
      BY <1>2 DEF Meddle, DropLast, Replace
    <2> QED
      BY <2>1 DEF Shapes, JobFields
  <1> QED
    BY <1>1, <1>2

\* An edit is of one dataset.
LEMMA OneSource == \A r \in Requests : r.kind # "merge" => DOMAIN r.sources = {1}
  BY OpsAssumption, Zenon

\* The work of a job keeps the lock until it cleans up, and moves no source.
LEMMA WorkKeeps ==
    ASSUME OpsInv, Work
    PROVE  OpsInv'
  <1> USE DEF OpsInv, Shapes, Locks, Reads, OnlyHandsDisturb, Held, Working
  <1>1. CASE Acquire
    <2>1. CASE lock = "free"
      BY <1>1, <2>1, JobGoes DEF Acquire, Contents, SourceNames
    <2>2. CASE lock # "free"
      BY <1>1, <2>2, JobIs DEF Acquire
    <2> QED
      BY <2>1, <2>2
  <1>2. CASE Recheck
    <2>1. ASSUME Checked(Req) PROVE SourceNames(Req) \subseteq DOMAIN data
      <3>1. Req \in Requests
        BY <1>2 DEF Recheck, Req
      <3>2. CASE Req.kind = "merge"
        BY <2>1, <3>2 DEF Checked, Mergeable, Healthy
      <3>3. CASE Req.kind # "merge"
        <4>1. Healthy(Req.sources[1])
          BY <2>1, <3>3 DEF Checked, Editable
        <4>2. DOMAIN Req.sources = {1}
          BY <3>1, <3>3, OneSource, Zenon
        <4> QED
          BY <4>1, <4>2 DEF SourceNames, Healthy
      <3> QED
        BY <3>2, <3>3
    <2> QED
      BY <1>2, <2>1 DEF Recheck, Go, To, Abort, Req, SourceNames
  <1>3. CASE Fingerprint
    BY <1>3 DEF Fingerprint, Go, Req, Contents, SourceNames
  <1>4. CASE MakeStage
    BY <1>4 DEF MakeStage, Go, Abort, Contents, SourceNames
  <1>5. CASE Copy
    BY <1>5 DEF Copy, Go, Contents, SourceNames
  <1>6. CASE Rewrite
    BY <1>6 DEF Rewrite, Go, To, Abort, Contents, SourceNames
  <1>s. CASE Stamp
    <2>1. /\ job'.at \in {"compared", "stamped"} /\ DOMAIN job' = JobFields /\ job.at = "compared"
          /\ job'.request = job.request /\ job'.before = job.before
          /\ UNCHANGED <<data, lock, gate, deletion, collection, used>>
      BY <1>s DEF Stamp, Go, JobFields
    <2> QED
      BY <2>1 DEF Contents, SourceNames
  <1>7. CASE Verify \/ Compare \/ CheckName
    <2>1. /\ job' \in {To("verified"), To("compared"), To("stamped"), To("named"), Abort}
          /\ job.at \in {"rewritten", "verified", "stamped"}
          /\ UNCHANGED <<data, lock, gate, deletion, collection, used>>
      BY <1>7 DEF Verify, Compare, Compared, CheckName, Go
    <2> QED
      BY <2>1, JobGoes DEF Contents, SourceNames
  <1>8. CASE Rename
    <2>1. /\ job'.at = "cleaning" /\ DOMAIN job' = JobFields
          /\ UNCHANGED <<lock, gate, deletion, collection, used>> /\ job.at = "named"
      BY <1>8, JobGoes DEF Rename, JobFields
    <2> QED
      BY <2>1
  <1>9. CASE Clean
    BY <1>9, JobIs, JobGoes DEF Clean
  <1> QED
    BY <1>1, <1>2, <1>3, <1>4, <1>5, <1>6, <1>7, <1>8, <1>9, <1>s DEF Work

\* So do its failures, and the requests for it.
LEMMA JobKeeps ==
    ASSUME OpsInv, Review \/ Submit \/ CopyFails \/ Stop \/ Kill \/ NextJob
    PROVE  OpsInv'
  <1> USE DEF OpsInv, Shapes, Locks, Reads, OnlyHandsDisturb, Held, Working
  <1>1. CASE Review
    <2>1. used' \in [Uses -> Nat]
      BY <1>1, UseKeeps DEF Review, Uses
    <2> QED
      <3>1. PICK r \in Requests :
                job' = [NoJob EXCEPT !.at = "reviewed", !.request = r, !.versions = Contents(r)]
        BY <1>1 DEF Review
      <3>2. /\ DOMAIN job' = JobFields /\ job'.at = "reviewed"
            /\ job'.request = r /\ job'.before = <<>>
        BY <3>1, JobIs DEF JobFields
      <3>3. UNCHANGED <<lock, gate, deletion, collection>>
        BY <1>1 DEF Review
      <3> QED
        BY <2>1, <3>2, <3>3
  <1>2. CASE Submit
    BY <1>2, JobIs, JobGoes DEF Submit
  <1>3. CASE CopyFails
    BY <1>3, JobGoes DEF CopyFails, Go
  <1>6. CASE Stop
    <2>1. CASE job.at \in Working
      <3>1. /\ job'.at = "cleaning" /\ DOMAIN job' = JobFields
            /\ UNCHANGED <<lock, gate, deletion, collection, used>>
        BY <1>6, <2>1 DEF Stop, JobFields
      <3> QED
        BY <2>1, <3>1
    <2>2. CASE job.at \notin Working
      <3>1. /\ job'.at = "dead" /\ DOMAIN job' = JobFields
            /\ lock' = IF job.at = "cleaning" THEN "free" ELSE lock
            /\ UNCHANGED <<gate, deletion, collection, used>>
        BY <1>6, <2>2 DEF Stop, JobFields
      <3> QED
        BY <2>2, <3>1
    <2> QED
      BY <2>1, <2>2
  <1>4. CASE Kill
    <2>1. used' \in [Uses -> Nat]
      BY <1>4, UseKeeps DEF Kill, Uses
    <2> QED
      BY <1>4, <2>1 DEF Kill
  <1>5. CASE NextJob
    BY <1>5, JobIs, JobGoes DEF NextJob, Go
  <1> QED
    BY <1>1, <1>2, <1>3, <1>4, <1>5, <1>6

\* The handlers change a dataset only under a lock that no job has.
LEMMA HandlersKeep ==
    ASSUME OpsInv, AskDelete \/ Delete \/ MoveFails \/ RollBackFails \/ AskCollection \/ Collect
                   \/ EndCollection
    PROVE  OpsInv'
  <1> USE DEF OpsInv, Shapes, Locks, Reads, OnlyHandsDisturb, Held, Working
  <1>u. ASSUME UNCHANGED <<data, job>>, used'["meddle"] = used["meddle"] PROVE Reads'
    BY <1>u DEF Contents, SourceNames
  <1>i. ASSUME UNCHANGED job, job.at \notin Working \/ used["meddle"] # 0, UNCHANGED used PROVE Reads'
    BY <1>i
  <1>1. CASE AskDelete
    <2>1. used' \in [Uses -> Nat] /\ used'["meddle"] = used["meddle"]
      BY <1>1, UseKeeps DEF AskDelete, Uses
    <2> QED
      BY <1>1, <1>u, <2>1 DEF AskDelete, NoDeletion
  <1>2. CASE FindParts
    <2>1. CASE deletion' = NoDeletion
      BY <1>2, <2>1, <1>u DEF FindParts, EndDelete, NoDeletion
    <2>2. CASE deletion' # NoDeletion
      <3>1. /\ DOMAIN deletion' = DOMAIN deletion /\ deletion'.at = "found"
            /\ lock = "free" /\ lock' = "delete" /\ gate' = gate
        BY <1>2, <2>2 DEF FindParts, EndDelete
      <3> QED
        BY <1>2, <3>1, <1>u DEF FindParts
    <2> QED
      BY <2>1, <2>2
  <1>3. CASE WriteManifest
    BY <1>3, <1>u DEF WriteManifest
  <1>4. CASE Move
    BY <1>4, <1>i DEF Move
  <1>5. CASE RollBack
    BY <1>5, <1>i DEF RollBack
  <1>6. CASE DeleteReturns
    BY <1>6, <1>u DEF DeleteReturns, EndDelete, NoDeletion
  <1>7. CASE MoveFails
    BY <1>7, <1>u DEF MoveFails
  <1>13. CASE RollBackFails
    BY <1>13, <1>u DEF RollBackFails, EndDelete, NoDeletion
  <1>8. CASE AskCollection
    <2>1. used' \in [Uses -> Nat] /\ used'["meddle"] = used["meddle"]
      BY <1>8, UseKeeps DEF AskCollection, Uses
    <2> QED
      BY <1>8, <1>u, <2>1 DEF AskCollection
  <1>9. CASE SaveInput
    BY <1>9, <1>u DEF SaveInput
  <1>10. CASE StartRecording
    <2>1. CASE lock = "free"
      <3>1. /\ lock' = "collection" /\ collection' = [collection EXCEPT !.at = "recording"]
            /\ UNCHANGED <<data, job, deletion, used>>
            /\ DOMAIN collection' = DOMAIN collection
        BY <1>10, <2>1 DEF StartRecording
      <3>2. deletion.at = "none"
        BY <1>10, <2>1 DEF StartRecording
      <3> QED
        BY <2>1, <3>1, <3>2, <1>u
    <2>2. CASE lock # "free"
      BY <1>10, <2>2, <1>u, JobIs DEF StartRecording
    <2> QED
      BY <2>1, <2>2
  <1>11. CASE RecordEpisode
    BY <1>11, <1>i DEF RecordEpisode
  <1>12. CASE EndCollection
    BY <1>12, <1>u DEF EndCollection, NoCollection
  <1> QED
    BY <1>1, <1>2, <1>3, <1>4, <1>5, <1>6, <1>7, <1>8, <1>9, <1>10, <1>11, <1>12, <1>13
       DEF Delete, Collect

\* Every step keeps the invariant.
LEMMA NextOps == ASSUME OpsInv, [Next]_vars PROVE OpsInv'
  <1>1. CASE Crash
    <2>1. used' \in [Uses -> Nat] /\ used'["meddle"] = used["meddle"]
      BY <1>1, UseKeeps DEF Crash, Uses, OpsInv
    <2> QED
      BY <1>1, <2>1 DEF Crash, OpsInv, Shapes, Locks, Reads, OnlyHandsDisturb, Held, Working,
                        NoDeletion, NoCollection, Contents, SourceNames
  <1>2. CASE Meddle
    <2>1. used' \in [Uses -> Nat] /\ used'["meddle"] # 0
      BY <1>2, UseKeeps DEF Meddle, Uses, OpsInv
    <2>2. UNCHANGED <<lock, gate, deletion, collection>>
      BY <1>2 DEF Meddle
    <2> QED
      BY <1>2, <2>1, <2>2, MeddleJob DEF OpsInv, Shapes, Locks, Reads, OnlyHandsDisturb, Held, Working
  <1>3. CASE UNCHANGED vars
    BY <1>3 DEF vars, OpsInv, Shapes, Locks, Reads, OnlyHandsDisturb, Contents, SourceNames
  <1> QED
    BY <1>1, <1>2, <1>3, WorkKeeps, JobKeeps, HandlersKeep DEF Next

\* The locks, the gate and what a job may rely on, in every behaviour.
THEOREM OpsInvariance == Spec => []OpsInv
  BY InitOps, NextOps, PTL DEF Spec

\* "The hardware lock serializes collection, deletion and other merge workers"
\* (dataset_merge.py): only a hand can disturb the datasets that a job reads.
THEOREM SourcesStay == Spec => []OnlyHandsDisturb
  <1>1. OpsInv => OnlyHandsDisturb
    BY DEF OpsInv, Reads
  <1> QED
    BY <1>1, OpsInvariance, PTL

-------------------------------------------------------------------------------
\* What FindParts may find: up to three parts, the dataset first, each once.
IsList(q) ==
    /\ Len(q) \in 1..3 /\ DOMAIN q = 1..Len(q) /\ q[1] = "data"
    /\ \A k, l \in 1..Len(q) : q[k] = q[l] => k = l

Moving == {"moving", "rolling"}

\* The parts an archive lists, and the first m of them.
Parts(b) == {b.listed[k] : k \in DOMAIN b.listed}
First(b, m) == {b.listed[k] : k \in 1..m}

ArchiveFields == {"name", "listed", "moved", "kept", "cut"}

\* It holds what its list starts with; all of it or nothing, unless it was cut short.
Finished(b) ==
    /\ \E m \in 0..Len(b.listed) : b.moved = First(b, m)
    /\ ~b.cut => b.moved \in {{}, Parts(b)}

\* One archive: finished, or the last of them, into which deletion.moved parts have gone.
Archive(i) ==
    /\ DOMAIN trash[i] = ArchiveFields
    /\ IsList(trash[i].listed)
    /\ "data" \in trash[i].moved => trash[i].kept # <<>>
    /\ IF deletion.at \in Moving /\ i = Len(trash)
       THEN /\ deletion.listed = trash[i].listed
            /\ deletion.moved \in 0..Len(trash[i].listed)
            /\ trash[i].moved = First(trash[i], deletion.moved)
       ELSE Finished(trash[i])

Archives ==
    /\ \E S : trash \in Seq(S)
    /\ deletion.at = "found" => IsList(deletion.listed)
    /\ deletion.at \in {"asked", "found"} => deletion.moved = 0
    /\ deletion.at \in Moving => Len(trash) # 0
    /\ \A i \in DOMAIN trash : Archive(i)

\* The parts of an archive are listed once each.
LEMMA PartsOnce ==
    ASSUME NEW b, IsList(b.listed)
    PROVE  /\ Len(b.listed) \in 1..3 /\ DOMAIN b.listed = 1..Len(b.listed)
           /\ First(b, 0) = {} /\ First(b, Len(b.listed)) = Parts(b)
           /\ \A m \in 0..Len(b.listed) : First(b, m) \subseteq Parts(b)
           /\ \A m \in 1..Len(b.listed) :
                 /\ First(b, m) = First(b, m - 1) \cup {b.listed[m]}
                 /\ First(b, m - 1) = First(b, m) \ {b.listed[m]}
                 /\ b.listed[m] = "data" <=> m = 1
  <1>1. Len(b.listed) \in 1..3 /\ DOMAIN b.listed = 1..Len(b.listed)
    BY DEF IsList
  <1>2. \A k, l \in 1..Len(b.listed) : b.listed[k] = b.listed[l] => k = l
    BY DEF IsList
  <1>3. \A m \in 1..Len(b.listed) : b.listed[m] = "data" <=> m = 1
    BY DEF IsList
  <1>4. \A m \in 1..Len(b.listed) :
            /\ First(b, m) = First(b, m - 1) \cup {b.listed[m]}
            /\ First(b, m - 1) = First(b, m) \ {b.listed[m]}
    BY <1>1, <1>2 DEF First
  <1>5. First(b, Len(b.listed)) = Parts(b) /\ First(b, 0) = {}
    BY <1>1 DEF First, Parts
  <1>6. \A m \in 0..Len(b.listed) : First(b, m) \subseteq Parts(b)
    BY <1>1 DEF First, Parts
  <1> QED
    BY <1>1, <1>3, <1>4, <1>5, <1>6

\* At the start there is no archive.
LEMMA InitArchives == Init => Archives
  <1> SUFFICES ASSUME Init PROVE Archives
    OBVIOUS
  <1>1. trash = <<>> /\ deletion.at = "none"
    BY JobIs DEF Init
  <1> QED
    BY <1>1 DEF Archives, Moving

\* Where the archives are not touched, only the state of the deletion counts.
LEMMA ArchivesStay ==
    ASSUME Archives, UNCHANGED trash,
           \/ UNCHANGED deletion
           \/ /\ deletion.at \notin Moving /\ deletion'.at \notin Moving
              /\ deletion'.at = "found" => IsList(deletion'.listed)
              /\ deletion'.at \in {"asked", "found"} => deletion'.moved = 0
    PROVE  Archives'
  <1>1. ASSUME NEW i \in DOMAIN trash PROVE Archive(i)'
    BY <1>1 DEF Archives, Archive, First
  <1> QED
    BY <1>1 DEF Archives, Moving

\* One part goes into the last archive, or comes out of it.
LastIs(m, k) == trash' = [trash EXCEPT ![Len(trash)].moved = m, ![Len(trash)].kept = k]

\* A function on 1..n is a sequence.
LEMMA FunctionIsSeq ==
    ASSUME NEW T, NEW n \in Nat, NEW f \in [1..n -> T]
    PROVE  f \in Seq(T)
  OBVIOUS

\* Then the others stay, and the last keeps its list.
LEMMA LastChanges ==
    ASSUME Archives, deletion.at \in Moving, NEW m, NEW k,
           LastIs(m, k)
    PROVE  /\ Len(trash) \in DOMAIN trash /\ Len(trash') = Len(trash)
           /\ DOMAIN trash' = DOMAIN trash
           /\ \E S : trash' \in Seq(S)
           /\ \A i \in DOMAIN trash \ {Len(trash)} : trash'[i] = trash[i]
           /\ DOMAIN trash'[Len(trash)] = ArchiveFields
           /\ trash'[Len(trash)].listed = trash[Len(trash)].listed
           /\ trash'[Len(trash)].moved = m /\ trash'[Len(trash)].kept = k
  <1> USE DEF LastIs
  <1>0. PICK S : trash \in Seq(S)
    BY DEF Archives
  <1>1. Len(trash) \in Nat \ {0} /\ DOMAIN trash = 1..Len(trash)
    BY DEF Archives
  <1>2. /\ DOMAIN trash' = 1..Len(trash)
        /\ \A i \in DOMAIN trash \ {Len(trash)} : trash'[i] = trash[i]
    BY <1>1
  <1>3. DOMAIN trash[Len(trash)] = ArchiveFields
    BY <1>1 DEF Archives, Archive
  <1>4. /\ DOMAIN trash'[Len(trash)] = ArchiveFields
        /\ trash'[Len(trash)].listed = trash[Len(trash)].listed
        /\ trash'[Len(trash)].moved = m /\ trash'[Len(trash)].kept = k
    BY <1>1, <1>3
  <1>5. trash' = [i \in 1..Len(trash) |-> trash'[i]]
    BY <1>1
  <1>6. trash' \in Seq(S \cup {trash'[Len(trash)]}) /\ Len(trash') = Len(trash)
    <2>1. \A i \in 1..Len(trash) : trash'[i] \in S \cup {trash'[Len(trash)]}
      <3>1. \A i \in 1..Len(trash) : trash[i] \in S
        BY <1>0
      <3> QED
        BY <1>1, <1>2, <3>1
    <2>2. trash' \in [1..Len(trash) -> S \cup {trash'[Len(trash)]}]
      BY <1>5, <2>1
    <2>3. trash' \in Seq(S \cup {trash'[Len(trash)]})
      BY <1>1, <2>2, FunctionIsSeq
    <2> QED
      BY <1>1, <1>2, <2>3
  <1>7. \E T : trash' \in Seq(T)
    BY <1>6
  <1> QED
    BY <1>1, <1>2, <1>4, <1>6, <1>7

\* With the counter of moved parts moving along, the archives stay in order.
LEMMA LastFollows ==
    ASSUME Archives, Shapes, deletion.at \in Moving, NEW m, NEW k, NEW c \in Nat,
           LastIs(m, k),
           deletion' = [deletion EXCEPT !.moved = c],
           c \in 0..Len(trash[Len(trash)].listed), m = First(trash[Len(trash)], c),
           "data" \in m => k # <<>>
    PROVE  Archives'
  <1>1. deletion'.at = deletion.at /\ deletion'.listed = deletion.listed /\ deletion'.moved = c
    BY DEF Shapes
  <1>2. /\ Len(trash) \in DOMAIN trash /\ Len(trash') = Len(trash)
        /\ DOMAIN trash' = DOMAIN trash
        /\ \E S : trash' \in Seq(S)
        /\ \A i \in DOMAIN trash \ {Len(trash)} : trash'[i] = trash[i]
        /\ DOMAIN trash'[Len(trash)] = ArchiveFields
        /\ trash'[Len(trash)].listed = trash[Len(trash)].listed
        /\ trash'[Len(trash)].moved = m /\ trash'[Len(trash)].kept = k
    BY LastChanges
  <1>3. ASSUME NEW i \in DOMAIN trash, i # Len(trash) PROVE Archive(i)'
    <2>1. Archive(i) /\ trash'[i] = trash[i] /\ Len(trash') = Len(trash)
      BY <1>2, <1>3 DEF Archives
    <2> QED
      BY <1>3, <2>1 DEF Archive
  <1>4. Archive(Len(trash))'
    <2>1. Archive(Len(trash))
      BY <1>2 DEF Archives
    <2>2. First(trash[Len(trash)], c) = First(trash'[Len(trash)], c)
      BY <1>2 DEF First
    <2> QED
      BY <1>1, <1>2, <2>1, <2>2 DEF Archive
  <1>5. \A i \in DOMAIN trash' : Archive(i)'
    BY <1>2, <1>3, <1>4
  <1> QED
    BY <1>1, <1>2, <1>5 DEF Archives, Moving

\* What the invariant says of the archive a deletion is filling.
LEMMA MovingParts ==
    ASSUME Archives, deletion.at \in Moving
    PROVE  /\ IsList(trash[Len(trash)].listed) /\ deletion.listed = trash[Len(trash)].listed
           /\ deletion.moved \in 0..Len(trash[Len(trash)].listed)
           /\ trash[Len(trash)].moved = First(trash[Len(trash)], deletion.moved)
           /\ "data" \in trash[Len(trash)].moved => trash[Len(trash)].kept # <<>>
           /\ Len(trash) \in DOMAIN trash
  <1>1. Len(trash) \in DOMAIN trash
    BY DEF Archives
  <1> QED
    BY <1>1 DEF Archives, Archive

\* The next part goes in.
LEMMA MoveArchives == ASSUME Archives, Shapes, Move PROVE Archives'
  <1> DEFINE b == trash[Len(trash)]
             part == deletion.listed[deletion.moved + 1]
             kept == IF part = "data" THEN <<data[deletion.name]>> ELSE b.kept
  <1>1. deletion.at \in Moving /\ deletion.moved < Len(deletion.listed)
    BY DEF Move, Moving
  <1>2. deletion.moved + 1 \in 1..Len(b.listed) /\ deletion.moved = (deletion.moved + 1) - 1
    BY <1>1, MovingParts, PartsOnce
  <1>3. First(b, deletion.moved + 1) = b.moved \cup {part}
    BY <1>1, <1>2, MovingParts, PartsOnce
  <1>4. LastIs(b.moved \cup {part}, kept)
    BY <1>1, MovingParts DEF LastIs, Move, Take, Archives, Archive
  <1>5. "data" \in b.moved \cup {part} => kept # <<>>
    BY <1>1, MovingParts
  <1>6. deletion' = [deletion EXCEPT !.moved = deletion.moved + 1]
    BY DEF Move
  <1>7. deletion.moved + 1 \in Nat /\ deletion.moved + 1 \in 0..Len(b.listed)
    BY <1>2
  <1> HIDE DEF b, kept
  <1> QED
    BY <1>1, <1>3, <1>4, <1>5, <1>6, <1>7, LastFollows DEF b

\* The last part comes out again.
LEMMA RollBackArchives == ASSUME Archives, Shapes, RollBack PROVE Archives'
  <1> DEFINE b == trash[Len(trash)]
             part == deletion.listed[deletion.moved]
             kept == IF part = "data" THEN <<>> ELSE b.kept
  <1>1. deletion.at \in Moving /\ deletion.moved > 0
    BY DEF RollBack, Moving
  <1>2. deletion.moved \in 1..Len(b.listed) /\ deletion.moved - 1 \in 0..Len(b.listed)
    BY <1>1, MovingParts, PartsOnce
  <1>3. First(b, deletion.moved - 1) = b.moved \ {part}
    <2>1. \A m \in 1..Len(b.listed) : First(b, m - 1) = First(b, m) \ {b.listed[m]}
      BY <1>1, MovingParts, PartsOnce
    <2>2. b.moved = First(b, deletion.moved) /\ part = b.listed[deletion.moved]
      BY <1>1, MovingParts
    <2> QED
      BY <1>2, <2>1, <2>2
  <1>4. LastIs(b.moved \ {part}, kept)
    BY <1>1, MovingParts DEF LastIs, RollBack, PutBack, Archives, Archive
  <1>5. "data" \in b.moved \ {part} => kept # <<>>
    BY <1>1, MovingParts
  <1>6. deletion' = [deletion EXCEPT !.moved = deletion.moved - 1]
    BY DEF RollBack
  <1>7. deletion.moved - 1 \in Nat /\ deletion.moved - 1 \in 0..Len(b.listed)
    BY <1>2
  <1> HIDE DEF b, kept
  <1> QED
    BY <1>1, <1>3, <1>4, <1>5, <1>6, <1>7, LastFollows DEF b

\* A new archive lists its parts before any of them moves.
LEMMA WriteArchives == ASSUME Archives, Shapes, WriteManifest PROVE Archives'
  <1> DEFINE b == [name |-> deletion.name, listed |-> deletion.listed, moved |-> {}, kept |-> <<>>,
                     cut |-> FALSE]
             n == Len(trash) + 1
  <1>1. /\ trash' = Append(trash, b) /\ deletion.at = "found"
        /\ deletion' = [deletion EXCEPT !.at = "moving"]
    BY DEF WriteManifest
  <1>2. deletion'.at = "moving" /\ deletion'.listed = deletion.listed /\ deletion'.moved = deletion.moved
    BY <1>1 DEF Shapes
  <1>3. IsList(deletion.listed) /\ deletion.moved = 0
    BY <1>1 DEF Archives
  <1>4. /\ Len(trash) \in Nat /\ DOMAIN trash = 1..Len(trash)
        /\ Len(trash') = n /\ DOMAIN trash' = 1..n /\ trash'[n] = b
        /\ \A i \in DOMAIN trash : trash'[i] = trash[i]
    BY <1>1 DEF Archives
  <1>5. \E S : trash' \in Seq(S)
    <2> PICK S : trash \in Seq(S)
      BY DEF Archives
    <2>1. trash \in Seq(S \cup {b})
      BY <1>4
    <2>2. Append(trash, b) \in Seq(S \cup {b})
      BY <2>1
    <2> QED
      BY <1>1, <2>2
  <1>6. ASSUME NEW i \in DOMAIN trash PROVE Archive(i)'
    <2>1. Archive(i) /\ trash'[i] = trash[i] /\ deletion.at \notin Moving /\ i # Len(trash')
      BY <1>1, <1>4, <1>6 DEF Archives, Moving
    <2> QED
      BY <2>1 DEF Archive
  <1>7. Archive(Len(trash))'
    <2>1. IsList(b.listed) /\ First(b, 0) = {} /\ Len(b.listed) \in 1..3
      BY <1>3, PartsOnce
    <2>2. DOMAIN b = ArchiveFields /\ b.moved = {} /\ b.listed = deletion.listed
      BY DEF ArchiveFields
    <2>3. First(trash'[n], deletion'.moved) = {}
      BY <1>2, <1>3, <1>4, <2>1
    <2> HIDE DEF b
    <2>4. /\ IsList(trash'[n].listed) /\ trash'[n].moved = {} /\ 0 \in 0..Len(trash'[n].listed)
          /\ DOMAIN trash'[n] = ArchiveFields
          /\ trash'[n].listed = deletion'.listed
      BY <1>2, <1>4, <2>1, <2>2
    <2> QED
      BY <1>2, <1>3, <1>4, <2>3, <2>4 DEF Archive, Moving
  <1>8. \A i \in DOMAIN trash' : Archive(i)'
    BY <1>4, <1>6, <1>7
  <1> QED
    BY <1>2, <1>4, <1>5, <1>8 DEF Archives, Moving

\* A deletion that returns leaves its archive full or empty.
LEMMA EndArchives ==
    ASSUME Archives, deletion'.at = "none", UNCHANGED trash,
           deletion.at \notin Moving \/ deletion.moved \in {0, Len(deletion.listed)}
    PROVE  Archives'
  <1>1. CASE deletion.at \notin Moving
    BY <1>1, ArchivesStay DEF Moving
  <1>2. CASE deletion.at \in Moving
    <2>1. ASSUME NEW i \in DOMAIN trash, i # Len(trash) PROVE Archive(i)'
      BY <1>2, <2>1 DEF Archives, Archive, Moving
    <2>2. Finished(trash[Len(trash)])
      BY <1>2, MovingParts, PartsOnce DEF Finished
    <2>3. Archive(Len(trash))'
      BY <1>2, <2>2, MovingParts DEF Archives, Archive, Moving
    <2> QED
      BY <2>1, <2>3 DEF Archives, Moving
  <1> QED
    BY <1>1, <1>2

\* A sequence whose last member is another one.
LEMMA LastBecomes ==
    ASSUME NEW S, NEW q \in Seq(S), NEW n \in Nat, n = Len(q), n # 0, NEW b,
           NEW r, r = [q EXCEPT ![n] = b]
    PROVE  /\ DOMAIN r = 1..n /\ Len(r) = n /\ r[n] = b /\ r \in Seq(S \cup {b})
           /\ \A i \in 1..n : i # n => r[i] = q[i]
  <1>1. DOMAIN q = 1..n /\ \A i \in 1..n : q[i] \in S
    OBVIOUS
  <1>2. DOMAIN r = 1..n /\ r[n] = b /\ \A i \in 1..n : i # n => r[i] = q[i]
    BY <1>1
  <1>r. r = [i \in 1..n |-> r[i]]
    BY <1>1
  <1>3. r \in [1..n -> S \cup {b}]
    BY <1>1, <1>2, <1>r
  <1>4. r \in Seq(S \cup {b})
    BY <1>3, FunctionIsSeq
  <1>5. Len(r) = n
    BY <1>2, <1>4
  <1> QED
    BY <1>2, <1>4, <1>5

\* One that is cut short leaves the dataset, or what its list starts with.
LEMMA CutArchives ==
    ASSUME Archives, deletion'.at = "none", deletion.at \in Moving, trash' = CutShort
    PROVE  Archives'
  <1> DEFINE n == Len(trash)
             b == [trash[n] EXCEPT !.cut = TRUE]
  <1>1. PICK S : trash \in Seq(S)
    BY DEF Archives
  <1>2. n \in Nat \ {0} /\ DOMAIN trash = 1..n
    BY <1>1 DEF Archives, Moving
  <1>3. trash' = [trash EXCEPT ![n] = b]
    BY DEF CutShort
  <1>5. Archive(n)
    BY <1>2 DEF Archives
  <1>6. /\ DOMAIN b = ArchiveFields /\ b.listed = trash[n].listed /\ b.moved = trash[n].moved
        /\ b.kept = trash[n].kept /\ b.cut
    <2> DEFINE old == trash[n]
    <2>1. DOMAIN old = ArchiveFields
      BY <1>5 DEF Archive
    <2> HIDE DEF old
    <2>2. LET c == [old EXCEPT !.cut = TRUE]
          IN  /\ DOMAIN c = ArchiveFields /\ c.listed = old.listed /\ c.moved = old.moved
              /\ c.kept = old.kept /\ c.cut
      BY <2>1 DEF ArchiveFields
    <2> QED
      BY <2>2 DEF old
  <1> HIDE DEF b
  <1>4. /\ DOMAIN trash' = 1..n /\ Len(trash') = n /\ trash'[n] = b /\ trash' \in Seq(S \cup {b})
        /\ \A i \in 1..n : i # n => trash'[i] = trash[i]
    <2> HIDE DEF n
    <2>1. n = Len(trash)
      BY DEF n
    <2>2. n \in Nat /\ n # 0
      BY <1>2
    <2> QED
      BY ONLY <1>1, <1>3, <2>1, <2>2, LastBecomes, SMTT(30)
  <1>7. ASSUME NEW i \in 1..n, i # n PROVE Archive(i)'
    <2>1. Archive(i) /\ trash'[i] = trash[i]
      BY <1>2, <1>4, <1>7 DEF Archives
    <2> QED
      BY <1>7, <2>1 DEF Archive, Moving
  <1>8. Archive(n)'
    <2>1. \A m : First(b, m) = First(trash[n], m)
      BY <1>6 DEF First
    <2>2. /\ IsList(b.listed)
          /\ "data" \in b.moved => b.kept # <<>>
          /\ b.moved = First(b, deletion.moved) /\ deletion.moved \in 0..Len(b.listed)
      BY <1>5, <1>6, <2>1, MovingParts DEF Archive
    <2>3. Finished(b)
      BY <1>6, <2>2 DEF Finished
    <2> QED
      BY <1>4, <1>6, <2>2, <2>3 DEF Archive, Moving
  <1> QED
    BY <1>4, <1>7, <1>8 DEF Archives, Moving

\* Most steps touch neither an archive nor the deletion.
LEMMA Untouched ==
    ASSUME \/ Review \/ Submit \/ Work \/ CopyFails \/ Stop \/ Kill \/ NextJob
           \/ AskCollection \/ Collect \/ EndCollection \/ Meddle
    PROVE  UNCHANGED <<trash, deletion>>
  <1>1. CASE Review \/ Submit \/ CopyFails \/ Stop \/ Kill \/ NextJob
    BY <1>1 DEF Review, Submit, CopyFails, Stop, Kill, NextJob, Go
  <1>2. CASE Work
    BY <1>2 DEF Work, Acquire, Recheck, Fingerprint, MakeStage, Copy, Rewrite, Verify, Compare,
                Compared, Stamp, CheckName, Rename, Clean, Go
  <1>3. CASE AskCollection \/ Collect \/ EndCollection \/ Meddle
    BY <1>3 DEF AskCollection, Collect, SaveInput, StartRecording, RecordEpisode, EndCollection,
                Meddle
  <1> QED
    BY <1>1, <1>2, <1>3

\* Every step keeps the archives in order.
LEMMA NextArchives ==
    ASSUME OpsInv, Archives, [Next]_vars
    PROVE  Archives'
  <1> USE DEF OpsInv
  <1>0. CASE UNCHANGED vars
    BY <1>0, ArchivesStay DEF vars
  <1> SUFFICES ASSUME Next PROVE Archives'
    BY <1>0
  <1>1. CASE UNCHANGED <<trash, deletion>>
    BY <1>1, ArchivesStay
  <1>2. CASE AskDelete
    <2>1. UNCHANGED trash /\ gate = "free" /\ deletion'.at = "asked" /\ deletion'.moved = 0
      BY <1>2 DEF AskDelete, NoDeletion
    <2>2. deletion.at \notin Moving
      BY <2>1 DEF Locks, Moving
    <2> QED
      BY <2>1, <2>2, ArchivesStay DEF Moving
  <1>3. CASE FindParts
    <2> DEFINE n == deletion.name
               parts == <<"data">> \o (IF n \in ledger THEN <<"ledger">> ELSE <<>>)
                        \o (IF n \in input THEN <<"input">> ELSE <<>>)
    <2>1. UNCHANGED trash /\ deletion.at = "asked" /\ deletion.at \notin Moving
      BY <1>3 DEF FindParts, Moving
    <2>2. CASE deletion' = NoDeletion
      BY <2>1, <2>2, JobIs, ArchivesStay DEF Moving
    <2>3. CASE deletion' # NoDeletion
      <3>1. deletion' = [deletion EXCEPT !.at = "found", !.listed = parts]
        BY <1>3, <2>3 DEF FindParts, EndDelete
      <3>2. IsList(parts)
        <4>1. CASE n \in ledger /\ n \in input
          BY <4>1 DEF IsList
        <4>2. CASE n \in ledger /\ n \notin input
          BY <4>2 DEF IsList
        <4>3. CASE n \notin ledger /\ n \in input
          BY <4>3 DEF IsList
        <4>4. CASE n \notin ledger /\ n \notin input
          BY <4>4 DEF IsList
        <4> QED
          BY <4>1, <4>2, <4>3, <4>4
      <3> HIDE DEF parts
      <3>3. deletion'.at = "found" /\ deletion'.listed = parts /\ deletion'.moved = deletion.moved
        BY <3>1 DEF Shapes
      <3> QED
        BY <2>1, <3>2, <3>3, ArchivesStay DEF Archives, Moving
    <2> QED
      BY <2>2, <2>3
  <1>4. CASE WriteManifest \/ Move \/ RollBack
    BY <1>4, WriteArchives, MoveArchives, RollBackArchives
  <1>5. CASE MoveFails
    <2>1. /\ UNCHANGED trash /\ deletion.at = "moving" /\ deletion'.at = "rolling"
          /\ deletion'.listed = deletion.listed /\ deletion'.moved = deletion.moved
      BY <1>5 DEF MoveFails, Shapes
    <2>2. ASSUME NEW i \in DOMAIN trash PROVE Archive(i)'
      BY <2>1, <2>2 DEF Archives, Archive, Moving
    <2> QED
      BY <2>1, <2>2 DEF Archives, Moving
  <1>6. CASE DeleteReturns
    <2>1. /\ UNCHANGED <<trash, used>> /\ deletion'.at = "none"
          /\ deletion.moved \in {0, Len(deletion.listed)}
      BY <1>6, JobIs DEF DeleteReturns, EndDelete
    <2> QED
      BY <2>1, EndArchives
  <1>7. CASE Crash
    <2>1. deletion'.at = "none" /\ trash' = IF deletion.at \in Moving THEN CutShort ELSE trash
      BY <1>7, JobIs DEF Crash, Moving
    <2> QED
      BY <2>1, CutArchives, EndArchives
  <1>8. CASE RollBackFails
    <2>1. deletion'.at = "none" /\ trash' = CutShort /\ deletion.at \in Moving
      BY <1>8, JobIs DEF RollBackFails, EndDelete, Moving
    <2> QED
      BY <2>1, CutArchives
  <1> QED
    BY <1>1, <1>2, <1>3, <1>4, <1>5, <1>6, <1>7, <1>8, Untouched DEF Next, Delete

\* What has left its place is in an archive whose manifest lists it, the dataset before
\* its ledger and its settings; and all of them have, or none, unless the archive was cut
\* short by a crash or by a rename back that failed (dataset_delete.py, archive_dataset).
THEOREM ArchivesWhole == Spec => []ArchivedTogether
  <1>1. Archives => ArchivedTogether
    <2> SUFFICES ASSUME Archives, NEW i \in DOMAIN trash
                 PROVE  LET archive == trash[i]
                            UpTo(m) == {archive.listed[k] : k \in 1..m}
                        IN  /\ \E m \in 0..Len(archive.listed) : archive.moved = UpTo(m)
                            /\ archive.moved # {} => "data" \in archive.moved /\ archive.kept # <<>>
                            /\ (deletion.at = "none" /\ ~archive.cut) =>
                                  archive.moved \in {{}, UpTo(Len(archive.listed))}
      BY DEF ArchivedTogether
    <2>1. Archive(i)
      BY DEF Archives
    <2>2. IsList(trash[i].listed) /\ ("data" \in trash[i].moved => trash[i].kept # <<>>)
      BY <2>1 DEF Archive
    <2>3. PICK m \in 0..Len(trash[i].listed) : trash[i].moved = First(trash[i], m)
      BY <2>1 DEF Archive, Finished
    <2>4. trash[i].moved # {} => "data" \in trash[i].moved
      BY <2>2, <2>3 DEF First, IsList
    <2>5. First(trash[i], Len(trash[i].listed)) = Parts(trash[i])
      BY <2>2, PartsOnce
    <2>6. (deletion.at = "none" /\ ~trash[i].cut) => trash[i].moved \in {{}, Parts(trash[i])}
      BY <2>1 DEF Archive, Finished, Moving
    <2> QED
      BY <2>2, <2>3, <2>4, <2>5, <2>6 DEF First
  <1>2. Init => OpsInv /\ Archives
    BY InitOps, InitArchives
  <1>3. (OpsInv /\ Archives) /\ [Next]_vars => (OpsInv /\ Archives)'
    BY NextOps, NextArchives
  <1> QED
    BY <1>1, <1>2, <1>3, PTL DEF Spec

-------------------------------------------------------------------------------
(* What a merge or an edit publishes.  A hand that edits a dataset leaves its     *)
(* mark in it for good, or makes it shorter, so what is the same before and after *)
(* the work was never touched, and what was copied of it is what was fingerprinted. *)

\* h[i] is the first i of the sequences q, put together.
IsConcat(h, q, n) == h = [i \in 0..n |-> IF i = 0 THEN <<>> ELSE h[i - 1] \o q[i]]

\* Induction over the natural numbers.
LEMMA NatSets ==
    ASSUME NEW S, 0 \in S, \A n \in Nat : n \in S => n + 1 \in S
    PROVE  Nat \subseteq S
  <1> DEFINE T == {n \in Nat : n \notin S}
  <1>1. SUFFICES ASSUME T # {} PROVE FALSE
    OBVIOUS
  <1>2. T \subseteq Nat
    OBVIOUS
  <1>3. PICK x \in T : \A y \in T : <<y, x>> \notin OpToRel(<, Nat)
    <2> HIDE DEF T
    <2> QED
      BY <1>1, <1>2, NatLessThanWellFounded, WFMin
  <1>4. \A y \in T : ~(y < x)
    BY <1>3 DEF OpToRel
  <1>5. x \in Nat /\ x \notin S
    BY <1>3
  <1>6. x # 0 /\ x - 1 \in Nat /\ x - 1 < x /\ (x - 1) + 1 = x
    BY <1>5
  <1>7. x - 1 \notin T
    BY <1>4, <1>6
  <1> QED
    BY <1>5, <1>6, <1>7

\* The function that Concat is defined by exists.
LEMMA ConcatExists == ASSUME NEW q, NEW n \in Nat PROVE \E h : IsConcat(h, q, n)
  <1> DEFINE S == {m \in Nat : \E h : IsConcat(h, q, m)}
  <1>1. 0 \in S
    <2>1. IsConcat([i \in 0..0 |-> <<>>], q, 0)
      BY DEF IsConcat
    <2> QED
      BY <2>1
  <1>2. ASSUME NEW m \in Nat, m \in S PROVE m + 1 \in S
    <2>1. PICK h : IsConcat(h, q, m)
      BY <1>2
    <2> DEFINE g == [i \in 0..(m + 1) |-> IF i = m + 1 THEN h[m] \o q[m + 1] ELSE h[i]]
    <2>2. \A i \in 0..m : h[i] = IF i = 0 THEN <<>> ELSE h[i - 1] \o q[i]
      BY <2>1 DEF IsConcat
    <2>3. \A i \in 0..(m + 1) : g[i] = IF i = 0 THEN <<>> ELSE g[i - 1] \o q[i]
      BY <2>2
    <2>4. IsConcat(g, q, m + 1)
      BY <2>3 DEF IsConcat
    <2> QED
      BY <2>4
  <1> HIDE DEF S
  <1>3. n \in S
    BY <1>1, <1>2, NatSets
  <1> QED
    BY <1>3 DEF S

\* So Concat is what it says.
LEMMA ConcatIs ==
    ASSUME NEW q, NEW n \in Nat, Len(q) = n
    PROVE  \E h : IsConcat(h, q, n) /\ Concat(q) = h[n]
  <1> DEFINE h == CHOOSE upto :
                      upto = [i \in 0..Len(q) |-> IF i = 0 THEN <<>> ELSE upto[i - 1] \o q[i]]
  <1>1. Concat(q) = h[n]
    BY DEF Concat
  <1>2. IsConcat(h, q, n)
    BY ConcatExists, Zenon DEF IsConcat
  <1> QED
    BY <1>1, <1>2

\* It depends on the sequences alone.
LEMMA ConcatUnique ==
    ASSUME NEW q, NEW r, NEW n \in Nat, NEW m \in 0..n, \A i \in 1..m : q[i] = r[i],
           NEW h, NEW k, IsConcat(h, q, n), IsConcat(k, r, m)
    PROVE  h[m] = k[m]
  <1> DEFINE S == {i \in Nat : i <= m => h[i] = k[i]}
  <1>0. /\ \A i \in 0..n : h[i] = IF i = 0 THEN <<>> ELSE h[i - 1] \o q[i]
        /\ \A i \in 0..m : k[i] = IF i = 0 THEN <<>> ELSE k[i - 1] \o r[i]
    BY DEF IsConcat
  <1>1. 0 \in S
    BY <1>0
  <1>2. ASSUME NEW i \in Nat, i \in S PROVE i + 1 \in S
    <2> SUFFICES ASSUME i + 1 <= m PROVE h[i + 1] = k[i + 1]
      OBVIOUS
    <2>1. /\ i + 1 \in 0..n /\ i + 1 \in 0..m /\ i + 1 # 0 /\ (i + 1) - 1 = i /\ i + 1 \in 1..m
          /\ h[i] = k[i]
      BY <1>2
    <2>2. h[i + 1] = h[i] \o q[i + 1] /\ k[i + 1] = k[i] \o r[i + 1]
      BY <1>0, <2>1
    <2> QED
      BY <2>1, <2>2
  <1> HIDE DEF S
  <1>3. m \in S
    BY <1>1, <1>2, NatSets
  <1> QED
    BY <1>3 DEF S

\* One more of them.
LEMMA ConcatStep ==
    ASSUME NEW q, NEW r, NEW n \in Nat, Len(q) = n + 1, Len(r) = n, \A i \in 1..n : q[i] = r[i]
    PROVE  Concat(q) = Concat(r) \o q[n + 1]
  <1> DEFINE up == n + 1
  <1>0. up \in Nat /\ n \in 0..up /\ up \in 0..up /\ up # 0 /\ up - 1 = n /\ Len(q) = up
    OBVIOUS
  <1> HIDE DEF up
  <1>1. PICK h : IsConcat(h, q, up) /\ Concat(q) = h[up]
    BY <1>0, ConcatIs
  <1>2. PICK k : IsConcat(k, r, n) /\ Concat(r) = k[n]
    BY ConcatIs
  <1>3. h[n] = k[n]
    BY <1>0, <1>1, <1>2, ConcatUnique
  <1>4. h[up] = h[n] \o q[up]
    BY <1>0, <1>1 DEF IsConcat
  <1> QED
    BY <1>1, <1>2, <1>3, <1>4 DEF up

\* Where the k-th of the datasets b starts when they are put together.
Starts(b, k) == Len(Concat([j \in 1..(k - 1) |-> b[j].eps]))

\* The first starts at the beginning, and each of the others where the one before ends.
LEMMA StartsStep ==
    ASSUME NEW b, NEW n \in Nat, \A j \in 1..n : \E S : b[j].eps \in Seq(S)
    PROVE  /\ Starts(b, 1) = 0
           /\ \A k \in 1..(n + 1) : Starts(b, k) \in Nat
           /\ \A k \in 1..n : Starts(b, k + 1) = Starts(b, k) + Len(b[k].eps)
  <1> DEFINE q(m) == [j \in 1..m |-> b[j].eps]
             C(m) == Concat(q(m))
  <1>1. ASSUME NEW m \in Nat PROVE Len(q(m)) = m /\ \A j \in 1..m : q(m)[j] = b[j].eps
    OBVIOUS
  <1>2. C(0) = <<>>
    <2>1. PICK h : IsConcat(h, q(0), 0) /\ Concat(q(0)) = h[0]
      BY <1>1, ConcatIs
    <2> QED
      BY <2>1 DEF IsConcat
  <1>3. ASSUME NEW m \in Nat PROVE C(m + 1) = C(m) \o b[m + 1].eps
    <2> DEFINE Q == q(m + 1)
               R == q(m)
    <2>1. /\ Len(Q) = m + 1 /\ Len(R) = m /\ Q[m + 1] = b[m + 1].eps
          /\ \A j \in 1..m : Q[j] = R[j]
      OBVIOUS
    <2> HIDE DEF Q, R
    <2>2. Concat(Q) = Concat(R) \o Q[m + 1]
      BY <2>1, ConcatStep
    <2> QED
      BY <2>1, <2>2 DEF Q, R
  <1> DEFINE N == {m \in Nat : m <= n => \E S : C(m) \in Seq(S)}
  <1> HIDE DEF C
  <1>4. 0 \in N
    <2>1. <<>> \in Seq({})
      OBVIOUS
    <2>2. C(0) \in Seq({})
      BY <1>2, <2>1, Zenon
    <2> QED
      BY <2>2
  <1>5. ASSUME NEW m \in Nat, m \in N PROVE m + 1 \in N
    <2> SUFFICES ASSUME m + 1 <= n PROVE \E S : C(m + 1) \in Seq(S)
      OBVIOUS
    <2>1. PICK S : C(m) \in Seq(S)
      BY <1>5
    <2>2. PICK T : b[m + 1].eps \in Seq(T)
      OBVIOUS
    <2>3. C(m) \in Seq(S \cup T) /\ b[m + 1].eps \in Seq(S \cup T)
      BY <2>1, <2>2
    <2>4. C(m) \o b[m + 1].eps \in Seq(S \cup T)
      BY <2>3
    <2> QED
      BY <1>3, <2>4
  <1> HIDE DEF N
  <1>6. \A m \in 0..n : m \in N
    BY <1>4, <1>5, NatSets
  <1>7. \A m \in 0..n : \E S : C(m) \in Seq(S)
    BY <1>6 DEF N
  <1>8. ASSUME NEW m \in 0..n PROVE Len(C(m)) \in Nat
    BY <1>7
  <1>9. ASSUME NEW k \in 1..n PROVE Len(C(k)) = Len(C(k - 1)) + Len(b[k].eps)
    <2>1. k - 1 \in Nat /\ k - 1 \in 0..n /\ (k - 1) + 1 = k
      OBVIOUS
    <2>2. C(k) = C(k - 1) \o b[k].eps
      BY <1>3, <2>1
    <2>3. PICK S : C(k - 1) \in Seq(S)
      BY <1>7, <2>1
    <2>4. PICK T : b[k].eps \in Seq(T)
      OBVIOUS
    <2> QED
      BY <2>2, <2>3, <2>4
  <1>10. \A k : Starts(b, k) = Len(C(k - 1))
    BY DEF Starts, C
  <1>11. Starts(b, 1) = 0
    BY <1>2, <1>10
  <1>12. \A k \in 1..(n + 1) : Starts(b, k) \in Nat
    BY <1>8, <1>10
  <1>13. ASSUME NEW k \in 1..n PROVE Starts(b, k + 1) = Starts(b, k) + Len(b[k].eps)
    <2>1. (k + 1) - 1 = k
      OBVIOUS
    <2> QED
      BY <1>9, <1>10, <2>1
  <1> QED
    BY <1>11, <1>12, <1>13

\* A word for the data of an episode is what it was, or a hand has edited it since.
Touched(now, then) == now = then \/ now = "edited"

\* Dataset d was e once, but for what hands have done.
Since(d, e) ==
    /\ Len(d.eps) <= Len(e.eps)
    /\ \A i \in 1..Len(d.eps) : Touched(d.eps[i].data, e.eps[i].data)

\* The i-th episode that was copied of the k-th source.
CopyOf(k, i) == job.out[Starts(job.before, k) + i].data
Now(k) == data[Req.sources[k]]

Copying == {"copying", "copied", "rewritten", "verified", "compared", "stamped", "named"}
Uncounted == {"reviewed", "queued", "locked", "checked", "fingerprinted", "copying", "copied",
              "rewritten", "verified"}

\* Datasets stay datasets, in the archive too; one that is deleted is there until it moves.
DataShaped ==
    /\ \A n \in DOMAIN data : IsDataset(data[n])
    /\ \A i \in DOMAIN trash : trash[i].kept # <<>> => IsDataset(trash[i].kept[1])
    /\ deletion.at = "found" \/ (deletion.at = "moving" /\ deletion.moved = 0) =>
          deletion.name \in DOMAIN data

SourcesThere ==
    job.at \in Working \ {"locked"} => SourceNames(Req) \subseteq DOMAIN data /\ Len(Req.sources) # 0

\* From the fingerprints on, the sources are what they were, but for hands.
BeforeKnown ==
    job.at \in Copying \cup {"fingerprinted"} =>
        /\ DOMAIN job.before = DOMAIN Req.sources
        /\ job.before = [k \in DOMAIN Req.sources |-> job.before[k]]
        /\ \A k \in DOMAIN Req.sources : IsDataset(job.before[k]) /\ Since(Now(k), job.before[k])

\* The datasets c are what was copied, source after source; each lies between the
\* fingerprints and what the source is now.
Copies(c) ==
    /\ Len(job.out) = Starts(c, job.copied + 1)
    /\ \A k \in 1..job.copied :
          /\ IsDataset(c[k]) /\ Since(c[k], job.before[k]) /\ Since(Now(k), c[k])
          /\ \A i \in 1..Len(c[k].eps) : job.out[Starts(c, k) + i].data = c[k].eps[i].data

OutKnown ==
    /\ job.at \in {"reviewed", "queued", "locked", "checked", "fingerprinted"} =>
          job.copied = 0 /\ job.out = <<>>
    /\ job.at \in Copying =>
          /\ job.copied \in 0..Len(Req.sources)
          /\ job.at # "copying" => job.copied = Len(Req.sources)
          /\ job.at = "copying" => job.copied # Len(Req.sources)
          /\ IsEpisodes(job.out) /\ \E c : Copies(c)

\* Once they are found to be as they were fingerprinted, so is what was copied.
StampKnown ==
    job.at \in {"compared", "stamped", "named"} =>
        /\ Len(job.out) = Starts(job.before, Len(Req.sources) + 1)
        /\ \A k \in 1..Len(Req.sources) : \A i \in 1..Len(job.before[k].eps) :
              CopyOf(k, i) = job.before[k].eps[i].data

\* And when no hand removes an episode after that, the counts are right.
Stamped(k) == [start |-> Starts(job.before, k), episodes |-> Len(job.before[k].eps)]

CountKnown ==
    /\ job.at \in Uncounted => job.stamps = <<>> /\ job.offset = 0
    /\ job.at \in {"compared", "stamped", "named"} =>
          /\ \E S : job.stamps \in Seq(S)
          /\ ~job.late => \A k \in 1..Len(job.stamps) : job.stamps[k] = Stamped(k)
    /\ job.at = "compared" =>
          /\ Len(job.stamps) < Len(Req.sources)
          /\ ~job.late =>
                /\ job.offset = Starts(job.before, Len(job.stamps) + 1)
                /\ \A k \in 1..Len(Req.sources) : Len(Now(k).eps) = Len(job.before[k].eps)

SourcesKnown == SourcesThere /\ BeforeKnown /\ OutKnown /\ StampKnown /\ CountKnown
FaithInv == DataShaped /\ SourcesKnown /\ PublishedFaithful

\* A list of episodes is a sequence, and what is one is such a list.
LEMMA EpisodesAre ==
    ASSUME NEW q, IsEpisodes(q)
    PROVE  /\ Len(q) \in Nat /\ DOMAIN q = 1..Len(q) /\ \E S : q \in Seq(S)
           /\ \A i \in 1..Len(q) : DOMAIN q[i] = {"task", "data"}
  <1>1. PICK S : q \in Seq(S)
    BY DEF IsEpisodes
  <1> QED
    BY <1>1 DEF IsEpisodes

\* A sequence whose members have those two fields is one of episodes.
LEMMA EpisodesFrom ==
    ASSUME NEW q, NEW S, q \in Seq(S), \A i \in 1..Len(q) : DOMAIN q[i] = {"task", "data"}
    PROVE  IsEpisodes(q)
  <1> DEFINE T == {q[i] : i \in DOMAIN q}
  <1>1. Len(q) \in Nat /\ DOMAIN q = 1..Len(q) /\ q = [i \in 1..Len(q) |-> q[i]]
    OBVIOUS
  <1>2. \A i \in 1..Len(q) : q[i] \in T
    BY <1>1
  <1> HIDE DEF T
  <1>3. q \in [1..Len(q) -> T]
    BY <1>1, <1>2
  <1>4. q \in Seq(T)
    BY <1>1, <1>3, FunctionIsSeq
  <1> QED
    BY <1>1, <1>4 DEF IsEpisodes, T

\* A dataset within the first m ends where they end, at the latest.
LEMMA StartsOrder ==
    ASSUME NEW b, NEW n \in Nat, \A j \in 1..n : IsDataset(b[j])
    PROVE  /\ Starts(b, 1) = 0
           /\ \A k \in 1..(n + 1) : Starts(b, k) \in Nat
           /\ \A k \in 1..n : Starts(b, k + 1) = Starts(b, k) + Len(b[k].eps)
           /\ \A k \in 1..n : Len(b[k].eps) \in Nat
           /\ \A k \in 1..n : \A m \in k..n : Starts(b, k) + Len(b[k].eps) <= Starts(b, m + 1)
  <1>1. \A j \in 1..n : Len(b[j].eps) \in Nat /\ \E S : b[j].eps \in Seq(S)
    BY EpisodesAre DEF IsDataset
  <1>2. /\ Starts(b, 1) = 0
        /\ \A k \in 1..(n + 1) : Starts(b, k) \in Nat
        /\ \A k \in 1..n : Starts(b, k + 1) = Starts(b, k) + Len(b[k].eps)
    BY <1>1, StartsStep
  <1>3. ASSUME NEW k \in 1..n
        PROVE  \A m \in k..n : Starts(b, k) + Len(b[k].eps) <= Starts(b, m + 1)
    <2> DEFINE S == {i \in Nat : k + i <= n => Starts(b, k + 1) <= Starts(b, (k + i) + 1)}
    <2>1. 0 \in S
      BY <1>2
    <2>2. ASSUME NEW i \in Nat, i \in S PROVE i + 1 \in S
      <3> SUFFICES ASSUME k + (i + 1) <= n PROVE Starts(b, k + 1) <= Starts(b, (k + (i + 1)) + 1)
        OBVIOUS
      <3> DEFINE j == k + (i + 1)
      <3>1. j \in 1..n /\ (k + i) + 1 = j /\ k + 1 \in 1..(n + 1) /\ j \in 1..(n + 1)
            /\ j + 1 \in 1..(n + 1)
        OBVIOUS
      <3>2. Starts(b, k + 1) <= Starts(b, j)
        BY <2>2, <3>1
      <3> HIDE DEF j
      <3>3. Starts(b, j + 1) = Starts(b, j) + Len(b[j].eps) /\ Len(b[j].eps) \in Nat
        BY <1>1, <1>2, <3>1
      <3>4. Starts(b, k + 1) \in Nat /\ Starts(b, j) \in Nat
        BY <1>2, <3>1
      <3>5. Starts(b, k + 1) <= Starts(b, j + 1)
        BY <3>2, <3>3, <3>4
      <3> QED
        BY <3>5 DEF j
    <2> HIDE DEF S
    <2>3. Nat \subseteq S
      BY <2>1, <2>2, NatSets
    <2>4. ASSUME NEW m \in k..n PROVE Starts(b, k + 1) <= Starts(b, m + 1)
      <3>1. m - k \in Nat /\ k + (m - k) = m /\ k + (m - k) <= n
        OBVIOUS
      <3>2. m - k \in S
        BY <2>3, <3>1
      <3>3. Starts(b, k + 1) <= Starts(b, (k + (m - k)) + 1)
        BY <3>1, <3>2 DEF S
      <3> QED
        BY <3>1, <3>3
    <2> QED
      BY <1>2, <2>4
  <1> QED
    BY <1>1, <1>2, <1>3

\* Datasets of the same lengths start at the same places.
LEMMA StartsSame ==
    ASSUME NEW b, NEW c, NEW n \in Nat,
           \A j \in 1..n : IsDataset(b[j]) /\ IsDataset(c[j]) /\ Len(b[j].eps) = Len(c[j].eps)
    PROVE  \A k \in 1..(n + 1) : Starts(b, k) = Starts(c, k)
  <1> DEFINE S == {i \in Nat : i <= n => Starts(b, i + 1) = Starts(c, i + 1)}
  <1>1. /\ Starts(b, 1) = 0 /\ Starts(c, 1) = 0
        /\ \A k \in 1..n : Starts(b, k + 1) = Starts(b, k) + Len(b[k].eps)
        /\ \A k \in 1..n : Starts(c, k + 1) = Starts(c, k) + Len(c[k].eps)
    BY StartsOrder
  <1>2. 0 \in S
    BY <1>1
  <1>3. ASSUME NEW i \in Nat, i \in S PROVE i + 1 \in S
    <2> SUFFICES ASSUME i + 1 <= n PROVE Starts(b, (i + 1) + 1) = Starts(c, (i + 1) + 1)
      OBVIOUS
    <2> DEFINE m == i + 1
    <2>1. m \in 1..n /\ Starts(b, m) = Starts(c, m)
      BY <1>3
    <2> HIDE DEF m
    <2>2. Starts(b, m + 1) = Starts(c, m + 1)
      BY <1>1, <2>1
    <2> QED
      BY <2>2 DEF m
  <1> HIDE DEF S
  <1>4. Nat \subseteq S
    BY <1>2, <1>3, NatSets
  <1>5. ASSUME NEW k \in 1..(n + 1) PROVE Starts(b, k) = Starts(c, k)
    <2>1. k - 1 \in Nat /\ k - 1 <= n /\ (k - 1) + 1 = k
      OBVIOUS
    <2>2. k - 1 \in S
      BY <1>4, <2>1
    <2>3. Starts(b, (k - 1) + 1) = Starts(c, (k - 1) + 1)
      BY <2>1, <2>2 DEF S
    <2> QED
      BY <2>1, <2>3
  <1> QED
    BY <1>5

\* What hands do adds up, and what they have not done is not there.
LEMMA SinceSince ==
    /\ \A d : IsDataset(d) => Since(d, d)
    /\ \A d, e, f : IsDataset(d) /\ IsDataset(e) /\ IsDataset(f) /\ Since(d, e) /\ Since(e, f) =>
          Since(d, f)
    /\ \A d, e : IsDataset(d) /\ IsDataset(e) /\ Since(d, e) /\ Since(e, d) =>
          /\ Len(d.eps) = Len(e.eps)
          /\ \A i \in 1..Len(d.eps) : d.eps[i].data = e.eps[i].data
  <1>0. ASSUME NEW d, IsDataset(d) PROVE Len(d.eps) \in Nat
    BY <1>0, EpisodesAre DEF IsDataset
  <1>1. ASSUME NEW d, IsDataset(d) PROVE Since(d, d)
    <2>1. Len(d.eps) <= Len(d.eps)
      BY <1>0, <1>1
    <2> QED
      BY <2>1 DEF Since, Touched
  <1>2. ASSUME NEW d, NEW e, NEW f, IsDataset(d), IsDataset(e), IsDataset(f), Since(d, e), Since(e, f)
        PROVE  Since(d, f)
    <2>1. Len(d.eps) \in Nat /\ Len(e.eps) \in Nat /\ Len(f.eps) \in Nat
      BY <1>0, <1>2
    <2>2. Len(d.eps) <= Len(e.eps) /\ Len(e.eps) <= Len(f.eps)
      BY <1>2 DEF Since
    <2>3. Len(d.eps) <= Len(f.eps) /\ 1..Len(d.eps) \subseteq 1..Len(e.eps)
      BY <2>1, <2>2
    <2>4. ASSUME NEW i \in 1..Len(d.eps) PROVE Touched(d.eps[i].data, f.eps[i].data)
      <3>1. Touched(d.eps[i].data, e.eps[i].data) /\ Touched(e.eps[i].data, f.eps[i].data)
        BY <1>2, <2>3 DEF Since
      <3> QED
        BY <3>1 DEF Touched
    <2> QED
      BY <2>3, <2>4 DEF Since
  <1>3. ASSUME NEW d, NEW e, IsDataset(d), IsDataset(e), Since(d, e), Since(e, d)
        PROVE  /\ Len(d.eps) = Len(e.eps)
               /\ \A i \in 1..Len(d.eps) : d.eps[i].data = e.eps[i].data
    <2>1. Len(d.eps) \in Nat /\ Len(e.eps) \in Nat
      BY <1>0, <1>3
    <2>2. Len(d.eps) = Len(e.eps)
      BY <1>3, <2>1 DEF Since
    <2>3. ASSUME NEW i \in 1..Len(d.eps) PROVE d.eps[i].data = e.eps[i].data
      <3>1. Touched(d.eps[i].data, e.eps[i].data) /\ Touched(e.eps[i].data, d.eps[i].data)
        BY <1>3, <2>2 DEF Since
      <3> QED
        BY <3>1 DEF Touched
    <2> QED
      BY <2>2, <2>3
  <1> QED
    BY <1>1, <1>2, <1>3

\* The sources of a request are a list.
LEMMA SourcesAre ==
    ASSUME NEW r \in Requests
    PROVE  Len(r.sources) \in Nat /\ DOMAIN r.sources = 1..Len(r.sources)
  <1>1. r.sources \in Seq({r.sources[i] : i \in DOMAIN r.sources})
    BY OpsAssumption, Zenon
  <1> QED
    BY <1>1

\* Episodes of which the first is another one, or the last is gone.
LEMMA EpisodesEdited ==
    ASSUME NEW q, IsEpisodes(q), q # <<>>
    PROVE  /\ \A e : DOMAIN e = {"task", "data"} =>
                 LET r == [q EXCEPT ![1] = e]
                 IN  /\ IsEpisodes(r) /\ Len(r) = Len(q)
                     /\ \A i \in 1..Len(q) : r[i] = IF i = 1 THEN e ELSE q[i]
           /\ LET r == SubSeq(q, 1, Len(q) - 1)
              IN  /\ IsEpisodes(r) /\ Len(r) = Len(q) - 1
                  /\ \A i \in 1..(Len(q) - 1) : r[i] = q[i]
  <1>1. PICK S : q \in Seq(S)
    BY EpisodesAre
  <1> DEFINE n == Len(q)
  <1>2. n \in Nat \ {0} /\ DOMAIN q = 1..n /\ \A i \in 1..n : DOMAIN q[i] = {"task", "data"}
    BY <1>1, EpisodesAre
  <1>3. ASSUME NEW e, DOMAIN e = {"task", "data"}
        PROVE  LET r == [q EXCEPT ![1] = e]
               IN  /\ IsEpisodes(r) /\ Len(r) = n
                   /\ \A i \in 1..n : r[i] = IF i = 1 THEN e ELSE q[i]
    <2> DEFINE r == [q EXCEPT ![1] = e]
    <2>1. r = [i \in 1..n |-> IF i = 1 THEN e ELSE q[i]]
      BY <1>2
    <2>2. \A i \in 1..n : q[i] \in S
      BY <1>1, <1>2
    <2> HIDE DEF r, n
    <2>3. r \in [1..n -> S \cup {e}]
      BY <2>1, <2>2
    <2>4. r \in Seq(S \cup {e})
      BY <1>2, <2>3, FunctionIsSeq
    <2>5. Len(r) = n /\ \A i \in 1..n : r[i] = IF i = 1 THEN e ELSE q[i]
      BY <1>2, <2>1, <2>4
    <2>6. \A i \in 1..Len(r) : DOMAIN r[i] = {"task", "data"}
      BY <1>2, <1>3, <2>5
    <2>7. IsEpisodes(r)
      BY <2>4, <2>6, EpisodesFrom
    <2> QED
      BY <2>5, <2>7 DEF r
  <1>4. LET r == SubSeq(q, 1, n - 1)
        IN  /\ IsEpisodes(r) /\ Len(r) = n - 1
            /\ \A i \in 1..(n - 1) : r[i] = q[i]
    <2> DEFINE r == SubSeq(q, 1, n - 1)
    <2>1. r \in Seq(S) /\ Len(r) = n - 1 /\ \A i \in 1..(n - 1) : r[i] = q[i]
      BY <1>1, <1>2
    <2> HIDE DEF r, n
    <2>2. \A i \in 1..Len(r) : DOMAIN r[i] = {"task", "data"}
      BY <1>2, <2>1
    <2>3. IsEpisodes(r)
      BY <2>1, <2>2, EpisodesFrom
    <2> QED
      BY <2>1, <2>3 DEF r
  <1> QED
    BY <1>3, <1>4

\* A dataset that a hand has edited is the dataset it was, but for that; and it has as
\* many episodes, unless its last one went.
LEMMA HandEdits ==
    ASSUME Shapes, DataShaped, Meddle
    PROVE  /\ DOMAIN data' = DOMAIN data
           /\ \A n \in DOMAIN data : IsDataset(data'[n]) /\ Since(data'[n], data[n])
           /\ ~job'.late => ~job.late
           /\ (~job'.late /\ job.at = "compared") =>
                 \A n \in SourceNames(Req) : n \in DOMAIN data => Len(data'[n].eps) = Len(data[n].eps)
  <1>1. PICK n \in DOMAIN data :
            /\ data[n].eps # <<>>
            /\ DropLast(n) \/ \E task \in {"pick", "place"} : Replace(n, task)
    BY DEF Meddle
  <1> DEFINE d == data[n]
  <1>2. "eps" \in DOMAIN d /\ IsEpisodes(d.eps) /\ d.eps # <<>>
    BY <1>1 DEF DataShaped, IsDataset
  <1>3. Len(d.eps) \in Nat
    BY <1>2, EpisodesAre
  <1>4. \A m \in DOMAIN data : IsDataset(data[m]) /\ Since(data[m], data[m])
    BY SinceSince DEF DataShaped
  <1>5. ASSUME NEW q, data' = [data EXCEPT ![n] = [d EXCEPT !.eps = q]]
        PROVE  /\ DOMAIN data' = DOMAIN data /\ data'[n].eps = q /\ "eps" \in DOMAIN data'[n]
               /\ \A m \in DOMAIN data : m # n => data'[m] = data[m]
    BY <1>2, <1>5
  <1>6. CASE DropLast(n)
    <2> DEFINE q == SubSeq(d.eps, 1, Len(d.eps) - 1)
    <2>1. data' = [data EXCEPT ![n] = [d EXCEPT !.eps = q]]
      BY <1>6 DEF DropLast
    <2>2. /\ IsEpisodes(q) /\ Len(q) = Len(d.eps) - 1
          /\ \A i \in 1..(Len(d.eps) - 1) : q[i] = d.eps[i]
      BY <1>2, EpisodesEdited
    <2> HIDE DEF q, d
    <2>3. /\ DOMAIN data' = DOMAIN data /\ data'[n].eps = q /\ "eps" \in DOMAIN data'[n]
          /\ \A m \in DOMAIN data : m # n => data'[m] = data[m]
      BY <1>5, <2>1
    <2>4. IsDataset(data'[n]) /\ Since(data'[n], d)
      BY <1>3, <2>2, <2>3 DEF Since, Touched, IsDataset
    <2>5. job'.late = (job.late \/ (job.at = "compared" /\ n \in SourceNames(Req)))
      BY <1>6 DEF DropLast, Shapes, JobFields
    <2>6. ~job'.late => ~job.late /\ ~(job.at = "compared" /\ n \in SourceNames(Req))
      BY <2>5, Zenon
    <2> QED
      BY <1>4, <2>3, <2>4, <2>6 DEF d
  <1>7. CASE \E task \in {"pick", "place"} : Replace(n, task)
    <2>1. PICK task : Replace(n, task)
      BY <1>7
    <2> DEFINE e == [task |-> task, data |-> "edited"]
               q == [d.eps EXCEPT ![1] = e]
    <2>2. data' = [data EXCEPT ![n] = [d EXCEPT !.eps = q]] /\ UNCHANGED job
      BY <2>1 DEF Replace
    <2>3. DOMAIN e = {"task", "data"} /\ e.data = "edited"
      OBVIOUS
    <2> HIDE DEF e
    <2>4. /\ IsEpisodes(q) /\ Len(q) = Len(d.eps)
          /\ \A i \in 1..Len(d.eps) : q[i] = IF i = 1 THEN e ELSE d.eps[i]
      BY <1>2, <2>3, EpisodesEdited
    <2> HIDE DEF q, d
    <2>5. /\ DOMAIN data' = DOMAIN data /\ data'[n].eps = q /\ "eps" \in DOMAIN data'[n]
          /\ \A m \in DOMAIN data : m # n => data'[m] = data[m]
      BY <1>5, <2>2
    <2>6. IsDataset(data'[n]) /\ Since(data'[n], d)
      BY <1>3, <2>3, <2>4, <2>5 DEF Since, Touched, IsDataset
    <2> QED
      BY <1>4, <2>2, <2>4, <2>5, <2>6 DEF d
  <1> QED
    BY <1>1, <1>6, <1>7

\* While a job works, only hands and its own rename touch the datasets.
LEMMA WorkingAlone ==
    ASSUME OpsInv, [Next]_vars, job.at \in Working
    PROVE  Meddle \/ Rename \/ UNCHANGED data
  <1>1. lock = "job"
    BY DEF OpsInv, Locks, Held
  <1>2. ~Move /\ ~RollBack /\ ~RecordEpisode
    BY <1>1 DEF OpsInv, Locks, Move, RollBack, RecordEpisode
  <1>3. ASSUME Work PROVE Rename \/ UNCHANGED data
    BY <1>3 DEF Work, Acquire, Recheck, Fingerprint, MakeStage, Copy, Rewrite, Verify, Compare,
                Stamp, CheckName, Clean, Go
  <1>4. ASSUME Delete \/ Collect PROVE UNCHANGED data
    BY <1>2, <1>4 DEF Delete, FindParts, WriteManifest, DeleteReturns, Collect, SaveInput,
       StartRecording
  <1>5. ASSUME Review \/ Submit \/ CopyFails \/ Stop \/ Kill \/ NextJob \/ AskDelete \/ MoveFails
               \/ RollBackFails \/ AskCollection \/ EndCollection \/ Crash
        PROVE  UNCHANGED data
    BY <1>5 DEF Review, Submit, CopyFails, Stop, Kill, NextJob, AskDelete, MoveFails, RollBackFails,
                AskCollection, EndCollection, Crash, Go
  <1> QED
    BY <1>3, <1>4, <1>5 DEF Next, vars

\* The episodes of two datasets, one after the other.
LEMMA EpisodesJoin ==
    ASSUME NEW q, NEW r, IsEpisodes(q), IsEpisodes(r)
    PROVE  /\ IsEpisodes(q \o r) /\ Len(q \o r) = Len(q) + Len(r)
           /\ \A i \in 1..Len(q) : (q \o r)[i] = q[i]
           /\ \A i \in 1..Len(r) : (q \o r)[Len(q) + i] = r[i]
  <1>1. PICK S : q \in Seq(S)
    BY EpisodesAre
  <1>2. PICK T : r \in Seq(T)
    BY EpisodesAre
  <1>3. /\ q \o r \in Seq(S \cup T) /\ Len(q \o r) = Len(q) + Len(r)
        /\ \A i \in 1..Len(q) + Len(r) : (q \o r)[i] = IF i <= Len(q) THEN q[i] ELSE r[i - Len(q)]
        /\ Len(q) \in Nat /\ Len(r) \in Nat
    <2>1. q \in Seq(S \cup T) /\ r \in Seq(S \cup T)
      BY <1>1, <1>2
    <2> QED
      BY <2>1
  <1>4. \A i \in 1..Len(q) : (q \o r)[i] = q[i]
    BY <1>3
  <1>5. ASSUME NEW i \in 1..Len(r) PROVE (q \o r)[Len(q) + i] = r[i]
    <2>1. Len(q) + i \in 1..Len(q) + Len(r) /\ ~(Len(q) + i <= Len(q)) /\ (Len(q) + i) - Len(q) = i
      BY <1>3
    <2> QED
      BY <1>3, <2>1
  <1>6. \A i \in 1..Len(q \o r) : DOMAIN (q \o r)[i] = {"task", "data"}
    <2> SUFFICES ASSUME NEW i \in 1..Len(q) + Len(r) PROVE DOMAIN (q \o r)[i] = {"task", "data"}
      BY <1>3
    <2>1. CASE i <= Len(q)
      BY <1>3, <2>1, EpisodesAre
    <2>2. CASE ~(i <= Len(q))
      <3>1. i - Len(q) \in 1..Len(r) /\ (q \o r)[i] = r[i - Len(q)]
        BY <1>3, <2>2
      <3> QED
        BY <3>1, EpisodesAre
    <2> QED
      BY <2>1, <2>2
  <1>7. IsEpisodes(q \o r)
    BY <1>3, <1>6, EpisodesFrom
  <1> QED
    BY <1>3, <1>4, <1>5, <1>7

\* No episodes are a list, and one more makes a longer one.
LEMMA EpisodesGrow ==
    /\ \A q, e : IsEpisodes(q) /\ DOMAIN e = {"task", "data"} => IsEpisodes(Append(q, e))
    /\ IsEpisodes(<<>>)
  <1>1. ASSUME NEW q, NEW e, IsEpisodes(q), DOMAIN e = {"task", "data"}
        PROVE  IsEpisodes(Append(q, e))
    <2>1. PICK S : q \in Seq(S)
      BY <1>1, EpisodesAre
    <2>2. /\ Append(q, e) \in Seq(S \cup {e}) /\ Len(Append(q, e)) = Len(q) + 1 /\ Len(q) \in Nat
          /\ \A i \in 1..Len(q) + 1 : Append(q, e)[i] = IF i = Len(q) + 1 THEN e ELSE q[i]
      <3>1. q \in Seq(S \cup {e})
        BY <2>1
      <3> QED
        BY <3>1
    <2>3. \A i \in 1..Len(q) : DOMAIN q[i] = {"task", "data"}
      BY <1>1, EpisodesAre
    <2>4. \A i \in 1..Len(Append(q, e)) : DOMAIN Append(q, e)[i] = {"task", "data"}
      BY <1>1, <2>2, <2>3
    <2> QED
      BY <2>2, <2>4, EpisodesFrom
  <1>2. IsEpisodes(<<>>)
    <2> DEFINE q == <<>>
    <2>1. q \in Seq({}) /\ Len(q) = 0
      OBVIOUS
    <2> HIDE DEF q
    <2>2. \A i \in 1..Len(q) : DOMAIN q[i] = {"task", "data"}
      BY <2>1
    <2>3. IsEpisodes(q)
      BY <2>1, <2>2, EpisodesFrom
    <2> QED
      BY <2>3 DEF q
  <1> QED
    BY <1>1, <1>2

\* What is archived, restored, recorded or published is a dataset.
LEMMA ShapedStep ==
    ASSUME OpsInv, Archives, FaithInv, [Next]_vars
    PROVE  DataShaped'
  <1> USE DEF FaithInv
  <1>0. DOMAIN deletion = {"at", "name", "listed", "moved"}
    BY DEF OpsInv, Shapes
  <1>1. CASE Meddle
    <2>1. UNCHANGED <<trash, deletion>>
      BY <1>1 DEF Meddle
    <2> QED
      BY <1>1, <2>1, HandEdits DEF DataShaped, OpsInv
  <1>2. CASE Rename
    <2>1. lock = "job" /\ UNCHANGED <<trash, deletion>> /\ job.at = "named"
      BY <1>2 DEF Rename, OpsInv, Locks, Held, Working
    <2>2. deletion.at \notin {"found", "moving"}
      BY <2>1 DEF OpsInv, Locks
    <2>3. CASE UNCHANGED data
      BY <2>1, <2>3 DEF DataShaped
    <2>4. CASE ~UNCHANGED data
      <3> DEFINE d == [eps |-> job.out, settings |-> job.before[1].settings, ok |-> TRUE, copy |-> TRUE]
      <3>1. data' = [n \in DOMAIN data \cup {Req.name} |-> IF n = Req.name THEN d ELSE data[n]]
        BY <1>2, <2>4 DEF Rename
      <3>2. "eps" \in DOMAIN d /\ d.eps = job.out
        OBVIOUS
      <3> HIDE DEF d
      <3>3. IsDataset(d)
        BY <2>1, <3>2 DEF SourcesKnown, OutKnown, Copying, IsDataset
      <3> QED
        BY <2>1, <2>2, <3>1, <3>3 DEF DataShaped
    <2> QED
      BY <2>3, <2>4
  <1>3. CASE RecordEpisode
    <2> DEFINE n == collection.name
               old == IF n \in DOMAIN data THEN data[n]
                      ELSE [eps |-> <<>>, settings |-> "so101", ok |-> TRUE, copy |-> FALSE]
               d == [old EXCEPT !.eps = Append(@, NewEpisode)]
    <2>1. lock = "collection" /\ UNCHANGED <<trash, deletion>>
          /\ data' = [m \in DOMAIN data \cup {n} |-> IF m = n THEN d ELSE data[m]]
      BY <1>3 DEF RecordEpisode, OpsInv, Locks
    <2>2. deletion.at \notin {"found", "moving"}
      BY <2>1 DEF OpsInv, Locks
    <2>3. IsDataset(old)
      <3>1. CASE n \in DOMAIN data
        BY <3>1 DEF DataShaped
      <3>2. CASE n \notin DOMAIN data
        <4>1. "eps" \in DOMAIN old /\ old.eps = <<>>
          BY <3>2
        <4> HIDE DEF old
        <4> QED
          BY <4>1, EpisodesGrow DEF IsDataset
      <3> QED
        BY <3>1, <3>2
    <2> HIDE DEF old
    <2>4. "eps" \in DOMAIN d /\ d.eps = Append(old.eps, NewEpisode)
      BY <2>3 DEF IsDataset
    <2>5. DOMAIN NewEpisode = {"task", "data"}
      BY DEF NewEpisode
    <2> HIDE DEF d
    <2>6. IsDataset(d)
      BY <2>3, <2>4, <2>5, EpisodesGrow DEF IsDataset
    <2> QED
      BY <2>1, <2>2, <2>6 DEF DataShaped
  <1>4. CASE Move
    <2> DEFINE n == deletion.name
               part == deletion.listed[deletion.moved + 1]
               b == trash[Len(trash)]
               kept == IF part = "data" THEN <<data[n]>> ELSE b.kept
    <2>1. deletion.at = "moving" /\ deletion.at \in Moving /\ deletion.moved < Len(deletion.listed)
          /\ deletion'.moved = deletion.moved + 1
      BY <1>0, <1>4 DEF Move, Moving
    <2>2. deletion.moved \in Nat /\ deletion.moved + 1 \in 1..Len(b.listed) /\ deletion.listed = b.listed
      BY <2>1, MovingParts, PartsOnce
    <2>3. part = "data" => deletion.moved = 0
      BY <2>1, <2>2, MovingParts, PartsOnce
    <2>4. LastIs(b.moved \cup {part}, kept)
      BY <1>4, <2>1, MovingParts DEF LastIs, Move, Take, Archives, Archive
    <2>5. kept # <<>> => IsDataset(kept[1])
      <3>1. CASE part = "data"
        BY <2>1, <2>3, <3>1 DEF DataShaped
      <3>2. CASE part # "data"
        BY <2>1, <3>2, MovingParts DEF DataShaped
      <3> QED
        BY <3>1, <3>2
    <2>6. \A m \in DOMAIN data' : m \in DOMAIN data /\ data'[m] = data[m]
      BY <1>4 DEF Move, Take
    <2> HIDE DEF kept
    <2>7. /\ DOMAIN trash' = DOMAIN trash /\ trash'[Len(trash)].kept = kept
          /\ \A i \in DOMAIN trash \ {Len(trash)} : trash'[i] = trash[i]
      BY <2>1, <2>4, LastChanges
    <2>8. deletion'.moved # 0 /\ deletion'.at = "moving"
      BY <1>0, <1>4, <2>1, <2>2 DEF Move
    <2> QED
      BY <2>5, <2>6, <2>7, <2>8 DEF DataShaped
  <1>5. CASE RollBack
    <2> DEFINE n == deletion.name
               part == deletion.listed[deletion.moved]
               b == trash[Len(trash)]
               kept == IF part = "data" THEN <<>> ELSE b.kept
    <2>1. deletion.at = "rolling" /\ deletion.at \in Moving /\ deletion.moved > 0 /\ deletion'.at = "rolling"
      BY <1>0, <1>5 DEF RollBack, Moving
    <2>2. deletion.moved \in 1..Len(b.listed) /\ deletion.listed = b.listed
      BY <2>1, MovingParts, PartsOnce
    <2>3. LastIs(b.moved \ {part}, kept)
      BY <1>5, <2>1, MovingParts DEF LastIs, RollBack, PutBack, Archives, Archive
    <2>4. part = "data" => IsDataset(b.kept[1])
      <3>1. part \in First(b, deletion.moved)
        BY <2>2 DEF First
      <3> QED
        BY <2>1, <3>1, MovingParts DEF DataShaped
    <2>5. kept # <<>> => IsDataset(kept[1])
      BY <2>1, MovingParts DEF DataShaped
    <2>6. \A m \in DOMAIN data' : IsDataset(data'[m])
      BY <1>5, <2>4 DEF RollBack, PutBack, DataShaped
    <2> HIDE DEF kept
    <2>7. /\ DOMAIN trash' = DOMAIN trash /\ trash'[Len(trash)].kept = kept
          /\ \A i \in DOMAIN trash \ {Len(trash)} : trash'[i] = trash[i]
      BY <2>1, <2>3, LastChanges
    <2> QED
      BY <2>1, <2>5, <2>6, <2>7 DEF DataShaped
  <1>6. CASE WriteManifest
    <2> DEFINE b == [name |-> deletion.name, listed |-> deletion.listed, moved |-> {}, kept |-> <<>>,
                     cut |-> FALSE]
    <2>1. trash' = Append(trash, b) /\ UNCHANGED data /\ deletion.at = "found"
          /\ deletion'.name = deletion.name
      BY <1>0, <1>6 DEF WriteManifest
    <2>2. b.kept = <<>>
      OBVIOUS
    <2> HIDE DEF b
    <2>3. PICK S : trash \in Seq(S)
      BY DEF Archives
    <2>4. \A i \in DOMAIN trash' : trash'[i] = b \/ (i \in DOMAIN trash /\ trash'[i] = trash[i])
      BY <2>1, <2>3
    <2> QED
      BY <2>1, <2>2, <2>4 DEF DataShaped
  <1>7. CASE FindParts
    <2>1. UNCHANGED <<data, trash>>
      BY <1>7 DEF FindParts
    <2>2. deletion' = NoDeletion \/ (deletion.name \in DOMAIN data /\ deletion'.name = deletion.name)
      BY <1>0, <1>7 DEF FindParts, EndDelete
    <2> QED
      BY <2>1, <2>2, JobIs DEF DataShaped
  <1>8. CASE /\ UNCHANGED <<data, trash>>
             /\ deletion' = deletion \/ deletion'.at \notin {"found", "moving"}
    BY <1>8 DEF DataShaped
  <1>9. ASSUME \/ Review \/ Submit \/ CopyFails \/ Stop \/ Kill \/ NextJob \/ AskDelete \/ MoveFails
               \/ DeleteReturns \/ AskCollection \/ SaveInput \/ StartRecording \/ EndCollection
        PROVE  /\ UNCHANGED <<data, trash>>
               /\ deletion' = deletion \/ deletion'.at \notin {"found", "moving"}
    <2>1. CASE Review \/ Submit \/ CopyFails \/ Stop \/ Kill \/ NextJob \/ AskCollection \/ SaveInput
               \/ StartRecording \/ EndCollection
      BY <2>1 DEF Review, Submit, CopyFails, Stop, Kill, NextJob, AskCollection, SaveInput,
                  StartRecording, EndCollection, Go
    <2>2. CASE AskDelete \/ DeleteReturns
      BY <2>2, JobIs DEF AskDelete, DeleteReturns, EndDelete, NoDeletion
    <2>3. CASE MoveFails
      BY <1>0, <2>3 DEF MoveFails
    <2> QED
      BY <1>9, <2>1, <2>2, <2>3
  <1>10. ASSUME Work, ~Rename PROVE UNCHANGED <<data, trash, deletion>>
    BY <1>10 DEF Work, Acquire, Recheck, Fingerprint, MakeStage, Copy, Rewrite, Verify, Compare,
                 Stamp, CheckName, Clean, Go
  <1>11. CASE RollBackFails \/ Crash
    <2>1. UNCHANGED data /\ deletion'.at = "none"
      BY <1>11, JobIs DEF RollBackFails, Crash, EndDelete
    <2>2. CASE UNCHANGED trash
      BY <2>1, <2>2 DEF DataShaped
    <2>3. CASE trash' = CutShort /\ deletion.at \in Moving
      <3> DEFINE n == Len(trash)
      <3>1. DOMAIN trash[n] = ArchiveFields /\ n \in DOMAIN trash
        BY <2>3, MovingParts DEF Archives, Archive
      <3>2. /\ DOMAIN trash' = DOMAIN trash /\ trash'[n].kept = trash[n].kept
            /\ \A i \in DOMAIN trash \ {n} : trash'[i] = trash[i]
        BY <2>3, <3>1 DEF CutShort, ArchiveFields
      <3> QED
        BY <2>1, <3>1, <3>2 DEF DataShaped
    <2> QED
      BY <1>11, <2>2, <2>3 DEF RollBackFails, Crash, Moving
  <1> QED
    BY <1>1, <1>2, <1>3, <1>4, <1>5, <1>6, <1>7, <1>8, <1>9, <1>10, <1>11
       DEF Next, Delete, Collect, vars

\* The request of a job at work, its sources and where they start.
LEMMA AtWork ==
    ASSUME OpsInv, FaithInv, job.at \in Working
    PROVE  /\ Req \in Requests /\ Len(Req.sources) \in Nat /\ DOMAIN Req.sources = 1..Len(Req.sources)
           /\ job.at # "locked" => \A k \in 1..Len(Req.sources) : IsDataset(Now(k)) /\ Since(Now(k), Now(k))
  <1>1. Req \in Requests
    BY DEF OpsInv, Reads, Req
  <1>2. Len(Req.sources) \in Nat /\ DOMAIN Req.sources = 1..Len(Req.sources)
    BY <1>1, SourcesAre
  <1>3. ASSUME job.at # "locked", NEW k \in 1..Len(Req.sources) PROVE IsDataset(Now(k))
    BY <1>2, <1>3 DEF FaithInv, SourcesKnown, SourcesThere, SourceNames, Now, DataShaped
  <1> QED
    BY <1>1, <1>2, <1>3, SinceSince

\* What has been published stays published.
LEMMA PublishedStays ==
    ASSUME PublishedFaithful, UNCHANGED published
    PROVE  PublishedFaithful'
  BY Zenon DEF PublishedFaithful

\* A job that has not started knows nothing.
Fresh == job.copied = 0 /\ job.out = <<>> /\ job.stamps = <<>> /\ job.offset = 0

\* With the job gone from its work nothing is left to be known.
LEMMA AwayFromWork ==
    ASSUME FaithInv, UNCHANGED published, job'.at \notin Working \ {"locked"},
           job'.at \in {"reviewed", "queued", "locked"} => Fresh'
    PROVE  SourcesKnown' /\ PublishedFaithful'
  <1>1. PublishedFaithful'
    BY PublishedStays DEF FaithInv
  <1>2. SourcesThere' /\ BeforeKnown' /\ StampKnown'
    BY DEF SourcesThere, BeforeKnown, StampKnown, Working, Copying
  <1>3. OutKnown'
    BY DEF OutKnown, Working, Copying, Fresh
  <1>4. CountKnown'
    BY DEF CountKnown, Uncounted, Working, Fresh
  <1> QED
    BY <1>1, <1>2, <1>3, <1>4 DEF SourcesKnown

\* What hands do to a source leaves what is known of it.
LEMMA MeddleFaith ==
    ASSUME OpsInv, FaithInv, Meddle, job.at \in Working \ {"locked"}
    PROVE  SourcesKnown' /\ PublishedFaithful'
  <1> USE DEF SourcesKnown
  <1>1. /\ UNCHANGED published
        /\ job'.at = job.at /\ Req' = Req /\ job'.before = job.before /\ job'.out = job.out
        /\ job'.copied = job.copied /\ job'.stamps = job.stamps /\ job'.offset = job.offset
    BY MeddleJob DEF Meddle, OpsInv, Req
  <1>2. /\ Req \in Requests /\ Len(Req.sources) \in Nat /\ DOMAIN Req.sources = 1..Len(Req.sources)
        /\ SourceNames(Req) \subseteq DOMAIN data
        /\ \A k \in 1..Len(Req.sources) : IsDataset(Now(k))
    BY AtWork DEF FaithInv, SourcesThere
  <1>3. /\ DOMAIN data' = DOMAIN data
        /\ \A n \in DOMAIN data : IsDataset(data'[n]) /\ Since(data'[n], data[n])
        /\ ~job'.late => ~job.late
        /\ (~job'.late /\ job.at = "compared") =>
              \A n \in SourceNames(Req) : n \in DOMAIN data => Len(data'[n].eps) = Len(data[n].eps)
    BY HandEdits DEF FaithInv, OpsInv
  <1>4. \A k \in 1..Len(Req.sources) : Req.sources[k] \in SourceNames(Req) /\ Req.sources[k] \in DOMAIN data
    BY <1>2 DEF SourceNames
  <1>n. \A k \in 1..Len(Req.sources) : Now(k)' = data'[Req.sources[k]]
    BY <1>1 DEF Now
  <1>m. ASSUME NEW k \in 1..Len(Req.sources)
        PROVE  IsDataset(Now(k)) /\ IsDataset(Now(k)') /\ Since(Now(k)', Now(k))
    BY <1>2, <1>3, <1>4, <1>n DEF Now
  <1>5. SourcesThere'
    BY <1>1, <1>3 DEF FaithInv, SourcesThere, SourceNames
  <1>6. ASSUME job.at \in Copying \cup {"fingerprinted"}, NEW k \in 1..Len(Req.sources)
        PROVE  IsDataset(job.before[k]) /\ Since(Now(k)', job.before[k])
    <2>1. IsDataset(job.before[k]) /\ Since(Now(k), job.before[k])
      BY <1>2, <1>6 DEF FaithInv, BeforeKnown
    <2> QED
      BY <2>1, <1>m, SinceSince
  <1>7. BeforeKnown'
    BY <1>1, <1>2, <1>6 DEF FaithInv, BeforeKnown
  <1>8. ASSUME job.at \in Copying PROVE \E c : Copies(c)'
    <2>1. PICK c : Copies(c)
      BY <1>8 DEF FaithInv, OutKnown
    <2>2. job.copied \in 0..Len(Req.sources)
      BY <1>8 DEF FaithInv, OutKnown
    <2>3. ASSUME NEW k \in 1..job.copied PROVE Since(Now(k)', c[k])
      <3>1. k \in 1..Len(Req.sources) /\ IsDataset(c[k]) /\ Since(Now(k), c[k])
        BY <1>2, <2>1, <2>2 DEF Copies
      <3> QED
        BY <3>1, <1>m, SinceSince
    <2>4. Copies(c)'
      BY <1>1, <2>1, <2>3 DEF Copies
    <2> QED
      BY <2>4
  <1>9. OutKnown'
    BY <1>1, <1>8 DEF FaithInv, OutKnown
  <1>10. StampKnown'
    BY <1>1 DEF FaithInv, StampKnown, CopyOf
  <1>11. ASSUME job.at = "compared", ~job'.late, NEW k \in 1..Len(Req.sources)
         PROVE  Len(Now(k)'.eps) = Len(job.before[k].eps)
    <2>1. ~job.late
      BY <1>3, <1>11
    <2>2. Len(Now(k).eps) = Len(job.before[k].eps)
      BY <1>11, <2>1 DEF FaithInv, CountKnown
    <2>3. Len(Now(k)'.eps) = Len(Now(k).eps)
      BY <1>3, <1>4, <1>11, <1>n DEF Now
    <2> QED
      BY <2>2, <2>3
  <1>12. CountKnown'
    BY <1>1, <1>3, <1>11 DEF FaithInv, CountKnown, Stamped
  <1>13. PublishedFaithful'
    BY <1>1, PublishedStays DEF FaithInv
  <1> QED
    BY <1>5, <1>7, <1>9, <1>10, <1>12, <1>13

\* The next source is copied as it is now, and starts where the copy ended.
LEMMA CopyFaith ==
    ASSUME OpsInv, FaithInv, Copy
    PROVE  SourcesKnown' /\ PublishedFaithful'
  <1> USE DEF SourcesKnown
  <1> DEFINE m == job.copied
             next == m + 1
             d == Now(next)
  <1>1. job.at = "copying" /\ UNCHANGED <<data, published>>
    BY DEF Copy, Go
  <1>2. /\ job'.request = job.request /\ job'.before = job.before
        /\ job'.out = job.out \o d.eps /\ job'.copied = next
        /\ job'.stamps = job.stamps /\ job'.offset = job.offset
        /\ job'.at = IF next = Len(Req.sources) THEN "copied" ELSE "copying"
    BY DEF Copy, Go, OpsInv, Shapes, JobFields, Now
  <1>3. /\ Len(Req.sources) \in Nat /\ DOMAIN Req.sources = 1..Len(Req.sources)
        /\ \A k \in 1..Len(Req.sources) : IsDataset(Now(k))
    BY <1>1, AtWork DEF Working
  <1>4. /\ \A k \in 1..Len(Req.sources) : IsDataset(job.before[k]) /\ Since(Now(k), job.before[k])
        /\ DOMAIN job.before = DOMAIN Req.sources
    BY <1>1, <1>3 DEF FaithInv, BeforeKnown, Copying
  <1>5. m \in 0..Len(Req.sources) /\ m # Len(Req.sources) /\ IsEpisodes(job.out)
    BY <1>1 DEF FaithInv, OutKnown, Copying
  <1>6. PICK c : Copies(c)
    BY <1>1 DEF FaithInv, OutKnown, Copying
  <1>7. m \in Nat /\ next \in 1..Len(Req.sources)
    BY <1>3, <1>5
  <1>e. PICK e : e = [j \in 1..next |-> IF j = next THEN d ELSE c[j]]
    OBVIOUS
  <1>8. e[next] = d /\ \A j \in 1..m : e[j] = c[j]
    BY <1>7, <1>e
  <1>9. IsDataset(d) /\ Since(d, job.before[next]) /\ Since(d, d)
    BY <1>3, <1>4, <1>7, SinceSince
  <1>c. /\ Len(job.out) = Starts(c, next)
        /\ \A k \in 1..m :
              /\ IsDataset(c[k]) /\ Since(c[k], job.before[k]) /\ Since(Now(k), c[k])
              /\ \A i \in 1..Len(c[k].eps) : job.out[Starts(c, k) + i].data = c[k].eps[i].data
    BY <1>6 DEF Copies
  <1> HIDE DEF d, m
  <1>10. \A j \in 1..next : IsDataset(e[j])
    <2> SUFFICES ASSUME NEW j \in 1..next PROVE IsDataset(e[j])
      OBVIOUS
    <2>1. j = next \/ j \in 1..m
      BY <1>7
    <2> QED
      BY <2>1, <1>8, <1>9, <1>c
  <1>11. \A k \in 1..next : Starts(e, k) = Starts(c, k)
    BY <1>7, <1>8, <1>10, <1>c, StartsSame
  <1>12. /\ \A k \in 1..(next + 1) : Starts(e, k) \in Nat
         /\ Starts(e, next + 1) = Starts(e, next) + Len(d.eps)
         /\ \A k \in 1..m : Starts(e, k) + Len(c[k].eps) <= Starts(e, next) /\ Len(c[k].eps) \in Nat
    <2>1. next \in Nat /\ next \in 1..next
      BY <1>7
    <2>2. /\ \A k \in 1..(next + 1) : Starts(e, k) \in Nat
          /\ \A k \in 1..next : Starts(e, k + 1) = Starts(e, k) + Len(e[k].eps)
          /\ \A k \in 1..next : Len(e[k].eps) \in Nat
          /\ \A k \in 1..next : \A l \in k..next : Starts(e, k) + Len(e[k].eps) <= Starts(e, l + 1)
      BY <1>10, <2>1, StartsOrder
    <2>3. ASSUME NEW k \in 1..m
          PROVE  Starts(e, k) + Len(c[k].eps) <= Starts(e, next) /\ Len(c[k].eps) \in Nat
      <3>1. k \in 1..next /\ m \in k..next /\ m + 1 = next
        BY <1>7
      <3> QED
        BY <1>8, <2>2, <3>1
    <2> QED
      BY <1>8, <2>1, <2>2, <2>3
  <1>13. /\ IsEpisodes(job'.out) /\ Len(job'.out) = Len(job.out) + Len(d.eps)
         /\ \A i \in 1..Len(job.out) : job'.out[i] = job.out[i]
         /\ \A i \in 1..Len(d.eps) : job'.out[Len(job.out) + i] = d.eps[i]
    <2> DEFINE q == job.out
               p == job'.out
               eps == d.eps
    <2>1. IsEpisodes(q) /\ IsEpisodes(eps) /\ p = q \o eps
      BY <1>2, <1>5, <1>9 DEF IsDataset
    <2> HIDE DEF q, p, eps
    <2>2. /\ IsEpisodes(q \o eps) /\ Len(q \o eps) = Len(q) + Len(eps)
          /\ \A i \in 1..Len(q) : (q \o eps)[i] = q[i]
          /\ \A i \in 1..Len(eps) : (q \o eps)[Len(q) + i] = eps[i]
      BY ONLY <2>1, EpisodesJoin
    <2>3. /\ IsEpisodes(p) /\ Len(p) = Len(q) + Len(eps)
          /\ \A i \in 1..Len(q) : p[i] = q[i]
          /\ \A i \in 1..Len(eps) : p[Len(q) + i] = eps[i]
      BY <2>1, <2>2, Zenon
    <2> QED
      BY <2>3 DEF q, p, eps
  <1>14. Len(job.out) = Starts(e, next)
    <2>1. next \in 1..next
      BY <1>7
    <2> QED
      BY <2>1, <1>c, <1>11
  <1>15. Len(job'.out) = Starts(e, next + 1)
    BY <1>12, <1>13, <1>14
  <1>16. ASSUME NEW k \in 1..next
         PROVE  /\ IsDataset(e[k]) /\ Since(e[k], job.before[k]) /\ Since(Now(k), e[k])
                /\ \A i \in 1..Len(e[k].eps) : job'.out[Starts(e, k) + i].data = e[k].eps[i].data
    <2>1. CASE k = next
      BY <2>1, <1>8, <1>9, <1>13, <1>14 DEF d
    <2>2. CASE k # next
      <3>1. k \in 1..m /\ Starts(e, k) \in Nat /\ e[k] = c[k] /\ Starts(e, k) = Starts(c, k)
        BY <2>2, <1>7, <1>8, <1>11, <1>12
      <3>2. ASSUME NEW i \in 1..Len(c[k].eps)
            PROVE  job'.out[Starts(e, k) + i].data = c[k].eps[i].data
        <4>1. /\ Starts(e, k) + Len(c[k].eps) <= Len(job.out) /\ Len(c[k].eps) \in Nat
              /\ Len(job.out) \in Nat
          BY <3>1, <1>5, <1>12, <1>14, EpisodesAre
        <4>2. Starts(e, k) + i \in 1..Len(job.out)
          BY <3>1, <4>1
        <4>3. job'.out[Starts(e, k) + i] = job.out[Starts(e, k) + i]
          BY <4>2, <1>13
        <4> QED
          BY <3>1, <4>3, <1>c
      <3> QED
        BY <3>1, <3>2, <1>c
    <2> QED
      BY <2>1, <2>2
  <1>17. Copies(e)'
    <2>1. \A k : Now(k)' = Now(k)
      BY <1>1, <1>2 DEF Now, Req
    <2>2. job'.copied = next /\ job'.before = job.before
      BY <1>2
    <2>3. \A k \in 1..next :
              /\ IsDataset(e[k]) /\ Since(e[k], job'.before[k]) /\ Since(Now(k)', e[k])
              /\ \A i \in 1..Len(e[k].eps) : job'.out[Starts(e, k) + i].data = e[k].eps[i].data
      BY <2>1, <2>2, <1>16, Zenon
    <2> HIDE DEF next
    <2>4. Len(job'.out) = Starts(e, job'.copied + 1)
      BY <2>2, <1>15, Zenon
    <2>5. \A k \in 1..job'.copied :
              /\ IsDataset(e[k]) /\ Since(e[k], job'.before[k]) /\ Since(Now(k)', e[k])
              /\ \A i \in 1..Len(e[k].eps) : job'.out[Starts(e, k) + i].data = e[k].eps[i].data
      BY <2>2, <2>3, Zenon
    <2> QED
      BY <2>4, <2>5, Zenon DEF Copies
  <1>18. OutKnown'
    <2>1. job'.copied \in 0..Len(Req.sources) /\ Req' = Req
      BY <1>2, <1>7 DEF Req
    <2>2. job'.at \in {"copying", "copied"}
          /\ (job'.at # "copying" => job'.copied = Len(Req.sources))
          /\ (job'.at = "copying" => job'.copied # Len(Req.sources))
      BY <1>2
    <2>3. \E f : Copies(f)'
      BY <1>17
    <2> QED
      BY <2>1, <2>2, <2>3, <1>13 DEF OutKnown
  <1>19. SourcesThere' /\ BeforeKnown'
    BY <1>1, <1>2 DEF FaithInv, SourcesThere, BeforeKnown, SourceNames, Req, Now, Working, Copying
  <1>20. StampKnown' /\ CountKnown'
    BY <1>1, <1>2 DEF FaithInv, StampKnown, CountKnown, Uncounted
  <1> QED
    BY <1>1, <1>18, <1>19, <1>20, PublishedStays DEF FaithInv

\* New wordings leave the data of the episodes.
LEMMA RewordedAre ==
    ASSUME NEW q, IsEpisodes(q), NEW map
    PROVE  /\ IsEpisodes(Reworded(q, map)) /\ Len(Reworded(q, map)) = Len(q)
           /\ \A i \in 1..Len(q) : Reworded(q, map)[i].data = q[i].data
  <1> DEFINE n == Len(q)
             r == Reworded(q, map)
             T == {r[i] : i \in 1..n}
  <1>1. n \in Nat /\ DOMAIN q = 1..n /\ \A i \in 1..n : DOMAIN q[i] = {"task", "data"}
    BY EpisodesAre
  <1>2. r = [i \in 1..n |-> r[i]]
    BY <1>1 DEF Reworded
  <1>3. \A i \in 1..n : DOMAIN r[i] = {"task", "data"} /\ r[i].data = q[i].data
    BY <1>1 DEF Reworded
  <1>4. \A i \in 1..n : r[i] \in T
    OBVIOUS
  <1> HIDE DEF r, n, T
  <1>5. r \in [1..n -> T]
    BY <1>2, <1>4
  <1>6. r \in Seq(T) /\ Len(r) = n
    <2>1. r \in Seq(T)
      BY <1>1, <1>5, FunctionIsSeq
    <2> QED
      BY <1>1, <1>2, <2>1
  <1>7. IsEpisodes(r)
    BY <1>3, <1>6, EpisodesFrom
  <1> QED
    BY <1>3, <1>6, <1>7 DEF r, n

\* So what is copied stays where it is.
LEMMA RewriteFaith ==
    ASSUME OpsInv, FaithInv, Rewrite, job'.at = "rewritten"
    PROVE  SourcesKnown' /\ PublishedFaithful'
  <1> USE DEF SourcesKnown
  <1>1. job.at = "copied" /\ UNCHANGED <<data, published>>
    BY DEF Rewrite, Go
  <1>2. DOMAIN job = JobFields
    BY DEF OpsInv, Shapes
  <1>3. /\ IsEpisodes(job.out) /\ job.copied \in 0..Len(Req.sources) /\ job.copied = Len(Req.sources)
    BY <1>1 DEF FaithInv, OutKnown, Copying
  <1>c. PICK c : Copies(c)
    BY <1>1 DEF FaithInv, OutKnown, Copying
  <1>4. /\ job'.request = job.request /\ job'.before = job.before /\ job'.copied = job.copied
        /\ job'.stamps = job.stamps /\ job'.offset = job.offset
        /\ \/ job'.out = job.out
           \/ job'.out = Reworded(job.out, Req.map)
    BY <1>2 DEF Rewrite, Go, To, Abort, JobFields
  <1>5. Len(job.out) \in Nat
    BY <1>3, EpisodesAre
  <1>6. /\ IsEpisodes(job'.out) /\ Len(job'.out) = Len(job.out)
        /\ \A i \in 1..Len(job.out) : job'.out[i].data = job.out[i].data
    <2>1. CASE job'.out = job.out
      BY <1>3, <2>1
    <2>2. CASE job'.out = Reworded(job.out, Req.map)
      BY <1>3, <2>2, RewordedAre
    <2> QED
      BY <1>4, <2>1, <2>2
  <1>7. Len(Req.sources) \in Nat
    BY <1>1, AtWork DEF Working
  <1>8. /\ Len(job.out) = Starts(c, job.copied + 1)
        /\ \A k \in 1..job.copied :
              /\ IsDataset(c[k]) /\ Since(c[k], job.before[k]) /\ Since(Now(k), c[k])
              /\ \A i \in 1..Len(c[k].eps) : job.out[Starts(c, k) + i].data = c[k].eps[i].data
    BY <1>c DEF Copies
  <1>s. /\ \A k \in 1..(job.copied + 1) : Starts(c, k) \in Nat
        /\ \A k \in 1..job.copied : Len(c[k].eps) \in Nat
        /\ \A k \in 1..job.copied : \A m \in k..job.copied :
              Starts(c, k) + Len(c[k].eps) <= Starts(c, m + 1)
    BY <1>3, <1>7, <1>8, StartsOrder
  <1>9. ASSUME NEW k \in 1..job.copied, NEW i \in 1..Len(c[k].eps)
        PROVE  job'.out[Starts(c, k) + i].data = c[k].eps[i].data
    <2>1. job.copied \in k..job.copied /\ k \in 1..(job.copied + 1)
      BY <1>3, <1>7
    <2>2. /\ Starts(c, k) \in Nat /\ Len(c[k].eps) \in Nat
          /\ Starts(c, k) + Len(c[k].eps) <= Len(job.out)
      BY <1>s, <1>8, <2>1
    <2>3. Starts(c, k) + i \in 1..Len(job.out)
      BY <1>5, <2>2
    <2> QED
      BY <1>6, <1>8, <2>3
  <1>10. OutKnown'
    <2>1. Req' = Req /\ (\A k : Now(k)' = Now(k))
      BY <1>1, <1>4 DEF Req, Now
    <2>2. Copies(c)'
      BY <1>4, <1>6, <1>8, <1>9, <2>1 DEF Copies
    <2>3. \E f : Copies(f)'
      BY <2>2
    <2> QED
      BY <1>3, <1>4, <1>6, <2>1, <2>3 DEF OutKnown
  <1>11. SourcesThere' /\ BeforeKnown'
    BY <1>1, <1>4 DEF FaithInv, SourcesThere, BeforeKnown, SourceNames, Req, Now, Working, Copying
  <1>12. StampKnown' /\ CountKnown'
    BY <1>1, <1>4 DEF FaithInv, StampKnown, CountKnown, Uncounted
  <1> QED
    BY <1>1, <1>10, <1>11, <1>12, PublishedStays DEF FaithInv

\* Sources that are what they were fingerprinted were copied as that.
LEMMA CopiesFaithful ==
    ASSUME OpsInv, FaithInv, job.at = "verified", Contents(Req) = job.before
    PROVE  /\ Len(job.out) = Starts(job.before, Len(Req.sources) + 1)
           /\ \A k \in 1..Len(Req.sources) :
                 /\ job.before[k] = Now(k)
                 /\ \A i \in 1..Len(job.before[k].eps) : CopyOf(k, i) = job.before[k].eps[i].data
  <1> USE DEF SourcesKnown
  <1> DEFINE N == Len(Req.sources)
  <1>1. N \in Nat /\ DOMAIN Req.sources = 1..N /\ job.copied = N
    BY AtWork DEF FaithInv, OutKnown, Copying, Working
  <1>2. PICK c : Copies(c)
    BY DEF FaithInv, OutKnown, Copying
  <1>3. /\ Len(job.out) = Starts(c, N + 1)
        /\ \A k \in 1..N :
              /\ IsDataset(c[k]) /\ Since(c[k], job.before[k]) /\ Since(Now(k), c[k])
              /\ \A i \in 1..Len(c[k].eps) : job.out[Starts(c, k) + i].data = c[k].eps[i].data
    BY <1>1, <1>2 DEF Copies
  <1>4. \A k \in 1..N : job.before[k] = Now(k) /\ IsDataset(job.before[k])
    BY <1>1 DEF FaithInv, BeforeKnown, Copying, Contents, Now
  <1>5. ASSUME NEW k \in 1..N
        PROVE  /\ Len(c[k].eps) = Len(job.before[k].eps)
               /\ \A i \in 1..Len(c[k].eps) : c[k].eps[i].data = job.before[k].eps[i].data
    BY <1>3, <1>4, SinceSince
  <1> HIDE DEF N
  <1>6. \A k \in 1..(N + 1) : Starts(c, k) = Starts(job.before, k)
    BY <1>1, <1>3, <1>4, <1>5, StartsSame
  <1>7. N + 1 \in 1..(N + 1) /\ \A k \in 1..N : k \in 1..(N + 1)
    BY <1>1
  <1>8. ASSUME NEW k \in 1..N, NEW i \in 1..Len(job.before[k].eps)
        PROVE  CopyOf(k, i) = job.before[k].eps[i].data
    <2>1. i \in 1..Len(c[k].eps) /\ Starts(c, k) = Starts(job.before, k)
      BY <1>5, <1>6, <1>7
    <2>2. job.out[Starts(c, k) + i].data = c[k].eps[i].data
      BY <1>3, <2>1
    <2> QED
      BY <1>5, <2>1, <2>2 DEF CopyOf
  <1> QED
    BY <1>3, <1>4, <1>6, <1>7, <1>8 DEF N

\* A step that only moves on keeps what was copied.
LEMMA MovesOn ==
    ASSUME OpsInv, FaithInv, UNCHANGED <<data, published>>, NEW at, job' = To(at),
           \/ job.at = "rewritten" /\ at = "verified"
           \/ job.at = "verified" /\ at \in {"compared", "stamped"} /\ Contents(Req) = job.before
           \/ job.at = "stamped" /\ at = "named"
    PROVE  SourcesKnown' /\ PublishedFaithful'
  <1> USE DEF SourcesKnown
  <1>1. /\ job'.request = job.request /\ job'.before = job.before /\ job'.copied = job.copied
        /\ job'.out = job.out /\ job'.at = at /\ job'.late = job.late
        /\ job'.stamps = job.stamps /\ job'.offset = job.offset
    BY DEF To, OpsInv, Shapes, JobFields
  <1>2. Req' = Req /\ (\A k : Now(k)' = Now(k)) /\ (\A k, i : CopyOf(k, i)' = CopyOf(k, i))
    BY <1>1 DEF Req, Now, CopyOf
  <1>3. SourcesThere' /\ BeforeKnown'
    BY <1>1, <1>2 DEF FaithInv, SourcesThere, BeforeKnown, SourceNames, Working, Copying
  <1>4. OutKnown'
    <2>1. \A c : Copies(c) => Copies(c)'
      BY <1>1, <1>2 DEF Copies
    <2> QED
      BY <1>1, <1>2, <2>1 DEF FaithInv, OutKnown, Copying
  <1>5. StampKnown'
    <2>1. CASE at \in {"verified", "named"}
      BY <1>1, <1>2, <2>1 DEF FaithInv, StampKnown
    <2>2. CASE at \in {"compared", "stamped"}
      BY <1>1, <1>2, <2>2, CopiesFaithful DEF StampKnown
    <2> QED
      BY <2>1, <2>2
  <1>6. CountKnown'
    <2>1. CASE at \in {"verified", "named"}
      BY <1>1, <1>2, <2>1 DEF FaithInv, CountKnown, Stamped, Uncounted
    <2>2. CASE at \in {"compared", "stamped"}
      <3>1. job.stamps = <<>> /\ job.offset = 0
        BY <2>2 DEF FaithInv, CountKnown, Uncounted
      <3>2. /\ Len(Req.sources) \in Nat /\ Len(Req.sources) # 0
            /\ \A k \in 1..Len(Req.sources) : IsDataset(job.before[k]) /\ job.before[k] = Now(k)
        BY <2>2, AtWork, CopiesFaithful DEF FaithInv, SourcesThere, BeforeKnown, Copying, Working
      <3>3. Starts(job.before, 1) = 0
        BY <3>2, StartsOrder
      <3>4. \E S : job.stamps \in Seq(S)
        BY <3>1, EpisodesGrow, EpisodesAre
      <3>5. Len(job.stamps) = 0
        BY <3>1
      <3>6. \A k \in 1..Len(Req.sources) : Len(Now(k).eps) = Len(job.before[k].eps)
        BY <3>2
      <3>7. job'.at \notin Uncounted
        BY <1>1, <2>2 DEF Uncounted
      <3> QED
        BY <1>1, <1>2, <3>1, <3>2, <3>3, <3>4, <3>5, <3>6, <3>7 DEF CountKnown
    <2> QED
      BY <2>1, <2>2
  <1> QED
    BY <1>3, <1>4, <1>5, <1>6, PublishedStays DEF FaithInv

\* A source is counted as it is now.
LEMMA StampFaith ==
    ASSUME OpsInv, FaithInv, Stamp
    PROVE  SourcesKnown' /\ PublishedFaithful'
  <1> USE DEF SourcesKnown
  <1> DEFINE next == Len(job.stamps) + 1
             count == Len(Now(next).eps)
             stamp == [start |-> job.offset, episodes |-> count]
             N == Len(Req.sources)
  <1>1. job.at = "compared" /\ UNCHANGED <<data, published>>
    BY DEF Stamp, Go
  <1>2. /\ job'.request = job.request /\ job'.before = job.before /\ job'.copied = job.copied
        /\ job'.out = job.out /\ job'.late = job.late
        /\ job'.stamps = Append(job.stamps, stamp) /\ job'.offset = job.offset + count
        /\ job'.at = IF next = N THEN "stamped" ELSE "compared"
    BY DEF Stamp, Go, OpsInv, Shapes, JobFields, Now
  <1>3. Req' = Req /\ (\A k : Now(k)' = Now(k)) /\ (\A k, i : CopyOf(k, i)' = CopyOf(k, i))
    BY <1>1, <1>2 DEF Req, Now, CopyOf
  <1>4. SourcesThere' /\ BeforeKnown'
    BY <1>1, <1>2, <1>3 DEF FaithInv, SourcesThere, BeforeKnown, SourceNames, Working, Copying
  <1>5. OutKnown'
    <2>1. \A c : Copies(c) => Copies(c)'
      BY <1>1, <1>2, <1>3 DEF Copies
    <2> QED
      BY <1>1, <1>2, <1>3, <2>1 DEF FaithInv, OutKnown, Copying
  <1>6. StampKnown'
    BY <1>1, <1>2, <1>3 DEF FaithInv, StampKnown
  <1>7. PICK S : job.stamps \in Seq(S)
    BY <1>1 DEF FaithInv, CountKnown
  <1>8. N \in Nat /\ DOMAIN Req.sources = 1..N /\ Len(job.stamps) < N
    BY <1>1, AtWork DEF FaithInv, CountKnown, Working
  <1>9. Len(job.stamps) \in Nat /\ next \in 1..N /\ next - 1 = Len(job.stamps)
    BY <1>7, <1>8
  <1> HIDE DEF stamp
  <1>10. /\ job'.stamps \in Seq(S \cup {stamp}) /\ Len(job'.stamps) = next
         /\ job'.stamps[next] = stamp
         /\ \A k \in 1..Len(job.stamps) : job'.stamps[k] = job.stamps[k]
    <2>1. job.stamps \in Seq(S \cup {stamp})
      BY <1>7
    <2> QED
      BY <1>2, <1>7, <2>1
  <1>11. ASSUME ~job.late
         PROVE  /\ job.offset = Starts(job.before, next) /\ count = Len(job.before[next].eps)
                /\ \A k \in 1..N : Len(Now(k).eps) = Len(job.before[k].eps)
                /\ \A k \in 1..Len(job.stamps) : job.stamps[k] = Stamped(k)
    BY <1>1, <1>9, <1>11 DEF FaithInv, CountKnown
  <1>12. \A k \in 1..N : Starts(job.before, k + 1) = Starts(job.before, k) + Len(job.before[k].eps)
    <2>1. \A k \in 1..N : IsDataset(job.before[k])
      BY <1>1, <1>8 DEF FaithInv, BeforeKnown, Copying
    <2> QED
      BY <1>8, <2>1, StartsOrder
  <1> HIDE DEF next, count, N
  <1>13. ASSUME ~job.late, NEW k \in 1..next PROVE job'.stamps[k] = Stamped(k)
    <2>1. CASE k = next
      BY <2>1, <1>10, <1>11, <1>13 DEF stamp, Stamped
    <2>2. CASE k # next
      <3>1. k \in 1..Len(job.stamps)
        BY <2>2, <1>8, <1>9
      <3> QED
        BY <3>1, <1>10, <1>11, <1>13
    <2> QED
      BY <2>1, <2>2
  <1>14. ~job.late => job'.offset = Starts(job.before, next + 1)
    BY <1>2, <1>9, <1>11, <1>12
  <1>15. \A k : Stamped(k)' = Stamped(k)
    BY <1>2 DEF Stamped
  <1>16. job'.at \in {"compared", "stamped"} /\ job'.at \notin Uncounted
         /\ (job'.at = "compared" => next < N)
    BY <1>2, <1>8, <1>9 DEF Uncounted
  <1>17. \E T : job'.stamps \in Seq(T)
    BY <1>10
  <1>18. CountKnown'
    <2>1. Len(job'.stamps) = next /\ Len(Req'.sources) = N /\ job'.late = job.late
          /\ job'.before = job.before
      BY <1>2, <1>3, <1>10 DEF N
    <2>2. ~job'.late => \A k \in 1..Len(job'.stamps) : job'.stamps[k] = Stamped(k)'
      BY <2>1, <1>13, <1>15
    <2>3. job'.at = "compared" =>
              /\ Len(job'.stamps) < Len(Req'.sources)
              /\ ~job'.late =>
                    /\ job'.offset = Starts(job'.before, Len(job'.stamps) + 1)
                    /\ \A k \in 1..Len(Req'.sources) : Len(Now(k)'.eps) = Len(job'.before[k].eps)
      BY <2>1, <1>3, <1>11, <1>14, <1>16
    <2> QED
      BY <2>2, <2>3, <1>16, <1>17 DEF CountKnown
  <1> QED
    BY <1>1, <1>4, <1>5, <1>6, <1>18, PublishedStays DEF FaithInv

\* What is published is what was fingerprinted, and says where each source starts.
LEMMA RenameFaith ==
    ASSUME OpsInv, FaithInv, Rename, job'.at = "cleaning"
    PROVE  PublishedFaithful'
  <1> USE DEF SourcesKnown
  <1>1. job.at = "named"
    BY DEF Rename
  <1>2. CASE UNCHANGED published
    BY <1>2, PublishedStays DEF FaithInv
  <1>3. CASE published' = [eps |-> job.out, made |-> job.before, stamps |-> job.stamps,
                           late |-> job.late]
    <2> DEFINE N == Len(Req.sources)
               made == job.before
    <2>1. N \in Nat /\ DOMAIN made = 1..N /\ \A k \in 1..N : IsDataset(made[k])
      BY <1>1, AtWork DEF FaithInv, BeforeKnown, Copying, Working
    <2>2. Len(made) = N
      <3>1. made = [k \in 1..N |-> made[k]]
        BY <1>1, <2>1, AtWork DEF FaithInv, BeforeKnown, Copying, Working
      <3> QED
        BY <2>1, <3>1
    <2>3. /\ Len(job.out) = Starts(made, N + 1)
          /\ \A k \in 1..N : \A i \in 1..Len(made[k].eps) :
                job.out[Starts(made, k) + i].data = made[k].eps[i].data
      BY <1>1 DEF FaithInv, StampKnown, CopyOf
    <2>4. \E S : job.stamps \in Seq(S)
      BY <1>1 DEF FaithInv, CountKnown
    <2>5. DOMAIN job.stamps = 1..Len(job.stamps)
      BY <2>4
    <2>6. ~job.late => \A k \in DOMAIN job.stamps :
              job.stamps[k] = [start |-> Starts(made, k), episodes |-> Len(made[k].eps)]
      BY <1>1, <2>5 DEF FaithInv, CountKnown, Stamped
    <2>7. ASSUME NEW k \in 1..N
          PROVE  /\ Starts(made, k) + Len(made[k].eps) <= Len(job.out)
                 /\ \A i \in DOMAIN made[k].eps :
                       job.out[Starts(made, k) + i].data = made[k].eps[i].data
                 /\ k = N => Starts(made, k) + Len(made[k].eps) = Len(job.out)
      <3>1. N \in k..N
        BY <2>1
      <3>2. /\ Starts(made, k) + Len(made[k].eps) <= Starts(made, N + 1)
            /\ Starts(made, k + 1) = Starts(made, k) + Len(made[k].eps)
        BY <2>1, <3>1, StartsOrder
      <3>3. DOMAIN made[k].eps = 1..Len(made[k].eps)
        BY <2>1, EpisodesAre DEF IsDataset
      <3> QED
        BY <2>3, <3>2, <3>3
    <2> HIDE DEF N, made
    <2>8. /\ published'.made = made /\ published'.eps = job.out /\ published'.stamps = job.stamps
          /\ published'.late = job.late
      BY <1>3 DEF made
    <2>9. ASSUME NEW k \in DOMAIN published'.made
          PROVE  LET From(l) == Starts(published'.made, l)
                 IN  /\ From(k) + Len(published'.made[k].eps) <= Len(published'.eps)
                     /\ \A i \in DOMAIN published'.made[k].eps :
                           published'.eps[From(k) + i].data = published'.made[k].eps[i].data
                     /\ k = Len(published'.made) =>
                           From(k) + Len(published'.made[k].eps) = Len(published'.eps)
                     /\ (k \in DOMAIN published'.stamps /\ ~published'.late) =>
                           published'.stamps[k] =
                               [start |-> From(k), episodes |-> Len(published'.made[k].eps)]
      BY <2>1, <2>2, <2>6, <2>7, <2>8
    <2> QED
      BY <2>9, Zenon DEF PublishedFaithful, Starts
  <1> QED
    BY <1>2, <1>3 DEF Rename

\* What a job finds when it checks its request, and its sources once more, is there.
LEMMA CheckedThere ==
    ASSUME Req \in Requests, Checked(Req)
    PROVE  SourceNames(Req) \subseteq DOMAIN data /\ Len(Req.sources) # 0
  <1>1. CASE Req.kind = "merge"
    <2>1. Mergeable(Req)
      BY <1>1 DEF Checked
    <2>2. SourceNames(Req) \subseteq DOMAIN data
      BY <2>1 DEF Mergeable, Healthy
    <2>3. Len(Req.sources) \in 2..50
      BY <2>1, Zenon DEF Mergeable
    <2>4. \A n \in 2..50 : n # 0
      OBVIOUS
    <2> QED
      BY <2>2, <2>3, <2>4, Zenon
  <1>2. CASE Req.kind # "merge"
    <2>1. Healthy(Req.sources[1])
      BY <1>2 DEF Checked, Editable
    <2>2. DOMAIN Req.sources = {1}
      BY <1>2, OneSource, Zenon
    <2>3. Len(Req.sources) # 0
      BY <2>2, SourcesAre
    <2> QED
      BY <2>1, <2>2, <2>3 DEF SourceNames, Healthy
  <1> QED
    BY <1>1, <1>2

\* The first steps of a job: its sources are there, and they are fingerprinted.
LEMMA PrepareFaith ==
    ASSUME OpsInv, FaithInv, Acquire \/ Recheck \/ Fingerprint \/ MakeStage
    PROVE  SourcesKnown' /\ PublishedFaithful'
  <1> USE DEF FaithInv, SourcesKnown, OpsInv, Shapes
  <1>1. UNCHANGED <<data, published>>
    BY DEF Acquire, Recheck, Fingerprint, MakeStage, Go
  <1>2. /\ \A at : /\ To(at).copied = job.copied /\ To(at).out = job.out
                   /\ To(at).stamps = job.stamps /\ To(at).offset = job.offset
        /\ NoJob.copied = 0 /\ NoJob.out = <<>> /\ NoJob.stamps = <<>> /\ NoJob.offset = 0
    BY DEF To, NoJob, JobFields
  <1>3. CASE Acquire
    <2>1. job.at = "queued" /\ job' \in {To("locked"), NoJob}
      BY <1>3 DEF Acquire
    <2> QED
      BY <1>1, <1>2, <2>1, JobIs, JobGoes, AwayFromWork
         DEF OutKnown, CountKnown, Uncounted, Fresh, Working
  <1>4. CASE job' = Abort
    BY <1>1, <1>4, JobGoes, AwayFromWork DEF Working
  <1>5. CASE Recheck /\ job' # Abort
    <2>1. job.at = "locked" /\ job' = To("checked") /\ Checked(Req)
      BY <1>5 DEF Recheck, Go
    <2>2. Req \in Requests /\ Req' = Req /\ job'.at = "checked"
      BY <2>1, JobGoes DEF Reads, Working, Req
    <2>3. SourcesThere'
      BY <1>1, <2>1, <2>2, CheckedThere DEF SourcesThere, SourceNames
    <2> QED
      BY <1>1, <1>2, <2>1, <2>2, <2>3, PublishedStays
         DEF BeforeKnown, OutKnown, StampKnown, CountKnown, Uncounted, Copying
  <1>6. CASE Fingerprint
    <2>1. /\ job.at = "checked" /\ job'.at = "fingerprinted" /\ job'.before = Contents(Req)
          /\ Req' = Req /\ job'.copied = job.copied /\ job'.out = job.out
          /\ job'.stamps = job.stamps /\ job'.offset = job.offset
      BY <1>6 DEF Fingerprint, Go, JobFields, Req
    <2>2. /\ DOMAIN Req.sources = 1..Len(Req.sources)
          /\ \A k \in 1..Len(Req.sources) : IsDataset(Now(k)) /\ Since(Now(k), Now(k))
      BY <2>1, AtWork DEF Working
    <2>3. \A k \in DOMAIN Req.sources : job'.before[k] = Now(k) /\ Now(k)' = Now(k)
      BY <1>1, <2>1 DEF Contents, Now
    <2>4. BeforeKnown'
      <3>1. /\ DOMAIN job'.before = DOMAIN Req.sources
            /\ job'.before = [k \in DOMAIN Req.sources |-> job'.before[k]]
        BY <2>1 DEF Contents
      <3>2. \A k \in DOMAIN Req.sources : IsDataset(job'.before[k]) /\ Since(Now(k)', job'.before[k])
        BY <2>2, <2>3, Zenon
      <3> QED
        BY ONLY <2>1, <3>1, <3>2, Zenon DEF BeforeKnown
    <2>5. SourcesThere'
      BY <1>1, <2>1 DEF SourcesThere, SourceNames, Working
    <2> QED
      BY <1>1, <2>1, <2>4, <2>5, PublishedStays
         DEF OutKnown, StampKnown, CountKnown, Uncounted, Copying
  <1>7. CASE MakeStage /\ job' # Abort
    <2>1. /\ job.at = "fingerprinted" /\ job'.at = "copying" /\ job'.before = job.before
          /\ Req' = Req /\ job'.copied = job.copied /\ job'.out = job.out
          /\ job'.stamps = job.stamps /\ job'.offset = job.offset
      BY <1>7 DEF MakeStage, Go, JobFields, Req
    <2>2. /\ Len(Req.sources) \in Nat /\ DOMAIN Req.sources = 1..Len(Req.sources)
          /\ Len(Req.sources) # 0
      BY <2>1, AtWork DEF Working, SourcesThere
    <2>3. \A c : Starts(c, 1) = 0
      <3> SUFFICES ASSUME NEW c PROVE Starts(c, 1) = 0
        OBVIOUS
      <3>1. \A j \in 1..0 : IsDataset(c[j])
        OBVIOUS
      <3> QED
        BY <3>1, StartsOrder
    <2>4. job.copied = 0 /\ job.out = <<>> /\ IsEpisodes(job.out) /\ Len(job.out) = 0
      BY <2>1, EpisodesGrow DEF OutKnown
    <2>5. OutKnown'
      <3>1. job'.copied = 0 /\ Len(job'.out) = 0 /\ 0 + 1 = 1
        BY <2>1, <2>4
      <3>2. Copies(<<>>)'
        BY <2>3, <3>1 DEF Copies
      <3>3. \E c : Copies(c)'
        BY <3>2
      <3> QED
        BY <2>1, <2>2, <2>4, <3>3 DEF OutKnown
    <2>6. SourcesThere' /\ BeforeKnown'
      BY <1>1, <2>1 DEF SourcesThere, BeforeKnown, SourceNames, Now, Working, Copying
    <2> QED
      BY <1>1, <2>1, <2>5, <2>6, PublishedStays DEF StampKnown, CountKnown, Uncounted
  <1> QED
    BY <1>3, <1>4, <1>5, <1>6, <1>7

\* Every step of a job keeps what is known of its sources and of what it publishes.
LEMMA WorkFaith ==
    ASSUME OpsInv, FaithInv, Work
    PROVE  SourcesKnown' /\ PublishedFaithful'
  <1>0. DOMAIN job = JobFields
    BY DEF OpsInv, Shapes
  <1>1. CASE Acquire \/ Recheck \/ Fingerprint \/ MakeStage
    BY <1>1, PrepareFaith
  <1>2. CASE Copy
    BY <1>2, CopyFaith
  <1>3. CASE job'.at \in {"cleaning", "ended"} /\ UNCHANGED published
    BY <1>3, AwayFromWork DEF Working
  <1>4. CASE Rewrite
    <2>1. UNCHANGED published /\ job'.at \in {"rewritten", "cleaning"}
      BY <1>0, <1>4, JobGoes DEF Rewrite, Go, JobFields
    <2> QED
      BY <1>3, <1>4, <2>1, RewriteFaith
  <1>5. CASE Verify \/ Compare \/ CheckName
    <2>1. UNCHANGED <<data, published>>
      BY <1>5 DEF Verify, Compare, Compared, CheckName, Go
    <2>2. CASE job' = Abort
      BY <1>0, <1>3, <2>1, <2>2, JobGoes
    <2>3. CASE Verify /\ job' # Abort
      BY <2>1, <2>3, MovesOn DEF Verify, Go
    <2>4. CASE Compare /\ job' # Abort
      BY <2>1, <2>4, MovesOn DEF Compare, Compared, Go
    <2>5. CASE CheckName /\ job' # Abort
      BY <2>1, <2>5, MovesOn DEF CheckName, Go
    <2> QED
      BY <1>5, <2>2, <2>3, <2>4, <2>5
  <1>6. CASE Rename
    <2>1. job'.at = "cleaning"
      BY <1>0, <1>6, JobGoes DEF Rename, JobFields
    <2>2. PublishedFaithful'
      BY <1>6, <2>1, RenameFaith
    <2> QED
      BY <2>1, <2>2
         DEF SourcesKnown, SourcesThere, BeforeKnown, OutKnown, StampKnown, CountKnown, Uncounted,
             Working, Copying
  <1>7. CASE Clean
    <2>1. job'.at = "ended" /\ UNCHANGED published
      BY <1>7, JobIs DEF Clean, NoJob
    <2> QED
      BY <1>3, <2>1
  <1>8. CASE Stamp
    BY <1>8, StampFaith
  <1> QED
    BY <1>1, <1>2, <1>4, <1>5, <1>6, <1>7, <1>8 DEF Work

\* With job, datasets and publication as they were, so is what is known of them.
LEMMA QuietFaith ==
    ASSUME FaithInv, UNCHANGED <<job, published>>, UNCHANGED data \/ job.at \notin Working \ {"locked"}
    PROVE  SourcesKnown' /\ PublishedFaithful'
  <1>1. CASE job.at \notin Working \ {"locked"}
    BY <1>1, AwayFromWork DEF FaithInv, SourcesKnown, OutKnown, CountKnown, Uncounted, Fresh
  <1>2. CASE UNCHANGED data
    <2> USE DEF SourcesKnown
    <2>1. Req' = Req /\ (\A k : Now(k)' = Now(k)) /\ (\A k, i : CopyOf(k, i)' = CopyOf(k, i))
      BY <1>2 DEF Req, Now, CopyOf
    <2>2. \A c : Copies(c) => Copies(c)'
      BY <2>1 DEF Copies
    <2>3. OutKnown' /\ SourcesThere' /\ BeforeKnown'
      BY <1>2, <2>1, <2>2 DEF FaithInv, SourcesThere, BeforeKnown, OutKnown, SourceNames
    <2>4. StampKnown' /\ CountKnown'
      BY <2>1 DEF FaithInv, StampKnown, CountKnown, Stamped
    <2> QED
      BY <2>3, <2>4, PublishedStays DEF FaithInv
  <1> QED
    BY <1>1, <1>2

\* Every step keeps it.
LEMMA StepFaith ==
    ASSUME OpsInv, Archives, FaithInv, [Next]_vars
    PROVE  FaithInv'
  <1>1. SourcesKnown' /\ PublishedFaithful'
    <2>0. /\ DOMAIN job = JobFields /\ NoJob.copied = 0 /\ NoJob.out = <<>>
          /\ NoJob.stamps = <<>> /\ NoJob.offset = 0
      BY DEF OpsInv, Shapes, NoJob
    <2>1. CASE Work
      BY <2>1, WorkFaith
    <2>2. CASE UNCHANGED <<job, published>> /\ ~Meddle
      <3>1. CASE job.at \in Working
        <4>1. ~UNCHANGED job \/ ~Rename
          BY <2>0, JobGoes DEF Rename, JobFields
        <4> QED
          BY <2>2, <3>1, <4>1, WorkingAlone, QuietFaith
      <3> QED
        BY <2>2, <3>1, QuietFaith
    <2>3. CASE Meddle
      <3>1. CASE job.at \in Working \ {"locked"}
        BY <2>3, <3>1, MeddleFaith
      <3>2. CASE job.at \notin Working \ {"locked"}
        <4>1. /\ UNCHANGED published /\ job'.at = job.at /\ job'.copied = job.copied
              /\ job'.out = job.out /\ job'.stamps = job.stamps /\ job'.offset = job.offset
          BY <2>3, MeddleJob DEF Meddle, OpsInv
        <4>2. job'.at \in {"reviewed", "queued", "locked"} => Fresh'
          BY <4>1 DEF FaithInv, SourcesKnown, OutKnown, CountKnown, Uncounted, Fresh
        <4> QED
          BY <3>2, <4>1, <4>2, AwayFromWork
      <3> QED
        BY <3>1, <3>2
    <2>4. CASE Review \/ Submit \/ CopyFails \/ Stop \/ Kill \/ NextJob
      <3>1. UNCHANGED published
        BY <2>4 DEF Review, Submit, CopyFails, Stop, Kill, NextJob, Go
      <3>2. job'.at \notin Working
        BY <2>0, <2>4, JobIs, JobGoes
           DEF Review, Submit, CopyFails, Stop, Kill, NextJob, Go, Working, JobFields
      <3>3. job'.at \in {"reviewed", "queued", "locked"} => Fresh'
        <4>1. CASE Review
          BY <2>0, <4>1, JobIs DEF Review, JobFields, Fresh
        <4>2. CASE Submit
          BY <2>0, <4>2, JobIs
             DEF Submit, JobFields, FaithInv, SourcesKnown, OutKnown, CountKnown, Uncounted, Fresh
        <4>3. CASE CopyFails \/ Stop \/ Kill \/ NextJob
          BY <2>0, <4>3, JobIs, JobGoes DEF CopyFails, Stop, Kill, NextJob, Go, JobFields, Fresh
        <4> QED
          BY <2>4, <4>1, <4>2, <4>3
      <3> QED
        BY <3>1, <3>2, <3>3, AwayFromWork
    <2>5. ASSUME AskDelete \/ Delete \/ MoveFails \/ RollBackFails \/ AskCollection \/ Collect
                 \/ EndCollection \/ Crash
          PROVE  UNCHANGED <<job, published>>
      <3>1. CASE AskDelete \/ MoveFails \/ RollBackFails \/ AskCollection \/ EndCollection \/ Crash
        BY <3>1 DEF AskDelete, MoveFails, RollBackFails, AskCollection, EndCollection, Crash
      <3>2. CASE Delete \/ Collect
        BY <3>2 DEF Delete, FindParts, WriteManifest, Move, RollBack, DeleteReturns, Collect,
                    SaveInput, StartRecording, RecordEpisode
      <3> QED
        BY <2>5, <3>1, <3>2
    <2> QED
      BY <2>1, <2>2, <2>3, <2>4, <2>5 DEF Next, vars
  <1> QED
    BY <1>1, ShapedStep DEF FaithInv

\* At the start nothing has been published, and the datasets are datasets.
LEMMA InitFaith == Init => FaithInv
  <1> SUFFICES ASSUME Init PROVE FaithInv
    OBVIOUS
  <1>1. job.at = "none" /\ deletion.at = "none" /\ trash = <<>> /\ published.made = <<>>
    BY JobIs DEF Init, Unpublished
  <1>2. \A n \in DOMAIN data : IsDataset(data[n])
    BY OpsAssumption, Zenon DEF Init
  <1>3. PublishedFaithful
    BY <1>1 DEF PublishedFaithful
  <1> QED
    BY <1>1, <1>2, <1>3
       DEF FaithInv, SourcesKnown, DataShaped, SourcesThere, BeforeKnown, OutKnown, StampKnown,
           CountKnown, Uncounted, Working, Copying

\* A merge or an edit publishes, source after source, the episodes that were
\* fingerprinted, whatever is recorded, deleted or edited by hand meanwhile; and merge.json
\* has them start where they do, unless a hand removes one between the last comparison and
\* the count (merge_datasets, edit_dataset).  An edit by hand leaves a mark here: a source
\* that is edited and put back exactly as it was while it is copied is one that no
\* fingerprint could tell.
THEOREM PublishesFaithfully == Spec => []PublishedFaithful
  <1>1. Init => OpsInv /\ Archives /\ FaithInv
    BY InitOps, InitArchives, InitFaith
  <1>2. (OpsInv /\ Archives /\ FaithInv) /\ [Next]_vars => (OpsInv /\ Archives /\ FaithInv)'
    BY NextOps, NextArchives, StepFaith
  <1>3. FaithInv => PublishedFaithful
    BY DEF FaithInv
  <1> QED
    BY <1>1, <1>2, <1>3, PTL DEF Spec
-------------------------------------------------------------------------------
(* The kinds of the variables.                                                   *)

JobTyped ==
    /\ job.at \in Working \cup {"none", "reviewed", "queued", "cleaning", "ended", "dead"}
    /\ job.request \in Requests \cup {NoRequest} /\ job.stage \in BOOLEAN

\* The names that are deleted and collected into are those of the requests, and what a
\* deletion lists are parts of a dataset.
Named ==
    /\ deletion.at # "none" => deletion.name \in Names
    /\ collection.at # "idle" => collection.name \in Names
    /\ deletion.at \in {"found", "moving", "rolling"} =>
          \A k \in DOMAIN deletion.listed : deletion.listed[k] \in Part

\* Every step of a job keeps its kinds.
LEMMA JobTypes ==
    ASSUME Shapes, JobTyped, [Next]_vars
    PROVE  JobTyped'
  <1> USE DEF JobTyped, Working
  <1>d. DOMAIN job = JobFields
    BY DEF Shapes
  <1>n. /\ NoJob.at = "none" /\ NoJob.request = NoRequest /\ NoJob.stage = FALSE
        /\ DOMAIN NoJob = JobFields
    BY DEF NoJob, JobFields
  <1>t. \A at : To(at).at = at /\ To(at).request = job.request /\ To(at).stage = job.stage
    BY <1>d DEF To, JobFields
  <1>a. Abort.at = "cleaning" /\ Abort.request = job.request /\ Abort.stage = job.stage
    BY <1>d DEF Abort, JobFields
  <1>1. CASE Review
    <2>1. PICK r \in Requests :
              job' = [NoJob EXCEPT !.at = "reviewed", !.request = r, !.versions = Contents(r)]
      BY <1>1 DEF Review
    <2>2. job'.at = "reviewed" /\ job'.request = r /\ job'.stage = FALSE
      BY <2>1, <1>n DEF JobFields
    <2> QED
      BY <2>2
  <1>2. CASE Submit
    BY <1>2, <1>n, <1>d DEF Submit, JobFields
  <1>3. CASE Acquire \/ Recheck \/ Rewrite \/ Verify \/ Compare \/ CheckName
    <2>1. \/ \E at \in {"locked", "checked", "rewritten", "verified", "compared", "stamped", "named"} :
                job' = To(at)
          \/ job' = Abort \/ job' = NoJob
          \/ \E o : job' = [job EXCEPT !.at = "rewritten", !.out = o]
      BY <1>3, Zenon DEF Acquire, Recheck, Rewrite, Verify, Compare, Compared, CheckName, Go
    <2>2. ASSUME NEW at \in {"locked", "checked", "rewritten", "verified", "compared", "stamped",
                              "named"},
                 job' = To(at)
          PROVE  JobTyped'
      <3>1. job'.at = at /\ job'.request = job.request /\ job'.stage = job.stage
        BY <2>2, <1>t, Zenon
      <3> QED
        BY <3>1
    <2>3. ASSUME NEW o, job' = [job EXCEPT !.at = "rewritten", !.out = o] PROVE JobTyped'
      BY <2>3, <1>d DEF JobFields
    <2> QED
      BY <2>1, <2>2, <2>3, <1>n, <1>a
  <1>4. CASE Fingerprint \/ MakeStage
    BY <1>4, <1>a, <1>d DEF Fingerprint, MakeStage, Go, JobFields
  <1>5. CASE Copy \/ Stamp
    BY <1>5, <1>d DEF Copy, Stamp, Go, JobFields
  <1>6. CASE Rename
    <2>1. job' = Abort \/ job' = [job EXCEPT !.at = "cleaning", !.word = "done"]
      BY <1>6 DEF Rename
    <2> QED
      BY <2>1, <1>a, <1>d DEF JobFields
  <1>7. CASE Clean
    BY <1>7, <1>n DEF Clean, JobFields
  <1>8. CASE CopyFails
    BY <1>8, <1>a DEF CopyFails, Go
  <1>9. CASE Stop \/ Kill
    <2>1. \/ job' = [job EXCEPT !.at = "cleaning", !.word = "stopped"]
          \/ job' = [job EXCEPT !.at = "dead"]
      BY <1>9 DEF Stop, Kill
    <2> QED
      BY <2>1, <1>d DEF JobFields
  <1>10. CASE NextJob
    BY <1>10, <1>n DEF NextJob, Go
  <1>11. CASE UNCHANGED job
    BY <1>11
  <1>12. AskDelete \/ Delete \/ MoveFails \/ RollBackFails \/ AskCollection \/ Collect
            \/ EndCollection \/ Crash => UNCHANGED job
    BY DEF AskDelete, Delete, FindParts, WriteManifest, Move, RollBack, DeleteReturns, MoveFails,
           RollBackFails, AskCollection, Collect, SaveInput, StartRecording, RecordEpisode,
           EndCollection, Crash
  <1>13. CASE Meddle
    BY <1>13, MeddleJob
  <1> QED
    BY <1>1, <1>2, <1>3, <1>4, <1>5, <1>6, <1>7, <1>8, <1>9, <1>10, <1>11, <1>12, <1>13
       DEF Next, Work, vars

\* Every step keeps the names and the parts what they are.
LEMMA NamesKept ==
    ASSUME Shapes, Named, [Next]_vars
    PROVE  Named'
  <1> USE DEF Named
  <1>u. CASE UNCHANGED <<deletion, collection>>
    BY <1>u
  <1>1. CASE Review \/ Submit \/ Work \/ CopyFails \/ Stop \/ Kill \/ NextJob \/ Meddle
    <2>1. UNCHANGED <<deletion, collection>>
      BY <1>1, Zenon
         DEF Review, Submit, Work, Acquire, Recheck, Fingerprint, MakeStage, Copy, Rewrite, Verify,
             Compare, Stamp, CheckName, Rename, Clean, CopyFails, Stop, Kill, NextJob, Go, Meddle
    <2> QED
      BY <2>1
  <1>2. CASE AskDelete
    BY <1>2 DEF AskDelete, NoDeletion
  <1>3. CASE FindParts
    <2>1. CASE deletion' = NoDeletion
      BY <1>3, <2>1, JobIs DEF FindParts
    <2>2. CASE deletion' # NoDeletion
      <3> DEFINE n == deletion.name
                 parts == <<"data">> \o (IF n \in ledger THEN <<"ledger">> ELSE <<>>)
                          \o (IF n \in input THEN <<"input">> ELSE <<>>)
      <3>1. /\ deletion' = [deletion EXCEPT !.at = "found", !.listed = parts]
            /\ deletion.at = "asked" /\ UNCHANGED collection
        BY <1>3, <2>2 DEF FindParts, EndDelete
      <3>2. \A k \in DOMAIN parts : parts[k] \in Part
        <4>1. CASE n \in ledger /\ n \in input
          BY <4>1 DEF Part
        <4>2. CASE n \in ledger /\ n \notin input
          BY <4>2 DEF Part
        <4>3. CASE n \notin ledger /\ n \in input
          BY <4>3 DEF Part
        <4>4. CASE n \notin ledger /\ n \notin input
          BY <4>4 DEF Part
        <4> QED
          BY <4>1, <4>2, <4>3, <4>4
      <3> HIDE DEF parts
      <3>3. deletion'.at = "found" /\ deletion'.listed = parts /\ deletion'.name = deletion.name
        BY <3>1 DEF Shapes
      <3> QED
        BY <3>1, <3>2, <3>3
    <2> QED
      BY <2>1, <2>2
  <1>4. CASE WriteManifest \/ Move \/ RollBack \/ MoveFails
    <2>1. /\ deletion'.name = deletion.name /\ deletion'.listed = deletion.listed
          /\ deletion.at \in {"found", "moving", "rolling"} /\ UNCHANGED collection
      BY <1>4 DEF WriteManifest, Move, RollBack, MoveFails, Shapes
    <2> QED
      BY <2>1
  <1>5. CASE DeleteReturns \/ RollBackFails \/ Crash
    BY <1>5, JobIs DEF DeleteReturns, RollBackFails, EndDelete, Crash
  <1>6. CASE AskCollection
    BY <1>6 DEF AskCollection
  <1>7. CASE Collect \/ EndCollection
    <2>1. UNCHANGED deletion /\ (collection'.at # "idle" => UNCHANGED collection \/
              (collection.at # "idle" /\ collection'.name = collection.name))
      BY <1>7, JobIs DEF Collect, SaveInput, StartRecording, RecordEpisode, EndCollection, Shapes
    <2> QED
      BY <2>1
  <1> QED
    BY <1>u, <1>1, <1>2, <1>3, <1>4, <1>5, <1>6, <1>7 DEF Next, Delete, vars

\* Every step keeps the kinds of what a dataset leaves behind, of the lock and the gate.
LEMMA PlacesTyped ==
    ASSUME OpsInv, Archives, Named, TypeOK, [Next]_vars
    PROVE  /\ ledger' \subseteq Names \cup DOMAIN Recorded
           /\ input' \subseteq Names \cup DOMAIN Recorded
           /\ \A i \in DOMAIN trash' : trash'[i].moved \subseteq Part
           /\ lock' \in {"free", "job", "delete", "collection"}
           /\ gate' \in {"free", "delete", "start"}
           /\ deletion'.at \in {"none", "asked", "found", "moving", "rolling"}
           /\ collection'.at \in {"idle", "checked", "saved", "recording"}
  <1> USE DEF TypeOK, OpsInv
  <1>0. CASE UNCHANGED vars
    BY <1>0 DEF vars
  <1>1. CASE Review \/ Submit \/ Work \/ CopyFails \/ Stop \/ Kill \/ NextJob \/ Meddle
    <2>1. /\ UNCHANGED <<ledger, input, trash, gate, deletion, collection>>
          /\ lock' \in {lock, "free", "job"}
      BY <1>1, Zenon
         DEF Review, Submit, Work, Acquire, Recheck, Fingerprint, MakeStage, Copy, Rewrite, Verify,
             Compare, Stamp, CheckName, Rename, Clean, CopyFails, Stop, Kill, NextJob, Go, Meddle
    <2> QED
      BY <2>1
  <1>2. CASE AskDelete
    BY <1>2 DEF AskDelete, NoDeletion
  <1>3. CASE FindParts \/ DeleteReturns
    <2>1. /\ UNCHANGED <<ledger, input, trash, collection>>
          /\ deletion'.at \in {"none", "found"} /\ gate' \in {gate, "free"}
          /\ lock' \in {lock, "free", "delete"}
      BY <1>3, JobIs DEF FindParts, DeleteReturns, EndDelete, Shapes
    <2> QED
      BY <2>1
  <1>4. CASE WriteManifest
    <2>1. /\ deletion'.at = "moving" /\ UNCHANGED <<ledger, input, lock, gate, collection>>
      BY <1>4 DEF WriteManifest, Shapes
    <2>2. \A i \in DOMAIN trash' : trash'[i].moved \subseteq Part
      <3>1. /\ Len(trash) \in Nat /\ DOMAIN trash = 1..Len(trash)
            /\ DOMAIN trash' = 1..(Len(trash) + 1) /\ trash'[Len(trash) + 1].moved = {}
            /\ \A i \in DOMAIN trash : trash'[i] = trash[i]
        BY <1>4 DEF WriteManifest, Archives
      <3>2. \A i \in DOMAIN trash : trash[i].moved \subseteq Part
        OBVIOUS
      <3> QED
        BY <3>1, <3>2
    <2> QED
      BY <2>1, <2>2
  <1>5. CASE Move \/ RollBack
    <2> DEFINE b == trash[Len(trash)]
    <2>1. /\ deletion.at \in Moving /\ deletion'.at = deletion.at
          /\ UNCHANGED <<lock, gate, collection>>
      BY <1>5 DEF Move, RollBack, Moving, Shapes
    <2>2. PICK j \in DOMAIN deletion.listed :
              /\ \E m \in {b.moved \cup {deletion.listed[j]}, b.moved \ {deletion.listed[j]}} :
                    \E k : LastIs(m, k)
              /\ ledger' \in {ledger, ledger \cup {deletion.name}, ledger \ {deletion.name}}
              /\ input' \in {input, input \cup {deletion.name}, input \ {deletion.name}}
      <3>1. CASE Move
        <4> DEFINE next == deletion.moved + 1
                   part == deletion.listed[next]
        <4>1. deletion.moved + 1 \in DOMAIN deletion.listed
          BY <2>1, <3>1, MovingParts, PartsOnce DEF Move, IsList
        <4>2. LastIs(b.moved \cup {part},
                     IF part = "data" THEN <<data[deletion.name]>> ELSE b.kept)
          BY <2>1, <3>1, MovingParts DEF LastIs, Move, Take
        <4>3. /\ ledger' \in {ledger, ledger \ {deletion.name}}
              /\ input' \in {input, input \ {deletion.name}}
          BY <3>1 DEF Move, Take
        <4>4. next \in DOMAIN deletion.listed
          BY <4>1
        <4> HIDE DEF b, next
        <4> QED
          BY <4>2, <4>3, <4>4
      <3>2. CASE RollBack
        <4> DEFINE part == deletion.listed[deletion.moved]
        <4>1. deletion.moved \in DOMAIN deletion.listed
          BY <2>1, <3>2, MovingParts, PartsOnce DEF RollBack, IsList
        <4>2. LastIs(b.moved \ {part}, IF part = "data" THEN <<>> ELSE b.kept)
          BY <2>1, <3>2, MovingParts DEF LastIs, RollBack, PutBack
        <4>3. /\ ledger' \in {ledger, ledger \cup {deletion.name}}
              /\ input' \in {input, input \cup {deletion.name}}
          BY <3>2 DEF RollBack, PutBack
        <4> HIDE DEF b
        <4> QED
          BY <4>1, <4>2, <4>3
      <3> QED
        BY <1>5, <3>1, <3>2
    <2>3. deletion.name \in Names /\ deletion.listed[j] \in Part
      BY <2>1, <2>2 DEF Named, Moving
    <2>4. \A i \in DOMAIN trash' : trash'[i].moved \subseteq Part
      <3>0. PICK m \in {b.moved \cup {deletion.listed[j]}, b.moved \ {deletion.listed[j]}} :
                \E k : LastIs(m, k)
        BY <2>2
      <3>1. /\ DOMAIN trash' = DOMAIN trash /\ Len(trash) \in DOMAIN trash
            /\ \A i \in DOMAIN trash \ {Len(trash)} : trash'[i] = trash[i]
            /\ trash'[Len(trash)].moved = m
        BY <2>1, <3>0, LastChanges
      <3>2. \A i \in DOMAIN trash : trash[i].moved \subseteq Part
        OBVIOUS
      <3>3. m \subseteq Part
        BY <3>0, <2>3, <3>1, <3>2
      <3> QED
        BY <3>1, <3>2, <3>3
    <2> QED
      BY <2>1, <2>2, <2>3, <2>4
  <1>6. CASE MoveFails
    BY <1>6 DEF MoveFails, Shapes
  <1>7. CASE AskCollection
    BY <1>7 DEF AskCollection
  <1>8. CASE Collect
    <2>1. /\ UNCHANGED <<trash, deletion>> /\ gate' \in {gate, "free"}
          /\ lock' \in {lock, "collection"}
          /\ collection'.at \in {collection.at, "idle", "saved", "recording"}
          /\ ledger' = ledger \/ ledger' = ledger \cup {collection.name}
          /\ input' = input \/ input' = input \cup {collection.name}
          /\ ~UNCHANGED <<ledger, input>> => collection.at # "idle"
      BY <1>8, JobIs DEF Collect, SaveInput, StartRecording, RecordEpisode, Shapes
    <2> QED
      BY <2>1 DEF Named
  <1>9. CASE EndCollection
    BY <1>9, JobIs DEF EndCollection
  <1>10. CASE RollBackFails \/ Crash
    <2>1. /\ UNCHANGED <<ledger, input>> /\ deletion'.at = "none" /\ gate' = "free"
          /\ lock' \in {lock, "free"} /\ collection'.at \in {collection.at, "idle"}
          /\ trash' = trash \/ (trash' = CutShort /\ deletion.at \in Moving)
      BY <1>10, JobIs DEF RollBackFails, Crash, EndDelete, Moving
    <2>2. ASSUME trash' = CutShort, deletion.at \in Moving
          PROVE  \A i \in DOMAIN trash' : trash'[i].moved \subseteq Part
      <3> DEFINE n == Len(trash)
      <3>1. DOMAIN trash[n] = ArchiveFields /\ n \in DOMAIN trash
        BY <2>2, MovingParts DEF Archives, Archive
      <3>2. /\ DOMAIN trash' = DOMAIN trash /\ trash'[n].moved = trash[n].moved
            /\ \A i \in DOMAIN trash \ {n} : trash'[i] = trash[i]
        BY <2>2, <3>1 DEF CutShort, ArchiveFields
      <3> QED
        BY <3>1, <3>2
    <2> QED
      BY <2>1, <2>2
  <1> QED
    BY <1>0, <1>1, <1>2, <1>3, <1>4, <1>5, <1>6, <1>7, <1>8, <1>9, <1>10 DEF Next, Delete

\* Every variable keeps its kind; an archive holds parts of a dataset and nothing else,
\* and ledgers and settings are only ever made for names that are collected into.
THEOREM OpsTypes == Spec => []TypeOK
  <1> DEFINE Inv == OpsInv /\ Archives /\ Named /\ TypeOK
  <1>1. Init => Inv
    <2> SUFFICES ASSUME Init PROVE Named /\ TypeOK
      BY InitOps, InitArchives
    <2>1. /\ deletion.at = "none" /\ collection.at = "idle" /\ job.at = "none"
          /\ job.request = NoRequest /\ job.stage = FALSE
      BY JobIs DEF Init, NoJob
    <2>2. Named
      BY <2>1 DEF Named
    <2>3. \A i \in DOMAIN trash : trash[i].moved \subseteq Part
      <3>1. trash = <<>>
        BY DEF Init
      <3> QED
        BY <3>1
    <2>4. /\ ledger \subseteq Names \cup DOMAIN Recorded /\ input \subseteq Names \cup DOMAIN Recorded
          /\ lock = "free" /\ gate = "free"
      BY DEF Init
    <2> QED
      BY <2>1, <2>2, <2>3, <2>4 DEF TypeOK
  <1>2. Inv /\ [Next]_vars => Inv'
    <2> SUFFICES ASSUME OpsInv, Archives, Named, TypeOK, [Next]_vars PROVE Inv'
      OBVIOUS
    <2>1. JobTyped'
      BY JobTypes DEF OpsInv, TypeOK, JobTyped
    <2>2. OpsInv' /\ Archives' /\ Named'
      BY NextOps, NextArchives, NamesKept DEF OpsInv
    <2>3. TypeOK'
      BY <2>1, PlacesTyped DEF JobTyped, TypeOK
    <2> QED
      BY <2>2, <2>3
  <1>3. Inv => TypeOK
    OBVIOUS
  <1> QED
    BY <1>1, <1>2, <1>3, PTL DEF Spec
===============================================================================
