----------------------------- MODULE DatasetOps -----------------------------
(***************************************************************************)
(* The datasets of one backend and everything in lab that changes which    *)
(* there are: the merge and edit jobs (lab/core/dataset_merge.py,          *)
(* dataset_edit.py), the archive of a deleted dataset (dataset_delete.py)  *)
(* and the settings file of a collection that starts (collection_input.py),*)
(* with the handlers that ask for them (server/datasets_api.py,            *)
(* collection_api.py).  A job is a process of its own; the handlers run in *)
(* the server under collection_gate.  A recorder stands for whatever       *)
(* CollectionService starts, and somebody may edit files by hand.  The     *)
(* lock is HardwareLock as its users see it: the end of a holder frees it. *)
(***************************************************************************)
EXTENDS Integers, FiniteSets, Sequences

CONSTANTS
    Recorded,     \* the datasets at the start: name -> dataset
    Prepared,     \* names of prepared copies under data/datasets
    Requests,     \* merges and edits somebody may ask for
    Names,        \* names that are deleted or collected into
    MaxJob, MaxDelete, MaxCollection, MaxMeddle, MaxCrash   \* bounds

\* A dataset: its episodes, each a task and data that are only compared, the
\* recording settings, whether its metadata is healthy, and whether it is a copy.
IsEpisodes(q) ==
    q \in Seq({q[i] : i \in DOMAIN q}) /\ \A i \in DOMAIN q : DOMAIN q[i] = {"task", "data"}
IsDataset(d) == "eps" \in DOMAIN d /\ IsEpisodes(d.eps)

ASSUME OpsAssumption ==
    /\ {MaxJob, MaxDelete, MaxCollection, MaxMeddle, MaxCrash} \subseteq Nat
    \* The sources are a list; an edit has a single one (source_dataset).
    /\ \A r \in Requests :
        /\ r.sources \in Seq({r.sources[i] : i \in DOMAIN r.sources})
        /\ r.kind # "merge" => DOMAIN r.sources = {1}
    /\ \A n \in DOMAIN Recorded : IsDataset(Recorded[n])

VARIABLES
    data,       \* datasets: name -> dataset
    ledger,     \* names with a collection ledger
    input,      \* names with a .collection.input.json
    trash,      \* archives: the dataset's name, what the manifest lists, what is there
    lock,       \* who holds the hardware lock
    gate,       \* who is inside collection_gate
    job,        \* the merge or edit job
    published,  \* the last dataset a job published
    deletion,   \* the delete request under way
    collection, \* the collection under way
    used        \* how much of each bound is used up

vars == <<data, ledger, input, trash, lock, gate, job, published, deletion, collection, used>>

Tasks(d) == {d.eps[i].task : i \in DOMAIN d.eps}
TaskList(eps) == [i \in DOMAIN eps |-> eps[i].task]

NoRequest == [kind |-> "none", sources |-> <<>>, name |-> "", map |-> <<>>]
NoJob == [at |-> "none", request |-> NoRequest, versions |-> <<>>, before |-> <<>>, out |-> <<>>,
          copied |-> 0, offset |-> 0, stamps |-> <<>>, late |-> FALSE, stage |-> FALSE, word |-> "none"]
Unpublished == [eps |-> <<>>, made |-> <<>>, stamps |-> <<>>, late |-> FALSE]
NoDeletion == [at |-> "none", name |-> "", listed |-> <<>>, moved |-> 0]
NoCollection == [at |-> "idle", name |-> ""]

Init ==
    /\ data = Recorded /\ trash = <<>>
    /\ ledger = DOMAIN Recorded /\ input = DOMAIN Recorded
    /\ lock = "free" /\ gate = "free"
    /\ job = NoJob /\ published = Unpublished
    /\ deletion = NoDeletion /\ collection = NoCollection
    /\ used = [job |-> 0, delete |-> 0, collection |-> 0, meddle |-> 0, crash |-> 0]

Use(what, max) == used[what] < max /\ used' = [used EXCEPT ![what] = @ + 1]

-----------------------------------------------------------------------------
(* What a merge or an edit may be made of.                                 *)

\* new_dataset_path: ledgers, settings and prepared copies reserve a name too.
NameFree(n) == n \notin DOMAIN data \cup ledger \cup input \cup Prepared

SourceNames(r) == {r.sources[i] : i \in DOMAIN r.sources}
Contents(r) == [i \in DOMAIN r.sources |-> data[r.sources[i]]]
Healthy(n) == n \in DOMAIN data /\ data[n].ok /\ data[n].eps # <<>>

\* check_merge
Mergeable(r) ==
    /\ Len(r.sources) \in 2..50 /\ Cardinality(SourceNames(r)) = Len(r.sources)
    /\ \A n \in SourceNames(r) : Healthy(n) /\ data[n].settings = data[r.sources[1]].settings

\* check_edit: every task has a new wording, and they stay distinct.
Editable(r) ==
    LET source == data[r.sources[1]]
    IN  /\ Healthy(r.sources[1])
        /\ DOMAIN r.map = Tasks(source)
        /\ \A t \in DOMAIN r.map : r.map[t] # ""
        /\ \A t, u \in DOMAIN r.map : t # u => r.map[t] # r.map[u]

Checked(r) == NameFree(r.name) /\ IF r.kind = "merge" THEN Mergeable(r) ELSE Editable(r)

-----------------------------------------------------------------------------
(* The handlers of a merge and an edit.                                    *)

\* The page checks a request and shows what it would do.
Review ==
    /\ job.at = "none"
    /\ \E r \in Requests :
        /\ Checked(r)
        /\ job' = [NoJob EXCEPT !.at = "reviewed", !.request = r, !.versions = Contents(r)]
    /\ Use("job", MaxJob)
    /\ UNCHANGED <<data, ledger, input, trash, lock, gate, published, deletion, collection>>

\* Submitted: checked again, against the reviewed versions, with no collection active.
Submit ==
    /\ job.at = "reviewed" /\ gate = "free"
    /\ job' = IF /\ collection.at = "idle"
                 /\ Checked(job.request) /\ Contents(job.request) = job.versions
              THEN [job EXCEPT !.at = "queued"] ELSE NoJob
    /\ UNCHANGED <<data, ledger, input, trash, lock, gate, published, deletion, collection, used>>

-----------------------------------------------------------------------------
(* The job's process: merge_datasets and edit_dataset.                     *)

Go(next) ==
    /\ job' = next
    /\ UNCHANGED <<data, ledger, input, trash, lock, gate, published, deletion, collection, used>>

To(at) == [job EXCEPT !.at = at]
Abort == [job EXCEPT !.at = "cleaning", !.word = "failed"]
Req == job.request

\* lock.acquire does not wait.
Acquire ==
    /\ job.at = "queued"
    /\ IF lock = "free" THEN lock' = "job" /\ job' = To("locked")
       ELSE job' = NoJob /\ UNCHANGED lock
    /\ UNCHANGED <<data, ledger, input, trash, gate, published, deletion, collection, used>>

Recheck ==
    /\ job.at = "locked"
    /\ Go(IF Checked(Req) /\ Contents(Req) = job.versions THEN To("checked") ELSE Abort)

\* The fingerprints of the sources, by which they are known later.
Fingerprint ==
    /\ job.at = "checked" /\ Go([job EXCEPT !.at = "fingerprinted", !.before = Contents(Req)])

MakeStage ==
    /\ job.at = "fingerprinted"
    /\ Go(IF NameFree(Req.name) THEN [job EXCEPT !.at = "copying", !.stage = TRUE] ELSE Abort)

\* Source after source, as it is then.
Copy ==
    /\ job.at = "copying"
    /\ LET next == job.copied + 1
       IN  Go([job EXCEPT !.out = @ \o data[Req.sources[next]].eps, !.copied = next,
                          !.at = IF next = Len(Req.sources) THEN "copied" ELSE "copying"])

\* No room, unreadable video, a missing package; later, no git or no place for the record.
CopyFails == job.at \in {"copying", "compared", "stamped"} /\ Go(Abort)

Reworded(eps, map) == [i \in DOMAIN eps |-> [eps[i] EXCEPT !.task = map[@]]]

\* A copy to edit must be the source that was fingerprinted; then its tasks are reworded.
Rewrite ==
    /\ job.at = "copied"
    /\ Go(IF Req.kind = "merge" THEN To("rewritten")
          ELSE IF job.out = job.before[1].eps
               THEN [job EXCEPT !.at = "rewritten", !.out = Reworded(@, Req.map)]
               ELSE Abort)

Concat(q) == LET upto[i \in 0..Len(q)] == IF i = 0 THEN <<>> ELSE upto[i - 1] \o q[i] IN upto[Len(q)]

\* The count that was checked; indices and instructions as the sources have them now.
Verify ==
    /\ job.at = "rewritten"
    /\ LET now == Concat([i \in DOMAIN Req.sources |-> TaskList(data[Req.sources[i]].eps)])
           expected == IF Req.kind = "merge" THEN now ELSE [i \in DOMAIN now |-> Req.map[now[i]]]
       IN  Go(IF /\ Req.kind = "edit" => \A i \in DOMAIN now : now[i] \in DOMAIN Req.map
                 /\ Req.kind = "merge" =>
                       Len(job.out) = Len(Concat([i \in DOMAIN job.versions |-> job.versions[i].eps]))
                 /\ TaskList(job.out) = expected
              THEN To("verified") ELSE Abort)

\* What edits.jsonl says are the fingerprints; merge.json has the stamps too.
Compared == To(IF Req.kind = "merge" THEN "compared" ELSE "stamped")
TrustVerify == job.at = "verified" /\ Go(Compared)

\* The sources have their fingerprints still.
Compare ==
    /\ job.at = "verified" /\ Go(IF Contents(Req) = job.before THEN Compared ELSE Abort)

\* Source after source is read once more, for its number of episodes.
Stamp ==
    /\ job.at = "compared"
    /\ LET next == Len(job.stamps) + 1
           count == Len(data[Req.sources[next]].eps)
       IN  Go([job EXCEPT !.stamps = Append(@, [start |-> job.offset, episodes |-> count]),
                          !.offset = @ + count,
                          !.at = IF next = Len(Req.sources) THEN "stamped" ELSE "compared"])

CheckName ==
    /\ job.at = "stamped" /\ Go(IF NameFree(Req.name) THEN To("named") ELSE Abort)

\* output.rename(target): it may raise, and does on a directory that is not empty.
Rename ==
    /\ job.at = "named"
    /\ \/ job' = Abort /\ UNCHANGED <<data, published>>
       \/ /\ Req.name \notin DOMAIN data
          /\ job' = [job EXCEPT !.at = "cleaning", !.word = "done"]
          /\ data' = [n \in DOMAIN data \cup {Req.name} |->
                         IF n = Req.name
                         THEN [eps |-> job.out, settings |-> job.before[1].settings, ok |-> TRUE,
                               copy |-> TRUE]
                         ELSE data[n]]
          /\ published' = [eps |-> job.out, made |-> job.before, stamps |-> job.stamps,
                            late |-> job.late]
    /\ UNCHANGED <<ledger, input, trash, lock, gate, deletion, collection, used>>

CleanPublished ==
    /\ job.at = "cleaning"
    /\ job' = [NoJob EXCEPT !.at = "ended", !.stage = job.stage /\ job.word # "done"] /\ lock' = "free"
    /\ UNCHANGED <<data, ledger, input, trash, gate, published, deletion, collection, used>>

\* finally: the staging directory goes, the lock is released.
Clean ==
    /\ job.at = "cleaning"
    /\ job' = [NoJob EXCEPT !.at = "ended"] /\ lock' = "free"
    /\ UNCHANGED <<data, ledger, input, trash, gate, published, deletion, collection, used>>

Working == {"locked", "checked", "fingerprinted", "copying", "copied", "rewritten", "verified",
            "compared", "stamped", "named"}

\* SIGTERM raises SystemExit where the job is; in the finally block it cuts that short.
Stop ==
    /\ job.at \in Working \cup {"queued", "cleaning"}
    /\ IF job.at \in Working THEN job' = [job EXCEPT !.at = "cleaning", !.word = "stopped"] /\ UNCHANGED lock
       ELSE /\ job' = [job EXCEPT !.at = "dead"]
            /\ lock' = IF job.at = "cleaning" THEN "free" ELSE lock
    /\ UNCHANGED <<data, ledger, input, trash, gate, published, deletion, collection, used>>

Kill ==
    /\ job.at \in Working \cup {"cleaning"} /\ Use("crash", MaxCrash)
    /\ job' = [job EXCEPT !.at = "dead"] /\ lock' = "free"
    /\ UNCHANGED <<data, ledger, input, trash, gate, published, deletion, collection>>

NextJob == job.at \in {"ended", "dead"} /\ Go(NoJob)

-----------------------------------------------------------------------------
(* DELETE: archive_dataset, in the server and under the gate.              *)

AskDelete ==
    /\ gate = "free" /\ collection.at = "idle"
    /\ \E n \in Names : deletion' = [NoDeletion EXCEPT !.at = "asked", !.name = n]
    /\ gate' = "delete" /\ Use("delete", MaxDelete)
    /\ UNCHANGED <<data, ledger, input, trash, lock, job, published, collection>>

EndDelete(release) ==
    deletion' = NoDeletion /\ gate' = "free" /\ lock' = IF release THEN "free" ELSE lock

\* The dataset, its ledger and its settings, as far as they exist.
FindParts ==
    /\ deletion.at = "asked"
    /\ LET n == deletion.name
           parts == <<"data">> \o (IF n \in ledger THEN <<"ledger">> ELSE <<>>)
                    \o (IF n \in input THEN <<"input">> ELSE <<>>)
       IN  IF lock # "free" \/ n \notin DOMAIN data THEN EndDelete(FALSE)
           ELSE /\ deletion' = [deletion EXCEPT !.at = "found", !.listed = parts]
                /\ lock' = "delete" /\ UNCHANGED gate
    /\ UNCHANGED <<data, ledger, input, trash, job, published, collection, used>>

\* The archive directory and its manifest, before anything moves.
WriteManifest ==
    /\ deletion.at = "found" /\ deletion' = [deletion EXCEPT !.at = "moving"]
    /\ trash' = Append(trash, [name |-> deletion.name, listed |-> deletion.listed, moved |-> {},
                               kept |-> <<>>, cut |-> FALSE])
    /\ UNCHANGED <<data, ledger, input, lock, gate, job, published, collection, used>>

\* A part leaves its place, or comes back to it.
Take(part, n) ==
    /\ data' = IF part = "data" THEN [m \in DOMAIN data \ {n} |-> data[m]] ELSE data
    /\ ledger' = IF part = "ledger" THEN ledger \ {n} ELSE ledger
    /\ input' = IF part = "input" THEN input \ {n} ELSE input
    /\ trash' = [trash EXCEPT ![Len(trash)].moved = @ \cup {part},
                              ![Len(trash)].kept = IF part = "data" THEN <<data[n]>> ELSE @]

PutBack(part, n) ==
    /\ data' = IF part = "data"
               THEN [m \in DOMAIN data \cup {n} |-> IF m = n THEN trash[Len(trash)].kept[1] ELSE data[m]]
               ELSE data
    /\ ledger' = IF part = "ledger" THEN ledger \cup {n} ELSE ledger
    /\ input' = IF part = "input" THEN input \cup {n} ELSE input
    /\ trash' = [trash EXCEPT ![Len(trash)].moved = @ \ {part},
                              ![Len(trash)].kept = IF part = "data" THEN <<>> ELSE @]

Move ==
    /\ deletion.at = "moving" /\ deletion.moved < Len(deletion.listed)
    /\ Take(deletion.listed[deletion.moved + 1], deletion.name)
    /\ deletion' = [deletion EXCEPT !.moved = @ + 1]
    /\ UNCHANGED <<lock, gate, job, published, collection, used>>

GiveUp ==
    /\ deletion.at = "moving" /\ deletion.moved < Len(deletion.listed) /\ EndDelete(TRUE)
    /\ UNCHANGED <<data, ledger, input, trash, job, published, collection, used>>

\* OSError: what was moved comes back, last first. The empty archive stays.
MoveFails ==
    /\ deletion.at = "moving" /\ deletion.moved < Len(deletion.listed)
    /\ deletion' = [deletion EXCEPT !.at = "rolling"]
    /\ UNCHANGED <<data, ledger, input, trash, lock, gate, job, published, collection, used>>

RollBack ==
    /\ deletion.at = "rolling" /\ deletion.moved > 0
    /\ PutBack(deletion.listed[deletion.moved], deletion.name)
    /\ deletion' = [deletion EXCEPT !.moved = @ - 1]
    /\ UNCHANGED <<lock, gate, job, published, collection, used>>

CutShort == [trash EXCEPT ![Len(trash)].cut = TRUE]

\* The rename back may raise as the first one did: the rest stays in the archive.
RollBackFails ==
    /\ deletion.at = "rolling" /\ deletion.moved > 0 /\ EndDelete(TRUE)
    /\ trash' = CutShort
    /\ UNCHANGED <<data, ledger, input, job, published, collection, used>>

DeleteReturns ==
    /\ \/ deletion.at = "moving" /\ deletion.moved = Len(deletion.listed)
       \/ deletion.at = "rolling" /\ deletion.moved = 0
    /\ EndDelete(TRUE)
    /\ UNCHANGED <<data, ledger, input, trash, job, published, collection, used>>

-----------------------------------------------------------------------------
(* POST /api/collection/start, and what a recorder does then.              *)

\* save_collection_input refuses data that no settings of a collection belong to ...
AskCollection ==
    /\ gate = "free" /\ collection.at = "idle"
    /\ \E n \in Names :
        /\ n \in input \/ n \notin DOMAIN data \cup ledger
        /\ collection' = [at |-> "checked", name |-> n]
    /\ gate' = "start" /\ Use("collection", MaxCollection)
    /\ UNCHANGED <<data, ledger, input, trash, lock, job, published, deletion>>

\* ... and then writes them, before anything takes the hardware lock.
SaveInput ==
    /\ collection.at = "checked"
    /\ input' = input \cup {collection.name} /\ collection' = [collection EXCEPT !.at = "saved"]
    /\ UNCHANGED <<data, ledger, trash, lock, gate, job, published, deletion, used>>

StartUnlocked ==
    /\ collection.at = "saved" /\ gate' = "free"
    /\ collection' = [collection EXCEPT !.at = "recording"] /\ ledger' = ledger \cup {collection.name}
    /\ UNCHANGED <<data, input, trash, lock, job, published, deletion, used>>

\* CollectionService.start
StartRecording ==
    /\ collection.at = "saved" /\ gate' = "free"
    /\ IF lock = "free"
       THEN /\ lock' = "collection" /\ ledger' = ledger \cup {collection.name}
            /\ collection' = [collection EXCEPT !.at = "recording"]
       ELSE collection' = NoCollection /\ UNCHANGED <<lock, ledger>>
    /\ UNCHANGED <<data, input, trash, job, published, deletion, used>>

NewEpisode == [task |-> "pick", data |-> "new"]

RecordEpisode ==
    /\ collection.at = "recording"
    /\ LET n == collection.name
           old == IF n \in DOMAIN data THEN data[n]
                  ELSE [eps |-> <<>>, settings |-> "so101", ok |-> TRUE, copy |-> FALSE]
       IN  /\ \A i \in DOMAIN old.eps : old.eps[i] # NewEpisode
           /\ data' = [m \in DOMAIN data \cup {n} |->
                          IF m = n THEN [old EXCEPT !.eps = Append(@, NewEpisode)] ELSE data[m]]
    /\ UNCHANGED <<ledger, input, trash, lock, gate, job, published, deletion, collection, used>>

EndCollection ==
    /\ collection.at = "recording" /\ collection' = NoCollection
    /\ lock' = IF lock = "collection" THEN "free" ELSE lock
    /\ UNCHANGED <<data, ledger, input, trash, gate, job, published, deletion, used>>

-----------------------------------------------------------------------------

\* The server dies in the middle of a request; a job and a recorder live on.
Crash ==
    /\ gate # "free" /\ Use("crash", MaxCrash)
    /\ gate' = "free" /\ deletion' = NoDeletion
    /\ lock' = IF lock = "delete" THEN "free" ELSE lock
    /\ collection' = NoCollection
    /\ trash' = IF deletion.at \in {"moving", "rolling"} THEN CutShort ELSE trash
    /\ UNCHANGED <<data, ledger, input, job, published>>

\* Somebody edits a dataset by hand: an episode is replaced ...
Replace(n, task) ==
    /\ data' = [data EXCEPT ![n].eps[1] = [task |-> task, data |-> "edited"]]
    /\ UNCHANGED job

\* ... or the last one goes; "late" is when that is a source that is about to be counted.
DropLast(n) ==
    /\ data' = [data EXCEPT ![n].eps = SubSeq(@, 1, Len(@) - 1)]
    /\ job' = [job EXCEPT !.late = @ \/ (job.at = "compared" /\ n \in SourceNames(Req))]

Meddle ==
    /\ Use("meddle", MaxMeddle)
    /\ \E n \in DOMAIN data :
        /\ data[n].eps # <<>>
        /\ DropLast(n) \/ \E task \in {"pick", "place"} : Replace(n, task)
    /\ UNCHANGED <<ledger, input, trash, lock, gate, published, deletion, collection>>

Work == Acquire \/ Recheck \/ Fingerprint \/ MakeStage \/ Copy \/ Rewrite \/ Verify \/ Compare
        \/ Stamp \/ CheckName \/ Rename \/ Clean
Delete == FindParts \/ WriteManifest \/ Move \/ RollBack \/ DeleteReturns
Collect == SaveInput \/ StartRecording \/ RecordEpisode

Next ==
    \/ Review \/ Submit \/ Work \/ CopyFails \/ Stop \/ Kill \/ NextJob
    \/ AskDelete \/ Delete \/ MoveFails \/ RollBackFails
    \/ AskCollection \/ Collect \/ EndCollection
    \/ Crash \/ Meddle

\* A job that may step does, and so does a request the server has accepted.
Fairness == WF_vars(Work) /\ WF_vars(Delete)

Spec == Init /\ [][Next]_vars /\ Fairness

-----------------------------------------------------------------------------

Part == {"data", "ledger", "input"}

TypeOK ==
    /\ ledger \subseteq Names \cup DOMAIN Recorded /\ input \subseteq Names \cup DOMAIN Recorded
    /\ \A i \in DOMAIN trash : trash[i].moved \subseteq Part
    /\ lock \in {"free", "job", "delete", "collection"} /\ gate \in {"free", "delete", "start"}
    /\ job.at \in Working \cup {"none", "reviewed", "queued", "cleaning", "ended", "dead"}
    /\ job.request \in Requests \cup {NoRequest} /\ job.stage \in BOOLEAN
    /\ deletion.at \in {"none", "asked", "found", "moving", "rolling"}
    /\ collection.at \in {"idle", "checked", "saved", "recording"}

\* What a merge or an edit publishes is, source after source, the episodes of that
\* source as they were when it was fingerprinted, whatever is recorded, deleted or
\* edited by hand while it works.  And merge.json says where each source starts and how
\* many episodes it gave, unless a hand removes an episode of a source after that was
\* compared with its fingerprint, for the sources are then read once more to be counted
\* (dataset_merge.py, merge_datasets; dataset_edit.py, edit_dataset).
PublishedFaithful ==
    LET made == published.made
        From(k) == Len(Concat([j \in 1..(k - 1) |-> made[j].eps]))
    IN  \A k \in DOMAIN made :
            /\ From(k) + Len(made[k].eps) <= Len(published.eps)
            /\ \A i \in DOMAIN made[k].eps :
                   published.eps[From(k) + i].data = made[k].eps[i].data
            /\ k = Len(made) => From(k) + Len(made[k].eps) = Len(published.eps)
            /\ (k \in DOMAIN published.stamps /\ ~published.late) =>
                   published.stamps[k] = [start |-> From(k), episodes |-> Len(made[k].eps)]

\* What has left its place is in an archive whose manifest lists it, and it is the
\* dataset first: its ledger and its settings never go without it, whatever fails and
\* whenever the server dies.  And a dataset is archived with all of them or not at all,
\* unless its archive was cut short: by a crash of the server, or by a rename that
\* fails while what was moved is brought back (dataset_delete.py, archive_dataset).
ArchivedTogether ==
    \A i \in DOMAIN trash :
        LET archive == trash[i]
            UpTo(m) == {archive.listed[k] : k \in 1..m}
        IN  /\ \E m \in 0..Len(archive.listed) : archive.moved = UpTo(m)
            /\ archive.moved # {} => "data" \in archive.moved /\ archive.kept # <<>>
            /\ (deletion.at = "none" /\ ~archive.cut) =>
                  archive.moved \in {{}, UpTo(Len(archive.listed))}

\* A dataset that a job reads is not recorded into and does not move: it is only
\* ever a hand that makes a job give up on its sources (merge_datasets, "The hardware
\* lock serializes collection, deletion and other merge workers").
OnlyHandsDisturb ==
    (job.at \in Working \ {"locked"} /\ used.meddle = 0) =>
        /\ SourceNames(job.request) \subseteq DOMAIN data
        /\ job.before # <<>> => Contents(job.request) = job.before

\* A job that has made a staging directory removes it and lets go of the lock, whether
\* it publishes, fails or is stopped, unless it is killed or stopped once more while it
\* cleans up (the finally blocks of merge_datasets and edit_dataset).
JobsTidyUp == job.stage ~> ((~job.stage /\ lock # "job") \/ job.at = "dead")

\* The datasets that jobs publish have no collection settings of their own: a name is
\* reserved by them (said at dataset_merge.py:44).
NamesReserved == \A n \in DOMAIN data : data[n].copy => n \notin input

=============================================================================
