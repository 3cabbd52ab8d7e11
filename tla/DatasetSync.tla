----------------------------- MODULE DatasetSync -----------------------------
(***************************************************************************)
(* lab/core/dataset_sync.py with dataset_manifest.py and the GPU host as   *)
(* remote.py reaches it: a dataset is hashed here, copied into .incoming/, *)
(* hashed there, moved into place and given a manifest.  The runner allows *)
(* one run at a time; a run may be stopped, killed or cut off at any step, *)
(* the dataset may be edited at any step, and a command the host was sent  *)
(* may act although, or long after, its answer was given up.               *)
(*                                                                         *)
(* A tree maps each file to the stamp of its last edit, which stands for   *)
(* its content, its size and its mtime.                                    *)
(***************************************************************************)
EXTENDS Naturals

CONSTANTS File,
          Meta,        \* meta/info.json, without which a dataset is not sendable
          Created,     \* the files that may appear, not there at first
          Removed,     \* the files that may be removed
          Gone,        \* the file is not in the tree
          Partial,     \* what an interrupted copy of a file leaves
          NoTree,      \* no such directory
          NoManifest,  \* no manifest, no cached manifest
          MaxEdits,    \* bound on the edits of the dataset
          MaxFaults    \* bound on the stops, kills and failing calls

ASSUME SyncAssumption ==
    /\ Meta \in File /\ Created \subseteq File /\ Removed \subseteq File
    /\ MaxEdits \in Nat /\ MaxFaults \in Nat
    /\ Gone \notin Nat /\ Partial \notin Nat /\ Gone # Partial
    /\ {NoTree, NoManifest} \cap [File -> 0 .. MaxEdits \cup {Gone, Partial}] = {}

VARIABLES source,      \* the dataset here, ready_root
          edits,       \* how many edits it has had
          seen,        \* every tree the dataset ever was (history)
          cache,       \* the manifest cache: a listing and the tree hashed for it
          run,         \* the run: its step, the files left in it, what it knows
          outcome,     \* how the last run ended
          incoming,    \* .incoming/<name> on the host
          final,       \* <name> on the host
          manifest,    \* <name>.manifest.json on the host: the tree it describes
          lateRename,  \* how many renames the host has not carried out yet
          lateWrite,   \* a manifest the host has not written yet
          faults

host == <<incoming, final, manifest, lateRename, lateWrite>>
vars == <<source, edits, seen, cache, run, outcome, host, faults>>

Tree == [File -> 0 .. MaxEdits \cup {Gone}]
Copy == [File -> 0 .. MaxEdits \cup {Gone, Partial}]
Empty == [f \in File |-> Gone]
Steps ==
    {"idle", "walk", "hash", "probe", "orphan", "begin", "transfer", "verify", "rename", "write"}
Ends == {"none", "synced", "failed", "refused", "stopped", "killed"}
Runs == [pc : Steps, todo : SUBSET File, listed : Tree, local : Tree,
         stop : BOOLEAN, moved : BOOLEAN]
\* Nothing runs. What the last run knew matters no more, but for its fingerprint.
Idle(local) == [pc |-> "idle", todo |-> {}, listed |-> Empty, local |-> local,
                stop |-> FALSE, moved |-> FALSE]

TypeOK ==
    /\ source \in Tree /\ edits \in 0 .. MaxEdits /\ seen \subseteq Tree
    /\ cache \in [listing : Tree, files : Tree] \cup {NoManifest}
    /\ run \in Runs
    /\ outcome \in Ends
    /\ incoming \in Copy \cup {NoTree} /\ final \in Copy \cup {NoTree}
    /\ manifest \in Tree \cup {NoManifest} /\ lateWrite \in Tree \cup {NoManifest}
    /\ lateRename \in 0 .. MaxFaults /\ faults \in 0 .. MaxFaults

Init ==
    /\ source = [f \in File |-> IF f \in Created THEN Gone ELSE 0] /\ edits = 0 /\ seen = {source}
    /\ cache = NoManifest /\ run = Idle(Empty) /\ outcome = "none"
    /\ incoming = NoTree /\ final = NoTree
    /\ manifest = NoManifest /\ lateRename = 0 /\ lateWrite = NoManifest
    /\ faults = 0

-------------------------------------------------------------------------------
At(pc) == run.pc = pc
Goto(pc) == run' = [run EXCEPT !.pc = pc]
HereSame == UNCHANGED <<source, edits, seen>>
HostSame == UNCHANGED host
Fault == faults < MaxFaults /\ faults' = faults + 1

\* main: a stopped run that was not done by then exits 143.
End(how) ==
    /\ run' = Idle(run.local)
    /\ outcome' = IF run.stop /\ how \notin {"synced", "killed"} THEN "stopped" ELSE how

\* Somebody writes, creates or removes a file of the dataset.
Edit(f) ==
    /\ edits < MaxEdits /\ edits' = edits + 1
    /\ \/ (source[f] # Gone \/ f \in Created) /\ source' = [source EXCEPT ![f] = edits + 1]
       \/ source[f] # Gone /\ f \in Removed /\ source' = [source EXCEPT ![f] = Gone]
    /\ seen' = seen \cup {source'}
    /\ UNCHANGED <<cache, run, outcome, host, faults>>

\* Slip: a cached manifest is used whatever the dataset has become.
CacheUnchecked == cache # NoManifest

\* The listing a cached manifest is for is still the dataset's.
CacheValid == cache # NoManifest /\ cache.listing = source

\* A run starts: ready_root, then the cached manifest or the listing to hash for.
Start ==
    /\ At("idle")
    /\ IF source[Meta] = Gone
       THEN run' = run /\ outcome' = "refused"
       ELSE /\ outcome' = "none"
            /\ run' = IF CacheValid
                      THEN [Idle(cache.files) EXCEPT !.pc = "probe"]
                      ELSE [Idle(Empty) EXCEPT !.pc = "walk", !.listed = source]
    /\ HereSame /\ HostSame /\ UNCHANGED <<cache, faults>>

\* manifest(): the walk finds the files to read.
Walk ==
    /\ At("walk") /\ ~run.stop
    /\ run' = [run EXCEPT !.pc = "hash", !.todo = {f \in File : source[f] # Gone}]
    /\ HereSame /\ HostSame /\ UNCHANGED <<cache, outcome, faults>>

\* One of them is read, or is gone by now: OSError.
HashFile(f) ==
    /\ At("hash") /\ f \in run.todo /\ ~run.stop
    /\ IF source[f] = Gone THEN End("failed")
       ELSE run' = [run EXCEPT !.todo = @ \ {f}, !.local[f] = source[f]] /\ UNCHANGED outcome
    /\ HereSame /\ HostSame /\ UNCHANGED <<cache, faults>>

\* The result is cached if the listing is what it was; it is used either way.
Hashed ==
    /\ At("hash") /\ run.todo = {} /\ Goto("probe")
    /\ cache' = IF source = run.listed THEN [listing |-> run.listed, files |-> run.local] ELSE cache
    /\ HereSame /\ HostSame /\ UNCHANGED <<outcome, faults>>

\* probe: a manifest settles it; a directory without one is looked at.
Probe ==
    /\ At("probe")
    /\ IF manifest # NoManifest THEN End(IF manifest = run.local THEN "synced" ELSE "refused")
       ELSE Goto(IF final # NoTree THEN "orphan" ELSE "begin") /\ UNCHANGED outcome
    /\ HereSame /\ HostSame /\ UNCHANGED <<cache, faults>>

\* Slip: what is in place is given its own manifest.
OrphanAdopted ==
    /\ At("orphan") /\ run' = [run EXCEPT !.pc = "write", !.local = final]
    /\ HereSame /\ HostSame /\ UNCHANGED <<cache, outcome, faults>>

\* Hash what is in place; it is the copy, or somebody must look at it.
Orphan ==
    /\ At("orphan")
    /\ IF final = run.local THEN Goto("write") /\ UNCHANGED outcome ELSE End("refused")
    /\ HereSame /\ HostSame /\ UNCHANGED <<cache, faults>>

\* makedirs and the start of the transfer: rsync goes on from what is there, tar
\* removes it first.
Begin ==
    /\ At("begin") /\ ~run.stop
    /\ incoming' \in IF incoming = NoTree THEN {Empty} ELSE {incoming, Empty}
    /\ run' = [run EXCEPT !.pc = "transfer", !.todo = File, !.moved = FALSE]
    /\ HereSame /\ UNCHANGED <<cache, outcome, final, manifest, lateRename, lateWrite, faults>>

\* The directory the receiver writes into keeps it when it is moved.
Target == IF run.moved THEN final ELSE incoming
Receives(t) ==
    IF run.moved THEN final' = t /\ UNCHANGED incoming ELSE incoming' = t /\ UNCHANGED final

\* Slip: without --delete.
CopyFileKeeping(f) ==
    /\ At("transfer") /\ f \in run.todo /\ ~run.stop
    /\ Receives(IF source[f] = Gone THEN Target ELSE [Target EXCEPT ![f] = source[f]])
    /\ run' = [run EXCEPT !.todo = @ \ {f}]
    /\ HereSame /\ UNCHANGED <<cache, outcome, manifest, lateRename, lateWrite, faults>>

\* One file is made what it is here; --delete if it is not here.
CopyFile(f) ==
    /\ At("transfer") /\ f \in run.todo /\ ~run.stop
    /\ Receives([Target EXCEPT ![f] = source[f]])
    /\ run' = [run EXCEPT !.todo = @ \ {f}]
    /\ HereSame /\ UNCHANGED <<cache, outcome, manifest, lateRename, lateWrite, faults>>

Transferred ==
    /\ At("transfer") /\ run.todo = {}
    /\ run' = [run EXCEPT !.pc = "verify", !.moved = FALSE]
    /\ HereSame /\ HostSame /\ UNCHANGED <<cache, outcome, faults>>

\* Slip: the transfer's own success is taken for the check.
VerifyNothing ==
    /\ At("verify") /\ ~run.stop
    /\ IF incoming = NoTree THEN End("failed") ELSE Goto("rename") /\ UNCHANGED outcome
    /\ HereSame /\ HostSame /\ UNCHANGED <<cache, faults>>

\* Slip: the copy is given the hash the host found.
VerifyAdopted ==
    /\ At("verify") /\ ~run.stop
    /\ IF incoming = NoTree THEN End("failed")
       ELSE run' = [run EXCEPT !.pc = "rename", !.local = incoming] /\ UNCHANGED outcome
    /\ HereSame /\ HostSame /\ UNCHANGED <<cache, faults>>

\* The hash of the copy must be the hash taken before the transfer.
Verify ==
    /\ At("verify") /\ ~run.stop
    /\ IF incoming = run.local THEN Goto("rename") /\ UNCHANGED outcome ELSE End("failed")
    /\ HereSame /\ HostSame /\ UNCHANGED <<cache, faults>>

\* Slip: mv without the test; what is in place is replaced.
MovesReplacing ==
    IF incoming # NoTree THEN final' = incoming /\ incoming' = NoTree
    ELSE UNCHANGED <<incoming, final>>

\* The host's side of rename: an existing destination is refused.
Moves ==
    IF final = NoTree /\ incoming # NoTree THEN final' = incoming /\ incoming' = NoTree
    ELSE UNCHANGED <<incoming, final>>

Rename ==
    /\ At("rename") /\ Moves
    /\ IF final = NoTree /\ incoming # NoTree THEN Goto("write") /\ UNCHANGED outcome ELSE End("failed")
    /\ HereSame /\ UNCHANGED <<cache, manifest, lateRename, lateWrite, faults>>

\* info.json is read for the record, then the manifest is written: SYNCED, exit 0.
Write ==
    /\ At("write")
    /\ IF source[Meta] = Gone THEN End("failed") /\ UNCHANGED manifest
       ELSE End("synced") /\ manifest' = run.local
    /\ HereSame /\ UNCHANGED <<cache, incoming, final, lateRename, lateWrite, faults>>

-------------------------------------------------------------------------------
\* A transfer stopped between two files or in the middle of one.
Torn == {Target} \cup {[Target EXCEPT ![f] = Partial] : f \in run.todo}

\* What a step cut short may have done on the host: a copy torn in the middle of a
\* file, a command carried out, not carried out, or carried out later.
CutShort ==
    CASE At("transfer") ->
            /\ \E t \in Torn : Receives(t)
            /\ UNCHANGED <<manifest, lateRename, lateWrite>>
      [] At("rename") ->
            /\ \/ Moves /\ UNCHANGED lateRename
               \/ UNCHANGED <<incoming, final>> /\ lateRename' \in {lateRename, lateRename + 1}
            /\ UNCHANGED <<manifest, lateWrite>>
      [] At("write") /\ source[Meta] # Gone ->
            /\ \/ manifest' = run.local /\ UNCHANGED lateWrite
               \/ UNCHANGED manifest /\ lateWrite' \in {lateWrite, run.local}
            /\ UNCHANGED <<incoming, final, lateRename>>
      [] OTHER -> HostSame

\* RemoteError: the host cannot be reached or gives no answer in time.
RemoteFails ==
    /\ Fault /\ run.pc \in {"probe", "orphan", "begin", "transfer", "verify", "rename", "write"}
    /\ CutShort /\ End("failed")
    /\ HereSame /\ UNCHANGED cache

\* The process is killed (the runner's stop after its grace, power).
Killed ==
    /\ Fault /\ ~At("idle")
    /\ CutShort /\ End("killed")
    /\ HereSame /\ UNCHANGED cache

\* SIGTERM: the handler sets the flag, which only hash, transfer and verify look at.
Signal ==
    /\ Fault /\ ~At("idle") /\ ~run.stop
    /\ run' = [run EXCEPT !.stop = TRUE]
    /\ HereSame /\ HostSame /\ UNCHANGED <<cache, outcome>>

\* TransferStopped.
StopSeen ==
    /\ run.stop /\ run.pc \in {"walk", "hash", "begin", "transfer", "verify"}
    /\ CutShort /\ End("stopped")
    /\ HereSame /\ UNCHANGED <<cache, faults>>

\* The host carries out a command whose sender has given up.
LateRename ==
    /\ lateRename > 0 /\ lateRename' = lateRename - 1 /\ Moves
    /\ run' = [run EXCEPT !.moved = @ \/ (At("transfer") /\ incoming # incoming')]
    /\ HereSame /\ UNCHANGED <<cache, outcome, manifest, lateWrite, faults>>
LateWrite ==
    /\ lateWrite # NoManifest /\ lateWrite' = NoManifest /\ manifest' = lateWrite
    /\ HereSame /\ UNCHANGED <<cache, run, outcome, incoming, final, lateRename, faults>>

RunStep ==
    \/ \E f \in File : HashFile(f) \/ CopyFile(f)
    \/ Walk \/ Hashed \/ Probe \/ Orphan \/ Begin
    \/ Transferred \/ Verify \/ Rename \/ Write \/ StopSeen

Next ==
    \/ \E f \in File : Edit(f)
    \/ Start
    \/ Walk
    \/ \E f \in File : HashFile(f)
    \/ Hashed
    \/ Probe
    \/ Orphan
    \/ Begin
    \/ \E f \in File : CopyFile(f)
    \/ Transferred
    \/ Verify
    \/ Rename
    \/ Write
    \/ RemoteFails
    \/ Killed
    \/ Signal
    \/ StopSeen
    \/ LateRename
    \/ LateWrite

Spec == Init /\ [][Next]_vars

\* A run goes on, and the user runs it again after every end.
FairSpec == Spec /\ WF_vars(RunStep) /\ WF_vars(Start)

-------------------------------------------------------------------------------
\* A manifest on the host is true of the directory beside it, and a run that says
\* SYNCED has published exactly what it hashed: through lost answers, late
\* commands, kills and stops (dataset_sync.py steps 4 and 5).
SyncedIsTrue ==
    /\ manifest # NoManifest => final = manifest
    /\ outcome = "synced" => manifest = run.local

\* What is published was the dataset at one moment: the hash before and the copy
\* after let no mixture of two edits through, whoever edits it meanwhile. (As long
\* as no file appears and is removed again, Created and Removed being disjoint.)
PublishedIsSnapshot == manifest # NoManifest => manifest \in seen

\* "Datasets on the host are immutable" (dataset_sync.py:11): once published,
\* neither the directory nor its manifest changes again.
PublishedStays == [][manifest # NoManifest => UNCHANGED <<final, manifest>>]_vars

\* What the Datasets page calls synced (remote_state: a valid cached fingerprint
\* equal to the host's) is the dataset as it is on both machines now.
PageIsTrue == CacheValid /\ cache.files = manifest => final = source

\* dataset_manifest.py:103, "changed while hashing: the result is not for `key`":
\* a cached manifest is the one of the dataset whose listing it is kept under.
CacheIsTrue == CacheValid => cache.files = source

\* Run often enough, a sync ends with the dataset published, whatever earlier runs
\* left behind: unless it cannot be sent or another copy has the name.
RetriesSettle ==
    <>[](manifest # NoManifest \/ source[Meta] = Gone \/ final \notin {NoTree, source})
===============================================================================
