----------------------------- MODULE Federation -----------------------------
(***************************************************************************)
(* scripts/federation/export.mjs and import.mjs, and what backup and       *)
(* restore of either instance (scripts/instance/) do to the chain.         *)
(*                                                                         *)
(* The source's public dataset changes; an exporter signs its content and  *)
(* the change since the last export, which it remembers in a file of its   *)
(* own.  Only the operators' "--service-stopped" keeps these tools apart:  *)
(* each may be cut off at any step and started again, beside another.      *)
(***************************************************************************)
EXTENDS Snapshots, FiniteSets

CONSTANTS Exporter,   \* runs of export.mjs
          MaxCopies   \* bound: copies of the instances

VARIABLES
  data,            \* the source: its contributions
  clock,           \* the stamps given so far
  exportState,     \* the source: federation/export-state.json
  job,             \* the exporters
  sourceCopies,    \* backups of the source
  receiverCopies,  \* backups of the receiver, and states its server has read
  disturbed        \* history: an export was cut off, overtaken or undone

sourceVars == <<data, clock, exportState, job, disturbed>>
copyVars   == <<sourceCopies, receiverCopies>>
vars       == <<chainVars, sourceVars, copyVars>>

\* stamp: of the release, 0 when it is not in publicDataset().
Contribution == [version : 0..MaxVersion, stamp : 0..MaxStamp]
ExportState  == [root : 0..MaxSnap, rows : Rows]
SourceCopy   == [data : [Rec -> Contribution], exportState : ExportState]
ReceiverCopy == [evidence : [Rec -> Evidence], tracker : 0..MaxSnap]

NoSnap == [prev |-> 0, rows |-> NoRows, upserts |-> {}, tombstones |-> {}]
NoJob  == [pc |-> "idle", snap |-> NoSnap, name |-> 0]

TypeOK ==
  /\ ChainTypeOK
  /\ data \in [Rec -> Contribution]
  /\ clock \in 0..MaxStamp
  /\ exportState \in ExportState
  /\ job \in [Exporter -> [pc : {"idle", "publish", "save"}, snap : Snapshot, name : 0..MaxSnap]]
  /\ \A c \in sourceCopies : c \in SourceCopy
  /\ \A c \in receiverCopies : c \in ReceiverCopy
  /\ disturbed \in BOOLEAN

Init ==
  /\ ChainInit
  /\ data = [r \in Rec |-> [version |-> 0, stamp |-> 0]]
  /\ clock = 0
  /\ exportState = [root |-> 0, rows |-> NoRows]
  /\ job = [e \in Exporter |-> NoJob]
  /\ sourceCopies = {} /\ receiverCopies = {}
  /\ disturbed = FALSE

-----------------------------------------------------------------------------
(* The source's dataset (EvidenceLifecycle has the details) *)

\* addContribution(), updateContribution(): a new version, off the dataset
\* until it has been reviewed and released.
Edit(r) ==
  /\ data[r].version < MaxVersion
  /\ data' = [data EXCEPT ![r] = [version |-> @.version + 1, stamp |-> 0]]
  /\ UNCHANGED <<chainVars, clock, exportState, job, disturbed, copyVars>>

\* approveExport(), of a contribution that was released before as well.
Release(r) ==
  /\ data[r].version > 0
  /\ clock < MaxStamp
  /\ clock' = clock + 1
  /\ data' = [data EXCEPT ![r] = [version |-> @.version, stamp |-> clock']]
  /\ UNCHANGED <<chainVars, exportState, job, disturbed, copyVars>>

\* flagContribution(), reviewContribution(), withdrawContribution().
Recall(r) ==
  /\ data[r].stamp # 0
  /\ data' = [data EXCEPT ![r] = [version |-> @.version, stamp |-> 0]]
  /\ UNCHANGED <<chainVars, clock, exportState, job, disturbed, copyVars>>

\* sourceRow() of every row of publicDataset().
Dataset == [r \in Rec |-> IF data[r].stamp # 0 THEN <<data[r].version, data[r].stamp>> ELSE NoRow]

-----------------------------------------------------------------------------
(* exportFederationSnapshot() *)

\* Both files are read and the snapshot is signed and verified.
ExportRead(e) ==
  /\ job[e].pc = "idle"
  /\ Len(snaps) < MaxSnap
  /\ LET snap == Built(Dataset, exportState)
     IN  /\ Verified(snap)
         /\ job' = [job EXCEPT ![e] = [pc |-> "publish", snap |-> snap, name |-> 0]]
  /\ UNCHANGED <<chainVars, data, clock, exportState, disturbed, copyVars>>

\* Another exporter has written since e read, or is about to write.
Overtaken(e) == exportState.root # job[e].snap.prev \/ \E f \in Exporter \ {e} : job[f].pc = "save"

\* latest.snapshot.json is replaced ...
ExportPublish(e) ==
  /\ job[e].pc = "publish"
  /\ Len(snaps) < MaxSnap
  /\ snaps' = Append(snaps, job[e].snap)
  /\ job' = [job EXCEPT ![e] = [pc |-> "save", snap |-> NoSnap, name |-> Len(snaps) + 1]]
  /\ disturbed' = (disturbed \/ Overtaken(e))
  /\ UNCHANGED <<evidence, tracker, data, clock, exportState, copyVars>>

\* Mutant of ExportSave: the root of the previous export is kept.
ExportSaveKeepsRoot(e) ==
  /\ job[e].pc = "save"
  /\ exportState' = [root |-> exportState.root, rows |-> RowsOf(job[e].name)]
  /\ job' = [job EXCEPT ![e] = NoJob]
  /\ UNCHANGED <<chainVars, data, clock, disturbed, copyVars>>

\* ... and then export-state.json.
ExportSave(e) ==
  /\ job[e].pc = "save"
  /\ exportState' = [root |-> job[e].name, rows |-> RowsOf(job[e].name)]
  /\ job' = [job EXCEPT ![e] = NoJob]
  /\ UNCHANGED <<chainVars, data, clock, disturbed, copyVars>>

\* The exporter ends before its next write.
ExportDie(e) ==
  /\ job[e].pc # "idle"
  /\ job' = [job EXCEPT ![e] = NoJob]
  /\ disturbed' = (disturbed \/ job[e].pc = "save")
  /\ UNCHANGED <<chainVars, data, clock, exportState, copyVars>>

\* importFederationSnapshot() of any snapshot file the operator has got.  A
\* refused one, and one that is applied already, changes nothing.
Import(s) == Apply(s) /\ UNCHANGED <<sourceVars, copyVars>>

-----------------------------------------------------------------------------
(* Copies of an instance *)

Spare == Cardinality(sourceCopies) + Cardinality(receiverCopies) < MaxCopies

\* backupInstance() of the source.
BackupSource ==
  /\ Spare
  /\ sourceCopies' = sourceCopies \union {[data |-> data, exportState |-> exportState]}
  /\ UNCHANGED <<chainVars, sourceVars, receiverCopies>>

\* restoreInstance() into an empty directory.
RestoreSource(c) ==
  /\ \A e \in Exporter : job[e].pc = "idle"
  /\ data' = c.data /\ exportState' = c.exportState
  /\ disturbed' = TRUE
  /\ UNCHANGED <<chainVars, clock, job, copyVars>>

\* backupInstance() of the receiver; or its server has read the file
\* (createRuntime) and goes on although it should be stopped.
CopyReceiver ==
  /\ Spare
  /\ receiverCopies' = receiverCopies \union {[evidence |-> evidence, tracker |-> tracker]}
  /\ UNCHANGED <<chainVars, sourceVars, sourceCopies>>

\* restoreInstance() of the receiver, or a transaction of the running server
\* writes the state it holds over the file that was imported into: records and
\* tracker are one file and go back together.
PutBackReceiver(c) ==
  /\ evidence' = c.evidence /\ tracker' = c.tracker
  /\ UNCHANGED <<snaps, sourceVars, copyVars>>

-----------------------------------------------------------------------------
Next ==
  \/ \E r \in Rec : Edit(r) \/ Release(r) \/ Recall(r)
  \/ \E e \in Exporter : ExportRead(e) \/ ExportPublish(e) \/ ExportSave(e) \/ ExportDie(e)
  \/ \E s \in Names : Import(s)
  \/ BackupSource \/ CopyReceiver
  \/ \E c \in sourceCopies : RestoreSource(c)
  \/ \E c \in receiverCopies : PutBackReceiver(c)

Spec == Init /\ [][Next]_vars

\* The receiver's records are those of a chain reader: only continuing
\* snapshots advance it, and a copy puts it back to where it has been.
Feed == INSTANCE EvidenceFeed WITH
          Nothing <- NoRows, feed <- snaps, position <- tracker, shown <- Shown,
          kept <- {c.tracker : c \in receiverCopies}
ImplementsFeed == Feed!FeedSpec

\* The source's data set moves as EvidenceLifecycle says it does, where the number
\* of a version stands for its text and the stamp for the rest of the row; only a
\* backup that is restored takes it back (restoreInstance).
Source == INSTANCE SourceDataset WITH
            Record <- Rec, listed <- {r \in Rec : data[r].stamp # 0},
            version <- [r \in Rec |-> data[r].version],
            text <- [r \in Rec |-> data[r].version],
            verdict <- [r \in Rec |-> data[r].stamp]
SourceIsADataset ==
  /\ Source!DatasetInit
  /\ [][Source!DatasetNext \/ \E c \in sourceCopies : RestoreSource(c)]_(Source!datasetVars)

\* A crashed, late, doubled or restored exporter never adds anything but a whole
\* content with its changes since a snapshot that was signed before, which is all
\* that PeerPull takes from here (exportFederationSnapshot).
OnlySignedSnapshots ==
  [][snaps' = snaps \/ \E prev \in 0..Len(snaps), rows \in Rows : Signed(prev, rows)]_vars

\* Whatever is imported in whatever order, a record never goes back to an older
\* version and a version never changes its content, not even after a tombstone;
\* only an older copy of the whole file undoes an import.
VersionsNeverGoBack ==
  [][\/ \A r \in Rec : evidence[r].status # "ABSENT" => NoConflict(evidence[r].row, evidence'[r].row)
     \/ \E c \in receiverCopies : PutBackReceiver(c)]_vars

\* Snapshots form one line, each continuing the one before, as long as no
\* export ends between its two writes, runs beside another or is undone by a
\* restore (exportFederationSnapshot).
ForksOnlyIfDisturbed == ~disturbed => \A s \in Names : snaps[s].prev = s - 1
=============================================================================
