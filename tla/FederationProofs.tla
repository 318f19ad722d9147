-------------------------- MODULE FederationProofs --------------------------
(***************************************************************************)
(* Proofs about Federation, for every set of records and of exporters and  *)
(* every bound.                                                            *)
(***************************************************************************)
EXTENDS Federation, SnapshotsProofs

\* An export state holds the rows of the snapshot it names, the live one and
\* the ones in backups.
Remembers(state) == state.root \in 0..Len(snaps) /\ state.rows = RowsOf(state.root)

\* A copy of the receiver shows the snapshot that its tracker names.
CopyShows(c) ==
  /\ c.tracker \in 0..Len(snaps)
  /\ [r \in Rec |-> IF c.evidence[r].status = "CURRENT" THEN c.evidence[r].record ELSE NoRow]
       = RowsOf(c.tracker)
  /\ RowIsText(c.evidence)

CopyInv ==
  /\ Remembers(exportState)
  /\ \A c \in sourceCopies : Remembers(c.exportState)
  /\ \A c \in receiverCopies : CopyShows(c)

JobInv ==
  \A e \in Exporter : /\ job[e].pc = "publish" => Continuation(job[e].snap)
                      /\ job[e].pc = "save" => job[e].name \in Names

\* Without a disturbance one exporter at most is between its writes, and the
\* newest snapshot is the one it has published or the one the state names.
LineInv ==
  ~disturbed =>
    \/ exportState.root = Len(snaps) /\ \A e \in Exporter : job[e].pc # "save"
    \/ \E e \in Exporter : /\ job[e].pc = "save" /\ job[e].name = Len(snaps)
                           /\ \A f \in Exporter \ {e} : job[f].pc # "save"

IInv ==
  /\ TypeOK /\ ShowsItsSnapshot /\ DeltaRebuilds /\ ForksOnlyIfDisturbed
  /\ CopyInv /\ JobInv /\ LineInv

LEMMA NoJobType ==
  NoJob \in [pc : {"idle", "publish", "save"}, snap : Snapshot, name : 0..MaxSnap]
  <1>1. NoSnap \in Snapshot
    BY RowFacts, SnapshotAssumption DEF NoSnap, Snapshot
  <1>. QED
    BY <1>1, SnapshotAssumption DEF NoJob

LEMMA InitIInv == Init => IInv
  <1> SUFFICES ASSUME Init PROVE IInv
    OBVIOUS
  <1>0. /\ snaps = << >> /\ Len(snaps) = 0 /\ tracker = 0
        /\ exportState = [root |-> 0, rows |-> NoRows]
        /\ evidence = [r \in Rec |-> [status |-> "ABSENT", row |-> NoRow, record |-> NoRow]]
    BY DEF Init, ChainInit
  <1>1. TypeOK
    <2>1. << >> \in Seq(Snapshot) /\ exportState \in ExportState
      BY <1>0, RowFacts, SnapshotAssumption DEF ExportState
    <2>2. evidence \in [Rec -> Evidence]
      BY <1>0, RowFacts DEF Evidence
    <2>3. ChainTypeOK
      BY <1>0, <2>1, <2>2, SnapshotAssumption DEF ChainTypeOK
    <2>4. /\ data = [r \in Rec |-> [version |-> 0, stamp |-> 0]] /\ clock = 0
          /\ job = [e \in Exporter |-> NoJob] /\ disturbed = FALSE
          /\ sourceCopies = {} /\ receiverCopies = {}
      BY DEF Init
    <2>5. data \in [Rec -> Contribution]
      BY <2>4, SnapshotAssumption DEF Contribution
    <2>6. job \in [Exporter -> [pc : {"idle", "publish", "save"}, snap : Snapshot, name : 0..MaxSnap]]
      BY <2>4, NoJobType
    <2>7. disturbed \in BOOLEAN
      BY <2>4, Zenon
    <2>8. /\ clock \in 0..MaxStamp
          /\ \A c \in sourceCopies : c \in SourceCopy
          /\ \A c \in receiverCopies : c \in ReceiverCopy
      BY <2>4, SnapshotAssumption, SMT
    <2>. QED
      BY <2>1, <2>3, <2>5, <2>6, <2>7, <2>8 DEF TypeOK
  <1>2. ShowsItsSnapshot
    BY <1>0 DEF ShowsItsSnapshot, Shown, RowIsText, RowsOf, NoRows
  <1>3. DeltaRebuilds /\ ForksOnlyIfDisturbed
    BY <1>0 DEF DeltaRebuilds, ForksOnlyIfDisturbed, Names
  <1>4. CopyInv
    BY <1>0 DEF Init, CopyInv, Remembers, RowsOf
  <1>5. JobInv /\ LineInv
    BY <1>0 DEF Init, JobInv, LineInv, NoJob
  <1>. QED
    BY <1>1, <1>2, <1>3, <1>4, <1>5 DEF IInv

-----------------------------------------------------------------------------
(* Types *)

LEMMA DatasetRows == ASSUME TypeOK PROVE Dataset \in Rows
  BY RowFacts DEF TypeOK, Contribution, Dataset, Row, Rows

LEMMA ClockType ==
  ASSUME TypeOK, clock < MaxStamp
  PROVE  clock + 1 \in 0..MaxStamp
  BY SnapshotAssumption DEF TypeOK

LEMMA StepType ==
  ASSUME IInv, Next
  PROVE  TypeOK'
  <1>0. TypeOK /\ ChainTypeOK /\ Len(snaps) \in Nat
    BY LenProperties DEF IInv, TypeOK, ChainTypeOK
  <1>1. ASSUME NEW r \in Rec, Edit(r) PROVE TypeOK'
    <2>1. [version |-> data[r].version + 1, stamp |-> 0] \in Contribution
      BY <1>0, <1>1, SnapshotAssumption DEF Edit, TypeOK, Contribution
    <2>. QED
      BY <1>0, <1>1, <2>1 DEF Edit, TypeOK, ChainTypeOK, chainVars, copyVars
  <1>2. ASSUME NEW r \in Rec, Release(r) PROVE TypeOK'
    <2>1. clock' \in 0..MaxStamp
      BY <1>0, <1>2, ClockType DEF Release
    <2>2. data' \in [Rec -> Contribution]
      BY <1>0, <1>2, <2>1 DEF Release, TypeOK, Contribution
    <2>. QED
      BY <1>0, <1>2, <2>1, <2>2 DEF Release, TypeOK, ChainTypeOK, chainVars, copyVars
  <1>3. ASSUME NEW r \in Rec, Recall(r) PROVE TypeOK'
    <2>1. data' \in [Rec -> Contribution]
      BY <1>0, <1>3, SnapshotAssumption DEF Recall, TypeOK, Contribution
    <2>. QED
      BY <1>0, <1>3, <2>1 DEF Recall, TypeOK, ChainTypeOK, chainVars, copyVars
  <1>4. ASSUME NEW e \in Exporter, ExportRead(e) PROVE TypeOK'
    <2>. DEFINE snap == Built(Dataset, exportState)
    <2>1. exportState = [root |-> exportState.root, rows |-> RowsOf(exportState.root)]
      BY <1>0 DEF IInv, CopyInv, Remembers, TypeOK, ExportState
    <2>2. snap \in Snapshot
      BY <1>0, <2>1, BuiltIsContinuation, DatasetRows DEF IInv, CopyInv, Remembers, Continuation
    <2>3. job' = [job EXCEPT ![e] = [pc |-> "publish", snap |-> snap, name |-> 0]]
      BY <1>4 DEF ExportRead
    <2>. HIDE DEF snap
    <2>4. job' \in [Exporter -> [pc : {"idle", "publish", "save"}, snap : Snapshot, name : 0..MaxSnap]]
      BY <1>0, <2>2, <2>3, SnapshotAssumption DEF TypeOK
    <2>. QED
      BY <1>0, <1>4, <2>4 DEF ExportRead, TypeOK, ChainTypeOK, chainVars, copyVars
  <1>5. ASSUME NEW e \in Exporter, ExportPublish(e) PROVE TypeOK'
    <2>1. Continuation(job[e].snap)
      BY <1>5 DEF ExportPublish, IInv, JobInv
    <2>2. snaps' \in Seq(Snapshot) /\ Len(snaps') = Len(snaps) + 1
      BY <1>0, <1>5, <2>1, AppendSnapshot DEF ExportPublish
    <2>3. Len(snaps') <= MaxSnap /\ Len(snaps) + 1 \in 0..MaxSnap
      BY <1>0, <1>5, <2>2, SnapshotAssumption DEF ExportPublish
    <2>4. NoSnap \in Snapshot
      BY RowFacts, SnapshotAssumption DEF NoSnap, Snapshot
    <2>5. job' \in [Exporter -> [pc : {"idle", "publish", "save"}, snap : Snapshot, name : 0..MaxSnap]]
      BY <1>0, <1>5, <2>3, <2>4 DEF ExportPublish, TypeOK
    <2>6. disturbed' \in BOOLEAN
      BY <1>0, <1>5, Zenon DEF ExportPublish, TypeOK
    <2>. QED
      BY <1>0, <1>5, <2>2, <2>3, <2>5, <2>6 DEF ExportPublish, TypeOK, ChainTypeOK, chainVars, copyVars
  <1>6. ASSUME NEW e \in Exporter, ExportSave(e) PROVE TypeOK'
    <2>1. job[e].name \in 0..Len(snaps)
      BY <1>0, <1>6 DEF ExportSave, IInv, JobInv, Names
    <2>2. exportState' \in ExportState
      BY <1>0, <1>6, <2>1, RowsOfType DEF ExportSave, ExportState
    <2>. QED
      BY <1>0, <1>6, <2>2, NoJobType DEF ExportSave, TypeOK, ChainTypeOK, chainVars, copyVars
  <1>7. ASSUME NEW e \in Exporter, ExportDie(e) PROVE TypeOK'
    <2>1. disturbed' \in BOOLEAN
      BY <1>0, <1>7, Zenon DEF ExportDie, TypeOK
    <2>. QED
      BY <1>0, <1>7, <2>1, NoJobType DEF ExportDie, TypeOK, ChainTypeOK, chainVars, copyVars
  <1>8. ASSUME NEW s \in Names, Import(s) PROVE TypeOK'
    <2>1. ChainTypeOK'
      BY <1>0, <1>8, ApplyShows DEF Import, IInv, ShowsItsSnapshot
    <2>. QED
      BY <1>0, <1>8, <2>1 DEF Import, TypeOK, sourceVars, copyVars
  <1>9. CASE BackupSource
    <2>1. [data |-> data, exportState |-> exportState] \in SourceCopy
      BY <1>0 DEF TypeOK, SourceCopy
    <2>. QED
      BY <1>0, <1>9, <2>1 DEF BackupSource, TypeOK, ChainTypeOK, chainVars, sourceVars
  <1>10. CASE CopyReceiver
    <2>1. [evidence |-> evidence, tracker |-> tracker] \in ReceiverCopy
      BY <1>0 DEF TypeOK, ChainTypeOK, ReceiverCopy
    <2>. QED
      BY <1>0, <1>10, <2>1 DEF CopyReceiver, TypeOK, ChainTypeOK, chainVars, sourceVars
  <1>11. ASSUME NEW c \in sourceCopies, RestoreSource(c) PROVE TypeOK'
    <2>1. c \in SourceCopy
      BY <1>0 DEF TypeOK
    <2>. QED
      BY <1>0, <1>11, <2>1 DEF RestoreSource, TypeOK, SourceCopy, ChainTypeOK, chainVars, copyVars
  <1>12. ASSUME NEW c \in receiverCopies, PutBackReceiver(c) PROVE TypeOK'
    <2>1. c \in ReceiverCopy
      BY <1>0 DEF TypeOK
    <2>. QED
      BY <1>0, <1>12, <2>1 DEF PutBackReceiver, TypeOK, ReceiverCopy, ChainTypeOK, sourceVars, copyVars
  <1>. QED
    BY <1>1, <1>2, <1>3, <1>4, <1>5, <1>6, <1>7, <1>8, <1>9, <1>10, <1>11, <1>12 DEF Next

-----------------------------------------------------------------------------
(* What the receiver shows and what is signed *)

LEMMA ShownKept ==
  ASSUME IInv, UNCHANGED <<evidence, tracker>>,
         Len(snaps') = Len(snaps) \/ Len(snaps') = Len(snaps) + 1,
         \A s \in 0..Len(snaps) : RowsOf(s)' = RowsOf(s)
  PROVE  ShowsItsSnapshot'
  <1>1. ShowsItsSnapshot /\ Len(snaps) \in Nat
    BY LenProperties DEF IInv, TypeOK, ChainTypeOK
  <1>2. tracker \in 0..Len(snaps) /\ tracker' = tracker /\ Shown' = Shown
    BY <1>1 DEF ShowsItsSnapshot, Shown
  <1>3. RowsOf(tracker)' = RowsOf(tracker)
    BY <1>2
  <1>. QED
    BY <1>1, <1>2, <1>3 DEF ShowsItsSnapshot

LEMMA CopiesKept ==
  ASSUME IInv, UNCHANGED <<sourceCopies, receiverCopies>>,
         Len(snaps') = Len(snaps) \/ Len(snaps') = Len(snaps) + 1,
         \A s \in 0..Len(snaps) : RowsOf(s)' = RowsOf(s)
  PROVE  /\ \A c \in sourceCopies' : Remembers(c.exportState)'
         /\ \A c \in receiverCopies' : CopyShows(c)'
         /\ exportState' = exportState => Remembers(exportState)'
  <1>0. CopyInv /\ Len(snaps) \in Nat
    BY LenProperties DEF IInv, TypeOK, ChainTypeOK
  <1>1. ASSUME NEW c \in sourceCopies PROVE Remembers(c.exportState)'
    BY <1>0, <1>1 DEF CopyInv, Remembers
  <1>2. ASSUME NEW c \in receiverCopies PROVE CopyShows(c)'
    BY <1>0, <1>2 DEF CopyInv, CopyShows
  <1>3. ASSUME exportState' = exportState PROVE Remembers(exportState)'
    BY <1>0, <1>3 DEF CopyInv, Remembers
  <1>. QED
    BY <1>1, <1>2, <1>3

\* A snapshot of the line stays one when another is appended.
LEMMA ContinuationKept ==
  ASSUME ChainTypeOK, NEW snap, Continuation(snap),
         Len(snaps') = Len(snaps) \/ Len(snaps') = Len(snaps) + 1,
         \A s \in 0..Len(snaps) : RowsOf(s)' = RowsOf(s)
  PROVE  Continuation(snap)'
  <1>1. Len(snaps) \in Nat
    BY LenProperties DEF ChainTypeOK
  <1>. QED
    BY <1>1 DEF Continuation, Verified

\* Snapshots are only ever added, one at a time, with a delta that is right.
LEMMA StepSnaps ==
  ASSUME IInv, Next
  PROVE  /\ \/ UNCHANGED snaps
            \/ \E e \in Exporter : ExportPublish(e) /\ snaps' = Append(snaps, job[e].snap)
         /\ Len(snaps') = Len(snaps) \/ Len(snaps') = Len(snaps) + 1
         /\ \A s \in Names : snaps'[s] = snaps[s]
         /\ \A s \in 0..Len(snaps) : RowsOf(s)' = RowsOf(s)
         /\ DeltaRebuilds'
  <1>1. UNCHANGED snaps \/ \E e \in Exporter : ExportPublish(e)
    BY DEF Next, Edit, Release, Recall, ExportRead, ExportSave, ExportDie, Import, Apply,
           BackupSource, RestoreSource, CopyReceiver, PutBackReceiver, chainVars
  <1>2. CASE UNCHANGED snaps
    <2>1. DeltaRebuilds'
      BY <1>2 DEF IInv, DeltaRebuilds, Names, Rebuilds, Verified, RowsOf
    <2>. QED
      BY <1>2, <2>1 DEF RowsOf
  <1>3. ASSUME NEW e \in Exporter, ExportPublish(e)
        PROVE  /\ snaps' = Append(snaps, job[e].snap)
               /\ Len(snaps') = Len(snaps) + 1
               /\ \A s \in Names : snaps'[s] = snaps[s]
               /\ \A s \in 0..Len(snaps) : RowsOf(s)' = RowsOf(s)
               /\ DeltaRebuilds'
    <2>1. Continuation(job[e].snap) /\ snaps' = Append(snaps, job[e].snap)
      BY <1>3 DEF ExportPublish, IInv, JobInv
    <2>. QED
      BY <2>1, AppendSnapshot DEF IInv, TypeOK
  <1>. QED
    BY <1>1, <1>2, <1>3

LEMMA StepShows ==
  ASSUME IInv, Next
  PROVE  ShowsItsSnapshot'
  <1>0. Len(snaps) \in Nat /\ ChainTypeOK
    BY LenProperties DEF IInv, TypeOK, ChainTypeOK
  <1>1. \/ UNCHANGED <<evidence, tracker>>
        \/ \E s \in Names : Import(s)
        \/ \E c \in receiverCopies : PutBackReceiver(c)
    BY DEF Next, Edit, Release, Recall, ExportRead, ExportPublish, ExportSave, ExportDie,
           BackupSource, RestoreSource, CopyReceiver, chainVars
  <1>2. CASE UNCHANGED <<evidence, tracker>>
    BY <1>2, StepSnaps, ShownKept
  <1>3. ASSUME NEW s \in Names, Import(s) PROVE ShowsItsSnapshot'
    <2>1. RowIsText(evidence)' /\ Shown' = RowsOf(s) /\ tracker' = s /\ snaps' = snaps
      BY <1>0, <1>3, ApplyShows DEF Import, IInv, ShowsItsSnapshot
    <2>2. s \in 0..Len(snaps) /\ RowsOf(s)' = RowsOf(s)
      BY <1>0, <2>1, StepSnaps DEF Names
    <2>3. RowsOf(tracker)' = RowsOf(s)
      BY <2>1, <2>2 DEF RowsOf
    <2>. QED
      BY <2>1, <2>2, <2>3 DEF ShowsItsSnapshot
  <1>4. ASSUME NEW c \in receiverCopies, PutBackReceiver(c) PROVE ShowsItsSnapshot'
    <2>1. CopyShows(c) /\ evidence' = c.evidence /\ tracker' = c.tracker /\ snaps' = snaps
      BY <1>4 DEF PutBackReceiver, IInv, CopyInv
    <2>2. RowsOf(tracker)' = RowsOf(c.tracker)
      BY <2>1 DEF RowsOf
    <2>. QED
      BY <2>1, <2>2 DEF ShowsItsSnapshot, CopyShows, Shown
  <1>. QED
    BY <1>1, <1>2, <1>3, <1>4

LEMMA StepCopies ==
  ASSUME IInv, Next
  PROVE  CopyInv'
  <1>0. CopyInv /\ Len(snaps) \in Nat
    BY LenProperties DEF IInv, TypeOK, ChainTypeOK
  <1>1. ASSUME NEW state, Remembers(state) PROVE Remembers(state)'
    <2>1. state.root \in 0..Len(snaps) /\ state.rows = RowsOf(state.root)
      BY <1>1 DEF Remembers
    <2>2. RowsOf(state.root)' = RowsOf(state.root) /\ state.root \in 0..Len(snaps')
      BY <1>0, <2>1, StepSnaps
    <2>. QED
      BY <2>1, <2>2 DEF Remembers
  <1>2. ASSUME NEW c, CopyShows(c) PROVE CopyShows(c)'
    <2>1. RowsOf(c.tracker)' = RowsOf(c.tracker) /\ c.tracker \in 0..Len(snaps')
      BY <1>0, <1>2, StepSnaps DEF CopyShows
    <2>. QED
      BY <1>2, <2>1 DEF CopyShows
  <1>3. Remembers(exportState)'
    <2>1. CASE exportState' = exportState
      BY <1>0, <1>1, <2>1 DEF CopyInv, Remembers
    <2>2. ASSUME NEW c \in sourceCopies, RestoreSource(c) PROVE Remembers(exportState)'
      BY <1>0, <1>1, <2>2 DEF RestoreSource, CopyInv, Remembers
    <2>3. ASSUME NEW e \in Exporter, ExportSave(e) PROVE Remembers(exportState)'
      <3>1. job[e].name \in 0..Len(snaps)
        BY <1>0, <2>3 DEF ExportSave, IInv, JobInv, Names
      <3>2. Remembers([root |-> job[e].name, rows |-> RowsOf(job[e].name)])
        BY <3>1 DEF Remembers
      <3>3. /\ exportState' = [root |-> job[e].name, rows |-> RowsOf(job[e].name)]
            /\ UNCHANGED snaps
        BY <2>3 DEF ExportSave, chainVars
      <3>. QED
        BY <3>2, <3>3 DEF Remembers, RowsOf
    <2>. QED
      BY <2>1, <2>2, <2>3 DEF Next, Edit, Release, Recall, ExportRead, ExportPublish, ExportDie,
         Import, BackupSource, CopyReceiver, PutBackReceiver, sourceVars
  <1>4. \A c \in sourceCopies' : Remembers(c.exportState)'
    <2>1. CASE UNCHANGED sourceCopies
      BY <1>0, <1>1, <2>1 DEF CopyInv
    <2>2. CASE BackupSource
      <3>1. Remembers([data |-> data, exportState |-> exportState].exportState)
        BY <1>0 DEF CopyInv
      <3>2. \A c \in sourceCopies' : Remembers(c.exportState)
        BY <1>0, <2>2, <3>1 DEF BackupSource, CopyInv
      <3>. QED
        BY <1>1, <3>2
    <2>. QED
      BY <2>1, <2>2 DEF Next, Edit, Release, Recall, ExportRead, ExportPublish, ExportSave,
         ExportDie, Import, RestoreSource, CopyReceiver, PutBackReceiver, copyVars, sourceVars
  <1>5. \A c \in receiverCopies' : CopyShows(c)'
    <2>1. CASE UNCHANGED receiverCopies
      BY <1>0, <1>2, <2>1 DEF CopyInv
    <2>2. CASE CopyReceiver
      <3>1. CopyShows([evidence |-> evidence, tracker |-> tracker])
        BY DEF IInv, ShowsItsSnapshot, Shown, CopyShows
      <3>2. \A c \in receiverCopies' : CopyShows(c)
        BY <1>0, <2>2, <3>1 DEF CopyReceiver, CopyInv
      <3>. QED
        BY <1>2, <3>2
    <2>. QED
      BY <2>1, <2>2 DEF Next, Edit, Release, Recall, ExportRead, ExportPublish, ExportSave,
         ExportDie, Import, RestoreSource, BackupSource, PutBackReceiver, copyVars, sourceVars
  <1>. QED
    BY <1>3, <1>4, <1>5 DEF CopyInv

LEMMA StepJobs ==
  ASSUME IInv, Next
  PROVE  JobInv'
  <1>0. /\ JobInv /\ TypeOK /\ ChainTypeOK /\ Len(snaps) \in Nat
        /\ job \in [Exporter -> [pc : {"idle", "publish", "save"}, snap : Snapshot, name : 0..MaxSnap]]
    BY LenProperties DEF IInv, TypeOK, ChainTypeOK
  <1>. DEFINE Knows(j) == /\ j.pc = "publish" => Continuation(j.snap)
                          /\ j.pc = "save" => j.name \in Names
  <1>1. ASSUME NEW j, Knows(j) PROVE Knows(j)'
    <2>1. ASSUME j.pc = "publish" PROVE Continuation(j.snap)'
      BY <1>0, <1>1, <2>1, StepSnaps, ContinuationKept
    <2>2. Names \subseteq Names'
      BY <1>0, StepSnaps DEF Names
    <2>. QED
      BY <1>1, <2>1, <2>2
  <1>2. \A e \in Exporter : Knows(job[e])
    BY <1>0 DEF JobInv
  <1>3. CASE UNCHANGED job
    BY <1>1, <1>2, <1>3 DEF JobInv
  <1>4. ASSUME NEW e \in Exporter, NEW new, job' = [job EXCEPT ![e] = new],
               Knows(new) \/ (new.pc = "save" /\ new.name \in Names')
        PROVE  JobInv'
    <2>1. ASSUME NEW f \in Exporter PROVE Knows(job[f])'
      <3>1. CASE f = e /\ Knows(new)
        BY <1>0, <1>1, <1>4, <3>1
      <3>2. CASE f = e /\ new.pc = "save" /\ new.name \in Names'
        BY <1>0, <1>4, <3>2
      <3>3. CASE f # e
        BY <1>0, <1>1, <1>2, <1>4, <3>3
      <3>. QED
        BY <1>4, <3>1, <3>2, <3>3
    <2>. QED
      BY <2>1 DEF JobInv
  <1>5. ASSUME NEW e \in Exporter, ExportRead(e) PROVE JobInv'
    <2>. DEFINE snap == Built(Dataset, exportState)
    <2>1. exportState = [root |-> exportState.root, rows |-> RowsOf(exportState.root)]
      BY <1>0 DEF IInv, CopyInv, Remembers, TypeOK, ExportState
    <2>2. Continuation(snap)
      BY <1>0, <2>1, BuiltIsContinuation, DatasetRows DEF IInv, CopyInv, Remembers
    <2>3. job' = [job EXCEPT ![e] = [pc |-> "publish", snap |-> snap, name |-> 0]]
      BY <1>5 DEF ExportRead
    <2>. HIDE DEF snap
    <2>4. Knows([pc |-> "publish", snap |-> snap, name |-> 0])
      BY <2>2
    <2>. HIDE DEF Knows
    <2>. QED
      BY <1>4, <2>3, <2>4
  <1>6. ASSUME NEW e \in Exporter, ExportPublish(e) PROVE JobInv'
    <2>. DEFINE new == [pc |-> "save", snap |-> NoSnap, name |-> Len(snaps) + 1]
    <2>1. snaps' = Append(snaps, job[e].snap) /\ Continuation(job[e].snap)
      BY <1>0, <1>6 DEF ExportPublish, JobInv
    <2>2. Len(snaps') = Len(snaps) + 1
      BY <1>0, <2>1, AppendSnapshot
    <2>3. job' = [job EXCEPT ![e] = new] /\ new.pc = "save" /\ new.name \in Names'
      BY <1>0, <1>6, <2>2 DEF ExportPublish, Names
    <2>. HIDE DEF new, Knows
    <2>. QED
      BY <1>4, <2>3
  <1>7. ASSUME NEW e \in Exporter, ExportSave(e) \/ ExportDie(e) PROVE JobInv'
    <2>1. job' = [job EXCEPT ![e] = NoJob] /\ Knows(NoJob)
      BY <1>7 DEF ExportSave, ExportDie, NoJob
    <2>. HIDE DEF Knows
    <2>. QED
      BY <1>4, <2>1
  <1>. QED
    BY <1>3, <1>5, <1>6, <1>7 DEF Next, Edit, Release, Recall, Import, BackupSource,
       RestoreSource, CopyReceiver, PutBackReceiver, sourceVars

-----------------------------------------------------------------------------
(* One line, unless disturbed *)

LEMMA StepLine ==
  ASSUME IInv, Next
  PROVE  ForksOnlyIfDisturbed' /\ LineInv'
  <1>0. /\ ForksOnlyIfDisturbed /\ LineInv /\ Len(snaps) \in Nat
        /\ job \in [Exporter -> [pc : {"idle", "publish", "save"}, snap : Snapshot, name : 0..MaxSnap]]
    BY LenProperties DEF IInv, TypeOK, ChainTypeOK
  <1>1. CASE UNCHANGED <<snaps, exportState, job, disturbed>>
    BY <1>0, <1>1 DEF ForksOnlyIfDisturbed, LineInv, Names
  <1>2. ASSUME NEW e \in Exporter, ExportRead(e) PROVE ForksOnlyIfDisturbed' /\ LineInv'
    <2>1. /\ \A f \in Exporter : job'[f].pc = "save" <=> job[f].pc = "save"
          /\ \A f \in Exporter : job[f].pc = "save" => job'[f] = job[f]
          /\ UNCHANGED <<snaps, exportState, disturbed>>
      BY <1>0, <1>2 DEF ExportRead, chainVars
    <2>. QED
      BY <1>0, <2>1 DEF ForksOnlyIfDisturbed, LineInv, Names
  <1>3. ASSUME NEW e \in Exporter, ExportPublish(e) PROVE ForksOnlyIfDisturbed' /\ LineInv'
    <2>. SUFFICES ASSUME ~disturbed' PROVE ForksOnlyIfDisturbed' /\ LineInv'
      BY DEF ForksOnlyIfDisturbed, LineInv
    <2>1. ~disturbed /\ ~Overtaken(e)
      BY <1>3 DEF ExportPublish
    <2>2. /\ exportState.root = job[e].snap.prev
          /\ \A f \in Exporter : job[f].pc # "save"
      BY <1>3, <2>1 DEF Overtaken, ExportPublish
    <2>3. job[e].snap.prev = Len(snaps)
      BY <1>0, <2>1, <2>2 DEF LineInv
    <2>4. Continuation(job[e].snap) /\ snaps' = Append(snaps, job[e].snap)
      BY <1>3 DEF ExportPublish, IInv, JobInv
    <2>5. /\ Len(snaps') = Len(snaps) + 1 /\ snaps'[Len(snaps) + 1] = job[e].snap
          /\ \A s \in Names : snaps'[s] = snaps[s]
      BY <2>4, AppendSnapshot DEF IInv, TypeOK
    <2>6. ForksOnlyIfDisturbed'
      <3>1. ASSUME NEW s \in 1..(Len(snaps) + 1) PROVE snaps'[s].prev = s - 1
        <4>1. CASE s \in Names
          BY <1>0, <2>1, <2>5, <4>1 DEF ForksOnlyIfDisturbed
        <4>2. CASE s = Len(snaps) + 1
          BY <1>0, <2>3, <2>5, <4>2
        <4>. QED
          BY <1>0, <4>1, <4>2 DEF Names
      <3>. QED
        BY <2>5, <3>1 DEF ForksOnlyIfDisturbed, Names
    <2>7. job'[e].pc = "save" /\ job'[e].name = Len(snaps') /\ \A f \in Exporter \ {e} : job'[f].pc # "save"
      BY <1>0, <1>3, <2>2, <2>5 DEF ExportPublish
    <2>. QED
      BY <2>6, <2>7 DEF LineInv
  <1>4. ASSUME NEW e \in Exporter, ExportSave(e) PROVE ForksOnlyIfDisturbed' /\ LineInv'
    <2>1. UNCHANGED <<snaps, disturbed>> /\ job[e].pc = "save" /\ exportState'.root = job[e].name
      BY <1>4 DEF ExportSave, chainVars
    <2>2. \A f \in Exporter : job'[f].pc # "save" \/ (f # e /\ job[f].pc = "save")
      BY <1>0, <1>4 DEF ExportSave, NoJob
    <2>. QED
      BY <1>0, <2>1, <2>2 DEF ForksOnlyIfDisturbed, LineInv, Names
  <1>5. ASSUME NEW e \in Exporter, ExportDie(e) PROVE ForksOnlyIfDisturbed' /\ LineInv'
    <2>1. /\ UNCHANGED <<snaps, exportState>> /\ job' = [job EXCEPT ![e] = NoJob]
          /\ disturbed' = (disturbed \/ job[e].pc = "save")
      BY <1>5 DEF ExportDie, chainVars
    <2>2. CASE job[e].pc = "save"
      BY <2>1, <2>2 DEF ForksOnlyIfDisturbed, LineInv
    <2>3. CASE job[e].pc # "save"
      <3>1. /\ \A f \in Exporter : job'[f].pc = "save" <=> job[f].pc = "save"
            /\ \A f \in Exporter : job[f].pc = "save" => job'[f] = job[f]
        BY <1>0, <2>1, <2>3 DEF NoJob
      <3>2. ~disturbed' => ~disturbed
        BY <2>1
      <3>. QED
        BY <1>0, <2>1, <3>1, <3>2 DEF ForksOnlyIfDisturbed, LineInv, Names
    <2>. QED
      BY <2>2, <2>3
  <1>6. ASSUME NEW c \in sourceCopies, RestoreSource(c) PROVE ForksOnlyIfDisturbed' /\ LineInv'
    BY <1>6 DEF RestoreSource, ForksOnlyIfDisturbed, LineInv
  <1>. QED
    BY <1>1, <1>2, <1>3, <1>4, <1>5, <1>6 DEF Next, Edit, Release, Recall, Import, Apply,
       BackupSource, CopyReceiver, PutBackReceiver, chainVars, sourceVars

LEMMA Inductive == Spec => []IInv
  <1>1. ASSUME IInv, [Next]_vars PROVE IInv'
    <2>1. CASE Next
      BY <1>1, <2>1, StepType, StepSnaps, StepShows, StepCopies, StepJobs, StepLine DEF IInv
    <2>2. CASE UNCHANGED vars
      <3>1. UNCHANGED <<snaps, evidence, tracker, data, clock, exportState, job, disturbed,
                        sourceCopies, receiverCopies>>
        BY <2>2 DEF vars, chainVars, sourceVars, copyVars
      <3>2. /\ TypeOK' /\ ShowsItsSnapshot' /\ DeltaRebuilds'
            /\ ForksOnlyIfDisturbed' /\ LineInv'
        BY <1>1, <3>1 DEF IInv, TypeOK, ChainTypeOK, ShowsItsSnapshot, Shown, RowsOf, DeltaRebuilds,
           Names, Rebuilds, Verified, ForksOnlyIfDisturbed, LineInv
      <3>3. CopyInv' /\ JobInv'
        BY <1>1, <3>1 DEF IInv, CopyInv, Remembers, CopyShows, JobInv, Continuation, Verified,
           RowsOf, Names
      <3>. QED
        BY <3>2, <3>3 DEF IInv
    <2>. QED
      BY <1>1, <2>1, <2>2
  <1>. QED
    BY <1>1, InitIInv, PTL DEF Spec

-----------------------------------------------------------------------------
(* Theorems *)

\* Every value stays in its type (the files of export.mjs, import.mjs).
THEOREM FederationTyped == Spec => []TypeOK
  <1>. QED
    BY Inductive, PTL DEF IInv

\* Whatever snapshots are imported in whatever order, the receiver shows exactly
\* one of them and no text of a withdrawn record (applyFederationSnapshot).
THEOREM ReceiverShowsOneSnapshot == Spec => []ShowsItsSnapshot
  <1>. QED
    BY Inductive, PTL DEF IInv

\* Crashes, concurrent exporters and restores never produce a snapshot whose
\* delta does not lead from its predecessor to it (buildFederationSnapshot).
THEOREM DeltasAreRight == Spec => []DeltaRebuilds
  <1>. QED
    BY Inductive, PTL DEF IInv

\* Hence a receiver at the predecessor of a snapshot, wherever it has been before,
\* can be refused for nothing but a version used twice (applyFederationSnapshot).
THEOREM SuccessorsAreAccepted == Spec => []NeverRefusedForItsDelta
  <1>1. IInv => NeverRefusedForItsDelta
    BY RightDeltasContinue DEF IInv, TypeOK
  <1>. QED
    BY <1>1, Inductive, PTL

\* Without a disturbance the snapshots form one line (exportFederationSnapshot).
THEOREM UndisturbedIsOneLine == Spec => []ForksOnlyIfDisturbed
  <1>. QED
    BY Inductive, PTL DEF IInv

\* Only a copy put back takes a record to an older version or to other content
\* of the same version (applyFederationSnapshot).
THEOREM RecordsNeverGoBack == Spec => VersionsNeverGoBack
  <1>1. ASSUME IInv, [Next]_vars
        PROVE  [\/ \A r \in Rec : evidence[r].status # "ABSENT" => NoConflict(evidence[r].row, evidence'[r].row)
                \/ \E c \in receiverCopies : PutBackReceiver(c)]_vars
    <2>1. CASE UNCHANGED evidence
      BY <2>1 DEF NoConflict
    <2>2. ASSUME NEW s \in Names, Import(s), NEW r \in Rec, evidence[r].status # "ABSENT"
          PROVE  NoConflict(evidence[r].row, evidence'[r].row)
      <3>1. Acceptable(snaps[s]) /\ evidence' = Imported(snaps[s].rows)
        BY <2>2 DEF Import, Apply
      <3>2. CASE snaps[s].rows[r] # NoRow
        BY <2>2, <3>1, <3>2 DEF Acceptable, Imported, Present
      <3>3. CASE snaps[s].rows[r] = NoRow
        BY <2>2, <3>1, <3>3 DEF Imported, NoConflict
      <3>. QED
        BY <3>2, <3>3
    <2>. QED
      BY <1>1, <2>1, <2>2 DEF vars, chainVars, Next, Edit, Release, Recall, ExportRead, ExportPublish,
         ExportSave, ExportDie, BackupSource, RestoreSource, CopyReceiver
  <1>. QED
    BY <1>1, Inductive, PTL DEF Spec, VersionsNeverGoBack

\* The receiver's records are those of a chain reader: every step is a step of
\* EvidenceFeed, or changes nothing a reader could see.
THEOREM FederationImplementsFeed == Spec => ImplementsFeed
  <1>1. Init => Feed!FeedInit
    <2>. SUFFICES ASSUME Init PROVE Feed!FeedInit
      OBVIOUS
    <2>1. snaps = << >> /\ tracker = 0 /\ receiverCopies = {}
      BY DEF Init, ChainInit
    <2>2. Shown = NoRows
      BY DEF Init, ChainInit, Shown, NoRows
    <2>. QED
      BY <2>1, <2>2 DEF Feed!FeedInit
  <1>2. IInv /\ [Next]_vars => [Feed!FeedNext]_(Feed!feedVars)
    <2> SUFFICES ASSUME IInv, [Next]_vars PROVE [Feed!FeedNext]_(Feed!feedVars)
      OBVIOUS
    <2>0. ChainTypeOK /\ Len(snaps) \in Nat /\ ShowsItsSnapshot
      BY LenProperties DEF IInv, TypeOK, ChainTypeOK
    <2>1. CASE UNCHANGED <<snaps, evidence, tracker, receiverCopies>>
      BY <2>1 DEF Feed!feedVars, Shown
    <2>2. ASSUME NEW e \in Exporter, ExportPublish(e) PROVE Feed!SignNext
      <3>1. Continuation(job[e].snap) /\ snaps' = Append(snaps, job[e].snap)
        BY <2>2 DEF ExportPublish, IInv, JobInv
      <3>2. Len(snaps') = Len(snaps) + 1 /\ \A s \in Names : snaps'[s] = snaps[s]
        BY <2>0, <3>1, AppendSnapshot
      <3>3. Shown' = Shown /\ UNCHANGED <<tracker, receiverCopies>>
        BY <2>2 DEF ExportPublish, Shown, copyVars
      <3>. QED
        BY <3>2, <3>3 DEF Feed!SignNext, Names
    <2>3. ASSUME NEW s \in Names, Import(s) PROVE Feed!Advance(s)
      <3>1. Shown' = RowsOf(s) /\ tracker' = s /\ snaps' = snaps /\ Acceptable(snaps[s])
        BY <2>0, <2>3, ApplyShows DEF Import, Apply, ShowsItsSnapshot
      <3>2. tracker = 0 \/ snaps[s].prev = tracker
        BY <3>1 DEF Acceptable, Continues
      <3>3. UNCHANGED receiverCopies
        BY <2>3 DEF Import, copyVars
      <3>. QED
        BY <3>1, <3>2, <3>3 DEF Feed!Advance, Feed!Content, RowsOf
    <2>4. ASSUME CopyReceiver PROVE Feed!Keep
      <3>1. /\ receiverCopies' = receiverCopies \union {[evidence |-> evidence, tracker |-> tracker]}
            /\ UNCHANGED <<snaps, evidence, tracker>>
        BY <2>4 DEF CopyReceiver, chainVars
      <3>2. {c.tracker : c \in receiverCopies'} = {c.tracker : c \in receiverCopies} \union {tracker}
        <4>. DEFINE copy == [evidence |-> evidence, tracker |-> tracker]
        <4>1. copy.tracker = tracker /\ receiverCopies' = receiverCopies \union {copy}
          BY <3>1
        <4>. HIDE DEF copy
        <4>. QED
          BY <4>1, SMT
      <3>3. Shown' = Shown
        BY <3>1 DEF Shown
      <3>. QED
        BY <3>1, <3>2, <3>3 DEF Feed!Keep
    <2>5. ASSUME NEW c \in receiverCopies, PutBackReceiver(c) PROVE Feed!FallBack(c.tracker)
      <3>1. /\ CopyShows(c) /\ evidence' = c.evidence /\ tracker' = c.tracker
            /\ UNCHANGED <<snaps, receiverCopies>>
        BY <2>5 DEF PutBackReceiver, IInv, CopyInv, copyVars
      <3>2. Shown' = RowsOf(c.tracker)
        BY <3>1 DEF CopyShows, Shown
      <3>. QED
        BY <3>1, <3>2 DEF Feed!FallBack, Feed!Content, RowsOf
    <2>. QED
      BY <2>1, <2>2, <2>3, <2>4, <2>5 DEF Feed!FeedNext, Names, vars, chainVars, copyVars, Next,
         Edit, Release, Recall, ExportRead, ExportSave, ExportDie, BackupSource, RestoreSource
  <1>. QED
    BY <1>1, <1>2, Inductive, PTL DEF Spec, ImplementsFeed, Feed!FeedSpec

\* What EvidenceLifecycle is proved to be is all that is assumed of the source
\* here, as long as no backup is restored (restoreInstance).
THEOREM SourceMovesAsADataset == Spec => SourceIsADataset
  <1>1. Init => Source!DatasetInit
    BY DEF Init, Source!DatasetInit
  <1>2. IInv /\ [Next]_vars
          => [Source!DatasetNext \/ \E c \in sourceCopies : RestoreSource(c)]_(Source!datasetVars)
    <2> SUFFICES ASSUME IInv, [Next]_vars
                 PROVE  [Source!DatasetNext \/ \E c \in sourceCopies : RestoreSource(c)]_(Source!datasetVars)
      OBVIOUS
    <2>0. /\ data \in [Rec -> Contribution] /\ clock \in Nat
          /\ \A r \in Rec : data[r].version \in Nat
      BY SnapshotAssumption DEF IInv, TypeOK, Contribution
    <2>1. CASE UNCHANGED data
      BY <2>1 DEF Source!datasetVars
    \* What the three actions of the source write.
    <2>k. ASSUME NEW r \in Rec, NEW v, NEW t,
                 data' = [data EXCEPT ![r] = [version |-> v, stamp |-> t]]
          PROVE  /\ [q \in Rec |-> data'[q].version] = [[q \in Rec |-> data[q].version] EXCEPT ![r] = v]
                 /\ \A q \in Rec \ {r} : data'[q] = data[q]
                 /\ data'[r].stamp = t
      BY <2>0, <2>k
    <2>2. ASSUME NEW r \in Rec, Edit(r) PROVE Source!Write(r)
      <3>1. data' = [data EXCEPT ![r] = [version |-> data[r].version + 1, stamp |-> 0]]
        BY <2>2 DEF Edit
      <3>. QED
        BY <2>0, <2>k, <3>1 DEF Source!Write, Source!Others
    <2>3. ASSUME NEW r \in Rec, Release(r) PROVE Source!ListAgain(r)
      <3>1. /\ data' = [data EXCEPT ![r] = [version |-> data[r].version, stamp |-> clock']]
            /\ clock' = clock + 1 /\ data[r].version > 0
        BY <2>3 DEF Release
      <3>2. clock' # 0
        BY <2>0, <3>1
      <3>3. [q \in Rec |-> data'[q].version] = [q \in Rec |-> data[q].version]
        BY <2>0, <2>k, <3>1
      <3>. QED
        BY <2>0, <2>k, <3>1, <3>2, <3>3 DEF Source!ListAgain, Source!Others
    <2>4. ASSUME NEW r \in Rec, Recall(r) PROVE Source!TakeOut(r)
      <3>1. data' = [data EXCEPT ![r] = [version |-> data[r].version, stamp |-> 0]]
        BY <2>4 DEF Recall
      <3>2. [q \in Rec |-> data'[q].version] = [q \in Rec |-> data[q].version]
        BY <2>0, <2>k, <3>1
      <3>. QED
        BY <2>0, <2>k, <3>1, <3>2 DEF Source!TakeOut, Source!Others
    <2>. QED
      BY <2>1, <2>2, <2>3, <2>4 DEF Source!DatasetNext, vars, sourceVars, Next, ExportRead,
         ExportPublish, ExportSave, ExportDie, Import, BackupSource, CopyReceiver, PutBackReceiver
  <1>. QED
    BY <1>1, <1>2, Inductive, PTL DEF Spec, SourceIsADataset

-----------------------------------------------------------------------------
(* What may be signed *)

\* Only what exists is released, in the source and in its backups, and what an
\* exporter is about to publish is what it built from a content and a snapshot.
Existing(contributions) == \A r \in Rec : contributions[r].stamp # 0 => contributions[r].version # 0

IsSigned(snap) ==
  /\ snap.rows \in Rows /\ Whole(snap.rows)
  /\ snap.prev \in 0..Len(snaps)
  /\ snap = Built(snap.rows, [root |-> snap.prev, rows |-> RowsOf(snap.prev)])

JobsAreSigned == \A e \in Exporter : job[e].pc = "publish" => IsSigned(job[e].snap)

SignInv ==
  /\ Existing(data)
  /\ \A c \in sourceCopies : Existing(c.data)
  /\ JobsAreSigned

LEMMA DatasetIsWhole ==
  ASSUME TypeOK, Existing(data)
  PROVE  Dataset \in Rows /\ Whole(Dataset)
  <1>1. Dataset \in Rows
    BY DatasetRows
  <1>. QED
    BY <1>1, SnapshotAssumption DEF TypeOK, Contribution, Existing, Whole, Dataset, NoRow

\* Snapshots that have been signed since take nothing away.
LEMMA SignedKept ==
  ASSUME IInv, Next, NEW snap, IsSigned(snap)
  PROVE  IsSigned(snap)'
  <1>1. /\ RowsOf(snap.prev)' = RowsOf(snap.prev)
        /\ snap.prev \in 0..Len(snaps')
    BY StepSnaps, LenProperties DEF IsSigned, IInv, TypeOK, ChainTypeOK
  <1>. QED
    BY <1>1 DEF IsSigned, Whole, Built, Present

LEMMA SignStep ==
  ASSUME IInv, SignInv, Next
  PROVE  SignInv'
  <1>0. /\ TypeOK /\ CopyInv
        /\ data \in [Rec -> Contribution]
        /\ job \in [Exporter -> [pc : {"idle", "publish", "save"}, snap : Snapshot, name : 0..MaxSnap]]
    BY DEF IInv, TypeOK
  <1>1. Existing(data)'
    <2>1. CASE UNCHANGED data
      BY <2>1 DEF SignInv, Existing
    <2>2. ASSUME NEW r \in Rec, Edit(r) \/ Release(r) \/ Recall(r) PROVE Existing(data)'
      <3>1. \A q \in Rec : data'[q].stamp # 0 => data'[q].version # 0
        BY <1>0, <2>2, SnapshotAssumption DEF Edit, Release, Recall, SignInv, Existing, Contribution
      <3>. QED
        BY <3>1 DEF Existing
    <2>3. ASSUME NEW c \in sourceCopies, RestoreSource(c) PROVE Existing(data)'
      BY <2>3 DEF RestoreSource, SignInv, Existing
    <2>. QED
      BY <2>1, <2>2, <2>3 DEF Next, ExportRead, ExportPublish, ExportSave, ExportDie, Import,
         BackupSource, CopyReceiver, PutBackReceiver, sourceVars
  <1>2. \A c \in sourceCopies' : Existing(c.data)'
    <2>1. CASE UNCHANGED sourceCopies
      BY <2>1 DEF SignInv, Existing
    <2>2. CASE BackupSource
      <3>. DEFINE copy == [data |-> data, exportState |-> exportState]
      <3>1. copy.data = data /\ sourceCopies' = sourceCopies \union {copy}
        BY <2>2 DEF BackupSource
      <3>. HIDE DEF copy
      <3>2. \A c \in sourceCopies' : Existing(c.data)
        BY <3>1 DEF SignInv
      <3>. QED
        BY <3>2 DEF Existing
    <2>. QED
      BY <2>1, <2>2 DEF Next, Edit, Release, Recall, ExportRead, ExportPublish, ExportSave,
         ExportDie, Import, RestoreSource, CopyReceiver, PutBackReceiver, copyVars
  <1>3. JobsAreSigned'
    <2>. DEFINE Knows(j) == j.pc = "publish" => IsSigned(j.snap)
    <2>1. ASSUME NEW j, Knows(j) PROVE Knows(j)'
      BY <2>1, SignedKept
    <2>2. \A e \in Exporter : Knows(job[e])
      BY DEF SignInv, JobsAreSigned
    <2>3. CASE UNCHANGED job
      BY <2>1, <2>2, <2>3 DEF JobsAreSigned
    <2>4. ASSUME NEW e \in Exporter, NEW new, job' = [job EXCEPT ![e] = new], Knows(new)
          PROVE  JobsAreSigned'
      <3>1. ASSUME NEW f \in Exporter PROVE Knows(job[f])'
        <4>1. CASE f = e
          BY <1>0, <2>1, <2>4, <4>1
        <4>2. CASE f # e
          BY <1>0, <2>1, <2>2, <2>4, <4>2
        <4>. QED
          BY <4>1, <4>2
      <3>. QED
        BY <3>1 DEF JobsAreSigned
    <2>5. ASSUME NEW e \in Exporter, ExportRead(e) PROVE JobsAreSigned'
      <3>. DEFINE snap == Built(Dataset, exportState)
      <3>1. /\ exportState = [root |-> exportState.root, rows |-> RowsOf(exportState.root)]
            /\ exportState.root \in 0..Len(snaps)
        BY <1>0 DEF CopyInv, Remembers, TypeOK, ExportState
      <3>2. snap.rows = Dataset /\ snap.prev = exportState.root
        BY DEF Built
      <3>3. Dataset \in Rows /\ Whole(Dataset)
        BY <1>0, DatasetIsWhole DEF SignInv
      <3>4. snap = Built(snap.rows, [root |-> snap.prev, rows |-> RowsOf(snap.prev)])
        BY <3>1, <3>2
      <3>5. job' = [job EXCEPT ![e] = [pc |-> "publish", snap |-> snap, name |-> 0]]
        BY <2>5 DEF ExportRead
      <3>. HIDE DEF snap
      <3>6. IsSigned(snap)
        BY <3>1, <3>2, <3>3, <3>4 DEF IsSigned
      <3>7. Knows([pc |-> "publish", snap |-> snap, name |-> 0])
        BY <3>6
      <3>. HIDE DEF Knows
      <3>. QED
        BY <2>4, <3>5, <3>7
    <2>6. ASSUME NEW e \in Exporter, ExportPublish(e) \/ ExportSave(e) \/ ExportDie(e)
          PROVE  JobsAreSigned'
      <3>. DEFINE saving == [pc |-> "save", snap |-> NoSnap, name |-> Len(snaps) + 1]
      <3>1. job' = [job EXCEPT ![e] = saving] \/ job' = [job EXCEPT ![e] = NoJob]
        BY <2>6 DEF ExportPublish, ExportSave, ExportDie
      <3>2. Knows(saving) /\ Knows(NoJob)
        BY DEF NoJob
      <3>. HIDE DEF saving, Knows
      <3>. QED
        BY <2>4, <3>1, <3>2
    <2>. QED
      BY <2>3, <2>5, <2>6 DEF Next, Edit, Release, Recall, Import, BackupSource, RestoreSource,
         CopyReceiver, PutBackReceiver, sourceVars
  <1>. QED
    BY <1>1, <1>2, <1>3 DEF SignInv

LEMMA SignInductive == Spec => []SignInv
  <1>1. Init => SignInv
    BY DEF Init, SignInv, JobsAreSigned, Existing, NoJob
  <1>2. IInv /\ SignInv /\ [Next]_vars => SignInv'
    <2> SUFFICES ASSUME IInv, SignInv, UNCHANGED vars PROVE SignInv'
      BY SignStep
    <2>. QED
      BY DEF vars, chainVars, sourceVars, copyVars, SignInv, JobsAreSigned, Existing, IsSigned,
         RowsOf, Whole, Built, Present
  <1>. QED
    BY <1>1, <1>2, Inductive, PTL DEF Spec

\* Whatever becomes of exporters, their file and their backups, each snapshot that
\* is added is one that PeerPull takes the source to sign: its Sign is Signed.
THEOREM OnlySignedIsAdded == Spec => OnlySignedSnapshots
  <1>1. IInv /\ SignInv /\ [Next]_vars
          => [snaps' = snaps \/ \E prev \in 0..Len(snaps), rows \in Rows : Signed(prev, rows)]_vars
    <2> SUFFICES ASSUME IInv, SignInv, Next, NEW e \in Exporter, ExportPublish(e)
                 PROVE  \E prev \in 0..Len(snaps), rows \in Rows : Signed(prev, rows)
      BY StepSnaps
    <2>1. IsSigned(job[e].snap) /\ snaps' = Append(snaps, job[e].snap)
      BY DEF ExportPublish, SignInv, JobsAreSigned
    <2>. QED
      BY <2>1 DEF IsSigned, Signed
  <1>. QED
    BY <1>1, Inductive, SignInductive, PTL DEF Spec, OnlySignedSnapshots
=============================================================================
