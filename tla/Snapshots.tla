------------------------------ MODULE Snapshots ------------------------------
(***************************************************************************)
(* sites-app/src/federation.mjs: signed snapshots of a source's public     *)
(* evidence and their import by another instance, the receiver.            *)
(*                                                                         *)
(* A snapshot is named by its position in the sequence of all that were    *)
(* ever written; that number stands for the root hash, 0 for the empty     *)
(* previousRoot.  A row <<version, stamp>> stands for a record and for its *)
(* hash: every release of a contribution sets updatedAt, hence the stamp.  *)
(* Keys do not change, so every signature verifies.                        *)
(***************************************************************************)
EXTENDS Naturals, Sequences

CONSTANTS Rec,         \* contributions of the source
          MaxVersion,  \* bound: versions of a contribution
          MaxStamp,    \* bound: releases
          MaxSnap      \* bound: snapshots

ASSUME SnapshotAssumption ==
  MaxVersion \in Nat /\ MaxStamp \in Nat /\ MaxSnap \in Nat

VARIABLES
  snaps,     \* every snapshot the source has written
  evidence,  \* the receiver: state.federatedEvidence of this source
  tracker    \* the receiver: lastSnapshotRoot of the tracker, 0: no tracker

chainVars == <<snaps, evidence, tracker>>

NoRow    == <<0, 0>>
Row      == (0..MaxVersion) \X (0..MaxStamp)
Rows     == [Rec -> Row]
NoRows   == [r \in Rec |-> NoRow]
Snapshot == [prev : 0..MaxSnap, rows : Rows, upserts : SUBSET Rec, tombstones : SUBSET Rec]
\* row: sourceVersion and recordHash.  record: the text, NoRow for null.
Evidence == [status : {"ABSENT", "CURRENT", "TOMBSTONED"}, row : Row, record : Row]

Names     == 1..Len(snaps)
RowsOf(s) == IF s = 0 THEN NoRows ELSE snaps[s].rows
\* The records a set of rows contains.
Present(rows) == {r \in Rec : rows[r] # NoRow}

ChainTypeOK ==
  /\ snaps \in Seq(Snapshot) /\ Len(snaps) <= MaxSnap
  /\ evidence \in [Rec -> Evidence]
  /\ tracker \in 0..MaxSnap

ChainInit ==
  /\ snaps = << >>
  /\ evidence = [r \in Rec |-> [status |-> "ABSENT", row |-> NoRow, record |-> NoRow]]
  /\ tracker = 0

-----------------------------------------------------------------------------
(* Signing *)

\* Mutant of Built: a record that left the dataset gets no tombstone.
BuiltWithoutTombstones(rows, previous) ==
  [prev |-> previous.root, rows |-> rows,
   upserts |-> {r \in Present(rows) : previous.rows[r] # rows[r]}, tombstones |-> {}]

\* Mutant of Built: hashes in the place of record names.
BuiltWithHashes(rows, previous) ==
  [prev |-> previous.root, rows |-> rows,
   upserts |-> {r \in Present(rows) : previous.rows[r] # rows[r]},
   tombstones |-> {previous.rows[r] : r \in Present(previous.rows) \ Present(rows)}]

\* buildFederationSnapshot(), after an export that left the state `previous'.
Built(rows, previous) ==
  [prev |-> previous.root, rows |-> rows,
   upserts |-> {r \in Present(rows) : previous.rows[r] # rows[r]},
   tombstones |-> Present(previous.rows) \ Present(rows)]

\* A row has a version and the stamp of its release, or is none.
Whole(rows) == \A r \in Rec : rows[r][1] = 0 <=> rows[r][2] = 0

\* exportFederationSnapshot(): a snapshot is added that continues prev.
Signed(prev, rows) ==
  /\ Whole(rows)
  /\ snaps' = Append(snaps, Built(rows, [root |-> prev, rows |-> RowsOf(prev)]))

\* verifyFederationSnapshot(): the delta agrees with the full content.
Verified(snap) ==
  /\ snap.upserts \subseteq Present(snap.rows)
  /\ snap.tombstones \intersect Present(snap.rows) = {}

-----------------------------------------------------------------------------
(* Importing *)

\* What the receiver should have after the delta, by what it has now.
Expected(snap) ==
  [r \in Rec |-> IF r \in snap.upserts THEN snap.rows[r]
                 ELSE IF r \in snap.tombstones \/ evidence[r].status # "CURRENT" THEN NoRow
                 ELSE evidence[r].row]

\* No version goes back and none changes its content.
NoConflict(known, row) == known[1] < row[1] \/ known = row

\* Mutant of Continues: a gap in the chain is not looked for.
ContinuesAnything(snap) ==
  tracker = 0 /\ snap.prev = 0 => snap.upserts = Present(snap.rows) /\ snap.tombstones = {}

\* Mutant of Continues: a receiver can only start at the genesis.
ContinuesFromGenesis(snap) ==
  snap.prev = tracker /\ (tracker # 0 => Expected(snap) = snap.rows)

\* The snapshot is the next one of the chain; the first one may be any, and
\* has to be complete if it is the genesis.
Continues(snap) ==
  IF tracker # 0
  THEN snap.prev = tracker /\ Expected(snap) = snap.rows
  ELSE snap.prev = 0 => snap.upserts = Present(snap.rows) /\ snap.tombstones = {}

\* Mutant of Acceptable: neither versions nor hashes are compared.
AcceptableAnyVersion(snap) == Verified(snap) /\ Continues(snap)

\* applyFederationSnapshot() imports, it does not refuse.
Acceptable(snap) ==
  /\ Verified(snap)
  /\ Continues(snap)
  /\ \A r \in Present(snap.rows) :
        evidence[r].status # "ABSENT" => NoConflict(evidence[r].row, snap.rows[r])

\* Mutant of Imported: records that are absent stay as they are.
ImportedNoTombstones(rows) ==
  [r \in Rec |-> IF rows[r] # NoRow
                 THEN [status |-> "CURRENT", row |-> rows[r], record |-> rows[r]]
                 ELSE evidence[r]]

\* The records after the import: upserted, restored or tombstoned.
Imported(rows) ==
  [r \in Rec |->
     IF rows[r] # NoRow
     THEN [status |-> "CURRENT", row |-> rows[r], record |-> rows[r]]
     ELSE IF evidence[r].status = "CURRENT"
     THEN [status |-> "TOMBSTONED", row |-> evidence[r].row, record |-> NoRow]
     ELSE evidence[r]]

\* One import is one transaction: records and tracker change together.
Apply(s) ==
  /\ s # tracker
  /\ Acceptable(snaps[s])
  /\ evidence' = Imported(snaps[s].rows)
  /\ tracker' = s
  /\ UNCHANGED snaps

\* publicFederatedEvidence(): the text of a record, for current ones only.
Shown == [r \in Rec |-> IF evidence[r].status = "CURRENT" THEN evidence[r].record ELSE NoRow]

-----------------------------------------------------------------------------
(* Properties of every system that signs and imports *)

\* A record that is withdrawn has no text, and the version and hash by which
\* later snapshots are judged are those of the text that is shown.
RowIsText(records) ==
  \A r \in Rec : records[r].record = IF records[r].status = "CURRENT" THEN records[r].row ELSE NoRow

\* The receiver shows the snapshot its tracker names, all of it and nothing else,
\* and judges later ones by what it shows (applyFederationSnapshot).
ShowsItsSnapshot ==
  /\ tracker \in 0..Len(snaps)
  /\ Shown = RowsOf(tracker)
  /\ RowIsText(evidence)

\* The delta of s turns the content of its predecessor into its own.
Rebuilds(s) ==
  /\ snaps[s].prev \in 0..(s - 1)
  /\ Verified(snaps[s])
  /\ snaps[s].tombstones \subseteq Present(RowsOf(snaps[s].prev))
  /\ snaps[s].rows = [r \in Rec |->
       IF r \in snaps[s].upserts THEN snaps[s].rows[r]
       ELSE IF r \in snaps[s].tombstones THEN NoRow
       ELSE RowsOf(snaps[s].prev)[r]]

\* Every delta is right: not only those of an exporter that works undisturbed
\* (buildFederationSnapshot).
DeltaRebuilds == \A s \in Names : Rebuilds(s)

\* No receiver at the predecessor of a snapshot is ever refused for its delta: not
\* after a crash of the exporter, two exporters at once or a restored export state,
\* and not after tombstones, restored records or an older copy of the receiver.
\* Only a version that is used twice can stop it (applyFederationSnapshot).
NeverRefusedForItsDelta ==
  \A s \in Names : snaps[s].prev = tracker =>
    /\ s # tracker
    /\ Verified(snaps[s]) /\ Continues(snaps[s])
=============================================================================
