--------------------------- MODULE SnapshotsProofs ---------------------------
(***************************************************************************)
(* What signing and importing preserve, for every system built on          *)
(* Snapshots.  FederationProofs and PeerPullProofs rest on these lemmas.   *)
(***************************************************************************)
EXTENDS Snapshots, SequenceTheorems, TLAPS

\* A snapshot that says what changed since another one.
Continuation(snap) ==
  /\ snap \in Snapshot
  /\ snap.prev \in 0..Len(snaps)
  /\ Verified(snap)
  /\ snap.tombstones \subseteq Present(RowsOf(snap.prev))
  /\ snap.rows = [r \in Rec |-> IF r \in snap.upserts THEN snap.rows[r]
                                ELSE IF r \in snap.tombstones THEN NoRow
                                ELSE RowsOf(snap.prev)[r]]

LEMMA RowFacts == NoRow \in Row /\ NoRows \in Rows
  BY SnapshotAssumption DEF NoRow, Row, NoRows, Rows

LEMMA RowsOfType ==
  ASSUME ChainTypeOK, NEW s \in 0..Len(snaps)
  PROVE  RowsOf(s) \in Rows /\ s \in 0..MaxSnap
  <1>1. Len(snaps) \in Nat /\ s \in Nat /\ s <= MaxSnap
    BY LenProperties, SnapshotAssumption DEF ChainTypeOK
  <1>2. CASE s = 0
    BY <1>2, RowFacts, SnapshotAssumption DEF RowsOf
  <1>3. CASE s # 0
    <2>1. s \in 1..Len(snaps)
      BY <1>1, <1>3
    <2>2. snaps[s] \in Snapshot
      BY <2>1, ElementOfSeq DEF ChainTypeOK
    <2>. QED
      BY <1>1, <1>3, <2>2, SnapshotAssumption DEF RowsOf, Snapshot
  <1>. QED
    BY <1>2, <1>3

\* What buildFederationSnapshot() makes is a snapshot that passes
\* verifyFederationSnapshot() and whose delta leads to its content.
LEMMA BuiltIsContinuation ==
  ASSUME ChainTypeOK, NEW root \in 0..Len(snaps), NEW rows \in Rows
  PROVE  Continuation(Built(rows, [root |-> root, rows |-> RowsOf(root)]))
  <1>. DEFINE snap == Built(rows, [root |-> root, rows |-> RowsOf(root)])
  <1>1. RowsOf(root) \in Rows /\ root \in 0..MaxSnap
    BY RowsOfType
  <1>2. snap = [prev |-> root, rows |-> rows,
                upserts |-> {r \in Present(rows) : RowsOf(root)[r] # rows[r]},
                tombstones |-> Present(RowsOf(root)) \ Present(rows)]
    BY DEF Built
  <1>3. /\ snap.prev = root /\ snap.rows = rows
        /\ snap.upserts = {r \in Present(rows) : RowsOf(root)[r] # rows[r]}
        /\ snap.tombstones = Present(RowsOf(root)) \ Present(rows)
    BY <1>2
  <1>4. snap \in Snapshot
    BY <1>1, <1>2 DEF Snapshot, Present
  <1>5. Verified(snap)
    BY <1>3 DEF Verified, Present
  <1>6. ASSUME NEW r \in Rec
        PROVE  rows[r] = IF r \in snap.upserts THEN rows[r]
                         ELSE IF r \in snap.tombstones THEN NoRow ELSE RowsOf(root)[r]
    BY <1>1, <1>3 DEF Present
  <1>7. rows = [r \in Rec |-> rows[r]]
    BY DEF Rows
  <1>8. snap.rows = [r \in Rec |-> IF r \in snap.upserts THEN snap.rows[r]
                                   ELSE IF r \in snap.tombstones THEN NoRow
                                   ELSE RowsOf(snap.prev)[r]]
    <2>. HIDE DEF snap
    <2>. QED
      BY <1>3, <1>6, <1>7
  <1>. QED
    BY <1>3, <1>4, <1>5, <1>8 DEF Continuation

\* One more snapshot changes nothing about the older ones.
LEMMA AppendSnapshot ==
  ASSUME ChainTypeOK, NEW snap, Continuation(snap), snaps' = Append(snaps, snap)
  PROVE  /\ snaps' \in Seq(Snapshot)
         /\ Len(snaps') = Len(snaps) + 1
         /\ \A s \in Names : snaps'[s] = snaps[s]
         /\ \A s \in 0..Len(snaps) : RowsOf(s)' = RowsOf(s)
         /\ snaps'[Len(snaps) + 1] = snap
         /\ DeltaRebuilds => DeltaRebuilds'
  <1>1. /\ snaps' \in Seq(Snapshot) /\ Len(snaps') = Len(snaps) + 1 /\ Len(snaps) \in Nat
        /\ \A s \in 1..Len(snaps) : snaps'[s] = snaps[s]
        /\ snaps'[Len(snaps) + 1] = snap
    BY AppendProperties, LenProperties DEF ChainTypeOK, Continuation
  <1>2. \A s \in 0..Len(snaps) : RowsOf(s)' = RowsOf(s)
    BY <1>1 DEF RowsOf
  <1>3. ASSUME DeltaRebuilds, NEW s \in 1..(Len(snaps) + 1)
        PROVE  Rebuilds(s)'
    <2>1. CASE s \in 1..Len(snaps)
      <3>1. Rebuilds(s) /\ snaps'[s] = snaps[s] /\ snaps[s].prev \in 0..Len(snaps)
        BY <1>1, <1>3, <2>1 DEF DeltaRebuilds, Names, Rebuilds
      <3>2. RowsOf(snaps[s].prev)' = RowsOf(snaps[s].prev)
        BY <1>2, <3>1 DEF RowsOf
      <3>. QED
        BY <3>1, <3>2 DEF Rebuilds, Verified
    <2>2. CASE s = Len(snaps) + 1
      <3>1. RowsOf(snap.prev)' = RowsOf(snap.prev)
        BY <1>1 DEF Continuation, RowsOf
      <3>. QED
        BY <1>1, <2>2, <3>1 DEF Rebuilds, Verified, Continuation
    <2>. QED
      BY <1>1, <2>1, <2>2
  <1>. QED
    BY <1>1, <1>2, <1>3 DEF Names, DeltaRebuilds

\* An import shows the snapshot that it applied, no other record and no text of
\* a tombstoned one.
LEMMA ApplyShows ==
  ASSUME ChainTypeOK, RowIsText(evidence), NEW s \in Names, Apply(s)
  PROVE  /\ ChainTypeOK'
         /\ RowIsText(evidence)'
         /\ Shown' = RowsOf(s)
         /\ tracker' = s /\ snaps' = snaps
  <1>. DEFINE rows == snaps[s].rows
  <1>0. rows \in Rows /\ s \in 0..MaxSnap /\ s # 0
    <2>1. snaps[s] \in Snapshot
      BY ElementOfSeq DEF ChainTypeOK, Names
    <2>2. rows \in Rows
      BY <2>1 DEF Snapshot
    <2>3. Len(snaps) \in Nat /\ Len(snaps) <= MaxSnap
      BY LenProperties DEF ChainTypeOK
    <2>. QED
      BY <2>2, <2>3, SnapshotAssumption DEF Names
  <1>1. evidence' = Imported(rows) /\ tracker' = s /\ snaps' = snaps
    BY DEF Apply
  <1>2. ASSUME NEW r \in Rec
        PROVE  /\ evidence'[r] \in Evidence
               /\ evidence'[r].status = "CURRENT" => evidence'[r].record = rows[r]
               /\ evidence'[r].status = "CURRENT" => evidence'[r].row = rows[r]
               /\ evidence'[r].status # "CURRENT" => evidence'[r].record = NoRow /\ rows[r] = NoRow
    <2>1. evidence[r] \in Evidence /\ rows[r] \in Row
      BY <1>0 DEF ChainTypeOK, Rows
    <2>2. CASE rows[r] # NoRow
      BY <1>1, <2>1, <2>2 DEF Imported, Evidence
    <2>3. CASE rows[r] = NoRow /\ evidence[r].status = "CURRENT"
      BY <1>1, <2>1, <2>3, RowFacts DEF Imported, Evidence
    <2>4. CASE rows[r] = NoRow /\ evidence[r].status # "CURRENT"
      BY <1>1, <2>1, <2>4 DEF Imported, Evidence, RowIsText
    <2>. QED
      BY <2>2, <2>3, <2>4
  <1>3. Shown' = [r \in Rec |-> rows[r]]
    BY <1>2 DEF Shown
  <1>4. RowsOf(s) = [r \in Rec |-> rows[r]]
    BY <1>0 DEF RowsOf, Rows
  <1>5. evidence' \in [Rec -> Evidence]
    BY <1>1, <1>2 DEF Imported
  <1>. QED
    BY <1>0, <1>1, <1>2, <1>3, <1>4, <1>5 DEF ChainTypeOK, RowIsText

\* A receiver that shows its snapshot is never refused for a delta that is right.
LEMMA RightDeltasContinue ==
  ASSUME ChainTypeOK, ShowsItsSnapshot, DeltaRebuilds
  PROVE  NeverRefusedForItsDelta
  <1> SUFFICES ASSUME NEW s \in Names, snaps[s].prev = tracker
               PROVE  s # tracker /\ Verified(snaps[s]) /\ Continues(snaps[s])
    BY DEF NeverRefusedForItsDelta
  <1>. DEFINE snap == snaps[s]
  <1>1. /\ snap.prev \in 0..(s - 1) /\ Verified(snap)
        /\ snap.tombstones \subseteq Present(RowsOf(snap.prev))
        /\ snap.rows = [r \in Rec |-> IF r \in snap.upserts THEN snap.rows[r]
                                      ELSE IF r \in snap.tombstones THEN NoRow
                                      ELSE RowsOf(snap.prev)[r]]
    BY DEF DeltaRebuilds, Rebuilds
  <1>2. s \in Nat /\ s # tracker
    BY <1>1 DEF Names
  <1>3. CASE tracker = 0
    <2>1. \A r \in Rec : RowsOf(0)[r] = NoRow
      BY DEF RowsOf, NoRows
    <2>2. snap.tombstones = {}
      BY <1>1, <1>3, <2>1 DEF Present
    <2>3. \A r \in Rec : r \notin snap.upserts => snap.rows[r] = NoRow
      BY <1>1, <1>3, <2>1, <2>2
    <2>4. snap.upserts = Present(snap.rows)
      BY <1>1, <2>3 DEF Present, Verified
    <2>. QED
      BY <1>1, <1>2, <1>3, <2>2, <2>4 DEF Continues
  <1>4. CASE tracker # 0
    <2>1. ASSUME NEW r \in Rec
          PROVE  RowsOf(tracker)[r] = IF evidence[r].status # "CURRENT" THEN NoRow ELSE evidence[r].row
      BY DEF ShowsItsSnapshot, Shown, RowIsText
    <2>2. Expected(snap) = [r \in Rec |-> IF r \in snap.upserts THEN snap.rows[r]
                                          ELSE IF r \in snap.tombstones THEN NoRow
                                          ELSE RowsOf(tracker)[r]]
      BY <2>1 DEF Expected
    <2>. QED
      BY <1>1, <1>2, <1>4, <2>2 DEF Continues
  <1>. QED
    BY <1>3, <1>4
=============================================================================
