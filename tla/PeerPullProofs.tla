--------------------------- MODULE PeerPullProofs ---------------------------
(***************************************************************************)
(* Proofs about PeerPull, for every set of records and mirrors and every   *)
(* bound.                                                                  *)
(***************************************************************************)
EXTENDS PeerPull, SnapshotsProofs

PullState == [pc : {"idle", "refresh", "start", "import", "mark"},
              store : 0..MaxDescriptor, todo : SUBSET (1..MaxSnap)]

\* Everything that names a snapshot or a descriptor names one that exists, and a pull
\* only runs when there is a descriptor.
NamesInv ==
  /\ \A d \in 1..Len(descriptors) : descriptors[d] \in Names
  /\ peer \in 0..Len(descriptors)
  /\ trust.store \in 0..Len(descriptors)
  /\ pull.store \in 0..Len(descriptors)
  /\ pull.pc \in {"refresh", "start", "mark"} => pull.store # 0
  /\ pull.pc # "idle" => peer # 0
  /\ pull.todo \subseteq Names
  /\ \A m \in Mirror : index[m] \subseteq Names

IInv == TypeOK /\ ShowsItsSnapshot /\ DeltaRebuilds /\ NamesInv

LEMMA InitIInv == Init => IInv
  <1> SUFFICES ASSUME Init PROVE IInv
    OBVIOUS
  <1>0. /\ snaps = << >> /\ Len(snaps) = 0 /\ tracker = 0
        /\ evidence = [r \in Rec |-> [status |-> "ABSENT", row |-> NoRow, record |-> NoRow]]
        /\ index = [m \in Mirror |-> {}] /\ descriptors = << >> /\ Len(descriptors) = 0
        /\ peer = 0 /\ trust = NoTrust /\ pull = NoPull
    BY DEF Init, ChainInit
  <1>1. ChainTypeOK
    <2>1. evidence \in [Rec -> Evidence]
      BY <1>0, RowFacts DEF Evidence
    <2>2. snaps \in Seq(Snapshot)
      BY <1>0
    <2>. QED
      BY <1>0, <2>1, <2>2, SnapshotAssumption DEF ChainTypeOK
  <1>2. TypeOK
    <2>1. descriptors \in Seq(1..MaxSnap) /\ Len(descriptors) <= MaxDescriptor
      BY <1>0, PeerAssumption
    <2>2. index \in [Mirror -> SUBSET (1..MaxSnap)]
      BY <1>0
    <2>3. /\ trust \in [pc : {"idle", "save"}, store : 0..MaxDescriptor]
          /\ pull \in PullState
          /\ peer \in 0..MaxDescriptor
      BY <1>0, PeerAssumption DEF NoTrust, NoPull, PullState
    <2>. QED
      BY <1>1, <2>1, <2>2, <2>3 DEF TypeOK, PullState
  <1>3. ShowsItsSnapshot /\ DeltaRebuilds
    BY <1>0 DEF ShowsItsSnapshot, Shown, RowIsText, RowsOf, NoRows, DeltaRebuilds, Names
  <1>4. NamesInv
    BY <1>0 DEF NamesInv, NoTrust, NoPull
  <1>. QED
    BY <1>2, <1>3, <1>4 DEF IInv

-----------------------------------------------------------------------------
(* What the source does *)

LEMMA SignStep ==
  ASSUME IInv, NEW prev \in 0..Len(snaps), NEW rows \in Exportable, Sign(prev, rows)
  PROVE  /\ IInv'
         /\ Len(snaps') = Len(snaps) + 1
         /\ \A s \in Names : snaps'[s] = snaps[s]
  <1>. DEFINE snap == Built(rows, [root |-> prev, rows |-> RowsOf(prev)])
  <1>0. /\ TypeOK /\ ChainTypeOK /\ NamesInv /\ ShowsItsSnapshot /\ DeltaRebuilds
        /\ Len(snaps) \in Nat
    BY LenProperties DEF IInv, TypeOK, ChainTypeOK
  <1>1. Continuation(snap) /\ snaps' = Append(snaps, snap) /\ Len(snaps) < MaxSnap
    <2>1. rows \in Rows
      BY PeerAssumption, RowFacts DEF Exportable, Rows
    <2>. QED
      BY <1>0, <2>1, BuiltIsContinuation DEF Sign, Signed
  <1>. HIDE DEF snap
  <1>2. /\ snaps' \in Seq(Snapshot)
        /\ Len(snaps') = Len(snaps) + 1
        /\ \A s \in Names : snaps'[s] = snaps[s]
        /\ \A s \in 0..Len(snaps) : RowsOf(s)' = RowsOf(s)
        /\ DeltaRebuilds'
    BY <1>0, <1>1, AppendSnapshot
  <1>3. UNCHANGED <<evidence, tracker, index, descriptors, peer, trust, pull>>
    BY DEF Sign, Signed, peersVars
  <1>4. TypeOK'
    BY <1>0, <1>1, <1>2, <1>3, SnapshotAssumption DEF TypeOK, ChainTypeOK
  <1>5. ShowsItsSnapshot'
    <2>1. tracker \in 0..Len(snaps) /\ Shown' = Shown
      BY <1>0, <1>3 DEF ShowsItsSnapshot, Shown
    <2>2. RowsOf(tracker)' = RowsOf(tracker)
      BY <1>2, <1>3, <2>1 DEF RowsOf
    <2>. QED
      BY <1>0, <1>2, <1>3, <2>1, <2>2 DEF ShowsItsSnapshot
  <1>6. NamesInv'
    <2>1. Names \subseteq Names'
      BY <1>0, <1>2 DEF Names
    <2>. QED
      BY <1>0, <1>3, <2>1 DEF NamesInv
  <1>. QED
    BY <1>2, <1>4, <1>5, <1>6 DEF IInv

\* Steps that only change indexes, descriptors, peers.json or the processes of the receiver.
LEMMA ChainUntouched ==
  ASSUME IInv, UNCHANGED chainVars
  PROVE  ChainTypeOK' /\ ShowsItsSnapshot' /\ DeltaRebuilds' /\ Names' = Names
  <1>1. snaps' = snaps /\ evidence' = evidence /\ tracker' = tracker
    BY DEF chainVars
  <1>2. ChainTypeOK'
    BY <1>1 DEF IInv, TypeOK, ChainTypeOK
  <1>3. ShowsItsSnapshot'
    BY <1>1 DEF IInv, ShowsItsSnapshot, Shown, RowsOf
  <1>4. DeltaRebuilds'
    <2>1. ASSUME NEW s \in Names, Rebuilds(s)
          PROVE  Rebuilds(s)'
      BY <1>1, <2>1, Zenon DEF Rebuilds, RowsOf, Verified, Present
    <2>2. Names' = Names /\ DeltaRebuilds
      BY <1>1 DEF Names, IInv
    <2>. QED
      BY <2>1, <2>2 DEF DeltaRebuilds
  <1>5. Names' = Names
    BY <1>1 DEF Names
  <1>. QED
    BY <1>2, <1>3, <1>4, <1>5

LEMMA DescribeStep ==
  ASSUME IInv, NEW s \in Names, Describe(s)
  PROVE  IInv'
  <1>0. /\ TypeOK /\ NamesInv /\ ShowsItsSnapshot /\ DeltaRebuilds
        /\ Len(snaps) \in Nat /\ Len(snaps) <= MaxSnap
    BY LenProperties DEF IInv, TypeOK, ChainTypeOK
  <1>1. /\ descriptors' = Append(descriptors, s) /\ Len(descriptors) < MaxDescriptor
        /\ UNCHANGED <<snaps, evidence, tracker, index, peer, trust, pull>>
    BY DEF Describe, chainVars, peersVars
  <1>2. s \in 1..MaxSnap
    BY <1>0, SnapshotAssumption DEF Names
  <1>3. /\ descriptors' \in Seq(1..MaxSnap) /\ Len(descriptors) \in Nat
        /\ Len(descriptors') = Len(descriptors) + 1
        /\ \A d \in 1..Len(descriptors) : descriptors'[d] = descriptors[d]
        /\ descriptors'[Len(descriptors) + 1] = s
    BY <1>0, <1>1, <1>2, AppendProperties, LenProperties DEF TypeOK
  <1>4. TypeOK'
    BY <1>0, <1>1, <1>3, PeerAssumption DEF TypeOK, ChainTypeOK
  <1>5. NamesInv'
    <2>1. ASSUME NEW d \in 1..(Len(descriptors) + 1) PROVE descriptors'[d] \in Names
      <3>1. CASE d \in 1..Len(descriptors)
        BY <1>0, <1>3, <3>1 DEF NamesInv
      <3>2. CASE d = Len(descriptors) + 1
        BY <1>3, <3>2
      <3>. QED
        BY <1>3, <3>1, <3>2
    <2>2. Names' = Names
      BY <1>1 DEF Names
    <2>. QED
      BY <1>0, <1>1, <1>3, <2>1, <2>2 DEF NamesInv
  <1>6. ShowsItsSnapshot' /\ DeltaRebuilds'
    BY ChainUntouched DEF Describe
  <1>. QED
    BY <1>4, <1>5, <1>6 DEF IInv

-----------------------------------------------------------------------------
(* Every step preserves the invariant *)

LEMMA StepIInv ==
  ASSUME IInv, Next
  PROVE  IInv'
  <1>0. /\ TypeOK /\ ChainTypeOK /\ NamesInv /\ ShowsItsSnapshot
        /\ Len(snaps) \in Nat /\ Len(descriptors) \in Nat
        /\ Len(snaps) <= MaxSnap /\ Len(descriptors) <= MaxDescriptor
    BY LenProperties DEF IInv, TypeOK, ChainTypeOK
  <1>1. Names \subseteq 1..MaxSnap
    BY <1>0, SnapshotAssumption DEF Names
  <1>2. ASSUME NEW m \in Mirror, NEW s \in Names, NEW missed \in SUBSET (index[m] \ {s}),
                PublishTo(m, s, missed)
        PROVE  IInv'
    <2>1. /\ UNCHANGED <<chainVars, descriptors, peer, trust, pull>>
          /\ index' = [index EXCEPT ![m] = (index[m] \ missed) \union {s}]
      BY <1>2 DEF PublishTo, Entered, peersVars
    <2>2. \A n \in Mirror : index'[n] \subseteq Names
      BY <1>0, <1>2, <2>1 DEF NamesInv, TypeOK
    <2>3. index' \in [Mirror -> SUBSET (1..MaxSnap)]
      BY <1>0, <1>1, <2>1, <2>2 DEF TypeOK
    <2>. QED
      BY <1>0, <2>1, <2>2, <2>3, ChainUntouched DEF IInv, TypeOK, NamesInv
  <1>3. CASE TrustLoad
    <2>1. /\ UNCHANGED <<chainVars, index, descriptors, peer, pull>>
          /\ trust' = [pc |-> "save", store |-> peer]
      BY <1>3 DEF TrustLoad
    <2>2. trust' \in [pc : {"idle", "save"}, store : 0..MaxDescriptor]
      BY <1>0, <2>1 DEF TypeOK
    <2>. QED
      BY <1>0, <2>1, <2>2, ChainUntouched DEF IInv, TypeOK, NamesInv
  <1>4. ASSUME NEW d \in 1..MaxDescriptor, TrustSave(d) \/ TrustAtOnce(d)
        PROVE  IInv'
    <2>1. /\ UNCHANGED <<chainVars, index, descriptors, pull>>
          /\ peer' = d /\ d \in 1..Len(descriptors)
          /\ trust' = NoTrust \/ trust' = trust
      BY <1>4 DEF TrustSave, TrustAtOnce
    <2>2. /\ trust' \in [pc : {"idle", "save"}, store : 0..MaxDescriptor]
          /\ trust'.store \in 0..Len(descriptors)
      BY <1>0, <2>1, PeerAssumption DEF TypeOK, NamesInv, NoTrust
    <2>3. peer' \in 0..MaxDescriptor /\ peer' \in 0..Len(descriptors)
      BY <1>0, <2>1, PeerAssumption
    <2>. QED
      BY <1>0, <2>1, <2>2, <2>3, ChainUntouched DEF IInv, TypeOK, NamesInv
  <1>5. CASE PullStart(SUBSET Mirror)
    <2>. DEFINE target == TargetOf(pull.store)
    <2>1. /\ UNCHANGED <<chainVars, index, descriptors, peer, trust>>
          /\ pull' = [pc |-> "import", store |-> 0, todo |-> PathTo(target)]
          /\ pull.pc = "start"
      BY <1>5 DEF PullStart
    <2>2. target \in Names
      BY <1>0, <2>1 DEF TargetOf, NamesInv
    <2>3. PathTo(target) \subseteq Names
      BY <2>2 DEF PathTo
    <2>. HIDE DEF target
    <2>4. PathTo(target) \in SUBSET (1..MaxSnap)
      BY <1>1, <2>3
    <2>5. pull' \in PullState
      <3>. DEFINE path == PathTo(target)
      <3>1. path \in SUBSET (1..MaxSnap) /\ pull' = [pc |-> "import", store |-> 0, todo |-> path]
        BY <2>1, <2>4
      <3>. HIDE DEF path
      <3>. QED
        BY <3>1, PeerAssumption DEF PullState
    <2>. QED
      BY <1>0, <2>1, <2>3, <2>5, ChainUntouched DEF IInv, TypeOK, PullState, NamesInv
  <1>6. CASE PullEnd
    <2>1. /\ UNCHANGED <<chainVars, index, descriptors, peer, trust>> /\ pull' = NoPull
      BY <1>6 DEF PullEnd
    <2>. QED
      BY <1>0, <2>1, PeerAssumption, ChainUntouched DEF IInv, TypeOK, NamesInv, NoPull
  <1>10. ASSUME NEW pc \in {"refresh", "start"}, PullLoad(pc) PROVE IInv'
    <2>1. /\ UNCHANGED <<chainVars, index, descriptors, peer, trust>> /\ peer # 0
          /\ pull' = [pc |-> pc, store |-> peer, todo |-> {}]
      BY <1>10 DEF PullLoad
    <2>2. pull' \in PullState
      BY <1>0, <2>1 DEF TypeOK, PullState
    <2>. QED
      BY <1>0, <2>1, <2>2, ChainUntouched DEF IInv, TypeOK, PullState, NamesInv
  <1>11. ASSUME NEW d \in 1..MaxDescriptor, PullRefresh(d) PROVE IInv'
    <2>1. /\ UNCHANGED <<chainVars, index, descriptors, trust>>
          /\ peer' = d /\ d \in 1..Len(descriptors)
          /\ pull' = [pull EXCEPT !.pc = "start", !.store = d]
      BY <1>11 DEF PullRefresh
    <2>2. /\ pull' \in PullState /\ pull'.store = d /\ pull'.todo = pull.todo
          /\ peer' \in 0..MaxDescriptor
      <3>1. pull \in PullState /\ d \in 0..MaxDescriptor
        BY <1>0, PeerAssumption DEF TypeOK, PullState
      <3>. QED
        BY <2>1, <3>1 DEF PullState
    <2>3. peer' \in 0..Len(descriptors) /\ d # 0
      BY <1>0, <2>1
    <2>. QED
      BY <1>0, <2>1, <2>2, <2>3, ChainUntouched DEF IInv, TypeOK, PullState, NamesInv
  <1>12. CASE PullUpToDate \/ PullMark
    <2>1. /\ UNCHANGED <<chainVars, index, descriptors, trust>>
          /\ peer' = pull.store /\ pull' = NoPull
      BY <1>12 DEF PullUpToDate, PullMark
    <2>2. peer' \in 0..Len(descriptors) /\ peer' \in 0..MaxDescriptor
      BY <1>0, <2>1 DEF NamesInv, TypeOK
    <2>3. pull' \in PullState
      BY <2>1, PeerAssumption DEF PullState, NoPull
    <2>. QED
      BY <1>0, <2>1, <2>2, <2>3, ChainUntouched DEF IInv, TypeOK, PullState, NamesInv, NoPull
  <1>13. CASE PullReload
    <2>1. /\ UNCHANGED <<chainVars, index, descriptors, peer, trust>>
          /\ pull' = [pc |-> "mark", store |-> peer, todo |-> {}]
      BY <1>13 DEF PullReload
    <2>2. pull' \in PullState
      BY <1>0, <2>1 DEF TypeOK, PullState
    <2>3. peer # 0
      BY <1>0, <1>13 DEF PullReload, NamesInv
    <2>. QED
      BY <1>0, <2>1, <2>2, <2>3, ChainUntouched DEF IInv, TypeOK, PullState, NamesInv
  <1>7. ASSUME NEW s \in Names, Apply(s) PROVE ChainTypeOK' /\ ShowsItsSnapshot' /\ DeltaRebuilds' /\ Names' = Names
    <2>1. ChainTypeOK' /\ RowIsText(evidence)' /\ Shown' = RowsOf(s) /\ tracker' = s /\ snaps' = snaps
      BY <1>0, <1>7, ApplyShows DEF ShowsItsSnapshot
    <2>2. RowsOf(tracker)' = RowsOf(s) /\ tracker' \in 0..Len(snaps')
      BY <1>0, <2>1 DEF RowsOf, Names
    <2>3. DeltaRebuilds'
      BY <2>1 DEF IInv, DeltaRebuilds, Rebuilds, Verified, RowsOf, Names
    <2>. QED
      BY <2>1, <2>2, <2>3 DEF ShowsItsSnapshot, Names
  <1>8. ASSUME NEW s \in Names, Import(s) PROVE IInv'
    <2>1. UNCHANGED <<index, descriptors, peer, trust, pull>>
      BY <1>8 DEF Import, peersVars
    <2>. QED
      BY <1>0, <1>7, <1>8, <2>1 DEF Import, IInv, TypeOK, NamesInv
  <1>9. CASE PullImport
    <2>1. PICK s \in pull.todo : /\ Apply(s) \/ (s = tracker /\ UNCHANGED chainVars)
                                 /\ pull' = [pull EXCEPT !.todo = @ \ {s}]
      BY <1>9 DEF PullImport
    <2>2. s \in Names /\ UNCHANGED <<index, descriptors, peer, trust>>
      BY <1>0, <1>9, <2>1 DEF NamesInv, PullImport
    <2>3. /\ pull' \in PullState /\ pull'.todo \subseteq Names
          /\ pull'.pc = pull.pc /\ pull'.store = pull.store
      <3>1. pull \in PullState
        BY <1>0 DEF TypeOK, PullState
      <3>. QED
        BY <1>0, <2>1, <3>1 DEF NamesInv, PullState
    <2>4. ChainTypeOK' /\ ShowsItsSnapshot' /\ DeltaRebuilds' /\ Names' = Names
      BY <1>7, <2>1, <2>2, ChainUntouched
    <2>. QED
      BY <1>0, <2>2, <2>3, <2>4 DEF IInv, TypeOK, PullState, NamesInv
  <1>. QED
    BY <1>2, <1>3, <1>4, <1>5, <1>6, <1>8, <1>9, <1>10, <1>11, <1>12, <1>13, SignStep, DescribeStep
       DEF Next, Publish, Packages, Receive

LEMMA Inductive == Spec => []IInv
  <1>1. ASSUME IInv, [Next]_vars PROVE IInv'
    <2>1. CASE Next
      BY <1>1, <2>1, StepIInv
    <2>2. CASE UNCHANGED vars
      <3>1. UNCHANGED <<chainVars, index, descriptors, peer, trust, pull>>
        BY <2>2 DEF vars, peersVars
      <3>. QED
        BY <1>1, <3>1, ChainUntouched DEF IInv, TypeOK, NamesInv
    <2>. QED
      BY <1>1, <2>1, <2>2
  <1>. QED
    BY <1>1, InitIInv, PTL DEF Spec

-----------------------------------------------------------------------------
(* Theorems *)

\* Every value stays in its type, and a pull never has anything to import that
\* was not signed (pull-peer.mjs, peer-store.mjs, snapshot-mirror.mjs).
THEOREM PeersTyped == Spec => []TypeOK
  <1>. QED
    BY Inductive, PTL DEF IInv

\* Wherever a pull ends and whatever is imported by hand, the receiver shows
\* exactly one snapshot (pullTrustedPeer).
THEOREM PullShowsOneSnapshot == Spec => []ShowsItsSnapshot
  <1>. QED
    BY Inductive, PTL DEF IInv

\* Whoever the signers are, and wherever a pull or an import by hand has left the
\* receiver, the next snapshot of its chain is refused for nothing but a version
\* used twice: this is why a pull that was cut off can go on (pullTrustedPeer).
THEOREM PullsAreNotRefused == Spec => []NeverRefusedForItsDelta
  <1>1. IInv => NeverRefusedForItsDelta
    BY RightDeltasContinue DEF IInv, TypeOK
  <1>. QED
    BY <1>1, Inductive, PTL

\* A step after which the descriptor is older writes back a store that was read before
\* another writer wrote its own.
OlderOnlyIfStale ==
  \/ peer' >= peer
  \/ trust.pc = "save" /\ trust.store < peer /\ trust' # trust
  \/ pull.pc \in {"refresh", "start", "mark"} /\ pull.store < peer /\ pull' # pull

\* The descriptor gets older only by a writer that had read peers.json before
\* another one wrote it, be it one that marks a pull (trustPeerDescriptor,
\* markPeerPulled, savePeerStore).
THEOREM DescriptorGetsNewer == Spec => OlderOnlyByStaleWriter
  <1>1. ASSUME IInv, [Next]_vars
        PROVE  [OlderOnlyIfStale]_vars
    <2>0. peer \in Nat /\ trust.store \in Nat /\ pull.store \in Nat
      BY <1>1, PeerAssumption DEF IInv, TypeOK
    <2>1. CASE UNCHANGED peer
      BY <2>0, <2>1 DEF OlderOnlyIfStale
    <2>2. ASSUME NEW d \in 1..MaxDescriptor, TrustSave(d)
          PROVE  OlderOnlyIfStale
      <3>1. /\ peer' = d /\ d >= trust.store /\ trust.pc = "save" /\ d \in Nat
            /\ trust' = NoTrust
        BY <2>2, PeerAssumption DEF TrustSave, Newer
      <3>2. trust' # trust
        BY <3>1 DEF NoTrust
      <3>. QED
        BY <2>0, <3>1, <3>2 DEF OlderOnlyIfStale
    <2>3. ASSUME NEW d \in 1..MaxDescriptor, TrustAtOnce(d)
          PROVE  OlderOnlyIfStale
      BY <2>3 DEF TrustAtOnce, Newer, OlderOnlyIfStale
    <2>4. ASSUME NEW d \in 1..MaxDescriptor, PullRefresh(d)
          PROVE  OlderOnlyIfStale
      <3>1. /\ peer' = d /\ d >= pull.store /\ pull.pc = "refresh" /\ d \in Nat
            /\ pull'.pc = "start"
        BY <1>1, <2>4, PeerAssumption DEF PullRefresh, Newer, IInv, TypeOK
      <3>2. pull' # pull
        BY <3>1
      <3>. QED
        BY <2>0, <3>1, <3>2 DEF OlderOnlyIfStale
    <2>5. CASE PullUpToDate \/ PullMark
      <3>1. /\ peer' = pull.store /\ pull.pc \in {"start", "mark"}
            /\ pull' = NoPull
        BY <2>5 DEF PullUpToDate, PullMark
      <3>2. pull' # pull
        BY <3>1 DEF NoPull
      <3>. QED
        BY <2>0, <3>1, <3>2 DEF OlderOnlyIfStale
    <2>. QED
      BY <1>1, <2>1, <2>2, <2>3, <2>4, <2>5 DEF vars, peersVars, Next, Publish, Receive, Sign,
         PublishTo, Describe, TrustLoad, PullLoad, PullStart, PullImport, PullReload, PullEnd, Import
  <1>2. OlderOnlyByStaleWriter <=> [][OlderOnlyIfStale]_vars
    BY DEF OlderOnlyByStaleWriter, OlderOnlyIfStale
  <1>. QED
    BY <1>1, <1>2, Inductive, PTL DEF Spec

\* The receiver of a pull is a chain reader: every step is a step of EvidenceFeed,
\* or changes nothing a reader could see.
THEOREM PullImplementsFeed == Spec => ImplementsFeed
  <1>1. Init => Feed!FeedInit
    <2>. SUFFICES ASSUME Init PROVE Feed!FeedInit
      OBVIOUS
    <2>1. snaps = << >> /\ tracker = 0
      BY DEF Init, ChainInit
    <2>2. Shown = NoRows
      BY DEF Init, ChainInit, Shown, NoRows
    <2>. QED
      BY <2>1, <2>2 DEF Feed!FeedInit
  <1>2. IInv /\ [Next]_vars => [Feed!FeedNext]_(Feed!feedVars)
    <2> SUFFICES ASSUME IInv, [Next]_vars PROVE [Feed!FeedNext]_(Feed!feedVars)
      OBVIOUS
    <2>0. ChainTypeOK /\ ShowsItsSnapshot
      BY DEF IInv, TypeOK
    <2>1. CASE UNCHANGED chainVars
      BY <2>1 DEF Feed!feedVars, Shown, chainVars
    <2>2. ASSUME NEW prev \in 0..Len(snaps), NEW rows \in Exportable, Sign(prev, rows)
          PROVE  Feed!SignNext
      <3>1. Len(snaps') = Len(snaps) + 1 /\ \A s \in Names : snaps'[s] = snaps[s]
        BY <2>2, SignStep
      <3>2. Shown' = Shown /\ UNCHANGED tracker
        BY <2>2 DEF Sign, Shown
      <3>. QED
        BY <3>1, <3>2 DEF Feed!SignNext, Names
    <2>3. ASSUME NEW s \in Names, Apply(s) PROVE Feed!Advance(s)
      <3>1. Shown' = RowsOf(s) /\ tracker' = s /\ snaps' = snaps /\ Acceptable(snaps[s])
        BY <2>0, <2>3, ApplyShows DEF Apply, ShowsItsSnapshot
      <3>2. tracker = 0 \/ snaps[s].prev = tracker
        BY <3>1 DEF Acceptable, Continues
      <3>. QED
        BY <3>1, <3>2 DEF Feed!Advance, Feed!Content, RowsOf
    <2>4. ASSUME PullImport PROVE UNCHANGED chainVars \/ \E s \in Names : Apply(s)
      BY <2>4 DEF PullImport, IInv, NamesInv
    <2>. QED
      BY <2>1, <2>2, <2>3, <2>4 DEF Feed!FeedNext, Names, Packages, vars, Next, Publish, Receive, PublishTo,
         Describe, TrustLoad, TrustSave, TrustAtOnce, PullLoad, PullRefresh, PullUpToDate, PullStart,
         PullReload, PullMark, PullEnd, Import
  <1>. QED
    BY <1>1, <1>2, Inductive, PTL DEF Spec, ImplementsFeed, Feed!FeedSpec
=============================================================================
