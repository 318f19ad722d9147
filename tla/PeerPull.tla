------------------------------ MODULE PeerPull ------------------------------
(***************************************************************************)
(* How the snapshots get from the source to the receiver: mirrors with an  *)
(* index, signed peer descriptors and the pull                             *)
(* (sites-app/src/snapshot-mirror.mjs, peer-discovery.mjs,                 *)
(* scripts/federation/).                                                   *)
(*                                                                         *)
(* Every tool is a process of its own that reads files, waits and writes   *)
(* files; nothing locks them.  One that ends half-way is one that takes no *)
(* further step, the puller is also started again.  Of the source no more  *)
(* is assumed than Federation establishes: a new snapshot continues some   *)
(* snapshot before it and says what changed since that one.                *)
(***************************************************************************)
EXTENDS Snapshots, FiniteSets

CONSTANTS Mirror,         \* directories that mirrors are served from
          Copy,           \* Copy[m][s]: the bytes of snapshot s that m is given;
                          \* m is given those of DOMAIN Copy[m]
          Released,       \* rows of the contributions that are released
          MaxDescriptor,  \* bound: descriptors
          MaxChain        \* --max-chain of pull-peer.mjs

ASSUME PeerAssumption ==
  Released \subseteq Row /\ MaxDescriptor \in Nat /\ MaxChain \in Nat \ {0}

VARIABLES
  index,        \* the index.json of each mirror
  descriptors,  \* the latest snapshots of the descriptors, oldest first
  peer,         \* the receiver: the descriptor in peers.json, 0: not trusted
  trust,        \* the receiver: a run of trust-peer.mjs; others may run meanwhile
  pull          \* the receiver: the run of pull-peer.mjs

peersVars == <<peer, trust, pull>>
vars      == <<chainVars, index, descriptors, peersVars>>

NoTrust == [pc |-> "idle", store |-> 0]
NoPull  == [pc |-> "idle", store |-> 0, todo |-> {}]

TypeOK ==
  /\ ChainTypeOK
  /\ index \in [Mirror -> SUBSET (1..MaxSnap)]
  /\ descriptors \in Seq(1..MaxSnap) /\ Len(descriptors) <= MaxDescriptor
  /\ peer \in 0..MaxDescriptor
  /\ trust \in [pc : {"idle", "save"}, store : 0..MaxDescriptor]
  /\ pull \in [pc : {"idle", "refresh", "start", "import", "mark"},
               store : 0..MaxDescriptor, todo : SUBSET (1..MaxSnap)]

Init ==
  /\ ChainInit
  /\ index = [m \in Mirror |-> {}]
  /\ descriptors = << >>
  /\ peer = 0 /\ trust = NoTrust /\ pull = NoPull

-----------------------------------------------------------------------------
(* The source publishes *)

\* What an export may contain of each contribution: nothing or a release.
Exportable == [Rec -> Released \union {NoRow}]

\* exportFederationSnapshot(), see Federation.  Stamps are only compared, so
\* that they may be numbered in the order in which they are exported.
Sign(prev, rows) ==
  /\ Len(snaps) < MaxSnap
  /\ \A r \in Rec : rows[r][2] <= Len(snaps) + 1
  /\ Signed(prev, rows)
  /\ UNCHANGED <<evidence, tracker, index, descriptors, peersVars>>

\* packageSignedSnapshot(): a directory named for the snapshot, complete once it is
\* there, of every snapshot that some mirror is given; making it again changes nothing.
Packages == {s \in Names : \E m \in Mirror : s \in DOMAIN Copy[m]}

\* upsertMirrorIndex(): an entry for the snapshot, once.
Entered(entries, s) == entries \union {s}

\* publishPackageToMirrors(): the package is copied, the index is read, gets its entry
\* and is written, without the entries that other publishers wrote since it was read.
\* A package with other bytes does not replace the one that is there, even one whose
\* entry was lost: a mirror has each snapshot in one form for good, which Copy names.
PublishTo(m, s, missed) ==
  /\ s \in DOMAIN Copy[m]
  /\ index' = [index EXCEPT ![m] = Entered(index[m] \ missed, s)]
  /\ UNCHANGED <<chainVars, descriptors, peersVars>>

\* createPeerDescriptor() of any package of the source; its position is its generatedAt.
Describe(s) ==
  /\ Len(descriptors) < MaxDescriptor
  /\ descriptors' = Append(descriptors, s)
  /\ UNCHANGED <<chainVars, index, peersVars>>

-----------------------------------------------------------------------------
(* The receiver trusts a descriptor *)

\* trustDescriptorIntoInstance(): peers.json is read, the descriptor fetched ...
TrustLoad ==
  /\ trust.pc = "idle"
  /\ trust' = [pc |-> "save", store |-> peer]
  /\ UNCHANGED <<chainVars, index, descriptors, peer, pull>>

\* Mutant of Newer: an older descriptor is as good as a newer one.
NewerNotCompared(d, trusted) == d # trusted

\* trustPeerDescriptor(): the time of a descriptor must not go back.
Newer(d, trusted) == d >= trusted

\* ... and the file written, if the descriptor is not older than the one read.
TrustSave(d) ==
  /\ trust.pc = "save"
  /\ d \in 1..Len(descriptors) /\ Newer(d, trust.store)
  /\ peer' = d
  /\ trust' = NoTrust
  /\ UNCHANGED <<chainVars, index, descriptors, pull>>

\* Another run, from its reading to its writing.
TrustAtOnce(d) ==
  /\ d \in 1..Len(descriptors) /\ Newer(d, peer)
  /\ peer' = d
  /\ UNCHANGED <<chainVars, index, descriptors, trust, pull>>

-----------------------------------------------------------------------------
(* The receiver pulls *)

TargetOf(d) == IF d = 0 THEN 0 ELSE descriptors[d]
Target      == TargetOf(peer)

\* The snapshot and all before it, back to the genesis.
Ancestors[s \in 0..MaxSnap] ==
  IF s = 0 \/ s > Len(snaps) THEN {0} ELSE {s} \union Ancestors[snaps[s].prev]

\* What is walked back over: to the snapshot the tracker names, and the target
\* alone when there is no tracker.
PathTo(s) ==
  IF tracker = 0 THEN {s} ELSE {x \in Names : x \in Ancestors[s] /\ x > tracker}

\* loadMirrorIndexes(), fetchRoot(): of the mirrors that answer at least one lists the
\* snapshot, and the copies of all that do are equal byte for byte.  Two files may
\* differ and be signed alike, for the signature is one of the content.
Fetchable(x, up) ==
  LET holders == {m \in up : x \in index[m]} IN
  /\ holders # {}
  /\ \A m, n \in holders : Copy[m][x] = Copy[n][x]

\* The path can be fetched, ends at the tracker's snapshot and is not too long; which
\* mirrors answer, one of the sets of `ups', may change with each snapshot.
Reachable(s, ups) ==
  /\ tracker = 0 \/ tracker \in Ancestors[s]
  /\ \A x \in PathTo(s) : \E up \in ups : Fetchable(x, up)
  /\ Cardinality(PathTo(s)) <= MaxChain

\* pullTrustedPeer(): peers.json is read, by a run with --refresh-descriptor or without.
PullLoad(pc) ==
  /\ pull.pc = "idle" /\ peer # 0
  /\ pull' = [pc |-> pc, store |-> peer, todo |-> {}]
  /\ UNCHANGED <<chainVars, index, descriptors, peer, trust>>

\* refreshPeerIfRequested(): a descriptor is fetched, compared with the one that was
\* read and written.
PullRefresh(d) ==
  /\ pull.pc = "refresh"
  /\ d \in 1..Len(descriptors) /\ Newer(d, pull.store)
  /\ peer' = d
  /\ pull' = [pull EXCEPT !.pc = "start", !.store = d]
  /\ UNCHANGED <<chainVars, index, descriptors, trust>>

\* UP_TO_DATE: the time is noted, and peers.json written back as it was read.
PullUpToDate ==
  /\ pull.pc = "start" /\ tracker = TargetOf(pull.store)
  /\ peer' = pull.store
  /\ pull' = NoPull
  /\ UNCHANGED <<chainVars, index, descriptors, trust>>

\* The whole path is fetched first.
PullStart(ups) ==
  LET target == TargetOf(pull.store) IN
  /\ pull.pc = "start" /\ target # tracker
  /\ Reachable(target, ups)
  /\ pull' = [pc |-> "import", store |-> 0, todo |-> PathTo(target)]
  /\ UNCHANGED <<chainVars, index, descriptors, peer, trust>>

\* importFederationSnapshot() of the oldest that is left; one that the tracker
\* names already is skipped.
PullImport ==
  /\ pull.pc = "import"
  /\ \E s \in pull.todo :
        /\ \A t \in pull.todo : s <= t
        /\ Apply(s) \/ (s = tracker /\ UNCHANGED chainVars)
        /\ pull' = [pull EXCEPT !.todo = @ \ {s}]
  /\ UNCHANGED <<index, descriptors, peer, trust>>

\* All are imported: peers.json is read again ...
PullReload ==
  /\ pull.pc = "import" /\ pull.todo = {}
  /\ pull' = [pc |-> "mark", store |-> peer, todo |-> {}]
  /\ UNCHANGED <<chainVars, index, descriptors, peer, trust>>

\* ... and written back with the time of the pull (markPeerPulled, savePeerStore).
PullMark ==
  /\ pull.pc = "mark"
  /\ peer' = pull.store
  /\ pull' = NoPull
  /\ UNCHANGED <<chainVars, index, descriptors, trust>>

\* A descriptor, a mirror or an import is refused, or the process ends.
PullEnd ==
  /\ pull.pc # "idle"
  /\ pull' = NoPull
  /\ UNCHANGED <<chainVars, index, descriptors, peer, trust>>

\* import.mjs, by hand.
Import(s) == Apply(s) /\ UNCHANGED <<index, descriptors, peersVars>>

-----------------------------------------------------------------------------
Publish ==
  \/ \E prev \in 0..Len(snaps), rows \in Exportable : Sign(prev, rows)
  \/ \E m \in Mirror, s \in Packages : \E missed \in SUBSET (index[m] \ {s}) : PublishTo(m, s, missed)
  \/ \E s \in Packages : Describe(s)

Receive ==
  \/ TrustLoad
  \/ \E d \in 1..MaxDescriptor : TrustSave(d) \/ TrustAtOnce(d)
  \/ \E pc \in {"refresh", "start"} : PullLoad(pc)
  \/ \E d \in 1..MaxDescriptor : PullRefresh(d)
  \/ PullUpToDate \/ PullStart(SUBSET Mirror)
  \/ PullImport \/ PullReload \/ PullMark \/ PullEnd
  \/ \E s \in Names : Import(s)

Next == Publish \/ Receive

\* The operator repeats the pull (docs/v0_8), the mirrors are up all at once again
\* and again, not every run is cut off before its next import, and every run ends.
Fairness ==
  /\ SF_vars(PullLoad("start")) /\ SF_vars(PullStart({Mirror}))
  /\ SF_vars(PullImport) /\ WF_vars(PullEnd)

Spec == Init /\ [][Next]_vars /\ Fairness

-----------------------------------------------------------------------------
(* Properties *)

\* The receiver's records are those of a chain reader, whatever the mirrors
\* hold, whatever the descriptor says and wherever a pull ends.
Feed == INSTANCE EvidenceFeed WITH
          Nothing <- NoRows, feed <- snaps, position <- tracker, shown <- Shown, kept <- {}
ImplementsFeed == Feed!FeedSpec

\* The trusted descriptor never gets older, so that no mirror leads the
\* receiver back to an old target; only a writer of peers.json that read the
\* file before another one wrote it does: one that trusts a descriptor, refreshes
\* it or marks its pull (trustPeerDescriptor, markPeerPulled, savePeerStore).
OlderOnlyByStaleWriter ==
  [][\/ peer' >= peer
     \/ trust.pc = "save" /\ trust.store < peer /\ trust' # trust
     \/ pull.pc \in {"refresh", "start", "mark"} /\ pull.store < peer /\ pull' # pull]_vars

\* What may stop a pull for good: a chain that is not on the mirrors, is there in
\* several forms, does not lead to the receiver's snapshot or is too long, or a
\* version that goes back or is used twice.
Followable ==
  LET path == PathTo(Target) IN
  /\ peer # 0
  /\ Reachable(Target, {Mirror})
  /\ \A r \in Rec, s \in path : RowsOf(s)[r] # NoRow =>
        /\ evidence[r].status # "ABSENT" => NoConflict(evidence[r].row, RowsOf(s)[r])
        /\ \A t \in path :
              t > s /\ RowsOf(t)[r] # NoRow => NoConflict(RowsOf(s)[r], RowsOf(t)[r])

\* Nothing else does: no delta is refused, and a pull that was cut off between
\* two imports is continued by the next one (pullTrustedPeer).
CatchesUp == <>[]Followable => []<>(tracker = Target)
=============================================================================
