# Labor Transparency AI: specifications and proofs

TLA+ models of the parts of this repository in which the order of events
matters, TLC configurations that check them on small instances, and proofs,
checked by TLAPS, of what matters most for all instances. Paths below are
relative to the repository (`src/` in the source column of `PROJECT.json`).

## 1. The system and its parts

The project keeps a public register of companies and of what is known about
work there. People without accounts add companies and contributions, reviewers
grade contributions, and an unattended research collects public records. The
same domain logic (`sites-app/src/domain.mjs`) runs in two deployments: Cloudflare
Workers on D1 in production, and a Node process on a JSON file for anyone who
hosts an instance. Instances exchange signed snapshots. An older candidate
platform in Python runs locally.

| Component | State it keeps | Operations | Interacts with |
|---|---|---|---|
| D1 store, `cloudflare-backend/src/d1-store.mjs` | `ltp_meta`, `ltp_records`, `ltp_write_lock` | `init`, `read`, `transaction` | every Worker request, cron and queue consumer; the community-agent fallback, which writes the same tables |
| File store, `sites-app/src/storage.mjs` | the JSON file, `this.state`, the promise chain `this.queue` | `init`, `read`, `transaction` | `server.mjs`; the offline federation and backup tools, which open the same file |
| Contribution lifecycle, `domain.mjs` | `contributions`, `flags`, `reviews`, `exportReviews` | add, update, withdraw, flag, review, approve-export; queue and public projections | the desk page (`public/app.js`), which decides on a card loaded earlier |
| Company research, `company-research.mjs`, `worker.mjs` | `companyResearch` records; a queue and its dead-letter queue | create, dispatch, fallback, claim, collect, merge, fail, dead letter, batch API | Cloudflare Queues and cron; the store, one transaction per step |
| Catalog, ballots, showcase, `domain.mjs` | `companies`, `ballots` | add, vote, summaries | the stores |
| Advisory cases, `domain.mjs` | cases, advice, daily reports | submit, withdraw, advise, daily run | the Worker, its cron, the loop agent |
| Official facts, feedback, announcements, `domain.mjs` | references, relations, events, messages, responses, announcements, daily runs | upserts, responses | community agents, by the Worker or directly on D1 |
| Federation, `federation.mjs`, `scripts/federation/` | `export-state.json` and signed snapshots; `federatedEvidence`, `federationImports` | export, package, import | other instances, by files; backups of either instance |
| Peers and mirrors, `peer-discovery.mjs`, `snapshot-mirror.mjs` | `peers.json`, mirror indexes | describe, trust, publish, pull, resolve | federation |
| Community-agent fallback, `scripts/community_agent/d1_fallback.mjs` | a lock row with a lease of its own, a local lock directory | read, write, a test of the revision | the D1 store; clients that send again by this way and kill it after 90 s |
| Research projections, `autonomous-intelligence.mjs`, `company-dossier.mjs`, `research-status.mjs` | none | identity, facts, conflicts, gaps, page, health | company research |
| Instance tooling, `scripts/instance/` | the instance directory | bootstrap, backup, restore | the file store, federation |
| Python candidate, `app/` | SQLite | identity, community, research scheduler, publication | its own scheduler process |

Further parts without state worth a model (collectors of official sources,
proxies, packaging) are listed in `PROJECT.json` with the reason.

### What is hard

- **Concurrency.** Worker isolates share nothing but the database; a
  transaction is six separate calls, guarded by a lease that is compared with
  the clocks of the callers. Desks decide on cards that are minutes old. The
  queue consumer, two cron triggers and an API claim the same research record.
  Two programs write the production database. The federation tools share files
  that nothing locks.
- **Failure.** Isolates die between calls, answers are lost, releases fail;
  processes end between a temporary file and its rename, or between two files
  that belong together; mutators throw halfway; any of a dozen sources is down.
- **Ordering and repetition.** Messages are duplicated, redelivered and lost;
  late workers write after those who superseded them, and a command may still be
  executed when whoever sent it has been killed; snapshots form a chain.
- **Time.** Leases, back-off and refresh periods run out under whoever works.

Each hazard is listed in `PROJECT.json` at its line, with the properties that
cover it or the reason why none does.

### What makes each component correct

- Stores: transactions are atomic and serial, each write raises the revision by
  one, what was acknowledged stays, what was refused leaves no trace, and a dead
  writer does not block the others.
- Lifecycle: verdicts are about the text that was judged, with the support their
  level demands; releases are never older than the review, the text or the
  corrections; corrections are reviewed before a claim counts again; withdrawals
  are final.
- Research: one collector per company, results are kept, everything that is
  asked for is done in the end; a page concludes no more when a source is down,
  and is never bound to another legal entity because of what a source came to
  know, as long as all of its answer is taken.
- Federation: a receiver's evidence is that of one signed snapshot, it moves
  along the chain only, versions never go back, every delta is right, and only a
  disturbed export forks the chain. Whatever mirrors and descriptors do, a pull
  adds nothing to that, and a chain that can be followed is followed to its end;
  only a writer with an old copy of `peers.json` brings an older descriptor back.
- Community service: a request that is executed twice, by two ways, leaves one
  row; no batch erases what was accepted; statuses agree with responses and
  advice.

## 2. Modules

| Module | Models | State and actions |
|---|---|---|
| `AtomicStore` | what both stores promise: a mutator runs alone on the latest state | `records`, `revision`, history `call`; `Apply` |
| `D1Store` | `transaction()` in D1, call by call | lock row, tables, per isolate the local variables; `Begin`, `Stamp`, `AcquireOk/Busy/Fails/AnswerLost`, `ReadMeta`, `ReadRecords`, `Commit`, `Abort`, `Release`, `Crash`, `Tick` |
| `FileStore` | `FileStore` in its process | memory, file, promise chain and its rejection; `Boot`, `Crash`, `Submit`, `Mutate`, `MutatorThrows`, `Refuse`, `WriteTmp`, `WriteFails`, `Rename`, `Swap` |
| `EvidenceLifecycle` | contributions, flags, reviews, releases, and desks | `Add`, `Update`, `Withdraw`, `Raise`, `Load`, `Decide`, `Release` |
| `CompanyResearch` | the research queue and its workers | `Create`, `Fallback`, `Elapse`, `Deliver…`, `Run…`, `Merge…`, `Break`, `MarkFailed…`, `Crash`, `DeadLetter…` |
| `Intelligence` | what a collection makes of the answers of its sources | no state: `Candidates`, `collectCompanyResearch`, `buildAutonomousIntelligence`, `publicCompanyDetail` and what they rest on |
| `CompanyPage` | the two above together: when there is a result, and what it says | |
| `SourceDataset` | what a publishing instance promises about its data set: a version has one text, a row stays as it is until it is released again or leaves | `version`, `text`, `verdict`, `listed`; `Write`, `ListAgain`, `TakeOut` |
| `EvidenceFeed` | what federation promises the readers of a receiver: one snapshot, moved along the chain | `feed`, `position`, `shown`, `kept`; `SignNext`, `Advance`, `Keep`, `FallBack` |
| `Snapshots` | building a snapshot with its delta, and importing one | `snaps`, `evidence`, `tracker`; `Built`, `Apply` |
| `Federation` | exporters, the importer and copies of both instances, on `Snapshots` | the dataset, the export state, `job`; `Edit`, `Release`, `Recall`, `Export…`, `Import`, `BackupSource`, `RestoreSource`, `CopyReceiver`, `PutBackReceiver` |
| `PeerPull` | mirrors, descriptors and the pull, on `Snapshots` | mirror indexes, descriptors, `peers.json`, the runs of its writers; `Sign`, `PublishTo`, `Describe`, `Trust…`, `Pull…`, `Import` |
| `CommunityService` | companies, ballots, feedback, official facts, announcements, advisory cases, and their two writers | the rows, the lock, `job` of each writer; `…Request`, `RunRequest`, `DailyTrigger` (each a `Begin`), `Commit`, `Release`, `Die`, `Kill`, `Land`, `Vanish`, `Expire`, `NextDay` |
| `MC…` | symmetry and inputs for TLC | |
| `…Proofs` | theorems about `D1Store`, `FileStore`, `EvidenceLifecycle`, `CompanyResearch`, `Snapshots`, `Federation`, `PeerPull`, `CommunityService` | |

`D1Store` and `FileStore` instantiate `AtomicStore` and are shown to implement
it; `EvidenceLifecycle` and `CompanyResearch` build on that: one transaction is
one step there. `Federation` and `PeerPull` extend `Snapshots`, and each is shown to
implement `EvidenceFeed`. Two theorems tie a model to what another one takes from
it. `Federation` begins with a data set of versions and stamps: both it
(`SourceMovesAsADataset`, between restores of a backup) and `EvidenceLifecycle`
(`LifecycleIsADataset`) move as `SourceDataset` allows. `PeerPull` signs any
snapshot that continues an earlier one: `OnlySignedIsAdded` says that `Federation`
adds no other, up to a renumbering of stamps, of which only equality matters. `CommunityService` opens the transaction again where its two
writers meet.

### How the models abstract the code

- **A record** of a store is the set of transactions whose edits it carries; a
  mutator adds itself to some records and deletes others. That is enough to see
  a lost, a half or a repeated write. Two transactions of one isolate are two
  members of `Tx`.
- **Time in `D1Store`** is relative: `left` is `expires_at - now` of the lock
  row, `age` is the time since an isolate read `Date.now()`. Isolates have the
  same clock; what separates them is the delay between reading it and the
  statement's execution. `MaxStall` bounds the time from that reading to the
  batch.
- **`D1Store.Abort`** stands for a failing query, a throwing mutator and a
  rejected batch. A batch that ran although its answer was lost is `Commit`
  followed by the release; only what the caller is told differs.
- **The clone of the state and the mutator** are one step in `FileStore`: every
  mutator of `server.mjs` is synchronous.
- **A form** of a contribution is a record of the five inputs that guards
  depend on; validation that refuses an input changes nothing and is left out,
  check boxes that only have to be ticked are ticked. `E0`…`E5` are numbers.
- **The desks** carry `card`, the row of `reviewQueue()` on the screen. The
  server sees only the version it sends. History fields (`seen`, `raisedAfter`,
  `afterReview`, `unseen`) record what the code does not keep.
- **The age** of a research record is one bit, `due`, set by `Elapse` when the
  lease, the back-off or the refresh period of its status has run out. It may
  come right after a claim, because a batch passes one `Date.now()` to all of
  them. The queue is a set: unordered, equal messages are one.
- **Collection** succeeds or breaks in `CompanyResearch`, which leaves out the
  `change` marker of a result. `Intelligence` says what a successful one
  concludes. A world maps each source to what it has to say of the name, a listing
  in the order of the source; a collection is a world and a set of sources that are
  down. The code takes the beginning of an answer only, and `Limit` holds its limits:
  5 rows of GLEIF, filers of the SEC and entities of Wikidata, 8 hits of a search, 30
  rows of a labor database in at most 8 groups of 12 records, of which 6 become
  events, 10 recipients, and 30 events on the page. Candidates are records of the
  fields that rules compare; texts, the parsing of answers, and the limits of the
  projection for readers, which lie above these, are left out.
- **A snapshot** is named by its position in the sequence of all that were
  written, which stands for its root hash; a row is its version and the stamp of
  its release, which stands for the hash of the record. Keys do not change and
  signatures verify. Copies of an instance are backups, or what a server that
  should be stopped still holds in memory.
- **Mirrors** are sets of snapshots; index and package files are checked against
  hashes wherever they are read, and a package that fails is one that is not
  there. `Copy` says which snapshots a mirror is given, and in which bytes: a file
  of a snapshot can be written anew, and is then another one with the same
  signature. A pull fetches its path and then imports item by item; the end of the
  process is the absence of its next step, or `PullEnd`. Before and after that a pull
  reads `peers.json` and writes all of it back (`PullLoad`, `PullRefresh`,
  `PullUpToDate`, `PullReload`, `PullMark`), as a run of `trust-peer.mjs` does.
- **Rows** in `CommunityService` keep what guards and projections compare: ids,
  keys, statuses, days. `text` is the request that wrote a row last. A request to
  the Worker and one to the database are the same mutator between the same
  `Begin` and `Commit`; every request may come any number of times by either way,
  which includes all repetitions by clients. A 24-hour limit counts the messages
  of today for sure and those of yesterday perhaps.
- **Assumed in `CommunityService`**: the clocks of the machines agree (who
  writes stamps the lock and the rows); a Wrangler command with several
  statements is one transaction of the database; a Worker's transaction ends
  within its lease (what happens otherwise is `d1_overrun`).

## 3. Runs

| Run | Instance | States | Shows |
|---|---|---|---|
| `d1_atomic` | 3 isolates, 1 key, lease 1, stall ≤ 1, 2 attempts, fair | 142,812 | `TypeOK`, `MutualExclusion`, `RevisionCountsWrites`, `ImplementsAtomicStore`, `OrphanedLockIsTakenOver` |
| `d1_overrun` | 2 isolates, stall 2, lease 1 | | `RevisionCountsWrites` violated |
| `lifecycle_desks` | 2 users, 2 desks, 2 flags, 4 forms, levels 0 2 3 5 | 1,156,967 | `TypeOK`, `VerdictIsAboutTheText`, `ReleaseIsCurrent`, `CorrectionsAreReviewed`, `WithdrawalIsFinal` |
| `lifecycle_unseen` | the same | | `UnseenCorrectionPauses` violated |
| `file_durable` | 3 transactions, 2 keys | 6,717 | `TypeOK`, `AcknowledgedIsDurable`, `RefusedLeavesNoTrace`, `SeesAcknowledged`, `ImplementsAtomicStore` |
| `file_rejected` | 2 transactions, 1 key | | `RefusedOnlyForItself` violated |
| `research_lease` | 1 company, consumer and 2 requests, 1 retry, fair | 33,157 | `TypeOK`, `OneCollector`, `ResultIsKept`, `CompaniesAreCollected`, `RecoveryEnds` |
| `research_turn` | 2 companies (1 legacy), consumer only, 1 per run, fair; 8 ways a firm describes itself, 146 worlds, limits of 1 to 3, all sets of sources down | 80,550 | `NewCompaniesHaveTheirTurn`, `OutageInventsNothing`, `NeverBoundToAnother` |
| `research_duplicate` | 1 company, 2 requests | | `FreshIsNotCollectedAgain` violated |
| `federation_chain` | 1 record of 2 versions, 2 releases, 3 snapshots, 2 exporters, 1 copy | 1,643,436 | `TypeOK`, `ShowsItsSnapshot`, `NeverRefusedForItsDelta`, `ForksOnlyIfDisturbed`, `ImplementsFeed`, `VersionsNeverGoBack` |
| `peer_pull_chain` | 1 record of 2 versions, 3 snapshots, 2 descriptors, 2 mirrors with one file that differs, chains up to 2, fair | 920,983 | `TypeOK`, `ImplementsFeed`, `OlderOnlyByStaleWriter`, `CatchesUp` |
| `community_ways` | 2 isolates of the Worker, 2 fallbacks, 2 sessions, 1 company, 1 message, 2 cases, 1 fact, 1 announcement, 4 requests, 2 days | 311,783 | `TypeOK`, `OneRowPerKey`, `WritesAreSerial`, `StatusFollowsResponses`, `NothingIsLeftPending`, `NothingIsErased`, `AdviceIsWanted` |

### Why the bounds are enough

- *D1Store.* Three isolates allow a holder, one who waits and one who has just
  lost; with one transaction each, a row can be orphaned, taken over and taken
  over again. Lease and stall are equal, so the boundary `expires_at < now` is met
  from both sides; the mutant that accepts equality is found. One record shows
  lost, repeated and missing writes; for any set of records, leases and numbers of
  isolates the safety properties are proved.
- *EvidenceLifecycle.* Conflicts are between two versions of one contribution,
  two people and two desks; contributions do not influence one another. Two
  reviews let one be superseded; two flags from two users let one be closed while
  the other is open. Forms and levels contain what the guards tell apart: with and
  without scope, sources, an official decision, permission to share, publicity.
- *FileStore.* Three transactions allow one that is answered, one under way and
  one that waits, with restarts in between.
- *CompanyResearch.* A lease is contended by the consumer and two requests; one
  retry reaches the dead-letter queue. In the second run two companies compete for
  the single place of a run, one of them without a record and one just created.
- *Intelligence.* The worlds hold what its rules tell apart: namesakes in one and
  in two countries, wrong numbers, entities found by name, by website, by a guess
  from the short name; each pair of a world and one that knows more is compared,
  and all subsets of sources may be down. Limits are so small that listings exceed
  them: a namesake or a hit is cut off, and events of one source push those of
  another out of the list. The theorems hold for all limits.
- *Federation.* Three snapshots are the fewest with a fork of two tips and a
  common root, and two versions with two releases let content change with and
  without the version. One copy of either instance is put back any number of times.
- *PeerPull.* Two publishers at one mirror lose an entry; two descriptors make one
  old, and a pull can read one and write it back over the other; chains of two items
  can be cut off between them, and three snapshots exceed the longest chain. The
  second snapshot is on both mirrors in two forms, so that it can be had only as long
  as one of them lists it; the third is on one mirror, and the first goes from hand to
  hand. A second version replaces the first or goes back to it; a version that is
  used twice is in `federation_chain`.
- *CommunityService.* Four requests let one be sent by both ways, killed, executed
  late and repeated, with another between. Two isolates of the Worker let two agents
  advise on one case at a time, while a session withdraws it: without the lock TLC
  finds a case with two pieces of advice, and with one isolate it does not. Two
  fallbacks beside them leave an orphaned row and one who waits for it. Two cases and
  two sessions let one change while the other stays. All numbers are free in the
  proofs.

### Fairness

- *D1Store*: `WF(Tick)`, time passes; `WF(Step(p))`, an isolate that is not
  killed goes on and a client that was told 503 tries again (up to `MaxTxn`);
  `SF(AcquireOk(p))`, the database does not refuse every acquisition. Failures
  are not fair: they may happen, and need not stop.
- *CompanyResearch*: `WF(Elapse(c))`, time passes; `SF(Fallback)`, the five-minute
  trigger fires; `WF` of the end of each worker, as the platform limits run time;
  per company `SF` of delivering one of its messages and of merging its result:
  the queue delivers what it keeps, and a public source does not fail for ever.
  Nothing is assumed about the first message, about redelivery or about the API.
- With one company per run, an older company whose collection fails again and
  again can keep a younger one that has failed once from being selected: among
  records of one priority the older comes first. `NewCompaniesHaveTheirTurn` is
  what the order does guarantee; that every company is collected is checked where
  a run has room for all.
- *PeerPull*: `SF(PullLoad("start"))`, the operator repeats the pull, as the
  documents tell him to; `SF(PullStart({Mirror}))`, again and again all mirrors are
  up while one fetches its path, where other runs find any of them down;
  `SF(PullImport)`, not every run is cut off before its next import; `WF(PullEnd)`, a
  run ends. Nothing is assumed about publishers or about `peers.json`.

### Deadlock

The D1, lifecycle, federation, peer and community runs set `CHECK_DEADLOCK FALSE`:
their bounds (`MaxTxn`, `MaxVersion`, `MaxReviews`, the set of flags, `MaxStamp`,
`MaxSnap`, `MaxClock`, `MaxDay`) end a behaviour. The file store and the research
never stop (a process can restart, a cron can fire), and TLC checks it.

## 4. Where the code does something else

1. **A write after the lease** (`d1_overrun`). Nothing ties the batch to the lock
   row or to the revision that was read (`d1-store.mjs:104`). If a transaction takes longer
   than its lease, it overwrites the one that took over, and two accepted writes
   have the same revision; `sites-app/README.md:120` promises that every
   accepted write increments it. All that is proved about the D1 store carries
   the hypothesis that this does not happen.
2. **A correction nobody saw** (`lifecycle_unseen`). A review closes every open flag,
   also one that came in while the reviewer was reading (`domain.mjs:311`), since a
   flag does not change the version; a release can follow. `sites-app/README.md:21`:
   "open corrections pause high-evidence display and public redistribution."
3. **A chain that stays rejected** (`file_rejected`). After one transaction that
   throws, `this.queue` is a rejected promise for good (`storage.mjs:27`), so every
   later write of the self-hosted instance fails with that error until a restart.
4. **A duplicate that collects again** (`research_duplicate`). The fallback allows a
   refresh with every message (`worker.mjs:156`), so a message for a company that
   has meanwhile completed is not the no-op that
   `docs/v0_8/CHANGE-v0.8.1-user-company-auto-research.md:30` describes.

The four above are runs that end in a violation. These came up as well; either
reading the lines is enough to see them, or a property of a passing run states what
remains true:

5. **A new hash under an old version.** A record of a snapshot contains times of review
   and release, and neither a second review nor a second release changes the
   version. The receiver then refuses the snapshot (`federation.mjs:163`), and every later one
   with that row at that version. `INDEPENDENT_INSTANCES_AND_FEDERATION.md:223`
   ("corrected/reapproved version") works where the text was edited; `Apply`
   in `Snapshots` has this guard, and the stamps of `Federation` let it bite.
6. **A descriptor that gets older.** `peer-discovery.mjs:111` refuses a rollback, but
   everyone who writes `peers.json` reads all of it, waits, and writes all of it, without a
   lock. That includes a pull: to note its time (`markPeerPulled`), it writes the
   descriptor back that it has read (`pull-peer.mjs:40` to `:44`, and `:53`), so that even a
   pull that finds nothing to do can undo a descriptor trusted meanwhile, and no
   comparison stands in its way. `OlderOnlyByStaleWriter` says that such stale writers are
   the only way.
7. **What was pulled last** is what that write is for (`peer-discovery.mjs:118`), and
   nothing but a test reads it. A pull starts from the receiver's own tracker, which is why
   `PeerPull` needs no such state.
8. **The test of the revision** in `d1_fallback.mjs:115` comes after the batch and
   passes as well if another writer raised the revision by exactly one. In `CommunityService`
   it therefore protects nothing; the lock does, while leases hold (`late`).
9. **Fingerprints** of the intelligence include `dossier.updatedAt`
   (`autonomous-intelligence.mjs:218`), so that a new collection always has a new one and
   `mergeCompanyResearch` (`company-research.mjs:213`) never says `UNCHANGED`, which
   `CHANGE-v0.8.3-usable-company-dossiers.md:58` announces.
10. **Countries.** `countryCode` reads the beginning of a region ("Shanghai, China" is no
    country, "CA, USA" is Canada), `isChinaCompany` (`company-dossier.mjs:4`) all of it.
    `Intelligence` takes both as given per firm, agreeing or not.
11. **The daily advice** of 9 o'clock counts that day; cases of the rest of the day are
    advised the next morning and are in no report's `receivedCount`. The loop of
    `advisory-agent.mjs:59` ends when one run throws.
12. **Unique on a page.** Whether a namesake is the only one is decided on five rows
    (`company-research.mjs:101`, `:103`). Where a source has more, the entity that was
    bound may be cut off and another be left alone, to which the page then goes over, with
    the reason that the candidate is unique (`autonomous-intelligence.mjs:142`).
    `NeverBoundToAnother` therefore promises nothing of an answer that is cut (`IsCut`).
13. **Room in the list.** The page shows the thirty latest events of all sources
    (`autonomous-intelligence.mjs:88`), so that an outage does not only take events away,
    it lets older ones of other sources in. `OutageInventsNothing` says how far that goes.
14. **Two forms of one snapshot.** A pull refuses a snapshot if two mirrors have it in
    different bytes (`pull-peer.mjs:33`), although each copy is signed by the source, for the
    signature is one of the content and not of the file. One mirror with a file of its own
    stops every pull that reaches another one as well, until one of them lists it no more.
    `Followable` has this condition.

## 5. Proofs

Each proof module defines an inductive invariant `IInv`, proves `Init => IInv` and
`IInv /\ [Next]_vars => IInv'` with one lemma or step per action, and derives
the theorems. TLC checked each `IInv` on the instances above first.

| Module | Theorems | Strengthening and why |
|---|---|---|
| `D1StoreProofs` | `StoreIsTyped`, `LeaseExcludes`, `EveryWriteIsCounted`, `D1ImplementsAtomicStore` | `HolderInv`: a writer in its section holds the row, with `left = LockMs - age`; with `MaxStall <= LockMs` the row then looks unexpired to everybody. `BeforeInv`: what it has read is still in the database. `FreshInv`: its transaction has not been counted yet. |
| `EvidenceLifecycleProofs` | `LifecycleIsTyped`, `VerdictsAreAboutTheText`, `ReleasesAreCurrent`, `CorrectionsAlwaysReviewed`, `WithdrawalsAreFinal`, `LifecycleIsADataset` | `CardInv`: a card with the current version has the current text, the fact that makes comparing versions enough. `ReleaseInv`: what `approveExport()` tested still holds. `FlagInv`: a flag closed without review has left its contribution unreviewed. `AbsentInv`, for the refinement: a contribution exists exactly if it has a version, so that only what was written is released. |
| `FileStoreProofs` | `FileStoreIsTyped`, `AcknowledgedWritesAreDurable`, `MutatorsSeeAcknowledged`, `RefusalsLeaveNoTrace`, `FileImplementsAtomicStore` | `StateInv`: memory and file differ only between rename and answer. `DraftInv`: the draft is one mutator ahead of memory. `AckInv`: nothing is acknowledged before it is in the file. `TraceInv`, on top of these, for the refusals: calls wait in the chain once each, and only a transaction that is being installed, was answered "ok" or lost its connection has left a trace in file or memory. |
| `CompanyResearchProofs` | `ResearchIsTyped`, `OneCollectorAtATime`, `ResultsAreKept`, `RunsTakeTheFirst`, `OutagesOnlyTakeAway`, `PagesInventNothing`, `NewsBindsNoOther`, `EntitiesStay` | `LeaseInv`: the record of an undisturbed company shows the fresh claim of its only worker. The others need no invariant beyond types; their arguments are below. |
| `SnapshotsProofs` | lemmas only | What `Built` signs continues a snapshot and says what changed (`BuiltIsContinuation`), appending one disturbs none (`AppendSnapshot`), after `Apply` the receiver shows it (`ApplyShows`), and a right delta continues what the receiver shows, whatever tombstones it has kept (`RightDeltasContinue`). `RowIsText`, a part of `ShowsItsSnapshot`: evidence has a text exactly if it has a row, a tombstone has none. Both modules below cite them. |
| `FederationProofs` | `FederationTyped`, `ReceiverShowsOneSnapshot`, `DeltasAreRight`, `SuccessorsAreAccepted`, `OnlySignedIsAdded`, `SourceMovesAsADataset`, `UndisturbedIsOneLine`, `RecordsNeverGoBack`, `FederationImplementsFeed` | `CopyInv`: export states and copies hold the rows of the snapshot they name, without which putting one back could show anything. `JobInv`: what an exporter has built continues a snapshot that exists. `LineInv`: as long as nothing is disturbed, one exporter at a time is between its two writes and the state names the tip. `SignInv`, for `OnlySignedIsAdded`: the data set and all its copies contain only what exists, and each built job is a snapshot that could be signed now. |
| `PeerPullProofs` | `PeersTyped`, `DescriptorGetsNewer`, `PullsAreNotRefused`, `PullImplementsFeed` | `NamesInv`: indexes, descriptors and the items of a pull name snapshots that were signed, and what a pull has read of `peers.json` is a descriptor; a pull then only applies such snapshots, and the lemma `ApplyShows` does the rest. `DescriptorGetsNewer` goes through the five writes of `peers.json`: each either compares with what is there or writes an older one as the stale writer that the property names. |
| `CommunityServiceProofs` | `TypeCorrect`, `RevisionCounts`, `TwoWaysAreOne`, `KeysAreUnique`, `StatusFollows`, `PendingAgrees`, `RowsAreKept`, `AdviceOnce` | `LockFits`: a writer that lives holds the lock, and what it read is still there unless a batch was late. `JobFits`: what it is going to write extends what it read. `CasesAgree`, `EntryKeys`: cases, advice and reports agree in every state that is read. On top of these, `SInv` for messages and responses, `CInv` for companies and ballots, and `WInv` for `TwoWaysAreOne`: the entries and reports a writer is going to leave repeat no id and keep those it read, so that writing only the rows that differ, by id, is as good as writing all of them. |

Assumptions: `ConstantsAssumption`, `LifecycleAssumption`, `ResearchAssumption`, `SourceAssumption`,
`MessageAssumption`, `SnapshotAssumption`, `PeerAssumption` and `ServiceAssumption` (in
the modules that declare the constants, evaluated by every run), and for all
theorems about the D1 store `MaxStall <= LockMs`, without which `d1_overrun` refutes
them. `CommunityService` needs no such hypothesis: what depends on leases is stated
with `~late`.

`SourceAssumption` says what the code fixes about the answers of sources: the fields of
a firm, that the sources of labour records are finitely many and none of the four
registers, that the absence of a country is not a country, that answers are listings
without repetitions, that an entity of Wikidata is the same in each search, that the
identifier of an event tells its record and its source and orders it among events of
one date, and that a row of GLEIF with a country has nothing but its code as region
(`company-research.mjs` takes `legalAddress.country`). Without the last part an entity
could be found under one way to write a region and not under the other.

Refinements of `AtomicStore`, `EvidenceFeed` and `SourceDataset` are proved as well as
checked: initial states map to initial states, and each step to a step or a stutter.

### What the research theorems rest on

- `RunsTakeTheFirst`: `RunsAreFull` says that a run is a prefix of the eligible
  companies in the order of the selection, never larger than `MaxPerRun`, never with a
  place free while a company waits, and that the claim accepts what was selected. The
  order is total (`BeforeIsTotal`), so the companies ahead of two others are nested
  (`AheadGrows`); numbering the selected by how many are ahead of them is an injection
  into `0 .. MaxPerRun - 1` (`SelectedFits`), and the first company that is left out
  has `MaxPerRun` ahead of it (`SelectedFills`). This is the safety half of
  `NewCompaniesHaveTheirTurn`, for any number of companies.
- `OutagesOnlyTakeAway`: an answer is the full one or is lost as a whole
  (`FailuresWeaken`). So where a rule takes the only candidate of a source, an outage
  leaves none and never one of two (`FewerExact`, `FewerIdentities`), and every other
  rule only adds with its input. What is told to be missing grows: a gap may rest on the
  absence of facts, and `FactsNeedEntity` shows that facts go with the entity. The list
  of events is the exception, as it is cut. The events of some answers are among those
  of all (`FewerEvents`), and the order of events is total (`NewerIsTotal`), so that a
  list holds as many as fit (`FirstFits`) and is full if any is left out (`FirstFills`);
  for two lists cut from a set and from a subset of it, `FirstOfFewer` concludes that
  what the subset keeps of the first stays, and that no more comes in than goes out.
- `NewsBindsNoOther`: a source comes to know more, in whatever order, while the firm
  rewrites its region. A bound entity is the only candidate with the name
  (`BoundEntity`). If the later answer is taken as a whole (`WholePage` for GLEIF,
  `WholeAnswer` for the searches of Wikidata), what was a candidate before is one now,
  so that the entity is the same, or there is none. Two attempts to prove more showed
  what is false: a firm that changes its name or country may well be another entity,
  which `Rewritten` excludes, and an answer that is cut may have lost the entity (`IsCut`).
- `PagesInventNothing` and `EntitiesStay` carry both over to the pages of every reachable
  state of the queue.

### Theorems that no run lists

`ImplementsDataset`, `SourceIsADataset`, `OnlySignedSnapshots`, `RunsAreFull`,
`DeltaRebuilds` and `RevisionCountsWrites` of `CommunityService` are theorems, and TLC
has agreed on the instances of the runs of their modules; the runs list properties that
say more, or that a smaller change to the code would break.

### What is only model-checked

Liveness under fairness, about which TLAPS does not reason (`ENABLED`):
`OrphanedLockIsTakenOver`, `CompaniesAreCollected`, `RecoveryEnds`,
`NewCompaniesHaveTheirTurn`, `CatchesUp`. What the last one rests on, the walk along
`prev` in `PeerPull`, is a recursion over the chain, and what it computes for every chain
would need an induction over data. The violations of section 4 are traces of TLC.

## 6. Not modelled, and the plan

Parts of modelled components that are left out:

- *Routes* of the Worker and of `server.mjs` check sessions, origins, tokens and rates before
  a mutator runs; the models begin where a mutator is called. Those of companies,
  ballots, feedback, community and research agents are the requests of
  `CommunityService` and `CompanyResearch`; sessions and contributions have the routes
  they need in `EvidenceLifecycle`, without cookies.
- *Reads of D1* outside the lock (`GET`) can pair an older revision with newer rows;
  nothing is written after them.
- *Showcase and product-market summaries* count rows; a state has one answer.
- *Collectors of community agents* fetch pages and produce the requests; what they send,
  again and again and by two ways, is modelled, what they read is not.
- *A fence for late results* of research does not exist in the code
  (`company-research.mjs:215`); `ResultIsKept` is what remains true.
- *Power loss* between a write and its reaching the disk (`storage.mjs:39`) depends on
  the file system, and not on this code.

Next, in this order:

1. `ResearchScheduler` (`app/research.py`): leases with tokens, stale results,
   review, release, overdue notices. Theorem: a result is only accepted from the
   worker that holds the lease. To be read beside `CompanyResearch`, which has no token.
2. `InstanceBackup`: backup and restore of the Python database with its key
   (`scripts/runtime_backup.py`), with a crash in between; the backup of an instance
   directory is in `Federation` already, as a copy that is put back.
3. `CommunityPy`, `PlatformPy`: workflows of `app/community.py` and `app/platform.py`.

Not planned: adapters of external registers, parsers, rendering in the browser,
builds and proxies. They have no shared state, and their errors are wrong texts,
not wrong orders.
