-------------------------- MODULE CommunityService --------------------------
(***************************************************************************)
(* Companies and ballots, community feedback, official facts,              *)
(* announcements and advisory cases (sites-app/src/domain.mjs), and the    *)
(* two ways their rows are written: transactions of the Worker, and, when  *)
(* its answer does not come in time, Wrangler commands of the community    *)
(* agent on the same database (scripts/community_agent/d1_fallback.mjs).   *)
(*                                                                         *)
(* The agent sends a request again, by either way, while the first may     *)
(* still be executed, so that every request may be executed twice.  Both   *)
(* ways take the lock row before they read.  D1Store has the details for   *)
(* the Worker, whose transactions are assumed here to end in their lease.  *)
(* The clocks of the machines agree, and a Wrangler command with several   *)
(* statements is one transaction of the database.                          *)
(***************************************************************************)
EXTENDS Naturals, FiniteSets

CONSTANTS Name,       \* companies by name and region
          Session,    \* cookies that cast ballots
          Feedback,   \* messages of a session
          Case,       \* advisory cases of a session
          Fact,       \* official references, relations and events, by their stable ids
          Topic,      \* the announcement of a day, the daily run of a day and phase
          Worker,     \* requests to the Worker
          Fallback,   \* runs of d1_fallback.mjs
          Nobody,     \* holds no lock
          FeedbackLimit, CaseLimit,  \* of a session, within 24 hours
          MaxClock,   \* bound: requests
          MaxDay      \* bound: days

ASSUME ServiceAssumption ==
  /\ FeedbackLimit \in Nat /\ CaseLimit \in Nat /\ MaxClock \in Nat /\ MaxDay \in Nat \ {0}
  /\ Worker \intersect Fallback = {} /\ Nobody \notin Worker \union Fallback
  /\ Fact \intersect Topic = {}

VARIABLES
  db,      \* the rows of each collection, and the revision
  lock,    \* the holder in ltp_write_lock, Nobody when there is none or it has expired
  job,     \* what each writer is at, what it read and what it wants to be there
  clock,   \* the requests so far: times and random ids of rows
  today,
  writes,  \* history: the batches that were executed
  late     \* history: one of them by a writer that had lost the lock

vars == <<db, lock, job, clock, today, writes, late>>

Writer == Worker \union Fallback
Time   == 1..MaxClock
Day    == 1..MaxDay

Status      == {"RECEIVED", "NEEDS_MORE_INFO", "ANSWERED"}
Decision    == {"answered", "needs_more_info"}   \* accepted, planned and declined are as answered
FeedbackRow == [id : Feedback, status : Status, day : Day]
Company     == [id : Time, name : Name]
Channel     == {"community", "worker"}   \* signalType
Direction   == {"positive", "negative"}
Ballot      == [company : Time, owner : Session, channel : Channel, direction : Direction]
Response    == [feedback : Feedback, decision : Decision, at : Time]
\* text: the request that wrote it last.
Entry       == [id : Fact \union Time, key : Fact \union Topic, text : Time]
CaseRow     == [id : Case, status : {"RECEIVED", "ADVISED", "WITHDRAWN"}, day : Day]
Advice      == [case : Case, at : Time, day : Day]
\* The cases that a report counts.
Report      == [id : Day, received : SUBSET Case, advised : SUBSET Case, pending : SUBSET Case]
DB == [companies : SUBSET Company, ballots : SUBSET Ballot,
       feedback : SUBSET FeedbackRow, responses : SUBSET Response, entries : SUBSET Entry,
       cases : SUBSET CaseRow, advice : SUBSET Advice, reports : SUBSET Report, revision : Nat]

NoRows == [companies |-> {}, ballots |-> {},
           feedback |-> {}, responses |-> {}, entries |-> {}, cases |-> {}, advice |-> {},
           reports |-> {}, revision |-> 0]
NoJob  == [pc |-> "idle", before |-> NoRows, after |-> NoRows]

TypeOK ==
  /\ db \in DB
  /\ lock \in Writer \union {Nobody}
  /\ job \in [Writer -> [pc : {"idle", "holds", "written", "orphan"}, before : DB, after : DB]]
  /\ clock \in 0..MaxClock
  /\ today \in Day
  /\ writes \in Nat
  /\ late \in BOOLEAN

Init ==
  /\ db = NoRows
  /\ lock = Nobody
  /\ job = [w \in Writer |-> NoJob]
  /\ clock = 0
  /\ today = 1
  /\ writes = 0
  /\ late = FALSE

-----------------------------------------------------------------------------
(* Mutators: what a request makes of the rows *)

Put(rows, row) == {r \in rows : r.id # row.id} \union {row}

\* addCompany(): a name and region that is there is a duplicate.
CompanyAdded(d, name, at) ==
  IF \E c \in d.companies : c.name = name THEN d
  ELSE [d EXCEPT !.companies = @ \union {[id |-> at, name |-> name]}]

\* recordKey() of ballots.
BallotKey(b) == <<b.company, b.owner, b.channel>>

\* setBallot() with null: what the session has there is taken back, if anything.
BallotTakenBack(d, key) == [d EXCEPT !.ballots = {b \in @ : BallotKey(b) # key}]

\* setBallot() with a direction.
BallotCast(d, ballot) ==
  [d EXCEPT !.ballots = {b \in @ : BallotKey(b) # BallotKey(ballot)} \union {ballot}]

\* addCommunityFeedback().  Messages of yesterday may count within 24 hours or
\* not; those of today do.
FeedbackOpen(d, f) ==
  /\ \A r \in d.feedback : r.id # f
  /\ Cardinality({r \in d.feedback : r.day = today}) < FeedbackLimit

FeedbackAdded(d, f) ==
  [d EXCEPT !.feedback = @ \union {[id |-> f, status |-> "RECEIVED", day |-> today]}]

\* Mutant of Responded: a question to the user closes the item as well.
RespondedAlwaysAnswers(d, row, decision, at) ==
  [d EXCEPT !.responses = @ \union {[feedback |-> row.id, decision |-> decision, at |-> at]},
            !.feedback  = Put(@, [row EXCEPT !.status = "ANSWERED"])]

\* respondCommunityFeedback(): of any item, also of one that is answered.
Responded(d, row, decision, at) ==
  LET status   == IF decision = "needs_more_info" THEN "NEEDS_MORE_INFO" ELSE "ANSWERED"
      answered == [d EXCEPT !.responses =
                     @ \union {[feedback |-> row.id, decision |-> decision, at |-> at]}]
  IN  [answered EXCEPT !.feedback = Put(@, [row EXCEPT !.status = status])]

\* upsertOfficialReferences(), ...Relations(), ...Events(): a fact has a stable
\* id, the hash of its provider, record, company and type.
FactSaved(d, fact, at) ==
  [d EXCEPT !.entries = Put(@, [id |-> fact, key |-> fact, text |-> at])]

\* Mutant of TopicSaved: the row is not looked for.
TopicSavedAsNew(d, topic, at) ==
  [d EXCEPT !.entries = Put(@, [id |-> at, key |-> topic, text |-> at])]

\* addPublicAnnouncement(), recordAgentDailyRun(): a random id, that of the row
\* with the same key if there is one.
TopicSaved(d, topic, at) ==
  LET known == {e \in d.entries : e.key = topic}
      id    == IF known = {} THEN at ELSE (CHOOSE e \in known : TRUE).id
  IN  [d EXCEPT !.entries = Put(@, [id |-> id, key |-> topic, text |-> at])]

\* addAdvisoryCase().
CaseOpen(d, c) ==
  /\ \A r \in d.cases : r.id # c
  /\ Cardinality({r \in d.cases : r.day = today /\ r.status # "WITHDRAWN"}) < CaseLimit

CaseAdded(d, c) ==
  [d EXCEPT !.cases = @ \union {[id |-> c, status |-> "RECEIVED", day |-> today]}]

\* withdrawAdvisoryCase().
CaseWithdrawn(d, row) == [d EXCEPT !.cases = Put(@, [row EXCEPT !.status = "WITHDRAWN"])]

\* advisoryAgentQueue(), addAdvisoryAdvice(): not withdrawn and without advice.
Advisable(d, row) == row.status # "WITHDRAWN" /\ \A a \in d.advice : a.case # row.id

\* Mutant of Advised: the case stays as it is.
AdvisedNoStatus(d, rows, at) ==
  [d EXCEPT !.advice = @ \union {[case |-> r.id, at |-> at, day |-> today] : r \in rows}]

\* Mutant of Advised: the case is closed, a status no code sets.
AdvisedClosed(d, rows, at) ==
  [d EXCEPT !.advice = @ \union {[case |-> r.id, at |-> at, day |-> today] : r \in rows},
            !.cases  = (@ \ rows) \union {[r EXCEPT !.status = "CLOSED"] : r \in rows}]

\* addAdvisoryAdvice(), to each of the rows.
Advised(d, rows, at) ==
  LET told == [d EXCEPT !.advice =
                 @ \union {[case |-> r.id, at |-> at, day |-> today] : r \in rows}]
  IN  [told EXCEPT !.cases = (@ \ rows) \union {[r EXCEPT !.status = "ADVISED"] : r \in rows}]

\* generateAdvisoryDailyReport(): the report of the day is replaced.
Reported(d, day) ==
  [d EXCEPT !.reports = Put(@,
     [id       |-> day,
      received |-> {r.id : r \in {q \in d.cases : q.day = day /\ q.status # "WITHDRAWN"}},
      advised  |-> {a.case : a \in {b \in d.advice : b.day = day}},
      pending  |-> {r.id : r \in {q \in d.cases : q.status = "RECEIVED"}}])]

\* runAdvisoryAgent(): all that are queued, then the report.
AgentRan(d, day, at) == Reported(Advised(d, {r \in d.cases : Advisable(d, r)}, at), day)

-----------------------------------------------------------------------------
(* Writers *)

\* Mutant of LockFree: the lock row is not looked at.
LockFreeAlways == TRUE

\* acquireLock() of either writer: INSERT ... ON CONFLICT ... WHERE expired.
LockFree == lock = Nobody

\* The lock is taken, the rows are read and the mutator is run.  One that
\* throws leaves nothing behind but a lock that came and went.
Begin(w, after) ==
  /\ job[w].pc = "idle"
  /\ LockFree
  /\ clock < MaxClock
  /\ lock' = w
  /\ job' = [job EXCEPT ![w] = [pc |-> "holds", before |-> db, after |-> after]]
  /\ clock' = clock + 1
  /\ UNCHANGED <<db, today, writes, late>>

\* Rows that differ from what was read, into the rows that are there.
Upserted(now, before, after) ==
  {r \in now : \A c \in after \ before : c.id # r.id} \union (after \ before)

\* Ballots are rows with a key of their own, and the only ones that are deleted.
BallotsReplaced(now, before, after) ==
  {b \in now : \A c \in (before \ after) \union (after \ before) : BallotKey(c) # BallotKey(b)}
    \union (after \ before)

\* Mutant of Written: the whole state, as the file store writes it.
WrittenWhole(now, before, after, revision) == [after EXCEPT !.revision = revision]

\* One batch (transaction, persistAllowedDiff): companies, responses and advice
\* are only added.
Written(now, before, after, revision) ==
  [companies |-> now.companies \union (after.companies \ before.companies),
   ballots   |-> BallotsReplaced(now.ballots, before.ballots, after.ballots),
   feedback  |-> Upserted(now.feedback, before.feedback, after.feedback),
   responses |-> now.responses \union (after.responses \ before.responses),
   entries   |-> Upserted(now.entries, before.entries, after.entries),
   cases     |-> Upserted(now.cases, before.cases, after.cases),
   advice    |-> now.advice \union (after.advice \ before.advice),
   reports   |-> Upserted(now.reports, before.reports, after.reports),
   revision  |-> revision]

\* The Worker sets the revision to the one after what it read, the fallback
\* only if the revision is still what it read; its rows are written anyway.
NextRevision(w) ==
  IF w \in Worker \/ db.revision = job[w].before.revision
  THEN job[w].before.revision + 1 ELSE db.revision

Batch(w) ==
  /\ db' = Written(db, job[w].before, job[w].after, NextRevision(w))
  /\ writes' = writes + 1
  /\ late' = (late \/ (job[w].pc = "orphan" /\ lock # w))
  /\ UNCHANGED <<lock, clock, today>>

\* The batch of a writer that is alive.
Commit(w) ==
  /\ job[w].pc = "holds"
  /\ job' = [job EXCEPT ![w] = [pc |-> "written", before |-> NoRows, after |-> NoRows]]
  /\ Batch(w)

\* The answer is given, whatever the read-back says, or the batch has failed;
\* the lock row is deleted, if it is still the writer's.
Release(w) ==
  /\ job[w].pc \in {"holds", "written"}
  /\ job' = [job EXCEPT ![w] = NoJob]
  /\ lock' = IF lock = w THEN Nobody ELSE lock
  /\ UNCHANGED <<db, clock, today, writes, late>>

\* The writer ends or cannot release: the lock row stays.
Die(w) ==
  /\ job[w].pc \in {"holds", "written"}
  /\ job' = [job EXCEPT ![w] = NoJob]
  /\ UNCHANGED <<db, lock, clock, today, writes, late>>

\* The client has waited 90 s for d1_fallback.mjs and kills it, not the command
\* that it has started: its batch may still be executed ...
Kill(w) ==
  /\ job[w].pc = "holds"
  /\ job' = [job EXCEPT ![w].pc = "orphan"]
  /\ UNCHANGED <<db, lock, clock, today, writes, late>>

\* ... at any time ...
Land(w) ==
  /\ job[w].pc = "orphan"
  /\ job' = [job EXCEPT ![w] = NoJob]
  /\ Batch(w)

\* ... or never.
Vanish(w) ==
  /\ job[w].pc = "orphan"
  /\ job' = [job EXCEPT ![w] = NoJob]
  /\ UNCHANGED <<db, lock, clock, today, writes, late>>

\* A lease runs out when its writer has ended: one of the Worker by assumption,
\* one of the fallback because it lasts as long as the client waits, from later on.
Expire ==
  /\ lock \in Writer /\ job[lock].pc \notin {"holds", "written"}
  /\ lock' = Nobody
  /\ UNCHANGED <<db, job, clock, today, writes, late>>

NextDay ==
  /\ today < MaxDay
  /\ today' = today + 1
  /\ UNCHANGED <<db, lock, job, clock, writes, late>>

-----------------------------------------------------------------------------
(* Requests *)

\* Of a session: POST /api/companies, .../ballot ...
CatalogRequest(w) ==
  \/ \E name \in Name : Begin(w, CompanyAdded(db, name, clock + 1))
  \/ \E ballot \in Ballot :
       /\ \E c \in db.companies : c.id = ballot.company
       /\ Begin(w, BallotCast(db, ballot)) \/ Begin(w, BallotTakenBack(db, BallotKey(ballot)))

\* ... /api/community-feedback, /api/advisory, .../withdraw.
UserRequest(w) ==
  \/ \E f \in Feedback : FeedbackOpen(db, f) /\ Begin(w, FeedbackAdded(db, f))
  \/ \E c \in Case : CaseOpen(db, c) /\ Begin(w, CaseAdded(db, c))
  \/ \E r \in db.cases : r.status # "WITHDRAWN" /\ Begin(w, CaseWithdrawn(db, r))

\* Of the community agent: POST /api/community-agent/..., to the Worker or,
\* by d1_fallback.mjs, to the database.
CommunityRequest(w) ==
  \/ \E r \in db.feedback, decision \in Decision : Begin(w, Responded(db, r, decision, clock + 1))
  \/ \E fact \in Fact : Begin(w, FactSaved(db, fact, clock + 1))
  \/ \E topic \in Topic : Begin(w, TopicSaved(db, topic, clock + 1))

\* Of the advisory agents: POST /api/advisory-agent/cases/.../advice ...
AdviceRequest(w) == \E r \in db.cases : Advisable(db, r) /\ Begin(w, Advised(db, {r}, clock + 1))

\* ... and .../run, for any day.
RunRequest(w) == \E day \in 1..today : Begin(w, AgentRan(db, day, clock + 1))

\* The daily trigger, for the day it was scheduled on: it may come after midnight.
DailyTrigger(w) ==
  \E day \in 1..today : day + 1 >= today /\ Begin(w, AgentRan(db, day, clock + 1))

Next ==
  \/ \E w \in Worker : CatalogRequest(w) \/ UserRequest(w) \/ AdviceRequest(w)
                      \/ RunRequest(w) \/ DailyTrigger(w)
  \/ \E w \in Writer : CommunityRequest(w) \/ Commit(w) \/ Release(w) \/ Die(w)
  \/ \E w \in Fallback : Kill(w) \/ Land(w) \/ Vanish(w)
  \/ Expire \/ NextDay

Spec == Init /\ [][Next]_vars

-----------------------------------------------------------------------------
(* Properties *)

\* However often a request is executed, there is one company of a name, one
\* ballot of a session, company and channel, one announcement of a day, one daily
\* run of a phase and one row of a fact; only a batch that comes when its writer
\* has lost the lock can add a second announcement (addCompany, setBallot,
\* addPublicAnnouncement, recordAgentDailyRun, upsertOfficialReferences).
OneRowPerKey ==
  /\ \A c, g \in db.companies : c.name = g.name => c = g
  /\ \A b, c \in db.ballots : BallotKey(b) = BallotKey(c) => b = c
  /\ \A e, g \in db.entries : e.key = g.key => e = g \/ (late /\ e.key \in Topic)

\* The revision counts the writes of both ways together, unless a batch was
\* late (transaction, persistAllowedDiff).
RevisionCountsWrites == ~late => db.revision = writes

\* Together the two ways are as good as one writer: as long as no batch was late,
\* each is one whole request on the rows that are there, although each way writes
\* only the rows that differ from what it read, some by id, some by another key
\* (transaction, persistAllowedDiff).
WritesAreSerial ==
  [][~late' =>
       \/ UNCHANGED db
       \/ \E w \in Writer : /\ job[w].before = db
                            /\ db' = [job[w].after EXCEPT !.revision = db.revision + 1]]_vars

\* The status of an item agrees with the latest response, which the user is
\* shown, unless a batch was late (respondCommunityFeedback,
\* latestFeedbackResponse).  Even then nothing leaves the queue unanswered.
StatusFollowsResponses ==
  \A r \in db.feedback :
    LET given == {s \in db.responses : s.feedback = r.id}
    IN  /\ r.status # "RECEIVED" =>
             \E s \in given : s.decision = "needs_more_info" <=> r.status = "NEEDS_MORE_INFO"
        /\ ~late => \A s \in given : (\A t \in given : t.at <= s.at) =>
             r.status = IF s.decision = "needs_more_info" THEN "NEEDS_MORE_INFO" ELSE "ANSWERED"

RowsStay ==
  /\ \A r \in db.feedback : \E q \in db'.feedback : q.id = r.id
  /\ \A r \in db.cases : \E q \in db'.cases : q.id = r.id
  /\ \A r \in db.entries : \E q \in db'.entries : q.id = r.id
  /\ db.companies \subseteq db'.companies
  /\ \A b, c \in db.ballots \ db'.ballots : b = c
  /\ db.responses \subseteq db'.responses
  /\ db.advice \subseteq db'.advice

\* Whoever writes late or by the other way, nobody loses what was accepted:
\* no company, message, response, case, advice or announcement disappears, and a
\* step takes at most the ballot of one session.
NothingIsErased == [][RowsStay]_vars

OneAdvicePerWaitingCase ==
  \A a \in db'.advice \ db.advice :
    /\ \E r \in db.cases : r.id = a.case /\ r.status = "RECEIVED"
    /\ \A b \in db'.advice : b.case = a.case => b = a

\* A case gets advice once at most, and none after it was withdrawn, although
\* three agents advise and sessions withdraw at the same time (addAdvisoryAdvice).
AdviceIsWanted == [][OneAdvicePerWaitingCase]_vars

\* Queue, status and advice agree: a case is pending exactly as long as it has
\* no advice, and no report shows a pending case (runAdvisoryAgent,
\* generateAdvisoryDailyReport).
NothingIsLeftPending ==
  /\ \A r \in db.cases : /\ r.status = "RECEIVED" => Advisable(db, r)
                         /\ r.status = "ADVISED" => ~Advisable(db, r)
  /\ \A r \in db.reports : r.pending = {}
=============================================================================
