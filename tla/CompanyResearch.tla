-------------------------- MODULE CompanyResearch --------------------------
(***************************************************************************)
(* cloudflare-backend/src/company-research.mjs and worker.mjs: the         *)
(* unattended research of companies.  A company gets a record of its       *)
(* research when it is created; messages in a queue ask for its            *)
(* collection; a worker claims the record in one transaction of the store, *)
(* collects from public sources, and stores the result in another.  The    *)
(* claim is a lease without a token: nothing compares the worker that      *)
(* finishes with the one that claimed last.                                *)
(*                                                                         *)
(* Ages are abstracted to one bit: a record is due when its lease (15      *)
(* minutes), its back-off (failedRetryDelayMs) or its refresh period (24   *)
(* hours) has run out.  Both READY statuses and the two REVIEW_REQUIRED    *)
(* ones, which the code always tests together, are "READY".  The queue is   *)
(* unordered, and equal messages in it are one.                            *)
(***************************************************************************)
EXTENDS Naturals, FiniteSets

CONSTANTS Company,      \* numbers, in the order of creation
          Legacy,       \* companies that were created before the research was
          Consumer,     \* the queue's consumer; max_concurrency is 1
          Api,          \* requests to /api/research-agent/run
          MaxRetries,   \* max_retries of the queue
          MaxPerRun,    \* LTP_RESEARCH_MAX_COMPANIES_PER_RUN
          NoMessage     \* "the worker was not started by a message"

ASSUME ResearchAssumption ==
  /\ Company \subseteq Nat
  /\ Company # {} /\ IsFiniteSet(Company)
  /\ Legacy \subseteq Company
  /\ \A c \in Legacy, d \in Company : d < c => d \in Legacy
  /\ Consumer \notin Api
  /\ MaxRetries \in Nat
  /\ MaxPerRun \in Nat \ {0}

Worker  == Api \union {Consumer}
Status  == {"NONE", "QUEUED", "COLLECTING", "READY", "COLLECTION_FAILED"}
Message == [company : Company, allowRefresh : BOOLEAN, attempts : 1..(MaxRetries + 1)]

ASSUME MessageAssumption == NoMessage \notin Message

VARIABLES
  known,       \* state.companies
  status,      \* the record's status, "NONE" without a record
  queuedAt,    \* when the record was made: its rank among the records, 0 without
  due,         \* companies whose record is due
  collected,   \* companies whose record has a result (record.intelligence)
  queue,       \* COMPANY_RESEARCH_QUEUE
  dlq,         \* companies in the dead-letter queue
  stage,       \* where a worker is in runResearchForCompany()
  on,          \* its company
  message,     \* the message it has to acknowledge
  todo,        \* runResearchBatch(): the companies still to be run
  disturbed    \* history: companies whose record was taken away from the worker
               \* that had claimed it, until no worker is on them any more

recordVars == <<known, status, queuedAt, due, collected>>
queueVars  == <<queue, dlq>>
workerVars == <<stage, on, message, todo>>
vars       == <<recordVars, queueVars, workerVars, disturbed>>

SomeCompany == CHOOSE c \in Company : TRUE

TypeOK ==
  /\ known \subseteq Company
  /\ status \in [Company -> Status]
  /\ queuedAt \in [Company -> Nat]
  /\ due \subseteq Company
  /\ collected \subseteq Company
  /\ queue \subseteq Message
  /\ dlq \subseteq Company
  /\ stage \in [Worker -> {"idle", "collecting", "failing"}]
  /\ on \in [Worker -> Company]
  /\ message \in [Worker -> Message \union {NoMessage}]
  /\ todo \in [Worker -> SUBSET Company]
  /\ disturbed \subseteq Company
  \* Whoever is at work has a record, and the consumer a message.
  /\ \A w \in Worker : stage[w] # "idle" =>
       /\ status[on[w]] # "NONE"
       /\ message[w] = NoMessage <=> w # Consumer

Init ==
  /\ known = Legacy
  /\ status = [c \in Company |-> "NONE"]
  /\ queuedAt = [c \in Company |-> 0]
  /\ due = {} /\ collected = {}
  /\ queue = {} /\ dlq = {}
  /\ stage = [w \in Worker |-> "idle"]
  /\ on = [w \in Worker |-> SomeCompany]
  /\ message = [w \in Worker |-> NoMessage]
  /\ todo = [w \in Worker |-> {}]
  /\ disturbed = {}

OnIt(c) == {w \in Worker : stage[w] # "idle" /\ on[w] = c}

-----------------------------------------------------------------------------
(* The queue *)

Request(c, refresh) == [company |-> c, allowRefresh |-> refresh, attempts |-> 1]

\* A message that is delivered again, or has been delivered too often.
Redelivered(m) ==
  IF m.attempts <= MaxRetries
  THEN queue' = (queue \ {m}) \union {[m EXCEPT !.attempts = @ + 1]} /\ UNCHANGED dlq
  ELSE queue' = queue \ {m} /\ dlq' = dlq \union {m.company}

\* message.ack(), which may be lost; and a consumer that died or threw after
\* it had handed its promise to waitUntil(): the platform may take the message
\* for handled or deliver it again.
Settled(m) ==
  \/ queue' = queue \ {m} /\ UNCHANGED dlq
  \/ Redelivered(m)

\* What becomes of the message of worker w.
Acknowledge(w) ==
  IF w = Consumer THEN Settled(message[w]) ELSE UNCHANGED queueVars
Retry(w) ==
  IF w = Consumer THEN Redelivered(message[w]) ELSE UNCHANGED queueVars

-----------------------------------------------------------------------------
(* Records that need work *)

\* Mutant of Eligible: a stale claim is not looked for.
EligibleNoStale(c) ==
  /\ c \in known
  /\ \/ status[c] \in {"NONE", "QUEUED"}
     \/ status[c] \in {"COLLECTION_FAILED", "READY"} /\ c \in due

\* The filter of selectResearchCompanies().
Eligible(c) ==
  /\ c \in known
  /\ \/ status[c] \in {"NONE", "QUEUED"}
     \/ status[c] \in {"COLLECTING", "COLLECTION_FAILED", "READY"} /\ c \in due

\* Mutant of Priority: failed and stale records come before new ones.
PriorityFailedFirst(c) ==
  CASE status[c] \in {"COLLECTION_FAILED", "COLLECTING"} -> 0
    [] status[c] \in {"NONE", "QUEUED"} -> 1
    [] status[c] = "READY" -> 2

\* The order of selectResearchCompanies().
Priority(c) ==
  CASE status[c] \in {"NONE", "QUEUED"} -> 0
    [] status[c] \in {"COLLECTION_FAILED", "COLLECTING"} -> 1
    [] status[c] = "READY" -> 2

\* The recoveryIssues of researchAutonomyHealth(), in autonomous-intelligence.mjs.
\* Every queued record counts as one that has been queued for more than ten
\* minutes, and a result that is due as one of an older policy.
NeedsRecovery(c) ==
  /\ c \in known
  /\ \/ status[c] \in {"NONE", "QUEUED", "COLLECTION_FAILED"}
     \/ status[c] \in {"COLLECTING", "READY"} /\ c \in due

Before(c, d) ==
  \/ Priority(c) < Priority(d)
  \/ Priority(c) = Priority(d) /\ queuedAt[c] < queuedAt[d]
  \/ Priority(c) = Priority(d) /\ queuedAt[c] = queuedAt[d] /\ c < d

\* selectResearchCompanies(), on a state read without the lock.
Selected ==
  {c \in Company :
     Eligible(c) /\ Cardinality({d \in Company : Eligible(d) /\ Before(d, c)}) < MaxPerRun}

\* queuedAt after a record has been made for c, unless it has one.
Queued(c) ==
  [queuedAt EXCEPT ![c] =
     IF status[c] = "NONE" THEN 1 + Cardinality({d \in Company : status[d] # "NONE"}) ELSE @]

\* The record that queueCompanyResearch() makes for a company that has none.
QueuedRecord(c) ==
  /\ status' = [status EXCEPT ![c] = IF @ = "NONE" THEN "QUEUED" ELSE @]
  /\ queuedAt' = Queued(c)
  /\ UNCHANGED <<due, collected>>

\* POST /api/companies: createCompanyWithAutoResearch(), then
\* dispatchCompanyResearch(), whose send may fail.  The name may be that of a
\* company that exists.
Create(c) ==
  /\ \A d \in Company : d < c => d \in known
  /\ known' = known \union {c}
  /\ QueuedRecord(c)
  /\ \/ /\ status'[c] \in {"QUEUED", "COLLECTION_FAILED"}
        /\ queue' = queue \union {Request(c, FALSE)}
     \/ UNCHANGED queue
  /\ UNCHANGED <<dlq, workerVars, disturbed>>

\* enqueueEligibleResearch(), every five minutes and every day.  A send that
\* fails changes nothing; one that is late is a message that is late.
Fallback ==
  /\ Selected # {}
  /\ queue' = queue \union {Request(c, TRUE) : c \in Selected}
  /\ UNCHANGED <<recordVars, dlq, workerVars, disturbed>>

\* Lease, back-off or refresh period run out.  A run passes one Date.now() to
\* all its claims and failures, so this may come right after the claim.
Elapse(c) ==
  /\ status[c] \in {"COLLECTING", "COLLECTION_FAILED", "READY"}
  /\ c \notin due
  /\ due' = due \union {c}
  /\ disturbed' = IF status[c] = "COLLECTING" /\ OnIt(c) # {} THEN disturbed \union {c} ELSE disturbed
  /\ UNCHANGED <<known, status, queuedAt, collected, queueVars, workerVars>>

-----------------------------------------------------------------------------
(* The claim: the first transaction of runResearchForCompany() *)

\* Mutants of Claimable: no lease; a refresh is never accepted.
ClaimableNoLease(c, refresh) ==
  /\ c \in known
  /\ status[c] = "READY" => refresh
ClaimableNoRefresh(c, refresh) ==
  /\ c \in known
  /\ status[c] = "COLLECTING" => c \in due
  /\ status[c] # "READY"

\* markCompanyResearchStarted() does not return null.
Claimable(c, refresh) ==
  /\ c \in known
  /\ status[c] = "COLLECTING" => c \in due
  /\ status[c] = "READY" => refresh

\* The record that markCompanyResearchStarted() stores.
Started(c) ==
  /\ status' = [status EXCEPT ![c] = "COLLECTING"]
  /\ queuedAt' = Queued(c)
  /\ due' = due \ {c}
  /\ UNCHANGED <<known, collected>>

\* Mutant of Assign: the worker forgets the message it has to acknowledge.
AssignNoMessage(w, c, m) ==
  /\ stage' = [stage EXCEPT ![w] = "collecting"]
  /\ on' = [on EXCEPT ![w] = c]
  /\ UNCHANGED message

\* The worker goes on with the company it has claimed.
Assign(w, c, m) ==
  /\ stage' = [stage EXCEPT ![w] = "collecting"]
  /\ on' = [on EXCEPT ![w] = c]
  /\ message' = [message EXCEPT ![w] = m]

\* consumeResearchQueueBatch(): a message is delivered and the claim succeeds.
Deliver(m) ==
  /\ stage[Consumer] = "idle"
  /\ m \in queue
  /\ Claimable(m.company, m.allowRefresh)
  /\ Started(m.company)
  /\ Assign(Consumer, m.company, m)
  /\ queue' = queue \ {m}
  /\ UNCHANGED <<dlq, todo, disturbed>>

\* There is nothing to claim: noop, acknowledged.
DeliverNoop(m) ==
  /\ stage[Consumer] = "idle"
  /\ m \in queue
  /\ ~Claimable(m.company, m.allowRefresh)
  /\ Settled(m)
  /\ UNCHANGED <<recordVars, workerVars, disturbed>>

\* The transaction throws (lock busy, database error), executed or not: the
\* consumer throws.
DeliverThrows(m) ==
  /\ stage[Consumer] = "idle"
  /\ m \in queue
  /\ Settled(m)
  /\ \/ Claimable(m.company, m.allowRefresh) /\ Started(m.company)
     \/ UNCHANGED recordVars
  /\ UNCHANGED <<workerVars, disturbed>>

\* runResearchBatch(): the companies are selected before the first claim.
Run(w) ==
  /\ stage[w] = "idle" /\ todo[w] = {}
  /\ Selected # {}
  /\ todo' = [todo EXCEPT ![w] = Selected]
  /\ UNCHANGED <<recordVars, queueVars, stage, on, message, disturbed>>

\* runResearchBatch(): the next company is claimed, or skipped.  The code takes
\* them in the order of their selection, here they come in any.
RunNext(w, c) ==
  /\ stage[w] = "idle" /\ c \in todo[w]
  /\ todo' = [todo EXCEPT ![w] = @ \ {c}]
  /\ \/ Claimable(c, TRUE) /\ Started(c) /\ Assign(w, c, NoMessage)
     \/ ~Claimable(c, TRUE) /\ UNCHANGED <<recordVars, stage, on, message>>
  /\ UNCHANGED <<queueVars, disturbed>>

\* The claim throws, executed or not: the request fails.
RunThrows(w, c) ==
  /\ stage[w] = "idle" /\ c \in todo[w]
  /\ todo' = [todo EXCEPT ![w] = {}]
  /\ \/ Claimable(c, TRUE) /\ Started(c)
     \/ UNCHANGED recordVars
  /\ UNCHANGED <<queueVars, stage, on, message, disturbed>>

-----------------------------------------------------------------------------
(* The rest of runResearchForCompany() *)

Leave(w) ==
  /\ stage' = [stage EXCEPT ![w] = "idle"]
  /\ message' = [message EXCEPT ![w] = NoMessage]
  /\ disturbed' = {c \in disturbed : OnIt(c) \ {w} # {}}
  /\ UNCHANGED on

\* mergeCompanyResearch() of the new result replaces the record, whatever it
\* has become since the claim.
Merged(c) ==
  /\ status' = [status EXCEPT ![c] = "READY"]
  /\ due' = due \ {c}
  /\ collected' = collected \union {c}
  /\ UNCHANGED <<known, queuedAt>>

Merge(w) ==
  /\ stage[w] = "collecting"
  /\ Merged(on[w])
  /\ Acknowledge(w)
  /\ Leave(w)
  /\ UNCHANGED todo

\* The batch was executed, but the transaction throws.
MergeAnswerLost(w) ==
  /\ stage[w] = "collecting"
  /\ Merged(on[w])
  /\ stage' = [stage EXCEPT ![w] = "failing"]
  /\ disturbed' = disturbed \union {on[w]}
  /\ UNCHANGED <<queueVars, on, message, todo>>

\* The collection or the transaction throws and nothing is stored.
Break(w) ==
  /\ stage[w] = "collecting"
  /\ stage' = [stage EXCEPT ![w] = "failing"]
  /\ UNCHANGED <<recordVars, queueVars, on, message, todo, disturbed>>

\* Mutant of Failed: a new record instead of {...existing, ...}.
FailedForgets(c) ==
  /\ status' = [status EXCEPT ![c] = "COLLECTION_FAILED"]
  /\ due' = due \ {c}
  /\ collected' = collected \ {c}
  /\ UNCHANGED <<known, queuedAt>>

\* The record that markCompanyResearchFailed() stores.
Failed(c) ==
  /\ status' = [status EXCEPT ![c] = "COLLECTION_FAILED"]
  /\ due' = due \ {c}
  /\ UNCHANGED <<known, queuedAt, collected>>

\* The failure is stored and the message is delivered again.
MarkFailed(w) ==
  /\ stage[w] = "failing"
  /\ Failed(on[w])
  /\ Retry(w)
  /\ Leave(w)
  /\ UNCHANGED todo

\* This transaction throws as well, executed or not: the run or the consumer
\* throws.
MarkFailedThrows(w) ==
  /\ stage[w] = "failing"
  /\ Failed(on[w]) \/ UNCHANGED recordVars
  /\ Acknowledge(w)
  /\ Leave(w)
  /\ todo' = [todo EXCEPT ![w] = {}]

\* The isolate dies or is stopped at its time limit.
Crash(w) ==
  /\ stage[w] # "idle" \/ todo[w] # {}
  /\ IF stage[w] = "idle" THEN UNCHANGED queueVars ELSE Acknowledge(w)
  /\ Leave(w)
  /\ todo' = [todo EXCEPT ![w] = {}]
  /\ UNCHANGED recordVars

\* The record that markCompanyResearchDeadLettered() stores: it does not look at
\* the status and keeps failedAt, which only a failed record has.  Without a
\* record it does nothing.
DeadLettered(c) ==
  /\ status' = [status EXCEPT ![c] = IF @ = "NONE" THEN @ ELSE "COLLECTION_FAILED"]
  /\ due' = IF status[c] \in {"NONE", "COLLECTION_FAILED"} THEN due ELSE due \union {c}
  /\ UNCHANGED <<known, queuedAt, collected>>

\* consumeResearchDeadLetterBatch(): acknowledged, or the acknowledgement is lost.
DeadLetter(c) ==
  /\ c \in dlq
  /\ dlq' \in {dlq, dlq \ {c}}
  /\ DeadLettered(c)
  /\ disturbed' = IF OnIt(c) # {} THEN disturbed \union {c} ELSE disturbed
  /\ UNCHANGED <<queue, workerVars>>

\* The transaction throws until the dead-letter queue gives up.
DeadLetterLost(c) ==
  /\ c \in dlq
  /\ dlq' = dlq \ {c}
  /\ UNCHANGED <<recordVars, queue, workerVars, disturbed>>

-----------------------------------------------------------------------------

Next ==
  \/ \E c \in Company : Create(c) \/ Elapse(c) \/ DeadLetter(c) \/ DeadLetterLost(c)
  \/ Fallback
  \/ \E m \in queue : Deliver(m) \/ DeliverNoop(m) \/ DeliverThrows(m)
  \/ \E w \in Api : Run(w) \/ \E c \in Company : RunNext(w, c) \/ RunThrows(w, c)
  \/ \E w \in Worker :
       Merge(w) \/ MergeAnswerLost(w) \/ Break(w) \/ MarkFailed(w) \/ MarkFailedThrows(w) \/ Crash(w)

Spec == Init /\ [][Next]_vars

\* Time passes, the cron triggers fire, no worker runs for ever, and for no
\* company do all its claims, or all its collections, fail.
FairSpec ==
  /\ Spec
  /\ SF_vars(Fallback)
  /\ \A w \in Worker : WF_vars(Merge(w) \/ MarkFailed(w) \/ MarkFailedThrows(w) \/ Crash(w))
  /\ \A c \in Company :
       /\ WF_vars(Elapse(c))
       /\ SF_vars(\E m \in queue : m.company = c /\ Deliver(m))
       /\ SF_vars(\E w \in Worker : on[w] = c /\ Merge(w))

-----------------------------------------------------------------------------
(* Properties *)

\* However often messages are duplicated, sent by both triggers or redelivered,
\* and whatever the restricted API runs meanwhile, a company is collected by one
\* worker at a time, unless the lease ran out under that worker, a dead letter
\* hit its record, or the answer to its merge was lost; once the last such worker
\* is gone, the next claim is exclusive again
\* (markCompanyResearchStarted and everything that writes the record).
OneCollector ==
  \A c \in known \ disturbed : Cardinality(OnIt(c)) <= 1

\* A run is a prefix of the eligible companies: never more than it has room for,
\* never with a place free while a company waits, never a refresh before what is
\* new, failed or was broken off; and the claim accepts what the selection takes
\* (selectResearchCompanies and markCompanyResearchStarted).
RunsAreFull ==
  LET Waiting == {c \in Company : Eligible(c)} \ Selected
  IN  /\ Cardinality(Selected) <= MaxPerRun
      /\ Waiting # {} => Cardinality(Selected) = MaxPerRun
      /\ \A c \in Selected, d \in Waiting : Priority(c) <= Priority(d)
      /\ \A c \in Selected : Claimable(c, TRUE)

\* A company that has once been collected never loses its result to a refresh,
\* a failure or a dead letter (the records are spread over the existing one).
ResultIsKept == [][\A c \in collected : c \in collected']_vars

\* A company that somebody has created is collected in the end, although the
\* first message may never be sent, and workers crash and fail ("a worker
\* interrupted mid-collection must not remain permanently stuck").
CompaniesAreCollected == \A c \in Company : c \in known ~> c \in collected

\* However short the list of a run is, and however often older companies fail
\* or are refreshed, a company that has never been claimed has its turn
\* (priority() in selectResearchCompanies).
NewCompaniesHaveTheirTurn ==
  \A c \in Company : c \in known ~> status[c] \notin {"NONE", "QUEUED"}

\* What the health page counts as a problem comes to an end without an operator
\* (selfHealing, manualOperatorRequired: false): what researchAutonomyHealth takes
\* for one, selectResearchCompanies looks for sooner or later, and
\* markCompanyResearchStarted accepts.  Three filters, written three times.
RecoveryEnds == \A c \in Company : NeedsRecovery(c) ~> ~NeedsRecovery(c)

\* "A completed fresh research record is ACKed as a no-op rather than
\* re-collected."  The fallback always sends allowRefresh, also for a record that
\* is only QUEUED, so a second message finds the record complete and refreshes it.
FreshIsNotCollectedAgain ==
  [][\A c \in Company : status[c] = "READY" /\ c \notin due => status'[c] # "COLLECTING"]_vars
=============================================================================
