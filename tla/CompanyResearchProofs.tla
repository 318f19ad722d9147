----------------------- MODULE CompanyResearchProofs -----------------------
(***************************************************************************)
(* Proofs about CompanyResearch, for every set of companies and requests   *)
(* and every limit of the queue, and about the pages CompanyPage makes of  *)
(* the results, for every company and whatever the sources know.           *)
(***************************************************************************)
EXTENDS CompanyPage, FiniteSetTheorems, FunctionTheorems, WellFoundedInduction, TLAPS

\* The record of a company nobody has disturbed shows the claim of its worker,
\* and this is what keeps other workers out.
LeaseInv ==
  \A c \in Company \ disturbed : \A w \in OnIt(c) :
    /\ status[c] = "COLLECTING"
    /\ c \notin due
    /\ \A v \in OnIt(c) : v = w

IInv == TypeOK /\ LeaseInv

LEMMA InitIInv == Init => IInv
  <1> SUFFICES ASSUME Init PROVE IInv
    OBVIOUS
  <1>1. SomeCompany \in Company
    BY ResearchAssumption DEF SomeCompany
  <1>. QED
    BY <1>1, ResearchAssumption DEF Init, IInv, TypeOK, LeaseInv, OnIt, Status, Worker

-----------------------------------------------------------------------------
(* Types *)

LEMMA RequestType ==
  ASSUME NEW c \in Company, NEW refresh \in BOOLEAN
  PROVE  Request(c, refresh) \in Message
  BY ResearchAssumption DEF Request, Message

LEMMA RedeliveredType ==
  ASSUME TypeOK, NEW m \in Message, Redelivered(m)
  PROVE  queue' \subseteq Message /\ dlq' \subseteq Company
  <1>1. CASE m.attempts <= MaxRetries
    <2>1. [m EXCEPT !.attempts = @ + 1] \in Message
      BY <1>1, ResearchAssumption DEF Message
    <2>. QED
      BY <1>1, <2>1 DEF Redelivered, TypeOK
  <1>2. CASE ~(m.attempts <= MaxRetries)
    BY <1>2 DEF Redelivered, TypeOK, Message
  <1>. QED
    BY <1>1, <1>2

LEMMA SettledType ==
  ASSUME TypeOK, NEW m \in Message, Settled(m)
  PROVE  queue' \subseteq Message /\ dlq' \subseteq Company
  BY RedeliveredType DEF Settled, TypeOK

\* A worker that is not idle has a message to settle if it is the consumer.
LEMMA AcknowledgeType ==
  ASSUME TypeOK, NEW w \in Worker, stage[w] # "idle", Acknowledge(w) \/ Retry(w)
  PROVE  queue' \subseteq Message /\ dlq' \subseteq Company
  <1>1. w = Consumer => message[w] \in Message
    BY DEF TypeOK
  <1>. QED
    BY <1>1, SettledType, RedeliveredType DEF Acknowledge, Retry, TypeOK, queueVars

LEMMA QueuedType ==
  ASSUME TypeOK, NEW c \in Company
  PROVE  Queued(c) \in [Company -> Nat]
  <1>1. IsFiniteSet({d \in Company : status[d] # "NONE"})
    BY ResearchAssumption, FS_Subset
  <1>2. Cardinality({d \in Company : status[d] # "NONE"}) \in Nat
    BY <1>1, FS_CardinalityType
  <1>. QED
    BY <1>2 DEF Queued, TypeOK

\* The three records a worker writes.
LEMMA RecordType ==
  ASSUME TypeOK, NEW c \in Company, Started(c) \/ Merged(c) \/ Failed(c)
  PROVE  /\ known' = known
         /\ status' \in [Company -> Status]
         /\ \A d \in Company : status[d] # "NONE" => status'[d] # "NONE"
         /\ status'[c] # "NONE"
         /\ \A d \in Company \ {c} : status'[d] = status[d]
         /\ queuedAt' \in [Company -> Nat]
         /\ due' \subseteq Company
         /\ collected' \subseteq Company
  BY QueuedType DEF TypeOK, Started, Merged, Failed, Status

LEMMA AssignType ==
  ASSUME TypeOK, NEW w \in Worker, NEW c \in Company, NEW m \in Message \union {NoMessage},
         m = NoMessage <=> w # Consumer,
         Started(c), Assign(w, c, m)
  PROVE  /\ stage' \in [Worker -> {"idle", "collecting", "failing"}]
         /\ on' \in [Worker -> Company]
         /\ message' \in [Worker -> Message \union {NoMessage}]
         /\ \A v \in Worker : stage'[v] # "idle" =>
              /\ status'[on'[v]] # "NONE"
              /\ message'[v] = NoMessage <=> v # Consumer
  BY RecordType DEF TypeOK, Assign

LEMMA LeaveType ==
  ASSUME TypeOK, NEW w \in Worker, Leave(w),
         \A d \in Company : status[d] # "NONE" => status'[d] # "NONE"
  PROVE  /\ stage' \in [Worker -> {"idle", "collecting", "failing"}]
         /\ on' \in [Worker -> Company]
         /\ message' \in [Worker -> Message \union {NoMessage}]
         /\ disturbed' \subseteq Company
         /\ \A v \in Worker : stage'[v] # "idle" =>
              /\ status'[on'[v]] # "NONE"
              /\ message'[v] = NoMessage <=> v # Consumer
  BY DEF TypeOK, Leave

LEMMA SelectedType == Selected \subseteq Company
  BY DEF Selected

LEMMA TypeStep ==
  ASSUME TypeOK, [Next]_vars
  PROVE  TypeOK'
  <1>1. ASSUME NEW c \in Company, Create(c) PROVE TypeOK'
    <2>1. queue' \subseteq Message
      BY <1>1, RequestType DEF Create, QueuedRecord, TypeOK
    <2>2. /\ status' \in [Company -> Status]
          /\ \A d \in Company : status[d] # "NONE" => status'[d] # "NONE"
      BY <1>1 DEF Create, QueuedRecord, TypeOK, Status
    <2>3. queuedAt' \in [Company -> Nat]
      BY <1>1, QueuedType DEF Create, QueuedRecord
    <2>. QED
      BY <1>1, <2>1, <2>2, <2>3 DEF Create, QueuedRecord, TypeOK, workerVars
  <1>2. ASSUME NEW c \in Company, Elapse(c) PROVE TypeOK'
    BY <1>2 DEF Elapse, TypeOK, workerVars, queueVars
  <1>3. ASSUME NEW c \in Company, DeadLetter(c) PROVE TypeOK'
    <2>1. /\ status' \in [Company -> Status]
          /\ \A d \in Company : status[d] # "NONE" => status'[d] # "NONE"
      BY <1>3 DEF DeadLetter, DeadLettered, TypeOK, Status
    <2>. QED
      BY <1>3, <2>1 DEF DeadLetter, DeadLettered, TypeOK, workerVars
  <1>4. ASSUME NEW c \in Company, DeadLetterLost(c) PROVE TypeOK'
    BY <1>4 DEF DeadLetterLost, TypeOK, workerVars, recordVars
  <1>5. CASE Fallback
    <2>1. queue' \subseteq Message
      BY <1>5, RequestType, SelectedType DEF Fallback, TypeOK
    <2>. QED
      BY <1>5, <2>1 DEF Fallback, TypeOK, workerVars, recordVars
  <1>6. ASSUME NEW m \in queue, Deliver(m) PROVE TypeOK'
    <2>1. m \in Message /\ m.company \in Company /\ m # NoMessage /\ Consumer \in Worker
      BY <1>6, MessageAssumption DEF TypeOK, Message, Worker
    <2>. QED
      BY <1>6, <2>1, RecordType, AssignType DEF Deliver, TypeOK
  <1>7. ASSUME NEW m \in queue, DeliverNoop(m) PROVE TypeOK'
    <2>1. queue' \subseteq Message /\ dlq' \subseteq Company
      BY <1>7, SettledType DEF DeliverNoop, TypeOK
    <2>. QED
      BY <1>7, <2>1 DEF DeliverNoop, TypeOK, recordVars, workerVars
  <1>8. ASSUME NEW m \in queue, DeliverThrows(m) PROVE TypeOK'
    <2>1. queue' \subseteq Message /\ dlq' \subseteq Company
      BY <1>8, SettledType DEF DeliverThrows, TypeOK
    <2>2. m.company \in Company
      BY DEF TypeOK, Message
    <2>3. CASE Started(m.company)
      BY <1>8, <2>1, <2>2, <2>3, RecordType DEF DeliverThrows, TypeOK, workerVars
    <2>4. CASE UNCHANGED recordVars
      BY <1>8, <2>1, <2>4 DEF DeliverThrows, TypeOK, recordVars, workerVars
    <2>. QED
      BY <1>8, <2>3, <2>4 DEF DeliverThrows
  <1>9. ASSUME NEW w \in Api, Run(w) PROVE TypeOK'
    BY <1>9, SelectedType DEF Run, TypeOK, recordVars, queueVars
  <1>10. ASSUME NEW w \in Api, NEW c \in Company, RunNext(w, c) PROVE TypeOK'
    <2>1. w \in Worker /\ w # Consumer
      BY ResearchAssumption DEF Worker
    <2>2. todo' \in [Worker -> SUBSET Company]
      BY <1>10 DEF RunNext, TypeOK
    <2>3. CASE Started(c) /\ Assign(w, c, NoMessage)
      BY <1>10, <2>1, <2>2, <2>3, RecordType, AssignType DEF RunNext, TypeOK, queueVars
    <2>4. CASE UNCHANGED <<recordVars, stage, on, message>>
      BY <1>10, <2>2, <2>4 DEF RunNext, TypeOK, queueVars, recordVars
    <2>. QED
      BY <1>10, <2>3, <2>4 DEF RunNext
  <1>11. ASSUME NEW w \in Api, NEW c \in Company, RunThrows(w, c) PROVE TypeOK'
    <2>1. todo' \in [Worker -> SUBSET Company]
      BY <1>11 DEF RunThrows, TypeOK
    <2>2. CASE Started(c)
      BY <1>11, <2>1, <2>2, RecordType DEF RunThrows, TypeOK, queueVars
    <2>3. CASE UNCHANGED recordVars
      BY <1>11, <2>1, <2>3 DEF RunThrows, TypeOK, queueVars, recordVars
    <2>. QED
      BY <1>11, <2>2, <2>3 DEF RunThrows
  <1>12. ASSUME NEW w \in Worker, Merge(w) PROVE TypeOK'
    <2>1. on[w] \in Company
      BY DEF TypeOK
    <2>2. queue' \subseteq Message /\ dlq' \subseteq Company
      BY <1>12, AcknowledgeType DEF Merge
    <2>. QED
      BY <1>12, <2>1, <2>2, RecordType, LeaveType DEF Merge, TypeOK
  <1>13. ASSUME NEW w \in Worker, MergeAnswerLost(w) PROVE TypeOK'
    <2>1. on[w] \in Company
      BY DEF TypeOK
    <2>. QED
      BY <1>13, <2>1, RecordType DEF MergeAnswerLost, TypeOK, queueVars
  <1>14. ASSUME NEW w \in Worker, Break(w) PROVE TypeOK'
    BY <1>14 DEF Break, TypeOK, recordVars, queueVars
  <1>15. ASSUME NEW w \in Worker, MarkFailed(w) PROVE TypeOK'
    <2>1. on[w] \in Company
      BY DEF TypeOK
    <2>2. queue' \subseteq Message /\ dlq' \subseteq Company
      BY <1>15, AcknowledgeType DEF MarkFailed
    <2>. QED
      BY <1>15, <2>1, <2>2, RecordType, LeaveType DEF MarkFailed, TypeOK
  <1>16. ASSUME NEW w \in Worker, MarkFailedThrows(w) PROVE TypeOK'
    <2>1. on[w] \in Company
      BY DEF TypeOK
    <2>2. queue' \subseteq Message /\ dlq' \subseteq Company
      BY <1>16, AcknowledgeType DEF MarkFailedThrows
    <2>3. todo' \in [Worker -> SUBSET Company]
      BY <1>16 DEF MarkFailedThrows, TypeOK
    <2>4. CASE Failed(on[w])
      BY <1>16, <2>1, <2>2, <2>3, <2>4, RecordType, LeaveType DEF MarkFailedThrows, TypeOK
    <2>5. CASE UNCHANGED recordVars
      BY <1>16, <2>2, <2>3, <2>5, LeaveType DEF MarkFailedThrows, TypeOK, recordVars
    <2>. QED
      BY <1>16, <2>4, <2>5 DEF MarkFailedThrows
  <1>17. ASSUME NEW w \in Worker, Crash(w) PROVE TypeOK'
    <2>1. queue' \subseteq Message /\ dlq' \subseteq Company
      BY <1>17, AcknowledgeType DEF Crash, TypeOK, queueVars
    <2>2. todo' \in [Worker -> SUBSET Company]
      BY <1>17 DEF Crash, TypeOK
    <2>. QED
      BY <1>17, <2>1, <2>2, LeaveType DEF Crash, TypeOK, recordVars
  <1>18. CASE UNCHANGED vars
    BY <1>18 DEF TypeOK, vars, recordVars, queueVars, workerVars
  <1>. QED
    BY <1>1, <1>2, <1>3, <1>4, <1>5, <1>6, <1>7, <1>8, <1>9, <1>10, <1>11, <1>12, <1>13, <1>14,
       <1>15, <1>16, <1>17, <1>18 DEF Next

LEMMA InitTypeOK == Init => TypeOK
  BY InitIInv DEF IInv

\* The records, the queues and the workers of company-research.mjs and worker.mjs
\* have their types; whoever collects has a record to write.
THEOREM ResearchIsTyped == Spec => []TypeOK
  BY InitTypeOK, TypeStep, PTL DEF Spec

-----------------------------------------------------------------------------
(* The lease *)

\* Who claims the record of an undisturbed company finds nobody on it.
LEMMA ClaimIsAlone ==
  ASSUME LeaseInv, NEW c \in Company \ disturbed, NEW refresh, Claimable(c, refresh)
  PROVE  OnIt(c) = {}
  BY DEF LeaseInv, Claimable

\* Nobody's company changes, and the record of c only if nobody is on it.
LEMMA NobodyMoves ==
  ASSUME LeaseInv, NEW c \in Company,
         UNCHANGED <<stage, on>>,
         disturbed \subseteq disturbed',
         c \notin disturbed' => OnIt(c) = {} \/ (status'[c] = status[c] /\ (c \in due' => c \in due)),
         \A d \in Company \ {c} : status'[d] = status[d] /\ (d \in due' => d \in due)
  PROVE  LeaseInv'
  BY DEF LeaseInv, OnIt

LEMMA NobodyMovesAtAll ==
  ASSUME LeaseInv, UNCHANGED <<status, due, disturbed, stage, on>>
  PROVE  LeaseInv'
  BY DEF LeaseInv, OnIt

\* A claim by a worker that was idle.
LEMMA ClaimKeepsLease ==
  ASSUME TypeOK, LeaseInv, NEW w \in Worker, NEW c \in Company, NEW m, NEW refresh,
         stage[w] = "idle", Claimable(c, refresh), Started(c), Assign(w, c, m), UNCHANGED disturbed
  PROVE  LeaseInv'
  <1> SUFFICES ASSUME NEW d \in Company \ disturbed, NEW v \in OnIt(d)'
               PROVE  /\ status'[d] = "COLLECTING"
                      /\ d \notin due'
                      /\ \A u \in OnIt(d)' : u = v
    BY DEF LeaseInv
  <1>1. CASE d = c
    <2>1. OnIt(c) = {}
      BY <1>1, ClaimIsAlone
    <2>2. OnIt(c)' = {w}
      BY <2>1 DEF OnIt, Assign, TypeOK
    <2>. QED
      BY <1>1, <2>2 DEF Started, TypeOK
  <1>2. CASE d # c
    <2>1. OnIt(d)' = OnIt(d)
      BY <1>2 DEF OnIt, Assign, TypeOK
    <2>. QED
      BY <1>2, <2>1 DEF LeaseInv, Started, TypeOK
  <1>. QED
    BY <1>1, <1>2

\* A claim without a worker: the transaction was executed and threw.
LEMMA LostClaimKeepsLease ==
  ASSUME TypeOK, LeaseInv, NEW c \in Company, NEW refresh,
         Claimable(c, refresh), Started(c), UNCHANGED <<stage, on, disturbed>>
  PROVE  LeaseInv'
  <1>1. c \notin disturbed => OnIt(c) = {}
    BY ClaimIsAlone
  <1>2. \A d \in Company \ {c} : status'[d] = status[d] /\ (d \in due' => d \in due)
    BY DEF Started, TypeOK
  <1>. QED
    BY <1>1, <1>2, NobodyMoves

\* A worker leaves, and may have written the record of its company.
LEMMA LeaveKeepsLease ==
  ASSUME TypeOK, LeaseInv, NEW w \in Worker, Leave(w),
         \/ UNCHANGED <<status, due>>
         \/ stage[w] # "idle" /\ (Merged(on[w]) \/ Failed(on[w]))
  PROVE  LeaseInv'
  <1> SUFFICES ASSUME NEW d \in Company \ disturbed', NEW v \in OnIt(d)'
               PROVE  /\ status'[d] = "COLLECTING"
                      /\ d \notin due'
                      /\ \A u \in OnIt(d)' : u = v
    BY DEF LeaseInv
  <1>1. OnIt(d)' = OnIt(d) \ {w}
    BY DEF OnIt, Leave, TypeOK
  <1>2. d \notin disturbed
    BY <1>1 DEF Leave
  <1>3. w \notin OnIt(d)
    BY <1>1, <1>2 DEF LeaseInv
  <1>4. status'[d] = status[d] /\ (d \in due' => d \in due)
    BY <1>3 DEF OnIt, Merged, Failed, TypeOK
  <1>. QED
    BY <1>1, <1>2, <1>4 DEF LeaseInv

LEMMA LeaseStep ==
  ASSUME TypeOK, LeaseInv, [Next]_vars
  PROVE  LeaseInv'
  <1>1. ASSUME NEW c \in Company, Create(c) PROVE LeaseInv'
    <2>1. OnIt(c) # {} => status[c] # "NONE"
      BY DEF OnIt, TypeOK
    <2>2. \A d \in Company \ {c} : status'[d] = status[d]
      BY <1>1 DEF Create, QueuedRecord, TypeOK
    <2>3. status[c] # "NONE" => status'[c] = status[c]
      BY <1>1 DEF Create, QueuedRecord, TypeOK
    <2>4. UNCHANGED <<stage, on, due, disturbed>>
      BY <1>1 DEF Create, QueuedRecord, workerVars
    <2>. QED
      BY <2>1, <2>2, <2>3, <2>4, NobodyMoves
  <1>2. ASSUME NEW c \in Company, Elapse(c) PROVE LeaseInv'
    <2>1. c \notin disturbed' => OnIt(c) = {}
      BY <1>2 DEF Elapse, LeaseInv
    <2>. QED
      BY <1>2, <2>1, NobodyMoves DEF Elapse, workerVars
  <1>3. ASSUME NEW c \in Company, DeadLetter(c) PROVE LeaseInv'
    <2>1. \A d \in Company \ {c} : status'[d] = status[d] /\ (d \in due' => d \in due)
      BY <1>3 DEF DeadLetter, DeadLettered, TypeOK
    <2>2. disturbed \subseteq disturbed' /\ (c \notin disturbed' => OnIt(c) = {})
      BY <1>3 DEF DeadLetter, DeadLettered
    <2>3. UNCHANGED <<stage, on>>
      BY <1>3 DEF DeadLetter, DeadLettered, workerVars
    <2>. QED
      BY <2>1, <2>2, <2>3, NobodyMoves
  <1>4. ASSUME NEW m \in queue, Deliver(m) PROVE LeaseInv'
    <2>1. m.company \in Company /\ Consumer \in Worker
      BY DEF TypeOK, Message, Worker
    <2>. QED
      BY <1>4, <2>1, ClaimKeepsLease DEF Deliver
  <1>5. ASSUME NEW m \in queue, DeliverThrows(m) PROVE LeaseInv'
    <2>1. m.company \in Company
      BY DEF TypeOK, Message
    <2>2. CASE UNCHANGED recordVars
      BY <1>5, <2>2, NobodyMovesAtAll DEF DeliverThrows, recordVars, workerVars
    <2>. QED
      BY <1>5, <2>1, <2>2, LostClaimKeepsLease DEF DeliverThrows, workerVars
  <1>6. ASSUME NEW w \in Api, NEW c \in Company, RunNext(w, c) PROVE LeaseInv'
    <2>1. CASE UNCHANGED <<recordVars, stage, on, message>>
      BY <1>6, <2>1, NobodyMovesAtAll DEF RunNext, recordVars
    <2>. QED
      BY <1>6, <2>1, ClaimKeepsLease DEF RunNext, Worker
  <1>7. ASSUME NEW w \in Api, NEW c \in Company, RunThrows(w, c) PROVE LeaseInv'
    <2>1. CASE UNCHANGED recordVars
      BY <1>7, <2>1, NobodyMovesAtAll DEF RunThrows, recordVars
    <2>. QED
      BY <1>7, <2>1, LostClaimKeepsLease DEF RunThrows
  <1>8. ASSUME NEW w \in Worker, Merge(w) \/ MarkFailed(w) \/ MarkFailedThrows(w) \/ Crash(w)
        PROVE  LeaseInv'
    BY <1>8, LeaveKeepsLease DEF Merge, MarkFailed, MarkFailedThrows, Crash, recordVars
  <1>9. ASSUME NEW w \in Worker, MergeAnswerLost(w) PROVE LeaseInv'
    <2>1. on[w] \in Company
      BY DEF TypeOK
    <2>2. \A d \in Company : OnIt(d)' = OnIt(d)
      BY <1>9 DEF MergeAnswerLost, OnIt, TypeOK
    <2>3. \A d \in Company \ {on[w]} : status'[d] = status[d] /\ (d \in due' => d \in due)
      BY <1>9 DEF MergeAnswerLost, Merged, TypeOK
    <2>. QED
      BY <1>9, <2>1, <2>2, <2>3 DEF MergeAnswerLost, LeaseInv
  <1>10. ASSUME NEW w \in Worker, Break(w) PROVE LeaseInv'
    <2>1. \A d \in Company : OnIt(d)' = OnIt(d)
      BY <1>10 DEF Break, OnIt, TypeOK
    <2>. QED
      BY <1>10, <2>1 DEF Break, LeaseInv, recordVars
  <1>11. ASSUME \/ Fallback
                \/ \E m \in queue : DeliverNoop(m)
                \/ \E w \in Api : Run(w)
                \/ \E c \in Company : DeadLetterLost(c)
                \/ UNCHANGED vars
         PROVE  LeaseInv'
    BY <1>11, NobodyMovesAtAll DEF Fallback, DeliverNoop, Run, DeadLetterLost, recordVars, workerVars, vars
  <1>. QED
    BY <1>1, <1>2, <1>3, <1>4, <1>5, <1>6, <1>7, <1>8, <1>9, <1>10, <1>11 DEF Next

LEMMA Inductive == Spec => []IInv
  <1>1. IInv /\ [Next]_vars => IInv'
    BY TypeStep, LeaseStep DEF IInv
  <1>. QED
    BY <1>1, InitIInv, PTL DEF Spec

\* A company is collected by one worker at a time while its claim stands,
\* however often messages are duplicated or redelivered
\* (markCompanyResearchStarted).
THEOREM OneCollectorAtATime == Spec => []OneCollector
  <1>1. IInv => OneCollector
    <2> SUFFICES ASSUME IInv, NEW c \in known \ disturbed PROVE Cardinality(OnIt(c)) <= 1
      BY DEF OneCollector
    <2>1. c \in Company
      BY DEF IInv, TypeOK
    <2>2. CASE OnIt(c) = {}
      BY <2>2, FS_EmptySet
    <2>3. CASE OnIt(c) # {}
      <3>1. PICK w \in OnIt(c) : OnIt(c) = {w}
        BY <2>1, <2>3 DEF IInv, LeaseInv
      <3>. QED
        BY <3>1, FS_Singleton
    <2>. QED
      BY <2>2, <2>3
  <1>. QED
    BY <1>1, Inductive, PTL

\* No step takes the result of a company away (the records of
\* company-research.mjs are spread over the existing one).
THEOREM ResultsAreKept == Spec => ResultIsKept
  <1>1. [Next]_vars => [\A c \in collected : c \in collected']_vars
    <2> SUFFICES ASSUME Next PROVE collected \subseteq collected'
      OBVIOUS
    <2>1. ASSUME NEW w \in Worker,
                 Merge(w) \/ MergeAnswerLost(w) \/ Break(w) \/ MarkFailed(w) \/ MarkFailedThrows(w) \/ Crash(w)
          PROVE  collected \subseteq collected'
      BY <2>1 DEF Merge, MergeAnswerLost, Break, MarkFailed, MarkFailedThrows, Crash, Merged, Failed, recordVars
    <2>2. ASSUME NEW m \in queue, Deliver(m) \/ DeliverNoop(m) \/ DeliverThrows(m)
          PROVE  collected \subseteq collected'
      BY <2>2 DEF Deliver, DeliverNoop, DeliverThrows, Started, recordVars
    <2>3. ASSUME NEW w \in Api, Run(w) \/ \E c \in Company : RunNext(w, c) \/ RunThrows(w, c)
          PROVE  collected \subseteq collected'
      BY <2>3 DEF Run, RunNext, RunThrows, Started, recordVars
    <2>4. ASSUME Fallback \/ \E c \in Company : Create(c) \/ Elapse(c) \/ DeadLetter(c) \/ DeadLetterLost(c)
          PROVE  collected \subseteq collected'
      BY <2>4 DEF Fallback, Create, QueuedRecord, Elapse, DeadLetter, DeadLettered, DeadLetterLost, recordVars
    <2>. QED
      BY <2>1, <2>2, <2>3, <2>4 DEF Next
  <1>. QED
    BY <1>1, PTL DEF Spec, ResultIsKept

-----------------------------------------------------------------------------
(* What a run selects *)

\* The eligible companies that come before c.
Ahead(c) == {d \in Company : Eligible(d) /\ Before(d, c)}

\* The order of a run is total: the number decides among equals.
LEMMA BeforeIsTotal ==
  ASSUME TypeOK, NEW c \in Company, NEW d \in Company, NEW e \in Company
  PROVE  /\ ~Before(c, c)
         /\ Before(c, d) \/ Before(d, c) \/ c = d
         /\ Before(c, d) /\ Before(d, e) => Before(c, e)
  <1>1. \A x \in Company : Priority(x) \in 0..2 /\ queuedAt[x] \in Nat /\ x \in Nat
    BY ResearchAssumption DEF TypeOK, Status, Priority
  <1>. QED
    BY <1>1 DEF Before

\* How many come before c is a number, and it grows along the order.
LEMMA AheadGrows ==
  ASSUME TypeOK, NEW c \in Company
  PROVE  /\ IsFiniteSet(Ahead(c))
         /\ Cardinality(Ahead(c)) \in Nat
         /\ \A d \in Company : Eligible(d) /\ Before(d, c) =>
              Cardinality(Ahead(d)) < Cardinality(Ahead(c))
  <1>1. \A x \in Company : IsFiniteSet(Ahead(x)) /\ Cardinality(Ahead(x)) \in Nat
    BY ResearchAssumption, FS_Subset, FS_CardinalityType DEF Ahead
  <1>2. ASSUME NEW d \in Company, Eligible(d), Before(d, c)
        PROVE  Cardinality(Ahead(d)) < Cardinality(Ahead(c))
    <2>1. Ahead(d) \subseteq Ahead(c)
      BY <1>2, BeforeIsTotal DEF Ahead
    <2>2. d \in Ahead(c) /\ d \notin Ahead(d)
      BY <1>2, BeforeIsTotal DEF Ahead
    <2>3. /\ Cardinality(Ahead(d)) <= Cardinality(Ahead(c))
          /\ Cardinality(Ahead(d)) # Cardinality(Ahead(c))
      BY <1>1, <2>1, <2>2, FS_Subset
    <2>. QED
      BY <1>1, <2>3
  <1>. QED
    BY <1>1, <1>2

\* No two selected companies have as many before them, and there are MaxPerRun
\* numbers to have.
LEMMA SelectedFits ==
  ASSUME TypeOK
  PROVE  IsFiniteSet(Selected) /\ Cardinality(Selected) <= MaxPerRun
  <1>. DEFINE rank == [c \in Selected |-> Cardinality(Ahead(c))]
  <1>1. IsFiniteSet(0..(MaxPerRun - 1)) /\ Cardinality(0..(MaxPerRun - 1)) = MaxPerRun
    BY ResearchAssumption, FS_Interval
  <1>2. \A c \in Selected : /\ c \in Company /\ Eligible(c)
                            /\ Cardinality(Ahead(c)) \in 0..(MaxPerRun - 1)
    BY AheadGrows, ResearchAssumption DEF Selected, Ahead
  <1>3. rank \in [Selected -> 0..(MaxPerRun - 1)]
    BY <1>2
  <1>4. ASSUME NEW c \in Selected, NEW d \in Selected, rank[c] = rank[d]
        PROVE  c = d
    <2>1. ~Before(c, d) /\ ~Before(d, c)
      BY <1>2, <1>4, AheadGrows
    <2>. QED
      BY <1>2, <2>1, BeforeIsTotal
  <1>5. rank \in Injection(Selected, 0..(MaxPerRun - 1))
    BY <1>3, <1>4 DEF Injection, IsInjective
  <1>. QED
    BY <1>1, <1>5, FS_Injection

\* The first company that is left waiting comes after all that are selected, and
\* it was left because these fill the run.
LEMMA SelectedFills ==
  ASSUME TypeOK, NEW w \in Company, Eligible(w), w \notin Selected
  PROVE  Cardinality(Selected) = MaxPerRun
  <1>. DEFINE Waiting == {c \in Company : Eligible(c)} \ Selected
              Ranks == {Cardinality(Ahead(c)) : c \in Waiting}
  <1>1. Ranks \subseteq Nat /\ Ranks # {}
    BY AheadGrows
  <1>2. PICK n \in Ranks : \A m \in Ranks : ~(m < n)
    <2>1. PICK n \in Ranks : \A m \in Ranks : ~(<<m, n>> \in OpToRel(<, Nat))
      BY <1>1, NatLessThanWellFounded, WFMin
    <2>. QED
      BY <1>1, <2>1 DEF OpToRel
  <1>3. PICK c \in Waiting : n = Cardinality(Ahead(c))
    BY <1>2
  <1>4. \A d \in Company : Eligible(d) /\ Before(d, c) => d \in Selected
    BY <1>1, <1>2, <1>3, AheadGrows
  <1>5. ~(Cardinality(Ahead(c)) < MaxPerRun)
    BY DEF Selected, Ahead
  <1>6. Ahead(c) \subseteq Selected
    BY <1>4 DEF Ahead
  <1>7. Cardinality(Ahead(c)) <= Cardinality(Selected)
    BY <1>6, SelectedFits, FS_Subset
  <1>8. Cardinality(Selected) \in Nat /\ Cardinality(Ahead(c)) \in Nat
    BY SelectedFits, AheadGrows, FS_CardinalityType
  <1>. QED
    BY <1>5, <1>7, <1>8, SelectedFits, ResearchAssumption

\* A company that waits has at least as low a priority as those that are selected.
LEMMA SelectedComeFirst ==
  ASSUME TypeOK, NEW c \in Selected, NEW d \in Company, Eligible(d), d \notin Selected
  PROVE  Priority(c) <= Priority(d)
  <1>1. /\ c \in Company /\ Eligible(c)
        /\ Cardinality(Ahead(c)) < MaxPerRun /\ ~(Cardinality(Ahead(d)) < MaxPerRun)
    BY DEF Selected, Ahead
  <1>2. ~Before(d, c)
    BY <1>1, AheadGrows, ResearchAssumption
  <1>3. Before(c, d)
    BY <1>1, <1>2, BeforeIsTotal
  <1>4. Priority(c) \in Nat /\ Priority(d) \in Nat
    BY <1>1 DEF TypeOK, Status, Priority
  <1>. QED
    BY <1>3, <1>4 DEF Before

\* Whatever the records are, a run takes exactly the first companies of the order,
\* as many as there are and it has room for: nothing that waits is passed over.
THEOREM RunsTakeTheFirst == Spec => []RunsAreFull
  <1>1. ASSUME TypeOK PROVE RunsAreFull
    <2>1. \A c \in Selected : Claimable(c, TRUE)
      BY DEF Selected, Eligible, Claimable
    <2>2. Cardinality(Selected) <= MaxPerRun
      BY <1>1, SelectedFits
    <2>3. {c \in Company : Eligible(c)} \ Selected # {} => Cardinality(Selected) = MaxPerRun
      BY <1>1, SelectedFills
    <2>4. \A c \in Selected, d \in {c \in Company : Eligible(c)} \ Selected :
            Priority(c) <= Priority(d)
      BY <1>1, SelectedComeFirst
    <2>. QED
      BY <2>1, <2>2, <2>3, <2>4 DEF RunsAreFull
  <1>. QED
    BY <1>1, ResearchIsTyped, PTL

-----------------------------------------------------------------------------
(* Pages: the list of events *)

\* Events that can be told apart and put in an order.
Orderly(E) ==
  /\ IsFiniteSet(E)
  /\ \A d, e \in E : d.of.date \in Nat /\ d.of.id \in Nat /\ (d.of.id = e.of.id => d = e)

NewerThan(E, e) == {d \in E : Newer(d, e)}

FirstOf(E) == {e \in E : Cardinality(NewerThan(E, e)) < Limit.timeline}

LEMMA TimelineIsFirst ==
  ASSUME NEW firm, NEW results
  PROVE  Timeline(firm, results) = FirstOf(Events(firm, results))
  BY DEF Timeline, FirstOf, NewerThan

LEMMA LimitType == Limit.timeline \in Nat \ {0} /\ Limit.candidates \in Nat \ {0} /\ Limit.hits \in Nat \ {0}
  BY SourceAssumption

LEMMA FewerOrderly ==
  ASSUME NEW E, Orderly(E), NEW D \in SUBSET E
  PROVE  Orderly(D)
  BY FS_Subset DEF Orderly

LEMMA NewerIsTotal ==
  ASSUME NEW E, Orderly(E), NEW c \in E, NEW d \in E, NEW e \in E
  PROVE  /\ ~Newer(c, c)
         /\ Newer(c, d) \/ Newer(d, c) \/ c = d
         /\ Newer(c, d) /\ Newer(d, e) => Newer(c, e)
  <1>1. /\ c.of.date \in Nat /\ d.of.date \in Nat /\ e.of.date \in Nat
        /\ c.of.id \in Nat /\ d.of.id \in Nat /\ e.of.id \in Nat
        /\ c.of.id = d.of.id => c = d
    BY DEF Orderly
  <1>. QED
    BY <1>1 DEF Newer

\* How many are newer is a number, and it grows along the order.
LEMMA NewerGrows ==
  ASSUME NEW E, Orderly(E), NEW e \in E
  PROVE  /\ IsFiniteSet(NewerThan(E, e))
         /\ Cardinality(NewerThan(E, e)) \in Nat
         /\ \A d \in E : Newer(d, e) =>
              Cardinality(NewerThan(E, d)) < Cardinality(NewerThan(E, e))
  <1>1. \A x \in E : IsFiniteSet(NewerThan(E, x)) /\ Cardinality(NewerThan(E, x)) \in Nat
    BY FS_Subset, FS_CardinalityType DEF NewerThan, Orderly
  <1>2. ASSUME NEW d \in E, Newer(d, e)
        PROVE  Cardinality(NewerThan(E, d)) < Cardinality(NewerThan(E, e))
    <2>1. NewerThan(E, d) \subseteq NewerThan(E, e)
      BY <1>2, NewerIsTotal DEF NewerThan
    <2>2. d \in NewerThan(E, e) /\ d \notin NewerThan(E, d)
      BY <1>2, NewerIsTotal DEF NewerThan
    <2>3. /\ Cardinality(NewerThan(E, d)) <= Cardinality(NewerThan(E, e))
          /\ Cardinality(NewerThan(E, d)) # Cardinality(NewerThan(E, e))
      BY <1>1, <2>1, <2>2, FS_Subset
    <2>. QED
      BY <1>1, <2>3
  <1>. QED
    BY <1>1, <1>2

\* No two that are shown have as many before them, and there are Limit.timeline
\* numbers to have.
LEMMA FirstFits ==
  ASSUME NEW E, Orderly(E)
  PROVE  IsFiniteSet(FirstOf(E)) /\ Cardinality(FirstOf(E)) <= Limit.timeline
  <1>. DEFINE N == Limit.timeline
              rank == [e \in FirstOf(E) |-> Cardinality(NewerThan(E, e))]
  <1>0. N \in Nat \ {0}
    BY LimitType
  <1>1. \A e \in FirstOf(E) : e \in E /\ Cardinality(NewerThan(E, e)) < N
    BY DEF FirstOf
  <1>. HIDE DEF N
  <1>2. /\ IsFiniteSet(0..(N - 1)) /\ Cardinality(0..(N - 1)) = N
        /\ \A e \in FirstOf(E) : e \in E /\ Cardinality(NewerThan(E, e)) \in 0..(N - 1)
    BY <1>0, <1>1, FS_Interval, NewerGrows
  <1>3. rank \in [FirstOf(E) -> 0..(N - 1)]
    BY <1>2
  <1>4. ASSUME NEW c \in FirstOf(E), NEW d \in FirstOf(E), rank[c] = rank[d]
        PROVE  c = d
    <2>1. c \in E /\ d \in E
      BY <1>2
    <2>2. ~Newer(c, d) /\ ~Newer(d, c)
      BY <1>2, <1>4, <2>1, NewerGrows
    <2>. QED
      BY <2>1, <2>2, NewerIsTotal
  <1>5. rank \in Injection(FirstOf(E), 0..(N - 1))
    BY <1>3, <1>4 DEF Injection, IsInjective
  <1>. QED
    BY <1>2, <1>5, FS_Injection DEF N

\* An event is left out only where those shown fill the list.
LEMMA FirstFills ==
  ASSUME NEW E, Orderly(E), NEW w \in E, w \notin FirstOf(E)
  PROVE  Cardinality(FirstOf(E)) = Limit.timeline
  <1>. DEFINE Left == E \ FirstOf(E)
              Ranks == {Cardinality(NewerThan(E, e)) : e \in Left}
  <1>1. Ranks \subseteq Nat /\ Ranks # {}
    BY NewerGrows
  <1>2. PICK n \in Ranks : \A m \in Ranks : ~(m < n)
    <2>1. PICK n \in Ranks : \A m \in Ranks : ~(<<m, n>> \in OpToRel(<, Nat))
      BY <1>1, NatLessThanWellFounded, WFMin
    <2>. QED
      BY <1>1, <2>1 DEF OpToRel
  <1>3. PICK e \in Left : n = Cardinality(NewerThan(E, e))
    BY <1>2
  <1>4. \A d \in E : Newer(d, e) => d \in FirstOf(E)
    BY <1>1, <1>2, <1>3, NewerGrows
  <1>5. ~(Cardinality(NewerThan(E, e)) < Limit.timeline)
    BY DEF FirstOf
  <1>6. NewerThan(E, e) \subseteq FirstOf(E)
    BY <1>4 DEF NewerThan
  <1>7. Cardinality(NewerThan(E, e)) <= Cardinality(FirstOf(E))
    BY <1>6, FirstFits, FS_Subset
  <1>8. Cardinality(FirstOf(E)) \in Nat /\ Cardinality(NewerThan(E, e)) \in Nat
    BY FirstFits, NewerGrows, FS_CardinalityType
  <1>. QED
    BY <1>5, <1>7, <1>8, FirstFits, LimitType

\* The list of fewer events: what is left of the list stays in it, and what is new
\* in it has the place of what is gone.
LEMMA FirstOfFewer ==
  ASSUME NEW E, Orderly(E), NEW D \in SUBSET E
  PROVE  /\ FirstOf(D) \subseteq D
         /\ \A e \in FirstOf(E) : e \in D => e \in FirstOf(D)
         /\ Cardinality(FirstOf(D) \ FirstOf(E)) <= Cardinality(FirstOf(E) \ FirstOf(D))
         /\ FirstOf(D) # {} => FirstOf(E) # {}
  <1>1. Orderly(D)
    BY FewerOrderly
  <1>. DEFINE x == FirstOf(E)
              y == FirstOf(D)
  <1>2. ASSUME NEW e \in x, e \in D PROVE e \in y
    <2>1. e \in E /\ NewerThan(D, e) \subseteq NewerThan(E, e)
      BY <1>2 DEF FirstOf, NewerThan
    <2>2. IsFiniteSet(NewerThan(E, e)) /\ Cardinality(NewerThan(E, e)) \in Nat
      BY <2>1, NewerGrows
    <2>3. /\ Cardinality(NewerThan(D, e)) <= Cardinality(NewerThan(E, e))
          /\ Cardinality(NewerThan(D, e)) \in Nat
      BY <1>1, <1>2, <2>1, <2>2, FS_Subset, NewerGrows
    <2>. QED
      BY <1>2, <2>2, <2>3, LimitType DEF FirstOf
  <1>3. /\ IsFiniteSet(x) /\ IsFiniteSet(y)
        /\ Cardinality(x) \in Nat /\ Cardinality(y) \in Nat
        /\ Cardinality(x) <= Limit.timeline /\ Cardinality(y) <= Limit.timeline
    BY <1>1, FirstFits, FS_CardinalityType
  <1>4. Cardinality(y) <= Cardinality(x)
    <2>1. CASE \E w \in E : w \notin x
      BY <1>3, <2>1, FirstFills, LimitType
    <2>2. CASE \A w \in E : w \in x
      <3>1. y \subseteq x
        BY <2>2 DEF FirstOf
      <3>. QED
        BY <1>3, <3>1, FS_Subset
    <2>. QED
      BY <2>1, <2>2
  <1>. HIDE DEF x, y
  <1>5. Cardinality(y \ x) <= Cardinality(x \ y)
    <2>1. /\ Cardinality(y \ x) = Cardinality(y) - Cardinality(y \intersect x)
          /\ Cardinality(x \ y) = Cardinality(x) - Cardinality(x \intersect y)
      BY <1>3, FS_Difference
    <2>2. y \intersect x = x \intersect y
      OBVIOUS
    <2>3. IsFiniteSet(x \intersect y)
      BY <1>3, FS_Subset
    <2>4. Cardinality(x \intersect y) \in Nat
      BY <2>3, FS_CardinalityType
    <2>. QED
      BY <1>3, <1>4, <2>1, <2>2, <2>4
  <1>6. y # {} => x # {}
    <2>1. ASSUME y # {}, x = {} PROVE FALSE
      <3>1. Cardinality(x) = 0 /\ Cardinality(y) # 0
        BY <1>3, <2>1, FS_EmptySet
      <3>. QED
        BY <1>3, <1>4, <3>1
    <2>. QED
      BY <2>1
  <1>. QED
    BY <1>2, <1>5, <1>6 DEF x, y, FirstOf

-----------------------------------------------------------------------------
(* Pages: what is concluded without some of the sources *)

Lost == [status |-> "ERROR", candidates |-> {}]

\* The answers b are the answers a, but for some that are lost.
Weaker(b, a) ==
  \A s \in Source : b[s] = a[s] \/ (a[s].status = "OK" /\ b[s] = Lost)

LEMMA SourcesDiffer ==
  /\ "GLEIF" \in Source /\ "WIKIDATA" \in Source /\ "SEC_EDGAR" \in Source
  /\ "GLEIF" \notin UsSource /\ "WIKIDATA" \notin UsSource /\ "SEC_EDGAR" \in UsSource
  /\ "SEC_EDGAR" \notin LaborSource /\ LaborSource \subseteq UsSource
  /\ "SEC_EDGAR" \notin GlobalSource /\ UsSource \subseteq Source /\ GlobalSource \subseteq Source
  BY SourceAssumption DEF Source, GlobalSource, UsSource

\* runBoundedProviderTasks() with and without failures.
LEMMA AnswerOf ==
  ASSUME NEW firm, NEW world, NEW down \in SUBSET Source, NEW s \in Source
  PROVE  LET full == Results(firm, world, {})[s]
             some == Results(firm, world, down)[s]
         IN  /\ full.status \in {"OK", "NOT_APPLICABLE"}
             /\ s = "GLEIF" \/ s = "WIKIDATA" => full.status = "OK"
             /\ some = IF s \in down /\ full.status = "OK" THEN Lost ELSE full
  <1>. DEFINE full == Results(firm, world, {})[s]
              some == Results(firm, world, down)[s]
              heard == Candidates(firm, world, s)
              asked == s \in GlobalSource \/ countryCode(firm.region) = "US"
  <1>1. full = IF asked THEN [status |-> "OK", candidates |-> heard] ELSE NotApplicable
    BY DEF Results, providerResult
  <1>2. some = IF asked THEN (IF s \in down THEN Lost ELSE [status |-> "OK", candidates |-> heard])
               ELSE NotApplicable
    BY DEF Results, providerResult, Lost
  <1>3. s = "GLEIF" \/ s = "WIKIDATA" => asked
    BY DEF GlobalSource
  <1>. HIDE DEF heard, asked, full, some
  <1>4. NotApplicable.status = "NOT_APPLICABLE"
    BY DEF NotApplicable
  <1>5. /\ full.status \in {"OK", "NOT_APPLICABLE"}
        /\ s = "GLEIF" \/ s = "WIKIDATA" => full.status = "OK"
        /\ some = IF s \in down /\ full.status = "OK" THEN Lost ELSE full
    BY <1>1, <1>2, <1>3, <1>4
  <1>. QED
    BY <1>5 DEF full, some

LEMMA FailuresWeaken ==
  ASSUME NEW firm, NEW world, NEW down \in SUBSET Source
  PROVE  Weaker(Results(firm, world, down), Results(firm, world, {}))
  BY AnswerOf DEF Weaker

\* A lost answer has no candidates, and none of them is the company.
LEMMA FewerExact ==
  ASSUME NEW firm, NEW a, NEW b, Weaker(b, a), NEW s \in Source
  PROVE  \/ b[s] = a[s]
         \/ /\ b[s].status = "ERROR" /\ b[s].candidates = {} /\ exactCandidates(b[s], firm) = {}
            /\ a[s].status = "OK"
  BY DEF Weaker, Lost, exactCandidates

\* The legal entity is the same one or none.
LEMMA FewerIdentities ==
  ASSUME NEW firm, NEW a, NEW b, Weaker(b, a)
  PROVE  LET x == Identity(firm, a["GLEIF"])
             y == Identity(firm, b["GLEIF"])
         IN  y = x \/ (y = [status |-> "SOURCE_GAP", reference |-> {}])
  <1>1. CASE b["GLEIF"] = a["GLEIF"]
    BY <1>1
  <1>2. CASE b["GLEIF"] # a["GLEIF"]
    <2>1. b["GLEIF"].status = "ERROR"
      BY <1>2, FewerExact, SourcesDiffer
    <2>. QED
      BY <2>1 DEF Identity
  <1>. QED
    BY <1>1, <1>2

LEMMA FewerFacts ==
  ASSUME NEW firm, NEW a, NEW b, Weaker(b, a)
  PROVE  LET x == Identity(firm, a["GLEIF"])
             y == Identity(firm, b["GLEIF"])
         IN  /\ y.reference \subseteq x.reference
             /\ SecFacts(firm, y, b["SEC_EDGAR"]) \subseteq SecFacts(firm, x, a["SEC_EDGAR"])
             /\ Facts(firm, y, b) \subseteq Facts(firm, x, a)
             /\ Conflicts(firm, y, b) \subseteq Conflicts(firm, x, a)
  <1>. DEFINE x == Identity(firm, a["GLEIF"])
              y == Identity(firm, b["GLEIF"])
              sa == SecFacts(firm, x, a["SEC_EDGAR"])
              sb == SecFacts(firm, y, b["SEC_EDGAR"])
  <1>0. "GLEIF" \in Source /\ "SEC_EDGAR" \in Source /\ "WIKIDATA" \in Source
    BY SourcesDiffer
  <1>1. y = x \/ (y.status = "SOURCE_GAP" /\ y.reference = {})
    <2>1. y = x \/ y = [status |-> "SOURCE_GAP", reference |-> {}]
      BY FewerIdentities
    <2>. QED
      BY <2>1
  <1>2. \/ b["SEC_EDGAR"] = a["SEC_EDGAR"]
        \/ b["SEC_EDGAR"].status = "ERROR" /\ exactCandidates(b["SEC_EDGAR"], firm) = {}
    BY <1>0 DEF Weaker, Lost, exactCandidates
  <1>3. \/ b["GLEIF"] = a["GLEIF"]
        \/ y.status = "SOURCE_GAP"
    <2>1. b["GLEIF"] = a["GLEIF"] \/ b["GLEIF"].status = "ERROR"
      BY <1>0 DEF Weaker, Lost
    <2>. QED
      BY <2>1 DEF Identity
  <1>4. \/ b["WIKIDATA"] = a["WIKIDATA"]
        \/ b["WIKIDATA"].status = "ERROR" /\ b["WIKIDATA"].candidates = {}
    BY <1>0 DEF Weaker, Lost, exactCandidates
  <1>. HIDE DEF x, y
  <1>5. y.reference \subseteq x.reference
    BY <1>1
  <1>6. sb \subseteq sa
    BY <1>2, <1>5 DEF SecFacts
  <1>. HIDE DEF sa, sb
  <1>7. Facts(firm, y, b) \subseteq Facts(firm, x, a)
    BY <1>5, <1>6 DEF Facts, sa, sb
  <1>8. Compatible(firm, b["WIKIDATA"]) = Compatible(firm, a["WIKIDATA"])
        \/ Compatible(firm, b["WIKIDATA"]) = {}
    BY <1>4 DEF Compatible
  <1>9. ~(Cardinality({}) > 1)
    BY FS_EmptySet
  <1>10. Conflicts(firm, y, b) \subseteq Conflicts(firm, x, a)
    BY <1>1, <1>2, <1>3, <1>8, <1>9 DEF Conflicts
  <1>. QED
    BY <1>5, <1>6, <1>7, <1>10 DEF x, y, sa, sb

LEMMA FewerReferences ==
  ASSUME NEW firm, NEW a, NEW b, Weaker(b, a)
  PROVE  References(firm, b["WIKIDATA"]) \subseteq References(firm, a["WIKIDATA"])
  <1>1. CASE b["WIKIDATA"] = a["WIKIDATA"]
    BY <1>1
  <1>2. CASE b["WIKIDATA"] # a["WIKIDATA"]
    <2>1. "WIKIDATA" \in Source
      BY SourcesDiffer
    <2>2. b["WIKIDATA"].candidates = {}
      BY <1>2, <2>1 DEF Weaker, Lost
    <2>3. Compatible(firm, b["WIKIDATA"]) = {}
      BY <2>2 DEF Compatible
    <2>. QED
      BY <2>3 DEF References
  <1>. QED
    BY <1>1, <1>2

\* The events of the sources that have answered are the same.
LEMMA FewerEvents ==
  ASSUME NEW firm, NEW a, NEW b, Weaker(b, a)
  PROVE  /\ Events(firm, b) \subseteq Events(firm, a)
         /\ \A e \in Events(firm, a) : b[e.source].status = "OK" => e \in Events(firm, b)
  <1>. DEFINE Those(x) ==
         UNION {{[source |-> x[2], of |-> c.records[i]] : i \in Leading(Limit.events, DOMAIN c.records)} :
                c \in exactCandidates(x[1], firm)}
  <1>1. /\ Events(firm, a) = UNION {Those(<<a[s], s>>) : s \in {t \in LaborSource : a[t].status = "OK"}}
        /\ Events(firm, b) = UNION {Those(<<b[s], s>>) : s \in {t \in LaborSource : b[t].status = "OK"}}
    BY DEF Events
  <1>2. ASSUME NEW r, NEW s, NEW e \in Those(<<r, s>>)
        PROVE  e.source = s
    <2>1. PICK c \in exactCandidates(r, firm) :
            e \in {[source |-> s, of |-> c.records[i]] : i \in Leading(Limit.events, DOMAIN c.records)}
      OBVIOUS
    <2>. QED
      BY <2>1
  <1>. HIDE DEF Those
  <1>3. ASSUME NEW s \in LaborSource, b[s].status = "OK"
        PROVE  b[s] = a[s]
    BY <1>3, FewerExact, SourcesDiffer
  <1>4. ASSUME NEW e \in Events(firm, b) PROVE e \in Events(firm, a)
    <2>1. PICK s \in {t \in LaborSource : b[t].status = "OK"} : e \in Those(<<b[s], s>>)
      BY <1>1, <1>4
    <2>2. b[s] = a[s] /\ s \in {t \in LaborSource : a[t].status = "OK"}
      BY <1>3
    <2>. QED
      BY <1>1, <2>1, <2>2
  <1>5. ASSUME NEW e \in Events(firm, a), b[e.source].status = "OK" PROVE e \in Events(firm, b)
    <2>1. PICK s \in {t \in LaborSource : a[t].status = "OK"} : e \in Those(<<a[s], s>>)
      BY <1>1, <1>5
    <2>2. e.source = s
      BY <1>2, <2>1
    <2>3. b[s] = a[s] /\ s \in {t \in LaborSource : b[t].status = "OK"}
      BY <1>3, <1>5, <2>2
    <2>. QED
      BY <1>1, <2>1, <2>3
  <1>. QED
    BY <1>4, <1>5

\* A source that is cited without the lost answers is cited with them, be it that
\* a signal has become a fact; and a signal less is made up for by a fact.
LEMMA FewerSignals ==
  ASSUME NEW firm, NEW a, NEW b, Weaker(b, a)
  PROVE  LET x == Identity(firm, a["GLEIF"])
             y == Identity(firm, b["GLEIF"])
         IN  /\ \A s \in Signals(firm, y, b) :
                  \/ s \in Signals(firm, x, a)
                  \/ \E f \in Facts(firm, x, a) : f.source = s
             /\ Signals(firm, y, b) # {} => Signals(firm, x, a) # {} \/ x.reference # {}
  <1>. DEFINE x == Identity(firm, a["GLEIF"])
              y == Identity(firm, b["GLEIF"])
              sa == SecFacts(firm, x, a["SEC_EDGAR"])
              sb == SecFacts(firm, y, b["SEC_EDGAR"])
  <1>. HIDE DEF x, y
  <1>1. ASSUME NEW s \in Signals(firm, y, b)
        PROVE  \/ s \in Signals(firm, x, a)
               \/ s = "SEC_EDGAR" /\ SecFacts(firm, x, a[s]) # {}
    <2>1. s \in UsSource /\ b[s].status = "OK"
      BY <1>1 DEF Signals
    <2>2. b[s] = a[s]
      <3>1. s \in Source
        BY <2>1, SourcesDiffer
      <3>. QED
        BY <2>1, <3>1 DEF Weaker, Lost
    <2>. QED
      BY <1>1, <2>1, <2>2 DEF Signals
  <1>2. ASSUME NEW c \in SecFacts(firm, x, a["SEC_EDGAR"])
        PROVE  /\ [source |-> "SEC_EDGAR", of |-> c] \in Facts(firm, x, a)
               /\ x.reference # {}
    BY <1>2 DEF Facts, SecFacts
  <1>3. \A c : [source |-> "SEC_EDGAR", of |-> c].source = "SEC_EDGAR"
    OBVIOUS
  <1>4. \/ SecFacts(firm, x, a["SEC_EDGAR"]) = {}
        \/ (\E f \in Facts(firm, x, a) : f.source = "SEC_EDGAR") /\ x.reference # {}
    BY <1>2, <1>3
  <1>5. \A s \in Signals(firm, y, b) :
          \/ s \in Signals(firm, x, a)
          \/ (\E f \in Facts(firm, x, a) : f.source = s) /\ x.reference # {}
    BY <1>1, <1>4
  <1>6. Signals(firm, y, b) # {} => Signals(firm, x, a) # {} \/ x.reference # {}
    BY <1>5
  <1>. QED
    BY <1>5, <1>6 DEF x, y

\* A fact of the SEC needs a bound entity, which is a fact itself.
LEMMA FactsNeedEntity ==
  ASSUME NEW firm, NEW identity, NEW results
  PROVE  Facts(firm, identity, results) # {} <=> identity.reference # {}
  <1>1. ASSUME NEW r \in identity.reference
        PROVE  [source |-> "GLEIF", of |-> r] \in Facts(firm, identity, results)
    BY DEF Facts
  <1>2. ASSUME Facts(firm, identity, results) # {}, identity.reference = {}
        PROVE  FALSE
    BY <1>2 DEF Facts, SecFacts
  <1>. QED
    BY <1>1, <1>2

LEMMA OutageOf ==
  ASSUME NEW firm, NEW a, NEW b, Weaker(b, a), Orderly(Events(firm, a))
  PROVE  LET full == buildAutonomousIntelligence(firm, a)
             some == buildAutonomousIntelligence(firm, b)
         IN  /\ some.facts \subseteq full.facts
             /\ some.references \subseteq full.references
             /\ some.timeline \subseteq Events(firm, a)
             /\ \A e \in full.timeline : b[e.source].status = "OK" => e \in some.timeline
             /\ Cardinality(some.timeline \ full.timeline) <= Cardinality(full.timeline \ some.timeline)
             /\ some.conflicts \subseteq full.conflicts
             /\ some.identity.reference \subseteq full.identity.reference
             /\ Shown(some) \subseteq Shown(full)
             /\ Strength[some.dossier] <= Strength[full.dossier]
             /\ some.status = "MACHINE_INTELLIGENCE_READY" <=> some.dossier = "REFERENCE_READY"
             /\ Of(b, "ERROR") # {} => "SOURCE_GAPS" \in some.gaps
             /\ (\A s \in Source : a[s].status # "ERROR") => full.gaps \subseteq some.gaps
  <1>. DEFINE x == Identity(firm, a["GLEIF"])
              y == Identity(firm, b["GLEIF"])
              full == buildAutonomousIntelligence(firm, a)
              some == buildAutonomousIntelligence(firm, b)
              wa == Signals(firm, x, a) # {} \/ Timeline(firm, a) # {}
              wb == Signals(firm, y, b) # {} \/ Timeline(firm, b) # {}
              fa == Facts(firm, x, a)
              fb == Facts(firm, y, b)
              ra == References(firm, a["WIKIDATA"])
              rb == References(firm, b["WIKIDATA"])
  <1>1. /\ full.identity = x /\ full.facts = fa /\ full.references = ra
        /\ full.signals = Signals(firm, x, a) /\ full.timeline = Timeline(firm, a)
        /\ full.conflicts = Conflicts(firm, x, a) /\ full.gaps = Gaps(firm, x, a)
        /\ full.dossier = IF x.reference # {} THEN "REFERENCE_READY"
                          ELSE IF ra # {} THEN "CONTEXT_READY"
                          ELSE IF wa THEN "SIGNALS_READY" ELSE "LIMITED_DATA"
    BY DEF buildAutonomousIntelligence
  <1>2. /\ some.identity = y /\ some.facts = fb /\ some.references = rb
        /\ some.signals = Signals(firm, y, b) /\ some.timeline = Timeline(firm, b)
        /\ some.conflicts = Conflicts(firm, y, b) /\ some.gaps = Gaps(firm, y, b)
        /\ some.dossier = IF y.reference # {} THEN "REFERENCE_READY"
                          ELSE IF rb # {} THEN "CONTEXT_READY"
                          ELSE IF wb THEN "SIGNALS_READY" ELSE "LIMITED_DATA"
        /\ some.status = IF fb # {} THEN "MACHINE_INTELLIGENCE_READY"
                         ELSE IF rb # {} THEN "OPEN_CONTEXT_READY"
                         ELSE IF wb THEN "SOURCE_SIGNALS_ONLY" ELSE "CANDIDATES_ONLY"
    BY DEF buildAutonomousIntelligence
  <1>3. /\ y.reference \subseteq x.reference /\ fb \subseteq fa
        /\ Conflicts(firm, y, b) \subseteq Conflicts(firm, x, a)
    BY FewerFacts
  <1>4. rb \subseteq ra
    BY FewerReferences
  <1>4a. /\ Timeline(firm, b) \subseteq Events(firm, a)
         /\ \A e \in Timeline(firm, a) : b[e.source].status = "OK" => e \in Timeline(firm, b)
         /\ Cardinality(Timeline(firm, b) \ Timeline(firm, a))
              <= Cardinality(Timeline(firm, a) \ Timeline(firm, b))
         /\ Timeline(firm, b) # {} => Timeline(firm, a) # {}
    <2>1. /\ Timeline(firm, a) = FirstOf(Events(firm, a))
          /\ Timeline(firm, b) = FirstOf(Events(firm, b))
      BY TimelineIsFirst
    <2>2. Events(firm, b) \in SUBSET Events(firm, a)
      BY FewerEvents
    <2>3. \A e \in FirstOf(Events(firm, a)) :
            b[e.source].status = "OK" => e \in Events(firm, b)
      BY FewerEvents DEF FirstOf
    <2>4. /\ FirstOf(Events(firm, b)) \subseteq Events(firm, b)
          /\ \A e \in FirstOf(Events(firm, a)) : e \in Events(firm, b) => e \in FirstOf(Events(firm, b))
          /\ Cardinality(FirstOf(Events(firm, b)) \ FirstOf(Events(firm, a)))
               <= Cardinality(FirstOf(Events(firm, a)) \ FirstOf(Events(firm, b)))
          /\ FirstOf(Events(firm, b)) # {} => FirstOf(Events(firm, a)) # {}
      BY <2>2, FirstOfFewer
    <2>. QED
      BY <2>1, <2>2, <2>3, <2>4
  <1>5. /\ \A s \in Signals(firm, y, b) : s \in Signals(firm, x, a) \/ \E f \in fa : f.source = s
        /\ Signals(firm, y, b) # {} => Signals(firm, x, a) # {} \/ x.reference # {}
    BY FewerSignals
  <1>6. fb # {} <=> y.reference # {}
    BY FactsNeedEntity
  <1>7. wb => wa \/ x.reference # {}
    BY <1>4a, <1>5
  <1>8. Of(b, "NOT_APPLICABLE") = Of(a, "NOT_APPLICABLE")
    <2>1. \A s \in Source : b[s].status = "NOT_APPLICABLE" <=> a[s].status = "NOT_APPLICABLE"
      BY DEF Weaker, Lost
    <2>. QED
      BY <2>1 DEF Of
  <1>9. Of(b, "ERROR") # {} => "SOURCE_GAPS" \in Gaps(firm, y, b)
    BY DEF Gaps
  <1>10. ASSUME \A s \in Source : a[s].status # "ERROR"
         PROVE  Gaps(firm, x, a) \subseteq Gaps(firm, y, b)
    <2>1. Of(a, "ERROR") = {}
      BY <1>10 DEF Of
    <2>. QED
      BY <1>3, <1>4, <1>4a, <1>8, <2>1 DEF Gaps
  <1>. HIDE DEF x, y, full, some, wa, wb, fa, fb, ra, rb
  <1>11. Shown(some) \subseteq Shown(full)
    BY <1>1, <1>2, <1>3, <1>5 DEF Shown
  <1>12. /\ Strength["LIMITED_DATA"] = 0 /\ Strength["SIGNALS_READY"] = 1
         /\ Strength["CONTEXT_READY"] = 2 /\ Strength["REFERENCE_READY"] = 3
    BY DEF Strength
  <1>13. Strength[some.dossier] <= Strength[full.dossier]
    <2>1. CASE y.reference # {}
      BY <1>1, <1>2, <1>3, <1>12, <2>1
    <2>2. CASE y.reference = {} /\ rb # {}
      BY <1>1, <1>2, <1>4, <1>12, <2>2
    <2>3. CASE y.reference = {} /\ rb = {}
      BY <1>1, <1>2, <1>7, <1>12, <2>3
    <2>. QED
      BY <2>1, <2>2, <2>3
  <1>14. some.status = "MACHINE_INTELLIGENCE_READY" <=> some.dossier = "REFERENCE_READY"
    BY <1>2, <1>6
  <1>. QED
    BY <1>1, <1>2, <1>3, <1>4, <1>4a, <1>9, <1>10, <1>11, <1>13, <1>14 DEF full, some

\* Everything the labor databases know.
KnownOf(world, s) == {[source |-> s, of |-> r] : r \in Entries(world[s])}
KnownEvents(world) == UNION {KnownOf(world, s) : s \in LaborSource}

LEMMA KnownIsOrderly ==
  ASSUME NEW world \in World
  PROVE  Orderly(KnownEvents(world))
  <1>1. ASSUME NEW s \in LaborSource
        PROVE  IsFiniteSet(KnownOf(world, s))
    <2>. DEFINE list == world[s]
                f == [i \in 1..Len(list) |-> [source |-> s, of |-> list[i]]]
    <2>1. s \in Source \ {"WIKIDATA"}
      BY SourceAssumption, SourcesDiffer
    <2>2. list \in Seq(Entries(list))
      BY <2>1, SourceAssumption
    <2>3. Len(list) \in Nat /\ DOMAIN list = 1..Len(list)
      BY <2>2
    <2>4. KnownOf(world, s) = {f[i] : i \in 1..Len(list)}
      BY <2>3 DEF KnownOf, Entries
    <2>5. f \in Surjection(1..Len(list), KnownOf(world, s))
      BY <2>4 DEF Surjection
    <2>6. IsFiniteSet(1..Len(list))
      BY <2>3, FS_Interval
    <2>. QED
      BY <2>5, <2>6, FS_Surjection
  <1>2. IsFiniteSet({KnownOf(world, s) : s \in LaborSource})
    <2>. DEFINE T == {KnownOf(world, s) : s \in LaborSource}
                g == [s \in LaborSource |-> KnownOf(world, s)]
    <2>1. T = {g[s] : s \in LaborSource}
      OBVIOUS
    <2>2. g \in Surjection(LaborSource, T)
      BY <2>1 DEF Surjection
    <2>3. IsFiniteSet(LaborSource)
      BY SourceAssumption
    <2>. HIDE DEF T, g
    <2>4. IsFiniteSet(T)
      BY <2>2, <2>3, FS_Surjection
    <2>. QED
      BY <2>4 DEF T
  <1>3. IsFiniteSet(KnownEvents(world))
    BY <1>1, <1>2, FS_UNION DEF KnownEvents
  <1>4. ASSUME NEW d \in KnownEvents(world), NEW e \in KnownEvents(world)
        PROVE  d.of.date \in Nat /\ d.of.id \in Nat /\ (d.of.id = e.of.id => d = e)
    <2>1. PICK s \in LaborSource : d \in KnownOf(world, s)
      BY <1>4 DEF KnownEvents
    <2>2. PICK t \in LaborSource : e \in KnownOf(world, t)
      BY <1>4 DEF KnownEvents
    <2>3. PICK r \in Entries(world[s]) : d = [source |-> s, of |-> r]
      BY <2>1 DEF KnownOf
    <2>4. PICK q \in Entries(world[t]) : e = [source |-> t, of |-> q]
      BY <2>2 DEF KnownOf
    <2>5. r.date \in Nat /\ r.id \in Nat /\ (r.id = q.id => r = q /\ s = t)
      BY SourceAssumption
    <2>. QED
      BY <2>3, <2>4, <2>5
  <1>. QED
    BY <1>3, <1>4 DEF Orderly

\* An event is a row of the database it names.
LEMMA EventsAreOrderly ==
  ASSUME NEW firm, NEW world \in World
  PROVE  Orderly(Events(firm, Results(firm, world, {})))
  <1>. DEFINE a == Results(firm, world, {})
  <1>1. ASSUME NEW s \in LaborSource, a[s].status = "OK"
        PROVE  a[s].candidates = groupCandidates(world[s])
    <2>1. s \in Source /\ s \notin {"GLEIF", "WIKIDATA", "SEC_EDGAR", "USA_SPENDING"}
      BY SourceAssumption, SourcesDiffer
    <2>2. Candidates(firm, world, s) = groupCandidates(world[s])
      BY <2>1 DEF Candidates
    <2>. DEFINE heard == Candidates(firm, world, s)
                asked == s \in GlobalSource \/ countryCode(firm.region) = "US"
    <2>3. a[s] = IF asked THEN [status |-> "OK", candidates |-> heard] ELSE NotApplicable
      BY <2>1 DEF Results, providerResult
    <2>. HIDE DEF heard, asked
    <2>4. NotApplicable.status # "OK"
      BY DEF NotApplicable
    <2>5. a[s].candidates = heard
      BY <1>1, <2>3, <2>4
    <2>. QED
      BY <2>2, <2>5 DEF heard
  <1>2. ASSUME NEW rows, NEW c \in groupCandidates(rows), NEW i \in DOMAIN c.records
        PROVE  c.records[i] \in Entries(rows)
    <2>1. PICK k \in DOMAIN rows, G \in SUBSET DOMAIN rows :
            c = [name |-> rows[k].name, records |-> [j \in Leading(Limit.records, G) |-> rows[j]]]
      BY <1>2 DEF groupCandidates
    <2>2. i \in Leading(Limit.records, G) /\ c.records[i] = rows[i]
      BY <2>1
    <2>. QED
      BY <2>2 DEF Leading, Entries
  <1>. HIDE DEF a
  <1>3. ASSUME NEW e \in Events(firm, a)
        PROVE  e \in KnownEvents(world)
    <2>1. PICK s \in {t \in LaborSource : a[t].status = "OK"} :
            e \in UNION {{[source |-> s, of |-> c.records[i]] : i \in Leading(Limit.events, DOMAIN c.records)} :
                          c \in exactCandidates(a[s], firm)}
      BY <1>3 DEF Events
    <2>2. PICK c \in exactCandidates(a[s], firm) :
            e \in {[source |-> s, of |-> c.records[i]] : i \in Leading(Limit.events, DOMAIN c.records)}
      BY <2>1
    <2>3. PICK i \in Leading(Limit.events, DOMAIN c.records) : e = [source |-> s, of |-> c.records[i]]
      BY <2>2
    <2>4. c \in groupCandidates(world[s]) /\ i \in DOMAIN c.records
      BY <1>1 DEF exactCandidates, Leading
    <2>5. c.records[i] \in Entries(world[s])
      BY <1>2, <2>4
    <2>. QED
      BY <2>3, <2>5 DEF KnownEvents, KnownOf
  <1>4. Events(firm, a) \in SUBSET KnownEvents(world)
    BY <1>3
  <1>5. Orderly(Events(firm, a))
    BY <1>4, KnownIsOrderly, FewerOrderly
  <1>. QED
    BY <1>5 DEF a

\* What the records say of the sources.
LEMMA GapsAreTold ==
  ASSUME NEW firm, NEW world, NEW down \in SUBSET Source
  PROVE  LET full == collectCompanyResearch(firm, world, {})
             some == collectCompanyResearch(firm, world, down)
             lost == {s \in down : full.results[s].status = "OK"}
         IN  /\ \A s \in lost : publicCompanyResearch(some).sources[s].status = "ERROR"
             /\ some.status = "AUTO_READY_WITH_SOURCE_GAPS" <=> lost # {}
             /\ Of(Results(firm, world, down), "ERROR") # {} <=> lost # {}
  <1>. DEFINE a == Results(firm, world, {})
              b == Results(firm, world, down)
              lost == {s \in down : a[s].status = "OK"}
  <1>1. \A s \in Source : b[s].status = "ERROR" <=> s \in lost
    <2>1. ASSUME NEW s \in Source
          PROVE  /\ a[s].status \in {"OK", "NOT_APPLICABLE"}
                 /\ b[s] = IF s \in down /\ a[s].status = "OK" THEN Lost ELSE a[s]
      BY AnswerOf
    <2>. HIDE DEF a, b
    <2>2. Lost.status = "ERROR"
      BY DEF Lost
    <2>. QED
      BY <2>1, <2>2
  <1>. HIDE DEF a, b
  <1>2. Of(b, "ERROR") = lost
    BY <1>1 DEF Of
  <1>3. /\ collectCompanyResearch(firm, world, {}).results = a
        /\ collectCompanyResearch(firm, world, down).results = b
        /\ collectCompanyResearch(firm, world, down).status
             = IF Of(b, "ERROR") # {} THEN "AUTO_READY_WITH_SOURCE_GAPS" ELSE "AUTO_READY"
    BY DEF collectCompanyResearch, a, b
  <1>4. \A s \in Source :
          publicCompanyResearch(collectCompanyResearch(firm, world, down)).sources[s].status
            = b[s].status
    BY <1>3 DEF publicCompanyResearch
  <1>5. \A s \in lost :
          publicCompanyResearch(collectCompanyResearch(firm, world, down)).sources[s].status = "ERROR"
    BY <1>1, <1>4
  <1>. QED
    BY <1>2, <1>3, <1>5 DEF a, b

\* The layers of a Chinese company that are missing.
LEMMA MoreIsMissing ==
  ASSUME NEW firm, NEW full, NEW some, NEW official, NEW items,
         some.intelligence.identity.reference \subseteq full.intelligence.identity.reference
  PROVE  publicCompanyDetail(firm, full, official, items).chinaGaps
           \subseteq publicCompanyDetail(firm, some, official, items).chinaGaps
  <1>1. /\ publicCompanyResearch(full).intelligence = full.intelligence
        /\ publicCompanyResearch(some).intelligence = some.intelligence
    BY DEF publicCompanyResearch
  <1>2. ASSUME NEW shelf
        PROVE  buildChinaInvestigation(firm, publicCompanyResearch(full), shelf)
                 \subseteq buildChinaInvestigation(firm, publicCompanyResearch(some), shelf)
    BY <1>1 DEF buildChinaInvestigation
  <1>. QED
    BY <1>2 DEF publicCompanyDetail

\* Whatever the sources know and whichever of them fail, collectCompanyResearch()
\* concludes no more than it would if all answered, and says what is missing.
THEOREM OutagesOnlyTakeAway == ConclusionsSurviveOutages
  <1>1. SUFFICES ASSUME NEW firm \in Firm, NEW world \in World, NEW down \in SUBSET Source
        PROVE
          LET Record(d) == collectCompanyResearch(firm, world, d)
              Missing(record, official, items) ==
                publicCompanyDetail(firm, record, official, items).chinaGaps
              all  == Record({})
              a    == all.intelligence
              some == Record(down)
              b    == some.intelligence
              lost == {s \in down : all.results[s].status = "OK"}
          IN /\ b.facts \subseteq a.facts
             /\ b.references \subseteq a.references
             /\ b.timeline \subseteq Events(firm, all.results)
             /\ \A e \in a.timeline : some.results[e.source].status = "OK" => e \in b.timeline
             /\ Cardinality(b.timeline \ a.timeline) <= Cardinality(a.timeline \ b.timeline)
             /\ b.conflicts \subseteq a.conflicts
             /\ Shown(b) \subseteq Shown(a)
             /\ Strength[b.dossier] <= Strength[a.dossier]
             /\ b.status = "MACHINE_INTELLIGENCE_READY" <=> b.dossier = "REFERENCE_READY"
             /\ \A s \in lost : publicCompanyResearch(some).sources[s].status = "ERROR"
             /\ some.status = "AUTO_READY_WITH_SOURCE_GAPS" <=> lost # {}
             /\ lost # {} => "SOURCE_GAPS" \in b.gaps
             /\ a.gaps \subseteq b.gaps
             /\ \A official \in SUBSET Official, items \in SUBSET Item :
                  Missing(all, official, items) \subseteq Missing(some, official, items)
    BY DEF ConclusionsSurviveOutages
  <1>. DEFINE ra == Results(firm, world, {})
              rb == Results(firm, world, down)
              all == collectCompanyResearch(firm, world, {})
              some == collectCompanyResearch(firm, world, down)
              a == all.intelligence
              b == some.intelligence
              lost == {s \in down : all.results[s].status = "OK"}
  <1>2. Weaker(rb, ra) /\ \A s \in Source : ra[s].status # "ERROR"
    <2>1. \A s \in Source : ra[s].status \in {"OK", "NOT_APPLICABLE"}
      BY AnswerOf
    <2>. QED
      BY <2>1, FailuresWeaken
  <1>3. /\ a = buildAutonomousIntelligence(firm, ra) /\ b = buildAutonomousIntelligence(firm, rb)
        /\ all.results = ra /\ some.results = rb
    BY DEF collectCompanyResearch
  <1>4. Orderly(Events(firm, ra))
    BY EventsAreOrderly
  <1>5. /\ \A s \in lost : publicCompanyResearch(some).sources[s].status = "ERROR"
        /\ some.status = "AUTO_READY_WITH_SOURCE_GAPS" <=> lost # {}
        /\ Of(rb, "ERROR") # {} <=> lost # {}
    BY GapsAreTold
  <1>. HIDE DEF ra, rb, a, b
  <1>6. /\ b.facts \subseteq a.facts
        /\ b.references \subseteq a.references
        /\ b.timeline \subseteq Events(firm, ra)
        /\ \A e \in a.timeline : rb[e.source].status = "OK" => e \in b.timeline
        /\ Cardinality(b.timeline \ a.timeline) <= Cardinality(a.timeline \ b.timeline)
        /\ b.conflicts \subseteq a.conflicts
        /\ b.identity.reference \subseteq a.identity.reference
        /\ Shown(b) \subseteq Shown(a)
        /\ Strength[b.dossier] <= Strength[a.dossier]
        /\ b.status = "MACHINE_INTELLIGENCE_READY" <=> b.dossier = "REFERENCE_READY"
        /\ Of(rb, "ERROR") # {} => "SOURCE_GAPS" \in b.gaps
        /\ a.gaps \subseteq b.gaps
    <2>. DEFINE full == buildAutonomousIntelligence(firm, ra)
                part == buildAutonomousIntelligence(firm, rb)
    <2>1. /\ part.facts \subseteq full.facts
          /\ part.references \subseteq full.references
          /\ part.timeline \subseteq Events(firm, ra)
          /\ \A e \in full.timeline : rb[e.source].status = "OK" => e \in part.timeline
          /\ Cardinality(part.timeline \ full.timeline) <= Cardinality(full.timeline \ part.timeline)
          /\ part.conflicts \subseteq full.conflicts
          /\ part.identity.reference \subseteq full.identity.reference
          /\ Shown(part) \subseteq Shown(full)
          /\ Strength[part.dossier] <= Strength[full.dossier]
          /\ part.status = "MACHINE_INTELLIGENCE_READY" <=> part.dossier = "REFERENCE_READY"
          /\ Of(rb, "ERROR") # {} => "SOURCE_GAPS" \in part.gaps
          /\ full.gaps \subseteq part.gaps
      BY <1>2, <1>4, OutageOf
    <2>. QED
      BY <1>3, <2>1
  <1>7. /\ b.timeline \subseteq Events(firm, all.results)
         /\ \A e \in a.timeline : some.results[e.source].status = "OK" => e \in b.timeline
    BY <1>3, <1>6
  <1>8. a = all.intelligence /\ b = some.intelligence
    BY DEF a, b
  <1>. HIDE DEF all, some
  <1>9. \A official \in SUBSET Official, items \in SUBSET Item :
          publicCompanyDetail(firm, all, official, items).chinaGaps
            \subseteq publicCompanyDetail(firm, some, official, items).chinaGaps
    BY <1>6, <1>8, MoreIsMissing
  <1>. QED
    BY <1>6, <1>7, <1>5, <1>9 DEF all, some, a, b

\* At every moment of every run of the queue, a page that is shown invents
\* nothing while sources are out of order.
THEOREM PagesInventNothing == Spec => []OutageInventsNothing
  <1>1. OutageInventsNothing
    BY OutagesOnlyTakeAway DEF OutageInventsNothing
  <1>. QED
    BY <1>1, PTL

-----------------------------------------------------------------------------
(* Pages: what is concluded once a source knows more *)

LEMMA SameCompany ==
  ASSUME NEW f1 \in Firm, NEW f2 \in Rewritten(f1)
  PROVE  /\ f2.name = f1.name /\ f2.incorporated = f1.incorporated /\ f2.site = f1.site
         /\ countryCode(f2.region) = countryCode(f1.region)
         /\ searches(f2) = searches(f1)
  <1>1. /\ f2 \in Firm /\ f2 = [f1 EXCEPT !.region = f2.region]
        /\ countryCode(f2.region) = countryCode(f1.region)
    BY DEF Rewritten
  <1>2. DOMAIN f1 = {"name", "incorporated", "region", "site"}
    BY SourceAssumption
  <1>3. f2.name = f1.name /\ f2.incorporated = f1.incorporated /\ f2.site = f1.site
    BY <1>1, <1>2
  <1>4. searches(f2) = searches(f1)
    BY <1>1, <1>3 DEF searches, companySearchVariants, wikidataLanguages
  <1>. QED
    BY <1>1, <1>3, <1>4

\* The answers of the sources for all countries when none fails.
LEMMA GlobalAnswers ==
  ASSUME NEW firm, NEW world
  PROVE  /\ Results(firm, world, {})["GLEIF"]
              = [status |-> "OK", candidates |-> gleif(firm, world["GLEIF"])]
         /\ Results(firm, world, {})["WIKIDATA"]
              = [status |-> "OK", candidates |-> wikidata(firm, world["WIKIDATA"])]
  <1>1. "GLEIF" \in Source /\ "WIKIDATA" \in Source
    BY SourcesDiffer
  <1>2. /\ Candidates(firm, world, "GLEIF") = gleif(firm, world["GLEIF"])
        /\ Candidates(firm, world, "WIKIDATA") = wikidata(firm, world["WIKIDATA"])
    <2>1. "GLEIF" \notin LaborSource /\ "WIKIDATA" \notin LaborSource
      BY SourceAssumption
    <2>2. Candidates(firm, world, "GLEIF") = gleif(firm, world["GLEIF"])
      BY <2>1 DEF Candidates
    <2>3. Candidates(firm, world, "WIKIDATA") = wikidata(firm, world["WIKIDATA"])
      BY <2>1 DEF Candidates
    <2>. QED
      BY <2>2, <2>3
  <1>. QED
    BY <1>1, <1>2 DEF Results, GlobalSource, providerResult

\* A code is read as itself.
LEMMA CodesAreRead ==
  ASSUME NEW region, region \in {<<"US">>, <<"CN">>}
  PROVE  region = <<countryCode(region)>>
  <1>1. CountryOf("US") = "US" /\ CountryOf("CN") = "CN"
    BY DEF CountryOf, CountryNamed
  <1>2. countryCode(<<"US">>) = CountryOf("US") /\ countryCode(<<"CN">>) = CountryOf("CN")
    BY DEF countryCode
  <1>. QED
    BY <1>1, <1>2

\* What a bound entity is.
LEMMA BoundEntity ==
  ASSUME NEW firm, NEW rows, NEW r,
         r \in Identity(firm, [status |-> "OK", candidates |-> rows]).reference
  PROVE  /\ r \in rows /\ r.name = firm.name
         /\ countryCode(r.region) = countryCode(firm.region)
         /\ countryCode(firm.region) # NoCountry
         /\ \A c \in rows : c.name = firm.name => c = r
  <1>. DEFINE result == [status |-> "OK", candidates |-> rows]
              exact == exactCandidates(result, firm)
              home == countryCode(firm.region)
  <1>1. exact = {c \in rows : c.name = firm.name}
    BY DEF exactCandidates
  <1>2. result.status = "OK"
    OBVIOUS
  <1>. HIDE DEF exact, result
  <1>3. CASE home = NoCountry \/ exact = {} \/ ~IsOne(exact)
    <2>1. IsOne(exact) => exact # {}
      BY DEF IsOne
    <2>2. Identity(firm, result).reference = {}
      <3>1. CASE home = NoCountry
        BY <1>2, <3>1 DEF Identity, exact
      <3>2. CASE home # NoCountry /\ exact = {}
        BY <1>2, <2>1, <3>2 DEF Identity, exact
      <3>3. CASE home # NoCountry /\ exact # {} /\ ~IsOne(exact)
        BY <1>2, <3>3 DEF Identity, exact
      <3>. QED
        BY <1>3, <3>1, <3>2, <3>3
    <2>. QED
      BY <2>2 DEF result
  <1>4. CASE home # NoCountry /\ exact # {} /\ IsOne(exact)
    <2>1. PICK e \in exact : exact = {e}
      BY <1>4 DEF IsOne
    <2>2. One(exact) = e
      BY <2>1 DEF One
    <2>3. Identity(firm, result)
            = IF ~e.valid THEN [status |-> "SOURCE_SCHEMA_CONFLICT", reference |-> {}]
              ELSE IF countryCode(e.region) # home
              THEN [status |-> "COUNTRY_CONFLICT", reference |-> {}]
              ELSE [status |-> "AUTO_BOUND_REFERENCE", reference |-> exact]
      BY <1>2, <1>4, <2>2 DEF Identity, exact
    <2>4. e.valid /\ countryCode(e.region) = home /\ r \in exact
      BY <2>3 DEF result
    <2>. QED
      BY <1>1, <1>4, <2>1, <2>4
  <1>. QED
    BY <1>3, <1>4

\* Of some numbers, one is the smallest.
LEMMA SmallestOf ==
  ASSUME NEW S \in SUBSET Nat, S # {}
  PROVE  \E n \in S : \A m \in S : n <= m
  <1>1. PICK n \in S : \A m \in S : ~(<<m, n>> \in OpToRel(<, Nat))
    BY NatLessThanWellFounded, WFMin
  <1>2. \A m \in S : ~(m < n)
    BY <1>1 DEF OpToRel
  <1>. QED
    BY <1>2

\* Where there is room for all, fewer than the room come before each of them.
LEMMA RoomForAll ==
  ASSUME NEW S, IsFiniteSet(S), NEW n \in Nat, ~(Cardinality(S) > n),
         NEW T \in SUBSET S, NEW e \in S, e \notin T
  PROVE  Cardinality(T) < n
  <1>1. /\ IsFiniteSet(T) /\ Cardinality(T) <= Cardinality(S)
        /\ Cardinality(S) # Cardinality(T)
    BY FS_Subset
  <1>2. Cardinality(S) \in Nat /\ Cardinality(T) \in Nat
    BY <1>1, FS_CardinalityType
  <1>. QED
    BY <1>1, <1>2

\* An answer of GLEIF that is not cut has every row that matches.
LEMMA WholePage ==
  ASSUME NEW firm, NEW rows, rows \in Seq(Entries(rows)),
         ~(Cardinality(matching(firm, rows)) > Limit.candidates)
  PROVE  gleif(firm, rows) = {rows[i] : i \in matching(firm, rows)}
  <1>. DEFINE S == matching(firm, rows)
              n == Limit.candidates
  <1>1. S \in SUBSET (1..Len(rows)) /\ Len(rows) \in Nat
    BY DEF matching
  <1>2. IsFiniteSet(S) /\ n \in Nat
    <2>1. IsFiniteSet(1..Len(rows))
      BY <1>1, FS_Interval
    <2>. HIDE DEF S
    <2>. QED
      BY <1>1, <2>1, FS_Subset, LimitType
  <1>3. ~(Cardinality(S) > n)
    OBVIOUS
  <1>. HIDE DEF S, n
  <1>4. ASSUME NEW i \in S PROVE Cardinality({k \in S : k < i}) < n
    <2>1. i \in Nat
      BY <1>1
    <2>2. i \notin {k \in S : k < i}
      BY <2>1
    <2>. QED
      BY <1>2, <1>3, <2>2, RoomForAll
  <1>5. Leading(n, S) = S
    BY <1>4 DEF Leading
  <1>. QED
    BY <1>5 DEF gleif, S, n

LEMMA SameEntity ==
  ASSUME NEW f1 \in Firm, NEW f2 \in Rewritten(f1), NEW few, NEW many,
         Entries(few) \subseteq Entries(many), many \in Seq(Entries(many)),
         ~(Cardinality(matching(f2, many)) > Limit.candidates),
         \A row \in Entries(many) : countryCode(row.region) # NoCountry
                                      => row.region = <<countryCode(row.region)>>,
         NEW r, r \in Identity(f1, [status |-> "OK", candidates |-> gleif(f1, few)]).reference,
         NEW q, q \in Identity(f2, [status |-> "OK", candidates |-> gleif(f2, many)]).reference
  PROVE  q = r
  <1>1. /\ r \in gleif(f1, few) /\ r.name = f1.name
        /\ countryCode(r.region) = countryCode(f1.region)
        /\ countryCode(f1.region) # NoCountry
    BY BoundEntity
  <1>2. \A c \in gleif(f2, many) : c.name = f2.name => c = q
    BY BoundEntity
  <1>3. r \in Entries(many)
    <2>1. r \in Entries(few)
      BY <1>1 DEF gleif, Leading, matching, Entries
    <2>. QED
      BY <2>1
  <1>4. r.region = <<countryCode(f2.region)>> /\ r.name = f2.name
    BY <1>1, <1>3, SameCompany
  <1>5. f2.region \in {<<"US">>, <<"CN">>} => r.region = f2.region
    BY <1>4, CodesAreRead
  <1>6. r \in gleif(f2, many)
    <2>1. PICK i \in DOMAIN many : r = many[i]
      BY <1>3 DEF Entries
    <2>2. i \in matching(f2, many)
      BY <1>5, <2>1 DEF matching
    <2>. QED
      BY <2>1, <2>2, WholePage
  <1>. QED
    BY <1>2, <1>4, <1>6

\* The searches have an order.
LEMMA SearchesAreTurns ==
  /\ IsFiniteSet(Search)
  /\ \A s \in Search : Turn[s] \in Nat
  /\ \A firm : searches(firm) \subseteq Search
  <1>1. Search = {"full", "short"} \union {"english"} /\ {"full", "short"} = {"full"} \union {"short"}
    BY DEF Search
  <1>2. IsFiniteSet(Search)
    BY <1>1, FS_Singleton, FS_Union
  <1>3. \A s \in Search : Turn[s] \in Nat
    BY DEF Search, Turn
  <1>4. \A firm : searches(firm) \subseteq Search
    BY DEF searches, companySearchVariants, Search
  <1>. QED
    BY <1>2, <1>3, <1>4

\* Each entity that is hit has a first hit.
LEMMA FirstHit ==
  ASSUME NEW firm, NEW lists, NEW h \in hits(firm, lists)
  PROVE  \E g \in found(firm, lists) : Hit(lists, g).id = Hit(lists, h).id
  <1>. DEFINE H == hits(firm, lists)
              G == {g \in H : Hit(lists, g).id = Hit(lists, h).id}
              Turns == {Turn[g[1]] : g \in G}
  <1>1. \A g \in H : g[1] \in Search /\ g[2] \in Nat /\ Turn[g[1]] \in Nat
    BY LimitType, SearchesAreTurns DEF hits
  <1>. HIDE DEF H
  <1>2. Turns \in SUBSET Nat /\ Turns # {}
    BY <1>1 DEF H
  <1>3. PICK m \in Turns : \A k \in Turns : m <= k
    BY <1>2, SmallestOf
  <1>. DEFINE G1 == {g \in G : Turn[g[1]] = m}
              Places == {g[2] : g \in G1}
  <1>4. Places \in SUBSET Nat /\ Places # {}
    BY <1>1, <1>3
  <1>5. PICK n \in Places : \A k \in Places : n <= k
    BY <1>4, SmallestOf
  <1>6. PICK g \in G1 : g[2] = n
    BY <1>5
  <1>7. ASSUME NEW x \in G PROVE ~Earlier(x, g)
    <2>1. m <= Turn[x[1]] /\ Turn[g[1]] = m /\ Turn[x[1]] \in Nat /\ m \in Nat
      BY <1>1, <1>2, <1>3, <1>6
    <2>2. x[1] = g[1] => n <= x[2]
      BY <1>5, <1>6
    <2>3. x[2] \in Nat /\ g[2] \in Nat
      BY <1>1, <1>6
    <2>. QED
      BY <1>6, <2>1, <2>2, <2>3 DEF Earlier
  <1>8. g \in found(firm, lists)
    BY <1>6, <1>7 DEF found, H
  <1>. QED
    BY <1>6, <1>8

\* The listings of Wikidata, where the identifier tells the entity.
Listings(lists) ==
  /\ \A s \in Search : lists[s] \in Seq(Entries(lists[s]))
  /\ \A t, u \in Search : \A x \in Entries(lists[t]), y \in Entries(lists[u]) : x.id = y.id => x = y

Whole(firm, lists) ==
  /\ ~(Cardinality(found(firm, lists)) > Limit.candidates)
  /\ \A s \in searches(firm) : ~(Len(lists[s]) > Limit.hits)

MoreListed(few, many) == \A s \in Search : Entries(few[s]) \subseteq Entries(many[s])

\* An answer of Wikidata that is not cut has every entity of its listings.
LEMMA WholeAnswer ==
  ASSUME NEW firm, NEW lists, Listings(lists), Whole(firm, lists),
         NEW s \in searches(firm), NEW e \in Entries(lists[s])
  PROVE  \E short \in BOOLEAN :
           [id |-> e.id, name |-> e.name, region |-> e.region, site |-> e.site, org |-> e.org,
            short |-> short] \in wikidata(firm, lists)
  <1>0. /\ s \in Search /\ \A t \in Search : lists[t] \in Seq(Entries(lists[t]))
        /\ \A t, u \in Search : \A x \in Entries(lists[t]), y \in Entries(lists[u]) : x.id = y.id => x = y
        /\ ~(Cardinality(found(firm, lists)) > Limit.candidates)
        /\ ~(Len(lists[s]) > Limit.hits)
    BY SearchesAreTurns DEF Listings, Whole
  <1>1. PICK i \in DOMAIN lists[s] : e = lists[s][i]
    BY DEF Entries
  <1>2. i \in 1..Limit.hits /\ i <= Len(lists[s])
    BY <1>0, <1>1, LimitType
  <1>3. <<s, i>> \in hits(firm, lists) /\ Hit(lists, <<s, i>>) = e
    BY <1>1, <1>2 DEF hits, Hit
  <1>4. PICK g \in found(firm, lists) : Hit(lists, g).id = e.id
    BY <1>3, FirstHit
  <1>5. g \in hits(firm, lists)
    BY DEF found
  <1>6. Hit(lists, g) = e
    <2>1. g[1] \in Search /\ g[2] \in 1..Limit.hits /\ g[2] <= Len(lists[g[1]])
      BY <1>5, SearchesAreTurns DEF hits
    <2>2. g[2] \in DOMAIN lists[g[1]]
      BY <1>0, <2>1, LimitType
    <2>3. Hit(lists, g) \in Entries(lists[g[1]]) /\ s \in Search
      BY <2>2, SearchesAreTurns DEF Hit, Entries
    <2>. QED
      BY <1>0, <1>4, <2>1, <2>3
  <1>7. IsFiniteSet(found(firm, lists))
    <2>1. IsFiniteSet(1..Limit.hits)
      BY LimitType, FS_Interval
    <2>2. IsFiniteSet(searches(firm))
      BY SearchesAreTurns, FS_Subset
    <2>3. IsFiniteSet(searches(firm) \X (1..Limit.hits))
      BY <2>1, <2>2, FS_Product
    <2>. QED
      BY <2>3, FS_Subset DEF found, hits
  <1>. DEFINE before == {x \in found(firm, lists) : Earlier(x, g)}
  <1>8. g \notin before
    <2>1. g[1] \in Search /\ g[2] \in Nat /\ Turn[g[1]] \in Nat
      BY <1>5, SearchesAreTurns, LimitType DEF hits
    <2>. QED
      BY <2>1 DEF Earlier
  <1>9. Cardinality(before) < Limit.candidates
    <2>1. before \in SUBSET found(firm, lists) /\ Limit.candidates \in Nat
      BY LimitType
    <2>. HIDE DEF before
    <2>. QED
      BY <1>0, <1>7, <1>8, <2>1, RoomForAll
  <1>10. [id |-> e.id, name |-> e.name, region |-> e.region, site |-> e.site, org |-> e.org,
          short |-> (g[1] = "short")] \in wikidata(firm, lists)
    BY <1>6, <1>9 DEF wikidata
  <1>. QED
    BY <1>10

\* A website, or the full name and the country, binds an entity of Wikidata
\* whatever else is found.
LEMMA SameContext ==
  ASSUME NEW f1 \in Firm, NEW f2 \in Rewritten(f1), NEW few, NEW many,
         Listings(few), Listings(many), MoreListed(few, many), Whole(f2, many),
         NEW r \in References(f1, [status |-> "OK", candidates |-> wikidata(f1, few)]),
         NEW q \in References(f2, [status |-> "OK", candidates |-> wikidata(f2, many)]),
         r.basis # "UNIQUE_CORPORATE_SHORTHAND_AND_COUNTRY"
  PROVE  q.of.id = r.of.id
  <1>. DEFINE before == [status |-> "OK", candidates |-> wikidata(f1, few)]
              after  == [status |-> "OK", candidates |-> wikidata(f2, many)]
  <1>1. PICK c \in wikidata(f2, many) :
          c.id = r.of.id /\ c.name = r.of.name /\ c.region = r.of.region /\ c.site = r.of.site
    <2>1. r.of \in wikidata(f1, few)
      <3>1. r.of \in Compatible(f1, before)
        BY DEF References
      <3>2. r.of \in before.candidates
        BY <3>1 DEF Compatible
      <3>. QED
        BY <3>2
    <2>2. PICK h \in found(f1, few) :
            LET e == Hit(few, h)
            IN r.of = [id |-> e.id, name |-> e.name, region |-> e.region, site |-> e.site, org |-> e.org,
                       short |-> h[1] = "short"]
      BY <2>1 DEF wikidata
    <2>. DEFINE e == Hit(few, h)
    <2>3. h \in hits(f1, few)
      BY DEF found
    <2>4. h[1] \in searches(f1) /\ h[2] \in 1..Limit.hits /\ h[2] <= Len(few[h[1]])
      BY <2>3 DEF hits
    <2>5. h[1] \in searches(f2) /\ h[1] \in Search
      BY <2>4, SameCompany, SearchesAreTurns
    <2>6. h[2] \in DOMAIN few[h[1]]
      BY <2>4, <2>5, LimitType DEF Listings
    <2>7. e \in Entries(many[h[1]])
      BY <2>5, <2>6 DEF Hit, Entries, MoreListed
    <2>8. PICK short \in BOOLEAN :
            [id |-> e.id, name |-> e.name, region |-> e.region, site |-> e.site, org |-> e.org,
             short |-> short] \in wikidata(f2, many)
      BY <2>5, <2>7, WholeAnswer
    <2>. QED
      BY <2>2, <2>8
  <1>2. c \in after.candidates /\ after.status = "OK" /\ before.status = "OK"
    BY <1>1
  <1>. HIDE DEF before, after
  <1>3. /\ r.of \in Compatible(f1, before)
        /\ r.basis = Basis(f1, r.of, before.candidates)
    BY DEF References, before
  <1>4. q.of \in Compatible(f2, after) /\ IsOne(Compatible(f2, after))
    BY DEF References, after
  <1>5. r.of \in before.candidates /\ r.basis # "NONE"
    BY <1>3 DEF Compatible
  <1>6. r.basis \in {"OFFICIAL_WEBSITE_DOMAIN_MATCH", "EXACT_NAME_AND_COUNTRY_MATCH"}
    BY <1>3, <1>5 DEF Basis
  <1>7. \/ SameSite(f1, r.of)
        \/ ~SameSite(f1, r.of) /\ r.of.name = f1.name /\ SameCountry(f1, r.of)
    BY <1>3, <1>6 DEF Basis
  <1>8. \/ SameSite(f2, c)
        \/ ~SameSite(f2, c) /\ c.name = f2.name /\ SameCountry(f2, c)
    BY <1>1, <1>7, SameCompany DEF SameSite, SameCountry
  <1>9. Basis(f2, c, after.candidates) # "NONE"
    BY <1>8 DEF Basis
  <1>10. c \in Compatible(f2, after)
    BY <1>2, <1>9 DEF Compatible
  <1>11. q.of = c
    BY <1>4, <1>10 DEF IsOne
  <1>. QED
    BY <1>1, <1>11

\* However the sources grow between two collections, and however the company
\* writes its country, buildAutonomousIntelligence() binds it to one entity only,
\* as long as the limits of the later answers are not reached.
THEOREM NewsBindsNoOther == ConclusionsSurviveNews
  <1>1. SUFFICES ASSUME NEW world \in World, NEW source \in GlobalSource, NEW f1 \in Firm,
                        NEW x \in World, NEW f2 \in Rewritten(f1),
                        Grown(source, world, [world EXCEPT ![source] = x[source]])
        PROVE
          LET Found(f, w) == collectCompanyResearch(f, w, {}).intelligence
              a == Found(f1, world)
              w == [world EXCEPT ![source] = x[source]]
              b == Found(f2, w)
          IN /\ ~IsCut("GLEIF", f2, w) =>
                  \A r \in a.identity.reference, q \in b.identity.reference : q = r
             /\ ~IsCut("WIKIDATA", f2, w) =>
                  \A r \in a.references, q \in b.references :
                    \/ q.of.id = r.of.id
                    \/ r.basis = "UNIQUE_CORPORATE_SHORTHAND_AND_COUNTRY"
    BY DEF ConclusionsSurviveNews
  <1>. DEFINE w == [world EXCEPT ![source] = x[source]]
              a == collectCompanyResearch(f1, world, {}).intelligence
              b == collectCompanyResearch(f2, w, {}).intelligence
              gl == w["GLEIF"]
              wd == w["WIKIDATA"]
              old == world["WIKIDATA"]
  <1>2. /\ DOMAIN world = Source /\ source \in Source
        /\ source = "GLEIF" \/ source = "WIKIDATA"
        /\ "GLEIF" \in Source \ {"WIKIDATA"} /\ "WIKIDATA" \in Source
    BY SourceAssumption, SourcesDiffer DEF GlobalSource
  <1>3. /\ gl = IF source = "GLEIF" THEN x["GLEIF"] ELSE world["GLEIF"]
        /\ wd = IF source = "WIKIDATA" THEN x["WIKIDATA"] ELSE world["WIKIDATA"]
        /\ w[source] = x[source]
    BY <1>2
  <1>4. /\ Entries(world["GLEIF"]) \subseteq Entries(gl)
        /\ MoreListed(old, wd)
    BY <1>1, <1>2, <1>3 DEF Grown, MoreListed
  <1>5. /\ gl \in Seq(Entries(gl))
        /\ \A row \in Entries(gl) : countryCode(row.region) # NoCountry
                                       => row.region = <<countryCode(row.region)>>
    <2>1. ASSUME NEW v \in World
          PROVE  /\ v["GLEIF"] \in Seq(Entries(v["GLEIF"]))
                 /\ \A row \in Entries(v["GLEIF"]) : countryCode(row.region) # NoCountry
                                                        => row.region = <<countryCode(row.region)>>
      BY <1>2, SourceAssumption
    <2>. QED
      BY <1>3, <2>1
  <1>6. Listings(old) /\ Listings(wd)
    <2>1. ASSUME NEW v \in World PROVE Listings(v["WIKIDATA"])
      BY SourceAssumption DEF Listings
    <2>. QED
      BY <1>3, <2>1
  <1>. HIDE DEF w, gl, wd, old
  <1>7. \A firm, of : LET c == collectCompanyResearch(firm, of, {}).intelligence
                     IN /\ c.identity = Identity(firm, Results(firm, of, {})["GLEIF"])
                        /\ c.references = References(firm, Results(firm, of, {})["WIKIDATA"])
    BY DEF collectCompanyResearch, buildAutonomousIntelligence
  <1>8. /\ a.identity = Identity(f1, [status |-> "OK", candidates |-> gleif(f1, world["GLEIF"])])
        /\ b.identity = Identity(f2, [status |-> "OK", candidates |-> gleif(f2, gl)])
        /\ a.references
             = References(f1, [status |-> "OK", candidates |-> wikidata(f1, old)])
        /\ b.references
             = References(f2, [status |-> "OK", candidates |-> wikidata(f2, wd)])
    BY <1>7, GlobalAnswers DEF gl, wd, old
  <1>. HIDE DEF a, b
  <1>9. ASSUME ~IsCut("GLEIF", f2, w), NEW r \in a.identity.reference, NEW q \in b.identity.reference
        PROVE  q = r
    <2>1. ~(Cardinality(matching(f2, gl)) > Limit.candidates)
      BY <1>9 DEF IsCut, gl
    <2>. QED
      BY <1>4, <1>5, <1>8, <1>9, <2>1, SameEntity
  <1>10. ASSUME ~IsCut("WIKIDATA", f2, w), NEW r \in a.references, NEW q \in b.references,
                r.basis # "UNIQUE_CORPORATE_SHORTHAND_AND_COUNTRY"
         PROVE  q.of.id = r.of.id
    <2>1. Whole(f2, wd)
      BY <1>10 DEF IsCut, wd, Whole
    <2>2. /\ r \in References(f1, [status |-> "OK", candidates |-> wikidata(f1, old)])
          /\ q \in References(f2, [status |-> "OK", candidates |-> wikidata(f2, wd)])
      BY <1>8
    <2>. QED
      BY <1>4, <1>6, <1>10, <2>1, <2>2, SameContext
  <1>. QED
    BY <1>9, <1>10 DEF a, b, w

\* At every moment of every run of the queue, no page that is shown goes over
\* from one entity to another while the answers are taken as a whole.
THEOREM EntitiesStay == Spec => []NeverBoundToAnother
  <1>1. NeverBoundToAnother
    BY NewsBindsNoOther DEF NeverBoundToAnother
  <1>. QED
    BY <1>1, PTL
=============================================================================
