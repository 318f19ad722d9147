----------------------- MODULE CommunityServiceProofs -----------------------
(***************************************************************************)
(* Proofs about CommunityService: whatever the Worker, the fallback and    *)
(* batches that come late do, the revision counts the writes, keys have    *)
(* one row, nothing is erased and advice, cases and reports agree.         *)
(***************************************************************************)
EXTENDS CommunityService, TLAPS

UniqueIds(rows) == \A e, g \in rows : e.id = g.id => e = g
IdsKept(b, a)   == \A r \in b : \E q \in a : q.id = r.id

\* What a request may change of the entries: one row, on top of the row with
\* its key if there is one, and a fact at its own id.
EntryOnTop(b, a) ==
  /\ \A c, g \in a.entries \ b.entries : c = g
  /\ \A c \in a.entries \ b.entries :
       /\ c.key \in Fact => c.id = c.key
       /\ ~late => \A e \in b.entries : e.key = c.key => e.id = c.id

\* Cases, advice and reports agree with each other.
CasesAgree(d) ==
  /\ UniqueIds(d.cases)
  /\ \A r \in d.cases : /\ r.status = "RECEIVED" => Advisable(d, r)
                        /\ r.status = "ADVISED" => ~Advisable(d, r)
  /\ \A a \in d.advice : \E r \in d.cases : r.id = a.case
  /\ \A r \in d.reports : r.pending = {}

\* New advice is for a case that waits, and the only one for it.
AdviceFits(b, a) ==
  \A x \in a.advice \ b.advice :
    /\ \E r \in b.cases : r.id = x.case /\ r.status = "RECEIVED"
    /\ \A y \in a.advice : y.case = x.case => y = x

\* Only the Worker changes cases, advice and reports.
SameCases(b, a) == a.cases = b.cases /\ a.advice = b.advice /\ a.reports = b.reports
CaseStep(b, a) ==
  /\ CasesAgree(a) /\ IdsKept(b.cases, a.cases) /\ b.advice \subseteq a.advice /\ AdviceFits(b, a)

JobFits(w) ==
  /\ job[w].pc \in {"holds", "orphan"} =>
       /\ EntryOnTop(job[w].before, job[w].after)
       /\ w \in Fallback => SameCases(job[w].before, job[w].after)
  /\ w \in Worker => job[w].pc # "orphan"
  /\ w \in Worker /\ job[w].pc = "holds" =>
       SameCases(db, job[w].before) /\ CaseStep(job[w].before, job[w].after)

\* A writer that is alive has the lock, and what it read is still there as
\* long as no batch was late; the same goes for a killed one with the lock.
LockFits(w) ==
  /\ job[w].pc \in {"holds", "written"} => lock = w
  /\ ~late /\ (job[w].pc = "holds" \/ (job[w].pc = "orphan" /\ lock = w)) =>
       job[w].before = db

EntryKeys == \A e, g \in db.entries : e.key = g.key => e = g \/ (late /\ e.key \in Topic)

IInv ==
  /\ TypeOK
  /\ \A w \in Writer : LockFits(w) /\ JobFits(w)
  /\ RevisionCountsWrites
  /\ \A e \in db.entries : e.key \in Fact => e.id = e.key
  /\ UniqueIds(db.entries)
  /\ EntryKeys
  /\ CasesAgree(db)

-----------------------------------------------------------------------------
(* What the mutators make of the rows *)

\* A message, a response or an entry is no business of the cases, and one row
\* of the entries changes, or none.
LEMMA FeedbackAddedFits ==
  ASSUME NEW d \in DB, NEW f \in Feedback, today \in Day
  PROVE  /\ FeedbackAdded(d, f) \in DB
         /\ SameCases(d, FeedbackAdded(d, f)) /\ EntryOnTop(d, FeedbackAdded(d, f))
BY DEF DB, FeedbackAdded, FeedbackRow, Status, SameCases, EntryOnTop

LEMMA RespondedFits ==
  ASSUME NEW d \in DB, NEW r \in d.feedback, NEW decision \in Decision, NEW at \in Time
  PROVE  /\ Responded(d, r, decision, at) \in DB
         /\ SameCases(d, Responded(d, r, decision, at))
         /\ EntryOnTop(d, Responded(d, r, decision, at))
<1> DEFINE status   == IF decision = "needs_more_info" THEN "NEEDS_MORE_INFO" ELSE "ANSWERED"
           response == [feedback |-> r.id, decision |-> decision, at |-> at]
           answered == [d EXCEPT !.responses = @ \union {response}]
           row      == [r EXCEPT !.status = status]
<1>1. r \in FeedbackRow /\ d.feedback \subseteq FeedbackRow
  BY DEF DB
<1>2. response \in Response /\ row \in FeedbackRow
  BY <1>1 DEF Response, FeedbackRow, Status
<1>3. answered \in DB /\ SameCases(d, answered) /\ answered.entries = d.entries
      /\ answered.feedback = d.feedback
  BY <1>2 DEF DB, SameCases
<1>4. Put(d.feedback, row) \subseteq FeedbackRow
  BY <1>1, <1>2 DEF Put
<1>5. Responded(d, r, decision, at) = [answered EXCEPT !.feedback = Put(d.feedback, row)]
  BY <1>3 DEF Responded
<1> HIDE DEF answered, row
<1>6. QED
  BY <1>3, <1>4, <1>5 DEF DB, SameCases, EntryOnTop

LEMMA FactSavedFits ==
  ASSUME NEW d \in DB, NEW fact \in Fact, NEW at \in Time,
         \A e \in d.entries : e.key \in Fact => e.id = e.key
  PROVE  /\ FactSaved(d, fact, at) \in DB
         /\ SameCases(d, FactSaved(d, fact, at)) /\ EntryOnTop(d, FactSaved(d, fact, at))
BY DEF DB, FactSaved, Entry, Put, SameCases, EntryOnTop

LEMMA CaseAddedFits ==
  ASSUME NEW d \in DB, NEW c \in Case, CaseOpen(d, c), CasesAgree(d), today \in Day
  PROVE  /\ CaseAdded(d, c) \in DB
         /\ EntryOnTop(d, CaseAdded(d, c)) /\ CaseStep(d, CaseAdded(d, c))
BY DEF DB, CaseAdded, CaseOpen, CaseRow, EntryOnTop, CaseStep, CasesAgree, UniqueIds, IdsKept,
       AdviceFits, Advisable, Advice

LEMMA CaseWithdrawnFits ==
  ASSUME NEW d \in DB, NEW r \in d.cases, CasesAgree(d)
  PROVE  /\ CaseWithdrawn(d, r) \in DB
         /\ EntryOnTop(d, CaseWithdrawn(d, r)) /\ CaseStep(d, CaseWithdrawn(d, r))
<1> DEFINE row == [r EXCEPT !.status = "WITHDRAWN"]
           new == CaseWithdrawn(d, r)
<1>1. r \in CaseRow /\ d.cases \subseteq CaseRow
  BY DEF DB
<1>2. row \in CaseRow /\ row.id = r.id /\ row.status = "WITHDRAWN"
  BY <1>1 DEF CaseRow
<1>3. new = [d EXCEPT !.cases = Put(d.cases, row)] /\ Put(d.cases, row) \subseteq CaseRow
  BY <1>1, <1>2 DEF CaseWithdrawn, Put
<1> HIDE DEF row, new
<1>4. /\ new \in DB /\ new.cases = Put(d.cases, row) /\ new.advice = d.advice
      /\ new.reports = d.reports /\ new.entries = d.entries
  BY <1>3 DEF DB
<1>5. UniqueIds(new.cases) /\ IdsKept(d.cases, new.cases)
  BY <1>2, <1>4 DEF Put, UniqueIds, IdsKept, CasesAgree
<1>6. \A q \in new.cases : q = row \/ q \in d.cases
  BY <1>4 DEF Put
<1>7. CasesAgree(new)
  BY <1>2, <1>4, <1>5, <1>6 DEF CasesAgree, Advisable, IdsKept
<1>8. QED
  BY <1>4, <1>5, <1>7 DEF EntryOnTop, CaseStep, AdviceFits, new

\* Each of the rows gets advice and its status.
LEMMA AdvisedFits ==
  ASSUME NEW d \in DB, NEW rows \in SUBSET d.cases, NEW at \in Time, CasesAgree(d),
         \A r \in rows : Advisable(d, r), today \in Day
  PROVE  /\ Advised(d, rows, at) \in DB
         /\ EntryOnTop(d, Advised(d, rows, at)) /\ CaseStep(d, Advised(d, rows, at))
         /\ Advised(d, rows, at).cases = (d.cases \ rows) \union
                                            {[r EXCEPT !.status = "ADVISED"] : r \in rows}
         /\ Advised(d, rows, at).reports = d.reports
<1> DEFINE given == {[case |-> r.id, at |-> at, day |-> today] : r \in rows}
           told  == [d EXCEPT !.advice = d.advice \union given]
           done  == {[r EXCEPT !.status = "ADVISED"] : r \in rows}
           new   == Advised(d, rows, at)
<1>1. rows \subseteq CaseRow /\ d.cases \subseteq CaseRow
  BY DEF DB
<1>2. \A r \in rows : /\ [r EXCEPT !.status = "ADVISED"] \in CaseRow
                      /\ [r EXCEPT !.status = "ADVISED"].id = r.id
                      /\ [r EXCEPT !.status = "ADVISED"].status = "ADVISED"
  BY <1>1 DEF CaseRow
<1>3. /\ \A r \in rows : \E q \in done : q.id = r.id
      /\ \A q \in done : q \in CaseRow /\ q.status = "ADVISED" /\ \E r \in rows : q.id = r.id
  BY <1>2
<1>4. \A p, q \in done : p.id = q.id => p = q
  <2> SUFFICES ASSUME NEW p \in done, NEW q \in done, p.id = q.id
               PROVE  p = q
    OBVIOUS
  <2>1. PICK r \in rows : p = [r EXCEPT !.status = "ADVISED"]
    OBVIOUS
  <2>2. PICK t \in rows : q = [t EXCEPT !.status = "ADVISED"]
    OBVIOUS
  <2>3. r.id = t.id
    BY <1>2, <2>1, <2>2
  <2>4. r = t
    BY <2>3 DEF CasesAgree, UniqueIds
  <2>5. QED
    BY <2>1, <2>2, <2>4
<1>5. /\ given \subseteq Advice
      /\ \A r \in rows : \E x \in given : x.case = r.id
      /\ \A x \in given : \E r \in rows : x.case = r.id
      /\ \A x, y \in given : x.case = y.case => x = y
  <2>1. \A r \in rows : /\ [case |-> r.id, at |-> at, day |-> today] \in given
                        /\ [case |-> r.id, at |-> at, day |-> today] \in Advice
    BY <1>1 DEF CaseRow, Advice
  <2>2. \A x \in given : \E r \in rows : x = [case |-> r.id, at |-> at, day |-> today]
    OBVIOUS
  <2> HIDE DEF given
  <2>3. \A x \in given : x \in Advice /\ \E r \in rows : x.case = r.id
    BY <2>1, <2>2
  <2>4. \A r \in rows : \E x \in given : x.case = r.id
    BY <2>1
  <2>5. \A x \in given : x = [case |-> x.case, at |-> at, day |-> today]
    BY <2>2
  <2>6. QED
    BY <2>3, <2>4, <2>5
<1>6. /\ told \in DB /\ told.cases = d.cases /\ told.entries = d.entries
      /\ told.reports = d.reports /\ told.advice = d.advice \union given
  BY <1>5 DEF DB
<1>7. new = [told EXCEPT !.cases = (d.cases \ rows) \union done]
  BY <1>6 DEF Advised
<1> HIDE DEF given, told, done, new
<1>8. /\ new \in DB /\ new.cases = (d.cases \ rows) \union done /\ new.entries = d.entries
      /\ new.reports = d.reports /\ new.advice = d.advice \union given
  BY <1>1, <1>3, <1>6, <1>7 DEF DB
<1>9. UniqueIds(new.cases) /\ IdsKept(d.cases, new.cases)
  BY <1>3, <1>4, <1>8 DEF CasesAgree, UniqueIds, IdsKept
<1>10. \A r \in rows : r.status = "RECEIVED"
  BY <1>1 DEF CasesAgree, CaseRow, Advisable
<1>11. \A r \in new.cases : /\ r.status = "RECEIVED" => Advisable(new, r)
                            /\ r.status = "ADVISED" => ~Advisable(new, r)
  BY <1>3, <1>5, <1>8 DEF CasesAgree, Advisable, UniqueIds
<1>12. CasesAgree(new)
  BY <1>3, <1>5, <1>8, <1>9, <1>11 DEF CasesAgree, IdsKept
<1>13. AdviceFits(d, new)
  BY <1>5, <1>8, <1>10 DEF AdviceFits, Advisable
<1>14. QED
  BY <1>8, <1>9, <1>12, <1>13 DEF EntryOnTop, CaseStep, new, done

\* The row of the key, if there is one, gives its id.
LEMMA TopicSavedFits ==
  ASSUME NEW d \in DB, NEW topic \in Topic, NEW at \in Time,
         ~late => \A e, g \in d.entries : e.key = g.key => e = g
  PROVE  /\ TopicSaved(d, topic, at) \in DB
         /\ SameCases(d, TopicSaved(d, topic, at)) /\ EntryOnTop(d, TopicSaved(d, topic, at))
<1> DEFINE known == {e \in d.entries : e.key = topic}
           id    == IF known = {} THEN at ELSE (CHOOSE e \in known : TRUE).id
           row   == [id |-> id, key |-> topic, text |-> at]
           new   == TopicSaved(d, topic, at)
<1>1. known # {} => (CHOOSE e \in known : TRUE) \in known
  OBVIOUS
<1>2. known \subseteq Entry /\ d.entries \subseteq Entry
  BY DEF DB
<1>3. id \in Fact \union Time
  BY <1>1, <1>2 DEF Entry
<1>4. ~late => \A e \in d.entries : e.key = topic => e.id = id
  BY <1>1
<1>5. new = [d EXCEPT !.entries = Put(d.entries, row)]
  BY DEF TopicSaved
<1> HIDE DEF id, new
<1>6. Put(d.entries, row) \subseteq Entry
  BY <1>2, <1>3 DEF Entry, Put
<1>7. /\ new \in DB /\ SameCases(d, new) /\ new.entries = Put(d.entries, row)
  BY <1>5, <1>6 DEF DB, SameCases
<1>8. \A c \in new.entries \ d.entries : c = row
  BY <1>7 DEF Put
<1>9. topic \notin Fact
  BY ServiceAssumption
<1>10. QED
  BY <1>4, <1>7, <1>8, <1>9 DEF EntryOnTop, new

\* A report that is made when no case waits.
LEMMA ReportedFits ==
  ASSUME NEW d \in DB, NEW day \in Day, CasesAgree(d), \A r \in d.cases : r.status # "RECEIVED"
  PROVE  /\ Reported(d, day) \in DB /\ CasesAgree(Reported(d, day))
         /\ Reported(d, day).entries = d.entries /\ Reported(d, day).cases = d.cases
         /\ Reported(d, day).advice = d.advice
<1> DEFINE received == {r.id : r \in {q \in d.cases : q.day = day /\ q.status # "WITHDRAWN"}}
           advised  == {a.case : a \in {b \in d.advice : b.day = day}}
           pending  == {r.id : r \in {q \in d.cases : q.status = "RECEIVED"}}
           row == [id |-> day, received |-> received, advised |-> advised, pending |-> pending]
<1>1. received \subseteq Case /\ advised \subseteq Case /\ pending = {}
  BY DEF DB, CaseRow, Advice
<1>2. Reported(d, day) = [d EXCEPT !.reports = Put(d.reports, row)]
  BY DEF Reported
<1> HIDE DEF received, advised, pending
<1>3. row \in Report /\ row.pending = {}
  BY <1>1 DEF Report
<1> HIDE DEF row
<1>4. Put(d.reports, row) \subseteq Report /\ \A r \in Put(d.reports, row) : r = row \/ r \in d.reports
  BY <1>3 DEF Put, DB
<1>5. QED
  BY <1>2, <1>3, <1>4 DEF DB, CasesAgree, Advisable

\* The daily run: all the cases that wait, then the report.
LEMMA AgentRanFits ==
  ASSUME NEW d \in DB, NEW day \in Day, NEW at \in Time, CasesAgree(d), today \in Day
  PROVE  /\ AgentRan(d, day, at) \in DB
         /\ EntryOnTop(d, AgentRan(d, day, at)) /\ CaseStep(d, AgentRan(d, day, at))
<1> DEFINE rows == {r \in d.cases : Advisable(d, r)}
           told == Advised(d, rows, at)
<1>1. /\ told \in DB /\ EntryOnTop(d, told) /\ CaseStep(d, told)
      /\ told.cases = (d.cases \ rows) \union {[r EXCEPT !.status = "ADVISED"] : r \in rows}
  BY AdvisedFits
<1>2. \A r \in d.cases : r.status = "RECEIVED" => r \in rows
  BY DEF CasesAgree
<1>3. \A r \in rows : [r EXCEPT !.status = "ADVISED"].status = "ADVISED"
  BY DEF DB, CaseRow
<1>4. \A r \in told.cases : r.status # "RECEIVED"
  BY <1>1, <1>2, <1>3
<1>5. AgentRan(d, day, at) = Reported(told, day)
  BY DEF AgentRan
<1>6. told \in DB /\ EntryOnTop(d, told) /\ CaseStep(d, told)
  BY <1>1
<1> DEFINE new == Reported(told, day)
<1> HIDE DEF told, new
<1>7. /\ new \in DB /\ CasesAgree(new)
      /\ new.entries = told.entries /\ new.cases = told.cases /\ new.advice = told.advice
  BY <1>4, <1>6, ReportedFits DEF CaseStep, new
<1>8. EntryOnTop(d, new) /\ CaseStep(d, new)
  BY <1>6, <1>7 DEF EntryOnTop, CaseStep, AdviceFits
<1>9. QED
  BY <1>5, <1>7, <1>8 DEF new

-----------------------------------------------------------------------------
(* What a request wants fits what the invariant says of jobs *)

Requested(w) ==
  \/ w \in Worker /\ (CatalogRequest(w) \/ UserRequest(w) \/ AdviceRequest(w)
                      \/ RunRequest(w) \/ DailyTrigger(w))
  \/ CommunityRequest(w)

\* The daily trigger is one of the runs of an agent.
LEMMA TriggerRuns ==
  ASSUME NEW w \in Writer, RunRequest(w) \/ DailyTrigger(w)
  PROVE  \E day \in 1..today : Begin(w, AgentRan(db, day, clock + 1))
BY DEF RunRequest, DailyTrigger

\* Companies and ballots are no business of anything else.
CatalogOnly(b, a) ==
  /\ a.feedback = b.feedback /\ a.responses = b.responses /\ a.entries = b.entries
  /\ SameCases(b, a)

LEMMA CatalogRequested ==
  ASSUME db \in DB, clock + 1 \in Time, NEW w \in Writer, CatalogRequest(w)
  PROVE  \E after \in DB : CatalogOnly(db, after) /\ Begin(w, after)
<1>1. ASSUME NEW companies \in SUBSET Company
      PROVE  LET after == [db EXCEPT !.companies = companies]
             IN  after \in DB /\ CatalogOnly(db, after)
  BY DEF DB, CatalogOnly, SameCases
<1>2. ASSUME NEW ballots \in SUBSET Ballot
      PROVE  LET after == [db EXCEPT !.ballots = ballots]
             IN  after \in DB /\ CatalogOnly(db, after)
  BY DEF DB, CatalogOnly, SameCases
<1>3. db.companies \subseteq Company /\ db.ballots \subseteq Ballot
  BY DEF DB
<1>4. ASSUME NEW name \in Name, Begin(w, CompanyAdded(db, name, clock + 1))
      PROVE  CompanyAdded(db, name, clock + 1) \in DB /\ CatalogOnly(db, CompanyAdded(db, name, clock + 1))
  <2> DEFINE companies == db.companies \union {[id |-> clock + 1, name |-> name]}
  <2>1. companies \in SUBSET Company
    BY <1>3 DEF Company
  <2>2. \/ CompanyAdded(db, name, clock + 1) = db
        \/ CompanyAdded(db, name, clock + 1) = [db EXCEPT !.companies = companies]
    BY DEF CompanyAdded
  <2> HIDE DEF companies
  <2>3. CatalogOnly(db, db)
    BY DEF CatalogOnly, SameCases
  <2>4. QED
    BY <1>1, <2>1, <2>2, <2>3
<1>5. ASSUME NEW ballot \in Ballot
      PROVE  /\ BallotCast(db, ballot) \in DB /\ CatalogOnly(db, BallotCast(db, ballot))
             /\ BallotTakenBack(db, BallotKey(ballot)) \in DB
             /\ CatalogOnly(db, BallotTakenBack(db, BallotKey(ballot)))
  <2> DEFINE others == {b \in db.ballots : BallotKey(b) # BallotKey(ballot)}
  <2>1. others \in SUBSET Ballot /\ others \union {ballot} \in SUBSET Ballot
    BY <1>3
  <2>2. /\ BallotCast(db, ballot) = [db EXCEPT !.ballots = others \union {ballot}]
        /\ BallotTakenBack(db, BallotKey(ballot)) = [db EXCEPT !.ballots = others]
    BY DEF BallotCast, BallotTakenBack
  <2> HIDE DEF others
  <2>3. QED
    BY <1>2, <2>1, <2>2
<1>6. QED
  BY <1>4, <1>5 DEF CatalogRequest

Fits(w, after) ==
  /\ after \in DB /\ EntryOnTop(db, after)
  /\ w \in Fallback => SameCases(db, after)
  /\ w \in Worker => CaseStep(db, after)

LEMMA SameCasesIsCaseStep ==
  ASSUME NEW b \in DB, NEW a \in DB, CasesAgree(b), SameCases(b, a)
  PROVE  CaseStep(b, a)
BY DEF CasesAgree, SameCases, CaseStep, IdsKept, AdviceFits, Advisable

LEMMA RequestFits ==
  ASSUME IInv, NEW w \in Writer, Requested(w)
  PROVE  \E after : Fits(w, after) /\ Begin(w, after)
<1>1. /\ db \in DB /\ CasesAgree(db) /\ today \in Day
      /\ Worker \intersect Fallback = {}
  BY ServiceAssumption DEF IInv, TypeOK
<1>2. ASSUME clock < MaxClock PROVE clock + 1 \in Time
  BY <1>2, ServiceAssumption DEF IInv, TypeOK, Time
<1>3. \A after \in DB : EntryOnTop(db, after) /\ SameCases(db, after) => Fits(w, after)
  BY <1>1, SameCasesIsCaseStep DEF Fits
<1>4. \A after \in DB : w \in Worker /\ EntryOnTop(db, after) /\ CaseStep(db, after) => Fits(w, after)
  BY <1>1 DEF Fits
<1>5. CASE w \in Worker /\ UserRequest(w)
  <2>1. ASSUME NEW f \in Feedback, Begin(w, FeedbackAdded(db, f))
        PROVE  Fits(w, FeedbackAdded(db, f))
    BY <1>1, <1>3, FeedbackAddedFits
  <2>2. ASSUME NEW c \in Case, CaseOpen(db, c), Begin(w, CaseAdded(db, c))
        PROVE  Fits(w, CaseAdded(db, c))
    BY <1>1, <1>4, <1>5, <2>2, CaseAddedFits
  <2>3. ASSUME NEW r \in db.cases, Begin(w, CaseWithdrawn(db, r))
        PROVE  Fits(w, CaseWithdrawn(db, r))
    BY <1>1, <1>4, <1>5, CaseWithdrawnFits
  <2>4. QED
    BY <1>5, <2>1, <2>2, <2>3 DEF UserRequest
<1>6. CASE w \in Worker /\ AdviceRequest(w)
  <2>1. PICK r \in db.cases : Advisable(db, r) /\ Begin(w, Advised(db, {r}, clock + 1))
    BY <1>6 DEF AdviceRequest
  <2>2. clock + 1 \in Time
    BY <1>2, <2>1 DEF Begin
  <2>3. /\ Advised(db, {r}, clock + 1) \in DB /\ EntryOnTop(db, Advised(db, {r}, clock + 1))
        /\ CaseStep(db, Advised(db, {r}, clock + 1))
    <3> DEFINE rows == {r}
    <3>1. rows \in SUBSET db.cases /\ \A q \in rows : Advisable(db, q)
      BY <2>1
    <3> HIDE DEF rows
    <3>2. /\ Advised(db, rows, clock + 1) \in DB /\ EntryOnTop(db, Advised(db, rows, clock + 1))
          /\ CaseStep(db, Advised(db, rows, clock + 1))
      BY <1>1, <2>2, <3>1, AdvisedFits
    <3>3. QED
      BY <3>2 DEF rows
  <2>4. QED
    BY <1>4, <1>6, <2>1, <2>3
<1>7. CASE w \in Worker /\ (RunRequest(w) \/ DailyTrigger(w))
  <2>1. PICK day \in 1..today : Begin(w, AgentRan(db, day, clock + 1))
    BY <1>7, TriggerRuns
  <2>2. clock + 1 \in Time /\ day \in Day
    BY <1>1, <1>2, <2>1, ServiceAssumption DEF Begin, Day
  <2>3. QED
    BY <1>1, <1>4, <1>7, <2>1, <2>2, AgentRanFits
<1>8. CASE CommunityRequest(w)
  <2>1. ASSUME NEW r \in db.feedback, NEW decision \in Decision,
               Begin(w, Responded(db, r, decision, clock + 1))
        PROVE  Fits(w, Responded(db, r, decision, clock + 1))
    BY <1>1, <1>2, <1>3, <2>1, RespondedFits DEF Begin
  <2>2. ASSUME NEW fact \in Fact, Begin(w, FactSaved(db, fact, clock + 1))
        PROVE  Fits(w, FactSaved(db, fact, clock + 1))
    BY <1>1, <1>2, <1>3, <2>2, FactSavedFits DEF Begin, IInv
  <2>3. ASSUME NEW topic \in Topic, Begin(w, TopicSaved(db, topic, clock + 1))
        PROVE  Fits(w, TopicSaved(db, topic, clock + 1))
    <3>1. ~late => \A e, g \in db.entries : e.key = g.key => e = g
      BY DEF IInv, EntryKeys
    <3>2. QED
      BY <1>1, <1>2, <1>3, <2>3, <3>1, TopicSavedFits DEF Begin
  <2>4. QED
    BY <1>8, <2>1, <2>2, <2>3 DEF CommunityRequest
<1>9. CASE CatalogRequest(w)
  <2>1. clock < MaxClock
    BY <1>9 DEF CatalogRequest, Begin
  <2>2. PICK after \in DB : CatalogOnly(db, after) /\ Begin(w, after)
    BY <1>1, <1>2, <1>9, <2>1, CatalogRequested
  <2>3. EntryOnTop(db, after) /\ SameCases(db, after)
    BY <2>2 DEF CatalogOnly, EntryOnTop
  <2>4. QED
    BY <1>3, <2>2, <2>3
<1>10. QED
  BY <1>5, <1>6, <1>7, <1>8, <1>9 DEF Requested

-----------------------------------------------------------------------------
(* What a batch makes of the rows *)

\* If what was read is there and no id has gone, the batch leaves what the
\* writer wants.
LEMMA UpsertedIsAfter ==
  ASSUME NEW b, NEW a, UniqueIds(b), UniqueIds(a), IdsKept(b, a)
  PROVE  Upserted(b, b, a) = a
<1>1. ASSUME NEW r \in b, \A c \in a \ b : c.id # r.id PROVE r \in a
  BY <1>1 DEF UniqueIds, IdsKept
<1>2. ASSUME NEW r \in a \intersect b PROVE \A c \in a \ b : c.id # r.id
  BY DEF UniqueIds
<1>3. QED
  BY <1>1, <1>2 DEF Upserted

\* A batch erases no row, whatever was read and wanted.
LEMMA UpsertedKeepsIds ==
  ASSUME NEW now, NEW b, NEW a
  PROVE  IdsKept(now, Upserted(now, b, a))
BY DEF Upserted, IdsKept

LEMMA WrittenType ==
  ASSUME NEW now \in DB, NEW b \in DB, NEW a \in DB, NEW revision \in Nat
  PROVE  Written(now, b, a, revision) \in DB
<1>1. /\ Upserted(now.feedback, b.feedback, a.feedback) \subseteq FeedbackRow
      /\ Upserted(now.entries, b.entries, a.entries) \subseteq Entry
      /\ Upserted(now.cases, b.cases, a.cases) \subseteq CaseRow
      /\ Upserted(now.reports, b.reports, a.reports) \subseteq Report
      /\ BallotsReplaced(now.ballots, b.ballots, a.ballots) \subseteq Ballot
  BY DEF Upserted, BallotsReplaced, DB
<1>2. /\ now.responses \union (a.responses \ b.responses) \subseteq Response
      /\ now.advice \union (a.advice \ b.advice) \subseteq Advice
      /\ now.companies \union (a.companies \ b.companies) \subseteq Company
  BY DEF DB
<1>3. QED
  BY <1>1, <1>2 DEF Written, DB

\* The rows after a batch of w.  A batch in time is one by a writer that is
\* alive or has the lock.
Acts(w)   == job[w].pc \in {"holds", "orphan"}
InTime(w) == job[w].pc = "holds" \/ lock = w
Result(w) == Written(db, job[w].before, job[w].after, NextRevision(w))

LEMMA ResultRevision ==
  ASSUME IInv, NEW w \in Writer, Acts(w), ~late, InTime(w)
  PROVE  Result(w).revision = db.revision + 1 /\ job[w].before = db
<1>1. job[w].before = db
  BY DEF IInv, LockFits, Acts, InTime
<1>2. QED
  BY <1>1 DEF Result, Written, NextRevision

LEMMA ResultType ==
  ASSUME IInv, NEW w \in Writer, Acts(w)
  PROVE  Result(w) \in DB
<1>1. db \in DB /\ job[w].before \in DB /\ job[w].after \in DB
  BY DEF IInv, TypeOK
<1>2. NextRevision(w) \in Nat
  BY <1>1 DEF NextRevision, DB
<1>3. QED
  BY <1>1, <1>2, WrittenType DEF Result

\* A fact keeps its id, ids stay unique, and in time so do keys.
LEMMA ResultEntries ==
  ASSUME IInv, NEW w \in Writer, Acts(w)
  PROVE  /\ \A e \in Result(w).entries : e.key \in Fact => e.id = e.key
         /\ UniqueIds(Result(w).entries)
         /\ ~late /\ InTime(w) => \A e, g \in Result(w).entries : e.key = g.key => e = g
<1> DEFINE b == job[w].before.entries
           a == job[w].after.entries
           new == Result(w).entries
<1>1. /\ \A c, g \in a \ b : c = g
      /\ \A c \in a \ b : c.key \in Fact => c.id = c.key
      /\ ~late => \A c \in a \ b : \A e \in b : e.key = c.key => e.id = c.id
  BY DEF IInv, JobFits, Acts, EntryOnTop
<1>2. new = {r \in db.entries : \A c \in a \ b : c.id # r.id} \union (a \ b)
  BY DEF Result, Written, Upserted
<1>3. UniqueIds(db.entries) /\ \A e \in db.entries : e.key \in Fact => e.id = e.key
  BY DEF IInv
<1>4. ~late /\ InTime(w) => b = db.entries
  BY ResultRevision
<1>5. ~late => \A e, g \in db.entries : e.key = g.key => e = g
  BY DEF IInv, EntryKeys
<1> HIDE DEF b, a, new
<1>6. \A e \in new : e.key \in Fact => e.id = e.key
  BY <1>1, <1>2, <1>3
<1>7. UniqueIds(new)
  BY <1>1, <1>2, <1>3 DEF UniqueIds
<1>8. ~late /\ InTime(w) => \A e, g \in new : e.key = g.key => e = g
  BY <1>1, <1>2, <1>4, <1>5
<1>9. QED
  BY <1>6, <1>7, <1>8 DEF new

\* Cases, advice and reports are those the Worker wants, or the same as before.
LEMMA ResultCases ==
  ASSUME IInv, NEW w \in Writer, Acts(w)
  PROVE  /\ CasesAgree(Result(w)) /\ AdviceFits(db, Result(w))
         /\ w \in Fallback => SameCases(db, Result(w))
<1> DEFINE b == job[w].before
           a == job[w].after
           new == Result(w)
<1>1. /\ new.cases = Upserted(db.cases, b.cases, a.cases)
      /\ new.advice = db.advice \union (a.advice \ b.advice)
      /\ new.reports = Upserted(db.reports, b.reports, a.reports)
  BY DEF Result, Written
<1>2. CasesAgree(db) /\ JobFits(w)
  BY DEF IInv
<1>3. w \in Worker \/ w \in Fallback
  BY DEF Writer
<1> HIDE DEF new
<1>4. CASE w \in Fallback
  <2>1. a.cases = b.cases /\ a.advice = b.advice /\ a.reports = b.reports
    BY <1>2, <1>4 DEF JobFits, Acts, SameCases
  <2>2. SameCases(db, new)
    BY <1>1, <2>1 DEF SameCases, Upserted
  <2>3. QED
    BY <1>2, <2>2 DEF CasesAgree, SameCases, AdviceFits, Advisable, new
<1>5. CASE w \in Worker
  <2>1. /\ SameCases(db, b) /\ CaseStep(b, a) /\ w \notin Fallback
    BY <1>2, <1>5, ServiceAssumption DEF JobFits, Acts
  <2> HIDE DEF b, a
  <2>2. new.cases = a.cases
    BY <1>1, <1>2, <2>1, UpsertedIsAfter DEF SameCases, CaseStep, CasesAgree
  <2>3. new.advice = a.advice
    BY <1>1, <2>1 DEF SameCases, CaseStep
  <2>4. \A r \in new.reports : r \in db.reports \/ r \in a.reports
    BY <1>1 DEF Upserted
  <2>5. CasesAgree(new)
    BY <1>2, <2>1, <2>2, <2>3, <2>4 DEF CaseStep, CasesAgree, Advisable
  <2>6. AdviceFits(db, new)
    BY <2>1, <2>3 DEF SameCases, CaseStep, AdviceFits
  <2>7. QED
    BY <2>1, <2>5, <2>6 DEF new
<1>6. QED
  BY <1>3, <1>4, <1>5

-----------------------------------------------------------------------------
(* The invariant is kept *)

JobType == [pc : {"idle", "holds", "written", "orphan"}, before : DB, after : DB]

LEMMA NoJobType == NoRows \in DB /\ NoJob \in JobType
<1>1. NoRows \in DB
  BY DEF NoRows, DB
<1>2. QED
  BY <1>1 DEF NoJob, JobType

LEMMA InitIInv == Init => IInv
<1> SUFFICES ASSUME Init PROVE IInv
  OBVIOUS
<1>1. TypeOK
  <2>1. job \in [Writer -> JobType] /\ db \in DB
    BY NoJobType DEF Init
  <2>2. clock \in 0..MaxClock /\ today \in Day
    BY ServiceAssumption DEF Init, Day
  <2>3. QED
    BY <2>1, <2>2 DEF Init, TypeOK, JobType
<1>2. \A w \in Writer : LockFits(w) /\ JobFits(w)
  BY DEF Init, LockFits, JobFits, NoJob
<1>3. QED
  BY <1>1, <1>2 DEF Init, IInv, RevisionCountsWrites, UniqueIds, EntryKeys, CasesAgree, NoRows

\* A request begins: nobody was alive with the lock.
LEMMA BeginIInv ==
  ASSUME IInv, NEW w \in Writer, NEW after, Fits(w, after), Begin(w, after)
  PROVE  IInv'
<1> DEFINE new == [pc |-> "holds", before |-> db, after |-> after]
<1>1. /\ db' = db /\ late' = late /\ writes' = writes /\ today' = today /\ lock' = w
      /\ lock = Nobody /\ job' = [job EXCEPT ![w] = new] /\ clock < MaxClock /\ clock' = clock + 1
  BY DEF Begin, LockFree
<1>2. TypeOK /\ new \in JobType
  BY DEF IInv, TypeOK, Fits, JobType
<1>3. TypeOK'
  BY <1>1, <1>2, ServiceAssumption DEF TypeOK, JobType
<1>4. job'[w] = new /\ \A u \in Writer : u # w => job'[u] = job[u]
  BY <1>1, <1>2 DEF TypeOK
<1>5. ASSUME NEW u \in Writer PROVE LockFits(u)'
  BY <1>1, <1>4, ServiceAssumption DEF LockFits, IInv, Writer
<1>6. JobFits(w)'
  BY <1>1, <1>4, ServiceAssumption DEF JobFits, Fits, SameCases, EntryOnTop
<1>7. ASSUME NEW u \in Writer, u # w PROVE JobFits(u)'
  BY <1>1, <1>4, <1>7 DEF JobFits, IInv, EntryOnTop
<1>8. QED
  BY <1>1, <1>3, <1>5, <1>6, <1>7
     DEF IInv, RevisionCountsWrites, UniqueIds, EntryKeys, CasesAgree, Advisable

\* A batch is executed, in time or late, and its writer has written or is gone.
LEMMA BatchIInv ==
  ASSUME IInv, NEW w \in Writer, Acts(w), Batch(w), NEW after \in JobType,
         after.pc \in {"written", "idle"}, after.pc = "written" => job[w].pc = "holds",
         job' = [job EXCEPT ![w] = after]
  PROVE  IInv'
<1>1. /\ db' = Result(w) /\ writes' = writes + 1 /\ lock' = lock /\ clock' = clock /\ today' = today
      /\ late' = (late \/ (job[w].pc = "orphan" /\ lock # w))
  BY DEF Batch, Result
<1>2. TypeOK
  BY DEF IInv
<1>3. ~late' => ~late /\ InTime(w)
  BY <1>1 DEF InTime, Acts
<1>4. late' \in BOOLEAN /\ job' \in [Writer -> JobType] /\ writes' \in Nat
  BY <1>1, <1>2 DEF TypeOK, JobType
<1>5. TypeOK'
  BY <1>1, <1>2, <1>4, ResultType DEF TypeOK, JobType
<1>6. job'[w] = after /\ \A u \in Writer : u # w => job'[u] = job[u]
  BY <1>2 DEF TypeOK
<1>7. ASSUME NEW u \in Writer PROVE LockFits(u)'
  <2>1. LockFits(u) /\ LockFits(w)
    BY DEF IInv
  <2>2. CASE u = w
    BY <1>1, <1>6, <2>1, <2>2 DEF LockFits
  <2>3. CASE u # w
    <3>1. job[u].pc \in {"holds", "written"} => lock = u
      BY <2>1 DEF LockFits
    <3>2. ~late' => lock = w
      BY <1>1, <2>1 DEF LockFits, Acts
    <3>3. QED
      BY <1>1, <1>6, <2>3, <3>1, <3>2 DEF LockFits
  <2>4. QED
    BY <2>2, <2>3
<1>8. ASSUME NEW u \in Writer PROVE JobFits(u)'
  <2>1. JobFits(u) /\ JobFits(w) /\ LockFits(u) /\ LockFits(w)
    BY DEF IInv
  <2>2. CASE u = w
    BY <1>6, <2>2 DEF JobFits
  <2>3. CASE u # w
    <3>1. job'[u] = job[u]
      BY <1>6, <2>3
    <3>2. ASSUME EntryOnTop(job[u].before, job[u].after)
          PROVE  EntryOnTop(job[u].before, job[u].after)'
      BY <1>1, <3>1, <3>2 DEF EntryOnTop
    <3>3. ASSUME u \in Worker, job[u].pc = "holds" PROVE SameCases(db, db')
      <4>1. w \notin Worker
        BY <2>1, <2>3, <3>3 DEF LockFits, JobFits, Acts
      <4>2. QED
        BY <1>1, <4>1, ResultCases DEF Writer
    <3>4. QED
      BY <2>1, <3>1, <3>2, <3>3
         DEF JobFits, SameCases, CaseStep, CasesAgree, IdsKept, AdviceFits, UniqueIds, Advisable
  <2>4. QED
    BY <2>2, <2>3
<1>9. RevisionCountsWrites'
  BY <1>1, <1>3, ResultRevision DEF IInv, RevisionCountsWrites
<1>10. /\ \A e \in db'.entries : e.key \in Fact => e.id = e.key
       /\ UniqueIds(db'.entries)
       /\ ~late' => \A e, g \in db'.entries : e.key = g.key => e = g
  BY <1>1, <1>3, ResultEntries
<1>11. EntryKeys'
  <2>1. db'.entries \subseteq Entry
    BY <1>5 DEF TypeOK, DB
  <2>2. QED
    BY <1>10, <2>1 DEF EntryKeys, UniqueIds, Entry
<1>12. CasesAgree(db)'
  BY <1>1, ResultCases DEF CasesAgree, UniqueIds, Advisable
<1>13. QED
  BY <1>5, <1>7, <1>8, <1>9, <1>10, <1>11, <1>12 DEF IInv, UniqueIds

\* A writer ends, is killed or its batch vanishes, the lock row is deleted or
\* expires, or the day ends: the rows stay as they are.
LEMMA QuietIInv ==
  ASSUME IInv, NEW w \in Writer, NEW after \in JobType, job' = [job EXCEPT ![w] = after],
         UNCHANGED <<db, clock, writes, late>>, today' \in Day,
         \/ after.pc = "idle" \/ after = job[w]
         \/ w \in Fallback /\ job[w].pc = "holds" /\ after = [job[w] EXCEPT !.pc = "orphan"],
         \/ lock' = lock
         \/ lock' = Nobody /\ \A u \in Writer : u = lock =>
               job[u].pc \notin {"holds", "written"} \/ (u = w /\ after.pc = "idle")
  PROVE  IInv'
<1>1. TypeOK
  BY DEF IInv
<1>2. job'[w] = after /\ \A u \in Writer : u # w => job'[u] = job[u]
  BY <1>1 DEF TypeOK
<1>3. job' \in [Writer -> JobType] /\ lock' \in Writer \union {Nobody}
  BY <1>1 DEF TypeOK, JobType
<1>4. TypeOK'
  BY <1>1, <1>3 DEF TypeOK, JobType
<1>5. after.pc = "idle" \/ (after.before = job[w].before /\ after.after = job[w].after)
  BY <1>1 DEF TypeOK
<1>6. after.pc = "idle" \/ after.pc = job[w].pc
      \/ (after.pc = "orphan" /\ job[w].pc = "holds" /\ w \in Fallback)
  BY <1>1 DEF TypeOK
<1>7. ASSUME NEW u \in Writer PROVE LockFits(u)'
  <2>1. LockFits(u)
    BY DEF IInv
  <2>2. CASE u = w
    BY <1>2, <1>5, <1>6, <2>1, <2>2, ServiceAssumption DEF LockFits, Writer
  <2>3. CASE u # w
    BY <1>2, <2>1, <2>3, ServiceAssumption DEF LockFits, Writer
  <2>4. QED
    BY <2>2, <2>3
<1>8. ASSUME NEW u \in Writer PROVE JobFits(u)'
  <2>1. JobFits(u)
    BY DEF IInv
  <2>2. CASE u = w
    BY <1>2, <1>5, <1>6, <2>1, <2>2, ServiceAssumption DEF JobFits, EntryOnTop
  <2>3. CASE u # w
    BY <1>2, <2>1, <2>3 DEF JobFits, EntryOnTop
  <2>4. QED
    BY <2>2, <2>3
<1>9. QED
  BY <1>4, <1>7, <1>8 DEF IInv, RevisionCountsWrites, UniqueIds, EntryKeys, CasesAgree, Advisable

LEMMA NextIInv == IInv /\ [Next]_vars => IInv'
<1> SUFFICES ASSUME IInv, [Next]_vars PROVE IInv'
  OBVIOUS
<1>1. /\ TypeOK /\ \A w \in Writer : job[w] \in JobType
      /\ NoJob \in JobType /\ NoJob.pc = "idle"
  BY NoJobType DEF IInv, TypeOK, JobType, NoJob
<1>2. ASSUME NEW w \in Writer, Requested(w) PROVE IInv'
  BY <1>2, RequestFits, BeginIInv
<1>3. ASSUME NEW w \in Writer, Commit(w) PROVE IInv'
  <2> DEFINE after == [pc |-> "written", before |-> NoRows, after |-> NoRows]
  <2>1. after \in JobType /\ after.pc = "written" /\ job' = [job EXCEPT ![w] = after]
    BY <1>3, NoJobType DEF JobType, Commit
  <2> HIDE DEF after
  <2>2. QED
    BY <1>3, <2>1, BatchIInv DEF Commit, Acts
<1>4. ASSUME NEW w \in Fallback, Land(w) PROVE IInv'
  BY <1>1, <1>4, BatchIInv DEF Land, Acts, Writer
<1>5. ASSUME NEW w \in Writer, Release(w) PROVE IInv'
  <2>1. \A u \in Writer : LockFits(u)
    BY DEF IInv
  <2>2. \A u \in Writer : u = lock => job[u].pc \notin {"holds", "written"} \/ u = w
    BY <1>5, <2>1 DEF Release, LockFits
  <2>3. QED
    BY <1>1, <1>5, <2>2, QuietIInv DEF Release, TypeOK
<1>6. ASSUME NEW w \in Writer, Die(w) PROVE IInv'
  BY <1>1, <1>6, QuietIInv DEF Die, TypeOK
<1>7. ASSUME NEW w \in Fallback, Kill(w) PROVE IInv'
  <2> DEFINE after == [job[w] EXCEPT !.pc = "orphan"]
  <2>1. w \in Writer /\ after \in JobType
    BY <1>1 DEF JobType, Writer
  <2>2. job' = [job EXCEPT ![w] = after]
    BY <1>1, <1>7, <2>1 DEF Kill, TypeOK
  <2>3. QED
    BY <1>1, <1>7, <2>1, <2>2, QuietIInv DEF Kill, TypeOK
<1>8. ASSUME NEW w \in Fallback, Vanish(w) PROVE IInv'
  BY <1>1, <1>8, QuietIInv DEF Vanish, TypeOK, Writer
<1>9. ASSUME NEW w \in Writer, job' = job PROVE job' = [job EXCEPT ![w] = job[w]]
  BY <1>1, <1>9 DEF TypeOK
<1>10. CASE Expire
  <2>1. lock \in Writer /\ job[lock].pc \notin {"holds", "written"} /\ lock' = Nobody /\ job' = job
    BY <1>10 DEF Expire
  <2>2. UNCHANGED <<db, clock, writes, late>> /\ today' \in Day
    BY <1>1, <1>10 DEF Expire, TypeOK
  <2>3. QED
    BY <1>1, <1>9, <2>1, <2>2, QuietIInv
<1>11. CASE UNCHANGED <<db, lock, job, clock, writes, late>> /\ today' \in Day
  BY <1>11 DEF IInv, TypeOK, LockFits, JobFits, RevisionCountsWrites, UniqueIds, EntryKeys,
               CasesAgree, Advisable, EntryOnTop, SameCases, CaseStep, IdsKept, AdviceFits
<1>12. CASE NextDay
  BY <1>1, <1>11, <1>12, ServiceAssumption DEF NextDay, TypeOK, Day
<1>13. CASE UNCHANGED vars
  BY <1>1, <1>11, <1>13 DEF vars, TypeOK
<1>14. QED
  BY <1>2, <1>3, <1>4, <1>5, <1>6, <1>7, <1>8, <1>10, <1>12, <1>13 DEF Next, Writer, Requested

LEMMA SpecIInv == Spec => []IInv
<1>1. QED
  BY InitIInv, NextIInv, PTL DEF Spec

-----------------------------------------------------------------------------
(* Theorems *)

\* Rows, jobs and the lock have their types in every reachable state
\* (d1_fallback.mjs, domain.mjs).
THEOREM TypeCorrect == Spec => []TypeOK
<1>1. IInv => TypeOK
  BY DEF IInv
<1>2. QED
  BY <1>1, SpecIInv, PTL

\* With any number of Workers and fallbacks, the revision counts their writes
\* as long as no batch is late (transaction, persistAllowedDiff).
THEOREM RevisionCounts == Spec => []RevisionCountsWrites
<1>1. IInv => RevisionCountsWrites
  BY DEF IInv
<1>2. QED
  BY <1>1, SpecIInv, PTL

\* Queue, status, advice and reports agree, with any number of agents
\* (runAdvisoryAgent, generateAdvisoryDailyReport).
THEOREM PendingAgrees == Spec => []NothingIsLeftPending
<1>1. IInv => NothingIsLeftPending
  BY DEF IInv, CasesAgree, NothingIsLeftPending
<1>2. QED
  BY <1>1, SpecIInv, PTL

\* Only batches change rows.
LEMMA OnlyBatches ==
  ASSUME [Next]_vars, db' # db
  PROVE  \E w \in Writer : Acts(w) /\ db' = Result(w)
BY DEF Next, vars, CatalogRequest, UserRequest, AdviceRequest, RunRequest, DailyTrigger, CommunityRequest, Begin, Commit, Release,
       Die, Kill, Land, Vanish, Expire, NextDay, Batch, Acts, Result, Writer

\* Advice is only given to a case that waits, and once (addAdvisoryAdvice).
THEOREM AdviceOnce == Spec => AdviceIsWanted
<1>1. ASSUME IInv, [Next]_vars PROVE OneAdvicePerWaitingCase
  <2>1. CASE db' = db
    BY <2>1 DEF OneAdvicePerWaitingCase
  <2>2. CASE db' # db
    BY <1>1, <2>2, OnlyBatches, ResultCases DEF OneAdvicePerWaitingCase, AdviceFits
  <2>3. QED
    BY <2>1, <2>2
<1>2. IInv /\ [Next]_vars => [OneAdvicePerWaitingCase]_vars
  BY <1>1
<1>3. QED
  BY <1>2, SpecIInv, PTL DEF Spec, AdviceIsWanted

-----------------------------------------------------------------------------
(* The status of messages *)

\* Every status but RECEIVED has a response that explains it.
Explained(rows, responses) ==
  \A r \in rows : r.status # "RECEIVED" =>
    \E s \in responses : s.feedback = r.id /\ (s.decision = "needs_more_info" <=> r.status = "NEEDS_MORE_INFO")

Following(r, s) == r.status = IF s.decision = "needs_more_info" THEN "NEEDS_MORE_INFO" ELSE "ANSWERED"

StatusAgrees(rows, responses) ==
  /\ UniqueIds(rows)
  /\ \A s \in responses : \E r \in rows : r.id = s.feedback
  /\ \A r \in rows, s \in responses :
       s.feedback = r.id /\ (\A t \in responses : t.feedback = r.id => t.at <= s.at) => Following(r, s)

Answers(b, a) ==
  /\ \A s \in a.responses : s.at <= clock
  /\ Explained(a.feedback \ b.feedback, a.responses \ b.responses)
  /\ ~late => /\ StatusAgrees(a.feedback, a.responses)
              /\ IdsKept(b.feedback, a.feedback) /\ b.responses \subseteq a.responses

SInv ==
  /\ \A s \in db.responses : s.at <= clock
  /\ Explained(db.feedback, db.responses)
  /\ ~late => StatusAgrees(db.feedback, db.responses)
  /\ \A w \in Writer : Acts(w) => Answers(job[w].before, job[w].after)

\* What a request wants, when it begins.
Wants(a) ==
  /\ \A s \in a.responses : s.at <= clock + 1
  /\ Explained(a.feedback \ db.feedback, a.responses \ db.responses)
  /\ ~late => /\ StatusAgrees(a.feedback, a.responses)
              /\ IdsKept(db.feedback, a.feedback) /\ db.responses \subseteq a.responses

LEMMA SameFeedbackWants ==
  ASSUME SInv, IInv, NEW a, a.feedback = db.feedback, a.responses = db.responses
  PROVE  Wants(a)
<1>1. \A s \in db.responses : s.at <= clock /\ s.at \in Nat /\ clock \in Nat
  BY ServiceAssumption DEF SInv, IInv, TypeOK, DB, Response, Time
<1>2. QED
  BY <1>1 DEF SInv, Wants, Explained, IdsKept

LEMMA FeedbackAddedWants ==
  ASSUME SInv, IInv, NEW f \in Feedback, FeedbackOpen(db, f)
  PROVE  Wants(FeedbackAdded(db, f))
<1> DEFINE row == [id |-> f, status |-> "RECEIVED", day |-> today]
           a == FeedbackAdded(db, f)
<1>1. /\ db \in DB /\ a.feedback = db.feedback \union {row} /\ a.responses = db.responses
  BY DEF IInv, TypeOK, FeedbackAdded, DB
<1>2. \A s \in db.responses : s.at <= clock /\ s.at \in Nat /\ clock \in Nat
  BY ServiceAssumption DEF SInv, IInv, TypeOK, DB, Response, Time
<1>3. \A r \in db.feedback : r.id # row.id
  BY DEF FeedbackOpen
<1>4. row.status = "RECEIVED"
  OBVIOUS
<1> HIDE DEF row, a
<1>5. Explained(a.feedback \ db.feedback, a.responses \ db.responses)
  BY <1>1, <1>4 DEF Explained
<1>6. ASSUME ~late PROVE StatusAgrees(a.feedback, a.responses)
  <2>1. StatusAgrees(db.feedback, db.responses)
    BY <1>6 DEF SInv
  <2>2. \A s \in db.responses : s.feedback # row.id
    BY <1>3, <2>1 DEF StatusAgrees
  <2>3. QED
    BY <1>1, <1>3, <2>1, <2>2 DEF StatusAgrees, UniqueIds
<1>7. QED
  BY <1>1, <1>2, <1>5, <1>6 DEF Wants, IdsKept, a

LEMMA RespondedWants ==
  ASSUME SInv, IInv, NEW r \in db.feedback, NEW decision \in Decision
  PROVE  Wants(Responded(db, r, decision, clock + 1))
<1> DEFINE status   == IF decision = "needs_more_info" THEN "NEEDS_MORE_INFO" ELSE "ANSWERED"
           response == [feedback |-> r.id, decision |-> decision, at |-> clock + 1]
           answered == [db EXCEPT !.responses = @ \union {response}]
           row      == [r EXCEPT !.status = status]
           a        == Responded(db, r, decision, clock + 1)
<1>1. db \in DB /\ r \in FeedbackRow /\ clock \in Nat
  BY ServiceAssumption DEF IInv, TypeOK, DB
<1>2. \A s \in db.responses : s.at <= clock /\ s.at \in Nat
  BY DEF SInv, IInv, TypeOK, DB, Response, Time
<1>3. /\ answered.responses = db.responses \union {response} /\ answered.feedback = db.feedback
      /\ answered = [answered EXCEPT !.feedback = answered.feedback]
      /\ a = [answered EXCEPT !.feedback = Put(db.feedback, row)]
  BY <1>1 DEF DB, Responded
<1>4. a.responses = db.responses \union {response} /\ a.feedback = Put(db.feedback, row)
  BY <1>1, <1>3 DEF DB
<1>5. row.id = r.id /\ row.status = status
  BY <1>1 DEF FeedbackRow
<1>6. response.feedback = r.id /\ response.decision = decision /\ response.at = clock + 1
  OBVIOUS
<1> HIDE DEF response, answered, row, a
<1>7. \A q \in a.feedback : q = row \/ (q \in db.feedback /\ q.id # r.id)
  BY <1>4, <1>5 DEF Put
<1>8. Following(row, response)
  BY <1>5, <1>6 DEF Following
<1>9. response \notin db.responses
  BY <1>1, <1>2, <1>6
<1>10. Explained(a.feedback \ db.feedback, a.responses \ db.responses)
  BY <1>4, <1>5, <1>6, <1>7, <1>9 DEF Explained
<1>11. ASSUME ~late PROVE StatusAgrees(a.feedback, a.responses)
  <2>1. StatusAgrees(db.feedback, db.responses)
    BY <1>11 DEF SInv
  <2>2. UniqueIds(a.feedback)
    BY <1>5, <1>7, <2>1 DEF StatusAgrees, UniqueIds
  <2>3. \A s \in a.responses : \E q \in a.feedback : q.id = s.feedback
    BY <1>4, <1>5, <1>6, <2>1 DEF StatusAgrees, Put
  <2>4. ASSUME NEW q \in a.feedback, NEW s \in a.responses, s.feedback = q.id,
               \A t \in a.responses : t.feedback = q.id => t.at <= s.at
        PROVE  Following(q, s)
    <3>1. CASE q = row
      <4>1. response.at <= s.at
        BY <1>4, <1>5, <1>6, <2>4, <3>1
      <4>2. s = response
        BY <1>1, <1>2, <1>4, <1>6, <4>1
      <4>3. QED
        BY <1>8, <3>1, <4>2
    <3>2. CASE q # row
      <4>1. q \in db.feedback /\ q.id # r.id
        BY <1>7, <3>2
      <4>2. s \in db.responses
        BY <1>4, <1>6, <2>4, <4>1
      <4>3. QED
        BY <1>4, <2>1, <2>4, <4>1, <4>2 DEF StatusAgrees
    <3>3. QED
      BY <3>1, <3>2
  <2>5. QED
    BY <2>2, <2>3, <2>4 DEF StatusAgrees
<1>12. IdsKept(db.feedback, a.feedback)
  BY <1>4, <1>5 DEF IdsKept, Put
<1>13. \A s \in a.responses : s.at <= clock + 1
  BY <1>1, <1>2, <1>4, <1>6
<1>14. QED
  BY <1>4, <1>10, <1>11, <1>12, <1>13 DEF Wants, a

\* The other mutators leave messages and responses alone.
SameFeedback(b, a) == a.feedback = b.feedback /\ a.responses = b.responses

LEMMA EntriesKeepFeedback ==
  ASSUME NEW d \in DB, NEW rows
  PROVE  SameFeedback(d, [d EXCEPT !.entries = rows]) /\ SameFeedback(d, [d EXCEPT !.cases = rows])
         /\ SameFeedback(d, [d EXCEPT !.reports = rows])
BY DEF DB, SameFeedback

LEMMA AdvisedKeepsFeedback ==
  ASSUME NEW d \in DB, NEW rows, NEW at
  PROVE  SameFeedback(d, Advised(d, rows, at))
<1> DEFINE given == {[case |-> r.id, at |-> at, day |-> today] : r \in rows}
           told  == [d EXCEPT !.advice = d.advice \union given]
           done  == (told.cases \ rows) \union {[r EXCEPT !.status = "ADVISED"] : r \in rows}
<1>1. Advised(d, rows, at) = [told EXCEPT !.cases = done]
  BY DEF Advised
<1> HIDE DEF given, done
<1>2. SameFeedback(d, [told EXCEPT !.cases = done])
  BY DEF SameFeedback, DB
<1>3. QED
  BY <1>1, <1>2

LEMMA RequestWants ==
  ASSUME IInv, SInv, NEW w \in Writer, Requested(w)
  PROVE  \E after : Wants(after) /\ Begin(w, after)
<1>1. db \in DB /\ CasesAgree(db) /\ today \in Day
  BY DEF IInv, TypeOK
<1>2. \A after : SameFeedback(db, after) => Wants(after)
  BY SameFeedbackWants DEF SameFeedback
<1>3. CASE UserRequest(w)
  <2>1. \A c \in Case : SameFeedback(db, CaseAdded(db, c))
    BY <1>1, EntriesKeepFeedback DEF CaseAdded
  <2>2. \A r \in db.cases : SameFeedback(db, CaseWithdrawn(db, r))
    BY <1>1, EntriesKeepFeedback DEF CaseWithdrawn
  <2>3. QED
    BY <1>2, <1>3, <2>1, <2>2, FeedbackAddedWants DEF UserRequest
<1>4. CASE AdviceRequest(w)
  BY <1>1, <1>2, <1>4, AdvisedKeepsFeedback DEF AdviceRequest
<1>5. CASE RunRequest(w) \/ DailyTrigger(w)
  <2>1. PICK day \in 1..today : Begin(w, AgentRan(db, day, clock + 1))
    BY <1>5, TriggerRuns
  <2> DEFINE told == Advised(db, {r \in db.cases : Advisable(db, r)}, clock + 1)
  <2>2. clock + 1 \in Time
    BY <2>1, ServiceAssumption DEF Begin, IInv, TypeOK, Time
  <2>3. told \in DB
    BY <1>1, <2>2, AdvisedFits
  <2>4. SameFeedback(db, told)
    BY <1>1, AdvisedKeepsFeedback
  <2>5. AgentRan(db, day, clock + 1) = Reported(told, day)
    BY DEF AgentRan
  <2> HIDE DEF told
  <2>6. SameFeedback(told, Reported(told, day))
    BY <2>3, EntriesKeepFeedback DEF Reported
  <2>7. SameFeedback(db, AgentRan(db, day, clock + 1))
    BY <2>4, <2>5, <2>6 DEF SameFeedback
  <2>8. QED
    BY <1>2, <2>1, <2>7
<1>6. CASE CommunityRequest(w)
  <2>1. \A fact \in Fact : SameFeedback(db, FactSaved(db, fact, clock + 1))
    BY <1>1, EntriesKeepFeedback DEF FactSaved
  <2>2. \A topic \in Topic : SameFeedback(db, TopicSaved(db, topic, clock + 1))
    BY <1>1, EntriesKeepFeedback DEF TopicSaved
  <2>3. QED
    BY <1>2, <1>6, <2>1, <2>2, RespondedWants DEF CommunityRequest
<1>7. CASE CatalogRequest(w)
  <2>1. clock + 1 \in Time
    BY <1>7, ServiceAssumption DEF CatalogRequest, Begin, IInv, TypeOK, Time
  <2>2. QED
    BY <1>1, <1>2, <1>7, <2>1, CatalogRequested DEF CatalogOnly, SameFeedback
<1>8. QED
  BY <1>3, <1>4, <1>5, <1>6, <1>7 DEF Requested

LEMMA BeginSInv ==
  ASSUME IInv, SInv, NEW w \in Writer, NEW after, Wants(after), Begin(w, after)
  PROVE  SInv'
<1> DEFINE new == [pc |-> "holds", before |-> db, after |-> after]
<1>1. /\ db' = db /\ late' = late /\ job' = [job EXCEPT ![w] = new] /\ clock' = clock + 1
      /\ clock \in Nat
  BY ServiceAssumption DEF Begin, IInv, TypeOK
<1>2. job'[w] = new /\ \A u \in Writer : u # w => job'[u] = job[u]
  BY <1>1 DEF IInv, TypeOK
<1>3. \A d \in DB : \A s \in d.responses : s.at <= clock => s.at <= clock + 1
  BY <1>1 DEF DB, Response, Time
<1>4. db \in DB /\ \A u \in Writer : job[u].after \in DB
  BY DEF IInv, TypeOK
<1>5. \A s \in db'.responses : s.at <= clock'
  BY <1>1, <1>3, <1>4 DEF SInv
<1>6. Answers(job[w].before, job[w].after)'
  BY <1>1, <1>2 DEF Wants, Answers, Explained, IdsKept, StatusAgrees, UniqueIds, Following
<1>7. ASSUME NEW u \in Writer, u # w, Acts(u)' PROVE Answers(job[u].before, job[u].after)'
  <2>1. Acts(u) /\ job'[u] = job[u]
    BY <1>2, <1>7 DEF Acts
  <2>2. Answers(job[u].before, job[u].after)
    BY <2>1 DEF SInv
  <2>3. \A s \in job[u].after.responses : s.at <= clock'
    BY <1>1, <1>3, <1>4, <2>2 DEF Answers
  <2>4. QED
    BY <1>1, <2>1, <2>2, <2>3 DEF Answers, Explained, IdsKept, StatusAgrees, UniqueIds, Following
<1>8. QED
  BY <1>1, <1>5, <1>6, <1>7 DEF SInv, Explained, StatusAgrees, UniqueIds, Following

\* No request begins: jobs end, or stay as they are, and late stays TRUE.
JobsStay ==
  \A u \in Writer : Acts(u)' =>
    Acts(u) /\ job'[u].before = job[u].before /\ job'[u].after = job[u].after

LEMMA AnswersStay ==
  ASSUME SInv, JobsStay, clock' = clock, late => late', NEW u \in Writer, Acts(u)'
  PROVE  Answers(job[u].before, job[u].after)'
<1>1. Answers(job[u].before, job[u].after)
  BY DEF SInv, JobsStay
<1>2. job'[u].before = job[u].before /\ job'[u].after = job[u].after
  BY DEF JobsStay
<1>3. QED
  BY <1>1, <1>2 DEF Answers, Explained, IdsKept, StatusAgrees, UniqueIds, Following

LEMMA BatchSInv ==
  ASSUME IInv, SInv, NEW w \in Writer, Acts(w), Batch(w), JobsStay
  PROVE  SInv'
<1> DEFINE b == job[w].before
           a == job[w].after
<1>1. /\ db' = Result(w) /\ clock' = clock
      /\ late' = (late \/ (job[w].pc = "orphan" /\ lock # w))
  BY DEF Batch, Result
<1>2. /\ db'.feedback = Upserted(db.feedback, b.feedback, a.feedback)
      /\ db'.responses = db.responses \union (a.responses \ b.responses)
  BY <1>1 DEF Result, Written
<1>3. ~late' => ~late /\ b = db
  BY <1>1, ResultRevision DEF InTime, Acts
<1>4. Answers(b, a)
  BY DEF SInv
<1> HIDE DEF a, b
<1>5. \A s \in db'.responses : s.at <= clock'
  BY <1>1, <1>2, <1>4 DEF SInv, Answers
<1>6. Explained(db'.feedback, db'.responses)
  BY <1>2, <1>4 DEF SInv, Answers, Explained, Upserted
<1>7. ASSUME ~late' PROVE StatusAgrees(db'.feedback, db'.responses)
  <2>1. /\ StatusAgrees(db.feedback, db.responses) /\ StatusAgrees(a.feedback, a.responses)
        /\ IdsKept(db.feedback, a.feedback) /\ db.responses \subseteq a.responses
    BY <1>3, <1>4, <1>7 DEF SInv, Answers
  <2>2. db'.feedback = a.feedback
    BY <1>2, <1>3, <1>7, <2>1, UpsertedIsAfter DEF StatusAgrees
  <2>3. db'.responses = a.responses
    BY <1>2, <1>3, <1>7, <2>1
  <2>4. QED
    BY <2>1, <2>2, <2>3
<1>8. \A u \in Writer : Acts(u)' => Answers(job[u].before, job[u].after)'
  BY <1>1, AnswersStay
<1>9. QED
  BY <1>5, <1>6, <1>7, <1>8 DEF SInv, Explained, StatusAgrees, UniqueIds, Following

LEMMA NextSInv == IInv /\ SInv /\ [Next]_vars => SInv'
<1> SUFFICES ASSUME IInv, SInv, [Next]_vars PROVE SInv'
  OBVIOUS
<1>1. job \in [Writer -> JobType] /\ Fallback \subseteq Writer /\ NoJob.pc = "idle"
  BY DEF IInv, TypeOK, JobType, Writer, NoJob
<1>2. ASSUME NEW w \in Writer, Requested(w) PROVE SInv'
  BY <1>2, RequestWants, BeginSInv
<1>3. ASSUME NEW w \in Writer, Commit(w) PROVE SInv'
  BY <1>1, <1>3, BatchSInv DEF Commit, JobsStay, Acts, JobType
<1>4. ASSUME NEW w \in Fallback, Land(w) PROVE SInv'
  BY <1>1, <1>4, BatchSInv DEF Land, JobsStay, Acts, JobType
<1>5. ASSUME JobsStay, UNCHANGED <<db, clock, late>> PROVE SInv'
  <2>1. \A u \in Writer : Acts(u)' => Answers(job[u].before, job[u].after)'
    BY <1>5, AnswersStay
  <2>2. QED
    BY <1>5, <2>1 DEF SInv, Explained, StatusAgrees, UniqueIds, Following
<1>6. ASSUME NEW w \in Writer, Release(w) \/ Die(w) \/ Kill(w) \/ Vanish(w) PROVE JobsStay
  <2>1. job' = [job EXCEPT ![w] = NoJob] \/ (Acts(w) /\ job' = [job EXCEPT ![w].pc = "orphan"])
    BY <1>6 DEF Release, Die, Kill, Vanish, Acts
  <2>2. QED
    BY <1>1, <2>1 DEF JobsStay, Acts, JobType
<1>7. CASE Expire \/ NextDay \/ UNCHANGED vars
  BY <1>5, <1>7 DEF Expire, NextDay, vars, JobsStay, Acts
<1>8. ASSUME NEW w \in Writer, Release(w) \/ Die(w) \/ Kill(w) \/ Vanish(w) PROVE SInv'
  BY <1>5, <1>6, <1>8 DEF Release, Die, Kill, Vanish
<1>9. QED
  BY <1>1, <1>2, <1>3, <1>4, <1>7, <1>8 DEF Next, Writer, Requested

LEMMA SpecSInv == Spec => []SInv
<1>1. Init => SInv
  BY DEF Init, SInv, NoRows, NoJob, Acts, Explained, StatusAgrees, UniqueIds
<1>2. QED
  BY <1>1, NextSInv, SpecIInv, PTL DEF Spec

\* The status of a message follows its latest response; when a batch was late,
\* some response still explains it (respondCommunityFeedback).
THEOREM StatusFollows == Spec => []StatusFollowsResponses
<1>1. SInv => StatusFollowsResponses
  BY DEF SInv, Explained, StatusAgrees, Following, StatusFollowsResponses
<1>2. QED
  BY <1>1, SpecSInv, PTL

-----------------------------------------------------------------------------
(* Companies and ballots *)

UniqueCatalog(d) ==
  /\ \A c, g \in d.companies : c.name = g.name => c = g
  /\ \A b, c \in d.ballots : BallotKey(b) = BallotKey(c) => b = c

SameCatalog(b, a) == a.companies = b.companies /\ a.ballots = b.ballots

\* No company goes, and one ballot at most.
CatalogStep(b, a) ==
  /\ UniqueCatalog(a) /\ b.companies \subseteq a.companies
  /\ \A x, y \in b.ballots \ a.ballots : x = y

CInv ==
  /\ UniqueCatalog(db)
  /\ \A w \in Writer : Acts(w) =>
       /\ w \in Fallback => SameCatalog(job[w].before, job[w].after)
       /\ w \in Worker => SameCatalog(db, job[w].before) /\ CatalogStep(db, job[w].after)

LEMMA CatalogRequestSteps ==
  ASSUME IInv, CInv, NEW w \in Writer, CatalogRequest(w)
  PROVE  \E after : CatalogStep(db, after) /\ Begin(w, after)
<1>1. db \in DB /\ UniqueCatalog(db)
  BY DEF IInv, TypeOK, CInv
<1>2. ASSUME NEW name \in Name
      PROVE  CatalogStep(db, CompanyAdded(db, name, clock + 1))
  <2> DEFINE company == [id |-> clock + 1, name |-> name]
             after   == CompanyAdded(db, name, clock + 1)
  <2>1. CASE \E c \in db.companies : c.name = name
    BY <1>1, <2>1 DEF CompanyAdded, CatalogStep
  <2>2. CASE \A c \in db.companies : c.name # name
    <3>1. after.companies = db.companies \union {company} /\ after.ballots = db.ballots
      BY <1>1, <2>2 DEF CompanyAdded, DB
    <3>2. company.name = name
      OBVIOUS
    <3> HIDE DEF company, after
    <3>3. CatalogStep(db, after)
      BY <1>1, <2>2, <3>1, <3>2 DEF CatalogStep, UniqueCatalog
    <3>4. QED
      BY <3>3 DEF after
  <2>3. QED
    BY <2>1, <2>2
<1>3. ASSUME NEW ballot \in Ballot
      PROVE  /\ CatalogStep(db, BallotCast(db, ballot))
             /\ CatalogStep(db, BallotTakenBack(db, BallotKey(ballot)))
  <2> DEFINE others == {b \in db.ballots : BallotKey(b) # BallotKey(ballot)}
             cast   == BallotCast(db, ballot)
             taken  == BallotTakenBack(db, BallotKey(ballot))
  <2>1. /\ cast.companies = db.companies /\ cast.ballots = others \union {ballot}
        /\ taken.companies = db.companies /\ taken.ballots = others
    BY <1>1 DEF BallotCast, BallotTakenBack, DB
  <2> HIDE DEF cast, taken
  <2>2. CatalogStep(db, cast) /\ CatalogStep(db, taken)
    BY <1>1, <2>1 DEF CatalogStep, UniqueCatalog
  <2>3. QED
    BY <2>2 DEF cast, taken
<1>4. QED
  BY <1>2, <1>3 DEF CatalogRequest

\* The other mutators leave companies and ballots alone.
LEMMA RowsKeepCatalog ==
  ASSUME NEW d \in DB, NEW rows
  PROVE  /\ SameCatalog(d, [d EXCEPT !.entries = rows]) /\ SameCatalog(d, [d EXCEPT !.cases = rows])
         /\ SameCatalog(d, [d EXCEPT !.reports = rows]) /\ SameCatalog(d, [d EXCEPT !.feedback = rows])
BY DEF DB, SameCatalog

LEMMA RespondedKeepsCatalog ==
  ASSUME NEW d \in DB, NEW r \in d.feedback, NEW decision, NEW at
  PROVE  SameCatalog(d, Responded(d, r, decision, at))
<1> DEFINE status   == IF decision = "needs_more_info" THEN "NEEDS_MORE_INFO" ELSE "ANSWERED"
           response == [feedback |-> r.id, decision |-> decision, at |-> at]
           answered == [d EXCEPT !.responses = d.responses \union {response}]
           rows     == Put(answered.feedback, [r EXCEPT !.status = status])
<1>1. Responded(d, r, decision, at) = [answered EXCEPT !.feedback = rows]
  BY DEF Responded
<1> HIDE DEF response, rows
<1>2. SameCatalog(d, [answered EXCEPT !.feedback = rows])
  BY DEF SameCatalog, DB
<1>3. QED
  BY <1>1, <1>2

LEMMA AdvisedKeepsCatalog ==
  ASSUME NEW d \in DB, NEW rows, NEW at
  PROVE  SameCatalog(d, Advised(d, rows, at))
<1> DEFINE given == {[case |-> r.id, at |-> at, day |-> today] : r \in rows}
           told  == [d EXCEPT !.advice = d.advice \union given]
           done  == (told.cases \ rows) \union {[r EXCEPT !.status = "ADVISED"] : r \in rows}
<1>1. Advised(d, rows, at) = [told EXCEPT !.cases = done]
  BY DEF Advised
<1> HIDE DEF given, done
<1>2. SameCatalog(d, [told EXCEPT !.cases = done])
  BY DEF SameCatalog, DB
<1>3. QED
  BY <1>1, <1>2

LEMMA RequestSteps ==
  ASSUME IInv, CInv, NEW w \in Writer, Requested(w)
  PROVE  \E after : /\ Begin(w, after) /\ CatalogStep(db, after)
                    /\ w \in Fallback => SameCatalog(db, after)
<1>1. db \in DB /\ CasesAgree(db) /\ today \in Day /\ UniqueCatalog(db)
  BY DEF IInv, TypeOK, CInv
<1>2. \A after : SameCatalog(db, after) => CatalogStep(db, after)
  BY <1>1 DEF SameCatalog, CatalogStep, UniqueCatalog
<1>3. CASE UserRequest(w)
  <2>1. \A c \in Case : SameCatalog(db, CaseAdded(db, c))
    BY <1>1, RowsKeepCatalog DEF CaseAdded
  <2>2. \A r \in db.cases : SameCatalog(db, CaseWithdrawn(db, r))
    BY <1>1, RowsKeepCatalog DEF CaseWithdrawn
  <2>3. \A f \in Feedback : SameCatalog(db, FeedbackAdded(db, f))
    BY <1>1, RowsKeepCatalog DEF FeedbackAdded
  <2>4. QED
    BY <1>2, <1>3, <2>1, <2>2, <2>3 DEF UserRequest
<1>4. CASE AdviceRequest(w)
  BY <1>1, <1>2, <1>4, AdvisedKeepsCatalog DEF AdviceRequest
<1>5. CASE RunRequest(w) \/ DailyTrigger(w)
  <2>1. PICK day \in 1..today : Begin(w, AgentRan(db, day, clock + 1))
    BY <1>5, TriggerRuns
  <2> DEFINE told == Advised(db, {r \in db.cases : Advisable(db, r)}, clock + 1)
  <2>2. clock + 1 \in Time
    BY <2>1, ServiceAssumption DEF Begin, IInv, TypeOK, Time
  <2>3. told \in DB
    BY <1>1, <2>2, AdvisedFits
  <2>4. SameCatalog(db, told)
    BY <1>1, AdvisedKeepsCatalog
  <2>5. AgentRan(db, day, clock + 1) = Reported(told, day)
    BY DEF AgentRan
  <2> HIDE DEF told
  <2>6. SameCatalog(told, Reported(told, day))
    BY <2>3, RowsKeepCatalog DEF Reported
  <2>7. SameCatalog(db, AgentRan(db, day, clock + 1))
    BY <2>4, <2>5, <2>6 DEF SameCatalog
  <2>8. QED
    BY <1>2, <2>1, <2>7
<1>6. CASE CommunityRequest(w)
  <2>1. \A fact \in Fact : SameCatalog(db, FactSaved(db, fact, clock + 1))
    BY <1>1, RowsKeepCatalog DEF FactSaved
  <2>2. \A topic \in Topic : SameCatalog(db, TopicSaved(db, topic, clock + 1))
    BY <1>1, RowsKeepCatalog DEF TopicSaved
  <2>3. QED
    BY <1>1, <1>2, <1>6, <2>1, <2>2, RespondedKeepsCatalog DEF CommunityRequest
<1>7. CASE w \in Worker /\ CatalogRequest(w)
  BY <1>7, CatalogRequestSteps, ServiceAssumption
<1>8. QED
  BY <1>3, <1>4, <1>5, <1>6, <1>7 DEF Requested

\* A batch of the Worker leaves the companies and ballots it wants, one of the
\* fallback those that are there.
LEMMA ResultCatalog ==
  ASSUME IInv, CInv, NEW w \in Writer, Acts(w)
  PROVE  CatalogStep(db, Result(w)) /\ (w \in Fallback => SameCatalog(db, Result(w)))
<1> DEFINE b == job[w].before
           a == job[w].after
           new == Result(w)
<1>1. /\ new.companies = db.companies \union (a.companies \ b.companies)
      /\ new.ballots = BallotsReplaced(db.ballots, b.ballots, a.ballots)
  BY DEF Result, Written
<1>2. UniqueCatalog(db) /\ (w \in Worker \/ w \in Fallback)
  BY DEF CInv, Writer
<1> HIDE DEF new
<1>3. CASE w \in Fallback
  <2>1. SameCatalog(b, a)
    BY <1>3 DEF CInv
  <2>2. SameCatalog(db, new)
    BY <1>1, <2>1 DEF SameCatalog, BallotsReplaced
  <2>3. QED
    BY <1>2, <2>2 DEF SameCatalog, CatalogStep, UniqueCatalog, new
<1>4. CASE w \in Worker
  <2>1. SameCatalog(db, b) /\ CatalogStep(db, a) /\ w \notin Fallback
    BY <1>4, ServiceAssumption DEF CInv
  <2> HIDE DEF a, b
  <2>2. new.companies = a.companies
    BY <1>1, <2>1 DEF SameCatalog, CatalogStep
  <2>3. new.ballots = a.ballots
    BY <1>1, <1>2, <2>1 DEF SameCatalog, CatalogStep, UniqueCatalog, BallotsReplaced
  <2>4. QED
    BY <2>1, <2>2, <2>3 DEF CatalogStep, UniqueCatalog, new
<1>5. QED
  BY <1>2, <1>3, <1>4

LEMMA BatchCInv ==
  ASSUME IInv, CInv, NEW w \in Writer, Acts(w), Batch(w), JobsStay, ~Acts(w)'
  PROVE  CInv'
<1>1. db' = Result(w)
  BY DEF Batch, Result
<1>2. CatalogStep(db, db') /\ (w \in Fallback => SameCatalog(db, db'))
  BY <1>1, ResultCatalog
<1>3. UniqueCatalog(db)'
  BY <1>2 DEF CatalogStep, UniqueCatalog
<1>4. ASSUME NEW u \in Writer, Acts(u)', u \in Worker
      PROVE  SameCatalog(db, db')
  <2>1. Acts(u) /\ u # w
    BY <1>4 DEF JobsStay
  <2>2. LockFits(u) /\ LockFits(w) /\ JobFits(u) /\ JobFits(w)
    BY DEF IInv
  <2>3. w \notin Worker
    BY <1>4, <2>1, <2>2 DEF LockFits, JobFits, Acts
  <2>4. QED
    BY <1>2, <2>3 DEF Writer
<1>5. QED
  BY <1>3, <1>4 DEF CInv, JobsStay, SameCatalog, CatalogStep, UniqueCatalog

LEMMA NextCInv == IInv /\ CInv /\ [Next]_vars => CInv'
<1> SUFFICES ASSUME IInv, CInv, [Next]_vars PROVE CInv'
  OBVIOUS
<1>1. job \in [Writer -> JobType] /\ Fallback \subseteq Writer /\ NoJob.pc = "idle"
  BY DEF IInv, TypeOK, JobType, Writer, NoJob
<1>2. ASSUME NEW w \in Writer, Requested(w) PROVE CInv'
  <2>1. PICK after : /\ Begin(w, after) /\ CatalogStep(db, after)
                     /\ w \in Fallback => SameCatalog(db, after)
    BY <1>2, RequestSteps
  <2> DEFINE new == [pc |-> "holds", before |-> db, after |-> after]
  <2>2. /\ db' = db /\ job'[w] = new
        /\ \A u \in Writer : u # w => job'[u] = job[u]
    BY <1>1, <2>1 DEF Begin
  <2>3. QED
    BY <2>1, <2>2 DEF CInv, Acts, SameCatalog, CatalogStep, UniqueCatalog
<1>3. ASSUME NEW w \in Writer, Commit(w) PROVE CInv'
  BY <1>1, <1>3, BatchCInv DEF Commit, JobsStay, Acts, JobType
<1>4. ASSUME NEW w \in Fallback, Land(w) PROVE CInv'
  BY <1>1, <1>4, BatchCInv DEF Land, JobsStay, Acts, JobType
<1>5. ASSUME JobsStay, db' = db PROVE CInv'
  BY <1>5 DEF CInv, JobsStay, SameCatalog, CatalogStep, UniqueCatalog
<1>6. ASSUME NEW w \in Writer, Release(w) \/ Die(w) \/ Kill(w) \/ Vanish(w) PROVE CInv'
  <2>1. job' = [job EXCEPT ![w] = NoJob] \/ (Acts(w) /\ job' = [job EXCEPT ![w].pc = "orphan"])
    BY <1>6 DEF Release, Die, Kill, Vanish, Acts
  <2>2. JobsStay
    BY <1>1, <2>1 DEF JobsStay, Acts, JobType
  <2>3. QED
    BY <1>5, <1>6, <2>2 DEF Release, Die, Kill, Vanish
<1>7. CASE Expire \/ NextDay \/ UNCHANGED vars
  BY <1>5, <1>7 DEF Expire, NextDay, vars, JobsStay, Acts
<1>8. QED
  BY <1>1, <1>2, <1>3, <1>4, <1>6, <1>7 DEF Next, Writer, Requested

LEMMA SpecCInv == Spec => []CInv
<1>1. Init => CInv
  BY DEF Init, CInv, NoRows, NoJob, Acts, UniqueCatalog
<1>2. QED
  BY <1>1, NextCInv, SpecIInv, PTL DEF Spec

\* A request that is executed twice, by whatever way, leaves one row per key:
\* company, ballot, announcement, daily run or fact; after a late batch this is
\* still so for all but announcements and daily runs (addCompany, setBallot,
\* upsertOfficialReferences, addPublicAnnouncement).
THEOREM KeysAreUnique == Spec => []OneRowPerKey
<1>1. IInv /\ CInv => OneRowPerKey
  BY DEF IInv, CInv, UniqueCatalog, EntryKeys, OneRowPerKey
<1>2. QED
  BY <1>1, SpecIInv, SpecCInv, PTL

\* No batch, late or not, makes a row disappear, or
\* more than one ballot (transaction, persistAllowedDiff).
THEOREM RowsAreKept == Spec => NothingIsErased
<1>1. ASSUME IInv, CInv, [Next]_vars PROVE RowsStay
  <2>1. CASE db' = db
    BY <2>1 DEF RowsStay
  <2>2. CASE db' # db
    <3>1. PICK w \in Writer : Acts(w) /\ db' = Result(w)
      BY <1>1, <2>2, OnlyBatches
    <3>2. /\ IdsKept(db.feedback, db'.feedback) /\ IdsKept(db.cases, db'.cases)
          /\ IdsKept(db.entries, db'.entries)
      BY <3>1, UpsertedKeepsIds DEF Result, Written
    <3>3. db.responses \subseteq db'.responses /\ db.advice \subseteq db'.advice
      BY <3>1 DEF Result, Written
    <3>4. CatalogStep(db, db')
      BY <1>1, <3>1, ResultCatalog
    <3>5. QED
      BY <3>2, <3>3, <3>4 DEF RowsStay, IdsKept, CatalogStep
  <2>3. QED
    BY <2>1, <2>2
<1>2. IInv /\ CInv /\ [Next]_vars => [RowsStay]_vars
  BY <1>1
<1>3. QED
  BY <1>2, SpecIInv, SpecCInv, PTL DEF Spec, NothingIsErased

-----------------------------------------------------------------------------
(* Both ways are one writer *)

\* What a request may make of the rows that have an id: one more, or another
\* in the place of one.
OneRowPut(b, a) == a = b \/ \E row : a = Put(b, row)
OneRowEach(b, a) == OneRowPut(b.entries, a.entries) /\ OneRowPut(b.reports, a.reports)

Extends(b, a) ==
  /\ UniqueIds(a.entries) /\ IdsKept(b.entries, a.entries)
  /\ UniqueIds(a.reports) /\ IdsKept(b.reports, a.reports)

WInv ==
  /\ UniqueIds(db.reports)
  /\ \A w \in Writer : Acts(w) => Extends(job[w].before, job[w].after)

LEMMA PutExtends ==
  ASSUME NEW b, NEW a, UniqueIds(b), OneRowPut(b, a)
  PROVE  UniqueIds(a) /\ IdsKept(b, a)
BY DEF UniqueIds, IdsKept, OneRowPut, Put

\* The fields a mutator may set, one at a time.
LEMMA FieldsOneRowEach ==
  ASSUME NEW d \in DB, NEW rows, NEW row
  PROVE  /\ OneRowEach(d, d)
         /\ OneRowEach(d, [d EXCEPT !.companies = rows]) /\ OneRowEach(d, [d EXCEPT !.ballots = rows])
         /\ OneRowEach(d, [d EXCEPT !.feedback = rows]) /\ OneRowEach(d, [d EXCEPT !.cases = rows])
         /\ OneRowEach(d, [d EXCEPT !.entries = Put(d.entries, row)])
         /\ OneRowEach(d, [d EXCEPT !.reports = Put(d.reports, row)])
BY DEF DB, OneRowEach, OneRowPut

LEMMA RespondedOneRowEach ==
  ASSUME NEW d \in DB, NEW r \in d.feedback, NEW decision, NEW at
  PROVE  OneRowEach(d, Responded(d, r, decision, at))
<1> DEFINE status   == IF decision = "needs_more_info" THEN "NEEDS_MORE_INFO" ELSE "ANSWERED"
           response == [feedback |-> r.id, decision |-> decision, at |-> at]
           answered == [d EXCEPT !.responses = d.responses \union {response}]
           rows     == Put(answered.feedback, [r EXCEPT !.status = status])
<1>1. Responded(d, r, decision, at) = [answered EXCEPT !.feedback = rows]
  BY DEF Responded
<1> HIDE DEF response, rows
<1>2. OneRowEach(d, [answered EXCEPT !.feedback = rows])
  BY DEF OneRowEach, OneRowPut, DB
<1>3. QED
  BY <1>1, <1>2

LEMMA AdvisedSameRows ==
  ASSUME NEW d \in DB, NEW rows, NEW at
  PROVE  Advised(d, rows, at).entries = d.entries /\ Advised(d, rows, at).reports = d.reports
<1> DEFINE given == {[case |-> r.id, at |-> at, day |-> today] : r \in rows}
           told  == [d EXCEPT !.advice = d.advice \union given]
           done  == (told.cases \ rows) \union {[r EXCEPT !.status = "ADVISED"] : r \in rows}
<1>1. Advised(d, rows, at) = [told EXCEPT !.cases = done]
  BY DEF Advised
<1> HIDE DEF given, done
<1>2. [told EXCEPT !.cases = done].entries = d.entries /\ [told EXCEPT !.cases = done].reports = d.reports
  BY DEF DB
<1>3. QED
  BY <1>1, <1>2

LEMMA RequestExtends ==
  ASSUME IInv, WInv, NEW w \in Writer, Requested(w)
  PROVE  \E after : Begin(w, after) /\ Extends(db, after)
<1>1. /\ db \in DB /\ today \in Day /\ CasesAgree(db)
      /\ UniqueIds(db.entries) /\ UniqueIds(db.reports)
  BY DEF IInv, TypeOK, WInv
<1>2. \A after : OneRowEach(db, after) => Extends(db, after)
  BY <1>1, PutExtends DEF OneRowEach, Extends
<1>3. CASE UserRequest(w)
  <2>1. \A c \in Case : OneRowEach(db, CaseAdded(db, c))
    BY <1>1, FieldsOneRowEach DEF CaseAdded
  <2>2. \A r \in db.cases : OneRowEach(db, CaseWithdrawn(db, r))
    BY <1>1, FieldsOneRowEach DEF CaseWithdrawn
  <2>3. \A f \in Feedback : OneRowEach(db, FeedbackAdded(db, f))
    BY <1>1, FieldsOneRowEach DEF FeedbackAdded
  <2>4. QED
    BY <1>2, <1>3, <2>1, <2>2, <2>3 DEF UserRequest
<1>4. CASE AdviceRequest(w)
  <2>1. \A r \in db.cases : OneRowEach(db, Advised(db, {r}, clock + 1))
    BY <1>1, AdvisedSameRows DEF OneRowEach, OneRowPut
  <2>2. QED
    BY <1>2, <1>4, <2>1 DEF AdviceRequest
<1>5. CASE RunRequest(w) \/ DailyTrigger(w)
  <2>1. PICK day \in 1..today : Begin(w, AgentRan(db, day, clock + 1))
    BY <1>5, TriggerRuns
  <2> DEFINE told == Advised(db, {r \in db.cases : Advisable(db, r)}, clock + 1)
  <2>2. clock + 1 \in Time
    BY <2>1, ServiceAssumption DEF Begin, IInv, TypeOK, Time
  <2>3. told \in DB /\ told.entries = db.entries /\ told.reports = db.reports
    <3>1. told \in DB
      BY <1>1, <2>2, AdvisedFits
    <3>2. told.entries = db.entries /\ told.reports = db.reports
      BY <1>1, AdvisedSameRows
    <3>3. QED
      BY <3>1, <3>2
  <2>4. AgentRan(db, day, clock + 1) = Reported(told, day)
    BY DEF AgentRan
  <2> HIDE DEF told
  <2>5. OneRowEach(told, Reported(told, day))
    BY <2>3, FieldsOneRowEach DEF Reported
  <2>6. OneRowEach(db, AgentRan(db, day, clock + 1))
    BY <2>3, <2>4, <2>5 DEF OneRowEach
  <2>7. QED
    BY <1>2, <2>1, <2>6
<1>6. CASE CommunityRequest(w)
  <2>1. \A fact \in Fact : OneRowEach(db, FactSaved(db, fact, clock + 1))
    BY <1>1, FieldsOneRowEach DEF FactSaved
  <2>2. \A topic \in Topic : OneRowEach(db, TopicSaved(db, topic, clock + 1))
    BY <1>1, FieldsOneRowEach DEF TopicSaved
  <2>3. QED
    BY <1>1, <1>2, <1>6, <2>1, <2>2, RespondedOneRowEach DEF CommunityRequest
<1>7. CASE CatalogRequest(w)
  <2>1. \A name \in Name : OneRowEach(db, CompanyAdded(db, name, clock + 1))
    BY <1>1, FieldsOneRowEach DEF CompanyAdded
  <2>2. \A ballot \in Ballot : /\ OneRowEach(db, BallotCast(db, ballot))
                               /\ OneRowEach(db, BallotTakenBack(db, BallotKey(ballot)))
    BY <1>1, FieldsOneRowEach DEF BallotCast, BallotTakenBack
  <2>3. QED
    BY <1>2, <1>7, <2>1, <2>2 DEF CatalogRequest
<1>8. QED
  BY <1>3, <1>4, <1>5, <1>6, <1>7 DEF Requested

\* A batch leaves the reports of the Worker, or those that are there.
LEMMA ResultReports ==
  ASSUME IInv, WInv, NEW w \in Writer, Acts(w)
  PROVE  /\ UniqueIds(Result(w).reports)
         /\ job[w].before = db => Result(w).reports = job[w].after.reports
<1> DEFINE b == job[w].before
           a == job[w].after
           new == Result(w)
<1>1. new.reports = Upserted(db.reports, b.reports, a.reports)
  BY DEF Result, Written
<1>2. /\ UniqueIds(db.reports) /\ UniqueIds(a.reports) /\ IdsKept(b.reports, a.reports)
      /\ JobFits(w) /\ (w \in Worker \/ w \in Fallback)
  BY DEF WInv, Extends, IInv, Writer
<1> HIDE DEF new
<1>3. CASE w \in Fallback
  <2>1. a.reports = b.reports
    BY <1>2, <1>3 DEF JobFits, Acts, SameCases
  <2>2. new.reports = db.reports
    BY <1>1, <2>1 DEF Upserted
  <2>3. QED
    BY <1>2, <2>1, <2>2 DEF new
<1>4. CASE w \in Worker
  <2>1. b.reports = db.reports
    BY <1>2, <1>4 DEF JobFits, Acts, SameCases
  <2>2. new.reports = a.reports
    BY <1>1, <1>2, <2>1, UpsertedIsAfter
  <2>3. QED
    BY <1>2, <2>2 DEF new
<1>5. QED
  BY <1>2, <1>3, <1>4

LEMMA NextWInv == IInv /\ WInv /\ [Next]_vars => WInv'
<1> SUFFICES ASSUME IInv, WInv, [Next]_vars PROVE WInv'
  OBVIOUS
<1>1. job \in [Writer -> JobType] /\ Fallback \subseteq Writer /\ NoJob.pc = "idle"
  BY DEF IInv, TypeOK, JobType, Writer, NoJob
<1>2. ASSUME NEW w \in Writer, Requested(w) PROVE WInv'
  <2>1. PICK after : Begin(w, after) /\ Extends(db, after)
    BY <1>2, RequestExtends
  <2> DEFINE new == [pc |-> "holds", before |-> db, after |-> after]
  <2>2. /\ db' = db /\ job'[w] = new
        /\ \A u \in Writer : u # w => job'[u] = job[u]
    BY <1>1, <2>1 DEF Begin
  <2>3. QED
    BY <2>1, <2>2 DEF WInv, Acts, Extends, UniqueIds, IdsKept
<1>3. ASSUME JobsStay, UniqueIds(db'.reports) PROVE WInv'
  BY <1>3 DEF WInv, JobsStay, Extends, UniqueIds, IdsKept
<1>4. ASSUME NEW w \in Writer, Acts(w), Batch(w), JobsStay PROVE WInv'
  <2>1. db' = Result(w)
    BY <1>4 DEF Batch, Result
  <2>2. QED
    BY <1>3, <1>4, <2>1, ResultReports
<1>5. ASSUME NEW w \in Writer, Commit(w) PROVE WInv'
  BY <1>1, <1>4, <1>5 DEF Commit, JobsStay, Acts, JobType
<1>6. ASSUME NEW w \in Fallback, Land(w) PROVE WInv'
  BY <1>1, <1>4, <1>6 DEF Land, JobsStay, Acts, JobType
<1>7. ASSUME NEW w \in Writer, Release(w) \/ Die(w) \/ Kill(w) \/ Vanish(w) PROVE WInv'
  <2>1. job' = [job EXCEPT ![w] = NoJob] \/ (Acts(w) /\ job' = [job EXCEPT ![w].pc = "orphan"])
    BY <1>7 DEF Release, Die, Kill, Vanish, Acts
  <2>2. JobsStay /\ db' = db
    BY <1>1, <1>7, <2>1 DEF JobsStay, Acts, JobType, Release, Die, Kill, Vanish
  <2>3. QED
    BY <1>3, <2>2 DEF WInv
<1>8. CASE Expire \/ NextDay \/ UNCHANGED vars
  BY <1>3, <1>8 DEF WInv, Expire, NextDay, vars, JobsStay, Acts
<1>9. QED
  BY <1>1, <1>2, <1>5, <1>6, <1>7, <1>8 DEF Next, Writer, Requested

LEMMA SpecWInv == Spec => []WInv
<1>1. Init => WInv
  BY DEF Init, WInv, NoRows, NoJob, Acts, UniqueIds
<1>2. QED
  BY <1>1, NextWInv, SpecIInv, PTL DEF Spec

\* What the batch of a writer leaves that read what is there.
LEMMA ResultIsAfter ==
  ASSUME IInv, CInv, SInv, WInv, NEW w \in Writer, Acts(w), ~late, InTime(w)
  PROVE  Result(w) = [job[w].after EXCEPT !.revision = db.revision + 1]
<1> DEFINE a == job[w].after
           new == Result(w)
<1>1. job[w].before = db /\ new.revision = db.revision + 1
  BY ResultRevision
<1>2. /\ new.companies = db.companies \union (a.companies \ db.companies)
      /\ new.ballots = BallotsReplaced(db.ballots, db.ballots, a.ballots)
      /\ new.feedback = Upserted(db.feedback, db.feedback, a.feedback)
      /\ new.responses = db.responses \union (a.responses \ db.responses)
      /\ new.entries = Upserted(db.entries, db.entries, a.entries)
      /\ new.cases = Upserted(db.cases, db.cases, a.cases)
      /\ new.advice = db.advice \union (a.advice \ db.advice)
  BY <1>1 DEF Result, Written
<1>3. new \in DB /\ a \in DB
  BY ResultType DEF IInv, TypeOK
<1>4. w \in Worker \/ w \in Fallback
  BY DEF Writer
<1>5. UniqueCatalog(a) /\ UniqueCatalog(db) /\ db.companies \subseteq a.companies
  BY <1>1, <1>4 DEF CInv, SameCatalog, CatalogStep, UniqueCatalog
<1>6. /\ Answers(db, a) /\ StatusAgrees(db.feedback, db.responses)
  BY <1>1 DEF SInv
<1>7. /\ UniqueIds(db.cases) /\ UniqueIds(a.cases) /\ IdsKept(db.cases, a.cases)
      /\ db.advice \subseteq a.advice
  <2>1. JobFits(w) /\ CasesAgree(db)
    BY DEF IInv
  <2>2. CASE w \in Worker
    BY <1>1, <2>1, <2>2 DEF JobFits, Acts, CaseStep, CasesAgree
  <2>3. CASE w \in Fallback
    BY <1>1, <2>1, <2>3 DEF JobFits, Acts, SameCases, CasesAgree, IdsKept
  <2>4. QED
    BY <1>4, <2>2, <2>3
<1>8. UniqueIds(db.entries) /\ Extends(db, a)
  BY <1>1 DEF IInv, WInv
<1>9. new.reports = a.reports
  BY <1>1, ResultReports
<1> HIDE DEF a, new
<1>10. new.companies = a.companies
  BY <1>2, <1>5
<1>11. new.ballots = a.ballots
  BY <1>2, <1>5 DEF UniqueCatalog, BallotsReplaced
<1>12. new.feedback = a.feedback /\ new.responses = a.responses
  BY <1>2, <1>6, UpsertedIsAfter DEF Answers, StatusAgrees
<1>13. new.entries = a.entries
  BY <1>2, <1>8, UpsertedIsAfter DEF Extends
<1>14. new.cases = a.cases /\ new.advice = a.advice
  BY <1>2, <1>7, UpsertedIsAfter
<1>15. new = [a EXCEPT !.revision = db.revision + 1]
  BY <1>1, <1>3, <1>9, <1>10, <1>11, <1>12, <1>13, <1>14 DEF DB
<1>16. QED
  BY <1>15 DEF a, new

\* Any number of Workers and fallbacks are as good as one writer until a batch is
\* late: each write is a whole request on the rows that are there (transaction,
\* persistAllowedDiff).
THEOREM TwoWaysAreOne == Spec => WritesAreSerial
<1> DEFINE Serial ==
      ~late' => \/ UNCHANGED db
                \/ \E w \in Writer : /\ job[w].before = db
                                     /\ db' = [job[w].after EXCEPT !.revision = db.revision + 1]
<1>1. ASSUME IInv, CInv, SInv, WInv, [Next]_vars PROVE Serial
  <2>1. CASE db' # db /\ ~late'
    <3>1. PICK w \in Writer : Acts(w) /\ Batch(w)
      BY <1>1, <2>1 DEF Next, vars, CatalogRequest, UserRequest, AdviceRequest, RunRequest, DailyTrigger,
         CommunityRequest, Begin, Commit, Release, Die, Kill, Land, Vanish, Expire, NextDay, Acts, Writer
    <3>2. db' = Result(w) /\ ~late /\ InTime(w)
      BY <2>1, <3>1 DEF Batch, Result, InTime, Acts
    <3>3. job[w].before = db /\ db' = [job[w].after EXCEPT !.revision = db.revision + 1]
      BY <1>1, <3>1, <3>2, ResultRevision, ResultIsAfter
    <3>4. QED
      BY <3>3
  <2>2. QED
    BY <2>1
<1>2. IInv /\ CInv /\ SInv /\ WInv /\ [Next]_vars => [Serial]_vars
  BY <1>1
<1>3. QED
  BY <1>2, SpecIInv, SpecCInv, SpecSInv, SpecWInv, PTL DEF Spec, WritesAreSerial
=============================================================================
