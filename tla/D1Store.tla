------------------------------ MODULE D1Store ------------------------------
(***************************************************************************)
(* cloudflare-backend/src/d1-store.mjs: the production store.  Worker      *)
(* isolates share one D1 database: the row ltp_write_lock('state') is a    *)
(* lease of lockMs, ltp_meta holds the revision, ltp_records the records.  *)
(* A transaction is six separate database calls, between any two of which  *)
(* other isolates run, the isolate may die, and time passes.               *)
(*                                                                         *)
(* Time is counted in ticks and kept relative to the present: left is      *)
(* expires_at - Date.now() of the lock row, age the time since an          *)
(* acquisition read Date.now().                                            *)
(***************************************************************************)
EXTENDS Integers, FiniteSets

CONSTANTS Proc,          \* isolates that run transactions
          Key,           \* the records of the state
          LockMs,        \* length of the lease, in ticks
          LockRetries,   \* attempts before a writer gets status 503
          MaxTxn,        \* bound: transactions that get the lock, per isolate
          MaxStall,      \* longest time from a writer's Date.now() to its batch; a
                 \* transaction outlives its lease only if MaxStall > LockMs
          NoHolder       \* "the lock row does not exist"

Tx == Proc \X (1..MaxTxn)

ASSUME ConstantsAssumption ==
  /\ LockMs \in Nat \ {0}
  /\ LockRetries \in Nat \ {0}
  /\ MaxTxn \in Nat
  /\ MaxStall \in Nat
  /\ NoHolder \notin Tx

VARIABLES
  lock,       \* the row of ltp_write_lock
  records,    \* ltp_records
  revision,   \* ltp_meta.revision
  pc,         \* where the isolate is in transaction()
  txn,        \* number of the isolate's current transaction
  attempt,    \* acquireLock(): failed attempts of this call (< LockRetries)
  age,        \* acquireLock(): Date.now() minus the local variable now
  before,     \* transaction(): the local variable before
  applied,    \* history: transactions whose batch was executed
  call        \* history: what the mutator of the latest executed batch was
              \* given and what it returned

procVars == <<pc, txn, attempt, age, before>>
dbVars   == <<records, revision, applied, call>>
vars     == <<lock, procVars, dbVars>>

PC == {"idle", "wait", "stamped", "readMeta", "readRecords", "commit", "release"}

\* From the INSERT that won the lock to the batch: read-modify-write.
InSection == {"readMeta", "readRecords", "commit"}

Me(p)     == <<p, txn[p]>>
NoLock    == [holder |-> NoHolder, left |-> 0]
NoRecords == [k \in Key |-> {}]
Snapshot  == [revision : Nat, records : [Key -> SUBSET Tx]]
NoSnapshot == [revision |-> 0, records |-> NoRecords]

\* The isolate returns from transaction(), or dies: its local variables are gone.
Leave(p) ==
  /\ pc' = [pc EXCEPT ![p] = "idle"]
  /\ attempt' = [attempt EXCEPT ![p] = 0]
  /\ age' = [age EXCEPT ![p] = 0]
  /\ before' = [before EXCEPT ![p] = NoSnapshot]

\* The mutators of AtomicStore.
Mutated(t, S, E, D) ==
  [k \in Key |-> IF k \in D THEN {} ELSE IF k \in E THEN S[k] \union {t} ELSE S[k]]

TypeOK ==
  /\ lock \in [holder : Tx \union {NoHolder}, left : (-(MaxStall + 1))..LockMs]
  /\ records \in [Key -> SUBSET Tx]
  /\ revision \in Nat
  /\ pc \in [Proc -> PC]
  /\ txn \in [Proc -> 1..(MaxTxn + 1)]
  /\ attempt \in [Proc -> 0..(LockRetries - 1)]
  /\ age \in [Proc -> 0..MaxStall]
  /\ before \in [Proc -> Snapshot]
  /\ applied \subseteq Tx
  /\ call \in [before : [Key -> SUBSET Tx], after : [Key -> SUBSET Tx]]

Init ==
  /\ lock = NoLock
  /\ records = NoRecords
  /\ revision = 0
  /\ pc = [p \in Proc |-> "idle"]
  /\ txn = [p \in Proc |-> 1]
  /\ attempt = [p \in Proc |-> 0]
  /\ age = [p \in Proc |-> 0]
  /\ before = [p \in Proc |-> NoSnapshot]
  /\ applied = {}
  /\ call = [before |-> NoRecords, after |-> NoRecords]

-----------------------------------------------------------------------------
(* acquireLock() *)

\* The isolate enters acquireLock() and draws its holder id.
Begin(p) ==
  /\ pc[p] = "idle"
  /\ txn[p] <= MaxTxn
  /\ pc' = [pc EXCEPT ![p] = "wait"]
  /\ UNCHANGED <<lock, dbVars, txn, attempt, age, before>>

\* const now = Date.now(), before the statement is sent to the database.
Stamp(p) ==
  /\ pc[p] = "wait"
  /\ age' = [age EXCEPT ![p] = 0]
  /\ pc' = [pc EXCEPT ![p] = "stamped"]
  /\ UNCHANGED <<lock, dbVars, txn, attempt, before>>

\* Mutants of LockAvailable: a lease may be taken in its last instant; a lease
\* never expires.
LockAvailableEarly(p) ==
  lock.holder \in {NoHolder, Me(p)} \/ lock.left <= -age[p]
LockAvailableNoExpiry(p) ==
  lock.holder \in {NoHolder, Me(p)}

\* The WHERE clause of the upsert: no row, an expired row, or my own row.
LockAvailable(p) ==
  \/ lock.holder = NoHolder
  \/ lock.left < -age[p]
  \/ lock.holder = Me(p)

\* changes = 1: the row is mine.
AcquireOk(p) ==
  /\ pc[p] = "stamped"
  /\ LockAvailable(p)
  /\ lock' = [holder |-> Me(p), left |-> LockMs - age[p]]
  /\ pc' = [pc EXCEPT ![p] = "readMeta"]
  /\ UNCHANGED <<dbVars, txn, attempt, age, before>>

\* Mutant of RetriesLeft: one attempt too many.
RetriesLeftTooMany(p) == attempt[p] + 1 <= LockRetries

\* The condition of the loop.
RetriesLeft(p) == attempt[p] + 1 < LockRetries

\* changes = 0: sleep and try again, or give up with status 503.
AcquireBusy(p) ==
  /\ pc[p] = "stamped"
  /\ ~LockAvailable(p)
  /\ \/ /\ RetriesLeft(p)
        /\ attempt' = [attempt EXCEPT ![p] = @ + 1]
        /\ pc' = [pc EXCEPT ![p] = "wait"]
        /\ UNCHANGED <<age, before>>
     \/ /\ ~RetriesLeft(p)
        /\ Leave(p)
  /\ UNCHANGED <<lock, dbVars, txn>>

\* The upsert fails in the database: acquireLock() throws.
AcquireFails(p) ==
  /\ pc[p] = "stamped"
  /\ Leave(p)
  /\ UNCHANGED <<lock, dbVars, txn>>

\* The upsert ran, its answer was lost: acquireLock() throws and nobody
\* releases the row.
AcquireAnswerLost(p) ==
  /\ pc[p] = "stamped"
  /\ LockAvailable(p)
  /\ lock' = [holder |-> Me(p), left |-> LockMs - age[p]]
  /\ Leave(p)
  /\ txn' = [txn EXCEPT ![p] = @ + 1]
  /\ UNCHANGED dbVars

-----------------------------------------------------------------------------
(* transaction() *)

\* read(): the first query, revision.
ReadMeta(p) ==
  /\ pc[p] = "readMeta"
  /\ before' = [before EXCEPT ![p].revision = revision]
  /\ pc' = [pc EXCEPT ![p] = "readRecords"]
  /\ UNCHANGED <<lock, dbVars, txn, attempt, age>>

\* read(): the second query, all records.
ReadRecords(p) ==
  /\ pc[p] = "readRecords"
  /\ before' = [before EXCEPT ![p].records = records]
  /\ pc' = [pc EXCEPT ![p] = "commit"]
  /\ UNCHANGED <<lock, dbVars, txn, attempt, age>>

\* Mutant of Written: the batch lacks its DELETE statements.
WrittenNoDelete(p, after) ==
  [k \in Key |-> IF after[k] # before[p].records[k] /\ after[k] # {}
                 THEN after[k] ELSE records[k]]

\* The upserts and deletes of the batch: only the records that the mutator
\* changed with respect to before are written.
Written(p, after) ==
  [k \in Key |-> IF after[k] # before[p].records[k] THEN after[k] ELSE records[k]]

\* db.batch(): executed as one unit, revision set to before.revision + 1.
\* (An answer that is lost makes the caller see an error; nothing else
\* differs.)
Commit(p, E, D) ==
  /\ pc[p] = "commit"
  /\ E \intersect D = {}
  /\ LET after == Mutated(Me(p), before[p].records, E, D)
     IN  /\ records' = Written(p, after)
         /\ call' = [before |-> before[p].records, after |-> after]
  /\ revision' = before[p].revision + 1
  /\ applied' = applied \union {Me(p)}
  /\ pc' = [pc EXCEPT ![p] = "release"]
  /\ UNCHANGED <<lock, txn, attempt, age, before>>

\* A query fails, the mutator throws or the batch is rejected: nothing is
\* written and the finally block runs.
Abort(p) ==
  /\ pc[p] \in InSection
  /\ pc' = [pc EXCEPT ![p] = "release"]
  /\ UNCHANGED <<lock, dbVars, txn, attempt, age, before>>

\* Mutant of Released: the DELETE lacks AND holder=?1.
ReleasedAny(p) == NoLock

\* The row releaseLock() deletes: only one that still carries my holder id.
Released(p) == IF lock.holder = Me(p) THEN NoLock ELSE lock

\* releaseLock(); an error of the DELETE is swallowed.
Release(p) ==
  /\ pc[p] = "release"
  /\ lock' \in {Released(p), lock}
  /\ Leave(p)
  /\ txn' = [txn EXCEPT ![p] = @ + 1]
  /\ UNCHANGED dbVars

\* The isolate dies and with it everything local; the row stays.
Crash(p) ==
  /\ pc[p] \in InSection \union {"release"}
  /\ Leave(p)
  /\ txn' = [txn EXCEPT ![p] = @ + 1]
  /\ UNCHANGED <<lock, dbVars>>

-----------------------------------------------------------------------------
(* Time *)

\* A writer whose Date.now() or lease still counts.
Timed(p) == pc[p] \in {"stamped"} \union InSection

\* Nobody stalls longer than MaxStall (the bound of the model); below
\* -MaxStall the value of left no longer decides anything.
Tick ==
  /\ \A p \in Proc : Timed(p) => age[p] < MaxStall
  /\ age' = [p \in Proc |-> IF Timed(p) THEN age[p] + 1 ELSE age[p]]
  /\ lock' = IF lock.holder = NoHolder \/ lock.left < -MaxStall
              THEN lock ELSE [lock EXCEPT !.left = @ - 1]
  /\ UNCHANGED <<pc, txn, attempt, before, dbVars>>

-----------------------------------------------------------------------------

Step(p) ==
  \/ Begin(p) \/ Stamp(p) \/ AcquireOk(p) \/ AcquireBusy(p)
  \/ ReadMeta(p) \/ ReadRecords(p) \/ Release(p)
  \/ \E E \in SUBSET Key, D \in SUBSET Key : Commit(p, E, D)

Fault(p) ==
  \/ AcquireFails(p) \/ AcquireAnswerLost(p) \/ Abort(p) \/ Crash(p)

Next == Tick \/ \E p \in Proc : Step(p) \/ Fault(p)

Spec == Init /\ [][Next]_vars

\* Isolates that are not killed run on, clients told 503 try again, time
\* passes, and the database does not fail every acquisition for ever.
FairSpec ==
  /\ Spec
  /\ WF_vars(Tick)
  /\ \A p \in Proc : WF_vars(Step(p)) /\ SF_vars(AcquireOk(p))

-----------------------------------------------------------------------------
(* Properties *)

\* At most one isolate is between winning the lock and executing its batch:
\* the lease serialises the read-modify-write of transaction() although the
\* batch itself tests neither the lock row nor the revision.
MutualExclusion ==
  \A p, q \in Proc : pc[p] \in InSection /\ pc[q] \in InSection => p = q

\* Every executed write raised the revision by one: no two transactions were
\* computed from the same revision, so none overwrote the other unseen.
RevisionCountsWrites == revision = Cardinality(applied)

\* The store behaves as if each mutator ran alone on the latest records.
Atomic == INSTANCE AtomicStore
ImplementsAtomicStore == Atomic!Spec

\* A lock row whose transaction is over: its isolate died, its release failed
\* or the answer to its acquisition was lost.
Orphaned(t) == lock.holder = t /\ \A p \in Proc : pc[p] \in InSection \union {"release"} => Me(p) # t

\* "Lease expiry is the fail-safe": an orphaned row does not block writers for
\* ever; some writer takes it over unless nobody wants to write any more.
OrphanedLockIsTakenOver ==
  \A t \in Tx : Orphaned(t) ~> (lock.holder # t \/ \A p \in Proc : txn[p] > MaxTxn)
=============================================================================
