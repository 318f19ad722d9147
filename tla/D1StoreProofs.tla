--------------------------- MODULE D1StoreProofs ---------------------------
(***************************************************************************)
(* Proofs about D1Store, for every number of isolates, keys, transactions  *)
(* and every lease length, under the hypothesis MaxStall <= LockMs: no     *)
(* transaction outlives its lease.                                         *)
(***************************************************************************)
EXTENDS D1Store, FiniteSetTheorems, TLAPS

\* A writer in its section holds the row, and its lease has at least as long
\* to run as the writer itself.
HolderInv ==
  \A p \in Proc : pc[p] \in InSection =>
    /\ lock.holder = Me(p)
    /\ lock.left = LockMs - age[p]

\* What a writer has read is still what the database holds.
BeforeInv ==
  \A p \in Proc :
    /\ pc[p] \in {"readRecords", "commit"} => before[p].revision = revision
    /\ pc[p] = "commit" => before[p].records = records

\* Transaction numbers that have not reached the batch are fresh.
FreshInv ==
  /\ IsFiniteSet(applied)
  /\ \A p \in Proc :
       /\ pc[p] # "idle" => txn[p] <= MaxTxn
       /\ \A n \in 1..MaxTxn :
            n > txn[p] \/ (n = txn[p] /\ pc[p] # "release") => <<p, n>> \notin applied

IInv == TypeOK /\ HolderInv /\ BeforeInv /\ FreshInv /\ RevisionCountsWrites

LEMMA InitIInv == Init => IInv
  <1> SUFFICES ASSUME Init PROVE IInv
    OBVIOUS
  <1>1. TypeOK
    BY ConstantsAssumption
    DEF Init, TypeOK, NoLock, NoRecords, NoSnapshot, Snapshot, PC, Tx
  <1>2. HolderInv /\ BeforeInv
    BY DEF Init, HolderInv, BeforeInv, InSection
  <1>3. FreshInv
    BY FS_EmptySet DEF Init, FreshInv
  <1>4. RevisionCountsWrites
    BY FS_EmptySet DEF Init, RevisionCountsWrites
  <1>. QED
    BY <1>1, <1>2, <1>3, <1>4 DEF IInv

\* The section is exclusive in every state of the invariant.
LEMMA HolderUnique ==
  ASSUME HolderInv, NEW p \in Proc, NEW q \in Proc,
         pc[p] \in InSection, pc[q] \in InSection
  PROVE  p = q
  BY DEF HolderInv, Me

\* A writer can only take a row whose holder has left its section.
LEMMA TakeOver ==
  ASSUME IInv, MaxStall <= LockMs,
         NEW p \in Proc, pc[p] = "stamped", LockAvailable(p),
         NEW q \in Proc, pc[q] \in InSection
  PROVE  FALSE
  <1>1. lock.holder = Me(q) /\ lock.left = LockMs - age[q]
    BY DEF IInv, HolderInv
  <1>2. age[p] \in 0..MaxStall /\ age[q] \in 0..MaxStall
    BY DEF IInv, TypeOK
  <1>3. lock.left >= -age[p]
    BY <1>1, <1>2, ConstantsAssumption
  <1>4. Me(q) \in Tx /\ Me(q) # NoHolder
    BY ConstantsAssumption DEF IInv, FreshInv, InSection, TypeOK, Tx, Me
  <1>5. lock.holder = Me(p)
    BY <1>1, <1>2, <1>3, <1>4, ConstantsAssumption DEF LockAvailable
  <1>6. p = q
    BY <1>1, <1>5 DEF Me
  <1>. QED
    BY <1>6 DEF InSection

LEMMA MeInTx ==
  ASSUME IInv, NEW p \in Proc, pc[p] # "idle"
  PROVE  Me(p) \in Tx /\ txn[p] \in 1..MaxTxn
  BY ConstantsAssumption DEF IInv, FreshInv, TypeOK, Tx, Me

LEMMA MutatedType ==
  ASSUME NEW t \in Tx, NEW S \in [Key -> SUBSET Tx],
         NEW E \in SUBSET Key, NEW D \in SUBSET Key
  PROVE  Mutated(t, S, E, D) \in [Key -> SUBSET Tx]
  BY DEF Mutated

\* The batch installs what the mutator returned, although it writes only the
\* records that differ from before.
LEMMA WrittenIsAfter ==
  ASSUME NEW p \in Proc, NEW after \in [Key -> SUBSET Tx],
         before[p].records = records, records \in [Key -> SUBSET Tx]
  PROVE  Written(p, after) = after
  BY DEF Written

LEMMA TypeStep == IInv /\ [Next]_vars => TypeOK'
  <1> SUFFICES ASSUME IInv, [Next]_vars PROVE TypeOK'
    OBVIOUS
  <1> USE ConstantsAssumption
  <1>0. TypeOK
    BY DEF IInv
  <1>t. ASSUME NEW p \in Proc, pc[p] # "idle"
        PROVE  /\ Me(p) \in Tx
               /\ txn[p] + 1 \in 1..(MaxTxn + 1)
    BY <1>t, MeInTx
  <1>v. ASSUME NEW p \in Proc, Leave(p)
        PROVE  /\ pc' \in [Proc -> PC]
               /\ attempt' \in [Proc -> 0..(LockRetries - 1)]
               /\ age' \in [Proc -> 0..MaxStall]
               /\ before' \in [Proc -> Snapshot]
    BY <1>v, <1>0 DEF TypeOK, Leave, PC, Snapshot, NoSnapshot, NoRecords
  <1>a. ASSUME NEW p \in Proc, pc[p] = "stamped"
        PROVE  [holder |-> Me(p), left |-> LockMs - age[p]]
                 \in [holder : Tx \union {NoHolder}, left : (-(MaxStall + 1))..LockMs]
    BY <1>a, <1>t, <1>0 DEF TypeOK
  <1>1. ASSUME NEW p \in Proc, Begin(p) PROVE TypeOK'
    BY <1>1, <1>0 DEF Begin, TypeOK, PC, dbVars
  <1>2. ASSUME NEW p \in Proc, Stamp(p) PROVE TypeOK'
    BY <1>2, <1>0 DEF Stamp, TypeOK, PC, dbVars
  <1>3. ASSUME NEW p \in Proc, AcquireOk(p) PROVE TypeOK'
    BY <1>3, <1>0, <1>a DEF AcquireOk, TypeOK, PC, dbVars
  <1>4. ASSUME NEW p \in Proc, AcquireBusy(p) PROVE TypeOK'
    <2>1. CASE Leave(p)
      BY <1>4, <1>0, <1>v, <2>1 DEF AcquireBusy, TypeOK, dbVars
    <2>2. CASE /\ RetriesLeft(p)
               /\ attempt' = [attempt EXCEPT ![p] = @ + 1]
               /\ pc' = [pc EXCEPT ![p] = "wait"]
               /\ UNCHANGED <<age, before>>
      <3>1. attempt' \in [Proc -> 0..(LockRetries - 1)]
        BY <1>0, <2>2 DEF RetriesLeft, TypeOK
      <3>. QED
        BY <1>4, <1>0, <2>2, <3>1 DEF AcquireBusy, TypeOK, PC, dbVars
    <2>. QED
      BY <1>4, <2>1, <2>2 DEF AcquireBusy
  <1>5. ASSUME NEW p \in Proc, AcquireFails(p) PROVE TypeOK'
    BY <1>5, <1>0, <1>v DEF AcquireFails, TypeOK, dbVars
  <1>6. ASSUME NEW p \in Proc, AcquireAnswerLost(p) PROVE TypeOK'
    BY <1>6, <1>0, <1>a, <1>t, <1>v DEF AcquireAnswerLost, TypeOK, dbVars
  <1>7. ASSUME NEW p \in Proc, ReadMeta(p) PROVE TypeOK'
    BY <1>7, <1>0 DEF ReadMeta, TypeOK, PC, Snapshot, dbVars
  <1>8. ASSUME NEW p \in Proc, ReadRecords(p) PROVE TypeOK'
    BY <1>8, <1>0 DEF ReadRecords, TypeOK, PC, Snapshot, dbVars
  <1>9. ASSUME NEW p \in Proc, NEW E \in SUBSET Key, NEW D \in SUBSET Key, Commit(p, E, D)
        PROVE  TypeOK'
    <2> DEFINE after == Mutated(Me(p), before[p].records, E, D)
    <2>1. before[p].records \in [Key -> SUBSET Tx] /\ before[p].revision \in Nat
      BY <1>0 DEF TypeOK, Snapshot
    <2>2. Me(p) \in Tx
      BY <1>9, <1>t DEF Commit
    <2>3. after \in [Key -> SUBSET Tx]
      BY <2>1, <2>2, MutatedType
    <2>4. Written(p, after) \in [Key -> SUBSET Tx]
      BY <2>3, <1>0 DEF Written, TypeOK
    <2> HIDE DEF after
    <2>5. /\ records' = Written(p, after)
          /\ call' = [before |-> before[p].records, after |-> after]
      BY <1>9 DEF Commit, after
    <2>6. /\ records' \in [Key -> SUBSET Tx]
          /\ call' \in [before : [Key -> SUBSET Tx], after : [Key -> SUBSET Tx]]
          /\ revision' \in Nat
          /\ applied' \subseteq Tx
          /\ pc' \in [Proc -> PC]
      BY <1>9, <1>0, <2>1, <2>2, <2>3, <2>4, <2>5 DEF Commit, TypeOK, PC
    <2>. QED
      BY <1>9, <1>0, <2>6 DEF Commit, TypeOK
  <1>10. ASSUME NEW p \in Proc, Abort(p) PROVE TypeOK'
    BY <1>10, <1>0 DEF Abort, TypeOK, PC, dbVars
  <1>11. ASSUME NEW p \in Proc, Release(p) PROVE TypeOK'
    <2>1. lock' \in [holder : Tx \union {NoHolder}, left : (-(MaxStall + 1))..LockMs]
      BY <1>11, <1>0 DEF Release, Released, NoLock, TypeOK
    <2>. QED
      BY <1>11, <1>0, <1>t, <1>v, <2>1 DEF Release, TypeOK, dbVars
  <1>12. ASSUME NEW p \in Proc, Crash(p) PROVE TypeOK'
    BY <1>12, <1>0, <1>t, <1>v DEF Crash, TypeOK, dbVars, InSection
  <1>13. CASE Tick
    <2>1. lock' \in [holder : Tx \union {NoHolder}, left : (-(MaxStall + 1))..LockMs]
      BY <1>13, <1>0 DEF Tick, TypeOK
    <2>2. age' \in [Proc -> 0..MaxStall]
      BY <1>13, <1>0 DEF Tick, TypeOK
    <2>. QED
      BY <1>13, <1>0, <2>1, <2>2 DEF Tick, TypeOK, dbVars
  <1>14. CASE UNCHANGED vars
    BY <1>14, <1>0 DEF vars, procVars, dbVars, TypeOK
  <1>. QED
    BY <1>1, <1>2, <1>3, <1>4, <1>5, <1>6, <1>7, <1>8, <1>9, <1>10, <1>11,
       <1>12, <1>13, <1>14 DEF Next, Step, Fault

\* The step leaves alone what HolderInv is about, or p leaves its section.
LEMMA HolderStep == MaxStall <= LockMs /\ IInv /\ [Next]_vars => HolderInv'
  <1> SUFFICES ASSUME MaxStall <= LockMs, IInv, [Next]_vars PROVE HolderInv'
    OBVIOUS
  <1> USE ConstantsAssumption DEF Me
  <1>0. TypeOK /\ HolderInv
    BY DEF IInv
  <1>1. ASSUME NEW p \in Proc,
               \/ Begin(p) \/ Stamp(p) \/ AcquireBusy(p) \/ AcquireFails(p)
               \/ ReadMeta(p) \/ ReadRecords(p) \/ Abort(p) \/ Crash(p)
        PROVE  HolderInv'
    BY <1>0, <1>1 DEF Begin, Stamp, AcquireBusy, AcquireFails, ReadMeta,
       ReadRecords, Abort, Crash, Leave, HolderInv, TypeOK, InSection
  <1>2. ASSUME NEW p \in Proc, AcquireOk(p) PROVE HolderInv'
    <2>1. \A q \in Proc : pc[q] \notin InSection
      BY <1>2, TakeOver DEF AcquireOk
    <2>. QED
      BY <1>0, <1>2, <2>1 DEF AcquireOk, HolderInv, TypeOK, InSection
  <1>3. ASSUME NEW p \in Proc, AcquireAnswerLost(p) PROVE HolderInv'
    <2>1. \A q \in Proc : pc[q] \notin InSection
      BY <1>3, TakeOver DEF AcquireAnswerLost
    <2>. QED
      BY <1>0, <1>3, <2>1 DEF AcquireAnswerLost, Leave, HolderInv, TypeOK, InSection
  <1>4. ASSUME NEW p \in Proc, NEW E \in SUBSET Key, NEW D \in SUBSET Key, Commit(p, E, D)
        PROVE  HolderInv'
    BY <1>0, <1>4 DEF Commit, HolderInv, TypeOK, InSection
  <1>5. ASSUME NEW p \in Proc, Release(p) PROVE HolderInv'
    <2>1. ASSUME NEW q \in Proc, pc'[q] \in InSection
          PROVE  q # p /\ pc[q] \in InSection /\ txn'[q] = txn[q] /\ age'[q] = age[q]
      BY <1>0, <1>5, <2>1 DEF Release, Leave, TypeOK, InSection
    <2>2. ASSUME NEW q \in Proc, pc'[q] \in InSection PROVE lock' = lock
      BY <1>0, <1>5, <2>1, <2>2 DEF Release, Released, HolderInv
    <2>. QED
      BY <1>0, <2>1, <2>2 DEF HolderInv
  <1>6. CASE Tick
    <2>1. ASSUME NEW q \in Proc, pc[q] \in InSection
          PROVE  lock.holder = Me(q) /\ lock'.holder = Me(q) /\ lock'.left = lock.left - 1
      <3>1. Me(q) # NoHolder
        BY <2>1, MeInTx DEF InSection
      <3>2. lock.holder = Me(q) /\ lock.left = LockMs - age[q] /\ age[q] \in 0..MaxStall
        BY <1>0, <2>1 DEF HolderInv, TypeOK
      <3>3. ~(lock.left < -MaxStall)
        BY <3>2
      <3>. QED
        BY <1>0, <1>6, <3>1, <3>2, <3>3 DEF Tick, TypeOK
    <2>2. ASSUME NEW q \in Proc, pc[q] \in InSection PROVE age'[q] = age[q] + 1
      BY <1>0, <1>6, <2>2 DEF Tick, Timed, TypeOK
    <2>. QED
      BY <1>0, <1>6, <2>1, <2>2 DEF Tick, HolderInv, TypeOK
  <1>7. CASE UNCHANGED vars
    BY <1>0, <1>7 DEF vars, procVars, HolderInv
  <1>. QED
    BY <1>1, <1>2, <1>3, <1>4, <1>5, <1>6, <1>7 DEF Next, Step, Fault

\* Only Commit changes what has been read, and its writer is alone.
LEMMA BeforeStep == IInv /\ [Next]_vars => BeforeInv'
  <1> SUFFICES ASSUME IInv, [Next]_vars PROVE BeforeInv'
    OBVIOUS
  <1>0. TypeOK /\ HolderInv /\ BeforeInv
    BY DEF IInv
  <1>1. ASSUME NEW p \in Proc,
               \/ Begin(p) \/ Stamp(p) \/ AcquireOk(p) \/ AcquireBusy(p)
               \/ AcquireFails(p) \/ AcquireAnswerLost(p)
               \/ Abort(p) \/ Release(p) \/ Crash(p)
        PROVE  BeforeInv'
    BY <1>0, <1>1 DEF Begin, Stamp, AcquireOk, AcquireBusy, AcquireFails,
       AcquireAnswerLost, Abort, Release, Crash, Leave, BeforeInv, TypeOK, dbVars
  <1>2. ASSUME NEW p \in Proc, ReadMeta(p) PROVE BeforeInv'
    BY <1>0, <1>2 DEF ReadMeta, BeforeInv, TypeOK, Snapshot, dbVars
  <1>3. ASSUME NEW p \in Proc, ReadRecords(p) PROVE BeforeInv'
    BY <1>0, <1>3 DEF ReadRecords, BeforeInv, TypeOK, Snapshot, dbVars
  <1>4. ASSUME NEW p \in Proc, NEW E \in SUBSET Key, NEW D \in SUBSET Key, Commit(p, E, D)
        PROVE  BeforeInv'
    <2>1. ASSUME NEW q \in Proc, pc[q] \in InSection PROVE q = p
      BY <1>0, <1>4, <2>1, HolderUnique DEF Commit, InSection
    <2>2. ASSUME NEW q \in Proc PROVE pc'[q] \notin InSection
      BY <1>0, <1>4, <2>1 DEF Commit, TypeOK, InSection
    <2>. QED
      BY <2>2 DEF BeforeInv, InSection
  <1>5. CASE Tick
    BY <1>0, <1>5 DEF Tick, BeforeInv, dbVars
  <1>6. CASE UNCHANGED vars
    BY <1>0, <1>6 DEF vars, procVars, dbVars, BeforeInv
  <1>. QED
    BY <1>1, <1>2, <1>3, <1>4, <1>5, <1>6 DEF Next, Step, Fault

\* A transaction number is used for at most one batch.
LEMMA FreshStep == IInv /\ [Next]_vars => FreshInv'
  <1> SUFFICES ASSUME IInv, [Next]_vars PROVE FreshInv'
    OBVIOUS
  <1> USE ConstantsAssumption
  <1>0. TypeOK /\ FreshInv
    BY DEF IInv
  <1>1. ASSUME NEW p \in Proc,
               \/ Begin(p) \/ Stamp(p) \/ AcquireOk(p) \/ AcquireBusy(p)
               \/ AcquireFails(p) \/ ReadMeta(p) \/ ReadRecords(p) \/ Abort(p)
        PROVE  FreshInv'
    BY <1>0, <1>1 DEF Begin, Stamp, AcquireOk, AcquireBusy, AcquireFails, ReadMeta,
       ReadRecords, Abort, Leave, FreshInv, TypeOK, dbVars, InSection
  <1>2. ASSUME NEW p \in Proc, AcquireAnswerLost(p) \/ Release(p) \/ Crash(p)
        PROVE  FreshInv'
    <2>1. /\ txn' = [txn EXCEPT ![p] = txn[p] + 1]
          /\ pc' = [pc EXCEPT ![p] = "idle"]
          /\ applied' = applied
      BY <1>2 DEF AcquireAnswerLost, Release, Crash, Leave, dbVars
    <2>. QED
      BY <1>0, <2>1 DEF FreshInv, TypeOK
  <1>3. ASSUME NEW p \in Proc, NEW E \in SUBSET Key, NEW D \in SUBSET Key, Commit(p, E, D)
        PROVE  FreshInv'
    <2>1. /\ txn' = txn
          /\ pc' = [pc EXCEPT ![p] = "release"]
          /\ applied' = applied \union {<<p, txn[p]>>}
          /\ pc[p] = "commit"
      BY <1>3 DEF Commit, Me
    <2>2. IsFiniteSet(applied')
      BY <1>0, <2>1, FS_AddElement DEF FreshInv
    <2>3. ASSUME NEW q \in Proc PROVE pc'[q] # "idle" => txn'[q] <= MaxTxn
      BY <1>0, <2>1 DEF FreshInv, TypeOK
    <2>4. ASSUME NEW q \in Proc, NEW n \in 1..MaxTxn,
                 n > txn'[q] \/ (n = txn'[q] /\ pc'[q] # "release")
          PROVE  <<q, n>> \notin applied'
      <3>1. <<q, n>> # <<p, txn[p]>>
        BY <1>0, <2>1, <2>4 DEF TypeOK
      <3>2. <<q, n>> \notin applied
        BY <1>0, <2>1, <2>4 DEF FreshInv, TypeOK
      <3>. QED
        BY <2>1, <3>1, <3>2
    <2>. QED
      BY <2>2, <2>3, <2>4 DEF FreshInv
  <1>4. CASE Tick
    BY <1>0, <1>4 DEF Tick, FreshInv, dbVars
  <1>5. CASE UNCHANGED vars
    BY <1>0, <1>5 DEF vars, procVars, dbVars, FreshInv
  <1>. QED
    BY <1>1, <1>2, <1>3, <1>4, <1>5 DEF Next, Step, Fault

\* Only Commit counts, and it counts from the latest revision.
LEMMA CountStep == IInv /\ [Next]_vars => RevisionCountsWrites'
  <1> SUFFICES ASSUME IInv, [Next]_vars PROVE RevisionCountsWrites'
    OBVIOUS
  <1>0. TypeOK /\ BeforeInv /\ FreshInv /\ RevisionCountsWrites
    BY DEF IInv
  <1>1. ASSUME NEW p \in Proc, NEW E \in SUBSET Key, NEW D \in SUBSET Key, Commit(p, E, D)
        PROVE  RevisionCountsWrites'
    <2>1. txn[p] \in 1..MaxTxn
      BY <1>1, MeInTx DEF Commit
    <2>2. Me(p) \notin applied
      BY <1>0, <1>1, <2>1 DEF Commit, FreshInv, Me
    <2>3. Cardinality(applied \union {Me(p)}) = Cardinality(applied) + 1
      BY <1>0, <2>2, FS_AddElement DEF FreshInv
    <2>4. revision' = revision + 1 /\ applied' = applied \union {Me(p)}
      BY <1>0, <1>1 DEF Commit, BeforeInv
    <2>. QED
      BY <1>0, <2>3, <2>4 DEF RevisionCountsWrites
  <1>2. CASE UNCHANGED dbVars
    BY <1>0, <1>2 DEF dbVars, RevisionCountsWrites
  <1>. QED
    BY <1>1, <1>2 DEF Next, Step, Fault, vars, Tick, Begin, Stamp, AcquireOk, AcquireBusy,
       AcquireFails, AcquireAnswerLost, ReadMeta, ReadRecords, Abort, Release, Crash

LEMMA Inductive ==
  ASSUME MaxStall <= LockMs
  PROVE  Spec => []IInv
  <1>1. IInv /\ [Next]_vars => IInv'
    BY TypeStep, HolderStep, BeforeStep, FreshStep, CountStep DEF IInv
  <1>. QED
    BY <1>1, InitIInv, PTL DEF Spec

-----------------------------------------------------------------------------

\* transaction() keeps the lock row, the records and every writer's local
\* variables well formed.
THEOREM StoreIsTyped ==
  ASSUME MaxStall <= LockMs
  PROVE  Spec => []TypeOK
  <1>1. IInv => TypeOK
    BY DEF IInv
  <1>. QED
    BY <1>1, Inductive, PTL

\* acquireLock() admits one writer at a time to the read-modify-write of
\* transaction(), whatever crashes, database errors and lost answers happen.
THEOREM LeaseExcludes ==
  ASSUME MaxStall <= LockMs
  PROVE  Spec => []MutualExclusion
  <1>1. IInv => MutualExclusion
    BY HolderUnique DEF IInv, MutualExclusion
  <1>. QED
    BY <1>1, Inductive, PTL

\* The unconditional UPDATE of ltp_meta never writes the same revision twice.
THEOREM EveryWriteIsCounted ==
  ASSUME MaxStall <= LockMs
  PROVE  Spec => []RevisionCountsWrites
  <1>1. IInv => RevisionCountsWrites
    BY DEF IInv
  <1>. QED
    BY <1>1, Inductive, PTL

\* The six database calls of transaction() together are one atomic step of
\* AtomicStore: the batch is Apply and everything else is a stutter.
THEOREM D1ImplementsAtomicStore ==
  ASSUME MaxStall <= LockMs
  PROVE  Spec => ImplementsAtomicStore
  <1>1. Init => Atomic!Init
    BY DEF Init, Atomic!Init, NoRecords, Atomic!NoRecords
  <1>2. IInv /\ [Next]_vars => [Atomic!Next]_(Atomic!storeVars)
    <2> SUFFICES ASSUME IInv, [Next]_vars PROVE [Atomic!Next]_(Atomic!storeVars)
      OBVIOUS
    <2>1. ASSUME NEW p \in Proc, NEW E \in SUBSET Key, NEW D \in SUBSET Key, Commit(p, E, D)
          PROVE  Atomic!Next
      <3> DEFINE after == Mutated(Me(p), records, E, D)
      <3>1. Me(p) \in Tx
        BY <2>1, MeInTx DEF Commit
      <3>2. before[p].records = records /\ before[p].revision = revision
        BY <2>1 DEF IInv, BeforeInv, Commit
      <3>3. records \in [Key -> SUBSET Tx]
        BY DEF IInv, TypeOK
      <3>4. after \in [Key -> SUBSET Tx]
        BY <3>1, <3>3, MutatedType
      <3> HIDE DEF after
      <3>5. Written(p, after) = after
        BY <3>2, <3>3, <3>4, WrittenIsAfter
      <3>6. /\ records' = after
            /\ call' = [before |-> records, after |-> after]
            /\ revision' = revision + 1
        BY <2>1, <3>2, <3>5 DEF Commit, after
      <3>7. after = Atomic!Mutated(Me(p), records, E, D)
        BY DEF after, Mutated, Atomic!Mutated
      <3>8. Atomic!Apply(Me(p), E, D)
        BY <3>6, <3>7 DEF Atomic!Apply
      <3>. QED
        BY <3>1, <3>8 DEF Atomic!Next
    <2>2. CASE UNCHANGED dbVars
      BY <2>2 DEF dbVars, Atomic!storeVars
    <2>. QED
      BY <2>1, <2>2 DEF Next, Step, Fault, vars, Tick, Begin, Stamp, AcquireOk, AcquireBusy,
         AcquireFails, AcquireAnswerLost, ReadMeta, ReadRecords, Abort, Release, Crash
  <1>. QED
    BY <1>1, <1>2, Inductive, PTL DEF Spec, ImplementsAtomicStore, Atomic!Spec
=============================================================================
