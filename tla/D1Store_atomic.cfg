SPECIFICATION FairSpec
CONSTANTS
  Proc = {p1, p2, p3}
  Key = {k1}
  LockMs = 1
  LockRetries = 2
  MaxTxn = 1
  MaxStall = 1
  NoHolder = NoHolder
INVARIANTS TypeOK MutualExclusion RevisionCountsWrites
PROPERTIES ImplementsAtomicStore OrphanedLockIsTakenOver
CHECK_DEADLOCK FALSE
