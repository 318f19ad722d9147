SPECIFICATION Spec
CONSTANTS
  Proc = {p1, p2}
  Key = {k1}
  LockMs = 1
  LockRetries = 1
  MaxTxn = 1
  MaxStall = 2
  NoHolder = NoHolder
SYMMETRY Symmetry
INVARIANT RevisionCountsWrites
CHECK_DEADLOCK FALSE
