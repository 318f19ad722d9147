SPECIFICATION Spec
CONSTANTS
  Tx = {t1, t2, t3}
  Key = {k1, k2}
SYMMETRY Symmetry
INVARIANTS TypeOK AcknowledgedIsDurable RefusedLeavesNoTrace SeesAcknowledged
PROPERTY ImplementsAtomicStore
