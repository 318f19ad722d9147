SPECIFICATION Spec
CONSTANTS
  Tx = {t1, t2}
  Key = {k1}
INVARIANT RefusedOnlyForItself
