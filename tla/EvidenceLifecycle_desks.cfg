SPECIFICATION Spec
CONSTANTS
  Item = {i1}
  User = {u1, u2}
  Desk = {d1, d2}
  Flag = {f1, f2}
  Form <- MCForm
  Level = {0, 2, 3, 5}
  MaxVersion = 2
  MaxReviews = 2
SYMMETRY Symmetry
INVARIANTS TypeOK VerdictIsAboutTheText ReleaseIsCurrent CorrectionsAreReviewed
PROPERTY WithdrawalIsFinal
CHECK_DEADLOCK FALSE
