SPECIFICATION Spec
CONSTANTS
  Name = {n1}
  Session = {s1, s2}
  Feedback = {f1}
  Case = {c1, c2}
  Fact = {x1}
  Topic = {t1}
  Worker = {w1, w2}
  Fallback = {l1, l2}
  Nobody = Nobody
  FeedbackLimit = 1
  CaseLimit = 2
  MaxClock = 4
  MaxDay = 2
SYMMETRY Symmetry
INVARIANTS TypeOK OneRowPerKey StatusFollowsResponses NothingIsLeftPending
PROPERTIES WritesAreSerial NothingIsErased AdviceIsWanted
CHECK_DEADLOCK FALSE
