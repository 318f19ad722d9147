SPECIFICATION Spec
CONSTANTS
  Rec = {r1}
  Exporter = {e1, e2}
  MaxVersion = 2
  MaxStamp = 2
  MaxSnap = 3
  MaxCopies = 1
SYMMETRY Symmetry
INVARIANTS TypeOK ShowsItsSnapshot NeverRefusedForItsDelta ForksOnlyIfDisturbed
PROPERTIES ImplementsFeed VersionsNeverGoBack
CHECK_DEADLOCK FALSE
