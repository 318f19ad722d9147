SPECIFICATION Spec
CONSTANTS
  Rec = {r1}
  Mirror <- MCMirror
  Copy <- MCCopy
  Released <- MCReleased
  MaxVersion = 2
  MaxStamp = 2
  MaxSnap = 3
  MaxDescriptor = 2
  MaxChain = 2
INVARIANTS TypeOK
PROPERTIES ImplementsFeed OlderOnlyByStaleWriter CatchesUp
CHECK_DEADLOCK FALSE
