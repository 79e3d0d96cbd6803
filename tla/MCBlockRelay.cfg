SPECIFICATION Spec
CONSTANTS
  Peer = {p, q}
  p = p
  q = q
  None = None
  Block <- FourBlocks
  Parents <- FourParents
  Announced <- FourAnnounced
  MaxOrphans = 2
  Threshold = 1
  MaxFailures = 2
INVARIANTS RequestsAreHeld UnorphanedAreKept OrphansAreTaken
CHECK_DEADLOCK FALSE
