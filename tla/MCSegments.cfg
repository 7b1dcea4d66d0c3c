\* Two storage nodes, three sync nodes, two segments of at most two events,
\* one fault; not everything at once (Scope).
CONSTANTS
  d1 = d1
  d2 = d2
  n1 = n1
  n2 = n2
  n3 = n3
  Ndb <- MCNdb
  Sync <- MCSync
  SyncQuorum = 2
  ConfigQuorum = 2
  MaxSegment = 2
  MaxOffset = 2
  MaxFault = 1
SPECIFICATION FairSpec
CONSTRAINT Scope
INVARIANTS TypeOK IdIsOffset 
PROPERTY SegmentEnds
CHECK_DEADLOCK FALSE
