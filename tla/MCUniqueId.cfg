\* One segment of two entries: is the permanent id of each its own?
CONSTANTS
  Sync = {n1, n2, n3}
  Ndb = {d1}
  Entry = {e1, e2}
  SyncQuorum = 2
  MaxSegment = 1
  MaxMinute = 1
SPECIFICATION Spec
SYMMETRY Symmetry
INVARIANT UniqueId
CHECK_DEADLOCK FALSE
