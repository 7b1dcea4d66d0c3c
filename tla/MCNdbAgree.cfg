\* One segment, two storage nodes: do they store it under one id?
CONSTANTS
  Sync = {n1, n2, n3}
  Ndb = {d1, d2}
  Entry = {e1}
  SyncQuorum = 2
  MaxSegment = 1
  MaxMinute = 1
SPECIFICATION Spec
SYMMETRY Symmetry
INVARIANT NdbAgree
CHECK_DEADLOCK FALSE
