\* Drafts and votes of three sync nodes for two segments of one entry; the
\* clocks tick once; the votes at a storage node for the first segment (Scope).
CONSTANTS
  Sync = {n1, n2, n3}
  Ndb = {d1}
  Entry = {e1}
  SyncQuorum = 2
  MaxSegment = 2
  MaxMinute = 2
SPECIFICATION Spec
SYMMETRY Symmetry
CONSTRAINT Scope
INVARIANTS TypeOK ElectBacked  StacksAscend ResolvedOnce
PROPERTY DraftAboveSeen
CHECK_DEADLOCK FALSE
