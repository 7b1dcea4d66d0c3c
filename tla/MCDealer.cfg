\* Three sessions, two procedures, three calls, two registrations, not all of
\* them at once (Scope).
CONSTANTS
  s1 = s1
  s2 = s2
  s3 = s3
  p1 = p1
  p2 = p2
  c1 = c1
  c2 = c2
  c3 = c3
  r1 = r1
  r2 = r2
  Session <- MCSession
  Procedure <- MCProcedure
  Call <- MCCall
  Registration <- MCRegistration
  TaskLimit <- Limits
  MaxEmit = 1
  None = None
SPECIFICATION FairSpec
CONSTRAINT Scope
INVARIANTS TypeOK CallAccounting ConcurrencyBound QueueServed
PROPERTIES DispatchToLive QueuedCallServed
CHECK_DEADLOCK FALSE
