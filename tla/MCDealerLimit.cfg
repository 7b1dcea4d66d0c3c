\* The documented limit against progress results.
CONSTANTS
  s1 = s1
  s2 = s2
  s3 = s3
  p1 = p1
  p2 = p2
  c1 = c1
  c2 = c2
  c3 = c3
  r1 = r1
  r2 = r2
  Session <- MCSession
  Procedure <- MCProcedure
  Call <- MCCall
  Registration <- MCRegistration
  TaskLimit <- Limits
  MaxEmit = 1
  None = None
SPECIFICATION Spec
CONSTRAINT Scope
INVARIANT ConcurrencyLimit
CHECK_DEADLOCK FALSE
