SPECIFICATION Spec
CONSTANTS
  k1 = k1
  k2 = k2
  Key = {k1}
  Session = {s1, s2}
  Field <- MCField
  Content <- MCContent
  Null = Null
  NoOpt = NoOpt
  Request <- OneKey
  Launch = Launch
  JoinWhileLaunching = TRUE
  MaxPush = 3
  MaxCrash = 1
SYMMETRY Sessions
INVARIANT NoStaleWill
CHECK_DEADLOCK FALSE
