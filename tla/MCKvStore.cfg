SPECIFICATION FairSpec
CONSTANTS
  k1 = k1
  k2 = k2
  Key = {k1, k2}
  Session = {s1, s2}
  Field <- MCField
  Content <- MCContent
  Null = Null
  NoOpt = NoOpt
  Request <- TwoKeys
  Launch = Launch
  JoinWhileLaunching = FALSE
  MaxPush = 3
  MaxCrash = 0
INVARIANTS TypeOK OldIsCurrent  HeldByLive 
PROPERTIES Atomic CleanupEnds
CHECK_DEADLOCK FALSE
