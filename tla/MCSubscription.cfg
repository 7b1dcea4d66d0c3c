\* One topic; three pushes; one subscription of any kind.
CONSTANTS
  Trace = {t1}
  Session = {s1}
  Topic <- MCTopic
  PushRequest <- Pushes
  TraceRequest <- Traces
  FirstId <- FirstIds
  MaxPush = 3
  MaxRestart = 1
SPECIFICATION FairSpec
INVARIANTS TypeOK   SnapshotReplayOnly RetainedIsFresh WaiterIsLive MatchIsMeaning IntersectIsMeeting 
PROPERTIES ClosedIsSilent SnapshotEnds
CHECK_DEADLOCK FALSE
