\* Three Hyper sessions that share a lock, two connections of one MQTT client;
\* not everything at once (Scope).
CONSTANTS
  HyperSession = {h1, h2, h3}
  MqttClientSession = {m1, m2}
  LockUri <- L
  OffsetUri <- O
  Packet <- MCPacket
  WillPacket <- MCWillPacket
  Filters <- MCFilters
  None = None
  FirstId = 0
  MaxId = 7
SPECIFICATION Spec
SYMMETRY Symmetry
CONSTRAINT Scope
INVARIANTS TypeOK LiveOnce  WillOnce
PROPERTY IsMutex
CHECK_DEADLOCK FALSE
