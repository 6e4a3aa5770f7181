SPECIFICATION RadarFairSpec
CONSTANTS
  ingestion = ingestion
  monitor = monitor
  old = old
  Us = us
  Names <- MCNames
  Ingestion = ingestion
  Monitor = monitor
  Peers = {old}
  Caller = Caller
  MaxJobs = 3
  MaxStamp = 3
INVARIANTS
  OneWriter
  NoRunLost
  RestartEquivalent
PROPERTIES
  TickServed
  CloseDrains
CHECK_DEADLOCK FALSE
