CONSTANTS
  Heads = {"h1", "h2"}
  NoHead = "none"
  Task = "task"
  Callers = {"task"}
  NoCaller = "nobody"
  Txs = {"t1"}
  Affordable = {"h1"}
  MaxAttempts = 3
  MaxMoves = 3
  MaxFaults = 2
  Capacity = 1
  RetryInitial = 2
  RetryMax = 3
SPECIFICATION FairMSpec
INVARIANTS
  NoLostWakeup
  RetryTracksAvailability
PROPERTIES
  EventuallyCurrent
CHECK_DEADLOCK FALSE
