CONSTANTS
  Heads = {"h1", "h2"}
  NoHead = "none"
  c1 = c1
  c2 = c2
  Callers = {c1, c2}
  NoCaller = NoCaller
  Txs = {"t1"}
  Affordable = {"h1"}
  MaxAttempts = 2
  MaxMoves = 3
  MaxFaults = 1
SYMMETRY MCSymmetry
SPECIFICATION Spec
INVARIANTS
  ReturnedRefreshIsServed
  ConfirmedIsCanonical
  AdmittedUnderServedHead
PROPERTIES
  NoOlderPublish
