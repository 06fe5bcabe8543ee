SPECIFICATION FairSpec
CONSTANTS
  Files = {"long", "short", "partial"}
  Size <- Sizes
  Complete = {"long", "short"}
  entries <- Tree
  Requests <- OneTree
  userid = 1
  LastTime = 4
  Block = 2
  Slots = {s1, s2}
  FaultKinds = {"call", "read", "refuse", "reconnect", "crash"}
  MaxFaults = 2
CHECK_DEADLOCK FALSE
INVARIANTS ClientHoldsPrefix SessionsIntact
PROPERTIES StartedArrives AllArrives
