SPECIFICATION Spec
CONSTANTS
  Transfers = {a, b}
  user_dir <- Each
  md5 <- Each
  user_time <- OwnKey
  timestamp <- OneTime
  Size = 2
  Block = 2
  Slots = {s1, s2}
  ShortWrites = TRUE
  FaultKinds = {"write", "call", "reconnect", "crash"}
  MaxFaults = 2
CHECK_DEADLOCK FALSE
SYMMETRY Symmetry
INVARIANTS SessionsIntact PositionsAgree 
PROPERTIES KeepsPromises
