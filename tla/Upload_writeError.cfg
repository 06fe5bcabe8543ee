SPECIFICATION Spec
CONSTANTS
  Transfers = {a}
  user_dir <- Each
  md5 <- Each
  user_time <- OwnKey
  timestamp <- Timestamps
  Size = 4
  Block = 2
  Slots = {s1}
  ShortWrites = FALSE
  FaultKinds = {"write"}
  MaxFaults = 1
CHECK_DEADLOCK FALSE
SYMMETRY Symmetry
INVARIANTS CompleteFileIsWhole
