SPECIFICATION FairSpec
CONSTANTS
  Transfers = {a, b}
  user_dir <- Each
  md5 <- Same
  user_time <- OwnKey
  timestamp <- Timestamps
  Size = 3
  Block = 1
  Slots = {s1, s2}
  ShortWrites = FALSE
  FaultKinds = {}
  MaxFaults = 0
CHECK_DEADLOCK FALSE
INVARIANTS CompleteFileIsWhole DoneMeansListed
PROPERTIES UploadCompletes
