SPECIFICATION FairSpec
CONSTANTS
  Requests <- Asked
  Waves <- Groups
  Slots = {1, 2}
  MaxFaults = 2
  UniqueTel = FALSE
  t_user_0 <- Before
  Contents = {"m"}
  user_file_info <- View
CHECK_DEADLOCK FALSE
INVARIANTS TypeOK OneOwner OwnerGetsIn OnlineIsALogin
PROPERTIES PathLeadsToList KnownIsAnswered
