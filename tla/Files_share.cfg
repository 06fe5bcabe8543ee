SPECIFICATION FairSpec
CONSTANTS
  Users = {"u1", "u2"}
  Requests <- Shares
  Slots = {1, 2}
  t_file_0 <- Tree
  t_user_file_0 <- Owned
  SchemaKeys = TRUE
  MaxFaults = 0
  Links = {1, 2}
  MaxDepth = 4
CHECK_DEADLOCK FALSE
INVARIANTS LinkIsOneShare
PROPERTIES CopyIsExact EveryRequestEnds
