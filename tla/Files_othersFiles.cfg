SPECIFICATION Spec
CONSTANTS
  Users = {"u1", "u2", "u3"}
  Requests <- ByAThird
  Slots = {1, 2}
  t_file_0 <- Tree3
  t_user_file_0 <- Owned3
  SchemaKeys = TRUE
  MaxFaults = 0
  Links = {1}
  MaxDepth = 4
CHECK_DEADLOCK FALSE
PROPERTIES CopyIsOfSource
