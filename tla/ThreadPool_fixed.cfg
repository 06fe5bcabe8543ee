SPECIFICATION FairSpec
CONSTANTS
  ThreadMax = 3
  ThreadMin = 3
  QueueMax = 1
  RetireBatch = 1
  Events = {e1, e2}
  NoTask = NoTask
  CreateFails = FALSE
PROPERTIES EveryTaskIsTaken ReceiverProceeds
