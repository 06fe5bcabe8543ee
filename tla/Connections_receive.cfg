SPECIFICATION Spec
CONSTANTS
  Clients = {c1, c2, c3}
  Senders = {c1, c2}
  Fds = {f1, f2}
  Workers = {w1, w2}
  QueueMax = 2
  Packets = 2
  HeaderUnits = 1
  BodyUnits = 2
  ResetByPeer = TRUE
  NoConn = NoConn
  NoTask = NoTask
  Listen = Listen
CHECK_DEADLOCK FALSE
SYMMETRY Symmetry
INVARIANTS OneReceiver EventsIntact FramesIntact NoPacketDropped AnswerReachesSender
