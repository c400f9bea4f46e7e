SPECIFICATION ThreadsSpec
CONSTANTS
  Inputs <- MCInputs
  buf_size = 4
  MaxRead = 2
  WsFrames = 2
  WsMessages <- MCMessages
  WsBuffer = 3
  WsWriters = {1}
  MaxPing = 1
  PingPong = TRUE
  AltMaxWorkers = 2
  AltSockets = 3
INVARIANTS
  InSync
  BodyDelivered
  WebsocketFrames
  AltSocketOwnedOnce
PROPERTIES
  ConnectionLoopEnds
  StopEnds
