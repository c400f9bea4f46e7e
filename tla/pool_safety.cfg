SPECIFICATION Spec
CONSTANTS
  Socket = {s1, s2, s3}
  NoSocket = NoSocket
  sq_size = 2
  cfg_max_worker_threads = 3
  prespawnthreadcount = 1
  CreateMayFail = TRUE
  InitMayFail = TRUE
  PortsMayFail = TRUE
SYMMETRY SocketSymmetry
INVARIANTS
  TypeOK
  SocketOwnedOnce
  AcceptedAccounted
  IdleCountExact
  NoLostWakeup
  ThreadsGoneAtFree
PROPERTY
  FifoImplemented
