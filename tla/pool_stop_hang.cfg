SPECIFICATION FairSpec
CONSTANTS
  Socket = {s1, s2, s3}
  NoSocket = NoSocket
  sq_size = 1
  cfg_max_worker_threads = 1
  prespawnthreadcount = 1
  CreateMayFail = FALSE
  InitMayFail = FALSE
  PortsMayFail = FALSE
PROPERTY
  StopCompletes
