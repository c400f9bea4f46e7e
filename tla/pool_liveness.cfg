SPECIFICATION FairSpec
CONSTANTS
  Socket = {s1, s2, s3}
  NoSocket = NoSocket
  sq_size = 3
  cfg_max_worker_threads = 2
  prespawnthreadcount = 1
  CreateMayFail = FALSE
  InitMayFail = FALSE
  PortsMayFail = TRUE
INVARIANT
  ScalesToLoad
PROPERTIES
  QueuedTaken
  StopCompletes
