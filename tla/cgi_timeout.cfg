SPECIFICATION FairSpec
CONSTANTS
  l = l
  Timer = {c, l}
  Cgi = {c}
  Period <- MCPeriod
  MAX_TIMERS = 2
  Delays = {1}
  MaxTime = 3
  Pid = {p1}
INVARIANTS
  TimersExact
  ProcExact
PROPERTY
  TimeoutEnds
