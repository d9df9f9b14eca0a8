SPECIFICATION FairSpec
CONSTANTS
  Hosts = 1
  PoolSize = 2
  Fd = {1, 2, 3, 4, 5}
  OtherFd = {1, 2}
  ReloadBusy = FALSE
  N = 2
  Persistent = {1, 2}
  Blackhole = {}
  HostOf <- OneHost
  DistThreads = {1, 2}
  RetriesMax = 1
  Delay = TRUE
  LateWait = FALSE
  LateMark = FALSE
  LateBody = TRUE
  ReserveLimit = 8
INVARIANT AgentsAccounted
