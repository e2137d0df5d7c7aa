\* One task starts the server and then waits for it to stop (as main()
\* does); another calls stop_server once.
CONSTANTS
  MemorySize = 2
  NetworkOffset = 0
  Datagrams <- MCOneRead
  MaxStarts = 1
  MaxStops = 1
  Waiters = {w1}
  Addresses32 <- MCAddresses32
  Data32 <- MCData32
  MaxWrites32 = 0
SPECIFICATION Spec
PROPERTY
  StopReleasesWaiters
CHECK_DEADLOCK FALSE
