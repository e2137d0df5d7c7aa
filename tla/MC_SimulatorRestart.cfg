\* start_server returns, stop_server closes the endpoint, start_server: the
\* second start runs before the loop has called connection_lost for it.
CONSTANTS
  MemorySize = 2
  NetworkOffset = 0
  Datagrams <- MCOneRead
  MaxStarts = 2
  MaxStops = 1
  Waiters = {}
  Addresses32 <- MCAddresses32
  Data32 <- MCData32
  MaxWrites32 = 0
SPECIFICATION Spec
PROPERTY
  RestartAfterStopAllowed
CHECK_DEADLOCK FALSE
