\* One simulator: three start_server calls, two stop_server calls and two
\* waiting tasks reach a restart, a start_server that raises, a failed
\* endpoint and a stop_server during start_server's await.  Packets are
\* handled throughout: four bytes of memory at network offset 1 make the
\* packet addresses 0..4 the memory addresses -1 (negative), 0, 1, 2 (words
\* sharing bytes with each other and with the 32-bit word at 0) and 3 (the
\* word ends past the buffer); a datagram one byte short is sent too.  One
\* write_uint32 call goes to -1, 0 or 1 (its word ends past the buffer).
\* 258 = 0x0102 has two different bytes.  The view leaves out reply, the
\* output of a step that no step reads.
CONSTANTS
  MemorySize = 4
  NetworkOffset = 1
  Datagrams <- MCDatagrams
  MaxStarts = 3
  MaxStops = 2
  Waiters = {w1, w2}
  Addresses32 <- MCAddresses32
  Data32 <- MCData32
  MaxWrites32 = 1
SPECIFICATION Spec
VIEW SimulatorView
INVARIANTS
  TypeOK
  MemorySizeFixed
  Uint32ReadsWrittenHalves
  ServingEndpointOwnsEvent
PROPERTIES
  ReadReturnsLastWrite
  ReplyAnswersRequest
  ClosedServerReleasesWaiters
\* The simulator stops doing anything once the clients stop calling it.
CHECK_DEADLOCK FALSE
