---------------------------- MODULE MC_Simulator ----------------------------
(* Inputs of the simulator runs that a configuration file cannot write.    *)
EXTENDS DeviceSimulator

\* write_uint32 and read_uint32 at the word before, at and after the only
\* 32-bit word of a 4-byte memory.
MCAddresses32 == {-1, 0, 1}

\* 0x01020304 has four different bytes; to_bytes(4) raises OverflowError
\* for -1.  (TLC's integers stop below 2^31, so the high byte stays small.)
MCData32 == {16909060, -1}

\* The MRF packet layout a client sends: access type, status, data,
\* address, ref, big-endian, as the struct "!BbHII" reads it.
Wire(accessType, status, data, address, ref) ==
  <<accessType, status % 256, data \div 256, data % 256>>
  \o <<address \div 16777216, (address \div 65536) % 256, (address \div 256) % 256, address % 256>>
  \o <<ref \div 16777216, (ref \div 65536) % 256, (ref \div 256) % 256, ref % 256>>

\* A ref of four different bytes, 0x0A0B0C0D.
Ref == 168496141

\* Reads, writes of 0x0102 and an unknown access type at the packet
\* addresses 0..4, and a datagram one byte short.
MCDatagrams ==
  {Wire(t, 0, 258, a, Ref) : t \in {1, 2, 3}, a \in 0..4}
  \cup {SubSeq(Wire(1, 0, 0, 0, Ref), 1, 11)}

\* One read at address 0.
MCOneRead == {Wire(1, 0, 0, 0, Ref)}

\* The state without reply: no step reads reply, so two states that differ
\* only in it have the same futures.  The reply a step sends is still seen
\* by the action properties, which TLC checks on every step it generates.
SimulatorView ==
  <<memory, serverStoppedEvent, eventSet, transport, endpoint, start, stops,
    waitOn, written, stopReturned, writes32>>
=============================================================================
