--------------------------- MODULE DeviceSimulator ---------------------------
(***************************************************************************)
(* DeviceSimulator (src/simulator/mrfsim/__init__.py): a UDP server on an  *)
(* asyncio event loop that answers MRF read/write packets from a byte     *)
(* buffer.  Its coroutines run one at a time and interleave only at an    *)
(* await or between event-loop callbacks, so each step below is the code  *)
(* between two such points:                                               *)
(*   start_server  before its await (check, new Event), and after it      *)
(*                 (endpoint ready or creation failed);                   *)
(*   the endpoint  connection_made (the endpoint serves from then on) and *)
(*                 connection_lost, which close() only schedules;         *)
(*   stop_server   runs to completion, it never suspends;                 *)
(*   wait_for_server_stopped  before and after its await;                 *)
(*   datagram_received  one packet answered atomically.                   *)
(* The k-th start_server call creates Event k and endpoint k.             *)
(***************************************************************************)
EXTENDS Integers, Sequences, SequencesExt, FiniteSets

CONSTANTS
  MemorySize,     \* memory_size given to DeviceSimulator()
  NetworkOffset,  \* network_address_offset
  Datagrams,      \* the datagrams (byte sequences) clients send
  MaxStarts,      \* start_server calls in a behaviour
  MaxStops,       \* stop_server calls in a behaviour
  Waiters,        \* tasks that call wait_for_server_stopped once
  Addresses32,    \* addresses a caller passes to write_uint32/read_uint32
  Data32,         \* 32-bit values a caller passes to write_uint32
  MaxWrites32     \* write_uint32 calls in a behaviour

None == 0
Idle == -1      \* a waiter that has not called wait_for_server_stopped
Returned == -2  \* a waiter whose call has returned
Calls == 1..MaxStarts

VARIABLES
  memory,              \* self._memory, a bytearray
  serverStoppedEvent,  \* self._server_stopped_event: None or Event k
  eventSet,            \* eventSet[k]: Event k has been set
  transport,           \* self._transport: None or endpoint k
  endpoint,            \* endpoint[k]: "none", "open", "closing", "closed"
  start,               \* start[k]: the k-th start_server call
  stops,               \* stop_server calls made
  waitOn,              \* waitOn[w]: Idle, the Event awaited, or Returned
  reply,               \* the datagram this step receives and the response
                       \* it sends; NoReply in a step that receives none
  written,             \* history: written[a], the value last written to the
                       \* word at a, or -1 once a write overlapped it
  stopReturned,        \* history: a stop_server call returned since the
                       \* last start_server call that got past its check
  writes32             \* write_uint32 calls made

vars == <<memory, serverStoppedEvent, eventSet, transport, endpoint, start,
          stops, waitOn, reply, written, stopReturned, writes32>>
Words == 0..(MemorySize - 1)

NoReply == [request |-> <<>>, response |-> <<>>]

-----------------------------------------------------------------------------
(* Python semantics of the byte buffer.                                    *)

\* bytearray[lo:hi] for 0 <= lo.
PySlice(s, lo, hi) ==
  SubSeq(s, lo + 1, IF hi > Len(s) THEN Len(s) ELSE hi)

\* int.from_bytes(b): big-endian.
FromBytes(b) == FoldLeft(LAMBDA acc, x : 256 * acc + x, 0, b)

\* Mutant: little-endian bytes.
ToBytes2LittleEndian(value) == <<value % 256, value \div 256>>

\* value.to_bytes(2): big-endian.
ToBytes2(value) == <<value \div 256, value % 256>>

\* bytearray[lo:hi] = b: the slice is replaced, the buffer may change length.
PySliceAssign(s, lo, hi, b) ==
  SubSeq(s, 1, lo) \o b \o SubSeq(s, (IF hi > Len(s) THEN Len(s) ELSE hi) + 1, Len(s))

\* Mutant: only the first byte of the word is checked against the size.
ValidAddressStartOnly(address, length) ==
  address >= 0 /\ address < Len(memory)

\* _validate_address: the whole word lies inside the memory.
ValidAddress(address, length) ==
  address >= 0 /\ address + length <= Len(memory)

\* read_uint16
ReadUint16(address) == FromBytes(PySlice(memory, address, address + 2))

\* Mutant: the value is stored as one element instead of two bytes.
WriteUint16Unsplit(address, value) ==
  PySliceAssign(memory, address, address + 2, <<value>>)

\* write_uint16
WriteUint16(address, value) ==
  PySliceAssign(memory, address, address + 2, ToBytes2(value))

\* read_uint32
ReadUint32(address) == FromBytes(PySlice(memory, address, address + 4))

\* Mutant: value.to_bytes(4, "little").
ToBytes4LittleEndian(value) == <<value % 256, (value \div 256) % 256,
                                 (value \div 65536) % 256, value \div 16777216>>

\* value.to_bytes(4): big-endian.
ToBytes4(value) == <<value \div 16777216, (value \div 65536) % 256,
                     (value \div 256) % 256, value % 256>>

\* value.to_bytes(4) raises OverflowError unless 0 <= value < 2^32 (the
\* form keeps the bound inside TLC's integers).
FitsUint32(value) == value >= 0 /\ value \div 65536 < 65536

\* write_uint32
WriteUint32(address, value) ==
  PySliceAssign(memory, address, address + 4, ToBytes4(value))

\* The history h after a write of `value` to the word at a: that word holds
\* it, and the words sharing a byte with it hold no single written value.
Overwritten(h, a, value) ==
  [b \in Words |-> IF b = a THEN value
                   ELSE IF b \in {a - 1, a + 1} THEN -1 ELSE h[b]]

-----------------------------------------------------------------------------
(* _MrfPacket: the struct "!BbHII" of a packet is access_type (unsigned   *)
(* byte), status (signed byte), data (16 bits), address and ref (32 bits), *)
(* big-endian, 12 bytes; the dataclass lists the fields in another order. *)

PacketSize == 12

\* Mutant: the unpacked address and ref are passed to _MrfPacket swapped.
DecodeAddressRefSwapped(d) ==
  [access_type |-> d[1], status |-> IF d[2] >= 128 THEN d[2] - 256 ELSE d[2],
   data |-> FromBytes(SubSeq(d, 3, 4)), address |-> FromBytes(SubSeq(d, 9, 12)),
   ref |-> FromBytes(SubSeq(d, 5, 8))]

\* _MrfPacket.decode of a datagram of PacketSize bytes.
Decode(d) ==
  [access_type |-> d[1], status |-> IF d[2] >= 128 THEN d[2] - 256 ELSE d[2],
   data |-> FromBytes(SubSeq(d, 3, 4)), address |-> FromBytes(SubSeq(d, 5, 8)),
   ref |-> FromBytes(SubSeq(d, 9, 12))]

\* _MrfPacket.encode: status -1 packs as the byte 0xFF.
Encode(packet) ==
  <<packet.access_type, packet.status % 256>> \o ToBytes2(packet.data)
  \o ToBytes4(packet.address) \o ToBytes4(packet.ref)

-----------------------------------------------------------------------------
Init ==
  /\ memory = [j \in 1..MemorySize |-> 0]
  /\ serverStoppedEvent = None
  /\ eventSet = [k \in Calls |-> FALSE]
  /\ transport = None
  /\ endpoint = [k \in Calls |-> "none"]
  /\ start = [k \in Calls |-> "idle"]
  /\ stops = 0
  /\ waitOn = [w \in Waiters |-> Idle]
  /\ reply = NoReply
  /\ written = [a \in Words |-> 0]
  /\ stopReturned = FALSE
  /\ writes32 = 0

\* The next start_server call.
NextCall == CHOOSE k \in Calls \cup {MaxStarts + 1} :
              \A j \in Calls : j < k <=> start[j] # "idle"

\* Mutant: the Event is forgotten without being set.
StoppedWithoutSet ==
  IF serverStoppedEvent = None
    THEN UNCHANGED <<serverStoppedEvent, eventSet>>
    ELSE serverStoppedEvent' = None /\ UNCHANGED eventSet

\* _stopped(): set the Event (if any) and forget it.
Stopped ==
  IF serverStoppedEvent = None
    THEN UNCHANGED <<serverStoppedEvent, eventSet>>
    ELSE /\ eventSet' = [eventSet EXCEPT ![serverStoppedEvent] = TRUE]
         /\ serverStoppedEvent' = None

\* Mutant: start_server does not check for a running server.
StartServerUnchecked ==
  LET k == NextCall IN
  /\ k <= MaxStarts
  /\ start' = [start EXCEPT ![k] = "awaiting"]
  /\ serverStoppedEvent' = k
  /\ stopReturned' = FALSE
  /\ reply' = NoReply
  /\ UNCHANGED <<writes32, memory, eventSet, transport, endpoint, stops, waitOn, written>>

\* start_server up to its await: RuntimeError if an Event exists, else a
\* new Event and the endpoint is being created.
StartServer ==
  LET k == NextCall IN
  /\ k <= MaxStarts
  /\ IF serverStoppedEvent # None
       THEN /\ start' = [start EXCEPT ![k] = "runtime_error"]
            /\ UNCHANGED <<serverStoppedEvent, stopReturned>>
       ELSE /\ start' = [start EXCEPT ![k] = "awaiting"]
            /\ serverStoppedEvent' = k
            /\ stopReturned' = FALSE
  /\ reply' = NoReply
  /\ UNCHANGED <<writes32, memory, eventSet, transport, endpoint, stops, waitOn, written>>

\* create_datagram_endpoint: the transport exists and connection_made has
\* run (the socket is read from now on) before start_server resumes.
ConnectionMade(k) ==
  /\ start[k] = "awaiting"
  /\ endpoint[k] = "none"
  /\ endpoint' = [endpoint EXCEPT ![k] = "open"]
  /\ reply' = NoReply
  /\ UNCHANGED <<writes32, memory, serverStoppedEvent, eventSet, transport, start, stops,
                 waitOn, written, stopReturned>>

\* start_server after its await, the endpoint was created.
StartServerResumes(k) ==
  /\ start[k] = "awaiting"
  /\ endpoint[k] = "open"
  /\ transport' = k
  /\ start' = [start EXCEPT ![k] = "returned"]
  /\ reply' = NoReply
  /\ UNCHANGED <<writes32, memory, serverStoppedEvent, eventSet, endpoint, stops, waitOn,
                 written, stopReturned>>

\* start_server after its await, the endpoint could not be created: the
\* except clause calls _stopped() and re-raises.
StartServerFails(k) ==
  /\ start[k] = "awaiting"
  /\ endpoint[k] = "none"
  /\ Stopped
  /\ start' = [start EXCEPT ![k] = "endpoint_error"]
  /\ reply' = NoReply
  /\ UNCHANGED <<writes32, memory, transport, endpoint, stops, waitOn, written, stopReturned>>

\* stop_server: close() only schedules connection_lost.
StopServer ==
  /\ stops < MaxStops
  /\ stops' = stops + 1
  /\ stopReturned' = TRUE
  /\ IF transport = None
       THEN UNCHANGED <<transport, endpoint>>
       ELSE /\ endpoint' = [endpoint EXCEPT ![transport] = "closing"]
            /\ transport' = None
  /\ reply' = NoReply
  /\ UNCHANGED <<writes32, memory, serverStoppedEvent, eventSet, start, waitOn, written>>

\* _MrfProtocol.connection_lost, run by the loop after close().
ConnectionLost(k) ==
  /\ endpoint[k] = "closing"
  /\ endpoint' = [endpoint EXCEPT ![k] = "closed"]
  /\ Stopped
  /\ reply' = NoReply
  /\ UNCHANGED <<writes32, memory, transport, start, stops, waitOn, written, stopReturned>>

\* wait_for_server_stopped up to its await.
WaitForServerStopped(w) ==
  /\ waitOn[w] = Idle
  /\ waitOn' = [waitOn EXCEPT ![w] =
                  IF serverStoppedEvent = None THEN Returned ELSE serverStoppedEvent]
  /\ reply' = NoReply
  /\ UNCHANGED <<writes32, memory, serverStoppedEvent, eventSet, transport, endpoint, start,
                 stops, written, stopReturned>>

\* wait_for_server_stopped after Event.wait() returned.
WaitReturns(w) ==
  /\ waitOn[w] \in Calls
  /\ eventSet[waitOn[w]]
  /\ waitOn' = [waitOn EXCEPT ![w] = Returned]
  /\ reply' = NoReply
  /\ UNCHANGED <<writes32, memory, serverStoppedEvent, eventSet, transport, endpoint, start,
                 stops, written, stopReturned>>

\* datagram_received on endpoint k: a datagram that is not PacketSize bytes
\* long is a ValueError of decode, logged, and not answered.  Otherwise the
\* packet's address minus the offset is read or written (the data field
\* has 16 bits, so write_uint16 cannot overflow), status 0, or -1 on
\* IndexError; any other access type is echoed unchanged.  The encoded
\* packet goes back on endpoint k.
DatagramReceived(k) ==
  /\ endpoint[k] = "open"
  /\ \E d \in Datagrams :
       IF Len(d) # PacketSize
         THEN reply' = [request |-> d, response |-> <<>>] /\ UNCHANGED <<memory, written>>
         ELSE
       LET packet == Decode(d)
           address == packet.address - NetworkOffset
           Send(p) == reply' = [request |-> d, response |-> Encode(p)]
       IN  CASE packet.access_type = 1 /\ ValidAddress(address, 2) ->
                  /\ Send([packet EXCEPT !.data = ReadUint16(address), !.status = 0])
                  /\ UNCHANGED <<memory, written>>
             [] packet.access_type = 2 /\ ValidAddress(address, 2) ->
                  /\ memory' = WriteUint16(address, packet.data)
                  /\ Send([packet EXCEPT !.status = 0])
                  /\ written' = Overwritten(written, address, packet.data)
             [] packet.access_type \in {1, 2} ->
                  /\ Send([packet EXCEPT !.status = -1])
                  /\ UNCHANGED <<memory, written>>
             [] OTHER ->
                  /\ Send(packet)
                  /\ UNCHANGED <<memory, written>>
  /\ UNCHANGED <<writes32, serverStoppedEvent, eventSet, transport, endpoint, start, stops,
                 waitOn, stopReturned>>

\* write_uint32, called by a client of the simulator (not the protocol):
\* IndexError for a word outside the memory, OverflowError from to_bytes
\* for a value outside 0..2^32-1; both leave the memory as it was.
WriteUint32Call ==
  /\ writes32 < MaxWrites32
  /\ writes32' = writes32 + 1
  /\ \E address \in Addresses32, value \in Data32 :
       IF ValidAddress(address, 4) /\ FitsUint32(value)
         THEN /\ memory' = WriteUint32(address, value)
              /\ written' = Overwritten(Overwritten(written, address, value \div 65536),
                                        address + 2, value % 65536)
         ELSE UNCHANGED <<memory, written>>
  /\ reply' = NoReply
  /\ UNCHANGED <<serverStoppedEvent, eventSet, transport, endpoint, start, stops,
                 waitOn, stopReturned>>

\* Client calls: start_server, stop_server, wait_for_server_stopped,
\* write_uint32.
Client ==
  \/ WriteUint32Call
  \/ StartServer
  \/ StopServer
  \/ \E w \in Waiters : WaitForServerStopped(w)

\* What the event loop runs once it is due: endpoint creation completing,
\* scheduled callbacks, resumed tasks.
Loop ==
  \E k \in Calls :
    \/ ConnectionMade(k) \/ StartServerResumes(k) \/ StartServerFails(k)
    \/ ConnectionLost(k)

Resume == \E w \in Waiters : WaitReturns(w)

Next ==
  \/ Client
  \/ Loop
  \/ Resume
  \/ \E k \in Calls : DatagramReceived(k)

(* asyncio runs every callback it has scheduled and resumes every task    *)
(* whose future is done, so these steps are weakly fair; a client is not   *)
(* obliged to call anything, and a datagram need not arrive.              *)
Spec ==
  /\ Init /\ [][Next]_vars
  /\ \A k \in Calls :
       /\ WF_vars(StartServerResumes(k))
       /\ WF_vars(ConnectionLost(k))
       /\ WF_vars(ConnectionMade(k) \/ StartServerFails(k))
  /\ \A w \in Waiters : WF_vars(WaitReturns(w))

-----------------------------------------------------------------------------
TypeOK ==
  /\ memory \in Seq(0..255)
  /\ serverStoppedEvent \in Calls \cup {None}
  /\ eventSet \in [Calls -> BOOLEAN]
  /\ transport \in Calls \cup {None}
  /\ endpoint \in [Calls -> {"none", "open", "closing", "closed"}]
  /\ start \in [Calls -> {"idle", "awaiting", "returned", "runtime_error",
                          "endpoint_error"}]
  /\ stops \in 0..MaxStops
  /\ waitOn \in [Waiters -> Calls \cup {Idle, Returned}]
  /\ reply \in [request : Datagrams \cup {<<>>},
                response : {<<>>} \cup [1..PacketSize -> 0..255]]
  /\ written \in [Words -> -1..65535]
  /\ stopReturned \in BOOLEAN
  /\ writes32 \in 0..MaxWrites32

(* While an endpoint answers packets (from connection_made until close()) *)
(* and until its connection_lost has run, the simulator's stopped-Event   *)
(* is the one its start_server call created and is not set: at most one  *)
(* endpoint serves, and wait_for_server_stopped blocks while it does.     *)
ServingEndpointOwnsEvent ==
  \A k \in Calls :
    endpoint[k] \in {"open", "closing"} =>
      serverStoppedEvent = k /\ ~eventSet[k]

(* _validate_address keeps every slice assignment of write_uint16 inside *)
(* the buffer: the bytearray keeps the size the simulator was built with. *)
MemorySizeFixed == Len(memory) = MemorySize

(* A read answered with status 0 returns the value last written to that *)
(* word (or the initial 0) as long as no write overlapped it since: the   *)
(* byte order of write_uint16 and read_uint16 agree and unaligned words  *)
(* share bytes only with their neighbours.  The reply is compared with   *)
(* the history of the state datagram_received answers in.                *)
ReadReturnsLastWrite ==
  [][LET r == reply'.response
         a == FromBytes(SubSeq(r, 5, 8)) - NetworkOffset
     IN  (r # <<>> /\ r[1] = 1 /\ r[2] = 0 /\ written[a] # -1)
           => FromBytes(SubSeq(r, 3, 4)) = written[a]]_vars

(* Every datagram of the packet size is answered, and the answer is the    *)
(* request's packet: the same access type, address and ref, the request's  *)
(* data for a write, status 0 or -1 (the byte 0xFF) for a read or write,   *)
(* and the request unchanged for any other access type; a datagram of any  *)
(* other size is not answered.  decode and encode list the fields in the   *)
(* struct's order, _MrfPacket in its own.                                  *)
ReplyAnswersRequest ==
  [][LET q == reply'.request
         r == reply'.response
     IN  q # <<>> =>
           IF Len(q) # PacketSize THEN r = <<>>
           ELSE /\ Len(r) = PacketSize
                /\ r[1] = q[1]
                /\ SubSeq(r, 5, 12) = SubSeq(q, 5, 12)
                /\ q[1] \in {1, 2} => r[2] \in {0, 255}
                /\ q[1] = 2 => SubSeq(r, 3, 4) = SubSeq(q, 3, 4)
                /\ q[1] \notin {1, 2} => r = q]_vars

(* read_uint32 and the 16-bit words agree: where the two halves of a      *)
(* 32-bit word hold the values last written to them (by write_uint16 over *)
(* the protocol or by either half of a write_uint32), read_uint32 returns *)
(* the high half followed by the low half, as write_uint32 stores it.     *)
Uint32ReadsWrittenHalves ==
  \A a \in Addresses32 :
    (ValidAddress(a, 4) /\ written[a] # -1 /\ written[a + 2] # -1) =>
      ReadUint32(a) = 65536 * written[a] + written[a + 2]

(* A task blocked in wait_for_server_stopped on the Event of an endpoint  *)
(* that stop_server closed returns: connection_lost runs _stopped(), which *)
(* sets that Event.                                                        *)
ClosedServerReleasesWaiters ==
  \A w \in Waiters, k \in Calls :
    (waitOn[w] = k /\ endpoint[k] = "closing") ~> (waitOn[w] = Returned)

(* The docstring of start_server: RuntimeError "if the server has already *)
(* been started and not stopped since".  A start_server call raises       *)
(* RuntimeError only while the server is started and not stopped: another *)
(* start_server is still awaiting its endpoint, or an endpoint is open.   *)
RestartAfterStopAllowed ==
  [][\A k \in Calls :
       (start[k] = "idle" /\ start'[k] = "runtime_error") =>
         \E j \in Calls : start[j] = "awaiting" \/ endpoint[j] = "open"]_vars

(* stop_server "stops the server": every task waiting in                  *)
(* wait_for_server_stopped when stop_server has returned eventually        *)
(* returns.                                                                *)
StopReleasesWaiters ==
  \A w \in Waiters :
    (stopReturned /\ waitOn[w] \in Calls) ~> (waitOn[w] = Returned)

=============================================================================
