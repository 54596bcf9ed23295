---------------------------- MODULE PacketLogger ----------------------------
(***************************************************************************)
(* PacketLogger::writeAndGetCursor: threads split the payloads of log       *)
(* entries into packets and write them into one trace buffer, interleaved.  *)
(* The buffer is the abstract stream of WriteStream, which LockFreeRingBuffer*)
(* implements: a packet takes a position, waits until the previous write of *)
(* its slot is finished, and is copied in.                                  *)
(*                                                                          *)
(* Entry e is the e-th call to take a stream ID.  Its payload is the bytes  *)
(* <<e, 1>>, <<e, 2>>, ...: enough to tell whose bytes are where.           *)
(***************************************************************************)
EXTENDS Integers, Sequences, FiniteSets

CONSTANTS
    Threads,            \* threads that log
    Capacity,           \* slots of the trace buffer
    kOnePacketSize,     \* sizeof(Packet::data)
    Sizes,              \* payload sizes; a size of 0 throws before any effect
    StreamSpace,        \* values of StreamID (2^32)
    MaxEntries,         \* bound: entries logged
    MaxTickets          \* bound: packets written

ASSUME LoggerAssumption ==
    /\ Capacity \in Nat \ {0} /\ kOnePacketSize \in Nat \ {0} /\ StreamSpace \in Nat \ {0}
    /\ Sizes \subseteq Nat \ {0}
    /\ MaxEntries \in Nat /\ MaxTickets \in Nat

VARIABLES
    taken, begun, done, \* the buffer: see WriteStream
    packets,            \* packets[n + 1] is the packet of stream position n
    sizes,              \* sizes[e] is the payload size of entry e
    thread              \* thread -> its call, see NoCall

loggerVars == <<taken, begun, done, packets, sizes, thread>>

Buffer == INSTANCE WriteStream WITH Readers <- {}, asked <- <<>>, answer <- <<>>, value <- <<>>

idx(n) == n % Capacity
turn(n) == n \div Capacity
Positions == 0 .. (taken - 1)

\* entry being written, bytes written, position of the current packet and the
\* returned cursor: the position of the first packet.
NoCall == [pc |-> "idle", entry |-> 0, offset |-> 0, ticket |-> 0, cursor |-> -1]

StreamOf(e) == (e - 1) % StreamSpace
Payload(e) == [i \in 1 .. sizes[e] |-> <<e, i>>]

\* The packet of entry e at a byte offset.
PacketAt(e, offset) ==
    LET remaining == sizes[e] - offset
        size == IF remaining > kOnePacketSize THEN kOnePacketSize ELSE remaining
    IN  [stream |-> StreamOf(e),
         start  |-> offset = 0,
         next   |-> remaining > kOnePacketSize,
         data   |-> [i \in 1 .. size |-> <<e, offset + i>>]]

LoggerInit ==
    /\ Buffer!StreamInit
    /\ packets = <<>>
    /\ sizes = <<>>
    /\ thread = [t \in Threads |-> NoCall]

\* writeAndGetCursor is called with a payload of n bytes: streamID_.fetch_add(1).
Log(t, n) ==
    /\ thread[t].pc = "idle"
    /\ Len(sizes) < MaxEntries
    /\ sizes' = Append(sizes, n)
    /\ thread' = [thread EXCEPT ![t] = [NoCall EXCEPT !.pc = "packet", !.entry = Len(sizes) + 1]]
    /\ UNCHANGED <<taken, begun, done, packets>>

\* The loop body: build the packet and take its position in the stream.
WritePacket(t) ==
    /\ thread[t].pc = "packet"
    /\ Buffer!Take
    /\ packets' = Append(packets, PacketAt(thread[t].entry, thread[t].offset))
    /\ thread' = [thread EXCEPT ![t].pc = "slot", ![t].ticket = taken,
                                ![t].cursor = IF thread[t].offset = 0 THEN taken ELSE @]
    /\ UNCHANGED sizes

\* The slot's previous write is finished: the write of this packet begins.
BeginPacket(t) ==
    /\ thread[t].pc = "slot"
    /\ begun[idx(thread[t].ticket)] = turn(thread[t].ticket)
    /\ Buffer!Begin(idx(thread[t].ticket))
    /\ thread' = [thread EXCEPT ![t].pc = "copy"]
    /\ UNCHANGED <<packets, sizes>>

\* The packet is readable; offset += write_size, and the loop goes on or the
\* call returns.
FinishPacket(t) ==
    LET p == packets[thread[t].ticket + 1]
    IN  /\ thread[t].pc = "copy"
        /\ Buffer!Finish(idx(thread[t].ticket))
        /\ thread' = [thread EXCEPT ![t].pc = IF p.next THEN "packet" ELSE "idle",
                                    ![t].offset = @ + Len(p.data)]
        /\ UNCHANGED <<packets, sizes>>

LoggerStep(t) == WritePacket(t) \/ BeginPacket(t) \/ FinishPacket(t)
LoggerNext == \E t \in Threads : LoggerStep(t) \/ \E n \in Sizes : Log(t, n)
=============================================================================
