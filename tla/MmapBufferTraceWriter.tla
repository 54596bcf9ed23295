------------------------ MODULE MmapBufferTraceWriter -----------------------
(***************************************************************************)
(* Recovery of a trace from the file-backed buffer of a process that died   *)
(* (MmapBufferTraceWriter::writeTrace).  The dying process is PacketLogger: *)
(* its threads may stop anywhere, leaving entries of which only some packets*)
(* are written and slots whose write never finished.                        *)
(*                                                                          *)
(* The recovering process runs on one thread: it logs a start entry into a  *)
(* fresh buffer, copies what it can read of the old one, logs the entries   *)
(* about the recovery (annotations, memory mappings, the end of the trace), *)
(* and lets TraceWriter::processTrace read the result.                      *)
(***************************************************************************)
EXTENDS PacketLogger, PacketReassembler

CONSTANTS
    ExtraSizes,         \* payload sizes of the start entry, the added entries and TRACE_END
    kExtraRecordCount   \* slots of the new buffer beyond the old capacity

ASSUME RecoveryAssumption ==
    /\ ExtraSizes \in Seq(Nat \ {0}) /\ Len(ExtraSizes) >= 2
    /\ kExtraRecordCount \in Nat

VARIABLES
    phase,      \* "alive", "copy", "log", "process", then "done" or how it failed
    cursor,     \* next position of the old buffer to copy
    copied,     \* processed_count
    dest,       \* packets written into the new buffer
    rs          \* the reassembler of processTrace

vars == <<taken, begun, done, packets, sizes, thread, phase, cursor, copied, dest, rs>>
oldVars == <<taken, begun, done, packets, sizes, thread>>

\* The i-th entry logged by the recovery, with the stream IDs of its own
\* PacketLogger.  Its bytes are <<-i, 1>>, <<-i, 2>>, ...
ExtraPayload(i) == [k \in 1 .. ExtraSizes[i] |-> <<-i, k>>]
ExtraStream(i) == (i - 1) % StreamSpace
ExtraPackets(i) ==
    LET n == (ExtraSizes[i] + kOnePacketSize - 1) \div kOnePacketSize
    IN  [j \in 1 .. n |->
            [stream |-> ExtraStream(i),
             start  |-> j = 1,
             next   |-> j < n,
             data   |-> SubSeq(ExtraPayload(i), (j - 1) * kOnePacketSize + 1,
                               IF j < n THEN j * kOnePacketSize ELSE ExtraSizes[i])]]

\* Mutant: no room for the start entry.
NewCapacityTight == Capacity + kExtraRecordCount - 1

\* Slots of the buffer the recovery allocates.
NewCapacity == Capacity + kExtraRecordCount

Init ==
    /\ LoggerInit
    /\ phase = "alive" /\ cursor = 0 /\ copied = 0
    /\ dest = <<>>
    /\ rs = NewReassembler

\* Mutant: one position too early once the buffer has wrapped.
currentTailLapped == taken - (IF taken <= Capacity THEN taken ELSE Capacity + 1)
\* currentTail(0): the earliest position that can still be readable.
currentTail == taken - (IF taken < Capacity THEN taken ELSE Capacity)

\* The process dies.  Later, the recovery logs TRACE_BACKWARDS and starts
\* copying from the tail of the old buffer.
Crash ==
    /\ phase = "alive"
    /\ phase' = "copy"
    /\ cursor' = currentTail
    /\ dest' = ExtraPackets(1)
    /\ UNCHANGED <<oldVars, copied, rs>>

\* source.tryRead(packet, cursor).
CanCopy == Buffer!Readable(cursor)

\* copyBufferEntries, one packet: dest.write(packet).
CopyPacket ==
    /\ phase = "copy"
    /\ CanCopy
    /\ dest' = Append(dest, packets[cursor + 1])
    /\ cursor' = cursor + 1
    /\ copied' = copied + 1
    /\ UNCHANGED <<oldVars, phase, rs>>

\* The loop ends at the first position that cannot be read; copying nothing
\* at all makes writeTrace throw.
CopyEnds ==
    /\ phase = "copy"
    /\ ~CanCopy
    /\ phase' = IF copied > 0 THEN "log" ELSE "throw"
    /\ UNCHANGED <<oldVars, cursor, copied, dest, rs>>

\* The entries about the recovery, up to TRACE_END.
LogExtras ==
    /\ phase = "log"
    /\ dest' = dest \o FlattenSeq([i \in 1 .. (Len(ExtraSizes) - 1) |-> ExtraPackets(i + 1)])
    /\ phase' = "process"
    /\ UNCHANGED <<oldVars, cursor, copied, rs>>

\* processTrace from the first packet of the new buffer: it misses the start
\* if the buffer has wrapped, stops at TRACE_END, and otherwise waits for a
\* packet that nobody will write.
Ended(r) == r.out # <<>> /\ Last(r.out) = ExtraPayload(Len(ExtraSizes))
ProcessTrace ==
    /\ phase = "process"
    /\ IF Len(dest) > NewCapacity
       THEN phase' = "missed" /\ UNCHANGED rs
       ELSE /\ rs' = FoldLeft(LAMBDA r, p : IF Ended(r) THEN r ELSE process(r, p), rs, dest)
            /\ phase' = IF Ended(rs') THEN "done" ELSE "stuck"
    /\ UNCHANGED <<oldVars, cursor, copied, dest>>

Next ==
    \/ phase = "alive" /\ LoggerNext /\ UNCHANGED <<phase, cursor, copied, dest, rs>>
    \/ Crash \/ CopyPacket \/ CopyEnds \/ LogExtras \/ ProcessTrace

Spec == Init /\ [][Next]_vars

-----------------------------------------------------------------------------
\* The old positions that were copied, and the entries entirely among them.
CopiedRange == (cursor - copied) .. (cursor - 1)
Of(e) == {n \in Positions : packets[n + 1].data[1][1] = e}
Whole(e) == \E n \in Of(e) : ~packets[n + 1].next
Saved == {e \in 1 .. Len(sizes) : Whole(e) /\ Of(e) \subseteq CopiedRange}

\* The copied entries that are cut off at the end: their stream stays open.
CutOff == {e \in 1 .. Len(sizes) : /\ \E n \in Of(e) \cap CopiedRange : packets[n + 1].start
                                   /\ ~Whole(e) \/ ~(Of(e) \subseteq CopiedRange)}

\* No entry cut off by the crash shares its stream ID with an added entry.
NoSharedStream ==
    \A e \in CutOff : \A i \in 2 .. Len(ExtraSizes) : StreamOf(e) # ExtraStream(i)

\* The recovered trace is the start entry, every entry of the old buffer
\* before the first torn slot, whole and in order, and all added entries.
RecoveryExact ==
    phase \in {"done", "stuck"} /\ NoSharedStream =>
        rs.out = <<ExtraPayload(1)>>
                 \o [i \in 1 .. Cardinality(Saved) |->
                       Payload(SetToSortSeq(Saved, LAMBDA d, e : Max(Of(d)) < Max(Of(e)))[i])]
                 \o [i \in 1 .. (Len(ExtraSizes) - 1) |-> ExtraPayload(i + 1)]

\* What the crash can cost: of the last Capacity positions, one that is
\* readable is left out only behind one whose write had not finished.
LostOnlyBehindTorn ==
    phase \in {"log", "throw"} =>
        \A n \in Positions : n >= taken - Capacity /\ Buffer!Readable(n) /\ n \notin CopiedRange =>
            \E m \in Positions : m < n /\ m >= taken - Capacity /\ ~Buffer!Readable(m)

\* If the entries of the recovery fit kExtraRecordCount, the new buffer holds
\* them together with all that can be copied, and the start is not missed.
StartNotMissed ==
    Len(FlattenSeq([i \in 1 .. Len(ExtraSizes) |-> ExtraPackets(i)])) <= kExtraRecordCount
        => phase # "missed"

\* "It's okay if not all entries were successfully copied": the added entries
\* still end the trace.
RecoveryEnds == phase # "stuck"
=============================================================================
