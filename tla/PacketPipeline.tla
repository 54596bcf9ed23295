--------------------------- MODULE PacketPipeline ---------------------------
(***************************************************************************)
(* A reader of the packets that PacketLogger writes concurrently: the loop  *)
(* of TraceWriter::processTrace (forward, from a cursor), traceBackwards    *)
(* (from before a cursor) and TraceWriter::dump (from the head, backwards). *)
(* The reader has processed exactly the positions lo .. hi - 1.             *)
(***************************************************************************)
EXTENDS PacketLogger, PacketReassembler

VARIABLES
    mode,       \* "off", "forward", "backward", "dump", "missed", "walked" or "dumped"
    lo, hi,     \* positions processed so far
    rs,         \* the reassembler
    quiet       \* history: the head at dump() if no call was open, else -1

vars == <<taken, begun, done, packets, sizes, thread, mode, lo, hi, rs, quiet>>

\* Cursor::moveBackward(): stops at 0.
moveBackward(n) == IF n = 0 THEN 0 ELSE n - 1

Init ==
    /\ LoggerInit
    /\ mode = "off" /\ lo = 0 /\ hi = 0
    /\ rs = NewReassembler
    /\ quiet = -1

\* submit(cursor): forward from the first packet of an entry whose call returned.
Submit(t) ==
    /\ mode = "off"
    /\ thread[t].pc = "idle" /\ thread[t].cursor >= 0
    /\ mode' = "forward"
    /\ lo' = thread[t].cursor /\ hi' = thread[t].cursor
    /\ UNCHANGED <<taken, begun, done, packets, sizes, thread, rs, quiet>>

\* traceBackwards(cursor): backCursor starts one position before the cursor.
TraceBackwards(t) ==
    /\ mode = "off"
    /\ thread[t].pc = "idle" /\ thread[t].cursor >= 0
    /\ mode' = "backward"
    /\ lo' = moveBackward(thread[t].cursor) + 1 /\ hi' = lo'
    /\ UNCHANGED <<taken, begun, done, packets, sizes, thread, rs, quiet>>

\* dump(): the head, moved back once here and once more by traceBackwards.
Dump ==
    /\ mode = "off"
    /\ mode' = "dump"
    /\ lo' = moveBackward(moveBackward(taken)) + 1 /\ hi' = lo'
    /\ quiet' = IF \A t \in Threads : thread[t].pc = "idle" THEN taken ELSE -1
    /\ UNCHANGED <<taken, begun, done, packets, sizes, thread, rs>>

\* waitAndTryRead(cursor) returns once position hi is written; the read fails
\* if the slot is already being reused, and the trace is aborted.
ReadForward ==
    /\ mode = "forward"
    /\ done[idx(hi)] > turn(hi)
    /\ IF Buffer!Readable(hi)
       THEN /\ rs' = process(rs, packets[hi + 1])
            /\ hi' = hi + 1
            /\ UNCHANGED mode
       ELSE /\ mode' = "missed"
            /\ UNCHANGED <<hi, rs>>
    /\ UNCHANGED <<taken, begun, done, packets, sizes, thread, lo, quiet>>

\* Mutant: the walk ends before it reads position 0.
ReadBackwardShort ==
    /\ mode \in {"backward", "dump"}
    /\ IF lo > 1 /\ Buffer!Readable(lo - 1)
       THEN /\ rs' = processBackwards(rs, packets[lo])
            /\ lo' = lo - 1
            /\ UNCHANGED mode
       ELSE /\ mode' = IF mode = "dump" THEN "dumped" ELSE "walked"
            /\ UNCHANGED <<lo, rs>>
    /\ UNCHANGED <<taken, begun, done, packets, sizes, thread, hi, quiet>>

\* One round of the loop of traceBackwards: tryRead does not wait, and the
\* walk ends at the first position that cannot be read or at position 0.
ReadBackward ==
    /\ mode \in {"backward", "dump"}
    /\ IF Buffer!Readable(lo - 1)
       THEN /\ rs' = processBackwards(rs, packets[lo])
            /\ lo' = lo - 1
            /\ mode' = IF lo' > 0 THEN mode ELSE IF mode = "dump" THEN "dumped" ELSE "walked"
       ELSE /\ mode' = IF mode = "dump" THEN "dumped" ELSE "walked"
            /\ UNCHANGED <<lo, rs>>
    /\ UNCHANGED <<taken, begun, done, packets, sizes, thread, hi, quiet>>

Next ==
    \/ LoggerNext /\ UNCHANGED <<mode, lo, hi, rs, quiet>>
    \/ \E t \in Threads : Submit(t) \/ TraceBackwards(t)
    \/ Dump \/ ReadForward \/ ReadBackward

Spec == Init /\ [][Next]_vars

-----------------------------------------------------------------------------
\* The positions of an entry's packets, and whether all of them are there.
Of(e) == {n \in Positions : packets[n + 1].data[1][1] = e}
Whole(e) == \E n \in Of(e) : ~packets[n + 1].next

\* The entries all of whose packets the reader has processed.
Read == {e \in 1 .. Len(sizes) : Whole(e) /\ \A n \in Of(e) : lo <= n /\ n < hi}

\* Reading forward delivers exactly the payloads of the entries read so far,
\* each once and intact, ordered by their last packets.
ForwardExact ==
    mode \in {"forward", "missed"} =>
        rs.out = [i \in 1 .. Cardinality(Read) |->
                    Payload(SetToSortSeq(Read, LAMBDA d, e : Max(Of(d)) < Max(Of(e)))[i])]

\* Reading backwards delivers the same payloads, intact although every packet
\* was met in reverse, ordered by their first packets from the newest.
BackwardExact ==
    mode \in {"backward", "dump", "walked", "dumped"} =>
        rs.out = [i \in 1 .. Cardinality(Read) |->
                    Payload(SetToSortSeq(Read, LAMBDA d, e : Min(Of(d)) > Min(Of(e)))[i])]

\* At most one stream per logging thread is ever being collected: what the
\* reassembler holds does not grow with the length of the trace.
BoundedStreams == Len(rs.active) <= Cardinality(Threads)

\* A dump of a buffer nobody writes to meanwhile delivers every entry that is
\* entirely in the buffer, but for the one that ends with the newest packet.
InBuffer(e) == Whole(e) /\ \A n \in Of(e) : Buffer!Readable(n)
DumpReaches ==
    mode = "dumped" /\ quiet = taken =>
        {e \in 1 .. Len(sizes) : InBuffer(e) /\ taken - 1 \notin Of(e)} \subseteq Read
=============================================================================
