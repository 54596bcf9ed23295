------------------------- MODULE PacketReassembler --------------------------
(***************************************************************************)
(* PacketReassembler as functions on its state: the list of streams being   *)
(* collected, the pool of recycled streams, and the payloads handed to the  *)
(* callback.                                                                *)
(***************************************************************************)
EXTENDS Naturals, Sequences, SequencesExt, FiniteSetsExt

CONSTANT kStreamPoolSize

NewReassembler ==
    [active |-> <<>>, pool |-> [i \in 1 .. kStreamPoolSize |-> <<>>], out |-> <<>>]

\* The bytes a new stream starts with, and the pool without that stream.
newStream(r) == IF r.pool # <<>> THEN Head(r.pool) ELSE <<>>
TakenFromPool(r) == IF r.pool # <<>> THEN Tail(r.pool) ELSE r.pool

\* Mutant: the recycled stream keeps its bytes.
recycleStreamDirty(pool, data) ==
    IF Len(pool) < kStreamPoolSize THEN Append(pool, data) ELSE pool

\* stream.data.resize(0), then back to the pool if there is room.
recycleStream(pool, data) ==
    IF Len(pool) < kStreamPoolSize THEN Append(pool, <<>>) ELSE pool

\* appendToStream: more bytes for the i-th active stream.
AppendTo(r, i, bytes) == [r EXCEPT !.active[i].data = @ \o bytes]

\* Mutant: a flushed stream is copied to the pool but never erased.
FlushKeepingStream(r, i, payload) ==
    [r EXCEPT !.pool = recycleStream(r.pool, r.active[i].data),
              !.out = Append(@, payload)]

\* Flush the i-th active stream: the callback, erase, recycle.
Flush(r, i, payload) ==
    [active |-> RemoveAt(r.active, i),
     pool |-> recycleStream(r.pool, r.active[i].data),
     out |-> Append(r.out, payload)]

\* active_streams_.push_front of a stream with the packet's bytes.
Open(r, p, bytes) ==
    [r EXCEPT !.active = <<[stream |-> p.stream, data |-> newStream(r) \o bytes]>> \o @,
              !.pool = TakenFromPool(r)]

StreamsOf(r, p) == {i \in DOMAIN r.active : r.active[i].stream = p.stream}

\* A packet of the first active stream with its stream ID extends it and, if
\* it is the entry's last, flushes it; otherwise only a first packet counts.
process(r, p) ==
    LET i == Min(StreamsOf(r, p))
        appended == AppendTo(r, i, p.data)
    IN  IF StreamsOf(r, p) # {}
        THEN IF ~p.next THEN Flush(appended, i, appended.active[i].data) ELSE appended
        ELSE IF p.start /\ ~p.next THEN [r EXCEPT !.out = Append(@, p.data)]
        ELSE IF p.start THEN Open(r, p, p.data)
        ELSE r

\* Mutant: the first packet read backwards is kept in forward order.
processBackwardsUnreversed(r, p) ==
    LET i == Min(StreamsOf(r, p))
        appended == AppendTo(r, i, Reverse(p.data))
    IN  IF StreamsOf(r, p) # {}
        THEN IF p.start THEN Flush(appended, i, Reverse(appended.active[i].data)) ELSE appended
        ELSE IF p.start /\ ~p.next THEN [r EXCEPT !.out = Append(@, p.data)]
        ELSE IF ~p.next THEN Open(r, p, p.data)
        ELSE r

\* The same from the newest packet: bytes are collected in reverse, and
\* reversed once more when the entry's first packet is met.
processBackwards(r, p) ==
    LET i == Min(StreamsOf(r, p))
        appended == AppendTo(r, i, Reverse(p.data))
    IN  IF StreamsOf(r, p) # {}
        THEN IF p.start THEN Flush(appended, i, Reverse(appended.active[i].data)) ELSE appended
        ELSE IF p.start /\ ~p.next THEN [r EXCEPT !.out = Append(@, p.data)]
        ELSE IF ~p.next THEN Open(r, p, Reverse(p.data))
        ELSE r
=============================================================================
