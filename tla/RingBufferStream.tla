-------------------------- MODULE RingBufferStream --------------------------
(***************************************************************************)
(* LockFreeRingBuffer implements WriteStream, as long as the turns fit the  *)
(* turn space.  The sequencer turn of a slot counts its writes: turn 2k is  *)
(* k writes finished, turn 2k + 1 the (k+1)-th in progress.                 *)
(***************************************************************************)
EXTENDS LockFreeRingBuffer

\* The turns of the first MaxTickets tickets stay in the lower half of the
\* turn space (2^24 laps of the buffer), so no comparison wraps.
NoWrap == 2 * (turn(MaxTickets) + 1) < TurnSpace \div 2

Stream == INSTANCE WriteStream WITH
    taken  <- ticket,
    begun  <- [i \in Slots |-> (state[i].turn + 1) \div 2],
    done   <- [i \in Slots |-> state[i].turn \div 2],
    asked  <- [r \in Readers |-> at[r]],
    answer <- result,
    value  <- [r \in Readers |->
                 IF result[r] = "ok" THEN {dest[r][k] : k \in Words} ELSE {}]

\* The ring buffer is an unbounded stream of writes: every step of the code
\* is a step of WriteStream or leaves the stream unchanged.
ImplementsStream == Stream!StreamSpec
=============================================================================
