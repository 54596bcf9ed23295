---------------------------- MODULE WriteStream ----------------------------
(***************************************************************************)
(* What LockFreeRingBuffer promises (its class comment): "an unbounded      *)
(* stream of writes.  The buffer contains the last <capacity> writes but    *)
(* readers can attempt to read any part of the stream".  No sequencers, no  *)
(* futexes, no word-by-word copies: a write to a slot begins and finishes,  *)
(* and a read of stream position n is answered in one step, with exactly    *)
(* the n-th write or with a failure.                                        *)
(***************************************************************************)
EXTENDS Naturals

CONSTANTS Readers, Capacity, MaxTickets

VARIABLES
    taken,      \* stream positions handed out to writers
    begun,      \* slot -> number of writes begun
    done,       \* slot -> number of writes finished
    asked,      \* reader -> stream position of its last read
    answer,     \* reader -> "none" (open), "ok" or "fail"
    value       \* reader -> the set of writes the delivered value comes from

streamVars == <<taken, begun, done, asked, answer, value>>

StreamSlots == 0 .. (Capacity - 1)

\* Position n is in the buffer: written, and not being replaced.
Readable(n) ==
    /\ done[n % Capacity] = n \div Capacity + 1
    /\ begun[n % Capacity] = n \div Capacity + 1

StreamInit ==
    /\ taken = 0
    /\ begun = [i \in StreamSlots |-> 0]
    /\ done = [i \in StreamSlots |-> 0]
    /\ asked = [r \in Readers |-> 0]
    /\ answer = [r \in Readers |-> "none"]
    /\ value = [r \in Readers |-> {}]

Take ==
    /\ taken < MaxTickets
    /\ taken' = taken + 1
    /\ UNCHANGED <<begun, done, asked, answer, value>>

\* The writes of a slot begin in stream order, one at a time, each for a
\* position that was handed out.
Begin(i) ==
    /\ begun[i] = done[i]
    /\ begun[i] * Capacity + i < taken
    /\ begun' = [begun EXCEPT ![i] = begun[i] + 1]
    /\ UNCHANGED <<taken, done, asked, answer, value>>

Finish(i) ==
    /\ done[i] < begun[i]
    /\ done' = [done EXCEPT ![i] = done[i] + 1]
    /\ UNCHANGED <<taken, begun, asked, answer, value>>

Ask(r, n) ==
    /\ asked' = [asked EXCEPT ![r] = n]
    /\ answer' = [answer EXCEPT ![r] = "none"]
    /\ value' = [value EXCEPT ![r] = {}]
    /\ UNCHANGED <<taken, begun, done>>

Deliver(r) ==
    /\ answer[r] = "none"
    /\ Readable(asked[r])
    /\ answer' = [answer EXCEPT ![r] = "ok"]
    /\ value' = [value EXCEPT ![r] = {asked[r]}]
    /\ UNCHANGED <<taken, begun, done, asked>>

Refuse(r) ==
    /\ answer[r] = "none"
    /\ ~Readable(asked[r])
    /\ answer' = [answer EXCEPT ![r] = "fail"]
    /\ UNCHANGED <<taken, begun, done, asked, value>>

StreamNext ==
    \/ Take
    \/ \E i \in StreamSlots : Begin(i) \/ Finish(i)
    \/ \E r \in Readers, n \in 0 .. MaxTickets : Ask(r, n)
    \/ \E r \in Readers : Deliver(r) \/ Refuse(r)

StreamSpec == StreamInit /\ [][StreamNext]_streamVars
=============================================================================
