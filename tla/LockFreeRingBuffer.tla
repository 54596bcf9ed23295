------------------------- MODULE LockFreeRingBuffer -------------------------
(***************************************************************************)
(* lfrb/LockFreeRingBuffer.h: writers take consecutive tickets; ticket n    *)
(* goes to slot n % Capacity on turn n \div Capacity.  Every slot has a     *)
(* TurnSequencer: even turns allow a write to start, the odd turn that      *)
(* follows is the write in progress.  Readers carry a Cursor (a ticket      *)
(* number), may wait for its turn, and copy the slot out optimistically,    *)
(* rejecting the copy when the turn has moved on.                           *)
(*                                                                          *)
(* The payload is a Packet, copied word by word with no synchronisation:    *)
(* the copy into and out of a slot takes NumWords steps that interleave     *)
(* with the copies of other threads.  The value a write stores is           *)
(* identified by its ticket.                                                *)
(***************************************************************************)
EXTENDS TurnSequencer

CONSTANTS
    Writers,        \* threads calling write() / writeAndGetCursor()
    Readers,        \* threads calling tryRead() / waitAndTryRead()
    Capacity,       \* capacity_
    NumWords,       \* separately copied words of T
    MaxTickets      \* bound: number of writes explored

ASSUME BufferAssumption ==
    /\ Capacity \in Nat \ {0}
    /\ NumWords \in Nat \ {0}
    /\ MaxTickets \in Nat
    /\ Writers \cap Readers = {}

VARIABLES
    ticket,     \* std::atomic<uint64_t> ticket_
    state,      \* slot -> sequencer_.state_
    data,       \* slot -> word -> ticket whose value is stored (-1: none)
    pc,         \* thread -> the next step it takes
    at,         \* thread -> the ticket it writes, or its Cursor
    seen,       \* thread -> state word last loaded (CAS / futex expectation)
    copied,     \* thread -> number of words copied so far
    dest,       \* reader -> word -> what was copied out
    result      \* reader -> outcome of its last read

vars == <<ticket, state, data, pc, at, seen, copied, dest, result>>

Threads == Writers \cup Readers
Slots == 0 .. (Capacity - 1)
Words == 1 .. NumWords
Tickets == 0 .. MaxTickets

\* idx() and turn() of LockFreeRingBuffer.
idx(n) == n % Capacity
turn(n) == n \div Capacity

\* Mutants: a write does not reserve the odd turn; a read is let in one turn
\* early, while the write is in progress.
WriteTurnUndoubled(n) == turn(n) % TurnSpace
ReadTurnEarly(n) == (2 * turn(n) + 1) % TurnSpace

\* The sequencer turn a thread waits for: a write of turn t starts at 2t, a
\* read of turn t needs the write complete, 2(t + 1).
WriteTurn(n) == (2 * turn(n)) % TurnSpace
ReadTurn(n) == (2 * (turn(n) + 1)) % TurnSpace
Wanted(t) == IF t \in Writers THEN WriteTurn(at[t]) ELSE ReadTurn(at[t])
SlotOf(t) == idx(at[t])

WaitSteps == {"load", "enlist", "futex", "asleep"}
WriteSteps == {"begin", "wakeBegin", "copyIn", "end", "wakeEnd", "abort"}
ReadSteps == {"isTurn", "copyOut", "recheck"}

TypeOK ==
    /\ ticket \in Tickets
    /\ state \in [Slots -> Encoded]
    /\ data \in [Slots -> [Words -> Tickets \cup {-1}]]
    /\ pc \in [Threads -> {"idle"} \cup WaitSteps \cup WriteSteps \cup ReadSteps]
    /\ \A w \in Writers : pc[w] \notin ReadSteps
    /\ \A r \in Readers : pc[r] \notin WriteSteps
    /\ at \in [Threads -> Tickets]
    /\ seen \in [Threads -> Encoded]
    /\ copied \in [Threads -> 0 .. NumWords]
    /\ dest \in [Readers -> [Words -> Tickets \cup {-1}]]
    /\ result \in [Readers -> {"none", "ok", "fail"}]

\* allocateAt() and the constructors: ticket 0, every turn 0, empty slots.
Init ==
    /\ ticket = 0
    /\ state = [i \in Slots |-> encode(0, 0)]
    /\ data = [i \in Slots |-> [k \in Words |-> -1]]
    /\ pc = [t \in Threads |-> "idle"]
    /\ at = [t \in Threads |-> 0]
    /\ seen = [t \in Threads |-> encode(0, 0)]
    /\ copied = [t \in Threads |-> 0]
    /\ dest = [r \in Readers |-> [k \in Words |-> -1]]
    /\ result = [r \in Readers |-> "none"]

-----------------------------------------------------------------------------
(* Entry points.                                                            *)

\* write(), writeAndGetCursor(): ticket_.fetch_add(1), then slot.write(turn).
Write(w) ==
    /\ pc[w] = "idle"
    /\ ticket < MaxTickets
    /\ ticket' = ticket + 1
    /\ at' = [at EXCEPT ![w] = ticket]
    /\ pc' = [pc EXCEPT ![w] = "load"]
    /\ UNCHANGED <<state, data, seen, copied, dest, result>>

\* tryRead(): no waiting; the turn is checked before and after the copy.
TryRead(r, cursor) ==
    /\ pc[r] = "idle"
    /\ at' = [at EXCEPT ![r] = cursor]
    /\ result' = [result EXCEPT ![r] = "none"]
    /\ pc' = [pc EXCEPT ![r] = "isTurn"]
    /\ UNCHANGED <<ticket, state, data, seen, copied, dest>>

\* waitAndTryRead(): wait for the turn, then copy, then check again.
WaitAndTryRead(r, cursor) ==
    /\ pc[r] = "idle"
    /\ at' = [at EXCEPT ![r] = cursor]
    /\ result' = [result EXCEPT ![r] = "none"]
    /\ pc' = [pc EXCEPT ![r] = "load"]
    /\ UNCHANGED <<ticket, state, data, seen, copied, dest>>

-----------------------------------------------------------------------------
(* TurnSequencer::tryWaitForTurn.  The one spin before the first            *)
(* registration only repeats Load, so it is a stuttering step.              *)

\* Where tryWaitForTurn returns to: TryWaitResult::SUCCESS.
Arrived(t) == IF t \in Writers THEN "begin" ELSE "copyOut"

\* Load state_; the turn is there, or in the past, or still to come.
Load(t) ==
    LET s == state[SlotOf(t)] IN
    /\ pc[t] = "load"
    /\ \/ /\ s.turn = Wanted(t)
          /\ pc' = [pc EXCEPT ![t] = Arrived(t)]
          /\ UNCHANGED <<seen, result>>
       \/ /\ s.turn # Wanted(t)
          /\ InPast(Wanted(t), s.turn)
          /\ IF t \in Writers
             THEN /\ pc' = [pc EXCEPT ![t] = "abort"]   \* DCHECK in waitForTurn
                  /\ UNCHANGED result
             ELSE /\ pc' = [pc EXCEPT ![t] = "idle"]
                  /\ result' = [result EXCEPT ![t] = "fail"]
          /\ UNCHANGED seen
       \/ /\ s.turn # Wanted(t)
          /\ ~InPast(Wanted(t), s.turn)
          /\ pc' = [pc EXCEPT ![t] = "enlist"]
          /\ seen' = [seen EXCEPT ![t] = s]
          /\ UNCHANGED result
    /\ UNCHANGED <<ticket, state, data, at, copied, dest>>

\* Make the waiters field cover our distance, by CAS unless it already does;
\* a failed CAS goes back to Load.
Enlist(t) ==
    LET i == SlotOf(t)
        ours == WaiterDelta(Wanted(t), seen[t].turn)
        new == IF ours <= seen[t].delta
               THEN seen[t]
               ELSE encode(seen[t].turn, ours)
    IN  /\ pc[t] = "enlist"
        /\ \/ /\ new = seen[t]
              /\ pc' = [pc EXCEPT ![t] = "futex"]
              /\ UNCHANGED <<state, seen>>
           \/ /\ new # seen[t]
              /\ state[i] = seen[t]
              /\ state' = [state EXCEPT ![i] = new]
              /\ seen' = [seen EXCEPT ![t] = new]
              /\ pc' = [pc EXCEPT ![t] = "futex"]
           \/ /\ new # seen[t]
              /\ state[i] # seen[t]
              /\ pc' = [pc EXCEPT ![t] = "load"]
              /\ UNCHANGED <<state, seen>>
        /\ UNCHANGED <<ticket, data, at, copied, dest, result>>

\* futexWait(new_state, channel): the kernel sleeps the thread only if the
\* word still has the expected value.
FutexWait(t) ==
    /\ pc[t] = "futex"
    /\ pc' = [pc EXCEPT ![t] = IF state[SlotOf(t)] = seen[t]
                               THEN "asleep" ELSE "load"]
    /\ UNCHANGED <<ticket, state, data, at, seen, copied, dest, result>>

\* FutexResult::INTERRUPTED: a signal ends the sleep; the loop starts over.
Interrupted(t) ==
    /\ pc[t] = "asleep"
    /\ pc' = [pc EXCEPT ![t] = "load"]
    /\ UNCHANGED <<ticket, state, data, at, seen, copied, dest, result>>

-----------------------------------------------------------------------------
(* RingBufferSlot::write after waitForTurn, with completeTurn's CAS loop     *)
(* (which only repeats when a waiter enlisted in between) and futexWake.     *)

\* The DCHECK at the head of completeTurn.
TurnHeld(w, t) == state[SlotOf(w)].turn = t

\* completeTurn(t): CAS to the next turn; wake if somebody is registered.
CompleteTurn(w, t, wake, next) ==
    LET s == state[SlotOf(w)] IN
    IF TurnHeld(w, t)
    THEN /\ state' = [state EXCEPT ![SlotOf(w)] = Completed(s, t)]
         /\ pc' = [pc EXCEPT ![w] = IF s.delta # 0 THEN wake ELSE next]
    ELSE /\ pc' = [pc EXCEPT ![w] = "abort"]
         /\ UNCHANGED state

BeginWrite(w) ==
    /\ pc[w] = "begin"
    /\ CompleteTurn(w, WriteTurn(at[w]), "wakeBegin", "copyIn")
    /\ copied' = [copied EXCEPT ![w] = 0]
    /\ UNCHANGED <<ticket, data, at, seen, dest, result>>

\* data = value.
CopyIn(w) ==
    /\ pc[w] = "copyIn"
    /\ data' = [data EXCEPT ![SlotOf(w)][copied[w] + 1] = at[w]]
    /\ copied' = [copied EXCEPT ![w] = copied[w] + 1]
    /\ pc' = [pc EXCEPT ![w] = IF copied[w] + 1 = NumWords THEN "end" ELSE "copyIn"]
    /\ UNCHANGED <<ticket, state, at, seen, dest, result>>

EndWrite(w) ==
    /\ pc[w] = "end"
    /\ CompleteTurn(w, (WriteTurn(at[w]) + 1) % TurnSpace, "wakeEnd", "idle")
    /\ UNCHANGED <<ticket, data, at, seen, copied, dest, result>>

\* Mutant: the wake goes to the channel of the completed turn.
WokenTurnCompleted(w) == IF pc[w] = "wakeBegin" THEN WriteTurn(at[w])
                         ELSE (WriteTurn(at[w]) + 1) % TurnSpace

\* The turn whose waiters a completed turn wakes.
WokenTurn(w) == IF pc[w] = "wakeBegin" THEN (WriteTurn(at[w]) + 1) % TurnSpace
                ELSE ReadTurn(at[w])

\* futexWake(INT_MAX, futexChannel(turn + 1)) on the slot's word.
FutexWake(w) ==
    /\ pc[w] \in {"wakeBegin", "wakeEnd"}
    /\ pc' = [t \in Threads |->
                IF t = w THEN IF pc[w] = "wakeBegin" THEN "copyIn" ELSE "idle"
                ELSE IF /\ pc[t] = "asleep"
                        /\ SlotOf(t) = SlotOf(w)
                        /\ futexChannel(Wanted(t)) = futexChannel(WokenTurn(w))
                     THEN "load" ELSE pc[t]]
    /\ UNCHANGED <<ticket, state, data, at, seen, copied, dest, result>>

-----------------------------------------------------------------------------
(* RingBufferSlot::tryRead and the tail of waitAndTryRead.                  *)

\* The first isTurn() of tryRead.
IsTurn(r) ==
    /\ pc[r] = "isTurn"
    /\ IF state[SlotOf(r)].turn = ReadTurn(at[r])
       THEN /\ pc' = [pc EXCEPT ![r] = "copyOut"]
            /\ UNCHANGED result
       ELSE /\ pc' = [pc EXCEPT ![r] = "idle"]
            /\ result' = [result EXCEPT ![r] = "fail"]
    /\ UNCHANGED <<ticket, state, data, at, seen, copied, dest>>

\* dest = data, one word at a time.
CopyOut(r) ==
    /\ pc[r] = "copyOut"
    /\ dest' = [dest EXCEPT ![r][copied[r] + 1] = data[SlotOf(r)][copied[r] + 1]]
    /\ IF copied[r] + 1 = NumWords
       THEN /\ pc' = [pc EXCEPT ![r] = "recheck"]
            /\ copied' = [copied EXCEPT ![r] = 0]
       ELSE /\ copied' = [copied EXCEPT ![r] = copied[r] + 1]
            /\ UNCHANGED pc
    /\ UNCHANGED <<ticket, state, data, at, seen, result>>

\* The second isTurn(): "if it's still the same turn, we read the value
\* successfully".
Recheck(r) ==
    /\ pc[r] = "recheck"
    /\ result' = [result EXCEPT ![r] =
                    IF state[SlotOf(r)].turn = ReadTurn(at[r]) THEN "ok" ELSE "fail"]
    /\ pc' = [pc EXCEPT ![r] = "idle"]
    /\ UNCHANGED <<ticket, state, data, at, seen, copied, dest>>

-----------------------------------------------------------------------------
\* The steps a thread takes once it is inside a call.
WaitStep(t) == Load(t) \/ Enlist(t) \/ FutexWait(t)
WriterStep(w) == WaitStep(w) \/ BeginWrite(w) \/ CopyIn(w) \/ EndWrite(w) \/ FutexWake(w)
ReaderStep(r) == WaitStep(r) \/ IsTurn(r) \/ CopyOut(r) \/ Recheck(r)

Next ==
    \/ \E w \in Writers : Write(w) \/ WriterStep(w)
    \/ \E r \in Readers, cursor \in Tickets : TryRead(r, cursor) \/ WaitAndTryRead(r, cursor)
    \/ \E r \in Readers : ReaderStep(r)
    \/ \E t \in Threads : Interrupted(t)

Spec == Init /\ [][Next]_vars

\* A thread inside a call is scheduled again; nobody has to start a call and
\* no signal has to arrive.
Fairness ==
    /\ \A w \in Writers : WF_vars(WriterStep(w))
    /\ \A r \in Readers : WF_vars(ReaderStep(r))

FairSpec == Spec /\ Fairness
-----------------------------------------------------------------------------
(* Properties.                                                              *)

\* A writer is inside its call, from fetch_add to the return of slot.write.
Writing(w) == pc[w] # "idle"

\* RingBufferSlot::write "only ever has one writer": no two threads are
\* between the two completeTurn calls of the same slot.
InSlot(w) == pc[w] \in {"wakeBegin", "copyIn", "end"}
OneWriterPerSlot ==
    \A v, w \in Writers : v # w /\ InSlot(v) /\ InSlot(w) => SlotOf(v) # SlotOf(w)

\* The DCHECKs of waitForTurn and completeTurn never abort the process: a
\* writer's turn is never in the past and is still its own when it ends it.
ChecksHold == \A w \in Writers : pc[w] # "abort"

\* A read reported as successful delivered exactly the value written with the
\* cursor's ticket: never a mix of two writes, never a later or earlier one.
ReadIsExact ==
    \A r \in Readers : result[r] = "ok" => \A k \in Words : dest[r][k] = at[r]

\* A waiter asleep on the futex is still going to be woken: its turn has not
\* arrived and the waiters field reaches the next wake of its channel, or a
\* writer of the slot is about to issue a wake on its channel.
NextWake(t) == ((WaiterDelta(Wanted(t), state[SlotOf(t)].turn) - 1) % NumChannels) + 1
NoLostWakeup ==
    \A t \in Threads : pc[t] = "asleep" =>
        \/ /\ state[SlotOf(t)].turn # Wanted(t)
           /\ ~InPast(Wanted(t), state[SlotOf(t)].turn)
           /\ state[SlotOf(t)].delta >= NextWake(t)
        \/ \E w \in Writers :
              /\ pc[w] \in {"wakeBegin", "wakeEnd"}
              /\ SlotOf(w) = SlotOf(t)
              /\ futexChannel(Wanted(t)) = futexChannel(WokenTurn(w))

\* "Writers cannot block on other writers UNLESS they are <capacity> writes
\* apart. Writers cannot block on readers": a writer asleep has an earlier
\* writer of the same slot still inside its call.
WriterBlocksOnlyOnLappedWriter ==
    \A w \in Writers : pc[w] = "asleep" =>
        \E v \in Writers : Writing(v) /\ SlotOf(v) = SlotOf(w) /\ at[v] < at[w]

\* A reader that waited, or that already found its turn, loses its entry only
\* if the writers lapped it: more than Capacity tickets were taken since.
ReadFailsOnlyWhenLapped ==
    [][\A r \in Readers :
          pc[r] # "isTurn" /\ result[r] = "none" /\ result'[r] = "fail"
             => at[r] + Capacity < ticket]_vars

\* Every write completes: no thread is left asleep for good.
WriteCompletes == \A w \in Writers : pc[w] = "load" ~> pc[w] = "idle"

\* A reader waiting for an entry whose ticket was taken gets an answer.
ReadReturns ==
    \A r \in Readers : (pc[r] = "asleep" /\ at[r] < ticket) ~> pc[r] = "idle"
=============================================================================
