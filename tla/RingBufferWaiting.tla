------------------------- MODULE RingBufferWaiting --------------------------
(***************************************************************************)
(* The steps of tryWaitForTurn, and futexWake, preserve the invariant.      *)
(***************************************************************************)
EXTENDS RingBufferInvariant

\* A writer's turn is never in the past while its slot has not passed it.
LEMMA NotPast ==
    ASSUME NoWrap, NEW n \in Tickets, NEW c \in Turns, c <= 2 * turn(n)
    PROVE  ~InPast(WriteTurn(n), c)
<1>1. /\ turn(n) \in Nat /\ 2 * turn(n) + 2 < TurnSpace \div 2 /\ 2 * turn(n) + 2 < TurnSpace
      /\ WriteTurn(n) = 2 * turn(n)
  BY TicketFacts
<1>2. c \in Nat /\ TurnSpace \in Nat \ {0} /\ TurnSpace \div 2 \in Nat
  BY SequencerAssumption DEF Turns
<1>3. 2 * turn(n) - c \in Nat /\ 2 * turn(n) - c < TurnSpace
  BY <1>1, <1>2
<1>4. (2 * turn(n) - c) % TurnSpace = 2 * turn(n) - c
  BY <1>2, <1>3, ModSmall
<1> QED BY <1>1, <1>2, <1>4 DEF InPast, WaiterDelta

\* Load of tryWaitForTurn: the turn a writer finds is its own or still to come.
LEMMA LoadKeeps ==
    ASSUME NoWrap, IInv, NEW t \in Threads, Load(t)
    PROVE  IInv'
<1>1. /\ pc[t] = "load" /\ state[SlotOf(t)] \in Encoded /\ T(SlotOf(t)) \in Turns
      /\ at[t] \in Tickets /\ turn(at[t]) \in Nat
      /\ WriteTurn(at[t]) = 2 * turn(at[t]) /\ ReadTurn(at[t]) = 2 * turn(at[t]) + 2
      /\ UNCHANGED <<ticket, state, data, at, copied, dest>>
  BY ThreadFacts DEF Load
<1>2. t \in Writers => T(SlotOf(t)) <= 2 * turn(at[t]) /\ ~InPast(Wanted(t), T(SlotOf(t)))
  <2>1. t \in Writers => T(SlotOf(t)) <= 2 * turn(at[t])
    BY <1>1 DEF IInv, WriterOK, Waiting, WaitSteps
  <2> QED BY <1>1, <2>1, NotPast DEF Wanted
<1>3. PICK s \in {"begin", "copyOut", "idle", "enlist"} :
        /\ pc' = [pc EXCEPT ![t] = s]
        /\ s = "begin" => t \in Writers /\ T(SlotOf(t)) = 2 * turn(at[t])
        /\ s = "copyOut" => t \notin Writers /\ T(SlotOf(t)) = 2 * turn(at[t]) + 2
        /\ s = "idle" => t \notin Writers /\ result' = [result EXCEPT ![t] = "fail"]
        /\ s # "idle" => result' = result
        /\ seen' = seen \/ seen' = [seen EXCEPT ![t] = state[SlotOf(t)]]
  <2>1. CASE T(SlotOf(t)) = Wanted(t)
    BY <1>1, <2>1 DEF Load, Arrived, Wanted, T
  <2>2. CASE T(SlotOf(t)) # Wanted(t) /\ InPast(Wanted(t), T(SlotOf(t)))
    BY <1>2, <2>2 DEF Load, T
  <2>3. CASE T(SlotOf(t)) # Wanted(t) /\ ~InPast(Wanted(t), T(SlotOf(t)))
    BY <2>3 DEF Load, T
  <2> QED BY <2>1, <2>2, <2>3
<1>4. StepsTyped' /\ pc'[t] = s /\ \A u \in Threads \ {t} : pc'[u] = pc[u]
  <2>1. s \in StepsOf(t)
    BY <1>3 DEF StepsOf, WaitSteps, WriteSteps, ReadSteps
  <2> QED BY <2>1, <1>3, ThreadMoves DEF IInv
<1>5. /\ result' \in [Readers -> {"none", "ok", "fail"}]
      /\ \A r \in Readers \ {t} : result'[r] = result[r]
      /\ t \in Readers => result'[t] = IF s = "idle" THEN "fail" ELSE result[t]
  <2>1. result \in [Readers -> {"none", "ok", "fail"}]
    BY DEF IInv, TypeOK
  <2> QED BY ONLY <2>1, <1>3
<1>6. TypeOK'
  <2>1. seen' \in [Threads -> Encoded]
    <3>1. seen \in [Threads -> Encoded]
      BY DEF IInv, TypeOK
    <3> QED BY ONLY <3>1, <1>1, <1>3
  <2> QED BY <2>1, <1>1, <1>4, <1>5 DEF IInv, TypeOK, StepsTyped
<1>7. Local(t)
  BY <1>1, <1>4, <1>5 DEF Local, Writing, Threads
<1>8. ASSUME t \in Writers
      PROVE  WriterOK(t)'
  BY <1>8, <1>1, <1>2, <1>3, <1>4 DEF WriterOK, Waiting, WaitSteps, InSlot, SlotOf, T
<1>9. ASSUME t \in Readers
      PROVE  ReaderOK(t)'
  <2>1. copied[t] = 0 /\ result[t] = "none" /\ 0 < NumWords
    BY <1>9, <1>1, BufferAssumption DEF IInv, ReaderOK
  <2>2. t \notin Writers /\ pc'[t] # "recheck" /\ \A k \in 1 .. 0 : FALSE
    BY <1>9, <1>3, <1>4, BufferAssumption
  <2>3. T(SlotOf(t))' = T(SlotOf(t)) /\ copied'[t] = 0
    BY <1>1, <2>1 DEF T, SlotOf
  <2> QED BY <1>9, <2>1, <2>2, <2>3, <1>1, <1>3, <1>4, <1>5 DEF ReaderOK
<1> QED BY <1>6, <1>7, <1>8, <1>9, LocalStep

\* A step that only moves a thread between the steps of its wait.
LEMMA WaitingOn ==
    ASSUME NoWrap, IInv, NEW t \in Threads, pc[t] \in WaitSteps,
           NEW s \in WaitSteps, pc' = [pc EXCEPT ![t] = s],
           state' \in [Slots -> Encoded], seen' \in [Threads -> Encoded],
           \A i \in Slots : state'[i].turn = state[i].turn,
           UNCHANGED <<ticket, data, at, copied, dest, result>>
    PROVE  IInv'
<1>1. StepsTyped' /\ pc'[t] = s /\ \A u \in Threads \ {t} : pc'[u] = pc[u]
  <2>1. s \in StepsOf(t)
    BY DEF StepsOf
  <2> QED BY <2>1, ThreadMoves DEF IInv
<1>2. TypeOK'
  BY <1>1 DEF IInv, TypeOK, StepsTyped
<1>3. Local(t)
  BY <1>1 DEF Local, Writing, Threads, WaitSteps
<1>4. SlotOf(t) \in Slots
  BY ThreadFacts
<1>5. t \in Writers => WriterOK(t)'
  BY <1>1, <1>4 DEF IInv, WriterOK, Waiting, WaitSteps, InSlot, SlotOf, T
<1>6. t \in Readers => ReaderOK(t)'
  BY <1>1, <1>4 DEF IInv, ReaderOK, WaitSteps, SlotOf, T
<1> QED BY <1>2, <1>3, <1>5, <1>6, LocalStep

\* Registering as a waiter changes only the waiters field of the word.
LEMMA EnlistKeeps ==
    ASSUME NoWrap, IInv, NEW t \in Threads, Enlist(t)
    PROVE  IInv'
<1>1. /\ pc[t] = "enlist" /\ SlotOf(t) \in Slots /\ seen[t] \in Encoded
      /\ turn(at[t]) \in Nat
      /\ WriteTurn(at[t]) = 2 * turn(at[t]) /\ ReadTurn(at[t]) = 2 * turn(at[t]) + 2
  BY ThreadFacts DEF IInv, TypeOK, Enlist
<1>2. WaiterDelta(Wanted(t), seen[t].turn) \in Nat
  BY <1>1, SequencerAssumption DEF WaiterDelta, Wanted, Encoded, Turns
<1> DEFINE ours == WaiterDelta(Wanted(t), seen[t].turn)
           new == IF ours <= seen[t].delta THEN seen[t] ELSE encode(seen[t].turn, ours)
<1>3. new \in Encoded /\ new.turn = seen[t].turn
  BY <1>1, <1>2, SequencerAssumption DEF encode, Encoded
<1>4. \/ UNCHANGED <<state, seen>>
      \/ /\ state[SlotOf(t)] = seen[t]
         /\ state' = [state EXCEPT ![SlotOf(t)] = new]
         /\ seen' = [seen EXCEPT ![t] = new]
  BY DEF Enlist
<1>5. PICK s \in {"futex", "load"} : pc' = [pc EXCEPT ![t] = s]
  BY DEF Enlist
<1> HIDE DEF new
<1>6. /\ state' \in [Slots -> Encoded]
      /\ \A i \in Slots : state'[i].turn = state[i].turn
      /\ seen' \in [Threads -> Encoded]
  <2>1. state \in [Slots -> Encoded] /\ seen \in [Threads -> Encoded]
    BY DEF IInv, TypeOK
  <2>2. CASE UNCHANGED <<state, seen>>
    BY ONLY <2>1, <2>2
  <2>3. CASE /\ state[SlotOf(t)] = seen[t]
             /\ state' = [state EXCEPT ![SlotOf(t)] = new]
             /\ seen' = [seen EXCEPT ![t] = new]
    BY ONLY <2>1, <2>3, <1>1, <1>3
  <2> QED BY <1>4, <2>2, <2>3
<1>7. UNCHANGED <<ticket, data, at, copied, dest, result>>
  BY DEF Enlist
<1>8. s \in WaitSteps /\ pc[t] \in WaitSteps
  BY <1>1 DEF WaitSteps
<1> QED BY ONLY NoWrap, IInv, t \in Threads, <1>5, <1>6, <1>7, <1>8, WaitingOn, Zenon

\* Going to sleep, or finding the word changed.
LEMMA FutexWaitKeeps ==
    ASSUME NoWrap, IInv, NEW t \in Threads, FutexWait(t)
    PROVE  IInv'
<1> DEFINE s == IF state[SlotOf(t)] = seen[t] THEN "asleep" ELSE "load"
<1>1. pc' = [pc EXCEPT ![t] = s]
  BY DEF FutexWait
<1>2. UNCHANGED <<ticket, state, data, at, seen, copied, dest, result>>
  BY DEF FutexWait
<1>3. s \in WaitSteps /\ pc[t] \in WaitSteps
  BY DEF FutexWait, WaitSteps
<1> HIDE DEF s
<1>4. state' \in [Slots -> Encoded] /\ seen' \in [Threads -> Encoded]
  BY <1>2 DEF IInv, TypeOK
<1> QED BY <1>1, <1>2, <1>3, <1>4, WaitingOn, Zenon

\* A signal ends the sleep.
LEMMA InterruptedKeeps ==
    ASSUME NoWrap, IInv, NEW t \in Threads, Interrupted(t)
    PROVE  IInv'
<1>1. UNCHANGED <<ticket, state, data, at, seen, copied, dest, result>>
  BY DEF Interrupted
<1>2. "load" \in WaitSteps /\ pc[t] \in WaitSteps /\ pc' = [pc EXCEPT ![t] = "load"]
  BY DEF Interrupted, WaitSteps
<1>3. state' \in [Slots -> Encoded] /\ seen' \in [Threads -> Encoded]
  BY <1>1 DEF IInv, TypeOK
<1> QED BY <1>1, <1>2, <1>3, WaitingOn

\* futexWake moves sleepers back to their loop and the writer on.
LEMMA FutexWakeKeeps ==
    ASSUME NoWrap, IInv, NEW w \in Writers, FutexWake(w)
    PROVE  IInv'
<1>1. /\ w \in Threads /\ w \notin Readers
      /\ UNCHANGED <<ticket, state, data, at, seen, copied, dest, result>>
  BY BufferAssumption DEF FutexWake, Threads
<1>2. /\ \/ pc[w] = "wakeBegin" /\ pc'[w] = "copyIn"
         \/ pc[w] = "wakeEnd" /\ pc'[w] = "idle"
      /\ \A u \in Threads \ {w} : pc'[u] = pc[u] \/ (pc[u] = "asleep" /\ pc'[u] = "load")
  BY <1>1 DEF FutexWake
<1>3. pc' \in [Threads -> {"idle"} \cup WaitSteps \cup WriteSteps \cup ReadSteps]
  BY DEF FutexWake, IInv, TypeOK, WaitSteps, WriteSteps
<1>4. \A v \in Writers : pc'[v] \notin ReadSteps
  <2>1. \A v \in Writers : v \in Threads /\ pc[v] \notin ReadSteps
    BY DEF IInv, TypeOK, Threads
  <2>2. "copyIn" \notin ReadSteps /\ "idle" \notin ReadSteps /\ "load" \notin ReadSteps
    BY DEF ReadSteps
  <2> QED BY <1>2, <2>1, <2>2
<1>5. \A r \in Readers : pc'[r] \notin WriteSteps
  <2>1. \A r \in Readers : r \in Threads \ {w} /\ pc[r] \notin WriteSteps
    BY <1>1 DEF IInv, TypeOK, Threads
  <2>2. "load" \notin WriteSteps
    BY DEF WriteSteps
  <2> QED BY <1>2, <2>1, <2>2
<1>6. TypeOK'
  BY <1>1, <1>3, <1>4, <1>5 DEF IInv, TypeOK
<1>7. Local(w)
  <2>1. \A v \in Writers : Writing(v)' => Writing(v)
    BY <1>1, <1>2 DEF Writing, Threads
  <2> QED BY <2>1, <1>1, <1>2 DEF Local
<1>8. WriterOK(w)'
  <2>1. pc[w] = "wakeBegin" => copied[w] = 0 /\ 0 < NumWords /\ \A k \in 1 .. 0 : FALSE
    BY BufferAssumption DEF IInv, WriterOK
  <2> QED BY <2>1, <1>1, <1>2 DEF IInv, WriterOK, Waiting, WaitSteps, InSlot, SlotOf, T
<1> QED BY <1>1, <1>6, <1>7, <1>8, LocalStep

=============================================================================
