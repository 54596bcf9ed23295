------------------------- MODULE RingBufferProofs ---------------------------
(***************************************************************************)
(* The invariant of RingBufferInvariant holds initially and is preserved by *)
(* the steps of a write; with the lemmas of RingBufferWaiting and           *)
(* RingBufferReading it holds always.  The safety theorems follow from it.  *)
(***************************************************************************)
EXTENDS RingBufferWaiting, RingBufferReading

\* The invariant holds when every turn, ticket and copy count is zero.
LEMMA InitIInv ==
    ASSUME NoWrap, Init
    PROVE  IInv
<1>1. /\ 0 \in Turns /\ 0 \in Tickets /\ 0 \in 0 .. NumWords /\ NumWords \in Nat
      /\ encode(0, 0) = [turn |-> 0, delta |-> 0] /\ encode(0, 0) \in Encoded
  BY SequencerAssumption, BufferAssumption DEF Turns, Tickets, encode, Encoded
<1>2. \A i \in Slots : T(i) = 0
  BY <1>1 DEF Init, T
<1>3. /\ \A t \in Threads : pc[t] = "idle" /\ copied[t] = 0
      /\ \A r \in Readers : result[r] = "none"
  BY DEF Init
<1>4. TypeOK
  BY <1>1 DEF Init, TypeOK, WriteSteps, ReadSteps, Threads
<1>5. TicketsOwned
  BY <1>3 DEF TicketsOwned, Writing, Threads
<1>6. \A n \in Tickets : idx(n) \in Slots /\ turn(n) \in Nat
  BY TicketFacts
<1>7. FreshTickets
  BY <1>2, <1>6 DEF FreshTickets
<1>8. SlotData
  BY <1>2, <1>6 DEF SlotData
<1>9. \A w \in Writers : WriterOK(w)
  BY <1>3 DEF WriterOK, Waiting, WaitSteps, InSlot, Threads
<1>10. \A r \in Readers : ReaderOK(r)
  BY <1>3 DEF ReaderOK, Threads
<1> QED BY <1>4, <1>5, <1>7, <1>8, <1>9, <1>10 DEF IInv

-----------------------------------------------------------------------------
(* The steps of a writer.                                                   *)

\* Taking a ticket: no slot has passed it.
LEMMA WriteKeeps ==
    ASSUME NoWrap, IInv, NEW w \in Writers, Write(w)
    PROVE  IInv'
<1>1. /\ w \in Threads /\ ticket \in Nat /\ ticket \in Tickets /\ ticket' = ticket + 1
      /\ ticket' \in Tickets /\ MaxTickets \in Nat
      /\ UNCHANGED <<state, data, seen, copied, dest, result>>
  BY BufferAssumption DEF IInv, TypeOK, Write, Tickets, Threads
<1>2. /\ StepsTyped' /\ pc'[w] = "load"
      /\ \A u \in Threads \ {w} : pc'[u] = pc[u]
  BY <1>1, ThreadMoves DEF Write, IInv, StepsOf, WaitSteps
<1>3. /\ at' \in [Threads -> Tickets] /\ at'[w] = ticket
      /\ \A u \in Threads \ {w} : at'[u] = at[u]
  BY <1>1 DEF Write, IInv, TypeOK
<1>4. TypeOK'
  BY <1>1, <1>2, <1>3 DEF IInv, TypeOK, StepsTyped
<1>5. \A v \in Writers \ {w} : Writing(v)' => Writing(v) /\ at'[v] = at[v] /\ at[v] < ticket
  BY <1>2, <1>3 DEF IInv, TicketsOwned, Writing, Threads
<1>6. TicketsOwned'
  <2>1. \A v \in Writers : Writing(v)' => at'[v] < ticket'
    <3>1. \A v \in Writers \ {w} : Writing(v)' => at'[v] \in Nat
      BY <1>3 DEF Tickets, Threads
    <3> QED BY <1>1, <1>3, <1>5, <3>1
  <2>2. \A u, v \in Writers : u # v /\ Writing(u)' /\ Writing(v)' => at'[u] # at'[v]
    <3>1. \A v \in Writers \ {w} : Writing(v)' => at'[v] # at'[w]
      BY <1>1, <1>3, <1>5
    <3>2. \A u, v \in Writers \ {w} : u # v /\ Writing(u)' /\ Writing(v)' => at'[u] # at'[v]
      BY <1>5 DEF IInv, TicketsOwned
    <3> QED BY <3>1, <3>2
  <2> QED BY <2>1, <2>2 DEF TicketsOwned
<1>7. FreshTickets'
  <2>1. \A n \in Tickets : n >= ticket' => n >= ticket
    BY <1>1 DEF Tickets
  <2> QED BY <1>1, <2>1, Zenon DEF IInv, FreshTickets, T
<1>8. SlotData'
  BY <1>1 DEF IInv, SlotData, T
<1>9. ASSUME NEW v \in Writers
      PROVE  WriterOK(v)'
  <2>1. CASE v = w
    <3>1. T(idx(ticket)) <= 2 * turn(ticket)
      BY <1>1 DEF IInv, FreshTickets
    <3> QED BY <2>1, <3>1, <1>1, <1>2, <1>3 DEF WriterOK, Waiting, WaitSteps, InSlot, SlotOf, T
  <2>2. CASE v # w
    <3>1. v \in Threads \ {w} /\ WriterOK(v)
      BY <2>2 DEF IInv, Threads
    <3> QED BY <3>1, <1>1, <1>2, <1>3, WriterFrame
  <2> QED BY <2>1, <2>2
<1>10. ASSUME NEW r \in Readers
       PROVE  ReaderOK(r)'
  <2>1. r \in Threads \ {w} /\ ReaderOK(r)
    BY BufferAssumption DEF IInv, Threads
  <2> QED BY <2>1, <1>1, <1>2, <1>3, ReaderFrame
<1> QED BY <1>4, <1>6, <1>7, <1>8, <1>9, <1>10 DEF IInv

\* What completeTurn makes of a slot's word.
LEMMA CompletedFacts ==
    ASSUME NEW s \in Encoded, NEW t \in Nat, t + 1 < TurnSpace
    PROVE  Completed(s, t) \in Encoded /\ Completed(s, t).turn = t + 1
<1>1. TurnSpace \in Nat \ {0} /\ kWaitersMask \in Nat
  BY SequencerAssumption
<1>2. (t + 1) % TurnSpace = t + 1 /\ t + 1 \in Turns
  BY <1>1, ModSmall DEF Turns
<1>3. s.delta \in 0 .. kWaitersMask
  BY DEF Encoded
<1> DEFINE d == IF s.delta = 0 THEN 0 ELSE s.delta - 1
<1>4. d \in Nat /\ d <= kWaitersMask
  BY <1>1, <1>3
<1> HIDE DEF d
<1>5. encode(t + 1, d) \in Encoded /\ encode(t + 1, d).turn = t + 1
  BY <1>1, <1>2, <1>4 DEF encode, Encoded
<1> QED BY <1>2, <1>5 DEF Completed, d

\* The word, and the writer's step, after a completeTurn on the turn it holds.
LEMMA CompleteTurnFacts ==
    ASSUME NoWrap, IInv, NEW w \in Writers, NEW t \in Nat, t + 1 < TurnSpace,
           NEW wake \in WriteSteps, NEW next \in WriteSteps \cup {"idle"},
           T(SlotOf(w)) = t, CompleteTurn(w, t, wake, next)
    PROVE  /\ StepsTyped' /\ pc'[w] \in {wake, next}
           /\ \A u \in Threads \ {w} : pc'[u] = pc[u]
           /\ state' \in [Slots -> Encoded]
           /\ state'[SlotOf(w)].turn = t + 1
           /\ \A i \in Slots \ {SlotOf(w)} : state'[i] = state[i]
<1>1. w \in Threads /\ SlotOf(w) \in Slots /\ state[SlotOf(w)] \in Encoded
  BY ThreadFacts DEF Threads
<1> DEFINE s == state[SlotOf(w)]
           p == IF s.delta # 0 THEN wake ELSE next
<1>2. state' = [state EXCEPT ![SlotOf(w)] = Completed(s, t)] /\ pc' = [pc EXCEPT ![w] = p]
  BY DEF CompleteTurn, TurnHeld, T
<1>3. p \in {wake, next} /\ p \in StepsOf(w)
  BY DEF StepsOf
<1>4. Completed(s, t) \in Encoded /\ Completed(s, t).turn = t + 1
  BY <1>1, CompletedFacts
<1>5. state \in [Slots -> Encoded]
  BY DEF IInv, TypeOK
<1> HIDE DEF s, p
<1>6. StepsTyped' /\ pc'[w] = p /\ \A u \in Threads \ {w} : pc'[u] = pc[u]
  BY <1>1, <1>2, <1>3, ThreadMoves DEF IInv
<1>7. /\ state' \in [Slots -> Encoded] /\ state'[SlotOf(w)].turn = t + 1
      /\ \A i \in Slots \ {SlotOf(w)} : state'[i] = state[i]
  BY ONLY <1>1, <1>2, <1>4, <1>5
<1> QED BY <1>3, <1>6, <1>7

\* The first completeTurn of slot.write: the slot enters its odd turn.
LEMMA BeginWriteKeeps ==
    ASSUME NoWrap, IInv, NEW w \in Writers, BeginWrite(w)
    PROVE  IInv'
<1> DEFINE a == turn(at[w])
<1>1. /\ w \in Threads /\ at[w] \in Tickets /\ SlotOf(w) \in Slots /\ a \in Nat
      /\ WriteTurn(at[w]) = 2 * a /\ 2 * a + 2 < TurnSpace
  BY ThreadFacts, TicketFacts DEF Threads
<1>2. /\ pc[w] = "begin" /\ T(SlotOf(w)) = 2 * a
      /\ UNCHANGED <<ticket, data, at, seen, dest, result>>
      /\ copied' = [copied EXCEPT ![w] = 0]
  BY DEF IInv, WriterOK, BeginWrite
<1>3. CompleteTurn(w, 2 * a, "wakeBegin", "copyIn")
  BY <1>1 DEF BeginWrite
<1>4. 2 * a \in Nat /\ 2 * a + 1 < TurnSpace /\ TurnSpace \in Nat
  BY <1>1, SequencerAssumption
<1>5. "wakeBegin" \in WriteSteps /\ "copyIn" \in WriteSteps \cup {"idle"}
  BY DEF WriteSteps
<1> HIDE DEF a
<1>6. /\ StepsTyped' /\ pc'[w] \in {"wakeBegin", "copyIn"}
      /\ \A u \in Threads \ {w} : pc'[u] = pc[u]
      /\ state' \in [Slots -> Encoded]
      /\ state'[SlotOf(w)].turn = 2 * a + 1
      /\ \A i \in Slots \ {SlotOf(w)} : state'[i] = state[i]
  BY <1>2, <1>3, <1>4, <1>5, CompleteTurnFacts
<1>7. /\ copied' \in [Threads -> 0 .. NumWords] /\ copied'[w] = 0
      /\ \A u \in Threads \ {w} : copied'[u] = copied[u]
  <2>1. copied \in [Threads -> 0 .. NumWords] /\ 0 \in 0 .. NumWords
    BY BufferAssumption DEF IInv, TypeOK
  <2> QED BY ONLY <2>1, <1>1, <1>2
<1>8. TypeOK'
  BY <1>2, <1>6, <1>7 DEF IInv, TypeOK, StepsTyped
<1>9. Advance(w)
  BY <1>2, <1>6, <1>7 DEF Advance, Writing, a
<1>10. SlotData'
  <2> SUFFICES ASSUME NEW n \in Tickets, state'[idx(n)].turn = 2 * turn(n) + 2
               PROVE  \A k \in Words : data[idx(n)][k] = n
    BY <1>2 DEF SlotData, T
  <2>1. idx(n) \in Slots /\ turn(n) \in Nat
    BY TicketFacts
  <2>2. idx(n) # SlotOf(w)
    BY <2>1, <1>1, <1>6
  <2> QED BY <2>1, <2>2, <1>6 DEF IInv, SlotData, T
<1>11. WriterOK(w)'
  <2>1. T(SlotOf(w))' = 2 * turn(at'[w]) + 1 /\ ~Waiting(w)'
    BY <1>2, <1>6 DEF T, SlotOf, Waiting, WaitSteps, a
  <2>2. copied'[w] = 0 /\ 0 < NumWords /\ \A k \in 1 .. 0 : FALSE
    BY <1>7, BufferAssumption
  <2> QED BY <2>1, <2>2, <1>6 DEF WriterOK, InSlot
<1> QED BY <1>8, <1>9, <1>10, <1>11, AdvanceStep

\* The second completeTurn: the slot holds the whole write of ticket at[w].
LEMMA EndWriteKeeps ==
    ASSUME NoWrap, IInv, NEW w \in Writers, EndWrite(w)
    PROVE  IInv'
<1> DEFINE a == turn(at[w])
<1>1. /\ w \in Threads /\ at[w] \in Tickets /\ SlotOf(w) \in Slots /\ a \in Nat
      /\ (WriteTurn(at[w]) + 1) % TurnSpace = 2 * a + 1 /\ 2 * a + 2 < TurnSpace
  BY ThreadFacts, TicketFacts DEF Threads
<1>2. /\ pc[w] = "end" /\ T(SlotOf(w)) = 2 * a + 1
      /\ UNCHANGED <<ticket, data, at, seen, copied, dest, result>>
      /\ \A k \in Words : data[SlotOf(w)][k] = at[w]
  BY DEF IInv, WriterOK, InSlot, EndWrite
<1>3. CompleteTurn(w, 2 * a + 1, "wakeEnd", "idle")
  BY <1>1 DEF EndWrite
<1>4. 2 * a + 1 \in Nat /\ (2 * a + 1) + 1 < TurnSpace /\ (2 * a + 1) + 1 = 2 * a + 2
  BY <1>1, SequencerAssumption
<1>5. "wakeEnd" \in WriteSteps /\ "idle" \in WriteSteps \cup {"idle"}
  BY DEF WriteSteps
<1> HIDE DEF a
<1>6. /\ StepsTyped' /\ pc'[w] \in {"wakeEnd", "idle"}
      /\ \A u \in Threads \ {w} : pc'[u] = pc[u]
      /\ state' \in [Slots -> Encoded]
      /\ state'[SlotOf(w)].turn = (2 * a + 1) + 1
      /\ \A i \in Slots \ {SlotOf(w)} : state'[i] = state[i]
  BY <1>2, <1>3, <1>4, <1>5, CompleteTurnFacts
<1>7. TypeOK'
  BY <1>2, <1>6 DEF IInv, TypeOK, StepsTyped
<1>8. Advance(w)
  BY <1>2, <1>6 DEF Advance, Writing, a
<1>9. SlotData'
  <2> SUFFICES ASSUME NEW n \in Tickets, state'[idx(n)].turn = 2 * turn(n) + 2
               PROVE  \A k \in Words : data[idx(n)][k] = n
    BY <1>2 DEF SlotData, T
  <2>1. idx(n) \in Slots /\ turn(n) \in Nat
    BY TicketFacts
  <2>2. CASE idx(n) = SlotOf(w)
    <3>1. turn(n) = a
      BY <2>1, <2>2, <1>1, <1>4, <1>6, SameHalf
    <3>2. n = at[w]
      BY <3>1, <2>2, <1>1, SlotOrder DEF SlotOf, a
    <3> QED BY <3>2, <2>2, <1>2
  <2>3. CASE idx(n) # SlotOf(w)
    BY <2>1, <2>3, <1>6 DEF IInv, SlotData, T
  <2> QED BY <2>2, <2>3
<1>10. WriterOK(w)'
  BY <1>6 DEF WriterOK, Waiting, WaitSteps, InSlot
<1> QED BY <1>7, <1>8, <1>9, <1>10, AdvanceStep

\* data = value: the only thread inside the slot writes its own words.
LEMMA CopyInKeeps ==
    ASSUME NoWrap, IInv, NEW w \in Writers, CopyIn(w)
    PROVE  IInv'
<1> DEFINE i == SlotOf(w)
           k0 == copied[w] + 1
<1>1. w \in Threads /\ w \notin Readers /\ at[w] \in Tickets /\ i \in Slots /\ turn(at[w]) \in Nat
  BY ThreadFacts, BufferAssumption DEF Threads
<1>2. /\ pc[w] = "copyIn" /\ InSlot(w) /\ T(i) = 2 * turn(at[w]) + 1
      /\ copied[w] \in Nat /\ copied[w] < NumWords /\ NumWords \in Nat
      /\ \A k \in 1 .. copied[w] : data[i][k] = at[w]
  BY <1>1, ThreadFacts, BufferAssumption DEF IInv, WriterOK, InSlot, CopyIn
<1>3. /\ UNCHANGED <<ticket, state, at, seen, dest, result>>
      /\ data' = [data EXCEPT ![i][k0] = at[w]]
      /\ copied' = [copied EXCEPT ![w] = k0]
  BY DEF CopyIn
<1>4. k0 \in Words /\ k0 \in 0 .. NumWords
  BY <1>2 DEF Words
<1> DEFINE p == IF k0 = NumWords THEN "end" ELSE "copyIn"
<1>5. StepsTyped' /\ pc'[w] = p /\ \A u \in Threads \ {w} : pc'[u] = pc[u]
  <2>1. p \in StepsOf(w)
    BY DEF StepsOf, WriteSteps
  <2>2. pc' = [pc EXCEPT ![w] = p]
    BY DEF CopyIn
  <2> HIDE DEF p
  <2> QED BY <2>1, <2>2, <1>1, ThreadMoves DEF IInv
<1>6. /\ data' \in [Slots -> [Words -> Tickets \cup {-1}]]
      /\ \A j \in Slots \ {i} : data'[j] = data[j]
      /\ data'[i] = [data[i] EXCEPT ![k0] = at[w]]
      /\ data[i] \in [Words -> Tickets \cup {-1}]
  <2>1. data \in [Slots -> [Words -> Tickets \cup {-1}]]
    BY DEF IInv, TypeOK
  <2> HIDE DEF i, k0
  <2> QED BY ONLY <2>1, <1>1, <1>3, <1>4
<1>7. /\ copied' \in [Threads -> 0 .. NumWords] /\ copied'[w] = k0
      /\ \A u \in Threads \ {w} : copied'[u] = copied[u]
  <2>1. copied \in [Threads -> 0 .. NumWords]
    BY DEF IInv, TypeOK
  <2> HIDE DEF k0
  <2> QED BY ONLY <2>1, <1>1, <1>3, <1>4
<1>8. TypeOK'
  BY <1>3, <1>5, <1>6, <1>7 DEF IInv, TypeOK, StepsTyped
<1>9. TicketsOwned'
  <2>1. \A v \in Writers : Writing(v)' => Writing(v)
    BY <1>2, <1>5 DEF Writing, Threads
  <2> QED BY <2>1, <1>3 DEF IInv, TicketsOwned
<1>10. FreshTickets'
  BY <1>3 DEF IInv, FreshTickets, T
<1>11. SlotData'
  <2> SUFFICES ASSUME NEW n \in Tickets, T(idx(n)) = 2 * turn(n) + 2
               PROVE  \A k \in Words : data'[idx(n)][k] = n
    BY <1>3 DEF SlotData, T
  <2>1. idx(n) \in Slots /\ turn(n) \in Nat
    BY TicketFacts
  <2>2. idx(n) # i
    BY <2>1, <1>1, <1>2
  <2> QED BY <2>1, <2>2, <1>6 DEF IInv, SlotData
<1>12. WriterOK(w)'
  <2>1. T(SlotOf(w))' = 2 * turn(at'[w]) + 1 /\ SlotOf(w)' = i /\ at'[w] = at[w]
    BY <1>2, <1>3 DEF T, SlotOf
  <2>2. ASSUME NEW k \in 1 .. k0
        PROVE  data'[i][k] = at[w]
    <3>1. k \in Words /\ (k = k0 \/ k \in 1 .. copied[w])
      BY <1>2 DEF Words
    <3> QED BY <3>1, <1>2, <1>4, <1>6
  <2>3. CASE k0 = NumWords
    <3>1. Words = 1 .. k0 /\ pc'[w] = "end"
      BY <2>3, <1>5 DEF Words
    <3> QED BY <3>1, <2>1, <2>2 DEF WriterOK, Waiting, WaitSteps, InSlot
  <2>4. CASE k0 # NumWords
    <3>1. pc'[w] = "copyIn" /\ copied'[w] = k0 /\ k0 < NumWords
      BY <2>4, <1>2, <1>4, <1>5, <1>7
    <3> HIDE DEF k0
    <3> QED BY <3>1, <2>1, <2>2 DEF WriterOK, Waiting, WaitSteps, InSlot
  <2> QED BY <2>3, <2>4
<1>13. ASSUME NEW v \in Writers, v # w
       PROVE  WriterOK(v)'
  <2>1. /\ v \in Threads \ {w} /\ WriterOK(v) /\ SlotOf(v) \in Slots
        /\ pc'[v] = pc[v] /\ copied'[v] = copied[v] /\ at'[v] = at[v]
    BY <1>13, <1>3, <1>5, <1>7, ThreadFacts DEF IInv, Threads
  <2>2. InSlot(v) => SlotOf(v) # i
    BY <1>2, <1>13, Exclusion DEF OneWriterPerSlot
  <2> QED BY <2>1, <2>2, <1>3, <1>6, WriterFrame
<1>14. ASSUME NEW r \in Readers
       PROVE  ReaderOK(r)'
  <2>1. /\ r \in Threads \ {w} /\ ReaderOK(r)
        /\ pc'[r] = pc[r] /\ copied'[r] = copied[r]
    BY <1>1, <1>5, <1>7 DEF IInv, Threads
  <2> QED BY <2>1, <1>3, ReaderFrame
<1> QED BY <1>8, <1>9, <1>10, <1>11, <1>12, <1>13, <1>14 DEF IInv

-----------------------------------------------------------------------------
(* The theorems.                                                            *)

\* Every step of the ring buffer preserves the invariant.
LEMMA NextKeeps ==
    ASSUME NoWrap, IInv, [Next]_vars
    PROVE  IInv'
<1>1. ASSUME NEW t \in Threads, WaitStep(t)
      PROVE  IInv'
  BY <1>1, LoadKeeps, EnlistKeeps, FutexWaitKeeps DEF WaitStep
<1>2. ASSUME NEW w \in Writers, Write(w) \/ WriterStep(w)
      PROVE  IInv'
  BY <1>1, <1>2, WriteKeeps, BeginWriteKeeps, CopyInKeeps, EndWriteKeeps, FutexWakeKeeps
     DEF WriterStep, Threads
<1>3. ASSUME NEW r \in Readers, NEW c \in Tickets, TryRead(r, c) \/ WaitAndTryRead(r, c)
      PROVE  IInv'
  BY <1>3, StartReadKeeps
<1>4. ASSUME NEW r \in Readers, ReaderStep(r)
      PROVE  IInv'
  BY <1>1, <1>4, IsTurnKeeps, CopyOutKeeps, RecheckKeeps DEF ReaderStep, Threads
<1>5. ASSUME NEW t \in Threads, Interrupted(t)
      PROVE  IInv'
  BY <1>5, InterruptedKeeps
<1>6. CASE UNCHANGED vars
  <2>1. (TypeOK /\ TicketsOwned /\ FreshTickets /\ SlotData)'
    BY <1>6 DEF vars, IInv, TypeOK, TicketsOwned, FreshTickets, SlotData, Writing, T
  <2>2. \A w \in Writers : WriterOK(w)'
    BY <1>6, WriterFrame DEF vars, IInv
  <2>3. \A r \in Readers : ReaderOK(r)'
    BY <1>6, ReaderFrame DEF vars, IInv
  <2> QED BY <2>1, <2>2, <2>3 DEF IInv
<1> QED BY <1>2, <1>3, <1>4, <1>5, <1>6 DEF Next

\* The inductive invariant holds in every reachable state, whatever the
\* number of threads, the capacity and the size of a packet.
THEOREM Invariance ==
    ASSUME NoWrap
    PROVE  Spec => []IInv
<1>1. Init => IInv
  BY InitIInv
<1>2. IInv /\ [Next]_vars => IInv'
  BY NextKeeps
<1> QED BY <1>1, <1>2, PTL DEF Spec

\* Every variable of the buffer keeps its type: in particular turns and
\* waiter counts stay within the fields of TurnSequencer::state_.
THEOREM TypeCorrect ==
    ASSUME NoWrap
    PROVE  Spec => []TypeOK
<1>1. IInv => TypeOK
  BY DEF IInv
<1> QED BY <1>1, Invariance, PTL

\* A read that tryRead or waitAndTryRead reports as successful delivered
\* exactly the packet of its cursor, for any number of concurrent writers.
THEOREM ExactReads ==
    ASSUME NoWrap
    PROVE  Spec => []ReadIsExact
<1>1. IInv => ReadIsExact
  BY DEF IInv, ReaderOK, ReadIsExact
<1> QED BY <1>1, Invariance, PTL

\* No DCHECK of TurnSequencer aborts the process.
THEOREM NoAbort ==
    ASSUME NoWrap
    PROVE  Spec => []ChecksHold
<1>1. IInv => ChecksHold
  BY DEF IInv, WriterOK, ChecksHold
<1> QED BY <1>1, Invariance, PTL

\* No two threads are ever between the completeTurn calls of one slot.
THEOREM SlotExclusion ==
    ASSUME NoWrap
    PROVE  Spec => []OneWriterPerSlot
<1>1. IInv => OneWriterPerSlot
  BY Exclusion
<1> QED BY <1>1, Invariance, PTL
=============================================================================
