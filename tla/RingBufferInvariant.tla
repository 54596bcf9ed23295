------------------------ MODULE RingBufferInvariant -------------------------
(***************************************************************************)
(* The inductive invariant of LockFreeRingBuffer, the arithmetic of tickets *)
(* and turns it rests on, and what two kinds of step preserve of it: a step *)
(* that moves no turn (LocalStep) and a completeTurn (AdvanceStep).         *)
(***************************************************************************)
EXTENDS RingBufferStream, TLAPS

-----------------------------------------------------------------------------
(* The inductive invariant.  T(i) is the turn of slot i: two per write.      *)

T(i) == state[i].turn

Waiting(w) == pc[w] \in WaitSteps \cup {"begin"}

\* A ticket belongs to one writer, and was handed out.
TicketsOwned ==
    /\ \A w \in Writers : Writing(w) => at[w] < ticket
    /\ \A v, w \in Writers : v # w /\ Writing(v) /\ Writing(w) => at[v] # at[w]

\* No slot is ahead of a ticket that was not yet handed out.
FreshTickets == \A n \in Tickets : n >= ticket => T(idx(n)) <= 2 * turn(n)

\* A slot whose turn says that write n is complete holds the words of write n.
SlotData ==
    \A n \in Tickets : T(idx(n)) = 2 * turn(n) + 2 =>
        \A k \in Words : data[idx(n)][k] = n

\* Where a slot's turn stands relative to a writer of that slot, and that the
\* words the writer has copied are still there.
WriterOK(w) ==
    /\ Waiting(w) => T(SlotOf(w)) <= 2 * turn(at[w])
    /\ pc[w] = "begin" => T(SlotOf(w)) = 2 * turn(at[w])
    /\ InSlot(w) => T(SlotOf(w)) = 2 * turn(at[w]) + 1
    /\ pc[w] = "wakeBegin" => copied[w] = 0
    /\ pc[w] = "copyIn" => copied[w] < NumWords
    /\ pc[w] = "copyIn" => \A k \in 1 .. copied[w] : data[SlotOf(w)][k] = at[w]
    /\ pc[w] = "end" => \A k \in Words : data[SlotOf(w)][k] = at[w]
    /\ pc[w] # "abort"

\* A reader past its first check: if the turn is still the one it wants, what
\* it has copied is the write it asked for.  The outcome is known only when the
\* read has returned.
ReaderOK(r) ==
    /\ pc[r] # "copyOut" => copied[r] = 0
    /\ pc[r] = "copyOut" => copied[r] < NumWords
    /\ pc[r] \in {"copyOut", "recheck"} => T(SlotOf(r)) >= 2 * turn(at[r]) + 2
    /\ pc[r] = "copyOut" /\ T(SlotOf(r)) = 2 * turn(at[r]) + 2 =>
         \A k \in 1 .. copied[r] : dest[r][k] = at[r]
    /\ pc[r] = "recheck" /\ T(SlotOf(r)) = 2 * turn(at[r]) + 2 =>
         \A k \in Words : dest[r][k] = at[r]
    /\ pc[r] # "idle" => result[r] = "none"
    /\ result[r] = "ok" => \A k \in Words : dest[r][k] = at[r]

\* The strengthening that makes exclusion and exact reads inductive.
IInv ==
    /\ TypeOK
    /\ TicketsOwned
    /\ FreshTickets
    /\ SlotData
    /\ \A w \in Writers : WriterOK(w)
    /\ \A r \in Readers : ReaderOK(r)

-----------------------------------------------------------------------------
(* Arithmetic of tickets.                                                   *)

\* Division with remainder.
LEMMA DivMod ==
    ASSUME NEW a \in Nat, NEW c \in Nat \ {0}
    PROVE  /\ a \div c \in Nat /\ a % c \in 0 .. (c - 1)
           /\ a = c * (a \div c) + (a % c)
  OBVIOUS

\* Division by a positive number is monotone.
LEMMA DivMonotone ==
    ASSUME NEW a \in Nat, NEW b \in Nat, NEW c \in Nat \ {0}, a <= b
    PROVE  a \div c <= b \div c
  OBVIOUS

\* A later ticket of the same slot has a later turn.
LEMMA SameSlotLater ==
    ASSUME NEW a \in Nat, NEW b \in Nat, NEW c \in Nat \ {0}, a < b, a % c = b % c
    PROVE  (a \div c) + 1 <= b \div c
  OBVIOUS

\* A number below the modulus is its own remainder.
LEMMA ModSmall ==
    ASSUME NEW a \in Nat, NEW c \in Nat \ {0}, a < c
    PROVE  a % c = a
  OBVIOUS

\* Doubling is injective.
LEMMA SameHalf ==
    ASSUME NEW a \in Nat, NEW b \in Nat, 2 * a + 2 = 2 * b + 2
    PROVE  a = b
  OBVIOUS

\* The turns of a ticket: in range, and computed without wraparound.
LEMMA TicketFacts ==
    ASSUME NoWrap, NEW n \in Tickets
    PROVE  /\ idx(n) \in Slots
           /\ turn(n) \in Nat
           /\ 2 * turn(n) + 2 < TurnSpace \div 2
           /\ 2 * turn(n) + 2 < TurnSpace
           /\ WriteTurn(n) = 2 * turn(n)
           /\ ReadTurn(n) = 2 * turn(n) + 2
           /\ (WriteTurn(n) + 1) % TurnSpace = 2 * turn(n) + 1
<1>1. n \in Nat /\ MaxTickets \in Nat /\ n <= MaxTickets /\ Capacity \in Nat \ {0}
  BY BufferAssumption DEF Tickets
<1>2. idx(n) \in Slots /\ turn(n) \in Nat
  BY <1>1, DivMod DEF idx, turn, Slots
<1>3. turn(n) <= turn(MaxTickets) /\ turn(MaxTickets) \in Nat
  BY <1>1, DivMonotone, DivMod, Zenon DEF turn
<1>4. 2 * turn(n) + 2 < TurnSpace \div 2
  BY <1>2, <1>3, SequencerAssumption, DivMod DEF NoWrap
<1>5. TurnSpace \in Nat \ {0} /\ TurnSpace \div 2 <= TurnSpace /\ TurnSpace \div 2 \in Nat
  BY SequencerAssumption
<1>6. 2 * turn(n) + 2 < TurnSpace
  BY <1>2, <1>4, <1>5
<1>7. WriteTurn(n) = 2 * turn(n)
  BY <1>2, <1>5, <1>6, ModSmall DEF WriteTurn
<1>8. ReadTurn(n) = 2 * turn(n) + 2
  <2>1. 2 * (turn(n) + 1) = 2 * turn(n) + 2
    BY <1>2
  <2> QED BY <2>1, <1>2, <1>5, <1>6, ModSmall DEF ReadTurn
<1>9. (WriteTurn(n) + 1) % TurnSpace = 2 * turn(n) + 1
  BY <1>2, <1>5, <1>6, <1>7, ModSmall
<1> QED BY <1>2, <1>4, <1>6, <1>7, <1>8, <1>9

\* Tickets of one slot: ordered as their turns, and told apart by them.
LEMMA SlotOrder ==
    ASSUME NEW m \in Tickets, NEW n \in Tickets, idx(m) = idx(n)
    PROVE  /\ m < n => turn(m) + 1 <= turn(n)
           /\ turn(m) = turn(n) => m = n
<1>1. m \in Nat /\ n \in Nat /\ Capacity \in Nat \ {0}
  BY BufferAssumption DEF Tickets
<1>2. m < n => turn(m) + 1 <= turn(n)
  BY <1>1, SameSlotLater, Zenon DEF idx, turn
<1>3. n < m => turn(n) + 1 <= turn(m)
  BY <1>1, SameSlotLater, Zenon DEF idx, turn
<1>4. turn(m) \in Nat /\ turn(n) \in Nat
  BY <1>1, DivMod DEF turn
<1> QED BY <1>1, <1>2, <1>3, <1>4

\* What the types and the arithmetic say of one thread.
LEMMA ThreadFacts ==
    ASSUME NoWrap, IInv, NEW t \in Threads
    PROVE  /\ at[t] \in Tickets /\ SlotOf(t) \in Slots /\ turn(at[t]) \in Nat
           /\ state[SlotOf(t)] \in Encoded /\ T(SlotOf(t)) \in Turns
           /\ WriteTurn(at[t]) = 2 * turn(at[t])
           /\ ReadTurn(at[t]) = 2 * turn(at[t]) + 2
           /\ copied[t] \in 0 .. NumWords
<1>1. at[t] \in Tickets /\ copied[t] \in 0 .. NumWords
  BY DEF IInv, TypeOK
<1>2. /\ SlotOf(t) \in Slots /\ turn(at[t]) \in Nat
      /\ WriteTurn(at[t]) = 2 * turn(at[t]) /\ ReadTurn(at[t]) = 2 * turn(at[t]) + 2
  BY <1>1, TicketFacts DEF SlotOf
<1>3. state[SlotOf(t)] \in Encoded
  BY <1>2 DEF IInv, TypeOK
<1>4. T(SlotOf(t)) \in Turns
  BY <1>3 DEF T, Encoded
<1> QED BY <1>1, <1>2, <1>3, <1>4

\* The steps a thread may be at.
StepsOf(t) == {"idle"} \cup WaitSteps \cup (IF t \in Writers THEN WriteSteps ELSE ReadSteps)

\* The part of the type invariant about pc.
StepsTyped ==
    /\ pc \in [Threads -> {"idle"} \cup WaitSteps \cup WriteSteps \cup ReadSteps]
    /\ \A w \in Writers : pc[w] \notin ReadSteps
    /\ \A r \in Readers : pc[r] \notin WriteSteps

\* One thread moves to a step of its own.
LEMMA ThreadMoves ==
    ASSUME TypeOK, NEW t \in Threads, NEW s \in StepsOf(t), pc' = [pc EXCEPT ![t] = s]
    PROVE  /\ StepsTyped'
           /\ pc'[t] = s
           /\ \A u \in Threads \ {t} : pc'[u] = pc[u]
<1>1. pc \in [Threads -> {"idle"} \cup WaitSteps \cup WriteSteps \cup ReadSteps]
  BY DEF TypeOK
<1>2. pc'[t] = s /\ \A u \in Threads \ {t} : pc'[u] = pc[u]
  BY <1>1
<1>3. s \in {"idle"} \cup WaitSteps \cup WriteSteps \cup ReadSteps
  BY DEF StepsOf
<1>4. pc' \in [Threads -> {"idle"} \cup WaitSteps \cup WriteSteps \cup ReadSteps]
  BY <1>1, <1>3
<1>5. ASSUME NEW w \in Writers
      PROVE  pc'[w] \notin ReadSteps
  <2>1. w \in Threads /\ pc[w] \notin ReadSteps
    BY DEF TypeOK, Threads
  <2>2. CASE w = t
    BY <1>2, <2>2 DEF StepsOf, WaitSteps, WriteSteps, ReadSteps
  <2> QED BY <1>2, <2>1, <2>2
<1>6. ASSUME NEW r \in Readers
      PROVE  pc'[r] \notin WriteSteps
  <2>1. r \in Threads /\ r \notin Writers /\ pc[r] \notin WriteSteps
    BY BufferAssumption DEF TypeOK, Threads
  <2>2. CASE r = t
    BY <1>2, <2>1, <2>2 DEF StepsOf, WaitSteps, WriteSteps, ReadSteps
  <2> QED BY <1>2, <2>1, <2>2
<1> QED BY <1>2, <1>4, <1>5, <1>6 DEF StepsTyped

-----------------------------------------------------------------------------
(* What a step must leave alone.                                            *)

\* A writer whose own state, slot turn and words stay as they are.
LEMMA WriterFrame ==
    ASSUME NEW w \in Writers, WriterOK(w),
           pc'[w] = pc[w] \/ (pc[w] = "asleep" /\ pc'[w] = "load"),
           at'[w] = at[w], copied'[w] = copied[w],
           state'[SlotOf(w)].turn = state[SlotOf(w)].turn,
           InSlot(w) => data'[SlotOf(w)] = data[SlotOf(w)]
    PROVE  WriterOK(w)'
  BY DEF WriterOK, Waiting, WaitSteps, InSlot, SlotOf, T

\* A reader whose own state and slot turn stay as they are.
LEMMA ReaderFrame ==
    ASSUME NEW r \in Readers, ReaderOK(r),
           pc'[r] = pc[r] \/ (pc[r] = "asleep" /\ pc'[r] = "load"),
           at'[r] = at[r], copied'[r] = copied[r],
           dest'[r] = dest[r], result'[r] = result[r],
           state'[SlotOf(r)].turn = state[SlotOf(r)].turn
    PROVE  ReaderOK(r)'
  BY DEF ReaderOK, SlotOf, T

\* A reader whose slot moves on: what it has copied no longer matters.
LEMMA ReaderOvertaken ==
    ASSUME NEW r \in Readers, ReaderOK(r), turn(at[r]) \in Nat, NEW c \in Nat,
           pc'[r] = pc[r], at'[r] = at[r], copied'[r] = copied[r],
           dest'[r] = dest[r], result'[r] = result[r],
           state[SlotOf(r)].turn = c, state'[SlotOf(r)].turn = c + 1
    PROVE  ReaderOK(r)'
<1>1. pc[r] \in {"copyOut", "recheck"} => c >= 2 * turn(at[r]) + 2
  BY DEF ReaderOK, T
<1>2. pc[r] \in {"copyOut", "recheck"} =>
        c + 1 >= 2 * turn(at[r]) + 2 /\ c + 1 # 2 * turn(at[r]) + 2
  BY <1>1
<1> QED BY <1>2 DEF ReaderOK, SlotOf, T

\* A step of thread t that takes no ticket, moves no turn and writes no word;
\* other threads may be woken.
Local(t) ==
    /\ UNCHANGED <<ticket, data>>
    /\ \A i \in Slots : state'[i].turn = state[i].turn
    /\ \A w \in Writers : at'[w] = at[w] /\ (Writing(w)' => Writing(w))
    /\ \A u \in Threads \ {t} :
         /\ pc'[u] = pc[u] \/ (pc[u] = "asleep" /\ pc'[u] = "load")
         /\ at'[u] = at[u] /\ copied'[u] = copied[u]
    /\ \A r \in Readers \ {t} : dest'[r] = dest[r] /\ result'[r] = result[r]

\* Such a step preserves the invariant if thread t's own part of it holds.
LEMMA LocalStep ==
    ASSUME NoWrap, IInv, NEW t \in Threads, Local(t), TypeOK',
           t \in Writers => WriterOK(t)', t \in Readers => ReaderOK(t)'
    PROVE  IInv'
<1>1. \A n \in Tickets : idx(n) \in Slots
  BY TicketFacts
<1>2. \A u \in Threads : SlotOf(u) \in Slots
  BY <1>1 DEF IInv, TypeOK, SlotOf
<1>3. TicketsOwned'
  BY DEF IInv, TicketsOwned, Local
<1>4. FreshTickets'
  BY <1>1 DEF IInv, FreshTickets, Local, T
<1>5. SlotData'
  BY <1>1 DEF IInv, SlotData, Local, T
<1>6. ASSUME NEW w \in Writers
      PROVE  WriterOK(w)'
  <2>1. CASE w = t
    BY <2>1
  <2>2. CASE w # t
    <3>1. w \in Threads \ {t} /\ WriterOK(w) /\ SlotOf(w) \in Slots
      BY <2>2, <1>2 DEF IInv, Threads
    <3> QED BY <3>1, WriterFrame DEF Local
  <2> QED BY <2>1, <2>2
<1>7. ASSUME NEW r \in Readers
      PROVE  ReaderOK(r)'
  <2>1. CASE r = t
    BY <2>1
  <2>2. CASE r # t
    <3>1. r \in Threads \ {t} /\ r \in Readers \ {t} /\ ReaderOK(r) /\ SlotOf(r) \in Slots
      BY <2>2, <1>2 DEF IInv, Threads
    <3> QED BY <3>1, ReaderFrame DEF Local
  <2> QED BY <2>1, <2>2
<1> QED BY <1>3, <1>4, <1>5, <1>6, <1>7 DEF IInv

\* Two threads in slot.write of the same slot would hold tickets of the same
\* turn, hence the same ticket.
LEMMA Exclusion ==
    ASSUME NoWrap, IInv
    PROVE  OneWriterPerSlot
<1> SUFFICES ASSUME NEW v \in Writers, NEW w \in Writers,
                    v # w, InSlot(v), InSlot(w), SlotOf(v) = SlotOf(w)
             PROVE  FALSE
  BY DEF OneWriterPerSlot
<1>1. /\ at[v] \in Tickets /\ at[w] \in Tickets /\ at[v] # at[w]
      /\ turn(at[v]) \in Nat /\ turn(at[w]) \in Nat
  BY TicketFacts DEF IInv, TypeOK, TicketsOwned, Writing, InSlot, Threads
<1>2. 2 * turn(at[v]) + 1 = 2 * turn(at[w]) + 1
  BY DEF IInv, WriterOK
<1>3. turn(at[v]) = turn(at[w])
  BY <1>1, <1>2
<1> QED BY <1>1, <1>3, SlotOrder DEF SlotOf

\* Writer w moves the turn of its slot on by one, from its own even turn or
\* from the odd turn of its write; nothing else of the other threads changes.
Advance(w) ==
    /\ UNCHANGED <<ticket, data, at, dest, result>>
    /\ Writing(w)
    /\ T(SlotOf(w)) \in {2 * turn(at[w]), 2 * turn(at[w]) + 1}
    /\ state'[SlotOf(w)].turn = T(SlotOf(w)) + 1
    /\ \A i \in Slots \ {SlotOf(w)} : state'[i] = state[i]
    /\ \A u \in Threads \ {w} : pc'[u] = pc[u] /\ copied'[u] = copied[u]

\* Such a step disturbs nobody: another writer of the slot has a later ticket
\* and is still waiting, and a reader of the slot will reject its copy.
LEMMA AdvanceStep ==
    ASSUME NoWrap, IInv, NEW w \in Writers, Advance(w), TypeOK', SlotData', WriterOK(w)'
    PROVE  IInv'
<1> DEFINE i == SlotOf(w)
           c == T(SlotOf(w))
           a == turn(at[w])
<1>1. /\ w \in Threads /\ w \notin Readers /\ at[w] \in Tickets /\ at[w] < ticket
      /\ i \in Slots /\ a \in Nat /\ c \in Nat /\ (c = 2 * a \/ c = 2 * a + 1)
      /\ state'[i].turn = c + 1
  <2>1. w \in Threads /\ w \notin Readers
    BY BufferAssumption DEF Threads
  <2>2. at[w] \in Tickets /\ i \in Slots /\ a \in Nat
    BY <2>1, ThreadFacts
  <2>3. (c = 2 * a \/ c = 2 * a + 1) /\ at[w] < ticket
    BY DEF IInv, TicketsOwned, Advance
  <2>4. c \in Nat
    BY <2>2, <2>3
  <2>5. state'[i].turn = c + 1
    BY DEF Advance
  <2> QED BY <2>1, <2>2, <2>3, <2>4, <2>5
<1>2. \A n \in Tickets : idx(n) \in Slots /\ turn(n) \in Nat /\ n \in Nat
  BY TicketFacts DEF Tickets
<1>3. TicketsOwned'
  <2>1. \A v \in Writers : Writing(v)' => Writing(v)
    BY DEF Advance, Writing, Threads
  <2> QED BY <2>1 DEF IInv, TicketsOwned, Advance
<1>4. FreshTickets'
  <2> SUFFICES ASSUME NEW n \in Tickets, n >= ticket
               PROVE  state'[idx(n)].turn <= 2 * turn(n)
    BY DEF FreshTickets, T, Advance
  <2>1. CASE idx(n) = i
    <3>1. at[w] \in Nat /\ n \in Nat /\ ticket \in Nat
      BY <1>1, <1>2 DEF IInv, TypeOK, Tickets
    <3>2. at[w] < n
      BY <3>1, <1>1
    <3>3. a + 1 <= turn(n)
      BY <2>1, <3>2, <1>1, SlotOrder DEF SlotOf
    <3> HIDE DEF i, c, a
    <3>4. c + 1 <= 2 * turn(n)
      BY <3>3, <1>1, <1>2
    <3> QED BY <2>1, <3>4, <1>1
  <2>2. CASE idx(n) # i
    <3>1. state'[idx(n)] = state[idx(n)]
      BY <2>2, <1>2 DEF Advance
    <3> QED BY <3>1 DEF IInv, FreshTickets, T
  <2> QED BY <2>1, <2>2
<1>5. ASSUME NEW v \in Writers, v # w
      PROVE  WriterOK(v)'
  <2>1. /\ v \in Threads \ {w} /\ WriterOK(v) /\ SlotOf(v) \in Slots /\ turn(at[v]) \in Nat
        /\ at[v] \in Tickets
    BY <1>5, ThreadFacts DEF IInv, Threads
  <2>2. pc'[v] = pc[v] /\ copied'[v] = copied[v] /\ at'[v] = at[v] /\ data' = data
    BY <2>1 DEF Advance
  <2>3. CASE SlotOf(v) # i
    BY <2>1, <2>2, <2>3, WriterFrame DEF Advance
  <2>4. CASE SlotOf(v) = i
    <3>1. Writing(v) => turn(at[v]) # a
      BY <1>1, <1>5, <2>1, <2>4, SlotOrder DEF IInv, TicketsOwned, Advance, SlotOf
    <3>2. /\ Waiting(v) => c <= 2 * turn(at[v])
          /\ pc[v] = "begin" => c = 2 * turn(at[v])
          /\ InSlot(v) => c = 2 * turn(at[v]) + 1
      BY <2>1, <2>4 DEF WriterOK
    <3>3. Waiting(v) \/ InSlot(v) => Writing(v)
      BY DEF Waiting, WaitSteps, InSlot, Writing
    <3> HIDE DEF c, a
    <3>4. pc[v] # "begin" /\ ~InSlot(v)
      <4>1. pc[v] = "begin" => Waiting(v)
        BY DEF Waiting
      <4> QED BY ONLY <4>1, <3>1, <3>2, <3>3, <1>1, <2>1
    <3>5. Waiting(v) => c + 1 <= 2 * turn(at[v])
      BY ONLY <3>1, <3>2, <3>3, <1>1, <2>1
    <3>6. T(SlotOf(v))' = c + 1
      BY <1>1, <2>2, <2>4 DEF T, SlotOf
    <3>7. Waiting(v)' = Waiting(v) /\ InSlot(v)' = InSlot(v)
      BY <2>2 DEF Waiting, InSlot
    <3>8. pc'[v] \notin {"begin", "wakeBegin", "copyIn", "end", "abort"}
      BY <2>1, <2>2, <3>4 DEF InSlot, WriterOK
    <3> QED BY <2>2, <3>4, <3>5, <3>6, <3>7, <3>8 DEF WriterOK
  <2> QED BY <2>3, <2>4
<1>6. ASSUME NEW r \in Readers
      PROVE  ReaderOK(r)'
  <2>1. r \in Threads \ {w} /\ ReaderOK(r) /\ SlotOf(r) \in Slots /\ turn(at[r]) \in Nat
    BY <1>1, ThreadFacts DEF IInv, Threads
  <2>2. /\ pc'[r] = pc[r] /\ copied'[r] = copied[r] /\ at'[r] = at[r]
        /\ dest'[r] = dest[r] /\ result'[r] = result[r]
    BY <2>1 DEF Advance
  <2>3. CASE SlotOf(r) = i
    <3>1. state[SlotOf(r)].turn = c /\ state'[SlotOf(r)].turn = c + 1
      BY <2>3 DEF Advance, T
    <3> HIDE DEF c
    <3> QED BY <2>1, <2>2, <3>1, <1>1, ReaderOvertaken
  <2>4. CASE SlotOf(r) # i
    BY <2>1, <2>2, <2>4, ReaderFrame DEF Advance
  <2> QED BY <2>3, <2>4
<1> QED BY <1>3, <1>4, <1>5, <1>6 DEF IInv

=============================================================================
