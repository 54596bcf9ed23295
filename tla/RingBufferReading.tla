------------------------- MODULE RingBufferReading --------------------------
(***************************************************************************)
(* The steps of tryRead and waitAndTryRead, outside the wait, preserve the  *)
(* invariant.                                                               *)
(***************************************************************************)
EXTENDS RingBufferInvariant

\* tryRead() and waitAndTryRead() only set the cursor of an idle reader.
LEMMA StartReadKeeps ==
    ASSUME NoWrap, IInv, NEW r \in Readers, NEW c \in Tickets,
           TryRead(r, c) \/ WaitAndTryRead(r, c)
    PROVE  IInv'
<1>1. /\ r \in Threads /\ r \notin Writers /\ pc[r] = "idle"
      /\ UNCHANGED <<ticket, state, data, seen, copied, dest>>
      /\ result' = [result EXCEPT ![r] = "none"]
      /\ at' = [at EXCEPT ![r] = c]
  BY BufferAssumption DEF TryRead, WaitAndTryRead, Threads
<1>2. PICK s \in {"isTurn", "load"} : pc' = [pc EXCEPT ![r] = s]
  BY DEF TryRead, WaitAndTryRead
<1>3. StepsTyped' /\ pc'[r] = s /\ \A u \in Threads \ {r} : pc'[u] = pc[u]
  BY <1>1, <1>2, ThreadMoves DEF IInv, StepsOf, WaitSteps, ReadSteps
<1>4. /\ at' \in [Threads -> Tickets] /\ \A u \in Threads \ {r} : at'[u] = at[u]
      /\ result' \in [Readers -> {"none", "ok", "fail"}] /\ result'[r] = "none"
      /\ \A q \in Readers \ {r} : result'[q] = result[q]
  BY <1>1 DEF IInv, TypeOK
<1>5. TypeOK'
  BY <1>1, <1>3, <1>4 DEF IInv, TypeOK, StepsTyped
<1>6. Local(r)
  <2>1. \A w \in Writers : w \in Threads \ {r}
    BY <1>1 DEF Threads
  <2> QED BY <2>1, <1>1, <1>3, <1>4 DEF Local, Writing
<1>7. ReaderOK(r)'
  BY <1>1, <1>2, <1>3, <1>4 DEF IInv, ReaderOK
<1> QED BY <1>1, <1>5, <1>6, <1>7, LocalStep

\* The first check of tryRead: the copy starts only on a completed write.
LEMMA IsTurnKeeps ==
    ASSUME NoWrap, IInv, NEW r \in Readers, IsTurn(r)
    PROVE  IInv'
<1>1. /\ r \in Threads /\ r \notin Writers /\ turn(at[r]) \in Nat
      /\ ReadTurn(at[r]) = 2 * turn(at[r]) + 2
  BY ThreadFacts, BufferAssumption DEF Threads
<1>2. UNCHANGED <<ticket, state, data, at, seen, copied, dest>>
  BY DEF IsTurn
<1>3. \/ /\ pc' = [pc EXCEPT ![r] = "copyOut"]
         /\ result' = result
         /\ T(SlotOf(r)) = 2 * turn(at[r]) + 2
      \/ /\ pc' = [pc EXCEPT ![r] = "idle"]
         /\ result' = [result EXCEPT ![r] = "fail"]
  BY <1>1 DEF IsTurn, T
<1>4. /\ StepsTyped' /\ \A u \in Threads \ {r} : pc'[u] = pc[u]
      /\ \/ pc'[r] = "copyOut" /\ result' = result /\ T(SlotOf(r)) = 2 * turn(at[r]) + 2
         \/ pc'[r] = "idle" /\ result' = [result EXCEPT ![r] = "fail"]
  <2>1. "copyOut" \in StepsOf(r) /\ "idle" \in StepsOf(r)
    BY <1>1 DEF StepsOf, ReadSteps
  <2> QED BY <2>1, <1>1, <1>3, ThreadMoves DEF IInv
<1>5. /\ result' \in [Readers -> {"none", "ok", "fail"}]
      /\ \A q \in Readers \ {r} : result'[q] = result[q]
      /\ \/ pc'[r] = "copyOut" /\ result'[r] = result[r] /\ T(SlotOf(r)) = 2 * turn(at[r]) + 2
         \/ pc'[r] = "idle" /\ result'[r] = "fail"
  <2>1. result \in [Readers -> {"none", "ok", "fail"}]
    BY DEF IInv, TypeOK
  <2> QED BY ONLY <2>1, <1>4, r \in Readers
<1>6. TypeOK'
  BY <1>2, <1>4, <1>5 DEF IInv, TypeOK, StepsTyped
<1>7. Local(r)
  <2>1. \A w \in Writers : w \in Threads \ {r}
    BY <1>1 DEF Threads
  <2> QED BY <2>1, <1>2, <1>4, <1>5 DEF Local, Writing
<1>8. ReaderOK(r)'
  <2>1. copied[r] = 0 /\ result[r] = "none" /\ 0 < NumWords /\ \A k \in 1 .. 0 : FALSE
    BY BufferAssumption DEF IInv, ReaderOK, IsTurn
  <2>2. T(SlotOf(r))' = T(SlotOf(r)) /\ copied'[r] = 0 /\ at'[r] = at[r]
    BY <1>2, <2>1 DEF T, SlotOf
  <2> QED BY <2>1, <2>2, <1>1, <1>5 DEF ReaderOK
<1> QED BY <1>1, <1>6, <1>7, <1>8, LocalStep

\* dest = data: a word copied while the turn is the wanted one is the asked write's.
LEMMA CopyOutKeeps ==
    ASSUME NoWrap, IInv, NEW r \in Readers, CopyOut(r)
    PROVE  IInv'
<1> DEFINE k0 == copied[r] + 1
<1>1. /\ r \in Threads /\ r \notin Writers /\ at[r] \in Tickets /\ SlotOf(r) \in Slots
      /\ turn(at[r]) \in Nat
  BY ThreadFacts, BufferAssumption DEF Threads
<1>2. /\ UNCHANGED <<ticket, state, data, at, seen, result>>
      /\ dest' = [dest EXCEPT ![r][k0] = data[SlotOf(r)][k0]]
  BY DEF CopyOut
<1>3. /\ copied[r] \in Nat /\ copied[r] < NumWords /\ NumWords \in Nat
      /\ k0 \in Words /\ k0 \in 0 .. NumWords
  <2>1. copied[r] \in 0 .. NumWords /\ copied[r] < NumWords /\ NumWords \in Nat
    BY <1>1, ThreadFacts, BufferAssumption DEF IInv, ReaderOK, CopyOut
  <2> QED BY <2>1 DEF Words
<1>4. /\ dest' \in [Readers -> [Words -> Tickets \cup {-1}]]
      /\ \A q \in Readers \ {r} : dest'[q] = dest[q]
      /\ dest'[r] = [dest[r] EXCEPT ![k0] = data[SlotOf(r)][k0]]
      /\ dest[r] \in [Words -> Tickets \cup {-1}]
  <2>1. /\ dest \in [Readers -> [Words -> Tickets \cup {-1}]]
        /\ data \in [Slots -> [Words -> Tickets \cup {-1}]]
    BY DEF IInv, TypeOK
  <2>2. data[SlotOf(r)][k0] \in Tickets \cup {-1}
    BY <2>1, <1>1, <1>3
  <2> QED BY ONLY <2>1, <2>2, <1>2, <1>3, r \in Readers
<1>5. \/ /\ pc' = [pc EXCEPT ![r] = "recheck"] /\ copied' = [copied EXCEPT ![r] = 0]
         /\ k0 = NumWords
      \/ /\ pc' = pc /\ copied' = [copied EXCEPT ![r] = k0]
         /\ k0 # NumWords
  BY DEF CopyOut
<1>6. /\ StepsTyped' /\ \A u \in Threads \ {r} : pc'[u] = pc[u]
      /\ pc'[r] = IF k0 = NumWords THEN "recheck" ELSE "copyOut"
  <2>1. CASE k0 = NumWords
    <3>1. "recheck" \in StepsOf(r)
      BY <1>1 DEF StepsOf, ReadSteps
    <3> QED BY <3>1, <2>1, <1>1, <1>5, ThreadMoves DEF IInv
  <2>2. CASE k0 # NumWords
    <3>1. pc' = pc /\ pc[r] = "copyOut"
      BY <2>2, <1>5 DEF CopyOut
    <3> QED BY <3>1, <2>2 DEF IInv, TypeOK, StepsTyped
  <2> QED BY <2>1, <2>2
<1>7. /\ copied' \in [Threads -> 0 .. NumWords]
      /\ \A u \in Threads \ {r} : copied'[u] = copied[u]
      /\ copied'[r] = IF k0 = NumWords THEN 0 ELSE k0
  <2>1. copied \in [Threads -> 0 .. NumWords] /\ 0 \in 0 .. NumWords
    BY <1>3 DEF IInv, TypeOK
  <2> QED BY ONLY <2>1, <1>1, <1>3, <1>5
<1>8. TypeOK'
  BY <1>2, <1>4, <1>6, <1>7 DEF IInv, TypeOK, StepsTyped
<1>9. Local(r)
  <2>1. \A w \in Writers : w \in Threads \ {r}
    BY <1>1 DEF Threads
  <2> QED BY <2>1, <1>2, <1>4, <1>6, <1>7 DEF Local, Writing
<1>10. ReaderOK(r)'
  <2>1. /\ T(SlotOf(r))' = T(SlotOf(r)) /\ at'[r] = at[r]
        /\ T(SlotOf(r)) >= 2 * turn(at[r]) + 2 /\ result'[r] = "none"
    BY <1>2 DEF IInv, ReaderOK, CopyOut, T, SlotOf
  <2>2. ASSUME T(SlotOf(r)) = 2 * turn(at[r]) + 2, NEW k \in 1 .. k0
        PROVE  dest'[r][k] = at[r]
    <3>1. data[SlotOf(r)][k0] = at[r]
      BY <2>2, <1>1, <1>3 DEF IInv, SlotData, SlotOf
    <3>2. k \in Words /\ (k = k0 \/ k \in 1 .. copied[r])
      BY <1>3 DEF Words
    <3>3. k \in 1 .. copied[r] => dest[r][k] = at[r]
      BY <2>2 DEF IInv, ReaderOK, CopyOut
    <3> QED BY <3>1, <3>2, <3>3, <1>3, <1>4
  <2>3. CASE k0 = NumWords
    <3>1. pc'[r] = "recheck" /\ copied'[r] = 0
      BY <2>3, <1>6, <1>7
    <3>2. Words = 1 .. k0
      BY <2>3 DEF Words
    <3> QED BY <3>1, <3>2, <2>1, <2>2 DEF ReaderOK
  <2>4. CASE k0 # NumWords
    <3>1. pc'[r] = "copyOut" /\ copied'[r] = k0 /\ k0 < NumWords
      BY <2>4, <1>3, <1>6, <1>7
    <3> HIDE DEF k0
    <3> QED BY <3>1, <2>1, <2>2 DEF ReaderOK
  <2> QED BY <2>3, <2>4
<1> QED BY <1>1, <1>8, <1>9, <1>10, LocalStep

\* The second check: the read succeeds only if its turn never moved.
LEMMA RecheckKeeps ==
    ASSUME NoWrap, IInv, NEW r \in Readers, Recheck(r)
    PROVE  IInv'
<1>1. /\ r \in Threads /\ r \notin Writers /\ turn(at[r]) \in Nat
      /\ ReadTurn(at[r]) = 2 * turn(at[r]) + 2
      /\ UNCHANGED <<ticket, state, data, at, seen, copied, dest>>
  BY ThreadFacts, BufferAssumption DEF Recheck, Threads
<1>2. StepsTyped' /\ pc'[r] = "idle" /\ \A u \in Threads \ {r} : pc'[u] = pc[u]
  BY <1>1, ThreadMoves DEF Recheck, IInv, StepsOf
<1>3. /\ result' \in [Readers -> {"none", "ok", "fail"}]
      /\ \A q \in Readers \ {r} : result'[q] = result[q]
      /\ result'[r] = "ok" => T(SlotOf(r)) = 2 * turn(at[r]) + 2
  BY <1>1 DEF Recheck, IInv, TypeOK, T
<1>4. TypeOK'
  BY <1>1, <1>2, <1>3 DEF IInv, TypeOK, StepsTyped
<1>5. Local(r)
  <2>1. \A w \in Writers : w \in Threads \ {r}
    BY <1>1 DEF Threads
  <2> QED BY <2>1, <1>1, <1>2, <1>3 DEF Local, Writing
<1>6. ReaderOK(r)'
  <2>1. copied[r] = 0 /\ (T(SlotOf(r)) = 2 * turn(at[r]) + 2 => \A k \in Words : dest[r][k] = at[r])
    BY DEF IInv, ReaderOK, Recheck
  <2> QED BY <2>1, <1>1, <1>2, <1>3 DEF ReaderOK
<1> QED BY <1>1, <1>4, <1>5, <1>6, LocalStep

=============================================================================
