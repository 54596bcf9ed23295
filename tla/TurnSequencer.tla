--------------------------- MODULE TurnSequencer ---------------------------
(***************************************************************************)
(* The encoded word of lfrb/TurnSequencer.h.  One atomic uint32 holds the   *)
(* current turn (its upper 26 bits) and the largest distance, in turns,     *)
(* between the current turn and the turn of any registered waiter (its      *)
(* lower 6 bits).  Here the word is the record [turn, delta]; the widths    *)
(* are parameters, so that wraparound of the turn space and saturation of   *)
(* the waiters field happen on small instances.                             *)
(***************************************************************************)
EXTENDS Naturals, Integers

CONSTANTS
    TurnSpace,      \* number of encodable turns: 2^(32 - kTurnShift)
    kWaitersMask,   \* largest encodable waiter distance: 2^kTurnShift - 1
    NumChannels     \* bits of the futex bitset: 32

ASSUME SequencerAssumption ==
    /\ TurnSpace \in Nat /\ TurnSpace >= 4
    /\ kWaitersMask \in Nat
    /\ NumChannels \in Nat \ {0}
    /\ NumChannels <= kWaitersMask
    /\ TurnSpace % 2 = 0
    /\ TurnSpace % NumChannels = 0

Turns == 0 .. (TurnSpace - 1)

\* The values of std::atomic<uint32_t> state_.
Encoded == [turn : Turns, delta : 0 .. kWaitersMask]

\* encode(): the waiters field saturates at kWaitersMask.
encode(turn, delta) ==
    [turn |-> turn, delta |-> IF delta > kWaitersMask THEN kWaitersMask ELSE delta]

\* The bit of the futex bitset that waiters for a turn sleep on.
futexChannel(turn) == turn % NumChannels

\* uint32 subtraction of two encoded turns.
WaiterDelta(turn, current) == (turn - current) % TurnSpace

\* Mutant: the operands of the wrap-safe comparison are swapped.
InPastSwapped(turn, current) == WaiterDelta(current, turn) >= TurnSpace \div 2

\* tryWaitForTurn: "wrap-safe version of (current_turn >= turn)".
InPast(turn, current) == WaiterDelta(turn, current) >= TurnSpace \div 2

\* Mutant: completing a turn forgets the waiters for later turns.
CompletedDroppingWaiters(s, turn) == encode((turn + 1) % TurnSpace, 0)

\* completeTurn: the word that replaces s when its turn is completed.
Completed(s, turn) ==
    encode((turn + 1) % TurnSpace, IF s.delta = 0 THEN 0 ELSE s.delta - 1)
=============================================================================
