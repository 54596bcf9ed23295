--------------------------- MODULE TraceProviders ---------------------------
(***************************************************************************)
(* cpp/TraceProviders and its Java copy TraceEvents: how many traces have   *)
(* enabled each provider bit, and the mask of the bits enabled by any.  A   *)
(* bit mask is the set of its bits.  Both operations hold the lock of       *)
(* TraceEvents (and mutex_), so each is one step.                           *)
(***************************************************************************)
EXTENDS Naturals

CONSTANTS
    Bits,           \* provider bits
    CountSpace      \* values of a provider count: 2^8

ASSUME CountAssumption == CountSpace \in Nat \ {0}

VARIABLES
    counts,         \* provider_counts_
    providers       \* providers_, and sProviders of TraceEvents

providerVars == <<counts, providers>>

ProvidersInit ==
    /\ counts = [b \in Bits |-> 0]
    /\ providers = {}

enabledMask(bits) == providers \cap bits

enableProviders(bits) ==
    /\ counts' = [b \in Bits |-> IF b \in bits THEN (counts[b] + 1) % CountSpace ELSE counts[b]]
    /\ providers' = providers \cup bits

Xor(S, T) == (S \ T) \cup (T \ S)

\* Mutant: every bit of the ending trace is turned off.
disableProvidersAll(bits) ==
    /\ counts' = [b \in Bits |-> IF b \in bits /\ counts[b] > 0 THEN counts[b] - 1 ELSE counts[b]]
    /\ providers' = providers \ bits

\* A count that reaches zero flips the bit off; a count at zero stays there.
disableProviders(bits) ==
    /\ counts' = [b \in Bits |-> IF b \in bits /\ counts[b] > 0 THEN counts[b] - 1 ELSE counts[b]]
    /\ providers' = Xor(providers, {b \in bits : counts[b] = 1})
=============================================================================
