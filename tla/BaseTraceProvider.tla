------------------------- MODULE BaseTraceProvider -------------------------
(***************************************************************************)
(* core/BaseTraceProvider: the state of one provider and what onEnable and  *)
(* onDisable do to it.  Each reads the enabled mask twice; the caller gives *)
(* both readings, "mask" at the head of processStateChange and "now" where  *)
(* the saved bits are compared.                                             *)
(***************************************************************************)
EXTENDS Naturals, Sequences

\* saved: mSavedProviders; enabling: mEnablingContext (0 for null); buffers:
\* the traces whose main buffers the logger writes to; calls: history of
\* enable() and disable().
NewProvider ==
    [saved |-> {}, enabling |-> 0, buffers |-> {}, calls |-> <<>>]

Calls(p, mask) ==
    (IF p.saved # {} THEN <<"disable">> ELSE <<>>) \o (IF mask # {} THEN <<"enable">> ELSE <<>>)

\* Mutant: no disable() before the next enable().
processStateChangeEager(p, tr, mask, now) ==
    IF p.saved # {} /\ p.saved \subseteq now
    THEN p
    ELSE [p EXCEPT !.saved = mask,
                   !.enabling = IF mask # {} THEN tr ELSE 0,
                   !.calls = @ \o (IF mask # {} THEN <<"enable">> ELSE <<"disable">>)]


\* Nothing changed if all saved bits are still enabled; otherwise stop what
\* was running, and start again with the supported bits that are enabled.
processStateChange(p, tr, mask, now) ==
    IF p.saved # {} /\ p.saved \subseteq now
    THEN p
    ELSE [p EXCEPT !.saved = mask,
                   !.enabling = IF mask # {} THEN tr ELSE 0,
                   !.calls = @ \o Calls(p, mask)]

\* The early return of onEnable, and of onDisable.
Affects(bits, supported) == bits \cap supported # {}

onEnable(p, tr, mask, now) ==
    processStateChange([p EXCEPT !.buffers = @ \cup {tr}], tr, mask, now)

\* Mutant: the buffer is left with the logger.
onDisableLeaky(p, tr, mask, now) ==
    IF p.saved = {} THEN p ELSE processStateChange(p, tr, mask, now)

onDisable(p, tr, mask, now) ==
    IF p.saved = {}
    THEN p
    ELSE [processStateChange(p, tr, mask, now) EXCEPT !.buffers = @ \ {tr}]
=============================================================================
