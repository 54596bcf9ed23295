------------------------- MODULE ProviderLifecycle -------------------------
(***************************************************************************)
(* TraceOrchestrator as TraceControlListener: how starting, stopping and    *)
(* aborting traces reach TraceEvents and the providers.  onTraceStartSync   *)
(* runs on the thread that starts a trace (one at a time: onTraceStart of   *)
(* the handler is synchronized); the rest runs on the handler's looper, one *)
(* message after the other.  There is one synchronous and one asynchronous  *)
(* provider; both support the same bits, and the asynchronous one is there  *)
(* from the start or added later with addTraceProvider.                     *)
(***************************************************************************)
EXTENDS TraceProviders, BaseTraceProvider, FiniteSets

CONSTANTS
    Supported,      \* getSupportedProviders() of both providers
    Asked,          \* the sets of provider bits a trace may ask for
    MaxTraces,      \* bound: traces started
    MaxRunning      \* traces running at the same time (MAX_TRACES)

Traces == 1 .. MaxTraces

VARIABLES
    bits,           \* trace -> enabledProviders of its context
    phase,          \* trace -> "new", "enabled", "started", "ending" or "ended"
    queue,          \* messages to the looper: <<"start" or "end", trace>>
    known,          \* the asynchronous provider is registered
    sync, async,    \* the providers
    caller, looper  \* what the two threads do: see Idle

vars == <<counts, providers, bits, phase, queue, known, sync, async, caller, looper>>

\* trace: the one at hand; mask: the first reading of processStateChange.
Idle == [pc |-> "idle", trace |-> 0, mask |-> {}]

Init ==
    /\ ProvidersInit
    /\ bits \in [Traces -> Asked]
    /\ phase = [tr \in Traces |-> "new"]
    /\ queue = <<>>
    /\ known \in BOOLEAN
    /\ sync = NewProvider /\ async = NewProvider
    /\ caller = Idle /\ looper = Idle

Concerned(tr) == Affects(bits[tr], Supported)
Running == {tr \in Traces : phase[tr] \in {"enabled", "started"}}

-----------------------------------------------------------------------------
(* onTraceStartSync, and what ends a trace.                                 *)

StartSync(tr) ==
    /\ caller.pc = "idle"
    /\ phase[tr] = "new" /\ \A o \in Traces : o < tr => phase[o] # "new"
    /\ Cardinality(Running) < MaxRunning
    /\ enableProviders(bits[tr])
    /\ phase' = [phase EXCEPT ![tr] = "enabled"]
    /\ caller' = [Idle EXCEPT !.pc = "sync", !.trace = tr]
    /\ UNCHANGED <<bits, queue, known, sync, async, looper>>


\* The monitor mSyncProvidersLock is held from the first reading on.
SyncLockFree == caller.pc # "syncChange" /\ looper.pc # "syncChange"

\* onEnable of the synchronous provider up to the first reading.
CallerReads ==
    /\ caller.pc = "sync" /\ SyncLockFree
    /\ caller' = [caller EXCEPT !.pc = "syncChange", !.mask = enabledMask(Supported)]
    /\ UNCHANGED <<counts, providers, bits, phase, queue, known, sync, async, looper>>

\* The rest of onEnable; onTraceStart goes on to post the start message.
CallerChanges ==
    /\ caller.pc = "syncChange"
    /\ sync' = IF Concerned(caller.trace)
               THEN onEnable(sync, caller.trace, caller.mask, providers) ELSE sync
    /\ phase' = [phase EXCEPT ![caller.trace] = "started"]
    /\ queue' = Append(queue, <<"start", caller.trace>>)
    /\ caller' = Idle
    /\ UNCHANGED <<counts, providers, bits, known, async, looper>>

\* The trace is stopped or aborted: its last message is posted.
EndTrace(tr) ==
    /\ phase[tr] = "started"
    /\ phase' = [phase EXCEPT ![tr] = "ending"]
    /\ queue' = Append(queue, <<"end", tr>>)
    /\ UNCHANGED <<counts, providers, bits, known, sync, async, caller, looper>>

addTraceProvider ==
    /\ ~known
    /\ known' = TRUE
    /\ UNCHANGED <<counts, providers, bits, phase, queue, sync, async, caller, looper>>

-----------------------------------------------------------------------------
(* The looper: onTraceStartAsync, and onTraceStop or onTraceAbort.          *)

\* onTraceStartAsync: onEnable of the asynchronous provider, first reading.
StartAsync ==
    /\ looper.pc = "idle" /\ queue # <<>> /\ Head(queue)[1] = "start"
    /\ queue' = Tail(queue)
    /\ looper' = IF known
                 THEN [pc |-> "enable", trace |-> Head(queue)[2], mask |-> enabledMask(Supported)]
                 ELSE looper
    /\ UNCHANGED <<counts, providers, bits, phase, known, sync, async, caller>>

StartAsyncChanges ==
    /\ looper.pc = "enable"
    /\ async' = IF Concerned(looper.trace)
                THEN onEnable(async, looper.trace, looper.mask, providers) ELSE async
    /\ looper' = Idle
    /\ UNCHANGED <<counts, providers, bits, phase, queue, known, sync, caller>>

\* TraceEvents.disableProviders(context.enabledProviders)
Stop ==
    /\ looper.pc = "idle" /\ queue # <<>> /\ Head(queue)[1] = "end"
    /\ queue' = Tail(queue)
    /\ disableProviders(bits[Head(queue)[2]])
    /\ looper' = [Idle EXCEPT !.pc = "sync", !.trace = Head(queue)[2]]
    /\ UNCHANGED <<bits, phase, known, sync, async, caller>>

StopSyncReads ==
    /\ looper.pc = "sync" /\ SyncLockFree
    /\ looper' = [looper EXCEPT !.pc = "syncChange", !.mask = enabledMask(Supported)]
    /\ UNCHANGED <<counts, providers, bits, phase, queue, known, sync, async, caller>>

StopSyncChanges ==
    /\ looper.pc = "syncChange"
    /\ sync' = IF Concerned(looper.trace)
               THEN onDisable(sync, looper.trace, looper.mask, providers) ELSE sync
    /\ looper' = [looper EXCEPT !.pc = "async"]
    /\ UNCHANGED <<counts, providers, bits, phase, queue, known, async, caller>>

StopAsyncReads ==
    /\ looper.pc = "async"
    /\ looper' = [looper EXCEPT !.pc = "asyncChange", !.mask = enabledMask(Supported)]
    /\ UNCHANGED <<counts, providers, bits, phase, queue, known, sync, async, caller>>

\* The provider arrays were read when the stop began; a provider added since
\* is not tracing yet and onDisable leaves it alone.
StopAsyncChanges ==
    /\ looper.pc = "asyncChange"
    /\ async' = IF Concerned(looper.trace)
                THEN onDisable(async, looper.trace, looper.mask, providers) ELSE async
    /\ phase' = [phase EXCEPT ![looper.trace] = "ended"]
    /\ looper' = Idle
    /\ UNCHANGED <<counts, providers, bits, queue, known, sync, caller>>

LooperNext ==
    \/ StartAsync \/ StartAsyncChanges
    \/ Stop \/ StopSyncReads \/ StopSyncChanges \/ StopAsyncReads \/ StopAsyncChanges

Next ==
    \/ \E tr \in Traces : StartSync(tr) \/ EndTrace(tr)
    \/ CallerReads \/ CallerChanges
    \/ addTraceProvider
    \/ LooperNext

Spec == Init /\ [][Next]_vars

\* The looper handles its messages and a started call of onTraceStart returns.
FairSpec == Spec /\ WF_vars(LooperNext) /\ WF_vars(CallerReads \/ CallerChanges)

-----------------------------------------------------------------------------
\* The traces between enableProviders and disableProviders.
Enablers == {tr \in Traces :
    \/ phase[tr] \in {"enabled", "started"}
    \/ phase[tr] = "ending" /\ ~(looper.trace = tr /\ looper.pc # "enable")}

\* Every variable has its type; the saved bits are supported ones.
TypeOK ==
    /\ counts \in [Bits -> 0 .. (CountSpace - 1)]
    /\ providers \subseteq Bits
    /\ phase \in [Traces -> {"new", "enabled", "started", "ending", "ended"}]
    /\ \A p \in {sync, async} : p.saved \subseteq Supported /\ p.buffers \subseteq Traces

\* The mask holds exactly the bits that a trace under way has enabled, however
\* starts and stops interleave.
MaskExact == providers = UNION {bits[tr] : tr \in Enablers}

\* The logger of a provider writes into no buffer of a trace that has ended,
\* nor into one of a trace the provider does not take part in.
NoDeadBuffers ==
    \A tr \in Traces :
        /\ phase[tr] = "ended" => tr \notin sync.buffers \cup async.buffers
        /\ tr \in sync.buffers \cup async.buffers => Concerned(tr)

\* "It will always have a matching disable() call": enable() and disable()
\* alternate, and the provider is on exactly when it has saved bits.
Matched(p) ==
    /\ \A i \in 1 .. Len(p.calls) : p.calls[i] = IF i % 2 = 1 THEN "enable" ELSE "disable"
    /\ (p.saved # {}) <=> (Len(p.calls) % 2 = 1)
EnableMatched == Matched(sync) /\ Matched(async)


\* "If the set of enabled provider bits supported by this class changes due to
\* a concurrent trace starting or ending, the provider will have disable() and
\* enable() called": with nobody inside a call, the provider runs with the
\* supported bits that are enabled.
FullTransition ==
    (caller.pc = "idle" /\ looper.pc = "idle") => sync.saved = enabledMask(Supported)

=============================================================================
