---------------------------- MODULE TraceControl ----------------------------
(***************************************************************************)
(* core/TraceControl.java: the slots of the current traces, claimed and     *)
(* released without a lock by any number of caller threads and by the       *)
(* looper thread (timeouts), and the calls into TraceControlHandler made    *)
(* under the TraceControl lock.                                             *)
(*                                                                          *)
(* mCurrentTracesMask is the set of its bits.  Each atomic access to the    *)
(* mask or to a slot is a step of its own; a CAS loop is one step, taken    *)
(* when its CAS succeeds.                                                   *)
(***************************************************************************)
EXTENDS TraceControlHandler

CONSTANTS
    Callers,        \* threads calling startTrace, stopTrace, ...
    Looper,         \* the TraceControlHandler thread
    MAX_TRACES,     \* number of slots
    StartArgs,      \* the arguments callers pass to startTrace
    StopOps,        \* the ways callers end a trace
    None            \* no trace / no thread

ASSUME ControlAssumption ==
    /\ MAX_TRACES \in Nat /\ MAX_TRACES >= 2
    /\ MaxTraces \in Nat
    /\ StartArgs \subseteq [key : Keys, memory : BOOLEAN, malformed : BOOLEAN]
    /\ StopOps \subseteq {"stop", "abort", "conditional", "cleanup"}
    /\ Looper \notin Callers
    /\ None \notin Traces /\ None \notin Callers \cup {Looper}

VARIABLES
    mask,       \* mCurrentTracesMask
    slots,      \* mCurrentTraces
    lock,       \* holder of synchronized (this)
    nextId,     \* the next fresh trace id
    returned,   \* trace -> what its startTrace returned: "none", "true", "false"
    pc,         \* thread -> its next step
    op,         \* thread -> the operation it is in
    arg,        \* thread -> start arguments, or the key looked for
    ctx,        \* thread -> the TraceContext it works on
    cell        \* thread -> the slot it is at; -1: the mask comes first

callVars == <<pc, op, arg, ctx, cell>>
controlVars == <<info, mask, slots, lock, nextId, returned>>
vars == <<handlerVars, controlVars, callVars>>

Threads == Callers \cup {Looper}
Slots == 0 .. (MAX_TRACES - 1)
Args == [key : Keys, memory : BOOLEAN, malformed : BOOLEAN]
KeyArg(k) == [key |-> k, memory |-> FALSE, malformed |-> FALSE]
NoArg == KeyArg(CHOOSE k \in Keys : TRUE)
MEMORY_TRACE == 0
NORMAL_TRACES == Slots \ {MEMORY_TRACE}

\* Operations that look a trace up by key; the others look up a trace id.
ByKey == {"start", "stop", "abort", "conditional"}
Ops == ByKey \cup {"idle", "guard", "timeout", "cleanup"}

TypeOK ==
    /\ HandlerTypeOK
    /\ mask \subseteq Slots
    /\ slots \in [Slots -> Traces \cup {None}]
    /\ lock \in Threads \cup {None}
    /\ nextId \in 1 .. (MaxTraces + 1)
    /\ returned \in [Traces -> {"none", "true", "false"}]
    /\ pc \in [Threads -> {"idle", "find", "allocate", "claim", "publish", "lock",
                           "start", "unlock", "logTimeout", "remove", "clearBit",
                           "notify", "condNotify", "thrown"}]
    /\ op \in [Threads -> Ops]
    /\ arg \in [Threads -> Args]
    /\ ctx \in [Threads -> Traces \cup {None}]
    /\ cell \in [Threads -> Slots \cup {-1}]

\* Mutants: the taken bits ignored; the flags ignored.
FreeBitsStale(bits, memory) == IF memory THEN {MEMORY_TRACE} ELSE NORMAL_TRACES

\* findLowestFreeBit: the bits a trace may take that are not taken.
FreeBits(bits, memory) == (IF memory THEN {MEMORY_TRACE} ELSE NORMAL_TRACES) \ bits
LowestFreeBit(bits, memory) ==
    CHOOSE i \in FreeBits(bits, memory) : \A j \in FreeBits(bits, memory) : i <= j

Init ==
    /\ HandlerInit
    /\ info = [tr \in Traces |-> NoArg]
    /\ mask = {}
    /\ slots = [i \in Slots |-> None]
    /\ lock = None
    /\ nextId = 1
    /\ returned = [tr \in Traces |-> "none"]
    /\ pc = [t \in Threads |-> "idle"]
    /\ op = [t \in Threads |-> "idle"]
    /\ arg = [t \in Threads |-> NoArg]
    /\ ctx = [t \in Threads |-> None]
    /\ cell = [t \in Threads |-> -1]

-----------------------------------------------------------------------------
(* Calls.  Enter(t, ...) starts a lookup; Goto(t, ...) continues a call.    *)

Enter(t, o, a, c) ==
    /\ pc' = [pc EXCEPT ![t] = "find"]
    /\ op' = [op EXCEPT ![t] = o]
    /\ arg' = [arg EXCEPT ![t] = a]
    /\ ctx' = [ctx EXCEPT ![t] = c]
    /\ cell' = [cell EXCEPT ![t] = -1]

\* Leaving a call clears its locals.
Return(t) ==
    /\ pc' = [pc EXCEPT ![t] = "idle"]
    /\ op' = [op EXCEPT ![t] = "idle"]
    /\ arg' = [arg EXCEPT ![t] = NoArg]
    /\ ctx' = [ctx EXCEPT ![t] = None]
    /\ cell' = [cell EXCEPT ![t] = -1]

Goto(t, step) ==
    /\ pc' = [pc EXCEPT ![t] = step]
    /\ UNCHANGED <<op, arg, ctx, cell>>

\* startTrace: the quick test for a free slot, then the lookup.
StartTrace(t, a) ==
    /\ pc[t] = "idle"
    /\ nextId <= MaxTraces
    /\ FreeBits(mask, a.memory) # {}
    /\ Enter(t, "start", a, None)
    /\ UNCHANGED <<handlerVars, controlVars>>

\* stopTrace, abortTrace, conditionalTraceStop.
StopTrace(t, o, k) ==
    /\ pc[t] = "idle"
    /\ o \in StopOps \ {"cleanup"}
    /\ Enter(t, o, KeyArg(k), None)
    /\ UNCHANGED <<handlerVars, controlVars>>

\* cleanupTraceContextByID, called by the trace's worker (through
\* TraceOrchestrator.onTraceWriteAbort) when the native writer gave up.
CleanupTraceContextByID(t, tr) ==
    /\ pc[t] = "idle"
    /\ "cleanup" \in StopOps
    /\ worker[tr] = "running"
    /\ Enter(t, "cleanup", arg[t], tr)
    /\ UNCHANGED <<handlerVars, controlVars>>

-----------------------------------------------------------------------------
(* findCurrentTraceByContext and findCurrentTraceByTraceId.                 *)

Matches(t, tr) ==
    /\ tr # None
    /\ IF op[t] \in ByKey THEN info[tr].key = arg[t].key ELSE tr = ctx[t]

OnMissUnguarded(o) == CASE o = "start" -> "allocate"
                        [] o = "guard" -> "start"
                        [] OTHER       -> "idle"

OnFound(o) == CASE o = "start"   -> "idle"
                [] o = "guard"   -> "start"
                [] o = "timeout" -> "logTimeout"
                [] OTHER         -> "remove"
OnMiss(o) == CASE o = "start" -> "allocate"
               [] o = "guard" -> "unlock"
               [] OTHER       -> "idle"

\* Read the mask: 0 means no trace.
FindMask(t) ==
    /\ pc[t] = "find" /\ cell[t] = -1
    /\ \/ /\ mask # {}
          /\ cell' = [cell EXCEPT ![t] = 0]
          /\ UNCHANGED <<pc, op, arg, ctx>>
       \/ /\ mask = {}
          /\ IF OnMiss(op[t]) = "idle" THEN Return(t) ELSE Goto(t, OnMiss(op[t]))
    /\ UNCHANGED <<handlerVars, controlVars>>

\* Read one slot.
FindSlot(t) ==
    LET tr == slots[cell[t]] IN
    /\ pc[t] = "find" /\ cell[t] # -1
    /\ \/ /\ Matches(t, tr)
          /\ IF OnFound(op[t]) = "idle" THEN Return(t)
             ELSE /\ pc' = [pc EXCEPT ![t] = OnFound(op[t])]
                  /\ ctx' = [ctx EXCEPT ![t] = tr]
                  /\ cell' = [cell EXCEPT ![t] = 0]
                  /\ UNCHANGED <<op, arg>>
       \/ /\ ~Matches(t, tr)
          /\ cell[t] + 1 \in Slots
          /\ cell' = [cell EXCEPT ![t] = cell[t] + 1]
          /\ UNCHANGED <<pc, op, arg, ctx>>
       \/ /\ ~Matches(t, tr)
          /\ cell[t] + 1 \notin Slots
          /\ IF OnMiss(op[t]) = "idle" THEN Return(t) ELSE Goto(t, OnMiss(op[t]))
    /\ UNCHANGED <<handlerVars, controlVars>>

-----------------------------------------------------------------------------
(* startTrace after the lookup, and startTraceInternal.                     *)

\* A new TraceContext with its buffers; the call returns false when no
\* provider is enabled by the config or no buffer could be allocated.
Allocate(t) ==
    /\ pc[t] = "allocate"
    /\ \/ /\ nextId <= MaxTraces
          /\ info' = [info EXCEPT ![nextId] = arg[t]]
          /\ nextId' = nextId + 1
          /\ pc' = [pc EXCEPT ![t] = "claim"]
          /\ ctx' = [ctx EXCEPT ![t] = nextId]
          /\ UNCHANGED <<op, arg, cell>>
       \/ /\ Return(t)
          /\ UNCHANGED <<info, nextId>>
    /\ UNCHANGED <<handlerVars, mask, slots, lock, returned>>

\* The loop on mCurrentTracesMask: take the lowest free bit, or give up.
Claim(t) ==
    LET memory == info[ctx[t]].memory IN
    /\ pc[t] = "claim"
    /\ \/ /\ FreeBits(mask, memory) = {}
          /\ Return(t)
          /\ returned' = [returned EXCEPT ![ctx[t]] = "false"]
          /\ UNCHANGED mask
       \/ /\ FreeBits(mask, memory) # {}
          /\ mask' = mask \cup {LowestFreeBit(mask, memory)}
          /\ cell' = [cell EXCEPT ![t] = LowestFreeBit(mask, memory)]
          /\ pc' = [pc EXCEPT ![t] = "publish"]
          /\ UNCHANGED <<op, arg, ctx, returned>>
    /\ UNCHANGED <<handlerVars, info, slots, lock, nextId>>

\* The CAS of the slot from null, or the ORDERING VIOLATION exception.
Publish(t) ==
    /\ pc[t] = "publish"
    /\ IF slots[cell[t]] = None
       THEN /\ slots' = [slots EXCEPT ![cell[t]] = ctx[t]]
            /\ Goto(t, "lock")
       ELSE /\ Goto(t, "thrown")
            /\ UNCHANGED slots
    /\ UNCHANGED <<handlerVars, info, mask, lock, nextId, returned>>

\* synchronized (this): "a guard if trace stop was initiated from another
\* thread".
LockStart(t) ==
    /\ pc[t] = "lock"
    /\ lock = None
    /\ lock' = t
    /\ Enter(t, "guard", arg[t], ctx[t])
    /\ UNCHANGED <<handlerVars, info, mask, slots, nextId, returned>>

\* The trace is still current: mTraceControlHandler.onTraceStart.
RunStart(t) ==
    /\ pc[t] = "start"
    /\ onTraceStart(ctx[t])
    /\ lock' = None
    /\ returned' = [returned EXCEPT ![ctx[t]] =
                      IF info[ctx[t]].malformed THEN "false" ELSE "true"]
    /\ Return(t)
    /\ UNCHANGED <<info, mask, slots, nextId>>

\* The trace was stopped meanwhile: startTrace returns true all the same.
SkipStart(t) ==
    /\ pc[t] = "unlock"
    /\ lock' = None
    /\ returned' = [returned EXCEPT ![ctx[t]] = "true"]
    /\ Return(t)
    /\ UNCHANGED <<handlerVars, info, mask, slots, nextId>>
-----------------------------------------------------------------------------
(* removeTraceContext, then the call into the handler.                      *)

\* CAS one slot from ctx to null; the loop ends at the first success, or
\* with a warning when no slot holds ctx any more.
RemoveSlot(t) ==
    /\ pc[t] = "remove"
    /\ \/ /\ slots[cell[t]] = ctx[t]
          /\ slots' = [slots EXCEPT ![cell[t]] = None]
          /\ Goto(t, "clearBit")
       \/ /\ slots[cell[t]] # ctx[t]
          /\ cell[t] + 1 \in Slots
          /\ cell' = [cell EXCEPT ![t] = cell[t] + 1]
          /\ UNCHANGED <<slots, pc, op, arg, ctx>>
       \/ /\ slots[cell[t]] # ctx[t]
          /\ cell[t] + 1 \notin Slots
          /\ Goto(t, "notify")
          /\ UNCHANGED slots
    /\ UNCHANGED <<handlerVars, info, mask, lock, nextId, returned>>

\* Mutant: the bit is never cleared.
FlipNothing(bits, i) == bits

\* currentMask ^ (1 << i).
Flip(bits, i) == IF i \in bits THEN bits \ {i} ELSE bits \cup {i}

ClearBit(t) ==
    /\ pc[t] = "clearBit"
    /\ mask' = Flip(mask, cell[t])
    /\ Goto(t, "notify")
    /\ UNCHANGED <<handlerVars, info, slots, lock, nextId, returned>>

\* synchronized (this): write the entry of the operation, call the handler.
Notify(t) ==
    LET tr == ctx[t] IN
    /\ pc[t] = "notify"
    /\ lock = None
    /\ \/ /\ op[t] = "stop"
          /\ log' = Logged(tr, "TRACE_PRE_END")
          /\ PostEnd("STOP", tr)
          /\ UNCHANGED <<delayed, worker, heard>>
       \/ /\ op[t] = "abort"
          /\ log' = Logged(tr, "TRACE_ABORT")
          /\ PostEnd("ABORT", tr)
          /\ UNCHANGED <<delayed, worker, heard>>
       \/ /\ op[t] = "cleanup"
          /\ PostEnd("ABORT", tr)
          /\ UNCHANGED <<log, delayed, worker, heard>>
       \/ /\ op[t] = "conditional"
          /\ onConditionalTraceStop(tr)
    /\ Return(t)
    /\ UNCHANGED controlVars

-----------------------------------------------------------------------------
(* The looper thread.                                                       *)

\* conditionalTraceStop, first half: draw the upload decision and write the
\* entries that go with it.
ConditionalStop(tr, rest) ==
    /\ \E keep \in BOOLEAN :
          /\ op' = [op EXCEPT ![Looper] = IF keep THEN "stop" ELSE "abort"]
          /\ log' = [log EXCEPT ![tr] = @ \o
                       IF keep THEN <<"CONDITIONAL_UPLOAD_RATE", "TRACE_PRE_END">>
                       ELSE <<"TRACE_ABORT">>]
    /\ pc' = [pc EXCEPT ![Looper] = "condNotify"]
    /\ ctx' = [ctx EXCEPT ![Looper] = tr]
    /\ queue' = rest
    /\ UNCHANGED <<contexts, delayed, worker, heard, arg, cell>>

\* handleMessage.  A timeout runs TraceControl.timeoutTrace, in steps.
HandleMessage ==
    LET tr == Head(queue).trace
        rest == Tail(queue)
        Is(what) == Head(queue).what = what
    IN  /\ pc[Looper] = "idle"
        /\ queue # << >>
        /\ \/ Is("START") /\ startTraceAsync(tr, rest) /\ UNCHANGED callVars
           \/ /\ Is("STOP")
              /\ IF StopThrows(tr)
                 THEN Goto(Looper, "thrown") /\ UNCHANGED handlerVars
                 ELSE stopTrace(tr, rest) /\ UNCHANGED callVars
           \/ Is("END") /\ endTrace(tr, rest) /\ UNCHANGED callVars
           \/ Is("ABORT") /\ abortTrace(tr, rest) /\ UNCHANGED callVars
           \/ /\ Is("TIMEOUT")
              /\ Enter(Looper, "timeout", NoArg, tr)
              /\ queue' = rest
              /\ UNCHANGED <<contexts, delayed, worker, log, heard>>
           \/ Is("CONDITIONAL") /\ ConditionalStop(tr, rest)
        /\ UNCHANGED controlVars

\* timeoutTrace: TRACE_TIMEOUT is written, then cleanupTraceContextByID
\* looks the trace up again.
LogTimeout ==
    /\ pc[Looper] = "logTimeout"
    /\ log' = Logged(ctx[Looper], "TRACE_TIMEOUT")
    /\ Enter(Looper, "cleanup", NoArg, ctx[Looper])
    /\ UNCHANGED <<contexts, queue, delayed, worker, heard, controlVars>>

\* conditionalTraceStop, second half: onTraceAbort or onTraceStop, without
\* the TraceControl lock.
ConditionalNotify ==
    /\ pc[Looper] = "condNotify"
    /\ PostEnd(IF op[Looper] = "abort" THEN "ABORT" ELSE "STOP", ctx[Looper])
    /\ Return(Looper)
    /\ UNCHANGED <<delayed, worker, log, heard, controlVars>>

\* A delayed message becomes due.
MessageDue(m) == Due(m) /\ UNCHANGED <<controlVars, callVars>>

-----------------------------------------------------------------------------
ThreadStep(t) ==
    \/ FindMask(t) \/ FindSlot(t)
    \/ Allocate(t) \/ Claim(t) \/ Publish(t)
    \/ LockStart(t) \/ RunStart(t) \/ SkipStart(t)
    \/ RemoveSlot(t) \/ ClearBit(t) \/ Notify(t)

LooperStep == ThreadStep(Looper) \/ HandleMessage \/ LogTimeout \/ ConditionalNotify

Next ==
    \/ \E t \in Callers, a \in StartArgs : StartTrace(t, a)
    \/ \E t \in Callers, k \in Keys, o \in StopOps : StopTrace(t, o, k)
    \/ \E t \in Callers, tr \in Traces : CleanupTraceContextByID(t, tr)
    \/ \E t \in Callers : ThreadStep(t)
    \/ LooperStep
    \/ \E m \in delayed : MessageDue(m)

Spec == Init /\ [][Next]_vars

\* Threads inside a call go on, the looper handles its messages, and delays
\* elapse, except the timeout of a memory-only trace (Integer.MAX_VALUE ms).
Fairness ==
    /\ \A t \in Callers : WF_vars(ThreadStep(t))
    /\ WF_vars(LooperStep)
    /\ \A tr \in Traces : WF_vars(MessageDue(Msg("END", tr)))
    /\ \A tr \in Traces : WF_vars(~info[tr].memory /\ MessageDue(Msg("TIMEOUT", tr)))

FairSpec == Spec /\ Fairness
-----------------------------------------------------------------------------
(* Properties.                                                              *)

\* Neither "ORDERING VIOLATION - ACQUIRED SLOT BUT SLOT NOT EMPTY" nor "Trace
\* stopped but never started" is ever thrown.
NothingThrown == \A t \in Threads : pc[t] # "thrown"

\* A bit of the mask is set exactly while its slot holds a trace, a starter is
\* about to fill the slot, or a stopper has emptied it and not yet cleared the
\* bit; and only one of the three.
Claiming(t, i) == pc[t] = "publish" /\ cell[t] = i
Clearing(t, i) == pc[t] = "clearBit" /\ cell[t] = i
Holders(i) == {t \in Threads : Claiming(t, i) \/ Clearing(t, i)}
MaskMatchesSlots ==
    \A i \in Slots :
        /\ i \in mask <=> (slots[i] # None \/ Holders(i) # {})
        /\ slots[i] # None => Holders(i) = {}
        /\ \A t, u \in Holders(i) : t = u


\* The listener hears of a trace in order: its synchronous start, its
\* asynchronous start, then one end, a stop or an abort, however many threads
\* stop, abort and time out the trace at once.
ListenerProtocol ==
    \A tr \in Traces :
        \E end \in {"stop", "abort"}, n \in 0 .. 3 :
            heard[tr] = SubSeq(<<"startSync", "startAsync", end>>, 1, n)

\* "This way we can be sure that the worker thread will not miss any entries,
\* as it starts reading from TRACE_START": no lifecycle entry of a trace is in
\* its buffer before TRACE_START.
StartEntryFirst ==
    \A tr \in Traces, n \in 2 .. 8 :
        n <= Len(log[tr]) => log[tr][n] # "TRACE_START"

\* A trace that lost its slot has its end posted to the looper, and the
\* listener hears it: no stop is lost between the slots and the handler.
StoppedTraceEnds ==
    \A tr \in Traces :
        (heard[tr] # << >> /\ \A i \in Slots : slots[i] # tr) ~> Len(heard[tr]) = 3

=============================================================================
