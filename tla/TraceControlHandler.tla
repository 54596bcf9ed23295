------------------------ MODULE TraceControlHandler ------------------------
(***************************************************************************)
(* core/TraceControlHandler.java: the state the handler guards, the         *)
(* operations that TraceControl calls on it, and what its looper thread     *)
(* does with each message.  A TraceContext is its trace id, 1..MaxTraces,   *)
(* with the fields of info.                                                 *)
(*                                                                          *)
(* Messages sent without a delay are handled in the order sent.  A delayed  *)
(* message waits in "delayed" until its time comes and then joins the tail  *)
(* of the queue.  The upload decision of a conditional stop is an input     *)
(* (TraceConditions computes it).                                           *)
(***************************************************************************)
EXTENDS Integers, Sequences

CONSTANTS
    Keys,           \* values that TraceController.contextsEqual tells apart
    MaxTraces       \* bound: number of traces started

Traces == 1 .. MaxTraces

VARIABLES
    info,       \* trace -> [key, memory, malformed] of its TraceContext
    contexts,   \* mTraceContexts: started and not yet stopped or aborted
    queue,      \* messages due, in order
    delayed,    \* messages whose time has not come
    worker,     \* trace -> its LoggerWorkerThread: "none", "created", "running"
    log,        \* trace -> lifecycle entries in its main buffer, in order
    heard       \* trace -> TraceControlListener calls, in order

handlerVars == <<contexts, queue, delayed, worker, log, heard>>

Message == [what : {"START", "STOP", "ABORT", "END", "TIMEOUT", "CONDITIONAL"},
            trace : Traces]
Entries == {"TRACE_START", "TRACE_PRE_END", "TRACE_ABORT", "TRACE_TIMEOUT",
            "TRACE_BACKWARDS", "TRACE_END", "CONDITIONAL_UPLOAD_RATE"}

Msg(what, tr) == [what |-> what, trace |-> tr]

HandlerTypeOK ==
    /\ info \in [Traces -> [key : Keys, memory : BOOLEAN, malformed : BOOLEAN]]
    /\ contexts \subseteq Traces
    /\ queue \in Seq(Message)
    /\ delayed \subseteq Message
    /\ worker \in [Traces -> {"none", "created", "running"}]
    /\ log \in [Traces -> Seq(Entries)]
    /\ heard \in [Traces -> Seq({"startSync", "startAsync", "stop", "abort"})]

HandlerInit ==
    /\ contexts = {}
    /\ queue = << >>
    /\ delayed = {}
    /\ worker = [tr \in Traces |-> "none"]
    /\ log = [tr \in Traces |-> << >>]
    /\ heard = [tr \in Traces |-> << >>]

Logged(tr, entry) == [log EXCEPT ![tr] = Append(@, entry)]
Heard(tr, call) == [heard EXCEPT ![tr] = Append(@, call)]

-----------------------------------------------------------------------------
(* The synchronized operations, run on the caller's thread.                 *)

\* onTraceStart with a malformed condition: registerTrace fails, nothing else.
RejectStart(tr) == info[tr].malformed /\ UNCHANGED handlerVars

\* onTraceStart: create the worker, write TRACE_START for a normal trace,
\* remember the context, tell the listener, post START and the timeout.
AcceptStart(tr) ==
    /\ ~info[tr].malformed
    /\ worker' = [worker EXCEPT ![tr] = "created"]
    /\ log' = IF info[tr].memory THEN log ELSE Logged(tr, "TRACE_START")
    /\ contexts' = contexts \cup {tr}
    /\ heard' = Heard(tr, "startSync")
    /\ queue' = Append(queue, Msg("START", tr))
    /\ delayed' = delayed \cup {Msg("TIMEOUT", tr)}

onTraceStart(tr) == RejectStart(tr) \/ AcceptStart(tr)

\* Mutant: the trace is not forgotten once its end was posted.
PostEndForgetful(what, tr) ==
    /\ queue' = IF tr \in contexts THEN Append(queue, Msg(what, tr)) ELSE queue
    /\ UNCHANGED contexts

\* Mutant: the context is taken out before it is looked for.
PostEndTooLate(what, tr) ==
    /\ UNCHANGED queue
    /\ contexts' = contexts \ {tr}

\* onTraceStop and onTraceAbort: post the message only for a context that is
\* still in mTraceContexts, and take it out.
PostEnd(what, tr) ==
    /\ queue' = IF tr \in contexts THEN Append(queue, Msg(what, tr)) ELSE queue
    /\ contexts' = contexts \ {tr}

\* onConditionalTraceStop: posted whatever mTraceContexts says.
onConditionalTraceStop(tr) ==
    /\ queue' = Append(queue, Msg("CONDITIONAL", tr))
    /\ UNCHANGED <<contexts, delayed, worker, log, heard>>

-----------------------------------------------------------------------------
(* handleMessage, on the looper thread.  m is the message taken from the    *)
(* head of the queue and rest what stays behind it.                         *)

IsTimeoutOf(m, tr) == m.what = "TIMEOUT" /\ m.trace = tr

\* startTraceAsync: a normal trace's worker starts now.
startTraceAsync(tr, rest) ==
    /\ worker' = IF info[tr].memory THEN worker ELSE [worker EXCEPT ![tr] = "running"]
    /\ heard' = Heard(tr, "startAsync")
    /\ queue' = rest
    /\ UNCHANGED <<contexts, delayed, log>>

\* stopTrace throws IllegalStateException("Trace stopped but never started").
StopThrows(tr) == info[tr].memory /\ worker[tr] = "none"

\* stopTrace: drop the timeout (posted with the same TraceContext object);
\* a memory-only trace starts its worker and is dumped backwards; the end of
\* the trace is posted with the post-trace extension as its delay.
stopTrace(tr, rest) ==
    /\ worker' = IF info[tr].memory THEN [worker EXCEPT ![tr] = "running"] ELSE worker
    /\ log' = IF info[tr].memory THEN Logged(tr, "TRACE_BACKWARDS") ELSE log
    /\ delayed' = (delayed \ {Msg("TIMEOUT", tr)}) \cup {Msg("END", tr)}
    /\ queue' = SelectSeq(rest, LAMBDA m : ~IsTimeoutOf(m, tr))
    /\ UNCHANGED <<contexts, heard>>

\* endTrace: tear down the providers, then close the trace in its buffer.
endTrace(tr, rest) ==
    /\ heard' = Heard(tr, "stop")
    /\ log' = Logged(tr, "TRACE_END")
    /\ queue' = rest
    /\ UNCHANGED <<contexts, delayed, worker>>

\* abortTrace: the message carries a copy of the TraceContext, which the
\* timeout message does not match, so the timeout stays posted.
abortTrace(tr, rest) ==
    /\ heard' = Heard(tr, "abort")
    /\ queue' = rest
    /\ UNCHANGED <<contexts, delayed, worker, log>>

\* The time of a delayed message comes.
Due(m) ==
    /\ m \in delayed
    /\ delayed' = delayed \ {m}
    /\ queue' = Append(queue, m)
    /\ UNCHANGED <<contexts, worker, log, heard>>
=============================================================================
