------------------------- MODULE LoggerWorkerThread -------------------------
(***************************************************************************)
(* logger/LoggerWorkerThread and CachingNativeTraceWriterCallbacks around   *)
(* the native TraceWriter: the thread runs loop() once, dumps the secondary *)
(* buffers if there are any, and tells TraceOrchestrator how the trace      *)
(* ended.  The orchestrator releases the buffers of the trace in every call *)
(* that completes it (handleTraceWriteCompleted).                           *)
(***************************************************************************)
EXTENDS TraceWriter

VARIABLES
    secondary,  \* mBuffers.length > 1, so mDelayTraceEndsCallback
    thread,     \* "new", "loop", "dump", "emit" or "finished"
    seen,       \* mSeenEnd, mSeenAbort, mSeenException: the ones that are set
    told        \* the callbacks that reached the orchestrator

workerVars == <<secondary, thread, seen, told>>
allVars == <<vars, workerVars>>

WorkerInit ==
    /\ Init
    /\ secondary \in BOOLEAN
    /\ thread = "new" /\ seen = {} /\ told = <<>>

\* Mutant: ends are passed on at once.
DeliverAtOnce(calls) == told' = told \o calls /\ UNCHANGED seen

\* onTraceWriteStart is passed on; the other callbacks are stored if delayed.
Deliver(calls) ==
    LET Passed(c) == c = "start" \/ ~secondary
    IN  /\ told' = told \o SelectSeq(calls, Passed)
        /\ seen' = seen \cup {calls[i] : i \in {j \in 1 .. Len(calls) : ~Passed(calls[j])}}

-----------------------------------------------------------------------------
Run ==
    /\ thread = "new"
    /\ Loop
    /\ thread' = "loop"
    /\ UNCHANGED <<secondary, seen, told>>

AfterLoop == IF secondary THEN "dump" ELSE "emit"

\* A step inside loop(), with the callbacks it makes; loop() may return.
LoopStep ==
    /\ thread = "loop"
    /\ ThreadNext
    /\ Deliver(SubSeq(visitor'.calls, Len(visitor.calls) + 1, Len(visitor'.calls)))
    /\ thread' = IF pc' = "idle" THEN AfterLoop ELSE thread
    /\ UNCHANGED secondary

\* The output file cannot be opened: the exception leaves loop(), and run()
\* catches it.
OpenFails ==
    /\ thread = "loop" /\ pc = "processing"
    /\ cursor < Len(log) /\ InBuffer(cursor) /\ ~visitor.output
    /\ \E type \in Starters : log[cursor + 1] = Entry(type, visitor.expected)
    /\ pc' = "idle"
    /\ Deliver(<<"exception">>)
    /\ thread' = "emit"
    /\ UNCHANGED <<log, submitted, wakeup, stop_requested, visitor, from, cursor, back, secondary>>

\* dumpSecondaryBuffers: every other buffer to a file of its own, without
\* callbacks.
DumpSecondaryBuffers ==
    /\ thread = "dump"
    /\ thread' = "emit"
    /\ UNCHANGED <<vars, secondary, seen, told>>

\* A dump throws; run() catches it and the buffers left are not dumped.
DumpFails ==
    /\ thread = "dump"
    /\ thread' = "emit"
    /\ Deliver(<<"exception">>)
    /\ UNCHANGED <<vars, secondary>>

\* Mutants: an end hides an exception; aborts are forgotten.
StoredEndFirst == IF "end" \in seen THEN <<"end">>
                  ELSE IF "exception" \in seen THEN <<"exception">>
                  ELSE IF "abort" \in seen THEN <<"abort">> ELSE <<>>
StoredNoAbort == IF "exception" \in seen THEN <<"exception">>
                 ELSE IF "end" \in seen THEN <<"end">> ELSE <<>>

\* What emit() passes on: the first of these that was stored.
Stored == IF "exception" \in seen THEN <<"exception">>
          ELSE IF "end" \in seen THEN <<"end">>
          ELSE IF "abort" \in seen THEN <<"abort">> ELSE <<>>

\* emit(), in the finally block of run().
Emit ==
    /\ thread = "emit"
    /\ thread' = "finished"
    /\ told' = told \o (IF secondary THEN Stored ELSE <<>>)
    /\ UNCHANGED <<vars, secondary, seen>>

RunNext == Run \/ LoopStep \/ OpenFails \/ DumpSecondaryBuffers \/ DumpFails \/ Emit

WorkerNext == (ClientNext /\ UNCHANGED workerVars) \/ RunNext

\* The thread was started (TraceControl) and is scheduled.
WorkerSpec == WorkerInit /\ [][WorkerNext]_allVars /\ WF_allVars(RunNext)

-----------------------------------------------------------------------------
Completions == {"end", "abort", "exception"}
Completed == \E i \in 1 .. Len(told) : told[i] \in Completions

\* "delays the onTraceWriteEnd/Abort/Exception callbacks until emit() is
\* called": with secondary buffers the orchestrator hears of the end once and
\* last, so none of them is released before it has been dumped.
CompletedAfterDump ==
    secondary /\ Completed =>
        /\ thread = "finished"
        /\ \A i \in 1 .. (Len(told) - 1) : told[i] = "start"

\* A thread that finishes has told the orchestrator how, if it told it of the
\* start or met an exception: the buffers of the trace are released.
ReleasedWhenStarted ==
    thread = "finished" /\ (visitor.started \/ "exception" \in seen) => Completed

\* The outcome is the true one: the exception if there was one, or else what
\* the writer reported last.
OutcomeTrue ==
    thread = "finished" /\ told # <<>> =>
        told[Len(told)] = IF "exception" \in seen THEN "exception"
                          ELSE IF visitor.calls # <<>> THEN visitor.calls[Len(visitor.calls)]
                          ELSE "exception"

\* "the writer did not block waiting for the next entry after seeing an end
\* event for our trace ID" (testNoTraceStartCursorAtTail): once the trace has
\* an end in the buffer, the thread finishes.
WorkerFinishes ==
    (thread = "loop" /\ pc # "waiting" /\ \E n \in Positions : n >= from /\ Ends(n))
        ~> thread = "finished"
=============================================================================
