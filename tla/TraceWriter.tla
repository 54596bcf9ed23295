---------------------------- MODULE TraceWriter ----------------------------
(***************************************************************************)
(* writer/TraceWriter: a client submits traces, a thread runs loop(), and   *)
(* other threads log into the buffer meanwhile.  Entries are whole here and *)
(* are written in one step (PacketPipeline checks the packets beneath):     *)
(* position n is readable while it is one of the last Capacity.             *)
(*                                                                          *)
(* The lifecycle entries of a trace are the ones TraceControl writes: each  *)
(* at most once, an end after a start, and a LOGGER_PRIORITY before a       *)
(* TRACE_BACKWARDS (TraceControlHandler.stopTrace).                         *)
(***************************************************************************)
EXTENDS Integers, Sequences, FiniteSets, TraceLifecycleVisitor

CONSTANTS
    TraceIDs,       \* IDs of the traces written to the buffer
    Capacity,       \* entries the buffer holds
    MaxEntries,     \* bound: entries logged
    NoTrace         \* no submitted trace

VARIABLES
    log,            \* log[n + 1] is the entry at position n
    submitted,      \* traces submitted so far
    wakeup,         \* wakeup_trace_id_: NoTrace or [id, cursor]
    stop_requested, \* stop_requested_
    pc,             \* the thread: "idle", "waiting" (loop), "processing", "walking"
    visitor,        \* the visitor of the current or last processTrace
    from, cursor,   \* where its processing began and stands
    back            \* the position traceBackwards reads next

writerVars == <<pc, visitor, from, cursor, back>>
vars == <<log, submitted, wakeup, stop_requested, pc, visitor, from, cursor, back>>

Entry(type, id) == [type |-> type, id |-> id]
Logged(type, id) == \E n \in 1 .. Len(log) : log[n] = Entry(type, id)
Opened(id) == \E type \in Starters : Logged(type, id)
PositionOf(type, id) == CHOOSE n \in 0 .. (Len(log) - 1) : log[n + 1] = Entry(type, id)

InBuffer(n) == n < Len(log) /\ n >= Len(log) - Capacity

Init ==
    /\ log = <<>>
    /\ submitted = {}
    /\ wakeup = NoTrace
    /\ stop_requested = FALSE
    /\ pc = "idle"
    /\ visitor = NewVisitor(NoTrace)
    /\ from = 0 /\ cursor = 0 /\ back = 0

-----------------------------------------------------------------------------
(* The clients.                                                             *)

\* What TraceControl and TraceControlHandler may write next for a trace.
MayLog(type, id) ==
    /\ ~Logged(type, id)
    /\ type \in Starters => ~Opened(id)
    /\ type = "TRACE_END" => Opened(id)
    /\ type = "TRACE_BACKWARDS" => Logged("LOGGER_PRIORITY", id)

Log(type, id) ==
    /\ Len(log) < MaxEntries
    /\ MayLog(type, id)
    /\ log' = Append(log, Entry(type, id))
    /\ UNCHANGED <<submitted, wakeup, stop_requested, writerVars>>

LogData ==
    /\ Len(log) < MaxEntries
    /\ log' = Append(log, Entry("DATA", NoTrace))
    /\ UNCHANGED <<submitted, wakeup, stop_requested, writerVars>>

\* submit(cursor, trace_id), with the cursor of the entry that starts the
\* trace (loggerWriteAndWakeupTraceWriter).
Submit(type, id) ==
    /\ id \notin submitted
    /\ Logged(type, id)
    /\ submitted' = submitted \cup {id}
    /\ stop_requested' = FALSE
    /\ wakeup' = [id |-> id, cursor |-> PositionOf(type, id)]
    /\ UNCHANGED <<log, writerVars>>

\* submit(kStopLoopTraceID)
SubmitStop ==
    /\ ~stop_requested
    /\ stop_requested' = TRUE
    /\ wakeup' = NoTrace
    /\ UNCHANGED <<log, submitted, writerVars>>

-----------------------------------------------------------------------------
(* The writer thread.                                                       *)

Loop ==
    /\ pc = "idle"
    /\ pc' = "waiting"
    /\ UNCHANGED <<log, submitted, wakeup, stop_requested, visitor, from, cursor, back>>


\* The predicate of wakeup_cv_.wait finds a trace; processTrace begins.
Wake ==
    /\ pc = "waiting"
    /\ wakeup # NoTrace
    /\ wakeup' = NoTrace
    /\ pc' = "processing"
    /\ visitor' = NewVisitor(wakeup.id)
    /\ from' = wakeup.cursor /\ cursor' = wakeup.cursor
    /\ UNCHANGED <<log, submitted, stop_requested, back>>

\* The predicate finds a stop and no trace: loop returns.
Stop ==
    /\ pc = "waiting"
    /\ wakeup = NoTrace /\ stop_requested
    /\ pc' = "idle"
    /\ UNCHANGED <<log, submitted, wakeup, stop_requested, visitor, from, cursor, back>>

\* Cursor::moveBackward(): stops at 0.
moveBackward(n) == IF n = 0 THEN 0 ELSE n - 1

\* Mutant: a read of an overwritten position goes on waiting.
ReadForwardBlocking ==
    /\ pc = "processing"
    /\ cursor < Len(log) /\ InBuffer(cursor)
    /\ LET e == log[cursor + 1]
           v == visit(visitor, cursor, e)
           walks == e = Entry("TRACE_BACKWARDS", visitor.expected)
       IN  /\ visitor' = v
           /\ pc' = IF walks THEN "walking" ELSE IF v.done THEN "idle" ELSE "processing"
           /\ back' = IF walks THEN moveBackward(cursor) ELSE back
           /\ cursor' = IF walks THEN cursor ELSE cursor + 1
    /\ UNCHANGED <<log, submitted, wakeup, stop_requested, from>>

\* One round of processTrace: waitAndTryRead blocks until the position is
\* written and fails if it was overwritten, which aborts the trace.  A
\* TRACE_BACKWARDS of this trace starts a walk before the cursor moves on.
ReadForward ==
    /\ pc = "processing"
    /\ cursor < Len(log)
    /\ IF InBuffer(cursor)
       THEN LET e == log[cursor + 1]
                v == visit(visitor, cursor, e)
                walks == e = Entry("TRACE_BACKWARDS", visitor.expected)
            IN  /\ visitor' = v
                /\ pc' = IF walks THEN "walking" ELSE IF v.done THEN "idle" ELSE "processing"
                /\ back' = IF walks THEN moveBackward(cursor) ELSE back
                /\ cursor' = IF walks THEN cursor ELSE cursor + 1
       ELSE /\ visitor' = onTraceAbort(visitor)
            /\ pc' = "idle"
            /\ UNCHANGED <<cursor, back>>
    /\ UNCHANGED <<log, submitted, wakeup, stop_requested, from>>

\* traceBackwards returns into processTrace, which moves its cursor on.
WalkEnds(v) ==
    /\ pc' = IF v.done THEN "idle" ELSE "processing"
    /\ cursor' = cursor + 1

\* One round of traceBackwards: tryRead, then moveBackward; a read that fails
\* or a cursor that does not move ends the walk.
ReadBackward ==
    /\ pc = "walking"
    /\ IF InBuffer(back)
       THEN LET v == visit(visitor, back, log[back + 1])
            IN  /\ visitor' = v
                /\ back' = moveBackward(back)
                /\ IF back = 0 THEN WalkEnds(v) ELSE UNCHANGED <<pc, cursor>>
       ELSE /\ WalkEnds(visitor)
            /\ UNCHANGED <<visitor, back>>
    /\ UNCHANGED <<log, submitted, wakeup, stop_requested, from>>

LifecycleTypes == Terminators \cup Starters \cup {"LOGGER_PRIORITY"}

ThreadNext == Wake \/ Stop \/ ReadForward \/ ReadBackward

ClientNext ==
    \/ \E type \in LifecycleTypes, id \in TraceIDs : Log(type, id)
    \/ LogData
    \/ \E type \in Starters, id \in TraceIDs : Submit(type, id)
    \/ SubmitStop

Next == ClientNext \/ Loop \/ ThreadNext

Spec == Init /\ [][Next]_vars

-----------------------------------------------------------------------------
Positions == 0 .. (Len(log) - 1)
File == {visitor.file[i] : i \in 1 .. Len(visitor.file)}
Foreign(n) == log[n + 1].type \in Terminators \cup Starters /\ log[n + 1].id # visitor.expected
Ends(n) == log[n + 1].type \in Terminators /\ log[n + 1].id = visitor.expected

\* The callbacks are those of testCallbacksInOrderSuccess, ...Abort and
\* ...MissedStart: a start comes first and once, an end only right after it
\* and never together with an abort, or there is nothing at all.  What the
\* start opened is closed by every way out of processTrace.
CallbackOrder ==
    /\ visitor.calls # <<>> =>
        /\ visitor.calls[1] = "start"
        /\ \A i \in 2 .. Len(visitor.calls) :
             visitor.calls[i] = "abort" \/ visitor.calls = <<"start", "end">>
    /\ visitor.output => pc \in {"processing", "walking"} /\ visitor.started

\* The file begins with the starting entry; then come the entries before it,
\* newest first, and the entries after it, oldest first.  It holds each once,
\* leaves none out but the lifecycle entries of other traces, and nothing
\* follows the entry that ends the trace.
FileExact ==
    LET f == visitor.file
    IN  f # <<>> =>
          /\ f[1] = from
          /\ Cardinality(File) = Len(f)
          /\ \A i \in 2 .. (Len(f) - 1) :
                IF f[i] > from THEN f[i + 1] > f[i] ELSE f[i + 1] < f[i] \/ f[i + 1] > from
          /\ \A i, j \in 1 .. Len(f) : \A n \in f[i] .. f[j] : (n \in File) # Foreign(n)
          /\ \A i \in 1 .. (Len(f) - 1) : ~Ends(f[i])


=============================================================================
