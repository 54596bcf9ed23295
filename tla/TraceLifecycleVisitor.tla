----------------------- MODULE TraceLifecycleVisitor -----------------------
(***************************************************************************)
(* writer/TraceLifecycleVisitor: what one entry does to the output file and *)
(* to the callbacks of the trace being written.  The file is the sequence   *)
(* of buffer positions whose entries reached the delegates; their encoding  *)
(* (delta, timestamps, inverted stacks) is left out.                        *)
(***************************************************************************)
EXTENDS Sequences

Terminators == {"TRACE_END", "TRACE_TIMEOUT", "TRACE_ABORT"}
Starters == {"TRACE_START", "TRACE_BACKWARDS"}

NewVisitor(id) ==
    [expected |-> id, output |-> FALSE, started |-> FALSE, done |-> FALSE,
     file |-> <<>>, calls |-> <<>>]

\* delegates_.back()->visit(entry); there are delegates while output_ is open.
Delegate(v, n) == IF v.output THEN [v EXCEPT !.file = Append(@, n)] ELSE v

cleanupState(v) == [v EXCEPT !.output = FALSE]

\* Mutant: the callback does not depend on started_.
FinishUnstarted(v, call) ==
    LET w == [cleanupState(v) EXCEPT !.done = TRUE]
    IN  [w EXCEPT !.calls = Append(@, call)]

\* onTraceEnd and onTraceAbort.
Finish(v, call) ==
    LET w == [cleanupState(v) EXCEPT !.done = TRUE]
    IN  IF w.started THEN [w EXCEPT !.calls = Append(@, call)] ELSE w

onTraceEnd(v) == Finish(v, "end")
onTraceAbort(v) == Finish(v, "abort")

\* An output that is already open is a second start of the same ID: NEW_START.
onTraceStart(v) ==
    IF v.output
    THEN onTraceAbort(v)
    ELSE [v EXCEPT !.output = TRUE, !.started = TRUE, !.done = FALSE,
                   !.calls = Append(@, "start")]


\* Mutant: an end or abort of any trace ends this one.
visitAnyTrace(v, n, e) ==
    CASE e.type \in Starters /\ e.id # v.expected -> v
      [] e.type = "TRACE_END" -> onTraceEnd(Delegate(v, n))
      [] e.type \in {"TRACE_TIMEOUT", "TRACE_ABORT"} -> onTraceAbort(Delegate(v, n))
      [] e.type \in Starters /\ e.id = v.expected -> Delegate(onTraceStart(v), n)
      [] OTHER -> Delegate(v, n)

\* visit(entry), for the entry e at position n.  Lifecycle entries of another
\* trace are dropped; a terminator is written before the output is closed.
visit(v, n, e) ==
    CASE e.type \in Terminators \cup Starters /\ e.id # v.expected -> v
      [] e.type = "TRACE_END" /\ e.id = v.expected -> onTraceEnd(Delegate(v, n))
      [] e.type \in {"TRACE_TIMEOUT", "TRACE_ABORT"} /\ e.id = v.expected ->
            onTraceAbort(Delegate(v, n))
      [] e.type \in Starters /\ e.id = v.expected -> Delegate(onTraceStart(v), n)
      [] OTHER -> Delegate(v, n)
=============================================================================
