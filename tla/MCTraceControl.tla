--------------------------- MODULE MCTraceControl ---------------------------
(* TraceControl with two caller threads and the looper.                     *)
EXTENDS TraceControl, TLC

CONSTANTS c1, c2, k1

TwoCallers == {c1, c2}
OneKey == {k1}
CallerSymmetry == Permutations(Callers)

AllStops == {"stop", "abort", "conditional", "cleanup"}
StopOnly == {"stop"}

WellFormed == [key : Keys, memory : BOOLEAN, malformed : {FALSE}]
AnyArgs == Args
=============================================================================
