----------------------- MODULE MCLoggerWorkerThread ------------------------
(***************************************************************************)
(* A worker thread with one or more buffers; its main buffer of three       *)
(* entries receives entries of two traces: enough for a trace to be         *)
(* submitted, lapped, walked backwards and ended among entries of another.  *)
(***************************************************************************)
EXTENDS LoggerWorkerThread

CONSTANTS t1, t2

TwoTraces == {t1, t2}
=============================================================================
