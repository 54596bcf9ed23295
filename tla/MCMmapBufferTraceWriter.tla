---------------------- MODULE MCMmapBufferTraceWriter -----------------------
(* Small instances of MmapBufferTraceWriter.                                *)
EXTENDS MmapBufferTraceWriter

CONSTANTS t1, t2
TwoThreads == {t1, t2}
ThreadSymmetry == Permutations(TwoThreads)

\* Entries of one, two and three packets of two bytes.
UpToThree == {1, 3, 6}

\* The start entry, a two-packet annotation and the end of the trace.
Added == <<1, 3, 1>>
=============================================================================
