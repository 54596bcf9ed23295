-------------------------- MODULE MCPacketPipeline --------------------------
(* A small instance of PacketPipeline.                                      *)
EXTENDS PacketPipeline

CONSTANTS t1, t2
TwoThreads == {t1, t2}
ThreadSymmetry == Permutations(Threads)

\* Entries of one, two and three packets of two bytes.
UpToThree == {1, 3, 6}
=============================================================================
