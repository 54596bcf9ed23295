---------------------------- MODULE MCRingBuffer ----------------------------
(* LockFreeRingBuffer on small instances.                                   *)
EXTENDS RingBufferProofs, TLC

CONSTANTS w1, w2, w3, r1

TwoWriters == {w1, w2}
ThreeWriters == {w1, w2, w3}
OneReader == {r1}
NoReaders == {}
WriterSymmetry == Permutations(Writers)
=============================================================================
