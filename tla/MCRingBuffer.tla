---------------------------- MODULE MCRingBuffer ----------------------------
(* Small instances of RingBuffer for TLC.                                  *)
EXTENDS RingBuffer

\* Two items of each time, told apart by id.
MCItems == [ts : 1 .. 2, id : 1 .. 2]
=============================================================================
