---------------------------- MODULE MCRingBuffer ----------------------------
(* RingBuffer<T, 4> over two element values: the smallest power of two for *)
(* which the queue can be empty, partly filled, full and wrapped around    *)
(* with several elements in it.                                            *)
EXTENDS RingBuffer

CONSTANTS a, b
MCT == {a, b}
=============================================================================
