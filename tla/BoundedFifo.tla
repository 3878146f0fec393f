----------------------------- MODULE BoundedFifo -----------------------------
(***************************************************************************)
(* What include/ring_buffer.hpp promises: a first-in first-out queue of at *)
(* most Capacity elements ("The usable capacity is N-1 elements"), whose   *)
(* push() refuses an element only when the queue is full and whose pop()   *)
(* refuses only when it is empty.  RingBuffer implements it.               *)
(***************************************************************************)
EXTENDS Integers, Sequences

CONSTANTS T,        (* the element type                       *)
          Capacity  (* how many elements the queue may hold   *)

VARIABLES queue,    (* the elements, oldest first                          *)
          pushed,   (* what the latest push() returned                     *)
          popped    (* <<v>> when the latest pop() returned v, <<>> when it
                       returned false                                      *)

vars == <<queue, pushed, popped>>

Init == queue = <<>> /\ pushed = FALSE /\ popped = <<>>

Push(v) == /\ Len(queue) < Capacity
           /\ queue' = Append(queue, v)
           /\ pushed' = TRUE
           /\ UNCHANGED popped

PushFull == /\ Len(queue) = Capacity
            /\ pushed' = FALSE
            /\ UNCHANGED <<queue, popped>>

Pop == /\ queue # <<>>
       /\ queue' = Tail(queue)
       /\ popped' = <<Head(queue)>>
       /\ UNCHANGED pushed

PopEmpty == /\ queue = <<>>
            /\ popped' = <<>>
            /\ UNCHANGED <<queue, pushed>>

Next == (\E v \in T : Push(v)) \/ PushFull \/ Pop \/ PopEmpty

Spec == Init /\ [][Next]_vars
=============================================================================
