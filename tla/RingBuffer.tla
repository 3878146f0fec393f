----------------------------- MODULE RingBuffer -----------------------------
(***************************************************************************)
(* RingBuffer<T, N> of include/ring_buffer.hpp: the lock-free queue that   *)
(* the driver keeps on each side of the ISR boundary, one for TX (main     *)
(* pushes, the ISR pops) and one for RX (the ISR pushes, main pops).  One  *)
(* producer and one consumer each run their member function access by      *)
(* access: every step is one read or write of head_, tail_ or a slot.      *)
(*                                                                         *)
(* head_ and tail_ are volatile, so their accesses happen in the order of  *)
(* the source.  buf_ is not: a compiler may move the access to a slot past *)
(* the volatile store that follows it.  Spec lets pop() do that (it turns  *)
(* out to be harmless); SpecUnordered lets push() do it too.               *)
(***************************************************************************)
EXTENDS Integers, Sequences

CONSTANTS T,  (* the element type                *)
          N   (* buffer size; a power of 2       *)

ASSUME NAssumption == N \in Nat \ {0} /\ \E k \in 0..N : N = 2^k

VARIABLES head_, tail_, buf_,       \* the members of the class
          ppc, h, val, pushRet,     \* the producer: where it is in push(), its
                                    \* locals and the last return value
          cpc, t, out, popRet       \* the consumer: the same for pop();
                                    \* popRet is <<v>> or, for false, <<>>

producer == <<ppc, h, val, pushRet>>
consumer == <<cpc, t, out, popRet>>
vars == <<head_, tail_, buf_, producer, consumer>>

Slots == 0..N-1

(* Operators named X_Bug are mutants: X with a plausible mistake in it.    *)
(* No specification uses them; they show what each property would catch.  *)

Inc_Bug(i) == i + 1   \* the mask is forgotten

(* (i + 1) & MASK, with MASK = N - 1 and N a power of 2. *)
Inc(i) == (i + 1) % N

(* size(): (head_ - tail_) & MASK on unsigned integers. *)
Size == (head_ - tail_) % N

(* empty() *)
Empty == head_ = tail_

(* The elements the indices delimit, oldest first. *)
Content == [i \in 1..Size |-> buf_[(tail_ + (i - 1)) % N]]

-----------------------------------------------------------------------------

(* buf_ has no initialiser: an automatic RingBuffer starts with any bytes. *)
Init == /\ head_ = 0 /\ tail_ = 0
        /\ buf_ \in [Slots -> T]
        /\ ppc = "ready" /\ h = 0 /\ val \in T /\ pushRet = FALSE
        /\ cpc = "ready" /\ t = 0 /\ out \in T /\ popRet = <<>>

(* size_t h = head_; *)
PushCall(v) == /\ ppc = "ready"
               /\ ppc' = "check" /\ val' = v /\ h' = head_
               /\ UNCHANGED <<head_, tail_, buf_, pushRet, consumer>>

(* if (next == tail_) return false; *)
PushFull == /\ ppc = "check" /\ Inc(h) = tail_
            /\ ppc' = "ready" /\ pushRet' = FALSE
            /\ UNCHANGED <<head_, tail_, buf_, h, val, consumer>>

(* All N slots are handed out: no sentinel. *)
PushRoom_Bug == /\ ppc = "check"
                /\ ppc' = "write"
                /\ UNCHANGED <<head_, tail_, buf_, h, val, pushRet, consumer>>

PushRoom == /\ ppc = "check" /\ Inc(h) # tail_
            /\ ppc' = "write"
            /\ UNCHANGED <<head_, tail_, buf_, h, val, pushRet, consumer>>

(* buf_[h] = val; *)
PushWrite == /\ ppc = "write"
             /\ ppc' = "publish" /\ buf_' = [buf_ EXCEPT ![h] = val]
             /\ UNCHANGED <<head_, tail_, h, val, pushRet, consumer>>

(* head_ = next; return true; *)
PushPublish == /\ ppc = "publish"
               /\ ppc' = "ready" /\ head_' = Inc(h) /\ pushRet' = TRUE
               /\ UNCHANGED <<tail_, buf_, h, val, consumer>>

-----------------------------------------------------------------------------

(* size_t t = tail_; *)
PopCall == /\ cpc = "ready"
           /\ cpc' = "check" /\ t' = tail_
           /\ UNCHANGED <<head_, tail_, buf_, out, popRet, producer>>

(* if (t == head_) return false; *)
PopEmpty == /\ cpc = "check" /\ t = head_
            /\ cpc' = "ready" /\ popRet' = <<>>
            /\ UNCHANGED <<head_, tail_, buf_, t, out, producer>>

PopFound == /\ cpc = "check" /\ t # head_
            /\ cpc' = "read"
            /\ UNCHANGED <<head_, tail_, buf_, t, out, popRet, producer>>

(* val = buf_[t]; *)
PopRead == /\ cpc = "read"
           /\ cpc' = "advance" /\ out' = buf_[t]
           /\ UNCHANGED <<head_, tail_, buf_, t, popRet, producer>>

(* The queue is emptied instead of one element being taken off it. *)
PopAdvance_Bug == /\ cpc = "advance"
                  /\ cpc' = "ready" /\ tail_' = head_ /\ popRet' = <<out>>
                  /\ UNCHANGED <<head_, buf_, t, out, producer>>

(* tail_ = (t + 1) & MASK; return true; *)
PopAdvance == /\ cpc = "advance"
              /\ cpc' = "ready" /\ tail_' = Inc(t) /\ popRet' = <<out>>
              /\ UNCHANGED <<head_, buf_, t, out, producer>>

(* The two accesses above in the other order: the slot is given back, and  *)
(* read afterwards.                                                        *)
PopAdvanceFirst == /\ cpc = "read"
                   /\ cpc' = "late" /\ tail_' = Inc(t)
                   /\ UNCHANGED <<head_, buf_, t, out, popRet, producer>>

PopReadLate == /\ cpc = "late"
               /\ cpc' = "ready" /\ out' = buf_[t] /\ popRet' = <<buf_[t]>>
               /\ UNCHANGED <<head_, tail_, buf_, t, producer>>

-----------------------------------------------------------------------------

Producer == \/ \E v \in T : PushCall(v)
            \/ PushFull \/ PushRoom \/ PushWrite \/ PushPublish

Consumer == \/ PopCall \/ PopEmpty \/ PopFound
            \/ PopRead \/ PopAdvance \/ PopAdvanceFirst \/ PopReadLate

Next == Producer \/ Consumer

Spec == Init /\ [][Next]_vars

(* push() with its slot write moved past the store that publishes it. *)
PushPublishFirst == /\ ppc = "write"
                    /\ ppc' = "late" /\ head_' = Inc(h)
                    /\ UNCHANGED <<tail_, buf_, h, val, pushRet, consumer>>

PushWriteLate == /\ ppc = "late"
                 /\ ppc' = "ready" /\ buf_' = [buf_ EXCEPT ![h] = val]
                 /\ pushRet' = TRUE
                 /\ UNCHANGED <<head_, tail_, h, val, consumer>>

SpecUnordered == Init /\ [][Next \/ PushPublishFirst \/ PushWriteLate]_vars

-----------------------------------------------------------------------------

(* Types.  That the indices stay in Slots is the point of the masks: no    *)
(* access to buf_ is ever out of bounds.                                   *)
TypeOK == /\ head_ \in Slots /\ tail_ \in Slots
          /\ buf_ \in [Slots -> T]
          /\ ppc \in {"ready", "check", "write", "publish", "late"}
          /\ cpc \in {"ready", "check", "read", "advance", "late"}
          /\ h \in Slots /\ t \in Slots
          /\ val \in T /\ out \in T
          /\ pushRet \in BOOLEAN
          /\ popRet \in {<<>>} \cup {<<v>> : v \in T}

(* The two contexts never touch one slot at the same time: while push()    *)
(* has yet to write its slot and pop() has yet to read its own, the two    *)
(* slots differ.  This is what "no explicit memory barrier is required"    *)
(* rests on (ring_buffer.hpp, lines 15-19).                                *)
SlotOwnership == ppc \in {"write", "late"} /\ cpc \in {"read", "late"} => h # t

(* The ring buffer is a FIFO of capacity N-1: every element goes through   *)
(* once and in order, push() fails only on a full queue and pop() only on  *)
(* an empty one, whatever the interleaving.  A pop() that has given its    *)
(* slot back has popped the element it is still to read.                   *)
Fifo == INSTANCE BoundedFifo
          WITH queue <- Content, Capacity <- N - 1, pushed <- pushRet,
               popped <- IF cpc = "late" THEN <<buf_[t]>> ELSE popRet

ImplementsFifo == Fifo!Spec
=============================================================================
