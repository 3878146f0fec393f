------------------------- MODULE RingBuffer_proofs -------------------------
(***************************************************************************)
(* What holds of RingBuffer for every element type and every power of two: *)
(* its indices stay inside the buffer, the two contexts never meet in a    *)
(* slot, and the buffer implements BoundedFifo with capacity N-1.          *)
(***************************************************************************)
EXTENDS RingBuffer, SequenceTheorems, TLAPS

-----------------------------------------------------------------------------
(* Arithmetic of the masked indices *)

LEMMA NPositive == N \in Nat \ {0}
BY NAssumption

(* Inc steps through the slots and wraps at the end. *)
LEMMA IncValue ==
    \A i \in Slots : /\ Inc(i) \in Slots
                     /\ Inc(i) = IF i = N - 1 THEN 0 ELSE i + 1
BY NPositive DEF Inc, Slots

LEMMA IncInjective == \A i, j \in Slots : Inc(i) = Inc(j) => i = j
BY NPositive, IncValue DEF Slots

(* The number of elements between two indices, and the elements. *)
Dist(hd, tl) == (hd - tl) % N
ContentOf(b, hd, tl) == [k \in 1..Dist(hd, tl) |-> b[(tl + (k - 1)) % N]]

LEMMA DistValue ==
    \A i, j \in Slots : /\ Dist(i, j) \in 0..N-1
                        /\ Dist(i, j) = IF j <= i THEN i - j ELSE (i - j) + N
BY NPositive DEF Dist, Slots

(* The slot of the k-th element. *)
LEMMA SlotValue ==
    \A j \in Slots : \A k \in 0..N-1 :
        /\ (j + k) % N \in Slots
        /\ (j + k) % N = IF j + k < N THEN j + k ELSE (j + k) - N
BY NPositive DEF Slots

LEMMA ContentType ==
    ASSUME NEW b \in [Slots -> T], NEW i \in Slots, NEW j \in Slots
    PROVE  /\ ContentOf(b, i, j) \in Seq(T)
           /\ Len(ContentOf(b, i, j)) = Dist(i, j)
           /\ \A k \in 1..Dist(i, j) :
                 ContentOf(b, i, j)[k] = b[(j + (k - 1)) % N]
<1> DEFINE s == ContentOf(b, i, j)
<1>1. Dist(i, j) \in Nat /\ Dist(i, j) <= N - 1
  BY DistValue, NPositive
<1>2. \A k \in 1..Dist(i, j) : b[(j + (k - 1)) % N] \in T
  <2> TAKE k \in 1..Dist(i, j)
  <2>1. k - 1 \in 0..N-1
    BY <1>1, NPositive
  <2> QED BY <2>1, SlotValue
<1>3. s \in [1..Dist(i, j) -> T]
  BY <1>2 DEF ContentOf
<1>4. s \in Seq(T)
  BY <1>1, <1>3, SeqDef
<1>5. Len(s) = Dist(i, j)
  BY <1>1, <1>3, <1>4, LenProperties
<1> QED BY <1>4, <1>5 DEF ContentOf

-----------------------------------------------------------------------------
(* What the three kinds of change to the buffer do to its content *)

(* push() writes the slot behind the last element: nothing of the content  *)
(* changes.                                                                *)
LEMMA ContentWrite ==
    ASSUME NEW b \in [Slots -> T], NEW i \in Slots, NEW j \in Slots, NEW v \in T
    PROVE  ContentOf([b EXCEPT ![i] = v], i, j) = ContentOf(b, i, j)
<1> DEFINE c == [b EXCEPT ![i] = v]
<1>1. \A k \in 1..Dist(i, j) : c[(j + (k - 1)) % N] = b[(j + (k - 1)) % N]
  <2> TAKE k \in 1..Dist(i, j)
  <2>1. Dist(i, j) \in 0..N-1
        /\ Dist(i, j) = IF j <= i THEN i - j ELSE (i - j) + N
    BY DistValue
  <2>2. k - 1 \in 0..N-1 /\ k \in 1..N-1
    BY <2>1, NPositive
  <2>3. /\ (j + (k - 1)) % N \in Slots
        /\ (j + (k - 1)) % N = IF j + (k - 1) < N THEN j + (k - 1)
                                                  ELSE (j + (k - 1)) - N
    BY <2>2, SlotValue
  <2>4. k <= Dist(i, j)
    BY <2>1
  <2>5. (j + (k - 1)) % N # i
    BY <2>1, <2>2, <2>3, <2>4, NPositive DEF Slots
  <2> QED BY <2>3, <2>5
<1> QED BY <1>1 DEF ContentOf

(* Advancing the head past a slot appends what the slot holds. *)
LEMMA ContentPush ==
    ASSUME NEW b \in [Slots -> T], NEW i \in Slots, NEW j \in Slots,
           Inc(i) # j
    PROVE  /\ ContentOf(b, Inc(i), j) = Append(ContentOf(b, i, j), b[i])
           /\ Dist(i, j) < N - 1
<1> DEFINE s == ContentOf(b, i, j)
           r == ContentOf(b, Inc(i), j)
           d == Dist(i, j)
<1>1. Inc(i) \in Slots /\ Inc(i) = IF i = N - 1 THEN 0 ELSE i + 1
  BY IncValue
<1>2. d \in 0..N-1 /\ d = IF j <= i THEN i - j ELSE (i - j) + N
  BY DistValue
<1>3. Dist(Inc(i), j) = d + 1 /\ d < N - 1
  <2>1. Dist(Inc(i), j) = IF j <= Inc(i) THEN Inc(i) - j
                                         ELSE (Inc(i) - j) + N
    BY <1>1, DistValue
  <2> QED BY <1>1, <1>2, <2>1, NPositive DEF Slots
<1>4. /\ s \in Seq(T) /\ Len(s) = d
      /\ \A k \in 1..d : s[k] = b[(j + (k - 1)) % N]
  BY ContentType
<1>5. /\ r \in Seq(T) /\ Len(r) = d + 1
      /\ \A k \in 1..(d + 1) : r[k] = b[(j + (k - 1)) % N]
  BY ContentType, <1>1, <1>3
<1>6. b[i] \in T
  OBVIOUS
<1>7. /\ Append(s, b[i]) \in Seq(T) /\ Len(Append(s, b[i])) = d + 1
      /\ \A k \in 1..d : Append(s, b[i])[k] = s[k]
      /\ Append(s, b[i])[d + 1] = b[i]
  BY <1>4, <1>6, <1>2, AppendProperties
<1>8. (j + ((d + 1) - 1)) % N = i
  <2>1. (d + 1) - 1 = d
    BY <1>2
  <2>2. (j + d) % N = IF j + d < N THEN j + d ELSE (j + d) - N
    BY <1>2, SlotValue
  <2>3. (j + d) % N = i
    BY <1>2, <2>2, NPositive DEF Slots
  <2> QED BY <2>1, <2>3
<1>9. \A k \in 1..(d + 1) : r[k] = Append(s, b[i])[k]
  <2> TAKE k \in 1..(d + 1)
  <2>1. CASE k = d + 1
    BY <2>1, <1>5, <1>7, <1>8
  <2>2. CASE k # d + 1
    <3>1. k \in 1..d
      BY <2>2, <1>2
    <3> QED BY <3>1, <1>4, <1>5, <1>7
  <2> QED BY <2>1, <2>2
<1>10. r = Append(s, b[i])
  <2> HIDE DEF s, r, d
  <2> QED BY <1>5, <1>7, <1>9, SeqEqual
<1> QED BY <1>3, <1>10

(* Advancing the tail past a slot takes the first element off. *)
LEMMA ContentPop ==
    ASSUME NEW b \in [Slots -> T], NEW i \in Slots, NEW j \in Slots, j # i
    PROVE  /\ ContentOf(b, i, Inc(j)) = Tail(ContentOf(b, i, j))
           /\ Head(ContentOf(b, i, j)) = b[j]
           /\ ContentOf(b, i, j) # <<>>
<1> DEFINE s == ContentOf(b, i, j)
           r == ContentOf(b, i, Inc(j))
           d == Dist(i, j)
<1>1. Inc(j) \in Slots /\ Inc(j) = IF j = N - 1 THEN 0 ELSE j + 1
  BY IncValue
<1>2. d \in 1..N-1 /\ d = IF j <= i THEN i - j ELSE (i - j) + N
  <2>1. d \in 0..N-1 /\ d = IF j <= i THEN i - j ELSE (i - j) + N
    BY DistValue
  <2> HIDE DEF d
  <2> QED BY <2>1, NPositive DEF Slots
<1>3. Dist(i, Inc(j)) = d - 1
  <2>1. Dist(i, Inc(j)) = IF Inc(j) <= i THEN i - Inc(j)
                                         ELSE (i - Inc(j)) + N
    BY <1>1, DistValue
  <2> QED BY <1>1, <1>2, <2>1, NPositive DEF Slots
<1>4. /\ s \in Seq(T) /\ Len(s) = d
      /\ \A k \in 1..d : s[k] = b[(j + (k - 1)) % N]
  BY ContentType
<1>5. /\ r \in Seq(T) /\ Len(r) = d - 1
      /\ \A k \in 1..(d - 1) : r[k] = b[(Inc(j) + (k - 1)) % N]
  BY ContentType, <1>1, <1>3
<1>6. s # <<>>
  BY <1>2, <1>4, EmptySeq
<1>7. /\ Tail(s) \in Seq(T) /\ Len(Tail(s)) = d - 1
      /\ \A k \in 1..(d - 1) : Tail(s)[k] = s[k + 1]
  BY <1>4, <1>6, HeadTailProperties
<1>8. \A k \in 1..(d - 1) : (Inc(j) + (k - 1)) % N = (j + ((k + 1) - 1)) % N
  <2> TAKE k \in 1..(d - 1)
  <2>1. k - 1 \in 0..N-1 /\ k \in 0..N-1 /\ (k + 1) - 1 = k /\ k \in 1..N-2
    BY <1>2, NPositive
  <2>2. (Inc(j) + (k - 1)) % N = IF Inc(j) + (k - 1) < N
                                   THEN Inc(j) + (k - 1)
                                   ELSE (Inc(j) + (k - 1)) - N
    BY <1>1, <2>1, SlotValue
  <2>3. (j + k) % N = IF j + k < N THEN j + k ELSE (j + k) - N
    BY <2>1, SlotValue
  <2>4. (Inc(j) + (k - 1)) % N = (j + k) % N
    BY <1>1, <2>1, <2>2, <2>3, NPositive DEF Slots
  <2> QED BY <2>1, <2>4
<1>9. \A k \in 1..(d - 1) : r[k] = Tail(s)[k]
  <2> TAKE k \in 1..(d - 1)
  <2>1. k + 1 \in 1..d
    BY <1>2
  <2> QED BY <2>1, <1>4, <1>5, <1>7, <1>8
<1>10. r = Tail(s)
  <2> HIDE DEF s, r, d
  <2> QED BY <1>5, <1>7, <1>9, SeqEqual
<1>11. Head(s) = b[j]
  <2>1. (j + (1 - 1)) % N = j
    <3>1. j + (1 - 1) = j + 0 /\ 0 \in 0..N-1
      BY NPositive DEF Slots
    <3>2. (j + 0) % N = IF j + 0 < N THEN j + 0 ELSE (j + 0) - N
      BY <3>1, SlotValue
    <3> QED BY <3>1, <3>2, NPositive DEF Slots
  <2>2. s[1] = b[j]
    BY <1>2, <1>4, <2>1
  <2> HIDE DEF s
  <2> QED BY <2>2, <1>4, <1>6
<1> QED BY <1>6, <1>10, <1>11

(* The queue is full exactly when the next head is the tail, and empty     *)
(* exactly when the two are equal.                                         *)
LEMMA ContentFull ==
    ASSUME NEW b \in [Slots -> T], NEW i \in Slots, NEW j \in Slots
    PROVE  /\ Inc(i) = j => Len(ContentOf(b, i, j)) = N - 1
           /\ i = j => ContentOf(b, i, j) = <<>>
<1>1. ContentOf(b, i, j) \in Seq(T) /\ Len(ContentOf(b, i, j)) = Dist(i, j)
  BY ContentType
<1>2. Inc(i) = j => Dist(i, j) = N - 1
  <2>1. Inc(i) = IF i = N - 1 THEN 0 ELSE i + 1
    BY IncValue
  <2>2. Dist(i, j) = IF j <= i THEN i - j ELSE (i - j) + N
    BY DistValue
  <2> QED BY <2>1, <2>2, NPositive DEF Slots
<1>3. i = j => Dist(i, j) = 0
  BY DistValue, NPositive DEF Slots
<1> QED BY <1>1, <1>2, <1>3, EmptySeq

-----------------------------------------------------------------------------
(* The inductive invariant *)

(* push() works on the head it read, has found room behind it, and has     *)
(* written what it is about to publish.                                    *)
ProducerInv == /\ ppc # "late"
               /\ ppc # "ready" => h = head_
               /\ ppc \in {"write", "publish"} => Inc(h) # tail_
               /\ ppc = "publish" => buf_[h] = val

(* pop() works on the tail it read, has found an element there, and reads  *)
(* it before or after it moves the tail on.                                *)
ConsumerInv == /\ cpc \in {"check", "read", "advance"} => t = tail_
               /\ cpc \in {"read", "advance"} => t # head_
               /\ cpc = "advance" => out = buf_[t]
               /\ cpc = "late" => tail_ = Inc(t)

IInv == TypeOK /\ ProducerInv /\ ConsumerInv

LEMMA InitIInv == Init => IInv
<1> SUFFICES ASSUME Init PROVE IInv
  OBVIOUS
<1>1. 0 \in Slots
  BY NPositive DEF Slots
<1> QED BY <1>1 DEF Init, IInv, TypeOK, ProducerInv, ConsumerInv

(* No step leaves the types: the masks keep every index in the buffer.     *)
LEMMA NextTypeOK == TypeOK /\ [Next]_vars => TypeOK'
<1> SUFFICES ASSUME TypeOK, [Next]_vars PROVE TypeOK'
  OBVIOUS
<1> USE DEF TypeOK
<1>1. ASSUME NEW v \in T, PushCall(v) PROVE TypeOK'
  BY <1>1 DEF PushCall, consumer
<1>2. CASE PushFull
  BY <1>2 DEF PushFull, consumer
<1>3. CASE PushRoom
  BY <1>3 DEF PushRoom, consumer
<1>4. CASE PushWrite
  BY <1>4 DEF PushWrite, consumer
<1>5. CASE PushPublish
  BY <1>5, IncValue DEF PushPublish, consumer
<1>6. CASE PopCall
  BY <1>6 DEF PopCall, producer
<1>7. CASE PopEmpty
  BY <1>7 DEF PopEmpty, producer
<1>8. CASE PopFound
  BY <1>8 DEF PopFound, producer
<1>9. CASE PopRead
  BY <1>9 DEF PopRead, producer
<1>10. CASE PopAdvance
  BY <1>10, IncValue DEF PopAdvance, producer
<1>11. CASE PopAdvanceFirst
  BY <1>11, IncValue DEF PopAdvanceFirst, producer
<1>12. CASE PopReadLate
  BY <1>12 DEF PopReadLate, producer
<1>13. CASE UNCHANGED vars
  BY <1>13 DEF vars, producer, consumer
<1> QED BY <1>1, <1>2, <1>3, <1>4, <1>5, <1>6, <1>7, <1>8, <1>9, <1>10,
           <1>11, <1>12, <1>13 DEF Next, Producer, Consumer

(* The producer's steps move head_ and write slots, the consumer's move    *)
(* tail_: each has to respect what the other relies on.                    *)
LEMMA NextIInv == IInv /\ [Next]_vars => IInv'
<1> SUFFICES ASSUME IInv, [Next]_vars PROVE IInv'
  OBVIOUS
<1>1. TypeOK /\ TypeOK' /\ ProducerInv /\ ConsumerInv
  BY NextTypeOK DEF IInv
<1> SUFFICES ProducerInv' /\ ConsumerInv'
  BY <1>1 DEF IInv
<1> USE <1>1 DEF TypeOK, ProducerInv, ConsumerInv
<1>2. ASSUME NEW v \in T, PushCall(v) PROVE ProducerInv' /\ ConsumerInv'
  BY <1>2 DEF PushCall, consumer
<1>3. CASE PushFull
  BY <1>3 DEF PushFull, consumer
<1>4. CASE PushRoom
  BY <1>4 DEF PushRoom, consumer
<1>5. CASE PushWrite
  <2>1. ProducerInv'
    BY <1>5 DEF PushWrite
  <2>2. ConsumerInv'
    BY <1>5 DEF PushWrite, consumer
  <2> QED BY <2>1, <2>2
<1>6. CASE PushPublish
  BY <1>6 DEF PushPublish, consumer
<1>7. CASE PopCall
  BY <1>7 DEF PopCall, producer
<1>8. CASE PopEmpty
  BY <1>8 DEF PopEmpty, producer
<1>9. CASE PopFound
  BY <1>9 DEF PopFound, producer
<1>10. CASE PopRead
  BY <1>10 DEF PopRead, producer
<1>11. CASE PopAdvance
  BY <1>11, IncInjective DEF PopAdvance, producer
<1>12. CASE PopAdvanceFirst
  BY <1>12, IncInjective DEF PopAdvanceFirst, producer
<1>13. CASE PopReadLate
  BY <1>13 DEF PopReadLate, producer
<1>14. CASE UNCHANGED vars
  BY <1>14 DEF vars, producer, consumer
<1> QED BY <1>2, <1>3, <1>4, <1>5, <1>6, <1>7, <1>8, <1>9, <1>10,
           <1>11, <1>12, <1>13, <1>14 DEF Next, Producer, Consumer

LEMMA AlwaysIInv == Spec => []IInv
BY InitIInv, NextIInv, PTL DEF Spec

(* TypeOK is an invariant: neither push() nor pop() ever indexes outside   *)
(* the buffer.                                                             *)
THEOREM TypeCorrect == Spec => []TypeOK
<1>1. IInv => TypeOK
  BY DEF IInv
<1> QED BY <1>1, AlwaysIInv, PTL

(* SlotOwnership is an invariant: the two contexts never access one slot   *)
(* at the same time, even when pop() reads its slot after giving it back.  *)
THEOREM SlotsAreOwned == Spec => []SlotOwnership
<1>1. IInv => SlotOwnership
  BY DEF IInv, TypeOK, ProducerInv, ConsumerInv, SlotOwnership
<1> QED BY <1>1, AlwaysIInv, PTL

-----------------------------------------------------------------------------
(* The refinement: push() takes effect at its store to head_, pop() at its *)
(* store to tail_; the tests that fail take effect where they are made;    *)
(* every other step is invisible to the queue.                             *)

LEMMA ContentIs == /\ Content = ContentOf(buf_, head_, tail_)
                   /\ Content' = ContentOf(buf_', head_', tail_')
BY DEF Content, Size, ContentOf, Dist

LEMMA InitFifo == Init => Fifo!Init
<1> SUFFICES ASSUME Init PROVE Fifo!Init
  OBVIOUS
<1>1. 0 \in Slots
  BY NPositive DEF Slots
<1>2. Content = <<>>
  BY <1>1, ContentIs, ContentFull DEF Init
<1> QED BY <1>2 DEF Init, Fifo!Init

(* The steps that change nothing the queue shows. *)
Invisible == UNCHANGED Fifo!vars

LEMMA NextFifo == IInv /\ [Next]_vars => [Fifo!Next]_Fifo!vars
<1> SUFFICES ASSUME IInv, [Next]_vars PROVE Fifo!Next \/ Invisible
  BY DEF Invisible
<1> USE DEF IInv
<1>1. /\ buf_ \in [Slots -> T] /\ head_ \in Slots /\ tail_ \in Slots
      /\ h \in Slots /\ t \in Slots /\ val \in T
  BY DEF TypeOK
<1>2. ASSUME UNCHANGED <<head_, tail_, buf_>>, UNCHANGED <<pushRet, popRet, t>>,
             cpc = "late" <=> cpc' = "late"
      PROVE  Invisible
  BY <1>2, ContentIs DEF Invisible, Fifo!vars
<1>3. ASSUME NEW v \in T, PushCall(v) PROVE Invisible
  BY <1>3, <1>2 DEF PushCall, consumer
<1>4. CASE PushFull
  <2>1. Len(Content) = N - 1
    BY <1>1, <1>4, ContentIs, ContentFull DEF PushFull, ProducerInv
  <2>2. UNCHANGED Content /\ pushRet' = FALSE
    BY <1>4, ContentIs DEF PushFull
  <2>3. Fifo!PushFull
    BY <1>4, <2>1, <2>2 DEF PushFull, consumer, Fifo!PushFull
  <2> QED BY <2>3 DEF Fifo!Next
<1>5. CASE PushRoom
  BY <1>5, <1>2 DEF PushRoom, consumer
<1>6. CASE PushWrite
  <2>1. h = head_ /\ Inc(head_) # tail_
    BY <1>6 DEF PushWrite, ProducerInv
  <2>2. UNCHANGED Content
    BY <1>1, <1>6, <2>1, ContentIs, ContentWrite DEF PushWrite
  <2>3. cpc = "late" => h # t
    BY <1>1, <2>1 DEF ConsumerInv
  <2>4. cpc = "late" => buf_'[t] = buf_[t]
    BY <1>1, <1>6, <2>3 DEF PushWrite
  <2> QED BY <1>6, <2>2, <2>4 DEF PushWrite, consumer, Invisible, Fifo!vars
<1>7. CASE PushPublish
  <2>1. h = head_ /\ Inc(head_) # tail_ /\ buf_[head_] = val
    BY <1>7 DEF PushPublish, ProducerInv
  <2>2. Content' = Append(Content, val)
    BY <1>1, <1>7, <2>1, ContentIs, ContentPush DEF PushPublish
  <2>3. Len(Content) < N - 1
    BY <1>1, <2>1, ContentIs, ContentPush, ContentType
  <2>4. Fifo!Push(val)
    BY <1>7, <2>2, <2>3 DEF PushPublish, consumer, Fifo!Push
  <2> QED BY <1>1, <2>4 DEF Fifo!Next
<1>8. CASE PopCall
  <2>1. cpc # "late" /\ cpc' # "late"
    BY <1>8 DEF PopCall
  <2>2. UNCHANGED Content /\ UNCHANGED <<pushRet, popRet>>
    BY <1>8, ContentIs DEF PopCall, producer
  <2> QED BY <2>1, <2>2 DEF Invisible, Fifo!vars
<1>9. CASE PopEmpty
  <2>1. Content = <<>>
    BY <1>1, <1>9, ContentIs, ContentFull DEF PopEmpty, ConsumerInv
  <2>2. /\ UNCHANGED Content /\ popRet' = <<>> /\ cpc' # "late"
        /\ UNCHANGED pushRet
    BY <1>9, ContentIs DEF PopEmpty, producer
  <2>3. Fifo!PopEmpty
    BY <2>1, <2>2 DEF Fifo!PopEmpty
  <2> QED BY <2>3 DEF Fifo!Next
<1>10. CASE PopFound
  BY <1>10, <1>2 DEF PopFound, producer
<1>11. CASE PopRead
  BY <1>11, <1>2 DEF PopRead, producer
<1>12. CASE PopAdvance
  <2>1. t = tail_ /\ tail_ # head_ /\ out = buf_[tail_]
    BY <1>12 DEF PopAdvance, ConsumerInv
  <2>2. /\ Content' = Tail(Content) /\ Head(Content) = buf_[tail_]
        /\ Content # <<>>
    BY <1>1, <1>12, <2>1, ContentIs, ContentPop DEF PopAdvance
  <2>3. popRet' = <<buf_[tail_]>> /\ cpc' # "late" /\ UNCHANGED pushRet
    BY <1>12, <2>1 DEF PopAdvance, producer
  <2>4. Fifo!Pop
    BY <2>2, <2>3 DEF Fifo!Pop
  <2> QED BY <2>4 DEF Fifo!Next
<1>13. CASE PopAdvanceFirst
  <2>1. t = tail_ /\ tail_ # head_
    BY <1>13 DEF PopAdvanceFirst, ConsumerInv
  <2>2. /\ Content' = Tail(Content) /\ Head(Content) = buf_[tail_]
        /\ Content # <<>>
    BY <1>1, <1>13, <2>1, ContentIs, ContentPop DEF PopAdvanceFirst
  <2>3. cpc' = "late" /\ buf_'[t'] = buf_[tail_] /\ UNCHANGED pushRet
    BY <1>13, <2>1 DEF PopAdvanceFirst, producer
  <2>4. Fifo!Pop
    BY <2>2, <2>3 DEF Fifo!Pop
  <2> QED BY <2>4 DEF Fifo!Next
<1>14. CASE PopReadLate
  <2>1. UNCHANGED Content /\ UNCHANGED pushRet
    BY <1>14, ContentIs DEF PopReadLate, producer
  <2>2. cpc = "late" /\ cpc' # "late" /\ popRet' = <<buf_[t]>>
    BY <1>14 DEF PopReadLate
  <2> QED BY <2>1, <2>2 DEF Invisible, Fifo!vars
<1>15. CASE UNCHANGED vars
  BY <1>15, <1>2 DEF vars, producer, consumer
<1> QED BY <1>3, <1>4, <1>5, <1>6, <1>7, <1>8, <1>9, <1>10, <1>11, <1>12,
           <1>13, <1>14, <1>15 DEF Next, Producer, Consumer

(* RingBuffer implements BoundedFifo: whatever the interleaving of the two *)
(* contexts, the buffer is a first-in first-out queue of N-1 elements.     *)
THEOREM RingIsFifo == Spec => ImplementsFifo
BY InitFifo, NextFifo, AlwaysIInv, PTL DEF Spec, ImplementsFifo, Fifo!Spec
=============================================================================
