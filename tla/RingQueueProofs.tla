-------------------------- MODULE RingQueueProofs --------------------------
(***************************************************************************)
(* RingQueue implements BoundedFifo for every queue length.                *)
(***************************************************************************)
EXTENDS RingQueue, TLAPS

\* The inductive invariant: the types and the relation of the two indices.
IInv == TypeOK /\ IndexInv

\* An index at most one lap ahead is reduced by at most one subtraction,
\* which is all the modulo of threadpool.c ever has to do.
Wrap(a) == IF a < maxlen THEN a ELSE a - maxlen

LEMMA Lap == \A a \in Nat : a < maxlen + maxlen => a % maxlen = Wrap(a)
BY MaxlenAssumption DEF Wrap

\* A successful write_queue keeps head, tail and num consistent.
LEMMA WriteKeeps ==
  ASSUME IInv, NEW x \in Item, write_queue(x)
  PROVE  IInv'
<1>1. /\ tail + 1 \in Nat /\ tail + 1 < maxlen + maxlen
      /\ head + num \in Nat /\ head + num < maxlen + maxlen
      /\ head + (num + 1) \in Nat /\ head + (num + 1) < maxlen + maxlen
  BY MaxlenAssumption DEF IInv, TypeOK, Slot, write_queue
<1>2. (tail + 1) % maxlen = Wrap(tail + 1)
  BY <1>1, Lap
<1>3. (head + num) % maxlen = Wrap(head + num)
  BY <1>1, Lap
<1>4. (head + (num + 1)) % maxlen = Wrap(head + (num + 1))
  BY <1>1, Lap
<1>5. tail' = (head' + num') % maxlen
  <2>1. /\ head \in 0 .. maxlen - 1 /\ num \in 0 .. maxlen - 1
        /\ tail = Wrap(head + num) /\ tail' = Wrap(tail + 1)
        /\ head' = head /\ num' = num + 1
    BY <1>2, <1>3, MaxlenAssumption DEF IInv, TypeOK, IndexInv, Slot, write_queue
  <2>2. Wrap(Wrap(head + num) + 1) = Wrap(head + (num + 1))
    BY <2>1, MaxlenAssumption DEF Wrap
  <2> QED
    BY <1>4, <2>1, <2>2
<1>6. tail' \in Slot
  BY <1>2, MaxlenAssumption DEF Wrap, IInv, TypeOK, Slot, write_queue
<1> QED
  BY <1>5, <1>6, MaxlenAssumption DEF IInv, TypeOK, IndexInv, Slot, write_queue

\* A successful read_queue keeps head, tail and num consistent.
LEMMA ReadKeeps ==
  ASSUME IInv, read_queue
  PROVE  IInv'
<1>1. /\ head + 1 \in Nat /\ head + 1 < maxlen + maxlen
      /\ head + num \in Nat /\ head + num < maxlen + maxlen
  BY MaxlenAssumption DEF IInv, TypeOK, Slot, read_queue
<1>2. (head + 1) % maxlen = Wrap(head + 1)
  BY <1>1, Lap
<1>3. (head + num) % maxlen = Wrap(head + num)
  BY <1>1, Lap
<1>4. head' \in Slot /\ num' \in 0 .. maxlen
  BY <1>2, MaxlenAssumption DEF Wrap, IInv, TypeOK, Slot, read_queue
<1>5. head' + num' \in Nat /\ head' + num' < maxlen + maxlen
  <2> DEFINE h == head'
             n == num'
  <2>1. h \in 0 .. maxlen - 1 /\ n \in 0 .. maxlen
    BY <1>4 DEF Slot
  <2> HIDE DEF h, n
  <2>2. h + n \in Nat /\ h + n < maxlen + maxlen
    BY <2>1, MaxlenAssumption
  <2> QED
    BY <2>2 DEF h, n
<1>6. (head' + num') % maxlen = Wrap(head' + num')
  BY <1>5, Lap
<1>7. tail' = (head' + num') % maxlen
  <2>1. /\ head \in 0 .. maxlen - 1 /\ num \in 1 .. maxlen
        /\ tail = Wrap(head + num) /\ tail' = tail
        /\ head' = Wrap(head + 1) /\ num' = num - 1
    BY <1>2, <1>3 DEF IInv, TypeOK, IndexInv, Slot, read_queue
  <2>2. Wrap(head + num) = Wrap(Wrap(head + 1) + (num - 1))
    BY <2>1, MaxlenAssumption DEF Wrap
  <2> QED
    BY <1>6, <2>1, <2>2
<1>8. got' \in {<<>>} \cup {<<y>> : y \in Item}
  BY DEF IInv, TypeOK, read_queue
<1> QED
  BY <1>4, <1>7, <1>8 DEF IInv, TypeOK, IndexInv, read_queue

\* The indices stay inside the buffer and consistent with each other in every
\* reachable state, for every queue length.
THEOREM RingInvariant == Spec => [](TypeOK /\ IndexInv)
<1>1. Init => IInv
  BY MaxlenAssumption DEF Init, IInv, TypeOK, IndexInv, Slot
<1>2. IInv /\ [Next]_vars => IInv'
  <2> SUFFICES ASSUME IInv, [Next]_vars PROVE IInv'
    OBVIOUS
  <2>1. CASE Next
    BY <2>1, WriteKeeps, ReadKeeps DEF Next
  <2>2. CASE UNCHANGED vars
    BY <2>2 DEF vars, IInv, TypeOK, IndexInv
  <2> QED
    BY <2>1, <2>2
<1> QED
  BY <1>1, <1>2, PTL DEF Spec, IInv

\* What it takes to be an append or a tail, element by element.
LEMMA AppendExt ==
  ASSUME NEW S, NEW s \in Seq(S), NEW t \in Seq(S), NEW x \in S,
         Len(t) = Len(s) + 1,
         \A i \in 1 .. Len(s) : t[i] = s[i],
         t[Len(s) + 1] = x
  PROVE  t = Append(s, x)
OBVIOUS

LEMMA TailExt ==
  ASSUME NEW S, NEW s \in Seq(S), NEW t \in Seq(S), s # <<>>,
         Len(t) = Len(s) - 1,
         \A i \in 1 .. Len(t) : t[i] = s[i + 1]
  PROVE  t = Tail(s)
OBVIOUS

\* The slots that hold queued items are distinct from the one written next.
LEMMA Occupied ==
  ASSUME IInv, NEW i \in 1 .. num
  PROVE  /\ (head + i - 1) % maxlen \in Slot
         /\ num < maxlen => (head + i - 1) % maxlen # tail
<1>1. /\ head + i - 1 \in Nat /\ head + i - 1 < maxlen + maxlen
      /\ head + num \in Nat /\ head + num < maxlen + maxlen
  BY MaxlenAssumption DEF IInv, TypeOK, Slot
<1>2. (head + i - 1) % maxlen = Wrap(head + i - 1)
  BY <1>1, Lap
<1>3. (head + num) % maxlen = Wrap(head + num)
  BY <1>1, Lap
<1> QED
  BY <1>2, <1>3, MaxlenAssumption DEF Wrap, IInv, TypeOK, IndexInv, Slot

\* The refinement mapping yields a sequence of num items.
LEMMA ContentsSeq ==
  ASSUME IInv
  PROVE  /\ Contents \in Seq(Item)
         /\ Len(Contents) = num
         /\ DOMAIN Contents = 1 .. num
<1>1. num \in Nat
  BY MaxlenAssumption DEF IInv, TypeOK
<1>2. \A i \in 1 .. num : buf[(head + i - 1) % maxlen] \in Item
  BY Occupied DEF IInv, TypeOK
<1> QED
  BY <1>1, <1>2 DEF Contents

\* A write appends the written item to the queue and disturbs no other.
LEMMA WriteAppends ==
  ASSUME IInv, NEW x \in Item, write_queue(x)
  PROVE  Contents' = Append(Contents, x)
<1>1. Contents \in Seq(Item) /\ Len(Contents) = num /\ num \in Nat
  BY ContentsSeq, MaxlenAssumption DEF IInv, TypeOK
<1>2. Contents' = [i \in 1 .. num + 1 |-> buf'[(head + i - 1) % maxlen]]
  BY DEF Contents, write_queue
<1>3. ASSUME NEW i \in 1 .. num
      PROVE  buf'[(head + i - 1) % maxlen] = Contents[i]
  <2>1. (head + i - 1) % maxlen \in Slot /\ (head + i - 1) % maxlen # tail
    BY Occupied DEF write_queue
  <2>2. buf'[(head + i - 1) % maxlen] = buf[(head + i - 1) % maxlen]
    BY <2>1 DEF write_queue, IInv, TypeOK
  <2> QED
    BY <2>2 DEF Contents
<1>4. buf'[(head + (num + 1) - 1) % maxlen] = x
  <2>1. head + (num + 1) - 1 = head + num
    BY <1>1 DEF IInv, TypeOK, Slot
  <2>2. buf'[tail] = x
    BY DEF write_queue, IInv, TypeOK
  <2> QED
    BY <2>1, <2>2 DEF IInv, IndexInv
<1>5. \A i \in 1 .. num + 1 : buf'[(head + i - 1) % maxlen] \in Item
  <2> TAKE i \in 1 .. num + 1
  <2>1. CASE i = num + 1
    BY <1>4, <2>1
  <2>2. CASE i # num + 1
    <3>1. i \in 1 .. num
      BY <1>1, <2>2
    <3>2. Contents[i] \in Item
      BY <1>1, <3>1
    <3> QED
      BY <1>3, <3>1, <3>2
  <2> QED
    BY <2>1, <2>2
<1>6. /\ Contents' \in Seq(Item) /\ Len(Contents') = Len(Contents) + 1
      /\ \A i \in 1 .. Len(Contents) : Contents'[i] = Contents[i]
      /\ Contents'[Len(Contents) + 1] = x
  BY <1>1, <1>2, <1>3, <1>4, <1>5
<1> QED
  BY <1>1, <1>6, AppendExt

\* A read returns the oldest item and leaves the others in order.
LEMMA ReadTakesHead ==
  ASSUME IInv, read_queue
  PROVE  /\ Contents # <<>>
         /\ got' = <<Head(Contents)>>
         /\ Contents' = Tail(Contents)
<1>1. /\ Contents \in Seq(Item) /\ Len(Contents) = num
      /\ num \in Nat /\ num > 0 /\ head \in Slot
  BY ContentsSeq, MaxlenAssumption DEF IInv, TypeOK, read_queue
<1>2. Contents[1] = buf[head]
  <2>1. (head + 1 - 1) % maxlen = head
    BY <1>1, MaxlenAssumption DEF Slot
  <2>2. Contents[1] = buf[(head + 1 - 1) % maxlen]
    BY <1>1 DEF Contents
  <2> QED
    BY <2>1, <2>2
<1>3. Contents # <<>> /\ got' = <<Head(Contents)>>
  BY <1>1, <1>2 DEF read_queue
<1>4. Contents' = [i \in 1 .. num - 1 |-> buf[(head' + i - 1) % maxlen]]
  BY DEF Contents, read_queue
<1>5. ASSUME NEW i \in 1 .. num - 1
      PROVE  buf[(head' + i - 1) % maxlen] = Contents[i + 1]
  <2>1. /\ head + 1 \in Nat /\ head + 1 < maxlen + maxlen
        /\ head + (i + 1) - 1 \in Nat /\ head + (i + 1) - 1 < maxlen + maxlen
    BY MaxlenAssumption DEF IInv, TypeOK, Slot
  <2>2. head' = Wrap(head + 1)
    BY <2>1, Lap DEF read_queue
  <2>3. (head + (i + 1) - 1) % maxlen = Wrap(head + (i + 1) - 1)
    BY <2>1, Lap
  <2>4. head' + i - 1 \in Nat /\ head' + i - 1 < maxlen + maxlen
    BY <2>1, <2>2, MaxlenAssumption DEF Wrap, IInv, TypeOK, Slot
  <2>5. (head' + i - 1) % maxlen = Wrap(head' + i - 1)
    BY <2>4, Lap
  <2>6. (head' + i - 1) % maxlen = (head + (i + 1) - 1) % maxlen
    BY <2>2, <2>3, <2>5, <1>1, MaxlenAssumption DEF Wrap, IInv, TypeOK, Slot
  <2>7. Contents[i + 1] = buf[(head + (i + 1) - 1) % maxlen]
    <3>1. i + 1 \in 1 .. num
      BY <1>1
    <3> QED
      BY <3>1 DEF Contents
  <2> QED
    BY <2>6, <2>7
<1>6. \A i \in 1 .. num - 1 : buf[(head' + i - 1) % maxlen] \in Item
  BY <1>1, <1>5
<1>7. /\ Contents' \in Seq(Item) /\ Len(Contents') = Len(Contents) - 1
      /\ \A i \in 1 .. Len(Contents') : Contents'[i] = Contents[i + 1]
  BY <1>1, <1>4, <1>5, <1>6
<1>8. Contents' = Tail(Contents)
  BY <1>1, <1>3, <1>7, TailExt
<1> QED
  BY <1>3, <1>8

\* The variables of the ring keep their ranges.
THEOREM RingTypes == Spec => []TypeOK
BY RingInvariant, PTL

\* The ring of threadpool.c implements the bounded FIFO queue of its callers:
\* whatever the queue length and however often the indices wrap around.
THEOREM RingImplementsFifo == Spec => ImplementsFifo
<1>1. Init => Fifo!Init
  BY DEF Init, Fifo!Init, Contents
<1>2. IInv /\ [Next]_vars => [Fifo!Next]_Fifo!vars
  <2> SUFFICES ASSUME IInv, [Next]_vars PROVE [Fifo!Next]_Fifo!vars
    OBVIOUS
  <2>1. ASSUME NEW x \in Item, write_queue(x) PROVE Fifo!Put(x)
    <3>1. Len(Contents) = num /\ num < maxlen
      BY <2>1, ContentsSeq DEF write_queue
    <3> QED
      BY <2>1, <3>1, WriteAppends DEF Fifo!Put, write_queue
  <2>2. ASSUME read_queue PROVE Fifo!Next
    <3>1. Fifo!Get
      BY <2>2, ReadTakesHead DEF Fifo!Get
    <3> QED
      BY <3>1 DEF Fifo!Next
  <2>3. CASE UNCHANGED vars
    BY <2>3 DEF vars, Fifo!vars, Contents
  <2> QED
    BY <2>1, <2>2, <2>3 DEF Next, Fifo!Next
<1>3. Spec => []IInv
  BY RingInvariant, PTL DEF IInv
<1> QED
  BY <1>1, <1>2, <1>3, PTL DEF Spec, ImplementsFifo, Fifo!Spec
=============================================================================
