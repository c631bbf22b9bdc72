----------------------------- MODULE RingQueue -----------------------------
(***************************************************************************)
(* The ring buffer behind each of the three queues of the pool (Qread,     *)
(* Qwrite, Qmonitor): buf with head, tail and num, indices modulo maxlen.  *)
(* One action is one critical section of the queue's mutex, the part that  *)
(* read_queue and read_Qmonitor, and write_queue and write_Qmonitor, share.*)
(* The failure counters, which are read after the unlock, are modelled in  *)
(* ThreadPool.                                                             *)
(***************************************************************************)
EXTENDS Naturals, Sequences

CONSTANTS Item,     \* what a caller may put in the queue
          maxlen    \* number of slots, MYQUEUE.maxlen

\* myqueueInit is called with a queue length of at least one.
ASSUME MaxlenAssumption == maxlen \in Nat \ {0}

VARIABLES buf,      \* the slots
          head,     \* slot of the oldest item
          tail,     \* slot of the next write
          num,      \* number of items queued
          got       \* the item the last successful read copied out

vars == <<buf, head, tail, num, got>>

Slot == 0 .. maxlen - 1

\* MYTHREADPOOLQUEUE is zeroed by its owner, the buffer comes from malloc:
\* the slots hold anything.
Init == /\ buf \in [Slot -> Item]
        /\ head = 0
        /\ tail = 0
        /\ num = 0
        /\ got = <<>>

\* write_queue and write_Qmonitor between lock and unlock; a full queue is
\* left as it is.
write_queue(x) ==
  /\ num < maxlen
  /\ buf' = [buf EXCEPT ![tail] = x]
  /\ tail' = (tail + 1) % maxlen
  /\ num' = num + 1
  /\ UNCHANGED <<head, got>>

read_without_modulo ==
  /\ num > 0
  /\ got' = <<buf[head]>>
  /\ head' = head + 1
  /\ num' = num - 1
  /\ UNCHANGED <<buf, tail>>

read_without_count ==
  /\ num > 0
  /\ got' = <<buf[head]>>
  /\ head' = (head + 1) % maxlen
  /\ UNCHANGED <<buf, tail, num>>

read_newest ==
  /\ num > 0
  /\ got' = <<buf[(tail + maxlen - 1) % maxlen]>>
  /\ head' = (head + 1) % maxlen
  /\ num' = num - 1
  /\ UNCHANGED <<buf, tail>>

\* read_queue and read_Qmonitor between lock and unlock; an empty queue is
\* left as it is.
read_queue ==
  /\ num > 0
  /\ got' = <<buf[head]>>
  /\ head' = (head + 1) % maxlen
  /\ num' = num - 1
  /\ UNCHANGED <<buf, tail>>

Next == (\E x \in Item : write_queue(x)) \/ read_queue

Spec == Init /\ [][Next]_vars

-----------------------------------------------------------------------------

\* The fields keep their types and every index stays inside the buffer.
TypeOK == /\ buf \in [Slot -> Item]
          /\ head \in Slot
          /\ tail \in Slot
          /\ num \in 0 .. maxlen
          /\ got \in {<<>>} \cup {<<x>> : x \in Item}

\* head, tail and num, each updated on its own by threadpool.c, stay
\* consistent: the write index is num slots after the read index, so a write
\* never lands on an item that has not been read.
IndexInv == tail = (head + num) % maxlen

\* The items queued, oldest first.
Contents == [i \in 1 .. num |-> buf[(head + i - 1) % maxlen]]

Fifo == INSTANCE BoundedFifo WITH q <- Contents

\* The ring of read_queue/write_queue implements the bounded FIFO queue: no
\* item is lost, duplicated, reordered or overwritten by wrap-around.
ImplementsFifo == Fifo!Spec
=============================================================================
