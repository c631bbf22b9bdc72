---------------------------- MODULE BoundedFifo ----------------------------
(***************************************************************************)
(* What one MYQUEUE of lib/TPdynamic/threadpool.h promises its callers: a  *)
(* first-in first-out queue of at most maxlen items, whose operations      *)
(* refuse (and change nothing) when the queue is full or empty.            *)
(***************************************************************************)
EXTENDS Naturals, Sequences

CONSTANTS Item,     \* what a caller may put in the queue
          maxlen    \* MYQUEUE.maxlen

VARIABLES q,        \* the items queued, oldest first
          got       \* the item the last successful read returned (a sequence
                    \* of length 0 before the first one, of length 1 after)

vars == <<q, got>>

Init == q = <<>> /\ got = <<>>

Put(x) == /\ Len(q) < maxlen
          /\ q' = Append(q, x)
          /\ UNCHANGED got

Get == /\ q # <<>>
       /\ got' = <<Head(q)>>
       /\ q' = Tail(q)

Next == (\E x \in Item : Put(x)) \/ Get

Spec == Init /\ [][Next]_vars
=============================================================================
