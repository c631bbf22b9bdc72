-------------------------- MODULE ThreadPoolProofs --------------------------
(***************************************************************************)
(* Proofs about ThreadPool, for every number of workers and jobs, every    *)
(* queue length, every mode and every schedule: TypeOK and ThreadLenCounts *)
(* first, then what becomes of the jobs, and at the end myqueuedestroy,    *)
(* which returns only when the workers have gone.                          *)
(***************************************************************************)
EXTENDS ThreadPool, FiniteSetTheorems, TLAPS

\* Between its test and ThreadLen++ the monitor knows that there is room.
IncRoom == pc[Monitor] \in {"create", "incend"} => ThreadLen < TP_MAX_COUNT

\* What the threads and Qread hold: pills never reach Qread or the
\* application, and a thread that is about to use its item has one.
Held ==
  /\ queue["Qread"] \in Seq(Jobs)
  /\ info[App] # Pill
  /\ \A t \in Threads : pc[t] \in {"rtaken", "got", "write", "wfull"} => info[t] # None
  /\ \A t \in {App, Monitor} : pc[t] \in {"wdone", "wreset", "wnotify"} => info[t] # None
  /\ \A w \in Workers : pc[w] \in WriteLabels => info[w] # Pill

\* The inductive invariant.
PoolInv == TypeOK /\ ThreadLenCounts /\ IncRoom /\ Held

USE DEF Goto

Gone == {"unborn", "autostamp", "left"}

\* The workers form a finite set, so the counted ones do.
LEMMA CountedFinite == IsFiniteSet(Counted) /\ Cardinality(Counted) \in Nat
<1>1. Counted \subseteq Workers
  BY DEF Counted
<1> QED
  BY <1>1, ThreadAssumption, FS_Subset, FS_CardinalityType

\* A step in which no worker becomes or ceases to be one of the counted ones,
\* and that leaves ThreadLen and the monitor's "incend" alone.
LEMMA CountSame ==
  ASSUME ThreadLenCounts, ThreadLen' = ThreadLen,
         pc'[Monitor] = "incend" <=> pc[Monitor] = "incend",
         \A v \in Workers : pc'[v] \in Gone <=> pc[v] \in Gone
  PROVE  ThreadLenCounts'
<1>1. Counted' = Counted
  BY DEF Counted, Gone
<1> QED
  BY <1>1 DEF ThreadLenCounts

\* A worker goes through dec_workthread_end.
LEMMA CountLess ==
  ASSUME ThreadLenCounts, PoolInv, NEW w \in Workers, pc[w] \notin Gone, pc'[w] \in Gone,
         ThreadLen' = ThreadLen - 1,
         pc'[Monitor] = pc[Monitor],
         \A v \in Workers \ {w} : pc'[v] = pc[v]
  PROVE  ThreadLenCounts'
<1>1. Counted' = Counted \ {w} /\ w \in Counted
  BY DEF Counted, Gone
<1>2. Cardinality(Counted') = Cardinality(Counted) - 1
  BY <1>1, CountedFinite, FS_RemoveElement
<1> QED
  BY <1>2, CountedFinite DEF ThreadLenCounts, PoolInv, TypeOK, PoolOK


\* What Append and Tail do to the queues.
LEMMA AppendOK ==
  ASSUME NEW S, NEW s \in Seq(S), NEW x \in S
  PROVE  Append(s, x) \in Seq(S) /\ Len(Append(s, x)) = Len(s) + 1
OBVIOUS

LEMMA TailOK ==
  ASSUME NEW S, NEW s \in Seq(S), s # <<>>
  PROVE  /\ Head(s) \in S
         /\ Tail(s) \in Seq(S)
         /\ Len(Tail(s)) = Len(s) - 1
         /\ Len(s) \in Nat
OBVIOUS

\* A notice offered to Qmonitor never overfills it.
LEMMA OfferOK ==
  ASSUME QueuesOK, NEW msg \in Notices
  PROVE  Offer(msg) \in Seq(Notices) /\ Len(Offer(msg)) <= MonitorLen
<1>1. Append(Qmonitor, msg) \in Seq(Notices) /\ Len(Append(Qmonitor, msg)) = Len(Qmonitor) + 1
  BY AppendOK DEF QueuesOK
<1>2. Len(Qmonitor) \in Nat
  BY DEF QueuesOK
<1> QED
  BY <1>1, <1>2, CountAssumption DEF QueuesOK, Offer

LEMMA NoticesOK ==
  /\ \A q : FailNotice(q) \in Notices
  /\ \A op \in {"INC", "DEC"} : UpdateNotice(op) \in Notices
BY DEF FailNotice, UpdateNotice, Notices

LEMMA DispatchOK ==
  ASSUME NEW msg \in Notices
  PROVE  Dispatch(msg) \in {"inc", "dec", "test"}
<1>1. CASE msg.ID76 = "APP"
  BY <1>1 DEF Dispatch, Notices
<1>2. CASE msg.ID76 = "QWRITE"
  BY <1>2 DEF Dispatch, Notices
<1>3. CASE msg.ID76 = "QREAD"
  BY <1>3 DEF Dispatch, Notices
<1> QED
  BY <1>1, <1>2, <1>3 DEF Notices

\* Where the monitor may go when it has looked at Qmonitor.
LEMMA MonitorReadGoes ==
  ASSUME PoolInv, monitor_read
  PROVE  /\ pc[Monitor] = "mread"
         /\ \E l \in {"inc", "dec", "test"} : pc' = [pc EXCEPT ![Monitor] = l]
<1>1. CASE Qmonitor = <<>>
  BY <1>1 DEF monitor_read
<1>2. CASE Qmonitor # <<>>
  <2>1. Head(Qmonitor) \in Notices
    BY <1>2, TailOK DEF PoolInv, TypeOK, QueuesOK
  <2> QED
    BY <1>2, <2>1, DispatchOK DEF monitor_read
<1> QED
  BY <1>1, <1>2

USE DEF Threads, WorkerLabels, AppLabels, MonitorLabels, ReadLabels, WriteLabels

\* read_queue, the critical section.
LEMMA ReadQueueKeeps ==
  ASSUME PoolInv, NEW t \in Threads, read_queue(t)
  PROVE  PoolInv'
<1>1. PcOK' /\ PoolOK' /\ HistoryOK'
  BY ThreadAssumption, ItemAssumption, CountAssumption
  DEF read_queue, ReadsFrom, PoolInv, TypeOK, PcOK, poolvars, PoolOK, history, HistoryOK
<1>2. QueuesOK'
  <2> DEFINE q == ReadsFrom(t)
  <2>1. q \in QNames /\ queue[q] \in Seq(Item) /\ Len(queue[q]) <= queuelen
    BY DEF ReadsFrom, QNames, PoolInv, TypeOK, QueuesOK
  <2>2. CASE queue[q] # <<>>
    <3>1. /\ Head(queue[q]) \in Item /\ Tail(queue[q]) \in Seq(Item)
          /\ Len(Tail(queue[q])) = Len(queue[q]) - 1 /\ Len(queue[q]) \in Nat
      BY <2>1, <2>2, TailOK
    <3>2. /\ info' = [info EXCEPT ![t] = Head(queue[q])]
          /\ queue' = [queue EXCEPT ![q] = Tail(queue[q])]
          /\ RFcount' = [RFcount EXCEPT ![q] = 0]
      BY <2>2 DEF read_queue
    <3> HIDE DEF q
    <3>3. \A p \in QNames : queue'[p] \in Seq(Item) /\ Len(queue'[p]) <= queuelen
      BY <2>1, <3>1, <3>2, CountAssumption DEF PoolInv, TypeOK, QueuesOK
    <3>4. queue' \in [QNames -> Seq(Item)] /\ \A p \in QNames : Len(queue'[p]) <= queuelen
      <4>1. queue' = [p \in QNames |-> queue'[p]]
        BY <3>2 DEF PoolInv, TypeOK, QueuesOK
      <4> QED BY <3>3, <4>1, Zenon
    <3>5. info' \in [Threads -> Item \cup {None}] /\ RFcount' \in [QNames -> Nat]
      BY <2>1, <3>1, <3>2 DEF PoolInv, TypeOK, QueuesOK
    <3>6. WFcount' = WFcount /\ Qmonitor' = Qmonitor
      BY DEF read_queue
    <3> QED
      BY <3>4, <3>5, <3>6, Zenon DEF PoolInv, TypeOK, QueuesOK
  <2>3. CASE queue[q] = <<>>
    <3>1. /\ RFcount' = [RFcount EXCEPT ![q] = RFcount[q] + 1]
          /\ info' = info /\ queue' = queue
      BY <2>3 DEF read_queue
    <3> HIDE DEF q
    <3>2. RFcount' \in [QNames -> Nat]
      BY <2>1, <3>1 DEF PoolInv, TypeOK, QueuesOK
    <3> QED
      BY <3>1, <3>2 DEF read_queue, PoolInv, TypeOK, QueuesOK
  <2> QED
    BY <2>2, <2>3
<1>3. ThreadLenCounts'
  <2>1. /\ ThreadLen' = ThreadLen /\ (pc'[Monitor] = "incend" <=> pc[Monitor] = "incend")
        /\ \A v \in Workers : pc'[v] \in Gone <=> pc[v] \in Gone
    BY ThreadAssumption DEF read_queue, ReadsFrom, poolvars, PoolInv, TypeOK, PcOK, Gone
  <2> QED
    BY <2>1, CountSame DEF PoolInv
<1>4. IncRoom'
  BY ThreadAssumption, CountAssumption
  DEF read_queue, ReadsFrom, poolvars, PoolInv, TypeOK, PcOK, PoolOK, IncRoom
<1>5. Held'
  <2>1. CASE t = App
    <3>1. CASE queue["Qread"] # <<>>
      <4>1. Head(queue["Qread"]) \in Jobs /\ Tail(queue["Qread"]) \in Seq(Jobs)
        BY <3>1, TailOK DEF PoolInv, Held
      <4>2. /\ info' = [info EXCEPT ![App] = Head(queue["Qread"])]
            /\ queue' = [queue EXCEPT !["Qread"] = Tail(queue["Qread"])]
            /\ pc' = [pc EXCEPT ![App] = "rtaken"]
        BY <2>1, <3>1 DEF read_queue, ReadsFrom
      <4> QED
        BY <4>1, <4>2, ThreadAssumption, ItemAssumption
        DEF PoolInv, TypeOK, PcOK, QueuesOK, Held, QNames, Item
    <3>2. CASE queue["Qread"] = <<>>
      <4>1. info' = info /\ queue' = queue /\ pc' = [pc EXCEPT ![App] = "rempty"]
        BY <2>1, <3>2 DEF read_queue, ReadsFrom
      <4> QED
        BY <4>1, ThreadAssumption DEF PoolInv, TypeOK, PcOK, Held
    <3> QED
      BY <3>1, <3>2
  <2>2. CASE t # App
    <3>1. t \in Workers
      BY <2>2 DEF read_queue, PoolInv, TypeOK, PcOK
    <3>2. queue'["Qread"] = queue["Qread"]
      BY <2>2 DEF read_queue, ReadsFrom, PoolInv, TypeOK, QueuesOK, QNames
    <3>3. queue["Qwrite"] # <<>> => Head(queue["Qwrite"]) \in Item
      BY TailOK DEF PoolInv, TypeOK, QueuesOK, QNames
    <3>4. \/ /\ Head(queue["Qwrite"]) \in Item
             /\ info' = [info EXCEPT ![t] = Head(queue["Qwrite"])]
             /\ pc' = [pc EXCEPT ![t] = "rtaken"]
          \/ info' = info /\ pc' = [pc EXCEPT ![t] = "rempty"]
      BY <2>2, <3>3 DEF read_queue, ReadsFrom
    <3>5. CASE pc' = [pc EXCEPT ![t] = "rtaken"]
      BY <3>1, <3>2, <3>4, <3>5, ThreadAssumption, ItemAssumption
      DEF read_queue, PoolInv, TypeOK, PcOK, QueuesOK, Held
    <3>6. CASE info' = info /\ pc' = [pc EXCEPT ![t] = "rempty"]
      BY <3>1, <3>2, <3>6, ThreadAssumption DEF PoolInv, TypeOK, PcOK, Held
    <3> QED
      BY <3>4, <3>5, <3>6
  <2> QED
    BY <2>1, <2>2
<1> QED
  BY <1>1, <1>2, <1>3, <1>4, <1>5 DEF PoolInv, TypeOK

\* read_queue, the test after the unlock.
LEMMA ReadLimitKeeps ==
  ASSUME PoolInv, NEW t \in Threads, read_limit(t)
  PROVE  PoolInv'
<1>1. TypeOK'
  BY ThreadAssumption, ItemAssumption, CountAssumption
  DEF read_limit, ReadsFrom, PoolInv, TypeOK, PcOK, QueuesOK, Held, QNames, Item, Notices,
      poolvars, PoolOK, history, HistoryOK
<1>2. ThreadLenCounts'
  <2>1. /\ ThreadLen' = ThreadLen /\ (pc'[Monitor] = "incend" <=> pc[Monitor] = "incend")
        /\ \A v \in Workers : pc'[v] \in Gone <=> pc[v] \in Gone
    BY ThreadAssumption DEF read_limit, ReadsFrom, poolvars, PoolInv, TypeOK, PcOK, Gone
  <2> QED
    BY <2>1, CountSame DEF PoolInv
<1>3. IncRoom' /\ Held'
  BY ThreadAssumption, ItemAssumption, CountAssumption
  DEF read_limit, ReadsFrom, poolvars, PoolInv, TypeOK, PcOK, PoolOK, IncRoom, QueuesOK,
      Held, QNames, Item
<1> QED
  BY <1>1, <1>2, <1>3 DEF PoolInv, TypeOK

\* read_queue, the unlocked reset.
LEMMA ReadResetKeeps ==
  ASSUME PoolInv, NEW t \in Threads, read_reset(t)
  PROVE  PoolInv'
<1>1. TypeOK'
  BY ThreadAssumption, ItemAssumption, CountAssumption
  DEF read_reset, ReadsFrom, AfterFailRead, Forget, PoolInv, TypeOK, PcOK, QueuesOK, Held,
      QNames, Item, Notices, poolvars, PoolOK, history, HistoryOK
<1>2. ThreadLenCounts'
  <2>1. /\ ThreadLen' = ThreadLen /\ (pc'[Monitor] = "incend" <=> pc[Monitor] = "incend")
        /\ \A v \in Workers : pc'[v] \in Gone <=> pc[v] \in Gone
    BY ThreadAssumption
    DEF read_reset, ReadsFrom, AfterFailRead, Forget, poolvars, PoolInv, TypeOK, PcOK, Gone
  <2> QED
    BY <2>1, CountSame DEF PoolInv
<1>3. IncRoom' /\ Held'
  BY ThreadAssumption, ItemAssumption, CountAssumption
  DEF read_reset, ReadsFrom, AfterFailRead, Forget, poolvars, PoolInv, TypeOK, PcOK,
      PoolOK, IncRoom, QueuesOK, Held, QNames, Item
<1> QED
  BY <1>1, <1>2, <1>3 DEF PoolInv, TypeOK

\* read_queue, the reset that a concurrent increment overwrites.
LEMMA ReadResetLostKeeps ==
  ASSUME PoolInv, NEW t \in Threads, NEW u \in Threads, read_reset_lost(t, u)
  PROVE  PoolInv'
<1>1. PcOK'
  BY ThreadAssumption, ItemAssumption, CountAssumption
  DEF read_reset_lost, ReadsFrom, AfterFailRead, Forget, PoolInv, TypeOK, PcOK
<1>2. QueuesOK'
  BY ThreadAssumption, ItemAssumption, CountAssumption
  DEF read_reset_lost, ReadsFrom, AfterFailRead, Forget, PoolInv, TypeOK, PcOK, QueuesOK,
      Held, QNames, Item, Notices
<1>3. PoolOK'
  BY ThreadAssumption, ItemAssumption, CountAssumption
  DEF read_reset_lost, poolvars, PoolInv, TypeOK, PoolOK
<1>4. HistoryOK'
  BY ThreadAssumption, ItemAssumption, CountAssumption
  DEF read_reset_lost, history, PoolInv, TypeOK, HistoryOK, Forget
<1>5. ThreadLenCounts'
  <2>1. /\ ThreadLen' = ThreadLen /\ (pc'[Monitor] = "incend" <=> pc[Monitor] = "incend")
        /\ \A v \in Workers : pc'[v] \in Gone <=> pc[v] \in Gone
    BY ThreadAssumption
    DEF read_reset_lost, ReadsFrom, AfterFailRead, Forget, poolvars, PoolInv, TypeOK,
        PcOK, Gone
  <2> QED
    BY <2>1, CountSame DEF PoolInv
<1>6. IncRoom' /\ Held'
  BY ThreadAssumption, ItemAssumption, CountAssumption
  DEF read_reset_lost, ReadsFrom, AfterFailRead, Forget, poolvars, PoolInv, TypeOK, PcOK,
      PoolOK, IncRoom, QueuesOK, Held, QNames, Item
<1> QED
  BY <1>1, <1>2, <1>3, <1>4, <1>5, <1>6 DEF PoolInv, TypeOK

\* write_queue, the critical section.
LEMMA WriteQueueKeeps ==
  ASSUME PoolInv, NEW t \in Threads, write_queue(t)
  PROVE  PoolInv'
<1>1. PcOK' /\ PoolOK' /\ HistoryOK'
  BY ThreadAssumption, ItemAssumption, CountAssumption
  DEF write_queue, WritesTo, PoolInv, TypeOK, PcOK, poolvars, PoolOK, history, HistoryOK
<1>2. QueuesOK'
  <2> DEFINE q == WritesTo(t)
  <2>1. /\ q \in QNames /\ queue[q] \in Seq(Item) /\ Len(queue[q]) <= queuelen
        /\ Len(queue[q]) \in Nat /\ info[t] \in Item
    BY DEF write_queue, WritesTo, QNames, PoolInv, TypeOK, QueuesOK, Held
  <2>2. CASE Len(queue[q]) < queuelen
    <3>1. /\ Append(queue[q], info[t]) \in Seq(Item)
          /\ Len(Append(queue[q], info[t])) = Len(queue[q]) + 1
      BY <2>1, AppendOK
    <3>2. /\ info' \in {info, [info EXCEPT ![t] = None]}
          /\ queue' = [queue EXCEPT ![q] = Append(queue[q], info[t])]
          /\ WFcount' = [WFcount EXCEPT ![q] = 0]
      BY <2>1, <2>2, CountAssumption DEF write_queue
    <3> HIDE DEF q
    <3>3. \A p \in QNames : queue'[p] \in Seq(Item) /\ Len(queue'[p]) <= queuelen
      BY <2>1, <2>2, <3>1, <3>2, CountAssumption DEF PoolInv, TypeOK, QueuesOK
    <3> QED
      BY <2>1, <3>1, <3>2, <3>3 DEF write_queue, PoolInv, TypeOK, QueuesOK
  <2>3. CASE ~(Len(queue[q]) < queuelen)
    <3>1. /\ WFcount' = [WFcount EXCEPT ![q] = WFcount[q] + 1]
          /\ info' = info /\ queue' = queue
      BY <2>3 DEF write_queue
    <3> HIDE DEF q
    <3>2. WFcount' \in [QNames -> Nat]
      BY <2>1, <3>1 DEF PoolInv, TypeOK, QueuesOK
    <3> QED
      BY <3>1, <3>2 DEF write_queue, PoolInv, TypeOK, QueuesOK
  <2> QED
    BY <2>2, <2>3
<1>3. ThreadLenCounts'
  <2>1. /\ ThreadLen' = ThreadLen /\ (pc'[Monitor] = "incend" <=> pc[Monitor] = "incend")
        /\ \A v \in Workers : pc'[v] \in Gone <=> pc[v] \in Gone
    BY ThreadAssumption DEF write_queue, WritesTo, poolvars, PoolInv, TypeOK, PcOK, Gone
  <2> QED
    BY <2>1, CountSame DEF PoolInv
<1>4. IncRoom'
  BY ThreadAssumption, CountAssumption
  DEF write_queue, WritesTo, poolvars, PoolInv, TypeOK, PcOK, PoolOK, IncRoom
<1>5. Held'
  <2>1. CASE t \in Workers
    <3>1. info[t] \in Jobs
      BY <2>1 DEF write_queue, PoolInv, TypeOK, QueuesOK, Held, Item
    <3>2. Append(queue["Qread"], info[t]) \in Seq(Jobs)
      BY <3>1, AppendOK DEF PoolInv, Held
    <3>3. \/ /\ queue' = [queue EXCEPT !["Qread"] = Append(queue["Qread"], info[t])]
             /\ info' = [info EXCEPT ![t] = None]
             /\ pc' = [pc EXCEPT ![t] = "wdone"]
          \/ queue' = queue /\ info' = info /\ pc' = [pc EXCEPT ![t] = "wfull"]
      BY <2>1 DEF write_queue, WritesTo
    <3>4. queue'["Qread"] \in Seq(Jobs)
      BY <3>2, <3>3 DEF PoolInv, TypeOK, QueuesOK, QNames, Held
    <3>5. CASE info' = [info EXCEPT ![t] = None] /\ pc' = [pc EXCEPT ![t] = "wdone"]
      BY <2>1, <3>4, <3>5, ThreadAssumption, ItemAssumption
      DEF PoolInv, TypeOK, PcOK, QueuesOK, Held, Item
    <3>6. CASE info' = info /\ pc' = [pc EXCEPT ![t] = "wfull"]
      BY <2>1, <3>1, <3>4, <3>6, ThreadAssumption, ItemAssumption
      DEF PoolInv, TypeOK, PcOK, Held, Item
    <3> QED
      BY <3>3, <3>5, <3>6
  <2>2. CASE t \in {App, Monitor}
    <3>1. queue'["Qread"] = queue["Qread"] /\ info' = info
      BY <2>2, ThreadAssumption DEF write_queue, WritesTo, PoolInv, TypeOK, QueuesOK, QNames
    <3>2. pc[t] = "write" /\ pc' \in {[pc EXCEPT ![t] = "wdone"], [pc EXCEPT ![t] = "wfull"]}
      BY DEF write_queue
    <3> QED
      BY <2>2, <3>1, <3>2, ThreadAssumption DEF PoolInv, TypeOK, PcOK, QueuesOK, Held
  <2> QED
    BY <2>1, <2>2 
<1> QED
  BY <1>1, <1>2, <1>3, <1>4, <1>5 DEF PoolInv, TypeOK

\* write_queue, the test after the unlock.
LEMMA WriteLimitKeeps ==
  ASSUME PoolInv, NEW t \in Threads, write_limit(t)
  PROVE  PoolInv'
<1>1. PcOK'
  BY ThreadAssumption, ItemAssumption, CountAssumption
  DEF write_limit, WritesTo, Home, PoolInv, TypeOK, PcOK
<1>2. QueuesOK'
  BY ThreadAssumption, ItemAssumption, CountAssumption
  DEF write_limit, WritesTo, Home, PoolInv, TypeOK, PcOK, QueuesOK, Held, QNames, Item,
      Notices
<1>3. PoolOK'
  BY ThreadAssumption, ItemAssumption, CountAssumption
  DEF write_limit, poolvars, PoolInv, TypeOK, PoolOK
<1>4. HistoryOK'
  BY ThreadAssumption, ItemAssumption, CountAssumption
  DEF write_limit, history, PoolInv, TypeOK, HistoryOK
<1>5. ThreadLenCounts'
  <2>1. /\ ThreadLen' = ThreadLen /\ (pc'[Monitor] = "incend" <=> pc[Monitor] = "incend")
        /\ \A v \in Workers : pc'[v] \in Gone <=> pc[v] \in Gone
    BY ThreadAssumption
    DEF write_limit, WritesTo, Home, poolvars, PoolInv, TypeOK, PcOK, Gone
  <2> QED
    BY <2>1, CountSame DEF PoolInv
<1>6. IncRoom' /\ Held'
  BY ThreadAssumption, ItemAssumption, CountAssumption
  DEF write_limit, WritesTo, Home, poolvars, PoolInv, TypeOK, PcOK, PoolOK, IncRoom,
      QueuesOK, Held, QNames, Item
<1> QED
  BY <1>1, <1>2, <1>3, <1>4, <1>5, <1>6 DEF PoolInv, TypeOK

\* write_queue, the unlocked reset.
LEMMA WriteResetKeeps ==
  ASSUME PoolInv, NEW t \in Threads, write_reset(t)
  PROVE  PoolInv'
<1>1. TypeOK'
  BY ThreadAssumption, ItemAssumption, CountAssumption
  DEF write_reset, WritesTo, PoolInv, TypeOK, PcOK, QueuesOK, Held, QNames, Item, Notices,
      poolvars, PoolOK, history, HistoryOK
<1>2. ThreadLenCounts'
  <2>1. /\ ThreadLen' = ThreadLen /\ (pc'[Monitor] = "incend" <=> pc[Monitor] = "incend")
        /\ \A v \in Workers : pc'[v] \in Gone <=> pc[v] \in Gone
    BY ThreadAssumption DEF write_reset, WritesTo, poolvars, PoolInv, TypeOK, PcOK, Gone
  <2> QED
    BY <2>1, CountSame DEF PoolInv
<1>3. IncRoom' /\ Held'
  BY ThreadAssumption, ItemAssumption, CountAssumption
  DEF write_reset, WritesTo, poolvars, PoolInv, TypeOK, PcOK, PoolOK, IncRoom, QueuesOK,
      Held, QNames, Item
<1> QED
  BY <1>1, <1>2, <1>3 DEF PoolInv, TypeOK

\* write_queue, the reset that a concurrent increment overwrites.
LEMMA WriteResetLostKeeps ==
  ASSUME PoolInv, NEW t \in Threads, NEW u \in Threads, write_reset_lost(t, u)
  PROVE  PoolInv'
<1>1. PcOK'
  BY ThreadAssumption, ItemAssumption, CountAssumption
  DEF write_reset_lost, WritesTo, PoolInv, TypeOK, PcOK
<1>2. QueuesOK'
  <2> DEFINE q == WritesTo(t)
  <2>1. q \in QNames
    BY DEF WritesTo, QNames
  <2>2. /\ WFcount' = [WFcount EXCEPT ![q] = WFcount[q] + 1]
        /\ info' = info /\ queue' = queue /\ RFcount' = RFcount /\ Qmonitor' = Qmonitor
    BY DEF write_reset_lost
  <2> HIDE DEF q
  <2> QED BY <2>1, <2>2 DEF PoolInv, TypeOK, QueuesOK
<1>3. PoolOK'
  BY ThreadAssumption, ItemAssumption, CountAssumption
  DEF write_reset_lost, poolvars, PoolInv, TypeOK, PoolOK
<1>4. HistoryOK'
  BY ThreadAssumption, ItemAssumption, CountAssumption
  DEF write_reset_lost, history, PoolInv, TypeOK, HistoryOK
<1>5. ThreadLenCounts'
  <2>1. /\ ThreadLen' = ThreadLen /\ (pc'[Monitor] = "incend" <=> pc[Monitor] = "incend")
        /\ \A v \in Workers : pc'[v] \in Gone <=> pc[v] \in Gone
    BY ThreadAssumption
    DEF write_reset_lost, WritesTo, poolvars, PoolInv, TypeOK, PcOK, Gone
  <2> QED
    BY <2>1, CountSame DEF PoolInv
<1>6. IncRoom' /\ Held'
  BY ThreadAssumption, ItemAssumption, CountAssumption
  DEF write_reset_lost, WritesTo, poolvars, PoolInv, TypeOK, PcOK, PoolOK, IncRoom,
      QueuesOK, Held, QNames, Item
<1> QED
  BY <1>1, <1>2, <1>3, <1>4, <1>5, <1>6 DEF PoolInv, TypeOK

\* writ_fail_Qmonitor.
LEMMA FailNoticeKeeps ==
  ASSUME PoolInv, NEW t \in Threads, writ_fail_Qmonitor(t)
  PROVE  PoolInv'
<1>1. PcOK' /\ PoolOK' /\ HistoryOK'
  BY ThreadAssumption, ItemAssumption, CountAssumption
  DEF writ_fail_Qmonitor, WritesTo, ReadsFrom, Forget, Offer, FailNotice, PoolInv, TypeOK,
      PcOK, poolvars, PoolOK, history, HistoryOK
<1>2. QueuesOK'
  <2>1. Qmonitor' \in Seq(Notices) /\ Len(Qmonitor') <= MonitorLen
    BY OfferOK, NoticesOK DEF writ_fail_Qmonitor, PoolInv, TypeOK
  <2>2. info' \in [Threads -> Item \cup {None}]
    BY DEF writ_fail_Qmonitor, Forget, PoolInv, TypeOK, QueuesOK
  <2> QED
    BY <2>1, <2>2 DEF writ_fail_Qmonitor, PoolInv, TypeOK, QueuesOK
<1>3. ThreadLenCounts'
  <2>1. /\ ThreadLen' = ThreadLen /\ (pc'[Monitor] = "incend" <=> pc[Monitor] = "incend")
        /\ \A v \in Workers : pc'[v] \in Gone <=> pc[v] \in Gone
    BY ThreadAssumption
    DEF writ_fail_Qmonitor, WritesTo, ReadsFrom, Forget, Offer, FailNotice, poolvars,
        PoolInv, TypeOK, PcOK, Gone
  <2> QED
    BY <2>1, CountSame DEF PoolInv
<1>4. IncRoom'
  BY ThreadAssumption, CountAssumption
  DEF writ_fail_Qmonitor, WritesTo, ReadsFrom, Forget, Offer, FailNotice, poolvars,
      PoolInv, TypeOK, PcOK, PoolOK, IncRoom
<1>5. Held'
  BY ThreadAssumption, ItemAssumption
  DEF writ_fail_Qmonitor, WritesTo, ReadsFrom, Forget, Offer, FailNotice, PoolInv, TypeOK,
      PcOK, QueuesOK, Held, QNames, Item
<1> QED
  BY <1>1, <1>2, <1>3, <1>4, <1>5 DEF PoolInv, TypeOK

\* The loop test of WorkThreads.
LEMMA WorkerTestKeeps ==
  ASSUME PoolInv, NEW w \in Workers, worker_test(w)
  PROVE  PoolInv'
<1>1. TypeOK'
  BY ThreadAssumption, ItemAssumption, CountAssumption
  DEF worker_test, PoolInv, TypeOK, PcOK, QueuesOK, Held, QNames, Item, Notices, poolvars,
      PoolOK, history, HistoryOK
<1>2. ThreadLenCounts'
  <2>1. /\ ThreadLen' = ThreadLen /\ (pc'[Monitor] = "incend" <=> pc[Monitor] = "incend")
        /\ \A v \in Workers : pc'[v] \in Gone <=> pc[v] \in Gone
    BY ThreadAssumption DEF worker_test, poolvars, PoolInv, TypeOK, PcOK, Gone
  <2> QED
    BY <2>1, CountSame DEF PoolInv
<1>3. IncRoom' /\ Held'
  BY ThreadAssumption, ItemAssumption, CountAssumption
  DEF worker_test, poolvars, PoolInv, TypeOK, PcOK, PoolOK, IncRoom, QueuesOK, Held,
      QNames, Item
<1> QED
  BY <1>1, <1>2, <1>3 DEF PoolInv, TypeOK

\* A worker runs a job.
LEMMA RunJobKeeps ==
  ASSUME PoolInv, NEW w \in Workers, run_job(w)
  PROVE  PoolInv'
<1>1. PcOK' /\ QueuesOK' /\ PoolOK'
  BY ThreadAssumption, ItemAssumption, CountAssumption
  DEF run_job, PoolInv, TypeOK, PcOK, QueuesOK, Held, QNames, Item, Notices, poolvars,
      PoolOK
<1>2. HistoryOK'
  <2>1. info[w] \in Jobs
    BY DEF run_job, PoolInv, TypeOK, QueuesOK, Held, Item
  <2> QED
    BY <2>1 DEF run_job, PoolInv, TypeOK, HistoryOK
<1>3. ThreadLenCounts'
  <2>1. /\ ThreadLen' = ThreadLen /\ (pc'[Monitor] = "incend" <=> pc[Monitor] = "incend")
        /\ \A v \in Workers : pc'[v] \in Gone <=> pc[v] \in Gone
    BY ThreadAssumption DEF run_job, poolvars, PoolInv, TypeOK, PcOK, Gone
  <2> QED
    BY <2>1, CountSame DEF PoolInv
<1>4. IncRoom'
  BY ThreadAssumption, CountAssumption
  DEF run_job, poolvars, PoolInv, TypeOK, PcOK, PoolOK, IncRoom
<1>5. Held'
  <2>1. CASE QREAD
    BY <2>1, ThreadAssumption DEF run_job, PoolInv, TypeOK, PcOK, QueuesOK, Held
  <2>2. CASE ~QREAD
    <3>1. /\ pc' = [pc EXCEPT ![w] = "test"] /\ info' = [info EXCEPT ![w] = None] /\ queue' = queue
      BY <2>2 DEF run_job
    <3>2. App \in Threads /\ Monitor \in Threads /\ Workers \subseteq Threads /\ w \notin {App, Monitor}
      BY ThreadAssumption DEF Threads
    <3>3. DOMAIN pc = Threads /\ DOMAIN info = Threads
      BY DEF PoolInv, TypeOK, PcOK, QueuesOK
    <3> QED
      BY <3>1, <3>2, <3>3, ItemAssumption DEF PoolInv, Held, Item, WriteLabels
  <2> QED
    BY <2>1, <2>2
<1> QED
  BY <1>1, <1>2, <1>3, <1>4, <1>5 DEF PoolInv, TypeOK

\* A worker takes a pill.
LEMMA TakePillKeeps ==
  ASSUME PoolInv, NEW w \in Workers, take_pill(w)
  PROVE  PoolInv'
<1>1. PcOK' /\ QueuesOK' /\ HistoryOK'
  BY ThreadAssumption, ItemAssumption, CountAssumption
  DEF take_pill, PoolInv, TypeOK, PcOK, QueuesOK, Held, QNames, Item, Notices, history,
      HistoryOK
<1>2. PoolOK'
  <2>1. w \in Counted /\ Cardinality(Counted) # 0
    BY CountedFinite, FS_EmptySet DEF take_pill, PoolInv, Counted
  <2> QED
    BY <2>1, CountedFinite, CountAssumption
    DEF take_pill, PoolInv, TypeOK, PoolOK, ThreadLenCounts
<1>3. ThreadLenCounts'
  <2>1. /\ pc[w] \notin Gone /\ pc'[w] \in Gone
        /\ ThreadLen' = ThreadLen - 1 /\ pc'[Monitor] = pc[Monitor]
        /\ \A v \in Workers \ {w} : pc'[v] = pc[v]
    BY ThreadAssumption DEF take_pill, PoolInv, TypeOK, PcOK, Gone
  <2> QED
    BY <2>1, CountLess DEF PoolInv
<1>4. IncRoom' /\ Held'
  BY ThreadAssumption, ItemAssumption, CountAssumption
  DEF take_pill, poolvars, PoolInv, TypeOK, PcOK, PoolOK, IncRoom, QueuesOK, Held, QNames,
      Item
<1> QED
  BY <1>1, <1>2, <1>3, <1>4 DEF PoolInv, TypeOK

\* dec_workthread_auto, the first test.
LEMMA AutoMinKeeps ==
  ASSUME PoolInv, NEW w \in Workers, auto_min(w)
  PROVE  PoolInv'
<1>1. TypeOK'
  BY ThreadAssumption, ItemAssumption, CountAssumption
  DEF auto_min, PoolInv, TypeOK, PcOK, QueuesOK, Held, QNames, Item, Notices, poolvars,
      PoolOK, history, HistoryOK
<1>2. ThreadLenCounts'
  <2>1. /\ ThreadLen' = ThreadLen /\ (pc'[Monitor] = "incend" <=> pc[Monitor] = "incend")
        /\ \A v \in Workers : pc'[v] \in Gone <=> pc[v] \in Gone
    BY ThreadAssumption DEF auto_min, poolvars, PoolInv, TypeOK, PcOK, Gone
  <2> QED
    BY <2>1, CountSame DEF PoolInv
<1>3. IncRoom' /\ Held'
  BY ThreadAssumption, ItemAssumption, CountAssumption
  DEF auto_min, poolvars, PoolInv, TypeOK, PcOK, PoolOK, IncRoom, QueuesOK, Held, QNames,
      Item
<1> QED
  BY <1>1, <1>2, <1>3 DEF PoolInv, TypeOK

\* dec_workthread_auto, the second test.
LEMMA AutoWindowKeeps ==
  ASSUME PoolInv, NEW w \in Workers, auto_window(w)
  PROVE  PoolInv'
<1>1. PcOK'
  BY ThreadAssumption, ItemAssumption, CountAssumption
  DEF auto_window, PoolInv, TypeOK, PcOK
<1>2. QueuesOK'
  BY ThreadAssumption, ItemAssumption, CountAssumption
  DEF auto_window, PoolInv, TypeOK, PcOK, QueuesOK, Held, QNames, Item, Notices
<1>3. PoolOK'
  BY ThreadAssumption, ItemAssumption, CountAssumption
  DEF auto_window, poolvars, PoolInv, TypeOK, PoolOK
<1>4. HistoryOK'
  BY ThreadAssumption, ItemAssumption, CountAssumption
  DEF auto_window, history, PoolInv, TypeOK, HistoryOK
<1>5. ThreadLenCounts'
  <2>1. /\ ThreadLen' = ThreadLen /\ (pc'[Monitor] = "incend" <=> pc[Monitor] = "incend")
        /\ \A v \in Workers : pc'[v] \in Gone <=> pc[v] \in Gone
    BY ThreadAssumption DEF auto_window, poolvars, PoolInv, TypeOK, PcOK, Gone
  <2> QED
    BY <2>1, CountSame DEF PoolInv
<1>6. IncRoom' /\ Held'
  BY ThreadAssumption, ItemAssumption, CountAssumption
  DEF auto_window, poolvars, PoolInv, TypeOK, PcOK, PoolOK, IncRoom, QueuesOK, Held,
      QNames, Item
<1> QED
  BY <1>1, <1>2, <1>3, <1>4, <1>5, <1>6 DEF PoolInv, TypeOK

\* dec_workthread_end in dec_workthread_auto.
LEMMA DecEndKeeps ==
  ASSUME PoolInv, NEW w \in Workers, dec_workthread_end(w)
  PROVE  PoolInv'
<1>1. PcOK' /\ QueuesOK' /\ HistoryOK'
  BY ThreadAssumption, ItemAssumption, CountAssumption
  DEF dec_workthread_end, PoolInv, TypeOK, PcOK, QueuesOK, Held, QNames, Item, Notices,
      history, HistoryOK
<1>2. PoolOK'
  <2>1. w \in Counted /\ Cardinality(Counted) # 0
    BY CountedFinite, FS_EmptySet DEF dec_workthread_end, PoolInv, Counted
  <2> QED
    BY <2>1, CountedFinite, CountAssumption
    DEF dec_workthread_end, PoolInv, TypeOK, PoolOK, ThreadLenCounts
<1>3. ThreadLenCounts'
  <2>1. /\ pc[w] \notin Gone /\ pc'[w] \in Gone
        /\ ThreadLen' = ThreadLen - 1 /\ pc'[Monitor] = pc[Monitor]
        /\ \A v \in Workers \ {w} : pc'[v] = pc[v]
    BY ThreadAssumption DEF dec_workthread_end, PoolInv, TypeOK, PcOK, Gone
  <2> QED
    BY <2>1, CountLess DEF PoolInv
<1>4. IncRoom' /\ Held'
  BY ThreadAssumption, ItemAssumption, CountAssumption
  DEF dec_workthread_end, poolvars, PoolInv, TypeOK, PcOK, PoolOK, IncRoom, QueuesOK,
      Held, QNames, Item
<1> QED
  BY <1>1, <1>2, <1>3, <1>4 DEF PoolInv, TypeOK

\* The end of dec_workthread_auto.
LEMMA AutoStampKeeps ==
  ASSUME PoolInv, NEW w \in Workers, auto_stamp(w)
  PROVE  PoolInv'
<1>1. TypeOK'
  BY ThreadAssumption, ItemAssumption, CountAssumption
  DEF auto_stamp, PoolInv, TypeOK, PcOK, QueuesOK, Held, QNames, Item, Notices, poolvars,
      PoolOK, history, HistoryOK
<1>2. ThreadLenCounts'
  <2>1. /\ ThreadLen' = ThreadLen /\ (pc'[Monitor] = "incend" <=> pc[Monitor] = "incend")
        /\ \A v \in Workers : pc'[v] \in Gone <=> pc[v] \in Gone
    BY ThreadAssumption DEF auto_stamp, poolvars, PoolInv, TypeOK, PcOK, Gone
  <2> QED
    BY <2>1, CountSame DEF PoolInv
<1>3. IncRoom' /\ Held'
  BY ThreadAssumption, ItemAssumption, CountAssumption
  DEF auto_stamp, poolvars, PoolInv, TypeOK, PcOK, PoolOK, IncRoom, QueuesOK, Held,
      QNames, Item
<1> QED
  BY <1>1, <1>2, <1>3 DEF PoolInv, TypeOK

\* The exit notice of a worker.
LEMMA PostExitKeeps ==
  ASSUME PoolInv, NEW w \in Workers, post_exit(w)
  PROVE  PoolInv'
<1>1. TypeOK'
  BY ThreadAssumption, ItemAssumption, CountAssumption
  DEF post_exit, ExitNotice, PoolInv, TypeOK, PcOK, QueuesOK, Held, QNames, Item, Notices,
      poolvars, PoolOK, history, HistoryOK
<1>2. ThreadLenCounts'
  <2>1. /\ ThreadLen' = ThreadLen /\ (pc'[Monitor] = "incend" <=> pc[Monitor] = "incend")
        /\ \A v \in Workers : pc'[v] \in Gone <=> pc[v] \in Gone
    BY ThreadAssumption DEF post_exit, ExitNotice, poolvars, PoolInv, TypeOK, PcOK, Gone
  <2> QED
    BY <2>1, CountSame DEF PoolInv
<1>3. IncRoom' /\ Held'
  BY ThreadAssumption, ItemAssumption, CountAssumption
  DEF post_exit, ExitNotice, poolvars, PoolInv, TypeOK, PcOK, PoolOK, IncRoom, QueuesOK,
      Held, QNames, Item
<1> QED
  BY <1>1, <1>2, <1>3 DEF PoolInv, TypeOK

\* The loop test of WorkMonitor.
LEMMA MonitorTestKeeps ==
  ASSUME PoolInv, monitor_test
  PROVE  PoolInv'
<1>1. TypeOK'
  BY ThreadAssumption, ItemAssumption, CountAssumption
  DEF monitor_test, PoolInv, TypeOK, PcOK, QueuesOK, Held, QNames, Item, Notices,
      poolvars, PoolOK, history, HistoryOK
<1>2. ThreadLenCounts'
  <2>1. /\ ThreadLen' = ThreadLen /\ (pc'[Monitor] = "incend" <=> pc[Monitor] = "incend")
        /\ \A v \in Workers : pc'[v] \in Gone <=> pc[v] \in Gone
    BY ThreadAssumption DEF monitor_test, poolvars, PoolInv, TypeOK, PcOK, Gone
  <2> QED
    BY <2>1, CountSame DEF PoolInv
<1>3. IncRoom' /\ Held'
  BY ThreadAssumption, ItemAssumption, CountAssumption
  DEF monitor_test, poolvars, PoolInv, TypeOK, PcOK, PoolOK, IncRoom, QueuesOK, Held,
      QNames, Item
<1> QED
  BY <1>1, <1>2, <1>3 DEF PoolInv, TypeOK

\* The monitor takes a notice.
LEMMA MonitorReadKeeps ==
  ASSUME PoolInv, monitor_read
  PROVE  PoolInv'
<1>1. PoolOK' /\ HistoryOK'
  BY ThreadAssumption, ItemAssumption, CountAssumption
  DEF monitor_read, poolvars, PoolInv, TypeOK, PoolOK, history, HistoryOK
<1>2. PcOK'
  BY MonitorReadGoes, ThreadAssumption DEF PoolInv, TypeOK, PcOK
<1>3. QueuesOK'
  <2>1. CASE Qmonitor = <<>>
    BY <2>1 DEF monitor_read, PoolInv, TypeOK, QueuesOK
  <2>2. CASE Qmonitor # <<>>
    <3>1. /\ Tail(Qmonitor) \in Seq(Notices) /\ Len(Tail(Qmonitor)) = Len(Qmonitor) - 1
          /\ Len(Qmonitor) \in Nat /\ Len(Qmonitor) <= MonitorLen
      BY <2>2, TailOK DEF PoolInv, TypeOK, QueuesOK
    <3>2. Len(Tail(Qmonitor)) <= MonitorLen
      BY <3>1, CountAssumption
    <3> QED
      BY <2>2, <3>1, <3>2 DEF monitor_read, PoolInv, TypeOK, QueuesOK
  <2> QED
    BY <2>1, <2>2
<1>4. ThreadLenCounts'
  <2>1. ThreadLen' = ThreadLen /\ (pc'[Monitor] = "incend" <=> pc[Monitor] = "incend")
    BY MonitorReadGoes, ThreadAssumption DEF monitor_read, poolvars, PoolInv, TypeOK, PcOK
  <2>2. \A v \in Workers : pc'[v] \in Gone <=> pc[v] \in Gone
    BY MonitorReadGoes, ThreadAssumption DEF PoolInv, TypeOK, PcOK
  <2> QED
    BY <2>1, <2>2, CountSame DEF PoolInv
<1>5. IncRoom'
  BY MonitorReadGoes, ThreadAssumption DEF PoolInv, TypeOK, PcOK, IncRoom
<1>6. Held'
  BY MonitorReadGoes, ThreadAssumption DEF monitor_read, PoolInv, TypeOK, PcOK, Held
<1> QED
  BY <1>1, <1>2, <1>3, <1>4, <1>5, <1>6 DEF PoolInv, TypeOK

\* The tests of inc_workthread.
LEMMA IncKeeps ==
  ASSUME PoolInv, inc_workthread
  PROVE  PoolInv'
<1>1. TypeOK'
  BY ThreadAssumption, ItemAssumption, CountAssumption
  DEF inc_workthread, PoolInv, TypeOK, PcOK, QueuesOK, Held, QNames, Item, Notices,
      poolvars, PoolOK, history, HistoryOK
<1>2. ThreadLenCounts'
  <2>1. /\ ThreadLen' = ThreadLen /\ (pc'[Monitor] = "incend" <=> pc[Monitor] = "incend")
        /\ \A v \in Workers : pc'[v] \in Gone <=> pc[v] \in Gone
    BY ThreadAssumption DEF inc_workthread, poolvars, PoolInv, TypeOK, PcOK, Gone
  <2> QED
    BY <2>1, CountSame DEF PoolInv
<1>3. IncRoom' /\ Held'
  BY ThreadAssumption, ItemAssumption, CountAssumption
  DEF inc_workthread, poolvars, PoolInv, TypeOK, PcOK, PoolOK, IncRoom, QueuesOK, Held,
      QNames, Item
<1> QED
  BY <1>1, <1>2, <1>3 DEF PoolInv, TypeOK

\* pthread_create.
LEMMA CreateKeeps ==
  ASSUME PoolInv, NEW w \in Workers, create_worker(w)
  PROVE  PoolInv'
<1>1. TypeOK'
  BY ThreadAssumption, ItemAssumption, CountAssumption
  DEF create_worker, PoolInv, TypeOK, PcOK, QueuesOK, Held, QNames, Item, Notices,
      poolvars, PoolOK, history, HistoryOK
<1>2. ThreadLenCounts'
  <2>1. Counted' = Counted \cup {w} /\ w \notin Counted
    BY ThreadAssumption DEF create_worker, PoolInv, TypeOK, PcOK, Counted
  <2>2. Cardinality(Counted') = Cardinality(Counted) + 1
    BY <2>1, CountedFinite, FS_AddElement
  <2>3. pc'[Monitor] = "incend" /\ pc[Monitor] # "incend" /\ ThreadLen' = ThreadLen
    BY ThreadAssumption DEF create_worker, poolvars, PoolInv, TypeOK, PcOK
  <2> QED
    BY <2>2, <2>3, CountedFinite DEF ThreadLenCounts, PoolInv, TypeOK, PoolOK
<1>3. IncRoom' /\ Held'
  BY ThreadAssumption, ItemAssumption, CountAssumption
  DEF create_worker, poolvars, PoolInv, TypeOK, PcOK, PoolOK, IncRoom, QueuesOK, Held,
      QNames, Item
<1> QED
  BY <1>1, <1>2, <1>3 DEF PoolInv, TypeOK

\* pthread_create fails.
LEMMA CreateFailsKeeps ==
  ASSUME PoolInv, create_fails
  PROVE  PoolInv'
<1>1. TypeOK'
  BY ThreadAssumption, ItemAssumption, CountAssumption
  DEF create_fails, PoolInv, TypeOK, PcOK, QueuesOK, Held, QNames, Item, Notices,
      poolvars, PoolOK, history, HistoryOK
<1>2. ThreadLenCounts'
  <2>1. /\ ThreadLen' = ThreadLen /\ (pc'[Monitor] = "incend" <=> pc[Monitor] = "incend")
        /\ \A v \in Workers : pc'[v] \in Gone <=> pc[v] \in Gone
    BY ThreadAssumption DEF create_fails, poolvars, PoolInv, TypeOK, PcOK, Gone
  <2> QED
    BY <2>1, CountSame DEF PoolInv
<1>3. IncRoom' /\ Held'
  BY ThreadAssumption, ItemAssumption, CountAssumption
  DEF create_fails, poolvars, PoolInv, TypeOK, PcOK, PoolOK, IncRoom, QueuesOK, Held,
      QNames, Item
<1> QED
  BY <1>1, <1>2, <1>3 DEF PoolInv, TypeOK

\* inc_workthread_end.
LEMMA IncEndKeeps ==
  ASSUME PoolInv, inc_workthread_end
  PROVE  PoolInv'
<1>1. PcOK' /\ QueuesOK' /\ HistoryOK'
  BY ThreadAssumption, ItemAssumption, CountAssumption
  DEF inc_workthread_end, PoolInv, TypeOK, PcOK, QueuesOK, Held, QNames, Item, Notices,
      history, HistoryOK
<1>2. PoolOK'
  <2>1. ThreadLen \in Int /\ -1 <= ThreadLen /\ ThreadLen < TP_MAX_COUNT
    BY CountAssumption DEF inc_workthread_end, PoolInv, TypeOK, PoolOK, IncRoom
  <2>2. ThreadLen' \in -1 .. TP_MAX_COUNT
    BY <2>1, CountAssumption DEF inc_workthread_end
  <2> QED
    BY <2>2 DEF inc_workthread_end, PoolInv, TypeOK, PoolOK
<1>3. ThreadLenCounts'
  <2>1. Counted' = Counted
    BY ThreadAssumption DEF inc_workthread_end, PoolInv, TypeOK, PcOK, Counted
  <2>2. pc'[Monitor] # "incend" /\ pc[Monitor] = "incend" /\ ThreadLen' = ThreadLen + 1
    BY ThreadAssumption DEF inc_workthread_end, PoolInv, TypeOK, PcOK
  <2> QED
    BY <2>1, <2>2, CountedFinite DEF ThreadLenCounts, PoolInv, TypeOK, PoolOK
<1>4. IncRoom' /\ Held'
  BY ThreadAssumption, ItemAssumption, CountAssumption
  DEF inc_workthread_end, poolvars, PoolInv, TypeOK, PcOK, PoolOK, IncRoom, QueuesOK,
      Held, QNames, Item
<1> QED
  BY <1>1, <1>2, <1>3, <1>4 DEF PoolInv, TypeOK

\* dec_workthread.
LEMMA DecKeeps ==
  ASSUME PoolInv, dec_workthread
  PROVE  PoolInv'
<1>1. TypeOK'
  BY ThreadAssumption, ItemAssumption, CountAssumption
  DEF dec_workthread, PoolInv, TypeOK, PcOK, QueuesOK, Held, QNames, Item, Notices,
      poolvars, PoolOK, history, HistoryOK
<1>2. ThreadLenCounts'
  <2>1. /\ ThreadLen' = ThreadLen /\ (pc'[Monitor] = "incend" <=> pc[Monitor] = "incend")
        /\ \A v \in Workers : pc'[v] \in Gone <=> pc[v] \in Gone
    BY ThreadAssumption DEF dec_workthread, poolvars, PoolInv, TypeOK, PcOK, Gone
  <2> QED
    BY <2>1, CountSame DEF PoolInv
<1>3. IncRoom' /\ Held'
  BY ThreadAssumption, ItemAssumption, CountAssumption
  DEF dec_workthread, poolvars, PoolInv, TypeOK, PcOK, PoolOK, IncRoom, QueuesOK, Held,
      QNames, Item
<1> QED
  BY <1>1, <1>2, <1>3 DEF PoolInv, TypeOK

\* writeThread_job.
LEMMA SubmitKeeps ==
  ASSUME PoolInv, NEW job \in Jobs, writeThread_job(job)
  PROVE  PoolInv'
<1>1. TypeOK'
  BY ThreadAssumption, ItemAssumption, CountAssumption
  DEF writeThread_job, PoolInv, TypeOK, PcOK, QueuesOK, Held, QNames, Item, Notices,
      poolvars, PoolOK, history, HistoryOK
<1>2. ThreadLenCounts'
  <2>1. /\ ThreadLen' = ThreadLen /\ (pc'[Monitor] = "incend" <=> pc[Monitor] = "incend")
        /\ \A v \in Workers : pc'[v] \in Gone <=> pc[v] \in Gone
    BY ThreadAssumption DEF writeThread_job, poolvars, PoolInv, TypeOK, PcOK, Gone
  <2> QED
    BY <2>1, CountSame DEF PoolInv
<1>3. IncRoom' /\ Held'
  BY ThreadAssumption, ItemAssumption, CountAssumption
  DEF writeThread_job, poolvars, PoolInv, TypeOK, PcOK, PoolOK, IncRoom, QueuesOK, Held,
      QNames, Item
<1> QED
  BY <1>1, <1>2, <1>3 DEF PoolInv, TypeOK

\* readThread_ret.
LEMMA AskKeeps ==
  ASSUME PoolInv, readThread_ret
  PROVE  PoolInv'
<1>1. TypeOK'
  BY ThreadAssumption, ItemAssumption, CountAssumption
  DEF readThread_ret, PoolInv, TypeOK, PcOK, QueuesOK, Held, QNames, Item, Notices,
      poolvars, PoolOK, history, HistoryOK
<1>2. ThreadLenCounts'
  <2>1. /\ ThreadLen' = ThreadLen /\ (pc'[Monitor] = "incend" <=> pc[Monitor] = "incend")
        /\ \A v \in Workers : pc'[v] \in Gone <=> pc[v] \in Gone
    BY ThreadAssumption DEF readThread_ret, poolvars, PoolInv, TypeOK, PcOK, Gone
  <2> QED
    BY <2>1, CountSame DEF PoolInv
<1>3. IncRoom' /\ Held'
  BY ThreadAssumption, ItemAssumption, CountAssumption
  DEF readThread_ret, poolvars, PoolInv, TypeOK, PcOK, PoolOK, IncRoom, QueuesOK, Held,
      QNames, Item
<1> QED
  BY <1>1, <1>2, <1>3 DEF PoolInv, TypeOK

\* readThread_ret returns.
LEMMA ReturnKeeps ==
  ASSUME PoolInv, return_result
  PROVE  PoolInv'
<1>1. PcOK' /\ QueuesOK' /\ PoolOK'
  BY ThreadAssumption, ItemAssumption, CountAssumption
  DEF return_result, PoolInv, TypeOK, PcOK, QueuesOK, Held, QNames, Item, Notices,
      poolvars, PoolOK
<1>2. HistoryOK'
  <2>1. info[App] \in Jobs
    BY DEF return_result, PoolInv, TypeOK, QueuesOK, Held, Item
  <2> QED
    BY <2>1 DEF return_result, PoolInv, TypeOK, HistoryOK
<1>3. ThreadLenCounts'
  <2>1. /\ ThreadLen' = ThreadLen /\ (pc'[Monitor] = "incend" <=> pc[Monitor] = "incend")
        /\ \A v \in Workers : pc'[v] \in Gone <=> pc[v] \in Gone
    BY ThreadAssumption DEF return_result, poolvars, PoolInv, TypeOK, PcOK, Gone
  <2> QED
    BY <2>1, CountSame DEF PoolInv
<1>4. IncRoom' /\ Held'
  BY ThreadAssumption, ItemAssumption, CountAssumption
  DEF return_result, poolvars, PoolInv, TypeOK, PcOK, PoolOK, IncRoom, QueuesOK, Held,
      QNames, Item
<1> QED
  BY <1>1, <1>2, <1>3, <1>4 DEF PoolInv, TypeOK

\* UpdateThreads.
LEMMA UpdateKeeps ==
  ASSUME PoolInv, NEW op \in Updates, UpdateThreads(op)
  PROVE  PoolInv'
<1>1. PcOK' /\ PoolOK' /\ HistoryOK'
  BY ThreadAssumption, ItemAssumption, CountAssumption
  DEF UpdateThreads, Offer, UpdateNotice, PoolInv, TypeOK, PcOK, poolvars, PoolOK,
      history, HistoryOK
<1>2. QueuesOK'
  <2>1. Qmonitor' \in Seq(Notices) /\ Len(Qmonitor') <= MonitorLen
    BY OfferOK, NoticesOK, UpdatesAssumption DEF UpdateThreads, PoolInv, TypeOK
  <2> QED
    BY <2>1 DEF UpdateThreads, PoolInv, TypeOK, QueuesOK
<1>3. ThreadLenCounts'
  <2>1. /\ ThreadLen' = ThreadLen /\ (pc'[Monitor] = "incend" <=> pc[Monitor] = "incend")
        /\ \A v \in Workers : pc'[v] \in Gone <=> pc[v] \in Gone
    BY ThreadAssumption
    DEF UpdateThreads, Offer, UpdateNotice, poolvars, PoolInv, TypeOK, PcOK, Gone
  <2> QED
    BY <2>1, CountSame DEF PoolInv
<1>4. IncRoom' /\ Held'
  BY ThreadAssumption, ItemAssumption, CountAssumption
  DEF UpdateThreads, Offer, UpdateNotice, poolvars, PoolInv, TypeOK, PcOK, PoolOK,
      IncRoom, QueuesOK, Held, QNames, Item
<1> QED
  BY <1>1, <1>2, <1>3, <1>4 DEF PoolInv, TypeOK

\* myqueuedestroy starts.
LEMMA DestroyKeeps ==
  ASSUME PoolInv, myqueuedestroy
  PROVE  PoolInv'
<1>1. TypeOK'
  BY ThreadAssumption, ItemAssumption, CountAssumption
  DEF myqueuedestroy, PoolInv, TypeOK, PcOK, QueuesOK, Held, QNames, Item, Notices,
      poolvars, PoolOK, history, HistoryOK
<1>2. ThreadLenCounts'
  <2>1. /\ ThreadLen' = ThreadLen /\ (pc'[Monitor] = "incend" <=> pc[Monitor] = "incend")
        /\ \A v \in Workers : pc'[v] \in Gone <=> pc[v] \in Gone
    BY ThreadAssumption DEF myqueuedestroy, poolvars, PoolInv, TypeOK, PcOK, Gone
  <2> QED
    BY <2>1, CountSame DEF PoolInv
<1>3. IncRoom' /\ Held'
  BY ThreadAssumption, ItemAssumption, CountAssumption
  DEF myqueuedestroy, poolvars, PoolInv, TypeOK, PcOK, PoolOK, IncRoom, QueuesOK, Held,
      QNames, Item
<1> QED
  BY <1>1, <1>2, <1>3 DEF PoolInv, TypeOK

\* The loop test of myqueuedestroy.
LEMMA DestroyLoopKeeps ==
  ASSUME PoolInv, destroy_loop
  PROVE  PoolInv'
<1>1. PcOK'
  BY ThreadAssumption, ItemAssumption, CountAssumption
  DEF destroy_loop, PoolInv, TypeOK, PcOK
<1>2. QueuesOK'
  BY ThreadAssumption, ItemAssumption, CountAssumption
  DEF destroy_loop, PoolInv, TypeOK, PcOK, QueuesOK, Held, QNames, Item, Notices
<1>3. PoolOK'
  BY ThreadAssumption, ItemAssumption, CountAssumption
  DEF destroy_loop, poolvars, PoolInv, TypeOK, PoolOK
<1>4. HistoryOK'
  BY ThreadAssumption, ItemAssumption, CountAssumption
  DEF destroy_loop, history, PoolInv, TypeOK, HistoryOK
<1>5. ThreadLenCounts'
  <2>1. /\ ThreadLen' = ThreadLen /\ (pc'[Monitor] = "incend" <=> pc[Monitor] = "incend")
        /\ \A v \in Workers : pc'[v] \in Gone <=> pc[v] \in Gone
    BY ThreadAssumption DEF destroy_loop, poolvars, PoolInv, TypeOK, PcOK, Gone
  <2> QED
    BY <2>1, CountSame DEF PoolInv
<1>6. IncRoom' /\ Held'
  BY ThreadAssumption, ItemAssumption, CountAssumption
  DEF destroy_loop, poolvars, PoolInv, TypeOK, PcOK, PoolOK, IncRoom, QueuesOK, Held,
      QNames, Item
<1> QED
  BY <1>1, <1>2, <1>3, <1>4, <1>5, <1>6 DEF PoolInv, TypeOK

\* myqueuedestroy takes a notice.
LEMMA DestroyReadKeeps ==
  ASSUME PoolInv, destroy_read
  PROVE  PoolInv'
<1>1. TypeOK'
  BY ThreadAssumption, ItemAssumption, CountAssumption
  DEF destroy_read, PoolInv, TypeOK, PcOK, QueuesOK, Held, QNames, Item, Notices,
      poolvars, PoolOK, history, HistoryOK
<1>2. ThreadLenCounts'
  <2>1. /\ ThreadLen' = ThreadLen /\ (pc'[Monitor] = "incend" <=> pc[Monitor] = "incend")
        /\ \A v \in Workers : pc'[v] \in Gone <=> pc[v] \in Gone
    BY ThreadAssumption DEF destroy_read, poolvars, PoolInv, TypeOK, PcOK, Gone
  <2> QED
    BY <2>1, CountSame DEF PoolInv
<1>3. IncRoom' /\ Held'
  BY ThreadAssumption, ItemAssumption, CountAssumption
  DEF destroy_read, poolvars, PoolInv, TypeOK, PcOK, PoolOK, IncRoom, QueuesOK, Held,
      QNames, Item
<1> QED
  BY <1>1, <1>2, <1>3 DEF PoolInv, TypeOK

\* myqueuedestroy frees the pool.
LEMMA DestroyFreeKeeps ==
  ASSUME PoolInv, destroy_free
  PROVE  PoolInv'
<1>1. TypeOK'
  BY ThreadAssumption, ItemAssumption, CountAssumption
  DEF destroy_free, PoolInv, TypeOK, PcOK, QueuesOK, Held, QNames, Item, Notices,
      poolvars, PoolOK, history, HistoryOK
<1>2. ThreadLenCounts'
  <2>1. /\ ThreadLen' = ThreadLen /\ (pc'[Monitor] = "incend" <=> pc[Monitor] = "incend")
        /\ \A v \in Workers : pc'[v] \in Gone <=> pc[v] \in Gone
    BY ThreadAssumption DEF destroy_free, poolvars, PoolInv, TypeOK, PcOK, Gone
  <2> QED
    BY <2>1, CountSame DEF PoolInv
<1>3. IncRoom' /\ Held'
  BY ThreadAssumption, ItemAssumption, CountAssumption
  DEF destroy_free, poolvars, PoolInv, TypeOK, PcOK, PoolOK, IncRoom, QueuesOK, Held,
      QNames, Item
<1> QED
  BY <1>1, <1>2, <1>3 DEF PoolInv, TypeOK

\* The clock.
LEMMA IncWindowKeeps ==
  ASSUME PoolInv, inc_window_opens
  PROVE  PoolInv'
<1>1. TypeOK'
  BY ThreadAssumption, ItemAssumption, CountAssumption
  DEF inc_window_opens, PoolInv, TypeOK, PcOK, QueuesOK, Held, QNames, Item, Notices,
      poolvars, PoolOK, history, HistoryOK
<1>2. ThreadLenCounts'
  <2>1. /\ ThreadLen' = ThreadLen /\ (pc'[Monitor] = "incend" <=> pc[Monitor] = "incend")
        /\ \A v \in Workers : pc'[v] \in Gone <=> pc[v] \in Gone
    BY ThreadAssumption DEF inc_window_opens, poolvars, PoolInv, TypeOK, PcOK, Gone
  <2> QED
    BY <2>1, CountSame DEF PoolInv
<1>3. IncRoom' /\ Held'
  BY ThreadAssumption, ItemAssumption, CountAssumption
  DEF inc_window_opens, poolvars, PoolInv, TypeOK, PcOK, PoolOK, IncRoom, QueuesOK, Held,
      QNames, Item
<1> QED
  BY <1>1, <1>2, <1>3 DEF PoolInv, TypeOK

\* The clock.
LEMMA DecWindowKeeps ==
  ASSUME PoolInv, dec_window_opens
  PROVE  PoolInv'
<1>1. TypeOK'
  BY ThreadAssumption, ItemAssumption, CountAssumption
  DEF dec_window_opens, PoolInv, TypeOK, PcOK, QueuesOK, Held, QNames, Item, Notices,
      poolvars, PoolOK, history, HistoryOK
<1>2. ThreadLenCounts'
  <2>1. /\ ThreadLen' = ThreadLen /\ (pc'[Monitor] = "incend" <=> pc[Monitor] = "incend")
        /\ \A v \in Workers : pc'[v] \in Gone <=> pc[v] \in Gone
    BY ThreadAssumption DEF dec_window_opens, poolvars, PoolInv, TypeOK, PcOK, Gone
  <2> QED
    BY <2>1, CountSame DEF PoolInv
<1>3. IncRoom' /\ Held'
  BY ThreadAssumption, ItemAssumption, CountAssumption
  DEF dec_window_opens, poolvars, PoolInv, TypeOK, PcOK, PoolOK, IncRoom, QueuesOK, Held,
      QNames, Item
<1> QED
  BY <1>1, <1>2, <1>3 DEF PoolInv, TypeOK

HIDE DEF Threads, WorkerLabels, AppLabels, MonitorLabels, ReadLabels, WriteLabels

\* The initial state of the pool satisfies the invariant.
LEMMA InitHolds == Init => PoolInv
<1> SUFFICES ASSUME Init PROVE PoolInv
  OBVIOUS
<1>1. PICK W \in SUBSET Workers :
        /\ Cardinality(W) = StartCount
        /\ pc = [t \in Threads |-> IF t = App THEN "idle"
                                   ELSE IF t \in W \cup {Monitor} THEN "test"
                                   ELSE "unborn"]
  BY DEF Init
<1>2. PcOK
  BY <1>1, ThreadAssumption DEF PcOK, Threads, WorkerLabels, AppLabels, MonitorLabels
<1>3. QueuesOK /\ PoolOK /\ HistoryOK
  BY CountAssumption DEF Init, QueuesOK, PoolOK, HistoryOK, QNames, Item
<1>4. Counted = W
  BY <1>1, ThreadAssumption DEF Counted, Threads
<1>5. pc[Monitor] = "test" /\ pc[App] = "idle"
  BY <1>1, ThreadAssumption DEF Threads
<1>6. ThreadLenCounts
  BY <1>1, <1>4, <1>5, CountAssumption DEF Init, ThreadLenCounts
<1>7. IncRoom
  BY <1>5 DEF IncRoom
<1>8. Held
  BY <1>1, ThreadAssumption, ItemAssumption
  DEF Init, Held, QNames, Item, Threads, WriteLabels
<1> QED
  BY <1>2, <1>3, <1>6, <1>7, <1>8 DEF PoolInv, TypeOK

\* Every step of the workers preserves the invariant.
LEMMA WorkersKeep ==
  ASSUME PoolInv, NEW w \in Workers, WorkThreads(w)
  PROVE  PoolInv'
<1>1. w \in Threads
  BY DEF Threads
<1> QED
  BY <1>1, ReadQueueKeeps, ReadLimitKeeps, ReadResetKeeps, WriteQueueKeeps, WriteLimitKeeps,
     WriteResetKeeps, FailNoticeKeeps, WorkerTestKeeps, RunJobKeeps, TakePillKeeps,
     AutoMinKeeps, AutoWindowKeeps, DecEndKeeps, AutoStampKeeps, PostExitKeeps
  DEF WorkThreads, QueueStep

\* Every step of the monitor preserves the invariant.
LEMMA MonitorKeeps ==
  ASSUME PoolInv, WorkMonitor
  PROVE  PoolInv'
<1>1. Monitor \in Threads
  BY DEF Threads
<1> QED
  BY <1>1, ReadQueueKeeps, ReadLimitKeeps, ReadResetKeeps, WriteQueueKeeps, WriteLimitKeeps,
     WriteResetKeeps, FailNoticeKeeps, MonitorTestKeeps, MonitorReadKeeps, IncKeeps,
     CreateKeeps, CreateFailsKeeps, IncEndKeeps, DecKeeps
  DEF WorkMonitor, QueueStep

\* Every step of the application, inside a call or starting one, preserves it.
LEMMA AppKeeps ==
  ASSUME PoolInv, AppInCall \/ AppCalls
  PROVE  PoolInv'
<1>1. App \in Threads
  BY DEF Threads
<1>2. CASE AppInCall
  BY <1>1, <1>2, ReadQueueKeeps, ReadLimitKeeps, ReadResetKeeps, WriteQueueKeeps,
     WriteLimitKeeps, WriteResetKeeps, FailNoticeKeeps, ReturnKeeps, DestroyLoopKeeps,
     DestroyReadKeeps, DestroyFreeKeeps
  DEF AppInCall, QueueStep
<1>3. CASE AppCalls
  BY <1>3, SubmitKeeps, AskKeeps, UpdateKeeps, DestroyKeeps DEF AppCalls
<1> QED
  BY <1>2, <1>3

\* PoolInv is an inductive invariant of the pool.
THEOREM PoolInvariant == Spec => []PoolInv
<1>1. PoolInv /\ [Next]_vars => PoolInv'
  <2> SUFFICES ASSUME PoolInv, [Next]_vars PROVE PoolInv'
    OBVIOUS
  <2>1. CASE \E w \in Workers : WorkThreads(w)
    BY <2>1, WorkersKeep
  <2>2. CASE WorkMonitor
    BY <2>2, MonitorKeeps
  <2>3. CASE AppInCall \/ AppCalls
    BY <2>3, AppKeeps
  <2>4. CASE LostResets
    BY <2>4, ReadResetLostKeeps, WriteResetLostKeeps DEF LostResets
  <2>5. CASE Clock
    BY <2>5, IncWindowKeeps, DecWindowKeeps DEF Clock
  <2>6. CASE UNCHANGED vars
    <3>1. TypeOK'
      BY <2>6 DEF vars, PoolInv, TypeOK, PcOK, QueuesOK, PoolOK, HistoryOK
    <3>2. ThreadLenCounts' /\ IncRoom' /\ Held'
      BY <2>6 DEF vars, PoolInv, ThreadLenCounts, Counted, IncRoom, Held
    <3> QED
      BY <3>1, <3>2 DEF PoolInv
  <2> QED
    BY <2>1, <2>2, <2>3, <2>4, <2>5, <2>6 DEF Next
<1> QED
  BY <1>1, InitHolds, PTL DEF Spec

\* The shared state of the pool keeps its types and capacities, whatever the
\* number of workers and the schedule.
THEOREM TypeCorrect == Spec => []TypeOK
<1>1. PoolInv => TypeOK
  BY DEF PoolInv
<1> QED
  BY <1>1, PoolInvariant, PTL

\* state.ThreadLen is the number of worker threads in every reachable state,
\* but for the one between pthread_create and inc_workthread_end.
THEOREM ThreadLenIsExact == Spec => []ThreadLenCounts
<1>1. PoolInv => ThreadLenCounts
  BY DEF PoolInv
<1> QED
  BY <1>1, PoolInvariant, PTL

-----------------------------------------------------------------------------
(***************************************************************************)
(* What the pool does with its jobs, as long as nobody asks for fewer      *)
(* threads: JobConservation and the refinement of JobPool.  A request for  *)
(* fewer threads makes the monitor a second writer of Qwrite; then the     *)
(* application may find the monitor's failure count after its own unlock,  *)
(* and write a job again that is in the queue already.                     *)
(***************************************************************************)

HIDE DEF Goto

\* Nobody asks for fewer threads: the monitor never writes a pill.
NoDecNotice == \A k \in 1 .. Len(Qmonitor) : Qmonitor[k].ID50 = "INC"
NoPill ==
  /\ pc[Monitor] \notin WriteLabels \cup {"dec"}
  /\ NoDecNotice
  /\ queue["Qwrite"] \in Seq(Jobs)
  /\ \A t \in Threads : info[t] # Pill

\* The application is the only writer of Qwrite and the only reader of Qread:
\* the counter it looks at after the unlock is the one it has just reset.
AppAlone ==
  /\ pc[App] = "wdone" => WFcount["Qwrite"] = 0
  /\ pc[App] = "rtaken" => RFcount["Qread"] = 0

Busy == {"rtaken", "rreset", "got", "write", "wfull", "wreset", "wnotify"}

\* Elsewhere a thread has nothing in its hands.
EmptyHands ==
  /\ \A w \in Workers : pc[w] \notin Busy => info[w] = None
  /\ pc[App] \notin {"rtaken", "got"} \cup WriteLabels => info[App] = None
  /\ info[Monitor] = None

\* What thread t has and will still use; a written item is the queue's.
Hand(t) == IF pc[t] = "wdone" THEN None ELSE info[t]

\* The result that readqueue is about to return.
Fetched == IF pc[App] \in {"rtaken", "got"} THEN info[App] ELSE None

Elems(s) == {s[k] : k \in 1 .. Len(s)}
Distinct(s) == \A k, l \in 1 .. Len(s) : s[k] = s[l] => k = l

Waiting  == Elems(queue["Qwrite"])
Answered == Elems(queue["Qread"])
InHands  == {Hand(t) : t \in Threads} \cap Jobs

\* No job is in two hands.
Once == \A t, u \in Threads : Hand(t) \in Jobs /\ Hand(t) = Hand(u) => t = u

\* The submitted jobs are divided between the two queues, the threads, and the
\* two ends a job may come to; none is twice in a queue or in two hands.
Divided ==
  /\ Distinct(queue["Qwrite"]) /\ Distinct(queue["Qread"])
  /\ Once
  /\ submitted = Waiting \cup Answered \cup InHands \cup finished \cup dropped
  /\ Waiting \cap (Answered \cup InHands \cup finished \cup dropped) = {}
  /\ Answered \cap (InHands \cup finished \cup dropped) = {}
  /\ InHands \cap (finished \cup dropped) = {}
  /\ finished \cap dropped = {}

\* Nobody has asked, or will ask, for fewer threads.
NeverDec == "DEC" \notin Updates \/ updates = 0

\* The inductive invariant.
SideInv == NoPill /\ AppAlone /\ EmptyHands
JobInv == PoolInv /\ SideInv /\ Divided
QuietInv == PoolInv /\ (NeverDec => JobInv)

-----------------------------------------------------------------------------
(* The ways in which a step can move a job.                                *)

OthersKeep(t) == \A v \in Threads \ {t} : Hand(v)' = Hand(v)

\* No job moves.
Still == /\ UNCHANGED <<queue, history>>
         /\ \A v \in Threads : Hand(v)' = Hand(v)
         /\ Fetched' = Fetched

\* A thread takes the oldest item of its queue.
Takes(t) == LET q == ReadsFrom(t) IN
  /\ pc[t] = "read"
  /\ queue[q] # <<>> /\ queue[q] \in Seq(Jobs)
  /\ Hand(t) = None /\ Hand(t)' = Head(queue[q]) /\ OthersKeep(t)
  /\ queue' = [queue EXCEPT ![q] = Tail(queue[q])]
  /\ UNCHANGED history
  /\ IF t = App THEN Fetched = None /\ Fetched' = Head(queue[q]) ELSE Fetched' = Fetched

\* A thread writes what it has.
Puts(t) == LET q == WritesTo(t) IN
  /\ Len(queue[q]) < queuelen
  /\ Hand(t) \in Jobs /\ Hand(t)' = None /\ OthersKeep(t)
  /\ queue' = [queue EXCEPT ![q] = Append(queue[q], Hand(t))]
  /\ UNCHANGED history
  /\ Fetched' = Fetched /\ (t = App => Fetched = None)

\* A worker throws its job away.
Drops(t) ==
  /\ t \in Workers
  /\ Hand(t) \in Jobs /\ Hand(t)' = None /\ OthersKeep(t)
  /\ dropped' = dropped \cup {Hand(t)}
  /\ UNCHANGED <<queue, submitted, finished>>
  /\ Fetched' = Fetched

\* A job is through: the application has it back, or it needed no answer.
Ends(t) ==
  /\ Hand(t) \in Jobs /\ Hand(t)' = None /\ OthersKeep(t)
  /\ finished' = finished \cup {Hand(t)}
  /\ UNCHANGED <<queue, submitted, dropped>>
  /\ IF t = App THEN Fetched = Hand(App) /\ Fetched' = None ELSE Fetched' = Fetched

\* The application begins to submit a job.
Begins(job) ==
  /\ job \notin submitted
  /\ submitted' = submitted \cup {job}
  /\ Hand(App) = None /\ Hand(App)' = job /\ OthersKeep(App)
  /\ UNCHANGED <<queue, finished, dropped>>
  /\ Fetched' = Fetched

Moves == \/ Still
         \/ \E w \in Workers : Takes(w) \/ Puts(w) \/ Drops(w) \/ Ends(w)
         \/ Takes(App) \/ Puts(App) \/ Ends(App)
         \/ \E job \in Jobs : Begins(job)

-----------------------------------------------------------------------------
(* Jobs in queues and hands.                                               *)

\* Taking the head of a queue removes one item, which was there once.
LEMMA TailTakes ==
  ASSUME NEW S, NEW s \in Seq(S), s # <<>>, Distinct(s)
  PROVE  /\ Distinct(Tail(s))
         /\ Elems(s) = Elems(Tail(s)) \cup {Head(s)}
         /\ Head(s) \notin Elems(Tail(s))
         /\ Head(s) \in S
<1>1. /\ Len(s) \in Nat /\ Len(s) > 0
      /\ Len(Tail(s)) = Len(s) - 1
      /\ Head(s) = s[1] /\ Head(s) \in S
  BY TailOK
<1>2. \A k \in 1 .. Len(s) - 1 : Tail(s)[k] = s[k + 1]
  BY <1>1
<1>3. Distinct(Tail(s))
  BY <1>1, <1>2 DEF Distinct
<1>4. Head(s) \notin Elems(Tail(s))
  BY <1>1, <1>2 DEF Distinct, Elems
<1>5. Elems(s) \subseteq Elems(Tail(s)) \cup {Head(s)}
  <2>1. ASSUME NEW k \in 1 .. Len(s), k # 1 PROVE s[k] \in Elems(Tail(s))
    <3>1. k - 1 \in 1 .. Len(Tail(s)) /\ Tail(s)[k - 1] = s[k]
      BY <1>1, <1>2, <2>1
    <3> QED
      BY <3>1 DEF Elems
  <2> QED
    BY <1>1, <2>1 DEF Elems
<1>6. Elems(Tail(s)) \cup {Head(s)} \subseteq Elems(s)
  BY <1>1, <1>2 DEF Elems
<1> QED
  BY <1>1, <1>3, <1>4, <1>5, <1>6

\* Appending an item that is not there adds just it.
LEMMA AppendAdds ==
  ASSUME NEW S, NEW s \in Seq(S), NEW x \in S, Distinct(s), x \notin Elems(s)
  PROVE  /\ Distinct(Append(s, x))
         /\ Elems(Append(s, x)) = Elems(s) \cup {x}
<1>1. Len(s) \in Nat /\ Len(Append(s, x)) = Len(s) + 1
  BY AppendOK
<1>2. /\ \A k \in 1 .. Len(s) : Append(s, x)[k] = s[k]
      /\ Append(s, x)[Len(s) + 1] = x
  OBVIOUS
<1>3. Distinct(Append(s, x))
  BY <1>1, <1>2 DEF Distinct, Elems
<1>4. Elems(Append(s, x)) \subseteq Elems(s) \cup {x}
  BY <1>1, <1>2 DEF Elems
<1>5. Elems(s) \cup {x} \subseteq Elems(Append(s, x))
  BY <1>1, <1>2 DEF Elems
<1> QED
  BY <1>3, <1>4, <1>5

\* A thread with empty hands gets a job that nobody has.
LEMMA HandGains ==
  ASSUME Once, NEW t \in Threads, NEW x \in Jobs, x \notin InHands,
         Hand(t) = None, Hand(t)' = x, OthersKeep(t)
  PROVE  InHands' = InHands \cup {x} /\ Once'
<1>1. \A v \in Threads \ {t} : Hand(v)' = Hand(v) /\ Hand(v) # x
  BY DEF OthersKeep, InHands
<1>2. Once'
  BY <1>1 DEF Once
<1>3. InHands' = InHands \cup {x}
  BY <1>1, ItemAssumption DEF InHands, Item
<1> QED
  BY <1>2, <1>3

\* A thread gives its job away.
LEMMA HandLoses ==
  ASSUME Once, NEW t \in Threads, Hand(t) \in Jobs, Hand(t)' = None, OthersKeep(t)
  PROVE  Hand(t) \in InHands /\ InHands' = InHands \ {Hand(t)} /\ Once'
<1>1. \A v \in Threads \ {t} : Hand(v)' = Hand(v) /\ (Hand(v) \in Jobs => Hand(v) # Hand(t))
  BY DEF OthersKeep, Once
<1>2. Once'
  BY <1>1, ItemAssumption DEF Once, Item
<1>3. InHands' = InHands \ {Hand(t)}
  BY <1>1, ItemAssumption DEF InHands, Item
<1> QED
  BY <1>2, <1>3 DEF InHands

\* Whatever moves, the division of the jobs stays one.
LEMMA MovesKeepDivided ==
  ASSUME PoolInv, SideInv, Divided, Moves
  PROVE  Divided'
<1>0. /\ queue["Qwrite"] \in Seq(Jobs) /\ queue["Qread"] \in Seq(Jobs)
      /\ queue \in [QNames -> Seq(Item)]
      /\ Once
  BY DEF PoolInv, TypeOK, QueuesOK, SideInv, NoPill, Held, Divided
<1>1. CASE Still
  <2>1. InHands' = InHands /\ Once'
    BY <1>0, <1>1 DEF Still, InHands, Once
  <2>2. /\ queue' = queue /\ Waiting' = Waiting /\ Answered' = Answered
        /\ submitted' = submitted /\ finished' = finished /\ dropped' = dropped
    BY <1>1 DEF Still, history, Waiting, Answered
  <2> QED
    BY <2>1, <2>2 DEF Divided
<1>2. ASSUME NEW t \in Workers, Takes(t) PROVE Divided'
  <2> DEFINE x == Head(queue["Qwrite"])
  <2>1. /\ queue["Qwrite"] # <<>>
        /\ queue' = [queue EXCEPT !["Qwrite"] = Tail(queue["Qwrite"])]
        /\ Hand(t) = None /\ Hand(t)' = x /\ OthersKeep(t)
        /\ submitted' = submitted /\ finished' = finished /\ dropped' = dropped
    BY <1>2, ThreadAssumption DEF Takes, ReadsFrom, history
  <2>2. queue'["Qwrite"] = Tail(queue["Qwrite"]) /\ queue'["Qread"] = queue["Qread"]
    BY <1>0, <2>1 DEF QNames
  <2>3. /\ Distinct(queue'["Qwrite"]) /\ x \in Jobs
        /\ Waiting = Waiting' \cup {x} /\ x \notin Waiting'
    BY <1>0, <2>1, <2>2, TailTakes DEF Divided, Waiting
  <2>4. x \notin InHands
    BY <2>3 DEF Divided
  <2>5. InHands' = InHands \cup {x} /\ Once'
    BY <1>0, <2>1, <2>3, <2>4, HandGains DEF Threads
  <2>6. Answered' = Answered
    BY <2>2 DEF Answered
  <2> HIDE DEF x
  <2> QED
    BY <2>1, <2>2, <2>3, <2>5, <2>6 DEF Divided
<1>3. CASE Takes(App)
  <2> DEFINE x == Head(queue["Qread"])
  <2>1. /\ queue["Qread"] # <<>>
        /\ queue' = [queue EXCEPT !["Qread"] = Tail(queue["Qread"])]
        /\ Hand(App) = None /\ Hand(App)' = x /\ OthersKeep(App)
        /\ submitted' = submitted /\ finished' = finished /\ dropped' = dropped
    BY <1>3 DEF Takes, ReadsFrom, history
  <2>2. queue'["Qread"] = Tail(queue["Qread"]) /\ queue'["Qwrite"] = queue["Qwrite"]
    BY <1>0, <2>1 DEF QNames
  <2>3. /\ Distinct(queue'["Qread"]) /\ x \in Jobs
        /\ Answered = Answered' \cup {x} /\ x \notin Answered'
    BY <1>0, <2>1, <2>2, TailTakes DEF Divided, Answered
  <2>4. x \notin InHands
    BY <2>3 DEF Divided
  <2>5. InHands' = InHands \cup {x} /\ Once'
    BY <1>0, <2>1, <2>3, <2>4, HandGains DEF Threads
  <2>6. Waiting' = Waiting
    BY <2>2 DEF Waiting
  <2> HIDE DEF x
  <2> QED
    BY <2>1, <2>2, <2>3, <2>5, <2>6 DEF Divided
<1>4. ASSUME NEW t \in Workers, Puts(t) PROVE Divided'
  <2> DEFINE x == Hand(t)
  <2>1. /\ queue' = [queue EXCEPT !["Qread"] = Append(queue["Qread"], x)]
        /\ x \in Jobs /\ Hand(t)' = None /\ OthersKeep(t)
        /\ submitted' = submitted /\ finished' = finished /\ dropped' = dropped
    BY <1>4 DEF Puts, WritesTo, history
  <2>2. queue'["Qread"] = Append(queue["Qread"], x) /\ queue'["Qwrite"] = queue["Qwrite"]
    BY <1>0, <2>1 DEF QNames
  <2>3. x \in InHands /\ InHands' = InHands \ {x} /\ Once'
    BY <1>0, <2>1, HandLoses DEF Threads
  <2>4. x \notin Answered
    BY <2>3 DEF Divided
  <2>5. Distinct(queue'["Qread"]) /\ Answered' = Answered \cup {x}
    BY <1>0, <2>1, <2>2, <2>4, AppendAdds DEF Divided, Answered
  <2>6. Waiting' = Waiting
    BY <2>2 DEF Waiting
  <2> HIDE DEF x
  <2> QED
    BY <2>1, <2>2, <2>3, <2>5, <2>6 DEF Divided
<1>5. CASE Puts(App)
  <2> DEFINE x == Hand(App)
  <2>1. /\ queue' = [queue EXCEPT !["Qwrite"] = Append(queue["Qwrite"], x)]
        /\ x \in Jobs /\ Hand(App)' = None /\ OthersKeep(App)
        /\ submitted' = submitted /\ finished' = finished /\ dropped' = dropped
    BY <1>5, ThreadAssumption DEF Puts, WritesTo, history
  <2>2. queue'["Qwrite"] = Append(queue["Qwrite"], x) /\ queue'["Qread"] = queue["Qread"]
    BY <1>0, <2>1 DEF QNames
  <2>3. x \in InHands /\ InHands' = InHands \ {x} /\ Once'
    BY <1>0, <2>1, HandLoses DEF Threads
  <2>4. x \notin Waiting
    BY <2>3 DEF Divided
  <2>5. Distinct(queue'["Qwrite"]) /\ Waiting' = Waiting \cup {x}
    BY <1>0, <2>1, <2>2, <2>4, AppendAdds DEF Divided, Waiting
  <2>6. Answered' = Answered
    BY <2>2 DEF Answered
  <2> HIDE DEF x
  <2> QED
    BY <2>1, <2>2, <2>3, <2>5, <2>6 DEF Divided
<1>6. ASSUME NEW t \in Workers, Drops(t) PROVE Divided'
  <2> DEFINE x == Hand(t)
  <2>1. /\ queue' = queue /\ Waiting' = Waiting /\ Answered' = Answered
        /\ x \in Jobs /\ Hand(t)' = None /\ OthersKeep(t)
        /\ submitted' = submitted /\ finished' = finished /\ dropped' = dropped \cup {x}
    BY <1>6 DEF Drops, Waiting, Answered
  <2>2. x \in InHands /\ InHands' = InHands \ {x} /\ Once'
    BY <1>0, <2>1, HandLoses DEF Threads
  <2> HIDE DEF x
  <2> QED
    BY <2>1, <2>2 DEF Divided
<1>7. ASSUME NEW t \in Threads, Ends(t) PROVE Divided'
  <2> DEFINE x == Hand(t)
  <2>1. /\ queue' = queue /\ Waiting' = Waiting /\ Answered' = Answered
        /\ x \in Jobs /\ Hand(t)' = None /\ OthersKeep(t)
        /\ submitted' = submitted /\ finished' = finished \cup {x} /\ dropped' = dropped
    BY <1>7 DEF Ends, Waiting, Answered
  <2>2. x \in InHands /\ InHands' = InHands \ {x} /\ Once'
    BY <1>0, <2>1, HandLoses
  <2> HIDE DEF x
  <2> QED
    BY <2>1, <2>2 DEF Divided
<1>8. ASSUME NEW job \in Jobs, Begins(job) PROVE Divided'
  <2>1. /\ queue' = queue /\ Waiting' = Waiting /\ Answered' = Answered
        /\ Hand(App) = None /\ Hand(App)' = job /\ OthersKeep(App)
        /\ job \notin submitted /\ submitted' = submitted \cup {job}
        /\ finished' = finished /\ dropped' = dropped
    BY <1>8 DEF Begins, Waiting, Answered
  <2>2. job \notin InHands
    BY <2>1 DEF Divided
  <2>3. InHands' = InHands \cup {job} /\ Once'
    BY <1>0, <2>1, <2>2, HandGains DEF Threads
  <2> QED
    BY <2>1, <2>2, <2>3 DEF Divided
<1>9. App \in Threads /\ \A w \in Workers : w \in Threads
  BY DEF Threads
<1> QED
  BY <1>1, <1>2, <1>3, <1>4, <1>5, <1>6, <1>7, <1>8, <1>9 DEF Moves

-----------------------------------------------------------------------------
(* Every step moves at most one job.                                       *)

USE DEF Goto

\* What the lemmas on single actions use.
LEMMA Types ==
  ASSUME PoolInv, SideInv
  PROVE  /\ pc \in [Threads -> WorkerLabels \cup AppLabels \cup MonitorLabels]
         /\ info \in [Threads -> Jobs \cup {None}]
         /\ queue \in [QNames -> Seq(Item)]
         /\ queue["Qread"] \in Seq(Jobs) /\ queue["Qwrite"] \in Seq(Jobs)
         /\ RFcount \in [QNames -> Nat] /\ WFcount \in [QNames -> Nat]
         /\ Qmonitor \in Seq(Notices)
         /\ Len(queue["Qread"]) \in Nat /\ Len(queue["Qwrite"]) \in Nat
<1>1. /\ pc \in [Threads -> WorkerLabels \cup AppLabels \cup MonitorLabels]
      /\ queue \in [QNames -> Seq(Item)]
      /\ queue["Qread"] \in Seq(Jobs) /\ queue["Qwrite"] \in Seq(Jobs)
      /\ RFcount \in [QNames -> Nat] /\ WFcount \in [QNames -> Nat]
      /\ Qmonitor \in Seq(Notices)
      /\ Len(queue["Qread"]) \in Nat /\ Len(queue["Qwrite"]) \in Nat
  BY DEF PoolInv, SideInv, TypeOK, PcOK, QueuesOK, Held, NoPill
<1>2. info \in [Threads -> Item \cup {None}] /\ \A t \in Threads : info[t] # Pill
  BY DEF PoolInv, SideInv, TypeOK, QueuesOK, NoPill
<1> QED
  BY <1>1, <1>2 DEF Item

\* A worker goes on and moves nothing.
LEMMA WorkerWalks ==
  ASSUME PoolInv, SideInv, NEW w \in Workers, NEW l,
         (l \in Busy /\ pc[w] \in Busy) \/ info[w] = None,
         pc' = [pc EXCEPT ![w] = l],
         UNCHANGED <<info, queue, history>>, NoDecNotice', AppAlone'
  PROVE  SideInv' /\ Still
<1>1. \A v \in Threads \ {w} : pc'[v] = pc[v]
  BY Types DEF Threads
<1>2. pc'[w] = l
  BY Types DEF Threads
<1>3. App # w /\ Monitor # w /\ App \in Threads /\ Monitor \in Threads /\ w \in Threads
  BY ThreadAssumption DEF Threads
<1>4. NoPill' /\ EmptyHands'
  BY <1>1, <1>2, <1>3 DEF SideInv, NoPill, EmptyHands, Threads
<1>5. \A v \in Threads : Hand(v)' = Hand(v)
  BY <1>1, <1>2, <1>3 DEF Hand, Busy
<1>6. Fetched' = Fetched
  BY <1>1, <1>3 DEF Fetched
<1> QED
  BY <1>4, <1>5, <1>6 DEF SideInv, Still

\* The monitor goes on; it has nothing to move.
LEMMA MonitorWalks ==
  ASSUME PoolInv, SideInv, NEW l, l \notin WriteLabels \cup {"dec"},
         pc' = [pc EXCEPT ![Monitor] = l],
         UNCHANGED <<info, queue, history>>, NoDecNotice', AppAlone'
  PROVE  SideInv' /\ Still
<1>1. \A v \in Threads \ {Monitor} : pc'[v] = pc[v]
  BY Types DEF Threads
<1>2. pc'[Monitor] = l
  BY Types DEF Threads
<1>3. App # Monitor /\ Monitor \notin Workers /\ App \in Threads /\ Monitor \in Threads
  BY ThreadAssumption DEF Threads
<1>4. NoPill' /\ EmptyHands'
  BY <1>1, <1>2, <1>3 DEF SideInv, NoPill, EmptyHands, Threads
<1>5. \A v \in Threads : Hand(v)' = Hand(v)
  BY <1>1, <1>2, <1>3 DEF Hand, WriteLabels, SideInv, EmptyHands
<1>6. Fetched' = Fetched
  BY <1>1, <1>3 DEF Fetched
<1> QED
  BY <1>4, <1>5, <1>6 DEF SideInv, Still

\* The application goes on and moves nothing.
LEMMA AppWalks ==
  ASSUME PoolInv, SideInv, NEW l, l \notin {"wdone", "rtaken"},
         \/ info[App] = None
         \/ {l, pc[App]} \subseteq {"rtaken", "got"}
         \/ {l, pc[App]} \subseteq WriteLabels \ {"wdone"},
         pc' = [pc EXCEPT ![App] = l],
         UNCHANGED <<info, queue, history>>, NoDecNotice'
  PROVE  SideInv' /\ Still
<1>1. \A v \in Threads \ {App} : pc'[v] = pc[v]
  BY Types DEF Threads
<1>2. pc'[App] = l
  BY Types DEF Threads
<1>3. App # Monitor /\ App \notin Workers /\ App \in Threads /\ Monitor \in Threads
  BY ThreadAssumption DEF Threads
<1>4. NoPill' /\ EmptyHands'
  BY <1>1, <1>2, <1>3 DEF SideInv, NoPill, EmptyHands, Threads, WriteLabels
<1>5. \A v \in Threads : Hand(v)' = Hand(v)
  BY <1>1, <1>2, <1>3 DEF Hand, WriteLabels
<1>6. Fetched' = Fetched
  BY <1>1, <1>2, <1>3 DEF Fetched, WriteLabels
<1>7. AppAlone'
  BY <1>2 DEF AppAlone
<1> QED
  BY <1>4, <1>5, <1>6, <1>7 DEF SideInv, Still

\* No notice that asks for fewer threads gets into Qmonitor ...
LEMMA AppendIncNotice ==
  ASSUME PoolInv, NoDecNotice, NEW msg \in Notices, msg.ID50 = "INC",
         Qmonitor' = Append(Qmonitor, msg)
  PROVE  NoDecNotice'
<1>1. Qmonitor \in Seq(Notices)
  BY DEF PoolInv, TypeOK, QueuesOK
<1>2. /\ Len(Qmonitor) \in Nat /\ Len(Qmonitor') = Len(Qmonitor) + 1
      /\ \A k \in 1 .. Len(Qmonitor) : Qmonitor'[k] = Qmonitor[k]
      /\ Qmonitor'[Len(Qmonitor) + 1] = msg
  BY <1>1
<1> QED
  BY <1>2 DEF NoDecNotice

LEMMA OfferIncNotice ==
  ASSUME PoolInv, NoDecNotice, NEW msg \in Notices, msg.ID50 = "INC",
         Qmonitor' = Offer(msg)
  PROVE  NoDecNotice'
<1>1. CASE Qmonitor' = Append(Qmonitor, msg)
  BY <1>1, AppendIncNotice
<1>2. CASE Qmonitor' = Qmonitor
  BY <1>2 DEF NoDecNotice
<1> QED
  BY <1>1, <1>2 DEF Offer

\* ... nor out of it.
LEMMA TailIncNotice ==
  ASSUME PoolInv, NoDecNotice, Qmonitor # <<>>
  PROVE  Head(Qmonitor).ID50 = "INC" /\ (Qmonitor' = Tail(Qmonitor) => NoDecNotice')
<1>1. Qmonitor \in Seq(Notices)
  BY DEF PoolInv, TypeOK, QueuesOK
<1>2. /\ Len(Qmonitor) \in Nat /\ Len(Qmonitor) > 0
      /\ Head(Qmonitor) = Qmonitor[1]
      /\ Len(Tail(Qmonitor)) = Len(Qmonitor) - 1
      /\ \A k \in 1 .. Len(Qmonitor) - 1 : Tail(Qmonitor)[k] = Qmonitor[k + 1]
  BY <1>1
<1> QED
  BY <1>2 DEF NoDecNotice

\* The worker's read_queue, the critical section.
LEMMA WorkerReads ==
  ASSUME PoolInv, SideInv, NEW w \in Workers, read_queue(w)
  PROVE  SideInv' /\ (Still \/ Takes(w))
<1>1. /\ w # App /\ w # Monitor /\ App # Monitor /\ w \in Threads
      /\ App \in Threads /\ Monitor \in Threads
  BY ThreadAssumption DEF Threads
<1>2. /\ pc[w] = "read" /\ info[w] = None
      /\ UNCHANGED <<WFcount, Qmonitor, history>>
  BY DEF read_queue, SideInv, EmptyHands, Busy
<1>3. CASE queue["Qwrite"] # <<>>
  <2> DEFINE x == Head(queue["Qwrite"])
  <2>1. /\ pc' = [pc EXCEPT ![w] = "rtaken"] /\ info' = [info EXCEPT ![w] = x]
        /\ queue' = [queue EXCEPT !["Qwrite"] = Tail(queue["Qwrite"])]
        /\ RFcount' = [RFcount EXCEPT !["Qwrite"] = 0]
    BY <1>1, <1>3 DEF read_queue, ReadsFrom
  <2>2. x \in Jobs /\ Tail(queue["Qwrite"]) \in Seq(Jobs)
    BY <1>3, Types, TailOK
  <2>3. /\ \A v \in Threads \ {w} : pc'[v] = pc[v] /\ info'[v] = info[v]
        /\ pc'[w] = "rtaken" /\ info'[w] = x
        /\ queue'["Qwrite"] = Tail(queue["Qwrite"]) /\ RFcount'["Qread"] = RFcount["Qread"]
    BY <1>1, <2>1, Types DEF QNames
  <2> HIDE DEF x
  <2>4. NoPill'
    BY <1>1, <1>2, <2>2, <2>3, ItemAssumption DEF SideInv, NoPill, NoDecNotice
  <2>5. AppAlone' /\ EmptyHands'
    BY <1>1, <1>2, <2>3 DEF SideInv, AppAlone, EmptyHands, Threads, Busy
  <2>6. Hand(w) = None /\ Hand(w)' = x /\ OthersKeep(w) /\ Fetched' = Fetched
    BY <1>1, <1>2, <2>3 DEF Hand, OthersKeep, Fetched
  <2>7. Takes(w)
    BY <1>1, <1>2, <1>3, <2>1, <2>6, Types DEF Takes, ReadsFrom, x
  <2> QED
    BY <2>4, <2>5, <2>7 DEF SideInv
<1>4. CASE queue["Qwrite"] = <<>>
  <2>1. /\ pc' = [pc EXCEPT ![w] = "rempty"] /\ info' = info /\ queue' = queue
        /\ RFcount' = [RFcount EXCEPT !["Qwrite"] = RFcount["Qwrite"] + 1]
    BY <1>1, <1>4 DEF read_queue, ReadsFrom
  <2>2. NoDecNotice' /\ AppAlone'
    BY <1>1, <1>2, <2>1, Types DEF SideInv, NoPill, NoDecNotice, AppAlone, QNames
  <2> QED
    BY <1>2, <2>1, <2>2, WorkerWalks
<1> QED
  BY <1>3, <1>4

\* The worker's write_queue, the critical section.
LEMMA WorkerWrites ==
  ASSUME PoolInv, SideInv, NEW w \in Workers, write_queue(w)
  PROVE  SideInv' /\ (Still \/ Puts(w))
<1>1. /\ w # App /\ w # Monitor /\ App # Monitor /\ w \in Threads
      /\ App \in Threads /\ Monitor \in Threads
  BY ThreadAssumption DEF Threads
<1>2. /\ pc[w] = "write" /\ info[w] \in Jobs
      /\ UNCHANGED <<RFcount, Qmonitor, history>>
  <2>1. pc[w] = "write" /\ UNCHANGED <<RFcount, Qmonitor, history>>
    BY DEF write_queue
  <2>2. info[w] # None
    BY <1>1, <2>1 DEF PoolInv, Held
  <2> QED
    BY <1>1, <2>1, <2>2, Types
<1>3. CASE Len(queue["Qread"]) < queuelen
  <2>1. /\ pc' = [pc EXCEPT ![w] = "wdone"] /\ info' = [info EXCEPT ![w] = None]
        /\ queue' = [queue EXCEPT !["Qread"] = Append(queue["Qread"], info[w])]
        /\ WFcount' = [WFcount EXCEPT !["Qread"] = 0]
    BY <1>1, <1>3, Types, CountAssumption DEF write_queue, WritesTo
  <2>3. /\ \A v \in Threads \ {w} : pc'[v] = pc[v] /\ info'[v] = info[v]
        /\ pc'[w] = "wdone" /\ info'[w] = None
        /\ queue'["Qwrite"] = queue["Qwrite"] /\ WFcount'["Qwrite"] = WFcount["Qwrite"]
    BY <1>1, <2>1, Types DEF QNames
  <2>4. NoPill'
    BY <1>1, <1>2, <2>3, ItemAssumption DEF SideInv, NoPill, NoDecNotice, Item
  <2>5. AppAlone' /\ EmptyHands'
    BY <1>1, <1>2, <2>3 DEF SideInv, AppAlone, EmptyHands, Threads, Busy
  <2>6. Hand(w) = info[w] /\ Hand(w)' = None /\ OthersKeep(w) /\ Fetched' = Fetched
    BY <1>1, <1>2, <2>3 DEF Hand, OthersKeep, Fetched
  <2>7. Puts(w)
    BY <1>1, <1>2, <1>3, <2>1, <2>6 DEF Puts, WritesTo
  <2> QED
    BY <2>4, <2>5, <2>7 DEF SideInv
<1>4. CASE ~(Len(queue["Qread"]) < queuelen)
  <2>1. /\ pc' = [pc EXCEPT ![w] = "wfull"] /\ info' = info /\ queue' = queue
        /\ WFcount' = [WFcount EXCEPT !["Qread"] = WFcount["Qread"] + 1]
    BY <1>1, <1>4, Types, CountAssumption DEF write_queue, WritesTo
  <2>2. NoDecNotice' /\ AppAlone'
    BY <1>1, <1>2, <2>1, Types DEF SideInv, NoPill, NoDecNotice, AppAlone, QNames
  <2> QED
    BY <1>2, <2>1, <2>2, WorkerWalks DEF Busy
<1> QED
  BY <1>3, <1>4

\* A worker with or without a job forgets it: FLAG_FAIL_READ, or a result that
\* does not fit into Qread.
LEMMA WorkerForgets ==
  ASSUME PoolInv, SideInv, NEW w \in Workers, NEW l, l # "wdone", pc[w] # "wdone",
         Forget(w), pc'[w] = l,
         \A v \in Threads \ {w} :
           pc'[v] = pc[v] \/ (v \in Workers /\ info[v] = None /\ pc'[v] = "rempty"),
         UNCHANGED <<queue, submitted, finished>>, NoDecNotice', AppAlone'
  PROVE  SideInv' /\ (Still \/ Drops(w))
<1>1. /\ w # App /\ w # Monitor /\ App # Monitor /\ w \in Threads
      /\ App \in Threads /\ Monitor \in Threads /\ App \notin Workers /\ Monitor \notin Workers
  BY ThreadAssumption DEF Threads
<1>2. /\ \A v \in Threads \ {w} : info'[v] = info[v]
      /\ info'[w] = None
      /\ dropped' = dropped \cup ({info[w]} \cap Jobs)
  BY <1>1, Types DEF Forget
<1>3. NoPill'
  BY <1>1, <1>2, ItemAssumption DEF SideInv, NoPill, Item
<1>4. EmptyHands'
  BY <1>1, <1>2 DEF SideInv, EmptyHands, Threads
<1>5. /\ Hand(w) = info[w] /\ Hand(w)' = None
      /\ \A v \in Threads \ {w} : Hand(v)' = Hand(v)
      /\ Fetched' = Fetched
  BY <1>1, <1>2 DEF Hand, Fetched
<1>6. CASE info[w] \in Jobs
  <2>1. Drops(w)
    BY <1>2, <1>5, <1>6 DEF Drops, OthersKeep
  <2> QED
    BY <1>3, <1>4, <2>1 DEF SideInv
<1>7. CASE info[w] \notin Jobs
  <2>1. info[w] = None /\ dropped' = dropped
    BY <1>1, <1>2, <1>7, Types
  <2>2. \A v \in Threads : Hand(v)' = Hand(v)
    BY <1>5, <2>1
  <2>3. Still
    BY <1>5, <2>1, <2>2 DEF Still, history
  <2> QED
    BY <1>3, <1>4, <2>3 DEF SideInv
<1> QED
  BY <1>6, <1>7

\* The other steps of a worker.
LEMMA WorkerMoves ==
  ASSUME PoolInv, SideInv, NEW w \in Workers, WorkThreads(w)
  PROVE  SideInv' /\ (Still \/ Takes(w) \/ Puts(w) \/ Drops(w) \/ Ends(w))
<1>0. /\ w # App /\ w # Monitor /\ App # Monitor /\ w \in Threads
      /\ App \in Threads /\ Monitor \in Threads
  BY ThreadAssumption DEF Threads
<1>1. NoDecNotice /\ AppAlone /\ (pc[w] \notin Busy => info[w] = None)
  BY DEF SideInv, NoPill, EmptyHands
<1>a. ASSUME pc'[App] = pc[App], RFcount'["Qread"] = RFcount["Qread"],
             WFcount'["Qwrite"] = WFcount["Qwrite"]
      PROVE  AppAlone'
  BY <1>1, <1>a DEF AppAlone
<1>b. ASSUME Qmonitor' = Qmonitor PROVE NoDecNotice'
  BY <1>1, <1>b DEF NoDecNotice
<1>c. ASSUME NEW l, pc' = [pc EXCEPT ![w] = l]
      PROVE  pc'[w] = l /\ \A v \in Threads \ {w} : pc'[v] = pc[v]
  BY <1>0, <1>c, Types
<1>2. CASE read_queue(w)
  BY <1>2, WorkerReads
<1>3. CASE write_queue(w)
  BY <1>3, WorkerWrites
<1>4. CASE read_limit(w)
  <2>1. PICK l : /\ pc' = [pc EXCEPT ![w] = l]
                 /\ (l \in Busy /\ pc[w] \in Busy) \/ pc[w] \notin Busy
    BY <1>0, <1>4 DEF read_limit, Busy
  <2>2. UNCHANGED <<info, queue, history, RFcount, WFcount, Qmonitor>>
    BY <1>4 DEF read_limit
  <2>3. AppAlone' /\ NoDecNotice'
    BY <1>0, <1>a, <1>b, <1>c, <2>1, <2>2
  <2> QED
    BY <1>1, <2>1, <2>2, <2>3, WorkerWalks
<1>5. CASE read_reset(w)
  <2>1. PICK l : pc' = [pc EXCEPT ![w] = l] /\ l # "wdone" /\ pc[w] # "wdone"
    BY <1>0, <1>5 DEF read_reset, AfterFailRead
  <2>2. /\ UNCHANGED <<queue, submitted, finished, WFcount, Qmonitor>> /\ Forget(w)
        /\ RFcount' = [RFcount EXCEPT !["Qwrite"] = 0]
    BY <1>0, <1>5 DEF read_reset, ReadsFrom
  <2>3. RFcount'["Qread"] = RFcount["Qread"]
    BY <2>2, Types DEF QNames
  <2>4. AppAlone' /\ NoDecNotice'
    BY <1>0, <1>a, <1>b, <1>c, <2>1, <2>2, <2>3
  <2> QED
    BY <1>c, <2>1, <2>2, <2>4, WorkerForgets
<1>6. CASE write_limit(w)
  <2>1. CASE pc[w] = "wdone"
    <3>1. info[w] = None
      BY <1>1, <2>1 DEF Busy
    <3>2. info' = info
      <4>1. info' \in {info, [info EXCEPT ![w] = None]}
        BY <1>6 DEF write_limit
      <4> QED
        BY <3>1, <4>1, Types
    <3>3. PICK l : pc' = [pc EXCEPT ![w] = l]
      BY <1>6 DEF write_limit
    <3>4. UNCHANGED <<queue, history, RFcount, WFcount, Qmonitor>>
      BY <1>6 DEF write_limit
    <3>5. AppAlone' /\ NoDecNotice'
      BY <1>0, <1>a, <1>b, <1>c, <3>3, <3>4
    <3> QED
      BY <3>1, <3>2, <3>3, <3>4, <3>5, WorkerWalks
  <2>2. CASE pc[w] = "wfull"
    <3>1. PICK l : pc' = [pc EXCEPT ![w] = l] /\ l \in Busy /\ pc[w] \in Busy /\ info' = info
      BY <1>6, <2>2 DEF write_limit, Busy
    <3>2. UNCHANGED <<queue, history, RFcount, WFcount, Qmonitor>>
      BY <1>6 DEF write_limit
    <3>3. AppAlone' /\ NoDecNotice'
      BY <1>0, <1>a, <1>b, <1>c, <3>1, <3>2
    <3> QED
      BY <3>1, <3>2, <3>3, WorkerWalks
  <2> QED
    BY <1>6, <2>1, <2>2 DEF write_limit
<1>7. CASE write_reset(w)
  <2>1. /\ pc' = [pc EXCEPT ![w] = "wnotify"] /\ pc[w] = "wreset"
        /\ WFcount' = [WFcount EXCEPT !["Qread"] = 0]
        /\ UNCHANGED <<info, queue, history, RFcount, Qmonitor>>
    BY <1>7 DEF write_reset, WritesTo
  <2>2. WFcount'["Qwrite"] = WFcount["Qwrite"]
    BY <2>1, Types DEF QNames
  <2>3. AppAlone' /\ NoDecNotice'
    BY <1>0, <1>a, <1>b, <1>c, <2>1, <2>2
  <2> QED
    BY <2>1, <2>3, WorkerWalks DEF Busy
<1>8. CASE writ_fail_Qmonitor(w)
  <2>1. pc[w] # "rnotify"
    BY DEF PoolInv, TypeOK, PcOK, WorkerLabels, ReadLabels, WriteLabels
  <2>2. /\ pc[w] = "wnotify" /\ Forget(w) /\ pc' = [pc EXCEPT ![w] = "test"]
        /\ Qmonitor' = Offer(FailNotice("Qread"))
        /\ UNCHANGED <<queue, RFcount, WFcount, submitted, finished>>
    BY <1>8, <2>1 DEF writ_fail_Qmonitor, WritesTo
  <2>3. FailNotice("Qread") \in Notices /\ FailNotice("Qread").ID50 = "INC"
    BY DEF FailNotice, Notices
  <2>4. AppAlone' /\ NoDecNotice'
    BY <1>0, <1>1, <1>a, <1>c, <2>2, <2>3, OfferIncNotice
  <2> QED
    BY <1>c, <2>2, <2>4, WorkerForgets
<1>9. CASE run_job(w)
  <2>1. pc[w] = "got" /\ info[w] \in Jobs
    <3>1. pc[w] = "got" /\ info[w] # None
      BY <1>0, <1>9 DEF run_job, PoolInv, Held
    <3> QED
      BY <1>0, <3>1, Types
  <2>2. CASE QREAD
    <3>1. /\ pc' = [pc EXCEPT ![w] = "write"]
          /\ UNCHANGED <<info, queue, history, RFcount, WFcount, Qmonitor>>
      BY <1>9, <2>2 DEF run_job, history
    <3>2. AppAlone' /\ NoDecNotice'
      BY <1>0, <1>a, <1>b, <1>c, <3>1
    <3> QED
      BY <2>1, <3>1, <3>2, WorkerWalks DEF Busy
  <2>3. CASE ~QREAD
    <3>1. /\ pc' = [pc EXCEPT ![w] = "test"] /\ info' = [info EXCEPT ![w] = None]
          /\ finished' = finished \cup {info[w]}
          /\ UNCHANGED <<queue, submitted, dropped, RFcount, WFcount, Qmonitor>>
      BY <1>9, <2>3 DEF run_job
    <3>2. /\ \A v \in Threads \ {w} : pc'[v] = pc[v] /\ info'[v] = info[v]
          /\ pc'[w] = "test" /\ info'[w] = None
      BY <1>0, <3>1, Types
    <3>3. AppAlone' /\ NoDecNotice'
      BY <1>0, <1>a, <1>b, <3>1, <3>2
    <3>4. NoPill' /\ EmptyHands'
      BY <1>0, <3>1, <3>2, <3>3, ItemAssumption
      DEF SideInv, NoPill, EmptyHands, Threads, Item
    <3>5. Ends(w)
      BY <1>0, <2>1, <3>1, <3>2 DEF Ends, Hand, OthersKeep, Fetched
    <3> QED
      BY <3>3, <3>4, <3>5 DEF SideInv
  <2> QED
    BY <2>2, <2>3
<1>10. CASE take_pill(w)
  BY <1>0, <1>10 DEF take_pill, SideInv, NoPill
<1>11. CASE \/ worker_test(w) \/ auto_min(w) \/ auto_window(w)
            \/ dec_workthread_end(w) \/ auto_stamp(w)
  <2>1. PICK l : pc' = [pc EXCEPT ![w] = l] /\ pc[w] \notin Busy
    BY <1>11 DEF worker_test, auto_min, auto_window, dec_workthread_end, auto_stamp, Busy
  <2>2. UNCHANGED <<info, queue, history, RFcount, WFcount, Qmonitor>>
    BY <1>11 DEF worker_test, auto_min, auto_window, dec_workthread_end, auto_stamp
  <2>3. AppAlone' /\ NoDecNotice'
    BY <1>0, <1>a, <1>b, <1>c, <2>1, <2>2
  <2> QED
    BY <1>1, <2>1, <2>2, <2>3, WorkerWalks
<1>12. CASE post_exit(w)
  <2>1. /\ pc' = [pc EXCEPT ![w] = "exited"] /\ pc[w] \notin Busy
        /\ Qmonitor' = Append(Qmonitor, ExitNotice)
        /\ UNCHANGED <<info, queue, history, RFcount, WFcount>>
    BY <1>12 DEF post_exit, Busy
  <2>2. ExitNotice \in Notices /\ ExitNotice.ID50 = "INC"
    BY DEF ExitNotice, Notices
  <2>3. AppAlone' /\ NoDecNotice'
    BY <1>0, <1>1, <1>a, <1>c, <2>1, <2>2, AppendIncNotice
  <2> QED
    BY <1>1, <2>1, <2>3, WorkerWalks
<1> QED
  BY <1>2, <1>3, <1>4, <1>5, <1>6, <1>7, <1>8, <1>9, <1>10, <1>11, <1>12
  DEF WorkThreads, QueueStep

\* The monitor, which writes no pill, moves nothing.
LEMMA MonitorMoves ==
  ASSUME PoolInv, SideInv, WorkMonitor
  PROVE  SideInv' /\ Still
<1>0. App # Monitor /\ App \in Threads /\ Monitor \in Threads /\ Monitor \notin Workers
  BY ThreadAssumption DEF Threads
<1>1. NoDecNotice /\ AppAlone /\ info[Monitor] = None
  BY DEF SideInv, NoPill, EmptyHands
<1>2. pc[Monitor] \in {"test", "mread", "mstop", "inc", "create", "incend"}
  BY DEF SideInv, NoPill, PoolInv, TypeOK, PcOK, MonitorLabels, WriteLabels
<1>3. ~QueueStep(Monitor) /\ ~dec_workthread
  BY <1>2
  DEF QueueStep, read_queue, read_limit, read_reset, write_queue, write_limit,
      write_reset, writ_fail_Qmonitor, dec_workthread
<1>a. ASSUME NEW l, pc' = [pc EXCEPT ![Monitor] = l],
             UNCHANGED <<RFcount, WFcount>>
      PROVE  AppAlone'
  BY <1>0, <1>1, <1>a, Types DEF AppAlone
<1>4. CASE monitor_test \/ inc_workthread \/ create_fails \/ inc_workthread_end
  <2>1. PICK l : pc' = [pc EXCEPT ![Monitor] = l] /\ l \notin WriteLabels \cup {"dec"}
    BY <1>4
    DEF monitor_test, inc_workthread, create_fails, inc_workthread_end, WriteLabels
  <2>2. UNCHANGED <<info, queue, history, RFcount, WFcount, Qmonitor>>
    BY <1>4 DEF monitor_test, inc_workthread, create_fails, inc_workthread_end
  <2>3. AppAlone' /\ NoDecNotice'
    BY <1>1, <1>a, <2>1, <2>2 DEF NoDecNotice
  <2> QED
    BY <2>1, <2>2, <2>3, MonitorWalks
<1>5. CASE monitor_read
  <2>1. UNCHANGED <<info, queue, history, RFcount, WFcount>>
    BY <1>5 DEF monitor_read
  <2>2. CASE Qmonitor = <<>>
    <3>1. pc' = [pc EXCEPT ![Monitor] = "test"] /\ Qmonitor' = Qmonitor
      BY <1>5, <2>2 DEF monitor_read
    <3>2. AppAlone' /\ NoDecNotice'
      BY <1>1, <1>a, <2>1, <3>1 DEF NoDecNotice
    <3> QED
      BY <2>1, <3>1, <3>2, MonitorWalks DEF WriteLabels
  <2>3. CASE Qmonitor # <<>>
    <3>1. /\ pc' = [pc EXCEPT ![Monitor] = Dispatch(Head(Qmonitor))]
          /\ Qmonitor' = Tail(Qmonitor)
      BY <1>5, <2>3 DEF monitor_read
    <3>2. Head(Qmonitor) \in Notices /\ Head(Qmonitor).ID50 = "INC" /\ NoDecNotice'
      BY <1>1, <2>3, <3>1, TailIncNotice, TailOK, Types
    <3>3. Dispatch(Head(Qmonitor)) \in {"inc", "test"}
      <4>1. CASE Head(Qmonitor).ID76 = "APP"
        BY <3>2, <4>1 DEF Dispatch
      <4>2. CASE Head(Qmonitor).ID76 = "QWRITE"
        BY <4>2 DEF Dispatch
      <4>3. CASE Head(Qmonitor).ID76 = "QREAD"
        BY <4>3 DEF Dispatch
      <4> QED
        BY <3>2, <4>1, <4>2, <4>3 DEF Notices
    <3>4. AppAlone'
      BY <1>a, <2>1, <3>1
    <3> QED
      BY <2>1, <3>1, <3>2, <3>3, <3>4, MonitorWalks DEF WriteLabels
  <2> QED
    BY <2>2, <2>3
<1>6. ASSUME NEW w \in Workers, create_worker(w) PROVE SideInv' /\ Still
  <2>1. /\ pc' = [pc EXCEPT ![Monitor] = "incend", ![w] = "test"]
        /\ pc[w] = "unborn" /\ pc[Monitor] = "create"
        /\ UNCHANGED <<info, queue, history, RFcount, WFcount, Qmonitor>>
    BY <1>6 DEF create_worker
  <2>2. /\ pc'[w] = "test" /\ pc'[Monitor] = "incend" /\ w \in Threads /\ w # App
        /\ \A v \in Threads \ {w, Monitor} : pc'[v] = pc[v]
    BY <1>0, <2>1, Types, ThreadAssumption DEF Threads
  <2>3. info[w] = None
    BY <2>1 DEF SideInv, EmptyHands, Busy
  <2>4. NoPill' /\ AppAlone'
    BY <1>0, <2>1, <2>2 DEF SideInv, NoPill, NoDecNotice, AppAlone, WriteLabels
  <2>5. EmptyHands'
    BY <1>0, <2>1, <2>2, <2>3 DEF SideInv, EmptyHands, Threads
  <2>6. Still
    BY <1>0, <1>1, <2>1, <2>2, <2>3 DEF Still, Hand, Fetched
  <2> QED
    BY <2>4, <2>5, <2>6 DEF SideInv
<1> QED
  BY <1>3, <1>4, <1>5, <1>6 DEF WorkMonitor

\* A store that another thread's increment overwrites.
LEMMA LostResetMoves ==
  ASSUME PoolInv, SideInv, NEW t \in Threads, NEW u \in Threads,
         read_reset_lost(t, u) \/ write_reset_lost(t, u)
  PROVE  SideInv' /\ (Still \/ (t \in Workers /\ Drops(t)))
<1>0. /\ App # Monitor /\ App \in Threads /\ Monitor \in Threads
      /\ Monitor \notin Workers /\ App \notin Workers
  BY ThreadAssumption DEF Threads
<1>1. pc[Monitor] \in {"test", "mread", "mstop", "inc", "create", "incend"}
  BY DEF SideInv, NoPill, PoolInv, TypeOK, PcOK, MonitorLabels, WriteLabels
<1>2. t \in Workers /\ u \in Workers /\ t # u
  BY <1>1 DEF read_reset_lost, write_reset_lost, ReadsFrom, WritesTo, Threads
<1>3. CASE read_reset_lost(t, u)
  <2>1. /\ pc' = [pc EXCEPT ![t] = AfterFailRead(t), ![u] = "rempty"]
        /\ pc[t] = "rreset" /\ pc[u] = "read" /\ Forget(t)
        /\ RFcount' = [RFcount EXCEPT !["Qwrite"] = RFcount["Qwrite"] + 1]
        /\ UNCHANGED <<queue, submitted, finished, WFcount, Qmonitor>>
    BY <1>0, <1>2, <1>3 DEF read_reset_lost, ReadsFrom
  <2>2. /\ pc'[t] = AfterFailRead(t) /\ AfterFailRead(t) # "wdone" /\ pc'[u] = "rempty"
        /\ \A v \in Threads \ {t, u} : pc'[v] = pc[v]
        /\ RFcount'["Qread"] = RFcount["Qread"]
    BY <1>0, <1>2, <2>1, Types DEF AfterFailRead, QNames
  <2>3. info[u] = None
    BY <1>2, <2>1 DEF SideInv, EmptyHands, Busy
  <2>4. AppAlone' /\ NoDecNotice'
    BY <1>0, <1>2, <2>1, <2>2 DEF SideInv, NoPill, NoDecNotice, AppAlone
  <2> QED
    BY <1>2, <2>1, <2>2, <2>3, <2>4, WorkerForgets
<1>4. CASE write_reset_lost(t, u)
  <2>1. /\ pc' = [pc EXCEPT ![t] = "wnotify", ![u] = "wfull"]
        /\ pc[t] = "wreset" /\ pc[u] = "write"
        /\ WFcount' = [WFcount EXCEPT !["Qread"] = WFcount["Qread"] + 1]
        /\ UNCHANGED <<info, queue, history, RFcount, Qmonitor>>
    BY <1>0, <1>2, <1>4 DEF write_reset_lost, WritesTo
  <2>2. /\ pc'[t] = "wnotify" /\ pc'[u] = "wfull"
        /\ \A v \in Threads \ {t, u} : pc'[v] = pc[v]
        /\ WFcount'["Qwrite"] = WFcount["Qwrite"]
    BY <1>0, <1>2, <2>1, Types DEF QNames
  <2>3. NoPill' /\ AppAlone'
    BY <1>0, <1>2, <2>1, <2>2 DEF SideInv, NoPill, NoDecNotice, AppAlone
  <2>4. EmptyHands'
    BY <1>0, <1>2, <2>1, <2>2 DEF SideInv, EmptyHands, Threads, Busy
  <2>5. Still
    BY <1>0, <1>2, <2>1, <2>2 DEF Still, Hand, Fetched
  <2> QED
    BY <2>3, <2>4, <2>5 DEF SideInv
<1> QED
  BY <1>3, <1>4

\* The application inside a call.
LEMMA AppMoves ==
  ASSUME PoolInv, SideInv, AppInCall
  PROVE  SideInv' /\ (Still \/ Takes(App) \/ Puts(App) \/ Ends(App))
<1>0. /\ App # Monitor /\ App \in Threads /\ Monitor \in Threads /\ App \notin Workers
      /\ Monitor \notin Workers
  BY ThreadAssumption DEF Threads
<1>1. /\ NoDecNotice /\ AppAlone
      /\ pc[App] \notin {"rtaken", "got"} \cup WriteLabels => info[App] = None
  BY DEF SideInv, NoPill, EmptyHands
<1>b. ASSUME Qmonitor' = Qmonitor PROVE NoDecNotice'
  BY <1>1, <1>b DEF NoDecNotice
<1>c. ASSUME NEW l, pc' = [pc EXCEPT ![App] = l]
      PROVE  pc'[App] = l /\ \A v \in Threads \ {App} : pc'[v] = pc[v]
  BY <1>0, <1>c, Types
<1>2. CASE read_queue(App)
  <2>1. /\ pc[App] = "read" /\ info[App] = None
        /\ UNCHANGED <<WFcount, Qmonitor, history>>
    BY <1>1, <1>2 DEF read_queue, WriteLabels
  <2>2. CASE queue["Qread"] # <<>>
    <3> DEFINE x == Head(queue["Qread"])
    <3>1. /\ pc' = [pc EXCEPT ![App] = "rtaken"] /\ info' = [info EXCEPT ![App] = x]
          /\ queue' = [queue EXCEPT !["Qread"] = Tail(queue["Qread"])]
          /\ RFcount' = [RFcount EXCEPT !["Qread"] = 0]
      BY <1>2, <2>2 DEF read_queue, ReadsFrom
    <3>2. x \in Jobs
      BY <2>2, Types, TailOK
    <3>3. /\ \A v \in Threads \ {App} : pc'[v] = pc[v] /\ info'[v] = info[v]
          /\ pc'[App] = "rtaken" /\ info'[App] = x
          /\ queue'["Qwrite"] = queue["Qwrite"] /\ RFcount'["Qread"] = 0
      BY <1>0, <3>1, Types DEF QNames
    <3> HIDE DEF x
    <3>4. NoPill'
      BY <1>0, <2>1, <3>2, <3>3, ItemAssumption DEF SideInv, NoPill, NoDecNotice
    <3>5. AppAlone' /\ EmptyHands'
      BY <1>0, <2>1, <3>3 DEF SideInv, AppAlone, EmptyHands, Threads
    <3>6. /\ Hand(App) = None /\ Hand(App)' = x /\ OthersKeep(App)
          /\ Fetched = None /\ Fetched' = x
      BY <1>0, <2>1, <3>3 DEF Hand, OthersKeep, Fetched
    <3>7. Takes(App)
      BY <2>1, <2>2, <3>1, <3>6, Types DEF Takes, ReadsFrom, x
    <3> QED
      BY <3>4, <3>5, <3>7 DEF SideInv
  <2>3. CASE queue["Qread"] = <<>>
    <3>1. pc' = [pc EXCEPT ![App] = "rempty"] /\ info' = info /\ queue' = queue
      BY <1>2, <2>3 DEF read_queue, ReadsFrom
    <3> QED
      BY <1>b, <2>1, <3>1, AppWalks
  <2> QED
    BY <2>2, <2>3
<1>3. CASE read_limit(App)
  <2>1. UNCHANGED <<info, queue, history, Qmonitor>>
    BY <1>3 DEF read_limit
  <2>2. CASE pc[App] = "rtaken"
    <3>0. ~(FAIL_LIMITCOUNT < RFcount["Qread"])
      BY <1>1, <2>2, CountAssumption DEF AppAlone
    <3>1. pc' = [pc EXCEPT ![App] = "got"]
      BY <1>3, <2>2, <3>0 DEF read_limit, ReadsFrom
    <3> QED
      BY <1>b, <2>1, <2>2, <3>1, AppWalks
  <2>3. CASE pc[App] = "rempty"
    <3>1. info[App] = None
      BY <1>1, <2>3 DEF WriteLabels
    <3> DEFINE l == IF FAIL_LIMITCOUNT < RFcount["Qread"] THEN "rreset" ELSE "read"
    <3>2. pc' = [pc EXCEPT ![App] = l]
      BY <1>3, <2>3 DEF read_limit, ReadsFrom
    <3>3. l \notin {"wdone", "rtaken"}
      OBVIOUS
    <3> HIDE DEF l
    <3> QED
      BY <1>b, <2>1, <3>1, <3>2, <3>3, AppWalks
  <2> QED
    BY <1>3, <2>2, <2>3 DEF read_limit
<1>4. CASE read_reset(App)
  <2>1. /\ pc[App] = "rreset" /\ pc' = [pc EXCEPT ![App] = "rnotify"]
        /\ UNCHANGED <<queue, submitted, finished, Qmonitor>>
        /\ Forget(App)
    BY <1>4 DEF read_reset, AfterFailRead
  <2>2. info[App] = None
    BY <1>1, <2>1 DEF WriteLabels
  <2>3. info' = info /\ dropped' = dropped
    BY <1>0, <2>1, <2>2, Types, ItemAssumption DEF Forget, Item
  <2>4. UNCHANGED <<info, queue, history>>
    BY <2>1, <2>3 DEF history
  <2> QED
    BY <1>b, <2>1, <2>2, <2>4, AppWalks
<1>5. CASE write_queue(App)
  <2>1. /\ pc[App] = "write" /\ info[App] \in Jobs /\ info' = info
        /\ UNCHANGED <<RFcount, Qmonitor, history>>
    <3>1. pc[App] = "write" /\ UNCHANGED <<RFcount, Qmonitor, history>> /\ info' = info
      BY <1>0, <1>5 DEF write_queue
    <3>2. info[App] # None
      BY <1>0, <3>1 DEF PoolInv, Held
    <3> QED
      BY <1>0, <3>1, <3>2, Types
  <2>2. CASE Len(queue["Qwrite"]) < queuelen
    <3>1. /\ pc' = [pc EXCEPT ![App] = "wdone"]
          /\ queue' = [queue EXCEPT !["Qwrite"] = Append(queue["Qwrite"], info[App])]
          /\ WFcount' = [WFcount EXCEPT !["Qwrite"] = 0]
      BY <1>0, <1>5, <2>2, Types, CountAssumption DEF write_queue, WritesTo
    <3>2. /\ queue'["Qwrite"] \in Seq(Jobs) /\ WFcount'["Qwrite"] = 0
      <4>1. Append(queue["Qwrite"], info[App]) \in Seq(Jobs)
        BY <2>1, Types, AppendOK
      <4> QED
        BY <3>1, <4>1, Types DEF QNames
    <3>3. NoPill'
      BY <1>0, <1>c, <2>1, <3>1, <3>2 DEF SideInv, NoPill, NoDecNotice
    <3>4. AppAlone' /\ EmptyHands'
      BY <1>0, <1>c, <2>1, <3>1, <3>2
      DEF SideInv, AppAlone, EmptyHands, Threads, WriteLabels
    <3>5. /\ Hand(App) = info[App] /\ Hand(App)' = None /\ OthersKeep(App)
          /\ Fetched' = Fetched /\ Fetched = None
      BY <1>0, <1>c, <2>1, <3>1 DEF Hand, OthersKeep, Fetched
    <3>6. Puts(App)
      BY <1>0, <2>1, <2>2, <3>1, <3>5 DEF Puts, WritesTo
    <3> QED
      BY <3>3, <3>4, <3>6 DEF SideInv
  <2>3. CASE ~(Len(queue["Qwrite"]) < queuelen)
    <3>1. pc' = [pc EXCEPT ![App] = "wfull"] /\ queue' = queue
      BY <1>0, <1>5, <2>3, Types, CountAssumption DEF write_queue, WritesTo
    <3> QED
      BY <1>b, <2>1, <3>1, AppWalks DEF WriteLabels
  <2> QED
    BY <2>2, <2>3
<1>6. CASE write_limit(App)
  <2>1. UNCHANGED <<queue, history, RFcount, WFcount, Qmonitor>>
    BY <1>6 DEF write_limit
  <2>2. CASE pc[App] = "wdone"
    <3>1. pc' = [pc EXCEPT ![App] = "idle"] /\ info' = [info EXCEPT ![App] = None]
      BY <1>0, <1>1, <1>6, <2>2, CountAssumption DEF write_limit, WritesTo, AppAlone, Home
    <3>2. /\ \A v \in Threads \ {App} : pc'[v] = pc[v] /\ info'[v] = info[v]
          /\ pc'[App] = "idle" /\ info'[App] = None
      BY <1>0, <3>1, Types
    <3>3. NoPill'
      BY <1>0, <2>1, <3>2, ItemAssumption DEF SideInv, NoPill, NoDecNotice, Item
    <3>4. AppAlone' /\ EmptyHands'
      BY <1>0, <3>2 DEF SideInv, AppAlone, EmptyHands, Threads
    <3>5. Still
      BY <1>0, <2>1, <2>2, <3>2 DEF Still, Hand, Fetched
    <3> QED
      BY <3>3, <3>4, <3>5 DEF SideInv
  <2>3. CASE pc[App] = "wfull"
    <3>1. PICK l : pc' = [pc EXCEPT ![App] = l] /\ l \in {"wreset", "write"} /\ info' = info
      BY <1>6, <2>3 DEF write_limit
    <3> QED
      BY <1>b, <2>1, <2>3, <3>1, AppWalks DEF WriteLabels
  <2> QED
    BY <1>6, <2>2, <2>3 DEF write_limit
<1>7. CASE write_reset(App)
  <2>1. /\ pc' = [pc EXCEPT ![App] = "wnotify"] /\ pc[App] = "wreset"
        /\ UNCHANGED <<info, queue, history, Qmonitor>>
    BY <1>7 DEF write_reset
  <2> QED
    BY <1>b, <2>1, AppWalks DEF WriteLabels
<1>8. CASE writ_fail_Qmonitor(App)
  <2>1. PICK q : Qmonitor' = Offer(FailNotice(q))
    BY <1>8 DEF writ_fail_Qmonitor
  <2>2. NoDecNotice'
    <3>1. FailNotice(q) \in Notices /\ FailNotice(q).ID50 = "INC"
      BY DEF FailNotice, Notices
    <3> QED
      BY <1>1, <2>1, <3>1, OfferIncNotice
  <2>3. UNCHANGED <<info, queue, history>>
    BY <1>0, <1>8 DEF writ_fail_Qmonitor, history
  <2>4. CASE pc[App] = "rnotify"
    <3>1. pc' = [pc EXCEPT ![App] = "read"] /\ info[App] = None
      BY <1>1, <1>8, <2>4 DEF writ_fail_Qmonitor, WriteLabels
    <3> QED
      BY <2>2, <2>3, <3>1, AppWalks
  <2>5. CASE pc[App] = "wnotify"
    <3>1. pc' = [pc EXCEPT ![App] = "write"]
      BY <1>0, <1>8, <2>5 DEF writ_fail_Qmonitor
    <3> QED
      BY <2>2, <2>3, <2>5, <3>1, AppWalks DEF WriteLabels
  <2> QED
    BY <1>8, <2>4, <2>5 DEF writ_fail_Qmonitor
<1>9. CASE return_result
  <2>1. /\ pc[App] = "got" /\ finished' = finished \cup {info[App]}
        /\ info' = [info EXCEPT ![App] = None] /\ pc' = [pc EXCEPT ![App] = "idle"]
        /\ UNCHANGED <<queue, RFcount, WFcount, Qmonitor, submitted, dropped>>
    BY <1>9 DEF return_result
  <2>2. info[App] \in Jobs
    <3>1. info[App] # None
      BY <1>0, <2>1 DEF PoolInv, Held
    <3> QED
      BY <1>0, <3>1, Types
  <2>3. /\ \A v \in Threads \ {App} : pc'[v] = pc[v] /\ info'[v] = info[v]
        /\ pc'[App] = "idle" /\ info'[App] = None
    BY <1>0, <2>1, Types
  <2>4. NoPill'
    BY <1>0, <2>1, <2>3, ItemAssumption DEF SideInv, NoPill, NoDecNotice, Item
  <2>5. AppAlone' /\ EmptyHands'
    BY <1>0, <2>3 DEF SideInv, AppAlone, EmptyHands, Threads
  <2>6. Ends(App)
    BY <1>0, <2>1, <2>2, <2>3 DEF Ends, Hand, OthersKeep, Fetched
  <2> QED
    BY <2>4, <2>5, <2>6 DEF SideInv
<1>10. CASE destroy_loop \/ destroy_free
  <2>1. PICK l : /\ pc' = [pc EXCEPT ![App] = l] /\ l \in {"dread", "dsleep", "gone"}
                 /\ pc[App] \in {"dloop", "dsleep"}
    BY <1>10 DEF destroy_loop, destroy_free
  <2>2. UNCHANGED <<info, queue, history, Qmonitor>>
    BY <1>10 DEF destroy_loop, destroy_free
  <2>3. info[App] = None
    BY <1>1, <2>1 DEF WriteLabels
  <2> QED
    BY <1>b, <2>1, <2>2, <2>3, AppWalks
<1>11. CASE destroy_read
  <2>1. /\ pc' = [pc EXCEPT ![App] = "dloop"] /\ pc[App] = "dread"
        /\ Qmonitor # <<>> /\ Qmonitor' = Tail(Qmonitor)
        /\ UNCHANGED <<info, queue, history>>
    BY <1>11 DEF destroy_read
  <2>2. info[App] = None /\ NoDecNotice'
    BY <1>1, <2>1, TailIncNotice DEF WriteLabels
  <2> QED
    BY <2>1, <2>2, AppWalks
<1> QED
  BY <1>2, <1>3, <1>4, <1>5, <1>6, <1>7, <1>8, <1>9, <1>10, <1>11 DEF AppInCall, QueueStep

\* The application starts a call.
LEMMA AppCallMoves ==
  ASSUME NeverDec', PoolInv, SideInv, AppCalls
  PROVE  SideInv' /\ (Still \/ \E job \in Jobs : Begins(job))
<1>0. /\ App # Monitor /\ App \in Threads /\ Monitor \in Threads /\ App \notin Workers
      /\ Monitor \notin Workers
  BY ThreadAssumption DEF Threads
<1>1. /\ NoDecNotice /\ AppAlone
      /\ pc[App] = "idle" => info[App] = None
  BY DEF SideInv, NoPill, EmptyHands, WriteLabels
<1>2. ASSUME NEW job \in Jobs, writeThread_job(job) PROVE SideInv' /\ Begins(job)
  <2>1. /\ pc[App] = "idle" /\ job \notin submitted /\ submitted' = submitted \cup {job}
        /\ info' = [info EXCEPT ![App] = job] /\ pc' = [pc EXCEPT ![App] = "write"]
        /\ UNCHANGED <<queue, RFcount, WFcount, Qmonitor, finished, dropped>>
    BY <1>2 DEF writeThread_job
  <2>2. /\ \A v \in Threads \ {App} : pc'[v] = pc[v] /\ info'[v] = info[v]
        /\ pc'[App] = "write" /\ info'[App] = job
    BY <1>0, <2>1, Types
  <2>3. NoPill'
    BY <1>0, <2>1, <2>2, ItemAssumption DEF SideInv, NoPill, NoDecNotice
  <2>4. AppAlone' /\ EmptyHands'
    BY <1>0, <2>2 DEF SideInv, AppAlone, EmptyHands, Threads, WriteLabels
  <2>5. Begins(job)
    BY <1>0, <1>1, <2>1, <2>2 DEF Begins, Hand, OthersKeep, Fetched
  <2> QED
    BY <2>3, <2>4, <2>5 DEF SideInv
<1>3. CASE readThread_ret \/ myqueuedestroy
  <2>1. PICK l : /\ pc' = [pc EXCEPT ![App] = l] /\ l \in {"read", "dloop"}
                 /\ pc[App] = "idle"
                 /\ UNCHANGED <<info, queue, history, Qmonitor>>
    BY <1>3 DEF readThread_ret, myqueuedestroy
  <2>2. NoDecNotice'
    BY <1>1, <2>1 DEF NoDecNotice
  <2> QED
    BY <1>1, <2>1, <2>2, AppWalks
<1>4. ASSUME NEW op \in Updates, UpdateThreads(op) PROVE SideInv' /\ Still
  <2>1. /\ Qmonitor' = Offer(UpdateNotice(op)) /\ op = "INC"
        /\ UNCHANGED <<pc, info, queue, RFcount, WFcount, history>>
    <3>1. updates' # 0
      BY <1>4 DEF UpdateThreads, PoolInv, TypeOK, PoolOK
    <3> QED
      BY <1>4, <3>1, UpdatesAssumption DEF UpdateThreads, NeverDec
  <2>2. UpdateNotice(op) \in Notices /\ UpdateNotice(op).ID50 = "INC"
    BY <2>1 DEF UpdateNotice, Notices
  <2>3. NoDecNotice'
    BY <1>1, <2>1, <2>2, OfferIncNotice
  <2>4. SideInv'
    BY <2>1, <2>3 DEF SideInv, NoPill, AppAlone, EmptyHands
  <2> QED
    BY <2>1, <2>4 DEF Still, Hand, Fetched
<1> QED
  BY <1>2, <1>3, <1>4 DEF AppCalls

\* Every step of the pool moves at most one job, from one place to the next.
LEMMA StepMoves ==
  ASSUME NeverDec', PoolInv, SideInv, [Next]_vars
  PROVE  SideInv' /\ Moves
<1>1. CASE \E w \in Workers : WorkThreads(w)
  BY <1>1, WorkerMoves DEF Moves
<1>2. CASE WorkMonitor
  BY <1>2, MonitorMoves DEF Moves
<1>3. CASE AppInCall
  BY <1>3, AppMoves DEF Moves
<1>4. CASE AppCalls
  BY <1>4, AppCallMoves DEF Moves
<1>5. CASE LostResets
  BY <1>5, LostResetMoves DEF LostResets, Moves
<1>6. CASE Clock \/ UNCHANGED vars
  <2>1. UNCHANGED <<pc, info, queue, RFcount, WFcount, Qmonitor, history>>
    BY <1>6 DEF Clock, inc_window_opens, dec_window_opens, vars, history
  <2>2. SideInv'
    BY <2>1 DEF SideInv, NoPill, NoDecNotice, AppAlone, EmptyHands
  <2>3. Still
    BY <2>1 DEF Still, Hand, Fetched
  <2> QED
    BY <2>2, <2>3 DEF Moves
<1> QED
  BY <1>1, <1>2, <1>3, <1>4, <1>5, <1>6 DEF Next

\* The pool starts without a job.
LEMMA InitDivided == Init => SideInv /\ Divided
<1> SUFFICES ASSUME Init PROVE SideInv /\ Divided
  OBVIOUS
<1>1. /\ pc[Monitor] = "test" /\ pc[App] = "idle"
      /\ \A t \in Threads : info[t] = None
      /\ App \in Threads /\ Monitor \in Threads /\ Workers \subseteq Threads
  BY ThreadAssumption DEF Init, Threads
<1>2. /\ queue["Qwrite"] = <<>> /\ queue["Qread"] = <<>> /\ Qmonitor = <<>>
      /\ submitted = {} /\ finished = {} /\ dropped = {}
  BY DEF Init, QNames
<1>3. SideInv
  BY <1>1, <1>2, ItemAssumption
  DEF SideInv, NoPill, NoDecNotice, AppAlone, EmptyHands, WriteLabels, Item
<1>4. /\ Waiting = {} /\ Answered = {}
      /\ Distinct(queue["Qwrite"]) /\ Distinct(queue["Qread"])
  BY <1>2 DEF Waiting, Answered, Elems, Distinct
<1>5. \A t \in Threads : Hand(t) = None
  BY <1>1 DEF Hand
<1>6. InHands = {} /\ Once
  BY <1>5, ItemAssumption DEF InHands, Once, Item
<1> QED
  BY <1>2, <1>3, <1>4, <1>6 DEF Divided

\* Requests are never taken back.
LEMMA NeverDecBefore ==
  ASSUME PoolInv, [Next]_vars, NeverDec'
  PROVE  NeverDec
<1>1. updates' = updates \/ updates' = updates + 1
  BY DEF Next, vars, poolvars, WorkThreads, QueueStep, WorkMonitor, AppInCall, AppCalls,
         LostResets, Clock, read_queue, read_limit, read_reset, write_queue, write_limit,
         write_reset, writ_fail_Qmonitor, worker_test, run_job, take_pill, auto_min,
         auto_window, dec_workthread_end, auto_stamp, post_exit, monitor_test,
         monitor_read, inc_workthread, create_worker, create_fails, inc_workthread_end,
         dec_workthread, return_result, destroy_loop, destroy_read, destroy_free,
         writeThread_job, readThread_ret, UpdateThreads, myqueuedestroy,
         read_reset_lost, write_reset_lost, inc_window_opens, dec_window_opens
<1> QED
  BY <1>1 DEF NeverDec, PoolInv, TypeOK, PoolOK

\* QuietInv is an inductive invariant of the pool ...
THEOREM QuietInvariant == Spec => []QuietInv
<1>1. Init => QuietInv
  BY InitHolds, InitDivided DEF QuietInv, JobInv
<1>2. PoolInv' /\ QuietInv /\ [Next]_vars => QuietInv'
  BY NeverDecBefore, StepMoves, MovesKeepDivided DEF QuietInv, JobInv
<1> QED
  BY <1>1, <1>2, PoolInvariant, PTL DEF Spec

\* ... and gives JobInv to a pool that nobody ever asks to shrink.
THEOREM JobInvariant ==
  ASSUME "DEC" \notin Updates
  PROVE  Spec => []JobInv
<1>1. QuietInv => JobInv
  BY DEF QuietInv, NeverDec
<1> QED
  BY <1>1, QuietInvariant, PTL

-----------------------------------------------------------------------------
(* A divided pool has every job once.                                      *)

\* The places of a job in the queues, and the threads that have it.
Slots(job) == {p \in QNames \X (1 .. queuelen) :
                 p[2] <= Len(queue[p[1]]) /\ queue[p[1]][p[2]] = job}
Holders(job) == {t \in Threads : info[t] = job /\ pc[t] # "wdone"}

\* A set with at most one element.
LEMMA AtMostOne ==
  ASSUME NEW S, \A x, y \in S : x = y
  PROVE  Cardinality(S) = IF S = {} THEN 0 ELSE 1
<1>1. CASE S = {}
  BY <1>1, FS_EmptySet
<1>2. CASE S # {}
  <2>1. PICK x \in S : TRUE
    BY <1>2
  <2>2. S = {x}
    BY <2>1
  <2> QED
    BY <1>2, <2>2, FS_Singleton
<1> QED
  BY <1>1, <1>2

LEMMA OneSlot ==
  ASSUME JobInv, NEW job \in Jobs
  PROVE  Cardinality(Slots(job)) = IF job \in Waiting \cup Answered THEN 1 ELSE 0
<1>1. /\ queue["Qread"] \in Seq(Jobs) /\ queue["Qwrite"] \in Seq(Jobs)
      /\ Len(queue["Qread"]) \in Nat /\ Len(queue["Qwrite"]) \in Nat
      /\ Len(queue["Qread"]) <= queuelen /\ Len(queue["Qwrite"]) <= queuelen
  BY Types DEF JobInv, PoolInv, TypeOK, QueuesOK, QNames
<1>2. /\ \A k, l \in 1 .. Len(queue["Qread"]) :
           queue["Qread"][k] = queue["Qread"][l] => k = l
      /\ \A k, l \in 1 .. Len(queue["Qwrite"]) :
           queue["Qwrite"][k] = queue["Qwrite"][l] => k = l
      /\ \A k \in 1 .. Len(queue["Qwrite"]), l \in 1 .. Len(queue["Qread"]) :
           queue["Qwrite"][k] # queue["Qread"][l]
  BY DEF JobInv, Divided, Distinct, Waiting, Answered, Elems
<1>3. \A p \in Slots(job) :
        /\ p = <<p[1], p[2]>>
        /\ p[1] \in QNames /\ p[2] \in 1 .. Len(queue[p[1]])
        /\ queue[p[1]][p[2]] = job
  BY <1>1 DEF Slots, QNames
<1>4. \A p, r \in Slots(job) : p = r
  <2> SUFFICES ASSUME NEW p \in Slots(job), NEW r \in Slots(job) PROVE p = r
    OBVIOUS
  <2>1. p[1] = r[1]
    BY <1>2, <1>3 DEF QNames
  <2>2. p[2] = r[2]
    BY <1>2, <1>3, <2>1 DEF QNames
  <2> QED
    BY <1>3, <2>1, <2>2
<1>5. Slots(job) # {} <=> job \in Waiting \cup Answered
  <2>1. ASSUME Slots(job) # {} PROVE job \in Waiting \cup Answered
    BY <1>3, <2>1 DEF QNames, Waiting, Answered, Elems
  <2>2. ASSUME job \in Waiting PROVE Slots(job) # {}
    <3>1. PICK k \in 1 .. Len(queue["Qwrite"]) : queue["Qwrite"][k] = job
      BY <2>2 DEF Waiting, Elems
    <3>2. <<"Qwrite", k>> \in Slots(job)
      BY <1>1, <3>1, CountAssumption DEF Slots, QNames
    <3> QED
      BY <3>2
  <2>3. ASSUME job \in Answered PROVE Slots(job) # {}
    <3>1. PICK k \in 1 .. Len(queue["Qread"]) : queue["Qread"][k] = job
      BY <2>3 DEF Answered, Elems
    <3>2. <<"Qread", k>> \in Slots(job)
      BY <1>1, <3>1, CountAssumption DEF Slots, QNames
    <3> QED
      BY <3>2
  <2> QED
    BY <2>1, <2>2, <2>3
<1> QED
  BY <1>4, <1>5, AtMostOne

LEMMA OneHolder ==
  ASSUME JobInv, NEW job \in Jobs
  PROVE  Cardinality(Holders(job)) = IF job \in InHands THEN 1 ELSE 0
<1>1. Holders(job) = {t \in Threads : Hand(t) = job}
  BY ItemAssumption DEF Holders, Hand, Item
<1>2. \A t, u \in Holders(job) : t = u
  BY <1>1 DEF JobInv, Divided, Once
<1>3. Holders(job) # {} <=> job \in InHands
  BY <1>1 DEF InHands
<1> QED
  BY <1>2, <1>3, AtMostOne

\* In a pool that nobody asks to shrink, a submitted job exists exactly once
\* until it is returned or thrown away.
THEOREM JobsConserved ==
  ASSUME "DEC" \notin Updates
  PROVE  Spec => []JobConservation
<1>1. JobInv => JobConservation
  <2> SUFFICES ASSUME JobInv, NEW job \in Jobs
               PROVE  Copies(job) = IF job \in submitted THEN 1 ELSE 0
    BY DEF JobConservation
  <2>1. Copies(job) = Cardinality(Slots(job)) + Cardinality(Holders(job))
                        + (IF job \in finished THEN 1 ELSE 0)
                        + (IF job \in dropped THEN 1 ELSE 0)
    BY DEF Copies, Slots, Holders
  <2>2. /\ submitted = Waiting \cup Answered \cup InHands \cup finished \cup dropped
        /\ Waiting \cap (Answered \cup InHands \cup finished \cup dropped) = {}
        /\ Answered \cap (InHands \cup finished \cup dropped) = {}
        /\ InHands \cap (finished \cup dropped) = {}
        /\ finished \cap dropped = {}
    BY DEF JobInv, Divided
  <2> QED
    BY <2>1, <2>2, OneSlot, OneHolder
<1> QED
  BY <1>1, JobInvariant, PTL

-----------------------------------------------------------------------------
(* The pool implements JobPool.                                            *)

\* The refinement mapping in terms of Hand and Fetched.
Running == {Hand(w) : w \in Workers} \cap Jobs
Done    == finished \cup ({Fetched} \cap Jobs)

Mapped == /\ Heldby(Workers, WorkerLabels) = Running
          /\ finished \cup Heldby({App}, {"rtaken", "got"}) = Done

LEMMA Mapping == JobInv => Mapped
<1> SUFFICES ASSUME JobInv PROVE Mapped
  OBVIOUS
<1>1. \A w \in Workers : pc[w] \in WorkerLabels /\ info[w] = Hand(w)
  BY DEF JobInv, PoolInv, TypeOK, PcOK, SideInv, EmptyHands, Busy, Hand
<1>2. Heldby(Workers, WorkerLabels) = Running
  BY <1>1 DEF Heldby, Running
<1>3. Heldby({App}, {"rtaken", "got"}) = {Fetched} \cap Jobs
  BY ItemAssumption DEF Heldby, Fetched, Item
<1> QED
  BY <1>2, <1>3 DEF Done, Mapped

\* There is always a thread for the job that a worker is about to take.
LEMMA RunningRoom ==
  ASSUME JobInv, NEW w \in Workers, Hand(w) = None, pc[w] = "read"
  PROVE  Cardinality(Running) < TP_MAX_COUNT
<1> DEFINE S == {v \in Workers : Hand(v) \in Jobs}
           f == [v \in S |-> Hand(v)]
<1>1. S \subseteq Counted \ {w} /\ w \in Counted
  BY ItemAssumption DEF JobInv, SideInv, EmptyHands, Busy, Hand, Counted, Item
<1>2. /\ IsFiniteSet(Counted \ {w})
      /\ Cardinality(Counted \ {w}) = Cardinality(Counted) - 1
  BY <1>1, CountedFinite, FS_RemoveElement
<1>3. IsFiniteSet(S) /\ Cardinality(S) <= Cardinality(Counted) - 1
  BY <1>1, <1>2, FS_Subset
<1>4. f \in Surjection(S, Running)
  BY DEF Surjection, Running
<1>5. Cardinality(Running) <= Cardinality(S) /\ IsFiniteSet(Running)
  BY <1>3, <1>4, FS_Surjection
<1>6. Cardinality(Counted) <= TP_MAX_COUNT
  <2>1. /\ ThreadLen \in Int /\ ThreadLen <= TP_MAX_COUNT
        /\ pc[Monitor] = "incend" => ThreadLen < TP_MAX_COUNT
        /\ ThreadLen + (IF pc[Monitor] = "incend" THEN 1 ELSE 0) = Cardinality(Counted)
    BY CountAssumption DEF JobInv, PoolInv, TypeOK, PoolOK, IncRoom, ThreadLenCounts
  <2> QED
    BY <2>1, CountAssumption
<1>7. Cardinality(Running) \in Nat /\ Cardinality(S) \in Nat /\ Cardinality(Counted) \in Nat
  BY <1>3, <1>5, CountedFinite, FS_CardinalityType
<1> QED
  BY <1>3, <1>5, <1>6, <1>7, CountAssumption

\* A job leaves the hands of a worker.
LEMMA RunningLoses ==
  ASSUME Once, NEW w \in Workers, Hand(w) \in Jobs, Hand(w)' = None, OthersKeep(w)
  PROVE  Hand(w) \in Running /\ Running' = Running \ {Hand(w)}
<1>1. \A v \in Workers \ {w} : Hand(v)' = Hand(v) /\ (Hand(v) \in Jobs => Hand(v) # Hand(w))
  BY DEF OthersKeep, Once, Threads
<1> QED
  BY <1>1, ItemAssumption DEF Running, Item

\* The application acts: no worker's hands change.
LEMMA RunningKeeps ==
  ASSUME OthersKeep(App)
  PROVE  Running' = Running
<1>1. \A v \in Workers : Hand(v)' = Hand(v)
  BY ThreadAssumption DEF OthersKeep, Threads
<1> QED
  BY <1>1 DEF Running

\* JobPool counts as the pool does.
LEMMA SameCardinality == \A S : Abstract!Cardinality(S) = Cardinality(S)
BY DEF Cardinality, Abstract!Cardinality

\* A step of the pool is a step of JobPool or leaves its variables alone.
LEMMA MovesRefine ==
  ASSUME JobInv, Moves, Mapped, Mapped'
  PROVE  [Abstract!Next]_Abstract!vars
<1> USE DEF Mapped
<1>0. /\ queue["Qwrite"] \in Seq(Jobs) /\ queue["Qread"] \in Seq(Jobs)
      /\ queue \in [QNames -> Seq(Item)]
      /\ Once
  BY Types DEF JobInv, Divided
<1>1. CASE Still
  <2>1. Running' = Running
    BY <1>1 DEF Still, Running, Threads
  <2>2. queue' = queue /\ dropped' = dropped /\ Done' = Done
    BY <1>1 DEF Still, history, Done
  <2> QED
    BY <2>1, <2>2 DEF Abstract!vars
<1>2. ASSUME NEW w \in Workers, Takes(w) PROVE Abstract!Next
  <2> DEFINE x == Head(queue["Qwrite"])
  <2>1. /\ pc[w] = "read" /\ queue["Qwrite"] # <<>> /\ Hand(w) = None /\ Hand(w)' = x
        /\ OthersKeep(w)
        /\ queue' = [queue EXCEPT !["Qwrite"] = Tail(queue["Qwrite"])]
        /\ finished' = finished /\ dropped' = dropped /\ Fetched' = Fetched
    BY <1>2, ThreadAssumption DEF Takes, ReadsFrom, history
  <2>2. queue'["Qwrite"] = Tail(queue["Qwrite"]) /\ queue'["Qread"] = queue["Qread"]
    BY <1>0, <2>1 DEF QNames
  <2>3. x \in Jobs
    BY <1>0, <2>1, TailOK
  <2>4. Running' = Running \cup {x}
    <3>1. \A v \in Workers \ {w} : Hand(v)' = Hand(v)
      BY <2>1 DEF OthersKeep, Threads
    <3> QED
      BY <2>1, <2>3, <3>1, ItemAssumption DEF Running, Item
  <2>5. Done' = Done
    BY <2>1 DEF Done
  <2>6. Cardinality(Running) < TP_MAX_COUNT
    BY <2>1, RunningRoom
  <2>7. Abstract!Cardinality(Heldby(Workers, WorkerLabels)) < TP_MAX_COUNT
    BY <2>6, SameCardinality
  <2>8. Abstract!Start
    BY <2>1, <2>2, <2>4, <2>5, <2>7 DEF Abstract!Start
  <2> QED
    BY <2>8 DEF Abstract!Next
<1>3. ASSUME NEW w \in Workers, Puts(w) PROVE Abstract!Next
  <2>1. /\ Len(queue["Qread"]) < queuelen /\ Hand(w) \in Jobs /\ Hand(w)' = None
        /\ OthersKeep(w)
        /\ queue' = [queue EXCEPT !["Qread"] = Append(queue["Qread"], Hand(w))]
        /\ finished' = finished /\ dropped' = dropped /\ Fetched' = Fetched
    BY <1>3 DEF Puts, WritesTo, history
  <2>2. /\ queue'["Qread"] = Append(queue["Qread"], Hand(w))
        /\ queue'["Qwrite"] = queue["Qwrite"]
    BY <1>0, <2>1 DEF QNames
  <2>3. Hand(w) \in Running /\ Running' = Running \ {Hand(w)}
    BY <1>0, <2>1, RunningLoses
  <2>4. Done' = Done
    BY <2>1 DEF Done
  <2>5. Abstract!Answer(Hand(w))
    BY <2>1, <2>2, <2>3, <2>4 DEF Abstract!Answer
  <2> QED
    BY <2>1, <2>5 DEF Abstract!Next
<1>4. ASSUME NEW w \in Workers, Drops(w) PROVE Abstract!Next
  <2>1. /\ Hand(w) \in Jobs /\ Hand(w)' = None /\ OthersKeep(w)
        /\ queue' = queue /\ finished' = finished /\ Fetched' = Fetched
        /\ dropped' = dropped \cup {Hand(w)}
    BY <1>4 DEF Drops
  <2>2. Hand(w) \in Running /\ Running' = Running \ {Hand(w)}
    BY <1>0, <2>1, RunningLoses
  <2>3. Done' = Done
    BY <2>1 DEF Done
  <2>4. Abstract!Lose(Hand(w))
    BY <2>1, <2>2, <2>3 DEF Abstract!Lose
  <2> QED
    BY <2>1, <2>4 DEF Abstract!Next
<1>5. ASSUME NEW w \in Workers, Ends(w) PROVE Abstract!Next
  <2>1. /\ Hand(w) \in Jobs /\ Hand(w)' = None /\ OthersKeep(w)
        /\ queue' = queue /\ dropped' = dropped /\ Fetched' = Fetched
        /\ finished' = finished \cup {Hand(w)}
    BY <1>5, ThreadAssumption DEF Ends
  <2>2. Hand(w) \in Running /\ Running' = Running \ {Hand(w)}
    BY <1>0, <2>1, RunningLoses
  <2>3. Done' = Done \cup {Hand(w)}
    BY <2>1 DEF Done
  <2>4. Abstract!Finish(Hand(w))
    BY <2>1, <2>2, <2>3 DEF Abstract!Finish
  <2> QED
    BY <2>1, <2>4 DEF Abstract!Next
<1>6. CASE Takes(App)
  <2> DEFINE x == Head(queue["Qread"])
  <2>1. /\ queue["Qread"] # <<>> /\ OthersKeep(App)
        /\ queue' = [queue EXCEPT !["Qread"] = Tail(queue["Qread"])]
        /\ finished' = finished /\ dropped' = dropped
        /\ Fetched = None /\ Fetched' = x
    BY <1>6 DEF Takes, ReadsFrom, history
  <2>2. queue'["Qread"] = Tail(queue["Qread"]) /\ queue'["Qwrite"] = queue["Qwrite"]
    BY <1>0, <2>1 DEF QNames
  <2>3. x \in Jobs
    BY <1>0, <2>1, TailOK
  <2>4. Done' = Done \cup {x}
    BY <2>1, <2>3, ItemAssumption DEF Done, Item
  <2>5. Abstract!Fetch
    BY <2>1, <2>2, <2>4, RunningKeeps DEF Abstract!Fetch
  <2> QED
    BY <2>5 DEF Abstract!Next
<1>7. CASE Puts(App)
  <2> DEFINE x == Hand(App)
  <2>1. /\ Len(queue["Qwrite"]) < queuelen /\ x \in Jobs /\ OthersKeep(App)
        /\ queue' = [queue EXCEPT !["Qwrite"] = Append(queue["Qwrite"], x)]
        /\ finished' = finished /\ dropped' = dropped
        /\ Fetched' = Fetched /\ Hand(App)' = None
    BY <1>7, ThreadAssumption DEF Puts, WritesTo, history
  <2>2. /\ queue'["Qwrite"] = Append(queue["Qwrite"], x)
        /\ queue'["Qread"] = queue["Qread"]
    BY <1>0, <2>1 DEF QNames
  <2>3. Done' = Done
    BY <2>1 DEF Done
  <2>4. x \in InHands
    BY <2>1 DEF InHands, Threads
  <2>5. x \notin Waiting \cup Answered \cup finished \cup dropped
    BY <2>4 DEF JobInv, Divided
  <2>6. x \notin Running
    <3>1. \A v \in Workers : Hand(v) # x
      BY <1>0, <2>1, ThreadAssumption DEF Once, Threads
    <3> QED
      BY <3>1 DEF Running
  <2>7. Fetched # x
    BY <1>7, <2>1, ItemAssumption DEF Puts, Item
  <2>8. x \notin Abstract!Known
    <3>1. /\ DOMAIN queue["Qwrite"] = 1 .. Len(queue["Qwrite"])
          /\ DOMAIN queue["Qread"] = 1 .. Len(queue["Qread"])
      BY <1>0
    <3>2. /\ x \notin {queue["Qwrite"][i] : i \in DOMAIN queue["Qwrite"]}
          /\ x \notin {queue["Qread"][i] : i \in DOMAIN queue["Qread"]}
      BY <2>5, <3>1 DEF Waiting, Answered, Elems
    <3>3. x \notin Done /\ x \notin Heldby(Workers, WorkerLabels)
      BY <2>5, <2>6, <2>7 DEF Done
    <3> HIDE DEF x
    <3> QED
      BY <2>5, <3>2, <3>3 DEF Abstract!Known
  <2>9. Abstract!Submit(x)
    BY <2>1, <2>2, <2>3, <2>8, RunningKeeps DEF Abstract!Submit
  <2> QED
    BY <2>1, <2>9 DEF Abstract!Next
<1>8. CASE Ends(App)
  <2>1. /\ OthersKeep(App) /\ queue' = queue /\ dropped' = dropped
        /\ finished' = finished \cup {Hand(App)} /\ Hand(App) \in Jobs
        /\ Fetched = Hand(App) /\ Fetched' = None
    BY <1>8 DEF Ends
  <2>2. Done' = Done
    BY <2>1, ItemAssumption DEF Done, Item
  <2> QED
    BY <2>1, <2>2, RunningKeeps DEF Abstract!vars
<1>9. ASSUME NEW job \in Jobs, Begins(job) PROVE UNCHANGED Abstract!vars
  <2>1. /\ OthersKeep(App) /\ queue' = queue /\ dropped' = dropped
        /\ finished' = finished /\ Fetched' = Fetched
    BY <1>9 DEF Begins
  <2>2. Done' = Done
    BY <2>1 DEF Done
  <2> QED
    BY <2>1, <2>2, RunningKeeps DEF Abstract!vars
<1> QED
  BY <1>1, <1>2, <1>3, <1>4, <1>5, <1>6, <1>7, <1>8, <1>9 DEF Moves

\* The pool implements JobPool: jobs start in the order of writeThread_job, at
\* most TP_MAX_COUNT at a time, and come back at most once each.
THEOREM PoolImplementsJobPool ==
  ASSUME "DEC" \notin Updates
  PROVE  Spec => ImplementsJobPool
<1>1. Init => Abstract!Init
  <2> SUFFICES ASSUME Init PROVE Abstract!Init
    OBVIOUS
  <2>1. queue["Qwrite"] = <<>> /\ queue["Qread"] = <<>> /\ dropped = {} /\ finished = {}
    BY DEF Init, QNames
  <2>2. \A t \in Threads : info[t] \notin Jobs
    BY ItemAssumption DEF Init, Item
  <2>3. Heldby(Workers, WorkerLabels) = {} /\ Heldby({App}, {"rtaken", "got"}) = {}
    BY <2>2 DEF Heldby, Threads
  <2> QED
    BY <2>1, <2>3 DEF Abstract!Init
<1>2. JobInv /\ JobInv' /\ [Next]_vars => [Abstract!Next]_Abstract!vars
  <2>1. JobInv' => Mapped'
    BY Mapping, PTL
  <2> QED
    BY <2>1, Mapping, StepMoves, MovesRefine DEF JobInv, NeverDec
<1> QED
  BY <1>1, <1>2, JobInvariant, PTL DEF Spec, ImplementsJobPool, Abstract!Spec

-----------------------------------------------------------------------------
(* DestroyAfterExit: the notices that myqueuedestroy counts, those still   *)
(* in Qmonitor and the one the monitor may have taken stand for different  *)
(* workers that have gone.                                                 *)

Exited == {w \in Workers : pc[w] = "exited"}

\* Without results to write and with room for every job, no thread has a reason
\* to post a failure notice.
NoFailure ==
  /\ \A w \in Workers : pc[w] \notin WriteLabels
  /\ pc[App] \notin ReadLabels \cup {"rnotify", "wfull", "wreset", "wnotify"}

\* Whether the monitor has taken a notice and still acts on it.
Taken == IF pc[Monitor] \in {"inc", "create", "incend"} THEN 1 ELSE 0

\* No two notices stand for the same worker.
NoticesCount == exits + Len(Qmonitor) + Taken <= Cardinality(Exited)

\* Once the loop of myqueuedestroy has ended, the workers that are left have
\* exited and nobody can start one.
AllGone ==
  pc[App] \in {"dsleep", "gone"} =>
    /\ Counted \subseteq Exited
    /\ Qmonitor = <<>>
    /\ pc[Monitor] \notin {"inc", "create"}

\* The inductive invariant, next to QuietInv.
ExitInv == /\ IsFiniteSet(submitted)
           /\ OnlyExitNotices => NoFailure /\ NoticesCount /\ AllGone

-----------------------------------------------------------------------------

USE DEF Goto

\* What the lemmas on steps assume: the invariant, and a pool that has only exit
\* notices before and after the step.
Quiet == QuietInv /\ ExitInv /\ OnlyExitNotices

LEMMA QuietFacts ==
  ASSUME Quiet
  PROVE  /\ PoolInv /\ SideInv /\ Divided /\ JobInv
         /\ NoFailure /\ NoticesCount /\ AllGone
         /\ ~QREAD /\ IsFiniteSet(submitted) /\ Cardinality(submitted) <= queuelen
         /\ Qmonitor \in Seq(Notices) /\ Len(Qmonitor) \in Nat /\ exits \in Nat
         /\ Taken \in {0, 1}
         /\ IsFiniteSet(Exited) /\ Cardinality(Exited) \in Nat
<1>1. JobInv /\ PoolInv /\ SideInv /\ Divided
  BY DEF Quiet, QuietInv, NeverDec, OnlyExitNotices, JobInv
<1>2. NoFailure /\ NoticesCount /\ AllGone
  BY DEF Quiet, ExitInv
<1>3. ~QREAD /\ IsFiniteSet(submitted) /\ Cardinality(submitted) <= queuelen
  BY DEF Quiet, ExitInv, OnlyExitNotices
<1>4. Qmonitor \in Seq(Notices) /\ Len(Qmonitor) \in Nat /\ exits \in Nat
  BY <1>1 DEF PoolInv, TypeOK, QueuesOK, PoolOK
<1>5. Exited \subseteq Workers
  BY DEF Exited
<1>6. IsFiniteSet(Exited) /\ Cardinality(Exited) \in Nat
  BY <1>5, ThreadAssumption, FS_Subset, FS_CardinalityType
<1> QED
  BY <1>1, <1>2, <1>3, <1>4, <1>6 DEF Taken

\* Where a worker goes, and what it does to Qmonitor.
LEMMA WorkerGoes ==
  ASSUME Quiet, NEW w \in Workers, WorkThreads(w)
  PROVE  \E l : /\ pc' = [pc EXCEPT ![w] = l]
                /\ pc[w] \notin {"unborn", "left", "exited"}
                /\ l \notin WriteLabels /\ (l \notin Gone => pc[w] \notin Gone)
                /\ \/ Qmonitor' = Qmonitor /\ l # "exited"
                   \/ /\ pc[w] = "post" /\ l = "exited"
                      /\ Qmonitor' = Append(Qmonitor, ExitNotice)
                /\ UNCHANGED <<exits, submitted>>
<1>0. /\ w # App /\ w \in Threads /\ pc[w] \notin WriteLabels /\ info[w] # Pill /\ ~QREAD
      /\ pc[w] # "rnotify"
  BY QuietFacts, ThreadAssumption
  DEF NoFailure, SideInv, NoPill, Threads, PoolInv, TypeOK, PcOK, WorkerLabels, ReadLabels
<1> USE DEF WriteLabels, Gone, history, poolvars
<1>1. CASE read_queue(w)
  BY <1>1 DEF read_queue
<1>2. CASE read_limit(w)
  BY <1>0, <1>2 DEF read_limit
<1>3. CASE read_reset(w)
  BY <1>0, <1>3 DEF read_reset, AfterFailRead
<1>4. CASE write_queue(w) \/ write_limit(w) \/ write_reset(w) \/ writ_fail_Qmonitor(w)
  BY <1>0, <1>4 DEF write_queue, write_limit, write_reset, writ_fail_Qmonitor
<1>5. CASE worker_test(w)
  BY <1>5 DEF worker_test
<1>6. CASE run_job(w)
  BY <1>0, <1>6 DEF run_job
<1>7. CASE take_pill(w)
  BY <1>0, <1>7 DEF take_pill
<1>8. CASE auto_min(w)
  BY <1>8 DEF auto_min
<1>9. CASE auto_window(w)
  BY <1>9 DEF auto_window
<1>10. CASE dec_workthread_end(w)
  BY <1>10 DEF dec_workthread_end
<1>11. CASE auto_stamp(w)
  BY <1>11 DEF auto_stamp
<1>12. CASE post_exit(w)
  BY <1>12 DEF post_exit
<1> QED
  BY <1>1, <1>2, <1>3, <1>4, <1>5, <1>6, <1>7, <1>8, <1>9, <1>10, <1>11, <1>12
  DEF WorkThreads, QueueStep

\* A worker's step keeps the account.
LEMMA WorkerQuiet ==
  ASSUME Quiet, NEW w \in Workers, WorkThreads(w)
  PROVE  /\ NoFailure' /\ NoticesCount' /\ AllGone'
         /\ submitted' = submitted
<1>0. /\ w # App /\ w # Monitor /\ w \in Threads /\ App \in Threads /\ Monitor \in Threads
      /\ pc \in [Threads -> WorkerLabels \cup AppLabels \cup MonitorLabels]
  BY QuietFacts, ThreadAssumption, Types DEF Threads
<1>1. PICK l : /\ pc' = [pc EXCEPT ![w] = l]
               /\ pc[w] \notin {"unborn", "left", "exited"}
               /\ l \notin WriteLabels /\ (l \notin Gone => pc[w] \notin Gone)
               /\ \/ Qmonitor' = Qmonitor /\ l # "exited"
                  \/ /\ pc[w] = "post" /\ l = "exited"
                     /\ Qmonitor' = Append(Qmonitor, ExitNotice)
               /\ UNCHANGED <<exits, submitted>>
  BY WorkerGoes
<1>2. pc'[w] = l /\ \A v \in Threads \ {w} : pc'[v] = pc[v]
  BY <1>0, <1>1
<1>3. NoFailure'
  BY <1>0, <1>1, <1>2, QuietFacts DEF NoFailure, Threads
<1>4. Taken' = Taken
  BY <1>0, <1>2 DEF Taken
<1>5. CASE Qmonitor' = Qmonitor /\ l # "exited"
  <2>1. Exited' = Exited
    BY <1>1, <1>2, <1>5 DEF Exited, Threads
  <2>2. NoticesCount'
    BY <1>1, <1>4, <1>5, <2>1, QuietFacts DEF NoticesCount
  <2>3. Counted' \subseteq Counted
    BY <1>1, <1>2 DEF Counted, Gone, Threads
  <2>4. AllGone'
    BY <1>0, <1>2, <1>5, <2>1, <2>3, QuietFacts DEF AllGone
  <2> QED
    BY <1>1, <1>3, <2>2, <2>4
<1>6. CASE /\ pc[w] = "post" /\ l = "exited"
           /\ Qmonitor' = Append(Qmonitor, ExitNotice)
  <2>1. Exited' = Exited \cup {w} /\ w \notin Exited
    BY <1>2, <1>6 DEF Exited, Threads
  <2>2. Cardinality(Exited') = Cardinality(Exited) + 1
    BY <2>1, QuietFacts, FS_AddElement
  <2>3. Len(Qmonitor') = Len(Qmonitor) + 1
    <3>1. ExitNotice \in Notices
      BY DEF ExitNotice, Notices
    <3> QED
      BY <1>6, <3>1, QuietFacts, AppendOK
  <2>4. NoticesCount'
    BY <1>1, <1>4, <2>2, <2>3, QuietFacts DEF NoticesCount
  <2>5. pc[App] \notin {"dsleep", "gone"}
    BY <1>6, <2>1, QuietFacts DEF AllGone, Counted
  <2>6. AllGone'
    BY <1>0, <1>2, <2>5 DEF AllGone
  <2> QED
    BY <1>1, <1>3, <2>4, <2>6
<1> QED
  BY <1>1, <1>5, <1>6

\* The monitor takes notices out; what it does with one is not a notice.
LEMMA MonitorQuiet ==
  ASSUME Quiet, WorkMonitor
  PROVE  /\ NoFailure' /\ NoticesCount' /\ AllGone'
         /\ submitted' = submitted
<1>0. /\ App # Monitor /\ App \in Threads /\ Monitor \in Threads /\ Monitor \notin Workers
      /\ App \notin Workers
      /\ pc \in [Threads -> WorkerLabels \cup AppLabels \cup MonitorLabels]
  BY QuietFacts, ThreadAssumption, Types DEF Threads
<1>1. pc[Monitor] \in {"test", "mread", "mstop", "inc", "create", "incend"}
  BY QuietFacts DEF SideInv, NoPill, PoolInv, TypeOK, PcOK, MonitorLabels, WriteLabels
<1>2. ~QueueStep(Monitor) /\ ~dec_workthread
  BY <1>1
  DEF QueueStep, read_queue, read_limit, read_reset, write_queue, write_limit,
      write_reset, writ_fail_Qmonitor, dec_workthread
<1>3. ASSUME NEW l, pc' = [pc EXCEPT ![Monitor] = l],
             UNCHANGED <<exits, submitted>>,
             Len(Qmonitor') \in Nat, Len(Qmonitor') + Taken' <= Len(Qmonitor) + Taken,
             pc[App] \in {"dsleep", "gone"} => Qmonitor' = <<>> /\ l \notin {"inc", "create"}
      PROVE  NoFailure' /\ NoticesCount' /\ AllGone' /\ submitted' = submitted
  <2>1. pc'[Monitor] = l /\ \A v \in Threads \ {Monitor} : pc'[v] = pc[v]
    BY <1>0, <1>3
  <2>2. NoFailure'
    BY <1>0, <2>1, QuietFacts DEF NoFailure, Threads
  <2>3. Exited' = Exited /\ Counted' = Counted
    BY <1>0, <2>1 DEF Exited, Counted, Threads
  <2>4. NoticesCount'
    <3>1. Taken' \in {0, 1}
      BY DEF Taken
    <3> QED
      BY <1>3, <2>3, <3>1, QuietFacts DEF NoticesCount
  <2>5. AllGone'
    BY <1>0, <1>3, <2>1, <2>3, QuietFacts DEF AllGone
  <2> QED
    BY <1>3, <2>2, <2>4, <2>5
\* The monitor is, or comes, where it has no notice in its hands.
<1>11. ASSUME NEW l, pc' = [pc EXCEPT ![Monitor] = l], l \notin {"inc", "create", "incend"},
              UNCHANGED <<exits, submitted, Qmonitor>>
       PROVE  NoFailure' /\ NoticesCount' /\ AllGone' /\ submitted' = submitted
  <2>1. pc'[Monitor] = l
    BY <1>0, <1>11
  <2>2. Taken' = 0
    BY <1>11, <2>1 DEF Taken
  <2>3. Len(Qmonitor') \in Nat /\ Len(Qmonitor') + Taken' <= Len(Qmonitor) + Taken
    BY <1>11, <2>2, QuietFacts
  <2>4. pc[App] \in {"dsleep", "gone"} => Qmonitor' = <<>> /\ l \notin {"inc", "create"}
    BY <1>11, QuietFacts DEF AllGone
  <2> QED
    BY <1>3, <1>11, <2>3, <2>4
<1> USE DEF poolvars, history
<1>4. CASE monitor_test
  <2>1. PICK l \in {"mread", "mstop"} : pc' = [pc EXCEPT ![Monitor] = l]
    BY <1>4 DEF monitor_test
  <2>2. UNCHANGED <<exits, submitted, Qmonitor>>
    BY <1>4 DEF monitor_test
  <2>3. l \notin {"inc", "create", "incend"}
    OBVIOUS
  <2> QED
    BY <1>11, <2>1, <2>2, <2>3
<1>5. CASE monitor_read
  <2>1. pc[Monitor] = "mread" /\ UNCHANGED <<exits, submitted>>
    BY <1>5 DEF monitor_read
  <2>2. CASE Qmonitor = <<>>
    <3>1. pc' = [pc EXCEPT ![Monitor] = "test"] /\ Qmonitor' = Qmonitor
      BY <1>5, <2>2 DEF monitor_read
    <3>2. "test" \notin {"inc", "create", "incend"}
      OBVIOUS
    <3> QED
      BY <1>11, <2>1, <3>1, <3>2
  <2>3. CASE Qmonitor # <<>>
    <3>1. PICK l : pc' = [pc EXCEPT ![Monitor] = l] /\ Qmonitor' = Tail(Qmonitor)
      BY <1>5, <2>3 DEF monitor_read
    <3>2. Len(Qmonitor') = Len(Qmonitor) - 1 /\ Len(Qmonitor) \in Nat /\ Len(Qmonitor) > 0
      BY <2>3, <3>1, QuietFacts, TailOK
    <3>3. pc[App] \notin {"dsleep", "gone"}
      BY <2>3, QuietFacts DEF AllGone
    <3>4. Taken' \in {0, 1} /\ Taken \in {0, 1}
      BY DEF Taken
    <3>5. Len(Qmonitor') \in Nat /\ Len(Qmonitor') + Taken' <= Len(Qmonitor) + Taken
      BY <3>2, <3>4
    <3> QED
      BY <1>3, <2>1, <3>1, <3>3, <3>5
  <2> QED
    BY <2>2, <2>3
<1>6. CASE inc_workthread \/ create_fails
  <2>1. PICK l : pc' = [pc EXCEPT ![Monitor] = l]
    BY <1>6 DEF inc_workthread, create_fails
  <2>2. pc[Monitor] \in {"inc", "create"} /\ UNCHANGED <<exits, submitted, Qmonitor>>
    BY <1>6 DEF inc_workthread, create_fails
  <2>3. pc[App] \notin {"dsleep", "gone"}
    BY <2>2, QuietFacts DEF AllGone
  <2>4. Taken' \in {0, 1} /\ Taken = 1
    BY <2>2 DEF Taken
  <2>5. Len(Qmonitor') \in Nat /\ Len(Qmonitor') + Taken' <= Len(Qmonitor) + Taken
    BY <2>2, <2>4, QuietFacts
  <2> QED
    BY <1>3, <2>1, <2>2, <2>3, <2>5
<1>7. CASE inc_workthread_end
  <2>1. /\ pc' = [pc EXCEPT ![Monitor] = "test"] /\ UNCHANGED <<exits, submitted, Qmonitor>>
    BY <1>7 DEF inc_workthread_end
  <2>2. "test" \notin {"inc", "create", "incend"}
    OBVIOUS
  <2> QED
    BY <1>11, <2>1, <2>2
<1>8. ASSUME NEW w \in Workers, create_worker(w)
      PROVE  NoFailure' /\ NoticesCount' /\ AllGone' /\ submitted' = submitted
  <2>1. /\ pc' = [pc EXCEPT ![Monitor] = "incend", ![w] = "test"]
        /\ pc[w] = "unborn" /\ pc[Monitor] = "create"
        /\ UNCHANGED <<exits, submitted, Qmonitor>>
    BY <1>8 DEF create_worker
  <2>2. /\ pc'[w] = "test" /\ pc'[Monitor] = "incend" /\ w \in Threads /\ w # App
        /\ \A v \in Threads \ {w, Monitor} : pc'[v] = pc[v]
    BY <1>0, <2>1, ThreadAssumption DEF Threads
  <2>3. NoFailure'
    BY <1>0, <2>2, QuietFacts DEF NoFailure, Threads, WriteLabels
  <2>4. Exited' = Exited
    BY <1>0, <2>1, <2>2 DEF Exited, Threads
  <2>5. Taken' = 1 /\ Taken = 1
    BY <2>1, <2>2 DEF Taken
  <2>6. NoticesCount'
    BY <2>1, <2>4, <2>5, QuietFacts DEF NoticesCount
  <2>7. AllGone'
    BY <1>0, <2>1, <2>2, QuietFacts DEF AllGone
  <2> QED
    BY <2>1, <2>3, <2>6, <2>7
<1> QED
  BY <1>2, <1>4, <1>5, <1>6, <1>7, <1>8 DEF WorkMonitor

-----------------------------------------------------------------------------
(* The application.                                                        *)

\* The application goes on and posts no notice; where the loop of
\* myqueuedestroy ends, AllGone has to be shown.
LEMMA AppGoes ==
  ASSUME Quiet, NEW l, pc' = [pc EXCEPT ![App] = l],
         l \notin ReadLabels \cup {"rnotify", "wfull", "wreset", "wnotify"},
         exits' \in Nat, Len(Qmonitor') \in Nat,
         exits' + Len(Qmonitor') <= exits + Len(Qmonitor),
         l \in {"dsleep", "gone"} =>
           /\ Counted \subseteq Exited
           /\ Qmonitor' = <<>>
           /\ pc[Monitor] \notin {"inc", "create"}
  PROVE  NoFailure' /\ NoticesCount' /\ AllGone'
<1>0. /\ App # Monitor /\ App \in Threads /\ Monitor \in Threads /\ App \notin Workers
      /\ pc \in [Threads -> WorkerLabels \cup AppLabels \cup MonitorLabels]
  BY QuietFacts, ThreadAssumption, Types DEF Threads
<1>1. pc'[App] = l /\ \A v \in Threads \ {App} : pc'[v] = pc[v]
  BY <1>0
<1>2. NoFailure'
  BY <1>0, <1>1, QuietFacts DEF NoFailure, Threads
<1>3. Exited' = Exited /\ Counted' = Counted /\ Taken' = Taken
  BY <1>0, <1>1 DEF Exited, Counted, Taken, Threads
<1>4. NoticesCount'
  BY <1>3, QuietFacts DEF NoticesCount
<1>5. AllGone'
  BY <1>0, <1>1, <1>3 DEF AllGone
<1> QED
  BY <1>2, <1>4, <1>5

\* The same, when only the application moves.
LEMMA AppGoesOn ==
  ASSUME Quiet, NEW l, pc' = [pc EXCEPT ![App] = l],
         l \notin ReadLabels \cup {"rnotify", "wfull", "wreset", "wnotify", "dsleep", "gone"},
         UNCHANGED <<exits, Qmonitor>>
  PROVE  NoFailure' /\ NoticesCount' /\ AllGone'
<1>1. /\ exits' \in Nat /\ Len(Qmonitor') \in Nat
      /\ exits' + Len(Qmonitor') <= exits + Len(Qmonitor)
  BY QuietFacts
<1> QED
  BY <1>1, AppGoes

\* The job in the application's hands has a place in Qwrite: the jobs waiting
\* there are other ones, and there are no more than queuelen in all.
LEMMA RoomForJob ==
  ASSUME Quiet, pc[App] = "write"
  PROVE  Len(queue["Qwrite"]) < queuelen
<1> DEFINE x == info[App]
           S == 1 .. Len(queue["Qwrite"])
           f == [k \in S |-> queue["Qwrite"][k]]
<1>1. /\ queue["Qwrite"] \in Seq(Jobs) /\ Len(queue["Qwrite"]) \in Nat
      /\ info \in [Threads -> Jobs \cup {None}] /\ App \in Threads
  BY QuietFacts, Types DEF Threads
<1>2. x \in Jobs /\ Hand(App) = x
  BY <1>1, QuietFacts, ItemAssumption DEF Hand, PoolInv, Held, Item
<1>3. x \in submitted /\ x \notin Waiting /\ Waiting \subseteq submitted
  BY <1>1, <1>2, QuietFacts DEF Divided, InHands
<1>4. Distinct(queue["Qwrite"])
  BY QuietFacts DEF Divided
<1>5. f \in Injection(S, submitted \ {x})
  <2>1. \A k \in S : queue["Qwrite"][k] \in Waiting
    BY DEF Waiting, Elems
  <2>2. f \in [S -> submitted \ {x}]
    BY <1>3, <2>1
  <2>3. \A k, l \in S : f[k] = f[l] => k = l
    BY <1>4 DEF Distinct
  <2> QED
    BY <2>2, <2>3 DEF Injection, IsInjective
<1>6. /\ IsFiniteSet(submitted \ {x}) /\ Cardinality(submitted) \in Nat
      /\ Cardinality(submitted \ {x}) = Cardinality(submitted) - 1
  BY <1>3, QuietFacts, FS_RemoveElement, FS_CardinalityType
<1>7. Cardinality(S) <= Cardinality(submitted \ {x})
  BY <1>5, <1>6, FS_Injection
<1>8. Cardinality(S) = Len(queue["Qwrite"])
  BY <1>1, FS_Interval
<1> HIDE DEF S, x
<1> QED
  BY <1>1, <1>6, <1>7, <1>8, QuietFacts, CountAssumption

\* When as many exits are counted as there are threads, all of them have gone.
LEMMA LoopEnds ==
  ASSUME Quiet, exits >= ThreadLen
  PROVE  /\ Counted \subseteq Exited
         /\ Qmonitor = <<>>
         /\ pc[Monitor] \notin {"inc", "create"}
<1> DEFINE m == IF pc[Monitor] = "incend" THEN 1 ELSE 0
<1>1. Exited \subseteq Counted
  BY DEF Exited, Counted
<1>2. /\ Cardinality(Exited) <= Cardinality(Counted)
      /\ Cardinality(Counted) = Cardinality(Exited) => Counted = Exited
  BY <1>1, CountedFinite, FS_Subset
<1>3. ThreadLen \in Int /\ ThreadLen + m = Cardinality(Counted)
  BY QuietFacts, CountAssumption DEF PoolInv, TypeOK, PoolOK, ThreadLenCounts
<1>4. m \in {0, 1} /\ Taken \in {0, 1} /\ m <= Taken
  BY DEF Taken
<1>5. exits + Len(Qmonitor) + Taken <= Cardinality(Exited)
  BY QuietFacts DEF NoticesCount
<1>6. /\ Cardinality(Counted) = Cardinality(Exited)
      /\ Len(Qmonitor) = 0 /\ Taken = m
  <2> HIDE DEF m
  <2> QED
    BY <1>2, <1>3, <1>4, <1>5, QuietFacts, CountedFinite
<1>7. Qmonitor = <<>>
  BY <1>6, QuietFacts
<1>8. pc[Monitor] \notin {"inc", "create"}
  BY <1>6 DEF Taken
<1> QED
  BY <1>2, <1>6, <1>7, <1>8

LEMMA AppQuiet ==
  ASSUME Quiet, AppInCall
  PROVE  NoFailure' /\ NoticesCount' /\ AllGone' /\ submitted' = submitted
<1>0. /\ App \notin Workers
      /\ pc[App] \in {"idle", "write", "wdone", "dloop", "dread", "dsleep", "gone"}
  BY QuietFacts, ThreadAssumption
  DEF PoolInv, TypeOK, PcOK, AppLabels, NoFailure, ReadLabels, WriteLabels
<1> USE DEF poolvars, history, ReadLabels
<1>1. CASE write_queue(App)
  <2>1. Len(queue["Qwrite"]) < queuelen /\ Len(queue["Qwrite"]) \in Nat
    BY <1>1, RoomForJob, QuietFacts, Types DEF write_queue
  <2>2. pc' = [pc EXCEPT ![App] = "wdone"] /\ UNCHANGED <<exits, Qmonitor, submitted>>
    BY <1>0, <1>1, <2>1, CountAssumption DEF write_queue, WritesTo
  <2> QED
    BY <2>2, AppGoesOn
<1>2. CASE write_limit(App)
  <2>1. WFcount["Qwrite"] = 0 /\ pc[App] = "wdone"
    BY <1>0, <1>2, QuietFacts DEF write_limit, SideInv, AppAlone
  <2>2. pc' = [pc EXCEPT ![App] = "idle"] /\ UNCHANGED <<exits, Qmonitor, submitted>>
    BY <1>0, <1>2, <2>1, CountAssumption DEF write_limit, WritesTo, Home
  <2> QED
    BY <2>2, AppGoesOn
<1>3. CASE destroy_loop
  <2>1. CASE pc' = [pc EXCEPT ![App] = "dread"]
    <3>1. UNCHANGED <<exits, Qmonitor, submitted>>
      BY <1>3 DEF destroy_loop
    <3> QED
      BY <2>1, <3>1, AppGoesOn
  <2>2. CASE exits >= ThreadLen /\ pc' = [pc EXCEPT ![App] = "dsleep"]
    <3>1. UNCHANGED <<exits, Qmonitor, submitted>>
      BY <1>3 DEF destroy_loop
    <3>2. /\ exits' \in Nat /\ Len(Qmonitor') \in Nat
          /\ exits' + Len(Qmonitor') <= exits + Len(Qmonitor)
      BY <3>1, QuietFacts
    <3>3. /\ Counted \subseteq Exited /\ Qmonitor' = <<>>
          /\ pc[Monitor] \notin {"inc", "create"}
      BY <2>2, <3>1, LoopEnds
    <3>4. "dsleep" \notin ReadLabels \cup {"rnotify", "wfull", "wreset", "wnotify"}
      OBVIOUS
    <3> QED
      BY <2>2, <3>1, <3>2, <3>3, <3>4, AppGoes
  <2> QED
    BY <1>3, <2>1, <2>2 DEF destroy_loop
<1>4. CASE destroy_read
  <2>1. /\ pc' = [pc EXCEPT ![App] = "dloop"] /\ submitted' = submitted
        /\ exits' = exits + 1 /\ Qmonitor # <<>> /\ Qmonitor' = Tail(Qmonitor)
    BY <1>4 DEF destroy_read
  <2>2. Len(Qmonitor') = Len(Qmonitor) - 1 /\ Len(Qmonitor) > 0
    BY <2>1, QuietFacts, TailOK
  <2>3. /\ exits' \in Nat /\ Len(Qmonitor') \in Nat
        /\ exits' + Len(Qmonitor') <= exits + Len(Qmonitor)
    BY <2>1, <2>2, QuietFacts
  <2>4. "dloop" \notin ReadLabels \cup {"rnotify", "wfull", "wreset", "wnotify"}
    OBVIOUS
  <2> QED
    BY <2>1, <2>3, <2>4, AppGoes
<1>5. CASE destroy_free
  <2>1. /\ pc[App] = "dsleep" /\ pc' = [pc EXCEPT ![App] = "gone"]
        /\ UNCHANGED <<exits, Qmonitor, submitted>>
    BY <1>5 DEF destroy_free
  <2>2. /\ exits' \in Nat /\ Len(Qmonitor') \in Nat
        /\ exits' + Len(Qmonitor') <= exits + Len(Qmonitor)
    BY <2>1, QuietFacts
  <2>3. /\ Counted \subseteq Exited /\ Qmonitor' = <<>>
        /\ pc[Monitor] \notin {"inc", "create"}
    BY <2>1, QuietFacts DEF AllGone
  <2>4. "gone" \notin ReadLabels \cup {"rnotify", "wfull", "wreset", "wnotify"}
    OBVIOUS
  <2> QED
    BY <2>1, <2>2, <2>3, <2>4, AppGoes
<1> QED
  BY <1>0, <1>1, <1>2, <1>3, <1>4, <1>5
  DEF AppInCall, QueueStep, read_queue, read_limit, read_reset, write_reset,
      writ_fail_Qmonitor, return_result

LEMMA AppCallsQuiet ==
  ASSUME Quiet, updates' = 0, AppCalls
  PROVE  NoFailure' /\ NoticesCount' /\ AllGone'
<1>1. updates' # updates + 1
  BY DEF Quiet, OnlyExitNotices
<1>2. PICK l \in {"write", "dloop"} :
        pc' = [pc EXCEPT ![App] = l] /\ UNCHANGED <<exits, Qmonitor>>
  BY <1>1, QuietFacts
  DEF AppCalls, writeThread_job, readThread_ret, UpdateThreads, myqueuedestroy, poolvars
<1>3. l \notin ReadLabels \cup {"rnotify", "wfull", "wreset", "wnotify", "dsleep", "gone"}
  BY DEF ReadLabels
<1> QED
  BY <1>2, <1>3, AppGoesOn

-----------------------------------------------------------------------------
(* Everything else, and the theorem.                                       *)

LEMMA LostResetQuiet ==
  ASSUME Quiet, NEW t \in Threads, NEW u \in Threads,
         read_reset_lost(t, u) \/ write_reset_lost(t, u)
  PROVE  NoFailure' /\ NoticesCount' /\ AllGone' /\ submitted' = submitted
<1>0. /\ App # Monitor /\ App \in Threads /\ Monitor \in Threads
      /\ Monitor \notin Workers /\ App \notin Workers
      /\ pc \in [Threads -> WorkerLabels \cup AppLabels \cup MonitorLabels]
  BY QuietFacts, ThreadAssumption, Types DEF Threads
<1>1. pc[Monitor] \notin {"read", "rreset", "write", "wreset"}
  BY QuietFacts DEF SideInv, NoPill, PoolInv, TypeOK, PcOK, MonitorLabels, WriteLabels
<1>2. ~write_reset_lost(t, u)
  BY <1>1, QuietFacts DEF write_reset_lost, NoFailure, WriteLabels, Threads
<1>3. /\ t \in Workers /\ u \in Workers /\ t # u
      /\ pc' = [pc EXCEPT ![t] = AfterFailRead(t), ![u] = "rempty"]
      /\ pc[t] = "rreset" /\ pc[u] = "read"
      /\ UNCHANGED <<exits, submitted, Qmonitor>>
  BY <1>0, <1>1, <1>2, QuietFacts
  DEF read_reset_lost, NoFailure, ReadLabels, Threads, poolvars
<1>4. /\ pc'[t] \in {"auto", "test"} /\ pc'[u] = "rempty"
      /\ \A v \in Threads \ {t, u} : pc'[v] = pc[v]
  BY <1>0, <1>3 DEF AfterFailRead
<1>5. pc'[App] = pc[App] /\ pc'[Monitor] = pc[Monitor]
  BY <1>0, <1>3, <1>4
<1>6. NoFailure'
  BY <1>3, <1>4, <1>5, QuietFacts DEF NoFailure, Threads, WriteLabels
<1>7. Exited' = Exited /\ Counted' = Counted
  BY <1>3, <1>4 DEF Exited, Counted, Threads
<1>8. NoticesCount'
  BY <1>3, <1>5, <1>7, QuietFacts DEF NoticesCount, Taken
<1>9. AllGone'
  BY <1>3, <1>5, <1>7, QuietFacts DEF AllGone
<1> QED
  BY <1>3, <1>6, <1>8, <1>9

\* A pool that has only exit notices had only these before.
LEMMA OnlyExitBefore ==
  ASSUME PoolInv, IsFiniteSet(submitted), [Next]_vars
  PROVE  IsFiniteSet(submitted') /\ (OnlyExitNotices' => OnlyExitNotices)
<1>1. updates' = updates \/ updates' = updates + 1
  BY DEF Next, vars, poolvars, WorkThreads, QueueStep, WorkMonitor, AppInCall, AppCalls,
         LostResets, Clock, read_queue, read_limit, read_reset, write_queue, write_limit,
         write_reset, writ_fail_Qmonitor, worker_test, run_job, take_pill, auto_min,
         auto_window, dec_workthread_end, auto_stamp, post_exit, monitor_test,
         monitor_read, inc_workthread, create_worker, create_fails, inc_workthread_end,
         dec_workthread, writeThread_job, readThread_ret, return_result, UpdateThreads,
         myqueuedestroy, destroy_loop, destroy_read, destroy_free, inc_window_opens,
         dec_window_opens, read_reset_lost, write_reset_lost
<1>2. submitted' = submitted \/ \E job \in Jobs : submitted' = submitted \cup {job}
  BY DEF Next, vars, history, WorkThreads, QueueStep, WorkMonitor, AppInCall, AppCalls,
         LostResets, Clock, read_queue, read_limit, read_reset, write_queue, write_limit,
         write_reset, writ_fail_Qmonitor, worker_test, run_job, take_pill, auto_min,
         auto_window, dec_workthread_end, auto_stamp, post_exit, monitor_test,
         monitor_read, inc_workthread, create_worker, create_fails, inc_workthread_end,
         dec_workthread, writeThread_job, readThread_ret, return_result, UpdateThreads,
         myqueuedestroy, destroy_loop, destroy_read, destroy_free, inc_window_opens,
         dec_window_opens, read_reset_lost, write_reset_lost
<1>3. IsFiniteSet(submitted')
  BY <1>2, FS_AddElement
<1>4. Cardinality(submitted) <= Cardinality(submitted')
  <2>1. submitted \in SUBSET submitted'
    BY <1>2
  <2> QED
    BY <1>3, <2>1, FS_Subset
<1>5. Cardinality(submitted) \in Nat /\ Cardinality(submitted') \in Nat /\ updates \in Nat
  BY <1>3, FS_CardinalityType DEF PoolInv, TypeOK, PoolOK
<1> QED
  BY <1>1, <1>3, <1>4, <1>5, CountAssumption DEF OnlyExitNotices

LEMMA StepQuiet ==
  ASSUME QuietInv, ExitInv, [Next]_vars
  PROVE  ExitInv'
<1>0. PoolInv /\ IsFiniteSet(submitted)
  BY DEF QuietInv, ExitInv
<1>1. IsFiniteSet(submitted)'
  BY <1>0, OnlyExitBefore
<1> SUFFICES ASSUME OnlyExitNotices' PROVE NoFailure' /\ NoticesCount' /\ AllGone'
  BY <1>1 DEF ExitInv
<1>2. Quiet /\ updates' = 0
  BY <1>0, OnlyExitBefore DEF Quiet, OnlyExitNotices
<1>3. CASE \E w \in Workers : WorkThreads(w)
  BY <1>2, <1>3, WorkerQuiet
<1>4. CASE WorkMonitor
  BY <1>2, <1>4, MonitorQuiet
<1>5. CASE AppInCall
  BY <1>2, <1>5, AppQuiet
<1>6. CASE AppCalls
  BY <1>2, <1>6, AppCallsQuiet
<1>7. CASE LostResets
  BY <1>2, <1>7, LostResetQuiet DEF LostResets
<1>8. CASE Clock \/ UNCHANGED vars
  <2>1. UNCHANGED <<pc, Qmonitor, exits>>
    BY <1>8 DEF Clock, inc_window_opens, dec_window_opens, vars
  <2> QED
    BY <1>2, <2>1, QuietFacts
    DEF NoFailure, NoticesCount, AllGone, Exited, Counted, Taken
<1> QED
  BY <1>3, <1>4, <1>5, <1>6, <1>7, <1>8 DEF Next

LEMMA InitExit == Init => ExitInv
<1> SUFFICES ASSUME Init PROVE ExitInv
  OBVIOUS
<1>1. /\ pc[App] = "idle" /\ pc[Monitor] = "test"
      /\ \A w \in Workers : pc[w] \in {"test", "unborn"}
  BY ThreadAssumption DEF Init, Threads
<1>2. Exited = {} /\ Taken = 0 /\ exits = 0 /\ Len(Qmonitor) = 0
  BY <1>1 DEF Init, Exited, Taken
<1>3. NoFailure /\ AllGone
  BY <1>1 DEF NoFailure, AllGone, ReadLabels, WriteLabels
<1>4. NoticesCount
  BY <1>2, FS_EmptySet DEF NoticesCount
<1>5. IsFiniteSet(submitted)
  BY FS_EmptySet DEF Init
<1> QED
  BY <1>3, <1>4, <1>5 DEF ExitInv

\* myqueuedestroy destroys the mutexes of Qread and Qwrite only after the last
\* worker has gone, for every number of workers and jobs and every schedule, also
\* while workers retire by themselves: each notice it counts is another worker's.
THEOREM DestroyWaits == Spec => []DestroyAfterExit
<1>1. ExitInv /\ PoolInv => DestroyAfterExit
  <2> SUFFICES ASSUME ExitInv, PoolInv, pc[App] \in {"dsleep", "gone"}, OnlyExitNotices,
                      NEW w \in Workers
               PROVE  pc[w] \in {"unborn", "exited", "left", "autostamp"}
    BY DEF DestroyAfterExit
  <2>1. Counted \subseteq Exited
    BY DEF ExitInv, AllGone
  <2> QED
    BY <2>1 DEF Counted, Exited
<1>2. QuietInv => PoolInv
  BY DEF QuietInv
<1>3. QuietInv /\ ExitInv /\ [Next]_vars => ExitInv'
  BY StepQuiet
<1> QED
  BY <1>1, <1>2, <1>3, InitExit, QuietInvariant, PTL DEF Spec
=============================================================================
