----------------------------- MODULE ThreadPool -----------------------------
(***************************************************************************)
(* The dynamic thread pool of lib/TPdynamic/threadpool.c: one application  *)
(* thread, the monitor thread (WorkMonitor) and the workers (WorkThreads), *)
(* which share Qwrite (jobs), Qread (results), Qmonitor (notices to the    *)
(* monitor) and the pool state.                                            *)
(*                                                                         *)
(* An action is what one thread does between two points where another can  *)
(* interfere: one critical section of a mutex, or one unlocked access to a *)
(* shared field.  The ring buffers are sequences here; RingQueue shows     *)
(* that they may be.  Init is the state in which myqueueInit returns 0.    *)
(***************************************************************************)
EXTENDS Integers, Sequences, FiniteSets

CONSTANTS
  Workers,          \* threads that ever run WorkThreads, numbered as they are created
  App, Monitor,     \* the application thread and the monitor thread
  Jobs,             \* what the application may submit, numbered in that order
  None, Pill,       \* no item; the job by which dec_workthread ends a worker
  StartCount,       \* myqueueInit's ThreadPoolStarnum
  TP_MIN_COUNT, TP_MAX_COUNT,
  queuelen,         \* maxlen of Qread and Qwrite
  MonitorLen,       \* maxlen of Qmonitor
  FAIL_LIMITCOUNT,
  CountCap,         \* bound: no counter reset is lost above this count
  AUTO, QREAD,      \* STATEID_AUTO_BIT and STATEID_QREAD_BIT of stateid
  Updates,          \* the UpdateThreads requests used, a subset of {INC, DEC}
  MaxUpdates,       \* bound on the number of UpdateThreads calls
  MayDestroy        \* whether the application calls myqueuedestroy

Threads == Workers \cup {App, Monitor}
QNames  == {"Qread", "Qwrite"}
Item    == Jobs \cup {Pill}

ASSUME ThreadAssumption ==
  /\ IsFiniteSet(Workers)
  /\ App \notin Workers /\ Monitor \notin Workers /\ App # Monitor
ASSUME ItemAssumption == None \notin Item /\ Pill \notin Jobs
ASSUME NumberAssumption == Workers \subseteq Nat /\ Jobs \subseteq Nat
ASSUME CountAssumption ==
  /\ TP_MIN_COUNT \in Nat /\ TP_MAX_COUNT \in Nat /\ StartCount \in Nat
  /\ StartCount <= TP_MAX_COUNT
  /\ queuelen \in Nat \ {0} /\ MonitorLen \in Nat \ {0}
  /\ FAIL_LIMITCOUNT \in Nat /\ CountCap \in Nat /\ MaxUpdates \in Nat
ASSUME ModeAssumption ==
  AUTO \in BOOLEAN /\ QREAD \in BOOLEAN /\ MayDestroy \in BOOLEAN
ASSUME UpdatesAssumption == Updates \subseteq {"INC", "DEC"}

VARIABLES
  run,              \* state.Qflag.run
  pc,               \* where each thread is
  info,             \* the WORKTHREADINFO each thread holds on its stack
  queue,            \* contents of Qread and Qwrite
  RFcount, WFcount, \* failure counters of Qread and Qwrite
  Qmonitor,         \* contents of Qmonitor
  ThreadLen,        \* state.ThreadLen
  inc_due, dec_due, \* TIMEOVER_THREAD_INC/DEC ms since time_thread_inc/dec?
  exits,            \* myqueuedestroy's j, the exit notices it has counted
  destroyed,        \* queues whose mutex is destroyed
  updates,          \* UpdateThreads calls so far
  submitted,        \* history: jobs handed to writeThread_job
  finished,         \* history: jobs the application has back, or that ran
                    \*          to the end in a pool without Qread
  dropped           \* history: jobs a thread threw away

poolvars == <<run, ThreadLen, inc_due, dec_due, exits, destroyed, updates>>
vars == <<run, pc, info, queue, RFcount, WFcount, Qmonitor, ThreadLen, inc_due,
          dec_due, exits, destroyed, updates, submitted, finished, dropped>>
history == <<submitted, finished, dropped>>

-----------------------------------------------------------------------------
(* What travels in Qmonitor: MONITORINFO.Qflag.ID, split in its two fields, *)
(* and Fcount.                                                              *)

Notices == [ID76 : {"APP", "QREAD", "QWRITE"}, ID50 : {"INC", "DEC"}, Fcount : Nat]

\* UpdateThreads
UpdateNotice(op) == [ID76 |-> "APP", ID50 |-> op, Fcount |-> 0]

\* The end of WorkThreads posts a MONITORINFO that is zero but for its
\* threadid: to the monitor it is a request for one more thread.
ExitNotice == [ID76 |-> "APP", ID50 |-> "INC", Fcount |-> 0]

\* writ_fail_Qmonitor: Fcount is the level of a flag that was just zeroed.
FailNotice(q) == [ID76   |-> IF q = "Qread" THEN "QREAD" ELSE "QWRITE",
                  ID50   |-> "INC",
                  Fcount |-> 0]

offer_one_too_many(msg) ==
  IF Len(Qmonitor) <= MonitorLen THEN Append(Qmonitor, msg) ELSE Qmonitor

\* write_Qmonitor: one attempt, which a full queue refuses.
Offer(msg) == IF Len(Qmonitor) < MonitorLen THEN Append(Qmonitor, msg) ELSE Qmonitor

-----------------------------------------------------------------------------
(* Which queue a thread reads and writes, and where it goes on.            *)

ReadsFrom(t) == IF t = App THEN "Qread" ELSE "Qwrite"
WritesTo(t)  == IF t \in Workers THEN "Qread" ELSE "Qwrite"

Home(t) == IF t = App THEN "idle" ELSE "test"

Goto(t, l) == pc' = [pc EXCEPT ![t] = l]

-----------------------------------------------------------------------------

\* myqueueInit, returned 0: StartCount workers and the monitor are running.
Init ==
  /\ run = TRUE
  /\ \E W \in SUBSET Workers :
       /\ Cardinality(W) = StartCount
       /\ \A w \in W, v \in Workers \ W : w < v
       /\ pc = [t \in Threads |-> IF t = App THEN "idle"
                                  ELSE IF t \in W \cup {Monitor} THEN "test"
                                  ELSE "unborn"]
  /\ info = [t \in Threads |-> None]
  /\ queue = [q \in QNames |-> <<>>]
  /\ RFcount = [q \in QNames |-> 0]
  /\ WFcount = [q \in QNames |-> 0]
  /\ Qmonitor = <<>>
  /\ ThreadLen = StartCount
  /\ inc_due = TRUE
  /\ dec_due = TRUE
  /\ exits = 0
  /\ destroyed = {}
  /\ updates = 0
  /\ submitted = {}
  /\ finished = {}
  /\ dropped = {}

-----------------------------------------------------------------------------
(* read_queue, as WorkThreads and readqueue call it.                       *)

read_queue_newest(t) ==
  LET q == ReadsFrom(t)
      n == Len(queue[q])
  IN
  /\ pc[t] = "read"
  /\ q \notin destroyed
  /\ \/ /\ queue[q] # <<>>
        /\ info' = [info EXCEPT ![t] = queue[q][n]]
        /\ queue' = [queue EXCEPT ![q] = SubSeq(@, 1, n - 1)]
        /\ RFcount' = [RFcount EXCEPT ![q] = 0]
        /\ Goto(t, "rtaken")
     \/ /\ queue[q] = <<>>
        /\ RFcount' = [RFcount EXCEPT ![q] = @ + 1]
        /\ Goto(t, "rempty")
        /\ UNCHANGED <<info, queue>>
  /\ UNCHANGED <<poolvars, WFcount, Qmonitor, history>>

\* The critical section.
read_queue(t) ==
  LET q == ReadsFrom(t) IN
  /\ pc[t] = "read"
  /\ q \notin destroyed
  /\ \/ /\ queue[q] # <<>>
        /\ info' = [info EXCEPT ![t] = Head(queue[q])]
        /\ queue' = [queue EXCEPT ![q] = Tail(@)]
        /\ RFcount' = [RFcount EXCEPT ![q] = 0]
        /\ Goto(t, "rtaken")
     \/ /\ queue[q] = <<>>
        /\ RFcount' = [RFcount EXCEPT ![q] = @ + 1]
        /\ Goto(t, "rempty")
        /\ UNCHANGED <<info, queue>>
  /\ UNCHANGED <<poolvars, WFcount, Qmonitor, history>>

\* After the unlock: the counter as it is by now decides, whatever the
\* critical section did.
read_limit(t) ==
  /\ pc[t] \in {"rtaken", "rempty"}
  /\ Goto(t, IF FAIL_LIMITCOUNT < RFcount[ReadsFrom(t)] THEN "rreset"
             ELSE IF pc[t] = "rtaken" THEN "got"
             ELSE IF t = App THEN "read" ELSE "test")
  /\ UNCHANGED <<poolvars, info, queue, RFcount, WFcount, Qmonitor, history>>

\* FLAG_FAIL_READ: the caller forgets whatever was copied into its info.
Forget(t) == /\ info' = [info EXCEPT ![t] = None]
             /\ dropped' = dropped \cup ({info[t]} \cap Jobs)

AfterFailRead(t) == IF t = App THEN "rnotify" ELSE IF AUTO THEN "auto" ELSE "test"

\* The unlocked q->RFcount=0, and the caller's reaction to FLAG_FAIL_READ.
read_reset(t) ==
  /\ pc[t] = "rreset"
  /\ RFcount' = [RFcount EXCEPT ![ReadsFrom(t)] = 0]
  /\ Goto(t, AfterFailRead(t))
  /\ Forget(t)
  /\ UNCHANGED <<poolvars, queue, WFcount, Qmonitor, submitted, finished>>

\* The same, when t's store falls between the load and the store of the
\* RFcount++ of another reader u, and is overwritten.
read_reset_lost(t, u) ==
  LET q == ReadsFrom(t) IN
  /\ t # u
  /\ pc[t] = "rreset" /\ pc[u] = "read"
  /\ ReadsFrom(u) = q /\ queue[q] = <<>> /\ q \notin destroyed
  /\ RFcount[q] < CountCap
  /\ RFcount' = [RFcount EXCEPT ![q] = @ + 1]
  /\ pc' = [pc EXCEPT ![t] = AfterFailRead(t), ![u] = "rempty"]
  /\ Forget(t)
  /\ UNCHANGED <<poolvars, queue, WFcount, Qmonitor, submitted, finished>>

-----------------------------------------------------------------------------
(* write_queue, as WorkThreads and writequeue call it.                     *)

write_queue_uncounted(t) ==
  LET q == WritesTo(t) IN
  /\ pc[t] = "write"
  /\ q \notin destroyed
  /\ \/ /\ Len(queue[q]) < queuelen
        /\ queue' = [queue EXCEPT ![q] = Append(@, info[t])]
        /\ info' = IF t \in Workers THEN [info EXCEPT ![t] = None] ELSE info
        /\ WFcount' = [WFcount EXCEPT ![q] = 0]
        /\ Goto(t, "wdone")
     \/ /\ Len(queue[q]) >= queuelen
        /\ Goto(t, "wfull")
        /\ UNCHANGED <<info, queue, WFcount>>
  /\ UNCHANGED <<poolvars, RFcount, Qmonitor, history>>

\* The critical section.  A worker is done with its job once it is written;
\* writequeue keeps the item until write_queue has returned 1.
write_queue(t) ==
  LET q == WritesTo(t) IN
  /\ pc[t] = "write"
  /\ q \notin destroyed
  /\ \/ /\ Len(queue[q]) < queuelen
        /\ queue' = [queue EXCEPT ![q] = Append(@, info[t])]
        /\ info' = IF t \in Workers THEN [info EXCEPT ![t] = None] ELSE info
        /\ WFcount' = [WFcount EXCEPT ![q] = 0]
        /\ Goto(t, "wdone")
     \/ /\ Len(queue[q]) >= queuelen
        /\ WFcount' = [WFcount EXCEPT ![q] = @ + 1]
        /\ Goto(t, "wfull")
        /\ UNCHANGED <<info, queue>>
  /\ UNCHANGED <<poolvars, RFcount, Qmonitor, history>>

write_limit_writing_again(t) ==
  /\ pc[t] \in {"wdone", "wfull"}
  /\ Goto(t, IF FAIL_LIMITCOUNT < WFcount[WritesTo(t)] THEN "wreset"
             ELSE IF t \in Workers /\ pc[t] = "wdone" THEN "test" ELSE "write")
  /\ UNCHANGED <<poolvars, info, queue, RFcount, WFcount, Qmonitor, history>>

\* After the unlock.
write_limit(t) ==
  /\ pc[t] \in {"wdone", "wfull"}
  /\ \/ /\ FAIL_LIMITCOUNT < WFcount[WritesTo(t)]
        /\ Goto(t, "wreset")
        /\ UNCHANGED info
     \/ /\ WFcount[WritesTo(t)] <= FAIL_LIMITCOUNT
        /\ pc[t] = "wdone"
        /\ Goto(t, Home(t))
        /\ info' = [info EXCEPT ![t] = None]
     \/ /\ WFcount[WritesTo(t)] <= FAIL_LIMITCOUNT
        /\ pc[t] = "wfull"
        /\ Goto(t, "write")
        /\ UNCHANGED info
  /\ UNCHANGED <<poolvars, queue, RFcount, WFcount, Qmonitor, history>>

\* The unlocked q->WFcount=0.
write_reset(t) ==
  /\ pc[t] = "wreset"
  /\ WFcount' = [WFcount EXCEPT ![WritesTo(t)] = 0]
  /\ Goto(t, "wnotify")
  /\ UNCHANGED <<poolvars, info, queue, RFcount, Qmonitor, history>>

\* The same, overwritten by the WFcount++ of another writer u.
write_reset_lost(t, u) ==
  LET q == WritesTo(t) IN
  /\ t # u
  /\ pc[t] = "wreset" /\ pc[u] = "write"
  /\ WritesTo(u) = q /\ Len(queue[q]) >= queuelen /\ q \notin destroyed
  /\ WFcount[q] < CountCap
  /\ WFcount' = [WFcount EXCEPT ![q] = @ + 1]
  /\ pc' = [pc EXCEPT ![t] = "wnotify", ![u] = "wfull"]
  /\ UNCHANGED <<poolvars, info, queue, RFcount, Qmonitor, history>>

\* writ_fail_Qmonitor and what follows it: a worker gives its result up,
\* writequeue and readqueue try again.
writ_fail_Qmonitor(t) ==
  /\ \/ /\ pc[t] = "rnotify"
        /\ Qmonitor' = Offer(FailNotice(ReadsFrom(t)))
        /\ Goto(t, "read")
        /\ UNCHANGED <<info, dropped>>
     \/ /\ pc[t] = "wnotify"
        /\ Qmonitor' = Offer(FailNotice(WritesTo(t)))
        /\ IF t \in Workers
           THEN Goto(t, "test") /\ Forget(t)
           ELSE Goto(t, "write") /\ UNCHANGED <<info, dropped>>
  /\ UNCHANGED <<poolvars, queue, RFcount, WFcount, submitted, finished>>

-----------------------------------------------------------------------------
(* WorkThreads.                                                            *)

\* while( q->state.Qflag.run )
worker_test(w) ==
  /\ pc[w] = "test"
  /\ Goto(w, IF run THEN "read" ELSE "post")
  /\ UNCHANGED <<poolvars, info, queue, RFcount, WFcount, Qmonitor, history>>

\* A job was read: func runs; its result goes to Qread if the pool has one.
run_job(w) ==
  /\ pc[w] = "got"
  /\ info[w] # Pill
  /\ IF QREAD
     THEN Goto(w, "write") /\ UNCHANGED <<info, finished>>
     ELSE /\ Goto(w, "test")
          /\ info' = [info EXCEPT ![w] = None]
          /\ finished' = finished \cup {info[w]}
  /\ UNCHANGED <<poolvars, queue, RFcount, WFcount, Qmonitor, submitted, dropped>>

take_pill_uncounted(w) ==
  /\ pc[w] = "got"
  /\ info[w] = Pill
  /\ info' = [info EXCEPT ![w] = None]
  /\ Goto(w, "left")
  /\ UNCHANGED <<poolvars, queue, RFcount, WFcount, Qmonitor, history>>

\* A pill was read: dec_workthread_end, and the thread ends.
take_pill(w) ==
  /\ pc[w] = "got"
  /\ info[w] = Pill
  /\ ThreadLen' = ThreadLen - 1
  /\ info' = [info EXCEPT ![w] = None]
  /\ Goto(w, "left")
  /\ UNCHANGED <<run, queue, RFcount, WFcount, Qmonitor, inc_due, dec_due, exits,
                 destroyed, updates, history>>

\* dec_workthread_auto: unlocked ThreadMinLen < ThreadLen.
auto_min(w) ==
  /\ pc[w] = "auto"
  /\ Goto(w, IF TP_MIN_COUNT < ThreadLen THEN "autodue" ELSE "test")
  /\ UNCHANGED <<poolvars, info, queue, RFcount, WFcount, Qmonitor, history>>

\* dec_workthread_auto: unlocked test of the window.  The caller took its
\* time before, so that it may still find the window closed when it is open.
auto_window(w) ==
  /\ pc[w] = "autodue"
  /\ \/ dec_due /\ Goto(w, "autodec")
     \/ Goto(w, "test")
  /\ UNCHANGED <<poolvars, info, queue, RFcount, WFcount, Qmonitor, history>>

\* dec_workthread_end, under state.mux.
dec_workthread_end(w) ==
  /\ pc[w] = "autodec"
  /\ ThreadLen' = ThreadLen - 1
  /\ Goto(w, "autostamp")
  /\ UNCHANGED <<run, info, queue, RFcount, WFcount, Qmonitor, inc_due, dec_due,
                 exits, destroyed, updates, history>>

\* time_thread_dec=t; the thread ends without an exit notice.
auto_stamp(w) ==
  /\ pc[w] = "autostamp"
  /\ dec_due' = FALSE
  /\ Goto(w, "left")
  /\ UNCHANGED <<run, info, queue, RFcount, WFcount, Qmonitor, ThreadLen, inc_due,
                 exits, destroyed, updates, history>>

\* exitid: writeQmonitor spins until the notice is in.
post_exit(w) ==
  /\ pc[w] = "post"
  /\ Len(Qmonitor) < MonitorLen
  /\ Qmonitor' = Append(Qmonitor, ExitNotice)
  /\ Goto(w, "exited")
  /\ UNCHANGED <<poolvars, info, queue, RFcount, WFcount, history>>

-----------------------------------------------------------------------------
(* WorkMonitor.                                                            *)

monitor_test ==
  /\ pc[Monitor] = "test"
  /\ Goto(Monitor, IF run THEN "mread" ELSE "mstop")
  /\ UNCHANGED <<poolvars, info, queue, RFcount, WFcount, Qmonitor, history>>

\* The switch of WorkMonitor with APP_Monitor and Qwrite_Monitor: what a
\* notice makes the monitor do.  Qflag.Queueid is 0 in every notice.
Dispatch(msg) ==
  CASE msg.ID76 = "APP"    -> IF msg.ID50 = "INC" THEN "inc" ELSE "dec"
    [] msg.ID76 = "QWRITE" -> IF AUTO /\ msg.Fcount # 0 THEN "inc" ELSE "test"
    [] msg.ID76 = "QREAD"  -> "test"

monitor_read ==
  /\ pc[Monitor] = "mread"
  /\ \/ Qmonitor = <<>> /\ Goto(Monitor, "test") /\ UNCHANGED Qmonitor
     \/ /\ Qmonitor # <<>>
        /\ Goto(Monitor, Dispatch(Head(Qmonitor)))
        /\ Qmonitor' = Tail(Qmonitor)
  /\ UNCHANGED <<poolvars, info, queue, RFcount, WFcount, history>>

\* inc_workthread up to pthread_create: the unlocked tests.
inc_workthread ==
  /\ pc[Monitor] = "inc"
  /\ Goto(Monitor, IF ThreadLen < TP_MAX_COUNT /\ inc_due THEN "create" ELSE "test")
  /\ UNCHANGED <<poolvars, info, queue, RFcount, WFcount, Qmonitor, history>>

\* pthread_create: the new worker runs before it is counted.
create_worker(w) ==
  /\ pc[Monitor] = "create"
  /\ pc[w] = "unborn"
  /\ \A v \in Workers : v < w => pc[v] # "unborn"
  /\ pc' = [pc EXCEPT ![Monitor] = "incend", ![w] = "test"]
  /\ UNCHANGED <<poolvars, info, queue, RFcount, WFcount, Qmonitor, history>>

\* pthread_create fails.
create_fails ==
  /\ pc[Monitor] = "create"
  /\ Goto(Monitor, "test")
  /\ UNCHANGED <<poolvars, info, queue, RFcount, WFcount, Qmonitor, history>>

\* inc_workthread_end under state.mux, then time_thread_inc=t, which only the
\* monitor reads.
inc_workthread_end ==
  /\ pc[Monitor] = "incend"
  /\ ThreadLen' = ThreadLen + 1
  /\ inc_due' = FALSE
  /\ Goto(Monitor, "test")
  /\ UNCHANGED <<run, info, queue, RFcount, WFcount, Qmonitor, dec_due, exits,
                 destroyed, updates, history>>

\* dec_workthread: the unlocked test; the pill is written by writequeue.
dec_workthread ==
  /\ pc[Monitor] = "dec"
  /\ IF TP_MIN_COUNT < ThreadLen
     THEN Goto(Monitor, "write") /\ info' = [info EXCEPT ![Monitor] = Pill]
     ELSE Goto(Monitor, "test") /\ UNCHANGED info
  /\ UNCHANGED <<poolvars, queue, RFcount, WFcount, Qmonitor, history>>

-----------------------------------------------------------------------------
(* The application.                                                        *)

writeThread_job(job) ==
  /\ pc[App] = "idle"
  /\ job \notin submitted
  /\ \A j \in Jobs : j < job => j \in submitted
  /\ submitted' = submitted \cup {job}
  /\ info' = [info EXCEPT ![App] = job]
  /\ Goto(App, "write")
  /\ UNCHANGED <<poolvars, queue, RFcount, WFcount, Qmonitor, finished, dropped>>

\* The client asks for a result only while one of its jobs has none.
readThread_ret ==
  /\ pc[App] = "idle"
  /\ QREAD
  /\ submitted \ finished # {}
  /\ Goto(App, "read")
  /\ UNCHANGED <<poolvars, info, queue, RFcount, WFcount, Qmonitor, history>>

\* readqueue returns 1.
return_result ==
  /\ pc[App] = "got"
  /\ finished' = finished \cup {info[App]}
  /\ info' = [info EXCEPT ![App] = None]
  /\ Goto(App, "idle")
  /\ UNCHANGED <<poolvars, queue, RFcount, WFcount, Qmonitor, submitted, dropped>>

UpdateThreads(op) ==
  /\ pc[App] = "idle"
  /\ updates < MaxUpdates
  /\ updates' = updates + 1
  /\ Qmonitor' = Offer(UpdateNotice(op))
  /\ UNCHANGED <<run, pc, info, queue, RFcount, WFcount, ThreadLen, inc_due,
                 dec_due, exits, destroyed, history>>

-----------------------------------------------------------------------------
(* myqueuedestroy.                                                         *)

myqueuedestroy ==
  /\ pc[App] = "idle"
  /\ MayDestroy
  /\ run' = FALSE
  /\ Goto(App, "dloop")
  /\ UNCHANGED <<info, queue, RFcount, WFcount, Qmonitor, ThreadLen, inc_due,
                 dec_due, exits, destroyed, updates, history>>

destroy_loop_one_short ==
  /\ pc[App] = "dloop"
  /\ \/ exits + 1 < ThreadLen /\ Goto(App, "dread") /\ UNCHANGED destroyed
     \/ /\ exits + 1 >= ThreadLen
        /\ destroyed' = QNames
        /\ Goto(App, "dsleep")
  /\ UNCHANGED <<run, info, queue, RFcount, WFcount, Qmonitor, ThreadLen, inc_due,
                 dec_due, exits, updates, history>>

\* j<ThreadLen; when it fails, the mutexes of Qread and Qwrite go.
destroy_loop ==
  /\ pc[App] = "dloop"
  /\ \/ exits < ThreadLen /\ Goto(App, "dread") /\ UNCHANGED destroyed
     \/ /\ exits >= ThreadLen
        /\ destroyed' = QNames
        /\ Goto(App, "dsleep")
  /\ UNCHANGED <<run, info, queue, RFcount, WFcount, Qmonitor, ThreadLen, inc_due,
                 dec_due, exits, updates, history>>

\* readQmonitor spins until there is a notice, and counts any notice.
destroy_read ==
  /\ pc[App] = "dread"
  /\ Qmonitor # <<>>
  /\ Qmonitor' = Tail(Qmonitor)
  /\ exits' = exits + 1
  /\ Goto(App, "dloop")
  /\ UNCHANGED <<run, info, queue, RFcount, WFcount, ThreadLen, inc_due, dec_due,
                 destroyed, updates, history>>

\* sleep(1) is long enough for the monitor to see run=0; then the rest goes.
destroy_free ==
  /\ pc[App] = "dsleep"
  /\ pc[Monitor] = "mstop"
  /\ destroyed' = QNames \cup {"Qmonitor", "state"}
  /\ Goto(App, "gone")
  /\ UNCHANGED <<run, info, queue, RFcount, WFcount, Qmonitor, ThreadLen, inc_due,
                 dec_due, exits, updates, history>>

-----------------------------------------------------------------------------
(* The clock.                                                              *)

inc_window_opens ==
  /\ ~inc_due
  /\ inc_due' = TRUE
  /\ UNCHANGED <<run, pc, info, queue, RFcount, WFcount, Qmonitor, ThreadLen,
                 dec_due, exits, destroyed, updates, history>>

dec_window_opens ==
  /\ ~dec_due
  /\ dec_due' = TRUE
  /\ UNCHANGED <<run, pc, info, queue, RFcount, WFcount, Qmonitor, ThreadLen,
                 inc_due, exits, destroyed, updates, history>>

-----------------------------------------------------------------------------

\* read_queue and write_queue on behalf of any thread.
QueueStep(t) ==
  \/ read_queue(t) \/ read_limit(t) \/ read_reset(t)
  \/ write_queue(t) \/ write_limit(t) \/ write_reset(t)
  \/ writ_fail_Qmonitor(t)

WorkThreads(w) ==
  \/ QueueStep(w)
  \/ worker_test(w) \/ run_job(w) \/ take_pill(w)
  \/ auto_min(w) \/ auto_window(w) \/ dec_workthread_end(w) \/ auto_stamp(w)
  \/ post_exit(w)

WorkMonitor ==
  \/ QueueStep(Monitor)
  \/ monitor_test \/ monitor_read
  \/ inc_workthread \/ (\E w \in Workers : create_worker(w)) \/ create_fails
  \/ inc_workthread_end \/ dec_workthread

\* Steps of the application inside a call of the pool's interface.
AppInCall ==
  \/ QueueStep(App)
  \/ return_result
  \/ destroy_loop \/ destroy_read \/ destroy_free

AppCalls ==
  \/ \E job \in Jobs : writeThread_job(job)
  \/ readThread_ret
  \/ \E op \in Updates : UpdateThreads(op)
  \/ myqueuedestroy

LostResets == \E t, u \in Threads : read_reset_lost(t, u) \/ write_reset_lost(t, u)

Clock == inc_window_opens \/ dec_window_opens

Next == \/ \E w \in Workers : WorkThreads(w)
        \/ WorkMonitor
        \/ AppInCall
        \/ AppCalls
        \/ LostResets
        \/ Clock

Spec == Init /\ [][Next]_vars

\* The operating system runs every thread that can run; whether and when the
\* application makes its next call, and the clock, are left open.
Fairness == /\ \A w \in Workers : WF_vars(WorkThreads(w))
            /\ WF_vars(WorkMonitor)
            /\ WF_vars(AppInCall)

FairSpec == Spec /\ Fairness

-----------------------------------------------------------------------------
(* Properties.                                                             *)

ReadLabels  == {"read", "rtaken", "rempty", "rreset", "got"}
WriteLabels == {"write", "wdone", "wfull", "wreset", "wnotify"}
WorkerLabels  == {"unborn", "test", "auto", "autodue", "autodec", "autostamp", "left",
                  "post", "exited"} \cup ReadLabels \cup WriteLabels
AppLabels     == {"idle", "rnotify", "dloop", "dread", "dsleep", "gone"}
                   \cup ReadLabels \cup WriteLabels
MonitorLabels == {"test", "mread", "mstop", "inc", "create", "incend", "dec"} \cup WriteLabels

PcOK == /\ pc \in [Threads -> WorkerLabels \cup AppLabels \cup MonitorLabels]
        /\ \A w \in Workers : pc[w] \in WorkerLabels
        /\ pc[App] \in AppLabels
        /\ pc[Monitor] \in MonitorLabels

QueuesOK == /\ info \in [Threads -> Item \cup {None}]
            /\ queue \in [QNames -> Seq(Item)]
            /\ \A q \in QNames : Len(queue[q]) <= queuelen
            /\ RFcount \in [QNames -> Nat]
            /\ WFcount \in [QNames -> Nat]
            /\ Qmonitor \in Seq(Notices)
            /\ Len(Qmonitor) <= MonitorLen

PoolOK == /\ run \in BOOLEAN
          /\ ThreadLen \in -1 .. TP_MAX_COUNT
          /\ inc_due \in BOOLEAN
          /\ dec_due \in BOOLEAN
          /\ exits \in Nat
          /\ destroyed \subseteq QNames \cup {"Qmonitor", "state"}
          /\ updates \in 0 .. MaxUpdates

HistoryOK == submitted \subseteq Jobs /\ finished \subseteq Jobs /\ dropped \subseteq Jobs

\* The shared fields keep their types, the queues their capacity, each thread
\* its own code.  ThreadLen indexes state.t, which has TP_MAX_COUNT+1 elements,
\* in WorkMonitor, inc_workthread_end and dec_workthread_end without a test:
\* it never exceeds the array, but it can be -1 when inc_workthread_end starts,
\* if every worker, the new one included, has retired by then.
TypeOK == PcOK /\ QueuesOK /\ PoolOK /\ HistoryOK

\* The workers that state.ThreadLen has to count: created, and not yet through
\* dec_workthread_end.
Counted == {w \in Workers : pc[w] \notin {"unborn", "autostamp", "left"}}

\* ThreadLen, read without a lock by four callers and written by workers and
\* the monitor, is the number of workers; it lags by one exactly between
\* pthread_create and inc_workthread_end.
ThreadLenCounts ==
  ThreadLen + (IF pc[Monitor] = "incend" THEN 1 ELSE 0) = Cardinality(Counted)

\* How many times a job exists: in a queue, in the hands of a thread that will
\* still use it, returned to the application, or thrown away.
Copies(job) ==
  Cardinality({p \in QNames \X (1 .. queuelen) :
                 p[2] <= Len(queue[p[1]]) /\ queue[p[1]][p[2]] = job})
  + Cardinality({t \in Threads : info[t] = job /\ pc[t] # "wdone"})
  + (IF job \in finished THEN 1 ELSE 0)
  + (IF job \in dropped THEN 1 ELSE 0)

\* A submitted job exists exactly once until it is returned or thrown away: no
\* retry of writequeue or readqueue and no thread that leaves loses it
\* unnoticed or runs it twice.
JobConservation ==
  \A job \in Jobs : Copies(job) = IF job \in submitted THEN 1 ELSE 0

Heldby(T, L) == {info[t] : t \in {x \in T : pc[x] \in L}} \cap Jobs

Abstract == INSTANCE JobPool WITH
  MaxWaiting <- queuelen,
  MaxRunning <- TP_MAX_COUNT,
  waiting <- queue["Qwrite"],
  running <- Heldby(Workers, WorkerLabels),
  results <- queue["Qread"],
  done    <- finished \cup Heldby({App}, {"rtaken", "got"}),
  lost    <- dropped

\* The pool implements JobPool: jobs start in the order of writeThread_job, at
\* most TP_MAX_COUNT at a time, and come back at most once each.
ImplementsJobPool == Abstract!Spec

\* With workers that never retire, every submitted job leaves the pool's hands: it
\* is answered in Qread, returned, or given up after a failed write, even if the
\* application and the workers wait for each other at full queues.  Always a moment
\* comes at which this is so of all jobs submitted by then.
Settled(job) ==
  \/ job \in finished \cup dropped
  \/ \E i \in DOMAIN queue["Qread"] : queue["Qread"][i] = job
JobsSettle == []<>(\A job \in submitted : Settled(job))

\* myqueuedestroy destroys the mutexes of Qread and Qwrite only after the last
\* worker has gone, also while workers retire by themselves: the exit notices
\* it counts stand for distinct workers.  It counts every notice in Qmonitor, so
\* this is said of pools in which nobody else had a reason to post one: there
\* was no request of UpdateThreads, and no queue was found full or empty by
\* the application.
OnlyExitNotices == updates = 0 /\ ~QREAD /\ Cardinality(submitted) <= queuelen
DestroyAfterExit ==
  pc[App] \in {"dsleep", "gone"} /\ OnlyExitNotices
    => \A w \in Workers : pc[w] \in {"unborn", "exited", "left", "autostamp"}

-----------------------------------------------------------------------------
(* What comments, documentation and tests say of the pool and the code does *)
(* not do.                                                                  *)

\* threadpool.c:410 takes FLAG_FAIL_READ for "read from queue idle?": a worker
\* that gets it has no job.
FailReadMeansIdle == \A w \in Workers : pc[w] = "rreset" => info[w] = None

\* tests/main.c:350 uses what myqueuedestroy returns: it returns.
DestroyReturns == (pc[App] = "dloop") ~> (pc[App] = "gone")
=============================================================================
