------------------------------ MODULE JobPool ------------------------------
(***************************************************************************)
(* What the pool of lib/TPdynamic promises the application for its jobs:   *)
(* accepted jobs wait in a bounded queue, start in the order in which they *)
(* were accepted, at most MaxRunning at a time, and each one either comes  *)
(* back once or is lost; none runs twice.                                  *)
(***************************************************************************)
EXTENDS Naturals, Sequences, FiniteSets

CONSTANTS Jobs, MaxWaiting, MaxRunning

VARIABLES waiting,   \* jobs accepted and not started, oldest first
          running,   \* jobs in the hands of a worker
          results,   \* finished jobs the application has not fetched yet
          done,      \* jobs the application has back, or that needed no answer
          lost       \* jobs that will never come back

vars == <<waiting, running, results, done, lost>>

Init == /\ waiting = <<>>
        /\ running = {}
        /\ results = <<>>
        /\ done = {}
        /\ lost = {}

Known == {waiting[i] : i \in DOMAIN waiting} \cup running
           \cup {results[i] : i \in DOMAIN results} \cup done \cup lost

Submit(job) ==
  /\ job \notin Known
  /\ Len(waiting) < MaxWaiting
  /\ waiting' = Append(waiting, job)
  /\ UNCHANGED <<running, results, done, lost>>

Start ==
  /\ waiting # <<>>
  /\ Cardinality(running) < MaxRunning
  /\ running' = running \cup {Head(waiting)}
  /\ waiting' = Tail(waiting)
  /\ UNCHANGED <<results, done, lost>>

Answer(job) ==
  /\ job \in running
  /\ Len(results) < MaxWaiting
  /\ running' = running \ {job}
  /\ results' = Append(results, job)
  /\ UNCHANGED <<waiting, done, lost>>

Finish(job) ==
  /\ job \in running
  /\ running' = running \ {job}
  /\ done' = done \cup {job}
  /\ UNCHANGED <<waiting, results, lost>>

Lose(job) ==
  /\ job \in running
  /\ running' = running \ {job}
  /\ lost' = lost \cup {job}
  /\ UNCHANGED <<waiting, results, done>>

Fetch ==
  /\ results # <<>>
  /\ done' = done \cup {Head(results)}
  /\ results' = Tail(results)
  /\ UNCHANGED <<waiting, running, lost>>

Next == \/ \E job \in Jobs : Submit(job) \/ Answer(job) \/ Finish(job) \/ Lose(job)
        \/ Start
        \/ Fetch

Spec == Init /\ [][Next]_vars
=============================================================================
