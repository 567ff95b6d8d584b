------------------------------ MODULE TaskPool ------------------------------
(***************************************************************************)
(* What osgGIS::TaskManager promises to the code that queues tasks         *)
(* (src/src/osgGIS/TaskManager, the comments of queueTask, wait and        *)
(* getNextCompletedTask): tasks leave the queue in the order in which they *)
(* were queued, every one that leaves it runs, once, every one that ran is *)
(* handed back, once, and "there is no more" is said only when it is true. *)
(***************************************************************************)
EXTENDS Naturals, Sequences, Functions

CONSTANT Tasks  \* the tasks that may be queued

VARIABLES
  queue,     \* tasks waiting, the oldest first
  running,   \* tasks that left the queue and have not completed
  finished,  \* tasks that completed and wait to be handed back
  returned,  \* tasks that were handed back
  discarded, \* tasks taken out of the queue without running
  drained    \* has the pool said that there are no more tasks?

poolVars == <<queue, running, finished, returned, discarded, drained>>

Known == Range(queue) \cup running \cup Range(finished) \cup returned
           \cup discarded

PoolInit ==
  /\ queue = <<>>
  /\ running = {}
  /\ finished = <<>>
  /\ returned = {}
  /\ discarded = {}
  /\ drained = FALSE

Submit(k) ==
  /\ k \notin Known
  /\ queue' = Append(queue, k)
  /\ drained' = FALSE
  /\ UNCHANGED <<running, finished, returned, discarded>>

\* The whole queue is thrown away, or its head is not a task that can run.
Discard(n) ==
  /\ n \in 1..Len(queue)
  /\ discarded' = discarded \cup {queue[i] : i \in 1..n}
  /\ queue' = SubSeq(queue, n + 1, Len(queue))
  /\ UNCHANGED <<running, finished, returned, drained>>

Begin ==
  /\ queue # <<>>
  /\ running' = running \cup {Head(queue)}
  /\ queue' = Tail(queue)
  /\ UNCHANGED <<finished, returned, discarded, drained>>

Complete(k) ==
  /\ k \in running
  /\ running' = running \ {k}
  /\ finished' = Append(finished, k)
  /\ UNCHANGED <<queue, returned, discarded, drained>>

HandBack ==
  /\ finished # <<>>
  /\ returned' = returned \cup {Head(finished)}
  /\ finished' = Tail(finished)
  /\ UNCHANGED <<queue, running, discarded, drained>>

SayDrained ==
  /\ queue = <<>>
  /\ running = {}
  /\ finished = <<>>
  /\ drained' = TRUE
  /\ UNCHANGED <<queue, running, finished, returned, discarded>>

PoolNext ==
  \/ \E k \in Tasks : Submit(k) \/ Complete(k)
  \/ \E n \in 1..Len(queue) : Discard(n)
  \/ Begin
  \/ HandBack
  \/ SayDrained

PoolSpec == PoolInit /\ [][PoolNext]_poolVars
=============================================================================
