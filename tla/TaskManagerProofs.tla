------------------------- MODULE TaskManagerProofs -------------------------
(***************************************************************************)
(* Proofs about TaskManager, for any tasks, any number of threads and all  *)
(* the switches.  In the first part nothing is assumed of the scheduler,   *)
(* threads may die and the manager may be destroyed at any time.  The last *)
(* two sections are about workers that are prompt: no task is lost, and    *)
(* the manager refines TaskPool.                                           *)
(***************************************************************************)
EXTENDS TaskManager, QueueLemmas, FiniteSetTheorems

-----------------------------------------------------------------------------
(***************************************************************************)
(* The invariant that is proved by induction.                              *)
(***************************************************************************)
ManagerTypeInv ==
  /\ mpc \in ManagerPositions
  /\ num_threads \in 0..MaxThreads
  /\ cur \in 1..(MaxThreads + 1)
  /\ mpc \in {"dispatch", "offer", "assign", "orphan", "join"} => cur \in Threads
  /\ mpc \in {"collect", "dispose"} => cur \in 1..(num_threads + 1)
  /\ final \in BOOLEAN
  /\ held \in Tasks \cup {NoTask}
  /\ mpc \in {"offer", "assign", "inline"} => held \in Tasks

QueueTypeInv ==
  /\ pending_tasks \in Seq(Tasks)
  /\ completed_tasks \in Seq(Tasks)
  /\ num_running_tasks \in Int
  /\ activity_signals \in Nat

ThreadTypeInv ==
  /\ tpc \in [ThreadIds -> WorkerPositions]
  /\ state \in [ThreadIds -> States]
  /\ task \in [ThreadIds -> Tasks \cup {NoTask}]
  /\ exec \in [ThreadIds -> Tasks \cup {NoTask}]
  /\ run_signals \in [ThreadIds -> Nat]

HistoryTypeInv ==
  /\ submitted \subseteq Tasks /\ dispatched \subseteq Tasks
  /\ started \subseteq Tasks /\ ran \subseteq Tasks
  /\ failed \subseteq Tasks /\ returned \subseteq Tasks
  /\ discarded \subseteq Tasks

(***************************************************************************)
(* What the threads hold, as far as it takes part in the count of the      *)
(* running tasks: the tasks they hold are dispatched and all different,    *)
(* and a state RUNNING or RESULT_READY comes with a task.  A NULL task     *)
(* takes the last one away, and the process with it.                       *)
(***************************************************************************)
HeldInv ==
  /\ \A t \in ThreadIds : task[t] # NoTask => task[t] \in dispatched
  /\ \A t, u \in ThreadIds : t # u /\ task[t] # NoTask => task[t] # task[u]
  /\ mpc \in {"offer", "assign"} =>
       held \in dispatched /\ \A t \in ThreadIds : task[t] # held
PositionInv ==
  mpc # "crashed" =>
    \A t \in ThreadIds :
      /\ state[t] \in {"RUNNING", "RESULT_READY"} => task[t] # NoTask
      /\ tpc[t] \in {"claim", "running"} => task[t] # NoTask
      /\ tpc[t] \in {"claim", "start", "ready"} => state[t] \in {"READY", "EXIT"}
      /\ tpc[t] = "running" => state[t] \in {"RUNNING", "EXIT"}
      /\ tpc[t] = "running" => exec[t] # NoTask

(***************************************************************************)
(* The books of the manager: every task that was queued is in one place,   *)
(* and num_running_tasks is the number of those that are dispatched.       *)
(***************************************************************************)
CountInv ==
  /\ IsFiniteSet(dispatched)
  /\ num_running_tasks = Cardinality(dispatched)

PlacedInv ==
  submitted = Range(pending_tasks) \cup dispatched \cup InlineTask
                \cup Range(completed_tasks) \cup returned \cup discarded

(***************************************************************************)
(* A task that has yet to start: in the queue, in the hands of update(),   *)
(* or with a thread that is READY or on its way to READY or RUNNING.       *)
(***************************************************************************)
StartInv ==
  /\ started \subseteq submitted
  /\ started \cap Range(pending_tasks) = {}
  /\ mpc \in {"offer", "assign"} => held \notin started
  /\ \A t \in ThreadIds :
       state[t] = "READY" \/ tpc[t] \in {"start", "ready", "claim"}
         => task[t] \notin started

IInv ==
  /\ ManagerTypeInv /\ QueueTypeInv /\ ThreadTypeInv /\ HistoryTypeInv
  /\ HeldInv /\ PositionInv
  /\ CountInv /\ PlacedInv /\ OnePlaceEach /\ FalseMeansDone
  /\ StartInv

-----------------------------------------------------------------------------
\* Any step of a worker.
WorkerAction(t) ==
  \/ WorkerStart(t) \/ WorkerReady(t) \/ WorkerWakes(t) \/ WorkerChecks(t)
  \/ WorkerClaims(t) \/ WorkerFinishes(t) \/ WorkerDies(t) \/ WorkerSignals(t)
  \/ WorkerLoops(t)

(***************************************************************************)
(* The actions, as one list.                                               *)
(***************************************************************************)
LEMMA NextCases ==
  ASSUME [Next]_vars
  PROVE  \/ Collect \/ Dispatch \/ Offer \/ Assign \/ Orphan \/ UpdateDone
         \/ Pop \/ InlineDone \/ Decide \/ Unblock \/ BlockTimeout
         \/ Dispose \/ Join \/ Destroyed
         \/ (\E k \in Tasks : QueueTask(k))
         \/ CancelPendingTasks \/ GetNextCompletedTask \/ Wait \/ Destroy
         \/ (\E t \in ThreadIds : WorkerAction(t))
         \/ UNCHANGED vars
BY DEF Next, ManagerStep, ClientStep, WorkerStep, WorkerAction

(***************************************************************************)
(* What the steps of a worker leave alone.                                 *)
(***************************************************************************)
LEMMA WorkersLeaveManager ==
  \A t \in ThreadIds :
    WorkerAction(t) =>
      /\ mpc # "crashed"
      /\ UNCHANGED <<managerVars, queueVars, clientVars, dispatched, failed>>
BY DEF WorkerAction, WorkerStart, WorkerReady, WorkerWakes, WorkerChecks,
   WorkerClaims, WorkerFinishes, WorkerDies, WorkerSignals, WorkerLoops, Step

LEMMA TypeInit ==
  Init => ManagerTypeInv /\ QueueTypeInv /\ ThreadTypeInv /\ HistoryTypeInv
<1> SUFFICES ASSUME Init
             PROVE  ManagerTypeInv /\ QueueTypeInv /\ ThreadTypeInv
                      /\ HistoryTypeInv
  OBVIOUS
<1>1. ManagerTypeInv
  <2>1. mpc = "idle" /\ cur = 1 /\ final = FALSE /\ held = NoTask
    BY DEF Init
  <2>2. num_threads \in 0..MaxThreads /\ 1 \in 1..(MaxThreads + 1)
    BY ThreadsAssumption DEF Init
  <2>. QED
    BY <2>1, <2>2 DEF ManagerTypeInv, ManagerPositions
<1>2. QueueTypeInv
  BY DEF Init, QueueTypeInv
<1>3. ThreadTypeInv
  BY DEF Init, ThreadTypeInv, WorkerPositions, States
<1>4. HistoryTypeInv
  BY DEF Init, HistoryTypeInv
<1>. QED
  BY <1>1, <1>2, <1>3, <1>4

(***************************************************************************)
(* The manager stays within the list of its threads.                       *)
(***************************************************************************)
LEMMA ManagerTypeStep ==
  ManagerTypeInv /\ QueueTypeInv /\ [Next]_vars => ManagerTypeInv'
<1> SUFFICES ASSUME ManagerTypeInv, QueueTypeInv, [Next]_vars
             PROVE  ManagerTypeInv'
  OBVIOUS
<1> USE ThreadsAssumption DEF ManagerTypeInv, Threads, multi_threaded
<1>1. CASE Collect
  BY <1>1 DEF Collect, Goto, ManagerPositions
<1>2. CASE Dispatch
  <2>1. pending_tasks # <<>> => Head(pending_tasks) \in Tasks
    BY TakeFromQueue DEF QueueTypeInv
  <2>. QED
    BY <1>2, <2>1 DEF Dispatch, Take, TakeNone, DispatchFrame,
       ManagerPositions
<1>3. CASE Offer
  BY <1>3 DEF Offer, LogStarted, ManagerPositions
<1>4. CASE Assign
  BY <1>4 DEF Assign, LogStarted, ManagerPositions
<1>5. CASE Orphan
  BY <1>5 DEF Orphan, OrphanFrame, ManagerPositions
<1>6. CASE UpdateDone
  BY <1>6 DEF UpdateDone, Goto, ManagerPositions
<1>7. CASE Pop
  <2>1. pending_tasks # <<>> => Head(pending_tasks) \in Tasks
    BY TakeFromQueue DEF QueueTypeInv
  <2>. QED
    BY <1>7, <2>1 DEF Pop, ManagerPositions
<1>8. CASE InlineDone
  BY <1>8 DEF InlineDone, ManagerPositions
<1>9. CASE Decide
  BY <1>9 DEF Decide, Goto, ManagerPositions
<1>10. CASE Unblock
  BY <1>10 DEF Unblock, SecondUpdate, ManagerPositions
<1>11. CASE BlockTimeout
  BY <1>11 DEF BlockTimeout, SecondUpdate, ManagerPositions
<1>12. CASE Dispose
  BY <1>12 DEF Dispose, Goto, ManagerPositions
<1>13. CASE Join
  BY <1>13 DEF Join, ManagerPositions
<1>14. CASE Destroyed
  BY <1>14 DEF Destroyed, Goto, ManagerPositions
<1>15. ASSUME NEW k \in Tasks, QueueTask(k) PROVE ManagerTypeInv'
  BY <1>15 DEF QueueTask, ManagerPositions
<1>16. CASE CancelPendingTasks
  BY <1>16 DEF CancelPendingTasks, managerVars
<1>17. CASE GetNextCompletedTask
  BY <1>17 DEF GetNextCompletedTask, ManagerPositions
<1>18. CASE Wait
  <2>1. mpc' \in {"collect", "pop"} /\ cur' = 1 /\ final' = FALSE
    BY <1>18 DEF Wait
  <2>2. UNCHANGED <<num_threads, held>>
    BY <1>18 DEF Wait
  <2>3. 1 \in 1..(MaxThreads + 1) /\ 1 \in 1..(num_threads + 1)
    OBVIOUS
  <2>. QED
    BY <2>1, <2>2, <2>3 DEF ManagerPositions
<1>19. CASE Destroy
  BY <1>19 DEF Destroy, ManagerPositions
<1>20. CASE UNCHANGED managerVars
  BY <1>20 DEF managerVars
<1>. QED
  BY <1>1, <1>2, <1>3, <1>4, <1>5, <1>6, <1>7, <1>8, <1>9, <1>10, <1>11,
     <1>12, <1>13, <1>14, <1>15, <1>16, <1>17, <1>18, <1>19, <1>20,
     NextCases, WorkersLeaveManager DEF vars

(***************************************************************************)
(* The queues hold tasks only.                                             *)
(***************************************************************************)
LEMMA QueueTypeStep ==
  ManagerTypeInv /\ QueueTypeInv /\ ThreadTypeInv /\ PositionInv /\ [Next]_vars
    => QueueTypeInv'
<1> SUFFICES ASSUME ManagerTypeInv, QueueTypeInv, ThreadTypeInv, PositionInv,
                    [Next]_vars
             PROVE  QueueTypeInv'
  OBVIOUS
<1> USE DEF QueueTypeInv
<1>1. CASE Collect
  <2>1. cur \in ThreadIds
    BY <1>1, ThreadsAssumption
       DEF Collect, ManagerTypeInv, Threads, ThreadIds
  <2>2. CASE state[cur] = "RESULT_READY"
    <3>1. task[cur] \in Tasks
      BY <1>1, <2>1, <2>2 DEF Collect, PositionInv, ThreadTypeInv
    <3>2. Append(completed_tasks, task[cur]) \in Seq(Tasks)
      BY <3>1, AppendToQueue
    <3>3. /\ completed_tasks' = Append(completed_tasks, task[cur])
          /\ num_running_tasks' = num_running_tasks - 1
          /\ UNCHANGED <<pending_tasks, activity_signals>>
      BY <1>1, <2>2 DEF Collect, Completes
    <3>. QED
      BY <3>2, <3>3
  <2>3. CASE state[cur] # "RESULT_READY"
    BY <1>1, <2>3 DEF Collect, NothingCompletes
  <2>. QED
    BY <2>2, <2>3
<1>2. CASE Dispatch
  <2>1. CASE state[cur] = "READY" /\ pending_tasks # <<>>
    <3>1. Tail(pending_tasks) \in Seq(Tasks)
      BY <2>1, TakeFromQueue
    <3>2. /\ pending_tasks' = Tail(pending_tasks)
          /\ num_running_tasks' = num_running_tasks + 1
          /\ UNCHANGED <<completed_tasks, activity_signals>>
      BY <1>2, <2>1 DEF Dispatch, Take, DispatchFrame
    <3>. QED
      BY <3>1, <3>2
  <2>2. CASE state[cur] # "READY" \/ pending_tasks = <<>>
    BY <1>2, <2>2 DEF Dispatch, TakeNone, DispatchFrame
  <2>. QED
    BY <2>1, <2>2
<1>3. CASE Orphan
  <2>1. cur \in ThreadIds
    BY <1>3, ThreadsAssumption
       DEF Orphan, ManagerTypeInv, Threads, ThreadIds
  <2>2. CASE state[cur] = "RUNNING" /\ tpc[cur] = "dead"
    <3>1. task[cur] \in Tasks
      BY <1>3, <2>1, <2>2 DEF Orphan, PositionInv, ThreadTypeInv
    <3>2. Append(completed_tasks, task[cur]) \in Seq(Tasks)
      BY <3>1, AppendToQueue
    <3>3. /\ completed_tasks' = Append(completed_tasks, task[cur])
          /\ num_running_tasks' = num_running_tasks - 1
          /\ UNCHANGED <<pending_tasks, activity_signals>>
      BY <1>3, <2>2 DEF Orphan, OrphanFrame, Completes
    <3>. QED
      BY <3>2, <3>3
  <2>3. CASE state[cur] # "RUNNING" \/ tpc[cur] # "dead"
    BY <1>3, <2>3 DEF Orphan, OrphanFrame, NothingCompletes
  <2>. QED
    BY <2>2, <2>3
<1>4. CASE Pop
  <2>1. pending_tasks # <<>> => Tail(pending_tasks) \in Seq(Tasks)
    BY TakeFromQueue
  <2>. QED
    BY <1>4, <2>1 DEF Pop
<1>5. CASE InlineDone
  <2>1. held \in Tasks
    BY <1>5 DEF InlineDone, ManagerTypeInv
  <2>2. Append(completed_tasks, held) \in Seq(Tasks)
    BY <2>1, AppendToQueue
  <2>. QED
    BY <1>5, <2>2 DEF InlineDone
<1>6. CASE Unblock
  BY <1>6 DEF Unblock, SecondUpdate, queueVars
<1>7. ASSUME NEW k \in Tasks, QueueTask(k) PROVE QueueTypeInv'
  <2>1. Append(pending_tasks, k) \in Seq(Tasks)
    BY AppendToQueue
  <2>. QED
    BY <1>7, <2>1 DEF QueueTask
<1>8. CASE CancelPendingTasks
  BY <1>8 DEF CancelPendingTasks
<1>9. CASE GetNextCompletedTask
  <2>1. completed_tasks # <<>> => Tail(completed_tasks) \in Seq(Tasks)
    BY TakeFromQueue
  <2>. QED
    BY <1>9, <2>1 DEF GetNextCompletedTask
<1>10. ASSUME NEW t \in ThreadIds, WorkerSignals(t) PROVE QueueTypeInv'
  BY <1>10 DEF WorkerSignals, Step, queueVars
<1>11. CASE UNCHANGED <<queueVars, activity_signals>>
  BY <1>11 DEF queueVars
<1>. QED
  <2>1. Offer \/ Assign \/ UpdateDone \/ Decide \/ BlockTimeout \/ Dispose
          \/ Join \/ Destroyed \/ Wait \/ Destroy \/ UNCHANGED vars
          => UNCHANGED <<queueVars, activity_signals>>
    BY DEF Offer, Assign, UpdateDone, Decide, BlockTimeout, SecondUpdate,
       Dispose, Join, Destroyed, Wait, Destroy, vars
  <2>2. \A t \in ThreadIds :
          WorkerStart(t) \/ WorkerReady(t) \/ WorkerWakes(t) \/ WorkerChecks(t)
            \/ WorkerClaims(t) \/ WorkerFinishes(t) \/ WorkerDies(t)
            \/ WorkerLoops(t)
          => UNCHANGED <<queueVars, activity_signals>>
    BY DEF WorkerStart, WorkerReady, WorkerWakes, WorkerChecks, WorkerClaims,
       WorkerFinishes, WorkerDies, WorkerLoops, Step
  <2>. QED
    BY <1>1, <1>2, <1>3, <1>4, <1>5, <1>6, <1>7, <1>8, <1>9, <1>10, <1>11,
       <2>1, <2>2, NextCases DEF WorkerAction

(***************************************************************************)
(* Which thread update() and ~TaskManager() are looking at.                *)
(***************************************************************************)
LEMMA CurrentThread ==
  ASSUME ManagerTypeInv, Collect \/ Assign \/ Orphan \/ Dispose
  PROVE  cur \in ThreadIds
BY ThreadsAssumption
   DEF ManagerTypeInv, Collect, Assign, Orphan, Dispose, Threads, ThreadIds

\* The manager's actions that leave the threads alone.
LEMMA ThreadsLeftAlone ==
  ASSUME \/ Dispatch \/ Offer \/ UpdateDone \/ Pop \/ InlineDone \/ Decide
         \/ Unblock \/ BlockTimeout \/ Join \/ Destroyed
         \/ (\E k \in Tasks : QueueTask(k))
         \/ CancelPendingTasks \/ GetNextCompletedTask \/ Wait \/ Destroy
         \/ UNCHANGED vars
  PROVE  UNCHANGED threadVars
BY DEF Dispatch, DispatchFrame, Offer, UpdateDone, Pop, InlineDone, Decide,
   Unblock, BlockTimeout, SecondUpdate, Join, Destroyed, QueueTask,
   CancelPendingTasks, GetNextCompletedTask, Wait, Destroy, vars

LEMMA ThreadTypeStep ==
  ManagerTypeInv /\ ThreadTypeInv /\ [Next]_vars => ThreadTypeInv'
<1> SUFFICES ASSUME ManagerTypeInv, ThreadTypeInv, [Next]_vars
             PROVE  ThreadTypeInv'
  OBVIOUS
<1>1. CASE Collect
  BY <1>1 DEF ThreadTypeInv, Collect, Completes, NothingCompletes, States
<1>2. CASE Assign
  <2>1. Pointer(held) \in Tasks \cup {NoTask}
    BY DEF ManagerTypeInv, Pointer
  <2>2. cur \in ThreadIds
    BY <1>2, CurrentThread
  <2>. QED
    BY <1>2, <2>1, <2>2 DEF ThreadTypeInv, Assign
<1>3. CASE Orphan
  BY <1>3 DEF ThreadTypeInv, Orphan, OrphanFrame, Completes, NothingCompletes,
     States, WorkerPositions
<1>4. CASE Dispose
  BY <1>4, CurrentThread DEF ThreadTypeInv, Dispose, States
<1>5. ASSUME NEW t \in ThreadIds, WorkerAction(t) PROVE ThreadTypeInv'
  <2> USE DEF ThreadTypeInv, Step, WorkerPositions, States
  <2>1. CASE WorkerStart(t)
    BY <2>1 DEF WorkerStart
  <2>2. CASE WorkerReady(t)
    BY <2>2 DEF WorkerReady
  <2>3. CASE WorkerWakes(t)
    BY <2>3 DEF WorkerWakes
  <2>4. CASE WorkerChecks(t)
    BY <2>4 DEF WorkerChecks
  <2>5. CASE WorkerClaims(t)
    BY <2>5 DEF WorkerClaims
  <2>6. CASE WorkerFinishes(t)
    BY <2>6 DEF WorkerFinishes
  <2>7. CASE WorkerDies(t)
    BY <2>7 DEF WorkerDies
  <2>8. CASE WorkerSignals(t)
    BY <2>8 DEF WorkerSignals
  <2>9. CASE WorkerLoops(t)
    BY <2>9 DEF WorkerLoops
  <2>. QED
    BY <1>5, <2>1, <2>2, <2>3, <2>4, <2>5, <2>6, <2>7, <2>8, <2>9
       DEF WorkerAction
<1>6. CASE UNCHANGED threadVars
  BY <1>6 DEF ThreadTypeInv, threadVars
<1>. QED
  BY <1>1, <1>2, <1>3, <1>4, <1>5, <1>6, NextCases, ThreadsLeftAlone

-----------------------------------------------------------------------------
(***************************************************************************)
(* Tasks do not vanish from the hands of a thread that is to run one, is   *)
(* running it or has its result; only a NULL task can take one away.       *)
(***************************************************************************)
LEMMA PositionStep ==
  ManagerTypeInv /\ ThreadTypeInv /\ PositionInv /\ [Next]_vars => PositionInv'
<1> SUFFICES ASSUME ManagerTypeInv, ThreadTypeInv, PositionInv, [Next]_vars,
                    mpc' # "crashed"
             PROVE  PositionInv'
  BY DEF PositionInv
<1> USE DEF ThreadTypeInv
<1>1. CASE Collect
  BY <1>1, CurrentThread
     DEF PositionInv, Collect, Goto, Completes, NothingCompletes
<1>2. CASE Assign
  <2>1. Pointer(held) # NoTask
    <3>1. held \in Tasks /\ held \notin NullTasks
      BY <1>2 DEF Assign, LogStarted, ManagerTypeInv
    <3>. QED
      BY <3>1, TasksAssumption DEF Pointer
  <2>. QED
    BY <1>2, <2>1, CurrentThread DEF PositionInv, Assign
<1>3. CASE Orphan
  BY <1>3, CurrentThread
     DEF PositionInv, Orphan, OrphanFrame, Completes, NothingCompletes
<1>4. CASE Dispose
  BY <1>4, CurrentThread DEF PositionInv, Dispose
<1>5. ASSUME NEW t \in ThreadIds, WorkerAction(t) PROVE PositionInv'
  <2> USE <1>5, WorkersLeaveManager DEF PositionInv, Step
  <2>1. CASE WorkerStart(t)
    BY <2>1 DEF WorkerStart
  <2>2. CASE WorkerReady(t)
    BY <2>2 DEF WorkerReady
  <2>3. CASE WorkerWakes(t)
    BY <2>3 DEF WorkerWakes
  <2>4. CASE WorkerChecks(t)
    BY <2>4 DEF WorkerChecks
  <2>5. CASE WorkerClaims(t)
    BY <2>5 DEF WorkerClaims
  <2>6. CASE WorkerFinishes(t)
    BY <2>6 DEF WorkerFinishes
  <2>7. CASE WorkerDies(t)
    BY <2>7 DEF WorkerDies
  <2>8. CASE WorkerSignals(t)
    BY <2>8 DEF WorkerSignals
  <2>9. CASE WorkerLoops(t)
    BY <2>9 DEF WorkerLoops
  <2>. QED
    BY <2>1, <2>2, <2>3, <2>4, <2>5, <2>6, <2>7, <2>8, <2>9
       DEF WorkerAction
<1>6. CASE UNCHANGED threadVars /\ mpc # "crashed"
  BY <1>6 DEF PositionInv, threadVars
<1>7. UNCHANGED vars \/ mpc # "crashed"
  BY NextCases, WorkersLeaveManager
     DEF Collect, Dispatch, Offer, Assign, Orphan, UpdateDone, Pop, InlineDone,
         Decide, Unblock, BlockTimeout, Dispose, Join, Destroyed, QueueTask,
         CancelPendingTasks, GetNextCompletedTask, Wait, Destroy
<1>8. CASE UNCHANGED vars
  BY <1>8 DEF vars, managerVars, threadVars, PositionInv
<1>. QED
  BY <1>1, <1>2, <1>3, <1>4, <1>5, <1>6, <1>7, <1>8, NextCases,
     ThreadsLeftAlone

-----------------------------------------------------------------------------
(***************************************************************************)
(* The sets of the history hold tasks.                                     *)
(***************************************************************************)
LEMMA HistoryTypeStep ==
  /\ ManagerTypeInv /\ QueueTypeInv /\ ThreadTypeInv /\ HistoryTypeInv
  /\ PositionInv /\ [Next]_vars
  => HistoryTypeInv'
<1> SUFFICES ASSUME ManagerTypeInv, QueueTypeInv, ThreadTypeInv,
                    HistoryTypeInv, PositionInv, [Next]_vars
             PROVE  HistoryTypeInv'
  OBVIOUS
<1> USE DEF HistoryTypeInv
<1>1. CASE Collect
  BY <1>1 DEF Collect, Completes, NothingCompletes, clientVars
<1>2. CASE Dispatch
  <2>1. pending_tasks # <<>> => Head(pending_tasks) \in Tasks
    BY TakeFromQueue DEF QueueTypeInv
  <2>. QED
    BY <1>2, <2>1 DEF Dispatch, Take, TakeNone, DispatchFrame, clientVars
<1>3. CASE Orphan
  <2>1. state[cur] = "RUNNING" => task[cur] \in Tasks
    BY <1>3, CurrentThread DEF Orphan, PositionInv, ThreadTypeInv
  <2>. QED
    BY <1>3, <2>1
       DEF Orphan, OrphanFrame, Completes, NothingCompletes, clientVars
<1>4. CASE Pop
  <2>1. pending_tasks # <<>> => Head(pending_tasks) \in Tasks
    BY TakeFromQueue DEF QueueTypeInv
  <2>. QED
    BY <1>4, <2>1 DEF Pop
<1>5. CASE InlineDone
  BY <1>5 DEF InlineDone, ManagerTypeInv, clientVars
<1>6. ASSUME NEW k \in Tasks, QueueTask(k) PROVE HistoryTypeInv'
  BY <1>6 DEF QueueTask, runVars
<1>7. CASE CancelPendingTasks
  BY <1>7, QueueRange DEF CancelPendingTasks, QueueTypeInv, runVars
<1>8. CASE GetNextCompletedTask
  <2>1. completed_tasks # <<>> => Head(completed_tasks) \in Tasks
    BY TakeFromQueue DEF QueueTypeInv
  <2>. QED
    BY <1>8, <2>1 DEF GetNextCompletedTask, runVars
<1>9. ASSUME NEW t \in ThreadIds, WorkerClaims(t) PROVE HistoryTypeInv'
  BY <1>9 DEF WorkerClaims, Step, PositionInv, ThreadTypeInv, clientVars
<1>10. ASSUME NEW t \in ThreadIds, WorkerFinishes(t) PROVE HistoryTypeInv'
  BY <1>10 DEF WorkerFinishes, Step, PositionInv, ThreadTypeInv, clientVars
<1>11. CASE UNCHANGED <<clientVars, runVars>>
  BY <1>11 DEF clientVars, runVars
<1>. QED
  <2>1. Offer \/ Assign \/ UpdateDone \/ Decide \/ Unblock \/ BlockTimeout
          \/ Dispose \/ Join \/ Destroyed \/ Wait \/ Destroy \/ UNCHANGED vars
          => UNCHANGED <<clientVars, runVars>>
    BY DEF Offer, Assign, UpdateDone, Decide, Unblock, BlockTimeout,
       SecondUpdate, Dispose, Join, Destroyed, Wait, Destroy, vars
  <2>2. \A t \in ThreadIds :
          WorkerStart(t) \/ WorkerReady(t) \/ WorkerWakes(t) \/ WorkerChecks(t)
            \/ WorkerDies(t) \/ WorkerSignals(t) \/ WorkerLoops(t)
          => UNCHANGED <<clientVars, runVars>>
    BY DEF WorkerStart, WorkerReady, WorkerWakes, WorkerChecks, WorkerDies,
       WorkerSignals, WorkerLoops, Step, runVars
  <2>. QED
    BY <1>1, <1>2, <1>3, <1>4, <1>5, <1>6, <1>7, <1>8, <1>9, <1>10, <1>11,
       <2>1, <2>2, NextCases DEF WorkerAction

-----------------------------------------------------------------------------
(***************************************************************************)
(* The tasks in the hands of the threads are dispatched and all different. *)
(* A task comes to a thread from update(), which took it from the queue,   *)
(* where no dispatched task is.                                            *)
(***************************************************************************)
LEMMA HeldStep ==
  /\ ManagerTypeInv /\ QueueTypeInv /\ ThreadTypeInv /\ HistoryTypeInv
  /\ HeldInv /\ OnePlaceEach /\ [Next]_vars
  => HeldInv'
<1> SUFFICES ASSUME ManagerTypeInv, QueueTypeInv, ThreadTypeInv,
                    HistoryTypeInv, HeldInv, OnePlaceEach, [Next]_vars
             PROVE  HeldInv'
  OBVIOUS
<1>1. CASE Collect
  BY <1>1, CurrentThread
     DEF HeldInv, ThreadTypeInv, Collect, Goto, Completes, NothingCompletes
<1>2. CASE Dispatch
  <2>1. CASE state[cur] = "READY" /\ pending_tasks # <<>>
    <3>1. Head(pending_tasks) \notin dispatched
      <4>1. Places[1] \cap Places[2] = {}
        BY DEF OnePlaceEach
      <4>2. Range(pending_tasks) \cap dispatched = {}
        BY <4>1 DEF Places
      <4>. QED
        BY <2>1, <4>2, TakeFromQueue DEF QueueTypeInv
    <3>2. Head(pending_tasks) \in Tasks
      BY <2>1, TakeFromQueue DEF QueueTypeInv
    <3>3. \A t \in ThreadIds : task[t] # Head(pending_tasks)
      BY <3>1, <3>2, TasksAssumption DEF HeldInv
    <3>. QED
      BY <1>2, <2>1, <3>3
         DEF HeldInv, Dispatch, Take, DispatchFrame, threadVars
  <2>2. CASE state[cur] # "READY" \/ pending_tasks = <<>>
    BY <1>2, <2>2 DEF HeldInv, Dispatch, TakeNone, DispatchFrame, threadVars
  <2>. QED
    BY <2>1, <2>2
<1>3. CASE Offer
  BY <1>3 DEF HeldInv, Offer, LogStarted, threadVars, runVars
<1>4. CASE Assign
  <2>1. Pointer(held) # NoTask => Pointer(held) = held
    BY DEF Pointer
  <2>. QED
    BY <1>4, <2>1, CurrentThread
       DEF HeldInv, ThreadTypeInv, Assign, LogStarted, runVars
<1>5. CASE Orphan
  BY <1>5, CurrentThread DEF HeldInv, ThreadTypeInv, Orphan, OrphanFrame,
     Completes, NothingCompletes
<1>6. CASE UpdateDone
  BY <1>6 DEF HeldInv, UpdateDone, Goto, threadVars, runVars
<1>7. CASE Pop
  BY <1>7 DEF HeldInv, Pop, threadVars
<1>8. CASE InlineDone
  BY <1>8 DEF HeldInv, InlineDone, threadVars
<1>9. CASE Decide
  BY <1>9 DEF HeldInv, Decide, Goto, threadVars, runVars
<1>10. CASE Unblock
  BY <1>10 DEF HeldInv, Unblock, SecondUpdate, threadVars, runVars
<1>11. CASE BlockTimeout
  BY <1>11 DEF HeldInv, BlockTimeout, SecondUpdate, threadVars, runVars
<1>12. CASE Dispose
  BY <1>12 DEF HeldInv, Dispose, Goto, runVars
<1>13. CASE Join \/ Destroyed
  BY <1>13 DEF HeldInv, Join, Destroyed, Goto, threadVars, runVars
<1>14. ASSUME NEW k \in Tasks, QueueTask(k) PROVE HeldInv'
  BY <1>14 DEF HeldInv, QueueTask, threadVars, runVars
<1>15. CASE CancelPendingTasks
  BY <1>15 DEF HeldInv, CancelPendingTasks, managerVars, threadVars, runVars
<1>16. CASE GetNextCompletedTask
  BY <1>16 DEF HeldInv, GetNextCompletedTask, threadVars, runVars
<1>17. CASE Wait \/ Destroy
  BY <1>17 DEF HeldInv, Wait, Destroy, threadVars, runVars
<1>18. ASSUME NEW t \in ThreadIds, WorkerStart(t) PROVE HeldInv'
  BY <1>18, TasksAssumption DEF HeldInv, ManagerTypeInv, ThreadTypeInv,
     WorkerStart, Step, managerVars
<1>19. ASSUME NEW t \in ThreadIds, WorkerAction(t), ~WorkerStart(t)
       PROVE  HeldInv'
  <2>1. UNCHANGED <<mpc, held, task, dispatched>>
    BY <1>19 DEF WorkerAction, WorkerReady, WorkerWakes, WorkerChecks,
       WorkerClaims, WorkerFinishes, WorkerDies, WorkerSignals, WorkerLoops,
       Step, managerVars
  <2>. QED
    BY <2>1 DEF HeldInv
<1>20. CASE UNCHANGED vars
  BY <1>20 DEF HeldInv, vars, managerVars, threadVars, runVars
<1>. QED
  BY <1>1, <1>2, <1>3, <1>4, <1>5, <1>6, <1>7, <1>8, <1>9, <1>10, <1>11,
     <1>12, <1>13, <1>14, <1>15, <1>16, <1>17, <1>18, <1>19, <1>20, NextCases

-----------------------------------------------------------------------------
(***************************************************************************)
(* OnePlaceEach without the tuple of the places.                           *)
(***************************************************************************)
Apart(P, D, L, C, R, X) ==
  /\ P \cap (D \cup L \cup C \cup R \cup X) = {}
  /\ D \cap (L \cup C \cup R \cup X) = {}
  /\ L \cap (C \cup R \cup X) = {}
  /\ C \cap (R \cup X) = {}
  /\ R \cap X = {}

AllApart == Apart(Range(pending_tasks), dispatched, InlineTask,
                  Range(completed_tasks), returned, discarded)

LEMMA OnePlaceApart ==
  OnePlaceEach <=> /\ AllApart
                   /\ IsInjective(pending_tasks)
                   /\ IsInjective(completed_tasks)
<1>1. (\A i, j \in 1..6 : i # j => Places[i] \cap Places[j] = {}) <=>
        /\ Places[1] \cap Places[2] = {} /\ Places[1] \cap Places[3] = {}
        /\ Places[1] \cap Places[4] = {} /\ Places[1] \cap Places[5] = {}
        /\ Places[1] \cap Places[6] = {} /\ Places[2] \cap Places[3] = {}
        /\ Places[2] \cap Places[4] = {} /\ Places[2] \cap Places[5] = {}
        /\ Places[2] \cap Places[6] = {} /\ Places[3] \cap Places[4] = {}
        /\ Places[3] \cap Places[5] = {} /\ Places[3] \cap Places[6] = {}
        /\ Places[4] \cap Places[5] = {} /\ Places[4] \cap Places[6] = {}
        /\ Places[5] \cap Places[6] = {}
  OBVIOUS
<1>2. /\ Places[1] = Range(pending_tasks) /\ Places[2] = dispatched
      /\ Places[3] = InlineTask /\ Places[4] = Range(completed_tasks)
      /\ Places[5] = returned /\ Places[6] = discarded
  BY DEF Places
<1>. QED
  BY <1>1, <1>2 DEF OnePlaceEach, AllApart, Apart

\* The same of the next state.
LEMMA OnePlaceApartNext ==
  (OnePlaceEach <=> /\ AllApart
                    /\ IsInjective(pending_tasks)
                    /\ IsInjective(completed_tasks))'
BY OnePlaceApart, PTL

(***************************************************************************)
(* The books are kept: a task moves from one place to the next, and the    *)
(* count of the running tasks moves with it.                               *)
(***************************************************************************)
Books == CountInv /\ PlacedInv /\ OnePlaceEach /\ FalseMeansDone

BookVars == <<queueVars, clientVars, dispatched, InlineTask>>

LEMMA BooksUndisturbed ==
  ASSUME Books, UNCHANGED BookVars, mpc' = "drained" => mpc = "drained"
  PROVE  Books'
<1>1. CountInv' /\ PlacedInv' /\ FalseMeansDone'
  BY DEF Books, BookVars, CountInv, PlacedInv, FalseMeansDone, queueVars,
     clientVars
<1>2. OnePlaceEach'
  BY DEF Books, BookVars, OnePlaceEach, Places, queueVars, clientVars
<1>. QED
  BY <1>1, <1>2 DEF Books

\* The tasks of the thread at hand and of the queues are where they should be.
LEMMA CompletesKeepsBooks ==
  ASSUME QueueTypeInv, ThreadTypeInv, HeldInv, Books,
         cur \in ThreadIds, task[cur] \in Tasks, Completes(cur),
         InlineTask = {}, InlineTask' = {}, mpc' # "drained",
         UNCHANGED <<clientVars, pending_tasks>>
  PROVE  Books'
<1> DEFINE k == task[cur]
<1>1. k \in dispatched
  BY TasksAssumption DEF HeldInv
<1>2. /\ Range(completed_tasks') = Range(completed_tasks) \cup {k}
      /\ k \notin Range(completed_tasks) /\ IsInjective(completed_tasks)
           => IsInjective(completed_tasks')
  BY AppendToQueue DEF QueueTypeInv, Completes
<1>3. dispatched' = dispatched \ {k}
  BY DEF Completes
<1>4. CountInv'
  <2>1. IsFiniteSet(dispatched) /\ num_running_tasks = Cardinality(dispatched)
    BY DEF Books, CountInv
  <2>2. /\ IsFiniteSet(dispatched')
        /\ Cardinality(dispatched') = Cardinality(dispatched) - 1
    BY <1>1, <1>3, <2>1, FS_RemoveElement
  <2>. QED
    BY <2>1, <2>2 DEF CountInv, Completes
<1>5. PlacedInv'
  BY <1>1, <1>2, <1>3 DEF Books, PlacedInv, clientVars
<1>6. OnePlaceEach'
  <2>1. /\ AllApart /\ IsInjective(pending_tasks)
        /\ IsInjective(completed_tasks)
    BY OnePlaceApart DEF Books
  <2>2. AllApart'
    BY <1>1, <1>2, <1>3, <2>1 DEF AllApart, Apart, clientVars
  <2>3. k \notin Range(completed_tasks)
    BY <1>1, <2>1 DEF AllApart, Apart
  <2>. QED
    BY <1>2, <2>1, <2>2, <2>3, OnePlaceApartNext
<1>7. FalseMeansDone'
  BY DEF FalseMeansDone
<1>. QED
  BY <1>4, <1>5, <1>6, <1>7 DEF Books

\* The head of the queue goes to a place that is not a queue.
LEMMA HeadLeavesQueue ==
  ASSUME QueueTypeInv, OnePlaceEach, pending_tasks # <<>>,
         pending_tasks' = Tail(pending_tasks)
  PROVE  /\ Head(pending_tasks) \in Tasks
         /\ Range(pending_tasks) = {Head(pending_tasks)} \cup Range(pending_tasks')
         /\ Head(pending_tasks) \notin Range(pending_tasks')
         /\ IsInjective(pending_tasks')
BY TakeFromQueue DEF QueueTypeInv, OnePlaceEach

LEMMA DispatchKeepsBooks ==
  ASSUME QueueTypeInv, Books, pending_tasks # <<>>,
         Take(Head(pending_tasks), Tail(pending_tasks)),
         InlineTask = {}, InlineTask' = {},
         UNCHANGED <<clientVars, completed_tasks>>
  PROVE  Books'
<1> DEFINE k == Head(pending_tasks)
<1>1. /\ Range(pending_tasks) = {k} \cup Range(pending_tasks')
      /\ k \notin Range(pending_tasks') /\ IsInjective(pending_tasks')
  BY HeadLeavesQueue DEF Take, Books
<1>2. /\ AllApart /\ IsInjective(completed_tasks)
  BY OnePlaceApart DEF Books
<1>3. dispatched' = dispatched \cup {k}
  BY DEF Take
<1>4. CountInv'
  <2>1. IsFiniteSet(dispatched) /\ num_running_tasks = Cardinality(dispatched)
    BY DEF Books, CountInv
  <2>2. k \notin dispatched
    BY <1>1, <1>2 DEF AllApart, Apart
  <2>3. /\ IsFiniteSet(dispatched')
        /\ Cardinality(dispatched') = Cardinality(dispatched) + 1
    BY <1>3, <2>1, <2>2, FS_AddElement
  <2>. QED
    BY <2>1, <2>3 DEF CountInv, Take
<1>5. PlacedInv'
  BY <1>1, <1>3 DEF Books, PlacedInv, clientVars
<1>6. OnePlaceEach'
  <2>1. AllApart'
    BY <1>1, <1>2, <1>3 DEF AllApart, Apart, clientVars
  <2>. QED
    BY <1>1, <1>2, <2>1, OnePlaceApartNext
<1>7. FalseMeansDone'
  BY DEF FalseMeansDone, Take
<1>. QED
  BY <1>4, <1>5, <1>6, <1>7 DEF Books

LEMMA BooksStep ==
  /\ ManagerTypeInv /\ QueueTypeInv /\ ThreadTypeInv /\ HistoryTypeInv
  /\ HeldInv /\ PositionInv /\ Books /\ [Next]_vars
  => Books'
<1> SUFFICES ASSUME ManagerTypeInv, QueueTypeInv, ThreadTypeInv,
                    HistoryTypeInv, HeldInv, PositionInv, Books, [Next]_vars
             PROVE  Books'
  OBVIOUS
<1>0. /\ AllApart /\ IsInjective(pending_tasks)
      /\ IsInjective(completed_tasks) /\ PlacedInv /\ CountInv
  BY OnePlaceApart DEF Books
<1>1. CASE Collect
  <2>1. InlineTask = {} /\ InlineTask' = {} /\ mpc' = "dispatch"
    BY <1>1 DEF Collect, Goto, InlineTask
  <2>2. CASE state[cur] = "RESULT_READY"
    <3>1. cur \in ThreadIds /\ task[cur] \in Tasks
      BY <1>1, <2>2, CurrentThread DEF Collect, PositionInv, ThreadTypeInv
    <3>. QED
      BY <1>1, <2>1, <2>2, <3>1, CompletesKeepsBooks DEF Collect
  <2>3. CASE state[cur] # "RESULT_READY"
    BY <1>1, <2>1, <2>3, BooksUndisturbed
       DEF Collect, NothingCompletes, BookVars, queueVars
  <2>. QED
    BY <2>2, <2>3
<1>2. CASE Dispatch
  <2>1. InlineTask = {} /\ InlineTask' = {} /\ mpc' # "drained"
    BY <1>2 DEF Dispatch, Take, TakeNone, InlineTask
  <2>2. CASE state[cur] = "READY" /\ pending_tasks # <<>>
    BY <1>2, <2>1, <2>2, DispatchKeepsBooks DEF Dispatch, DispatchFrame
  <2>3. CASE state[cur] # "READY" \/ pending_tasks = <<>>
    BY <1>2, <2>1, <2>3, BooksUndisturbed
       DEF Dispatch, TakeNone, DispatchFrame, BookVars, queueVars
  <2>. QED
    BY <2>2, <2>3
<1>3. CASE Orphan
  <2>1. InlineTask = {} /\ InlineTask' = {} /\ mpc' = "collect"
    BY <1>3 DEF Orphan, InlineTask
  <2>2. CASE state[cur] = "RUNNING" /\ tpc[cur] = "dead"
    <3>1. cur \in ThreadIds /\ task[cur] \in Tasks
      BY <1>3, <2>2, CurrentThread DEF Orphan, PositionInv, ThreadTypeInv
    <3>. QED
      BY <1>3, <2>1, <2>2, <3>1, CompletesKeepsBooks DEF Orphan, OrphanFrame
  <2>3. CASE state[cur] # "RUNNING" \/ tpc[cur] # "dead"
    BY <1>3, <2>1, <2>3, BooksUndisturbed
       DEF Orphan, OrphanFrame, NothingCompletes, BookVars, queueVars
  <2>. QED
    BY <2>2, <2>3
<1>4. CASE Pop
  <2>1. InlineTask = {} /\ mpc' # "drained"
    BY <1>4 DEF Pop, InlineTask
  <2>2. CASE pending_tasks = <<>>
    <3>1. InlineTask' = {}
      BY <1>4, <2>2 DEF Pop, InlineTask
    <3>. QED
      BY <1>4, <2>1, <2>2, <3>1, BooksUndisturbed
         DEF Pop, BookVars, queueVars, clientVars
  <2>3. CASE pending_tasks # <<>>
    <3> DEFINE k == Head(pending_tasks)
    <3>1. pending_tasks' = Tail(pending_tasks)
      BY <1>4, <2>3 DEF Pop
    <3>2. /\ Range(pending_tasks) = {k} \cup Range(pending_tasks')
          /\ k \notin Range(pending_tasks') /\ IsInjective(pending_tasks')
      BY <2>3, <3>1, HeadLeavesQueue DEF Books
    <3>3. UNCHANGED <<completed_tasks, num_running_tasks, submitted, returned,
                      dispatched>>
      BY <1>4 DEF Pop
    <3>4. \/ InlineTask' = {k} /\ discarded' = discarded
          \/ InlineTask' = {} /\ discarded' = discarded \cup {k}
      BY <1>4, <2>3 DEF Pop, InlineTask
    <3>5. CountInv' /\ FalseMeansDone'
      BY <1>0, <2>1, <3>3 DEF CountInv, FalseMeansDone
    <3>6. PlacedInv'
      BY <1>0, <2>1, <3>2, <3>3, <3>4 DEF PlacedInv
    <3>7. AllApart'
      BY <1>0, <2>1, <3>2, <3>3, <3>4 DEF AllApart, Apart
    <3>. QED
      BY <1>0, <3>2, <3>3, <3>5, <3>6, <3>7, OnePlaceApartNext DEF Books
  <2>. QED
    BY <2>2, <2>3
<1>5. CASE InlineDone
  <2>1. /\ InlineTask = {held} /\ InlineTask' = {} /\ held \in Tasks
        /\ mpc' # "drained"
    BY <1>5 DEF InlineDone, InlineTask, ManagerTypeInv
  <2>2. held \notin Range(completed_tasks)
    BY <1>0, <2>1 DEF AllApart, Apart
  <2>3. /\ Range(completed_tasks') = Range(completed_tasks) \cup {held}
        /\ IsInjective(completed_tasks')
    BY <1>0, <1>5, <2>1, <2>2, AppendToQueue DEF InlineDone, QueueTypeInv
  <2>4. UNCHANGED <<pending_tasks, num_running_tasks, clientVars, dispatched>>
    BY <1>5 DEF InlineDone
  <2>5. CountInv' /\ FalseMeansDone' /\ PlacedInv'
    BY <1>0, <2>1, <2>3, <2>4
       DEF CountInv, FalseMeansDone, PlacedInv, clientVars
  <2>6. AllApart'
    BY <1>0, <2>1, <2>3, <2>4 DEF AllApart, Apart, clientVars
  <2>. QED
    BY <1>0, <2>3, <2>4, <2>5, <2>6, OnePlaceApartNext DEF Books
<1>6. CASE Decide
  <2>1. UNCHANGED <<queueVars, clientVars, dispatched>>
    BY <1>6 DEF Decide, runVars
  <2>2. InlineTask = {} /\ InlineTask' = {}
    BY <1>6 DEF Decide, Goto, InlineTask
  <2>3. CountInv' /\ PlacedInv' /\ OnePlaceEach'
    BY <1>0, <2>1, <2>2, OnePlaceApartNext DEF CountInv, PlacedInv, AllApart,
       queueVars, clientVars
  <2>4. FalseMeansDone'
    <3> SUFFICES ASSUME mpc' = "drained"
                 PROVE  submitted = returned \cup discarded
      BY <2>1 DEF FalseMeansDone, clientVars
    <3>1. completed_tasks = <<>> /\ ~hasMoreTasks
      BY <1>6 DEF Decide, Goto
    <3>2. Cardinality(dispatched) \in Nat
      BY <1>0, FS_CardinalityType DEF CountInv
    <3>3. Len(pending_tasks) = 0 /\ Cardinality(dispatched) = 0
      BY <1>0, <3>1, <3>2, EmptyIffNoLength
         DEF hasMoreTasks, getNumTasks, CountInv, QueueTypeInv
    <3>4. pending_tasks = <<>> /\ dispatched = {}
      BY <1>0, <3>3, EmptyIffNoLength, FS_EmptySet DEF CountInv, QueueTypeInv
    <3>. QED
      BY <1>0, <2>2, <3>1, <3>4, EmptyQueue DEF PlacedInv
  <2>. QED
    BY <2>3, <2>4 DEF Books
<1>7. ASSUME NEW k \in Tasks, QueueTask(k) PROVE Books'
  <2>1. InlineTask = {} /\ InlineTask' = {} /\ mpc' = "idle"
    BY <1>7 DEF QueueTask, InlineTask
  <2>2. k \notin submitted /\ submitted' = submitted \cup {k}
    BY <1>7 DEF QueueTask
  <2>3. k \notin Range(pending_tasks)
    BY <1>0, <2>2 DEF PlacedInv
  <2>4. /\ Range(pending_tasks') = Range(pending_tasks) \cup {k}
        /\ IsInjective(pending_tasks')
    BY <1>0, <1>7, <2>3, AppendToQueue DEF QueueTask, QueueTypeInv
  <2>5. UNCHANGED <<completed_tasks, num_running_tasks, returned, discarded,
                    dispatched>>
    BY <1>7 DEF QueueTask, runVars
  <2>6. CountInv' /\ FalseMeansDone' /\ PlacedInv'
    BY <1>0, <2>1, <2>2, <2>4, <2>5 DEF CountInv, FalseMeansDone, PlacedInv
  <2>7. AllApart'
    BY <1>0, <2>1, <2>2, <2>4, <2>5 DEF AllApart, Apart, PlacedInv
  <2>. QED
    BY <1>0, <2>4, <2>5, <2>6, <2>7, OnePlaceApartNext DEF Books
<1>8. CASE CancelPendingTasks
  <2>1. InlineTask = {} /\ InlineTask' = {} /\ mpc' = "idle"
    BY <1>8 DEF CancelPendingTasks, InlineTask, managerVars
  <2>2. /\ Range(pending_tasks') = {} /\ IsInjective(pending_tasks')
        /\ discarded' = discarded \cup Range(pending_tasks)
    BY <1>8, EmptyQueue DEF CancelPendingTasks
  <2>3. UNCHANGED <<completed_tasks, num_running_tasks, submitted, returned,
                    dispatched>>
    BY <1>8 DEF CancelPendingTasks, runVars
  <2>4. CountInv' /\ FalseMeansDone' /\ PlacedInv'
    BY <1>0, <2>1, <2>2, <2>3 DEF CountInv, FalseMeansDone, PlacedInv
  <2>5. AllApart'
    BY <1>0, <2>1, <2>2, <2>3 DEF AllApart, Apart
  <2>. QED
    BY <1>0, <2>2, <2>3, <2>4, <2>5, OnePlaceApartNext DEF Books
<1>9. CASE GetNextCompletedTask
  <2>1. InlineTask = {} /\ InlineTask' = {} /\ mpc' = "idle"
    BY <1>9 DEF GetNextCompletedTask, InlineTask
  <2>2. CASE completed_tasks = <<>>
    BY <1>9, <2>1, <2>2, BooksUndisturbed
       DEF GetNextCompletedTask, BookVars, queueVars, clientVars, runVars
  <2>3. CASE completed_tasks # <<>>
    <3> DEFINE k == Head(completed_tasks)
    <3>1. /\ completed_tasks' = Tail(completed_tasks)
          /\ returned' = returned \cup {k}
      BY <1>9, <2>3 DEF GetNextCompletedTask
    <3>2. /\ Range(completed_tasks) = {k} \cup Range(completed_tasks')
          /\ k \notin Range(completed_tasks') /\ IsInjective(completed_tasks')
      BY <1>0, <2>3, <3>1, TakeFromQueue DEF QueueTypeInv
    <3>3. UNCHANGED <<pending_tasks, num_running_tasks, submitted, discarded,
                      dispatched>>
      BY <1>9 DEF GetNextCompletedTask, runVars
    <3>4. CountInv' /\ FalseMeansDone' /\ PlacedInv'
      BY <1>0, <2>1, <3>1, <3>2, <3>3 DEF CountInv, FalseMeansDone, PlacedInv
    <3>5. AllApart'
      BY <1>0, <2>1, <3>1, <3>2, <3>3 DEF AllApart, Apart
    <3>. QED
      BY <1>0, <3>2, <3>3, <3>4, <3>5, OnePlaceApartNext DEF Books
  <2>. QED
    BY <2>2, <2>3
<1>10. ASSUME NEW t \in ThreadIds, WorkerAction(t) PROVE Books'
  BY <1>10, WorkersLeaveManager, BooksUndisturbed
     DEF BookVars, managerVars, InlineTask
<1>11. CASE \/ Offer \/ Assign \/ UpdateDone \/ Unblock \/ BlockTimeout
            \/ Dispose \/ Join \/ Destroyed \/ Wait \/ Destroy
  <2>1. /\ UNCHANGED <<queueVars, clientVars, dispatched>>
        /\ mpc # "inline" /\ mpc' # "inline" /\ mpc' # "drained"
    BY <1>11 DEF Offer, Assign, LogStarted, UpdateDone, Unblock, BlockTimeout,
       SecondUpdate, Dispose, Join, Destroyed, Wait, Destroy, Goto, runVars
  <2>2. UNCHANGED InlineTask
    BY <2>1 DEF InlineTask
  <2>. QED
    BY <2>1, <2>2, BooksUndisturbed DEF BookVars
<1>12. CASE UNCHANGED vars
  BY <1>12, BooksUndisturbed
     DEF vars, managerVars, BookVars, runVars, InlineTask
<1>. QED
  BY <1>1, <1>2, <1>3, <1>4, <1>5, <1>6, <1>7, <1>8, <1>9, <1>10, <1>11,
     <1>12, NextCases

-----------------------------------------------------------------------------
(***************************************************************************)
(* A task has not started before it is taken from the queue, nor before    *)
(* its thread claims it; and once it has, no thread is left that could     *)
(* claim it again.                                                         *)
(***************************************************************************)
StartVars == <<started, submitted, pending_tasks, held, tpc, state, task>>

LEMMA StartUndisturbed ==
  ASSUME StartInv, UNCHANGED StartVars,
         mpc' \in {"offer", "assign"} => mpc \in {"offer", "assign"}
  PROVE  StartInv'
BY DEF StartInv, StartVars

LEMMA NoTaskNeverStarts == HistoryTypeInv => NoTask \notin started
BY TasksAssumption DEF HistoryTypeInv

LEMMA StartStep ==
  /\ ManagerTypeInv /\ QueueTypeInv /\ ThreadTypeInv /\ HistoryTypeInv
  /\ HeldInv /\ PositionInv /\ Books /\ StartInv /\ [Next]_vars
  => StartInv'
<1> SUFFICES ASSUME ManagerTypeInv, QueueTypeInv, ThreadTypeInv,
                    HistoryTypeInv, HeldInv, PositionInv, Books, StartInv,
                    [Next]_vars
             PROVE  StartInv'
  OBVIOUS
<1>0. /\ NoTask \notin started
      /\ AllApart /\ IsInjective(pending_tasks) /\ PlacedInv
  BY NoTaskNeverStarts, OnePlaceApart DEF Books
<1>1. CASE Collect
  <2>1. /\ UNCHANGED <<started, submitted, pending_tasks, tpc>>
        /\ mpc' = "dispatch" /\ cur \in ThreadIds
    BY <1>1, CurrentThread DEF Collect, Goto, clientVars
  <2>2. \A t \in ThreadIds :
          \/ task'[t] = NoTask
          \/ task'[t] = task[t] /\ state'[t] = state[t]
    BY <1>1, <2>1
       DEF Collect, Completes, NothingCompletes, ThreadTypeInv
  <2>. QED
    BY <1>0, <2>1, <2>2 DEF StartInv
<1>2. CASE Dispatch
  <2>1. UNCHANGED <<started, submitted, tpc, state, task>>
    BY <1>2 DEF Dispatch, DispatchFrame, threadVars, clientVars
  <2>2. CASE state[cur] = "READY" /\ pending_tasks # <<>>
    <3>1. held' = Head(pending_tasks) /\ pending_tasks' = Tail(pending_tasks)
      BY <1>2, <2>2 DEF Dispatch, Take
    <3>2. Range(pending_tasks) = {held'} \cup Range(pending_tasks')
      BY <2>2, <3>1, HeadLeavesQueue DEF Books
    <3>. QED
      BY <2>1, <3>2 DEF StartInv
  <2>3. CASE state[cur] # "READY" \/ pending_tasks = <<>>
    BY <1>2, <2>1, <2>3, StartUndisturbed DEF Dispatch, TakeNone, StartVars
  <2>. QED
    BY <2>2, <2>3
<1>3. CASE Offer
  <2>1. /\ UNCHANGED <<started, submitted, pending_tasks, tpc, state, task>>
        /\ mpc' \in {"offer", "assign"} => held' = held /\ mpc = "offer"
    BY <1>3
       DEF Offer, LogStarted, threadVars, clientVars, runVars, queueVars
  <2>. QED
    BY <2>1 DEF StartInv
<1>4. CASE Assign
  <2>1. /\ UNCHANGED <<started, submitted, pending_tasks, tpc, state>>
        /\ mpc' \notin {"offer", "assign"}
    BY <1>4 DEF Assign, LogStarted, clientVars, runVars, queueVars
  <2>2. Pointer(held) \notin started
    BY <1>0, <1>4 DEF Assign, Pointer, StartInv
  <2>3. \A t \in ThreadIds : task'[t] \in {task[t], Pointer(held)}
    BY <1>4 DEF Assign, ThreadTypeInv
  <2>. QED
    BY <2>1, <2>2, <2>3 DEF StartInv
<1>5. CASE Orphan
  <2>1. /\ UNCHANGED <<started, submitted, pending_tasks>>
        /\ mpc' = "collect" /\ cur \in ThreadIds
    BY <1>5, CurrentThread DEF Orphan, OrphanFrame, clientVars
  <2>2. \A t \in ThreadIds :
          \/ task'[t] = NoTask
          \/ task'[t] = task[t] /\ state'[t] = state[t] /\ tpc'[t] = tpc[t]
    BY <1>5, <2>1
       DEF Orphan, Completes, NothingCompletes, ThreadTypeInv
  <2>. QED
    BY <1>0, <2>1, <2>2 DEF StartInv
<1>6. CASE Pop
  <2>1. /\ UNCHANGED <<submitted, tpc, state, task>>
        /\ mpc' \notin {"offer", "assign"}
    BY <1>6 DEF Pop, threadVars
  <2>2. CASE pending_tasks = <<>>
    BY <1>6, <2>1, <2>2 DEF Pop, StartInv
  <2>3. CASE pending_tasks # <<>>
    <3> DEFINE k == Head(pending_tasks)
    <3>1. /\ pending_tasks' = Tail(pending_tasks)
          /\ started' \subseteq started \cup {k}
      BY <1>6, <2>3 DEF Pop
    <3>2. /\ Range(pending_tasks) = {k} \cup Range(pending_tasks')
          /\ k \notin Range(pending_tasks') /\ k \in Tasks
      BY <2>3, <3>1, HeadLeavesQueue DEF Books
    <3>3. k \in submitted /\ k \notin dispatched
      BY <1>0, <3>2 DEF PlacedInv, AllApart, Apart
    <3>4. \A t \in ThreadIds : task[t] # k
      BY <3>2, <3>3, TasksAssumption DEF HeldInv
    <3>. QED
      BY <2>1, <3>1, <3>2, <3>3, <3>4 DEF StartInv
  <2>. QED
    BY <2>2, <2>3
<1>7. ASSUME NEW k \in Tasks, QueueTask(k) PROVE StartInv'
  <2>1. k \notin submitted /\ submitted' = submitted \cup {k}
    BY <1>7 DEF QueueTask
  <2>2. Range(pending_tasks') = Range(pending_tasks) \cup {k}
    BY <1>7, AppendToQueue DEF QueueTask, QueueTypeInv
  <2>3. /\ UNCHANGED <<started, held, tpc, state, task>>
        /\ mpc' = "idle"
    BY <1>7 DEF QueueTask, threadVars, runVars
  <2>. QED
    BY <2>1, <2>2, <2>3 DEF StartInv
<1>8. CASE CancelPendingTasks
  <2>1. /\ UNCHANGED <<started, submitted, mpc, held, tpc, state, task>>
        /\ Range(pending_tasks') = {}
    BY <1>8, EmptyQueue
       DEF CancelPendingTasks, managerVars, threadVars, runVars
  <2>. QED
    BY <2>1 DEF StartInv
<1>9. CASE Dispose
  <2>1. /\ UNCHANGED <<started, submitted, pending_tasks, held, tpc, task>>
        /\ mpc' = "join"
    BY <1>9 DEF Dispose, Goto, queueVars, clientVars, runVars
  <2>2. \A t \in ThreadIds : state'[t] = "READY" => state[t] = "READY"
    BY <1>9 DEF Dispose, ThreadTypeInv
  <2>. QED
    BY <2>1, <2>2 DEF StartInv
<1>10. ASSUME NEW t \in ThreadIds, WorkerAction(t) PROVE StartInv'
  <2>1. UNCHANGED <<mpc, held, pending_tasks, submitted>> /\ mpc # "crashed"
    BY <1>10, WorkersLeaveManager DEF managerVars, queueVars, clientVars
  <2> USE <1>0, <2>1 DEF StartInv, Step, ThreadTypeInv
  <2>2. CASE WorkerStart(t)
    BY <2>2 DEF WorkerStart
  <2>3. CASE WorkerReady(t)
    BY <2>3 DEF WorkerReady
  <2>4. CASE WorkerWakes(t)
    BY <2>4 DEF WorkerWakes
  <2>5. CASE WorkerChecks(t)
    BY <2>5 DEF WorkerChecks
  <2>6. CASE WorkerClaims(t)
    <3>1. task[t] # NoTask /\ task[t] \in dispatched
      BY <2>6 DEF WorkerClaims, PositionInv, HeldInv
    <3>2. task[t] \in submitted /\ task[t] \notin Range(pending_tasks)
      BY <3>1 DEF PlacedInv, AllApart, Apart
    <3>3. /\ started' = started \cup {task[t]}
          /\ UNCHANGED task
          /\ state' = [state EXCEPT ![t] = "RUNNING"]
          /\ tpc' = [tpc EXCEPT ![t] = "running"]
      BY <2>6 DEF WorkerClaims
    <3>4. \A u \in ThreadIds : u # t => task[u] # task[t]
      BY <3>1 DEF HeldInv
    <3>5. mpc \in {"offer", "assign"} => held # task[t]
      BY DEF HeldInv
    <3>. QED
      BY <3>2, <3>3, <3>4, <3>5
  <2>7. CASE WorkerFinishes(t)
    BY <2>7 DEF WorkerFinishes
  <2>8. CASE WorkerDies(t)
    BY <2>8 DEF WorkerDies
  <2>9. CASE WorkerSignals(t)
    BY <2>9 DEF WorkerSignals
  <2>10. CASE WorkerLoops(t)
    BY <2>10 DEF WorkerLoops
  <2>. QED
    BY <1>10, <2>2, <2>3, <2>4, <2>5, <2>6, <2>7, <2>8, <2>9, <2>10
       DEF WorkerAction
<1>11. CASE InlineDone
  BY <1>11 DEF InlineDone, StartInv, threadVars, clientVars
<1>12. CASE \/ UpdateDone \/ Decide \/ Unblock \/ BlockTimeout \/ Join
            \/ Destroyed \/ GetNextCompletedTask \/ Wait \/ Destroy
  <2>1. UNCHANGED StartVars /\ mpc' \notin {"offer", "assign"}
    BY <1>12 DEF UpdateDone, Decide, Unblock, BlockTimeout, SecondUpdate, Join,
       Destroyed, GetNextCompletedTask, Wait, Destroy, Goto, StartVars,
       threadVars, clientVars, runVars, queueVars
  <2>. QED
    BY <2>1, StartUndisturbed
<1>13. CASE UNCHANGED vars
  BY <1>13, StartUndisturbed DEF vars, managerVars, queueVars, threadVars,
     clientVars, runVars, StartVars
<1>. QED
  BY <1>1, <1>2, <1>3, <1>4, <1>5, <1>6, <1>7, <1>8, <1>9, <1>10, <1>11,
     <1>12, <1>13, NextCases

-----------------------------------------------------------------------------
LEMMA InvariantInit == Init => IInv
<1> SUFFICES ASSUME Init PROVE IInv
  OBVIOUS
<1>1. ManagerTypeInv /\ QueueTypeInv /\ ThreadTypeInv /\ HistoryTypeInv
  BY TypeInit
<1>2. HeldInv
  BY DEF Init, HeldInv
<1>3. PositionInv
  BY DEF Init, PositionInv
<1>4. CountInv
  BY FS_EmptySet DEF Init, CountInv
<1>5. InlineTask = {}
  BY DEF Init, InlineTask
<1>6. PlacedInv /\ FalseMeansDone
  BY <1>5, EmptyQueue DEF Init, PlacedInv, FalseMeansDone
<1>7. OnePlaceEach
  BY <1>5, EmptyQueue, OnePlaceApart DEF Init, AllApart, Apart
<1>8. StartInv
  BY EmptyQueue DEF Init, StartInv
<1>. QED
  BY <1>1, <1>2, <1>3, <1>4, <1>6, <1>7, <1>8 DEF IInv

LEMMA InvariantStep == IInv /\ [Next]_vars => IInv'
BY ManagerTypeStep, QueueTypeStep, ThreadTypeStep, HistoryTypeStep, HeldStep,
   PositionStep, BooksStep, StartStep DEF IInv, Books

(***************************************************************************)
(* The inductive invariant holds in every behaviour.                       *)
(***************************************************************************)
THEOREM Invariance == Spec => []IInv
BY InvariantInit, InvariantStep, PTL DEF Spec

(***************************************************************************)
(* Type correctness; that num_running_tasks never goes below zero rests on *)
(* its being the number of the dispatched tasks.                           *)
(***************************************************************************)
THEOREM TypeCorrect == Spec => []TypeOK
<1>1. IInv => TypeOK
  <2> SUFFICES ASSUME IInv PROVE TypeOK
    OBVIOUS
  <2>1. num_running_tasks \in Nat
    BY FS_CardinalityType DEF IInv, CountInv
  <2>. QED
    BY <2>1 DEF IInv, ManagerTypeInv, QueueTypeInv, ThreadTypeInv,
       HistoryTypeInv, TypeOK
<1>. QED
  BY <1>1, Invariance, PTL

(***************************************************************************)
(* wait() returns false only when every queued task was handed back or     *)
(* discarded, whatever the threads do.                                     *)
(***************************************************************************)
THEOREM FalseIsTruthful == Spec => []FalseMeansDone
<1>1. IInv => FalseMeansDone
  BY DEF IInv
<1>. QED
  BY <1>1, Invariance, PTL

(***************************************************************************)
(* No task is handed back twice, nor discarded and run.                    *)
(***************************************************************************)
THEOREM PlacesKeptApart == Spec => []OnePlaceEach
<1>1. IInv => OnePlaceEach
  BY DEF IInv
<1>. QED
  BY <1>1, Invariance, PTL

(***************************************************************************)
(* No task's run() is entered twice.                                       *)
(***************************************************************************)
THEOREM NothingRunsTwice == Spec => StartsOnce
<1> DEFINE Once ==
      \A t \in ThreadIds :
        exec'[t] # exec[t] /\ exec'[t] # NoTask => exec'[t] \notin started
<1>1. IInv /\ [Next]_vars => [Once]_vars
  <2> SUFFICES ASSUME IInv, [Next]_vars, NEW t \in ThreadIds,
                      exec'[t] # exec[t], exec'[t] # NoTask
               PROVE  exec'[t] \notin started
    OBVIOUS
  <2>1. PICK u \in ThreadIds : WorkerAction(u)
    <3>1. Collect \/ Assign \/ Orphan \/ Dispose => UNCHANGED exec
      BY DEF Collect, Assign, Orphan, OrphanFrame, Dispose
    <3>. QED
      BY <3>1, NextCases, ThreadsLeftAlone DEF threadVars
  <2>2. exec \in [ThreadIds -> Tasks \cup {NoTask}]
    BY DEF IInv, ThreadTypeInv
  <2>3. WorkerClaims(u)
    BY <2>1, <2>2 DEF WorkerAction, WorkerStart, WorkerReady, WorkerWakes,
       WorkerChecks, WorkerFinishes, WorkerDies, WorkerSignals, WorkerLoops
  <2>4. t = u /\ exec'[t] = task[t] /\ tpc[t] = "claim"
    BY <2>2, <2>3 DEF WorkerClaims, Step
  <2>. QED
    BY <2>4 DEF IInv, StartInv
<1>. QED
  BY <1>1, Invariance, PTL DEF Spec, StartsOnce

-----------------------------------------------------------------------------
(***************************************************************************)
(* With workers that get to their task, or back to sleep, before the       *)
(* manager looks at them again (WorkersPrompt), nothing is lost between    *)
(* the manager and its threads: no assignment of one overwrites that of    *)
(* the other.                                                              *)
(***************************************************************************)
\* The thread that update() is looking at has no step left that could write
\* its task or its state, and the task goes to a thread that has none.
HandoverInv ==
  /\ mpc \in {"dispatch", "offer", "assign"} => Settled(cur)
  /\ mpc \in {"offer", "assign"} => state[cur] = "READY" /\ task[cur] = NoTask
  /\ mpc \notin {"offer", "assign", "inline"} => held = NoTask

\* A task stays with its thread from the assignment to the result.
KeptInv ==
  \A t \in ThreadIds :
    /\ tpc[t] \in {"start", "ready"} => task[t] = NoTask
    /\ state[t] = "READY" /\ task[t] # NoTask => ~Settled(t)
    /\ tpc[t] = "running" => exec[t] = task[t]
    /\ state[t] = "RESULT_READY" => task[t] \in ran

PromptInv ==
  /\ mpc # "crashed" => HandoverInv /\ KeptInv /\ NoTaskLost
  /\ CompletedHaveRun

\* The process that has crashed takes no step.
LEMMA CrashIsFinal == [Next]_vars /\ mpc = "crashed" => UNCHANGED vars
BY NextCases, WorkersLeaveManager
   DEF Collect, Dispatch, Offer, Assign, Orphan, UpdateDone, Pop, InlineDone,
       Decide, Unblock, BlockTimeout, Dispose, Join, Destroyed, QueueTask,
       CancelPendingTasks, GetNextCompletedTask, Wait, Destroy

\* What a worker does to its own thread, and that it leaves the others alone.
LEMMA WorkersStayHome ==
  ASSUME NEW t \in ThreadIds, NEW u \in ThreadIds, ThreadTypeInv,
         WorkerAction(t), u # t
  PROVE  /\ tpc'[u] = tpc[u] /\ state'[u] = state[u] /\ task'[u] = task[u]
         /\ exec'[u] = exec[u] /\ run_signals'[u] = run_signals[u]
BY DEF ThreadTypeInv, WorkerAction, WorkerStart, WorkerReady, WorkerWakes,
   WorkerChecks, WorkerClaims, WorkerFinishes, WorkerDies, WorkerSignals,
   WorkerLoops, Step

LEMMA HandoverStep ==
  ASSUME WorkersPrompt, ManagerTypeInv, ThreadTypeInv, PositionInv,
         HandoverInv, KeptInv, [Next]_vars, mpc # "crashed"
  PROVE  HandoverInv'
<1>1. CASE Collect
  <2>1. Settled(cur) /\ UNCHANGED <<cur, held, tpc, run_signals>>
    BY <1>1 DEF Collect, Goto
  <2>. QED
    BY <1>1, <2>1 DEF Collect, Goto, HandoverInv, Settled
<1>2. CASE Dispatch
  <2>1. UNCHANGED <<cur, tpc, state, task, run_signals>> /\ cur \in ThreadIds
    BY <1>2, ThreadsAssumption DEF Dispatch, DispatchFrame, threadVars,
       ManagerTypeInv, Threads, ThreadIds
  <2>2. state[cur] = "READY" => task[cur] = NoTask
    BY <1>2, <2>1 DEF Dispatch, HandoverInv, KeptInv
  <2>3. Settled(cur)'
    BY <1>2, <2>1 DEF Dispatch, HandoverInv, Settled
  <2>. QED
    BY <1>2, <2>1, <2>2, <2>3
       DEF Dispatch, Take, TakeNone, HandoverInv
<1>3. CASE Offer
  <2>1. UNCHANGED <<cur, tpc, state, task, run_signals>>
    BY <1>3 DEF Offer, threadVars
  <2>. QED
    BY <1>3, <2>1 DEF Offer, LogStarted, HandoverInv, Settled
<1>4. CASE Assign
  BY <1>4 DEF Assign, LogStarted, HandoverInv
<1>5. CASE Orphan
  BY <1>5 DEF Orphan, OrphanFrame, HandoverInv
<1>6. CASE \/ UpdateDone \/ Decide \/ Dispose \/ Destroyed \/ Join
           \/ Unblock \/ BlockTimeout \/ Wait \/ Destroy
           \/ CancelPendingTasks \/ GetNextCompletedTask
           \/ \E k \in Tasks : QueueTask(k)
  BY <1>6 DEF UpdateDone, Decide, Dispose, Destroyed, Join, Unblock,
     BlockTimeout, SecondUpdate, Wait, Destroy, CancelPendingTasks,
     GetNextCompletedTask, QueueTask, Goto, managerVars, HandoverInv
<1>7. CASE Pop \/ InlineDone
  BY <1>7 DEF Pop, InlineDone, HandoverInv
<1>8. ASSUME NEW t \in ThreadIds, WorkerAction(t) PROVE HandoverInv'
  <2>1. UNCHANGED <<mpc, cur, held>>
    BY <1>8, WorkersLeaveManager DEF managerVars
  <2>2. CASE mpc \notin {"dispatch", "offer", "assign"}
    BY <2>1, <2>2 DEF HandoverInv
  <2>3. CASE mpc \in {"dispatch", "offer", "assign"}
    <3>1. cur \in ThreadIds /\ Settled(cur)
      BY <2>3, ThreadsAssumption
         DEF ManagerTypeInv, Threads, ThreadIds, HandoverInv
    <3>2. CASE t # cur
      BY <1>8, <2>1, <3>1, <3>2, WorkersStayHome DEF HandoverInv, Settled
    <3>3. CASE t = cur
      <4>1. ~ (WorkerStart(t) \/ WorkerReady(t) \/ WorkerWakes(t)
               \/ WorkerChecks(t) \/ WorkerClaims(t))
        BY <3>1, <3>3 DEF Settled, WorkerStart, WorkerReady, WorkerWakes,
           WorkerChecks, WorkerClaims, Step
      <4>2. CASE WorkerFinishes(t) \/ WorkerDies(t)
        <5>1. state[cur] # "READY"
          BY <3>1, <3>3, <4>2 DEF WorkerFinishes, WorkerDies, Step, PositionInv
        <5>2. Settled(cur)'
          BY <2>1, <3>1, <3>3, <4>2 DEF WorkerFinishes, WorkerDies, Step,
             Settled, ThreadTypeInv
        <5>. QED
          BY <2>1, <5>1, <5>2 DEF HandoverInv
      <4>3. CASE WorkerSignals(t) \/ WorkerLoops(t)
        <5>1. Settled(cur)' /\ UNCHANGED <<state, task>>
          BY <2>1, <3>1, <3>3, <4>3 DEF WorkerSignals, WorkerLoops, Step,
             Settled, ThreadTypeInv
        <5>. QED
          BY <2>1, <5>1 DEF HandoverInv
      <4>. QED
        BY <1>8, <4>1, <4>2, <4>3 DEF WorkerAction
    <3>. QED
      BY <3>2, <3>3
  <2>. QED
    BY <2>2, <2>3
<1>9. CASE UNCHANGED vars
  BY <1>9 DEF vars, managerVars, threadVars, HandoverInv, Settled
<1>. QED
  BY <1>1, <1>2, <1>3, <1>4, <1>5, <1>6, <1>7, <1>8, <1>9, NextCases

LEMMA KeptStep ==
  ASSUME WorkersPrompt, ManagerTypeInv, ThreadTypeInv, PositionInv,
         HandoverInv, KeptInv, [Next]_vars, mpc # "crashed"
  PROVE  KeptInv'
<1> USE DEF ThreadTypeInv, Settled
<1>1. CASE Collect
  BY <1>1, CurrentThread
     DEF Collect, Completes, NothingCompletes, PositionInv, KeptInv
<1>2. CASE Assign
  <2>1. cur \in ThreadIds /\ state[cur] = "READY" /\ Settled(cur)
    BY <1>2, CurrentThread DEF Assign, HandoverInv
  <2>2. tpc[cur] # "running"
    BY <2>1 DEF PositionInv
  <2>3. /\ UNCHANGED <<tpc, state, exec, ran>>
        /\ \A t \in ThreadIds \ {cur} :
             task'[t] = task[t] /\ run_signals'[t] = run_signals[t]
        /\ run_signals'[cur] # 0
    BY <1>2, <2>1 DEF Assign, runVars
  <2>. QED
    BY <2>1, <2>2, <2>3 DEF KeptInv
<1>3. CASE Orphan
  BY <1>3, CurrentThread
     DEF Orphan, OrphanFrame, Completes, NothingCompletes, KeptInv
<1>4. CASE Dispose
  BY <1>4, CurrentThread DEF Dispose, runVars, KeptInv
<1>5. ASSUME NEW t \in ThreadIds, WorkerAction(t) PROVE KeptInv'
  <2>1. ASSUME NEW u \in ThreadIds, u # t
        PROVE  /\ tpc'[u] \in {"start", "ready"} => task'[u] = NoTask
               /\ state'[u] = "READY" /\ task'[u] # NoTask => ~(Settled(u)')
               /\ tpc'[u] = "running" => exec'[u] = task'[u]
               /\ state'[u] = "RESULT_READY" => task'[u] \in ran'
    <3>1. ran \subseteq ran'
      BY <1>5 DEF WorkerAction, WorkerStart, WorkerReady, WorkerWakes,
         WorkerChecks, WorkerClaims, WorkerFinishes, WorkerDies, WorkerSignals,
         WorkerLoops
    <3>. QED
      BY <1>5, <2>1, <3>1, WorkersStayHome DEF KeptInv
  <2>2. /\ tpc'[t] \in {"start", "ready"} => task'[t] = NoTask
        /\ state'[t] = "READY" /\ task'[t] # NoTask => ~(Settled(t)')
        /\ tpc'[t] = "running" => exec'[t] = task'[t]
        /\ state'[t] = "RESULT_READY" => task'[t] \in ran'
    <3> USE DEF Step, KeptInv
    <3>1. CASE WorkerStart(t)
      BY <3>1 DEF WorkerStart, PositionInv
    <3>2. CASE WorkerReady(t)
      BY <3>2 DEF WorkerReady
    <3>3. CASE WorkerWakes(t)
      BY <3>3 DEF WorkerWakes
    <3>4. CASE WorkerChecks(t)
      BY <3>4 DEF WorkerChecks
    <3>5. CASE WorkerClaims(t)
      BY <3>5 DEF WorkerClaims
    <3>6. CASE WorkerFinishes(t)
      BY <3>6 DEF WorkerFinishes
    <3>7. CASE WorkerDies(t)
      BY <3>7 DEF WorkerDies, PositionInv
    <3>8. CASE WorkerSignals(t)
      BY <3>8 DEF WorkerSignals
    <3>9. CASE WorkerLoops(t)
      BY <3>9 DEF WorkerLoops
    <3>. QED
      BY <1>5, <3>1, <3>2, <3>3, <3>4, <3>5, <3>6, <3>7, <3>8, <3>9
         DEF WorkerAction
  <2>. QED
    BY <2>1, <2>2 DEF KeptInv
<1>6. CASE UNCHANGED threadVars /\ ran \subseteq ran'
  BY <1>6 DEF threadVars, KeptInv
<1>7. Dispatch \/ Offer \/ UpdateDone \/ Pop \/ InlineDone \/ Decide
        \/ Unblock \/ BlockTimeout \/ Join \/ Destroyed
        \/ (\E k \in Tasks : QueueTask(k))
        \/ CancelPendingTasks \/ GetNextCompletedTask \/ Wait \/ Destroy
        \/ UNCHANGED vars
        => ran \subseteq ran'
  BY DEF Dispatch, DispatchFrame, Offer, UpdateDone, Pop, InlineDone, Decide,
     Unblock, BlockTimeout, SecondUpdate, Join, Destroyed, QueueTask,
     CancelPendingTasks, GetNextCompletedTask, Wait, Destroy, vars, runVars
<1>. QED
  BY <1>1, <1>2, <1>3, <1>4, <1>5, <1>6, <1>7, NextCases, ThreadsLeftAlone

\* No task is dropped: not when update() hands it to a thread, and not by the
\* thread.
LEMMA NoTaskLostStep ==
  ASSUME ManagerTypeInv, ThreadTypeInv, HistoryTypeInv, HeldInv, OnePlaceEach,
         HandoverInv, KeptInv, NoTaskLost, [Next]_vars,
         mpc # "crashed", mpc' # "crashed"
  PROVE  NoTaskLost'
<1>1. NoTaskLost' <=>
        \A k \in dispatched' : k = held' \/ \E t \in ThreadIds : task'[t] = k
  BY DEF NoTaskLost, TasksInHand
<1>2. \A k \in dispatched :
        k # NoTask /\ (k = held \/ \E t \in ThreadIds : task[t] = k)
  BY TasksAssumption DEF HistoryTypeInv, NoTaskLost, TasksInHand
<1> HIDE DEF NoTaskLost
<1>3. CASE Collect \/ Orphan
  <2>1. cur \in ThreadIds /\ UNCHANGED held
    BY <1>3, CurrentThread DEF Collect, Orphan, OrphanFrame, Goto
  <2>2. CASE NothingCompletes
    BY <1>1, <1>2, <2>1, <2>2 DEF NothingCompletes
  <2>3. CASE Completes(cur)
    <3>1. \A t \in ThreadIds \ {cur} : task'[t] = task[t]
      BY <2>1, <2>3 DEF Completes, ThreadTypeInv
    <3>. QED
      BY <1>1, <1>2, <2>1, <2>3, <3>1 DEF Completes
  <2>. QED
    BY <1>3, <2>2, <2>3 DEF Collect, Orphan
<1>4. CASE Dispatch
  <2>1. held = NoTask /\ UNCHANGED task
    BY <1>4 DEF Dispatch, DispatchFrame, threadVars, HandoverInv
  <2>2. \/ dispatched' = dispatched \cup {held'}
        \/ dispatched' = dispatched
    BY <1>4 DEF Dispatch, Take, TakeNone
  <2>. QED
    BY <1>1, <1>2, <2>1, <2>2
<1>5. CASE Offer
  <2>1. UNCHANGED <<held, dispatched, task>>
    BY <1>5 DEF Offer, HandoverInv, threadVars, runVars
  <2>. QED
    BY <1>1, <1>2, <2>1
<1>6. CASE Assign
  <2>1. held \in Tasks /\ held \notin NullTasks /\ UNCHANGED dispatched
    BY <1>6 DEF Assign, LogStarted, ManagerTypeInv, runVars
  <2>2. cur \in ThreadIds /\ task[cur] = NoTask
    BY <1>6, CurrentThread DEF Assign, HandoverInv
  <2>3. /\ task'[cur] = held
        /\ \A t \in ThreadIds \ {cur} : task'[t] = task[t]
    BY <1>6, <2>1, <2>2 DEF Assign, Pointer, ThreadTypeInv
  <2>. QED
    BY <1>1, <1>2, <2>1, <2>2, <2>3
<1>7. CASE Pop
  <2>1. held = NoTask /\ UNCHANGED <<dispatched, task>>
    BY <1>7 DEF Pop, HandoverInv, threadVars
  <2>. QED
    BY <1>1, <1>2, <2>1
<1>8. CASE InlineDone
  <2>1. held \notin dispatched
    <3>1. held \in InlineTask
      BY <1>8 DEF InlineDone, InlineTask
    <3>. QED
      BY <3>1, OnePlaceApart DEF AllApart, Apart
  <2>2. UNCHANGED <<dispatched, task>>
    BY <1>8 DEF InlineDone, threadVars
  <2>. QED
    BY <1>1, <1>2, <2>1, <2>2
<1>9. ASSUME NEW t \in ThreadIds, WorkerStart(t) PROVE NoTaskLost'
  <2>1. task[t] = NoTask /\ UNCHANGED <<held, dispatched>>
    BY <1>9 DEF WorkerStart, Step, KeptInv, managerVars
  <2>2. \A u \in ThreadIds \ {t} : task'[u] = task[u]
    BY <1>9 DEF WorkerStart, ThreadTypeInv
  <2>. QED
    BY <1>1, <1>2, <2>1, <2>2
<1>10. CASE UNCHANGED <<held, dispatched, task>>
  BY <1>1, <1>2, <1>10
<1>11. \/ UpdateDone \/ Decide \/ Unblock \/ BlockTimeout
       \/ Dispose \/ Join \/ Destroyed \/ (\E k \in Tasks : QueueTask(k))
       \/ CancelPendingTasks \/ GetNextCompletedTask \/ Wait \/ Destroy
       \/ UNCHANGED vars
       => UNCHANGED <<held, dispatched, task>>
  BY DEF UpdateDone, Decide, Unblock, BlockTimeout, SecondUpdate, Dispose,
     Join, Destroyed, QueueTask, CancelPendingTasks, GetNextCompletedTask,
     Wait, Destroy, Goto, vars, managerVars, threadVars, runVars
<1>12. ASSUME NEW t \in ThreadIds, WorkerAction(t), ~WorkerStart(t)
       PROVE  UNCHANGED <<held, dispatched, task>>
  BY <1>12 DEF WorkerAction, WorkerReady, WorkerWakes, WorkerChecks,
     WorkerClaims, WorkerFinishes, WorkerDies, WorkerSignals, WorkerLoops,
     Step, managerVars
<1>. QED
  BY <1>3, <1>4, <1>5, <1>6, <1>7, <1>8, <1>9, <1>10, <1>11, <1>12, NextCases

\* What is completed has run in a thread, in update(), or died.
LEMMA HaveRunStep ==
  ASSUME ManagerTypeInv, QueueTypeInv, ThreadTypeInv, PositionInv, KeptInv,
         CompletedHaveRun, [Next]_vars, mpc # "crashed"
  PROVE  CompletedHaveRun'
<1> USE DEF CompletedHaveRun
<1>1. CASE Collect \/ Orphan
  <2>1. cur \in ThreadIds /\ UNCHANGED returned
    BY <1>1, CurrentThread DEF Collect, Orphan, OrphanFrame, clientVars
  <2>2. ran \subseteq ran' /\ failed \subseteq failed'
    BY <1>1 DEF Collect, Orphan, OrphanFrame
  <2>3. CASE NothingCompletes
    BY <2>1, <2>2, <2>3 DEF NothingCompletes
  <2>4. CASE Completes(cur) /\ task[cur] \in Tasks /\ task[cur] \in ran' \cup failed'
    <3>1. Range(completed_tasks') = Range(completed_tasks) \cup {task[cur]}
      BY <2>4, AppendToQueue DEF Completes, QueueTypeInv
    <3>. QED
      BY <2>1, <2>2, <2>4, <3>1
  <2>5. CASE Collect /\ state[cur] = "RESULT_READY"
    <3>1. Completes(cur) /\ UNCHANGED ran /\ mpc # "crashed"
      BY <2>5 DEF Collect
    <3>2. task[cur] # NoTask /\ task[cur] \in ran
      BY <2>1, <2>5, <3>1 DEF PositionInv, KeptInv
    <3>. QED
      BY <2>1, <2>4, <3>1, <3>2 DEF ThreadTypeInv
  <2>6. CASE Orphan /\ state[cur] = "RUNNING" /\ tpc[cur] = "dead"
    <3>1. Completes(cur) /\ failed' = failed \cup {task[cur]} /\ mpc # "crashed"
      BY <2>6 DEF Orphan
    <3>2. task[cur] # NoTask
      BY <2>1, <2>6, <3>1 DEF PositionInv
    <3>. QED
      BY <2>1, <2>4, <3>1, <3>2 DEF ThreadTypeInv
  <2>. QED
    BY <1>1, <2>3, <2>5, <2>6 DEF Collect, Orphan
<1>2. CASE InlineDone
  <2>1. held \in Tasks /\ UNCHANGED <<returned, failed>>
    BY <1>2 DEF InlineDone, ManagerTypeInv, clientVars
  <2>2. Range(completed_tasks') = Range(completed_tasks) \cup {held}
    BY <1>2, <2>1, AppendToQueue DEF InlineDone, QueueTypeInv
  <2>. QED
    BY <1>2, <2>1, <2>2 DEF InlineDone
<1>3. CASE GetNextCompletedTask
  <2>1. UNCHANGED <<ran, failed>>
    BY <1>3 DEF GetNextCompletedTask, runVars
  <2>2. CASE completed_tasks = <<>>
    BY <1>3, <2>1, <2>2 DEF GetNextCompletedTask
  <2>3. CASE completed_tasks # <<>>
    <3>1. /\ Range(completed_tasks) =
               {Head(completed_tasks)} \cup Range(completed_tasks')
          /\ returned' = returned \cup {Head(completed_tasks)}
      BY <1>3, <2>3, TakeFromQueue DEF GetNextCompletedTask, QueueTypeInv
    <3>. QED
      BY <2>1, <3>1
  <2>. QED
    BY <2>2, <2>3
<1>4. CASE /\ UNCHANGED <<completed_tasks, returned>>
           /\ ran \subseteq ran' /\ failed \subseteq failed'
  BY <1>4
<1>5. \/ Dispatch \/ Offer \/ Assign \/ UpdateDone \/ Pop \/ Decide \/ Unblock
      \/ BlockTimeout \/ Dispose \/ Join \/ Destroyed
      \/ (\E k \in Tasks : QueueTask(k)) \/ CancelPendingTasks \/ Wait
      \/ Destroy \/ UNCHANGED vars
      => /\ UNCHANGED <<completed_tasks, returned>>
         /\ ran \subseteq ran' /\ failed \subseteq failed'
  BY DEF Dispatch, DispatchFrame, Offer, Assign, UpdateDone, Pop, Decide,
     Unblock, BlockTimeout, SecondUpdate, Dispose, Join, Destroyed, QueueTask,
     CancelPendingTasks, Wait, Destroy, vars, queueVars, clientVars, runVars
<1>6. ASSUME NEW t \in ThreadIds, WorkerAction(t)
      PROVE  /\ UNCHANGED <<completed_tasks, returned>>
             /\ ran \subseteq ran' /\ failed \subseteq failed'
  <2>1. UNCHANGED <<queueVars, clientVars, failed>>
    BY <1>6, WorkersLeaveManager
  <2>2. ran \subseteq ran'
    BY <1>6 DEF WorkerAction, WorkerStart, WorkerReady, WorkerWakes,
       WorkerChecks, WorkerClaims, WorkerFinishes, WorkerDies, WorkerSignals,
       WorkerLoops
  <2>. QED
    BY <2>1, <2>2 DEF queueVars, clientVars
<1>. QED
  BY <1>1, <1>2, <1>3, <1>4, <1>5, <1>6, NextCases

LEMMA PromptInit == Init => PromptInv
BY EmptyQueue DEF Init, PromptInv, HandoverInv, KeptInv, NoTaskLost,
   CompletedHaveRun

LEMMA PromptStep ==
  ASSUME WorkersPrompt, IInv, PromptInv, [Next]_vars
  PROVE  PromptInv'
<1>1. CASE mpc = "crashed"
  <2>1. UNCHANGED vars
    BY <1>1, CrashIsFinal
  <2>. QED
    BY <1>1, <2>1 DEF vars, managerVars, queueVars, clientVars, runVars,
       PromptInv, CompletedHaveRun
<1>2. CASE mpc # "crashed"
  BY <1>2, HandoverStep, KeptStep, NoTaskLostStep, HaveRunStep
     DEF IInv, PromptInv
<1>. QED
  BY <1>1, <1>2

LEMMA PromptInvariance == ASSUME WorkersPrompt PROVE Spec => []PromptInv
<1>1. IInv /\ PromptInv /\ [Next]_vars => PromptInv'
  BY PromptStep
<1>. QED
  BY <1>1, PromptInit, Invariance, PTL DEF Spec

(***************************************************************************)
(* A task that was taken out of the queue is in the hands of update() or   *)
(* of a thread until it completes, with prompt workers and unless a NULL   *)
(* task has brought the process down.                                      *)
(***************************************************************************)
THEOREM NothingIsLost ==
  ASSUME WorkersPrompt PROVE Spec => [](mpc # "crashed" => NoTaskLost)
<1>1. PromptInv => (mpc # "crashed" => NoTaskLost)
  BY DEF PromptInv
<1>. QED
  BY <1>1, PromptInvariance, PTL

(***************************************************************************)
(* What is handed back as completed has run to its end or died with its    *)
(* thread, with prompt workers.                                            *)
(***************************************************************************)
THEOREM CompletedMeansRun ==
  ASSUME WorkersPrompt PROVE Spec => []CompletedHaveRun
<1>1. PromptInv => CompletedHaveRun
  BY DEF PromptInv
<1>. QED
  BY <1>1, PromptInvariance, PTL

-----------------------------------------------------------------------------
(***************************************************************************)
(* The manager as the abstract pool.  A thread's task is running from the  *)
(* moment it leaves the queue to the moment it is completed, whoever holds *)
(* it in between.                                                          *)
(***************************************************************************)
Running == TasksInHand \ {NoTask}

DrainedPositions == {"drained", "dispose", "join", "destroyed"}

LEMMA InHand ==
  ASSUME NEW k
  PROVE  k \in Running <=> /\ k # NoTask
                           /\ k = held \/ \E t \in ThreadIds : task[t] = k
BY DEF Running, TasksInHand

LEMMA InHandNext ==
  ASSUME NEW k
  PROVE  k \in Running' <=> /\ k # NoTask
                            /\ k = held' \/ \E t \in ThreadIds : task'[t] = k
BY DEF Running, TasksInHand

\* Without NULL tasks the process does not crash.
NotCrashed == mpc # "crashed"

LEMMA NoCrash == ASSUME NullTasks = {} PROVE Spec => []NotCrashed
<1>1. Init => NotCrashed
  BY DEF Init, NotCrashed
<1>2. NotCrashed /\ [Next]_vars => NotCrashed'
  BY NextCases, WorkersLeaveManager
     DEF NotCrashed, Collect, Dispatch, Take, TakeNone, Offer, Assign, LogStarted, Orphan,
         UpdateDone, Pop, InlineDone, Decide, Unblock, BlockTimeout,
         SecondUpdate, Dispose, Join, Destroyed, QueueTask, CancelPendingTasks,
         GetNextCompletedTask, Wait, Destroy, Goto, vars, managerVars
<1>. QED
  BY <1>1, <1>2, PTL DEF Spec

\* A running task is in one of two places of the manager's books.
LEMMA RunningPlaces ==
  ASSUME ManagerTypeInv, HeldInv, HandoverInv
  PROVE  Running \subseteq dispatched \cup InlineTask
BY InHand DEF ManagerTypeInv, HeldInv, HandoverInv, InlineTask

\* removeTask() of the thread at hand takes its task from the running ones.
LEMMA CompletesInPool ==
  ASSUME ThreadTypeInv, HeldInv, HandoverInv, mpc \in {"collect", "orphan"},
         cur \in ThreadIds, task[cur] \in Tasks, Completes(cur),
         UNCHANGED <<held, pending_tasks, clientVars>>,
         mpc \notin DrainedPositions, mpc' \notin DrainedPositions
  PROVE  \E k \in Tasks : Pool!Complete(k)
<1>1. held = NoTask /\ task[cur] # NoTask
  BY TasksAssumption DEF HandoverInv
<1>2. \A t \in ThreadIds \ {cur} : task'[t] = task[t] /\ task[t] # task[cur]
  BY <1>1 DEF Completes, ThreadTypeInv, HeldInv
<1>3. task'[cur] = NoTask
  BY DEF Completes, ThreadTypeInv
<1>4. \A k : k \in Running' <=> k \in Running \ {task[cur]}
  BY <1>1, <1>2, <1>3, InHand, InHandNext
<1>5. task[cur] \in Running
  BY <1>1, InHand
<1>6. completed_tasks' = Append(completed_tasks, task[cur])
  BY DEF Completes
<1>. QED
  BY <1>4, <1>5, <1>6
     DEF Pool!Complete, Running, DrainedPositions, clientVars

\* A task that goes from the queue to update() begins.
LEMMA BeginsInPool ==
  ASSUME pending_tasks # <<>>, held = NoTask, Head(pending_tasks) \in Tasks,
         held' = Head(pending_tasks), pending_tasks' = Tail(pending_tasks),
         mpc \notin DrainedPositions, mpc' \notin DrainedPositions,
         UNCHANGED <<task, completed_tasks, returned, discarded>>
  PROVE  Pool!Begin
<1>1. \A k : k \in Running' <=> k \in Running \cup {Head(pending_tasks)}
  BY TasksAssumption, InHand, InHandNext
<1>. QED
  BY <1>1 DEF Pool!Begin, Running, DrainedPositions

\* A step that the pool does not see.
LEMMA StuttersInPool ==
  ASSUME \A k : k \in Running' <=> k \in Running,
         UNCHANGED <<pending_tasks, completed_tasks, returned, discarded>>,
         mpc' \in DrainedPositions <=> mpc \in DrainedPositions
  PROVE  UNCHANGED Pool!poolVars
<1>1. Running' = Running
  OBVIOUS
<1>2. (mpc \in DrainedPositions)' = (mpc \in DrainedPositions)
  OBVIOUS
<1>. QED
  BY <1>1, <1>2 DEF Pool!poolVars, Running, DrainedPositions

LEMMA PoolStep ==
  ASSUME WorkersPrompt, NullTasks = {}, ~AbandonAllowed, IInv, PromptInv,
         mpc # "crashed", [Next]_vars
  PROVE  [Pool!PoolNext]_(Pool!poolVars)
<1>0. /\ ManagerTypeInv /\ QueueTypeInv /\ ThreadTypeInv /\ HistoryTypeInv
      /\ HeldInv /\ PositionInv /\ PlacedInv /\ CountInv
      /\ HandoverInv /\ KeptInv
  BY DEF IInv, PromptInv
<1> USE <1>0 DEF Pool!PoolNext
<1>1. CASE Collect \/ Orphan
  <2>1. /\ mpc \in {"collect", "orphan"} /\ mpc' \in {"dispatch", "collect"}
        /\ cur \in ThreadIds /\ UNCHANGED <<held, pending_tasks, clientVars>>
    BY <1>1, CurrentThread DEF Collect, Orphan, OrphanFrame, Goto
  <2>2. CASE NothingCompletes
    BY <2>1, <2>2, StuttersInPool, InHand, InHandNext
       DEF NothingCompletes, DrainedPositions, clientVars
  <2>3. CASE Completes(cur) /\ task[cur] \in Tasks
    BY <2>1, <2>3, CompletesInPool DEF DrainedPositions
  <2>4. NothingCompletes \/ (Completes(cur) /\ task[cur] \in Tasks)
    BY <1>1, <2>1 DEF Collect, Orphan, PositionInv, ThreadTypeInv
  <2>. QED
    BY <2>2, <2>3, <2>4
<1>2. CASE Dispatch
  <2>1. /\ mpc \notin DrainedPositions /\ mpc' \notin DrainedPositions
        /\ held = NoTask
        /\ UNCHANGED <<task, completed_tasks, returned, discarded>>
    BY <1>2 DEF Dispatch, DispatchFrame, Take, TakeNone, DrainedPositions,
       HandoverInv, threadVars, clientVars
  <2>2. CASE state[cur] = "READY" /\ pending_tasks # <<>>
    <3>1. Head(pending_tasks) \in Tasks
      BY <2>2, TakeFromQueue DEF QueueTypeInv
    <3>2. held' = Head(pending_tasks) /\ pending_tasks' = Tail(pending_tasks)
      BY <1>2, <2>2 DEF Dispatch, Take
    <3>. QED
      BY <2>1, <2>2, <3>1, <3>2, BeginsInPool
  <2>3. CASE state[cur] # "READY" \/ pending_tasks = <<>>
    BY <1>2, <2>1, <2>3, StuttersInPool, InHand, InHandNext
       DEF Dispatch, TakeNone
  <2>. QED
    BY <2>2, <2>3
<1>3. CASE Offer
  <2>1. UNCHANGED <<held, task, pending_tasks, completed_tasks, returned,
                    discarded>>
    BY <1>3 DEF Offer, HandoverInv, threadVars, queueVars, clientVars
  <2>2. mpc \notin DrainedPositions /\ mpc' \notin DrainedPositions
    BY <1>3 DEF Offer, LogStarted, DrainedPositions
  <2>. QED
    BY <2>1, <2>2, StuttersInPool, InHand, InHandNext
<1>4. CASE Assign
  <2>1. cur \in ThreadIds /\ task[cur] = NoTask /\ held \in Tasks
    BY <1>4, CurrentThread DEF Assign, HandoverInv, ManagerTypeInv
  <2>2. /\ task'[cur] = held /\ held' = NoTask
        /\ \A t \in ThreadIds \ {cur} : task'[t] = task[t]
    BY <1>4, <2>1 DEF Assign, Pointer, ThreadTypeInv
  <2>3. \A k : k \in Running' <=> k \in Running
    BY <2>1, <2>2, InHand, InHandNext
  <2>4. /\ mpc \notin DrainedPositions /\ mpc' \notin DrainedPositions
        /\ UNCHANGED <<pending_tasks, completed_tasks, returned, discarded>>
    BY <1>4 DEF Assign, LogStarted, DrainedPositions, queueVars, clientVars
  <2>. QED
    BY <2>3, <2>4, StuttersInPool
<1>5. CASE Pop
  <2>1. /\ mpc \notin DrainedPositions /\ mpc' \notin DrainedPositions
        /\ held = NoTask
        /\ UNCHANGED <<task, completed_tasks, returned, discarded>>
    BY <1>5 DEF Pop, DrainedPositions, HandoverInv, threadVars
  <2>2. CASE pending_tasks # <<>>
    <3>1. Head(pending_tasks) \in Tasks
      BY <2>2, TakeFromQueue DEF QueueTypeInv
    <3>2. held' = Head(pending_tasks) /\ pending_tasks' = Tail(pending_tasks)
      BY <1>5, <2>2 DEF Pop
    <3>. QED
      BY <2>1, <2>2, <3>1, <3>2, BeginsInPool
  <2>3. CASE pending_tasks = <<>>
    BY <1>5, <2>1, <2>3, StuttersInPool, InHand, InHandNext DEF Pop
  <2>. QED
    BY <2>2, <2>3
<1>6. CASE InlineDone
  <2>1. held \in Tasks /\ held # NoTask /\ held \in Running
    BY <1>6, TasksAssumption, InHand DEF InlineDone, ManagerTypeInv
  <2>2. \A t \in ThreadIds : task[t] # held
    <3>1. held \in InlineTask
      BY <1>6 DEF InlineDone, InlineTask
    <3>2. held \notin dispatched
      BY <3>1, OnePlaceApart DEF IInv, AllApart, Apart
    <3>. QED
      BY <2>1, <3>2 DEF HeldInv
  <2>3. /\ held' = NoTask /\ completed_tasks' = Append(completed_tasks, held)
        /\ UNCHANGED <<task, pending_tasks, returned, discarded>>
        /\ mpc \notin DrainedPositions /\ mpc' \notin DrainedPositions
    BY <1>6 DEF InlineDone, DrainedPositions, threadVars, clientVars
  <2>4. \A k : k \in Running' <=> k \in Running \ {held}
    BY <2>1, <2>2, <2>3, InHand, InHandNext
  <2>5. Pool!Complete(held)
    BY <2>1, <2>3, <2>4 DEF Pool!Complete, Running, DrainedPositions
  <2>. QED
    BY <2>1, <2>5
<1>7. CASE Decide
  <2>1. UNCHANGED <<held, task, pending_tasks, completed_tasks, returned,
                    discarded>>
    BY <1>7 DEF Decide, Goto, threadVars, queueVars, clientVars
  <2>2. \A k : k \in Running' <=> k \in Running
    BY <2>1, InHand, InHandNext
  <2>3. CASE mpc' # "drained"
    <3>1. mpc \notin DrainedPositions /\ mpc' \notin DrainedPositions
      BY <1>7, <2>3 DEF Decide, Goto, DrainedPositions
    <3>. QED
      BY <2>1, <2>2, <3>1, StuttersInPool
  <2>4. CASE mpc' = "drained"
    <3>1. completed_tasks = <<>> /\ ~hasMoreTasks
      BY <1>7, <2>4 DEF Decide, Goto
    <3>2. Cardinality(dispatched) \in Nat
      BY FS_CardinalityType DEF CountInv
    <3>3. Len(pending_tasks) = 0 /\ Cardinality(dispatched) = 0
      BY <3>1, <3>2, EmptyIffNoLength
         DEF hasMoreTasks, getNumTasks, CountInv, QueueTypeInv
    <3>4. pending_tasks = <<>> /\ dispatched = {}
      BY <3>3, EmptyIffNoLength, FS_EmptySet DEF CountInv, QueueTypeInv
    <3>5. Running = {}
      BY <1>7, <3>4, RunningPlaces DEF Decide, InlineTask
    <3>6. Pool!SayDrained
      BY <2>1, <2>2, <2>4, <3>1, <3>4, <3>5
         DEF Pool!SayDrained, Running, DrainedPositions
    <3>. QED
      BY <3>6
  <2>. QED
    BY <2>3, <2>4
<1>8. ASSUME NEW k \in Tasks, QueueTask(k)
      PROVE  [Pool!PoolNext]_(Pool!poolVars)
  <2>1. /\ k \notin submitted /\ mpc' = "idle"
        /\ pending_tasks' = Append(pending_tasks, k)
        /\ UNCHANGED <<held, task, completed_tasks, returned, discarded>>
    BY <1>8 DEF QueueTask, threadVars
  <2>2. \A j : j \in Running' <=> j \in Running
    BY <2>1, InHand, InHandNext
  <2>3. k \notin Running
    BY <2>1, RunningPlaces DEF PlacedInv
  <2>4. k \notin Pool!Known
    BY <2>1, <2>3 DEF Pool!Known, Pool!Range, Range, PlacedInv, Running
  <2>5. Running' = Running
    BY <2>2
  <2>6. (mpc' \in DrainedPositions) = FALSE
    BY <2>1 DEF DrainedPositions
  <2>7. Pool!Submit(k)
    BY <2>1, <2>4, <2>5, <2>6 DEF Pool!Submit, Running, DrainedPositions
  <2>. QED
    BY <2>7
<1>9. CASE CancelPendingTasks
  <2> DEFINE n == Len(pending_tasks)
  <2>1. /\ mpc = "idle" /\ mpc' = "idle" /\ pending_tasks # <<>>
        /\ discarded' = discarded \cup Range(pending_tasks)
        /\ pending_tasks' = <<>>
        /\ UNCHANGED <<held, task, completed_tasks, returned>>
    BY <1>9 DEF CancelPendingTasks, managerVars, threadVars
  <2>2. \A k : k \in Running' <=> k \in Running
    BY <2>1, InHand, InHandNext
  <2>3. n \in 1..n /\ SubSeq(pending_tasks, n + 1, n) = <<>>
    BY <2>1 DEF QueueTypeInv
  <2>4. Range(pending_tasks) = {pending_tasks[i] : i \in 1..n}
    BY DEF QueueTypeInv, Range
  <2>5. Pool!Discard(n)
    BY <2>1, <2>2, <2>3, <2>4 DEF Pool!Discard, Running, DrainedPositions
  <2>. QED
    BY <2>3, <2>5
<1>10. CASE GetNextCompletedTask
  <2>1. /\ mpc = "answered" /\ mpc' = "idle"
        /\ UNCHANGED <<held, task, pending_tasks, discarded>>
    BY <1>10 DEF GetNextCompletedTask, threadVars
  <2>2. \A k : k \in Running' <=> k \in Running
    BY <2>1, InHand, InHandNext
  <2>3. CASE completed_tasks = <<>>
    BY <1>10, <2>1, <2>2, <2>3, StuttersInPool
       DEF GetNextCompletedTask, DrainedPositions
  <2>4. CASE completed_tasks # <<>>
    BY <1>10, <2>1, <2>2, <2>4
       DEF GetNextCompletedTask, Pool!HandBack, Running, DrainedPositions
  <2>. QED
    BY <2>3, <2>4
<1>11. CASE UpdateDone \/ Unblock \/ BlockTimeout \/ Dispose \/ Join
              \/ Destroyed \/ Wait \/ Destroy
  <2>1. UNCHANGED <<held, task, pending_tasks, completed_tasks, returned,
                    discarded>>
    BY <1>11 DEF UpdateDone, Unblock, BlockTimeout, SecondUpdate, Dispose,
       Join, Destroyed, Wait, Destroy, Goto, threadVars, queueVars, clientVars
  <2>2. mpc' \in DrainedPositions <=> mpc \in DrainedPositions
    BY <1>11 DEF UpdateDone, Unblock, BlockTimeout, SecondUpdate, Dispose,
       Join, Destroyed, Wait, Destroy, Goto, DrainedPositions
  <2>. QED
    BY <2>1, <2>2, StuttersInPool, InHand, InHandNext
<1>12. ASSUME NEW t \in ThreadIds, WorkerAction(t)
       PROVE  [Pool!PoolNext]_(Pool!poolVars)
  <2>1. UNCHANGED <<mpc, held, pending_tasks, completed_tasks, returned,
                    discarded>>
    BY <1>12, WorkersLeaveManager DEF managerVars, queueVars, clientVars
  <2>2. \A u \in ThreadIds : task'[u] = task[u]
    BY <1>12 DEF WorkerAction, WorkerStart, WorkerReady, WorkerWakes,
       WorkerChecks, WorkerClaims, WorkerFinishes, WorkerDies, WorkerSignals,
       WorkerLoops, Step, KeptInv, ThreadTypeInv
  <2>3. \A k : k \in Running' <=> k \in Running
    BY <2>1, <2>2, InHand, InHandNext
  <2>. QED
    BY <2>1, <2>3, StuttersInPool
<1>13. CASE UNCHANGED vars
  <2>1. UNCHANGED <<mpc, held, task, pending_tasks, completed_tasks, returned,
                    discarded>>
    BY <1>13 DEF vars, managerVars, threadVars, queueVars, clientVars
  <2>. QED
    BY <2>1, StuttersInPool, InHand, InHandNext
<1>. QED
  BY <1>1, <1>2, <1>3, <1>4, <1>5, <1>6, <1>7, <1>8, <1>9, <1>10, <1>11,
     <1>12, <1>13, NextCases

(***************************************************************************)
(* The manager and its threads refine the pool: first in, first out, each  *)
(* task run once and handed back once, none lost on the way, and the end   *)
(* announced only when there is nothing left.                              *)
(***************************************************************************)
THEOREM PoolRefinement ==
  ASSUME WorkersPrompt, NullTasks = {}, ~AbandonAllowed
  PROVE  Spec => ImplementsPool
<1>1. Init => Pool!PoolInit
  <2>1. Init => Running = {}
    BY InHand DEF Init
  <2>. QED
    BY <2>1 DEF Init, Pool!PoolInit, Running
<1>2. IInv /\ PromptInv /\ NotCrashed /\ [Next]_vars
        => [Pool!PoolNext]_(Pool!poolVars)
  BY PoolStep DEF NotCrashed
<1>. QED
  BY <1>1, <1>2, Invariance, PromptInvariance, NoCrash, PTL
     DEF Spec, ImplementsPool, Pool!PoolSpec
=============================================================================
