---------------------------- MODULE TaskManager ----------------------------
(***************************************************************************)
(* osgGIS::TaskManager and its TaskThreads (src/src/osgGIS/TaskManager,    *)
(* TaskManager.cpp).                                                       *)
(*                                                                         *)
(* One thread, the manager, calls queueTask, wait, getNextCompletedTask,   *)
(* cancelPendingTasks and the destructor; wait() runs update(), which      *)
(* polls every TaskThread, so that its steps interleave with those of the  *)
(* workers.  A step of the model is what happens between two points where  *)
(* another thread can see or change shared state.  The state of a          *)
(* TaskThread is written under its mutex, but a worker that starts writes  *)
(* task and state without it and without looking at them.                  *)
(*                                                                         *)
(* The two AutoResetBlocks have one blocker each, so that they are strict  *)
(* counting semaphores (AutoResetBlockProofs, SemaphoreRefinement): they   *)
(* are kept here as their counters.                                        *)
(***************************************************************************)
EXTENDS Integers, Sequences, FiniteSets, Functions

CONSTANTS
  Tasks,          \* the tasks a client may queue, each once
  NullTasks,      \* the members of Tasks that stand for a NULL pointer
  NoTask,         \* an empty ref_ptr<Task>
  MaxThreads,     \* bound on the max_threads argument of the constructor
  TimedWait,      \* does the client give wait() a timeout?
  ThreadsMayDie,  \* may a task take its thread with it?
  AbandonAllowed, \* may the client destroy the manager before the end?
  WorkersPrompt   \* scheduling: does a worker that can move get to its task,
                  \* or back to sleep, before the manager looks at it?

ASSUME TasksAssumption == /\ NullTasks \subseteq Tasks
                          /\ NoTask \notin Tasks
ASSUME ThreadsAssumption == MaxThreads \in Nat
ASSUME SwitchesAssumption ==
  /\ TimedWait \in BOOLEAN
  /\ ThreadsMayDie \in BOOLEAN
  /\ AbandonAllowed \in BOOLEAN
  /\ WorkersPrompt \in BOOLEAN

VARIABLES
  \* the manager
  mpc,               \* where the manager is: see ManagerPositions
  num_threads,       \* size of the list threads; 0: single-threaded mode
  cur,               \* the thread update() or ~TaskManager() is looking at
  final,             \* is this the second update() of wait()?
  held,              \* the local ref_ptr<Task> of update()
  pending_tasks,
  completed_tasks,
  num_running_tasks,
  activity_signals,  \* activity_block.signal_count
  \* the TaskThreads
  tpc,               \* where each worker is in run(): see WorkerPositions
  state,
  task,
  exec,              \* the task whose run() the worker is in
  run_signals,       \* run_block.signal_count
  \* history
  submitted, dispatched, started, ran, failed, returned, discarded

clientVars  == <<submitted, returned, discarded>>
queueVars   == <<pending_tasks, completed_tasks, num_running_tasks>>
managerVars == <<mpc, num_threads, cur, final, held>>
threadVars  == <<tpc, state, task, exec, run_signals>>
runVars     == <<dispatched, started, ran, failed>>

vars == <<managerVars, queueVars, activity_signals, threadVars, clientVars,
          runVars>>

ThreadIds == 1..MaxThreads
Threads == 1..num_threads  \* the list threads, in its order
multi_threaded == num_threads > 0

States == {"READY", "RUNNING", "RESULT_READY", "EXIT"}

ManagerPositions ==
  {"idle",      \* not in a call
   "collect", "dispatch", "offer", "assign", "orphan",  \* update(), threads
   "pop", "inline",                                     \* update(), no thread
   "decide",    \* wait(), after its first update()
   "blocked",   \* wait(), in activity_block.block()
   "answered",  \* wait() has returned true
   "drained",   \* wait() has returned false
   "dispose", "join", "destroyed",                      \* ~TaskManager()
   "crashed"}   \* a NULL task was dereferenced

WorkerPositions ==
  {"unborn",            \* the TaskThread does not exist
   "start", "ready",    \* the two assignments at the head of run()
   "block",             \* at or in run_block.block()
   "check", "claim",    \* the test of state and task, and setState( RUNNING )
   "running",           \* in task->run()
   "signal", "exit?",   \* after the task: signal, then test for STATE_EXIT
   "quit", "dead"}      \* run() has returned; the thread has died

\* A task as the ref_ptr that holds it.
Pointer(k) == IF k \in NullTasks THEN NoTask ELSE k

\* TaskManager( n ), or TaskManager() with n processors.
Init ==
  /\ num_threads \in 0..MaxThreads
  /\ mpc = "idle" /\ cur = 1 /\ final = FALSE /\ held = NoTask
  /\ pending_tasks = <<>> /\ completed_tasks = <<>>
  /\ num_running_tasks = 0 /\ activity_signals = 0
  /\ tpc = [t \in ThreadIds |-> IF t <= num_threads THEN "start" ELSE "unborn"]
  /\ state = [t \in ThreadIds |-> "READY"]
  /\ task = [t \in ThreadIds |-> NoTask]
  /\ exec = [t \in ThreadIds |-> NoTask]
  /\ run_signals = [t \in ThreadIds |-> 0]
  /\ submitted = {} /\ dispatched = {} /\ started = {} /\ ran = {}
  /\ failed = {} /\ returned = {} /\ discarded = {}

-----------------------------------------------------------------------------
(***************************************************************************)
(* The client.                                                             *)
(***************************************************************************)
QueueTask(k) ==
  /\ mpc \in {"idle", "drained"}
  /\ k \notin submitted
  /\ submitted' = submitted \cup {k}
  /\ pending_tasks' = Append(pending_tasks, k)
  /\ mpc' = "idle"
  /\ UNCHANGED <<num_threads, cur, final, held, completed_tasks,
                 num_running_tasks, activity_signals, threadVars, returned,
                 discarded, runVars>>

CancelPendingTasks ==
  /\ mpc = "idle"
  /\ pending_tasks # <<>>
  /\ discarded' = discarded \cup Range(pending_tasks)
  /\ pending_tasks' = <<>>
  /\ UNCHANGED <<managerVars, completed_tasks, num_running_tasks,
                 activity_signals, threadVars, submitted, returned, runVars>>

\* The compile loops take a completed task, if any, each time wait() is true.
GetNextCompletedTask ==
  /\ mpc = "answered"
  /\ mpc' = "idle"
  /\ \/ /\ completed_tasks # <<>>
        /\ returned' = returned \cup {Head(completed_tasks)}
        /\ completed_tasks' = Tail(completed_tasks)
     \/ /\ completed_tasks = <<>>
        /\ UNCHANGED <<returned, completed_tasks>>
  /\ UNCHANGED <<num_threads, cur, final, held, pending_tasks,
                 num_running_tasks, activity_signals, threadVars, submitted,
                 discarded, runVars>>

-----------------------------------------------------------------------------
(***************************************************************************)
(* wait() and update().                                                    *)
(***************************************************************************)
\* Slip: the running tasks are not counted.
NumTasksQueued == Len(pending_tasks) + Len(completed_tasks)

getNumTasks == Len(pending_tasks) + num_running_tasks + Len(completed_tasks)

hasMoreTasks == getNumTasks > 0

Goto(p) == /\ mpc' = p
           /\ UNCHANGED <<num_threads, cur, final, held>>

\* wait() enters its first update().
Wait ==
  /\ mpc = "idle"
  /\ mpc' = IF multi_threaded THEN "collect" ELSE "pop"
  /\ cur' = 1
  /\ final' = FALSE
  /\ UNCHANGED <<num_threads, held, queueVars, activity_signals, threadVars,
                 clientVars, runVars>>

\* The worker of t has nothing left to react to: it is neither on its way to
\* its first run_block.block() nor between a signal and what it does about it.
Settled(t) ==
  /\ tpc[t] \notin {"start", "ready", "check", "claim"}
  /\ run_signals[t] = 0

\* Slip: removeTask() forgotten.
CompletesAgain(t) ==
  /\ completed_tasks' = Append(completed_tasks, task[t])
  /\ num_running_tasks' = num_running_tasks - 1
  /\ UNCHANGED <<dispatched, task, state>>

\* removeTask() of the thread, and what update() does with the task.
Completes(t) ==
  /\ completed_tasks' = Append(completed_tasks, task[t])
  /\ dispatched' = dispatched \ {task[t]}
  /\ task' = [task EXCEPT ![t] = NoTask]
  /\ state' = [state EXCEPT ![t] = "READY"]
  /\ num_running_tasks' = num_running_tasks - 1

NothingCompletes ==
  UNCHANGED <<completed_tasks, dispatched, task, state, num_running_tasks>>

\* handle any completed tasks
Collect ==
  /\ mpc = "collect" /\ cur \in Threads
  /\ WorkersPrompt => Settled(cur)
  /\ Goto("dispatch")
  /\ \/ state[cur] = "RESULT_READY" /\ Completes(cur)
     \/ state[cur] # "RESULT_READY" /\ NothingCompletes
  /\ UNCHANGED <<pending_tasks, activity_signals, tpc, exec, run_signals,
                 clientVars, started, ran, failed>>

\* A task leaves the queue for the thread that update() is looking at.
Take(k, rest) ==
  /\ held' = k
  /\ pending_tasks' = rest
  /\ dispatched' = dispatched \cup {k}
  /\ num_running_tasks' = num_running_tasks + 1
  /\ mpc' = "offer"

TakeNone ==
  /\ mpc' = "orphan"
  /\ UNCHANGED <<held, pending_tasks, dispatched, num_running_tasks>>

DispatchFrame ==
  UNCHANGED <<num_threads, cur, final, completed_tasks, activity_signals,
              threadVars, clientVars, started, ran, failed>>

\* Slip: the test for STATE_READY left to runTask().
DispatchToAny ==
  /\ mpc = "dispatch"
  /\ \/ pending_tasks # <<>> /\ Take(Head(pending_tasks), Tail(pending_tasks))
     \/ pending_tasks = <<>> /\ TakeNone
  /\ DispatchFrame

\* Slip: back() for front().
DispatchNewest ==
  /\ mpc = "dispatch"
  /\ LET n == Len(pending_tasks)
     IN  \/ /\ state[cur] = "READY" /\ n > 0
            /\ Take(pending_tasks[n], SubSeq(pending_tasks, 1, n - 1))
         \/ (state[cur] # "READY" \/ n = 0) /\ TakeNone
  /\ DispatchFrame

\* dispatch any pending tasks: the head of the queue is taken out
Dispatch ==
  /\ mpc = "dispatch"
  /\ \/ /\ state[cur] = "READY" /\ pending_tasks # <<>>
        /\ Take(Head(pending_tasks), Tail(pending_tasks))
     \/ (state[cur] # "READY" \/ pending_tasks = <<>>) /\ TakeNone
  /\ DispatchFrame

\* after runTask(), update() logs task->getName()
LogStarted == IF held \in NullTasks THEN "crashed" ELSE "orphan"

\* runTask(): the test for STATE_READY
Offer ==
  /\ mpc = "offer"
  /\ \/ /\ state[cur] = "READY"
        /\ mpc' = "assign"
        /\ UNCHANGED held
     \/ /\ state[cur] # "READY"  \* "ILLEGAL STATE"
        /\ mpc' = LogStarted
        /\ held' = NoTask
  /\ UNCHANGED <<num_threads, cur, final, queueVars, activity_signals,
                 threadVars, clientVars, runVars>>

\* runTask(): task = _task; run_block.signal()
Assign ==
  /\ mpc = "assign"
  /\ task' = [task EXCEPT ![cur] = Pointer(held)]
  /\ run_signals' = [run_signals EXCEPT ![cur] = @ + 1]
  /\ mpc' = LogStarted
  /\ held' = NoTask
  /\ UNCHANGED <<num_threads, cur, final, queueVars, activity_signals, tpc,
                 state, exec, clientVars, runVars>>

OrphanFrame ==
  UNCHANGED <<num_threads, final, held, pending_tasks, activity_signals, exec,
              run_signals, clientVars, started, ran>>

\* Slip: startThread() forgotten.
OrphanNoRestart ==
  /\ mpc = "orphan"
  /\ mpc' = "collect"
  /\ cur' = cur + 1
  /\ UNCHANGED tpc
  /\ \/ /\ state[cur] = "RUNNING" /\ tpc[cur] = "dead"
        /\ Completes(cur)
        /\ failed' = failed \cup {task[cur]}
     \/ /\ state[cur] # "RUNNING" \/ tpc[cur] # "dead"
        /\ NothingCompletes /\ UNCHANGED failed
  /\ OrphanFrame

\* check for orphaned threads, and on to the next thread
Orphan ==
  /\ mpc = "orphan"
  /\ mpc' = "collect"
  /\ cur' = cur + 1
  /\ \/ /\ state[cur] = "RUNNING" /\ tpc[cur] = "dead"
        /\ Completes(cur)
        /\ failed' = failed \cup {task[cur]}
        /\ tpc' = [tpc EXCEPT ![cur] = "start"]
     \/ /\ state[cur] # "RUNNING" \/ tpc[cur] # "dead"
        /\ NothingCompletes /\ UNCHANGED <<failed, tpc>>
  /\ OrphanFrame

\* The loop of update() ends: back to wait(), or out of it.
UpdateDone ==
  /\ mpc = "collect" /\ cur \notin Threads
  /\ Goto(IF final THEN "answered" ELSE "decide")
  /\ UNCHANGED <<queueVars, activity_signals, threadVars, clientVars, runVars>>

\* update() with no threads: the head of the queue is taken out; NULL is
\* dropped.
Pop ==
  /\ mpc = "pop"
  /\ \/ /\ pending_tasks # <<>> /\ Head(pending_tasks) \notin NullTasks
        /\ held' = Head(pending_tasks)
        /\ pending_tasks' = Tail(pending_tasks)
        /\ started' = started \cup {Head(pending_tasks)}
        /\ mpc' = "inline"
        /\ UNCHANGED discarded
     \/ /\ pending_tasks # <<>> /\ Head(pending_tasks) \in NullTasks
        /\ pending_tasks' = Tail(pending_tasks)
        /\ discarded' = discarded \cup {Head(pending_tasks)}
        /\ mpc' = "decide"
        /\ UNCHANGED <<held, started>>
     \/ /\ pending_tasks = <<>>
        /\ mpc' = "decide"
        /\ UNCHANGED <<held, pending_tasks, started, discarded>>
  /\ UNCHANGED <<num_threads, cur, final, completed_tasks, num_running_tasks,
                 activity_signals, threadVars, submitted, returned,
                 dispatched, ran, failed>>

\* update() with no threads: the task has run in the manager's own thread.
InlineDone ==
  /\ mpc = "inline"
  /\ completed_tasks' = Append(completed_tasks, held)
  /\ ran' = ran \cup {held}
  /\ held' = NoTask
  /\ mpc' = "decide"
  /\ UNCHANGED <<num_threads, cur, final, pending_tasks, num_running_tasks,
                 activity_signals, threadVars, clientVars, dispatched,
                 started, failed>>

\* wait(), between its two updates
Decide ==
  /\ mpc = "decide"
  /\ \/ completed_tasks # <<>> /\ Goto("answered")
     \/ completed_tasks = <<>> /\ ~hasMoreTasks /\ Goto("drained")
     \/ completed_tasks = <<>> /\ hasMoreTasks
          /\ Goto(IF multi_threaded THEN "blocked" ELSE "answered")
  /\ UNCHANGED <<queueVars, activity_signals, threadVars, clientVars, runVars>>

SecondUpdate ==
  /\ mpc' = "collect"
  /\ cur' = 1
  /\ final' = TRUE
  /\ UNCHANGED <<num_threads, held, queueVars, threadVars, clientVars,
                 runVars>>

\* activity_block.block() returns with a signal
Unblock ==
  /\ mpc = "blocked"
  /\ activity_signals > 0
  /\ activity_signals' = activity_signals - 1
  /\ SecondUpdate

\* Slip: timeout_ms > 0L tested the wrong way round.
BlockTimeoutUnwanted ==
  /\ mpc = "blocked"
  /\ ~TimedWait
  /\ UNCHANGED activity_signals
  /\ SecondUpdate

\* activity_block.block( timeout_ms ) returns without
BlockTimeout ==
  /\ mpc = "blocked"
  /\ TimedWait
  /\ UNCHANGED activity_signals
  /\ SecondUpdate

-----------------------------------------------------------------------------
(***************************************************************************)
(* ~TaskManager(): dispose() and join() one thread after the other.        *)
(***************************************************************************)
Destroy ==
  /\ \/ mpc = "drained"
     \/ mpc = "idle" /\ AbandonAllowed
  /\ mpc' = "dispose"
  /\ cur' = 1
  /\ UNCHANGED <<num_threads, final, held, queueVars, activity_signals,
                 threadVars, clientVars, runVars>>

\* Slip: run_block.signal() forgotten.
DisposeSilently ==
  /\ mpc = "dispose" /\ cur \in Threads
  /\ WorkersPrompt => Settled(cur)
  /\ state' = [state EXCEPT ![cur] = "EXIT"]
  /\ Goto("join")
  /\ UNCHANGED <<queueVars, activity_signals, tpc, task, exec, run_signals,
                 clientVars, runVars>>

\* dispose(), and into join()
Dispose ==
  /\ mpc = "dispose" /\ cur \in Threads
  /\ WorkersPrompt => Settled(cur)
  /\ state' = [state EXCEPT ![cur] = "EXIT"]
  /\ run_signals' = [run_signals EXCEPT ![cur] = @ + 1]
  /\ Goto("join")
  /\ UNCHANGED <<queueVars, activity_signals, tpc, task, exec, clientVars,
                 runVars>>

Join ==
  /\ mpc = "join"
  /\ tpc[cur] \in {"quit", "dead"}
  /\ mpc' = "dispose"
  /\ cur' = cur + 1
  /\ UNCHANGED <<num_threads, final, held, queueVars, activity_signals,
                 threadVars, clientVars, runVars>>

Destroyed ==
  /\ mpc = "dispose" /\ cur \notin Threads
  /\ Goto("destroyed")
  /\ UNCHANGED <<queueVars, activity_signals, threadVars, clientVars, runVars>>

-----------------------------------------------------------------------------
(***************************************************************************)
(* TaskThread::run().                                                      *)
(***************************************************************************)
Step(t, from, to) ==
  /\ mpc # "crashed"
  /\ tpc[t] = from
  /\ tpc' = [tpc EXCEPT ![t] = to]
  /\ UNCHANGED <<managerVars, queueVars, clientVars, dispatched, failed>>

\* task = NULL
WorkerStart(t) ==
  /\ Step(t, "start", "ready")
  /\ task' = [task EXCEPT ![t] = NoTask]
  /\ UNCHANGED <<state, exec, run_signals, activity_signals, started, ran>>

\* state = STATE_READY
WorkerReady(t) ==
  /\ Step(t, "ready", "block")
  /\ state' = [state EXCEPT ![t] = "READY"]
  /\ UNCHANGED <<task, exec, run_signals, activity_signals, started, ran>>

\* run_block.block() returns
WorkerWakes(t) ==
  /\ Step(t, "block", "check")
  /\ run_signals[t] > 0
  /\ run_signals' = [run_signals EXCEPT ![t] = @ - 1]
  /\ UNCHANGED <<state, task, exec, activity_signals, started, ran>>

\* Slip: the test of the state forgotten.
WorkerChecksTask(t) ==
  /\ \/ Step(t, "check", "claim") /\ task[t] # NoTask
     \/ Step(t, "check", "signal") /\ task[t] = NoTask
  /\ UNCHANGED <<state, task, exec, run_signals, activity_signals, started,
                 ran>>

\* getState() == STATE_READY && task.valid()
WorkerChecks(t) ==
  /\ \/ Step(t, "check", "claim") /\ state[t] = "READY" /\ task[t] # NoTask
     \/ Step(t, "check", "signal") /\ (state[t] # "READY" \/ task[t] = NoTask)
  /\ UNCHANGED <<state, task, exec, run_signals, activity_signals, started,
                 ran>>

\* Slip: the result is announced before it is there.
WorkerClaimsEarly(t) ==
  /\ Step(t, "claim", "running")
  /\ state' = [state EXCEPT ![t] = "RESULT_READY"]
  /\ exec' = [exec EXCEPT ![t] = task[t]]
  /\ started' = started \cup {task[t]}
  /\ UNCHANGED <<task, run_signals, activity_signals, ran>>

\* setState( STATE_RUNNING ); task->run() begins
WorkerClaims(t) ==
  /\ Step(t, "claim", "running")
  /\ state' = [state EXCEPT ![t] = "RUNNING"]
  /\ exec' = [exec EXCEPT ![t] = task[t]]
  /\ started' = started \cup {task[t]}
  /\ UNCHANGED <<task, run_signals, activity_signals, ran>>

\* task->run() returns; setState( STATE_RESULT_READY )
WorkerFinishes(t) ==
  /\ Step(t, "running", "signal")
  /\ state' = [state EXCEPT ![t] = "RESULT_READY"]
  /\ ran' = ran \cup {exec[t]}
  /\ exec' = [exec EXCEPT ![t] = NoTask]
  /\ UNCHANGED <<task, run_signals, activity_signals, started>>

\* task->run() does not return: the thread dies in it
WorkerDies(t) ==
  /\ ThreadsMayDie
  /\ Step(t, "running", "dead")
  /\ exec' = [exec EXCEPT ![t] = NoTask]
  /\ UNCHANGED <<state, task, run_signals, activity_signals, started, ran>>

\* activity_block.signal()
WorkerSignals(t) ==
  /\ Step(t, "signal", "exit?")
  /\ activity_signals' = activity_signals + 1
  /\ UNCHANGED <<state, task, exec, run_signals, started, ran>>

\* if ( getState() == STATE_EXIT ) break
WorkerLoops(t) ==
  /\ Step(t, "exit?", IF state[t] = "EXIT" THEN "quit" ELSE "block")
  /\ UNCHANGED <<state, task, exec, run_signals, activity_signals, started,
                 ran>>

-----------------------------------------------------------------------------
\* The steps inside the manager's calls; the client decides on the others.
ManagerStep ==
  \/ Collect \/ Dispatch \/ Offer \/ Assign \/ Orphan \/ UpdateDone
  \/ Pop \/ InlineDone
  \/ Decide \/ Unblock \/ BlockTimeout
  \/ Dispose \/ Join \/ Destroyed

ClientStep ==
  \/ \E k \in Tasks : QueueTask(k)
  \/ CancelPendingTasks
  \/ GetNextCompletedTask
  \/ Wait
  \/ Destroy

\* The steps of a worker that the scheduler owes it.
WorkerStep(t) ==
  \/ WorkerStart(t) \/ WorkerReady(t) \/ WorkerWakes(t) \/ WorkerChecks(t)
  \/ WorkerClaims(t) \/ WorkerFinishes(t) \/ WorkerSignals(t)
  \/ WorkerLoops(t)

Next ==
  \/ ManagerStep
  \/ ClientStep
  \/ \E t \in ThreadIds : WorkerStep(t) \/ WorkerDies(t)

Spec == Init /\ [][Next]_vars

(***************************************************************************)
(* Threads are scheduled and the condition variables deliver; tasks end    *)
(* (or kill their thread); and the client follows the usage pattern of the *)
(* header: wait() until it returns false, taking a task each time.  It is  *)
(* never obliged to queue, to cancel or to destroy.                        *)
(***************************************************************************)
Fairness ==
  /\ WF_vars(ManagerStep)
  /\ WF_vars(Wait)
  /\ WF_vars(GetNextCompletedTask)
  /\ \A t \in ThreadIds : WF_vars(WorkerStep(t))

FairSpec == Spec /\ Fairness

-----------------------------------------------------------------------------
TypeOK ==
  /\ mpc \in ManagerPositions
  /\ num_threads \in 0..MaxThreads
  /\ cur \in 1..(MaxThreads + 1)
  /\ final \in BOOLEAN
  /\ held \in Tasks \cup {NoTask}
  /\ pending_tasks \in Seq(Tasks)
  /\ completed_tasks \in Seq(Tasks)
  /\ num_running_tasks \in Nat
  /\ activity_signals \in Nat
  /\ tpc \in [ThreadIds -> WorkerPositions]
  /\ state \in [ThreadIds -> States]
  /\ task \in [ThreadIds -> Tasks \cup {NoTask}]
  /\ exec \in [ThreadIds -> Tasks \cup {NoTask}]
  /\ run_signals \in [ThreadIds -> Nat]
  /\ submitted \subseteq Tasks /\ dispatched \subseteq Tasks
  /\ started \subseteq Tasks /\ ran \subseteq Tasks
  /\ failed \subseteq Tasks /\ returned \subseteq Tasks
  /\ discarded \subseteq Tasks

(***************************************************************************)
(* "False if all known tasks have completed": when wait() returns false,   *)
(* every task that was ever queued has been handed back, or was cancelled. *)
(* The count num_running_tasks it rests on is kept apart from the threads' *)
(* states, and this must hold whatever the threads do in between.          *)
(***************************************************************************)
FalseMeansDone == mpc = "drained" => submitted = returned \cup discarded

(***************************************************************************)
(* A task is in one place: queued, dispatched, completed, handed back or   *)
(* discarded, and no queue holds it twice.  So nothing is handed back      *)
(* twice, or both discarded and run.                                       *)
(***************************************************************************)
InlineTask == IF mpc = "inline" THEN {held} ELSE {}

Places == <<Range(pending_tasks), dispatched, InlineTask,
            Range(completed_tasks), returned, discarded>>

OnePlaceEach ==
  /\ \A i, j \in 1..6 : i # j => Places[i] \cap Places[j] = {}
  /\ IsInjective(pending_tasks)
  /\ IsInjective(completed_tasks)

(***************************************************************************)
(* No task's run() is entered twice, in two threads or one after the       *)
(* other: a thread that goes into run() goes there with a task that was    *)
(* never started, even after spurious signals and restarts of threads.     *)
(***************************************************************************)
StartsOnce ==
  [][\A t \in ThreadIds :
       exec'[t] # exec[t] /\ exec'[t] # NoTask => exec'[t] \notin started]_vars

(***************************************************************************)
(* Every task that was taken out of the queue for a thread is in the hands *)
(* of that thread, or of update(), until it completes.                     *)
(***************************************************************************)
TasksInHand == {task[t] : t \in ThreadIds} \cup {held}

NoTaskLost == dispatched \subseteq TasksInHand

(***************************************************************************)
(* What is handed back as completed has run to its end, or died with its   *)
(* thread; it is not a task that never ran or that is still in its run().  *)
(***************************************************************************)
CompletedHaveRun ==
  Range(completed_tasks) \cup returned \subseteq ran \cup failed

(***************************************************************************)
(* wait() returns: the manager does not sleep on activity_block for ever,  *)
(* though a thread that dies signals nothing.                              *)
(***************************************************************************)
WaitReturns == mpc = "blocked" ~> mpc \in {"answered", "drained"}

(***************************************************************************)
(* "The task will run when you call wait(), the task has reached the front *)
(* of the queue, and there is a working thread available."                 *)
(***************************************************************************)
EveryTaskRuns ==
  \A k \in Tasks : k \in submitted ~> k \in started \cup discarded

(***************************************************************************)
(* Every task that is queued is handed back to the client in the end,      *)
(* which follows the usage pattern, or it was cancelled: the compile loops *)
(* end.                                                                    *)
(***************************************************************************)
EveryTaskReturns ==
  \A k \in Tasks : k \in submitted ~> k \in returned \cup discarded

(***************************************************************************)
(* ~TaskManager() ends: each thread sees STATE_EXIT ("quit the thread if   *)
(* necessary") and can be joined.                                          *)
(***************************************************************************)
DestructorEnds == mpc = "dispose" ~> mpc = "destroyed"

(***************************************************************************)
(* The manager keeps the promise of the abstract pool: first in, first     *)
(* out, each task run once and handed back once, none lost on the way.     *)
(***************************************************************************)
Pool == INSTANCE TaskPool
          WITH queue    <- pending_tasks,
               running  <- TasksInHand \ {NoTask},
               finished <- completed_tasks,
               drained  <- mpc \in {"drained", "dispose", "join", "destroyed"}

ImplementsPool == Pool!PoolSpec
=============================================================================
