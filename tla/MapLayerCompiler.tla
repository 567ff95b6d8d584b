-------------------------- MODULE MapLayerCompiler --------------------------
(***************************************************************************)
(* The build of one gridded layer: MapLayerCompiler::compile() with the    *)
(* keys, tasks and index of GriddedMapLayerCompiler, the CellCompilers it  *)
(* queues, and the files they leave (src/src/osgGISProjects).              *)
(*                                                                         *)
(* The tasks run in a TaskManager, of which only the promise is used: the  *)
(* module is built on TaskPool.  A cell is compiled in a worker; its file  *)
(* is written by the thread that runs the compile loop, after the task was *)
(* handed back.  The program may stop at any point and be run again on the *)
(* files that it left.                                                     *)
(***************************************************************************)
EXTENDS TaskPool, FiniteSets, Integers

CONSTANTS
  NumCells,      \* cells of the grid (its columns and rows, in one order)
  MaxLevels,     \* bound on the levels of detail of the layer
  Layouts,       \* the depths of its levels, one sequence for each layer
  Contents,      \* what compiling a cell of a level may give
  Selections,    \* the sets of cells a CellSelector may leave
  ThreadChoices, \* sizes of the TaskManager; 0: single-threaded mode
  MaxRuns,       \* bound on the runs of the program
  TasksMayDie,   \* may a task take its thread with it?
  WritesMayFail, \* may packageNode() fail?
  CrashesAllowed \* may the program stop in the middle of a run?

Cells == 1..NumCells
Depths == 0..(MaxLevels - 1)

ASSUME SizesAssumption ==
  /\ NumCells \in Nat \ {0} /\ MaxLevels \in Nat \ {0} /\ MaxRuns \in Nat
  /\ ThreadChoices \subseteq Nat
  /\ Tasks = 1..(NumCells * MaxLevels)
ASSUME LayersAssumption ==
  /\ \A l \in Layouts : l \in Seq(Depths) /\ Len(l) \in 1..MaxLevels
  /\ Contents \subseteq [1..MaxLevels -> [Cells -> {"geometry", "nothing", "error"}]]
  /\ Selections \subseteq SUBSET Cells

VARIABLES
  pc,          \* see Positions
  runs,        \* how often the program was started
  \* what the layer is, and how it is compiled
  levels, depth_first, content, threads,
  \* the compile session
  selected,    \* cells that the CellSelector selects
  outcome,     \* of each task: see Outcomes
  packaged,    \* the task whose node is being written
  completed,   \* tasks_completed, when progress was last reported
  scene_graph, \* keys under the scene graph of the session
  troubled,    \* keys that died or failed to be written in this run
  \* the file system
  files,       \* "absent", "partial" or "whole": the file of each key
  built,       \* the level whose definition the file was compiled from
  root,        \* keys that the root file refers to
  root_file    \* "absent", "partial" or "whole"

layerVars == <<levels, depth_first, content, threads>>
sessionVars == <<selected, outcome, packaged, completed, scene_graph, troubled>>
diskVars == <<files, built, root, root_file>>
vars == <<poolVars, pc, runs, layerVars, sessionVars, diskVars>>

Positions ==
  {"off",                    \* not running
   "compiling",              \* the compile loop, in wait() or around it
   "opening", "writing",     \* packageNode() of a cell
   "indexing", "packaging",  \* finishCompiling(); packageNode() of the root
   "done",                   \* the layer is built
   "rootless",               \* the same, but its root file was not written
   "crashed"}

Outcomes ==
  {"unknown",              \* run() has not looked at the disk yet
   "compiling",            \* need_to_compile; run() goes on
   "geometry", "nothing",  \* OUTPUT_NON_EMPTY, OUTPUT_EMPTY
   "exists",               \* OUTPUT_ALREADY_EXISTS
   "error",                \* the result is not OK
   "exception"}            \* the thread died; the result is not OK

\* A cell at a depth: GridCellKey, and the file "g" + its name.
Keys == [cell : Cells, depth : Depths]

NoTask == 0
NoLevel == 0

-----------------------------------------------------------------------------
(***************************************************************************)
(* Keys and tasks.                                                         *)
(***************************************************************************)
NumLevels == Len(levels)

\* collectGeometryKeys(): the i-th key
Key(i) ==
  LET n == i - 1
  IN  IF depth_first
      THEN [cell |-> 1 + (n \div NumLevels), depth |-> levels[1 + (n % NumLevels)]]
      ELSE [cell |-> 1 + (n % NumCells), depth |-> levels[1 + (n \div NumCells)]]

NumKeys == NumCells * NumLevels

\* getLodForKey(): the level is found by its place in the list.
DefinitionOf(key) == IF key.depth < NumLevels THEN key.depth + 1 ELSE NoLevel

\* createTask() gives NULL if there is no definition.
IsNull(t) == DefinitionOf(Key(t)) = NoLevel

\* queueTasks(): the keys that the CellSelector lets through, in their order
QueuedTasks(cells) ==
  LET chosen == {i \in 1..NumKeys : Key(i).cell \in cells}
      UpTo[n \in 0..NumKeys] ==
        IF n = 0 THEN <<>>
        ELSE IF n \in chosen THEN Append(UpTo[n - 1], n) ELSE UpTo[n - 1]
  IN  UpTo[NumKeys]

\* keys.size(), selected or not
total_tasks == NumKeys

getNumTasks == Len(queue) + Cardinality(running) + Len(finished)

multi_threaded == threads > 0

-----------------------------------------------------------------------------
Init ==
  /\ PoolInit
  /\ pc = "off" /\ runs = 0
  /\ levels \in Layouts /\ depth_first \in BOOLEAN /\ content \in Contents
  /\ threads \in ThreadChoices
  /\ selected = {} /\ outcome = [t \in Tasks |-> "unknown"]
  /\ packaged = NoTask /\ completed = 0 /\ scene_graph = {} /\ troubled = {}
  /\ files = [k \in Keys |-> "absent"]
  /\ built = [k \in Keys |-> NoLevel]
  /\ root = {} /\ root_file = "absent"

\* A fresh session and TaskManager, with these tasks queued.
NewSession(cells, tasks) ==
  /\ selected' = cells
  /\ queue' = tasks
  /\ running' = {} /\ finished' = <<>> /\ returned' = {} /\ discarded' = {}
  /\ drained' = FALSE
  /\ outcome' = [t \in Tasks |-> "unknown"]
  /\ packaged' = NoTask /\ completed' = 0
  /\ scene_graph' = {} /\ troubled' = {}

StartCompiling ==
  /\ pc \in {"off", "done", "rootless", "crashed"}
  /\ runs < MaxRuns
  /\ runs' = runs + 1
  /\ pc' = "compiling"
  /\ \E cells \in Selections : NewSession(cells, QueuedTasks(cells))
  /\ UNCHANGED <<layerVars, diskVars>>

-----------------------------------------------------------------------------
(***************************************************************************)
(* wait(): the TaskManager gives tasks to its threads and collects those   *)
(* that have run.  With no threads the task runs inside wait().            *)
(***************************************************************************)
WaitFrame == UNCHANGED <<runs, layerVars, sessionVars, diskVars>>

HasIdleThread ==
  IF multi_threaded THEN Cardinality(running) < threads ELSE running = {}

Dispatch ==
  /\ pc = "compiling"
  /\ queue # <<>> /\ ~IsNull(Head(queue))
  /\ HasIdleThread
  /\ Begin
  /\ UNCHANGED pc
  /\ WaitFrame

\* A thread dereferences the NULL task; update() drops it if there is none.
DispatchNull ==
  /\ pc = "compiling"
  /\ queue # <<>> /\ IsNull(Head(queue))
  /\ HasIdleThread
  /\ Discard(1)
  /\ pc' = IF multi_threaded THEN "crashed" ELSE pc
  /\ WaitFrame

Collect(t) ==
  /\ pc = "compiling"
  /\ outcome[t] \notin {"unknown", "compiling"}
  /\ Complete(t)
  /\ UNCHANGED pc
  /\ WaitFrame

-----------------------------------------------------------------------------
(***************************************************************************)
(* CellCompiler::run(), in a worker.                                       *)
(***************************************************************************)
WorkerFrame ==
  UNCHANGED <<poolVars, pc, runs, layerVars, selected, packaged, completed,
              scene_graph, diskVars>>

InSession == pc \in {"compiling", "opening", "writing"}

\* Slip: every cell needs compiling.
CellLooksNowhere(t) ==
  /\ InSession
  /\ t \in running /\ outcome[t] = "unknown"
  /\ outcome' = [outcome EXCEPT ![t] = "compiling"]
  /\ UNCHANGED troubled
  /\ WorkerFrame

\* need_to_compile = !fileExists( abs_output_uri )
CellLooks(t) ==
  /\ InSession
  /\ t \in running /\ outcome[t] = "unknown"
  /\ outcome' = [outcome EXCEPT ![t] =
                   IF files[Key(t)] = "absent" THEN "compiling" ELSE "exists"]
  /\ UNCHANGED troubled
  /\ WorkerFrame

\* FeatureLayerCompiler::run() has run the filter graph.
CellCompiles(t) ==
  /\ InSession
  /\ t \in running /\ outcome[t] = "compiling"
  /\ LET key == Key(t)
     IN  outcome' = [outcome EXCEPT ![t] =
                       content[DefinitionOf(key)][key.cell]]
  /\ UNCHANGED troubled
  /\ WorkerFrame

\* It does not return: update() sets the task's exception state.
CellDies(t) ==
  /\ TasksMayDie /\ multi_threaded
  /\ InSession
  /\ t \in running /\ outcome[t] = "compiling"
  /\ outcome' = [outcome EXCEPT ![t] = "exception"]
  /\ troubled' = troubled \cup {Key(t)}
  /\ WorkerFrame

-----------------------------------------------------------------------------
(***************************************************************************)
(* continueCompiling(), after wait() has returned true.                    *)
(***************************************************************************)
\* tasks_completed = total_tasks - getNumTasks(), the completed task taken
ReportsProgress ==
  completed' = total_tasks - (Len(queue) + Cardinality(running) + Len(finished'))

\* Slip: a task whose result is not OK is left in the queue.
HandleCompletedIfOK ==
  /\ pc = "compiling"
  /\ multi_threaded \/ running = {}
  /\ HandBack
  /\ LET t == Head(finished)
     IN  \/ /\ outcome[t] = "geometry"
            /\ packaged' = t /\ pc' = "opening"
         \/ /\ outcome[t] \in {"nothing", "exists"}
            /\ UNCHANGED <<pc, packaged>>
  /\ ReportsProgress
  /\ UNCHANGED <<runs, layerVars, selected, outcome, scene_graph, troubled,
                 diskVars>>

\* getNextCompletedTask(), and runSynchronousPostProcess() up to the packaging
HandleCompleted ==
  /\ pc = "compiling"
  /\ multi_threaded \/ running = {}
  /\ HandBack
  /\ LET t == Head(finished)
     IN  \/ /\ outcome[t] = "geometry"
            /\ packaged' = t /\ pc' = "opening"
            /\ ReportsProgress
         \/ /\ outcome[t] \in {"nothing", "exists"}
            /\ ReportsProgress
            /\ UNCHANGED <<pc, packaged>>
         \/ /\ outcome[t] \in {"error", "exception"}
            /\ UNCHANGED <<pc, packaged, completed>>
  /\ UNCHANGED <<runs, layerVars, selected, outcome, scene_graph, troubled,
                 diskVars>>

PackageFrame ==
  UNCHANGED <<poolVars, runs, layerVars, selected, outcome, completed,
              scene_graph, root, root_file>>

\* packageNode(): the file is opened for writing ...
PackageBegins ==
  /\ pc = "opening"
  /\ pc' = "writing"
  /\ files' = [files EXCEPT ![Key(packaged)] = "partial"]
  /\ built' = [built EXCEPT ![Key(packaged)] = DefinitionOf(Key(packaged))]
  /\ UNCHANGED <<packaged, troubled>>
  /\ PackageFrame

\* ... and written.
PackageEnds ==
  /\ pc = "writing"
  /\ files' = [files EXCEPT ![Key(packaged)] = "whole"]
  /\ packaged' = NoTask
  /\ pc' = "compiling"
  /\ UNCHANGED <<built, troubled>>
  /\ PackageFrame

\* "failed to package node to output location": the loop goes on all the same
PackageFails ==
  /\ WritesMayFail
  /\ pc \in {"opening", "writing"}
  /\ troubled' = troubled \cup {Key(packaged)}
  /\ packaged' = NoTask
  /\ pc' = "compiling"
  /\ UNCHANGED <<files, built>>
  /\ PackageFrame

\* Slip: hasMoreTasks() looks at the queue only.
CompileEndsEarly ==
  /\ pc = "compiling"
  /\ queue = <<>>
  /\ pc' = "indexing"
  /\ UNCHANGED <<poolVars, runs, layerVars, sessionVars, diskVars>>

\* continueCompiling() returns false.
CompileEnds ==
  /\ pc = "compiling"
  /\ getNumTasks = 0
  /\ pc' = "indexing"
  /\ UNCHANGED <<poolVars, runs, layerVars, sessionVars, diskVars>>

-----------------------------------------------------------------------------
(***************************************************************************)
(* finishCompiling(), and the root file.                                   *)
(***************************************************************************)
\* Slip: the index is made of the keys, not of the files.
IndexedKeysUnseen ==
  {[cell |-> c, depth |-> l - 1] : c \in Cells, l \in 1..NumLevels}

\* The keys are made again: a cell, and a place in the list of levels.
IndexedKeys ==
  {k \in {[cell |-> c, depth |-> l - 1] : c \in Cells, l \in 1..NumLevels} :
     files[k] # "absent"}

BuildIndex ==
  /\ pc = "indexing"
  /\ scene_graph' = IndexedKeys
  /\ pc' = "packaging"
  /\ UNCHANGED <<poolVars, runs, layerVars, selected, outcome, packaged,
                 completed, troubled, diskVars>>

\* Builder::build() packages the result.
PackageRoot ==
  /\ pc = "packaging"
  /\ root' = scene_graph
  /\ root_file' = "whole"
  /\ pc' = "done"
  /\ UNCHANGED <<poolVars, runs, layerVars, sessionVars, files, built>>

\* Nobody looks at what packageNode() returns: "Done building layer".
PackageRootFails ==
  /\ WritesMayFail
  /\ pc = "packaging"
  /\ root_file' \in {root_file, "partial"}
  /\ pc' = "rootless"
  /\ UNCHANGED <<poolVars, runs, layerVars, sessionVars, files, built, root>>

-----------------------------------------------------------------------------
\* The program stops: the session is gone, and what it was writing stays as
\* it was then.
Crash ==
  /\ CrashesAllowed
  /\ pc \in {"compiling", "opening", "writing", "indexing", "packaging"}
  /\ pc' = "off"
  /\ NewSession({}, <<>>)
  /\ root_file' \in IF pc = "packaging" THEN {root_file, "partial"}
                                        ELSE {root_file}
  /\ UNCHANGED <<runs, layerVars, files, built, root>>

LoopStep ==
  \/ Dispatch \/ DispatchNull \/ (\E t \in Tasks : Collect(t))
  \/ HandleCompleted
  \/ PackageBegins \/ PackageEnds \/ PackageFails
  \/ CompileEnds \/ BuildIndex \/ PackageRoot \/ PackageRootFails

WorkerStep(t) == CellLooks(t) \/ CellCompiles(t)

Next ==
  \/ StartCompiling
  \/ LoopStep
  \/ \E t \in Tasks : WorkerStep(t) \/ CellDies(t)
  \/ Crash

Spec == Init /\ [][Next]_vars

(***************************************************************************)
(* The loop and the workers go on.  Nobody has to start the program again. *)
(***************************************************************************)
Fairness ==
  /\ WF_vars(LoopStep)
  /\ \A t \in Tasks : WF_vars(WorkerStep(t))

FairSpec == Spec /\ Fairness

-----------------------------------------------------------------------------
TypeOK ==
  /\ pc \in Positions
  /\ runs \in 0..MaxRuns
  /\ levels \in Layouts /\ depth_first \in BOOLEAN /\ content \in Contents
  /\ threads \in ThreadChoices
  /\ queue \in Seq(Tasks) /\ running \subseteq Tasks /\ finished \in Seq(Tasks)
  /\ returned \subseteq Tasks /\ discarded \subseteq Tasks /\ drained = FALSE
  /\ selected \subseteq Cells
  /\ outcome \in [Tasks -> Outcomes]
  /\ packaged \in Tasks \cup {NoTask}
  /\ completed \in 0..(NumCells * MaxLevels)
  /\ scene_graph \subseteq Keys /\ troubled \subseteq Keys
  /\ files \in [Keys -> {"absent", "partial", "whole"}]
  /\ built \in [Keys -> 0..MaxLevels]
  /\ root \subseteq Keys
  /\ root_file \in {"absent", "partial", "whole"}

\* No two keys are the same.
Distinct == IsInjective(levels)

(***************************************************************************)
(* The root file never refers to a cell that has no file, whatever was     *)
(* compiled, failed or was interrupted, in this run or an earlier one.     *)
(***************************************************************************)
IndexResolves == \A k \in root : files[k] # "absent"

(***************************************************************************)
(* When the program ends with its root file written, every selected cell   *)
(* that has geometry is in the file system and in the index, except those  *)
(* that failed in this very run: what an earlier run left out for a crash  *)
(* or a failure is made up for.                                            *)
(***************************************************************************)
NothingMissing ==
  pc = "done" =>
    \A c \in selected, l \in 1..NumLevels :
      LET k == [cell |-> c, depth |-> l - 1]
      IN  l \in {levels[i] + 1 : i \in 1..NumLevels}
            /\ content[l][c] = "geometry" /\ k \notin troubled
          => k \in root /\ files[k] # "absent"

(***************************************************************************)
(* A cell whose file is whole is not written again, by this run or a later *)
(* one: workers look at the disk while the loop writes to it.              *)
(***************************************************************************)
WholeFilesKept ==
  [][Distinct => \A k \in Keys : files[k] = "whole" => files'[k] = "whole"]_vars

(***************************************************************************)
(* compile() ends, whatever fails: dead tasks, errors and cells that could *)
(* not be written do not hold up the loop.                                 *)
(***************************************************************************)
CompileReturns ==
  pc = "compiling" ~> pc \in {"done", "rootless", "off", "crashed"}

(***************************************************************************)
(* Each level of detail that was pushed to the layer is in the index with  *)
(* all its geometry when a run ends without trouble ("Levels of detail are *)
(* interpreted from front to back").                                       *)
(***************************************************************************)
EveryLevelBuilt ==
  pc = "done" /\ troubled = {} /\ selected = Cells =>
    \A l \in 1..NumLevels, c \in Cells :
      content[l][c] = "geometry" => \E k \in root : built[k] = l /\ k.cell = c

(***************************************************************************)
(* A cell that needs compiling is compiled ("first check to see whether    *)
(* this cell needs compiling"): when a run ends without trouble, all that  *)
(* the index refers to is whole.                                           *)
(***************************************************************************)
IndexIsWhole ==
  pc = "done" /\ troubled = {} => \A k \in root : files[k] = "whole"
=============================================================================
