----------------------- MODULE MapLayerCompilerProofs -----------------------
(***************************************************************************)
(* Proofs about MapLayerCompiler, for any layer, any number of runs and    *)
(* any failures.                                                           *)
(*                                                                         *)
(* FilesInv is enough for the index to resolve.  That nothing is missing   *)
(* and that no whole file is written again takes CompileInv, which follows *)
(* each task through the pool: it has the number of a key, no other task   *)
(* has it, and its outcome tells what became of the file of that key.      *)
(***************************************************************************)
EXTENDS MapLayerCompiler, QueueLemmas, FiniteSetTheorems

FileStates == {"absent", "partial", "whole"}

\* What the session and the root file refer to was in the file system when
\* the index was built, and no step deletes a file.
FilesInv ==
  /\ levels \in Layouts
  /\ files \in [Keys -> FileStates]
  /\ scene_graph \subseteq {k \in Keys : files[k] # "absent"}
  /\ root \subseteq {k \in Keys : files[k] # "absent"}

\* The keys of the index are keys, though they are made anew.
LEMMA IndexedAreKeys ==
  ASSUME levels \in Layouts
  PROVE  IndexedKeys \subseteq {k \in Keys : files[k] # "absent"}
<1>1. /\ MaxLevels \in Nat
      /\ Len(levels) \in Nat /\ Len(levels) <= MaxLevels
  BY SizesAssumption, LayersAssumption
<1>2. ASSUME NEW c \in Cells, NEW l \in 1..Len(levels)
      PROVE  [cell |-> c, depth |-> l - 1] \in Keys
  <2>1. l - 1 \in Depths
    BY <1>1 DEF Depths
  <2>. QED
    BY <2>1 DEF Keys
<1>. QED
  BY <1>2 DEF IndexedKeys, NumLevels

\* A file that is written was there before, or comes to be.
LEMMA FilesStay ==
  ASSUME files \in [Keys -> FileStates], NEW key,
         NEW s \in {"partial", "whole"},
         files' = [files EXCEPT ![key] = s]
  PROVE  /\ files' \in [Keys -> FileStates]
         /\ {k \in Keys : files[k] # "absent"}
              \subseteq {k \in Keys : files'[k] # "absent"}
BY DEF FileStates

LEMMA FilesInvInit == Init => FilesInv
BY DEF Init, FilesInv, FileStates

LEMMA FilesInvStep == FilesInv /\ [Next]_vars => FilesInv'
<1> SUFFICES ASSUME FilesInv, [Next]_vars PROVE FilesInv'
  OBVIOUS
<1> USE DEF FilesInv
<1>1. CASE StartCompiling
  BY <1>1 DEF StartCompiling, NewSession, layerVars, diskVars
<1>2. CASE Dispatch \/ DispatchNull \/ \E t \in Tasks : Collect(t)
  BY <1>2 DEF Dispatch, DispatchNull, Collect, WaitFrame, layerVars,
     sessionVars, diskVars
<1>3. CASE HandleCompleted
  BY <1>3 DEF HandleCompleted, layerVars, diskVars
<1>4. CASE PackageBegins
  <2>1. files' = [files EXCEPT ![Key(packaged)] = "partial"]
    BY <1>4 DEF PackageBegins
  <2>2. UNCHANGED <<levels, scene_graph, root>>
    BY <1>4 DEF PackageBegins, PackageFrame, layerVars
  <2>. QED
    BY <2>1, <2>2, FilesStay
<1>5. CASE PackageEnds
  <2>1. files' = [files EXCEPT ![Key(packaged)] = "whole"]
    BY <1>5 DEF PackageEnds
  <2>2. UNCHANGED <<levels, scene_graph, root>>
    BY <1>5 DEF PackageEnds, PackageFrame, layerVars
  <2>. QED
    BY <2>1, <2>2, FilesStay
<1>6. CASE PackageFails
  BY <1>6 DEF PackageFails, PackageFrame, layerVars
<1>7. CASE CompileEnds
  BY <1>7 DEF CompileEnds, layerVars, sessionVars, diskVars
<1>8. CASE BuildIndex
  <2>1. scene_graph' = IndexedKeys /\ UNCHANGED <<levels, files, root>>
    BY <1>8 DEF BuildIndex, layerVars, diskVars
  <2>. QED
    BY <2>1, IndexedAreKeys
<1>9. CASE PackageRoot \/ PackageRootFails
  BY <1>9 DEF PackageRoot, PackageRootFails, layerVars, sessionVars
<1>10. CASE \E t \in Tasks : WorkerStep(t) \/ CellDies(t)
  BY <1>10 DEF WorkerStep, CellLooks, CellCompiles, CellDies, WorkerFrame,
     layerVars, diskVars
<1>11. CASE Crash
  BY <1>11 DEF Crash, NewSession, layerVars
<1>12. CASE UNCHANGED vars
  BY <1>12 DEF vars, layerVars, sessionVars, diskVars
<1>. QED
  BY <1>1, <1>2, <1>3, <1>4, <1>5, <1>6, <1>7, <1>8, <1>9, <1>10, <1>11,
     <1>12 DEF Next, LoopStep

(***************************************************************************)
(* The root file never refers to a cell that has no file: for any grid and *)
(* any list of levels, whatever failed or was interrupted in any run.      *)
(***************************************************************************)
THEOREM RootResolves == Spec => []IndexResolves
<1>1. FilesInv => IndexResolves
  BY DEF FilesInv, IndexResolves
<1>. QED
  BY <1>1, FilesInvInit, FilesInvStep, PTL DEF Spec

-----------------------------------------------------------------------------
(***************************************************************************)
(* Keys and the numbers of their tasks.                                    *)
(***************************************************************************)
TaskIds == 1..NumKeys

\* What is built, and with how many threads.
LayerInv ==
  /\ levels \in Layouts /\ depth_first \in BOOLEAN /\ content \in Contents
  /\ threads \in ThreadChoices

LEMMA LayerFacts ==
  ASSUME LayerInv
  PROVE  /\ NumCells \in Nat \ {0} /\ MaxLevels \in Nat \ {0}
         /\ NumLevels \in 1..MaxLevels /\ NumLevels \in Nat \ {0}
         /\ levels \in [1..NumLevels -> Depths]
         /\ NumKeys \in Nat /\ NumKeys = NumLevels * NumCells
         /\ NumKeys <= NumCells * MaxLevels
         /\ TaskIds \subseteq Tasks
<1>1. /\ NumCells \in Nat \ {0} /\ MaxLevels \in Nat \ {0}
      /\ levels \in Seq(Depths) /\ NumLevels \in 1..MaxLevels
  BY SizesAssumption, LayersAssumption DEF LayerInv, NumLevels
<1>2. NumLevels \in Nat \ {0} /\ NumLevels <= MaxLevels
  BY <1>1
<1>3. levels \in [1..NumLevels -> Depths]
  BY <1>1 DEF NumLevels
<1>4. NumKeys \in Nat /\ NumKeys = NumLevels * NumCells
  BY <1>1, <1>2 DEF NumKeys
<1>5. NumKeys <= NumCells * MaxLevels
  BY <1>1, <1>2 DEF NumKeys
<1>6. TaskIds \subseteq Tasks
  <2>1. NumCells * MaxLevels \in Nat
    BY <1>1
  <2>. QED
    BY <1>4, <1>5, <2>1, SizesAssumption DEF TaskIds
<1>. QED
  BY <1>1, <1>2, <1>3, <1>4, <1>5, <1>6

\* The index of the cell and the index of the level of a key.
CellAt(t) == IF depth_first THEN (t - 1) \div NumLevels ELSE (t - 1) % NumCells
LevelAt(t) == IF depth_first THEN (t - 1) % NumLevels ELSE (t - 1) \div NumCells

LEMMA KeyParts ==
  ASSUME LayerInv, NEW t \in TaskIds
  PROVE  /\ Key(t) = [cell |-> 1 + CellAt(t), depth |-> levels[1 + LevelAt(t)]]
         /\ CellAt(t) \in 0..(NumCells - 1) /\ LevelAt(t) \in 0..(NumLevels - 1)
         /\ t - 1 = IF depth_first THEN CellAt(t) * NumLevels + LevelAt(t)
                                   ELSE LevelAt(t) * NumCells + CellAt(t)
<1>0. /\ NumCells \in Nat \ {0} /\ NumLevels \in Nat \ {0}
      /\ NumKeys \in Nat /\ NumKeys = NumLevels * NumCells
      /\ NumKeys = NumCells * NumLevels
  BY LayerFacts DEF NumKeys
<1>1. Key(t) = [cell |-> 1 + CellAt(t), depth |-> levels[1 + LevelAt(t)]]
  BY DEF Key, CellAt, LevelAt
<1> DEFINE n == t - 1
<1>2. n \in Nat /\ n \in 0..(NumKeys - 1)
  BY <1>0 DEF TaskIds
<1>3. CASE depth_first
  <2>1. n \in 0..(NumCells * NumLevels - 1)
    BY <1>0, <1>2
  <2>2. n \div NumLevels \in 0..(NumCells - 1)
    BY <1>0, <2>1, RowInGrid
  <2>3. n = (n \div NumLevels) * NumLevels + (n % NumLevels) /\ n % NumLevels \in 0..(NumLevels - 1)
    BY <1>0, <1>2, FromRowAndColumn
  <2>. QED
    BY <1>1, <1>3, <2>2, <2>3 DEF CellAt, LevelAt
<1>4. CASE ~depth_first
  <2>1. n \in 0..(NumLevels * NumCells - 1)
    BY <1>0, <1>2
  <2>2. n \div NumCells \in 0..(NumLevels - 1)
    BY <1>0, <2>1, RowInGrid
  <2>3. n = (n \div NumCells) * NumCells + (n % NumCells) /\ n % NumCells \in 0..(NumCells - 1)
    BY <1>0, <1>2, FromRowAndColumn
  <2>. QED
    BY <1>1, <1>4, <2>2, <2>3 DEF CellAt, LevelAt
<1>. QED
  BY <1>3, <1>4 DEF LayerInv

LEMMA KeyIsKey ==
  ASSUME LayerInv, NEW t \in TaskIds
  PROVE  Key(t) \in Keys
<1>1. 1 + CellAt(t) \in Cells /\ 1 + LevelAt(t) \in 1..NumLevels
  BY KeyParts, LayerFacts DEF Cells
<1>2. levels[1 + LevelAt(t)] \in Depths
  BY <1>1, LayerFacts
<1>. QED
  BY <1>1, <1>2, KeyParts DEF Keys

\* Each cell has a task at each level.
LEMMA KeyOnto ==
  ASSUME LayerInv, NEW c \in Cells, NEW i \in 1..NumLevels
  PROVE  \E t \in TaskIds : Key(t) = [cell |-> c, depth |-> levels[i]]
<1>0. /\ NumCells \in Nat \ {0} /\ NumLevels \in Nat \ {0}
      /\ NumKeys \in Nat /\ NumKeys = NumLevels * NumCells
      /\ NumKeys = NumCells * NumLevels
  BY LayerFacts DEF NumKeys
<1>1. /\ c - 1 \in 0..(NumCells - 1) /\ i - 1 \in 0..(NumLevels - 1)
      /\ c - 1 \in Nat /\ i - 1 \in Nat
      /\ NumCells \in Nat \ {0} /\ NumLevels \in Nat \ {0}
  BY <1>0 DEF Cells
<1>2. CASE depth_first
  <2> DEFINE n == (c - 1) * NumLevels + (i - 1)
  <2>1. n \in 0..(NumCells * NumLevels - 1)
    BY <1>0, <1>1, NumberInGrid
  <2>2. n \div NumLevels = c - 1 /\ n % NumLevels = i - 1
    BY <1>1, RowAndColumn
  <2> HIDE DEF n
  <2>3. n + 1 \in TaskIds /\ (n + 1) - 1 = n
    BY <1>0, <2>1 DEF TaskIds
  <2>4. 1 + (c - 1) = c /\ 1 + (i - 1) = i
    BY DEF Cells
  <2>5. Key(n + 1) = [cell |-> c, depth |-> levels[i]]
    BY <1>2, <2>2, <2>3, <2>4 DEF Key
  <2>. QED
    BY <2>3, <2>5
<1>3. CASE ~depth_first
  <2> DEFINE n == (i - 1) * NumCells + (c - 1)
  <2>1. n \in 0..(NumLevels * NumCells - 1)
    BY <1>0, <1>1, NumberInGrid
  <2>2. n \div NumCells = i - 1 /\ n % NumCells = c - 1
    BY <1>1, RowAndColumn
  <2> HIDE DEF n
  <2>3. n + 1 \in TaskIds /\ (n + 1) - 1 = n
    BY <1>0, <2>1 DEF TaskIds
  <2>4. 1 + (c - 1) = c /\ 1 + (i - 1) = i
    BY DEF Cells
  <2>5. Key(n + 1) = [cell |-> c, depth |-> levels[i]]
    BY <1>3, <2>2, <2>3, <2>4 DEF Key
  <2>. QED
    BY <2>3, <2>5
<1>. QED
  BY <1>2, <1>3

\* No two tasks have the same key, if no two levels have the same depth.
LEMMA KeyOneToOne ==
  ASSUME LayerInv, Distinct, NEW t \in TaskIds, NEW u \in TaskIds, Key(t) = Key(u)
  PROVE  t = u
<1>1. /\ 1 + CellAt(t) = 1 + CellAt(u)
      /\ levels[1 + LevelAt(t)] = levels[1 + LevelAt(u)]
  <2>1. Key(t).cell = 1 + CellAt(t) /\ Key(t).depth = levels[1 + LevelAt(t)]
    BY KeyParts
  <2>2. Key(u).cell = 1 + CellAt(u) /\ Key(u).depth = levels[1 + LevelAt(u)]
    BY KeyParts
  <2>. QED
    BY <2>1, <2>2
<1>2. /\ CellAt(t) \in Nat /\ CellAt(u) \in Nat
      /\ LevelAt(t) \in Nat /\ LevelAt(u) \in Nat
      /\ 1 + LevelAt(t) \in 1..NumLevels /\ 1 + LevelAt(u) \in 1..NumLevels
  BY KeyParts, LayerFacts
<1>3. 1 + LevelAt(t) = 1 + LevelAt(u)
  BY <1>1, <1>2, LayerFacts DEF Distinct, IsInjective
<1>4. CellAt(t) = CellAt(u) /\ LevelAt(t) = LevelAt(u)
  BY <1>1, <1>2, <1>3
<1>5. t - 1 = u - 1
  BY <1>4, KeyParts
<1>6. t \in Int /\ u \in Int
  BY LayerFacts DEF TaskIds
<1>. QED
  BY <1>5, <1>6

-----------------------------------------------------------------------------
(***************************************************************************)
(* What queueTasks() queues: the tasks of the selected cells, each once.   *)
(***************************************************************************)
\* The function f is what the loop over 0..m computes.
Loops(S, m, f) ==
  f = [n \in 0..m |->
         IF n = 0 THEN <<>>
         ELSE IF n \in S THEN Append(f[n - 1], n) ELSE f[n - 1]]

LEMMA LoopExists ==
  ASSUME NEW S, NEW N \in Nat
  PROVE  \E f : Loops(S, N, f)
<1> DEFINE P == {m \in 0..N : \E f : Loops(S, m, f)}
<1>1. 0 \in P
  <2> DEFINE f == [n \in 0..0 |-> <<>>]
  <2>1. Loops(S, 0, f)
    BY DEF Loops
  <2>. QED
    BY <2>1
<1>2. ASSUME NEW m \in 1..N, m - 1 \in P PROVE m \in P
  <2>1. PICK f : Loops(S, m - 1, f)
    BY <1>2
  <2> DEFINE last == IF m \in S THEN Append(f[m - 1], m) ELSE f[m - 1]
             g == [n \in 0..m |-> IF n = m THEN last ELSE f[n]]
  <2>2. /\ \A n \in 0..(m - 1) : g[n] = f[n]
        /\ g[m] = last
    OBVIOUS
  <2>3. \A n \in 0..(m - 1) :
          f[n] = IF n = 0 THEN <<>>
                 ELSE IF n \in S THEN Append(f[n - 1], n) ELSE f[n - 1]
    BY <2>1 DEF Loops
  <2>4. ASSUME NEW n \in 0..m
        PROVE  g[n] = IF n = 0 THEN <<>>
                      ELSE IF n \in S THEN Append(g[n - 1], n) ELSE g[n - 1]
    <3>1. CASE n = m
      BY <2>2, <3>1
    <3>2. CASE n = 0
      BY <2>2, <2>3, <3>2
    <3>3. CASE n # m /\ n # 0
      <4>1. g[n - 1] = f[n - 1] /\ g[n] = f[n]
        BY <2>2, <3>3
      <4>. QED
        BY <2>3, <3>3, <4>1
    <3>. QED
      BY <3>1, <3>2, <3>3
  <2>5. Loops(S, m, g)
    BY <2>4 DEF Loops
  <2>. QED
    BY <2>5
<1>3. 0..N \subseteq P
  <2> HIDE DEF P
  <2>. QED
    BY <1>1, <1>2, CountUp
<1>. QED
  BY <1>3

LEMMA TasksQueued ==
  ASSUME LayerInv, NEW cells
  PROVE  /\ QueuedTasks(cells) \in Seq(TaskIds)
         /\ Range(QueuedTasks(cells)) = {t \in TaskIds : Key(t).cell \in cells}
         /\ IsInjective(QueuedTasks(cells))
         /\ Len(QueuedTasks(cells)) <= NumKeys
<1> DEFINE N == NumKeys
           S == {i \in 1..NumKeys : Key(i).cell \in cells}
           UpTo == CHOOSE f : Loops(S, N, f)
           Sound(n) ==
             /\ UpTo[n] \in Seq(S) /\ Len(UpTo[n]) <= n
             /\ Range(UpTo[n]) = S \cap (1..n)
             /\ IsInjective(UpTo[n])
           P == {n \in 0..N : Sound(n)}
<1>1. Loops(S, N, UpTo)
  BY LayerFacts, LoopExists
<1>2. QueuedTasks(cells) = UpTo[N]
  BY DEF QueuedTasks, Loops
<1>0. N \in Nat /\ S \subseteq 1..N
  BY LayerFacts
<1>9. S = {t \in TaskIds : Key(t).cell \in cells} /\ S \subseteq TaskIds
  BY DEF TaskIds
<1> HIDE DEF UpTo, S, N
<1> USE <1>0
<1>3. /\ UpTo[0] = <<>>
      /\ \A n \in 1..N : UpTo[n] = IF n \in S THEN Append(UpTo[n - 1], n)
                                              ELSE UpTo[n - 1]
  <2>1. \A n \in 0..N :
          UpTo[n] = IF n = 0 THEN <<>>
                    ELSE IF n \in S THEN Append(UpTo[n - 1], n) ELSE UpTo[n - 1]
    BY <1>1 DEF Loops
  <2>. QED
    BY <2>1
<1>4. Sound(0)
  <2>1. S \cap (1..0) = {} /\ Len(<<>>) = 0 /\ <<>> \in Seq(S)
    OBVIOUS
  <2>. QED
    BY <1>3, <2>1, EmptyQueue
<1>5. ASSUME NEW n \in 1..N, Sound(n - 1) PROVE Sound(n)
  <2> DEFINE s == UpTo[n - 1]
  <2>1. /\ s \in Seq(S) /\ Len(s) <= n - 1 /\ IsInjective(s)
        /\ Range(s) = S \cap (1..(n - 1))
    BY <1>5
  <2>2. CASE n \in S
    <3>1. UpTo[n] = Append(s, n)
      BY <1>3, <2>2
    <3> HIDE DEF s
    <3>2. n \notin Range(s)
      BY <2>1
    <3>3. /\ Append(s, n) \in Seq(S)
          /\ Range(Append(s, n)) = Range(s) \cup {n}
          /\ IsInjective(Append(s, n))
      BY <2>1, <2>2, <3>2, AppendToQueue
    <3>4. Len(Append(s, n)) <= n
      BY <2>1
    <3>5. S \cap (1..n) = (S \cap (1..(n - 1))) \cup {n}
      <4>1. 1..n = (1..(n - 1)) \cup {n}
        OBVIOUS
      <4>. QED
        BY <2>2, <4>1
    <3>. QED
      BY <2>1, <3>1, <3>3, <3>4, <3>5
  <2>3. CASE n \notin S
    <3>1. UpTo[n] = s
      BY <1>3, <2>3
    <3>2. S \cap (1..n) = S \cap (1..(n - 1))
      <4>1. 1..n = (1..(n - 1)) \cup {n}
        OBVIOUS
      <4>. QED
        BY <2>3, <4>1
    <3>3. Len(s) \in Nat
      BY <2>1
    <3>. QED
      BY <2>1, <3>1, <3>2, <3>3
  <2>. QED
    BY <2>2, <2>3
<1>6. Sound(N)
  <2> HIDE DEF Sound
  <2>1. 0 \in P /\ \A n \in 1..N : n - 1 \in P => n \in P
    BY <1>4, <1>5
  <2> HIDE DEF P
  <2>2. 0..N \subseteq P
    BY <2>1, CountUp
  <2>. QED
    BY <2>2 DEF P
<1>7. S \cap (1..N) = S
  OBVIOUS
<1>8. UpTo[N] \in Seq(TaskIds)
  BY <1>6, <1>9
<1>10. Range(UpTo[N]) = {t \in TaskIds : Key(t).cell \in cells}
  BY <1>6, <1>7, <1>9
<1>11. Len(UpTo[N]) <= NumKeys
  BY <1>6 DEF N
<1>12. IsInjective(UpTo[N])
  BY <1>6
<1> HIDE DEF Sound
<1>. QED
  BY <1>2, <1>8, <1>10, <1>11, <1>12

-----------------------------------------------------------------------------
(***************************************************************************)
(* The tasks of a run.                                                     *)
(***************************************************************************)
\* Each queue holds tasks of this layer; a task is in one place, and no more
\* of them are on their way than there are keys.
PoolInv ==
  /\ queue \in Seq(TaskIds) /\ finished \in Seq(TaskIds)
  /\ running \subseteq TaskIds /\ returned \subseteq TaskIds
  /\ discarded \subseteq TaskIds
  /\ drained = FALSE
  /\ IsInjective(queue) /\ IsInjective(finished)
  /\ Range(queue) \cap (running \cup Range(finished) \cup returned) = {}
  /\ running \cap (Range(finished) \cup returned) = {}
  /\ Range(finished) \cap returned = {}

SizeInv ==
  /\ IsFiniteSet(running)
  /\ Len(queue) + Cardinality(running) + Len(finished) <= NumKeys

\* The tasks of the selected cells are somewhere, and only NULL is dropped.
QueuedInv ==
  /\ {t \in TaskIds : Key(t).cell \in selected}
       \subseteq Range(queue) \cup running \cup Range(finished) \cup returned
                   \cup discarded
  /\ \A t \in discarded : IsNull(t)
  /\ \A t \in running : ~IsNull(t)

\* What is left to do in each part of a run.
PhaseInv ==
  /\ pc \in {"indexing", "packaging", "done", "rootless"} =>
       queue = <<>> /\ running = {} /\ finished = <<>>
  /\ pc \in {"opening", "writing"} =>
       packaged \in returned /\ outcome[packaged] = "geometry"
  /\ pc \notin {"opening", "writing"} => packaged = NoTask
  /\ pc = "packaging" => scene_graph = IndexedKeys
  /\ pc = "done" => root = IndexedKeys

\* What the outcome of a task says of the file of its key.
OutcomeInv ==
  \A t \in TaskIds :
    /\ t \in Range(queue) => outcome[t] = "unknown"
    /\ t \in Range(finished) \cup returned =>
         outcome[t] \notin {"unknown", "compiling"}
    /\ outcome[t] = "exists" => files[Key(t)] # "absent"
    /\ outcome[t] \in {"nothing", "error"} =>
         content[DefinitionOf(Key(t))][Key(t).cell] = outcome[t]
    /\ outcome[t] = "exception" => Key(t) \in troubled
    /\ t \in returned /\ outcome[t] = "geometry" =>
         t = packaged \/ files[Key(t)] # "absent" \/ Key(t) \in troubled

\* A cell that is yet to be packaged has no file.
UnwrittenInv ==
  Distinct =>
    \A t \in TaskIds :
      /\ outcome[t] \in {"compiling", "geometry"}
      /\ \/ t \in running \cup Range(finished)
         \/ t = packaged /\ pc = "opening"
      => files[Key(t)] = "absent"

StateInv ==
  /\ pc \in Positions /\ runs \in 0..MaxRuns
  /\ selected \subseteq Cells
  /\ outcome \in [Tasks -> Outcomes]
  /\ packaged \in TaskIds \cup {NoTask}
  /\ completed \in 0..NumKeys
  /\ scene_graph \subseteq Keys /\ troubled \subseteq Keys /\ root \subseteq Keys
  /\ files \in [Keys -> FileStates]
  /\ built \in [Keys -> 0..MaxLevels]
  /\ root_file \in FileStates

CompileInv ==
  /\ LayerInv /\ StateInv /\ PoolInv /\ SizeInv /\ QueuedInv /\ PhaseInv
  /\ OutcomeInv /\ UnwrittenInv

-----------------------------------------------------------------------------
\* What the layer is never changes.
LEMMA LayerFixed ==
  ASSUME [Next]_vars
  PROVE  UNCHANGED layerVars
BY DEF Next, LoopStep, WorkerStep, StartCompiling, Dispatch, DispatchNull,
   Collect, WaitFrame, HandleCompleted, PackageBegins, PackageEnds,
   PackageFails, PackageFrame, CompileEnds, BuildIndex, PackageRoot,
   PackageRootFails, CellLooks, CellCompiles, CellDies, WorkerFrame, Crash,
   vars

LEMMA KeysFixed ==
  ASSUME UNCHANGED layerVars
  PROVE  /\ TaskIds' = TaskIds /\ NumKeys' = NumKeys /\ NumLevels' = NumLevels
         /\ \A t : Key(t)' = Key(t)
         /\ \A k : DefinitionOf(k)' = DefinitionOf(k)
         /\ \A t : IsNull(t)' = IsNull(t)
         /\ Distinct' = Distinct
         /\ LayerInv => LayerInv'
BY DEF layerVars, TaskIds, NumKeys, NumLevels, Key, DefinitionOf, IsNull,
   Distinct, LayerInv

-----------------------------------------------------------------------------
(***************************************************************************)
(* How the pool moves a task from one place to the next.                   *)
(***************************************************************************)
LEMMA BeginMoves ==
  ASSUME LayerInv, PoolInv, SizeInv, Begin, UNCHANGED layerVars
  PROVE  /\ PoolInv' /\ SizeInv'
         /\ Head(queue) \in Range(queue) /\ Head(queue) \in TaskIds
         /\ Range(queue) = {Head(queue)} \cup Range(queue')
<1>1. /\ queue # <<>> /\ queue' = Tail(queue)
      /\ running' = running \cup {Head(queue)}
      /\ UNCHANGED <<finished, returned, discarded, drained>>
  BY DEF Begin
<1>2. /\ Head(queue) \in TaskIds /\ queue' \in Seq(TaskIds)
      /\ Range(queue) = {Head(queue)} \cup Range(queue')
      /\ Head(queue) \notin Range(queue') /\ IsInjective(queue')
  BY <1>1, TakeFromQueue DEF PoolInv
<1>3. Head(queue) \notin running \cup Range(finished) \cup returned
  BY <1>2 DEF PoolInv
<1>4. PoolInv'
  BY <1>1, <1>2, <1>3, KeysFixed DEF PoolInv
<1>5. SizeInv'
  <2>1. /\ IsFiniteSet(running')
        /\ Cardinality(running') = Cardinality(running) + 1
        /\ Cardinality(running) \in Nat
    BY <1>1, <1>3, FS_AddElement, FS_CardinalityType DEF SizeInv
  <2>2. Len(queue') = Len(queue) - 1 /\ Len(queue) \in Nat
    BY <1>1 DEF PoolInv
  <2>3. Len(finished') = Len(finished) /\ Len(finished) \in Nat
    BY <1>1 DEF PoolInv
  <2>4. NumKeys' = NumKeys /\ NumKeys \in Nat
    BY KeysFixed, LayerFacts
  <2>. QED
    BY <2>1, <2>2, <2>3, <2>4 DEF SizeInv
<1>. QED
  BY <1>2, <1>4, <1>5

LEMMA DiscardMoves ==
  ASSUME LayerInv, PoolInv, SizeInv, Discard(1), UNCHANGED layerVars
  PROVE  /\ PoolInv' /\ SizeInv'
         /\ discarded' = discarded \cup {Head(queue)}
         /\ Range(queue) = {Head(queue)} \cup Range(queue')
<1>1. queue # <<>> /\ Len(queue) \in Nat
  BY DEF Discard, PoolInv
<1>2. queue[1] = Head(queue) /\ SubSeq(queue, 2, Len(queue)) = Tail(queue)
  BY <1>1 DEF PoolInv
<1>3. {queue[i] : i \in 1..1} = {queue[1]}
  OBVIOUS
<1>4. /\ queue' = Tail(queue) /\ discarded' = discarded \cup {Head(queue)}
      /\ UNCHANGED <<running, finished, returned, drained>>
  BY <1>2, <1>3 DEF Discard
<1>5. /\ Head(queue) \in TaskIds /\ queue' \in Seq(TaskIds)
      /\ Range(queue) = {Head(queue)} \cup Range(queue')
      /\ IsInjective(queue')
  BY <1>1, <1>4, TakeFromQueue DEF PoolInv
<1>6. PoolInv'
  BY <1>4, <1>5, KeysFixed DEF PoolInv
<1>7. SizeInv'
  <2>1. Len(queue') = Len(queue) - 1
    BY <1>1, <1>4 DEF PoolInv
  <2>2. Cardinality(running) \in Nat /\ Len(finished) \in Nat
    BY FS_CardinalityType DEF PoolInv, SizeInv
  <2>3. NumKeys' = NumKeys /\ NumKeys \in Nat
    BY KeysFixed, LayerFacts
  <2>. QED
    BY <1>1, <1>4, <2>1, <2>2, <2>3 DEF SizeInv
<1>. QED
  BY <1>4, <1>5, <1>6, <1>7

LEMMA CompleteMoves ==
  ASSUME LayerInv, PoolInv, SizeInv, NEW t, Complete(t), UNCHANGED layerVars
  PROVE  /\ PoolInv' /\ SizeInv'
         /\ t \in running /\ running' = running \ {t}
         /\ Range(finished') = Range(finished) \cup {t}
<1>1. /\ t \in running /\ running' = running \ {t}
      /\ finished' = Append(finished, t)
      /\ UNCHANGED <<queue, returned, discarded, drained>>
  BY DEF Complete
<1>2. t \in TaskIds /\ t \notin Range(finished) \cup returned \cup Range(queue)
  BY <1>1 DEF PoolInv
<1>3. /\ finished' \in Seq(TaskIds) /\ IsInjective(finished')
      /\ Range(finished') = Range(finished) \cup {t}
  BY <1>1, <1>2, AppendToQueue DEF PoolInv
<1>4. PoolInv'
  BY <1>1, <1>2, <1>3, KeysFixed DEF PoolInv
<1>5. SizeInv'
  <2>1. /\ IsFiniteSet(running')
        /\ Cardinality(running') = Cardinality(running) - 1
        /\ Cardinality(running) \in Nat
    BY <1>1, FS_RemoveElement, FS_CardinalityType DEF SizeInv
  <2>2. Len(finished') = Len(finished) + 1 /\ Len(finished) \in Nat
    BY <1>1 DEF PoolInv
  <2>3. Len(queue') = Len(queue) /\ Len(queue) \in Nat
    BY <1>1 DEF PoolInv
  <2>4. NumKeys' = NumKeys /\ NumKeys \in Nat
    BY KeysFixed, LayerFacts
  <2>. QED
    BY <2>1, <2>2, <2>3, <2>4 DEF SizeInv
<1>. QED
  BY <1>1, <1>3, <1>4, <1>5

LEMMA HandBackMoves ==
  ASSUME LayerInv, PoolInv, SizeInv, HandBack, UNCHANGED layerVars
  PROVE  /\ PoolInv' /\ SizeInv'
         /\ Head(finished) \in TaskIds /\ Head(finished) \notin returned
         /\ Range(finished) = {Head(finished)} \cup Range(finished')
         /\ Head(finished) \notin Range(finished')
         /\ returned' = returned \cup {Head(finished)}
         /\ Len(queue) + Cardinality(running) + Len(finished') \in 0..NumKeys
<1>1. /\ finished # <<>> /\ finished' = Tail(finished)
      /\ returned' = returned \cup {Head(finished)}
      /\ UNCHANGED <<queue, running, discarded, drained>>
  BY DEF HandBack
<1>2. /\ Head(finished) \in TaskIds /\ finished' \in Seq(TaskIds)
      /\ Range(finished) = {Head(finished)} \cup Range(finished')
      /\ Head(finished) \notin Range(finished') /\ IsInjective(finished')
  BY <1>1, TakeFromQueue DEF PoolInv
<1>3. Head(finished) \notin returned \cup running \cup Range(queue)
  BY <1>2 DEF PoolInv
<1>4. PoolInv'
  BY <1>1, <1>2, <1>3, KeysFixed DEF PoolInv
<1>5. Len(queue) + Cardinality(running) + Len(finished') \in 0..NumKeys
  <2>1. Len(finished') = Len(finished) - 1 /\ Len(finished') \in Nat
    BY <1>1, <1>2 DEF PoolInv
  <2>2. /\ Cardinality(running) \in Nat /\ Len(queue) \in Nat
        /\ NumKeys \in Nat
    BY FS_CardinalityType, LayerFacts DEF SizeInv, PoolInv
  <2>3. Len(finished) \in Nat /\ Len(queue) + Cardinality(running) + Len(finished) <= NumKeys
    BY DEF PoolInv, SizeInv
  <2>. QED
    BY <2>1, <2>2, <2>3
<1>6. SizeInv'
  BY <1>1, <1>5, KeysFixed DEF SizeInv
<1>. QED
  BY <1>1, <1>2, <1>3, <1>4, <1>5, <1>6

\* A session with the tasks of some cells, or with none.
LEMMA NewSessionMoves ==
  ASSUME LayerInv, NEW cells, NEW tasks, NewSession(cells, tasks),
         tasks \in Seq(TaskIds), IsInjective(tasks), Len(tasks) <= NumKeys,
         UNCHANGED layerVars
  PROVE  PoolInv' /\ SizeInv'
<1>1. /\ queue' = tasks /\ running' = {} /\ finished' = <<>>
      /\ returned' = {} /\ discarded' = {} /\ drained' = FALSE
  BY DEF NewSession
<1>2. PoolInv'
  BY <1>1, EmptyQueue, KeysFixed DEF PoolInv
<1>3. SizeInv'
  <2>1. Len(tasks) \in Nat /\ Len(<<>>) = 0
    OBVIOUS
  <2>. QED
    BY <1>1, <2>1, FS_EmptySet, KeysFixed, LayerFacts DEF SizeInv
<1>. QED
  BY <1>2, <1>3

\* The actions, as one list.
LEMMA CompileCases ==
  ASSUME [Next]_vars
  PROVE  \/ StartCompiling \/ Dispatch \/ DispatchNull
         \/ (\E t \in Tasks : Collect(t))
         \/ HandleCompleted \/ PackageBegins \/ PackageEnds \/ PackageFails
         \/ CompileEnds \/ BuildIndex \/ PackageRoot \/ PackageRootFails
         \/ (\E t \in Tasks : CellLooks(t)) \/ (\E t \in Tasks : CellCompiles(t))
         \/ (\E t \in Tasks : CellDies(t)) \/ Crash \/ UNCHANGED vars
BY DEF Next, LoopStep, WorkerStep

LEMMA EmptySession ==
  ASSUME LayerInv
  PROVE  <<>> \in Seq(TaskIds) /\ IsInjective(<<>>) /\ Len(<<>>) <= NumKeys
BY EmptyQueue, LayerFacts

LEMMA PoolStep ==
  ASSUME LayerInv, PoolInv, SizeInv, [Next]_vars
  PROVE  PoolInv' /\ SizeInv'
<1>0. UNCHANGED layerVars
  BY LayerFixed
<1>1. CASE StartCompiling
  <2>1. PICK cells \in Selections : NewSession(cells, QueuedTasks(cells))
    BY <1>1 DEF StartCompiling
  <2>. QED
    BY <1>0, <2>1, TasksQueued, NewSessionMoves
<1>2. CASE Dispatch
  BY <1>0, <1>2, BeginMoves DEF Dispatch
<1>3. CASE DispatchNull
  BY <1>0, <1>3, DiscardMoves DEF DispatchNull
<1>4. ASSUME NEW t \in Tasks, Collect(t) PROVE PoolInv' /\ SizeInv'
  BY <1>0, <1>4, CompleteMoves DEF Collect
<1>5. CASE HandleCompleted
  BY <1>0, <1>5, HandBackMoves DEF HandleCompleted
<1>6. CASE Crash
  BY <1>0, <1>6, EmptySession, NewSessionMoves DEF Crash
<1>7. CASE UNCHANGED poolVars
  BY <1>0, <1>7, KeysFixed DEF poolVars, PoolInv, SizeInv
<1>8. PackageBegins \/ PackageEnds \/ PackageFails \/ CompileEnds \/ BuildIndex
        \/ PackageRoot \/ PackageRootFails \/ UNCHANGED vars
        => UNCHANGED poolVars
  BY DEF PackageBegins, PackageEnds, PackageFails, PackageFrame, CompileEnds,
     BuildIndex, PackageRoot, PackageRootFails, vars
<1>9. \A t \in Tasks : CellLooks(t) \/ CellCompiles(t) \/ CellDies(t)
        => UNCHANGED poolVars
  BY DEF CellLooks, CellCompiles, CellDies, WorkerFrame
<1>. QED
  BY <1>1, <1>2, <1>3, <1>4, <1>5, <1>6, <1>7, <1>8, <1>9, CompileCases

-----------------------------------------------------------------------------
\* What the steps outside the pool leave alone.
LEMMA PoolUndisturbed ==
  ASSUME \/ PackageBegins \/ PackageEnds \/ PackageFails \/ CompileEnds
         \/ BuildIndex \/ PackageRoot \/ PackageRootFails
         \/ (\E t \in Tasks : CellLooks(t) \/ CellCompiles(t) \/ CellDies(t))
         \/ UNCHANGED vars
  PROVE  UNCHANGED <<poolVars, selected>>
BY DEF PackageBegins, PackageEnds, PackageFails, PackageFrame, CompileEnds,
   BuildIndex, PackageRoot, PackageRootFails, CellLooks, CellCompiles,
   CellDies, WorkerFrame, sessionVars, vars

LEMMA QueuedStep ==
  ASSUME LayerInv, PoolInv, SizeInv, QueuedInv, [Next]_vars
  PROVE  QueuedInv'
<1>0. UNCHANGED layerVars
  BY LayerFixed
<1> USE <1>0, KeysFixed
<1>1. CASE StartCompiling
  <2>1. PICK cells \in Selections : NewSession(cells, QueuedTasks(cells))
    BY <1>1 DEF StartCompiling
  <2>2. /\ selected' = cells /\ queue' = QueuedTasks(cells)
        /\ running' = {} /\ discarded' = {}
    BY <2>1 DEF NewSession
  <2>3. Range(queue') = {t \in TaskIds : Key(t).cell \in selected'}
    BY <2>2, TasksQueued
  <2>. QED
    BY <2>2, <2>3 DEF QueuedInv
<1>2. CASE Dispatch
  <2>1. /\ Begin /\ ~IsNull(Head(queue)) /\ UNCHANGED selected
    BY <1>2 DEF Dispatch, WaitFrame, sessionVars
  <2>2. /\ Range(queue) = {Head(queue)} \cup Range(queue')
        /\ running' = running \cup {Head(queue)}
        /\ UNCHANGED <<finished, returned, discarded>>
    BY <2>1, BeginMoves DEF Begin
  <2>. QED
    BY <2>1, <2>2 DEF QueuedInv
<1>3. CASE DispatchNull
  <2>1. /\ Discard(1) /\ IsNull(Head(queue)) /\ UNCHANGED selected
    BY <1>3 DEF DispatchNull, WaitFrame, sessionVars
  <2>2. /\ Range(queue) = {Head(queue)} \cup Range(queue')
        /\ discarded' = discarded \cup {Head(queue)}
        /\ UNCHANGED <<finished, returned, running>>
    BY <2>1, DiscardMoves DEF Discard
  <2>. QED
    BY <2>1, <2>2 DEF QueuedInv
<1>4. ASSUME NEW t \in Tasks, Collect(t) PROVE QueuedInv'
  <2>1. /\ Complete(t) /\ UNCHANGED selected
    BY <1>4 DEF Collect, WaitFrame, sessionVars
  <2>2. /\ Range(finished') = Range(finished) \cup {t}
        /\ running' = running \ {t}
        /\ UNCHANGED <<queue, returned, discarded>>
    BY <2>1, CompleteMoves DEF Complete
  <2>. QED
    BY <2>1, <2>2 DEF QueuedInv
<1>5. CASE HandleCompleted
  <2>1. /\ HandBack /\ UNCHANGED selected
    BY <1>5 DEF HandleCompleted
  <2>2. /\ Range(finished) = {Head(finished)} \cup Range(finished')
        /\ returned' = returned \cup {Head(finished)}
        /\ UNCHANGED <<queue, running, discarded>>
    BY <2>1, HandBackMoves DEF HandBack
  <2>. QED
    BY <2>1, <2>2 DEF QueuedInv
<1>6. CASE Crash
  <2>1. /\ selected' = {} /\ running' = {} /\ discarded' = {}
    BY <1>6 DEF Crash, NewSession
  <2>. QED
    BY <2>1 DEF QueuedInv
<1>7. CASE UNCHANGED <<poolVars, selected>>
  BY <1>7 DEF QueuedInv, poolVars
<1>. QED
  BY <1>1, <1>2, <1>3, <1>4, <1>5, <1>6, <1>7, CompileCases, PoolUndisturbed

-----------------------------------------------------------------------------
\* The parts of a run.
LEMMA SessionSteps ==
  ASSUME InSession
  PROVE  pc \notin {"indexing", "packaging", "done", "rootless"}
BY DEF InSession

LEMMA PhaseStep ==
  ASSUME LayerInv, StateInv, PoolInv, SizeInv, PhaseInv, [Next]_vars
  PROVE  PhaseInv'
<1>0. UNCHANGED layerVars
  BY LayerFixed
<1>1. CASE StartCompiling \/ Crash
  BY <1>1 DEF StartCompiling, Crash, NewSession, PhaseInv
<1>2. CASE Dispatch \/ DispatchNull \/ \E t \in Tasks : Collect(t)
  <2>1. pc = "compiling" /\ pc' \in {"compiling", "crashed"} /\ UNCHANGED packaged
    BY <1>2 DEF Dispatch, DispatchNull, Collect, WaitFrame, sessionVars
  <2>. QED
    BY <2>1 DEF PhaseInv
<1>3. CASE HandleCompleted
  <2>1. pc = "compiling" /\ packaged = NoTask
    BY <1>3 DEF HandleCompleted, PhaseInv
  <2>2. CASE outcome[Head(finished)] = "geometry"
    BY <1>3, <2>2 DEF HandleCompleted, HandBack, PhaseInv
  <2>3. CASE outcome[Head(finished)] # "geometry"
    BY <1>3, <2>1, <2>3 DEF HandleCompleted, PhaseInv
  <2>. QED
    BY <2>2, <2>3
<1>4. CASE PackageBegins
  BY <1>4 DEF PackageBegins, PackageFrame, poolVars, PhaseInv
<1>5. CASE PackageEnds \/ PackageFails
  BY <1>5 DEF PackageEnds, PackageFails, PhaseInv
<1>6. CASE CompileEnds
  <2>1. /\ Len(queue) \in Nat /\ Len(finished) \in Nat
        /\ Cardinality(running) \in Nat
        /\ Len(queue) + Cardinality(running) + Len(finished) = 0
    BY <1>6, FS_CardinalityType
       DEF CompileEnds, getNumTasks, PoolInv, SizeInv
  <2>2. Len(queue) = 0 /\ Len(finished) = 0 /\ Cardinality(running) = 0
    BY <2>1
  <2>3. queue = <<>> /\ finished = <<>>
    BY <2>2, EmptyIffNoLength DEF PoolInv
  <2>4. running = {}
    BY <2>2, FS_EmptySet DEF SizeInv
  <2>5. pc = "compiling" /\ pc' = "indexing" /\ UNCHANGED <<poolVars, packaged>>
    BY <1>6 DEF CompileEnds, sessionVars
  <2>. QED
    BY <2>3, <2>4, <2>5 DEF PhaseInv, poolVars
<1>7. CASE BuildIndex
  <2>1. /\ pc = "indexing" /\ pc' = "packaging" /\ scene_graph' = IndexedKeys
        /\ UNCHANGED <<poolVars, packaged, files>>
    BY <1>7 DEF BuildIndex, diskVars
  <2>2. IndexedKeys' = IndexedKeys
    BY <1>0, <2>1, KeysFixed DEF IndexedKeys
  <2>. QED
    BY <2>1, <2>2 DEF PhaseInv, poolVars
<1>8. CASE PackageRoot
  <2>1. /\ pc = "packaging" /\ pc' = "done" /\ root' = scene_graph
        /\ UNCHANGED <<poolVars, packaged, files>>
    BY <1>8 DEF PackageRoot, sessionVars
  <2>2. IndexedKeys' = IndexedKeys
    BY <1>0, <2>1, KeysFixed DEF IndexedKeys
  <2>. QED
    BY <2>1, <2>2 DEF PhaseInv, poolVars
<1>9. CASE PackageRootFails
  BY <1>9 DEF PackageRootFails, sessionVars, poolVars, PhaseInv
<1>10. CASE \E t \in Tasks : CellLooks(t) \/ CellCompiles(t) \/ CellDies(t)
  <2>1. PICK t \in Tasks : CellLooks(t) \/ CellCompiles(t) \/ CellDies(t)
    BY <1>10
  <2>2. /\ pc \notin {"indexing", "packaging", "done", "rootless"}
        /\ UNCHANGED <<pc, packaged, returned>> /\ t \in running
        /\ \A u \in Tasks : u # t => outcome'[u] = outcome[u]
    BY <2>1, SessionSteps DEF CellLooks, CellCompiles, CellDies, WorkerFrame,
       poolVars, StateInv
  <2>3. packaged \in returned => packaged # t /\ packaged \in Tasks
    BY <2>2, LayerFacts DEF PoolInv
  <2>. QED
    BY <2>2, <2>3 DEF PhaseInv
<1>11. CASE UNCHANGED vars
  <2>1. IndexedKeys' = IndexedKeys
    BY <1>0, <1>11, KeysFixed DEF IndexedKeys, vars, diskVars
  <2>. QED
    BY <1>11, <2>1 DEF vars, poolVars, sessionVars, diskVars, PhaseInv
<1>. QED
  BY <1>1, <1>2, <1>3, <1>4, <1>5, <1>6, <1>7, <1>8, <1>9, <1>10, <1>11,
     CompileCases

-----------------------------------------------------------------------------
\* What compiling the cell of a task gives.
LEMMA ResultOf ==
  ASSUME LayerInv, NEW t \in TaskIds
  PROVE  /\ DefinitionOf(Key(t)) \in 0..MaxLevels
         /\ ~IsNull(t) => content[DefinitionOf(Key(t))][Key(t).cell]
                            \in {"geometry", "nothing", "error"}
<1>1. Key(t).cell \in Cells /\ Key(t).depth \in Depths
  BY KeyIsKey DEF Keys
<1>2. /\ NumLevels \in 1..MaxLevels /\ MaxLevels \in Nat
      /\ Key(t).depth \in Nat
  BY <1>1, LayerFacts DEF Depths
<1>3. DefinitionOf(Key(t)) \in 0..MaxLevels
  BY <1>2 DEF DefinitionOf, NoLevel
<1>4. ~IsNull(t) => DefinitionOf(Key(t)) \in 1..MaxLevels
  BY <1>3 DEF IsNull, NoLevel
<1>5. content \in [1..MaxLevels -> [Cells -> {"geometry", "nothing", "error"}]]
  BY LayersAssumption DEF LayerInv
<1>. QED
  BY <1>1, <1>3, <1>4, <1>5

LEMMA StateStep ==
  ASSUME LayerInv, StateInv, PoolInv, SizeInv, QueuedInv, PhaseInv, [Next]_vars
  PROVE  StateInv'
<1>0. UNCHANGED layerVars
  BY LayerFixed
<1> USE <1>0, KeysFixed DEF StateInv
<1>1. CASE StartCompiling
  <2>1. /\ pc' = "compiling" /\ runs' = runs + 1 /\ runs < MaxRuns
        /\ UNCHANGED diskVars
    BY <1>1 DEF StartCompiling
  <2>2. PICK cells \in Selections : NewSession(cells, QueuedTasks(cells))
    BY <1>1 DEF StartCompiling
  <2>3. /\ selected' \subseteq Cells
        /\ outcome' = [t \in Tasks |-> "unknown"]
        /\ packaged' = NoTask /\ completed' = 0
        /\ scene_graph' = {} /\ troubled' = {}
    BY <2>2, LayersAssumption DEF NewSession
  <2>4. runs' \in 0..MaxRuns
    BY <2>1, SizesAssumption
  <2>5. 0 \in 0..NumKeys
    BY LayerFacts
  <2>. QED
    BY <2>1, <2>3, <2>4, <2>5 DEF diskVars, Positions, Outcomes
<1>2. CASE Dispatch \/ DispatchNull \/ \E t \in Tasks : Collect(t)
  BY <1>2 DEF Dispatch, DispatchNull, Collect, WaitFrame, sessionVars,
     diskVars, Positions
<1>3. CASE HandleCompleted
  <2>1. /\ pc' \in Positions /\ packaged' \in {packaged, Head(finished)}
        /\ completed' = completed \/ ReportsProgress
        /\ UNCHANGED <<runs, selected, outcome, scene_graph, troubled, diskVars>>
    BY <1>3 DEF HandleCompleted, Positions
  <2>2. HandBack
    BY <1>3 DEF HandleCompleted
  <2>3. /\ Head(finished) \in TaskIds
        /\ Len(queue) + Cardinality(running) + Len(finished') \in 0..NumKeys
    BY <2>2, HandBackMoves
  <2>4. completed' \in 0..NumKeys
    BY <2>1, <2>3, LayerFacts DEF ReportsProgress, total_tasks
  <2>. QED
    BY <2>1, <2>3, <2>4 DEF diskVars
<1>4. CASE PackageBegins
  <2>1. packaged \in TaskIds
    BY <1>4 DEF PackageBegins, PhaseInv, PoolInv
  <2>2. DefinitionOf(Key(packaged)) \in 0..MaxLevels
    BY <2>1, ResultOf
  <2>. QED
    BY <1>4, <2>2
       DEF PackageBegins, PackageFrame, Positions, FileStates
<1>5. CASE PackageEnds
  BY <1>5 DEF PackageEnds, PackageFrame, Positions, FileStates
<1>6. CASE PackageFails
  <2>1. packaged \in TaskIds
    BY <1>6 DEF PackageFails, PhaseInv, PoolInv
  <2>2. Key(packaged) \in Keys
    BY <2>1, KeyIsKey
  <2>. QED
    BY <1>6, <2>2 DEF PackageFails, PackageFrame, Positions
<1>7. CASE CompileEnds
  BY <1>7 DEF CompileEnds, sessionVars, diskVars, Positions
<1>8. CASE BuildIndex
  <2>1. IndexedKeys \subseteq Keys
    BY IndexedAreKeys DEF LayerInv
  <2>. QED
    BY <1>8, <2>1 DEF BuildIndex, diskVars, Positions
<1>9. CASE PackageRoot \/ PackageRootFails
  BY <1>9 DEF PackageRoot, PackageRootFails, sessionVars, Positions, FileStates
<1>10. CASE \E t \in Tasks : CellLooks(t) \/ CellCompiles(t) \/ CellDies(t)
  <2>1. PICK t \in Tasks : CellLooks(t) \/ CellCompiles(t) \/ CellDies(t)
    BY <1>10
  <2>2. t \in TaskIds /\ ~IsNull(t)
    BY <2>1 DEF CellLooks, CellCompiles, CellDies, PoolInv, QueuedInv
  <2>3. UNCHANGED <<pc, runs, selected, packaged, completed, scene_graph, diskVars>>
    BY <2>1 DEF CellLooks, CellCompiles, CellDies, WorkerFrame
  <2>4. outcome' \in [Tasks -> Outcomes]
    BY <2>1, <2>2, ResultOf DEF CellLooks, CellCompiles, CellDies, Outcomes
  <2>5. troubled' \subseteq Keys
    BY <2>1, <2>2, KeyIsKey DEF CellLooks, CellCompiles, CellDies
  <2>. QED
    BY <2>3, <2>4, <2>5 DEF diskVars
<1>11. CASE Crash
  <2>1. /\ pc' = "off" /\ UNCHANGED <<runs, files, built, root>>
        /\ root_file' \in {root_file, "partial"}
    BY <1>11 DEF Crash
  <2>2. /\ selected' = {} /\ outcome' = [t \in Tasks |-> "unknown"]
        /\ packaged' = NoTask /\ completed' = 0
        /\ scene_graph' = {} /\ troubled' = {}
    BY <1>11 DEF Crash, NewSession
  <2>3. 0 \in 0..NumKeys
    BY LayerFacts
  <2>. QED
    BY <2>1, <2>2, <2>3 DEF Positions, Outcomes, FileStates
<1>12. CASE UNCHANGED vars
  BY <1>12 DEF vars, sessionVars, diskVars
<1>. QED
  BY <1>1, <1>2, <1>3, <1>4, <1>5, <1>6, <1>7, <1>8, <1>9, <1>10, <1>11,
     <1>12, CompileCases

-----------------------------------------------------------------------------
\* No step deletes a file; those who write one are in the thread of the loop.
LEMMA FilesGrow ==
  ASSUME StateInv, [Next]_vars
  PROVE  \A k \in Keys : files[k] # "absent" => files'[k] # "absent"
<1>1. CASE PackageBegins
  BY <1>1 DEF PackageBegins, StateInv
<1>2. CASE PackageEnds
  BY <1>2 DEF PackageEnds, StateInv
<1>3. CASE UNCHANGED files
  BY <1>3
<1>. QED
  BY <1>1, <1>2, <1>3, CompileCases
     DEF StartCompiling, Dispatch, DispatchNull, Collect, WaitFrame,
         HandleCompleted, PackageFails, CompileEnds, BuildIndex, PackageRoot,
         PackageRootFails, CellLooks, CellCompiles, CellDies, WorkerFrame,
         Crash, diskVars, vars

LEMMA OutcomeStep ==
  ASSUME LayerInv, StateInv, PoolInv, SizeInv, QueuedInv, PhaseInv, OutcomeInv,
         [Next]_vars
  PROVE  OutcomeInv'
<1>0. UNCHANGED layerVars
  BY LayerFixed
<1> USE <1>0, KeysFixed
<1>a. content' = content
  BY DEF layerVars
<1>b. \A t \in TaskIds : Key(t) \in Keys /\ t \in Tasks
  BY KeyIsKey, LayerFacts
<1>c. \A t \in TaskIds : files[Key(t)] # "absent" => files'[Key(t)] # "absent"
  BY <1>b, FilesGrow
\* The outcomes and the places are as they were, but for tasks that come back.
<1>d. ASSUME UNCHANGED outcome, troubled \subseteq troubled',
             Range(queue') \subseteq Range(queue),
             \A t \in TaskIds :
               t \in Range(finished') \cup returned' =>
                 outcome[t] \notin {"unknown", "compiling"},
             \A t \in TaskIds : t \in returned' /\ outcome[t] = "geometry" =>
               t = packaged' \/ files'[Key(t)] # "absent" \/ Key(t) \in troubled'
      PROVE  OutcomeInv'
  BY <1>a, <1>c, <1>d DEF OutcomeInv
<1>1. CASE StartCompiling \/ Crash
  <2>1. /\ outcome' = [t \in Tasks |-> "unknown"]
        /\ finished' = <<>> /\ returned' = {}
    BY <1>1 DEF StartCompiling, Crash, NewSession
  <2>. QED
    BY <1>b, <2>1, EmptyQueue DEF OutcomeInv
<1>2. CASE Dispatch \/ DispatchNull
  <2>1. Range(queue') \subseteq Range(queue)
    BY <1>2, BeginMoves, DiscardMoves DEF Dispatch, DispatchNull
  <2>2. UNCHANGED <<outcome, troubled, packaged, finished, returned>>
    BY <1>2 DEF Dispatch, DispatchNull, Begin, Discard, WaitFrame, sessionVars
  <2>. QED
    BY <1>c, <1>d, <2>1, <2>2 DEF OutcomeInv
<1>3. ASSUME NEW t \in Tasks, Collect(t) PROVE OutcomeInv'
  <2>1. /\ Range(finished') = Range(finished) \cup {t}
        /\ outcome[t] \notin {"unknown", "compiling"}
    BY <1>3, CompleteMoves DEF Collect
  <2>2. UNCHANGED <<outcome, troubled, packaged, queue, returned>>
    BY <1>3 DEF Collect, Complete, WaitFrame, sessionVars
  <2>. QED
    BY <1>c, <1>d, <2>1, <2>2 DEF OutcomeInv
<1>4. CASE HandleCompleted
  <2> DEFINE t == Head(finished)
  <2>1. /\ t \in TaskIds /\ returned' = returned \cup {t}
        /\ Range(finished) = {t} \cup Range(finished')
    BY <1>4, HandBackMoves DEF HandleCompleted
  <2>2. UNCHANGED <<outcome, troubled, queue>>
    BY <1>4 DEF HandleCompleted, HandBack
  <2>3. packaged = NoTask /\ (outcome[t] = "geometry" => packaged' = t)
    BY <1>4 DEF HandleCompleted, PhaseInv
  <2>4. \A u \in TaskIds : u # NoTask
    BY LayerFacts DEF TaskIds, NoTask
  <2> HIDE DEF t
  <2>. QED
    BY <1>c, <1>d, <2>1, <2>2, <2>3, <2>4 DEF OutcomeInv
<1>5. CASE PackageBegins
  <2>1. UNCHANGED <<poolVars, outcome, troubled, packaged>>
    BY <1>5 DEF PackageBegins, PackageFrame
  <2>. QED
    BY <1>c, <1>d, <2>1 DEF OutcomeInv, poolVars
<1>6. CASE PackageEnds
  <2>1. UNCHANGED <<poolVars, outcome, troubled>> /\ packaged \in TaskIds
    BY <1>6 DEF PackageEnds, PackageFrame, PhaseInv, PoolInv
  <2>2. files'[Key(packaged)] # "absent"
    BY <1>6, <1>b, <2>1 DEF PackageEnds, StateInv
  <2>. QED
    BY <1>c, <1>d, <2>1, <2>2 DEF OutcomeInv, poolVars
<1>7. CASE PackageFails
  <2>1. /\ UNCHANGED <<poolVars, outcome>>
        /\ troubled' = troubled \cup {Key(packaged)}
    BY <1>7 DEF PackageFails, PackageFrame
  <2>. QED
    BY <1>c, <1>d, <2>1 DEF OutcomeInv, poolVars
<1>8. CASE CompileEnds \/ BuildIndex \/ PackageRoot \/ PackageRootFails
              \/ UNCHANGED vars
  <2>1. UNCHANGED <<poolVars, outcome, troubled, packaged>>
    BY <1>8 DEF CompileEnds, BuildIndex, PackageRoot, PackageRootFails,
       sessionVars, vars
  <2>. QED
    BY <1>c, <1>d, <2>1 DEF OutcomeInv, poolVars
<1>9. CASE \E t \in Tasks : CellLooks(t) \/ CellCompiles(t) \/ CellDies(t)
  <2>1. PICK t \in Tasks : CellLooks(t) \/ CellCompiles(t) \/ CellDies(t)
    BY <1>9
  <2>2. /\ t \in running /\ t \in TaskIds
        /\ t \notin Range(queue) \cup Range(finished) \cup returned
    BY <2>1 DEF CellLooks, CellCompiles, CellDies, PoolInv
  <2>3. /\ UNCHANGED <<poolVars, packaged, files>> /\ troubled \subseteq troubled'
        /\ \A u \in Tasks : u # t => outcome'[u] = outcome[u]
    BY <2>1 DEF CellLooks, CellCompiles, CellDies, WorkerFrame, diskVars,
       StateInv
  <2>4. ASSUME NEW u \in TaskIds, u # t
        PROVE  /\ u \in Range(queue') => outcome'[u] = "unknown"
               /\ u \in Range(finished') \cup returned' =>
                    outcome'[u] \notin {"unknown", "compiling"}
               /\ outcome'[u] = "exists" => files'[Key(u)] # "absent"
               /\ outcome'[u] \in {"nothing", "error"} =>
                    content[DefinitionOf(Key(u))][Key(u).cell] = outcome'[u]
               /\ outcome'[u] = "exception" => Key(u) \in troubled'
               /\ u \in returned' /\ outcome'[u] = "geometry" =>
                    u = packaged' \/ files'[Key(u)] # "absent" \/ Key(u) \in troubled'
    BY <1>b, <2>3, <2>4 DEF OutcomeInv, poolVars
  <2>5. /\ outcome'[t] = "exists" => files[Key(t)] # "absent"
        /\ outcome'[t] \in {"nothing", "error"} =>
             content[DefinitionOf(Key(t))][Key(t).cell] = outcome'[t]
        /\ outcome'[t] = "exception" => Key(t) \in troubled'
    <3>0. t \in DOMAIN outcome
      BY <1>b, <2>2 DEF StateInv
    <3>1. CASE CellLooks(t)
      BY <3>0, <3>1 DEF CellLooks
    <3>2. CASE CellCompiles(t)
      <4>1. outcome'[t] = content[DefinitionOf(Key(t))][Key(t).cell]
        BY <3>0, <3>2 DEF CellCompiles
      <4>2. outcome'[t] \in {"geometry", "nothing", "error"}
        BY <2>2, <4>1, ResultOf DEF QueuedInv
      <4>. QED
        BY <4>1, <4>2
    <3>3. CASE CellDies(t)
      BY <3>0, <3>3 DEF CellDies
    <3>. QED
      BY <2>1, <3>1, <3>2, <3>3
  <2>6. t \notin Range(queue') \cup Range(finished') \cup returned'
    BY <2>2, <2>3 DEF poolVars
  <2>. QED
    BY <1>a, <2>3, <2>4, <2>5, <2>6 DEF OutcomeInv
<1>. QED
  BY <1>1, <1>2, <1>3, <1>4, <1>5, <1>6, <1>7, <1>8, <1>9, CompileCases

-----------------------------------------------------------------------------
\* The file of a cell is written by its own task only.
LEMMA UnwrittenStep ==
  ASSUME LayerInv, StateInv, PoolInv, SizeInv, QueuedInv, PhaseInv, OutcomeInv,
         UnwrittenInv, [Next]_vars
  PROVE  UnwrittenInv'
<1>0. UNCHANGED layerVars
  BY LayerFixed
<1> USE <1>0, KeysFixed
<1> SUFFICES ASSUME Distinct PROVE UnwrittenInv'
  BY DEF UnwrittenInv
<1>b. \A t \in TaskIds : Key(t) \in Keys /\ t \in Tasks
  BY KeyIsKey, LayerFacts
\* The tasks on their way were so before, with the same outcome.
<1>d. ASSUME UNCHANGED <<outcome, files>>,
             \A t \in TaskIds : outcome[t] \in {"compiling", "geometry"} =>
               /\ t \in running' \cup Range(finished') =>
                    t \in running \cup Range(finished)
               /\ t = packaged' /\ pc' = "opening" =>
                    \/ t \in running \cup Range(finished)
                    \/ t = packaged /\ pc = "opening"
      PROVE  UnwrittenInv'
  BY <1>d DEF UnwrittenInv
<1>1. CASE StartCompiling \/ Crash
  <2>1. outcome' = [t \in Tasks |-> "unknown"]
    BY <1>1 DEF StartCompiling, Crash, NewSession
  <2>. QED
    BY <1>b, <2>1 DEF UnwrittenInv
<1>2. CASE Dispatch
  <2>1. /\ Head(queue) \in Range(queue) /\ Head(queue) \in TaskIds
        /\ running' = running \cup {Head(queue)}
    BY <1>2, BeginMoves DEF Dispatch, Begin
  <2>2. UNCHANGED <<outcome, files, finished, packaged, pc>>
    BY <1>2 DEF Dispatch, Begin, WaitFrame, sessionVars, diskVars
  <2>3. outcome[Head(queue)] = "unknown"
    BY <2>1 DEF OutcomeInv
  <2>. QED
    BY <1>d, <2>1, <2>2, <2>3
<1>3. CASE DispatchNull
  <2>1. UNCHANGED <<outcome, files, running, finished, packaged>>
    BY <1>3 DEF DispatchNull, Discard, WaitFrame, sessionVars, diskVars
  <2>2. pc' # "opening"
    BY <1>3 DEF DispatchNull
  <2>. QED
    BY <1>d, <2>1, <2>2
<1>4. ASSUME NEW t \in Tasks, Collect(t) PROVE UnwrittenInv'
  <2>1. /\ Range(finished') = Range(finished) \cup {t}
        /\ t \in running /\ running' = running \ {t}
    BY <1>4, CompleteMoves DEF Collect
  <2>2. UNCHANGED <<outcome, files, packaged, pc>>
    BY <1>4 DEF Collect, WaitFrame, sessionVars, diskVars
  <2>. QED
    BY <1>d, <2>1, <2>2
<1>5. CASE HandleCompleted
  <2>1. /\ Range(finished) = {Head(finished)} \cup Range(finished')
        /\ UNCHANGED running
    BY <1>5, HandBackMoves DEF HandleCompleted, HandBack
  <2>2. UNCHANGED <<outcome, files>>
    BY <1>5 DEF HandleCompleted, diskVars
  <2>3. pc' = "opening" => packaged' = Head(finished)
    BY <1>5 DEF HandleCompleted
  <2>. QED
    BY <1>d, <2>1, <2>2, <2>3
<1>6. CASE PackageBegins
  <2>1. /\ packaged \in TaskIds /\ packaged \in returned
        /\ packaged \notin running \cup Range(finished)
    BY <1>6 DEF PackageBegins, PhaseInv, PoolInv
  <2>2. UNCHANGED <<poolVars, outcome>> /\ pc' = "writing"
    BY <1>6 DEF PackageBegins, PackageFrame
  <2>3. ASSUME NEW t \in TaskIds, t # packaged
        PROVE  files'[Key(t)] = files[Key(t)]
    <3>1. Key(t) # Key(packaged)
      BY <2>1, <2>3, KeyOneToOne
    <3>. QED
      BY <1>6, <1>b, <3>1 DEF PackageBegins, StateInv
  <2>. QED
    BY <2>1, <2>2, <2>3 DEF UnwrittenInv, poolVars
<1>7. CASE PackageEnds
  <2>1. /\ packaged \in TaskIds /\ packaged \in returned
        /\ packaged \notin running \cup Range(finished)
    BY <1>7 DEF PackageEnds, PhaseInv, PoolInv
  <2>2. UNCHANGED <<poolVars, outcome>> /\ pc' = "compiling"
    BY <1>7 DEF PackageEnds, PackageFrame
  <2>3. ASSUME NEW t \in TaskIds, t # packaged
        PROVE  files'[Key(t)] = files[Key(t)]
    <3>1. Key(t) # Key(packaged)
      BY <2>1, <2>3, KeyOneToOne
    <3>. QED
      BY <1>7, <1>b, <3>1 DEF PackageEnds, StateInv
  <2>. QED
    BY <2>1, <2>2, <2>3 DEF UnwrittenInv, poolVars
<1>8. CASE PackageFails
  <2>1. UNCHANGED <<poolVars, outcome, files>> /\ pc' = "compiling"
    BY <1>8 DEF PackageFails, PackageFrame
  <2>. QED
    BY <1>d, <2>1 DEF poolVars
<1>9. CASE CompileEnds \/ BuildIndex \/ PackageRoot \/ PackageRootFails
  <2>1. UNCHANGED <<poolVars, outcome, files>> /\ pc' # "opening"
    BY <1>9 DEF CompileEnds, BuildIndex, PackageRoot, PackageRootFails,
       sessionVars, diskVars
  <2>. QED
    BY <1>d, <2>1 DEF poolVars
<1>10. CASE UNCHANGED vars
  <2>1. UNCHANGED <<poolVars, outcome, files, packaged, pc>>
    BY <1>10 DEF vars, sessionVars, diskVars
  <2>. QED
    BY <1>d, <2>1 DEF poolVars
<1>11. CASE \E t \in Tasks : CellLooks(t) \/ CellCompiles(t) \/ CellDies(t)
  <2>1. PICK t \in Tasks : CellLooks(t) \/ CellCompiles(t) \/ CellDies(t)
    BY <1>11
  <2>2. t \in running /\ t \in TaskIds /\ t \in DOMAIN outcome
    BY <2>1 DEF CellLooks, CellCompiles, CellDies, PoolInv, StateInv
  <2>3. /\ UNCHANGED <<poolVars, packaged, pc, files>>
        /\ \A u \in Tasks : u # t => outcome'[u] = outcome[u]
    BY <2>1 DEF CellLooks, CellCompiles, CellDies, WorkerFrame, diskVars,
       StateInv
  <2>4. outcome'[t] \in {"compiling", "geometry"} => files[Key(t)] = "absent"
    <3>1. CASE CellLooks(t)
      BY <2>2, <3>1 DEF CellLooks
    <3>2. CASE CellCompiles(t)
      BY <2>2, <3>2 DEF CellCompiles, UnwrittenInv
    <3>3. CASE CellDies(t)
      BY <2>2, <3>3 DEF CellDies
    <3>. QED
      BY <2>1, <3>1, <3>2, <3>3
  <2>5. ASSUME NEW u \in TaskIds, u # t,
               outcome'[u] \in {"compiling", "geometry"},
               \/ u \in running' \cup Range(finished')
               \/ u = packaged' /\ pc' = "opening"
        PROVE  files'[Key(u)] = "absent"
    BY <1>b, <2>3, <2>5 DEF UnwrittenInv, poolVars
  <2>. QED
    BY <2>3, <2>4, <2>5 DEF UnwrittenInv
<1>. QED
  BY <1>1, <1>2, <1>3, <1>4, <1>5, <1>6, <1>7, <1>8, <1>9, <1>10, <1>11,
     CompileCases

LEMMA CompileInit == Init => CompileInv
<1> SUFFICES ASSUME Init PROVE CompileInv
  OBVIOUS
<1>1. LayerInv
  BY DEF Init, LayerInv
<1>2. /\ queue = <<>> /\ finished = <<>> /\ running = {} /\ returned = {}
      /\ discarded = {} /\ drained = FALSE
  BY DEF Init, PoolInit
<1>3. PoolInv
  BY <1>2, EmptyQueue DEF PoolInv
<1>4. SizeInv
  BY <1>1, <1>2, FS_EmptySet, LayerFacts DEF SizeInv
<1>5. StateInv
  <2>1. MaxLevels \in Nat /\ MaxRuns \in Nat /\ 0 \in 0..NumKeys
    BY <1>1, LayerFacts, SizesAssumption
  <2>. QED
    BY <2>1 DEF Init, StateInv, Positions, Outcomes, FileStates, NoLevel
<1>6. QueuedInv
  BY <1>2 DEF Init, QueuedInv
<1>7. PhaseInv
  BY DEF Init, PhaseInv
<1>8. \A t \in TaskIds : outcome[t] = "unknown"
  BY <1>1, LayerFacts DEF Init
<1>9. OutcomeInv /\ UnwrittenInv
  BY <1>2, <1>8, EmptyQueue DEF OutcomeInv, UnwrittenInv
<1>. QED
  BY <1>1, <1>3, <1>4, <1>5, <1>6, <1>7, <1>9 DEF CompileInv

LEMMA CompileInvariance == Spec => []CompileInv
<1>1. CompileInv /\ [Next]_vars => CompileInv'
  BY LayerFixed, KeysFixed, PoolStep, QueuedStep, PhaseStep, StateStep,
     OutcomeStep, UnwrittenStep DEF CompileInv
<1>. QED
  BY CompileInit, <1>1, PTL DEF Spec

-----------------------------------------------------------------------------
(***************************************************************************)
(* Every variable keeps its type, and the counters their bounds.           *)
(***************************************************************************)
THEOREM TypeCorrect == Spec => []TypeOK
<1>1. CompileInv => TypeOK
  <2> SUFFICES ASSUME CompileInv PROVE TypeOK
    OBVIOUS
  <2> USE DEF CompileInv
  <2>1. TaskIds \subseteq Tasks /\ 0..NumKeys \subseteq 0..(NumCells * MaxLevels)
    BY LayerFacts
  <2>2. queue \in Seq(Tasks) /\ finished \in Seq(Tasks)
    BY <2>1 DEF PoolInv
  <2>. QED
    BY <2>1, <2>2 DEF TypeOK, LayerInv, StateInv, PoolInv, FileStates
<1>. QED
  BY <1>1, CompileInvariance, PTL

(***************************************************************************)
(* A layer that is done lacks nothing of what this run should have built:  *)
(* compile() waits for every task, a task tells of its cell what became of *)
(* it, and the index is made of all the keys (compile, continueCompiling   *)
(* and buildIndex).                                                        *)
(***************************************************************************)
THEOREM NothingIsMissing == Spec => []NothingMissing
<1>1. CompileInv => NothingMissing
  <2> SUFFICES ASSUME CompileInv PROVE NothingMissing
    OBVIOUS
  <2> SUFFICES ASSUME pc = "done",
                      NEW c \in selected, NEW i \in 1..NumLevels,
                      levels[i] + 1 \in 1..NumLevels,
                      content[levels[i] + 1][c] = "geometry",
                      [cell |-> c, depth |-> levels[i]] \notin troubled
               PROVE  /\ [cell |-> c, depth |-> levels[i]] \in root
                      /\ files[[cell |-> c, depth |-> levels[i]]] # "absent"
    <3>1. \A j \in 1..NumLevels : levels[j] \in Int
      <4>1. levels \in [1..NumLevels -> Depths]
        BY LayerFacts DEF CompileInv
      <4>2. Depths \subseteq Int
        BY DEF Depths
      <4>. QED
        BY <4>1, <4>2
    <3>2. ASSUME NEW l \in 1..NumLevels, NEW j \in 1..NumLevels,
                 l = levels[j] + 1
          PROVE  l - 1 = levels[j]
      BY <3>1, <3>2
    <3>. QED
      BY <3>2 DEF NothingMissing
  <2> DEFINE k == [cell |-> c, depth |-> levels[i]]
  <2> USE DEF CompileInv
  <2>1. c \in Cells
    BY DEF StateInv
  <2>2. PICK t \in TaskIds : Key(t) = k
    BY <2>1, KeyOnto
  <2>3. levels[i] \in Nat /\ NumLevels \in Nat
    BY LayerFacts DEF Depths
  <2>4. DefinitionOf(k) = levels[i] + 1 /\ ~IsNull(t)
    BY <2>2, <2>3 DEF DefinitionOf, IsNull, NoLevel
  <2>5. t \in returned
    <3>1. t \in Range(queue) \cup running \cup Range(finished) \cup returned
                  \cup discarded
      BY <2>2 DEF QueuedInv
    <3>. QED
      BY <2>4, <3>1, EmptyQueue DEF PhaseInv, QueuedInv
  <2>6. files[k] # "absent"
    <3>1. /\ outcome[t] \notin {"unknown", "compiling"}
          /\ outcome[t] = "exists" => files[k] # "absent"
          /\ outcome[t] \in {"nothing", "error"} =>
               content[DefinitionOf(k)][c] = outcome[t]
          /\ outcome[t] = "exception" => k \in troubled
          /\ outcome[t] = "geometry" =>
               t = packaged \/ files[k] # "absent" \/ k \in troubled
      BY <2>2, <2>5 DEF OutcomeInv
    <3>2. t # packaged
      BY LayerFacts DEF PhaseInv, TaskIds, NoTask
    <3>3. outcome[t] \in Outcomes
      BY LayerFacts DEF StateInv
    <3>. QED
      BY <2>4, <3>1, <3>2, <3>3 DEF Outcomes
  <2>7. k \in IndexedKeys
    <3>1. k = [cell |-> c, depth |-> (levels[i] + 1) - 1]
      BY <2>3
    <3>. QED
      BY <2>1, <2>6, <3>1 DEF IndexedKeys
  <2>. QED
    BY <2>6, <2>7 DEF PhaseInv
<1>. QED
  BY <1>1, CompileInvariance, PTL

(***************************************************************************)
(* A file that was written whole is written no more, in this run or a      *)
(* later one, if no two levels share their keys: the worker that looked at *)
(* the disk found the file absent, and its key is nobody else's.           *)
(***************************************************************************)
THEOREM WholeFilesStay == Spec => WholeFilesKept
<1>1. CompileInv /\ [Next]_vars
        => [Distinct => \A k \in Keys : files[k] = "whole" => files'[k] = "whole"]_vars
  <2> SUFFICES ASSUME CompileInv, [Next]_vars, Distinct, NEW k \in Keys,
                      files[k] = "whole"
               PROVE  files'[k] = "whole"
    OBVIOUS
  <2> USE DEF CompileInv
  <2>1. CASE PackageBegins
    <3>1. packaged \in TaskIds /\ outcome[packaged] = "geometry" /\ pc = "opening"
      BY <2>1 DEF PackageBegins, PhaseInv, PoolInv
    <3>2. files[Key(packaged)] = "absent"
      BY <3>1 DEF UnwrittenInv
    <3>. QED
      BY <2>1, <3>2 DEF PackageBegins, StateInv
  <2>2. CASE PackageEnds
    BY <2>2 DEF PackageEnds, StateInv
  <2>3. CASE UNCHANGED files
    BY <2>3
  <2>. QED
    BY <2>1, <2>2, <2>3, CompileCases
       DEF StartCompiling, Dispatch, DispatchNull, Collect, WaitFrame,
           HandleCompleted, PackageFails, CompileEnds, BuildIndex, PackageRoot,
           PackageRootFails, CellLooks, CellCompiles, CellDies, WorkerFrame,
           Crash, diskVars, vars
<1>. QED
  BY <1>1, CompileInvariance, PTL DEF Spec, WholeFilesKept
=============================================================================
