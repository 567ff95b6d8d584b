-------------------------- MODULE FeatureLayerProofs --------------------------
(***************************************************************************)
(* Proofs about FeatureLayer and what it is made of, for any stores,       *)
(* contents, queries, threads and bounds.                                  *)
(*                                                                         *)
(* 1. A saved index fits the store it is used for: IndexFits.  No file is  *)
(*    from the future, and a store is only written when no program reads   *)
(*    it.  So a writing makes the store at least as new as the index file, *)
(*    and a file that is newer than its store is of what the store holds.  *)
(* 2. What is read is what was written: WrittenReadBack.                   *)
(* 3. The R-tree: insert() keeps a tree sound, find() finds what is in a   *)
(*    sound tree, and it is as sound after it was saved and read back.     *)
(* 4. A query gives what the index without a tree would: QueriesExact.  The*)
(*    tree that a thread uses fits the store, by 3. when it was built and, *)
(*    by 1., when it was loaded.                                           *)
(* 5. A cursor is the plain sequence of what matches: CursorsAreSequences. *)
(***************************************************************************)
EXTENDS FeatureLayer, QueueLemmas, FiniteSetTheorems, TLAPS

\* The writings of stores that an index may be of.
Origins == [store : Stores, writes : Nat]

\* The records have their fields, whatever data D the other fields hold.
StoreRecords(D) == [Stores -> [layer : D, rows : D, mtime : Nat, writes : Nat, given : D]]
Programs(D) == [mode : {"off", "write", "read"}, store : Stores \cup {Null}, todo : D, mtime : Nat]
Positions == {"idle", "assert", "lock", "make", "save", "install", "use", "find", "read"}
ThreadRecord(D) == [pc : Positions, query : D, index : D]
ThreadRecords(D) == [Threads -> ThreadRecord(D)]

RecordsInv ==
  /\ clock \in Nat
  /\ \E D : store \in StoreRecords(D)
  /\ \E D : prog \in Programs(D)
  /\ \E D : thread \in ThreadRecords(D)

\* No store and no file was written later than now.
TimeInv ==
  /\ \A s \in Stores : store[s].mtime <= clock
  /\ file # Null => /\ file.mtime \in Nat /\ file.mtime <= clock
                    /\ file.of \in Origins

\* A program has one store, and knows the time it was written at while it reads.
ProgramInv ==
  /\ prog.mode # "off" => prog.store \in Stores
  /\ prog.mode = "read" => prog.mtime = store[prog.store].mtime
  /\ prog.mode # "read" => index = Null /\ \A t \in Threads : thread[t].pc = "idle" /\ thread[t].index = Null

\* A file that is newer than its store is of what that holds.
FileFits == file # Null /\ file.mtime > store[file.of.store].mtime => file.of = Of(file.of.store)

\* An index of the program's store is of what that holds.
FitsProgram(x) == x # Null /\ x.of # Null /\ x.of.store = prog.store => x.of = Of(prog.store)
IndexesFit == FitsProgram(index) /\ \A t \in Threads : FitsProgram(thread[t].index)

\* An index that is about to be saved was made from the store.
SavedInv == \A t \in Threads : thread[t].pc = "save" => thread[t].index.of = Of(prog.store)

IInv == RecordsInv /\ TimeInv /\ ProgramInv /\ FileFits /\ IndexesFit /\ SavedInv

-------------------------------------------------------------------------------
LEMMA InitInv == Init => IInv
<1> SUFFICES ASSUME Init PROVE IInv
  OBVIOUS
<1> USE DEF Init
<1>1. store \in StoreRecords({NoLayer, <<>>})
  BY DEF StoreRecords
<1>2. prog \in Programs({<<>>})
  BY DEF Programs, Off
<1>3. thread \in ThreadRecords({Null})
  <2> Idle \in ThreadRecord({Null})
    BY DEF Idle, Positions, ThreadRecord
  <2> QED  BY DEF ThreadRecords
<1>4. RecordsInv
  BY <1>1, <1>2, <1>3 DEF RecordsInv
<1>5. TimeInv /\ ProgramInv /\ FileFits /\ IndexesFit /\ SavedInv
  BY DEF TimeInv, ProgramInv, FileFits, IndexesFit, FitsProgram, SavedInv, Off, Idle
<1> QED  BY <1>4, <1>5 DEF IInv

LEMMA PutThread ==
  ASSUME NEW D, NEW E, thread \in ThreadRecords(D), NEW t \in Threads, NEW r \in ThreadRecord(E)
  PROVE  [thread EXCEPT ![t] = r] \in ThreadRecords(D \cup E)
<1>1. r \in ThreadRecord(D \cup E)
  BY DEF ThreadRecord
<1>2. \A u \in Threads : thread[u] \in ThreadRecord(D \cup E)
  BY DEF ThreadRecords, ThreadRecord
<1> QED  BY <1>1, <1>2 DEF ThreadRecords

LEMMA UnseenInv == IInv /\ UNCHANGED <<clock, store, file, prog, index, thread>> => IInv'
BY DEF IInv, RecordsInv, TimeInv, ProgramInv, FileFits, IndexesFit, FitsProgram, SavedInv, Of

\* Where only one thread moves, what it has must fit.
LEMMA ThreadMoves ==
  ASSUME IInv, UNCHANGED <<clock, store, file, prog, index>>, prog.mode = "read",
         NEW t \in Threads, NEW E, NEW r \in ThreadRecord(E), thread' = [thread EXCEPT ![t] = r],
         FitsProgram(r.index), r.pc = "save" => r.index.of = Of(prog.store)
  PROVE  IInv'
<1>1. PICK D : thread \in ThreadRecords(D)
  BY DEF IInv, RecordsInv
<1>2. thread' \in ThreadRecords(D \cup E)
  BY <1>1, PutThread
<1>3. \A u \in Threads : thread'[u] = IF u = t THEN r ELSE thread[u]
  BY <1>1 DEF ThreadRecords
<1>4. RecordsInv'
  BY <1>2 DEF IInv, RecordsInv
<1>5. TimeInv' /\ ProgramInv' /\ FileFits'
  BY DEF IInv, TimeInv, ProgramInv, FileFits, Of
<1>6. IndexesFit'
  BY <1>3 DEF IInv, IndexesFit, FitsProgram, Of
<1>7. SavedInv'
  BY <1>3 DEF IInv, SavedInv, Of
<1> QED  BY <1>4, <1>5, <1>6, <1>7 DEF IInv

LEMMA Reading == ASSUME IInv, NEW t \in Threads, thread[t].pc # "idle" PROVE prog.mode = "read"
BY DEF IInv, ProgramInv

LEMMA StepInv ==
  ASSUME IInv, UNCHANGED <<clock, store, file, prog, index>>,
         NEW t \in Threads, thread[t].pc # "idle", NEW pc \in Positions \ {"save"}, Step(t, pc)
  PROVE  IInv'
<1>1. PICK D : thread \in ThreadRecords(D)
  BY DEF IInv, RecordsInv
<1> DEFINE r == [thread[t] EXCEPT !.pc = pc]
<1>2. r \in ThreadRecord(D) /\ r.pc = pc /\ r.index = thread[t].index
  BY <1>1 DEF ThreadRecords, ThreadRecord
<1>3. thread' = [thread EXCEPT ![t] = r]
  BY <1>1 DEF Step, ThreadRecords
<1>4. FitsProgram(r.index)
  BY <1>2 DEF IInv, IndexesFit
<1> HIDE DEF r
<1> QED  BY <1>2, <1>3, <1>4, Reading, ThreadMoves

LEMMA PutFeature ==
  ASSUME NEW D, store \in StoreRecords(D), NEW s \in Stores, NEW layer, NEW rows, NEW given
  PROVE  [store EXCEPT ![s].layer = layer, ![s].rows = rows, ![s].given = given]
            \in StoreRecords(D \cup {layer, rows, given})
BY DEF StoreRecords

LEMMA FitsFromInv == IInv => IndexFits
  BY DEF IInv, IndexFits, FileFits, IndexesFit, FitsProgram

-------------------------------------------------------------------------------
(* The steps of writing programs: no program reads, so that there is no index *)
(* but the file's.                                                           *)

LEMMA TickInv == IInv /\ Tick => IInv'
<1> SUFFICES ASSUME IInv, Tick PROVE IInv'
  OBVIOUS
<1> USE DEF Tick
<1>1. \E D : store' \in StoreRecords(D)
  BY DEF IInv, RecordsInv
<1>2. \E D : prog' \in Programs(D)
  BY DEF IInv, RecordsInv
<1>3. \E D : thread' \in ThreadRecords(D)
  BY DEF IInv, RecordsInv
<1>4. RecordsInv'
  BY <1>1, <1>2, <1>3 DEF IInv, RecordsInv
<1> PICK S, P, T : store \in StoreRecords(S) /\ prog \in Programs(P) /\ thread \in ThreadRecords(T)
  BY DEF IInv, RecordsInv
<1> USE DEF StoreRecords, Programs, ThreadRecords, ThreadRecord
<1>5. TimeInv'
  BY DEF IInv, RecordsInv, TimeInv, Origins
<1>6. ProgramInv'
  BY DEF IInv, ProgramInv
<1>7. FileFits'
  BY DEF IInv, RecordsInv, TimeInv, FileFits, Of, Origins
<1>8. IndexesFit'
  BY DEF IInv, ProgramInv, IndexesFit, FitsProgram, Of
<1>9. SavedInv'
  BY DEF IInv, ProgramInv, SavedInv, Of
<1> QED  BY <1>4, <1>5, <1>6, <1>7, <1>8, <1>9 DEF IInv

\* The store is now as new as any file.
LEMMA StartWritingInv ==
  ASSUME IInv, NEW s \in Stores, NEW features, StartWriting(s, features)
  PROVE  IInv'
<1> USE DEF StartWriting, Off
<1>1. \E D : store' \in StoreRecords(D)
  <2> PICK D : store \in StoreRecords(D)
    BY DEF IInv, RecordsInv
  <2> store' \in StoreRecords(D \cup {NoLayer, <<>>})
    BY DEF IInv, RecordsInv, StoreRecords
  <2> QED  OBVIOUS
<1>2. \E D : prog' \in Programs(D)
  <2> PICK D : prog \in Programs(D)
    BY DEF IInv, RecordsInv
  <2> prog' \in Programs(D \cup {features})
    BY DEF IInv, RecordsInv, Programs
  <2> QED  OBVIOUS
<1>3. \E D : thread' \in ThreadRecords(D)
  BY DEF IInv, RecordsInv
<1>4. RecordsInv'
  BY <1>1, <1>2, <1>3 DEF IInv, RecordsInv
<1> PICK S, P, T : store \in StoreRecords(S) /\ prog \in Programs(P) /\ thread \in ThreadRecords(T)
  BY DEF IInv, RecordsInv
<1> USE DEF StoreRecords, Programs, ThreadRecords, ThreadRecord
<1>5. TimeInv'
  BY DEF IInv, RecordsInv, TimeInv, Origins
<1>6. ProgramInv'
  BY DEF IInv, ProgramInv
<1>7. FileFits'
  BY DEF IInv, RecordsInv, TimeInv, FileFits, Of, Origins
<1>8. IndexesFit'
  BY DEF IInv, ProgramInv, IndexesFit, FitsProgram, Of
<1>9. SavedInv'
  BY DEF IInv, ProgramInv, SavedInv, Of
<1> QED  BY <1>4, <1>5, <1>6, <1>7, <1>8, <1>9 DEF IInv

LEMMA WriteFeatureInv == IInv /\ WriteFeature => IInv'
<1> SUFFICES ASSUME IInv, WriteFeature PROVE IInv'
  OBVIOUS
<1> USE DEF WriteFeature
<1>1. \E D : store' \in StoreRecords(D)
  <2> PICK D : store \in StoreRecords(D)
    BY DEF IInv, RecordsInv
  <2>1. prog.store \in Stores
    BY DEF IInv, ProgramInv
  <2>2. CASE Head(prog.todo).shapes = <<>>
    BY <2>2
  <2>3. CASE Head(prog.todo).shapes # <<>>
    <3> DEFINE L == IF store[prog.store].layer = NoLayer THEN CreateLayer(Head(prog.todo))
                    ELSE store[prog.store].layer
               R == Append(store[prog.store].rows, InsertFeature(L, Head(prog.todo)))
               G == Append(store[prog.store].given, Head(prog.todo))
    <3>1. store' = [store EXCEPT ![prog.store].layer = L, ![prog.store].rows = R, ![prog.store].given = G]
      BY <2>1, <2>3 DEF StoreRecords
    <3> HIDE DEF L, R, G
    <3>2. [store EXCEPT ![prog.store].layer = L, ![prog.store].rows = R, ![prog.store].given = G]
            \in StoreRecords(D \cup {L, R, G})
      BY <2>1, PutFeature
    <3>3. store' \in StoreRecords(D \cup {L, R, G})
      BY ONLY <3>1, <3>2
    <3> QED  BY ONLY <3>3
  <2> QED  BY <2>2, <2>3
<1>2. \E D : prog' \in Programs(D)
  <2> PICK D : prog \in Programs(D)
    BY DEF IInv, RecordsInv
  <2> prog' \in Programs(D \cup {Tail(prog.todo)})
    BY DEF IInv, RecordsInv, Programs
  <2> QED  OBVIOUS
<1>3. \E D : thread' \in ThreadRecords(D)
  BY DEF IInv, RecordsInv
<1>4. RecordsInv'
  BY <1>1, <1>2, <1>3 DEF IInv, RecordsInv
<1> PICK S, P, T : store \in StoreRecords(S) /\ prog \in Programs(P) /\ thread \in ThreadRecords(T)
  BY DEF IInv, RecordsInv
<1> USE DEF StoreRecords, Programs, ThreadRecords, ThreadRecord
<1>5. TimeInv'
  BY DEF IInv, RecordsInv, TimeInv, Origins
<1>6. ProgramInv'
  BY DEF IInv, ProgramInv
<1>7. FileFits'
  <2>1. \A s \in Stores : store'[s].mtime = store[s].mtime /\ store'[s].writes = store[s].writes
    BY DEF IInv, ProgramInv
  <2>2. file' = file /\ (file # Null => file.of.store \in Stores)
    BY DEF IInv, TimeInv, Origins
  <2>3. FileFits
    BY DEF IInv
  <2> QED  BY ONLY <2>1, <2>2, <2>3 DEF FileFits, Of
<1>8. IndexesFit'
  BY DEF IInv, ProgramInv, IndexesFit, FitsProgram, Of
<1>9. SavedInv'
  BY DEF IInv, ProgramInv, SavedInv, Of
<1> QED  BY <1>4, <1>5, <1>6, <1>7, <1>8, <1>9 DEF IInv

LEMMA CloseStoreInv == IInv /\ CloseStore => IInv'
<1> SUFFICES ASSUME IInv, CloseStore PROVE IInv'
  OBVIOUS
<1> USE DEF CloseStore, Off
<1>1. \E D : store' \in StoreRecords(D)
  <2> PICK D : store \in StoreRecords(D)
    BY DEF IInv, RecordsInv
  <2> store' \in StoreRecords(D \cup {})
    BY DEF IInv, RecordsInv, StoreRecords
  <2> QED  OBVIOUS
<1>2. \E D : prog' \in Programs(D)
  <2> PICK D : prog \in Programs(D)
    BY DEF IInv, RecordsInv
  <2> prog' \in Programs(D \cup {<<>>})
    BY DEF IInv, RecordsInv, Programs
  <2> QED  OBVIOUS
<1>3. \E D : thread' \in ThreadRecords(D)
  BY DEF IInv, RecordsInv
<1>4. RecordsInv'
  BY <1>1, <1>2, <1>3 DEF IInv, RecordsInv
<1> PICK S, P, T : store \in StoreRecords(S) /\ prog \in Programs(P) /\ thread \in ThreadRecords(T)
  BY DEF IInv, RecordsInv
<1> USE DEF StoreRecords, Programs, ThreadRecords, ThreadRecord
<1>5. TimeInv'
  BY DEF IInv, RecordsInv, TimeInv, Origins
<1>6. ProgramInv'
  BY DEF IInv, ProgramInv
<1>7. FileFits'
  BY DEF IInv, RecordsInv, TimeInv, FileFits, Of, Origins
<1>8. IndexesFit'
  BY DEF IInv, ProgramInv, IndexesFit, FitsProgram, Of
<1>9. SavedInv'
  BY DEF IInv, ProgramInv, SavedInv, Of
<1> QED  BY <1>4, <1>5, <1>6, <1>7, <1>8, <1>9 DEF IInv

-------------------------------------------------------------------------------
(* The steps of reading programs.                                            *)

LEMMA StartReadingInv ==
  ASSUME IInv, NEW s \in Stores, StartReading(s)
  PROVE  IInv'
<1> USE DEF StartReading, Off
<1>1. \E D : store' \in StoreRecords(D)
  BY DEF IInv, RecordsInv
<1>2. \E D : prog' \in Programs(D)
  <2> PICK D : prog \in Programs(D)
    BY DEF IInv, RecordsInv
  <2> prog' \in Programs(D \cup {<<>>})
    BY DEF IInv, RecordsInv, Programs, StoreRecords
  <2> QED  OBVIOUS
<1>3. \E D : thread' \in ThreadRecords(D)
  BY DEF IInv, RecordsInv
<1>4. RecordsInv'
  BY <1>1, <1>2, <1>3 DEF IInv, RecordsInv
<1> PICK S, P, T : store \in StoreRecords(S) /\ prog \in Programs(P) /\ thread \in ThreadRecords(T)
  BY DEF IInv, RecordsInv
<1> USE DEF StoreRecords, Programs, ThreadRecords, ThreadRecord
<1>5. TimeInv'
  BY DEF IInv, RecordsInv, TimeInv, Origins
<1>6. ProgramInv'
  BY DEF IInv, ProgramInv
<1>7. FileFits'
  BY DEF IInv, RecordsInv, TimeInv, FileFits, Of, Origins
<1>8. IndexesFit'
  BY DEF IInv, ProgramInv, IndexesFit, FitsProgram, Of
<1>9. SavedInv'
  BY DEF IInv, ProgramInv, SavedInv, Of
<1> QED  BY <1>4, <1>5, <1>6, <1>7, <1>8, <1>9 DEF IInv

LEMMA StopProgramInv == IInv /\ StopProgram => IInv'
<1> SUFFICES ASSUME IInv, StopProgram PROVE IInv'
  OBVIOUS
<1> USE DEF StopProgram, Off, Idle, Positions
<1>1. \E D : store' \in StoreRecords(D)
  BY DEF IInv, RecordsInv
<1>2. \E D : prog' \in Programs(D)
  <2> PICK D : prog \in Programs(D)
    BY DEF IInv, RecordsInv
  <2> prog' \in Programs(D \cup {<<>>})
    BY DEF IInv, RecordsInv, Programs
  <2> QED  OBVIOUS
<1>3. \E D : thread' \in ThreadRecords(D)
  <2> PICK D : thread \in ThreadRecords(D)
    BY DEF IInv, RecordsInv
  <2> Idle \in ThreadRecord({Null})
    BY DEF ThreadRecord
  <2> thread' \in ThreadRecords(D \cup {Null})
    BY DEF IInv, RecordsInv, ThreadRecords, ThreadRecord
  <2> QED  OBVIOUS
<1>4. RecordsInv'
  BY <1>1, <1>2, <1>3 DEF IInv, RecordsInv
<1> PICK S, P, T : store \in StoreRecords(S) /\ prog \in Programs(P) /\ thread \in ThreadRecords(T)
  BY DEF IInv, RecordsInv
<1> USE DEF StoreRecords, Programs, ThreadRecords, ThreadRecord
<1>5. TimeInv'
  BY DEF IInv, RecordsInv, TimeInv, Origins
<1>6. ProgramInv'
  BY DEF IInv, ProgramInv
<1>7. FileFits'
  BY DEF IInv, RecordsInv, TimeInv, FileFits, Of, Origins
<1>8. IndexesFit'
  BY DEF IInv, ProgramInv, IndexesFit, FitsProgram, Of
<1>9. SavedInv'
  BY DEF IInv, ProgramInv, SavedInv, Of
<1> QED  BY <1>4, <1>5, <1>6, <1>7, <1>8, <1>9 DEF IInv

LEMMA AskInv == ASSUME IInv, NEW t \in Threads, NEW q, Ask(t, q) PROVE IInv'
<1>1. PICK pc \in {"read", "assert"} : thread' = [thread EXCEPT ![t] = [Idle EXCEPT !.pc = pc, !.query = q]]
  BY DEF Ask
<1> DEFINE r == [Idle EXCEPT !.pc = pc, !.query = q]
<1>2. r \in ThreadRecord({Null, q}) /\ r.pc = pc /\ FitsProgram(r.index)
  BY DEF Idle, ThreadRecord, Positions, FitsProgram
<1> HIDE DEF r
<1>3. thread' = [thread EXCEPT ![t] = r]
  BY <1>1 DEF r
<1>4. prog.mode = "read" /\ UNCHANGED <<clock, store, file, prog, index>>
  BY DEF Ask
<1> QED  BY <1>2, <1>3, <1>4, ThreadMoves

LEMMA AssertIndexInv == ASSUME IInv, NEW t \in Threads, AssertIndex(t) PROVE IInv'
<1>1. PICK pc \in {"use", "lock", "make"} : Step(t, pc)
  BY DEF AssertIndex
<1>2. pc \in Positions \ {"save"}
  BY DEF Positions
<1>3. thread[t].pc # "idle" /\ UNCHANGED <<clock, store, file, prog, index>>
  BY DEF AssertIndex
<1> QED  BY <1>1, <1>2, <1>3, StepInv

LEMMA MadeInv ==
  ASSUME IInv, UNCHANGED <<clock, store, file, prog, index>>, NEW t \in Threads, thread[t].pc # "idle",
         NEW made, NEW of, NEW pc \in Positions, NEW built, Made(t, made, of, pc, built),
         of # Null /\ of.store = prog.store => of = Of(prog.store),
         pc = "save" => of = Of(prog.store)
  PROVE  IInv'
<1>1. PICK D : thread \in ThreadRecords(D)
  BY DEF IInv, RecordsInv
<1> DEFINE x == [id |-> t, tree |-> made.tree, extent |-> made.extent, of |-> of, built |-> built]
           r == [thread[t] EXCEPT !.pc = pc, !.index = x]
<1>2. x.of = of
  OBVIOUS
<1>3. thread' = [thread EXCEPT ![t].pc = pc, ![t].index = x]
  BY DEF Made
<1> HIDE DEF x
<1>4. r \in ThreadRecord(D \cup {x}) /\ r.pc = pc /\ r.index = x
  BY <1>1 DEF ThreadRecords, ThreadRecord
<1>5. thread' = [thread EXCEPT ![t] = r]
  BY <1>1, <1>3 DEF ThreadRecords
<1>6. FitsProgram(r.index) /\ (r.pc = "save" => r.index.of = Of(prog.store))
  BY <1>2, <1>4 DEF FitsProgram
<1> HIDE DEF r
<1> QED  BY <1>4, <1>5, <1>6, Reading, ThreadMoves

\* A file that is newer than the store was when it was opened is of what the store holds.
LEMMA LoadIndexInv == ASSUME IInv, NEW t \in Threads, LoadIndex(t) PROVE IInv'
<1> DEFINE made == [tree |-> ReadFrom(file.text), extent |-> Reread(file.text.extent)]
           of == IF file.torn THEN Null ELSE file.of
<1>1. thread[t].pc # "idle" /\ UNCHANGED <<clock, store, file, prog, index>>
      /\ Made(t, made, of, "install", FALSE)
  BY DEF LoadIndex
<1>2. file # Null /\ file.mtime > store[prog.store].mtime
  BY <1>1, Reading DEF LoadIndex, CanLoad, IInv, ProgramInv
<1>3. of # Null /\ of.store = prog.store => of = Of(prog.store)
  BY <1>2 DEF IInv, FileFits
<1>4. "install" \in Positions
  BY DEF Positions
<1> HIDE DEF made, of
<1> QED  BY <1>1, <1>3, <1>4, MadeInv

LEMMA BuildIndexInv == ASSUME IInv, NEW t \in Threads, BuildIndex(t) PROVE IInv'
<1> DEFINE pc == IF HasWorkDirectory THEN "save" ELSE "install"
<1>1. thread[t].pc # "idle" /\ UNCHANGED <<clock, store, file, prog, index>>
      /\ Made(t, BuildTree(prog.store), Of(prog.store), pc, TRUE)
  BY DEF BuildIndex
<1>2. pc \in Positions
  BY DEF Positions
<1> HIDE DEF pc
<1> QED  BY <1>1, <1>2, MadeInv

LEMMA EnterIndexInv == ASSUME IInv, NEW t \in Threads, EnterIndex(t) PROVE IInv'
<1>1. PICK D : thread \in ThreadRecords(D)
  BY DEF IInv, RecordsInv
<1> DEFINE r == [thread[t] EXCEPT !.pc = "find", !.index = index]
<1>2. r \in ThreadRecord(D \cup {index}) /\ r.pc = "find" /\ FitsProgram(r.index)
  BY <1>1 DEF ThreadRecords, ThreadRecord, Positions, IInv, IndexesFit
<1>3. thread' = [thread EXCEPT ![t] = r]
  BY <1>1 DEF EnterIndex, ThreadRecords
<1>4. thread[t].pc # "idle" /\ UNCHANGED <<clock, store, file, prog, index>>
  BY DEF EnterIndex
<1> HIDE DEF r
<1> QED  BY <1>2, <1>3, <1>4, Reading, ThreadMoves

LEMMA FindFeaturesInv == ASSUME IInv, NEW t \in Threads, FindFeatures(t) PROVE IInv'
<1>1. Step(t, "read") /\ "read" \in Positions \ {"save"}
  BY DEF FindFeatures, Step, Positions
<1>2. thread[t].pc # "idle" /\ UNCHANGED <<clock, store, file, prog, index>>
  BY DEF FindFeatures
<1> QED  BY <1>1, <1>2, StepInv

LEMMA EndReadingInv == ASSUME IInv, NEW t \in Threads, EndReading(t) PROVE IInv'
<1>1. Idle \in ThreadRecord({Null}) /\ Idle.pc # "save" /\ FitsProgram(Idle.index)
  BY DEF Idle, ThreadRecord, Positions, FitsProgram
<1>2. thread' = [thread EXCEPT ![t] = Idle]
  BY DEF EndReading
<1>3. thread[t].pc # "idle" /\ UNCHANGED <<clock, store, file, prog, index>>
  BY DEF EndReading
<1> QED  BY <1>1, <1>2, <1>3, Reading, ThreadMoves

\* Reading goes on, or the program ends.
LEMMA CursorInv ==
  ASSUME IInv, NEW t \in Threads, FindCrashes(t) \/ ReadNext(t) \/ ReadAgain(t)
  PROVE  IInv'
BY UnseenInv DEF FindCrashes, ReadNext, ReadAgain

\* The file is made of what the store holds, and is as new as can be.
LEMMA SaveIndexInv ==
  ASSUME IInv, NEW t \in Threads, SaveIndex(t)
  PROVE  IInv'
<1> USE DEF SaveIndex, Step, Positions
<1>1. \E D : store' \in StoreRecords(D)
  BY DEF IInv, RecordsInv
<1>2. \E D : prog' \in Programs(D)
  BY DEF IInv, RecordsInv
<1>3. \E D : thread' \in ThreadRecords(D)
  <2> PICK D : thread \in ThreadRecords(D)
    BY DEF IInv, RecordsInv
  <2> thread' \in ThreadRecords(D \cup {})
    BY DEF IInv, RecordsInv, ThreadRecords, ThreadRecord
  <2> QED  OBVIOUS
<1>4. RecordsInv'
  BY <1>1, <1>2, <1>3 DEF IInv, RecordsInv
<1> PICK S, P, T : store \in StoreRecords(S) /\ prog \in Programs(P) /\ thread \in ThreadRecords(T)
  BY DEF IInv, RecordsInv
<1> USE DEF StoreRecords, Programs, ThreadRecords, ThreadRecord
<1>5. TimeInv'
  BY DEF IInv, RecordsInv, TimeInv, Origins, SavedInv, ProgramInv, Of
<1>6. ProgramInv'
  BY DEF IInv, ProgramInv
<1>7. FileFits'
  BY DEF IInv, RecordsInv, TimeInv, FileFits, Of, Origins, SavedInv, ProgramInv
<1>8. IndexesFit'
  BY DEF IInv, ProgramInv, IndexesFit, FitsProgram, Of
<1>9. SavedInv'
  BY DEF IInv, ProgramInv, SavedInv, Of
<1> QED  BY <1>4, <1>5, <1>6, <1>7, <1>8, <1>9 DEF IInv

LEMMA InstallIndexInv ==
  ASSUME IInv, NEW t \in Threads, InstallIndex(t)
  PROVE  IInv'
<1> USE DEF InstallIndex, Positions
<1>1. \E D : store' \in StoreRecords(D)
  BY DEF IInv, RecordsInv
<1>2. \E D : prog' \in Programs(D)
  BY DEF IInv, RecordsInv
<1>3. \E D : thread' \in ThreadRecords(D)
  <2> PICK D : thread \in ThreadRecords(D)
    BY DEF IInv, RecordsInv
  <2> thread' \in ThreadRecords(D \cup {Null})
    BY DEF IInv, RecordsInv, ThreadRecords, ThreadRecord
  <2> QED  OBVIOUS
<1>4. RecordsInv'
  BY <1>1, <1>2, <1>3 DEF IInv, RecordsInv
<1> PICK S, P, T : store \in StoreRecords(S) /\ prog \in Programs(P) /\ thread \in ThreadRecords(T)
  BY DEF IInv, RecordsInv
<1> USE DEF StoreRecords, Programs, ThreadRecords, ThreadRecord
<1>5. TimeInv'
  BY DEF IInv, RecordsInv, TimeInv, Origins
<1>6. ProgramInv'
  BY DEF IInv, ProgramInv
<1>7. FileFits'
  BY DEF IInv, RecordsInv, TimeInv, FileFits, Of, Origins
<1>8. IndexesFit'
  BY DEF IInv, ProgramInv, IndexesFit, FitsProgram, Of
<1>9. SavedInv'
  BY DEF IInv, ProgramInv, SavedInv, Of
<1> QED  BY <1>4, <1>5, <1>6, <1>7, <1>8, <1>9 DEF IInv

LEMMA KilledWhileSavingInv ==
  ASSUME IInv, NEW t \in Threads, KilledWhileSaving(t)
  PROVE  IInv'
<1> USE DEF KilledWhileSaving
<1>1. \E D : store' \in StoreRecords(D)
  BY DEF IInv, RecordsInv
<1>2. \E D : prog' \in Programs(D)
  BY DEF IInv, RecordsInv
<1>3. \E D : thread' \in ThreadRecords(D)
  BY DEF IInv, RecordsInv
<1>4. RecordsInv'
  BY <1>1, <1>2, <1>3 DEF IInv, RecordsInv
<1> PICK S, P, T : store \in StoreRecords(S) /\ prog \in Programs(P) /\ thread \in ThreadRecords(T)
  BY DEF IInv, RecordsInv
<1> USE DEF StoreRecords, Programs, ThreadRecords, ThreadRecord
<1>5. TimeInv'
  BY DEF IInv, RecordsInv, TimeInv, Origins, SavedInv, ProgramInv, Of
<1>6. ProgramInv'
  BY DEF IInv, ProgramInv
<1>7. FileFits'
  BY DEF IInv, RecordsInv, TimeInv, FileFits, Of, Origins, SavedInv, ProgramInv
<1>8. IndexesFit'
  BY DEF IInv, ProgramInv, IndexesFit, FitsProgram, Of
<1>9. SavedInv'
  BY DEF IInv, ProgramInv, SavedInv, Of
<1> QED  BY <1>4, <1>5, <1>6, <1>7, <1>8, <1>9 DEF IInv

-------------------------------------------------------------------------------
LEMMA ThreadStepInv == ASSUME IInv, NEW t \in Threads, ThreadStep(t) PROVE IInv'
BY AskInv, AssertIndexInv, LoadIndexInv, BuildIndexInv, SaveIndexInv, InstallIndexInv, EnterIndexInv,
   FindFeaturesInv, CursorInv, EndReadingInv, KilledWhileSavingInv
DEF ThreadStep

LEMMA NextInv == IInv /\ [Next]_vars => IInv'
BY UnseenInv, TickInv, StartWritingInv, WriteFeatureInv, CloseStoreInv, StartReadingInv, StopProgramInv,
   ThreadStepInv DEF Next, vars

\* The invariant holds always, for any stores, features, queries, threads and bounds.
THEOREM Invariance == Spec => []IInv
<1>1. Init => IInv
  BY InitInv
<1>2. IInv /\ [Next]_vars => IInv'
  BY NextInv
<1> QED  BY <1>1, <1>2, PTL DEF Spec

\* An index file that is used is of what the store holds now, and so is every
\* index in memory of the program's store: buildIndex() may go by the times.
THEOREM IndexAlwaysFits == Spec => []IndexFits
<1>1. IInv => IndexFits
  BY FitsFromInv
<1> QED  BY <1>1, Invariance, PTL

-------------------------------------------------------------------------------
(* What is written is read back.  A row is made of one feature and of the     *)
(* layer, which the first feature makes: so of a store's features, those that *)
(* fit the layer come back.                                                   *)

\* The features that stores are written with.
Feats == UNION {ToSet(features) : features \in UNION {Contents[s] : s \in Stores}}

\* A store has a row for each feature, and the layer of the first.
Holds(st) ==
  /\ st.given \in Seq(Feats)
  /\ st.rows = [i \in 1..Len(st.given) |-> InsertFeature(st.layer, st.given[i])]
  /\ st.layer = IF st.given = <<>> THEN NoLayer ELSE CreateLayer(st.given[1])

WrittenInv == prog.todo \in Seq(Feats) /\ \A s \in Stores : Holds(store[s])

LEMMA FeatsAreFeatures == \A f \in Feats : IsFeature(f)
BY ContentsAssumption DEF Feats

LEMMA ContentsAreFeats ==
  ASSUME NEW s \in Stores, NEW features \in Contents[s]
  PROVE  features \in Seq(Feats)
<1>1. features \in Seq(ToSet(features))
  BY ContentsAssumption
<1>2. ToSet(features) \subseteq Feats
  BY DEF Feats
<1> QED  BY <1>1, <1>2, SeqMonotonic

\* A layer that was made has a type, unlike one that was not.
LEMMA MadeLayer == ASSUME NEW f, IsFeature(f) PROVE CreateLayer(f) # NoLayer
BY ReportedAssumption DEF CreateLayer, NoLayer, IsFeature

\* A feature adds its row.
LEMMA HoldsOneMore ==
  ASSUME NEW st, Holds(st), NEW f \in Feats,
         NEW layer, layer = IF st.layer = NoLayer THEN CreateLayer(f) ELSE st.layer,
         NEW tt, tt.layer = layer, tt.rows = Append(st.rows, InsertFeature(layer, f)),
         tt.given = Append(st.given, f)
  PROVE  Holds(tt)
<1> DEFINE n == Len(st.given)
<1>1. /\ st.given \in Seq(Feats) /\ n \in Nat
      /\ tt.given \in Seq(Feats) /\ Len(tt.given) = n + 1 /\ tt.given # <<>>
      /\ \A i \in 1..n : tt.given[i] = st.given[i]
      /\ tt.given[n + 1] = f
      /\ \A i \in 1..n : st.given[i] \in Feats
  BY DEF Holds
<1>2. layer = CreateLayer(tt.given[1])
  <2>1. CASE st.given = <<>>
    BY <1>1, <2>1 DEF Holds
  <2>2. CASE st.given # <<>>
    <3>1. 1 \in 1..n
      BY <2>2, <1>1
    <3>2. st.layer = CreateLayer(st.given[1]) /\ st.given[1] \in Feats
      BY <2>2, <3>1, <1>1 DEF Holds
    <3>3. st.layer # NoLayer
      BY <3>2, FeatsAreFeatures, MadeLayer
    <3> QED  BY <3>1, <3>2, <3>3, <1>1
  <2> QED  BY <2>1, <2>2
<1>3. st.rows = [i \in 1..n |-> InsertFeature(layer, st.given[i])]
  <2>1. CASE n = 0
    BY <2>1 DEF Holds
  <2>2. CASE n # 0
    <3>1. st.given # <<>> /\ 1 \in 1..n
      BY <2>2, <1>1
    <3>2. layer = st.layer
      BY <3>1, <1>1, <1>2 DEF Holds
    <3> QED  BY <3>2 DEF Holds
  <2> QED  BY <2>1, <2>2
<1> DEFINE R == {InsertFeature(layer, g) : g \in Feats}
<1>4. st.rows \in Seq(R) /\ Len(st.rows) = n
  <2>1. st.rows \in [1..n -> R]
    BY <1>1, <1>3
  <2> HIDE DEF R, n
  <2> QED  BY <2>1, <1>1, FunctionIsSeq
<1>5. InsertFeature(layer, f) \in R
  OBVIOUS
<1>6. Append(st.rows, InsertFeature(layer, f))
        = [i \in 1..(n + 1) |-> InsertFeature(layer, tt.given[i])]
  <2> DEFINE row == InsertFeature(layer, f)
             longer == Append(st.rows, row)
  <2>1. /\ longer = [i \in 1..(n + 1) |-> longer[i]]
        /\ longer[n + 1] = row
        /\ \A i \in 1..n : longer[i] = st.rows[i]
    <3> HIDE DEF R, row, n
    <3> QED  BY <1>1, <1>4, <1>5 DEF row
  <2>2. ASSUME NEW i \in 1..(n + 1) PROVE longer[i] = InsertFeature(layer, tt.given[i])
    <3>1. CASE i = n + 1
      BY <2>1, <1>1, <3>1
    <3>2. CASE i # n + 1
      <4>1. i \in 1..n
        BY <3>2, <1>1
      <4>2. longer[i] = st.rows[i] /\ tt.given[i] = st.given[i]
        BY <4>1, <2>1, <1>1
      <4>3. st.rows[i] = InsertFeature(layer, st.given[i])
        BY <4>1, <1>3
      <4> QED  BY <4>2, <4>3
    <3> QED  BY <3>1, <3>2
  <2>3. longer = [i \in 1..(n + 1) |-> InsertFeature(layer, tt.given[i])]
    <3> HIDE DEF longer, n
    <3> QED  BY <2>1, <2>2
  <2> QED  BY <2>3
<1>7. Len(tt.given) = n + 1 /\ tt.layer = layer
  BY <1>1
<1>8. tt.rows = [i \in 1..Len(tt.given) |-> InsertFeature(tt.layer, tt.given[i])]
  <2> HIDE DEF n
  <2> QED  BY <1>6, <1>7
<1>9. tt.layer = IF tt.given = <<>> THEN NoLayer ELSE CreateLayer(tt.given[1])
  BY <1>1, <1>2
<1> QED  BY <1>1, <1>8, <1>9 DEF Holds

LEMMA InitWritten == Init => WrittenInv
BY DEF Init, WrittenInv, Holds, Off

\* Nothing but the writing program touches what the stores hold.
LEMMA WrittenStays ==
  ASSUME IInv, WrittenInv, UNCHANGED store, prog'.todo \in {prog.todo, <<>>}
  PROVE  WrittenInv'
<1>1. prog'.todo \in Seq(Feats)
  <2>1. prog.todo \in Seq(Feats)
    BY DEF WrittenInv
  <2>2. <<>> \in Seq(Feats)
    OBVIOUS
  <2> QED  BY <2>1, <2>2
<1>2. \A s \in Stores : Holds(store'[s])
  BY DEF WrittenInv
<1> QED  BY <1>1, <1>2 DEF WrittenInv

LEMMA WrittenStep == IInv /\ WrittenInv /\ [Next]_vars => WrittenInv'
<1> SUFFICES ASSUME IInv, WrittenInv, [Next]_vars PROVE WrittenInv'
  OBVIOUS
<1>0. PICK D : store \in StoreRecords(D)
  BY DEF IInv, RecordsInv
<1>1. ASSUME NEW s \in Stores, NEW features \in Contents[s], StartWriting(s, features)
      PROVE  WrittenInv'
  <2>1. prog'.todo \in Seq(Feats)
    BY <1>1, ContentsAreFeats DEF StartWriting, Off
  <2>2. ASSUME NEW u \in Stores PROVE Holds(store'[u])
    <3>1. CASE u = s
      <4>1. store'[u].given = <<>> /\ store'[u].rows = <<>> /\ store'[u].layer = NoLayer
        BY <1>0, <1>1, <3>1 DEF StartWriting, StoreRecords
      <4> QED  BY <4>1 DEF Holds
    <3>2. CASE u # s
      <4>1. store'[u] = store[u]
        BY <1>0, <1>1, <3>2 DEF StartWriting, StoreRecords
      <4> QED  BY <4>1 DEF WrittenInv
    <3> QED  BY <3>1, <3>2
  <2> QED  BY <2>1, <2>2 DEF WrittenInv
<1>2. CASE WriteFeature
  <2> DEFINE f == Head(prog.todo)
             s == prog.store
             layer == IF store[s].layer = NoLayer THEN CreateLayer(f) ELSE store[s].layer
             row == InsertFeature(layer, f)
  <2>1. prog.todo \in Seq(Feats) /\ prog.todo # <<>> /\ s \in Stores
    BY <1>2 DEF WriteFeature, WrittenInv, IInv, ProgramInv
  <2>2. f \in Feats /\ Tail(prog.todo) \in Seq(Feats)
    BY <2>1
  <2>3. prog'.todo = Tail(prog.todo)
    <3>1. PICK E : prog \in Programs(E)
      BY DEF IInv, RecordsInv
    <3> QED  BY <1>2, <3>1 DEF WriteFeature, Programs
  <2>4. CASE f.shapes = <<>>
    <3>1. store' = store
      BY <1>2, <2>4 DEF WriteFeature
    <3> QED  BY <3>1, <2>2, <2>3 DEF WrittenInv
  <2>5. CASE f.shapes # <<>>
    <3>1. store' = [store EXCEPT ![s].layer = layer, ![s].rows = Append(@, row), ![s].given = Append(@, f)]
      BY <1>2, <2>5 DEF WriteFeature
    <3> HIDE DEF f, layer, row
    <3>2. ASSUME NEW u \in Stores PROVE Holds(store'[u])
      <4>1. CASE u = s
        <5>1. /\ store'[u].layer = layer
              /\ store'[u].rows = Append(store[u].rows, row)
              /\ store'[u].given = Append(store[u].given, f)
          BY <1>0, <2>1, <3>1, <4>1 DEF StoreRecords
        <5>2. Holds(store[u])
          BY DEF WrittenInv
        <5> QED  BY <5>1, <5>2, <4>1, <2>2, HoldsOneMore DEF layer, row
      <4>2. CASE u # s
        <5>1. store'[u] = store[u]
          BY <1>0, <2>1, <3>1, <4>2 DEF StoreRecords
        <5> QED  BY <5>1 DEF WrittenInv
      <4> QED  BY <4>1, <4>2
    <3> QED  BY <3>2, <2>2, <2>3 DEF WrittenInv
  <2> QED  BY <2>4, <2>5
<1>3. CASE CloseStore
  <2>1. prog'.todo \in Seq(Feats)
    BY <1>3 DEF CloseStore, Off
  <2>2. ASSUME NEW u \in Stores PROVE Holds(store'[u])
    <3>1. /\ store'[u].layer = store[u].layer
          /\ store'[u].rows = store[u].rows
          /\ store'[u].given = store[u].given
      BY <1>0, <1>3 DEF CloseStore, StoreRecords
    <3> QED  BY <3>1 DEF Holds, WrittenInv
  <2> QED  BY <2>1, <2>2 DEF WrittenInv
<1>4. CASE Tick
  BY <1>4, WrittenStays DEF Tick
<1>5. ASSUME NEW s \in Stores, StartReading(s) PROVE WrittenInv'
  BY <1>5, WrittenStays DEF StartReading, Off
<1>6. CASE StopProgram
  BY <1>6, WrittenStays DEF StopProgram, Off
<1>7. ASSUME NEW t \in Threads, ThreadStep(t) PROVE WrittenInv'
  <2>1. UNCHANGED <<store, prog>>
    BY <1>7 DEF ThreadStep, Ask, AssertIndex, LoadIndex, BuildIndex, SaveIndex, InstallIndex, EnterIndex,
       FindFeatures, FindCrashes, ReadNext, ReadAgain, EndReading, KilledWhileSaving
  <2> QED  BY <2>1, WrittenStays
<1>8. CASE UNCHANGED vars
  BY <1>8, WrittenStays DEF vars
<1> QED  BY <1>1, <1>2, <1>3, <1>4, <1>5, <1>6, <1>7, <1>8 DEF Next

-------------------------------------------------------------------------------
(* One feature through a row and back.                                        *)

\* Points that went in backwards and are taken out backwards are as they were.
LEMMA ReverseTwice ==
  ASSUME NEW A, NEW s \in Seq(A)
  PROVE  Reverse(Reverse(s)) = s
<1> DEFINE n == Len(s)
           r == Reverse(s)
<1>1. n \in Nat /\ \A i \in 1..n : (n - i) + 1 \in 1..n /\ (n - ((n - i) + 1)) + 1 = i
  OBVIOUS
<1>2. r \in [1..n -> A] /\ \A i \in 1..n : r[i] = s[(n - i) + 1]
  BY <1>1 DEF Reverse
<1>3. Len(r) = n
  <2> HIDE DEF r, n
  <2> QED  BY <1>1, <1>2, FunctionIsSeq
<1>4. Reverse(r) = [i \in 1..n |-> r[(n - i) + 1]]
  BY <1>3 DEF Reverse
<1>5. \A i \in 1..n : r[(n - i) + 1] = s[i]
  BY <1>1, <1>2
<1>6. s = [i \in 1..n |-> s[i]]
  OBVIOUS
<1> HIDE DEF r, n
<1>7. Reverse(r) = s
  BY <1>4, <1>5, <1>6
<1> QED  BY <1>7 DEF r

LEMMA ReverseOne ==
  ASSUME NEW A, NEW s \in Seq(A), Len(s) = 1
  PROVE  Reverse(<<s[1]>>) = s
<1>1. s = <<s[1]>>
  OBVIOUS
<1>2. Reverse(<<s[1]>>) = <<s[1]>>
  BY DEF Reverse
<1> QED  BY <1>1, <1>2

\* A shape goes through a row of a layer of its own type.
LEMMA ShapeReadBack ==
  ASSUME NEW layer, NEW A, NEW shape \in Seq(Seq(A)), shape # <<>>,
         ShapeType(layer.reported) = "point" => \A part \in ToSet(shape) : Len(part) = 1
  PROVE  DecodeShape(EncodeShape(layer, shape)) = shape
<1> DEFINE row == EncodeShape(layer, shape)
           n == Len(shape)
<1>1. /\ n \in Nat /\ n # 0 /\ DOMAIN shape = 1..n /\ shape = [i \in 1..n |-> shape[i]]
      /\ \A i \in 1..n : shape[i] \in Seq(A)
  OBVIOUS
<1>2. DOMAIN row = 1..n
  BY <1>1 DEF EncodeShape
<1>2a. \A i \in 1..n : ShapeType(layer.reported) # "point" => row[i] = Reverse(shape[i])
  BY <1>1 DEF EncodeShape
<1>2b. \A i \in 1..n : ShapeType(layer.reported) = "point" /\ shape[i] # <<>> => row[i] = <<shape[i][1]>>
  BY <1>1 DEF EncodeShape
<1>3. row # <<>>
  BY <1>1, <1>2
<1>4. DecodeShape(row) = [i \in 1..n |-> Reverse(row[i])]
  BY <1>2, <1>3 DEF DecodeShape
<1> HIDE DEF n, row
<1>5. ASSUME NEW i \in 1..n PROVE Reverse(row[i]) = shape[i]
  <2>0. shape[i] \in Seq(A)
    BY <1>1
  <2>1. CASE ShapeType(layer.reported) = "point"
    <3>1. Len(shape[i]) = 1
      BY <2>1, <1>1 DEF ToSet
    <3>2. shape[i] # <<>>
      <4>1. Len(<<>>) # 1
        OBVIOUS
      <4> QED  BY <3>1, <4>1, Zenon
    <3>3. row[i] = <<shape[i][1]>>
      BY <2>1, <3>2, <1>2b
    <3> QED  BY <2>0, <3>1, <3>3, ReverseOne
  <2>2. CASE ShapeType(layer.reported) # "point"
    <3>1. row[i] = Reverse(shape[i])
      BY <2>2, <1>2a
    <3> QED  BY <2>0, <3>1, ReverseTwice
  <2> QED  BY <2>1, <2>2
<1>6. DecodeShape(row) = shape
  BY <1>1, <1>4, <1>5
<1> QED  BY <1>6 DEF row

\* An attribute goes through a field of its own type, unless it is a bool.
LEMMA AttributeReadBack ==
  ASSUME NEW a, IsAttribute(a), a.type # "bool", NEW attrs, NEW n \in DOMAIN attrs, attrs[n] = a
  PROVE  AttrOf(FieldType(a.type), FieldValue(FieldType(a.type), attrs, n)) = a
<1>1. CASE a.value # NoValue /\ a = IntAttr(a.value)
  <2>1. a.type = "int" /\ FieldType(a.type) = "int"
    BY <1>1 DEF IntAttr, FieldType
  <2>2. FieldValue("int", attrs, n) = a.value
    BY DEF FieldValue
  <2> QED  BY <1>1, <2>1, <2>2 DEF AttrOf
<1>2. CASE a.value # NoValue /\ a = DoubleAttr(a.value)
  <2>1. a.type = "double" /\ FieldType(a.type) = "double"
    BY <1>2 DEF DoubleAttr, FieldType
  <2>2. FieldValue("double", attrs, n) = a.value
    BY DEF FieldValue
  <2> QED  BY <1>2, <2>1, <2>2 DEF AttrOf
<1>3. CASE a.text # NoValue /\ a = StringAttr(a.text)
  <2>1. a.type = "string" /\ FieldType(a.type) = "string"
    BY <1>3 DEF StringAttr, FieldType
  <2>2. FieldValue("string", attrs, n) = a.text
    BY DEF FieldValue
  <2> QED  BY <1>3, <2>1, <2>2 DEF AttrOf
<1>4. a \notin {BoolAttr(TRUE), BoolAttr(FALSE)}
  <2>1. BoolAttr(TRUE).type = "bool" /\ BoolAttr(FALSE).type = "bool"
    BY DEF BoolAttr
  <2> QED  BY <2>1
<1> QED  BY <1>1, <1>2, <1>3, <1>4 DEF IsAttribute

\* The layer of a feature gives its type back.
LEMMA TypeReadBack ==
  ASSUME NEW type \in {"point", "line", "polygon"}
  PROVE  /\ ShapeType(Reported(type)) = type
         /\ ShapeType(IF Reported(type) = "Polygon" THEN "MultiPolygon" ELSE Reported(type)) = type
         /\ Reported(type) = "Polygon" <=> type = "polygon"
BY ReportedAssumption DEF ShapeType

\* A feature that fits the layer comes back from its row.
LEMMA FeatureReadBack ==
  ASSUME NEW f, IsFeature(f), NEW first, IsFeature(first), Keeps(f, first)
  PROVE  LoadFeature(CreateLayer(first), InsertFeature(CreateLayer(first), f)) = f
<1> DEFINE layer == CreateLayer(first)
           row == InsertFeature(layer, f)
           N == DOMAIN f.attrs
<1>1. /\ layer.reported = Reported(f.type)
      /\ layer.fields = [n \in N |-> FieldType(first.attrs[n].type)]
  BY DEF CreateLayer, Keeps
<1>2. ShapeType(layer.reported) = f.type /\ (layer.reported = "Polygon" <=> f.type = "polygon")
  BY <1>1, TypeReadBack DEF IsFeature
<1>3. ShapeType(row.wkb) = f.type
  BY <1>1, TypeReadBack DEF InsertFeature, IsFeature
<1> DEFINE P == Seq(Seq({p \in GeoPoints : p.ok}))
           m == Len(f.shapes)
<1>4. /\ m \in Nat /\ DOMAIN f.shapes = 1..m /\ f.shapes = [i \in 1..m |-> f.shapes[i]]
      /\ \A i \in 1..m : f.shapes[i] \in Seq(Seq({p \in GeoPoints : p.ok})) /\ f.shapes[i] \in ToSet(f.shapes)
  BY DEF IsFeature, ToSet
<1>5. ASSUME NEW i \in 1..m PROVE DecodeShape(EncodeShape(layer, f.shapes[i])) = f.shapes[i]
  <2>1. /\ f.shapes[i] # <<>>
        /\ ShapeType(layer.reported) = "point" => \A part \in ToSet(f.shapes[i]) : Len(part) = 1
    BY <1>2, <1>4 DEF Keeps
  <2> HIDE DEF layer
  <2> QED  BY <2>1, <1>4, ShapeReadBack
<1>6. row.geometry = [i \in 1..m |-> EncodeShape(layer, f.shapes[i])]
  <2> HIDE DEF layer
  <2>1. CASE f.type = "polygon"
    BY <2>1, <1>2, <1>4 DEF InsertFeature
  <2>2. CASE f.type # "polygon"
    <3>0. m = 1
      BY <2>2 DEF Keeps
    <3>1. m = 1 /\ f.shapes # <<>>
      BY <3>0
    <3>2. row.geometry = <<EncodeShape(layer, f.shapes[1])>>
      BY <2>2, <3>1, <1>2 DEF InsertFeature
    <3>3. 1..m = {1}
      BY <3>1
    <3>4. <<EncodeShape(layer, f.shapes[1])>> = [i \in 1..1 |-> EncodeShape(layer, f.shapes[i])]
      OBVIOUS
    <3> QED  BY <3>1, <3>2, <3>4
  <2> QED  BY <2>1, <2>2
<1>7. [i \in DOMAIN row.geometry |-> DecodeShape(row.geometry[i])] = f.shapes
  <2>1. DOMAIN row.geometry = 1..m
    BY <1>6
  <2>2. \A i \in 1..m : DecodeShape(row.geometry[i]) = f.shapes[i]
    <3> HIDE DEF row, layer, m
    <3> QED  BY <1>5, <1>6
  <2> HIDE DEF row, m
  <2> QED  BY <2>1, <2>2, <1>4
<1>8. ASSUME NEW n \in N PROVE AttrOf(layer.fields[n], row.fields[n]) = f.attrs[n]
  <2>1. layer.fields[n] = FieldType(f.attrs[n].type)
    BY <1>1 DEF Keeps
  <2>2. row.fields[n] = FieldValue(layer.fields[n], f.attrs, n)
    BY <1>1 DEF InsertFeature
  <2>3. IsAttribute(f.attrs[n]) /\ f.attrs[n].type # "bool"
    BY DEF IsFeature, Keeps
  <2> HIDE DEF layer, row
  <2> QED  BY <2>1, <2>2, <2>3, AttributeReadBack
<1>9. [n \in DOMAIN layer.fields |-> AttrOf(layer.fields[n], row.fields[n])] = f.attrs
  <2>1. DOMAIN layer.fields = N /\ f.attrs = [n \in N |-> f.attrs[n]]
    BY <1>1 DEF IsFeature
  <2> HIDE DEF layer, row, N
  <2> QED  BY <2>1, <1>8
<1> HIDE DEF layer, row
<1>10. LoadFeature(layer, row) = [type |-> f.type, shapes |-> f.shapes, attrs |-> f.attrs]
  BY <1>3, <1>7, <1>9 DEF LoadFeature
<1>11. f = [type |-> f.type, shapes |-> f.shapes, attrs |-> f.attrs]
  BY DEF IsFeature
<1>12. LoadFeature(layer, row) = f
  BY <1>10, <1>11
<1> QED  BY <1>12 DEF layer, row

LEMMA ReadBackFromInv == IInv /\ WrittenInv => WrittenReadBack
<1> SUFFICES ASSUME IInv, WrittenInv, NEW s \in Stores
             PROVE  /\ Len(store[s].rows) = Len(store[s].given)
                    /\ \A i \in DOMAIN store[s].given :
                          Keeps(store[s].given[i], store[s].given[1]) => GetFeature(s, i) = store[s].given[i]
  BY DEF WrittenReadBack
<1> DEFINE st == store[s]
           n == Len(st.given)
<1>1. Holds(st)
  BY DEF WrittenInv
<1>2. /\ n \in Nat /\ DOMAIN st.given = 1..n
      /\ \A i \in 1..n : st.given[i] \in Feats /\ 1 \in 1..n
      /\ st.rows = [i \in 1..n |-> InsertFeature(st.layer, st.given[i])]
  BY <1>1 DEF Holds
<1> HIDE DEF st, n
<1>3. Len(st.rows) = n
  <2> DEFINE R == {InsertFeature(st.layer, f) : f \in Feats}
  <2>1. st.rows \in [1..n -> R]
    BY <1>2
  <2> HIDE DEF R
  <2> QED  BY <2>1, <1>2, FunctionIsSeq
<1>4. ASSUME NEW i \in 1..n, Keeps(st.given[i], st.given[1])
      PROVE  LoadFeature(st.layer, st.rows[i]) = st.given[i]
  <2>1. st.layer = CreateLayer(st.given[1])
    <3>1. st.given # <<>>
      BY <1>2 DEF n
    <3> QED  BY <3>1, <1>1 DEF Holds
  <2>2. st.rows[i] = InsertFeature(CreateLayer(st.given[1]), st.given[i])
    BY <1>2, <2>1
  <2>3. IsFeature(st.given[i]) /\ IsFeature(st.given[1])
    BY <1>2, FeatsAreFeatures
  <2> QED  BY <2>1, <2>2, <2>3, <1>4, FeatureReadBack
<1> QED  BY <1>2, <1>3, <1>4 DEF st, n, GetFeature

\* What is read from a store is what was written to it, in the same order, of all
\* that its layer has room for, at any time and for any features: the reversal of
\* the points, the fields and the types of geometry cancel out.
THEOREM WritingAndReading == Spec => []WrittenReadBack
<1>1. Init => IInv /\ WrittenInv
  BY InitInv, InitWritten
<1>2. IInv /\ WrittenInv /\ [Next]_vars => (IInv /\ WrittenInv)'
  BY NextInv, WrittenStep
<1>3. IInv /\ WrittenInv => WrittenReadBack
  BY ReadBackFromInv
<1> QED  BY <1>1, <1>2, <1>3, PTL DEF Spec

-------------------------------------------------------------------------------
(* Extents: GeoExtent.cpp.                                                  *)

\* The points that were set.
ValidPoints == {p \in GeoPoints : p.ok}

\* A box has its corners in order.
IsBox(e) ==
  /\ e.is_valid /\ ~e.is_infinite
  /\ e.sw.ok /\ e.ne.ok
  /\ e.sw.x <= e.ne.x /\ e.sw.y <= e.ne.y
Boxes == {e \in GeoExtents : IsBox(e)}

\* Extent e holds extent f.
Covers(e, f) ==
  /\ e.sw.x <= f.sw.x /\ e.sw.y <= f.sw.y
  /\ f.ne.x <= e.ne.x /\ f.ne.y <= e.ne.y

\* A point has its parts.
LEMMA PointParts ==
  ASSUME NEW p \in GeoPoints
  PROVE  p.ok \in BOOLEAN /\ p.x \in Int /\ p.y \in Int
BY DEF GeoPoints

\* A valid point is one that was set.
LEMMA ValidIs ==
  ASSUME NEW p
  PROVE  p \in ValidPoints <=> p \in GeoPoints /\ p.ok
BY DEF ValidPoints

\* The point at a pair of coordinates.
LEMMA PointIs ==
  ASSUME NEW a \in Int, NEW b \in Int
  PROVE  At(a, b) \in ValidPoints /\ At(a, b).x = a /\ At(a, b).y = b
<1>1. At(a, b).ok /\ At(a, b).x = a /\ At(a, b).y = b
  BY DEF At
<1>2. At(a, b) \in GeoPoints
  BY DEF At, GeoPoints
<1> QED  BY <1>1, <1>2, ValidIs

\* An extent has its parts.
LEMMA ExtentParts ==
  ASSUME NEW e \in GeoExtents
  PROVE  e.is_valid \in BOOLEAN /\ e.is_infinite \in BOOLEAN /\ e.sw \in GeoPoints /\ e.ne \in GeoPoints
BY DEF GeoExtents

\* Whether an extent is valid or not, its corners have coordinates.
LEMMA ExtentNumbers ==
  ASSUME NEW e \in GeoExtents
  PROVE  e.sw.x \in Int /\ e.sw.y \in Int /\ e.ne.x \in Int /\ e.ne.y \in Int
BY ExtentParts, PointParts

\* A box is an extent with its corners in order.
LEMMA BoxIs ==
  ASSUME NEW e
  PROVE  e \in Boxes <=> e \in GeoExtents /\ IsBox(e)
BY DEF Boxes

\* The corners of a box have coordinates, in order.
LEMMA BoxNumbers ==
  ASSUME NEW e \in Boxes
  PROVE  /\ e.sw.x \in Int /\ e.sw.y \in Int /\ e.ne.x \in Int /\ e.ne.y \in Int
         /\ e.sw.x <= e.ne.x /\ e.sw.y <= e.ne.y
BY BoxIs, ExtentNumbers DEF IsBox

\* The corners of a box are valid points.
LEMMA BoxCorners ==
  ASSUME NEW e \in Boxes
  PROVE  e.sw \in ValidPoints /\ e.ne \in ValidPoints
BY BoxIs, ExtentParts, ValidIs DEF IsBox

\* A box is neither infinite nor empty.
LEMMA BoxFlags ==
  ASSUME NEW e \in Boxes
  PROVE  e.is_valid /\ ~e.is_infinite /\ ~IsEmpty(e)
BY BoxIs DEF IsBox, IsEmpty

\* The parts of an extent when one of them is set.
LEMMA SetSW ==
  ASSUME NEW e \in GeoExtents, NEW p \in GeoPoints
  PROVE  LET f == [e EXCEPT !.sw = p] IN
         f \in GeoExtents /\ f.sw = p /\ f.ne = e.ne /\ f.is_valid = e.is_valid /\ f.is_infinite = e.is_infinite
BY DEF GeoExtents

\* An extent whose north-east corner is set.
LEMMA SetNE ==
  ASSUME NEW e \in GeoExtents, NEW p \in GeoPoints
  PROVE  LET f == [e EXCEPT !.ne = p] IN
         f \in GeoExtents /\ f.ne = p /\ f.sw = e.sw /\ f.is_valid = e.is_valid /\ f.is_infinite = e.is_infinite
BY DEF GeoExtents

\* An extent that is made valid or invalid.
LEMMA SetValid ==
  ASSUME NEW e \in GeoExtents, NEW v \in BOOLEAN
  PROVE  LET f == [e EXCEPT !.is_valid = v] IN
         f \in GeoExtents /\ f.is_valid = v /\ f.sw = e.sw /\ f.ne = e.ne /\ f.is_infinite = e.is_infinite
BY DEF GeoExtents

\* An extent that is made infinite or finite.
LEMMA SetInfinite ==
  ASSUME NEW e \in GeoExtents, NEW v \in BOOLEAN
  PROVE  LET f == [e EXCEPT !.is_infinite = v] IN
         f \in GeoExtents /\ f.is_infinite = v /\ f.sw = e.sw /\ f.ne = e.ne /\ f.is_valid = e.is_valid
BY DEF GeoExtents

\* An extent whose corners are both set.
LEMMA SetCorners ==
  ASSUME NEW e \in GeoExtents, NEW p \in GeoPoints, NEW q \in GeoPoints
  PROVE  LET f == [e EXCEPT !.sw = p, !.ne = q] IN
         f \in GeoExtents /\ f.sw = p /\ f.ne = q /\ f.is_valid = e.is_valid /\ f.is_infinite = e.is_infinite
<1> DEFINE g == [e EXCEPT !.sw = p]
           f == [g EXCEPT !.ne = q]
<1>1. g \in GeoExtents /\ g.sw = p /\ g.ne = e.ne /\ g.is_valid = e.is_valid /\ g.is_infinite = e.is_infinite
  BY SetSW
<1>2. [e EXCEPT !.sw = p, !.ne = q] = f
  OBVIOUS
<1> HIDE DEF g
<1>3. f \in GeoExtents /\ f.ne = q /\ f.sw = g.sw /\ f.is_valid = g.is_valid /\ f.is_infinite = g.is_infinite
  BY <1>1, SetNE
<1> QED  BY <1>1, <1>2, <1>3

\* recalc() only says whether the corners are in order.
LEMMA RecalcParts ==
  ASSUME NEW e \in GeoExtents
  PROVE  LET f == Recalc(e) IN
         /\ f \in GeoExtents /\ f.sw = e.sw /\ f.ne = e.ne /\ f.is_infinite = e.is_infinite
         /\ f.is_valid <=> e.is_valid /\ e.sw.x <= e.ne.x /\ e.sw.y <= e.ne.y
<1> DEFINE v == e.is_valid /\ e.sw.x <= e.ne.x /\ e.sw.y <= e.ne.y
<1>1. v \in BOOLEAN
  OBVIOUS
<1>2. Recalc(e) = [e EXCEPT !.is_valid = v]
  BY DEF Recalc
<1>3. v <=> e.is_valid /\ e.sw.x <= e.ne.x /\ e.sw.y <= e.ne.y
  OBVIOUS
<1> HIDE DEF v
<1> QED  BY <1>1, <1>2, <1>3, SetValid

\* The empty extent is valid and has no corners.
LEMMA EmptyIs == Empty \in GeoExtents /\ Empty.is_valid /\ ~Empty.is_infinite /\ ~Empty.sw.ok /\ IsEmpty(Empty)
<1>1. Invalid \in GeoExtents /\ ~Invalid.is_infinite /\ ~Invalid.sw.ok
  BY DEF Invalid, NoPoint, GeoExtents, GeoPoints
<1>2. Empty \in GeoExtents /\ Empty.is_valid = TRUE /\ Empty.is_infinite = Invalid.is_infinite /\ Empty.sw = Invalid.sw
  BY <1>1, SetValid DEF Empty
<1> QED  BY <1>1, <1>2 DEF IsEmpty

\* A box grows to hold a point.
LEMMA BoxAndPoint ==
  ASSUME NEW e \in Boxes, NEW p \in ValidPoints
  PROVE  LET g == ExpandToPoint(e, p) IN
         g \in Boxes /\ Covers(g, e) /\ g.sw.x <= p.x /\ p.x <= g.ne.x /\ g.sw.y <= p.y /\ p.y <= g.ne.y
<1> DEFINE m == Least(e.sw.x, p.x)
           n == Least(e.sw.y, p.y)
           u == Most(e.ne.x, p.x)
           v == Most(e.ne.y, p.y)
           f == [e EXCEPT !.sw = At(m, n), !.ne = At(u, v)]
<1>0. p.x \in Int /\ p.y \in Int /\ p.ok
  BY ValidIs, PointParts
<1>1. ExpandToPoint(e, p) = Recalc(f)
  BY BoxFlags, <1>0 DEF ExpandToPoint
<1>2. /\ m \in Int /\ n \in Int /\ u \in Int /\ v \in Int
      /\ m <= e.sw.x /\ m <= p.x /\ n <= e.sw.y /\ n <= p.y
      /\ e.ne.x <= u /\ p.x <= u /\ e.ne.y <= v /\ p.y <= v
  BY <1>0, BoxNumbers DEF Least, Most
<1>3. m <= u /\ n <= v
  BY <1>0, <1>2
<1> HIDE DEF m, n, u, v
<1>4. /\ At(m, n) \in ValidPoints /\ At(m, n) \in GeoPoints /\ At(m, n).ok /\ At(m, n).x = m /\ At(m, n).y = n
      /\ At(u, v) \in ValidPoints /\ At(u, v) \in GeoPoints /\ At(u, v).ok /\ At(u, v).x = u /\ At(u, v).y = v
  BY <1>2, PointIs, ValidIs
<1>5. e \in GeoExtents /\ e.is_valid /\ ~e.is_infinite
  BY BoxIs DEF IsBox
<1>6. f \in GeoExtents /\ f.sw = At(m, n) /\ f.ne = At(u, v) /\ f.is_valid = e.is_valid /\ f.is_infinite = e.is_infinite
  BY <1>4, <1>5, SetCorners
<1> HIDE DEF f
<1> DEFINE g == Recalc(f)
<1>7. g \in GeoExtents /\ g.sw = At(m, n) /\ g.ne = At(u, v) /\ g.is_valid /\ ~g.is_infinite
  <2>1. f.is_valid /\ ~f.is_infinite /\ f.sw.x <= f.ne.x /\ f.sw.y <= f.ne.y
    BY <1>3, <1>4, <1>5, <1>6
  <2>2. f \in GeoExtents /\ f.sw = At(m, n) /\ f.ne = At(u, v)
    BY <1>6
  <2> QED  BY ONLY <2>1, <2>2, RecalcParts
<1> HIDE DEF g
<1>8. g \in Boxes
  BY <1>3, <1>4, <1>7, BoxIs DEF IsBox
<1>9. Covers(g, e) /\ g.sw.x <= p.x /\ p.x <= g.ne.x /\ g.sw.y <= p.y /\ p.y <= g.ne.y
  BY <1>2, <1>4, <1>7 DEF Covers
<1> QED  BY <1>1, <1>8, <1>9 DEF g

\* The empty extent grows to a point.
LEMMA EmptyAndPoint ==
  ASSUME NEW p \in ValidPoints
  PROVE  LET g == ExpandToPoint(Empty, p) IN g \in Boxes /\ g.sw = p /\ g.ne = p
<1> DEFINE f == [Empty EXCEPT !.sw = p, !.ne = p]
           g == Recalc(f)
<1>0. p \in GeoPoints /\ p.x \in Int /\ p.y \in Int /\ p.ok
  BY ValidIs, PointParts
<1>1. ExpandToPoint(Empty, p) = g
  BY <1>0, EmptyIs DEF ExpandToPoint
<1>2. f \in GeoExtents /\ f.sw = p /\ f.ne = p /\ f.is_valid /\ ~f.is_infinite
  <2>1. Empty \in GeoExtents /\ Empty.is_valid /\ ~Empty.is_infinite
    BY EmptyIs
  <2>2. f \in GeoExtents /\ f.sw = p /\ f.ne = p /\ f.is_valid = Empty.is_valid /\ f.is_infinite = Empty.is_infinite
    BY ONLY <1>0, <2>1, SetCorners
  <2> QED  BY <2>1, <2>2
<1> HIDE DEF f
<1>3. g \in GeoExtents /\ g.sw = p /\ g.ne = p /\ g.is_valid /\ ~g.is_infinite
  <2>1. f.sw.x <= f.ne.x /\ f.sw.y <= f.ne.y
    BY <1>0, <1>2
  <2>2. f \in GeoExtents /\ f.is_valid /\ ~f.is_infinite
    BY <1>2
  <2>3. g \in GeoExtents /\ g.sw = f.sw /\ g.ne = f.ne /\ g.is_infinite = f.is_infinite /\ g.is_valid
    BY ONLY <2>1, <2>2, RecalcParts
  <2> QED  BY <1>2, <2>3
<1> HIDE DEF g
<1>4. g \in Boxes
  BY <1>0, <1>3, BoxIs DEF IsBox
<1> QED  BY <1>1, <1>3, <1>4

\* Two boxes together are a box that covers both.
LEMMA BoxesJoin ==
  ASSUME NEW e \in Boxes, NEW f \in Boxes
  PROVE  /\ ExpandToInclude(e, f) \in Boxes
         /\ Covers(ExpandToInclude(e, f), e) /\ Covers(ExpandToInclude(e, f), f)
<1> DEFINE g == ExpandToPoint(e, f.sw)
           h == ExpandToPoint(g, f.ne)
<1>1. ExpandToInclude(e, f) = h
  BY BoxFlags DEF ExpandToInclude
<1>2. g \in Boxes /\ Covers(g, e) /\ g.sw.x <= f.sw.x /\ g.sw.y <= f.sw.y
  BY BoxCorners, BoxAndPoint
<1> HIDE DEF g
<1>3. h \in Boxes /\ Covers(h, g) /\ f.ne.x <= h.ne.x /\ f.ne.y <= h.ne.y
  BY <1>2, BoxCorners, BoxAndPoint
<1> HIDE DEF h
<1>4. Covers(h, e) /\ Covers(h, f)
  BY <1>2, <1>3, BoxNumbers DEF Covers
<1> QED  BY <1>1, <1>3, <1>4

\* The empty extent grows to whatever it is to include.
LEMMA EmptyJoins ==
  ASSUME NEW f \in Boxes
  PROVE  ExpandToInclude(Empty, f) \in Boxes /\ Covers(ExpandToInclude(Empty, f), f)
<1> DEFINE g == ExpandToPoint(Empty, f.sw)
           h == ExpandToPoint(g, f.ne)
<1>1. ExpandToInclude(Empty, f) = h
  BY BoxFlags, EmptyIs DEF ExpandToInclude
<1>2. g \in Boxes /\ g.sw = f.sw
  BY BoxCorners, EmptyAndPoint
<1> HIDE DEF g
<1>3. h \in Boxes /\ Covers(h, g) /\ f.ne.x <= h.ne.x /\ f.ne.y <= h.ne.y
  BY <1>2, BoxCorners, BoxAndPoint
<1> HIDE DEF h
<1>4. Covers(h, f)
  BY <1>2, <1>3, BoxNumbers DEF Covers
<1> QED  BY <1>1, <1>3, <1>4

\* Covering is transitive.
LEMMA CoversOn ==
  ASSUME NEW e \in Boxes, NEW f \in Boxes, NEW g \in Boxes, Covers(e, f), Covers(f, g)
  PROVE  Covers(e, g)
BY BoxNumbers DEF Covers

\* The area is a number.
LEMMA AreaOfBox ==
  ASSUME NEW e \in Boxes
  PROVE  Area(e) \in Int
<1>1. Area(e) = (e.ne.x - e.sw.x) * (e.ne.y - e.sw.y)
  BY BoxFlags DEF Area
<1>2. e.ne.x - e.sw.x \in Int /\ e.ne.y - e.sw.y \in Int
  BY BoxNumbers
<1> QED  BY ONLY <1>1, <1>2

\* What a box grows by, when it is to include another, is a number.
LEMMA EnlargedIsNumber ==
  ASSUME NEW e \in Boxes, NEW f \in Boxes
  PROVE  Enlarged(e, f) \in Int
BY BoxesJoin, AreaOfBox DEF Enlarged

\* Whatever meets a box meets every one that holds it.
LEMMA MeetsCover ==
  ASSUME NEW e \in Boxes, NEW f \in Boxes, Covers(e, f), NEW q \in GeoExtents, ~q.is_infinite, Intersects(f, q)
  PROVE  Intersects(e, q)
<1>1. q.sw.x \in Int /\ q.sw.y \in Int /\ q.ne.x \in Int /\ q.ne.y \in Int
  BY ExtentNumbers
<1>2. ~IsEmpty(e) /\ ~IsEmpty(q)
  BY BoxFlags DEF Intersects
<1>3. q.sw.x <= f.ne.x /\ f.sw.x <= q.ne.x /\ q.sw.y <= f.ne.y /\ f.sw.y <= q.ne.y
  BY <1>1, BoxFlags DEF Intersects
<1>4. q.sw.x <= e.ne.x /\ e.sw.x <= q.ne.x /\ q.sw.y <= e.ne.y /\ e.sw.y <= q.ne.y
  BY <1>1, <1>3, BoxNumbers DEF Covers
<1> QED  BY <1>2, <1>4 DEF Intersects

-------------------------------------------------------------------------------
(* Sequences and folds.                                                     *)

\* The set of a sequence is its range, under both names.
LEMMA SetOfSeq == ASSUME NEW s PROVE ToSet(s) = Range(s)
BY DEF ToSet, Range

-------------------------------------------------------------------------------
(* Selected(s, T), element by element.                                       *)

\* What is chosen of the first i elements, and of all of them.
Chosen(s, T, f, i) == IF s[i] \in T THEN Append(f[i - 1], s[i]) ELSE f[i - 1]
Chooses(s, T, f) == f[0] = <<>> /\ \A i \in 1..Len(s) : f[i] = Chosen(s, T, f, i)
Selects(s, T, f) ==
  f = [i \in 0..Len(s) |->
         IF i = 0 THEN <<>> ELSE IF s[i] \in T THEN Append(f[i - 1], s[i]) ELSE f[i - 1]]

\* A function that selects is one that goes element by element.
LEMMA SelectsIsLoop ==
  ASSUME NEW s, NEW T, NEW f, Len(s) \in Nat
  PROVE  Selects(s, T, f) <=> f = [i \in 0..Len(s) |-> f[i]] /\ Chooses(s, T, f)
<1> DEFINE e(i) == IF i = 0 THEN <<>> ELSE Chosen(s, T, f, i)
<1>1. Selects(s, T, f) <=> f = [i \in 0..Len(s) |-> e(i)]
  BY DEF Selects, Chosen
<1>2. e(0) = <<>> /\ \A i \in 1..Len(s) : e(i) = Chosen(s, T, f, i)
  OBVIOUS
<1> HIDE DEF e
<1>3. 0..Len(s) = {0} \cup 1..Len(s) /\ 0 \in 0..Len(s)
  OBVIOUS
<1>4. ASSUME f = [i \in 0..Len(s) |-> e(i)] PROVE f = [i \in 0..Len(s) |-> f[i]] /\ Chooses(s, T, f)
  <2>1. \A i \in 0..Len(s) : f[i] = e(i)
    BY <1>4
  <2>2. \A i \in 1..Len(s) : f[i] = e(i)
    BY <1>3, <2>1
  <2>3. Chooses(s, T, f)
    BY <1>2, <1>3, <2>1, <2>2 DEF Chooses
  <2>4. f = [i \in 0..Len(s) |-> f[i]]
    BY <1>4, <2>1
  <2> QED  BY <2>3, <2>4
<1>5. ASSUME f = [i \in 0..Len(s) |-> f[i]], Chooses(s, T, f) PROVE f = [i \in 0..Len(s) |-> e(i)]
  <2>1. \A i \in 0..Len(s) : f[i] = e(i)
    BY <1>2, <1>3, <1>5 DEF Chooses
  <2> QED  BY <1>5, <2>1
<1> QED  BY <1>1, <1>4, <1>5

\* There is one.
LEMMA SelectsExists ==
  ASSUME NEW A, NEW s \in Seq(A), NEW T
  PROVE  \E f \in [0..Len(s) -> Seq(A)] : Selects(s, T, f)
<1> DEFINE N == Len(s)
           H == [p \in (1..N) \X Seq(A) |-> IF s[p[1]] \in T THEN Append(p[2], s[p[1]]) ELSE p[2]]
<1>1. N \in Nat /\ \A i \in 1..N : s[i] \in A
  OBVIOUS
<1>2. H \in [(1..N) \X Seq(A) -> Seq(A)]
  BY <1>1
<1>3. <<>> \in Seq(A)
  OBVIOUS
<1>4. PICK f : Computes(N, Seq(A), <<>>, H, f)
  <2> HIDE DEF H, N
  <2> QED  BY <1>1, <1>2, <1>3, LoopComputes
<1>5. f \in [0..N -> Seq(A)] /\ f[0] = <<>>
  BY <1>4 DEF Computes
<1>6. ASSUME NEW i \in 1..N
      PROVE  f[i] = Chosen(s, T, f, i)
  <2>1. f[i] = H[<<i, f[i - 1]>>]
    BY <1>4 DEF Computes
  <2>2. i - 1 \in 0..N
    BY <1>1
  <2>3. f[i - 1] \in Seq(A)
    BY <1>5, <2>2
  <2> QED  BY <2>1, <2>3 DEF Chosen
<1>7. Chooses(s, T, f)
  BY <1>5, <1>6 DEF Chooses
<1>8. f = [i \in 0..N |-> f[i]]
  BY <1>5
<1> HIDE DEF H
<1>9. Selects(s, T, f)
  BY <1>1, <1>7, <1>8, SelectsIsLoop
<1> QED  BY <1>5, <1>9

\* And only one, and it does not depend on what comes after.
LEMMA ChoosesOnce ==
  ASSUME NEW s, NEW t, NEW T, NEW f, NEW g, Len(s) \in Nat, Len(t) \in Nat, Len(s) <= Len(t),
         \A i \in 1..Len(s) : t[i] = s[i], Chooses(s, T, f), Chooses(t, T, g)
  PROVE  \A i \in 0..Len(s) : f[i] = g[i]
<1>1. f[0] = g[0]
  BY DEF Chooses
<1>2. ASSUME NEW i \in 1..Len(s), f[i - 1] = g[i - 1] PROVE f[i] = g[i]
  <2>1. i \in 1..Len(t) /\ t[i] = s[i]
    OBVIOUS
  <2>2. f[i] = Chosen(s, T, f, i) /\ g[i] = Chosen(t, T, g, i)
    BY <2>1 DEF Chooses
  <2> QED  BY <1>2, <2>1, <2>2 DEF Chosen
<1> DEFINE N == Len(s)
<1>3. N \in Nat /\ \A i \in 1..N : f[i - 1] = g[i - 1] => f[i] = g[i]
  BY <1>2
<1>4. \A i \in 0..N : f[i] = g[i]
  <2> HIDE DEF N
  <2> QED  BY ONLY <1>1, <1>3, LoopsAgree
<1> QED  BY <1>4

\* Selected is what the loop has chosen when it ends.
LEMMA SelectedLoop ==
  ASSUME NEW A, NEW s \in Seq(A), NEW T
  PROVE  \E f \in [0..Len(s) -> Seq(A)] : Chooses(s, T, f) /\ Selected(s, T) = f[Len(s)]
<1> DEFINE f == CHOOSE f : Selects(s, T, f)
<1>1. \E g : Selects(s, T, g)
  BY SelectsExists
<1>2. Selects(s, T, f)
  BY <1>1
<1>3. Selected(s, T) = f[Len(s)]
  BY DEF Selected, Selects
<1> HIDE DEF f
<1>4. PICK g \in [0..Len(s) -> Seq(A)] : Selects(s, T, g)
  BY SelectsExists
<1>5. Len(s) \in Nat
  OBVIOUS
<1>6. Chooses(s, T, f) /\ Chooses(s, T, g)
  BY <1>2, <1>4, <1>5, SelectsIsLoop
<1>7. \A i \in 0..Len(s) : f[i] = g[i]
  BY <1>5, <1>6, ChoosesOnce
<1>8. Selected(s, T) = g[Len(s)]
  BY <1>3, <1>5, <1>7
<1> QED  BY <1>6, <1>8

\* Of nothing, nothing is selected.
LEMMA SelectedEmpty == ASSUME NEW T PROVE Selected(<<>>, T) = <<>>
<1>1. <<>> \in Seq({}) /\ Len(<<>>) = 0
  OBVIOUS
<1>2. PICK f : Chooses(<<>>, T, f) /\ Selected(<<>>, T) = f[Len(<<>>)]
  BY <1>1, SelectedLoop
<1> QED  BY <1>1, <1>2 DEF Chooses

\* Of one element more, it is selected or it is not.
LEMMA SelectedAppend ==
  ASSUME NEW A, NEW s \in Seq(A), NEW a \in A, NEW T
  PROVE  Selected(Append(s, a), T) = IF a \in T THEN Append(Selected(s, T), a) ELSE Selected(s, T)
<1> DEFINE t == Append(s, a)
           N == Len(s)
<1>1. t \in Seq(A) /\ Len(t) = N + 1 /\ t[N + 1] = a /\ N \in Nat /\ \A i \in 1..N : t[i] = s[i]
  OBVIOUS
<1> HIDE DEF t
<1>2. PICK f : Chooses(s, T, f) /\ Selected(s, T) = f[N]
  BY SelectedLoop
<1>3. PICK g : Chooses(t, T, g) /\ Selected(t, T) = g[N + 1]
  BY <1>1, SelectedLoop
<1>4. f[N] = g[N]
  <2>1. Len(s) <= Len(t) /\ Len(t) \in Nat /\ N \in 0..N
    BY <1>1
  <2>2. \A i \in 0..Len(s) : f[i] = g[i]
    BY <1>1, <1>2, <1>3, <2>1, ChoosesOnce
  <2> QED  BY <2>1, <2>2
<1> HIDE DEF N
<1>5. g[N + 1] = Chosen(t, T, g, N + 1)
  BY <1>1, <1>3 DEF Chooses
<1>6. N + 1 - 1 = N
  BY <1>1
<1>7. g[N + 1] = IF a \in T THEN Append(g[N], a) ELSE g[N]
  BY <1>1, <1>5, <1>6 DEF Chosen
<1> QED  BY <1>2, <1>3, <1>4, <1>7 DEF t

\* A sequence without duplicates has none without its last element.
LEMMA InjectiveBefore ==
  ASSUME NEW A, NEW t \in Seq(A), NEW a \in A, IsInjective(Append(t, a))
  PROVE  IsInjective(t) /\ a \notin Range(t)
<1>1. /\ DOMAIN t = 1..Len(t) /\ Len(t) \in Nat /\ DOMAIN Append(t, a) = 1..(Len(t) + 1)
      /\ \A i \in 1..Len(t) : Append(t, a)[i] = t[i]
      /\ Append(t, a)[Len(t) + 1] = a
  OBVIOUS
<1>2. \A i, j \in 1..(Len(t) + 1) : Append(t, a)[i] = Append(t, a)[j] => i = j
  BY <1>1 DEF IsInjective
<1>3. \A i, j \in 1..Len(t) : t[i] = t[j] => i = j
  BY <1>1, <1>2
<1>4. \A i \in 1..Len(t) : t[i] # a
  BY <1>1, <1>2
<1> QED  BY <1>1, <1>3, <1>4 DEF IsInjective, Range

\* What is selected has the elements that are in T, in the order they had.
SelectedIs(s, A, T) ==
  /\ Selected(s, T) \in Seq(A)
  /\ Range(Selected(s, T)) = Range(s) \cap T
  /\ IsInjective(s) => IsInjective(Selected(s, T))

\* Selected gives the elements that are in the set, in order and once.
LEMMA SelectedElements ==
  ASSUME NEW A, NEW s \in Seq(A), NEW T
  PROVE  SelectedIs(s, A, T)
<1> DEFINE S == {t \in Seq(A) : SelectedIs(t, A, T)}
<1>1. <<>> \in S
  <2>1. Selected(<<>>, T) = <<>>
    BY SelectedEmpty
  <2>2. <<>> \in Seq(A)
    OBVIOUS
  <2>3. Range(<<>>) = Range(<<>>) \cap T
    BY EmptyQueue
  <2>4. SelectedIs(<<>>, A, T)
    BY <2>1, <2>2, <2>3, EmptyQueue, Zenon DEF SelectedIs
  <2> QED  BY <2>2, <2>4
<1>2. ASSUME NEW t \in Seq(A), NEW a \in A, t \in S
      PROVE  Append(t, a) \in S
  <2> DEFINE u == Selected(t, T)
             v == Append(t, a)
  <2>1. u \in Seq(A) /\ Range(u) = Range(t) \cap T /\ (IsInjective(t) => IsInjective(u))
    BY <1>2 DEF SelectedIs
  <2>2. v \in Seq(A) /\ Range(v) = Range(t) \cup {a}
    <3>1. t \in Seq(A) /\ a \in A
      OBVIOUS
    <3> QED  BY ONLY <3>1, AppendToQueue
  <2>3. IsInjective(v) => IsInjective(t) /\ a \notin Range(t)
    BY InjectiveBefore
  <2>4. Selected(v, T) = IF a \in T THEN Append(u, a) ELSE u
    BY SelectedAppend
  <2> HIDE DEF u, v
  <2>5. CASE a \in T
    <3>1. /\ Append(u, a) \in Seq(A) /\ Range(Append(u, a)) = Range(u) \cup {a}
          /\ IsInjective(u) /\ a \notin Range(u) => IsInjective(Append(u, a))
      BY <2>1, AppendToQueue
    <3>2. SelectedIs(v, A, T)
      BY <2>1, <2>2, <2>3, <2>4, <2>5, <3>1 DEF SelectedIs
    <3> QED  BY <2>2, <3>2 DEF v
  <2>6. CASE a \notin T
    <3>2. SelectedIs(v, A, T)
      BY <2>1, <2>2, <2>3, <2>4, <2>6 DEF SelectedIs
    <3> QED  BY <2>2, <3>2 DEF v
  <2> QED  BY <2>5, <2>6
<1>3. Seq(A) \subseteq S
  <2> HIDE DEF S
  <2> QED  BY <1>1, <1>2, AppendUp
<1> QED  BY <1>3

-------------------------------------------------------------------------------
(* Folds from the left: what the loops of the code make of a sequence.       *)

\* A function on the sets of numbers that takes them in order.
Folded(T, base, H, f) == IF T = {} THEN base ELSE H[<<Max(T), f[T \ {Max(T)}]>>]
Folds(N, V, base, H, f) ==
  /\ f \in [SUBSET (1..N) -> V]
  /\ \A T \in SUBSET (1..N) : f[T] = Folded(T, base, H, f)

\* The last of the first k numbers.
LEMMA MaxOfUpTo ==
  ASSUME NEW k \in Nat \ {0}
  PROVE  Max(1..k) = k /\ (1..k) \ {k} = 1..(k - 1)
<1>1. 1..k # {} /\ k \in 1..k
  OBVIOUS
<1>2. Max(1..k) \in 1..k /\ \A i \in 1..k : i <= Max(1..k)
  BY <1>1, GreatestElement
<1>3. Max(1..k) = k
  BY <1>1, <1>2
<1> QED  BY <1>3

\* The last of some of the first k numbers, if k is one of them.
LEMMA MaxIsLast ==
  ASSUME NEW k \in Nat, NEW T, T \subseteq 1..k, k \in T
  PROVE  Max(T) = k
<1>1. Max(T) \in T /\ \A i \in T : i <= Max(T)
  BY GreatestElement
<1>2. Max(T) \in 1..k /\ k <= Max(T)
  BY <1>1
<1> QED  BY <1>2

\* A fold over the first N numbers is defined.
LEMMA FoldExists ==
  ASSUME NEW N \in Nat, NEW V, NEW base \in V, NEW H \in [(1..N) \X V -> V]
  PROVE  \E f : Folds(N, V, base, H, f)
<1> DEFINE P == {m \in 0..N : \E f : Folds(m, V, base, H, f)}
<1>1. 0 \in P
  <2> DEFINE f == [T \in SUBSET (1..0) |-> base]
  <2>1. f \in [SUBSET (1..0) -> V] /\ \A T \in SUBSET (1..0) : T = {} /\ f[T] = base
    OBVIOUS
  <2> HIDE DEF f
  <2>2. Folds(0, V, base, H, f)
    BY <2>1 DEF Folds, Folded
  <2> QED  BY <2>2
<1>2. ASSUME NEW m \in 1..N, m - 1 \in P PROVE m \in P
  <2>1. PICK f : Folds(m - 1, V, base, H, f)
    BY <1>2
  <2>2. f \in [SUBSET (1..(m - 1)) -> V] /\ \A T \in SUBSET (1..(m - 1)) : f[T] = Folded(T, base, H, f)
    BY <2>1 DEF Folds
  <2> DEFINE g == [T \in SUBSET (1..m) |-> IF m \in T THEN H[<<m, f[T \ {m}]>>] ELSE f[T]]
  <2>3. ASSUME NEW T \in SUBSET (1..m)
        PROVE  T \ {m} \in SUBSET (1..(m - 1)) /\ (m \notin T => T \in SUBSET (1..(m - 1)))
    <3>1. \A i \in 1..m : i = m \/ i \in 1..(m - 1)
      OBVIOUS
    <3> QED  BY <3>1
  <2>4. g \in [SUBSET (1..m) -> V]
    <3>1. ASSUME NEW T \in SUBSET (1..m)
          PROVE  (m \in T => H[<<m, f[T \ {m}]>>] \in V) /\ (m \notin T => f[T] \in V)
      <4>1. <<m, f[T \ {m}]>> \in (1..N) \X V
        BY <2>2, <2>3
      <4>2. H[<<m, f[T \ {m}]>>] \in V
        BY <4>1
      <4>3. m \notin T => f[T] \in V
        BY <2>2, <2>3
      <4> QED  BY <4>2, <4>3
    <3> QED  BY <3>1
  <2>5. \A T \in SUBSET (1..m) : g[T] = IF m \in T THEN H[<<m, f[T \ {m}]>>] ELSE f[T]
    OBVIOUS
  <2> HIDE DEF g
  <2>6. ASSUME NEW T \in SUBSET (1..m) PROVE g[T] = Folded(T, base, H, g)
    <3>1. CASE m \in T
      <4>1. T \ {m} \in SUBSET (1..m) /\ m \notin T \ {m} /\ T # {}
        BY <3>1
      <4>2. g[T \ {m}] = f[T \ {m}]
        BY <4>1, <2>5
      <4>3. Max(T) = m
        <5>1. m \in Nat /\ T \subseteq 1..m
          OBVIOUS
        <5> QED  BY ONLY <3>1, <5>1, MaxIsLast
      <4> QED  BY <3>1, <4>1, <4>2, <4>3, <2>5 DEF Folded
    <3>2. CASE m \notin T
      <4>1. T \in SUBSET (1..(m - 1)) /\ g[T] = f[T] /\ f[T] = Folded(T, base, H, f)
        BY <3>2, <2>2, <2>3, <2>5
      <4>2. CASE T = {}
        BY <4>1, <4>2 DEF Folded
      <4>3. CASE T # {}
        <5>1. T \ {Max(T)} \in SUBSET (1..m) /\ m \notin T \ {Max(T)}
          BY <3>2
        <5>2. g[T \ {Max(T)}] = f[T \ {Max(T)}]
          BY <5>1, <2>5
        <5> QED  BY <4>1, <4>3, <5>2 DEF Folded
      <4> QED  BY <4>2, <4>3
    <3> QED  BY <3>1, <3>2
  <2>7. Folds(m, V, base, H, g)
    BY <2>4, <2>6 DEF Folds
  <2> QED  BY <2>7
<1>3. 0..N \subseteq P
  <2> HIDE DEF P
  <2> QED  BY <1>1, <1>2, CountUp
<1> QED  BY <1>3

\* Folding up to each index.
LEMMA FoldStages ==
  ASSUME NEW N \in Nat
  PROVE  /\ 1..0 = {} /\ 1..0 \in SUBSET (1..N) /\ 1..N \in SUBSET (1..N)
         /\ \A k \in 1..N : /\ 1..k \in SUBSET (1..N) /\ 1..(k - 1) \in SUBSET (1..N) /\ 1..k # {}
                            /\ Max(1..k) = k /\ (1..k) \ {k} = 1..(k - 1)
<1>1. 1..0 = {} /\ 1..0 \in SUBSET (1..N) /\ 1..N \in SUBSET (1..N)
  OBVIOUS
<1>2. ASSUME NEW k \in 1..N
      PROVE  1..k \in SUBSET (1..N) /\ 1..(k - 1) \in SUBSET (1..N) /\ 1..k # {} /\ k \in Nat \ {0}
  OBVIOUS
<1> QED  BY <1>1, <1>2, MaxOfUpTo

-------------------------------------------------------------------------------
(* The extent of a node's entries.                                          *)

\* What a node holds: extents, of nodes or of features.
EntryRecords == [extent : Boxes, ref : Nat]

\* An entry has its parts.
LEMMA EntryParts ==
  ASSUME NEW e \in EntryRecords
  PROVE  e.extent \in Boxes /\ e.ref \in Nat /\ e = Entry(e.extent, e.ref)
BY DEF EntryRecords, Entry

\* An entry is made of its parts.
LEMMA EntryIs ==
  ASSUME NEW x \in Boxes, NEW r \in Nat
  PROVE  Entry(x, r) \in EntryRecords /\ Entry(x, r).extent = x /\ Entry(x, r).ref = r
BY DEF EntryRecords, Entry

\* The entries of a sequence have their parts.
LEMMA EntriesIn ==
  ASSUME NEW s \in Seq(EntryRecords), NEW i \in 1..Len(s)
  PROVE  s[i] \in EntryRecords /\ s[i].extent \in Boxes /\ s[i].ref \in Nat
BY EntryParts

\* The loop of computeExtent().
Extending(s, f) ==
  f = [T \in SUBSET (DOMAIN s) |->
         IF T = {} THEN Empty ELSE ExpandToInclude(f[T \ {Max(T)}], s[Max(T)].extent)]

\* computeExtent() as the function that is chosen.
LEMMA ExtendingChosen ==
  ASSUME NEW s
  PROVE  ComputeExtent(s) = (CHOOSE f : Extending(s, f))[DOMAIN s]
BY DEF ComputeExtent, FoldLeft, MapThenFoldSet, Extending

\* The extent, entry by entry.
LEMMA ExtentGrows ==
  ASSUME NEW s \in Seq(EntryRecords)
  PROVE  \E g : /\ g[0] = Empty
                /\ \A k \in 1..Len(s) : g[k] = ExpandToInclude(g[k - 1], s[k].extent)
                /\ ComputeExtent(s) = g[Len(s)]
<1> DEFINE N == Len(s)
           V == Boxes \cup {Empty}
           H == [p \in (1..N) \X V |-> ExpandToInclude(p[2], s[p[1]].extent)]
<1>1. N \in Nat /\ DOMAIN s = 1..N
  OBVIOUS
<1>2. ASSUME NEW k \in 1..N, NEW v \in V PROVE ExpandToInclude(v, s[k].extent) \in V
  BY EntriesIn, BoxesJoin, EmptyJoins
<1>3. H \in [(1..N) \X V -> V]
  <2> HIDE DEF N, V
  <2> QED  BY <1>2
<1>4. \A k \in 1..N, v \in V : H[<<k, v>>] = ExpandToInclude(v, s[k].extent)
  OBVIOUS
<1>5. Empty \in V
  OBVIOUS
<1> HIDE DEF H, V, N
<1>6. PICK f : Folds(N, V, Empty, H, f)
  BY <1>1, <1>3, <1>5, FoldExists
<1>7. f \in [SUBSET (1..N) -> V] /\ \A T \in SUBSET (1..N) : f[T] = Folded(T, Empty, H, f)
  BY <1>6 DEF Folds
<1>8. ASSUME NEW T \in SUBSET (1..N)
      PROVE  f[T] = IF T = {} THEN Empty ELSE ExpandToInclude(f[T \ {Max(T)}], s[Max(T)].extent)
  <2>1. CASE T = {}
    BY <1>7, <2>1 DEF Folded
  <2>2. CASE T # {}
    <3>1. Max(T) \in T
      BY <1>1, <2>2, GreatestElement
    <3>2. Max(T) \in 1..N /\ f[T \ {Max(T)}] \in V
      BY <3>1, <1>7
    <3> QED  BY <1>7, <1>4, <2>2, <3>2 DEF Folded
  <2> QED  BY <2>1, <2>2
<1>9. Extending(s, f)
  BY <1>1, <1>7, <1>8 DEF Extending
<1> DEFINE c == CHOOSE h : Extending(s, h)
<1>10. Extending(s, c)
  BY <1>9
<1>11. ComputeExtent(s) = c[1..N]
  BY <1>1, ExtendingChosen
<1>12. \A T \in SUBSET (1..N) :
          c[T] = IF T = {} THEN Empty ELSE ExpandToInclude(c[T \ {Max(T)}], s[Max(T)].extent)
  <2> HIDE DEF c
  <2> QED  BY <1>1, <1>10 DEF Extending
<1> HIDE DEF c
<1> DEFINE g == [k \in 0..N |-> c[1..k]]
<1>13. g[0] = Empty
  <2>1. 1..0 \in SUBSET (1..N) /\ 1..0 = {} /\ 0 \in 0..N
    BY <1>1, FoldStages
  <2>2. c[1..0] = Empty
    BY <1>12, <2>1
  <2> QED  BY <2>1, <2>2
<1>14. ASSUME NEW k \in 1..N PROVE g[k] = ExpandToInclude(g[k - 1], s[k].extent)
  <2>1. 1..k \in SUBSET (1..N) /\ 1..k # {} /\ Max(1..k) = k /\ (1..k) \ {k} = 1..(k - 1)
    BY <1>1, FoldStages
  <2>2. c[1..k] = ExpandToInclude(c[1..(k - 1)], s[k].extent)
    BY <1>12, <2>1
  <2>3. k - 1 \in 0..N /\ k \in 0..N
    BY <1>1
  <2> QED  BY <2>2, <2>3
<1>15. g[N] = c[1..N]
  BY <1>1
<1> HIDE DEF g
<1> QED  BY <1>11, <1>13, <1>14, <1>15 DEF N

\* The extent of entries covers them all.
LEMMA ExtentCovers ==
  ASSUME NEW s \in Seq(EntryRecords)
  PROVE  /\ s = <<>> => ComputeExtent(s) = Empty
         /\ s # <<>> => ComputeExtent(s) \in Boxes
         /\ \A i \in 1..Len(s) : Covers(ComputeExtent(s), s[i].extent)
<1> DEFINE N == Len(s)
<1>1. N \in Nat /\ (s = <<>> <=> N = 0)
  OBVIOUS
<1>2. PICK g : /\ g[0] = Empty
               /\ \A k \in 1..N : g[k] = ExpandToInclude(g[k - 1], s[k].extent)
               /\ ComputeExtent(s) = g[N]
  BY ExtentGrows
<1>3. \A i \in 1..N : s[i].extent \in Boxes
  BY EntriesIn
<1> HIDE DEF N
<1> DEFINE P == {k \in 0..N : k = 0 \/ (g[k] \in Boxes /\ \A i \in 1..k : Covers(g[k], s[i].extent))}
<1>4. 0 \in P
  BY <1>1
<1>5. ASSUME NEW k \in 1..N, k - 1 \in P PROVE k \in P
  <2> DEFINE x == s[k].extent
  <2>0. x \in Boxes /\ g[k] = ExpandToInclude(g[k - 1], x)
    BY <1>2, <1>3
  <2>1. CASE k = 1
    <3>1. g[k - 1] = Empty
      BY <1>2, <2>1
    <3>2. g[k] \in Boxes /\ Covers(g[k], x)
      BY <2>0, <3>1, EmptyJoins
    <3>3. \A i \in 1..k : i = k
      BY <2>1
    <3> QED  BY <1>1, <3>2, <3>3
  <2>2. CASE k # 1
    <3>1. g[k - 1] \in Boxes /\ \A i \in 1..(k - 1) : Covers(g[k - 1], s[i].extent)
      BY <1>5, <2>2
    <3>2. g[k] \in Boxes /\ Covers(g[k], g[k - 1]) /\ Covers(g[k], x)
      BY <2>0, <3>1, BoxesJoin
    <3>3. ASSUME NEW i \in 1..k PROVE Covers(g[k], s[i].extent)
      <4>1. CASE i = k
        BY <3>2, <4>1
      <4>2. CASE i # k
        <5>1. i \in 1..(k - 1) /\ i \in 1..N
          BY <1>1, <4>2
        <5> QED  BY <1>3, <3>1, <3>2, <5>1, CoversOn
      <4> QED  BY <4>1, <4>2
    <3> QED  BY <1>1, <3>2, <3>3
  <2> QED  BY <2>1, <2>2
<1>6. 0..N \subseteq P
  <2> HIDE DEF P
  <2> QED  BY <1>1, <1>4, <1>5, CountUp
<1>7. N \in P
  BY <1>1, <1>6
<1>8. N # 0 => g[N] \in Boxes /\ \A i \in 1..N : Covers(g[N], s[i].extent)
  BY <1>7
<1>9. N = 0 => g[N] = Empty
  BY <1>2
<1>10. CASE N = 0
  <2>1. \A i \in 1..N : FALSE
    BY <1>10
  <2> QED  BY <1>1, <1>2, <1>9, <1>10, <2>1 DEF N
<1>11. CASE N # 0
  BY <1>1, <1>2, <1>8, <1>11 DEF N
<1> QED  BY <1>10, <1>11

-------------------------------------------------------------------------------
(* splitNodeQ(): the seeds.                                                 *)

(* The greatest of some numbers, the first of equals.                        *)

\* Who comes first among the greatest.
FirstGreatest(T, w, m) == m \in T /\ \A j \in T : w[m] > w[j] \/ (w[m] = w[j] /\ m <= j)

\* Of finitely many, one is the first of the greatest.
LEMMA GreatestFirst ==
  ASSUME NEW N \in Nat, NEW T, T \subseteq 1..N, T # {}, NEW w \in [1..N -> Int]
  PROVE  \E m : FirstGreatest(T, w, m)
<1> DEFINE U(k) == T \cap (1..k)
           P == {k \in 0..N : U(k) # {} => \E m : FirstGreatest(U(k), w, m)}
<1>1. 0 \in P
  OBVIOUS
<1>2. ASSUME NEW k \in 1..N, k - 1 \in P PROVE k \in P
  <2>1. \A i \in 1..k : i = k \/ i \in 1..(k - 1)
    OBVIOUS
  <2>2. \A i \in 1..N : w[i] \in Int
    OBVIOUS
  <2>3. CASE k \notin T
    <3>1. U(k) = U(k - 1)
      BY <2>1, <2>3
    <3> HIDE DEF U
    <3>2. U(k) # {} => \E m : FirstGreatest(U(k), w, m)
      BY <1>2, <3>1
    <3> QED  BY <3>2
  <2>4. CASE k \in T /\ U(k - 1) = {}
    <3>1. U(k) = {k}
      BY <2>1, <2>4
    <3>2. FirstGreatest({k}, w, k)
      BY DEF FirstGreatest
    <3> QED  BY <3>1, <3>2
  <2>5. CASE k \in T /\ U(k - 1) # {}
    <3>1. PICK m : FirstGreatest(U(k - 1), w, m)
      BY <1>2, <2>5
    <3>2. m \in T /\ m \in 1..(k - 1) /\ m \in 1..N
      BY <3>1 DEF FirstGreatest
    <3>3. CASE w[k] > w[m]
      <4>1. ASSUME NEW j \in U(k) PROVE w[k] > w[j] \/ (w[k] = w[j] /\ k <= j)
        <5>1. CASE j = k
          BY <5>1, <2>2
        <5>2. CASE j # k
          <6>1. j \in U(k - 1) /\ j \in 1..N
            BY <2>1, <5>2
          <6>2. w[m] >= w[j]
            BY <3>1, <3>2, <6>1, <2>2 DEF FirstGreatest
          <6> QED  BY <3>2, <3>3, <6>1, <6>2, <2>2
        <5> QED  BY <5>1, <5>2
      <4>2. FirstGreatest(U(k), w, k)
        BY <4>1, <2>5 DEF FirstGreatest
      <4> QED  BY <4>2
    <3>4. CASE ~(w[k] > w[m])
      <4>1. ASSUME NEW j \in U(k) PROVE w[m] > w[j] \/ (w[m] = w[j] /\ m <= j)
        <5>1. CASE j = k
          BY <3>2, <3>4, <5>1, <2>2
        <5>2. CASE j # k
          <6>1. j \in U(k - 1)
            BY <2>1, <5>2
          <6> QED  BY <3>1, <6>1 DEF FirstGreatest
        <5> QED  BY <5>1, <5>2
      <4>2. m \in U(k)
        BY <3>2
      <4>3. FirstGreatest(U(k), w, m)
        BY <4>1, <4>2 DEF FirstGreatest
      <4> QED  BY <4>3
    <3> QED  BY <3>3, <3>4
  <2> QED  BY <2>3, <2>4, <2>5
<1>3. 0..N \subseteq P
  <2> HIDE DEF P
  <2> QED  BY <1>1, <1>2, CountUp
<1>4. U(N) = T
  OBVIOUS
<1>4a. N \in 0..N
  OBVIOUS
<1>5. N \in P
  BY <1>3, <1>4a
<1> HIDE DEF U
<1>6. U(N) # {} => \E m : FirstGreatest(U(N), w, m)
  BY <1>5
<1> QED  BY <1>4, <1>6, Zenon

\* The best entry is one of them.
LEMMA BestEntryIs ==
  ASSUME NEW s \in Seq(EntryRecords), s # <<>>, NEW x \in Boxes
  PROVE  BestEntry(s, x) \in 1..Len(s)
<1> DEFINE N == Len(s)
           w == [i \in 1..N |-> -Enlarged(s[i].extent, x)]
           a(i) == Enlarged(s[i].extent, x)
<1>1. N \in Nat /\ DOMAIN s = 1..N /\ 1..N # {}
  OBVIOUS
<1>2. ASSUME NEW i \in 1..N PROVE a(i) \in Int
  BY EntriesIn, EnlargedIsNumber
<1>3. w \in [1..N -> Int] /\ \A i \in 1..N : w[i] = -a(i)
  BY <1>2
<1> HIDE DEF N, w
<1>4. PICK m : FirstGreatest(1..N, w, m)
  BY <1>1, <1>3, GreatestFirst
<1>5. ASSUME NEW j \in 1..N PROVE a(m) < a(j) \/ (a(m) = a(j) /\ m <= j)
  <2>1. m \in 1..N /\ (w[m] > w[j] \/ (w[m] = w[j] /\ m <= j))
    BY <1>4 DEF FirstGreatest
  <2>2. w[m] = -a(m) /\ w[j] = -a(j) /\ a(m) \in Int /\ a(j) \in Int
    BY <1>2, <1>3, <2>1
  <2> HIDE DEF a
  <2> QED  BY <2>1, <2>2
<1>6. m \in DOMAIN s
  BY <1>1, <1>4 DEF FirstGreatest
<1>7. \E i \in DOMAIN s : \A j \in DOMAIN s : a(i) < a(j) \/ (a(i) = a(j) /\ i <= j)
  BY <1>1, <1>5, <1>6
<1>8. BestEntry(s, x) = CHOOSE i \in DOMAIN s : \A j \in DOMAIN s : a(i) < a(j) \/ (a(i) = a(j) /\ i <= j)
  BY DEF BestEntry
<1> HIDE DEF a
<1> QED  BY <1>1, <1>7, <1>8 DEF N

-------------------------------------------------------------------------------
(* The seeds of a split are two of the entries.                              *)

\* What pickSeedsQ() compares: the area two entries would waste in one node.
SeedWaste(s, p) == Enlarged(s[p[1]].extent, s[p[2]].extent) - Area(s[p[1]].extent) - Area(s[p[2]].extent)
Pairs(s) == {p \in (DOMAIN s) \X (DOMAIN s) : p[1] < p[2]}
SeedPairs(s) == {p \in Pairs(s) : SeedWaste(s, p) > -ONE * ONE}
FirstPair(p, q) == p[1] < q[1] \/ (p[1] = q[1] /\ p[2] <= q[2])
BetterPair(s, p, q) == SeedWaste(s, p) > SeedWaste(s, q) \/ (SeedWaste(s, p) = SeedWaste(s, q) /\ FirstPair(p, q))

\* pickSeedsQ() takes the pair that wastes most, or the first two entries.
LEMMA PickSeedsIs ==
  ASSUME NEW s
  PROVE  PickSeeds(s) = IF SeedPairs(s) = {} THEN <<1, 2>>
                        ELSE CHOOSE p \in SeedPairs(s) : \A q \in SeedPairs(s) : BetterPair(s, p, q)
BY DEF PickSeeds, SeedPairs, Pairs, SeedWaste, BetterPair, FirstPair

\* What a pair wastes is a number.
LEMMA WasteIsNumber ==
  ASSUME NEW s \in Seq(EntryRecords), NEW i \in 1..Len(s), NEW j \in 1..Len(s)
  PROVE  SeedWaste(s, <<i, j>>) \in Int
<1>1. s[i].extent \in Boxes /\ s[j].extent \in Boxes
  BY EntriesIn
<1>2. Enlarged(s[i].extent, s[j].extent) \in Int /\ Area(s[i].extent) \in Int /\ Area(s[j].extent) \in Int
  BY <1>1, EnlargedIsNumber, AreaOfBox
<1>3. SeedWaste(s, <<i, j>>) = Enlarged(s[i].extent, s[j].extent) - Area(s[i].extent) - Area(s[j].extent)
  BY DEF SeedWaste
<1> QED  BY ONLY <1>2, <1>3

\* One pair is the first that wastes most.
LEMMA BestPair ==
  ASSUME NEW s \in Seq(EntryRecords), SeedPairs(s) # {}
  PROVE  \E p \in SeedPairs(s) : \A q \in SeedPairs(s) : BetterPair(s, p, q)
<1> DEFINE N == Len(s)
           W(i, j) == SeedWaste(s, <<i, j>>)
           S == SeedPairs(s)
           J(i) == {j \in 1..N : <<i, j>> \in S}
           I == {i \in 1..N : J(i) # {}}
           row(i) == [j \in 1..N |-> W(i, j)]
           best(i) == CHOOSE j : FirstGreatest(J(i), row(i), j)
           w == [i \in 1..N |-> W(i, IF i \in I THEN best(i) ELSE 1)]
<1>1. N \in Nat /\ DOMAIN s = 1..N
  OBVIOUS
<1>2. \A i, j \in 1..N : W(i, j) \in Int
  BY WasteIsNumber
<1>3. \A p \in S : p = <<p[1], p[2]>> /\ p[1] \in 1..N /\ p[2] \in 1..N
  BY <1>1 DEF SeedPairs, Pairs
<1> HIDE DEF N, S, W
<1>4. ASSUME NEW i \in I
      PROVE  /\ best(i) \in 1..N /\ <<i, best(i)>> \in S
             /\ \A j \in 1..N : <<i, j>> \in S => W(i, best(i)) > W(i, j) \/ (W(i, best(i)) = W(i, j) /\ best(i) <= j)
  <2>1. J(i) \subseteq 1..N /\ J(i) # {} /\ row(i) \in [1..N -> Int]
    BY <1>2
  <2>2. \A j \in 1..N : row(i)[j] = W(i, j)
    OBVIOUS
  <2> HIDE DEF J, row
  <2>3. \E j : FirstGreatest(J(i), row(i), j)
    BY <1>1, <2>1, GreatestFirst
  <2>4. FirstGreatest(J(i), row(i), best(i))
    BY <2>3
  <2> HIDE DEF best
  <2>5. best(i) \in J(i) /\ \A j \in J(i) : row(i)[best(i)] > row(i)[j] \/ (row(i)[best(i)] = row(i)[j] /\ best(i) <= j)
    BY <2>4 DEF FirstGreatest
  <2> QED  BY <2>1, <2>2, <2>5 DEF J
<1>5. I \subseteq 1..N /\ \A p \in S : p[1] \in I
  BY <1>3
<1>6. I # {}
  BY <1>5 DEF S
<1> HIDE DEF I, best
<1>7. w \in [1..N -> Int] /\ \A i \in I : w[i] = W(i, best(i))
  <2>1. ASSUME NEW i \in 1..N PROVE W(i, IF i \in I THEN best(i) ELSE 1) \in Int
    <3> DEFINE j == IF i \in I THEN best(i) ELSE 1
    <3>1. j \in 1..N
      <4>1. 1 \in 1..N
        BY <1>1
      <4>2. i \in I => best(i) \in 1..N
        BY <1>4
      <4> QED  BY <4>1, <4>2
    <3> HIDE DEF j
    <3>2. W(i, j) \in Int
      BY <1>2, <3>1
    <3> QED  BY <3>2 DEF j
  <2> QED  BY <1>5, <2>1
<1> HIDE DEF w
<1>8. PICK m : FirstGreatest(I, w, m)
  BY <1>1, <1>5, <1>6, <1>7, GreatestFirst
<1>9. m \in I /\ m \in 1..N /\ <<m, best(m)>> \in S
  BY <1>4, <1>5, <1>8 DEF FirstGreatest
<1>10. ASSUME NEW q \in S PROVE BetterPair(s, <<m, best(m)>>, q)
  <2> DEFINE a == q[1]
             b == q[2]
  <2>1. q = <<a, b>> /\ a \in 1..N /\ b \in 1..N /\ a \in I
    BY <1>3, <1>5
  <2> HIDE DEF a, b
  <2>2. W(a, best(a)) > W(a, b) \/ (W(a, best(a)) = W(a, b) /\ best(a) <= b)
    BY <1>4, <2>1
  <2>3. w[m] > w[a] \/ (w[m] = w[a] /\ m <= a)
    BY <1>8, <2>1 DEF FirstGreatest
  <2>4. W(m, best(m)) > W(a, best(a)) \/ (W(m, best(m)) = W(a, best(a)) /\ m <= a)
    BY <1>7, <1>9, <2>1, <2>3
  <2>5. W(m, best(m)) \in Int /\ W(a, best(a)) \in Int /\ W(a, b) \in Int /\ m \in Int /\ a \in Int /\ best(a) \in Int /\ b \in Int
    <3>1. best(m) \in 1..N /\ best(a) \in 1..N
      BY <1>4, <1>9, <2>1
    <3> HIDE DEF best
    <3>2. W(m, best(m)) \in Int /\ W(a, best(a)) \in Int /\ W(a, b) \in Int
      BY <1>2, <1>9, <2>1, <3>1
    <3> QED  BY <1>9, <2>1, <3>1, <3>2
  <2>6. W(m, best(m)) > W(a, b) \/ (W(m, best(m)) = W(a, b) /\ (m < a \/ (m = a /\ best(m) <= b)))
    <3>1. CASE m = a
      BY <2>2, <3>1
    <3>2. CASE m # a
      BY <2>2, <2>4, <2>5, <3>2
    <3> QED  BY <3>1, <3>2
  <2>7. /\ BetterPair(s, <<m, best(m)>>, <<a, b>>) <=>
             W(m, best(m)) > W(a, b) \/ (W(m, best(m)) = W(a, b) /\ (m < a \/ (m = a /\ best(m) <= b)))
    BY DEF BetterPair, FirstPair, W
  <2> QED  BY <2>1, <2>6, <2>7
<1> QED  BY <1>9, <1>10 DEF S

\* The seeds are two entries, in the order they stand in.
LEMMA SeedsAre ==
  ASSUME NEW s \in Seq(EntryRecords), Len(s) >= 2
  PROVE  \E i, j \in 1..Len(s) : i < j /\ PickSeeds(s) = <<i, j>>
<1>1. CASE SeedPairs(s) = {}
  <2>1. PickSeeds(s) = <<1, 2>> /\ 1 \in 1..Len(s) /\ 2 \in 1..Len(s)
    BY <1>1, PickSeedsIs
  <2> QED  BY <2>1
<1>2. CASE SeedPairs(s) # {}
  <2> DEFINE p == CHOOSE p \in SeedPairs(s) : \A q \in SeedPairs(s) : BetterPair(s, p, q)
  <2>1. PickSeeds(s) = p
    BY <1>2, PickSeedsIs
  <2>2. p \in SeedPairs(s)
    BY <1>2, BestPair
  <2> HIDE DEF p
  <2>3. p = <<p[1], p[2]>> /\ p[1] \in DOMAIN s /\ p[2] \in DOMAIN s /\ p[1] < p[2]
    BY <2>2 DEF SeedPairs, Pairs
  <2>4. DOMAIN s = 1..Len(s)
    OBVIOUS
  <2> QED  BY <2>1, <2>3, <2>4
<1> QED  BY <1>1, <1>2

-------------------------------------------------------------------------------
(* splitNodeQ(): the groups.                                                *)

(* The groups of a split: no entry is lost, and none is in both.             *)

\* Two groups of entries.
Groups == Seq(EntryRecords) \X Seq(EntryRecords)
Placed(s, seeds, groups, i) == IF i \in {seeds[1], seeds[2]} THEN groups ELSE Put(groups, s[i])
FirstGroups(s, seeds) == <<<<s[seeds[1]]>>, <<s[seeds[2]]>>>>
Distributing(s, seeds, f) ==
  f = [T \in SUBSET (DOMAIN [i \in DOMAIN s |-> i]) |->
         IF T = {} THEN FirstGroups(s, seeds)
         ELSE Placed(s, seeds, f[T \ {Max(T)}], [i \in DOMAIN s |-> i][Max(T)])]

\* The loop of splitNodeQ(), as the function that is chosen.
LEMMA DistributeChosen ==
  ASSUME NEW s, NEW seeds
  PROVE  Distribute(s, seeds) = (CHOOSE f : Distributing(s, seeds, f))[DOMAIN [i \in DOMAIN s |-> i]]
BY DEF Distribute, FoldLeft, MapThenFoldSet, Distributing, Placed, FirstGroups

\* An entry goes to one of the groups.
LEMMA PutIs ==
  ASSUME NEW g \in Groups, NEW e \in EntryRecords
  PROVE  Put(g, e) \in {<<Append(g[1], e), g[2]>>, <<g[1], Append(g[2], e)>>}
BY DEF Put

\* Which are groups still.
LEMMA PutInGroups ==
  ASSUME NEW g \in Groups, NEW e \in EntryRecords
  PROVE  Put(g, e) \in Groups
<1>1. g[1] \in Seq(EntryRecords) /\ g[2] \in Seq(EntryRecords)
  BY DEF Groups
<1>2. Append(g[1], e) \in Seq(EntryRecords) /\ Append(g[2], e) \in Seq(EntryRecords)
  BY <1>1, AppendToQueue
<1>3. <<Append(g[1], e), g[2]>> \in Groups /\ <<g[1], Append(g[2], e)>> \in Groups
  BY <1>1, <1>2 DEF Groups
<1> QED  BY <1>3, PutIs

\* The groups, entry by entry.
LEMMA DistributesStepwise ==
  ASSUME NEW s \in Seq(EntryRecords), NEW a \in 1..Len(s), NEW b \in 1..Len(s)
  PROVE  \E g : /\ g[0] = FirstGroups(s, <<a, b>>)
                /\ \A k \in 1..Len(s) : g[k] = Placed(s, <<a, b>>, g[k - 1], k)
                /\ Distribute(s, <<a, b>>) = g[Len(s)]
<1> DEFINE N == Len(s)
           B == FirstGroups(s, <<a, b>>)
           X(v, k) == Placed(s, <<a, b>>, v, k)
           H == [p \in (1..N) \X Groups |-> X(p[2], p[1])]
           ident == [i \in DOMAIN s |-> i]
<1>1. N \in Nat /\ DOMAIN s = 1..N
  OBVIOUS
<1>2. DOMAIN ident = 1..N /\ \A i \in 1..N : ident[i] = i
  BY <1>1
<1>3. ASSUME NEW k \in 1..N, NEW v \in Groups PROVE X(v, k) \in Groups
  <2>1. s[k] \in EntryRecords
    BY EntriesIn
  <2> QED  BY <2>1, PutInGroups DEF Placed
<1>4. B \in Groups
  <2>1. s[a] \in EntryRecords /\ s[b] \in EntryRecords
    BY EntriesIn
  <2>2. <<s[a]>> \in Seq(EntryRecords) /\ <<s[b]>> \in Seq(EntryRecords)
    BY <2>1
  <2> QED  BY <2>2 DEF FirstGroups, Groups
<1> HIDE DEF N, B, X
<1>5. H \in [(1..N) \X Groups -> Groups] /\ \A k \in 1..N, v \in Groups : H[<<k, v>>] = X(v, k)
  BY <1>3
<1> HIDE DEF H
<1>6. PICK f : Folds(N, Groups, B, H, f)
  BY <1>1, <1>4, <1>5, FoldExists
<1>7. f \in [SUBSET (1..N) -> Groups] /\ \A T \in SUBSET (1..N) : f[T] = Folded(T, B, H, f)
  BY <1>6 DEF Folds
<1>8. ASSUME NEW T \in SUBSET (1..N)
      PROVE  f[T] = IF T = {} THEN B ELSE X(f[T \ {Max(T)}], ident[Max(T)])
  <2>1. CASE T = {}
    BY <1>7, <2>1 DEF Folded
  <2>2. CASE T # {}
    <3>1. Max(T) \in T
      BY <1>1, <2>2, GreatestElement
    <3>2. Max(T) \in 1..N /\ f[T \ {Max(T)}] \in Groups /\ ident[Max(T)] = Max(T)
      BY <3>1, <1>2, <1>7
    <3> HIDE DEF ident
    <3> QED  BY <1>7, <1>5, <2>2, <3>2 DEF Folded
  <2> QED  BY <2>1, <2>2
<1>9. Distributing(s, <<a, b>>, f)
  <2>1. f = [T \in SUBSET (1..N) |-> IF T = {} THEN B ELSE X(f[T \ {Max(T)}], ident[Max(T)])]
    <3> HIDE DEF ident
    <3> QED  BY <1>7, <1>8
  <2> QED  BY <1>2, <2>1 DEF Distributing, B, X
<1> DEFINE c == CHOOSE h : Distributing(s, <<a, b>>, h)
<1>10. Distributing(s, <<a, b>>, c)
  BY <1>9
<1>11. Distribute(s, <<a, b>>) = c[1..N]
  BY <1>2, DistributeChosen
<1> HIDE DEF c
<1>12. c = [T \in SUBSET (1..N) |-> IF T = {} THEN B ELSE X(c[T \ {Max(T)}], ident[Max(T)])]
  BY <1>2, <1>10 DEF Distributing, B, X
<1>13. \A T \in SUBSET (1..N) : c[T] = IF T = {} THEN B ELSE X(c[T \ {Max(T)}], ident[Max(T)])
  <2> HIDE DEF ident
  <2> QED  BY <1>12
<1> HIDE DEF ident
<1> DEFINE g == [k \in 0..N |-> c[1..k]]
<1>14. g[0] = B
  <2>1. 1..0 \in SUBSET (1..N) /\ 1..0 = {} /\ 0 \in 0..N
    BY <1>1, FoldStages
  <2>2. c[1..0] = B
    BY <1>13, <2>1
  <2> QED  BY <2>1, <2>2
<1>15. ASSUME NEW k \in 1..N PROVE g[k] = X(g[k - 1], k)
  <2>1. 1..k \in SUBSET (1..N) /\ 1..k # {} /\ Max(1..k) = k /\ (1..k) \ {k} = 1..(k - 1)
    BY <1>1, FoldStages
  <2>2. c[1..k] = X(c[1..(k - 1)], k)
    BY <1>2, <1>13, <2>1
  <2>3. k - 1 \in 0..N /\ k \in 0..N
    BY <1>1
  <2> QED  BY <2>2, <2>3
<1>16. g[N] = c[1..N]
  BY <1>1
<1> HIDE DEF g
<1> QED  BY <1>11, <1>14, <1>15, <1>16 DEF N, B, X

\* Two groups that have no entry in common.
IsSplit(s, g) ==
  /\ g \in Groups
  /\ g[1] # <<>> /\ g[2] # <<>>
  /\ IsInjective(g[1]) /\ IsInjective(g[2])
  /\ Range(g[1]) \cap Range(g[2]) = {}
  /\ Range(g[1]) \cup Range(g[2]) = s

\* An entry that is in neither group is in one of them afterwards.
LEMMA PutSplits ==
  ASSUME NEW R, NEW g, IsSplit(R, g), NEW e \in EntryRecords, e \notin R
  PROVE  IsSplit(R \cup {e}, Put(g, e))
<1> DEFINE g1 == g[1]
           g2 == g[2]
<1>1. /\ g \in Groups /\ g1 \in Seq(EntryRecords) /\ g2 \in Seq(EntryRecords) /\ g1 # <<>> /\ g2 # <<>>
      /\ IsInjective(g1) /\ IsInjective(g2) /\ Range(g1) \cap Range(g2) = {} /\ Range(g1) \cup Range(g2) = R
  BY DEF IsSplit, Groups
<1>2. e \notin Range(g1) /\ e \notin Range(g2)
  BY <1>1
<1> HIDE DEF g1, g2
<1>3. /\ Append(g1, e) \in Seq(EntryRecords) /\ Range(Append(g1, e)) = Range(g1) \cup {e}
      /\ IsInjective(Append(g1, e))
  BY <1>1, <1>2, AppendToQueue
<1>4. /\ Append(g2, e) \in Seq(EntryRecords) /\ Range(Append(g2, e)) = Range(g2) \cup {e}
      /\ IsInjective(Append(g2, e))
  BY <1>1, <1>2, AppendToQueue
<1>5. Append(g1, e) # <<>> /\ Append(g2, e) # <<>>
  BY <1>1
<1>6. IsSplit(R \cup {e}, <<Append(g1, e), g2>>)
  BY <1>1, <1>2, <1>3, <1>5 DEF IsSplit, Groups
<1>7. IsSplit(R \cup {e}, <<g1, Append(g2, e)>>)
  BY <1>1, <1>2, <1>4, <1>5 DEF IsSplit, Groups
<1> QED  BY <1>1, <1>6, <1>7, PutIs DEF g1, g2

\* A group of one entry.
LEMMA OneEntry ==
  ASSUME NEW e \in EntryRecords
  PROVE  <<e>> \in Seq(EntryRecords) /\ <<e>> # <<>> /\ IsInjective(<<e>>) /\ Range(<<e>>) = {e}
<1>1. <<e>> \in Seq(EntryRecords) /\ Len(<<e>>) = 1 /\ DOMAIN <<e>> = {1} /\ <<e>>[1] = e
  OBVIOUS
<1> QED  BY <1>1 DEF IsInjective, Range

\* A split of the same entries.
LEMMA SplitSame ==
  ASSUME NEW R, NEW S, NEW g, IsSplit(R, g), \A e : e \in R <=> e \in S
  PROVE  IsSplit(S, g)
<1>1. R = S
  OBVIOUS
<1> QED  BY ONLY IsSplit(R, g), <1>1, Zenon

\* Every entry but the seeds, which are there, goes to one group.
LEMMA DistributeSplits ==
  ASSUME NEW s \in Seq(EntryRecords), IsInjective(s), NEW a \in 1..Len(s), NEW b \in 1..Len(s), a # b
  PROVE  IsSplit(Range(s), Distribute(s, <<a, b>>))
<1> DEFINE N == Len(s)
           R(k) == {s[i] : i \in (1..k) \cup {a, b}}
<1>1. N \in Nat /\ DOMAIN s = 1..N /\ a \in 1..N /\ b \in 1..N
  OBVIOUS
<1>2. \A i \in 1..N : s[i] \in EntryRecords
  BY EntriesIn
<1>3. \A i, j \in 1..N : s[i] = s[j] => i = j
  BY <1>1 DEF IsInjective
<1>4. PICK g : /\ g[0] = FirstGroups(s, <<a, b>>)
               /\ \A k \in 1..N : g[k] = Placed(s, <<a, b>>, g[k - 1], k)
               /\ Distribute(s, <<a, b>>) = g[N]
  BY DistributesStepwise
<1>5. \A x : x \in Range(s) <=> x \in R(N)
  <2>1. \A i : i \in (1..N) \cup {a, b} <=> i \in 1..N
    BY <1>1
  <2>2. \A x : x \in Range(s) <=> \E i \in 1..N : x = s[i]
    BY <1>1 DEF Range
  <2>3. \A x : x \in R(N) <=> \E i \in (1..N) \cup {a, b} : x = s[i]
    OBVIOUS
  <2> QED  BY <2>1, <2>2, <2>3
<1> HIDE DEF N
<1> DEFINE P == {k \in 0..N : IsSplit(R(k), g[k])}
<1>6. 0 \in P
  <2>1. <<s[a]>> \in Seq(EntryRecords) /\ <<s[a]>> # <<>> /\ IsInjective(<<s[a]>>) /\ Range(<<s[a]>>) = {s[a]}
    BY <1>1, <1>2, OneEntry
  <2>2. <<s[b]>> \in Seq(EntryRecords) /\ <<s[b]>> # <<>> /\ IsInjective(<<s[b]>>) /\ Range(<<s[b]>>) = {s[b]}
    BY <1>1, <1>2, OneEntry
  <2>3. g[0] = <<<<s[a]>>, <<s[b]>>>>
    BY <1>4 DEF FirstGroups
  <2>4. s[a] # s[b]
    BY <1>1, <1>3
  <2>5. IsSplit({s[a], s[b]}, g[0])
    <3> DEFINE u == <<s[a]>>
               v == <<s[b]>>
    <3>1. Range(u) \cap Range(v) = {} /\ Range(u) \cup Range(v) = {s[a], s[b]}
      BY <2>1, <2>2, <2>4
    <3>2. u \in Seq(EntryRecords) /\ u # <<>> /\ IsInjective(u)
      BY <2>1
    <3>3. v \in Seq(EntryRecords) /\ v # <<>> /\ IsInjective(v)
      BY <2>2
    <3>4. g[0] = <<u, v>>
      BY <2>3
    <3> HIDE DEF u, v
    <3>5. g[0] \in Groups /\ g[0][1] = u /\ g[0][2] = v
      BY <3>2, <3>3, <3>4 DEF Groups
    <3> QED  BY ONLY <3>1, <3>2, <3>3, <3>5 DEF IsSplit
  <2>6. \A x : x \in {s[a], s[b]} <=> x \in R(0)
    OBVIOUS
  <2> HIDE DEF R
  <2>7. IsSplit(R(0), g[0])
    BY <2>5, <2>6, SplitSame
  <2> QED  BY <1>1, <2>7
<1>7. ASSUME NEW k \in 1..N, k - 1 \in P PROVE k \in P
  <2>1. IsSplit(R(k - 1), g[k - 1])
    BY <1>7
  <2>2. g[k] = IF k \in {a, b} THEN g[k - 1] ELSE Put(g[k - 1], s[k])
    BY <1>4 DEF Placed
  <2>3. \A i \in 1..k : i = k \/ i \in 1..(k - 1)
    OBVIOUS
  <2>3a. \A i \in 1..(k - 1) : i \in 1..k
    OBVIOUS
  <2>3b. k \in 1..k
    OBVIOUS
  <2>4. CASE k \in {a, b}
    <3>1. \A x : x \in R(k - 1) <=> x \in R(k)
      BY <2>3, <2>3a, <2>4
    <3> HIDE DEF R
    <3>2. IsSplit(R(k), g[k])
      BY <2>1, <2>2, <2>4, <3>1, SplitSame
    <3> QED  BY <1>1, <3>2
  <2>5. CASE k \notin {a, b}
    <3>1. s[k] \in EntryRecords
      BY <1>2
    <3>2. s[k] \notin R(k - 1)
      <4>1. \A i \in (1..(k - 1)) \cup {a, b} : i \in 1..N /\ i # k
        BY <1>1, <2>5
      <4> QED  BY <1>3, <4>1
    <3>3. \A x : x \in R(k - 1) \cup {s[k]} <=> x \in R(k)
      BY <2>3, <2>3a, <2>3b
    <3> HIDE DEF R
    <3>4. IsSplit(R(k - 1) \cup {s[k]}, g[k])
      BY <2>1, <2>2, <2>5, <3>1, <3>2, PutSplits
    <3>5. IsSplit(R(k), g[k])
      BY <3>3, <3>4, SplitSame
    <3> QED  BY <1>1, <3>5
  <2> QED  BY <2>4, <2>5
<1>8. 0..N \subseteq P
  <2> HIDE DEF P
  <2> QED  BY <1>1, <1>6, <1>7, CountUp
<1>9. IsSplit(R(N), g[N])
  <2>1. N \in 0..N
    BY <1>1
  <2> QED  BY <1>8, <2>1
<1>10. \A x : x \in R(N) <=> x \in Range(s)
  BY <1>5
<1> HIDE DEF R
<1>11. IsSplit(Range(s), g[N])
  BY <1>9, <1>10, SplitSame
<1> QED  BY <1>4, <1>11

\* A split keeps every entry, in one of the two groups.
LEMMA SplitGroupsAre ==
  ASSUME NEW s \in Seq(EntryRecords), IsInjective(s), Len(s) >= 2
  PROVE  IsSplit(Range(s), SplitGroups(s))
<1>1. PICK i \in 1..Len(s), j \in 1..Len(s) : i < j /\ PickSeeds(s) = <<i, j>>
  BY SeedsAre
<1>2. i # j
  BY <1>1
<1>3. IsSplit(Range(s), Distribute(s, <<i, j>>))
  BY <1>2, DistributeSplits
<1> QED  BY <1>1, <1>3 DEF SplitGroups

-------------------------------------------------------------------------------
(* splitNodeQ(): the nodes.                                                 *)

\* Nodes and trees.
NodeRecords == [parent : Nat, is_leaf : BOOLEAN, entries : Seq(EntryRecords)]
TreeRecords == [nodes : Seq(NodeRecords), root_id : Nat, node_id_gen : Nat]

\* A node has its parts.
LEMMA NodeParts ==
  ASSUME NEW v \in NodeRecords
  PROVE  v.parent \in Nat /\ v.is_leaf \in BOOLEAN /\ v.entries \in Seq(EntryRecords)
BY DEF NodeRecords

\* A node that is given a parent.
LEMMA SetParent ==
  ASSUME NEW v \in NodeRecords, NEW p \in Nat
  PROVE  LET w == [v EXCEPT !.parent = p] IN
         w \in NodeRecords /\ w.parent = p /\ w.is_leaf = v.is_leaf /\ w.entries = v.entries
BY DEF NodeRecords

\* A node that is given entries.
LEMMA SetEntries ==
  ASSUME NEW v \in NodeRecords, NEW s \in Seq(EntryRecords)
  PROVE  LET w == [v EXCEPT !.entries = s] IN
         w \in NodeRecords /\ w.entries = s /\ w.is_leaf = v.is_leaf /\ w.parent = v.parent
BY DEF NodeRecords

\* A tree has its parts.
LEMMA TreeParts ==
  ASSUME NEW t \in TreeRecords
  PROVE  t.nodes \in Seq(NodeRecords) /\ t.root_id \in Nat /\ t.node_id_gen \in Nat
BY DEF TreeRecords

\* A tree whose nodes change.
LEMMA SetNodes ==
  ASSUME NEW t \in TreeRecords, NEW s \in Seq(NodeRecords)
  PROVE  LET u == [t EXCEPT !.nodes = s] IN
         u \in TreeRecords /\ u.nodes = s /\ u.root_id = t.root_id /\ u.node_id_gen = t.node_id_gen
BY DEF TreeRecords

\* A tree that gives the next number.
LEMMA SetGen ==
  ASSUME NEW t \in TreeRecords, NEW k \in Nat
  PROVE  LET u == [t EXCEPT !.node_id_gen = k] IN
         u \in TreeRecords /\ u.nodes = t.nodes /\ u.root_id = t.root_id /\ u.node_id_gen = k
BY DEF TreeRecords

\* A tree that gets another root.
LEMMA SetRoot ==
  ASSUME NEW t \in TreeRecords, NEW k \in Nat
  PROVE  LET u == [t EXCEPT !.root_id = k] IN
         u \in TreeRecords /\ u.nodes = t.nodes /\ u.root_id = k /\ u.node_id_gen = t.node_id_gen
BY DEF TreeRecords

\* A node is set in the table.
LEMMA SetNode ==
  ASSUME NEW s \in Seq(NodeRecords), NEW n \in 1..Len(s), NEW v \in NodeRecords
  PROVE  LET u == [s EXCEPT ![n] = v] IN
         u \in Seq(NodeRecords) /\ Len(u) = Len(s) /\ u[n] = v /\ \A m \in 1..Len(s) : m # n => u[m] = s[m]
OBVIOUS

-------------------------------------------------------------------------------
(* The children that move with a split learn of their parent.                *)

\* A child is told who its parent is.
Adopted(leaf, id, nodes, e) == IF leaf THEN nodes ELSE [nodes EXCEPT ![e.ref].parent = id]
Adopting(leaf, id, base, s, f) ==
  f = [T \in SUBSET (DOMAIN s) |->
         IF T = {} THEN base ELSE Adopted(leaf, id, f[T \ {Max(T)}], s[Max(T)])]

\* The nodes when all children have been told.
AdoptedBy(leaf, id, base, s) == (CHOOSE f : Adopting(leaf, id, base, s, f))[DOMAIN s]

\* splitNodeQ(): the new node, and the children it adopts.
LEMMA SplitIntoIs ==
  ASSUME NEW tree, NEW n, NEW g
  PROVE  SplitInto(tree, n, g) =
           [tree EXCEPT !.node_id_gen = tree.node_id_gen + 1,
                        !.nodes = AdoptedBy(tree.nodes[n].is_leaf, tree.node_id_gen + 1,
                                            Append([tree.nodes EXCEPT ![n].entries = g[1]],
                                                   [tree.nodes[n] EXCEPT !.entries = g[2]]),
                                            g[2])]
BY DEF SplitInto, FoldLeft, MapThenFoldSet, AdoptedBy, Adopting, Adopted

\* One child more.
LEMMA AdoptedIs ==
  ASSUME NEW leaf \in BOOLEAN, NEW id \in Nat, NEW K \in Nat, NEW v \in [1..K -> NodeRecords], NEW e \in EntryRecords
  PROVE  LET w == Adopted(leaf, id, v, e) IN
         /\ w \in [1..K -> NodeRecords]
         /\ \A m \in 1..K : /\ w[m].entries = v[m].entries
                            /\ w[m].is_leaf = v[m].is_leaf
                            /\ w[m].parent = IF ~leaf /\ e.ref = m THEN id ELSE v[m].parent
<1> DEFINE w == Adopted(leaf, id, v, e)
           x == [v[e.ref] EXCEPT !.parent = id]
<1>1. CASE leaf
  <2>1. w = v
    BY <1>1 DEF Adopted
  <2> QED  BY <1>1, <2>1
<1>2. CASE ~leaf /\ e.ref \in 1..K
  <2>1. w = [v EXCEPT ![e.ref] = x]
    BY <1>2 DEF Adopted
  <2>2. v[e.ref] \in NodeRecords
    BY <1>2
  <2>3. x \in NodeRecords /\ x.parent = id /\ x.is_leaf = v[e.ref].is_leaf /\ x.entries = v[e.ref].entries
    BY <2>2, SetParent
  <2> HIDE DEF x, w
  <2>4. w \in [1..K -> NodeRecords] /\ w[e.ref] = x /\ \A m \in 1..K : m # e.ref => w[m] = v[m]
    BY <1>2, <2>1, <2>3
  <2>5. ASSUME NEW m \in 1..K
        PROVE  /\ w[m].entries = v[m].entries
               /\ w[m].is_leaf = v[m].is_leaf
               /\ w[m].parent = IF ~leaf /\ e.ref = m THEN id ELSE v[m].parent
    <3>1. CASE m = e.ref
      BY <1>2, <2>3, <2>4, <3>1
    <3>2. CASE m # e.ref
      BY <2>4, <3>2
    <3> QED  BY <3>1, <3>2
  <2> QED  BY <2>4, <2>5 DEF w
<1>3. CASE ~leaf /\ e.ref \notin 1..K
  <2>1. w = v
    BY <1>3 DEF Adopted
  <2> QED  BY <1>3, <2>1
<1> QED  BY <1>1, <1>2, <1>3

\* Nodes w are nodes v, but that the entries S have a new parent.
AdoptedAll(leaf, id, K, v, S, w) ==
  /\ w \in [1..K -> NodeRecords]
  /\ \A m \in 1..K : /\ w[m].entries = v[m].entries
                     /\ w[m].is_leaf = v[m].is_leaf
                     /\ w[m].parent = IF ~leaf /\ (\E e \in S : e.ref = m) THEN id ELSE v[m].parent

\* One child more is adopted.
LEMMA AdoptOneMore ==
  ASSUME NEW leaf \in BOOLEAN, NEW id \in Nat, NEW K \in Nat, NEW v, NEW S, NEW w,
         AdoptedAll(leaf, id, K, v, S, w), NEW e \in EntryRecords
  PROVE  AdoptedAll(leaf, id, K, v, S \cup {e}, Adopted(leaf, id, w, e))
<1> DEFINE u == Adopted(leaf, id, w, e)
<1>1. /\ w \in [1..K -> NodeRecords]
      /\ \A m \in 1..K : /\ w[m].entries = v[m].entries
                         /\ w[m].is_leaf = v[m].is_leaf
                         /\ w[m].parent = IF ~leaf /\ (\E f \in S : f.ref = m) THEN id ELSE v[m].parent
  BY DEF AdoptedAll
<1>2. /\ u \in [1..K -> NodeRecords]
      /\ \A m \in 1..K : /\ u[m].entries = w[m].entries
                         /\ u[m].is_leaf = w[m].is_leaf
                         /\ u[m].parent = IF ~leaf /\ e.ref = m THEN id ELSE w[m].parent
  <2>1. w \in [1..K -> NodeRecords]
    BY <1>1
  <2> QED  BY <2>1, AdoptedIs
<1> HIDE DEF u
<1>3. \A m \in 1..K : (\E f \in S \cup {e} : f.ref = m) <=> (\E f \in S : f.ref = m) \/ e.ref = m
  OBVIOUS
<1>4. ASSUME NEW m \in 1..K
      PROVE  /\ u[m].entries = v[m].entries
             /\ u[m].is_leaf = v[m].is_leaf
             /\ u[m].parent = IF ~leaf /\ (\E f \in S \cup {e} : f.ref = m) THEN id ELSE v[m].parent
  <2>1. u[m].entries = v[m].entries /\ u[m].is_leaf = v[m].is_leaf
    BY <1>1, <1>2
  <2>2. u[m].parent = IF ~leaf /\ e.ref = m THEN id ELSE w[m].parent
    BY <1>2
  <2>3. w[m].parent = IF ~leaf /\ (\E f \in S : f.ref = m) THEN id ELSE v[m].parent
    BY <1>1
  <2>4. u[m].parent = IF ~leaf /\ (\E f \in S \cup {e} : f.ref = m) THEN id ELSE v[m].parent
    <3>1. m \in 1..K
      OBVIOUS
    <3> DEFINE a == \E f \in S : f.ref = m
               b == \E f \in S \cup {e} : f.ref = m
    <3>2. b <=> a \/ e.ref = m
      BY <1>3, <3>1
    <3>3. w[m].parent = IF ~leaf /\ a THEN id ELSE v[m].parent
      BY <2>3
    <3> HIDE DEF a, b
    <3>4. u[m].parent = IF ~leaf /\ b THEN id ELSE v[m].parent
      BY ONLY <2>2, <3>2, <3>3
    <3> QED  BY ONLY <3>4 DEF b
  <2> QED  BY <2>1, <2>4
<1> QED  BY <1>2, <1>4 DEF AdoptedAll, u

\* Children are adopted one by one.
LEMMA AdoptStages ==
  ASSUME NEW leaf \in BOOLEAN, NEW id \in Nat, NEW K \in Nat, NEW base \in [1..K -> NodeRecords],
         NEW s \in Seq(EntryRecords)
  PROVE  \E g : /\ g[0] = base
                /\ \A k \in 1..Len(s) : g[k] = Adopted(leaf, id, g[k - 1], s[k])
                /\ AdoptedBy(leaf, id, base, s) = g[Len(s)]
<1> DEFINE N == Len(s)
           V == [1..K -> NodeRecords]
           X(v, k) == Adopted(leaf, id, v, s[k])
           H == [p \in (1..N) \X V |-> X(p[2], p[1])]
<1>1. N \in Nat /\ DOMAIN s = 1..N
  OBVIOUS
<1>2. ASSUME NEW k \in 1..N, NEW v \in V PROVE X(v, k) \in V
  <2>1. s[k] \in EntryRecords /\ v \in [1..K -> NodeRecords]
    BY EntriesIn
  <2> QED  BY <2>1, AdoptedIs
<1>3. base \in V
  OBVIOUS
<1> HIDE DEF N, X, V
<1>5. H \in [(1..N) \X V -> V] /\ \A k \in 1..N, v \in V : H[<<k, v>>] = X(v, k)
  BY <1>2
<1> HIDE DEF H
<1>6. PICK f : Folds(N, V, base, H, f)
  BY <1>1, <1>3, <1>5, FoldExists
<1>7. f \in [SUBSET (1..N) -> V] /\ \A T \in SUBSET (1..N) : f[T] = Folded(T, base, H, f)
  BY <1>6 DEF Folds
<1>8. ASSUME NEW T \in SUBSET (1..N)
      PROVE  f[T] = IF T = {} THEN base ELSE X(f[T \ {Max(T)}], Max(T))
  <2>1. CASE T = {}
    BY <1>7, <2>1 DEF Folded
  <2>2. CASE T # {}
    <3>1. Max(T) \in T
      BY <1>1, <2>2, GreatestElement
    <3>2. Max(T) \in 1..N /\ f[T \ {Max(T)}] \in V
      BY <3>1, <1>7
    <3> QED  BY <1>7, <1>5, <2>2, <3>2 DEF Folded
  <2> QED  BY <2>1, <2>2
<1>9. Adopting(leaf, id, base, s, f)
  <2>1. f = [T \in SUBSET (1..N) |-> IF T = {} THEN base ELSE X(f[T \ {Max(T)}], Max(T))]
    BY <1>7, <1>8
  <2> QED  BY <1>1, <2>1 DEF Adopting, X
<1> DEFINE c == CHOOSE h : Adopting(leaf, id, base, s, h)
<1>10. Adopting(leaf, id, base, s, c)
  BY <1>9
<1> HIDE DEF c
<1>12. c = [T \in SUBSET (1..N) |-> IF T = {} THEN base ELSE X(c[T \ {Max(T)}], Max(T))]
  BY <1>1, <1>10 DEF Adopting, X
<1>13. \A T \in SUBSET (1..N) : c[T] = IF T = {} THEN base ELSE X(c[T \ {Max(T)}], Max(T))
  BY <1>12
<1> DEFINE g == [k \in 0..N |-> c[1..k]]
<1>14. g[0] = base
  <2>1. 1..0 \in SUBSET (1..N) /\ 1..0 = {} /\ 0 \in 0..N
    BY <1>1, FoldStages
  <2>2. c[1..0] = base
    BY <1>13, <2>1
  <2> QED  BY <2>1, <2>2
<1>15. ASSUME NEW k \in 1..N PROVE g[k] = X(g[k - 1], k)
  <2>1. 1..k \in SUBSET (1..N) /\ 1..k # {} /\ Max(1..k) = k /\ (1..k) \ {k} = 1..(k - 1)
    BY <1>1, FoldStages
  <2>2. c[1..k] = X(c[1..(k - 1)], k)
    BY <1>13, <2>1
  <2>3. k - 1 \in 0..N /\ k \in 0..N
    BY <1>1
  <2> QED  BY <2>2, <2>3
<1>16. g[N] = c[1..N]
  BY <1>1
<1> HIDE DEF g
<1> QED  BY <1>1, <1>14, <1>15, <1>16 DEF N, X, c, AdoptedBy

\* In the end all of them know their parent, and no other node changed.
LEMMA AdoptsAll ==
  ASSUME NEW leaf \in BOOLEAN, NEW id \in Nat, NEW K \in Nat, NEW base \in [1..K -> NodeRecords],
         NEW s \in Seq(EntryRecords)
  PROVE  AdoptedAll(leaf, id, K, base, Range(s), AdoptedBy(leaf, id, base, s))
<1> DEFINE N == Len(s)
           R(k) == {s[i] : i \in 1..k}
<1>1. N \in Nat /\ DOMAIN s = 1..N
  OBVIOUS
<1>2. PICK g : /\ g[0] = base
               /\ \A k \in 1..N : g[k] = Adopted(leaf, id, g[k - 1], s[k])
               /\ AdoptedBy(leaf, id, base, s) = g[N]
  BY AdoptStages
<1>3. \A k \in 1..N : s[k] \in EntryRecords
  BY EntriesIn
<1>4. Range(s) = R(N)
  <2>1. Range(s) = {s[i] : i \in DOMAIN s}
    BY DEF Range
  <2> QED  BY <1>1, <2>1
<1> HIDE DEF N
<1> DEFINE P == {k \in 0..N : AdoptedAll(leaf, id, K, base, R(k), g[k])}
<1>5. 0 \in P
  <2>1. R(0) = {}
    OBVIOUS
  <2>2. AdoptedAll(leaf, id, K, base, {}, base)
    BY DEF AdoptedAll
  <2> HIDE DEF R
  <2>3. AdoptedAll(leaf, id, K, base, R(0), g[0])
    BY <1>2, <2>1, <2>2, Zenon
  <2> QED  BY <1>1, <2>3
<1>6. ASSUME NEW k \in 1..N, k - 1 \in P PROVE k \in P
  <2>1. AdoptedAll(leaf, id, K, base, R(k - 1), g[k - 1])
    BY <1>6
  <2>2. R(k) = R(k - 1) \cup {s[k]}
    <3>1. \A i : i \in 1..k <=> i = k \/ i \in 1..(k - 1)
      OBVIOUS
    <3> QED  BY <3>1
  <2>3. g[k] = Adopted(leaf, id, g[k - 1], s[k]) /\ s[k] \in EntryRecords
    BY <1>2, <1>3
  <2> HIDE DEF R
  <2>4. AdoptedAll(leaf, id, K, base, R(k - 1) \cup {s[k]}, Adopted(leaf, id, g[k - 1], s[k]))
    BY <2>1, <2>3, AdoptOneMore
  <2>5. AdoptedAll(leaf, id, K, base, R(k), g[k])
    BY ONLY <2>2, <2>3, <2>4, Zenon
  <2> QED  BY <1>1, <2>5
<1>7. 0..N \subseteq P
  <2> HIDE DEF P
  <2> QED  BY <1>1, <1>5, <1>6, CountUp
<1>8. AdoptedAll(leaf, id, K, base, R(N), g[N])
  <2>1. N \in 0..N
    BY <1>1
  <2> QED  BY <1>7, <2>1
<1> HIDE DEF R
<1> QED  BY ONLY <1>2, <1>4, <1>8, Zenon

-------------------------------------------------------------------------------
(* splitNodeQ(): the tree.                                                  *)

\* A tree has as many nodes as it gave numbers.
IsTree(t) == t \in TreeRecords /\ Len(t.nodes) = t.node_id_gen
Numbers(t) == 1..t.node_id_gen

\* The parts of a tree whose nodes are numbered.
LEMMA TreeIs ==
  ASSUME NEW t, IsTree(t)
  PROVE  /\ t \in TreeRecords /\ t.nodes \in Seq(NodeRecords) /\ t.root_id \in Nat /\ t.node_id_gen \in Nat
         /\ Len(t.nodes) = t.node_id_gen /\ DOMAIN t.nodes = Numbers(t)
<1>1. t \in TreeRecords /\ Len(t.nodes) = t.node_id_gen
  BY DEF IsTree
<1>2. t.nodes \in Seq(NodeRecords) /\ t.root_id \in Nat /\ t.node_id_gen \in Nat
  BY <1>1, TreeParts
<1>3. DOMAIN t.nodes = 1..Len(t.nodes)
  BY <1>2
<1> QED  BY <1>1, <1>2, <1>3 DEF Numbers

\* The parts of its nodes.
LEMMA NodeIs ==
  ASSUME NEW t, IsTree(t), NEW m \in Numbers(t)
  PROVE  /\ t.nodes[m] \in NodeRecords
         /\ t.nodes[m].parent \in Nat /\ t.nodes[m].is_leaf \in BOOLEAN /\ t.nodes[m].entries \in Seq(EntryRecords)
<1>1. t.nodes \in Seq(NodeRecords) /\ m \in 1..Len(t.nodes)
  BY TreeIs DEF Numbers
<1>2. t.nodes[m] \in NodeRecords
  BY <1>1
<1> QED  BY <1>2, NodeParts

\* What a split makes of the nodes.
SplitParts(tree, n, g, t) ==
  LET id == tree.node_id_gen + 1 IN
  /\ IsTree(t) /\ t.root_id = tree.root_id /\ t.node_id_gen = id
  /\ \A m \in 1..id :
       /\ t.nodes[m].entries = IF m = n THEN g[1] ELSE IF m = id THEN g[2] ELSE tree.nodes[m].entries
       /\ t.nodes[m].is_leaf = tree.nodes[IF m = id THEN n ELSE m].is_leaf
       /\ t.nodes[m].parent = IF ~tree.nodes[n].is_leaf /\ (\E e \in Range(g[2]) : e.ref = m) THEN id
                              ELSE tree.nodes[IF m = id THEN n ELSE m].parent

\* splitNodeQ() node by node.
LEMMA SplitIntoParts ==
  ASSUME NEW tree, IsTree(tree), NEW n \in Numbers(tree), NEW g \in Groups
  PROVE  SplitParts(tree, n, g, SplitInto(tree, n, g))
<1> DEFINE K == tree.node_id_gen
           id == K + 1
           L == tree.nodes[n]
           v == [L EXCEPT !.entries = g[1]]
           w == [L EXCEPT !.entries = g[2]]
           s == [tree.nodes EXCEPT ![n] = v]
           base == Append(s, w)
           A == AdoptedBy(L.is_leaf, id, base, g[2])
           t1 == [tree EXCEPT !.node_id_gen = id]
           t == [t1 EXCEPT !.nodes = A]
<1>1. /\ tree \in TreeRecords /\ tree.nodes \in Seq(NodeRecords) /\ tree.root_id \in Nat /\ K \in Nat
      /\ Len(tree.nodes) = K /\ n \in 1..K
  BY TreeIs DEF Numbers
<1>2. L \in NodeRecords /\ L.is_leaf \in BOOLEAN
  BY NodeIs
<1>3. g[1] \in Seq(EntryRecords) /\ g[2] \in Seq(EntryRecords)
  BY DEF Groups
<1>4. SplitInto(tree, n, g) = t
  <2>1. [tree.nodes EXCEPT ![n].entries = g[1]] = s
    BY <1>1
  <2>2. SplitInto(tree, n, g) = [tree EXCEPT !.node_id_gen = id, !.nodes = A]
    BY <2>1, SplitIntoIs
  <2>3. [tree EXCEPT !.node_id_gen = id, !.nodes = A] = t
    OBVIOUS
  <2> QED  BY <2>2, <2>3
<1> HIDE DEF K, L
<1>5. v \in NodeRecords /\ v.entries = g[1] /\ v.is_leaf = L.is_leaf /\ v.parent = L.parent
  BY <1>2, <1>3, SetEntries
<1>6. w \in NodeRecords /\ w.entries = g[2] /\ w.is_leaf = L.is_leaf /\ w.parent = L.parent
  BY <1>2, <1>3, SetEntries
<1> HIDE DEF v, w
<1>7. s \in Seq(NodeRecords) /\ Len(s) = K /\ s[n] = v /\ \A m \in 1..K : m # n => s[m] = tree.nodes[m]
  BY <1>1, <1>5, SetNode
<1> HIDE DEF s
<1>8. base \in [1..id -> NodeRecords] /\ base[id] = w /\ \A m \in 1..K : base[m] = s[m]
  <2>1. base \in Seq(NodeRecords) /\ Len(base) = Len(s) + 1 /\ base[Len(s) + 1] = w /\ \A m \in 1..Len(s) : base[m] = s[m]
    BY <1>6, <1>7
  <2> HIDE DEF base
  <2>2. base \in [1..Len(base) -> NodeRecords]
    BY <2>1
  <2> QED  BY <1>7, <2>1, <2>2
<1> HIDE DEF base
<1>9. AdoptedAll(L.is_leaf, id, id, base, Range(g[2]), A)
  <2>1. L.is_leaf \in BOOLEAN /\ id \in Nat /\ base \in [1..id -> NodeRecords] /\ g[2] \in Seq(EntryRecords)
    BY <1>1, <1>2, <1>3, <1>8
  <2> HIDE DEF id, A
  <2>2. AdoptedAll(L.is_leaf, id, id, base, Range(g[2]), AdoptedBy(L.is_leaf, id, base, g[2]))
    BY ONLY <2>1, AdoptsAll
  <2> QED  BY <2>2 DEF A
<1> HIDE DEF A
<1>10. /\ A \in [1..id -> NodeRecords]
       /\ \A m \in 1..id : /\ A[m].entries = base[m].entries
                           /\ A[m].is_leaf = base[m].is_leaf
                           /\ A[m].parent = IF ~L.is_leaf /\ (\E e \in Range(g[2]) : e.ref = m) THEN id ELSE base[m].parent
  BY <1>9 DEF AdoptedAll
<1>11. A \in Seq(NodeRecords) /\ Len(A) = id
  BY <1>1, <1>10, FunctionIsSeq
<1>12. t1 \in TreeRecords /\ t1.root_id = tree.root_id /\ t1.node_id_gen = id
  BY <1>1, SetGen
<1> HIDE DEF t1
<1>13. t \in TreeRecords /\ t.nodes = A /\ t.root_id = tree.root_id /\ t.node_id_gen = id
  BY <1>11, <1>12, SetNodes
<1> HIDE DEF t
<1>14. IsTree(t)
  BY <1>11, <1>13 DEF IsTree
<1>15. ASSUME NEW m \in 1..id
       PROVE  /\ base[m].entries = IF m = n THEN g[1] ELSE IF m = id THEN g[2] ELSE tree.nodes[m].entries
              /\ base[m].is_leaf = tree.nodes[IF m = id THEN n ELSE m].is_leaf
              /\ base[m].parent = tree.nodes[IF m = id THEN n ELSE m].parent
  <2>1. CASE m = id
    <3>1. m # n
      BY <1>1, <2>1
    <3> QED  BY <1>6, <1>8, <2>1, <3>1 DEF L
  <2>2. CASE m = n
    <3>1. m # id
      BY <1>1, <2>2
    <3> QED  BY <1>1, <1>5, <1>7, <1>8, <2>2, <3>1 DEF L
  <2>3. CASE m # id /\ m # n
    <3>1. m \in 1..K
      BY <1>1, <2>3
    <3> QED  BY <1>7, <1>8, <2>3, <3>1
  <2> QED  BY <2>1, <2>2, <2>3
<1>16. ASSUME NEW m \in 1..id
       PROVE  /\ t.nodes[m].entries = IF m = n THEN g[1] ELSE IF m = id THEN g[2] ELSE tree.nodes[m].entries
              /\ t.nodes[m].is_leaf = tree.nodes[IF m = id THEN n ELSE m].is_leaf
              /\ t.nodes[m].parent = IF ~tree.nodes[n].is_leaf /\ (\E e \in Range(g[2]) : e.ref = m) THEN id
                                     ELSE tree.nodes[IF m = id THEN n ELSE m].parent
  BY <1>10, <1>13, <1>15 DEF L
<1> QED  BY <1>4, <1>13, <1>14, <1>16 DEF SplitParts, K

-------------------------------------------------------------------------------
(* What a tree should be, and what it is while it is being adjusted.        *)

\* The entries of a node, and those of all leaves, which are the features.
Kids(t, m) == Range(t.nodes[m].entries)
LeafEntries(t) == UNION {Kids(t, m) : m \in {k \in Numbers(t) : t.nodes[k].is_leaf}}

\* The rank of a node is its height over the leaves.
Ranked(t, h) ==
  /\ h \in [Numbers(t) -> Nat]
  /\ \A m \in Numbers(t) : (t.nodes[m].is_leaf <=> h[m] = 0) /\ h[m] <= h[t.root_id]
  /\ h[t.root_id] < t.node_id_gen

\* The nodes under a node know it.
Linked(t, h) ==
  \A m \in Numbers(t) : h[m] # 0 => \A e \in Kids(t, m) :
      e.ref \in Numbers(t) /\ t.nodes[e.ref].parent = m /\ h[m] = h[e.ref] + 1

\* Every node is under the root, but for one that is not yet.
Hung(t, h, nn) ==
  /\ t.root_id \in Numbers(t) /\ t.nodes[t.root_id].parent = 0
  /\ \A m \in Numbers(t) \ {t.root_id, nn} :
        LET p == t.nodes[m].parent IN p \in Numbers(t) /\ h[p] # 0 /\ \E e \in Kids(t, p) : e.ref = m

\* An entry covers what its node has, but for the one of a node that just changed.
Held(t, h, n) ==
  \A m \in Numbers(t) : h[m] # 0 => \A e \in Kids(t, m) :
      e.ref # n => \A f \in Kids(t, e.ref) : Covers(e.extent, f.extent)

\* A node has an entry once.
Distinct(t) ==
  \A m \in Numbers(t) : /\ IsInjective(t.nodes[m].entries)
                        /\ \A e, f \in Kids(t, m) : e.ref = f.ref => e = f

\* A feature is in one leaf.
OneLeaf(t, h) ==
  \A l, m \in Numbers(t) : h[l] = 0 /\ h[m] = 0 =>
      \A e \in Kids(t, l), f \in Kids(t, m) : e.ref = f.ref => l = m

\* No node is empty but the root of an empty tree.
Filled(t, h) == \A m \in Numbers(t) : t.nodes[m].entries = <<>> => m = t.root_id /\ h[m] = 0

\* Node n has changed, and node nn, if any, is to be put beside it.
Beside(t, h, n, nn) ==
  /\ n \in Numbers(t)
  /\ nn # 0 => /\ nn \in Numbers(t) /\ nn # n /\ nn # t.root_id /\ h[nn] = h[n]
               /\ t.nodes[n].entries # <<>>
               /\ \A m \in Numbers(t) : h[m] # 0 => \A e \in Kids(t, m) : e.ref # nn

\* A tree that is being adjusted.
Pending(t, h, n, nn) ==
  /\ IsTree(t) /\ Ranked(t, h) /\ Linked(t, h) /\ Hung(t, h, nn) /\ Held(t, h, n)
  /\ Distinct(t) /\ OneLeaf(t, h) /\ Filled(t, h) /\ Beside(t, h, n, nn)

\* A tree as it should be.
Sound(t, h) == Pending(t, h, t.root_id, 0)
SoundTree(t) == \E h : Sound(t, h)

\* What is in a node are entries.
LEMMA KidsAre ==
  ASSUME NEW t, IsTree(t), NEW m \in Numbers(t), NEW e \in Kids(t, m)
  PROVE  e \in EntryRecords /\ e.extent \in Boxes /\ e.ref \in Nat
<1>1. t.nodes[m].entries \in Seq(EntryRecords)
  BY NodeIs
<1>2. e \in EntryRecords
  BY <1>1, QueueRange DEF Kids
<1> QED  BY <1>2, EntryParts

\* A split leaves a node that changed and one to be put beside it; no feature is lost.
LEMMA SplitPending ==
  ASSUME NEW tree, NEW h, NEW n, Pending(tree, h, n, 0),
         NEW g, IsSplit(Kids(tree, n), g), NEW t, SplitParts(tree, n, g, t)
  PROVE  /\ \E k : /\ Pending(t, k, n, tree.node_id_gen + 1)
                   /\ k[t.root_id] = h[tree.root_id] /\ k[n] = h[n]
         /\ LeafEntries(t) = LeafEntries(tree)
<1> DEFINE K == tree.node_id_gen
           id == K + 1
           hh == [m \in 1..id |-> IF m = id THEN h[n] ELSE h[m]]
           r == tree.root_id
<1>1. /\ IsTree(tree) /\ Ranked(tree, h) /\ Linked(tree, h) /\ Hung(tree, h, 0) /\ Held(tree, h, n)
      /\ Distinct(tree) /\ OneLeaf(tree, h) /\ Filled(tree, h) /\ Beside(tree, h, n, 0)
  BY DEF Pending
<1>2. K \in Nat /\ n \in 1..K /\ r \in 1..K /\ Numbers(tree) = 1..K
  BY <1>1, TreeIs DEF Beside, Hung, Numbers
<1>3. h \in [1..K -> Nat] /\ \A m \in 1..K : h[m] \in Nat
  BY <1>1, <1>2 DEF Ranked
<1>4. IsTree(t) /\ t.root_id = r /\ t.node_id_gen = id /\ Numbers(t) = 1..id
  BY DEF SplitParts, Numbers
<1> DEFINE E(m) == Kids(tree, m)
           F(m) == Kids(t, m)
           G1 == Range(g[1])
           G2 == Range(g[2])
           moved(m) == h[n] # 0 /\ \E e \in G2 : e.ref = m
<1>5. /\ IsInjective(g[1]) /\ IsInjective(g[2]) /\ g[1] # <<>> /\ g[2] # <<>>
      /\ G1 \cap G2 = {} /\ G1 \cup G2 = E(n)
  BY DEF IsSplit
<1>6. tree.nodes[n].is_leaf <=> h[n] = 0
  BY <1>1, <1>2 DEF Ranked
<1>7. \A m \in 1..id :
        /\ t.nodes[m].entries = IF m = n THEN g[1] ELSE IF m = id THEN g[2] ELSE tree.nodes[m].entries
        /\ t.nodes[m].is_leaf = tree.nodes[IF m = id THEN n ELSE m].is_leaf
  BY DEF SplitParts
<1>8. \A m \in 1..id : t.nodes[m].parent = IF moved(m) THEN id ELSE tree.nodes[IF m = id THEN n ELSE m].parent
  BY <1>6 DEF SplitParts
<1>9. \A m \in 1..id : F(m) = IF m = n THEN G1 ELSE IF m = id THEN G2 ELSE E(m)
  BY <1>7 DEF Kids
<1>10. \A m \in 1..K : m \in 1..id /\ m # id /\ hh[m] = h[m]
  BY <1>2
<1>11. id \in 1..id /\ hh[id] = h[n] /\ id # n /\ \A m \in 1..id : m = id \/ m \in 1..K
  BY <1>2
<1>12. hh \in [1..id -> Nat]
  BY <1>2, <1>3
<1>13. \A m \in 1..id : hh[m] = h[IF m = id THEN n ELSE m]
  BY <1>10, <1>11
<1> HIDE DEF id, hh, r, K
\* What the old tree says of its links.
<1>14. \A m \in 1..K : h[m] # 0 => \A e \in E(m) :
          e.ref \in 1..K /\ tree.nodes[e.ref].parent = m /\ h[m] = h[e.ref] + 1
  BY <1>1, <1>2 DEF Linked
<1>15. \A m \in 1..K : \A e \in E(m), f \in E(m) : e.ref = f.ref => e = f
  BY <1>1, <1>2 DEF Distinct
<1> HIDE DEF E, F, G1, G2
<1>16. \A m \in 1..id : moved(m) => m \in 1..K /\ tree.nodes[m].parent = n /\ h[n] = h[m] + 1
  BY <1>2, <1>5, <1>14
<1>17. \A e \in G1 : h[n] # 0 => ~moved(e.ref)
  BY <1>2, <1>5, <1>15
<1>18. Ranked(t, hh)
  <2>1. ASSUME NEW m \in 1..id PROVE (t.nodes[m].is_leaf <=> hh[m] = 0) /\ hh[m] <= hh[r]
    <3>1. t.nodes[m].is_leaf = tree.nodes[IF m = id THEN n ELSE m].is_leaf /\ hh[m] = h[IF m = id THEN n ELSE m]
      BY <1>7, <1>13
    <3>2. (IF m = id THEN n ELSE m) \in 1..K
      BY <1>2, <1>11
    <3>3. \A j \in 1..K : (tree.nodes[j].is_leaf <=> h[j] = 0) /\ h[j] <= h[r]
      BY <1>1, <1>2 DEF Ranked, r
    <3>4. hh[r] = h[r]
      BY <1>2, <1>10
    <3> QED  BY <3>1, <3>2, <3>3, <3>4
  <2>2. hh[r] < id
    <3>1. h[r] < K /\ hh[r] = h[r] /\ h[r] \in Nat
      BY <1>1, <1>2, <1>3, <1>10 DEF Ranked, r, K
    <3> QED  BY <1>2, <3>1 DEF id
  <2> QED  BY <1>4, <1>12, <2>1, <2>2 DEF Ranked
<1>19. ASSUME NEW m \in 1..id, hh[m] # 0, NEW e \in F(m)
       PROVE  e.ref \in 1..K /\ t.nodes[e.ref].parent = m /\ hh[m] = hh[e.ref] + 1
  <2>1. CASE m = n
    <3>1. e \in G1 /\ e \in E(n) /\ h[n] # 0
      BY <1>2, <1>5, <1>9, <1>10, <1>19, <2>1
    <3>2. e.ref \in 1..K /\ tree.nodes[e.ref].parent = n /\ h[n] = h[e.ref] + 1 /\ ~moved(e.ref)
      BY <1>2, <1>14, <1>17, <3>1
    <3>3. t.nodes[e.ref].parent = n /\ hh[n] = h[n] /\ hh[e.ref] = h[e.ref]
      BY <1>2, <1>8, <1>10, <3>2
    <3> QED  BY <2>1, <3>2, <3>3
  <2>2. CASE m = id
    <3>1. e \in G2 /\ e \in E(n) /\ h[n] # 0
      BY <1>2, <1>5, <1>9, <1>11, <1>19, <2>2
    <3>2. e.ref \in 1..K /\ h[n] = h[e.ref] + 1 /\ moved(e.ref)
      BY <1>2, <1>14, <3>1
    <3>3. t.nodes[e.ref].parent = id /\ hh[id] = h[n] /\ hh[e.ref] = h[e.ref]
      BY <1>8, <1>10, <1>11, <3>2
    <3> QED  BY <2>2, <3>2, <3>3
  <2>3. CASE m # n /\ m # id
    <3>1. m \in 1..K /\ e \in E(m) /\ h[m] # 0 /\ hh[m] = h[m]
      BY <1>9, <1>10, <1>11, <1>19, <2>3
    <3>2. e.ref \in 1..K /\ tree.nodes[e.ref].parent = m /\ h[m] = h[e.ref] + 1
      BY <1>14, <3>1
    <3>3. ~moved(e.ref)
      BY <1>10, <1>16, <2>3, <3>2
    <3>4. t.nodes[e.ref].parent = m /\ hh[e.ref] = h[e.ref]
      BY <1>8, <1>10, <3>2, <3>3
    <3> QED  BY <3>1, <3>2, <3>4
  <2> QED  BY <2>1, <2>2, <2>3
<1>20. Linked(t, hh)
  BY <1>4, <1>10, <1>19 DEF Linked, F
<1>21. Hung(t, hh, id)
  <2>1. \A m \in 1..K \ {r} : LET p == tree.nodes[m].parent IN p \in 1..K /\ h[p] # 0 /\ \E e \in E(p) : e.ref = m
    <3>1. \A m \in 1..K \ {r, 0} : LET p == tree.nodes[m].parent IN p \in 1..K /\ h[p] # 0 /\ \E e \in E(p) : e.ref = m
      BY <1>1, <1>2 DEF Hung, r, E
    <3> QED  BY <1>2, <3>1
  <2>2. t.nodes[r].parent = 0
    <3>1. tree.nodes[r].parent = 0
      BY <1>1 DEF Hung, r
    <3>2. ~moved(r) /\ r \in 1..id /\ r # id
      BY <1>2, <1>10, <1>16, <3>1
    <3> QED  BY <1>8, <3>1, <3>2
  <2>3. ASSUME NEW m \in 1..id, m # r, m # id
        PROVE  LET p == t.nodes[m].parent IN p \in 1..id /\ hh[p] # 0 /\ \E e \in F(p) : e.ref = m
    <3>1. m \in 1..K
      BY <1>11, <2>3
    <3>2. CASE moved(m)
      <4>1. t.nodes[m].parent = id /\ h[n] # 0
        BY <1>8, <3>2
      <4>2. \E e \in G2 : e.ref = m
        BY <3>2
      <4>3. F(id) = G2
        BY <1>9, <1>11
      <4> QED  BY <1>11, <4>1, <4>2, <4>3
    <3>3. CASE ~moved(m)
      <4> DEFINE p == tree.nodes[m].parent
      <4>1. t.nodes[m].parent = p
        BY <1>8, <2>3, <3>3
      <4>2. p \in 1..K /\ h[p] # 0
        BY <2>1, <2>3, <3>1
      <4>3. PICK e \in E(p) : e.ref = m
        BY <2>1, <2>3, <3>1
      <4> HIDE DEF p
      <4>4. p \in 1..id /\ p # id /\ hh[p] # 0
        BY <1>10, <4>2
      <4>5. e \in F(p)
        <5>1. CASE p = n
          <6>1. e \notin G2
            BY <3>3, <4>2, <4>3, <5>1
          <6> QED  BY <1>5, <1>9, <4>4, <5>1, <6>1
        <5>2. CASE p # n
          BY <1>9, <4>4, <5>2
        <5> QED  BY <5>1, <5>2
      <4> QED  BY <4>1, <4>3, <4>4, <4>5
    <3> QED  BY <3>2, <3>3
  <2>4. r \in 1..id
    BY <1>2, <1>10
  <2> QED  BY <1>4, <2>2, <2>3, <2>4 DEF Hung, F
<1> DEFINE j(m) == IF m = id THEN n ELSE m
<1>22. \A m \in 1..id : j(m) \in 1..K /\ hh[m] = h[j(m)] /\ \A e \in F(m) : e \in E(j(m))
  <2>1. ASSUME NEW m \in 1..id, m = id PROVE j(m) \in 1..K /\ hh[m] = h[j(m)] /\ \A e \in F(m) : e \in E(j(m))
    BY <1>2, <1>5, <1>9, <1>11, <2>1
  <2>2. ASSUME NEW m \in 1..id, m # id PROVE j(m) \in 1..K /\ hh[m] = h[j(m)] /\ \A e \in F(m) : e \in E(j(m))
    <3>1. j(m) = m /\ m \in 1..K /\ hh[m] = h[m]
      BY <1>10, <1>11, <2>2
    <3>2. F(m) = IF m = n THEN G1 ELSE E(m)
      BY <1>9, <2>2
    <3>3. \A e \in F(m) : e \in E(m)
      BY <1>5, <3>2
    <3> QED  BY <3>1, <3>3
  <2> QED  BY <2>1, <2>2
<1>23. Held(t, hh, n)
  <2>0. \A m \in 1..K : h[m] # 0 => \A e \in E(m) : e.ref # n => \A f \in E(e.ref) : Covers(e.extent, f.extent)
    BY <1>1, <1>2 DEF Held, E
  <2>1. ASSUME NEW m \in 1..id, hh[m] # 0, NEW e \in F(m), e.ref # n, NEW f \in F(e.ref)
        PROVE  Covers(e.extent, f.extent)
    <3>1. e.ref \in 1..K
      BY <1>19, <2>1
    <3>2. f \in E(e.ref)
      BY <1>9, <1>10, <2>1, <3>1
    <3>3. j(m) \in 1..K /\ h[j(m)] # 0 /\ e \in E(j(m))
      BY <1>22, <2>1
    <3> HIDE DEF j
    <3> QED  BY <2>0, <2>1, <3>2, <3>3
  <2> QED  BY <1>4, <2>1 DEF Held, F
<1>24. Distinct(t)
  <2>0. \A m \in 1..K : IsInjective(tree.nodes[m].entries)
    BY <1>1, <1>2 DEF Distinct
  <2>1. ASSUME NEW m \in 1..id PROVE IsInjective(t.nodes[m].entries)
    BY <1>5, <1>7, <1>11, <2>0
  <2>2. ASSUME NEW m \in 1..id, NEW e \in F(m), NEW f \in F(m), e.ref = f.ref PROVE e = f
    <3>1. j(m) \in 1..K /\ e \in E(j(m)) /\ f \in E(j(m))
      BY <1>22
    <3> HIDE DEF j
    <3> QED  BY <1>15, <2>2, <3>1
  <2> QED  BY <1>4, <2>1, <2>2 DEF Distinct, F
<1>25. OneLeaf(t, hh)
  <2>0. \A l, m \in 1..K : h[l] = 0 /\ h[m] = 0 => \A e \in E(l), f \in E(m) : e.ref = f.ref => l = m
    BY <1>1, <1>2 DEF OneLeaf, E
  <2>1. ASSUME NEW l \in 1..id, NEW m \in 1..id, hh[l] = 0, hh[m] = 0, NEW e \in F(l), NEW f \in F(m), e.ref = f.ref
        PROVE  l = m
    <3>1. /\ j(l) \in 1..K /\ h[j(l)] = 0 /\ e \in E(j(l))
          /\ j(m) \in 1..K /\ h[j(m)] = 0 /\ f \in E(j(m))
      BY <1>22, <2>1
    <3>2. j(l) = j(m)
      <4> HIDE DEF j
      <4> QED  BY <2>0, <2>1, <3>1
    <3>3. e = f
      <4> HIDE DEF j
      <4> QED  BY <1>15, <2>1, <3>1, <3>2
    <3>4. CASE l = n /\ m = id
      BY <1>2, <1>5, <1>9, <1>10, <1>11, <3>3, <3>4
    <3>5. CASE l = id /\ m = n
      BY <1>2, <1>5, <1>9, <1>10, <1>11, <3>3, <3>5
    <3> QED  BY <3>2, <3>4, <3>5
  <2> QED  BY <1>4, <2>1 DEF OneLeaf, F
<1>26. Filled(t, hh)
  <2>0. \A m \in 1..K : tree.nodes[m].entries = <<>> => m = r /\ h[m] = 0
    BY <1>1, <1>2 DEF Filled, r
  <2>1. ASSUME NEW m \in 1..id, t.nodes[m].entries = <<>> PROVE m = r /\ hh[m] = 0
    <3>1. m # n /\ m # id
      BY <1>5, <1>7, <2>1
    <3>2. tree.nodes[m].entries = <<>> /\ m \in 1..K /\ hh[m] = h[m]
      BY <1>7, <1>10, <1>11, <2>1, <3>1
    <3> QED  BY <2>0, <3>2
  <2> QED  BY <1>4, <2>1 DEF Filled
<1>27. Beside(t, hh, n, id)
  <2>1. n \in 1..id /\ id \in 1..id /\ id # n /\ id # r /\ hh[id] = hh[n]
    BY <1>2, <1>10, <1>11
  <2>2. \A m \in 1..id : hh[m] # 0 => \A e \in F(m) : e.ref # id
    BY <1>10, <1>19
  <2>3. t.nodes[n].entries # <<>>
    BY <1>5, <1>7, <2>1
  <2> QED  BY <1>4, <2>1, <2>2, <2>3 DEF Beside, F
<1>28. Pending(t, hh, n, id)
  BY <1>4, <1>18, <1>20, <1>21, <1>23, <1>24, <1>25, <1>26, <1>27 DEF Pending
<1>29. hh[r] = h[r] /\ hh[n] = h[n]
  BY <1>2, <1>10
<1>30. ASSUME NEW x PROVE x \in LeafEntries(t) <=> x \in LeafEntries(tree)
  <2>1. x \in LeafEntries(t) <=> \E m \in 1..id : t.nodes[m].is_leaf /\ x \in F(m)
    BY <1>4 DEF LeafEntries, F
  <2>2. x \in LeafEntries(tree) <=> \E m \in 1..K : tree.nodes[m].is_leaf /\ x \in E(m)
    BY <1>2 DEF LeafEntries, E
  <2>3. ASSUME NEW m \in 1..id, t.nodes[m].is_leaf, x \in F(m)
        PROVE  \E k \in 1..K : tree.nodes[k].is_leaf /\ x \in E(k)
    <3>1. tree.nodes[j(m)].is_leaf
      BY <1>7, <2>3
    <3>2. j(m) \in 1..K /\ x \in E(j(m))
      BY <1>22, <2>3
    <3> HIDE DEF j
    <3> QED  BY <3>1, <3>2
  <2>4. ASSUME NEW m \in 1..K, tree.nodes[m].is_leaf, x \in E(m)
        PROVE  \E k \in 1..id : t.nodes[k].is_leaf /\ x \in F(k)
    <3>1. m \in 1..id /\ m # id
      BY <1>10
    <3>2. CASE m # n \/ x \in G1
      <4>1. x \in F(m) /\ t.nodes[m].is_leaf
        BY <1>7, <1>9, <2>4, <3>1, <3>2
      <4> QED  BY <3>1, <4>1
    <3>3. CASE m = n /\ x \notin G1
      <4>1. x \in F(id) /\ t.nodes[id].is_leaf
        BY <1>5, <1>7, <1>9, <1>11, <2>4, <3>3
      <4> QED  BY <1>11, <4>1
    <3> QED  BY <3>2, <3>3
  <2> QED  BY <2>1, <2>2, <2>3, <2>4
<1>31. LeafEntries(t) = LeafEntries(tree)
  BY <1>30
<1>32. \E k : /\ Pending(t, k, n, id) /\ k[r] = h[r] /\ k[n] = h[n]
  BY <1>28, <1>29
<1> QED  BY <1>4, <1>31, <1>32 DEF r, id, K

-------------------------------------------------------------------------------
(* adjustTree(): a parent.                                                  *)

\* The entries of a node when the extent of child n has become x.
Renewed(s, n, x) == [i \in 1..Len(s) |-> IF s[i].ref = n THEN Entry(x, n) ELSE s[i]]

\* What adjustTree() makes of the parent's entries: only the node's own has changed.
LEMMA RenewedIs ==
  ASSUME NEW s \in Seq(EntryRecords), NEW n \in Nat, NEW x \in Boxes
  PROVE  /\ Renewed(s, n, x) \in Seq(EntryRecords) /\ Len(Renewed(s, n, x)) = Len(s)
         /\ \A i \in 1..Len(s) : /\ Renewed(s, n, x)[i] = IF s[i].ref = n THEN Entry(x, n) ELSE s[i]
                                 /\ Renewed(s, n, x)[i].ref = s[i].ref
<1> DEFINE u == Renewed(s, n, x)
<1>1. \A i \in 1..Len(s) : s[i] \in EntryRecords
  BY EntriesIn
<1>2. Entry(x, n) \in EntryRecords /\ Entry(x, n).ref = n
  BY EntryIs
<1>3. u \in [1..Len(s) -> EntryRecords]
  BY <1>1, <1>2 DEF Renewed
<1>4. u \in Seq(EntryRecords) /\ Len(u) = Len(s)
  <2>1. Len(s) \in Nat
    OBVIOUS
  <2> HIDE DEF u
  <2> QED  BY <1>3, <2>1, FunctionIsSeq
<1>5. \A i \in 1..Len(s) : u[i] = IF s[i].ref = n THEN Entry(x, n) ELSE s[i]
  BY DEF Renewed
<1> HIDE DEF u
<1>6. \A i \in 1..Len(s) : u[i].ref = s[i].ref
  BY <1>2, <1>5
<1> QED  BY <1>4, <1>5, <1>6 DEF u

\* What becomes of the set of them.
RenewedRange(s, n, x, S) ==
  \A e : e \in S <=> \/ e \in Range(s) /\ e.ref # n
                     \/ e = Entry(x, n) /\ \E f \in Range(s) : f.ref = n

\* Its entries stay different.
LEMMA RenewedEntries ==
  ASSUME NEW s \in Seq(EntryRecords), NEW n \in Nat, NEW x \in Boxes, IsInjective(s),
         \A e, f \in Range(s) : e.ref = f.ref => e = f
  PROVE  IsInjective(Renewed(s, n, x)) /\ RenewedRange(s, n, x, Range(Renewed(s, n, x)))
<1> DEFINE u == Renewed(s, n, x)
<1>1. /\ u \in Seq(EntryRecords) /\ Len(u) = Len(s)
      /\ \A i \in 1..Len(s) : /\ u[i] = IF s[i].ref = n THEN Entry(x, n) ELSE s[i]
                              /\ u[i].ref = s[i].ref
  BY RenewedIs
<1> HIDE DEF u
<1>2. DOMAIN s = 1..Len(s) /\ DOMAIN u = 1..Len(s)
  BY <1>1
<1>3. \A e : e \in Range(s) <=> \E i \in 1..Len(s) : s[i] = e
  BY <1>2 DEF Range
<1>4. \A e : e \in Range(u) <=> \E i \in 1..Len(s) : u[i] = e
  BY <1>2 DEF Range
<1>5. IsInjective(u)
  <2>1. ASSUME NEW i \in 1..Len(s), NEW j \in 1..Len(s), u[i] = u[j] PROVE i = j
    <3>1. s[i].ref = s[j].ref
      BY <1>1, <2>1
    <3>2. s[i] = s[j]
      BY <1>3, <3>1
    <3> QED  BY <1>2, <3>2 DEF IsInjective
  <2> QED  BY <1>2, <2>1 DEF IsInjective
<1>6. ASSUME NEW e
      PROVE  e \in Range(u) <=> \/ e \in Range(s) /\ e.ref # n
                                \/ e = Entry(x, n) /\ \E f \in Range(s) : f.ref = n
  <2>1. ASSUME e \in Range(u)
        PROVE  \/ e \in Range(s) /\ e.ref # n
               \/ e = Entry(x, n) /\ \E f \in Range(s) : f.ref = n
    <3>1. PICK i \in 1..Len(s) : u[i] = e
      BY <1>4, <2>1
    <3>2. s[i] \in Range(s)
      BY <1>3
    <3> QED  BY <1>1, <3>1, <3>2
  <2>2. ASSUME e \in Range(s), e.ref # n PROVE e \in Range(u)
    <3>1. PICK i \in 1..Len(s) : s[i] = e
      BY <1>3, <2>2
    <3>2. u[i] = e
      BY <1>1, <2>2, <3>1
    <3> QED  BY <1>4, <3>2
  <2>3. ASSUME e = Entry(x, n), NEW f \in Range(s), f.ref = n PROVE e \in Range(u)
    <3>1. PICK i \in 1..Len(s) : s[i] = f
      BY <1>3
    <3>2. u[i] = e
      BY <1>1, <2>3, <3>1
    <3> QED  BY <1>4, <3>2
  <2> QED  BY <2>1, <2>2, <2>3
<1> QED  BY <1>5, <1>6 DEF u, RenewedRange

-------------------------------------------------------------------------------
(* A node's parent brings its entry up to date and takes in the new node.    *)

\* The parent's entries, and the tree, after node nn was put beside n.
ParentEntries(tree, n, nn) ==
  LET u == Renewed(tree.nodes[tree.nodes[n].parent].entries, n, NodeExtent(tree, n)) IN
  IF nn = 0 THEN u ELSE Append(u, Entry(NodeExtent(tree, nn), nn))

\* The tree after the parent was brought up to date.
ParentParts(tree, n, nn, t) ==
  LET p == tree.nodes[n].parent IN
  /\ IsTree(t) /\ t.root_id = tree.root_id /\ t.node_id_gen = tree.node_id_gen
  /\ \A m \in Numbers(tree) :
       /\ t.nodes[m].entries = IF m = p THEN ParentEntries(tree, n, nn) ELSE tree.nodes[m].entries
       /\ t.nodes[m].is_leaf = tree.nodes[m].is_leaf
       /\ t.nodes[m].parent = IF nn # 0 /\ m = nn THEN p ELSE tree.nodes[m].parent

\* Entries are set at a node.
LEMMA EntriesSet ==
  ASSUME NEW tree, IsTree(tree), NEW p \in Numbers(tree), NEW s \in Seq(EntryRecords)
  PROVE  LET t == [tree EXCEPT !.nodes[p].entries = s] IN
         /\ IsTree(t) /\ t.root_id = tree.root_id /\ t.node_id_gen = tree.node_id_gen
         /\ \A m \in Numbers(tree) :
              /\ t.nodes[m].entries = IF m = p THEN s ELSE tree.nodes[m].entries
              /\ t.nodes[m].is_leaf = tree.nodes[m].is_leaf
              /\ t.nodes[m].parent = tree.nodes[m].parent
<1> DEFINE v == [tree.nodes[p] EXCEPT !.entries = s]
           u == [tree.nodes EXCEPT ![p] = v]
           t == [tree EXCEPT !.nodes = u]
<1>1. tree \in TreeRecords /\ tree.nodes \in Seq(NodeRecords) /\ Len(tree.nodes) = tree.node_id_gen /\ p \in 1..Len(tree.nodes)
  BY TreeIs DEF Numbers
<1>2. tree.nodes[p] \in NodeRecords
  BY NodeIs
<1>3. [tree EXCEPT !.nodes[p].entries = s] = t
  OBVIOUS
<1>4. v \in NodeRecords /\ v.entries = s /\ v.is_leaf = tree.nodes[p].is_leaf /\ v.parent = tree.nodes[p].parent
  BY <1>2, SetEntries
<1> HIDE DEF v
<1>5. u \in Seq(NodeRecords) /\ Len(u) = Len(tree.nodes) /\ u[p] = v
      /\ \A m \in 1..Len(tree.nodes) : m # p => u[m] = tree.nodes[m]
  BY <1>1, <1>4, SetNode
<1> HIDE DEF u
<1>6. t \in TreeRecords /\ t.nodes = u /\ t.root_id = tree.root_id /\ t.node_id_gen = tree.node_id_gen
  BY <1>1, <1>5, SetNodes
<1> HIDE DEF t
<1>7. IsTree(t)
  BY <1>1, <1>5, <1>6 DEF IsTree
<1>8. \A m \in Numbers(tree) : m \in 1..Len(tree.nodes)
  BY <1>1 DEF Numbers
<1>9. \A m \in Numbers(tree) :
              /\ t.nodes[m].entries = IF m = p THEN s ELSE tree.nodes[m].entries
              /\ t.nodes[m].is_leaf = tree.nodes[m].is_leaf
              /\ t.nodes[m].parent = tree.nodes[m].parent
  BY <1>4, <1>5, <1>6, <1>8
<1> QED  BY <1>3, <1>6, <1>7, <1>9

\* The parent is set at a node.
LEMMA ParentSet ==
  ASSUME NEW tree, IsTree(tree), NEW q \in Numbers(tree), NEW p \in Nat
  PROVE  LET t == [tree EXCEPT !.nodes[q].parent = p] IN
         /\ IsTree(t) /\ t.root_id = tree.root_id /\ t.node_id_gen = tree.node_id_gen
         /\ \A m \in Numbers(tree) :
              /\ t.nodes[m].entries = tree.nodes[m].entries
              /\ t.nodes[m].is_leaf = tree.nodes[m].is_leaf
              /\ t.nodes[m].parent = IF m = q THEN p ELSE tree.nodes[m].parent
<1> DEFINE v == [tree.nodes[q] EXCEPT !.parent = p]
           u == [tree.nodes EXCEPT ![q] = v]
           t == [tree EXCEPT !.nodes = u]
<1>1. tree \in TreeRecords /\ tree.nodes \in Seq(NodeRecords) /\ Len(tree.nodes) = tree.node_id_gen /\ q \in 1..Len(tree.nodes)
  BY TreeIs DEF Numbers
<1>2. tree.nodes[q] \in NodeRecords
  BY NodeIs
<1>3. [tree EXCEPT !.nodes[q].parent = p] = t
  OBVIOUS
<1>4. v \in NodeRecords /\ v.parent = p /\ v.is_leaf = tree.nodes[q].is_leaf /\ v.entries = tree.nodes[q].entries
  BY <1>2, SetParent
<1> HIDE DEF v
<1>5. u \in Seq(NodeRecords) /\ Len(u) = Len(tree.nodes) /\ u[q] = v
      /\ \A m \in 1..Len(tree.nodes) : m # q => u[m] = tree.nodes[m]
  BY <1>1, <1>4, SetNode
<1> HIDE DEF u
<1>6. t \in TreeRecords /\ t.nodes = u /\ t.root_id = tree.root_id /\ t.node_id_gen = tree.node_id_gen
  BY <1>1, <1>5, SetNodes
<1> HIDE DEF t
<1>7. IsTree(t)
  BY <1>1, <1>5, <1>6 DEF IsTree
<1>8. \A m \in Numbers(tree) : m \in 1..Len(tree.nodes)
  BY <1>1 DEF Numbers
<1>9. \A m \in Numbers(tree) :
              /\ t.nodes[m].entries = tree.nodes[m].entries
              /\ t.nodes[m].is_leaf = tree.nodes[m].is_leaf
              /\ t.nodes[m].parent = IF m = q THEN p ELSE tree.nodes[m].parent
  BY <1>4, <1>5, <1>6, <1>8
<1> QED  BY <1>3, <1>6, <1>7, <1>9

\* What adjustTree() makes of the parent.
LEMMA AdjustParentParts ==
  ASSUME NEW tree, IsTree(tree), NEW n \in Numbers(tree), tree.nodes[n].parent \in Numbers(tree),
         NodeExtent(tree, n) \in Boxes, NEW nn \in Numbers(tree) \cup {0},
         nn # 0 => NodeExtent(tree, nn) \in Boxes
  PROVE  ParentEntries(tree, n, nn) \in Seq(EntryRecords) /\ ParentParts(tree, n, nn, AdjustParent(tree, n, nn))
<1> DEFINE p == tree.nodes[n].parent
           x == NodeExtent(tree, n)
           s == tree.nodes[p].entries
           u == Renewed(s, n, x)
           w == ParentEntries(tree, n, nn)
<1>1. s \in Seq(EntryRecords) /\ n \in Nat /\ p \in Nat
  BY NodeIs DEF Numbers
<1>2. u \in Seq(EntryRecords)
  <2> HIDE DEF s, x, p
  <2>1. x \in Boxes
    BY DEF x
  <2> QED  BY <1>1, <2>1, RenewedIs
<1>3. w \in Seq(EntryRecords)
  <2>1. CASE nn = 0
    BY <1>2, <2>1 DEF ParentEntries
  <2>2. CASE nn # 0
    <3>1. Entry(NodeExtent(tree, nn), nn) \in EntryRecords
      BY <2>2, EntryIs DEF Numbers
    <3> QED  BY <1>2, <2>2, <3>1 DEF ParentEntries
  <2> QED  BY <2>1, <2>2
<1>4. CASE nn = 0
  <2> DEFINE tt == [tree EXCEPT !.nodes[p].entries = w]
  <2>1. AdjustParent(tree, n, nn) = tt
    BY <1>4 DEF AdjustParent, ParentEntries, Renewed
  <2> HIDE DEF w, p
  <2>2. p \in Numbers(tree)
    BY DEF p
  <2>4. /\ IsTree(tt) /\ tt.root_id = tree.root_id /\ tt.node_id_gen = tree.node_id_gen
        /\ \A m \in Numbers(tree) :
              /\ tt.nodes[m].entries = IF m = p THEN w ELSE tree.nodes[m].entries
              /\ tt.nodes[m].is_leaf = tree.nodes[m].is_leaf
              /\ tt.nodes[m].parent = tree.nodes[m].parent
    BY <1>3, <2>2, EntriesSet
  <2> HIDE DEF tt
  <2>6. ParentParts(tree, n, nn, tt)
    BY <1>4, <2>4 DEF ParentParts, w, p
  <2> QED  BY <1>3, <2>1, <2>6 DEF w
<1>5. CASE nn # 0
  <2> DEFINE t == [tree EXCEPT !.nodes[nn].parent = p]
             tt == [t EXCEPT !.nodes[p].entries = w]
  <2>1. AdjustParent(tree, n, nn) = tt
    BY <1>5 DEF AdjustParent, ParentEntries, Renewed
  <2> HIDE DEF w, p
  <2>2. /\ IsTree(t) /\ t.root_id = tree.root_id /\ t.node_id_gen = tree.node_id_gen
        /\ \A m \in Numbers(tree) :
              /\ t.nodes[m].entries = tree.nodes[m].entries
              /\ t.nodes[m].is_leaf = tree.nodes[m].is_leaf
              /\ t.nodes[m].parent = IF m = nn THEN p ELSE tree.nodes[m].parent
    <3>1. nn \in Numbers(tree) /\ p \in Nat
      BY <1>1, <1>5
    <3> QED  BY <3>1, ParentSet
  <2> HIDE DEF t
  <2>3. Numbers(t) = Numbers(tree) /\ p \in Numbers(t)
    BY <2>2 DEF Numbers, p
  <2>4. /\ IsTree(tt) /\ tt.root_id = t.root_id /\ tt.node_id_gen = t.node_id_gen
        /\ \A m \in Numbers(t) :
              /\ tt.nodes[m].entries = IF m = p THEN w ELSE t.nodes[m].entries
              /\ tt.nodes[m].is_leaf = t.nodes[m].is_leaf
              /\ tt.nodes[m].parent = t.nodes[m].parent
    BY <1>3, <2>2, <2>3, EntriesSet
  <2> HIDE DEF tt
  <2>5. \A m \in Numbers(tree) :
              /\ tt.nodes[m].entries = IF m = p THEN w ELSE tree.nodes[m].entries
              /\ tt.nodes[m].is_leaf = tree.nodes[m].is_leaf
              /\ tt.nodes[m].parent = IF nn # 0 /\ m = nn THEN p ELSE tree.nodes[m].parent
    BY <1>5, <2>2, <2>3, <2>4
  <2>6. ParentParts(tree, n, nn, tt)
    BY <2>2, <2>4, <2>5 DEF ParentParts, w, p
  <2> QED  BY <1>3, <2>1, <2>6 DEF w
<1> QED  BY <1>4, <1>5

\* What a node's extent covers.
LEMMA NodeCovers ==
  ASSUME NEW t, IsTree(t), NEW m \in Numbers(t), t.nodes[m].entries # <<>>
  PROVE  NodeExtent(t, m) \in Boxes /\ \A f \in Kids(t, m) : Covers(NodeExtent(t, m), f.extent)
<1> DEFINE s == t.nodes[m].entries
<1>1. s \in Seq(EntryRecords)
  BY NodeIs
<1>2. NodeExtent(t, m) = ComputeExtent(s)
  BY DEF NodeExtent
<1>3. \A f \in Kids(t, m) : \E i \in 1..Len(s) : s[i] = f
  BY <1>1 DEF Kids, Range
<1> HIDE DEF s
<1>4. s # <<>>
  BY DEF s
<1> QED  BY <1>1, <1>2, <1>3, <1>4, ExtentCovers

\* Then the parent is the node that changed, one level up, and no feature is lost.
LEMMA ParentPending ==
  ASSUME NEW tree, NEW h, NEW n, NEW nn, Pending(tree, h, n, nn), n # tree.root_id,
         NEW t, ParentParts(tree, n, nn, t)
  PROVE  /\ Pending(t, h, tree.nodes[n].parent, 0) /\ t.root_id = tree.root_id
         /\ t.node_id_gen = tree.node_id_gen
         /\ tree.nodes[n].parent \in Numbers(tree) /\ h[tree.nodes[n].parent] = h[n] + 1
         /\ LeafEntries(t) = LeafEntries(tree)
<1> DEFINE p == tree.nodes[n].parent
           x == NodeExtent(tree, n)
           y == NodeExtent(tree, nn)
           r == tree.root_id
           N == Numbers(tree)
           E(m) == Kids(tree, m)
           F(m) == Kids(t, m)
<1>1. /\ IsTree(tree) /\ Ranked(tree, h) /\ Linked(tree, h) /\ Hung(tree, h, nn) /\ Held(tree, h, n)
      /\ Distinct(tree) /\ OneLeaf(tree, h) /\ Filled(tree, h) /\ Beside(tree, h, n, nn)
  BY DEF Pending
<1>2. /\ n \in N
      /\ nn # 0 => /\ nn \in N /\ nn # n /\ nn # r /\ h[nn] = h[n]
                   /\ \A m \in N : h[m] # 0 => \A e \in E(m) : e.ref # nn
  BY <1>1 DEF Beside
<1>3. N \subseteq Nat /\ 0 \notin N /\ r \in N /\ tree.nodes[r].parent = 0
  BY <1>1, TreeIs DEF Numbers, Hung
<1>4. \A m \in N : h[m] \in Nat
  BY <1>1 DEF Ranked
<1>5. \A m \in N \ {r, nn} : LET q == tree.nodes[m].parent IN q \in N /\ h[q] # 0 /\ \E e \in E(q) : e.ref = m
  BY <1>1 DEF Hung
<1>6. p \in N /\ h[p] # 0
  BY <1>2, <1>3, <1>5
<1>6a. PICK e0 \in E(p) : e0.ref = n
  BY <1>2, <1>3, <1>5
<1>7. \A m \in N : h[m] # 0 => \A e \in E(m) : e.ref \in N /\ tree.nodes[e.ref].parent = m /\ h[m] = h[e.ref] + 1
  BY <1>1 DEF Linked
<1>8. h[p] = h[n] + 1
  BY <1>6, <1>6a, <1>7
<1>9. \A m \in N \ {r} : tree.nodes[m].entries # <<>>
  BY <1>1 DEF Filled
<1>10. x \in Boxes /\ \A f \in E(n) : Covers(x, f.extent)
  BY <1>1, <1>2, <1>9, NodeCovers
<1>11. nn # 0 => y \in Boxes /\ \A f \in E(nn) : Covers(y, f.extent)
  BY <1>1, <1>2, <1>9, NodeCovers
<1> DEFINE s == tree.nodes[p].entries
           u == Renewed(s, n, x)
<1>12. /\ IsTree(t) /\ t.root_id = r /\ t.node_id_gen = tree.node_id_gen /\ Numbers(t) = N
       /\ \A m \in N :
            /\ t.nodes[m].entries = IF m = p THEN ParentEntries(tree, n, nn) ELSE tree.nodes[m].entries
            /\ t.nodes[m].is_leaf = tree.nodes[m].is_leaf
            /\ t.nodes[m].parent = IF nn # 0 /\ m = nn THEN p ELSE tree.nodes[m].parent
  BY DEF ParentParts, Numbers
<1>13. s \in Seq(EntryRecords) /\ IsInjective(s) /\ \A e, f \in E(p) : e.ref = f.ref => e = f
  BY <1>1, <1>6, NodeIs DEF Distinct
<1>14. u \in Seq(EntryRecords) /\ IsInjective(u) /\ RenewedRange(s, n, x, Range(u))
  <2>1. n \in Nat /\ Range(s) = E(p)
    BY <1>2, <1>3 DEF Kids
  <2>2. s \in Seq(EntryRecords) /\ n \in Nat /\ x \in Boxes /\ IsInjective(s) /\ \A e, f \in Range(s) : e.ref = f.ref => e = f
    BY <1>10, <1>13, <2>1
  <2> HIDE DEF s, x
  <2> QED  BY <2>2, RenewedIs, RenewedEntries
<1>15. \A e : e \in Range(u) <=> (e \in E(p) /\ e.ref # n) \/ e = Entry(x, n)
  BY <1>6a, <1>14 DEF RenewedRange, Kids
<1>16. Entry(x, n).ref = n /\ Entry(x, n).extent = x /\ Entry(y, nn).ref = nn /\ Entry(y, nn).extent = y
  BY DEF Entry
<1>17. /\ IsInjective(t.nodes[p].entries)
       /\ \A e : e \in F(p) <=> \/ e \in E(p) /\ e.ref # n
                                \/ e = Entry(x, n)
                                \/ nn # 0 /\ e = Entry(y, nn)
  <2>1. t.nodes[p].entries = IF nn = 0 THEN u ELSE Append(u, Entry(y, nn))
    BY <1>6, <1>12 DEF ParentEntries
  <2>2. CASE nn = 0
    BY <1>14, <1>15, <2>1, <2>2 DEF Kids
  <2>3. CASE nn # 0
    <3>1. Entry(y, nn) \in EntryRecords
      BY <1>2, <1>3, <1>11, <2>3, EntryIs
    <3>2. Entry(y, nn) \notin Range(u)
      BY <1>2, <1>6, <1>15, <1>16, <2>3
    <3> DEFINE a == Entry(y, nn)
    <3> HIDE DEF u, a
    <3>3. Range(Append(u, a)) = Range(u) \cup {a} /\ IsInjective(Append(u, a))
      BY <1>14, <3>1, <3>2, AppendToQueue DEF a
    <3>4. t.nodes[p].entries = Append(u, a)
      BY <2>1, <2>3 DEF a
    <3> QED  BY <1>15, <2>3, <3>3, <3>4 DEF Kids, a
  <2> QED  BY <2>2, <2>3
<1>18. \A m \in N : m # p => F(m) = E(m)
  BY <1>12 DEF Kids
<1> HIDE DEF x, y, r, N, s, u, E, F
<1>19. Ranked(t, h)
  BY <1>1, <1>12 DEF Ranked, N, r
<1>20. ASSUME NEW m \in N, h[m] # 0, NEW e \in F(m)
       PROVE  e.ref \in N /\ t.nodes[e.ref].parent = m /\ h[m] = h[e.ref] + 1
  <2>1. CASE e \in E(m)
    <3>1. e.ref \in N /\ tree.nodes[e.ref].parent = m /\ h[m] = h[e.ref] + 1
      BY <1>7, <1>20, <2>1
    <3>2. ~(nn # 0 /\ e.ref = nn)
      BY <1>2, <1>20, <2>1
    <3> QED  BY <1>12, <3>1, <3>2
  <2>2. CASE e \notin E(m)
    <3>1. m = p
      BY <1>18, <1>20, <2>2
    <3>2. CASE e = Entry(x, n)
      <4>1. ~(nn # 0 /\ n = nn)
        BY <1>2
      <4> QED  BY <1>2, <1>8, <1>12, <1>16, <3>1, <3>2, <4>1
    <3>3. CASE nn # 0 /\ e = Entry(y, nn)
      BY <1>2, <1>8, <1>12, <1>16, <3>1, <3>3
    <3> QED  BY <1>17, <1>20, <2>2, <3>1, <3>2, <3>3
  <2> QED  BY <2>1, <2>2
<1>21. Linked(t, h)
  BY <1>12, <1>20 DEF Linked, F
<1>22. Hung(t, h, 0)
  <2>1. t.nodes[r].parent = 0
    BY <1>2, <1>3, <1>12
  <2>2. ASSUME NEW m \in N, m # r
        PROVE  LET q == t.nodes[m].parent IN q \in N /\ h[q] # 0 /\ \E e \in F(q) : e.ref = m
    <3>1. CASE nn # 0 /\ m = nn
      <4>1. t.nodes[m].parent = p
        BY <1>12, <3>1
      <4>2. Entry(y, nn) \in F(p)
        BY <1>17, <3>1
      <4> HIDE DEF p
      <4> QED  BY <1>6, <1>16, <3>1, <4>1, <4>2
    <3>2. CASE ~(nn # 0 /\ m = nn)
      <4> DEFINE q == tree.nodes[m].parent
      <4>1. m \in N \ {r, nn}
        BY <1>3, <2>2, <3>2
      <4>2. t.nodes[m].parent = q /\ q \in N /\ h[q] # 0
        BY <1>5, <1>12, <3>2, <4>1
      <4>3. PICK e \in E(q) : e.ref = m
        BY <1>5, <4>1
      <4>4. \E f \in F(q) : f.ref = m
        <5>1. CASE q # p
          <6> HIDE DEF p, q
          <6> QED  BY <1>18, <4>2, <4>3, <5>1
        <5>2. CASE q = p /\ m # n
          <6> HIDE DEF p, q
          <6> QED  BY <1>17, <4>3, <5>2
        <5>3. CASE q = p /\ m = n
          <6> HIDE DEF p, q
          <6> QED  BY <1>16, <1>17, <5>3
        <5> QED  BY <5>1, <5>2, <5>3
      <4> HIDE DEF q
      <4> QED  BY <4>2, <4>4
    <3> QED  BY <3>1, <3>2
  <2>3. r \in Numbers(t) /\ t.root_id = r
    BY <1>3, <1>12
  <2> QED  BY <1>12, <2>1, <2>2, <2>3 DEF Hung, F
<1>23. Held(t, h, p)
  <2>0. \A m \in N : h[m] # 0 => \A e \in E(m) : e.ref # n => \A f \in E(e.ref) : Covers(e.extent, f.extent)
    BY <1>1 DEF Held, E, N
  <2>1. ASSUME NEW m \in N, h[m] # 0, NEW e \in F(m), e.ref # p, NEW f \in F(e.ref)
        PROVE  Covers(e.extent, f.extent)
    <3>1. e.ref \in N /\ f \in E(e.ref)
      <4>1. e.ref \in N
        BY <1>20, <2>1
      <4>2. F(e.ref) = E(e.ref)
        BY <1>18, <2>1, <4>1
      <4> QED  BY <2>1, <4>1, <4>2
    <3>2. CASE e \in E(m) /\ e.ref # n
      BY <2>0, <2>1, <3>1, <3>2
    <3>3. CASE e \in E(m) /\ e.ref = n
      <4>1. m = p
        BY <1>7, <2>1, <3>3
      <4>2. e = Entry(x, n)
        BY <1>2, <1>16, <1>17, <2>1, <3>3, <4>1
      <4> QED  BY <1>10, <1>16, <3>1, <4>2
    <3>4. CASE e \notin E(m)
      <4>1. m = p
        BY <1>18, <2>1, <3>4
      <4>2. e = Entry(x, n) \/ (nn # 0 /\ e = Entry(y, nn))
        BY <1>17, <2>1, <3>4, <4>1
      <4>3. CASE e = Entry(x, n)
        BY <1>10, <1>16, <3>1, <4>3
      <4>4. CASE nn # 0 /\ e = Entry(y, nn)
        BY <1>11, <1>16, <3>1, <4>4
      <4> QED  BY <4>2, <4>3, <4>4
    <3> QED  BY <3>2, <3>3, <3>4
  <2> QED  BY <1>12, <2>1 DEF Held, F
<1>24. Distinct(t)
  <2>0. \A m \in N : IsInjective(tree.nodes[m].entries) /\ \A e, f \in E(m) : e.ref = f.ref => e = f
    BY <1>1 DEF Distinct, E, N
  <2>1. ASSUME NEW m \in N PROVE IsInjective(t.nodes[m].entries)
    <3>1. CASE m = p
      BY <1>17, <3>1
    <3>2. CASE m # p
      BY <1>12, <2>0, <3>2
    <3> QED  BY <3>1, <3>2
  <2>2. ASSUME NEW m \in N, NEW e \in F(m), NEW f \in F(m), e.ref = f.ref PROVE e = f
    <3>1. CASE m # p
      <4>1. e \in E(m) /\ f \in E(m)
        BY <1>18, <3>1
      <4> QED  BY <2>0, <2>2, <4>1
    <3>2. CASE m = p
      <4>1. nn # 0 => \A k \in E(p) : k.ref # nn
        BY <1>2, <1>6
      <4>2. \A k \in F(p) : k = Entry(x, n) \/ (nn # 0 /\ k = Entry(y, nn)) \/ (k \in E(p) /\ k.ref # n)
        BY <1>17
      <4>3. nn # 0 => nn # n
        BY <1>2
      <4>4. \A j, k \in E(p) : j.ref = k.ref => j = k
        BY <1>6, <2>0
      <4> HIDE DEF p
      <4> QED  BY <1>16, <2>2, <3>2, <4>1, <4>2, <4>3, <4>4
    <3> QED  BY <3>1, <3>2
  <2> QED  BY <1>12, <2>1, <2>2 DEF Distinct, F
<1>25. OneLeaf(t, h)
  <2>0. \A l, m \in N : h[l] = 0 /\ h[m] = 0 => \A e \in E(l), f \in E(m) : e.ref = f.ref => l = m
    BY <1>1 DEF OneLeaf, E, N
  <2>1. ASSUME NEW l \in N, NEW m \in N, h[l] = 0, h[m] = 0, NEW e \in F(l), NEW f \in F(m), e.ref = f.ref
        PROVE  l = m
    <3>1. l # p /\ m # p
      BY <1>6, <2>1
    <3>2. e \in E(l) /\ f \in E(m)
      BY <1>18, <3>1
    <3> QED  BY <2>0, <2>1, <3>2
  <2> QED  BY <1>12, <2>1 DEF OneLeaf, F
<1>26. Filled(t, h)
  <2>1. ASSUME NEW m \in N, t.nodes[m].entries = <<>> PROVE m = r /\ h[m] = 0
    <3>1. m # p
      <4>1. Entry(x, n) \in F(p)
        BY <1>17
      <4>2. t.nodes[p].entries # <<>>
        BY <4>1, EmptyQueue DEF F, Kids
      <4> QED  BY <2>1, <4>2
    <3>2. tree.nodes[m].entries = <<>>
      BY <1>12, <2>1, <3>1
    <3> QED  BY <1>1, <3>2 DEF Filled, r, N
  <2> QED  BY <1>12, <2>1 DEF Filled
<1>27. Beside(t, h, p, 0)
  BY <1>6, <1>12 DEF Beside
<1>28. Pending(t, h, p, 0)
  BY <1>12, <1>19, <1>21, <1>22, <1>23, <1>24, <1>25, <1>26, <1>27 DEF Pending
<1>29. ASSUME NEW m \in N PROVE (t.nodes[m].is_leaf <=> tree.nodes[m].is_leaf) /\ (t.nodes[m].is_leaf => F(m) = E(m))
  <2>1. ~tree.nodes[p].is_leaf
    BY <1>1, <1>6 DEF Ranked, N
  <2>2. t.nodes[m].is_leaf <=> tree.nodes[m].is_leaf
    BY <1>12
  <2>3. CASE m = p
    BY <2>1, <2>2, <2>3
  <2>4. CASE m # p
    BY <1>18, <2>2, <2>4
  <2> QED  BY <2>3, <2>4
<1>30. ASSUME NEW z PROVE z \in LeafEntries(t) <=> z \in LeafEntries(tree)
  <2>1. z \in LeafEntries(t) <=> \E m \in N : t.nodes[m].is_leaf /\ z \in F(m)
    BY <1>12 DEF LeafEntries, F
  <2>2. z \in LeafEntries(tree) <=> \E m \in N : tree.nodes[m].is_leaf /\ z \in E(m)
    BY DEF LeafEntries, E, N
  <2> QED  BY <1>29, <2>1, <2>2
<1>31. LeafEntries(t) = LeafEntries(tree)
  BY <1>30
<1> QED  BY <1>6, <1>8, <1>12, <1>28, <1>31 DEF r, N

-------------------------------------------------------------------------------
(* adjustTree(): the root.                                                  *)

\* The entries of a new root.
RootEntries(tree, n, nn) == <<Entry(NodeExtent(tree, n), n), Entry(NodeExtent(tree, nn), nn)>>

\* A new root over two nodes.
RootParts(tree, n, nn, t) ==
  LET id == tree.node_id_gen + 1 IN
  /\ IsTree(t) /\ t.root_id = id /\ t.node_id_gen = id
  /\ t.nodes[id].entries = RootEntries(tree, n, nn) /\ ~t.nodes[id].is_leaf /\ t.nodes[id].parent = 0
  /\ \A m \in Numbers(tree) :
       /\ t.nodes[m].entries = tree.nodes[m].entries
       /\ t.nodes[m].is_leaf = tree.nodes[m].is_leaf
       /\ t.nodes[m].parent = IF m = n \/ m = nn THEN id ELSE tree.nodes[m].parent

\* When the root was split, a new one is made over the two.
LEMMA AdjustRootParts ==
  ASSUME NEW tree, IsTree(tree), NEW n \in Numbers(tree), NEW nn \in Numbers(tree),
         NodeExtent(tree, n) \in Boxes, NodeExtent(tree, nn) \in Boxes
  PROVE  RootParts(tree, n, nn, AdjustRoot(tree, n, nn))
<1> DEFINE K == tree.node_id_gen
           id == K + 1
           s == RootEntries(tree, n, nn)
           v == [parent |-> 0, is_leaf |-> FALSE, entries |-> s]
           a == [tree.nodes[n] EXCEPT !.parent = id]
           x == [tree.nodes EXCEPT ![n] = a]
           b == [x[nn] EXCEPT !.parent = id]
           y == [x EXCEPT ![nn] = b]
           w == Append(y, v)
           t1 == [tree EXCEPT !.root_id = id]
           t2 == [t1 EXCEPT !.node_id_gen = id]
           t == [t2 EXCEPT !.nodes = w]
<1>1. /\ tree \in TreeRecords /\ tree.nodes \in Seq(NodeRecords) /\ Len(tree.nodes) = K /\ K \in Nat
      /\ Numbers(tree) = 1..K /\ n \in 1..K /\ nn \in 1..K
  BY TreeIs DEF Numbers
<1>2. AdjustRoot(tree, n, nn) = t
  <2>1. AdjustRoot(tree, n, nn) = [tree EXCEPT !.root_id = id, !.node_id_gen = id,
                                   !.nodes = Append([@ EXCEPT ![n].parent = id, ![nn].parent = id], v)]
    BY DEF AdjustRoot, RootEntries
  <2>2. [tree.nodes EXCEPT ![n].parent = id, ![nn].parent = id] = y
    OBVIOUS
  <2> QED  BY <2>1, <2>2
<1>3. s \in Seq(EntryRecords)
  <2>1. n \in Nat /\ nn \in Nat
    BY <1>1
  <2>2. Entry(NodeExtent(tree, n), n) \in EntryRecords /\ Entry(NodeExtent(tree, nn), nn) \in EntryRecords
    BY <2>1, EntryIs
  <2> QED  BY <2>2 DEF RootEntries
<1> HIDE DEF s
<1>4. v \in NodeRecords /\ v.entries = s /\ v.is_leaf = FALSE /\ v.parent = 0
  BY <1>3 DEF NodeRecords
<1> HIDE DEF v, K
<1>5. id \in Nat
  BY <1>1
<1>6. a \in NodeRecords /\ a.parent = id /\ a.is_leaf = tree.nodes[n].is_leaf /\ a.entries = tree.nodes[n].entries
  <2>1. tree.nodes[n] \in NodeRecords
    BY NodeIs
  <2> HIDE DEF id
  <2> QED  BY <1>5, <2>1, SetParent
<1> HIDE DEF a
<1>7. x \in Seq(NodeRecords) /\ Len(x) = K /\ x[n] = a /\ \A m \in 1..K : m # n => x[m] = tree.nodes[m]
  BY <1>1, <1>6, SetNode
<1> HIDE DEF x
<1>8. b \in NodeRecords /\ b.parent = id /\ b.is_leaf = x[nn].is_leaf /\ b.entries = x[nn].entries
  <2>1. x[nn] \in NodeRecords
    BY <1>1, <1>7
  <2> HIDE DEF id
  <2> QED  BY <1>5, <2>1, SetParent
<1> HIDE DEF b
<1>9. y \in Seq(NodeRecords) /\ Len(y) = K /\ y[nn] = b /\ \A m \in 1..K : m # nn => y[m] = x[m]
  BY <1>1, <1>7, <1>8, SetNode
<1> HIDE DEF y
<1>10. w \in Seq(NodeRecords) /\ Len(w) = id /\ w[id] = v /\ \A m \in 1..K : w[m] = y[m]
  BY <1>1, <1>4, <1>9
<1> HIDE DEF w
<1>11. t1 \in TreeRecords /\ t1.nodes = tree.nodes /\ t1.root_id = id
  <2> HIDE DEF id
  <2> QED  BY <1>1, <1>5, SetRoot
<1> HIDE DEF t1
<1>12. t2 \in TreeRecords /\ t2.root_id = id /\ t2.node_id_gen = id
  <2> HIDE DEF id
  <2> QED  BY <1>5, <1>11, SetGen
<1> HIDE DEF t2
<1>13. t \in TreeRecords /\ t.nodes = w /\ t.root_id = id /\ t.node_id_gen = id
  BY <1>10, <1>12, SetNodes
<1> HIDE DEF t
<1>14. IsTree(t)
  BY <1>10, <1>13 DEF IsTree
<1>15. ASSUME NEW m \in 1..K
       PROVE  /\ t.nodes[m].entries = tree.nodes[m].entries
              /\ t.nodes[m].is_leaf = tree.nodes[m].is_leaf
              /\ t.nodes[m].parent = IF m = n \/ m = nn THEN id ELSE tree.nodes[m].parent
  <2>1. t.nodes[m] = y[m]
    BY <1>10, <1>13
  <2>2. x[m].entries = tree.nodes[m].entries /\ x[m].is_leaf = tree.nodes[m].is_leaf
        /\ x[m].parent = IF m = n THEN id ELSE tree.nodes[m].parent
    BY <1>6, <1>7
  <2>3. y[m].entries = x[m].entries /\ y[m].is_leaf = x[m].is_leaf /\ y[m].parent = IF m = nn THEN id ELSE x[m].parent
    BY <1>8, <1>9
  <2> QED  BY <2>1, <2>2, <2>3
<1>16. t.nodes[id].entries = s /\ t.nodes[id].is_leaf = FALSE /\ t.nodes[id].parent = 0
  BY <1>4, <1>10, <1>13
<1> QED  BY <1>1, <1>2, <1>13, <1>14, <1>15, <1>16 DEF RootParts, K, s

\* And the tree is as it should be.
LEMMA RootPending ==
  ASSUME NEW tree, NEW h, NEW n, NEW nn, Pending(tree, h, n, nn), n = tree.root_id, nn # 0,
         NEW t, RootParts(tree, n, nn, t)
  PROVE  /\ SoundTree(t)
         /\ LeafEntries(t) = LeafEntries(tree)
<1> DEFINE K == tree.node_id_gen
           id == K + 1
           x == NodeExtent(tree, n)
           y == NodeExtent(tree, nn)
           hh == [m \in 1..id |-> IF m = id THEN h[n] + 1 ELSE h[m]]
           E(m) == Kids(tree, m)
           F(m) == Kids(t, m)
<1>1. /\ IsTree(tree) /\ Ranked(tree, h) /\ Linked(tree, h) /\ Hung(tree, h, nn) /\ Held(tree, h, n)
      /\ Distinct(tree) /\ OneLeaf(tree, h) /\ Filled(tree, h) /\ Beside(tree, h, n, nn)
  BY DEF Pending
<1>2. K \in Nat /\ Numbers(tree) = 1..K
  BY <1>1, TreeIs DEF Numbers
<1>3. /\ n \in 1..K /\ nn \in 1..K /\ nn # n /\ h[nn] = h[n] /\ tree.nodes[n].entries # <<>>
      /\ \A m \in 1..K : h[m] # 0 => \A e \in E(m) : e.ref # nn
  BY <1>1, <1>2 DEF Beside
<1>4. h \in [1..K -> Nat] /\ (\A m \in 1..K : (tree.nodes[m].is_leaf <=> h[m] = 0) /\ h[m] <= h[n]) /\ h[n] < K
  BY <1>1, <1>2 DEF Ranked
<1>5. tree.nodes[nn].entries # <<>> /\ tree.nodes[n].parent = 0
  BY <1>1, <1>2, <1>3 DEF Filled, Hung
<1>6. x \in Boxes /\ \A f \in E(n) : Covers(x, f.extent)
  BY <1>1, <1>2, <1>3, NodeCovers
<1>7. y \in Boxes /\ \A f \in E(nn) : Covers(y, f.extent)
  BY <1>1, <1>2, <1>3, <1>5, NodeCovers
<1>8. /\ IsTree(t) /\ t.root_id = id /\ t.node_id_gen = id /\ Numbers(t) = 1..id
      /\ t.nodes[id].entries = <<Entry(x, n), Entry(y, nn)>> /\ ~t.nodes[id].is_leaf /\ t.nodes[id].parent = 0
      /\ \A m \in 1..K :
          /\ t.nodes[m].entries = tree.nodes[m].entries
          /\ t.nodes[m].is_leaf = tree.nodes[m].is_leaf
          /\ t.nodes[m].parent = IF m = n \/ m = nn THEN id ELSE tree.nodes[m].parent
  BY <1>2 DEF RootParts, RootEntries, Numbers
<1>9. Entry(x, n).ref = n /\ Entry(x, n).extent = x /\ Entry(y, nn).ref = nn /\ Entry(y, nn).extent = y
  BY DEF Entry
<1>10. (\A e : e \in F(id) <=> e = Entry(x, n) \/ e = Entry(y, nn)) /\ IsInjective(t.nodes[id].entries)
  <2> DEFINE a == Entry(x, n)
             b == Entry(y, nn)
             s == t.nodes[id].entries
  <2>1. s = <<a, b>> /\ a # b
    BY <1>3, <1>8, <1>9
  <2> HIDE DEF a, b, s
  <2>2. DOMAIN s = {1, 2} /\ s[1] = a /\ s[2] = b
    BY <2>1
  <2>3. Range(s) = {a, b} /\ IsInjective(s)
    BY <2>1, <2>2 DEF Range, IsInjective
  <2> QED  BY <2>3 DEF Kids, a, b, s
<1>11. \A m \in 1..K : F(m) = E(m)
  BY <1>8 DEF Kids
<1>12. \A m \in 1..K : m \in 1..id /\ m # id /\ hh[m] = h[m]
  BY <1>2
<1>13. id \in 1..id /\ hh[id] = h[n] + 1 /\ \A m \in 1..id : m = id \/ m \in 1..K
  BY <1>2
<1>14. hh \in [1..id -> Nat]
  BY <1>2, <1>3, <1>4
<1>15. h[n] \in Nat /\ hh[id] # 0
  BY <1>3, <1>4, <1>13
<1>16. id < id + 1 /\ id \in Nat /\ h[n] + 1 < id
  BY <1>2, <1>4, <1>15
<1> HIDE DEF id, hh, K, x, y, E, F
<1>17. Ranked(t, hh)
  <2>1. ASSUME NEW m \in 1..id PROVE (t.nodes[m].is_leaf <=> hh[m] = 0) /\ hh[m] <= hh[id]
    <3>1. CASE m = id
      BY <1>8, <1>13, <1>15, <3>1
    <3>2. CASE m # id
      <4>1. m \in 1..K /\ hh[m] = h[m] /\ h[m] \in Nat
        BY <1>4, <1>12, <1>13, <3>2
      <4>2. h[m] <= h[n] /\ (tree.nodes[m].is_leaf <=> h[m] = 0) /\ t.nodes[m].is_leaf = tree.nodes[m].is_leaf
        BY <1>4, <1>8, <4>1
      <4> QED  BY <1>13, <1>15, <4>1, <4>2
    <3> QED  BY <3>1, <3>2
  <2> QED  BY <1>8, <1>13, <1>14, <1>16, <2>1 DEF Ranked
<1>18. \A m \in 1..K : h[m] # 0 => \A e \in E(m) : e.ref \in 1..K /\ tree.nodes[e.ref].parent = m /\ h[m] = h[e.ref] + 1
  BY <1>1, <1>2 DEF Linked, E
<1>18a. \A m \in 1..K : h[m] # 0 => \A e \in E(m) : e.ref # n
  BY <1>5, <1>18
<1>19. ASSUME NEW m \in 1..id, hh[m] # 0, NEW e \in F(m)
       PROVE  e.ref \in 1..K /\ t.nodes[e.ref].parent = m /\ hh[m] = hh[e.ref] + 1
  <2>1. CASE m = id
    BY <1>3, <1>8, <1>9, <1>10, <1>12, <1>13, <1>19, <2>1
  <2>2. CASE m # id
    <3>1. m \in 1..K /\ hh[m] = h[m] /\ e \in E(m)
      BY <1>11, <1>12, <1>13, <1>19, <2>2
    <3>2. e.ref \in 1..K /\ tree.nodes[e.ref].parent = m /\ h[m] = h[e.ref] + 1 /\ e.ref # n /\ e.ref # nn
      BY <1>3, <1>18, <1>18a, <1>19, <3>1
    <3> QED  BY <1>8, <1>12, <3>1, <3>2
  <2> QED  BY <2>1, <2>2
<1>20. Linked(t, hh)
  BY <1>8, <1>12, <1>19 DEF Linked, F
<1>21. Hung(t, hh, 0)
  <2>1. \A m \in 1..K \ {n, nn} : LET p == tree.nodes[m].parent IN p \in 1..K /\ h[p] # 0 /\ \E e \in E(p) : e.ref = m
    BY <1>1, <1>2 DEF Hung, E
  <2>2. ASSUME NEW m \in 1..id, m # id
        PROVE  LET p == t.nodes[m].parent IN p \in 1..id /\ hh[p] # 0 /\ \E e \in F(p) : e.ref = m
    <3>1. m \in 1..K
      BY <1>13, <2>2
    <3>2. CASE m = n \/ m = nn
      <4>1. t.nodes[m].parent = id
        BY <1>8, <3>1, <3>2
      <4> QED  BY <1>9, <1>10, <1>13, <1>15, <3>2, <4>1
    <3>3. CASE m # n /\ m # nn
      <4> DEFINE p == tree.nodes[m].parent
      <4>1. t.nodes[m].parent = p
        BY <1>8, <3>1, <3>3
      <4>2. p \in 1..K /\ h[p] # 0 /\ \E e \in E(p) : e.ref = m
        BY <2>1, <3>1, <3>3
      <4> HIDE DEF p
      <4> QED  BY <1>11, <1>12, <4>1, <4>2
    <3> QED  BY <3>2, <3>3
  <2> QED  BY <1>8, <1>13, <2>2 DEF Hung, F
<1>22. Held(t, hh, id)
  <2>0. \A m \in 1..K : h[m] # 0 => \A e \in E(m) : e.ref # n => \A f \in E(e.ref) : Covers(e.extent, f.extent)
    BY <1>1, <1>2 DEF Held, E
  <2>1. ASSUME NEW m \in 1..id, hh[m] # 0, NEW e \in F(m), NEW f \in F(e.ref)
        PROVE  Covers(e.extent, f.extent)
    <3>1. e.ref \in 1..K /\ f \in E(e.ref)
      BY <1>11, <1>19, <2>1
    <3>2. CASE m = id
      <4>1. CASE e = Entry(x, n)
        BY <1>6, <1>9, <3>1, <4>1
      <4>2. CASE e = Entry(y, nn)
        BY <1>7, <1>9, <3>1, <4>2
      <4> QED  BY <1>10, <2>1, <3>2, <4>1, <4>2
    <3>3. CASE m # id
      <4>1. m \in 1..K /\ h[m] # 0 /\ e \in E(m)
        BY <1>11, <1>12, <1>13, <2>1, <3>3
      <4> QED  BY <1>18a, <2>0, <3>1, <4>1
    <3> QED  BY <3>2, <3>3
  <2> QED  BY <1>8, <2>1 DEF Held, F
<1>23. Distinct(t)
  <2>0. \A m \in 1..K : IsInjective(tree.nodes[m].entries) /\ \A e, f \in E(m) : e.ref = f.ref => e = f
    BY <1>1, <1>2 DEF Distinct, E
  <2>1. ASSUME NEW m \in 1..id PROVE IsInjective(t.nodes[m].entries) /\ \A e, f \in F(m) : e.ref = f.ref => e = f
    <3>1. CASE m = id
      BY <1>3, <1>9, <1>10, <3>1
    <3>2. CASE m # id
      <4>1. m \in 1..K
        BY <1>13, <3>2
      <4> QED  BY <1>8, <1>11, <2>0, <4>1
    <3> QED  BY <3>1, <3>2
  <2> QED  BY <1>8, <2>1 DEF Distinct, F
<1>24. OneLeaf(t, hh)
  <2>0. \A l, m \in 1..K : h[l] = 0 /\ h[m] = 0 => \A e \in E(l), f \in E(m) : e.ref = f.ref => l = m
    BY <1>1, <1>2 DEF OneLeaf, E
  <2>1. \A m \in 1..id : hh[m] = 0 => m \in 1..K /\ h[m] = 0 /\ F(m) = E(m)
    BY <1>11, <1>12, <1>13, <1>15
  <2>2. \A l, m \in 1..id : hh[l] = 0 /\ hh[m] = 0 => \A e \in F(l), f \in F(m) : e.ref = f.ref => l = m
    BY <2>0, <2>1
  <2> QED  BY <1>8, <2>2 DEF OneLeaf, F
<1>25. Filled(t, hh)
  <2>1. \A m \in 1..K : tree.nodes[m].entries # <<>>
    BY <1>1, <1>2, <1>3 DEF Filled
  <2>2. t.nodes[id].entries # <<>>
    BY <1>8
  <2>3. \A m \in 1..id : t.nodes[m].entries # <<>>
    BY <1>8, <1>13, <2>1, <2>2
  <2> QED  BY <1>8, <2>3 DEF Filled
<1>26. Beside(t, hh, id, 0)
  BY <1>8, <1>13 DEF Beside
<1>27. Pending(t, hh, t.root_id, 0)
  BY <1>8, <1>17, <1>20, <1>21, <1>22, <1>23, <1>24, <1>25, <1>26 DEF Pending
<1>28. ASSUME NEW z PROVE z \in LeafEntries(t) <=> z \in LeafEntries(tree)
  <2>1. z \in LeafEntries(t) <=> \E m \in 1..id : t.nodes[m].is_leaf /\ z \in F(m)
    BY <1>8 DEF LeafEntries, F
  <2>2. z \in LeafEntries(tree) <=> \E m \in 1..K : tree.nodes[m].is_leaf /\ z \in E(m)
    BY <1>2 DEF LeafEntries, E
  <2> QED  BY <1>8, <1>11, <1>12, <1>13, <2>1, <2>2
<1>29. LeafEntries(t) = LeafEntries(tree)
  BY <1>28
<1> QED  BY <1>27, <1>29 DEF SoundTree, Sound

-------------------------------------------------------------------------------
(* adjustTree(): level by level.                                            *)

\* A node that has become too large is split.
LEMMA FullSplits ==
  ASSUME NEW tree, NEW h, NEW n, Pending(tree, h, n, 0), Len(tree.nodes[n].entries) >= CONST_M
  PROVE  LET t == SplitNode(tree, n) IN
         /\ \E k : /\ Pending(t, k, n, tree.node_id_gen + 1)
                   /\ k[t.root_id] = h[tree.root_id] /\ k[n] = h[n]
         /\ LeafEntries(t) = LeafEntries(tree)
<1> DEFINE s == tree.nodes[n].entries
           g == SplitGroups(s)
           t == SplitInto(tree, n, g)
<1>1. IsTree(tree) /\ Distinct(tree) /\ n \in Numbers(tree)
  BY DEF Pending, Beside
<1>2. s \in Seq(EntryRecords) /\ IsInjective(s) /\ Len(s) >= 2
  <2>1. s \in Seq(EntryRecords) /\ IsInjective(s)
    BY <1>1, NodeIs DEF Distinct
  <2>2. CONST_M \in Nat /\ CONST_M >= 2 /\ Len(s) \in Nat
    BY <2>1, MAssumption
  <2> QED  BY <2>1, <2>2
<1> HIDE DEF s
<1>3. IsSplit(Range(s), g)
  BY <1>2, SplitGroupsAre
<1> HIDE DEF g
<1>4. g \in Groups /\ IsSplit(Kids(tree, n), g)
  BY <1>3 DEF IsSplit, Kids, s
<1>5. SplitParts(tree, n, g, t)
  BY <1>1, <1>4, SplitIntoParts
<1>6. SplitNode(tree, n) = t
  BY DEF SplitNode, s, g
<1> HIDE DEF t
<1>7. /\ \E k : /\ Pending(t, k, n, tree.node_id_gen + 1)
                /\ k[t.root_id] = h[tree.root_id] /\ k[n] = h[n]
      /\ LeafEntries(t) = LeafEntries(tree)
  BY <1>4, <1>5, SplitPending
<1> QED  BY <1>6, <1>7

-------------------------------------------------------------------------------
(* adjustTree() goes up level by level.                                      *)

\* The loop has come to rank k in a tree whose root has rank r, which has the features S.
Climbs(t, n, nn, k, r, S) ==
  \E h : Pending(t, h, n, nn) /\ h[n] = k /\ h[t.root_id] = r /\ LeafEntries(t) = S
Level(s, k, r, S) ==
  \/ s.n = 0 /\ SoundTree(s.tree) /\ LeafEntries(s.tree) = S
  \/ s.n # 0 /\ Climbs(s.tree, s.n, s.nn, k, r, S)

\* The variables of adjustTree()'s loop.
States == [tree : TreeRecords, n : Nat, nn : Nat]
State(tree, n, nn) == [tree |-> tree, n |-> n, nn |-> nn]

\* The variables of adjustTree()'s loop.
LEMMA StateIs ==
  ASSUME NEW tree, NEW n, NEW nn
  PROVE  /\ State(tree, n, nn).tree = tree /\ State(tree, n, nn).n = n /\ State(tree, n, nn).nn = nn
         /\ tree \in TreeRecords /\ n \in Nat /\ nn \in Nat => State(tree, n, nn) \in States
BY DEF State, States

\* They have their types while the tree is being adjusted.
LEMMA PendingTypes ==
  ASSUME NEW t, NEW h, NEW n, NEW nn, Pending(t, h, n, nn)
  PROVE  t \in TreeRecords /\ n \in Nat /\ nn \in Nat /\ n # 0
<1>1. IsTree(t) /\ Beside(t, h, n, nn)
  BY DEF Pending
<1>2. n \in Numbers(t) /\ (nn # 0 => nn \in Numbers(t))
  BY <1>1 DEF Beside
<1>3. \A m \in Numbers(t) : m \in Nat /\ m # 0
  BY <1>1, TreeIs DEF Numbers
<1>4. nn = 0 => nn \in Nat
  OBVIOUS
<1> QED  BY <1>1, <1>2, <1>3, <1>4, TreeIs

\* The states of adjustTree(), in the cases of AdjustLevel.
LEMMA LevelCases ==
  ASSUME NEW s
  PROVE  LET p == s.tree.nodes[s.n].parent
             t == AdjustParent(s.tree, s.n, s.nn)
             full == s.nn # 0 /\ Len(t.nodes[p].entries) >= CONST_M
         IN /\ s.n = 0 => AdjustLevel(s) = s
            /\ s.n # 0 /\ p # 0 /\ full => AdjustLevel(s) = State(SplitNode(t, p), p, t.node_id_gen + 1)
            /\ s.n # 0 /\ p # 0 /\ ~full => AdjustLevel(s) = State(t, p, 0)
            /\ s.n # 0 /\ p = 0 /\ s.nn # 0 => AdjustLevel(s) = State(AdjustRoot(s.tree, s.n, s.nn), 0, 0)
            /\ s.n # 0 /\ p = 0 /\ s.nn = 0 => AdjustLevel(s) = State(s.tree, 0, 0)
<1> DEFINE p == s.tree.nodes[s.n].parent
           t == AdjustParent(s.tree, s.n, s.nn)
           full == s.nn # 0 /\ Len(t.nodes[p].entries) >= CONST_M
           A == State(IF full THEN SplitNode(t, p) ELSE t, p, IF full THEN t.node_id_gen + 1 ELSE 0)
           B == State(IF s.nn # 0 THEN AdjustRoot(s.tree, s.n, s.nn) ELSE s.tree, 0, 0)
<1>1. AdjustLevel(s) = CASE s.n = 0 -> s [] s.n # 0 /\ p # 0 -> A [] s.n # 0 /\ p = 0 -> B
  BY DEF AdjustLevel, State
<1> HIDE DEF A, B
<1>2. s.n = 0 => AdjustLevel(s) = s
  BY <1>1
<1>3. s.n # 0 /\ p # 0 => AdjustLevel(s) = A
  BY <1>1
<1>4. s.n # 0 /\ p = 0 => AdjustLevel(s) = B
  BY <1>1
<1> HIDE DEF p, t
<1> USE DEF A, B
<1>5. full => A = State(SplitNode(t, p), p, t.node_id_gen + 1)
  OBVIOUS
<1>6. ~full => A = State(t, p, 0)
  OBVIOUS
<1>7. s.nn # 0 => B = State(AdjustRoot(s.tree, s.n, s.nn), 0, 0)
  OBVIOUS
<1>8. s.nn = 0 => B = State(s.tree, 0, 0)
  OBVIOUS
<1> HIDE DEF A, B, full
<1> QED  BY <1>2, <1>3, <1>4, <1>5, <1>6, <1>7, <1>8 DEF p, t, full

\* One turn of the loop goes up one level, or has nothing left to do.
LEMMA LevelGoesUp ==
  ASSUME NEW s \in States, NEW k \in Nat, NEW r, NEW S, Level(s, k, r, S)
  PROVE  AdjustLevel(s) \in States /\ Level(AdjustLevel(s), k + 1, r, S)
<1>1. CASE s.n = 0
  <2>1. AdjustLevel(s) = s
    BY <1>1, LevelCases
  <2> QED  BY <1>1, <2>1 DEF Level
<1>2. CASE s.n # 0
  <2> DEFINE tree == s.tree
             n == s.n
             nn == s.nn
             p == tree.nodes[n].parent
             t == AdjustParent(tree, n, nn)
             full == nn # 0 /\ Len(t.nodes[p].entries) >= CONST_M
  <2>1. PICK h : Pending(tree, h, n, nn) /\ h[n] = k /\ h[tree.root_id] = r /\ LeafEntries(tree) = S
    BY <1>2 DEF Level, Climbs
  <2>2. /\ s.n # 0 /\ p # 0 /\ full => AdjustLevel(s) = State(SplitNode(t, p), p, t.node_id_gen + 1)
        /\ s.n # 0 /\ p # 0 /\ ~full => AdjustLevel(s) = State(t, p, 0)
        /\ s.n # 0 /\ p = 0 /\ s.nn # 0 => AdjustLevel(s) = State(AdjustRoot(s.tree, s.n, s.nn), 0, 0)
        /\ s.n # 0 /\ p = 0 /\ s.nn = 0 => AdjustLevel(s) = State(s.tree, 0, 0)
    BY LevelCases
  <2>3. n # 0
    BY <1>2
  <2>3a. nn \in Nat
    BY DEF States
  <2> HIDE DEF tree, n, nn, p, t, full
  <2>4. /\ IsTree(tree) /\ Hung(tree, h, nn) /\ Filled(tree, h) /\ Beside(tree, h, n, nn)
        /\ n \in Numbers(tree) /\ (nn # 0 => nn \in Numbers(tree) /\ nn # n /\ nn # tree.root_id)
    BY <2>1 DEF Pending, Beside
  <2>5. 0 \notin Numbers(tree) /\ tree.nodes[tree.root_id].parent = 0
    BY <2>4 DEF Numbers, Hung
  <2>6. \A m \in Numbers(tree) \ {tree.root_id} : NodeExtent(tree, m) \in Boxes
    BY <2>4, NodeCovers DEF Filled
  <2>7. CASE n # tree.root_id
    <3>1. p \in Numbers(tree)
      BY <2>3, <2>4, <2>7 DEF Hung, p
    <3>2. ParentParts(tree, n, nn, t)
      <4>1. nn \in Numbers(tree) \cup {0} /\ (nn # 0 => NodeExtent(tree, nn) \in Boxes) /\ NodeExtent(tree, n) \in Boxes
        BY <2>4, <2>6, <2>7
      <4> QED  BY <2>4, <3>1, <4>1, AdjustParentParts DEF p, t
    <3>3. /\ Pending(t, h, p, 0) /\ t.root_id = tree.root_id /\ t.node_id_gen = tree.node_id_gen
          /\ h[p] = h[n] + 1 /\ LeafEntries(t) = LeafEntries(tree)
      BY <2>1, <2>7, <3>2, ParentPending DEF p
    <3>4. p # 0
      BY <2>5, <3>1
    <3>5. CASE full
      <4> DEFINE u == SplitNode(t, p)
      <4>1. AdjustLevel(s) = State(u, p, t.node_id_gen + 1)
        BY <1>2, <2>2, <3>4, <3>5
      <4>2. Len(t.nodes[p].entries) >= CONST_M
        BY <3>5 DEF full
      <4>3. PICK j : Pending(u, j, p, t.node_id_gen + 1) /\ j[u.root_id] = h[t.root_id] /\ j[p] = h[p]
        BY <3>3, <4>2, FullSplits
      <4>4. LeafEntries(u) = LeafEntries(t)
        BY <3>3, <4>2, FullSplits
      <4> HIDE DEF u
      <4>5. Climbs(u, p, t.node_id_gen + 1, k + 1, r, S)
        BY <2>1, <3>3, <4>3, <4>4 DEF Climbs
      <4>6. State(u, p, t.node_id_gen + 1) \in States
        BY <4>3, PendingTypes, StateIs
      <4> QED  BY <3>4, <4>1, <4>5, <4>6, StateIs DEF Level
    <3>6. CASE ~full
      <4>1. AdjustLevel(s) = State(t, p, 0)
        BY <1>2, <2>2, <3>4, <3>6
      <4>2. Climbs(t, p, 0, k + 1, r, S)
        BY <2>1, <3>3 DEF Climbs
      <4>3. State(t, p, 0) \in States
        BY <3>3, PendingTypes, StateIs
      <4> QED  BY <3>4, <4>1, <4>2, <4>3, StateIs DEF Level
    <3> QED  BY <3>5, <3>6
  <2>8. CASE n = tree.root_id /\ nn # 0
    <3> DEFINE u == AdjustRoot(tree, n, nn)
    <3>1. AdjustLevel(s) = State(u, 0, 0)
      BY <1>2, <2>2, <2>5, <2>8 DEF p, tree, n, nn
    <3>2. RootParts(tree, n, nn, u)
      <4>1. tree.nodes[n].entries # <<>>
        BY <2>4, <2>8 DEF Beside
      <4>2. NodeExtent(tree, n) \in Boxes
        BY <2>4, <4>1, NodeCovers
      <4>3. NodeExtent(tree, nn) \in Boxes
        BY <2>4, <2>6, <2>8
      <4> QED  BY <2>4, <2>8, <4>2, <4>3, AdjustRootParts
    <3>3. SoundTree(u) /\ LeafEntries(u) = LeafEntries(tree)
      BY <2>1, <2>8, <3>2, RootPending
    <3>4. u \in TreeRecords
      BY <3>2, TreeIs DEF RootParts
    <3> HIDE DEF u
    <3>5. State(u, 0, 0) \in States
      BY <3>4, StateIs
    <3> QED  BY <2>1, <3>1, <3>3, <3>5, StateIs DEF Level
  <2>9. CASE n = tree.root_id /\ nn = 0
    <3>1. AdjustLevel(s) = State(tree, 0, 0)
      BY <1>2, <2>2, <2>5, <2>9 DEF p, tree, n, nn
    <3>2. SoundTree(tree)
      BY <2>1, <2>9 DEF SoundTree, Sound
    <3>3. State(tree, 0, 0) \in States
      BY <2>4, TreeIs, StateIs
    <3> QED  BY <2>1, <3>1, <3>2, <3>3, StateIs DEF Level
  <2> QED  BY <2>7, <2>8, <2>9
<1> QED  BY <1>1, <1>2

-------------------------------------------------------------------------------
(* adjustTree(): the whole way up.                                          *)

\* The turns of the loop.
Adjusting(N, base, f) ==
  f = [T \in SUBSET (DOMAIN [level \in 1..N |-> level]) |->
         IF T = {} THEN base ELSE AdjustLevel(f[T \ {Max(T)}])]

\* What the loop ends with.
AdjustedBy(N, base) == (CHOOSE f : Adjusting(N, base, f))[DOMAIN [level \in 1..N |-> level]]

\* The loop, as the function that is chosen.
LEMMA AdjustTreeIs ==
  ASSUME NEW tree, NEW n, NEW nn
  PROVE  AdjustTree(tree, n, nn) = AdjustedBy(tree.node_id_gen, State(tree, n, nn)).tree
BY DEF AdjustTree, FoldLeft, MapThenFoldSet, AdjustedBy, Adjusting, State

\* The states of the loop.
LEMMA AdjustStages ==
  ASSUME NEW N \in Nat, NEW V, NEW base \in V, \A s \in V : AdjustLevel(s) \in V
  PROVE  \E g : /\ g[0] = base
                /\ \A k \in 1..N : g[k] = AdjustLevel(g[k - 1])
                /\ AdjustedBy(N, base) = g[N]
<1> DEFINE H == [p \in (1..N) \X V |-> AdjustLevel(p[2])]
<1>1. DOMAIN [level \in 1..N |-> level] = 1..N
  OBVIOUS
<1>5. H \in [(1..N) \X V -> V] /\ \A k \in 1..N, v \in V : H[<<k, v>>] = AdjustLevel(v)
  OBVIOUS
<1> HIDE DEF H
<1>6. PICK f : Folds(N, V, base, H, f)
  BY <1>5, FoldExists
<1>7. f \in [SUBSET (1..N) -> V] /\ \A T \in SUBSET (1..N) : f[T] = Folded(T, base, H, f)
  BY <1>6 DEF Folds
<1>8. ASSUME NEW T \in SUBSET (1..N)
      PROVE  f[T] = IF T = {} THEN base ELSE AdjustLevel(f[T \ {Max(T)}])
  <2>1. CASE T = {}
    BY <1>7, <2>1 DEF Folded
  <2>2. CASE T # {}
    <3>1. Max(T) \in T
      BY <2>2, GreatestElement
    <3>2. Max(T) \in 1..N /\ f[T \ {Max(T)}] \in V
      BY <3>1, <1>7
    <3> QED  BY <1>7, <1>5, <2>2, <3>2 DEF Folded
  <2> QED  BY <2>1, <2>2
<1>9. Adjusting(N, base, f)
  <2>1. f = [T \in SUBSET (1..N) |-> IF T = {} THEN base ELSE AdjustLevel(f[T \ {Max(T)}])]
    BY <1>7, <1>8
  <2> QED  BY <1>1, <2>1 DEF Adjusting
<1> DEFINE c == CHOOSE h : Adjusting(N, base, h)
<1>10. Adjusting(N, base, c)
  BY <1>9
<1> HIDE DEF c
<1>12. c = [T \in SUBSET (1..N) |-> IF T = {} THEN base ELSE AdjustLevel(c[T \ {Max(T)}])]
  BY <1>1, <1>10 DEF Adjusting
<1>13. \A T \in SUBSET (1..N) : c[T] = IF T = {} THEN base ELSE AdjustLevel(c[T \ {Max(T)}])
  BY <1>12
<1> DEFINE g == [k \in 0..N |-> c[1..k]]
<1>14. g[0] = base
  <2>1. 1..0 \in SUBSET (1..N) /\ 1..0 = {} /\ 0 \in 0..N
    BY FoldStages
  <2>2. c[1..0] = base
    BY <1>13, <2>1
  <2> QED  BY <2>1, <2>2
<1>15. ASSUME NEW k \in 1..N PROVE g[k] = AdjustLevel(g[k - 1])
  <2>1. 1..k \in SUBSET (1..N) /\ 1..k # {} /\ Max(1..k) = k /\ (1..k) \ {k} = 1..(k - 1)
    BY FoldStages
  <2>2. c[1..k] = AdjustLevel(c[1..(k - 1)])
    BY <1>13, <2>1
  <2>3. k - 1 \in 0..N /\ k \in 0..N
    OBVIOUS
  <2> QED  BY <2>2, <2>3
<1>16. g[N] = c[1..N]
  OBVIOUS
<1> HIDE DEF g
<1> QED  BY <1>1, <1>14, <1>15, <1>16 DEF c, AdjustedBy

\* adjustTree() leaves a tree as it should be, with the same features.
LEMMA AdjustedIsSound ==
  ASSUME NEW tree, NEW h, NEW n, NEW nn, Pending(tree, h, n, nn)
  PROVE  SoundTree(AdjustTree(tree, n, nn)) /\ LeafEntries(AdjustTree(tree, n, nn)) = LeafEntries(tree)
<1> DEFINE N == tree.node_id_gen
           r == h[tree.root_id]
           S == LeafEntries(tree)
           base == State(tree, n, nn)
           V == {s \in States : \E k \in Nat : Level(s, k, r, S)}
<1>1. IsTree(tree) /\ Ranked(tree, h) /\ n \in Numbers(tree) /\ tree.root_id \in Numbers(tree)
  BY DEF Pending, Beside, Hung
<1>2. N \in Nat /\ h[n] \in Nat /\ r \in Nat /\ r < N
  BY <1>1, TreeIs DEF Ranked
<1>3. base \in States /\ Level(base, h[n], r, S)
  <2>1. tree \in TreeRecords /\ n \in Nat /\ nn \in Nat /\ n # 0
    BY PendingTypes
  <2>2. Climbs(tree, n, nn, h[n], r, S)
    BY DEF Climbs
  <2> HIDE DEF r, S
  <2> QED  BY <2>1, <2>2, StateIs DEF Level
<1>4. AdjustTree(tree, n, nn) = AdjustedBy(N, base).tree
  BY AdjustTreeIs
<1> HIDE DEF N, r, S, base
<1>5. base \in V
  BY <1>2, <1>3
<1>6. \A s \in V : AdjustLevel(s) \in V
  <2> SUFFICES ASSUME NEW s \in V PROVE AdjustLevel(s) \in V
    OBVIOUS
  <2>1. PICK k \in Nat : Level(s, k, r, S)
    OBVIOUS
  <2>2. AdjustLevel(s) \in States /\ Level(AdjustLevel(s), k + 1, r, S)
    BY <2>1, LevelGoesUp
  <2>3. k + 1 \in Nat
    OBVIOUS
  <2> QED  BY <2>2, <2>3
<1>7. PICK g : g[0] = base /\ (\A k \in 1..N : g[k] = AdjustLevel(g[k - 1])) /\ AdjustedBy(N, base) = g[N]
  <2> HIDE DEF V
  <2> QED  BY <1>2, <1>5, <1>6, AdjustStages
<1> DEFINE P == {k \in 0..N : g[k] \in States /\ Level(g[k], h[n] + k, r, S)}
<1>8. 0 \in P
  <2>1. h[n] + 0 = h[n]
    BY <1>2
  <2> QED  BY <1>2, <1>3, <1>7, <2>1
<1>9. ASSUME NEW k \in 1..N, k - 1 \in P PROVE k \in P
  <2>1. g[k - 1] \in States /\ Level(g[k - 1], h[n] + (k - 1), r, S) /\ h[n] + (k - 1) \in Nat
    BY <1>2, <1>9
  <2>2. (h[n] + (k - 1)) + 1 = h[n] + k
    BY <1>2
  <2>3. g[k] \in States /\ Level(g[k], h[n] + k, r, S)
    BY <1>7, <2>1, <2>2, LevelGoesUp
  <2> QED  BY <1>2, <2>3
<1>10. N \in P
  <2> HIDE DEF P
  <2>1. 0..N \subseteq P
    BY <1>2, <1>8, <1>9, CountUp
  <2>2. N \in 0..N
    BY <1>2
  <2> QED  BY <2>1, <2>2
<1>11. Level(g[N], h[n] + N, r, S)
  BY <1>10
<1>12. g[N].n = 0
  <2> SUFFICES ASSUME g[N].n # 0 PROVE FALSE
    OBVIOUS
  <2>1. PICK j : Pending(g[N].tree, j, g[N].n, g[N].nn) /\ j[g[N].n] = h[n] + N /\ j[g[N].tree.root_id] = r
    BY <1>11 DEF Level, Climbs
  <2>2. j[g[N].n] <= j[g[N].tree.root_id]
    BY <2>1 DEF Pending, Ranked, Beside
  <2> QED  BY <1>2, <2>1, <2>2
<1> QED  BY <1>4, <1>7, <1>11, <1>12 DEF Level, S

-------------------------------------------------------------------------------
(* A feature that is not in the tree is put in one of its leaves.            *)

\* A feature that is not in the tree.
NewRef(t, data) == \A e \in LeafEntries(t) : e.ref # data

\* A leaf that got a new entry is a node that changed.
LEMMA EntryPending ==
  ASSUME NEW tree, NEW h, Sound(tree, h), NEW L \in Numbers(tree), tree.nodes[L].is_leaf,
         NEW a \in EntryRecords, NewRef(tree, a.ref)
  PROVE  LET t == [tree EXCEPT !.nodes[L].entries = Append(tree.nodes[L].entries, a)] IN
         Pending(t, h, L, 0) /\ LeafEntries(t) = LeafEntries(tree) \cup {a}
<1> DEFINE s == tree.nodes[L].entries
           u == Append(s, a)
           t == [tree EXCEPT !.nodes[L].entries = u]
           N == Numbers(tree)
           r == tree.root_id
           E(m) == Kids(tree, m)
           F(m) == Kids(t, m)
<1>1. /\ IsTree(tree) /\ Ranked(tree, h) /\ Linked(tree, h) /\ Hung(tree, h, 0) /\ Held(tree, h, r)
      /\ Distinct(tree) /\ OneLeaf(tree, h) /\ Filled(tree, h) /\ Beside(tree, h, r, 0)
  BY DEF Pending, Sound
<1>2. s \in Seq(EntryRecords) /\ IsInjective(s)
  BY <1>1, NodeIs DEF Distinct
<1>3. h[L] = 0
  BY <1>1 DEF Ranked
<1>4. \A z : z \in LeafEntries(tree) <=> \E m \in N : tree.nodes[m].is_leaf /\ z \in E(m)
  BY DEF LeafEntries
<1>5. \A m \in N : h[m] = 0 => \A e \in E(m) : e.ref # a.ref
  BY <1>1, <1>4 DEF NewRef, Ranked
<1>6. a \notin E(L)
  BY <1>3, <1>5
<1>7. u \in Seq(EntryRecords) /\ Range(u) = Range(s) \cup {a} /\ IsInjective(u) /\ u # <<>>
  <2>1. a \notin Range(s)
    BY <1>6 DEF Kids
  <2>2. u # <<>>
    BY <1>2
  <2> HIDE DEF s
  <2> QED  BY <1>2, <2>1, <2>2, AppendToQueue
<1> HIDE DEF s, u
<1>8. /\ IsTree(t) /\ t.root_id = r /\ t.node_id_gen = tree.node_id_gen
      /\ \A m \in N :
              /\ t.nodes[m].entries = IF m = L THEN u ELSE tree.nodes[m].entries
              /\ t.nodes[m].is_leaf = tree.nodes[m].is_leaf
              /\ t.nodes[m].parent = tree.nodes[m].parent
  BY <1>1, <1>7, EntriesSet
<1> HIDE DEF t
<1>9. Numbers(t) = N
  BY <1>8 DEF Numbers
<1>10. \A m \in N : F(m) = IF m = L THEN E(L) \cup {a} ELSE E(m)
  BY <1>7, <1>8 DEF Kids, s
<1> HIDE DEF N, r, E, F
<1>11. \A m \in N : h[m] # 0 => F(m) = E(m)
  BY <1>3, <1>10
<1>12. Ranked(t, h)
  BY <1>1, <1>8, <1>9 DEF Ranked, N, r
<1>13. Linked(t, h)
  <2>1. \A m \in N : h[m] # 0 => \A e \in E(m) : e.ref \in N /\ tree.nodes[e.ref].parent = m /\ h[m] = h[e.ref] + 1
    BY <1>1 DEF Linked, N, E
  <2>2. ASSUME NEW m \in N, h[m] # 0, NEW e \in F(m)
        PROVE  e.ref \in N /\ t.nodes[e.ref].parent = m /\ h[m] = h[e.ref] + 1
    <3>1. e \in E(m)
      BY <1>11, <2>2
    <3> QED  BY <1>8, <2>1, <2>2, <3>1
  <2> QED  BY <1>9, <2>2 DEF Linked, F
<1>14. Hung(t, h, 0)
  <2>1. r \in N /\ tree.nodes[r].parent = 0
    BY <1>1 DEF Hung, N, r
  <2>2. \A m \in N \ {r, 0} : LET p == tree.nodes[m].parent IN p \in N /\ h[p] # 0 /\ \E e \in E(p) : e.ref = m
    BY <1>1 DEF Hung, N, r, E
  <2>3. ASSUME NEW m \in N \ {r, 0}
        PROVE  LET p == t.nodes[m].parent IN p \in N /\ h[p] # 0 /\ \E e \in F(p) : e.ref = m
    <3> DEFINE p == tree.nodes[m].parent
    <3>1. t.nodes[m].parent = p /\ p \in N /\ h[p] # 0 /\ \E e \in E(p) : e.ref = m
      BY <1>8, <2>2
    <3> HIDE DEF p
    <3> QED  BY <1>11, <3>1
  <2> QED  BY <1>8, <1>9, <2>1, <2>3 DEF Hung, F
<1>15. Held(t, h, L)
  <2>0. \A m \in N : h[m] # 0 => \A e \in E(m) : e.ref # r => \A f \in E(e.ref) : Covers(e.extent, f.extent)
    BY <1>1 DEF Held, E, N
  <2>00. \A m \in N : h[m] # 0 => \A e \in E(m) : e.ref \in N /\ e.ref # r
    <3>1. \A m \in N : h[m] # 0 => \A e \in E(m) : e.ref \in N /\ tree.nodes[e.ref].parent = m
      BY <1>1 DEF Linked, N, E
    <3>2. tree.nodes[r].parent = 0 /\ 0 \notin N
      BY <1>1 DEF Hung, Numbers, N, r
    <3> QED  BY <3>1, <3>2
  <2>1. ASSUME NEW m \in N, h[m] # 0, NEW e \in F(m), e.ref # L, NEW f \in F(e.ref)
        PROVE  Covers(e.extent, f.extent)
    <3>1. e \in E(m) /\ e.ref \in N /\ e.ref # r
      BY <1>11, <2>1, <2>00
    <3>2. f \in E(e.ref)
      BY <1>10, <2>1, <3>1
    <3> QED  BY <2>0, <2>1, <3>1, <3>2
  <2> QED  BY <1>9, <2>1 DEF Held, F
<1>16. Distinct(t)
  <2>0. \A m \in N : IsInjective(tree.nodes[m].entries) /\ \A e, f \in E(m) : e.ref = f.ref => e = f
    BY <1>1 DEF Distinct, E, N
  <2>1. ASSUME NEW m \in N PROVE IsInjective(t.nodes[m].entries) /\ \A e, f \in F(m) : e.ref = f.ref => e = f
    <3>1. CASE m = L
      BY <1>3, <1>5, <1>7, <1>8, <1>10, <2>0, <3>1
    <3>2. CASE m # L
      BY <1>8, <1>10, <2>0, <3>2
    <3> QED  BY <3>1, <3>2
  <2> QED  BY <1>9, <2>1 DEF Distinct, F
<1>17. OneLeaf(t, h)
  <2>0. \A l, m \in N : h[l] = 0 /\ h[m] = 0 => \A e \in E(l), f \in E(m) : e.ref = f.ref => l = m
    BY <1>1 DEF OneLeaf, E, N
  <2>1. ASSUME NEW l \in N, NEW m \in N, h[l] = 0, h[m] = 0, NEW e \in F(l), NEW f \in F(m), e.ref = f.ref
        PROVE  l = m
    <3>1. e \in E(l) \/ (e = a /\ l = L)
      BY <1>10
    <3>2. f \in E(m) \/ (f = a /\ m = L)
      BY <1>10
    <3> QED  BY <1>5, <2>0, <2>1, <3>1, <3>2
  <2> QED  BY <1>9, <2>1 DEF OneLeaf, F
<1>18. Filled(t, h)
  BY <1>1, <1>7, <1>8, <1>9 DEF Filled, N, r
<1>19. Beside(t, h, L, 0)
  BY <1>9 DEF Beside, N
<1>20. Pending(t, h, L, 0)
  BY <1>8, <1>12, <1>13, <1>14, <1>15, <1>16, <1>17, <1>18, <1>19 DEF Pending
<1>21. ASSUME NEW z PROVE z \in LeafEntries(t) <=> z \in LeafEntries(tree) \cup {a}
  <2>1. z \in LeafEntries(t) <=> \E m \in N : t.nodes[m].is_leaf /\ z \in F(m)
    BY <1>9 DEF LeafEntries, F
  <2>2. L \in N
    BY DEF N
  <2> QED  BY <1>4, <1>8, <1>10, <2>1, <2>2
<1>22. LeafEntries(t) = LeafEntries(tree) \cup {a}
  BY <1>21
<1> QED  BY <1>20, <1>22 DEF t, u, s

-------------------------------------------------------------------------------
(* Recursions over the nodes of a tree.                                     *)

\* What a recursion says of a node depends on nodes of a lower rank.
Descends(D, h, V, H) ==
  \A n \in D, f \in [D -> V], g \in [D -> V] :
     (\A m \in D : h[m] < h[n] => f[m] = g[m]) => H[<<n, f>>] = H[<<n, g>>]

\* A recursion over the nodes D, of ranks below B.
Recursion(D, B, h, V, H) ==
  B \in Nat /\ h \in [D -> 0..B] /\ V # {} /\ H \in [D \X [D -> V] -> V] /\ Descends(D, h, V, H)

\* Such a recursion has a value everywhere.
LEMMA RankedExists ==
  ASSUME NEW D, NEW B, NEW h, NEW V, NEW H, Recursion(D, B, h, V, H)
  PROVE  \E f \in [D -> V] : \A n \in D : f[n] = H[<<n, f>>]
<1>0. B \in Nat /\ h \in [D -> 0..B] /\ H \in [D \X [D -> V] -> V] /\ Descends(D, h, V, H)
  BY DEF Recursion
<1>0a. PICK v0 \in V : TRUE
  BY DEF Recursion
<1> DEFINE W == [D -> V]
           N == B + 1
           base == [n \in D |-> v0]
           step(f) == [n \in D |-> H[<<n, f>>]]
           G == [p \in (1..N) \X W |-> step(p[2])]
<1>1. \A f \in W : step(f) \in W
  BY <1>0
<1>2. N \in Nat /\ base \in W /\ G \in [(1..N) \X W -> W] /\ \A k \in 1..N, f \in W : G[<<k, f>>] = step(f)
  <2> HIDE DEF step, base
  <2>1. G \in [(1..N) \X W -> W] /\ \A k \in 1..N, f \in W : G[<<k, f>>] = step(f)
    BY <1>1
  <2>2. base \in W
    BY <1>0a DEF base
  <2> QED  BY <1>0, <2>1, <2>2
<1> HIDE DEF G, N, W
<1>3. PICK c : Computes(N, W, base, G, c)
  BY <1>2, LoopComputes
<1>4. c \in [0..N -> W] /\ \A k \in 1..N : c[k] = step(c[k - 1])
  <2>1. c \in [0..N -> W] /\ c[0] = base /\ \A k \in 1..N : c[k] = G[<<k, c[k - 1]>>]
    BY <1>3 DEF Computes
  <2>2. \A k \in 1..N : k - 1 \in 0..N
    BY <1>2
  <2> HIDE DEF step
  <2> QED  BY <1>2, <2>1, <2>2
<1>5. \A f \in W, n \in D : step(f)[n] = H[<<n, f>>]
  BY DEF W
<1> HIDE DEF step
<1> DEFINE P == {k \in 0..N : \A n \in D : h[n] < k => c[k][n] = step(c[k])[n]}
<1>6. 0 \in P
  BY <1>0, <1>2
<1>7. ASSUME NEW k \in 1..N, k - 1 \in P PROVE k \in P
  <2>1. k - 1 \in 0..N /\ k \in 0..N
    BY <1>2
  <2>2. \A n \in D : h[n] < k - 1 => c[k - 1][n] = c[k][n]
    BY <1>4, <1>7
  <2>3. ASSUME NEW n \in D, h[n] < k PROVE c[k][n] = step(c[k])[n]
    <3>1. c[k - 1] \in W /\ c[k] \in W
      BY <1>4, <2>1
    <3>2. \A m \in D : h[m] < h[n] => c[k - 1][m] = c[k][m]
      <4>1. \A m \in D : h[m] \in Int /\ h[n] \in Int
        BY <1>0
      <4> QED  BY <1>2, <2>2, <2>3, <4>1
    <3>3. H[<<n, c[k - 1]>>] = H[<<n, c[k]>>]
      BY <1>0, <3>1, <3>2 DEF W, Descends
    <3>4. c[k][n] = step(c[k - 1])[n]
      BY <1>4
    <3> QED  BY <1>5, <3>1, <3>3, <3>4
  <2> QED  BY <2>1, <2>3
<1>8. N \in P
  <2> HIDE DEF P
  <2>1. 0..N \subseteq P
    BY <1>2, <1>6, <1>7, CountUp
  <2>2. N \in 0..N
    BY <1>2
  <2> QED  BY <2>1, <2>2
<1>9. \A n \in D : h[n] < N
  BY <1>0 DEF N
<1>10. c[N] \in W
  BY <1>2, <1>4
<1>11. \A n \in D : c[N][n] = H[<<n, c[N]>>]
  BY <1>5, <1>8, <1>9, <1>10
<1> QED  BY <1>10, <1>11 DEF W

-------------------------------------------------------------------------------
(* The elements of sequences in a row.                                       *)

\* Two queues one after the other.
LEMMA ConcatQueues ==
  ASSUME NEW A, NEW s \in Seq(A), NEW t \in Seq(A)
  PROVE  /\ s \o t \in Seq(A)
         /\ \A x : x \in Range(s \o t) <=> x \in Range(s) \/ x \in Range(t)
         /\ IsInjective(s) /\ IsInjective(t) /\ (\A x \in Range(s) : x \notin Range(t)) => IsInjective(s \o t)
<1> DEFINE u == s \o t
           a == Len(s)
           b == Len(t)
<1>1. /\ u \in Seq(A) /\ Len(u) = a + b /\ a \in Nat /\ b \in Nat
      /\ \A i \in 1..(a + b) : u[i] = IF i <= a THEN s[i] ELSE t[i - a]
  OBVIOUS
<1>2. DOMAIN u = 1..(a + b) /\ DOMAIN s = 1..a /\ DOMAIN t = 1..b
  BY <1>1
<1> HIDE DEF u, a, b
<1>3. \A i \in 1..a : i \in 1..(a + b) /\ u[i] = s[i]
  BY <1>1
<1>4. \A i \in 1..b : a + i \in 1..(a + b) /\ u[a + i] = t[i]
  <2> SUFFICES ASSUME NEW i \in 1..b PROVE a + i \in 1..(a + b) /\ u[a + i] = t[i]
    OBVIOUS
  <2>1. a + i \in 1..(a + b) /\ ~(a + i <= a) /\ (a + i) - a = i
    BY <1>1
  <2> QED  BY <1>1, <2>1
<1>5. \A i \in 1..(a + b) : i \in 1..a \/ (i - a \in 1..b /\ i = a + (i - a))
  BY <1>1
<1>6. \A x : x \in Range(s) <=> \E i \in 1..a : s[i] = x
  BY <1>2 DEF Range
<1>7. \A x : x \in Range(t) <=> \E i \in 1..b : t[i] = x
  BY <1>2 DEF Range
<1>8. \A x : x \in Range(u) <=> \E i \in 1..(a + b) : u[i] = x
  BY <1>2 DEF Range
<1>9. ASSUME NEW x PROVE x \in Range(u) <=> x \in Range(s) \/ x \in Range(t)
  <2>1. ASSUME x \in Range(u) PROVE x \in Range(s) \/ x \in Range(t)
    <3>1. PICK i \in 1..(a + b) : u[i] = x
      BY <1>8, <2>1
    <3> QED  BY <1>3, <1>4, <1>5, <1>6, <1>7, <3>1
  <2>2. x \in Range(s) => x \in Range(u)
    BY <1>3, <1>6, <1>8
  <2>3. x \in Range(t) => x \in Range(u)
    BY <1>4, <1>7, <1>8
  <2> QED  BY <2>1, <2>2, <2>3
<1>10. ASSUME IsInjective(s), IsInjective(t), \A x \in Range(s) : x \notin Range(t)
       PROVE  IsInjective(u)
  <2>1. \A i, j \in 1..a : s[i] = s[j] => i = j
    BY <1>2, <1>10 DEF IsInjective
  <2>2. \A i, j \in 1..b : t[i] = t[j] => i = j
    BY <1>2, <1>10 DEF IsInjective
  <2>3. \A i \in 1..a, j \in 1..b : s[i] # t[j]
    BY <1>6, <1>7, <1>10
  <2>4. ASSUME NEW i \in 1..(a + b), NEW j \in 1..(a + b), u[i] = u[j] PROVE i = j
    <3>1. CASE i \in 1..a /\ j \in 1..a
      BY <1>3, <2>1, <2>4, <3>1
    <3>2. CASE i \in 1..a /\ j - a \in 1..b /\ j = a + (j - a)
      BY <1>3, <1>4, <2>3, <2>4, <3>2
    <3>3. CASE j \in 1..a /\ i - a \in 1..b /\ i = a + (i - a)
      BY <1>3, <1>4, <2>3, <2>4, <3>3
    <3>4. CASE i - a \in 1..b /\ j - a \in 1..b /\ i = a + (i - a) /\ j = a + (j - a)
      <4>1. t[i - a] = t[j - a]
        BY <1>4, <2>4, <3>4
      <4>2. i - a = j - a
        BY <2>2, <3>4, <4>1
      <4> QED  BY <3>4, <4>2
    <3> QED  BY <1>5, <3>1, <3>2, <3>3, <3>4
  <2> QED  BY <1>2, <2>4 DEF IsInjective
<1> QED  BY <1>1, <1>9, <1>10 DEF u

\* What is in one of many queues, that have nothing in common.
InSome(ss, x) == \E i \in 1..Len(ss) : x \in Range(ss[i])
Apart(ss) == /\ \A i \in 1..Len(ss) : IsInjective(ss[i])
             /\ \A i, j \in 1..Len(ss) : \A x : x \in Range(ss[i]) /\ x \in Range(ss[j]) => i = j

\* Many queues one after the other.
LEMMA FlattenElements ==
  ASSUME NEW A, NEW ss \in Seq(Seq(A))
  PROVE  /\ \A x : x \in Range(FlattenSeq(ss)) <=> InSome(ss, x)
         /\ Apart(ss) => IsInjective(FlattenSeq(ss))
<1> DEFINE Good(z) == /\ \A x : x \in Range(FlattenSeq(z)) <=> InSome(z, x)
                      /\ Apart(z) => IsInjective(FlattenSeq(z))
           S == {z \in Seq(Seq(A)) : Good(z)}
<1>1. <<>> \in S
  <2>1. FlattenSeq(<<>>) = <<>> /\ Range(<<>>) = {} /\ IsInjective(<<>>) /\ <<>> \in Seq(Seq(A))
    BY FlattenEmpty, EmptyQueue
  <2>2. \A x : ~InSome(<<>>, x)
    BY DEF InSome
  <2>3. Good(<<>>)
    BY <2>1, <2>2
  <2> QED  BY <2>1, <2>3
<1>2. ASSUME NEW z \in Seq(Seq(A)), NEW s \in Seq(A), z \in S PROVE Append(z, s) \in S
  <2> DEFINE y == Append(z, s)
             N == Len(z)
  <2>1. /\ y \in Seq(Seq(A)) /\ Len(y) = N + 1 /\ N \in Nat /\ y[N + 1] = s
        /\ \A i \in 1..N : y[i] = z[i]
    OBVIOUS
  <2>2. FlattenSeq(y) = FlattenSeq(z) \o s /\ FlattenSeq(z) \in Seq(A)
    BY FlattenAppend, FlattenIsSeq
  <2>3. Good(z)
    BY <1>2
  <2> HIDE DEF y, N
  <2>4. \A i : i \in 1..(N + 1) <=> i = N + 1 \/ i \in 1..N
    BY <2>1
  <2>5. \A x : InSome(y, x) <=> InSome(z, x) \/ x \in Range(s)
    BY <2>1, <2>4 DEF InSome, N
  <2>6. \A x : x \in Range(FlattenSeq(y)) <=> InSome(y, x)
    <3>1. \A x : x \in Range(FlattenSeq(z) \o s) <=> x \in Range(FlattenSeq(z)) \/ x \in Range(s)
      BY <2>2, ConcatQueues
    <3> QED  BY <2>2, <2>3, <2>5, <3>1
  <2>7. ASSUME Apart(y) PROVE IsInjective(FlattenSeq(y))
    <3>1. Apart(z)
      BY <2>1, <2>4, <2>7 DEF Apart, N
    <3>2. IsInjective(s)
      BY <2>1, <2>4, <2>7 DEF Apart
    <3>3. \A x \in Range(FlattenSeq(z)) : x \notin Range(s)
      <4> SUFFICES ASSUME NEW x \in Range(FlattenSeq(z)), x \in Range(s) PROVE FALSE
        OBVIOUS
      <4>1. PICK i \in 1..N : x \in Range(z[i])
        BY <2>3 DEF InSome, N
      <4>2. i # N + 1 /\ i \in 1..(N + 1) /\ N + 1 \in 1..(N + 1)
        BY <2>1
      <4>3. x \in Range(y[i]) /\ x \in Range(y[N + 1])
        BY <2>1, <4>1
      <4> QED  BY <2>1, <2>7, <4>2, <4>3 DEF Apart
    <3>4. IsInjective(FlattenSeq(z))
      BY <2>3, <3>1
    <3> QED  BY <2>2, <3>2, <3>3, <3>4, ConcatQueues
  <2>8. Good(y)
    BY <2>6, <2>7
  <2> HIDE DEF Good
  <2> QED  BY <2>1, <2>8 DEF y
<1>3. Seq(Seq(A)) \subseteq S
  <2> HIDE DEF S
  <2> QED  BY <1>1, <1>2, AppendUp
<1> QED  BY <1>3

-------------------------------------------------------------------------------
(* insert() and chooseLeaf().                                               *)

\* Whoever goes down the nodes arrives.
Walkable(t, h, B) ==
  /\ t.nodes \in Seq(NodeRecords) /\ t.root_id \in DOMAIN t.nodes
  /\ h \in [DOMAIN t.nodes -> 0..B]
  /\ \A m \in DOMAIN t.nodes : ~t.nodes[m].is_leaf =>
        \A e \in Kids(t, m) : e.ref \in DOMAIN t.nodes /\ h[e.ref] < h[m]

\* A tree as it should be is walked to an end.
LEMMA SoundWalks ==
  ASSUME NEW t, NEW h, Sound(t, h)
  PROVE  Walkable(t, h, t.node_id_gen) /\ t.node_id_gen \in Nat /\ DOMAIN t.nodes = Numbers(t)
<1>1. IsTree(t) /\ Ranked(t, h) /\ Linked(t, h) /\ Hung(t, h, 0)
  BY DEF Sound, Pending
<1>2. t.nodes \in Seq(NodeRecords) /\ DOMAIN t.nodes = Numbers(t) /\ t.node_id_gen \in Nat
  BY <1>1, TreeIs
<1>3. h \in [Numbers(t) -> Nat] /\ \A m \in Numbers(t) : h[m] <= h[t.root_id]
  BY <1>1 DEF Ranked
<1>4. t.root_id \in Numbers(t) /\ h[t.root_id] < t.node_id_gen
  BY <1>1 DEF Hung, Ranked
<1>5. h \in [Numbers(t) -> 0..t.node_id_gen]
  <2>1. \A m \in Numbers(t) : h[m] \in 0..t.node_id_gen
    BY <1>2, <1>3, <1>4
  <2> QED  BY <1>3, <2>1
<1>6. ASSUME NEW m \in Numbers(t), ~t.nodes[m].is_leaf, NEW e \in Kids(t, m)
      PROVE  e.ref \in Numbers(t) /\ h[e.ref] < h[m]
  <2>1. h[m] # 0
    BY <1>1, <1>6 DEF Ranked
  <2>2. e.ref \in Numbers(t) /\ h[m] = h[e.ref] + 1
    BY <1>1, <2>1 DEF Linked
  <2> QED  BY <1>3, <2>2
<1> QED  BY <1>2, <1>4, <1>5, <1>6 DEF Walkable

\* chooseLeaf() at a node.
NextLeaf(t, x, f, n) ==
  IF t.nodes[n].is_leaf THEN n ELSE f[t.nodes[n].entries[BestEntry(t.nodes[n].entries, x)].ref]
Leads(t, x, f) == f = [n \in DOMAIN t.nodes |-> NextLeaf(t, x, f, n)]

\* chooseLeaf() as the function that is chosen.
LEMMA ChosenLeaf ==
  ASSUME NEW t, NEW x
  PROVE  ChooseLeaf(t, x) = (CHOOSE f : Leads(t, x, f))[t.root_id]
BY DEF ChooseLeaf, Leads, NextLeaf

\* The walk ends at a leaf.
LEMMA LeafIsChosen ==
  ASSUME NEW t, NEW h, Sound(t, h), NEW x \in Boxes
  PROVE  ChooseLeaf(t, x) \in Numbers(t) /\ t.nodes[ChooseLeaf(t, x)].is_leaf
<1> DEFINE D == Numbers(t)
           B == t.node_id_gen
           best(n) == t.nodes[n].entries[BestEntry(t.nodes[n].entries, x)]
           H == [p \in D \X [D -> D] |-> NextLeaf(t, x, p[2], p[1])]
<1>1. IsTree(t) /\ Filled(t, h) /\ Ranked(t, h)
  BY DEF Sound, Pending
<1>2. /\ B \in Nat /\ D = DOMAIN t.nodes /\ h \in [D -> 0..B] /\ t.root_id \in D
      /\ \A m \in D : ~t.nodes[m].is_leaf => \A e \in Kids(t, m) : e.ref \in D /\ h[e.ref] < h[m]
  BY SoundWalks DEF Walkable
<1>3. ASSUME NEW n \in D, ~t.nodes[n].is_leaf
      PROVE  best(n) \in Kids(t, n) /\ best(n).ref \in D /\ h[best(n).ref] < h[n]
  <2> DEFINE s == t.nodes[n].entries
             i == BestEntry(s, x)
  <2>1. s \in Seq(EntryRecords)
    BY <1>1, NodeIs
  <2>2. s # <<>>
    BY <1>1, <1>3 DEF Filled, Ranked
  <2> HIDE DEF s
  <2>3. i \in 1..Len(s)
    BY <2>1, <2>2, BestEntryIs
  <2> HIDE DEF i
  <2>4. s[i] \in Range(s)
    BY <2>1, <2>3 DEF Range
  <2>5. best(n) \in Kids(t, n)
    BY <2>4 DEF Kids, s, i
  <2> HIDE DEF best
  <2> QED  BY <1>2, <1>3, <2>5
<1> HIDE DEF D, B
<1>4. \A n \in D : \A f : NextLeaf(t, x, f, n) = IF t.nodes[n].is_leaf THEN n ELSE f[best(n).ref]
  BY DEF NextLeaf
<1> HIDE DEF best
<1>5. \A n \in D, f \in [D -> D] : NextLeaf(t, x, f, n) \in D
  BY <1>3, <1>4
<1>6. H \in [D \X [D -> D] -> D] /\ \A n \in D, f \in [D -> D] : H[<<n, f>>] = NextLeaf(t, x, f, n)
  BY <1>5
<1> HIDE DEF H
<1>7. Descends(D, h, D, H)
  <2> SUFFICES ASSUME NEW n \in D, NEW f \in [D -> D], NEW g \in [D -> D], \A m \in D : h[m] < h[n] => f[m] = g[m]
               PROVE  H[<<n, f>>] = H[<<n, g>>]
    BY DEF Descends
  <2>1. H[<<n, f>>] = NextLeaf(t, x, f, n) /\ H[<<n, g>>] = NextLeaf(t, x, g, n)
    BY <1>6
  <2> QED  BY <1>3, <1>4, <2>1
<1>8. \E f \in [D -> D] : \A n \in D : f[n] = H[<<n, f>>]
  <2>1. Recursion(D, B, h, D, H)
    BY <1>2, <1>6, <1>7 DEF Recursion
  <2> QED  BY <2>1, RankedExists
<1>9. PICK f \in [D -> D] : \A n \in D : f[n] = NextLeaf(t, x, f, n)
  BY <1>6, <1>8
<1>10. Leads(t, x, f)
  <2>1. f = [n \in D |-> NextLeaf(t, x, f, n)]
    BY <1>9
  <2> QED  BY <1>2, <2>1 DEF Leads
<1> DEFINE c == CHOOSE g : Leads(t, x, g)
<1>11. Leads(t, x, c)
  BY <1>10
<1>12. ChooseLeaf(t, x) = c[t.root_id]
  BY ChosenLeaf
<1> HIDE DEF c
<1>13. \A n \in D : c[n] = NextLeaf(t, x, c, n)
  <2>1. c = [n \in D |-> NextLeaf(t, x, c, n)]
    BY <1>2, <1>11 DEF Leads
  <2> QED  BY <2>1
<1> DEFINE P == {k \in 0..B : \A n \in D : h[n] <= k => c[n] \in D /\ t.nodes[c[n]].is_leaf}
<1>14. 0 \in P
  <2>1. ASSUME NEW n \in D, h[n] <= 0 PROVE c[n] \in D /\ t.nodes[c[n]].is_leaf
    <3>1. t.nodes[n].is_leaf
      <4>1. h[n] \in 0..B /\ h[n] = 0
        BY <1>2, <2>1
      <4> QED  BY <1>1, <4>1 DEF Ranked, D
    <3>2. c[n] = n
      BY <1>4, <1>13, <3>1
    <3> QED  BY <3>1, <3>2
  <2> QED  BY <1>2, <2>1
<1>15. ASSUME NEW k \in 1..B, k - 1 \in P PROVE k \in P
  <2>1. ASSUME NEW n \in D, h[n] <= k PROVE c[n] \in D /\ t.nodes[c[n]].is_leaf
    <3>1. CASE t.nodes[n].is_leaf
      <4>2. c[n] = n
        BY <1>4, <1>13, <3>1
      <4> QED  BY <3>1, <4>2
    <3>2. CASE ~t.nodes[n].is_leaf
      <4>1. c[n] = c[best(n).ref] /\ best(n).ref \in D /\ h[best(n).ref] < h[n]
        BY <1>3, <1>4, <1>13, <3>2
      <4>2. h[best(n).ref] <= k - 1
        BY <1>2, <2>1, <4>1
      <4> QED  BY <1>15, <4>1, <4>2
    <3> QED  BY <3>1, <3>2
  <2> QED  BY <2>1
<1>16. B \in P
  <2> HIDE DEF P
  <2>1. 0..B \subseteq P
    BY <1>2, <1>14, <1>15, CountUp
  <2> QED  BY <1>2, <2>1
<1>17. c[t.root_id] \in D /\ t.nodes[c[t.root_id]].is_leaf
  <2>1. h[t.root_id] <= B
    BY <1>2
  <2> QED  BY <1>2, <1>16, <2>1
<1> QED  BY <1>12, <1>17 DEF D

-------------------------------------------------------------------------------
(* insert()                                                                  *)

\* A leaf that changed is split if it is full, and the tree adjusted over it.
LEMMA FilledLeaf ==
  ASSUME NEW tree, NEW h, NEW L, Pending(tree, h, L, 0)
  PROVE  SoundTree(SplitIfFull(tree, L)) /\ LeafEntries(SplitIfFull(tree, L)) = LeafEntries(tree)
<1> DEFINE full == Len(tree.nodes[L].entries) >= CONST_M
           t == SplitNode(tree, L)
<1>1. CASE full
  <2>1. SplitIfFull(tree, L) = AdjustTree(t, L, tree.node_id_gen + 1)
    BY <1>1 DEF SplitIfFull
  <2>2. PICK k : Pending(t, k, L, tree.node_id_gen + 1)
    BY <1>1, FullSplits
  <2>3. LeafEntries(t) = LeafEntries(tree)
    BY <1>1, FullSplits
  <2> HIDE DEF t, full
  <2> QED  BY <2>1, <2>2, <2>3, AdjustedIsSound
<1>2. CASE ~full
  <2>1. SplitIfFull(tree, L) = AdjustTree(tree, L, 0)
    BY <1>2 DEF SplitIfFull
  <2> QED  BY <2>1, AdjustedIsSound
<1> QED  BY <1>1, <1>2

\* An entry that is inserted is there, with all that were, and the tree is as it should
\* be.
LEMMA EntryInserted ==
  ASSUME NEW tree, SoundTree(tree), NEW x \in Boxes, NEW data \in Nat, NewRef(tree, data)
  PROVE  LET t == InsertEntry(tree, x, data) IN
         SoundTree(t) /\ LeafEntries(t) = LeafEntries(tree) \cup {Entry(x, data)}
<1>1. PICK h : Sound(tree, h)
  BY DEF SoundTree
<1> DEFINE L == ChooseLeaf(tree, x)
           a == Entry(x, data)
           u == [tree EXCEPT !.nodes[L].entries = Append(tree.nodes[L].entries, a)]
<1>2. L \in Numbers(tree) /\ tree.nodes[L].is_leaf
  BY <1>1, LeafIsChosen
<1>3. a \in EntryRecords /\ a.ref = data
  BY EntryIs
<1>4. InsertEntry(tree, x, data) = SplitIfFull(u, L)
  <2>1. InsertEntry(tree, x, data) = SplitIfFull([tree EXCEPT !.nodes[L].entries = Append(@, a)], L)
    BY DEF InsertEntry
  <2>2. [tree EXCEPT !.nodes[L].entries = Append(@, a)] = u
    OBVIOUS
  <2> QED  BY <2>1, <2>2
<1> HIDE DEF L, a
<1>5. Pending(u, h, L, 0) /\ LeafEntries(u) = LeafEntries(tree) \cup {a}
  BY <1>1, <1>2, <1>3, EntryPending
<1> HIDE DEF u
<1>6. SoundTree(SplitIfFull(u, L)) /\ LeafEntries(SplitIfFull(u, L)) = LeafEntries(u)
  BY <1>5, FilledLeaf
<1> QED  BY <1>4, <1>5, <1>6 DEF a

\* The extent a feature is put in with.
Given(x) == IF Area(x) = 0 THEN Expand(x, MARGIN) ELSE x

\* A point moves.
Moved(p, a, b) == [p EXCEPT !.x = a, !.y = b]

\* A point that moves is a point.
LEMMA MovedPoint ==
  ASSUME NEW p \in ValidPoints, NEW a \in Int, NEW b \in Int
  PROVE  Moved(p, a, b) \in ValidPoints /\ Moved(p, a, b).x = a /\ Moved(p, a, b).y = b
<1>1. p \in GeoPoints /\ p.ok
  BY ValidIs
<1> DEFINE r == [p EXCEPT !.x = a]
           q == [r EXCEPT !.y = b]
<1>2. r \in GeoPoints /\ r.x = a /\ r.ok = p.ok
  BY <1>1 DEF GeoPoints
<1> HIDE DEF r
<1>3. q \in GeoPoints /\ q.x = r.x /\ q.y = b /\ q.ok = r.ok
  BY <1>2 DEF GeoPoints
<1>4. Moved(p, a, b) = q
  BY DEF r, Moved
<1> HIDE DEF q
<1> QED  BY <1>1, <1>2, <1>3, <1>4, ValidIs

\* A box that is grown covers what it was.
LEMMA GrownBox ==
  ASSUME NEW e \in Boxes, NEW d \in Nat
  PROVE  LET f == Expand(e, d) IN
         /\ f \in Boxes /\ Covers(f, e)
         /\ f.sw.x = e.sw.x - d /\ f.sw.y = e.sw.y - d /\ f.ne.x = e.ne.x + d /\ f.ne.y = e.ne.y + d
<1> DEFINE p == Moved(e.sw, e.sw.x - d, e.sw.y - d)
           q == Moved(e.ne, e.ne.x + d, e.ne.y + d)
           f == [e EXCEPT !.sw = p, !.ne = q]
<1>0. /\ e.sw.x \in Int /\ e.sw.y \in Int /\ e.ne.x \in Int /\ e.ne.y \in Int
      /\ e.sw.x <= e.ne.x /\ e.sw.y <= e.ne.y
  BY BoxNumbers
<1>1. Expand(e, d) = f
  BY DEF Expand, Moved
<1>2. p \in ValidPoints /\ p.x = e.sw.x - d /\ p.y = e.sw.y - d
  <2>1. e.sw \in ValidPoints /\ e.sw.x - d \in Int /\ e.sw.y - d \in Int
    BY <1>0, BoxCorners
  <2> QED  BY <2>1, MovedPoint
<1>3. q \in ValidPoints /\ q.x = e.ne.x + d /\ q.y = e.ne.y + d
  <2>1. e.ne \in ValidPoints /\ e.ne.x + d \in Int /\ e.ne.y + d \in Int
    BY <1>0, BoxCorners
  <2> QED  BY <2>1, MovedPoint
<1> HIDE DEF p, q
<1>4. e \in GeoExtents /\ e.is_valid /\ ~e.is_infinite
  BY BoxIs, BoxFlags
<1>5. f \in GeoExtents /\ f.sw = p /\ f.ne = q /\ f.is_valid = e.is_valid /\ f.is_infinite = e.is_infinite
  <2>1. p \in GeoPoints /\ q \in GeoPoints
    BY <1>2, <1>3, ValidIs
  <2> QED  BY <1>4, <2>1, SetCorners
<1> HIDE DEF f
<1>6. p.ok /\ q.ok
  BY <1>2, <1>3, ValidIs
<1>7. f \in Boxes
  <2>1. f.sw.x <= f.ne.x /\ f.sw.y <= f.ne.y
    BY <1>0, <1>2, <1>3, <1>5
  <2> QED  BY <1>4, <1>5, <1>6, <2>1, BoxIs DEF IsBox
<1>8. Covers(f, e)
  BY <1>0, <1>2, <1>3, <1>5 DEF Covers
<1> QED  BY <1>1, <1>2, <1>3, <1>5, <1>7, <1>8

\* RTree::insert() (RTree.cpp.inline:39-54, 275-296), whatever is split on the way up: the
\* feature is in one leaf afterwards, every other one is where it can be found,
\* entries cover what is under them, and all leaves are at one depth.
THEOREM FeatureInserted ==
  ASSUME NEW tree, SoundTree(tree), NEW x \in Boxes, NEW data \in Nat, NewRef(tree, data)
  PROVE  LET t == Insert(tree, x, data) IN
         SoundTree(t) /\ LeafEntries(t) = LeafEntries(tree) \cup {Entry(Given(x), data)}
<1>1. Given(x) \in Boxes
  BY MarginAssumption, GrownBox DEF Given
<1>2. Insert(tree, x, data) = InsertEntry(tree, Given(x), data)
  BY DEF Insert, Given
<1> QED  BY <1>1, <1>2, EntryInserted

\* The tree the constructor makes.
LEMMA EmptyTreeIsSound == SoundTree(EmptyTree) /\ LeafEntries(EmptyTree) = {}
<1> DEFINE t == EmptyTree
           v == [parent |-> 0, is_leaf |-> TRUE, entries |-> <<>>]
           h == [m \in 1..1 |-> 0]
<1>1. v \in NodeRecords /\ v.parent = 0 /\ v.is_leaf = TRUE /\ v.entries = <<>>
  <2>1. <<>> \in Seq(EntryRecords)
    OBVIOUS
  <2> QED  BY <2>1 DEF NodeRecords
<1> HIDE DEF v
<1>2. t.nodes = <<v>> /\ t.root_id = 1 /\ t.node_id_gen = 1 /\ t = [nodes |-> <<v>>, root_id |-> 1, node_id_gen |-> 1]
  BY DEF EmptyTree, v
<1>3. <<v>> \in Seq(NodeRecords) /\ Len(<<v>>) = 1 /\ <<v>>[1] = v
  BY <1>1
<1>4. IsTree(t)
  <2>1. t \in TreeRecords
    BY <1>2, <1>3 DEF TreeRecords
  <2> QED  BY <1>2, <1>3, <2>1 DEF IsTree
<1>5. Numbers(t) = {1} /\ t.nodes[1] = v
  BY <1>2, <1>3 DEF Numbers
<1>6. Kids(t, 1) = {} /\ IsInjective(t.nodes[1].entries)
  BY <1>1, <1>5, EmptyQueue DEF Kids
<1>7. h[1] = 0 /\ h \in [{1} -> Nat]
  OBVIOUS
<1> HIDE DEF t, h
<1>8. Ranked(t, h)
  BY <1>1, <1>2, <1>5, <1>7 DEF Ranked
<1>9. Linked(t, h) /\ Held(t, h, 1)
  BY <1>5, <1>7 DEF Linked, Held
<1>10. Hung(t, h, 0)
  BY <1>1, <1>2, <1>5 DEF Hung
<1>11. Distinct(t) /\ OneLeaf(t, h)
  BY <1>5, <1>6 DEF Distinct, OneLeaf
<1>12. Filled(t, h) /\ Beside(t, h, 1, 0)
  BY <1>2, <1>5, <1>7 DEF Filled, Beside
<1>13. SoundTree(t)
  BY <1>2, <1>4, <1>8, <1>9, <1>10, <1>11, <1>12 DEF SoundTree, Sound, Pending
<1>14. LeafEntries(t) = {}
  BY <1>5, <1>6 DEF LeafEntries
<1> QED  BY <1>13, <1>14 DEF t

-------------------------------------------------------------------------------
(* find(): a walk of the tree.                                              *)

\* find() at a node: the entries that meet the query, and what is found under them.
Met(t, q, n) ==
  Selected(t.nodes[n].entries, {e \in ToSet(t.nodes[n].entries) : Intersects(e.extent, q)})
References(s) == [i \in DOMAIN s |-> s[i].ref]
Followed(s, f) == [i \in DOMAIN s |-> f[s[i].ref]]
FoundAt(t, q, f, n) ==
  IF t.nodes[n].is_leaf THEN References(Met(t, q, n)) ELSE FlattenSeq(Followed(Met(t, q, n), f))
Walks(t, q, f) == f = [n \in DOMAIN t.nodes |-> FoundAt(t, q, f, n)]

\* find() as the function that is chosen.
LEMMA FoundChosen ==
  ASSUME NEW t, NEW q
  PROVE  Find(t, q) = (CHOOSE f : Walks(t, q, f))[t.root_id]
BY DEF Find, Walks, FoundAt, Met, References, Followed

\* The entries of a node that meet the query.
LEMMA MetIs ==
  ASSUME NEW t, NEW q, NEW n, t.nodes[n].entries \in Seq(EntryRecords)
  PROVE  /\ Met(t, q, n) \in Seq(EntryRecords) /\ DOMAIN Met(t, q, n) = 1..Len(Met(t, q, n))
         /\ \A e : e \in Range(Met(t, q, n)) <=> e \in Kids(t, n) /\ Intersects(e.extent, q)
         /\ \A i \in 1..Len(Met(t, q, n)) : Met(t, q, n)[i] \in Range(Met(t, q, n))
         /\ IsInjective(t.nodes[n].entries) => IsInjective(Met(t, q, n))
<1> DEFINE s == t.nodes[n].entries
           T == {e \in ToSet(s) : Intersects(e.extent, q)}
           M == Selected(s, T)
<1>1. Met(t, q, n) = M
  BY DEF Met
<1>2. ToSet(s) = Range(s) /\ Kids(t, n) = Range(s)
  BY SetOfSeq DEF Kids
<1>3. \A e : e \in T <=> e \in Range(s) /\ Intersects(e.extent, q)
  BY <1>2
<1> HIDE DEF s, T
<1>4. SelectedIs(s, EntryRecords, T)
  BY SelectedElements DEF s
<1>5. M \in Seq(EntryRecords) /\ Range(M) = Range(s) \cap T /\ (IsInjective(s) => IsInjective(M))
  BY <1>4 DEF SelectedIs
<1> HIDE DEF M
<1>6. DOMAIN M = 1..Len(M)
  BY <1>5
<1>7. \A i \in 1..Len(M) : M[i] \in Range(M)
  BY <1>6 DEF Range
<1>8. \A e : e \in Range(M) <=> e \in Kids(t, n) /\ Intersects(e.extent, q)
  BY <1>2, <1>3, <1>5
<1> QED  BY <1>1, <1>5, <1>6, <1>7, <1>8 DEF s

\* The numbers or results of entries, as a sequence.
LEMMA ReferencesAre ==
  ASSUME NEW s \in Seq(EntryRecords)
  PROVE  References(s) \in Seq(Nat) /\ Len(References(s)) = Len(s) /\ \A i \in 1..Len(s) : References(s)[i] = s[i].ref
<1>1. DOMAIN s = 1..Len(s) /\ Len(s) \in Nat
  OBVIOUS
<1>2. \A i \in 1..Len(s) : s[i].ref \in Nat
  BY EntriesIn
<1>3. References(s) \in [1..Len(s) -> Nat] /\ \A i \in 1..Len(s) : References(s)[i] = s[i].ref
  BY <1>1, <1>2 DEF References
<1> QED  BY <1>1, <1>3, FunctionIsSeq

\* The entries have been followed.
Reaches(s, f, V) == s \in Seq(EntryRecords) /\ \A i \in 1..Len(s) : f[s[i].ref] \in V

\* What was found under each of them.
LEMMA FollowedAre ==
  ASSUME NEW s, NEW V, NEW f, Reaches(s, f, V)
  PROVE  Followed(s, f) \in Seq(V) /\ Len(Followed(s, f)) = Len(s) /\ \A i \in 1..Len(s) : Followed(s, f)[i] = f[s[i].ref]
<1>1. DOMAIN s = 1..Len(s) /\ Len(s) \in Nat
  BY DEF Reaches
<1>3. Followed(s, f) \in [1..Len(s) -> V] /\ \A i \in 1..Len(s) : Followed(s, f)[i] = f[s[i].ref]
  BY <1>1 DEF Followed, Reaches
<1> QED  BY <1>1, <1>3, FunctionIsSeq

\* Going down below a node, for as long as what is below has a result.
LEMMA FoundTyped ==
  ASSUME NEW t, NEW h, NEW B, Walkable(t, h, B), NEW q, NEW n \in DOMAIN t.nodes, NEW f,
         \A m \in DOMAIN t.nodes : h[m] < h[n] => f[m] \in Seq(Nat)
  PROVE  FoundAt(t, q, f, n) \in Seq(Nat)
<1> DEFINE M == Met(t, q, n)
<1>1. t.nodes[n].entries \in Seq(EntryRecords)
  BY NodeParts DEF Walkable
<1>2. M \in Seq(EntryRecords) /\ \A i \in 1..Len(M) : M[i] \in Kids(t, n)
  BY <1>1, MetIs
<1> HIDE DEF M
<1>3. CASE t.nodes[n].is_leaf
  BY <1>2, <1>3, ReferencesAre DEF FoundAt, M
<1>4. CASE ~t.nodes[n].is_leaf
  <2>1. \A i \in 1..Len(M) : f[M[i].ref] \in Seq(Nat)
    BY <1>2, <1>4 DEF Walkable
  <2>2. Followed(M, f) \in Seq(Seq(Nat))
    BY <1>2, <2>1, FollowedAre DEF Reaches
  <2> QED  BY <1>4, <2>2, FlattenIsSeq DEF FoundAt, M
<1> QED  BY <1>3, <1>4

\* What is found at a node depends only on the nodes below it.
LEMMA FoundDescends ==
  ASSUME NEW t, NEW h, NEW B, Walkable(t, h, B), NEW q, NEW n \in DOMAIN t.nodes, NEW f, NEW g,
         \A m \in DOMAIN t.nodes : h[m] < h[n] => f[m] = g[m]
  PROVE  FoundAt(t, q, f, n) = FoundAt(t, q, g, n)
<1> DEFINE M == Met(t, q, n)
<1>1. t.nodes[n].entries \in Seq(EntryRecords)
  BY NodeParts DEF Walkable
<1>2. DOMAIN M = 1..Len(M) /\ \A i \in 1..Len(M) : M[i] \in Kids(t, n)
  BY <1>1, MetIs
<1> HIDE DEF M
<1>3. CASE t.nodes[n].is_leaf
  BY <1>3 DEF FoundAt
<1>4. CASE ~t.nodes[n].is_leaf
  <2>1. \A i \in DOMAIN M : f[M[i].ref] = g[M[i].ref]
    BY <1>2, <1>4 DEF Walkable
  <2>2. Followed(M, f) = Followed(M, g)
    BY <2>1 DEF Followed
  <2> QED  BY <1>4, <2>2 DEF FoundAt, M
<1> QED  BY <1>3, <1>4

\* What Find computes at each node.
LEMMA FindWalks ==
  ASSUME NEW t, NEW h, NEW B \in Nat, Walkable(t, h, B), NEW q
  PROVE  \E c : /\ \A n \in DOMAIN t.nodes : c[n] = FoundAt(t, q, c, n) /\ c[n] \in Seq(Nat)
                /\ Find(t, q) = c[t.root_id]
<1> DEFINE D == DOMAIN t.nodes
           V == Seq(Nat)
           H == [p \in D \X [D -> V] |-> FoundAt(t, q, p[2], p[1])]
<1>1. h \in [D -> 0..B]
  BY DEF Walkable
<1> HIDE DEF D
<1>2. \A n \in D, f \in [D -> V] : FoundAt(t, q, f, n) \in V
  BY FoundTyped DEF D
<1> HIDE DEF V
<1>3. H \in [D \X [D -> V] -> V] /\ \A n \in D, f \in [D -> V] : H[<<n, f>>] = FoundAt(t, q, f, n)
  BY <1>2
<1> HIDE DEF H
<1>4. Descends(D, h, V, H)
  <2> SUFFICES ASSUME NEW n \in D, NEW f \in [D -> V], NEW g \in [D -> V], \A m \in D : h[m] < h[n] => f[m] = g[m]
               PROVE  H[<<n, f>>] = H[<<n, g>>]
    BY DEF Descends
  <2>1. FoundAt(t, q, f, n) = FoundAt(t, q, g, n)
    BY FoundDescends DEF D
  <2> QED  BY <1>3, <2>1
<1>5. Recursion(D, B, h, V, H)
  <2>1. V # {}
    <3>1. <<>> \in Seq(Nat)
      OBVIOUS
    <3> QED  BY <3>1 DEF V
  <2> QED  BY <1>1, <1>3, <1>4, <2>1 DEF Recursion
<1>6. \E f \in [D -> V] : \A n \in D : f[n] = H[<<n, f>>]
  BY <1>5, RankedExists
<1>7. PICK f \in [D -> V] : \A n \in D : f[n] = FoundAt(t, q, f, n)
  BY <1>3, <1>6
<1>8. Walks(t, q, f)
  <2>1. f = [n \in D |-> FoundAt(t, q, f, n)]
    BY <1>7
  <2> QED  BY <2>1 DEF Walks, D
<1> DEFINE c == CHOOSE g : Walks(t, q, g)
<1>9. Walks(t, q, c)
  BY <1>8
<1>10. Find(t, q) = c[t.root_id]
  BY FoundChosen
<1> HIDE DEF c
<1>11. \A n \in D : c[n] = FoundAt(t, q, c, n)
  <2>1. c = [n \in D |-> FoundAt(t, q, c, n)]
    BY <1>9 DEF Walks, D
  <2> QED  BY <2>1
<1> DEFINE P == {k \in 0..B : \A n \in D : h[n] <= k => c[n] \in V}
<1>12. 0 \in P
  <2>1. ASSUME NEW n \in D, h[n] <= 0 PROVE c[n] \in V
    <3>1. \A m \in D : ~(h[m] < h[n])
      BY <1>1, <2>1
    <3>2. FoundAt(t, q, c, n) \in V
      BY <3>1, FoundTyped DEF D, V
    <3> QED  BY <1>11, <3>2
  <2> QED  BY <2>1
<1>13. ASSUME NEW k \in 1..B, k - 1 \in P PROVE k \in P
  <2>1. ASSUME NEW n \in D, h[n] <= k PROVE c[n] \in V
    <3>1. \A m \in D : h[m] < h[n] => c[m] \in V
      <4>1. \A m \in D : h[m] < h[n] => h[m] <= k - 1
        BY <1>1, <2>1
      <4> QED  BY <1>13, <4>1
    <3>2. FoundAt(t, q, c, n) \in V
      BY <3>1, FoundTyped DEF D, V
    <3> QED  BY <1>11, <3>2
  <2> QED  BY <2>1
<1>14. B \in P
  <2> HIDE DEF P
  <2>1. 0..B \subseteq P
    BY <1>12, <1>13, CountUp
  <2> QED  BY <2>1
<1>15. \A n \in D : c[n] \in V
  <2>1. \A n \in D : h[n] <= B
    BY <1>1
  <2> QED  BY <1>14, <2>1
<1> QED  BY <1>10, <1>11, <1>15 DEF D, V

\* A walk of a tree whose nodes are all there finds features.
LEMMA FindIsSeq ==
  ASSUME NEW t, NEW h, NEW B \in Nat, Walkable(t, h, B), NEW q
  PROVE  Find(t, q) \in Seq(Nat)
<1>1. PICK c : /\ \A n \in DOMAIN t.nodes : c[n] = FoundAt(t, q, c, n) /\ c[n] \in Seq(Nat)
               /\ Find(t, q) = c[t.root_id]
  BY FindWalks
<1>2. t.root_id \in DOMAIN t.nodes
  BY DEF Walkable
<1> QED  BY <1>1, <1>2

-------------------------------------------------------------------------------
(* find(): what it finds.                                                   *)

\* The node of each rank over a leaf.
Up(t, i) == IF i \in Numbers(t) THEN t.nodes[i].parent ELSE 0
Above(t, u) ==
  /\ \A m \in Numbers(t) : u[0][m] = m
  /\ \A k \in 1..t.node_id_gen, m \in Numbers(t) : u[k][m] = Up(t, u[k - 1][m])

\* The nodes over every node are defined.
LEMMA AboveExists ==
  ASSUME NEW t, IsTree(t)
  PROVE  \E u : Above(t, u)
<1> DEFINE D == Numbers(t)
           W == [D -> Nat]
           N == t.node_id_gen
           base == [m \in D |-> m]
           H == [p \in (1..N) \X W |-> [m \in D |-> Up(t, p[2][m])]]
<1>1. N \in Nat /\ D \subseteq Nat /\ \A i \in D : t.nodes[i].parent \in Nat
  BY TreeIs, NodeIs DEF Numbers
<1>2. \A i : Up(t, i) \in Nat
  BY <1>1 DEF Up
<1> HIDE DEF D, N
<1>3. base \in W
  BY <1>1
<1>4. H \in [(1..N) \X W -> W] /\ \A k \in 1..N, f \in W : H[<<k, f>>] = [m \in D |-> Up(t, f[m])]
  <2>1. \A f \in W : [m \in D |-> Up(t, f[m])] \in W
    BY <1>2
  <2> HIDE DEF W
  <2> QED  BY <2>1
<1> HIDE DEF H
<1>5. PICK u : Computes(N, W, base, H, u)
  <2> HIDE DEF W, base
  <2> QED  BY <1>1, <1>3, <1>4, LoopComputes
<1>6. u \in [0..N -> W] /\ u[0] = base /\ \A k \in 1..N : u[k] = H[<<k, u[k - 1]>>]
  BY <1>5 DEF Computes
<1>7. \A m \in D : u[0][m] = m
  BY <1>6
<1>8. ASSUME NEW k \in 1..N, NEW m \in D PROVE u[k][m] = Up(t, u[k - 1][m])
  <2>1. k - 1 \in 0..N
    BY <1>1
  <2>2. u[k - 1] \in W
    BY <1>6, <2>1
  <2>3. u[k] = [i \in D |-> Up(t, u[k - 1][i])]
    <3> HIDE DEF W
    <3> QED  BY <1>4, <1>6, <2>2
  <2> QED  BY <2>3
<1> QED  BY <1>7, <1>8 DEF Above, D, N

\* The leaves of a tree.
Leaves(t) == {m \in Numbers(t) : t.nodes[m].is_leaf}

\* Over every leaf there is a node of every rank up to the root's.
LEMMA AboveLeaves ==
  ASSUME NEW t, NEW h, Sound(t, h), NEW u, Above(t, u), NEW l \in Leaves(t)
  PROVE  /\ \A k \in 0..h[t.root_id] : u[k][l] \in Numbers(t) /\ h[u[k][l]] = k
         /\ \A k \in 1..h[t.root_id] : \E e \in Kids(t, u[k][l]) : e.ref = u[k - 1][l]
         /\ u[h[t.root_id]][l] = t.root_id
<1> DEFINE D == Numbers(t)
           r == t.root_id
           R == h[r]
<1>1. IsTree(t) /\ Ranked(t, h) /\ Linked(t, h) /\ Hung(t, h, 0)
  BY DEF Sound, Pending
<1>2. /\ h \in [D -> Nat] /\ (\A m \in D : (t.nodes[m].is_leaf <=> h[m] = 0) /\ h[m] <= R)
      /\ R < t.node_id_gen /\ r \in D /\ t.node_id_gen \in Nat
  BY <1>1, TreeIs DEF Ranked, Hung
<1>3. R \in Nat /\ \A m \in D : h[m] \in Nat
  BY <1>2
<1>4. l \in D /\ h[l] = 0
  BY <1>2 DEF Leaves
<1>5. 0 \notin D
  BY DEF Numbers
<1>6. \A m \in D \ {r} : LET p == t.nodes[m].parent IN p \in D /\ h[p] # 0 /\ \E e \in Kids(t, p) : e.ref = m
  BY <1>1, <1>5 DEF Hung
<1>7. \A m \in D : h[m] # 0 => \A e \in Kids(t, m) : e.ref \in D /\ t.nodes[e.ref].parent = m /\ h[m] = h[e.ref] + 1
  BY <1>1 DEF Linked
<1>8. ASSUME NEW k \in 1..R PROVE u[k][l] = Up(t, u[k - 1][l])
  <2>1. k \in 1..t.node_id_gen
    BY <1>2, <1>3
  <2> QED  BY <1>4, <2>1 DEF Above
<1> HIDE DEF D, r, R
<1>9. ASSUME NEW m \in D \ {r}
      PROVE  Up(t, m) \in D /\ h[Up(t, m)] = h[m] + 1 /\ \E e \in Kids(t, Up(t, m)) : e.ref = m
  <2> DEFINE p == t.nodes[m].parent
  <2>1. Up(t, m) = p
    BY DEF Up, D
  <2>2. p \in D /\ h[p] # 0 /\ \E e \in Kids(t, p) : e.ref = m
    BY <1>6
  <2> HIDE DEF p
  <2> QED  BY <1>7, <2>1, <2>2
<1> DEFINE P == {k \in 0..R : u[k][l] \in D /\ h[u[k][l]] = k}
<1>10. 0 \in P
  <2>1. u[0][l] = l
    BY <1>4 DEF Above, D
  <2> QED  BY <1>3, <1>4, <2>1
<1>11. ASSUME NEW k \in 1..R, k - 1 \in P
       PROVE  k \in P /\ \E e \in Kids(t, u[k][l]) : e.ref = u[k - 1][l]
  <2> DEFINE m == u[k - 1][l]
  <2>1. m \in D /\ h[m] = k - 1
    BY <1>11
  <2> HIDE DEF m
  <2>2. m # r
    BY <1>3, <2>1 DEF R
  <2>3. u[k][l] = Up(t, m)
    BY <1>8 DEF m
  <2>4. Up(t, m) \in D /\ h[Up(t, m)] = h[m] + 1 /\ \E e \in Kids(t, Up(t, m)) : e.ref = m
    BY <1>9, <2>1, <2>2
  <2>5. h[u[k][l]] = k
    BY <1>3, <2>1, <2>3, <2>4
  <2> QED  BY <1>3, <2>3, <2>4, <2>5 DEF m
<1>12. 0..R \subseteq P
  <2> HIDE DEF P
  <2> QED  BY <1>3, <1>10, <1>11, CountUp
<1>13. \A k \in 0..R : u[k][l] \in D /\ h[u[k][l]] = k
  BY <1>12
<1>14. \A k \in 1..R : \E e \in Kids(t, u[k][l]) : e.ref = u[k - 1][l]
  <2> SUFFICES ASSUME NEW k \in 1..R PROVE \E e \in Kids(t, u[k][l]) : e.ref = u[k - 1][l]
    OBVIOUS
  <2>1. k - 1 \in 0..R
    BY <1>3
  <2>2. k - 1 \in P
    BY <1>12, <2>1
  <2> HIDE DEF P
  <2> QED  BY <1>11, <2>2
<1>15. u[R][l] = r
  <2>1. R \in 0..R
    BY <1>3
  <2>2. u[R][l] \in D /\ h[u[R][l]] = R
    BY <1>13, <2>1
  <2> SUFFICES ASSUME u[R][l] # r PROVE FALSE
    OBVIOUS
  <2>3. Up(t, u[R][l]) \in D /\ h[Up(t, u[R][l])] = R + 1
    BY <1>9, <2>2
  <2>4. h[Up(t, u[R][l])] <= R
    BY <1>2, <2>3 DEF D, R, r
  <2> QED  BY <1>3, <2>3, <2>4
<1> QED  BY <1>13, <1>14, <1>15 DEF D, r, R

\* An entry holds all that the leaves below it hold.
LEMMA HeldBelow ==
  ASSUME NEW t, NEW h, Sound(t, h), NEW u, Above(t, u), NEW l \in Leaves(t), NEW f \in Kids(t, l)
  PROVE  \A k \in 0..h[t.root_id] : \A m \in Numbers(t) : \A e \in Kids(t, m) :
            h[m] # 0 /\ e.ref = u[k][l] => Covers(e.extent, f.extent)
<1> DEFINE D == Numbers(t)
           R == h[t.root_id]
           P == {k \in 0..R : \A m \in D : \A e \in Kids(t, m) : h[m] # 0 /\ e.ref = u[k][l] => Covers(e.extent, f.extent)}
<1>1. IsTree(t) /\ Ranked(t, h) /\ Linked(t, h) /\ Held(t, h, t.root_id) /\ Hung(t, h, 0)
  BY DEF Sound, Pending
<1>2. R \in Nat /\ \A m \in D : h[m] \in Nat
  BY <1>1 DEF Ranked, Hung
<1>3. /\ \A k \in 0..R : u[k][l] \in D /\ h[u[k][l]] = k
      /\ \A k \in 1..R : \E e \in Kids(t, u[k][l]) : e.ref = u[k - 1][l]
  BY AboveLeaves
<1>4. l \in D
  BY DEF Leaves
<1>5. \A m \in D : h[m] # 0 => \A e \in Kids(t, m) : e.ref \in D /\ e.ref # t.root_id
  <2>1. \A m \in D : h[m] # 0 => \A e \in Kids(t, m) : e.ref \in D /\ t.nodes[e.ref].parent = m
    BY <1>1 DEF Linked
  <2>2. t.nodes[t.root_id].parent = 0 /\ 0 \notin D
    BY <1>1 DEF Hung, Numbers
  <2> QED  BY <2>1, <2>2
<1>6. \A m \in D : h[m] # 0 => \A e \in Kids(t, m) : \A g \in Kids(t, e.ref) : Covers(e.extent, g.extent)
  BY <1>1, <1>5 DEF Held
<1>7. \A m \in D : \A e \in Kids(t, m) : e.extent \in Boxes
  BY <1>1, KidsAre
<1>8. u[0][l] = l
  BY <1>4 DEF Above
<1> HIDE DEF D, R
<1>9. 0 \in P
  BY <1>2, <1>6, <1>8
<1>10. ASSUME NEW k \in 1..R, k - 1 \in P PROVE k \in P
  <2>1. ASSUME NEW m \in D, NEW e \in Kids(t, m), h[m] # 0, e.ref = u[k][l] PROVE Covers(e.extent, f.extent)
    <3>1. k \in 0..R /\ u[k][l] \in D /\ h[u[k][l]] = k
      BY <1>2, <1>3
    <3>2. PICK g \in Kids(t, u[k][l]) : g.ref = u[k - 1][l]
      BY <1>3
    <3>3. Covers(g.extent, f.extent)
      BY <1>10, <3>1, <3>2
    <3>4. Covers(e.extent, g.extent)
      BY <1>6, <2>1, <3>2
    <3>5. e.extent \in Boxes /\ g.extent \in Boxes /\ f.extent \in Boxes
      BY <1>4, <1>7, <3>1
    <3> QED  BY <3>3, <3>4, <3>5, CoversOn
  <2> QED  BY <1>2, <2>1
<1>11. 0..R \subseteq P
  <2> HIDE DEF P
  <2> QED  BY <1>2, <1>9, <1>10, CountUp
<1> QED  BY <1>11 DEF D, R

-------------------------------------------------------------------------------
(* What is found below a node is what the leaves under it have.              *)

\* The sequence s is what the leaves under node n have that meets q.
FindsBelow(t, h, u, q, n, s) ==
  /\ IsInjective(s)
  /\ \A x : x \in Range(s) <=>
       \E l \in Leaves(t) : u[h[n]][l] = n /\ \E e \in Kids(t, l) : e.ref = x /\ Intersects(e.extent, q)

\* What is found in a leaf.
LEMMA FindsInLeaf ==
  ASSUME NEW t, NEW h, Sound(t, h), NEW u, Above(t, u), NEW q, NEW n \in Leaves(t), NEW c
  PROVE  FindsBelow(t, h, u, q, n, FoundAt(t, q, c, n))
<1> DEFINE M == Met(t, q, n)
           s == References(M)
<1>1. IsTree(t) /\ Ranked(t, h) /\ Distinct(t)
  BY DEF Sound, Pending
<1>2. n \in Numbers(t) /\ h[n] = 0 /\ t.nodes[n].is_leaf
  BY <1>1 DEF Ranked, Leaves
<1>3. t.nodes[n].entries \in Seq(EntryRecords)
  BY <1>1, <1>2, NodeIs
<1>4. /\ M \in Seq(EntryRecords) /\ DOMAIN M = 1..Len(M)
      /\ \A e : e \in Range(M) <=> e \in Kids(t, n) /\ Intersects(e.extent, q)
      /\ \A i \in 1..Len(M) : M[i] \in Range(M)
      /\ IsInjective(M)
  BY <1>1, <1>2, <1>3, MetIs DEF Distinct
<1>5. FoundAt(t, q, c, n) = s
  BY <1>2 DEF FoundAt
<1> HIDE DEF M
<1>6. s \in Seq(Nat) /\ Len(s) = Len(M) /\ \A i \in 1..Len(M) : s[i] = M[i].ref
  BY <1>4, ReferencesAre
<1> HIDE DEF s
<1>7. DOMAIN s = 1..Len(M)
  BY <1>6
<1>8. IsInjective(s)
  <2>1. ASSUME NEW i \in 1..Len(M), NEW j \in 1..Len(M), s[i] = s[j] PROVE i = j
    <3>1. M[i] \in Kids(t, n) /\ M[j] \in Kids(t, n) /\ M[i].ref = M[j].ref
      BY <1>4, <1>6, <2>1
    <3>2. M[i] = M[j]
      BY <1>1, <1>2, <3>1 DEF Distinct
    <3> QED  BY <1>4, <3>2 DEF IsInjective
  <2> QED  BY <1>7, <2>1 DEF IsInjective
<1>9. ASSUME NEW x
      PROVE  x \in Range(s) <=> \E e \in Kids(t, n) : e.ref = x /\ Intersects(e.extent, q)
  <2>1. x \in Range(s) <=> \E i \in 1..Len(M) : s[i] = x
    BY <1>7 DEF Range
  <2>2. \A e : e \in Range(M) <=> \E i \in 1..Len(M) : M[i] = e
    BY <1>4 DEF Range
  <2>3. ASSUME NEW i \in 1..Len(M), s[i] = x PROVE \E e \in Kids(t, n) : e.ref = x /\ Intersects(e.extent, q)
    BY <1>4, <1>6, <2>3
  <2>4. ASSUME NEW e \in Kids(t, n), e.ref = x, Intersects(e.extent, q) PROVE \E i \in 1..Len(M) : s[i] = x
    <3>1. PICK i \in 1..Len(M) : M[i] = e
      BY <1>4, <2>2, <2>4
    <3> QED  BY <1>6, <2>4, <3>1
  <2> QED  BY <2>1, <2>3, <2>4
<1>10. \A l \in Leaves(t) : u[h[n]][l] = l
  BY <1>2 DEF Above, Leaves
<1> QED  BY <1>5, <1>8, <1>9, <1>10 DEF FindsBelow

\* What is found in a node, if it is found in the nodes under it: an entry covers what
\* its node has, so that no node which has a feature is left out.
LEMMA FindsInNode ==
  ASSUME NEW t, NEW h, Sound(t, h), NEW u, Above(t, u), NEW q \in GeoExtents, ~q.is_infinite,
         NEW n \in Numbers(t), ~t.nodes[n].is_leaf, NEW c,
         \A m \in Numbers(t) : h[n] = h[m] + 1 => c[m] \in Seq(Nat) /\ FindsBelow(t, h, u, q, m, c[m])
  PROVE  FindsBelow(t, h, u, q, n, FoundAt(t, q, c, n))
<1> DEFINE M == Met(t, q, n)
           ss == Followed(M, c)
           s == FlattenSeq(ss)
           k == h[n] - 1
           N == Len(M)
<1>1. IsTree(t) /\ Ranked(t, h) /\ Linked(t, h) /\ Distinct(t) /\ OneLeaf(t, h) /\ Hung(t, h, 0)
  BY DEF Sound, Pending
<1>2. h[n] # 0 /\ h[n] \in Nat /\ h[n] <= h[t.root_id] /\ h[t.root_id] \in Nat
  BY <1>1 DEF Ranked, Hung
<1>3. t.nodes[n].entries \in Seq(EntryRecords)
  BY <1>1, NodeIs
<1>4. /\ M \in Seq(EntryRecords) /\ DOMAIN M = 1..N
      /\ \A e : e \in Range(M) <=> e \in Kids(t, n) /\ Intersects(e.extent, q)
      /\ \A i \in 1..N : M[i] \in Range(M)
      /\ IsInjective(M)
  BY <1>1, <1>3, MetIs DEF Distinct
<1>5. FoundAt(t, q, c, n) = s
  BY DEF FoundAt
<1>6. \A e \in Kids(t, n) : e.ref \in Numbers(t) /\ h[e.ref] = k /\ h[n] = h[e.ref] + 1
  <2>1. \A e \in Kids(t, n) : e.ref \in Numbers(t) /\ h[n] = h[e.ref] + 1
    BY <1>1, <1>2 DEF Linked
  <2>2. \A m \in Numbers(t) : h[m] \in Nat
    BY <1>1 DEF Ranked
  <2> QED  BY <1>2, <2>1, <2>2
<1>6a. \A i \in 1..N : M[i] \in Kids(t, n) /\ Intersects(M[i].extent, q)
  BY <1>4
<1> HIDE DEF M, s, N
<1>7. ss \in Seq(Seq(Nat)) /\ Len(ss) = N /\ \A i \in 1..N : ss[i] = c[M[i].ref]
  <2>1. \A i \in 1..Len(M) : c[M[i].ref] \in Seq(Nat)
    BY <1>6, <1>6a DEF N
  <2>2. M \in Seq(EntryRecords)
    BY <1>4
  <2>3. Followed(M, c) \in Seq(Seq(Nat)) /\ Len(Followed(M, c)) = Len(M)
        /\ \A i \in 1..Len(M) : Followed(M, c)[i] = c[M[i].ref]
    <3>1. Reaches(M, c, Seq(Nat))
      BY <2>1, <2>2 DEF Reaches
    <3> QED  BY <3>1, FollowedAre
  <2> QED  BY <2>3 DEF N
<1> HIDE DEF ss
<1>8. (\A x : x \in Range(s) <=> InSome(ss, x)) /\ (Apart(ss) => IsInjective(s))
  BY <1>7, FlattenElements DEF s
<1>9. ASSUME NEW i \in 1..N
      PROVE  /\ IsInjective(ss[i])
             /\ \A x : x \in Range(ss[i]) <=>
                  \E l \in Leaves(t) : u[k][l] = M[i].ref /\ \E e \in Kids(t, l) : e.ref = x /\ Intersects(e.extent, q)
  <2>1. M[i].ref \in Numbers(t) /\ h[M[i].ref] = k /\ h[n] = h[M[i].ref] + 1
    BY <1>6, <1>6a
  <2>2. FindsBelow(t, h, u, q, M[i].ref, ss[i])
    BY <1>7, <2>1
  <2> HIDE DEF k
  <2> QED  BY <2>1, <2>2 DEF FindsBelow
<1>10. \A l \in Leaves(t) : l \in Numbers(t) /\ h[l] = 0
  BY <1>1 DEF Leaves, Ranked
<1>11. k \in 0..h[t.root_id] /\ h[n] \in 1..h[t.root_id] /\ h[n] - 1 = k
  BY <1>2
<1> HIDE DEF k
<1>12. Apart(ss)
  <2>1. ASSUME NEW i \in 1..N, NEW j \in 1..N, NEW x, x \in Range(ss[i]), x \in Range(ss[j]) PROVE i = j
    <3>1. PICK l \in Leaves(t) : u[k][l] = M[i].ref /\ \E e \in Kids(t, l) : e.ref = x
      <4>1. \A y : y \in Range(ss[i]) <=>
              \E p \in Leaves(t) : u[k][p] = M[i].ref /\ \E e \in Kids(t, p) : e.ref = y /\ Intersects(e.extent, q)
        BY <1>9
      <4> QED  BY <2>1, <4>1
    <3>2. PICK m \in Leaves(t) : u[k][m] = M[j].ref /\ \E e \in Kids(t, m) : e.ref = x
      <4>1. \A y : y \in Range(ss[j]) <=>
              \E p \in Leaves(t) : u[k][p] = M[j].ref /\ \E e \in Kids(t, p) : e.ref = y /\ Intersects(e.extent, q)
        BY <1>9
      <4> QED  BY <2>1, <4>1
    <3>3. l = m
      BY <1>1, <1>10, <3>1, <3>2 DEF OneLeaf
    <3>4. M[i].ref = M[j].ref
      BY <3>1, <3>2, <3>3
    <3>5. M[i] = M[j]
      BY <1>1, <1>6a, <3>4 DEF Distinct
    <3> QED  BY <1>4, <3>5 DEF IsInjective
  <2> QED  BY <1>7, <1>9, <2>1 DEF Apart
<1>13. ASSUME NEW x, x \in Range(s)
       PROVE  \E l \in Leaves(t) : u[h[n]][l] = n /\ \E e \in Kids(t, l) : e.ref = x /\ Intersects(e.extent, q)
  <2>1. PICK i \in 1..N : x \in Range(ss[i])
    BY <1>7, <1>8, <1>13 DEF InSome
  <2>2. PICK l \in Leaves(t) : u[k][l] = M[i].ref /\ \E e \in Kids(t, l) : e.ref = x /\ Intersects(e.extent, q)
    BY <1>9, <2>1
  <2>3. h[n] \in 1..t.node_id_gen
    BY <1>1, <1>2, <1>11, TreeIs DEF Ranked
  <2>4. u[h[n]][l] = Up(t, u[k][l])
    BY <1>10, <1>11, <2>3 DEF Above
  <2>5. M[i].ref \in Numbers(t) /\ t.nodes[M[i].ref].parent = n
    BY <1>1, <1>2, <1>6a DEF Linked
  <2>6. u[h[n]][l] = n
    BY <2>2, <2>4, <2>5 DEF Up
  <2> QED  BY <2>2, <2>6
<1>14. ASSUME NEW x, NEW l \in Leaves(t), u[h[n]][l] = n, NEW e \in Kids(t, l), e.ref = x, Intersects(e.extent, q)
       PROVE  x \in Range(s)
  <2>1. PICK f \in Kids(t, n) : f.ref = u[k][l]
    BY <1>11, <1>14, AboveLeaves
  <2>2. Covers(f.extent, e.extent)
    BY <1>2, <1>11, <2>1, HeldBelow
  <2>3. f.extent \in Boxes /\ e.extent \in Boxes
    BY <1>1, <1>10, KidsAre
  <2>4. Intersects(f.extent, q)
    BY <1>14, <2>2, <2>3, MeetsCover
  <2>5. PICK i \in 1..N : M[i] = f
    <3>1. f \in Range(M)
      BY <1>4, <2>4
    <3> QED  BY <1>4, <3>1 DEF Range
  <2>6. x \in Range(ss[i])
    BY <1>9, <1>14, <2>1, <2>5
  <2> QED  BY <1>7, <1>8, <2>6 DEF InSome
<1> QED  BY <1>5, <1>8, <1>12, <1>13, <1>14 DEF FindsBelow

\* RTree::find() (RTree.cpp.inline:299-328) gives the features whose extents in the leaves
\* meet the query's, each once, for a tree of any number of features.
THEOREM FindIsExact ==
  ASSUME NEW t, SoundTree(t), NEW q \in GeoExtents, ~q.is_infinite
  PROVE  /\ Find(t, q) \in Seq(Nat) /\ IsInjective(Find(t, q))
         /\ \A x : x \in Range(Find(t, q)) <=> \E e \in LeafEntries(t) : e.ref = x /\ Intersects(e.extent, q)
<1>1. PICK h : Sound(t, h)
  BY DEF SoundTree
<1> DEFINE D == Numbers(t)
           B == t.node_id_gen
           r == t.root_id
<1>2. Walkable(t, h, B) /\ B \in Nat /\ DOMAIN t.nodes = D
  BY <1>1, SoundWalks
<1>3. IsTree(t) /\ Ranked(t, h) /\ Hung(t, h, 0)
  BY <1>1 DEF Sound, Pending
<1>4. r \in D /\ h \in [D -> Nat] /\ (\A m \in D : t.nodes[m].is_leaf <=> h[m] = 0) /\ h[r] < B
  BY <1>3 DEF Ranked, Hung
<1>5. PICK u : Above(t, u)
  BY <1>3, AboveExists
<1>6. PICK c : (\A n \in D : c[n] = FoundAt(t, q, c, n) /\ c[n] \in Seq(Nat)) /\ Find(t, q) = c[r]
  BY <1>2, FindWalks
<1> HIDE DEF D, B, r
<1> DEFINE P == {k \in 0..B : \A n \in D : h[n] = k => FindsBelow(t, h, u, q, n, c[n])}
<1>7. 0 \in P
  <2>1. ASSUME NEW n \in D, h[n] = 0 PROVE FindsBelow(t, h, u, q, n, c[n])
    <3>1. n \in Leaves(t)
      BY <1>4, <2>1 DEF Leaves, D
    <3>2. FindsBelow(t, h, u, q, n, FoundAt(t, q, c, n))
      BY <1>1, <1>5, <3>1, FindsInLeaf
    <3> QED  BY <1>6, <3>2
  <2> QED  BY <1>2, <2>1
<1>8. ASSUME NEW k \in 1..B, k - 1 \in P PROVE k \in P
  <2>1. ASSUME NEW n \in D, h[n] = k PROVE FindsBelow(t, h, u, q, n, c[n])
    <3>1. ~t.nodes[n].is_leaf /\ n \in Numbers(t)
      BY <1>4, <2>1 DEF D
    <3>2. \A m \in Numbers(t) : h[n] = h[m] + 1 => c[m] \in Seq(Nat) /\ FindsBelow(t, h, u, q, m, c[m])
      <4> SUFFICES ASSUME NEW m \in D, h[n] = h[m] + 1 PROVE c[m] \in Seq(Nat) /\ FindsBelow(t, h, u, q, m, c[m])
        BY DEF D
      <4>1. h[m] = k - 1
        BY <1>4, <2>1
      <4> QED  BY <1>6, <1>8, <4>1
    <3>3. FindsBelow(t, h, u, q, n, FoundAt(t, q, c, n))
      BY <1>1, <1>5, <3>1, <3>2, FindsInNode
    <3> QED  BY <1>6, <3>3
  <2> QED  BY <1>2, <2>1
<1>9. 0..B \subseteq P
  <2> HIDE DEF P
  <2> QED  BY <1>2, <1>7, <1>8, CountUp
<1>10. FindsBelow(t, h, u, q, r, c[r])
  <2>1. h[r] \in 0..B
    BY <1>2, <1>4
  <2> QED  BY <1>4, <1>9, <2>1
<1>11. \A l \in Leaves(t) : u[h[r]][l] = r
  BY <1>1, <1>5, AboveLeaves DEF r
<1>12. \A e : e \in LeafEntries(t) <=> \E l \in Leaves(t) : e \in Kids(t, l)
  BY DEF LeafEntries, Leaves
<1>13. ASSUME NEW x
       PROVE  x \in Range(Find(t, q)) <=> \E e \in LeafEntries(t) : e.ref = x /\ Intersects(e.extent, q)
  <2>1. x \in Range(c[r]) <=> \E l \in Leaves(t) : \E e \in Kids(t, l) : e.ref = x /\ Intersects(e.extent, q)
    BY <1>10, <1>11 DEF FindsBelow
  <2> QED  BY <1>6, <1>12, <2>1
<1> QED  BY <1>4, <1>6, <1>10, <1>13 DEF FindsBelow

-------------------------------------------------------------------------------
(* writeTo() and readFrom(): what is printed.                               *)

\* Printing keeps the order of coordinates, and none is printed further off than d.
PrintsInOrder == /\ \A x \in Int : Printed(x) \in Int
                 /\ \A x, y \in Int : x <= y => Printed(x) <= Printed(y)
PrintsWithin(d) == \A x \in Int : x - d <= Printed(x) /\ Printed(x) <= x + d

\* Two corners in order make a box.
LEMMA CornersAreBox ==
  ASSUME NEW p \in ValidPoints, NEW q \in ValidPoints, p.x <= q.x, p.y <= q.y
  PROVE  Corners(p, q) \in Boxes /\ Corners(p, q).sw = p /\ Corners(p, q).ne = q
<1> DEFINE f == [Empty EXCEPT !.sw = p, !.ne = q]
           g == Recalc(f)
<1>0. p \in GeoPoints /\ q \in GeoPoints /\ p.ok /\ q.ok
  BY ValidIs
<1>1. Corners(p, q) = g
  BY <1>0 DEF Corners
<1>2. f \in GeoExtents /\ f.sw = p /\ f.ne = q /\ f.is_valid /\ ~f.is_infinite
  <2>1. Empty \in GeoExtents /\ Empty.is_valid /\ ~Empty.is_infinite
    BY EmptyIs
  <2>2. f \in GeoExtents /\ f.sw = p /\ f.ne = q /\ f.is_valid = Empty.is_valid /\ f.is_infinite = Empty.is_infinite
    BY ONLY <1>0, <2>1, SetCorners
  <2> QED  BY <2>1, <2>2
<1> HIDE DEF f
<1>3. g \in GeoExtents /\ g.sw = p /\ g.ne = q /\ g.is_valid /\ ~g.is_infinite
  <2>1. f.sw.x <= f.ne.x /\ f.sw.y <= f.ne.y
    BY <1>2
  <2>2. f \in GeoExtents /\ f.is_valid /\ ~f.is_infinite
    BY <1>2
  <2>3. g \in GeoExtents /\ g.sw = f.sw /\ g.ne = f.ne /\ g.is_infinite = f.is_infinite /\ g.is_valid
    BY ONLY <2>1, <2>2, RecalcParts
  <2> QED  BY <1>2, <2>3
<1> HIDE DEF g
<1>4. g \in Boxes
  BY <1>0, <1>3, BoxIs DEF IsBox
<1> QED  BY <1>1, <1>3, <1>4

\* A box that is read back is one, of the printed numbers.
LEMMA RereadBox ==
  ASSUME PrintsInOrder, NEW e \in Boxes
  PROVE  /\ Reread(e) \in Boxes
         /\ Reread(e).sw.x = Printed(e.sw.x) /\ Reread(e).sw.y = Printed(e.sw.y)
         /\ Reread(e).ne.x = Printed(e.ne.x) /\ Reread(e).ne.y = Printed(e.ne.y)
<1> DEFINE a == Printed(e.sw.x)
           b == Printed(e.sw.y)
           c == Printed(e.ne.x)
           d == Printed(e.ne.y)
<1>1. Reread(e) = Corners(At(a, b), At(c, d))
  BY BoxFlags DEF Reread, XMin, YMin, XMax, YMax
<1>2. a \in Int /\ b \in Int /\ c \in Int /\ d \in Int /\ a <= c /\ b <= d
  BY BoxNumbers DEF PrintsInOrder
<1> HIDE DEF a, b, c, d
<1>3. /\ At(a, b) \in ValidPoints /\ At(a, b).x = a /\ At(a, b).y = b
      /\ At(c, d) \in ValidPoints /\ At(c, d).x = c /\ At(c, d).y = d
  BY <1>2, PointIs
<1>4. /\ Corners(At(a, b), At(c, d)) \in Boxes
      /\ Corners(At(a, b), At(c, d)).sw = At(a, b) /\ Corners(At(a, b), At(c, d)).ne = At(c, d)
  BY <1>2, <1>3, CornersAreBox
<1> QED  BY <1>1, <1>3, <1>4 DEF a, b, c, d

\* An entry covers as much after it was printed.
LEMMA RereadCovers ==
  ASSUME PrintsInOrder, NEW e \in Boxes, NEW f \in Boxes, Covers(e, f)
  PROVE  Covers(Reread(e), Reread(f))
<1>1. e.sw.x <= f.sw.x /\ e.sw.y <= f.sw.y /\ f.ne.x <= e.ne.x /\ f.ne.y <= e.ne.y
  BY DEF Covers
<1>2. /\ Printed(e.sw.x) <= Printed(f.sw.x) /\ Printed(e.sw.y) <= Printed(f.sw.y)
      /\ Printed(f.ne.x) <= Printed(e.ne.x) /\ Printed(f.ne.y) <= Printed(e.ne.y)
  BY <1>1, BoxNumbers DEF PrintsInOrder
<1> QED  BY <1>2, RereadBox DEF Covers

\* What is read back of what was saved.
ReadEntry(e) == Entry(Reread(e.extent), e.ref)
ReadEntries(s) == [i \in DOMAIN s |-> Entry(Reread(s[i].extent), s[i].ref)]
ReadNode(v) == [v EXCEPT !.entries = ReadEntries(@)]

\* An entry as it is read back.
LEMMA ReadEntryIs ==
  ASSUME PrintsInOrder, NEW e \in EntryRecords
  PROVE  ReadEntry(e) \in EntryRecords /\ ReadEntry(e).ref = e.ref /\ ReadEntry(e).extent = Reread(e.extent)
BY EntryParts, RereadBox, EntryIs DEF ReadEntry

\* The entries of a node as they are read back.
LEMMA ReadEntriesAre ==
  ASSUME PrintsInOrder, NEW s \in Seq(EntryRecords)
  PROVE  /\ ReadEntries(s) \in Seq(EntryRecords) /\ Len(ReadEntries(s)) = Len(s)
         /\ \A i \in 1..Len(s) : ReadEntries(s)[i] = ReadEntry(s[i])
         /\ \A e : e \in Range(ReadEntries(s)) <=> \E f \in Range(s) : e = ReadEntry(f)
<1> DEFINE r == ReadEntries(s)
<1>1. DOMAIN s = 1..Len(s) /\ Len(s) \in Nat /\ \A i \in 1..Len(s) : s[i] \in EntryRecords
  OBVIOUS
<1>2. \A i \in 1..Len(s) : r[i] = ReadEntry(s[i])
  BY <1>1 DEF ReadEntries, ReadEntry
<1>3. r \in [1..Len(s) -> EntryRecords]
  <2>1. r = [i \in 1..Len(s) |-> ReadEntry(s[i])]
    BY <1>1 DEF ReadEntries, ReadEntry
  <2>2. \A i \in 1..Len(s) : ReadEntry(s[i]) \in EntryRecords
    BY <1>1, ReadEntryIs
  <2> QED  BY <2>1, <2>2
<1> HIDE DEF r
<1>4. r \in Seq(EntryRecords) /\ Len(r) = Len(s) /\ DOMAIN r = 1..Len(s)
  BY <1>1, <1>3, FunctionIsSeq
<1>5. ASSUME NEW e PROVE e \in Range(r) <=> \E f \in Range(s) : e = ReadEntry(f)
  <2>1. e \in Range(r) <=> \E i \in 1..Len(s) : e = ReadEntry(s[i])
    BY <1>2, <1>4 DEF Range
  <2>2. \A f : f \in Range(s) <=> \E i \in 1..Len(s) : f = s[i]
    BY <1>1 DEF Range
  <2> QED  BY <2>1, <2>2
<1> QED  BY <1>2, <1>4, <1>5 DEF r

\* A node as it is read back.
LEMMA ReadNodeIs ==
  ASSUME PrintsInOrder, NEW v \in NodeRecords
  PROVE  /\ ReadNode(v) \in NodeRecords /\ ReadNode(v).parent = v.parent /\ ReadNode(v).is_leaf = v.is_leaf
         /\ ReadNode(v).entries = ReadEntries(v.entries)
<1>1. v.entries \in Seq(EntryRecords)
  BY NodeParts
<1>2. ReadEntries(v.entries) \in Seq(EntryRecords)
  BY <1>1, ReadEntriesAre
<1>3. ReadNode(v) = [v EXCEPT !.entries = ReadEntries(v.entries)]
  BY DEF ReadNode
<1> QED  BY <1>2, <1>3, SetEntries

\* What is read of lines that are there.
LEMMA ReadLines ==
  ASSUME PrintsInOrder, NEW text, text.lines \in Seq(NodeRecords), text.lines # <<>>
  PROVE  LET t == ReadFrom(text) IN
         /\ t.nodes \in Seq(NodeRecords) /\ Len(t.nodes) = Len(text.lines)
         /\ \A m \in 1..Len(text.lines) : t.nodes[m] = ReadNode(text.lines[m])
         /\ t.root_id = text.root_id /\ t.node_id_gen = text.node_id_gen
         /\ t = [nodes |-> t.nodes, root_id |-> text.root_id, node_id_gen |-> text.node_id_gen]
<1> DEFINE s == text.lines
           r == [n \in DOMAIN s |-> ReadNode(s[n])]
<1>1. DOMAIN s = 1..Len(s) /\ Len(s) \in Nat /\ \A i \in 1..Len(s) : s[i] \in NodeRecords
  OBVIOUS
<1>2. ReadFrom(text) = [nodes |-> r, root_id |-> text.root_id, node_id_gen |-> text.node_id_gen]
  BY DEF ReadFrom, ReadNode, ReadEntries
<1>3. r \in [1..Len(s) -> NodeRecords] /\ \A i \in 1..Len(s) : r[i] = ReadNode(s[i])
  <2>1. \A i \in 1..Len(s) : ReadNode(s[i]) \in NodeRecords
    BY <1>1, ReadNodeIs
  <2> QED  BY <1>1, <2>1
<1> HIDE DEF r
<1>4. r \in Seq(NodeRecords) /\ Len(r) = Len(s)
  BY <1>1, <1>3, FunctionIsSeq
<1> QED  BY <1>2, <1>3, <1>4

-------------------------------------------------------------------------------
(* writeTo() and readFrom(): the tree.                                      *)

\* What is read back of a tree that was saved whole.
LEMMA ReadParts ==
  ASSUME PrintsInOrder, NEW t, IsTree(t), t.node_id_gen # 0, NEW x
  PROVE  LET u == ReadFrom(WriteTo(t, x)) IN
         /\ IsTree(u) /\ u.root_id = t.root_id /\ u.node_id_gen = t.node_id_gen /\ Numbers(u) = Numbers(t)
         /\ \A m \in Numbers(t) :
              /\ u.nodes[m].parent = t.nodes[m].parent /\ u.nodes[m].is_leaf = t.nodes[m].is_leaf
              /\ u.nodes[m].entries = ReadEntries(t.nodes[m].entries)
              /\ \A e : e \in Kids(u, m) <=> \E f \in Kids(t, m) : e = ReadEntry(f)
<1> DEFINE text == WriteTo(t, x)
           u == ReadFrom(text)
<1>1. /\ t.nodes \in Seq(NodeRecords) /\ t.root_id \in Nat /\ t.node_id_gen \in Nat
      /\ Len(t.nodes) = t.node_id_gen /\ Numbers(t) = 1..Len(t.nodes)
  BY TreeIs DEF Numbers
<1>2. text.lines = t.nodes /\ text.root_id = t.root_id /\ text.node_id_gen = t.node_id_gen
  BY DEF WriteTo
<1>3. t.nodes # <<>>
  BY <1>1
<1> HIDE DEF text
<1>4. /\ u.nodes \in Seq(NodeRecords) /\ Len(u.nodes) = Len(t.nodes)
      /\ \A m \in 1..Len(t.nodes) : u.nodes[m] = ReadNode(t.nodes[m])
      /\ u.root_id = t.root_id /\ u.node_id_gen = t.node_id_gen
      /\ u = [nodes |-> u.nodes, root_id |-> t.root_id, node_id_gen |-> t.node_id_gen]
  <2>1. text.lines \in Seq(NodeRecords) /\ text.lines # <<>>
    BY <1>1, <1>2, <1>3
  <2>2. /\ u.nodes \in Seq(NodeRecords) /\ Len(u.nodes) = Len(text.lines)
        /\ \A m \in 1..Len(text.lines) : u.nodes[m] = ReadNode(text.lines[m])
        /\ u.root_id = text.root_id /\ u.node_id_gen = text.node_id_gen
        /\ u = [nodes |-> u.nodes, root_id |-> text.root_id, node_id_gen |-> text.node_id_gen]
    BY <2>1, ReadLines
  <2> HIDE DEF u
  <2> QED  BY <1>2, <2>2
<1> HIDE DEF u
<1>5. IsTree(u)
  <2>1. u \in TreeRecords
    BY <1>1, <1>4 DEF TreeRecords
  <2> QED  BY <1>1, <1>4, <2>1 DEF IsTree
<1>6. Numbers(u) = Numbers(t)
  BY <1>4 DEF Numbers
<1>7. ASSUME NEW m \in Numbers(t)
      PROVE  /\ u.nodes[m].parent = t.nodes[m].parent /\ u.nodes[m].is_leaf = t.nodes[m].is_leaf
             /\ u.nodes[m].entries = ReadEntries(t.nodes[m].entries)
             /\ \A e : e \in Kids(u, m) <=> \E f \in Kids(t, m) : e = ReadEntry(f)
  <2>1. t.nodes[m] \in NodeRecords /\ u.nodes[m] = ReadNode(t.nodes[m]) /\ t.nodes[m].entries \in Seq(EntryRecords)
    BY <1>1, <1>4, NodeIs
  <2>2. /\ u.nodes[m].parent = t.nodes[m].parent /\ u.nodes[m].is_leaf = t.nodes[m].is_leaf
        /\ u.nodes[m].entries = ReadEntries(t.nodes[m].entries)
    BY <2>1, ReadNodeIs
  <2>3. \A e : e \in Range(ReadEntries(t.nodes[m].entries)) <=> \E f \in Range(t.nodes[m].entries) : e = ReadEntry(f)
    BY <2>1, ReadEntriesAre
  <2> QED  BY <2>2, <2>3 DEF Kids
<1> QED  BY <1>4, <1>5, <1>6, <1>7 DEF u, text

\* RTree::writeTo(), readFrom(): a tree is as sound after it was saved and read
\* back, with the same features, whose extents are as they were printed.
THEOREM ReadIsSound ==
  ASSUME PrintsInOrder, NEW t, NEW h, Sound(t, h), NEW x
  PROVE  /\ Sound(ReadFrom(WriteTo(t, x)), h)
         /\ \A e : e \in LeafEntries(ReadFrom(WriteTo(t, x))) <=> \E f \in LeafEntries(t) : e = ReadEntry(f)
<1> DEFINE u == ReadFrom(WriteTo(t, x))
           N == Numbers(t)
           r == t.root_id
           E(m) == Kids(t, m)
           F(m) == Kids(u, m)
<1>1. /\ IsTree(t) /\ Ranked(t, h) /\ Linked(t, h) /\ Hung(t, h, 0) /\ Held(t, h, r)
      /\ Distinct(t) /\ OneLeaf(t, h) /\ Filled(t, h)
  BY DEF Sound, Pending
<1>2. r \in N /\ t.node_id_gen \in Nat /\ t.node_id_gen # 0
  BY <1>1, TreeIs DEF Hung, Numbers
<1>3. /\ IsTree(u) /\ u.root_id = r /\ u.node_id_gen = t.node_id_gen /\ Numbers(u) = N
      /\ \A m \in N :
           /\ u.nodes[m].parent = t.nodes[m].parent /\ u.nodes[m].is_leaf = t.nodes[m].is_leaf
           /\ u.nodes[m].entries = ReadEntries(t.nodes[m].entries)
           /\ \A e : e \in F(m) <=> \E f \in E(m) : e = ReadEntry(f)
  BY <1>1, <1>2, ReadParts
<1> HIDE DEF u
<1>4. \A m \in N : \A f \in E(m) :
         f \in EntryRecords /\ f.extent \in Boxes /\ ReadEntry(f).ref = f.ref /\ ReadEntry(f).extent = Reread(f.extent)
  BY <1>1, KidsAre, ReadEntryIs
<1> HIDE DEF N, r, E, F
<1>5. Ranked(u, h)
  BY <1>1, <1>3 DEF Ranked, N, r
<1>6. Linked(u, h)
  <2>1. \A m \in N : h[m] # 0 => \A e \in E(m) : e.ref \in N /\ t.nodes[e.ref].parent = m /\ h[m] = h[e.ref] + 1
    BY <1>1 DEF Linked, N, E
  <2>2. ASSUME NEW m \in N, h[m] # 0, NEW e \in F(m)
        PROVE  e.ref \in N /\ u.nodes[e.ref].parent = m /\ h[m] = h[e.ref] + 1
    <3>1. PICK f \in E(m) : e = ReadEntry(f)
      BY <1>3
    <3> QED  BY <1>3, <1>4, <2>1, <2>2, <3>1
  <2> QED  BY <1>3, <2>2 DEF Linked, F
<1>7. Hung(u, h, 0)
  <2>1. r \in N /\ t.nodes[r].parent = 0
    BY <1>1 DEF Hung, N, r
  <2>2. \A m \in N \ {r, 0} : LET p == t.nodes[m].parent IN p \in N /\ h[p] # 0 /\ \E e \in E(p) : e.ref = m
    BY <1>1 DEF Hung, N, r, E
  <2>3. ASSUME NEW m \in N \ {r, 0}
        PROVE  LET p == u.nodes[m].parent IN p \in N /\ h[p] # 0 /\ \E e \in F(p) : e.ref = m
    <3> DEFINE p == t.nodes[m].parent
    <3>1. u.nodes[m].parent = p /\ p \in N /\ h[p] # 0
      BY <1>3, <2>2
    <3>2. PICK f \in E(p) : f.ref = m
      BY <2>2
    <3> HIDE DEF p
    <3>3. ReadEntry(f) \in F(p) /\ ReadEntry(f).ref = m
      BY <1>3, <1>4, <3>1, <3>2
    <3> QED  BY <3>1, <3>3
  <2> QED  BY <1>3, <2>1, <2>3 DEF Hung, F
<1>8. Held(u, h, r)
  <2>1. \A m \in N : h[m] # 0 => \A e \in E(m) : e.ref # r => \A f \in E(e.ref) : Covers(e.extent, f.extent)
    BY <1>1 DEF Held, E, N
  <2>2. \A m \in N : h[m] # 0 => \A e \in E(m) : e.ref \in N
    BY <1>1 DEF Linked, N, E
  <2>3. ASSUME NEW m \in N, h[m] # 0, NEW e \in F(m), e.ref # r, NEW f \in F(e.ref)
        PROVE  Covers(e.extent, f.extent)
    <3>1. PICK a \in E(m) : e = ReadEntry(a)
      BY <1>3, <2>3
    <3>2. e.ref = a.ref /\ e.extent = Reread(a.extent) /\ a.ref \in N /\ a.extent \in Boxes
      BY <1>4, <2>2, <2>3, <3>1
    <3>3. PICK b \in E(a.ref) : f = ReadEntry(b)
      BY <1>3, <2>3, <3>2
    <3>4. f.extent = Reread(b.extent) /\ b.extent \in Boxes
      BY <1>4, <3>2, <3>3
    <3>5. Covers(a.extent, b.extent)
      BY <2>1, <2>3, <3>2
    <3>6. Covers(Reread(a.extent), Reread(b.extent))
      BY <3>2, <3>4, <3>5, RereadCovers
    <3> QED  BY <3>2, <3>4, <3>6
  <2> QED  BY <1>3, <2>3 DEF Held, F
<1>9. Distinct(u)
  <2>1. \A m \in N : IsInjective(t.nodes[m].entries) /\ \A e, f \in E(m) : e.ref = f.ref => e = f
    BY <1>1 DEF Distinct, E, N
  <2>2. ASSUME NEW m \in N, NEW e \in F(m), NEW f \in F(m), e.ref = f.ref PROVE e = f
    <3>1. PICK a \in E(m) : e = ReadEntry(a)
      BY <1>3
    <3>2. PICK b \in E(m) : f = ReadEntry(b)
      BY <1>3
    <3>3. a.ref = b.ref
      BY <1>4, <2>2, <3>1, <3>2
    <3>4. a = b
      BY <2>1, <3>3
    <3> QED  BY <3>1, <3>2, <3>4
  <2>3. ASSUME NEW m \in N PROVE IsInjective(u.nodes[m].entries)
    <3> DEFINE s == t.nodes[m].entries
               z == u.nodes[m].entries
    <3>1. s \in Seq(EntryRecords)
      BY <1>1, NodeIs DEF N
    <3>2. z = ReadEntries(s)
      BY <1>3
    <3>3. z \in Seq(EntryRecords) /\ Len(z) = Len(s) /\ \A i \in 1..Len(s) : z[i] = ReadEntry(s[i])
      BY <3>1, <3>2, ReadEntriesAre
    <3>4. \A i, j \in 1..Len(s) : s[i] = s[j] => i = j
      BY <2>1, <3>1 DEF IsInjective
    <3>5. \A i \in 1..Len(s) : s[i] \in E(m)
      BY <3>1 DEF E, Kids, Range
    <3> HIDE DEF s, z
    <3>6. ASSUME NEW i \in 1..Len(s), NEW j \in 1..Len(s), z[i] = z[j] PROVE i = j
      <4>1. ReadEntry(s[i]).ref = ReadEntry(s[j]).ref
        BY <3>3, <3>6
      <4>2. s[i].ref = s[j].ref
        BY <1>4, <3>5, <4>1
      <4>3. s[i] = s[j]
        BY <2>1, <3>5, <4>2
      <4> QED  BY <3>4, <4>3
    <3>7. DOMAIN z = 1..Len(s)
      BY <3>3
    <3>8. IsInjective(z)
      BY <3>6, <3>7 DEF IsInjective
    <3> QED  BY <3>8 DEF z
  <2> QED  BY <1>3, <2>2, <2>3 DEF Distinct, F
<1>10. OneLeaf(u, h)
  <2>0. \A l, m \in N : h[l] = 0 /\ h[m] = 0 => \A e \in E(l), f \in E(m) : e.ref = f.ref => l = m
    BY <1>1 DEF OneLeaf, E, N
  <2>1. ASSUME NEW l \in N, NEW m \in N, h[l] = 0, h[m] = 0, NEW e \in F(l), NEW f \in F(m), e.ref = f.ref
        PROVE  l = m
    <3>1. PICK a \in E(l) : e = ReadEntry(a)
      BY <1>3
    <3>2. PICK b \in E(m) : f = ReadEntry(b)
      BY <1>3
    <3>3. a.ref = b.ref
      BY <1>4, <2>1, <3>1, <3>2
    <3> QED  BY <2>0, <2>1, <3>3
  <2> QED  BY <1>3, <2>1 DEF OneLeaf, F
<1>11. Filled(u, h)
  <2>1. \A m \in N : t.nodes[m].entries = <<>> => m = r /\ h[m] = 0
    BY <1>1 DEF Filled, N, r
  <2>2. ASSUME NEW m \in N, u.nodes[m].entries = <<>> PROVE m = r /\ h[m] = 0
    <3>1. t.nodes[m].entries \in Seq(EntryRecords)
      BY <1>1, NodeIs DEF N
    <3>2. Len(ReadEntries(t.nodes[m].entries)) = Len(t.nodes[m].entries)
      BY <3>1, ReadEntriesAre
    <3>3. Len(t.nodes[m].entries) = 0
      BY <1>3, <2>2, <3>2
    <3> QED  BY <2>1, <3>1, <3>3
  <2> QED  BY <1>3, <2>2 DEF Filled
<1>12. Beside(u, h, r, 0)
  BY <1>2, <1>3 DEF Beside
<1>13. Sound(u, h)
  BY <1>3, <1>5, <1>6, <1>7, <1>8, <1>9, <1>10, <1>11, <1>12 DEF Sound, Pending
<1>14. ASSUME NEW e PROVE e \in LeafEntries(u) <=> \E f \in LeafEntries(t) : e = ReadEntry(f)
  <2>1. e \in LeafEntries(u) <=> \E m \in N : u.nodes[m].is_leaf /\ e \in F(m)
    BY <1>3 DEF LeafEntries, F
  <2>2. \A f : f \in LeafEntries(t) <=> \E m \in N : t.nodes[m].is_leaf /\ f \in E(m)
    BY DEF LeafEntries, N, E
  <2> QED  BY <1>3, <2>1, <2>2
<1> QED  BY <1>13, <1>14 DEF u

\* A saved tree of which only the first lines are there, is walked to an end if no
\* node that it needs is missing: find() does not go in circles.
THEOREM TornWalks ==
  ASSUME PrintsInOrder, NEW t, NEW h, Sound(t, h), NEW text, NEW k \in Nat, k <= Len(t.nodes),
         text.lines = SubSeq(t.nodes, 1, k), IsWhole(ReadFrom(text))
  PROVE  \E g : Walkable(ReadFrom(text), g, t.node_id_gen)
<1> DEFINE u == ReadFrom(text)
           B == t.node_id_gen
<1>1. IsTree(t) /\ Ranked(t, h) /\ Linked(t, h)
  BY DEF Sound, Pending
<1>2. t.nodes \in Seq(NodeRecords) /\ DOMAIN t.nodes = Numbers(t) /\ B \in Nat /\ Len(t.nodes) = B /\ Numbers(t) = 1..B
  BY <1>1, TreeIs DEF Numbers
<1>3. h \in [Numbers(t) -> 0..B] /\ \A m \in Numbers(t) : ~t.nodes[m].is_leaf => h[m] # 0
  BY <1>1, SoundWalks DEF Walkable, Ranked
<1>4. /\ u.root_id \in DOMAIN u.nodes
      /\ \A n \in DOMAIN u.nodes : ~u.nodes[n].is_leaf => \A e \in Kids(u, n) : e.ref \in DOMAIN u.nodes
  <2>1. \A n : ToSet(u.nodes[n].entries) = Kids(u, n)
    BY SetOfSeq DEF Kids
  <2> HIDE DEF u
  <2> QED  BY <2>1 DEF IsWhole, u
<1>5. CASE k = 0
  <2> DEFINE v == [parent |-> 0, is_leaf |-> TRUE, entries |-> <<>>]
  <2>1. text.lines = <<>>
    BY <1>5
  <2>2. u.nodes = <<v>>
    BY <2>1 DEF ReadFrom, EmptyTree
  <2>3. v \in NodeRecords /\ v.is_leaf
    <3>1. <<>> \in Seq(EntryRecords)
      OBVIOUS
    <3> QED  BY <3>1 DEF NodeRecords
  <2> HIDE DEF v, u
  <2>4. u.nodes \in Seq(NodeRecords) /\ DOMAIN u.nodes = {1} /\ u.nodes[1] = v
    BY <2>2, <2>3
  <2>5. [m \in {1} |-> 0] \in [DOMAIN u.nodes -> 0..B]
    BY <1>2, <2>4
  <2>6. Walkable(u, [m \in {1} |-> 0], B)
    BY <1>4, <2>3, <2>4, <2>5 DEF Walkable
  <2> QED  BY <2>6 DEF u
<1>6. CASE k # 0
  <2> DEFINE s == SubSeq(t.nodes, 1, k)
             g == [m \in 1..k |-> h[m]]
  <2>1. s \in Seq(NodeRecords) /\ Len(s) = k /\ \A m \in 1..k : s[m] = t.nodes[m] /\ m \in Numbers(t)
    BY <1>2
  <2> HIDE DEF s
  <2>2. text.lines \in Seq(NodeRecords) /\ text.lines # <<>> /\ text.lines = s
    BY <1>6, <2>1 DEF s
  <2>3. /\ u.nodes \in Seq(NodeRecords) /\ Len(u.nodes) = Len(text.lines)
        /\ \A m \in 1..Len(text.lines) : u.nodes[m] = ReadNode(text.lines[m])
    BY <2>2, ReadLines
  <2> HIDE DEF u
  <2>4. DOMAIN u.nodes = 1..k /\ \A m \in 1..k : u.nodes[m] = ReadNode(t.nodes[m])
    BY <2>1, <2>2, <2>3
  <2>5. g \in [1..k -> 0..B] /\ \A m \in 1..k : g[m] = h[m]
    BY <1>3, <2>1
  <2> HIDE DEF g
  <2>6. ASSUME NEW m \in 1..k, ~u.nodes[m].is_leaf, NEW e \in Kids(u, m)
        PROVE  e.ref \in 1..k /\ g[e.ref] < g[m]
    <3>1. t.nodes[m] \in NodeRecords /\ t.nodes[m].entries \in Seq(EntryRecords)
      BY <1>1, <2>1, NodeIs
    <3>2. u.nodes[m].is_leaf = t.nodes[m].is_leaf /\ u.nodes[m].entries = ReadEntries(t.nodes[m].entries)
      BY <2>4, <3>1, ReadNodeIs
    <3>3. PICK f \in Kids(t, m) : e = ReadEntry(f)
      BY <3>1, <3>2, ReadEntriesAre DEF Kids
    <3>4. e.ref = f.ref
      BY <1>1, <2>1, <3>3, KidsAre, ReadEntryIs
    <3>5. h[m] # 0 /\ h[m] = h[f.ref] + 1 /\ f.ref \in Numbers(t)
      <4>1. h[m] # 0
        BY <1>3, <2>1, <2>6, <3>2
      <4> QED  BY <1>1, <2>1, <4>1 DEF Linked
    <3>6. e.ref \in 1..k
      BY <1>4, <2>4, <2>6
    <3>7. h[f.ref] \in Nat
      BY <1>3, <3>5
    <3> QED  BY <2>5, <3>4, <3>5, <3>6, <3>7
  <2>7. Walkable(u, g, B)
    BY <1>4, <2>3, <2>4, <2>5, <2>6 DEF Walkable
  <2> QED  BY <2>7 DEF u
<1> QED  BY <1>5, <1>6

-------------------------------------------------------------------------------
(* The extents of features.                                                 *)

\* The extents that features have.
MaybeBoxes == Boxes \cup {Invalid}

\* The extent of a feature without points is not valid.
LEMMA InvalidIs == /\ Invalid \in GeoExtents /\ ~Invalid.is_valid /\ ~Invalid.is_infinite /\ IsEmpty(Invalid)
                   /\ Invalid \notin Boxes
<1>1. Invalid \in GeoExtents /\ ~Invalid.is_valid /\ ~Invalid.is_infinite
  BY DEF Invalid, NoPoint, GeoExtents, GeoPoints
<1> QED  BY <1>1, BoxFlags DEF IsEmpty

\* The extent of a feature has its parts.
LEMMA MaybeBoxIs ==
  ASSUME NEW e \in MaybeBoxes
  PROVE  /\ e \in GeoExtents /\ ~e.is_infinite /\ e.is_valid \in BOOLEAN
         /\ e.is_valid <=> e \in Boxes
         /\ ~e.is_valid => IsEmpty(e)
<1>1. CASE e \in Boxes
  <2>1. e \in GeoExtents /\ e.is_valid /\ ~e.is_infinite
    BY <1>1, BoxIs, BoxFlags
  <2> QED  BY <1>1, <2>1, ExtentParts
<1>2. CASE e = Invalid
  <2>1. e \in GeoExtents /\ e \notin Boxes /\ IsEmpty(e) /\ ~e.is_infinite /\ ~e.is_valid
    BY <1>2, InvalidIs
  <2>2. e.is_valid \in BOOLEAN
    BY <2>1, ExtentParts
  <2>3. e.is_valid <=> e \in Boxes
    BY <2>1, <2>2
  <2> QED  BY <2>1, <2>2, <2>3
<1> QED  BY <1>1, <1>2 DEF MaybeBoxes

\* Two such extents together are one.
LEMMA MaybeBoxesJoin ==
  ASSUME NEW e \in MaybeBoxes, NEW f \in MaybeBoxes
  PROVE  ExpandToInclude(e, f) \in MaybeBoxes
<1>1. CASE e \in Boxes /\ f \in Boxes
  BY <1>1, BoxesJoin DEF MaybeBoxes
<1>2. CASE f \notin Boxes
  <2>1. IsEmpty(f)
    BY <1>2, MaybeBoxIs
  <2> QED  BY <2>1 DEF ExpandToInclude
<1>3. CASE e \notin Boxes /\ f \in Boxes
  <2>1. ~e.is_valid /\ ~e.is_infinite /\ ~f.is_infinite
    BY <1>3, MaybeBoxIs
  <2>2. \A p : ExpandToPoint(e, p) = e
    BY <2>1 DEF ExpandToPoint
  <2> QED  BY <2>1, <2>2 DEF ExpandToInclude
<1> QED  BY <1>1, <1>2, <1>3

-------------------------------------------------------------------------------
(* The extent of a shape, point by point, and of shapes, shape by shape.     *)

\* The extent of points, point by point.
Reaching(s, f) ==
  f = [T \in SUBSET (DOMAIN s) |-> IF T = {} THEN Empty ELSE ExpandToPoint(f[T \ {Max(T)}], s[Max(T)])]
Reached(s) == (CHOOSE f : Reaching(s, f))[DOMAIN s]

\* The extent of points, as the function that is chosen.
LEMMA ReachedChosen ==
  ASSUME NEW s
  PROVE  FoldLeft(ExpandToPoint, Empty, s) = Reached(s)
BY DEF FoldLeft, MapThenFoldSet, Reaching, Reached

\* The extent of some points is a box.
LEMMA ReachedIsBox ==
  ASSUME NEW s \in Seq(ValidPoints), s # <<>>
  PROVE  Reached(s) \in Boxes
<1> DEFINE N == Len(s)
           V == Boxes \cup {Empty}
           H == [p \in (1..N) \X V |-> ExpandToPoint(p[2], s[p[1]])]
<1>1. N \in Nat /\ DOMAIN s = 1..N /\ N # 0
  OBVIOUS
<1>2. ASSUME NEW k \in 1..N, NEW v \in V PROVE ExpandToPoint(v, s[k]) \in Boxes
  BY BoxAndPoint, EmptyAndPoint
<1>3. H \in [(1..N) \X V -> V]
  <2> HIDE DEF N
  <2>1. \A k \in 1..N, v \in V : ExpandToPoint(v, s[k]) \in V
    BY <1>2
  <2> HIDE DEF V
  <2> QED  BY <2>1
<1>4. \A k \in 1..N, v \in V : H[<<k, v>>] = ExpandToPoint(v, s[k])
  OBVIOUS
<1>5. Empty \in V
  OBVIOUS
<1> HIDE DEF H, V, N
<1>6. PICK f : Folds(N, V, Empty, H, f)
  BY <1>1, <1>3, <1>5, FoldExists
<1>7. f \in [SUBSET (1..N) -> V] /\ \A T \in SUBSET (1..N) : f[T] = Folded(T, Empty, H, f)
  BY <1>6 DEF Folds
<1>8. ASSUME NEW T \in SUBSET (1..N)
      PROVE  f[T] = IF T = {} THEN Empty ELSE ExpandToPoint(f[T \ {Max(T)}], s[Max(T)])
  <2>1. CASE T = {}
    BY <1>7, <2>1 DEF Folded
  <2>2. CASE T # {}
    <3>1. Max(T) \in T
      BY <1>1, <2>2, GreatestElement
    <3>2. Max(T) \in 1..N /\ f[T \ {Max(T)}] \in V
      BY <3>1, <1>7
    <3> QED  BY <1>7, <1>4, <2>2, <3>2 DEF Folded
  <2> QED  BY <2>1, <2>2
<1>9. Reaching(s, f)
  BY <1>1, <1>7, <1>8 DEF Reaching
<1> DEFINE c == CHOOSE h : Reaching(s, h)
<1>10. Reaching(s, c)
  BY <1>9
<1>11. Reached(s) = c[1..N]
  BY <1>1 DEF Reached
<1>12. \A T \in SUBSET (1..N) :
          c[T] = IF T = {} THEN Empty ELSE ExpandToPoint(c[T \ {Max(T)}], s[Max(T)])
  <2> HIDE DEF c
  <2> QED  BY <1>1, <1>10 DEF Reaching
<1> HIDE DEF c
<1> DEFINE P == {k \in 0..N : c[1..k] \in V /\ (k # 0 => c[1..k] \in Boxes)}
<1>13. 0 \in P
  <2>1. 1..0 \in SUBSET (1..N) /\ 1..0 = {} /\ 0 \in 0..N
    BY <1>1, FoldStages
  <2>2. c[1..0] = Empty
    BY <1>12, <2>1
  <2> QED  BY <1>5, <2>1, <2>2
<1>14. ASSUME NEW k \in 1..N, k - 1 \in P PROVE k \in P
  <2>1. 1..k \in SUBSET (1..N) /\ 1..k # {} /\ Max(1..k) = k /\ (1..k) \ {k} = 1..(k - 1)
    BY <1>1, FoldStages
  <2>2. c[1..k] = ExpandToPoint(c[1..(k - 1)], s[k])
    BY <1>12, <2>1
  <2>3. c[1..(k - 1)] \in V
    BY <1>14
  <2>4. c[1..k] \in Boxes
    BY <1>2, <2>2, <2>3
  <2> QED  BY <1>1, <2>4 DEF V
<1>15. 0..N \subseteq P
  <2> HIDE DEF P
  <2> QED  BY <1>1, <1>13, <1>14, CountUp
<1> QED  BY <1>1, <1>11, <1>15

\* The extent of a shape is a box if it has points.
LEMMA ShapeExtentIs ==
  ASSUME NEW shape \in Seq(Seq(ValidPoints))
  PROVE  ShapeExtent(shape) \in MaybeBoxes
<1> DEFINE points == FlattenSeq(shape)
<1>1. points \in Seq(ValidPoints)
  BY FlattenIsSeq
<1>2. ShapeExtent(shape) = IF \E p \in ToSet(points) : p.ok THEN Reached(points) ELSE Invalid
  BY ReachedChosen DEF ShapeExtent
<1> HIDE DEF points
<1>3. CASE points = <<>>
  <2>1. ToSet(points) = {}
    BY <1>3, EmptyQueue, SetOfSeq
  <2> QED  BY <1>2, <2>1 DEF MaybeBoxes
<1>4. CASE points # <<>>
  BY <1>1, <1>2, <1>4, ReachedIsBox DEF MaybeBoxes
<1> QED  BY <1>3, <1>4

\* The extent of shapes, shape by shape.
Including(base, s, f) ==
  f = [T \in SUBSET (DOMAIN s) |->
         IF T = {} THEN base ELSE ExpandToInclude(f[T \ {Max(T)}], ShapeExtent(s[Max(T)]))]
Included(base, s) == (CHOOSE f : Including(base, s, f))[DOMAIN s]

\* The extent of shapes, as the function that is chosen.
LEMMA IncludedChosen ==
  ASSUME NEW s, NEW base
  PROVE  FoldLeft(LAMBDA e, shape : ExpandToInclude(e, ShapeExtent(shape)), base, s) = Included(base, s)
BY DEF FoldLeft, MapThenFoldSet, Including, Included

\* Which is a box, if one of them has points.
LEMMA IncludedIsBox ==
  ASSUME NEW s \in Seq(Seq(Seq(ValidPoints))), NEW base \in MaybeBoxes
  PROVE  Included(base, s) \in MaybeBoxes
<1> DEFINE N == Len(s)
           V == MaybeBoxes
           H == [p \in (1..N) \X V |-> ExpandToInclude(p[2], ShapeExtent(s[p[1]]))]
<1>1. N \in Nat /\ DOMAIN s = 1..N
  OBVIOUS
<1>2. ASSUME NEW k \in 1..N, NEW v \in V PROVE ExpandToInclude(v, ShapeExtent(s[k])) \in V
  <2>1. s[k] \in Seq(Seq(ValidPoints))
    OBVIOUS
  <2> QED  BY <2>1, ShapeExtentIs, MaybeBoxesJoin
<1>3. H \in [(1..N) \X V -> V]
  <2> HIDE DEF N, V
  <2> QED  BY <1>2
<1>4. \A k \in 1..N, v \in V : H[<<k, v>>] = ExpandToInclude(v, ShapeExtent(s[k]))
  OBVIOUS
<1>5. base \in V
  OBVIOUS
<1> HIDE DEF H, V, N
<1>6. PICK f : Folds(N, V, base, H, f)
  BY <1>1, <1>3, <1>5, FoldExists
<1>7. f \in [SUBSET (1..N) -> V] /\ \A T \in SUBSET (1..N) : f[T] = Folded(T, base, H, f)
  BY <1>6 DEF Folds
<1>8. ASSUME NEW T \in SUBSET (1..N)
      PROVE  f[T] = IF T = {} THEN base ELSE ExpandToInclude(f[T \ {Max(T)}], ShapeExtent(s[Max(T)]))
  <2>1. CASE T = {}
    BY <1>7, <2>1 DEF Folded
  <2>2. CASE T # {}
    <3>1. Max(T) \in T
      BY <1>1, <2>2, GreatestElement
    <3>2. Max(T) \in 1..N /\ f[T \ {Max(T)}] \in V
      BY <3>1, <1>7
    <3> QED  BY <1>7, <1>4, <2>2, <3>2 DEF Folded
  <2> QED  BY <2>1, <2>2
<1>9. Including(base, s, f)
  BY <1>1, <1>7, <1>8 DEF Including
<1> DEFINE c == CHOOSE h : Including(base, s, h)
<1>10. Including(base, s, c)
  BY <1>9
<1>11. Included(base, s) = c[1..N]
  BY <1>1 DEF Included
<1>12. \A T \in SUBSET (1..N) :
          c[T] = IF T = {} THEN base ELSE ExpandToInclude(c[T \ {Max(T)}], ShapeExtent(s[Max(T)]))
  <2> HIDE DEF c
  <2> QED  BY <1>1, <1>10 DEF Including
<1> HIDE DEF c
<1> DEFINE P == {k \in 0..N : c[1..k] \in V}
<1>13. 0 \in P
  <2>1. 1..0 \in SUBSET (1..N) /\ 1..0 = {} /\ 0 \in 0..N
    BY <1>1, FoldStages
  <2>2. c[1..0] = base
    BY <1>12, <2>1
  <2> QED  BY <1>5, <2>1, <2>2
<1>14. ASSUME NEW k \in 1..N, k - 1 \in P PROVE k \in P
  <2>1. 1..k \in SUBSET (1..N) /\ 1..k # {} /\ Max(1..k) = k /\ (1..k) \ {k} = 1..(k - 1)
    BY <1>1, FoldStages
  <2>2. c[1..k] = ExpandToInclude(c[1..(k - 1)], ShapeExtent(s[k]))
    BY <1>12, <2>1
  <2>3. c[1..(k - 1)] \in V
    BY <1>14
  <2>4. c[1..k] \in V
    BY <1>2, <2>2, <2>3
  <2> QED  BY <1>1, <2>4
<1>15. 0..N \subseteq P
  <2> HIDE DEF P
  <2> QED  BY <1>1, <1>13, <1>14, CountUp
<1> QED  BY <1>1, <1>11, <1>15 DEF V

\* The extent of a feature is a box or not valid.
LEMMA ShapesExtentIs ==
  ASSUME NEW shapes \in Seq(Seq(Seq(ValidPoints)))
  PROVE  ShapesExtent(shapes) \in MaybeBoxes
<1>1. CASE shapes = <<>>
  BY <1>1 DEF ShapesExtent, MaybeBoxes
<1>2. CASE shapes # <<>>
  <2>1. shapes[1] \in Seq(Seq(ValidPoints)) /\ Tail(shapes) \in Seq(Seq(Seq(ValidPoints)))
    BY <1>2
  <2>2. ShapesExtent(shapes) = Included(ShapeExtent(shapes[1]), Tail(shapes))
    BY <1>2, IncludedChosen DEF ShapesExtent
  <2> QED  BY <2>1, <2>2, ShapeExtentIs, IncludedIsBox
<1> QED  BY <1>1, <1>2

-------------------------------------------------------------------------------
(* The extents of what was written.                                         *)

\* What comes back of a row has an extent of its points.
Shapes == Seq(Seq(Seq(ValidPoints)))

\* Points in the reverse order are points.
LEMMA ReverseIsSeq ==
  ASSUME NEW A, NEW s \in Seq(A)
  PROVE  Reverse(s) \in Seq(A)
<1> DEFINE n == Len(s)
<1>1. n \in Nat /\ \A i \in 1..n : (n - i) + 1 \in 1..n
  OBVIOUS
<1>2. Reverse(s) \in [1..n -> A]
  BY <1>1 DEF Reverse
<1> HIDE DEF n
<1> QED  BY <1>1, <1>2, FunctionIsSeq

\* A shape that is encoded has valid points.
LEMMA EncodedIs ==
  ASSUME NEW layer, NEW shape \in Seq(Seq(ValidPoints))
  PROVE  EncodeShape(layer, shape) \in Seq(Seq(ValidPoints))
<1> DEFINE n == Len(shape)
           part(i) == IF ShapeType(layer.reported) # "point" THEN Reverse(shape[i])
                      ELSE IF shape[i] = <<>> THEN <<At(0, 0)>> ELSE <<shape[i][1]>>
<1>1. n \in Nat /\ DOMAIN shape = 1..n /\ \A i \in 1..n : shape[i] \in Seq(ValidPoints)
  OBVIOUS
<1>2. EncodeShape(layer, shape) = [i \in 1..n |-> part(i)]
  BY <1>1 DEF EncodeShape
<1>3. ASSUME NEW i \in 1..n PROVE part(i) \in Seq(ValidPoints)
  <2>1. Reverse(shape[i]) \in Seq(ValidPoints)
    BY <1>1, ReverseIsSeq
  <2>2. <<At(0, 0)>> \in Seq(ValidPoints)
    <3>1. At(0, 0) \in ValidPoints
      BY PointIs
    <3> QED  BY <3>1
  <2>3. ASSUME shape[i] # <<>> PROVE <<shape[i][1]>> \in Seq(ValidPoints)
    <3>0. shape[i] \in Seq(ValidPoints)
      BY <1>1
    <3>1. shape[i][1] \in ValidPoints
      BY <2>3, <3>0
    <3> QED  BY <3>1
  <2> QED  BY <2>1, <2>2, <2>3
<1> HIDE DEF part, n
<1>4. [i \in 1..n |-> part(i)] \in [1..n -> Seq(ValidPoints)]
  BY <1>3
<1> QED  BY <1>1, <1>2, <1>4, FunctionIsSeq

\* And so it has when it is decoded.
LEMMA DecodedIs ==
  ASSUME NEW shape \in Seq(Seq(ValidPoints))
  PROVE  DecodeShape(shape) \in Seq(Seq(ValidPoints))
<1> DEFINE n == Len(shape)
           d == [i \in 1..n |-> Reverse(shape[i])]
<1>1. n \in Nat /\ DOMAIN shape = 1..n /\ \A i \in 1..n : shape[i] \in Seq(ValidPoints)
  OBVIOUS
<1>2. DecodeShape(shape) = IF shape = <<>> THEN <<<<>>>> ELSE d
  BY <1>1 DEF DecodeShape
<1>3. <<<<>>>> \in Seq(Seq(ValidPoints))
  <2>1. <<>> \in Seq(ValidPoints)
    OBVIOUS
  <2> QED  BY <2>1
<1>4. d \in Seq(Seq(ValidPoints))
  <2>1. d \in [1..n -> Seq(ValidPoints)]
    BY <1>1, ReverseIsSeq
  <2> HIDE DEF d, n
  <2> QED  BY <1>1, <2>1, FunctionIsSeq
<1> HIDE DEF d
<1> QED  BY <1>2, <1>3, <1>4

\* What comes back of a feature that was written has shapes of valid points.
LEMMA LoadedShapes ==
  ASSUME NEW layer, NEW f, f.shapes \in Shapes
  PROVE  LoadFeature(layer, InsertFeature(layer, f)).shapes \in Shapes
<1> DEFINE s == f.shapes
           n == Len(s)
           g == InsertFeature(layer, f).geometry
<1>1. n \in Nat /\ DOMAIN s = 1..n /\ \A i \in 1..n : s[i] \in Seq(Seq(ValidPoints))
  BY DEF Shapes
<1>2. g = IF layer.reported = "Polygon" \/ s = <<>>
          THEN [i \in DOMAIN s |-> EncodeShape(layer, s[i])] ELSE <<EncodeShape(layer, s[1])>>
  BY DEF InsertFeature
<1>3. LoadFeature(layer, InsertFeature(layer, f)).shapes = [i \in DOMAIN g |-> DecodeShape(g[i])]
  BY DEF LoadFeature
<1>4. g \in Shapes
  <2>1. [i \in DOMAIN s |-> EncodeShape(layer, s[i])] \in Shapes
    <3> DEFINE e == [i \in 1..n |-> EncodeShape(layer, s[i])]
    <3>1. e \in [1..n -> Seq(Seq(ValidPoints))]
      BY <1>1, EncodedIs
    <3> HIDE DEF n, e
    <3>2. e \in Shapes
      BY <1>1, <3>1, FunctionIsSeq DEF Shapes
    <3> QED  BY <1>1, <3>2 DEF e
  <2>2. ASSUME s # <<>> PROVE <<EncodeShape(layer, s[1])>> \in Shapes
    <3>1. 1 \in 1..n
      BY <2>2, <1>1
    <3>2. EncodeShape(layer, s[1]) \in Seq(Seq(ValidPoints))
      BY <1>1, <3>1, EncodedIs
    <3> QED  BY <3>2 DEF Shapes
  <2> HIDE DEF g
  <2> QED  BY <1>2, <2>1, <2>2
<1> HIDE DEF g
<1> DEFINE m == Len(g)
           d == [i \in 1..m |-> DecodeShape(g[i])]
<1>5. m \in Nat /\ DOMAIN g = 1..m /\ \A i \in 1..m : g[i] \in Seq(Seq(ValidPoints))
  BY <1>4 DEF Shapes
<1>6. d \in Shapes
  <2>1. d \in [1..m -> Seq(Seq(ValidPoints))]
    BY <1>5, DecodedIs
  <2> HIDE DEF d, m
  <2> QED  BY <1>5, <2>1, FunctionIsSeq DEF Shapes
<1> QED  BY <1>3, <1>5, <1>6

\* The extent of a row, and the number of rows.
Ext(s, i) == Extent(GetFeature(s, i))
Rows(s) == Len(store[s].rows)

\* The rows of a store have extents.
LEMMA RowExtents ==
  ASSUME WrittenInv, NEW s \in Stores
  PROVE  /\ Rows(s) \in Nat /\ DOMAIN store[s].rows = 1..Rows(s)
         /\ \A i \in 1..Rows(s) : Ext(s, i) \in MaybeBoxes
<1> DEFINE st == store[s]
           n == Len(st.given)
           row(i) == InsertFeature(st.layer, st.given[i])
<1>1. Holds(st)
  BY DEF WrittenInv
<1>2. /\ n \in Nat /\ \A i \in 1..n : st.given[i] \in Feats
      /\ st.rows = [i \in 1..n |-> row(i)]
  BY <1>1 DEF Holds
<1>3. ASSUME NEW i \in 1..n PROVE Ext(s, i) \in MaybeBoxes
  <2>1. st.given[i].shapes \in Shapes
    BY <1>2, FeatsAreFeatures DEF IsFeature, Shapes, ValidPoints
  <2>2. GetFeature(s, i) = LoadFeature(st.layer, row(i))
    BY <1>2 DEF GetFeature
  <2>3. LoadFeature(st.layer, row(i)).shapes \in Shapes
    BY <2>1, LoadedShapes
  <2> HIDE DEF st, row
  <2> QED  BY <2>2, <2>3, ShapesExtentIs DEF Ext, Extent, Shapes
<1>4. Rows(s) = n /\ DOMAIN st.rows = 1..n
  <2> DEFINE R == {row(i) : i \in 1..n}
  <2>1. st.rows \in [1..n -> R]
    BY <1>2
  <2> HIDE DEF R, row, n
  <2>2. Len(st.rows) = n /\ DOMAIN st.rows = 1..n
    BY <2>1, <1>2, FunctionIsSeq
  <2> QED  BY <2>2 DEF Rows
<1> QED  BY <1>2, <1>3, <1>4

-------------------------------------------------------------------------------
(* buildIndex().                                                            *)

\* What an index is while it is made: of the features up to a number.
GrownExtent(x, e) == IF x.is_valid THEN ExpandToInclude(x, e) ELSE e
BuildStep(s, b, oid) ==
  IF ~Ext(s, oid).is_valid \/ Ext(s, oid).is_infinite THEN b
  ELSE [tree |-> Insert(b.tree, Ext(s, oid), oid), extent |-> GrownExtent(b.extent, Ext(s, oid))]
NothingBuilt == [tree |-> EmptyTree, extent |-> Invalid]
BuildRecords == [tree : TreeRecords, extent : MaybeBoxes]
BuiltUpTo(j) ==
  {b \in BuildRecords : SoundTree(b.tree) /\ \A e \in LeafEntries(b.tree) : e.ref <= j}
Builds(s, f) ==
  f = [T \in SUBSET (DOMAIN AllRows(s)) |->
         IF T = {} THEN NothingBuilt ELSE BuildStep(s, f[T \ {Max(T)}], AllRows(s)[Max(T)])]

\* buildIndex() as the function that is chosen.
LEMMA BuildChosen ==
  ASSUME NEW s
  PROVE  BuildTree(s) = (CHOOSE f : Builds(s, f))[DOMAIN AllRows(s)]
BY DEF BuildTree, FoldLeft, MapThenFoldSet, Builds, BuildStep, NothingBuilt, Ext, GrownExtent

\* A tree as it should be has entries.
LEMMA SoundIsTree ==
  ASSUME NEW t, SoundTree(t)
  PROVE  t \in TreeRecords /\ \A e \in LeafEntries(t) : e \in EntryRecords /\ e.extent \in Boxes /\ e.ref \in Nat
<1>1. IsTree(t)
  BY DEF SoundTree, Sound, Pending
<1>2. ASSUME NEW e \in LeafEntries(t) PROVE e \in EntryRecords /\ e.extent \in Boxes /\ e.ref \in Nat
  <2>1. PICK m \in Numbers(t) : e \in Kids(t, m)
    BY DEF LeafEntries
  <2> QED  BY <1>1, <2>1, KidsAre
<1> QED  BY <1>1, <1>2, TreeIs

\* Of no features, an empty tree is made.
LEMMA NothingBuiltIs == NothingBuilt \in BuiltUpTo(0) /\ LeafEntries(NothingBuilt.tree) = {}
<1>1. NothingBuilt.tree = EmptyTree /\ NothingBuilt.extent = Invalid
      /\ NothingBuilt = [tree |-> EmptyTree, extent |-> Invalid]
  BY DEF NothingBuilt
<1>2. SoundTree(EmptyTree) /\ LeafEntries(EmptyTree) = {} /\ EmptyTree \in TreeRecords
  BY EmptyTreeIsSound, SoundIsTree
<1>3. NothingBuilt \in BuildRecords
  BY <1>1, <1>2 DEF BuildRecords, MaybeBoxes
<1> QED  BY <1>1, <1>2, <1>3 DEF BuiltUpTo

\* One feature more.
LEMMA OneMoreBuilt ==
  ASSUME NEW s, NEW k \in Nat \ {0}, Ext(s, k) \in MaybeBoxes, NEW b \in BuiltUpTo(k - 1)
  PROVE  /\ BuildStep(s, b, k) \in BuiltUpTo(k)
         /\ \A e : e \in LeafEntries(BuildStep(s, b, k).tree) <=>
                     e \in LeafEntries(b.tree) \/ (Ext(s, k) \in Boxes /\ e = Entry(Given(Ext(s, k)), k))
<1> DEFINE x == Ext(s, k)
           c == BuildStep(s, b, k)
<1>1. b \in BuildRecords /\ SoundTree(b.tree) /\ \A e \in LeafEntries(b.tree) : e.ref <= k - 1
  BY DEF BuiltUpTo
<1>2. b.extent \in MaybeBoxes
  BY <1>1 DEF BuildRecords
<1>3. \A e \in LeafEntries(b.tree) : e.ref \in Nat
  BY <1>1, SoundIsTree
<1>4. x \in MaybeBoxes /\ ~x.is_infinite /\ (x.is_valid <=> x \in Boxes)
  BY MaybeBoxIs
<1>5. CASE x \notin Boxes
  <2>1. c = b
    BY <1>4, <1>5 DEF BuildStep
  <2>2. \A e \in LeafEntries(b.tree) : e.ref <= k
    BY <1>1, <1>3
  <2>3. b \in BuiltUpTo(k)
    BY <1>1, <2>2 DEF BuiltUpTo
  <2> QED  BY <1>5, <2>1, <2>3
<1>6. CASE x \in Boxes
  <2> DEFINE t == Insert(b.tree, x, k)
             y == GrownExtent(b.extent, x)
  <2>1. c = [tree |-> t, extent |-> y]
    BY <1>4, <1>6 DEF BuildStep
  <2>2. NewRef(b.tree, k)
    BY <1>1, <1>3 DEF NewRef
  <2>3. SoundTree(t) /\ LeafEntries(t) = LeafEntries(b.tree) \cup {Entry(Given(x), k)}
    BY <1>1, <1>6, <2>2, FeatureInserted
  <2>4. y \in MaybeBoxes
    BY <1>2, <1>4, MaybeBoxesJoin DEF GrownExtent
  <2>5. t \in TreeRecords
    BY <2>3, SoundIsTree
  <2> HIDE DEF t, y, x
  <2>6. c \in BuildRecords /\ c.tree = t
    BY <2>1, <2>4, <2>5 DEF BuildRecords
  <2>7. \A e : e \in LeafEntries(t) <=> e \in LeafEntries(b.tree) \/ e = Entry(Given(x), k)
    BY <2>3
  <2>8. ASSUME NEW e \in LeafEntries(t) PROVE e.ref <= k
    <3>1. CASE e \in LeafEntries(b.tree)
      BY <1>1, <1>3, <3>1
    <3>2. CASE e = Entry(Given(x), k)
      <4>1. e.ref = k
        BY <3>2 DEF Entry
      <4> QED  BY <4>1
    <3> QED  BY <2>7, <3>1, <3>2
  <2>9. c \in BuiltUpTo(k)
    BY <2>3, <2>6, <2>8 DEF BuiltUpTo
  <2> QED  BY <1>6, <2>6, <2>7, <2>9 DEF x
<1> QED  BY <1>5, <1>6

\* What was made of some features is also of more.
LEMMA BuiltMonotonic ==
  ASSUME NEW j \in Nat, NEW k \in Nat, j <= k
  PROVE  BuiltUpTo(j) \subseteq BuiltUpTo(k)
<1> SUFFICES ASSUME NEW b \in BuiltUpTo(j) PROVE b \in BuiltUpTo(k)
  OBVIOUS
<1>1. b \in BuildRecords /\ SoundTree(b.tree) /\ \A e \in LeafEntries(b.tree) : e.ref <= j
  BY DEF BuiltUpTo
<1>2. \A e \in LeafEntries(b.tree) : e.ref \in Nat
  BY <1>1, SoundIsTree
<1>3. \A e \in LeafEntries(b.tree) : e.ref <= k
  BY <1>1, <1>2
<1> QED  BY <1>1, <1>3 DEF BuiltUpTo

\* The making of an index, feature by feature.
LEMMA BuildStages ==
  ASSUME NEW s, NEW N \in Nat, DOMAIN store[s].rows = 1..N, \A i \in 1..N : Ext(s, i) \in MaybeBoxes
  PROVE  \E g : /\ g[0] = NothingBuilt
                /\ \A k \in 1..N : g[k] = BuildStep(s, g[k - 1], k)
                /\ BuildTree(s) = g[N]
<1> DEFINE V == BuiltUpTo(N)
           H == [p \in (1..N) \X V |-> IF p[2] \in BuiltUpTo(p[1] - 1) THEN BuildStep(s, p[2], p[1]) ELSE NothingBuilt]
<1>1. DOMAIN AllRows(s) = 1..N /\ \A i \in 1..N : AllRows(s)[i] = i
  BY DEF AllRows
<1>2. \A k \in 1..N : k \in Nat \ {0} /\ k \in Nat /\ k <= N /\ k - 1 \in Nat
  OBVIOUS
<1>3. NothingBuilt \in V
  <2>1. BuiltUpTo(0) \subseteq BuiltUpTo(N)
    BY BuiltMonotonic
  <2> QED  BY <2>1, NothingBuiltIs
<1>4. ASSUME NEW k \in 1..N, NEW v \in BuiltUpTo(k - 1) PROVE BuildStep(s, v, k) \in BuiltUpTo(k)
  BY <1>2, OneMoreBuilt
<1>5. \A k \in 1..N : BuiltUpTo(k) \subseteq V /\ BuiltUpTo(k - 1) \subseteq BuiltUpTo(k)
  BY <1>2, BuiltMonotonic
<1> HIDE DEF V
<1>6. H \in [(1..N) \X V -> V]
  <2>1. \A k \in 1..N, v \in V : (IF v \in BuiltUpTo(k - 1) THEN BuildStep(s, v, k) ELSE NothingBuilt) \in V
    BY <1>3, <1>4, <1>5
  <2> QED  BY <2>1
<1>7. \A k \in 1..N, v \in V : v \in BuiltUpTo(k - 1) => H[<<k, v>>] = BuildStep(s, v, k)
  OBVIOUS
<1> HIDE DEF H
<1>8. PICK f : Folds(N, V, NothingBuilt, H, f)
  BY <1>3, <1>6, FoldExists
<1>9. f \in [SUBSET (1..N) -> V] /\ \A T \in SUBSET (1..N) : f[T] = Folded(T, NothingBuilt, H, f)
  BY <1>8 DEF Folds
<1>10. ASSUME NEW m \in 1..N, NEW T \in SUBSET (1..m), m \in T
       PROVE  T # {} /\ Max(T) = m /\ T \in SUBSET (1..N) /\ T \ {m} \in SUBSET (1..(m - 1))
  <2>1. m \in Nat /\ T \subseteq 1..m
    BY <1>2
  <2>2. Max(T) = m
    BY ONLY <1>10, <2>1, MaxIsLast
  <2>3. \A i \in 1..m : i = m \/ i \in 1..(m - 1)
    OBVIOUS
  <2>4. \A i \in 1..m : i \in 1..N
    OBVIOUS
  <2> QED  BY <1>10, <2>2, <2>3, <2>4
<1> DEFINE P == {m \in 0..N : \A T \in SUBSET (1..m) : f[T] \in BuiltUpTo(m)}
<1>11. 0 \in P
  <2>1. ASSUME NEW T \in SUBSET (1..0) PROVE f[T] \in BuiltUpTo(0)
    <3>1. T = {} /\ T \in SUBSET (1..N)
      OBVIOUS
    <3>2. f[T] = NothingBuilt
      BY <1>9, <3>1 DEF Folded
    <3> QED  BY <3>2, NothingBuiltIs
  <2> QED  BY <2>1
<1>12. ASSUME NEW m \in 1..N, m - 1 \in P PROVE m \in P
  <2>1. ASSUME NEW T \in SUBSET (1..m) PROVE f[T] \in BuiltUpTo(m)
    <3>1. CASE m \in T
      <4>1. T # {} /\ Max(T) = m /\ T \in SUBSET (1..N) /\ T \ {m} \in SUBSET (1..(m - 1))
        BY <1>10, <3>1
      <4>2. f[T] = H[<<m, f[T \ {m}]>>]
        BY <1>9, <4>1 DEF Folded
      <4>3. f[T \ {m}] \in BuiltUpTo(m - 1) /\ T \ {m} \in SUBSET (1..N)
        BY <1>12, <4>1
      <4>4. f[T \ {m}] \in V
        BY <1>9, <4>3
      <4>5. f[T] = BuildStep(s, f[T \ {m}], m)
        BY <1>7, <4>2, <4>3, <4>4
      <4> QED  BY <1>4, <4>3, <4>5
    <3>2. CASE m \notin T
      <4>1. T \in SUBSET (1..(m - 1))
        <5>1. \A i \in 1..m : i = m \/ i \in 1..(m - 1)
          OBVIOUS
        <5> QED  BY <3>2, <5>1
      <4>2. f[T] \in BuiltUpTo(m - 1)
        BY <1>12, <4>1
      <4> QED  BY <1>5, <4>2
    <3> QED  BY <3>1, <3>2
  <2> QED  BY <2>1
<1>13. 0..N \subseteq P
  <2> HIDE DEF P
  <2> QED  BY <1>11, <1>12, CountUp
<1>14. \A m \in 0..N : \A T \in SUBSET (1..m) : f[T] \in BuiltUpTo(m)
  BY <1>13
<1>15. ASSUME NEW T \in SUBSET (1..N)
       PROVE  f[T] = IF T = {} THEN NothingBuilt ELSE BuildStep(s, f[T \ {Max(T)}], AllRows(s)[Max(T)])
  <2>1. CASE T = {}
    BY <1>9, <2>1 DEF Folded
  <2>2. CASE T # {}
    <3> DEFINE m == Max(T)
    <3>1. m \in T /\ \A i \in T : i <= m
      BY <2>2, GreatestElement
    <3>2. m \in 1..N
      BY <3>1
    <3>3. T \ {m} \in SUBSET (1..(m - 1)) /\ T \ {m} \in SUBSET (1..N)
      <4> HIDE DEF m
      <4>1. \A i \in T : i \in 1..N /\ (i # m => i \in 1..(m - 1))
        BY <3>1, <3>2
      <4> QED  BY <4>1
    <3>4. f[T \ {m}] \in BuiltUpTo(m - 1)
      <4>1. m - 1 \in 0..N
        BY <3>2
      <4> HIDE DEF m
      <4> QED  BY <1>14, <3>3, <4>1
    <3>5. f[T] = H[<<m, f[T \ {m}]>>] /\ f[T \ {m}] \in V
      BY <1>9, <2>2, <3>3 DEF Folded
    <3>6. f[T] = BuildStep(s, f[T \ {m}], m)
      <4> HIDE DEF m
      <4> QED  BY <1>7, <3>2, <3>4, <3>5
    <3> QED  BY <1>1, <2>2, <3>2, <3>6
  <2> QED  BY <2>1, <2>2
<1>16. Builds(s, f)
  BY <1>1, <1>9, <1>15 DEF Builds
<1> DEFINE c == CHOOSE h : Builds(s, h)
<1>17. Builds(s, c)
  BY <1>16
<1>18. BuildTree(s) = c[1..N]
  BY <1>1, BuildChosen
<1>19. \A T \in SUBSET (1..N) :
          c[T] = IF T = {} THEN NothingBuilt ELSE BuildStep(s, c[T \ {Max(T)}], AllRows(s)[Max(T)])
  <2> HIDE DEF c
  <2> QED  BY <1>1, <1>17 DEF Builds
<1> HIDE DEF c
<1> DEFINE g == [k \in 0..N |-> c[1..k]]
<1>20. g[0] = NothingBuilt
  <2>1. 1..0 \in SUBSET (1..N) /\ 1..0 = {} /\ 0 \in 0..N
    BY FoldStages
  <2>2. c[1..0] = NothingBuilt
    BY <1>19, <2>1
  <2> QED  BY <2>1, <2>2
<1>21. ASSUME NEW k \in 1..N PROVE g[k] = BuildStep(s, g[k - 1], k)
  <2>1. 1..k \in SUBSET (1..N) /\ 1..k # {} /\ Max(1..k) = k /\ (1..k) \ {k} = 1..(k - 1)
    BY FoldStages
  <2>2. c[1..k] = BuildStep(s, c[1..(k - 1)], k)
    BY <1>1, <1>19, <2>1
  <2>3. k - 1 \in 0..N /\ k \in 0..N
    OBVIOUS
  <2> QED  BY <2>2, <2>3
<1>22. g[N] = c[1..N]
  OBVIOUS
<1> HIDE DEF g
<1> QED  BY <1>18, <1>20, <1>21, <1>22

\* RTreeSpatialIndex::buildIndex(): the tree that is made of a store is sound, and
\* has an entry for each feature that has an extent and for no other.
THEOREM BuiltTree ==
  ASSUME NEW s, NEW N \in Nat, DOMAIN store[s].rows = 1..N, \A i \in 1..N : Ext(s, i) \in MaybeBoxes
  PROVE  /\ SoundTree(BuildTree(s).tree)
         /\ \A e : e \in LeafEntries(BuildTree(s).tree) <=>
                     \E i \in 1..N : Ext(s, i) \in Boxes /\ e = Entry(Given(Ext(s, i)), i)
<1>1. PICK g : /\ g[0] = NothingBuilt
               /\ \A k \in 1..N : g[k] = BuildStep(s, g[k - 1], k)
               /\ BuildTree(s) = g[N]
  BY BuildStages
<1> DEFINE In(k, e) == \E i \in 1..k : Ext(s, i) \in Boxes /\ e = Entry(Given(Ext(s, i)), i)
           P == {k \in 0..N : g[k] \in BuiltUpTo(k) /\ \A e : e \in LeafEntries(g[k].tree) <=> In(k, e)}
<1>2. 0 \in P
  <2>1. \A e : ~In(0, e)
    OBVIOUS
  <2> HIDE DEF In
  <2> QED  BY <1>1, <2>1, NothingBuiltIs
<1>3. ASSUME NEW k \in 1..N, k - 1 \in P PROVE k \in P
  <2>1. g[k] = BuildStep(s, g[k - 1], k) /\ g[k - 1] \in BuiltUpTo(k - 1) /\ k \in Nat \ {0} /\ Ext(s, k) \in MaybeBoxes
    BY <1>1, <1>3
  <2>2. /\ g[k] \in BuiltUpTo(k)
        /\ \A e : e \in LeafEntries(g[k].tree) <=>
                    e \in LeafEntries(g[k - 1].tree) \/ (Ext(s, k) \in Boxes /\ e = Entry(Given(Ext(s, k)), k))
    BY <2>1, OneMoreBuilt
  <2>3. \A e : In(k, e) <=> In(k - 1, e) \/ (Ext(s, k) \in Boxes /\ e = Entry(Given(Ext(s, k)), k))
    <3>1. \A i : i \in 1..k <=> i = k \/ i \in 1..(k - 1)
      OBVIOUS
    <3> QED  BY <3>1
  <2> HIDE DEF In
  <2>4. \A e : e \in LeafEntries(g[k - 1].tree) <=> In(k - 1, e)
    BY <1>3
  <2> QED  BY <2>2, <2>3, <2>4
<1>4. 0..N \subseteq P
  <2> HIDE DEF P
  <2> QED  BY <1>2, <1>3, CountUp
<1>5. N \in P
  BY <1>4
<1> QED  BY <1>1, <1>5 DEF BuiltUpTo

-------------------------------------------------------------------------------
(* What the index keeps of an extent.                                       *)

\* An extent grown or shrunk by a distance, whose corners may have changed places.
LEMMA ExpandParts ==
  ASSUME NEW e \in Boxes, NEW d \in Int
  PROVE  LET f == Expand(e, d) IN
         /\ ~IsEmpty(f) /\ ~f.is_infinite
         /\ f.sw.x = e.sw.x - d /\ f.sw.y = e.sw.y - d /\ f.ne.x = e.ne.x + d /\ f.ne.y = e.ne.y + d
<1> DEFINE p == Moved(e.sw, e.sw.x - d, e.sw.y - d)
           q == Moved(e.ne, e.ne.x + d, e.ne.y + d)
           f == [e EXCEPT !.sw = p, !.ne = q]
<1>0. e.sw.x \in Int /\ e.sw.y \in Int /\ e.ne.x \in Int /\ e.ne.y \in Int
  BY BoxNumbers
<1>1. Expand(e, d) = f
  BY DEF Expand, Moved
<1>2. p \in ValidPoints /\ p.x = e.sw.x - d /\ p.y = e.sw.y - d
  <2>1. e.sw \in ValidPoints /\ e.sw.x - d \in Int /\ e.sw.y - d \in Int
    BY <1>0, BoxCorners
  <2> QED  BY <2>1, MovedPoint
<1>3. q \in ValidPoints /\ q.x = e.ne.x + d /\ q.y = e.ne.y + d
  <2>1. e.ne \in ValidPoints /\ e.ne.x + d \in Int /\ e.ne.y + d \in Int
    BY <1>0, BoxCorners
  <2> QED  BY <2>1, MovedPoint
<1> HIDE DEF p, q
<1>4. e \in GeoExtents /\ e.is_valid /\ ~e.is_infinite
  BY BoxIs, BoxFlags
<1>5. f \in GeoExtents /\ f.sw = p /\ f.ne = q /\ f.is_valid = e.is_valid /\ f.is_infinite = e.is_infinite
  <2>1. p \in GeoPoints /\ q \in GeoPoints
    BY <1>2, <1>3, ValidIs
  <2> QED  BY <1>4, <2>1, SetCorners
<1> HIDE DEF f
<1>6. p.ok /\ q.ok
  BY <1>2, <1>3, ValidIs
<1>7. ~IsEmpty(f)
  BY <1>4, <1>5, <1>6 DEF IsEmpty
<1> QED  BY <1>1, <1>2, <1>3, <1>4, <1>5, <1>7

\* What has no extent meets nothing, however it is grown.
LEMMA ExpandNothing ==
  ASSUME NEW x \in MaybeBoxes, x \notin Boxes, NEW d, NEW q
  PROVE  ~Intersects(Expand(x, d), q) /\ ~Intersects(x, q)
<1>1. x = Invalid
  BY DEF MaybeBoxes
<1>2. ~Expand(Invalid, d).is_valid
  BY DEF Expand, Invalid
<1>3. IsEmpty(Expand(x, d)) /\ IsEmpty(x)
  BY <1>1, <1>2, InvalidIs DEF IsEmpty
<1> QED  BY <1>3 DEF Intersects

\* Extent y goes at most out beyond x, and x at most in beyond y.
CloseTo(x, y, in, out) ==
  /\ x.sw.x - out <= y.sw.x /\ y.sw.x <= x.sw.x + in
  /\ x.sw.y - out <= y.sw.y /\ y.sw.y <= x.sw.y + in
  /\ x.ne.x - in <= y.ne.x /\ y.ne.x <= x.ne.x + out
  /\ x.ne.y - in <= y.ne.y /\ y.ne.y <= x.ne.y + out

\* Extents that are close to each other meet the same, up to the distance.
LEMMA CloseMeets ==
  ASSUME NEW x \in Boxes, NEW y \in Boxes, NEW in \in Nat, NEW out \in Nat, CloseTo(x, y, in, out),
         NEW q \in GeoExtents, ~q.is_infinite
  PROVE  /\ Intersects(y, q) => Intersects(Expand(x, out), q)
         /\ Intersects(Expand(x, -in), q) => Intersects(y, q)
<1> DEFINE a == Expand(x, out)
           b == Expand(x, -in)
<1>1. /\ ~IsEmpty(a) /\ ~a.is_infinite
      /\ a.sw.x = x.sw.x - out /\ a.sw.y = x.sw.y - out /\ a.ne.x = x.ne.x + out /\ a.ne.y = x.ne.y + out
  <2>1. out \in Int
    OBVIOUS
  <2> QED  BY <2>1, ExpandParts
<1>2. /\ ~IsEmpty(b) /\ ~b.is_infinite
      /\ b.sw.x = x.sw.x - (-in) /\ b.sw.y = x.sw.y - (-in) /\ b.ne.x = x.ne.x + (-in) /\ b.ne.y = x.ne.y + (-in)
  <2>1. -in \in Int
    OBVIOUS
  <2> QED  BY <2>1, ExpandParts
<1> HIDE DEF a, b
<1>3. /\ x.sw.x \in Int /\ x.sw.y \in Int /\ x.ne.x \in Int /\ x.ne.y \in Int
      /\ y.sw.x \in Int /\ y.sw.y \in Int /\ y.ne.x \in Int /\ y.ne.y \in Int
      /\ q.sw.x \in Int /\ q.sw.y \in Int /\ q.ne.x \in Int /\ q.ne.y \in Int
  BY BoxNumbers, ExtentNumbers
<1>4. ~IsEmpty(y) /\ ~y.is_infinite
  BY BoxFlags
<1>5. ASSUME Intersects(y, q) PROVE Intersects(a, q)
  <2>1. ~IsEmpty(q) /\ q.sw.x <= y.ne.x /\ y.sw.x <= q.ne.x /\ q.sw.y <= y.ne.y /\ y.sw.y <= q.ne.y
    BY <1>4, <1>5 DEF Intersects
  <2>2. q.sw.x <= a.ne.x /\ a.sw.x <= q.ne.x /\ q.sw.y <= a.ne.y /\ a.sw.y <= q.ne.y
    BY <1>1, <1>3, <2>1 DEF CloseTo
  <2> QED  BY <1>1, <2>1, <2>2 DEF Intersects
<1>6. ASSUME Intersects(b, q) PROVE Intersects(y, q)
  <2>1. ~IsEmpty(q) /\ q.sw.x <= b.ne.x /\ b.sw.x <= q.ne.x /\ q.sw.y <= b.ne.y /\ b.sw.y <= q.ne.y
    BY <1>2, <1>6 DEF Intersects
  <2>2. q.sw.x <= y.ne.x /\ y.sw.x <= q.ne.x /\ q.sw.y <= y.ne.y /\ y.sw.y <= q.ne.y
    BY <1>2, <1>3, <2>1 DEF CloseTo
  <2> QED  BY <1>4, <2>1, <2>2 DEF Intersects
<1> QED  BY <1>5, <1>6 DEF a, b

\* What the index keeps of an extent, as it is made and as it is read back.
Kept(x, built) == IF built THEN Given(x) ELSE Reread(Given(x))

\* The margin is all that is added to a point.
LEMMA GivenIsClose ==
  ASSUME NEW x \in Boxes
  PROVE  Given(x) \in Boxes /\ Covers(Given(x), x) /\ CloseTo(x, Given(x), 0, MARGIN)
<1>0. x.sw.x \in Int /\ x.sw.y \in Int /\ x.ne.x \in Int /\ x.ne.y \in Int
  BY BoxNumbers
<1>1. CASE Area(x) = 0
  <2>1. Given(x) = Expand(x, MARGIN)
    BY <1>1 DEF Given
  <2> DEFINE y == Expand(x, MARGIN)
  <2>2. /\ y \in Boxes /\ Covers(y, x)
        /\ y.sw.x = x.sw.x - MARGIN /\ y.sw.y = x.sw.y - MARGIN /\ y.ne.x = x.ne.x + MARGIN /\ y.ne.y = x.ne.y + MARGIN
    BY MarginAssumption, GrownBox
  <2> HIDE DEF y
  <2>3. CloseTo(x, y, 0, MARGIN)
    BY <1>0, <2>2, MarginAssumption DEF CloseTo
  <2> QED  BY <2>1, <2>2, <2>3 DEF y
<1>2. CASE Area(x) # 0
  <2>1. Given(x) = x
    BY <1>2 DEF Given
  <2>2. Covers(x, x) /\ CloseTo(x, x, 0, MARGIN)
    BY <1>0, MarginAssumption DEF Covers, CloseTo
  <2> QED  BY <2>1, <2>2
<1> QED  BY <1>1, <1>2

\* What the index keeps is as close as the margin and the printing make it.
LEMMA KeptIsClose ==
  ASSUME PrintsInOrder, PrintsWithin(GRAIN), NEW x \in Boxes, NEW built
  PROVE  Kept(x, built) \in Boxes /\ CloseTo(x, Kept(x, built), GRAIN, MARGIN + GRAIN)
<1> DEFINE y == Given(x)
           z == Reread(y)
<1>1. y \in Boxes /\ CloseTo(x, y, 0, MARGIN)
  BY GivenIsClose
<1> HIDE DEF y
<1>2. /\ z \in Boxes
      /\ z.sw.x = Printed(y.sw.x) /\ z.sw.y = Printed(y.sw.y) /\ z.ne.x = Printed(y.ne.x) /\ z.ne.y = Printed(y.ne.y)
  BY <1>1, RereadBox
<1> HIDE DEF z
<1>3. /\ x.sw.x \in Int /\ x.sw.y \in Int /\ x.ne.x \in Int /\ x.ne.y \in Int
      /\ y.sw.x \in Int /\ y.sw.y \in Int /\ y.ne.x \in Int /\ y.ne.y \in Int
      /\ z.sw.x \in Int /\ z.sw.y \in Int /\ z.ne.x \in Int /\ z.ne.y \in Int
  BY <1>1, <1>2, BoxNumbers
<1>4. /\ y.sw.x - GRAIN <= z.sw.x /\ z.sw.x <= y.sw.x + GRAIN
      /\ y.sw.y - GRAIN <= z.sw.y /\ z.sw.y <= y.sw.y + GRAIN
      /\ y.ne.x - GRAIN <= z.ne.x /\ z.ne.x <= y.ne.x + GRAIN
      /\ y.ne.y - GRAIN <= z.ne.y /\ z.ne.y <= y.ne.y + GRAIN
  BY <1>2, <1>3 DEF PrintsWithin
<1>5. MARGIN \in Nat /\ GRAIN \in Nat
  BY MarginAssumption, GrainAssumption
<1>6. CloseTo(x, y, GRAIN, MARGIN + GRAIN)
  BY <1>1, <1>3, <1>5 DEF CloseTo
<1>7. CloseTo(x, z, GRAIN, MARGIN + GRAIN)
  BY <1>1, <1>3, <1>4, <1>5 DEF CloseTo
<1> QED  BY <1>1, <1>2, <1>6, <1>7 DEF Kept, y, z

-------------------------------------------------------------------------------
(* Cursors: reading one feature.                                            *)

\* A cursor's fields.
CursorRecords == [oids : Seq(Nat), has_store : BOOLEAN, search_extent : GeoExtents, match_exactly : BOOLEAN,
                  iter : Nat, queue : Seq(Nat), last : Nat \cup {Null}, at_bof : BOOLEAN]

\* Two cursors over the same.
Alike(c, d) ==
  /\ d.oids = c.oids /\ d.has_store = c.has_store
  /\ d.search_extent = c.search_extent /\ d.match_exactly = c.match_exactly
  /\ d.last = c.last /\ d.at_bof = c.at_bof

\* M ends with s.
EndsIn(s, M) == Len(s) <= Len(M) /\ \A x \in 1..Len(s) : s[x] = M[Len(M) - Len(s) + x]

\* The queue holds the last of the features that matched so far.
Ready(c) == c.iter <= Len(c.oids) /\ EndsIn(c.queue, Matching(c, c.iter))

\* The features a cursor gave its caller.
Handed(c) == Len(Matching(c, c.iter)) - Len(c.queue)

\* A cursor has its parts.
LEMMA CursorParts ==
  ASSUME NEW c \in CursorRecords
  PROVE  /\ c.oids \in Seq(Nat) /\ c.has_store \in BOOLEAN /\ c.iter \in Nat /\ c.queue \in Seq(Nat)
         /\ c.last \in Nat \cup {Null} /\ c.at_bof \in BOOLEAN
         /\ c.search_extent \in GeoExtents /\ c.match_exactly \in BOOLEAN
         /\ Len(c.oids) \in Nat /\ Len(c.queue) \in Nat
BY DEF CursorRecords

\* A cursor that was not opened.
LEMMA NoCursorIs == NoCursor \in CursorRecords /\ ~NoCursor.has_store /\ NoCursor.oids = <<>>
                    /\ NoCursor.queue = <<>> /\ NoCursor.iter = 0 /\ NoCursor.last = Null /\ ~NoCursor.at_bof
BY InvalidIs DEF NoCursor, CursorRecords

\* The features that match, one after the other.
LEMMA MatchingGrows ==
  ASSUME NEW c, c.oids \in Seq(Nat)
  PROVE  /\ Matching(c, 0) = <<>>
         /\ \A k \in 0..Len(c.oids) : Matching(c, k) \in Seq(Nat)
         /\ \A k \in 1..Len(c.oids) :
               Matching(c, k) = IF Matches(c, c.oids[k]) THEN Append(Matching(c, k - 1), c.oids[k])
                                ELSE Matching(c, k - 1)
<1> DEFINE o == c.oids
           n == Len(o)
           T == {oid \in ToSet(o) : Matches(c, oid)}
<1>1. n \in Nat /\ DOMAIN o = 1..n /\ o \in Seq(Nat)
  OBVIOUS
<1>2. \A k : Matching(c, k) = Selected(SubSeq(o, 1, k), T)
  BY DEF Matching
<1>3. \A k \in 1..n : o[k] \in T <=> Matches(c, o[k])
  BY <1>1 DEF ToSet
<1> HIDE DEF T
<1>4. SubSeq(o, 1, 0) = <<>> /\ \A k \in 0..n : SubSeq(o, 1, k) \in Seq(Nat)
  BY <1>1
<1>5. \A k \in 0..n : Selected(SubSeq(o, 1, k), T) \in Seq(Nat)
  BY <1>4, SelectedElements DEF SelectedIs
<1>6. ASSUME NEW k \in 1..n
      PROVE  Selected(SubSeq(o, 1, k), T) = IF o[k] \in T THEN Append(Selected(SubSeq(o, 1, k - 1), T), o[k])
                                            ELSE Selected(SubSeq(o, 1, k - 1), T)
  <2>1. SubSeq(o, 1, k - 1) \in Seq(Nat) /\ o[k] \in Nat
    BY <1>1, <1>4
  <2>2. SubSeq(o, 1, k) = Append(SubSeq(o, 1, k - 1), o[k])
    BY <1>1
  <2> DEFINE r == SubSeq(o, 1, k - 1)
             a == o[k]
  <2> HIDE DEF r, a
  <2>3. r \in Seq(Nat) /\ a \in Nat
    BY <2>1 DEF r, a
  <2>4. Selected(Append(r, a), T) = IF a \in T THEN Append(Selected(r, T), a) ELSE Selected(r, T)
    BY ONLY <2>3, SelectedAppend
  <2> QED  BY <2>2, <2>4 DEF r, a
<1>7. Matching(c, 0) = <<>>
  BY <1>2, <1>4, SelectedEmpty
<1>8. \A k \in 0..n : Matching(c, k) \in Seq(Nat)
  BY <1>2, <1>5
<1>9. \A k \in 1..n :
        Matching(c, k) = IF Matches(c, o[k]) THEN Append(Matching(c, k - 1), o[k]) ELSE Matching(c, k - 1)
  BY <1>2, <1>3, <1>6
<1> QED  BY <1>7, <1>8, <1>9

\* What matched so far begins what matches at all.
LEMMA MatchingBegins ==
  ASSUME NEW c, c.oids \in Seq(Nat), NEW k \in 0..Len(c.oids)
  PROVE  /\ Len(Matching(c, k)) \in Nat /\ Len(Matching(c, Len(c.oids))) \in Nat
         /\ Len(Matching(c, k)) <= Len(Matching(c, Len(c.oids)))
         /\ \A i \in 1..Len(Matching(c, k)) : Matching(c, Len(c.oids))[i] = Matching(c, k)[i]
<1> DEFINE n == Len(c.oids)
           M(j) == Matching(c, j)
           Begins(j) == Len(M(k)) <= Len(M(j)) /\ \A i \in 1..Len(M(k)) : M(j)[i] = M(k)[i]
           P == {j \in Nat : j > n \/ Begins(j)}
<1>1. n \in Nat /\ k \in Nat /\ k <= n
  OBVIOUS
<1>2. \A j \in 0..n : M(j) \in Seq(Nat)
  BY MatchingGrows
<1>3. \A j \in 1..n : M(j) = IF Matches(c, c.oids[j]) THEN Append(M(j - 1), c.oids[j]) ELSE M(j - 1)
  BY MatchingGrows
<1>4. \A j \in 1..n : c.oids[j] \in Nat
  OBVIOUS
<1> HIDE DEF M, n
<1>5. k <= n => k \in P
  BY <1>1, <1>2
<1>6. ASSUME NEW j \in (k + 1)..n, j - 1 \in P PROVE j \in P
  <2>1. j \in 1..n /\ j - 1 \in 0..n /\ j \in Nat /\ j \in 0..n
    BY <1>1
  <2>2. Begins(j - 1)
    BY <1>1, <1>6, <2>1
  <2>3. M(j - 1) \in Seq(Nat) /\ c.oids[j] \in Nat /\ M(k) \in Seq(Nat)
    BY <1>1, <1>2, <1>4, <2>1
  <2>4. CASE M(j) = M(j - 1)
    BY <2>1, <2>2, <2>4
  <2>5. CASE M(j) = Append(M(j - 1), c.oids[j])
    <3>1. Len(M(j)) = Len(M(j - 1)) + 1 /\ \A i \in 1..Len(M(j - 1)) : M(j)[i] = M(j - 1)[i]
      BY <2>3, <2>5
    <3>2. Len(M(k)) \in Nat /\ Len(M(j - 1)) \in Nat
      BY <2>3
    <3>3. Begins(j)
      BY <2>2, <3>1, <3>2
    <3> QED  BY <2>1, <3>3
  <2> QED  BY <1>3, <2>1, <2>4, <2>5
<1>7. k..n \subseteq P
  <2> HIDE DEF P
  <2> QED  BY <1>1, <1>5, <1>6, CountFrom
<1>8. Begins(n)
  BY <1>1, <1>7
<1>9. M(k) \in Seq(Nat) /\ M(n) \in Seq(Nat)
  BY <1>1, <1>2
<1> QED  BY <1>8, <1>9 DEF M, n

\* The same matches, for cursors over the same.
LEMMA AlikeMatch ==
  ASSUME NEW c, NEW d, Alike(c, d), NEW k
  PROVE  Matching(d, k) = Matching(c, k)
BY DEF Alike, Matching, Matches

\* The end of a sequence grows with it.
LEMMA EndsWithMore ==
  ASSUME NEW M \in Seq(Nat), NEW s \in Seq(Nat), NEW a \in Nat, EndsIn(s, M)
  PROVE  EndsIn(Append(s, a), Append(M, a)) /\ Len(Append(M, a)) - Len(Append(s, a)) = Len(M) - Len(s)
<1> DEFINE q == Append(s, a)
           N == Append(M, a)
<1>0. Len(s) <= Len(M) /\ \A x \in 1..Len(s) : s[x] = M[Len(M) - Len(s) + x]
  BY DEF EndsIn
<1>1. Len(q) = Len(s) + 1 /\ Len(N) = Len(M) + 1 /\ Len(M) \in Nat /\ Len(s) \in Nat
  OBVIOUS
<1>2. /\ \A x \in 1..Len(s) : q[x] = s[x]
      /\ \A x \in 1..Len(M) : N[x] = M[x]
      /\ q[Len(s) + 1] = a /\ N[Len(M) + 1] = a
  OBVIOUS
<1> HIDE DEF q, N
<1>3. ASSUME NEW x \in 1..Len(q) PROVE q[x] = N[Len(N) - Len(q) + x]
  <2>1. CASE x \in 1..Len(s)
    <3>1. Len(M) - Len(s) + x \in 1..Len(M) /\ Len(N) - Len(q) + x = Len(M) - Len(s) + x
      BY ONLY <1>0, <1>1, <2>1
    <3>2. q[x] = s[x] /\ s[x] = M[Len(M) - Len(s) + x]
      BY ONLY <1>0, <1>2, <2>1
    <3>3. N[Len(M) - Len(s) + x] = M[Len(M) - Len(s) + x]
      BY ONLY <1>2, <3>1
    <3> QED  BY ONLY <3>1, <3>2, <3>3
  <2>2. CASE x \notin 1..Len(s)
    <3>1. x = Len(s) + 1 /\ Len(N) - Len(q) + x = Len(M) + 1
      BY ONLY <1>1, <2>2, x \in 1..Len(q)
    <3>2. q[Len(s) + 1] = a /\ N[Len(M) + 1] = a
      BY ONLY <1>2
    <3> QED  BY ONLY <3>1, <3>2
  <2> QED  BY <2>1, <2>2
<1>4. Len(q) <= Len(N) /\ Len(N) - Len(q) = Len(M) - Len(s)
  BY ONLY <1>0, <1>1
<1>5. EndsIn(q, N)
  BY ONLY <1>3, <1>4 DEF EndsIn
<1> QED  BY ONLY <1>4, <1>5 DEF q, N

\* Reading one feature more gives nothing to the caller, and keeps the queue right.
LEMMA FetchKeeps ==
  ASSUME NEW c \in CursorRecords, Ready(c)
  PROVE  /\ Fetch(c) \in CursorRecords /\ Alike(c, Fetch(c)) /\ Ready(Fetch(c)) /\ Handed(Fetch(c)) = Handed(c)
         /\ \/ Fetch(c) = c /\ (Len(c.queue) >= prefetch_size \/ c.iter = Len(c.oids))
            \/ Fetch(c).iter = c.iter + 1
<1> USE CursorParts
<1>1. CASE ~(Len(c.queue) < prefetch_size /\ c.iter < Len(c.oids))
  <2>1. Fetch(c) = c
    BY <1>1 DEF Fetch
  <2>2. Len(c.queue) >= prefetch_size \/ c.iter = Len(c.oids)
    BY <1>1, PrefetchAssumption DEF Ready
  <2> QED  BY <2>1, <2>2 DEF Alike
<1>2. CASE Len(c.queue) < prefetch_size /\ c.iter < Len(c.oids)
  <2> DEFINE k == c.iter + 1
             oid == c.oids[k]
             q == IF Matches(c, oid) THEN Append(c.queue, oid) ELSE c.queue
             d == [c EXCEPT !.iter = k, !.queue = q]
  <2>1. Fetch(c) = d
    BY <1>2 DEF Fetch
  <2>2. k \in 1..Len(c.oids) /\ oid \in Nat /\ k \in Nat /\ k - 1 = c.iter
    BY <1>2
  <2>3. q \in Seq(Nat)
    BY <2>2
  <2> HIDE DEF k, q
  <2>4. d \in CursorRecords /\ Alike(c, d) /\ d.iter = k /\ d.queue = q
    BY <2>2, <2>3 DEF CursorRecords, Alike
  <2> HIDE DEF d
  <2> DEFINE M == Matching(c, c.iter)
             N == Matching(c, k)
  <2>5. N = IF Matches(c, oid) THEN Append(M, oid) ELSE M
    BY <2>2, MatchingGrows
  <2>6. M \in Seq(Nat)
    <3>1. c.iter \in 0..Len(c.oids)
      BY <2>2
    <3> QED  BY <3>1, MatchingGrows
  <2>7. Matching(d, d.iter) = N
    BY <2>4, AlikeMatch
  <2>8. EndsIn(c.queue, M)
    BY DEF Ready
  <2> HIDE DEF M, N
  <2>9. EndsIn(q, N) /\ Len(N) - Len(q) = Len(M) - Len(c.queue)
    <3>1. CASE Matches(c, oid)
      <4>1. q = Append(c.queue, oid) /\ N = Append(M, oid)
        BY <2>5, <3>1 DEF q
      <4>2. c.queue \in Seq(Nat) /\ M \in Seq(Nat) /\ oid \in Nat
        BY <2>2, <2>6
      <4> QED  BY <2>8, <4>1, <4>2, EndsWithMore
    <3>2. CASE ~Matches(c, oid)
      <4>1. q = c.queue /\ N = M
        BY <2>5, <3>2 DEF q
      <4> QED  BY <4>1, <2>8
    <3> QED  BY <3>1, <3>2
  <2>10. Ready(d)
    BY <2>2, <2>4, <2>7, <2>9 DEF Ready, Alike
  <2>11. Handed(d) = Handed(c)
    BY <2>4, <2>7, <2>9 DEF Handed, M
  <2> QED  BY <2>1, <2>2, <2>4, <2>10, <2>11 DEF k
<1> QED  BY <1>1, <1>2

-------------------------------------------------------------------------------
(* Cursors: reading ahead.                                                  *)

\* The loop of prefetch().
Fetching(c, f) ==
  f = [T \in SUBSET (DOMAIN c.oids) |-> IF T = {} THEN c ELSE Fetch(f[T \ {Max(T)}])]
Fetched(c) == (CHOOSE f : Fetching(c, f))[DOMAIN c.oids]

\* prefetch() as the function that is chosen.
LEMMA FetchedChosen ==
  ASSUME NEW c
  PROVE  FoldLeft(LAMBDA d, oid : Fetch(d), c, c.oids) = Fetched(c)
BY DEF FoldLeft, MapThenFoldSet, Fetching, Fetched

\* What a cursor may become while it reads ahead.
Readings(c) == {d \in CursorRecords : Alike(c, d) /\ Ready(d) /\ Handed(d) = Handed(c)}

\* One turn of its loop.
LEMMA FetchReads ==
  ASSUME NEW c \in CursorRecords, NEW d \in Readings(c)
  PROVE  /\ Fetch(d) \in Readings(c)
         /\ \/ Fetch(d) = d /\ (Len(d.queue) >= prefetch_size \/ d.iter = Len(c.oids))
            \/ Fetch(d).iter = d.iter + 1
<1>1. d \in CursorRecords /\ Alike(c, d) /\ Ready(d) /\ Handed(d) = Handed(c)
  BY DEF Readings
<1> DEFINE e == Fetch(d)
<1>2. /\ e \in CursorRecords /\ Alike(d, e) /\ Ready(e) /\ Handed(e) = Handed(d)
      /\ \/ e = d /\ (Len(d.queue) >= prefetch_size \/ d.iter = Len(d.oids))
         \/ e.iter = d.iter + 1
  BY <1>1, FetchKeeps
<1> HIDE DEF e
<1>3. Alike(c, e) /\ Len(d.oids) = Len(c.oids)
  BY <1>1, <1>2 DEF Alike
<1>4. e \in Readings(c)
  BY <1>1, <1>2, <1>3 DEF Readings
<1> QED  BY <1>2, <1>3, <1>4 DEF e

\* It ends with a full queue, or at the end.
LEMMA FetchedReads ==
  ASSUME NEW c \in CursorRecords, Ready(c)
  PROVE  /\ Fetched(c) \in Readings(c)
         /\ Len(Fetched(c).queue) >= prefetch_size \/ Fetched(c).iter >= Len(c.oids)
<1> DEFINE N == Len(c.oids)
           V == Readings(c)
           H == [p \in (1..N) \X V |-> Fetch(p[2])]
<1>1. N \in Nat /\ DOMAIN c.oids = 1..N
  BY CursorParts
<1>2. c \in V
  BY DEF Readings, Alike
<1>3. \A v \in V : Fetch(v) \in V
  BY FetchReads
<1>4. H \in [(1..N) \X V -> V]
  <2> HIDE DEF N, V
  <2> QED  BY <1>3
<1>5. \A k \in 1..N, v \in V : H[<<k, v>>] = Fetch(v)
  OBVIOUS
<1> HIDE DEF H, V, N
<1>6. PICK f : Folds(N, V, c, H, f)
  BY <1>1, <1>2, <1>4, FoldExists
<1>7. f \in [SUBSET (1..N) -> V] /\ \A T \in SUBSET (1..N) : f[T] = Folded(T, c, H, f)
  BY <1>6 DEF Folds
<1>8. ASSUME NEW T \in SUBSET (1..N)
      PROVE  f[T] = IF T = {} THEN c ELSE Fetch(f[T \ {Max(T)}])
  <2>1. CASE T = {}
    BY <1>7, <2>1 DEF Folded
  <2>2. CASE T # {}
    <3>1. Max(T) \in T
      BY <1>1, <2>2, GreatestElement
    <3>2. Max(T) \in 1..N /\ f[T \ {Max(T)}] \in V
      BY <3>1, <1>7
    <3> QED  BY <1>7, <1>5, <2>2, <3>2 DEF Folded
  <2> QED  BY <2>1, <2>2
<1>9. Fetching(c, f)
  BY <1>1, <1>7, <1>8 DEF Fetching
<1> DEFINE g == CHOOSE h : Fetching(c, h)
<1>10. Fetching(c, g)
  BY <1>9
<1>11. Fetched(c) = g[1..N]
  BY <1>1 DEF Fetched
<1>12. \A T \in SUBSET (1..N) : g[T] = IF T = {} THEN c ELSE Fetch(g[T \ {Max(T)}])
  <2> HIDE DEF g
  <2> QED  BY <1>1, <1>10 DEF Fetching
<1> HIDE DEF g
<1> DEFINE Enough(d, k) == Len(d.queue) >= prefetch_size \/ d.iter >= k
           P == {k \in 0..N : g[1..k] \in V /\ Enough(g[1..k], k)}
<1>13. 0 \in P
  <2>1. 1..0 \in SUBSET (1..N) /\ 1..0 = {} /\ 0 \in 0..N
    BY <1>1, FoldStages
  <2>2. g[1..0] = c
    BY <1>12, <2>1
  <2>3. c.iter >= 0
    BY CursorParts
  <2> QED  BY <1>2, <2>1, <2>2, <2>3
<1>14. ASSUME NEW k \in 1..N, k - 1 \in P PROVE k \in P
  <2>1. 1..k \in SUBSET (1..N) /\ 1..k # {} /\ Max(1..k) = k /\ (1..k) \ {k} = 1..(k - 1)
    BY <1>1, FoldStages
  <2> DEFINE d == g[1..(k - 1)]
             e == g[1..k]
  <2>2. e = Fetch(d)
    BY <1>12, <2>1
  <2>3. d \in V /\ Enough(d, k - 1)
    BY <1>14
  <2> HIDE DEF d, e
  <2>4. e \in V
    BY <1>3, <2>2, <2>3
  <2>5. \/ e = d /\ (Len(d.queue) >= prefetch_size \/ d.iter = N)
        \/ e.iter = d.iter + 1
    <3>1. d \in Readings(c)
      BY <2>3 DEF V
    <3> QED  BY <3>1, <2>2, FetchReads DEF N
  <2>6. d.iter \in Nat /\ k \in Nat /\ k <= N /\ d.iter <= N
    <3>1. d \in CursorRecords /\ Alike(c, d) /\ Ready(d)
      BY <2>3 DEF V, Readings
    <3>2. d.iter \in Nat /\ d.iter <= N
      BY <3>1, CursorParts DEF Ready, Alike, N
    <3> QED  BY <3>2, <1>1
  <2>7. Enough(e, k)
    <3>1. CASE e = d /\ Len(d.queue) >= prefetch_size
      BY <3>1
    <3>2. CASE e = d /\ d.iter = N
      BY <3>2, <2>6
    <3>3. CASE e # d /\ e.iter = d.iter + 1
      <4>1. CASE d.iter >= k - 1
        BY <3>3, <4>1, <2>6
      <4>2. CASE Len(d.queue) >= prefetch_size
        <5>1. d \in CursorRecords
          BY <2>3 DEF V, Readings
        <5>2. Len(d.queue) \in Nat /\ ~(Len(d.queue) < prefetch_size)
          BY <4>2, <5>1, CursorParts, PrefetchAssumption
        <5>3. Fetch(d) = d
          BY <5>2 DEF Fetch
        <5> QED  BY <3>3, <5>3, <2>2
      <4> QED  BY <2>3, <4>1, <4>2
    <3>4. CASE e = d /\ e.iter = d.iter + 1
      BY <3>4, <2>6
    <3> QED  BY <2>5, <3>1, <3>2, <3>3, <3>4
  <2> QED  BY <1>1, <2>4, <2>7 DEF e
<1>15. 0..N \subseteq P
  <2> HIDE DEF P
  <2> QED  BY <1>1, <1>13, <1>14, CountUp
<1>16. N \in P
  BY <1>1, <1>15
<1> QED  BY <1>11, <1>16 DEF V, N

\* A queue is only empty when the features are used up.
LEMMA PrefetchReads ==
  ASSUME NEW c \in CursorRecords, Ready(c)
  PROVE  /\ Prefetch(c) \in Readings(c)
         /\ c.has_store /\ Prefetch(c).queue = <<>> => Prefetch(c).iter = Len(c.oids)
<1>1. CASE ~c.has_store \/ Len(c.queue) > 1
  <2>1. Prefetch(c) = c
    BY <1>1 DEF Prefetch
  <2>2. c \in Readings(c)
    BY DEF Readings, Alike
  <2>3. Len(c.queue) > 1 => c.queue # <<>>
    OBVIOUS
  <2> QED  BY <1>1, <2>1, <2>2, <2>3
<1>2. CASE ~(~c.has_store \/ Len(c.queue) > 1)
  <2> DEFINE d == Fetched(c)
  <2>1. Prefetch(c) = d
    BY <1>2, FetchedChosen DEF Prefetch
  <2>2. d \in Readings(c) /\ (Len(d.queue) >= prefetch_size \/ d.iter >= Len(c.oids))
    BY FetchedReads
  <2> HIDE DEF d
  <2>3. d \in CursorRecords /\ Alike(c, d) /\ Ready(d)
    BY <2>2 DEF Readings
  <2>4. d.queue = <<>> => d.iter = Len(c.oids)
    <3>1. d.iter <= Len(c.oids) /\ d.iter \in Nat /\ Len(c.oids) \in Nat
      BY <2>3, CursorParts DEF Ready, Alike
    <3>2. d.queue = <<>> => ~(Len(d.queue) >= prefetch_size)
      BY PrefetchAssumption
    <3> QED  BY <3>1, <3>2, <2>2
  <2> QED  BY <2>1, <2>2, <2>4
<1> QED  BY <1>1, <1>2

-------------------------------------------------------------------------------
(* Cursors: next() and reset().                                             *)

\* A cursor that was opened: nothing is left when its queue is empty.
Opened(c) == c \in CursorRecords /\ c.has_store /\ Ready(c) /\ (c.queue = <<>> => c.iter = Len(c.oids))

\* The features a cursor is to give.
All(c) == Matching(c, Len(c.oids))

\* Reading ahead does not show.
LEMMA ReadAhead ==
  ASSUME NEW c \in CursorRecords, c.has_store, Ready(c)
  PROVE  LET d == Prefetch(c) IN
         Opened(d) /\ d.oids = c.oids /\ All(d) = All(c) /\ d.last = c.last /\ Handed(d) = Handed(c)
<1> DEFINE d == Prefetch(c)
<1>1. d \in Readings(c) /\ (d.queue = <<>> => d.iter = Len(c.oids))
  BY PrefetchReads
<1> HIDE DEF d
<1>2. d \in CursorRecords /\ Alike(c, d) /\ Ready(d) /\ Handed(d) = Handed(c)
  BY <1>1 DEF Readings
<1>3. d.oids = c.oids /\ d.has_store /\ d.last = c.last
  BY <1>2 DEF Alike
<1>4. All(d) = All(c)
  BY <1>2, <1>3, AlikeMatch DEF All
<1> QED  BY <1>1, <1>2, <1>3, <1>4 DEF Opened, d

\* at_bof tells nothing of what is read.
LEMMA SetAtBof ==
  ASSUME NEW c, Opened(c), NEW b \in BOOLEAN
  PROVE  LET d == [c EXCEPT !.at_bof = b] IN
         Opened(d) /\ d.oids = c.oids /\ All(d) = All(c) /\ d.last = c.last /\ Handed(d) = Handed(c)
<1> DEFINE d == [c EXCEPT !.at_bof = b]
<1>1. c \in CursorRecords /\ c.has_store /\ Ready(c) /\ (c.queue = <<>> => c.iter = Len(c.oids))
  BY DEF Opened
<1>2. /\ d \in CursorRecords
      /\ d.oids = c.oids /\ d.has_store = c.has_store /\ d.search_extent = c.search_extent
      /\ d.match_exactly = c.match_exactly /\ d.last = c.last /\ d.queue = c.queue /\ d.iter = c.iter
  BY <1>1 DEF CursorRecords
<1> HIDE DEF d
<1>3. \A k : Matching(d, k) = Matching(c, k)
  BY <1>2 DEF Matching, Matches
<1> QED  BY <1>1, <1>2, <1>3 DEF Opened, Ready, All, Handed, d

\* A cursor that stands elsewhere.
Standing(c, b, i, q, l) == [c EXCEPT !.at_bof = b, !.iter = i, !.queue = q, !.last = l]

\* A cursor that is put somewhere else is over the same features.
LEMMA SetReading ==
  ASSUME NEW c \in CursorRecords, c.has_store, NEW i \in Nat, NEW q \in Seq(Nat), NEW l \in Nat \cup {Null},
         NEW b \in BOOLEAN
  PROVE  LET d == Standing(c, b, i, q, l) IN
         /\ d \in CursorRecords /\ d.has_store /\ d.oids = c.oids /\ d.last = l /\ d.iter = i /\ d.queue = q
         /\ \A k : Matching(d, k) = Matching(c, k)
<1> DEFINE d == Standing(c, b, i, q, l)
<1>2. /\ d \in CursorRecords
      /\ d.oids = c.oids /\ d.has_store = c.has_store /\ d.search_extent = c.search_extent
      /\ d.match_exactly = c.match_exactly /\ d.last = l /\ d.queue = q /\ d.iter = i
  BY DEF CursorRecords, Standing
<1> HIDE DEF d
<1>3. \A k : Matching(d, k) = Matching(c, k)
  BY <1>2 DEF Matching, Matches
<1> QED  BY <1>2, <1>3 DEF d

\* Without its first, the queue holds the last of them still.
LEMMA EndsShorter ==
  ASSUME NEW M \in Seq(Nat), NEW s \in Seq(Nat), EndsIn(s, M), s # <<>>
  PROVE  EndsIn(Tail(s), M) /\ Len(M) - Len(Tail(s)) = Len(M) - Len(s) + 1
         /\ Len(M) - Len(s) + 1 \in 1..Len(M) /\ Head(s) = M[Len(M) - Len(s) + 1]
<1> DEFINE q == Tail(s)
<1>0. Len(s) <= Len(M) /\ \A x \in 1..Len(s) : s[x] = M[Len(M) - Len(s) + x]
  BY DEF EndsIn
<1>1. /\ Len(s) \in Nat \ {0} /\ Len(M) \in Nat /\ Len(q) = Len(s) - 1
      /\ \A x \in 1..Len(q) : q[x] = s[x + 1]
      /\ Head(s) = s[1]
  OBVIOUS
<1> HIDE DEF q
<1>2. ASSUME NEW x \in 1..Len(q) PROVE q[x] = M[Len(M) - Len(q) + x]
  <2>1. x + 1 \in 1..Len(s) /\ Len(M) - Len(q) + x = Len(M) - Len(s) + (x + 1)
    BY <1>1
  <2> QED  BY <1>0, <1>1, <2>1
<1>3. Len(q) <= Len(M) /\ Len(M) - Len(q) = Len(M) - Len(s) + 1 /\ Len(M) - Len(s) + 1 \in 1..Len(M)
      /\ 1 \in 1..Len(s)
  BY <1>0, <1>1
<1>4. EndsIn(q, M)
  BY ONLY <1>2, <1>3 DEF EndsIn
<1>5. Head(s) = M[Len(M) - Len(s) + 1]
  BY ONLY <1>0, <1>1, <1>3
<1> QED  BY <1>3, <1>4, <1>5 DEF q

\* The next feature is the one after those that were handed out.
LEMMA NextIsNext ==
  ASSUME NEW c, Opened(c)
  PROVE  LET d == NextFeature(c) IN
         /\ Opened(d) /\ d.oids = c.oids /\ All(d) = All(c)
         /\ \/ Handed(c) < Len(All(c)) /\ Handed(d) = Handed(c) + 1 /\ d.last = All(c)[Handed(c) + 1]
            \/ Handed(c) = Len(All(c)) /\ Handed(d) = Handed(c) /\ d.last = Null
<1> DEFINE l == IF c.queue = <<>> THEN Null ELSE Head(c.queue)
           q == IF c.queue = <<>> THEN c.queue ELSE Tail(c.queue)
           e == Standing(c, FALSE, c.iter, q, l)
           d == NextFeature(c)
           M == Matching(c, c.iter)
<1>1. c \in CursorRecords /\ c.has_store /\ Ready(c) /\ (c.queue = <<>> => c.iter = Len(c.oids))
  BY DEF Opened
<1>2. /\ c.oids \in Seq(Nat) /\ c.queue \in Seq(Nat) /\ c.iter \in 0..Len(c.oids) /\ c.iter \in Nat
      /\ Len(c.oids) \in Nat /\ Len(c.queue) \in Nat
  BY <1>1, CursorParts DEF Ready
<1>3. M \in Seq(Nat) /\ EndsIn(c.queue, M)
  BY <1>1, <1>2, MatchingGrows DEF Ready
<1>4. /\ Len(M) \in Nat /\ Len(All(c)) \in Nat /\ Len(M) <= Len(All(c))
      /\ \A i \in 1..Len(M) : All(c)[i] = M[i]
  BY <1>2, MatchingBegins DEF All
<1>5. Handed(c) = Len(M) - Len(c.queue)
  BY DEF Handed
<1> HIDE DEF M
<1>6. d = Prefetch(e)
  <2>1. [c EXCEPT !.at_bof = FALSE, !.last = l, !.queue = q] = e
    BY <1>1 DEF CursorRecords, Standing
  <2>2. d = Prefetch([c EXCEPT !.at_bof = FALSE, !.last = l, !.queue = q])
    BY DEF NextFeature
  <2> QED  BY <2>1, <2>2
<1>7. q \in Seq(Nat) /\ l \in Nat \cup {Null}
  BY <1>2
<1>8. /\ EndsIn(q, M)
      /\ \/ c.queue # <<>> /\ Len(M) - Len(q) = Len(M) - Len(c.queue) + 1
            /\ Len(M) - Len(c.queue) + 1 \in 1..Len(M) /\ l = M[Len(M) - Len(c.queue) + 1]
         \/ c.queue = <<>> /\ q = c.queue /\ l = Null
  <2>1. CASE c.queue # <<>>
    <3>1. EndsIn(Tail(c.queue), M) /\ Len(M) - Len(Tail(c.queue)) = Len(M) - Len(c.queue) + 1
         /\ Len(M) - Len(c.queue) + 1 \in 1..Len(M) /\ Head(c.queue) = M[Len(M) - Len(c.queue) + 1]
      BY <1>2, <1>3, <2>1, EndsShorter
    <3>2. q = Tail(c.queue) /\ l = Head(c.queue)
      BY <2>1
    <3> HIDE DEF q, l
    <3> QED  BY <2>1, <3>1, <3>2
  <2>2. CASE c.queue = <<>>
    BY <1>3, <2>2
  <2> QED  BY <2>1, <2>2
<1> HIDE DEF q, l, d
<1>9. /\ e \in CursorRecords /\ e.has_store /\ e.oids = c.oids /\ e.last = l /\ e.iter = c.iter /\ e.queue = q
      /\ \A k : Matching(e, k) = Matching(c, k)
  <2> DEFINE b == FALSE
             i == c.iter
             x == Standing(c, b, i, q, l)
  <2>1. i \in Nat /\ b \in BOOLEAN /\ e = x
    BY <1>2 DEF e
  <2> HIDE DEF b, i
  <2>2. /\ x \in CursorRecords /\ x.has_store /\ x.oids = c.oids /\ x.last = l /\ x.iter = i /\ x.queue = q
        /\ \A k : Matching(x, k) = Matching(c, k)
    BY <1>1, <1>7, <2>1, SetReading
  <2> QED  BY <2>1, <2>2 DEF i
<1> HIDE DEF e
<1>10. Ready(e)
  BY <1>1, <1>8, <1>9 DEF Ready, M
<1>11. Opened(d) /\ d.oids = e.oids /\ All(d) = All(e) /\ d.last = e.last /\ Handed(d) = Handed(e)
  BY <1>6, <1>9, <1>10, ReadAhead
<1>12. All(e) = All(c) /\ Handed(e) = Len(M) - Len(q)
  BY <1>9 DEF All, Handed, M
<1>13. Opened(d) /\ d.oids = c.oids /\ All(d) = All(c) /\ d.last = l /\ Handed(d) = Len(M) - Len(q)
  BY <1>9, <1>11, <1>12
<1>14. CASE c.queue # <<>>
  <2>1. Handed(d) = Handed(c) + 1 /\ Handed(c) + 1 \in 1..Len(M) /\ l = M[Handed(c) + 1]
    BY <1>5, <1>8, <1>13, <1>14
  <2>2. Handed(c) < Len(All(c)) /\ l = All(c)[Handed(c) + 1]
    <3>1. All(c)[Handed(c) + 1] = M[Handed(c) + 1]
      BY ONLY <2>1, <1>4
    <3>2. Handed(c) \in Int
      BY ONLY <1>5, <1>4, <1>2
    <3>3. Handed(c) < Len(All(c))
      BY ONLY <2>1, <3>2, <1>4
    <3> QED  BY ONLY <2>1, <3>1, <3>3
  <2> QED  BY <1>13, <2>1, <2>2 DEF d
<1>15. CASE c.queue = <<>>
  <2>1. q = c.queue /\ l = Null /\ Len(c.queue) = 0
    BY <1>8, <1>15
  <2>2. M = All(c)
    BY <1>1, <1>15 DEF M, All
  <2>3. Handed(c) = Len(All(c)) /\ Handed(d) = Handed(c)
    BY <1>5, <1>13, <1>4, <2>1, <2>2
  <2> QED  BY <1>13, <2>1, <2>3 DEF d
<1> QED  BY <1>14, <1>15

\* A cursor that starts over has nothing read ahead.
LEMMA StartOver ==
  ASSUME NEW c \in CursorRecords, c.has_store
  PROVE  LET d == [Prefetch([c EXCEPT !.iter = 0, !.queue = <<>>, !.last = Null]) EXCEPT !.at_bof = TRUE] IN
         Opened(d) /\ d.oids = c.oids /\ All(d) = All(c) /\ d.last = Null /\ Handed(d) = 0
<1> DEFINE e == Standing(c, c.at_bof, 0, <<>>, Null)
           f == Prefetch(e)
           d == [f EXCEPT !.at_bof = TRUE]
<1>1. [c EXCEPT !.iter = 0, !.queue = <<>>, !.last = Null] = e
  BY DEF CursorRecords, Standing
<1>2. /\ e \in CursorRecords /\ e.has_store /\ e.oids = c.oids /\ e.last = Null /\ e.iter = 0 /\ e.queue = <<>>
      /\ \A k : Matching(e, k) = Matching(c, k)
  <2>1. c.at_bof \in BOOLEAN /\ 0 \in Nat /\ <<>> \in Seq(Nat) /\ Null \in Nat \cup {Null}
    BY CursorParts
  <2> DEFINE b == c.at_bof
             i == 0
             q == <<>>
             l == Null
             x == Standing(c, b, i, q, l)
  <2>2. b \in BOOLEAN /\ i \in Nat /\ q \in Seq(Nat) /\ l \in Nat \cup {Null} /\ e = x
    BY <2>1
  <2> HIDE DEF b, i, q, l, e
  <2>3. /\ x \in CursorRecords /\ x.has_store /\ x.oids = c.oids /\ x.last = l /\ x.iter = i /\ x.queue = q
        /\ \A k : Matching(x, k) = Matching(c, k)
    BY <2>2, SetReading
  <2> QED  BY <2>2, <2>3 DEF i, q, l
<1> HIDE DEF e
<1>3. c.oids \in Seq(Nat) /\ Len(c.oids) \in Nat
  BY CursorParts
<1>4. Matching(e, 0) = <<>>
  BY <1>2, <1>3, MatchingGrows
<1>5. Ready(e) /\ Handed(e) = 0 /\ All(e) = All(c)
  <2>1. EndsIn(<<>>, <<>>)
    BY DEF EndsIn
  <2> QED  BY <1>2, <1>3, <1>4, <2>1 DEF Ready, Handed, All
<1>6. Opened(f) /\ f.oids = e.oids /\ All(f) = All(e) /\ f.last = e.last /\ Handed(f) = Handed(e)
  BY <1>2, <1>5, ReadAhead
<1> HIDE DEF f
<1>7. Opened(d) /\ d.oids = f.oids /\ All(d) = All(f) /\ d.last = f.last /\ Handed(d) = Handed(f)
  BY <1>6, SetAtBof
<1> HIDE DEF d
<1>8. Opened(d) /\ d.oids = c.oids /\ All(d) = All(c) /\ d.last = Null /\ Handed(d) = 0
  BY <1>2, <1>5, <1>6, <1>7
<1> QED  BY <1>1, <1>8 DEF d, f

\* reset() starts over, and does nothing to a cursor that is at the start.
LEMMA ResetStartsOver ==
  ASSUME NEW c, Opened(c)
  PROVE  LET d == ResetCursor(c) IN
         Opened(d) /\ d.oids = c.oids /\ All(d) = All(c) /\ (d = c \/ (d.last = Null /\ Handed(d) = 0))
<1>1. c \in CursorRecords /\ c.has_store
  BY DEF Opened
<1>2. CASE c.at_bof
  BY <1>2 DEF ResetCursor
<1>3. CASE ~c.at_bof
  <2>1. ResetCursor(c) = [Prefetch([c EXCEPT !.iter = 0, !.queue = <<>>, !.last = Null]) EXCEPT !.at_bof = TRUE]
    BY <1>3 DEF ResetCursor
  <2> QED  BY <1>1, <2>1, StartOver
<1> QED  BY <1>2, <1>3

\* A new cursor has given nothing.
LEMMA NewIsOpened ==
  ASSUME NEW oids \in Seq(Nat), NEW extent \in GeoExtents, NEW exact \in BOOLEAN
  PROVE  LET d == NewCursor(oids, extent, exact) IN
         Opened(d) /\ d.oids = oids /\ d.last = Null /\ Handed(d) = 0
<1> DEFINE c == [NoCursor EXCEPT !.oids = oids, !.has_store = TRUE,
                                 !.search_extent = extent, !.match_exactly = exact]
<1>1. c \in CursorRecords /\ c.has_store /\ c.oids = oids /\ ~c.at_bof
  BY NoCursorIs DEF NoCursor, CursorRecords
<1>2. NewCursor(oids, extent, exact) = ResetCursor(c)
  BY DEF NewCursor
<1> HIDE DEF c
<1>3. ResetCursor(c) = [Prefetch([c EXCEPT !.iter = 0, !.queue = <<>>, !.last = Null]) EXCEPT !.at_bof = TRUE]
  BY <1>1 DEF ResetCursor
<1> QED  BY <1>1, <1>2, <1>3, StartOver

\* A cursor that was not opened has nothing to give.
LEMMA ClosedIsNothing == All(NoCursor) = <<>> /\ Handed(NoCursor) = 0 /\ Items(NoCursor) = <<>>
<1>1. NoCursor.oids = <<>> /\ NoCursor.oids \in Seq(Nat) /\ NoCursor.iter = 0 /\ NoCursor.queue = <<>> /\ ~NoCursor.has_store
  BY NoCursorIs
<1>2. Matching(NoCursor, 0) = <<>>
  BY <1>1, MatchingGrows
<1> QED  BY <1>1, <1>2 DEF All, Handed, Items

-------------------------------------------------------------------------------
(* The inductive invariant of the threads and of the file.                  *)

\* The extent of a row.
RowExtent(st, i) == Extent(LoadFeature(st.layer, st.rows[i]))

\* The tree has an entry for each row that has an extent.
Fitting(st, tree, built) ==
  /\ SoundTree(tree)
  /\ \A e : e \in LeafEntries(tree) <=>
        \E i \in DOMAIN st.rows : RowExtent(st, i) \in Boxes /\ e = Entry(Kept(RowExtent(st, i), built), i)

\* If no node is missing, a walk of the tree ends.
Tame(tree) == IsWhole(tree) => \E h : \E B \in Nat : Walkable(tree, h, B)

\* An index of the program's store fits what that holds.
Trusted(x) == Tame(x.tree) /\ (x.of # Null /\ x.of.store = prog.store => Fitting(store[prog.store], x.tree, x.built))

\* What a thread looks up in a tree.
Asks(q) == q \in GeoExtents /\ ~q.is_infinite

\* A thread's record, its cursor and the index of the program.
ThreadOk(r, c, x) ==
  /\ r.pc = "use" => Trusted(x)
  /\ r.pc \in {"save", "install", "find"} => Trusted(r.index)
  /\ r.pc = "save" => Fitting(store[prog.store], r.index.tree, TRUE)
  /\ r.pc \notin {"idle", "read"} => Asks(r.query)
  /\ r.pc = "read" => Opened(c)
  /\ r.pc # "read" => c = NoCursor
  /\ r.pc = "read" /\ r.index # Null =>
        Trusted(r.index) /\ Asks(r.query) /\ IsWhole(r.index.tree) /\ c.oids = Find(r.index.tree, r.query)

\* What the threads have.
ThreadsInv ==
  /\ cursor \in [Threads -> CursorRecords]
  /\ index # Null => Trusted(index)
  /\ \A t \in Threads : ThreadOk(thread[t], cursor[t], index)

\* What is left in the file of a tree, and what the tree fits.
LeftOf(f, t) ==
  /\ SoundTree(t)
  /\ f.torn => \E k \in 0..Len(t.nodes) : f.text.lines = SubSeq(t.nodes, 1, k)
  /\ ~f.torn => /\ \E x : f.text = WriteTo(t, x)
                /\ f.of = Of(f.of.store) => Fitting(store[f.of.store], t, TRUE)

\* What is in the saved index.
FileInv ==
  file # Null =>
    /\ file.of.writes <= store[file.of.store].writes
    /\ prog.mode = "write" /\ file.of.store = prog.store => file.of.writes < store[file.of.store].writes
    /\ file.text # Null => \E t : LeftOf(file, t)

-------------------------------------------------------------------------------
\* A cursor depends on the store alone.
LEMMA OpenedStays ==
  ASSUME UNCHANGED <<store, prog>>, NEW c
  PROVE  Opened(c)' <=> Opened(c)
BY DEF Opened, Ready, Matching, Matches, GetFeature

\* So does an index.
LEMMA TrustedStays ==
  ASSUME UNCHANGED <<store, prog>>, NEW x
  PROVE  Trusted(x)' <=> Trusted(x)
BY DEF Trusted

\* And so does what a thread has.
LEMMA OkStays ==
  ASSUME UNCHANGED <<store, prog>>, NEW r, NEW c, NEW x
  PROVE  ThreadOk(r, c, x)' <=> ThreadOk(r, c, x)
BY OpenedStays, TrustedStays DEF ThreadOk

\* A cursor that was opened is one.
LEMMA OpenedIs == ASSUME NEW c, Opened(c) PROVE c \in CursorRecords
BY DEF Opened

\* The cursor of a thread is one.
LEMMA OkCursor == 
  ASSUME NEW r, NEW c, NEW x, ThreadOk(r, c, x)
  PROVE  c \in CursorRecords
BY NoCursorIs DEF ThreadOk, Opened

\* Where one thread moves, and the index becomes x.
LEMMA OkMoves ==
  ASSUME IInv, ThreadsInv, UNCHANGED <<store, prog>>, NEW t \in Threads, NEW r, NEW c, NEW x,
         thread' = [thread EXCEPT ![t] = r], cursor' = [cursor EXCEPT ![t] = c], index' = x,
         x = index \/ Trusted(x), ThreadOk(r, c, x)
  PROVE  ThreadsInv'
<1>1. PICK D : thread \in ThreadRecords(D)
  BY DEF IInv, RecordsInv
<1>2. cursor \in [Threads -> CursorRecords] /\ (index # Null => Trusted(index))
      /\ \A u \in Threads : ThreadOk(thread[u], cursor[u], index)
  BY DEF ThreadsInv
<1>3. \A u \in Threads : /\ thread'[u] = IF u = t THEN r ELSE thread[u]
                         /\ cursor'[u] = IF u = t THEN c ELSE cursor[u]
  BY <1>1, <1>2 DEF ThreadRecords
<1>4. cursor' \in [Threads -> CursorRecords]
  <2>1. c \in CursorRecords
    BY OkCursor
  <2> QED  BY <2>1, <1>2
<1>5. ASSUME NEW u \in Threads PROVE ThreadOk(thread'[u], cursor'[u], x)
  <2>1. CASE u = t
    BY <2>1, <1>3
  <2>2. CASE u # t
    <3>1. thread'[u] = thread[u] /\ cursor'[u] = cursor[u] /\ ThreadOk(thread[u], cursor[u], index)
      BY <2>2, <1>2, <1>3
    <3>2. ThreadOk(thread[u], cursor[u], x)
      BY <3>1 DEF ThreadOk
    <3> QED  BY <3>1, <3>2
  <2> QED  BY <2>1, <2>2
<1>6. ASSUME NEW u \in Threads PROVE ThreadOk(thread[u], cursor[u], index)'
  <2> SUFFICES ASSUME NEW a, NEW b, a = thread'[u], b = cursor'[u] PROVE ThreadOk(a, b, x)'
    BY DEF ThreadOk
  <2>1. ThreadOk(a, b, x)
    BY <1>5
  <2> QED  BY <2>1, OkStays
<1>7. (index # Null => Trusted(index))'
  <2>1. x # Null => Trusted(x)
    BY <1>2
  <2>2. x # Null => Trusted(x)'
    BY <2>1, TrustedStays
  <2> QED  BY <2>2 DEF Trusted
<1> QED  BY <1>4, <1>6, <1>7 DEF ThreadsInv

-------------------------------------------------------------------------------
(* The threads' actions keep it.                                            *)

\* A step that leaves what the threads have.
LEMMA NothingMoves ==
  ASSUME ThreadsInv, UNCHANGED <<store, prog, thread, cursor, index>>
  PROVE  ThreadsInv'
<1>1. cursor \in [Threads -> CursorRecords] /\ (index # Null => Trusted(index))
      /\ \A u \in Threads : ThreadOk(thread[u], cursor[u], index)
  BY DEF ThreadsInv
<1>2. ASSUME NEW u \in Threads PROVE ThreadOk(thread[u], cursor[u], index)'
  <2> SUFFICES ASSUME NEW a, NEW b, NEW x, a = thread'[u], b = cursor'[u], x = index'
               PROVE  ThreadOk(a, b, x)'
    BY DEF ThreadOk
  <2>1. ThreadOk(a, b, x)
    BY <1>1
  <2> QED  BY <2>1, OkStays
<1>3. (index # Null => Trusted(index))'
  <2> SUFFICES ASSUME NEW x, x = index', x # Null PROVE Trusted(x)'
    BY DEF Trusted
  <2>1. Trusted(x)
    BY <1>1
  <2> QED  BY <2>1, TrustedStays
<1> QED  BY <1>1, <1>2, <1>3 DEF ThreadsInv

\* When no program reads, it does not matter to threads what happens.
LEMMA NobodyReads ==
  ASSUME IInv, ThreadsInv, prog.mode # "read", UNCHANGED <<thread, cursor, index>>
  PROVE  ThreadsInv'
<1>1. index = Null /\ \A u \in Threads : thread[u].pc = "idle"
  BY DEF IInv, ProgramInv
<1>2. cursor \in [Threads -> CursorRecords] /\ \A u \in Threads : ThreadOk(thread[u], cursor[u], index)
  BY DEF ThreadsInv
<1>3. \A u \in Threads : cursor[u] = NoCursor
  BY <1>1, <1>2 DEF ThreadOk
<1>4. ASSUME NEW u \in Threads PROVE ThreadOk(thread[u], cursor[u], index)'
  BY <1>1, <1>3 DEF ThreadOk
<1> QED  BY <1>1, <1>2, <1>4 DEF ThreadsInv

\* The program stops, and its threads with it.
LEMMA StopThreads == ASSUME ThreadsInv, StopProgram PROVE ThreadsInv'
<1>1. index' = Null /\ cursor' = [t \in Threads |-> NoCursor] /\ thread' = [t \in Threads |-> Idle]
  BY DEF StopProgram
<1>2. Idle.pc = "idle"
  BY DEF Idle
<1>3. ASSUME NEW u \in Threads PROVE ThreadOk(thread[u], cursor[u], index)'
  BY <1>1, <1>2 DEF ThreadOk
<1>4. cursor' \in [Threads -> CursorRecords]
  BY <1>1, NoCursorIs
<1> QED  BY <1>1, <1>3, <1>4 DEF ThreadsInv

\* A cursor that does not change, as OkMoves has it.
LEMMA SameCursor ==
  ASSUME ThreadsInv, NEW t \in Threads, UNCHANGED cursor
  PROVE  cursor' = [cursor EXCEPT ![t] = cursor[t]]
BY DEF ThreadsInv

\* What a thread has.
LEMMA OkNow ==
  ASSUME ThreadsInv, NEW t \in Threads
  PROVE  ThreadOk(thread[t], cursor[t], index) /\ cursor \in [Threads -> CursorRecords]
         /\ (index # Null => Trusted(index))
BY DEF ThreadsInv

\* The numbers of the rows.
LEMMA AllRowsSeq ==
  ASSUME WrittenInv, NEW s \in Stores
  PROVE  AllRows(s) \in Seq(Nat) /\ Len(AllRows(s)) = Rows(s)
<1>1. Rows(s) \in Nat /\ DOMAIN store[s].rows = 1..Rows(s)
  BY RowExtents
<1>2. AllRows(s) = [i \in 1..Rows(s) |-> i]
  BY <1>1 DEF AllRows
<1>3. AllRows(s) \in [1..Rows(s) -> Nat]
  BY <1>1, <1>2
<1> QED  BY <1>1, <1>3, FunctionIsSeq

\* A query is asked.
LEMMA AskThreads ==
  ASSUME IInv, WrittenInv, ThreadsInv, NEW t \in Threads, NEW q \in Queries, Ask(t, q)
  PROVE  ThreadsInv'
<1>1. /\ thread[t].pc = "idle" /\ prog.mode = "read" /\ UNCHANGED <<store, prog>> /\ index' = index
      /\ q \in GeoExtents /\ q.is_infinite \in BOOLEAN
  BY QueriesAssumption, ExtentParts DEF Ask
<1>2. ThreadOk(thread[t], cursor[t], index) /\ cursor[t] = NoCursor
  BY <1>1, OkNow DEF ThreadOk
<1>3. CASE q.is_infinite
  <2> DEFINE c == NewCursor(AllRows(prog.store), Infinite, FALSE)
             r == [Idle EXCEPT !.pc = "read", !.query = q]
  <2>1. cursor' = [cursor EXCEPT ![t] = c] /\ thread' = [thread EXCEPT ![t] = r]
    BY <1>3 DEF Ask
  <2>2. Opened(c)
    <3>1. AllRows(prog.store) \in Seq(Nat)
      BY <1>1, AllRowsSeq DEF IInv, ProgramInv
    <3>2. Infinite \in GeoExtents /\ FALSE \in BOOLEAN
      BY InvalidIs DEF Infinite, GeoExtents
    <3> QED  BY <3>1, <3>2, NewIsOpened
  <2>3. r.pc = "read" /\ r.index = Null
    BY DEF Idle
  <2> HIDE DEF c, r
  <2>4. ThreadOk(r, c, index)
    BY <2>2, <2>3 DEF ThreadOk
  <2> QED  BY <1>1, <2>1, <2>4, OkMoves
<1>4. CASE ~q.is_infinite
  <2> DEFINE c == cursor[t]
             r == [Idle EXCEPT !.pc = "assert", !.query = q]
  <2>1. cursor' = [cursor EXCEPT ![t] = c] /\ thread' = [thread EXCEPT ![t] = r]
    BY <1>4, SameCursor DEF Ask
  <2>2. r.pc = "assert" /\ r.query = q /\ Asks(q)
    BY <1>1, <1>4 DEF Idle, Asks
  <2> HIDE DEF r
  <2>3. ThreadOk(r, c, index)
    BY <1>2, <2>2 DEF ThreadOk
  <2> HIDE DEF c
  <2> QED  BY <1>1, <2>1, <2>3, OkMoves
<1> QED  BY <1>1, <1>3, <1>4

\* A thread looks for the index, and takes the lock.
LEMMA AssertThreads ==
  ASSUME IInv, ThreadsInv, NEW t \in Threads, AssertIndex(t)
  PROVE  ThreadsInv'
<1>1. PICK D : thread \in ThreadRecords(D)
  BY DEF IInv, RecordsInv
<1>2. PICK pc \in {"use", "lock", "make"} : Step(t, pc) /\ (pc = "use" => index # Null)
  BY DEF AssertIndex
<1>3. thread[t].pc \in {"assert", "lock"} /\ UNCHANGED <<store, prog>> /\ UNCHANGED cursor /\ index' = index
  BY DEF AssertIndex
<1> DEFINE c == cursor[t]
           r == [thread[t] EXCEPT !.pc = pc]
<1>4. thread' = [thread EXCEPT ![t] = r] /\ r.pc = pc /\ r.query = thread[t].query
  BY <1>1, <1>2 DEF Step, ThreadRecords, ThreadRecord
<1>5. cursor' = [cursor EXCEPT ![t] = c]
  BY <1>3, SameCursor
<1>6. ThreadOk(r, c, index)
  <2>1. ThreadOk(thread[t], c, index) /\ (index # Null => Trusted(index))
    BY OkNow
  <2> HIDE DEF r, c
  <2> QED  BY <1>2, <1>3, <1>4, <2>1 DEF ThreadOk
<1> HIDE DEF r, c
<1> QED  BY <1>3, <1>4, <1>5, <1>6, OkMoves

\* What is made is an index that fits.
LEMMA MadeThreads ==
  ASSUME IInv, ThreadsInv, NEW t \in Threads, thread[t].pc = "make", NEW made, NEW of,
         NEW pc \in {"save", "install"}, NEW built, Made(t, made, of, pc, built),
         UNCHANGED <<store, prog>>, UNCHANGED cursor, index' = index,
         Tame(made.tree), of # Null /\ of.store = prog.store => Fitting(store[prog.store], made.tree, built),
         pc = "save" => Fitting(store[prog.store], made.tree, TRUE)
  PROVE  ThreadsInv'
<1>1. PICK D : thread \in ThreadRecords(D)
  BY DEF IInv, RecordsInv
<1> DEFINE c == cursor[t]
           x == [id |-> t, tree |-> made.tree, extent |-> made.extent, of |-> of, built |-> built]
           r == [thread[t] EXCEPT !.pc = pc, !.index = x]
<1>2. x.of = of /\ x.tree = made.tree /\ x.built = built
  OBVIOUS
<1>3. thread' = [thread EXCEPT ![t].pc = pc, ![t].index = x]
  BY DEF Made
<1> HIDE DEF x
<1>4. thread' = [thread EXCEPT ![t] = r] /\ r.pc = pc /\ r.index = x /\ r.query = thread[t].query
  BY <1>1, <1>3 DEF ThreadRecords, ThreadRecord
<1>5. cursor' = [cursor EXCEPT ![t] = c]
  BY SameCursor
<1>6. ThreadOk(r, c, index)
  <2>1. ThreadOk(thread[t], c, index)
    BY OkNow
  <2>2. Trusted(x)
    BY <1>2 DEF Trusted
  <2> HIDE DEF r, c
  <2>3. c = NoCursor /\ Asks(r.query)
    BY <1>4, <2>1 DEF ThreadOk
  <2> QED  BY <1>2, <1>4, <2>2, <2>3 DEF ThreadOk
<1> HIDE DEF r, c
<1> QED  BY <1>4, <1>5, <1>6, OkMoves

\* A tree as it should be is walked to an end.
LEMMA SoundIsTame == ASSUME NEW tree, SoundTree(tree) PROVE Tame(tree)
BY SoundWalks DEF SoundTree, Tame

\* An index is made: it fits the store.
LEMMA BuildThreads ==
  ASSUME IInv, WrittenInv, ThreadsInv, NEW t \in Threads, BuildIndex(t)
  PROVE  ThreadsInv'
<1> DEFINE pc == IF HasWorkDirectory THEN "save" ELSE "install"
           s == prog.store
           tree == BuildTree(s).tree
           n == Rows(s)
<1>1. thread[t].pc = "make" /\ UNCHANGED <<store, prog>> /\ UNCHANGED cursor /\ index' = index
      /\ Made(t, BuildTree(s), Of(s), pc, TRUE)
  BY DEF BuildIndex
<1>2. pc \in {"save", "install"}
  OBVIOUS
<1>3. s \in Stores
  BY <1>1, Reading DEF IInv, ProgramInv
<1> HIDE DEF pc, s
<1>4. n \in Nat /\ DOMAIN store[s].rows = 1..n /\ \A i \in 1..n : Ext(s, i) \in MaybeBoxes
  BY <1>3, RowExtents
<1> HIDE DEF n
<1>5. /\ SoundTree(tree)
      /\ \A e : e \in LeafEntries(tree) <=> \E i \in 1..n : Ext(s, i) \in Boxes /\ e = Entry(Given(Ext(s, i)), i)
  BY <1>4, BuiltTree
<1>6. \A i : Ext(s, i) = RowExtent(store[s], i)
  BY DEF Ext, RowExtent, GetFeature
<1> DEFINE b == TRUE
<1>7. \A x : Kept(x, b) = Given(x)
  BY DEF Kept
<1> HIDE DEF tree, b
<1>8. Fitting(store[s], tree, b)
  <2>1. \A i \in 1..n : Kept(RowExtent(store[s], i), b) = Given(Ext(s, i)) /\ Ext(s, i) = RowExtent(store[s], i)
    BY <1>6, <1>7
  <2>2. \A e : e \in LeafEntries(tree) <=>
           \E i \in DOMAIN store[s].rows : RowExtent(store[s], i) \in Boxes /\ e = Entry(Kept(RowExtent(store[s], i), b), i)
    BY <1>4, <1>5, <2>1
  <2> QED  BY ONLY <1>5, <2>2 DEF Fitting
<1>9. Tame(tree)
  BY <1>5, SoundIsTame
<1> QED  BY <1>1, <1>2, <1>8, <1>9, MadeThreads DEF s, tree, b

-------------------------------------------------------------------------------
(* The threads' actions keep it: loading and saving.                        *)

\* A tree that was written whole is read back with its entries, and of what was
\* torn off a whole tree can at least be walked.
LEMMA LoadedIsTame ==
  ASSUME PrintsInOrder, NEW f, NEW t, LeftOf(f, t)
  PROVE  Tame(ReadFrom(f.text))
<1>1. PICK h : Sound(t, h)
  BY DEF LeftOf, SoundTree
<1>2. t.node_id_gen \in Nat
  BY <1>1, SoundWalks
<1>3. CASE f.torn
  <2>1. PICK k \in 0..Len(t.nodes) : f.text.lines = SubSeq(t.nodes, 1, k)
    BY <1>3 DEF LeftOf
  <2>2. k \in Nat /\ k <= Len(t.nodes)
    <3>1. t.nodes \in Seq(NodeRecords)
      BY <1>1, TreeIs DEF Sound, Pending
    <3> QED  BY <3>1
  <2>3. ASSUME IsWhole(ReadFrom(f.text)) PROVE \E g : Walkable(ReadFrom(f.text), g, t.node_id_gen)
    <3> DEFINE text == f.text
    <3> HIDE DEF text
    <3>1. text.lines = SubSeq(t.nodes, 1, k) /\ IsWhole(ReadFrom(text))
      BY <2>1, <2>3 DEF text
    <3>2. \E g : Walkable(ReadFrom(text), g, t.node_id_gen)
      BY <1>1, <2>2, <3>1, TornWalks
    <3> QED  BY <3>2 DEF text
  <2> QED  BY <1>2, <2>3 DEF Tame
<1>4. CASE ~f.torn
  <2>1. PICK x : f.text = WriteTo(t, x)
    BY <1>4 DEF LeftOf
  <2>2. Sound(ReadFrom(WriteTo(t, x)), h)
    BY <1>1, ReadIsSound
  <2>3. SoundTree(ReadFrom(WriteTo(t, x)))
    BY <2>2 DEF SoundTree
  <2> QED  BY <2>1, <2>3, SoundIsTame
<1> QED  BY <1>3, <1>4

\* What was saved of a tree that fits, fits when it is read back.
LEMMA LoadedFits ==
  ASSUME PrintsInOrder, NEW t, NEW x, NEW st, Fitting(st, t, TRUE)
  PROVE  Fitting(st, ReadFrom(WriteTo(t, x)), FALSE)
<1> DEFINE u == ReadFrom(WriteTo(t, x))
           yes == TRUE
           no == FALSE
<1>1. \A y : Kept(y, yes) = Given(y) /\ Kept(y, no) = Reread(Given(y))
  BY DEF Kept
<1> HIDE DEF yes, no
<1>2. SoundTree(t) /\ \A e : e \in LeafEntries(t) <=>
         \E i \in DOMAIN st.rows : RowExtent(st, i) \in Boxes /\ e = Entry(Kept(RowExtent(st, i), yes), i)
  BY DEF Fitting, yes
<1>3. PICK h : Sound(t, h)
  BY <1>2 DEF SoundTree
<1>4. Sound(u, h) /\ \A e : e \in LeafEntries(u) <=> \E f \in LeafEntries(t) : e = ReadEntry(f)
  BY <1>3, ReadIsSound
<1> HIDE DEF u
<1>5. \A y, i : ReadEntry(Entry(Given(y), i)) = Entry(Reread(Given(y)), i)
  BY DEF ReadEntry, Entry
<1>6. ASSUME NEW e
      PROVE  e \in LeafEntries(u) <=>
               \E i \in DOMAIN st.rows : RowExtent(st, i) \in Boxes /\ e = Entry(Kept(RowExtent(st, i), no), i)
  <2>1. ASSUME e \in LeafEntries(u)
        PROVE  \E i \in DOMAIN st.rows : RowExtent(st, i) \in Boxes /\ e = Entry(Kept(RowExtent(st, i), no), i)
    <3>1. PICK f \in LeafEntries(t) : e = ReadEntry(f)
      BY <1>4, <2>1
    <3>2. PICK i \in DOMAIN st.rows : RowExtent(st, i) \in Boxes /\ f = Entry(Kept(RowExtent(st, i), yes), i)
      BY <1>2, <3>1
    <3>3. e = Entry(Kept(RowExtent(st, i), no), i)
      BY <1>1, <1>5, <3>1, <3>2
    <3> QED  BY <3>2, <3>3
  <2>2. ASSUME NEW i \in DOMAIN st.rows, RowExtent(st, i) \in Boxes, e = Entry(Kept(RowExtent(st, i), no), i)
        PROVE  e \in LeafEntries(u)
    <3> DEFINE f == Entry(Kept(RowExtent(st, i), yes), i)
    <3>1. f \in LeafEntries(t)
      BY <1>2, <2>2
    <3>2. e = ReadEntry(f)
      BY <1>1, <1>5, <2>2
    <3> HIDE DEF f
    <3> QED  BY <1>4, <3>1, <3>2
  <2> QED  BY <2>1, <2>2
<1>7. Fitting(st, u, no)
  BY <1>4, <1>6 DEF Fitting, SoundTree
<1> QED  BY <1>7 DEF u, no

\* An index is loaded: it fits the store, if the file is of what the store holds.
LEMMA LoadThreads ==
  ASSUME PrintsInOrder, IInv, ThreadsInv, FileInv, NEW t \in Threads, LoadIndex(t)
  PROVE  ThreadsInv'
<1> DEFINE made == [tree |-> ReadFrom(file.text), extent |-> Reread(file.text.extent)]
           of == IF file.torn THEN Null ELSE file.of
           pc == "install"
           s == prog.store
           no == FALSE
<1>1. thread[t].pc = "make" /\ UNCHANGED <<store, prog>> /\ UNCHANGED cursor /\ index' = index
      /\ Made(t, made, of, pc, no) /\ file # Null /\ file.text # Null
  BY DEF LoadIndex, CanLoad
<1>2. PICK u : LeftOf(file, u)
  BY <1>1 DEF FileInv
<1>3. Tame(made.tree)
  BY <1>2, LoadedIsTame
<1>4. file.mtime > store[s].mtime
  BY <1>1, Reading DEF LoadIndex, CanLoad, IInv, ProgramInv
<1>5. ASSUME of # Null, of.store = s PROVE Fitting(store[s], made.tree, no)
  <2>1. ~file.torn /\ file.of.store = s
    BY <1>5
  <2>2. file.of = Of(file.of.store)
    BY <1>1, <1>4, <2>1 DEF IInv, FileFits
  <2>3. Fitting(store[s], u, TRUE)
    BY <1>2, <2>1, <2>2 DEF LeftOf
  <2>4. PICK x : file.text = WriteTo(u, x)
    BY <1>2, <2>1 DEF LeftOf
  <2> DEFINE st == store[s]
  <2>5. Fitting(st, u, TRUE)
    BY <2>3
  <2> HIDE DEF st, s
  <2>6. Fitting(st, ReadFrom(WriteTo(u, x)), FALSE)
    BY <2>5, LoadedFits
  <2> QED  BY <2>4, <2>6 DEF st
<1>6. pc \in {"save", "install"} /\ pc # "save"
  OBVIOUS
<1> HIDE DEF made, of, pc, no
<1> QED  BY <1>1, <1>3, <1>5, <1>6, MadeThreads DEF s

\* An index is saved, and stays what it is.
LEMMA SaveThreads ==
  ASSUME IInv, ThreadsInv, NEW t \in Threads, SaveIndex(t)
  PROVE  ThreadsInv'
<1>1. PICK D : thread \in ThreadRecords(D)
  BY DEF IInv, RecordsInv
<1>2. thread[t].pc = "save" /\ Step(t, "install") /\ UNCHANGED <<store, prog>> /\ UNCHANGED cursor /\ index' = index
  BY DEF SaveIndex
<1> DEFINE c == cursor[t]
           r == [thread[t] EXCEPT !.pc = "install"]
<1>3. thread' = [thread EXCEPT ![t] = r] /\ r.pc = "install" /\ r.query = thread[t].query
      /\ r.index = thread[t].index
  BY <1>1, <1>2 DEF Step, ThreadRecords, ThreadRecord
<1>4. cursor' = [cursor EXCEPT ![t] = c]
  BY <1>2, SameCursor
<1>5. ThreadOk(r, c, index)
  <2>1. ThreadOk(thread[t], c, index)
    BY OkNow
  <2> HIDE DEF r, c
  <2> QED  BY <1>2, <1>3, <2>1 DEF ThreadOk
<1> HIDE DEF r, c
<1> QED  BY <1>2, <1>3, <1>4, <1>5, OkMoves

\* An index is installed.
LEMMA InstallThreads ==
  ASSUME IInv, ThreadsInv, NEW t \in Threads, InstallIndex(t)
  PROVE  ThreadsInv'
<1>1. PICK D : thread \in ThreadRecords(D)
  BY DEF IInv, RecordsInv
<1> DEFINE c == cursor[t]
           x == thread[t].index
           r == [thread[t] EXCEPT !.pc = "use", !.index = Null]
<1>2. thread[t].pc = "install" /\ UNCHANGED <<store, prog>> /\ UNCHANGED cursor /\ index' = x
  BY DEF InstallIndex
<1>3. thread' = [thread EXCEPT ![t] = r] /\ r.pc = "use" /\ r.query = thread[t].query
  BY <1>1 DEF InstallIndex, ThreadRecords, ThreadRecord
<1>4. cursor' = [cursor EXCEPT ![t] = c]
  BY <1>2, SameCursor
<1>5. ThreadOk(r, c, x) /\ Trusted(x)
  <2>1. ThreadOk(thread[t], c, index)
    BY OkNow
  <2> HIDE DEF r, c
  <2> QED  BY <1>2, <1>3, <2>1 DEF ThreadOk
<1> HIDE DEF r, c, x
<1> QED  BY <1>2, <1>3, <1>4, <1>5, OkMoves

\* A thread takes the index that is installed.
LEMMA EnterThreads ==
  ASSUME IInv, ThreadsInv, NEW t \in Threads, EnterIndex(t)
  PROVE  ThreadsInv'
<1>1. PICK D : thread \in ThreadRecords(D)
  BY DEF IInv, RecordsInv
<1> DEFINE c == cursor[t]
           r == [thread[t] EXCEPT !.pc = "find", !.index = index]
<1>2. thread[t].pc = "use" /\ UNCHANGED <<store, prog>> /\ UNCHANGED cursor /\ index' = index
  BY DEF EnterIndex
<1>3. thread' = [thread EXCEPT ![t] = r] /\ r.pc = "find" /\ r.query = thread[t].query /\ r.index = index
  BY <1>1 DEF EnterIndex, ThreadRecords, ThreadRecord
<1>4. cursor' = [cursor EXCEPT ![t] = c]
  BY <1>2, SameCursor
<1>5. ThreadOk(r, c, index)
  <2>1. ThreadOk(thread[t], c, index)
    BY OkNow
  <2> HIDE DEF r, c
  <2> QED  BY <1>2, <1>3, <2>1 DEF ThreadOk
<1> HIDE DEF r, c
<1> QED  BY <1>2, <1>3, <1>4, <1>5, OkMoves

\* A query is answered by the tree.
LEMMA FindThreads ==
  ASSUME IInv, ThreadsInv, NEW t \in Threads, FindFeatures(t)
  PROVE  ThreadsInv'
<1>1. PICK D : thread \in ThreadRecords(D)
  BY DEF IInv, RecordsInv
<1> DEFINE q == thread[t].query
           x == thread[t].index
           oids == Find(x.tree, q)
           c == NewCursor(oids, q, IsPoint(q))
           r == [thread[t] EXCEPT !.pc = "read"]
<1>2. thread[t].pc = "find" /\ UNCHANGED <<store, prog>> /\ index' = index /\ IsWhole(x.tree)
      /\ cursor' = [cursor EXCEPT ![t] = c]
  BY DEF FindFeatures
<1>3. thread' = [thread EXCEPT ![t] = r] /\ r.pc = "read" /\ r.query = q /\ r.index = x
  BY <1>1 DEF FindFeatures, ThreadRecords, ThreadRecord
<1>4. ThreadOk(thread[t], cursor[t], index)
  BY OkNow
<1>5. Trusted(x) /\ Asks(q)
  BY <1>2, <1>4 DEF ThreadOk
<1> HIDE DEF r, q, x
<1>6. oids \in Seq(Nat)
  <2>1. PICK h : \E B \in Nat : Walkable(x.tree, h, B)
    BY <1>2, <1>5 DEF Trusted, Tame
  <2>2. PICK B \in Nat : Walkable(x.tree, h, B)
    BY <2>1
  <2> QED  BY <2>2, FindIsSeq
<1>7. Opened(c) /\ c.oids = oids
  <2>1. IsPoint(q) \in BOOLEAN /\ q \in GeoExtents
    <3>1. q \in GeoExtents
      BY <1>5 DEF Asks
    <3> QED  BY <3>1, ExtentParts DEF IsPoint
  <2> DEFINE exact == IsPoint(q)
  <2> HIDE DEF exact, oids
  <2>2. exact \in BOOLEAN
    BY <2>1 DEF exact
  <2>3. Opened(NewCursor(oids, q, exact)) /\ NewCursor(oids, q, exact).oids = oids
    BY <1>6, <2>1, <2>2, NewIsOpened
  <2> QED  BY <2>3 DEF exact
<1> HIDE DEF c
<1>8. ThreadOk(r, c, index)
  BY <1>2, <1>3, <1>5, <1>7 DEF ThreadOk
<1> QED  BY <1>2, <1>3, <1>8, OkMoves

\* A cursor goes on over the same features.
LEMMA CursorThreads ==
  ASSUME IInv, ThreadsInv, NEW t \in Threads, ReadNext(t) \/ ReadAgain(t)
  PROVE  ThreadsInv'
<1> DEFINE r == thread[t]
           c == cursor'[t]
<1>1. thread[t].pc = "read" /\ UNCHANGED <<store, prog>> /\ index' = index /\ UNCHANGED thread
  BY DEF ReadNext, ReadAgain
<1>2. ThreadOk(r, cursor[t], index) /\ cursor \in [Threads -> CursorRecords]
  BY OkNow
<1>3. Opened(cursor[t])
  BY <1>1, <1>2 DEF ThreadOk
<1>4. cursor' = [cursor EXCEPT ![t] = c] /\ c \in {NextFeature(cursor[t]), ResetCursor(cursor[t])}
  BY <1>2 DEF ReadNext, ReadAgain
<1>5. Opened(c) /\ c.oids = cursor[t].oids
  BY <1>3, <1>4, NextIsNext, ResetStartsOver
<1>6. thread' = [thread EXCEPT ![t] = r]
  BY <1>1 DEF IInv, RecordsInv, ThreadRecords
<1> SUFFICES ASSUME NEW d, d = cursor'[t] PROVE ThreadsInv'
  OBVIOUS
<1>7. Opened(d) /\ d.oids = cursor[t].oids /\ cursor' = [cursor EXCEPT ![t] = d]
  BY <1>4, <1>5
<1> HIDE DEF r, c
<1>8. ThreadOk(r, d, index)
  BY <1>1, <1>2, <1>7 DEF ThreadOk, r
<1> QED  BY <1>1, <1>6, <1>7, <1>8, OkMoves

\* A thread has read enough.
LEMMA EndThreads ==
  ASSUME IInv, ThreadsInv, NEW t \in Threads, EndReading(t)
  PROVE  ThreadsInv'
<1> DEFINE r == Idle
           c == NoCursor
<1>1. UNCHANGED <<store, prog>> /\ index' = index
      /\ thread' = [thread EXCEPT ![t] = r] /\ cursor' = [cursor EXCEPT ![t] = c]
  BY DEF EndReading
<1>2. ThreadOk(r, c, index)
  <2>1. Idle.pc = "idle"
    BY DEF Idle
  <2> QED  BY <2>1 DEF ThreadOk
<1> HIDE DEF r, c
<1> QED  BY <1>1, <1>2, OkMoves

-------------------------------------------------------------------------------
(* The saved index keeps it.                                                *)

\* What the file is of does not change with the clock, the program or its threads.
LEMMA FileStays ==
  ASSUME FileInv, UNCHANGED <<store, file>>, prog'.mode # "write" \/ UNCHANGED prog
  PROVE  FileInv'
<1>1. \A t : LeftOf(file, t)' <=> LeftOf(file, t)
  BY DEF LeftOf, Of
<1>2. CASE prog'.mode # "write"
  BY <1>1, <1>2 DEF FileInv
<1>3. CASE UNCHANGED prog
  BY <1>1, <1>3 DEF FileInv
<1> QED  BY <1>2, <1>3

\* The file is of an earlier writing than the one that goes on.
LEMMA FileOfEarlier ==
  ASSUME FileInv, UNCHANGED file, NEW s \in Stores, IInv,
         \A u \in Stores : u # s => store'[u] = store[u], store'[s].writes \in Nat,
         file # Null /\ file.of.store = s => file.of.writes < store'[s].writes,
         prog'.mode = "write" => prog'.store = s
  PROVE  FileInv'
<1> SUFFICES ASSUME file # Null
             PROVE  /\ (file.of.writes <= store[file.of.store].writes)'
                    /\ (prog.mode = "write" /\ file.of.store = prog.store
                          => file.of.writes < store[file.of.store].writes)'
                    /\ (file.text # Null => \E t : LeftOf(file, t))'
  BY DEF FileInv
<1>1. file.of \in Origins /\ \E D : store \in StoreRecords(D)
  BY DEF IInv, TimeInv, RecordsInv
<1>2. file.of.writes \in Nat /\ file.of.store \in Stores
  BY <1>1 DEF Origins
<1>3. /\ file.of.writes <= store[file.of.store].writes
      /\ file.text # Null => \E t : LeftOf(file, t)
  BY DEF FileInv
<1>4. CASE file.of.store = s
  <2>1. file.of.writes < store'[s].writes
    BY <1>4
  <2>2. file.of # Of(s)'
    BY <1>2, <2>1 DEF Of
  <2>3. \A t : LeftOf(file, t) => LeftOf(file, t)'
    BY <1>4, <2>2 DEF LeftOf, Of
  <2>4. file.of.writes <= store'[s].writes
    BY <1>2, <2>1
  <2> QED  BY <1>3, <1>4, <2>1, <2>3, <2>4
<1>5. CASE file.of.store # s
  <2>1. store'[file.of.store] = store[file.of.store]
    BY <1>2, <1>5
  <2>2. \A t : LeftOf(file, t) => LeftOf(file, t)'
    BY <2>1 DEF LeftOf, Of
  <2>3. file' = file /\ (prog'.mode = "write" => prog'.store # file.of.store)
    BY <1>5
  <2> QED  BY <1>3, <2>1, <2>2, <2>3
<1> QED  BY <1>4, <1>5

\* The times a store was written.
LEMMA WritesAreNumbers == ASSUME IInv, NEW s \in Stores PROVE store[s].writes \in Nat /\ DOMAIN store = Stores
BY DEF IInv, RecordsInv, StoreRecords

\* A store that is written anew is not what the file is of.
LEMMA StartWritingFile ==
  ASSUME IInv, FileInv, NEW s \in Stores, NEW features, StartWriting(s, features)
  PROVE  FileInv'
<1>1. PICK D : store \in StoreRecords(D)
  BY DEF IInv, RecordsInv
<1>2. /\ \A u \in Stores : u # s => store'[u] = store[u]
      /\ store'[s].writes = store[s].writes + 1 /\ store[s].writes \in Nat /\ store'[s].writes \in Nat
  BY <1>1 DEF StartWriting, StoreRecords
<1>3. prog'.store = s /\ UNCHANGED file
  BY DEF StartWriting, Off
<1>4. ASSUME file # Null, file.of.store = s PROVE file.of.writes < store'[s].writes
  <2>1. file.of.writes \in Nat /\ file.of.writes <= store[s].writes
    BY <1>4 DEF FileInv, IInv, TimeInv, Origins
  <2> QED  BY <1>2, <2>1
<1> QED  BY <1>2, <1>3, <1>4, FileOfEarlier

\* Nor while it is written.
LEMMA WritingFile ==
  ASSUME IInv, FileInv, WriteFeature \/ CloseStore
  PROVE  FileInv'
<1> DEFINE s == prog.store
<1>1. PICK D : store \in StoreRecords(D)
  BY DEF IInv, RecordsInv
<1>2. prog.mode = "write" /\ UNCHANGED file
  BY DEF WriteFeature, CloseStore
<1>3. s \in Stores
  BY <1>2 DEF IInv, ProgramInv
<1>4. /\ \A u \in Stores : u # s => store'[u] = store[u]
      /\ store'[s].writes = store[s].writes /\ store'[s].writes \in Nat
  <2>0. store[s].writes \in Nat
    BY <1>3, WritesAreNumbers
  <2>1. CASE CloseStore
    <3>1. store' = [store EXCEPT ![s].mtime = clock]
      BY <2>1 DEF CloseStore
    <3> HIDE DEF s
    <3> QED  BY <1>1, <1>3, <2>0, <3>1 DEF StoreRecords
  <2>2. CASE WriteFeature
    <3>1. CASE store' = store
      BY <2>0, <3>1
    <3>2. CASE store' # store
      <4>1. PICK L, R, G : store' = [store EXCEPT ![s].layer = L, ![s].rows = R, ![s].given = G]
        BY <2>2, <3>2 DEF WriteFeature
      <4> HIDE DEF s
      <4> QED  BY <1>1, <1>3, <2>0, <4>1 DEF StoreRecords
    <3> QED  BY <3>1, <3>2
  <2> QED  BY <2>1, <2>2
<1>5. prog'.mode = "write" => prog'.store = s
  <2>1. PICK E : prog \in Programs(E)
    BY DEF IInv, RecordsInv
  <2>2. CASE WriteFeature
    BY <2>1, <2>2 DEF WriteFeature, Programs
  <2>3. CASE CloseStore
    BY <2>3 DEF CloseStore, Off
  <2> QED  BY <2>2, <2>3
<1>6. file # Null /\ file.of.store = s => file.of.writes < store'[s].writes
  BY <1>2, <1>4 DEF FileInv
<1> HIDE DEF s
<1> QED  BY <1>2, <1>3, <1>4, <1>5, <1>6, FileOfEarlier

\* The index that is saved is of what the store holds.
LEMMA SavingFile ==
  ASSUME IInv, ThreadsInv, FileInv, NEW t \in Threads, SaveIndex(t) \/ KilledWhileSaving(t)
  PROVE  FileInv'
<1> SUFFICES ASSUME NEW tree, tree = thread[t].index.tree, NEW x, x = thread[t].index.extent,
                    NEW s, s = prog.store
             PROVE  FileInv'
  OBVIOUS
<1>1. thread[t].pc = "save" /\ UNCHANGED <<store, prog>> /\ prog.mode = "read"
  BY Reading DEF SaveIndex, KilledWhileSaving
<1>2. s \in Stores /\ thread[t].index.of = Of(s)
  BY <1>1 DEF IInv, ProgramInv, SavedInv
<1>3. Fitting(store[s], tree, TRUE)
  <2>1. ThreadOk(thread[t], cursor[t], index)
    BY OkNow
  <2> QED  BY <1>1, <2>1 DEF ThreadOk
<1>4. SoundTree(tree)
  BY <1>3 DEF Fitting
<1>5. store[s].writes \in Nat
  BY <1>2, WritesAreNumbers
<1>6. CASE SaveIndex(t)
  <2>1. file' = [mtime |-> clock, of |-> Of(s), torn |-> FALSE, text |-> WriteTo(tree, x)]
    BY <1>2, <1>6 DEF SaveIndex
  <2> SUFFICES ASSUME NEW f, f = file' PROVE FileInv'
    OBVIOUS
  <2>2. f.of = Of(s) /\ ~f.torn /\ f.text = WriteTo(tree, x)
    BY <2>1
  <2>3. f.of.store = s /\ f.of.writes = store[s].writes
    BY <2>2 DEF Of
  <2>4. LeftOf(f, tree)'
    BY <1>1, <1>3, <1>4, <2>2, <2>3 DEF LeftOf, Of
  <2>5. LeftOf(file, tree)'
    BY <2>4 DEF LeftOf
  <2> QED  BY <1>1, <1>5, <2>3, <2>5 DEF FileInv
<1>7. CASE KilledWhileSaving(t)
  <2>1. PICK text \in TornTexts(WriteTo(tree, x)) :
          file' = [mtime |-> clock, of |-> Of(s), torn |-> TRUE, text |-> text]
    BY <1>2, <1>7 DEF KilledWhileSaving
  <2> SUFFICES ASSUME NEW f, f = file' PROVE FileInv'
    OBVIOUS
  <2>2. f.of = Of(s) /\ f.torn /\ f.text = text
    BY <2>1
  <2>3. f.of.store = s /\ f.of.writes = store[s].writes
    BY <2>2 DEF Of
  <2>4. Len(tree.nodes) \in Nat
    <3>1. tree.nodes \in Seq(NodeRecords)
      BY <1>4, TreeIs DEF SoundTree, Sound, Pending
    <3> QED  BY <3>1
  <2>5. ASSUME text # Null PROVE \E k \in 0..Len(tree.nodes) : text.lines = SubSeq(tree.nodes, 1, k)
    <3> DEFINE w == WriteTo(tree, x)
               Cut(k) == [w EXCEPT !.lines = SubSeq(@, 1, k)]
    <3>1. \A k : Cut(k).lines = SubSeq(tree.nodes, 1, k) /\ [Cut(0) EXCEPT !.root_id = 1].lines = SubSeq(tree.nodes, 1, 0)
      BY DEF WriteTo
    <3>2. w.lines = tree.nodes
      BY DEF WriteTo
    <3>3. (\E k \in 0..(Len(w.lines) - 1) : text = Cut(k)) \/ text = [Cut(0) EXCEPT !.root_id = 1]
      BY <2>5 DEF TornTexts
    <3> HIDE DEF w, Cut
    <3>4. CASE \E k \in 0..(Len(w.lines) - 1) : text = Cut(k)
      BY <2>4, <3>1, <3>2, <3>4
    <3>5. CASE text = [Cut(0) EXCEPT !.root_id = 1]
      <4>1. 0 \in 0..Len(tree.nodes)
        BY <2>4
      <4> QED  BY <3>1, <3>5, <4>1
    <3> QED  BY <3>3, <3>4, <3>5
  <2>6. f.text # Null => LeftOf(f, tree)'
    BY <1>4, <2>2, <2>5 DEF LeftOf
  <2>7. file'.text # Null => LeftOf(file, tree)'
    BY <2>6 DEF LeftOf
  <2> QED  BY <1>1, <1>5, <2>3, <2>7 DEF FileInv
<1> QED  BY <1>6, <1>7

-------------------------------------------------------------------------------
(* What a query was given.                                                  *)

\* A sequence without duplicates is as long as the set of its elements is large.
LEMMA NoDuplicatesCount ==
  ASSUME NEW s \in Seq(Nat), IsInjective(s)
  PROVE  Cardinality(ToSet(s)) = Len(s)
<1> DEFINE Counts(r) == IsInjective(r) => IsFiniteSet(Range(r)) /\ Cardinality(Range(r)) = Len(r)
           S == {r \in Seq(Nat) : Counts(r)}
<1>1. <<>> \in S
  <2>1. Range(<<>>) = {} /\ Len(<<>>) = 0 /\ <<>> \in Seq(Nat)
    BY EmptyQueue
  <2> QED  BY <2>1, FS_EmptySet
<1>2. ASSUME NEW r \in Seq(Nat), NEW a \in Nat, r \in S PROVE Append(r, a) \in S
  <2>1. Append(r, a) \in Seq(Nat) /\ Range(Append(r, a)) = Range(r) \cup {a} /\ Len(Append(r, a)) = Len(r) + 1
    BY AppendToQueue
  <2>2. ASSUME IsInjective(Append(r, a))
        PROVE  IsFiniteSet(Range(Append(r, a))) /\ Cardinality(Range(Append(r, a))) = Len(Append(r, a))
    <3>1. IsInjective(r) /\ a \notin Range(r)
      BY <2>2, InjectiveBefore
    <3>2. IsFiniteSet(Range(r)) /\ Cardinality(Range(r)) = Len(r)
      BY <1>2, <3>1
    <3>3. IsFiniteSet(Range(r) \cup {a}) /\ Cardinality(Range(r) \cup {a}) = Cardinality(Range(r)) + 1
      BY <3>1, <3>2, FS_AddElement
    <3> QED  BY <2>1, <3>2, <3>3
  <2> QED  BY <2>1, <2>2
<1>3. Seq(Nat) \subseteq S
  <2> HIDE DEF S
  <2> QED  BY <1>1, <1>2, AppendUp
<1>4. Cardinality(Range(s)) = Len(s)
  BY <1>3
<1> QED  BY <1>4, SetOfSeq

\* No node is missing in a tree as it should be.
LEMMA SoundIsWhole == ASSUME NEW t, SoundTree(t) PROVE IsWhole(t)
<1>1. PICK h : Sound(t, h)
  BY DEF SoundTree
<1>2. Walkable(t, h, t.node_id_gen)
  BY <1>1, SoundWalks
<1>3. \A n \in DOMAIN t.nodes : ToSet(t.nodes[n].entries) = Kids(t, n)
  BY SetOfSeq DEF Kids
<1> QED  BY <1>2, <1>3 DEF IsWhole, Walkable

\* What a query finds in a tree that fits the store.
LEMMA FoundIsExact ==
  ASSUME PrintsInOrder, PrintsWithin(GRAIN), NEW st, \A i \in DOMAIN st.rows : i \in Nat /\ RowExtent(st, i) \in MaybeBoxes,
         NEW tree, NEW built, Fitting(st, tree, built), NEW q, Asks(q)
  PROVE  LET oids == Find(tree, q) IN
         /\ Cardinality(ToSet(oids)) = Len(oids)
         /\ \A i \in DOMAIN st.rows : Intersects(Expand(RowExtent(st, i), -GRAIN), q) => i \in ToSet(oids)
         /\ \A i \in ToSet(oids) : i \in DOMAIN st.rows /\ Intersects(Expand(RowExtent(st, i), MARGIN + GRAIN), q)
         /\ built => \A i \in DOMAIN st.rows : Intersects(RowExtent(st, i), q) => i \in ToSet(oids)
<1> DEFINE oids == Find(tree, q)
           X(i) == RowExtent(st, i)
           K(i) == Kept(X(i), built)
<1>1. /\ SoundTree(tree)
      /\ \A e : e \in LeafEntries(tree) <=> \E i \in DOMAIN st.rows : X(i) \in Boxes /\ e = Entry(K(i), i)
  BY DEF Fitting
<1>2. q \in GeoExtents /\ ~q.is_infinite
  BY DEF Asks
<1>3. /\ oids \in Seq(Nat) /\ IsInjective(oids)
      /\ \A x : x \in Range(oids) <=> \E e \in LeafEntries(tree) : e.ref = x /\ Intersects(e.extent, q)
  BY <1>1, <1>2, FindIsExact
<1>4. Cardinality(ToSet(oids)) = Len(oids) /\ ToSet(oids) = Range(oids)
  BY <1>3, NoDuplicatesCount, SetOfSeq
<1> HIDE DEF oids
<1>5. \A i \in DOMAIN st.rows : i \in Nat /\ X(i) \in MaybeBoxes
  OBVIOUS
<1> HIDE DEF X
<1>6. ASSUME NEW i \in DOMAIN st.rows, X(i) \in Boxes, Intersects(K(i), q) PROVE i \in Range(oids)
  <2> DEFINE e == Entry(K(i), i)
  <2>1. e \in LeafEntries(tree)
    BY <1>1, <1>6
  <2>2. e.ref = i /\ e.extent = K(i)
    BY DEF Entry
  <2> QED  BY <1>3, <1>6, <2>1, <2>2
<1>7. ASSUME NEW i \in Range(oids)
      PROVE  i \in DOMAIN st.rows /\ X(i) \in Boxes /\ Intersects(K(i), q)
  <2>1. PICK e \in LeafEntries(tree) : e.ref = i /\ Intersects(e.extent, q)
    BY <1>3
  <2>2. PICK j \in DOMAIN st.rows : X(j) \in Boxes /\ e = Entry(K(j), j)
    BY <1>1, <2>1
  <2>3. e.ref = j /\ e.extent = K(j)
    BY <2>2 DEF Entry
  <2> QED  BY <2>1, <2>2, <2>3
<1>8. ASSUME NEW i \in DOMAIN st.rows, X(i) \in Boxes
      PROVE  /\ Intersects(K(i), q) => Intersects(Expand(X(i), MARGIN + GRAIN), q)
             /\ Intersects(Expand(X(i), -GRAIN), q) => Intersects(K(i), q)
             /\ built /\ Intersects(X(i), q) => Intersects(K(i), q)
  <2> DEFINE x == X(i)
             y == Kept(x, built)
             out == MARGIN + GRAIN
  <2>0. out \in Nat /\ GRAIN \in Nat
    BY MarginAssumption, GrainAssumption
  <2> HIDE DEF out
  <2>1. x \in Boxes
    BY <1>8
  <2> HIDE DEF x
  <2>2. y \in Boxes /\ CloseTo(x, y, GRAIN, out)
    BY <2>1, KeptIsClose DEF out
  <2>3. built => Covers(y, x)
    BY <2>1, GivenIsClose DEF Kept
  <2> HIDE DEF y
  <2>4. /\ Intersects(y, q) => Intersects(Expand(x, out), q)
        /\ Intersects(Expand(x, -GRAIN), q) => Intersects(y, q)
    BY <1>2, <2>0, <2>1, <2>2, CloseMeets
  <2>5. built /\ Intersects(x, q) => Intersects(y, q)
    BY <1>2, <2>1, <2>2, <2>3, MeetsCover
  <2> QED  BY <2>4, <2>5 DEF x, y, out
<1> HIDE DEF K
<1>9. ASSUME NEW i \in DOMAIN st.rows, Intersects(Expand(X(i), -GRAIN), q) PROVE i \in Range(oids)
  <2>1. X(i) \in Boxes
    BY <1>5, <1>9, ExpandNothing
  <2> QED  BY <1>6, <1>8, <1>9, <2>1
<1>10. ASSUME NEW i \in Range(oids)
       PROVE  i \in DOMAIN st.rows /\ Intersects(Expand(X(i), MARGIN + GRAIN), q)
  BY <1>7, <1>8
<1>11. ASSUME built, NEW i \in DOMAIN st.rows, Intersects(X(i), q) PROVE i \in Range(oids)
  <2>1. X(i) \in Boxes
    BY <1>5, <1>11, ExpandNothing
  <2> QED  BY <1>6, <1>8, <1>11, <2>1
<1> QED  BY <1>4, <1>9, <1>10, <1>11 DEF X, oids

-------------------------------------------------------------------------------
(* Queries are exact.                                                       *)

\* Nothing is read at first.
LEMMA InitReading == ASSUME Init PROVE ThreadsInv /\ FileInv
<1>1. /\ index = Null /\ file = Null /\ thread = [t \in Threads |-> Idle] /\ cursor = [t \in Threads |-> NoCursor]
  BY DEF Init
<1>2. Idle.pc = "idle"
  BY DEF Idle
<1>3. \A t \in Threads : ThreadOk(thread[t], cursor[t], index)
  BY <1>1, <1>2 DEF ThreadOk
<1>4. cursor \in [Threads -> CursorRecords]
  BY <1>1, NoCursorIs
<1> QED  BY <1>1, <1>3, <1>4 DEF ThreadsInv, FileInv

\* The steps of a thread.
LEMMA ReadingThread ==
  ASSUME PrintsInOrder, IInv, WrittenInv, ThreadsInv, FileInv, NEW t \in Threads, ThreadStep(t)
  PROVE  ThreadsInv' /\ FileInv'
<1>1. CASE \E q \in Queries : Ask(t, q)
  <2>1. ThreadsInv'
    BY <1>1, AskThreads
  <2>2. UNCHANGED <<store, file, prog>>
    BY <1>1 DEF Ask
  <2> QED  BY <2>1, <2>2, FileStays
<1>2. CASE AssertIndex(t) \/ LoadIndex(t) \/ BuildIndex(t) \/ InstallIndex(t) \/ EnterIndex(t)
           \/ FindFeatures(t) \/ ReadNext(t) \/ ReadAgain(t) \/ EndReading(t)
  <2>1. ThreadsInv'
    BY <1>2, AssertThreads, LoadThreads, BuildThreads, InstallThreads, EnterThreads, FindThreads,
       CursorThreads, EndThreads
  <2>2. UNCHANGED <<store, file, prog>>
    BY <1>2 DEF AssertIndex, LoadIndex, BuildIndex, InstallIndex, EnterIndex, FindFeatures, ReadNext, ReadAgain,
                EndReading
  <2> QED  BY <2>1, <2>2, FileStays
<1>3. CASE SaveIndex(t)
  BY <1>3, SaveThreads, SavingFile
<1>4. CASE KilledWhileSaving(t)
  BY <1>4, NothingMoves, SavingFile DEF KilledWhileSaving
<1>5. CASE FindCrashes(t)
  BY <1>5, NothingMoves, FileStays DEF FindCrashes
<1> QED  BY <1>1, <1>2, <1>3, <1>4, <1>5 DEF ThreadStep

\* The steps of the programs.
LEMMA NextReading ==
  ASSUME PrintsInOrder, IInv, WrittenInv, ThreadsInv, FileInv, [Next]_vars
  PROVE  ThreadsInv' /\ FileInv'
<1>1. CASE UNCHANGED vars
  BY <1>1, NothingMoves, FileStays DEF vars
<1>2. CASE Tick
  BY <1>2, NothingMoves, FileStays DEF Tick
<1>3. ASSUME NEW s \in Stores, StartReading(s) PROVE ThreadsInv' /\ FileInv'
  <2>1. prog.mode # "read" /\ UNCHANGED <<thread, cursor, index>> /\ UNCHANGED <<store, file>> /\ prog'.mode = "read"
    BY <1>3 DEF StartReading, Off
  <2> QED  BY <2>1, NobodyReads, FileStays
<1>4. ASSUME NEW s \in Stores, NEW features \in Contents[s], StartWriting(s, features)
      PROVE  ThreadsInv' /\ FileInv'
  <2>1. prog.mode # "read" /\ UNCHANGED <<thread, cursor, index>>
    BY <1>4 DEF StartWriting, Off
  <2> QED  BY <1>4, <2>1, NobodyReads, StartWritingFile
<1>5. CASE WriteFeature \/ CloseStore
  <2>1. prog.mode # "read" /\ UNCHANGED <<thread, cursor, index>>
    BY <1>5 DEF WriteFeature, CloseStore
  <2> QED  BY <1>5, <2>1, NobodyReads, WritingFile
<1>6. CASE StopProgram
  <2>1. UNCHANGED <<store, file>> /\ prog'.mode = "off"
    BY <1>6 DEF StopProgram, Off
  <2> QED  BY <1>6, <2>1, StopThreads, FileStays
<1>7. ASSUME NEW t \in Threads, ThreadStep(t) PROVE ThreadsInv' /\ FileInv'
  BY <1>7, ReadingThread
<1> QED  BY <1>1, <1>2, <1>3, <1>4, <1>5, <1>6, <1>7 DEF Next

\* What a thread was given is what its tree has, and that is what the store has.
LEMMA QueriesFromInv ==
  ASSUME PrintsInOrder, PrintsWithin(GRAIN), IInv, WrittenInv, ThreadsInv
  PROVE  QueriesExact
<1> SUFFICES ASSUME NEW t \in Threads, thread[t].pc \in {"find", "read"}, thread[t].index # Null, Fits(t)
             PROVE  /\ IsWhole(thread[t].index.tree)
                    /\ thread[t].pc = "read" =>
                          LET q == thread[t].query
                              oids == cursor[t].oids
                              Near(d) == {oid \in DOMAIN store[prog.store].rows :
                                            Intersects(Expand(Extent(GetFeature(prog.store, oid)), d), q)}
                          IN /\ Cardinality(ToSet(oids)) = Len(oids)
                             /\ Near(-GRAIN) \subseteq ToSet(oids)
                             /\ ToSet(oids) \subseteq Near(MARGIN + GRAIN)
                             /\ thread[t].index.built => ToSet(SimpleIndexFinds(prog.store, q)) \subseteq ToSet(oids)
  BY DEF QueriesExact
<1> DEFINE x == thread[t].index
           q == thread[t].query
           s == prog.store
           oids == cursor[t].oids
           n == Rows(s)
<1>1. prog.mode = "read" /\ s \in Stores
  BY Reading DEF IInv, ProgramInv
<1>2. ThreadOk(thread[t], cursor[t], index)
  BY OkNow
<1>3. Trusted(x)
  BY <1>2 DEF ThreadOk
<1>4. Fitting(store[s], x.tree, x.built)
  BY <1>3 DEF Trusted, Fits
<1>5. IsWhole(x.tree)
  BY <1>4, SoundIsWhole DEF Fitting
<1>6. n \in Nat /\ DOMAIN store[s].rows = 1..n /\ \A i \in 1..n : Ext(s, i) \in MaybeBoxes
  BY <1>1, RowExtents
<1>7. \A i : Extent(GetFeature(s, i)) = RowExtent(store[s], i) /\ Ext(s, i) = RowExtent(store[s], i)
  BY DEF RowExtent, GetFeature, Ext
<1>8. ASSUME thread[t].pc = "read" PROVE Asks(q) /\ oids = Find(x.tree, q)
  BY <1>2, <1>8 DEF ThreadOk
<1> HIDE DEF x, q, s, oids, n
<1> DEFINE st == store[s]
           tree == x.tree
           built == x.built
<1>9. \A i \in DOMAIN st.rows : i \in Nat /\ RowExtent(st, i) \in MaybeBoxes
  BY <1>6, <1>7
<1>10. Fitting(st, tree, built)
  BY <1>4
<1> HIDE DEF st, tree, built
<1>11. ASSUME thread[t].pc = "read"
       PROVE  /\ Cardinality(ToSet(oids)) = Len(oids)
              /\ \A i \in DOMAIN st.rows : Intersects(Expand(RowExtent(st, i), -GRAIN), q) => i \in ToSet(oids)
              /\ \A i \in ToSet(oids) : i \in DOMAIN st.rows /\ Intersects(Expand(RowExtent(st, i), MARGIN + GRAIN), q)
              /\ built => \A i \in DOMAIN st.rows : Intersects(RowExtent(st, i), q) => i \in ToSet(oids)
  <2>1. Asks(q) /\ oids = Find(tree, q)
    BY <1>8, <1>11 DEF tree
  <2> QED  BY <1>9, <1>10, <2>1, FoundIsExact
<1>12. \A i \in ToSet(SimpleIndexFinds(s, q)) : i \in DOMAIN st.rows /\ Intersects(RowExtent(st, i), q)
  <2> DEFINE T == {oid \in DOMAIN store[s].rows : Intersects(Extent(GetFeature(s, oid)), q)}
  <2>1. AllRows(s) \in Seq(Nat)
    BY <1>1, AllRowsSeq DEF s
  <2>2. Range(Selected(AllRows(s), T)) \subseteq T
    BY <2>1, SelectedElements DEF SelectedIs
  <2>3. ToSet(SimpleIndexFinds(s, q)) \subseteq T
    BY <2>2, SetOfSeq DEF SimpleIndexFinds
  <2> QED  BY <1>7, <2>3 DEF st
<1> QED  BY <1>5, <1>7, <1>11, <1>12 DEF x, q, s, oids, st, built

\* A query gives every feature once whose extent meets it and no other, up to the
\* margin of points and the precision of the saved coordinates, whichever thread made
\* the index, whether it was built or loaded, however long the stores were written
\* and read before: QueriesExact of FeatureLayer.
THEOREM QueriesAreExact ==
  ASSUME PrintsInOrder, PrintsWithin(GRAIN)
  PROVE  Spec => []QueriesExact
<1>1. Init => IInv /\ WrittenInv /\ ThreadsInv /\ FileInv
  BY InitInv, InitWritten, InitReading
<1>2. IInv /\ WrittenInv /\ ThreadsInv /\ FileInv /\ [Next]_vars => (IInv /\ WrittenInv /\ ThreadsInv /\ FileInv)'
  BY NextInv, WrittenStep, NextReading
<1>3. IInv /\ WrittenInv /\ ThreadsInv /\ FileInv => QueriesExact
  BY QueriesFromInv
<1> QED  BY <1>1, <1>2, <1>3, PTL DEF Spec

-------------------------------------------------------------------------------
(* Cursors are sequences.                                                   *)

\* What a cursor is to give, and gave, depends on the store alone.
LEMMA ViewStays ==
  ASSUME UNCHANGED <<store, prog>>, NEW c
  PROVE  Handed(c)' = Handed(c) /\ Items(c)' = Items(c)
BY DEF Handed, Items, Matching, Matches, GetFeature

\* A cursor that was not opened has given nothing, whatever the store becomes.
LEMMA ClosedLater == Handed(NoCursor)' = 0
<1>1. Handed(NoCursor) = 0
  BY ClosedIsNothing
<1>2. (Handed(NoCursor) = 0)'
  BY <1>1, PTL
<1> QED  BY <1>2

\* A cursor on which nothing was done, of a store that stays.
LEMMA SequenceStays ==
  ASSUME UNCHANGED <<store, prog>>, NEW t \in Threads, cursor'[t] = cursor[t]
  PROVE  UNCHANGED Sequence(t)!vars
<1> SUFFICES ASSUME NEW c, c = cursor'[t]
             PROVE  UNCHANGED Sequence(t)!vars
  OBVIOUS
<1>1. Handed(c)' = Handed(c) /\ Items(c)' = Items(c)
  BY ViewStays
<1> QED  BY <1>1 DEF Sequence!vars, Handed

\* Whoever has given nothing has just been opened, closed or reset.
LEMMA SequenceStarts ==
  ASSUME NEW t \in Threads, NEW c, c = cursor'[t], Handed(c)' = 0, c.last = Null
  PROVE  Sequence(t)!Next
BY DEF Sequence!Next, Sequence!Open, Sequence!Reset, Handed

\* A cursor that is closed.
LEMMA SequenceCloses ==
  ASSUME NEW t \in Threads, cursor'[t] = NoCursor
  PROVE  Sequence(t)!Next
<1>1. NoCursor = cursor'[t] /\ NoCursor.last = Null /\ Handed(NoCursor)' = 0
  BY NoCursorIs, ClosedLater
<1> SUFFICES ASSUME NEW c, c = NoCursor PROVE Sequence(t)!Next
  OBVIOUS
<1>2. c = cursor'[t] /\ c.last = Null /\ Handed(c)' = 0
  BY <1>1
<1> QED  BY <1>2, SequenceStarts

\* A cursor that is opened.
LEMMA SequenceOpens ==
  ASSUME UNCHANGED <<store, prog>>, NEW t \in Threads, NEW oids \in Seq(Nat), NEW e \in GeoExtents,
         NEW exact \in BOOLEAN, cursor'[t] = NewCursor(oids, e, exact)
  PROVE  Sequence(t)!Next
<1> SUFFICES ASSUME NEW c, c = NewCursor(oids, e, exact) PROVE Sequence(t)!Next
  OBVIOUS
<1>1. c.last = Null /\ Handed(c) = 0
  BY NewIsOpened
<1>2. Handed(c)' = 0
  BY <1>1, ViewStays
<1> QED  BY <1>1, <1>2, SequenceStarts

\* next() gives the next feature, or nothing after the last.
LEMMA SequenceGives ==
  ASSUME UNCHANGED <<store, prog>>, NEW t \in Threads, Opened(cursor[t]), cursor'[t] = NextFeature(cursor[t])
  PROVE  Sequence(t)!Next
<1> SUFFICES ASSUME NEW c, c = cursor[t], NEW d, d = cursor'[t] PROVE Sequence(t)!Next
  OBVIOUS
<1>1. /\ Opened(d) /\ d.oids = c.oids /\ All(d) = All(c)
      /\ \/ Handed(c) < Len(All(c)) /\ Handed(d) = Handed(c) + 1 /\ d.last = All(c)[Handed(c) + 1]
         \/ Handed(c) = Len(All(c)) /\ Handed(d) = Handed(c) /\ d.last = Null
  BY NextIsNext
<1>2. Items(c) = All(c) /\ Items(d) = All(d)
  BY <1>1 DEF Opened, Items, All
<1>3. Handed(d)' = Handed(d) /\ Items(d)' = Items(d)
  BY ViewStays
<1> DEFINE items == All(c)
           given == Handed(c)
<1>4. \/ given < Len(items) /\ Handed(d)' = given + 1 /\ d.last = items[given + 1] /\ Items(d)' = items
      \/ given = Len(items) /\ Handed(d)' = given /\ d.last = Null /\ Items(d)' = items
  BY <1>1, <1>2, <1>3
<1>5. c.last = cursor[t].last /\ Items(cursor[t]) = items /\ Handed(cursor[t]) = given
  BY <1>2
<1> HIDE DEF items, given
<1>6. CASE given < Len(items) /\ Handed(d)' = given + 1 /\ d.last = items[given + 1] /\ Items(d)' = items
  <2>1. Sequence(t)!Give
    BY <1>5, <1>6 DEF Sequence!Give, Handed
  <2> QED  BY <2>1 DEF Sequence!Next
<1>7. CASE given = Len(items) /\ Handed(d)' = given /\ d.last = Null /\ Items(d)' = items
  <2>1. Sequence(t)!GiveNothing
    BY <1>5, <1>7 DEF Sequence!GiveNothing, Handed
  <2> QED  BY <2>1 DEF Sequence!Next
<1> QED  BY <1>4, <1>6, <1>7

\* reset() starts the sequence over.
LEMMA SequenceResets ==
  ASSUME UNCHANGED <<store, prog>>, NEW t \in Threads, Opened(cursor[t]), cursor'[t] = ResetCursor(cursor[t])
  PROVE  [Sequence(t)!Next]_(Sequence(t)!vars)
<1> SUFFICES ASSUME NEW d, d = cursor'[t] PROVE [Sequence(t)!Next]_(Sequence(t)!vars)
  OBVIOUS
<1>1. d = cursor[t] \/ (d.last = Null /\ Handed(d) = 0)
  BY ResetStartsOver
<1>2. CASE d = cursor[t]
  <2>1. UNCHANGED Sequence(t)!vars
    BY <1>2, SequenceStays
  <2> QED  BY <2>1
<1>3. CASE d.last = Null /\ Handed(d) = 0
  <2>1. Handed(d)' = 0
    BY <1>3, ViewStays
  <2>2. Sequence(t)!Next
    BY <1>3, <2>1, SequenceStarts
  <2> QED  BY <2>2
<1> QED  BY <1>1, <1>2, <1>3

\* What the tree finds is a sequence of numbers.
LEMMA FoundIsSeq ==
  ASSUME NEW x, Trusted(x), IsWhole(x.tree), NEW q
  PROVE  Find(x.tree, q) \in Seq(Nat)
<1>1. PICK h : \E B \in Nat : Walkable(x.tree, h, B)
  BY DEF Trusted, Tame
<1>2. PICK B \in Nat : Walkable(x.tree, h, B)
  BY <1>1
<1> QED  BY <1>2, FindIsSeq

\* What a thread does with its own cursor.
LEMMA OwnSequence ==
  ASSUME IInv, WrittenInv, ThreadsInv, NEW t \in Threads, ThreadStep(t), UNCHANGED <<store, prog>>
  PROVE  [Sequence(t)!Next]_(Sequence(t)!vars)
<1>0. ThreadOk(thread[t], cursor[t], index) /\ cursor \in [Threads -> CursorRecords]
  BY OkNow
<1>1. CASE UNCHANGED cursor
  <2>1. UNCHANGED Sequence(t)!vars
    BY <1>1, SequenceStays
  <2> QED  BY <2>1
<1>2. ASSUME NEW q \in Queries, Ask(t, q), q.is_infinite PROVE Sequence(t)!Next
  <2>1. cursor'[t] = NewCursor(AllRows(prog.store), Infinite, FALSE)
    BY <1>0, <1>2 DEF Ask
  <2>2. prog.store \in Stores
    BY <1>2 DEF Ask, IInv, ProgramInv
  <2> DEFINE oids == AllRows(prog.store)
             no == FALSE
  <2>3. oids \in Seq(Nat) /\ Infinite \in GeoExtents /\ no \in BOOLEAN
    BY <2>2, AllRowsSeq, InvalidIs DEF Infinite, GeoExtents
  <2>4. cursor'[t] = NewCursor(oids, Infinite, no)
    BY <2>1
  <2> HIDE DEF oids, no
  <2> QED  BY <2>3, <2>4, SequenceOpens
<1>3. ASSUME FindFeatures(t) PROVE Sequence(t)!Next
  <2> DEFINE q == thread[t].query
             x == thread[t].index
             oids == Find(x.tree, q)
             exact == IsPoint(q)
  <2>1. cursor'[t] = NewCursor(oids, q, exact) /\ IsWhole(x.tree) /\ thread[t].pc = "find"
    BY <1>0, <1>3 DEF FindFeatures
  <2>2. Trusted(x) /\ Asks(q)
    BY <1>0, <2>1 DEF ThreadOk
  <2> HIDE DEF q, x
  <2>3. oids \in Seq(Nat) /\ q \in GeoExtents
    BY <2>1, <2>2, FoundIsSeq DEF Asks
  <2>4. exact \in BOOLEAN
    BY <2>3, ExtentParts DEF IsPoint
  <2> HIDE DEF oids, exact
  <2> QED  BY <2>1, <2>3, <2>4, SequenceOpens
<1>4. ASSUME ReadNext(t) \/ ReadAgain(t) PROVE [Sequence(t)!Next]_(Sequence(t)!vars)
  <2>1. Opened(cursor[t])
    BY <1>0, <1>4 DEF ThreadOk, ReadNext, ReadAgain
  <2>2. CASE ReadNext(t)
    <3>1. cursor'[t] = NextFeature(cursor[t])
      BY <1>0, <2>2 DEF ReadNext
    <3>2. Sequence(t)!Next
      BY <2>1, <3>1, SequenceGives
    <3> QED  BY <3>2
  <2>3. CASE ReadAgain(t)
    <3>1. cursor'[t] = ResetCursor(cursor[t])
      BY <1>0, <2>3 DEF ReadAgain
    <3> QED  BY <2>1, <3>1, SequenceResets
  <2> QED  BY <1>4, <2>2, <2>3
<1>5. ASSUME EndReading(t) PROVE Sequence(t)!Next
  <2>1. cursor'[t] = NoCursor
    BY <1>0, <1>5 DEF EndReading
  <2> QED  BY <2>1, SequenceCloses
<1>6. ASSUME NEW q \in Queries, Ask(t, q), ~q.is_infinite PROVE UNCHANGED cursor
  BY <1>6 DEF Ask
<1>7. CASE \E q \in Queries : Ask(t, q)
  <2>1. PICK q \in Queries : Ask(t, q)
    BY <1>7
  <2>2. CASE q.is_infinite
    BY <1>2, <2>1, <2>2
  <2>3. CASE ~q.is_infinite
    BY <1>1, <1>6, <2>1, <2>3
  <2> QED  BY <2>2, <2>3
<1>8. CASE AssertIndex(t) \/ LoadIndex(t) \/ BuildIndex(t) \/ SaveIndex(t) \/ InstallIndex(t) \/ EnterIndex(t)
           \/ FindCrashes(t) \/ KilledWhileSaving(t)
  <2>1. UNCHANGED cursor
    BY <1>8 DEF AssertIndex, LoadIndex, BuildIndex, SaveIndex, InstallIndex, EnterIndex, FindCrashes, KilledWhileSaving
  <2> QED  BY <1>1, <2>1
<1> QED  BY <1>3, <1>4, <1>5, <1>7, <1>8 DEF ThreadStep

\* What happens to a thread's cursor in any step.
LEMMA EverySequence ==
  ASSUME IInv, WrittenInv, ThreadsInv, [Next]_vars, NEW u \in Threads
  PROVE  [Sequence(u)!Next]_(Sequence(u)!vars)
<1>0. cursor \in [Threads -> CursorRecords] /\ ThreadOk(thread[u], cursor[u], index)
  BY OkNow
<1>1. CASE UNCHANGED <<store, prog>> /\ cursor'[u] = cursor[u]
  <2>1. UNCHANGED Sequence(u)!vars
    BY <1>1, SequenceStays
  <2> QED  BY <2>1
<1>2. CASE cursor'[u] = NoCursor
  <2>1. Sequence(u)!Next
    BY <1>2, SequenceCloses
  <2> QED  BY <2>1
<1>3. CASE UNCHANGED vars \/ Tick
  <2>1. UNCHANGED <<store, prog>> /\ UNCHANGED cursor
    BY <1>3 DEF vars, Tick
  <2> QED  BY <1>1, <2>1
<1>4. CASE (\E s \in Stores : StartReading(s) \/ \E features \in Contents[s] : StartWriting(s, features))
           \/ WriteFeature \/ CloseStore
  <2>1. prog.mode # "read" /\ UNCHANGED cursor
    <3>1. CASE \E s \in Stores : StartReading(s) \/ \E features \in Contents[s] : StartWriting(s, features)
      <4>1. prog = Off /\ UNCHANGED <<clock, cursor>>
        BY <3>1, Zenon DEF StartReading, StartWriting
      <4> QED  BY <4>1 DEF Off
    <3>2. CASE WriteFeature \/ CloseStore
      BY <3>2 DEF WriteFeature, CloseStore
    <3> QED  BY <1>4, <3>1, <3>2
  <2>2. thread[u].pc = "idle"
    BY <2>1 DEF IInv, ProgramInv
  <2>3. cursor'[u] = NoCursor
    BY <1>0, <2>1, <2>2 DEF ThreadOk
  <2> QED  BY <1>2, <2>3
<1>5. CASE StopProgram
  <2>1. cursor'[u] = NoCursor
    BY <1>5 DEF StopProgram
  <2> QED  BY <1>2, <2>1
<1>6. ASSUME NEW t \in Threads, ThreadStep(t) PROVE [Sequence(u)!Next]_(Sequence(u)!vars)
  <2>1. UNCHANGED <<store, prog>>
    BY <1>6 DEF ThreadStep, Ask, AssertIndex, LoadIndex, BuildIndex, SaveIndex, InstallIndex, EnterIndex,
                FindFeatures, FindCrashes, ReadNext, ReadAgain, EndReading, KilledWhileSaving
  <2>2. CASE t = u
    BY <1>6, <2>1, <2>2, OwnSequence
  <2>3. CASE t # u
    <3>1. cursor'[u] = cursor[u]
      BY <1>0, <1>6, <2>3 DEF ThreadStep, Ask, AssertIndex, LoadIndex, BuildIndex, SaveIndex, InstallIndex, EnterIndex,
                FindFeatures, FindCrashes, ReadNext, ReadAgain, EndReading, KilledWhileSaving
    <3> QED  BY <1>1, <2>1, <3>1
  <2> QED  BY <2>2, <2>3
<1> QED  BY <1>3, <1>4, <1>5, <1>6 DEF Next

\* No cursor is open at first.
LEMMA InitSequences == ASSUME Init PROVE \A t \in Threads : Sequence(t)!Init
<1> SUFFICES ASSUME NEW t \in Threads PROVE Sequence(t)!Init
  OBVIOUS
<1>1. cursor[t] = NoCursor
  BY DEF Init
<1>2. Handed(cursor[t]) = 0 /\ cursor[t].last = Null
  BY <1>1, ClosedIsNothing, NoCursorIs
<1> QED  BY <1>2 DEF Sequence!Init, Handed

\* Every thread's cursor is the plain sequence of the features that match:
\* reading ahead in batches, filtering and starting over do not show, whatever the
\* other threads do meanwhile: CursorsAreSequences of FeatureLayer.
THEOREM CursorsImplementSequences ==
  ASSUME PrintsInOrder
  PROVE  Spec => CursorsAreSequences
<1>1. Init => IInv /\ WrittenInv /\ ThreadsInv /\ FileInv
  BY InitInv, InitWritten, InitReading
<1>2. IInv /\ WrittenInv /\ ThreadsInv /\ FileInv /\ [Next]_vars => (IInv /\ WrittenInv /\ ThreadsInv /\ FileInv)'
  BY NextInv, WrittenStep, NextReading
<1>3. Init => \A t \in Threads : Sequence(t)!Init
  BY InitSequences
<1>4. IInv /\ WrittenInv /\ ThreadsInv /\ FileInv /\ [Next]_vars
        => [\A t \in Threads : [Sequence(t)!Next]_(Sequence(t)!vars)]_vars
  BY EverySequence
<1> QED  BY <1>1, <1>2, <1>3, <1>4, PTL DEF Spec, CursorsAreSequences
===============================================================================
