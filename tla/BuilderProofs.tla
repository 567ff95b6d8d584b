--------------------------- MODULE BuilderProofs ---------------------------
(***************************************************************************)
(* Proofs about Builder, for any sources, any parents (cycles included),   *)
(* any edits and any failures.                                             *)
(***************************************************************************)
EXTENDS Builder, TLAPS

Calling == {"checking", "compiling", "writing", "returning"}

(***************************************************************************)
(* The stack of calls climbs from a source of the layer to parents: a call *)
(* waits for another one only if its source has a parent.                  *)
(***************************************************************************)
CallInv ==
  /\ parent_source \in Parents
  /\ pc \in Positions
  /\ runs \in 0..MaxRuns
  /\ layer \in Layers \cup {<<>>} /\ done \in 0..Len(layer)
  /\ path \in Seq(Sources) /\ Len(path) <= MaxDepth
  /\ pc \in Calling => path # <<>> /\ done < Len(layer)
  /\ \A i \in 1..(Len(path) - 1) : isIntermediate(path[i])
  /\ pc \in {"compiling", "writing"} => isIntermediate(self)

\* No file is from the future, and what is being written has its parent.
FileInv ==
  /\ clock \in 1..MaxTime
  /\ content \in [Sources -> Contents]
  /\ mtime \in [Sources -> 0..clock]
  /\ \A s \in Sources : mtime[s] = 0 <=> content[s] = Absent
  /\ troubled \subseteq Sources

WritingInv ==
  pc = "writing" => self \in troubled /\ content[parent] # Absent

IInv ==
  CallInv /\ FileInv /\ WritingInv /\ NewerMeansMatching /\ BuiltFromParent

-----------------------------------------------------------------------------
\* The parent of an intermediate source is a source.
LEMMA ParentIsSource ==
  ASSUME parent_source \in Parents, NEW s \in Sources, isIntermediate(s)
  PROVE  parent_source[s] \in Sources
BY SourcesAssumption DEF isIntermediate

\* While a call is on the stack, the last one is for a source.
LEMMA SelfIsSource ==
  ASSUME path \in Seq(Sources), path # <<>>
  PROVE  self \in Sources
BY DEF self, Last

LEMMA NotEmpty ==
  ASSUME NEW S, NEW q \in Seq(S), Len(q) # 0
  PROVE  q # <<>>
OBVIOUS

\* Another call on the stack, and the return from it.
LEMMA StackGrows ==
  ASSUME NEW S, NEW p \in Seq(S), NEW s \in S
  PROVE  /\ Append(p, s) \in Seq(S)
         /\ Append(p, s) # <<>>
         /\ Len(Append(p, s)) = Len(p) + 1
         /\ \A i \in 1..Len(p) : Append(p, s)[i] = p[i]
<1>1. Append(p, s) \in Seq(S) /\ Len(Append(p, s)) = Len(p) + 1
  OBVIOUS
<1>2. Append(p, s) # <<>>
  <2>1. Len(p) + 1 # 0
    OBVIOUS
  <2>. QED
    BY <1>1, <2>1, NotEmpty
<1>3. \A i \in 1..Len(p) : Append(p, s)[i] = p[i]
  OBVIOUS
<1>. QED
  BY <1>1, <1>2, <1>3

LEMMA StackShrinks ==
  ASSUME NEW S, NEW p \in Seq(S), Len(p) > 1
  PROVE  /\ Front(p) \in Seq(S)
         /\ Front(p) # <<>>
         /\ Len(Front(p)) = Len(p) - 1
         /\ \A i \in 1..(Len(p) - 1) : Front(p)[i] = p[i]
         /\ Last(Front(p)) = p[Len(p) - 1]
<1>1. Len(p) \in Nat /\ 1 <= Len(p) + 1 /\ Len(p) - 1 <= Len(p)
  OBVIOUS
<1>2. /\ SubSeq(p, 1, Len(p) - 1) \in Seq(S)
      /\ Len(SubSeq(p, 1, Len(p) - 1)) = Len(p) - 1
      /\ \A i \in 1..(Len(p) - 1) : SubSeq(p, 1, Len(p) - 1)[i] = p[i]
  BY <1>1
<1>3. Len(p) - 1 \in 1..(Len(p) - 1)
  BY <1>1
<1>4. SubSeq(p, 1, Len(p) - 1) # <<>>
  <2> DEFINE q == SubSeq(p, 1, Len(p) - 1)
  <2>1. q \in Seq(S) /\ Len(q) # 0
    BY <1>1, <1>2
  <2> HIDE DEF q
  <2>2. q # <<>>
    BY <2>1, NotEmpty
  <2>. QED
    BY <2>2 DEF q
<1>5. Front(p) = SubSeq(p, 1, Len(p) - 1)
  BY DEF Front
<1>6. Last(Front(p)) = p[Len(p) - 1]
  BY <1>2, <1>3, <1>5 DEF Last
<1>. QED
  BY <1>2, <1>4, <1>5, <1>6

-----------------------------------------------------------------------------
LEMMA CallInit == Init => CallInv
BY SourcesAssumption, BoundsAssumption
   DEF Init, CallInv, Positions, Calling

LEMMA CallStep == CallInv /\ [Next]_vars => CallInv'
<1> SUFFICES ASSUME CallInv, [Next]_vars PROVE CallInv'
  OBVIOUS
<1> USE DEF CallInv, Positions, Calling
<1>1. CASE Tick \/ \E s \in Sources : Edit(s) \/ Delete(s)
  BY <1>1 DEF Tick, Edit, Delete, fileVars, isIntermediate, self
<1>2. CASE StartLayer
  BY <1>2, SourcesAssumption, BoundsAssumption DEF StartLayer, isIntermediate
<1>3. CASE NextSource
  <2>1. layer \in Seq(Sources) /\ done + 1 \in 1..Len(layer)
    BY <1>3, SourcesAssumption DEF NextSource
  <2>2. /\ path' \in Seq(Sources) /\ Len(path') = 1
        /\ pc' = "checking"
        /\ UNCHANGED <<parent_source, runs, layer, done>>
    BY <1>3, <2>1 DEF NextSource
  <2>. QED
    BY <1>3, <2>1, <2>2, BoundsAssumption DEF NextSource
<1>4. CASE EndOfSources
  BY <1>4 DEF EndOfSources, isIntermediate
<1>5. CASE OpenSource
  BY <1>5, BoundsAssumption DEF OpenSource, isIntermediate
<1>6. CASE NoNeed
  BY <1>6 DEF NoNeed, BuilderFrame, isIntermediate
<1>7. CASE BuildParent
  <2>1. isIntermediate(self) /\ self \in Sources /\ parent \in Sources
    BY <1>7, SelfIsSource, ParentIsSource DEF BuildParent, NeedsBuild, parent
  <2>2. CASE Len(path) < MaxDepth
    <3>1. path' = Append(path, parent) /\ pc' = pc
      BY <1>7, <2>2 DEF BuildParent
    <3>2. \A i \in 1..(Len(path') - 1) : isIntermediate(path'[i])
      <4>1. \A i \in 1..Len(path) : i = Len(path) \/ i \in 1..(Len(path) - 1)
        OBVIOUS
      <4>2. \A i \in 1..Len(path) : isIntermediate(path[i])
        BY <2>1, <4>1 DEF self, Last
      <4>. QED
        BY <2>1, <3>1, <4>2, StackGrows
    <3>. QED
      BY <1>7, <2>1, <2>2, <3>1, <3>2, StackGrows, BoundsAssumption
         DEF BuildParent, BuilderFrame, isIntermediate
  <2>3. CASE ~(Len(path) < MaxDepth)
    BY <1>7, <2>3 DEF BuildParent, BuilderFrame, isIntermediate
  <2>. QED
    BY <2>2, <2>3
<1>8. CASE ParentBuilt
  <2>1. Len(path) > 1 /\ path' = Front(path)
    BY <1>8 DEF ParentBuilt
  <2>2. Len(path) - 1 \in 1..(Len(path) - 1)
    BY <2>1
  <2>3. isIntermediate(self)'
    BY <1>8, <2>1, <2>2, StackShrinks
       DEF ParentBuilt, BuilderFrame, isIntermediate, self
  <2>4. \A i \in 1..(Len(path') - 1) : isIntermediate(path[i]) /\ path'[i] = path[i]
    BY <2>1, StackShrinks
  <2>. QED
    BY <1>8, <2>1, <2>3, <2>4, StackShrinks, BoundsAssumption
       DEF ParentBuilt, BuilderFrame, isIntermediate
<1>9. CASE Refused
  BY <1>9, BoundsAssumption DEF Refused, BuilderFrame, isIntermediate
<1>10. CASE CreateStore \/ NothingWritten \/ StoreWritten \/ StoreIncomplete
  BY <1>10 DEF CreateStore, NothingWritten, StoreWritten, StoreIncomplete,
     CanCompile, BuilderFrame, isIntermediate, self
<1>11. CASE Crash
  BY <1>11, BoundsAssumption DEF Crash, isIntermediate
<1>12. CASE UNCHANGED vars
  BY <1>12 DEF vars, isIntermediate, self
<1>. QED
  BY <1>1, <1>2, <1>3, <1>4, <1>5, <1>6, <1>7, <1>8, <1>9, <1>10, <1>11,
     <1>12 DEF Next, BuilderStep

-----------------------------------------------------------------------------
\* A file that is written now, with something in it.
LEMMA WrittenFile ==
  ASSUME FileInv, NEW s \in Sources, NEW v \in Contents \ {Absent},
         Writes(s, v), clock' = clock, troubled' \subseteq Sources
  PROVE  FileInv'
<1>1. clock # 0 /\ clock \in 0..clock
  BY DEF FileInv
<1>2. /\ content' \in [Sources -> Contents] /\ mtime' \in [Sources -> 0..clock]
      /\ content'[s] = v /\ mtime'[s] = clock
      /\ \A t \in Sources \ {s} : content'[t] = content[t] /\ mtime'[t] = mtime[t]
  BY <1>1 DEF FileInv, Writes
<1>. QED
  BY <1>1, <1>2 DEF FileInv

LEMMA FileInit == Init => FileInv
<1> SUFFICES ASSUME Init PROVE FileInv
  OBVIOUS
<1>1. PICK v \in Versions :
        content = [s \in Sources |->
                     IF parent_source[s] = NoSource THEN v ELSE Absent]
  BY DEF Init
<1>. QED
  BY <1>1, ContentsAssumption, BoundsAssumption DEF Init, FileInv, Contents

\* What the compiler writes is something, and so is its input.
LEMMA OutputIsContent ==
  ASSUME CallInv, FileInv, WritingInv, pc = "writing"
  PROVE  /\ self \in Sources /\ parent \in Sources
         /\ content[parent] \in Contents \ {Absent}
         /\ Partial \in Contents \ {Absent}
<1>1. self \in Sources /\ parent \in Sources
  BY SelfIsSource, ParentIsSource DEF CallInv, Calling, parent
<1>. QED
  BY <1>1, ContentsAssumption DEF FileInv, WritingInv, Contents

LEMMA FileStep ==
  CallInv /\ FileInv /\ WritingInv /\ [Next]_vars => FileInv'
<1> SUFFICES ASSUME CallInv, FileInv, WritingInv, [Next]_vars PROVE FileInv'
  OBVIOUS
<1>1. CASE Tick
  BY <1>1, BoundsAssumption DEF Tick, FileInv, fileVars
<1>2. ASSUME NEW s \in Sources, Edit(s) PROVE FileInv'
  <2>1. PICK v \in Versions : Writes(s, v)
    BY <1>2 DEF Edit
  <2>. QED
    BY <1>2, <2>1, WrittenFile, ContentsAssumption DEF Edit, Contents, FileInv
<1>3. ASSUME NEW s \in Sources, Delete(s) PROVE FileInv'
  <2>1. 0 \in 0..clock
    BY DEF FileInv
  <2>. QED
    BY <1>3, <2>1 DEF Delete, FileInv, Contents
<1>4. CASE CreateStore
  <2>1. self \in Sources
    BY <1>4, SelfIsSource DEF CreateStore, CanCompile, CallInv, Calling
  <2>2. Partial \in Contents \ {Absent}
    BY ContentsAssumption DEF Contents
  <2>3. /\ Writes(self, Partial) /\ clock' = clock
        /\ troubled' = troubled \cup {self}
    BY <1>4 DEF CreateStore, BuilderFrame
  <2>. QED
    BY <2>1, <2>2, <2>3, WrittenFile DEF FileInv
<1>5. CASE NothingWritten
  <2>1. self \in Sources
    BY <1>5, SelfIsSource DEF NothingWritten, CanCompile, CallInv, Calling
  <2>. QED
    BY <1>5, <2>1 DEF NothingWritten, BuilderFrame, FileInv
<1>6. CASE StoreWritten
  <2>1. /\ pc = "writing" /\ Writes(self, content[parent]) /\ clock' = clock
        /\ troubled' = troubled \ {self}
    BY <1>6 DEF StoreWritten, BuilderFrame
  <2>. QED
    BY <2>1, OutputIsContent, WrittenFile DEF FileInv
<1>7. CASE StoreIncomplete
  <2>1. /\ pc = "writing" /\ Writes(self, Partial) /\ clock' = clock
        /\ troubled' = troubled
    BY <1>7 DEF StoreIncomplete, BuilderFrame
  <2>. QED
    BY <2>1, OutputIsContent, WrittenFile DEF FileInv
<1>8. CASE \/ StartLayer \/ NextSource \/ EndOfSources \/ OpenSource \/ NoNeed
           \/ BuildParent \/ ParentBuilt \/ Refused \/ Crash
  BY <1>8 DEF StartLayer, NextSource, EndOfSources, OpenSource, NoNeed,
     BuildParent, ParentBuilt, Refused, Crash, BuilderFrame, fileVars, FileInv
<1>9. CASE UNCHANGED vars
  BY <1>9 DEF vars, fileVars, FileInv
<1>. QED
  BY <1>1, <1>2, <1>3, <1>4, <1>5, <1>6, <1>7, <1>8, <1>9
     DEF Next, BuilderStep

-----------------------------------------------------------------------------
LEMMA WritingInit == Init => WritingInv
BY DEF Init, WritingInv

\* The input of a compile stays while its output is written: only the builder
\* writes then, and it is not at the parent.
LEMMA WritingStep ==
  CallInv /\ FileInv /\ WritingInv /\ [Next]_vars => WritingInv'
<1> SUFFICES ASSUME CallInv, FileInv, WritingInv, [Next]_vars, pc' = "writing"
             PROVE  WritingInv'
  BY DEF WritingInv
<1>1. CASE CreateStore
  <2>1. /\ self \in Sources /\ isIntermediate(self) /\ parent \in Sources
        /\ content[parent] # Absent
    BY <1>1, SelfIsSource, ParentIsSource
       DEF CreateStore, CanCompile, CallInv, Calling, parent
  <2>2. content'[parent] # Absent
    BY <1>1, <2>1, ContentsAssumption DEF CreateStore, Writes, FileInv
  <2>3. self' = self /\ parent' = parent
    BY <1>1 DEF CreateStore, BuilderFrame, self, parent
  <2>4. self \in troubled'
    BY <1>1 DEF CreateStore
  <2>. QED
    BY <2>2, <2>3, <2>4 DEF WritingInv
<1>2. CASE Tick \/ UNCHANGED vars
  BY <1>2 DEF Tick, vars, fileVars, WritingInv, self, parent
<1>3. CASE BuildParent
  BY <1>3 DEF BuildParent
<1>4. CASE \/ \E s \in Sources : Edit(s) \/ Delete(s)
           \/ StartLayer \/ NextSource \/ EndOfSources \/ OpenSource \/ NoNeed
           \/ ParentBuilt \/ Refused \/ NothingWritten \/ StoreWritten
           \/ StoreIncomplete \/ Crash
  BY <1>4 DEF Edit, Delete, StartLayer, NextSource, EndOfSources, OpenSource,
     NoNeed, ParentBuilt, Refused, NothingWritten, StoreWritten,
     StoreIncomplete, Crash
<1>. QED
  BY <1>1, <1>2, <1>3, <1>4 DEF Next, BuilderStep

-----------------------------------------------------------------------------
\* A file that is written now is newer than no other: what was made from it is
\* not up to date any more.
LEMMA WrittenMatches ==
  ASSUME CallInv, FileInv, NewerMeansMatching,
         NEW s \in Sources, NEW v, Writes(s, v),
         UNCHANGED <<parent_source, clock>>,
         troubled \ {s} \subseteq troubled',
         \/ s \in troubled'
         \/ ~isIntermediate(s)
         \/ v = content[parent_source[s]]
  PROVE  NewerMeansMatching'
<1> SUFFICES ASSUME NEW t \in Sources, t \notin troubled', isIntermediate(t),
                    content'[parent_source[t]] # Absent,
                    mtime'[parent_source[t]] < mtime'[t]
             PROVE  content'[t] = content'[parent_source[t]]
  BY DEF NewerMeansMatching, isIntermediate, Matches
<1>1. parent_source[t] \in Sources
  BY ParentIsSource DEF CallInv
<1>2. /\ content'[s] = v /\ mtime'[s] = clock
      /\ \A u \in Sources \ {s} : content'[u] = content[u] /\ mtime'[u] = mtime[u]
  BY DEF FileInv, Writes
<1>3. \A u \in Sources : mtime[u] \in Nat /\ mtime[u] <= clock /\ clock \in Nat
  BY DEF FileInv
<1>4. CASE t = s /\ parent_source[t] = s
  BY <1>4
<1>5. CASE t = s /\ parent_source[t] # s
  BY <1>1, <1>2, <1>5
<1>6. CASE t # s /\ parent_source[t] = s
  BY <1>2, <1>3, <1>6
<1>7. CASE t # s /\ parent_source[t] # s
  BY <1>1, <1>2, <1>7 DEF NewerMeansMatching, Matches
<1>. QED
  BY <1>4, <1>5, <1>6, <1>7

LEMMA MatchingInit == Init => NewerMeansMatching
<1> SUFFICES ASSUME Init, NEW s \in Sources, isIntermediate(s)
             PROVE  ~(mtime[parent_source[s]] < mtime[s])
  BY DEF NewerMeansMatching
<1>1. parent_source[s] \in Sources
  BY ParentIsSource DEF Init
<1>. QED
  BY <1>1 DEF Init, isIntermediate

LEMMA MatchingStep ==
  /\ CallInv /\ FileInv /\ WritingInv /\ NewerMeansMatching
  /\ [Next]_vars
  => NewerMeansMatching'
<1> SUFFICES ASSUME CallInv, FileInv, WritingInv, NewerMeansMatching, [Next]_vars
             PROVE  NewerMeansMatching'
  OBVIOUS
<1>1. ASSUME NEW s \in Sources, Edit(s) PROVE NewerMeansMatching'
  <2>1. PICK v \in Versions : Writes(s, v)
    BY <1>1 DEF Edit
  <2>. QED
    BY <1>1, <2>1, WrittenMatches DEF Edit
<1>2. ASSUME NEW s \in Sources, Delete(s) PROVE NewerMeansMatching'
  <2> SUFFICES ASSUME NEW t \in Sources, t \notin troubled', isIntermediate(t),
                      content'[parent_source[t]] # Absent,
                      mtime'[parent_source[t]] < mtime'[t]
               PROVE  content'[t] = content'[parent_source[t]]
    BY <1>2 DEF Delete, NewerMeansMatching, isIntermediate, Matches
  <2>1. parent_source[t] \in Sources
    BY ParentIsSource DEF CallInv
  <2>2. /\ content'[s] = Absent /\ mtime'[s] = 0 /\ troubled' = troubled \ {s}
        /\ \A u \in Sources \ {s} : content'[u] = content[u] /\ mtime'[u] = mtime[u]
    BY <1>2 DEF Delete, FileInv
  <2>3. mtime'[parent_source[t]] \in Nat
    BY <2>1, <2>2 DEF FileInv
  <2>4. t # s /\ parent_source[t] # s
    BY <2>2, <2>3
  <2>. QED
    BY <2>1, <2>2, <2>4 DEF NewerMeansMatching, Matches
<1>3. CASE CreateStore
  <2>1. self \in Sources
    BY <1>3, SelfIsSource DEF CreateStore, CanCompile, CallInv, Calling
  <2>2. /\ Writes(self, Partial) /\ UNCHANGED <<parent_source, clock>>
        /\ troubled' = troubled \cup {self}
    BY <1>3 DEF CreateStore, BuilderFrame
  <2>3. self \in troubled' /\ troubled \ {self} \subseteq troubled'
    BY <2>2
  <2>. QED
    BY <2>1, <2>2, <2>3, WrittenMatches
<1>4. CASE NothingWritten
  BY <1>4 DEF NothingWritten, BuilderFrame, NewerMeansMatching, isIntermediate,
     Matches
<1>5. CASE StoreWritten
  <2>1. /\ pc = "writing" /\ Writes(self, content[parent])
        /\ UNCHANGED <<parent_source, clock>> /\ troubled' = troubled \ {self}
    BY <1>5 DEF StoreWritten, BuilderFrame
  <2>2. self \in Sources /\ parent = parent_source[self]
    BY <2>1, OutputIsContent DEF parent
  <2>. QED
    BY <2>1, <2>2, WrittenMatches
<1>6. CASE StoreIncomplete
  <2>1. /\ pc = "writing" /\ Writes(self, Partial)
        /\ UNCHANGED <<parent_source, clock>> /\ troubled' = troubled
    BY <1>6 DEF StoreIncomplete, BuilderFrame
  <2>2. self \in Sources /\ self \in troubled'
    BY <2>1, OutputIsContent DEF WritingInv
  <2>. QED
    BY <2>1, <2>2, WrittenMatches
<1>7. CASE \/ Tick \/ StartLayer \/ NextSource \/ EndOfSources \/ OpenSource
           \/ NoNeed \/ BuildParent \/ ParentBuilt \/ Refused \/ Crash
           \/ UNCHANGED vars
  BY <1>7 DEF Tick, StartLayer, NextSource, EndOfSources, OpenSource, NoNeed,
     BuildParent, ParentBuilt, Refused, Crash, BuilderFrame, vars, fileVars,
     NewerMeansMatching, isIntermediate, Matches
<1>. QED
  BY <1>1, <1>2, <1>3, <1>4, <1>5, <1>6, <1>7 DEF Next, BuilderStep

-----------------------------------------------------------------------------
LEMMA BuiltInit == Init => BuiltFromParent
BY DEF Init, BuiltFromParent

LEMMA BuiltStep == IInv /\ [Next]_vars => BuiltFromParent'
<1> SUFFICES ASSUME IInv, [Next]_vars, pc' = "returning"
             PROVE  BuiltFromParent'
  BY DEF BuiltFromParent
<1> USE DEF IInv
<1>1. CASE NoNeed
  <2>1. self \in Sources
    BY <1>1, SelfIsSource DEF NoNeed, CallInv, Calling
  <2>2. ~isIntermediate(self) \/ mtime[parent] < mtime[self]
    BY <1>1 DEF NoNeed, NeedsBuild, UpToDate, getTimeLastModified, parent
  <2>3. \/ ~isIntermediate(self) \/ self \in troubled
        \/ content[parent] = Absent \/ Matches(self)
    BY <2>1, <2>2 DEF NewerMeansMatching, parent
  <2>. QED
    BY <1>1, <2>3 DEF NoNeed, BuilderFrame, fileVars, BuiltFromParent,
       isIntermediate, self, parent, Matches
<1>2. CASE NothingWritten
  BY <1>2 DEF NothingWritten, BuilderFrame, BuiltFromParent, self
<1>3. CASE StoreWritten
  <2>1. self \in Sources /\ parent \in Sources
    BY <1>3, OutputIsContent DEF StoreWritten
  <2>2. content'[self] = content'[parent]
    BY <1>3, <2>1 DEF StoreWritten, Writes, FileInv
  <2>. QED
    BY <1>3, <2>2 DEF StoreWritten, BuilderFrame, BuiltFromParent, self, parent,
       Matches
<1>4. CASE StoreIncomplete
  BY <1>4 DEF StoreIncomplete, BuilderFrame, WritingInv, BuiltFromParent, self
<1>5. CASE Tick \/ UNCHANGED vars
  BY <1>5 DEF Tick, vars, fileVars, BuiltFromParent, isIntermediate, self,
     parent, Matches
<1>6. CASE BuildParent
  BY <1>6 DEF BuildParent
<1>7. CASE \/ \E s \in Sources : Edit(s) \/ Delete(s)
           \/ StartLayer \/ NextSource \/ EndOfSources \/ OpenSource
           \/ ParentBuilt \/ Refused \/ CreateStore \/ Crash
  BY <1>7 DEF Edit, Delete, StartLayer, NextSource, EndOfSources, OpenSource,
     ParentBuilt, Refused, CreateStore, Crash
<1>. QED
  BY <1>1, <1>2, <1>3, <1>4, <1>5, <1>6, <1>7 DEF Next, BuilderStep

(***************************************************************************)
(* The calls, the files and what is in them fit together in every state.   *)
(***************************************************************************)
THEOREM Invariance == Spec => []IInv
<1>1. Init => IInv
  BY CallInit, FileInit, WritingInit, MatchingInit, BuiltInit DEF IInv
<1>2. IInv /\ [Next]_vars => IInv'
  BY CallStep, FileStep, WritingStep, MatchingStep, BuiltStep DEF IInv
<1>. QED
  BY <1>1, <1>2, PTL DEF Spec

\* The state stays within its types, with a stack of bounded depth.
THEOREM TypeCorrect == Spec => []TypeOK
<1>1. IInv => TypeOK
  BY DEF IInv, CallInv, FileInv, TypeOK
<1>. QED
  BY <1>1, Invariance, PTL

(***************************************************************************)
(* A file that is newer than its parent's was made from what the parent    *)
(* holds: the comparison of times in build( Source ) never takes a file    *)
(* for up to date that is not, as far as its own parent goes.              *)
(***************************************************************************)
THEOREM TimesAreTruthful == Spec => []NewerMeansMatching
<1>1. IInv => NewerMeansMatching
  BY DEF IInv
<1>. QED
  BY <1>1, Invariance, PTL

(***************************************************************************)
(* Whatever build( Source ) returns true for was made from its parent, or  *)
(* could not be written.                                                   *)
(***************************************************************************)
THEOREM BuildsFromParent == Spec => []BuiltFromParent
<1>1. IInv => BuiltFromParent
  BY DEF IInv
<1>. QED
  BY <1>1, Invariance, PTL
=============================================================================
