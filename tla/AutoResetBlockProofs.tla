------------------------ MODULE AutoResetBlockProofs ------------------------
(***************************************************************************)
(* Proofs about AutoResetBlock for any set of threads and any bounds.      *)
(***************************************************************************)
EXTENDS AutoResetBlock, TLAPS

(***************************************************************************)
(* The step of one thread, as one formula: the steps below split on it.    *)
(***************************************************************************)
ThreadStep(t) ==
  \/ BlockPasses(t)
  \/ BlockWaits(t)
  \/ TimedBlockWaits(t)
  \/ Expire(t)
  \/ WakeSpuriously(t)
  \/ ReturnTrue(t)
  \/ ReturnFalse(t)

(***************************************************************************)
(* The actions of the specification are signal() and the threads' steps.   *)
(***************************************************************************)
LEMMA NextCases == Next <=> Signal \/ \E t \in Threads : ThreadStep(t)
BY DEF Next, ThreadStep, Return

-----------------------------------------------------------------------------
(***************************************************************************)
(* Type correctness: the counter never goes below zero, which the code     *)
(* secures by the test in signal_count == 0? 0 : signal_count-1.           *)
(***************************************************************************)
THEOREM TypeCorrect == Spec => []TypeOK
<1>1. Init => TypeOK
  BY DEF Init, TypeOK, Positions
<1>2. TypeOK /\ [Next]_vars => TypeOK'
  <2> SUFFICES ASSUME TypeOK, [Next]_vars PROVE TypeOK'
    OBVIOUS
  <2>1. CASE Signal
    BY <2>1 DEF Signal, TypeOK, Broadcast, Positions
  <2>2. ASSUME NEW t \in Threads, ThreadStep(t) PROVE TypeOK'
    BY <2>2 DEF ThreadStep, TypeOK, Positions, BlockPasses, BlockWaits,
       TimedBlockWaits, Expire, WakeSpuriously, ReturnTrue, ReturnFalse,
       Decrement
  <2>3. CASE UNCHANGED vars
    BY <2>3 DEF vars, TypeOK
  <2>. QED
    BY <2>1, <2>2, <2>3, NextCases
<1>. QED
  BY <1>1, <1>2, PTL DEF Spec

-----------------------------------------------------------------------------
(***************************************************************************)
(* No wake-up is lost: signal() wakes all sleepers in the step in which    *)
(* it counts the signal, and a thread goes to sleep only at zero.          *)
(***************************************************************************)
THEOREM WakeupsKept == Spec => []NoLostWakeup
<1>1. Init => NoLostWakeup
  BY DEF Init, NoLostWakeup, Asleep
<1>2. TypeOK /\ NoLostWakeup /\ [Next]_vars => NoLostWakeup'
  <2> SUFFICES ASSUME TypeOK, NoLostWakeup, [Next]_vars PROVE NoLostWakeup'
    OBVIOUS
  <2>1. CASE Signal
    BY <2>1 DEF Signal, TypeOK, Broadcast, NoLostWakeup, Asleep, Positions
  <2>2. ASSUME NEW t \in Threads, ThreadStep(t) PROVE NoLostWakeup'
    BY <2>2 DEF ThreadStep, TypeOK, NoLostWakeup, Asleep, BlockPasses,
       BlockWaits, TimedBlockWaits, Expire, WakeSpuriously, ReturnTrue,
       ReturnFalse, Decrement
  <2>3. CASE UNCHANGED vars
    BY <2>3 DEF vars, NoLostWakeup, Asleep
  <2>. QED
    BY <2>1, <2>2, <2>3, NextCases
<1>. QED
  BY <1>1, <1>2, TypeCorrect, PTL DEF Spec

-----------------------------------------------------------------------------
(***************************************************************************)
(* No signal is dropped: a call lowers the counter by at most one, and     *)
(* then it returns true; a call that times out leaves the counter alone.   *)
(***************************************************************************)
THEOREM SignalsKept == Spec => []NoSignalDropped
<1>1. Init => NoSignalDropped
  BY DEF Init, NoSignalDropped
<1>2. TypeOK /\ NoSignalDropped /\ [Next]_vars => NoSignalDropped'
  <2> SUFFICES ASSUME TypeOK, NoSignalDropped, [Next]_vars
               PROVE  NoSignalDropped'
    OBVIOUS
  <2>1. CASE Signal
    BY <2>1 DEF Signal, TypeOK, NoSignalDropped
  <2>2. ASSUME NEW t \in Threads, ThreadStep(t) PROVE NoSignalDropped'
    BY <2>2 DEF ThreadStep, TypeOK, NoSignalDropped, BlockPasses, BlockWaits,
       TimedBlockWaits, Expire, WakeSpuriously, ReturnTrue, ReturnFalse,
       Decrement
  <2>3. CASE UNCHANGED vars
    BY <2>3 DEF vars, NoSignalDropped
  <2>. QED
    BY <2>1, <2>2, <2>3, NextCases
<1>. QED
  BY <1>1, <1>2, TypeCorrect, PTL DEF Spec

-----------------------------------------------------------------------------
(***************************************************************************)
(* With a single blocker and no spurious wake-up, a thread that is let out *)
(* of cond.wait() still finds the signal that woke it: nobody else could   *)
(* consume it before the thread got the mutex back.                        *)
(***************************************************************************)
WokenHasSignal ==
  SingleBlocker => \A t \in Threads : pc[t] = "woken" => signal_count # 0

LEMMA WokenHasSignalInvariant == Spec => []WokenHasSignal
<1>1. Init => WokenHasSignal
  BY DEF Init, WokenHasSignal
<1>2. TypeOK /\ WokenHasSignal /\ [Next]_vars => WokenHasSignal'
  <2> SUFFICES ASSUME TypeOK, WokenHasSignal, [Next]_vars, SingleBlocker
               PROVE  \A t \in Threads : pc'[t] = "woken" => signal_count' # 0
    BY DEF WokenHasSignal
  <2>1. PICK self \in Threads : Threads = {self}
    BY DEF SingleBlocker
  <2>2. ~SpuriousWakeups
    BY DEF SingleBlocker
  <2>3. CASE Signal
    BY <2>3 DEF Signal, TypeOK
  <2>4. ASSUME NEW t \in Threads, ThreadStep(t)
        PROVE  pc'[t] = "woken" => signal_count' # 0
    BY <2>2, <2>4 DEF ThreadStep, TypeOK, BlockPasses, BlockWaits,
       TimedBlockWaits, Expire, WakeSpuriously, ReturnTrue, ReturnFalse
  <2>5. CASE UNCHANGED vars
    BY <2>5 DEF vars, WokenHasSignal
  <2>. QED
    BY <2>1, <2>3, <2>4, <2>5, NextCases
<1>. QED
  BY <1>1, <1>2, TypeCorrect, PTL DEF Spec

(***************************************************************************)
(* The code refines the semaphore, and the strict one when one thread      *)
(* blocks and wake-ups are never spurious: the case of TaskManager's       *)
(* activity_block and of each TaskThread's run_block.                      *)
(***************************************************************************)
THEOREM SemaphoreRefinement == Spec => ImplementsSemaphore
<1>1. Init => Semaphore!SemInit
  BY DEF Init, Semaphore!SemInit
<1>2. TypeOK /\ WokenHasSignal /\ [Next]_vars
        => [Semaphore!SemNext]_(Semaphore!semVars)
  <2> SUFFICES ASSUME TypeOK, WokenHasSignal, [Next]_vars
               PROVE  [Semaphore!SemNext]_(Semaphore!semVars)
    OBVIOUS
  <2> USE DEF Semaphore!SemNext, Semaphore!semVars
  <2>1. CASE Signal
    BY <2>1 DEF Signal, Semaphore!Post
  <2>2. ASSUME NEW t \in Threads, ThreadStep(t)
        PROVE  [Semaphore!SemNext]_(Semaphore!semVars)
    <3>1. CASE BlockPasses(t)
      BY <3>1 DEF BlockPasses, Decrement, TypeOK, Semaphore!Consume
    <3>2. CASE ReturnTrue(t) /\ signal_count # 0
      BY <3>2 DEF ReturnTrue, Decrement, TypeOK, Semaphore!Consume
    <3>3. CASE ReturnTrue(t) /\ signal_count = 0
      <4>1. ~SingleBlocker
        BY <3>3 DEF WokenHasSignal, ReturnTrue
      <4>. QED
        BY <3>3, <4>1 DEF ReturnTrue, Decrement, Semaphore!PassFree
    <3>4. CASE UNCHANGED <<signal_count, posted, granted>>
      BY <3>4
    <3>. QED
      BY <2>2, <3>1, <3>2, <3>3, <3>4 DEF ThreadStep, BlockWaits,
         TimedBlockWaits, Expire, WakeSpuriously, ReturnFalse
  <2>3. CASE UNCHANGED vars
    BY <2>3 DEF vars
  <2>. QED
    BY <2>1, <2>2, <2>3, NextCases
<1>. QED
  BY <1>1, <1>2, TypeCorrect, WokenHasSignalInvariant, PTL
     DEF Spec, ImplementsSemaphore, Semaphore!SemSpec
=============================================================================
