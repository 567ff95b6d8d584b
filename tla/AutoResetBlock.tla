--------------------------- MODULE AutoResetBlock ---------------------------
(***************************************************************************)
(* osgGIS::AutoResetBlock (src/src/osgGIS/AutoResetBlock): a mutex, a      *)
(* condition variable and a signal counter.  Each of the three methods     *)
(* runs under the mutex, which only cond.wait() gives up, so that a method *)
(* is one atomic step up to cond.wait() and one from there to its return.  *)
(*                                                                         *)
(* External: OpenThreads::Condition (a POSIX condition variable).  Its     *)
(* wait() puts the caller to sleep and drops the mutex in one step, and    *)
(* may return with no broadcast having happened (SpuriousWakeups).         *)
(***************************************************************************)
EXTENDS Naturals, FiniteSets

CONSTANTS
  Threads,          \* the threads that call block()
  SpuriousWakeups,  \* may cond.wait() return 0 with no broadcast?
  MaxSignals,       \* bound: signals posted in a behaviour
  MaxGranted        \* bound: no spurious wake-ups after this many grants

ASSUME ThreadsAssumption == Threads # {}
ASSUME SpuriousAssumption == SpuriousWakeups \in BOOLEAN
ASSUME BoundsAssumption == MaxSignals \in Nat /\ MaxGranted \in Nat

VARIABLES
  signal_count,  \* the counter
  pc,            \* where each thread is in its call: see Positions
  posted,        \* history: signals posted so far
  granted        \* history: calls of block() that returned true

vars == <<signal_count, pc, posted, granted>>

(***************************************************************************)
(* "out": not in a call.  "waiting": asleep in cond.wait() without limit,  *)
(* "waitingTimed": the same with a timeout.  "woken", "expired": wait()    *)
(* has returned 0, or a timeout, and the thread is yet to get the mutex    *)
(* back.                                                                   *)
(***************************************************************************)
Positions == {"out", "waiting", "waitingTimed", "woken", "expired"}

Asleep(t) == pc[t] \in {"waiting", "waitingTimed"}

Init ==
  /\ signal_count = 0
  /\ pc = [t \in Threads |-> "out"]
  /\ posted = 0
  /\ granted = 0

TypeOK ==
  /\ signal_count \in Nat
  /\ pc \in [Threads -> Positions]
  /\ posted \in Nat
  /\ granted \in Nat

-----------------------------------------------------------------------------
(***************************************************************************)
(* Slips a change to the code could make (mutants; no action uses them).   *)
(***************************************************************************)
DecrementLate(n) == IF n <= 1 THEN n ELSE n - 1  \* the last signal stays

\* cond.signal() for cond.broadcast()
BroadcastToOne ==
  IF \E t \in Threads : Asleep(t)
  THEN [pc EXCEPT ![CHOOSE t \in Threads : Asleep(t)] = "woken"]
  ELSE pc

\* if ( result ) forgotten: a call that timed out consumes too
ReturnFalseConsumes(t) ==
  /\ pc[t] = "expired"
  /\ pc' = [pc EXCEPT ![t] = "out"]
  /\ signal_count' = IF signal_count = 0 THEN 0 ELSE signal_count - 1
  /\ UNCHANGED <<posted, granted>>

\* while ( !result ) wait again
ReturnFalseRetries(t) ==
  /\ pc[t] = "expired"
  /\ pc' = [pc EXCEPT ![t] = "waitingTimed"]
  /\ UNCHANGED <<signal_count, posted, granted>>
-----------------------------------------------------------------------------
\* signal_count == 0 ? 0 : signal_count - 1
Decrement(n) == IF n = 0 THEN 0 ELSE n - 1

\* Every sleeper is made runnable by cond.broadcast().
Broadcast == [t \in Threads |-> IF Asleep(t) THEN "woken" ELSE pc[t]]

\* signal(): count the signal, wake everybody.
Signal ==
  /\ posted < MaxSignals
  /\ signal_count' = signal_count + 1
  /\ pc' = Broadcast
  /\ posted' = posted + 1
  /\ UNCHANGED granted

\* block() or block(timeout) that finds a signal: no wait.
BlockPasses(t) ==
  /\ pc[t] = "out"
  /\ signal_count # 0
  /\ signal_count' = Decrement(signal_count)
  /\ granted' = granted + 1
  /\ UNCHANGED <<pc, posted>>

\* block() that finds no signal and goes to sleep.
BlockWaits(t) ==
  /\ pc[t] = "out"
  /\ signal_count = 0
  /\ pc' = [pc EXCEPT ![t] = "waiting"]
  /\ UNCHANGED <<signal_count, posted, granted>>

\* block(timeout) that finds no signal and goes to sleep.
TimedBlockWaits(t) ==
  /\ pc[t] = "out"
  /\ signal_count = 0
  /\ pc' = [pc EXCEPT ![t] = "waitingTimed"]
  /\ UNCHANGED <<signal_count, posted, granted>>

\* The timeout of a sleeper runs out: cond.wait() does not return 0.
Expire(t) ==
  /\ pc[t] = "waitingTimed"
  /\ pc' = [pc EXCEPT ![t] = "expired"]
  /\ UNCHANGED <<signal_count, posted, granted>>

\* cond.wait() returns 0 although nobody called broadcast().
WakeSpuriously(t) ==
  /\ SpuriousWakeups
  /\ granted < MaxGranted
  /\ Asleep(t)
  /\ pc' = [pc EXCEPT ![t] = "woken"]
  /\ UNCHANGED <<signal_count, posted, granted>>

\* The rest of block() after cond.wait() returned 0: the code does not look
\* at signal_count again before it decides to return true.
ReturnTrue(t) ==
  /\ pc[t] = "woken"
  /\ pc' = [pc EXCEPT ![t] = "out"]
  /\ signal_count' = Decrement(signal_count)
  /\ granted' = granted + 1
  /\ UNCHANGED posted

\* The rest of block(timeout) after the timeout: nothing is consumed.
ReturnFalse(t) ==
  /\ pc[t] = "expired"
  /\ pc' = [pc EXCEPT ![t] = "out"]
  /\ UNCHANGED <<signal_count, posted, granted>>

Return(t) == ReturnTrue(t) \/ ReturnFalse(t)

Next ==
  \/ Signal
  \/ \E t \in Threads :
       \/ BlockPasses(t)
       \/ BlockWaits(t)
       \/ TimedBlockWaits(t)
       \/ Expire(t)
       \/ WakeSpuriously(t)
       \/ Return(t)

Spec == Init /\ [][Next]_vars

(***************************************************************************)
(* The scheduler lets a thread that can leave cond.wait() run, and timers  *)
(* run out.  Nothing obliges anybody to call signal() or block().          *)
(***************************************************************************)
Fairness == \A t \in Threads : WF_vars(Return(t)) /\ WF_vars(Expire(t))

FairSpec == Spec /\ Fairness

-----------------------------------------------------------------------------
(***************************************************************************)
(* No wake-up is lost: a thread never sleeps while there is a signal it    *)
(* could consume, whatever the order of signal(), block() and timeouts.    *)
(***************************************************************************)
NoLostWakeup == \A t \in Threads : Asleep(t) => signal_count = 0

(***************************************************************************)
(* No signal is dropped: each one that was posted is still counted or was  *)
(* traded for a call that returned true.  A timeout that races a signal    *)
(* must not swallow it.                                                    *)
(***************************************************************************)
NoSignalDropped == posted <= granted + signal_count

(***************************************************************************)
(* A thread asleep with a timeout always gets its call back, signals or    *)
(* not.                                                                    *)
(***************************************************************************)
TimedBlockReturns ==
  \A t \in Threads : pc[t] = "waitingTimed" ~> pc[t] = "out"

(***************************************************************************)
(* The code refines a semaphore: a signal stays until a call consumes it.  *)
(* It is the strict one, where every call that returns true has consumed a *)
(* signal, with one thread blocking, which is how TaskManager and          *)
(* TaskThread use it, and a condition variable that keeps asleep whom      *)
(* nobody woke; otherwise calls may also pass free, but never while a      *)
(* signal is there to be consumed.  (block() does not look at the counter  *)
(* again after cond.wait(): two sleepers may return true for one signal,   *)
(* against the "consume one posted signal" of the header.)                 *)
(***************************************************************************)
SingleBlocker == /\ \E t \in Threads : Threads = {t}
                 /\ ~SpuriousWakeups

Semaphore == INSTANCE CountingSemaphore
               WITH permits <- signal_count, FreePasses <- ~SingleBlocker

ImplementsSemaphore == Semaphore!SemSpec
=============================================================================
