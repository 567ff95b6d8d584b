------------------------- MODULE CountingSemaphore -------------------------
(***************************************************************************)
(* What a signal counter promises to the code built on it: a posted signal *)
(* stays until one caller consumes it, and a caller that gives up leaves   *)
(* the signals alone.  A strict counter lets a caller through only with a  *)
(* signal of its own; one with FreePasses may let a caller through with    *)
(* none, but only when there is none to consume.                           *)
(***************************************************************************)
EXTENDS Naturals

CONSTANT FreePasses  \* may a call succeed with no signal to consume?

VARIABLES
  permits,  \* signals posted and not yet consumed
  posted,   \* history: how many signals were ever posted
  granted   \* history: how many calls succeeded

semVars == <<permits, posted, granted>>

SemInit ==
  /\ permits = 0
  /\ posted = 0
  /\ granted = 0

Post ==
  /\ permits' = permits + 1
  /\ posted' = posted + 1
  /\ UNCHANGED granted

Consume ==
  /\ permits > 0
  /\ permits' = permits - 1
  /\ granted' = granted + 1
  /\ UNCHANGED posted

PassFree ==
  /\ FreePasses
  /\ permits = 0
  /\ granted' = granted + 1
  /\ UNCHANGED <<permits, posted>>

SemNext == Post \/ Consume \/ PassFree

SemSpec == SemInit /\ [][SemNext]_semVars
=============================================================================
