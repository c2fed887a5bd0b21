-------------------------- MODULE ExecutorContract --------------------------
(***************************************************************************)
(* What an IExecutor (executor.h) promises the job queues and the timer    *)
(* that post closures to it, and all that they may rely on: while it runs, *)
(* Post takes a closure, or refuses it when saturated; once Stop has been  *)
(* called every Post is refused and the closures it still holds are run or *)
(* thrown away; it is Stopped when it holds none. Closures are not told    *)
(* apart: the order in which they run is promised to nobody.               *)
(***************************************************************************)
EXTENDS Naturals

CONSTANTS
  Saturates,  \* may a running executor refuse a closure?
  Stops       \* may it be stopped?

VARIABLES
  state,      \* EnumJobQueueState
  closures    \* number of closures it holds: accepted, neither started nor dropped

vars == <<state, closures>>

Init ==
  /\ state = "Running"
  /\ closures = 0

Accept ==
  /\ state = "Running"
  /\ closures' = closures + 1
  /\ UNCHANGED state

Refuse ==
  /\ state # "Running" \/ Saturates
  /\ UNCHANGED vars

\* A thread of the executor takes a closure and calls it.
Start ==
  /\ closures > 0
  /\ closures' = closures - 1
  /\ UNCHANGED state

\* Stop(true) keeps what is held, Stop(false) drops it.
Stop ==
  /\ Stops
  /\ state = "Running"
  /\ state' = "Draining"
  /\ closures' \in {closures, 0}

\* The deadline of Stop(true, timeout), or a later Stop(false).
Discard ==
  /\ state = "Draining"
  /\ closures' = 0
  /\ UNCHANGED state

Close ==
  /\ state = "Draining"
  /\ closures = 0
  /\ state' = "Stopped"
  /\ UNCHANGED closures

Next == Accept \/ Refuse \/ Start \/ Stop \/ Discard \/ Close

Spec == Init /\ [][Next]_vars
=============================================================================
