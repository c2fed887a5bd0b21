-------------------------- MODULE ThreadPoolProofs --------------------------
(***************************************************************************)
(* Theorems about ThreadPoolExecutor for every number of closures, posting *)
(* threads and workers, and every capacity.                                *)
(***************************************************************************)
EXTENDS ThreadPoolExecutor, FiniteSetTheorems, TLAPS

-----------------------------------------------------------------------------
(* Types *)

\* A worker that calls fn, or has just called it, has one.
HeldInv == \A w \in Workers : workerPc[w] \in {"run", "count"} => held[w] \in Tasks

Typed == TypeOK /\ HeldInv

TaskStates == {"new", "ready", "running", "ran", "dropped", "refused"}

\* The constructor leaves everything with its type.
LEMMA TypedInit == Init => Typed
<1> SUFFICES ASSUME Init PROVE Typed
  OBVIOUS
<1>1. /\ ready \in Seq(Tasks) /\ Len(ready) = 0
      /\ count \in [{"submitted", "rejected", "executed", "failed", "dropped"} -> Nat]
  BY DEF Init
<1> QED
  BY <1>1, OptionAssumption DEF Init, Typed, TypeOK, HeldInv

\* Clear leaves an empty deque and well-typed closures.
LEMMA ClearTyped ==
  ASSUME Typed, Clear
  PROVE  /\ ready' = <<>> /\ ready' \in Seq(Tasks) /\ Len(ready') = 0
         /\ taskState' \in [Tasks -> TaskStates]
<1>1. ready' = <<>> /\ Len(ready') = 0 /\ ready' \in Seq(Tasks)
  BY DEF Clear
<1>2. taskState' \in [Tasks -> TaskStates]
  BY DEF Clear, Typed, TypeOK, TaskStates
<1> QED
  BY <1>1, <1>2

\* Every step keeps the types and the capacity.
LEMMA TypedStep == Typed /\ [Next]_vars => Typed'
<1> SUFFICES ASSUME Typed, [Next]_vars PROVE Typed'
  OBVIOUS
<1> USE OptionAssumption, NoTaskAssumption
<1> USE DEF Typed, TypeOK, HeldInv, postVars, workerVars, stopVars, Bump
<1>1. ASSUME NEW p \in Posters, NEW t \in Tasks, PostAccepted(p, t) PROVE Typed'
  <2>1. ready' \in Seq(Tasks) /\ Len(ready') = Len(ready) + 1 /\ Len(ready) \in Nat
    BY <1>1 DEF PostAccepted
  <2>2. Capacity > 0 => Len(ready') <= Capacity
    BY <1>1, <2>1 DEF PostAccepted, Accepts
  <2> QED
    BY <1>1, <2>1, <2>2 DEF PostAccepted
<1>2. ASSUME NEW p \in Posters, NEW t \in Tasks, PostRefused(p, t) PROVE Typed'
  BY <1>2 DEF PostRefused
<1>3. ASSUME NEW p \in Posters, NotifyOne(p) PROVE Typed'
  BY <1>3 DEF NotifyOne
<1>4. ASSUME NEW w \in Workers, WorkerSleep(w) PROVE Typed'
  BY <1>4 DEF WorkerSleep
<1>5. ASSUME NEW w \in Workers, WorkerExit(w) PROVE Typed'
  BY <1>5 DEF WorkerExit
<1>6. ASSUME NEW w \in Workers, WorkerTake(w) PROVE Typed'
  <2>1. /\ Head(ready) \in Tasks /\ Tail(ready) \in Seq(Tasks)
        /\ Len(Tail(ready)) = Len(ready) - 1 /\ Len(ready) \in Nat
    BY <1>6 DEF WorkerTake
  <2> QED
    BY <1>6, <2>1 DEF WorkerTake
<1>7. ASSUME NEW w \in Workers, WorkerRan(w) PROVE Typed'
  <2>1. count' \in [{"submitted", "rejected", "executed", "failed", "dropped"} -> Nat]
    BY <1>7 DEF WorkerRan
  <2> QED
    BY <1>7, <2>1 DEF WorkerRan
<1>8. ASSUME NEW w \in Workers, WorkerCount(w) PROVE Typed'
  BY <1>8 DEF WorkerCount
<1>9. ASSUME NEW w \in Workers, WorkerWakeup(w) PROVE Typed'
  BY <1>9 DEF WorkerWakeup
<1>10. ASSUME NEW m \in StopModes, StopCall(m) PROVE Typed'
  <2>1. /\ ready' \in Seq(Tasks) /\ (Capacity > 0 => Len(ready') <= Capacity)
        /\ taskState' \in [Tasks -> TaskStates]
    BY <1>10, ClearTyped DEF StopCall, TaskStates
  <2> QED
    BY <1>10, <2>1 DEF StopCall, TaskStates
<1>11. CASE StopNotifyAll
  BY <1>11 DEF StopNotifyAll, Woken, Asleep
<1>12. CASE StopTimeout
  <2>1. Len(ready) \in Nat
    OBVIOUS
  <2> QED
    BY <1>12, <2>1, ClearTyped DEF StopTimeout, TaskStates
<1>13. CASE StopCheck \/ StopWakeup \/ StopJoin \/ StopClose \/ StopAgain
  BY <1>13 DEF StopCheck, StopWakeup, StopJoin, StopClose, StopAgain
<1>14. CASE UNCHANGED vars
  BY <1>14 DEF vars
<1> QED
  BY <1>1, <1>2, <1>3, <1>4, <1>5, <1>6, <1>7, <1>8, <1>9, <1>10, <1>11, <1>12, <1>13,
     <1>14 DEF Next, WorkerNext, StopStep

\* Every reachable state of the pool has the types of TypeOK.
THEOREM PoolTypeCorrect == Spec => []TypeOK
<1>1. Typed => TypeOK
  BY DEF Typed
<1> QED
  BY <1>1, TypedInit, TypedStep, PTL DEF Spec

-----------------------------------------------------------------------------
(* Stop *)

\* Where Stop is decides the state of the pool; from join on the deque is empty
\* for good, and after join every thread is gone.
StopInv ==
  /\ execState = "Running" <=> stopPc = "idle"
  /\ execState = "Stopped" <=> stopPc \in {"returned", "destroyed"}
  /\ stopPc \in {"join", "close", "returned", "destroyed"} => ready = <<>>
  /\ stopPc = "notify" /\ stopMode = "clear" => ready = <<>>
  /\ stopPc \in {"close", "returned", "destroyed"} =>
        \A w \in Workers : workerPc[w] = "exited"

\* A worker has left only a pool that stops and has nothing left to run.
ExitInv ==
  \A w \in Workers : workerPc[w] = "exited" => execState # "Running" /\ ready = <<>>

\* Once Stop has notified everybody no worker sleeps, so that a notification
\* that wakes the caller of Stop is not missed by a worker.
AwakeInv == stopPc \notin {"idle", "notify"} => \A w \in Workers : workerPc[w] # "asleep"

PoolInv == StopInv /\ ExitInv /\ AwakeInv

\* Every step keeps PoolInv.
LEMMA PoolStep == Typed /\ PoolInv /\ [Next]_vars => PoolInv'
<1> SUFFICES ASSUME Typed, PoolInv, [Next]_vars PROVE PoolInv'
  OBVIOUS
<1> USE DEF PoolInv, StopInv, ExitInv, AwakeInv, postVars, workerVars, stopVars
<1>0. /\ workerPc \in [Workers -> {"check", "asleep", "run", "count", "exited"}]
      /\ ready \in Seq(Tasks)
      /\ execState \in {"Running", "Draining", "Stopped"}
      /\ stopPc \in {"idle", "notify", "wait", "asleep", "join", "close", "returned",
                     "destroyed"}
  BY DEF Typed, TypeOK
<1>1. ASSUME NEW p \in Posters, NEW t \in Tasks, PostAccepted(p, t) PROVE PoolInv'
  BY <1>0, <1>1 DEF PostAccepted, Accepts
<1>2. ASSUME NEW p \in Posters, NEW t \in Tasks, PostRefused(p, t) PROVE PoolInv'
  BY <1>2 DEF PostRefused
<1>3. ASSUME NEW p \in Posters, NotifyOne(p) PROVE PoolInv'
  BY <1>0, <1>3 DEF NotifyOne
<1>4. ASSUME NEW w \in Workers, WorkerSleep(w) PROVE PoolInv'
  BY <1>0, <1>4 DEF WorkerSleep
<1>5. ASSUME NEW w \in Workers, WorkerExit(w) PROVE PoolInv'
  BY <1>0, <1>5 DEF WorkerExit, Leaves
<1>6. ASSUME NEW w \in Workers, WorkerTake(w) PROVE PoolInv'
  BY <1>0, <1>6 DEF WorkerTake
<1>7. ASSUME NEW w \in Workers, WorkerRan(w) \/ WorkerCount(w) \/ WorkerWakeup(w)
      PROVE  PoolInv'
  BY <1>0, <1>7 DEF WorkerRan, WorkerCount, WorkerWakeup
<1>8. ASSUME NEW m \in StopModes, StopCall(m) PROVE PoolInv'
  BY <1>0, <1>8 DEF StopCall, Clear
<1>9. CASE StopNotifyAll
  BY <1>0, <1>9 DEF StopNotifyAll, Woken, Asleep
<1>10. CASE StopTimeout
  BY <1>0, <1>10 DEF StopTimeout, Clear
<1>11. CASE StopCheck \/ StopWakeup \/ StopJoin \/ StopClose \/ StopAgain
  BY <1>0, <1>11 DEF StopCheck, StopWakeup, StopJoin, Joined, StopClose, StopAgain
<1>12. CASE UNCHANGED vars
  BY <1>12 DEF vars
<1> QED
  BY <1>1, <1>2, <1>3, <1>4, <1>5, <1>6, <1>7, <1>8, <1>9, <1>10, <1>11, <1>12
     DEF Next, WorkerNext, StopStep

\* The constructor establishes PoolInv.
LEMMA PoolInit == Init => PoolInv
  BY DEF Init, PoolInv, StopInv, ExitInv, AwakeInv

\* When the state is Stopped every thread has been joined and no closure is left.
THEOREM StoppedMeansJoinedSafe == Spec => []StoppedMeansJoined
<1>1. Typed /\ PoolInv => StoppedMeansJoined
  BY DEF PoolInv, StopInv, StoppedMeansJoined
<1> QED
  BY <1>1, TypedInit, TypedStep, PoolInit, PoolStep, PTL DEF Spec

-----------------------------------------------------------------------------
(* Wakeups *)

Checking == {w \in Workers : workerPc[w] = "check"}
Notifying == {p \in Posters : postPc[p] = "notify"}

\* The two numbers that NoSleeperIsNeeded adds up.
LEMMA CountsAreNumbers ==
  /\ IsFiniteSet(Checking) /\ Cardinality(Checking) \in Nat
  /\ IsFiniteSet(Notifying) /\ Cardinality(Notifying) \in Nat
<1>1. Checking \subseteq Workers /\ Notifying \subseteq Posters
  BY DEF Checking, Notifying
<1>2. IsFiniteSet(Checking) /\ IsFiniteSet(Notifying)
  BY <1>1, ThreadAssumption, FS_Subset
<1> QED
  BY <1>2, FS_CardinalityType

\* The same in the next state.
LEMMA NextCountsAreNumbers ==
  /\ IsFiniteSet(Checking') /\ Cardinality(Checking') \in Nat
  /\ IsFiniteSet(Notifying') /\ Cardinality(Notifying') \in Nat
<1>1. Checking' \subseteq Workers /\ Notifying' \subseteq Posters
  BY DEF Checking, Notifying
<1>2. IsFiniteSet(Checking') /\ IsFiniteSet(Notifying')
  BY <1>1, ThreadAssumption, FS_Subset
<1> QED
  BY <1>2, FS_CardinalityType

\* Neither number falls in a step that only adds threads to it.
LEMMA CountsGrow ==
  ASSUME Checking \subseteq Checking', Notifying \subseteq Notifying'
  PROVE  /\ Cardinality(Checking) <= Cardinality(Checking')
         /\ Cardinality(Notifying) <= Cardinality(Notifying')
  BY CountsAreNumbers, NextCountsAreNumbers, FS_Subset

\* Every step keeps NoSleeperIsNeeded: a push brings a notification, a
\* notification brings a worker unless none sleeps, a worker takes a closure.
LEMMA WakeupStep ==
  ASSUME Typed, PoolInv, NoSleeperIsNeeded, [Next]_vars
  PROVE  NoSleeperIsNeeded'
<1> USE DEF postVars, workerVars, stopVars
<1>0. /\ workerPc \in [Workers -> {"check", "asleep", "run", "count", "exited"}]
      /\ postPc \in [Posters -> {"idle", "notify"}]
      /\ ready \in Seq(Tasks) /\ Len(ready) \in Nat
  BY DEF Typed, TypeOK
<1>a. NoSleeperIsNeeded <=>
        ((\E w \in Workers : workerPc[w] = "asleep") =>
           Len(ready) <= Cardinality(Checking) + Cardinality(Notifying))
  BY DEF NoSleeperIsNeeded, Checking, Notifying
<1>b. NoSleeperIsNeeded' <=>
        ((\E w \in Workers : workerPc'[w] = "asleep") =>
           Len(ready') <= Cardinality(Checking') + Cardinality(Notifying'))
  BY DEF NoSleeperIsNeeded, Checking, Notifying
<1>c. CASE Len(ready') = 0
  BY <1>b, <1>c, NextCountsAreNumbers
<1>d. CASE \A w \in Workers : workerPc'[w] # "asleep"
  BY <1>b, <1>d
<1>e. CASE /\ Len(ready') = Len(ready)
           /\ Checking \subseteq Checking' /\ Notifying \subseteq Notifying'
           /\ \A w \in Workers : workerPc'[w] = "asleep" => workerPc[w] = "asleep"
  BY <1>0, <1>a, <1>b, <1>e, CountsAreNumbers, NextCountsAreNumbers, CountsGrow
<1>1. ASSUME NEW p \in Posters, NEW t \in Tasks, PostAccepted(p, t)
      PROVE  NoSleeperIsNeeded'
  <2>1. /\ Len(ready') = Len(ready) + 1 /\ workerPc' = workerPc
        /\ postPc[p] = "idle" /\ postPc' = [postPc EXCEPT ![p] = "notify"]
    BY <1>0, <1>1 DEF PostAccepted, Notifies
  <2>2. Checking' = Checking /\ Notifying' = Notifying \cup {p} /\ p \notin Notifying
    BY <1>0, <2>1 DEF Checking, Notifying
  <2>3. Cardinality(Notifying') = Cardinality(Notifying) + 1
    BY <2>2, CountsAreNumbers, FS_AddElement
  <2> QED
    BY <1>0, <1>a, <1>b, <2>1, <2>2, <2>3, CountsAreNumbers
<1>2. ASSUME NEW p \in Posters, NotifyOne(p) PROVE NoSleeperIsNeeded'
  <2>1. /\ postPc[p] = "notify" /\ postPc' = [postPc EXCEPT ![p] = "idle"]
        /\ ready' = ready
    BY <1>2 DEF NotifyOne
  <2>2. Notifying' = Notifying \ {p} /\ p \in Notifying
    BY <1>0, <2>1 DEF Notifying
  <2>3. Cardinality(Notifying') = Cardinality(Notifying) - 1
    BY <2>2, CountsAreNumbers, FS_RemoveElement
  <2>4. ASSUME NEW w \in Workers, workerPc[w] = "asleep",
               workerPc' = [workerPc EXCEPT ![w] = "check"]
        PROVE  NoSleeperIsNeeded'
    <3>1. Checking' = Checking \cup {w} /\ w \notin Checking
      BY <1>0, <2>4 DEF Checking
    <3>2. Cardinality(Checking') = Cardinality(Checking) + 1
      BY <3>1, CountsAreNumbers, FS_AddElement
    <3> QED
      BY <1>0, <1>a, <1>b, <2>1, <2>3, <2>4, <3>2, CountsAreNumbers
  <2>5. CASE stopPc = "asleep" /\ workerPc' = workerPc
    BY <1>d, <2>5 DEF PoolInv, AwakeInv
  <2>6. CASE workerPc' = workerPc /\ \A w \in Workers : workerPc[w] # "asleep"
    BY <1>d, <2>6
  <2> QED
    BY <1>2, <2>4, <2>5, <2>6 DEF NotifyOne
<1>3. ASSUME NEW w \in Workers, WorkerSleep(w) \/ WorkerExit(w)
      PROVE  NoSleeperIsNeeded'
  BY <1>3, <1>c DEF WorkerSleep, WorkerExit, Leaves
<1>4. ASSUME NEW w \in Workers, WorkerTake(w) PROVE NoSleeperIsNeeded'
  <2>1. /\ Len(ready') = Len(ready) - 1 /\ postPc' = postPc
        /\ workerPc[w] = "check" /\ workerPc' = [workerPc EXCEPT ![w] = "run"]
    BY <1>0, <1>4 DEF WorkerTake
  <2>2. Notifying' = Notifying /\ Checking' = Checking \ {w} /\ w \in Checking
    BY <1>0, <2>1 DEF Checking, Notifying
  <2>3. Cardinality(Checking') = Cardinality(Checking) - 1
    BY <2>2, CountsAreNumbers, FS_RemoveElement
  <2>4. (\E v \in Workers : workerPc'[v] = "asleep") => \E v \in Workers : workerPc[v] = "asleep"
    BY <1>0, <2>1
  <2> QED
    BY <1>0, <1>a, <1>b, <2>1, <2>2, <2>3, <2>4, CountsAreNumbers
<1>5. ASSUME NEW w \in Workers, WorkerRan(w) \/ WorkerCount(w) \/ WorkerWakeup(w)
      PROVE  NoSleeperIsNeeded'
  <2>1. /\ ready' = ready /\ postPc' = postPc
        /\ \/ workerPc[w] = "run" /\ workerPc' = [workerPc EXCEPT ![w] = "count"]
           \/ workerPc' = [workerPc EXCEPT ![w] = "check"]
    BY <1>5 DEF WorkerRan, WorkerCount, WorkerWakeup
  <2> QED
    BY <1>0, <1>e, <2>1 DEF Checking, Notifying
<1>6. ASSUME NEW p \in Posters, NEW t \in Tasks, PostRefused(p, t)
      PROVE  NoSleeperIsNeeded'
  BY <1>6, <1>e DEF PostRefused, Checking, Notifying
<1>7. ASSUME NEW m \in StopModes, StopCall(m) PROVE NoSleeperIsNeeded'
  <2>1. workerPc' = workerPc /\ postPc' = postPc
    BY <1>7 DEF StopCall
  <2>2. CASE ready' = ready
    BY <1>e, <2>1, <2>2 DEF Checking, Notifying
  <2>3. CASE ready' = <<>>
    BY <1>c, <2>3
  <2> QED
    BY <1>7, <2>2, <2>3 DEF StopCall, Clear
<1>8. CASE StopNotifyAll
  BY <1>0, <1>8, <1>d DEF StopNotifyAll, Woken, Asleep
<1>9. CASE StopTimeout
  BY <1>9, <1>c DEF StopTimeout, Clear
<1>10. CASE StopCheck \/ StopWakeup \/ StopJoin \/ StopClose \/ StopAgain \/ UNCHANGED vars
  BY <1>10, <1>e DEF StopCheck, StopWakeup, StopJoin, StopClose, StopAgain, vars, Checking,
     Notifying
<1> QED
  BY <1>1, <1>2, <1>3, <1>4, <1>5, <1>6, <1>7, <1>8, <1>9, <1>10
     DEF Next, WorkerNext, StopStep

\* While a worker sleeps, every ready closure has a worker or a notification on
\* its way, however Stop shares the condition variable with the workers.
THEOREM NoSleeperIsNeededSafe == Spec => []NoSleeperIsNeeded
<1> DEFINE Inv == Typed /\ PoolInv /\ NoSleeperIsNeeded
<1>1. Init => Inv
  <2> SUFFICES ASSUME Init PROVE NoSleeperIsNeeded
    BY TypedInit, PoolInit
  <2> QED
    BY DEF Init, NoSleeperIsNeeded
<1>2. Inv /\ [Next]_vars => Inv'
  BY TypedStep, PoolStep, WakeupStep
<1> QED
  BY <1>1, <1>2, PTL DEF Spec

-----------------------------------------------------------------------------
(* The contract *)

\* Every step of the pool is a step of ExecutorContract, or none: the job queues
\* may rely on the contract.
THEOREM ImplementsContract == Spec => IsExecutor
<1> DEFINE Inv == Typed /\ PoolInv
<1>1. Init => Inv
  BY TypedInit, PoolInit
<1>2. Inv /\ [Next]_vars => Inv'
  BY TypedStep, PoolStep
<1>3. Init => Contract!Init
  BY DEF Init, Contract!Init
<1>4. Inv /\ [Next]_vars => [Contract!Next]_Contract!vars
  <2> SUFFICES ASSUME Inv, Next PROVE Contract!Next \/ UNCHANGED Contract!vars
    BY DEF vars, Contract!vars
  <2> USE DEF postVars, workerVars, stopVars, Contract!vars
  <2>0. ready \in Seq(Tasks) /\ Len(ready) \in Nat
        /\ execState \in {"Running", "Draining", "Stopped"} /\ StopInv
    BY DEF Typed, TypeOK, PoolInv
  <2>1. ASSUME NEW p \in Posters, NEW t \in Tasks, PostAccepted(p, t) PROVE Contract!Accept
    BY <2>0, <2>1 DEF PostAccepted, Accepts, Contract!Accept
  <2>2. ASSUME NEW w \in Workers, WorkerTake(w) PROVE Contract!Start
    <3>1. Len(Tail(ready)) = Len(ready) - 1 /\ Len(ready) > 0
      BY <2>0, <2>2 DEF WorkerTake
    <3> QED
      BY <2>2, <3>1 DEF WorkerTake, Contract!Start
  <2>3. ASSUME NEW m \in StopModes, StopCall(m) PROVE Contract!Stop
    <3>1. Len(ready') \in {Len(ready), 0}
      BY <2>3 DEF StopCall, Clear
    <3> QED
      BY <2>0, <2>3, <3>1 DEF StopCall, StopInv, Contract!Stop
  <2>4. CASE StopTimeout
    <3>1. Len(ready') = 0
      BY <2>4 DEF StopTimeout, Clear
    <3> QED
      BY <2>0, <2>4, <3>1 DEF StopTimeout, StopInv, Contract!Discard, Contract!Next
  <2>5. CASE StopClose
    <3>1. Len(ready) = 0 /\ execState = "Draining"
      BY <2>0, <2>5 DEF StopClose, StopInv
    <3> QED
      BY <2>5, <3>1 DEF StopClose, Contract!Close, Contract!Next
  <2>6. ASSUME NEW p \in Posters, (\E t \in Tasks : PostRefused(p, t)) \/ NotifyOne(p)
        PROVE  UNCHANGED Contract!vars
    BY <2>6 DEF PostRefused, NotifyOne
  <2>7. ASSUME NEW w \in Workers,
               WorkerSleep(w) \/ WorkerExit(w) \/ WorkerRan(w) \/ WorkerCount(w) \/ WorkerWakeup(w)
        PROVE  UNCHANGED Contract!vars
    BY <2>7 DEF WorkerSleep, WorkerExit, WorkerRan, WorkerCount, WorkerWakeup
  <2>8. CASE StopNotifyAll \/ StopCheck \/ StopJoin \/ StopWakeup \/ StopAgain
    BY <2>8 DEF StopNotifyAll, StopCheck, StopJoin, StopWakeup, StopAgain
  <2> QED
    BY <2>1, <2>2, <2>3, <2>4, <2>5, <2>6, <2>7, <2>8
       DEF Next, WorkerNext, StopStep, Contract!Next
<1> QED
  BY <1>1, <1>2, <1>3, <1>4, PTL DEF Spec, IsExecutor, Contract!Spec
=============================================================================
