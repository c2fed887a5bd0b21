------------------------ MODULE JobQueueStrandProofs ------------------------
(***************************************************************************)
(* More theorems about JobQueue for every value of its constants: running_ *)
(* is exactly the right to drain, no job is lost from the statistics, one  *)
(* Cancel wins, and the queue implements the strand of SerialQueue. They   *)
(* rest on the invariants Typed, TokenInv and StopInv of JobQueueProofs.   *)
(***************************************************************************)
EXTENDS JobQueueProofs, FiniteSetTheorems

-----------------------------------------------------------------------------
(* running_ is one drain                                                     *)

\* The converse of TokenInv: somebody holds the right to drain while running_
\* is up, unless the executor was stopped and may have dropped it.
OwnerInv ==
  running /\ execState = "Running" =>
    \/ closures = 1
    \/ \E w \in Workers : Draining(w)
    \/ \E c \in Clients : Scheduling(c)

\* A step that neither raises running_ nor moves the token keeps OwnerInv.
LEMMA OwnerFrame ==
  ASSUME OwnerInv, running' => running, execState' = execState, closures' = closures,
         \A w \in Workers : Draining(w) => Draining(w)',
         \A c \in Clients : Scheduling(c) => Scheduling(c)'
  PROVE  OwnerInv'
  BY DEF OwnerInv

\* Every step keeps OwnerInv: whoever passes the token on leaves it with the
\* executor or a thread, and running_ falls where it is given up.
LEMMA OwnerStep == Typed /\ TokenInv /\ OwnerInv /\ [Next]_vars => OwnerInv'
<1> SUFFICES ASSUME Typed, TokenInv, OwnerInv, [Next]_vars PROVE OwnerInv'
  OBVIOUS
<1> USE DEF Draining, Scheduling
<1>0. /\ clientPc \in [Clients -> {"idle", "schedule", "failed", "return"}]
      /\ drainPc \in [Drainers -> DrainPcs]
      /\ Workers \subseteq Drainers /\ Pumpers \subseteq Drainers
      /\ running \in BOOLEAN /\ closures \in Nat
  BY DEF Typed, TypeOK, Drainers
<1>1. ASSUME NEW c \in Clients, NEW j \in Jobs, PostAccepted(c, j) PROVE OwnerInv'
  <2>1. /\ clientPc[c] = "idle" /\ execState' = execState
        /\ closures' = closures /\ drainPc' = drainPc
        /\ clientPc' = [clientPc EXCEPT ![c] = IF ~running THEN "schedule" ELSE "return"]
    BY <1>1 DEF PostAccepted, CanPost, NeedSchedule, drainVars, execVars
  <2>2. CASE running
    BY <1>0, <2>1, <2>2, OwnerFrame
  <2>3. CASE ~running
    BY <1>0, <2>1, <2>3 DEF OwnerInv
  <2> QED
    BY <2>2, <2>3
<1>2. ASSUME NEW c \in Clients, PostSchedule(c) PROVE OwnerInv'
  <2>1. clientPc[c] = "schedule" /\ closures = 0 /\ running' = running
    BY <1>2 DEF PostSchedule, TokenInv, ClientInv, queueVars
  <2>2. \/ closures' = closures + 1
        \/ clientPc' = [clientPc EXCEPT ![c] = "failed"]
    BY <1>2 DEF PostSchedule, Executor!Accept
  <2> QED
    BY <1>0, <2>1, <2>2 DEF OwnerInv
<1>3. ASSUME NEW c \in Clients, PostScheduleFailed(c) PROVE OwnerInv'
  BY <1>3 DEF PostScheduleFailed, MarkFailedSchedule, ReleaseDrain, OwnerInv
<1>4. ASSUME NEW c \in Clients, PostReturn(c) PROVE OwnerInv'
  BY <1>0, <1>4, OwnerFrame DEF PostReturn, queueVars, drainVars, execVars
<1>5. ASSUME NEW w \in Workers, StartDrain(w) PROVE OwnerInv'
  BY <1>0, <1>5 DEF StartDrain, OwnerInv
<1>6. ASSUME NEW p \in Pumpers, StartPump(p) \/ PumpEnd(p) PROVE OwnerInv'
  <2>1. \A w \in Workers : drainPc'[w] = drainPc[w]
    BY <1>0, <1>6, ThreadAssumption DEF StartPump, PumpEnd
  <2> QED
    BY <1>6, <2>1, OwnerFrame DEF StartPump, PumpEnd, queueVars, clientVars, execVars
<1>7. ASSUME NEW d \in Drainers, PopEntry(d) PROVE OwnerInv'
  BY <1>0, <1>7, OwnerFrame DEF PopEntry, clientVars, execVars
<1>8. ASSUME NEW w \in Workers, DrainEmpty(w) PROVE OwnerInv'
  BY <1>8 DEF DrainEmpty, ReleaseDrain, OwnerInv
<1>9. ASSUME NEW w \in Workers, BatchExhausted(w) PROVE OwnerInv'
  <2>1. drainPc[w] = "loop" /\ closures = 0 /\ running' = running
    BY <1>9 DEF BatchExhausted, TokenInv, WorkerInv, queueVars
  <2>2. \/ closures' = closures + 1
        \/ drainPc' = [drainPc EXCEPT ![w] = "failed"]
    BY <1>9 DEF BatchExhausted, Executor!Accept
  <2> QED
    BY <1>0, <2>1, <2>2 DEF OwnerInv
<1>10. ASSUME NEW w \in Workers, RequeueFailed(w) PROVE OwnerInv'
  BY <1>10 DEF RequeueFailed, MarkFailedSchedule, ReleaseDrain, OwnerInv
<1>11. ASSUME NEW d \in Drainers, ExecuteEntry(d) PROVE OwnerInv'
  <2>1. /\ drainPc[d] # "idle"
        /\ \E p \in {"loop", "start", "run", "count"} : drainPc' = [drainPc EXCEPT ![d] = p]
        /\ UNCHANGED <<running, clientPc, execState, closures>>
    BY <1>11 DEF ExecuteEntry, CheckCanceled, StartJob, FinishJob, CountJob, queueVars,
       clientVars, execVars
  <2> QED
    BY <1>0, <2>1, OwnerFrame
<1>12. ASSUME NEW s \in Stoppers, StopNext(s) PROVE OwnerInv'
  BY <1>12, OwnerFrame DEF StopNext, StopCall, StopStep, StopCheck, StopMark, StopTally,
     StopErase, StopClose, StopTimeout, SpuriousWakeup, queueVars, clientVars, drainVars,
     execVars
<1>13. ASSUME NEW x \in Cancelers, CancelNext(x) PROVE OwnerInv'
  BY <1>13, OwnerFrame DEF CancelNext, CancelCall, CancelExchange, CancelLoad, queueVars,
     clientVars, drainVars, execVars
<1>14. ASSUME NEW c \in Clients, NEW j \in Jobs, PostRefused(c, j) PROVE OwnerInv'
  BY <1>14, OwnerFrame DEF PostRefused, queueVars, drainVars, execVars
<1>15. ASSUME ExecutorStep PROVE OwnerInv'
  BY <1>15 DEF ExecutorStep, Executor!Stop, Executor!Discard, Executor!Close, OwnerInv,
     queueVars, clientVars, drainVars
<1>16. CASE UNCHANGED vars
  BY <1>16, OwnerFrame DEF vars, queueVars, clientVars, drainVars, execVars
<1> QED
  BY <1>1, <1>2, <1>3, <1>4, <1>5, <1>6, <1>7, <1>8, <1>9, <1>10, <1>11, <1>12, <1>13,
     <1>14, <1>15, <1>16
     DEF Next, PostNext, WorkerNext, PumpNext, Drainers

\* A set with at most one element has as many elements as it has.
LEMMA AtMostOneElement ==
  ASSUME NEW S, \A x, y \in S : x = y
  PROVE  Cardinality(S) = IF S = {} THEN 0 ELSE 1
<1>1. CASE S = {}
  BY <1>1, FS_EmptySet
<1>2. CASE S # {}
  <2>1. PICK x : S = {x}
    BY <1>2
  <2> QED
    BY <1>2, <2>1, FS_Singleton
<1> QED
  BY <1>1, <1>2

\* DrainOwners counts the holders of the one token.
LEMMA DrainOwnersCount ==
  ASSUME Typed, TokenInv
  PROVE  /\ DrainOwners \in {0, 1}
         /\ DrainOwners = 1 <=> \/ closures = 1
                                \/ \E w \in Workers : Draining(w)
                                \/ \E c \in Clients : Scheduling(c)
<1> DEFINE W == {w \in Workers : drainPc[w] # "idle"}
           C == {c \in Clients : clientPc[c] \in {"schedule", "failed"}}
<1>1. Cardinality(W) = IF W = {} THEN 0 ELSE 1
  <2>1. \A v, w \in W : v = w
    BY DEF TokenInv, WorkerInv, Draining
  <2> QED
    BY <2>1, AtMostOneElement
<1>2. Cardinality(C) = IF C = {} THEN 0 ELSE 1
  <2>1. \A b, c \in C : b = c
    BY DEF TokenInv, ClientInv, Scheduling
  <2> QED
    BY <2>1, AtMostOneElement
<1>3. W # {} <=> \E w \in Workers : Draining(w)
  BY DEF Draining
<1>4. C # {} <=> \E c \in Clients : Scheduling(c)
  BY DEF Scheduling
<1>5. DrainOwners = closures + Cardinality(W) + Cardinality(C)
  BY DEF DrainOwners
<1>6. /\ closures \in {0, 1}
      /\ closures = 1 => W = {} /\ C = {}
      /\ W # {} => C = {}
  BY <1>3, <1>4 DEF TokenInv, ClosureInv, WorkerInv
<1> HIDE DEF W, C
<1> QED
  BY <1>1, <1>2, <1>3, <1>4, <1>5, <1>6

\* There is one drain while running_ is up and the executor runs, and none
\* while it is down.
THEOREM RunningIsOneDrainSafe == Spec => []RunningIsOneDrain
<1> DEFINE Inv == Typed /\ TokenInv /\ OwnerInv
<1>1. Init => Inv
  BY TypedInit, TokenInit DEF Init, OwnerInv
<1>2. Inv /\ [Next]_vars => Inv'
  BY TypedStep, TokenStep, OwnerStep
<1>3. Inv => RunningIsOneDrain
  <2> SUFFICES ASSUME Inv PROVE RunningIsOneDrain
    OBVIOUS
  <2>1. DrainOwners = 1 => running
    BY DrainOwnersCount DEF TokenInv, ClosureInv, WorkerInv, ClientInv
  <2>2. running /\ execState = "Running" => DrainOwners = 1
    BY DrainOwnersCount DEF OwnerInv
  <2> QED
    BY <2>1, <2>2, DrainOwnersCount DEF RunningIsOneDrain, AtMostOneDrain, RunningMeansDrain
<1> QED
  BY <1>1, <1>2, <1>3, PTL DEF Spec

-----------------------------------------------------------------------------
(* Conservation                                                              *)

\* Whether some thread holds a job, as a number.
InHands == IF \E d \in Drainers : Busy(d) THEN 1 ELSE 0

\* At most one thread drains, test hooks included.
LEMMA OneDrainer ==
  ASSUME Typed, TokenInv
  PROVE  /\ \A d, e \in Drainers : Draining(d) /\ Draining(e) => d = e
         /\ \A d \in Drainers : Busy(d) => Draining(d)
         /\ SerialExecution
<1>0. held \in [Drainers -> Jobs \cup {NoJob}] /\ HeldInv
  BY DEF Typed, TypeOK
<1>1. \A d \in Drainers : Busy(d) => Draining(d)
  BY <1>0 DEF HeldInv, Busy, Draining
<1>2. ASSUME NEW d \in Drainers, NEW e \in Drainers, Draining(d), Draining(e)
      PROVE  d = e
  <2>1. CASE Pumpers = {}
    BY <1>2, <2>1 DEF TokenInv, WorkerInv, Drainers
  <2>2. CASE Workers = {} /\ \A p, q \in Pumpers : p = q
    BY <2>2 DEF Drainers
  <2> QED
    BY <2>1, <2>2, HookAssumption
<1> QED
  BY <1>1, <1>2 DEF SerialExecution

\* The set that Conservation counts has one element or none.
LEMMA HandsCount ==
  ASSUME SerialExecution
  PROVE  Cardinality({d \in Drainers : Busy(d)}) = InHands
<1>1. \A d, e \in {f \in Drainers : Busy(f)} : d = e
  BY DEF SerialExecution
<1> QED
  BY <1>1, AtMostOneElement DEF InHands

\* Conservation with InHands for the cardinality.
ConservationInv ==
  count.submitted = count.executed + count.canceled + Len(queue) + InHands

\* No Stop is called that works on the queue without mtx_.
LockedStops == "clear" \notin StopModes

\* So none is in the middle of that.
LockedInv == \A s \in Stoppers : stopPc[s] \notin {"mark", "tally", "erase"}

\* Without Stop(false) no thread gets into its three steps.
LEMMA LockedStep == LockedStops /\ Typed /\ LockedInv /\ [Next]_vars => LockedInv'
<1> SUFFICES ASSUME LockedStops, Typed, LockedInv, [Next]_vars PROVE LockedInv'
  OBVIOUS
<1> USE DEF LockedInv
<1>0. stopPc \in [Stoppers -> StopPcs]
  BY DEF Typed, TypeOK
<1>1. CASE stopPc' = stopPc
  BY <1>1
<1>2. CASE stopPc' = NotifyAll(stopPc)
  BY <1>0, <1>2 DEF NotifyAll
<1>3. ASSUME NEW s \in Stoppers, StopNext(s) PROVE LockedInv'
  BY <1>0, <1>3 DEF StopNext, StopCall, StopStep, StopCheck, StopMark, StopTally,
     StopErase, StopClose, StopTimeout, SpuriousWakeup, LockedStops
<1>4. ASSUME NEW c \in Clients, PostNext(c) PROVE stopPc' \in {stopPc, NotifyAll(stopPc)}
  BY <1>4 DEF PostNext, PostRefused, PostAccepted, PostSchedule, PostScheduleFailed,
     PostReturn, MarkFailedSchedule, ReleaseDrain, stopVars
<1>5. ASSUME NEW w \in Workers, WorkerNext(w) PROVE stopPc' \in {stopPc, NotifyAll(stopPc)}
  BY <1>5 DEF WorkerNext, StartDrain, PopEntry, DrainEmpty, BatchExhausted, RequeueFailed,
     MarkFailedSchedule, ReleaseDrain, ExecuteEntry, CheckCanceled, StartJob, FinishJob,
     CountJob, stopVars
<1>6. ASSUME NEW p \in Pumpers, PumpNext(p) PROVE stopPc' = stopPc
  BY <1>6 DEF PumpNext, StartPump, PopEntry, PumpEnd, ExecuteEntry, CheckCanceled,
     StartJob, FinishJob, CountJob, stopVars
<1>7. ASSUME NEW x \in Cancelers, CancelNext(x) PROVE stopPc' = stopPc
  BY <1>7 DEF CancelNext, CancelCall, CancelExchange, CancelLoad, stopVars
<1>8. CASE ExecutorStep \/ UNCHANGED vars
  BY <1>8, <1>1 DEF ExecutorStep, vars, stopVars
<1> QED
  BY <1>1, <1>2, <1>3, <1>4, <1>5, <1>6, <1>7, <1>8 DEF Next

\* A step that neither counts, queues nor takes a job keeps the balance.
LEMMA ConservationFrame ==
  ASSUME ConservationInv, count' = count, queue' = queue,
         \A d \in Drainers : Busy(d)' <=> Busy(d)
  PROVE  ConservationInv'
  BY DEF ConservationInv, InHands

\* Every step of a queue whose Stops hold mtx_ keeps the balance of the counters.
LEMMA ConservationStep ==
  ASSUME LockedStops, Typed, TokenInv, LockedInv, ConservationInv, [Next]_vars, TokenInv', Typed'
  PROVE  ConservationInv'
<1> USE DEF queueVars, drainVars
<1>0. /\ queue \in Seq(Jobs)
      /\ held \in [Drainers -> Jobs \cup {NoJob}]
      /\ count \in [{"submitted", "rejected", "executed", "failed", "canceled"} -> Nat]
      /\ HeldInv
      /\ Workers \subseteq Drainers /\ Pumpers \subseteq Drainers
  BY DEF Typed, TypeOK, Drainers
<1>1. ASSUME NEW c \in Clients, NEW j \in Jobs, PostRefused(c, j) PROVE ConservationInv'
  BY <1>0, <1>1 DEF PostRefused, Bump, ConservationInv, InHands, Busy
<1>2. ASSUME NEW c \in Clients, NEW j \in Jobs, PostAccepted(c, j) PROVE ConservationInv'
  <2>1. Len(queue') = Len(queue) + 1 /\ Len(queue) \in Nat
    BY <1>0, <1>2 DEF PostAccepted
  <2> QED
    BY <1>0, <1>2, <2>1 DEF PostAccepted, Bump, ConservationInv, InHands, Busy
<1>3. ASSUME NEW c \in Clients, PostSchedule(c) \/ PostScheduleFailed(c) \/ PostReturn(c)
      PROVE  ConservationInv'
  BY <1>3, ConservationFrame DEF PostSchedule, PostScheduleFailed, MarkFailedSchedule,
     PostReturn, Busy
<1>4. ASSUME NEW d \in Drainers, PopEntry(d) PROVE ConservationInv'
  <2>1. /\ drainPc[d] = "loop" /\ queue # <<>> /\ queue' = Tail(queue) /\ count' = count
        /\ held' = [held EXCEPT ![d] = Head(queue)]
    BY <1>4 DEF PopEntry
  <2>2. Len(queue') = Len(queue) - 1 /\ Len(queue) \in Nat \ {0} /\ Head(queue) \in Jobs
    BY <1>0, <2>1
  <2>3. Busy(d)'
    BY <1>0, <2>1, <2>2, NoJobAssumption DEF Busy
  <2>4. \A e \in Drainers : ~Busy(e)
    <3>1. ~Busy(d)
      BY <1>0, <2>1 DEF HeldInv, Busy
    <3>2. \A e \in Drainers : Busy(e) => e = d
      BY <2>1, OneDrainer DEF Draining
    <3> QED
      BY <3>1, <3>2
  <2> QED
    BY <1>0, <2>1, <2>2, <2>3, <2>4 DEF ConservationInv, InHands
<1>5. ASSUME NEW d \in Drainers, held[d] \in Jobs, held' = [held EXCEPT ![d] = NoJob],
             queue' = queue,
             \E f \in {"executed", "canceled"} : count' = Bump(count, f, 1)
      PROVE  ConservationInv'
  <2>1. Busy(d) /\ \A e \in Drainers : ~Busy(e)'
    <3>1. Busy(d)
      BY <1>5, NoJobAssumption DEF Busy
    <3>2. \A e \in Drainers : Busy(e) => e = d
      BY <3>1, OneDrainer DEF SerialExecution
    <3> QED
      BY <1>0, <1>5, <3>1, <3>2 DEF Busy
  <2>2. InHands = 1 /\ InHands' = 0 /\ Len(queue) \in Nat
    BY <1>0, <2>1 DEF InHands
  <2> QED
    BY <1>0, <1>5, <2>2 DEF ConservationInv, Bump
<1>6. ASSUME NEW d \in Drainers, CheckCanceled(d) PROVE ConservationInv'
  <2>1. held[d] \in Jobs
    BY <1>0, <1>6 DEF CheckCanceled, HeldInv
  <2>2. CASE held' = [held EXCEPT ![d] = NoJob] /\ count' = Bump(count, "canceled", 1)
    BY <1>5, <1>6, <2>1, <2>2 DEF CheckCanceled
  <2>3. CASE held' = held /\ count' = count
    BY <1>6, <2>3, ConservationFrame DEF CheckCanceled, Busy
  <2> QED
    BY <1>6, <2>2, <2>3 DEF CheckCanceled
<1>7. ASSUME NEW d \in Drainers, CountJob(d) PROVE ConservationInv'
  <2>1. held[d] \in Jobs
    BY <1>0, <1>7 DEF CountJob, HeldInv
  <2> QED
    BY <1>5, <1>7, <2>1 DEF CountJob
<1>8. ASSUME NEW d \in Drainers, StartJob(d) PROVE ConservationInv'
  BY <1>8, ConservationFrame DEF StartJob, Busy
<1>9. ASSUME NEW d \in Drainers, FinishJob(d) PROVE ConservationInv'
  BY <1>0, <1>9 DEF FinishJob, Bump, ConservationInv, InHands, Busy
<1>10. ASSUME NEW w \in Workers,
              StartDrain(w) \/ DrainEmpty(w) \/ BatchExhausted(w) \/ RequeueFailed(w)
       PROVE  ConservationInv'
  BY <1>10, ConservationFrame DEF StartDrain, DrainEmpty, BatchExhausted, RequeueFailed,
     MarkFailedSchedule, Busy
<1>11. ASSUME NEW p \in Pumpers, StartPump(p) \/ PumpEnd(p) PROVE ConservationInv'
  BY <1>11, ConservationFrame DEF StartPump, PumpEnd, Busy
<1>12. ASSUME NEW s \in Stoppers, StopTimeout(s) PROVE ConservationInv'
  <2>1. CASE queue' = queue /\ count' = count
    BY <1>12, <2>1, ConservationFrame DEF StopTimeout, Busy
  <2>2. CASE DropQueued
    <3>1. Len(queue') = 0 /\ Len(queue) \in Nat
      BY <1>0, <2>2 DEF DropQueued
    <3> QED
      BY <1>0, <1>12, <2>2, <3>1 DEF StopTimeout, DropQueued, Bump, ConservationInv,
         InHands, Busy
  <2> QED
    BY <1>12, <2>1, <2>2 DEF StopTimeout
<1>13. ASSUME NEW s \in Stoppers, StopNext(s), ~StopTimeout(s) PROVE ConservationInv'
  BY <1>13, ConservationFrame DEF StopNext, StopCall, StopStep, StopCheck, StopMark,
     StopTally, StopErase, StopClose, SpuriousWakeup, LockedInv, Busy
<1>14. ASSUME NEW x \in Cancelers, CancelNext(x) PROVE ConservationInv'
  BY <1>14, ConservationFrame DEF CancelNext, CancelCall, CancelExchange, CancelLoad, Busy
<1>15. CASE ExecutorStep \/ UNCHANGED vars
  BY <1>15, ConservationFrame DEF ExecutorStep, vars, Busy
<1> QED
  BY <1>1, <1>2, <1>3, <1>4, <1>6, <1>7, <1>8, <1>9, <1>10, <1>11, <1>12, <1>13, <1>14,
     <1>15
     DEF Next, PostNext, WorkerNext, PumpNext, ExecuteEntry, Drainers

\* Every accepted job is queued, in a thread's hands, or counted once, as long
\* as the program stops the queue by draining it.
THEOREM ConservationSafe == LockedStops /\ Spec => []Conservation
<1> SUFFICES ASSUME LockedStops PROVE Spec => []Conservation
  OBVIOUS
<1> DEFINE Inv == Typed /\ TokenInv /\ LockedInv /\ ConservationInv
<1>1. Init => Inv
  <2> SUFFICES ASSUME Init PROVE LockedInv /\ ConservationInv
    BY TypedInit, TokenInit
  <2> QED
    BY DEF Init, LockedInv, ConservationInv, InHands, Busy
<1>2. Inv /\ [Next]_vars => Inv'
  BY TypedStep, TokenStep, LockedStep, ConservationStep
<1>3. Inv => Conservation
  BY OneDrainer, HandsCount DEF ConservationInv, Conservation
<1> QED
  BY <1>1, <1>2, <1>3, PTL DEF Spec

-----------------------------------------------------------------------------
(* Cancel                                                                    *)

\* The verdicts of a call that found the flag down.
Winning == {"Canceled", "AlreadyExecuting", "AlreadyFinished"}

\* x has found the flag of j down: it is about to say so, or has said so last.
Won(x, j) ==
  \/ cancelPc[x] = "load" /\ target[x] = j
  \/ verdict[x].job = j /\ verdict[x].result \in Winning

\* A job that was won is flagged, and won by one caller; a verdict is about a job.
CancelInv ==
  /\ \A x \in Cancelers, j \in Jobs : Won(x, j) => j \in flagged
  /\ \A x, y \in Cancelers, j \in Jobs : Won(x, j) /\ Won(y, j) => x = y
  /\ \A x \in Cancelers : verdict[x].result # "none" => verdict[x].job \in Jobs
  /\ \A x \in Cancelers : verdict[x].result = "none" => verdict[x].job = NoJob

\* A step that leaves the callers of Cancel and the flags alone keeps CancelInv.
LEMMA CancelFrame ==
  ASSUME CancelInv, UNCHANGED cancelVars, flagged' = flagged
  PROVE  CancelInv'
  BY DEF CancelInv, Won, cancelVars

\* What the loads of State may tell the caller.
LEMMA LoadWins ==
  ASSUME NEW x \in Cancelers, Typed, CancelLoad(x)
  PROVE  \E r \in Winning :
           verdict' = [verdict EXCEPT ![x] = [job |-> target[x], result |-> r]]
<1> DEFINE r == CASE jobState[target[x]] = "Executing" -> "AlreadyExecuting"
                  [] jobState[target[x]] \in {"Done", "Failed"} -> "AlreadyFinished"
                  [] OTHER -> "Canceled"
<1>1. r \in Winning
  <2>1. CASE jobState[target[x]] = "Executing"
    BY <2>1 DEF Winning
  <2>2. CASE jobState[target[x]] \in {"Done", "Failed"}
    BY <2>2 DEF Winning
  <2>3. CASE jobState[target[x]] \notin {"Executing", "Done", "Failed"}
    BY <2>3 DEF Winning
  <2> QED
    BY <2>1, <2>2, <2>3
<1>2. verdict' = [verdict EXCEPT ![x] = [job |-> target[x], result |-> r]]
  BY DEF CancelLoad, Verdict
<1> QED
  BY <1>1, <1>2

\* Every step keeps CancelInv: the exchange lets one caller through.
LEMMA CancelStep == Typed /\ CancelInv /\ [Next]_vars => CancelInv'
<1> SUFFICES ASSUME Typed, CancelInv, [Next]_vars PROVE CancelInv'
  OBVIOUS
<1>0. /\ cancelPc \in [Cancelers -> {"idle", "exchange", "load"}]
      /\ target \in [Cancelers -> Jobs \cup {NoJob}]
      /\ verdict \in [Cancelers -> [job : Jobs \cup {NoJob}, result : Results]]
      /\ TargetInv
  BY CancelTypes DEF Typed
<1>1. ASSUME NEW x \in Cancelers, NEW j \in Jobs, CancelCall(x, j) PROVE CancelInv'
  <2>1. flagged' = flagged /\ cancelPc[x] = "idle"
    BY <1>1 DEF CancelCall, entryVars
  <2>2. CASE /\ cancelPc' = [cancelPc EXCEPT ![x] = "exchange"]
             /\ target' = [target EXCEPT ![x] = j]
             /\ verdict' = verdict
    <3>1. \A y \in Cancelers, k \in Jobs : Won(y, k)' <=> Won(y, k)
      BY <1>0, <2>1, <2>2 DEF Won
    <3> QED
      BY <2>1, <2>2, <3>1 DEF CancelInv
  <2>3. CASE /\ verdict' = [verdict EXCEPT ![x] = [job |-> j, result |-> "Expired"]]
             /\ UNCHANGED <<cancelPc, target>>
    <3>1. \A y \in Cancelers, k \in Jobs : Won(y, k)' => Won(y, k)
      BY <1>0, <2>3 DEF Won, Winning
    <3>2. verdict'[x].job = j /\ verdict'[x].result = "Expired"
      BY <1>0, <2>3
    <3>3. \A y \in Cancelers : y # x => verdict'[y] = verdict[y]
      BY <1>0, <2>3
    <3> QED
      BY <2>1, <3>1, <3>2, <3>3 DEF CancelInv
  <2> QED
    BY <1>1, <2>2, <2>3 DEF CancelCall, Verdict
<1>2. ASSUME NEW x \in Cancelers, CancelExchange(x) PROVE CancelInv'
  <2>1. /\ cancelPc[x] = "exchange" /\ target[x] \in Jobs
        /\ flagged' = flagged \cup {target[x]}
    BY <1>0, <1>2 DEF CancelExchange, TargetInv
  <2>2. CASE /\ verdict' = [verdict EXCEPT ![x] = [job |-> target[x], result |-> "AlreadyCanceled"]]
             /\ cancelPc' = [cancelPc EXCEPT ![x] = "idle"]
             /\ target' = [target EXCEPT ![x] = NoJob]
    <3>1. \A y \in Cancelers, k \in Jobs : Won(y, k)' => Won(y, k)
      BY <1>0, <2>2 DEF Won, Winning
    <3>2. verdict'[x].job = target[x] /\ verdict'[x].result = "AlreadyCanceled"
      BY <1>0, <2>2
    <3>3. \A y \in Cancelers : y # x => verdict'[y] = verdict[y]
      BY <1>0, <2>2
    <3> QED
      BY <2>1, <3>1, <3>2, <3>3 DEF CancelInv
  <2>3. CASE /\ target[x] \notin flagged
             /\ cancelPc' = [cancelPc EXCEPT ![x] = "load"]
             /\ UNCHANGED <<target, verdict>>
    <3>1. \A y \in Cancelers : ~Won(y, target[x])
      BY <2>1, <2>3 DEF CancelInv
    <3>2. \A y \in Cancelers, k \in Jobs : Won(y, k)' => Won(y, k) \/ (y = x /\ k = target[x])
      BY <1>0, <2>3 DEF Won
    <3>3. \A y \in Cancelers, k \in Jobs : Won(y, k)' => k \in flagged'
      BY <2>1, <3>2 DEF CancelInv
    <3>4. \A y, z \in Cancelers, k \in Jobs : Won(y, k)' /\ Won(z, k)' => y = z
      BY <3>1, <3>2 DEF CancelInv
    <3> QED
      BY <2>3, <3>3, <3>4 DEF CancelInv
  <2> QED
    BY <1>2, <2>2, <2>3 DEF CancelExchange, Verdict, WasFlagged
<1>3. ASSUME NEW x \in Cancelers, CancelLoad(x) PROVE CancelInv'
  <2>1. /\ cancelPc[x] = "load" /\ target[x] \in Jobs /\ flagged' = flagged
        /\ cancelPc' = [cancelPc EXCEPT ![x] = "idle"]
        /\ target' = [target EXCEPT ![x] = NoJob]
    BY <1>0, <1>3 DEF CancelLoad, TargetInv, entryVars
  <2>2. PICK r \in Winning :
          verdict' = [verdict EXCEPT ![x] = [job |-> target[x], result |-> r]]
    BY <1>3, LoadWins
  <2>3. Won(x, target[x])
    BY <2>1 DEF Won
  <2>4. \A y \in Cancelers, k \in Jobs : Won(y, k)' => Won(y, k)
    BY <1>0, <2>1, <2>2, <2>3 DEF Won
  <2>5. verdict'[x].job = target[x] /\ verdict'[x].result = r /\ r # "none"
    BY <1>0, <2>2 DEF Winning
  <2>6. \A y \in Cancelers : y # x => verdict'[y] = verdict[y]
    BY <1>0, <2>2
  <2> QED
    BY <2>1, <2>4, <2>5, <2>6 DEF CancelInv
<1>4. ASSUME NEW c \in Clients, PostNext(c) PROVE CancelInv'
  BY <1>4, CancelFrame DEF PostNext, PostRefused, PostAccepted, PostSchedule,
     PostScheduleFailed, PostReturn, entryVars
<1>5. ASSUME NEW d \in Drainers, ExecuteEntry(d) \/ PopEntry(d) PROVE CancelInv'
  BY <1>5, CancelFrame DEF PopEntry, ExecuteEntry, CheckCanceled, StartJob, FinishJob,
     CountJob, entryVars
<1>6. ASSUME NEW w \in Workers,
             StartDrain(w) \/ DrainEmpty(w) \/ BatchExhausted(w) \/ RequeueFailed(w)
      PROVE  CancelInv'
  BY <1>6, CancelFrame DEF StartDrain, DrainEmpty, BatchExhausted, RequeueFailed, entryVars
<1>7. ASSUME NEW p \in Pumpers, StartPump(p) \/ PumpEnd(p) PROVE CancelInv'
  BY <1>7, CancelFrame DEF StartPump, PumpEnd, entryVars
<1>8. ASSUME NEW s \in Stoppers, StopNext(s) PROVE CancelInv'
  BY <1>8, CancelFrame DEF StopNext, StopCall, StopStep, StopCheck, StopMark, StopTally,
     StopErase, StopClose, StopTimeout, SpuriousWakeup, entryVars
<1>9. CASE ExecutorStep \/ UNCHANGED vars
  BY <1>9, CancelFrame DEF ExecutorStep, vars, entryVars
<1> QED
  BY <1>1, <1>2, <1>3, <1>4, <1>5, <1>6, <1>7, <1>8, <1>9
     DEF Next, WorkerNext, PumpNext, CancelNext, Drainers

\* Of all the callers that cancel one job, one is told that it was first.
THEOREM OneCancelWinsSafe == Spec => []OneCancelWins
<1> DEFINE Inv == Typed /\ CancelInv
<1>1. Init => Inv
  <2> SUFFICES ASSUME Init PROVE CancelInv
    BY TypedInit
  <2>1. \A x \in Cancelers : /\ cancelPc[x] = "idle"
                             /\ verdict[x] = [job |-> NoJob, result |-> "none"]
    BY DEF Init
  <2> QED
    BY <2>1 DEF CancelInv, Won, Winning
<1>2. Inv /\ [Next]_vars => Inv'
  BY TypedStep, CancelStep
<1>3. Inv => OneCancelWins
  <2> SUFFICES ASSUME Inv, NEW x \in Cancelers, NEW y \in Cancelers, x # y,
                      verdict[x].job = verdict[y].job, verdict[x].result \in Winning
               PROVE  verdict[y].result \in {"AlreadyCanceled", "Expired"}
    BY DEF OneCancelWins, Winning
  <2>1. verdict[x].job \in Jobs
    BY DEF CancelInv, Winning
  <2>2. verdict[y].result \notin Winning
    BY <2>1 DEF CancelInv, Won
  <2>3. verdict[y].result # "none"
    BY <2>1, NoJobAssumption DEF CancelInv
  <2>4. verdict[y].result \in Results
    BY CancelTypes DEF Typed
  <2> QED
    BY <2>2, <2>3, <2>4 DEF Results, Winning
<1> QED
  BY <1>1, <1>2, <1>3, PTL DEF Spec

-----------------------------------------------------------------------------
(* The entries                                                               *)

\* A sequence in which no element occurs twice.
NoRepeats(q) == \A i, k \in 1..Len(q) : q[i] = q[k] => i = k

\* The elements of a queue after a push, a pop and a clear.
LEMMA ElementsOfQueue ==
  ASSUME NEW q \in Seq(Jobs), NEW j \in Jobs
  PROVE  /\ ToSet(q) \subseteq Jobs
         /\ ToSet(<<>>) = {}
         /\ ToSet(Append(q, j)) = ToSet(q) \cup {j}
         /\ q # <<>> => Head(q) \in ToSet(q)
<1> USE DEF ToSet
<1>1. ToSet(q) \subseteq Jobs /\ ToSet(<<>>) = {}
  OBVIOUS
<1>2. ToSet(Append(q, j)) = ToSet(q) \cup {j}
  <2>1. /\ Len(Append(q, j)) = Len(q) + 1 /\ Append(q, j)[Len(q) + 1] = j
        /\ \A i \in 1..Len(q) : Append(q, j)[i] = q[i]
        /\ DOMAIN Append(q, j) = 1..(Len(q) + 1) /\ DOMAIN q = 1..Len(q)
        /\ Len(q) \in Nat
    OBVIOUS
  <2>2. ASSUME NEW k \in ToSet(Append(q, j)) PROVE k \in ToSet(q) \cup {j}
    <3>1. PICK i \in 1..(Len(q) + 1) : k = Append(q, j)[i]
      BY <2>1, <2>2
    <3> QED
      BY <2>1, <3>1
  <2>3. ASSUME NEW k \in ToSet(q) \cup {j} PROVE k \in ToSet(Append(q, j))
    <3>1. CASE k = j
      BY <2>1, <3>1
    <3>2. CASE k \in ToSet(q)
      <4>1. PICK i \in 1..Len(q) : k = q[i]
        BY <3>2, <2>1
      <4> QED
        BY <2>1, <4>1
    <3> QED
      BY <2>3, <3>1, <3>2
  <2> QED
    BY <2>2, <2>3
<1>3. q # <<>> => Head(q) \in ToSet(q)
  OBVIOUS
<1> QED
  BY <1>1, <1>2, <1>3

\* Popping a queue without repetitions removes its head and nothing else.
LEMMA ElementsOfTail ==
  ASSUME NEW q \in Seq(Jobs), q # <<>>, NoRepeats(q)
  PROVE  /\ ToSet(Tail(q)) = ToSet(q) \ {Head(q)}
         /\ NoRepeats(Tail(q))
<1>1. /\ Len(q) \in Nat \ {0} /\ Head(q) = q[1]
      /\ Tail(q) \in Seq(Jobs) /\ Len(Tail(q)) = Len(q) - 1
      /\ \A i \in 1..(Len(q) - 1) : Tail(q)[i] = q[i + 1]
      /\ DOMAIN Tail(q) = 1..(Len(q) - 1) /\ DOMAIN q = 1..Len(q)
  OBVIOUS
<1>2. ASSUME NEW k \in ToSet(Tail(q)) PROVE k \in ToSet(q) \ {Head(q)}
  <2>1. PICK i \in 1..(Len(q) - 1) : k = Tail(q)[i]
    BY <1>1, <1>2 DEF ToSet
  <2>2. i + 1 \in 1..Len(q) /\ k = q[i + 1] /\ i + 1 # 1
    BY <1>1, <2>1
  <2> QED
    BY <1>1, <2>2 DEF ToSet, NoRepeats
<1>3. ASSUME NEW k \in ToSet(q) \ {Head(q)} PROVE k \in ToSet(Tail(q))
  <2>1. PICK i \in 1..Len(q) : k = q[i]
    BY <1>1, <1>3 DEF ToSet
  <2>2. i - 1 \in 1..(Len(q) - 1) /\ k = Tail(q)[i - 1]
    BY <1>1, <1>3, <2>1
  <2> QED
    BY <1>1, <2>2 DEF ToSet
<1>4. NoRepeats(Tail(q))
  BY <1>1 DEF NoRepeats
<1> QED
  BY <1>2, <1>3, <1>4

\* Nothing is twice in the queue, nothing in the queue is in a thread's hands or
\* has been started, and no entry goes back to being Fresh.
EntryInv ==
  /\ NoRepeats(queue)
  /\ \A j \in ToSet(queue) : jobState[j] \in {"Queued", "Canceled"}
  /\ \A d \in Drainers : Busy(d) =>
        held[d] \notin ToSet(queue) /\ jobState[held[d]] # "Fresh"

\* What a step may do to the queue, to the entries in a thread's hands and to
\* the State fields: five kinds of effect, and the closing of the queue.
Pushes ==
  \E j \in Jobs :
    /\ state = "Running" /\ state' = state
    /\ jobState[j] = "Fresh"
    /\ queue' = Append(queue, j)
    /\ jobState' = [jobState EXCEPT ![j] = "Queued"]
    /\ held' = held

Pops ==
  \E d \in Drainers :
    /\ drainPc[d] = "loop"
    /\ queue # <<>>
    /\ queue' = Tail(queue)
    /\ held' = [held EXCEPT ![d] = Head(queue)]
    /\ jobState' = jobState /\ state' = state

Ends ==
  \E d \in Drainers :
    /\ held[d] \in Jobs
    /\ held' = [held EXCEPT ![d] = NoJob]
    /\ jobState' \in {jobState, [jobState EXCEPT ![held[d]] = "Canceled"]}
    /\ queue' = queue /\ state' = state

Runs ==
  \E d \in Drainers, f \in {"Executing", "Done", "Failed"} :
    /\ held[d] \in Jobs
    /\ jobState' = [jobState EXCEPT ![held[d]] = f]
    /\ queue' = queue /\ held' = held /\ state' = state

GivesUp ==
  /\ state # "Running" /\ state' = state
  /\ jobState' \in {jobState, MarkQueued(jobState)}
  /\ queue' \in {queue, <<>>}
  /\ held' = held

Closes ==
  /\ state' = "Running" => state = "Running"
  /\ queue' = queue /\ held' = held /\ jobState' = jobState

\* Every step has one of these effects.
LEMMA StepEffects ==
  ASSUME Typed, StopInv, [Next]_vars
  PROVE  Pushes \/ Pops \/ Ends \/ Runs \/ GivesUp \/ Closes
<1> USE DEF queueVars, entryVars, drainVars
<1>0. HeldInv
  BY DEF Typed
<1>1. ASSUME NEW c \in Clients, NEW j \in Jobs, PostAccepted(c, j) PROVE Pushes
  BY <1>1 DEF PostAccepted, CanPost, Pushes
<1>2. ASSUME NEW c \in Clients, NEW j \in Jobs, PostRefused(c, j) PROVE Closes
  BY <1>2 DEF PostRefused, Closes
<1>3. ASSUME NEW c \in Clients, PostSchedule(c) \/ PostScheduleFailed(c) \/ PostReturn(c)
      PROVE  Closes
  BY <1>3 DEF PostSchedule, PostScheduleFailed, MarkFailedSchedule, PostReturn, Closes
<1>4. ASSUME NEW d \in Drainers, PopEntry(d) PROVE Pops
  BY <1>4 DEF PopEntry, Pops
<1>5. ASSUME NEW d \in Drainers, CheckCanceled(d) PROVE Ends \/ Closes
  BY <1>0, <1>5 DEF CheckCanceled, HeldInv, Ends, Closes
<1>6. ASSUME NEW d \in Drainers, StartJob(d) \/ FinishJob(d) PROVE Runs
  BY <1>0, <1>6, OptionAssumption DEF StartJob, FinishJob, HeldInv, Runs
<1>7. ASSUME NEW d \in Drainers, CountJob(d) PROVE Ends
  BY <1>0, <1>7 DEF CountJob, HeldInv, Ends
<1>8. ASSUME NEW w \in Workers,
             StartDrain(w) \/ DrainEmpty(w) \/ BatchExhausted(w) \/ RequeueFailed(w)
      PROVE  Closes
  BY <1>8 DEF StartDrain, DrainEmpty, BatchExhausted, RequeueFailed, MarkFailedSchedule,
     Closes
<1>9. ASSUME NEW p \in Pumpers, StartPump(p) \/ PumpEnd(p) PROVE Closes
  BY <1>9 DEF StartPump, PumpEnd, Closes
<1>10. ASSUME NEW s \in Stoppers, StopMark(s) \/ StopErase(s) \/ StopTimeout(s)
       PROVE  GivesUp
  <2>1. state # "Running"
    BY <1>10 DEF StopMark, StopErase, StopTimeout, StopInv
  <2> QED
    BY <1>10, <2>1 DEF StopMark, StopErase, StopTimeout, DropQueued, GivesUp
<1>11. ASSUME NEW s \in Stoppers, StopNext(s),
              ~(StopMark(s) \/ StopErase(s) \/ StopTimeout(s))
       PROVE  Closes
  BY <1>11 DEF StopNext, StopCall, StopStep, StopCheck, StopTally, StopClose,
     SpuriousWakeup, Closes
<1>12. ASSUME NEW x \in Cancelers, CancelNext(x) PROVE Closes
  BY <1>12 DEF CancelNext, CancelCall, CancelExchange, CancelLoad, Closes
<1>13. CASE ExecutorStep \/ UNCHANGED vars
  BY <1>13 DEF ExecutorStep, vars, Closes
<1> QED
  BY <1>1, <1>2, <1>3, <1>4, <1>5, <1>6, <1>7, <1>8, <1>9, <1>10, <1>11, <1>12, <1>13
     DEF Next, PostNext, WorkerNext, PumpNext, ExecuteEntry, Drainers

\* The three parts of the state that the effects are about.
LEMMA EntryTypes ==
  ASSUME Typed
  PROVE  /\ queue \in Seq(Jobs)
         /\ held \in [Drainers -> Jobs \cup {NoJob}]
         /\ jobState \in [Jobs -> {"Fresh", "Queued", "Executing", "Done", "Failed",
                                   "Canceled"}]
         /\ ToSet(queue) \subseteq Jobs
         /\ \A d \in Drainers : Busy(d) <=> held[d] \in Jobs
<1>1. /\ queue \in Seq(Jobs)
      /\ held \in [Drainers -> Jobs \cup {NoJob}]
      /\ jobState \in [Jobs -> {"Fresh", "Queued", "Executing", "Done", "Failed",
                                "Canceled"}]
  BY DEF Typed, TypeOK
<1>2. ToSet(queue) \subseteq Jobs
  BY <1>1 DEF ToSet
<1>3. \A d \in Drainers : Busy(d) <=> held[d] \in Jobs
  BY <1>1, NoJobAssumption DEF Busy
<1> QED
  BY <1>1, <1>2, <1>3

\* Every effect keeps EntryInv.
LEMMA EntryStep ==
  ASSUME Typed, StopInv, TokenInv, EntryInv, [Next]_vars
  PROVE  EntryInv'
<1>0. Pushes \/ Pops \/ Ends \/ Runs \/ GivesUp \/ Closes
  BY StepEffects
<1>1. CASE Pushes
  <2>1. PICK j \in Jobs :
          /\ jobState[j] = "Fresh" /\ queue' = Append(queue, j) /\ held' = held
          /\ jobState' = [jobState EXCEPT ![j] = "Queued"]
    BY <1>1 DEF Pushes
  <2>2. ToSet(queue') = ToSet(queue) \cup {j} /\ j \notin ToSet(queue)
    BY <2>1, EntryTypes, ElementsOfQueue DEF EntryInv
  <2>3. NoRepeats(queue')
    <3>1. \A i \in 1..Len(queue) : queue[i] # j
      BY <2>2, EntryTypes DEF ToSet
    <3> QED
      BY <2>1, <3>1, EntryTypes DEF EntryInv, NoRepeats
  <2>4. \A k \in ToSet(queue') : jobState'[k] \in {"Queued", "Canceled"}
    BY <2>1, <2>2, EntryTypes DEF EntryInv
  <2>5. \A d \in Drainers : Busy(d)' =>
          held'[d] \notin ToSet(queue') /\ jobState'[held'[d]] # "Fresh"
    BY <2>1, <2>2, EntryTypes DEF EntryInv, Busy
  <2> QED
    BY <2>3, <2>4, <2>5 DEF EntryInv
<1>2. CASE Pops
  <2>1. PICK d \in Drainers :
          /\ queue # <<>> /\ queue' = Tail(queue) /\ jobState' = jobState
          /\ held' = [held EXCEPT ![d] = Head(queue)]
    BY <1>2 DEF Pops
  <2>2. /\ ToSet(queue') = ToSet(queue) \ {Head(queue)} /\ NoRepeats(queue')
        /\ Head(queue) \in ToSet(queue) /\ Head(queue) \in Jobs
    BY <2>1, EntryTypes, ElementsOfQueue, ElementsOfTail DEF EntryInv
  <2> QED
    BY <2>1, <2>2, EntryTypes DEF EntryInv, Busy
<1>3. CASE Ends
  <2>1. PICK d \in Drainers :
          /\ held[d] \in Jobs /\ held' = [held EXCEPT ![d] = NoJob] /\ queue' = queue
          /\ jobState' \in {jobState, [jobState EXCEPT ![held[d]] = "Canceled"]}
    BY <1>3 DEF Ends
  <2>2. held[d] \notin ToSet(queue)
    BY <2>1, EntryTypes DEF EntryInv
  <2> QED
    BY <2>1, <2>2, EntryTypes DEF EntryInv, Busy
<1>4. CASE Runs
  <2>1. PICK d \in Drainers, f \in {"Executing", "Done", "Failed"} :
          /\ held[d] \in Jobs /\ jobState' = [jobState EXCEPT ![held[d]] = f]
          /\ queue' = queue /\ held' = held
    BY <1>4 DEF Runs
  <2>2. held[d] \notin ToSet(queue)
    BY <2>1, EntryTypes DEF EntryInv
  <2> QED
    BY <2>1, <2>2, EntryTypes DEF EntryInv, Busy
<1>5. CASE GivesUp
  <2>1. /\ queue' \in {queue, <<>>} /\ held' = held
        /\ jobState' \in {jobState, MarkQueued(jobState)}
    BY <1>5 DEF GivesUp
  <2>2. ToSet(queue') \subseteq ToSet(queue) /\ NoRepeats(queue')
    <3>1. ToSet(<<>>) = {} /\ NoRepeats(<<>>)
      BY DEF ToSet, NoRepeats
    <3> QED
      BY <2>1, <3>1 DEF EntryInv
  <2>3. \A j \in Jobs : \/ jobState'[j] = jobState[j]
                        \/ j \in ToSet(queue) /\ jobState'[j] = "Canceled"
    BY <2>1 DEF MarkQueued
  <2> QED
    BY <2>1, <2>2, <2>3, EntryTypes DEF EntryInv, Busy
<1>6. CASE Closes
  BY <1>6 DEF Closes, EntryInv, Busy
<1> QED
  BY <1>0, <1>1, <1>2, <1>3, <1>4, <1>5, <1>6

-----------------------------------------------------------------------------
(* The strand                                                                *)

\* The fate of a job in each of the places it can be.
LEMMA FateNow ==
  ASSUME NEW j, ~(j \in ToSet(queue) /\ j \in Held)
  PROVE  /\ j \in ToSet(queue) => FateOf(j) = "Waiting"
         /\ j \in Held => FateOf(j) = "Active"
         /\ j \notin ToSet(queue) /\ j \notin Held =>
              /\ jobState[j] = "Fresh" => FateOf(j) = "Fresh"
              /\ jobState[j] \in {"Done", "Failed"} => FateOf(j) = "Ran"
              /\ jobState[j] \notin {"Fresh", "Done", "Failed"} => FateOf(j) = "Dropped"
  BY DEF FateOf

\* The same in the next state.
LEMMA FateNext ==
  ASSUME NEW j, ~(j \in ToSet(queue') /\ j \in Held')
  PROVE  /\ j \in ToSet(queue') => FateOf(j)' = "Waiting"
         /\ j \in Held' => FateOf(j)' = "Active"
         /\ j \notin ToSet(queue') /\ j \notin Held' =>
              /\ jobState'[j] = "Fresh" => FateOf(j)' = "Fresh"
              /\ jobState'[j] \in {"Done", "Failed"} => FateOf(j)' = "Ran"
              /\ jobState'[j] \notin {"Fresh", "Done", "Failed"} => FateOf(j)' = "Dropped"
  BY DEF FateOf

\* A job whose place and State are what they were has the fate it had.
LEMMA FateKept ==
  ASSUME NEW j,
         ~(j \in ToSet(queue) /\ j \in Held),
         j \in ToSet(queue') <=> j \in ToSet(queue), j \in Held' <=> j \in Held,
         j \in ToSet(queue) \/ j \in Held \/ jobState'[j] = jobState[j]
  PROVE  FateOf(j)' = FateOf(j)
  BY FateNow, FateNext

\* What is in a thread's hands is one job at most, which is not in the queue.
LEMMA HeldSet ==
  ASSUME Typed, TokenInv, EntryInv
  PROVE  /\ \A d \in Drainers : held[d] \in Jobs => Held = {held[d]}
         /\ (\A d \in Drainers : held[d] \notin Jobs) => Held = {}
         /\ \A j \in ToSet(queue) : j \notin Held
         /\ Held \subseteq Jobs
<1>1. \A d, e \in Drainers : Busy(d) /\ Busy(e) => d = e
  BY OneDrainer DEF SerialExecution
<1>2. \A d \in Drainers : held[d] \in Jobs => Held = {held[d]}
  BY <1>1, EntryTypes DEF Held
<1>3. (\A d \in Drainers : held[d] \notin Jobs) => Held = {}
  BY EntryTypes DEF Held
<1>4. \A j \in ToSet(queue) : j \notin Held
  BY EntryTypes DEF Held, EntryInv
<1>5. Held \subseteq Jobs
  BY EntryTypes DEF Held
<1> QED
  BY <1>2, <1>3, <1>4, <1>5

\* The map from a state of the queue to one of the strand.
Fate == [j \in Jobs |-> FateOf(j)]

\* A step that moves no job and starts no acceptance is a Close or a stutter.
LEMMA StrandQuiet ==
  ASSUME Typed, TokenInv, EntryInv,
         state' = "Running" => state = "Running",
         queue' = queue, Held' = Held,
         \A j \in Jobs : j \in ToSet(queue) \/ j \in Held \/ jobState'[j] = jobState[j]
  PROVE  [Strand!Next]_Strand!vars
<1>1. \A j \in Jobs : FateOf(j)' = FateOf(j)
  BY HeldSet, FateKept
<1>2. Fate' = Fate
  BY <1>1 DEF Fate
<1> QED
  BY <1>2 DEF Strand!Next, Strand!Close, Strand!Shut, Strand!vars, Fate

\* A push is an Accept.
LEMMA StrandPush ==
  ASSUME Typed, TokenInv, EntryInv, Pushes
  PROVE  Strand!Next
<1>1. PICK j \in Jobs :
        /\ state = "Running" /\ state' = state
        /\ jobState[j] = "Fresh" /\ queue' = Append(queue, j) /\ held' = held
        /\ jobState' = [jobState EXCEPT ![j] = "Queued"]
  BY DEF Pushes
<1>2. /\ ToSet(queue') = ToSet(queue) \cup {j} /\ j \notin ToSet(queue)
  BY <1>1, EntryTypes, ElementsOfQueue DEF EntryInv
<1>3. Held' = Held /\ j \notin Held
  <2>1. Held' = Held
    BY <1>1 DEF Held, Busy
  <2>2. j \notin Held
    BY <1>1 DEF Held, EntryInv
  <2> QED
    BY <2>1, <2>2
<1>4. FateOf(j) = "Fresh" /\ FateOf(j)' = "Waiting"
  BY <1>1, <1>2, <1>3, FateNow, FateNext
<1>5. \A k \in Jobs : k # j => FateOf(k)' = FateOf(k)
  BY <1>1, <1>2, <1>3, HeldSet, EntryTypes, FateKept
<1>6. Fate' = [Fate EXCEPT ![j] = "Waiting"] /\ Fate[j] = "Fresh"
  BY <1>4, <1>5 DEF Fate
<1>7. Strand!Accept(j)
  BY <1>1, <1>3, <1>6 DEF Strand!Accept, Strand!Enter, Fate
<1> QED
  BY <1>7 DEF Strand!Next

\* A pop is a Take: nothing else is in anybody's hands.
LEMMA StrandPop ==
  ASSUME Typed, TokenInv, EntryInv, Typed', TokenInv', EntryInv', Pops
  PROVE  Strand!Next
<1>1. PICK d \in Drainers :
        /\ drainPc[d] = "loop" /\ queue # <<>> /\ queue' = Tail(queue)
        /\ held' = [held EXCEPT ![d] = Head(queue)]
        /\ jobState' = jobState /\ state' = state
  BY DEF Pops
<1>2. /\ ToSet(queue') = ToSet(queue) \ {Head(queue)}
      /\ Head(queue) \in ToSet(queue) /\ Head(queue) \in Jobs
  BY <1>1, EntryTypes, ElementsOfQueue, ElementsOfTail DEF EntryInv
<1>3. \A e \in Drainers : held[e] \notin Jobs
  <2>1. held[d] \notin Jobs
    BY <1>1 DEF Typed, HeldInv
  <2>2. \A e \in Drainers : Draining(e) => e = d
    BY <1>1, OneDrainer DEF Draining
  <2> QED
    BY <2>1, <2>2, OneDrainer, EntryTypes
<1>4. Held = {} /\ Held' = {Head(queue)}
  <2>1. Held = {}
    BY <1>3, HeldSet
  <2>2. \A e \in Drainers : Busy(e)' <=> e = d
    BY <1>1, <1>2, <1>3, EntryTypes, NoJobAssumption DEF Busy
  <2>3. held'[d] = Head(queue)
    BY <1>1, EntryTypes
  <2> QED
    BY <2>1, <2>2, <2>3 DEF Held
<1>5. PICK h \in Jobs : h = Head(queue)
  BY <1>2
<1>6. FateOf(h)' = "Active"
  BY <1>2, <1>4, <1>5, FateNext
<1>7. \A k \in Jobs : k # h => FateOf(k)' = FateOf(k)
  BY <1>1, <1>2, <1>4, <1>5, FateKept
<1>8. Fate' = [Fate EXCEPT ![h] = "Active"]
  BY <1>6, <1>7 DEF Fate
<1>9. Strand!Take
  BY <1>1, <1>4, <1>5, <1>8 DEF Strand!Take, Strand!Start, Fate
<1> QED
  BY <1>9 DEF Strand!Next

\* Letting go of a job that has run, or that is found canceled, is an End.
LEMMA StrandEnd ==
  ASSUME Typed, TokenInv, EntryInv, Ends
  PROVE  Strand!Next
<1>1. PICK d \in Drainers :
        /\ held[d] \in Jobs /\ held' = [held EXCEPT ![d] = NoJob]
        /\ jobState' \in {jobState, [jobState EXCEPT ![held[d]] = "Canceled"]}
        /\ queue' = queue /\ state' = state
  BY DEF Ends
<1>0. PICK h \in Jobs : h = held[d]
  BY <1>1
<1>2. h \notin ToSet(queue) /\ jobState[h] # "Fresh"
  BY <1>0, <1>1, EntryTypes DEF EntryInv
<1>3. Held = {h} /\ Held' = {}
  <2>1. Held = {h}
    BY <1>0, <1>1, HeldSet
  <2>2. \A e \in Drainers : Busy(e) => e = d
    BY <1>1, OneDrainer, EntryTypes DEF SerialExecution
  <2>3. \A e \in Drainers : ~Busy(e)'
    BY <1>1, <2>2, EntryTypes DEF Busy
  <2> QED
    BY <2>1, <2>3 DEF Held
<1>4. jobState'[h] # "Fresh" /\ \A k \in Jobs : k # h => jobState'[k] = jobState[k]
  BY <1>0, <1>1, <1>2, EntryTypes
<1>5. FateOf(h)' \in {"Ran", "Dropped"}
  BY <1>1, <1>2, <1>3, <1>4, FateNext
<1>6. \A k \in Jobs : k # h => FateOf(k)' = FateOf(k)
  BY <1>1, <1>3, <1>4, <1>2, FateKept
<1>7. Fate' = [Fate EXCEPT ![h] = FateOf(h)']
  BY <1>6 DEF Fate
<1>8. Strand!End(h)
  BY <1>1, <1>3, <1>5, <1>7 DEF Strand!End, Strand!Leave, Fate
<1> QED
  BY <1>8 DEF Strand!Next

\* A Stop that clears the queue is a GiveUp; one that marks it is a stutter.
LEMMA StrandGiveUp ==
  ASSUME Typed, TokenInv, EntryInv, GivesUp
  PROVE  [Strand!Next]_Strand!vars
<1>1. /\ state # "Running" /\ state' = state /\ held' = held
      /\ queue' \in {queue, <<>>}
      /\ jobState' \in {jobState, MarkQueued(jobState)}
  BY DEF GivesUp
<1>2. Held' = Held
  BY <1>1 DEF Held, Busy
<1>3. \A j \in Jobs : \/ jobState'[j] = jobState[j]
                      \/ j \in ToSet(queue) /\ jobState'[j] = "Canceled"
  BY <1>1 DEF MarkQueued
<1>4. CASE queue' = queue
  BY <1>1, <1>2, <1>3, <1>4, StrandQuiet
<1>5. CASE queue' = <<>>
  <2>1. ToSet(queue') = {}
    BY <1>5 DEF ToSet
  <2>2. \A j \in ToSet(queue) : FateOf(j)' = "Dropped"
    BY <1>2, <1>3, <2>1, HeldSet, EntryTypes, FateNext DEF EntryInv
  <2>3. \A j \in Jobs : j \notin ToSet(queue) => FateOf(j)' = FateOf(j)
    BY <1>2, <1>3, <2>1, FateKept
  <2>4. [j \in Jobs |-> FateOf(j)]'
          = [j \in Jobs |-> IF j \in ToSet(queue) THEN "Dropped"
                            ELSE [k \in Jobs |-> FateOf(k)][j]]
    BY <2>2, <2>3
  <2>5. /\ ~(state = "Running")
        /\ UNCHANGED <<state = "Running", Held>>
    BY <1>1, <1>2
  <2>6. Strand!GiveUp
    BY <1>5, <2>4, <2>5 DEF Strand!GiveUp, Strand!Abandon, Strand!ToSet, ToSet
  <2> QED
    BY <2>6 DEF Strand!Next
<1> QED
  BY <1>1, <1>4, <1>5

\* The queue is a strand: every step of it is a step of SerialQueue, or none,
\* with any stops, cancels and refusals, the test hooks and Stop(false) included.
THEOREM ImplementsStrand == Spec => IsStrand
<1> DEFINE Inv == Typed /\ TokenInv /\ StopInv /\ EntryInv
<1>1. Init => Inv
  <2> SUFFICES ASSUME Init PROVE StopInv /\ EntryInv
    BY TypedInit, TokenInit
  <2> QED
    BY DEF Init, StopInv, EntryInv, NoRepeats, ToSet, Busy
<1>2. Inv /\ [Next]_vars => Inv'
  BY TypedStep, TokenStep, StopStepInv, EntryStep
<1>3. Init => Strand!Init
  <2> SUFFICES ASSUME Init PROVE Strand!Init
    OBVIOUS
  <2>1. ToSet(queue) = {} /\ Held = {}
    BY DEF Init, ToSet, Held, Busy
  <2>2. \A j \in Jobs : FateOf(j) = "Fresh"
    BY <2>1, FateNow DEF Init
  <2> QED
    BY <2>1, <2>2 DEF Init, Strand!Init, Strand!StrandInit
<1>4. Inv /\ Inv' /\ [Next]_vars => [Strand!Next]_Strand!vars
  <2> SUFFICES ASSUME Inv, Inv', [Next]_vars PROVE [Strand!Next]_Strand!vars
    OBVIOUS
  <2>1. CASE Runs
    <3>1. PICK d \in Drainers, f \in {"Executing", "Done", "Failed"} :
            /\ held[d] \in Jobs /\ jobState' = [jobState EXCEPT ![held[d]] = f]
            /\ queue' = queue /\ held' = held /\ state' = state
      BY <2>1 DEF Runs
    <3>2. Held' = Held /\ held[d] \in Held
      BY <3>1, HeldSet DEF Held, Busy
    <3> QED
      BY <3>1, <3>2, EntryTypes, StrandQuiet
  <2>2. CASE Closes
    <3>1. Held' = Held
      BY <2>2 DEF Closes, Held, Busy
    <3> QED
      BY <2>2, <3>1, StrandQuiet DEF Closes
  <2> QED
    BY <2>1, <2>2, StepEffects, StrandPush, StrandPop, StrandEnd, StrandGiveUp
<1> QED
  BY <1>1, <1>2, <1>3, <1>4, PTL DEF Spec, IsStrand, Strand!Spec

-----------------------------------------------------------------------------
(* Cancel of a waiting job                                                   *)

\* A job that was flagged before ExecuteEntry read its flag: it has not been
\* started, and the thread that holds it, if any, is about to look.
Caught(j) ==
  /\ j \in flagged
  /\ jobState[j] \in {"Queued", "Canceled"}
  /\ \A d \in Drainers : held[d] = j => drainPc[d] = "check"

\* A job in the queue has not been popped, so a flag set now is seen.
LEMMA CaughtInQueue ==
  ASSUME Typed, EntryInv, NEW j \in Jobs, j \in flagged, j \in ToSet(queue)
  PROVE  Caught(j)
  BY EntryTypes DEF Caught, EntryInv

\* A caught job stays caught: the one step that would start it is not taken.
LEMMA CaughtStep ==
  ASSUME Typed, NEW j \in Jobs, Caught(j), [Next]_vars
  PROVE  Caught(j)'
<1> USE DEF queueVars, entryVars, drainVars
<1>0. drainPc \in [Drainers -> DrainPcs] /\ HeldInv
  BY DEF Typed, TypeOK
<1>1. ASSUME NEW c \in Clients, PostNext(c) PROVE Caught(j)'
  BY <1>1, EntryTypes DEF PostNext, PostRefused, PostAccepted, CanPost, PostSchedule,
     PostScheduleFailed, PostReturn, Caught
<1>2. ASSUME NEW d \in Drainers, PopEntry(d) PROVE Caught(j)'
  BY <1>0, <1>2, EntryTypes DEF PopEntry, Caught
<1>3. ASSUME NEW d \in Drainers, CheckCanceled(d) PROVE Caught(j)'
  <2>1. CASE held[d] = j
    BY <1>0, <1>3, <2>1, EntryTypes, NoJobAssumption DEF CheckCanceled, CancelObserved, Caught
  <2>2. CASE held[d] # j
    BY <1>0, <1>3, <2>2, EntryTypes, NoJobAssumption DEF CheckCanceled, HeldInv, Caught
  <2> QED
    BY <2>1, <2>2
<1>4. ASSUME NEW d \in Drainers, StartJob(d) \/ FinishJob(d) PROVE Caught(j)'
  <2>1. /\ drainPc[d] \in {"start", "run"} /\ UNCHANGED <<held, flagged>>
        /\ \E f : jobState' = [jobState EXCEPT ![held[d]] = f]
        /\ \E p : drainPc' = [drainPc EXCEPT ![d] = p]
    BY <1>4 DEF StartJob, FinishJob
  <2>2. held[d] # j
    BY <2>1 DEF Caught
  <2> QED
    BY <1>0, <2>1, <2>2, EntryTypes DEF Caught
<1>5. ASSUME NEW d \in Drainers, CountJob(d) PROVE Caught(j)'
  BY <1>0, <1>5, EntryTypes, NoJobAssumption DEF CountJob, Caught
<1>6. ASSUME NEW w \in Workers,
             StartDrain(w) \/ DrainEmpty(w) \/ BatchExhausted(w) \/ RequeueFailed(w)
      PROVE  Caught(j)'
  <2>1. /\ drainPc[w] # "check" /\ UNCHANGED <<held, flagged, jobState>>
        /\ \E p : drainPc' = [drainPc EXCEPT ![w] = p]
    BY <1>6 DEF StartDrain, DrainEmpty, BatchExhausted, RequeueFailed
  <2> QED
    BY <1>0, <2>1 DEF Caught
<1>7. ASSUME NEW p \in Pumpers, StartPump(p) \/ PumpEnd(p) PROVE Caught(j)'
  <2>1. /\ drainPc[p] # "check" /\ UNCHANGED <<held, flagged, jobState>>
        /\ \E q : drainPc' = [drainPc EXCEPT ![p] = q]
    BY <1>7 DEF StartPump, PumpEnd
  <2> QED
    BY <1>0, <2>1 DEF Caught
<1>8. ASSUME NEW s \in Stoppers, StopNext(s) PROVE Caught(j)'
  <2>1. /\ UNCHANGED <<held, drainPc, flagged>>
        /\ jobState' \in {jobState, MarkQueued(jobState)}
    BY <1>8 DEF StopNext, StopCall, StopStep, StopCheck, StopMark, StopTally, StopErase,
       StopClose, StopTimeout, DropQueued, SpuriousWakeup
  <2> QED
    BY <2>1 DEF MarkQueued, Caught
<1>9. ASSUME NEW x \in Cancelers, CancelNext(x) PROVE Caught(j)'
  BY <1>9 DEF CancelNext, CancelCall, CancelExchange, CancelLoad, Caught
<1>10. CASE ExecutorStep \/ UNCHANGED vars
  BY <1>10 DEF ExecutorStep, vars, Caught
<1> QED
  BY <1>1, <1>2, <1>3, <1>4, <1>5, <1>6, <1>7, <1>8, <1>9, <1>10
     DEF Next, WorkerNext, PumpNext, ExecuteEntry, Drainers

\* A job that was flagged while it waited in the queue never runs.
THEOREM CancelInQueueSafe == Spec => CancelInQueueSticks
<1> DEFINE Inv == Typed /\ TokenInv /\ StopInv /\ EntryInv
<1>1. Init => Inv
  <2> SUFFICES ASSUME Init PROVE StopInv /\ EntryInv
    BY TypedInit, TokenInit
  <2> QED
    BY DEF Init, StopInv, EntryInv, NoRepeats, ToSet, Busy
<1>2. Inv /\ [Next]_vars => Inv'
  BY TypedStep, TokenStep, StopStepInv, EntryStep
<1>3. ASSUME NEW j \in Jobs
      PROVE  Spec => [](j \in flagged /\ j \in ToSet(queue) =>
                          [](jobState[j] \notin {"Executing", "Done", "Failed"}))
  <2>1. Inv /\ j \in flagged /\ j \in ToSet(queue) => Caught(j)
    BY CaughtInQueue
  <2>2. Inv /\ Caught(j) /\ [Next]_vars => Caught(j)'
    BY CaughtStep
  <2>3. Caught(j) => jobState[j] \notin {"Executing", "Done", "Failed"}
    BY DEF Caught
  <2> QED
    BY <1>1, <1>2, <2>1, <2>2, <2>3, PTL DEF Spec
<1> QED
  BY <1>3 DEF CancelInQueueSticks
=============================================================================
