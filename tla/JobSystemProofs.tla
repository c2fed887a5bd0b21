--------------------------- MODULE JobSystemProofs ---------------------------
(***************************************************************************)
(* Theorems about the composed job system for every number of queues, jobs *)
(* and workers, whatever the jobs post and stop.                           *)
(***************************************************************************)
EXTENDS JobSystem, FiniteSetTheorems, TLAPS

-----------------------------------------------------------------------------
(* Types *)

\* A worker has a queue from the pop of its closure to the end of its drain, a
\* job while it runs one, and posts only from inside a job. What is in a queue
\* was posted to it.
WorkerInv ==
  \A w \in Workers :
    /\ at[w] \in {"loop", "run", "end"} <=> drains[w] \in Queues
    /\ at[w] \in {"run", "end"} <=> job[w] \in Jobs
    /\ job[w] \in Jobs => Home[job[w]] = drains[w]
    /\ posting[w] # NoQueue => at[w] = "end"

HomeInv == \A q \in Queues : \A i \in 1..Len(queue[q]) : Home[queue[q][i]] = q

SystemTyped == SystemTypeOK /\ WorkerInv /\ HomeInv

\* Nothing has been posted to the queues of a new system.
LEMMA SystemTypedInit == SystemInit => SystemTyped
<1> SUFFICES ASSUME SystemInit PROVE SystemTyped
  OBVIOUS
<1>1. /\ ready \in Seq(Queues) /\ Len(ready) = 0
      /\ queue \in [Queues -> Seq(Jobs)] /\ \A q \in Queues : Len(queue[q]) = 0
  BY DEF SystemInit
<1> QED
  BY <1>1, SystemAssumption DEF SystemInit, SystemTyped, SystemTypeOK, WorkerInv, HomeInv,
     Threads

\* What Push does, when it is called by a thread that has no drain to schedule.
LEMMA PushEffect ==
  ASSUME SystemTyped, NEW t \in Threads, NEW j \in Jobs, posting[t] = NoQueue, Push(t, j)
  PROVE  /\ Home[j] \in Queues
         /\ \/ UNCHANGED <<queue, running, posting>>
            \/ /\ AliveQueue(Home[j]) /\ queueState[Home[j]] = "Running"
               /\ queue' = [queue EXCEPT ![Home[j]] = Append(@, j)]
               /\ running' = [running EXCEPT ![Home[j]] = TRUE]
               /\ \/ running[Home[j]] /\ posting' = posting
                  \/ ~running[Home[j]] /\ posting' = [posting EXCEPT ![t] = Home[j]]
<1>1. Home[j] \in Queues /\ posting \in [Threads -> Queues \cup {NoQueue}]
  BY SystemAssumption DEF SystemTyped, SystemTypeOK
<1>2. [posting EXCEPT ![t] = NoQueue] = posting
  BY <1>1
<1> QED
  BY <1>1, <1>2 DEF Push, Schedules

\* Push keeps the types of the queues, and every job in the queue of its home.
LEMMA PushTyped ==
  ASSUME SystemTyped, NEW t \in Threads, NEW j \in Jobs, posting[t] = NoQueue, Push(t, j)
  PROVE  /\ queue' \in [Queues -> Seq(Jobs)]
         /\ running' \in [Queues -> BOOLEAN]
         /\ posting' \in [Threads -> Queues \cup {NoQueue}]
         /\ posted' \subseteq Jobs
         /\ HomeInv'
         /\ \A u \in Threads : u # t => posting'[u] = posting[u]
<1>0. /\ queue \in [Queues -> Seq(Jobs)] /\ running \in [Queues -> BOOLEAN]
      /\ posting \in [Threads -> Queues \cup {NoQueue}] /\ posted \subseteq Jobs
      /\ HomeInv
  BY DEF SystemTyped, SystemTypeOK
<1>1. posted' \subseteq Jobs
  BY <1>0 DEF Push
<1>2. CASE UNCHANGED <<queue, running, posting>>
  BY <1>0, <1>1, <1>2 DEF HomeInv
<1>3. CASE queue' = [queue EXCEPT ![Home[j]] = Append(@, j)]
  <2>1. HomeInv'
    BY <1>0, <1>3, PushEffect DEF HomeInv
  <2>2. queue' \in [Queues -> Seq(Jobs)]
    <3>1. Home[j] \in Queues /\ Append(queue[Home[j]], j) \in Seq(Jobs)
      BY <1>0, PushEffect
    <3> QED
      BY <1>0, <1>3, <3>1
  <2>3. running' \in [Queues -> BOOLEAN]
    BY <1>0, PushEffect
  <2>4. /\ posting' \in [Threads -> Queues \cup {NoQueue}]
        /\ \A u \in Threads : u # t => posting'[u] = posting[u]
    <3>1. Home[j] \in Queues
      BY PushEffect
    <3>2. CASE posting' = posting
      BY <1>0, <3>2
    <3>3. CASE posting' = [posting EXCEPT ![t] = Home[j]]
      BY <1>0, <3>1, <3>3
    <3> QED
      BY <3>2, <3>3, PushEffect
  <2> QED
    BY <1>1, <2>1, <2>2, <2>3, <2>4
<1> QED
  BY <1>2, <1>3, PushEffect

\* Schedule appends within the capacity, or stops the queue.
LEMMA ScheduleTyped ==
  ASSUME SystemTyped, NEW q \in Queues, Schedule(q)
  PROVE  /\ ready' \in Seq(Queues) /\ Len(ready') <= PoolCapacity
         /\ running' \in [Queues -> BOOLEAN]
         /\ queueState' \in [Queues -> {"Running", "Draining", "Stopped"}]
<1>0. /\ ready \in Seq(Queues) /\ Len(ready) <= PoolCapacity /\ Len(ready) \in Nat
      /\ running \in [Queues -> BOOLEAN]
      /\ queueState \in [Queues -> {"Running", "Draining", "Stopped"}]
      /\ PoolCapacity \in Nat
  BY SystemAssumption DEF SystemTyped, SystemTypeOK
<1>1. CASE PoolAccepts /\ ReadyLast(q) /\ UNCHANGED <<running, queueState>>
  BY <1>0, <1>1 DEF PoolAccepts, ReadyLast
<1>2. CASE FailSchedule(q) /\ UNCHANGED ready
  BY <1>0, <1>2 DEF FailSchedule
<1> QED
  BY <1>1, <1>2 DEF Schedule

\* Every step keeps the types.
LEMMA SystemTypedStep == SystemTyped /\ [SystemNext]_systemVars => SystemTyped'
<1> SUFFICES ASSUME SystemTyped, [SystemNext]_systemVars PROVE SystemTyped'
  OBVIOUS
<1> USE SystemAssumption
<1> USE DEF queueVars, poolVars, workerVars, jobVars
<1>0. /\ SystemTypeOK /\ WorkerInv /\ HomeInv
      /\ Workers \subseteq Threads /\ "main" \in Threads /\ "timer" \in Threads
      /\ "main" \notin Workers /\ "timer" \notin Workers
  BY DEF SystemTyped, Threads, Callers
<1>1. ASSUME NEW j \in Jobs, NEW t \in Callers, Free(t), Push(t, j),
             UNCHANGED <<queueState, owned, poolVars, workerVars, stopping, phase, ran>>
      PROVE  SystemTyped'
  <2>1. t \in Threads /\ t \notin Workers /\ posting[t] = NoQueue
    BY <1>0, <1>1 DEF Threads, Free
  <2>2. WorkerInv'
    BY <1>0, <1>1, <2>1, PushTyped DEF WorkerInv
  <2> QED
    BY <1>0, <1>1, <2>1, <2>2, PushTyped DEF SystemTyped, SystemTypeOK
<1>2. ASSUME NEW j \in Jobs, MainPosts(j) \/ TimerPosts(j) PROVE SystemTyped'
  BY <1>1, <1>2 DEF MainPosts, TimerPosts, Callers
<1>3. ASSUME NEW t \in Threads, PostSchedules(t) PROVE SystemTyped'
  <2>1. /\ posting[t] \in Queues /\ Schedule(posting[t])
        /\ posting' = [posting EXCEPT ![t] = NoQueue]
    BY <1>0, <1>3 DEF PostSchedules, SystemTypeOK
  <2>2. WorkerInv' /\ HomeInv'
    BY <1>0, <1>3, <2>1 DEF PostSchedules, SystemTypeOK, WorkerInv, HomeInv
  <2> QED
    BY <1>0, <1>3, <2>1, <2>2, ScheduleTyped DEF PostSchedules, SystemTyped, SystemTypeOK
<1>4. ASSUME NEW w \in Workers, TakeClosure(w) PROVE SystemTyped'
  <2>1. /\ Head(ready) \in Queues /\ Tail(ready) \in Seq(Queues)
        /\ Len(Tail(ready)) = Len(ready) - 1 /\ Len(ready) \in Nat
    BY <1>0, <1>4 DEF TakeClosure, SystemTypeOK
  <2>2. SystemTypeOK'
    BY <1>0, <1>4, <2>1 DEF TakeClosure, SystemTypeOK
  <2>3. WorkerInv' /\ HomeInv'
    BY <1>0, <1>4, <2>1 DEF TakeClosure, SystemTypeOK, WorkerInv, HomeInv
  <2> QED
    BY <2>2, <2>3 DEF SystemTyped
<1>5. ASSUME NEW w \in Workers, PopJob(w) PROVE SystemTyped'
  <2> DEFINE q == drains[w]
  <2>1. /\ q \in Queues /\ queue[q] \in Seq(Jobs) /\ queue[q] # <<>>
        /\ queue' = [queue EXCEPT ![q] = Tail(@)]
        /\ job' = [job EXCEPT ![w] = Head(queue[q])]
        /\ left' = [left EXCEPT ![w] = @ - 1] /\ left[w] > 0
        /\ at' = [at EXCEPT ![w] = "run"]
    BY <1>0, <1>5 DEF PopJob, SystemTypeOK, WorkerInv
  <2>2. /\ Head(queue[q]) \in Jobs /\ Home[Head(queue[q])] = q
        /\ Tail(queue[q]) \in Seq(Jobs)
        /\ \A i \in 1..Len(Tail(queue[q])) : Home[Tail(queue[q])[i]] = q
    BY <1>0, <2>1 DEF HomeInv
  <2>3. SystemTypeOK'
    BY <1>0, <1>5, <2>1, <2>2 DEF PopJob, SystemTypeOK
  <2>4. HomeInv'
    BY <1>0, <2>1, <2>2 DEF SystemTypeOK, HomeInv
  <2>5. WorkerInv'
    BY <1>0, <1>5, <2>1, <2>2 DEF PopJob, SystemTypeOK, WorkerInv
  <2> QED
    BY <2>3, <2>4, <2>5 DEF SystemTyped
<1>6. ASSUME NEW w \in Workers, RunJob(w) PROVE SystemTyped'
  <2> DEFINE j == job[w]
             k == Follows[j]
  <2>1. /\ at[w] = "run" /\ j \in Jobs /\ posting[w] = NoQueue
        /\ at' = [at EXCEPT ![w] = "end"]
        /\ UNCHANGED <<owned, poolVars, drains, left, job, phase, ran>>
    BY <1>0, <1>6 DEF RunJob, WorkerInv, SystemTypeOK
  <2>2. CASE k # NoJob /\ Push(w, k) /\ UNCHANGED <<queueState, stopping>>
    <3>1. k \in Jobs
      BY <2>1, <2>2
    <3>2. WorkerInv'
      BY <1>0, <2>1, <2>2, <3>1, PushTyped DEF WorkerInv, SystemTypeOK
    <3> QED
      BY <1>0, <2>1, <2>2, <3>1, <3>2, PushTyped DEF SystemTyped, SystemTypeOK
  <2>3. CASE UNCHANGED <<running, queue, posting, posted>>
    <3>1. WorkerInv' /\ HomeInv'
      BY <1>0, <2>1, <2>3 DEF WorkerInv, HomeInv, SystemTypeOK
    <3>2. /\ queueState' \in [Queues -> {"Running", "Draining", "Stopped"}]
          /\ stopping' \in [Threads -> Queues \cup {NoQueue}]
      <4>1. CASE UNCHANGED <<queueState, stopping>>
        BY <1>0, <4>1 DEF SystemTypeOK
      <4>2. CASE Stops[j] # NoQueue /\ StopQueue(w, Stops[j])
        <5>1. Stops[j] \in Queues
          BY <2>1, <4>2
        <5> QED
          BY <1>0, <4>2, <5>1 DEF StopQueue, ClosesToPosts, SystemTypeOK
      <4>3. CASE Push(w, k) /\ UNCHANGED <<queueState, stopping>>
        BY <4>1, <4>3
      <4> QED
        BY <1>6, <4>1, <4>2, <4>3 DEF RunJob
    <3> QED
      BY <1>0, <2>1, <2>3, <3>1, <3>2 DEF SystemTyped, SystemTypeOK
  <2> QED
    BY <1>6, <2>2, <2>3 DEF RunJob
<1>7. ASSUME NEW w \in Workers, FinishJob(w) PROVE SystemTyped'
  <2>1. SystemTypeOK'
    BY <1>0, <1>7 DEF FinishJob, SystemTypeOK, WorkerInv
  <2>2. WorkerInv' /\ HomeInv'
    BY <1>0, <1>7 DEF FinishJob, Free, SystemTypeOK, WorkerInv, HomeInv
  <2> QED
    BY <2>1, <2>2 DEF SystemTyped
<1>8. ASSUME NEW w \in Workers, FoundEmpty(w) PROVE SystemTyped'
  <2>1. SystemTypeOK'
    BY <1>0, <1>8 DEF FoundEmpty, DrainEnds, SystemTypeOK, WorkerInv
  <2>2. WorkerInv' /\ HomeInv'
    BY <1>0, <1>8 DEF FoundEmpty, DrainEnds, SystemTypeOK, WorkerInv, HomeInv
  <2> QED
    BY <2>1, <2>2 DEF SystemTyped
<1>9. ASSUME NEW w \in Workers, Requeue(w) PROVE SystemTyped'
  <2>1. drains[w] \in Queues /\ Schedule(drains[w])
    BY <1>0, <1>9 DEF Requeue, WorkerInv
  <2>2. SystemTypeOK'
    BY <1>0, <1>9, <2>1, ScheduleTyped DEF Requeue, DrainEnds, SystemTypeOK
  <2>3. WorkerInv' /\ HomeInv'
    BY <1>0, <1>9 DEF Requeue, DrainEnds, SystemTypeOK, WorkerInv, HomeInv
  <2> QED
    BY <2>2, <2>3 DEF SystemTyped
<1>10. ASSUME NEW w \in Workers, WorkerExits(w) PROVE SystemTyped'
  BY <1>0, <1>10 DEF WorkerExits, SystemTyped, SystemTypeOK, WorkerInv, HomeInv
<1>11. ASSUME NEW t \in Threads, StopQueueReturns(t) PROVE SystemTyped'
  <2>1. stopping[t] \in Queues
    BY <1>0, <1>11 DEF StopQueueReturns, Waits, SystemTypeOK
  <2> QED
    BY <1>0, <1>11, <2>1 DEF StopQueueReturns, SystemTyped, SystemTypeOK, WorkerInv, HomeInv
<1>12. ASSUME NEW q \in Queues, MainStops(q) PROVE SystemTyped'
  <2>1. /\ queueState' \in [Queues -> {"Running", "Draining", "Stopped"}]
        /\ stopping' \in [Threads -> Queues \cup {NoQueue}]
    <3>1. /\ queueState' = [queueState EXCEPT ![q] = "Draining"]
          /\ stopping' = [stopping EXCEPT !["main"] = q]
      BY <1>12 DEF MainStops, StopQueue, ClosesToPosts
    <3> QED
      BY <1>0, <3>1 DEF SystemTypeOK
  <2> QED
    BY <1>0, <1>12, <2>1 DEF MainStops, SystemTyped, SystemTypeOK, WorkerInv, HomeInv
<1>13. ASSUME NEW q \in Queues, LetGo(q) PROVE SystemTyped'
  BY <1>0, <1>13 DEF LetGo, SystemTyped, SystemTypeOK, WorkerInv, HomeInv
<1>14. CASE EndService \/ TimerStopped \/ PoolStopCalled \/ PoolJoined
  BY <1>0, <1>14 DEF EndService, TimerStopped, PoolStopCalled, PoolJoined, SystemTyped,
     SystemTypeOK, WorkerInv, HomeInv
<1>15. CASE PoolDrained
  BY <1>0, <1>15 DEF PoolDrained, SystemTyped, SystemTypeOK, WorkerInv, HomeInv
<1>16. CASE UNCHANGED systemVars
  BY <1>0, <1>16 DEF systemVars, SystemTyped, SystemTypeOK, WorkerInv, HomeInv
<1> QED
  BY <1>2, <1>3, <1>4, <1>5, <1>6, <1>7, <1>8, <1>9, <1>10, <1>11, <1>12, <1>13, <1>14,
     <1>15, <1>16
     DEF SystemNext, WorkerNext, ShutdownNext, Threads, Callers

\* Every reachable state of the system has the types of SystemTypeOK.
THEOREM SystemTypeCorrect == SystemSpec => []SystemTypeOK
<1>1. SystemTyped => SystemTypeOK
  BY DEF SystemTyped
<1> QED
  BY <1>1, SystemTypedInit, SystemTypedStep, PTL DEF SystemSpec

-----------------------------------------------------------------------------
(* Drains *)

\* The drain of q waits in the pool, a worker is in it, or a thread that has
\* pushed is about to post it.
HasDrain(q) ==
  \/ \E i \in 1..Len(ready) : ready[i] = q
  \/ \E w \in Workers : drains[w] = q
  \/ \E t \in Threads : posting[t] = q

\* A queue has at most one drain, and running_ while it has one.
OneDrain ==
  /\ \A i, k \in 1..Len(ready) : ready[i] = ready[k] => i = k
  /\ \A v, w \in Workers : drains[v] = drains[w] /\ drains[v] # NoQueue => v = w
  /\ \A t, u \in Threads : posting[t] = posting[u] /\ posting[t] # NoQueue => t = u
  /\ \A i \in 1..Len(ready) :
       /\ \A w \in Workers : drains[w] # ready[i]
       /\ \A t \in Threads : posting[t] # ready[i]
  /\ \A w \in Workers, t \in Threads : drains[w] = posting[t] => drains[w] = NoQueue
  /\ \A q \in Queues : HasDrain(q) => running[q]

\* What a queue accepted finds a drain: there is one for whatever running_ says,
\* until the pool stops and discards it, and running_ is up over an open queue
\* with jobs in it.
WorkInv ==
  \A q \in Queues :
    /\ running[q] /\ poolState = "Running" => HasDrain(q)
    /\ queue[q] # <<>> /\ queueState[q] # "Stopped" => running[q]

\* Main stops the pool when it has stopped every queue that it has.
PhaseInv ==
  /\ poolState = "Running" <=> phase \in {"serving", "timer", "queues"}
  /\ poolState # "Running" => \A q \in owned : queueState[q] = "Stopped"

DrainInv == SystemTyped /\ PhaseInv /\ OneDrain /\ WorkInv

\* A new system has no drain and no work.
LEMMA DrainInvInit == SystemInit => DrainInv
<1> SUFFICES ASSUME SystemInit PROVE DrainInv
  OBVIOUS
<1>1. /\ ready = <<>> /\ \A w \in Workers : drains[w] = NoQueue
      /\ \A t \in Threads : posting[t] = NoQueue
      /\ \A q \in Queues : ~running[q] /\ queue[q] = <<>>
  BY DEF SystemInit
<1> QED
  BY <1>1, SystemTypedInit, SystemAssumption
     DEF SystemInit, DrainInv, PhaseInv, OneDrain, WorkInv, HasDrain

\* Push makes the drain that it is to schedule, if there is none.
LEMMA PushDrain ==
  ASSUME DrainInv, NEW t \in Threads, NEW j \in Jobs, posting[t] = NoQueue, Push(t, j),
         UNCHANGED <<ready, drains, queueState, poolState>>
  PROVE  OneDrain' /\ WorkInv'
<1>0. /\ queue \in [Queues -> Seq(Jobs)] /\ running \in [Queues -> BOOLEAN]
      /\ posting \in [Threads -> Queues \cup {NoQueue}]
      /\ ready \in Seq(Queues) /\ drains \in [Workers -> Queues \cup {NoQueue}]
      /\ OneDrain /\ WorkInv /\ SystemTyped /\ NoQueue \notin Queues
  BY SystemAssumption DEF DrainInv, SystemTyped, SystemTypeOK
<1>1. CASE UNCHANGED <<queue, running, posting>>
  BY <1>0, <1>1 DEF OneDrain, WorkInv, HasDrain
<1>2. CASE /\ queueState[Home[j]] = "Running"
           /\ queue' = [queue EXCEPT ![Home[j]] = Append(@, j)]
           /\ running' = [running EXCEPT ![Home[j]] = TRUE]
           /\ running[Home[j]] /\ posting' = posting
  <2>0. Home[j] \in Queues
    BY <1>0, PushEffect
  <2>1. running' = running /\ Home[j] \in Queues
    BY <1>0, <1>2, <2>0
  <2>2. \A q \in Queues : HasDrain(q)' <=> HasDrain(q)
    BY <1>2 DEF HasDrain
  <2>3. OneDrain'
    BY <1>0, <1>2, <2>1, <2>2 DEF OneDrain
  <2>4. WorkInv'
    BY <1>0, <1>2, <2>1, <2>2 DEF WorkInv
  <2> QED
    BY <2>3, <2>4
<1>3. CASE /\ queueState[Home[j]] = "Running"
           /\ queue' = [queue EXCEPT ![Home[j]] = Append(@, j)]
           /\ running' = [running EXCEPT ![Home[j]] = TRUE]
           /\ ~running[Home[j]] /\ posting' = [posting EXCEPT ![t] = Home[j]]
  <2>1. Home[j] \in Queues /\ ~HasDrain(Home[j])
    BY <1>0, <1>3, PushEffect DEF OneDrain
  <2>2. OneDrain'
    BY <1>0, <1>3, <2>1 DEF OneDrain, HasDrain
  <2>3. \A q \in Queues : HasDrain(q)' <=> HasDrain(q) \/ q = Home[j]
    BY <1>0, <1>3, <2>1 DEF HasDrain
  <2>4. WorkInv'
    BY <1>0, <1>3, <2>1, <2>3 DEF WorkInv
  <2> QED
    BY <2>2, <2>4
<1> QED
  BY <1>0, <1>1, <1>2, <1>3, PushEffect

\* Schedule hands the drain of q over to the pool, or the queue loses it and is
\* stopped.
LEMMA ScheduleDrain ==
  ASSUME DrainInv, NEW q \in Queues, Schedule(q), UNCHANGED <<queue, poolState>>,
         \A i \in 1..Len(ready) : ready[i] # q,
         running[q],
         drains' \in [Workers -> Queues \cup {NoQueue}],
         posting' \in [Threads -> Queues \cup {NoQueue}],
         \A w \in Workers : drains'[w] = IF drains[w] = q THEN NoQueue ELSE drains[w],
         \A t \in Threads : posting'[t] = IF posting[t] = q THEN NoQueue ELSE posting[t]
  PROVE  OneDrain' /\ WorkInv'
<1>0. /\ queue \in [Queues -> Seq(Jobs)] /\ running \in [Queues -> BOOLEAN]
      /\ queueState \in [Queues -> {"Running", "Draining", "Stopped"}]
      /\ posting \in [Threads -> Queues \cup {NoQueue}]
      /\ ready \in Seq(Queues) /\ drains \in [Workers -> Queues \cup {NoQueue}]
      /\ OneDrain /\ WorkInv /\ NoQueue \notin Queues /\ Len(ready) \in Nat
  BY SystemAssumption DEF DrainInv, SystemTyped, SystemTypeOK
<1>1. CASE PoolAccepts /\ ReadyLast(q) /\ UNCHANGED <<running, queueState>>
  <2>1. /\ Len(ready') = Len(ready) + 1 /\ ready'[Len(ready) + 1] = q
        /\ \A i \in 1..Len(ready) : ready'[i] = ready[i]
    BY <1>0, <1>1 DEF ReadyLast
  <2>2. \A p \in Queues : HasDrain(p)' <=> HasDrain(p) \/ p = q
    <3>1. \A p \in Queues :
            (\E i \in 1..Len(ready') : ready'[i] = p)
               <=> (\E i \in 1..Len(ready) : ready[i] = p) \/ p = q
      <4> TAKE p \in Queues
      <4>1. ASSUME NEW i \in 1..Len(ready'), ready'[i] = p
            PROVE  (\E k \in 1..Len(ready) : ready[k] = p) \/ p = q
        <5>1. i \in 1..Len(ready) \/ i = Len(ready) + 1
          BY <1>0, <2>1
        <5> QED
          BY <2>1, <4>1, <5>1
      <4>2. ASSUME NEW i \in 1..Len(ready), ready[i] = p
            PROVE  \E k \in 1..Len(ready') : ready'[k] = p
        <5>1. i \in 1..Len(ready') /\ ready'[i] = p
          BY <1>0, <2>1, <4>2
        <5> QED
          BY <5>1
      <4>3. ASSUME p = q PROVE \E k \in 1..Len(ready') : ready'[k] = p
        <5>1. Len(ready) + 1 \in 1..Len(ready')
          BY <1>0, <2>1
        <5> QED
          BY <2>1, <4>3, <5>1
      <4> QED
        BY <4>1, <4>2, <4>3
    <3>2. \A p \in Queues : p # q =>
            /\ \A w \in Workers : drains'[w] = p <=> drains[w] = p
            /\ \A t \in Threads : posting'[t] = p <=> posting[t] = p
      BY <1>0
    <3>3. \A w \in Workers : drains'[w] # q
      BY <1>0
    <3>4. \A t \in Threads : posting'[t] # q
      BY <1>0
    <3> QED
      BY <3>1, <3>2, <3>3, <3>4 DEF HasDrain
  <2>3. OneDrain'
    <3>1. \A i, k \in 1..Len(ready') : ready'[i] = ready'[k] => i = k
      <4>1. \A i, k \in 1..Len(ready) : ready[i] = ready[k] => i = k
        BY <1>0 DEF OneDrain
      <4>2. \A i \in 1..Len(ready') : i \in 1..Len(ready) \/ i = Len(ready) + 1
        <5>1. \A n \in Nat : \A i \in 1..n + 1 : i \in 1..n \/ i = n + 1
          OBVIOUS
        <5>2. Len(ready) \in Nat /\ Len(ready') = Len(ready) + 1
          BY <1>0, <2>1
        <5> QED
          BY ONLY <5>1, <5>2
      <4>3. \A i \in 1..Len(ready) : ready'[i] # ready'[Len(ready) + 1]
        BY <2>1
      <4> QED
        <5> TAKE i, k \in 1..Len(ready')
        <5> HAVE ready'[i] = ready'[k]
        <5>1. CASE i \in 1..Len(ready) /\ k \in 1..Len(ready)
          <6>1. ready'[i] = ready[i] /\ ready'[k] = ready[k]
            BY <2>1, <5>1
          <6> QED
            BY <4>1, <5>1, <6>1
        <5>2. CASE i = Len(ready) + 1 \/ k = Len(ready) + 1
          BY <4>2, <4>3, <5>2
        <5> QED
          BY <4>2, <5>1, <5>2
    <3>2. /\ \A v, w \in Workers : drains'[v] = drains'[w] /\ drains'[v] # NoQueue => v = w
          /\ \A t, u \in Threads : posting'[t] = posting'[u] /\ posting'[t] # NoQueue => t = u
          /\ \A w \in Workers, t \in Threads : drains'[w] = posting'[t] => drains'[w] = NoQueue
      BY <1>0 DEF OneDrain
    <3>3. \A i \in 1..Len(ready') :
            /\ \A w \in Workers : drains'[w] # ready'[i]
            /\ \A t \in Threads : posting'[t] # ready'[i]
      <4> SUFFICES ASSUME NEW i \in 1..Len(ready')
                   PROVE  /\ \A w \in Workers : drains'[w] # ready'[i]
                          /\ \A t \in Threads : posting'[t] # ready'[i]
        OBVIOUS
      <4>1. CASE i \in 1..Len(ready)
        <5>1. ready'[i] = ready[i] /\ ready[i] \in Queues
          BY <1>0, <2>1, <4>1
        <5> QED
          BY <1>0, <4>1, <5>1 DEF OneDrain
      <4>2. CASE i = Len(ready) + 1
        BY <1>0, <2>1, <4>2
      <4> QED
        BY <1>0, <2>1, <4>1, <4>2
    <3>4. \A p \in Queues : HasDrain(p)' => running'[p]
      BY <1>0, <1>1, <2>2 DEF OneDrain
    <3> QED
      BY <3>1, <3>2, <3>3, <3>4 DEF OneDrain
  <2>4. WorkInv'
    BY <1>0, <1>1, <2>2 DEF WorkInv
  <2> QED
    BY <2>3, <2>4
<1>2. CASE FailSchedule(q) /\ UNCHANGED ready
  <2>1. \A p \in Queues : HasDrain(p)' <=> HasDrain(p) /\ p # q
    BY <1>0, <1>2 DEF HasDrain
  <2>2. /\ running' = [running EXCEPT ![q] = FALSE]
        /\ queueState' = [queueState EXCEPT ![q] = "Stopped"]
    BY <1>2 DEF FailSchedule
  <2>3. \A p \in Queues : HasDrain(p)' => running'[p]
    BY <1>0, <2>1, <2>2 DEF OneDrain
  <2>4. OneDrain'
    BY <1>0, <1>2, <2>3 DEF OneDrain
  <2>5. WorkInv'
    BY <1>0, <2>1, <2>2 DEF WorkInv
  <2> QED
    BY <2>4, <2>5
<1> QED
  BY <1>1, <1>2 DEF Schedule

\* A queue that is stopped stays so.
LEMMA StoppedIsFinal ==
  SystemTyped /\ [SystemNext]_systemVars =>
    \A q \in Queues : queueState[q] = "Stopped" => queueState'[q] = "Stopped"
<1> SUFFICES ASSUME SystemTyped, [SystemNext]_systemVars,
                    NEW q \in Queues, queueState[q] = "Stopped"
             PROVE  queueState'[q] = "Stopped"
  OBVIOUS
<1> USE DEF queueVars
<1>0. /\ queueState \in [Queues -> {"Running", "Draining", "Stopped"}]
      /\ posting \in [Threads -> Queues \cup {NoQueue}]
      /\ stopping \in [Threads -> Queues \cup {NoQueue}]
      /\ Workers \subseteq Threads /\ "main" \in Threads /\ "timer" \in Threads
  BY DEF SystemTyped, SystemTypeOK, Threads, Callers
<1>1. ASSUME NEW p \in Queues, Schedule(p) PROVE queueState'[q] = "Stopped"
  BY <1>0, <1>1 DEF Schedule, FailSchedule
<1>2. ASSUME NEW t \in Threads, NEW p \in Queues, StopQueue(t, p)
      PROVE  queueState'[q] = "Stopped"
  BY <1>0, <1>2 DEF StopQueue, ClosesToPosts
<1>3. ASSUME NEW t \in Threads, PostSchedules(t) \/ StopQueueReturns(t)
      PROVE  queueState'[q] = "Stopped"
  BY <1>0, <1>1, <1>3 DEF PostSchedules, StopQueueReturns, Waits
<1>4. ASSUME NEW w \in Workers, Requeue(w) PROVE queueState'[q] = "Stopped"
  BY <1>1, <1>4 DEF Requeue, SystemTyped, WorkerInv
<1>5. ASSUME NEW w \in Workers, RunJob(w) PROVE queueState'[q] = "Stopped"
  <2>1. job[w] \in Jobs
    BY <1>5 DEF RunJob, SystemTyped, WorkerInv
  <2>2. CASE UNCHANGED queueState
    BY <2>2
  <2>3. CASE Stops[job[w]] # NoQueue /\ StopQueue(w, Stops[job[w]])
    <3>1. Stops[job[w]] \in Queues
      BY <2>1, <2>3, SystemAssumption
    <3> QED
      BY <1>0, <1>2, <2>3, <3>1
  <2> QED
    BY <1>5, <2>2, <2>3 DEF RunJob
<1>6. ASSUME NEW p \in Queues, MainStops(p) PROVE queueState'[q] = "Stopped"
  BY <1>0, <1>2, <1>6 DEF MainStops
<1>7. CASE UNCHANGED queueState
  BY <1>7
<1> QED
  BY <1>0, <1>3, <1>4, <1>5, <1>6, <1>7
     DEF SystemNext, WorkerNext, ShutdownNext, MainPosts, TimerPosts, TakeClosure, PopJob,
         FinishJob, FoundEmpty, WorkerExits, LetGo, EndService, TimerStopped,
         PoolStopCalled, PoolDrained, PoolJoined, systemVars, Callers

\* Every step keeps the order of the shutdown.
LEMMA PhaseInvStep == SystemTyped /\ PhaseInv /\ [SystemNext]_systemVars => PhaseInv'
<1> SUFFICES ASSUME SystemTyped, PhaseInv, [SystemNext]_systemVars PROVE PhaseInv'
  OBVIOUS
<1> USE DEF queueVars, poolVars
<1>0. owned \subseteq Queues /\ owned' \subseteq owned
  BY DEF SystemTyped, SystemTypeOK, SystemNext, WorkerNext, ShutdownNext, MainPosts,
         TimerPosts, PostSchedules, TakeClosure, PopJob, RunJob, FinishJob, FoundEmpty,
         Requeue, WorkerExits, StopQueueReturns, LetGo, EndService, TimerStopped,
         MainStops, PoolStopCalled, PoolDrained, PoolJoined, systemVars
<1>1. \A q \in owned' : queueState[q] = "Stopped" => queueState'[q] = "Stopped"
  BY <1>0, StoppedIsFinal
<1>2. CASE UNCHANGED <<poolState, phase>>
  BY <1>0, <1>1, <1>2 DEF PhaseInv
<1>3. CASE EndService \/ TimerStopped \/ PoolStopCalled \/ PoolDrained \/ PoolJoined
  BY <1>0, <1>3 DEF PhaseInv, EndService, TimerStopped, PoolStopCalled, PoolDrained,
                    PoolJoined
<1> QED
  BY <1>2, <1>3
     DEF SystemNext, WorkerNext, ShutdownNext, MainPosts, TimerPosts, PostSchedules,
         TakeClosure, PopJob, RunJob, FinishJob, FoundEmpty, Requeue, WorkerExits,
         StopQueueReturns, LetGo, MainStops, systemVars

\* Every step keeps one drain for the work of each queue.
LEMMA DrainInvStep == DrainInv /\ [SystemNext]_systemVars => DrainInv'
<1> SUFFICES ASSUME DrainInv, [SystemNext]_systemVars PROVE OneDrain' /\ WorkInv'
  BY SystemTypedStep, PhaseInvStep DEF DrainInv
<1> USE DEF queueVars, poolVars, workerVars, jobVars
<1>0. /\ queue \in [Queues -> Seq(Jobs)] /\ running \in [Queues -> BOOLEAN]
      /\ posting \in [Threads -> Queues \cup {NoQueue}]
      /\ ready \in Seq(Queues) /\ drains \in [Workers -> Queues \cup {NoQueue}]
      /\ WorkerInv /\ OneDrain /\ WorkInv /\ NoQueue \notin Queues /\ Len(ready) \in Nat
      /\ Workers \subseteq Threads /\ "main" \in Threads /\ "timer" \in Threads
  BY SystemAssumption DEF DrainInv, SystemTyped, SystemTypeOK, Threads, Callers
<1>1. \A q \in Queues : queueState'[q] # "Stopped" => queueState[q] # "Stopped"
  BY StoppedIsFinal DEF DrainInv
<1>2. CASE UNCHANGED <<running, queue, poolState, ready, drains, posting>>
  BY <1>0, <1>1, <1>2 DEF OneDrain, WorkInv, HasDrain
<1>3. ASSUME NEW j \in Jobs, MainPosts(j) \/ TimerPosts(j) PROVE OneDrain' /\ WorkInv'
  BY <1>0, <1>3, PushDrain DEF MainPosts, TimerPosts, Free
<1>4. ASSUME NEW t \in Threads, PostSchedules(t) PROVE OneDrain' /\ WorkInv'
  <2> DEFINE q == posting[t]
  <2>1. /\ q \in Queues /\ Schedule(q) /\ UNCHANGED <<queue, poolState>>
        /\ posting' = [posting EXCEPT ![t] = NoQueue] /\ UNCHANGED drains
    BY <1>0, <1>4 DEF PostSchedules
  <2>2. /\ \A i \in 1..Len(ready) : ready[i] # q
        /\ running[q]
        /\ \A w \in Workers : drains[w] # q
        /\ \A u \in Threads : posting[u] = q => u = t
    BY <1>0, <2>1 DEF OneDrain, HasDrain
  <2> HIDE DEF q
  <2>3. /\ posting' \in [Threads -> Queues \cup {NoQueue}]
        /\ drains' \in [Workers -> Queues \cup {NoQueue}]
        /\ \A w \in Workers : drains'[w] = IF drains[w] = q THEN NoQueue ELSE drains[w]
        /\ \A u \in Threads : posting'[u] = IF posting[u] = q THEN NoQueue ELSE posting[u]
    BY <1>0, <2>1, <2>2 DEF q
  <2> QED
    BY <2>1, <2>2, <2>3, ScheduleDrain
<1>5. ASSUME NEW w \in Workers, Requeue(w) PROVE OneDrain' /\ WorkInv'
  <2> DEFINE q == drains[w]
  <2>1. /\ q \in Queues /\ Schedule(q) /\ UNCHANGED <<queue, poolState, posting>>
        /\ drains' = [drains EXCEPT ![w] = NoQueue]
    BY <1>0, <1>5 DEF Requeue, DrainEnds, WorkerInv
  <2>2. /\ \A i \in 1..Len(ready) : ready[i] # q
        /\ running[q]
        /\ \A v \in Workers : drains[v] = q => v = w
        /\ \A t \in Threads : posting[t] # q
    BY <1>0, <2>1 DEF OneDrain, HasDrain
  <2> HIDE DEF q
  <2>3. /\ posting' \in [Threads -> Queues \cup {NoQueue}]
        /\ drains' \in [Workers -> Queues \cup {NoQueue}]
        /\ \A v \in Workers : drains'[v] = IF drains[v] = q THEN NoQueue ELSE drains[v]
        /\ \A t \in Threads : posting'[t] = IF posting[t] = q THEN NoQueue ELSE posting[t]
    BY <1>0, <2>1, <2>2 DEF q
  <2> QED
    BY <2>1, <2>2, <2>3, ScheduleDrain
<1>6. ASSUME NEW w \in Workers, TakeClosure(w) PROVE OneDrain' /\ WorkInv'
  <2>1. /\ Len(ready) > 0 /\ Len(ready') = Len(ready) - 1
        /\ \A i \in 1..Len(ready') : ready'[i] = ready[i + 1] /\ i + 1 \in 1..Len(ready)
        /\ 1 \in 1..Len(ready) /\ ready[1] \in Queues
        /\ drains' = [drains EXCEPT ![w] = ready[1]] /\ drains[w] = NoQueue
        /\ UNCHANGED <<running, queue, queueState, poolState, posting>>
    <3>1. /\ ready # <<>> /\ ready' = Tail(ready) /\ at[w] = "idle"
          /\ drains' = [drains EXCEPT ![w] = Head(ready)]
          /\ UNCHANGED <<running, queue, queueState, poolState, posting>>
      BY <1>6 DEF TakeClosure
    <3>2. /\ Len(ready) > 0 /\ Len(ready') = Len(ready) - 1
          /\ \A i \in 1..Len(ready') : ready'[i] = ready[i + 1]
          /\ Head(ready) = ready[1] /\ ready[1] \in Queues
      BY <1>0, <3>1
    <3>3. drains[w] = NoQueue
      BY <1>0, <3>1 DEF WorkerInv
    <3> QED
      BY <1>0, <3>1, <3>2, <3>3
  <2>2. \A q \in Queues : HasDrain(q)' <=> HasDrain(q)
    <3> TAKE q \in Queues
    <3>1. ASSUME HasDrain(q) PROVE HasDrain(q)'
      <4>1. CASE \E i \in 1..Len(ready) : ready[i] = q
        <5>1. PICK i \in 1..Len(ready) : ready[i] = q
          BY <4>1
        <5>2. CASE i = 1
          BY <1>0, <2>1, <5>1, <5>2 DEF HasDrain
        <5>3. CASE i # 1
          <6>1. i - 1 \in 1..Len(ready') /\ ready'[i - 1] = q
            BY <1>0, <2>1, <5>1, <5>3
          <6> QED
            BY <6>1 DEF HasDrain
        <5> QED
          BY <5>2, <5>3
      <4>2. CASE \E v \in Workers : drains[v] = q
        BY <1>0, <2>1, <4>2 DEF HasDrain
      <4>3. CASE \E t \in Threads : posting[t] = q
        BY <2>1, <4>3 DEF HasDrain
      <4> QED
        BY <3>1, <4>1, <4>2, <4>3 DEF HasDrain
    <3>2. ASSUME HasDrain(q)' PROVE HasDrain(q)
      BY <1>0, <2>1, <3>2 DEF HasDrain
    <3> QED
      BY <3>1, <3>2
  <2>3. OneDrain'
    <3>1. \A i, k \in 1..Len(ready') : ready'[i] = ready'[k] => i = k
      <4> SUFFICES ASSUME NEW i \in 1..Len(ready'), NEW k \in 1..Len(ready'),
                          ready'[i] = ready'[k]
                   PROVE  i = k
        OBVIOUS
      <4>1. i + 1 = k + 1
        <5>1. /\ i + 1 \in 1..Len(ready) /\ k + 1 \in 1..Len(ready)
              /\ ready[i + 1] = ready[k + 1]
          BY <2>1
        <5>2. \A x, y \in 1..Len(ready) : ready[x] = ready[y] => x = y
          BY <1>0 DEF OneDrain
        <5> QED
          BY ONLY <5>1, <5>2
      <4>2. i \in Int /\ k \in Int
        OBVIOUS
      <4> QED
        BY <4>1, <4>2
    <3>2. \A u, v \in Workers : drains'[u] = drains'[v] /\ drains'[u] # NoQueue => u = v
      BY <1>0, <2>1 DEF OneDrain
    <3>3. \A i \in 1..Len(ready') :
            /\ \A v \in Workers : drains'[v] # ready'[i]
            /\ \A t \in Threads : posting'[t] # ready'[i]
      BY <1>0, <2>1 DEF OneDrain
    <3>4. \A v \in Workers, t \in Threads : drains'[v] = posting'[t] => drains'[v] = NoQueue
      BY <1>0, <2>1 DEF OneDrain
    <3> QED
      BY <1>0, <2>1, <2>2, <3>1, <3>2, <3>3, <3>4 DEF OneDrain
  <2>4. WorkInv'
    BY <1>0, <2>1, <2>2 DEF WorkInv
  <2> QED
    BY <2>3, <2>4
<1>7. ASSUME NEW w \in Workers, PopJob(w) PROVE OneDrain' /\ WorkInv'
  <2>1. /\ queue' = [queue EXCEPT ![drains[w]] = Tail(@)] /\ queue[drains[w]] # <<>>
        /\ drains[w] \in Queues
        /\ UNCHANGED <<running, queueState, poolState, ready, drains, posting>>
    BY <1>0, <1>7 DEF PopJob, WorkerInv
  <2>2. \A q \in Queues : queue'[q] # <<>> => queue[q] # <<>>
    BY <1>0, <2>1
  <2> QED
    BY <1>0, <2>1, <2>2 DEF OneDrain, WorkInv, HasDrain
<1>8. ASSUME NEW w \in Workers, FoundEmpty(w) PROVE OneDrain' /\ WorkInv'
  <2> DEFINE q == drains[w]
  <2>1. /\ q \in Queues /\ queue[q] = <<>>
        /\ running' = [running EXCEPT ![q] = FALSE]
        /\ drains' = [drains EXCEPT ![w] = NoQueue]
        /\ UNCHANGED <<queue, queueState, poolState, ready, posting>>
    BY <1>0, <1>8 DEF FoundEmpty, DrainEnds, WorkerInv
  <2>2. \A p \in Queues : HasDrain(p)' <=> HasDrain(p) /\ p # q
    BY <1>0, <2>1 DEF OneDrain, HasDrain
  <2>3. \A p \in Queues : HasDrain(p)' => running'[p]
    BY <1>0, <2>1, <2>2 DEF OneDrain
  <2>4. OneDrain'
    BY <1>0, <2>1, <2>3 DEF OneDrain
  <2>5. WorkInv'
    BY <1>0, <2>1, <2>2 DEF WorkInv
  <2> QED
    BY <2>4, <2>5
<1>9. ASSUME NEW w \in Workers, RunJob(w) PROVE OneDrain' /\ WorkInv'
  <2>1. /\ job[w] \in Jobs /\ posting[w] = NoQueue
        /\ UNCHANGED <<ready, drains, poolState>>
    BY <1>0, <1>9 DEF RunJob, WorkerInv
  <2>2. CASE Follows[job[w]] # NoJob /\ Push(w, Follows[job[w]]) /\ UNCHANGED queueState
    <3>1. Follows[job[w]] \in Jobs
      BY <2>1, <2>2, SystemAssumption
    <3> QED
      BY <1>0, <2>1, <2>2, <3>1, PushDrain
  <2>3. CASE UNCHANGED <<running, queue, posting>>
    BY <1>2, <2>1, <2>3
  <2> QED
    BY <1>9, <2>2, <2>3 DEF RunJob
<1>10. CASE PoolStopCalled
  BY <1>0, <1>10 DEF PoolStopCalled, OneDrain, WorkInv, HasDrain
<1>11. CASE PoolJoined
  BY <1>0, <1>11 DEF PoolJoined, OneDrain, WorkInv, HasDrain
<1>12. CASE PoolDrained
  <2>1. /\ ready' = <<>> /\ phase = "pool"
        /\ UNCHANGED <<running, queue, queueState, poolState, drains, posting>>
    BY <1>12 DEF PoolDrained
  <2>2. poolState # "Running"
    BY <2>1 DEF DrainInv, PhaseInv
  <2> QED
    BY <1>0, <2>1, <2>2 DEF OneDrain, WorkInv, HasDrain
<1> QED
  BY <1>0, <1>2, <1>3, <1>4, <1>5, <1>6, <1>7, <1>8, <1>9, <1>10, <1>11, <1>12
     DEF SystemNext, WorkerNext, ShutdownNext, Callers, FinishJob, WorkerExits,
         StopQueueReturns, MainStops, LetGo, EndService, TimerStopped, systemVars

-----------------------------------------------------------------------------
(* Places in the pool *)

\* DrainInv is the inductive invariant of the drains.
LEMMA DrainInvariant == SystemSpec => []DrainInv
BY DrainInvInit, DrainInvStep, PTL DEF SystemSpec

\* Closures that wait are of different queues, so they are fewer than the queues
\* when the drain of some queue is not among them.
LEMMA FewerClosuresThanQueues ==
  ASSUME DrainInv, NEW q \in Queues, \A i \in 1..Len(ready) : ready[i] # q
  PROVE  Len(ready) < Cardinality(Queues)
<1> DEFINE others == Queues \ {q}
           place == [i \in 1..Len(ready) |-> ready[i]]
<1>0. ready \in Seq(Queues) /\ Len(ready) \in Nat
  BY DEF DrainInv, SystemTyped, SystemTypeOK
<1>1. IsFiniteSet(others) /\ Cardinality(others) = Cardinality(Queues) - 1
  BY QueuesAssumption, FS_RemoveElement
<1>2. IsFiniteSet(1..Len(ready)) /\ Cardinality(1..Len(ready)) = Len(ready)
  <2>1. /\ IsFiniteSet(1..Len(ready))
        /\ Cardinality(1..Len(ready)) = IF 1 > Len(ready) THEN 0 ELSE Len(ready) - 1 + 1
    BY <1>0, FS_Interval
  <2> QED
    BY <1>0, <2>1
<1>3. place \in Injection(1..Len(ready), others)
  <2>1. place \in [1..Len(ready) -> others]
    BY <1>0
  <2>2. \A i, k \in 1..Len(ready) : place[i] = place[k] => i = k
    BY DEF DrainInv, OneDrain
  <2> QED
    BY <2>1, <2>2 DEF Injection, IsInjective
<1>4. Cardinality(1..Len(ready)) <= Cardinality(others)
  BY <1>1, <1>2, <1>3, FS_Injection
<1>5. Cardinality(Queues) \in Nat
  BY QueuesAssumption, FS_CardinalityType
<1> QED
  BY <1>0, <1>1, <1>2, <1>4, <1>5

\* Whoever is about to schedule a drain finds a place for it in a pool with a
\* place for every queue, however many threads post and whatever jobs do.
THEOREM PlaceForEveryQueueSafe == SystemSpec => []PlaceForEveryQueue
<1>1. DrainInv => PlaceForEveryQueue
  <2> SUFFICES ASSUME DrainInv,
                      \/ \E t \in Threads : posting[t] # NoQueue
                      \/ \E w \in Workers : at[w] = "loop" /\ left[w] = 0
               PROVE  Len(ready) < Cardinality(Queues)
    BY DEF PlaceForEveryQueue
  <2>0. /\ posting \in [Threads -> Queues \cup {NoQueue}] /\ ready \in Seq(Queues)
        /\ OneDrain /\ WorkerInv
    BY DEF DrainInv, SystemTyped, SystemTypeOK
  <2>1. ASSUME NEW t \in Threads, posting[t] # NoQueue
        PROVE  Len(ready) < Cardinality(Queues)
    <3>1. posting[t] \in Queues /\ \A i \in 1..Len(ready) : ready[i] # posting[t]
      BY <2>0, <2>1 DEF OneDrain
    <3> QED
      BY <3>1, FewerClosuresThanQueues
  <2>2. ASSUME NEW w \in Workers, at[w] = "loop"
        PROVE  Len(ready) < Cardinality(Queues)
    <3>1. drains[w] \in Queues /\ \A i \in 1..Len(ready) : ready[i] # drains[w]
      BY <2>0, <2>2 DEF OneDrain, WorkerInv
    <3> QED
      BY <3>1, FewerClosuresThanQueues
  <2> QED
    BY <2>1, <2>2
<1> QED
  BY <1>1, DrainInvariant, PTL

-----------------------------------------------------------------------------
(* What stopping a queue leaves behind *)

\* An unbounded pool, which is the default (ReadyQueueCapacity = 0), has a place
\* for every queue; of a bounded one it is required.
PlacesForAll == Cardinality(Queues) <= PoolCapacity

\* A queue that was stopped, by a Stop that ran to its end, has nothing left and
\* no drain. A queue whose Schedule failed because the pool is stopping is not
\* one of main's any more.
StopInv ==
  \A q \in Queues : queueState[q] = "Stopped" /\ (poolState = "Running" \/ q \in owned) =>
    queue[q] = <<>> /\ ~running[q]

\* Schedule fails for no queue while the pool runs, and afterwards only for
\* queues that main has let go of.
LEMMA ScheduleStops ==
  ASSUME PlacesForAll, DrainInv, StopInv, NEW q \in Queues, Schedule(q),
         \A i \in 1..Len(ready) : ready[i] # q,
         running[q],
         UNCHANGED <<queue, owned, poolState>>
  PROVE  StopInv'
<1>0. /\ running \in [Queues -> BOOLEAN] /\ owned \subseteq Queues
      /\ queueState \in [Queues -> {"Running", "Draining", "Stopped"}]
      /\ PhaseInv /\ PoolCapacity \in Nat /\ Len(ready) \in Nat
  BY SystemAssumption DEF DrainInv, SystemTyped, SystemTypeOK
<1>1. CASE UNCHANGED <<running, queueState>>
  BY <1>1 DEF StopInv
<1>2. CASE ~PoolAccepts /\ FailSchedule(q)
  <2>1. poolState # "Running"
    <3>1. Len(ready) < PoolCapacity
      BY <1>0, FewerClosuresThanQueues, QueuesAssumption, FS_CardinalityType DEF PlacesForAll
    <3> QED
      BY <1>2, <3>1 DEF PoolAccepts
  <2>2. q \notin owned
    BY <1>0, <2>1 DEF PhaseInv, StopInv
  <2> QED
    BY <1>0, <1>2, <2>1, <2>2 DEF FailSchedule, StopInv
<1> QED
  BY <1>1, <1>2 DEF Schedule

\* Every step keeps a stopped queue as its Stop has left it.
LEMMA StopInvStep ==
  PlacesForAll /\ DrainInv /\ StopInv /\ [SystemNext]_systemVars => StopInv'
<1> SUFFICES ASSUME PlacesForAll, DrainInv, StopInv, [SystemNext]_systemVars PROVE StopInv'
  OBVIOUS
<1> USE DEF queueVars, poolVars
<1>0. /\ queue \in [Queues -> Seq(Jobs)] /\ running \in [Queues -> BOOLEAN]
      /\ queueState \in [Queues -> {"Running", "Draining", "Stopped"}]
      /\ posting \in [Threads -> Queues \cup {NoQueue}]
      /\ stopping \in [Threads -> Queues \cup {NoQueue}]
      /\ poolState \in {"Running", "Draining", "Stopped"}
      /\ SystemTyped /\ WorkerInv /\ OneDrain /\ PhaseInv /\ owned \subseteq Queues
      /\ Workers \subseteq Threads /\ "main" \in Threads /\ "timer" \in Threads
  BY DEF DrainInv, SystemTyped, SystemTypeOK, Threads, Callers
<1>1. ASSUME UNCHANGED <<running, queue, queueState>>, owned' \subseteq owned,
             poolState' = "Running" => poolState = "Running"
      PROVE  StopInv'
  BY <1>0, <1>1 DEF StopInv
<1>2. ASSUME NEW t \in Threads, NEW j \in Jobs, posting[t] = NoQueue, Push(t, j),
             UNCHANGED <<queueState, owned, poolState>>
      PROVE  StopInv'
  <2>1. CASE UNCHANGED <<queue, running>>
    BY <2>1, <1>2 DEF StopInv
  <2>2. CASE /\ queueState[Home[j]] = "Running"
             /\ queue' = [queue EXCEPT ![Home[j]] = Append(@, j)]
             /\ running' = [running EXCEPT ![Home[j]] = TRUE]
    BY <1>0, <1>2, <2>2 DEF StopInv
  <2> QED
    BY <1>0, <1>2, <2>1, <2>2, PushEffect
<1>3. ASSUME NEW j \in Jobs, MainPosts(j) \/ TimerPosts(j) PROVE StopInv'
  BY <1>0, <1>2, <1>3 DEF MainPosts, TimerPosts, Free
<1>4. ASSUME NEW t \in Threads, PostSchedules(t) PROVE StopInv'
  <2>1. /\ posting[t] \in Queues /\ Schedule(posting[t])
        /\ UNCHANGED <<queue, owned, poolState>>
    BY <1>0, <1>4 DEF PostSchedules
  <2>2. running[posting[t]] /\ \A i \in 1..Len(ready) : ready[i] # posting[t]
    BY <1>0, <2>1 DEF OneDrain, HasDrain
  <2> QED
    BY <2>1, <2>2, ScheduleStops
<1>5. ASSUME NEW w \in Workers, Requeue(w) PROVE StopInv'
  <2>1. /\ drains[w] \in Queues /\ Schedule(drains[w])
        /\ UNCHANGED <<queue, owned, poolState>>
    BY <1>0, <1>5 DEF Requeue, WorkerInv
  <2>2. running[drains[w]] /\ \A i \in 1..Len(ready) : ready[i] # drains[w]
    BY <1>0, <2>1 DEF OneDrain, HasDrain
  <2> QED
    BY <2>1, <2>2, ScheduleStops
<1>6. ASSUME NEW w \in Workers, PopJob(w) PROVE StopInv'
  BY <1>0, <1>6 DEF PopJob, WorkerInv, StopInv
<1>7. ASSUME NEW w \in Workers, FoundEmpty(w) PROVE StopInv'
  BY <1>0, <1>7 DEF FoundEmpty, WorkerInv, StopInv
<1>8. ASSUME NEW t \in Threads, NEW q \in Queues, StopQueue(t, q),
             UNCHANGED <<queue, running, owned, poolState>>
      PROVE  StopInv'
  BY <1>0, <1>8 DEF StopQueue, ClosesToPosts, StopInv
<1>9. ASSUME NEW w \in Workers, RunJob(w) PROVE StopInv'
  <2>1. /\ job[w] \in Jobs /\ posting[w] = NoQueue /\ w \in Threads
        /\ UNCHANGED <<owned, poolState>>
    BY <1>0, <1>9 DEF RunJob, WorkerInv
  <2>2. CASE Follows[job[w]] # NoJob /\ Push(w, Follows[job[w]]) /\ UNCHANGED queueState
    <3>1. Follows[job[w]] \in Jobs
      BY <2>1, <2>2, SystemAssumption
    <3> QED
      BY <1>2, <2>1, <2>2, <3>1
  <2>3. CASE UNCHANGED <<running, queue, queueState>>
    BY <1>1, <2>1, <2>3
  <2>4. CASE Stops[job[w]] # NoQueue /\ StopQueue(w, Stops[job[w]])
             /\ UNCHANGED <<running, queue>>
    <3>1. Stops[job[w]] \in Queues
      BY <2>1, <2>4, SystemAssumption
    <3> QED
      BY <1>8, <2>1, <2>4, <3>1
  <2> QED
    BY <1>9, <2>2, <2>3, <2>4 DEF RunJob
<1>10. ASSUME NEW q \in Queues, MainStops(q) PROVE StopInv'
  BY <1>0, <1>8, <1>10 DEF MainStops
<1>11. ASSUME NEW t \in Threads, StopQueueReturns(t) PROVE StopInv'
  <2>1. /\ stopping[t] \in Queues /\ queue[stopping[t]] = <<>> /\ ~running[stopping[t]]
        /\ queueState' = [queueState EXCEPT ![stopping[t]] = "Stopped"]
        /\ UNCHANGED <<running, queue, owned, poolState>>
    BY <1>0, <1>11 DEF StopQueueReturns, Waits, Quiet
  <2> QED
    BY <1>0, <2>1 DEF StopInv
<1> QED
  BY <1>0, <1>1, <1>3, <1>4, <1>5, <1>6, <1>7, <1>9, <1>10, <1>11
     DEF SystemNext, WorkerNext, ShutdownNext, Callers, TakeClosure, FinishJob, WorkerExits,
         LetGo, EndService, TimerStopped, PoolStopCalled, PoolDrained, PoolJoined, systemVars

\* StopInv is an invariant of a system whose pool has a place for every queue.
LEMMA StopInvariant == PlacesForAll /\ SystemSpec => [](DrainInv /\ StopInv)
<1> SUFFICES ASSUME PlacesForAll PROVE SystemSpec => [](DrainInv /\ StopInv)
  OBVIOUS
<1>1. SystemInit => StopInv
  BY DEF SystemInit, StopInv
<1>2. DrainInv /\ StopInv /\ [SystemNext]_systemVars => StopInv'
  BY StopInvStep
<1> QED
  BY <1>1, <1>2, DrainInvInit, DrainInvStep, PTL DEF SystemSpec

\* While the pool runs, a queue that nobody refers to any more has no jobs left:
\* the closure that drains it keeps it alive until it is empty.
THEOREM NoJobDiesSafe == PlacesForAll /\ SystemSpec => []NoJobDiesWithItsQueue
<1>1. DrainInv /\ StopInv => NoJobDiesWithItsQueue
  <2> SUFFICES ASSUME DrainInv, StopInv, poolState = "Running",
                      NEW q \in Queues, ~AliveQueue(q), queue[q] # <<>>
               PROVE  FALSE
    BY DEF NoJobDiesWithItsQueue
  <2>1. HasDrain(q)
    BY DEF DrainInv, StopInv, WorkInv
  <2>2. ~HasDrain(q)
    <3>1. ready \in Seq(Queues)
      BY DEF DrainInv, SystemTyped, SystemTypeOK
    <3> QED
      BY <3>1 DEF HasDrain, AliveQueue, ToSet
  <2> QED
    BY <2>1, <2>2
<1> QED
  BY <1>1, StopInvariant, PTL

\* A queue that was stopped in order has run all that it accepted, and nobody is
\* inside it or on the way into it.
THEOREM StoppedQueueSafe == PlacesForAll /\ SystemSpec => []StoppedQueueHasFinished
<1>1. DrainInv /\ StopInv => StoppedQueueHasFinished
  <2> SUFFICES ASSUME DrainInv, StopInv, NEW q \in owned, queueState[q] = "Stopped"
               PROVE  /\ queue[q] = <<>> /\ q \notin ToSet(ready)
                      /\ \A t \in Threads : posting[t] # q
                      /\ \A w \in Workers : job[w] # NoJob => Home[job[w]] # q
    BY DEF StoppedQueueHasFinished
  <2>0. ready \in Seq(Queues) /\ q \in Queues /\ job \in [Workers -> Jobs \cup {NoJob}]
    BY DEF DrainInv, SystemTyped, SystemTypeOK
  <2>1. queue[q] = <<>> /\ ~HasDrain(q)
    BY <2>0 DEF StopInv, DrainInv, OneDrain
  <2>2. \A w \in Workers : job[w] # NoJob => Home[job[w]] = drains[w]
    BY <2>0 DEF DrainInv, SystemTyped, WorkerInv
  <2> QED
    BY <2>0, <2>1, <2>2 DEF HasDrain, ToSet
<1> QED
  BY <1>1, StopInvariant, PTL

-----------------------------------------------------------------------------
(* Each queue is a strand *)

StrandStep(q) == QueueStrand(q)!StrandNext \/ UNCHANGED QueueStrand(q)!strandVars

\* A step that leaves the jobs of a queue alone, and opens no queue, is one of the strand.
LEMMA StrandKept ==
  ASSUME NEW q \in Queues, queue'[q] = queue[q], ActiveJobs(q)' = ActiveJobs(q),
         queueState'[q] = "Running" => queueState[q] = "Running"
  PROVE  StrandStep(q)
<1>1. CASE queueState[q] = "Running" /\ queueState'[q] # "Running"
  <2>1. QueueStrand(q)!Shut
    BY <1>1 DEF QueueStrand!Shut
  <2> QED
    BY <2>1 DEF StrandStep, QueueStrand!StrandNext
<1>2. CASE queueState[q] = "Running" <=> queueState'[q] = "Running"
  BY <1>2 DEF StrandStep, QueueStrand!strandVars
<1> QED
  BY <1>1, <1>2

\* The only thread inside q, if any, has the active job.
LEMMA ActiveOfDrain ==
  ASSUME OneDrain, NEW q \in Queues, NEW w \in Workers, drains[w] = q, NoQueue \notin Queues
  PROVE  ActiveJobs(q) = IF job[w] = NoJob THEN {} ELSE {job[w]}
<1>1. \A v \in Workers : drains[v] = q <=> v = w
  BY DEF OneDrain
<1> QED
  BY <1>1 DEF ActiveJobs

\* Who has no job may come into a queue or go out of it.
LEMMA ActiveKept ==
  ASSUME NEW q \in Queues,
         \A v \in Workers :
           (drains[v] = q /\ job[v] # NoJob) \/ (drains'[v] = q /\ job'[v] # NoJob)
             => drains'[v] = drains[v] /\ job'[v] = job[v]
  PROVE  ActiveJobs(q)' = ActiveJobs(q)
<1> DEFINE inside == {v \in Workers : drains[v] = q /\ job[v] # NoJob}
<1>1. /\ inside' = inside
      /\ \A v \in inside : job'[v] = job[v]
  OBVIOUS
<1> QED
  BY <1>1 DEF ActiveJobs

\* A Push enters the job into the queue of its home, or nothing.
LEMMA PushIsEnter ==
  ASSUME SystemTyped, NEW t \in Threads, NEW j \in Jobs, posting[t] = NoQueue, Push(t, j),
         UNCHANGED <<queueState, drains, job>>, NEW q \in Queues
  PROVE  StrandStep(q)
<1>1. ActiveJobs(q)' = ActiveJobs(q)
  BY ActiveKept
<1>2. CASE queue' = queue
  BY <1>1, <1>2, StrandKept
<1>3. CASE /\ queueState[Home[j]] = "Running"
           /\ queue' = [queue EXCEPT ![Home[j]] = Append(@, j)]
  <2>0. queue \in [Queues -> Seq(Jobs)]
    BY DEF SystemTyped, SystemTypeOK
  <2>1. CASE q = Home[j]
    <3>1. QueueStrand(q)!Enter(j)
      BY <1>1, <1>3, <2>0, <2>1 DEF QueueStrand!Enter
    <3> QED
      BY <3>1 DEF StrandStep, QueueStrand!StrandNext
  <2>2. CASE q # Home[j]
    <3>1. queue'[q] = queue[q]
      BY <1>3, <2>0, <2>2
    <3> QED
      BY <1>1, <3>1, StrandKept
  <2> QED
    BY <2>1, <2>2
<1> QED
  BY <1>2, <1>3, PushEffect

\* Every step of the system is a step of each queue's strand, or none of its business.
LEMMA StrandsStep ==
  ASSUME DrainInv, [SystemNext]_systemVars, NEW q \in Queues
  PROVE  StrandStep(q)
<1> USE SystemAssumption
<1> USE DEF queueVars, poolVars, workerVars, jobVars
<1>0. /\ queue \in [Queues -> Seq(Jobs)]
      /\ queueState \in [Queues -> {"Running", "Draining", "Stopped"}]
      /\ job \in [Workers -> Jobs \cup {NoJob}]
      /\ drains \in [Workers -> Queues \cup {NoQueue}]
      /\ posting \in [Threads -> Queues \cup {NoQueue}]
      /\ stopping \in [Threads -> Queues \cup {NoQueue}]
      /\ SystemTyped /\ WorkerInv /\ OneDrain
      /\ Workers \subseteq Threads /\ "main" \in Threads /\ "timer" \in Threads
  BY DEF DrainInv, SystemTyped, SystemTypeOK, Threads, Callers
<1>1. ASSUME UNCHANGED <<queue, drains, job>>,
             queueState'[q] = "Running" => queueState[q] = "Running"
      PROVE  StrandStep(q)
  BY <1>1, ActiveKept, StrandKept
<1>2. ASSUME UNCHANGED <<queue, job>>, NEW w \in Workers, job[w] = NoJob,
             \A v \in Workers : v # w => drains'[v] = drains[v],
             queueState'[q] = "Running" => queueState[q] = "Running"
      PROVE  StrandStep(q)
  <2>1. ActiveJobs(q)' = ActiveJobs(q)
    BY <1>2, ActiveKept
  <2> QED
    BY <1>2, <2>1, StrandKept
<1>3. ASSUME NEW p \in Queues, Schedule(p)
      PROVE  queueState'[q] = "Running" => queueState[q] = "Running"
  BY <1>0, <1>3 DEF Schedule, FailSchedule
<1>4. ASSUME NEW j \in Jobs, MainPosts(j) \/ TimerPosts(j) PROVE StrandStep(q)
  BY <1>0, <1>4, PushIsEnter DEF MainPosts, TimerPosts, Free
<1>5. ASSUME NEW t \in Threads, PostSchedules(t) PROVE StrandStep(q)
  <2>1. posting[t] \in Queues /\ Schedule(posting[t])
    BY <1>0, <1>5 DEF PostSchedules
  <2> QED
    BY <1>1, <1>3, <1>5, <2>1 DEF PostSchedules
<1>6. ASSUME NEW w \in Workers, TakeClosure(w) PROVE StrandStep(q)
  <2>1. job[w] = NoJob
    <3>1. at[w] = "idle" /\ job[w] \in Jobs \cup {NoJob}
      BY <1>0, <1>6 DEF TakeClosure
    <3> QED
      BY <1>0, <3>1 DEF WorkerInv
  <2>2. \A v \in Workers : v # w => drains'[v] = drains[v]
    BY <1>0, <1>6 DEF TakeClosure
  <2> QED
    BY <1>2, <1>6, <2>1, <2>2 DEF TakeClosure
<1>7. ASSUME NEW w \in Workers, PopJob(w) PROVE StrandStep(q)
  <2>0. /\ drains[w] \in Queues /\ job[w] = NoJob
        /\ queue[drains[w]] \in Seq(Jobs) /\ queue[drains[w]] # <<>>
        /\ job' = [job EXCEPT ![w] = Head(queue[drains[w]])]
        /\ queue' = [queue EXCEPT ![drains[w]] = Tail(@)]
        /\ UNCHANGED <<queueState, drains>>
    BY <1>0, <1>7 DEF PopJob, WorkerInv
  <2>1. CASE drains[w] = q
    <3>1. ActiveJobs(q) = {}
      BY <1>0, <2>0, <2>1, ActiveOfDrain
    <3>2. ActiveJobs(q)' = {Head(queue[q])}
      <4>1. \A v \in Workers : drains'[v] = q <=> v = w
        BY <1>0, <2>0, <2>1 DEF OneDrain
      <4>2. job'[w] = Head(queue[q]) /\ Head(queue[q]) \in Jobs
        BY <1>0, <2>0, <2>1
      <4> QED
        BY <4>1, <4>2 DEF ActiveJobs
    <3>3. queue'[q] = Tail(queue[q])
      BY <1>0, <2>0, <2>1
    <3>4. QueueStrand(q)!Start
      BY <2>0, <2>1, <3>1, <3>2, <3>3 DEF QueueStrand!Start
    <3> QED
      BY <3>4 DEF StrandStep, QueueStrand!StrandNext
  <2>2. CASE drains[w] # q
    <3>1. ActiveJobs(q)' = ActiveJobs(q)
      BY <1>0, <2>0, <2>2, ActiveKept
    <3>2. queue'[q] = queue[q]
      BY <1>0, <2>0, <2>2
    <3> QED
      BY <2>0, <3>1, <3>2, StrandKept
  <2> QED
    BY <2>1, <2>2
<1>8. ASSUME NEW w \in Workers, RunJob(w) PROVE StrandStep(q)
  <2>1. /\ job[w] \in Jobs /\ posting[w] = NoQueue /\ w \in Threads
        /\ UNCHANGED <<drains, job>>
    BY <1>0, <1>8 DEF RunJob, WorkerInv
  <2>2. CASE Follows[job[w]] # NoJob /\ Push(w, Follows[job[w]]) /\ UNCHANGED queueState
    <3>1. Follows[job[w]] \in Jobs
      BY <2>1, <2>2
    <3> QED
      BY <1>0, <2>1, <2>2, <3>1, PushIsEnter
  <2>3. CASE UNCHANGED <<queue, queueState>>
    BY <1>1, <2>1, <2>3
  <2>4. CASE Stops[job[w]] # NoQueue /\ StopQueue(w, Stops[job[w]]) /\ UNCHANGED queue
    <3>1. queueState'[q] = "Running" => queueState[q] = "Running"
      BY <1>0, <2>4 DEF StopQueue, ClosesToPosts
    <3> QED
      BY <1>1, <2>1, <2>4, <3>1
  <2> QED
    BY <1>8, <2>2, <2>3, <2>4 DEF RunJob
<1>9. ASSUME NEW w \in Workers, FinishJob(w) PROVE StrandStep(q)
  <2>0. /\ drains[w] \in Queues /\ job[w] \in Jobs
        /\ job' = [job EXCEPT ![w] = NoJob]
        /\ UNCHANGED <<queue, queueState, drains>>
    BY <1>0, <1>9 DEF FinishJob, WorkerInv
  <2>1. CASE drains[w] = q
    <3>1. ActiveJobs(q) = {job[w]}
      BY <1>0, <2>0, <2>1, ActiveOfDrain
    <3>2. ActiveJobs(q)' = {}
      <4>1. \A v \in Workers : drains'[v] = q => job'[v] = NoJob
        BY <1>0, <2>0, <2>1 DEF OneDrain
      <4> QED
        BY <4>1 DEF ActiveJobs
    <3>3. QueueStrand(q)!Leave(job[w])
      BY <2>0, <3>1, <3>2 DEF QueueStrand!Leave
    <3> QED
      BY <2>0, <3>3 DEF StrandStep, QueueStrand!StrandNext
  <2>2. CASE drains[w] # q
    <3>1. ActiveJobs(q)' = ActiveJobs(q)
      BY <1>0, <2>0, <2>2, ActiveKept
    <3> QED
      BY <2>0, <3>1, StrandKept
  <2> QED
    BY <2>1, <2>2
<1>10. ASSUME NEW w \in Workers, FoundEmpty(w) PROVE StrandStep(q)
  <2>1. job[w] = NoJob /\ \A v \in Workers : v # w => drains'[v] = drains[v]
    BY <1>0, <1>10 DEF FoundEmpty, DrainEnds, WorkerInv
  <2> QED
    BY <1>2, <1>10, <2>1 DEF FoundEmpty
<1>11. ASSUME NEW w \in Workers, Requeue(w) PROVE StrandStep(q)
  <2>1. /\ job[w] = NoJob /\ \A v \in Workers : v # w => drains'[v] = drains[v]
        /\ drains[w] \in Queues /\ Schedule(drains[w])
    BY <1>0, <1>11 DEF Requeue, DrainEnds, WorkerInv
  <2> QED
    BY <1>2, <1>3, <1>11, <2>1 DEF Requeue
<1>12. ASSUME NEW t \in Threads, StopQueueReturns(t) PROVE StrandStep(q)
  <2>1. queueState'[q] = "Running" => queueState[q] = "Running"
    BY <1>0, <1>12 DEF StopQueueReturns
  <2> QED
    BY <1>1, <1>12, <2>1 DEF StopQueueReturns
<1>13. ASSUME NEW p \in Queues, MainStops(p) PROVE StrandStep(q)
  <2>1. queueState'[q] = "Running" => queueState[q] = "Running"
    BY <1>0, <1>13 DEF MainStops, StopQueue, ClosesToPosts
  <2> QED
    BY <1>1, <1>13, <2>1 DEF MainStops
<1> QED
  BY <1>0, <1>1, <1>4, <1>5, <1>6, <1>7, <1>8, <1>9, <1>10, <1>11, <1>12, <1>13
     DEF SystemNext, WorkerNext, ShutdownNext, Callers, WorkerExits,
         LetGo, EndService, TimerStopped, PoolStopCalled, PoolDrained, PoolJoined, systemVars

\* Each queue of the system keeps the promise of a strand: jobs are taken in the
\* order they were accepted and one at a time, on whatever threads its drains
\* run, and a queue that was closed or has failed accepts no more of them.
THEOREM QueuesAreStrandsSafe == SystemSpec => QueuesAreStrands
<1>1. SystemInit => \A q \in Queues : QueueStrand(q)!StrandInit
  <2> SUFFICES ASSUME SystemInit, NEW q \in Queues PROVE QueueStrand(q)!StrandInit
    OBVIOUS
  <2>1. ActiveJobs(q) = {}
    BY DEF SystemInit, ActiveJobs
  <2> QED
    BY <2>1 DEF SystemInit, QueueStrand!StrandInit
<1>2. DrainInv /\ [SystemNext]_systemVars
        => [\A q \in Queues : QueueStrand(q)!StrandNext
                              \/ UNCHANGED QueueStrand(q)!strandVars]_systemVars
  BY StrandsStep DEF StrandStep
<1> QED
  BY <1>1, <1>2, DrainInvariant, PTL DEF QueuesAreStrands, SystemSpec

-----------------------------------------------------------------------------
(* The pool is an executor *)

\* Main's steps and the pool's state go together, and the deque stays empty once
\* main has emptied it: nothing is accepted any more.
PoolInv ==
  /\ phase \in {"pool", "join"} => poolState = "Draining"
  /\ phase \in {"join", "done"} => ready = <<>>

\* Schedule is an Accept, or leaves the pool as it is.
LEMMA ScheduleIsAccept ==
  ASSUME DrainInv, NEW q \in Queues, Schedule(q), poolState' = poolState
  PROVE  Pool!Accept \/ ready' = ready
<1>1. CASE PoolAccepts /\ ReadyLast(q)
  <2>1. Len(ready') = Len(ready) + 1
    BY <1>1 DEF ReadyLast, DrainInv, SystemTyped, SystemTypeOK
  <2> QED
    BY <1>1, <2>1 DEF PoolAccepts, Pool!Accept
<1> QED
  BY <1>1 DEF Schedule

\* Every step of the system is a step of ExecutorContract, or none.
LEMMA PoolStep ==
  ASSUME DrainInv, PoolInv, [SystemNext]_systemVars
  PROVE  PoolInv' /\ [Pool!Next]_Pool!vars
<1> USE DEF queueVars, poolVars, workerVars, jobVars, Pool!vars
<1>0. /\ ready \in Seq(Queues) /\ Len(ready) \in Nat /\ PhaseInv /\ WorkerInv
      /\ posting \in [Threads -> Queues \cup {NoQueue}]
  BY DEF DrainInv, SystemTyped, SystemTypeOK
<1>1. ASSUME UNCHANGED <<poolState, ready, phase>> PROVE PoolInv' /\ [Pool!Next]_Pool!vars
  BY <1>1 DEF PoolInv
<1>2. ASSUME NEW q \in Queues, Schedule(q), UNCHANGED <<poolState, phase>>
      PROVE  PoolInv' /\ [Pool!Next]_Pool!vars
  <2>1. CASE ready' = ready
    BY <1>1, <1>2, <2>1
  <2>2. CASE Pool!Accept
    <3>1. phase \notin {"pool", "join", "done"}
      BY <1>0, <2>2 DEF Pool!Accept, PhaseInv
    <3> QED
      BY <1>2, <2>2, <3>1 DEF PoolInv, Pool!Next
  <2> QED
    BY <1>2, <2>1, <2>2, ScheduleIsAccept
<1>3. ASSUME NEW t \in Threads, PostSchedules(t)
      PROVE  PoolInv' /\ [Pool!Next]_Pool!vars
  <2>1. posting[t] \in Queues
    BY <1>0, <1>3 DEF PostSchedules
  <2> QED
    BY <1>2, <1>3, <2>1 DEF PostSchedules
<1>4. ASSUME NEW w \in Workers, Requeue(w)
      PROVE  PoolInv' /\ [Pool!Next]_Pool!vars
  <2>1. drains[w] \in Queues
    BY <1>0, <1>4 DEF Requeue, WorkerInv
  <2> QED
    BY <1>2, <1>4, <2>1 DEF Requeue
<1>5. ASSUME NEW w \in Workers, TakeClosure(w)
      PROVE  PoolInv' /\ [Pool!Next]_Pool!vars
  <2>1. /\ ready # <<>> /\ ready' = Tail(ready) /\ UNCHANGED <<poolState, phase>>
    BY <1>5 DEF TakeClosure
  <2>2. Len(ready) > 0 /\ Len(ready') = Len(ready) - 1
    BY <1>0, <2>1
  <2>3. Pool!Start
    BY <2>1, <2>2 DEF Pool!Start
  <2> QED
    BY <2>1, <2>3 DEF PoolInv, Pool!Next
<1>6. CASE EndService \/ TimerStopped
  BY <1>6 DEF EndService, TimerStopped, PoolInv
<1>7. CASE PoolStopCalled
  <2>1. Pool!Stop
    BY <1>0, <1>7 DEF PoolStopCalled, PhaseInv, Pool!Stop
  <2> QED
    BY <1>7, <2>1 DEF PoolStopCalled, PoolInv, Pool!Next
<1>8. CASE PoolDrained
  <2>1. Pool!Discard
    BY <1>8 DEF PoolDrained, PoolInv, Pool!Discard
  <2> QED
    BY <1>8, <2>1 DEF PoolDrained, PoolInv, Pool!Next
<1>9. CASE PoolJoined
  <2>1. Pool!Close
    BY <1>9 DEF PoolJoined, PoolInv, Pool!Close
  <2> QED
    BY <1>9, <2>1 DEF PoolJoined, PoolInv, Pool!Next
<1> QED
  BY <1>1, <1>3, <1>4, <1>5, <1>6, <1>7, <1>8, <1>9
     DEF SystemNext, WorkerNext, ShutdownNext, Threads, Callers, MainPosts, TimerPosts,
         PopJob, RunJob, FinishJob, FoundEmpty, WorkerExits, StopQueueReturns, LetGo,
         MainStops, systemVars

\* The pool of the composition is an executor as the queues may rely on one: no
\* closure is accepted once the shutdown has reached it, and it is Stopped only
\* when it holds none, however many queues and threads post to it meanwhile.
THEOREM PoolIsExecutorSafe == SystemSpec => PoolIsExecutor
<1>1. SystemInit => PoolInv /\ Pool!Init
  BY DEF SystemInit, PoolInv, Pool!Init
<1>2. DrainInv /\ PoolInv /\ [SystemNext]_systemVars => PoolInv' /\ [Pool!Next]_Pool!vars
  BY PoolStep
<1> QED
  BY <1>1, <1>2, DrainInvariant, PTL DEF PoolIsExecutor, Pool!Spec, SystemSpec

\* Both refinements of the composition: its queues are strands, its pool is an
\* executor.
THEOREM PartsKeepTheirPromisesSafe == SystemSpec => PartsKeepTheirPromises
BY QueuesAreStrandsSafe, PoolIsExecutorSafe DEF PartsKeepTheirPromises
=============================================================================
