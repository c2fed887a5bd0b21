--------------------------- MODULE JobQueueProofs ---------------------------
(***************************************************************************)
(* Theorems about JobQueue for every number of jobs, clients, workers,     *)
(* stoppers and cancelers, every capacity and batch limit, and an executor *)
(* that may refuse and drop drains.                                        *)
(***************************************************************************)
EXTENDS JobQueue, TLAPS

-----------------------------------------------------------------------------
(* The inductive invariant                                                   *)

Scheduling(c) == clientPc[c] \in {"schedule", "failed"}
Draining(w) == drainPc[w] # "idle"

\* Exactly the threads between pop and release hold a job.
HeldInv ==
  \A d \in Drainers :
    (held[d] \in Jobs) <=> (drainPc[d] \in {"check", "start", "run", "count"})

\* A Cancel call in progress has a target.
TargetInv == \A x \in Cancelers : cancelPc[x] # "idle" => target[x] \in Jobs

\* The right to drain is a token: a closure in the executor, a worker inside
\* DrainOnce, or a client about to schedule; each excludes the others and all
\* of them imply running_.
ClosureInv ==
  /\ closures \in {0, 1}
  /\ closures = 1 => /\ running
                     /\ \A w \in Workers : ~Draining(w)
                     /\ \A c \in Clients : ~Scheduling(c)

WorkerInv ==
  \A w \in Workers : Draining(w) =>
    /\ running
    /\ closures = 0
    /\ \A v \in Workers : Draining(v) => v = w
    /\ \A c \in Clients : ~Scheduling(c)

ClientInv ==
  \A c \in Clients : Scheduling(c) =>
    /\ running
    /\ closures = 0
    /\ \A w \in Workers : ~Draining(w)
    /\ \A b \in Clients : Scheduling(b) => b = c

TokenInv == ClosureInv /\ WorkerInv /\ ClientInv

-----------------------------------------------------------------------------
(* Types *)

Typed == TypeOK /\ HeldInv /\ TargetInv

\* A new queue, its threads idle, has the right types.
LEMMA TypedInit == Init => Typed
<1> SUFFICES ASSUME Init PROVE Typed
  OBVIOUS
<1> USE DEF Init, Executor!Init
<1>1. TypeOK
  <2>1. verdict \in [Cancelers -> [job : Jobs \cup {NoJob}, result : Results]]
    BY DEF Results
  <2>2. count \in [{"submitted", "rejected", "executed", "failed", "canceled"} -> Nat]
    OBVIOUS
  <2>3. queue \in Seq(Jobs) /\ Len(queue) = 0
    OBVIOUS
  <2>4. /\ state \in QueueStates /\ execState \in QueueStates
        /\ running \in BOOLEAN /\ flagged \subseteq Jobs /\ closures \in Nat
    BY DEF QueueStates
  <2>5. /\ jobState \in [Jobs -> {"Fresh", "Queued", "Executing", "Done", "Failed",
                                  "Canceled"}]
        /\ returned \in [Jobs -> {"no", "valid", "expired", "invalid"}]
    OBVIOUS
  <2>6. /\ clientPc \in [Clients -> {"idle", "schedule", "failed", "return"}]
        /\ posting \in [Clients -> Jobs \cup {NoJob}]
    OBVIOUS
  <2>7. /\ drainPc \in [Drainers -> DrainPcs]
        /\ held \in [Drainers -> Jobs \cup {NoJob}]
        /\ left \in [Drainers -> Nat]
    BY DEF DrainPcs
  <2>8. /\ stopPc \in [Stoppers -> StopPcs]
        /\ stopMode \in [Stoppers -> {"none", "drain", "timed", "clear"}]
    BY DEF StopPcs
  <2>9. /\ cancelPc \in [Cancelers -> {"idle", "exchange", "load"}]
        /\ target \in [Cancelers -> Jobs \cup {NoJob}]
    OBVIOUS
  <2>10. Capacity > 0 => Len(queue) <= Capacity
    BY <2>3, OptionAssumption
  <2> HIDE DEF Init, Executor!Init
  <2> QED
    BY <2>1, <2>2, <2>3, <2>4, <2>5, <2>6, <2>7, <2>8, <2>9, <2>10 DEF TypeOK
<1>2. HeldInv
  BY NoJobAssumption DEF HeldInv
<1>3. TargetInv
  BY DEF TargetInv
<1> QED
  BY <1>1, <1>2, <1>3 DEF Typed

\* The part of TypeOK about the callers of Cancel.
LEMMA CancelTypes == TypeOK =>
  /\ cancelPc \in [Cancelers -> {"idle", "exchange", "load"}]
  /\ target \in [Cancelers -> Jobs \cup {NoJob}]
  /\ verdict \in [Cancelers -> [job : Jobs \cup {NoJob}, result : Results]]
  BY DEF TypeOK

\* ExecuteEntry's look at the Canceled flag keeps the types, skipped or not.
LEMMA CheckCanceledTyped ==
  ASSUME NEW d \in Drainers, Typed, CheckCanceled(d) PROVE Typed'
<1>1. TypeOK /\ HeldInv /\ TargetInv
  BY DEF Typed
<1>2. CASE CancelObserved(held[d])
  <2>1. /\ jobState' = [jobState EXCEPT ![held[d]] = "Canceled"]
        /\ count' = Bump(count, "canceled", 1)
        /\ held' = [held EXCEPT ![d] = NoJob]
        /\ drainPc[d] = "check"
        /\ drainPc' = [drainPc EXCEPT ![d] = "loop"]
    BY <1>2 DEF CheckCanceled
  <2>2. TypeOK'
    <3>1. count' \in [{"submitted", "rejected", "executed", "failed", "canceled"} -> Nat]
      BY <1>1, <2>1 DEF TypeOK, Bump
    <3>2. jobState' \in [Jobs -> {"Fresh", "Queued", "Executing", "Done", "Failed",
                                 "Canceled"}]
      BY <1>1, <2>1 DEF TypeOK
    <3>3. /\ held' \in [Drainers -> Jobs \cup {NoJob}]
          /\ drainPc' \in [Drainers -> DrainPcs]
      BY <1>1, <2>1 DEF TypeOK, DrainPcs
    <3> QED
      BY <1>1, <3>1, <3>2, <3>3 DEF CheckCanceled, TypeOK, queueVars, clientVars,
                                    stopVars, cancelVars, execVars
  <2>3. HeldInv'
    BY <1>1, <2>1, NoJobAssumption DEF TypeOK, HeldInv
  <2> QED
    BY <1>1, <2>2, <2>3 DEF Typed, TargetInv, CheckCanceled, cancelVars
<1>3. CASE ~CancelObserved(held[d])
  <2>1. /\ UNCHANGED <<jobState, count, held>>
        /\ drainPc[d] = "check"
        /\ drainPc' = [drainPc EXCEPT ![d] = "start"]
    BY <1>3 DEF CheckCanceled
  <2>2. TypeOK'
    BY <1>1, <2>1 DEF CheckCanceled, TypeOK, DrainPcs, queueVars, clientVars,
                      stopVars, cancelVars, execVars
  <2>3. HeldInv'
    BY <1>1, <2>1 DEF TypeOK, HeldInv
  <2> QED
    BY <1>1, <2>2, <2>3 DEF Typed, TargetInv, CheckCanceled, cancelVars
<1> QED
  BY <1>2, <1>3

\* A Stop that gives up at its deadline, queue dropped or drained, keeps the types.
LEMMA StopTimeoutTyped ==
  ASSUME NEW s \in Stoppers, Typed, StopTimeout(s) PROVE Typed'
<1>1. TypeOK /\ HeldInv /\ TargetInv
  BY DEF Typed
<1>2. CASE UNCHANGED <<queue, jobState, count>>
  BY <1>1, <1>2, SMTT(30) DEF StopTimeout, TypeOK, HeldInv, TargetInv, Typed, StopPcs,
                    clientVars, drainVars, cancelVars, execVars
<1>3. CASE DropQueued
  <2>1. jobState' \in [Jobs -> {"Fresh", "Queued", "Executing", "Done", "Failed",
                               "Canceled"}]
    BY <1>1, <1>3 DEF TypeOK, DropQueued, MarkQueued
  <2>2. queue' \in Seq(Jobs) /\ (Capacity > 0 => Len(queue') <= Capacity)
    BY <1>3, OptionAssumption DEF DropQueued
  <2>3. Len(queue) \in Nat
    BY <1>1 DEF TypeOK
  <2>4. count' \in [{"submitted", "rejected", "executed", "failed", "canceled"} -> Nat]
    BY <1>1, <1>3, <2>3 DEF TypeOK, DropQueued, Bump
  <2>5. TypeOK'
    BY <1>1, <2>1, <2>2, <2>4 DEF StopTimeout, TypeOK, StopPcs, clientVars, drainVars,
                                  cancelVars, execVars
  <2> QED
    BY <1>1, <2>5 DEF Typed, HeldInv, TargetInv, StopTimeout, drainVars, cancelVars
<1> QED
  BY <1>2, <1>3 DEF StopTimeout

\* A Cancel that locks its weak_ptr, or finds it expired, keeps the types.
LEMMA CancelCallTyped ==
  ASSUME NEW x \in Cancelers, NEW j \in Jobs, Typed, CancelCall(x, j) PROVE Typed'
<1>1. TypeOK /\ HeldInv /\ TargetInv
  BY DEF Typed
<1>2. verdict' \in [Cancelers -> [job : Jobs \cup {NoJob}, result : Results]]
  <2>1. verdict' = verdict \/ Verdict(x, j, "Expired")
    BY DEF CancelCall
  <2> QED
    BY <1>1, <2>1, CancelTypes DEF Verdict, Results
<1>3. \/ UNCHANGED <<cancelPc, target>>
      \/ /\ cancelPc' = [cancelPc EXCEPT ![x] = "exchange"]
         /\ target' = [target EXCEPT ![x] = j]
  BY DEF CancelCall
<1>4. /\ cancelPc' \in [Cancelers -> {"idle", "exchange", "load"}]
      /\ target' \in [Cancelers -> Jobs \cup {NoJob}]
  BY <1>1, <1>3, CancelTypes
<1>5. TargetInv'
  BY <1>1, <1>3, CancelTypes DEF TargetInv
<1>6. TypeOK'
  BY <1>1, <1>2, <1>4 DEF CancelCall, TypeOK, queueVars, entryVars, clientVars,
                          drainVars, stopVars, execVars
<1> QED
  BY <1>1, <1>5, <1>6 DEF Typed, HeldInv, CancelCall, drainVars

\* The exchange on the Canceled flag keeps the types, whoever was first.
LEMMA CancelExchangeTyped ==
  ASSUME NEW x \in Cancelers, Typed, CancelExchange(x) PROVE Typed'
<1>1. TypeOK /\ HeldInv /\ TargetInv
  BY DEF Typed
<1>2. target[x] \in Jobs /\ flagged' \subseteq Jobs
  BY <1>1 DEF TypeOK, TargetInv, CancelExchange
<1>3. verdict' \in [Cancelers -> [job : Jobs \cup {NoJob}, result : Results]]
  <2>1. verdict' = verdict \/ Verdict(x, target[x], "AlreadyCanceled")
    BY DEF CancelExchange
  <2> QED
    BY <1>1, <1>2, <2>1, CancelTypes DEF Verdict, Results
<1>4. \/ /\ cancelPc' = [cancelPc EXCEPT ![x] = "load"]
         /\ UNCHANGED target
      \/ /\ cancelPc' = [cancelPc EXCEPT ![x] = "idle"]
         /\ target' = [target EXCEPT ![x] = NoJob]
  BY DEF CancelExchange
<1>5. /\ cancelPc' \in [Cancelers -> {"idle", "exchange", "load"}]
      /\ target' \in [Cancelers -> Jobs \cup {NoJob}]
  BY <1>1, <1>4, CancelTypes
<1>6. TargetInv'
  BY <1>1, <1>2, <1>4, CancelTypes DEF TargetInv
<1>7. TypeOK'
  BY <1>1, <1>2, <1>3, <1>5 DEF CancelExchange, TypeOK, queueVars, entryVars,
                                clientVars, drainVars, stopVars, execVars
<1> QED
  BY <1>1, <1>6, <1>7 DEF Typed, HeldInv, CancelExchange, drainVars

\* Every step of every thread keeps the types and the capacity.
LEMMA TypedStep == Typed /\ [Next]_vars => Typed'
<1> SUFFICES ASSUME Typed, [Next]_vars PROVE Typed'
  OBVIOUS
<1> USE OptionAssumption, NoJobAssumption
<1> USE DEF Typed, TypeOK, HeldInv, TargetInv, Drainers, QueueStates, DrainPcs,
            StopPcs, Results, queueVars, entryVars, clientVars, drainVars,
            stopVars, cancelVars, execVars
<1>1. ASSUME NEW c \in Clients, NEW j \in Jobs, PostRefused(c, j) PROVE Typed'
  BY <1>1 DEF PostRefused, CanPost, Full, Bump
<1>2. ASSUME NEW c \in Clients, NEW j \in Jobs, PostAccepted(c, j) PROVE Typed'
  BY <1>2, SMTT(30) DEF PostAccepted, CanPost, Full, Bump, NeedSchedule
<1>3. ASSUME NEW c \in Clients, PostSchedule(c) PROVE Typed'
  BY <1>3, SMTT(30) DEF PostSchedule, Executor!Accept, Executor!Refuse, Executor!vars
<1>4. ASSUME NEW c \in Clients, PostScheduleFailed(c) PROVE Typed'
  BY <1>4 DEF PostScheduleFailed, MarkFailedSchedule, ReleaseDrain, NotifyAll
<1>5. ASSUME NEW c \in Clients, PostReturn(c) PROVE Typed'
  BY <1>5 DEF PostReturn
<1>6. ASSUME NEW w \in Workers, StartDrain(w) PROVE Typed'
  BY <1>6 DEF StartDrain, Executor!Start
<1>7. ASSUME NEW p \in Pumpers, StartPump(p) PROVE Typed'
  BY <1>7 DEF StartPump
<1>8. ASSUME NEW d \in Drainers, PopEntry(d) PROVE Typed'
  BY <1>8, SMTT(30) DEF PopEntry
<1>9. ASSUME NEW w \in Workers, DrainEmpty(w) PROVE Typed'
  BY <1>9 DEF DrainEmpty, ReleaseDrain, NotifyAll
<1>10. ASSUME NEW p \in Pumpers, PumpEnd(p) PROVE Typed'
  BY <1>10 DEF PumpEnd
<1>11. ASSUME NEW w \in Workers, BatchExhausted(w) PROVE Typed'
  <2>1. /\ drainPc' \in {[drainPc EXCEPT ![w] = "idle"], [drainPc EXCEPT ![w] = "failed"]}
        /\ closures' \in Nat /\ execState' = execState
    BY <1>11 DEF BatchExhausted, Executor!Accept, Executor!Refuse, Executor!vars
  <2>2. drainPc[w] = "loop" /\ held' = held
    BY <1>11 DEF BatchExhausted
  <2>3. HeldInv'
    BY <2>1, <2>2
  <2> QED
    BY <1>11, <2>1, <2>3 DEF BatchExhausted
<1>12. ASSUME NEW w \in Workers, RequeueFailed(w) PROVE Typed'
  BY <1>12 DEF RequeueFailed, MarkFailedSchedule, ReleaseDrain, NotifyAll
<1>13. ASSUME NEW d \in Drainers, CheckCanceled(d) PROVE Typed'
  BY <1>13, CheckCanceledTyped
<1>14. ASSUME NEW d \in Drainers, StartJob(d) PROVE Typed'
  BY <1>14 DEF StartJob
<1>15. ASSUME NEW d \in Drainers, FinishJob(d) PROVE Typed'
  BY <1>15 DEF FinishJob, Bump
<1>16. ASSUME NEW d \in Drainers, CountJob(d) PROVE Typed'
  BY <1>16 DEF CountJob, Bump
<1>17. ASSUME NEW s \in Stoppers, NEW m \in StopModes, StopCall(s, m) PROVE Typed'
  BY <1>17 DEF StopCall
<1>18. ASSUME NEW s \in Stoppers, StopCheck(s) PROVE Typed'
  BY <1>18 DEF StopCheck
<1>19. ASSUME NEW s \in Stoppers, SpuriousWakeup(s) PROVE Typed'
  BY <1>19 DEF SpuriousWakeup
<1>20. ASSUME NEW s \in Stoppers, StopTimeout(s) PROVE Typed'
  BY <1>20, StopTimeoutTyped
<1>21. ASSUME NEW s \in Stoppers, StopMark(s) PROVE Typed'
  BY <1>21 DEF StopMark, MarkQueued
<1>22. ASSUME NEW s \in Stoppers, StopTally(s) PROVE Typed'
  BY <1>22 DEF StopTally, Bump
<1>23. ASSUME NEW s \in Stoppers, StopErase(s) PROVE Typed'
  BY <1>23 DEF StopErase
<1>24. ASSUME NEW s \in Stoppers, StopClose(s) PROVE Typed'
  BY <1>24 DEF StopClose
<1>25. ASSUME NEW x \in Cancelers, NEW j \in Jobs, CancelCall(x, j) PROVE Typed'
  BY <1>25, CancelCallTyped
<1>26. ASSUME NEW x \in Cancelers, CancelExchange(x) PROVE Typed'
  BY <1>26, CancelExchangeTyped
<1>27. ASSUME NEW x \in Cancelers, CancelLoad(x) PROVE Typed'
  BY <1>27 DEF CancelLoad, Verdict
<1>28. ASSUME ExecutorStep PROVE Typed'
  BY <1>28 DEF ExecutorStep, Executor!Stop, Executor!Discard, Executor!Close
<1>29. CASE UNCHANGED vars
  BY <1>29 DEF vars
<1> QED
  BY <1>1, <1>2, <1>3, <1>4, <1>5, <1>6, <1>7, <1>8, <1>9, <1>10, <1>11, <1>12, <1>13, <1>14, <1>15, <1>16, <1>17, <1>18, <1>19, <1>20, <1>21, <1>22, <1>23, <1>24, <1>25, <1>26, <1>27, <1>28, <1>29
     DEF Next, PostNext, WorkerNext, PumpNext, StopNext, CancelNext, StopStep,
         ExecuteEntry

\* Every reachable state has the types of TypeOK.
THEOREM TypeCorrect == Spec => []TypeOK
<1>1. Init => Typed
  BY TypedInit
<1>2. Typed /\ [Next]_vars => Typed'
  BY TypedStep
<1>3. Typed => TypeOK
  BY DEF Typed
<1> QED
  BY <1>1, <1>2, <1>3, PTL DEF Spec

-----------------------------------------------------------------------------
(* The right to drain                                                        *)

\* No action but those below touches running_, the closures or the program
\* counters that TokenInv reads; what it reads is the tuple tokenVars.
tokenVars == <<running, closures, drainPc, clientPc>>

\* TokenInv depends on tokenVars only, and on drainPc only through Draining.
LEMMA TokenFrame ==
  ASSUME TokenInv, running' = running, closures' = closures,
         \A w \in Workers : Draining(w)' <=> Draining(w),
         \A c \in Clients : Scheduling(c)' <=> Scheduling(c)
  PROVE  TokenInv'
  BY DEF TokenInv, ClosureInv, WorkerInv, ClientInv

\* In a new queue nobody holds the right to drain and running_ is down.
LEMMA TokenInit == Init => TokenInv
  BY DEF Init, Executor!Init, TokenInv, ClosureInv, WorkerInv, ClientInv, Draining,
         Scheduling, Drainers

\* The step of a worker that gives the token up, or finds itself without a way
\* to pass it on, leaves nobody with it.
LEMMA TokenReleased ==
  ASSUME Typed, TokenInv, NEW w \in Workers, Draining(w),
         drainPc' = [drainPc EXCEPT ![w] = "idle"],
         closures' = closures, clientPc' = clientPc
  PROVE  TokenInv'
<1>1. drainPc \in [Drainers -> DrainPcs] /\ w \in Drainers
  BY DEF Typed, TypeOK, Drainers
<1>2. \A v \in Workers : ~Draining(v)'
  BY <1>1 DEF TokenInv, WorkerInv, Draining, Drainers
<1>3. \A c \in Clients : ~Scheduling(c)'
  BY DEF TokenInv, WorkerInv, Scheduling
<1>4. closures' = 0
  BY DEF TokenInv, WorkerInv
<1> QED
  BY <1>2, <1>3, <1>4 DEF TokenInv, ClosureInv, WorkerInv, ClientInv

\* A step inside the loop of DrainOnce, Pump or Flush keeps its thread a
\* drainer or not, and touches nothing else that TokenInv reads.
LEMMA TokenKept ==
  ASSUME Typed, TokenInv, NEW d \in Drainers, NEW p, p # "idle",
         drainPc[d] # "idle", drainPc' = [drainPc EXCEPT ![d] = p],
         running' = running, closures' = closures, clientPc' = clientPc
  PROVE  TokenInv'
<1>1. drainPc \in [Drainers -> DrainPcs]
  BY DEF Typed, TypeOK
<1>2. \A w \in Workers : Draining(w)' <=> Draining(w)
  BY <1>1 DEF Draining, Drainers
<1>3. \A c \in Clients : Scheduling(c)' <=> Scheduling(c)
  BY DEF Scheduling
<1> QED
  BY <1>2, <1>3, TokenFrame

\* The two steps in which Post takes charge of scheduling a drain, or relies on
\* the one that is under way.
LEMMA TokenPost ==
  ASSUME Typed, TokenInv, NEW c \in Clients, NEW j \in Jobs, PostAccepted(c, j)
  PROVE  TokenInv'
<1>1. /\ clientPc \in [Clients -> {"idle", "schedule", "failed", "return"}]
      /\ running \in BOOLEAN
  BY DEF Typed, TypeOK
<1>2. /\ clientPc[c] = "idle" /\ running'
      /\ closures' = closures /\ drainPc' = drainPc
      /\ clientPc' = [clientPc EXCEPT ![c] = IF ~running THEN "schedule" ELSE "return"]
  BY DEF PostAccepted, CanPost, NeedSchedule, drainVars, execVars
<1>3. CASE running
  <2>1. \A b \in Clients : Scheduling(b)' <=> Scheduling(b)
    BY <1>1, <1>2, <1>3 DEF Scheduling
  <2>2. \A w \in Workers : Draining(w)' <=> Draining(w)
    BY <1>2 DEF Draining
  <2>3. running' = running
    BY <1>1, <1>2, <1>3 DEF PostAccepted
  <2> QED
    BY <1>2, <2>1, <2>2, <2>3, TokenFrame
<1>4. CASE ~running
  <2>1. closures' = 0 /\ \A w \in Workers : ~Draining(w)'
    BY <1>2, <1>4 DEF TokenInv, ClosureInv, WorkerInv, Draining
  <2>2. \A b \in Clients : Scheduling(b)' => b = c
    BY <1>1, <1>2, <1>4 DEF TokenInv, ClientInv, Scheduling
  <2> QED
    BY <1>2, <2>1, <2>2 DEF TokenInv, ClosureInv, WorkerInv, ClientInv
<1> QED
  BY <1>3, <1>4

\* Every step preserves the token: it moves from a client to the executor, from
\* the executor to a worker, from a worker back to the executor, and is gone
\* when running_ falls.
LEMMA TokenStep == Typed /\ TokenInv /\ [Next]_vars => TokenInv'
<1> SUFFICES ASSUME Typed, TokenInv, [Next]_vars PROVE TokenInv'
  OBVIOUS
<1> USE DEF Draining, Scheduling
<1>0. /\ clientPc \in [Clients -> {"idle", "schedule", "failed", "return"}]
      /\ drainPc \in [Drainers -> DrainPcs]
      /\ Workers \subseteq Drainers /\ Pumpers \subseteq Drainers
      /\ closures \in Nat
  BY DEF Typed, TypeOK, Drainers
<1>1. ASSUME NEW c \in Clients, NEW j \in Jobs, PostAccepted(c, j) PROVE TokenInv'
  BY <1>1, TokenPost
<1>2. ASSUME NEW c \in Clients, PostSchedule(c) PROVE TokenInv'
  <2>1. /\ clientPc[c] = "schedule" /\ running' = running /\ drainPc' = drainPc
        /\ running /\ closures = 0 /\ \A w \in Workers : ~Draining(w)
        /\ \A b \in Clients : Scheduling(b) => b = c
    BY <1>2 DEF PostSchedule, TokenInv, ClientInv, queueVars, drainVars
  <2>2. CASE closures' = closures + 1 /\ clientPc' = [clientPc EXCEPT ![c] = "return"]
    BY <1>0, <2>1, <2>2 DEF TokenInv, ClosureInv, WorkerInv, ClientInv
  <2>3. CASE closures' = closures /\ clientPc' = [clientPc EXCEPT ![c] = "failed"]
    BY <1>0, <2>1, <2>3 DEF TokenInv, ClosureInv, WorkerInv, ClientInv
  <2> QED
    BY <1>2, <2>2, <2>3 DEF PostSchedule, Executor!Accept, Executor!Refuse, Executor!vars
<1>3. ASSUME NEW c \in Clients, PostScheduleFailed(c) PROVE TokenInv'
  <2>1. /\ clientPc[c] = "failed" /\ closures' = closures /\ drainPc' = drainPc
        /\ clientPc' = [clientPc EXCEPT ![c] = "idle"]
    BY <1>3 DEF PostScheduleFailed, drainVars, execVars
  <2> QED
    BY <1>0, <2>1 DEF TokenInv, ClosureInv, WorkerInv, ClientInv
<1>4. ASSUME NEW c \in Clients, PostReturn(c) PROVE TokenInv'
  BY <1>0, <1>4, TokenFrame DEF PostReturn, queueVars, drainVars, execVars
<1>5. ASSUME NEW w \in Workers, StartDrain(w) PROVE TokenInv'
  <2>1. /\ closures = 1 /\ closures' = 0 /\ running' = running /\ clientPc' = clientPc
        /\ drainPc' = [drainPc EXCEPT ![w] = "loop"]
    BY <1>0, <1>5 DEF StartDrain, Executor!Start, TokenInv, ClosureInv, queueVars,
       clientVars
  <2> QED
    BY <1>0, <2>1 DEF TokenInv, ClosureInv, WorkerInv, ClientInv
<1>6. ASSUME NEW p \in Pumpers, StartPump(p) \/ PumpEnd(p) PROVE TokenInv'
  <2>1. \A w \in Workers : drainPc'[w] = drainPc[w]
    BY <1>0, <1>6, ThreadAssumption DEF StartPump, PumpEnd
  <2>2. running' = running /\ closures' = closures /\ clientPc' = clientPc
    BY <1>6 DEF StartPump, PumpEnd, queueVars, clientVars, execVars
  <2> QED
    BY <2>1, <2>2, TokenFrame
<1>7. ASSUME NEW d \in Drainers, PopEntry(d) PROVE TokenInv'
  BY <1>7, TokenKept DEF PopEntry, clientVars, execVars
<1>8. ASSUME NEW w \in Workers, DrainEmpty(w) PROVE TokenInv'
  BY <1>8, TokenReleased DEF DrainEmpty, clientVars, execVars
<1>9. ASSUME NEW w \in Workers, BatchExhausted(w) PROVE TokenInv'
  <2>1. /\ drainPc[w] = "loop" /\ running' = running /\ clientPc' = clientPc
    BY <1>9 DEF BatchExhausted, queueVars, clientVars
  <2>2. CASE closures' = closures + 1 /\ drainPc' = [drainPc EXCEPT ![w] = "idle"]
    <3>1. running' /\ closures' = 1
      BY <2>1, <2>2 DEF TokenInv, WorkerInv
    <3>2. \A v \in Workers : ~Draining(v)'
      BY <1>0, <2>1, <2>2 DEF TokenInv, WorkerInv
    <3>3. \A c \in Clients : ~Scheduling(c)'
      BY <2>1 DEF TokenInv, WorkerInv
    <3> QED
      BY <3>1, <3>2, <3>3 DEF TokenInv, ClosureInv, WorkerInv, ClientInv
  <2>3. CASE closures' = closures /\ drainPc' = [drainPc EXCEPT ![w] = "failed"]
    BY <1>0, <2>1, <2>3, TokenKept
  <2> QED
    BY <1>9, <2>2, <2>3 DEF BatchExhausted, Executor!Accept, Executor!Refuse, Executor!vars
<1>10. ASSUME NEW w \in Workers, RequeueFailed(w) PROVE TokenInv'
  BY <1>10, TokenReleased DEF RequeueFailed, clientVars, execVars
<1>11. ASSUME NEW d \in Drainers, CheckCanceled(d) PROVE TokenInv'
  <2>1. /\ drainPc[d] = "check" /\ running' = running /\ closures' = closures
        /\ clientPc' = clientPc
        /\ \/ drainPc' = [drainPc EXCEPT ![d] = "loop"]
           \/ drainPc' = [drainPc EXCEPT ![d] = "start"]
    BY <1>11 DEF CheckCanceled, queueVars, clientVars, execVars
  <2> QED
    BY <2>1, TokenKept
<1>12. ASSUME NEW d \in Drainers, StartJob(d) PROVE TokenInv'
  BY <1>12, TokenKept DEF StartJob, queueVars, clientVars, execVars
<1>13. ASSUME NEW d \in Drainers, FinishJob(d) PROVE TokenInv'
  BY <1>13, TokenKept DEF FinishJob, queueVars, clientVars, execVars
<1>14. ASSUME NEW d \in Drainers, CountJob(d) PROVE TokenInv'
  BY <1>14, TokenKept DEF CountJob, queueVars, clientVars, execVars
<1>15. ASSUME ExecutorStep PROVE TokenInv'
  <2>1. /\ closures' \in {closures, 0}
        /\ running' = running /\ drainPc' = drainPc /\ clientPc' = clientPc
    BY <1>15 DEF ExecutorStep, Executor!Stop, Executor!Discard, Executor!Close, queueVars,
       drainVars, clientVars
  <2> QED
    BY <2>1 DEF TokenInv, ClosureInv, WorkerInv, ClientInv
<1>16. CASE UNCHANGED tokenVars
  BY <1>16, TokenFrame DEF tokenVars
<1>17. ASSUME NEW s \in Stoppers, StopNext(s) PROVE UNCHANGED tokenVars
  BY <1>17 DEF StopNext, StopCall, StopStep, StopCheck, StopMark, StopTally, StopErase,
     StopClose, StopTimeout, SpuriousWakeup, tokenVars, queueVars, clientVars, drainVars,
     execVars
<1>18. ASSUME NEW x \in Cancelers, CancelNext(x) PROVE UNCHANGED tokenVars
  BY <1>18 DEF CancelNext, CancelCall, CancelExchange, CancelLoad, tokenVars, queueVars,
     clientVars, drainVars, execVars
<1>19. ASSUME NEW c \in Clients, NEW j \in Jobs, PostRefused(c, j)
       PROVE UNCHANGED tokenVars
  BY <1>19 DEF PostRefused, tokenVars, queueVars, drainVars, execVars
<1>20. CASE UNCHANGED vars
  BY <1>20, <1>16 DEF vars, tokenVars, queueVars, clientVars, drainVars, execVars
<1> QED
  BY <1>1, <1>2, <1>3, <1>4, <1>5, <1>6, <1>7, <1>8, <1>9, <1>10, <1>11, <1>12, <1>13,
     <1>14, <1>15, <1>16, <1>17, <1>18, <1>19, <1>20
     DEF Next, PostNext, WorkerNext, PumpNext, ExecuteEntry, Drainers

\* At most one thread executes jobs of a queue at any time.
THEOREM SerialSafe == Spec => []SerialExecution
<1>1. Init => Typed /\ TokenInv
  BY TypedInit, TokenInit
<1>2. Typed /\ TokenInv /\ [Next]_vars => (Typed /\ TokenInv)'
  BY TypedStep, TokenStep
<1>3. Typed /\ TokenInv => SerialExecution
  <2> SUFFICES ASSUME Typed, TokenInv, NEW d \in Drainers, NEW e \in Drainers,
                      Busy(d), Busy(e)
               PROVE  d = e
    BY DEF SerialExecution
  <2>0. held \in [Drainers -> Jobs \cup {NoJob}] /\ HeldInv
    BY DEF Typed, TypeOK
  <2>1. Draining(d) /\ Draining(e)
    BY <2>0 DEF HeldInv, Busy, Draining
  <2>2. CASE Pumpers = {}
    BY <2>1, <2>2 DEF TokenInv, WorkerInv, Drainers
  <2>3. CASE Workers = {} /\ \A p, q \in Pumpers : p = q
    BY <2>3 DEF Drainers
  <2> QED
    BY <2>2, <2>3, HookAssumption
<1> QED
  BY <1>1, <1>2, <1>3, PTL DEF Spec

-----------------------------------------------------------------------------
(* No lost work                                                              *)

\* NoLostWork is inductive: an entry is pushed in the critical section that
\* makes sure of running_, running_ falls where the queue is seen empty or
\* where the queue becomes Stopped, and Stopped is final.
LEMMA NoLostWorkStep == NoLostWork /\ [Next]_vars => NoLostWork'
<1> SUFFICES ASSUME NoLostWork, [Next]_vars PROVE NoLostWork'
  OBVIOUS
<1> USE DEF NoLostWork, queueVars
<1>1. ASSUME NEW c \in Clients, PostNext(c) PROVE NoLostWork'
  BY <1>1 DEF PostNext, PostRefused, PostAccepted, PostSchedule, PostScheduleFailed,
     MarkFailedSchedule, PostReturn
<1>2. ASSUME NEW d \in Drainers, PopEntry(d) PROVE NoLostWork'
  BY <1>2 DEF PopEntry
<1>3. ASSUME NEW d \in Drainers, ExecuteEntry(d) PROVE NoLostWork'
  BY <1>3 DEF ExecuteEntry, CheckCanceled, StartJob, FinishJob, CountJob
<1>4. ASSUME NEW w \in Workers, WorkerNext(w) PROVE NoLostWork'
  BY <1>2, <1>3, <1>4 DEF WorkerNext, StartDrain, DrainEmpty, BatchExhausted,
     RequeueFailed, MarkFailedSchedule, Drainers
<1>5. ASSUME NEW p \in Pumpers, PumpNext(p) PROVE NoLostWork'
  BY <1>2, <1>3, <1>5 DEF PumpNext, StartPump, PumpEnd, Drainers
<1>6. ASSUME NEW s \in Stoppers, StopNext(s) PROVE NoLostWork'
  BY <1>6 DEF StopNext, StopCall, StopStep, StopCheck, StopMark, StopTally, StopErase,
     StopClose, StopTimeout, DropQueued, SpuriousWakeup
<1>7. ASSUME NEW x \in Cancelers, CancelNext(x) PROVE NoLostWork'
  BY <1>7 DEF CancelNext, CancelCall, CancelExchange, CancelLoad
<1>8. CASE ExecutorStep \/ UNCHANGED vars
  BY <1>8 DEF ExecutorStep, vars
<1> QED
  BY <1>1, <1>4, <1>5, <1>6, <1>7, <1>8 DEF Next

\* While a queue that is not stopped has work, somebody drains it or is about
\* to: no job is lost between the push and the drain that found nothing to do.
THEOREM NoLostWorkSafe == Spec => []NoLostWork
<1>1. Init => NoLostWork
  BY DEF Init, NoLostWork
<1> QED
  BY <1>1, NoLostWorkStep, PTL DEF Spec

-----------------------------------------------------------------------------
(* Stop(true)                                                                *)

\* A Stop that has begun has left the state Running; one that saw its condition
\* hold saw an empty queue that nobody drains.
StopInv ==
  \A s \in Stoppers :
    /\ stopPc[s] # "idle" => state # "Running"
    /\ stopPc[s] \in {"drained", "quiesced"} => queue = <<>> /\ ~running

\* A queue without test hooks: jobs are run by workers only.
NoHooks == Pumpers = {}

\* A queue that does not change, and a state that does not become Running
\* again, keep what the stoppers saw; a stopper moves only as given.
LEMMA StopFrame ==
  ASSUME StopInv,
         stopPc' = stopPc,
         state # "Running" => state' # "Running",
         queue = <<>> /\ state # "Running" => queue' = <<>>,
         ~running /\ state # "Running" => ~running'
  PROVE  StopInv'
  BY DEF StopInv

\* The same while stopCv_ is notified.
LEMMA StopNotified ==
  ASSUME StopInv, Typed,
         stopPc' = NotifyAll(stopPc),
         state # "Running" => state' # "Running",
         queue' = queue,
         ~running'
  PROVE  StopInv'
  BY DEF StopInv, NotifyAll, Typed, TypeOK

\* Every step keeps StopInv: a Stop that has begun has closed the queue, and once
\* a Stop has seen its condition hold the queue stays empty and undrained.
LEMMA StopStepInv == Typed /\ StopInv /\ [Next]_vars => StopInv'
<1> SUFFICES ASSUME Typed, StopInv, [Next]_vars PROVE StopInv'
  OBVIOUS
<1> USE DEF queueVars, stopVars
<1>0. stopPc \in [Stoppers -> StopPcs] /\ queue \in Seq(Jobs)
  BY DEF Typed, TypeOK
<1>1. ASSUME NEW c \in Clients, NEW j \in Jobs, PostRefused(c, j) \/ PostAccepted(c, j)
      PROVE StopInv'
  BY <1>1, StopFrame DEF PostRefused, PostAccepted
<1>2. ASSUME NEW c \in Clients, PostSchedule(c) \/ PostReturn(c) PROVE StopInv'
  BY <1>2, StopFrame DEF PostSchedule, PostReturn
<1>3. ASSUME NEW c \in Clients, PostScheduleFailed(c) PROVE StopInv'
  BY <1>3, StopNotified DEF PostScheduleFailed, MarkFailedSchedule, ReleaseDrain
<1>4. ASSUME NEW d \in Drainers, PopEntry(d) PROVE StopInv'
  BY <1>4, StopFrame DEF PopEntry
<1>5. ASSUME NEW d \in Drainers, ExecuteEntry(d) PROVE StopInv'
  BY <1>5, StopFrame DEF ExecuteEntry, CheckCanceled, StartJob, FinishJob, CountJob
<1>6. ASSUME NEW w \in Workers, StartDrain(w) \/ BatchExhausted(w) PROVE StopInv'
  BY <1>6, StopFrame DEF StartDrain, BatchExhausted
<1>7. ASSUME NEW w \in Workers, DrainEmpty(w) PROVE StopInv'
  BY <1>7, StopNotified DEF DrainEmpty, ReleaseDrain
<1>8. ASSUME NEW w \in Workers, RequeueFailed(w) PROVE StopInv'
  BY <1>8, StopNotified DEF RequeueFailed, MarkFailedSchedule, ReleaseDrain
<1>9. ASSUME NEW p \in Pumpers, StartPump(p) \/ PumpEnd(p) PROVE StopInv'
  BY <1>9, StopFrame DEF StartPump, PumpEnd
<1>10. ASSUME NEW s \in Stoppers, NEW m \in StopModes, StopCall(s, m) PROVE StopInv'
  BY <1>0, <1>10 DEF StopCall, StopInv
<1>11. ASSUME NEW s \in Stoppers, StopCheck(s) PROVE StopInv'
  BY <1>0, <1>11 DEF StopCheck, StopInv, Drained
<1>12. ASSUME NEW s \in Stoppers, SpuriousWakeup(s) PROVE StopInv'
  BY <1>0, <1>12 DEF SpuriousWakeup, StopInv
<1>13. ASSUME NEW s \in Stoppers, StopTimeout(s) PROVE StopInv'
  BY <1>0, <1>13 DEF StopTimeout, DropQueued, StopInv, Drained
<1>14. ASSUME NEW s \in Stoppers, StopMark(s) \/ StopTally(s) PROVE StopInv'
  BY <1>0, <1>14 DEF StopMark, StopTally, StopInv
<1>15. ASSUME NEW s \in Stoppers, StopErase(s) PROVE StopInv'
  BY <1>0, <1>15 DEF StopErase, StopInv
<1>16. ASSUME NEW s \in Stoppers, StopClose(s) PROVE StopInv'
  BY <1>0, <1>16 DEF StopClose, StopInv
<1>17. ASSUME NEW x \in Cancelers, CancelNext(x) PROVE StopInv'
  BY <1>17, StopFrame DEF CancelNext, CancelCall, CancelExchange, CancelLoad
<1>18. CASE ExecutorStep \/ UNCHANGED vars
  BY <1>18, StopFrame DEF ExecutorStep, vars
<1> QED
  BY <1>1, <1>2, <1>3, <1>4, <1>5, <1>6, <1>7, <1>8, <1>9, <1>10, <1>11, <1>12, <1>13,
     <1>14, <1>15, <1>16, <1>17, <1>18
     DEF Next, PostNext, WorkerNext, PumpNext, StopNext, StopStep, CancelNext, Drainers

\* Once Stop(true) has seen its condition hold, no job is queued or in a
\* worker's hands, then or later.
THEOREM DrainedSafe == NoHooks /\ Spec => []DrainedStaysDrained
<1> SUFFICES ASSUME NoHooks PROVE Spec => []DrainedStaysDrained
  OBVIOUS
<1>1. Init => Typed /\ TokenInv /\ StopInv
  BY TypedInit, TokenInit DEF Init, StopInv
<1>2. Typed /\ TokenInv /\ StopInv /\ [Next]_vars => (Typed /\ TokenInv /\ StopInv)'
  BY TypedStep, TokenStep, StopStepInv
<1>3. Typed /\ TokenInv /\ StopInv => DrainedStaysDrained
  <2> SUFFICES ASSUME Typed, TokenInv, StopInv, NEW s \in Stoppers,
                      stopPc[s] \in {"drained", "quiesced"}
               PROVE  queue = <<>> /\ \A d \in Drainers : ~Busy(d)
    BY DEF DrainedStaysDrained
  <2>1. queue = <<>> /\ ~running
    BY DEF StopInv
  <2>2. held \in [Drainers -> Jobs \cup {NoJob}] /\ HeldInv
    BY DEF Typed, TypeOK
  <2>3. \A d \in Drainers : ~Draining(d)
    BY <2>1 DEF TokenInv, WorkerInv, NoHooks, Drainers
  <2> QED
    BY <2>1, <2>2, <2>3 DEF HeldInv, Busy, Draining
<1> QED
  BY <1>1, <1>2, <1>3, PTL DEF Spec

-----------------------------------------------------------------------------
(* Invalid handles                                                           *)

\* A client that is to schedule a drain holds a job that nobody has executed.
ScheduledInv ==
  \A c \in Clients : Scheduling(c) =>
    posting[c] \in Jobs /\ jobState[posting[c]] \in {"Queued", "Canceled"}

\* A job whose caller holds an invalid handle was refused before its entry was
\* made, or its failed schedule has stopped the queue for good.
RefusedInv ==
  \A j \in Jobs : returned[j] = "invalid" =>
    \/ jobState[j] = "Fresh"
    \/ /\ jobState[j] \in {"Queued", "Canceled"}
       /\ state = "Stopped"
       /\ ~running

InvalidInv == ScheduledInv /\ RefusedInv

\* What both parts need of a step that neither posts nor schedules: entries that
\* no worker holds can only become Canceled, a stopped queue stays stopped.
LEMMA InvalidFrame ==
  ASSUME Typed, InvalidInv,
         clientPc' = clientPc, posting' = posting, returned' = returned,
         state = "Stopped" => state' = "Stopped",
         ~running => ~running',
         \A j \in Jobs : \/ jobState'[j] = jobState[j]
                         \/ jobState[j] # "Fresh" /\ jobState'[j] = "Canceled"
  PROVE  InvalidInv'
  BY DEF InvalidInv, ScheduledInv, RefusedInv, Scheduling

\* The entries that the queue or a worker owns have been accepted.
OwnedInv ==
  /\ \A i \in 1..Len(queue) : jobState[queue[i]] # "Fresh"
  /\ \A d \in Drainers : held[d] # NoJob => jobState[held[d]] # "Fresh"

\* A worker that holds an entry keeps every client from scheduling and keeps
\* running_ up, so that it may change the entry's State.
LEMMA InvalidExecute ==
  ASSUME Typed, TokenInv, InvalidInv, NoHooks, NEW d \in Drainers,
         drainPc[d] # "idle",
         clientPc' = clientPc, posting' = posting, returned' = returned,
         state' = state, running' = running,
         \A j \in Jobs : j # held[d] => jobState'[j] = jobState[j],
         returned[held[d]] # "invalid" \/ jobState[held[d]] # "Fresh"
  PROVE  InvalidInv'
<1>1. running /\ \A c \in Clients : ~Scheduling(c)
  BY DEF TokenInv, WorkerInv, Draining, NoHooks, Drainers
<1>2. ScheduledInv'
  BY <1>1 DEF ScheduledInv, Scheduling
<1>3. RefusedInv'
  BY <1>1 DEF InvalidInv, RefusedInv
<1> QED
  BY <1>2, <1>3 DEF InvalidInv

\* Only Post makes an entry, and nothing makes it Fresh again.
LEMMA OwnedFrame ==
  ASSUME Typed, OwnedInv, queue' = queue, held' = held,
         \A j \in Jobs : jobState[j] # "Fresh" => jobState'[j] # "Fresh"
  PROVE  OwnedInv'
<1>1. queue \in Seq(Jobs) /\ held \in [Drainers -> Jobs \cup {NoJob}]
  BY DEF Typed, TypeOK
<1>2. \A i \in 1..Len(queue) : queue[i] \in Jobs
  BY <1>1
<1> QED
  BY <1>1, <1>2 DEF OwnedInv

\* Every step keeps OwnedInv: an entry in the queue or in a worker's hands has
\* been accepted.
LEMMA OwnedStep == Typed /\ OwnedInv /\ [Next]_vars => OwnedInv'
<1> SUFFICES ASSUME Typed, OwnedInv, [Next]_vars PROVE OwnedInv'
  OBVIOUS
<1> USE DEF queueVars, entryVars, drainVars
<1>0. /\ queue \in Seq(Jobs)
      /\ held \in [Drainers -> Jobs \cup {NoJob}]
      /\ jobState \in [Jobs -> {"Fresh", "Queued", "Executing", "Done", "Failed",
                                "Canceled"}]
  BY DEF Typed, TypeOK
<1>1. ASSUME NEW c \in Clients, NEW j \in Jobs, PostAccepted(c, j) PROVE OwnedInv'
  <2>1. /\ queue' = Append(queue, j) /\ held' = held
        /\ jobState' = [jobState EXCEPT ![j] = "Queued"]
    BY <1>1 DEF PostAccepted
  <2>2. \A d \in Drainers : held'[d] # NoJob => jobState'[held'[d]] # "Fresh"
    BY <1>0, <2>1 DEF OwnedInv
  <2>3. \A i \in 1..Len(queue') : jobState'[queue'[i]] # "Fresh"
    <3> SUFFICES ASSUME NEW i \in 1..Len(queue') PROVE jobState'[queue'[i]] # "Fresh"
      OBVIOUS
    <3>1. CASE i = Len(queue) + 1
      BY <1>0, <2>1, <3>1
    <3>2. CASE i \in 1..Len(queue)
      <4>1. queue'[i] = queue[i] /\ queue[i] \in Jobs
        BY <1>0, <2>1, <3>2
      <4> QED
        BY <1>0, <2>1, <3>2, <4>1 DEF OwnedInv
    <3> QED
      BY <1>0, <2>1, <3>1, <3>2
  <2> QED
    BY <2>2, <2>3 DEF OwnedInv
<1>2. ASSUME NEW c \in Clients, PostSchedule(c) \/ PostReturn(c) PROVE OwnedInv'
  BY <1>2, OwnedFrame DEF PostSchedule, PostReturn
<1>3. ASSUME NEW c \in Clients, PostScheduleFailed(c) PROVE OwnedInv'
  BY <1>3, OwnedFrame DEF PostScheduleFailed, MarkFailedSchedule
<1>4. ASSUME NEW c \in Clients, NEW j \in Jobs, PostRefused(c, j) PROVE OwnedInv'
  BY <1>4, OwnedFrame DEF PostRefused
<1>5. ASSUME NEW d \in Drainers, PopEntry(d) PROVE OwnedInv'
  <2>1. /\ queue # <<>> /\ queue' = Tail(queue) /\ jobState' = jobState
        /\ held' = [held EXCEPT ![d] = Head(queue)]
    BY <1>5 DEF PopEntry
  <2>2. Head(queue) = queue[1] /\ 1 \in 1..Len(queue)
    BY <1>0, <2>1
  <2>3. /\ Len(queue') = Len(queue) - 1
        /\ \A i \in 1..Len(queue') : queue'[i] = queue[i + 1] /\ i + 1 \in 1..Len(queue)
    BY <1>0, <2>1
  <2> QED
    BY <1>0, <2>1, <2>2, <2>3 DEF OwnedInv
<1>6. ASSUME NEW d \in Drainers, CheckCanceled(d) PROVE OwnedInv'
  <2>1. held[d] \in Jobs
    BY <1>6 DEF CheckCanceled, Typed, HeldInv
  <2>2. /\ queue' = queue
        /\ held' \in {held, [held EXCEPT ![d] = NoJob]}
        /\ jobState' \in {jobState, [jobState EXCEPT ![held[d]] = "Canceled"]}
    BY <1>6 DEF CheckCanceled
  <2>3. \A j \in Jobs : jobState[j] # "Fresh" => jobState'[j] # "Fresh"
    BY <1>0, <2>1, <2>2
  <2>4. \A i \in 1..Len(queue) : queue[i] \in Jobs
    BY <1>0
  <2> QED
    BY <1>0, <2>2, <2>3, <2>4 DEF OwnedInv
<1>7. ASSUME NEW d \in Drainers, StartJob(d) \/ FinishJob(d) PROVE OwnedInv'
  <2>1. /\ queue' = queue /\ held' = held
        /\ \E f \in {"Executing"} \cup Outcomes : jobState' = [jobState EXCEPT ![held[d]] = f]
    BY <1>7 DEF StartJob, FinishJob
  <2>2. \A j \in Jobs : jobState[j] # "Fresh" => jobState'[j] # "Fresh"
    BY <1>0, <2>1, OptionAssumption
  <2> QED
    BY <2>1, <2>2, OwnedFrame
<1>8. ASSUME NEW d \in Drainers, CountJob(d) PROVE OwnedInv'
  <2>1. queue' = queue /\ jobState' = jobState /\ held' = [held EXCEPT ![d] = NoJob]
    BY <1>8 DEF CountJob
  <2> QED
    BY <1>0, <2>1 DEF OwnedInv
<1>9. ASSUME NEW w \in Workers, StartDrain(w) \/ BatchExhausted(w) \/ DrainEmpty(w)
      PROVE OwnedInv'
  BY <1>9, OwnedFrame DEF StartDrain, BatchExhausted, DrainEmpty
<1>10. ASSUME NEW w \in Workers, RequeueFailed(w) PROVE OwnedInv'
  BY <1>10, OwnedFrame DEF RequeueFailed, MarkFailedSchedule
<1>11. ASSUME NEW p \in Pumpers, StartPump(p) \/ PumpEnd(p) PROVE OwnedInv'
  BY <1>11, OwnedFrame DEF StartPump, PumpEnd
<1>12. ASSUME NEW s \in Stoppers, StopNext(s) PROVE OwnedInv'
  <2>1. CASE queue' = queue /\ jobState' = jobState
    BY <1>12, <2>1, OwnedFrame DEF StopNext, StopCall, StopStep, StopCheck, StopMark,
       StopTally, StopErase, StopClose, StopTimeout, SpuriousWakeup
  <2>2. CASE jobState' \in {jobState, MarkQueued(jobState)} /\ queue' \in {queue, <<>>}
             /\ held' = held
    <3>1. \A j \in Jobs : jobState[j] # "Fresh" => jobState'[j] # "Fresh"
      BY <1>0, <2>2 DEF MarkQueued
    <3>2. \A i \in 1..Len(queue) : queue[i] \in Jobs
      BY <1>0
    <3> QED
      BY <1>0, <2>2, <3>1, <3>2 DEF OwnedInv
  <2> QED
    BY <1>12, <2>1, <2>2 DEF StopNext, StopCall, StopStep, StopCheck, StopMark,
       StopTally, StopErase, StopClose, StopTimeout, DropQueued, SpuriousWakeup
<1>13. ASSUME NEW x \in Cancelers, CancelNext(x) PROVE OwnedInv'
  BY <1>13, OwnedFrame DEF CancelNext, CancelCall, CancelExchange, CancelLoad
<1>14. CASE ExecutorStep \/ UNCHANGED vars
  BY <1>14, OwnedFrame DEF ExecutorStep, vars
<1> QED
  BY <1>1, <1>2, <1>3, <1>4, <1>5, <1>6, <1>7, <1>8, <1>9, <1>10, <1>11, <1>12, <1>13,
     <1>14
     DEF Next, PostNext, WorkerNext, PumpNext, ExecuteEntry, Drainers

\* Stop's loop over queue_ marks accepted jobs only.
LEMMA MarkOwned ==
  ASSUME Typed, OwnedInv, NEW j \in Jobs
  PROVE  \/ MarkQueued(jobState)[j] = jobState[j]
         \/ jobState[j] # "Fresh" /\ MarkQueued(jobState)[j] = "Canceled"
<1>1. queue \in Seq(Jobs)
  BY DEF Typed, TypeOK
<1>2. j \in ToSet(queue) => jobState[j] # "Fresh"
  BY <1>1 DEF OwnedInv, ToSet
<1> QED
  BY <1>2 DEF MarkQueued

\* No step executes a job whose Post returned an invalid handle.
LEMMA InvalidStep ==
  ASSUME NoHooks, Typed, TokenInv, OwnedInv, InvalidInv, [Next]_vars
  PROVE  InvalidInv'
<1> USE DEF queueVars, entryVars, drainVars, clientVars
<1>0. /\ queue \in Seq(Jobs)
      /\ held \in [Drainers -> Jobs \cup {NoJob}]
      /\ jobState \in [Jobs -> {"Fresh", "Queued", "Executing", "Done", "Failed",
                                "Canceled"}]
      /\ clientPc \in [Clients -> {"idle", "schedule", "failed", "return"}]
      /\ posting \in [Clients -> Jobs \cup {NoJob}]
      /\ returned \in [Jobs -> {"no", "valid", "expired", "invalid"}]
  BY DEF Typed, TypeOK
<1>1. ASSUME NEW c \in Clients, NEW j \in Jobs, PostRefused(c, j) PROVE InvalidInv'
  BY <1>0, <1>1 DEF PostRefused, CanPost, InvalidInv, ScheduledInv, RefusedInv, Scheduling
<1>2. ASSUME NEW c \in Clients, NEW j \in Jobs, PostAccepted(c, j) PROVE InvalidInv'
  <2>1. /\ returned[j] = "no" /\ state = "Running" /\ state' = state
        /\ returned' = returned
        /\ jobState' = [jobState EXCEPT ![j] = "Queued"]
        /\ posting' = [posting EXCEPT ![c] = j]
        /\ \A b \in Clients : b # c => clientPc'[b] = clientPc[b]
    BY <1>0, <1>2 DEF PostAccepted, CanPost
  <2>2. ScheduledInv'
    <3> SUFFICES ASSUME NEW b \in Clients, Scheduling(b)'
                 PROVE  posting'[b] \in Jobs /\ jobState'[posting'[b]] \in {"Queued", "Canceled"}
      BY DEF ScheduledInv
    <3>1. CASE b = c
      BY <1>0, <2>1, <3>1
    <3>2. CASE b # c
      BY <1>0, <2>1, <3>2 DEF InvalidInv, ScheduledInv, Scheduling
    <3> QED
      BY <3>1, <3>2
  <2>3. RefusedInv'
    BY <1>0, <2>1 DEF InvalidInv, RefusedInv
  <2> QED
    BY <2>2, <2>3 DEF InvalidInv
<1>3. ASSUME NEW c \in Clients, PostSchedule(c) PROVE InvalidInv'
  <2>1. /\ clientPc[c] = "schedule" /\ UNCHANGED <<posting, returned, jobState, state, running>>
        /\ \/ clientPc' = [clientPc EXCEPT ![c] = "return"]
           \/ clientPc' = [clientPc EXCEPT ![c] = "failed"]
    BY <1>3 DEF PostSchedule
  <2> QED
    BY <1>0, <2>1 DEF InvalidInv, ScheduledInv, RefusedInv, Scheduling
<1>4. ASSUME NEW c \in Clients, PostScheduleFailed(c) PROVE InvalidInv'
  <2>1. /\ clientPc[c] = "failed" /\ jobState' = jobState
        /\ state' = "Stopped" /\ ~running'
        /\ returned' = [returned EXCEPT ![posting[c]] = "invalid"]
        /\ clientPc' = [clientPc EXCEPT ![c] = "idle"]
        /\ posting' = [posting EXCEPT ![c] = NoJob]
    BY <1>4 DEF PostScheduleFailed, MarkFailedSchedule, ReleaseDrain
  <2>2. posting[c] \in Jobs /\ jobState[posting[c]] \in {"Queued", "Canceled"}
    BY <2>1 DEF InvalidInv, ScheduledInv, Scheduling
  <2>3. \A b \in Clients : ~Scheduling(b)'
    BY <1>0, <2>1 DEF TokenInv, ClientInv, Scheduling
  <2>4. RefusedInv'
    BY <1>0, <2>1, <2>2 DEF InvalidInv, RefusedInv
  <2> QED
    BY <2>3, <2>4 DEF InvalidInv, ScheduledInv
<1>5. ASSUME NEW c \in Clients, PostReturn(c) PROVE InvalidInv'
  <2>1. /\ UNCHANGED <<jobState, state, running>>
        /\ \E r \in {"valid", "expired"} : returned' = [returned EXCEPT ![posting[c]] = r]
        /\ clientPc' = [clientPc EXCEPT ![c] = "idle"]
        /\ posting' = [posting EXCEPT ![c] = NoJob]
    BY <1>5 DEF PostReturn
  <2>2. ScheduledInv'
    BY <1>0, <2>1 DEF InvalidInv, ScheduledInv, Scheduling
  <2>3. RefusedInv'
    BY <1>0, <2>1 DEF InvalidInv, RefusedInv
  <2> QED
    BY <2>2, <2>3 DEF InvalidInv
<1>6. ASSUME NEW d \in Drainers, CheckCanceled(d) PROVE InvalidInv'
  <2>1. drainPc[d] = "check" /\ UNCHANGED <<clientPc, posting, returned, state, running>>
        /\ jobState' \in {jobState, [jobState EXCEPT ![held[d]] = "Canceled"]}
    BY <1>6 DEF CheckCanceled
  <2>2. held[d] \in Jobs
    BY <2>1 DEF Typed, HeldInv
  <2> QED
    BY <1>0, <2>1, <2>2, InvalidExecute, NoJobAssumption DEF OwnedInv
<1>7. ASSUME NEW d \in Drainers, StartJob(d) \/ FinishJob(d) PROVE InvalidInv'
  <2>1. /\ drainPc[d] # "idle" /\ held[d] \in Jobs
        /\ UNCHANGED <<clientPc, posting, returned, state, running>>
        /\ \E f \in {"Executing"} \cup Outcomes : jobState' = [jobState EXCEPT ![held[d]] = f]
    BY <1>7 DEF StartJob, FinishJob, Typed, HeldInv
  <2> QED
    BY <1>0, <2>1, InvalidExecute, NoJobAssumption DEF OwnedInv
<1>8. ASSUME NEW d \in Drainers, PopEntry(d) \/ CountJob(d) PROVE InvalidInv'
  BY <1>8, InvalidFrame DEF PopEntry, CountJob
<1>9. ASSUME NEW w \in Workers,
             StartDrain(w) \/ BatchExhausted(w) \/ DrainEmpty(w) \/ RequeueFailed(w)
      PROVE InvalidInv'
  BY <1>9, InvalidFrame DEF StartDrain, BatchExhausted, DrainEmpty, RequeueFailed,
     ReleaseDrain, MarkFailedSchedule
<1>10. ASSUME NEW s \in Stoppers, StopNext(s) PROVE InvalidInv'
  <2>1. /\ UNCHANGED <<clientPc, posting, returned, running>>
        /\ state = "Stopped" => state' = "Stopped"
        /\ jobState' \in {jobState, MarkQueued(jobState)}
    BY <1>10 DEF StopNext, StopCall, StopStep, StopCheck, StopMark, StopTally, StopErase,
       StopClose, StopTimeout, DropQueued, SpuriousWakeup
  <2>2. \A j \in Jobs : \/ jobState'[j] = jobState[j]
                        \/ jobState[j] # "Fresh" /\ jobState'[j] = "Canceled"
    BY <2>1, MarkOwned
  <2> QED
    BY <2>1, <2>2, InvalidFrame
<1>11. ASSUME NEW x \in Cancelers, CancelNext(x) PROVE InvalidInv'
  BY <1>11, InvalidFrame DEF CancelNext, CancelCall, CancelExchange, CancelLoad
<1>12. CASE ExecutorStep \/ UNCHANGED vars
  BY <1>12, InvalidFrame DEF ExecutorStep, vars
<1> QED
  BY <1>1, <1>2, <1>3, <1>4, <1>5, <1>6, <1>7, <1>8, <1>9, <1>10, <1>11, <1>12
     DEF Next, PostNext, WorkerNext, PumpNext, ExecuteEntry, Drainers, NoHooks

\* A caller that was told its job was refused never sees it run.
THEOREM InvalidHandleSafe == NoHooks /\ Spec => []InvalidHandleNeverRuns
<1> SUFFICES ASSUME NoHooks PROVE Spec => []InvalidHandleNeverRuns
  OBVIOUS
<1> DEFINE Inv == Typed /\ TokenInv /\ OwnedInv /\ InvalidInv
<1>1. Init => Inv
  <2> SUFFICES ASSUME Init PROVE OwnedInv /\ InvalidInv
    BY TypedInit, TokenInit
  <2> QED
    BY DEF Init, OwnedInv, InvalidInv, ScheduledInv, RefusedInv, Scheduling
<1>2. Inv /\ [Next]_vars => Inv'
  BY TypedStep, TokenStep, OwnedStep, InvalidStep
<1>3. Inv => InvalidHandleNeverRuns
  BY DEF InvalidInv, RefusedInv, InvalidHandleNeverRuns
<1> QED
  BY <1>1, <1>2, <1>3, PTL DEF Spec
=============================================================================
