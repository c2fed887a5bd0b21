----------------------------- MODULE TimerProofs -----------------------------
(***************************************************************************)
(* Theorems about the timer for every number of entries and targets, every *)
(* tick and every set of delays and periods.                               *)
(***************************************************************************)
EXTENDS Timer, FiniteSetTheorems, WellFoundedInduction, TLAPS

-----------------------------------------------------------------------------
(* Keys and times *)

\* The smallest key of a non-empty set of keys.
LEMMA MinOfNaturals ==
  ASSUME NEW S, S \subseteq Nat, S # {}
  PROVE  Min(S) \in S /\ \A k \in S : Min(S) <= k
<1>1. PICK m \in S : \A k \in S : <<k, m>> \notin OpToRel(<, Nat)
  BY NatLessThanWellFounded, WFMin
<1>2. \A k \in S : ~(k < m)
  BY <1>1, Zenon DEF OpToRel
<1>3. \A k \in S : m <= k
  BY <1>2
<1> QED
  BY <1>3 DEF Min

\* There are m numbers from 1 to m.
LEMMA IntervalSize ==
  ASSUME NEW m \in Nat
  PROVE  Cardinality(1 .. m) = m
<1>1. 1 \in Int /\ m \in Int
  OBVIOUS
<1>2. Cardinality(1 .. m) = IF 1 > m THEN 0 ELSE m - 1 + 1
  BY ONLY <1>1, FS_Interval
<1> QED
  BY <1>2

\* Horizon is a natural number, and no argument reaches past it.
LEMMA HorizonBounds ==
  /\ Horizon \in Nat
  /\ Max(Spans) \in Nat
  /\ \A d \in Spans : d \in Nat /\ MaxTime + d <= Horizon
<1>1. Max(Spans) \in Spans /\ \A d \in Spans : Max(Spans) >= d
  BY TimeAssumption DEF Max
<1>2. Spans \subseteq Nat
  BY TimeAssumption DEF Spans
<1>3. MaxTime \in Nat /\ Max(Spans) \in Nat
  BY <1>1, <1>2, TimeAssumption
<1>4. \A d \in Spans : d \in Nat /\ MaxTime + d <= MaxTime + Max(Spans)
  BY <1>1, <1>2, <1>3
<1> QED
  BY <1>3, <1>4 DEF Horizon

\* There is a key for every time.
LEMMA KeyOfTime ==
  ASSUME NEW t \in Int
  PROVE  /\ KeySpace \in Nat \ {0}
         /\ BucketOf(t) \in Keys
<1>1. KeySpace \in Nat \ {0}
  BY HorizonBounds, TimeAssumption DEF KeySpace
<1>2. t \div Tick \in Int
  BY TimeAssumption
<1>3. \A x \in Int : x % KeySpace \in 0 .. KeySpace - 1
  BY <1>1
<1> QED
  BY <1>1, <1>2, <1>3 DEF BucketOf, Keys

\* Keys are natural numbers, and the bucket of a key begins at a time.
LEMMA TimeOfKey == Keys \subseteq Nat /\ \A k \in Keys : BucketTime(k) \in Int
<1>1. KeySpace \in Nat \ {0} /\ Tick \in Int
  BY HorizonBounds, TimeAssumption DEF KeySpace
<1>2. Keys \subseteq Nat
  BY <1>1 DEF Keys
<1>3. \A k \in Nat : (IF k < KeySpace \div 2 THEN k ELSE k - KeySpace) \in Int
  BY <1>1
<1>4. \A x \in Int : x * Tick \in Int
  BY <1>1
<1> QED
  BY <1>2, <1>3, <1>4 DEF BucketTime

\* A key cast back gives the beginning of the bucket: no time that the timer
\* meets, before the epoch of the clock or after it, is a tick or more later.
LEMMA BucketHoldsTime ==
  ASSUME NEW t \in -Horizon .. Horizon + Tick - 1
  PROVE  t - BucketTime(BucketOf(t)) \in 0 .. Tick - 1
<1> DEFINE n == t \div Tick
           half == Horizon + Tick
<1>0. /\ Tick \in Nat \ {0} /\ Horizon \in Nat /\ t \in Int /\ n \in Int
      /\ KeySpace = 2 * half /\ half \in Nat \ {0}
  BY HorizonBounds, TimeAssumption DEF KeySpace
<1>1. t = Tick * n + (t % Tick) /\ t % Tick \in 0 .. Tick - 1
  BY <1>0
<1>2. -half <= n /\ n < half
  BY <1>0, <1>1
<1>3. KeySpace \div 2 = half
  BY <1>0
<1> HIDE DEF n, half
<1>4. CASE n >= 0
  <2>1. n % KeySpace = n
    BY <1>0, <1>2, <1>4
  <2>2. BucketTime(BucketOf(t)) = n * Tick
    BY <1>2, <1>3, <2>1 DEF BucketTime, BucketOf, n
  <2> QED
    BY <1>0, <1>1, <2>2
<1>5. CASE n < 0
  <2>1. n % KeySpace = n + KeySpace
    BY <1>0, <1>2, <1>5
  <2>2. BucketTime(BucketOf(t)) = (n + KeySpace - KeySpace) * Tick
    BY <1>0, <1>2, <1>3, <2>1 DEF BucketTime, BucketOf, n
  <2>3. n + KeySpace - KeySpace = n
    BY <1>0
  <2> QED
    BY <1>0, <1>1, <2>2, <2>3
<1> QED
  BY <1>0, <1>4, <1>5

-----------------------------------------------------------------------------
(* Types *)

InLoop == watcherPc \in {"check", "pause", "dispatch", "rearm", "insert"}

\* Where the owner and the watcher are: the watcher exists once it was started,
\* has a list of entries while it is in the loop over one, and waits for, or
\* takes, a bucket that is occupied and, when it takes it, due.
ControlInv ==
  /\ stopping <=> ownerPc # "started"
  /\ watcherPc = "none" <=> ownerPc = "new"
  /\ watcherPc = "exited" => stopping
  /\ ownerPc = "stopped" => watcherPc = "exited" /\ occupied = {}
  /\ watcherPc \in {"look", "until", "dozing", "take"} => due \in occupied
  /\ watcherPc = "take" => now >= BucketTime(due)
  /\ InLoop => pos \in 1 .. Len(fired)
  /\ ~InLoop => fired = <<>> /\ pos = 0

\* What handles and the loop know of repeating entries.
RepeatInv ==
  /\ paused \subseteq Repeats
  /\ watcherPc = "insert" => Current \in Repeats
  /\ watcherPc = "rearm" => Current \in Repeats \/ Current \in handed
  /\ \A e \in Entries : plan[e].period \in Periods \cup {0}

Typed == TypeOK /\ ControlInv /\ RepeatInv

\* The timer before Start.
LEMMA TypedInit == Init => Typed
<1> SUFFICES ASSUME Init PROVE Typed
  OBVIOUS
<1>1. NoPlan \in Plans
  BY TargetAssumption DEF NoPlan, Plans, Modes
<1>2. 0 \in Keys
  BY KeyOfTime DEF Keys
<1>3. /\ fired \in Seq(Entries) /\ Len(fired) = 0
      /\ \A k \in Keys : buckets[k] \in Seq(Entries)
  BY DEF Init
<1>4. TypeOK
  BY <1>1, <1>2, <1>3, TimeAssumption DEF Init, TypeOK, WatcherPcs
<1> QED
  BY <1>4 DEF Init, Typed, ControlInv, RepeatInv, InLoop, NoPlan

\* Insert appends the entry to the bucket of its time, which is then occupied.
LEMMA InsertTyped ==
  ASSUME TypeOK, NEW e \in Entries, NEW t \in Int, Insert(e, t)
  PROVE  /\ buckets' \in [Keys -> Seq(Entries)]
         /\ buckets' = [buckets EXCEPT ![BucketOf(t)] = Append(@, e)]
         /\ occupied' = {k \in Keys : buckets'[k] # <<>>}
         /\ occupied' = occupied \cup {BucketOf(t)}
         /\ BucketOf(t) \in Keys
<1>1. /\ buckets \in [Keys -> Seq(Entries)] /\ BucketOf(t) \in Keys
      /\ occupied = {k \in Keys : buckets[k] # <<>>}
  BY KeyOfTime DEF TypeOK
<1>2. /\ buckets' = [buckets EXCEPT ![BucketOf(t)] = Append(@, e)]
      /\ occupied' = occupied \cup {BucketOf(t)}
  BY DEF Insert, File
<1>3. /\ Append(buckets[BucketOf(t)], e) \in Seq(Entries)
      /\ Append(buckets[BucketOf(t)], e) # <<>>
  BY <1>1
<1> QED
  BY <1>1, <1>2, <1>3

\* NextEntry stays in the list while there is another entry in it.
LEMMA NextEntryTyped ==
  ASSUME Typed, InLoop, NextEntry
  PROVE  /\ watcherPc' \in {"check", "peek"}
         /\ fired' \in Seq(Entries) /\ pos' \in 0 .. Len(fired')
         /\ InLoop' => pos' \in 1 .. Len(fired')
         /\ ~InLoop' => fired' = <<>> /\ pos' = 0
         /\ \/ watcherPc' = "check" /\ fired' = fired /\ pos' = pos + 1
            \/ watcherPc' = "peek" /\ fired' = <<>> /\ pos' = 0
<1>1. fired \in Seq(Entries) /\ Len(fired) \in Nat /\ pos \in 1 .. Len(fired)
  BY DEF Typed, TypeOK, ControlInv
<1>2. CASE pos < Len(fired)
  BY <1>1, <1>2 DEF NextEntry, InLoop
<1>3. CASE ~(pos < Len(fired))
  <2>1. fired' = <<>> /\ pos' = 0 /\ watcherPc' = "peek"
    BY <1>3 DEF NextEntry
  <2>2. fired' \in Seq(Entries) /\ Len(fired') = 0
    BY <2>1
  <2> QED
    BY <2>1, <2>2 DEF InLoop
<1> QED
  BY <1>2, <1>3

\* Every step keeps the types.
LEMMA TypedStep == Typed /\ [Next]_vars => Typed'
<1> SUFFICES ASSUME Typed, [Next]_vars PROVE Typed'
  OBVIOUS
<1> USE DEF timerVars, entryVars, watcherVars
<1>0. /\ Typed /\ TypeOK /\ ControlInv /\ RepeatInv
      /\ plan \in [Entries -> Plans] /\ fired \in Seq(Entries)
      /\ now \in 0 .. MaxTime /\ MaxTime \in Nat /\ Len(fired) \in Nat
      /\ watcherPc \in WatcherPcs
  BY TimeAssumption DEF Typed, TypeOK
<1>1. ASSUME InLoop PROVE pos \in 1 .. Len(fired) /\ Current \in Entries
  BY <1>0, <1>1 DEF ControlInv, Current
<1>2. ASSUME NEW e \in Entries, ScheduleAt(e) PROVE Typed'
  <2>1. PICK t \in {now + d : d \in Delays} \cup {now - d : d \in Lates}, g \in Targets :
          plan' = [plan EXCEPT ![e] = [at |-> t, period |-> 0, mode |-> "FixedDelay",
                                       target |-> g]]
    BY <1>2 DEF ScheduleAt
  <2>2. t \in Int
    BY <1>0, TimeAssumption
  <2>3. [at |-> t, period |-> 0, mode |-> "FixedDelay", target |-> g] \in Plans
    BY <2>2 DEF Plans, Modes
  <2>4. plan' \in [Entries -> Plans] /\ \A f \in Entries : plan'[f].period \in Periods \cup {0}
    BY <1>0, <2>1, <2>3 DEF RepeatInv
  <2> QED
    BY <1>0, <1>2, <2>4
       DEF ScheduleAt, Typed, TypeOK, ControlInv, RepeatInv, InLoop, Current
<1>3. ASSUME NEW e \in Entries, ScheduleRepeat(e) PROVE Typed'
  <2>1. PICK p \in Periods, m \in Modes, g \in Targets, executeNow \in BOOLEAN :
          plan' = [plan EXCEPT ![e] = [at |-> IF executeNow THEN now ELSE now + p,
                                       period |-> p, mode |-> m, target |-> g]]
    BY <1>3 DEF ScheduleRepeat
  <2>2. (IF executeNow THEN now ELSE now + p) \in Int /\ p \in Nat
    BY <1>0, TimeAssumption
  <2>3. [at |-> IF executeNow THEN now ELSE now + p, period |-> p, mode |-> m,
         target |-> g] \in Plans
    BY <2>2 DEF Plans
  <2>4. plan' \in [Entries -> Plans] /\ \A f \in Entries : plan'[f].period \in Periods \cup {0}
    BY <1>0, <2>1, <2>3 DEF RepeatInv
  <2> QED
    BY <1>0, <1>3, <2>4
       DEF ScheduleRepeat, Typed, TypeOK, ControlInv, RepeatInv, InLoop, Current
<1>4. ASSUME NEW e \in Entries, ScheduleInsert(e) PROVE Typed'
  <2>1. CASE stopping
    BY <1>0, <1>4, <2>1
       DEF ScheduleInsert, ScheduleRefused, Typed, TypeOK, ControlInv, RepeatInv, InLoop, Current
  <2>2. CASE ~stopping
    <3>1. Insert(e, plan[e].at) /\ plan[e].at \in Int
      BY <1>0, <1>4, <2>2 DEF ScheduleInsert, ScheduleRefused, Plans
    <3> QED
      BY <1>0, <1>4, <2>2, <3>1, InsertTyped
         DEF ScheduleInsert, Typed, TypeOK, ControlInv, RepeatInv, InLoop, Current
  <2> QED
    BY <2>1, <2>2
<1>5. ASSUME NEW e \in Entries, ScheduleNotify(e) PROVE Typed'
  <2>1. watcherPc' \in WatcherPcs
    BY <1>0, <1>5 DEF ScheduleNotify, Wakes, WatcherPcs
  <2> QED
    BY <1>0, <1>5, <2>1
       DEF ScheduleNotify, Wakes, Typed, TypeOK, ControlInv, RepeatInv, InLoop, Current
<1>6. ASSUME NEW e \in Entries, Cancel(e) \/ Pause(e) \/ Resume(e) PROVE Typed'
  BY <1>0, <1>6 DEF Cancel, Pause, Resume, Typed, TypeOK, ControlInv, RepeatInv, InLoop,
                    Current
<1>7. ASSUME NEW e \in Entries, ChangePeriod(e) \/ ChangeMode(e) PROVE Typed'
  <2>1. \/ \E p \in Periods \cup {0} : plan' = [plan EXCEPT ![e].period = p]
        \/ \E m \in Modes : plan' = [plan EXCEPT ![e].mode = m]
    BY <1>7 DEF ChangePeriod, ChangeMode
  <2>2. plan' \in [Entries -> Plans] /\ \A f \in Entries : plan'[f].period \in Periods \cup {0}
    <3>1. ASSUME NEW p \in Periods \cup {0}, plan' = [plan EXCEPT ![e].period = p]
          PROVE  /\ plan' \in [Entries -> Plans]
                 /\ \A f \in Entries : plan'[f].period \in Periods \cup {0}
      <4>1. p \in Nat
        BY TimeAssumption
      <4>2. [plan[e] EXCEPT !.period = p] \in Plans
        BY <1>0, <4>1 DEF Plans
      <4>3. [plan[e] EXCEPT !.period = p].period = p
        BY <1>0 DEF Plans
      <4> QED
        BY <1>0, <3>1, <4>2, <4>3 DEF RepeatInv
    <3>2. ASSUME NEW m \in Modes, plan' = [plan EXCEPT ![e].mode = m]
          PROVE  /\ plan' \in [Entries -> Plans]
                 /\ \A f \in Entries : plan'[f].period \in Periods \cup {0}
      <4>1. [plan[e] EXCEPT !.mode = m] \in Plans
        BY <1>0 DEF Plans
      <4>2. [plan[e] EXCEPT !.mode = m].period = plan[e].period
        BY <1>0 DEF Plans
      <4> QED
        BY <1>0, <3>2, <4>1, <4>2 DEF RepeatInv
    <3> QED
      BY <2>1, <3>1, <3>2
  <2> QED
    BY <1>0, <1>7, <2>2 DEF ChangePeriod, ChangeMode, Typed, TypeOK, ControlInv, RepeatInv,
                            InLoop, Current
<1>8. CASE WatcherPeek
  <2>1. occupied # {} => Min(occupied) \in occupied
    <3>1. occupied \subseteq Nat
      BY <1>0, TimeOfKey DEF TypeOK
    <3> QED
      BY <3>1, MinOfNaturals
  <2> QED
    BY <1>0, <1>8, <2>1 DEF WatcherPeek, Typed, TypeOK, ControlInv, RepeatInv, InLoop,
                            WatcherPcs
<1>9. CASE WatcherLook
  <2>1. now < BucketTime(due) \/ now >= BucketTime(due)
    <3>1. BucketTime(due) \in Int
      BY <1>0, TimeOfKey DEF TypeOK
    <3> QED
      BY <1>0, <3>1
  <2> QED
    BY <1>0, <1>9, <2>1 DEF WatcherLook, Typed, TypeOK, ControlInv, RepeatInv, InLoop,
                            WatcherPcs
<1>10. CASE WatcherUntil \/ WatcherDeadline \/ SpuriousWakeup
  BY <1>0, <1>10 DEF WatcherUntil, WatcherDeadline, SpuriousWakeup, AfterWait, Wakes, Typed,
                     TypeOK, ControlInv, RepeatInv, InLoop, WatcherPcs
<1>11. CASE WatcherTake
  <2>1. due \in Keys /\ buckets[due] \in Seq(Entries) /\ buckets[due] # <<>>
    BY <1>0, <1>11 DEF WatcherTake, ControlInv, TypeOK
  <2>2. /\ fired' = buckets[due] /\ pos' = 1 /\ watcherPc' = "check"
        /\ buckets' = [buckets EXCEPT ![due] = <<>>] /\ occupied' = occupied \ {due}
    BY <1>11, <2>1 DEF WatcherTake, TakenKeyGoes
  <2>3. pos' \in 1 .. Len(fired')
    BY <2>1, <2>2
  <2>4. buckets' \in [Keys -> Seq(Entries)] /\ occupied' = {k \in Keys : buckets'[k] # <<>>}
    BY <1>0, <2>1, <2>2 DEF TypeOK
  <2>5. ownerPc # "stopped"
    BY <1>0, <1>11 DEF WatcherTake, ControlInv
  <2> QED
    BY <1>0, <1>11, <2>1, <2>2, <2>3, <2>4, <2>5
       DEF WatcherTake, Typed, TypeOK, ControlInv, RepeatInv, InLoop, WatcherPcs
<1>12. CASE WatcherCheck
  <2>1. InLoop /\ Current \in Entries
    BY <1>1, <1>12 DEF WatcherCheck, InLoop
  <2>2. CASE NextEntry
    BY <1>0, <1>12, <2>1, <2>2, NextEntryTyped
       DEF WatcherCheck, Typed, TypeOK, ControlInv, RepeatInv, InLoop, WatcherPcs
  <2>3. CASE watcherPc' = "pause" /\ UNCHANGED <<jobState, fired, pos>>
    BY <1>0, <1>12, <2>1, <2>3
       DEF WatcherCheck, Typed, TypeOK, ControlInv, RepeatInv, InLoop, WatcherPcs
  <2> QED
    BY <1>12, <2>2, <2>3 DEF WatcherCheck
<1>13. CASE WatcherPause
  BY <1>0, <1>13 DEF WatcherPause, Typed, TypeOK, ControlInv, RepeatInv, InLoop, WatcherPcs,
                     Current
<1>14. CASE WatcherDispatch
  <2>1. InLoop /\ Current \in Entries
    BY <1>1, <1>14 DEF WatcherDispatch, InLoop
  <2>2. CASE NextEntry
    BY <1>0, <1>14, <2>1, <2>2, NextEntryTyped
       DEF WatcherDispatch, Typed, TypeOK, ControlInv, RepeatInv, InLoop, WatcherPcs
  <2>3. CASE /\ handed' = handed \cup {Current}
             /\ jobState' = [jobState EXCEPT ![Current] = "Queued"]
             /\ watcherPc' = "rearm" /\ UNCHANGED <<canceled, fired, pos>>
    BY <1>0, <1>14, <2>1, <2>3
       DEF WatcherDispatch, Typed, TypeOK, ControlInv, RepeatInv, InLoop, WatcherPcs, Current
  <2> QED
    BY <1>14, <2>2, <2>3 DEF WatcherDispatch
<1>15. CASE WatcherRearm
  <2>1. InLoop /\ Current \in Entries
    BY <1>1, <1>15 DEF WatcherRearm, InLoop
  <2>2. CASE NextEntry /\ UNCHANGED plan
    BY <1>0, <1>15, <2>1, <2>2, NextEntryTyped
       DEF WatcherRearm, Typed, TypeOK, ControlInv, RepeatInv, InLoop, WatcherPcs
  <2>3. CASE /\ Current \in Repeats
             /\ plan' = [plan EXCEPT ![Current].at = ComputeNext(Current)]
             /\ watcherPc' = "insert" /\ UNCHANGED <<fired, pos>>
    <3>1. ComputeNext(Current) \in Int
      BY <1>0, <2>1 DEF ComputeNext, Plans
    <3>2. /\ plan' \in [Entries -> Plans]
          /\ \A f \in Entries : plan'[f].period \in Periods \cup {0}
      BY <1>0, <2>1, <2>3, <3>1 DEF RepeatInv, Plans
    <3> QED
      BY <1>0, <1>15, <2>1, <2>3, <3>2
         DEF WatcherRearm, Typed, TypeOK, ControlInv, RepeatInv, InLoop, WatcherPcs, Current
  <2> QED
    BY <1>15, <2>2, <2>3 DEF WatcherRearm, Rearms
<1>16. CASE WatcherInsert
  <2>1. /\ InLoop /\ Current \in Entries /\ NextEntry
        /\ Insert(Current, plan[Current].at) /\ plan[Current].at \in Int
    BY <1>0, <1>1, <1>16 DEF WatcherInsert, InLoop, Plans
  <2> QED
    BY <1>0, <1>16, <2>1, InsertTyped, NextEntryTyped
       DEF WatcherInsert, Typed, TypeOK, ControlInv, RepeatInv, InLoop, WatcherPcs
<1>17. CASE Start \/ StopCall \/ StopNotify
  BY <1>0, <1>17 DEF Start, StopCall, StopNotify, StopTells, Wakes, Typed, TypeOK,
                     ControlInv, RepeatInv, InLoop, WatcherPcs, Current
<1>18. CASE StopClear
  <2>1. \A k \in Keys : buckets'[k] = <<>>
    BY <1>18 DEF StopClear
  <2>2. canceled' \subseteq Entries
        /\ jobState' \in [Entries -> {"WaitingTimer", "Queued", "Canceled"}]
    BY <1>0, <1>18 DEF StopClear, TypeOK
  <2> QED
    BY <1>0, <1>18, <2>1, <2>2
       DEF StopClear, Typed, TypeOK, ControlInv, RepeatInv, InLoop, WatcherPcs
<1>19. CASE ClockTick \/ (\E g \in Targets : CloseTarget(g))
  <2>1. BucketTime(due) \in Int
    BY <1>0, TimeOfKey DEF TypeOK
  <2> QED
    BY <1>0, <1>19, <2>1 DEF ClockTick, CloseTarget, Typed, TypeOK, ControlInv, RepeatInv,
                             InLoop, Current
<1>20. CASE UNCHANGED vars
  BY <1>0, <1>20 DEF vars, Typed, TypeOK, ControlInv, RepeatInv, InLoop, Current
<1> QED
  BY <1>2, <1>3, <1>4, <1>5, <1>6, <1>7, <1>8, <1>9, <1>10, <1>11, <1>12, <1>13, <1>14,
     <1>15, <1>16, <1>17, <1>18, <1>19, <1>20
     DEF Next, ScheduleNext, HandleNext, WatcherNext, OwnerNext

\* Every reachable state of the timer has the types of TypeOK, and occupied_
\* holds the keys of the buckets that are not empty.
THEOREM TimerTypeCorrect == Spec => []TypeOK
<1>1. Typed => TypeOK
  BY DEF Typed
<1> QED
  BY <1>1, TypedInit, TypedStep, PTL DEF Spec

-----------------------------------------------------------------------------
(* Sleep *)

\* A step that does not touch the watcher's sleep, leave a smaller key or begin
\* a stop.
LEMMA SleepFrame ==
  ASSUME Typed, NoOversleep, UNCHANGED <<stopping, occupied, due, ownerPc>>,
         watcherPc' \in {"asleep", "dozing"} => watcherPc' = watcherPc,
         \A e \in Entries : callPc[e] = "notify" => callPc'[e] = "notify"
  PROVE  NoOversleep'
BY DEF NoOversleep

\* Every step keeps a notification on the way to a watcher that sleeps too long:
\* whoever makes it sleep too long has the notification to give.
LEMMA NoOversleepStep == Typed /\ NoOversleep /\ [Next]_vars => NoOversleep'
<1> SUFFICES ASSUME Typed, NoOversleep, [Next]_vars PROVE NoOversleep'
  OBVIOUS
<1> USE DEF timerVars, entryVars, watcherVars
<1>0. /\ TypeOK /\ ControlInv
      /\ callPc \in [Entries -> {"new", "insert", "notify", "done", "refused"}]
      /\ occupied \subseteq Keys /\ Keys \subseteq Nat /\ due \in Keys
  BY TimeOfKey DEF Typed, TypeOK
<1>1. ASSUME NEW e \in Entries, ScheduleAt(e) \/ ScheduleRepeat(e) PROVE NoOversleep'
  BY <1>0, <1>1, SleepFrame DEF ScheduleAt, ScheduleRepeat
<1>2. ASSUME NEW e \in Entries, ScheduleInsert(e) PROVE NoOversleep'
  <2>1. CASE stopping
    BY <1>0, <1>2, <2>1, SleepFrame DEF ScheduleInsert, ScheduleRefused
  <2>2. CASE ~stopping
    <3> DEFINE b == BucketOf(plan[e].at)
    <3>1. /\ occupied' = occupied \cup {b}
          /\ callPc' = [callPc EXCEPT ![e] = IF NewMin(b) THEN "notify" ELSE "done"]
          /\ callPc[e] = "insert"
          /\ UNCHANGED <<stopping, due, ownerPc, watcherPc>>
      BY <1>2, <2>2 DEF ScheduleInsert, ScheduleRefused, Insert
    <3>2. b \in Nat
      <4>1. plan[e].at \in Int
        BY <1>0 DEF TypeOK, Plans
      <4> QED
        BY <1>0, <4>1, KeyOfTime
    <3> HIDE DEF b
    <3>3. \A f \in Entries : callPc[f] = "notify" => callPc'[f] = "notify"
      BY <1>0, <3>1
    <3>4. CASE NewMin(b)
      BY <1>0, <2>2, <3>1, <3>4 DEF NoOversleep
    <3>5. CASE ~NewMin(b)
      <4>1. PICK k \in occupied : k <= b
        BY <1>0, <3>2, <3>5 DEF NewMin
      <4>2. (\E m \in occupied' : m < due) => \E m \in occupied : m < due
        BY <1>0, <3>1, <3>2, <4>1
      <4> QED
        BY <1>0, <3>1, <3>3, <4>1, <4>2 DEF NoOversleep
    <3> QED
      BY <3>4, <3>5
  <2> QED
    BY <2>1, <2>2
<1>3. ASSUME NEW e \in Entries, ScheduleNotify(e) PROVE NoOversleep'
  BY <1>0, <1>3 DEF ScheduleNotify, Wakes, NoOversleep
<1>4. ASSUME NEW e \in Entries, HandleNext(e) PROVE NoOversleep'
  BY <1>4, SleepFrame DEF HandleNext, Cancel, Pause, Resume, ChangePeriod, ChangeMode
<1>5. CASE WatcherPeek
  BY <1>0, <1>5 DEF WatcherPeek, NoOversleep
<1>6. CASE WatcherUntil
  BY <1>0, <1>6 DEF WatcherUntil, AfterWait, NoOversleep
<1>7. CASE WatcherLook \/ WatcherDeadline \/ WatcherPause
  BY <1>7, SleepFrame DEF WatcherLook, WatcherDeadline, AfterWait, WatcherPause
<1>8. CASE WatcherTake
  BY <1>8 DEF WatcherTake, NoOversleep
<1>9. CASE WatcherCheck \/ WatcherDispatch \/ WatcherRearm
  BY <1>9, SleepFrame DEF WatcherCheck, WatcherDispatch, WatcherRearm, NextEntry
<1>10. CASE WatcherInsert
  BY <1>10 DEF WatcherInsert, NextEntry, NoOversleep
<1>11. CASE SpuriousWakeup
  BY <1>11 DEF SpuriousWakeup, Wakes, NoOversleep
<1>12. CASE Start \/ StopCall
  BY <1>0, <1>12 DEF Start, StopCall, ControlInv, NoOversleep
<1>13. CASE StopNotify
  BY <1>0, <1>13 DEF StopNotify, StopTells, Wakes, ControlInv, NoOversleep
<1>14. CASE StopClear
  BY <1>14 DEF StopClear, NoOversleep
<1>15. CASE ClockTick \/ (\E g \in Targets : CloseTarget(g)) \/ UNCHANGED vars
  BY <1>15, SleepFrame DEF ClockTick, CloseTarget, vars
<1> QED
  BY <1>1, <1>2, <1>3, <1>4, <1>5, <1>6, <1>7, <1>8, <1>9, <1>10, <1>11, <1>12, <1>13, <1>14,
     <1>15 DEF Next, ScheduleNext, WatcherNext, OwnerNext

\* The watcher never sleeps longer than it should, for an empty timer that has
\* entries, behind a bucket that is not the next, or through Stop, without a
\* notification on its way: no wakeup is lost.
THEOREM NoOversleepSafe == Spec => []NoOversleep
<1>1. Init => NoOversleep
  BY DEF Init, NoOversleep
<1> QED
  BY <1>1, TypedInit, TypedStep, NoOversleepStep, PTL DEF Spec

-----------------------------------------------------------------------------
(* Places *)

\* The entry is in the bucket of key k; it is among those that the watcher has
\* taken and not yet seen to.
FiledAt(e, k) == \E i \in 1 .. Len(buckets[k]) : buckets[k][i] = e
InFired(e)    == \E i \in 1 .. Len(fired) : i >= pos /\ fired[i] = e

OneBucket ==
  \A k, l \in Keys : \A i \in 1 .. Len(buckets[k]), j \in 1 .. Len(buckets[l]) :
    buckets[k][i] = buckets[l][j] => k = l /\ i = j

OneFired == \A i, j \in 1 .. Len(fired) : fired[i] = fired[j] => i = j

\* No entry is in two places; one that is in a bucket is in that of its time;
\* and only entries that Schedule has accepted are anywhere.
PlaceInv ==
  /\ OneBucket /\ OneFired
  /\ \A e \in Entries, k \in Keys : FiledAt(e, k) =>
       ~InFired(e) /\ Accepted(e) /\ k = BucketOf(plan[e].at)
  /\ \A e \in Entries : InFired(e) => Accepted(e)

Placed == Typed /\ PlaceInv

\* Insert adds the entry to one bucket.
LEMMA InsertPlaces ==
  ASSUME TypeOK, OneBucket, NEW e \in Entries, NEW t \in Int, Insert(e, t),
         \A k \in Keys : ~FiledAt(e, k)
  PROVE  /\ OneBucket'
         /\ \A f \in Entries, k \in Keys :
              FiledAt(f, k)' <=> FiledAt(f, k) \/ (f = e /\ k = BucketOf(t))
<1> DEFINE b == BucketOf(t)
<1>0. buckets \in [Keys -> Seq(Entries)] /\ b \in Keys
  BY KeyOfTime DEF TypeOK
<1>1. buckets' = [buckets EXCEPT ![b] = Append(@, e)]
  BY DEF Insert, File
<1> HIDE DEF b
<1>2. /\ Len(buckets'[b]) = Len(buckets[b]) + 1 /\ Len(buckets[b]) \in Nat
      /\ buckets'[b][Len(buckets[b]) + 1] = e
      /\ \A i \in 1 .. Len(buckets[b]) : buckets'[b][i] = buckets[b][i]
      /\ \A k \in Keys : k # b => buckets'[k] = buckets[k]
  BY <1>0, <1>1
<1>3. \A k \in Keys : \A i \in 1 .. Len(buckets'[k]) :
        \/ i \in 1 .. Len(buckets[k]) /\ buckets'[k][i] = buckets[k][i]
        \/ k = b /\ i = Len(buckets[b]) + 1 /\ buckets'[k][i] = e
  BY <1>0, <1>2
<1>4. OneBucket'
  <2> SUFFICES ASSUME NEW k \in Keys, NEW l \in Keys,
                      NEW i \in 1 .. Len(buckets'[k]), NEW j \in 1 .. Len(buckets'[l]),
                      buckets'[k][i] = buckets'[l][j]
               PROVE  k = l /\ i = j
    BY DEF OneBucket
  <2>1. CASE i \in 1 .. Len(buckets[k]) /\ j \in 1 .. Len(buckets[l])
    <3>1. buckets[k][i] = buckets[l][j]
      BY <1>2, <2>1
    <3> QED
      BY <2>1, <3>1 DEF OneBucket
  <2>2. CASE i \in 1 .. Len(buckets[k]) /\ j \notin 1 .. Len(buckets[l])
    BY <1>2, <1>3, <2>2 DEF FiledAt
  <2>3. CASE i \notin 1 .. Len(buckets[k]) /\ j \in 1 .. Len(buckets[l])
    BY <1>2, <1>3, <2>3 DEF FiledAt
  <2>4. CASE i \notin 1 .. Len(buckets[k]) /\ j \notin 1 .. Len(buckets[l])
    BY <1>3, <2>4
  <2> QED
    BY <2>1, <2>2, <2>3, <2>4
<1>5. \A f \in Entries, k \in Keys : FiledAt(f, k)' => FiledAt(f, k) \/ (f = e /\ k = b)
  BY <1>3 DEF FiledAt
<1>6. \A f \in Entries, k \in Keys : FiledAt(f, k) => FiledAt(f, k)'
  <2> SUFFICES ASSUME NEW f \in Entries, NEW k \in Keys, FiledAt(f, k) PROVE FiledAt(f, k)'
    OBVIOUS
  <2>1. PICK i \in 1 .. Len(buckets[k]) : buckets[k][i] = f
    BY DEF FiledAt
  <2>2. i \in 1 .. Len(buckets'[k]) /\ buckets'[k][i] = f
    BY <1>0, <1>2, <2>1
  <2> QED
    BY <2>2 DEF FiledAt
<1>7. FiledAt(e, b)'
  <2>1. Len(buckets[b]) + 1 \in 1 .. Len(buckets'[b])
    BY <1>2
  <2> QED
    BY <1>2, <2>1 DEF FiledAt
<1> QED
  BY <1>4, <1>5, <1>6, <1>7 DEF b

\* WatcherTake moves one bucket to the list `fired'.
LEMMA TakePlaces ==
  ASSUME Placed, WatcherTake
  PROVE  /\ OneBucket' /\ OneFired'
         /\ \A f \in Entries, k \in Keys : FiledAt(f, k)' <=> FiledAt(f, k) /\ k # due
         /\ \A f \in Entries : ~InFired(f) /\ (InFired(f)' <=> FiledAt(f, due))
<1>1. /\ buckets \in [Keys -> Seq(Entries)] /\ due \in Keys /\ fired = <<>>
      /\ fired' = buckets[due] /\ pos' = 1 /\ buckets' = [buckets EXCEPT ![due] = <<>>]
  BY DEF Placed, Typed, TypeOK, ControlInv, InLoop, WatcherTake
<1>2. /\ Len(buckets'[due]) = 0 /\ Len(fired) = 0
      /\ \A k \in Keys : k # due => buckets'[k] = buckets[k]
  BY <1>1
<1>3. OneBucket' /\ OneFired'
  BY <1>1, <1>2 DEF Placed, PlaceInv, OneBucket, OneFired
<1>4. \A f \in Entries, k \in Keys : FiledAt(f, k)' <=> FiledAt(f, k) /\ k # due
  BY <1>1, <1>2 DEF FiledAt
<1>5. \A f \in Entries : ~InFired(f) /\ (InFired(f)' <=> FiledAt(f, due))
  BY <1>1, <1>2 DEF FiledAt, InFired
<1> QED
  BY <1>3, <1>4, <1>5

\* NextEntry is done with the current entry, and with no other.
LEMMA NextEntryPlaces ==
  ASSUME Placed, InLoop, NextEntry
  PROVE  /\ OneFired' /\ Current \in Entries /\ InFired(Current)
         /\ \A f \in Entries : InFired(f)' <=> InFired(f) /\ f # Current
<1>1. /\ fired \in Seq(Entries) /\ pos \in 1 .. Len(fired) /\ Len(fired) \in Nat
      /\ OneFired /\ Current = fired[pos]
  BY DEF Placed, PlaceInv, Typed, TypeOK, ControlInv, Current
<1>2. Current \in Entries /\ InFired(Current)
  BY <1>1 DEF InFired
<1>3. CASE pos < Len(fired)
  <2>1. pos' = pos + 1 /\ fired' = fired
    BY <1>3 DEF NextEntry
  <2> QED
    BY <1>1, <1>2, <1>3, <2>1 DEF OneFired, InFired
<1>4. CASE ~(pos < Len(fired))
  <2>1. fired' = <<>> /\ Len(fired') = 0
    BY <1>4 DEF NextEntry
  <2>2. \A i \in 1 .. Len(fired) : i >= pos => i = pos
    BY <1>1, <1>4
  <2> QED
    BY <1>1, <1>2, <2>1, <2>2 DEF OneFired, InFired
<1> QED
  BY <1>3, <1>4

\* Every step keeps each entry in one place, and that the right one.
LEMMA PlaceInvStep == Placed /\ [Next]_vars => PlaceInv'
<1> SUFFICES ASSUME Placed, [Next]_vars PROVE PlaceInv'
  OBVIOUS
<1> USE DEF timerVars, entryVars, watcherVars
<1>0. /\ Typed /\ TypeOK /\ ControlInv /\ PlaceInv /\ plan \in [Entries -> Plans]
      /\ callPc \in [Entries -> {"new", "insert", "notify", "done", "refused"}]
  BY DEF Placed, Typed, TypeOK
<1>1. ASSUME UNCHANGED <<buckets, fired, pos>>,
             \A e \in Entries : Accepted(e) => Accepted(e)' /\ plan'[e].at = plan[e].at
      PROVE  PlaceInv'
  BY <1>0, <1>1 DEF PlaceInv, OneBucket, OneFired, FiledAt, InFired
<1>2. ASSUME NEW e \in Entries, ScheduleAt(e) \/ ScheduleRepeat(e) PROVE PlaceInv'
  <2>1. \A f \in Entries : Accepted(f) => Accepted(f)' /\ plan'[f].at = plan[f].at
    BY <1>0, <1>2 DEF ScheduleAt, ScheduleRepeat, Accepted
  <2> QED
    BY <1>1, <1>2, <2>1 DEF ScheduleAt, ScheduleRepeat
<1>3. ASSUME NEW e \in Entries, ScheduleInsert(e) PROVE PlaceInv'
  <2>1. CASE stopping
    BY <1>0, <1>1, <1>3, <2>1 DEF ScheduleInsert, ScheduleRefused, Accepted
  <2>2. CASE ~stopping
    <3>1. /\ Insert(e, plan[e].at) /\ plan[e].at \in Int /\ ~Accepted(e)
          /\ \A f \in Entries : Accepted(f)' <=> Accepted(f) \/ f = e
          /\ UNCHANGED <<plan, fired, pos>>
      BY <1>0, <1>3, <2>2 DEF ScheduleInsert, ScheduleRefused, Accepted, Plans
    <3>2. (\A k \in Keys : ~FiledAt(e, k)) /\ ~InFired(e)
      BY <1>0, <3>1 DEF PlaceInv
    <3>3. \A f \in Entries : InFired(f)' <=> InFired(f)
      BY <3>1 DEF InFired
    <3>4. OneBucket' /\ OneFired'
      BY <1>0, <3>1, <3>2, InsertPlaces DEF PlaceInv, OneFired
    <3>5. \A f \in Entries, k \in Keys :
            FiledAt(f, k)' <=> FiledAt(f, k) \/ (f = e /\ k = BucketOf(plan[e].at))
      BY <1>0, <3>1, <3>2, InsertPlaces DEF PlaceInv
    <3>6. \A f \in Entries : BucketOf(plan[f].at)' = BucketOf(plan[f].at)
      BY <3>1
    <3> QED
      BY <1>0, <3>1, <3>2, <3>3, <3>4, <3>5, <3>6 DEF PlaceInv
  <2> QED
    BY <2>1, <2>2
<1>4. ASSUME NEW e \in Entries, ScheduleNotify(e) PROVE PlaceInv'
  BY <1>0, <1>1, <1>4 DEF ScheduleNotify, Accepted
<1>5. ASSUME NEW e \in Entries, HandleNext(e) PROVE PlaceInv'
  <2>1. \A f \in Entries : plan'[f].at = plan[f].at
    BY <1>0, <1>5 DEF HandleNext, Cancel, Pause, Resume, ChangePeriod, ChangeMode, Plans
  <2> QED
    BY <1>1, <1>5, <2>1
       DEF HandleNext, Cancel, Pause, Resume, ChangePeriod, ChangeMode, Accepted
<1>6. CASE WatcherTake
  <2>1. UNCHANGED <<plan, callPc>>
    BY <1>6 DEF WatcherTake
  <2>2. due \in Keys
    BY <1>0 DEF TypeOK
  <2> QED
    BY <1>0, <1>6, <2>1, <2>2, TakePlaces DEF PlaceInv, Accepted
<1>7. ASSUME InLoop, NextEntry, UNCHANGED <<buckets, plan, callPc>> PROVE PlaceInv'
  <2>1. \A f \in Entries, k \in Keys : FiledAt(f, k)' <=> FiledAt(f, k)
    BY <1>7 DEF FiledAt
  <2>2. OneBucket' /\ OneFired'
    BY <1>0, <1>7, NextEntryPlaces DEF PlaceInv, OneBucket
  <2> QED
    BY <1>0, <1>7, <2>1, <2>2, NextEntryPlaces DEF PlaceInv, Accepted
<1>8. CASE WatcherCheck \/ WatcherDispatch
  BY <1>1, <1>7, <1>8 DEF WatcherCheck, WatcherDispatch, InLoop, Accepted
<1>9. CASE WatcherRearm
  <2>1. CASE NextEntry /\ UNCHANGED plan
    BY <1>7, <1>9, <2>1 DEF WatcherRearm, InLoop
  <2>2. CASE /\ plan' = [plan EXCEPT ![Current].at = ComputeNext(Current)]
             /\ UNCHANGED <<fired, pos>>
    <3>1. InFired(Current) /\ Current \in Entries
      BY <1>0, <1>9 DEF WatcherRearm, InLoop, ControlInv, TypeOK, Current, InFired
    <3>2. \A f \in Entries : f # Current => plan'[f].at = plan[f].at
      BY <1>0, <2>2, <3>1
    <3>3. \A f \in Entries, k \in Keys : FiledAt(f, k) => f # Current
      BY <1>0, <3>1 DEF PlaceInv
    <3>4. UNCHANGED <<buckets, callPc>>
      BY <1>9 DEF WatcherRearm
    <3> QED
      BY <1>0, <2>2, <3>2, <3>3, <3>4
         DEF PlaceInv, OneBucket, OneFired, FiledAt, InFired, Accepted
  <2> QED
    BY <1>9, <2>1, <2>2 DEF WatcherRearm
<1>10. CASE WatcherInsert
  <2> DEFINE e == Current
  <2>1. /\ InLoop /\ NextEntry /\ Insert(e, plan[e].at) /\ UNCHANGED <<plan, callPc>>
    BY <1>10 DEF WatcherInsert, InLoop
  <2>2. /\ OneFired' /\ e \in Entries /\ InFired(e)
        /\ \A f \in Entries : InFired(f)' <=> InFired(f) /\ f # e
    BY <2>1, NextEntryPlaces
  <2>3. (\A k \in Keys : ~FiledAt(e, k)) /\ plan[e].at \in Int /\ OneBucket
    BY <1>0, <2>2 DEF PlaceInv, Plans
  <2> HIDE DEF e
  <2>4. /\ OneBucket'
        /\ \A f \in Entries, k \in Keys :
            FiledAt(f, k)' <=> FiledAt(f, k) \/ (f = e /\ k = BucketOf(plan[e].at))
    BY <1>0, <2>1, <2>2, <2>3, InsertPlaces
  <2>5. \A f \in Entries : Accepted(f)' <=> Accepted(f)
    BY <2>1 DEF Accepted
  <2> QED
    BY <1>0, <2>1, <2>2, <2>3, <2>4, <2>5 DEF PlaceInv
<1>11. CASE StopClear
  <2>1. /\ \A k \in Keys : buckets'[k] = <<>>
        /\ UNCHANGED <<fired, pos, callPc, plan>>
    BY <1>11 DEF StopClear
  <2> QED
    BY <1>0, <2>1 DEF PlaceInv, OneBucket, OneFired, FiledAt, InFired, Accepted
<1>12. CASE Start \/ StopCall \/ StopNotify
  BY <1>1, <1>12 DEF Start, StopCall, StopNotify, Accepted
<1>13. CASE \/ WatcherPeek \/ WatcherLook \/ WatcherUntil \/ WatcherDeadline
            \/ WatcherPause \/ SpuriousWakeup
  BY <1>1, <1>13 DEF WatcherPeek, WatcherLook, WatcherUntil, WatcherDeadline, WatcherPause,
                     SpuriousWakeup, Accepted
<1>14. CASE ClockTick \/ (\E g \in Targets : CloseTarget(g)) \/ UNCHANGED vars
  BY <1>1, <1>14 DEF ClockTick, CloseTarget, vars, Accepted
<1> QED
  BY <1>2, <1>3, <1>4, <1>5, <1>6, <1>8, <1>9, <1>10, <1>11, <1>12, <1>13, <1>14
     DEF Next, ScheduleNext, WatcherNext, OwnerNext

\* PlaceInv is an invariant, with the types.
LEMMA PlacedInvariant == Spec => []Placed
<1>1. Init => Placed
  <2> SUFFICES ASSUME Init PROVE PlaceInv
    BY TypedInit DEF Placed
  <2>1. Len(fired) = 0 /\ \A k \in Keys : Len(buckets[k]) = 0
    BY DEF Init
  <2> QED
    BY <2>1 DEF PlaceInv, OneBucket, OneFired, FiledAt, InFired
<1>2. Placed /\ [Next]_vars => Placed'
  BY TypedStep, PlaceInvStep DEF Placed
<1> QED
  BY <1>1, <1>2, PTL DEF Spec

-----------------------------------------------------------------------------
(* Due times *)

\* Times stay in the range in which keys can be told apart, and what the watcher
\* has taken is due, but for the entry that it is about to file again.
TimeInv ==
  /\ \A e \in Entries : plan[e].at \in -Horizon .. Horizon + Tick - 1
  /\ \A e \in Entries : InFired(e) /\ ~(watcherPc = "insert" /\ e = Current) =>
       plan[e].at - now < Tick

\* Every step keeps the times.
LEMMA TimeInvStep == Placed /\ TimeInv /\ [Next]_vars => TimeInv'
<1> SUFFICES ASSUME Placed, TimeInv, [Next]_vars PROVE TimeInv'
  OBVIOUS
<1> USE DEF timerVars, entryVars, watcherVars
<1>0. /\ Typed /\ TypeOK /\ ControlInv /\ RepeatInv /\ PlaceInv
      /\ plan \in [Entries -> Plans] /\ now \in 0 .. MaxTime
      /\ MaxTime \in Nat /\ Tick \in Nat \ {0} /\ Horizon \in Nat
      /\ callPc \in [Entries -> {"new", "insert", "notify", "done", "refused"}]
      /\ \A e \in Entries : plan[e].at \in Int
  BY HorizonBounds, TimeAssumption DEF Placed, Typed, TypeOK, Plans
<1>1. \A d \in Spans : d \in Nat /\ now + d <= Horizon /\ now - d >= -Horizon
  BY <1>0, HorizonBounds
<1>2. ASSUME UNCHANGED <<fired, pos, now>>, watcherPc' = watcherPc \/ watcherPc # "insert",
             \A e \in Entries : plan'[e].at = plan[e].at
      PROVE  TimeInv'
  BY <1>0, <1>2 DEF TimeInv, InFired, Current
<1>3. ASSUME NEW e \in Entries, ScheduleAt(e) \/ ScheduleRepeat(e) PROVE TimeInv'
  <2>1. /\ callPc[e] = "new" /\ UNCHANGED <<fired, pos, now, watcherPc>>
        /\ \A f \in Entries : f # e => plan'[f] = plan[f]
    BY <1>0, <1>3 DEF ScheduleAt, ScheduleRepeat
  <2>2. ~InFired(e)
    BY <1>0, <2>1 DEF PlaceInv, Accepted
  <2>3. plan'[e].at \in -Horizon .. Horizon + Tick - 1
    <3>1. ASSUME ScheduleAt(e) PROVE plan'[e].at \in -Horizon .. Horizon + Tick - 1
      <4>1. PICK t \in {now + d : d \in Delays} \cup {now - d : d \in Lates}, g \in Targets :
              plan' = [plan EXCEPT ![e] = [at |-> t, period |-> 0, mode |-> "FixedDelay",
                                           target |-> g]]
        BY <3>1 DEF ScheduleAt
      <4>2. PICK d \in Spans : t = now + d \/ t = now - d
        BY DEF Spans
      <4>3. t \in -Horizon .. Horizon
        BY <1>0, <1>1, <4>2
      <4> QED
        BY <1>0, <4>1, <4>3
    <3>2. ASSUME ScheduleRepeat(e) PROVE plan'[e].at \in -Horizon .. Horizon + Tick - 1
      <4>1. PICK p \in Periods, m \in Modes, g \in Targets, executeNow \in BOOLEAN :
              plan' = [plan EXCEPT ![e] = [at |-> IF executeNow THEN now ELSE now + p,
                                           period |-> p, mode |-> m, target |-> g]]
        BY <3>2 DEF ScheduleRepeat
      <4>2. p \in Spans /\ now \in Int
        BY <1>0 DEF Spans
      <4>3. now \in -Horizon .. Horizon /\ now + p \in -Horizon .. Horizon
        BY <1>0, <1>1, <4>2
      <4> QED
        BY <1>0, <4>1, <4>3
    <3> QED
      BY <1>3, <3>1, <3>2
  <2> QED
    BY <1>0, <2>1, <2>2, <2>3 DEF TimeInv, InFired, Current
<1>4. ASSUME NEW e \in Entries, ScheduleInsert(e) PROVE TimeInv'
  BY <1>2, <1>4 DEF ScheduleInsert
<1>5. ASSUME NEW e \in Entries, ScheduleNotify(e) PROVE TimeInv'
  <2>1. watcherPc' = watcherPc \/ watcherPc # "insert"
    BY <1>5 DEF ScheduleNotify, Wakes
  <2> QED
    BY <1>2, <1>5, <2>1 DEF ScheduleNotify
<1>6. ASSUME NEW e \in Entries, HandleNext(e) PROVE TimeInv'
  <2>1. \A f \in Entries : plan'[f].at = plan[f].at
    BY <1>0, <1>6 DEF HandleNext, Cancel, Pause, Resume, ChangePeriod, ChangeMode, Plans
  <2> QED
    BY <1>2, <1>6, <2>1 DEF HandleNext, Cancel, Pause, Resume, ChangePeriod, ChangeMode
<1>7. CASE WatcherTake
  <2>1. UNCHANGED <<plan, now>> /\ due \in Keys /\ now >= BucketTime(due)
    BY <1>0, <1>7 DEF WatcherTake, TypeOK, ControlInv
  <2>2. ASSUME NEW e \in Entries, InFired(e)' PROVE plan[e].at - now < Tick
    <3>1. due = BucketOf(plan[e].at)
      BY <1>0, <1>7, <2>1, <2>2, TakePlaces DEF PlaceInv
    <3>2. plan[e].at - BucketTime(due) \in 0 .. Tick - 1
      BY <3>1, BucketHoldsTime DEF TimeInv
    <3>3. BucketTime(due) \in Int /\ plan[e].at \in Int
      BY <1>0, <2>1, TimeOfKey
    <3> QED
      BY <1>0, <2>1, <3>2, <3>3
  <2> QED
    BY <1>0, <2>1, <2>2 DEF TimeInv
<1>8. ASSUME InLoop, NextEntry, UNCHANGED <<plan, now>> PROVE TimeInv'
  BY <1>0, <1>8, NextEntryPlaces DEF TimeInv
<1>9. CASE WatcherCheck \/ WatcherDispatch
  BY <1>2, <1>8, <1>9 DEF WatcherCheck, WatcherDispatch, InLoop
<1>10. CASE WatcherRearm
  <2>1. CASE NextEntry /\ UNCHANGED plan
    BY <1>8, <1>10, <2>1 DEF WatcherRearm, InLoop
  <2>2. CASE /\ plan' = [plan EXCEPT ![Current].at = ComputeNext(Current)]
             /\ watcherPc' = "insert" /\ UNCHANGED <<fired, pos>>
    <3>1. InFired(Current) /\ Current \in Entries /\ Current' = Current
      <4>1. fired \in Seq(Entries) /\ pos \in 1 .. Len(fired) /\ Len(fired) \in Nat
        BY <1>0, <1>10 DEF WatcherRearm, InLoop, ControlInv, TypeOK
      <4>2. Current' = Current
        BY <2>2 DEF Current
      <4> QED
        BY <4>1, <4>2 DEF Current, InFired
    <3>2. /\ plan[Current].at \in -Horizon .. Horizon + Tick - 1
          /\ plan[Current].at - now < Tick
      BY <1>10, <3>1 DEF TimeInv, WatcherRearm
    <3>3. plan[Current].period \in Nat /\ now + plan[Current].period <= Horizon
      BY <1>0, <1>1, <3>1 DEF RepeatInv, Spans
    <3>4. ComputeNext(Current) \in -Horizon .. Horizon + Tick - 1
      <4> DEFINE at == plan[Current].at
                 period == plan[Current].period
      <4>1. /\ at \in Int /\ at - now < Tick /\ period \in Nat /\ now + period <= Horizon
            /\ now \in Nat
        BY <1>0, <3>2, <3>3
      <4>2. \/ ComputeNext(Current) = now + period
            \/ ComputeNext(Current) = now
            \/ ComputeNext(Current) = at + period /\ ~(at + period <= now)
        BY <4>1 DEF ComputeNext
      <4> HIDE DEF at, period
      <4> QED
        BY <1>0, <4>1, <4>2
    <3>5. /\ UNCHANGED now
          /\ plan'[Current].at = ComputeNext(Current)
          /\ \A f \in Entries : f # Current => plan'[f] = plan[f]
      BY <1>0, <1>10, <2>2, <3>1 DEF WatcherRearm, Plans
    <3> QED
      BY <1>0, <1>10, <2>2, <3>1, <3>4, <3>5 DEF TimeInv, InFired, WatcherRearm
  <2> QED
    BY <1>10, <2>1, <2>2 DEF WatcherRearm
<1>11. CASE WatcherInsert
  BY <1>8, <1>11 DEF WatcherInsert, InLoop
<1>12. CASE Start \/ StopCall \/ StopClear
  BY <1>0, <1>2, <1>12 DEF Start, StopCall, StopClear, ControlInv
<1>13. CASE StopNotify
  <2>1. watcherPc' = watcherPc \/ watcherPc # "insert"
    BY <1>13 DEF StopNotify, StopTells, Wakes
  <2> QED
    BY <1>2, <1>13, <2>1 DEF StopNotify
<1>14. CASE \/ WatcherPeek \/ WatcherLook \/ WatcherUntil \/ WatcherDeadline
            \/ WatcherPause \/ SpuriousWakeup
  BY <1>2, <1>14 DEF WatcherPeek, WatcherLook, WatcherUntil, WatcherDeadline, WatcherPause,
                     SpuriousWakeup
<1>15. CASE ClockTick
  BY <1>0, <1>15 DEF ClockTick, TimeInv, InFired, Current
<1>16. CASE (\E g \in Targets : CloseTarget(g)) \/ UNCHANGED vars
  BY <1>2, <1>16 DEF CloseTarget, vars
<1> QED
  BY <1>3, <1>4, <1>5, <1>6, <1>7, <1>9, <1>10, <1>11, <1>12, <1>13, <1>14, <1>15, <1>16
     DEF Next, ScheduleNext, WatcherNext, OwnerNext

-----------------------------------------------------------------------------
(* What becomes of an entry *)

InBucket(e) == \E k \in Keys : FiledAt(e, k)

\* Handles find an entry in a bucket if it is there.
LEMMA FiledIsInBucket == ASSUME TypeOK, NEW e PROVE Filed(e) <=> InBucket(e)
<1>1. /\ buckets \in [Keys -> Seq(Entries)]
      /\ occupied = {k \in Keys : buckets[k] # <<>>}
  BY DEF TypeOK
<1>2. \A k \in Keys : e \in ToSet(buckets[k]) <=> FiledAt(e, k)
  BY <1>1 DEF ToSet, FiledAt
<1>3. \A k \in Keys : FiledAt(e, k) => buckets[k] # <<>>
  BY <1>1 DEF FiledAt
<1> QED
  BY <1>1, <1>2, <1>3 DEF Filed, InBucket

Finished(e) == e \in canceled \/ (e \notin Repeats /\ e \in handed)

\* An accepted entry that is not finished is somewhere until the timer has
\* stopped, when all are finished; and a one-shot entry that was handed over is
\* nowhere, as soon as the watcher goes on to the next.
KeepInv ==
  /\ \A e \in Entries : Accepted(e) /\ ~Finished(e) =>
       ownerPc # "stopped" /\ (InBucket(e) \/ InFired(e))
  /\ \A e \in Entries \ Repeats : e \in handed =>
       /\ Accepted(e) /\ ~InBucket(e)
       /\ InFired(e) => e = Current /\ watcherPc = "rearm"

\* Every step keeps hold of the entries that are not finished.
LEMMA KeepInvStep == Placed /\ KeepInv /\ [Next]_vars => KeepInv'
<1> SUFFICES ASSUME Placed, KeepInv, [Next]_vars PROVE KeepInv'
  OBVIOUS
<1> USE DEF timerVars, entryVars, watcherVars
<1>0. /\ Typed /\ TypeOK /\ ControlInv /\ RepeatInv /\ PlaceInv
      /\ plan \in [Entries -> Plans]
      /\ callPc \in [Entries -> {"new", "insert", "notify", "done", "refused"}]
  BY DEF Placed, Typed, TypeOK
<1>1. ASSUME UNCHANGED <<buckets, fired, pos, handed>>, ownerPc' # "stopped" \/ ownerPc' = ownerPc,
             watcherPc' = watcherPc \/ watcherPc # "rearm",
             canceled \subseteq canceled',
             \A e \in Entries : Accepted(e)' <=> Accepted(e)
      PROVE  KeepInv'
  <2>1. \A e \in Entries : InBucket(e)' = InBucket(e) /\ InFired(e)' = InFired(e)
    BY <1>1 DEF InBucket, FiledAt, InFired
  <2>2. Current' = Current
    BY <1>1 DEF Current
  <2>3. \A e \in Entries : Finished(e) => Finished(e)'
    BY <1>1 DEF Finished
  <2> QED
    BY <1>1, <2>1, <2>2, <2>3 DEF KeepInv
<1>2. ASSUME NEW e \in Entries, ScheduleAt(e) \/ ScheduleRepeat(e) PROVE KeepInv'
  <2>1. \A f \in Entries : Accepted(f)' <=> Accepted(f)
    BY <1>0, <1>2 DEF ScheduleAt, ScheduleRepeat, Accepted
  <2> QED
    BY <1>1, <1>2, <2>1 DEF ScheduleAt, ScheduleRepeat
<1>3. ASSUME NEW e \in Entries, ScheduleInsert(e) PROVE KeepInv'
  <2>1. CASE stopping
    <3>1. \A f \in Entries : Accepted(f)' <=> Accepted(f)
      BY <1>0, <1>3, <2>1 DEF ScheduleInsert, ScheduleRefused, Accepted
    <3> QED
      BY <1>1, <1>3, <2>1, <3>1 DEF ScheduleInsert, ScheduleRefused
  <2>2. CASE ~stopping
    <3>1. /\ Insert(e, plan[e].at) /\ plan[e].at \in Int /\ ~Accepted(e)
          /\ \A f \in Entries : Accepted(f)' <=> Accepted(f) \/ f = e
          /\ UNCHANGED <<fired, pos, handed, canceled, watcherPc, ownerPc>>
          /\ BucketOf(plan[e].at) \in Keys
      BY <1>0, <1>3, <2>2, KeyOfTime DEF ScheduleInsert, ScheduleRefused, Accepted, Plans
    <3>2. (\A k \in Keys : ~FiledAt(e, k)) /\ OneBucket
      BY <1>0, <3>1 DEF PlaceInv
    <3>3. \A f \in Entries, k \in Keys :
            FiledAt(f, k)' <=> FiledAt(f, k) \/ (f = e /\ k = BucketOf(plan[e].at))
      BY <1>0, <3>1, <3>2, InsertPlaces
    <3>4. \A f \in Entries : InBucket(f)' <=> InBucket(f) \/ f = e
      BY <3>1, <3>3 DEF InBucket
    <3>5. \A f \in Entries : InFired(f)' = InFired(f) /\ Finished(f)' = Finished(f)
      BY <3>1 DEF InFired, Finished
    <3>6. Current' = Current /\ ownerPc # "stopped"
      BY <1>0, <2>2, <3>1 DEF Current, ControlInv
    <3> QED
      BY <3>1, <3>4, <3>5, <3>6 DEF KeepInv
  <2> QED
    BY <2>1, <2>2
<1>4. ASSUME NEW e \in Entries, ScheduleNotify(e) PROVE KeepInv'
  <2>1. \A f \in Entries : Accepted(f)' <=> Accepted(f)
    BY <1>0, <1>4 DEF ScheduleNotify, Accepted
  <2>2. watcherPc' = watcherPc \/ watcherPc # "rearm"
    BY <1>4 DEF ScheduleNotify, Wakes
  <2> QED
    BY <1>1, <1>4, <2>1, <2>2 DEF ScheduleNotify
<1>5. ASSUME NEW e \in Entries, HandleNext(e) PROVE KeepInv'
  BY <1>1, <1>5 DEF HandleNext, Cancel, Pause, Resume, ChangePeriod, ChangeMode, Accepted
<1>6. CASE WatcherTake
  <2>1. /\ UNCHANGED <<handed, canceled, callPc, ownerPc>> /\ due \in Keys
        /\ watcherPc = "take"
    BY <1>0, <1>6 DEF WatcherTake, TypeOK
  <2>2. \A f \in Entries : InBucket(f)' \/ InFired(f)' <=> InBucket(f)
    BY <1>0, <1>6, <2>1, TakePlaces DEF InBucket
  <2>3. \A f \in Entries : ~InFired(f)
    BY <1>6, TakePlaces
  <2> QED
    BY <2>1, <2>2, <2>3 DEF KeepInv, Accepted, Finished
<1>7. ASSUME NEW c, c = Current, InLoop, NextEntry, UNCHANGED <<buckets, callPc, ownerPc>>,
             canceled \subseteq canceled', handed \subseteq handed',
             handed' \subseteq handed \cup {c}, Finished(c)'
      PROVE  KeepInv'
  <2>1. /\ c \in Entries /\ InFired(c)
        /\ \A f \in Entries : InFired(f)' <=> InFired(f) /\ f # c
    BY <1>7, NextEntryPlaces
  <2>2. \A f \in Entries : InBucket(f)' = InBucket(f) /\ Accepted(f)' = Accepted(f)
    BY <1>7 DEF InBucket, FiledAt, Accepted
  <2>3. Accepted(c) /\ ~InBucket(c)
    BY <1>0, <2>1 DEF PlaceInv, InBucket
  <2>4. \A f \in Entries : f # c => (f \in handed' <=> f \in handed)
    BY <1>7
  <2>5. \A f \in Entries : Finished(f) => Finished(f)'
    BY <1>7 DEF Finished
  <2> QED
    BY <1>7, <2>1, <2>2, <2>3, <2>4, <2>5 DEF KeepInv
<1>8. CASE WatcherCheck
  <2>1. CASE Current \in canceled /\ NextEntry
    <3>1. PICK c : c = Current
      OBVIOUS
    <3>2. Finished(c)'
      BY <1>8, <2>1, <3>1 DEF WatcherCheck, Finished
    <3> QED
      BY <1>7, <1>8, <2>1, <3>1, <3>2 DEF WatcherCheck, InLoop
  <2>2. CASE watcherPc' = "pause" /\ UNCHANGED <<jobState, fired, pos>>
    BY <1>1, <1>8, <2>2 DEF WatcherCheck, Accepted
  <2> QED
    BY <1>8, <2>1, <2>2 DEF WatcherCheck, Skips
<1>9. CASE WatcherDispatch
  <2>1. CASE /\ handed' = handed \cup {Current} /\ watcherPc' = "rearm"
             /\ UNCHANGED <<canceled, fired, pos>>
    <3>1. /\ UNCHANGED <<buckets, callPc, ownerPc>> /\ InLoop
      BY <1>9 DEF WatcherDispatch, InLoop
    <3>2. \A f \in Entries : /\ InBucket(f)' = InBucket(f) /\ Accepted(f)' = Accepted(f)
                             /\ InFired(f)' = InFired(f)
      BY <2>1, <3>1 DEF InBucket, FiledAt, Accepted, InFired
    <3>3. Current \in Entries /\ InFired(Current) /\ Current' = Current
      <4>1. fired \in Seq(Entries) /\ pos \in 1 .. Len(fired) /\ Len(fired) \in Nat
        BY <1>0, <3>1 DEF ControlInv, TypeOK
      <4>2. Current' = Current
        BY <2>1 DEF Current
      <4> QED
        BY <4>1, <4>2 DEF Current, InFired
    <3>4. Accepted(Current) /\ ~InBucket(Current)
      BY <1>0, <3>3 DEF PlaceInv, InBucket
    <3>5. \A f \in Entries : Finished(f) => Finished(f)'
      BY <2>1 DEF Finished
    <3>6. watcherPc = "dispatch"
      BY <1>9 DEF WatcherDispatch
    <3> QED
      BY <2>1, <3>1, <3>2, <3>3, <3>4, <3>5, <3>6 DEF KeepInv
  <2>2. CASE /\ NextEntry /\ canceled' = canceled \cup {Current}
             /\ UNCHANGED handed \/ handed' = handed \cup {Current}
    <3>1. PICK c : c = Current
      OBVIOUS
    <3>2. Finished(c)'
      BY <2>2, <3>1 DEF Finished
    <3> QED
      BY <1>7, <1>9, <2>2, <3>1, <3>2 DEF WatcherDispatch, InLoop
  <2> QED
    BY <1>9, <2>1, <2>2 DEF WatcherDispatch
<1>10. CASE WatcherRearm
  <2>1. CASE ~Rearms(Current) /\ NextEntry
    <3>1. PICK c : c = Current
      OBVIOUS
    <3>2. Finished(c)'
      BY <1>0, <1>10, <2>1, <3>1 DEF WatcherRearm, Rearms, RepeatInv, Finished
    <3> QED
      BY <1>7, <1>10, <2>1, <3>1, <3>2 DEF WatcherRearm, InLoop
  <2>2. CASE Rearms(Current) /\ watcherPc' = "insert" /\ UNCHANGED <<fired, pos>>
    <3>1. UNCHANGED <<buckets, callPc, ownerPc, handed, canceled>>
      BY <1>10 DEF WatcherRearm
    <3>2. \A f \in Entries : /\ InBucket(f)' = InBucket(f) /\ Accepted(f)' = Accepted(f)
                             /\ InFired(f)' = InFired(f) /\ Finished(f)' = Finished(f)
      BY <2>2, <3>1 DEF InBucket, FiledAt, Accepted, InFired, Finished
    <3>3. \A f \in Entries \ Repeats : f # Current
      BY <2>2 DEF Rearms
    <3> QED
      BY <2>2, <3>1, <3>2, <3>3 DEF KeepInv
  <2> QED
    BY <1>10, <2>1, <2>2 DEF WatcherRearm
<1>11. CASE WatcherInsert
  <2> DEFINE e == Current
  <2>1. /\ InLoop /\ NextEntry /\ Insert(e, plan[e].at)
        /\ UNCHANGED <<callPc, handed, canceled, ownerPc>>
        /\ watcherPc = "insert" /\ e \in Repeats
    BY <1>0, <1>11 DEF WatcherInsert, InLoop, RepeatInv
  <2>2. /\ e \in Entries /\ InFired(e)
        /\ \A f \in Entries : InFired(f)' <=> InFired(f) /\ f # e
    BY <2>1, NextEntryPlaces
  <2>3. /\ \A k \in Keys : ~FiledAt(e, k)
        /\ plan[e].at \in Int /\ OneBucket /\ BucketOf(plan[e].at) \in Keys
    BY <1>0, <2>2, KeyOfTime DEF PlaceInv, Plans
  <2> HIDE DEF e
  <2>4. \A f \in Entries, k \in Keys :
            FiledAt(f, k)' <=> FiledAt(f, k) \/ (f = e /\ k = BucketOf(plan[e].at))
    BY <1>0, <2>1, <2>2, <2>3, InsertPlaces
  <2>5. \A f \in Entries : InBucket(f)' <=> InBucket(f) \/ f = e
    BY <2>3, <2>4 DEF InBucket
  <2>6. \A f \in Entries : Accepted(f)' = Accepted(f) /\ Finished(f)' = Finished(f)
    BY <2>1 DEF Accepted, Finished
  <2>7. ownerPc # "stopped"
    BY <1>0, <2>1 DEF ControlInv
  <2> QED
    BY <2>1, <2>2, <2>5, <2>6, <2>7 DEF KeepInv
<1>12. CASE StopClear
  <2>1. /\ \A k \in Keys : buckets'[k] = <<>>
        /\ canceled' = canceled \cup {f \in Entries : Filed(f)}
        /\ UNCHANGED <<fired, pos, callPc, handed>>
        /\ ownerPc = "join" /\ watcherPc = "exited"
    BY <1>12 DEF StopClear
  <2>2. \A f \in Entries : ~InBucket(f)' /\ ~InFired(f) /\ ~InFired(f)'
    BY <1>0, <2>1 DEF InBucket, FiledAt, InFired, ControlInv, InLoop
  <2>3. \A f \in Entries : InBucket(f) => f \in canceled'
    BY <1>0, <2>1, FiledIsInBucket
  <2>4. \A f \in Entries : Accepted(f)' = Accepted(f) /\ (Finished(f) => Finished(f)')
    BY <2>1 DEF Accepted, Finished
  <2>5. \A f \in Entries : Accepted(f)' => Finished(f)'
    BY <2>2, <2>3, <2>4 DEF KeepInv, Finished
  <2> QED
    BY <2>1, <2>2, <2>4, <2>5 DEF KeepInv
<1>13. CASE Start \/ StopCall \/ StopNotify
  <2>1. watcherPc' = watcherPc \/ watcherPc # "rearm"
    BY <1>0, <1>13 DEF Start, StopCall, StopNotify, StopTells, Wakes, ControlInv
  <2> QED
    BY <1>1, <1>13, <2>1 DEF Start, StopCall, StopNotify, Accepted
<1>14. CASE \/ WatcherPeek \/ WatcherLook \/ WatcherUntil \/ WatcherDeadline
            \/ WatcherPause \/ SpuriousWakeup
  BY <1>1, <1>14 DEF WatcherPeek, WatcherLook, WatcherUntil, WatcherDeadline, WatcherPause,
                     SpuriousWakeup, Accepted
<1>15. CASE ClockTick \/ (\E g \in Targets : CloseTarget(g)) \/ UNCHANGED vars
  BY <1>1, <1>15 DEF ClockTick, CloseTarget, vars, Accepted
<1> QED
  BY <1>2, <1>3, <1>4, <1>5, <1>6, <1>8, <1>9, <1>10, <1>11, <1>12, <1>13, <1>14, <1>15
     DEF Next, ScheduleNext, WatcherNext, OwnerNext

TimerInv == Placed /\ TimeInv /\ KeepInv

\* TimerInv is the inductive invariant of the timer.
LEMMA TimerInvariant == Spec => []TimerInv
<1>1. Init => TimeInv /\ KeepInv
  <2> SUFFICES ASSUME Init PROVE TimeInv /\ KeepInv
    OBVIOUS
  <2>1. Len(fired) = 0 /\ \A k \in Keys : Len(buckets[k]) = 0
    BY DEF Init
  <2>2. 0 \in -Horizon .. Horizon + Tick - 1
    BY HorizonBounds, TimeAssumption
  <2>3. \A e \in Entries : plan[e].at = 0 /\ callPc[e] = "new" /\ e \notin handed
    BY DEF Init, NoPlan
  <2> QED
    BY <2>1, <2>2, <2>3 DEF TimeInv, KeepInv, Accepted, InFired
<1>2. Placed /\ TimeInv /\ KeepInv /\ [Next]_vars => (TimeInv /\ KeepInv)'
  BY TimeInvStep, KeepInvStep
<1> QED
  BY <1>1, <1>2, PlacedInvariant, PTL DEF Spec, TimerInv

-----------------------------------------------------------------------------
(* The properties *)

\* What the watcher hands over is due, to within a tick, and a one-shot callback
\* has not been handed over before.
THEOREM LeavesDueAndOnceSafe == Spec => []LeavesDueAndOnce
<1>1. TimerInv => LeavesDueAndOnce
  <2> SUFFICES ASSUME TimerInv, watcherPc = "dispatch"
               PROVE  /\ plan[Current].at - now < Tick
                      /\ Current \notin Repeats => Current \notin handed
    BY DEF LeavesDueAndOnce, NotEarly, OneShotOnce
  <2>1. fired \in Seq(Entries) /\ pos \in 1 .. Len(fired) /\ Len(fired) \in Nat
    BY DEF TimerInv, Placed, Typed, TypeOK, ControlInv, InLoop
  <2>2. Current \in Entries /\ InFired(Current)
    BY <2>1 DEF Current, InFired
  <2> QED
    BY <2>2 DEF TimerInv, TimeInv, KeepInv
<1> QED
  BY <1>1, TimerInvariant, PTL

\* When Stop has returned, nothing is left in the timer and every entry that it
\* accepted has been handed over or canceled.
THEOREM StoppedIsQuietSafe == Spec => []StoppedIsQuiet
<1>1. TimerInv => StoppedIsQuiet
  BY DEF TimerInv, Placed, Typed, ControlInv, KeepInv, Finished, StoppedIsQuiet
<1> QED
  BY <1>1, TimerInvariant, PTL

\* A set with at most one element.
LEMMA AtMostOneElement ==
  ASSUME NEW S, \A x, y \in S : x = y
  PROVE  Cardinality(S) = IF S = {} THEN 0 ELSE 1
<1>1. CASE S = {}
  BY <1>1, FS_EmptySet
<1>2. CASE S # {}
  <2>1. PICK x : S = {x}
    BY <1>2
  <2> QED
    BY <1>2, <2>1, FS_Singleton
<1> QED
  BY <1>1, <1>2

\* As entries are in a bucket once, no bucket is longer than there are entries.
LEMMA BucketIsShort ==
  ASSUME Placed, NEW k \in Keys
  PROVE  Len(buckets[k]) \in Nat /\ Len(buckets[k]) <= Cardinality(Entries)
<1> DEFINE n == Len(buckets[k])
           f == [i \in 1 .. n |-> buckets[k][i]]
<1>1. buckets[k] \in Seq(Entries) /\ n \in Nat
  BY DEF Placed, Typed, TypeOK
<1>2. f \in Injection(1 .. n, Entries)
  <2>1. f \in [1 .. n -> Entries]
    BY <1>1
  <2>2. \A i, j \in 1 .. n : f[i] = f[j] => i = j
    BY DEF Placed, PlaceInv, OneBucket
  <2> QED
    BY <2>1, <2>2 DEF Injection, IsInjective
<1> HIDE DEF f
<1>3. Cardinality(1 .. n) <= Cardinality(Entries)
  BY <1>2, FS_Injection, UseAssumption
<1>4. Cardinality(1 .. n) = n
  BY <1>1, IntervalSize
<1>5. Cardinality(Entries) \in Nat
  BY UseAssumption, FS_CardinalityType
<1> QED
  BY <1>1, <1>3, <1>4, <1>5

\* An entry is in one place at most, in the bucket of its due time if it is in
\* one; and one that is not canceled, nor a one-shot entry handed over, is
\* somewhere until Stop has returned.
THEOREM NoEntryLostSafe == Spec => []NoEntryLost
<1>1. TimerInv => NoEntryLost
  <2> SUFFICES ASSUME TimerInv, NEW e \in Entries
               PROVE  /\ Cardinality(Filings(e)) + Cardinality(Firings(e)) <= 1
                      /\ \A f \in Filings(e) : f[1] = BucketOf(plan[e].at)
                      /\ Accepted(e) /\ e \notin canceled /\ ownerPc # "stopped"
                           /\ (e \in Repeats \/ e \notin handed)
                         => Filings(e) # {} \/ Firings(e) # {}
    BY DEF NoEntryLost
  <2>0. /\ Placed /\ PlaceInv /\ KeepInv
        /\ buckets \in [Keys -> Seq(Entries)] /\ fired \in Seq(Entries)
        /\ occupied = {k \in Keys : buckets[k] # <<>>}
        /\ Cardinality(Entries) \in Nat
    BY UseAssumption, FS_CardinalityType DEF TimerInv, Placed, Typed, TypeOK
  <2>1. \A f \in Filings(e) : /\ f[1] \in Keys /\ f[2] \in 1 .. Len(buckets[f[1]])
                              /\ buckets[f[1]][f[2]] = e /\ f = <<f[1], f[2]>>
    <3> SUFFICES ASSUME NEW f \in Filings(e)
                 PROVE  /\ f[1] \in Keys /\ f[2] \in 1 .. Len(buckets[f[1]])
                        /\ buckets[f[1]][f[2]] = e /\ f = <<f[1], f[2]>>
      OBVIOUS
    <3>1. /\ f \in Keys \X (1 .. Cardinality(Entries)) /\ f[2] <= Len(buckets[f[1]])
          /\ buckets[f[1]][f[2]] = e
      BY DEF Filings
    <3>2. f[1] \in Keys /\ f[2] \in 1 .. Cardinality(Entries) /\ f = <<f[1], f[2]>>
      BY <3>1
    <3>3. Len(buckets[f[1]]) \in Nat
      BY <2>0, <3>2
    <3> QED
      BY <2>0, <3>1, <3>2, <3>3
  <2>2. Cardinality(Filings(e)) = IF Filings(e) = {} THEN 0 ELSE 1
    <3>1. \A f, g \in Filings(e) : f = g
      <4> SUFFICES ASSUME NEW f \in Filings(e), NEW g \in Filings(e) PROVE f = g
        OBVIOUS
      <4>1. f[1] = g[1] /\ f[2] = g[2]
        BY <2>0, <2>1 DEF PlaceInv, OneBucket
      <4> QED
        BY <2>1, <4>1
    <3> QED
      BY <3>1, AtMostOneElement
  <2>3. Cardinality(Firings(e)) = IF Firings(e) = {} THEN 0 ELSE 1
    <3>1. \A i, j \in Firings(e) : i = j
      BY <2>0 DEF Firings, PlaceInv, OneFired
    <3> QED
      BY <3>1, AtMostOneElement
  <2>4. Firings(e) # {} <=> InFired(e)
    BY <2>0 DEF Firings, InFired
  <2>5. \A f \in Filings(e) : FiledAt(e, f[1])
    BY <2>1 DEF FiledAt
  <2>6. InBucket(e) => Filings(e) # {}
    <3> SUFFICES ASSUME NEW k \in Keys, NEW i \in 1 .. Len(buckets[k]), buckets[k][i] = e
                 PROVE  Filings(e) # {}
      BY DEF InBucket, FiledAt
    <3>1. Len(buckets[k]) \in Nat /\ Len(buckets[k]) <= Cardinality(Entries)
      BY <2>0, BucketIsShort
    <3>2. k \in occupied
      BY <2>0, <3>1
    <3>3. i \in 1 .. Cardinality(Entries)
      BY <2>0, <3>1
    <3>4. <<k, i>> \in Filings(e)
      BY <2>0, <3>1, <3>2, <3>3 DEF Filings
    <3> QED
      BY <3>4
  <2>7. Filings(e) # {} => ~InFired(e)
    BY <2>0, <2>1, <2>5 DEF PlaceInv
  <2>8. \A f \in Filings(e) : f[1] = BucketOf(plan[e].at)
    BY <2>0, <2>1, <2>5 DEF PlaceInv
  <2>9. Accepted(e) /\ e \notin canceled /\ (e \in Repeats \/ e \notin handed)
          => Filings(e) # {} \/ Firings(e) # {}
    BY <2>0, <2>4, <2>6 DEF KeepInv, Finished
  <2>10. Cardinality(Filings(e)) + Cardinality(Firings(e)) <= 1
    BY <2>2, <2>3, <2>4, <2>7
  <2> QED
    BY <2>8, <2>9, <2>10
<1> QED
  BY <1>1, TimerInvariant, PTL

\* A canceled entry that the watcher is not about to hand over: it will skip it.
Doomed(e) ==
  e \in canceled /\ ~(watcherPc \in {"pause", "dispatch"} /\ Current = e)

\* No step gets the watcher past its check of a canceled entry.
LEMMA DoomedStep ==
  ASSUME NEW e \in Entries
  PROVE  Typed /\ Doomed(e) /\ [Next]_vars => Doomed(e)'
<1> SUFFICES ASSUME Typed, Doomed(e), [Next]_vars PROVE Doomed(e)'
  OBVIOUS
<1> USE DEF timerVars, entryVars, watcherVars
<1>1. ASSUME UNCHANGED <<fired, pos>>, canceled \subseteq canceled',
             watcherPc' = watcherPc \/ watcherPc' \notin {"pause", "dispatch"}
      PROVE  Doomed(e)'
  BY <1>1 DEF Doomed, Current
<1>2. ASSUME watcherPc' \notin {"pause", "dispatch"}, canceled \subseteq canceled'
      PROVE  Doomed(e)'
  BY <1>2 DEF Doomed
<1>3. ASSUME NEW f \in Entries, ScheduleNext(f) PROVE Doomed(e)'
  BY <1>1, <1>3 DEF ScheduleNext, ScheduleAt, ScheduleRepeat, ScheduleInsert,
                    ScheduleNotify, Wakes
<1>4. ASSUME NEW f \in Entries, HandleNext(f) PROVE Doomed(e)'
  BY <1>1, <1>4 DEF HandleNext, Cancel, Pause, Resume, ChangePeriod, ChangeMode
<1>5. CASE WatcherPeek \/ WatcherLook \/ WatcherUntil \/ WatcherDeadline \/ WatcherTake
  BY <1>2, <1>5 DEF WatcherPeek, WatcherLook, WatcherUntil, WatcherDeadline, AfterWait,
                    WatcherTake
<1>6. CASE WatcherCheck
  <2>1. CASE Skips(Current)
    BY <1>2, <1>6, <2>1 DEF WatcherCheck, NextEntry
  <2>2. CASE ~Skips(Current)
    <3>1. Current # e
      BY <2>2 DEF Skips, Doomed
    <3> QED
      BY <1>6, <2>2, <3>1 DEF WatcherCheck, Doomed, Current
  <2> QED
    BY <2>1, <2>2
<1>7. CASE WatcherPause
  BY <1>7 DEF WatcherPause, Doomed, Current
<1>8. CASE WatcherDispatch
  BY <1>2, <1>8 DEF WatcherDispatch, NextEntry
<1>9. CASE WatcherRearm \/ WatcherInsert
  BY <1>2, <1>9 DEF WatcherRearm, WatcherInsert, NextEntry
<1>10. CASE SpuriousWakeup
  BY <1>1, <1>10 DEF SpuriousWakeup, Wakes
<1>11. CASE OwnerNext
  BY <1>1, <1>11 DEF OwnerNext, Start, StopCall, StopNotify, StopTells, Wakes, StopClear
<1>12. CASE ClockTick \/ (\E g \in Targets : CloseTarget(g)) \/ UNCHANGED vars
  BY <1>1, <1>12 DEF ClockTick, CloseTarget, vars
<1> QED
  BY <1>3, <1>4, <1>5, <1>6, <1>7, <1>8, <1>9, <1>10, <1>11, <1>12 DEF Next, WatcherNext

\* An entry that is canceled while it waits in a bucket is never handed over.
THEOREM CancelSticksSafe == Spec => CancelSticks
<1>1. ASSUME NEW e \in Entries
      PROVE  Spec => [](e \in canceled /\ Filed(e) =>
                          [](~(watcherPc = "dispatch" /\ Current = e)))
  <2>1. Placed /\ e \in canceled /\ Filed(e) => Doomed(e)
    <3> SUFFICES ASSUME Placed, e \in canceled, Filed(e),
                        watcherPc \in {"pause", "dispatch"}, Current = e
                 PROVE  FALSE
      BY DEF Doomed
    <3>1. fired \in Seq(Entries) /\ pos \in 1 .. Len(fired) /\ Len(fired) \in Nat
      BY DEF Placed, Typed, TypeOK, ControlInv, InLoop
    <3>2. InFired(e)
      BY <3>1 DEF InFired, Current
    <3>3. InBucket(e)
      BY FiledIsInBucket DEF Placed, Typed
    <3> QED
      BY <3>2, <3>3 DEF InBucket, Placed, PlaceInv
  <2>2. Placed /\ Doomed(e) /\ [Next]_vars => Doomed(e)'
    BY DoomedStep DEF Placed
  <2>3. Doomed(e) => ~(watcherPc = "dispatch" /\ Current = e)
    BY DEF Doomed
  <2> QED
    BY <2>1, <2>2, <2>3, PlacedInvariant, PTL DEF Spec
<1> QED
  BY <1>1 DEF CancelSticks
=============================================================================
