----------------------------- MODULE SerialQueue -----------------------------
(***************************************************************************)
(* What JobQueue promises its users: a strand on which each job is         *)
(* accepted at most once, and run at most once, or given up.               *)
(***************************************************************************)
EXTENDS JobStrand, SequencesExt

VARIABLE fate  \* what has become of each job

vars == <<open, waiting, active, fate>>

Fates == {"Fresh", "Waiting", "Active", "Ran", "Dropped"}

Init == StrandInit /\ fate = [j \in Jobs |-> "Fresh"]

Accept(j) ==
  /\ Enter(j)
  /\ fate[j] = "Fresh"
  /\ fate' = [fate EXCEPT ![j] = "Waiting"]

Take == Start /\ fate' = [fate EXCEPT ![Head(waiting)] = "Active"]

\* The active job has run, or was skipped because it had been canceled.
End(j) ==
  /\ Leave(j)
  /\ \E f \in {"Ran", "Dropped"} : fate' = [fate EXCEPT ![j] = f]

Close == Shut /\ UNCHANGED fate

GiveUp ==
  /\ Abandon
  /\ fate' = [j \in Jobs |-> IF j \in ToSet(waiting) THEN "Dropped" ELSE fate[j]]

Next ==
  \/ \E j \in Jobs : Accept(j) \/ End(j)
  \/ Take
  \/ Close
  \/ GiveUp

Spec == Init /\ [][Next]_vars
=============================================================================
