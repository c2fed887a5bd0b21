------------------------------ MODULE JobStrand ------------------------------
(***************************************************************************)
(* A strand, as the README of lib/include/job, 2.2, has it: jobs are taken *)
(* in the order they were accepted, one at a time; the next one starts     *)
(* after the previous one ended; once the queue is closed no job is        *)
(* accepted. A job may be accepted again, also while it runs.              *)
(***************************************************************************)
EXTENDS Sequences

CONSTANT Jobs

VARIABLES
  open,     \* are jobs still accepted?
  waiting,  \* accepted jobs not taken yet, oldest first
  active    \* the job taken last if it has not ended: a set of at most one

strandVars == <<open, waiting, active>>

StrandInit ==
  /\ open = TRUE
  /\ waiting = <<>>
  /\ active = {}

Enter(j) ==
  /\ open
  /\ waiting' = Append(waiting, j)
  /\ UNCHANGED <<open, active>>

\* The oldest waiting job is taken, and only if none is active.
Start ==
  /\ active = {}
  /\ waiting # <<>>
  /\ active' = {Head(waiting)}
  /\ waiting' = Tail(waiting)
  /\ UNCHANGED open

Leave(j) ==
  /\ active = {j}
  /\ active' = {}
  /\ UNCHANGED <<open, waiting>>

Shut ==
  /\ open
  /\ open' = FALSE
  /\ UNCHANGED <<waiting, active>>

\* A closed queue may give up everything that waits; never only a part of it.
Abandon ==
  /\ ~open
  /\ waiting' = <<>>
  /\ UNCHANGED <<open, active>>

StrandNext ==
  \/ \E j \in Jobs : Enter(j) \/ Leave(j)
  \/ Start \/ Shut \/ Abandon

StrandSpec == StrandInit /\ [][StrandNext]_strandVars
=============================================================================
