----------------------------- MODULE MCJobQueue -----------------------------
(* Small instances of JobQueue for TLC: symmetry among the jobs and among    *)
(* the threads of one role, none of which the specification tells apart.     *)
EXTENDS JobQueue

Symmetry ==
  Permutations(Jobs) \cup Permutations(Clients) \cup Permutations(Workers)
    \cup Permutations(Stoppers) \cup Permutations(Cancelers)
=============================================================================
