---------------------------- MODULE MCThreadPool ----------------------------
(* Small instances of ThreadPool for TLC.                                  *)
EXTENDS ThreadPool, TLC

\* Threads of one kind and tasks are interchangeable in every safety run.
Symmetric == Permutations(Tasks) \cup Permutations(Producers) \cup Permutations(Workers)
=============================================================================
