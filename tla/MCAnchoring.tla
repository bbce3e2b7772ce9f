----------------------------- MODULE MCAnchoring -----------------------------
(* Small instances of Anchoring for TLC.                                   *)
EXTENDS Anchoring, TLC

\* Records are interchangeable: nothing orders or names them.
Symmetric == Permutations(Records)
=============================================================================
