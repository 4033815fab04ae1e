----------------------------- MODULE MCHandoff -----------------------------
(* Small instances of Handoff for TLC.                                     *)
EXTENDS Handoff, TLC

CONSTANTS p1, p2

\* Operator processes are interchangeable.
ProcSymmetry == Permutations({p1, p2})

\* Bundles labelled with two times of the package's life, and an invalid one.
MCDrafts == [gen : {1, 2}, valid : {TRUE}] \cup {[gen |-> 2, valid |-> FALSE]}
=============================================================================
