--------------------------- MODULE MCJobExecution ---------------------------
(***************************************************************************)
(* JobExecution with two operators.  In half of the behaviours they contest *)
(* the execution's manifest and handoff and no draft is written; in the     *)
(* others they agree on both and contest drafts and receipts.               *)
(***************************************************************************)
EXTENDS JobExecution, TLC

CONSTANTS o1, o2, j1, j2, d1, d2, m1, m2

VARIABLE binding    \* the behaviour is about manifests and handoffs

\* Operators, and the contents nothing distinguishes, are interchangeable.
StoreSymmetry ==
    Permutations({o1, o2}) \cup Permutations({j1, j2})
        \cup Permutations({d1, d2}) \cup Permutations({m1, m2})

MCInit == Init /\ binding \in BOOLEAN

MCNext ==
    \/ \E o \in Operators :
        \/ /\ Call(o, IF binding THEN Manifests ELSE {m1}, IF binding THEN Jobs ELSE {j1})
           /\ UNCHANGED binding
        \/ Step(o) /\ UNCHANGED binding
    \/ ~binding /\ Outside(j1) /\ UNCHANGED binding

MCSpec == MCInit /\ [][MCNext]_<<vars, binding>>
=============================================================================
