------------------------- MODULE MCLessonLifecycle -------------------------
(***************************************************************************)
(* LessonLifecycle with two operators, who take turns (alone) in half of   *)
(* the behaviours and overlap in others.  In the rest the reflections the  *)
(* lessons come from are reviewed: two sessions, the first reflected upon  *)
(* three times (rb corrects ra, rc is of the same lineage and corrects     *)
(* nothing), while a run is sealed with the evidence of a past cutoff.     *)
(***************************************************************************)
EXTENDS LessonLifecycle, Believability, TLC

CONSTANTS RaceClock,   \* bound: commands in a behaviour in which they overlap
          MaxEntries,    \* bound: evaluations, reflections and reviews
          op1, op2, ra, rb, rc, rd

VARIABLES alone,     \* a command starts only when no other one is running
          topic      \* "lessons" or the "evidence" behind them

OpinionDays == (op1 :> 1) @@ (op2 :> 2)
Signs == (op1 :> TRUE) @@ (op2 :> Undecided)
ReflectionDays == (ra :> 1) @@ (rb :> 1) @@ (rc :> 1) @@ (rd :> 2)
Successors == (rb :> ra) @@ [r \in {ra, rc, rd} |-> Undecided]
Places == (ra :> 1) @@ (rb :> 2) @@ (rc :> 3) @@ (rd :> 4)
Verdicts == (ra :> "wrong") @@ (rb :> "right_reason") @@ (rc :> Undecided)
            @@ (rd :> "right_reason")

\* Operators are interchangeable, and so are the ordinary lessons.
LessonSymmetry == Permutations(Operators) \cup Permutations(Lessons \ Checklists)

Turn(o) == alone => \A q \in Operators \ {o} : tx[q].step = "idle"

MCInit ==
    /\ Init /\ BelievabilityInit
    /\ topic \in {"lessons", "evidence"} /\ alone \in BOOLEAN
    /\ topic = "evidence" => alone

Command ==
    \/ \E l \in Lessons : Propose(l)
    \/ Mature
    \/ \E o \in Operators :
        /\ Turn(o)
        /\ \/ \E l \in Lessons, at \in Times :
                /\ alone \/ clock < RaceClock
                /\ \/ \E obs \in (SUBSET Dates) \ {{}} : LoadReplay(o, l, obs, at)
                   \/ LoadApprove(o, l, at)
                   \/ \E valid \in BOOLEAN : LoadRevalidate(o, l, valid, at)
           \/ ReadBatches(o) \/ ReadHeads(o) \/ ReadSequence(o)
           \/ CommitReplay(o) \/ CommitApprove(o) \/ CommitRevalidate(o)
           \/ Crash(o)

Entries ==
    Cardinality(appraisals) + Cardinality({r \in Reflections : reflectedOn[r] # 0})
      + Cardinality({r \in Reflections : reviews[r] # Undecided})

MCNext ==
    \/ topic = "lessons" /\ Command /\ UNCHANGED <<believabilityVars, alone, topic>>
    \/ topic = "evidence" /\ BelievabilityNext /\ Entries' <= MaxEntries
       /\ UNCHANGED <<vars, alone, topic>>

MCSpec == MCInit /\ [][MCNext]_<<vars, believabilityVars, alone, topic>>

\* The cluster has one head at most, whatever overlaps; if commands take turns, the
\* audit accepts all that they have written and a lesson is in force on replay
\* evidence only (approve_lesson, revalidate_lesson, verify_lesson_audit).
AuditStands == OneHead /\ (alone => AuditVerifies /\ EarnedByReplay)

\* If commands take turns, a revalidation confirms an ordinary lesson only on dates that
\* the previous validation had not seen (revalidate_lesson).  Two that overlap may both
\* confirm it on the same dates, since the lesson is read before the sequence number.
FreshEvidence == [][alone => ConfirmsAfresh]_vars
=============================================================================
