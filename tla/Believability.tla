---------------------------- MODULE Believability ----------------------------
(***************************************************************************)
(* The believability evidence a run is sealed with                         *)
(* (services/believability.py), and the human reviews of reflections that   *)
(* it counts (services/reflection_governance.py).  The tables only grow:    *)
(* an evaluation set that grew evaluates the same opinions again, a         *)
(* reflection is superseded by a later one, a reflection is reviewed once.  *)
(* A snapshot is taken for a data cutoff that has passed, and must hold     *)
(* what was known by then and nothing learnt since.                         *)
(*                                                                         *)
(* Time is counted in days, and a row's times are the day it was committed, *)
(* but for reviewed_at, which the reviewer declares.  A profile is about    *)
(* one agent, index and horizon; hashes stand for the rows they cover.      *)
(***************************************************************************)
EXTENDS Integers, FiniteSets

CONSTANTS
  Opinions,          \* opinions of completed live runs, in the index and horizon
  OpinionDay,        \* OpinionDay[o]: its target date
  CurrentIdentity,   \* the opinions by the agent's current version and model
  SignCorrect,       \* SignCorrect[o]: TRUE, FALSE, or Undecided
  Reflections,       \* reflections of such runs
  ReflectionDay,     \* ReflectionDay[r]: its target date
  Lineage,           \* Lineage[r]: source run, horizon, date and evaluation set
  Successor,         \* Successor[r]: the reflection r supersedes, or Undecided
  Place,             \* Place[r]: its place by date, horizon, creation and id
  Finding,           \* Finding[r]: the verdict of its finding about the agent, if any
  RequiredDates,     \* required_live_target_dates
  RequiredReviews,   \* required_approved_reflections
  Predating,         \* a reviewer may declare a day that has passed
  MaxDays,           \* bound on the days
  MaxSets,           \* bound on the evaluation sets an opinion is in
  MaxSeals,          \* bound on the snapshots taken
  Undecided          \* no value

ASSUME BelievabilityConfiguration ==
  /\ IsFiniteSet(Opinions) /\ IsFiniteSet(Reflections)
  /\ OpinionDay \in [Opinions -> Nat] /\ ReflectionDay \in [Reflections -> Nat]
  /\ CurrentIdentity \subseteq Opinions
  /\ Successor \in [Reflections -> Reflections \cup {Undecided}]
  /\ \A r \in Reflections : Place[r] \in Nat /\
       \A q \in Reflections \ {r} : Place[q] # Place[r]
  /\ RequiredDates \in Nat /\ RequiredReviews \in Nat
  /\ Predating \in BOOLEAN
  /\ MaxDays \in Nat /\ MaxSets \in Nat /\ MaxSeals \in Nat

VARIABLES
  day,          \* today
  appraisals,   \* tables opinion_evaluations and evaluation_batches
  reflectedOn,  \* reflectedOn[r]: the day r was completed, 0 before that
  reviews,      \* reviews[r]: the human review of r
  seals         \* the snapshots taken, with their cutoffs

believabilityVars == <<day, appraisals, reflectedOn, reviews, seals>>

BelievabilityInit ==
  /\ day = 1
  /\ appraisals = {}
  /\ reflectedOn = [r \in Reflections |-> 0]
  /\ reviews = [r \in Reflections |-> Undecided]
  /\ seals = {}

NextDay ==
  /\ day < MaxDays
  /\ day' = day + 1
  /\ UNCHANGED <<appraisals, reflectedOn, reviews, seals>>

-----------------------------------------------------------------------------
(* What the tables gain.                                                   *)

SetsOf(o) == {x \in appraisals : x.opinion = o}

\* A batch evaluates an opinion of a session that has closed, once more each
\* time its evaluation set has grown.
Appraise(o) ==
  /\ OpinionDay[o] <= day
  /\ Cardinality(SetsOf(o)) < MaxSets
  /\ appraisals' = appraisals \cup
       {[opinion |-> o, at |-> day, set |-> Cardinality(SetsOf(o)) + 1]}
  /\ UNCHANGED <<day, reflectedOn, reviews, seals>>

\* A reflection is completed, a successor after the one it corrects.
Reflect(r) ==
  /\ reflectedOn[r] = 0 /\ ReflectionDay[r] <= day
  /\ Successor[r] # Undecided => reflectedOn[Successor[r]] # 0
  /\ reflectedOn' = [reflectedOn EXCEPT ![r] = day]
  /\ UNCHANGED <<day, appraisals, reviews, seals>>

\* record_reflection_human_review: one decision on a completed reflection, dated
\* at its completion at the earliest; the same decision again changes nothing
\* and another one is refused.
Review(r, decision, at) ==
  /\ reflectedOn[r] # 0 /\ reflectedOn[r] <= at
  /\ at <= day /\ (Predating \/ at = day)
  /\ reviews[r] = Undecided
  /\ reviews' = [reviews EXCEPT ![r] = [decision |-> decision, at |-> at]]
  /\ UNCHANGED <<day, appraisals, reflectedOn, seals>>

-----------------------------------------------------------------------------
(* The gate as of a cutoff.                                                *)

KnownBy(at, cutoff) == at # 0 /\ at <= cutoff

\* The completed reflections of sessions up to the cutoff.
Completions(cutoff) ==
  {r \in Reflections : KnownBy(reflectedOn[r], cutoff) /\ ReflectionDay[r] <= cutoff}

\* A review that counts whenever it was made.
ReviewWhenever(r, cutoff) == reviews[r]

\* A review made after the cutoff is not there yet.
ReviewAsOf(r, cutoff) ==
  IF reviews[r] # Undecided /\ reviews[r].at <= cutoff THEN reviews[r] ELSE Undecided

\* The reflections no completed one has superseded by then.
CurrentHeads(cutoff) ==
  LET rows == Completions(cutoff)
  IN {r \in rows : \A q \in rows : Successor[q] # r}

\* Two heads of one lineage.
LineageConflicts(heads) ==
  {r \in heads : \E q \in heads \ {r} : Lineage[q] = Lineage[r]}

\* Nothing counts as approved while a lineage has two heads.
ApprovedCurrent(heads, cutoff) ==
  {r \in heads : /\ LineageConflicts(heads) = {}
                 /\ ReviewAsOf(r, cutoff) # Undecided
                 /\ ReviewAsOf(r, cutoff).decision = "approved"}

\* A later approval does not pass over an earlier head without one.
ApprovedPrefix(heads, approved) ==
  {r \in approved : \A q \in heads : Place[q] < Place[r] => q \in approved}

DaysOf(rs) == {ReflectionDay[r] : r \in rs}

-----------------------------------------------------------------------------
(* The evidence about the agent.                                           *)

\* An evaluation counts from the day its batch was completed, and only for the
\* identity that is deployed now.
AppraisalsBy(cutoff) ==
  {x \in appraisals : /\ x.opinion \in CurrentIdentity
                      /\ OpinionDay[x.opinion] <= cutoff
                      /\ KnownBy(x.at, cutoff)}

\* _performance_priority: of the evaluations of one opinion, the latest.
Later(x, y) == x.at > y.at \/ (x.at = y.at /\ x.set > y.set)
Performance(cutoff) ==
  LET rows == AppraisalsBy(cutoff)
  IN {x \in rows : \A y \in rows : y.opinion = x.opinion => ~Later(y, x)}

PerformanceDays(rows) == {OpinionDay[x.opinion] : x \in rows}

\* _reasoning_proxy_evidence: the approved reflections with a finding about it.
Reasoning(approved) == {r \in approved : Finding[r] # Undecided}

\* What keeps the agent's evidence below a policy review.
Blockers(heads, approved, rows) ==
  LET prefix == ApprovedPrefix(heads, approved)
  IN {b \in {"reflection_dates", "approved_prefix", "lineage_conflict", "history",
             "reasoning"} :
        \/ b = "reflection_dates" /\ Cardinality(DaysOf(heads)) < RequiredDates
        \/ b = "approved_prefix" /\ Cardinality(prefix) < RequiredReviews
        \/ b = "lineage_conflict" /\ LineageConflicts(heads) # {}
        \/ b = "history" /\ Cardinality(PerformanceDays(rows)) < RequiredDates
        \/ b = "reasoning" /\ Cardinality(DaysOf(Reasoning(approved)))
                                   < RequiredReviews}

Phase(blockers) == IF blockers = {} THEN "governance_review_required" ELSE "shadow"

EvidenceStatus(reasoning, rows, phase) ==
  CASE Cardinality(PerformanceDays(rows)) < RequiredDates -> "insufficient_history"
    [] Cardinality(DaysOf(reasoning)) < RequiredReviews ->
         "insufficient_reasoning_proxy"
    [] phase = "governance_review_required" -> phase
    [] OTHER -> "shadow_observation"

\* The agent's record: its scored opinions, and its findings by verdict.
Profile(reasoning, rows, phase) ==
  LET decided == {x \in rows : SignCorrect[x.opinion] # Undecided}
      with(v) == Cardinality({r \in reasoning : Finding[r] = v})
  IN [sample |-> rows, signs |-> Cardinality(decided),
      correct |-> Cardinality({x \in decided : SignCorrect[x.opinion] = TRUE}),
      approved |-> reasoning, right |-> with("right_reason"),
      lucky |-> with("lucky_correct"), wrong |-> with("wrong"),
      status |-> EvidenceStatus(reasoning, rows, phase)]

\* build_believability_snapshot: the gate and the profile as of a cutoff.
View(cutoff) ==
  LET heads == CurrentHeads(cutoff)
      approved == ApprovedCurrent(heads, cutoff)
      rows == Performance(cutoff)
      blockers == Blockers(heads, approved, rows)
  IN [heads |-> {<<r, ReviewAsOf(r, cutoff)>> : r \in heads},
      prefix |-> ApprovedPrefix(heads, approved),
      conflicts |-> LineageConflicts(heads), blockers |-> blockers,
      phase |-> Phase(blockers),
      profile |-> Profile(Reasoning(approved), rows, Phase(blockers))]

\* prepare_run seals a live run with the evidence as of its data cutoff.
SealEvidence(cutoff) ==
  /\ cutoff \in 1..(day - 1)
  /\ Cardinality(seals) < MaxSeals
  /\ seals' = seals \cup {[cutoff |-> cutoff, view |-> View(cutoff)]}
  /\ UNCHANGED <<day, appraisals, reflectedOn, reviews>>

BelievabilityNext ==
  \/ NextDay
  \/ \E o \in Opinions : Appraise(o)
  \/ \E r \in Reflections : Reflect(r)
  \/ \E r \in Reflections, d \in {"approved", "rejected"}, at \in 1..MaxDays :
       Review(r, d, at)
  \/ \E c \in 1..MaxDays : SealEvidence(c)

BelievabilitySpec == BelievabilityInit /\ [][BelievabilityNext]_believabilityVars

-----------------------------------------------------------------------------
(* Properties.                                                             *)

\* A snapshot is the evidence of its cutoff for good: whatever is evaluated
\* again, corrected or reviewed later, the tables yield it again for that cutoff
\* (build_believability_snapshot: "Freeze historical evidence available
\* strictly by data_cutoff"), as long as reviewers date their reviews when they
\* make them; with Predating it does not hold.
SealReplays == \A s \in seals : s.view = View(s.cutoff)

\* An approved reflection counts only if every completed reflection before it
\* had been approved or corrected by then, and a snapshot asks for a policy
\* review only on the required number of distinct sessions and of approvals
\* made by then (reflection_review_gate_state: "A later approved reflection
\* cannot bypass an earlier unreviewed or rejected current head").
ReviewedFromTheFirst ==
  \A s \in seals :
    LET done == {r \in Reflections : reflectedOn[r] \in 1..s.cutoff}
        yes(r) == reviews[r] # Undecided /\ reviews[r].decision = "approved"
                  /\ reviews[r].at <= s.cutoff
    IN /\ \A r \in s.view.prefix, q \in done :
            /\ yes(r)
            /\ Place[q] < Place[r] => yes(q) \/ \E z \in done : Successor[z] = q
            /\ \A z \in done : z # r /\ Lineage[z] = Lineage[r] =>
                 \E y \in done : Successor[y] = z
       /\ s.view.phase = "governance_review_required" =>
            /\ Cardinality({ReflectionDay[r] : r \in done}) >= RequiredDates
            /\ Cardinality({r \in done : yes(r)}) >= RequiredReviews

EvidenceSealed == SealReplays /\ ReviewedFromTheFirst
==============================================================================
