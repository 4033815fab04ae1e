---------------------------- MODULE ResearchLedger ----------------------------
(***************************************************************************)
(* What follows a completed v2 run: blind reasoning reviews, outcome       *)
(* evaluation, reflections with their human review, and the activation of  *)
(* the D1 target (backend/app/services/research_v2.py 864-1552,            *)
(* backend/app/services/research_v2_shadow.py 768-924).  All tables are    *)
(* append-only.  A command that writes at most one row behind a unique     *)
(* index is one step; activation reads its evidence and commits later.     *)
(***************************************************************************)
EXTENDS ResearchRuns

CONSTANTS RequiredDates,      \* 20 forward target dates
          RequiredApprovals   \* the earliest 10 of them

ASSUME ActivationPolicy ==
    RequiredDates \in Nat \ {0} /\ RequiredApprovals \in 1..RequiredDates

VARIABLES
    reviewed,    \* reasoning_reviews_v2: the signals with a review
    judged,      \* reasoning_review_human_events_v2: those a human decided on
    observed,    \* outcome_observations_v2: episodes with an outcome
    scored,      \* signal_evaluations_v2 and forecast_evaluations_v2
    reflected,   \* reflections_v2: runs whose D1 forecast has one
    verdict,     \* verdict[i]: the human review of that reflection
    gate         \* evidence an activation command has read, or Nothing

ledgerVars == <<reviewed, judged, observed, scored, reflected, verdict, gate>>

\* A signal is a committee track of a run or a shadow agent on it.
SignalIds == Inputs \X (Tracks \cup ShadowAgents)
D1 == Decisions \cap Daily
Episode == [anchor : Nat, track : Tracks, mode : {"live", "demo"}]
Verdicts == {"none", "approved", "rejected"}

LedgerTypeOK ==
    /\ reviewed \subseteq SignalIds /\ judged \subseteq reviewed
    /\ observed \subseteq Episode
    /\ scored \subseteq SignalIds
    /\ reflected \subseteq Inputs
    /\ verdict \in [Inputs -> Verdicts]
    /\ gate \in (SUBSET Inputs) \cup {Nothing}
    /\ activations \in Seq(ActivationEvents(Inputs))

LedgerInit ==
    /\ reviewed = {} /\ judged = {} /\ observed = {} /\ scored = {} /\ reflected = {}
    /\ verdict = [i \in Inputs |-> "none"]
    /\ gate = Nothing
    /\ activations = <<>>

-----------------------------------------------------------------------------
(* Reasoning reviews.                                                      *)

ReviewsOf(i) == {x \in reviewed : x[1] = i}

\* finalize_reasoning_review: all inputs of the run's task at once; any review that is
\* there already, a shadow's too, makes it return the same set or refuse.
FinalizeReasoning(i) ==
    /\ dir[i].reviews # {}
    /\ ReviewsOf(i) = {}
    /\ reviewed' = reviewed \cup ({i} \X dir[i].reviews)
    /\ UNCHANGED <<runVars, activations, judged, observed, scored, reflected, verdict, gate>>

\* finalize_shadow_reasoning_review_v2: one filed shadow signal, once.
FinalizeShadowReasoning(i, a) ==
    /\ [run |-> i, agent |-> a] \in filed
    /\ <<i, a>> \notin reviewed
    /\ reviewed' = reviewed \cup {<<i, a>>}
    /\ UNCHANGED <<runVars, activations, judged, observed, scored, reflected, verdict, gate>>

\* review_reasoning: the one human decision on a review that asks for it.
ReviewReasoning(x) ==
    /\ x \in reviewed \ judged
    /\ judged' = judged \cup {x}
    /\ UNCHANGED <<runVars, activations, reviewed, observed, scored, reflected, verdict, gate>>

-----------------------------------------------------------------------------
(* Outcomes and reflections.                                               *)

\* The scoreable signals of an episode; shadow signals are D1 natural views.
Scoreable(e) ==
    {<<s.run, s.track>> : s \in {r \in issued : /\ r.track = e.track
                                                /\ Anchor[r.run] = e.anchor
                                                /\ Mode[r.run] = e.mode}}
    \cup {<<s.run, s.agent>> : s \in {r \in shadows : /\ e.track \in D1
                                                      /\ Anchor[r.run] = e.anchor
                                                      /\ Mode[r.run] = e.mode}}

\* evaluate_research_target, after the close of the target session: the one outcome of
\* the episode and every evaluation that is missing, in one transaction.
Evaluate(e) ==
    /\ day >= e.anchor + Horizon[e.track]
    /\ Scoreable(e) # {}
    /\ observed' = observed \cup {e}
    /\ scored' = scored \cup Scoreable(e)
    /\ UNCHANGED <<runVars, activations, reviewed, judged, reflected, verdict, gate>>

ScoredRuns == {i \in Inputs : \E t \in D1 : <<i, t>> \in scored}

\* create_reflection_v2: an evaluated D1 forecast, one reflection each.
CreateReflection(i) ==
    /\ i \in ScoredRuns \ reflected
    /\ reflected' = reflected \cup {i}
    /\ UNCHANGED <<runVars, activations, reviewed, judged, observed, scored, verdict, gate>>

\* review_reflection_v2: the first human decision stands.
ReviewReflection(i, v) ==
    /\ i \in reflected /\ verdict[i] = "none"
    /\ verdict' = [verdict EXCEPT ![i] = v]
    /\ UNCHANGED <<runVars, activations, reviewed, judged, observed, scored, reflected, gate>>

-----------------------------------------------------------------------------
(* Activation.                                                             *)

EligibleAnyMode(S) == S

\* Evaluated live D1 forecasts.
Eligible(S) == {i \in S : Mode[i] = "live"}

\* One forecast for each target date (first_by_target_date), in a fixed order.
FirstByDate(S) == {CHOOSE i \in S : Anchor[i] = a : a \in {Anchor[i] : i \in S}}

\* The K earliest of them.
Earliest(S) == {i \in S : Cardinality({j \in S : Anchor[j] < Anchor[i]}) < RequiredApprovals}

\* activate_d1_v2 up to its last read: the report of an agent evaluation that passes (an
\* input), enough dates, the earliest all approved, and no activation in force (that one
\* is returned).
ActivateRead(passes) ==
    LET first == FirstByDate(Eligible(ScoredRuns)) IN
    /\ gate = Nothing /\ passes
    /\ Cardinality(first) >= RequiredDates
    /\ \A i \in Earliest(first) : verdict[i] = "approved"
    /\ ~Activated
    /\ gate' = Earliest(first)
    /\ UNCHANGED <<runVars, activations, reviewed, judged, observed, scored, reflected, verdict>>

ActivateCommit ==
    /\ gate # Nothing
    /\ activations' = Append(activations, [type |-> "activated", evidence |-> gate])
    /\ gate' = Nothing
    /\ UNCHANGED <<runVars, reviewed, judged, observed, scored, reflected, verdict>>

\* A retired event, appended by hand: no command of the repository writes one.
Retire ==
    /\ Activated
    /\ activations' = Append(activations, [type |-> "retired", evidence |-> {}])
    /\ UNCHANGED <<runVars, ledgerVars>>

LedgerStep ==
    \/ \E i \in Inputs :
        \/ FinalizeReasoning(i)
        \/ \E a \in ShadowAgents : FinalizeShadowReasoning(i, a)
        \/ \E x \in ReviewsOf(i) : ReviewReasoning(x)
        \/ CreateReflection(i)
        \/ \E v \in Verdicts \ {"none"} : ReviewReflection(i, v)
    \/ \E i \in Inputs, t \in Tracks :
        Evaluate([anchor |-> Anchor[i], track |-> t, mode |-> Mode[i]])
    \/ (\E passes \in BOOLEAN : ActivateRead(passes)) \/ ActivateCommit \/ Retire

\* Commands on runs and everything that follows them, in any order.
ProgrammeStep == (RunStep /\ UNCHANGED <<ledgerVars, activations>>) \/ LedgerStep

ProgrammeSpec ==
    RunInit /\ LedgerInit /\ [][ProgrammeStep]_<<runVars, ledgerVars, activations>>

-----------------------------------------------------------------------------
(* What is promised.                                                       *)

\* A formal forecast rests on an activation whose cited forecasts are live, scored and
\* approved by a human, on enough distinct dates (activate_d1_v2, _effective_lane).
FormalIsEarned ==
    /\ \A n \in DOMAIN activations : activations[n].type = "activated" =>
        /\ Cardinality(activations[n].evidence) = RequiredApprovals
        /\ \A i \in activations[n].evidence :
                i \in ScoredRuns /\ Mode[i] = "live" /\ verdict[i] = "approved"
    /\ \A s \in issued : s.lane = "formal" => Mode[s.run] = "live" /\ activations # <<>>

\* An observed episode has every one of its signals scored: none can be accepted, by
\* finalization or as a shadow, once the outcome may be known
\* (_prediction_finalize_deadline, _validate_acceptance_time, evaluate_research_target).
NoSignalAfterOutcome ==
    \A e \in observed : Scoreable(e) \subseteq scored

\* A run has one outcome in its row, its files and its receipt, and no signal
\* enters an episode that is scored (finalize_research_run, _persist_shadow_signal).
OutcomesStand == OneOutcome /\ NoSignalAfterOutcome

\* A shadow's own review leaves the review of the committee open or done
\* (finalize_shadow_reasoning_review_v2).
ReviewStaysOpen ==
    \A i \in Inputs : ReviewsOf(i) # {} =>
        {<<s.run, s.track>> : s \in SignalsOf(i)} \subseteq reviewed
=============================================================================
