------------------------- MODULE ReflectionFindings -------------------------
(***************************************************************************)
(* What a Daily Reflection may say (services/reflection_handoff.py, with    *)
(* the diagnosis of services/reflection.py).  `prepare` turns one run's     *)
(* opinions, forecasts and outcomes into assignments, `freeze-sources`      *)
(* dates the captured sources against the run's cutoff and the target's     *)
(* close, and `finalize` accepts an analysis with one finding for every     *)
(* assignment and files each finding under what could have been known.      *)
(*                                                                          *)
(* The findings of an analysis are validated one by one, so the model       *)
(* follows one of them (the subject) and lets the draft writer fill in the  *)
(* others with findings that pass; an analysis is refused as a whole.       *)
(* Returns are counted in noise thresholds.  A source is named by the time  *)
(* it was published.  The rows a request is made from never change, so its  *)
(* assignments are computed from them; files, rows and locks are            *)
(* ReflectionHandoff's.                                                     *)
(***************************************************************************)
EXTENDS Integers, FiniteSets

CONSTANTS
  Indexes,       \* the default market universe: numbers
  Analysts,      \* required agents whose direction is scored
  Critic, Cio,   \* the risk critic and the CIO
  Optional,      \* other active agents of the registry
  Evidence,      \* evidence items
  Returns,       \* actual returns, in thresholds
  Published,     \* publication times of sources
  Cutoff, Close  \* the run's data cutoff and the target's close

ASSUME FindingsConfiguration ==
  /\ Indexes \subseteq Nat \ {0} /\ Cardinality(Indexes) = 5
  /\ Returns \cup Published \cup {Cutoff, Close} \subseteq Int
  /\ Cutoff < Close

VARIABLES
  market,        \* each index's return, its percentile class, the breadth
  council,       \* the persisted opinions, by index and agent, and forecasts
  scored,        \* the indexes whose forecast has been evaluated
  original,      \* evidence ids of the run's input.json
  candidates,    \* sources the draft writer discovered
  captured,      \* sources.json
  filed,         \* the stored finding of the followed assignment
  stage          \* "due", "prepared", "discovered", "frozen", "drafted", "done"

findingsVars == <<market, council, scored, original, candidates,
                  captured, filed, stage>>

Required == Analysts \cup {Critic, Cio}
Agents == Required \cup Optional
Directions == {"up", "down"}
Abs(r) == IF r < 0 THEN -r ELSE r
Sign(r) == IF r > 0 THEN "up" ELSE "down"

-----------------------------------------------------------------------------
(* The diagnosis of an outcome: threshold 1, horizon sigma 4.               *)

InNoiseBand(r) == Abs(r) <= 1

Diagnosis(r, percentile) ==
  CASE InNoiseBand(r) -> "noise"
    [] ~InNoiseBand(r) /\ (Abs(r) >= 8 \/ percentile >= 99) -> "extreme"
    [] ~InNoiseBand(r) /\ Abs(r) < 8 /\ percentile < 99
         /\ (Abs(r) >= 4 \/ percentile >= 95) -> "large"
    [] OTHER -> "directional"

\* Four indexes fall, the median move is at most -1.5 sigma, and breadth is
\* known and wide for every index.
SystemicExtremeDown ==
  /\ market.wide
  /\ Cardinality({i \in Indexes : market.move[i] < 0}) >= 4
  /\ Cardinality({i \in Indexes : market.move[i] <= -6}) >= 3

Severity(i) ==
  IF SystemicExtremeDown THEN "systemic_extreme_down"
  ELSE Diagnosis(market.move[i], market.percentile)

Ladder == <<"noise", "directional", "large", "extreme">>
Rank(s) == CHOOSE n \in DOMAIN Ladder : Ladder[n] = s

\* The worst severity of the day.
OverallSeverity ==
  IF SystemicExtremeDown THEN "systemic_extreme_down"
  ELSE CHOOSE s \in {Severity(i) : i \in Indexes} :
         \A i \in Indexes : Rank(Severity(i)) <= Rank(s)

\* How a direction fared, by the sign of the return and its label.
DirectionResult(direction, r) ==
  CASE r = 0 -> "zero_return"
    [] r # 0 /\ InNoiseBand(r) ->
         IF direction = Sign(r) THEN "right_but_noise" ELSE "wrong_noise"
    [] OTHER -> IF direction = Sign(r) THEN "correct" ELSE "wrong"

-----------------------------------------------------------------------------
(* prepare                                                                  *)

Opinions == council.opinion
Roster(i) == {a \in Agents : <<i, a>> \in DOMAIN Opinions}

\* Every index has an evaluated forecast and the same agents, all required ones included.
Mature == scored = Indexes
MatrixComplete == \A i, j \in Indexes : Required \subseteq Roster(i) /\ Roster(i) = Roster(j)

UsedOn(i) == UNION {Opinions[<<i, a>>].used : a \in Roster(i)}

\* An assignment that offers the subject's own evidence as missed.
AgentAssignmentAnyMissed(i, a) ==
  LET own == Opinions[<<i, a>>]
  IN [scope |-> "agent", agent |-> a, index |-> i, severity |-> Severity(i),
      expected |-> IF a = Critic THEN "not_scored"
                   ELSE DirectionResult(own.direction, market.move[i]),
      original |-> own.used, eligible |-> original]

AgentAssignment(i, a) ==
  LET own == Opinions[<<i, a>>]
  IN [scope |-> "agent", agent |-> a, index |-> i, severity |-> Severity(i),
      expected |-> IF a = Critic THEN "not_scored"
                   ELSE DirectionResult(own.direction, market.move[i]),
      original |-> own.used, eligible |-> original \ own.used]

CommitteeAssignment(i) ==
  [scope |-> "committee", agent |-> Cio, index |-> i, severity |-> Severity(i),
   expected |-> DirectionResult(council.forecast[i], market.move[i]),
   original |-> UsedOn(i), eligible |-> original \ UsedOn(i)]

MarketAssignment ==
  LET used == UNION {UsedOn(i) : i \in Indexes}
  IN [scope |-> "market_event", agent |-> Cio, index |-> 0,
      severity |-> OverallSeverity, expected |-> "not_scored",
      original |-> used, eligible |-> original \ used]

\* The CIO speaks through the committee's forecast.
AgentAssignments ==
  UNION {{AgentAssignment(i, a) : a \in Roster(i) \ {Cio}} : i \in Indexes}
CommitteeAssignments == {CommitteeAssignment(i) : i \in Indexes}

Assignments == AgentAssignments \cup CommitteeAssignments \cup {MarketAssignment}

\* One market assignment, one of the committee for every index, and the same
\* agents on every index.
RequestCoherent(assignments) ==
  LET Of(scope) == {a \in assignments : a.scope = scope}
      On(i) == {a.agent : a \in {b \in Of("agent") : b.index = i}}
  IN /\ Cardinality(Of("market_event")) = 1
     /\ {a.index : a \in Of("committee")} = Indexes
     /\ Cardinality(Of("committee")) = Cardinality(Indexes)
     /\ Of("agent") # {} /\ \A i, j \in Indexes : On(i) = On(j)

PrepareAnalysis ==
  /\ stage = "due" /\ Mature /\ MatrixComplete /\ RequestCoherent(Assignments)
  /\ stage' = "prepared"
  /\ UNCHANGED <<market, council, scored, original, candidates, captured, filed>>

-----------------------------------------------------------------------------
(* Source discovery and freeze-sources                                      *)

Discover(urls) ==
  /\ stage = "prepared" /\ stage' = "discovered"
  /\ candidates' = urls
  /\ UNCHANGED <<market, council, scored, original, captured, filed>>

\* A trusted capture may leave candidates out and may not add any.
Capturable(items) == items \subseteq candidates

FreezeCaptured(items) ==
  /\ stage = "discovered" /\ Capturable(items)
  /\ captured' = items
  /\ stage' = "frozen"
  /\ UNCHANGED <<market, council, scored, original, candidates, filed>>

TimeClass(source) ==
  CASE source <= Cutoff -> "published_before_cutoff_not_frozen"
    [] source > Cutoff /\ source <= Close -> "post_cutoff_preclose"
    [] OTHER -> "post_close_explanation"

TimeClasses(sources_) == {TimeClass(s) : s \in sources_}

-----------------------------------------------------------------------------
(* finalize: what a finding may claim                                       *)

Verdicts == {"right_reason", "lucky_correct", "wrong", "wrong_noise",
             "right_but_noise", "not_applicable", "unresolved"}

\* The error types the rules tell apart; "other" stands for the rest.
ErrorTypes == {"attention_omission", "data_coverage_failure", "post_cutoff_shock",
               "market_noise", "unresolved", "other"}

\* "supported" stands for verified as well.
CausalStatuses == {"supported", "hypothesis", "unresolved"}
Bases == {"original_frozen_evidence", "post_cutoff_oracle", "not_applicable"}

DirectionScored(a) ==
  a.scope = "committee" \/ (a.scope = "agent" /\ a.agent # Critic)

\* The verdict follows from how the direction fared.
VerdictFits(a, v) ==
  IF ~DirectionScored(a) THEN v \in {"not_applicable", "unresolved"}
  ELSE v \in CASE a.expected = "correct" ->
                    {"right_reason", "lucky_correct", "unresolved"}
               [] a.expected = "zero_return" -> {"not_applicable"}
               [] OTHER -> {a.expected}

\* A move outside the noise band is not dismissed as noise.
NoiseFits(a, v, errors) ==
  a.severity # "noise" =>
    "market_noise" \notin errors /\ v \notin {"wrong_noise", "right_but_noise"}

\* What a verdict or an error type needs to rest on.
ClaimFits(a, f) ==
  LET times == TimeClasses(f.sources)
  IN /\ f.missed # {} => times \subseteq {"published_before_cutoff_not_frozen"}
     /\ captured = {} => f.primary = "unresolved" /\ f.causal = "unresolved"
     /\ DirectionScored(a) /\ f.verdict = "right_reason" =>
          f.causal = "supported" /\ f.original # {} /\ f.sources # {}
     /\ DirectionScored(a) /\ f.verdict = "lucky_correct" =>
          f.wrong /\ f.sources # {}
     /\ f.primary = "attention_omission" => f.missed # {}
     /\ f.primary = "data_coverage_failure" =>
          "published_before_cutoff_not_frozen" \in times
     /\ f.primary = "post_cutoff_shock" =>
          f.missed = {} /\ "post_cutoff_preclose" \in times
     /\ f.basis = "original_frozen_evidence" => f.original \cup f.missed # {}
     /\ f.basis = "post_cutoff_oracle" =>
          times \ {"published_before_cutoff_not_frozen"} # {}

\* What a verdict and the error types may be for an assignment.
Fits(a, v, error, others) ==
  /\ VerdictFits(a, v) /\ error \notin others
  /\ NoiseFits(a, v, {error} \cup others)

\* Findings with these that cite the subject's own frozen evidence, frozen
\* evidence it overlooked, and captured sources.
Citing(a, v, error, others) ==
  [verdict: {v}, primary: {error}, secondary: {others},
   causal: CausalStatuses, basis: Bases, wrong: BOOLEAN,
   original: SUBSET (a.original \cap original),
   missed: SUBSET a.eligible, sources: SUBSET captured]

Analysable(a) ==
  \E v \in Verdicts, e \in ErrorTypes, o \in SUBSET {"market_noise"} :
    /\ Fits(a, v, e, o)
    /\ \E f \in Citing(a, v, e, o) : ClaimFits(a, f)

Hopeless == {a \in Assignments : ~Analysable(a)}

\* The draft writer has a passing finding for every assignment.
WriteFindings ==
  /\ stage = "frozen" /\ Hopeless = {}
  /\ stage' = "drafted"
  /\ UNCHANGED <<market, council, scored, original, candidates,
                 captured, filed>>

\* _persist_findings_and_lessons: what could have been known.
Availability(f) ==
  LET times == TimeClasses(f.sources)
  IN CASE f.missed # {} -> "available_missed"
       [] f.missed = {} /\ f.primary = "data_coverage_failure" ->
            "coverage_gap_pre_cutoff"
       [] f.missed = {} /\ f.primary # "data_coverage_failure"
            /\ (f.primary = "post_cutoff_shock" \/ "post_cutoff_preclose" \in times) ->
            "post_cutoff_event"
       [] OTHER ->
            IF times = {"post_close_explanation"} THEN "after_close_explanation"
            ELSE IF f.original # {} THEN "available_used" ELSE "unresolved"

Filed(a, f) == [about |-> a, finding |-> f, class |-> Availability(f)]

FileFinding(a, v, error, others) ==
  /\ stage = "drafted" /\ Fits(a, v, error, others) /\ stage' = "done"
  /\ \E f \in Citing(a, v, error, others) :
       /\ ClaimFits(a, f)
       /\ filed' = {Filed(a, f)}
  /\ UNCHANGED <<market, council, scored, original, candidates,
                 captured>>

-----------------------------------------------------------------------------
FindingsInit ==
  /\ market \in [move: [Indexes -> Returns], percentile: {0, 95, 99}, wide: BOOLEAN]
  /\ DOMAIN council = {"opinion", "forecast"}
  /\ DOMAIN Opinions \subseteq Indexes \X Agents
  /\ Opinions \in [DOMAIN Opinions -> [direction: Directions, used: SUBSET Evidence]]
  /\ council.forecast \in [Indexes -> Directions]
  /\ scored \in SUBSET Indexes
  /\ original \in SUBSET Evidence
  /\ candidates = {} /\ captured = {} /\ filed = {}
  /\ stage = "due"

FindingsNext ==
  \/ PrepareAnalysis
  \/ \E urls \in SUBSET Published : Discover(urls)
  \/ \E items \in SUBSET Published : FreezeCaptured(items)
  \/ WriteFindings
  \/ \E a \in Assignments, v \in Verdicts, e \in ErrorTypes, o \in SUBSET {"market_noise"} :
       FileFinding(a, v, e, o)

-----------------------------------------------------------------------------
(* Properties.                                                              *)

\* The direction a finding is about, as it was persisted.
DirectionOf(a) ==
  IF a.scope = "agent" THEN Opinions[<<a.index, a.agent>>].direction
  ELSE council.forecast[a.index]

UsedBy(a) ==
  CASE a.scope = "agent" -> Opinions[<<a.index, a.agent>>].used
    [] a.scope = "committee" -> UsedOn(a.index)
    [] OTHER -> UNION {UsedOn(i) : i \in Indexes}

\* A stored finding judges by what could be known: what it calls missed lay
\* frozen before the run, unused by the subject, and is not argued with later
\* sources; a shock after the cutoff is never filed as an omission, and an
\* omission always is; without sources nothing is explained, and no reason is
\* called right (_validate_analysis, _persist_findings_and_lessons).
NothingFromHindsight ==
  \A r \in filed :
    LET f == r.finding
    IN /\ r.class = "available_missed" =>
            /\ f.missed \subseteq original /\ f.missed \cap UsedBy(r.about) = {}
            /\ \A s \in f.sources : s <= Cutoff
       /\ f.primary = "attention_omission" => r.class = "available_missed"
       /\ f.primary = "post_cutoff_shock" => r.class = "post_cutoff_event"
       /\ r.class = "coverage_gap_pre_cutoff" => \E s \in f.sources : s <= Cutoff
       /\ r.class = "after_close_explanation" => \A s \in f.sources : s > Close
       /\ captured = {} =>
            /\ r.class \in {"available_missed", "available_used", "unresolved"}
            /\ f.verdict \notin {"right_reason", "lucky_correct"}

\* A direction's verdict is the market's: right only with the sign of a move
\* outside the noise band, wrong only against it, and a good reason only with
\* evidence the subject itself had used (_expected_direction_result,
\* _validate_outcome_verdict).
VerdictsEarned ==
  \A r \in filed :
    LET a == r.about
        v == r.finding.verdict
    IN /\ v \in {"right_reason", "lucky_correct"} =>
            ~InNoiseBand(market.move[a.index])
              /\ DirectionOf(a) = Sign(market.move[a.index])
       /\ v = "wrong" => ~InNoiseBand(market.move[a.index])
                           /\ DirectionOf(a) # Sign(market.move[a.index])
       /\ v = "right_reason" => r.finding.original \cap UsedBy(a) # {}

\* An analysis can be accepted on every day but one kind: a systemic fall in
\* which an index moved inside its noise band.  Its assignments carry the
\* systemic severity and expect a noise verdict, which _validate_analysis
\* refuses for any severity but noise.
AnalysableUnlessSystemicNoise ==
  stage = "frozen" =>
    (Hopeless # {} <=>
       SystemicExtremeDown
         /\ \E i \in Indexes : market.move[i] # 0 /\ InNoiseBand(market.move[i]))
=============================================================================
