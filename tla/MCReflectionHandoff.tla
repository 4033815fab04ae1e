------------------------- MODULE MCReflectionHandoff -------------------------
(***************************************************************************)
(* ReflectionHandoff with two operators.  In half of the behaviours they    *)
(* take turns (alone): the properties that need it say so, the others hold  *)
(* for commands that overlap as well.  In further behaviours (topic) one     *)
(* analysis is followed from the outcomes to a stored finding: index 1 may   *)
(* move and be judged apart from the other four.                            *)
(***************************************************************************)
EXTENDS ReflectionHandoff, ReflectionFindings, TLC

CONSTANTS
  Timed,         \* the reflections whose deadline may pass
  Steady,        \* the texts written while commands overlap
  SteadyDrafts,  \* bound on the drafts written while commands overlap
  OtherReturns,  \* how the indexes other than the first may move
  Percentiles,   \* historical percentile classes of the day
  e1, e2         \* evidence the council used, and evidence it may have missed

ASSUME TimedReflections == Timed \subseteq Versions

VARIABLES
  alone,    \* a command starts only when no other one is running
  topic     \* "files" or "findings"

FirstReturns == {-8, -1, 0, 2}
RestReturns == {-8, 2}

\* Which operator runs a command does not matter.
Processes == Permutations(Operators)

Turn(o) == alone => \A q \in Operators \ {o} : At(q, "idle")

\* Rewritten drafts and deadlines, which only keep commands from starting, are left
\* to the behaviours in which operators take turns.
MayWrite(t) == alone \/ (t \in Steady /\ written < SteadyDrafts)

\* One index apart from the others.  The agents say down and used e1, the
\* committee says up.
Day(r, s, p, w) ==
  [move |-> [i \in Indexes |-> IF i = 1 THEN r ELSE s], percentile |-> p, wide |-> w]

Council(matrix) ==
  [forecast |-> [i \in Indexes |-> "up"],
   opinion |-> [x \in matrix |->
                 [direction |-> "down", used |-> IF x[2] = Cio THEN {} ELSE {e1}]]]

Everyone == Indexes \X Agents

FindingsMCInit ==
  /\ \E r \in Returns, s \in OtherReturns, p \in Percentiles, w \in BOOLEAN :
       /\ w => s < 0
       /\ market = Day(r, s, p, w)
  /\ original \in {{}, {e1, e2}}
  /\ \E matrix \in {{}, Everyone \ {<<1, Critic>>}, Everyone \ ({1} \X Optional),
                        IF original = {} THEN Everyone ELSE Indexes \X Required} :
       council = Council(matrix)
  /\ scored \in {Indexes, Indexes \ {1}}
  /\ FindingsInit

\* The other indexes are judged like the first one where it moves like them.
Followed == {a \in Assignments : a.index \in {0, 1}}

Analyse ==
  \/ PrepareAnalysis
  \/ \E urls \in {{}, Published} : Discover(urls)
  \/ \E items \in SUBSET Published : FreezeCaptured(items)
  \/ WriteFindings
  \/ \E a \in Followed, v \in Verdicts, e \in ErrorTypes, o \in SUBSET {"market_noise"} :
       FileFinding(a, v, e, o)

MCInit ==
  /\ ReflectionInit /\ FindingsMCInit
  /\ alone \in BOOLEAN /\ topic \in {"files", "findings"}
  /\ topic = "findings" => alone
  /\ topic = "files" => stage = "due" /\ market = Day(0, 2, 95, FALSE)
                         /\ council = Council({})
                         /\ scored = Indexes /\ original = {}

Command ==
  \/ \E o \in Operators :
       /\ Turn(o)
       /\ Prepare(o) \/ Freeze(o) \/ Finalize(o) \/ Kill(o)
  \/ \E v \in Versions, t \in Texts :
       /\ MayWrite(t)
       /\ WriteDiscovery(v, t) \/ WriteAnalysis(v, t)
  \/ \E v \in Timed : alone /\ DeadlinePasses(v)

MCNext ==
  \/ topic = "files" /\ Command /\ UNCHANGED <<findingsVars, alone, topic>>
  \/ topic = "findings" /\ Analyse /\ UNCHANGED <<reflectionVars, alone, topic>>

MCSpec == MCInit /\ [][MCNext]_<<reflectionVars, findingsVars, alone, topic>>

\* Operators who take turns keep the row's seals and the files together, also
\* when a command is killed or a write fails; and as long as none is killed they
\* can always go on, since a command that fails takes back what it published
\* (freeze_reflection_sources, finalize_reflection).
SoundInTurn == alone => SealMatches /\ (kills = 0 => Retryable)

\* However commands compete, findings are stored once, with the receipt on disk,
\* and corrections form a chain; its root is unique if operators take turns
\* (finalize_reflection, create_reflection_run, uq_reflection_active_successor).
StoredOnce == FindingsOnce /\ OneSuccessor /\ (alone => OneRoot)

\* What a reflection stores judges the council by what it could know and by what
\* the market did, and every day but a systemic fall with an index in its noise
\* band can be analysed (_reflection_assignments, _validate_analysis,
\* _persist_findings_and_lessons).
FindingsFair ==
  NothingFromHindsight /\ VerdictsEarned /\ AnalysableUnlessSystemicNoise
==============================================================================
