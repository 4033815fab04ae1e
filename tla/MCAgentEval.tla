---------------------------- MODULE MCAgentEval ----------------------------
(***************************************************************************)
(* Agent evaluation in regimes of their own: "queue", workers on a v1      *)
(* experiment; "handoff", finalize commands on a v2 job; "cases",          *)
(* reviewers of bad cases; "trace", workflows that record on one subject;  *)
(* "journal", what research commands record after their commit.            *)
(* In the regimes that end in 1 the commands take turns.                   *)
(***************************************************************************)
EXTENDS EvalHandoff, EvalQueue, AgentTracing, TraceJournal, TLC

CONSTANTS MaxKills,      \* bound: crashes of finalize commands
          MaxCaseEvents  \* bound: events of all bad cases together, where reviewers meet

VARIABLES regime, kills

mcVars == <<regime, kills>>
allVars == <<caseVars, evalVars, queueVars, traceVars, journalVars, mcVars>>

\* What drafts say: all good, one gated failure, too few episodes, a metric below its gate.
MCFindings ==
    LET good == [hard |-> TRUE, episodes |-> 2, metric |-> TRUE] IN
    [d \in EvalDrafts |-> [t \in EvalTargets |->
        CASE d = "hard" /\ t \in Gated -> [good EXCEPT !.hard = FALSE]
          [] d = "few" /\ t \in Gated -> [good EXCEPT !.episodes = 1]
          [] d = "few" /\ t \notin Gated -> [good EXCEPT !.hard = FALSE]
          [] d = "metric" -> [good EXCEPT !.metric = FALSE]
          [] OTHER -> good]]

MCSymmetry == Permutations(Reviewers) \cup Permutations(Finalizers)
              \cup Permutations(Workers) \cup Permutations(Recorders)
              \cup Permutations(Scribes)

MCInit ==
    /\ CasesInit /\ EvalInit /\ QueueInit /\ TracingInit /\ JournalInit
    /\ regime \in {"queue", "handoff", "handoff1", "cases", "cases1", "trace", "journal"} /\ kills = 0
    /\ regime # "journal" => journal = "shadow"

QueueMove ==
    /\ regime = "queue" /\ QueueStep
    /\ UNCHANGED <<caseVars, evalVars, traceVars, journalVars, mcVars>>

HandoffMove ==
    /\ regime \in {"handoff", "handoff1"} /\ EvalStep
    /\ regime = "handoff1" => FinalizersTakeTurns'
    /\ kills' = kills + (IF \E f \in Finalizers : KillFinalize(f) THEN 1 ELSE 0)
    /\ kills' <= MaxKills
    /\ UNCHANGED <<queueVars, traceVars, journalVars, regime>>

CasesMove ==
    /\ regime \in {"cases", "cases1"} /\ CaseStep
    /\ regime = "cases1" => ReviewersTakeTurns'
    /\ Cardinality({e \in Cases \X (1..(MaxCaseEvents + 1)) : e[2] <= Len(cases'[e[1]].events)})
         <= MaxCaseEvents
    /\ UNCHANGED <<evalVars, queueVars, traceVars, journalVars, mcVars>>

TraceMove ==
    /\ regime = "trace" /\ \E w \in Recorders : TracingStep(w)
    /\ UNCHANGED <<caseVars, evalVars, queueVars, journalVars, mcVars>>

JournalMove ==
    /\ regime = "journal" /\ \E w \in Scribes : JournalStep(w)
    /\ UNCHANGED <<caseVars, evalVars, queueVars, traceVars, mcVars>>

MCNext == QueueMove \/ HandoffMove \/ CasesMove \/ TraceMove \/ JournalMove

MCSpec == MCInit /\ [][MCNext]_allVars

TypeOK == CasesTypeOK /\ EvalTypeOK /\ QueueTypeOK /\ TracingTypeOK

\* Rows follow their events, whoever overlaps; if reviewers take turns, the artifact is kept
\* and every event begins where the one before it ended (transition_bad_case).
CasesHold == CaseFollowsEvents /\ (regime # "cases" => ArtifactKept /\ EventsConnect)

\* A receipt seals the one report its drafts lead to, whatever overlaps, and a failed
\* report is filed once, if finalize commands take turns (finalize_agent_eval_v2); a trace
\* that a research command seals as completed is whole (_finish_artifact_trace).
ReportsHold == SealsOneReport /\ (regime = "handoff1" => FailureFiledOnce) /\ CompletedIsWhole
=============================================================================
