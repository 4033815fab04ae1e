----------------------------- MODULE EvalHandoff -----------------------------
(***************************************************************************)
(* One Agent Eval v2 job (backend/app/services/agent_evaluation_v2.py): a  *)
(* frozen handoff directory, drafts by independent external tasks, and     *)
(* finalize commands that compute the report, publish report.json and then *)
(* receipt.json, make the drafts read-only and file a bad case for a       *)
(* failed report.  Every file is a step; a command may die at any step.    *)
(*                                                                         *)
(* A draft stands for the four drafts.json files together.  What they say  *)
(* of a target is whether the must-pass gates hold, how many episodes both *)
(* arms completed and whether the metric gates hold.                       *)
(***************************************************************************)
EXTENDS BadCases

CONSTANTS EvalDrafts,     \* contents of the draft files
          Findings,       \* Findings[d][t]: what they say of target t
          Shared,         \* drafts whose tasks share a producer
          EvalTargets,    \* targets of the suite
          Gated,          \* those with release_gate
          MinEpisodes,    \* min_metric_episodes of the release policy
          Finalizers,     \* finalize commands that may overlap
          None,           \* no file
          MaxEvalClock    \* bound: distinct completion times

ASSUME EvalConfiguration ==
    /\ Findings \in [EvalDrafts ->
            [EvalTargets -> [hard : BOOLEAN, episodes : Nat, metric : BOOLEAN]]]
    /\ Shared \subseteq EvalDrafts /\ Gated \subseteq EvalTargets
    /\ None \notin EvalDrafts /\ MinEpisodes \in Nat /\ MaxEvalClock \in Nat

VARIABLES
    frozen,     \* how much of the job directory prepare has written
    disk,       \* the draft files, or None
    locked,     \* they are read-only
    report,     \* report.json
    receipt,    \* receipt.json
    evalClock,  \* the clock, as far as reports differ in completed_at
    anchors,    \* traces of this job, in the order of their attempts
    open,       \* those still running
    accepted,   \* an activation has accepted the job
    fin         \* fin[f]: finalize command f

feedback == <<anchors, open>>
evalVars == <<frozen, disk, locked, report, receipt, evalClock, feedback, accepted, fin>>

-----------------------------------------------------------------------------
(* _evaluate_v2.                                                           *)

\* The verdict on a target: must-pass gates, then the sample, then the metrics.
TargetDecision(x) ==
    CASE ~x.hard -> "fail"
      [] x.hard /\ x.episodes < MinEpisodes -> "insufficient_sample"
      [] OTHER -> IF x.metric THEN "pass" ELSE "fail"

\* Only gated targets decide the release; the worst verdict wins.
ReleaseDecision(d) ==
    LET verdicts == {TargetDecision(Findings[d][t]) : t \in Gated} IN
    CASE "fail" \in verdicts -> "fail"
      [] "fail" \notin verdicts /\ "insufficient_sample" \in verdicts -> "insufficient_sample"
      [] OTHER -> "pass"

\* The report is a function of the drafts and completed_at.
EvaluateV2(d, at) == [says |-> Findings[d], decision |-> ReleaseDecision(d), at |-> at]
Reports == {EvaluateV2(d, at) : d \in EvalDrafts, at \in 0..MaxEvalClock}
Receipts == [drafts : EvalDrafts, report : Reports]

ASSUME NoFileIsNoReport == None \notin Reports \cup Receipts

Finalizer == [step : {"idle", "evaluate", "report", "receipt", "lock", "anchor", "start", "case", "close"},
              raw : EvalDrafts \cup {None}, at : 0..MaxEvalClock, trace : Cases \cup {None}]
NoFinalize == [step |-> "idle", raw |-> None, at |-> 0, trace |-> None]

EvalTypeOK ==
    /\ frozen \in {"no", "partly", "yes"}
    /\ disk \in EvalDrafts \cup {None} /\ locked \in BOOLEAN
    /\ report = None \/ report \in Reports
    /\ receipt = None \/ receipt \in Receipts
    /\ evalClock \in 0..MaxEvalClock
    /\ anchors \in Seq(Cases) /\ open \subseteq Cases /\ accepted \in BOOLEAN
    /\ fin \in [Finalizers -> Finalizer]

EvalInit ==
    /\ frozen = "no"
    /\ disk = None /\ locked = FALSE /\ report = None /\ receipt = None
    /\ evalClock = 0 /\ anchors = <<>> /\ open = {} /\ accepted = FALSE
    /\ fin = [f \in Finalizers |-> NoFinalize]

-----------------------------------------------------------------------------
(* prepare_agent_eval_v2, drafts and finalize_agent_eval_v2.               *)

jobFiles == <<disk, locked, report, receipt, evalClock>>

\* A directory of its own with the sealed input and the manifest of all hashes.
PrepareInputs ==
    /\ frozen = "no" /\ frozen' = "partly"
    /\ UNCHANGED <<jobFiles, feedback, accepted, fin, caseVars>>

\* The inputs of reviewer and ablation, the templates and the instructions.
PrepareTasks ==
    /\ frozen = "partly" /\ frozen' = "yes"
    /\ UNCHANGED <<jobFiles, feedback, accepted, fin, caseVars>>

\* _load_frozen_job: every input file is there and has the hash in the manifest.
FrozenJob == frozen = "yes"

\* _load_bound_draft and its siblings: four drafts bound to this job, by four producers.
BoundDrafts == disk \in EvalDrafts \ Shared

\* External tasks write the drafts, and may replace them until they are read-only.
WriteEvalDrafts(d) ==
    /\ frozen = "yes" /\ ~locked /\ disk # d
    /\ disk' = d
    /\ UNCHANGED <<frozen, locked, report, receipt, evalClock, feedback, accepted, fin, caseVars>>

\* verify_finalized_agent_eval_v2_job: four independent producers, the receipt seals
\* the drafts and the report on disk, and the report is recomputed.
Verifies ==
    /\ FrozenJob /\ receipt # None /\ report # None
    /\ BoundDrafts
    /\ receipt.drafts = disk /\ receipt.report = report
    /\ report = EvaluateV2(disk, report.at)

\* Load the frozen job and the bound drafts; a sealed job is verified and fed back.
FinalizeLoad(f) ==
    /\ fin[f].step = "idle"
    /\ IF receipt # None
       THEN Verifies /\ fin' = [fin EXCEPT ![f].step = "anchor", ![f].raw = disk]
       ELSE /\ FrozenJob /\ BoundDrafts
            /\ fin' = [fin EXCEPT ![f].step = "evaluate", ![f].raw = disk]
    /\ UNCHANGED <<frozen, disk, locked, report, receipt, evalClock, feedback, accepted, caseVars>>

\* The completion time: that of an unsealed report, or now.
FinalizeEvaluate(f) ==
    /\ fin[f].step = "evaluate"
    /\ IF report # None
       THEN fin' = [fin EXCEPT ![f].step = "report", ![f].at = report.at] /\ UNCHANGED evalClock
       ELSE /\ evalClock < MaxEvalClock
            /\ evalClock' = evalClock + 1
            /\ fin' = [fin EXCEPT ![f].step = "report", ![f].at = evalClock']
    /\ UNCHANGED <<frozen, disk, locked, report, receipt, feedback, accepted, caseVars>>

\* _atomic_publish_immutable: a link that never replaces, or the same bytes already.
Published(file, payload) == file \in {None, payload}

PublishReport(f) ==
    LET mine == EvaluateV2(fin[f].raw, fin[f].at) IN
    /\ fin[f].step = "report"
    /\ IF Published(report, mine)
       THEN report' = mine /\ fin' = [fin EXCEPT ![f].step = "receipt"]
       ELSE fin' = [fin EXCEPT ![f] = NoFinalize] /\ UNCHANGED report
    /\ UNCHANGED <<frozen, disk, locked, receipt, evalClock, feedback, accepted, caseVars>>

PublishReceipt(f) ==
    LET mine == [drafts |-> fin[f].raw, report |-> EvaluateV2(fin[f].raw, fin[f].at)] IN
    /\ fin[f].step = "receipt"
    /\ IF Published(receipt, mine)
       THEN receipt' = mine /\ fin' = [fin EXCEPT ![f].step = "lock"]
       ELSE fin' = [fin EXCEPT ![f] = NoFinalize] /\ UNCHANGED receipt
    /\ UNCHANGED <<frozen, disk, locked, report, evalClock, feedback, accepted, caseVars>>

\* chmod of the four drafts.
LockDrafts(f) ==
    /\ fin[f].step = "lock"
    /\ locked' = TRUE
    /\ fin' = [fin EXCEPT ![f].step = "anchor"]
    /\ UNCHANGED <<frozen, disk, report, receipt, evalClock, feedback, accepted, caseVars>>

TraceFoundRunning == open # {}

\* trace_id_for without running_only: an earlier trace of the job is found, sealed or not.
TraceFound == anchors # <<>>

\* _feedback_failed_report: a failed report hangs its bad cases on the job's trace.
FeedbackAnchor(f) ==
    /\ fin[f].step = "anchor"
    /\ \/ /\ ReleaseDecision(fin[f].raw) # "fail"
          /\ fin' = [fin EXCEPT ![f] = NoFinalize]
       \/ /\ ReleaseDecision(fin[f].raw) = "fail" /\ ~TraceFound
          /\ fin' = [fin EXCEPT ![f].step = "start"]
       \/ /\ ReleaseDecision(fin[f].raw) = "fail" /\ TraceFound
          /\ fin' = [fin EXCEPT ![f].step = "case", ![f].trace = anchors[Len(anchors)]]
    /\ UNCHANGED <<frozen, disk, locked, report, receipt, evalClock, feedback, accepted, caseVars>>

\* start_trace, or the anchor row in its place: the running trace, or a new one.
FeedbackStart(f) ==
    /\ fin[f].step = "start"
    /\ \E c \in Cases :
        /\ \/ c \in open /\ UNCHANGED feedback
           \/ /\ open = {} /\ \A n \in DOMAIN anchors : anchors[n] # c
              /\ anchors' = Append(anchors, c) /\ open' = {c}
        /\ fin' = [fin EXCEPT ![f].step = "case", ![f].trace = c]
    /\ UNCHANGED <<frozen, disk, locked, report, receipt, evalClock, accepted, caseVars>>

\* create_bad_case returns the row of the same trace and title.  One failed target is
\* followed: the loop files a row per failed target, under titles that never meet.
FeedbackCase(f) ==
    LET c == fin[f].trace IN
    /\ fin[f].step = "case"
    /\ fin' = [fin EXCEPT ![f].step = "close"]
    /\ IF cases[c].status = "none" THEN CreateBadCase(c) ELSE UNCHANGED caseVars
    /\ UNCHANGED <<frozen, disk, locked, report, receipt, evalClock, feedback, accepted>>

\* _seal_bad_case_trace_anchor.
FeedbackSeal(f) ==
    /\ fin[f].step = "close"
    /\ open' = open \ {fin[f].trace}
    /\ fin' = [fin EXCEPT ![f] = NoFinalize]
    /\ UNCHANGED <<frozen, disk, locked, report, receipt, evalClock, anchors, accepted, caseVars>>

KillFinalize(f) ==
    /\ fin[f].step # "idle"
    /\ fin' = [fin EXCEPT ![f] = NoFinalize]
    /\ UNCHANGED <<frozen, disk, locked, report, receipt, evalClock, feedback, accepted, caseVars>>

\* _validated_agent_eval_pass_report: activation trusts a verified, passing job only.
AcceptReport ==
    /\ ~accepted /\ Verifies /\ report.decision = "pass"
    /\ accepted' = TRUE
    /\ UNCHANGED <<frozen, disk, locked, report, receipt, evalClock, feedback, fin, caseVars>>

EvalStep ==
    \/ PrepareInputs \/ PrepareTasks
    \/ \E d \in EvalDrafts : WriteEvalDrafts(d)
    \/ AcceptReport
    \/ \E f \in Finalizers :
        \/ FinalizeLoad(f) \/ FinalizeEvaluate(f) \/ PublishReport(f) \/ PublishReceipt(f)
        \/ LockDrafts(f) \/ FeedbackAnchor(f) \/ FeedbackStart(f) \/ FeedbackCase(f)
        \/ FeedbackSeal(f) \/ KillFinalize(f)

EvalSpec == CasesInit /\ EvalInit /\ [][EvalStep]_<<evalVars, caseVars>>

\* No finalize command begins while another is under way.
FinalizersTakeTurns ==
    \A f, g \in Finalizers : fin[f].step # "idle" /\ fin[g].step # "idle" => f = g

EvalInTurnSpec ==
    CasesInit /\ EvalInit /\ [][EvalStep /\ FinalizersTakeTurns']_<<evalVars, caseVars>>

-----------------------------------------------------------------------------
(* What is promised.                                                       *)

\* However finalize commands overlap, crash and meet replaced drafts: a receipt seals
\* the report that is on disk, that report follows from the drafts the receipt seals,
\* and an accepted job's report says pass for every gated target
\* (_atomic_publish_immutable, _validated_agent_eval_pass_report).
SealsOneReport ==
    /\ receipt # None =>
        /\ receipt.report = report
        /\ report.says = Findings[receipt.drafts]
    /\ accepted => \A t \in Gated : TargetDecision(report.says[t]) = "pass"

\* A failed report is filed as one bad case, however often finalize is repeated
\* (_feedback_failed_report).
FailureFiledOnce ==
    Cardinality({c \in Cases : cases[c].status # "none"}) <= 1
=============================================================================
