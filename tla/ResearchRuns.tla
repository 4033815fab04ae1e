----------------------------- MODULE ResearchRuns -----------------------------
(***************************************************************************)
(* One research run of programme v2 from a frozen snapshot to sealed       *)
(* forecasts (backend/app/services/research_v2.py): prepare writes a row   *)
(* and a handoff directory, an external author leaves drafts.json there,   *)
(* finalize seals signals, forecasts and a receipt or a not_ready          *)
(* rejection, and a retry restores what a crash left out.                  *)
(*                                                                         *)
(* A command is a process without a lock.  Its reads are statements of     *)
(* their own and its writes one SQLite transaction, so every read, every   *)
(* commit and every file is a step of it.  A run is named by its input     *)
(* (input_hash is unique); a hash is the value it is taken of.  Days are   *)
(* trading sessions; a command does not last past midnight.                *)
(***************************************************************************)
EXTENDS ActivationLedger

CONSTANTS Inputs,        \* snapshots with a mode and a provider: input_hash
          Anchor,        \* Anchor[i]: base_session of the snapshot
          Mode,          \* Mode[i]: "live" or "demo"
          Responses,     \* inputs of the Responses protocol; the others are Codex's
          Unready,       \* of these, the ones assess_evidence_readiness refuses
          Drafts,        \* contents of drafts.json
          NotReady,      \* the ones that are a valid not_ready bundle
          Malformed,     \* the ones validate_research_draft_bundle refuses
          Operators,     \* research commands that may overlap
          ShadowAgents,  \* manual and quant agents admitted after the run
          Views,         \* tracks of natural views
          Decisions,     \* decision targets
          Horizon,       \* Horizon[t]: sessions from anchor to target
          Week,          \* sessions in a cadence period
          Nothing,       \* NULL, no file
          LastDay        \* bound: sessions in a behaviour

Tracks == Views \cup Decisions
Daily == {t \in Tracks : Horizon[t] = 1}

ASSUME ResearchConfiguration ==
    /\ Anchor \in [Inputs -> Nat] /\ Mode \in [Inputs -> {"live", "demo"}]
    /\ Unready \subseteq Responses /\ Responses \subseteq Inputs
    /\ NotReady \cup Malformed \subseteq Drafts /\ NotReady \cap Malformed = {}
    /\ Horizon \in [Tracks -> Nat \ {0}] /\ Week \in Nat \ {0} /\ LastDay \in Nat \ {0}
    /\ Decisions \cap Daily # {} /\ IsFiniteSet(Tracks) /\ Nothing \notin Drafts

VARIABLES
    day,      \* today's session
    run,      \* run[i]: the row of research_runs_v2
    dir,      \* dir[i]: the handoff directory
    issued,   \* signals and forecasts of the committee: agent_signals_v2, forecasts_v2
    shadows,  \* external shadow signals: agent_signals_v2
    filed,    \* those with a review task of their own on disk
    op        \* op[o]: the command of operator o

runVars == <<day, run, dir, issued, shadows, filed, op>>
external == <<shadows, filed>>

Run == [status : {"absent", "awaiting_draft", "completed", "failed"},
        sealed : BOOLEAN, receipt : Drafts \cup {Nothing}]
\* input.json with its assigned tracks, drafts.json, receipt.json, reasoning/input.json.
Directory == [request : BOOLEAN, assigned : SUBSET Tracks,
              drafts : Drafts \cup {Nothing}, receipt : Drafts \cup {Nothing},
              reviews : SUBSET (Tracks \cup ShadowAgents)]
Shadow == [run : Inputs, agent : ShadowAgents]
Issued == [run : Inputs, track : Tracks, from : Drafts, lane : {"formal", "shadow"}]
Steps == {"idle", "assign", "insert", "write", "seal", "open", "commit", "receipt",
          "recover", "reject", "rejectCommit", "rejectReceipt", "task"}
Command == [step : Steps, input : Inputs \cup {Nothing}, assigned : SUBSET Tracks,
            draft : Drafts \cup {Nothing}]

NoRun == [status |-> "absent", sealed |-> FALSE, receipt |-> Nothing]
NoDirectory == [request |-> FALSE, assigned |-> {}, drafts |-> Nothing, receipt |-> Nothing,
                reviews |-> {}]
Idle == [step |-> "idle", input |-> Nothing, assigned |-> {}, draft |-> Nothing]

RunTypeOK ==
    /\ day \in 1..LastDay
    /\ run \in [Inputs -> Run]
    /\ dir \in [Inputs -> Directory]
    /\ issued \subseteq Issued
    /\ shadows \subseteq Shadow /\ filed \subseteq shadows
    /\ op \in [Operators -> Command]

RunInit ==
    /\ day = 1
    /\ run = [i \in Inputs |-> NoRun]
    /\ dir = [i \in Inputs |-> NoDirectory]
    /\ issued = {} /\ shadows = {} /\ filed = {}
    /\ op = [o \in Operators |-> Idle]

Target(i, t) == Anchor[i] + Horizon[t]
Forecasts == {s \in issued : s.track \in Decisions}
NewWeek(a) == a \div Week # (a - 1) \div Week

-----------------------------------------------------------------------------
(* What is due.                                                            *)

\* The last sealed signals of a track in the same mode.
LatestOn(m, t) ==
    LET mine == {s \in issued : s.track = t /\ Mode[s.run] = m}
    IN  {s \in mine : \A r \in mine : Anchor[r.run] <= Anchor[s.run]}

\* Nothing yet, or the first session of a period once the last one is due.
PeriodDue(i, t) ==
    LET latest == LatestOn(Mode[i], t) IN
    \/ latest = {}
    \/ NewWeek(Anchor[i]) /\ \A s \in latest : Target(s.run, t) <= Anchor[i]

\* _natural_view_due; the market news view is daily.
NaturalViewDue(i, t) == t \in Views /\ (t \in Daily \/ PeriodDue(i, t))

\* _decision_target_due: D1 every session, W1 by the same rule.
DecisionTargetDue(i, t) == t \in Decisions /\ (t \in Daily \/ PeriodDue(i, t))

\* _build_assignments.
BuildAssignments(i) == {t \in Tracks : NaturalViewDue(i, t) \/ DecisionTargetDue(i, t)}

\* _prediction_finalize_deadline: before midnight of the earliest target session.
BeforeDeadline(i) == \A t \in dir[i].assigned : day < Target(i, t)

-----------------------------------------------------------------------------
(* prepare_research_run.                                                   *)

\* The runs of the same programme, mode and anchor date.
Frozen(i) == {j \in Inputs : /\ run[j].status # "absent"
                             /\ Mode[j] = Mode[i] /\ Anchor[j] = Anchor[i]}

\* A new anchor date; an existing run is returned or refused, both without a write.
\* The snapshot holds the prices of its base session, so that session has begun.
PrepareScan(o, i) ==
    /\ op[o].step = "idle" /\ Anchor[i] <= day
    /\ Frozen(i) = {}
    /\ op' = [op EXCEPT ![o] = [Idle EXCEPT !.step = "assign", !.input = i]]
    /\ UNCHANGED <<day, run, dir, issued, external>>

\* assess_evidence_readiness: a Responses run needs every required source.
Ready(i) == i \notin Unready

\* Assignments from the signals of earlier runs, then the readiness of the evidence.
PrepareAssign(o) ==
    LET i == op[o].input IN
    /\ op[o].step = "assign"
    /\ op' = [op EXCEPT ![o] =
                IF ~Ready(i) THEN Idle
                ELSE [@ EXCEPT !.step = "insert", !.assigned = BuildAssignments(i)]]
    /\ UNCHANGED <<day, run, dir, issued, external>>

\* The row; input_hash is unique.
PrepareInsert(o) ==
    LET i == op[o].input IN
    /\ op[o].step = "insert"
    /\ IF run[i].status # "absent"
       THEN op' = [op EXCEPT ![o] = Idle] /\ UNCHANGED run
       ELSE /\ op' = [op EXCEPT ![o].step = "write"]
            /\ run' = [run EXCEPT ![i].status = "awaiting_draft"]
    /\ UNCHANGED <<day, dir, issued, external>>

\* The directory, input.json, the template and the instructions.
PrepareWrite(o) ==
    LET i == op[o].input IN
    /\ op[o].step = "write"
    /\ dir' = [dir EXCEPT ![i].request = TRUE, ![i].assigned = op[o].assigned]
    /\ op' = [op EXCEPT ![o].step = "seal"]
    /\ UNCHANGED <<day, run, issued, external>>

RowWritableAlways(i) == run[i].status # "absent"

\* trg_research_runs_v2_reject_terminal_update.
RowWritable(i) == run[i].status = "awaiting_draft"

\* request_hash on the row: from here on the run can be finalized.
PrepareSeal(o) ==
    LET i == op[o].input IN
    /\ op[o].step = "seal" /\ RowWritable(i)
    /\ run' = [run EXCEPT ![i].sealed = TRUE]
    /\ op' = [op EXCEPT ![o] = Idle]
    /\ UNCHANGED <<day, dir, issued, external>>

\* The external author leaves or replaces drafts.json.
WriteDrafts(i, d) ==
    /\ dir[i].request /\ dir[i].drafts # d
    /\ dir' = [dir EXCEPT ![i].drafts = d]
    /\ UNCHANGED <<day, run, issued, op, external>>

-----------------------------------------------------------------------------
(* finalize_research_run.                                                  *)

\* validate_research_draft_bundle; only the Responses protocol knows not_ready.
ValidBundle(i, d) ==
    /\ d \in Drafts \ Malformed
    /\ d \in NotReady => i \in Responses

\* Read and validate drafts.json against input.json.
FinalizeRead(o, i) ==
    LET d == dir[i].drafts IN
    /\ op[o].step = "idle"
    /\ dir[i].request /\ ValidBundle(i, d)
    /\ op' = [op EXCEPT ![o] = [Idle EXCEPT !.input = i, !.draft = d,
                                    !.step = IF d \in NotReady THEN "reject" ELSE "open"]]
    /\ UNCHANGED <<day, run, dir, issued, external>>

\* The status and the seals of the row, and the clock.
FinalizeOpen(o) ==
    LET i == op[o].input IN
    /\ op[o].step = "open"
    /\ op' = [op EXCEPT ![o] =
                CASE run[i].status = "completed" -> [@ EXCEPT !.step = "recover"]
                  [] RowWritable(i) /\ run[i].sealed /\ BeforeDeadline(i) ->
                        [@ EXCEPT !.step = "commit"]
                  [] OTHER -> Idle]
    /\ UNCHANGED <<day, run, dir, issued, external>>

\* uq_agent_signal_v2_run_identity: a run has one signal per agent, kind and target.
SignalIdentityFree(i) == \A s \in issued : s.run # i

\* _seal_signal and _signal_record, with the forecast made of it; D1 is the configured
\* formal target.
SealSignal(i, t, d) ==
    [run |-> i, track |-> t, from |-> d,
     lane |-> EffectiveLane(Mode[i], IF t \in Decisions \cap Daily THEN "formal" ELSE "shadow")]

\* The signals and forecasts of one bundle.
Sealed(i, d) == {SealSignal(i, t, d) : t \in dir[i].assigned}

\* Signals, CIO decisions, forecasts, status and receipt in one transaction.
FinalizeCommit(o) ==
    LET i == op[o].input
        d == op[o].draft IN
    /\ op[o].step = "commit"
    /\ IF SignalIdentityFree(i) /\ RowWritable(i)
       THEN /\ issued' = issued \cup Sealed(i, d)
            /\ run' = [run EXCEPT ![i].status = "completed", ![i].receipt = d]
            /\ op' = [op EXCEPT ![o].step = "receipt"]
       ELSE op' = [op EXCEPT ![o] = Idle] /\ UNCHANGED <<issued, run>>
    /\ UNCHANGED <<day, dir, external>>

FinalizeReceiptOfDisk(o) ==
    /\ op[o].step = "receipt"
    /\ dir' = [dir EXCEPT ![op[o].input].receipt = dir[op[o].input].drafts]
    /\ op' = [op EXCEPT ![o].step = "task"]
    /\ UNCHANGED <<day, run, issued, external>>

FinalizeReceipt(o) ==
    /\ op[o].step = "receipt"
    /\ dir' = [dir EXCEPT ![op[o].input].receipt = op[o].draft]
    /\ op' = [op EXCEPT ![o].step = "task"]
    /\ UNCHANGED <<day, run, issued, external>>

\* _recover_completed_research_run: a retry with the sealed drafts restores the receipt.
Recover(o) ==
    LET i == op[o].input
        known == {Nothing, run[i].receipt} IN
    /\ op[o].step = "recover"
    /\ IF run[i].receipt = op[o].draft /\ dir[i].receipt \in known
       THEN /\ dir' = [dir EXCEPT ![i].receipt = run[i].receipt]
            /\ op' = [op EXCEPT ![o].step = "task"]
       ELSE op' = [op EXCEPT ![o] = Idle] /\ UNCHANGED dir
    /\ UNCHANGED <<day, run, issued, external>>

\* prepare_reasoning_review: the blind task of the run.  Codex's is written anew with
\* every signal of the run, the Responses one is kept and holds the committee's.
PrepareReasoning(o) ==
    LET i == op[o].input
        committee == {s.track : s \in {r \in issued : r.run = i}}
        late == {s.agent : s \in {r \in shadows : r.run = i}} IN
    /\ op[o].step = "task"
    /\ dir' = [dir EXCEPT ![i].reviews =
                 CASE i \notin Responses -> committee \cup late
                   [] i \in Responses /\ @ = {} -> committee
                   [] OTHER -> @]
    /\ op' = [op EXCEPT ![o] = Idle]
    /\ UNCHANGED <<day, run, issued, external>>

-----------------------------------------------------------------------------
(* _finalize_not_ready_run.                                                *)

\* A repeat must bring the sealed rejection; otherwise the run has to be open.
RejectOpen(o) ==
    LET i == op[o].input IN
    /\ op[o].step = "reject"
    /\ op' = [op EXCEPT ![o] =
                CASE ~run[i].sealed -> Idle
                  [] run[i].sealed /\ run[i].status = "failed" /\ run[i].receipt = op[o].draft ->
                        [@ EXCEPT !.step = "rejectReceipt"]
                  [] run[i].sealed /\ run[i].status = "awaiting_draft" /\ BeforeDeadline(i) ->
                        [@ EXCEPT !.step = "rejectCommit"]
                  [] OTHER -> Idle]
    /\ UNCHANGED <<day, run, dir, issued, external>>

RejectCommit(o) ==
    LET i == op[o].input IN
    /\ op[o].step = "rejectCommit"
    /\ IF RowWritable(i)
       THEN /\ run' = [run EXCEPT ![i].status = "failed", ![i].receipt = op[o].draft]
            /\ op' = [op EXCEPT ![o].step = "rejectReceipt"]
       ELSE op' = [op EXCEPT ![o] = Idle] /\ UNCHANGED run
    /\ UNCHANGED <<day, dir, issued, external>>

\* An existing file is compared, never replaced.
RejectReceipt(o) ==
    LET i == op[o].input IN
    /\ op[o].step = "rejectReceipt"
    /\ dir' = [dir EXCEPT ![i].receipt = IF @ = Nothing THEN op[o].draft ELSE @]
    /\ op' = [op EXCEPT ![o] = Idle]
    /\ UNCHANGED <<day, run, issued, external>>

-----------------------------------------------------------------------------
(* Shadow signals, crashes and the calendar.                               *)

\* _validate_acceptance_time: before midnight of the D1 target.
ShadowInTime(i) == \A t \in Decisions \cap Daily : day < Target(i, t)

AdmitShadowUnsaved(i, a, onDisk) ==
    /\ run[i].status = "completed" /\ i \notin Responses /\ onDisk /\ ShadowInTime(i)
    /\ filed' = filed \cup {[run |-> i, agent |-> a]}
    /\ UNCHANGED <<day, run, dir, issued, op, shadows>>

\* _load_context: a completed Codex run with a D1 forecast.
ShadowContext(i) ==
    /\ run[i].status = "completed" /\ i \notin Responses
    /\ \E f \in Forecasts : f.run = i /\ f.track \in Daily

\* _persist_shadow_signal: one signal per agent, a repeat returns it.
PersistShadow(s) == shadows \cup {s}

\* prepare_shadow_reasoning_review_v2, best effort after the commit.
FileReview(s, onDisk) == IF onDisk THEN filed \cup {s} ELSE filed

\* A manual or quant signal; its review task is filed when the disk allows, and again
\* when the submission is repeated.
AdmitShadow(i, a, onDisk) ==
    LET s == [run |-> i, agent |-> a] IN
    /\ ShadowContext(i) /\ ShadowInTime(i)
    /\ s \in shadows => onDisk /\ s \notin filed
    /\ shadows' = PersistShadow(s)
    /\ filed' = FileReview(s, onDisk)
    /\ UNCHANGED <<day, run, dir, issued, op>>

\* The process dies between two steps.
Kill(o) ==
    /\ op[o].step # "idle"
    /\ op' = [op EXCEPT ![o] = Idle]
    /\ UNCHANGED <<day, run, dir, issued, external>>

NextDay ==
    /\ day < LastDay /\ \A o \in Operators : op[o].step = "idle"
    /\ day' = day + 1
    /\ UNCHANGED <<run, dir, issued, external, op>>

CommandStep(o) ==
    \/ PrepareAssign(o) \/ PrepareInsert(o) \/ PrepareWrite(o) \/ PrepareSeal(o)
    \/ FinalizeOpen(o) \/ FinalizeCommit(o) \/ FinalizeReceipt(o)
    \/ Recover(o) \/ PrepareReasoning(o)
    \/ RejectOpen(o) \/ RejectCommit(o) \/ RejectReceipt(o)
    \/ Kill(o)

RunStep ==
    \/ \E o \in Operators :
        CommandStep(o) \/ \E i \in Inputs : PrepareScan(o, i) \/ FinalizeRead(o, i)
    \/ \E i \in Inputs, d \in Drafts : WriteDrafts(i, d)
    \/ \E i \in Inputs, a \in ShadowAgents, onDisk \in BOOLEAN : AdmitShadow(i, a, onDisk)
    \/ NextDay

-----------------------------------------------------------------------------
(* What is promised.                                                       *)

SignalsOf(i) == {s \in issued : s.run = i}

\* Whatever overlaps or crashes, a run has one outcome: a completed one has exactly one
\* signal per assigned track, all from the drafts its receipt seals; a failed or open
\* one has none; and receipt.json, once there, is the database's receipt
\* (finalize_research_run, _finalize_not_ready_run, _recover_completed_research_run).
OneOutcome ==
    \A i \in Inputs :
        /\ CASE run[i].status = "completed" ->
                    /\ {s.track : s \in SignalsOf(i)} = dir[i].assigned
                    /\ Cardinality(SignalsOf(i)) = Cardinality(dir[i].assigned)
                    /\ \A s \in SignalsOf(i) : s.from = run[i].receipt
             [] OTHER -> SignalsOf(i) = {}
        /\ dir[i].receipt # Nothing => dir[i].receipt = run[i].receipt

\* A terminal run is never changed again, not even by a rejection that read it open
\* (the terminal-update trigger on research_runs_v2).
TerminalIsFinal ==
    [][\A i \in Inputs : run[i].status \in {"completed", "failed"} => run'[i] = run[i]]_run

\* Two windows (anchor, target] of one track and mode never overlap: no double count of
\* a W1 forecast or a natural view (_decision_target_due and the finalize deadline).
NoOverlap ==
    \A s, r \in issued :
        /\ s.track = r.track /\ Mode[s.run] = Mode[r.run] /\ s # r
        /\ Anchor[s.run] <= Anchor[r.run]
        => Target(s.run, s.track) <= Anchor[r.run]
=============================================================================
