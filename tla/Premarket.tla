----------------------------- MODULE Premarket -----------------------------
(***************************************************************************)
(* Pre-market open-to-open forecasts: prepare_premarket_run,                *)
(* finalize_premarket_run, evaluate_premarket_run, load_premarket_history   *)
(* and build_premarket_brief over the files of the job directories.  A job  *)
(* is one snapshot of one forecast session; hashes are the values they are  *)
(* taken of.  finalize and evaluate hold the directory's lock; prepare and  *)
(* the writer of drafts.json do not.                                        *)
(***************************************************************************)
EXTENDS Integers, FiniteSets

CONSTANTS
  Jobs,        \* run_ids: snapshots of forecast sessions
  Session,     \* Session[j]: the job's forecast session; the target is the next one
  Texts,       \* what drafts.json may say
  Content,     \* Content[t]: strategy probabilities (percent), severity, gaps, flaw
  Moves,       \* realised open-to-open returns, in units of the threshold's grid
  Threshold,   \* 0.25 * volatility_20d
  Operators,   \* processes that run the commands
  Absent,      \* a file that does not exist
  LastTime     \* bound: the clock

Labels == {"up", "neutral", "down"}
Severities == {"none", "low", "medium", "high"}
Flaws == {"none", "generator", "identity", "evidence", "wiki"}

ASSUME PremarketAssumption ==
  /\ Session \in [Jobs -> Nat \ {0}] /\ LastTime \in Nat /\ Threshold \in Nat
  /\ Content \in [Texts -> [up : 0..100, neutral : 0..100, down : 0..100,
                            severity : Severities, gaps : BOOLEAN, flaw : Flaws]]
  /\ Moves \subseteq Int

\* The boundary of a snapshot: creation, decision_time, finalization_deadline, and
\* 09:30 of the target session, which lies after that session's own deadline.
CreatedAt(j) == 2 * Session[j] - 2
DecisionTime(j) == 2 * Session[j] - 1
Deadline(j) == 2 * Session[j]
Maturity(j) == 2 * Session[j] + 2

VARIABLES
  now,         \* the host's clock
  job,         \* job[j]: the files of the job's directory
  lock,        \* lock[j]: the holder of flock on the directory
  op,          \* op[o]: where a command is
  answered     \* the forecasts that finalize has returned, with the drafts it read

jobVars == <<now, job, lock, op, answered>>

Empty == -1    \* a directory without its input.json

\* What the files hold.
DraftFile == [text : Texts, at : 0..LastTime]
ForecastFile == [job : Jobs, draft : DraftFile, at : 0..LastTime, direction : Labels]
ReceiptFile == [forecast : ForecastFile, completed_at : 0..LastTime]
OutcomeFile == [forecast : ForecastFile, observed : Int, move : Int]
EvaluationFile == [forecast : ForecastFile, outcome : OutcomeFile, at : 0..LastTime,
                   label : Labels, correct : BOOLEAN]

ASSUME NoFileIsNoContent ==
  /\ Absent \notin Operators /\ Absent \notin 0..LastTime /\ Absent # Empty
  /\ Absent \notin DraftFile /\ Absent \notin ForecastFile /\ Absent \notin ReceiptFile
  /\ Absent \notin OutcomeFile /\ Absent \notin EvaluationFile

NoJob == [input |-> Absent, drafts |-> Absent, forecast |-> Absent,
          receipt |-> Absent, outcome |-> Absent, evaluation |-> Absent]
IdleOp == [step |-> "idle", job |-> Absent, at |-> 0, drafts |-> Absent,
           forecast |-> Absent, outcome |-> Absent]

PremarketInit ==
  /\ now = 0 /\ job = [j \in Jobs |-> NoJob] /\ lock = [j \in Jobs |-> Absent]
  /\ op = [o \in Operators |-> IdleOp] /\ answered = {}

At(o, step) == op[o].step = step
Goto(o, step) == op' = [op EXCEPT ![o].step = step]
Idle(o) == op' = [op EXCEPT ![o] = IdleOp]
Release(o) == lock' = [lock EXCEPT ![op[o].job] = Absent]
Write(j, file, value) == job' = [job EXCEPT ![j] = [@ EXCEPT ![file] = value]]

-----------------------------------------------------------------------------
(* What a forecast and an evaluation are.                                  *)

\* PremarketDraftBundleV1, V2: generator and roles.
BundleParses(t) == Content[t].flaw # "generator"

\* finalize_premarket_forecast: schema, run_id, request_hash and times.
BindsHandoff(j, d, at) ==
  /\ Content[d.text].flaw # "identity"
  /\ d.at >= CreatedAt(j) /\ d.at <= at
  /\ DecisionTime(j) <= at /\ at < Deadline(j)

\* Every assignment with its own evidence and its frozen wiki reference.
DraftsMatch(t) == Content[t].flaw \notin {"evidence", "wiki"}

\* The critic's discount in percent; gaps in the evidence raise it to 35.
Discount(c) ==
  LET base == CASE c.severity = "none" -> 0 [] c.severity = "low" -> 5
                [] c.severity = "medium" -> 12 [] c.severity = "high" -> 20
  IN IF c.gaps /\ base < 35 THEN 35 ELSE base

\* Probabilities after the discount towards the uniform distribution, times 30000.
Blend(c) ==
  [l \in Labels |-> 3 * (100 - Discount(c)) * c[l] + Discount(c) * 100]

\* ProbabilitiesV1.direction: the unique maximum.
MaxLabels(p) == {l \in Labels : \A k \in Labels : p[k] <= p[l]}
Decided(c) == Cardinality(MaxLabels(Blend(c))) = 1

\* finalize_premarket_forecast on drafts d, accepted at the given time.
Acceptable(j, d, at) ==
  BundleParses(d.text) /\ BindsHandoff(j, d, at) /\ DraftsMatch(d.text)
  /\ Decided(Content[d.text])

Finalized(j, d, at) ==
  [job |-> j, draft |-> d, at |-> at,
   direction |-> CHOOSE l \in MaxLabels(Blend(Content[d.text])) : TRUE]

\* Files that finalize_premarket_forecast reproduces.
ReproducesAny(j, f, d) == TRUE
Reproduces(j, f, d) == Acceptable(j, d, f.at) /\ Finalized(j, d, f.at) = f

\* _build_premarket_receipt.
Receipt(f) == [forecast |-> f, completed_at |-> f.at]

\* _read_completed_premarket_forecast: input, drafts, forecast and receipt agree.
Completed(j) ==
  /\ job[j].input # Absent /\ job[j].drafts # Absent
  /\ job[j].forecast # Absent /\ job[j].receipt # Absent
  /\ Reproduces(j, job[j].forecast, job[j].drafts)
  /\ job[j].receipt = Receipt(job[j].forecast)

\* evaluate_premarket_forecast: the outcome is this forecast's, seen after the open.
Evaluable(f, x, at) ==
  x.forecast = f /\ x.observed >= Maturity(f.job) /\ x.observed <= at

Label(move) ==
  CASE move > Threshold -> "up" [] move < -Threshold -> "down" [] OTHER -> "neutral"

Evaluated(f, x, at) ==
  [forecast |-> f, outcome |-> x, at |-> at, label |-> Label(x.move),
   correct |-> f.direction = Label(x.move)]
-----------------------------------------------------------------------------
(* prepare_premarket_run.  A directory that exists is validated and returned, *)
(* or refused as long as it has no input.json: both change nothing.           *)

PrepareMkdir(o, j) ==
  /\ At(o, "idle") /\ job[j].input = Absent
  /\ CreatedAt(j) <= now /\ now < Deadline(j)
  /\ Write(j, "input", Empty)
  /\ op' = [op EXCEPT ![o] = [IdleOp EXCEPT !.step = "input", !.job = j, !.at = now]]
  /\ UNCHANGED <<now, lock, answered>>

\* input.json, the template and the instructions.
PrepareInput(o) ==
  /\ At(o, "input") /\ Write(op[o].job, "input", op[o].at) /\ Idle(o)
  /\ UNCHANGED <<now, lock, answered>>

Prepared(j) == job[j].input \notin {Absent, Empty}

\* A bundle of generate_premarket_drafts, or one of Codex, is written to drafts.json.
WriteDrafts(j, t) ==
  /\ Prepared(j)
  /\ Write(j, "drafts", [text |-> t, at |-> now])
  /\ UNCHANGED <<now, lock, op, answered>>

-----------------------------------------------------------------------------
(* finalize_premarket_run, under the directory's lock.                     *)

\* Every refusal leaves the files as they are; a command that reads on takes the lock.
FinalizeRead(o, j) ==
  LET d == job[j].drafts
      f == job[j].forecast
  IN
  /\ At(o, "idle") /\ lock[j] = Absent
  /\ Prepared(j) /\ d # Absent
  /\ ~(job[j].receipt # Absent /\ f = Absent)
  /\ Acceptable(j, d, now)
  /\ f # Absent => f.at <= now /\ Reproduces(j, f, d)
  /\ f # Absent /\ job[j].receipt # Absent => job[j].receipt = Receipt(f)
  /\ lock' = [lock EXCEPT ![j] = o]
  /\ op' = [op EXCEPT ![o] =
       [IdleOp EXCEPT !.job = j, !.at = now, !.drafts = d,
          !.forecast = IF f = Absent THEN Finalized(j, d, now) ELSE f,
          !.step = CASE f = Absent -> "check_forecast"
                     [] f # Absent /\ job[j].receipt = Absent -> "check_receipt"
                     [] OTHER -> "check_answer"]]
  /\ UNCHANGED <<now, job, answered>>

WindowOpen(j) == now < Deadline(j)

\* A check that fails with the lock still held.
CheckWindowKeepsLock(o) ==
  /\ op[o].step \in {"check_forecast", "check_receipt"}
  /\ IF WindowOpen(op[o].job)
     THEN Goto(o, IF At(o, "check_forecast") THEN "forecast" ELSE "receipt")
     ELSE Idle(o)
  /\ UNCHANGED <<now, job, lock, answered>>

\* _require_finalization_window_open before each write and before the answer.
CheckWindow(o) ==
  /\ op[o].step \in {"check_forecast", "check_receipt"}
  /\ IF WindowOpen(op[o].job)
     THEN Goto(o, IF At(o, "check_forecast") THEN "forecast" ELSE "receipt") /\ UNCHANGED lock
     ELSE Idle(o) /\ Release(o)
  /\ UNCHANGED <<now, job, answered>>

WriteForecast(o) ==
  /\ At(o, "forecast") /\ Write(op[o].job, "forecast", op[o].forecast)
  /\ Goto(o, "check_receipt")
  /\ UNCHANGED <<now, lock, answered>>

WriteReceipt(o) ==
  /\ At(o, "receipt") /\ Write(op[o].job, "receipt", Receipt(op[o].forecast))
  /\ Goto(o, "check_answer")
  /\ UNCHANGED <<now, lock, answered>>

\* The last look at the clock, and the forecast that is returned.
FinalizeAnswer(o) ==
  /\ At(o, "check_answer") /\ Idle(o) /\ Release(o)
  /\ answered' = IF WindowOpen(op[o].job)
                 THEN answered \cup {[forecast |-> op[o].forecast, drafts |-> op[o].drafts, at |-> now]}
                 ELSE answered
  /\ UNCHANGED <<now, job>>

-----------------------------------------------------------------------------
(* evaluate_premarket_run.                                                 *)

\* The outcome file and the clock are read before the lock is taken.
EvaluateStart(o, j, x) ==
  /\ At(o, "idle")
  /\ op' = [op EXCEPT ![o] = [IdleOp EXCEPT !.step = "evaluate", !.job = j, !.at = now, !.outcome = x]]
  /\ UNCHANGED <<now, job, lock, answered>>

\* An outcome that is sealed must be the same; an evaluation that exists is returned.
EvaluateRead(o) ==
  LET j == op[o].job
      x == IF job[j].outcome # Absent THEN job[j].outcome ELSE op[o].outcome
      goes == /\ Completed(j) /\ x = op[o].outcome /\ job[j].evaluation = Absent
              /\ Evaluable(job[j].forecast, x, op[o].at)
  IN
  /\ At(o, "evaluate") /\ lock[j] = Absent
  /\ IF goes
     THEN /\ lock' = [lock EXCEPT ![j] = o]
          /\ op' = [op EXCEPT ![o].step = "outcome", ![o].forecast = job[j].forecast]
     ELSE Idle(o) /\ UNCHANGED lock
  /\ UNCHANGED <<now, job, answered>>

WriteOutcome(o) ==
  /\ At(o, "outcome") /\ Write(op[o].job, "outcome", op[o].outcome)
  /\ Goto(o, "evaluation")
  /\ UNCHANGED <<now, lock, answered>>

WriteEvaluation(o) ==
  /\ At(o, "evaluation")
  /\ Write(op[o].job, "evaluation", Evaluated(op[o].forecast, op[o].outcome, op[o].at))
  /\ Idle(o) /\ Release(o)
  /\ UNCHANGED <<now, answered>>

-----------------------------------------------------------------------------
(* load_premarket_history and build_premarket_brief.                       *)

Scored == {j \in Jobs : job[j].evaluation # Absent}
Settled(before) == {j \in Scored : Session[j] + 1 < before}

\* The history raises on a broken chain, or on two episodes of one session.
HistoryReadable(before) ==
  /\ \A j \in Scored :
       /\ job[j].outcome # Absent /\ Completed(j)
       /\ Evaluable(job[j].forecast, job[j].outcome, job[j].evaluation.at)
       /\ job[j].evaluation = Evaluated(job[j].forecast, job[j].outcome, job[j].evaluation.at)
  /\ \A j, k \in Settled(before) : Session[j] = Session[k] => j = k

\* Cumulative hits and sample size over the settled episodes with a material move.
Material(before) == {j \in Settled(before) : job[j].evaluation.label # "neutral"}
Hits(before) == {j \in Material(before) : job[j].evaluation.correct}

\* The brief of a completed job: its forecast, and the record the owner is shown.
Brief(j) ==
  [forecast |-> job[j].forecast, size |-> Cardinality(Material(Session[j])),
   hits |-> Cardinality(Hits(Session[j]))]
BriefReady(j) == Completed(j) /\ HistoryReadable(Session[j])

-----------------------------------------------------------------------------
(* A killed command leaves its files and loses its lock; time passes.      *)

KillCommand(o) ==
  /\ ~At(o, "idle") /\ Idle(o)
  /\ lock' = [j \in Jobs |-> IF lock[j] = o THEN Absent ELSE lock[j]]
  /\ UNCHANGED <<now, job, answered>>

Tick == now < LastTime /\ now' = now + 1 /\ UNCHANGED <<job, lock, op, answered>>

CommandStep(o) ==
  \/ PrepareInput(o) \/ CheckWindow(o) \/ WriteForecast(o) \/ WriteReceipt(o)
  \/ FinalizeAnswer(o) \/ EvaluateRead(o) \/ WriteOutcome(o) \/ WriteEvaluation(o)

PremarketStep ==
  \/ \E o \in Operators :
       \/ \E j \in Jobs : PrepareMkdir(o, j) \/ FinalizeRead(o, j)
       \/ \E j \in Jobs, x \in OutcomeFile : EvaluateStart(o, j, x)
       \/ CommandStep(o) \/ KillCommand(o)
  \/ \E j \in Jobs, t \in Texts : WriteDrafts(j, t)
  \/ Tick

PremarketSpec == PremarketInit /\ [][PremarketStep]_jobVars
-----------------------------------------------------------------------------
Forecast(f) ==
  /\ f.job \in Jobs /\ f.draft.text \in Texts /\ f.at \in 0..LastTime
  /\ f.direction \in Labels

PremarketTypeOK ==
  /\ now \in 0..LastTime
  /\ \A j \in Jobs :
       /\ job[j].input \in 0..LastTime \cup {Absent, Empty}
       /\ job[j].drafts # Absent => job[j].drafts.text \in Texts /\ job[j].drafts.at <= now
       /\ job[j].forecast # Absent => Forecast(job[j].forecast)
       /\ lock[j] \in Operators \cup {Absent}
       /\ lock[j] # Absent => op[lock[j]].job = j
  /\ \A a \in answered : Forecast(a.forecast)

\* The files of a job only ever grow into one chain: a receipt is of the forecast
\* beside it, which was made in its window; an outcome and an evaluation exist only
\* for a sealed forecast, after the target's open, and the evaluation is that of the
\* outcome on disk, whoever was killed or waited in between (evaluate_premarket_run).
ChainHolds ==
  \A j \in Jobs :
    LET r == job[j] IN
    /\ r.forecast # Absent => DecisionTime(j) <= r.forecast.at /\ r.forecast.at < Deadline(j)
    /\ r.receipt # Absent => r.forecast # Absent /\ r.receipt = Receipt(r.forecast)
    /\ r.outcome # Absent => r.receipt # Absent /\ r.outcome.forecast = r.forecast
    /\ r.evaluation # Absent =>
         /\ r.outcome # Absent /\ Maturity(j) <= r.evaluation.at
         /\ r.evaluation = Evaluated(r.forecast, r.outcome, r.evaluation.at)

\* Whoever is told of a forecast is told in time, of the one that is sealed, and of
\* the one that the drafts he finalized lead to, although the writer of the drafts
\* does not hold the lock (finalize_premarket_run).
AnswersStand ==
  \A a \in answered :
    LET j == a.forecast.job IN
    /\ a.at < Deadline(j) /\ job[j].forecast = a.forecast
    /\ job[j].receipt = Receipt(a.forecast)
    /\ Finalized(j, a.drafts, a.forecast.at) = a.forecast
=============================================================================
