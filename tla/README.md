# A TLA+ development of forecast-loop

forecast-loop produces auditable market forecasts: a committee of model agents
writes opinions on a frozen snapshot, an arbiter turns them into forecasts, the
market settles them, people add judgments of their own, and a daily reflection
turns mistakes into lessons that are replayed, approved and retired. A second
programme (v2) issues forecasts of its own and is activated once it has earned it;
an evaluation of the agents, pre-market judgments and messages to the owner stand
beside it. Almost all of the difficulty is in *when* things become durable: the state
is spread over SQLite rows and sealed files, several processes (API, workers,
command-line operators) change it at the same time, and any of them may be killed
between two writes.

The modules here model that state and those steps, from the code under
`src/backend/app`. The configurations check them with TLC on small instances; for most
components the safety properties are also proved with TLAPS, for every number of
processes, rows and attempts. `PROJECT.json` maps each definition to the lines it stands
for, and lists the runs, their properties, a mutated definition for each, the hazards
and the findings.

## 1. Inventory

| Component (source) | State it keeps | Operations | What is hard |
|---|---|---|---|
| **Persistent task queue** (`services/task_queue.py`, `workflow.py`) | `workflow_tasks` (status, version, attempt_count, lease worker/token/expiry), `workflow_runs.status`, forecasts | enqueue, claim, renew, recover_expired, complete, fail, fail_terminal, run_once, heartbeat thread, fence_execution | two workers and two heartbeats on one row; clocks read before a transaction; leases that run out; a graph that hangs; crashes |
| **Run submission API** (`api.py`, `services/v1_run_admission.py`) | idempotency keys, active runs | create_run, replay, wait for a rival, fail_unqueued | every check is a read before the one insert |
| **Codex file handoff** (`services/handoff.py`, `main.py`) | run row with its handoff seal (attempt, drafts, history, transitions), package files `input`, drafts, `receipt.json`, archive, job lock (flock) | prepare, finalize (v2, v3), retry/re-arm, archive, interrupted-attempt recovery, API start-up sweep | row and files are written separately; kill between any two; API start beside a live finalizer; late drafts |
| **Committee graph** (`workflow.py`, `domain.py`, `services/snapshot.py`, `services/wiki.py`) | LangGraph checkpoint threads with reducers, sealed snapshot and wiki edition | prepare, experts, strategist, critic, evidence check, decision, persistence | attempts that overlap or resume; ties and thresholds of the decision rule |
| **Job execution store** (`jobs/execution.py`) | append-only revision files, trusted receipt, staged temporary files | begin, resume, record_prepared, draft_instruction, record_draft_ready, record_finalized | two operators race for the same revision number; kill between staging and unlinking; the handoff changes underneath |
| **Lesson lifecycle** (`services/lesson_lifecycle.py`, `reflection_governance.py`) | lesson rows, replay batches, numbered audit events | record replay, approve, revalidate (challenge, retire), supersede, verify audit | sessions load rows early and flush late; no version on the row |
| **Believability** (`services/believability.py`, `reflection_governance.py`) | opinion evaluations, reflection reviews, evidence sealed into runs | review a reflection, evaluate again, seal as of a cutoff | a past cutoff must yield the same for ever while rows keep arriving |
| **User judgments** (`services/user_judgment.py`, `user_judgment_markdown.py`) | judgment rows, wiki pages, the shared agent_specs row, scores | create (with idempotent replay), score | page published before the commit; two requests of one actor; the window closes meanwhile |
| **Outcome evaluation** (`services/evaluation.py`, `market_outcome.py`, `reflection.py`) | forecast evaluations, immutable prices, evaluation batches and snapshots | run_evaluations, import_market_snapshot, materialize_evaluation_batch, record blocked batches | due sets grow; two operators with different closes |
| **Daily reflection handoff** (`services/reflection_handoff.py`) | reflection rows and lineage, package directory, `sources.json`, drafts, receipt, findings | prepare, freeze-sources, finalize; assign, classify sources, accept findings | a file and a transaction per step; error handlers that take files back; rules on verdicts that must not contradict each other |
| **Research programme v2** (`research_v2.py`, `services/research_v2*.py`) | run rows and directories, signals, reviews, episodes, reflections, activation ledger | prepare, finalize, reject, recover, admit shadow signals, review, evaluate, reflect, activate, retire | cadence over many sessions; a row and a receipt; activation beside admission |
| **Agent evaluation** (`services/agent_evaluation*.py`) | leased experiments, bad cases with numbered events and artifacts, v2 job directories | enqueue, sweep, claim, finish; prepare, finalize, feedback, accept; transition, materialize | leases without a fence, four effects of one finalize, overlapping reviewers |
| **Agent tracing** (`services/agent_tracing.py`) | traces, spans, links, triggers that seal them | start, span, link, mark degraded, finish | every call is best-effort and may lose its race |
| **Pre-market judgments** (`premarket.py`, `services/premarket.py`) | job directories, flock, forecast, receipt, outcome, evaluation | prepare, finalize, evaluate, history, publish | a deadline that passes between a check and a write |
| **Owner delivery** (`services/daily_brief_v2.py`, `services/premarket.py`) | gate file, marker, what the owner received | publish | send and marker are two effects |
| **Recovery bundles** (`services/recovery.py`) | staged backup, bundle, restore target | backup, verify, restore | copies are taken while the system writes |
| **Responses providers** (`services/openai_responses_v2.py`, `codex_responses_v2.py`) | drafts and who wrote them | stream a response, classify its failure, fall back, publish | which failure allows the fallback |
| **Bundles**, **contracts**, **job manifests**, **status projections**, **frontend** | none of their own | pure functions, readers, formatting | little |

How they meet. A request to the API prepares a run and enqueues a task; a worker
claims it, executes the committee graph and publishes forecasts in a transaction
fenced by its lease. A run may instead be executed by a *file handoff*: a package is
prepared, an author writes drafts into it, `finalize` validates them and executes the
same `execute_prepared`. A *job execution* is an outer record of one such handoff.
When the target session has closed, an evaluation command records one price per index
and evaluates the forecasts; a batch over all that is due is the basis of a
*reflection*, which goes prepare, freeze sources, finalize, and proposes lessons;
lessons live by replay, approval and revalidation, and reviewed reflections feed the
believability evidence of later runs. The v2 programme has runs, reviews and episodes
of its own; once activated it closes the admission of v1 runs. Its commands record
traces, from which agent evaluation and its bad cases are anchored. The components
share rows and files only: no message is ever exchanged but the one to the owner, so
every race is a race on a row, a unique index, the SQLite write lock, a hard link, a
rename or a file lock, and that is what the modules model.

## 2. Modules

| Module | Models | Shape of the state |
|---|---|---|
| `RunLedger` | abstract: what a reader of the results relies on | `phase`, `tries` of each run |
| `TaskQueue` | queue, workers, heartbeats, `execute_prepared` | rows `task`, `run`, `forecasts`; per worker a program counter, a lease, the row references and the clock value it read; the same for its heartbeat |
| `Handoff` | the file handoff, protocols v2 and v3, API start | `row`, `files` (drafts, receipt, archive, input), lock, one program counter per finalize/retry process |
| `JobExecution` | one execution directory | revision chain, trusted receipt, litter, the handoff outside |
| `LessonLifecycle` | the lessons of one cluster | rows, batches, events, one open session per operator |
| `Believability` | reviews, opinion evaluations, sealed evidence | rows with their times, `seals` of a cutoff |
| `OutcomeScoring` | judgments, evaluation, batches, for one target session | rows, pages, prices, batches, scores |
| `CommitteeGraph` | preparation, attempts, nodes and decision of one run | run row, one channel state per checkpoint thread, one program counter per attempt |
| `ReflectionHandoff` | the reflections of one run and evaluation set | rows, files, findings, write lock |
| `ReflectionFindings` | from a day's outcomes to a stored finding | market, council, assignments, sources, finding |
| `ActivationLedger`, `RunSubmission` | v1 admission and `create_run` | activation events; runs, keys, requests |
| `ResearchRuns` | v2 runs, their directories, shadow signals | rows, directories, issued signals, one command per operator |
| `ResearchLedger` | v2 reviews, episodes, reflections, activation | what was reviewed, scored, reflected and activated |
| `EvalQueue`, `EvalHandoff`, `BadCases` | agent evaluation v1, v2, bad cases | experiment and task; job files and traces; cases with events and artifacts |
| `AgentTracing`, `TraceJournal` | traces of one subject; the best-effort journals of research commands | attempts, spans, links; position, results and verdict of each journal |
| `Premarket`, `OwnerDelivery` | pre-market jobs; publication to the owner | job files, lock, clock; gate, marker, inbox |
| `Recovery` | backup and restore | files and rows of the system, backup, bundle, target |
| `DraftGeneration` | drafts from a model service | streams of events, drafts with their provenance |
| `MC*` | the instances | model values, symmetry, regimes |
| `*Proofs` | the theorems (section 5) | - |

Every module has one action per transaction or file operation, because that is the
grain at which other processes see it: a method that commits twice is two actions
with a program counter between them, a method with one commit is one action with its
reads before it. Where a session reads rows before it takes the write lock, the reads
are an action of their own and what was read is kept in the process's record.

`TaskQueue`: `ClaimScan`/`ClaimOne`/`VerifyPayload`/`LoadRun` are `claim` and the head
of `run_once`; `BeginExecution`/`GraphReturns`/`FinalizeResult`/`MarkFailed` are the
transactions of `execute_prepared`; `CompleteTask`/`FailAttempt`/`FailTerminal` are the
ends of an attempt; `RecoverScan`/`RecoverOne`/`RecoverDone` are `recover_expired`, which
walks rows read earlier; `RenewRead`/`RenewWrite`/`HeartbeatScan`/`HeartbeatRecover`/
`HeartbeatEnd` are the heartbeat thread. `Crash` kills a process with both threads.

`Handoff`: `PrepareRow`/`PrepareSeal` are prepare; `StartFinalize` ... `FreezeDrafts` are
finalize with `_write_or_verify_receipt` as `CreateReceipt` (exclusive creation) and
`FillReceipt`; `StartRetry` ... `Rearm` are retry with its archive; `RestartApi` is
`_fail_interrupted_runs`.

`ResearchRuns`:
`PrepareScan`/`PrepareAssign`/`PrepareInsert`/`PrepareWrite`/`PrepareSeal` are
`prepare_research_run`; `FinalizeRead` ... `FinalizeReceipt` and `Reject*` are
`finalize_research_run` and the rejection of a run that is not ready; `Recover` is the
repair of a missing receipt. `CommitteeGraph`: one action per node (`FreezeSnapshot`,
`Research`, `Strategize`, `Criticize`, `ValidateEvidence`, `Decide`, `PersistResult`),
in the order of `_build_graph`. `Premarket`: `PrepareMkdir`/`PrepareInput`,
`FinalizeRead`/ `CheckWindow`/`WriteForecast`/`WriteReceipt`/`FinalizeAnswer`,
`EvaluateStart` ... `WriteEvaluation`.

### Abstractions

* A hash is the value it was taken of; two different values never share one.
* Texts (drafts, findings, prices, payloads) are members of small sets, with the
  attributes the code decides on: the epoch and validity of a draft, whether a payload
  is damaged, whether a replayed date improves, which contract a bundle violates.
* Probabilities and returns are integers on a scale: thousandths in `CommitteeGraph`,
  units of the noise band in `ReflectionFindings`. The decision rule, the ranks with their
  tolerance, the haircut and the severities are computed on them as in the code. Market
  regime and style bias, which the strategist's context also carries, decide nothing and
  are left out.
* `TaskQueue` has one heartbeat per worker which ends with its attempt. The real
  thread may outlive `__exit__` by one renewal; that renewal carries the old token and
  meets the same guard as any late worker's.
* Drafts are changed by their author only while the code leaves them writable.
* `LessonLifecycle` has one cluster, `OutcomeScoring` one target session and horizon,
  `AgentTracing` one subject; rows of different ones never meet in a query.
* SQLAlchemy runs with `autoflush=False`; a session's writes take SQLite's write lock
  from the first flush to the commit, and a unique index is evaluated there.
* In `ReflectionHandoff` the clock values of two commands differ.
* A session of `EvalQueue` or `BadCases` is one action per `SELECT` and one for its flush
  and commit; sessions interleave between them. `torn` in `EvalQueue` and `late` on a
  judgment of `OutcomeScoring` are history that no action reads.
* `EvalHandoff` follows one target of a report; the feedback of a failed report files a
  case for each.
* `Recovery` has two kinds of writers, those that publish a file before its row
  (judgments) and those that write it afterwards (`RowFirst`: research, handoff and
  reflection receipts), and an operator who may pause them.
* `DraftGeneration` is `draft_research_run`; `draft_reasoning_review` asks in the same way,
  without a deadline, and is not a command of its own.
* The report an activation needs is an input of `ActivateRead` that passes or not.
* In `TraceJournal` a call of the recorder is atomic or raises; the read and the write
  inside a call are apart in `AgentTracing`.

## 3. Runs, bounds, fairness

A dozen runs, one per question: TLC's work goes into one instance per component,
and where two regimes would multiply the state space (operators who take turns with
long histories, operators who overlap on short ones) the MC module chooses the regime
in its initial state and leaves it unchanged. A property that needs commands to take
turns says so (`alone => ...`, `InTurn => ...`); all others hold in every regime.

| Run | Instance | Shows |
|---|---|---|
| `queue_safety` | 2 workers whose manifest matches or has drifted, 1 task, 2 attempts, lease 2 s, deadline 3 s, clock to 5, 1 crash | the safety properties of the queue and that it implements `RunLedger` |
| `queue_live` | unbounded clock, 1 crash | every submitted run settles |
| `handoff` | 2 processes, v2 and v3, 3 attempts, drafts of both epochs, 2 crashes, 1 API start | epochs, seals, receipts, archives |
| `jobs` | 2 operators, contested manifest and handoff, or contested drafts and receipts; 1 kill | the chain verifies, acknowledgements are recorded |
| `lessons` | topics: an ordinary lesson and a checklist over 3 dates of which 2 improve, in turn or overlapping; or 4 reflections in 2 lineages and 2 opinions over 3 days with a seal | audit, heads, fresh evidence; a sealed cutoff replays |
| `scoring` | crowds: requests (2 at once, 1 kill; up to 3, or 2 beside commands), commands (2 operators with different closes over 2 live runs), committees over every combination of drafts, committees with 3 attempts that fail, die and overlap | seals, prices, scores; what a committee publishes |
| `scoring_two_runs` | 2 live runs, 1 operator | *violation*: finding 1 |
| `reflection` | topics: 3 reflections, 2 operators, 2 texts, 1 failing write, 1 kill; or days of 5 indexes with returns around every threshold, complete, larger or thin councils, sources on both sides of cutoff and close | seals, lineage, findings, retries; which findings are accepted |
| `research` | regimes: overlapping commands on runs of one date with a kill; commands in turn over 3 sessions with shadow signals and reviews; the same with reflections and activation; 3 v1 requests with 2 keys beside activations | outcomes, cadence, formal forecasts, idempotency |
| `research_shadow_review` | as `research` | *violation*: finding 2 |
| `agent_eval` | regimes: 2 eval workers with interleaving sessions, 2 attempts; 2 finalize commands with 6 drafts, in turn or overlapping, 1 kill; 2 reviewers of 2 cases, in turn or overlapping; 2 recorders on 2 attempts; 5 journals with 2 failing calls | experiments, reports, bad cases, traces |
| `briefs` | regimes: 2 operators on one job; two sessions in turn with their history and messages; overlapping publications; backup and restore of 3 files, one of them written after its row, with or without a pause; 2 draft commands over every stream of events | forecasts, messages, restored files, provenance |

Why the bounds are enough to be interesting: two processes are enough for every race on
a row, since each guard compares the row with what one process read; two attempts give a
first, a last and a stale one (three in `handoff`, so that an archive lies behind an
archive, and in the committee, so that a stale attempt lies behind a dead one); the
clock passes the lease's end, the attempt's deadline and the pre-market deadline while
they are still being used; returns lie on both sides of every threshold of the
diagnosis, and drafts on both sides of every tolerance; two failing calls let a call and
the mark of its failure be lost together; every action of every module fires in some
passing run. Bounds appear in the guards as `MaxClock`, `MaxCrashes`, `MaxAttempts`,
`MaxRestarts`, `MaxJudgments`, `MaxDrafts`, `MaxFaults`, `MaxKills`, `RaceClock`,
`SteadyDrafts`, `CommandJudgments`, `MaxEntries`, `MaxDays`, `MaxSets`, `MaxSeals`,
`MaxRounds`, `MaxEvents`, `LastDay`, `LastTime`, `LastInstant`, `MaxEvalClock`,
`MaxCaseEvents`, `MaxTraces` and `MaxJournalFaults`. `MaxAttempts` of the queue and
`MaxEvalAttempts` are the code's own; the others cut counters that are unbounded in the
program.

Deadlock is checked for the queue (a worker polls for ever), the handoff and the job
store (a command may always be called again), and switched off for the components
whose commands are bounded by a counter: they may all have been run.

Fairness is assumed in `queue_live` only: weak fairness of each worker's main loop
except `GraphReturns`, of each heartbeat, and of time. The loop of `run_forever` and
the heartbeat are threads the operating system schedules; `graph.invoke` calls a model
service and may never return, so nothing is assumed of it. In that run a thread that
has read the clock acts before the next second (`Prompt`) and, at the bound, all
timestamps move down together (`Rebase`), which the code cannot notice because it
only compares them. The other components are commands an operator calls when they
like: nothing makes them run again, and no liveness is claimed of them.

## 4. Properties

Queue. `RunTaskAgree`: task and run rows, written by five transactions, tell one
story, and forecasts exist exactly when both say completed. `AttemptsDisjoint`: two
workers never run the same attempt. `LeaseWithinDeadline`: no renewal carries a lease
past its deadline. `LiveLeaseNotTaken`: recovery, which walks rows read earlier, never
takes a lease that is live. `PublishedByHolder`: forecasts appear once, by the holder
of the token. `ImplementsLedger`: the refinement. `EveryTaskSettles`: liveness.

Handoff. `AttemptsInOrder`: history and retry transitions alternate in time, no draft of
an earlier epoch is admitted, and an attempt claims its checkpoint thread once.
`SealsAgree`: output exists exactly when the run is completed and stems from the sealed
drafts, a whole receipt in the slot belongs to the sealed attempt, and every earlier
attempt is archived as sealed. `AuditTrailGrows`: none of it is ever rewritten.

Job execution. `ChainTrusted` (the chain verifies, and a terminal revision and its
trusted receipt agree), `AcknowledgedIsRecorded` (what an operator was told is in the
chain), `ResumableWhenQuiet` (failed publications leave nothing behind).

Lessons. `AuditStands` (a cluster has one head; of commands in turn the audit accepts
everything and a lesson is in force on replay evidence only), `FreshEvidence` (of commands
in turn, one confirms a lesson only on dates that the previous validation had not seen).
`EvidenceSealed`: what a run was sealed with as of its cutoff is what the tables yield
for that cutoff for ever, and no approval passes over an earlier reflection.

Scoring. `SealedForGood` (an acknowledged judgment keeps its row and page), `NoHindsight`
(once the session has opened, no request that was not already being served becomes a
judgment, by a new row, a replay or a lost race; the requests in flight may take as long
as they like), `ScoredOnOneOutcome` (one price per index, batches on that outcome, scores
for exactly the eligible judgments that were committed before their forecasts matured).
`CommitteeSound`: what is published is the whole work of one attempt, on the sealed input,
with directions that follow from the strategist's drafts, and ranks that follow from its
scores: a better rank is a larger score, and a score that is larger by more than the
tolerance `RankTie` has the better rank.

Reflection. `SoundInTurn` (the row's seals are the files', and what fails can be taken up
again), `StoredOnce` (findings once, with the receipt on disk; corrections form a
chain), `FindingsFair` (a finding holds nothing against an agent that it could not have
known, a verdict follows from what the market did, and every day can be analysed
but a systemic fall with an index inside its noise band, see section 6).

Research. `OutcomesStand` (a run has one outcome in row, files and receipt; no signal
enters a scored episode), `TerminalIsFinal`, `SoundInTurn` (windows of a track never
overlap, a formal forecast is earned), `AnswersAgree` (a key answers with one run, an
as_of has one active run).

Agent evaluation. `ExperimentFollowsTask` (experiment and task tell one story as long
as no session commits over rows that changed since it loaded them; whatever interleaves, a
lease is held exactly while the task runs, a completed task has a completed experiment and
that has its results), `ReportsHold` (a receipt seals the one report
that follows from its drafts, a failed report is filed once, and a trace sealed as
completed by a journal has all its spans and outputs), `CasesHold` (a bad case has the
status its last event leads to, and its events are one chain of allowed transitions from
statuses it has had; of reviewers in turn, every event begins where the one before it
ended and the artifact is kept), `SealedTraceIsFinal`.

Briefs. `ForecastsStand` (the files of a job form one chain and an answer stands on it),
`BriefsHold` (a marker says what the owner has; the history stays readable),
`RestoredNamesFiles` (a bundle taken while the system writes lacks only files that are
written after their rows, and one taken in a pause no file that the system had; a restored
target is the bundle, whatever damages it meanwhile), `ProvenanceTrue` (drafts name who
wrote them and under which identity, which is the one announced last before the response
was completed; a fallback has a confirmed unavailability behind it; whoever wins the race
for the file composed its drafts before the cutoff and while the run waited for them).

Each property has a mutant in `PROJECT.json`: a plausible mistake in the code (a guard
without the version, an uncapped renewal, a transaction split in two, a seal kept over
a retry) under which TLC finds it violated.

## 5. What is proved

Eight modules hold theorems. Each is about the specification of a component (or of the
composition a run checks, in every regime), for every value of the constants that
satisfies the `ASSUME`s beside their declaration: those say what the code's own
constructors and constants guarantee (positive lease, at least one attempt, `NULL` is no
row, finite sets where the code counts) and that the bounds are numbers. TLC evaluates
them on the instances.

All proofs have one shape: an inductive invariant with one lemma per action, then the
properties from it. The properties TLC checks are hardly ever inductive, since they speak
of rows and files only; what has to be added is what a process *in flight* still knows
of what it read, and that is the interesting part of each invariant.

| Module | Theorems | What the inductive invariant adds |
|---|---|---|
| `TaskQueueProofs` | `TypeCorrect`, `RunTaskAgreement`, `DisjointAttempts`, `DeadlineBound`, `OnlyHolderPublishes`, `LiveLeasesAreSafe`, `LedgerRefinement` (`Spec => Ledger!LedgerSpec`) | `LeaseShape`: a row carries a token exactly while it is leased, and tokens are never from the future; `RecoverRefsFresh`: a row somebody read for recovery changed its version since or is still expired at the time read, which makes the version in the `UPDATE` a sufficient guard |
| `HandoffProofs` (the run's handoff) | `TypeCorrect`, `AttemptsStayInOrder`, `SealsStayTrue`, `TrailIsKept` | `RowSeal`: the pairs of row and seal status that occur; `LockOK`: on a v3 package whoever works holds the lock, so that `HeldOK` may say what the holder knows at each place; `LooseOK`: the little that an unlocked v2 finalizer can rely on |
| `HandoffProofs` (the reflection's) | `ReflectionsFormAChain`, `ReflectionsStoredOnce`, `ReflectionsSoundInTurn`, `FindingsStayFair` | `CommandOK`: only the holder of the write lock is between claim and commit, over a row that awaits its analysis and a receipt of its own; `TurnOK`, `UnkilledOK`, `PackageOK`: in turn, what a command has read still holds, and what lies published before its transaction belongs to the command at work. For the findings, `AssignmentFacts`: what an assignment says of its subject |
| `JobExecutionProofs` | `TypeCorrect`, `ChainIsTrusted`, `AcknowledgementsStand`, `QuietIsResumable` | `ChainOK`: seals are never taken back along the whole chain, not only between neighbours; `SeenOK`: the state an operator read is still a revision, if not the last one; `TrustOK`: the receipt it copied is the trusted one |
| `LearningProofs` | `SealedEvidenceStands`, `OneLessonInForce`, `AuditAcceptsItsRecords`, `AuditAlwaysStands`, `EvidenceAlwaysFresh` | `Dated`: nothing in the tables is from the future and a seal is of a day that has passed, so that no later row enters its window; `BatchesOK`, `EventsOK`, `RowOK`: the audit's own recomputation, restated on values so that an append keeps it; `SessionOK`: nothing a command running alone read has changed |
| `ScoringProofs` | `SealsAreKept`, `ScoresFollowOutcomes`, `HindsightIsExcluded`, `CommitteeIsSound` | `IdsOnce`: an id belongs to one request in flight or one row; `ClockOrders`: outcomes exist after the close only; `DueEvaluated`: a command holds its whole evaluation set. For the committee, `ChannelsSound`: which seats have spoken at each node, with sound opinions and ranks, and `AttemptsFenced` |
| `ResearchProofs` | `RequestsAgree`, `OutcomesAlwaysStand`, `EndedRunsStay`, `FormalForecastsAreEarned`, `ResearchSoundInTurn`, `TypeCorrect` | `RequestOK`, `AnsweredOK`: what a request at each place knows and has written; `CommandOK`: a prepare works on the run it inserted until it seals it, a commit was opened before the deadline, a receipt is that of the row; `EarnedInv`: what an activation has read stays true until it commits; `Placed`: a run in preparation begins no earlier than the windows before it end, and since D1 is due every session a commit in time falls on the anchor session, so the run sealed is always the latest. `RunsInOrder` counts runs by their dates: there is a latest one, and the earliest `RequiredApprovals` are exactly so many |
| `AgentEvalProofs` | `ExperimentsFollowTasks`, `SealedTracesStay`, `CasesFollowEvents`, `ArtifactsAreKept`, `CasesHoldThroughout`, `ReceiptsSealOneReport`, `FailuresFiledOnce`, `CompletedTracesAreWhole`, `ReportsHoldThroughout` | `WorkerOK`: which statuses a session at each place can have loaded, and that an experiment it saw completed had its results; `TransitionOK`: a transition was allowed from a status the case has had, and from its last one in turn; `FiledInv`: in turn, a job has at most one trace and the only case is that of this trace; `JournalInv`: a call that was not lost has written its part of the trace by the time the next one starts |
| `BriefsProofs` | `RestoredIsWhole`, `OriginsAreTrue`, `MarkersAreTrue`, `ForecastsAlwaysStand`, `BriefsAlwaysHold`, `TypeCorrect` | `RecoveryInv`: pages that precede their rows are in the root until it is listed, then in the list, and in a pause nothing moves between the two copies; `DrawOK`: what a draft command knows of its stream and when it composed its drafts; `PostOK`: a publication under way holds the lock of a slot without marker; `OpOK`: what a command holding a job's lock knows of its files |

Where a property holds only of commands that take turns, the theorem says so: the
specification is the one whose next-state relation has `TakeTurns'` (`InTurnSpec`,
`CasesInTurnSpec`, `EvalInTurnSpec`), or the property has the regime as its premise
(`AuditStands`, `CasesHold`, `ReportsHold`, both properties of the reflection handoff,
`SoundInTurn` of the research programme; of the latter, `FormalIsEarned` is proved of
overlapping commands as well).
Two theorems have a premise on a constant: `~Predating` (no review is declared to be from
before a sealed cutoff) and `~Backdating` (no replay is recorded under an earlier time);
both are choices of an operator, both are needed, and section 6 says what happens
otherwise.

Proving `FreshEvidence` corrected it: it had been stated of overlapping commands too, and
passed because `RaceClock` was too small for the four commands of its counterexample.
Proving `StoredOnce` corrected `FreezeCommit`: a late freeze may make a failed correction
active again, and the model had forgotten that `uq_reflection_active_successor` refuses
this when another correction has become active; the freeze then takes its files back.
`SteadyDrafts` was too small for TLC to reach the case, and now is not.

Only model-checked:

* liveness (`EveryTaskSettles`): the prover has no fairness and no `ENABLED`;
* what the recursive functions of the models compute for every input, since induction
  over data is out of the prover's reach.

## 6. Findings

1. `scoring_two_runs`: two completed live runs for one target session cannot be put
   in one batch (a snapshot per forecast against a unique index per index and batch),
   so neither can be reflected on.
2. `research_shadow_review`: `finalize_reasoning_review` counts the reviews of shadow
   signals among the run's. When a shadow review is finalized first, the run-wide
   review is refused as "only partially finalized" for ever.

What TLC also reaches. Where a document says otherwise it is quoted; the properties
that are checked are stated so that they hold in spite of it.

* Queue: the fence compares the lease with a time read before its transaction, so a
  lease that runs out afterwards still publishes, as long as nobody recovered it
  (`NoPublishAfterExpiry`, against `docs/persistent-task-queue.md`). Nothing is published
  twice (`PublishedByHolder`).
* Handoff: `_fail_interrupted_runs` fails a run a live finalizer executes when the API
  starts (`LiveFinalizerKeepsRun`, against `docs/codex-file-handoff.md`); the finalizer then
  writes a receipt whose error is not the row's, and the retry refuses to seal the
  attempt. A kill inside `_write_or_verify_receipt` leaves a torn `receipt.json` and a
  repeated finalize is refused; a losing v2 finalizer may write a failed receipt beside
  a completed run.
* Lessons: a revalidation that loaded its lesson before another one retired it writes
  its own status over `retired` (`RetiredStaysRetired`), and two that overlap may both
  confirm a lesson on the same dates, because the lesson is read before the sequence
  number (`ConfirmsAfresh`); replays recorded with an earlier
  `--recorded-at` put the audit's order against the order of insertion (`Backdating`, off
  in the runs). A human review dated before a sealed cutoff changes what the cutoff
  yields (`Predating`, off in the runs; the time is declared by the reviewer).
* Reflections: on a systemic fall every assignment has that severity, an index inside
  its noise band needs a noise verdict, and validation refuses noise verdicts for a
  severity that is not noise: no analysis of such a day is accepted. A kill may
  leave a reflection that no command continues (a receipt without its commit).
  Overlapping freezes of one reflection overwrite each other's `sources.json`, and a
  late one may reopen a completed reflection; concurrent first prepares may create two
  roots, and the loser of the `mkdir` fails the row both share. Drafts rewritten between
  their validation and the `chmod` stay on disk beside a receipt for the validated ones.
* Jobs: a kill may leave a temporary file in an execution directory that verification
  refuses.
* Judgments: the window is checked once, before the page and the commit, so a request
  that is slow enough commits its row after the open, even after the outcome was
  evaluated (`docs/user-judgment-agent.md:83-85` says that everything is refused once a
  trusted result exists or the session has opened). It was asked for and validated
  before the open, and `NoHindsight` says so; but if the batch of its forecast is
  completed by then it is never scored. The first two judgments ever may race for the
  shared `agent_specs` row, and the loser is told that its judgment exists.
* Committee: a strategy draft whose two sides differ by little more than the tie
  tolerance is accepted, and raises in the decision after the haircut.
* Research: an activation between the last admission check and the insert lets one v1
  run in (`NoV1AfterActivation`, against `docs/research-program-v2.md`). Two overlapping
  prepares with different snapshots can both insert for one date; a kill between row
  and request hash leaves a date that cannot be prepared again.
* Agent evaluation: the v1 queue reads its rows outside a transaction and updates them
  unconditionally. A sweep that read a lease as expired may requeue an experiment whose
  results were committed meanwhile, or take back an attempt from the count
  (`ExperimentFollowsTask` without its premise is refuted). A transition that loads a
  case's row before and its events after another reviewer's commit appends an event that
  does not begin where the last one ended (a case may be triaged twice). Of two
  overlapping materializations the loser unlinks the winner's artifact; a kill between
  the artifact and the commit leaves a file that blocks the case; drafts replaced
  between read and `chmod` leave a sealed job that verification refuses; overlapping
  feedbacks file a failure twice.
* Recovery: a bundle taken while the system writes may hold a row without the file that
  is written after it, such as a research run without its `receipt.json`; the manual
  asks for a pause ("For one application-consistent recovery point across both databases
  and file roots, pause new API work and stop the worker before taking the bundle",
  `docs/recovery.md:73-76`), nothing in the code does. A pause between a row and its
  file keeps the gap the system itself has.
* Responses: `response.created` replaces the identity announced before it, so a stream may
  change its identity once and still be accepted if it is completed under the last one.
* Traces: `_close_failed_finalize_trace` seals whatever trace of the subject is running;
  an output link and the mark of its failure that are lost together leave a trace that
  says completed, because inputs are counted too.
* Pre-market: a receipt may be written after the deadline and is accepted afterwards
  although finalize raised; a kill between `mkdir` and `input.json` leaves a directory
  that prepare refuses; a kill between send and marker followed by another job's brief
  marks the second although the owner has the first; two evaluated jobs of one session
  make the history unreadable.

## 7. Not modelled, and the plan

Not modelled because there is nothing to check: parsing, rendering and validation of
single documents (contracts, job manifests, serializers), read-only endpoints and
projections, scorecards, migrations, bundle builders, the OTLP exporter, frontend and
release scripts.

Done, in this order: `RunLedger`, `TaskQueue` and its proofs (the core: everything else
relies on results being published once); `Handoff`; `JobExecution`; `LessonLifecycle`;
`OutcomeScoring`; `ReflectionHandoff`; `RunSubmission` with the research programme; agent
evaluation and tracing; pre-market, delivery, recovery and draft generation; the
committee's decision and believability; the findings of a reflection.

Proved: see section 5. Next: `JobExecution` as an implementation of an abstract write-once
record.
