--------------------------- MODULE AgentEvalProofs ---------------------------
(***************************************************************************)
(* Proofs about agent evaluation and its traces, for every number of       *)
(* workers, attempts, recorders, traces, reviewers, cases, drafts and      *)
(* finalize commands.                                                      *)
(***************************************************************************)
EXTENDS MCAgentEval, FiniteSetTheorems, WellFoundedInduction, TLAPS

-----------------------------------------------------------------------------
(* The queue of experiments: EvalQueue.                                    *)

\* What worker w knows: of the rows it has loaded, and, until a session commits over
\* rows it has not seen, of the task it is about to claim.
WorkerOK(w) ==
    /\ wk[w].step # "idle" => exp # "none"
    /\ wk[w].exp = "completed" => results
    /\ wk[w].step \in {"sweepExp", "sweep", "finishExp", "finish", "undoExp", "undo"}
         => wk[w].seen.status = "running"
    /\ wk[w].step = "claimExp" => wk[w].seen.status \in {"queued", "retry_wait"}
    /\ wk[w].step = "claim" /\ ~torn => wk[w].seen.status \in {"queued", "retry_wait"}
    /\ wk[w].step = "next" => wk[w].seen = NoTask \/ wk[w].seen.status \in {"retry_wait", "failed"}
    /\ wk[w].step = "next" /\ wk[w].seen.status = "failed" /\ ~torn => task.status = "failed"

\* A task that waits has an attempt left.
QueueInv ==
    /\ QueueTypeOK
    /\ ExperimentFollowsTask
    /\ ~torn /\ task.status \in {"none", "queued", "retry_wait"} => task.attempts < MaxEvalAttempts
    /\ \A w \in Workers : WorkerOK(w)

LEMMA NoTaskFacts ==
    /\ NoTask \in EvalTask /\ NoTask.status = "none" /\ NoTask.token = 0 /\ NoTask.attempts = 0
    /\ \A s \in WorkerStep : Outside(s) \in Worker /\ Outside(s).step = s /\ Outside(s).seen = NoTask
                             /\ Outside(s).exp = "none"
  BY DEF NoTask, EvalTask, EvalStatus, Outside, Worker, ExpStatus

LEMMA QueueInitHolds == QueueInit => QueueInv
  <1> SUFFICES ASSUME QueueInit PROVE QueueInv
    OBVIOUS
  <1>1. "idle" \in WorkerStep
    BY DEF WorkerStep
  <1>2. QueueTypeOK
    BY <1>1, NoTaskFacts DEF QueueInit, QueueTypeOK, EvalStatus, ExpStatus
  <1>3. ExperimentFollowsTask /\ task.attempts < MaxEvalAttempts
    BY NoTaskFacts, EvalQueueConfiguration
    DEF QueueInit, ExperimentFollowsTask, RowsAgree, EvalQueueConfiguration
  <1>4. \A w \in Workers : wk[w].step = "idle" /\ wk[w].exp = "none"
    BY <1>1, NoTaskFacts DEF QueueInit
  <1> QED BY <1>2, <1>3, <1>4 DEF QueueInv, WorkerOK

\* What is known when worker w takes a step.
LEMMA WorkerFacts ==
    ASSUME QueueInv, NEW w \in Workers
    PROVE  /\ QueueTypeOK /\ ExperimentFollowsTask /\ WorkerOK(w)
           /\ task \in EvalTask /\ wk[w] \in Worker /\ wk[w].seen \in EvalTask
           /\ wk[w].exp \in ExpStatus /\ wk[w].step \in WorkerStep
           /\ task.status \in EvalStatus /\ task.attempts \in Nat /\ task.token \in Workers \cup {0}
           /\ wk[w].seen.attempts \in Nat
           /\ exp \in ExpStatus /\ expired \in BOOLEAN /\ torn \in BOOLEAN
           /\ results \in BOOLEAN /\ detected \in BOOLEAN
           /\ MaxEvalAttempts \in Nat \ {0} /\ w # 0
           /\ ~torn /\ task.status \in {"none", "queued", "retry_wait"}
                => task.attempts < MaxEvalAttempts
  BY EvalQueueConfiguration DEF QueueInv, QueueTypeOK, EvalTask, Worker, EvalQueueConfiguration

\* A step of worker w to position new that leaves rows which agree.  A commit over rows
\* as they were loaded never takes a task out of "failed".
LEMMA WorkerStepKeeps ==
    ASSUME QueueInv, NEW w \in Workers, NEW new \in Worker, Move(w, new),
           task' \in EvalTask, expired' \in BOOLEAN, exp' \in ExpStatus, torn' \in BOOLEAN,
           results' \in BOOLEAN, detected' \in BOOLEAN,
           ExperimentFollowsTask',
           ~torn' /\ task'.status \in {"none", "queued", "retry_wait"}
             => task'.attempts < MaxEvalAttempts,
           exp' # "none", results => results', torn => torn',
           task.status = "failed" /\ ~torn' => task'.status = "failed",
           WorkerOK(w)'
    PROVE  QueueInv'
  <1>1. wk' \in [Workers -> Worker] /\ \A v \in Workers \ {w} : wk'[v] = wk[v]
    BY DEF QueueInv, QueueTypeOK, Move
  <1>2. QueueTypeOK'
    BY <1>1 DEF QueueTypeOK
  <1>3. ASSUME NEW v \in Workers \ {w} PROVE WorkerOK(v)'
    BY <1>1 DEF QueueInv, WorkerOK
  <1> QED BY <1>2, <1>3 DEF QueueInv

LEMMA MovedTo ==
    ASSUME QueueInv, NEW w \in Workers, NEW new, Move(w, new)
    PROVE  wk'[w] = new
  BY DEF QueueInv, QueueTypeOK, Move

\* A step that changes no row.
LEMMA RowsQuietKeeps ==
    ASSUME QueueInv, NEW w \in Workers, NEW new \in Worker, Move(w, new), exp # "none",
           detected' \in BOOLEAN, UNCHANGED <<task, expired, exp, results, torn>>,
           WorkerOK(w)'
    PROVE  QueueInv'
  <1>1. ExperimentFollowsTask'
    BY DEF QueueInv, ExperimentFollowsTask, RowsAgree
  <1> QED BY <1>1, WorkerFacts, WorkerStepKeeps

\* A worker that goes to a step outside a session.
LEMMA LeaveKeeps ==
    ASSUME QueueInv, NEW w \in Workers, NEW step \in {"idle", "next", "evaluate", "fail", "detect"},
           Move(w, Outside(step)), exp # "none",
           detected' \in BOOLEAN, UNCHANGED <<task, expired, exp, results, torn>>
    PROVE  QueueInv'
  <1>1. step \in WorkerStep
    BY DEF WorkerStep
  <1>2. WorkerOK(w)'
    BY <1>1, NoTaskFacts, MovedTo DEF WorkerOK
  <1> QED BY <1>1, <1>2, NoTaskFacts, RowsQuietKeeps

\* A session that loads the task row.
LEMMA RowReadKeeps ==
    ASSUME QueueInv, NEW w \in Workers, NEW step \in {"sweepExp", "claimExp", "finishExp", "undoExp"},
           Move(w, Reading(step)), exp # "none",
           step = "claimExp" => task.status \in {"queued", "retry_wait"},
           step # "claimExp" => task.status = "running",
           UNCHANGED <<task, expired, exp, results, detected, torn>>
    PROVE  QueueInv'
  <1>1. /\ Reading(step) \in Worker /\ Reading(step).seen = task
        /\ Reading(step).step = step /\ Reading(step).exp = "none"
    BY WorkerFacts DEF Reading, Worker, WorkerStep, ExpStatus, EvalStatus
  <1>2. WorkerOK(w)'
    BY <1>1, WorkerFacts, MovedTo DEF WorkerOK
  <1> QED BY <1>1, <1>2, WorkerFacts, RowsQuietKeeps

LEMMA LoadExpKeeps ==
    ASSUME QueueInv, NEW w \in Workers, LoadExperiment(w)
    PROVE  QueueInv'
  <1>1. PICK step : step = LoadedNext[wk[w].step]
    OBVIOUS
  <1>2. PICK new : new = [step |-> step, seen |-> wk[w].seen, exp |-> exp]
    OBVIOUS
  <1>3. /\ wk[w].step \in {"sweepExp", "claimExp", "finishExp", "undoExp"}
        /\ step \in WorkerStep /\ step \in {"sweep", "claim", "finish", "undo"}
        /\ step = "claim" <=> wk[w].step = "claimExp"
    BY <1>1 DEF LoadExperiment, LoadedNext, WorkerStep
  <1>4. new \in Worker /\ new.step = step /\ new.seen = wk[w].seen /\ new.exp = exp
    BY <1>2, <1>3, WorkerFacts DEF Worker
  <1>5. wk'[w] = new /\ Move(w, new) /\ UNCHANGED <<task, expired, exp, results, detected, torn>>
    BY <1>1, <1>2, MovedTo DEF LoadExperiment
  <1>6. WorkerOK(w)'
    BY <1>3, <1>4, <1>5, WorkerFacts DEF WorkerOK, ExperimentFollowsTask
  <1> QED BY <1>3, <1>4, <1>5, <1>6, WorkerFacts, RowsQuietKeeps DEF WorkerOK

\* What a session that did not find its rows changed committed over.
LEMMA TearsFacts ==
    ASSUME QueueInv, NEW w \in Workers, Tears(w)
    PROVE  torn' \in BOOLEAN /\ (torn => torn')
           /\ (~torn' => ~torn /\ wk[w].seen = task /\ wk[w].exp = exp)
  BY WorkerFacts DEF Tears

\* The row an unfinished attempt leaves, beside the experiment it leaves.
LEMMA ReleaseKeeps ==
    ASSUME QueueInv, NEW w \in Workers, wk[w].step \in {"sweep", "undo"},
           task' = Release(task, LastAttempt(wk[w].seen)),
           exp' = Flush(wk[w].exp, Reopened(wk[w].seen), exp),
           expired' = FALSE, Tears(w), UNCHANGED <<results, detected>>,
           NEW new \in Worker, Move(w, new), new.exp # "completed",
           \/ new.step = "idle"
           \/ /\ new.step = "next" /\ new.seen.status \in {"retry_wait", "failed"}
              /\ new.seen.status = "failed" => LastAttempt(wk[w].seen)
    PROVE  QueueInv'
  <1>1. wk[w].seen.status = "running" /\ exp # "none" /\ LastAttempt(wk[w].seen) \in BOOLEAN
    BY WorkerFacts DEF WorkerOK, LastAttempt
  <1>2. /\ task' \in EvalTask /\ task'.token = 0 /\ task'.attempts = task.attempts
        /\ task'.status = IF LastAttempt(wk[w].seen) THEN "failed" ELSE "retry_wait"
    BY <1>1, WorkerFacts, EvalQueueConfiguration DEF Release, EvalTask, EvalStatus
  <1>3. /\ exp' \in ExpStatus /\ exp' # "none" /\ (exp' = "completed" => exp = "completed")
        /\ ~torn' => exp' = (IF LastAttempt(wk[w].seen) THEN "failed" ELSE "queued")
    BY <1>1, WorkerFacts, TearsFacts DEF Reopened, Flush, ExpStatus, EvalStatus
  <1>4. ~torn' => task.status = "running" /\ ~torn /\ wk[w].seen = task
    BY <1>1, TearsFacts
  <1>5. ExperimentFollowsTask'
    <2>1. (~torn => RowsAgree)'
      BY <1>2, <1>3, <1>4, WorkerFacts DEF ExperimentFollowsTask, RowsAgree
    <2>2. (exp = "completed" => results)'
      BY <1>3, WorkerFacts DEF ExperimentFollowsTask
    <2> QED BY <1>2, <2>1, <2>2 DEF ExperimentFollowsTask
  <1>6. ~torn' /\ task'.status \in {"none", "queued", "retry_wait"}
          => task'.attempts < MaxEvalAttempts
    BY <1>2, <1>4, WorkerFacts DEF LastAttempt
  <1>7. WorkerOK(w)'
    BY <1>2, <1>3, MovedTo DEF WorkerOK
  <1>8. task.status = "failed" /\ ~torn' => task'.status = "failed"
    BY <1>4
  <1> QED BY <1>2, <1>3, <1>5, <1>6, <1>7, <1>8, TearsFacts, WorkerFacts, WorkerStepKeeps

LEMMA ClaimCommitKeeps ==
    ASSUME QueueInv, NEW w \in Workers, ClaimCommit(w)
    PROVE  QueueInv'
  <1>1. exp # "none" /\ (~torn' => ~torn /\ wk[w].seen = task /\ wk[w].exp = exp
                                   /\ task.status \in {"queued", "retry_wait"})
    BY WorkerFacts, TearsFacts DEF ClaimCommit, WorkerOK
  <1>2. /\ task' \in EvalTask /\ task'.token = w /\ task'.status = "running"
        /\ task'.attempts = wk[w].seen.attempts + 1
    BY WorkerFacts DEF ClaimCommit, EvalTask, EvalStatus
  <1>3. /\ exp' \in ExpStatus /\ exp' # "none" /\ (exp' = "completed" => exp = "completed")
        /\ ~torn' => exp' = "running"
    BY <1>1, WorkerFacts DEF ClaimCommit, Flush, ExpStatus, EvalStatus
  <1>4. ExperimentFollowsTask'
    <2>1. (~torn => RowsAgree)'
      BY <1>1, <1>2, <1>3, WorkerFacts DEF ClaimCommit, ExperimentFollowsTask, RowsAgree
    <2>2. (exp = "completed" => results)'
      BY <1>3, WorkerFacts DEF ClaimCommit, ExperimentFollowsTask
    <2> QED BY <1>2, <2>1, <2>2, WorkerFacts DEF ExperimentFollowsTask
  <1>5. "evaluate" \in WorkerStep
    BY DEF WorkerStep
  <1>6. Move(w, Outside("evaluate")) /\ wk'[w] = Outside("evaluate") /\ UNCHANGED <<results, detected>>
        /\ expired' = FALSE /\ Tears(w)
    BY MovedTo DEF ClaimCommit
  <1>7. WorkerOK(w)'
    BY <1>3, <1>5, <1>6, NoTaskFacts DEF WorkerOK
  <1> QED BY <1>1, <1>2, <1>3, <1>4, <1>5, <1>6, <1>7, NoTaskFacts, TearsFacts, WorkerFacts,
             WorkerStepKeeps

LEMMA FinishCommitKeeps ==
    ASSUME QueueInv, NEW w \in Workers, FinishCommit(w), ~results
    PROVE  QueueInv'
  <1>1. exp # "none" /\ wk[w].seen.status = "running" /\ wk[w].exp # "completed"
    BY WorkerFacts DEF FinishCommit, WorkerOK
  <1>2. /\ Move(w, Outside("detect")) /\ results' = TRUE /\ expired' = FALSE /\ Tears(w)
        /\ detected' = detected /\ task' = [task EXCEPT !.status = "completed", !.token = 0]
        /\ exp' = "completed"
    BY <1>1 DEF FinishCommit, Flush
  <1>3. /\ task' \in EvalTask /\ task'.token = 0 /\ task'.status = "completed"
        /\ task'.attempts = task.attempts
    BY <1>2, WorkerFacts DEF EvalTask, EvalStatus
  <1>4. ~torn' => task.status = "running" /\ ~torn
    BY <1>1, <1>2, TearsFacts
  <1>5. ExperimentFollowsTask'
    BY <1>2, <1>3, <1>4, WorkerFacts DEF ExperimentFollowsTask, RowsAgree
  <1>6. "detect" \in WorkerStep /\ exp' \in ExpStatus
    BY <1>2 DEF WorkerStep, ExpStatus, EvalStatus
  <1>7. WorkerOK(w)'
    BY <1>2, <1>6, NoTaskFacts, MovedTo DEF WorkerOK
  <1> QED BY <1>2, <1>3, <1>4, <1>5, <1>6, <1>7, NoTaskFacts, TearsFacts, WorkerFacts,
             WorkerStepKeeps

LEMMA SweepCommitKeeps ==
    ASSUME QueueInv, NEW w \in Workers, SweepCommit(w)
    PROVE  QueueInv'
  <1>1. PICK seen : seen = Release(wk[w].seen, LastAttempt(wk[w].seen))
    OBVIOUS
  <1>2. PICK new : new = [step |-> "next", seen |-> seen, exp |-> Reopened(wk[w].seen)]
    OBVIOUS
  <1>3. seen \in EvalTask /\ LastAttempt(wk[w].seen) \in BOOLEAN
        /\ seen.status = IF LastAttempt(wk[w].seen) THEN "failed" ELSE "retry_wait"
    <2>1. wk[w].seen \in EvalTask /\ LastAttempt(wk[w].seen) \in BOOLEAN
      BY WorkerFacts DEF LastAttempt
    <2> QED BY <1>1, <2>1 DEF Release, EvalTask, EvalStatus
  <1>4. /\ new \in Worker /\ new.step = "next" /\ new.seen = seen
        /\ new.exp \in {"failed", "queued"}
    BY <1>2, <1>3 DEF Worker, WorkerStep, Reopened, ExpStatus, EvalStatus
  <1> QED BY <1>1, <1>2, <1>3, <1>4, ReleaseKeeps DEF SweepCommit

\* A row of the identity map that is claimed without being read again.
LEMMA ClaimMappedKeeps ==
    ASSUME QueueInv, NEW w \in Workers, wk[w].step = "next", wk[w].seen # NoTask,
           task.status \in {"queued", "retry_wait"}, Move(w, [wk[w] EXCEPT !.step = "claim"]),
           UNCHANGED <<task, expired, exp, results, detected, torn>>
    PROVE  QueueInv'
  <1>1. PICK new : new = [wk[w] EXCEPT !.step = "claim"]
    OBVIOUS
  <1>2. new \in Worker /\ new.step = "claim" /\ new.seen = wk[w].seen /\ new.exp = wk[w].exp
    BY <1>1, WorkerFacts DEF Worker, WorkerStep
  <1>3. WorkerOK(w)'
    <2>1. ~torn => wk[w].seen.status \in {"queued", "retry_wait"}
      BY WorkerFacts DEF WorkerOK
    <2>2. exp # "none" /\ (wk[w].exp = "completed" => results)
      BY WorkerFacts DEF WorkerOK
    <2> QED BY <1>1, <1>2, <2>1, <2>2, MovedTo DEF WorkerOK
  <1> QED BY <1>1, <1>2, <1>3, WorkerFacts, RowsQuietKeeps DEF WorkerOK

LEMMA WorkerKeeps ==
    ASSUME QueueInv, NEW w \in Workers, WorkerMoves(w)
    PROVE  QueueInv'
  <1>1. wk[w].step # "idle" => exp # "none"
    BY WorkerFacts DEF WorkerOK
  <1>2. LeaseHeld(w) => task.status = "running"
    BY WorkerFacts DEF LeaseHeld, ExperimentFollowsTask
  <1>3. CASE SweepRead(w)
    BY <1>3, WorkerFacts, RowReadKeeps, LeaveKeeps DEF SweepRead
  <1>4. CASE ClaimRead(w)
    <2>1. CASE task.status \notin {"queued", "retry_wait"}
      BY <1>1, <1>4, <2>1, WorkerFacts, LeaveKeeps DEF ClaimRead
    <2>2. CASE task.status \in {"queued", "retry_wait"} /\ wk[w].seen = NoTask
      BY <1>1, <1>4, <2>2, RowReadKeeps DEF ClaimRead
    <2>3. CASE task.status \in {"queued", "retry_wait"} /\ wk[w].seen # NoTask
      BY <1>4, <2>3, ClaimMappedKeeps DEF ClaimRead
    <2> QED BY <2>1, <2>2, <2>3
  <1>5. CASE EvaluateSuite(w)
    BY <1>1, <1>2, <1>5, WorkerFacts, RowReadKeeps, LeaveKeeps DEF EvaluateSuite
  <1>6. CASE DetectBadCases(w)
    BY <1>1, <1>6, WorkerFacts, LeaveKeeps DEF DetectBadCases
  <1>7. CASE FailRead(w)
    BY <1>1, <1>2, <1>7, WorkerFacts, RowReadKeeps, LeaveKeeps DEF FailRead
  <1>8. CASE KillWorker(w)
    BY <1>1, <1>8, WorkerFacts, LeaveKeeps DEF KillWorker
  <1>9. CASE FailCommit(w)
    <2>1. "idle" \in WorkerStep
      BY DEF WorkerStep
    <2> QED BY <1>9, <2>1, NoTaskFacts, ReleaseKeeps DEF FailCommit
  <1>10. CASE FinishCommit(w) /\ results
    BY <1>1, <1>10, WorkerFacts, LeaveKeeps DEF FinishCommit
  <1> QED BY <1>3, <1>4, <1>5, <1>6, <1>7, <1>8, <1>9, <1>10, LoadExpKeeps, SweepCommitKeeps,
             ClaimCommitKeeps, FinishCommitKeeps DEF WorkerMoves

LEMMA QueueStepKeeps == QueueInv /\ [QueueStep]_queueVars => QueueInv'
  <1> SUFFICES ASSUME QueueInv, [QueueStep]_queueVars PROVE QueueInv'
    OBVIOUS
  <1>1. CASE UNCHANGED queueVars
    BY <1>1 DEF queueVars, QueueInv, QueueTypeOK, ExperimentFollowsTask, RowsAgree, WorkerOK
  <1>2. CASE ExpireLease
    BY <1>2 DEF ExpireLease, QueueInv, QueueTypeOK, ExperimentFollowsTask, RowsAgree, WorkerOK
  <1>3. CASE EnqueueExperiment
    <2>1. exp = "none" /\ (~torn => ~results) /\ \A w \in Workers : wk[w].step = "idle"
      BY <1>3 DEF EnqueueExperiment, QueueInv, ExperimentFollowsTask, RowsAgree, WorkerOK
    <2>2. task' \in EvalTask /\ task'.status = "queued" /\ task'.attempts = 0 /\ task'.token = 0
      BY <1>3, NoTaskFacts DEF EnqueueExperiment, EvalTask, EvalStatus
    <2>3. QueueTypeOK' /\ ExperimentFollowsTask' /\ task'.attempts < MaxEvalAttempts
      BY <1>3, <2>1, <2>2, EvalQueueConfiguration
      DEF EnqueueExperiment, QueueInv, QueueTypeOK, ExperimentFollowsTask, RowsAgree, ExpStatus,
          EvalStatus, EvalQueueConfiguration
    <2> QED BY <1>3, <2>1, <2>3 DEF EnqueueExperiment, QueueInv, WorkerOK
  <1> QED BY <1>1, <1>2, <1>3, WorkerKeeps DEF QueueStep

\* However the sessions of the experiments' queue interleave, swept, killed or late, a
\* lease is held exactly while the task runs and a completed task has a completed
\* experiment with its results; and until a session commits over rows that changed after
\* it loaded them, the two rows and the results tell one story and no attempt is made
\* beyond max_attempts (run_next_eval_task, _fail_eval_task).
THEOREM ExperimentsFollowTasks == QueueSpec => []ExperimentFollowsTask
  <1>1. QueueInv => ExperimentFollowsTask
    BY DEF QueueInv
  <1> QED BY <1>1, QueueInitHolds, QueueStepKeeps, PTL DEF QueueSpec

-----------------------------------------------------------------------------
(* The traces of a subject: AgentTracing.                                  *)

\* The order of the numbers, as the relation of the library's theorems.
Below == {ss \in Nat \X Nat : ss[1] < ss[2]}

\* A set of numbers that is not empty has a least member.
LEMMA LeastMember ==
    ASSUME NEW T \in SUBSET Nat, T # {}
    PROVE  \E n \in T : \A k \in T : n <= k
  <1>1. OpToRel(<, Nat) = Below
    BY Zenon DEF OpToRel, Below
  <1>2. IsWellFoundedOn(Below, Nat)
    BY <1>1, NatLessThanWellFounded
  <1>3. PICK x \in T : \A y \in T : ~(<<y, x>> \in Below)
    BY <1>2, WFMin
  <1>4. \A y \in T : x \in Nat /\ y \in Nat /\ ~(y < x)
    BY <1>3 DEF Below
  <1> QED BY <1>4

\* One that is bounded has a largest member.
LEMMA LargestMember ==
    ASSUME NEW N \in Nat, NEW S \in SUBSET (0..N), S # {}
    PROVE  \E n \in S : \A k \in S : k <= n
  <1> DEFINE T == {N - k : k \in S}
  <1>1. \A k \in S : N - k \in T /\ N - k \in Nat
    OBVIOUS
  <1>2. T \in SUBSET Nat /\ T # {}
    BY <1>1
  <1>3. \A x \in T : \E k \in S : x = N - k
    OBVIOUS
  <1> HIDE DEF T
  <1>4. PICK x \in T : \A y \in T : x <= y
    BY <1>2, LeastMember
  <1> QED BY <1>1, <1>3, <1>4

\* trace_id_for finds a running attempt when there is one.
LEMMA LatestIsRunning ==
    ASSUME TracingTypeOK
    PROVE  /\ Running # {} => LatestRunning \in Running
           /\ LatestRunning \in 0..MaxTraces
  <1>1. DOMAIN traces = 1..Len(traces) /\ Len(traces) \in Nat /\ MaxTraces \in Nat
    BY TracingConfiguration DEF TracingTypeOK, TracingConfiguration
  <1>2. Running \in SUBSET (0..Len(traces)) /\ Len(traces) <= MaxTraces
    BY <1>1 DEF Running, TracingTypeOK
  <1>3. CASE Running = {}
    BY <1>1, <1>3 DEF LatestRunning
  <1>4. CASE Running # {}
    <2>1. \E n \in Running : \A k \in Running : k <= n
      BY <1>1, <1>2, <1>4, LargestMember
    <2>2. LatestRunning \in Running
      BY <1>4, <2>1 DEF LatestRunning
    <2> QED BY <1>1, <1>2, <2>2
  <1> QED BY <1>3, <1>4

\* A recorder writes to an attempt that exists.
HoldsTrace(w) ==
    rec[w].step \in {"held", "span", "close", "link", "seal"} => rec[w].trace \in DOMAIN traces

TraceInv == TracingTypeOK /\ \A w \in Recorders : HoldsTrace(w)

\* What a step of the recorders may do to trace n when it is sealed.
SealedKept(n) ==
    traces[n] # "running" =>
        /\ traces'[n] = traces[n]
        /\ {s \in spans' : s.trace = n} = {s \in spans : s.trace = n}
        /\ {l \in links' : l[1] = n} = {l \in links : l[1] = n}

RecorderStep ==
    {"none", "max", "insert", "held", "span", "close", "link", "seal", "done"}

\* A recorder that moves, while attempts are only added.
LEMMA RecorderMoves ==
    ASSUME TraceInv, NEW w \in Recorders, NEW r \in Recorder, rec' = [rec EXCEPT ![w] = r],
           DOMAIN traces \subseteq DOMAIN traces',
           r.step \in {"held", "span", "close", "link", "seal"} => r.trace \in DOMAIN traces'
    PROVE  rec' \in [Recorders -> Recorder] /\ \A v \in Recorders : HoldsTrace(v)'
  <1>1. rec' \in [Recorders -> Recorder] /\ rec'[w] = r /\ \A v \in Recorders \ {w} : rec'[v] = rec[v]
    BY DEF TraceInv, TracingTypeOK
  <1> QED BY <1>1 DEF TraceInv, HoldsTrace

LEMMA AtMoves ==
    ASSUME TraceInv, NEW w \in Recorders, NEW step \in RecorderStep, At(w, step),
           DOMAIN traces \subseteq DOMAIN traces',
           step \in {"held", "span", "close", "link", "seal"} => rec[w].trace \in DOMAIN traces'
    PROVE  rec' \in [Recorders -> Recorder] /\ \A v \in Recorders : HoldsTrace(v)'
  <1>1. rec[w] \in Recorder
    BY DEF TraceInv, TracingTypeOK
  <1> DEFINE r == [rec[w] EXCEPT !.step = step]
  <1>2. r \in Recorder /\ r.step = step /\ r.trace = rec[w].trace
    BY <1>1 DEF Recorder, RecorderStep
  <1>3. rec' = [rec EXCEPT ![w] = r]
    BY DEF At
  <1> HIDE DEF r
  <1> QED BY <1>2, <1>3, RecorderMoves

\* A recorder that turns to a step on trace n.
LEMMA TurnMoves ==
    ASSUME TraceInv, NEW w \in Recorders, NEW step \in RecorderStep, NEW n \in 0..MaxTraces,
           rec' = [rec EXCEPT ![w].step = step, ![w].trace = n],
           DOMAIN traces \subseteq DOMAIN traces',
           step \in {"held", "span", "close", "link", "seal"} => n \in DOMAIN traces'
    PROVE  rec' \in [Recorders -> Recorder] /\ \A v \in Recorders : HoldsTrace(v)'
  <1>1. rec[w] \in Recorder /\ rec \in [Recorders -> Recorder]
    BY DEF TraceInv, TracingTypeOK
  <1> DEFINE r == [rec[w] EXCEPT !.step = step, !.trace = n]
  <1>2. r \in Recorder /\ r.step = step /\ r.trace = n
    BY <1>1 DEF Recorder, RecorderStep
  <1>3. rec' = [rec EXCEPT ![w] = r]
    BY <1>1
  <1> HIDE DEF r
  <1> QED BY <1>2, <1>3, RecorderMoves

\* A step that writes no row of the traces.
LEMMA ReadingKeeps ==
    ASSUME TracingTypeOK, rec' \in [Recorders -> Recorder], UNCHANGED <<traces, spans, links>>
    PROVE  TracingTypeOK' /\ \A n \in DOMAIN traces : SealedKept(n)
  BY DEF TracingTypeOK, SealedKept

\* A step that writes rows of one running trace n.
LEMMA WritingKeeps ==
    ASSUME TracingTypeOK, rec' \in [Recorders -> Recorder],
           NEW n \in 1..MaxTraces, n \in DOMAIN traces => traces[n] = "running",
           NEW u \in TraceStatus, traces' \in {traces, [traces EXCEPT ![n] = u]},
           spans' \subseteq Span, links' \subseteq (1..MaxTraces) \X Recorders,
           \A s \in Span : s.trace # n => (s \in spans' <=> s \in spans),
           \A l \in (1..MaxTraces) \X Recorders : l[1] # n => (l \in links' <=> l \in links)
    PROVE  TracingTypeOK' /\ \A k \in DOMAIN traces : SealedKept(k)
  <1>1. traces' \in Seq(TraceStatus) /\ Len(traces') = Len(traces)
    BY SMTT(30) DEF TracingTypeOK
  <1>2. TracingTypeOK'
    BY <1>1 DEF TracingTypeOK
  <1>3. ASSUME NEW k \in DOMAIN traces, traces[k] # "running" PROVE SealedKept(k)
    <2>1. k # n /\ traces'[k] = traces[k]
      BY <1>3 DEF TracingTypeOK
    <2>2. {s \in spans' : s.trace = k} = {s \in spans : s.trace = k}
      BY <2>1 DEF TracingTypeOK
    <2>3. {l \in links' : l[1] = k} = {l \in links : l[1] = k}
      BY <2>1 DEF TracingTypeOK
    <2> QED BY <2>1, <2>2, <2>3 DEF SealedKept
  <1> QED BY <1>2, <1>3 DEF SealedKept

LEMMA RecorderFacts ==
    ASSUME TraceInv, NEW w \in Recorders
    PROVE  /\ TracingTypeOK /\ HoldsTrace(w) /\ MaxTraces \in Nat
           /\ Len(traces) \in Nat /\ DOMAIN traces = 1..Len(traces) /\ DOMAIN traces \subseteq 1..MaxTraces
           /\ rec[w].step \in RecorderStep /\ rec[w].trace \in 0..MaxTraces /\ rec[w].status \in TraceStatus
           /\ rec[w] \in Recorder
           /\ Running # {} => LatestRunning \in Running
           /\ LatestRunning \in 0..MaxTraces
           /\ "running" \in TraceStatus /\ "failed" \in TraceStatus /\ "completed" \in TraceStatus
  <1>1. TracingTypeOK /\ MaxTraces \in Nat /\ HoldsTrace(w)
    BY TracingConfiguration DEF TraceInv, TracingConfiguration
  <1>2. Len(traces) \in Nat /\ DOMAIN traces = 1..Len(traces) /\ Len(traces) <= MaxTraces
    BY <1>1 DEF TracingTypeOK
  <1>3. rec[w] \in Recorder
    BY <1>1 DEF TracingTypeOK
  <1> QED BY <1>1, <1>2, <1>3, LatestIsRunning DEF Recorder, RecorderStep, TraceStatus

LEMMA StartKeeps ==
    ASSUME TraceInv, NEW w \in Recorders, StartRead(w) \/ StartMax(w) \/ StartInsert(w)
    PROVE  TraceInv' /\ \A n \in DOMAIN traces : SealedKept(n)
  <1>1. CASE StartRead(w)
    <2>1. rec' \in [Recorders -> Recorder] /\ \A v \in Recorders : HoldsTrace(v)'
      BY <1>1, RecorderFacts, AtMoves, TurnMoves DEF StartRead, RecorderStep, Running
    <2> QED BY <1>1, <2>1, ReadingKeeps DEF StartRead, TraceInv
  <1>2. CASE StartMax(w)
    <2>1. rec' \in [Recorders -> Recorder] /\ \A v \in Recorders : HoldsTrace(v)'
      <3>1. Len(traces) \in 0..MaxTraces /\ "insert" \in RecorderStep
        BY RecorderFacts DEF TracingTypeOK, RecorderStep
      <3>2. rec' = [rec EXCEPT ![w].step = "insert", ![w].trace = Len(traces)] /\ traces' = traces
        BY <1>2 DEF StartMax
      <3> QED BY <3>1, <3>2, TurnMoves
    <2> QED BY <1>2, <2>1, ReadingKeeps DEF StartMax, TraceInv
  <1>3. CASE StartInsert(w) /\ AttemptFree(rec[w].trace + 1)
    <2> DEFINE n == rec[w].trace + 1
    <2>1. /\ traces' = Append(traces, "running") /\ n = Len(traces) + 1 /\ n \in 1..MaxTraces
          /\ rec' = [rec EXCEPT ![w].step = "held", ![w].trace = n] /\ UNCHANGED <<spans, links>>
      <3>1. n = Len(traces) + 1 /\ n <= MaxTraces
        BY <1>3 DEF AttemptFree
      <3>2. n \in 1..MaxTraces
        BY <3>1, RecorderFacts
      <3> QED BY <1>3, <3>1, <3>2 DEF StartInsert
    <2>2. traces' \in Seq(TraceStatus) /\ Len(traces') = Len(traces) + 1
      BY <2>1, RecorderFacts DEF TracingTypeOK
    <2>3. DOMAIN traces' = 1..n /\ \A k \in DOMAIN traces : traces'[k] = traces[k]
      BY <2>1, <2>2, RecorderFacts DEF TracingTypeOK
    <2>4. rec' \in [Recorders -> Recorder] /\ \A v \in Recorders : HoldsTrace(v)'
      <3>1. n \in 0..MaxTraces /\ n \in DOMAIN traces' /\ DOMAIN traces \subseteq DOMAIN traces'
        BY <2>1, <2>3, RecorderFacts
      <3>2. "held" \in RecorderStep
        BY DEF RecorderStep
      <3> HIDE DEF n
      <3> QED BY <2>1, <3>1, <3>2, TurnMoves
    <2>5. TracingTypeOK'
      BY <2>1, <2>2, <2>4, RecorderFacts DEF TracingTypeOK
    <2> QED BY <2>1, <2>3, <2>4, <2>5 DEF TraceInv, SealedKept
  <1>4. CASE StartInsert(w) /\ ~AttemptFree(rec[w].trace + 1)
    <2> DEFINE step == IF Running = {} THEN "done" ELSE "held"
    <2>1. rec' = [rec EXCEPT ![w].step = step, ![w].trace = LatestRunning] /\ step \in RecorderStep
      BY <1>4 DEF StartInsert, RecorderStep
    <2>2. step = "held" => LatestRunning \in DOMAIN traces
      BY RecorderFacts DEF Running
    <2>3. UNCHANGED <<traces, spans, links>>
      BY <1>4 DEF StartInsert
    <2>4. step \notin {"span", "close", "link", "seal"}
      OBVIOUS
    <2> HIDE DEF step
    <2>5. rec' \in [Recorders -> Recorder] /\ \A v \in Recorders : HoldsTrace(v)'
      BY <2>1, <2>2, <2>3, <2>4, RecorderFacts, TurnMoves
    <2> QED BY <2>3, <2>5, ReadingKeeps DEF TraceInv
  <1> QED BY <1>1, <1>2, <1>3, <1>4

LEMMA IntendKeeps ==
    ASSUME TraceInv, NEW w \in Recorders, NEW step, NEW u \in TraceStatus, Intend(w, step, u)
    PROVE  TraceInv' /\ \A n \in DOMAIN traces : SealedKept(n)
  <1> DEFINE r == [rec[w] EXCEPT !.step = step, !.status = u]
  <1>1. r \in Recorder /\ r.step = step /\ r.trace = rec[w].trace
    BY RecorderFacts DEF Intend, Recorder
  <1>2. rec' = [rec EXCEPT ![w] = r] /\ UNCHANGED <<traces, spans, links>>
    BY RecorderFacts DEF Intend, TracingTypeOK
  <1>3. rec[w].trace \in DOMAIN traces
    BY RecorderFacts DEF Intend, HoldsTrace
  <1> HIDE DEF r
  <1>4. rec' \in [Recorders -> Recorder] /\ \A v \in Recorders : HoldsTrace(v)'
    BY <1>1, <1>2, <1>3, RecorderMoves
  <1> QED BY <1>2, <1>4, ReadingKeeps DEF TraceInv

LEMMA WriteKeeps ==
    ASSUME TraceInv, NEW w \in Recorders,
           StartSpan(w) \/ FinishSpan(w) \/ LinkArtifact(w) \/ FinishTrace(w)
    PROVE  TraceInv' /\ \A n \in DOMAIN traces : SealedKept(n)
  <1> DEFINE n == rec[w].trace
  <1>1. n \in DOMAIN traces /\ n \in 1..MaxTraces /\ rec[w].status \in TraceStatus
    BY RecorderFacts DEF HoldsTrace, StartSpan, FinishSpan, LinkArtifact, FinishTrace
  <1>2. DOMAIN traces' = DOMAIN traces /\ (At(w, "held") \/ At(w, "done"))
    BY <1>1, RecorderFacts DEF StartSpan, FinishSpan, LinkArtifact, FinishTrace
  <1>3. rec' \in [Recorders -> Recorder] /\ \A v \in Recorders : HoldsTrace(v)'
    BY <1>1, <1>2, RecorderFacts, AtMoves DEF RecorderStep
  <1>4. CASE traces[n] # "running"
    BY <1>3, <1>4, ReadingKeeps
    DEF StartSpan, FinishSpan, LinkArtifact, FinishTrace, TraceWritable, TraceInv
  <1>5. CASE traces[n] = "running"
    <2> DEFINE s == [trace |-> n, by |-> w, status |-> "running"]
    <2> DEFINE done == [trace |-> n, by |-> w, status |-> "completed"]
    <2>1. s \in Span /\ done \in Span /\ [s EXCEPT !.status = "completed"] = done
          /\ s.trace = n /\ done.trace = n /\ <<n, w>> \in (1..MaxTraces) \X Recorders
      BY <1>1 DEF Span, TraceStatus
    <2>2. spans' \in {spans, spans \cup {s}, (spans \ {s}) \cup {done}} /\ links' \in {links, links \cup {<<n, w>>}}
          /\ traces' \in {traces, [traces EXCEPT ![n] = rec[w].status]}
      BY <1>5, <2>1 DEF StartSpan, FinishSpan, LinkArtifact, FinishTrace, TraceWritable
    <2> HIDE DEF s, done, n
    <2>3. /\ spans' \subseteq Span /\ links' \subseteq (1..MaxTraces) \X Recorders
          /\ \A x \in Span : x.trace # n => (x \in spans' <=> x \in spans)
          /\ \A l \in (1..MaxTraces) \X Recorders : l[1] # n => (l \in links' <=> l \in links)
      BY <2>1, <2>2 DEF TraceInv, TracingTypeOK
    <2> QED BY <1>1, <1>3, <1>5, <2>2, <2>3, WritingKeeps DEF TraceInv
  <1> QED BY <1>4, <1>5

LEMMA TracingStepKeeps ==
    ASSUME TraceInv, NEW w \in Recorders, TracingStep(w)
    PROVE  TraceInv' /\ \A n \in DOMAIN traces : SealedKept(n)
  <1>1. CASE Abandon(w)
    <2> DEFINE r == [step |-> "none", trace |-> 0, status |-> "running"]
    <2>1. r \in Recorder /\ r.step = "none" /\ rec' = [rec EXCEPT ![w] = r] /\ UNCHANGED <<traces, spans, links>>
      BY <1>1, RecorderFacts DEF Abandon, Recorder
    <2> HIDE DEF r
    <2> QED BY <2>1, RecorderMoves, ReadingKeeps DEF TraceInv
  <1>2. CASE CloseFailed(w)
    <2>1. LatestRunning \in DOMAIN traces /\ traces[LatestRunning] = "running"
      BY <1>2, RecorderFacts DEF CloseFailed, Running
    <2>2. traces' = [traces EXCEPT ![LatestRunning] = "failed"] /\ UNCHANGED <<spans, links, rec>>
      BY <1>2 DEF CloseFailed
    <2>3. TracingTypeOK' /\ \A n \in DOMAIN traces : SealedKept(n)
      BY <2>1, <2>2, RecorderFacts, WritingKeeps DEF TracingTypeOK
    <2>4. DOMAIN traces' = DOMAIN traces
      BY <2>1, <2>2, RecorderFacts
    <2> QED BY <2>2, <2>3, <2>4 DEF TraceInv, HoldsTrace
  <1> QED BY <1>1, <1>2, StartKeeps, IntendKeeps, WriteKeeps DEF TracingStep, TraceStatus

LEMMA TracingKeeps ==
    ASSUME TraceInv, [\E w \in Recorders : TracingStep(w)]_traceVars
    PROVE  TraceInv' /\ \A n \in DOMAIN traces : SealedKept(n)
  <1>1. CASE UNCHANGED traceVars
    BY <1>1 DEF traceVars, TraceInv, TracingTypeOK, HoldsTrace, SealedKept
  <1> QED BY <1>1, TracingStepKeeps

LEMMA TracingInitHolds == TracingInit => TraceInv
  <1> SUFFICES ASSUME TracingInit PROVE TraceInv
    OBVIOUS
  <1>1. [step |-> "none", trace |-> 0, status |-> "running"] \in Recorder
    BY TracingConfiguration DEF Recorder, TraceStatus, TracingConfiguration
  <1>2. TracingTypeOK
    BY <1>1, TracingConfiguration DEF TracingInit, TracingTypeOK, TracingConfiguration
  <1> QED BY <1>2 DEF TracingInit, TraceInv, HoldsTrace

\* Whoever read a trace running and writes late, a recorder, a sealer or the end of a
\* failed attempt, changes nothing of a trace that has been sealed since
\* (agent_tracing.py and the triggers of db.py).
THEOREM SealedTracesStay == TracingSpec => SealedTraceIsFinal
  <1>1. TraceInv /\ [\E w \in Recorders : TracingStep(w)]_traceVars =>
            [\A n \in DOMAIN traces : traces[n] # "running" =>
                /\ traces'[n] = traces[n]
                /\ {s \in spans' : s.trace = n} = {s \in spans : s.trace = n}
                /\ {l \in links' : l[1] = n} = {l \in links : l[1] = n}]_<<traces, spans, links>>
    BY TracingKeeps DEF SealedKept
  <1>2. TraceInv /\ [\E w \in Recorders : TracingStep(w)]_traceVars => TraceInv'
    BY TracingKeeps
  <1> QED BY <1>1, <1>2, TracingInitHolds, PTL DEF TracingSpec, SealedTraceIsFinal

-----------------------------------------------------------------------------
(* Bad cases: BadCases.                                                    *)

\* A transition under way starts from a status the case has had, and has seen no more
\* events than there are; past its loads it is allowed from the status it read.
TransitionOK(r) ==
    tr[r].step # "idle" =>
        /\ tr[r].case \in Cases
        /\ \E k \in 1..Len(cases[tr[r].case].events) : cases[tr[r].case].events[k].to = tr[r].from
        /\ tr[r].seen <= Len(cases[tr[r].case].events)
        /\ tr[r].step # "events" => Allowed(tr[r].from, tr[r].to)
        /\ tr[r].step \in {"check", "write"} => tr[r].to = "materialized"

CasesInv ==
    /\ CasesTypeOK /\ CaseFollowsEvents
    /\ \A c \in Cases : cases[c].status = "none" => cases[c].events = <<>>
    /\ \A r \in Reviewers : TransitionOK(r)

\* What holds besides when reviewers take turns: the transition under way knows the row and,
\* past its loads, every event of its case, and the file is there before the row says so.
TurnInv ==
    /\ ReviewersTakeTurns /\ ArtifactKept /\ EventsConnect
    /\ \A r \in Reviewers : tr[r].step # "idle" =>
        /\ tr[r].from = cases[tr[r].case].status
        /\ tr[r].step # "events" => SequenceFree(r)
        /\ tr[r].step = "commit" /\ tr[r].to = "materialized" => tr[r].case \in files

LEMMA CasesInitHolds == CasesInit => CasesInv /\ TurnInv
  <1> SUFFICES ASSUME CasesInit PROVE CasesInv /\ TurnInv
    OBVIOUS
  <1>1. /\ NoTransition \in Transition /\ NoTransition.step = "idle"
        /\ [status |-> "none", events |-> <<>>] \in Case
    BY DEF NoTransition, Transition, TransitionStep, CaseStatus, Case
  <1>2. CasesTypeOK /\ \A r \in Reviewers : tr[r].step = "idle"
    BY <1>1 DEF CasesInit, CasesTypeOK
  <1>3. /\ \A c \in Cases : cases[c].status = "none" /\ cases[c].events = <<>>
        /\ Len(<<>>) = 0 /\ 2..0 = {}
    BY DEF CasesInit
  <1>4. CaseFollowsEvents /\ EventsConnect
    BY <1>3 DEF CaseFollowsEvents, EventsConnect, Chained, Connected
  <1> QED BY <1>2, <1>3, <1>4 DEF CasesInv, TurnInv, TransitionOK, ReviewersTakeTurns, ArtifactKept

LEMMA CaseFacts ==
    ASSUME CasesInv
    PROVE  /\ \A c \in Cases : /\ cases[c] \in Case /\ cases[c].status \in CaseStatus
                               /\ cases[c].events \in Seq(Event) /\ Len(cases[c].events) \in Nat
           /\ \A r \in Reviewers : /\ tr[r] \in Transition /\ tr[r].step \in TransitionStep
                                   /\ tr[r].from \in CaseStatus /\ tr[r].to \in CaseStatus
                                   /\ tr[r].seen \in Nat /\ tr[r].wrote \in BOOLEAN
                                   /\ TransitionOK(r)
           /\ files \subseteq Cases
           /\ NoTransition \in Transition /\ NoTransition.step = "idle"
  BY DEF CasesInv, CasesTypeOK, Case, Transition, TransitionStep, NoTransition, CaseStatus

\* A step that leaves the rows alone and moves reviewer r.
LEMMA ReviewerMoves ==
    ASSUME CasesInv, NEW r \in Reviewers, NEW t \in Transition, tr' = [tr EXCEPT ![r] = t],
           cases' = cases, files' \subseteq Cases,
           t.step # "idle" =>
               /\ t.case \in Cases /\ t.seen <= Len(cases[t.case].events)
               /\ \E k \in 1..Len(cases[t.case].events) : cases[t.case].events[k].to = t.from
               /\ t.step # "events" => Allowed(t.from, t.to)
               /\ t.step \in {"check", "write"} => t.to = "materialized"
    PROVE  /\ CasesInv'
           /\ tr'[r] = t /\ \A s \in Reviewers \ {r} : tr'[s] = tr[s]
  <1>1. tr' \in [Reviewers -> Transition] /\ tr'[r] = t /\ \A s \in Reviewers \ {r} : tr'[s] = tr[s]
    BY DEF CasesInv, CasesTypeOK
  <1>2. CasesTypeOK' /\ CaseFollowsEvents'
    BY <1>1 DEF CasesInv, CasesTypeOK, CaseFollowsEvents
  <1>3. TransitionOK(r)'
    BY <1>1 DEF TransitionOK
  <1>4. \A s \in Reviewers \ {r} : TransitionOK(s)'
    BY <1>1 DEF TransitionOK, CasesInv
  <1> QED BY <1>1, <1>2, <1>3, <1>4 DEF CasesInv

LEMMA CreateKeeps ==
    ASSUME CasesInv, NEW c \in Cases, CreateBadCase(c)
    PROVE  CasesInv' /\ (TurnInv => TurnInv')
  <1>1. /\ cases' = [cases EXCEPT ![c] = [status |-> "detected", events |-> <<Detected>>]]
        /\ UNCHANGED <<files, tr>> /\ cases[c].status = "none"
    BY DEF CreateBadCase
  <1>2. Detected \in Event /\ Detected.to = "detected"
    BY DEF Detected, Event, CaseStatus
  <1>3. [status |-> "detected", events |-> <<Detected>>] \in Case
    BY <1>2 DEF Case, CaseStatus
  <1>4. /\ cases' \in [Cases -> Case] /\ \A d \in Cases \ {c} : cases'[d] = cases[d]
        /\ cases'[c].status = "detected" /\ cases'[c].events = <<Detected>>
    BY <1>1, <1>3 DEF CasesInv, CasesTypeOK
  <1>5. cases[c].events = <<>> /\ Len(cases[c].events) = 0
    BY <1>1 DEF CasesInv
  <1>6. /\ <<Detected>> # <<>> /\ Len(<<Detected>>) = 1 /\ <<Detected>>[1] = Detected
        /\ Chained(<<Detected>>) /\ Connected(<<Detected>>)
    <2>1. Len(<<Detected>>) = 1 /\ 2..1 = {}
      OBVIOUS
    <2> QED BY <2>1 DEF Chained, Connected
  <1>7. CasesTypeOK' /\ CaseFollowsEvents' /\ \A d \in Cases : cases'[d].status = "none" => cases'[d].events = <<>>
    <2>1. ASSUME NEW d \in Cases
          PROVE  LET e == cases'[d].events IN
                 cases'[d].status = (IF e = <<>> THEN "none" ELSE e[Len(e)].to) /\ Chained(e)
      <3>1. CASE d = c
        BY <1>2, <1>4, <1>6, <3>1
      <3>2. CASE d # c
        BY <1>4, <3>2 DEF CasesInv, CaseFollowsEvents
      <3> QED BY <3>1, <3>2
    <2> QED BY <1>1, <1>4, <2>1 DEF CasesInv, CasesTypeOK, CaseFollowsEvents
  <1>8. ASSUME NEW r \in Reviewers, tr[r].step # "idle" PROVE tr[r].case # c
    BY <1>5, <1>8, CaseFacts DEF TransitionOK
  <1>9. \A r \in Reviewers : TransitionOK(r)'
    BY <1>1, <1>4, <1>8, CaseFacts DEF TransitionOK
  <1>10. ASSUME TurnInv PROVE TurnInv'
    <2>1. EventsConnect'
      <3>1. ASSUME NEW d \in Cases PROVE Connected(cases'[d].events)
        BY <1>4, <1>6, <1>10 DEF TurnInv, EventsConnect
      <3> QED BY <3>1 DEF EventsConnect
    <2>2. ReviewersTakeTurns' /\ ArtifactKept'
      BY <1>1, <1>4, <1>10 DEF TurnInv, ReviewersTakeTurns, ArtifactKept
    <2>3. ASSUME NEW r \in Reviewers, tr[r].step # "idle"
          PROVE  tr[r].case \in Cases /\ cases'[tr[r].case] = cases[tr[r].case]
      BY <1>4, <1>8, <2>3, CaseFacts DEF TransitionOK
    <2> QED BY <1>1, <1>10, <2>1, <2>2, <2>3 DEF TurnInv, SequenceFree
  <1> QED BY <1>7, <1>9, <1>10 DEF CasesInv

LEMMA RowRewritten ==
    ASSUME NEW x \in Case, NEW s \in CaseStatus, NEW e \in Seq(Event)
    PROVE  [x EXCEPT !.status = s, !.events = e] = [status |-> s, events |-> e]
  <1> DEFINE y == [x EXCEPT !.status = s, !.events = e]
  <1>1. y \in Case /\ y.status = s /\ y.events = e
    BY DEF Case
  <1> HIDE DEF y
  <1>2. y = [status |-> y.status, events |-> y.events]
    BY <1>1 DEF Case
  <1>3. y = [status |-> s, events |-> e]
    BY <1>1, <1>2
  <1> QED BY <1>3 DEF y

\* An event appended to a list that holds where it starts from.
LEMMA EventAppended ==
    ASSUME NEW e \in Seq(Event), NEW v \in Event, Len(e) > 0, Chained(e),
           v.prev = Len(e), Allowed(v.from, v.to), \E k \in 1..Len(e) : e[k].to = v.from
    PROVE  /\ Append(e, v) \in Seq(Event) /\ Append(e, v) # <<>>
           /\ Len(Append(e, v)) = Len(e) + 1 /\ Append(e, v)[Len(e) + 1] = v
           /\ \A n \in 1..Len(e) : Append(e, v)[n] = e[n]
           /\ Chained(Append(e, v))
           /\ Connected(e) /\ v.from = e[Len(e)].to => Connected(Append(e, v))
  <1>1. PICK f : f = Append(e, v)
    OBVIOUS
  <1>2. /\ f \in Seq(Event) /\ f # <<>> /\ Len(f) = Len(e) + 1 /\ f[Len(e) + 1] = v
        /\ Len(e) \in Nat /\ \A n \in 1..Len(e) : f[n] = e[n]
    BY <1>1
  <1>3. Chained(f)
    <2> SUFFICES ASSUME NEW n \in 2..Len(f)
                 PROVE  /\ f[n].prev = n - 1 /\ Allowed(f[n].from, f[n].to)
                        /\ \E k \in 1..(n - 1) : f[k].to = f[n].from
      BY DEF Chained
    <2>1. CASE n = Len(e) + 1
      <3>1. PICK k \in 1..Len(e) : e[k].to = v.from
        OBVIOUS
      <3>2. k \in 1..(n - 1) /\ f[k].to = f[n].from /\ n - 1 = Len(e)
        BY <1>2, <2>1, <3>1
      <3> QED BY <1>2, <2>1, <3>2
    <2>2. CASE n # Len(e) + 1
      <3>1. n \in 2..Len(e) /\ n \in 1..Len(e)
        BY <1>2, <2>2
      <3>2. PICK k \in 1..(n - 1) : e[k].to = e[n].from
        BY <3>1 DEF Chained
      <3>3. k \in 1..Len(e) /\ f[k].to = f[n].from
        BY <1>2, <3>1, <3>2
      <3> QED BY <1>2, <3>1, <3>3 DEF Chained
    <2> QED BY <2>1, <2>2
  <1>4. ASSUME Connected(e), v.from = e[Len(e)].to PROVE Connected(f)
    <2> SUFFICES ASSUME NEW n \in 2..Len(f) PROVE f[n].from = f[n - 1].to
      BY DEF Connected
    <2>1. n = Len(e) + 1 \/ n \in 2..Len(e)
      BY <1>2
    <2>2. n - 1 \in 1..Len(e)
      BY <1>2
    <2>3. CASE n = Len(e) + 1
      BY <1>2, <1>4, <2>2, <2>3
    <2>4. CASE n \in 2..Len(e)
      BY <1>2, <1>4, <2>2, <2>4 DEF Connected
    <2> QED BY <2>1, <2>3, <2>4
  <1> QED BY <1>1, <1>2, <1>3, <1>4

LEMMA CommitKeeps ==
    ASSUME CasesInv, NEW r \in Reviewers, CommitTransition(r)
    PROVE  CasesInv' /\ (TurnInv => TurnInv')
  <1>1. PICK c : c = tr[r].case
    OBVIOUS
  <1>2. PICK e : e = cases[c].events
    OBVIOUS
  <1>3. PICK v : v = [from |-> tr[r].from, to |-> tr[r].to, prev |-> tr[r].seen]
    OBVIOUS
  <1>4. tr[r].step = "commit" /\ c \in Cases /\ tr[r].to \in CaseStatus /\ TransitionOK(r)
    BY <1>1, CaseFacts DEF CommitTransition, TransitionOK
  <1>5. CASE ~SequenceFree(r)
    <2>1. cases' = cases /\ files' \subseteq Cases /\ tr' = [tr EXCEPT ![r] = NoTransition]
      BY <1>5, CaseFacts DEF CommitTransition
    <2> QED BY <1>4, <1>5, <2>1, CaseFacts, ReviewerMoves DEF TurnInv
  <1>6. CASE SequenceFree(r)
    <2>1. /\ cases' = [cases EXCEPT ![c].status = tr[r].to, ![c].events = Append(@, v)]
          /\ files' = files /\ tr' = [tr EXCEPT ![r] = NoTransition]
      BY <1>1, <1>3, <1>6 DEF CommitTransition
    <2>2. /\ e \in Seq(Event) /\ v \in Event /\ v.to = tr[r].to /\ v.from = tr[r].from
          /\ v.prev = Len(e) /\ Allowed(v.from, v.to) /\ v.to # "none"
          /\ \E k \in 1..Len(e) : e[k].to = v.from
      <3>1. v \in Event /\ v.to = tr[r].to /\ v.from = tr[r].from /\ v.prev = tr[r].seen
        BY <1>3, CaseFacts DEF Event
      <3> QED BY <1>1, <1>2, <1>4, <1>6, <3>1, CaseFacts DEF TransitionOK, SequenceFree, Allowed
    <2>3. Len(e) \in Nat /\ Len(e) > 0 /\ e # <<>>
      BY <2>2
    <2>4. Chained(e) /\ cases[c].status = e[Len(e)].to
      BY <1>2, <1>4, <2>3 DEF CasesInv, CaseFollowsEvents
    <2>5. PICK f : f = Append(e, v)
      OBVIOUS
    <2>6. /\ f \in Seq(Event) /\ f # <<>> /\ Len(f) = Len(e) + 1 /\ f[Len(e) + 1] = v
          /\ \A n \in 1..Len(e) : f[n] = e[n]
          /\ Chained(f) /\ (Connected(e) /\ v.from = e[Len(e)].to => Connected(f))
      BY <2>2, <2>3, <2>4, <2>5, EventAppended
    <2>7. PICK row : row = [status |-> tr[r].to, events |-> f]
      OBVIOUS
    <2>8. row \in Case /\ row.status = tr[r].to /\ row.events = f
      BY <1>4, <2>6, <2>7 DEF Case
    <2>9. cases' = [cases EXCEPT ![c] = row]
      <3>1. cases[c] \in Case /\ cases \in [Cases -> Case]
        BY <1>4 DEF CasesInv, CasesTypeOK
      <3>2. [cases[c] EXCEPT !.status = tr[r].to, !.events = f] = row
        BY ZenonT(40), <1>4, <2>6, <2>7, <3>1, RowRewritten
      <3>3. cases' = [cases EXCEPT ![c] = [cases[c] EXCEPT !.status = tr[r].to, !.events = f]]
        BY <1>2, <1>4, <2>1, <2>5, <3>1
      <3> QED BY <3>2, <3>3
    <2>10. /\ cases' \in [Cases -> Case] /\ \A d \in Cases \ {c} : cases'[d] = cases[d]
           /\ cases'[c].status = tr[r].to /\ cases'[c].events = f
      BY <1>4, <2>8, <2>9 DEF CasesInv, CasesTypeOK
    <2>11. CaseFollowsEvents' /\ \A d \in Cases : cases'[d].status = "none" => cases'[d].events = <<>>
      <3>1. ASSUME NEW d \in Cases
            PROVE  /\ cases'[d].status = (IF cases'[d].events = <<>> THEN "none"
                                          ELSE cases'[d].events[Len(cases'[d].events)].to)
                   /\ Chained(cases'[d].events)
                   /\ cases'[d].status = "none" => cases'[d].events = <<>>
        <4>1. CASE d = c
          BY <2>2, <2>6, <2>10, <4>1
        <4>2. CASE d # c
          BY <2>10, <4>2 DEF CasesInv, CaseFollowsEvents
        <4> QED BY <4>1, <4>2
      <3> QED BY <3>1 DEF CaseFollowsEvents
    <2>12. /\ tr' \in [Reviewers -> Transition] /\ tr'[r].step = "idle"
           /\ \A s \in Reviewers \ {r} : tr'[s] = tr[s]
      BY <2>1, CaseFacts DEF CasesInv, CasesTypeOK
    <2>13. ASSUME NEW s \in Reviewers PROVE TransitionOK(s)'
      <3>1. CASE s = r
        BY <2>12, <3>1 DEF TransitionOK
      <3>2. CASE s # r /\ tr[s].case # c
        <4>1. TransitionOK(s) /\ tr'[s] = tr[s]
          BY <2>12, <3>2, CaseFacts
        <4>2. tr[s].case \in Cases => cases'[tr[s].case] = cases[tr[s].case]
          BY <2>10, <3>2
        <4> QED BY <4>1, <4>2 DEF TransitionOK
      <3>3. CASE s # r /\ tr[s].case = c
        <4>1. TransitionOK(s) /\ tr'[s] = tr[s] /\ tr[s].seen \in Nat
          BY <2>12, <3>3, CaseFacts
        <4>2. ASSUME tr[s].step # "idle"
              PROVE  tr[s].seen <= Len(f) /\ \E k \in 1..Len(f) : f[k].to = tr[s].from
          <5>1. tr[s].seen <= Len(e) /\ \E k \in 1..Len(e) : e[k].to = tr[s].from
            BY <1>2, <3>3, <4>1, <4>2 DEF TransitionOK
          <5>2. PICK k \in 1..Len(e) : e[k].to = tr[s].from
            BY <5>1
          <5>3. k \in 1..Len(f) /\ f[k].to = tr[s].from
            BY <2>3, <2>6, <5>2
          <5> QED BY <2>3, <2>6, <4>1, <5>1, <5>3
        <4> QED BY <1>4, <2>10, <3>3, <4>1, <4>2 DEF TransitionOK
      <3> QED BY <3>1, <3>2, <3>3
    <2>14. CasesInv'
      BY <2>1, <2>10, <2>11, <2>12, <2>13, CaseFacts DEF CasesInv, CasesTypeOK
    <2>15. ASSUME TurnInv PROVE TurnInv'
      <3>1. \A s \in Reviewers : tr'[s].step = "idle"
        BY <1>4, <2>12, <2>15 DEF TurnInv, ReviewersTakeTurns
      <3>2. tr[r].from = cases[c].status
        BY <1>1, <1>4, <2>15 DEF TurnInv
      <3>3. tr[r].to \in {"materialized", "resolved"} => c \in files
        BY <1>1, <1>4, <2>2, <2>15, <3>2 DEF TurnInv, ArtifactKept, Allowed
      <3>4. ArtifactKept'
        BY <1>4, <2>1, <2>10, <2>15, <3>3 DEF TurnInv, ArtifactKept
      <3>5. EventsConnect'
        <4>1. ASSUME NEW d \in Cases PROVE Connected(cases'[d].events)
          BY <1>2, <1>4, <2>2, <2>4, <2>6, <2>10, <2>15, <3>2 DEF TurnInv, EventsConnect
        <4> QED BY <4>1 DEF EventsConnect
      <3> QED BY <3>1, <3>4, <3>5 DEF TurnInv, ReviewersTakeTurns
    <2> QED BY <2>14, <2>15
  <1> QED BY <1>5, <1>6

LEMMA LoadRowKeeps ==
    ASSUME CasesInv, NEW r \in Reviewers, NEW c \in Cases, NEW to \in CaseStatus, LoadRow(r, c, to)
    PROVE  CasesInv' /\ (TurnInv /\ ReviewersTakeTurns' => TurnInv')
  <1>1. PICK t : t = [NoTransition EXCEPT !.step = "events", !.case = c,
                                          !.from = cases[c].status, !.to = to]
    OBVIOUS
  <1>2. tr' = [tr EXCEPT ![r] = t] /\ UNCHANGED <<cases, files>> /\ cases[c].status # "none"
    BY <1>1 DEF LoadRow
  <1>3. /\ t \in Transition /\ t.case = c /\ t.to = to /\ t.seen = 0 /\ t.step = "events"
        /\ t.from = cases[c].status
    BY <1>1, CaseFacts DEF NoTransition, Transition, TransitionStep
  <1>4. \E k \in 1..Len(cases[c].events) : cases[c].events[k].to = cases[c].status
    <2>1. cases[c].events # <<>> /\ cases[c].events \in Seq(Event)
          /\ cases[c].status = cases[c].events[Len(cases[c].events)].to
      BY <1>2, CaseFacts DEF CasesInv, CaseFollowsEvents
    <2>2. Len(cases[c].events) \in 1..Len(cases[c].events)
      BY <2>1
    <2> QED BY <2>1, <2>2
  <1>5. CasesInv' /\ tr'[r] = t /\ \A s \in Reviewers \ {r} : tr'[s] = tr[s]
    <2>1. files' \subseteq Cases /\ t.seen <= Len(cases[c].events)
      BY <1>2, <1>3, CaseFacts
    <2>2. /\ t.case \in Cases /\ t.seen <= Len(cases[t.case].events)
          /\ \E k \in 1..Len(cases[t.case].events) : cases[t.case].events[k].to = t.from
          /\ t.step # "events" => Allowed(t.from, t.to)
          /\ t.step \in {"check", "write"} => t.to = "materialized"
      BY <1>3, <1>4, <2>1
    <2> QED BY <1>2, <1>3, <2>1, <2>2, ReviewerMoves
  <1>6. ASSUME TurnInv, ReviewersTakeTurns' PROVE TurnInv'
    <2>1. ArtifactKept' /\ EventsConnect'
      BY <1>2, <1>6 DEF TurnInv, ArtifactKept, EventsConnect
    <2>2. ASSUME NEW s \in Reviewers \ {r}, tr'[s].step # "idle"
          PROVE  /\ tr'[s].from = cases'[tr'[s].case].status
                 /\ tr'[s].step # "events" => SequenceFree(s)'
                 /\ tr'[s].step = "commit" /\ tr'[s].to = "materialized" => tr'[s].case \in files'
      BY <1>2, <1>5, <1>6, <2>2 DEF TurnInv, SequenceFree
    <2> QED BY <1>2, <1>3, <1>5, <1>6, <2>1, <2>2 DEF TurnInv
  <1> QED BY <1>5, <1>6

\* Reviewer r moves on with the row, the transition and, from now on, the events it saw.
LEMMA ReviewerGoesOn ==
    ASSUME CasesInv, NEW r \in Reviewers, NEW t \in Transition, tr' = [tr EXCEPT ![r] = t],
           cases' = cases, tr[r].step # "idle", files \subseteq files', files' \subseteq Cases,
           t.case = tr[r].case, t.from = tr[r].from, t.to = tr[r].to,
           t.step \in {"check", "write", "commit"}, Allowed(t.from, t.to),
           t.step # "commit" => t.to = "materialized",
           \/ t.seen = Len(cases[t.case].events)
           \/ tr[r].step # "events" /\ t.seen = tr[r].seen,
           t.step = "commit" /\ t.to = "materialized" => t.case \in files'
    PROVE  CasesInv' /\ (TurnInv => TurnInv')
  <1>1. /\ t.case \in Cases /\ t.seen <= Len(cases[t.case].events)
        /\ \E k \in 1..Len(cases[t.case].events) : cases[t.case].events[k].to = t.from
    BY CaseFacts DEF TransitionOK
  <1>2. CasesInv' /\ tr'[r] = t /\ \A s \in Reviewers \ {r} : tr'[s] = tr[s]
    BY <1>1, ReviewerMoves
  <1>3. ASSUME TurnInv PROVE TurnInv'
    <2>1. ReviewersTakeTurns' /\ ArtifactKept' /\ EventsConnect'
      BY <1>2, <1>3 DEF TurnInv, ReviewersTakeTurns, ArtifactKept, EventsConnect
    <2>2. t.from = cases[t.case].status /\ t.seen = Len(cases[t.case].events)
      BY <1>3 DEF TurnInv, SequenceFree
    <2>3. \A s \in Reviewers : tr'[s].step # "idle" => s = r
      BY <1>2, <1>3 DEF TurnInv, ReviewersTakeTurns
    <2> QED BY <1>2, <2>1, <2>2, <2>3 DEF TurnInv, SequenceFree
  <1> QED BY <1>2, <1>3

LEMMA LoadingKeeps ==
    ASSUME CasesInv, NEW r \in Reviewers,
           LoadEvents(r) \/ CheckArtifact(r) \/ WriteArtifact(r) \/ DropTransition(r)
    PROVE  CasesInv' /\ (TurnInv => TurnInv')
  <1>1. CASE tr' = [tr EXCEPT ![r] = NoTransition] /\ UNCHANGED <<cases, files>>
    <2>1. CasesInv' /\ tr'[r].step = "idle" /\ \A s \in Reviewers \ {r} : tr'[s] = tr[s]
      BY <1>1, CaseFacts, ReviewerMoves
    <2>2. ASSUME TurnInv PROVE TurnInv'
      BY <1>1, <2>1, <2>2 DEF TurnInv, ReviewersTakeTurns, ArtifactKept, SequenceFree, EventsConnect
    <2> QED BY <2>1, <2>2
  <1>2. CASE LoadEvents(r) /\ Allowed(tr[r].from, tr[r].to)
    <2>1. PICK t : t = [tr[r] EXCEPT !.step = IF tr[r].to = "materialized" THEN "check" ELSE "commit",
                                     !.seen = Len(cases[tr[r].case].events)]
      OBVIOUS
    <2>2. tr' = [tr EXCEPT ![r] = t] /\ UNCHANGED <<cases, files>> /\ tr[r].step = "events"
      BY <1>2, <2>1 DEF LoadEvents, CasesInv, CasesTypeOK
    <2>3. tr[r].case \in Cases /\ Len(cases[tr[r].case].events) \in Nat
      BY <2>2, CaseFacts DEF TransitionOK
    <2>4. /\ t \in Transition /\ t.case = tr[r].case /\ t.from = tr[r].from /\ t.to = tr[r].to
          /\ t.seen = Len(cases[tr[r].case].events)
          /\ t.step = (IF tr[r].to = "materialized" THEN "check" ELSE "commit")
      BY <2>1, <2>3, CaseFacts DEF Transition, TransitionStep
    <2> QED BY <1>2, <2>2, <2>4, CaseFacts, ReviewerGoesOn
  <1>3. CASE CheckArtifact(r) /\ tr[r].case \notin files
    <2>1. PICK t : t = [tr[r] EXCEPT !.step = "write"]
      OBVIOUS
    <2>2. tr' = [tr EXCEPT ![r] = t] /\ UNCHANGED <<cases, files>> /\ tr[r].step = "check"
      BY <1>3, <2>1 DEF CheckArtifact, CasesInv, CasesTypeOK
    <2>3. /\ t \in Transition /\ t.step = "write" /\ t.case = tr[r].case /\ t.to = tr[r].to
          /\ t.seen = tr[r].seen /\ t.from = tr[r].from
      BY <2>1, CaseFacts DEF Transition, TransitionStep
    <2> QED BY <2>2, <2>3, CaseFacts, ReviewerGoesOn DEF TransitionOK
  <1>4. CASE WriteArtifact(r)
    <2>1. PICK t : t = [tr[r] EXCEPT !.step = "commit", !.wrote = TRUE]
      OBVIOUS
    <2>2. /\ tr' = [tr EXCEPT ![r] = t] /\ tr[r].step = "write" /\ cases' = cases
          /\ files' = files \cup {tr[r].case}
      BY <1>4, <2>1 DEF WriteArtifact, CasesInv, CasesTypeOK
    <2>3. /\ t \in Transition /\ t.step = "commit" /\ t.case = tr[r].case /\ t.to = tr[r].to
          /\ t.seen = tr[r].seen /\ t.from = tr[r].from
      BY <2>1, CaseFacts DEF Transition, TransitionStep
    <2>4. tr[r].case \in Cases /\ Allowed(tr[r].from, tr[r].to) /\ files' \subseteq Cases
      BY <2>2, CaseFacts DEF TransitionOK
    <2> QED BY <2>2, <2>3, <2>4, CaseFacts, ReviewerGoesOn
  <1> QED BY <1>1, <1>2, <1>3, <1>4 DEF LoadEvents, CheckArtifact, DropTransition

LEMMA CaseStepKeeps ==
    ASSUME CasesInv, [CaseStep]_caseVars
    PROVE  CasesInv' /\ (TurnInv /\ ReviewersTakeTurns' => TurnInv')
  <1>1. CASE UNCHANGED caseVars
    BY <1>1 DEF caseVars, CasesInv, CasesTypeOK, CaseFollowsEvents, TransitionOK, SequenceFree,
       TurnInv, ArtifactKept, EventsConnect
  <1> QED BY <1>1, CreateKeeps, LoadRowKeeps, LoadingKeeps, CommitKeeps DEF CaseStep

\* However reviewers overlap, and whatever commits between a command's two SELECTs, the
\* row of a bad case is where its last event goes, the events' hashes form one chain, and
\* every event is an allowed transition from a status the case has had
\* (transition_bad_case, _append_bad_case_event).
THEOREM CasesFollowEvents == CasesSpec => []CaseFollowsEvents
  <1>1. CasesInv => CaseFollowsEvents
    BY DEF CasesInv
  <1>2. CasesInv /\ [CaseStep]_caseVars => CasesInv'
    BY CaseStepKeeps
  <1> QED BY <1>1, <1>2, CasesInitHolds, PTL DEF CasesSpec

\* When reviewers take turns, even ones that die between file and commit, a materialized
\* case keeps its dataset artifact and every event begins where the one before it ended
\* (_materialize_bad_case, transition_bad_case).
THEOREM ArtifactsAreKept == CasesInTurnSpec => [](ArtifactKept /\ EventsConnect)
  <1>1. CasesInv /\ TurnInv /\ [CaseStep /\ ReviewersTakeTurns']_caseVars => (CasesInv /\ TurnInv)'
    <2> SUFFICES ASSUME CasesInv, TurnInv, [CaseStep /\ ReviewersTakeTurns']_caseVars
                 PROVE  (CasesInv /\ TurnInv)'
      OBVIOUS
    <2>1. ReviewersTakeTurns'
      BY DEF TurnInv, ReviewersTakeTurns, caseVars
    <2> QED BY <2>1, CaseStepKeeps
  <1>2. TurnInv => ArtifactKept /\ EventsConnect
    BY DEF TurnInv
  <1> QED BY <1>1, <1>2, CasesInitHolds, PTL DEF CasesInTurnSpec

-----------------------------------------------------------------------------
(* Finalizing a v2 job: EvalHandoff.                                       *)

\* A finalize command works on bound drafts; before it publishes its receipt the report
\* on disk is its own, and it files a case on a trace of the job.
FinalizeOK(f) ==
    /\ fin[f].step # "idle" => fin[f].raw \in EvalDrafts
    /\ fin[f].step = "receipt" => report = EvaluateV2(fin[f].raw, fin[f].at)
    /\ fin[f].step \in {"case", "close"} => fin[f].trace \in Cases

\* A published report or receipt stands, and what is sealed or accepted follows from drafts.
EvalInv ==
    /\ EvalTypeOK /\ CasesInv
    /\ \A f \in Finalizers : FinalizeOK(f)
    /\ receipt # None => receipt.report = report /\ report = EvaluateV2(receipt.drafts, report.at)
    /\ accepted => /\ report # None /\ report.decision = "pass"
                   /\ \E d \in EvalDrafts : report = EvaluateV2(d, report.at)

\* What holds besides when finalize commands take turns: the job has at most one trace,
\* and the only case filed is that of this trace.
FiledInv ==
    /\ FinalizersTakeTurns
    /\ Len(anchors) <= 1
    /\ anchors = <<>> => open = {}
    /\ \A c \in Cases : cases[c].status # "none" => Len(anchors) = 1 /\ anchors[1] = c
    /\ \A f \in Finalizers :
        /\ fin[f].step = "start" => anchors = <<>>
        /\ fin[f].step \in {"case", "close"} => Len(anchors) = 1 /\ anchors[1] = fin[f].trace

LEMMA EvaluateTyped ==
    ASSUME NEW d \in EvalDrafts, NEW at \in 0..MaxEvalClock
    PROVE  /\ EvaluateV2(d, at) \in Reports /\ EvaluateV2(d, at) # None
           /\ EvaluateV2(d, at).at = at /\ EvaluateV2(d, at).says = Findings[d]
           /\ EvaluateV2(d, at).decision = ReleaseDecision(d)
           /\ [drafts |-> d, report |-> EvaluateV2(d, at)] \in Receipts
           /\ [drafts |-> d, report |-> EvaluateV2(d, at)] # None
  <1>1. EvaluateV2(d, at) \in Reports
    BY DEF Reports
  <1>2. [drafts |-> d, report |-> EvaluateV2(d, at)] \in Receipts
    BY <1>1 DEF Receipts
  <1>3. EvaluateV2(d, at).at = at /\ EvaluateV2(d, at).says = Findings[d] /\ EvaluateV2(d, at).decision = ReleaseDecision(d)
    BY DEF EvaluateV2
  <1> QED BY <1>1, <1>2, <1>3, NoFileIsNoReport DEF NoFileIsNoReport

LEMMA ReportTyped ==
    ASSUME NEW x \in Reports
    PROVE  x.at \in 0..MaxEvalClock /\ x # None
  <1>1. PICK d \in EvalDrafts, at \in 0..MaxEvalClock : x = EvaluateV2(d, at)
    BY DEF Reports
  <1> QED BY <1>1, EvaluateTyped

LEMMA FinalizeFacts ==
    ASSUME EvalInv, NEW f \in Finalizers
    PROVE  /\ EvalTypeOK /\ CasesInv /\ FinalizeOK(f) /\ fin[f] \in Finalizer
           /\ fin[f].step \in {"idle", "evaluate", "report", "receipt", "lock", "anchor", "start", "case", "close"}
           /\ fin[f].at \in 0..MaxEvalClock /\ fin[f].raw \in EvalDrafts \cup {None}
           /\ fin[f].trace \in Cases \cup {None}
           /\ NoFinalize \in Finalizer /\ NoFinalize.step = "idle"
           /\ anchors \in Seq(Cases) /\ MaxEvalClock \in Nat /\ evalClock \in 0..MaxEvalClock
  BY EvalConfiguration DEF EvalInv, EvalTypeOK, Finalizer, NoFinalize, EvalConfiguration

\* A finalize command that moves while the published files and the cases stand.
LEMMA FinalizerMoves ==
    ASSUME EvalInv, NEW f \in Finalizers, NEW x \in Finalizer, fin' = [fin EXCEPT ![f] = x],
           x.step # "idle" => x.raw \in EvalDrafts,
           x.step = "receipt" => report = EvaluateV2(x.raw, x.at),
           x.step \in {"case", "close"} => x.trace \in Cases,
           locked' \in BOOLEAN, evalClock' \in 0..MaxEvalClock,
           anchors' \in Seq(Cases), open' \subseteq Cases,
           UNCHANGED <<frozen, disk, report, receipt, accepted>>, CasesInv'
    PROVE  EvalInv' /\ fin'[f] = x /\ \A g \in Finalizers \ {f} : fin'[g] = fin[g]
  <1>1. fin' \in [Finalizers -> Finalizer] /\ fin'[f] = x /\ \A g \in Finalizers \ {f} : fin'[g] = fin[g]
    BY DEF EvalInv, EvalTypeOK
  <1>2. EvalTypeOK'
    BY <1>1 DEF EvalInv, EvalTypeOK
  <1>3. \A g \in Finalizers : FinalizeOK(g)'
    BY <1>1 DEF EvalInv, FinalizeOK
  <1> QED BY <1>1, <1>2, <1>3 DEF EvalInv

LEMMA CasesStand ==
    ASSUME CasesInv, UNCHANGED caseVars
    PROVE  CasesInv'
  BY DEF caseVars, CasesInv, CasesTypeOK, CaseFollowsEvents, TransitionOK

\* Files of the job that are not published yet.
LEMMA JobFilesKeep ==
    ASSUME EvalInv, frozen' \in {"no", "partly", "yes"}, disk' \in EvalDrafts \cup {None},
           UNCHANGED <<locked, report, receipt, evalClock, feedback, accepted, fin, caseVars>>
    PROVE  EvalInv' /\ (FiledInv => FiledInv')
  <1>1. CasesInv'
    BY CasesStand DEF EvalInv
  <1>2. EvalInv'
    BY <1>1 DEF EvalInv, EvalTypeOK, FinalizeOK, feedback
  <1> QED BY <1>2 DEF FiledInv, FinalizersTakeTurns, feedback, caseVars

LEMMA AcceptKeeps ==
    ASSUME EvalInv, AcceptReport
    PROVE  EvalInv' /\ (FiledInv => FiledInv')
  <1>1. CasesInv'
    BY CasesStand DEF EvalInv, AcceptReport
  <1>2. EvalInv'
    BY <1>1 DEF EvalInv, EvalTypeOK, FinalizeOK, feedback, AcceptReport, Verifies, BoundDrafts
  <1> QED BY <1>2 DEF FiledInv, FinalizersTakeTurns, feedback, caseVars, AcceptReport

LEMMA FinalizerEdits ==
    ASSUME NEW x \in Finalizer,
           NEW step \in {"idle", "evaluate", "report", "receipt", "lock", "anchor", "start", "case", "close"},
           NEW raw \in EvalDrafts, NEW at \in 0..MaxEvalClock, NEW c \in Cases
    PROVE  /\ [x EXCEPT !.step = step] \in Finalizer
           /\ [x EXCEPT !.step = step, !.raw = raw] \in Finalizer
           /\ [x EXCEPT !.step = step, !.at = at] \in Finalizer
           /\ [x EXCEPT !.step = step, !.trace = c] \in Finalizer
  BY DEF Finalizer

LEMMA FiledMoves ==
    ASSUME EvalInv, FiledInv, FinalizersTakeTurns', NEW f \in Finalizers,
           \A g \in Finalizers \ {f} : fin'[g] = fin[g],
           cases' = cases, anchors' = anchors, open' \subseteq open,
           fin'[f].step = "start" => anchors = <<>>,
           fin'[f].step \in {"case", "close"} => Len(anchors) = 1 /\ anchors[1] = fin'[f].trace
    PROVE  FiledInv'
  BY DEF FiledInv

\* A step of command f that changes only its position, in one of the forms the code has.
LEMMA QuietFinalizeKeeps ==
    ASSUME EvalInv, NEW f \in Finalizers, NEW x \in Finalizer, fin' = [fin EXCEPT ![f] = x],
           x.step \notin {"start", "case", "close"},
           x.step # "idle" => x.raw \in EvalDrafts,
           x.step = "receipt" => report = EvaluateV2(x.raw, x.at),
           locked' \in BOOLEAN, evalClock' \in 0..MaxEvalClock,
           UNCHANGED <<frozen, disk, report, receipt, accepted, feedback, caseVars>>
    PROVE  EvalInv' /\ (FiledInv /\ FinalizersTakeTurns' => FiledInv')
  <1>1. CasesInv' /\ anchors' = anchors /\ open' = open /\ cases' = cases
    BY CasesStand DEF EvalInv, feedback, caseVars
  <1>2. anchors \in Seq(Cases) /\ open \subseteq Cases
    BY DEF EvalInv, EvalTypeOK
  <1>3. EvalInv' /\ fin'[f] = x /\ \A g \in Finalizers \ {f} : fin'[g] = fin[g]
    BY <1>1, <1>2, FinalizerMoves
  <1> QED BY <1>1, <1>3, FiledMoves

LEMMA LoadEvaluateKeeps ==
    ASSUME EvalInv, NEW f \in Finalizers, FinalizeLoad(f) \/ FinalizeEvaluate(f)
    PROVE  EvalInv' /\ (FiledInv /\ FinalizersTakeTurns' => FiledInv')
  <1>1. fin[f] \in Finalizer /\ fin \in [Finalizers -> Finalizer] /\ locked \in BOOLEAN /\ evalClock \in 0..MaxEvalClock
    BY FinalizeFacts DEF EvalTypeOK
  <1>2. CASE FinalizeLoad(f)
    <2>1. PICK step \in {"anchor", "evaluate"} :
            fin' = [fin EXCEPT ![f].step = step, ![f].raw = disk] /\ disk \in EvalDrafts
      BY <1>2 DEF FinalizeLoad, Verifies, BoundDrafts
    <2> DEFINE x == [fin[f] EXCEPT !.step = step, !.raw = disk]
    <2>2. x \in Finalizer /\ x.step = step /\ x.raw = disk /\ fin' = [fin EXCEPT ![f] = x]
      BY <1>1, <2>1 DEF Finalizer
    <2>3. UNCHANGED <<frozen, disk, locked, report, receipt, evalClock, accepted, feedback, caseVars>>
      BY <1>2 DEF FinalizeLoad
    <2> HIDE DEF x
    <2> QED BY <1>1, <2>1, <2>2, <2>3, QuietFinalizeKeeps
  <1>3. CASE FinalizeEvaluate(f)
    <2>1. fin[f].step = "evaluate" /\ fin[f].raw \in EvalDrafts
      BY <1>3, FinalizeFacts DEF FinalizeEvaluate, FinalizeOK
    <2>2. PICK at \in 0..MaxEvalClock :
            fin' = [fin EXCEPT ![f].step = "report", ![f].at = at] /\ evalClock' \in 0..MaxEvalClock
      <3>1. report # None => report.at \in 0..MaxEvalClock
        BY FinalizeFacts, ReportTyped DEF EvalTypeOK
      <3>2. evalClock < MaxEvalClock => evalClock + 1 \in 0..MaxEvalClock
        BY FinalizeFacts
      <3> QED BY <1>1, <1>3, <3>1, <3>2 DEF FinalizeEvaluate
    <2> DEFINE x == [fin[f] EXCEPT !.step = "report", !.at = at]
    <2>3. x \in Finalizer /\ x.step = "report" /\ x.raw = fin[f].raw /\ fin' = [fin EXCEPT ![f] = x]
      BY <1>1, <2>2 DEF Finalizer
    <2>4. UNCHANGED <<frozen, disk, locked, report, receipt, accepted, feedback, caseVars>>
      BY <1>3 DEF FinalizeEvaluate
    <2> HIDE DEF x
    <2> QED BY <1>1, <2>1, <2>2, <2>3, <2>4, QuietFinalizeKeeps
  <1> QED BY <1>2, <1>3

LEMMA StopKeeps ==
    ASSUME EvalInv, NEW f \in Finalizers, fin' = [fin EXCEPT ![f] = NoFinalize],
           UNCHANGED <<frozen, disk, locked, report, receipt, evalClock, accepted, feedback, caseVars>>
    PROVE  EvalInv' /\ (FiledInv /\ FinalizersTakeTurns' => FiledInv')
  <1>1. locked \in BOOLEAN
    BY DEF EvalInv, EvalTypeOK
  <1> QED BY <1>1, FinalizeFacts, QuietFinalizeKeeps

LEMMA PublishReportKeeps ==
    ASSUME EvalInv, NEW f \in Finalizers, PublishReport(f)
    PROVE  EvalInv' /\ (FiledInv /\ FinalizersTakeTurns' => FiledInv')
  <1> DEFINE mine == EvaluateV2(fin[f].raw, fin[f].at)
  <1>1. /\ fin[f].step = "report" /\ fin[f].raw \in EvalDrafts
        /\ UNCHANGED <<frozen, disk, locked, receipt, evalClock, feedback, accepted, caseVars>>
    BY FinalizeFacts DEF PublishReport, FinalizeOK
  <1>2. CASE ~Published(report, mine)
    BY <1>1, <1>2, StopKeeps DEF PublishReport
  <1>3. CASE Published(report, mine)
    <2>1. mine \in Reports /\ mine # None
      BY <1>1, FinalizeFacts, EvaluateTyped
    <2>2. report' = mine /\ report \in {None, mine} /\ fin' = [fin EXCEPT ![f].step = "receipt"]
      BY <1>3 DEF PublishReport, Published
    <2> DEFINE x == [fin[f] EXCEPT !.step = "receipt"]
    <2>3. x \in Finalizer /\ x.step = "receipt" /\ x.raw = fin[f].raw /\ x.at = fin[f].at
      BY FinalizeFacts DEF Finalizer
    <2>4. fin' = [fin EXCEPT ![f] = x]
      BY <2>2
    <2> HIDE DEF x
    <2>5. fin' \in [Finalizers -> Finalizer] /\ fin'[f] = x /\ \A g \in Finalizers \ {f} : fin'[g] = fin[g]
      BY <2>3, <2>4 DEF EvalInv, EvalTypeOK
    <2>6. EvalTypeOK'
      BY <1>1, <2>1, <2>2, <2>5 DEF EvalInv, EvalTypeOK, feedback
    <2>7. FinalizeOK(f)'
      BY <1>1, <2>2, <2>3, <2>5 DEF FinalizeOK
    <2>8. ASSUME NEW g \in Finalizers \ {f} PROVE FinalizeOK(g)'
      <3>1. fin[g].step = "receipt" => report # None
        <4>1. FinalizeOK(g) /\ fin[g].at \in 0..MaxEvalClock
          BY FinalizeFacts
        <4>2. fin[g].step = "receipt" => fin[g].raw \in EvalDrafts /\ report = EvaluateV2(fin[g].raw, fin[g].at)
          BY <4>1 DEF FinalizeOK
        <4>3. ASSUME NEW d \in EvalDrafts, NEW at \in 0..MaxEvalClock PROVE EvaluateV2(d, at) # None
          BY EvaluateTyped
        <4> QED BY <4>1, <4>2, <4>3
      <3> QED BY <2>2, <2>5, <3>1, FinalizeFacts DEF FinalizeOK
    <2>9. receipt # None => report # None
      <3> SUFFICES ASSUME receipt # None PROVE report # None
        OBVIOUS
      <3>1. receipt \in Receipts /\ receipt.report = report
        BY DEF EvalInv, EvalTypeOK
      <3> QED BY <3>1, NoFileIsNoReport DEF Receipts, NoFileIsNoReport
    <2>10. CasesInv'
      BY <1>1, CasesStand DEF EvalInv
    <2>11. EvalInv'
      BY <1>1, <2>2, <2>6, <2>7, <2>8, <2>9, <2>10 DEF EvalInv
    <2>12. UNCHANGED <<cases, anchors, open>>
      BY <1>1 DEF feedback, caseVars
    <2>13. FiledInv /\ FinalizersTakeTurns' => FiledInv'
      BY <2>3, <2>5, <2>12, FiledMoves
    <2> QED BY <2>11, <2>13
  <1> QED BY <1>2, <1>3

LEMMA PublishReceiptKeeps ==
    ASSUME EvalInv, NEW f \in Finalizers, PublishReceipt(f)
    PROVE  EvalInv' /\ (FiledInv /\ FinalizersTakeTurns' => FiledInv')
  <1> DEFINE mine == [drafts |-> fin[f].raw, report |-> EvaluateV2(fin[f].raw, fin[f].at)]
  <1>1. /\ fin[f].step = "receipt" /\ fin[f].raw \in EvalDrafts
        /\ report = EvaluateV2(fin[f].raw, fin[f].at)
        /\ UNCHANGED <<frozen, disk, locked, report, evalClock, feedback, accepted, caseVars>>
    BY FinalizeFacts DEF PublishReceipt, FinalizeOK
  <1>2. CASE ~Published(receipt, mine)
    BY <1>1, <1>2, StopKeeps DEF PublishReceipt
  <1>3. CASE Published(receipt, mine)
    <2>1. mine \in Receipts /\ mine.report = report /\ report = EvaluateV2(mine.drafts, report.at)
      BY <1>1, FinalizeFacts, EvaluateTyped
    <2>2. receipt' = mine /\ fin' = [fin EXCEPT ![f].step = "lock"]
      BY <1>3 DEF PublishReceipt
    <2> DEFINE x == [fin[f] EXCEPT !.step = "lock"]
    <2>3. x \in Finalizer /\ x.step = "lock" /\ x.raw = fin[f].raw
      BY FinalizeFacts DEF Finalizer
    <2>4. fin' = [fin EXCEPT ![f] = x]
      BY <2>2
    <2> HIDE DEF x, mine
    <2>5. fin' \in [Finalizers -> Finalizer] /\ fin'[f] = x /\ \A g \in Finalizers \ {f} : fin'[g] = fin[g]
      BY <2>3, <2>4 DEF EvalInv, EvalTypeOK
    <2>6. EvalTypeOK'
      BY <1>1, <2>1, <2>2, <2>5 DEF EvalInv, EvalTypeOK, feedback
    <2>7. \A g \in Finalizers : FinalizeOK(g)'
      BY <1>1, <2>2, <2>3, <2>5, FinalizeFacts DEF FinalizeOK
    <2>8. CasesInv'
      BY <1>1, CasesStand DEF EvalInv
    <2>9. EvalInv'
      BY <1>1, <2>1, <2>2, <2>6, <2>7, <2>8 DEF EvalInv
    <2>10. UNCHANGED <<cases, anchors, open>>
      BY <1>1 DEF feedback, caseVars
    <2>11. FiledInv /\ FinalizersTakeTurns' => FiledInv'
      BY <2>3, <2>5, <2>10, FiledMoves
    <2> QED BY <2>9, <2>11
  <1> QED BY <1>2, <1>3

LEMMA AnchorKeeps ==
    ASSUME EvalInv, NEW f \in Finalizers, LockDrafts(f) \/ FeedbackAnchor(f)
    PROVE  EvalInv' /\ (FiledInv /\ FinalizersTakeTurns' => FiledInv')
  <1>1. /\ fin[f] \in Finalizer /\ fin \in [Finalizers -> Finalizer] /\ locked \in BOOLEAN
        /\ evalClock \in 0..MaxEvalClock /\ anchors \in Seq(Cases) /\ open \subseteq Cases
    BY FinalizeFacts DEF EvalTypeOK
  <1>2. fin[f].raw \in EvalDrafts
    BY FinalizeFacts DEF LockDrafts, FeedbackAnchor, FinalizeOK
  <1>3. CASE LockDrafts(f)
    <2> DEFINE x == [fin[f] EXCEPT !.step = "anchor"]
    <2>1. x \in Finalizer /\ x.step = "anchor" /\ x.raw = fin[f].raw /\ fin' = [fin EXCEPT ![f] = x]
      BY <1>1, <1>3 DEF Finalizer, LockDrafts
    <2>2. locked' = TRUE /\ UNCHANGED <<frozen, disk, report, receipt, evalClock, feedback, accepted, caseVars>>
      BY <1>3 DEF LockDrafts
    <2> HIDE DEF x
    <2> QED BY <1>1, <1>2, <2>1, <2>2, QuietFinalizeKeeps
  <1>4. CASE FeedbackAnchor(f)
    <2>1. UNCHANGED <<frozen, disk, locked, report, receipt, evalClock, feedback, accepted, caseVars>>
      BY <1>4 DEF FeedbackAnchor
    <2>2. CASE fin' = [fin EXCEPT ![f] = NoFinalize]
      BY <2>1, <2>2, StopKeeps
    <2>3. CasesInv' /\ anchors' = anchors /\ open' = open /\ cases' = cases
      BY <2>1, CasesStand DEF EvalInv, feedback, caseVars
    <2>4. CASE ~TraceFound /\ fin' = [fin EXCEPT ![f].step = "start"]
      <3> DEFINE x == [fin[f] EXCEPT !.step = "start"]
      <3>1. x \in Finalizer /\ x.step = "start" /\ x.raw = fin[f].raw /\ fin' = [fin EXCEPT ![f] = x]
        BY <1>1, <2>4 DEF Finalizer
      <3> HIDE DEF x
      <3>2. EvalInv' /\ fin'[f] = x /\ \A g \in Finalizers \ {f} : fin'[g] = fin[g]
        BY <1>1, <1>2, <2>1, <2>3, <3>1, FinalizerMoves
      <3> QED BY <2>3, <2>4, <3>1, <3>2, FiledMoves DEF TraceFound
    <2>5. CASE TraceFound /\ fin' = [fin EXCEPT ![f].step = "case", ![f].trace = anchors[Len(anchors)]]
      <3> DEFINE c == anchors[Len(anchors)]
                 x == [fin[f] EXCEPT !.step = "case", !.trace = c]
      <3>1. c \in Cases /\ Len(anchors) \in Nat /\ Len(anchors) > 0
        BY <1>1, <2>5 DEF TraceFound
      <3>2. x \in Finalizer /\ x.step = "case" /\ x.trace = c /\ x.raw = fin[f].raw /\ fin' = [fin EXCEPT ![f] = x]
        BY <1>1, <2>5, <3>1 DEF Finalizer
      <3> HIDE DEF x
      <3>3. EvalInv' /\ fin'[f] = x /\ \A g \in Finalizers \ {f} : fin'[g] = fin[g]
        BY <1>1, <1>2, <2>1, <2>3, <3>1, <3>2, FinalizerMoves
      <3>4. FiledInv => Len(anchors) = 1
        <4>1. FiledInv => Len(anchors) <= 1
          BY DEF FiledInv
        <4> QED BY <3>1, <4>1
      <3> QED BY <2>3, <3>2, <3>3, <3>4, FiledMoves
    <2> QED BY <1>4, <2>2, <2>4, <2>5 DEF FeedbackAnchor
  <1> QED BY <1>3, <1>4

LEMMA FeedbackStartKeeps ==
    ASSUME EvalInv, NEW f \in Finalizers, FeedbackStart(f)
    PROVE  EvalInv' /\ (FiledInv /\ FinalizersTakeTurns' => FiledInv')
  <1>1. PICK c \in Cases :
            /\ \/ c \in open /\ UNCHANGED feedback
               \/ open = {} /\ anchors' = Append(anchors, c) /\ open' = {c}
            /\ fin' = [fin EXCEPT ![f].step = "case", ![f].trace = c]
    BY DEF FeedbackStart
  <1>2. /\ fin[f] \in Finalizer /\ fin \in [Finalizers -> Finalizer] /\ locked \in BOOLEAN
        /\ evalClock \in 0..MaxEvalClock /\ anchors \in Seq(Cases) /\ open \subseteq Cases
        /\ fin[f].step = "start" /\ fin[f].raw \in EvalDrafts
    BY FinalizeFacts DEF EvalTypeOK, FeedbackStart, FinalizeOK
  <1>3. UNCHANGED <<frozen, disk, locked, report, receipt, evalClock, accepted, caseVars>>
    BY DEF FeedbackStart
  <1>4. CasesInv' /\ cases' = cases
    BY <1>3, CasesStand DEF EvalInv, caseVars
  <1> DEFINE x == [fin[f] EXCEPT !.step = "case", !.trace = c]
  <1>5. x \in Finalizer /\ x.step = "case" /\ x.trace = c /\ x.raw = fin[f].raw /\ fin' = [fin EXCEPT ![f] = x]
    BY <1>1, <1>2 DEF Finalizer
  <1>6. anchors' \in Seq(Cases) /\ open' \subseteq Cases
    BY SMTT(30), <1>1, <1>2 DEF feedback
  <1> HIDE DEF x
  <1>7. EvalInv' /\ fin'[f] = x /\ \A g \in Finalizers \ {f} : fin'[g] = fin[g]
    BY <1>2, <1>3, <1>4, <1>5, <1>6, FinalizerMoves
  <1>8. ASSUME FiledInv, FinalizersTakeTurns' PROVE FiledInv'
    <2>1. anchors = <<>> /\ open = {} /\ \A d \in Cases : cases[d].status = "none"
      BY <1>2, <1>8 DEF FiledInv
    <2>2. anchors' = <<c>> /\ open' = {c}
      BY <1>1, <2>1
    <2>3. Len(anchors') = 1 /\ anchors'[1] = c /\ anchors' # <<>>
      BY <2>2
    <2>4. \A g \in Finalizers \ {f} : fin'[g].step = "idle"
      BY <1>5, <1>7, <1>8 DEF FinalizersTakeTurns
    <2> QED BY <1>4, <1>5, <1>7, <1>8, <2>1, <2>3, <2>4 DEF FiledInv
  <1> QED BY <1>7, <1>8

LEMMA FeedbackCaseKeeps ==
    ASSUME EvalInv, NEW f \in Finalizers, FeedbackCase(f)
    PROVE  EvalInv' /\ (FiledInv /\ FinalizersTakeTurns' => FiledInv')
  <1> DEFINE c == fin[f].trace
             x == [fin[f] EXCEPT !.step = "close"]
  <1>1. /\ fin[f] \in Finalizer /\ fin \in [Finalizers -> Finalizer] /\ locked \in BOOLEAN
        /\ evalClock \in 0..MaxEvalClock /\ anchors \in Seq(Cases) /\ open \subseteq Cases
        /\ fin[f].step = "case" /\ fin[f].raw \in EvalDrafts /\ c \in Cases
    BY FinalizeFacts DEF EvalTypeOK, FeedbackCase, FinalizeOK
  <1>2. /\ UNCHANGED <<frozen, disk, locked, report, receipt, evalClock, accepted, anchors, open>>
        /\ CreateBadCase(c) \/ UNCHANGED caseVars
    BY DEF FeedbackCase, feedback
  <1>3. x \in Finalizer /\ x.step = "close" /\ x.trace = c /\ x.raw = fin[f].raw /\ fin' = [fin EXCEPT ![f] = x]
    BY <1>1 DEF Finalizer, FeedbackCase
  <1>4. CasesInv /\ CasesInv'
    BY <1>1, <1>2, CasesStand, CreateKeeps DEF EvalInv
  <1>5. \A d \in Cases \ {c} : cases'[d] = cases[d]
    <2>1. CASE CreateBadCase(c)
      BY <1>4, <2>1 DEF CreateBadCase, CasesInv, CasesTypeOK
    <2>2. CASE UNCHANGED caseVars
      BY <2>2 DEF caseVars
    <2> QED BY <1>2, <2>1, <2>2
  <1> HIDE DEF x, c
  <1>6. EvalInv' /\ fin'[f] = x /\ \A g \in Finalizers \ {f} : fin'[g] = fin[g]
    BY <1>1, <1>2, <1>3, <1>4, FinalizerMoves
  <1>7. ASSUME FiledInv, FinalizersTakeTurns' PROVE FiledInv'
    <2>1. Len(anchors) = 1 /\ anchors[1] = c
      BY <1>1, <1>7 DEF FiledInv, c
    <2> QED BY <1>2, <1>3, <1>5, <1>6, <1>7, <2>1 DEF FiledInv
  <1> QED BY <1>6, <1>7

LEMMA FeedbackSealKeeps ==
    ASSUME EvalInv, NEW f \in Finalizers, FeedbackSeal(f)
    PROVE  EvalInv' /\ (FiledInv /\ FinalizersTakeTurns' => FiledInv')
  <1>1. /\ open' \subseteq open /\ open' \subseteq Cases /\ fin' = [fin EXCEPT ![f] = NoFinalize]
        /\ UNCHANGED <<frozen, disk, locked, report, receipt, evalClock, anchors, accepted, caseVars>>
    BY FinalizeFacts DEF FeedbackSeal, EvalTypeOK
  <1>2. CasesInv' /\ cases' = cases /\ locked \in BOOLEAN
    BY <1>1, CasesStand DEF EvalInv, caseVars, EvalTypeOK
  <1>3. EvalInv' /\ fin'[f] = NoFinalize /\ \A g \in Finalizers \ {f} : fin'[g] = fin[g]
    BY <1>1, <1>2, FinalizeFacts, FinalizerMoves
  <1> QED BY <1>1, <1>2, <1>3, FinalizeFacts, FiledMoves

LEMMA EvalStepKeeps ==
    ASSUME EvalInv, [EvalStep]_<<evalVars, caseVars>>
    PROVE  EvalInv' /\ (FiledInv /\ FinalizersTakeTurns' => FiledInv')
  <1>1. CASE UNCHANGED <<evalVars, caseVars>>
    BY <1>1, JobFilesKeep DEF evalVars, EvalInv, EvalTypeOK
  <1>2. CASE PrepareInputs \/ PrepareTasks
    BY <1>2, JobFilesKeep DEF PrepareInputs, PrepareTasks, jobFiles, EvalInv, EvalTypeOK
  <1>3. CASE \E d \in EvalDrafts : WriteEvalDrafts(d)
    BY <1>3, JobFilesKeep DEF WriteEvalDrafts, EvalInv, EvalTypeOK
  <1>4. ASSUME NEW f \in Finalizers, KillFinalize(f)
        PROVE  EvalInv' /\ (FiledInv /\ FinalizersTakeTurns' => FiledInv')
    BY <1>4, StopKeeps DEF KillFinalize
  <1> QED BY <1>1, <1>2, <1>3, <1>4, AcceptKeeps, LoadEvaluateKeeps, PublishReportKeeps,
        PublishReceiptKeeps, AnchorKeeps, FeedbackStartKeeps, FeedbackCaseKeeps, FeedbackSealKeeps
      DEF EvalStep

LEMMA EvalInitHolds == CasesInit /\ EvalInit => EvalInv /\ FiledInv
  <1> SUFFICES ASSUME CasesInit, EvalInit PROVE EvalInv /\ FiledInv
    OBVIOUS
  <1>1. NoFinalize \in Finalizer /\ NoFinalize.step = "idle"
    BY EvalConfiguration DEF NoFinalize, Finalizer, EvalConfiguration
  <1>2. fin \in [Finalizers -> Finalizer] /\ \A f \in Finalizers : fin[f].step = "idle"
    BY <1>1 DEF EvalInit
  <1>3. 0 \in 0..MaxEvalClock /\ anchors \in Seq(Cases)
    BY EvalConfiguration DEF EvalConfiguration, EvalInit
  <1>4. EvalTypeOK
    BY <1>2, <1>3 DEF EvalInit, EvalTypeOK
  <1>5. \A c \in Cases : cases[c].status = "none"
    BY DEF CasesInit
  <1>6. EvalInv
    BY <1>2, <1>4, CasesInitHolds DEF EvalInit, EvalInv, FinalizeOK
  <1> QED BY <1>2, <1>5, <1>6 DEF EvalInit, FiledInv, FinalizersTakeTurns

\* An overall pass means a pass of every gated target.
LEMMA PassIsPassOfAll ==
    ASSUME NEW d \in EvalDrafts, ReleaseDecision(d) = "pass", NEW t \in Gated
    PROVE  TargetDecision(Findings[d][t]) = "pass"
  <1> DEFINE verdicts == {TargetDecision(Findings[d][u]) : u \in Gated}
  <1>1. "fail" \notin verdicts /\ "insufficient_sample" \notin verdicts
    BY DEF ReleaseDecision
  <1>2. TargetDecision(Findings[d][t]) \in verdicts
    OBVIOUS
  <1>3. TargetDecision(Findings[d][t]) \in {"fail", "insufficient_sample", "pass"}
    BY DEF TargetDecision
  <1> QED BY <1>1, <1>2, <1>3

\* What the invariants say of receipts and of bad cases.
LEMMA SealedFromInvariant ==
    ASSUME EvalInv
    PROVE  SealsOneReport
  <1>1. ASSUME receipt # None PROVE receipt.report = report /\ report.says = Findings[receipt.drafts]
    BY <1>1 DEF EvalInv, EvaluateV2
  <1>2. ASSUME accepted, NEW t \in Gated PROVE TargetDecision(report.says[t]) = "pass"
    <2>1. PICK d \in EvalDrafts : report = EvaluateV2(d, report.at) /\ report.decision = "pass"
      BY <1>2 DEF EvalInv
    <2>2. report.says = Findings[d] /\ ReleaseDecision(d) = "pass"
      BY <2>1 DEF EvaluateV2
    <2> QED BY <2>2, PassIsPassOfAll
  <1> QED BY <1>1, <1>2 DEF SealsOneReport

LEMMA FiledFromInvariant ==
    ASSUME FiledInv
    PROVE  FailureFiledOnce
  <1> DEFINE filed == {c \in Cases : cases[c].status # "none"}
  <1>1. filed = {} \/ filed = {anchors[1]}
    BY DEF FiledInv
  <1> HIDE DEF filed
  <1>2. Cardinality(filed) <= 1
    <2>1. Cardinality({}) = 0 /\ Cardinality({anchors[1]}) = 1
      BY FS_EmptySet, FS_Singleton
    <2> QED BY <1>1, <2>1
  <1> QED BY <1>2 DEF FailureFiledOnce, filed

\* However finalize commands overlap, die and meet replaced drafts, a receipt seals the
\* report on disk, which follows from the drafts it names, and only a report that passes
\* every gated target is accepted (_atomic_publish_immutable, _validated_agent_eval_pass_report).
THEOREM ReceiptsSealOneReport == EvalSpec => []SealsOneReport
  <1>1. EvalInv => SealsOneReport
    BY SealedFromInvariant
  <1>2. EvalInv /\ [EvalStep]_<<evalVars, caseVars>> => EvalInv'
    BY EvalStepKeeps
  <1> QED BY <1>1, <1>2, EvalInitHolds, PTL DEF EvalSpec

\* When finalize commands take turns, however often they die and are repeated, a failed
\* report has one bad case (_feedback_failed_report).
THEOREM FailuresFiledOnce == EvalInTurnSpec => []FailureFiledOnce
  <1>1. FiledInv => FailureFiledOnce
    BY FiledFromInvariant
  <1>2. EvalInv /\ FiledInv /\ [EvalStep /\ FinalizersTakeTurns']_<<evalVars, caseVars>> => (EvalInv /\ FiledInv)'
    <2> SUFFICES ASSUME EvalInv, FiledInv, [EvalStep /\ FinalizersTakeTurns']_<<evalVars, caseVars>>
                 PROVE  (EvalInv /\ FiledInv)'
      OBVIOUS
    <2>1. FinalizersTakeTurns'
      BY DEF FiledInv, FinalizersTakeTurns, evalVars
    <2> QED BY <2>1, EvalStepKeeps
  <1> QED BY <1>1, <1>2, EvalInitHolds, PTL DEF EvalInTurnSpec

-----------------------------------------------------------------------------
(* What a research command records of itself: TraceJournal.                *)

JournalNames ==
    {"validator", "persistence", "external", "signal1", "signal2", "review1", "review2",
     "evaluation1", "evaluation2", "forecast", "evaluation", "reflection", "signal", "review"}

JournalLink ==
    [name : JournalNames, relation : {"input", "output"}, span : JournalNames \cup {"none"}]

JournalTrace ==
    [status : {"running", "completed", "degraded"}, complete : BOOLEAN,
     spans : SUBSET JournalNames, links : SUBSET JournalLink]

ScribeState ==
    [step : {"idle", "call", "mark", "finish", "done"}, trace : Nat, next : Nat \ {0},
     got : SUBSET JournalNames, found : Nat, then : {"call", "finish", "done"},
     verdict : {"completed", "degraded"}]

\* Trace t shows call c.
Shows(t, c) ==
    IF c.op = "span" THEN c.name \in t.spans
    ELSE \E l \in t.links : l.name = c.name /\ l.relation = c.relation

\* Trace t shows the spans and outputs among calls cs.
ShowsAll(t, cs) ==
    \A k \in DOMAIN cs : cs[k].relation \in {"none", "output"} => Shows(t, cs[k])

\* A mark that scribe s still has to make on its own trace.
MarkDue(s) == s.step = "mark" /\ s.then = "call" /\ s.found = s.trace

\* What a scribe s with calls cs knows of trace t of its own while it runs: what it got is
\* there, and what it called and did not get was a failure that is marked, will be, or
\* whose mark failed.
Writes(s, cs, t) ==
    /\ \A k \in DOMAIN cs : cs[k].name \in s.got => Shows(t, cs[k])
    /\ \A k \in DOMAIN cs : k < s.next =>
          \/ cs[k].name \in s.got
          \/ faults > 0 /\ (unmarked \/ ~t.complete \/ MarkDue(s))
    /\ s.verdict = "degraded" => faults > 0
    /\ s.step = "finish" /\ s.verdict = "completed" /\ (unmarked => journal \notin Counted) =>
          ShowsAll(t, cs)

ScribeOK(w) ==
    LET s == scribe[w] IN
    /\ s.step = "idle" => s = Unstarted
    /\ s.step \in {"call", "mark", "finish"} =>
          /\ s.trace \in DOMAIN attempts
          /\ s.trace \in Open => Writes(s, Calls, attempts[s.trace])
    /\ s.step = "mark" => /\ s.then = "finish" => s.verdict = "degraded"
                          /\ faults > 0 \/ (s.found = s.trace /\ s.trace \notin Open)

\* One trace of the subject runs at a time; a degraded one had a fault.
TracesOK ==
    /\ journal \in Journals /\ faults \in Nat /\ unmarked \in BOOLEAN
    /\ attempts \in Seq(JournalTrace)
    /\ \A m, n \in Open : m = n
    /\ \A n \in DOMAIN attempts :
          /\ IsFiniteSet(attempts[n].links)
          /\ ~attempts[n].complete => faults > 0
          /\ attempts[n].status = "degraded" => faults > 0
          /\ attempts[n].status = "completed" /\ (unmarked => journal \notin Counted) =>
                ShowsAll(attempts[n], Calls)

JournalInv ==
    /\ TracesOK
    /\ scribe \in [Scribes -> ScribeState]
    /\ \A w \in Scribes : ScribeOK(w)

\* A trace that runs only gains, and the flag of completeness is only lost.
Within(t, u) ==
    t.spans \subseteq u.spans /\ t.links \subseteq u.links /\ (u.complete => t.complete)

\* What every step does to the traces.
JournalGrows ==
    /\ journal' = journal /\ faults' \in Nat /\ faults <= faults' /\ (unmarked => unmarked')
    /\ \A n \in DOMAIN attempts :
          /\ n \in DOMAIN attempts'
          /\ n \in Open' => n \in Open /\ Within(attempts[n], attempts'[n])

\* A journal has spans and links, under names that differ.
IsJournal(cs) ==
    /\ Len(cs) \in Nat /\ DOMAIN cs = 1..Len(cs)
    /\ \A k \in DOMAIN cs :
          /\ cs[k].name \in JournalNames
          /\ \/ cs[k].op = "span" /\ cs[k].relation = "none"
             \/ cs[k].op = "link" /\ cs[k].relation \in {"input", "output"}
    /\ \A j, k \in DOMAIN cs : cs[j].name = cs[k].name => j = k

LEMMA TwoThenTwo ==
    ASSUME NEW a, NEW b, NEW c, NEW d
    PROVE  LET s == <<a, b>> \o <<c, d>>
           IN  /\ Len(s) = 4 /\ DOMAIN s = 1..4
               /\ s[1] = a /\ s[2] = b /\ s[3] = c /\ s[4] = d
  OBVIOUS

LEMMA TwoThenThree ==
    ASSUME NEW a, NEW b, NEW c, NEW d, NEW e
    PROVE  LET s == <<a, b>> \o <<c, d, e>>
           IN  /\ Len(s) = 5 /\ DOMAIN s = 1..5
               /\ s[1] = a /\ s[2] = b /\ s[3] = c /\ s[4] = d /\ s[5] = e
  OBVIOUS

LEMMA TwoThenFour ==
    ASSUME NEW a, NEW b, NEW c, NEW d, NEW e, NEW f
    PROVE  LET s == <<a, b>> \o <<c, d, e, f>>
           IN  /\ Len(s) = 6 /\ DOMAIN s = 1..6
               /\ s[1] = a /\ s[2] = b /\ s[3] = c /\ s[4] = d /\ s[5] = e /\ s[6] = f
  OBVIOUS

LEMMA CallFacts ==
    ASSUME journal \in Journals
    PROVE  IsJournal(Calls)
  <1>1. CASE journal = "review"
    <2>1. PICK a, b, c, d, e, f :
            /\ a = SpanCall("validator", "none") /\ b = SpanCall("persistence", "validator")
            /\ c = LinkCall("signal1", "input", "validator")
            /\ d = LinkCall("signal2", "input", "validator")
            /\ e = LinkCall("review1", "output", "persistence")
            /\ f = LinkCall("review2", "output", "persistence")
            /\ Calls = <<a, b>> \o <<c, d, e, f>>
      BY <1>1 DEF Calls, ReviewJournal, TwoSpans
    <2>2. /\ a.op = "span" /\ a.relation = "none" /\ a.name = "validator"
          /\ b.op = "span" /\ b.relation = "none" /\ b.name = "persistence"
          /\ c.op = "link" /\ c.relation = "input" /\ c.name = "signal1"
          /\ d.op = "link" /\ d.relation = "input" /\ d.name = "signal2"
          /\ e.op = "link" /\ e.relation = "output" /\ e.name = "review1"
          /\ f.op = "link" /\ f.relation = "output" /\ f.name = "review2"
      BY SMTT(30), <2>1 DEF SpanCall, LinkCall
    <2>3. PICK cs : cs = Calls
      OBVIOUS
    <2>4. /\ Len(cs) = 6 /\ DOMAIN cs = 1..6
          /\ cs[1] = a /\ cs[2] = b /\ cs[3] = c /\ cs[4] = d /\ cs[5] = e /\ cs[6] = f
      BY <2>1, <2>3, TwoThenFour
    <2> QED BY <2>2, <2>3, <2>4 DEF IsJournal, JournalNames
  <1>2. CASE journal = "outcome"
    <2>1. PICK a, b, c, d :
            /\ a = SpanCall("validator", "none") /\ b = SpanCall("persistence", "validator")
            /\ c = LinkCall("evaluation1", "output", "persistence")
            /\ d = LinkCall("evaluation2", "output", "persistence")
            /\ Calls = <<a, b>> \o <<c, d>>
      BY <1>2 DEF Calls, OutcomeJournal, TwoSpans
    <2>2. /\ a.op = "span" /\ a.relation = "none" /\ a.name = "validator"
          /\ b.op = "span" /\ b.relation = "none" /\ b.name = "persistence"
          /\ c.op = "link" /\ c.relation = "output" /\ c.name = "evaluation1"
          /\ d.op = "link" /\ d.relation = "output" /\ d.name = "evaluation2"
      BY SMTT(30), <2>1 DEF SpanCall, LinkCall
    <2>3. PICK cs : cs = Calls
      OBVIOUS
    <2>4. /\ Len(cs) = 4 /\ DOMAIN cs = 1..4
          /\ cs[1] = a /\ cs[2] = b /\ cs[3] = c /\ cs[4] = d
      BY <2>1, <2>3, TwoThenTwo
    <2> QED BY <2>2, <2>3, <2>4 DEF IsJournal, JournalNames
  <1>3. CASE journal = "reflection"
    <2>1. PICK a, b, c, d, e :
            /\ a = SpanCall("validator", "none") /\ b = SpanCall("persistence", "validator")
            /\ c = LinkCall("forecast", "input", "validator")
            /\ d = LinkCall("evaluation", "input", "validator")
            /\ e = LinkCall("reflection", "output", "persistence")
            /\ Calls = <<a, b>> \o <<c, d, e>>
      BY <1>3 DEF Calls, ReflectionJournal, TwoSpans
    <2>2. /\ a.op = "span" /\ a.relation = "none" /\ a.name = "validator"
          /\ b.op = "span" /\ b.relation = "none" /\ b.name = "persistence"
          /\ c.op = "link" /\ c.relation = "input" /\ c.name = "forecast"
          /\ d.op = "link" /\ d.relation = "input" /\ d.name = "evaluation"
          /\ e.op = "link" /\ e.relation = "output" /\ e.name = "reflection"
      BY SMTT(30), <2>1 DEF SpanCall, LinkCall
    <2>3. PICK cs : cs = Calls
      OBVIOUS
    <2>4. /\ Len(cs) = 5 /\ DOMAIN cs = 1..5
          /\ cs[1] = a /\ cs[2] = b /\ cs[3] = c /\ cs[4] = d /\ cs[5] = e
      BY <2>1, <2>3, TwoThenThree
    <2> QED BY <2>2, <2>3, <2>4 DEF IsJournal, JournalNames
  <1>4. CASE journal = "shadow_review"
    <2>1. PICK a, b, c, d :
            /\ a = SpanCall("validator", "none") /\ b = SpanCall("persistence", "validator")
            /\ c = LinkCall("signal", "input", "validator")
            /\ d = LinkCall("review", "output", "persistence")
            /\ Calls = <<a, b>> \o <<c, d>>
      BY <1>4 DEF Calls, ShadowReviewJournal, TwoSpans
    <2>2. /\ a.op = "span" /\ a.relation = "none" /\ a.name = "validator"
          /\ b.op = "span" /\ b.relation = "none" /\ b.name = "persistence"
          /\ c.op = "link" /\ c.relation = "input" /\ c.name = "signal"
          /\ d.op = "link" /\ d.relation = "output" /\ d.name = "review"
      BY SMTT(30), <2>1 DEF SpanCall, LinkCall
    <2>3. PICK cs : cs = Calls
      OBVIOUS
    <2>4. /\ Len(cs) = 4 /\ DOMAIN cs = 1..4
          /\ cs[1] = a /\ cs[2] = b /\ cs[3] = c /\ cs[4] = d
      BY <2>1, <2>3, TwoThenTwo
    <2> QED BY <2>2, <2>3, <2>4 DEF IsJournal, JournalNames
  <1>5. CASE journal = "shadow"
    <2>1. PICK a, b, c, d :
            /\ a = SpanCall("external", "none") /\ b = SpanCall("validator", "external")
            /\ c = SpanCall("persistence", "validator") /\ d = LinkCall("signal", "output", "persistence")
            /\ Calls = <<a, b, c, d>>
      BY <1>5 DEF Calls, ShadowJournal
    <2>2. /\ a.op = "span" /\ a.relation = "none" /\ a.name = "external"
          /\ b.op = "span" /\ b.relation = "none" /\ b.name = "validator"
          /\ c.op = "span" /\ c.relation = "none" /\ c.name = "persistence"
          /\ d.op = "link" /\ d.relation = "output" /\ d.name = "signal"
      BY SMTT(30), <2>1 DEF SpanCall, LinkCall
    <2>3. PICK cs : cs = Calls
      OBVIOUS
    <2>4. Len(cs) = 4 /\ DOMAIN cs = 1..4 /\ cs[1] = a /\ cs[2] = b /\ cs[3] = c /\ cs[4] = d
      BY <2>1, <2>3
    <2> QED BY <2>2, <2>3, <2>4 DEF IsJournal, JournalNames
  <1> QED BY <1>1, <1>2, <1>3, <1>4, <1>5 DEF Journals

LEMMA ShowsKept ==
    ASSUME NEW t, NEW u, NEW c, Within(t, u), Shows(t, c)
    PROVE  Shows(u, c)
  BY DEF Within, Shows

\* What a scribe knows of its trace outlives the steps of the others.
LEMMA WritesKept ==
    ASSUME NEW s, NEW cs, NEW t, NEW u, Within(t, u), Writes(s, cs, t),
           journal' = journal, faults \in Nat, faults' \in Nat, faults <= faults', unmarked => unmarked'
    PROVE  Writes(s, cs, u)'
  <1>1. \A k \in DOMAIN cs : Shows(t, cs[k]) => Shows(u, cs[k])
    BY ShowsKept
  <1>2. faults > 0 => faults' > 0
    OBVIOUS
  <1>3. ShowsAll(t, cs) => ShowsAll(u, cs)
    BY <1>1 DEF ShowsAll
  <1> QED BY <1>1, <1>2, <1>3 DEF Writes, Within

LEMMA OtherScribe ==
    ASSUME TracesOK, JournalGrows, NEW v \in Scribes, ScribeOK(v), scribe'[v] = scribe[v]
    PROVE  ScribeOK(v)'
  <1>1. PICK s, cs : s = scribe[v] /\ cs = Calls
    OBVIOUS
  <1>2. Calls' = cs
    BY <1>1 DEF JournalGrows, Calls
  <1>3. /\ faults \in Nat /\ faults' \in Nat /\ faults <= faults' /\ (unmarked => unmarked')
        /\ journal' = journal
    BY DEF TracesOK, JournalGrows
  <1>4. ASSUME s.step \in {"call", "mark", "finish"}, s.trace \in Open'
        PROVE  Writes(s, cs, attempts[s.trace])'
    <2>1. s.trace \in DOMAIN attempts
      BY <1>1, <1>4 DEF ScribeOK
    <2>2. s.trace \in Open /\ Within(attempts[s.trace], attempts'[s.trace])
      BY <1>4, <2>1 DEF JournalGrows
    <2>3. PICK t, u : t = attempts[s.trace] /\ u = attempts'[s.trace]
      OBVIOUS
    <2>4. Writes(s, cs, t) /\ Within(t, u)
      BY <1>1, <1>4, <2>2, <2>3 DEF ScribeOK
    <2>5. Writes(s, cs, u)'
      BY <1>3, <2>4, WritesKept
    <2> QED BY <2>3, <2>5
  <1>5. s.step \in {"call", "mark", "finish"} =>
          s.trace \in DOMAIN attempts' /\ (s.trace \notin Open => s.trace \notin Open')
    BY <1>1 DEF ScribeOK, JournalGrows
  <1>6. s.step = "mark" => /\ s.then = "finish" => s.verdict = "degraded"
                           /\ faults' > 0 \/ (s.found = s.trace /\ s.trace \notin Open')
    BY <1>1, <1>3, <1>5 DEF ScribeOK
  <1>7. s.step = "idle" => s = Unstarted
    BY <1>1 DEF ScribeOK
  <1>8. scribe'[v] = s
    BY <1>1
  <1> QED BY <1>2, <1>4, <1>5, <1>6, <1>7, <1>8 DEF ScribeOK

LEMMA JournalFacts ==
    ASSUME JournalInv
    PROVE  /\ TracesOK /\ journal \in Journals /\ faults \in Nat /\ unmarked \in BOOLEAN
           /\ scribe \in [Scribes -> ScribeState]
           /\ Len(attempts) \in Nat /\ DOMAIN attempts = 1..Len(attempts)
           /\ \A n \in DOMAIN attempts : attempts[n] \in JournalTrace
           /\ \A w \in Scribes : scribe[w] \in ScribeState /\ ScribeOK(w)
  BY DEF JournalInv, TracesOK

\* A step of one scribe.
LEMMA ScribeStepKeeps ==
    ASSUME JournalInv, NEW w \in Scribes, NEW s \in ScribeState,
           scribe' = [scribe EXCEPT ![w] = s], JournalGrows, TracesOK',
           scribe'[w] = s => ScribeOK(w)'
    PROVE  JournalInv'
  <1>1. scribe' \in [Scribes -> ScribeState] /\ scribe'[w] = s
        /\ \A v \in Scribes : v # w => scribe'[v] = scribe[v]
    BY JournalFacts
  <1>2. ASSUME NEW v \in Scribes PROVE ScribeOK(v)'
    BY <1>1, JournalFacts, OtherScribe
  <1> QED BY <1>1, <1>2 DEF JournalInv

\* A step that leaves the traces alone.
LEMMA QuietKeeps ==
    ASSUME JournalInv, UNCHANGED <<journal, attempts>>,
           faults' \in {faults, faults + 1}, unmarked' \in BOOLEAN, unmarked => unmarked'
    PROVE  JournalGrows /\ TracesOK'
  <1>1. faults' \in Nat /\ faults <= faults' /\ (faults > 0 => faults' > 0)
    BY JournalFacts
  <1>2. Open' = Open /\ Calls' = Calls
    BY DEF Open, Calls
  <1>3. JournalGrows
    BY <1>1, <1>2 DEF JournalGrows, Within
  <1>4. TracesOK'
    BY <1>1, <1>2, JournalFacts DEF TracesOK
  <1> QED BY <1>3, <1>4

\* A step that rewrites the trace that runs.
LEMMA RewriteKeeps ==
    ASSUME JournalInv, NEW n \in Open, NEW u \in JournalTrace, IsFiniteSet(u.links),
           attempts' = [attempts EXCEPT ![n] = u], UNCHANGED <<journal, faults, unmarked>>,
           Within(attempts[n], u), ~u.complete \/ u.status = "degraded" => faults > 0,
           u.status = "completed" /\ (unmarked => journal \notin Counted) => ShowsAll(u, Calls)
    PROVE  /\ JournalGrows /\ TracesOK' /\ attempts'[n] = u
           /\ n \in Open' <=> u.status = "running"
           /\ \A m \in DOMAIN attempts : m # n => m \notin Open'
  <1>1. /\ n \in DOMAIN attempts /\ attempts[n].status = "running"
        /\ DOMAIN attempts' = DOMAIN attempts /\ attempts'[n] = u
        /\ \A m \in DOMAIN attempts : m # n => attempts'[m] = attempts[m]
        /\ attempts' \in Seq(JournalTrace)
    BY JournalFacts DEF Open, TracesOK
  <1>2. \A m \in DOMAIN attempts : m # n => m \notin Open /\ m \notin Open'
    BY <1>1, JournalFacts DEF TracesOK, Open
  <1>3. n \in Open' <=> u.status = "running"
    BY <1>1 DEF Open
  <1>4. Calls' = Calls
    BY DEF Calls
  <1>5. JournalGrows
    BY <1>1, <1>2, JournalFacts DEF JournalGrows
  <1>6. \A k, m \in Open' : k = m
    BY <1>1, <1>2 DEF Open
  <1>7. ASSUME NEW m \in DOMAIN attempts'
        PROVE  /\ IsFiniteSet(attempts'[m].links)
               /\ ~attempts'[m].complete => faults' > 0
               /\ attempts'[m].status = "degraded" => faults' > 0
               /\ attempts'[m].status = "completed" /\ (unmarked' => journal' \notin Counted) =>
                     ShowsAll(attempts'[m], Calls')
    BY <1>1, <1>4, JournalFacts DEF TracesOK
  <1>8. TracesOK'
    BY <1>1, <1>6, <1>7, JournalFacts DEF TracesOK
  <1> QED BY <1>1, <1>2, <1>3, <1>5, <1>8

\* With one running trace, it is the latest.
LEMMA LatestOpenIs ==
    ASSUME JournalInv
    PROVE  /\ Open # {} => LatestOpen \in Open
           /\ \A n \in Open : LatestOpen = n
           /\ LatestOpen \in Nat
  <1>1. \A m, n \in Open : m = n
    BY JournalFacts DEF TracesOK
  <1>2. Open \subseteq Nat
    BY JournalFacts DEF Open
  <1>3. ASSUME NEW n \in Open PROVE LatestOpen = n
    <2>1. \A k \in Open : k <= n
      BY <1>1, <1>2
    <2>2. LatestOpen \in Open
      BY <2>1 DEF LatestOpen
    <2> QED BY <1>1, <2>2
  <1> QED BY <1>2, <1>3 DEF LatestOpen

\* A scribe's state, rewritten field by field.
LEMMA ScribeFields ==
    ASSUME NEW s \in ScribeState
    PROVE  /\ s = [step |-> s.step, trace |-> s.trace, next |-> s.next, got |-> s.got,
                   found |-> s.found, then |-> s.then, verdict |-> s.verdict]
           /\ s.step \in {"idle", "call", "mark", "finish", "done"} /\ s.trace \in Nat
           /\ s.next \in Nat \ {0} /\ s.got \subseteq JournalNames /\ s.found \in Nat
           /\ s.then \in {"call", "finish", "done"} /\ s.verdict \in {"completed", "degraded"}
  BY DEF ScribeState

\* A scribe that ends, by itself or not.
LEMMA StopsKeep ==
    ASSUME JournalInv, NEW w \in Scribes, StartFails(w) \/ FinishFails(w) \/ DieWriting(w)
    PROVE  JournalInv'
  <1>1. PICK s \in ScribeState : s = scribe[w]
    BY JournalFacts
  <1>2. PICK t : t = [s EXCEPT !.step = "done"]
    OBVIOUS
  <1>3. t \in ScribeState /\ t.step = "done"
    BY <1>2 DEF ScribeState
  <1>4. /\ scribe' = [scribe EXCEPT ![w] = t] /\ UNCHANGED <<journal, attempts, unmarked>>
        /\ faults' \in {faults, faults + 1}
    BY <1>1, <1>2, JournalFacts DEF StartFails, FinishFails, DieWriting, Raises
  <1>5. JournalGrows /\ TracesOK'
    BY <1>4, QuietKeeps, JournalFacts
  <1>6. scribe'[w] = t => ScribeOK(w)'
    BY <1>3 DEF ScribeOK
  <1> QED BY <1>3, <1>4, <1>5, <1>6, ScribeStepKeeps

LEMMA JournalStartKeeps ==
    ASSUME JournalInv, NEW w \in Scribes, Start(w)
    PROVE  JournalInv'
  <1>1. /\ scribe[w] = Unstarted /\ UNCHANGED <<journal, faults, unmarked>>
        /\ attempts' = IF Open = {} THEN Append(attempts, NewTrace) ELSE attempts
    BY JournalFacts DEF Start, ScribeOK
  <1>2. PICK m : m = IF Open = {} THEN Len(attempts) + 1 ELSE LatestOpen
    OBVIOUS
  <1>3. PICK s \in ScribeState : s = scribe[w]
    BY JournalFacts
  <1>4. PICK t : t = [s EXCEPT !.step = "call", !.trace = m]
    OBVIOUS
  <1>5. m \in Nat
    BY <1>2, JournalFacts, LatestOpenIs
  <1>6. /\ t \in ScribeState /\ t.step = "call" /\ t.trace = m
        /\ t.next = 1 /\ t.got = {} /\ t.verdict = "completed"
    <2>1. s.next = 1 /\ s.got = {} /\ s.verdict = "completed"
      BY <1>1, <1>3 DEF Unstarted
    <2>2. t \in [step : {"call"}, trace : {m}, next : {s.next}, got : {s.got}, found : {s.found},
                 then : {s.then}, verdict : {s.verdict}]
      BY <1>4 DEF ScribeState
    <2> QED BY <1>5, <2>1, <2>2 DEF ScribeState
  <1>7. scribe' = [scribe EXCEPT ![w] = t]
    BY <1>2, <1>3, <1>4, JournalFacts DEF Start
  <1>8. JournalGrows /\ TracesOK' /\ m \in DOMAIN attempts'
    <2>1. CASE Open # {}
      BY <1>1, <1>2, <2>1, QuietKeeps, LatestOpenIs, JournalFacts DEF Open
    <2>2. CASE Open = {}
      <3>1. PICK u \in JournalTrace : u = NewTrace /\ u.status = "running" /\ u.complete
                                      /\ IsFiniteSet(u.links)
        <4>1. /\ NewTrace \in JournalTrace /\ NewTrace.status = "running" /\ NewTrace.complete
              /\ NewTrace.links = {}
          BY DEF NewTrace, JournalTrace
        <4>2. IsFiniteSet({})
          BY FS_EmptySet
        <4> QED BY <4>1, <4>2
      <3>2. /\ attempts' = Append(attempts, u) /\ DOMAIN attempts' = 1..Len(attempts) + 1
            /\ attempts' \in Seq(JournalTrace) /\ attempts'[Len(attempts) + 1] = u
            /\ \A n \in DOMAIN attempts : n \in DOMAIN attempts' /\ attempts'[n] = attempts[n]
        BY <1>1, <2>2, <3>1, JournalFacts DEF TracesOK
      <3>3. \A n \in DOMAIN attempts : n \notin Open'
        BY <2>2, <3>2 DEF Open
      <3>4. \A n \in DOMAIN attempts' : n \in DOMAIN attempts \/ n = Len(attempts) + 1
        BY <3>2, JournalFacts
      <3>5. \A k, n \in Open' : k = n
        BY <3>3, <3>4 DEF Open
      <3>6. Calls' = Calls
        BY <1>1 DEF Calls
      <3>7. JournalGrows
        BY <1>1, <3>2, <3>3, JournalFacts DEF JournalGrows
      <3>8. ASSUME NEW n \in DOMAIN attempts'
            PROVE  /\ IsFiniteSet(attempts'[n].links)
                   /\ ~attempts'[n].complete => faults' > 0
                   /\ attempts'[n].status = "degraded" => faults' > 0
                   /\ attempts'[n].status = "completed" /\ (unmarked' => journal' \notin Counted) =>
                         ShowsAll(attempts'[n], Calls')
        BY <1>1, <3>1, <3>2, <3>4, <3>6, JournalFacts DEF TracesOK
      <3>9. TracesOK'
        BY <1>1, <3>2, <3>5, <3>8, JournalFacts DEF TracesOK
      <3> QED BY <1>2, <2>2, <3>2, <3>7, <3>9, JournalFacts
    <2> QED BY <2>1, <2>2
  <1>9. scribe'[w] = t => ScribeOK(w)'
    <2>1. IsJournal(Calls')
      BY <1>1, CallFacts, JournalFacts DEF Calls
    <2>2. PICK cs, u : cs = Calls' /\ u = attempts'[m]
      OBVIOUS
    <2>3. Writes(t, cs, u)'
      BY <1>6, <2>1, <2>2 DEF Writes, IsJournal
    <2> QED BY <1>6, <1>8, <2>2, <2>3 DEF ScribeOK
  <1> QED BY <1>6, <1>7, <1>8, <1>9, ScribeStepKeeps

\* What a scribe that is at work knows.
LEMMA AtWork ==
    ASSUME JournalInv, NEW w \in Scribes, NEW s, NEW cs, s = scribe[w], cs = Calls,
           s.step \in {"call", "mark", "finish"}
    PROVE  /\ s \in ScribeState /\ IsJournal(cs)
           /\ s.trace \in DOMAIN attempts
           /\ s.trace \in Open => Writes(s, cs, attempts[s.trace])
           /\ s.step = "mark" /\ s.then = "finish" => s.verdict = "degraded"
           /\ s.step = "mark" => faults > 0 \/ (s.found = s.trace /\ s.trace \notin Open)
  BY JournalFacts, CallFacts DEF ScribeOK

\* What a call adds to a trace that runs.
LEMMA RecordedFacts ==
    ASSUME JournalInv, NEW w \in Scribes, NEW cs, cs = Calls, NEW k \in DOMAIN cs,
           NEW t \in JournalTrace, IsFiniteSet(t.links)
    PROVE  LET u == Recorded(w, cs[k], t)
           IN  /\ u \in JournalTrace /\ u.status = t.status /\ u.complete = t.complete
               /\ IsFiniteSet(u.links) /\ Within(t, u) /\ Shows(u, cs[k])
  <1>1. IsJournal(cs)
    BY CallFacts, JournalFacts
  <1>2. PICK c : c = cs[k]
    OBVIOUS
  <1>3. PICK u : u = Recorded(w, c, t)
    OBVIOUS
  <1>4. /\ c.name \in JournalNames
        /\ \/ c.op = "span" /\ c.relation = "none"
           \/ c.op = "link" /\ c.relation \in {"input", "output"}
    BY <1>1, <1>2 DEF IsJournal
  <1>5. CASE c.op = "span"
    <2>1. PICK X : X = t.spans \cup {c.name}
      OBVIOUS
    <2>2. u = [t EXCEPT !.spans = X]
      BY <1>3, <1>5, <2>1 DEF Recorded
    <2>3. u \in [status : {t.status}, complete : {t.complete}, spans : {X}, links : {t.links}]
      BY <2>2 DEF JournalTrace
    <2>4. u.status = t.status /\ u.complete = t.complete /\ u.spans = X /\ u.links = t.links
      BY <2>3
    <2>5. u \in JournalTrace
      BY <1>4, <2>1, <2>3 DEF JournalTrace
    <2> QED BY <1>2, <1>3, <1>5, <2>1, <2>4, <2>5 DEF Within, Shows
  <1>6. CASE c.op = "link"
    <2>1. PICK x : x = Under(w, c)
      OBVIOUS
    <2>2. x \in JournalNames \cup {"none"}
      <3>1. scribe[w].got \subseteq JournalNames
        BY JournalFacts, ScribeFields
      <3> QED BY <2>1, <3>1 DEF Under
    <2>3. PICK l : l = [name |-> c.name, relation |-> c.relation, span |-> x]
      OBVIOUS
    <2>4. l \in JournalLink /\ l.name = c.name /\ l.relation = c.relation
      BY <1>4, <1>6, <2>2, <2>3 DEF JournalLink
    <2>5. PICK X : X = t.links \cup {l}
      OBVIOUS
    <2>6. u = [t EXCEPT !.links = X]
      BY <1>3, <1>6, <2>1, <2>3, <2>5 DEF Recorded
    <2>7. u \in [status : {t.status}, complete : {t.complete}, spans : {t.spans}, links : {X}]
      BY <2>6 DEF JournalTrace
    <2>8. u.status = t.status /\ u.complete = t.complete /\ u.spans = t.spans /\ u.links = X
      BY <2>7
    <2>9. u \in JournalTrace
      BY <2>4, <2>5, <2>7 DEF JournalTrace
    <2>10. IsFiniteSet(X)
      BY <2>5, FS_AddElement
    <2> QED BY <1>2, <1>3, <1>6, <2>4, <2>5, <2>8, <2>9, <2>10 DEF Within, Shows
  <1> QED BY <1>4, <1>5, <1>6

LEMMA JournalCallKeeps ==
    ASSUME JournalInv, NEW w \in Scribes, Call(w)
    PROVE  JournalInv'
  <1>1. PICK s, cs : s = scribe[w] /\ cs = Calls
    OBVIOUS
  <1>2. PICK n, k, c : n = s.trace /\ k = s.next /\ c = cs[k]
    OBVIOUS
  <1>3. /\ s.step = "call" /\ k <= Len(cs) /\ UNCHANGED <<journal, faults, unmarked>>
        /\ IF n \in Open
           THEN /\ attempts' = [attempts EXCEPT ![n] = Recorded(w, c, @)]
                /\ scribe' = [scribe EXCEPT ![w].next = @ + 1, ![w].got = @ \cup {c.name}]
           ELSE /\ scribe' = [scribe EXCEPT ![w].next = @ + 1]
                /\ UNCHANGED attempts
    BY <1>1, <1>2 DEF Call
  <1>4. /\ s \in ScribeState /\ IsJournal(cs) /\ n \in DOMAIN attempts
        /\ n \in Open => Writes(s, cs, attempts[n])
    BY <1>1, <1>2, <1>3, AtWork
  <1>5. k \in DOMAIN cs /\ c.name \in JournalNames /\ k + 1 \in Nat \ {0} /\ Calls' = cs
    <2>1. k \in Nat \ {0}
      BY <1>2, <1>4, ScribeFields
    <2>2. Calls' = cs
      BY <1>1, <1>3 DEF Calls
    <2> QED BY <1>2, <1>3, <1>4, <2>1, <2>2 DEF IsJournal
  <1>6. CASE n \in Open
    <2>1. PICK X : X = s.got \cup {c.name}
      OBVIOUS
    <2>2. PICK t : t = [s EXCEPT !.next = k + 1, !.got = X]
      OBVIOUS
    <2>3. t \in [step : {"call"}, trace : {n}, next : {k + 1}, got : {X}, found : {s.found},
                 then : {s.then}, verdict : {s.verdict}]
      BY <1>2, <1>3, <1>4, <2>2 DEF ScribeState
    <2>4. X \subseteq JournalNames
      BY <1>4, <1>5, <2>1, ScribeFields
    <2>5. t \in ScribeState
      BY <1>2, <1>4, <1>5, <2>3, <2>4 DEF ScribeState
    <2>6. scribe' = [scribe EXCEPT ![w] = t]
      BY <1>1, <1>2, <1>3, <1>6, <2>1, <2>2, JournalFacts
    <2>7. PICK v, u : v = attempts[n] /\ u = Recorded(w, c, v)
      OBVIOUS
    <2>8. v \in JournalTrace /\ IsFiniteSet(v.links) /\ v.status = "running"
          /\ (~v.complete => faults > 0)
      BY <1>4, <1>6, <2>7, JournalFacts DEF TracesOK, Open
    <2>9. /\ u \in JournalTrace /\ u.status = "running" /\ u.complete = v.complete
          /\ IsFiniteSet(u.links) /\ Within(v, u) /\ Shows(u, c)
      BY <1>1, <1>2, <1>5, <2>7, <2>8, RecordedFacts
    <2>10. attempts' = [attempts EXCEPT ![n] = u]
      BY <1>3, <1>6, <2>7
    <2>11. JournalGrows /\ TracesOK' /\ attempts'[n] = u
      BY <1>3, <1>6, <2>7, <2>8, <2>9, <2>10, RewriteKeeps
    <2>12. Writes(t, cs, u)'
      <3>1. /\ t.step = "call" /\ t.next = k + 1 /\ t.got = X /\ t.verdict = s.verdict
        BY <2>3
      <3>2. Writes(s, cs, v)
        BY <1>4, <1>6, <2>7
      <3>3. ASSUME NEW j \in DOMAIN cs, cs[j].name \in X PROVE Shows(u, cs[j])
        <4>1. CASE cs[j].name \in s.got
          BY <2>9, <3>2, <4>1, ShowsKept DEF Writes
        <4>2. CASE cs[j].name = c.name
          BY <1>2, <1>4, <1>5, <2>9, <4>2 DEF IsJournal
        <4> QED BY <2>1, <3>3, <4>1, <4>2
      <3>4. ASSUME NEW j \in DOMAIN cs, j < k + 1
            PROVE  \/ cs[j].name \in X
                   \/ faults > 0 /\ (unmarked \/ ~u.complete)
        <4>1. CASE j = k
          BY <1>2, <2>1, <4>1
        <4>2. CASE j < k
          <5>1. ~MarkDue(s)
            BY <1>3 DEF MarkDue
          <5>2. cs[j].name \in s.got \/ (faults > 0 /\ (unmarked \/ ~v.complete))
            BY <1>2, <3>2, <4>2, <5>1 DEF Writes
          <5> QED BY <2>1, <2>9, <5>2
        <4>3. j \in Nat /\ k \in Nat
          BY <1>4, <1>5 DEF IsJournal
        <4> QED BY <3>4, <4>1, <4>2, <4>3
      <3>5. s.verdict = "degraded" => faults > 0
        BY <3>2 DEF Writes
      <3> QED BY <1>3, <3>1, <3>3, <3>4, <3>5 DEF Writes
    <2>13. scribe'[w] = t => ScribeOK(w)'
      BY <1>2, <1>4, <1>5, <2>3, <2>10, <2>11, <2>12 DEF ScribeOK, JournalGrows
    <2> QED BY <2>5, <2>6, <2>11, <2>13, ScribeStepKeeps
  <1>7. CASE n \notin Open
    <2>1. PICK t : t = [s EXCEPT !.next = k + 1]
      OBVIOUS
    <2>2. t \in ScribeState /\ t.step = "call" /\ t.trace = n
      BY <1>2, <1>3, <1>4, <1>5, <2>1 DEF ScribeState
    <2>3. scribe' = [scribe EXCEPT ![w] = t] /\ UNCHANGED attempts
      BY <1>1, <1>2, <1>3, <1>7, <2>1, JournalFacts
    <2>4. JournalGrows /\ TracesOK'
      BY <1>3, <2>3, QuietKeeps, JournalFacts
    <2>5. scribe'[w] = t => ScribeOK(w)'
      BY <1>4, <1>7, <2>2, <2>3 DEF ScribeOK, Open
    <2> QED BY <2>2, <2>3, <2>4, <2>5, ScribeStepKeeps
  <1> QED BY <1>6, <1>7

\* Scribe w moves on to state t while its trace stays as it was.
MovesOn(w, t, cs) ==
    /\ scribe' = [scribe EXCEPT ![w] = t] /\ t.step \in {"call", "mark", "finish"}
    /\ UNCHANGED <<journal, attempts>> /\ faults' \in {faults, faults + 1}
    /\ unmarked' \in BOOLEAN /\ (unmarked => unmarked') /\ t.trace \in DOMAIN attempts
    /\ t.trace \in Open => Writes(t, cs, attempts[t.trace])'
    /\ t.step = "mark" => /\ t.then = "finish" => t.verdict = "degraded"
                          /\ faults' > 0 \/ (t.found = t.trace /\ t.trace \notin Open)

LEMMA ScribeMovesOn ==
    ASSUME JournalInv, NEW w \in Scribes, NEW t \in ScribeState, MovesOn(w, t, Calls)
    PROVE  JournalInv'
  <1>1. JournalGrows /\ TracesOK'
    BY QuietKeeps DEF MovesOn
  <1>2. Calls' = Calls /\ Open' = Open
    BY DEF Calls, Open, MovesOn
  <1>3. scribe'[w] = t => ScribeOK(w)'
    BY <1>2 DEF ScribeOK, MovesOn
  <1> QED BY <1>1, <1>3, ScribeStepKeeps DEF MovesOn

LEMMA CallFailsKeeps ==
    ASSUME JournalInv, NEW w \in Scribes, CallFails(w)
    PROVE  JournalInv'
  <1>1. PICK s, cs : s = scribe[w] /\ cs = Calls
    OBVIOUS
  <1>2. PICK n, k, m : n = s.trace /\ k = s.next
                       /\ m = IF cs[k].op = "span" THEN LatestOpen ELSE n
    OBVIOUS
  <1>3. /\ s.step = "call" /\ k <= Len(cs) /\ faults' = faults + 1
        /\ UNCHANGED <<journal, attempts, unmarked>>
        /\ scribe' = [scribe EXCEPT ![w].step = "mark", ![w].then = "call", ![w].next = @ + 1,
                                    ![w].found = m]
    BY <1>1, <1>2 DEF CallFails, Raises
  <1>4. /\ s \in ScribeState /\ IsJournal(cs) /\ n \in DOMAIN attempts
        /\ n \in Open => Writes(s, cs, attempts[n])
    BY <1>1, <1>2, <1>3, AtWork
  <1>5. k \in Nat \ {0} /\ m \in Nat /\ (n \in Open => m = n)
    BY <1>2, <1>4, ScribeFields, LatestOpenIs
  <1>6. PICK t : t = [s EXCEPT !.step = "mark", !.then = "call", !.next = k + 1, !.found = m]
    OBVIOUS
  <1>7. t \in [step : {"mark"}, trace : {n}, next : {k + 1}, got : {s.got}, found : {m},
               then : {"call"}, verdict : {s.verdict}]
    BY <1>2, <1>4, <1>6 DEF ScribeState
  <1>8. t \in ScribeState
    BY <1>2, <1>4, <1>5, <1>7 DEF ScribeState
  <1>9. scribe' = [scribe EXCEPT ![w] = t]
    BY <1>1, <1>2, <1>3, <1>6, JournalFacts
  <1>10. faults \in Nat /\ faults' > 0
    BY <1>3, JournalFacts
  <1>11. t.step = "mark" /\ t.then = "call" /\ t.trace = n /\ t.got = s.got /\ (n \in Open => MarkDue(t))
    BY <1>5, <1>7 DEF MarkDue
  <1>12. ASSUME n \in Open PROVE Writes(t, cs, attempts[n])'
    BY <1>3, <1>4, <1>10, <1>11, <1>12 DEF Writes
  <1>13. MovesOn(w, t, cs)
    BY <1>3, <1>4, <1>9, <1>10, <1>11, <1>12, JournalFacts DEF MovesOn
  <1> QED BY <1>1, <1>8, <1>13, ScribeMovesOn

\* A scribe s goes on after a mark, made or lost, and trace u is what it finds.
Onward(s) == [s EXCEPT !.step = s.then]

Marks(s, u) ==
    /\ s.trace \in Open =>
          Within(attempts[s.trace], u) /\ (unmarked' \/ (s.found = s.trace => ~u.complete))
    /\ journal' = journal /\ faults' \in {faults, faults + 1} /\ (unmarked => unmarked')

LEMMA AfterMark ==
    ASSUME JournalInv, NEW w \in Scribes, NEW s, NEW cs, s = scribe[w], cs = Calls,
           s.step = "mark", NEW t, t = Onward(s), NEW u, Marks(s, u)
    PROVE  /\ t \in ScribeState /\ t.step \in {"call", "finish", "done"} /\ t.trace = s.trace
           /\ s.trace \in DOMAIN attempts
           /\ s.trace \in Open => Writes(t, cs, u)'
  <1>1. /\ s \in ScribeState /\ s.trace \in DOMAIN attempts
        /\ s.trace \in Open => Writes(s, cs, attempts[s.trace])
        /\ s.then = "finish" => s.verdict = "degraded"
    BY AtWork
  <1>2. /\ t \in ScribeState /\ t.step = s.then /\ t.trace = s.trace /\ t.next = s.next
        /\ t.got = s.got /\ t.verdict = s.verdict
    <2>1. t \in [step : {s.then}, trace : {s.trace}, next : {s.next}, got : {s.got},
                 found : {s.found}, then : {s.then}, verdict : {s.verdict}]
      BY <1>1 DEF ScribeState, Onward
    <2> QED BY <1>1, <2>1 DEF ScribeState
  <1>3. s.then \in {"call", "finish", "done"}
    BY <1>1, ScribeFields
  <1>4. faults \in Nat /\ faults' \in Nat /\ faults <= faults'
    BY JournalFacts DEF Marks
  <1>5. ASSUME s.trace \in Open PROVE Writes(t, cs, u)'
    <2>1. PICK v : v = attempts[s.trace] /\ Writes(s, cs, v) /\ Within(v, u)
      BY <1>1, <1>5 DEF Marks
    <2>2. Writes(s, cs, u)'
      BY <1>4, <2>1, WritesKept DEF Marks
    <2>3. unmarked' \/ (s.found = s.trace => ~u.complete)
      BY <1>5 DEF Marks
    <2> QED BY <1>1, <1>2, <2>2, <2>3 DEF Writes, MarkDue
  <1> QED BY <1>1, <1>2, <1>3, <1>5

LEMMA MarkFailsKeeps ==
    ASSUME JournalInv, NEW w \in Scribes, MarkFails(w)
    PROVE  JournalInv'
  <1>1. PICK s, cs : s = scribe[w] /\ cs = Calls
    OBVIOUS
  <1>2. PICK t, v : t = Onward(s) /\ v = attempts[s.trace]
    OBVIOUS
  <1>3. /\ s.step = "mark" /\ faults' = faults + 1 /\ unmarked' = TRUE
        /\ UNCHANGED <<journal, attempts>>
        /\ scribe' = [scribe EXCEPT ![w] = t]
    BY <1>1, <1>2, JournalFacts DEF MarkFails, Raises, Onward
  <1>4. Within(v, v)
    BY DEF Within
  <1>5. /\ t \in ScribeState /\ t.step \in {"call", "finish", "done"} /\ t.trace = s.trace
        /\ s.trace \in DOMAIN attempts
        /\ s.trace \in Open => Writes(t, cs, v)'
    <2>1. Marks(s, v)
      BY <1>2, <1>3, <1>4 DEF Marks
    <2> QED BY <1>1, <1>2, <1>3, <2>1, AfterMark
  <1>6. JournalGrows /\ TracesOK'
    BY <1>3, QuietKeeps
  <1>7. scribe'[w] = t => ScribeOK(w)'
    <2>1. Calls' = cs /\ Open' = Open /\ attempts'[s.trace] = v
      BY <1>1, <1>2, <1>3 DEF Calls, Open
    <2> QED BY <1>3, <1>5, <2>1 DEF ScribeOK
  <1> QED BY <1>3, <1>5, <1>6, <1>7, ScribeStepKeeps

LEMMA MarkDegradedKeeps ==
    ASSUME JournalInv, NEW w \in Scribes, MarkDegraded(w)
    PROVE  JournalInv'
  <1>1. PICK s, cs : s = scribe[w] /\ cs = Calls
    OBVIOUS
  <1>2. PICK t, n : t = Onward(s) /\ n = s.found
    OBVIOUS
  <1>3. /\ s.step = "mark" /\ UNCHANGED <<journal, faults, unmarked>>
        /\ attempts' = IF n \in Open THEN [attempts EXCEPT ![n].complete = FALSE] ELSE attempts
        /\ scribe' = [scribe EXCEPT ![w] = t]
    BY <1>1, <1>2, JournalFacts DEF MarkDegraded, Onward
  <1>4. Calls' = cs
    BY <1>1, <1>3 DEF Calls
  <1>5. CASE n \in Open
    <2>1. PICK v, u : v = attempts[n] /\ u = [v EXCEPT !.complete = FALSE]
      OBVIOUS
    <2>2. v \in JournalTrace /\ IsFiniteSet(v.links) /\ v.status = "running"
      BY <1>5, <2>1, JournalFacts DEF TracesOK, Open
    <2>3. u \in [status : {"running"}, complete : {FALSE}, spans : {v.spans}, links : {v.links}]
      BY <2>1, <2>2 DEF JournalTrace
    <2>4. /\ u \in JournalTrace /\ u.status = "running" /\ IsFiniteSet(u.links) /\ Within(v, u)
          /\ u.complete = FALSE
      BY <2>2, <2>3 DEF JournalTrace, Within
    <2>5. attempts' = [attempts EXCEPT ![n] = u]
      BY <1>3, <1>5, <2>1
    <2>6. faults > 0
      <3>1. faults > 0 \/ (n = s.trace /\ s.trace \notin Open)
        BY <1>1, <1>2, <1>3, AtWork
      <3> QED BY <1>5, <3>1
    <2>7. /\ JournalGrows /\ TracesOK' /\ attempts'[n] = u /\ n \in Open'
          /\ \A m \in DOMAIN attempts : m # n => m \notin Open'
      BY <1>3, <1>5, <2>1, <2>4, <2>5, <2>6, RewriteKeeps
    <2>8. s.trace \in Open => s.trace = n
      BY <1>5, JournalFacts DEF TracesOK
    <2>9. /\ t \in ScribeState /\ t.step \in {"call", "finish", "done"} /\ t.trace = s.trace
          /\ s.trace \in DOMAIN attempts
          /\ s.trace \in Open => Writes(t, cs, u)'
      <3>1. Marks(s, u) /\ s.step = "mark" /\ t = Onward(s)
        BY <1>2, <1>3, <2>1, <2>4, <2>8 DEF Marks
      <3> QED BY <1>1, <3>1, AfterMark
    <2>10. s.trace \in Open' => s.trace = n /\ s.trace \in Open
      BY <1>5, <2>7, <2>9
    <2>11. s.trace \in DOMAIN attempts'
      BY <2>7, <2>9 DEF JournalGrows
    <2>12. scribe'[w] = t => ScribeOK(w)'
      BY <1>4, <2>7, <2>9, <2>10, <2>11 DEF ScribeOK
    <2> QED BY <1>3, <2>7, <2>9, <2>12, ScribeStepKeeps
  <1>6. CASE n \notin Open
    <2>1. UNCHANGED attempts
      BY <1>3, <1>6
    <2>2. PICK v : v = attempts[s.trace] /\ Within(v, v)
      BY DEF Within
    <2>3. /\ t \in ScribeState /\ t.step \in {"call", "finish", "done"} /\ t.trace = s.trace
          /\ s.trace \in DOMAIN attempts
          /\ s.trace \in Open => Writes(t, cs, v)'
      <3>1. Marks(s, v) /\ s.step = "mark" /\ t = Onward(s)
        BY <1>2, <1>3, <1>6, <2>2 DEF Marks
      <3> QED BY <1>1, <3>1, AfterMark
    <2>4. JournalGrows /\ TracesOK'
      BY <1>3, <2>1, QuietKeeps, JournalFacts
    <2>5. scribe'[w] = t => ScribeOK(w)'
      <3>1. Open' = Open /\ attempts'[s.trace] = v
        BY <2>1, <2>2 DEF Open
      <3> QED BY <1>4, <2>1, <2>3, <3>1 DEF ScribeOK
    <2> QED BY <1>3, <2>3, <2>4, <2>5, ScribeStepKeeps
  <1> QED BY <1>5, <1>6

\* The spans and outputs a complete trace must have.
LEMMA NamedFacts ==
    ASSUME NEW cs, cs = Calls, IsJournal(cs)
    PROVE  /\ \A x : x \in SpansAndOutputs <=>
                 \E k \in DOMAIN cs : cs[k].relation \in {"none", "output"} /\ cs[k].name = x
           /\ \A x : x \in Outputs <=>
                 \E k \in DOMAIN cs : cs[k].relation = "output" /\ cs[k].name = x
  BY DEF SpansAndOutputs, Outputs, Named

\* A trace that shows every output has as many links.
LEMMA LinksCount ==
    ASSUME NEW cs, cs = Calls, IsJournal(cs), NEW t \in JournalTrace, IsFiniteSet(t.links),
           \A k \in DOMAIN cs : Shows(t, cs[k])
    PROVE  Cardinality(t.links) >= Cardinality(Outputs)
  <1> DEFINE f == [l \in t.links |-> l.name]
             T == {l.name : l \in t.links}
  <1>1. f \in Surjection(t.links, T)
    BY DEF Surjection
  <1>2. IsFiniteSet(T) /\ Cardinality(T) <= Cardinality(t.links)
    BY <1>1, FS_Surjection
  <1>3. Outputs \subseteq T
    <2> SUFFICES ASSUME NEW x \in Outputs PROVE x \in T
      OBVIOUS
    <2>1. PICK k \in DOMAIN cs : cs[k].relation = "output" /\ cs[k].name = x
      BY NamedFacts
    <2>2. cs[k].op = "link"
      BY <2>1 DEF IsJournal
    <2>3. Shows(t, cs[k])
      OBVIOUS
    <2> QED BY <2>1, <2>2, <2>3 DEF Shows
  <1> HIDE DEF T
  <1>4. IsFiniteSet(Outputs) /\ Cardinality(Outputs) <= Cardinality(T)
    BY <1>2, <1>3, FS_Subset
  <1>5. Cardinality(Outputs) \in Nat /\ Cardinality(T) \in Nat /\ Cardinality(t.links) \in Nat
    BY <1>2, <1>4, FS_CardinalityType
  <1> QED BY <1>2, <1>4, <1>5

\* A verdict is true of a trace that runs.
LEMMA VerdictTrue ==
    ASSUME JournalInv, NEW w \in Scribes, NEW s, NEW cs, s = scribe[w], cs = Calls,
           s.step = "call", s.next > Len(cs), NEW v, v = attempts[s.trace], s.trace \in Open
    PROVE  /\ Complete(w) /\ (unmarked => journal \notin Counted) => ShowsAll(v, cs)
           /\ ~Complete(w) => faults > 0
  <1>1. s \in ScribeState /\ IsJournal(cs) /\ Writes(s, cs, v)
    BY AtWork
  <1>2. v \in JournalTrace /\ IsFiniteSet(v.links) /\ (~v.complete => faults > 0)
    BY JournalFacts DEF TracesOK, Open
  <1>3. \A k \in DOMAIN cs : k < s.next
    BY <1>1, ScribeFields DEF IsJournal
  <1>4. \A k \in DOMAIN cs : cs[k].name \in s.got \/ (faults > 0 /\ (unmarked \/ ~v.complete))
    BY <1>1, <1>3 DEF Writes, MarkDue
  <1>5. \A k \in DOMAIN cs : cs[k].name \in s.got => Shows(v, cs[k])
    BY <1>1 DEF Writes
  <1>6. Complete(w) <=> IF journal \in Counted THEN v.complete /\ Cardinality(v.links) >= Cardinality(Outputs)
                        ELSE SpansAndOutputs \subseteq s.got
    BY DEF Complete
  <1>7. ASSUME Complete(w), unmarked => journal \notin Counted PROVE ShowsAll(v, cs)
    <2>1. CASE journal \in Counted
      BY <1>4, <1>5, <1>6, <1>7, <2>1 DEF ShowsAll
    <2>2. CASE journal \notin Counted
      <3>1. \A k \in DOMAIN cs : cs[k].relation \in {"none", "output"} => cs[k].name \in s.got
        BY <1>1, <1>6, <1>7, <2>2, NamedFacts
      <3> QED BY <1>5, <3>1 DEF ShowsAll
    <2> QED BY <2>1, <2>2
  <1>8. ASSUME ~(faults > 0) PROVE Complete(w)
    <2>1. \A k \in DOMAIN cs : cs[k].name \in s.got /\ Shows(v, cs[k])
      BY <1>4, <1>5, <1>8
    <2>2. SpansAndOutputs \subseteq s.got
      BY <1>1, <2>1, NamedFacts
    <2>3. Cardinality(v.links) >= Cardinality(Outputs)
      BY <1>1, <1>2, <2>1, LinksCount
    <2> QED BY <1>2, <1>6, <1>8, <2>2, <2>3
  <1> QED BY <1>7, <1>8

LEMMA JudgeKeeps ==
    ASSUME JournalInv, NEW w \in Scribes, Judge(w) \/ JudgeFails(w)
    PROVE  JournalInv'
  <1>1. PICK s, cs, n : s = scribe[w] /\ cs = Calls /\ n = s.trace
    OBVIOUS
  <1>2. /\ s.step = "call" /\ s.next > Len(cs) /\ UNCHANGED <<journal, attempts, unmarked>>
        /\ \/ faults' = faults /\ Decided(w, Complete(w))
           \/ faults' = faults + 1 /\ Decided(w, FALSE)
    BY <1>1 DEF Judge, JudgeFails, AllCalled, Raises
  <1>3. /\ s \in ScribeState /\ n \in DOMAIN attempts
        /\ n \in Open => Writes(s, cs, attempts[n])
    BY <1>1, <1>2, AtWork
  <1>4. /\ n \in Open /\ Complete(w) /\ (unmarked => journal \notin Counted) => ShowsAll(attempts[n], cs)
        /\ n \in Open /\ ~Complete(w) => faults > 0
    BY <1>1, <1>2, VerdictTrue
  <1>5. PICK yes \in BOOLEAN :
          /\ Decided(w, yes)
          /\ n \in Open /\ yes /\ (unmarked => journal \notin Counted) => ShowsAll(attempts[n], cs)
          /\ n \in Open /\ ~yes => faults' > 0
          /\ faults' \in {faults, faults + 1}
    <2>1. CASE faults' = faults /\ Decided(w, Complete(w)) /\ Complete(w)
      BY <1>4, <2>1
    <2>2. CASE faults' = faults /\ Decided(w, Complete(w)) /\ ~Complete(w)
      <3>1. Decided(w, FALSE)
        BY <2>2 DEF Decided
      <3> QED BY <1>4, <2>2, <3>1
    <2>3. CASE faults' = faults + 1 /\ Decided(w, FALSE)
      <3>1. faults' > 0
        BY <2>3, JournalFacts
      <3> QED BY <2>3, <3>1
    <2> QED BY <1>2, <2>1, <2>2, <2>3
  <1>6. PICK v, p : /\ v = IF yes THEN "completed" ELSE "degraded"
                    /\ p = IF yes \/ journal = "shadow_review" THEN "finish" ELSE "mark"
    OBVIOUS
  <1>7. PICK t : t = [s EXCEPT !.verdict = v, !.step = p, !.found = n, !.then = "finish"]
    OBVIOUS
  <1>8. t \in [step : {p}, trace : {n}, next : {s.next}, got : {s.got}, found : {n},
               then : {"finish"}, verdict : {v}]
    BY <1>1, <1>3, <1>7 DEF ScribeState
  <1>9. t \in ScribeState
    BY <1>1, <1>3, <1>6, <1>8 DEF ScribeState
  <1>10. scribe' = [scribe EXCEPT ![w] = t]
    BY <1>1, <1>5, <1>6, <1>7, JournalFacts DEF Decided
  <1>11. /\ t.step = p /\ t.trace = n /\ t.next = s.next /\ t.got = s.got /\ t.found = n
         /\ t.verdict = v
    BY <1>8
  <1>12. ASSUME n \in Open PROVE Writes(t, cs, attempts[n])'
    <2>1. PICK u : u = attempts[n] /\ u = attempts'[n]
      BY <1>2
    <2>2. Writes(s, cs, u) /\ ~MarkDue(s)
      BY <1>2, <1>3, <1>12, <2>1 DEF MarkDue
    <2>3. faults \in Nat /\ faults' \in Nat /\ (faults > 0 => faults' > 0)
      BY <1>5, JournalFacts
    <2>4. yes /\ (unmarked => journal \notin Counted) => ShowsAll(u, cs)
      BY <1>5, <1>12, <2>1
    <2>5. ~yes => faults' > 0
      BY <1>5, <1>12
    <2>6. Writes(t, cs, u)'
      BY <1>2, <1>6, <1>11, <2>2, <2>3, <2>4, <2>5 DEF Writes
    <2> QED BY <2>1, <2>6
  <1>13. /\ t.step \in {"call", "mark", "finish"} /\ (t.step = "mark" => ~yes /\ t.verdict = "degraded")
    BY <1>6, <1>11
  <1>14. t.step = "mark" => faults' > 0 \/ (t.found = t.trace /\ t.trace \notin Open)
    BY <1>5, <1>11, <1>13
  <1>15. MovesOn(w, t, cs)
    BY <1>2, <1>3, <1>5, <1>10, <1>11, <1>12, <1>13, <1>14, JournalFacts DEF MovesOn
  <1> QED BY <1>1, <1>9, <1>15, ScribeMovesOn

LEMMA FinishKeeps ==
    ASSUME JournalInv, NEW w \in Scribes, Finish(w)
    PROVE  JournalInv'
  <1>1. PICK s, cs, n : s = scribe[w] /\ cs = Calls /\ n = s.trace
    OBVIOUS
  <1>2. PICK t : t = [s EXCEPT !.step = "done"]
    OBVIOUS
  <1>3. /\ s.step = "finish" /\ UNCHANGED <<journal, faults, unmarked>>
        /\ attempts' = IF n \in Open THEN [attempts EXCEPT ![n].status = s.verdict] ELSE attempts
        /\ scribe' = [scribe EXCEPT ![w] = t]
    BY <1>1, <1>2, JournalFacts DEF Finish
  <1>4. /\ s \in ScribeState /\ n \in DOMAIN attempts
        /\ n \in Open => Writes(s, cs, attempts[n])
    BY <1>1, <1>3, AtWork
  <1>5. t \in ScribeState /\ t.step = "done"
    BY <1>2, <1>4 DEF ScribeState
  <1>6. JournalGrows /\ TracesOK'
    <2>1. CASE n \in Open
      <3>1. PICK v, u : v = attempts[n] /\ u = [v EXCEPT !.status = s.verdict]
        OBVIOUS
      <3>2. v \in JournalTrace /\ IsFiniteSet(v.links) /\ (~v.complete => faults > 0)
        BY <1>4, <3>1, JournalFacts DEF TracesOK
      <3>3. u \in [status : {s.verdict}, complete : {v.complete}, spans : {v.spans}, links : {v.links}]
        BY <3>1, <3>2 DEF JournalTrace
      <3>4. s.verdict \in {"completed", "degraded"}
        BY <1>4, ScribeFields
      <3>5. /\ u \in JournalTrace /\ u.status = s.verdict /\ IsFiniteSet(u.links) /\ Within(v, u)
            /\ u.complete = v.complete
        BY <3>2, <3>3, <3>4 DEF JournalTrace, Within
      <3>6. attempts' = [attempts EXCEPT ![n] = u]
        BY <1>3, <2>1, <3>1
      <3>7. Writes(s, cs, v)
        BY <1>4, <2>1, <3>1
      <3>8. ~u.complete \/ u.status = "degraded" => faults > 0
        BY <3>2, <3>5, <3>7 DEF Writes
      <3>9. u.status = "completed" /\ (unmarked => journal \notin Counted) => ShowsAll(u, cs)
        <4>1. ShowsAll(v, cs) => ShowsAll(u, cs)
          BY <3>5, ShowsKept DEF ShowsAll
        <4> QED BY <1>3, <3>5, <3>7, <4>1 DEF Writes
      <3> QED BY <1>1, <1>3, <2>1, <3>1, <3>5, <3>6, <3>8, <3>9, RewriteKeeps
    <2>2. CASE n \notin Open
      BY <1>3, <2>2, QuietKeeps, JournalFacts
    <2> QED BY <2>1, <2>2
  <1>7. scribe'[w] = t => ScribeOK(w)'
    BY <1>5 DEF ScribeOK
  <1> QED BY <1>3, <1>5, <1>6, <1>7, ScribeStepKeeps

LEMMA JournalStepKeeps ==
    ASSUME JournalInv, NEW w \in Scribes, JournalStep(w)
    PROVE  JournalInv'
  BY StopsKeep, JournalStartKeeps, JournalCallKeeps, CallFailsKeeps, MarkFailsKeeps,
     MarkDegradedKeeps, JudgeKeeps, FinishKeeps DEF JournalStep

LEMMA JournalStands ==
    ASSUME JournalInv, UNCHANGED journalVars
    PROVE  JournalInv'
  <1>1. UNCHANGED <<journal, attempts, scribe, faults, unmarked>>
    BY DEF journalVars
  <1>2. Open' = Open /\ Calls' = Calls
    BY <1>1 DEF Open, Calls
  <1>3. TracesOK'
    BY <1>1, <1>2 DEF JournalInv, TracesOK
  <1>4. \A w \in Scribes : ScribeOK(w)'
    BY <1>1, <1>2 DEF JournalInv, ScribeOK, Writes, MarkDue
  <1> QED BY <1>1, <1>3, <1>4 DEF JournalInv

LEMMA JournalInitHolds == JournalInit => JournalInv
  <1> SUFFICES ASSUME JournalInit PROVE JournalInv
    OBVIOUS
  <1>1. attempts = <<>> /\ DOMAIN attempts = {} /\ attempts \in Seq(JournalTrace) /\ Open = {}
    BY DEF JournalInit, Open
  <1>2. TracesOK
    BY <1>1 DEF JournalInit, TracesOK
  <1>3. Unstarted \in ScribeState /\ Unstarted.step = "idle"
    BY DEF Unstarted, ScribeState
  <1>4. \A w \in Scribes : scribe[w] = Unstarted
    BY DEF JournalInit
  <1>5. \A w \in Scribes : ScribeOK(w)
    BY <1>3, <1>4 DEF ScribeOK
  <1> QED BY <1>2, <1>3, <1>5 DEF JournalInit, JournalInv

LEMMA WholeFromInvariant ==
    ASSUME JournalInv
    PROVE  CompletedIsWhole
  <1>1. PICK cs : cs = Calls /\ IsJournal(cs)
    BY CallFacts, JournalFacts
  <1>2. ASSUME NEW t, ShowsAll(t, cs)
        PROVE  SpansAndOutputs \subseteq t.spans \cup {l.name : l \in {k \in t.links : k.relation = "output"}}
    <2> SUFFICES ASSUME NEW x \in SpansAndOutputs, x \notin t.spans
                 PROVE  \E l \in t.links : l.relation = "output" /\ l.name = x
      OBVIOUS
    <2>1. PICK k \in DOMAIN cs : cs[k].relation \in {"none", "output"} /\ cs[k].name = x
      BY <1>1, NamedFacts
    <2>2. Shows(t, cs[k])
      BY <1>2, <2>1 DEF ShowsAll
    <2>3. cs[k].op = "link" /\ cs[k].relation = "output"
      BY <1>1, <2>1, <2>2 DEF IsJournal, Shows
    <2> QED BY <2>1, <2>2, <2>3 DEF Shows
  <1> QED BY <1>1, <1>2, JournalFacts DEF TracesOK, CompletedIsWhole

JournalSpec == JournalInit /\ [][\E w \in Scribes : JournalStep(w)]_journalVars

\* However the calls of several commands interleave, fail, die and are repeated, a trace
\* sealed as completed has every span and output of its journal, unless a mark of
\* degradation was lost, and one sealed as degraded had a call that raised
\* (_finish_artifact_trace, _trace_shadow_admission, mark_degraded).
THEOREM CompletedTracesAreWhole == JournalSpec => []CompletedIsWhole
  <1>1. JournalInv /\ [\E w \in Scribes : JournalStep(w)]_journalVars => JournalInv'
    BY JournalStepKeeps, JournalStands
  <1>2. JournalInv => CompletedIsWhole
    BY WholeFromInvariant
  <1> QED BY <1>1, <1>2, JournalInitHolds, PTL DEF JournalSpec

-----------------------------------------------------------------------------
(* All of agent evaluation beside each other: MCAgentEval.                 *)

\* What the finalize commands keep does not depend on the reviewers, but for CasesInv.
LEMMA EvalStands ==
    ASSUME EvalInv, UNCHANGED evalVars, CasesInv'
    PROVE  EvalInv'
  <1>1. UNCHANGED <<frozen, disk, locked, report, receipt, evalClock, anchors, open, accepted, fin>>
    BY DEF evalVars, feedback
  <1>2. EvalTypeOK' /\ \A f \in Finalizers : FinalizeOK(f)'
    BY <1>1 DEF EvalInv, EvalTypeOK, FinalizeOK
  <1> QED BY <1>1, <1>2 DEF EvalInv

\* A finalize command only creates a case.
LEMMA FinalizeCreates ==
    ASSUME EvalInv, EvalStep
    PROVE  UNCHANGED caseVars \/ \E c \in Cases : CreateBadCase(c)
  <1>1. ASSUME NEW f \in Finalizers, FeedbackCase(f)
        PROVE  UNCHANGED caseVars \/ \E c \in Cases : CreateBadCase(c)
    BY <1>1, FinalizeFacts DEF FeedbackCase, FinalizeOK
  <1> QED BY <1>1 DEF EvalStep, PrepareInputs, PrepareTasks, WriteEvalDrafts, AcceptReport,
      FinalizeLoad, FinalizeEvaluate, PublishReport, PublishReceipt, LockDrafts, FeedbackAnchor,
      FeedbackStart, FeedbackSeal, KillFinalize

LEMMA TurnStands ==
    ASSUME TurnInv, UNCHANGED caseVars
    PROVE  TurnInv'
  BY DEF TurnInv, caseVars, ReviewersTakeTurns, ArtifactKept, EventsConnect, SequenceFree

\* The rows of bad cases follow their events whoever reviews and whoever files them, and
\* artifacts are kept wherever reviewers do not overlap.
THEOREM CasesHoldThroughout == MCSpec => []CasesHold
  <1> DEFINE Inv == EvalInv /\ (regime # "cases" => TurnInv)
  <1>1. MCInit => Inv
    BY EvalInitHolds, CasesInitHolds DEF MCInit
  <1>2. ASSUME Inv, [MCNext]_allVars PROVE Inv'
    <2>1. CASE HandoffMove
      <3>1. EvalInv' /\ regime' = regime
        BY <1>2, <2>1, EvalStepKeeps DEF HandoffMove
      <3>2. TurnInv => TurnInv'
        BY <1>2, <2>1, FinalizeCreates, TurnStands, CreateKeeps DEF HandoffMove, EvalInv
      <3> QED BY <1>2, <3>1, <3>2
    <2>2. CASE CasesMove
      <3>1. /\ CaseStep /\ UNCHANGED evalVars /\ regime' = regime
            /\ regime # "cases" => ReviewersTakeTurns'
        BY <2>2 DEF CasesMove, mcVars
      <3>2. CasesInv' /\ (TurnInv /\ ReviewersTakeTurns' => TurnInv')
        BY <1>2, <3>1, CaseStepKeeps DEF EvalInv
      <3> QED BY <1>2, <3>1, <3>2, EvalStands
    <2>3. CASE QueueMove \/ TraceMove \/ JournalMove \/ UNCHANGED allVars
      <3>1. UNCHANGED <<evalVars, caseVars>> /\ regime' = regime
        BY <2>3 DEF QueueMove, TraceMove, JournalMove, allVars, mcVars
      <3>2. CasesInv'
        BY <1>2, <3>1, CasesStand DEF EvalInv
      <3> QED BY <1>2, <3>1, <3>2, EvalStands, TurnStands
    <2> QED BY <1>2, <2>1, <2>2, <2>3 DEF MCNext
  <1>3. Inv => CasesHold
    BY DEF EvalInv, CasesInv, TurnInv, CasesHold
  <1> HIDE DEF Inv
  <1>4. Inv /\ [MCNext]_allVars => Inv'
    BY <1>2
  <1> QED BY <1>1, <1>3, <1>4, PTL DEF MCSpec

\* However finalize commands overlap, a receipt seals the one report its drafts lead to; a
\* failed report is filed once where they take turns; and a trace that a research command
\* seals as completed is whole (finalize_agent_eval_v2, _feedback_failed_report,
\* _finish_artifact_trace).
THEOREM ReportsHoldThroughout == MCSpec => []ReportsHold
  <1> DEFINE Inv == EvalInv /\ (regime = "handoff1" => FiledInv) /\ JournalInv
  <1>1. MCInit => Inv
    BY EvalInitHolds, JournalInitHolds DEF MCInit
  <1>2. ASSUME Inv, [MCNext]_allVars PROVE Inv'
    <2>1. CASE HandoffMove
      <3>1. /\ EvalStep /\ UNCHANGED journalVars /\ regime' = regime
            /\ regime = "handoff1" => FinalizersTakeTurns'
        BY <2>1 DEF HandoffMove
      <3>2. EvalInv' /\ (FiledInv /\ FinalizersTakeTurns' => FiledInv')
        BY <1>2, <3>1, EvalStepKeeps
      <3> QED BY <1>2, <3>1, <3>2, JournalStands
    <2>2. CASE CasesMove
      <3>1. CaseStep /\ UNCHANGED <<evalVars, journalVars>> /\ regime' # "handoff1"
        BY <2>2 DEF CasesMove, mcVars
      <3>2. CasesInv'
        BY <1>2, <3>1, CaseStepKeeps DEF EvalInv
      <3> QED BY <1>2, <3>1, <3>2, EvalStands, JournalStands
    <2>3. CASE JournalMove
      <3>1. /\ UNCHANGED <<evalVars, caseVars>> /\ regime' # "handoff1"
            /\ \E w \in Scribes : JournalStep(w)
        BY <2>3 DEF JournalMove, mcVars
      <3>2. CasesInv'
        BY <1>2, <3>1, CasesStand DEF EvalInv
      <3> QED BY <1>2, <3>1, <3>2, EvalStands, JournalStepKeeps
    <2>4. CASE QueueMove \/ TraceMove \/ UNCHANGED allVars
      <3>1. UNCHANGED <<evalVars, caseVars, journalVars>> /\ regime' = regime
        BY <2>4 DEF QueueMove, TraceMove, allVars, mcVars
      <3>2. CasesInv'
        BY <1>2, <3>1, CasesStand DEF EvalInv
      <3>3. FiledInv => FiledInv'
        BY <3>1 DEF FiledInv, FinalizersTakeTurns, evalVars, caseVars, feedback
      <3> QED BY <1>2, <3>1, <3>2, <3>3, EvalStands, JournalStands
    <2> QED BY <1>2, <2>1, <2>2, <2>3, <2>4 DEF MCNext
  <1>3. Inv => ReportsHold
    BY SealedFromInvariant, FiledFromInvariant, WholeFromInvariant DEF ReportsHold
  <1> HIDE DEF Inv
  <1>4. Inv /\ [MCNext]_allVars => Inv'
    BY <1>2
  <1> QED BY <1>1, <1>3, <1>4, PTL DEF MCSpec
=============================================================================
