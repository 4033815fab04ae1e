----------------------------- MODULE EvalQueue -----------------------------
(***************************************************************************)
(* The queue of Agent Eval v1 experiments                                  *)
(* (backend/app/services/agent_evaluation.py): an experiment with one task *)
(* and workers that sweep expired leases, claim the task, evaluate a suite *)
(* in memory and persist one result row per evaluator.  A session reads    *)
(* the task row, then the experiment row, each in a SELECT of its own, and *)
(* commits blind UPDATEs of the columns it has changed: the rows' version  *)
(* column is counted and never compared.  Sessions interleave freely.      *)
(***************************************************************************)
EXTENDS Naturals

CONSTANTS Workers,         \* worker processes
          MaxEvalAttempts  \* max_attempts of a task

ASSUME EvalQueueConfiguration == MaxEvalAttempts \in Nat \ {0} /\ 0 \notin Workers

VARIABLES
    task,      \* agent_eval_tasks: status, attempt_count, holder of the lease token
    expired,   \* the lease's expiry time has passed
    exp,       \* agent_eval_experiments.status, "none" before the request
    results,   \* agent_eval_results of the experiment exist
    detected,  \* their failures are filed as bad cases
    wk,        \* wk[w]: the worker's position and the two rows its session has loaded
    torn       \* history: a session committed over rows changed since it loaded them

queueVars == <<task, expired, exp, results, detected, wk, torn>>

EvalStatus == {"none", "queued", "running", "retry_wait", "completed", "failed"}
ExpStatus == EvalStatus \ {"retry_wait"}
EvalTask == [status : EvalStatus, attempts : Nat, token : Workers \cup {0}]

\* "x" at "xExp" is a session that has loaded the task and not yet the experiment.
WorkerStep == {"idle", "sweepExp", "sweep", "next", "claimExp", "claim", "evaluate",
               "finishExp", "finish", "fail", "undoExp", "undo", "detect"}
Worker == [step : WorkerStep, seen : EvalTask, exp : ExpStatus]

QueueTypeOK ==
    /\ task \in EvalTask /\ expired \in BOOLEAN /\ exp \in ExpStatus
    /\ results \in BOOLEAN /\ detected \in BOOLEAN /\ torn \in BOOLEAN
    /\ wk \in [Workers -> Worker]

NoTask == [status |-> "none", attempts |-> 0, token |-> 0]

\* A worker outside a session, at a step: its identity map is empty.
Outside(step) == [step |-> step, seen |-> NoTask, exp |-> "none"]

QueueInit ==
    /\ task = NoTask /\ expired = FALSE /\ exp = "none"
    /\ results = FALSE /\ detected = FALSE /\ torn = FALSE
    /\ wk = [w \in Workers |-> Outside("idle")]

Move(w, to) == wk' = [wk EXCEPT ![w] = to]

\* The session of worker w loads the task row.
Reading(step) == [step |-> step, seen |-> task, exp |-> "none"]

\* enqueue_experiment: experiment and task in one commit; a replayed key returns them.
EnqueueExperiment ==
    /\ exp = "none"
    /\ exp' = "queued" /\ task' = [NoTask EXCEPT !.status = "queued"]
    /\ UNCHANGED <<expired, results, detected, wk, torn>>

\* Ten minutes pass under a claimed task.
ExpireLease ==
    /\ task.token # 0 /\ ~expired
    /\ expired' = TRUE
    /\ UNCHANGED <<task, exp, results, detected, wk, torn>>

\* session.get of the experiment, a statement after the task's.
LoadedNext == [sweepExp |-> "sweep", claimExp |-> "claim", finishExp |-> "finish",
               undoExp |-> "undo"]
LoadExperiment(w) ==
    /\ wk[w].step \in DOMAIN LoadedNext
    /\ Move(w, [step |-> LoadedNext[wk[w].step], seen |-> wk[w].seen, exp |-> exp])
    /\ UNCHANGED <<task, expired, exp, results, detected, torn>>

\* The UPDATE of a commit writes a column only if its value differs from the loaded one.
Flush(loaded, new, stored) == IF new = loaded THEN stored ELSE new

\* A commit of worker w over rows that are no longer the ones it loaded.
Tears(w) == torn' = (torn \/ wk[w].seen # task \/ wk[w].exp # exp)

-----------------------------------------------------------------------------
(* run_next_eval_task: sweep and claim.                                    *)

SweepRead(w) ==
    /\ wk[w].step = "idle" /\ exp # "none"
    /\ Move(w, IF task.status = "running" /\ expired THEN Reading("sweepExp") ELSE Outside("next"))
    /\ UNCHANGED <<task, expired, exp, results, detected, torn>>

\* A row as an unfinished attempt leaves it: another try, or the end.
Release(t, last) ==
    [t EXCEPT !.status = IF last THEN "failed" ELSE "retry_wait", !.token = 0]

LastAttemptNever(t) == FALSE

\* attempt_count has reached max_attempts.
LastAttempt(t) == t.attempts >= MaxEvalAttempts

Reopened(t) == IF LastAttempt(t) THEN "failed" ELSE "queued"

\* The identity map keeps the rows as the session wrote them (expire_on_commit is off).
SweepCommit(w) ==
    /\ wk[w].step = "sweep"
    /\ task' = Release(task, LastAttempt(wk[w].seen))
    /\ exp' = Flush(wk[w].exp, Reopened(wk[w].seen), exp)
    /\ expired' = FALSE /\ Tears(w)
    /\ Move(w, [step |-> "next", seen |-> Release(wk[w].seen, LastAttempt(wk[w].seen)),
                exp |-> Reopened(wk[w].seen)])
    /\ UNCHANGED <<results, detected>>

\* The filter reads the stored status; a row already in the identity map stays as it is.
ClaimRead(w) ==
    /\ wk[w].step = "next"
    /\ Move(w, CASE task.status \notin {"queued", "retry_wait"} -> Outside("idle")
                 [] task.status \in {"queued", "retry_wait"} /\ wk[w].seen = NoTask
                      -> Reading("claimExp")
                 [] OTHER -> [wk[w] EXCEPT !.step = "claim"])
    /\ UNCHANGED <<task, expired, exp, results, detected, torn>>

\* A new lease token; attempt_count is the one loaded plus one.
ClaimCommit(w) ==
    /\ wk[w].step = "claim"
    /\ task' = [status |-> "running", attempts |-> wk[w].seen.attempts + 1, token |-> w]
    /\ exp' = Flush(wk[w].exp, "running", exp)
    /\ expired' = FALSE /\ Tears(w)
    /\ Move(w, Outside("evaluate"))
    /\ UNCHANGED <<results, detected>>

-----------------------------------------------------------------------------
(* run_next_eval_task: evaluate, persist, fail.                            *)

LeaseHeldAlways(w) == TRUE

\* The task still carries this attempt's lease token.
LeaseHeld(w) == task.token = w

\* The suite is evaluated in memory and the rows are loaded again; a suite that
\* changed, or a lost lease, fails the attempt.
EvaluateSuite(w) ==
    /\ wk[w].step = "evaluate"
    /\ \/ Move(w, IF LeaseHeld(w) THEN Reading("finishExp") ELSE Outside("fail"))
       \/ Move(w, Outside("fail"))
    /\ UNCHANGED <<task, expired, exp, results, detected, torn>>

\* Results, experiment and task in one commit; result rows are unique.
FinishCommit(w) ==
    /\ wk[w].step = "finish"
    /\ IF results
       THEN Move(w, Outside("fail")) /\ UNCHANGED <<task, expired, exp, results, torn>>
       ELSE /\ results' = TRUE /\ exp' = Flush(wk[w].exp, "completed", exp)
            /\ task' = [task EXCEPT !.status = "completed", !.token = 0]
            /\ expired' = FALSE /\ Tears(w)
            /\ Move(w, Outside("detect"))
    /\ UNCHANGED detected

\* _detect_eval_bad_cases, a commit of its own, which may fail.
DetectBadCases(w) ==
    /\ wk[w].step = "detect"
    /\ \/ detected' = TRUE /\ Move(w, Outside("idle"))
       \/ detected' = detected /\ Move(w, Outside("fail"))
    /\ UNCHANGED <<task, expired, exp, results, torn>>

\* _fail_eval_task leaves alone a task that it reads as another attempt's.
FailRead(w) ==
    /\ wk[w].step = "fail"
    /\ Move(w, IF LeaseHeld(w) THEN Reading("undoExp") ELSE Outside("idle"))
    /\ UNCHANGED <<task, expired, exp, results, detected, torn>>

FailCommit(w) ==
    /\ wk[w].step = "undo"
    /\ task' = Release(task, LastAttempt(wk[w].seen))
    /\ exp' = Flush(wk[w].exp, Reopened(wk[w].seen), exp)
    /\ expired' = FALSE /\ Tears(w)
    /\ Move(w, Outside("idle"))
    /\ UNCHANGED <<results, detected>>

KillWorker(w) ==
    /\ wk[w].step # "idle"
    /\ Move(w, Outside("idle"))
    /\ UNCHANGED <<task, expired, exp, results, detected, torn>>

WorkerMoves(w) ==
    \/ SweepRead(w) \/ SweepCommit(w) \/ ClaimRead(w) \/ ClaimCommit(w) \/ LoadExperiment(w)
    \/ EvaluateSuite(w) \/ FinishCommit(w) \/ DetectBadCases(w)
    \/ FailRead(w) \/ FailCommit(w) \/ KillWorker(w)

QueueStep == EnqueueExperiment \/ ExpireLease \/ \E w \in Workers : WorkerMoves(w)

QueueSpec == QueueInit /\ [][QueueStep]_queueVars

-----------------------------------------------------------------------------
(* What is promised.                                                       *)

\* As long as every commit found the rows its session had loaded: results are there
\* exactly when the experiment is completed, the two rows tell one story and no more than
\* max_attempts are made, so a swept worker that comes back neither finishes nor fails
\* somebody else's attempt (run_next_eval_task, _fail_eval_task).
RowsAgree ==
    /\ results <=> exp = "completed"
    /\ exp = IF task.status = "retry_wait" THEN "queued" ELSE task.status
    /\ task.attempts <= MaxEvalAttempts

\* And however sessions interleave: a lease is held exactly while the task runs, a
\* completed task has a completed experiment, and a completed experiment its results.
ExperimentFollowsTask ==
    /\ ~torn => RowsAgree
    /\ task.token # 0 <=> task.status = "running"
    /\ task.status = "completed" => exp = "completed"
    /\ exp = "completed" => results
=============================================================================
