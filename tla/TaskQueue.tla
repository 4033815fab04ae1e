----------------------------- MODULE TaskQueue -----------------------------
(***************************************************************************)
(* The database-backed queue of committee runs                             *)
(* (backend/app/services/task_queue.py) together with the workflow methods *)
(* that write under its lease (CommitteeWorkflow.execute_prepared).        *)
(*                                                                         *)
(* Every worker process runs PersistentTaskQueue.run_once in a loop, with  *)
(* one heartbeat thread per lease.  A step of the model is one database    *)
(* transaction, or one read outside a transaction; the clock may advance   *)
(* and any other thread may act between two steps of a thread.  A          *)
(* datetime.now() that the code reads before a transaction is a value of   *)
(* its own, possibly older than the clock when the transaction commits.    *)
(***************************************************************************)
EXTENDS Naturals, FiniteSets

CONSTANTS Tasks,              \* task ids; each stands for its run as well
          Workers,            \* worker processes
          Drifted,            \* workers that may be deployed with another execution manifest
          MaxAttempts,        \* max_attempts
          LeaseSeconds,       \* lease_seconds
          TimeoutSeconds,     \* timeout_seconds: deadline of one attempt
          RetryDelay,         \* retry_delay_seconds
          HeartbeatInterval,  \* seconds between two renewals
          MaxClock,           \* bound: the clock stops there
          MaxCrashes          \* bound: process crashes in one behaviour

\* PersistentTaskQueue.__init__ refuses every other configuration.
ASSUME QueueConfiguration ==
    /\ Drifted \subseteq Workers
    /\ 0 \notin Tasks
    /\ MaxAttempts \in Nat /\ MaxAttempts >= 1
    /\ LeaseSeconds \in Nat /\ LeaseSeconds >= 1
    /\ TimeoutSeconds \in Nat /\ TimeoutSeconds >= LeaseSeconds
    /\ RetryDelay \in Nat
    /\ HeartbeatInterval \in Nat /\ HeartbeatInterval >= 1
    /\ MaxClock \in Nat
    /\ MaxCrashes \in Nat

VARIABLES
    task,       \* task[t]: the workflow_tasks row of t
    run,        \* run[t]: status of the workflow_runs row of t
    forecasts,  \* forecasts[t]: token of the attempt whose result is stored
    pc,         \* pc[w]: where the main thread of worker w stands
    lease,      \* lease[w]: the TaskLease it works under
    expected,   \* expected[w]: the run status it has loaded
    now,        \* now[w]: the clock value it acts on, or the earliest one it
                \*   may still read; 0 when it holds none
    refs,       \* refs[w]: rows it has read and not handled yet
    hb,         \* hb[w]: where the heartbeat thread of worker w stands
    hbLease,    \* hbLease[w]: the lease it renews
    hbNow,      \* hbNow[w]: when it last read the clock
    hbVersion,  \* hbVersion[w]: version of the row it has read
    hbRefs,     \* hbRefs[w]: rows to recover
    issued,     \* lease tokens handed out so far (uuid4 never repeats)
    clock,      \* the wall clock, in seconds
    crashes     \* process crashes so far

db == <<task, run, forecasts>>
mainThreads == <<pc, lease, expected, now, refs>>
heartbeats == <<hb, hbLease, hbNow, hbVersion, hbRefs>>
vars == <<task, run, forecasts, pc, lease, expected, now, refs,
          hb, hbLease, hbNow, hbVersion, hbRefs, issued, clock, crashes>>

-----------------------------------------------------------------------------
(* Rows and threads.  NULL columns hold 0; tokens start at 1.              *)

NoToken == 0

TaskStatus == {"absent", "queued", "running", "retry_wait", "completed", "failed"}
RunStatus == {"absent", "queued", "running", "completed", "failed"}

TaskRow == [status : TaskStatus,
            sealed : BOOLEAN,             \* payload still matches payload_hash
            attempt_count : Nat,
            available_at : Nat,
            attempt_started_at : Nat,
            lease_token : Nat,
            lease_expires_at : Nat,
            version : Nat]

AbsentRow == [status |-> "absent", sealed |-> TRUE, attempt_count |-> 0,
              available_at |-> 0, attempt_started_at |-> 0,
              lease_token |-> NoToken, lease_expires_at |-> 0, version |-> 0]

\* A row a thread has read, with the columns its compare-and-swap repeats.
RowRef == [task : Tasks, version : Nat, token : Nat]

\* Where a main thread stands: "idle" between two polls, "recover_claim" and
\* "recover_return" inside recover_expired before a claim and at the end of
\* run_once, the others in the method the name says.
Polling == {"idle", "recover_claim", "claim", "claiming"}
Working == {"verify", "leased", "integrity", "already", "begin", "graph",
            "finalize", "mark_failed", "complete", "fail", "stale",
            "recover_return"}

HeartbeatPC == {"off", "wait", "renew", "scan", "recover"}

\* TaskLease, as far as run_once uses it.
TaskLease == [task : Tasks, token : Nat \ {0}, attempt : Nat \ {0}]
NoLease == [task |-> 0, token |-> NoToken, attempt |-> 0]

TypeOK ==
    /\ task \in [Tasks -> TaskRow]
    /\ run \in [Tasks -> RunStatus]
    /\ forecasts \in [Tasks -> Nat]
    /\ pc \in [Workers -> Polling \cup Working]
    /\ lease \in [Workers -> TaskLease \cup {NoLease}]
    /\ \A w \in Workers : lease[w] = NoLease <=> pc[w] \in Polling
    /\ expected \in [Workers -> RunStatus]
    /\ now \in [Workers -> Nat]
    /\ refs \in [Workers -> SUBSET RowRef]
    /\ hb \in [Workers -> HeartbeatPC]
    /\ hbLease \in [Workers -> TaskLease \cup {NoLease}]
    /\ \A w \in Workers : hbLease[w] = NoLease <=> hb[w] = "off"
    /\ hbNow \in [Workers -> Nat]
    /\ hbVersion \in [Workers -> Nat]
    /\ hbRefs \in [Workers -> SUBSET RowRef]
    /\ issued \in Nat
    /\ clock \in Nat
    /\ crashes \in Nat

Init ==
    /\ task = [t \in Tasks |-> AbsentRow]
    /\ run = [t \in Tasks |-> "absent"]
    /\ forecasts = [t \in Tasks |-> NoToken]
    /\ pc = [w \in Workers |-> "idle"]
    /\ lease = [w \in Workers |-> NoLease]
    /\ expected = [w \in Workers |-> "absent"]
    /\ now = [w \in Workers |-> 0]
    /\ refs = [w \in Workers |-> {}]
    /\ hb = [w \in Workers |-> "off"]
    /\ hbLease = [w \in Workers |-> NoLease]
    /\ hbNow = [w \in Workers |-> 0]
    /\ hbVersion = [w \in Workers |-> 0]
    /\ hbRefs = [w \in Workers |-> {}]
    /\ issued = 0
    /\ clock = 1
    /\ crashes = 0

-----------------------------------------------------------------------------
(* The conditions of the UPDATE statements and what they write.            *)

\* Mutant of Claimable: a failed task is offered again.
ClaimableFailed(row, time) ==
    /\ row.status \in {"queued", "retry_wait", "failed"}
    /\ row.available_at <= time

\* WHERE of claim.
Claimable(row, time) ==
    /\ row.status \in {"queued", "retry_wait"}
    /\ row.available_at <= time
    /\ row.attempt_count < MaxAttempts

\* _attempt_expired
AttemptExpired(row, time) ==
    \/ row.lease_expires_at <= time
    \/ row.attempt_started_at + TimeoutSeconds <= time

\* WHERE of complete, fail and _terminal_fail_in_session.
LeaseLive(row, token, time) ==
    /\ row.status = "running"
    /\ row.lease_token = token
    /\ row.lease_expires_at > time

\* Mutant of FencePasses: any live lease passes, whoever holds it.
FencePassesAnyToken(row, token, time) ==
    /\ row.status = "running"
    /\ row.lease_expires_at > time
    /\ row.attempt_started_at + TimeoutSeconds > time

\* fence_execution: the UPDATE and the deadline check that follows it.
FencePasses(row, token, time) ==
    /\ LeaseLive(row, token, time)
    /\ row.attempt_started_at + TimeoutSeconds > time

\* Mutant of RecoverMatches: the version read is not compared.
RecoverMatchesAnyVersion(ref) ==
    /\ task[ref.task].status = "running"
    /\ task[ref.task].lease_token = ref.token

\* WHERE of recover_expired.
RecoverMatches(ref) ==
    /\ task[ref.task].status = "running"
    /\ task[ref.task].version = ref.version
    /\ task[ref.task].lease_token = ref.token

\* WHERE of renew, with the version of the row read before.
RenewMatches(row, token, version, time) ==
    /\ LeaseLive(row, token, time)
    /\ row.version = version

\* Mutant of RenewedExpiry: without min(..., deadline).
RenewedExpiryUncapped(row, time) == time + LeaseSeconds

\* lease_expires_at that renew writes: never past the attempt's deadline.
RenewedExpiry(row, time) ==
    LET deadline == row.attempt_started_at + TimeoutSeconds
    IN  IF time + LeaseSeconds <= deadline THEN time + LeaseSeconds ELSE deadline

\* Mutant of Leased: the attempt is not counted.
LeasedUncounted(row, token, time) ==
    [row EXCEPT !.status = "running",
                !.attempt_started_at = time,
                !.lease_token = token,
                !.lease_expires_at = time + LeaseSeconds,
                !.version = @ + 1]

\* The values claim writes.
Leased(row, token, time) ==
    [status |-> "running",
     sealed |-> row.sealed,
     attempt_count |-> row.attempt_count + 1,
     available_at |-> row.available_at,
     attempt_started_at |-> time,
     lease_token |-> token,
     lease_expires_at |-> time + LeaseSeconds,
     version |-> row.version + 1]

\* The values renew writes.
Renewed(row, time) ==
    [status |-> row.status,
     sealed |-> row.sealed,
     attempt_count |-> row.attempt_count,
     available_at |-> row.available_at,
     attempt_started_at |-> row.attempt_started_at,
     lease_token |-> row.lease_token,
     lease_expires_at |-> RenewedExpiry(row, time),
     version |-> row.version + 1]

\* The values complete, fail, recover_expired and finalize write.
Released(row, status, available) ==
    [status |-> status,
     sealed |-> row.sealed,
     attempt_count |-> row.attempt_count,
     available_at |-> available,
     attempt_started_at |-> row.attempt_started_at,
     lease_token |-> NoToken,
     lease_expires_at |-> 0,
     version |-> row.version + 1]

\* A failed attempt: retry after the delay, or give up after the last one.
AttemptOver(row, terminal, time) ==
    IF terminal THEN Released(row, "failed", time)
                ELSE Released(row, "retry_wait", time + RetryDelay)

\* Mutant of RunAfterAttempt: writes the task's status into the run.
RunAfterAttemptTaskStatus(status, terminal) ==
    IF status = "completed" THEN status
    ELSE IF terminal THEN "failed" ELSE "retry_wait"

\* _update_run_after_attempt: a completed run keeps its status.
RunAfterAttempt(status, terminal) ==
    IF status = "completed" THEN status
    ELSE IF terminal THEN "failed" ELSE "queued"

\* Rows that recover_expired reads and finds expired at time.
ExpiredRefs(time) ==
    {[task |-> t, version |-> task[t].version, token |-> task[t].lease_token] :
        t \in {u \in Tasks : /\ task[u].status = "running"
                             /\ AttemptExpired(task[u], time)}}

\* Mutant of RecoverRow: the run row is forgotten.
RecoverRowTaskOnly(ref, time) ==
    LET t == ref.task
    IN  IF RecoverMatches(ref)
        THEN /\ task' = [task EXCEPT ![t] =
                           AttemptOver(@, @.attempt_count >= MaxAttempts, time)]
             /\ UNCHANGED <<run, forecasts>>
        ELSE UNCHANGED db

\* Mutant of RecoverRow: off by one at the last attempt.
RecoverRowOneMore(ref, time) ==
    LET t == ref.task
        terminal == task[t].attempt_count > MaxAttempts
    IN  IF RecoverMatches(ref)
        THEN /\ task' = [task EXCEPT ![t] = AttemptOver(@, terminal, time)]
             /\ run' = [run EXCEPT ![t] = RunAfterAttempt(@, terminal)]
             /\ UNCHANGED forecasts
        ELSE UNCHANGED db

\* One iteration of recover_expired for a row read before.
RecoverRow(ref, time) ==
    LET t == ref.task
        terminal == task[t].attempt_count >= MaxAttempts
    IN  IF RecoverMatches(ref)
        THEN /\ task' = [task EXCEPT ![t] = AttemptOver(@, terminal, time)]
             /\ run' = [run EXCEPT ![t] = RunAfterAttempt(@, terminal)]
             /\ UNCHANGED forecasts
        ELSE UNCHANGED db

\* What is left to handle after ref: a rollback makes the session read the
\* remaining rows again, a commit does not.
RefsAfter(ref, rows, time) ==
    IF RecoverMatches(ref)
    THEN rows \ {ref}
    ELSE {r \in ExpiredRefs(time) : r.task \in {q.task : q \in rows \ {ref}}}

-----------------------------------------------------------------------------
(* Submission and the outside world.                                       *)

\* enqueue: run row and task row become durable in one transaction.
Enqueue(t) ==
    /\ task[t].status = "absent"
    /\ task' = [task EXCEPT ![t] = [AbsentRow EXCEPT !.status = "queued",
                                                     !.available_at = clock]]
    /\ run' = [run EXCEPT ![t] = "queued"]
    /\ UNCHANGED <<forecasts, mainThreads, heartbeats, issued, clock, crashes>>

\* The stored payload is damaged after it was sealed.
CorruptPayload(t) ==
    /\ task[t].status \in {"queued", "retry_wait"}
    /\ task[t].sealed
    /\ task' = [task EXCEPT ![t].sealed = FALSE]
    /\ UNCHANGED <<run, forecasts, mainThreads, heartbeats, issued, clock, crashes>>

Tick ==
    /\ clock < MaxClock
    /\ clock' = clock + 1
    /\ UNCHANGED <<db, mainThreads, heartbeats, issued, crashes>>

-----------------------------------------------------------------------------
(* Moves of a main thread.                                                 *)

\* Where the next step begins with datetime.now(): any clock value from the
\* moment the thread arrives may be the one it reads.
ReadsClock == {"integrity", "already", "begin", "finalize", "mark_failed",
               "complete", "fail"}

ClockReadings(w) == {time \in 0..clock : now[w] <= time}

\* Thread w goes on at next.
Goto(w, next) ==
    /\ pc' = [pc EXCEPT ![w] = next]
    /\ now' = [now EXCEPT ![w] = IF next \in ReadsClock THEN clock ELSE 0]
    /\ refs' = [refs EXCEPT ![w] = {}]
    /\ expected' = [expected EXCEPT ![w] = "absent"]
    /\ UNCHANGED lease

\* Thread w goes on at next with rows it has read at the given time, without
\* a lease.
GotoRows(w, next, rows, time) ==
    /\ pc' = [pc EXCEPT ![w] = next]
    /\ now' = [now EXCEPT ![w] = IF rows = {} THEN 0 ELSE time]
    /\ refs' = [refs EXCEPT ![w] = rows]
    /\ expected' = [expected EXCEPT ![w] = "absent"]
    /\ lease' = [lease EXCEPT ![w] = NoLease]

\* run_once returns; run_forever calls it again.
Finish(w) == GotoRows(w, "idle", {}, 0)

StopHeartbeat(w) ==
    /\ hb' = [hb EXCEPT ![w] = "off"]
    /\ hbLease' = [hbLease EXCEPT ![w] = NoLease]
    /\ hbNow' = [hbNow EXCEPT ![w] = 0]
    /\ hbVersion' = [hbVersion EXCEPT ![w] = 0]
    /\ hbRefs' = [hbRefs EXCEPT ![w] = {}]

\* A worker process dies, its heartbeat with it; a new one polls again.
Crash(w) ==
    /\ pc[w] # "idle"
    /\ crashes < MaxCrashes
    /\ crashes' = crashes + 1
    /\ Finish(w)
    /\ StopHeartbeat(w)
    /\ UNCHANGED <<db, issued, clock>>

-----------------------------------------------------------------------------
(* claim                                                                   *)

\* The clock value kept with rows just read; none is kept without rows.
ReadAt(rows) == IF rows = {} THEN 0 ELSE clock

\* recover_expired, first half: read the clock and the running rows.
RecoverScan(w, from, next) ==
    /\ pc[w] = from
    /\ pc' = [pc EXCEPT ![w] = next]
    /\ refs' = [refs EXCEPT ![w] = ExpiredRefs(clock)]
    /\ now' = [now EXCEPT ![w] = ReadAt(ExpiredRefs(clock))]
    /\ UNCHANGED <<db, lease, expected, heartbeats, issued, clock, crashes>>

\* recover_expired, loop body: one compare-and-swap.
RecoverOne(w) ==
    /\ pc[w] \in {"recover_claim", "recover_return"}
    /\ \E ref \in refs[w] :
          /\ RecoverRow(ref, now[w])
          /\ refs' = [refs EXCEPT ![w] = RefsAfter(ref, @, now[w])]
    /\ UNCHANGED <<pc, lease, expected, now, heartbeats, issued, clock, crashes>>

\* recover_expired has no row left.
RecoverDone(w) ==
    /\ refs[w] = {}
    /\ \/ pc[w] = "recover_claim" /\ Goto(w, "claim")
       \/ pc[w] = "recover_return" /\ Finish(w)
    /\ UNCHANGED <<db, heartbeats, issued, clock, crashes>>

\* claim: read the clock and the candidates.
ClaimScan(w) ==
    /\ pc[w] = "claim"
    /\ LET rows == {[task |-> t, version |-> task[t].version, token |-> NoToken] :
                       t \in {u \in Tasks : Claimable(task[u], clock)}}
       IN  GotoRows(w, IF rows = {} THEN "idle" ELSE "claiming", rows, clock)
    /\ UNCHANGED <<db, heartbeats, issued, clock, crashes>>

\* claim, loop body: the compare-and-swap that takes a candidate.  Losing it
\* moves on to the next candidate, or ends the poll after the last one.
ClaimOne(w) ==
    /\ pc[w] = "claiming"
    /\ \E ref \in refs[w] :
          LET t == ref.task
              rest == refs[w] \ {ref}
          IN  IF Claimable(task[t], now[w]) /\ task[t].version = ref.version
              THEN /\ issued' = issued + 1
                   /\ task' = [task EXCEPT ![t] = Leased(@, issued + 1, now[w])]
                   /\ pc' = [pc EXCEPT ![w] = "verify"]
                   /\ lease' = [lease EXCEPT ![w] =
                                  [task |-> t, token |-> issued + 1,
                                   attempt |-> task[t].attempt_count + 1]]
                   /\ refs' = [refs EXCEPT ![w] = rest]
                   /\ UNCHANGED <<expected, now>>
              ELSE /\ GotoRows(w, IF rest = {} THEN "idle" ELSE "claiming",
                               rest, now[w])
                   /\ UNCHANGED <<task, issued>>
    /\ UNCHANGED <<run, forecasts, heartbeats, clock, crashes>>

\* _terminal_fail_in_session
TerminalFail(t, time) ==
    /\ task' = [task EXCEPT ![t] = Released(@, "failed", time)]
    /\ run' = [run EXCEPT ![t] = RunAfterAttempt(@, TRUE)]
    /\ UNCHANGED forecasts

\* claim, after its commit: verify the payload's seal.  A damaged payload
\* fails the task for good and the loop goes on with the next candidate.
VerifyPayload(w) ==
    LET t == lease[w].task
    IN  /\ pc[w] = "verify"
        /\ IF task[t].sealed
           THEN Goto(w, "leased") /\ UNCHANGED db
           ELSE /\ GotoRows(w, IF refs[w] = {} THEN "idle" ELSE "claiming",
                            refs[w], now[w])
                /\ IF LeaseLive(task[t], lease[w].token, now[w])
                   THEN TerminalFail(t, now[w])
                   ELSE UNCHANGED db
        /\ UNCHANGED <<heartbeats, issued, clock, crashes>>

-----------------------------------------------------------------------------
(* run_once, from the claimed lease to its result                          *)

\* Load the run and compare the payload and the execution manifest with it.  The
\* manifest of a worker in Drifted may match or not, as it is deployed at the time.
\* The heartbeat starts with the execution.
LoadRun(w) ==
    /\ pc[w] = "leased"
    /\ \/ /\ run[lease[w].task] = "completed" \/ w \in Drifted
          /\ Goto(w, IF run[lease[w].task] = "completed" THEN "already"
                     ELSE "integrity")
          /\ UNCHANGED heartbeats
       \/ /\ run[lease[w].task] # "completed"
          /\ pc' = [pc EXCEPT ![w] = "begin"]
          /\ expected' = [expected EXCEPT ![w] = run[lease[w].task]]
          /\ now' = [now EXCEPT ![w] = clock]
          /\ hb' = [hb EXCEPT ![w] = "wait"]
          /\ hbLease' = [hbLease EXCEPT ![w] = lease[w]]
          /\ hbNow' = [hbNow EXCEPT ![w] = clock]
          /\ hbVersion' = [hbVersion EXCEPT ![w] = 0]
          /\ hbRefs' = [hbRefs EXCEPT ![w] = {}]
          /\ UNCHANGED <<lease, refs>>
    /\ UNCHANGED <<db, issued, clock, crashes>>

\* fail_terminal: an integrity error is never retried.
FailTerminal(w) ==
    LET t == lease[w].task
    IN  /\ pc[w] = "integrity"
        /\ \E time \in ClockReadings(w) :
              IF LeaseLive(task[t], lease[w].token, time)
              THEN TerminalFail(t, time) /\ Finish(w)
              ELSE Goto(w, "stale") /\ UNCHANGED db
        /\ UNCHANGED <<heartbeats, issued, clock, crashes>>

\* The attempt of w is the last one.
LastAttempt(w) == lease[w].attempt >= MaxAttempts

\* _failure_values: the run status after a failed attempt.
FailureStatus(w) == IF LastAttempt(w) THEN "failed" ELSE "queued"

\* execute_prepared, first transaction: fence the lease, compare the run with
\* what was loaded, check the seals of the frozen input, take the run.  valid
\* says whether the seals match; if they do not the run is marked failed.
BeginExecution(w) ==
    LET t == lease[w].task
    IN  /\ pc[w] = "begin"
        /\ \E time \in ClockReadings(w), valid \in BOOLEAN :
              IF expected[w] \notin {"queued", "running"}
              THEN Goto(w, "fail") /\ UNCHANGED db
              ELSE IF ~ FencePasses(task[t], lease[w].token, time)
              THEN Goto(w, "stale") /\ UNCHANGED db
              ELSE IF run[t] # expected[w]
              THEN Goto(w, "fail") /\ UNCHANGED db
              ELSE /\ run' = [run EXCEPT ![t] = IF valid THEN "running"
                                               ELSE FailureStatus(w)]
                   /\ Goto(w, IF valid THEN "graph" ELSE "fail")
                   /\ UNCHANGED <<task, forecasts>>
        /\ UNCHANGED <<heartbeats, issued, clock, crashes>>

\* graph.invoke returns a result or raises; it writes no business table.
GraphReturns(w) ==
    /\ pc[w] = "graph"
    /\ Goto(w, "finalize") \/ Goto(w, "mark_failed")
    /\ UNCHANGED <<db, heartbeats, issued, clock, crashes>>

\* execute_prepared, last transaction: complete the task, store the forecasts
\* and complete the run, all under the fence.  stored says whether the checks
\* and inserts after the fence succeed; if not everything is rolled back.
FinalizeResult(w) ==
    LET t == lease[w].task
    IN  /\ pc[w] = "finalize"
        /\ \E time \in ClockReadings(w), stored \in BOOLEAN :
              IF ~ FencePasses(task[t], lease[w].token, time)
              THEN Goto(w, "stale") /\ UNCHANGED db
              ELSE IF run[t] # "running" \/ ~ stored \/ forecasts[t] # NoToken
              THEN Goto(w, "mark_failed") /\ UNCHANGED db
              ELSE /\ task' = [task EXCEPT ![t] =
                                 Released(@, "completed", task[t].available_at)]
                   /\ forecasts' = [forecasts EXCEPT ![t] = lease[w].token]
                   /\ run' = [run EXCEPT ![t] = "completed"]
                   /\ Goto(w, "complete")
        /\ UNCHANGED <<heartbeats, issued, clock, crashes>>

\* execute_prepared, error path: mark the run under the fence.  The task row
\* is left to fail.
MarkFailed(w) ==
    LET t == lease[w].task
    IN  /\ pc[w] = "mark_failed"
        /\ \E time \in ClockReadings(w) :
              IF ~ FencePasses(task[t], lease[w].token, time)
              THEN Goto(w, "stale") /\ UNCHANGED db
              ELSE /\ run' = [run EXCEPT ![t] = IF @ = "running" THEN FailureStatus(w)
                                               ELSE @]
                   /\ Goto(w, "fail")
                   /\ UNCHANGED <<task, forecasts>>
        /\ UNCHANGED <<heartbeats, issued, clock, crashes>>

\* complete: nothing left to do when the result's transaction completed the
\* task; otherwise complete it under the lease.  A refusal is a stale lease,
\* except after "already", where run_once ignores it.
CompleteTask(w) ==
    LET t == lease[w].task
    IN  /\ pc[w] \in {"complete", "already"}
        /\ \E time \in ClockReadings(w) :
              IF run[t] # "completed"
              THEN Goto(w, "fail") /\ UNCHANGED db
              ELSE IF task[t].status # "completed" /\ LeaseLive(task[t], lease[w].token, time)
              THEN /\ task' = [task EXCEPT ![t] =
                                 Released(@, "completed", task[t].available_at)]
                   /\ Finish(w)
                   /\ UNCHANGED <<run, forecasts>>
              ELSE /\ IF task[t].status = "completed" \/ pc[w] = "already"
                      THEN Finish(w) ELSE Goto(w, "stale")
                   /\ UNCHANGED db
        /\ UNCHANGED <<heartbeats, issued, clock, crashes>>

\* fail: give the attempt back, or fail task and run after the last attempt.
FailAttempt(w) ==
    LET t == lease[w].task
    IN  /\ pc[w] = "fail"
        /\ \E time \in ClockReadings(w) :
              IF LeaseLive(task[t], lease[w].token, time)
              THEN /\ task' = [task EXCEPT ![t] = AttemptOver(@, LastAttempt(w), time)]
                   /\ run' = [run EXCEPT ![t] = RunAfterAttempt(@, LastAttempt(w))]
                   /\ UNCHANGED forecasts
                   /\ Finish(w)
              ELSE Goto(w, "stale") /\ UNCHANGED db
        /\ UNCHANGED <<heartbeats, issued, clock, crashes>>

-----------------------------------------------------------------------------
(* _LeaseHeartbeat.  The thread of a lease runs while its main thread is   *)
(* inside execute_prepared; a renewal under way may end a little later.    *)

Beating(w) ==
    /\ lease[w] = hbLease[w]
    /\ pc[w] \in {"begin", "graph", "finalize", "mark_failed"}

\* renew, first half: the interval is over; read the clock and the row.
RenewRead(w) ==
    LET row == task[hbLease[w].task]
        renewable == /\ row.status = "running"
                     /\ row.lease_token = hbLease[w].token
                     /\ clock < row.attempt_started_at + TimeoutSeconds
    IN  /\ hb[w] = "wait"
        /\ Beating(w)
        /\ clock >= hbNow[w] + HeartbeatInterval
        /\ hb' = [hb EXCEPT ![w] = IF renewable THEN "renew" ELSE "scan"]
        /\ hbNow' = [hbNow EXCEPT ![w] = IF renewable THEN clock ELSE 0]
        /\ hbVersion' = [hbVersion EXCEPT ![w] = IF renewable THEN row.version ELSE 0]
        /\ UNCHANGED <<db, mainThreads, hbLease, hbRefs, issued, clock, crashes>>

\* renew, second half: extend the lease if the row is the one that was read.
RenewWrite(w) ==
    LET t == hbLease[w].task
        renewed == RenewMatches(task[t], hbLease[w].token, hbVersion[w], hbNow[w])
    IN  /\ hb[w] = "renew"
        /\ task' = IF renewed THEN [task EXCEPT ![t] = Renewed(@, hbNow[w])] ELSE task
        /\ hb' = [hb EXCEPT ![w] = IF renewed THEN "wait" ELSE "scan"]
        /\ hbNow' = [hbNow EXCEPT ![w] = IF renewed THEN @ ELSE 0]
        /\ hbVersion' = [hbVersion EXCEPT ![w] = 0]
        /\ UNCHANGED <<run, forecasts, mainThreads, hbLease, hbRefs, issued, clock,
                       crashes>>

\* A refused renewal calls recover_expired before the thread ends.
HeartbeatScan(w) ==
    /\ hb[w] = "scan"
    /\ hb' = [hb EXCEPT ![w] = "recover"]
    /\ hbNow' = [hbNow EXCEPT ![w] = ReadAt(ExpiredRefs(clock))]
    /\ hbRefs' = [hbRefs EXCEPT ![w] = ExpiredRefs(clock)]
    /\ UNCHANGED <<db, mainThreads, hbLease, hbVersion, issued, clock, crashes>>

HeartbeatRecover(w) ==
    /\ hb[w] = "recover"
    /\ \E ref \in hbRefs[w] :
          /\ RecoverRow(ref, hbNow[w])
          /\ hbRefs' = [hbRefs EXCEPT ![w] = RefsAfter(ref, @, hbNow[w])]
    /\ UNCHANGED <<mainThreads, hb, hbLease, hbNow, hbVersion, issued, clock, crashes>>

\* The thread ends: told to stop, or after its recovery.
HeartbeatEnd(w) ==
    /\ \/ hb[w] = "wait" /\ ~ Beating(w)
       \/ hb[w] = "recover" /\ hbRefs[w] = {}
    /\ StopHeartbeat(w)
    /\ UNCHANGED <<db, mainThreads, issued, clock, crashes>>

-----------------------------------------------------------------------------

MainStep(w) ==
    \/ RecoverScan(w, "idle", "recover_claim")
    \/ RecoverScan(w, "stale", "recover_return")
    \/ RecoverOne(w)
    \/ RecoverDone(w)
    \/ ClaimScan(w)
    \/ ClaimOne(w)
    \/ VerifyPayload(w)
    \/ LoadRun(w)
    \/ FailTerminal(w)
    \/ BeginExecution(w)
    \/ GraphReturns(w)
    \/ FinalizeResult(w)
    \/ MarkFailed(w)
    \/ CompleteTask(w)
    \/ FailAttempt(w)

HeartbeatStep(w) ==
    \/ RenewRead(w)
    \/ RenewWrite(w)
    \/ HeartbeatScan(w)
    \/ HeartbeatRecover(w)
    \/ HeartbeatEnd(w)

Next ==
    \/ \E t \in Tasks : Enqueue(t) \/ CorruptPayload(t)
    \/ \E w \in Workers : MainStep(w) \/ HeartbeatStep(w) \/ Crash(w)
    \/ Tick

Spec == Init /\ [][Next]_vars

-----------------------------------------------------------------------------
(* Properties                                                              *)

Open == {"queued", "retry_wait"}

\* The two tables tell one story, although a run row is written by five
\* transactions of three methods (_update_run_after_attempt, both halves of
\* execute_prepared): a waiting task has a queued run, only a leased task has
\* a running one, and the task is completed exactly when the run is and its
\* forecasts are stored.
RunTaskAgree ==
    \A t \in Tasks :
        /\ task[t].status = "absent" <=> run[t] = "absent"
        /\ task[t].status \in Open => run[t] = "queued"
        /\ run[t] = "running" => task[t].status = "running"
        /\ task[t].status = "completed" <=> run[t] = "completed"
        /\ run[t] = "completed" <=> forecasts[t] # NoToken
        /\ task[t].status = "failed" => run[t] = "failed"

\* A live lease is never taken away: while the clock has reached neither the
\* lease's end nor the attempt's deadline, the token changes only by a step
\* of the worker that holds it.  (recover_expired acts on rows read earlier,
\* which renew may have extended since.)
HeldBy(w, t) == lease[w].task = t /\ lease[w].token = task[t].lease_token

LiveLeaseNotTaken ==
    [][\A t \in Tasks :
          (/\ task[t].status = "running"
           /\ ~ AttemptExpired(task[t], clock)
           /\ task'[t].lease_token # task[t].lease_token)
          => \E w \in Workers : HeldBy(w, t) /\ pc'[w] # pc[w]]_vars

\* Results are published under a fence: forecasts appear in one step, from
\* none, by the worker whose token is the row's token at that moment, and
\* that step completes the task.  A worker that lost its lease never does it.
PublishedByHolder ==
    [][\A t \in Tasks :
          forecasts'[t] # forecasts[t]
          => /\ forecasts[t] = NoToken
             /\ forecasts'[t] = task[t].lease_token
             /\ task[t].status = "running"
             /\ task'[t].status = "completed"]_vars

\* However often the heartbeat renews, a lease ends at the attempt's deadline:
\* a worker that hangs with a beating heartbeat loses its task in the end.
LeaseWithinDeadline ==
    \A t \in Tasks :
        task[t].status = "running"
        => task[t].lease_expires_at <= task[t].attempt_started_at + TimeoutSeconds

\* Two threads never work on the same attempt: among the workers past a claim
\* the tokens are distinct, and the one whose token the row still carries runs
\* the attempt the row counts.
AttemptsDisjoint ==
    \A v, w \in Workers :
        /\ (v # w /\ lease[v] # NoLease) => lease[v].token # lease[w].token
        /\ lease[w] # NoLease =>
              /\ lease[w].attempt <= task[lease[w].task].attempt_count
              /\ lease[w].token = task[lease[w].task].lease_token =>
                    lease[w].attempt = task[lease[w].task].attempt_count

\* What the documentation of the queue says (docs/persistent-task-queue.md):
\* an expired lease publishes nothing.  No run checks it: the fence compares the lease
\* with a time read earlier, so TLC refutes it; what does hold is PublishedByHolder.
NoPublishAfterExpiry ==
    [][\A t \in Tasks :
          forecasts'[t] # forecasts[t] => ~ AttemptExpired(task[t], clock)]_vars

\* Where a run stands and how often it was tried, as a reader of the tables
\* sees it.
Phase ==
    [t \in Tasks |-> IF forecasts[t] # NoToken THEN "published"
                     ELSE IF task[t].status = "failed" THEN "abandoned"
                     ELSE IF task[t].status = "absent" THEN "absent"
                     ELSE "open"]
Tries == [t \in Tasks |-> task[t].attempt_count]

Ledger == INSTANCE RunLedger WITH Runs <- Tasks, phase <- Phase, tries <- Tries

\* The queue implements the ledger: a run is tried at most MaxAttempts times
\* and is published once or abandoned for good.
ImplementsLedger == Ledger!LedgerSpec

-----------------------------------------------------------------------------
(* What makes the properties above inductive (see TaskQueueProofs).        *)

\* A row carries a token exactly while it is leased, no token is from the
\* future, and the number of attempts starts at zero.
LeaseShape ==
    /\ \A t \in Tasks :
          /\ task[t].status = "running" <=> task[t].lease_token # NoToken
          /\ task[t].lease_token <= issued
          /\ task[t].status = "absent" => task[t].attempt_count = 0
                                         /\ task[t].version = 0
          /\ task[t].status = "running" => task[t].attempt_count > 0
    /\ \A w \in Workers : lease[w].token <= issued

\* A row that a recovering thread has read is either still as it was read,
\* and then expired, or it has another version by now.
RefFresh(ref, row, time) ==
    /\ ref.version <= row.version
    /\ (ref.version = row.version /\ row.status = "running") => AttemptExpired(row, time)

RecoverRefsFresh ==
    \A w \in Workers :
        /\ pc[w] \in {"recover_claim", "recover_return"} =>
              /\ now[w] <= clock
              /\ \A ref \in refs[w] : RefFresh(ref, task[ref.task], now[w])
        /\ hb[w] = "recover" =>
              /\ hbNow[w] <= clock
              /\ \A ref \in hbRefs[w] : RefFresh(ref, task[ref.task], hbNow[w])

IndInv ==
    /\ TypeOK
    /\ LeaseShape
    /\ RunTaskAgree
    /\ AttemptsDisjoint
    /\ LeaseWithinDeadline
    /\ RecoverRefsFresh
=============================================================================
