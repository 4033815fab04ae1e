-------------------------- MODULE TaskQueueProofs --------------------------
(***************************************************************************)
(* Proofs about TaskQueue, for every number of tasks, workers, attempts    *)
(* and seconds.                                                            *)
(***************************************************************************)
EXTENDS TaskQueue, TLAPS

-----------------------------------------------------------------------------
(* The operators that build rows and references.                           *)

\* What claim, a renewal and a release write is a row again.
LEMMA RowTypes ==
    ASSUME NEW row \in TaskRow, NEW time \in Nat
    PROVE  /\ \A token \in Nat : Leased(row, token, time) \in TaskRow
           /\ \A status \in TaskStatus : Released(row, status, time) \in TaskRow
           /\ \A status \in TaskStatus : Released(row, status, row.available_at) \in TaskRow
           /\ \A terminal \in BOOLEAN : AttemptOver(row, terminal, time) \in TaskRow
           /\ Renewed(row, time) \in TaskRow
  <1>0. LeaseSeconds \in Nat /\ TimeoutSeconds \in Nat /\ RetryDelay \in Nat
    BY QueueConfiguration DEF QueueConfiguration
  <1>1. \A token \in Nat : Leased(row, token, time) \in TaskRow
    BY <1>0 DEF Leased, TaskRow, TaskStatus
  <1>2. \A status \in TaskStatus, a \in Nat : Released(row, status, a) \in TaskRow
    BY DEF Released, NoToken, TaskRow
  <1>3. \A terminal \in BOOLEAN : AttemptOver(row, terminal, time) \in TaskRow
    <2>1. time + RetryDelay \in Nat /\ "failed" \in TaskStatus /\ "retry_wait" \in TaskStatus
      BY <1>0 DEF TaskStatus
    <2> QED BY <1>2, <2>1 DEF AttemptOver
  <1>4. RenewedExpiry(row, time) \in Nat
    BY <1>0 DEF RenewedExpiry, TaskRow
  <1>5. Renewed(row, time) \in TaskRow
    BY <1>4 DEF Renewed, TaskRow
  <1>6. row.available_at \in Nat
    BY DEF TaskRow
  <1> QED BY <1>1, <1>2, <1>3, <1>5, <1>6

\* The run status written after an attempt is a run status.
LEMMA RunTypes ==
    ASSUME NEW status \in RunStatus, NEW terminal \in BOOLEAN
    PROVE  RunAfterAttempt(status, terminal) \in RunStatus
  BY DEF RunAfterAttempt, RunStatus

\* Rows read by a scan are references to tasks.
LEMMA RefTypes ==
    ASSUME TypeOK, NEW time \in Nat
    PROVE  /\ ExpiredRefs(time) \in SUBSET RowRef
           /\ \A rows \in SUBSET RowRef : \A ref \in rows :
                 RefsAfter(ref, rows, time) \in SUBSET RowRef
  <1>1. ExpiredRefs(time) \in SUBSET RowRef
    BY DEF ExpiredRefs, RowRef, TypeOK, TaskRow
  <1>2. QED BY <1>1 DEF RefsAfter

\* One iteration of recover_expired keeps the tables typed.
LEMMA RecoverRowTypes ==
    ASSUME TypeOK, NEW ref \in RowRef, NEW time \in Nat, RecoverRow(ref, time)
    PROVE  /\ task' \in [Tasks -> TaskRow]
           /\ run' \in [Tasks -> RunStatus]
           /\ forecasts' \in [Tasks -> Nat]
  <1> DEFINE t == ref.task
             terminal == task[t].attempt_count >= MaxAttempts
  <1>1. /\ t \in Tasks /\ task[t] \in TaskRow /\ run[t] \in RunStatus
        /\ terminal \in BOOLEAN
    BY DEF RowRef, TypeOK
  <1>2. AttemptOver(task[t], terminal, time) \in TaskRow
    BY <1>1, RowTypes
  <1>3. RunAfterAttempt(run[t], terminal) \in RunStatus
    BY <1>1, RunTypes
  <1> QED BY <1>1, <1>2, <1>3 DEF RecoverRow, TypeOK, db

-----------------------------------------------------------------------------
(* Type correctness                                                        *)

\* A state whose variables are typed one by one: TypeOK without the relation
\* of a lease to its thread.
Tables == /\ task \in [Tasks -> TaskRow]
          /\ run \in [Tasks -> RunStatus]
          /\ forecasts \in [Tasks -> Nat]

Mains == /\ pc \in [Workers -> Polling \cup Working]
         /\ lease \in [Workers -> TaskLease \cup {NoLease}]
         /\ \A w \in Workers : lease[w] = NoLease <=> pc[w] \in Polling
         /\ expected \in [Workers -> RunStatus]
         /\ now \in [Workers -> Nat]
         /\ refs \in [Workers -> SUBSET RowRef]

Beats == /\ hb \in [Workers -> HeartbeatPC]
         /\ hbLease \in [Workers -> TaskLease \cup {NoLease}]
         /\ \A w \in Workers : hbLease[w] = NoLease <=> hb[w] = "off"
         /\ hbNow \in [Workers -> Nat]
         /\ hbVersion \in [Workers -> Nat]
         /\ hbRefs \in [Workers -> SUBSET RowRef]

Counters == issued \in Nat /\ clock \in Nat /\ crashes \in Nat

LEMMA TypeParts == TypeOK <=> Tables /\ Mains /\ Beats /\ Counters
  BY DEF TypeOK, Tables, Mains, Beats, Counters

\* A group of variables that does not change stays typed.
LEMMA Frames ==
    /\ (Tables /\ UNCHANGED db) => Tables'
    /\ (Mains /\ UNCHANGED mainThreads) => Mains'
    /\ (Beats /\ UNCHANGED heartbeats) => Beats'
  BY DEF Tables, Mains, Beats, db, mainThreads, heartbeats

LEMMA GotoTypes ==
    ASSUME Mains, Counters, NEW w \in Workers, NEW next \in Polling \cup Working,
           Goto(w, next), next \in Polling <=> pc[w] \in Polling
    PROVE  Mains'
  BY DEF Mains, Counters, Goto, RunStatus

LEMMA GotoRowsTypes ==
    ASSUME Mains, NEW w \in Workers, NEW next \in Polling,
           NEW rows \in SUBSET RowRef, NEW time \in Nat, GotoRows(w, next, rows, time)
    PROVE  Mains'
  BY DEF Mains, GotoRows, RunStatus, Polling, Working

LEMMA FinishTypes ==
    ASSUME Mains, NEW w \in Workers, Finish(w)
    PROVE  Mains'
  <1>1. "idle" \in Polling BY DEF Polling
  <1> QED BY <1>1, GotoRowsTypes DEF Finish

LEMMA StopTypes ==
    ASSUME Beats, NEW w \in Workers, StopHeartbeat(w)
    PROVE  Beats'
  BY DEF Beats, StopHeartbeat, HeartbeatPC

LEMMA InitTypes == Init => TypeOK
  BY QueueConfiguration
  DEF QueueConfiguration, Init, TypeOK, AbsentRow, TaskRow, TaskStatus, RunStatus,
      Polling, Working, HeartbeatPC, NoLease, NoToken

\* A reading of the clock is a time.
LEMMA ReadingTypes ==
    ASSUME Mains, Counters, NEW w \in Workers, NEW time \in ClockReadings(w)
    PROVE  time \in Nat /\ time <= clock
  BY DEF Mains, Counters, ClockReadings

\* Writes of one row and one run.
LEMMA WriteTypes ==
    ASSUME Tables, NEW t \in Tasks
    PROVE  /\ \A row \in TaskRow : [task EXCEPT ![t] = row] \in [Tasks -> TaskRow]
           /\ \A s \in RunStatus : [run EXCEPT ![t] = s] \in [Tasks -> RunStatus]
           /\ task[t] \in TaskRow
           /\ run[t] \in RunStatus
  BY DEF Tables

LEMMA TerminalFailTypes ==
    ASSUME Tables, NEW t \in Tasks, NEW time \in Nat, TerminalFail(t, time)
    PROVE  Tables'
  <1>1. Released(task[t], "failed", time) \in TaskRow
    BY WriteTypes, RowTypes DEF TaskStatus
  <1>2. RunAfterAttempt(run[t], TRUE) \in RunStatus
    BY WriteTypes, RunTypes
  <1> QED BY <1>1, <1>2 DEF TerminalFail, Tables

\* A thread past its claim holds a lease on a task.
LEMMA WorkingLease ==
    ASSUME Mains, NEW w \in Workers, pc[w] \in Working
    PROVE  lease[w] \in TaskLease /\ lease[w].task \in Tasks
           /\ lease[w].token \in Nat \ {0} /\ lease[w].attempt \in Nat \ {0}
  BY DEF Mains, TaskLease, Polling, Working

\* Every step of a main thread keeps the types.
LEMMA MainTypes ==
    ASSUME TypeOK, NEW w \in Workers, MainStep(w)
    PROVE  TypeOK'
  <1> USE DEF Polling, Working
  <1>0. Tables /\ Mains /\ Beats /\ Counters
    BY TypeParts
  <1>a. UNCHANGED <<clock, crashes>> /\ issued' \in Nat
    <2>1. CASE ClaimOne(w)
      BY <1>0, <2>1 DEF ClaimOne, Counters
    <2>2. CASE ~ ClaimOne(w)
      <3>1. UNCHANGED <<issued, clock, crashes>>
        BY <2>2, Zenon DEF MainStep, RecoverScan, RecoverOne, RecoverDone, ClaimScan,
             VerifyPayload, LoadRun, FailTerminal, BeginExecution, GraphReturns,
             FinalizeResult, MarkFailed, CompleteTask, FailAttempt
      <3> QED BY <1>0, <3>1 DEF Counters
    <2> QED BY <2>1, <2>2
  <1>b. Counters'
    BY <1>0, <1>a DEF Counters
  <1> SUFFICES Tables' /\ Mains' /\ Beats'
    BY <1>b, TypeParts DEF TypeOK, Tables, Mains, Beats, Counters
  <1>c. (UNCHANGED db => Tables') /\ (UNCHANGED heartbeats => Beats')
    BY <1>0, Frames
  <1>d. ASSUME NEW next \in Working, Goto(w, next), pc[w] \in Working
        PROVE  Mains'
    BY <1>0, <1>d, GotoTypes
  <1>e. Finish(w) => Mains'
    BY <1>0, FinishTypes
  <1>1. ASSUME NEW from \in {"idle", "stale"}, NEW next \in {"recover_claim", "recover_return"},
               from = "idle" <=> next = "recover_claim", RecoverScan(w, from, next)
        PROVE  Tables' /\ Mains' /\ Beats'
    <2>1. ExpiredRefs(clock) \in SUBSET RowRef /\ ReadAt(ExpiredRefs(clock)) \in Nat
      BY <1>0, RefTypes DEF Counters, ReadAt
    <2> QED BY <1>0, <1>1, <1>c, <2>1 DEF RecoverScan, Mains
  <1>2. CASE RecoverOne(w)
    <2>1. PICK ref \in refs[w] : /\ RecoverRow(ref, now[w])
                                 /\ refs' = [refs EXCEPT ![w] = RefsAfter(ref, @, now[w])]
      BY <1>2 DEF RecoverOne
    <2>2. ref \in RowRef /\ refs[w] \in SUBSET RowRef /\ now[w] \in Nat
      BY <1>0 DEF Mains
    <2>3. Tables'
      BY <2>1, <2>2, RecoverRowTypes DEF Tables
    <2>4. RefsAfter(ref, refs[w], now[w]) \in SUBSET RowRef
      BY <2>2, RefTypes
    <2> QED BY <1>0, <1>2, <1>c, <2>1, <2>3, <2>4 DEF RecoverOne, Mains
  <1>3. CASE RecoverDone(w)
    BY <1>0, <1>3, <1>c, <1>e, GotoTypes DEF RecoverDone
  <1>4. CASE ClaimScan(w)
    <2> DEFINE rows == {[task |-> t, version |-> task[t].version, token |-> NoToken] :
                          t \in {u \in Tasks : Claimable(task[u], clock)}}
    <2>1. rows \in SUBSET RowRef
      BY <1>0 DEF Tables, RowRef, TaskRow, NoToken
    <2>2. GotoRows(w, IF rows = {} THEN "idle" ELSE "claiming", rows, clock)
      BY <1>4 DEF ClaimScan
    <2>3. (IF rows = {} THEN "idle" ELSE "claiming") \in Polling
      OBVIOUS
    <2> HIDE DEF rows
    <2>4. Mains'
      BY <1>0, <2>1, <2>2, <2>3, GotoRowsTypes DEF Counters
    <2> QED BY <1>4, <1>c, <2>4 DEF ClaimScan
  <1>5. CASE ClaimOne(w)
    <2>1. PICK ref \in refs[w] : 
          LET t == ref.task
              rest == refs[w] \ {ref}
          IN  IF Claimable(task[t], now[w]) /\ task[t].version = ref.version
              THEN /\ issued' = issued + 1
                   /\ task' = [task EXCEPT ![t] = Leased(@, issued + 1, now[w])]
                   /\ pc' = [pc EXCEPT ![w] = "verify"]
                   /\ lease' = [lease EXCEPT ![w] =
                                  [task |-> t, token |-> issued + 1,
                                   attempt |-> task[t].attempt_count + 1]]
                   /\ refs' = [refs EXCEPT ![w] = rest]
                   /\ UNCHANGED <<expected, now>>
              ELSE /\ GotoRows(w, IF rest = {} THEN "idle" ELSE "claiming",
                               rest, now[w])
                   /\ UNCHANGED <<task, issued>>
      BY <1>5 DEF ClaimOne
    <2> DEFINE t == ref.task
               rest == refs[w] \ {ref}
    <2>2. /\ t \in Tasks /\ rest \in SUBSET RowRef /\ now[w] \in Nat /\ task[t] \in TaskRow
          /\ task[t].attempt_count \in Nat /\ issued \in Nat
      BY <1>0 DEF Mains, Tables, RowRef, TaskRow, Counters
    <2>3. CASE Claimable(task[t], now[w]) /\ task[t].version = ref.version
      <3>1. Leased(task[t], issued + 1, now[w]) \in TaskRow
        BY <2>2, RowTypes
      <3>2. Tables'
        BY <1>0, <1>5, <2>1, <2>2, <2>3, <3>1 DEF Tables, ClaimOne
      <3>3. [task |-> t, token |-> issued + 1, attempt |-> task[t].attempt_count + 1]
              \in TaskLease
        BY <2>2 DEF TaskLease
      <3>4. [task |-> t, token |-> issued + 1, attempt |-> task[t].attempt_count + 1]
              # NoLease
        BY <2>2 DEF NoLease, NoToken
      <3>5. Mains'
        BY <1>0, <2>1, <2>2, <2>3, <3>3, <3>4 DEF Mains
      <3> QED BY <1>5, <1>c, <3>2, <3>5 DEF ClaimOne
    <2>4. CASE ~ (Claimable(task[t], now[w]) /\ task[t].version = ref.version)
      <3>1. (IF rest = {} THEN "idle" ELSE "claiming") \in Polling
        OBVIOUS
      <3>2. GotoRows(w, IF rest = {} THEN "idle" ELSE "claiming", rest, now[w])
        BY <2>1, <2>4
      <3> HIDE DEF rest
      <3>3. Mains'
        BY <1>0, <2>2, <3>1, <3>2, GotoRowsTypes
      <3> QED BY <1>5, <1>c, <2>1, <2>4, <3>3 DEF ClaimOne, db
    <2> QED BY <2>3, <2>4
  <1>6. CASE VerifyPayload(w)
    <2>1. /\ lease[w].task \in Tasks /\ now[w] \in Nat /\ refs[w] \in SUBSET RowRef
          /\ pc[w] \in Working
      BY <1>0, <1>6, WorkingLease DEF VerifyPayload, Mains
    <2>2. (IF refs[w] = {} THEN "idle" ELSE "claiming") \in Polling
      OBVIOUS
    <2>3. Mains'
      BY <1>0, <1>6, <1>d, <2>1, <2>2, GotoRowsTypes DEF VerifyPayload
    <2>4. Tables'
      BY <1>0, <1>6, <1>c, <2>1, TerminalFailTypes DEF VerifyPayload
    <2> QED BY <1>6, <1>c, <2>3, <2>4 DEF VerifyPayload
  <1>7. CASE LoadRun(w)
    <2>1. /\ pc[w] \in Working /\ lease[w] \in TaskLease /\ lease[w] # NoLease
          /\ run[lease[w].task] \in RunStatus
      BY <1>0, <1>7, WorkingLease DEF LoadRun, Tables, Mains
    <2>2. Mains'
      BY <1>0, <1>7, <1>d, <2>1 DEF LoadRun, Mains, Counters
    <2>3. Beats'
      BY <1>0, <1>7, <1>c, <2>1 DEF LoadRun, Beats, Counters, HeartbeatPC
    <2> QED BY <1>7, <1>c, <2>2, <2>3 DEF LoadRun
  <1>8. CASE FailTerminal(w)
    <2>1. lease[w].task \in Tasks /\ pc[w] \in Working
      BY <1>0, <1>8, WorkingLease DEF FailTerminal
    <2>2. Tables'
      BY <1>0, <1>8, <1>c, <2>1, TerminalFailTypes, ReadingTypes DEF FailTerminal
    <2> QED BY <1>8, <1>c, <1>d, <1>e, <2>1, <2>2 DEF FailTerminal
  <1>9. CASE BeginExecution(w)
    <2>1. lease[w].task \in Tasks /\ pc[w] \in Working
      BY <1>0, <1>9, WorkingLease DEF BeginExecution
    <2>2. Tables'
      BY <1>0, <1>9, <1>c, <2>1 DEF BeginExecution, Tables, RunStatus, FailureStatus
    <2> QED BY <1>9, <1>c, <1>d, <2>1, <2>2 DEF BeginExecution
  <1>10. CASE GraphReturns(w)
    BY <1>10, <1>c, <1>d DEF GraphReturns
  <1>11. CASE FinalizeResult(w)
    <2>1. /\ lease[w].task \in Tasks /\ lease[w].token \in Nat /\ pc[w] \in Working
          /\ task[lease[w].task] \in TaskRow
      BY <1>0, <1>11, WorkingLease DEF FinalizeResult, Tables
    <2>2. Released(task[lease[w].task], "completed", task[lease[w].task].available_at) \in TaskRow
      BY <2>1, RowTypes DEF TaskStatus
    <2>3. Tables'
      BY <1>0, <1>11, <1>c, <2>1, <2>2 DEF FinalizeResult, Tables, RunStatus
    <2> QED BY <1>11, <1>c, <1>d, <2>1, <2>3 DEF FinalizeResult
  <1>12. CASE MarkFailed(w)
    <2>1. lease[w].task \in Tasks /\ pc[w] \in Working
      BY <1>0, <1>12, WorkingLease DEF MarkFailed
    <2>2. Tables'
      BY <1>0, <1>12, <1>c, <2>1 DEF MarkFailed, Tables, RunStatus, FailureStatus
    <2> QED BY <1>12, <1>c, <1>d, <2>1, <2>2 DEF MarkFailed
  <1>13. CASE CompleteTask(w)
    <2>1. /\ lease[w].task \in Tasks /\ pc[w] \in Working
          /\ task[lease[w].task] \in TaskRow
      BY <1>0, <1>13, WorkingLease DEF CompleteTask, Tables
    <2>2. Released(task[lease[w].task], "completed", task[lease[w].task].available_at) \in TaskRow
      BY <2>1, RowTypes DEF TaskStatus
    <2>3. Tables'
      BY <1>0, <1>13, <1>c, <2>1, <2>2 DEF CompleteTask, Tables
    <2> QED BY <1>13, <1>c, <1>d, <1>e, <2>1, <2>3 DEF CompleteTask
  <1>14. CASE FailAttempt(w)
    <2>1. /\ lease[w].task \in Tasks /\ pc[w] \in Working
          /\ task[lease[w].task] \in TaskRow /\ run[lease[w].task] \in RunStatus
      BY <1>0, <1>14, WorkingLease DEF FailAttempt, Tables
    <2>2. LastAttempt(w) \in BOOLEAN
      BY DEF LastAttempt
    <2>3. RunAfterAttempt(run[lease[w].task], LastAttempt(w)) \in RunStatus
      BY <2>1, <2>2, RunTypes
    <2>4. \A time \in ClockReadings(w) :
            AttemptOver(task[lease[w].task], LastAttempt(w), time) \in TaskRow
      BY <1>0, <2>1, <2>2, RowTypes, ReadingTypes
    <2>5. Tables'
      BY <1>0, <1>14, <1>c, <2>1, <2>3, <2>4 DEF FailAttempt, Tables
    <2> QED BY <1>14, <1>c, <1>d, <1>e, <2>1, <2>5 DEF FailAttempt
  <1> QED
    BY <1>1, <1>2, <1>3, <1>4, <1>5, <1>6, <1>7, <1>8, <1>9, <1>10, <1>11, <1>12,
       <1>13, <1>14 DEF MainStep

LEMMA HeartbeatTypes ==
    ASSUME TypeOK, NEW w \in Workers, HeartbeatStep(w)
    PROVE  TypeOK'
  <1>0. Tables /\ Mains /\ Beats /\ Counters
    BY TypeParts
  <1>a. Mains' /\ Counters'
    BY <1>0, Frames DEF HeartbeatStep, RenewRead, RenewWrite, HeartbeatScan,
         HeartbeatRecover, HeartbeatEnd, Counters
  <1> SUFFICES Tables' /\ Beats'
    BY <1>a, TypeParts DEF TypeOK, Tables, Mains, Beats, Counters
  <1>c. UNCHANGED db => Tables'
    BY <1>0, Frames
  <1>d. hb[w] # "off" => /\ hbLease[w] \in TaskLease /\ hbLease[w].task \in Tasks
                         /\ task[hbLease[w].task] \in TaskRow
    BY <1>0 DEF Beats, TaskLease, Tables
  <1>1. CASE RenewRead(w)
    <2>1. task[hbLease[w].task].version \in Nat
      BY <1>1, <1>d DEF RenewRead, TaskRow
    <2> QED BY <1>0, <1>1, <1>c, <2>1 DEF RenewRead, Beats, Counters, HeartbeatPC
  <1>2. CASE RenewWrite(w)
    <2>1. Renewed(task[hbLease[w].task], hbNow[w]) \in TaskRow
      BY <1>0, <1>2, <1>d, RowTypes DEF RenewWrite, Beats
    <2>2. Tables'
      BY <1>0, <1>2, <1>d, <2>1 DEF RenewWrite, Tables
    <2> QED BY <1>0, <1>2, <2>2 DEF RenewWrite, Beats, HeartbeatPC
  <1>3. CASE HeartbeatScan(w)
    <2>1. ExpiredRefs(clock) \in SUBSET RowRef /\ ReadAt(ExpiredRefs(clock)) \in Nat
      BY <1>0, RefTypes DEF Counters, ReadAt
    <2> QED BY <1>0, <1>3, <1>c, <2>1 DEF HeartbeatScan, Beats, HeartbeatPC
  <1>4. CASE HeartbeatRecover(w)
    <2>1. PICK ref \in hbRefs[w] :
             /\ RecoverRow(ref, hbNow[w])
             /\ hbRefs' = [hbRefs EXCEPT ![w] = RefsAfter(ref, @, hbNow[w])]
      BY <1>4 DEF HeartbeatRecover
    <2>2. ref \in RowRef /\ hbRefs[w] \in SUBSET RowRef /\ hbNow[w] \in Nat
      BY <1>0 DEF Beats
    <2>3. Tables'
      BY <2>1, <2>2, RecoverRowTypes DEF Tables
    <2>4. RefsAfter(ref, hbRefs[w], hbNow[w]) \in SUBSET RowRef
      BY <2>2, RefTypes
    <2> QED BY <1>0, <1>4, <2>1, <2>3, <2>4 DEF HeartbeatRecover, Beats
  <1>5. CASE HeartbeatEnd(w)
    BY <1>0, <1>5, <1>c, StopTypes DEF HeartbeatEnd
  <1> QED BY <1>1, <1>2, <1>3, <1>4, <1>5 DEF HeartbeatStep

LEMMA NextTypes == TypeOK /\ [Next]_vars => TypeOK'
  <1> SUFFICES ASSUME TypeOK, [Next]_vars PROVE TypeOK'
    OBVIOUS
  <1>0. Tables /\ Mains /\ Beats /\ Counters
    BY TypeParts
  <1>a. Tables' /\ Mains' /\ Beats' /\ Counters' => TypeOK'
    BY DEF TypeOK, Tables, Mains, Beats, Counters
  <1>1. ASSUME NEW t \in Tasks, Enqueue(t)
        PROVE  TypeOK'
    <2>1. [AbsentRow EXCEPT !.status = "queued", !.available_at = clock] \in TaskRow
      BY <1>0 DEF AbsentRow, TaskRow, TaskStatus, NoToken, Counters
    <2>2. Tables'
      BY <1>0, <1>1, <2>1 DEF Enqueue, Tables, RunStatus
    <2> QED BY <1>0, <1>1, <1>a, <2>2, Frames DEF Enqueue, Counters
  <1>2. ASSUME NEW t \in Tasks, CorruptPayload(t)
        PROVE  TypeOK'
    <2>1. [task[t] EXCEPT !.sealed = FALSE] \in TaskRow
      BY <1>0 DEF Tables, TaskRow
    <2>2. Tables'
      BY <1>0, <1>2, <2>1 DEF CorruptPayload, Tables
    <2> QED BY <1>0, <1>2, <1>a, <2>2, Frames DEF CorruptPayload, Counters
  <1>3. ASSUME NEW w \in Workers, Crash(w)
        PROVE  TypeOK'
    BY <1>0, <1>3, <1>a, Frames, FinishTypes, StopTypes DEF Crash, Counters
  <1>4. CASE Tick
    BY <1>0, <1>4, <1>a, Frames DEF Tick, Counters
  <1>5. CASE UNCHANGED vars
    BY <1>5 DEF vars, TypeOK
  <1> QED BY <1>1, <1>2, <1>3, <1>4, <1>5, MainTypes, HeartbeatTypes DEF Next

\* Every reachable state has its types: in particular a thread past its claim
\* holds a lease on an existing task, whatever crashed in between.
THEOREM TypeCorrect == Spec => []TypeOK
  <1>1. Init => TypeOK
    BY InitTypes
  <1>2. TypeOK /\ [Next]_vars => TypeOK'
    BY NextTypes
  <1> QED BY <1>1, <1>2, PTL DEF Spec

-----------------------------------------------------------------------------
(* The inductive invariant.  LeaseShape, AttemptsDisjoint and              *)
(* LeaseWithinDeadline depend on the task rows and the leases only, and a  *)
(* step changes those in few ways; each way is one lemma.                  *)

LeaseInv == LeaseShape /\ AttemptsDisjoint /\ LeaseWithinDeadline

\* Leases are only given up.
LeasesShrink == \A w \in Workers : lease'[w] \in {lease[w], NoLease}

\* The rows do not change, except for the seal of a payload.
LEMMA SameRows ==
    ASSUME TypeOK, LeaseInv, LeasesShrink, issued' = issued,
           \A t \in Tasks : /\ task'[t].status = task[t].status
                            /\ task'[t].attempt_count = task[t].attempt_count
                            /\ task'[t].attempt_started_at = task[t].attempt_started_at
                            /\ task'[t].lease_token = task[t].lease_token
                            /\ task'[t].lease_expires_at = task[t].lease_expires_at
                            /\ task'[t].version = task[t].version
    PROVE  LeaseInv'
  <1>0. \A w \in Workers : lease[w] # NoLease => lease[w].task \in Tasks
    BY DEF TypeOK, TaskLease
  <1>a. \A w \in Workers : lease'[w].token <= issued
    BY DEF LeaseInv, LeaseShape, LeasesShrink, NoLease, NoToken, TypeOK
  <1>1. LeaseShape'
    BY <1>a DEF LeaseInv, LeaseShape
  <1>2. AttemptsDisjoint'
    BY SMTT(30), <1>0 DEF LeaseInv, AttemptsDisjoint, LeasesShrink, NoLease, NoToken, TypeOK, TaskLease
  <1>3. LeaseWithinDeadline'
    BY DEF LeaseInv, LeaseWithinDeadline
  <1> QED BY <1>1, <1>2, <1>3 DEF LeaseInv

\* A leased row is released.
LEMMA ReleaseRow ==
    ASSUME TypeOK, LeaseInv, LeasesShrink, issued' = issued,
           NEW t \in Tasks, task[t].status = "running",
           NEW status \in {"completed", "failed", "retry_wait"}, NEW a \in Nat,
           task' = [task EXCEPT ![t] = Released(@, status, a)]
    PROVE  LeaseInv'
  <1>0. /\ \A w \in Workers : lease[w] # NoLease => lease[w].task \in Tasks /\ lease[w].token # 0
        /\ \A u \in Tasks : u # t => task'[u] = task[u]
        /\ task'[t] = Released(task[t], status, a)
    BY DEF TypeOK, TaskLease
  <1>a. \A w \in Workers : lease'[w].token <= issued
    BY DEF LeaseInv, LeaseShape, LeasesShrink, NoLease, NoToken, TypeOK
  <1>b. /\ task'[t].status # "absent" /\ task'[t].status # "running"
        /\ task'[t].lease_token = NoToken /\ NoToken <= issued
    BY <1>0 DEF Released, NoToken, TypeOK
  <1>1. LeaseShape'
    BY <1>0, <1>a, <1>b DEF LeaseInv, LeaseShape
  <1>2. AttemptsDisjoint'
    BY <1>0 DEF LeaseInv, AttemptsDisjoint, LeasesShrink, NoLease, NoToken, Released
  <1>3. LeaseWithinDeadline'
    BY <1>0 DEF LeaseInv, LeaseWithinDeadline, Released
  <1> QED BY <1>1, <1>2, <1>3 DEF LeaseInv

\* A leased row is renewed.
LEMMA RenewRow ==
    ASSUME TypeOK, LeaseInv, UNCHANGED <<lease, issued>>,
           NEW t \in Tasks, NEW time \in Nat, task[t].status = "running",
           task' = [task EXCEPT ![t] = Renewed(@, time)]
    PROVE  LeaseInv'
  <1>0. /\ \A w \in Workers : lease[w] # NoLease => lease[w].task \in Tasks /\ lease[w].token # 0
        /\ \A u \in Tasks : u # t => task'[u] = task[u]
        /\ task'[t] = Renewed(task[t], time)
    BY DEF TypeOK, TaskLease
  <1>a. /\ task'[t].status = "running" /\ task'[t].attempt_count = task[t].attempt_count
        /\ task'[t].lease_token = task[t].lease_token
    BY <1>0 DEF Renewed
  <1>1. LeaseShape'
    BY <1>0, <1>a DEF LeaseInv, LeaseShape
  <1>2. AttemptsDisjoint'
    BY <1>0 DEF LeaseInv, AttemptsDisjoint, Renewed
  <1>3. RenewedExpiry(task[t], time) <= task[t].attempt_started_at + TimeoutSeconds
    BY QueueConfiguration DEF QueueConfiguration, RenewedExpiry, TypeOK, TaskRow
  <1>4. LeaseWithinDeadline'
    BY <1>0, <1>3 DEF LeaseInv, LeaseWithinDeadline, Renewed
  <1> QED BY <1>1, <1>2, <1>4 DEF LeaseInv

\* A waiting row is leased to a thread without a lease.
LEMMA LeaseRow ==
    ASSUME TypeOK, LeaseInv, NEW w \in Workers, lease[w] = NoLease,
           NEW t \in Tasks, NEW time \in Nat, task[t].status \in Open,
           issued' = issued + 1,
           task' = [task EXCEPT ![t] = Leased(@, issued + 1, time)],
           lease' = [lease EXCEPT ![w] = [task |-> t, token |-> issued + 1,
                                          attempt |-> task[t].attempt_count + 1]]
    PROVE  LeaseInv'
  <1>0. /\ \A v \in Workers : v # w => lease'[v] = lease[v]
        /\ lease'[w] = [task |-> t, token |-> issued + 1, attempt |-> task[t].attempt_count + 1]
        /\ \A u \in Tasks : u # t => task'[u] = task[u]
        /\ task'[t] = Leased(task[t], issued + 1, time)
        /\ issued \in Nat /\ task[t].attempt_count \in Nat
    BY DEF TypeOK, TaskRow
  <1>1. \A v \in Workers : lease[v] # NoLease =>
           /\ lease[v].task \in Tasks /\ lease[v].token \in Nat \ {0}
           /\ lease[v].attempt \in Nat /\ task[lease[v].task].attempt_count \in Nat
    BY DEF TypeOK, TaskLease, TaskRow
  <1>2. \A v \in Workers : lease[v].token \in Nat /\ lease[v].token <= issued
    BY <1>1 DEF LeaseInv, LeaseShape, NoLease, NoToken
  <1>3. LeaseShape'
    <2>1. \A u \in Tasks : task[u].lease_token \in Nat
      BY DEF TypeOK, TaskRow
    <2> QED BY <1>0, <1>2, <2>1 DEF LeaseInv, LeaseShape, Leased, NoToken
  <1>4. AttemptsDisjoint'
    <2>1. lease'[w] # NoLease /\ task'[t].attempt_count = task[t].attempt_count + 1
          /\ task'[t].lease_token = issued + 1
      BY <1>0 DEF NoLease, Leased
    <2>2. \A v \in Workers \ {w} : lease'[v] # NoLease =>
             /\ lease'[v].attempt <= task'[lease'[v].task].attempt_count
             /\ lease'[v].token = task'[lease'[v].task].lease_token =>
                   lease'[v].attempt = task'[lease'[v].task].attempt_count
      BY <1>0, <1>1, <1>2, <2>1 DEF LeaseInv, AttemptsDisjoint
    <2>3. \A v, x \in Workers : (v # x /\ lease'[v] # NoLease) =>
             lease'[v].token # lease'[x].token
      BY <1>0, <1>1, <1>2 DEF LeaseInv, AttemptsDisjoint
    <2> QED BY <1>0, <2>1, <2>2, <2>3 DEF AttemptsDisjoint
  <1>5. LeaseWithinDeadline'
    BY <1>0, QueueConfiguration DEF QueueConfiguration, LeaseInv, LeaseWithinDeadline, Leased
  <1> QED BY <1>3, <1>4, <1>5 DEF LeaseInv

\* What a step may do to the rows other threads have read: the version of a
\* row never falls, and while it stays the same a leased row keeps its times.
RowsEvolve ==
    \A t \in Tasks :
        /\ task'[t].version >= task[t].version
        /\ (task'[t].version = task[t].version /\ task'[t].status = "running") =>
              /\ task[t].status = "running"
              /\ task'[t].lease_expires_at = task[t].lease_expires_at
              /\ task'[t].attempt_started_at = task[t].attempt_started_at

LEMMA FreshPreserved ==
    ASSUME TypeOK, TypeOK', RowsEvolve, NEW ref \in RowRef, NEW time \in Nat,
           RefFresh(ref, task[ref.task], time)
    PROVE  RefFresh(ref, task'[ref.task], time)
  <1>1. /\ ref.task \in Tasks /\ ref.version \in Nat
        /\ task[ref.task].version \in Nat /\ task'[ref.task].version \in Nat
    BY DEF RowRef, TypeOK, TaskRow
  <1> QED BY <1>1 DEF RowsEvolve, RefFresh, AttemptExpired

\* Rows found expired just now are fresh, and RefsAfter keeps or re-reads them.
LEMMA ScanFresh ==
    ASSUME TypeOK, NEW time \in Nat
    PROVE  \A ref \in ExpiredRefs(time) : RefFresh(ref, task[ref.task], time)
  BY DEF ExpiredRefs, RefFresh, TypeOK, TaskRow

\* A single row write that raises the version.
LEMMA WriteEvolves ==
    ASSUME TypeOK, NEW t \in Tasks, NEW row,
           row.version = task[t].version + 1,
           task' = [task EXCEPT ![t] = row]
    PROVE  RowsEvolve
  <1>1. \A u \in Tasks : task[u].version \in Nat
    BY DEF TypeOK, TaskRow
  <1> QED BY <1>1 DEF RowsEvolve, TypeOK

LEMMA SameEvolves ==
    ASSUME TypeOK, task' = task
    PROVE  RowsEvolve
  BY DEF RowsEvolve, TypeOK, TaskRow

\* One iteration of recover_expired, from a reference that is fresh.
LEMMA RecoverRowStep ==
    ASSUME TypeOK, LeaseInv, RunTaskAgree, NEW ref \in RowRef, NEW time \in Nat,
           RecoverRow(ref, time), UNCHANGED <<lease, issued>>
    PROVE  LeaseInv' /\ RunTaskAgree' /\ RowsEvolve
  <1> DEFINE t == ref.task
             terminal == task[t].attempt_count >= MaxAttempts
             status == IF terminal THEN "failed" ELSE "retry_wait"
             a == IF terminal THEN time ELSE time + RetryDelay
  <1>0. t \in Tasks /\ a \in Nat /\ status \in {"completed", "failed", "retry_wait"} /\ LeasesShrink
    BY QueueConfiguration DEF QueueConfiguration, RowRef, LeasesShrink
  <1>1. CASE RecoverMatches(ref)
    <2>1. /\ task[t].status = "running"
          /\ task' = [task EXCEPT ![t] = Released(@, status, a)]
          /\ run' = [run EXCEPT ![t] = RunAfterAttempt(@, terminal)]
          /\ forecasts' = forecasts
      BY <1>1 DEF RecoverRow, RecoverMatches, AttemptOver
    <2> HIDE DEF a, status
    <2>2. LeaseInv'
      BY <1>0, <2>1, ReleaseRow
    <2>3. RowsEvolve
      BY <1>0, <2>1, WriteEvolves DEF Released
    <2>4. RunTaskAgree'
      <3>1. /\ task'[t].status = status /\ run'[t] = RunAfterAttempt(run[t], terminal)
            /\ \A u \in Tasks : u # t => task'[u] = task[u] /\ run'[u] = run[u]
        BY <1>0, <2>1 DEF TypeOK, Released
      <3> QED BY <1>0, <2>1, <3>1 DEF RunTaskAgree, RunAfterAttempt, status, Open
    <2> QED BY <2>2, <2>3, <2>4
  <1>2. CASE ~ RecoverMatches(ref)
    <2>1. UNCHANGED <<task, run, forecasts>>
      BY <1>2 DEF RecoverRow, db
    <2> QED BY <1>0, <2>1, SameRows, SameEvolves DEF RunTaskAgree
  <1> QED BY <1>1, <1>2

LEMMA TerminalFailStep ==
    ASSUME TypeOK, LeaseInv, RunTaskAgree, NEW t \in Tasks, NEW time \in Nat,
           task[t].status = "running", TerminalFail(t, time), LeasesShrink,
           issued' = issued
    PROVE  LeaseInv' /\ RunTaskAgree' /\ RowsEvolve
  <1>1. LeaseInv'
    BY ReleaseRow DEF TerminalFail
  <1>2. RowsEvolve
    BY WriteEvolves DEF TerminalFail, Released
  <1>3. /\ task'[t].status = "failed" /\ run'[t] = RunAfterAttempt(run[t], TRUE)
        /\ \A u \in Tasks : u # t => task'[u] = task[u] /\ run'[u] = run[u]
        /\ forecasts' = forecasts
    BY DEF TerminalFail, TypeOK, Released
  <1>4. RunTaskAgree'
    BY <1>3 DEF RunTaskAgree, RunAfterAttempt, Open
  <1> QED BY <1>1, <1>2, <1>4

\* A step that leaves the tables alone and gives up leases at most.
LEMMA QuietStep ==
    ASSUME TypeOK, LeaseInv, RunTaskAgree, UNCHANGED db, LeasesShrink, issued' = issued
    PROVE  LeaseInv' /\ RunTaskAgree' /\ RowsEvolve
  <1>1. UNCHANGED <<task, run, forecasts>>
    BY DEF db
  <1> QED BY <1>1, SameRows, SameEvolves DEF RunTaskAgree

LEMMA Shrinking ==
    ASSUME TypeOK, NEW w \in Workers
    PROVE  /\ \A next : Goto(w, next) => LeasesShrink
           /\ \A next, rows, time : GotoRows(w, next, rows, time) => LeasesShrink
           /\ Finish(w) => LeasesShrink
           /\ UNCHANGED lease => LeasesShrink
  BY DEF Goto, GotoRows, Finish, LeasesShrink, TypeOK

\* The lease of a thread past its claim, and the row it names.
LEMMA LeaseFacts ==
    ASSUME TypeOK, NEW w \in Workers, pc[w] \in Working
    PROVE  /\ lease[w].task \in Tasks /\ lease[w].token \in Nat \ {0}
           /\ task[lease[w].task] \in TaskRow /\ run[lease[w].task] \in RunStatus
           /\ \A time \in ClockReadings(w) : time \in Nat
  <1>1. Mains /\ Tables /\ Counters
    BY TypeParts
  <1> QED BY <1>1, WorkingLease, ReadingTypes DEF Tables

\* Every step of a main thread.
LEMMA MainStepInv ==
    ASSUME TypeOK, LeaseInv, RunTaskAgree, NEW w \in Workers, MainStep(w)
    PROVE  LeaseInv' /\ RunTaskAgree' /\ RowsEvolve
  <1> DEFINE t == lease[w].task
             Goal == LeaseInv' /\ RunTaskAgree' /\ RowsEvolve
  <1>a. UNCHANGED db /\ LeasesShrink /\ issued' = issued => Goal
    BY QuietStep
  <1>1. CASE RecoverScan(w, "idle", "recover_claim") \/ RecoverScan(w, "stale", "recover_return")
    BY <1>1, <1>a, Shrinking DEF RecoverScan
  <1>2. CASE RecoverOne(w)
    <2>1. PICK ref \in refs[w] : RecoverRow(ref, now[w])
      BY <1>2 DEF RecoverOne
    <2>2. ref \in RowRef /\ now[w] \in Nat /\ UNCHANGED <<lease, issued>>
      BY <1>2 DEF RecoverOne, TypeOK
    <2> QED BY <2>1, <2>2, RecoverRowStep
  <1>3. CASE RecoverDone(w)
    BY <1>3, <1>a, Shrinking DEF RecoverDone
  <1>4. CASE ClaimScan(w)
    BY <1>4, <1>a, Shrinking DEF ClaimScan
  <1>5. CASE ClaimOne(w)
    <2>1. PICK ref \in refs[w] :
            \/ /\ Claimable(task[ref.task], now[w])
               /\ issued' = issued + 1
               /\ task' = [task EXCEPT ![ref.task] = Leased(@, issued + 1, now[w])]
               /\ lease' = [lease EXCEPT ![w] = [task |-> ref.task, token |-> issued + 1,
                                                 attempt |-> task[ref.task].attempt_count + 1]]
            \/ /\ \E next, rest : GotoRows(w, next, rest, now[w])
               /\ UNCHANGED <<task, issued>>
      BY <1>5 DEF ClaimOne
    <2>2. /\ ref.task \in Tasks /\ now[w] \in Nat /\ lease[w] = NoLease
          /\ UNCHANGED <<run, forecasts>>
      BY <1>5 DEF ClaimOne, TypeOK, RowRef, Polling
    <2>3. CASE UNCHANGED <<task, issued>> /\ LeasesShrink
      BY <1>a, <2>2, <2>3 DEF db
    <2>4. CASE /\ Claimable(task[ref.task], now[w])
               /\ issued' = issued + 1
               /\ task' = [task EXCEPT ![ref.task] = Leased(@, issued + 1, now[w])]
               /\ lease' = [lease EXCEPT ![w] = [task |-> ref.task, token |-> issued + 1,
                                                 attempt |-> task[ref.task].attempt_count + 1]]
      <3>1. task[ref.task].status \in Open
        BY <2>4 DEF Claimable, Open
      <3>2. LeaseInv'
        BY <2>2, <2>4, <3>1, LeaseRow
      <3>3. RowsEvolve
        BY <2>2, <2>4, WriteEvolves DEF Leased
      <3>4. /\ task'[ref.task].status = "running" /\ run'[ref.task] = run[ref.task]
            /\ \A u \in Tasks : u # ref.task => task'[u] = task[u]
        BY <2>2, <2>4 DEF TypeOK, Leased
      <3>5. RunTaskAgree'
        BY <2>2, <3>1, <3>4 DEF RunTaskAgree, Open
      <3> QED BY <3>2, <3>3, <3>5
    <2> QED BY <2>1, <2>3, <2>4, Shrinking
  <1>6. CASE VerifyPayload(w)
    <2>1. t \in Tasks /\ now[w] \in Nat
      BY <1>6, LeaseFacts DEF VerifyPayload, Working, TypeOK
    <2>2. LeasesShrink /\ issued' = issued
      BY <1>6, Shrinking DEF VerifyPayload
    <2> QED BY <1>6, <1>a, <2>1, <2>2, TerminalFailStep DEF VerifyPayload, LeaseLive
  <1>7. CASE LoadRun(w)
    BY <1>7, <1>a, Shrinking DEF LoadRun
  <1>8. CASE FailTerminal(w)
    <2>1. t \in Tasks /\ \A time \in ClockReadings(w) : time \in Nat
      BY <1>8, LeaseFacts DEF FailTerminal, Working
    <2>2. LeasesShrink /\ issued' = issued
      BY <1>8, Shrinking DEF FailTerminal
    <2> QED BY <1>8, <1>a, <2>1, <2>2, TerminalFailStep DEF FailTerminal, LeaseLive
  <1>9. CASE BeginExecution(w)
    <2>1. t \in Tasks
      BY <1>9, LeaseFacts DEF BeginExecution, Working
    <2>2. LeasesShrink /\ issued' = issued
      BY <1>9, Shrinking DEF BeginExecution
    <2>3. CASE UNCHANGED db
      BY <1>a, <2>2, <2>3
    <2>4. CASE ~ UNCHANGED db
      <3>1. PICK s \in {"running", "failed", "queued"} :
              /\ task[t].status = "running"
              /\ run[t] \in {"queued", "running"}
              /\ run' = [run EXCEPT ![t] = s]
              /\ UNCHANGED <<task, forecasts>>
        BY <1>9, <2>4 DEF BeginExecution, FencePasses, LeaseLive, FailureStatus
      <3>2. run'[t] = s /\ \A u \in Tasks : u # t => run'[u] = run[u]
        BY <2>1, <3>1 DEF TypeOK
      <3>3. RunTaskAgree'
        BY <2>1, <3>1, <3>2 DEF RunTaskAgree, Open
      <3> QED BY <2>2, <3>1, <3>3, SameRows, SameEvolves
    <2> QED BY <2>3, <2>4
  <1>10. CASE GraphReturns(w)
    BY <1>10, <1>a, Shrinking DEF GraphReturns
  <1>11. CASE FinalizeResult(w)
    <2>1. t \in Tasks /\ task[t].available_at \in Nat /\ lease[w].token # 0
      BY <1>11, LeaseFacts DEF FinalizeResult, Working, TaskRow
    <2>2. LeasesShrink /\ issued' = issued
      BY <1>11, Shrinking DEF FinalizeResult
    <2>3. CASE UNCHANGED db
      BY <1>a, <2>2, <2>3
    <2>4. CASE ~ UNCHANGED db
      <3>1. /\ task[t].status = "running"
            /\ task' = [task EXCEPT ![t] = Released(@, "completed", task[t].available_at)]
            /\ forecasts' = [forecasts EXCEPT ![t] = lease[w].token]
            /\ run' = [run EXCEPT ![t] = "completed"]
        BY <1>11, <2>4 DEF FinalizeResult, FencePasses, LeaseLive
      <3>2. LeaseInv'
        BY <2>1, <2>2, <3>1, ReleaseRow
      <3>3. RowsEvolve
        BY <2>1, <3>1, WriteEvolves DEF Released
      <3>4. /\ task'[t].status = "completed" /\ run'[t] = "completed" /\ forecasts'[t] # NoToken
            /\ \A u \in Tasks : u # t => /\ task'[u] = task[u] /\ run'[u] = run[u]
                                         /\ forecasts'[u] = forecasts[u]
        BY <2>1, <3>1 DEF TypeOK, Released, NoToken
      <3>5. RunTaskAgree'
        BY <2>1, <3>4 DEF RunTaskAgree, Open
      <3> QED BY <3>2, <3>3, <3>5
    <2> QED BY <2>3, <2>4
  <1>12. CASE MarkFailed(w)
    <2>1. t \in Tasks
      BY <1>12, LeaseFacts DEF MarkFailed, Working
    <2>2. LeasesShrink /\ issued' = issued
      BY <1>12, Shrinking DEF MarkFailed
    <2>3. CASE UNCHANGED db
      BY <1>a, <2>2, <2>3
    <2>4. CASE ~ UNCHANGED db
      <3>1. /\ task[t].status = "running"
            /\ run' = [run EXCEPT ![t] = IF @ = "running" THEN FailureStatus(w) ELSE @]
            /\ UNCHANGED <<task, forecasts>>
        BY <1>12, <2>4 DEF MarkFailed, FencePasses, LeaseLive
      <3>2. /\ run[t] = "running" => run'[t] \in {"queued", "failed"}
            /\ run[t] # "running" => run'[t] = run[t]
            /\ \A u \in Tasks : u # t => run'[u] = run[u]
        BY <2>1, <3>1 DEF TypeOK, FailureStatus
      <3>3. RunTaskAgree'
        BY <2>1, <3>1, <3>2 DEF RunTaskAgree, Open
      <3> QED BY <2>2, <3>1, <3>3, SameRows, SameEvolves
    <2> QED BY <2>3, <2>4
  <1>13. CASE CompleteTask(w)
    <2>1. t \in Tasks
      BY <1>13, LeaseFacts DEF CompleteTask, Working
    <2>2. LeasesShrink /\ issued' = issued
      BY <1>13, Shrinking DEF CompleteTask
    <2>3. UNCHANGED db
      BY <1>13, <2>1 DEF CompleteTask, RunTaskAgree, LeaseLive
    <2> QED BY <1>a, <2>2, <2>3
  <1>14. CASE FailAttempt(w)
    <2>1. t \in Tasks /\ \A time \in ClockReadings(w) : time \in Nat
      BY <1>14, LeaseFacts DEF FailAttempt, Working
    <2>2. LeasesShrink /\ issued' = issued
      BY <1>14, Shrinking DEF FailAttempt
    <2>3. CASE UNCHANGED db
      BY <1>a, <2>2, <2>3
    <2>4. CASE ~ UNCHANGED db
      <3>1. PICK time \in Nat :
              /\ task[t].status = "running"
              /\ task' = [task EXCEPT ![t] = AttemptOver(@, LastAttempt(w), time)]
              /\ run' = [run EXCEPT ![t] = RunAfterAttempt(@, LastAttempt(w))]
              /\ forecasts' = forecasts
        BY <1>14, <2>1, <2>4 DEF FailAttempt, LeaseLive
      <3> DEFINE status == IF LastAttempt(w) THEN "failed" ELSE "retry_wait"
                 a == IF LastAttempt(w) THEN time ELSE time + RetryDelay
      <3>2. /\ status \in {"completed", "failed", "retry_wait"} /\ a \in Nat
            /\ AttemptOver(task[t], LastAttempt(w), time) = Released(task[t], status, a)
        BY <3>1, QueueConfiguration DEF QueueConfiguration, AttemptOver
      <3>7. task' = [task EXCEPT ![t] = Released(@, status, a)]
        BY <3>1, <3>2
      <3> HIDE DEF status, a
      <3>3. LeaseInv'
        BY <2>1, <2>2, <3>1, <3>2, <3>7, ReleaseRow
      <3>4. RowsEvolve
        BY <2>1, <3>7, WriteEvolves DEF Released
      <3>5. /\ task'[t].status = status /\ run'[t] = RunAfterAttempt(run[t], LastAttempt(w))
            /\ \A u \in Tasks : u # t => task'[u] = task[u] /\ run'[u] = run[u]
        BY <2>1, <3>1, <3>7 DEF TypeOK, Released
      <3>6. RunTaskAgree'
        BY <2>1, <3>1, <3>5 DEF RunTaskAgree, RunAfterAttempt, Open, status
      <3> QED BY <3>3, <3>4, <3>6
    <2> QED BY <2>3, <2>4
  <1> QED
    BY <1>1, <1>2, <1>3, <1>4, <1>5, <1>6, <1>7, <1>8, <1>9, <1>10, <1>11, <1>12,
       <1>13, <1>14 DEF MainStep

\* Every step of a heartbeat thread.
LEMMA HeartbeatStepInv ==
    ASSUME TypeOK, LeaseInv, RunTaskAgree, NEW w \in Workers, HeartbeatStep(w)
    PROVE  LeaseInv' /\ RunTaskAgree' /\ RowsEvolve
  <1> DEFINE Goal == LeaseInv' /\ RunTaskAgree' /\ RowsEvolve
  <1>0. UNCHANGED <<lease, issued>> /\ LeasesShrink
    BY Shrinking DEF HeartbeatStep, RenewRead, RenewWrite, HeartbeatScan,
         HeartbeatRecover, HeartbeatEnd, mainThreads
  <1>a. UNCHANGED db => Goal
    BY <1>0, QuietStep
  <1>1. CASE RenewRead(w) \/ HeartbeatScan(w) \/ HeartbeatEnd(w)
    BY <1>1, <1>a DEF RenewRead, HeartbeatScan, HeartbeatEnd
  <1>2. CASE RenewWrite(w)
    <2> DEFINE t == hbLease[w].task
    <2>1. t \in Tasks /\ hbNow[w] \in Nat
      BY <1>2 DEF RenewWrite, TypeOK, TaskLease
    <2>2. UNCHANGED <<run, forecasts>>
      BY <1>2 DEF RenewWrite
    <2>3. CASE task' = task
      BY <1>a, <2>2, <2>3 DEF db
    <2>4. CASE task[t].status = "running" /\ task' = [task EXCEPT ![t] = Renewed(@, hbNow[w])]
      <3>1. LeaseInv'
        BY <1>0, <2>1, <2>4, RenewRow
      <3>2. RowsEvolve
        BY <2>1, <2>4, WriteEvolves DEF Renewed
      <3>3. \A u \in Tasks : task'[u].status = task[u].status
        BY <2>1, <2>4 DEF TypeOK, Renewed
      <3> QED BY <2>2, <3>1, <3>2, <3>3 DEF RunTaskAgree
    <2> QED BY <1>2, <2>3, <2>4 DEF RenewWrite, RenewMatches, LeaseLive
  <1>3. CASE HeartbeatRecover(w)
    <2>1. PICK ref \in hbRefs[w] : RecoverRow(ref, hbNow[w])
      BY <1>3 DEF HeartbeatRecover
    <2>2. ref \in RowRef /\ hbNow[w] \in Nat
      BY DEF TypeOK
    <2> QED BY <1>0, <2>1, <2>2, RecoverRowStep
  <1> QED BY <1>1, <1>2, <1>3 DEF HeartbeatStep

\* Every step, as far as rows, runs and leases go.
LEMMA NextLeaseInv ==
    ASSUME TypeOK, LeaseInv, RunTaskAgree, [Next]_vars
    PROVE  LeaseInv' /\ RunTaskAgree' /\ RowsEvolve
  <1>1. ASSUME NEW t \in Tasks, Enqueue(t)
        PROVE  LeaseInv' /\ RunTaskAgree' /\ RowsEvolve
    <2>0. UNCHANGED <<lease, issued, forecasts>>
      BY <1>1 DEF Enqueue, mainThreads
    <2>1. /\ task'[t].status = "queued" /\ task'[t].attempt_count = 0
          /\ task'[t].lease_token = 0 /\ task'[t].version = 0 /\ run'[t] = "queued"
          /\ \A u \in Tasks : u # t => task'[u] = task[u] /\ run'[u] = run[u]
      BY <1>1 DEF Enqueue, AbsentRow, TypeOK, NoToken
    <2>2. /\ task[t].status = "absent" /\ task[t].attempt_count = 0
          /\ task[t].lease_token = 0 /\ forecasts[t] = 0
      BY <1>1 DEF Enqueue, LeaseInv, LeaseShape, RunTaskAgree, NoToken
    <2>3. RunTaskAgree'
      BY <2>0, <2>1, <2>2 DEF RunTaskAgree, Open, NoToken
    <2>4. LeaseShape'
      BY <2>0, <2>1, <2>2 DEF LeaseInv, LeaseShape, NoToken, TypeOK
    <2>5. AttemptsDisjoint'
      BY <2>0, <2>1, <2>2 DEF LeaseInv, AttemptsDisjoint, TypeOK, TaskLease
    <2>6. LeaseWithinDeadline'
      BY <2>0, <2>1, <2>2 DEF LeaseInv, LeaseWithinDeadline
    <2>7. RowsEvolve
      <3>1. task[t].version = 0
        BY <1>1 DEF Enqueue, LeaseInv, LeaseShape
      <3> QED BY <2>1, <2>2, <3>1 DEF RowsEvolve, TypeOK, TaskRow
    <2> QED BY <2>3, <2>4, <2>5, <2>6, <2>7 DEF LeaseInv
  <1>2. ASSUME NEW t \in Tasks, CorruptPayload(t)
        PROVE  LeaseInv' /\ RunTaskAgree' /\ RowsEvolve
    <2>0. UNCHANGED <<lease, issued, run, forecasts>> /\ LeasesShrink
      BY <1>2 DEF CorruptPayload, mainThreads, LeasesShrink
    <2>1. \A u \in Tasks : /\ task'[u].status = task[u].status
                           /\ task'[u].attempt_count = task[u].attempt_count
                           /\ task'[u].attempt_started_at = task[u].attempt_started_at
                           /\ task'[u].lease_token = task[u].lease_token
                           /\ task'[u].lease_expires_at = task[u].lease_expires_at
                           /\ task'[u].version = task[u].version
      BY <1>2 DEF CorruptPayload, TypeOK, TaskRow
    <2>2. LeaseInv'
      BY <2>0, <2>1, SameRows
    <2>3. RunTaskAgree' /\ RowsEvolve
      BY <2>0, <2>1 DEF RunTaskAgree, RowsEvolve, TypeOK, TaskRow
    <2> QED BY <2>2, <2>3
  <1>3. ASSUME NEW w \in Workers, Crash(w)
        PROVE  LeaseInv' /\ RunTaskAgree' /\ RowsEvolve
    BY <1>3, Shrinking, QuietStep DEF Crash
  <1>4. CASE Tick
    <2>1. UNCHANGED <<lease, issued, db>> /\ LeasesShrink
      BY <1>4 DEF Tick, mainThreads, LeasesShrink
    <2> QED BY <2>1, QuietStep
  <1>5. CASE UNCHANGED vars
    <2>1. UNCHANGED <<lease, issued, db>> /\ LeasesShrink
      BY <1>5 DEF vars, db, LeasesShrink
    <2> QED BY <2>1, QuietStep
  <1> QED BY <1>1, <1>2, <1>3, <1>4, <1>5, MainStepInv, HeartbeatStepInv DEF Next

\* References to rows stay fresh: another thread's step only moves the rows
\* forward, a scan reads expired rows at the current time, and an iteration
\* keeps some references or reads the rows again.
LEMMA RefsFreshStep ==
    ASSUME TypeOK, TypeOK', RowsEvolve, RecoverRefsFresh, [Next]_vars
    PROVE  RecoverRefsFresh'
  <1> DEFINE Recovering == {"recover_claim", "recover_return"}
             MainFresh(w) == pc'[w] \in Recovering =>
                 /\ now'[w] <= clock'
                 /\ \A ref \in refs'[w] : RefFresh(ref, task'[ref.task], now'[w])
             BeatFresh(w) == hb'[w] = "recover" =>
                 /\ hbNow'[w] <= clock'
                 /\ \A ref \in hbRefs'[w] : RefFresh(ref, task'[ref.task], hbNow'[w])
  <1>0. /\ clock \in Nat /\ clock' \in Nat /\ clock <= clock'
        /\ \A w \in Workers : now[w] \in Nat /\ hbNow[w] \in Nat
    <2>1. clock' = clock \/ Tick
      BY ZenonT(40) DEF Next, vars, Enqueue, CorruptPayload, Crash, MainStep, HeartbeatStep,
           RecoverScan, RecoverOne, RecoverDone, ClaimScan, ClaimOne, VerifyPayload,
           LoadRun, FailTerminal, BeginExecution, GraphReturns, FinalizeResult,
           MarkFailed, CompleteTask, FailAttempt, RenewRead, RenewWrite, HeartbeatScan,
           HeartbeatRecover, HeartbeatEnd
    <2> QED BY <2>1 DEF TypeOK, Tick
  <1>a. \A ref \in RowRef, time \in Nat :
           RefFresh(ref, task[ref.task], time) => RefFresh(ref, task'[ref.task], time)
    BY FreshPreserved
  <1>b. \A w \in Workers : refs[w] \in SUBSET RowRef /\ hbRefs[w] \in SUBSET RowRef
    BY DEF TypeOK
  <1>c. SUFFICES \A w \in Workers : MainFresh(w) /\ BeatFresh(w)
    BY DEF RecoverRefsFresh
  <1>1. \A w \in Workers :
          /\ now'[w] = now[w] /\ refs'[w] = refs[w]
          /\ pc'[w] \in Recovering => pc'[w] = pc[w]
          => MainFresh(w)
    BY <1>0, <1>a, <1>b DEF RecoverRefsFresh
  <1>2. \A w \in Workers :
          /\ hbNow'[w] = hbNow[w] /\ hbRefs'[w] = hbRefs[w]
          /\ hb'[w] = "recover" => hb[w] = "recover"
          => BeatFresh(w)
    BY <1>0, <1>a, <1>b DEF RecoverRefsFresh
  <1>3. ASSUME NEW rows \in SUBSET RowRef, NEW ref \in rows, NEW time \in Nat,
               \A r \in rows : RefFresh(r, task[r.task], time)
        PROVE  \A r \in RefsAfter(ref, rows, time) : RefFresh(r, task'[r.task], time)
    <2>1. \A r \in ExpiredRefs(time) : RefFresh(r, task[r.task], time) /\ r \in RowRef
      BY <1>3, ScanFresh, RefTypes
    <2>2. \A r \in RefsAfter(ref, rows, time) : RefFresh(r, task[r.task], time) /\ r \in RowRef
      BY <1>3, <2>1 DEF RefsAfter
    <2> QED BY <1>3, <1>a, <2>2
  <1>4. \A r \in ExpiredRefs(clock) : RefFresh(r, task'[r.task], ReadAt(ExpiredRefs(clock)))
    <2>1. \A r \in ExpiredRefs(clock) : RefFresh(r, task[r.task], clock) /\ r \in RowRef
      BY <1>0, ScanFresh, RefTypes
    <2> QED BY <1>0, <1>a, <2>1 DEF ReadAt
  <1>5. ASSUME UNCHANGED mainThreads
        PROVE  \A w \in Workers : MainFresh(w)
    BY <1>1, <1>5 DEF mainThreads
  <1>6. ASSUME UNCHANGED heartbeats
        PROVE  \A w \in Workers : BeatFresh(w)
    BY <1>2, <1>6 DEF heartbeats
  <1>7. ASSUME NEW w \in Workers, MainStep(w)
        PROVE  \A v \in Workers : MainFresh(v)
    <2>0. pc \in [Workers -> Polling \cup Working] /\ now \in [Workers -> Nat]
          /\ refs \in [Workers -> SUBSET RowRef]
      BY DEF TypeOK
    <2>1. ASSUME pc'[w] \notin Recovering,
                 \A v \in Workers \ {w} : pc'[v] = pc[v] /\ now'[v] = now[v] /\ refs'[v] = refs[v]
          PROVE  \A v \in Workers : MainFresh(v)
      BY <1>1, <2>1
    <2>2. ASSUME NEW next, NEW rows, NEW time, next \notin Recovering,
                 Goto(w, next) \/ GotoRows(w, next, rows, time)
          PROVE  \A v \in Workers : MainFresh(v)
      <3>1. pc'[w] = next /\ \A v \in Workers \ {w} :
               pc'[v] = pc[v] /\ now'[v] = now[v] /\ refs'[v] = refs[v]
        BY <2>0, <2>2 DEF Goto, GotoRows
      <3> QED BY <2>1, <2>2, <3>1
    <2>3. CASE \E from, next \in Polling \cup Working : RecoverScan(w, from, next)
      <3>1. /\ now'[w] = ReadAt(ExpiredRefs(clock)) /\ refs'[w] = ExpiredRefs(clock)
            /\ \A v \in Workers \ {w} : pc'[v] = pc[v] /\ now'[v] = now[v] /\ refs'[v] = refs[v]
        BY <2>0, <2>3 DEF RecoverScan
      <3>2. ReadAt(ExpiredRefs(clock)) <= clock'
        BY <1>0 DEF ReadAt
      <3> QED BY <1>1, <1>4, <3>1, <3>2
    <2>4. CASE RecoverOne(w)
      <3>1. PICK ref \in refs[w] : refs' = [refs EXCEPT ![w] = RefsAfter(ref, @, now[w])]
        BY <2>4 DEF RecoverOne
      <3>2. /\ refs'[w] = RefsAfter(ref, refs[w], now[w]) /\ now' = now /\ pc' = pc
            /\ \A v \in Workers \ {w} : refs'[v] = refs[v]
        BY <2>0, <2>4, <3>1 DEF RecoverOne
      <3>3. now[w] \in Nat /\ refs[w] \in SUBSET RowRef /\ now[w] <= clock'
            /\ \A r \in refs[w] : RefFresh(r, task[r.task], now[w])
        BY <1>0, <1>b, <2>4 DEF RecoverOne, RecoverRefsFresh
      <3>4. \A r \in refs'[w] : RefFresh(r, task'[r.task], now'[w])
        BY <1>3, <3>2, <3>3
      <3> QED BY <1>1, <3>2, <3>3, <3>4
    <2>5. CASE RecoverDone(w) \/ ClaimScan(w) \/ VerifyPayload(w) \/ GraphReturns(w)
               \/ FailTerminal(w) \/ BeginExecution(w) \/ FinalizeResult(w)
               \/ MarkFailed(w) \/ CompleteTask(w) \/ FailAttempt(w)
      <3>1. \E next \in {"idle", "claim", "claiming", "leased", "finalize", "mark_failed",
                          "stale", "graph", "fail", "complete"} :
              Goto(w, next) \/ \E rows, time : GotoRows(w, next, rows, time)
        BY <2>5 DEF RecoverDone, ClaimScan, VerifyPayload, GraphReturns, FailTerminal,
             BeginExecution, FinalizeResult, MarkFailed, CompleteTask, FailAttempt, Finish
      <3> QED BY <2>2, <3>1
    <2>6. CASE ClaimOne(w)
      <3>1. /\ pc'[w] \in {"verify", "idle", "claiming"}
            /\ \A v \in Workers \ {w} : pc'[v] = pc[v] /\ now'[v] = now[v] /\ refs'[v] = refs[v]
        BY <2>0, <2>6 DEF ClaimOne, GotoRows
      <3> QED BY <2>1, <3>1
    <2>7. CASE LoadRun(w)
      <3>1. /\ pc'[w] \in {"begin", "already", "integrity"}
            /\ \A v \in Workers \ {w} : pc'[v] = pc[v] /\ now'[v] = now[v] /\ refs'[v] = refs[v]
        BY <2>0, <2>7 DEF LoadRun, Goto
      <3> QED BY <2>1, <3>1
    <2> QED BY <1>7, <2>3, <2>4, <2>5, <2>6, <2>7 DEF MainStep, Polling, Working
  <1>8. ASSUME NEW w \in Workers, MainStep(w)
        PROVE  \A v \in Workers : BeatFresh(v)
    <2>1. CASE UNCHANGED heartbeats
      BY <1>6, <2>1
    <2>2. CASE ~ UNCHANGED heartbeats
      <3>1. LoadRun(w)
        BY <1>8, <2>2 DEF MainStep, RecoverScan, RecoverOne, RecoverDone, ClaimScan,
             ClaimOne, VerifyPayload, FailTerminal, BeginExecution, GraphReturns,
             FinalizeResult, MarkFailed, CompleteTask, FailAttempt
      <3>2. hb'[w] # "recover" /\ \A v \in Workers \ {w} :
              hb'[v] = hb[v] /\ hbNow'[v] = hbNow[v] /\ hbRefs'[v] = hbRefs[v]
        BY <2>2, <3>1 DEF LoadRun, TypeOK
      <3> QED BY <1>2, <3>2
    <2> QED BY <2>1, <2>2
  <1>9. ASSUME NEW w \in Workers, HeartbeatStep(w)
        PROVE  \A v \in Workers : BeatFresh(v) /\ MainFresh(v)
    <2>0. hb \in [Workers -> HeartbeatPC] /\ hbNow \in [Workers -> Nat]
          /\ hbRefs \in [Workers -> SUBSET RowRef]
      BY DEF TypeOK
    <2>1. \A v \in Workers : MainFresh(v)
      BY <1>5, <1>9 DEF HeartbeatStep, RenewRead, RenewWrite, HeartbeatScan,
           HeartbeatRecover, HeartbeatEnd
    <2>2. CASE RenewRead(w) \/ RenewWrite(w) \/ HeartbeatEnd(w)
      <3>1. hb'[w] # "recover" /\ \A v \in Workers \ {w} :
              hb'[v] = hb[v] /\ hbNow'[v] = hbNow[v] /\ hbRefs'[v] = hbRefs[v]
        BY <2>0, <2>2 DEF RenewRead, RenewWrite, HeartbeatEnd, StopHeartbeat
      <3> QED BY <1>2, <2>1, <3>1
    <2>3. CASE HeartbeatScan(w)
      <3>1. /\ hbNow'[w] = ReadAt(ExpiredRefs(clock)) /\ hbRefs'[w] = ExpiredRefs(clock)
            /\ \A v \in Workers \ {w} :
                 hb'[v] = hb[v] /\ hbNow'[v] = hbNow[v] /\ hbRefs'[v] = hbRefs[v]
        BY <2>0, <2>3 DEF HeartbeatScan
      <3>2. ReadAt(ExpiredRefs(clock)) <= clock'
        BY <1>0 DEF ReadAt
      <3> QED BY <1>2, <1>4, <2>1, <3>1, <3>2
    <2>4. CASE HeartbeatRecover(w)
      <3>1. PICK ref \in hbRefs[w] : hbRefs' = [hbRefs EXCEPT ![w] = RefsAfter(ref, @, hbNow[w])]
        BY <2>4 DEF HeartbeatRecover
      <3>2. /\ hbRefs'[w] = RefsAfter(ref, hbRefs[w], hbNow[w]) /\ hbNow' = hbNow /\ hb' = hb
            /\ \A v \in Workers \ {w} : hbRefs'[v] = hbRefs[v]
        BY <2>0, <2>4, <3>1 DEF HeartbeatRecover
      <3>3. hbNow[w] \in Nat /\ hbRefs[w] \in SUBSET RowRef /\ hbNow[w] <= clock'
            /\ \A r \in hbRefs[w] : RefFresh(r, task[r.task], hbNow[w])
        BY <1>0, <1>b, <2>4 DEF HeartbeatRecover, RecoverRefsFresh
      <3>4. \A r \in hbRefs'[w] : RefFresh(r, task'[r.task], hbNow'[w])
        BY <1>3, <3>2, <3>3
      <3> QED BY <1>2, <2>1, <3>2, <3>3, <3>4
    <2> QED BY <1>9, <2>2, <2>3, <2>4 DEF HeartbeatStep
  <1>10. ASSUME NEW w \in Workers, Crash(w)
         PROVE  \A v \in Workers : BeatFresh(v) /\ MainFresh(v)
    <2>1. /\ pc'[w] = "idle" /\ hb'[w] = "off"
          /\ \A v \in Workers \ {w} : /\ pc'[v] = pc[v] /\ now'[v] = now[v] /\ refs'[v] = refs[v]
                                      /\ hb'[v] = hb[v] /\ hbNow'[v] = hbNow[v]
                                      /\ hbRefs'[v] = hbRefs[v]
      BY <1>10 DEF Crash, Finish, GotoRows, StopHeartbeat, TypeOK
    <2> QED BY <1>1, <1>2, <2>1
  <1>11. CASE (\E t \in Tasks : Enqueue(t) \/ CorruptPayload(t)) \/ Tick \/ UNCHANGED vars
    <2>1. UNCHANGED mainThreads /\ UNCHANGED heartbeats
      BY <1>11 DEF Enqueue, CorruptPayload, Tick, vars, mainThreads, heartbeats
    <2> QED BY <1>5, <1>6, <2>1
  <1> QED BY <1>7, <1>8, <1>9, <1>10, <1>11 DEF Next

-----------------------------------------------------------------------------
(* Theorems                                                                *)

LEMMA InitInv == Init => IndInv
  <1> SUFFICES ASSUME Init PROVE IndInv
    OBVIOUS
  <1>1. TypeOK
    BY InitTypes
  <1>2. LeaseShape /\ RunTaskAgree /\ AttemptsDisjoint /\ LeaseWithinDeadline /\ RecoverRefsFresh
    BY DEF Init, LeaseShape, RunTaskAgree, AttemptsDisjoint, LeaseWithinDeadline,
       RecoverRefsFresh, AbsentRow, NoLease, NoToken, Open
  <1> QED BY <1>1, <1>2 DEF IndInv

LEMMA NextInv == IndInv /\ [Next]_vars => IndInv' /\ RowsEvolve
  <1> SUFFICES ASSUME IndInv, [Next]_vars PROVE IndInv' /\ RowsEvolve
    OBVIOUS
  <1>1. TypeOK'
    BY NextTypes DEF IndInv
  <1>2. LeaseInv' /\ RunTaskAgree' /\ RowsEvolve
    BY NextLeaseInv DEF IndInv, LeaseInv
  <1>3. RecoverRefsFresh'
    BY <1>1, <1>2, RefsFreshStep DEF IndInv
  <1> QED BY <1>1, <1>2, <1>3 DEF IndInv, LeaseInv

\* The inductive invariant holds in every reachable state.
THEOREM Invariance == Spec => []IndInv
  <1>1. IndInv /\ [Next]_vars => IndInv'
    BY NextInv
  <1> QED BY InitInv, <1>1, PTL DEF Spec

\* The workflow_tasks and workflow_runs rows of a task agree at all times,
\* through expiries, retries, crashes and late workers.
THEOREM RunTaskAgreement == Spec => []RunTaskAgree
  <1>1. IndInv => RunTaskAgree
    BY DEF IndInv
  <1> QED BY Invariance, <1>1, PTL

\* No two workers ever work on one attempt.
THEOREM DisjointAttempts == Spec => []AttemptsDisjoint
  <1>1. IndInv => AttemptsDisjoint
    BY DEF IndInv
  <1> QED BY Invariance, <1>1, PTL

\* Renewals never carry a lease past its attempt's deadline.
THEOREM DeadlineBound == Spec => []LeaseWithinDeadline
  <1>1. IndInv => LeaseWithinDeadline
    BY DEF IndInv
  <1> QED BY Invariance, <1>1, PTL

\* A step that stores forecasts is the fenced last transaction of the worker
\* that holds the lease, and the only one for its run.
LEMMA PublishStep ==
    ASSUME IndInv, [Next]_vars, NEW t \in Tasks, forecasts'[t] # forecasts[t]
    PROVE  /\ forecasts[t] = NoToken
           /\ forecasts'[t] = task[t].lease_token
           /\ task[t].status = "running"
           /\ task'[t].status = "completed"
  <1>1. PICK w \in Workers : FinalizeResult(w)
    <2>1. ASSUME NEW w \in Workers, MainStep(w), ~ FinalizeResult(w)
          PROVE  forecasts' = forecasts
      BY <2>1 DEF MainStep, db, RecoverScan, RecoverOne, RecoverRow, RecoverDone, ClaimScan,
           ClaimOne, VerifyPayload, TerminalFail, LoadRun, FailTerminal, BeginExecution,
           GraphReturns, MarkFailed, CompleteTask, FailAttempt
    <2>2. ASSUME NEW w \in Workers, HeartbeatStep(w)
          PROVE  forecasts' = forecasts
      BY <2>2 DEF HeartbeatStep, db, RecoverRow, RenewRead, RenewWrite, HeartbeatScan,
           HeartbeatRecover, HeartbeatEnd
    <2> QED BY <2>1, <2>2 DEF Next, vars, db, Enqueue, CorruptPayload, Crash, Tick
  <1>2. TypeOK /\ lease[w].task \in Tasks
    BY <1>1, LeaseFacts DEF IndInv, FinalizeResult, Working
  <1>3. /\ lease[w].task = t /\ forecasts[t] = NoToken /\ task[t].status = "running"
        /\ task[t].lease_token = lease[w].token /\ forecasts'[t] = lease[w].token
        /\ task'[t] = Released(task[t], "completed", task[t].available_at)
    BY <1>1, <1>2 DEF FinalizeResult, FencePasses, LeaseLive, TypeOK, db
  <1> QED BY <1>3 DEF Released

\* Forecasts are stored only by the current holder of the lease, in the step
\* that completes the task: a worker that lost its lease publishes nothing.
THEOREM OnlyHolderPublishes == Spec => PublishedByHolder
  <1>1. IndInv /\ [Next]_vars =>
          [\A t \in Tasks :
             forecasts'[t] # forecasts[t]
             => /\ forecasts[t] = NoToken
                /\ forecasts'[t] = task[t].lease_token
                /\ task[t].status = "running"
                /\ task'[t].status = "completed"]_vars
    BY PublishStep
  <1> QED BY Invariance, <1>1, PTL DEF Spec, PublishedByHolder

\* A row that recover_expired releases has expired on the clock.
LEMMA RecoverTakesExpired ==
    ASSUME TypeOK, NEW ref \in RowRef, NEW time \in Nat, time <= clock,
           RefFresh(ref, task[ref.task], time), RecoverRow(ref, time),
           NEW t \in Tasks, task'[t].lease_token # task[t].lease_token
    PROVE  AttemptExpired(task[t], clock)
  <1>1. RecoverMatches(ref) /\ ref.task \in Tasks
    BY DEF RecoverRow, db, RowRef
  <1>2. t = ref.task
    BY <1>1 DEF RecoverRow, TypeOK
  <1>3. AttemptExpired(task[t], time)
    BY <1>1, <1>2 DEF RecoverMatches, RefFresh
  <1>4. task[t].lease_expires_at \in Nat /\ task[t].attempt_started_at \in Nat
        /\ clock \in Nat /\ TimeoutSeconds \in Nat
    BY QueueConfiguration DEF QueueConfiguration, TypeOK, TaskRow
  <1> QED BY <1>3, <1>4 DEF AttemptExpired

LEMMA TakeStep ==
    ASSUME IndInv, [Next]_vars, NEW t \in Tasks, task[t].status = "running",
           ~ AttemptExpired(task[t], clock), task'[t].lease_token # task[t].lease_token
    PROVE  \E w \in Workers : HeldBy(w, t) /\ pc'[w] # pc[w]
  <1>0. TypeOK /\ LeaseShape /\ RecoverRefsFresh /\ RunTaskAgree
    BY DEF IndInv
  <1>1. ASSUME NEW w \in Workers, MainStep(w)
        PROVE  HeldBy(w, t) /\ pc'[w] # pc[w]
    <2>0. pc \in [Workers -> Polling \cup Working]
      BY <1>0 DEF TypeOK
    <2>1. ~ RecoverOne(w)
      <3> SUFFICES ASSUME RecoverOne(w) PROVE FALSE
        OBVIOUS
      <3>1. PICK ref \in refs[w] : RecoverRow(ref, now[w])
        BY DEF RecoverOne
      <3>2. ref \in RowRef /\ now[w] \in Nat /\ now[w] <= clock
            /\ RefFresh(ref, task[ref.task], now[w])
        BY <1>0 DEF RecoverOne, RecoverRefsFresh, TypeOK
      <3> QED BY <1>0, <3>1, <3>2, RecoverTakesExpired
    <2>2. ~ ClaimOne(w)
      <3> SUFFICES ASSUME ClaimOne(w) PROVE FALSE
        OBVIOUS
      <3>1. PICK ref \in refs[w] : Claimable(task[ref.task], now[w])
                                 /\ task' = [task EXCEPT ![ref.task] = Leased(@, issued + 1, now[w])]
        BY DEF ClaimOne
      <3>2. ref.task \in Tasks
        BY <1>0 DEF TypeOK, RowRef
      <3>3. t = ref.task
        BY <1>0, <3>1, <3>2 DEF TypeOK
      <3> QED BY <3>1, <3>3 DEF Claimable
    <2>3. CASE VerifyPayload(w)
      <3>1. pc[w] = "verify" /\ pc'[w] \in {"idle", "claiming", "leased"}
        BY <2>0, <2>3 DEF VerifyPayload, Goto, GotoRows
      <3>2. lease[w].task \in Tasks
        BY <1>0, <3>1, LeaseFacts DEF Working
      <3> QED BY <1>0, <2>3, <3>1, <3>2
            DEF VerifyPayload, TerminalFail, HeldBy, LeaseLive, db, TypeOK
    <2>4. CASE FailTerminal(w)
      <3>1. pc[w] = "integrity" /\ pc'[w] \in {"idle", "stale"}
        BY <2>0, <2>4 DEF FailTerminal, Goto, Finish, GotoRows
      <3>2. lease[w].task \in Tasks
        BY <1>0, <3>1, LeaseFacts DEF Working
      <3> QED BY <1>0, <2>4, <3>1, <3>2
            DEF FailTerminal, TerminalFail, HeldBy, LeaseLive, db, TypeOK
    <2>5. CASE FinalizeResult(w)
      <3>1. pc[w] = "finalize" /\ pc'[w] \in {"stale", "mark_failed", "complete"}
        BY <2>0, <2>5 DEF FinalizeResult, Goto
      <3>2. lease[w].task \in Tasks
        BY <1>0, <3>1, LeaseFacts DEF Working
      <3> QED BY <1>0, <2>5, <3>1, <3>2
            DEF FinalizeResult, HeldBy, FencePasses, LeaseLive, db, TypeOK
    <2>6. CASE CompleteTask(w)
      <3>1. lease[w].task \in Tasks
        BY <1>0, <2>6, LeaseFacts DEF Working, CompleteTask
      <3> QED BY <1>0, <2>6, <3>1 DEF CompleteTask, RunTaskAgree, LeaseLive, db
    <2>7. CASE FailAttempt(w)
      <3>1. pc[w] = "fail" /\ pc'[w] \in {"idle", "stale"}
        BY <2>0, <2>7 DEF FailAttempt, Goto, Finish, GotoRows
      <3>2. lease[w].task \in Tasks
        BY <1>0, <3>1, LeaseFacts DEF Working
      <3> QED BY <1>0, <2>7, <3>1, <3>2
            DEF FailAttempt, HeldBy, LeaseLive, db, TypeOK
    <2> QED BY <1>1, <2>1, <2>2, <2>3, <2>4, <2>5, <2>6, <2>7
          DEF MainStep, RecoverScan, RecoverDone, ClaimScan, LoadRun, BeginExecution,
              GraphReturns, MarkFailed, db
  <1>2. ASSUME NEW w \in Workers, HeartbeatStep(w)
        PROVE  FALSE
    <2>1. CASE HeartbeatRecover(w)
      <3>1. PICK ref \in hbRefs[w] : RecoverRow(ref, hbNow[w])
        BY <2>1 DEF HeartbeatRecover
      <3>2. ref \in RowRef /\ hbNow[w] \in Nat /\ hbNow[w] <= clock
            /\ RefFresh(ref, task[ref.task], hbNow[w])
        BY <1>0, <2>1 DEF HeartbeatRecover, RecoverRefsFresh, TypeOK
      <3> QED BY <1>0, <3>1, <3>2, RecoverTakesExpired
    <2>2. CASE RenewWrite(w)
      BY <1>0, <2>2 DEF RenewWrite, Renewed, TypeOK
    <2> QED BY <1>2, <2>1, <2>2 DEF HeartbeatStep, RenewRead, HeartbeatScan, HeartbeatEnd, db
  <1>3. ASSUME NEW u \in Tasks, Enqueue(u) \/ CorruptPayload(u)
        PROVE  FALSE
    <2>1. task'[t] = task[t] \/ t = u
      BY <1>0, <1>3 DEF Enqueue, CorruptPayload, TypeOK
    <2> QED BY <1>0, <1>3, <2>1 DEF Enqueue, CorruptPayload
  <1> QED BY <1>1, <1>2, <1>3 DEF Next, Crash, Tick, vars, db

\* A lease that has not expired is never taken from its holder, although
\* recover_expired decides on rows it has read earlier.
THEOREM LiveLeasesAreSafe == Spec => LiveLeaseNotTaken
  <1>1. IndInv /\ [Next]_vars =>
          [\A t \in Tasks :
             (/\ task[t].status = "running"
              /\ ~ AttemptExpired(task[t], clock)
              /\ task'[t].lease_token # task[t].lease_token)
             => \E w \in Workers : HeldBy(w, t) /\ pc'[w] # pc[w]]_vars
    BY TakeStep
  <1> QED BY Invariance, <1>1, PTL DEF Spec, LiveLeaseNotTaken

-----------------------------------------------------------------------------
(* TaskQueue implements RunLedger.                                         *)

\* What the ledger sees of a step: nothing, or one run that is submitted,
\* tried, published or given back.
Unseen == \A t \in Tasks : /\ task'[t].status = task[t].status
                           /\ task'[t].attempt_count = task[t].attempt_count
                           /\ forecasts'[t] = forecasts[t]

SeenAt(t) == \A u \in Tasks : u # t => task'[u] = task[u] /\ forecasts'[u] = forecasts[u]

Submitted(t) == /\ SeenAt(t) /\ task[t].status = "absent" /\ forecasts'[t] = forecasts[t]
                /\ task'[t].status = "queued" /\ task'[t].attempt_count = 0

Tried(t) == /\ SeenAt(t) /\ task[t].status \in Open
            /\ task[t].attempt_count < MaxAttempts
            /\ task'[t].status = "running" /\ forecasts'[t] = forecasts[t]
            /\ task'[t].attempt_count = task[t].attempt_count + 1

GivenBack(t) == /\ SeenAt(t) /\ task[t].status = "running" /\ forecasts'[t] = forecasts[t]
                /\ task'[t].status \in {"failed", "retry_wait"}
                /\ task'[t].attempt_count = task[t].attempt_count

PublishedNow(t) == /\ SeenAt(t) /\ task[t].status = "running" /\ forecasts'[t] # NoToken
                   /\ task'[t].attempt_count = task[t].attempt_count

StepKind == Unseen \/ \E t \in Tasks : Submitted(t) \/ Tried(t) \/ GivenBack(t) \/ PublishedNow(t)

LEMMA KindOfRecover ==
    ASSUME TypeOK, NEW ref \in RowRef, NEW time \in Nat, RecoverRow(ref, time)
    PROVE  StepKind
  <1>1. CASE RecoverMatches(ref)
    <2>0. ref.task \in Tasks
      BY DEF RowRef
    <2>1. /\ task[ref.task].status = "running" /\ forecasts' = forecasts
          /\ \A u \in Tasks : u # ref.task => task'[u] = task[u]
          /\ task'[ref.task] = AttemptOver(task[ref.task],
                                 task[ref.task].attempt_count >= MaxAttempts, time)
      BY <1>1, <2>0 DEF RecoverRow, RecoverMatches, TypeOK
    <2>2. /\ task'[ref.task].status \in {"failed", "retry_wait"}
          /\ task'[ref.task].attempt_count = task[ref.task].attempt_count
      BY <2>1 DEF AttemptOver, Released
    <2> QED BY <2>0, <2>1, <2>2 DEF StepKind, GivenBack, SeenAt
  <1>2. CASE ~ RecoverMatches(ref)
    BY <1>2 DEF RecoverRow, StepKind, Unseen, db
  <1> QED BY <1>1, <1>2

LEMMA KindOfTerminalFail ==
    ASSUME TypeOK, NEW t \in Tasks, NEW time, TerminalFail(t, time), task[t].status = "running"
    PROVE  StepKind
  <1>1. /\ task'[t] = Released(task[t], "failed", time) /\ forecasts' = forecasts
        /\ \A u \in Tasks : u # t => task'[u] = task[u]
    BY DEF TerminalFail, TypeOK
  <1> QED BY <1>1 DEF StepKind, GivenBack, SeenAt, Released

LEMMA KindOfMainStep ==
    ASSUME IndInv, NEW w \in Workers, MainStep(w)
    PROVE  StepKind
  <1> DEFINE t == lease[w].task
  <1>0. TypeOK /\ RunTaskAgree
    BY DEF IndInv
  <1>a. UNCHANGED <<task, forecasts>> => StepKind
    BY DEF StepKind, Unseen
  <1>1. CASE RecoverOne(w)
    <2>1. PICK ref \in refs[w] : RecoverRow(ref, now[w])
      BY <1>1 DEF RecoverOne
    <2> QED BY <1>0, <2>1, KindOfRecover DEF TypeOK
  <1>2. CASE ClaimOne(w)
    <2>1. CASE task' = task
      BY <1>2, <1>a, <2>1 DEF ClaimOne
    <2>2. CASE task' # task
      <3>1. PICK ref \in refs[w] : Claimable(task[ref.task], now[w])
                                 /\ task' = [task EXCEPT ![ref.task] = Leased(@, issued + 1, now[w])]
        BY <1>2, <2>2 DEF ClaimOne
      <3>2. ref.task \in Tasks /\ forecasts' = forecasts
        BY <1>0, <1>2 DEF TypeOK, RowRef, ClaimOne
      <3>3. task'[ref.task] = Leased(task[ref.task], issued + 1, now[w])
            /\ \A u \in Tasks : u # ref.task => task'[u] = task[u]
        BY <1>0, <3>1, <3>2 DEF TypeOK
      <3> QED BY <3>1, <3>2, <3>3 DEF StepKind, Tried, SeenAt, Leased, Claimable, Open
    <2> QED BY <2>1, <2>2
  <1>3. CASE VerifyPayload(w)
    <2>1. t \in Tasks
      BY <1>0, <1>3, LeaseFacts DEF VerifyPayload, Working
    <2> QED BY <1>0, <1>3, <1>a, <2>1, KindOfTerminalFail DEF VerifyPayload, LeaseLive, db
  <1>4. CASE FailTerminal(w)
    <2>1. t \in Tasks
      BY <1>0, <1>4, LeaseFacts DEF FailTerminal, Working
    <2> QED BY <1>0, <1>4, <1>a, <2>1, KindOfTerminalFail DEF FailTerminal, LeaseLive, db
  <1>5. CASE FinalizeResult(w)
    <2>1. t \in Tasks /\ lease[w].token # 0
      BY <1>0, <1>5, LeaseFacts DEF FinalizeResult, Working
    <2>2. CASE UNCHANGED db
      BY <1>a, <2>2 DEF db
    <2>3. CASE ~ UNCHANGED db
      <3>1. /\ task[t].status = "running"
            /\ task' = [task EXCEPT ![t] = Released(@, "completed", task[t].available_at)]
            /\ forecasts' = [forecasts EXCEPT ![t] = lease[w].token]
        BY <1>5, <2>3 DEF FinalizeResult, FencePasses, LeaseLive
      <3>2. /\ SeenAt(t) /\ forecasts'[t] = lease[w].token
            /\ task'[t] = Released(task[t], "completed", task[t].available_at)
        BY <1>0, <2>1, <3>1 DEF TypeOK, SeenAt
      <3> QED BY <2>1, <3>1, <3>2 DEF StepKind, PublishedNow, Released, NoToken
    <2> QED BY <2>2, <2>3
  <1>6. CASE CompleteTask(w)
    <2>1. t \in Tasks
      BY <1>0, <1>6, LeaseFacts DEF CompleteTask, Working
    <2> QED BY <1>0, <1>6, <1>a, <2>1 DEF CompleteTask, RunTaskAgree, LeaseLive, db
  <1>7. CASE FailAttempt(w)
    <2>1. t \in Tasks
      BY <1>0, <1>7, LeaseFacts DEF FailAttempt, Working
    <2>2. CASE UNCHANGED db
      BY <1>a, <2>2 DEF db
    <2>3. CASE ~ UNCHANGED db
      <3>1. PICK time \in ClockReadings(w) :
              /\ task[t].status = "running" /\ forecasts' = forecasts
              /\ task' = [task EXCEPT ![t] = AttemptOver(@, LastAttempt(w), time)]
        BY <1>7, <2>3 DEF FailAttempt, LeaseLive
      <3>2. SeenAt(t) /\ task'[t] = AttemptOver(task[t], LastAttempt(w), time)
        BY <1>0, <2>1, <3>1 DEF TypeOK, SeenAt
      <3>3. /\ task'[t].status \in {"failed", "retry_wait"}
            /\ task'[t].attempt_count = task[t].attempt_count
        BY <3>2 DEF AttemptOver, Released
      <3> QED BY <2>1, <3>1, <3>2, <3>3 DEF StepKind, GivenBack
    <2> QED BY <2>2, <2>3
  <1> QED BY <1>a, <1>1, <1>2, <1>3, <1>4, <1>5, <1>6, <1>7
        DEF MainStep, db, RecoverScan, RecoverDone, ClaimScan, LoadRun, BeginExecution,
            GraphReturns, MarkFailed

LEMMA KindOfStep ==
    ASSUME IndInv, [Next]_vars
    PROVE  StepKind
  <1>0. TypeOK
    BY DEF IndInv
  <1>a. UNCHANGED <<task, forecasts>> => StepKind
    BY DEF StepKind, Unseen
  <1>1. ASSUME NEW t \in Tasks, Enqueue(t)
        PROVE  StepKind
    BY <1>0, <1>1 DEF Enqueue, StepKind, Submitted, SeenAt, AbsentRow, TypeOK
  <1>2. ASSUME NEW t \in Tasks, CorruptPayload(t)
        PROVE  StepKind
    <2>1. \A u \in Tasks : task'[u].status = task[u].status
                           /\ task'[u].attempt_count = task[u].attempt_count
      BY <1>0, <1>2 DEF CorruptPayload, TypeOK, TaskRow
    <2> QED BY <1>2, <2>1 DEF CorruptPayload, StepKind, Unseen
  <1>3. ASSUME NEW w \in Workers, HeartbeatStep(w)
        PROVE  StepKind
    <2>1. CASE HeartbeatRecover(w)
      <3>1. PICK ref \in hbRefs[w] : RecoverRow(ref, hbNow[w])
        BY <2>1 DEF HeartbeatRecover
      <3> QED BY <1>0, <3>1, KindOfRecover DEF TypeOK
    <2>2. CASE RenewWrite(w)
      <3>1. \A u \in Tasks : task'[u].status = task[u].status
                             /\ task'[u].attempt_count = task[u].attempt_count
        BY <1>0, <2>2 DEF RenewWrite, TypeOK, Renewed
      <3> QED BY <2>2, <3>1 DEF RenewWrite, StepKind, Unseen
    <2> QED BY <1>3, <1>a, <2>1, <2>2
          DEF HeartbeatStep, RenewRead, HeartbeatScan, HeartbeatEnd, db
  <1> QED BY <1>a, <1>1, <1>2, <1>3, KindOfMainStep DEF Next, Crash, Tick, vars, db

LEMMA LedgerStep ==
    ASSUME IndInv, IndInv', StepKind
    PROVE  [Ledger!LedgerNext]_(Ledger!ledgerVars)
  <1>0. /\ LeaseShape /\ RunTaskAgree /\ TypeOK
        /\ \A t \in Tasks : task[t].attempt_count \in Nat
    BY DEF IndInv, TypeOK, TaskRow
  <1>a. \A t \in Tasks : task[t].status \in Open \cup {"running"} =>
           forecasts[t] = NoToken /\ Phase[t] = "open" 
    BY <1>0 DEF RunTaskAgree, Open, Phase
  <1>b. \A t \in Tasks : SeenAt(t) => \A u \in Tasks \ {t} :
           Phase'[u] = Phase[u] /\ Tries'[u] = Tries[u]
    BY DEF SeenAt, Phase, Tries
  <1>c. /\ DOMAIN Phase = Tasks /\ DOMAIN Phase' = Tasks
        /\ DOMAIN Tries = Tasks /\ DOMAIN Tries' = Tasks
        /\ \A t \in Tasks : Tries[t] = task[t].attempt_count /\ Tries'[t] = task'[t].attempt_count
    BY DEF Phase, Tries
  <1>d. \A t \in Tasks : \A p : SeenAt(t) /\ Phase'[t] = p => Phase' = [Phase EXCEPT ![t] = p]
    BY ZenonT(40), <1>b, <1>c DEF Phase
  <1>e. \A t \in Tasks : \A n : SeenAt(t) /\ Tries'[t] = n => Tries' = [Tries EXCEPT ![t] = n]
    BY <1>b, <1>c DEF Tries
  <1>1. CASE Unseen
    <2>1. Phase' = Phase /\ Tries' = Tries
      BY <1>1 DEF Unseen, Phase, Tries
    <2> QED BY <2>1 DEF Ledger!ledgerVars
  <1>2. ASSUME NEW t \in Tasks, Submitted(t)
        PROVE  Ledger!LedgerNext
    <2>1. /\ forecasts[t] = NoToken /\ task[t].attempt_count = 0
          /\ Phase[t] = "absent" /\ Phase'[t] = "open" /\ Tries'[t] = Tries[t]
      BY <1>0, <1>2, <1>c DEF Submitted, Phase, RunTaskAgree, LeaseShape
    <2>2. Phase' = [Phase EXCEPT ![t] = "open"] /\ Tries' = Tries
      BY <1>2, <1>d, <1>e, <1>c, <2>1 DEF Submitted, Tries
    <2> QED BY <2>1, <2>2 DEF Ledger!LedgerNext, Ledger!Submit
  <1>3. ASSUME NEW t \in Tasks, Tried(t)
        PROVE  Ledger!LedgerNext
    <2>1. /\ Phase[t] = "open" /\ Phase'[t] = "open" /\ Tries[t] < MaxAttempts
          /\ Tries'[t] = Tries[t] + 1
      BY <1>3, <1>a, <1>c DEF Tried, Phase, Claimable, Open
    <2>2. Phase' = [Phase EXCEPT ![t] = "open"]
      BY <1>3, <1>d, <2>1 DEF Tried
    <2>3. Phase' = Phase
      BY <2>1, <2>2, <1>c DEF Phase
    <2>4. Tries' = [Tries EXCEPT ![t] = Tries[t] + 1]
      BY <1>3, <1>e, <2>1 DEF Tried
    <2> QED BY <2>1, <2>3, <2>4 DEF Ledger!LedgerNext, Ledger!Try
  <1>4. ASSUME NEW t \in Tasks, GivenBack(t)
        PROVE  [Ledger!LedgerNext]_(Ledger!ledgerVars)
    <2>1. /\ Phase[t] = "open" /\ Tries[t] > 0 /\ Tries'[t] = Tries[t]
          /\ forecasts'[t] = NoToken
      BY <1>0, <1>4, <1>a, <1>c DEF GivenBack, LeaseShape
    <2>2. Tries' = Tries
      BY <1>4, <1>e, <1>c, <2>1 DEF GivenBack, Tries
    <2>3. CASE task'[t].status = "failed"
      <3>1. Phase'[t] = "abandoned"
        BY <2>1, <2>3 DEF Phase
      <3>2. Phase' = [Phase EXCEPT ![t] = "abandoned"]
        BY <1>4, <1>d, <3>1 DEF GivenBack
      <3> QED BY <2>1, <2>2, <3>2 DEF Ledger!LedgerNext, Ledger!Abandon
    <2>4. CASE task'[t].status = "retry_wait"
      <3>1. Phase'[t] = "open"
        BY <2>1, <2>4 DEF Phase
      <3>3. Phase' = [Phase EXCEPT ![t] = "open"]
        BY <1>4, <1>d, <3>1 DEF GivenBack
      <3>2. Phase' = Phase
        BY <2>1, <3>3, <1>c DEF Phase
      <3> QED BY <2>2, <3>2 DEF Ledger!ledgerVars
    <2> QED BY <1>4, <2>3, <2>4 DEF GivenBack
  <1>5. ASSUME NEW t \in Tasks, PublishedNow(t)
        PROVE  Ledger!LedgerNext
    <2>1. /\ Phase[t] = "open" /\ Tries[t] > 0 /\ Tries'[t] = Tries[t]
          /\ Phase'[t] = "published"
      BY <1>0, <1>5, <1>a, <1>c DEF PublishedNow, LeaseShape, Phase
    <2>2. Phase' = [Phase EXCEPT ![t] = "published"] /\ Tries' = Tries
      BY <1>5, <1>d, <1>e, <1>c, <2>1 DEF PublishedNow, Tries
    <2> QED BY <2>1, <2>2 DEF Ledger!LedgerNext, Ledger!Publish
  <1> QED BY <1>1, <1>2, <1>3, <1>4, <1>5 DEF StepKind

\* The queue implements the ledger: at most MaxAttempts attempts per run,
\* published once or abandoned for good, never both.
THEOREM LedgerRefinement == Spec => ImplementsLedger
  <1>1. Init => Ledger!LedgerInit
    BY DEF Init, Ledger!LedgerInit, Phase, Tries, AbsentRow, NoToken
  <1>2. IndInv /\ IndInv' /\ [Next]_vars => [Ledger!LedgerNext]_(Ledger!ledgerVars)
    BY KindOfStep, LedgerStep
  <1> QED BY Invariance, <1>1, <1>2, PTL DEF Spec, ImplementsLedger, Ledger!LedgerSpec
=============================================================================
