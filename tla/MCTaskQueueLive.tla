-------------------------- MODULE MCTaskQueueLive --------------------------
(***************************************************************************)
(* TaskQueue with an unbounded clock, for liveness.  TLC needs finitely    *)
(* many states, so at MaxClock every timestamp is shifted down by one      *)
(* second (Rebase) instead of stopping the clock.  Only differences of     *)
(* timestamps matter to the code, so a shift is invisible to it.           *)
(***************************************************************************)
EXTENDS TaskQueue, TLC

CONSTANTS w1, w2, t1, t2

Earlier(n) == IF n = 0 THEN 0 ELSE n - 1

\* In this instance a thread that has read the clock acts before the next
\* second: database steps are short, only graph.invoke takes long.  (The safety
\* runs let the clock advance anywhere.)
Prompt ==
    \A w \in Workers :
        /\ pc[w] \notin ReadsClock \cup {"claiming", "verify"}
        /\ refs[w] = {}
        /\ hb[w] # "renew"
        /\ hbRefs[w] = {}

\* An attempt that has not expired yet started at most TimeoutSeconds ago, so
\* no timestamp still compared is ever shifted below 0.
ASSUME RebaseIsExact == MaxClock > TimeoutSeconds /\ MaxClock > HeartbeatInterval

Rebase ==
    /\ clock = MaxClock
    /\ task' = [t \in Tasks |->
                  [task[t] EXCEPT !.available_at = Earlier(@),
                                  !.attempt_started_at = Earlier(@),
                                  !.lease_expires_at = Earlier(@)]]
    /\ now' = [w \in Workers |-> Earlier(now[w])]
    /\ hbNow' = [w \in Workers |-> Earlier(hbNow[w])]
    /\ UNCHANGED <<run, forecasts, pc, lease, expected, refs, hb, hbLease, hbVersion,
                   hbRefs, issued, crashes>>
    /\ clock' = clock - 1

Pass == Prompt /\ (Tick \/ Rebase)

LiveNext ==
    \/ \E t \in Tasks : Enqueue(t) \/ CorruptPayload(t)
    \/ \E w \in Workers : MainStep(w) \/ HeartbeatStep(w) \/ Crash(w)
    \/ Pass

\* Every thread keeps running unless its process dies (MaxCrashes times at
\* most) and time passes.  graph.invoke may hang for ever: no fairness is
\* assumed of GraphReturns.
Fairness ==
    /\ \A w \in Workers : WF_vars(MainStep(w) /\ ~ GraphReturns(w))
    /\ \A w \in Workers : WF_vars(HeartbeatStep(w))
    /\ WF_vars(Pass)

LiveSpec == Init /\ [][LiveNext]_vars /\ Fairness

\* A submitted run is settled in the end, even if every graph.invoke hangs and
\* every lease is lost, as long as hanging cannot use up all the workers
\* (MaxAttempts of them): heartbeats hand expired attempts back and the last
\* one fails the task.
EveryTaskSettles ==
    \A t \in Tasks :
        task[t].status = "queued" ~> task[t].status \in {"completed", "failed"}
=============================================================================
