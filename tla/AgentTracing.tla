---------------------------- MODULE AgentTracing ----------------------------
(***************************************************************************)
(* The best-effort traces of one workflow subject                          *)
(* (backend/app/services/agent_tracing.py): numbered attempts with spans   *)
(* and artifact links that workflows record while they run.  A workflow's  *)
(* call reads first and writes later in a session of its own; database     *)
(* triggers refuse writes to a sealed trace and the call swallows it.      *)
(***************************************************************************)
EXTENDS Naturals, Sequences, FiniteSets

CONSTANTS Recorders,     \* workflows that record on the subject
          MaxTraces      \* bound: attempts

ASSUME TracingConfiguration == MaxTraces \in Nat

VARIABLES
    traces,   \* traces[n]: agent_traces of attempt n
    spans,    \* agent_trace_spans
    links,    \* agent_trace_artifact_links
    rec       \* rec[w]: the workflow's position and the trace it holds

traceVars == <<traces, spans, links, rec>>

TraceStatus == {"running", "completed", "failed"}
Span == [trace : 1..MaxTraces, by : Recorders, status : TraceStatus]
Recorder == [step : {"none", "max", "insert", "held", "span", "close", "link", "seal", "done"},
             trace : 0..MaxTraces, status : TraceStatus]

TracingTypeOK ==
    /\ traces \in Seq(TraceStatus) /\ Len(traces) <= MaxTraces
    /\ spans \subseteq Span
    /\ links \subseteq (1..MaxTraces) \X Recorders
    /\ rec \in [Recorders -> Recorder]

TracingInit ==
    /\ traces = <<>> /\ spans = {} /\ links = {}
    /\ rec = [w \in Recorders |-> [step |-> "none", trace |-> 0, status |-> "running"]]

Running == {n \in DOMAIN traces : traces[n] = "running"}
LatestRunning == IF Running = {} THEN 0 ELSE CHOOSE n \in Running : \A k \in Running : k <= n

At(w, step) == rec' = [rec EXCEPT ![w].step = step]

-----------------------------------------------------------------------------
(* start_trace.                                                            *)

\* trace_id_for(running_only): the running attempt, if there is one.
StartRead(w) ==
    /\ rec[w].step = "none"
    /\ IF Running # {}
       THEN rec' = [rec EXCEPT ![w].step = "held", ![w].trace = LatestRunning]
       ELSE At(w, "max")
    /\ UNCHANGED <<traces, spans, links>>

StartMax(w) ==
    /\ rec[w].step = "max"
    /\ rec' = [rec EXCEPT ![w].step = "insert", ![w].trace = Len(traces)]
    /\ UNCHANGED <<traces, spans, links>>

\* uq_agent_trace_attempt: one row per attempt number.
AttemptFree(n) == n = Len(traces) + 1 /\ n <= MaxTraces

\* The next attempt, or after a conflict the one that runs.
StartInsert(w) ==
    LET n == rec[w].trace + 1 IN
    /\ rec[w].step = "insert" /\ Len(traces) < MaxTraces
    /\ IF AttemptFree(n)
       THEN /\ traces' = Append(traces, "running")
            /\ rec' = [rec EXCEPT ![w].step = "held", ![w].trace = n]
       ELSE /\ rec' = [rec EXCEPT ![w].step = IF Running = {} THEN "done" ELSE "held",
                                  ![w].trace = LatestRunning]
            /\ UNCHANGED traces
    /\ UNCHANGED <<spans, links>>

-----------------------------------------------------------------------------
(* Writing to a trace: a check by the code, then a write behind a trigger. *)

TraceWritableAlways(n) == TRUE

\* trg_agent_trace*_reject_sealed_*: sealed traces take no more rows or updates.
TraceWritable(n) == traces[n] = "running"

\* The workflow is about to open a span, close its own, link an artifact or seal.
Intend(w, step, status) ==
    LET mine == {s \in spans : s.by = w /\ s.trace = rec[w].trace} IN
    /\ rec[w].step = "held" /\ step \in {"span", "close", "link", "seal"}
    /\ traces[rec[w].trace] = "running"
    /\ step = "span" => mine = {}
    /\ step = "close" => \E s \in mine : s.status = "running"
    /\ step = "link" => <<rec[w].trace, w>> \notin links
    /\ rec' = [rec EXCEPT ![w].step = step, ![w].status = status]
    /\ UNCHANGED <<traces, spans, links>>

\* _start_span.
StartSpan(w) ==
    LET n == rec[w].trace IN
    /\ rec[w].step = "span"
    /\ spans' = IF TraceWritable(n) THEN spans \cup {[trace |-> n, by |-> w, status |-> "running"]}
                ELSE spans
    /\ At(w, "held") /\ UNCHANGED <<traces, links>>

\* _finish_span.
FinishSpan(w) ==
    LET n == rec[w].trace
        s == [trace |-> n, by |-> w, status |-> "running"] IN
    /\ rec[w].step = "close"
    /\ spans' = IF TraceWritable(n) THEN (spans \ {s}) \cup {[s EXCEPT !.status = "completed"]}
                ELSE spans
    /\ At(w, "held") /\ UNCHANGED <<traces, links>>

\* link_artifact.
LinkArtifact(w) ==
    /\ rec[w].step = "link"
    /\ links' = IF TraceWritable(rec[w].trace) THEN links \cup {<<rec[w].trace, w>>} ELSE links
    /\ At(w, "held") /\ UNCHANGED <<traces, spans>>

\* finish_trace.
FinishTrace(w) ==
    LET n == rec[w].trace IN
    /\ rec[w].step = "seal"
    /\ traces' = IF TraceWritable(n) THEN [traces EXCEPT ![n] = rec[w].status] ELSE traces
    /\ At(w, "done") /\ UNCHANGED <<spans, links>>

\* A workflow ends, or is killed and started again, without sealing.
Abandon(w) ==
    /\ rec[w].step # "none"
    /\ rec' = [rec EXCEPT ![w] = [step |-> "none", trace |-> 0, status |-> "running"]]
    /\ UNCHANGED <<traces, spans, links>>

\* _close_failed_finalize_trace: a failed attempt seals whatever trace is running.
CloseFailed(w) ==
    /\ rec[w].step \in {"none", "done"} /\ Running # {}
    /\ traces' = [traces EXCEPT ![LatestRunning] = "failed"]
    /\ UNCHANGED <<spans, links, rec>>

TracingStep(w) ==
    \/ StartRead(w) \/ StartMax(w) \/ StartInsert(w)
    \/ \E step \in {"span", "close", "link"} : Intend(w, step, "running")
    \/ \E status \in {"completed", "failed"} : Intend(w, "seal", status)
    \/ StartSpan(w) \/ FinishSpan(w) \/ LinkArtifact(w) \/ FinishTrace(w)
    \/ Abandon(w) \/ CloseFailed(w)

TracingSpec == TracingInit /\ [][\E w \in Recorders : TracingStep(w)]_traceVars

-----------------------------------------------------------------------------
(* What is promised.                                                       *)

\* A sealed trace is final: whoever read it running and writes late changes neither its
\* status nor its spans nor its links (the triggers of db.py behind every recorder call).
SealedTraceIsFinal ==
    [][\A n \in DOMAIN traces : traces[n] # "running" =>
        /\ traces'[n] = traces[n]
        /\ {s \in spans' : s.trace = n} = {s \in spans : s.trace = n}
        /\ {l \in links' : l[1] = n} = {l \in links : l[1] = n}]_<<traces, spans, links>>
=============================================================================
